---------------------------- MODULE UserDbProofs ----------------------------
(***************************************************************************)
(* Theorems of UserDb, for any names, passwords and number of rows: what   *)
(* the walk over the nodes of a document gives, and what a session makes   *)
(* of it while the file is replaced.                                       *)
(***************************************************************************)
EXTENDS UserDb, SequenceTheorems, WellFoundedInduction, TLAPS

-----------------------------------------------------------------------------
(* The first of several.                                                   *)

\* A set of positions has a least one.
LEMMA HasLeast ==
    ASSUME NEW S \in SUBSET Nat, S # {}
    PROVE  \E m \in S : \A k \in S : m <= k
<1>1. PICK m \in S : \A k \in S : ~ (<<k, m>> \in OpToRel(<, Nat))
  BY WFMin, NatLessThanWellFounded
<1>2. \A k \in S : ~(k < m)
  BY <1>1 DEF OpToRel
<1>3. \A k \in S : k \in Nat
  OBVIOUS
<1> QED
  BY <1>2, <1>3

\* Min is that one.
LEMMA MinIsLeast ==
    ASSUME NEW S \in SUBSET Nat, NEW m \in S, \A k \in S : m <= k
    PROVE  Min(S) = m
<1> DEFINE P(x) == x \in S /\ \A k \in S : x <= k
<1>1. P(m)
  OBVIOUS
<1>2. Min(S) = CHOOSE x \in S : \A k \in S : x <= k
  BY DEF Min
<1>3. P(Min(S))
  BY <1>1, <1>2
<1>4. PICK least \in S : least = Min(S) /\ least <= m /\ m <= least
  BY <1>3
<1> QED
  BY <1>4

LEMMA MinOfSome ==
    ASSUME NEW S \in SUBSET Nat, S # {}
    PROVE  Min(S) \in S /\ \A k \in S : Min(S) <= k
BY HasLeast, MinIsLeast

\* No turn ends the loop.
LEMMA NoAnswer ==
    ASSUME NEW turns, \A i \in DOMAIN turns : turns[i].status = 0
    PROVE  FirstAnswer(turns) = Answer(0, Absent)
<1>1. {i \in DOMAIN turns : turns[i].status # 0} = {}
  OBVIOUS
<1> QED
  BY <1>1 DEF FirstAnswer

\* Turn i ends the loop, for no earlier one does.
LEMMA AnswerOfTurn ==
    ASSUME NEW n \in Nat, NEW turns, DOMAIN turns = 1 .. n,
           NEW i \in 1 .. n, turns[i].status # 0,
           \A j \in 1 .. i - 1 : turns[j].status = 0
    PROVE  FirstAnswer(turns) = turns[i]
<1> DEFINE ending == {k \in DOMAIN turns : turns[k].status # 0}
<1>1. ending \in SUBSET Nat /\ i \in ending
  OBVIOUS
<1>2. \A k \in ending : i <= k
  OBVIOUS
<1>3. Min(ending) = i
  BY <1>1, <1>2, MinIsLeast
<1> QED
  BY <1>1, <1>3 DEF FirstAnswer

-----------------------------------------------------------------------------
(* The nodes of a document.                                                *)

Step(layout) == Len(Between(layout)) + 1

LEMMA StepOfLayout ==
    /\ Step("spaced") = 2 /\ Step("commented") = 4 /\ Step("compact") = 1
BY DEF Step, Between

\* What stands between two elements is neither of them, and has nothing below it.
IsGap(node) == node.name \notin {"login", "password"} /\ node.children = <<>>

LEMMA GapNodes ==
    ASSUME NEW layout \in Layouts, NEW k \in 1 .. Step(layout) - 1
    PROVE  IsGap(Between(layout)[k])
<1>1. CASE layout = "spaced"
  <2>1. k = 1
    BY <1>1, StepOfLayout
  <2> QED
    BY <1>1, <2>1 DEF Between, Node, IsGap
<1>2. CASE layout = "commented"
  <2>1. k = 1 \/ k = 2 \/ k = 3
    BY <1>2, StepOfLayout
  <2> DEFINE blank == Node("text", "", <<>>)
             comment == Node("comment", "", <<>>)
  <2>2. Between("commented") = <<blank, comment, blank>>
    BY DEF Between
  <2>3. IsGap(blank) /\ IsGap(comment)
    BY DEF Node, IsGap
  <2> HIDE DEF blank, comment
  <2>4. <<blank, comment, blank>>[k] \in {blank, comment}
    BY <2>1
  <2> QED
    BY <1>2, <2>2, <2>3, <2>4
<1>3. CASE layout = "compact"
  BY <1>3, StepOfLayout
<1> QED
  BY <1>1, <1>2, <1>3 DEF Layouts

\* Where the elements stand.
Arranged(nodes, elements, step) ==
    LET n    == Len(elements)
        last == step - 1 + step * n
    IN  /\ step \in {1, 2, 4} /\ last \in Nat
        /\ DOMAIN nodes = 1 .. last /\ Len(nodes) = last
        /\ \A i \in 1 .. n : step * i \in 1 .. last /\ nodes[step * i] = elements[i]
        /\ \A k \in 1 .. last :
              \/ \E i \in 1 .. n : k = step * i
              \/ IsGap(nodes[k])

LEMMA SeparatedNodes ==
    ASSUME NEW layout \in Layouts, NEW elements, Len(elements) \in Nat
    PROVE  Arranged(Separated(elements, layout), elements, Step(layout))
<1> DEFINE nodes == Separated(elements, layout)
           n     == Len(elements)
           step  == Step(layout)
           last  == step - 1 + step * n
<1>1. /\ step = 1 \/ step = 2 \/ step = 4
      /\ Len(Between(layout)) = step - 1
  <2>1. Len(Between(layout)) \in Nat
    BY DEF Layouts, Between
  <2> QED
    BY <2>1, StepOfLayout DEF Layouts, Step
<1>2. nodes = [k \in 1 .. last |->
                  IF k % step = 0 THEN elements[k \div step] ELSE Between(layout)[k % step]]
  BY <1>1 DEF Separated
<1>3. last \in Nat
  BY <1>1
<1> HIDE DEF nodes
<1>4. DOMAIN nodes = 1 .. last /\ Len(nodes) = last
  BY <1>2, <1>3
<1>5. ASSUME NEW i \in 1 .. n
      PROVE  step * i \in 1 .. last /\ nodes[step * i] = elements[i]
  <2>1. step * i \in 1 .. last /\ (step * i) % step = 0 /\ (step * i) \div step = i
    BY <1>1
  <2> QED
    BY <1>2, <2>1
<1>6. ASSUME NEW k \in 1 .. last, \A i \in 1 .. n : k # step * i
      PROVE  IsGap(nodes[k])
  <2>1. k % step \in 1 .. step - 1
    <3>1. CASE k % step = 0
      <4>1. k \div step \in 1 .. n /\ k = step * (k \div step)
        BY <1>1, <3>1
      <4> QED
        BY <1>6, <4>1
    <3> QED
      BY <1>1, <3>1
  <2>2. nodes[k] = Between(layout)[k % step]
    BY <1>2, <2>1
  <2> QED
    BY <2>1, <2>2, GapNodes
<1> QED
  BY <1>1, <1>3, <1>4, <1>5, <1>6 DEF nodes, Arranged
-----------------------------------------------------------------------------
(* What the walk gives.                                                    *)

\* What the walk below the element of a row finds of a name: a password is only seen
\* where it is the second node behind the login.
RowAnswer(row, layout, name) ==
    IF row.login # name THEN Answer(0, Absent)
    ELSE IF layout = "spaced" /\ row.password # Absent THEN Answer(1, row.password)
    ELSE Answer(-1, Absent)

\* The login of a row stands behind one gap, its password behind the next.
LEMMA PasswordNode ==
    ASSUME NEW layout \in Layouts, NEW row \in Rows
    PROVE  LET nodes == UserElement(row, layout).children
           IN  PasswordAfter(SubSeq(nodes, Step(layout), Len(nodes))) =
                  RowAnswer(row, layout, row.login)
<1> DEFINE login == Node("login", row.login, <<>>)
           password == Node("password", row.password, <<>>)
           elements == IF row.password = Absent THEN <<login>> ELSE <<login, password>>
           nodes == Separated(elements, layout)
           step == Step(layout)
           rest == SubSeq(nodes, step, Len(nodes))
<1>1. UserElement(row, layout).children = nodes
  BY DEF UserElement, Node
<1>2. password.name = "password" /\ password.content = row.password
  BY DEF Node
<1>3. CASE row.password = Absent
  <2>1. Len(elements) = 1
    BY <1>3
  <2> HIDE DEF elements
  <2>2. /\ step \in {1, 2, 4} /\ Len(nodes) = step - 1 + step
        /\ \A k \in 1 .. step - 1 + step : k = step \/ IsGap(nodes[k])
    <3>1. Arranged(nodes, elements, step)
      BY <2>1, SeparatedNodes
    <3> HIDE DEF nodes, step
    <3> QED
      BY <2>1, <3>1 DEF Arranged
  <2> HIDE DEF nodes, step
  <2>3. /\ Len(rest) = step
        /\ step = 4 => rest[3] = nodes[6]
    BY <2>2
  <2>4. step = 4 => rest[3].name # "password"
    BY <2>2, <2>3 DEF IsGap
  <2> HIDE DEF rest
  <2>5. PasswordAfter(rest) = Answer(-1, Absent)
    BY <2>2, <2>3, <2>4 DEF PasswordAfter
  <2> QED
    BY <1>1, <1>3, <2>5 DEF RowAnswer, rest, step
<1>4. CASE row.password # Absent
  <2>1. Len(elements) = 2 /\ elements[2] = password
    BY <1>4
  <2> HIDE DEF elements, password
  <2>2. /\ step \in {1, 2, 4} /\ Len(nodes) = step - 1 + step + step
        /\ nodes[step + step] = password
        /\ \A k \in 1 .. step - 1 + step + step : k = step \/ k = step + step \/ IsGap(nodes[k])
    <3>1. Arranged(nodes, elements, step)
      BY <2>1, SeparatedNodes
    <3> HIDE DEF nodes, step
    <3>2. /\ step \in {1, 2, 4}
          /\ Len(nodes) = step - 1 + step * 2
          /\ \A i \in 1 .. 2 : nodes[step * i] = elements[i]
          /\ \A k \in 1 .. step - 1 + step * 2 :
                \/ \E i \in 1 .. 2 : k = step * i
                \/ IsGap(nodes[k])
      BY <2>1, <3>1 DEF Arranged
    <3>3. nodes[step + step] = password
      <4>1. 2 \in 1 .. 2 /\ step * 2 = step + step
        BY <3>2
      <4> QED
        BY <2>1, <3>2, <4>1
    <3> QED
      BY <3>2, <3>3
  <2> HIDE DEF nodes, step
  <2>3. /\ Len(rest) = step + step
        /\ step # 1 => rest[3] = nodes[step + 2]
    BY <2>2
  <2>4. /\ step = 2 => rest[3] = password
        /\ step = 4 => IsGap(rest[3])
    BY <2>2, <2>3
  <2> HIDE DEF rest
  <2>5. layout = "spaced" => PasswordAfter(rest) = Answer(1, row.password)
    <3>1. layout = "spaced" => step = 2
      BY StepOfLayout DEF step
    <3> QED
      BY <1>2, <2>3, <2>4, <3>1 DEF PasswordAfter
  <2>6. layout # "spaced" => PasswordAfter(rest) = Answer(-1, Absent)
    <3>1. layout # "spaced" => step = 1 \/ step = 4
      BY StepOfLayout DEF step, Layouts
    <3> QED
      BY <2>3, <2>4, <3>1 DEF PasswordAfter, IsGap
  <2> QED
    BY <1>1, <1>4, <2>5, <2>6 DEF RowAnswer, rest, step
<1> QED
  BY <1>3, <1>4

\* The walk over the nodes of one row.
LEMMA ElementsAnswer ==
    ASSUME NEW layout \in Layouts, NEW row \in Rows, NEW name
    PROVE  WalkElements(UserElement(row, layout).children, name) = RowAnswer(row, layout, name)
<1> DEFINE login == Node("login", row.login, <<>>)
           password == Node("password", row.password, <<>>)
           elements == IF row.password = Absent THEN <<login>> ELSE <<login, password>>
           nodes == Separated(elements, layout)
           step == Step(layout)
           turns == [i \in DOMAIN nodes |-> Turn(nodes, i, name, Answer(0, Absent))]
<1>1. UserElement(row, layout).children = nodes
  BY DEF UserElement, Node
<1>2. /\ login.name = "login" /\ login.content = row.login
      /\ password.name = "password"
  BY DEF Node
<1>3. PICK n \in {1, 2} :
           /\ Len(elements) = n /\ elements[1] = login
           /\ n = 2 => elements[2] = password
  <2> HIDE DEF login, password
  <2>1. CASE row.password = Absent
    BY <2>1
  <2>2. CASE row.password # Absent
    BY <2>2
  <2> QED
    BY <2>1, <2>2
<1> HIDE DEF login, password, elements
<1> DEFINE last == step - 1 + step * n
<1>4. /\ step \in {1, 2, 4} /\ last \in Nat
      /\ DOMAIN nodes = 1 .. last
      /\ \A i \in 1 .. n : step * i \in 1 .. last /\ nodes[step * i] = elements[i]
      /\ \A k \in 1 .. last :
            \/ \E i \in 1 .. n : k = step * i
            \/ IsGap(nodes[k])
  <2>1. Arranged(nodes, elements, step)
    BY <1>3, SeparatedNodes
  <2> HIDE DEF nodes, step
  <2> QED
    BY <1>3, <2>1 DEF Arranged
<1>5. /\ step \in 1 .. last /\ nodes[step] = login
      /\ \A k \in 1 .. last : k # step => nodes[k].name # "login"
  <2>1. step * 1 = step /\ 1 \in 1 .. n
    BY <1>4
  <2>2. \A i \in 1 .. n : i = 1 \/ (i = 2 /\ n = 2)
    BY <1>3
  <2>3. ASSUME NEW k \in 1 .. last, k # step PROVE nodes[k].name # "login"
    <3>1. CASE IsGap(nodes[k])
      BY <3>1 DEF IsGap
    <3>2. ASSUME NEW i \in 1 .. n, k = step * i PROVE nodes[k].name # "login"
      <4>1. i = 2 /\ n = 2
        BY <2>1, <2>2, <2>3, <3>2
      <4> QED
        BY <1>2, <1>3, <1>4, <3>2, <4>1
    <3> QED
      BY <1>4, <3>1, <3>2
  <2> QED
    BY <1>3, <1>4, <2>1, <2>3
<1>6. turns[step] = RowAnswer(row, layout, name)
  <2>1. PasswordAfter(SubSeq(nodes, step, Len(nodes))) = RowAnswer(row, layout, row.login)
    BY <1>1, PasswordNode
  <2>2. turns[step] = Turn(nodes, step, name, Answer(0, Absent))
    BY <1>4, <1>5
  <2> HIDE DEF nodes, step
  <2>3. CASE row.login = name
    BY <1>2, <1>5, <2>1, <2>2, <2>3 DEF Turn
  <2>4. CASE row.login # name
    BY <1>2, <1>5, <2>2, <2>4 DEF Turn, RowAnswer
  <2> QED
    BY <2>3, <2>4
<1>7. \A k \in 1 .. last : k # step => turns[k].status = 0
  BY <1>4, <1>5 DEF Turn, Answer
<1>8. DOMAIN turns = 1 .. last
  BY <1>4
<1>9. WalkElements(nodes, name) = FirstAnswer(turns)
  BY DEF WalkElements
<1> HIDE DEF turns, nodes, step, last
<1>10. CASE row.login = name
  <2>1. turns[step].status # 0
    BY <1>6, <1>10 DEF RowAnswer, Answer
  <2>2. \A k \in 1 .. step - 1 : turns[k].status = 0
    BY <1>4, <1>5, <1>7
  <2> QED
    BY <1>1, <1>4, <1>5, <1>6, <1>8, <1>9, <2>1, <2>2, AnswerOfTurn
<1>11. CASE row.login # name
  <2>1. RowAnswer(row, layout, name) = Answer(0, Absent)
    BY <1>11 DEF RowAnswer
  <2>2. turns[step].status = 0
    BY <1>6, <2>1 DEF Answer
  <2>3. \A k \in DOMAIN turns : turns[k].status = 0
    BY <1>7, <1>8, <2>2
  <2> QED
    BY <1>1, <1>9, <2>1, <2>3, NoAnswer
<1> QED
  BY <1>10, <1>11
\* What the walk over the users of a table gives: the answer of the first row with the
\* name.
TableAnswer(table, layout, name) ==
    IF RowsOf(table, name) = {} THEN Answer(0, Absent)
    ELSE RowAnswer(table[Min(RowsOf(table, name))], layout, name)

LEMMA UsersAnswer ==
    ASSUME NEW layout \in Layouts, NEW table \in Seq(Rows), NEW name
    PROVE  WalkUsers(Separated([i \in DOMAIN table |-> UserElement(table[i], layout)], layout), name)
              = TableAnswer(table, layout, name)
<1> DEFINE users == [i \in DOMAIN table |-> UserElement(table[i], layout)]
           nodes == Separated(users, layout)
           step == Step(layout)
           n == Len(table)
           last == step - 1 + step * n
           turns == [k \in DOMAIN nodes |->
                        Turn(nodes, k, name, WalkElements(nodes[k].children, name))]
           rows == RowsOf(table, name)
<1>1. /\ n \in Nat /\ DOMAIN table = 1 .. n
      /\ \A i \in 1 .. n : table[i] \in Rows
  BY ElementOfSeq, LenProperties
<1>2. /\ Len(users) = n
      /\ \A i \in 1 .. n : users[i] = UserElement(table[i], layout)
  <2>1. users = [i \in 1 .. n |-> UserElement(table[i], layout)]
    BY <1>1
  <2> HIDE DEF users, n
  <2> QED
    BY <1>1, <2>1
<1> HIDE DEF users
<1>3. /\ step \in {1, 2, 4} /\ last \in Nat
      /\ DOMAIN nodes = 1 .. last
      /\ \A i \in 1 .. n : step * i \in 1 .. last /\ nodes[step * i] = users[i]
      /\ \A k \in 1 .. last :
            \/ \E i \in 1 .. n : k = step * i
            \/ IsGap(nodes[k])
  <2>1. Arranged(nodes, users, step)
    BY <1>1, <1>2, SeparatedNodes
  <2> HIDE DEF nodes, step
  <2> QED
    BY <1>2, <2>1 DEF Arranged
<1> HIDE DEF nodes, n, step, last
<1>4. ASSUME NEW i \in 1 .. n
      PROVE  turns[step * i] = RowAnswer(table[i], layout, name)
  <2>1. turns[step * i] = Turn(nodes, step * i, name, WalkElements(nodes[step * i].children, name))
    BY <1>3
  <2>2. nodes[step * i] = UserElement(table[i], layout) /\ nodes[step * i].name = "user"
    <3>1. nodes[step * i] = UserElement(table[i], layout)
      BY <1>2, <1>3
    <3>2. UserElement(table[i], layout).name = "user"
      BY DEF UserElement, Node
    <3> QED
      BY <3>1, <3>2
  <2>3. WalkElements(nodes[step * i].children, name) = RowAnswer(table[i], layout, name)
    BY <1>1, <2>2, ElementsAnswer
  <2> QED
    BY <2>1, <2>2, <2>3 DEF Turn
<1>5. ASSUME NEW k \in 1 .. last, IsGap(nodes[k])
      PROVE  turns[k].status = 0
  <2>1. WalkElements(<<>>, name) = Answer(0, Absent)
    <3>1. \A i \in DOMAIN <<>> :
             [j \in DOMAIN <<>> |-> Turn(<<>>, j, name, Answer(0, Absent))][i].status = 0
      OBVIOUS
    <3> QED
      BY <3>1, NoAnswer DEF WalkElements
  <2>2. turns[k] = Answer(0, Absent)
    BY <1>3, <1>5, <2>1 DEF Turn, IsGap
  <2> QED
    BY <2>2 DEF Answer
<1>6. DOMAIN turns = 1 .. last
  BY <1>3
<1>7. WalkUsers(nodes, name) = FirstAnswer(turns)
  BY DEF WalkUsers
<1>8. /\ rows \in SUBSET Nat /\ rows \subseteq 1 .. n
      /\ \A i \in 1 .. n : i \in rows <=> table[i].login = name
  BY <1>1 DEF RowsOf
<1> HIDE DEF turns, rows
<1>9. \A i \in 1 .. n : turns[step * i].status = 0 <=> i \notin rows
  <2> SUFFICES ASSUME NEW i \in 1 .. n PROVE turns[step * i].status = 0 <=> i \notin rows
    OBVIOUS
  <2>1. turns[step * i] = RowAnswer(table[i], layout, name)
    BY <1>4
  <2>2. RowAnswer(table[i], layout, name).status = 0 <=> table[i].login # name
    BY DEF RowAnswer, Answer
  <2> QED
    BY <1>8, <2>1, <2>2
<1>10. CASE rows = {}
  <2>1. \A k \in DOMAIN turns : turns[k].status = 0
    BY <1>3, <1>5, <1>6, <1>9, <1>10
  <2>2. TableAnswer(table, layout, name) = Answer(0, Absent)
    BY <1>10 DEF TableAnswer, rows
  <2> QED
    BY <1>7, <2>1, <2>2, NoAnswer DEF nodes, users
<1>11. CASE rows # {}
  <2>1. PICK m \in rows : m = Min(rows) /\ \A k \in rows : m <= k
    BY <1>8, <1>11, MinOfSome
  <2>2. m \in 1 .. n /\ step * m \in 1 .. last /\ turns[step * m].status # 0
    BY <1>3, <1>8, <1>9
  <2>3. ASSUME NEW j \in 1 .. step * m - 1 PROVE turns[j].status = 0
    <3>1. j \in 1 .. last
      BY <1>3, <2>2
    <3>2. ASSUME NEW i \in 1 .. n, j = step * i PROVE turns[j].status = 0
      <4>1. i < m
        BY <1>3, <2>2, <2>3, <3>2
      <4> QED
        BY <1>9, <2>1, <2>2, <3>2, <4>1
    <3> QED
      BY <1>3, <1>5, <3>1, <3>2
  <2>4. FirstAnswer(turns) = turns[step * m]
    <3>1. last \in Nat
      BY <1>3
    <3> QED
      BY <1>6, <2>2, <2>3, <3>1, AnswerOfTurn
  <2>5. TableAnswer(table, layout, name) = RowAnswer(table[m], layout, name)
    BY <1>11, <2>1 DEF TableAnswer, rows
  <2> QED
    BY <1>4, <1>7, <2>2, <2>4, <2>5 DEF nodes, users
<1> QED
  BY <1>10, <1>11

\* What get_user_info gives for any document.
LEMMA WalkerAnswer ==
    ASSUME NEW document \in Documents, NEW name
    PROVE  Walker(Nodes(document), name) = TableAnswer(document.table, document.layout, name)
<1> DEFINE users == [i \in DOMAIN document.table |->
                        UserElement(document.table[i], document.layout)]
           below == Separated(users, document.layout)
           nodes == <<Node("database", "", below)>>
           turns == [i \in DOMAIN nodes |->
                        Turn(nodes, i, name, WalkUsers(nodes[i].children, name))]
           answer_ == TableAnswer(document.table, document.layout, name)
<1>1. document.layout \in Layouts /\ document.table \in Seq(Rows)
  BY SeqDef DEF Documents, Tables
<1>2. WalkUsers(below, name) = answer_
  BY <1>1, UsersAnswer
<1>3. Nodes(document) = nodes /\ Walker(nodes, name) = FirstAnswer(turns)
  BY DEF Nodes, Walker
<1>4. DOMAIN nodes = 1 .. 1 /\ nodes[1].name = "database" /\ nodes[1].children = below
  <2> HIDE DEF below
  <2>1. nodes[1] = Node("database", "", below) /\ DOMAIN nodes = 1 .. 1
    OBVIOUS
  <2> QED
    BY <2>1 DEF Node
<1> HIDE DEF nodes, below, answer_
<1>5. DOMAIN turns = 1 .. 1 /\ turns[1] = answer_
  BY <1>2, <1>4 DEF Turn
<1> HIDE DEF turns
<1>6. CASE answer_.status # 0
  <2>1. 1 \in Nat /\ 1 \in 1 .. 1 /\ \A j \in 1 .. 1 - 1 : turns[j].status = 0
    OBVIOUS
  <2> QED
    BY <1>3, <1>5, <1>6, <2>1, AnswerOfTurn DEF answer_
<1>7. CASE answer_.status = 0
  <2>1. FirstAnswer(turns) = Answer(0, Absent)
    BY <1>5, <1>7, NoAnswer
  <2>2. answer_ = Answer(0, Absent)
    BY <1>7 DEF answer_, TableAnswer, RowAnswer, Answer
  <2> QED
    BY <1>3, <2>1, <2>2 DEF answer_
<1> QED
  BY <1>6, <1>7
-----------------------------------------------------------------------------
(* The session.  Its latest answer is what the walk gives on the document  *)
(* it has parsed, whatever has become of the file since.                   *)

AnswerFromRoot ==
    /\ root # NoDocument => asked # NoName
    /\ asked # NoName =>
          answer = (IF root = NoDocument THEN Answer(-1, Absent) ELSE Walker(Nodes(root), asked))

DbInv == TypeOK /\ AnswerFromRoot

\* The answers a walk can give.
Answers ==
    {reply \in [status : {-1, 0, 1}, password : Passwords \cup {Absent}] :
        reply.password = Absent <=> reply.status # 1}

LEMMA TableAnswers ==
    ASSUME NEW document \in Documents, NEW name
    PROVE  TableAnswer(document.table, document.layout, name) \in Answers
<1> DEFINE rows == RowsOf(document.table, name)
<1>1. document.table \in Seq(Rows)
  BY SeqDef DEF Documents, Tables
<1>2. \A i \in DOMAIN document.table : document.table[i] \in Rows
  BY <1>1, LenProperties, ElementOfSeq
<1>3. /\ rows \in SUBSET Nat /\ rows \subseteq DOMAIN document.table
  BY <1>1, LenProperties DEF RowsOf
<1>4. /\ Answer(0, Absent) \in Answers /\ Answer(-1, Absent) \in Answers
      /\ \A password \in Passwords : Answer(1, password) \in Answers
  BY DatabaseAssumption DEF Answer, Answers
<1> HIDE DEF rows
<1>5. ASSUME rows # {} PROVE document.table[Min(rows)] \in Rows
  BY <1>2, <1>3, <1>5, MinOfSome
<1>6. \A row \in Rows : RowAnswer(row, document.layout, name) \in Answers
  BY <1>4 DEF RowAnswer, Rows
<1> QED
  BY <1>4, <1>5, <1>6 DEF TableAnswer, rows

LEMMA DbInit == Init => DbInv
<1> SUFFICES ASSUME Init PROVE DbInv
  OBVIOUS
<1>1. Answer(0, Absent) \in Answers
  BY DEF Answer, Answers
<1>2. answer \in Answers
  BY <1>1 DEF Init
<1>3. 0 \in 0 .. MaxEdits
  BY DatabaseAssumption
<1> QED
  BY <1>2, <1>3 DEF Init, DbInv, TypeOK, AnswerFromRoot, Answers

LEMMA LookupStep ==
    ASSUME DbInv, NEW name \in Logins,
           asked' = name, root' = Loaded,
           answer' = (IF root' = NoDocument THEN Answer(-1, Absent)
                      ELSE Walker(Nodes(root'), name)),
           UNCHANGED <<file, edits>>
    PROVE  DbInv'
<1>1. root' \in Documents \cup {NoDocument}
  BY DEF DbInv, TypeOK, Loaded
<1>2. answer' \in Answers
  <2>1. CASE root' = NoDocument
    BY <2>1 DEF Answer, Answers
  <2>2. CASE root' # NoDocument
    <3>1. root' \in Documents
      BY <1>1, <2>2
    <3>2. answer' = Walker(Nodes(root'), name)
      BY <2>2
    <3> QED
      BY <3>1, <3>2, WalkerAnswer, TableAnswers
  <2> QED
    BY <2>1, <2>2
<1>3. asked' # NoName
  BY DatabaseAssumption
<1> QED
  BY <1>1, <1>2, <1>3 DEF DbInv, TypeOK, AnswerFromRoot, Answers

LEMMA DbStep == DbInv /\ [Next]_vars => DbInv'
<1> SUFFICES ASSUME DbInv, [Next]_vars PROVE DbInv'
  OBVIOUS
<1>1. CASE Lookup
  BY <1>1, LookupStep DEF Lookup
<1>2. CASE Edit
  <2>1. edits' \in 0 .. MaxEdits
    BY <1>2, DatabaseAssumption DEF Edit, DbInv, TypeOK
  <2> QED
    BY <1>2, <2>1 DEF Edit, DbInv, TypeOK, AnswerFromRoot
<1>3. CASE NewSession
  <2>1. answer' \in Answers
    BY <1>3 DEF NewSession, Answer, Answers
  <2> QED
    BY <1>3, <2>1 DEF NewSession, DbInv, TypeOK, AnswerFromRoot, Answers
<1>4. CASE UNCHANGED vars
  BY <1>4 DEF vars, DbInv, TypeOK, AnswerFromRoot
<1> QED
  BY <1>1, <1>2, <1>3, <1>4 DEF Next

\* Every variable holds a value of its kind: in particular a lookup copies a password
\* exactly when it returns 1.
THEOREM TypeCorrect == Spec => []TypeOK
<1>1. DbInv => TypeOK
  BY DEF DbInv
<1> QED
  BY <1>1, DbInit, DbStep, PTL DEF Spec

\* The answer, when the session has a document.
LEMMA AnswerIsTables ==
    ASSUME DbInv, asked # NoName, root # NoDocument
    PROVE  /\ root \in Documents
           /\ answer = TableAnswer(root.table, root.layout, asked)
<1>1. root \in Documents
  BY DEF DbInv, TypeOK
<1>2. answer = Walker(Nodes(root), asked)
  BY DEF DbInv, AnswerFromRoot
<1> QED
  BY <1>1, <1>2, WalkerAnswer

\* On a file laid out like etc/database.xml, of any number of users, the walk over the
\* nodes gives what the table says of the name.
THEOREM LookupAlwaysCorrect == Spec => []LookupIsCorrect
<1>1. DbInv => LookupIsCorrect
  <2> SUFFICES ASSUME DbInv, asked # NoName, root.layout = "spaced"
               PROVE  answer = Expected(root.table, asked)
    BY DEF LookupIsCorrect
  <2>1. root # NoDocument
    BY DEF NoDocument
  <2>2. answer = TableAnswer(root.table, "spaced", asked)
    BY <2>1, AnswerIsTables
  <2> DEFINE rows == RowsOf(root.table, asked)
  <2>3. CASE rows = {}
    BY <2>2, <2>3 DEF TableAnswer, Expected
  <2>4. CASE rows # {}
    <3>1. root.table \in Seq(Rows)
      BY <2>1, AnswerIsTables, SeqDef DEF Documents, Tables
    <3>2. rows \in SUBSET Nat
      BY <3>1, LenProperties DEF RowsOf
    <3>3. Min(rows) \in rows
      BY <2>4, <3>2, MinOfSome
    <3>4. root.table[Min(rows)].login = asked
      BY <3>3 DEF RowsOf
    <3> QED
      BY <2>2, <2>4, <3>4 DEF TableAnswer, RowAnswer, Expected
  <2> QED
    BY <2>3, <2>4
<1> QED
  BY <1>1, DbInit, DbStep, PTL DEF Spec

\* On a file of any of the layouts a lookup gives no password but that of a row with the
\* name, and finds nothing only if there is no such row.
THEOREM NobodyElsesPassword == Spec => []NeverAnothersPassword
<1>1. DbInv => NeverAnothersPassword
  <2> SUFFICES ASSUME DbInv, asked # NoName, root # NoDocument
               PROVE  /\ answer.status = 1 => \E i \in RowsOf(root.table, asked) :
                                                 answer.password = root.table[i].password
                      /\ answer.status = 0 <=> RowsOf(root.table, asked) = {}
    BY DEF NeverAnothersPassword
  <2>1. root \in Documents /\ answer = TableAnswer(root.table, root.layout, asked)
    BY AnswerIsTables
  <2> DEFINE rows == RowsOf(root.table, asked)
  <2>2. CASE rows = {}
    BY <2>1, <2>2 DEF TableAnswer, Answer
  <2>3. CASE rows # {}
    <3>1. root.table \in Seq(Rows)
      BY <2>1, SeqDef DEF Documents, Tables
    <3>2. rows \in SUBSET Nat
      BY <3>1, LenProperties DEF RowsOf
    <3>3. PICK m \in rows : m = Min(rows)
      BY <2>3, <3>2, MinOfSome
    <3>4. root.table[m].login = asked
      BY <3>3 DEF RowsOf
    <3>5. answer = RowAnswer(root.table[m], root.layout, asked)
      BY <2>1, <2>3, <3>3 DEF TableAnswer
    <3>6. answer.status # 0 /\ (answer.status = 1 => answer.password = root.table[m].password)
      BY <3>4, <3>5 DEF RowAnswer, Answer
    <3> QED
      BY <2>3, <3>3, <3>6
  <2> QED
    BY <2>2, <2>3
<1> QED
  BY <1>1, DbInit, DbStep, PTL DEF Spec

\* Once a session has parsed the file, the same question has the same answer, whatever the
\* operator does to the file.
THEOREM AnswersStayTheSame == Spec => AnswersNeverChange
<1>1. ASSUME DbInv, [Next]_vars
      PROVE  [root # NoDocument /\ asked' = asked => answer' = answer]_vars
  <2> SUFFICES ASSUME Next, root # NoDocument, asked' = asked PROVE answer' = answer
    BY <1>1
  <2>1. asked # NoName /\ answer = Walker(Nodes(root), asked)
    BY <1>1 DEF DbInv, AnswerFromRoot
  <2>2. CASE Lookup
    <3>1. root' = root
      BY <2>2 DEF Lookup, Loaded
    <3> QED
      BY <2>1, <2>2, <3>1 DEF Lookup
  <2>3. CASE Edit
    BY <2>3 DEF Edit
  <2>4. CASE NewSession
    BY <2>1, <2>4 DEF NewSession
  <2> QED
    BY <2>2, <2>3, <2>4 DEF Next
<1> QED
  BY <1>1, DbInit, DbStep, PTL DEF Spec, AnswersNeverChange
=============================================================================
