------------------------------- MODULE UserDb -------------------------------
(***************************************************************************)
(* The user database of a session (database.c): an XML file that the       *)
(* operator may replace at any time, parsed by the first lookup of a       *)
(* session that can read it and kept until the session ends, and the       *)
(* recursive walker that looks a name up in the parsed nodes.              *)
(***************************************************************************)
EXTENDS Integers, Sequences, FiniteSetsExt

CONSTANTS Logins,       \* the names in the file and in lookups
          Passwords,
          MaxRows,      \* bound on the number of users in the file
          MaxEdits      \* bound on how often the file is replaced

VARIABLES file,     \* what etc/database.xml holds
          edits,    \* how often it has been replaced
          root,     \* what _root points to, NoDocument when it is NULL
          asked,    \* the name of the latest lookup of the session
          answer    \* what get_user_info returned and copied

vars == <<file, edits, root, asked, answer>>

Absent == "absent"
NoDocument == [table |-> <<>>, layout |-> "none"]
Unreadable == [table |-> <<>>, layout |-> "unreadable"]
NoName == "none"

ASSUME DatabaseAssumption ==
    /\ MaxRows \in Nat /\ MaxEdits \in Nat
    /\ Absent \notin Passwords /\ NoName \notin Logins

Rows == [login : Logins, password : Passwords \cup {Absent}]
Tables == UNION {[1 .. n -> Rows] : n \in 0 .. MaxRows}

\* The same users may be written with each element on a line of its own, as in
\* etc/database.xml, on lines with comments, or without any space.
Layouts == {"spaced", "commented", "compact"}
Documents == [table : Tables, layout : Layouts]

-----------------------------------------------------------------------------
(* The nodes that libxml makes of a document.                              *)

Node(name, content, children) == [name |-> name, content |-> content, children |-> children]

\* What stands between two elements: a text node, or two with a comment.
Between(layout) ==
    LET blank == Node("text", "", <<>>)
    IN  CASE layout = "spaced"    -> <<blank>>
          [] layout = "commented" -> <<blank, Node("comment", "", <<>>), blank>>
          [] layout = "compact"   -> <<>>

\* The elements of a sequence, with what separates them in front of and behind each.
Separated(elements, layout) ==
    LET gap  == Between(layout)
        step == Len(gap) + 1
    IN  [k \in 1 .. Len(gap) + step * Len(elements) |->
            IF k % step = 0 THEN elements[k \div step] ELSE gap[k % step]]

UserElement(row, layout) ==
    LET login    == Node("login", row.login, <<>>)
        password == Node("password", row.password, <<>>)
        elements == IF row.password = Absent THEN <<login>> ELSE <<login, password>>
    IN  Node("user", "", Separated(elements, layout))

Nodes(document) ==
    LET users == [i \in DOMAIN document.table |->
                    UserElement(document.table[i], document.layout)]
    IN  <<Node("database", "", Separated(users, document.layout))>>

-----------------------------------------------------------------------------
(* Lookups.                                                                *)

Answer(status, password) == [status |-> status, password |-> password]

\* Mutant of PasswordAfter: the node after the login is taken.
PasswordNext(nodes) ==
    IF Len(nodes) >= 2 /\ nodes[2].name = "password" THEN Answer(1, nodes[2].content)
    ELSE Answer(-1, Absent)

\* Mutant of PasswordAfter: what is found there is not tested.
PasswordUntested(nodes) ==
    IF Len(nodes) >= 3 THEN Answer(1, nodes[3].content) ELSE Answer(-1, Absent)

\* The login has been found at the head: the second node after it is to be its
\* password, the first being taken for the space between them.
PasswordAfter(nodes) ==
    IF Len(nodes) >= 3 /\ nodes[3].name = "password" THEN Answer(1, nodes[3].content)
    ELSE Answer(-1, Absent)

\* A turn of walker's loop: a login with that name, or what the walk below the node
\* gives.
Turn(nodes, i, name, below) ==
    IF nodes[i].name = "login" /\ nodes[i].content = name
    THEN PasswordAfter(SubSeq(nodes, i, Len(nodes)))
    ELSE below

\* The loop ends at the first turn that finds something or meets an error.
FirstAnswer(turns) ==
    LET ending == {i \in DOMAIN turns : turns[i].status # 0}
    IN  IF ending = {} THEN Answer(0, Absent) ELSE turns[Min(ending)]

\* walker, its recursion written out for the levels a document has: the database,
\* its users, and their elements, which have no elements below them.
WalkElements(nodes, name) ==
    FirstAnswer([i \in DOMAIN nodes |-> Turn(nodes, i, name, Answer(0, Absent))])
WalkUsers(nodes, name) ==
    FirstAnswer([i \in DOMAIN nodes |->
                    Turn(nodes, i, name, WalkElements(nodes[i].children, name))])
Walker(nodes, name) ==
    FirstAnswer([i \in DOMAIN nodes |->
                    Turn(nodes, i, name, WalkUsers(nodes[i].children, name))])

Init ==
    /\ file \in Documents \cup {Unreadable}
    /\ edits = 0
    /\ root = NoDocument
    /\ asked = NoName /\ answer = Answer(0, Absent)

\* Mutant of Loaded: the file is parsed at each lookup.
LoadedAgain == IF file = Unreadable THEN NoDocument ELSE file

\* get_root: what it leaves in _root.  A file that cannot be parsed is tried again.
Loaded ==
    IF root # NoDocument THEN root
    ELSE IF file = Unreadable THEN NoDocument
    ELSE file

\* get_user_info
Lookup ==
    \E name \in Logins :
        /\ asked' = name
        /\ root' = Loaded
        /\ answer' = (IF root' = NoDocument THEN Answer(-1, Absent)
                      ELSE Walker(Nodes(root'), name))
        /\ UNCHANGED <<file, edits>>

\* The operator writes another version, or is in the middle of it.
Edit ==
    /\ edits < MaxEdits
    /\ edits' = edits + 1
    /\ file' \in Documents \cup {Unreadable}
    /\ UNCHANGED <<root, asked, answer>>

\* A client connects anew: its process is forked from a parent that never looks up.
NewSession ==
    /\ root' = NoDocument
    /\ asked' = NoName /\ answer' = Answer(0, Absent)
    /\ UNCHANGED <<file, edits>>

Next == Lookup \/ Edit \/ NewSession

Spec == Init /\ [][Next]_vars

-----------------------------------------------------------------------------
(* Properties.                                                             *)

\* Every variable holds a value of its kind.
TypeOK ==
    /\ file \in Documents \cup {Unreadable}
    /\ edits \in 0 .. MaxEdits
    /\ root \in Documents \cup {NoDocument}
    /\ asked \in Logins \cup {NoName}
    /\ answer \in [status : {-1, 0, 1}, password : Passwords \cup {Absent}]
    /\ answer.password = Absent <=> answer.status # 1

\* What the table says of a name: its first row counts.
RowsOf(table, name) == {i \in DOMAIN table : table[i].login = name}
Expected(table, name) ==
    IF RowsOf(table, name) = {} THEN Answer(0, Absent)
    ELSE LET password == table[Min(RowsOf(table, name))].password
         IN  IF password = Absent THEN Answer(-1, Absent) ELSE Answer(1, password)

\* On a file laid out like etc/database.xml the walk over the nodes gives what the
\* table says, wherever the name stands, however often, and whatever is wrong with
\* the rows of other users.
LookupIsCorrect ==
    asked # NoName /\ root.layout = "spaced" => answer = Expected(root.table, asked)

\* On a file of any layout a lookup may fail, but it gives no password that is not
\* the one of a row with that name, and finds no name that is not there.
NeverAnothersPassword ==
    asked # NoName /\ root # NoDocument =>
        /\ answer.status = 1 => \E i \in RowsOf(root.table, asked) :
                                   answer.password = root.table[i].password
        /\ answer.status = 0 <=> RowsOf(root.table, asked) = {}

\* A session answers from one version of the file: once it has parsed one, the same
\* question has the same answer (USER and PASS never disagree on an account) although
\* the file is replaced, or can no longer be read, in between.
AnswersNeverChange ==
    [][root # NoDocument /\ asked' = asked => answer' = answer]_vars
=============================================================================
