--------------------------- MODULE UserFilesProofs ---------------------------
(***************************************************************************)
(* Theorems of UserFiles, for any sessions, names and bounds: the types,   *)
(* and what a transfer leaves in the file and reads from it whatever the   *)
(* other sessions do meanwhile.                                            *)
(***************************************************************************)
EXTENDS UserFiles, SequenceTheorems, TLAPS

-----------------------------------------------------------------------------
(* Paths.                                                                  *)

LEMMA PathsAreSequences ==
    ASSUME NEW p PROVE p \in Paths <=> p \in Seq(Names) /\ Len(p) <= MaxDepth
<1>1. ASSUME p \in Paths PROVE p \in Seq(Names) /\ Len(p) <= MaxDepth
  <2>1. PICK n \in 0 .. MaxDepth : p \in [1 .. n -> Names]
    BY <1>1 DEF Paths
  <2>2. n \in Nat /\ n <= MaxDepth
    BY <2>1, FilesAssumption
  <2>3. p \in Seq(Names)
    BY <2>1, <2>2, SeqDef
  <2>4. Len(p) \in Nat /\ DOMAIN p = 1 .. Len(p) /\ DOMAIN p = 1 .. n
    BY <2>1, <2>3, LenProperties
  <2> QED
    BY <2>2, <2>3, <2>4
<1>2. ASSUME p \in Seq(Names), Len(p) <= MaxDepth PROVE p \in Paths
  <2>1. Len(p) \in 0 .. MaxDepth /\ p \in [1 .. Len(p) -> Names]
    BY <1>2, LenProperties, FilesAssumption
  <2> QED
    BY <2>1, Zenon DEF Paths
<1> QED
  BY <1>1, <1>2

LEMMA RootIsPath == Root \in Paths /\ Root \in Seq(Names) /\ Len(Root) = 0
<1>1. Root \in Seq(Names) /\ Len(Root) = 0
  BY EmptySeq DEF Root
<1>2. Len(Root) <= MaxDepth
  BY <1>1, FilesAssumption
<1> QED
  BY <1>1, <1>2, PathsAreSequences, Zenon

\* The directory a path lies in.
LEMMA FrontIsPath ==
    ASSUME NEW p \in Paths, p # Root PROVE Front(p) \in Paths
<1>1. p \in Seq(Names) /\ Len(p) <= MaxDepth /\ Len(p) \in Nat \ {0}
  BY PathsAreSequences, EmptySeq DEF Root
<1>2. \A i \in 1 .. Len(p) - 1 : p[i] \in Names
  BY <1>1, ElementOfSeq
<1>3. /\ SubSeq(p, 1, Len(p) - 1) \in Seq(Names)
      /\ Len(SubSeq(p, 1, Len(p) - 1)) = IF 1 <= Len(p) - 1 THEN Len(p) - 1 - 1 + 1 ELSE 0
  <2>1. 1 \in Int /\ Len(p) - 1 \in Int
    BY <1>1
  <2> QED
    BY <1>2, <2>1, SubSeqProperties
<1>4. Len(SubSeq(p, 1, Len(p) - 1)) <= MaxDepth
  BY <1>1, <1>3, FilesAssumption
<1> QED
  BY <1>3, <1>4, PathsAreSequences DEF Front

\* A name below a directory, of which it is the parent.
LEMMA BelowIsPath ==
    ASSUME NEW p \in Paths, NEW name \in Names, Len(p) < MaxDepth
    PROVE  Append(p, name) \in Paths
<1>1. p \in Seq(Names) /\ Len(p) \in Nat
  BY PathsAreSequences, LenProperties
<1>2. Append(p, name) \in Seq(Names) /\ Len(Append(p, name)) = Len(p) + 1
  BY <1>1, AppendProperties
<1>3. Len(Append(p, name)) <= MaxDepth
  BY <1>1, <1>2, FilesAssumption
<1> QED
  BY <1>2, <1>3, PathsAreSequences, Zenon

LEMMA ParentOfBelow ==
    ASSUME NEW p \in Paths, NEW name
    PROVE  ParentOf(Append(p, name)) = p /\ Append(p, name) # Root
<1> DEFINE S == Names \cup {name}
           q == Append(p, name)
<1>1. p \in Seq(S) /\ name \in S
  BY PathsAreSequences, SeqMonotonic
<1>2. Len(p) \in Nat
  BY <1>1, LenProperties
<1>3. /\ q \in Seq(S) /\ q # <<>> /\ Len(q) = Len(p) + 1
      /\ \A i \in 1 .. Len(p) : q[i] = p[i]
  BY <1>1, AppendProperties
<1>4. \A i \in 1 .. Len(p) : q[i] \in S
  BY <1>1, <1>3, ElementOfSeq
<1> HIDE DEF q, S
<1>5. /\ SubSeq(q, 1, Len(p)) \in Seq(S)
      /\ Len(SubSeq(q, 1, Len(p))) = Len(p)
      /\ \A i \in 1 .. Len(p) : SubSeq(q, 1, Len(p))[i] = q[i]
  <2>1. 1 \in Int /\ Len(p) \in Int
    BY <1>2
  <2>2. /\ SubSeq(q, 1, Len(p)) \in Seq(S)
        /\ Len(SubSeq(q, 1, Len(p))) = IF 1 <= Len(p) THEN Len(p) - 1 + 1 ELSE 0
        /\ \A i \in 1 .. Len(p) - 1 + 1 : SubSeq(q, 1, Len(p))[i] = q[1 + i - 1]
    BY <1>4, <2>1, SubSeqProperties
  <2> QED
    BY <1>2, <2>2
<1>6. SubSeq(q, 1, Len(p)) = p
  BY <1>1, <1>3, <1>5, SeqEqual
<1>7. Len(q) - 1 = Len(p)
  BY <1>2, <1>3
<1> QED
  BY <1>3, <1>6, <1>7 DEF ParentOf, Front, Root, q

-----------------------------------------------------------------------------
(* The shapes of a step.  The refusals of all handlers are alike.          *)

\* A request ends without success, or the process does: the tree is left alone.
Drops(s) ==
    /\ pc[s] # "gone"
    /\ UNCHANGED tree
    /\ Forget(s) /\ meddled' = Set(meddled, s, {})
    /\ \/ UNCHANGED cwd /\ \E reply \in FinalCodes \ {226, 250, 257} : Reply(s, reply)
       \/ /\ pc' = Set(pc, s, "gone") /\ code' = Set(code, s, 0)
          /\ cwd' = Set(cwd, s, Root)

Makes(s) == Mkd(s) /\ MkdirWorks(s)
Removes(s) == Rmd(s) /\ RmdirWorks(s)
Unlinks(s) == Dele(s) /\ IsFilePath(Target(s))
Opens(s) == OpenToSend(s) /\ IsFile(s, req[s].arg)

\* A transfer ends with 226.
Sent(s) ==
    /\ pc[s] = "sending" /\ offset[s] >= Len(content[fd[s]])
    /\ Succeed(s, 226) /\ UNCHANGED <<tree, cwd>>
Received(s) == pc[s] = "receiving" /\ Succeed(s, 226) /\ UNCHANGED <<tree, cwd>>

\* A STOR that breaks unlinks what has the name of its file.
Aborts(s) == ReceiveBreaks(s) /\ IsFilePath(Target(s))

StepOf(s) ==
    \/ Drops(s) \/ Cwd(s) \/ Check(s)
    \/ Makes(s) \/ Removes(s) \/ Unlinks(s)
    \/ Opens(s) \/ SendBlock(s) \/ Sent(s)
    \/ Creat(s) \/ ReceiveBlock(s) \/ Received(s) \/ Aborts(s)

LEMMA RefusalDrops ==
    ASSUME NEW s, NEW reply \in FinalCodes \ {226, 250, 257}, pc[s] # "gone",
           Refuse(s, reply), UNCHANGED <<tree, cwd>>
    PROVE  Drops(s)
BY DEF Refuse, Drops

LEMMA StepShapes ==
    ASSUME NEW s, Ask(s) \/ Act(s) \/ Move(s) \/ Dies(s)
    PROVE  StepOf(s)
<1>c. {425, 426, 501, 550, 552} \subseteq FinalCodes \ {226, 250, 257}
  BY DEF FinalCodes
<1> USE DEF StepOf, Asks, Acts
<1>1. CASE CwdFails(s) \/ CheckFails(s)
  <2>1. pc[s] # "gone"
    BY <1>1 DEF CwdFails, CheckFails
  <2> QED
    BY <1>1, <1>c, <2>1, RefusalDrops DEF CwdFails, CheckFails
<1>2. CASE Mkd(s)
  BY <1>2, <1>c, RefusalDrops DEF Mkd, Makes, tree
<1>3. CASE Rmd(s)
  BY <1>3, <1>c, RefusalDrops DEF Rmd, Removes, tree
<1>4. CASE Dele(s)
  BY <1>4, <1>c, RefusalDrops DEF Dele, Unlinks, tree
<1>5. CASE CannotConnect(s) \/ CreatFails(s)
  BY <1>5, <1>c, RefusalDrops DEF CannotConnect, CreatFails
<1>6. CASE OpenToSend(s)
  BY <1>6, <1>c, RefusalDrops DEF OpenToSend, Opens
<1>7. CASE SendEnds(s)
  BY <1>7, <1>c, RefusalDrops DEF SendEnds, Sent
<1>8. CASE ReceiveEnds(s)
  BY <1>8, <1>c, RefusalDrops DEF ReceiveEnds, Received
<1>9. CASE ReceiveBreaks(s)
  BY <1>9, <1>c DEF ReceiveBreaks, Aborts, Drops, tree
<1>10. CASE Dies(s)
  BY <1>10 DEF Dies, Drops
<1> QED
  BY <1>1, <1>2, <1>3, <1>4, <1>5, <1>6, <1>7, <1>8, <1>9, <1>10 DEF Ask, Act, Move

-----------------------------------------------------------------------------
(* The invariant, part by part: the kinds of the values first.             *)

Verbs == {"none", "CWD", "MKD", "RMD", "DELE", "RETR", "STOR"}
Requests == [verb : Verbs, arg : Arguments \cup {NoArg}]

TreeTypes ==
    /\ dirs \subseteq Paths
    /\ files \in [DOMAIN files -> 1 .. uploads] /\ DOMAIN files \subseteq Paths
    /\ content \in [Inodes -> Seq(Blocks)]
    /\ \A inode \in Inodes : Len(content[inode]) <= MaxBlocks
    /\ uploads \in 0 .. MaxUploads

ControlTypes ==
    /\ pc \in [Sessions -> {"idle", "checked", "sending", "receiving", "gone"}]
    /\ cwd \in [Sessions -> Paths]
    /\ req \in [Sessions -> Requests]
    /\ code \in [Sessions -> FinalCodes \cup {0}]

TransferTypes ==
    /\ fd \in [Sessions -> 0 .. uploads]
    /\ upload \in [Sessions -> 0 .. uploads]
    /\ offset \in [Sessions -> 0 .. MaxBlocks]
    /\ got \in [Sessions -> Seq(Blocks)]
    /\ meddled \in [Sessions -> SUBSET {"name", "content"}]

\* A RETR or a STOR from its open() or creat() on, until it is answered and after.
Reads(s) ==
    req[s].verb = "RETR" /\ (pc[s] = "sending" \/ (pc[s] = "idle" /\ code[s] = 226))
Writes(s) ==
    req[s].verb = "STOR" /\ (pc[s] = "receiving" \/ (pc[s] = "idle" /\ code[s] = 226))

\* Where a session is in its request, and what it holds there.
Control(s) ==
    /\ pc[s] = "checked" =>
         /\ req[s].verb \in {"MKD", "RMD", "DELE", "RETR", "STOR"}
         /\ req[s].arg = NoArg => req[s].verb \in {"RETR", "STOR"}
         /\ fd[s] = 0 /\ upload[s] = 0 /\ offset[s] = 0 /\ got[s] = <<>>
    /\ pc[s] \in {"checked", "sending", "receiving"} /\ req[s].arg \in Names =>
         Len(cwd[s]) < MaxDepth
    /\ pc[s] = "sending" => req[s].verb = "RETR"
    /\ pc[s] = "receiving" => req[s].verb = "STOR"
    /\ Reads(s) => fd[s] # 0 /\ offset[s] = Len(got[s])
    /\ Writes(s) => fd[s] # 0 /\ upload[s] # 0

Typed == TreeTypes /\ ControlTypes /\ TransferTypes /\ \A s \in Sessions : Control(s)

\* The path of a request whose argument is not "." or "..".
LEMMA TargetIsPath ==
    ASSUME Typed, NEW s \in Sessions, pc[s] \in {"checked", "sending", "receiving"},
           req[s].arg \notin Dots
    PROVE  /\ Target(s) \in Paths
           /\ req[s].arg # NoArg =>
                Target(s) # Root /\ ParentOf(Target(s)) = cwd[s]
<1>1. /\ cwd[s] \in Paths
      /\ req[s].arg \in Arguments \cup {NoArg}
      /\ req[s].arg \in Names => Len(cwd[s]) < MaxDepth
  BY DEF Typed, ControlTypes, Requests, Control
<1>2. CASE req[s].arg = NoArg
  BY <1>1, <1>2 DEF Target, PathOf
<1>3. CASE req[s].arg # NoArg
  <2>1. req[s].arg \in Names
    BY <1>1, <1>3 DEF Names
  <2>2. Target(s) = Append(cwd[s], req[s].arg)
    BY <1>3 DEF Target, PathOf
  <2> QED
    BY <1>1, <2>1, <2>2, BelowIsPath, ParentOfBelow
<1> QED
  BY <1>2, <1>3

\* What a step does to the bookkeeping of a session.
LEMMA SetType ==
    ASSUME NEW S, NEW T, NEW f \in [S -> T], NEW s \in S, NEW v \in T
    PROVE  /\ Set(f, s, v) \in [S -> T]
           /\ Set(f, s, v)[s] = v
           /\ \A t \in S : t # s => Set(f, s, v)[t] = f[t]
BY DEF Set

LEMMA ForgetTypes ==
    ASSUME Typed, NEW s \in Sessions, Forget(s)
    PROVE  /\ req' \in [Sessions -> Requests]
           /\ fd' \in [Sessions -> 0 .. uploads]
           /\ upload' \in [Sessions -> 0 .. uploads]
           /\ offset' \in [Sessions -> 0 .. MaxBlocks]
           /\ got' \in [Sessions -> Seq(Blocks)]
<1>1. NoRequest \in Requests /\ <<>> \in Seq(Blocks)
  BY EmptySeq DEF NoRequest, Requests, Verbs
<1>2. 0 \in 0 .. uploads /\ 0 \in 0 .. MaxBlocks
  BY FilesAssumption DEF Typed, TreeTypes
<1> QED
  BY <1>1, <1>2, SetType DEF Typed, ControlTypes, TransferTypes, Forget

LEMMA BeginTypes ==
    ASSUME Typed, NEW s \in Sessions, NEW verb \in Verbs, NEW arg \in Arguments,
           Begin(s, verb, arg)
    PROVE  /\ req' \in [Sessions -> Requests]
           /\ fd' \in [Sessions -> 0 .. uploads]
           /\ upload' \in [Sessions -> 0 .. uploads]
           /\ offset' \in [Sessions -> 0 .. MaxBlocks]
           /\ got' \in [Sessions -> Seq(Blocks)]
           /\ meddled' \in [Sessions -> SUBSET {"name", "content"}]
<1>1. [verb |-> verb, arg |-> arg] \in Requests /\ <<>> \in Seq(Blocks)
  BY EmptySeq DEF Requests
<1>2. 0 \in 0 .. uploads /\ 0 \in 0 .. MaxBlocks
  BY FilesAssumption DEF Typed, TreeTypes
<1> QED
  BY <1>1, <1>2, SetType DEF Typed, ControlTypes, TransferTypes, Begin

LEMMA ReplyTypes ==
    ASSUME Typed, NEW s \in Sessions,
           \/ \E reply \in FinalCodes : Reply(s, reply)
           \/ \E where \in {"checked", "sending", "receiving"} : Continue(s, where)
    PROVE  /\ pc' \in [Sessions -> {"idle", "checked", "sending", "receiving", "gone"}]
           /\ code' \in [Sessions -> FinalCodes \cup {0}]
<1>1. PICK where \in {"idle", "checked", "sending", "receiving"}, reply \in FinalCodes \cup {0} :
           pc' = Set(pc, s, where) /\ code' = Set(code, s, reply)
  BY DEF Reply, Continue
<1>2. /\ pc \in [Sessions -> {"idle", "checked", "sending", "receiving", "gone"}]
      /\ code \in [Sessions -> FinalCodes \cup {0}]
  BY DEF Typed, ControlTypes
<1> QED
  BY <1>1, <1>2 DEF Set

LEMMA ControlTypesStep ==
    ASSUME Typed, NEW s \in Sessions, StepOf(s) PROVE ControlTypes'
<1>c. /\ {226, 250, 257} \subseteq FinalCodes
      /\ {"CWD", "MKD", "RMD", "DELE", "RETR", "STOR"} \subseteq Verbs
  BY DEF FinalCodes, Verbs
<1>t. ControlTypes
  BY DEF Typed
<1>1. CASE Drops(s)
  <2>1. req' \in [Sessions -> Requests]
    BY <1>1, ForgetTypes DEF Drops
  <2>2. CASE UNCHANGED cwd /\ \E reply \in FinalCodes \ {226, 250, 257} : Reply(s, reply)
    BY <1>t, <2>1, <2>2, ReplyTypes DEF ControlTypes
  <2>3. CASE /\ pc' = Set(pc, s, "gone") /\ code' = Set(code, s, 0)
             /\ cwd' = Set(cwd, s, Root)
    BY <1>t, <2>1, <2>3, SetType, RootIsPath DEF ControlTypes
  <2> QED
    BY <1>1, <2>2, <2>3 DEF Drops
<1>2. CASE Cwd(s)
  <2>1. PICK arg \in Arguments :
             /\ Asks(s, arg) /\ CwdWorks(s, arg)
             /\ Begin(s, "CWD", arg) /\ Reply(s, 250)
             /\ cwd' = Set(cwd, s, CASE arg = "."  -> cwd[s]
                                     [] arg = ".." -> Front(cwd[s])
                                     [] OTHER      -> Append(cwd[s], arg))
    BY <1>2 DEF Cwd
  <2> DEFINE target == CASE arg = "."  -> cwd[s]
                         [] arg = ".." -> Front(cwd[s])
                         [] OTHER      -> Append(cwd[s], arg)
  <2>2. cwd[s] \in Paths
    BY <1>t DEF ControlTypes
  <2>3. target \in Paths
    <3>1. CASE arg = "."
      BY <2>2, <3>1
    <3>2. CASE arg = ".."
      BY <2>1, <2>2, <3>2, FrontIsPath DEF CwdWorks
    <3>3. CASE arg \notin Dots
      <4>1. arg \in Names /\ Len(cwd[s]) < MaxDepth
        BY <2>1, <3>3 DEF CwdWorks, Names, Asks
      <4> QED
        BY <2>2, <3>3, <4>1, BelowIsPath DEF Dots
    <3> QED
      BY <3>1, <3>2, <3>3 DEF Dots
  <2>4. cwd' \in [Sessions -> Paths]
    <3>1. cwd' = Set(cwd, s, target) /\ cwd \in [Sessions -> Paths]
      BY <1>t, <2>1 DEF ControlTypes
    <3> HIDE DEF target
    <3> QED
      BY <2>3, <3>1, SetType
  <2> QED
    BY <1>c, <2>1, <2>4, BeginTypes, ReplyTypes DEF ControlTypes
<1>3. CASE Check(s)
  <2>1. PICK arg \in Arguments, verb \in Verbs :
             Begin(s, verb, arg) /\ Continue(s, "checked") /\ cwd' = cwd
    BY <1>3, <1>c DEF Check, VerbsWith
  <2> QED
    BY <1>t, <2>1, BeginTypes, ReplyTypes DEF ControlTypes
<1>4. CASE Makes(s) \/ Removes(s) \/ Unlinks(s) \/ Sent(s) \/ Received(s)
  <2>1. UNCHANGED <<req, cwd>> /\ \E reply \in FinalCodes : Reply(s, reply)
    <3>1. CASE Makes(s)
      BY <1>c, <3>1 DEF Makes, Mkd, Succeed
    <3>2. CASE Removes(s)
      BY <1>c, <3>2 DEF Removes, Rmd, Succeed
    <3>3. CASE Unlinks(s)
      BY <1>c, <3>3 DEF Unlinks, Dele
    <3>4. CASE Sent(s) \/ Received(s)
      BY <1>c, <3>4 DEF Sent, Received, Succeed
    <3> QED
      BY <1>4, <3>1, <3>2, <3>3, <3>4
  <2> QED
    BY <1>t, <2>1, ReplyTypes DEF ControlTypes
<1>5. CASE Opens(s) \/ Creat(s)
  <2>1. /\ UNCHANGED <<req, cwd>>
        /\ \E where \in {"checked", "sending", "receiving"} : Continue(s, where)
    BY <1>5 DEF Opens, OpenToSend, Creat
  <2> QED
    BY <1>t, <2>1, ReplyTypes DEF ControlTypes
<1>6. CASE SendBlock(s) \/ ReceiveBlock(s)
  BY <1>t, <1>6 DEF SendBlock, ReceiveBlock, ControlTypes
<1>7. CASE Aborts(s)
  <2>1. Forget(s) /\ Reply(s, 426) /\ UNCHANGED cwd /\ 426 \in FinalCodes
    BY <1>7 DEF Aborts, ReceiveBreaks, FinalCodes
  <2> QED
    BY <1>t, <2>1, ForgetTypes, ReplyTypes DEF ControlTypes
<1> QED
  BY <1>1, <1>2, <1>3, <1>4, <1>5, <1>6, <1>7 DEF StepOf

\* What others have done to a file is among the two things they can do.
LEMMA MeddleTypes ==
    ASSUME meddled \in [Sessions -> SUBSET {"name", "content"}],
           NEW s \in Sessions, NEW inode, NEW what \in {"name", "content"},
           Meddle(s, inode, what)
    PROVE  meddled' \in [Sessions -> SUBSET {"name", "content"}]
BY DEF Meddle

LEMMA TransferTypesStep ==
    ASSUME Typed, NEW s \in Sessions, StepOf(s) PROVE TransferTypes'
<1>t. TransferTypes /\ uploads \in Nat /\ uploads <= MaxUploads
  BY FilesAssumption DEF Typed, TreeTypes
<1> DEFINE Kinds == SUBSET {"name", "content"}
<1>m. ASSUME meddled' = Set(meddled, s, {}) PROVE meddled' \in [Sessions -> Kinds]
  <2>1. meddled \in [Sessions -> Kinds] /\ {} \in Kinds
    BY <1>t DEF TransferTypes
  <2> HIDE DEF Kinds
  <2> QED
    BY <1>m, <2>1, SetType
<1>1. CASE Drops(s)
  BY <1>1, <1>m, ForgetTypes DEF Drops, TransferTypes, tree
<1>2. CASE Cwd(s)
  <2>1. UNCHANGED uploads /\ \E arg \in Arguments : Begin(s, "CWD", arg)
    BY <1>2 DEF Cwd, tree
  <2> QED
    BY <2>1, BeginTypes DEF TransferTypes, Verbs
<1>3. CASE Check(s)
  <2>1. PICK arg \in Arguments, verb \in Verbs : Begin(s, verb, arg)
    BY <1>3 DEF Check, VerbsWith, Verbs
  <2>2. UNCHANGED uploads
    BY <1>3 DEF Check, tree
  <2> QED
    BY <2>1, <2>2, BeginTypes DEF TransferTypes
<1>4. CASE Makes(s) \/ Removes(s) \/ Sent(s) \/ Received(s)
  BY <1>t, <1>4 DEF Makes, Mkd, Removes, Rmd, Sent, Received, Succeed, transfer, tree,
     TransferTypes
<1>5. CASE Unlinks(s)
  <2>1. Meddle(s, files[Target(s)], "name") /\ UNCHANGED <<transfer, uploads>>
    BY <1>5 DEF Unlinks, Dele, Unlink
  <2> QED
    BY <1>t, <2>1, MeddleTypes DEF transfer, TransferTypes
<1>6. CASE Opens(s)
  <2>1. /\ fd' = Set(fd, s, files[Target(s)]) /\ Target(s) \in DOMAIN files
        /\ UNCHANGED <<uploads, upload, offset, got, meddled>>
    BY <1>6 DEF Opens, OpenToSend, IsFile, IsFilePath, Target, tree
  <2>2. files[Target(s)] \in 0 .. uploads
    BY <1>t, <2>1 DEF Typed, TreeTypes
  <2> QED
    BY <1>t, <2>1, <2>2 DEF TransferTypes, Set
<1>7. CASE SendBlock(s)
  <2>1. /\ pc[s] = "sending" /\ offset[s] < Len(content[fd[s]])
        /\ got' = Set(got, s, Append(got[s], content[fd[s]][offset[s] + 1]))
        /\ offset' = Set(offset, s, offset[s] + 1)
        /\ UNCHANGED <<uploads, fd, upload, meddled>>
    BY <1>7 DEF SendBlock, tree
  <2>2. fd[s] \in Inodes
    <3>1. fd[s] # 0 /\ fd[s] \in 0 .. uploads
      BY <1>t, <2>1 DEF Typed, Control, Reads, TransferTypes
    <3> QED
      BY <1>t, <3>1, FilesAssumption DEF Inodes
  <2>3. content[fd[s]] \in Seq(Blocks) /\ Len(content[fd[s]]) <= MaxBlocks
    BY <2>2 DEF Typed, TreeTypes
  <2>4. offset[s] \in Nat /\ got[s] \in Seq(Blocks)
    BY <1>t, FilesAssumption DEF TransferTypes
  <2>5. Len(content[fd[s]]) \in Nat
    BY <2>3, LenProperties
  <2>6. offset[s] + 1 \in 0 .. MaxBlocks /\ offset[s] + 1 \in 1 .. Len(content[fd[s]])
    BY <2>1, <2>3, <2>4, <2>5, FilesAssumption
  <2>7. Append(got[s], content[fd[s]][offset[s] + 1]) \in Seq(Blocks)
    BY <2>3, <2>4, <2>6, ElementOfSeq, AppendProperties
  <2> QED
    BY <1>t, <2>1, <2>6, <2>7 DEF TransferTypes, Set
<1>8. CASE Creat(s)
  <2>1. PICK inode :
             /\ uploads' = uploads + 1
             /\ upload' = Set(upload, s, uploads + 1)
             /\ inode = IF IsFilePath(Target(s)) THEN files[Target(s)] ELSE uploads + 1
             /\ fd' = Set(fd, s, inode)
             /\ Meddle(s, inode, "content")
             /\ UNCHANGED <<offset, got>>
    BY <1>8 DEF Creat
  <2>2. inode \in 0 .. uploads + 1
    BY <1>t, <2>1 DEF IsFilePath, Typed, TreeTypes
  <2>3. /\ fd \in [Sessions -> 0 .. uploads + 1] /\ upload \in [Sessions -> 0 .. uploads + 1]
        /\ uploads + 1 \in 0 .. uploads + 1
    BY <1>t DEF TransferTypes
  <2>4. meddled' \in [Sessions -> SUBSET {"name", "content"}]
    BY <1>t, <2>1, MeddleTypes DEF TransferTypes
  <2> QED
    BY <1>t, <2>1, <2>2, <2>3, <2>4 DEF TransferTypes, Set
<1>9. CASE ReceiveBlock(s)
  <2>1. /\ offset[s] < MaxBlocks /\ offset' = Set(offset, s, offset[s] + 1)
        /\ Meddle(s, fd[s], "content")
        /\ UNCHANGED <<uploads, fd, upload, got>>
    BY <1>9 DEF ReceiveBlock
  <2>2. offset[s] + 1 \in 0 .. MaxBlocks
    BY <1>t, <2>1, FilesAssumption DEF TransferTypes
  <2>3. meddled' \in [Sessions -> SUBSET {"name", "content"}]
    BY <1>t, <2>1, MeddleTypes DEF TransferTypes
  <2> QED
    BY <1>t, <2>1, <2>2, <2>3 DEF TransferTypes, Set
<1>10. CASE Aborts(s)
  <2>1. /\ Forget(s) /\ UNCHANGED uploads
        /\ Meddle(s, files[Target(s)], "name")
    BY <1>10 DEF Aborts, ReceiveBreaks, Unlink
  <2> QED
    BY <1>t, <2>1, ForgetTypes, MeddleTypes DEF TransferTypes
<1> QED
  BY <1>1, <1>2, <1>3, <1>4, <1>5, <1>6, <1>7, <1>8, <1>9, <1>10 DEF StepOf

-----------------------------------------------------------------------------
(* What the calls do to the tree.                                          *)

LEMMA UnlinkEffect ==
    ASSUME NEW s, Unlink(s)
    PROVE  /\ DOMAIN files' = DOMAIN files \ {Target(s)}
           /\ \A p \in DOMAIN files' : files'[p] = files[p]
           /\ files' = [p \in DOMAIN files' |-> files'[p]]
<1>1. files' = [p \in {q \in DOMAIN files : q # Target(s)} |-> files[p]]
  BY DEF Unlink, RestrictDomain, Restrict
<1> QED
  BY <1>1

LEMMA WrittenBlocks ==
    ASSUME NEW blocks \in Seq(Blocks), NEW at \in Nat \ {0}, NEW block \in Blocks
    PROVE  /\ Written(blocks, at, block) \in Seq(Blocks)
           /\ Len(Written(blocks, at, block)) = IF at > Len(blocks) THEN at ELSE Len(blocks)
           /\ \A i \in 1 .. Len(Written(blocks, at, block)) :
                Written(blocks, at, block)[i] =
                   IF i = at THEN block ELSE IF i > Len(blocks) THEN Hole ELSE blocks[i]
<1> DEFINE n == IF at > Len(blocks) THEN at ELSE Len(blocks)
           value(i) == IF i = at THEN block ELSE IF i > Len(blocks) THEN Hole ELSE blocks[i]
<1>1. Len(blocks) \in Nat
  BY LenProperties
<1>2. n \in Nat
  BY <1>1
<1>3. \A i \in 1 .. n : value(i) \in Blocks
  <2>1. ASSUME NEW i \in 1 .. n, i # at, ~(i > Len(blocks)) PROVE blocks[i] \in Blocks
    <3>1. i \in 1 .. Len(blocks)
      BY <1>1, <2>1
    <3> QED
      BY <3>1, ElementOfSeq
  <2>2. Hole \in Blocks
    BY DEF Blocks
  <2> QED
    BY <2>1, <2>2
<1>4. Written(blocks, at, block) = [i \in 1 .. n |-> value(i)]
  BY DEF Written
<1> HIDE DEF n, value
<1>5. [i \in 1 .. n |-> value(i)] \in Seq(Blocks)
  BY <1>2, <1>3, SeqDef
<1>6. Len([i \in 1 .. n |-> value(i)]) = n
  <2>1. /\ Len([i \in 1 .. n |-> value(i)]) \in Nat
        /\ DOMAIN [i \in 1 .. n |-> value(i)] = 1 .. Len([i \in 1 .. n |-> value(i)])
    BY <1>5, LenProperties
  <2> QED
    BY <1>2, <2>1
<1> QED
  BY <1>4, <1>5, <1>6 DEF n, value

\* creat(2), whatever it finds under the name.
LEMMA CreatEffect ==
    ASSUME Typed, NEW s \in Sessions, Creat(s)
    PROVE  /\ Target(s) \in Paths \ {Root}
           /\ ParentOf(Target(s)) \in dirs /\ Target(s) \notin dirs /\ UNCHANGED dirs
           /\ uploads' = uploads + 1 /\ uploads + 1 \in Inodes
           /\ DOMAIN files' = DOMAIN files \cup {Target(s)}
           /\ files' \in [DOMAIN files' -> 1 .. uploads']
           /\ fd' = Set(fd, s, files'[Target(s)])
           /\ \A p \in DOMAIN files : files'[p] = files[p]
           /\ Target(s) \in DOMAIN files \/ files'[Target(s)] = uploads + 1
           /\ content' = Set(content, files'[Target(s)], <<>>)
           /\ Meddle(s, files'[Target(s)], "content")
<1>t. /\ files \in [DOMAIN files -> 1 .. uploads] /\ uploads \in Nat /\ uploads < MaxUploads
      /\ MaxUploads \in Nat
  BY FilesAssumption DEF Typed, TreeTypes, Creat
<1>1. PICK inode :
           /\ inode = IF IsFilePath(Target(s)) THEN files[Target(s)] ELSE uploads + 1
           /\ uploads' = uploads + 1
           /\ fd' = Set(fd, s, inode)
           /\ files' = [p \in DOMAIN files \cup {Target(s)} |->
                           IF p = Target(s) THEN inode ELSE files[p]]
           /\ content' = Set(content, inode, <<>>)
           /\ Meddle(s, inode, "content")
  BY DEF Creat
<1>2. inode \in 1 .. uploads + 1 /\ uploads + 1 \in Inodes
  BY <1>t, <1>1 DEF IsFilePath, Inodes
<1>3. files'[Target(s)] = inode
  BY <1>1
<1>4. /\ Target(s) \in Paths \ {Root}
      /\ ParentOf(Target(s)) \in dirs /\ Target(s) \notin dirs /\ UNCHANGED dirs
  BY TargetIsPath DEF Creat, CreatWorks, Acts
<1>5. files' \in [DOMAIN files' -> 1 .. uploads']
  <2>1. \A p \in DOMAIN files : files[p] \in 1 .. uploads + 1
    BY <1>t
  <2> QED
    BY <1>1, <1>2, <2>1
<1>6. /\ \A p \in DOMAIN files : files'[p] = files[p]
      /\ Target(s) \in DOMAIN files \/ inode = uploads + 1
  BY <1>1 DEF IsFilePath
<1> QED
  BY <1>1, <1>2, <1>3, <1>4, <1>5, <1>6

\* The inode a transfer has open.
LEMMA OpenInode ==
    ASSUME Typed, NEW s \in Sessions, Reads(s) \/ Writes(s)
    PROVE  /\ fd[s] \in Inodes /\ content[fd[s]] \in Seq(Blocks)
           /\ Writes(s) => upload[s] \in Inodes
<1>1. uploads \in Nat /\ uploads <= MaxUploads /\ MaxUploads \in Nat
  BY FilesAssumption DEF Typed, TreeTypes
<1>2. /\ fd[s] \in 0 .. uploads /\ fd[s] # 0
      /\ upload[s] \in 0 .. uploads /\ (Writes(s) => upload[s] # 0)
  BY DEF Typed, TransferTypes, Control
<1>3. fd[s] \in Inodes /\ (Writes(s) => upload[s] \in Inodes)
  BY <1>1, <1>2 DEF Inodes
<1> QED
  BY <1>3 DEF Typed, TreeTypes

\* write(2) at the offset of the descriptor, here `at' blocks into the file.
LEMMA ReceiveEffect ==
    ASSUME Typed, NEW s \in Sessions, ReceiveBlock(s)
    PROVE  \E at \in 1 .. MaxBlocks, new \in Seq(Blocks) :
             /\ Writes(s) /\ fd[s] \in Inodes
             /\ at = offset[s] + 1 /\ offset' = Set(offset, s, at)
             /\ content' = Set(content, fd[s], new)
             /\ Len(new) = IF at > Len(content[fd[s]]) THEN at ELSE Len(content[fd[s]])
             /\ \A i \in 1 .. Len(new) :
                  new[i] = IF i = at THEN Block(upload[s], at)
                           ELSE IF i > Len(content[fd[s]]) THEN Hole ELSE content[fd[s]][i]
             /\ Meddle(s, fd[s], "content")
             /\ UNCHANGED <<dirs, files, uploads>>
<1>1. Writes(s) /\ fd[s] \in Inodes /\ upload[s] \in Inodes /\ content[fd[s]] \in Seq(Blocks)
  <2>1. Writes(s)
    BY DEF ReceiveBlock, Typed, Control, Writes
  <2> QED
    BY <2>1, OpenInode
<1>2. PICK at \in 1 .. MaxBlocks : at = offset[s] + 1
  BY FilesAssumption DEF ReceiveBlock, Typed, TransferTypes
<1>3. PICK blocks \in Seq(Blocks) : blocks = content[fd[s]]
  BY <1>1
<1>4. PICK block \in Blocks : block = Block(upload[s], at)
  BY <1>1, <1>2 DEF Block, Blocks
<1>5. at \in Nat \ {0}
  BY <1>2, FilesAssumption
<1>6. PICK new \in Seq(Blocks) : new = Written(blocks, at, block)
  BY <1>5, WrittenBlocks
<1>7. Len(new) = IF at > Len(blocks) THEN at ELSE Len(blocks)
  BY <1>5, <1>6, WrittenBlocks
<1>8. \A i \in 1 .. Len(new) :
         new[i] = IF i = at THEN block ELSE IF i > Len(blocks) THEN Hole ELSE blocks[i]
  <2>1. \A i \in 1 .. Len(Written(blocks, at, block)) :
           Written(blocks, at, block)[i] =
              IF i = at THEN block ELSE IF i > Len(blocks) THEN Hole ELSE blocks[i]
    BY <1>5, WrittenBlocks
  <2> QED
    BY <1>6, <2>1
<1>9. /\ offset' = Set(offset, s, at)
      /\ content' = Set(content, fd[s], new)
      /\ Meddle(s, fd[s], "content")
      /\ UNCHANGED <<dirs, files, uploads>>
  BY <1>2, <1>3, <1>4, <1>6 DEF ReceiveBlock
<1> QED
  BY <1>1, <1>2, <1>3, <1>4, <1>7, <1>8, <1>9

LEMMA TreeTypesStep ==
    ASSUME Typed, NEW s \in Sessions, StepOf(s) PROVE TreeTypes'
<1>t. TreeTypes
  BY DEF Typed
<1>1. CASE Drops(s) \/ Cwd(s) \/ Check(s) \/ Opens(s) \/ SendBlock(s) \/ Sent(s) \/ Received(s)
  <2>1. UNCHANGED tree
    BY <1>1 DEF Drops, Cwd, Check, Opens, OpenToSend, SendBlock, Sent, Received
  <2> QED
    BY <1>t, <2>1 DEF tree, TreeTypes
<1>2. CASE Makes(s)
  <2>1. dirs' = dirs \cup {Target(s)} /\ UNCHANGED <<files, content, uploads>>
    BY <1>2 DEF Makes, Mkd
  <2>2. Target(s) \in Paths
    BY <1>2, TargetIsPath DEF Makes, Mkd, MkdirWorks, Acts
  <2> QED
    BY <1>t, <2>1, <2>2 DEF TreeTypes
<1>3. CASE Removes(s)
  BY <1>t, <1>3 DEF Removes, Rmd, TreeTypes
<1>4. CASE Unlinks(s) \/ Aborts(s)
  <2>1. Unlink(s) /\ UNCHANGED <<dirs, content, uploads>>
    BY <1>4 DEF Unlinks, Dele, Aborts, ReceiveBreaks
  <2> QED
    BY <1>t, <2>1, UnlinkEffect DEF TreeTypes
<1>5. CASE Creat(s)
  <2>1. /\ DOMAIN files' \subseteq Paths /\ files' \in [DOMAIN files' -> 1 .. uploads']
        /\ UNCHANGED dirs /\ uploads' = uploads + 1
    BY <1>t, <1>5, CreatEffect DEF TreeTypes
  <2>2. uploads' \in 0 .. MaxUploads
    <3>1. uploads' = uploads + 1 /\ uploads + 1 \in Inodes
      BY <1>5, CreatEffect
    <3> QED
      BY <3>1, FilesAssumption DEF Inodes
  <2>3. content' \in [Inodes -> Seq(Blocks)]
    <3>1. content' = Set(content, files'[Target(s)], <<>>) /\ <<>> \in Seq(Blocks)
      BY <1>5, CreatEffect, EmptySeq
    <3> QED
      BY <1>t, <3>1 DEF TreeTypes, Set
  <2>4. \A inode \in Inodes : Len(content'[inode]) <= MaxBlocks
    <3>1. content' = Set(content, files'[Target(s)], <<>>)
      BY <1>5, CreatEffect
    <3>2. Len(<<>>) <= MaxBlocks
      BY FilesAssumption
    <3>3. \A inode \in Inodes : content'[inode] = content[inode] \/ content'[inode] = <<>>
      BY <1>t, <3>1 DEF TreeTypes, Set
    <3> QED
      BY <1>t, <3>3, <3>2 DEF TreeTypes
  <2> QED
    BY <1>t, <2>1, <2>2, <2>3, <2>4 DEF TreeTypes
<1>6. CASE ReceiveBlock(s)
  <2>1. PICK at \in 1 .. MaxBlocks, new \in Seq(Blocks) :
             /\ fd[s] \in Inodes
             /\ content' = Set(content, fd[s], new)
             /\ Len(new) = IF at > Len(content[fd[s]]) THEN at ELSE Len(content[fd[s]])
             /\ UNCHANGED <<dirs, files, uploads>>
    BY <1>6, ReceiveEffect
  <2>2. Len(new) <= MaxBlocks
    BY <1>t, <2>1, FilesAssumption DEF TreeTypes
  <2> QED
    BY <1>t, <2>1, <2>2 DEF TreeTypes, Set
<1> QED
  BY <1>1, <1>2, <1>3, <1>4, <1>5, <1>6 DEF StepOf

-----------------------------------------------------------------------------
(* A step is its session's alone: what it may do to another is to the file  *)
(* that the other has open, and the other is told.                         *)

LEMMA OthersStay ==
    ASSUME Typed, NEW s \in Sessions, StepOf(s), NEW t \in Sessions, t # s
    PROVE  /\ pc'[t] = pc[t] /\ cwd'[t] = cwd[t] /\ req'[t] = req[t] /\ code'[t] = code[t]
           /\ fd'[t] = fd[t] /\ upload'[t] = upload[t]
           /\ offset'[t] = offset[t] /\ got'[t] = got[t]
<1> DEFINE Stay == /\ pc'[t] = pc[t] /\ cwd'[t] = cwd[t] /\ req'[t] = req[t]
                   /\ code'[t] = code[t]
           StayToo == /\ fd'[t] = fd[t] /\ upload'[t] = upload[t]
                      /\ offset'[t] = offset[t] /\ got'[t] = got[t]
<1>d. /\ DOMAIN pc = Sessions /\ DOMAIN cwd = Sessions /\ DOMAIN req = Sessions
      /\ DOMAIN code = Sessions /\ DOMAIN fd = Sessions /\ DOMAIN upload = Sessions
      /\ DOMAIN offset = Sessions /\ DOMAIN got = Sessions
  BY DEF Typed, ControlTypes, TransferTypes
<1>f. ASSUME Forget(s) PROVE req'[t] = req[t] /\ StayToo
  BY <1>d, <1>f DEF Forget, Set
<1>b. ASSUME NEW verb, NEW arg, Begin(s, verb, arg) PROVE req'[t] = req[t] /\ StayToo
  BY <1>d, <1>b DEF Begin, Set
<1>r. ASSUME NEW c, Reply(s, c) \/ Continue(s, c) PROVE pc'[t] = pc[t] /\ code'[t] = code[t]
  BY <1>d, <1>r DEF Reply, Continue, Set
<1>u. ASSUME NEW c, Succeed(s, c), UNCHANGED cwd PROVE Stay /\ StayToo
  BY <1>u, <1>r DEF Succeed, transfer
<1>1. CASE Drops(s)
  BY <1>1, <1>d, <1>f, <1>r DEF Drops, Set
<1>2. CASE Cwd(s)
  BY <1>2, <1>d, <1>b, <1>r DEF Cwd, Set
<1>3. CASE Check(s)
  BY <1>3, <1>b, <1>r DEF Check
<1>4. CASE Makes(s) \/ Removes(s) \/ Sent(s) \/ Received(s)
  BY <1>4, <1>u DEF Makes, Mkd, Removes, Rmd, Sent, Received
<1>5. CASE Unlinks(s)
  BY <1>5, <1>r DEF Unlinks, Dele, transfer
<1>6. CASE Opens(s)
  BY <1>6, <1>d, <1>r DEF Opens, OpenToSend, Set
<1>7. CASE Creat(s)
  BY <1>7, <1>d, <1>r DEF Creat, Set
<1>8. CASE SendBlock(s) \/ ReceiveBlock(s)
  BY <1>8, <1>d DEF SendBlock, ReceiveBlock, Set
<1>9. CASE Aborts(s)
  BY <1>9, <1>f, <1>r DEF Aborts, ReceiveBreaks
<1> QED
  BY <1>1, <1>2, <1>3, <1>4, <1>5, <1>6, <1>7, <1>8, <1>9 DEF StepOf

\* What was in an inode that t has open is still there, or t has been told.
KeepsContent(t) ==
    fd[t] \in Inodes =>
        content'[fd[t]] = content[fd[t]] \/ "content" \in meddled'[t]

\* A name still leads to the inode that t has open, or t has been told.
KeepsName(t) ==
    \A p \in DOMAIN files :
        files[p] = fd[t] =>
            (p \in DOMAIN files' /\ files'[p] = fd[t]) \/ "name" \in meddled'[t]

LEMMA OthersAreTold ==
    ASSUME Typed, NEW s \in Sessions, StepOf(s), NEW t \in Sessions, t # s
    PROVE  meddled[t] \subseteq meddled'[t] /\ KeepsContent(t) /\ KeepsName(t)
<1>d. DOMAIN meddled = Sessions /\ content \in [Inodes -> Seq(Blocks)]
  BY DEF Typed, TransferTypes, TreeTypes
<1>m. ASSUME NEW inode, NEW what, Meddle(s, inode, what)
      PROVE  /\ meddled[t] \subseteq meddled'[t]
             /\ fd[t] = inode => what \in meddled'[t]
  BY <1>m DEF Meddle
<1>s. ASSUME UNCHANGED <<files, content>>, UNCHANGED meddled \/ meddled' = Set(meddled, s, {})
      PROVE  meddled[t] \subseteq meddled'[t] /\ KeepsContent(t) /\ KeepsName(t)
  BY <1>d, <1>s DEF Set, KeepsContent, KeepsName
<1>1. CASE Drops(s) \/ Cwd(s) \/ Check(s)
  BY <1>1, <1>s DEF Drops, Cwd, Check, Begin, tree
<1>2. CASE Makes(s) \/ Removes(s) \/ Sent(s) \/ Received(s)
  BY <1>2, <1>s DEF Makes, Mkd, Removes, Rmd, Sent, Received, Succeed, tree
<1>3. CASE Opens(s) \/ SendBlock(s)
  BY <1>3, <1>s DEF Opens, OpenToSend, SendBlock, tree
<1>4. CASE Unlinks(s) \/ Aborts(s)
  <2>1. Unlink(s) /\ UNCHANGED content /\ Meddle(s, files[Target(s)], "name")
    BY <1>4 DEF Unlinks, Dele, Aborts, ReceiveBreaks, Unlink
  <2>2. meddled[t] \subseteq meddled'[t] /\ (fd[t] = files[Target(s)] => "name" \in meddled'[t])
    BY <2>1, <1>m
  <2> QED
    BY <2>1, <2>2, UnlinkEffect DEF KeepsContent, KeepsName
<1>5. CASE Creat(s)
  <2>1. PICK inode :
             /\ content' = Set(content, inode, <<>>) /\ Meddle(s, inode, "content")
             /\ DOMAIN files \subseteq DOMAIN files'
             /\ \A p \in DOMAIN files : files'[p] = files[p]
    BY <1>5, CreatEffect
  <2>2. meddled[t] \subseteq meddled'[t] /\ (fd[t] = inode => "content" \in meddled'[t])
    BY <2>1, <1>m
  <2> QED
    BY <1>d, <2>1, <2>2 DEF KeepsContent, KeepsName, Set
<1>6. CASE ReceiveBlock(s)
  <2>1. PICK new :
             /\ content' = Set(content, fd[s], new) /\ Meddle(s, fd[s], "content")
             /\ UNCHANGED files
    BY <1>6 DEF ReceiveBlock
  <2>2. meddled[t] \subseteq meddled'[t] /\ (fd[t] = fd[s] => "content" \in meddled'[t])
    BY <2>1, <1>m
  <2> QED
    BY <1>d, <2>1, <2>2 DEF KeepsContent, KeepsName, Set
<1> QED
  BY <1>1, <1>2, <1>3, <1>4, <1>5, <1>6 DEF StepOf

\* A session that has forgotten its request holds nothing.
LEMMA ForgottenControl ==
    ASSUME Typed, NEW s \in Sessions, Forget(s), pc'[s] \in {"idle", "gone"}
    PROVE  Control(s)' /\ ~Reads(s)' /\ ~Writes(s)'
<1>1. req'[s].verb = "none"
  BY DEF Forget, Typed, ControlTypes, Set, NoRequest
<1> QED
  BY <1>1 DEF Control, Reads, Writes

\* What a session knows of itself after a step of its own.
LEMMA OwnControl ==
    ASSUME Typed, NEW s \in Sessions, StepOf(s) PROVE Control(s)'
<1>t. Control(s) /\ ControlTypes /\ TransferTypes /\ TreeTypes
  BY DEF Typed
<1>d. /\ DOMAIN pc = Sessions /\ DOMAIN cwd = Sessions /\ DOMAIN req = Sessions
      /\ DOMAIN code = Sessions /\ DOMAIN fd = Sessions /\ DOMAIN upload = Sessions
      /\ DOMAIN offset = Sessions /\ DOMAIN got = Sessions /\ DOMAIN meddled = Sessions
  BY <1>t DEF ControlTypes, TransferTypes
<1>1. CASE Drops(s)
  <2>1. Forget(s) /\ pc'[s] \in {"idle", "gone"}
    BY <1>1, <1>d DEF Drops, Reply, Set
  <2> QED
    BY <2>1, ForgottenControl
<1>2. CASE Cwd(s)
  <2>1. pc'[s] = "idle" /\ req'[s].verb = "CWD"
    BY <1>2, <1>d DEF Cwd, Begin, Reply, Set
  <2> QED
    BY <2>1 DEF Control, Reads, Writes
<1>3. CASE Check(s)
  <2>0. PICK arg \in Arguments : \E verb \in VerbsWith(arg) :
             /\ Asks(s, arg)
             /\ Begin(s, verb, arg) /\ Continue(s, "checked") /\ UNCHANGED cwd
    BY <1>3 DEF Check
  <2>1. PICK verb \in VerbsWith(arg) :
             /\ Asks(s, arg)
             /\ Begin(s, verb, arg) /\ Continue(s, "checked") /\ UNCHANGED cwd
    BY <2>0
  <2>2. /\ pc'[s] = "checked" /\ req'[s].verb = verb /\ req'[s].arg = arg
        /\ fd'[s] = 0 /\ upload'[s] = 0 /\ offset'[s] = 0 /\ got'[s] = <<>>
    BY <2>1, <1>d DEF Begin, Continue, Set
  <2>3. /\ verb \in {"MKD", "RMD", "DELE", "RETR", "STOR"}
        /\ arg = NoArg => verb \in {"RETR", "STOR"}
    BY <2>1 DEF VerbsWith
  <2> QED
    BY <2>1, <2>2, <2>3 DEF Control, Reads, Writes, Asks
<1>4. CASE Makes(s) \/ Removes(s) \/ Unlinks(s)
  <2>1. pc'[s] = "idle" /\ code'[s] # 226
    BY <1>4, <1>d DEF Makes, Mkd, Removes, Rmd, Unlinks, Dele, Succeed, Reply, Set
  <2> QED
    BY <2>1 DEF Control, Reads, Writes
<1>5. CASE Sent(s) \/ Received(s)
  <2>1. /\ pc'[s] = "idle" /\ UNCHANGED <<req, transfer>>
        /\ pc[s] \in {"sending", "receiving"}
    BY <1>5, <1>d DEF Sent, Received, Succeed, Reply, Set
  <2> QED
    BY <1>t, <2>1 DEF Control, Reads, Writes, transfer
<1>6. CASE Opens(s)
  <2>1. /\ pc[s] = "checked" /\ pc'[s] = "sending" /\ req[s].verb = "RETR"
        /\ fd'[s] = files[Target(s)] /\ Target(s) \in DOMAIN files
        /\ UNCHANGED <<req, cwd, offset, got>>
    BY <1>6, <1>d DEF Opens, OpenToSend, Acts, Continue, Set, IsFile, IsFilePath, Target
  <2>2. files[Target(s)] # 0
    BY <1>t, <2>1 DEF TreeTypes
  <2>3. offset[s] = Len(got[s])
    BY <1>t, <2>1, EmptySeq DEF Control
  <2> QED
    BY <1>t, <2>1, <2>2, <2>3 DEF Control, Reads, Writes
<1>7. CASE Creat(s)
  <2>1. /\ pc[s] = "checked" /\ pc'[s] = "receiving" /\ req[s].verb = "STOR"
        /\ upload'[s] = uploads + 1 /\ UNCHANGED <<req, cwd>>
    BY <1>7, <1>d DEF Creat, Acts, Continue, Set
  <2>2. fd'[s] # 0 /\ uploads + 1 # 0
    <3>1. /\ fd' = Set(fd, s, files'[Target(s)]) /\ files' \in [DOMAIN files' -> 1 .. uploads']
          /\ Target(s) \in DOMAIN files' /\ uploads + 1 \in Inodes
      BY <1>7, CreatEffect
    <3> QED
      BY <1>d, <3>1 DEF Set, Inodes
  <2> QED
    BY <1>t, <2>1, <2>2 DEF Control, Reads, Writes
<1>8. CASE SendBlock(s)
  <2>1. /\ pc[s] = "sending" /\ offset'[s] = offset[s] + 1
        /\ got'[s] = Append(got[s], content[fd[s]][offset[s] + 1])
        /\ UNCHANGED <<pc, cwd, req, code, fd, upload>>
    BY <1>8, <1>d DEF SendBlock, Set
  <2>2. got[s] \in Seq(Blocks)
    BY <1>t DEF TransferTypes
  <2>3. Len(got'[s]) = Len(got[s]) + 1
    BY <2>1, <2>2
  <2> QED
    BY <1>t, <2>1, <2>3 DEF Control, Reads, Writes
<1>9. CASE ReceiveBlock(s)
  BY <1>t, <1>9 DEF ReceiveBlock, Control, Reads, Writes
<1>10. CASE Aborts(s)
  <2>1. Forget(s) /\ pc'[s] = "idle"
    BY <1>10, <1>d DEF Aborts, ReceiveBreaks, Reply, Set
  <2> QED
    BY <2>1, ForgottenControl
<1> QED
  BY <1>1, <1>2, <1>3, <1>4, <1>5, <1>6, <1>7, <1>8, <1>9, <1>10 DEF StepOf

LEMMA TypedStep ==
    ASSUME Typed, NEW s \in Sessions, StepOf(s) PROVE Typed'
<1>1. ASSUME NEW t \in Sessions PROVE Control(t)'
  <2>1. CASE t = s
    BY <2>1, OwnControl
  <2>2. CASE t # s
    BY <2>2, OthersStay DEF Typed, Control, Reads, Writes
  <2> QED
    BY <2>1, <2>2
<1> QED
  BY <1>1, TreeTypesStep, ControlTypesStep, TransferTypesStep DEF Typed

-----------------------------------------------------------------------------
(* The shape of the tree, which the kernel keeps.                          *)

TreeShape == AbstractTree!TreeTypeOK

LEMMA ShapeStep ==
    ASSUME Typed, TreeShape, NEW s \in Sessions, StepOf(s) PROVE TreeShape'
<1> USE DEF TreeShape, AbstractTree!TreeTypeOK, AbstractTree!ParentOf, ParentOf, Front, Root
<1>1. CASE Drops(s) \/ Cwd(s) \/ Check(s) \/ Opens(s) \/ SendBlock(s) \/ Sent(s) \/ Received(s)
           \/ ReceiveBlock(s)
  <2>1. UNCHANGED <<dirs, files>>
    BY <1>1 DEF Drops, Cwd, Check, Opens, OpenToSend, SendBlock, Sent, Received, ReceiveBlock, tree
  <2> QED
    BY <2>1
<1>2. CASE Makes(s)
  <2>1. /\ dirs' = dirs \cup {Target(s)} /\ UNCHANGED files
        /\ Target(s) \notin dirs \cup DOMAIN files /\ ParentOf(Target(s)) \in dirs
    BY <1>2 DEF Makes, Mkd, MkdirWorks, Exists, IsFilePath
  <2> QED
    BY <2>1
<1>3. CASE Removes(s)
  <2>1. /\ dirs' = dirs \ {Target(s)} /\ UNCHANGED files
        /\ \A p \in (dirs \cup DOMAIN files) \ {Root} : ParentOf(p) # Target(s)
    BY <1>3 DEF Removes, Rmd, RmdirWorks, HasEntries
  <2>2. Target(s) # Root
    BY <1>3, TargetIsPath DEF Removes, Rmd, RmdirWorks, Acts, Typed, Control
  <2> QED
    BY <2>1, <2>2
<1>4. CASE Unlinks(s) \/ Aborts(s)
  <2>1. UNCHANGED dirs /\ DOMAIN files' \subseteq DOMAIN files
    BY <1>4, UnlinkEffect DEF Unlinks, Dele, Aborts, ReceiveBreaks
  <2> QED
    BY <2>1
<1>5. CASE Creat(s)
  <2>1. /\ DOMAIN files' = DOMAIN files \cup {Target(s)} /\ UNCHANGED dirs
        /\ Target(s) \notin dirs /\ ParentOf(Target(s)) \in dirs
    BY <1>5, CreatEffect
  <2> QED
    BY <2>1
<1> QED
  BY <1>1, <1>2, <1>3, <1>4, <1>5 DEF StepOf

-----------------------------------------------------------------------------
(* The blocks of the files and of what is read from them.                  *)

InOrder(blocks) == \A i \in DOMAIN blocks : blocks[i] = Hole \/ blocks[i][2] = i

BlocksInOrder ==
    /\ \A inode \in Inodes : InOrder(content[inode])
    /\ \A s \in Sessions : InOrder(got[s])

LEMMA InOrderStep ==
    ASSUME Typed, BlocksInOrder, NEW s \in Sessions, StepOf(s) PROVE BlocksInOrder'
<1>d. /\ content \in [Inodes -> Seq(Blocks)] /\ got \in [Sessions -> Seq(Blocks)]
      /\ uploads \in Nat /\ \A t \in Sessions : Control(t)
  BY FilesAssumption DEF Typed, TreeTypes, TransferTypes
<1>e. InOrder(<<>>)
  BY DEF InOrder
<1>f. ASSUME UNCHANGED content, got' = got \/ got' = Set(got, s, <<>>)
      PROVE  BlocksInOrder'
  BY <1>d, <1>e, <1>f DEF BlocksInOrder, Set
<1>1. CASE Drops(s) \/ Cwd(s) \/ Check(s) \/ Aborts(s)
  BY <1>1, <1>f DEF Drops, Cwd, Check, Aborts, ReceiveBreaks, Forget, Begin, tree
<1>2. CASE Makes(s) \/ Removes(s) \/ Unlinks(s) \/ Opens(s) \/ Sent(s) \/ Received(s)
  BY <1>2, <1>f DEF Makes, Mkd, Removes, Rmd, Unlinks, Dele, Opens, OpenToSend, Sent, Received,
     Succeed, transfer, tree
<1>3. CASE SendBlock(s)
  <2>1. /\ offset[s] < Len(content[fd[s]]) /\ UNCHANGED content
        /\ got' = Set(got, s, Append(got[s], content[fd[s]][offset[s] + 1]))
        /\ pc[s] = "sending"
    BY <1>3 DEF SendBlock, tree
  <2>2. Reads(s) /\ offset[s] = Len(got[s])
    BY <1>d, <2>1 DEF Control, Reads
  <2>3. PICK blocks \in Seq(Blocks) : blocks = content[fd[s]] /\ InOrder(blocks)
    BY <2>2, OpenInode DEF BlocksInOrder
  <2>4. PICK sent \in Seq(Blocks) : sent = got[s] /\ InOrder(sent)
    BY <1>d DEF BlocksInOrder
  <2>5. Len(sent) \in Nat /\ Len(blocks) \in Nat /\ DOMAIN blocks = 1 .. Len(blocks)
        /\ DOMAIN sent = 1 .. Len(sent)
    BY LenProperties
  <2>6. PICK i \in 1 .. Len(blocks) : i = Len(sent) + 1
    BY <2>1, <2>2, <2>3, <2>4, <2>5
  <2>7. blocks[i] \in Blocks /\ (blocks[i] = Hole \/ blocks[i][2] = i)
    BY <2>3, <2>5, ElementOfSeq DEF InOrder
  <2>8. PICK more \in Seq(Blocks) : more = Append(sent, blocks[i])
    BY <2>7, AppendProperties
  <2>9. /\ Len(more) = Len(sent) + 1 /\ more[i] = blocks[i]
        /\ \A j \in 1 .. Len(sent) : more[j] = sent[j]
    BY <2>6, <2>7, <2>8, AppendProperties
  <2>10. DOMAIN more = 1 .. Len(more)
    BY LenProperties
  <2>11. \A j \in DOMAIN more : j = i \/ j \in DOMAIN sent
    BY <2>5, <2>6, <2>9, <2>10
  <2>12. InOrder(more)
    BY <2>4, <2>5, <2>7, <2>9, <2>11 DEF InOrder
  <2>13. got' = Set(got, s, more)
    BY <2>1, <2>2, <2>3, <2>4, <2>6, <2>8
  <2> QED
    BY <1>d, <2>1, <2>12, <2>13 DEF BlocksInOrder, Set
<1>4. CASE Creat(s)
  <2>1. PICK inode : content' = Set(content, inode, <<>>) /\ UNCHANGED got
    BY <1>4 DEF Creat
  <2> QED
    BY <1>d, <1>e, <2>1 DEF BlocksInOrder, Set
<1>5. CASE ReceiveBlock(s)
  <2>1. PICK at \in 1 .. MaxBlocks, new \in Seq(Blocks) :
             /\ fd[s] \in Inodes
             /\ content' = Set(content, fd[s], new)
             /\ Len(new) = IF at > Len(content[fd[s]]) THEN at ELSE Len(content[fd[s]])
             /\ \A i \in 1 .. Len(new) :
                  new[i] = IF i = at THEN Block(upload[s], at)
                           ELSE IF i > Len(content[fd[s]]) THEN Hole ELSE content[fd[s]][i]
    BY <1>5, ReceiveEffect
  <2>2. PICK blocks \in Seq(Blocks) : blocks = content[fd[s]] /\ InOrder(blocks)
    BY <1>d, <2>1 DEF BlocksInOrder
  <2>3. /\ Len(blocks) \in Nat /\ DOMAIN blocks = 1 .. Len(blocks) /\ DOMAIN new = 1 .. Len(new)
        /\ Len(new) \in Nat
    BY LenProperties
  <2>4. ASSUME NEW i \in DOMAIN new PROVE new[i] = Hole \/ new[i][2] = i
    <3>1. i \in Nat /\ i >= 1
      BY <2>3
    <3>2. CASE i = at
      BY <2>1, <2>3, <3>2 DEF Block
    <3>3. CASE i # at /\ i > Len(blocks)
      BY <2>1, <2>2, <2>3, <3>3
    <3>4. CASE i # at /\ ~(i > Len(blocks))
      <4>1. i \in DOMAIN blocks /\ new[i] = blocks[i]
        BY <2>1, <2>2, <2>3, <3>1, <3>4
      <4> QED
        BY <2>2, <4>1 DEF InOrder
    <3> QED
      BY <3>2, <3>3, <3>4
  <2>5. InOrder(new) /\ UNCHANGED got
    BY <1>5, <2>4 DEF InOrder, ReceiveBlock
  <2> QED
    BY <1>d, <2>1, <2>5 DEF BlocksInOrder, Set
<1> QED
  BY <1>1, <1>2, <1>3, <1>4, <1>5 DEF StepOf

-----------------------------------------------------------------------------
(* What a transfer has of its file, as long as nobody meddles with it.     *)

\* A RETR has the beginning of the file it opened, and has it all at the end.
Reading(s) ==
    Reads(s) /\ "content" \notin meddled[s] =>
        /\ offset[s] <= Len(content[fd[s]])
        /\ \A i \in 1 .. offset[s] : got[s][i] = content[fd[s]][i]
        /\ pc[s] = "idle" => offset[s] = Len(content[fd[s]])

\* The name of a STOR leads to the file it created, which holds what was sent.
Storing(s) ==
    Writes(s) =>
        /\ "name" \notin meddled[s] => Target(s) \in DOMAIN files /\ files[Target(s)] = fd[s]
        /\ "content" \notin meddled[s] =>
             /\ Len(content[fd[s]]) = offset[s]
             /\ \A i \in 1 .. offset[s] : content[fd[s]][i] = Block(upload[s], i)

FilesInv ==
    /\ Typed /\ TreeShape /\ BlocksInOrder
    /\ \A s \in Sessions : Reading(s) /\ Storing(s)

\* Steps of other sessions.
LEMMA OthersKeepFiles ==
    ASSUME FilesInv, NEW s \in Sessions, StepOf(s), NEW t \in Sessions, t # s
    PROVE  Reading(t)' /\ Storing(t)'
<1>1. /\ pc'[t] = pc[t] /\ cwd'[t] = cwd[t] /\ req'[t] = req[t] /\ code'[t] = code[t]
      /\ fd'[t] = fd[t] /\ upload'[t] = upload[t]
      /\ offset'[t] = offset[t] /\ got'[t] = got[t]
  BY OthersStay DEF FilesInv
<1>2. meddled[t] \subseteq meddled'[t] /\ KeepsContent(t) /\ KeepsName(t)
  BY OthersAreTold DEF FilesInv
<1>3. (Reads(t)' <=> Reads(t)) /\ (Writes(t)' <=> Writes(t)) /\ Target(t)' = Target(t)
  BY <1>1 DEF Reads, Writes, Target, PathOf
<1>4. Reads(t) \/ Writes(t) => fd[t] \in Inodes
  BY OpenInode DEF FilesInv
<1>5. Reading(t)'
  BY <1>1, <1>2, <1>3, <1>4 DEF FilesInv, Reading, KeepsContent
<1>6. Storing(t)'
  <2>1. Writes(t) /\ "name" \notin meddled'[t] =>
            Target(t) \in DOMAIN files' /\ files'[Target(t)] = fd[t]
    BY <1>2, <1>3 DEF FilesInv, Storing, KeepsName
  <2>2. Writes(t) /\ "content" \notin meddled'[t] =>
            /\ Len(content'[fd[t]]) = offset[t]
            /\ \A i \in 1 .. offset[t] : content'[fd[t]][i] = Block(upload[t], i)
    BY <1>2, <1>4 DEF FilesInv, Storing, KeepsContent
  <2> QED
    BY <1>1, <1>3, <2>1, <2>2 DEF Storing
<1> QED
  BY <1>5, <1>6

\* A session that neither reads nor writes has nothing to keep.
LEMMA IdleKeepsFiles ==
    ASSUME NEW s, ~Reads(s)', ~Writes(s)' PROVE Reading(s)' /\ Storing(s)'
BY DEF Reading, Storing

\* The other steps begin nothing and go on with nothing.
LEMMA NoTransfer ==
    ASSUME Typed, NEW s \in Sessions,
           \/ Drops(s) \/ Cwd(s) \/ Check(s)
           \/ Makes(s) \/ Removes(s) \/ Unlinks(s) \/ Aborts(s)
    PROVE  ~Reads(s)' /\ ~Writes(s)'
<1>d. DOMAIN pc = Sessions /\ DOMAIN req = Sessions /\ DOMAIN code = Sessions
  BY DEF Typed, ControlTypes
<1>1. CASE Drops(s) \/ Aborts(s)
  <2>1. Forget(s) /\ pc'[s] \in {"idle", "gone"}
    BY <1>1, <1>d DEF Drops, Aborts, ReceiveBreaks, Reply, Set
  <2> QED
    BY <2>1, ForgottenControl
<1>2. CASE Cwd(s)
  BY <1>2, <1>d DEF Cwd, Begin, Reply, Set, Reads, Writes
<1>3. CASE Check(s)
  BY <1>3, <1>d DEF Check, Continue, Set, Reads, Writes
<1>4. CASE Makes(s) \/ Removes(s) \/ Unlinks(s)
  <2>1. pc'[s] = "idle" /\ code'[s] # 226
    BY <1>4, <1>d DEF Makes, Mkd, Removes, Rmd, Unlinks, Dele, Succeed, Reply, Set
  <2> QED
    BY <2>1 DEF Reads, Writes
<1> QED
  BY <1>1, <1>2, <1>3, <1>4

\* A RETR, from open() to its 226.
LEMMA RetrKeepsFiles ==
    ASSUME FilesInv, NEW s \in Sessions, Opens(s) \/ SendBlock(s) \/ Sent(s)
    PROVE  Reading(s)' /\ Storing(s)'
<1>d. /\ DOMAIN pc = Sessions /\ DOMAIN code = Sessions /\ DOMAIN fd = Sessions
      /\ DOMAIN offset = Sessions /\ got \in [Sessions -> Seq(Blocks)]
      /\ Control(s) /\ Typed /\ Reading(s)
      /\ offset[s] \in Nat
  BY FilesAssumption DEF FilesInv, Typed, ControlTypes, TransferTypes
<1>1. CASE Opens(s)
  <2>1. /\ pc'[s] = "sending" /\ req'[s].verb = "RETR" /\ offset'[s] = 0 /\ UNCHANGED content
        /\ fd'[s] = files[Target(s)] /\ Target(s) \in DOMAIN files
    BY <1>1, <1>d DEF Opens, OpenToSend, Acts, Continue, Set, IsFile, IsFilePath, Target, Control,
       tree
  <2>2. files[Target(s)] \in Inodes
    BY <1>d, <2>1, FilesAssumption DEF Typed, TreeTypes, Inodes
  <2>3. Len(content[files[Target(s)]]) \in Nat
    BY <2>2, LenProperties DEF FilesInv, Typed, TreeTypes
  <2> QED
    BY <2>1, <2>3 DEF Reading, Storing, Reads, Writes
<1>2. CASE SendBlock(s)
  <2>1. /\ pc[s] = "sending" /\ offset[s] < Len(content[fd[s]])
        /\ got'[s] = Append(got[s], content[fd[s]][offset[s] + 1])
        /\ offset'[s] = offset[s] + 1
        /\ UNCHANGED <<pc, req, fd, content, meddled>>
    BY <1>2, <1>d DEF SendBlock, Set, tree
  <2>2. Reads(s) /\ req[s].verb = "RETR" /\ offset[s] = Len(got[s])
    BY <1>d, <2>1 DEF Control, Reads
  <2>3. PICK blocks \in Seq(Blocks) : blocks = content[fd[s]]
    BY <1>d, <2>2, OpenInode
  <2>4. Len(blocks) \in Nat
    BY LenProperties
  <2>5. PICK i \in 1 .. Len(blocks) : i = offset[s] + 1
    BY <1>d, <2>1, <2>3, <2>4
  <2>6. blocks[i] \in Blocks
    BY ElementOfSeq
  <2>7. \A j \in 1 .. offset[s] : got'[s][j] = got[s][j]
    BY <1>d, <2>1, <2>2, <2>3, <2>5, <2>6, AppendProperties
  <2>8. got'[s][i] = blocks[i]
    BY <1>d, <2>1, <2>2, <2>3, <2>5, <2>6, AppendProperties
  <2>9. \A j \in 1 .. offset'[s] : j \in 1 .. offset[s] \/ j = i
    BY <1>d, <2>1, <2>5
  <2>10. "content" \notin meddled[s] =>
            \A j \in 1 .. offset'[s] : got'[s][j] = content[fd[s]][j]
    BY <1>d, <2>2, <2>3, <2>7, <2>8, <2>9 DEF Reading
  <2>11. offset'[s] <= Len(content[fd[s]])
    BY <1>d, <2>1, <2>3, <2>4
  <2> QED
    BY <2>1, <2>2, <2>10, <2>11 DEF Reading, Storing, Reads, Writes
<1>3. CASE Sent(s)
  <2>1. /\ pc[s] = "sending" /\ pc'[s] = "idle" /\ offset[s] >= Len(content[fd[s]])
        /\ UNCHANGED <<req, fd, offset, got, content, meddled>>
    BY <1>3, <1>d DEF Sent, Succeed, Reply, Set, transfer, tree
  <2>2. Reads(s) /\ req[s].verb = "RETR"
    BY <1>d, <2>1 DEF Control, Reads
  <2>3. Len(content[fd[s]]) \in Nat
    BY <1>d, <2>2, OpenInode, LenProperties
  <2>4. "content" \notin meddled[s] =>
            /\ offset[s] = Len(content[fd[s]])
            /\ \A j \in 1 .. offset[s] : got[s][j] = content[fd[s]][j]
    BY <1>d, <2>1, <2>2, <2>3 DEF Reading
  <2> QED
    BY <2>1, <2>2, <2>3, <2>4 DEF Reading, Storing, Reads, Writes
<1> QED
  BY <1>1, <1>2, <1>3

\* A STOR, from creat() to its 226.
LEMMA StorKeepsFiles ==
    ASSUME FilesInv, NEW s \in Sessions, Creat(s) \/ ReceiveBlock(s) \/ Received(s)
    PROVE  Reading(s)' /\ Storing(s)'
<1>d. /\ DOMAIN pc = Sessions /\ DOMAIN code = Sessions /\ DOMAIN fd = Sessions
      /\ DOMAIN upload = Sessions /\ DOMAIN offset = Sessions
      /\ content \in [Inodes -> Seq(Blocks)]
      /\ Control(s) /\ Typed /\ Storing(s)
      /\ offset[s] \in Nat
  BY FilesAssumption DEF FilesInv, Typed, ControlTypes, TransferTypes, TreeTypes
<1>1. CASE Creat(s)
  <2>1. /\ pc'[s] = "receiving" /\ req'[s].verb = "STOR" /\ offset'[s] = 0
        /\ UNCHANGED <<req, cwd>>
    BY <1>1, <1>d DEF Creat, Acts, Continue, Set, Control
  <2>2. /\ fd'[s] = files'[Target(s)] /\ Target(s) \in DOMAIN files'
        /\ content' = Set(content, fd'[s], <<>>)
        /\ fd'[s] \in Inodes
    <3>1. /\ fd' = Set(fd, s, files'[Target(s)]) /\ DOMAIN files' = DOMAIN files \cup {Target(s)}
          /\ content' = Set(content, files'[Target(s)], <<>>)
          /\ files' \in [DOMAIN files' -> 1 .. uploads'] /\ uploads' \in Inodes
      BY <1>1, <1>d, CreatEffect
    <3>2. fd'[s] = files'[Target(s)] /\ files'[Target(s)] \in 1 .. uploads'
      BY <1>d, <3>1 DEF Set
    <3> QED
      BY <3>1, <3>2, FilesAssumption DEF Inodes
  <2>3. Target(s)' = Target(s)
    BY <2>1 DEF Target, PathOf
  <2>4. content'[fd'[s]] = <<>> /\ Len(<<>>) = 0
    BY <1>d, <2>2 DEF Set
  <2> QED
    BY <2>1, <2>2, <2>3, <2>4 DEF Reading, Storing, Reads, Writes
<1>2. CASE ReceiveBlock(s)
  <2>1. PICK at \in 1 .. MaxBlocks, new \in Seq(Blocks) :
             /\ Writes(s) /\ fd[s] \in Inodes
             /\ at = offset[s] + 1 /\ offset' = Set(offset, s, at)
             /\ content' = Set(content, fd[s], new)
             /\ Len(new) = IF at > Len(content[fd[s]]) THEN at ELSE Len(content[fd[s]])
             /\ \A i \in 1 .. Len(new) :
                  new[i] = IF i = at THEN Block(upload[s], at)
                           ELSE IF i > Len(content[fd[s]]) THEN Hole ELSE content[fd[s]][i]
             /\ Meddle(s, fd[s], "content")
             /\ UNCHANGED <<dirs, files, uploads>>
    BY <1>2, <1>d, ReceiveEffect
  <2>2. /\ pc[s] = "receiving" /\ req[s].verb = "STOR" /\ UNCHANGED <<pc, cwd, req, code, fd, upload>>
    BY <1>2, <1>d DEF ReceiveBlock, Control
  <2>3. meddled'[s] = meddled[s] /\ offset'[s] = at /\ content'[fd[s]] = new
    BY <1>d, <2>1, <2>2 DEF Meddle, Set, Control
  <2>4. Target(s)' = Target(s)
    BY <2>2 DEF Target, PathOf
  <2>5. ASSUME "content" \notin meddled[s]
        PROVE  Len(new) = at /\ \A i \in 1 .. at : new[i] = Block(upload[s], i)
    <3>1. /\ Len(content[fd[s]]) = offset[s]
          /\ \A i \in 1 .. offset[s] : content[fd[s]][i] = Block(upload[s], i)
      BY <1>d, <2>1, <2>5 DEF Storing
    <3>2. Len(new) = at
      BY <1>d, <2>1, <3>1
    <3>3. ASSUME NEW i \in 1 .. at PROVE new[i] = Block(upload[s], i)
      <4>1. CASE i = at
        BY <2>1, <3>2, <4>1
      <4>2. CASE i # at
        <5>1. i \in 1 .. offset[s] /\ ~(i > offset[s])
          BY <1>d, <2>1, <4>2
        <5> QED
          BY <2>1, <3>1, <3>2, <4>2, <5>1
      <4> QED
        BY <4>1, <4>2
    <3> QED
      BY <3>2, <3>3
  <2>6. Writes(s)' /\ ~Reads(s)'
    BY <2>2 DEF Reads, Writes
  <2> QED
    BY <1>d, <2>1, <2>2, <2>3, <2>4, <2>5, <2>6 DEF Reading, Storing
<1>3. CASE Received(s)
  <2>1. /\ pc[s] = "receiving" /\ UNCHANGED <<req, cwd, fd, upload, offset, tree, meddled>>
    BY <1>3 DEF Received, Succeed, transfer
  <2>2. Writes(s) /\ req[s].verb = "STOR" /\ Target(s)' = Target(s)
    BY <1>d, <2>1 DEF Control, Writes, Target, PathOf
  <2> QED
    BY <1>d, <2>1, <2>2 DEF Reading, Storing, Reads, tree
<1> QED
  BY <1>1, <1>2, <1>3

LEMMA FilesInvStep ==
    ASSUME FilesInv, NEW s \in Sessions, StepOf(s) PROVE FilesInv'
<1>1. Typed' /\ TreeShape' /\ BlocksInOrder'
  BY TypedStep, ShapeStep, InOrderStep DEF FilesInv
<1>2. Reading(s)' /\ Storing(s)'
  BY NoTransfer, IdleKeepsFiles, RetrKeepsFiles, StorKeepsFiles DEF StepOf, FilesInv
<1> QED
  BY <1>1, <1>2, OthersKeepFiles DEF FilesInv

-----------------------------------------------------------------------------
(* The theorems.                                                           *)

LEMMA FilesInvInit == Init => FilesInv
<1> SUFFICES ASSUME Init PROVE FilesInv
  OBVIOUS
<1> USE DEF Init
<1>1. <<>> \in Seq(Blocks) /\ Len(<<>>) = 0 /\ InOrder(<<>>)
  BY EmptySeq DEF InOrder
<1>2. NoRequest \in Requests /\ NoRequest.verb = "none"
  BY DEF NoRequest, Requests, Verbs
<1>3. TreeTypes
  BY <1>1, RootIsPath, FilesAssumption DEF TreeTypes
<1>4. ControlTypes
  BY <1>2, RootIsPath DEF ControlTypes
<1>5. TransferTypes
  BY <1>1, FilesAssumption DEF TransferTypes
<1>6. TreeShape
  BY DEF TreeShape, AbstractTree!TreeTypeOK, Root
<1>7. BlocksInOrder
  BY <1>1 DEF BlocksInOrder
<1>8. ASSUME NEW s \in Sessions PROVE Control(s) /\ Reading(s) /\ Storing(s)
  BY <1>2 DEF Control, Reading, Storing, Reads, Writes
<1> QED
  BY <1>3, <1>4, <1>5, <1>6, <1>7, <1>8 DEF FilesInv, Typed

LEMMA FilesInvHolds == Spec => []FilesInv
<1>1. FilesInv /\ [Next]_vars => FilesInv'
  <2>1. ASSUME FilesInv, Next PROVE FilesInv'
    BY <2>1, StepShapes, FilesInvStep DEF Next
  <2>2. ASSUME FilesInv, UNCHANGED vars PROVE FilesInv'
    <3>1. /\ UNCHANGED <<dirs, files, content, uploads>>
          /\ UNCHANGED <<pc, cwd, req, code>>
          /\ UNCHANGED <<fd, upload, offset, got, meddled>>
      BY <2>2 DEF vars, tree, transfer
    <3>2. Typed'
      BY <2>2, <3>1
         DEF FilesInv, Typed, TreeTypes, ControlTypes, TransferTypes, Control, Reads, Writes
    <3>3. TreeShape' /\ BlocksInOrder'
      BY <2>2, <3>1 DEF FilesInv, TreeShape, AbstractTree!TreeTypeOK, AbstractTree!ParentOf,
         BlocksInOrder, InOrder
    <3>4. \A s \in Sessions : Reading(s)' /\ Storing(s)'
      BY <2>2, <3>1 DEF FilesInv, Reading, Storing, Reads, Writes, Target, PathOf
    <3> QED
      BY <3>2, <3>3, <3>4 DEF FilesInv
  <2> QED
    BY <2>1, <2>2
<1> QED
  BY <1>1, FilesInvInit, PTL DEF Spec

\* Every variable always holds a value of its kind, and every descriptor that a
\* transfer uses leads to an inode.
THEOREM TypeCorrect == Spec => []TypeOK
<1>1. FilesInv => TypeOK
  <2> SUFFICES ASSUME FilesInv PROVE TypeOK
    OBVIOUS
  <2>1. TreeTypes /\ ControlTypes /\ TransferTypes /\ \A s \in Sessions : Control(s)
    BY DEF FilesInv, Typed
  <2>2. \A s \in Sessions : pc[s] \in {"sending", "receiving"} => fd[s] # 0
    BY <2>1 DEF Control, Reads, Writes
  <2> QED
    BY <2>1, <2>2 DEF TypeOK, TreeTypes, ControlTypes, TransferTypes
<1> QED
  BY <1>1, FilesInvHolds, PTL

\* However many sessions write to one file, each block lies at its own place.
THEOREM PositionsAlwaysKept == Spec => []PositionsKept
<1>1. FilesInv => PositionsKept
  BY DEF FilesInv, BlocksInOrder, InOrder, PositionsKept
<1> QED
  BY <1>1, FilesInvHolds, PTL

\* A RETR answered 226 has sent the whole of the file it opened, unless somebody
\* stored to it meanwhile.
THEOREM AlwaysReadAsStored == Spec => []ReadAsStored
<1>1. ASSUME FilesInv, NEW s \in Sessions, Answered(s, "RETR", 226), "content" \notin meddled[s]
      PROVE  got[s] = content[fd[s]]
  <2>1. Reads(s) /\ pc[s] = "idle"
    BY <1>1 DEF Answered, Reads
  <2>2. /\ offset[s] = Len(content[fd[s]])
        /\ \A i \in 1 .. offset[s] : got[s][i] = content[fd[s]][i]
    BY <1>1, <2>1 DEF FilesInv, Reading
  <2>3. content[fd[s]] \in Seq(Blocks) /\ got[s] \in Seq(Blocks) /\ Len(got[s]) = offset[s]
    BY <1>1, <2>1, OpenInode DEF FilesInv, Typed, Control, TransferTypes
  <2> QED
    BY <2>2, <2>3, SeqEqual
<1>2. FilesInv => ReadAsStored
  BY <1>1 DEF ReadAsStored
<1> QED
  BY <1>2, FilesInvHolds, PTL

\* After the 226 to a STOR its name leads to exactly what was sent, unless another
\* session has unlinked the name or stored to the file since.
THEOREM AlwaysStoredAsSent == Spec => []StoredAsSent
<1>1. ASSUME FilesInv, NEW s \in Sessions, Answered(s, "STOR", 226)
      PROVE  /\ "name" \notin meddled[s] => IsFilePath(Target(s)) /\ files[Target(s)] = fd[s]
             /\ "content" \notin meddled[s] =>
                  content[fd[s]] = [i \in 1 .. offset[s] |-> Block(upload[s], i)]
  <2>1. Writes(s) /\ Storing(s)
    BY <1>1 DEF Answered, Writes, FilesInv
  <2>2. ASSUME "content" \notin meddled[s]
        PROVE  content[fd[s]] = [i \in 1 .. offset[s] |-> Block(upload[s], i)]
    <3>1. /\ Len(content[fd[s]]) = offset[s]
          /\ \A i \in 1 .. offset[s] : content[fd[s]][i] = Block(upload[s], i)
      BY <2>1, <2>2 DEF Storing
    <3>2. content[fd[s]] \in Seq(Blocks)
      BY <1>1, <2>1, OpenInode DEF FilesInv
    <3>3. content[fd[s]] \in [1 .. Len(content[fd[s]]) -> Blocks]
      BY <3>2, LenProperties
    <3> QED
      BY <3>1, <3>3
  <2> QED
    BY <2>1, <2>2 DEF Storing, IsFilePath
<1>2. FilesInv => StoredAsSent
  BY <1>1 DEF StoredAsSent
<1> QED
  BY <1>2, FilesInvHolds, PTL
=============================================================================
