---------------------------- MODULE UserTreeProofs ----------------------------
(***************************************************************************)
(* UserFiles implements FileTree, for any sessions, names and bounds, and  *)
(* a session whose directory is gone is refused.                           *)
(***************************************************************************)
EXTENDS UserFilesProofs

-----------------------------------------------------------------------------
(* The abstract outcome of each session's request.                         *)

LEMMA OutcomeOf ==
    ASSUME Typed, NEW s \in Sessions
    PROVE  /\ pc[s] \in {"checked", "sending"} => Outcome(s) = "pending"
           /\ pc[s] = "receiving" => Outcome(s) = "storing"
           /\ pc[s] = "idle" => Outcome(s) \in {"made", "removed", "stored", "other"}
BY DEF Outcome, Answered

\* A step of s leaves the others their outcomes and the paths they are about.
LEMMA OutcomeSteps ==
    ASSUME Typed, NEW s \in Sessions, StepOf(s)
    PROVE  /\ [t \in Sessions |-> Outcome(t)]' =
                [[t \in Sessions |-> Outcome(t)] EXCEPT ![s] = Outcome(s)']
           /\ [t \in Sessions |-> Named(t)]' =
                [[t \in Sessions |-> Named(t)] EXCEPT ![s] = Named(s)']
<1>1. ASSUME NEW t \in Sessions, t # s
      PROVE  Outcome(t)' = Outcome(t) /\ Named(t)' = Named(t)
  BY <1>1, OthersStay DEF Outcome, Answered, Named, Target, PathOf
<1> HIDE DEF Outcome, Named
<1> QED
  BY <1>1

\* One that ends a request of s, or s.
LEMMA OutcomeBecomes ==
    ASSUME Typed, NEW s \in Sessions, StepOf(s), pc'[s] \in {"idle", "gone"},
           NEW what, Outcome(s)' = what
    PROVE  AbstractTree!Becomes(s, what)
<1>1. Named(s)' = <<>>
  BY DEF Named, Root
<1> QED
  BY <1>1, OutcomeSteps DEF AbstractTree!Becomes

\* The same for a step that leaves s its outcome and the tree its shape.
LEMMA OutcomeStays ==
    ASSUME Typed, NEW s \in Sessions, StepOf(s),
           {pc[s], pc'[s]} \subseteq {"checked", "sending", "receiving"},
           UNCHANGED <<req, cwd, dirs, files>>, Outcome(s)' = Outcome(s)
    PROVE  UNCHANGED AbstractTree!treeVars
<1>1. Named(s)' = Named(s)
  BY DEF Named, Target, PathOf
<1>2. /\ [t \in Sessions |-> Outcome(t)]' = [t \in Sessions |-> Outcome(t)]
      /\ [t \in Sessions |-> Named(t)]' = [t \in Sessions |-> Named(t)]
  BY <1>1, OutcomeSteps
<1> QED
  BY <1>2 DEF AbstractTree!treeVars

\* What is found under its path has a name, which "." and ".." are not.
LEMMA FileIsNamed ==
    ASSUME Typed, TreeShape, NEW s \in Sessions, pc[s] \in {"checked", "receiving"},
           Target(s) \in DOMAIN files
    PROVE  Named(s) = Target(s) /\ Target(s) # Root
<1>1. cwd[s] \in Paths /\ Target(s) \in Paths /\ Target(s) # Root
  BY DEF Typed, ControlTypes, TreeTypes, TreeShape, AbstractTree!TreeTypeOK, Root
<1>2. ASSUME req[s].arg \in Dots PROVE FALSE
  <2>1. Target(s) = Append(cwd[s], req[s].arg)
    BY <1>2 DEF Target, PathOf, Dots, NoArg
  <2> DEFINE p == cwd[s]
             name == req[s].arg
             S == Names \cup {name}
  <2>2. p \in Seq(S) /\ name \in S /\ Append(p, name) \in Seq(Names)
    BY <1>1, <2>1, PathsAreSequences, SeqMonotonic
  <2> HIDE DEF p, name, S
  <2>3. Len(Append(p, name)) = Len(p) + 1 /\ Append(p, name)[Len(p) + 1] = name /\ Len(p) \in Nat
    BY <2>2, AppendProperties, LenProperties
  <2>4. name \in Names
    BY <2>2, <2>3, ElementOfSeq
  <2> QED
    BY <1>2, <2>4 DEF name, Names
<1> QED
  BY <1>1, <1>2 DEF Named

-----------------------------------------------------------------------------
(* Each shape of step is a step of the tree.                               *)

Implements == AbstractTree!TreeNext \/ UNCHANGED AbstractTree!treeVars

\* A session takes one of the steps of the tree.
LEMMA OneOf ==
    ASSUME NEW s \in Sessions,
           \/ AbstractTree!Ask(s) \/ AbstractTree!Make(s) \/ AbstractTree!Remove(s)
           \/ AbstractTree!BeginStore(s) \/ AbstractTree!EndStore(s)
           \/ AbstractTree!AbortStore(s) \/ AbstractTree!Tell(s) \/ AbstractTree!Vanish(s)
    PROVE  Implements
BY DEF Implements, AbstractTree!TreeNext

\* A refusal, or the end of the process.
LEMMA DropsImplements ==
    ASSUME Typed, NEW s \in Sessions, Drops(s) PROVE Implements
<1>d. /\ pc \in [Sessions -> {"idle", "checked", "sending", "receiving", "gone"}]
      /\ DOMAIN req = Sessions
  BY DEF Typed, ControlTypes
<1>1. /\ UNCHANGED <<dirs, files>> /\ req'[s].verb = "none" /\ StepOf(s)
      /\ pc[s] # "gone" /\ pc'[s] \in {"idle", "gone"}
  BY <1>d DEF Drops, StepOf, tree, Forget, Set, NoRequest, Reply
<1>2. CASE pc'[s] = "gone"
  <2>1. AbstractTree!Becomes(s, "gone")
    BY <1>1, <1>2, OutcomeBecomes DEF Outcome, Answered
  <2> QED
    BY <1>1, <2>1, OneOf DEF AbstractTree!Vanish
<1>3. CASE pc'[s] = "idle"
  <2>1. AbstractTree!Becomes(s, "other")
    <3>1. Outcome(s)' = "other"
      BY <1>1, <1>3 DEF Outcome, Answered
    <3> QED
      BY <1>1, <1>3, <3>1, OutcomeBecomes
  <2>2. CASE pc[s] = "idle"
    BY <1>1, <2>1, <2>2, OutcomeOf, OneOf DEF AbstractTree!Ask
  <2>3. CASE pc[s] \in {"checked", "sending"}
    BY <1>1, <2>1, <2>3, OutcomeOf, OneOf DEF AbstractTree!Tell
  <2>4. CASE pc[s] = "receiving"
    BY <1>1, <2>1, <2>4, OutcomeOf, OneOf DEF AbstractTree!AbortStore
  <2> QED
    BY <1>d, <1>1, <2>2, <2>3, <2>4
<1> QED
  BY <1>1, <1>2, <1>3

\* A CWD, or the check of another request.
LEMMA AskImplements ==
    ASSUME Typed, NEW s \in Sessions, Cwd(s) \/ Check(s) PROVE Implements
<1>d. DOMAIN pc = Sessions /\ DOMAIN req = Sessions
  BY DEF Typed, ControlTypes
<1>1. pc[s] = "idle" /\ UNCHANGED <<dirs, files>> /\ StepOf(s)
  BY DEF Cwd, Check, Asks, StepOf, tree
<1>2. CASE Cwd(s)
  <2>1. pc'[s] = "idle" /\ req'[s].verb = "CWD"
    BY <1>2, <1>d DEF Cwd, Begin, Reply, Set
  <2>2. Outcome(s)' = "other"
    BY <2>1 DEF Outcome, Answered
  <2> QED
    BY <1>1, <2>1, <2>2, OutcomeBecomes, OutcomeOf, OneOf DEF AbstractTree!Ask
<1>3. CASE Check(s)
  <2>1. PICK arg \in Arguments : \E verb \in VerbsWith(arg) :
             /\ Asks(s, arg)
             /\ Begin(s, verb, arg) /\ Continue(s, "checked") /\ UNCHANGED cwd
    BY <1>3 DEF Check
  <2>2. /\ pc'[s] = "checked" /\ req'[s].arg = arg /\ UNCHANGED cwd
        /\ arg \in Names => Len(cwd[s]) < MaxDepth
    BY <2>1, <1>d DEF Begin, Continue, Set, Asks
  <2>3. Outcome(s)' = "pending"
    BY <2>2 DEF Outcome, Answered
  <2>4. Named(s)' \in Paths
    <3>1. Named(s)' = IF arg \in Dots THEN Root ELSE PathOf(s, arg)
      BY <2>2 DEF Named, Target, PathOf
    <3>2. arg \notin Dots => PathOf(s, arg) \in Paths
      BY <2>2, BelowIsPath DEF PathOf, Names, Typed, ControlTypes
    <3> QED
      BY <3>1, <3>2, RootIsPath
  <2>5. AbstractTree!Ask(s)
    BY <1>1, <2>3, <2>4, OutcomeOf, OutcomeSteps DEF AbstractTree!Ask
  <2> QED
    BY <2>5, OneOf
<1> QED
  BY <1>2, <1>3

LEMMA MakesImplements ==
    ASSUME Typed, NEW s \in Sessions, Makes(s) PROVE Implements
<1>d. DOMAIN pc = Sessions /\ DOMAIN code = Sessions
  BY DEF Typed, ControlTypes
<1>1. /\ pc[s] = "checked" /\ req[s].verb = "MKD" /\ UNCHANGED <<req, files>>
      /\ pc'[s] = "idle" /\ code'[s] = 257
      /\ dirs' = dirs \cup {Target(s)} /\ ParentOf(Target(s)) \in dirs
      /\ Target(s) \notin dirs \cup DOMAIN files /\ req[s].arg \notin Dots
  BY <1>d DEF Makes, Mkd, MkdirWorks, Acts, Succeed, Reply, Set, Exists, IsFilePath
<1>2. Named(s) = Target(s) /\ Target(s) # <<>>
  BY <1>1, TargetIsPath DEF Named, Root, Typed, Control
<1>3. Outcome(s)' = "made"
  BY <1>1 DEF Outcome, Answered
<1>4. AbstractTree!Becomes(s, "made")
  BY <1>1, <1>3, OutcomeBecomes DEF StepOf
<1>5. AbstractTree!Make(s)
  BY <1>1, <1>2, <1>4, OutcomeOf
     DEF AbstractTree!Make, AbstractTree!Pending, AbstractTree!Exists, AbstractTree!ParentOf,
         ParentOf, Front
<1> QED
  BY <1>5, OneOf

LEMMA RemovesImplements ==
    ASSUME Typed, NEW s \in Sessions, Removes(s) PROVE Implements
<1>d. DOMAIN pc = Sessions /\ DOMAIN code = Sessions
  BY DEF Typed, ControlTypes
<1>1. /\ pc[s] = "checked" /\ req[s].verb = "RMD" /\ UNCHANGED <<req, files>>
      /\ pc'[s] = "idle" /\ code'[s] = 250 /\ req[s].arg \notin Dots
      /\ dirs' = dirs \ {Target(s)} /\ Target(s) \in dirs
      /\ \A p \in (dirs \cup DOMAIN files) \ {Root} : ParentOf(p) # Target(s)
  BY <1>d DEF Removes, Rmd, RmdirWorks, Acts, Succeed, Reply, Set, HasEntries
<1>2. Named(s) = Target(s) /\ Target(s) # <<>>
  BY <1>1, TargetIsPath DEF Named, Root, Typed, Control
<1>3. Outcome(s)' = "removed"
  BY <1>1 DEF Outcome, Answered
<1>4. AbstractTree!Becomes(s, "removed")
  BY <1>1, <1>3, OutcomeBecomes DEF StepOf
<1>5. AbstractTree!IsEmptyDir(Target(s))
  BY <1>1 DEF AbstractTree!IsEmptyDir, AbstractTree!ParentOf, ParentOf, Front, Root
<1>6. AbstractTree!Remove(s)
  BY <1>1, <1>2, <1>4, <1>5, OutcomeOf DEF AbstractTree!Remove, AbstractTree!Pending
<1> QED
  BY <1>6, OneOf

LEMMA UnlinksImplements ==
    ASSUME Typed, TreeShape, NEW s \in Sessions, Unlinks(s) PROVE Implements
<1>d. DOMAIN pc = Sessions /\ DOMAIN code = Sessions
  BY DEF Typed, ControlTypes
<1>1. /\ pc[s] = "checked" /\ req[s].verb = "DELE" /\ UNCHANGED <<req, dirs>>
      /\ pc'[s] = "idle" /\ code'[s] = 250
      /\ DOMAIN files' = DOMAIN files \ {Target(s)} /\ Target(s) \in DOMAIN files
  BY <1>d, UnlinkEffect DEF Unlinks, Dele, Acts, Reply, Set, IsFilePath
<1>2. Named(s) = Target(s) /\ Target(s) # <<>>
  BY <1>1, FileIsNamed DEF Root
<1>3. Outcome(s)' = "removed"
  BY <1>1 DEF Outcome, Answered
<1>4. AbstractTree!Becomes(s, "removed")
  BY <1>1, <1>3, OutcomeBecomes DEF StepOf
<1>5. AbstractTree!Remove(s)
  BY <1>1, <1>2, <1>4, OutcomeOf DEF AbstractTree!Remove, AbstractTree!Pending
<1> QED
  BY <1>5, OneOf

\* The steps of a transfer that the tree does not show.
LEMMA SilentImplements ==
    ASSUME Typed, NEW s \in Sessions, Opens(s) \/ SendBlock(s) \/ ReceiveBlock(s)
    PROVE  Implements
<1>d. DOMAIN pc = Sessions
  BY DEF Typed, ControlTypes
<1>1. UNCHANGED <<req, cwd, dirs, files>> /\ StepOf(s)
  BY DEF Opens, OpenToSend, SendBlock, ReceiveBlock, tree, StepOf
<1>2. \/ pc[s] \in {"checked", "sending"} /\ pc'[s] = "sending"
      \/ pc[s] = "receiving" /\ pc'[s] = "receiving"
  BY <1>d DEF Opens, OpenToSend, Acts, Continue, Set, SendBlock, ReceiveBlock
<1>3. Outcome(s)' = Outcome(s)
  BY <1>2 DEF Outcome, Answered
<1> QED
  BY <1>1, <1>2, <1>3, OutcomeStays DEF Implements

\* The 226 of a RETR tells nothing of the tree, that of a STOR ends it.
LEMMA DoneImplements ==
    ASSUME Typed, NEW s \in Sessions, Sent(s) \/ Received(s) PROVE Implements
<1>d. DOMAIN pc = Sessions /\ DOMAIN code = Sessions
  BY DEF Typed, ControlTypes
<1>1. /\ UNCHANGED <<req, dirs, files>> /\ StepOf(s)
      /\ pc'[s] = "idle" /\ code'[s] = 226
  BY <1>d DEF Sent, Received, Succeed, Reply, Set, tree, StepOf
<1>2. CASE Sent(s)
  <2>1. pc[s] = "sending" /\ req[s].verb = "RETR"
    BY <1>2 DEF Sent, Typed, Control
  <2>2. Outcome(s)' = "other"
    BY <1>1, <2>1 DEF Outcome, Answered
  <2>3. AbstractTree!Becomes(s, "other")
    BY <1>1, <2>2, OutcomeBecomes
  <2> QED
    BY <1>1, <2>1, <2>3, OutcomeOf, OneOf DEF AbstractTree!Tell
<1>3. CASE Received(s)
  <2>1. pc[s] = "receiving" /\ req[s].verb = "STOR"
    BY <1>3 DEF Received, Typed, Control
  <2>2. Outcome(s)' = "stored"
    BY <1>1, <2>1 DEF Outcome, Answered
  <2>3. AbstractTree!Becomes(s, "stored")
    BY <1>1, <2>2, OutcomeBecomes
  <2> QED
    BY <1>1, <2>1, <2>3, OutcomeOf, OneOf DEF AbstractTree!EndStore
<1> QED
  BY <1>2, <1>3

LEMMA CreatImplements ==
    ASSUME Typed, NEW s \in Sessions, Creat(s) PROVE Implements
<1>d. DOMAIN pc = Sessions
  BY DEF Typed, ControlTypes
<1>1. pc[s] = "checked" /\ pc'[s] = "receiving" /\ UNCHANGED <<req, cwd>> /\ StepOf(s)
  BY <1>d DEF Creat, Acts, Continue, Set, StepOf
<1>2. /\ Target(s) \notin dirs /\ ParentOf(Target(s)) \in dirs
      /\ UNCHANGED dirs /\ DOMAIN files' = DOMAIN files \cup {Target(s)}
  BY CreatEffect
<1>3. /\ Target(s) # <<>> /\ req[s].arg \notin Dots
      /\ Named(s) = Target(s) /\ Named(s)' = Named(s)
  BY <1>1 DEF Creat, CreatWorks, Named, Target, PathOf, Root
<1>4. Outcome(s)' = "storing"
  BY <1>1 DEF Outcome, Answered
<1>5. AbstractTree!BeginStore(s)
  BY <1>1, <1>2, <1>3, <1>4, OutcomeOf, OutcomeSteps
     DEF AbstractTree!BeginStore, AbstractTree!Pending, AbstractTree!ParentOf, ParentOf, Front
<1> QED
  BY <1>5, OneOf

\* The STOR that breaks removes the name it was stored under.
LEMMA AbortsImplements ==
    ASSUME Typed, TreeShape, NEW s \in Sessions, Aborts(s) PROVE Implements
<1>d. DOMAIN pc = Sessions /\ DOMAIN req = Sessions
  BY DEF Typed, ControlTypes
<1>1. /\ pc[s] = "receiving" /\ pc'[s] = "idle" /\ req'[s].verb = "none" /\ StepOf(s)
      /\ UNCHANGED dirs /\ DOMAIN files' = DOMAIN files \ {Target(s)}
      /\ Target(s) \in DOMAIN files
  BY <1>d, UnlinkEffect DEF Aborts, ReceiveBreaks, Reply, Forget, NoRequest, Set, StepOf, IsFilePath
<1>2. Outcome(s)' = "other"
  BY <1>1 DEF Outcome, Answered
<1>3. AbstractTree!Becomes(s, "other")
  BY <1>1, <1>2, OutcomeBecomes
<1> QED
  BY <1>1, <1>3, FileIsNamed, OutcomeOf, OneOf DEF AbstractTree!AbortStore

\* For any number of sessions interleaving their checks and calls, every behaviour is
\* one of FileTree.tla: a success changed the tree in one step that was legal then, at the
\* path that was checked; a refusal changed nothing, a failed STOR took at most its own
\* name away.
THEOREM FilesImplementTree == Spec => TreeRefinement
<1>1. Init => AbstractTree!TreeInit
  <2>1. ASSUME Init, NEW s \in Sessions PROVE Outcome(s) = "other" /\ Named(s) = <<>>
    BY <2>1 DEF Init, Outcome, Answered, NoRequest, Named, Root
  <2>2. ASSUME Init PROVE AbstractTree!TreeInit
    <3>1. dirs = {<<>>} /\ DOMAIN files = {}
      BY <2>2 DEF Init, Root
    <3>2. [s \in Sessions |-> Outcome(s)] = [s \in Sessions |-> "other"]
      BY <2>1, <2>2
    <3>3. [s \in Sessions |-> Named(s)] = [s \in Sessions |-> <<>>]
      BY <2>1, <2>2
    <3> QED
      BY <3>1, <3>2, <3>3 DEF AbstractTree!TreeInit
  <2> QED
    BY <2>2
<1>2. FilesInv /\ [Next]_vars => [AbstractTree!TreeNext]_AbstractTree!treeVars
  <2>1. ASSUME FilesInv, Next PROVE Implements
    <3>1. PICK s \in Sessions : StepOf(s)
      BY <2>1, StepShapes DEF Next
    <3>2. Typed /\ TreeShape
      BY <2>1 DEF FilesInv
    <3> QED
      BY <3>1, <3>2, DropsImplements, AskImplements, MakesImplements, RemovesImplements,
         UnlinksImplements, SilentImplements, DoneImplements, CreatImplements, AbortsImplements
         DEF StepOf
  <2>2. ASSUME UNCHANGED vars PROVE UNCHANGED AbstractTree!treeVars
    BY <2>2 DEF vars, tree, AbstractTree!treeVars, Outcome, Answered, Named, Target, PathOf
  <2> QED
    BY <2>1, <2>2 DEF Implements
<1> QED
  BY <1>1, <1>2, FilesInvHolds, PTL DEF Spec, TreeRefinement, AbstractTree!TreeSpec

-----------------------------------------------------------------------------
(* A session whose directory is gone.                                      *)

\* It finds nothing there, whatever it asks for.
LEMMA NothingBelow ==
    ASSUME Typed, TreeShape, NEW s \in Sessions, cwd[s] \notin dirs, NEW arg
    PROVE  /\ ~IsDir(s, arg)
           /\ arg # NoArg => /\ PathOf(s, arg) \notin dirs \cup DOMAIN files
                             /\ ParentOf(PathOf(s, arg)) \notin dirs
<1>1. cwd[s] \in Paths
  BY DEF Typed, ControlTypes
<1>2. CASE arg = NoArg
  BY <1>2 DEF IsDir, PathOf, Dots, NoArg
<1>3. CASE arg # NoArg
  <2>1. PathOf(s, arg) = Append(cwd[s], arg)
    BY <1>3 DEF PathOf
  <2>2. ParentOf(PathOf(s, arg)) = cwd[s] /\ PathOf(s, arg) # Root
    BY <1>1, <2>1, ParentOfBelow
  <2>3. PathOf(s, arg) \notin dirs \cup DOMAIN files
    BY <2>2 DEF TreeShape, AbstractTree!TreeTypeOK, AbstractTree!ParentOf, ParentOf, Front, Root
  <2> QED
    BY <2>2, <2>3 DEF IsDir
<1> QED
  BY <1>2, <1>3

LEMMA StrandedAlone ==
    ASSUME Typed, TreeShape, NEW s \in Sessions, cwd[s] \notin dirs,
           pc[s] = "idle" \/ (pc[s] = "checked" /\ req[s].arg # NoArg), pc'[s] # "gone",
           Ask(s) \/ Act(s) \/ Move(s) \/ Dies(s)
    PROVE  /\ cwd'[s] = cwd[s]
           /\ pc'[s] \in {"checked", "idle"}
           /\ code'[s] \in {0, 425, 501, 550, 552}
<1>d. DOMAIN pc = Sessions /\ DOMAIN code = Sessions
  BY DEF Typed, ControlTypes
<1>n. \A arg : ~IsDir(s, arg)
  BY NothingBelow
<1>r. ASSUME NEW reply \in {425, 501, 550, 552}, Refuse(s, reply), UNCHANGED cwd
      PROVE  /\ cwd'[s] = cwd[s]
             /\ pc'[s] \in {"checked", "idle"}
             /\ code'[s] \in {0, 425, 501, 550, 552}
  BY <1>d, <1>r DEF Refuse, Reply, Set
<1>c. 425 \in {425, 501, 550, 552} /\ 501 \in {425, 501, 550, 552}
      /\ 550 \in {425, 501, 550, 552} /\ 552 \in {425, 501, 550, 552}
  OBVIOUS
<1>1. CASE Ask(s)
  <2>1. ~Cwd(s)
    BY <1>n DEF Cwd, CwdWorks
  <2>2. CASE CwdFails(s) \/ CheckFails(s)
    BY <1>c, <1>r, <2>2 DEF CwdFails, CheckFails
  <2>3. CASE Check(s)
    BY <1>d, <2>3 DEF Check, Continue, Set
  <2> QED
    BY <1>1, <2>1, <2>2, <2>3 DEF Ask
<1>2. CASE Act(s)
  <2>1. req[s].arg # NoArg
    BY <1>2 DEF Act, Mkd, Rmd, Dele, CannotConnect, OpenToSend, Creat, CreatFails, Acts
  <2>2. /\ Target(s) \notin dirs \cup DOMAIN files /\ ParentOf(Target(s)) \notin dirs
        /\ ~IsFile(s, req[s].arg)
    BY <2>1, NothingBelow DEF Target, IsFile, IsFilePath
  <2>3. CASE Mkd(s) \/ Rmd(s) \/ Dele(s)
    BY <1>c, <1>r, <2>2, <2>3 DEF Mkd, MkdirWorks, Rmd, RmdirWorks, Dele, IsFilePath
  <2>4. CASE CannotConnect(s) \/ CreatFails(s)
    BY <1>c, <1>r, <2>4 DEF CannotConnect, CreatFails
  <2>5. CASE OpenToSend(s)
    BY <1>c, <1>n, <1>r, <2>2, <2>5 DEF OpenToSend
  <2>6. ~Creat(s)
    BY <2>2 DEF Creat, CreatWorks
  <2> QED
    BY <1>2, <2>3, <2>4, <2>5, <2>6 DEF Act
<1>3. ~Move(s)
  BY DEF Move, SendBlock, SendEnds, ReceiveBlock, ReceiveEnds, ReceiveBreaks
<1>4. ~Dies(s)
  BY <1>d DEF Dies, Set
<1> QED
  BY <1>1, <1>2, <1>3, <1>4

\* Until a directory of that name is made again, a session whose current directory was
\* removed is refused whatever it asks for with an argument, and stays where it is.
THEOREM AlwaysStrandedIsRefused == Spec => StrandedIsRefused
<1> DEFINE Stuck(s) == /\ cwd[s] \notin dirs \cup dirs'
                       /\ pc[s] = "idle" \/ (pc[s] = "checked" /\ req[s].arg # NoArg)
                       /\ pc'[s] # "gone"
           Refused(s) == /\ cwd'[s] = cwd[s]
                         /\ pc'[s] \in {"checked", "idle"}
                         /\ code'[s] # code[s] => code'[s] \in {0, 425, 501, 550, 552}
<1>1. ASSUME FilesInv, Next, NEW s \in Sessions, Stuck(s) PROVE Refused(s)
  <2>1. PICK t \in Sessions : Ask(t) \/ Act(t) \/ Move(t) \/ Dies(t)
    BY <1>1 DEF Next
  <2>2. CASE t = s
    BY <1>1, <2>1, <2>2, StrandedAlone DEF FilesInv
  <2>3. CASE t # s
    <3>1. cwd'[s] = cwd[s] /\ pc'[s] = pc[s] /\ code'[s] = code[s]
      BY <1>1, <2>1, <2>3, StepShapes, OthersStay DEF FilesInv
    <3> QED
      BY <1>1, <3>1
  <2> QED
    BY <2>2, <2>3
<1>2. FilesInv /\ [Next]_vars => [\A s \in Sessions : Stuck(s) => Refused(s)]_vars
  BY <1>1
<1> QED
  BY <1>2, FilesInvHolds, PTL DEF Spec, StrandedIsRefused
=============================================================================
