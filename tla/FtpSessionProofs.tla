-------------------------- MODULE FtpSessionProofs --------------------------
(***************************************************************************)
(* Theorems of FtpSession, for any names, passwords, accounts and ports.   *)
(***************************************************************************)
EXTENDS FtpSession, TLAPS

-----------------------------------------------------------------------------
(* What the pieces the handlers are built from do to the types.            *)

\* The login bookkeeping at the end of a turn keeps the login fields typed.
LEMMA EndTurnTypes ==
    ASSUME NEW verb, NEW name \in Names \cup {NoName}, NEW logged \in BOOLEAN,
           NEW path \in {"none", "root", "below"},
           EndTurn(verb, name, logged, path)
    PROVE  /\ username' \in Names \cup {NoName}
           /\ loggedIn' \in BOOLEAN
           /\ cwd' \in {"none", "root", "below"}
           /\ waiting' \in BOOLEAN
BY DEF EndTurn

\* A port is always 16 bits wide, whatever two numbers PORT gives.
LEMMA Remainder ==
    ASSUME NEW z \in Int, NEW n \in Nat \ {0} PROVE z % n \in 0 .. n - 1
BY SMT

LEMMA PortNumberType ==
    ASSUME NEW x \in Int, NEW y \in Int PROVE PortNumber(x, y) \in Ports
<1>1. x * 256 + y \in Int
  BY SMT
<1>2. PortSpace \in Nat \ {0}
  BY SMT DEF PortSpace
<1> QED
  BY <1>1, <1>2, Remainder DEF PortNumber, Ports

\* What the handlers do to the data connection keeps it typed.
LEMMA DataConnectionTypes ==
    ASSUME DataConnectionTypeOK,
           \/ UNCHANGED dcVars \/ OpenFails \/ UseAndKeep \/ UseAndClose \/ Close
           \/ \E port \in Ports : SetPort(port)
           \/ \E type \in {"ascii", "binary"} : SetType(type)
    PROVE  DataConnectionTypeOK'
BY DEF DataConnectionTypeOK, dcVars, OpenFails, UseAndKeep, UseAndClose, Close, SetPort,
       SetType, FailedOpens, SocketInUse, PeerInUse, IsOpened, NoPeer

Replies == FinalCodes \cup {125, 150}

LEMMA OneReply == ASSUME NEW c \in Replies PROVE <<c>> \in Seq(Replies)
OBVIOUS

LEMMA TwoReplies ==
    ASSUME NEW c \in Replies, NEW d \in Replies PROVE <<c, d>> \in Seq(Replies)
OBVIOUS

LEMMA OneMoreReply ==
    ASSUME NEW s \in Seq(Replies), NEW c \in Replies PROVE Append(s, c) \in Seq(Replies)
OBVIOUS

-----------------------------------------------------------------------------
(* Type correctness: one lemma per group of variables.                     *)

ControlTypeOK ==
    /\ pc \in {"idle", "listing", "closed", "lost", "crashed"}
    /\ cmd.verb \in Verbs \cup {"none"}
    /\ out \in Seq(Replies)
    /\ db \in {"unloaded", "loaded"}
    /\ ls \in {"none", "running", "done", "failed"}

LoginFieldsOK ==
    /\ username \in Names \cup {NoName}
    /\ loggedIn \in BOOLEAN
    /\ root \in Names \cup {NoName, Garbage}
    /\ cwd \in {"none", "root", "below"}
    /\ waiting \in BOOLEAN

LEMMA TypeParts == TypeOK <=> ControlTypeOK /\ LoginFieldsOK /\ DataConnectionTypeOK
BY Zenon DEF TypeOK, ControlTypeOK, LoginFieldsOK, Replies

-----------------------------------------------------------------------------
(* The shapes of a step.  Most handlers differ only in the verb, the code  *)
(* and what they do with the data connection.                              *)

TransferVerbs == {"LIST", "RETR", "STOR"}
OtherVerbs == Verbs \ {"USER", "PASS", "QUIT"}

PlainReply == \E verb \in OtherVerbs, code \in FinalCodes : FixedReply(verb, code)
Refusal == NotLoggedIn \/ BadSequence
AtomicTransfer ==
    \E verb \in TransferVerbs, code \in FinalCodes :
        \/ CannotOpen(verb)
        \/ \E arg : \/ TransferKeeps(verb, arg, code)
                    \/ TransferCloses(verb, arg, code)
                    \/ Killed(verb, arg)

LEMMA TransferShapes ==
    ASSUME Retr \/ Stor \/ List PROVE PlainReply \/ AtomicTransfer \/ ListForks
<1>1. /\ TransferVerbs \subseteq OtherVerbs
      /\ "LIST" \in TransferVerbs /\ "RETR" \in TransferVerbs /\ "STOR" \in TransferVerbs
  BY DEF TransferVerbs, OtherVerbs, Verbs
<1>2. /\ 226 \in FinalCodes /\ 426 \in FinalCodes /\ 451 \in FinalCodes
      /\ 501 \in FinalCodes /\ 550 \in FinalCodes /\ 552 \in FinalCodes
  BY DEF FinalCodes
<1> USE DEF PlainReply, AtomicTransfer, BadPath
<1>3. CASE Retr
  BY <1>1, <1>2, <1>3, SMT DEF Retr
<1>4. CASE Stor
  BY <1>1, <1>2, <1>4, SMT DEF Stor
<1>5. CASE List
  BY <1>1, <1>2, <1>5, Zenon DEF List
<1> QED
  BY <1>3, <1>4, <1>5

LEMMA PlainShapes ==
    ASSUME Syst \/ Feat \/ Unrecognised \/ PortSyntaxError \/ TypeRefused \/ CwdRefused
           \/ Dele \/ Rmd \/ Mkd
    PROVE  PlainReply
BY DEF PlainReply, OtherVerbs, Verbs, FinalCodes, Syst, Feat, Unrecognised, PortSyntaxError,
   TypeRefused, CwdRefused, Dele, Rmd, Mkd

LEMMA StepShapes ==
    ASSUME Next
    PROVE  \/ User \/ UserSyntaxError \/ Pass \/ PassSyntaxError \/ Quit
           \/ PlainReply \/ Refusal \/ Port \/ Type \/ TypeBlank \/ Pwd \/ Cwd
           \/ MissingArgument \/ AtomicTransfer \/ ListForks \/ LsExits \/ SigchldHandler
           \/ ListWait \/ ConnectionLost
BY TransferShapes, PlainShapes, Zenon DEF Next, LoginStep, PlainStep, TransferStep, Refusal

-----------------------------------------------------------------------------
(* Type correctness, one lemma per group of variables.                     *)

LEMMA AnswerTypes ==
    ASSUME NEW code \in FinalCodes, Answer(<<code>>)
    PROVE  pc' = "idle" /\ out' \in Seq(Replies)
BY OneReply DEF Answer, Replies

LEMMA AnswerTypes2 ==
    ASSUME NEW code \in FinalCodes, Answer(<<About, code>>)
    PROVE  pc' = "idle" /\ out' \in Seq(Replies)
<1>1. About \in Replies /\ code \in Replies
  BY DEF About, Replies
<1> QED
  BY <1>1, TwoReplies DEF Answer

LEMMA CrashTypes ==
    ASSUME Crash PROVE pc' = "crashed" /\ out' \in Seq(Replies) /\ ls' = ls
<1>1. <<>> \in Seq(Replies)
  OBVIOUS
<1>2. pc' = "crashed" /\ ls' = ls /\ out' = <<>>
  BY DEF Crash
<1> QED
  BY <1>1, <1>2, Zenon

LEMMA ControlTypes == ASSUME ControlTypeOK, Next PROVE ControlTypeOK'
<1>c. /\ {200, 221, 226, 230, 250, 257, 331, 425, 426, 451, 501, 503, 530, 552} \subseteq FinalCodes
      /\ \A v \in OtherVerbs : v \in Verbs
      /\ TransferVerbs \subseteq Verbs /\ NeedingLogin \subseteq Verbs
      /\ {"USER", "PASS", "QUIT", "PORT", "TYPE", "PWD", "CWD", "DELE", "RMD", "MKD"} \subseteq Verbs
  BY DEF FinalCodes, OtherVerbs, TransferVerbs, NeedingLogin, Verbs
<1> USE DEF ControlTypeOK
<1>1. CASE User
  BY <1>1, <1>c, AnswerTypes DEF User, Request, LoadDatabase
<1>2. CASE UserSyntaxError
  BY <1>2, <1>c, AnswerTypes DEF UserSyntaxError, Request
<1>14. CASE PassSyntaxError
  BY <1>14, <1>c, AnswerTypes DEF PassSyntaxError, Request
<1>3. CASE Pass
  <2>1. /\ cmd'.verb = "PASS" /\ db' \in {"unloaded", "loaded"}
        /\ Crash \/ BadPassword \/ UnknownUser \/ \E path : GrantLogin(path)
    BY <1>3 DEF Pass, Request, LoadDatabase
  <2>2. ls' = ls
    BY <2>1 DEF Crash, BadPassword, UnknownUser, GrantLogin
  <2>3. pc' \in {"idle", "crashed"} /\ out' \in Seq(Replies)
    <3>1. Crash \/ Answer(<<530>>) \/ Answer(<<230>>)
      BY <2>1 DEF BadPassword, UnknownUser, GrantLogin
    <3>2. 230 \in FinalCodes /\ 530 \in FinalCodes
      BY <1>c
    <3> QED
      BY <3>1, <3>2, AnswerTypes, CrashTypes
  <2> QED
    BY <2>1, <2>2, <2>3, <1>c
<1>4. CASE Quit
  BY <1>4, <1>c, OneReply DEF Quit, Request, Replies
<1>5. CASE PlainReply
  BY <1>5, <1>c, AnswerTypes DEF PlainReply, FixedReply, Request
<1>6. CASE Refusal
  BY <1>6, <1>c, AnswerTypes DEF Refusal, NotLoggedIn, BadSequence, Refuse
<1>7. CASE Port \/ Type
  BY <1>7, <1>c, AnswerTypes DEF Port, Type, Request
<1>8. CASE TypeBlank \/ MissingArgument
  BY <1>8, <1>c, CrashTypes DEF TypeBlank, MissingArgument, Request
<1>9. CASE Pwd \/ Cwd
  BY <1>9, <1>c, CrashTypes, AnswerTypes DEF Pwd, Cwd, Request
<1>10. CASE AtomicTransfer
  <2>1. PICK verb \in TransferVerbs, code \in FinalCodes :
             \/ CannotOpen(verb)
             \/ \E arg : \/ TransferKeeps(verb, arg, code)
                         \/ TransferCloses(verb, arg, code)
                         \/ Killed(verb, arg)
    BY <1>10 DEF AtomicTransfer
  <2>2. CASE CannotOpen(verb)
    BY <2>2, <1>c, AnswerTypes2 DEF CannotOpen, Request
  <2>3. ASSUME NEW arg, TransferKeeps(verb, arg, code) \/ TransferCloses(verb, arg, code)
        PROVE  ControlTypeOK'
    BY <2>3, <1>c, AnswerTypes2 DEF TransferKeeps, TransferCloses, Request
  <2>4. ASSUME NEW arg, Killed(verb, arg) PROVE ControlTypeOK'
    BY <2>4, <1>c, OneReply DEF Killed, Request, About, Replies
  <2> QED
    BY <2>1, <2>2, <2>3, <2>4
<1>11. CASE ListForks
  BY <1>11, OneReply DEF ListForks, Request, About, Verbs, Replies
<1>12. CASE LsExits \/ SigchldHandler \/ ConnectionLost
  BY <1>12 DEF LsExits, SigchldHandler, ConnectionLost
<1>13. CASE ListWait
  <2>1. out' \in Seq(Replies)
    <3>1. 226 \in Replies /\ 451 \in Replies
      BY <1>c DEF Replies
    <3>2. out' = Append(out, 226) \/ out' = Append(out, 451)
      BY <1>13 DEF ListWait
    <3> QED
      BY <3>1, <3>2, OneMoreReply
  <2> QED
    BY <1>13, <2>1 DEF ListWait
<1> QED
  BY <1>1, <1>2, <1>3, <1>4, <1>5, <1>6, <1>7, <1>8, <1>9, <1>10, <1>11, <1>12, <1>13, <1>14,
     StepShapes

LEMMA LoginFieldTypes == ASSUME LoginFieldsOK, Next PROVE LoginFieldsOK'
<1> USE DEF LoginFieldsOK
<1>k. ASSUME NEW verb, EndTurnOf(verb) PROVE LoginFieldsOK'
  BY <1>k, EndTurnTypes DEF EndTurnOf
<1>u. ASSUME UNCHANGED loginState PROVE LoginFieldsOK'
  BY <1>u DEF loginState
<1>1. CASE User
  BY <1>1, EndTurnTypes DEF User
<1>2. CASE UserSyntaxError
  BY <1>2, EndTurnTypes DEF UserSyntaxError
<1>3. CASE Pass
  <2>1. Crash \/ BadPassword \/ UnknownUser \/ GrantLogin(Garbage) \/ GrantLogin(username)
    BY <1>3 DEF Pass
  <2>2. username \in Accounts => username \in Names \cup {NoName, Garbage}
    BY SessionAssumption
  <2>3. CASE GrantLogin(Garbage) \/ GrantLogin(username)
    BY <2>3, EndTurnTypes DEF GrantLogin
  <2>4. CASE BadPassword
    BY <2>4, EndTurnTypes DEF BadPassword
  <2> QED
    BY <2>1, <2>3, <2>4, <1>k, <1>u DEF Crash, UnknownUser
<1>4. CASE PassSyntaxError
  BY <1>4, <1>k DEF PassSyntaxError
<1>5. CASE Quit
  BY <1>5, EndTurnTypes DEF Quit
<1>6. CASE PlainReply
  BY <1>6, <1>k DEF PlainReply, FixedReply
<1>7. CASE Refusal
  BY <1>7, <1>u DEF Refusal, NotLoggedIn, BadSequence, Refuse
<1>8. CASE Port \/ Type
  BY <1>8, <1>k DEF Port, Type
<1>9. CASE TypeBlank \/ MissingArgument
  BY <1>9, <1>u DEF TypeBlank, MissingArgument, Crash
<1>10. CASE Pwd
  BY <1>10, <1>k, <1>u DEF Pwd, Crash
<1>11. CASE Cwd
  <2>0. PICK arg \in {".", "..", "name"} :
             /\ \E target \in CwdTargets(arg) : EndTurn("CWD", username, loggedIn, target)
             /\ UNCHANGED root
    BY <1>11 DEF Cwd
  <2>1. PICK target \in CwdTargets(arg) : EndTurn("CWD", username, loggedIn, target)
    BY <2>0
  <2>2. target \in {"none", "root", "below"}
    BY DEF CwdTargets
  <2> QED
    BY <2>0, <2>1, <2>2, EndTurnTypes
<1>12. CASE AtomicTransfer
  BY <1>12, <1>k, <1>u
     DEF AtomicTransfer, CannotOpen, TransferKeeps, TransferCloses, Killed
<1>13. CASE ListForks \/ LsExits \/ SigchldHandler \/ ConnectionLost
  BY <1>13, <1>u DEF ListForks, LsExits, SigchldHandler, ConnectionLost
<1>14. CASE ListWait
  BY <1>14, <1>k DEF ListWait
<1> QED
  BY <1>1, <1>2, <1>3, <1>4, <1>5, <1>6, <1>7, <1>8, <1>9, <1>10, <1>11, <1>12, <1>13, <1>14,
     StepShapes

LEMMA DataConnectionSteps == ASSUME DataConnectionTypeOK, Next PROVE DataConnectionTypeOK'
<1>1. CASE Port
  <2>1. PICK xy \in PortArguments : SetPort(PortNumber(xy[1], xy[2]))
    BY <1>1 DEF Port
  <2>2. xy[1] \in Int /\ xy[2] \in Int
    BY SessionAssumption
  <2> QED
    BY <2>1, <2>2, PortNumberType, DataConnectionTypes
<1>2. CASE Type
  BY <1>2, DataConnectionTypes DEF Type
<1>3. CASE AtomicTransfer
  BY <1>3, DataConnectionTypes
     DEF AtomicTransfer, CannotOpen, TransferKeeps, TransferCloses, Killed
<1>4. CASE User \/ UserSyntaxError \/ PassSyntaxError \/ PlainReply \/ Refusal
  BY <1>4, DataConnectionTypes DEF User, UserSyntaxError, PassSyntaxError, PlainReply,
     FixedReply, Refusal, NotLoggedIn, BadSequence, Refuse
<1>5. CASE Pass
  BY <1>5, DataConnectionTypes DEF Pass, Crash, GrantLogin, BadPassword, UnknownUser
<1>6. CASE TypeBlank \/ MissingArgument \/ Pwd \/ Cwd
  BY <1>6, DataConnectionTypes DEF TypeBlank, MissingArgument, Pwd, Cwd, Crash
<1>7. CASE Quit \/ ListForks \/ ListWait
  BY <1>7, DataConnectionTypes DEF Quit, ListForks, ListWait
<1>8. CASE LsExits \/ SigchldHandler \/ ConnectionLost
  BY <1>8, DataConnectionTypes DEF LsExits, SigchldHandler, ConnectionLost
<1> QED
  BY <1>1, <1>2, <1>3, <1>4, <1>5, <1>6, <1>7, <1>8, StepShapes

LEMMA InitTypes == Init => TypeOK
<1>1. Init => ControlTypeOK
  <2>1. <<>> \in Seq(Replies)
    OBVIOUS
  <2> QED
    BY <2>1 DEF Init, ControlTypeOK
<1>2. Init => LoginFieldsOK
  BY DEF Init, LoginFieldsOK
<1>3. Init => DataConnectionTypeOK
  BY ClientPortAssumption DEF Init, DataConnectionInit, DataConnectionTypeOK
<1> QED
  BY <1>1, <1>2, <1>3, TypeParts

LEMMA TypeStep == ASSUME TypeOK, Next PROVE TypeOK'
<1>1. ControlTypeOK' /\ LoginFieldsOK' /\ DataConnectionTypeOK'
  BY TypeParts, ControlTypes, LoginFieldTypes, DataConnectionSteps
<1> QED
  BY <1>1 DEF TypeOK, ControlTypeOK, LoginFieldsOK, Replies

LEMMA TypeUnchanged == ASSUME TypeOK, UNCHANGED vars PROVE TypeOK'
BY DEF vars, loginState, dcVars, TypeOK, DataConnectionTypeOK

\* Every variable always holds a value of its kind: in particular no PORT, however
\* large its numbers, makes the port wider than sin_port.
THEOREM TypeCorrect == Spec => []TypeOK
<1>1. Init => TypeOK
  BY InitTypes
<1>2. TypeOK /\ [Next]_vars => TypeOK'
  BY TypeStep, TypeUnchanged
<1> QED
  BY <1>1, <1>2, PTL DEF Spec

-----------------------------------------------------------------------------
(* The login fields agree.                                                 *)

\* LoginConsistent for a process that is still there.
FieldsAgree ==
    /\ waiting => username # NoName /\ ~loggedIn
    /\ username # NoName => waiting \/ loggedIn
    /\ ~loggedIn => cwd = "none"
    /\ loggedIn => /\ username # NoName
                   /\ cwd # "none"
                   /\ root = Garbage \/ (root = username /\ username \in Accounts)

\* A turn of another command than USER either keeps the fields or, when a login was
\* pending, clears them.
LEMMA EndTurnAgrees ==
    ASSUME LoginFieldsOK, FieldsAgree, NEW verb, verb # "USER", EndTurnOf(verb)
    PROVE  FieldsAgree' /\ ~waiting' /\ loggedIn' = loggedIn
BY DEF LoginFieldsOK, FieldsAgree, EndTurnOf, EndTurn

LEMMA SameFieldsAgree ==
    ASSUME FieldsAgree, UNCHANGED loginState PROVE FieldsAgree'
BY DEF FieldsAgree, loginState

LEMMA UserAgrees ==
    ASSUME LoginFieldsOK, User \/ UserSyntaxError PROVE FieldsAgree'
<1>1. PICK name \in Names \cup {NoName} : EndTurn("USER", name, FALSE, "none")
  BY DEF User, UserSyntaxError
<1> QED
  BY <1>1 DEF EndTurn, FieldsAgree, LoginFieldsOK

LEMMA GrantAgrees ==
    ASSUME LoginFieldsOK, FieldsAgree, waiting, NEW path, GrantLogin(path),
           path = Garbage \/ (path = username /\ username \in Accounts)
    PROVE  FieldsAgree' /\ loggedIn'
BY DEF GrantLogin, EndTurn, FieldsAgree, LoginFieldsOK

LEMMA BadPasswordAgrees ==
    ASSUME LoginFieldsOK, FieldsAgree, waiting, BadPassword
    PROVE  FieldsAgree' /\ ~loggedIn' /\ username' = NoName
BY DEF BadPassword, EndTurn, FieldsAgree, LoginFieldsOK

\* What process_pass can do, and what is known in each case.
LEMMA PassCases ==
    ASSUME LoginFieldsOK, Pass
    PROVE  /\ pc = "idle" /\ waiting /\ cmd'.verb = "PASS"
           /\ \/ Crash \/ BadPassword \/ UnknownUser
              \/ /\ GrantLogin(username) /\ username \in Accounts
                 /\ db' = "loaded" /\ cmd'.arg = PasswordOf[username]
              \/ /\ GrantLogin(Garbage)
                 /\ db' = "unloaded" \/ username \in Incomplete
<1>1. PICK word \in Passwords, result \in LookupResults(username) :
           /\ Request("PASS", word)
           /\ \/ result = "found" /\ word = PasswordOf[username] /\ GrantLogin(username)
              \/ BadPassword \/ Crash \/ UnknownUser
              \/ result = "unset" /\ GrantLogin(Garbage)
  BY DEF Pass
<1>2. db' \in {"unloaded", "loaded"}
  BY DEF Pass, LoadDatabase
<1>3. /\ result = "found" => username \in Accounts /\ db' = "loaded"
      /\ result = "unset" => db' = "unloaded" \/ username \in Incomplete
  BY <1>2 DEF LookupResults
<1> QED
  BY <1>1, <1>3 DEF Request, MayRun

LEMMA CwdAgrees == ASSUME LoginFieldsOK, FieldsAgree, Cwd PROVE FieldsAgree' /\ loggedIn'
<1>1. PICK arg \in {".", "..", "name"} :
           /\ loggedIn /\ UNCHANGED root
           /\ \E target \in CwdTargets(arg) : EndTurn("CWD", username, loggedIn, target)
  BY DEF Cwd, Request, MayRun, NeedingLogin
<1>2. PICK target \in CwdTargets(arg) : EndTurn("CWD", username, loggedIn, target)
  BY <1>1
<1>3. target # "none"
  BY <1>1 DEF CwdTargets, FieldsAgree
<1> QED
  BY <1>1, <1>2, <1>3 DEF EndTurn, FieldsAgree, LoginFieldsOK

LEMMA AgreeStep ==
    ASSUME LoginFieldsOK, FieldsAgree, Next, Alive' PROVE FieldsAgree'
<1>1. CASE User \/ UserSyntaxError
  BY <1>1, UserAgrees
<1>2. CASE Pass
  BY <1>2, PassCases, GrantAgrees, BadPasswordAgrees, EndTurnAgrees DEF Crash, UnknownUser, Alive
<1>3. CASE PassSyntaxError
  BY <1>3, EndTurnAgrees DEF PassSyntaxError
<1>4. CASE Quit
  BY <1>4 DEF Quit, Alive
<1>5. CASE PlainReply
  BY <1>5, EndTurnAgrees DEF PlainReply, FixedReply, OtherVerbs
<1>6. CASE Refusal
  BY <1>6, SameFieldsAgree DEF Refusal, NotLoggedIn, BadSequence, Refuse
<1>7. CASE Port \/ Type
  BY <1>7, EndTurnAgrees DEF Port, Type
<1>8. CASE TypeBlank \/ MissingArgument
  BY <1>8, SameFieldsAgree DEF TypeBlank, MissingArgument, Crash
<1>9. CASE Pwd
  BY <1>9, EndTurnAgrees, SameFieldsAgree DEF Pwd, Crash
<1>10. CASE Cwd
  BY <1>10, CwdAgrees
<1>11. CASE AtomicTransfer
  BY <1>11, EndTurnAgrees, SameFieldsAgree
     DEF AtomicTransfer, TransferVerbs, CannotOpen, TransferKeeps, TransferCloses, Killed
<1>12. CASE ListForks \/ LsExits \/ SigchldHandler \/ ConnectionLost
  BY <1>12, SameFieldsAgree DEF ListForks, LsExits, SigchldHandler, ConnectionLost
<1>13. CASE ListWait
  BY <1>13, EndTurnAgrees DEF ListWait
<1> QED
  BY <1>1, <1>2, <1>3, <1>4, <1>5, <1>6, <1>7, <1>8, <1>9, <1>10, <1>11, <1>12, <1>13, StepShapes

-----------------------------------------------------------------------------
(* The inductive invariant of the login.                                   *)

\* While a child lists, the request is the LIST that started it, it ran logged in,
\* and nothing but the first reply has been sent.
ListingState ==
    pc = "listing" => cmd.verb = "LIST" /\ loggedIn /\ out \in {<<125>>, <<150>>}

LoginInv ==
    /\ TypeOK
    /\ LoginConsistent
    /\ ListingState
    /\ GatedCommands
    /\ PasswordDirectlyFollowsUser

LEMMA AliveBefore == ASSUME Next, Alive' PROVE Alive
<1> USE DEF Alive, Request
<1>1. CASE User \/ UserSyntaxError \/ Pass \/ PassSyntaxError \/ Quit
  BY <1>1 DEF User, UserSyntaxError, Pass, PassSyntaxError, Quit
<1>2. CASE PlainReply \/ Refusal \/ Port \/ Type
  BY <1>2 DEF PlainReply, FixedReply, Refusal, NotLoggedIn, BadSequence, Refuse, Port, Type
<1>3. CASE TypeBlank \/ Pwd \/ Cwd \/ MissingArgument
  BY <1>3 DEF TypeBlank, Pwd, Cwd, MissingArgument
<1>4. CASE AtomicTransfer \/ ListForks
  BY <1>4 DEF AtomicTransfer, CannotOpen, TransferKeeps, TransferCloses, Killed, ListForks
<1>5. CASE LsExits \/ SigchldHandler \/ ListWait \/ ConnectionLost
  BY <1>5 DEF LsExits, SigchldHandler, ListWait, ConnectionLost
<1> QED
  BY <1>1, <1>2, <1>3, <1>4, <1>5, StepShapes

\* A command of NeedingLogin runs logged in and leaves the client so; a pending login
\* is named by the latest request, or survived a refusal.
LEMMA GateStep ==
    ASSUME LoginFieldsOK, FieldsAgree, ListingState, GatedCommands,
           PasswordDirectlyFollowsUser, Alive, Next, Alive', FieldsAgree'
    PROVE  ListingState' /\ GatedCommands' /\ PasswordDirectlyFollowsUser'
<1> DEFINE Goal == ListingState' /\ GatedCommands' /\ PasswordDirectlyFollowsUser'
<1> USE DEF ListingState, GatedCommands, PasswordDirectlyFollowsUser, Answered, Alive
<1>r. ASSUME NEW verb, NEW arg, verb # "USER", Request(verb, arg), EndTurnOf(verb), pc' = "idle"
      PROVE  Goal
  BY <1>r, EndTurnAgrees DEF Request, MayRun, FieldsAgree
<1>1. CASE User
  <2>0. PICK name \in Names :
           /\ LoadDatabase
           /\ \E found \in {result # "absent" : result \in LookupResults(name)} :
                /\ Request("USER", name)
                /\ Answer(IF found THEN <<331>> ELSE <<530>>)
                /\ EndTurn("USER", IF found THEN name ELSE NoName, FALSE, "none")
    BY <1>1 DEF User
  <2>1. PICK found \in {result # "absent" : result \in LookupResults(name)} :
             /\ Request("USER", name)
             /\ Answer(IF found THEN <<331>> ELSE <<530>>)
             /\ EndTurn("USER", IF found THEN name ELSE NoName, FALSE, "none")
    BY <2>0
  <2>2. cmd'.verb = "USER" /\ cmd'.arg = name /\ pc' = "idle"
    BY <2>1 DEF Request, Answer
  <2>3. waiting' => username' = name /\ out' = <<331>>
    <3>1. CASE found
      <4>1. Answer(<<331>>) /\ EndTurn("USER", name, FALSE, "none")
        BY <2>1, <3>1, Zenon
      <4> QED
        BY <4>1 DEF EndTurn, Answer
    <3>2. CASE ~found
      <4>1. EndTurn("USER", NoName, FALSE, "none")
        BY <2>1, <3>2, Zenon
      <4> QED
        BY <4>1 DEF EndTurn
    <3> QED
      BY <3>1, <3>2
  <2> QED
    BY <2>2, <2>3 DEF NeedingLogin
<1>2. CASE UserSyntaxError
  <2>1. cmd'.verb = "USER" /\ pc' = "idle" /\ ~waiting'
    BY <1>2 DEF UserSyntaxError, Request, Answer, EndTurn
  <2> QED
    BY <2>1 DEF NeedingLogin
<1>3. CASE Pass
  <2>1. pc' = "idle" /\ cmd'.verb = "PASS" /\ ~waiting'
    BY <1>3, PassCases DEF Crash, BadPassword, UnknownUser, GrantLogin, Answer, EndTurnOf, EndTurn
  <2> QED
    BY <2>1 DEF NeedingLogin
<1>4. CASE PassSyntaxError
  BY <1>4, <1>r DEF PassSyntaxError, Answer
<1>5. CASE Quit \/ TypeBlank \/ MissingArgument \/ ConnectionLost
  BY <1>5 DEF Quit, TypeBlank, MissingArgument, Crash, ConnectionLost
<1>6. CASE PlainReply
  BY <1>6, <1>r DEF PlainReply, FixedReply, OtherVerbs, Answer
<1>7. CASE NotLoggedIn
  BY <1>7 DEF NotLoggedIn, Refuse, Answer
<1>8. CASE BadSequence
  <2>1. cmd'.verb = "PASS" /\ pc' = "idle" /\ ~waiting'
    BY <1>8 DEF BadSequence, Refuse, MayRun, NeedingLogin, Answer, loginState
  <2> QED
    BY <2>1 DEF NeedingLogin
<1>9. CASE Port \/ Type
  BY <1>9, <1>r DEF Port, Type, Answer
<1>10. CASE Pwd
  BY <1>10, <1>r DEF Pwd, Answer, Crash
<1>11. CASE Cwd
  <2>1. loggedIn' /\ pc' = "idle"
    BY <1>11, CwdAgrees DEF Cwd, Answer
  <2> QED
    BY <2>1 DEF FieldsAgree
<1>12. CASE AtomicTransfer
  BY <1>12, <1>r
     DEF AtomicTransfer, TransferVerbs, CannotOpen, TransferKeeps, TransferCloses, Killed, Answer
<1>13. CASE ListForks
  <2>1. /\ cmd'.verb = "LIST" /\ pc' = "listing" /\ loggedIn' = loggedIn /\ loggedIn
        /\ out' \in {<<125>>, <<150>>} /\ cwd' = cwd
    BY <1>13 DEF ListForks, Request, MayRun, NeedingLogin, About, loginState
  <2> QED
    BY <2>1 DEF FieldsAgree
<1>14. CASE LsExits \/ SigchldHandler
  BY <1>14 DEF LsExits, SigchldHandler, loginState
<1>15. CASE ListWait
  <2>1. cmd' = cmd /\ cmd.verb = "LIST" /\ loggedIn /\ pc' = "idle"
    BY <1>15 DEF ListWait
  <2>2. loggedIn' /\ ~waiting'
    BY <1>15, <2>1, EndTurnAgrees DEF ListWait
  <2> QED
    BY <2>1, <2>2 DEF FieldsAgree
<1> QED
  BY <1>1, <1>2, <1>3, <1>4, <1>5, <1>6, <1>7, <1>8, <1>9, <1>10, <1>11, <1>12, <1>13, <1>14,
     <1>15, StepShapes DEF Refusal

LEMMA LoginInvStep == LoginInv /\ [Next]_vars => LoginInv'
<1>1. ASSUME LoginInv, Next PROVE LoginInv'
  <2>1. TypeOK' /\ LoginFieldsOK
    BY <1>1, TypeParts, TypeStep DEF LoginInv
  <2>2. CASE Alive'
    <3>1. Alive /\ FieldsAgree
      BY <1>1, <2>2, AliveBefore DEF LoginInv, LoginConsistent, FieldsAgree
    <3>2. FieldsAgree'
      BY <1>1, <2>1, <2>2, <3>1, AgreeStep
    <3> QED
      BY <1>1, <2>1, <2>2, <3>1, <3>2, GateStep DEF LoginInv, LoginConsistent, FieldsAgree
  <2>3. CASE ~Alive'
    BY <2>1, <2>3 DEF LoginInv, LoginConsistent, ListingState, GatedCommands,
       PasswordDirectlyFollowsUser, Answered, Alive
  <2> QED
    BY <2>2, <2>3
<1>2. ASSUME LoginInv, UNCHANGED vars PROVE LoginInv'
  BY <1>2 DEF vars, loginState, dcVars, LoginInv, TypeOK, DataConnectionTypeOK, LoginConsistent,
     ListingState, GatedCommands, PasswordDirectlyFollowsUser, Answered, Alive
<1> QED
  BY <1>1, <1>2

LEMMA LoginInvHolds == Spec => []LoginInv
<1>1. Init => LoginInv
  <2>1. Init => LoginConsistent
    BY DEF Init, LoginConsistent
  <2>2. Init => ListingState /\ GatedCommands /\ PasswordDirectlyFollowsUser
    BY DEF Init, ListingState, GatedCommands, NeedingLogin, PasswordDirectlyFollowsUser, Answered
  <2> QED
    BY <2>1, <2>2, InitTypes DEF LoginInv
<1> QED
  BY <1>1, LoginInvStep, PTL DEF Spec

\* Between two requests cli_username, cli_logged_in, waitingForPassword,
\* cli_current_path and cli_root_path agree, for any accounts and any requests.
THEOREM LoginAlwaysConsistent == Spec => []LoginConsistent
BY LoginInvHolds, PTL DEF LoginInv

\* A command of NeedingLogin answered by anything but 530 ran logged in, with a
\* current path.
THEOREM CommandsAlwaysGated == Spec => []GatedCommands
BY LoginInvHolds, PTL DEF LoginInv

\* The server waits for a password only right after the USER that asked for it, but
\* for commands it refused in between.
THEOREM PasswordAlwaysFollowsUser == Spec => []PasswordDirectlyFollowsUser
BY LoginInvHolds, PTL DEF LoginInv

-----------------------------------------------------------------------------
(* The session implements the abstract login.                              *)

USE DEF AbstractLogin!Gone, AbstractLogin!Anonymous, AbstractLogin!Named,
        AbstractLogin!Authenticated, AbstractLogin!Unverified

\* The abstract state of each combination of the login fields.
LEMMA AuthOf ==
    /\ ~Alive => SessionAuth = [phase |-> "gone"]
    /\ Alive => /\ SessionAuth.phase # "gone"
                /\ username = NoName => SessionAuth = [phase |-> "anonymous"]
                /\ username # NoName /\ ~loggedIn =>
                      SessionAuth = [phase |-> "named", user |-> username]
                /\ username # NoName /\ loggedIn /\ root = Garbage =>
                      SessionAuth = [phase |-> "unverified", user |-> username]
                /\ username # NoName /\ loggedIn /\ root # Garbage =>
                      SessionAuth = [phase |-> "authenticated", user |-> username]
BY DEF SessionAuth

LEMMA AuthNext ==
    /\ ~Alive' => SessionAuth' = [phase |-> "gone"]
    /\ Alive' => /\ username' = NoName => SessionAuth' = [phase |-> "anonymous"]
                 /\ username' # NoName /\ ~loggedIn' =>
                       SessionAuth' = [phase |-> "named", user |-> username']
                 /\ username' # NoName /\ loggedIn' /\ root' = Garbage =>
                       SessionAuth' = [phase |-> "unverified", user |-> username']
                 /\ username' # NoName /\ loggedIn' /\ root' # Garbage =>
                       SessionAuth' = [phase |-> "authenticated", user |-> username']
BY DEF SessionAuth

LEMMA NotLoggedInAuth ==
    ASSUME Alive, ~loggedIn PROVE SessionAuth \notin AbstractLogin!LoggedIn
<1>1. SessionAuth.phase \in {"anonymous", "named"}
  BY AuthOf
<1> QED
  BY <1>1 DEF AbstractLogin!LoggedIn

LEMMA NotWaitingAuth ==
    ASSUME Alive, FieldsAgree, ~waiting
    PROVE  SessionAuth \notin {AbstractLogin!Named(n) : n \in Names}
<1>1. SessionAuth.phase # "named"
  BY AuthOf DEF FieldsAgree
<1> QED
  BY <1>1

\* A turn that only does the bookkeeping is one in which the client does something
\* else than logging in.
LEMMA OtherTurn ==
    ASSUME LoginFieldsOK, FieldsAgree, Alive, Alive', UNCHANGED db,
           NEW verb, verb \notin {"USER", "PASS", "QUIT"}, cmd'.verb = verb,
           EndTurnOf(verb) \/ UNCHANGED loginState
    PROVE  AbstractLogin!DoSomethingElse
<1>1. \/ username' = username /\ loggedIn' = loggedIn /\ root' = root
      \/ username' = NoName /\ ~loggedIn
  BY DEF LoginFieldsOK, EndTurnOf, EndTurn, loginState
<1>2. CASE username' = username /\ loggedIn' = loggedIn /\ root' = root
  BY <1>2 DEF AbstractLogin!DoSomethingElse, SessionAuth
<1>3. CASE username' = NoName /\ ~loggedIn
  BY <1>3, AuthNext, NotLoggedInAuth DEF AbstractLogin!DoSomethingElse
<1> QED
  BY <1>1, <1>2, <1>3

\* USER drops whoever the client was, and leaves a claim or nothing.
LEMMA UserNames ==
    ASSUME LoginFieldsOK, FieldsAgree, User \/ UserSyntaxError, Alive'
    PROVE  AbstractLogin!NameItself
<1>1. CASE User
  <2>0. PICK name \in Names :
           /\ LoadDatabase
           /\ \E found \in {result # "absent" : result \in LookupResults(name)} :
                /\ cmd' = [verb |-> "USER", arg |-> name]
                /\ EndTurn("USER", IF found THEN name ELSE NoName, FALSE, "none")
    BY <1>1 DEF User, Request
  <2>1. PICK found \in {result # "absent" : result \in LookupResults(name)} :
             /\ cmd' = [verb |-> "USER", arg |-> name]
             /\ LoadDatabase
             /\ EndTurn("USER", IF found THEN name ELSE NoName, FALSE, "none")
    BY <2>0
  <2>2. db' \in {"unloaded", "loaded"} /\ AbstractLogin!MayLoad
    BY <2>1 DEF LoadDatabase, AbstractLogin!MayLoad
  <2>3. ~loggedIn' /\ (username' = name \/ username' = NoName)
    BY <2>1 DEF EndTurn
  <2>4. CASE username' = NoName
    BY <2>1, <2>2, <2>4, AuthNext DEF AbstractLogin!NameItself
  <2>5. CASE username' = name /\ name # NoName
    <3>1. SessionAuth' = [phase |-> "named", user |-> name]
      BY <2>3, <2>5, AuthNext
    <3>2. found
      BY <2>1, <2>5, Zenon DEF EndTurn
    <3>3. name \in (IF db' = "loaded" THEN Accounts \cup Incomplete ELSE Names)
      <4>1. \E result \in LookupResults(name) : result # "absent"
        BY <2>1, <3>2, Zenon
      <4> QED
        BY <2>1, <2>2, <4>1 DEF LookupResults
    <3> QED
      BY <2>1, <2>2, <3>1, <3>3 DEF AbstractLogin!NameItself
  <2> QED
    BY <2>3, <2>4, <2>5
<1>2. CASE UserSyntaxError
  <2>1. cmd'.verb = "USER" /\ UNCHANGED db /\ username' = NoName
    BY <1>2 DEF UserSyntaxError, Request, EndTurn
  <2> QED
    BY <2>1, AuthNext DEF AbstractLogin!NameItself, AbstractLogin!MayLoad
<1> QED
  BY <1>1, <1>2

\* PASS is the only way in, and a pending login is what it proves.
LEMMA PassProves ==
    ASSUME LoginFieldsOK, FieldsAgree, Alive, Pass \/ PassSyntaxError, Alive'
    PROVE  AbstractLogin!ProveItself
<1>1. waiting /\ cmd'.verb = "PASS" /\ AbstractLogin!MayLoad
  BY DEF Pass, PassSyntaxError, Request, MayRun, LoadDatabase, AbstractLogin!MayLoad
<1>2. username \in Names /\ SessionAuth = [phase |-> "named", user |-> username]
  BY <1>1, AuthOf DEF FieldsAgree, LoginFieldsOK
<1>3. CASE username' = NoName
  <2>1. SessionAuth' = [phase |-> "anonymous"]
    BY <1>3, AuthNext
  <2> QED
    BY <1>1, <1>2, <2>1 DEF AbstractLogin!ProveItself
<1>4. CASE GrantLogin(username) /\ username \in Accounts
           /\ db' = "loaded" /\ cmd'.arg = PasswordOf[username]
  <2>1. username' = username /\ loggedIn' /\ root' = username /\ username # NoName
    BY <1>1, <1>4 DEF GrantLogin, EndTurn, FieldsAgree
  <2>2. username # Garbage
    BY <1>2, SessionAssumption
  <2>3. SessionAuth' = [phase |-> "authenticated", user |-> username]
    BY <2>1, <2>2, AuthNext
  <2> QED
    BY <1>1, <1>2, <1>4, <2>3 DEF AbstractLogin!ProveItself
<1>5. CASE GrantLogin(Garbage) /\ (db' = "unloaded" \/ username \in Incomplete)
  <2>1. username' = username /\ loggedIn' /\ root' = Garbage /\ username # NoName
    BY <1>1, <1>5 DEF GrantLogin, EndTurn, FieldsAgree
  <2>2. SessionAuth' = [phase |-> "unverified", user |-> username]
    BY <2>1, AuthNext
  <2> QED
    BY <1>1, <1>2, <1>5, <2>2 DEF AbstractLogin!ProveItself
<1>6. CASE BadPassword \/ UnknownUser \/ PassSyntaxError
  <2>1. username' = NoName
    BY <1>1, <1>6 DEF BadPassword, UnknownUser, PassSyntaxError, EndTurnOf, EndTurn, FieldsAgree
  <2> QED
    BY <2>1, <1>3
<1> QED
  BY <1>4, <1>5, <1>6, PassCases DEF Crash, Alive

\* CWD needs a login and keeps it.
LEMMA CwdKeepsAuth ==
    ASSUME LoginFieldsOK, FieldsAgree, Cwd, Alive, Alive'
    PROVE  AbstractLogin!DoSomethingElse
<1>1. PICK arg, target :
           /\ cmd' = [verb |-> "CWD", arg |-> arg]
           /\ loggedIn
           /\ EndTurn("CWD", username, loggedIn, target)
           /\ UNCHANGED <<root, db>>
  BY DEF Cwd, Request, MayRun, NeedingLogin
<1>2. cmd'.verb = "CWD" /\ username' = username /\ loggedIn' = loggedIn
  BY <1>1 DEF EndTurn
<1>3. SessionAuth' = SessionAuth
  BY <1>1, <1>2 DEF SessionAuth
<1> QED
  BY <1>1, <1>2, <1>3 DEF AbstractLogin!DoSomethingElse

\* A refused PASS was preceded by no claim.
LEMMA RefusalKeepsAuth ==
    ASSUME FieldsAgree, Refusal, Alive, Alive'
    PROVE  AbstractLogin!DoSomethingElse
<1>1. PICK verb \in NeedingLogin \cup {"PASS"} :
           cmd'.verb = verb /\ ~MayRun(verb) /\ UNCHANGED <<loginState, db>>
  BY DEF Refusal, NotLoggedIn, BadSequence, Refuse
<1>2. SessionAuth' = SessionAuth
  BY <1>1 DEF SessionAuth, loginState
<1>3. verb = "PASS" => ~waiting
  BY <1>1 DEF MayRun, NeedingLogin
<1>4. verb \notin {"USER", "QUIT"}
  BY <1>1 DEF NeedingLogin
<1> QED
  BY <1>1, <1>2, <1>3, <1>4, NotWaitingAuth DEF AbstractLogin!DoSomethingElse

\* Whatever ends the process, the abstract client has left.
LEMMA Departs ==
    ASSUME TypeOK, Next, ~Alive' PROVE AbstractLogin!Leave
<1>1. db = "loaded" => db' = "loaded"
  <2> USE DEF Alive
  <2>1. CASE User \/ Pass
    BY <2>1 DEF User, Pass, LoadDatabase
  <2>2. CASE UserSyntaxError \/ PassSyntaxError \/ Quit \/ PlainReply \/ Refusal \/ Port \/ Type
    BY <2>2 DEF UserSyntaxError, PassSyntaxError, Quit, PlainReply, FixedReply, Refusal,
       NotLoggedIn, BadSequence, Refuse, Port, Type
  <2>3. CASE TypeBlank \/ Pwd \/ Cwd \/ MissingArgument \/ LsExits \/ SigchldHandler
             \/ ConnectionLost
    BY <2>3 DEF TypeBlank, Pwd, Cwd, MissingArgument, LsExits, SigchldHandler, ConnectionLost
  <2>4. CASE AtomicTransfer \/ ListForks \/ ListWait
    BY <2>4 DEF AtomicTransfer, CannotOpen, TransferKeeps, TransferCloses, Killed, ListForks,
       ListWait
  <2> QED
    BY <2>1, <2>2, <2>3, <2>4, StepShapes
<1> QED
  BY <1>1, AuthNext DEF AbstractLogin!Leave, AbstractLogin!MayLoad

\* A process that has ended takes no step of its own; its ls may.
LEMMA OnlyChildOutlives == ASSUME Next, ~Alive PROVE LsExits
<1> USE DEF Alive, Request
<1>1. ~(User \/ UserSyntaxError \/ Pass \/ PassSyntaxError \/ Quit)
  BY DEF User, UserSyntaxError, Pass, PassSyntaxError, Quit
<1>2. ~(PlainReply \/ Refusal \/ Port \/ Type)
  BY DEF PlainReply, FixedReply, Refusal, NotLoggedIn, BadSequence, Refuse, Port, Type
<1>3. ~(TypeBlank \/ Pwd \/ Cwd \/ MissingArgument)
  BY DEF TypeBlank, Pwd, Cwd, MissingArgument
<1>4. ~(AtomicTransfer \/ ListForks)
  BY DEF AtomicTransfer, CannotOpen, TransferKeeps, TransferCloses, Killed, ListForks
<1>5. ~(SigchldHandler \/ ListWait \/ ConnectionLost)
  BY DEF SigchldHandler, ListWait, ConnectionLost
<1> QED
  BY <1>1, <1>2, <1>3, <1>4, <1>5, StepShapes

LEMMA StepRefines ==
    ASSUME LoginInv, Next PROVE [AbstractLogin!LoginNext]_<<SessionAuth, db, cmd>>
<1>t. LoginFieldsOK
  BY TypeParts DEF LoginInv
<1>g. Alive => SessionAuth # [phase |-> "gone"]
  BY AuthOf
<1>1. CASE Alive'
  <2>a. Alive /\ FieldsAgree
    BY <1>1, AliveBefore DEF LoginInv, LoginConsistent, FieldsAgree
  <2>b. ListingState
    BY DEF LoginInv
  <2> DEFINE Else == AbstractLogin!DoSomethingElse
             Same == UNCHANGED <<SessionAuth, db, cmd>>
             Goal == AbstractLogin!NameItself \/ AbstractLogin!ProveItself \/ Else \/ Same
  <2> SUFFICES Goal
    BY <2>a, <1>g DEF AbstractLogin!LoginNext
  <2>o. ASSUME NEW verb, verb \notin {"USER", "PASS", "QUIT"}, cmd'.verb = verb, UNCHANGED db,
               EndTurnOf(verb) \/ UNCHANGED loginState
        PROVE  Else
    BY <2>o, <1>1, <1>t, <2>a, OtherTurn
  <2>1. CASE User \/ UserSyntaxError
    BY <2>1, <1>1, <1>t, <2>a, UserNames
  <2>2. CASE Pass \/ PassSyntaxError
    BY <2>2, <1>1, <1>t, <2>a, PassProves
  <2>3. CASE Cwd
    BY <2>3, <1>1, <1>t, <2>a, CwdKeepsAuth
  <2>4. CASE Refusal
    BY <2>4, <1>1, <2>a, RefusalKeepsAuth
  <2>5. CASE PlainReply
    BY <2>5, <2>o DEF PlainReply, FixedReply, OtherVerbs, Request
  <2>6. CASE Port \/ Type
    BY <2>6, <2>o DEF Port, Type, Request
  <2>7. CASE Pwd
    <3>1. cmd'.verb = "PWD" /\ UNCHANGED db /\ (EndTurnOf("PWD") \/ UNCHANGED loginState)
      BY <2>7 DEF Pwd, Crash, Request
    <3> QED
      BY <3>1, <2>o
  <2>8. CASE AtomicTransfer
    <3>1. PICK verb \in TransferVerbs :
               cmd'.verb = verb /\ UNCHANGED db /\ (EndTurnOf(verb) \/ UNCHANGED loginState)
      BY <2>8 DEF AtomicTransfer, CannotOpen, TransferKeeps, TransferCloses, Killed, Request
    <3>2. verb \notin {"USER", "PASS", "QUIT"}
      BY DEF TransferVerbs
    <3> QED
      BY <3>1, <3>2, <2>o
  <2>9. CASE ListForks
    <3>1. cmd'.verb = "LIST" /\ UNCHANGED db /\ UNCHANGED loginState
      BY <2>9 DEF ListForks, Request
    <3> QED
      BY <3>1, <2>o
  <2>10. CASE ListWait
    <3>1. cmd'.verb = "LIST" /\ UNCHANGED db /\ EndTurnOf("LIST")
      BY <2>10, <2>b DEF ListWait, ListingState
    <3> QED
      BY <3>1, <2>o
  <2>11. CASE LsExits \/ SigchldHandler
    <3>1. UNCHANGED <<pc, cmd, loginState, db>>
      BY <2>11 DEF LsExits, SigchldHandler
    <3> QED
      BY <3>1 DEF SessionAuth, Alive, loginState
  <2>12. ~(TypeBlank \/ MissingArgument \/ Quit \/ ConnectionLost)
    BY <1>1 DEF TypeBlank, MissingArgument, Crash, Quit, ConnectionLost, Alive
  <2> QED
    BY <2>1, <2>2, <2>3, <2>4, <2>5, <2>6, <2>7, <2>8, <2>9, <2>10, <2>11, <2>12, StepShapes,
       Zenon
<1>2. CASE ~Alive'
  <2>1. AbstractLogin!Leave
    BY <1>2, Departs DEF LoginInv
  <2>2. CASE Alive
    BY <2>1, <2>2, <1>g DEF AbstractLogin!LoginNext
  <2>3. CASE ~Alive
    <3>1. LsExits
      BY <2>3, OnlyChildOutlives
    <3>2. UNCHANGED <<pc, cmd, loginState, db>>
      BY <3>1 DEF LsExits
    <3> QED
      BY <3>2 DEF SessionAuth, Alive, loginState
  <2> QED
    BY <2>2, <2>3
<1> QED
  BY <1>1, <1>2

\* For any names, passwords and accounts, every behaviour of the session is a
\* behaviour of Login.tla: a client is taken for an account only after naming it and
\* giving its password next, or where no password of it could be looked up, whether the
\* database could not be read or its entry has none.
THEOREM SessionImplementsLogin == Spec => LoginRefinement
<1>1. Init => AbstractLogin!LoginInit
  BY AuthOf DEF Init, Alive, AbstractLogin!LoginInit
<1>2. LoginInv /\ [Next]_vars => [AbstractLogin!LoginNext]_AbstractLogin!loginVars
  <2>1. ASSUME UNCHANGED vars PROVE UNCHANGED <<SessionAuth, db, cmd>>
    BY <2>1 DEF vars, loginState, SessionAuth, Alive
  <2> QED
    BY <2>1, StepRefines DEF AbstractLogin!loginVars
<1> QED
  BY <1>1, <1>2, LoginInvHolds, PTL DEF Spec, LoginRefinement, AbstractLogin!LoginSpec
=============================================================================
