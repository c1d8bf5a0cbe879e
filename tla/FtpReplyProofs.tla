---------------------------- MODULE FtpReplyProofs ----------------------------
(***************************************************************************)
(* Theorems of FtpSession about its replies: how many a request is given,  *)
(* what the last one says of the data connection, whom a transfer reached, *)
(* and the child process of a LIST.                                        *)
(***************************************************************************)
EXTENDS FtpSessionProofs, SequenceTheorems

-----------------------------------------------------------------------------
(* The inductive invariant.                                                *)

\* There is a child only while its LIST waits for it: its status is collected
\* before the session goes on, and a session ends only between two requests.
ChildOnlyWhileListing == ls # "none" => pc = "listing"

\* A connected socket has a peer.
ConnectedHasPeer == dcSocket = "connected" => dcPeer # NoPeer

\* What the two replies of an answered LIST will say, as long as it waits: the socket
\* of the child is open, a child that succeeded wrote to a client, and a socket
\* opened for this LIST was connected to the port of the latest PORT.
ListingConnection ==
    pc = "listing" =>
        /\ IsOpened(dcSocket)
        /\ ls = "done" => dcSocket = "connected"
        /\ out = <<150>> => dcPeer = dcPort

ReplyInv ==
    /\ ChildOnlyWhileListing
    /\ ConnectedHasPeer
    /\ ListingConnection
    /\ OneFinalReply
    /\ ReplyTellsConnection
    /\ TransferReachedPeer

-----------------------------------------------------------------------------
(* The outcomes of a transfer, with the code that reports each.            *)

\* 226: the bytes went through a connected socket, or there were none to send.
Succeeds(verb, arg) ==
    /\ TransferCloses(verb, arg, 226)
    /\ SocketInUse = "connected" \/ (verb = "RETR" /\ arg = "empty")

TransferOutcome(verb, arg) ==
    \/ \E code \in {451, 552} : TransferKeeps(verb, arg, code)
    \/ TransferCloses(verb, arg, 426)
    \/ Succeeds(verb, arg)

LEMMA TransferOutcomes ==
    ASSUME Retr \/ Stor \/ List
    PROVE  \/ PlainReply
           \/ \E verb \in TransferVerbs :
                 \/ CannotOpen(verb)
                 \/ \E arg : TransferOutcome(verb, arg) \/ Killed(verb, arg)
           \/ ListForks
<1>1. /\ TransferVerbs \subseteq OtherVerbs
      /\ "LIST" \in TransferVerbs /\ "RETR" \in TransferVerbs /\ "STOR" \in TransferVerbs
  BY DEF TransferVerbs, OtherVerbs, Verbs
<1>2. 501 \in FinalCodes /\ 550 \in FinalCodes
  BY DEF FinalCodes
<1> DEFINE Outcomes == \E verb \in TransferVerbs :
                          \/ CannotOpen(verb)
                          \/ \E arg : TransferOutcome(verb, arg) \/ Killed(verb, arg)
<1>p. ASSUME NEW verb \in TransferVerbs, BadPath(verb, 501) \/ BadPath(verb, 550)
      PROVE  PlainReply
  BY <1>1, <1>2, <1>p DEF PlainReply, BadPath
<1>o. ASSUME NEW verb \in TransferVerbs, NEW arg,
             CannotOpen(verb) \/ TransferOutcome(verb, arg) \/ Killed(verb, arg)
      PROVE  Outcomes
  BY <1>o
<1> HIDE DEF Outcomes
<1>k. ASSUME NEW verb \in TransferVerbs, NEW arg,
             \/ TransferKeeps(verb, arg, 451) \/ TransferKeeps(verb, arg, 552)
             \/ TransferCloses(verb, arg, 426)
             \/ /\ TransferCloses(verb, arg, 226)
                /\ SocketInUse = "connected" \/ (verb = "RETR" /\ arg = "empty")
      PROVE  Outcomes
  <2>1. TransferOutcome(verb, arg)
    BY <1>k DEF TransferOutcome, Succeeds
  <2> QED
    BY <2>1, <1>o
<1>3. CASE Retr
  <2>1. PlainReply \/ Outcomes
    BY <1>1, <1>3, <1>p, <1>o, <1>k DEF Retr
  <2> QED
    BY <2>1 DEF Outcomes
<1>4. CASE Stor
  <2>1. PlainReply \/ Outcomes
    BY <1>1, <1>4, <1>p, <1>o, <1>k DEF Stor
  <2> QED
    BY <2>1 DEF Outcomes
<1>5. CASE List
  <2>1. PlainReply \/ Outcomes \/ ListForks
    <3>1. CASE BadPath("LIST", 501) \/ CannotOpen("LIST")
      BY <1>1, <3>1, <1>p, <1>o
    <3>2. CASE TransferKeeps("LIST", "no process", 451)
      BY <1>1, <3>2, <1>k
    <3> QED
      BY <1>5, <3>1, <3>2 DEF List
  <2> QED
    BY <2>1 DEF Outcomes
<1> QED
  BY <1>3, <1>4, <1>5

\* A turn that gives one reply and no child: it may move the data connection.
OneReplyTurn ==
    /\ pc = "idle" /\ pc' = "idle" /\ ls' = ls
    /\ \E code \in FinalCodes : out' = <<code>>
    /\ \/ UNCHANGED dcVars
       \/ \E port : SetPort(port)
       \/ \E type : SetType(type)

\* The process ends before its next request.
SessionEnds ==
    /\ pc = "idle" /\ pc' \in {"closed", "lost", "crashed"} /\ ls' = ls
    /\ UNCHANGED dcVars \/ Close \/ UseAndKeep
    /\ pc' = "closed" => Close

\* All a step of the session can be, as far as replies and connection go.
LEMMA TurnShapes ==
    ASSUME Next
    PROVE  \/ OneReplyTurn
           \/ SessionEnds
           \/ \E verb \in TransferVerbs :
                 CannotOpen(verb) \/ \E arg : TransferOutcome(verb, arg)
           \/ ListForks \/ LsExits \/ SigchldHandler \/ ListWait
<1>c. {200, 230, 250, 257, 331, 501, 503, 530} \subseteq FinalCodes
  BY DEF FinalCodes
<1> USE DEF Request, Answer
<1>1. CASE User
  <2>1. pc = "idle" /\ pc' = "idle" /\ UNCHANGED ls /\ UNCHANGED dcVars
    BY <1>1 DEF User
  <2>2. out' = <<331>> \/ out' = <<530>>
    BY <1>1 DEF User
  <2> QED
    BY <1>c, <2>1, <2>2 DEF OneReplyTurn
<1>2. CASE UserSyntaxError \/ PassSyntaxError
  <2>1. /\ pc = "idle" /\ pc' = "idle" /\ out' = <<501>>
        /\ UNCHANGED ls /\ UNCHANGED dcVars
    BY <1>2 DEF UserSyntaxError, PassSyntaxError
  <2> QED
    BY <1>c, <2>1 DEF OneReplyTurn
<1>3. CASE Pass
  <2>1. pc = "idle" /\ (Crash \/ BadPassword \/ UnknownUser \/ \E path : GrantLogin(path))
    BY <1>3 DEF Pass
  <2>2. UNCHANGED ls /\ UNCHANGED dcVars
    BY <2>1 DEF Crash, BadPassword, UnknownUser, GrantLogin
  <2>3. CASE Crash
    BY <2>1, <2>2, <2>3 DEF Crash, SessionEnds
  <2>4. CASE BadPassword \/ UnknownUser \/ \E path : GrantLogin(path)
    <3>1. pc' = "idle" /\ (out' = <<530>> \/ out' = <<230>>)
      BY <2>4 DEF BadPassword, UnknownUser, GrantLogin
    <3> QED
      BY <1>c, <2>1, <2>2, <3>1 DEF OneReplyTurn
  <2> QED
    BY <2>1, <2>3, <2>4
<1>4. CASE Quit \/ ConnectionLost
  BY <1>4 DEF Quit, ConnectionLost, SessionEnds, Close
<1>5. CASE Retr \/ Stor \/ List
  <2>1. CASE PlainReply
    BY <2>1 DEF PlainReply, FixedReply, OneReplyTurn
  <2>2. ASSUME NEW verb, NEW arg, Killed(verb, arg) PROVE SessionEnds
    BY <2>2 DEF Killed, SessionEnds
  <2> QED
    BY <1>5, <2>1, <2>2, TransferOutcomes
<1>6. CASE Syst \/ Feat \/ Unrecognised \/ PortSyntaxError \/ TypeRefused \/ CwdRefused
           \/ Dele \/ Rmd \/ Mkd
  BY <1>6, PlainShapes DEF PlainReply, FixedReply, OneReplyTurn
<1>7. CASE NotLoggedIn \/ BadSequence
  BY <1>7, <1>c DEF NotLoggedIn, BadSequence, Refuse, OneReplyTurn
<1>8. CASE Port \/ Type
  BY <1>8, <1>c DEF Port, Type, OneReplyTurn
<1>9. CASE TypeBlank \/ MissingArgument
  BY <1>9 DEF TypeBlank, MissingArgument, Crash, SessionEnds
<1>10. CASE Pwd
  <2>1. pc = "idle" /\ UNCHANGED ls /\ UNCHANGED dcVars /\ (Crash \/ Answer(<<257>>))
    BY <1>10 DEF Pwd, Crash
  <2> QED
    BY <1>c, <2>1 DEF Crash, SessionEnds, OneReplyTurn
<1>11. CASE Cwd
  BY <1>11, <1>c DEF Cwd, OneReplyTurn
<1> QED
  BY <1>1, <1>2, <1>3, <1>4, <1>5, <1>6, <1>7, <1>8, <1>9, <1>10, <1>11, Zenon
     DEF Next, LoginStep, PlainStep, TransferStep

-----------------------------------------------------------------------------
(* Each of them keeps the invariant.                                       *)

\* A socket opened for the transfer has the port of the latest PORT behind it, and
\* a connected one always has a peer.
LEMMA SocketInUsePeer ==
    ASSUME DataConnectionTypeOK, ConnectedHasPeer
    PROVE  /\ About = 150 => PeerInUse = dcPort
           /\ SocketInUse = "connected" => PeerInUse # NoPeer
           /\ IsOpened(SocketInUse)
<1>1. dcPort # NoPeer
  BY DEF DataConnectionTypeOK, Ports, NoPeer
<1> QED
  BY <1>1 DEF About, PeerInUse, SocketInUse, IsOpened, ConnectedHasPeer

LEMMA OneReplyKeeps ==
    ASSUME ReplyInv, OneReplyTurn PROVE ReplyInv'
<1>1. ls = "none" /\ ls' = "none" /\ pc' = "idle"
  BY DEF ReplyInv, ChildOnlyWhileListing, OneReplyTurn
<1>2. ConnectedHasPeer'
  BY DEF ReplyInv, ConnectedHasPeer, OneReplyTurn, dcVars, SetPort, SetType
<1>3. PICK code \in FinalCodes : out' = <<code>>
  BY DEF OneReplyTurn
<1>4. Len(out') = 1 /\ out'[1] \in FinalCodes
  BY <1>3
<1> QED
  BY <1>1, <1>2, <1>4
     DEF ReplyInv, ChildOnlyWhileListing, ListingConnection, OneFinalReply,
         ReplyTellsConnection, TransferReachedPeer, Answered

LEMMA EndKeeps ==
    ASSUME DataConnectionTypeOK, ReplyInv, SessionEnds PROVE ReplyInv'
<1>1. ls' = "none"
  BY DEF ReplyInv, ChildOnlyWhileListing, SessionEnds
<1>2. ConnectedHasPeer'
  BY SocketInUsePeer
     DEF ReplyInv, ConnectedHasPeer, SessionEnds, dcVars, Close, UseAndKeep
<1>3. pc' \in {"closed", "lost", "crashed"} /\ (pc' = "closed" => dcSocket' = "closed")
  BY DEF SessionEnds, Close
<1> QED
  BY <1>1, <1>2, <1>3
     DEF ReplyInv, ChildOnlyWhileListing, ListingConnection, OneFinalReply,
         ReplyTellsConnection, TransferReachedPeer, Answered

\* 425 leaves no connection, whatever was left of the socket.
LEMMA CannotOpenKeeps ==
    ASSUME ReplyInv, NEW verb \in TransferVerbs, CannotOpen(verb) PROVE ReplyInv'
<1>1. pc' = "idle" /\ out' = <<About, 425>> /\ cmd'.verb = verb /\ ls' = "none"
  BY DEF ReplyInv, ChildOnlyWhileListing, CannotOpen, Answer, Request
<1>2. dcSocket' # "connected"
  BY DEF CannotOpen, OpenFails, FailedOpens
<1>3. Len(out') = 2 /\ out'[1] = About /\ out'[2] = 425 /\ About \in {125, 150}
  BY <1>1 DEF About
<1> QED
  BY <1>1, <1>2, <1>3
     DEF ReplyInv, ConnectedHasPeer, ChildOnlyWhileListing, ListingConnection, OneFinalReply,
         ReplyTellsConnection, TransferReachedPeer, Answered, TransferVerbs

\* The codes of a finished transfer agree with what it did to the socket.
LEMMA OutcomeKeeps ==
    ASSUME DataConnectionTypeOK, ReplyInv, NEW verb \in TransferVerbs, NEW arg,
           TransferOutcome(verb, arg)
    PROVE  ReplyInv'
<1>1. PICK code \in {226, 426, 451, 552} :
           /\ pc = "idle"
           /\ cmd' = [verb |-> verb, arg |-> arg]
           /\ Answer(<<About, code>>)
           /\ UNCHANGED ls
           /\ dcPeer' = PeerInUse /\ dcPort' = dcPort
           /\ code \in {451, 552} => dcSocket' = SocketInUse
           /\ code \in {226, 426} => dcSocket' = "closed"
           /\ code = 226 => SocketInUse = "connected" \/ (verb = "RETR" /\ arg = "empty")
  BY DEF TransferOutcome, Succeeds, TransferKeeps, TransferCloses, Request, UseAndKeep,
     UseAndClose
<1>2. /\ pc' = "idle" /\ ls' = "none"
      /\ Len(out') = 2 /\ out'[1] = About /\ out'[2] = code /\ About \in {125, 150}
      /\ cmd'.verb = verb /\ cmd'.arg = arg
  BY <1>1 DEF ReplyInv, ChildOnlyWhileListing, Answer, About
<1>3. /\ About = 150 => PeerInUse = dcPort
      /\ SocketInUse = "connected" => PeerInUse # NoPeer
      /\ IsOpened(SocketInUse)
  BY SocketInUsePeer DEF ReplyInv
<1>4. ConnectedHasPeer'
  BY <1>1, <1>3 DEF ConnectedHasPeer
<1>5. OneFinalReply'
  BY <1>1, <1>2 DEF OneFinalReply, TransferVerbs
<1>6. ReplyTellsConnection'
  BY <1>1, <1>2, <1>3 DEF ReplyTellsConnection, IsOpened
<1>7. TransferReachedPeer'
  BY <1>1, <1>2, <1>3 DEF TransferReachedPeer
<1> QED
  BY <1>2, <1>4, <1>5, <1>6, <1>7 DEF ReplyInv, ChildOnlyWhileListing, ListingConnection

\* The LIST and its child.
LEMMA ListingKeeps ==
    ASSUME DataConnectionTypeOK, ListingState, ReplyInv,
           ListForks \/ LsExits \/ SigchldHandler \/ ListWait
    PROVE  ReplyInv'
<1> USE DEF ReplyInv
<1>1. CASE ListForks
  <2>1. /\ pc' = "listing" /\ out' = <<About>> /\ ls' = "running"
        /\ dcSocket' = SocketInUse /\ dcPeer' = PeerInUse /\ dcPort' = dcPort
    BY <1>1 DEF ListForks, UseAndKeep
  <2>2. Len(out') = 1 /\ out'[1] = About /\ About \in {125, 150}
    BY <2>1 DEF About
  <2>3. out' = <<150>> => About = 150
    BY <2>2
  <2> QED
    BY <2>1, <2>2, <2>3, SocketInUsePeer
       DEF ChildOnlyWhileListing, ConnectedHasPeer, ListingConnection, OneFinalReply,
           ReplyTellsConnection, TransferReachedPeer, Answered, IsOpened
<1>2. CASE LsExits \/ SigchldHandler
  <2>1. /\ pc = "listing" /\ UNCHANGED <<pc, cmd, out, dcVars>>
        /\ ls' = "done" => dcSocket = "connected"
    BY <1>2 DEF LsExits, SigchldHandler, ChildOnlyWhileListing
  <2> QED
    BY <2>1
       DEF ChildOnlyWhileListing, ConnectedHasPeer, ListingConnection, OneFinalReply,
           ReplyTellsConnection, TransferReachedPeer, Answered, IsOpened, dcVars
<1>3. CASE ListWait
  <2>1. /\ pc = "listing" /\ pc' = "idle" /\ ls' = "none" /\ cmd' = cmd
        /\ cmd.verb = "LIST" /\ out \in {<<125>>, <<150>>}
    BY <1>3 DEF ListWait, ListingState
  <2>2. PICK code \in {226, 451} :
             /\ out' = Append(out, code)
             /\ code = 226 => ls = "done" /\ Close
             /\ code = 451 => UNCHANGED dcVars
    BY <1>3 DEF ListWait
  <2>3. Len(out') = 2 /\ out'[1] = out[1] /\ out'[2] = code /\ out[1] \in {125, 150}
    <3>1. PICK about \in {125, 150} : out = <<about>>
      BY <2>1
    <3>2. <<about>> \in Seq(Int) /\ Len(<<about>>) = 1 /\ <<about>>[1] = about /\ code \in Int
      OBVIOUS
    <3>3. /\ Len(Append(<<about>>, code)) = 2
          /\ Append(<<about>>, code)[1] = about /\ Append(<<about>>, code)[2] = code
      BY <3>2, AppendProperties
    <3> QED
      BY <2>2, <3>1, <3>2, <3>3
  <2>4. out[1] = 150 => out = <<150>>
    BY <2>1
  <2>5. OneFinalReply'
    BY <2>1, <2>2, <2>3 DEF OneFinalReply
  <2>6. ReplyTellsConnection' /\ ConnectedHasPeer'
    BY <2>1, <2>2, <2>3
       DEF ReplyTellsConnection, ListingConnection, ConnectedHasPeer, Close, dcVars, IsOpened
  <2>7. TransferReachedPeer'
    BY <2>1, <2>2, <2>3, <2>4
       DEF TransferReachedPeer, ListingConnection, ConnectedHasPeer, Close
  <2> QED
    BY <2>1, <2>5, <2>6, <2>7 DEF ChildOnlyWhileListing, ListingConnection
<1> QED
  BY <1>1, <1>2, <1>3

-----------------------------------------------------------------------------
(* The theorems.                                                           *)

LEMMA ReplyInvStep == LoginInv /\ ReplyInv /\ [Next]_vars => ReplyInv'
<1>1. ASSUME LoginInv, ReplyInv, Next PROVE ReplyInv'
  <2>1. DataConnectionTypeOK /\ ListingState
    BY <1>1, TypeParts DEF LoginInv
  <2> QED
    BY <1>1, <2>1, TurnShapes, OneReplyKeeps, EndKeeps, CannotOpenKeeps, OutcomeKeeps,
       ListingKeeps
<1>2. ASSUME ReplyInv, UNCHANGED vars PROVE ReplyInv'
  BY <1>2
     DEF vars, dcVars, ReplyInv, ChildOnlyWhileListing, ConnectedHasPeer, ListingConnection,
         OneFinalReply, ReplyTellsConnection, TransferReachedPeer, Answered, IsOpened
<1> QED
  BY <1>1, <1>2

LEMMA ReplyInvHolds == Spec => []ReplyInv
<1>1. Init => ReplyInv
  BY DEF Init, DataConnectionInit, ReplyInv, ChildOnlyWhileListing, ConnectedHasPeer,
     ListingConnection, OneFinalReply, ReplyTellsConnection, TransferReachedPeer, Answered
<1> QED
  BY <1>1, ReplyInvStep, LoginInvHolds, PTL DEF Spec

\* No LIST ever waits for the ls of an earlier one: whichever of wait() and the
\* SIGCHLD handler collects the status, the child is gone before the next request.
THEOREM ListingAlwaysReaped == Spec => []ListingReaped
<1>1. ReplyInv => ListingReaped
  BY DEF ReplyInv, ChildOnlyWhileListing, ListingReaped
<1> QED
  BY <1>1, ReplyInvHolds, PTL

\* Each request is given one final reply, after 125 or 150 exactly when process_list,
\* process_retr or process_stor attempted a transfer.
THEOREM AlwaysOneFinalReply == Spec => []OneFinalReply
<1>1. ReplyInv => OneFinalReply
  BY DEF ReplyInv
<1> QED
  BY <1>1, ReplyInvHolds, PTL

\* The code that ends a transfer says what became of dc_socket.
THEOREM ReplyAlwaysTellsConnection == Spec => []ReplyTellsConnection
<1>1. ReplyInv => ReplyTellsConnection
  BY DEF ReplyInv
<1> QED
  BY <1>1, ReplyInvHolds, PTL

\* No 226 without a client behind the socket, and a socket opened for the transfer
\* leads to the port of the latest PORT.
THEOREM TransferAlwaysReachedPeer == Spec => []TransferReachedPeer
<1>1. ReplyInv => TransferReachedPeer
  BY DEF ReplyInv
<1> QED
  BY <1>1, ReplyInvHolds, PTL
=============================================================================
