------------------------- MODULE ServerProcessProofs -------------------------
(***************************************************************************)
(* Theorems of ServerProcess, for any clients, any backlog and any number  *)
(* of restarts.                                                            *)
(***************************************************************************)
EXTENDS ServerProcess, SequenceTheorems, TLAPS

-----------------------------------------------------------------------------
(* The invariant.                                                          *)

\* The server has the connection of current between accept() and close(), and who
\* has been accepted and not forked for is current.
ParentState ==
    /\ parent \in {"fork", "close"} => current \in Clients
    /\ \A c \in Clients : session[c] = "accepted" <=> parent = "fork" /\ current = c
    /\ parent = "close" => session[current] \in {"running", "zombie", "reaped"}

\* Exactly who holds a connection, and the listening socket.
ServersShare(c) == IF parent \in {"fork", "close"} /\ current = c THEN {Server} ELSE {}
OwnShare(c) == IF session[c] = "running" THEN {c} ELSE {}

HoldersExact == \A c \in Clients : holders[c] = ServersShare(c) \cup OwnShare(c)

ListenersExact ==
    /\ Server \in listeners <=> parent # "exited"
    /\ \A c \in Clients : c \in listeners <=> session[c] = "running"

\* The queue holds clients that wait, each of them once.
QueueDistinct ==
    /\ \A i \in 1 .. Len(queue) : session[queue[i]] = "queued"
    /\ \A i, j \in 1 .. Len(queue) : i # j => queue[i] # queue[j]

ServerInv ==
    TypeOK /\ ParentState /\ HoldersExact /\ ListenersExact /\ QueueDistinct /\ OneGeneration

-----------------------------------------------------------------------------
(* Sequences of clients.                                                   *)

LEMMA QueueTypes ==
    ASSUME TypeOK
    PROVE  /\ queue \in Seq(Clients) /\ Len(queue) \in Nat
           /\ \A i \in 1 .. Len(queue) : queue[i] \in Clients
BY LenProperties, ElementOfSeq DEF TypeOK

\* The head of the queue, and what is left behind it.
LEMMA QueueHead ==
    ASSUME TypeOK, queue # <<>>
    PROVE  /\ Len(queue) >= 1 /\ Head(queue) = queue[1]
           /\ Tail(queue) \in Seq(Clients) /\ Len(Tail(queue)) = Len(queue) - 1
           /\ \A i \in 1 .. Len(Tail(queue)) : Tail(queue)[i] = queue[i + 1]
<1>1. queue \in Seq(Clients)
  BY DEF TypeOK
<1>2. /\ Tail(queue) \in Seq(Clients) /\ Len(Tail(queue)) = Len(queue) - 1
      /\ \A i \in 1 .. Len(Tail(queue)) : Tail(queue)[i] = queue[i + 1]
  BY <1>1, HeadTailProperties
<1>3. Len(queue) \in Nat \ {0}
  BY <1>1, EmptySeq
<1> QED
  BY <1>1, <1>2, <1>3

-----------------------------------------------------------------------------
(* One lemma per action.                                                   *)

LEMMA InitServer == Init => ServerInv
<1> SUFFICES ASSUME Init PROVE ServerInv
  OBVIOUS
<1>1. TypeOK
  <2>1. queue \in Seq(Clients)
    BY EmptySeq DEF Init
  <2>2. generation \in 0 .. MaxRestarts /\ bornIn \in [Clients -> 0 .. MaxRestarts]
    BY ServerAssumption DEF Init
  <2>3. sigPending \in BOOLEAN /\ faulty \in BOOLEAN
    BY DEF Init
  <2>4. /\ parent \in {"accept", "fork", "close", "exited"} /\ current \in Processes
        /\ holders \in [Clients -> SUBSET Processes] /\ listeners \in SUBSET Processes
    BY DEF Init, Processes
  <2>5. session \in [Clients -> {"new", "queued", "accepted", "running",
                                "zombie", "reaped", "refused"}]
    BY DEF Init
  <2> QED
    BY <2>1, <2>2, <2>3, <2>4, <2>5 DEF TypeOK
<1>2. ParentState
  BY DEF Init, ParentState
<1>3. HoldersExact
  BY DEF Init, HoldersExact, ServersShare, OwnShare
<1>4. ListenersExact
  BY ServerAssumption DEF Init, ListenersExact
<1>5. QueueDistinct
  <2>1. Len(queue) = 0
    BY EmptySeq DEF Init
  <2> QED
    BY <2>1 DEF QueueDistinct
<1>6. OneGeneration
  BY DEF Init, OneGeneration, Running
<1> QED
  BY <1>1, <1>2, <1>3, <1>4, <1>5, <1>6 DEF ServerInv

LEMMA ConnectServer ==
    ASSUME ServerInv, NEW c \in Clients, Connect(c)
    PROVE  ServerInv'
<1> USE DEF ServerInv
<1>1. /\ session[c] = "new" /\ session' = [session EXCEPT ![c] = "queued"]
      /\ queue' = Append(queue, c)
      /\ UNCHANGED <<parent, current, holders, listeners, sigPending, generation, bornIn, faulty>>
  BY DEF Connect
<1>2. /\ queue' \in Seq(Clients) /\ Len(queue') = Len(queue) + 1
      /\ \A i \in 1 .. Len(queue) : queue'[i] = queue[i]
      /\ queue'[Len(queue) + 1] = c
  BY <1>1, QueueTypes, AppendProperties
<1>3. TypeOK'
  BY <1>1, <1>2 DEF TypeOK
<1>4. ParentState' /\ HoldersExact'
  BY <1>1 DEF TypeOK, ParentState, HoldersExact, ServersShare, OwnShare
<1>5. ListenersExact' /\ OneGeneration'
  BY <1>1 DEF TypeOK, ListenersExact, OneGeneration, Running
<1>6. QueueDistinct'
  <2>1. \A i \in 1 .. Len(queue) : queue[i] \in Clients /\ queue[i] # c /\ session'[queue[i]] = "queued"
    BY <1>1, QueueTypes DEF QueueDistinct, TypeOK
  <2>2. session'[c] = "queued"
    BY <1>1 DEF TypeOK
  <2>3. \A i \in 1 .. Len(queue') : i \in 1 .. Len(queue) \/ i = Len(queue) + 1
    BY <1>2, QueueTypes
  <2>4. \A i \in 1 .. Len(queue') : session'[queue'[i]] = "queued"
    BY <1>2, <2>1, <2>2, <2>3
  <2>5. \A i, j \in 1 .. Len(queue') : i # j => queue'[i] # queue'[j]
    BY <1>2, <2>1, <2>3 DEF QueueDistinct
  <2> QED
    BY <2>4, <2>5 DEF QueueDistinct
<1> QED
  BY <1>3, <1>4, <1>5, <1>6

LEMMA AcceptServer ==
    ASSUME ServerInv, Accept
    PROVE  ServerInv'
<1> USE DEF ServerInv
<1>1. /\ parent = "accept" /\ parent' = "fork" /\ queue # <<>>
      /\ current' = Head(queue) /\ queue' = Tail(queue)
      /\ session' = [session EXCEPT ![current'] = "accepted"]
      /\ holders' = [holders EXCEPT ![current'] = {Server}]
      /\ UNCHANGED <<listeners, sigPending, generation, bornIn, faulty>>
  BY DEF Accept, ServerAt
<1>2. /\ Len(queue) \in Nat /\ Len(queue) >= 1 /\ current' = queue[1]
      /\ queue' \in Seq(Clients) /\ Len(queue') = Len(queue) - 1
      /\ \A i \in 1 .. Len(queue') : queue'[i] = queue[i + 1]
      /\ \A i \in 1 .. Len(queue) : queue[i] \in Clients
  BY <1>1, QueueHead, QueueTypes
<1>3. current' \in Clients /\ session[current'] = "queued"
  BY <1>2 DEF QueueDistinct
<1>4. TypeOK'
  BY <1>1, <1>2, <1>3 DEF TypeOK, Processes
<1>5. ParentState'
  BY <1>1, <1>3 DEF TypeOK, ParentState
<1>6. HoldersExact'
  BY <1>1, <1>3 DEF TypeOK, HoldersExact, ServersShare, OwnShare
<1>7. ListenersExact' /\ OneGeneration'
  BY <1>1, <1>3 DEF TypeOK, ListenersExact, OneGeneration, Running
<1>8. QueueDistinct'
  <2>1. \A i \in 1 .. Len(queue') : /\ queue'[i] = queue[i + 1] /\ queue'[i] \in Clients
                                   /\ queue'[i] # current' /\ session[queue'[i]] = "queued"
    BY <1>2 DEF QueueDistinct
  <2>2. \A i \in 1 .. Len(queue') : session'[queue'[i]] = "queued"
    BY <1>1, <2>1 DEF TypeOK
  <2>3. \A i, j \in 1 .. Len(queue') : i # j => queue'[i] # queue'[j]
    BY <1>2, <2>1 DEF QueueDistinct
  <2> QED
    BY <2>2, <2>3 DEF QueueDistinct
<1> QED
  BY <1>4, <1>5, <1>6, <1>7, <1>8

LEMMA ForkServer ==
    ASSUME ServerInv, Fork
    PROVE  ServerInv'
<1> USE DEF ServerInv
<1>1. /\ parent = "fork" /\ parent' = "close"
      /\ session' = [session EXCEPT ![current] = "running"]
      /\ bornIn' = [bornIn EXCEPT ![current] = generation]
      /\ holders' = [c \in Clients |->
                        IF Server \in holders[c] THEN holders[c] \cup {current} ELSE holders[c]]
      /\ listeners' = listeners \cup {current}
      /\ UNCHANGED <<current, queue, sigPending, generation, faulty>>
  BY DEF Fork, ServerAt
<1>2. current \in Clients /\ session[current] = "accepted"
  BY <1>1 DEF ParentState
<1>3. TypeOK'
  BY <1>1, <1>2 DEF TypeOK, Processes
<1>4. ParentState'
  BY <1>1, <1>2 DEF TypeOK, ParentState
<1>5. HoldersExact'
  <2> SUFFICES ASSUME NEW c \in Clients
               PROVE  (holders[c] = ServersShare(c) \cup OwnShare(c))'
    BY DEF HoldersExact
  <2>1. CASE c = current
    <3>1. holders[c] = {Server}
      BY <1>1, <1>2, <2>1 DEF HoldersExact, ServersShare, OwnShare
    <3>2. holders'[c] = {Server} \cup {current}
      BY <1>1, <2>1, <3>1
    <3>3. session'[c] = "running"
      BY <1>1, <2>1 DEF TypeOK
    <3> QED
      BY <1>1, <2>1, <3>2, <3>3 DEF ServersShare, OwnShare
  <2>2. CASE c # current
    <3>1. holders[c] = OwnShare(c) /\ ServersShare(c) = {}
      BY <2>2 DEF HoldersExact, ServersShare
    <3>2. Server \notin holders[c]
      BY <3>1, ServerAssumption DEF OwnShare
    <3>3. holders'[c] = holders[c] /\ session'[c] = session[c]
      BY <1>1, <2>2, <3>2 DEF TypeOK
    <3> QED
      BY <1>1, <2>2, <3>1, <3>3 DEF ServersShare, OwnShare
  <2> QED
    BY <2>1, <2>2
<1>6. ListenersExact'
  BY <1>1, <1>2, ServerAssumption DEF TypeOK, ListenersExact
<1>7. OneGeneration'
  BY <1>1, <1>2 DEF TypeOK, OneGeneration, Running
<1>8. QueueDistinct'
  BY <1>1, <1>2, QueueTypes DEF TypeOK, QueueDistinct
<1> QED
  BY <1>3, <1>4, <1>5, <1>6, <1>7, <1>8

LEMMA CloseServer ==
    ASSUME ServerInv, CloseAccepted
    PROVE  ServerInv'
<1> USE DEF ServerInv
<1>1. /\ parent = "close" /\ parent' = "accept"
      /\ holders' = [holders EXCEPT ![current] = @ \ {Server}]
      /\ UNCHANGED <<current, queue, session, listeners, sigPending, generation, bornIn, faulty>>
  BY DEF CloseAccepted, ServerAt
<1>2. current \in Clients /\ session[current] # "accepted"
  BY <1>1 DEF ParentState
<1>3. TypeOK'
  BY <1>1, <1>2 DEF TypeOK
<1>4. ParentState'
  BY <1>1, <1>2 DEF TypeOK, ParentState
<1>5. HoldersExact'
  BY <1>1, <1>2, ServerAssumption DEF TypeOK, HoldersExact, ServersShare, OwnShare
<1>6. ListenersExact' /\ OneGeneration' /\ QueueDistinct'
  BY <1>1 DEF ListenersExact, OneGeneration, Running, QueueDistinct
<1> QED
  BY <1>3, <1>4, <1>5, <1>6

\* The end of a process: what becomes of the queue and of those who wait in it.
LEMMA ReleaseQueue ==
    ASSUME TypeOK, QueueDistinct, NEW p, NEW fates, Release(p, fates),
           \A c \in Clients : session[c] = "queued" => fates[c] = "queued"
    PROVE  /\ queue' \in Seq(Clients)
           /\ QueueDistinct'
<1>1. CASE listeners' = {}
  <2>1. queue' = <<>>
    BY <1>1 DEF Release
  <2>2. queue' \in Seq(Clients) /\ Len(queue') = 0
    BY <2>1, EmptySeq
  <2> QED
    BY <2>2 DEF QueueDistinct
<1>2. CASE listeners' # {}
  <2>1. queue' = queue /\ \A c \in Clients : session'[c] = fates[c]
    BY <1>2 DEF Release
  <2> QED
    BY <2>1, QueueTypes DEF QueueDistinct
<1> QED
  BY <1>1, <1>2

LEMMA ServerExitsServer ==
    ASSUME ServerInv, ServerExits
    PROVE  ServerInv'
<1> USE DEF ServerInv
<1> DEFINE fates == [c \in Clients |->
                        IF session[c] = "accepted" THEN "refused"
                        ELSE IF session[c] = "zombie" THEN "reaped" ELSE session[c]]
<1>1. /\ parent \in {"accept", "fork"} /\ parent' = "exited" /\ faulty' = TRUE
      /\ Release(Server, fates)
      /\ UNCHANGED <<current, sigPending, generation, bornIn>>
  BY DEF ServerExits, ServerAt
<1>2. /\ holders' = [c \in Clients |-> holders[c] \ {Server}]
      /\ listeners' = listeners \ {Server}
      /\ session' = [c \in Clients |->
                        IF listeners' = {} /\ fates[c] = "queued" THEN "refused" ELSE fates[c]]
  BY <1>1 DEF Release
<1>3. queue' \in Seq(Clients) /\ QueueDistinct'
  <2>1. \A c \in Clients : session[c] = "queued" => fates[c] = "queued"
    OBVIOUS
  <2> HIDE DEF fates
  <2> QED
    BY <1>1, <2>1, ReleaseQueue
<1>4. \A c \in Clients : /\ session'[c] = "running" <=> session[c] = "running"
                        /\ session'[c] # "accepted"
  BY <1>2
<1>5. session' \in [Clients -> {"new", "queued", "accepted", "running",
                               "zombie", "reaped", "refused"}]
  BY <1>2 DEF TypeOK
<1>6. TypeOK'
  BY <1>1, <1>2, <1>3, <1>5 DEF TypeOK
<1>7. ParentState'
  BY <1>1, <1>4 DEF ParentState
<1>8. HoldersExact'
  BY <1>1, <1>2, <1>4, ServerAssumption DEF HoldersExact, ServersShare, OwnShare
<1>9. ListenersExact' /\ OneGeneration'
  BY <1>1, <1>2, <1>4, ServerAssumption DEF ListenersExact, OneGeneration
<1> QED
  BY <1>3, <1>6, <1>7, <1>8, <1>9

LEMMA SessionEndsServer ==
    ASSUME ServerInv, NEW d \in Clients, SessionEnds(d)
    PROVE  ServerInv'
<1> USE DEF ServerInv
<1> DEFINE end   == IF parent = "exited" THEN "reaped" ELSE "zombie"
           fates == [session EXCEPT ![d] = end]
<1>1. /\ session[d] = "running" /\ Release(d, fates) /\ sigPending' = (parent # "exited")
      /\ UNCHANGED <<parent, current, generation, bornIn, faulty>>
  BY DEF SessionEnds
<1>2. /\ holders' = [c \in Clients |-> holders[c] \ {d}]
      /\ listeners' = listeners \ {d}
      /\ session' = [c \in Clients |->
                        IF listeners' = {} /\ fates[c] = "queued" THEN "refused" ELSE fates[c]]
  BY <1>1 DEF Release
<1>3. queue' \in Seq(Clients) /\ QueueDistinct'
  <2>1. \A c \in Clients : session[c] = "queued" => fates[c] = "queued"
    BY <1>1 DEF TypeOK
  <2> HIDE DEF fates
  <2> QED
    BY <1>1, <2>1, ReleaseQueue
<1>4. session'[d] = end /\ end \in {"zombie", "reaped"}
  BY <1>2 DEF TypeOK
<1>5. \A c \in Clients \ {d} :
         session'[c] = session[c] \/ (session[c] = "queued" /\ session'[c] = "refused")
  BY <1>2 DEF TypeOK
<1> HIDE DEF fates, end
<1>6. session' \in [Clients -> {"new", "queued", "accepted", "running",
                               "zombie", "reaped", "refused"}]
  <2>1. \A c \in Clients : session'[c] \in {"new", "queued", "accepted", "running",
                                           "zombie", "reaped", "refused"}
    BY <1>4, <1>5 DEF TypeOK
  <2> QED
    BY <1>2, <2>1
<1>7. TypeOK'
  <2>1. sigPending' \in BOOLEAN
    BY <1>1
  <2> QED
    BY <1>1, <1>2, <1>3, <1>6, <2>1 DEF TypeOK
<1>8. ParentState'
  BY <1>1, <1>4, <1>5 DEF ParentState
<1>9. HoldersExact'
  <2> SUFFICES ASSUME NEW c \in Clients
               PROVE  (holders[c] = ServersShare(c) \cup OwnShare(c))'
    BY DEF HoldersExact
  <2>1. d # Server /\ ServersShare(c)' = ServersShare(c)
    BY <1>1, ServerAssumption DEF ServersShare
  <2>2. holders'[c] = (ServersShare(c) \cup OwnShare(c)) \ {d}
    BY <1>2 DEF HoldersExact
  <2>3. CASE c = d
    BY <1>1, <1>4, <2>1, <2>2, <2>3 DEF ServersShare, OwnShare
  <2>4. CASE c # d
    <3>1. session'[c] = "running" <=> session[c] = "running"
      BY <1>5, <2>4
    <3> QED
      BY <2>1, <2>2, <2>4, <3>1 DEF ServersShare, OwnShare
  <2> QED
    BY <2>3, <2>4
<1>10. ListenersExact'
  BY <1>1, <1>2, <1>4, <1>5, ServerAssumption DEF ListenersExact
<1>11. OneGeneration'
  BY <1>1, <1>4, <1>5 DEF OneGeneration, Running
<1> QED
  BY <1>3, <1>7, <1>8, <1>9, <1>10, <1>11

LEMMA WaitChildServer ==
    ASSUME ServerInv, WaitChild
    PROVE  ServerInv'
<1> USE DEF ServerInv
<1>1. /\ sigPending' = FALSE
      /\ UNCHANGED <<parent, current, queue, holders, listeners, generation, bornIn, faulty>>
  BY DEF WaitChild
<1>2. CASE UNCHANGED session
  BY <1>1, <1>2 DEF TypeOK, ParentState, HoldersExact, ServersShare, OwnShare, ListenersExact,
     QueueDistinct, OneGeneration, Running
<1>3. ASSUME NEW c \in Zombies, session' = [session EXCEPT ![c] = "reaped"]
      PROVE  ServerInv'
  <2>1. c \in Clients /\ session[c] = "zombie"
    BY DEF Zombies
  <2>2. TypeOK'
    BY <1>1, <1>3, <2>1 DEF TypeOK
  <2>3. ParentState'
    BY <1>1, <1>3, <2>1 DEF TypeOK, ParentState
  <2>4. HoldersExact'
    BY <1>1, <1>3, <2>1 DEF TypeOK, HoldersExact, ServersShare, OwnShare
  <2>5. ListenersExact' /\ OneGeneration'
    BY <1>1, <1>3, <2>1 DEF TypeOK, ListenersExact, OneGeneration, Running
  <2>6. QueueDistinct'
    BY <1>1, <1>3, <2>1, QueueTypes DEF TypeOK, QueueDistinct
  <2> QED
    BY <2>2, <2>3, <2>4, <2>5, <2>6
<1> QED
  BY <1>2, <1>3 DEF WaitChild

\* Nobody holds the listening socket when the server is started again, so that no
\* session of an earlier generation runs.
LEMMA RestartServer ==
    ASSUME ServerInv, Restart
    PROVE  ServerInv'
<1> USE DEF ServerInv
<1>1. /\ parent = "exited" /\ parent' = "accept" /\ generation < MaxRestarts
      /\ listeners = {} /\ listeners' = {Server} /\ current' = Server
      /\ generation' = generation + 1
      /\ UNCHANGED <<queue, session, holders, sigPending, bornIn, faulty>>
  BY DEF Restart
<1>2. Running = {}
  BY <1>1 DEF ListenersExact, Running
<1>3. TypeOK'
  BY <1>1, ServerAssumption DEF TypeOK, Processes
<1>4. ParentState' /\ HoldersExact'
  BY <1>1 DEF ParentState, HoldersExact, ServersShare, OwnShare
<1>5. ListenersExact'
  BY <1>1, <1>2, ServerAssumption DEF ListenersExact, Running
<1>6. OneGeneration' /\ QueueDistinct'
  BY <1>1, <1>2 DEF OneGeneration, Running, QueueDistinct
<1> QED
  BY <1>3, <1>4, <1>5, <1>6

LEMMA NextServer ==
    ASSUME ServerInv, [Next]_vars
    PROVE  ServerInv'
<1>1. CASE Accept
  BY <1>1, AcceptServer
<1>2. CASE Fork
  BY <1>2, ForkServer
<1>3. CASE CloseAccepted
  BY <1>3, CloseServer
<1>4. CASE ServerExits
  BY <1>4, ServerExitsServer
<1>5. CASE WaitChild
  BY <1>5, WaitChildServer
<1>6. CASE Restart
  BY <1>6, RestartServer
<1>7. ASSUME NEW c \in Clients, Connect(c) PROVE ServerInv'
  BY <1>7, ConnectServer
<1>8. ASSUME NEW c \in Clients, SessionEnds(c) PROVE ServerInv'
  BY <1>8, SessionEndsServer
<1>9. CASE UNCHANGED vars
  BY <1>9 DEF vars, ServerInv, TypeOK, ParentState, HoldersExact, ServersShare, OwnShare,
     ListenersExact, QueueDistinct, OneGeneration, Running
<1> QED
  BY <1>1, <1>2, <1>3, <1>4, <1>5, <1>6, <1>7, <1>8, <1>9 DEF Next

LEMMA AlwaysServer == Spec => []ServerInv
BY InitServer, NextServer, PTL DEF Spec

-----------------------------------------------------------------------------
(* Theorems.                                                               *)

\* The variables of the server and its sessions hold values of their kinds, for any
\* clients, backlog and number of restarts.
THEOREM TypeCorrect == Spec => []TypeOK
<1>1. ServerInv => TypeOK
  BY DEF ServerInv
<1> QED
  BY <1>1, AlwaysServer, PTL

\* However clients come, sessions end and the server exits and starts again, a
\* session's process never has another client's connection.
THEOREM NobodyElsesConnection == Spec => []OwnConnectionOnly
<1>1. ServerInv => OwnConnectionOnly
  BY DEF ServerInv, HoldersExact, ServersShare, OwnShare, OwnConnectionOnly
<1> QED
  BY <1>1, AlwaysServer, PTL

\* The connection of a session that has ended is closed on every side, at the latest
\* when the server has made the close() it is about to make.
THEOREM EndedAlwaysClosed == Spec => []EndedIsClosed
<1>1. ServerInv => EndedIsClosed
  <2> SUFFICES ASSUME ServerInv, NEW c \in Clients,
                      \/ session[c] \in {"zombie", "reaped"} /\ ~(parent = "close" /\ current = c)
                      \/ session[c] = "refused"
               PROVE  holders[c] = {}
    BY DEF EndedIsClosed
  <2>1. ~(parent \in {"fork", "close"} /\ current = c)
    BY DEF ServerInv, ParentState
  <2> QED
    BY <2>1 DEF ServerInv, HoldersExact, ServersShare, OwnShare
<1> QED
  BY <1>1, AlwaysServer, PTL

\* No server serves clients while a session of an earlier one runs.
THEOREM AlwaysOneGeneration == Spec => []OneGeneration
<1>1. ServerInv => OneGeneration
  BY DEF ServerInv
<1> QED
  BY <1>1, AlwaysServer, PTL
=============================================================================
