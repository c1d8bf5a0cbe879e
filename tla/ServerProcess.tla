---------------------------- MODULE ServerProcess ----------------------------
(***************************************************************************)
(* launch_server and wait_child (servFTP.c): the listening process, the    *)
(* process it forks for each client, the descriptors they share and the    *)
(* collection of ended sessions by the SIGCHLD handler.                    *)
(*                                                                         *)
(* What a session does is FtpSession.tla; here it runs until it ends.  The *)
(* server may exit on an error and be started again by its operator.       *)
(***************************************************************************)
EXTENDS Integers, Sequences, FiniteSets

CONSTANTS Clients,        \* each of them connects once
          Server,         \* the listening process, as a holder of descriptors
          Backlog,        \* the argument of listen()
          MaxRestarts     \* bound on the number of times the server is started again

ASSUME ServerAssumption ==
    /\ Server \notin Clients
    /\ IsFiniteSet(Clients)
    /\ Backlog \in Nat /\ MaxRestarts \in Nat

VARIABLES parent,       \* the step of launch_server's loop: "accept", "fork", "close"; "exited"
          current,      \* the client whose socket is clientfd
          queue,        \* connections the kernel has completed and accept() not returned
          session,      \* the state of each client and of the process serving it
          holders,      \* the processes that have a descriptor of each connection
          listeners,    \* the processes that have a descriptor of the listening socket
          sigPending,   \* SIGCHLD is pending for the server: at most one is
          generation,   \* how often the server has been started again
          bornIn,       \* the generation of each session's process
          faulty        \* an accept() or a fork() has failed

vars == <<parent, current, queue, session, holders, listeners, sigPending, generation, bornIn, faulty>>

Processes == Clients \cup {Server}
Running == {c \in Clients : session[c] = "running"}
Zombies == {c \in Clients : session[c] = "zombie"}

Init ==
    /\ parent = "accept"
    /\ current = Server                       \* none yet
    /\ queue = <<>>
    /\ session = [c \in Clients |-> "new"]
    /\ holders = [c \in Clients |-> {}]
    /\ listeners = {Server}
    /\ sigPending = FALSE
    /\ generation = 0
    /\ bornIn = [c \in Clients |-> 0]
    /\ faulty = FALSE

\* The kernel completes a connection as long as anybody holds the listening socket.
Connect(c) ==
    /\ session[c] = "new"
    /\ listeners # {}
    /\ Len(queue) < Backlog
    /\ session' = [session EXCEPT ![c] = "queued"]
    /\ queue' = Append(queue, c)
    /\ UNCHANGED <<parent, current, holders, listeners, sigPending, generation, bornIn, faulty>>

\* A pending SIGCHLD is delivered before the server executes anything else.
ServerAt(step) == parent = step /\ ~sigPending

Accept ==
    /\ ServerAt("accept")
    /\ queue # <<>>
    /\ current' = Head(queue)
    /\ queue' = Tail(queue)
    /\ session' = [session EXCEPT ![current'] = "accepted"]
    /\ holders' = [holders EXCEPT ![current'] = {Server}]
    /\ parent' = "fork"
    /\ UNCHANGED <<listeners, sigPending, generation, bornIn, faulty>>

\* Mutant of Fork: the cases of the switch are swapped, the server serves the client.
ForkSwapped ==
    /\ ServerAt("fork")
    /\ parent' = "handle_client"
    /\ UNCHANGED <<current, queue, session, holders, listeners, sigPending,
                   generation, bornIn, faulty>>

\* Mutant of Fork: the child closes listenfd.
ForkClosesListener ==
    /\ ServerAt("fork")
    /\ session' = [session EXCEPT ![current] = "running"]
    /\ bornIn' = [bornIn EXCEPT ![current] = generation]
    /\ holders' = [c \in Clients |->
                      IF Server \in holders[c] THEN holders[c] \cup {current} ELSE holders[c]]
    /\ parent' = "close"
    /\ UNCHANGED <<current, queue, listeners, sigPending, generation, faulty>>

\* The child gets a copy of every descriptor of the server and goes to
\* handle_client; it closes clientfd when that returns and listenfd never.
Fork ==
    /\ ServerAt("fork")
    /\ session' = [session EXCEPT ![current] = "running"]
    /\ bornIn' = [bornIn EXCEPT ![current] = generation]
    /\ holders' = [c \in Clients |->
                      IF Server \in holders[c] THEN holders[c] \cup {current} ELSE holders[c]]
    /\ listeners' = listeners \cup {current}
    /\ parent' = "close"
    /\ UNCHANGED <<current, queue, sigPending, generation, faulty>>

\* Mutant of CloseAccepted: the server does not close clientfd.
CloseAcceptedForgets ==
    /\ ServerAt("close")
    /\ parent' = "accept"
    /\ UNCHANGED <<current, queue, session, holders, listeners, sigPending,
                   generation, bornIn, faulty>>

CloseAccepted ==
    /\ ServerAt("close")
    /\ holders' = [holders EXCEPT ![current] = @ \ {Server}]
    /\ parent' = "accept"
    /\ UNCHANGED <<current, queue, session, listeners, sigPending, generation, bornIn, faulty>>

\* The end of a process closes its descriptors.  The kernel resets the connections
\* that wait on a listening socket nobody holds any more.
Release(p, fates) ==
    /\ holders' = [c \in Clients |-> holders[c] \ {p}]
    /\ listeners' = listeners \ {p}
    /\ queue' = (IF listeners' = {} THEN <<>> ELSE queue)
    /\ session' = [c \in Clients |->
                      IF listeners' = {} /\ fates[c] = "queued" THEN "refused" ELSE fates[c]]

\* accept() or fork() returns -1: launch_server returns, main exits.  A client that
\* was accepted and not forked for loses its connection, and init takes over the
\* children, ended ones included.
ServerExits ==
    /\ ServerAt("accept") \/ ServerAt("fork")
    /\ parent' = "exited"
    /\ faulty' = TRUE
    /\ Release(Server, [c \in Clients |->
                           IF session[c] = "accepted" THEN "refused"
                           ELSE IF session[c] = "zombie" THEN "reaped" ELSE session[c]])
    /\ UNCHANGED <<current, sigPending, generation, bornIn>>

\* The process of a session exits, by whatever way: QUIT, an error, a signal.
SessionEnds(c) ==
    /\ session[c] = "running"
    /\ Release(c, [session EXCEPT ![c] = IF parent = "exited" THEN "reaped" ELSE "zombie"])
    /\ sigPending' = (parent # "exited")
    /\ UNCHANGED <<parent, current, generation, bornIn, faulty>>

\* Mutant of WaitChild: without SA_RESTART accept() fails with EINTR.
WaitChildInterrupts ==
    /\ parent # "exited"
    /\ sigPending
    /\ sigPending' = FALSE
    /\ IF Zombies = {} THEN UNCHANGED session
       ELSE \E c \in Zombies : session' = [session EXCEPT ![c] = "reaped"]
    /\ parent' = (IF parent = "accept" THEN "exited" ELSE parent)
    /\ UNCHANGED <<current, queue, holders, listeners, generation, bornIn, faulty>>

\* wait_child: one waitpid per delivery.  SA_RESTART makes accept() go on.
WaitChild ==
    /\ parent # "exited"
    /\ sigPending
    /\ sigPending' = FALSE
    /\ IF Zombies = {} THEN UNCHANGED session
       ELSE \E c \in Zombies : session' = [session EXCEPT ![c] = "reaped"]
    /\ UNCHANGED <<parent, current, queue, holders, listeners, generation, bornIn, faulty>>

\* The operator starts the server again.  bind() fails, and the new process exits at
\* once, while another process holds a socket listening on the port: SO_REUSEADDR
\* does not cover that.
Restart ==
    /\ parent = "exited"
    /\ generation < MaxRestarts
    /\ listeners = {}
    /\ parent' = "accept"
    /\ current' = Server
    /\ listeners' = {Server}
    /\ generation' = generation + 1
    /\ UNCHANGED <<queue, session, holders, sigPending, bornIn, faulty>>

Next ==
    \/ Accept \/ Fork \/ CloseAccepted \/ ServerExits \/ WaitChild \/ Restart
    \/ \E c \in Clients : Connect(c) \/ SessionEnds(c)

Spec == Init /\ [][Next]_vars

\* The server's process is scheduled, and signals are delivered.  Nothing makes a
\* session end, a client come or an operator act.
FairSpec ==
    /\ Spec
    /\ WF_vars(Accept) /\ WF_vars(Fork) /\ WF_vars(CloseAccepted) /\ WF_vars(WaitChild)

-----------------------------------------------------------------------------
(* Properties.                                                             *)

\* Every variable holds a value of its kind.
TypeOK ==
    /\ parent \in {"accept", "fork", "close", "exited"}
    /\ current \in Processes
    /\ queue \in Seq(Clients)
    /\ session \in [Clients -> {"new", "queued", "accepted", "running",
                                "zombie", "reaped", "refused"}]
    /\ holders \in [Clients -> SUBSET Processes]
    /\ listeners \in SUBSET Processes
    /\ sigPending \in BOOLEAN
    /\ generation \in 0 .. MaxRestarts
    /\ bornIn \in [Clients -> 0 .. MaxRestarts]
    /\ faulty \in BOOLEAN

\* No session's process ever has a descriptor of another client's connection, though
\* each inherits everything the server has open when it forks.
OwnConnectionOnly == \A c \in Clients : holders[c] \subseteq {c, Server}

\* The client of a session that has ended, or whose server went away before it had
\* one, sees its connection closed: nobody holds it but the server on its way to
\* close it.
EndedIsClosed ==
    \A c \in Clients :
        /\ session[c] \in {"zombie", "reaped"} /\ ~(parent = "close" /\ current = c) =>
              holders[c] = {}
        /\ session[c] = "refused" => holders[c] = {}

\* A server started again serves no one as long as sessions of an earlier one live:
\* they hold the listening socket they inherited.
OneGeneration == parent # "exited" => \A c \in Running : bornIn[c] = generation

\* As long as no accept() and no fork() fails, a connection in the queue is given a
\* session: whatever the other clients do, however long their sessions last, and
\* whatever the server is doing when a session ends and it is sent SIGCHLD.
QueuedIsServed ==
    \A c \in Clients :
        (session[c] = "queued") ~> (session[c] \in {"running", "zombie", "reaped"} \/ faulty)

\* README.md:98, zombie processes are dealt with.
ZombiesAreReaped == \A c \in Clients : (session[c] = "zombie") ~> (session[c] = "reaped")
=============================================================================
