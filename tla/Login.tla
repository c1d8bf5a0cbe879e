------------------------------- MODULE Login -------------------------------
(***************************************************************************)
(* What one control connection promises about authentication, without the *)
(* mechanics of handle_client: a client names an account, proves it with   *)
(* that account's password in the next login command, and from then on is *)
(* that account until it names another one or leaves.                      *)
(*                                                                         *)
(* FtpSession.tla implements this specification, and states what it assumes*)
(* of the constants.                                                       *)
(***************************************************************************)
CONSTANTS Names,       \* every name a client may give to USER
          Passwords,   \* every word a client may give to PASS
          Accounts,    \* the names that have an entry in the user database
          Incomplete,  \* the names that have one without a password
          PasswordOf   \* the password of each account

VARIABLES auth,    \* who the server takes the client for
          store,   \* whether the user database has been read yet
          cmd      \* the latest command: its verb and its argument

loginVars == <<auth, store, cmd>>

Gone             == [phase |-> "gone"]
Anonymous        == [phase |-> "anonymous"]
Named(n)         == [phase |-> "named", user |-> n]
Authenticated(n) == [phase |-> "authenticated", user |-> n]
\* Accepted although no password could be looked up: none of an account was given.
Unverified(n)    == [phase |-> "unverified", user |-> n]

LoggedIn == {Authenticated(n) : n \in Names} \cup {Unverified(n) : n \in Names}

LoginInit ==
    /\ auth = Anonymous
    /\ store = "unloaded"
    /\ cmd.verb = "none"

\* The database is read at the first lookup that can, and then stays in memory.
MayLoad == store = "loaded" => store' = "loaded"

\* USER gives up the identity the client had.  The new one is only a claim, and
\* only of a name with an entry unless the database cannot be read.
NameItself ==
    /\ cmd'.verb = "USER"
    /\ MayLoad
    /\ \/ auth' = Anonymous
       \/ /\ auth' = Named(cmd'.arg)
          /\ cmd'.arg \in (IF store' = "loaded" THEN Accounts \cup Incomplete ELSE Names)

\* PASS right after a claim.  The way in is the password of the claimed account; where
\* there is none to be looked up, the client may get in without.  A failure drops the
\* claim.
ProveItself ==
    /\ cmd'.verb = "PASS"
    /\ MayLoad
    /\ \E n \in Names :
          /\ auth = Named(n)
          /\ \/ auth' = Anonymous
             \/ /\ store' = "loaded"
                /\ n \in Accounts
                /\ cmd'.arg = PasswordOf[n]
                /\ auth' = Authenticated(n)
             \/ /\ store' = "unloaded" \/ n \in Incomplete
                /\ auth' = Unverified(n)

\* Every other command, and a PASS that follows no claim, leaves a logged-in
\* client logged in; it may make the server forget a login not yet finished.
DoSomethingElse ==
    /\ cmd'.verb \notin {"USER", "QUIT"}
    /\ cmd'.verb = "PASS" => auth \notin {Named(n) : n \in Names}
    /\ auth' = auth \/ (auth \notin LoggedIn /\ auth' = Anonymous)
    /\ UNCHANGED store

\* The client quits, or the connection or its server process breaks down, which
\* may happen during any command.
Leave ==
    /\ MayLoad
    /\ auth' = Gone

LoginNext ==
    /\ auth # Gone
    /\ NameItself \/ ProveItself \/ DoSomethingElse \/ Leave

LoginSpec == LoginInit /\ [][LoginNext]_loginVars
=============================================================================
