----------------------------- MODULE FtpSession -----------------------------
(***************************************************************************)
(* One control connection: the loop of handle_client (clientHandler.c) and *)
(* the command handlers it runs (command.c), with the data connection of   *)
(* DataConnection.tla and the `ls' child of LIST.                          *)
(*                                                                         *)
(* A step is one turn of the loop: a request is read, gated, executed, and *)
(* the login bookkeeping at the end of the turn is done.  LIST alone takes *)
(* several steps, because it forks a child and the SIGCHLD handler that    *)
(* the session inherited from launch_server races its wait().  The files   *)
(* of the user are not part of the state: what the file system answers is  *)
(* chosen by each command.                                                 *)
(***************************************************************************)
EXTENDS DataConnection, Sequences

CONSTANTS Names,          \* what a client may give to USER
          Passwords,      \* what a client may give to PASS
          Accounts,       \* the names with a whole entry in the user database
          Incomplete,     \* the names whose entry lacks a password
          PasswordOf,     \* the password of each account
          NoName,         \* a NULL cli_username, an empty cli_root_path
          Garbage,        \* what memory holds that was not written for its use
          PortArguments   \* the pairs of numbers a client may give to PORT

ASSUME SessionAssumption ==
    /\ Accounts \subseteq Names /\ Incomplete \subseteq Names \ Accounts
    /\ PasswordOf \in [Accounts -> Passwords]
    /\ NoName \notin Names /\ Garbage \notin Names /\ NoName # Garbage
    /\ "none" \notin Names \cup Passwords
    /\ PortArguments \subseteq Int \X Int

VARIABLES pc,         \* where the session's process is
          cmd,        \* the latest request, its verb and argument
          out,        \* the reply codes sent for it so far
          username,   \* cli_username
          loggedIn,   \* cli_logged_in
          root,       \* whose directory cli_root_path holds
          cwd,        \* cli_current_path, relative to cli_root_path
          waiting,    \* waitingForPassword
          db,         \* whether _root holds the parsed database
          ls          \* the child process of a LIST

loginState == <<username, loggedIn, root, cwd, waiting>>
vars == <<pc, cmd, out, loginState, db, ls, dcVars>>

Verbs == {"USER", "PASS", "QUIT", "SYST", "FEAT", "PORT", "TYPE", "PWD",
          "CWD", "DELE", "RMD", "MKD", "LIST", "RETR", "STOR", "unknown"}

NoArg == "none"

Init ==
    /\ pc = "idle"
    /\ cmd = [verb |-> "none", arg |-> NoArg]
    /\ out = <<>>
    /\ username = NoName /\ loggedIn = FALSE
    /\ root = Garbage               \* handle_client never clears cli_root_path
    /\ cwd = "none"
    /\ waiting = FALSE
    /\ db = "unloaded"
    /\ ls = "none"
    /\ DataConnectionInit

-----------------------------------------------------------------------------
(* The turn of the loop.                                                   *)

NeedingLogin == {"CWD", "LIST", "MKD", "RMD", "RETR", "STOR"}

\* Mutant of MayRun: a name alone opens the commands that need a login.
MayRunOnceNamed(verb) ==
    /\ verb \in NeedingLogin => loggedIn \/ waiting
    /\ verb = "PASS" => waiting

\* The request is read and may run: the gates of handle_client.
MayRun(verb) ==
    /\ verb \in NeedingLogin => loggedIn
    /\ verb = "PASS" => waiting

Request(verb, arg) ==
    /\ pc = "idle"
    /\ MayRun(verb)
    /\ cmd' = [verb |-> verb, arg |-> arg]

\* Mutant of EndTurn: the login that failed is not forgotten.
EndTurnNoForget(verb, name, logged, path) ==
    /\ username' = name
    /\ loggedIn' = logged
    /\ cwd' = path
    /\ waiting' = (verb = "USER" /\ name # NoName)

\* Mutant of EndTurn: the server waits for the password until it gets it.
EndTurnStillWaiting(verb, name, logged, path) ==
    /\ username' = name
    /\ loggedIn' = logged
    /\ cwd' = path
    /\ waiting' = ((waiting \/ verb = "USER") /\ ~logged /\ name # NoName)

\* The bookkeeping after the handler of `verb' has left cli_username,
\* cli_logged_in and cli_current_path at the given values: a login that was
\* waiting for its password and did not get it is forgotten, and only a USER
\* that leaves a name behind starts waiting.
EndTurn(verb, name, logged, path) ==
    LET forget == waiting /\ ~logged
        kept   == IF forget THEN NoName ELSE name
    IN  /\ username' = kept
        /\ loggedIn' = logged
        /\ cwd' = (IF forget THEN "none" ELSE path)
        /\ waiting' = (verb = "USER" /\ kept # NoName)

\* The same for a handler that does not touch the login.
EndTurnOf(verb) ==
    /\ EndTurn(verb, username, loggedIn, cwd)
    /\ UNCHANGED root

Answer(codes) == out' = codes /\ pc' = "idle"

\* A dereference of NULL: SIGSEGV takes the process away with no reply.
Crash ==
    /\ pc' = "crashed"
    /\ out' = <<>>
    /\ UNCHANGED <<loginState, ls, dcVars>>

Refuse(verb, code) ==
    /\ pc = "idle"
    /\ ~MayRun(verb)
    /\ cmd' = [verb |-> verb, arg |-> NoArg]
    /\ Answer(<<code>>)
    /\ UNCHANGED <<loginState, db, ls, dcVars>>     \* `continue'

NotLoggedIn == \E verb \in NeedingLogin : Refuse(verb, 530)
BadSequence == Refuse("PASS", 503)

\* SYST, FEAT and a line init_cmd does not recognise.
FixedReply(verb, code) ==
    /\ Request(verb, NoArg)
    /\ Answer(<<code>>)
    /\ EndTurnOf(verb)
    /\ UNCHANGED <<db, ls, dcVars>>

Syst == FixedReply("SYST", 215)
Feat == FixedReply("FEAT", 502)
Unrecognised == FixedReply("unknown", 500)

-----------------------------------------------------------------------------
(* USER and PASS.                                                          *)

\* get_root: the file is parsed by the first lookup that manages to.
LoadDatabase == db' \in (IF db = "loaded" THEN {"loaded"} ELSE {"unloaded", "loaded"})

\* What get_user_info may come to for a name, by what it leaves behind: 1 for "found",
\* 0 for "absent", and -1 for the others.  Those fail before the walker sets the
\* password ("unset"), at the memory for it, which leaves it NULL ("noPassword"), or at
\* the memory for the path behind it ("noPath").
LookupResults(name) ==
    IF db' = "unloaded" THEN {"unset"}
    ELSE IF name \in Accounts THEN {"found", "noPassword", "noPath"}
    ELSE IF name \in Incomplete THEN {"unset"}
    ELSE {"absent"}

\* Mutant of User: the login of the previous user is not dropped.
UserStaysLoggedIn ==
    \E name \in Names :
        /\ Request("USER", name)
        /\ LoadDatabase
        /\ \E found \in {result # "absent" : result \in LookupResults(name)} :
              /\ Answer(IF found THEN <<331>> ELSE <<530>>)
              /\ EndTurn("USER", IF found THEN name ELSE NoName, loggedIn, cwd)
        /\ UNCHANGED <<root, ls, dcVars>>

\* handle_client has dropped the name, the login and the current path before
\* process_user runs; any result but 0 counts as a known user.
User ==
    \E name \in Names :
        /\ Request("USER", name)
        /\ LoadDatabase
        /\ \E found \in {result # "absent" : result \in LookupResults(name)} :
              /\ Answer(IF found THEN <<331>> ELSE <<530>>)
              /\ EndTurn("USER", IF found THEN name ELSE NoName, FALSE, "none")
        /\ UNCHANGED <<root, ls, dcVars>>

\* No argument, or one that starts with a blank.
UserSyntaxError ==
    /\ Request("USER", NoArg)
    /\ Answer(<<501>>)
    /\ EndTurn("USER", NoName, FALSE, "none")
    /\ UNCHANGED <<root, db, ls, dcVars>>

GrantLogin(path) ==
    /\ Answer(<<230>>)
    /\ root' = path
    /\ EndTurn("PASS", username, TRUE, "root")
    /\ UNCHANGED <<ls, dcVars>>

BadPassword ==
    /\ Answer(<<530>>)
    /\ root' = NoName
    /\ EndTurn("PASS", NoName, loggedIn, "none")
    /\ UNCHANGED <<ls, dcVars>>

UnknownUser ==
    /\ Answer(<<530>>)
    /\ EndTurnOf("PASS")
    /\ UNCHANGED <<ls, dcVars>>

\* Any result but 0 is compared.  The password or the path of a lookup that returned -1
\* may be NULL, which faults where it is used, or a pointer nobody has set: using that
\* may fault, and the comparison may come out either way.
Pass ==
    \E word \in Passwords :
        /\ Request("PASS", word)
        /\ LoadDatabase
        /\ \E result \in LookupResults(username) :
              \/ result = "found" /\ word = PasswordOf[username] /\ GrantLogin(username)
              \/ result \in {"found", "noPath"} /\ word # PasswordOf[username] /\ BadPassword
              \/ result = "noPath" /\ word = PasswordOf[username] /\ Crash
              \/ result = "noPassword" /\ Crash
              \/ result = "absent" /\ UnknownUser
              \/ result = "unset" /\ (Crash \/ BadPassword \/ GrantLogin(Garbage))

PassSyntaxError ==
    /\ Request("PASS", NoArg)
    /\ Answer(<<501>>)
    /\ EndTurnOf("PASS")
    /\ UNCHANGED <<db, ls, dcVars>>

Quit ==
    /\ Request("QUIT", NoArg)
    /\ out' = <<221>>
    /\ pc' = "closed"
    /\ Close                                        \* close_connection
    /\ EndTurn("QUIT", NoName, loggedIn, cwd)
    /\ UNCHANGED <<root, db, ls>>

-----------------------------------------------------------------------------
(* PORT and TYPE.                                                          *)

Port ==
    \E xy \in PortArguments :
        /\ Request("PORT", xy)
        /\ SetPort(PortNumber(xy[1], xy[2]))
        /\ Answer(<<200>>)
        /\ EndTurnOf("PORT")
        /\ UNCHANGED <<db, ls>>

PortSyntaxError == FixedReply("PORT", 501)

Type ==
    \E type \in {"ascii", "binary"} :
        /\ Request("TYPE", type)
        /\ SetType(type)
        /\ Answer(<<200>>)
        /\ EndTurnOf("TYPE")
        /\ UNCHANGED <<db, ls>>

\* A missing or foreign letter; a letter followed by a second word.
TypeRefused == FixedReply("TYPE", 501) \/ FixedReply("TYPE", 504)

\* An argument made of blanks: strtok finds no word and returns NULL.
TypeBlank == Request("TYPE", "blank") /\ Crash /\ UNCHANGED db

-----------------------------------------------------------------------------
(* The current directory and the files of the user.                        *)

\* strcmp(cli_current_path, cli_root_path) = 0
AtRoot == cwd = "root" \/ (cwd = "none" /\ root = NoName)

\* What an unwritten cli_root_path holds decides whether it equals the current
\* path, and whether the slashes process_pwd looks for are there.
PwdMayAnswer == AtRoot \/ cwd = "below" \/ root = Garbage
PwdMayFault == ~AtRoot /\ (cwd = "none" \/ root = Garbage)

Pwd ==
    /\ Request("PWD", NoArg)
    /\ UNCHANGED db
    /\ \/ PwdMayAnswer /\ Answer(<<257>>) /\ EndTurnOf("PWD") /\ UNCHANGED <<ls, dcVars>>
       \/ PwdMayFault /\ Crash

\* Where process_cwd can lead, as a text: the path is the root's or one that extends
\* it, which says nothing of the directory, for a name that stat finds is appended even
\* if it holds "..".  Only ".." itself takes a part of the text away, and how many are
\* left is not part of the state.
CwdTargets(arg) ==
    CASE arg = "."    -> {cwd}
      [] arg = ".."   -> IF AtRoot THEN {} ELSE {"root", "below"}
      [] arg = "name" -> {"below"}

Cwd ==
    \E arg \in {".", "..", "name"} :
        /\ Request("CWD", arg)
        /\ \E target \in CwdTargets(arg) : EndTurn("CWD", username, loggedIn, target)
        /\ Answer(<<250>>)
        /\ UNCHANGED <<root, db, ls, dcVars>>

\* No argument, not a directory, or ".." at the root.
CwdRefused == FixedReply("CWD", 501)

\* unlink, rmdir, mkdir and the checks before them succeed or fail.
Dele == FixedReply("DELE", 250) \/ FixedReply("DELE", 550)
Rmd == FixedReply("RMD", 250) \/ FixedReply("RMD", 550)
Mkd == FixedReply("MKD", 257) \/ FixedReply("MKD", 550)

\* The three copy their argument with strcpy before they look at it.
MissingArgument ==
    \E verb \in {"DELE", "RMD", "MKD"} :
        Request(verb, "missing") /\ Crash /\ UNCHANGED db

-----------------------------------------------------------------------------
(* LIST, RETR and STOR.                                                    *)

\* The first reply, chosen by is_data_connection_opened.
About == IF IsOpened(dcSocket) THEN 125 ELSE 150

\* The path does not lead to something of the user that can be transferred.
BadPath(verb, code) == FixedReply(verb, code)

\* Mutant of CannotOpen: no return after 425, so the transfer fails as well.
CannotOpenGoesOn(verb) ==
    /\ Request(verb, "valid")
    /\ OpenFails
    /\ Answer(<<About, 425, 426>>)
    /\ EndTurnOf(verb)
    /\ UNCHANGED <<db, ls>>

CannotOpen(verb) ==
    /\ Request(verb, "valid")
    /\ OpenFails
    /\ Answer(<<About, 425>>)
    /\ EndTurnOf(verb)
    /\ UNCHANGED <<db, ls>>

\* A transfer that ended with `code', the socket being kept or closed.
TransferKeeps(verb, arg, code) ==
    /\ Request(verb, arg)
    /\ UseAndKeep
    /\ Answer(<<About, code>>)
    /\ EndTurnOf(verb)
    /\ UNCHANGED <<db, ls>>

TransferCloses(verb, arg, code) ==
    /\ Request(verb, arg)
    /\ UseAndClose
    /\ Answer(<<About, code>>)
    /\ EndTurnOf(verb)
    /\ UNCHANGED <<db, ls>>

\* SIGPIPE: writing to a socket whose peer is gone, or never was.
Killed(verb, arg) ==
    /\ Request(verb, arg)
    /\ UseAndKeep
    /\ out' = <<About>>
    /\ pc' = "lost"
    /\ UNCHANGED <<loginState, db, ls>>

\* send_ascii_file and send_binary_file: -2 if the file cannot be opened, another
\* negative value if it cannot be read (a directory) or not be sent.  An empty
\* file is sent without touching the socket.
Retr ==
    \/ BadPath("RETR", 550)
    \/ CannotOpen("RETR")
    \/ TransferKeeps("RETR", "unreadable", 552)
    \/ TransferCloses("RETR", "directory", 426)
    \/ TransferCloses("RETR", "empty", 226)
    \/ TransferCloses("RETR", "data", 426)
    \/ SocketInUse = "connected" /\ TransferCloses("RETR", "data", 226)
    \/ Killed("RETR", "data")

\* read_ascii_file and read_binary_file: -2 if the file cannot be created, another
\* negative value if the socket cannot be read or the file not be written.
Stor ==
    \/ BadPath("STOR", 550)
    \/ CannotOpen("STOR")
    \/ TransferKeeps("STOR", "uncreatable", 552)
    \/ TransferCloses("STOR", "creatable", 426)
    \/ SocketInUse = "connected" /\ TransferCloses("STOR", "creatable", 226)

\* process_list up to the fork: the child will become ls.
ListForks ==
    /\ Request("LIST", "valid")
    /\ UseAndKeep
    /\ out' = <<About>>
    /\ pc' = "listing"
    /\ ls' = "running"
    /\ UNCHANGED <<loginState, db>>

List ==
    \/ BadPath("LIST", 501)
    \/ CannotOpen("LIST")
    \/ TransferKeeps("LIST", "no process", 451)     \* fork returns -1
    \/ ListForks

\* ls always has something to write, so it cannot succeed on a socket without
\* peer.  The child also fails when dup or execlp does.
LsExits ==
    /\ ls = "running"
    /\ \/ ls' = "failed"
       \/ dcSocket = "connected" /\ ls' = "done"
    /\ UNCHANGED <<pc, cmd, out, loginState, db, dcVars>>

\* wait_child, if SIGCHLD is delivered before process_list is inside wait().
SigchldHandler ==
    /\ pc = "listing"
    /\ ls \in {"done", "failed"}
    /\ ls' = "none"
    /\ UNCHANGED <<pc, cmd, out, loginState, db, dcVars>>

\* Mutant of ListWait: waitpid with WNOHANG.
ListWaitNoHang ==
    /\ pc = "listing"
    /\ ls' = (IF ls = "running" THEN ls ELSE "none")
    /\ pc' = "idle"
    /\ \/ ls = "done" /\ Close /\ out' = Append(out, 226)
       \/ ls # "done" /\ UNCHANGED dcVars /\ out' = Append(out, 451)
    /\ EndTurnOf("LIST")
    /\ UNCHANGED <<cmd, db>>

\* Mutant of ListWait: wait() is tried again when it fails.
ListWaitInsists ==
    /\ pc = "listing"
    /\ ls \in {"done", "failed"}
    /\ ls' = "none"
    /\ pc' = "idle"
    /\ \/ ls = "done" /\ Close /\ out' = Append(out, 226)
       \/ ls # "done" /\ UNCHANGED dcVars /\ out' = Append(out, 451)
    /\ EndTurnOf("LIST")
    /\ UNCHANGED <<cmd, db>>

\* process_list after wait(): it blocks while the child runs and fails with ECHILD
\* once the handler has taken the child's status.
ListWait ==
    /\ pc = "listing"
    /\ ls # "running"
    /\ ls' = "none"
    /\ pc' = "idle"
    /\ \/ ls = "done" /\ Close /\ out' = Append(out, 226)
       \/ ls # "done" /\ UNCHANGED dcVars /\ out' = Append(out, 451)
    /\ EndTurnOf("LIST")
    /\ UNCHANGED <<cmd, db>>

-----------------------------------------------------------------------------
\* A read or write of the control socket fails and the process exits, it finds the
\* end of the stream and never leaves read_client_request, or a line without a word
\* ends it (RequestReader.tla): in each case no further request is executed.
ConnectionLost ==
    /\ pc = "idle"
    /\ pc' = "lost"
    /\ UNCHANGED <<cmd, out, loginState, db, ls, dcVars>>

LoginStep == User \/ UserSyntaxError \/ Pass \/ PassSyntaxError \/ Quit

PlainStep ==
    \/ NotLoggedIn \/ BadSequence \/ Syst \/ Feat \/ Unrecognised
    \/ Port \/ PortSyntaxError \/ Type \/ TypeRefused \/ TypeBlank
    \/ Pwd \/ Cwd \/ CwdRefused \/ Dele \/ Rmd \/ Mkd \/ MissingArgument

TransferStep == Retr \/ Stor \/ List \/ LsExits \/ SigchldHandler \/ ListWait

Next == LoginStep \/ PlainStep \/ TransferStep \/ ConnectionLost

\* A child process ends (its data peer keeps reading) and the session's process is
\* scheduled.  Nothing is assumed of the client.
Fairness == WF_vars(LsExits) /\ WF_vars(ListWait)

Spec == Init /\ [][Next]_vars

FairSpec == Spec /\ Fairness

-----------------------------------------------------------------------------
(* Properties.                                                             *)

Alive == pc \in {"idle", "listing"}
Answered == pc = "idle" /\ cmd.verb # "none"

FinalCodes == {200, 215, 221, 226, 230, 250, 257, 331, 425, 426, 451,
               500, 501, 502, 503, 504, 530, 550, 552}

\* Every variable holds a value of its kind.
TypeOK ==
    /\ pc \in {"idle", "listing", "closed", "lost", "crashed"}
    /\ cmd.verb \in Verbs \cup {"none"}
    /\ out \in Seq(FinalCodes \cup {125, 150})
    /\ username \in Names \cup {NoName}
    /\ loggedIn \in BOOLEAN
    /\ root \in Names \cup {NoName, Garbage}
    /\ cwd \in {"none", "root", "below"}
    /\ waiting \in BOOLEAN
    /\ db \in {"unloaded", "loaded"}
    /\ ls \in {"none", "running", "done", "failed"}
    /\ DataConnectionTypeOK

\* The four fields that say who the client is agree with each other between any
\* two requests, however logins are begun, abandoned, failed and begun again: a
\* pending login has a name, no name survives without a login, and a login has
\* the current path and the root of the user it names.
LoginConsistent ==
    Alive =>
        /\ waiting => username # NoName /\ ~loggedIn
        /\ username # NoName => waiting \/ loggedIn
        /\ ~loggedIn => cwd = "none"
        /\ loggedIn => /\ username # NoName
                       /\ cwd # "none"
                       /\ root = Garbage \/ (root = username /\ username \in Accounts)

\* The server waits for a password only right after the USER it answered 331, or
\* with nothing in between but commands it refused because of the login.
PasswordDirectlyFollowsUser ==
    Answered /\ waiting =>
        \/ cmd.verb = "USER" /\ out = <<331>> /\ username = cmd.arg
        \/ cmd.verb \in NeedingLogin /\ out = <<530>>

\* A command of NeedingLogin that was given any answer but 530 ran for a client
\* that was logged in and still is: no later code can meet an empty current path.
GatedCommands ==
    Alive /\ cmd.verb \in NeedingLogin /\ out # <<530>> => loggedIn /\ cwd # "none"

\* Each request is answered by one final reply, preceded by 125 or 150 exactly when
\* a transfer was attempted; in the middle of a LIST only that one has been sent.
OneFinalReply ==
    /\ Answered =>
         \/ Len(out) = 1 /\ out[1] \in FinalCodes
         \/ /\ Len(out) = 2 /\ out[1] \in {125, 150}
            /\ out[2] \in {226, 425, 426, 451, 552}
            /\ cmd.verb \in {"LIST", "RETR", "STOR"}
    /\ pc = "listing" => Len(out) = 1 /\ out[1] \in {125, 150}

\* What the last reply says of the data connection is so: after 226 or 426 it is
\* closed, after 451 or 552 it is still there, and after QUIT it is closed.
ReplyTellsConnection ==
    /\ Answered /\ Len(out) = 2 =>
         /\ out[2] \in {226, 426} => dcSocket = "closed"
         /\ out[2] \in {451, 552} => IsOpened(dcSocket)
         /\ out[2] = 425 => dcSocket # "connected"
    /\ pc = "closed" => dcSocket = "closed"

\* A transfer is reported complete only if a client was connected to receive or to
\* give it (an empty file needs nobody), and if the connection was made for it,
\* it was made to the port of the latest PORT.
TransferReachedPeer ==
    Answered /\ Len(out) = 2 /\ out[2] = 226 =>
        /\ dcPeer # NoPeer \/ (cmd.verb = "RETR" /\ cmd.arg = "empty")
        /\ out[1] = 150 => dcPeer = dcPort

\* The listing process is gone, and its status collected, before the next request:
\* no LIST ever waits for the ls of an earlier one.
ListingReaped == pc = "idle" => ls = "none"

\* What the abstract login makes of the session's fields.
SessionAuth ==
    IF ~Alive THEN [phase |-> "gone"]
    ELSE IF username = NoName THEN [phase |-> "anonymous"]
    ELSE [phase |-> IF ~loggedIn THEN "named"
                    ELSE IF root = Garbage THEN "unverified" ELSE "authenticated",
          user |-> username]

AbstractLogin == INSTANCE Login WITH auth <- SessionAuth, store <- db

\* The session implements the abstract login: USER leaves a claim, of a name that has
\* an entry once the database is in memory; PASS right after it is the only way in, with
\* the password of the account, unless the lookup failed, for want of a database or of
\* a password in the entry; and nothing else logs anybody in or out but QUIT.
LoginRefinement == AbstractLogin!LoginSpec

\* A LIST that has started its child is answered, even if the SIGCHLD handler takes
\* the child's status away from it.
ListAnswered == (pc = "listing") ~> (pc = "idle")

-----------------------------------------------------------------------------
(* What the documentation says, and the code does not do.                  *)

\* dtp.h:21-24, dc_socket is -1 when no connection is open.
NoSocketWithoutConnection == Answered => dcSocket # "unconnected"

\* clientHandler.c:69 and 91, USER (re)starts the login, and after a USER that
\* succeeded the server waits for the password.
UserRestartsLogin == Answered /\ cmd.verb = "USER" /\ out = <<331>> => waiting
=============================================================================
