# A verification of servFTP

servFTP is an FTP server in C: one listening process, one forked process per
client, a user database in XML, active data connections only. This directory
holds TLA+ models of it, the TLC configurations that check them on small
instances, and proofs that TLAPS checks for every value of the constants.

Paths such as `src/command.c` below are relative to the repository's sources;
the property names are definitions of the modules.

## 1. Inventory

| component | code | state | operations |
|---|---|---|---|
| listening server | `src/servFTP.c` | listening socket, accepted socket, SIGCHLD | `launch_server`, `wait_child`, `init_sigaction` |
| control session | `src/clientHandler.c`, `include/clientHandler.h` | `struct s_client`, `waitingForPassword` | `handle_client` |
| request reader | `src/clientHandler.c:236-295`, `src/command.c:60-98` | socket buffer, `*request`, `nb_written_char`, `remaining_space` | `read_client_request`, the cutting in `init_cmd` |
| request dispatch | `src/command.c:99-500` | none | `init_cmd`, `needing_login_cmd`, `exec_cmd` |
| command handlers | `src/command.c:500-1391` | the session's | `process_user` ... `process_feat` |
| data connection | `src/dtp.c:1-125`, `include/dtp.h` | `struct s_data_connection` | `open_data_connection`, `close_data_connection`, `set_port`, ... |
| transfers | `src/dtp.c:127-412` | local buffers | `send_ascii_file`, `read_ascii_file`, `send_binary_file`, `read_binary_file` |
| paths | `src/clientHandler.c:100-235` | `cli_root_path`, `cli_current_path` | `is_valid_path` and the path handling of CWD, PWD, LIST |
| user database | `src/database.c` | `_root`, the parsed document | `get_root`, `get_user_info` and its walker |
| replies | `src/communication.c` | none | `write_socket` |
| tests, build, documentation | `test/`, `Makefile`, `etc/doxygen.ini` | none | none of the server's behaviour |

How they interact. `launch_server` accepts a connection, forks, and the child
runs `handle_client`; parent and children share descriptors and the SIGCHLD
disposition, nothing else. `handle_client` calls `read_client_request`,
`init_cmd`, tests two gates (login, password expected), calls the command's
handler and then keeps the login's books. A handler writes its replies itself,
may use the data connection, and LIST forks a second child that becomes `ls`.
`get_user_info` is called by USER and PASS only.

What is hard about it:

* SIGCHLD is handled in the sessions too, for they inherit the handler: it
  races the `wait()` of LIST (`src/command.c:803`).
* SIGCHLD is not queued and the handler collects one child (`src/servFTP.c:45`).
* A fork copies every descriptor the parent has open; closing the right ones in
  the right process decides who sees an end of file, and whether the server can
  be started again.
* The books of the login are kept in three places of `handle_client` and in two
  handlers, over five fields that different code reads separately.
* A transfer has several ways to fail after its first reply has gone out, and
  the socket is closed after some and kept after others.
* The request loop looks at one chunk of the stream at a time; what TCP delivers
  has no relation to lines.
* Buffers are reused without being cleared, in the reader and in the transfers.
* Nothing locks the files of an account. Every handler looks a name up and acts
  on it in another call, and keeps the path of its current directory as text,
  while other sessions of the account change the tree.
* The database is parsed by each session at its first lookup, and its file is
  the operator's to replace.

What makes each part correct:

* server: no session holds another's connection, an ended session's client sees
  its connection closed, everyone in the queue is served, sessions are reaped.
* session: login fields agree; commands that need a login run only in one; the
  only way in is the account's password, as long as the lookup works; each request
  has one final reply.
* data connection: what a reply says of it is so; a transfer reported complete
  reached a peer.
* reader: the request fits in its memory however the stream is cut; answers keep
  the order of lines; a client that waits gets its own answer.
* transfers: what arrives is the file, up to line ends, wherever they fall in
  the chunks and as long as the disk takes what is written; the converted lines fit in their memory; a transfer ends.
* files: a success reports what was done, to the path that was checked, and a
  refusal changed nothing, whatever the other sessions do between check and call; a
  file is what one session sent, unless others wrote to it.
* database: the walker finds the password of the name it was given and nobody
  else's, and a session has one opinion of an account.

## 2. Modules

| module | models | checked by |
|---|---|---|
| `Login` | what a connection promises about authentication, with no mechanism | refined by `FtpSession` |
| `DataConnection` | `struct s_data_connection` and the functions on it | through `FtpSession` |
| `FtpSession` | `handle_client` and all the command handlers | `MCFtpSession*.cfg` |
| `RequestReader` | `read_client_request`, the line cutting of `init_cmd` | `MCRequestReader*.cfg` |
| `ServerProcess` | `launch_server`, `wait_child`, descriptors, restarts | `MCServerProcess*.cfg` |
| `Transfer` | the four transfer functions of `dtp.c`, byte by byte | `MCTransfer*.cfg` |
| `FileTree` | what the sessions of an account promise about the tree they share | refined by `UserFiles` |
| `UserFiles` | several sessions at the file commands on one tree | `MCUserFiles.cfg` |
| `UserDb` | `database.c` and the file it reads | `MCUserDb.cfg` |
| `FtpSessionProofs` | theorems about the login of `FtpSession`, and that it implements `Login` | TLAPS |
| `FtpReplyProofs` | theorems about the replies and transfers of `FtpSession` | TLAPS |
| `RequestReaderProofs` | theorems about `RequestReader` | TLAPS |
| `ServerProcessProofs` | theorems about `ServerProcess` | TLAPS |
| `TransferProofs` | theorems about `Transfer` | TLAPS |
| `UserFilesProofs` | theorems about `UserFiles` | TLAPS |
| `UserTreeProofs` | that `UserFiles` implements `FileTree` | TLAPS |
| `UserDbProofs` | theorems about `UserDb` | TLAPS |

`FtpSession` EXTENDS `DataConnection`, whose variables a session owns, and
instantiates `Login` with a refinement mapping. The operators whose comment
starts with "Mutant of" are the wrong versions of a definition that show that a
property can fail; no specification uses them. They stand before what they
imitate.

### FtpSession and DataConnection

One step is one turn of the loop in `handle_client`: gate, handler, bookkeeping.
Nothing else runs in that process in between, so the grain is sound, except in
LIST: `ListForks` stops at the fork, then `LsExits` (the child), `SigchldHandler`
(the inherited `wait_child`) and `ListWait` interleave. A session that dies
while `ls` runs leaves an orphan that ends by itself.

| variable | code |
|---|---|
| `pc` | idle: in `read_client_request`; listing: in the `wait()` of `process_list`; closed: after QUIT; lost: the connection or process is gone; crashed: SIGSEGV |
| `cmd`, `out` | the latest request and the codes of the replies written for it |
| `username`, `loggedIn`, `root`, `cwd` | `cli_username`, `cli_logged_in`, `cli_root_path`, `cli_current_path` |
| `waiting` | `waitingForPassword` |
| `db` | `_root` of `database.c` |
| `ls` | the child of LIST: none, running, done, failed |
| `dcSocket`, `dcPort`, `dcType` | `dc_socket`, `dc_addr.sin_port`, `dc_transfer_t` |
| `dcPeer` | a ghost: the port `dc_socket` was connected to |

`EndTurn` is the part of the loop after `exec_cmd` (`clientHandler.c:78-93`).
A handler gives it what it leaves in the login's fields. The current path is
none (the buffer is zeroed), the root, or below it. What the file system, the
database file and the peer answer is chosen freely. `LookupResults` has what
`get_user_info` may come to: found, absent, and three ways to return -1, which differ in
what they leave in the caller's pointers. It fails before the walker sets them (no
database, or an entry without a password: the names of `Incomplete`), at the memory
for the password, or at the memory for the path. Undefined behaviour is a
choice: what `process_pass` compares with, or copies, after such a
lookup, and the `cli_root_path` nobody has written (`Garbage`). A failed
`bind()` or `connect()` leaves dc_socket `"unconnected"`; writing to it kills the
process with SIGPIPE or fails.

### RequestReader

Bytes are CR, LF or text and carry the number of their line, which is what the
properties need to know of them. `ReadChunk` is one turn of the inner loop, the
reallocation included, with any chunk length up to `BUF_SIZE`. The test for the
final CR LF looks at `buf[n-2]` and `buf[n-1]`; when the chunk has less than two
bytes these lie in front of `buf`, and `LoopMayEnd` allows any outcome that the
byte it does have allows. `Handle` is what the loop of `handle_client` does with
the request; `answers` records which line it took (0: a 500). `window`, chosen
at the start and never changed, is how many lines the client sends ahead of the
answers it has: 1 for a client that waits.

`FtpSession` starts where `RequestReader` stops: `cmd` is the line kept, and
`ConnectionLost` covers every way in which the reader never returns again.

### ServerProcess

One client connects once; `session[c]` follows it from the queue of `listen()`
to the end of its process. `holders` and `listeners` are the processes that have
a descriptor of each connection and of the listening socket. A pending SIGCHLD is
handled before the server's next step. `Restart` needs every holder of the
listening socket gone, for `bind()` fails otherwise.

### Transfer

One behaviour is one call of `send_ascii_file`, `send_binary_file`,
`read_ascii_file` or `read_binary_file` from the open file to its return.

| variable | code |
|---|---|
| `job`, `taken` | which of the four, what `read()` will return in all, and how much of it has been read |
| `pc` | read: at the `read()` of the loop; work: in its body; done, failed: returned |
| `buf`, `ret`, `pos` | `buf`, `ret` or `ret_read`, `str_start` |
| `conv`, `size` | the string in `with_cr_str` and `new_str_size` |
| `out` | what has been written |
| `shortWrite` | a ghost: some `write()` has taken a part of its bytes |
| `shrank` | a ghost: some chunk was shorter than the one before |

A step is a `read()`, one turn of the inner loop over lines, or what follows it.
A byte is CR, LF, NUL or text. `Write` has the semantics of `write()`: the disk
takes all, a part, which the code counts as success, or refuses, and may do any of these
each time, for other sessions fill and free it meanwhile (`Takes`). A file is read in full chunks, a socket in chunks of any size. The C
strings are the points of the model: `strchr` and `strlen` go on behind the
chunk until a NUL, through what earlier chunks left there.

### UserFiles and FileTree

A step is one system call on the shared tree: the check of a handler (`Check`,
`CheckFails`), its `mkdir`, `rmdir`, `unlink`, `open` or `creat`, each `read()` and
`write()` of the loops, and the `unlink` of a STOR that breaks. CWD has one call only,
the `stat` of its check. Handlers reply when they end; the reply and the
closing of the file are part of the last step.

| variable | code |
|---|---|
| `dirs`, `files`, `content` | the directories, the inode under each file name, the blocks of each inode |
| `pc` | idle: between requests; checked: between the check and the call; sending, receiving: in the loop; gone |
| `cwd` | `cli_current_path`, as the names below the root |
| `req`, `code` | the request and its final reply, 0 as long as there is none |
| `fd`, `offset` | the inode behind the descriptor and its offset in blocks |
| `upload`, `got` | ghosts: which upload a STOR is, and what a RETR has sent |
| `meddled` | a ghost: others have unlinked the name of the open file, or stored to it |

A removed file keeps its inode as long as a session has it open. `uploads` numbers
the inodes and the STORs, so that each block tells who sent it. `FileTree` has
neither checks nor descriptors: a request is pending until one step makes,
removes or stores something and reports it, or refuses. Its `target` is the path the
request is about, settled before the tree is changed: whatever happens in between, a
request changes this path or none. The refinement mapping reads a session's outcome off
`pc`, `req` and `code`, and its target off `cwd` and `req` (`Named`).

What `FtpSession` says of the same commands is what one client sees: the choice it
makes freely (does `stat` succeed, does `mkdir`) is worked out here.

### UserDb

A document is a table of rows (a login, and a password or none) and a layout,
from which `Nodes` makes the tree of nodes libxml2 would: an element between any
two of which stands a blank text node, or two with a comment, or nothing.
`Walker` is the walker on that tree. The code's walker calls itself on the children
of every element; `Walker`, `WalkUsers` and `WalkElements` are that recursion written out
for the three levels such a document has, with the loop over siblings as the first
turn that ends it (`FirstAnswer`). `Edit` is the operator at work on the file;
`NewSession` is a fork, whose `_root` is NULL because the server never looks up.

### Login

Five phases: anonymous, named, authenticated, unverified (accepted after a lookup
that failed, without the database or without a password in the entry: nothing was
compared that anybody had set), gone. Three things may change
the phase: USER, PASS right after it, and leaving; other commands may only make
the server forget a claim. `SessionAuth` in `FtpSession` maps the session's
fields to a phase.

## 3. Runs

| run | checks | instance |
|---|---|---|
| `session` (pass) | `TypeOK`, `LoginConsistent`, `PasswordDirectlyFollowsUser`, `GatedCommands`, `OneFinalReply`, `ReplyTellsConnection`, `TransferReachedPeer`, `ListingReaped`, `LoginRefinement`, `ListAnswered` | 2 accounts, 1 entry without a password, 1 unknown name, 2 passwords, 2 ports; 66,210 states |
| `session_socket`, `session_restart` (violations) | `NoSocketWithoutConnection`, `UserRestartsLogin` | the same |
| `reader` (pass) | `TypeOK`, `BufferSafe`, `AnswersFollowLines`, `LockStepAnswers`, `NothingLost` | 3 lines, one or all of them unanswered at a time; 12,452 states |
| `reader_split`, `reader_eof` (violations) | `LoopEndsAtCRLF`, `ReturnsAtEnd` | 3 lines, one at a time |
| `server` (pass) | `TypeOK`, `OwnConnectionOnly`, `EndedIsClosed`, `OneGeneration`, `QueuedIsServed` | 3 clients, backlog 2, 2 restarts; 4,573 states |
| `server_zombies` (violation) | `ZombiesAreReaped` | the same |
| `transfer` (pass) | `TypeOK`, `WithinMemory`, `BinaryExact`, `AsciiSentWhole`, `AsciiStoredWhole`, `EveryTurnAdvances`, `TransferEnds` | all files up to 5 bytes over 4, a buffer of 2; 293,357 states |
| `transfer_stored` (violation) | `StoredIsWhatWasSent` | the same |
| `files` (pass) | `TypeOK`, `StoredAsSent`, `ReadAsStored`, `PositionsKept`, `TreeRefinement`, `StrandedIsRefused` | 2 sessions, paths up to 2 names, 2 uploads of up to 2 blocks; 246,859 states |
| `userdb` (pass) | `TypeOK`, `LookupIsCorrect`, `NeverAnothersPassword`, `AnswersNeverChange` | 2 names, 2 passwords, up to 2 rows, 3 layouts, 1 replacement; 34,320 states |

Bounds, and why they suffice:

* Session: no counter is bounded; the state space of one session is finite once
  its constants are. Two accounts and two passwords give a right and a wrong
  password for either, and a change of account; the third name has an entry without a
  password and the fourth none. One of the PORT arguments overflows 16 bits. Requests come in every order and for ever.
* Reader: `BufSize` 4, `Slack` 2 and `MaxRequest` 5 stand for 1024, 10 and
  2048. A line is shorter than, equal to and longer than a chunk, than the
  slack and than the limit, and the longest line spans several reallocations.
  `MaxSent` and `MaxAnswers` bound the run; `MaxAnswers` is one more than
  `MaxSent` so that a spurious answer would be seen. `window` is 1 for a client
  that waits and 3, all there is to send, for one that does not.
* Server: three clients make the queue overflow, two sessions end between two
  steps of the server, and a third arrive meanwhile. `MaxRestarts` is how often
  the operator acts; two generations are enough for a session to outlive its own.

* Transfer: a file of 5 bytes is two full chunks and a part, or up to five short
  ones; with a buffer of 2 a line is empty, within a chunk, at either end of it, cut by
  it, or longer. One byte of text is enough: the order of bytes shows in
  where the line ends are. Any write may be taken whole, in part or not at all.
  `BufSize` must be 2 at least (with 1 the first line's CR LF and NUL would
  not fit in `2 * BUF_SIZE`); it is 1024 in the code.
* Files: one name, as a directory and as a file, at the root and below it, and
  `..` or no argument; names at one level do not interact except through the
  emptiness of their parent. Two uploads meet on one name, follow each other or
  are read; two blocks give an offset in the middle of a file. A third session would
  add nobody to the pairs the properties speak of. The sessions are
  symmetric, which is sound because all properties of this run are safety
  properties.
* Database: with two rows a name stands first, second, twice, nowhere, or behind
  a row without a password. One replacement at any time separates a session
  that has parsed from one that has not.

`CHECK_DEADLOCK FALSE` except in `userdb`: a session ends, a server exits, clients
stop, a transfer is over.

### Fairness

* `FtpSession`: weak fairness of `LsExits` (the data peer keeps reading, so `ls`
  ends) and of `ListWait` (the session's process is scheduled). The SIGCHLD handler
  may or may not run first. Nothing is assumed of the client.
* `RequestReader`: bytes that have arrived are read and requests read are
  handled. At the end of the stream nothing is assumed: the loop does
  turn, but what decides whether it ends are bytes outside the buffer, which
  may be the same at each turn.
* `ServerProcess`: `Accept`, `Fork`, `CloseAccepted` and `WaitChild`, each
  weakly: the server is scheduled and signals are delivered. No session need
  end. `QueuedIsServed` excuses an `accept()` or `fork()` that fails.
* `Transfer`: weak fairness of `Progress`, the loop itself: the process is
  scheduled, and the peer goes on sending or reading or breaks the connection
  (a peer that does neither stops the real transfer for ever).
* `UserFiles` and `UserDb`: none; all their properties are safety properties.

## 4. Findings

| run | what the code does |
|---|---|
| `session_socket` | `open_data_connection` fails in `bind()` or `connect()` and leaves the descriptor in `dc_socket`; the next transfer answers 125 and uses a socket without peer. `dtp.h` says -1 when no connection is open. |
| `session_restart` | USER while a password is awaited is answered 331, then the end of the same turn forgets the new name: the PASS that follows gets 503. |
| `reader_split` | CR and LF in different chunks do not end the request. |
| `reader_eof` | `read()` returning 0 is not tested: the session keeps reading after the client has closed its side. |
| `server_zombies` | two sessions that end together leave a zombie. |
| `transfer_stored` | `read_ascii_file` writes its buffer up to a NUL, and the buffer is cleared once only: behind a chunk that is shorter than an earlier one, the end of the earlier one is stored again. |

Each row of PROJECT.json's "findings" has the line and the sentence it contradicts.

Other things the models show, which no run states as a property:

* A missing or blank argument of TYPE, DELE, RMD or MKD, and PWD before a login,
  dereference NULL (`TypeBlank`, `MissingArgument`, `PwdMayFault` in `FtpSession`).
* A lookup that returns -1 passes for success in USER and PASS, which test for 0 only
  (`LookupResults`): PASS then compares with a pointer nobody has set, and may log in
  whoever asked (the phase unverified of `Login`). It needs no broken disk: `Walker`
  returns -1 for an entry without a password, and for any entry of a file without
  blanks between its elements or with comments there.
* A socket kept open after 451 or 552 carries the next transfer even after
  another PORT: `TransferReachedPeer` claims the latest port after 150 only.
* A `write()` that takes a part of its bytes counts as a success: the rest is lost, and
  when other sessions free space the next write leaves a gap in front of the 226.
  `BinaryExact` and `AsciiStoredWhole` leave such transfers out (`shortWrite`).
* Of two lines that arrive in one chunk the second is dropped: `NothingLost` is
  about clients that wait. Even these may wait for ever: after `reader_split` their line
  lies whole in the request, and the loop reads on.
* `send_ascii_file` has the flaw of `transfer_stored` too, for a last chunk without a LF
  behind one with a LF; `AsciiSentWhole` names the files it spares.
* Two STORs of one name mix their blocks, and one that fails unlinks whatever
  has the name then (`StoredAsSent` and `FileTree!AbortStore` say how much is
  promised).
* The sessions of a server that exits keep its listening socket: it cannot be started
  again as long as one of them lives (`OneGeneration`).

## 5. Proofs

Every safety invariant, every action property and both refinements that the passing
runs check are theorems, for arbitrary constants under these assumptions:

* `SessionAssumption`: accounts are names and have passwords, names without a password
  are no accounts, the special values are not names. `ClientPortAssumption`: PORT arguments are numbers.
* `ReaderAssumption`: sizes are numbers, the buffer and the slack are not empty.
* `ServerAssumption`: the server is not a client, there are finitely many clients.
* `TransferAssumption`: the buffer has two bytes or more, CR, LF and NUL are not text.
* `FilesAssumption`: the bounds are numbers.
* `DatabaseAssumption`: the bounds are numbers; no password and no name are not a
  password and a name.

Each proof has the same plan: an invariant that holds initially, is kept by every
action and implies the property. The invariants were checked with TLC first. What
holds of every number up to a bound is proved by assuming the least for which it
fails (`HasLeast`, from the well-foundedness of `<`), for the provers cannot use
the induction theorems of the library.

### FtpSessionProofs

* `TypeCorrect`: `TypeOK` is inductive. The proof sorts the actions by shape
  (`StepShapes`: a reply and a kind of turn), because most handlers differ only
  in their codes, and proves each group of fields preserved separately.
* `LoginAlwaysConsistent`, `CommandsAlwaysGated`, `PasswordAlwaysFollowsUser`
  rest on one invariant, `LoginInv`:
  `TypeOK /\ LoginConsistent /\ ListingState /\ GatedCommands /\ PasswordDirectlyFollowsUser`.
  `ListingState` says that a LIST in progress is that of a logged-in client
  with a path: the gate is passed one step before the books are kept, so neither
  `LoginConsistent` nor `GatedCommands` is inductive without it.
* `SessionImplementsLogin`: every behaviour of `FtpSession` is one of `Login`
  under `SessionAuth`. `AuthOf` and `AuthNext` compute the phase before
  and after a step; one lemma per group of actions maps it to USER, PASS,
  another command, leaving, or (for `LsExits` after the session is gone, and for
  the handler) a stutter. It uses `LoginInv`, without which a PASS might be executed
  with no name claimed.

### FtpReplyProofs

`ReplyInv` is the four properties and what a LIST in progress has still to say.

* `ListingAlwaysReaped` rests on `ChildOnlyWhileListing`: the only step after which a
  child lives on is the fork, and the `wait()` that ends LIST finds it collected
  whether or not the SIGCHLD handler was first.
* `AlwaysOneFinalReply`, `ReplyAlwaysTellsConnection` and `TransferAlwaysReachedPeer`
  go through the outcomes of a transfer: each pairs its last code with what it does to
  the socket, and 226 with a connected socket or a RETR of nothing
  (`TransferOutcomes`). LIST answers in two steps, and `ListingConnection`
  carries what the first knew to the second: the socket is open, and connected to the
  latest PORT if this LIST opened it. `ConnectedHasPeer` does the same from one
  transfer to the next, for 451 and 552 keep the socket.

### RequestReaderProofs

* `TypeCorrect` and `RequestAlwaysFits`: `TypeOK /\ BufferSafe` is inductive. The
  two disjoint cases of `BufferSafe` are what makes it so: as long as nothing
  was reallocated the room left is exact, and afterwards the margin is
  always `Slack`, although `remaining_space` goes on falling.
* `AnswersKeepOrder`: the invariant `OrderInv` says that what has been copied
  followed by what is still to be read is ordered by line, belongs to lines that
  were sent, and lies behind every line answered; and that a request that was
  read ends with a LF unless the stream is exhausted. The last part is what
  makes the next request start on a new line.
* `WaitingClientsAnswered` and `WaitingClientsLoseNothing` rest on `LockStepInv`. Its
  core, `Waiting`, says that a client that waits has either all its answers,
  and nothing of it is in the request or on the wire, or lacks the latest, and
  then the request followed by the wire is exactly its latest line. The loop cannot
  end inside a line, for the line's only LF is its last byte; and it does not
  go on behind it, for then nothing is left to read.

### ServerProcessProofs

`ServerInv` says exactly who holds what: a connection is held by the server from
`accept()` to its own `close()`, and by its session while that runs
(`HoldersExact`); the listening socket by the server and every running session
(`ListenersExact`). The four theorems follow from these equations.
`ParentState` ties the server's step to the one client it is busy with, and
`QueueDistinct` (clients in the queue wait, and stand there once) makes
the client that `accept()` returns one that nobody holds. `AlwaysOneGeneration`
is part of the invariant: a restart finds no holder of the listening socket, hence
no running session.

### TransferProofs

* `TypeCorrect` and `StringsFitMemory` rest on `MemoryInv`:
  `TypeOK /\ WithinMemory /\ Allocated`. `Allocated` adds that `new_str_size` is
  at least `2 * BUF_SIZE` once there is memory. With it the one doubling in
  `Grown` is enough (`LineFits`): a line found by `strchr` ends in front of the
  buffer's last byte (`FoundBeforeEnd`), so that it has at most `BUF_SIZE - 1` bytes.
  `WithinMemory` alone is not inductive.
* `BinaryAlwaysExact` rests on `BinaryInv`: what has been written is
  all that was read in earlier chunks, or in the end all that was read, and the
  chunk in the buffer is the part of the source that follows, as long as every write was
  taken whole or refused (`~shortWrite`). After one that was taken in part nothing is
  claimed, for the next write may leave a gap.
* The ASCII theorems speak of the image of the bytes read so far
  (`Images`, a recursive function: `ImagesExist` and `ImagesStep` give its
  equations, `ImagesOfRun` that bytes without line ends are added as they are).
  `AsciiAlwaysStoredWhole` rests on `StoredInv`: only NULs are behind the chunk, so
  that the string that is left of a chunk is the chunk's rest (`PartOfChunk`), and the
  file is the image of all the bytes in front of it. `AsciiAlwaysSentWhole`
  rests on `SentInv`, in two parts. Between chunks (`BetweenChunks`) no LF is left
  in the buffer, and nothing at all after a full chunk without one, for
  that branch clears it. In a chunk (`InChunk`) what has been sent followed by the
  lines gathered is the image of what is in front of `str_start`; and text may
  be behind the chunk only if the chunk has a line, whose branch measures the chunk by
  `ret` and not by its NUL. A chunk that does not fill the buffer is the last, and
  `NothingBehindLastChunk` says what was in front of it.
* `EveryTurnAlwaysAdvances`: a step reads more, leaves a stage behind, or moves on in
  the buffer. With the bounds of `TypeOK` this is the part of `TransferEnds` that does
  not need fairness.

### UserFilesProofs and UserTreeProofs

The interference of the sessions is dealt with once. `OthersStay` says that a step of one
session leaves the locals of the others alone, and `OthersAreTold` that whoever loses
the name or the content of an open file has it in `meddled`. With these two the
invariant of a session needs to be proved for its own steps only.

* `TypeCorrect`: `Typed /\ TreeShape` is inductive. `Typed`
  adds to the types what each step of a request knows of it (a descriptor in a
  transfer, a name in MKD), without which a path might be no path below the root.
  `TreeShape`, that what exists lies in a directory that exists and has one kind, is what
  the kernel sees to whatever the handlers do; it is a lemma here and no result.
* `PositionsAlwaysKept` rests on `BlocksInOrder`: a block stands in a file where it
  stood in its upload, whoever emptied or extended the file since.
* `AlwaysReadAsStored` and `AlwaysStoredAsSent` add `Reading` and `Storing`: as long as
  nobody meddles, what a RETR has is the beginning of its file up to its
  offset, and what a STOR's file holds is what was received.
* `FilesImplementTree` maps each action to one of `FileTree`: a check to the asking, the
  step that changes the tree to the operation it reports, a refusal to a refusal, the
  blocks to a stutter. `Named` ties the operation to the path that was checked; that
  DELE and a STOR that breaks find a file only under a name, and not under `.` or
  `..`, is `FileIsNamed`. `AlwaysStrandedIsRefused` follows from `TreeShape`:
  parents exist, so that nothing is below a directory that is gone.

### UserDbProofs

`WalkerAnswer` is the theorem about the algorithm: on the nodes of a table of any
length in any layout, the walk gives what `TableAnswer` reads in the table. Where
the elements stand among blanks and comments is arithmetic (`Separated`); the first
row of the name ends the loop, because every earlier turn gives 0 (`UsersAnswer`), and
within it the login comes before the password (`ElementsAnswer`).
`LookupAlwaysCorrect` and `NobodyElsesPassword` follow with
`AnswerFromRoot`: the latest answer is that of the walk on the document this session
has parsed. `AnswersStayTheSame` needs only that: a parsed document is never replaced.

### Only model-checked

Liveness: `ListAnswered`, `QueuedIsServed` and `TransferEnds` need fairness and
`ENABLED`, which these backends do not handle. `EveryTurnAlwaysAdvances`
is the safety part of the last. The properties of the violation runs are false, and
nothing is proved of them.

## 6. Not modelled

* Abbreviated verbs: `init_cmd` finds the verb by prefix in a chain of 15
  comparisons; a request is its verb here. The chain is a pure function of
  constants, with no state to get wrong.
* Arguments of several components (`MKD a/b`, `RETR a/../b`), and the way
  `is_valid_path` cuts them; symbolic links; permissions.
* What LIST and PWD print. `ls` reads the tree once, and no property is about
  its output.
* DELE before a login, which works on the empty current path (`UserFiles` has
  logged-in sessions; `FtpSession` has the request and its replies).
* Arguments are taken to fit the fixed buffers they are copied to.
* Short writes on the control and data sockets, memory leaks, allocation failures
  other than as the failure of a lookup or a transfer, counters that overflow after 2 GB in
  one request, passive mode (never selected), `write_data` (never called).
* Sessions of different accounts on one tree: each account has a directory of
  its own below `files/`, so `UserFiles` has the sessions of one.

## 7. Plan

What the proofs have not reached yet:

1. The safety part of `QueuedIsServed` (nobody overtakes a client in the queue, and
   each turn of the server takes one out) and of `ListAnswered`, in the manner of
   `EveryTurnAlwaysAdvances`.
2. The reader for a client that sends ahead of its answers: which lines `NothingLost`
   loses, as a statement about what arrived in one chunk.
3. That `NothingBehindLastChunk` is exact: a text it excludes is not sent whole.
