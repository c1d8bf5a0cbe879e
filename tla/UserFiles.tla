----------------------------- MODULE UserFiles -----------------------------
(***************************************************************************)
(* Several sessions of one account at work on the same files: the handlers *)
(* of command.c that reach the file system (CWD, MKD, RMD, DELE, RETR,     *)
(* STOR), the checks of clientHandler.c they make first, and the loops of  *)
(* dtp.c over a file.  Each session is a process of its own                *)
(* (ServerProcess.tla), so that a step is one system call on the shared    *)
(* tree and the sessions interleave between them.                          *)
(*                                                                         *)
(* The sessions are logged in and the argument of a request is one name,   *)
(* ".", ".." or, of RETR and STOR only, missing.  A file is a sequence of  *)
(* blocks, each what one read() returns; what happens to the bytes of a    *)
(* block is the matter of Transfer.tla.                                    *)
(***************************************************************************)
EXTENDS Integers, SequencesExt, Functions

CONSTANTS Sessions,     \* the sessions of the account
          Arguments,    \* the arguments of requests: names, ".", "..", NoArg
          MaxDepth,     \* bound on the length of a path
          MaxUploads,   \* bound on the number of STORs that create or empty a file
          MaxBlocks     \* bound on the length of a file that is received

ASSUME FilesAssumption ==
    MaxDepth \in Nat /\ MaxUploads \in Nat /\ MaxBlocks \in Nat

VARIABLES dirs,       \* the directories, as paths from the root
          files,      \* the inode each regular file's path leads to
          content,    \* the blocks of each inode
          uploads,    \* how many files have been created or emptied
          pc,         \* "idle", "checked", "sending", "receiving", "gone"
          cwd,        \* cli_current_path
          req,        \* the verb and the argument of the latest request
          code,       \* the latest final reply, 0 while the request runs
          fd,         \* the inode the transfer has open, and 0 before it has
          upload,     \* which of the uploads a STOR is
          offset,     \* the blocks transferred so far
          got,        \* the blocks a RETR has sent
          meddled     \* ghost: what others have done to the file in fd

tree == <<dirs, files, content, uploads>>
transfer == <<fd, upload, offset, got>>
vars == <<tree, pc, cwd, req, code, transfer, meddled>>

Root == <<>>
Dots == {".", ".."}
NoArg == ""
Names == Arguments \ (Dots \cup {NoArg})
Paths == UNION {[1 .. n -> Names] : n \in 0 .. MaxDepth}
Inodes == 1 .. MaxUploads
NoRequest == [verb |-> "none", arg |-> NoArg]

\* A block: the upload that wrote it and its place in what was sent.  Hole is what
\* a file holds where nobody has written.
Block(u, i) == <<u, i>>
Hole == <<0, 0>>

Init ==
    /\ dirs = {Root} /\ files = <<>>
    /\ content = [i \in Inodes |-> <<>>]
    /\ uploads = 0
    /\ pc = [s \in Sessions |-> "idle"]
    /\ cwd = [s \in Sessions |-> Root]
    /\ req = [s \in Sessions |-> NoRequest]
    /\ code = [s \in Sessions |-> 0]
    /\ fd = [s \in Sessions |-> 0] /\ upload = [s \in Sessions |-> 0]
    /\ offset = [s \in Sessions |-> 0] /\ got = [s \in Sessions |-> <<>>]
    /\ meddled = [s \in Sessions |-> {}]

-----------------------------------------------------------------------------
(* Paths and checks.                                                       *)

\* The path a handler builds: the current path itself when there is no argument.
PathOf(s, arg) == IF arg = NoArg THEN cwd[s] ELSE Append(cwd[s], arg)
Target(s) == PathOf(s, req[s].arg)

IsFilePath(path) == path \in DOMAIN files
ParentOf(path) == Front(path)
Exists(path) == path \in dirs \/ IsFilePath(path)
HasEntries(path) == \E p \in (dirs \cup DOMAIN files) \ {Root} : ParentOf(p) = path

\* is_dir_of_currentpath: nothing is found below a directory that is gone, not even
\* its "." and its "..".
IsDir(s, arg) == IF arg \in Dots THEN cwd[s] \in dirs ELSE PathOf(s, arg) \in dirs

\* is_file_of_currentpath
IsFile(s, arg) == arg \notin Dots /\ IsFilePath(PathOf(s, arg))

\* is_valid_path, for the current path followed by at most one name.
IsValidPath(s, arg) ==
    /\ IsDir(s, arg) \/ IsFile(s, arg)
    /\ arg = ".." => cwd[s] # Root

\* is_valid_path as STOR calls it, for its path without the last component, which
\* may have become a file since it was the current directory.
IsValidParent(s, arg) ==
    /\ arg = NoArg => cwd[s] # Root
    /\ Exists(IF arg = NoArg THEN Front(cwd[s]) ELSE cwd[s])

\* The others fault without an argument (FtpSession.tla).
VerbsWith(arg) ==
    IF arg = NoArg THEN {"RETR", "STOR"} ELSE {"MKD", "RMD", "DELE", "RETR", "STOR"}

\* The check a handler makes before it acts.
CheckPasses(s, verb, arg) ==
    CASE verb = "MKD"  -> ~IsDir(s, arg)
      [] verb = "RMD"  -> IsDir(s, arg)
      [] verb = "DELE" -> IsFile(s, arg)
      [] verb = "RETR" -> IsValidPath(s, arg)
      [] verb = "STOR" -> IsValidParent(s, arg)

Set(var, s, value) == [var EXCEPT ![s] = value]

Forget(s) ==
    /\ req' = Set(req, s, NoRequest)
    /\ fd' = Set(fd, s, 0) /\ upload' = Set(upload, s, 0)
    /\ offset' = Set(offset, s, 0) /\ got' = Set(got, s, <<>>)

\* Others than s learn what was done to an inode they have open.
Meddle(s, inode, what) ==
    meddled' = [t \in Sessions |->
                  IF t = s THEN IF fd'[s] = 0 THEN {} ELSE meddled[s]
                  ELSE IF fd[t] = inode THEN meddled[t] \cup {what} ELSE meddled[t]]

Reply(s, reply) == pc' = Set(pc, s, "idle") /\ code' = Set(code, s, reply)

Continue(s, where) == pc' = Set(pc, s, where) /\ code' = Set(code, s, 0)

\* The request is freed and its file closed with the reply.  Of a request that
\* succeeded req and the transfer are kept until the next one, for the properties.
Succeed(s, reply) == Reply(s, reply) /\ UNCHANGED <<req, transfer, meddled>>
Refuse(s, reply) == Reply(s, reply) /\ Forget(s) /\ meddled' = Set(meddled, s, {})

-----------------------------------------------------------------------------
(* Requests and the checks they begin with.                                *)

\* A request that is read, as far as its argument fits the bound on paths.
Asks(s, arg) == pc[s] = "idle" /\ (arg \in Names => Len(cwd[s]) < MaxDepth)

\* It runs, and nothing is left of an earlier one.
Begin(s, verb, arg) ==
    /\ req' = Set(req, s, [verb |-> verb, arg |-> arg])
    /\ fd' = Set(fd, s, 0) /\ upload' = Set(upload, s, 0)
    /\ offset' = Set(offset, s, 0) /\ got' = Set(got, s, <<>>)
    /\ meddled' = Set(meddled, s, {})

\* Mutant of CwdWorks: ".." is worked out on the path alone.
CwdWorksLexically(s, arg) == arg # NoArg /\ IF arg = ".." THEN cwd[s] # Root ELSE IsDir(s, arg)

\* process_cwd
CwdWorks(s, arg) == arg # NoArg /\ IsDir(s, arg) /\ ~(arg = ".." /\ cwd[s] = Root)

Cwd(s) ==
    \E arg \in Arguments :
        /\ Asks(s, arg) /\ CwdWorks(s, arg)
        /\ Begin(s, "CWD", arg) /\ Reply(s, 250)
        /\ cwd' = Set(cwd, s, CASE arg = "."  -> cwd[s]
                                [] arg = ".." -> Front(cwd[s])
                                [] OTHER      -> Append(cwd[s], arg))
        /\ UNCHANGED tree

CwdFails(s) ==
    /\ {arg \in Arguments : Asks(s, arg) /\ ~CwdWorks(s, arg)} # {}
    /\ Refuse(s, 501)
    /\ UNCHANGED <<tree, cwd>>

\* The others up to their check.
Check(s) ==
    \E arg \in Arguments : \E verb \in VerbsWith(arg) :
        /\ Asks(s, arg) /\ CheckPasses(s, verb, arg)
        /\ Begin(s, verb, arg) /\ Continue(s, "checked")
        /\ UNCHANGED <<tree, cwd>>

CheckFails(s) ==
    /\ {arg \in Arguments :
          Asks(s, arg) /\ \E verb \in VerbsWith(arg) : ~CheckPasses(s, verb, arg)} # {}
    /\ Refuse(s, 550)
    /\ UNCHANGED <<tree, cwd>>

-----------------------------------------------------------------------------
(* The call after the check, which may find another tree than the check.   *)

Acts(s, verb) == pc[s] = "checked" /\ req[s].verb = verb

\* mkdir(2)
MkdirWorks(s) ==
    req[s].arg \notin Dots /\ ~Exists(Target(s)) /\ ParentOf(Target(s)) \in dirs

\* Mutant of Mkd: the check is trusted, and whatever mkdir returns is success.
MkdTrusting(s) ==
    /\ Acts(s, "MKD")
    /\ Succeed(s, 257)
    /\ dirs' = (IF MkdirWorks(s) THEN dirs \cup {Target(s)} ELSE dirs)
    /\ UNCHANGED <<files, content, uploads, cwd>>

Mkd(s) ==
    /\ Acts(s, "MKD")
    /\ \/ MkdirWorks(s) /\ Succeed(s, 257) /\ dirs' = dirs \cup {Target(s)}
       \/ ~MkdirWorks(s) /\ Refuse(s, 550) /\ UNCHANGED dirs
    /\ UNCHANGED <<files, content, uploads, cwd>>

\* rmdir(2) refuses "." and "..", and what is not empty or no longer there.
RmdirWorks(s) ==
    req[s].arg \notin Dots /\ Target(s) \in dirs /\ ~HasEntries(Target(s))

Rmd(s) ==
    /\ Acts(s, "RMD")
    /\ \/ RmdirWorks(s) /\ Succeed(s, 250) /\ dirs' = dirs \ {Target(s)}
       \/ ~RmdirWorks(s) /\ Refuse(s, 550) /\ UNCHANGED dirs
    /\ UNCHANGED <<files, content, uploads, cwd>>

\* unlink(2): those who have the file open keep it.
Unlink(s) ==
    /\ Meddle(s, files[Target(s)], "name")
    /\ files' = RestrictDomain(files, LAMBDA p : p # Target(s))

Dele(s) ==
    /\ Acts(s, "DELE")
    /\ \/ IsFilePath(Target(s)) /\ Reply(s, 250) /\ UNCHANGED <<req, transfer>> /\ Unlink(s)
       \/ ~IsFilePath(Target(s)) /\ Refuse(s, 550) /\ UNCHANGED files
    /\ UNCHANGED <<dirs, content, uploads, cwd>>

CannotConnect(s) ==
    /\ pc[s] = "checked" /\ req[s].verb \in {"RETR", "STOR"}
    /\ Refuse(s, 425)
    /\ UNCHANGED <<tree, cwd>>

\* Mutant of OpenToSend: what open() returns is not tested.
OpenToSendUntested(s) ==
    /\ Acts(s, "RETR")
    /\ fd' = Set(fd, s, IF IsFile(s, req[s].arg) THEN files[Target(s)] ELSE 0)
    /\ Continue(s, "sending")
    /\ UNCHANGED <<tree, cwd, req, upload, offset, got, meddled>>

\* send_ascii_file and send_binary_file up to open(2), and to the first read() of a
\* directory.
OpenToSend(s) ==
    /\ Acts(s, "RETR")
    /\ \/ /\ IsFile(s, req[s].arg)
          /\ fd' = Set(fd, s, files[Target(s)])
          /\ Continue(s, "sending")
          /\ UNCHANGED <<req, upload, offset, got, meddled>>
       \/ ~IsFile(s, req[s].arg) /\ Refuse(s, IF IsDir(s, req[s].arg) THEN 426 ELSE 552)
    /\ UNCHANGED <<tree, cwd>>

CreatWorks(s) ==
    /\ req[s].arg \notin Dots
    /\ Target(s) # Root /\ ParentOf(Target(s)) \in dirs /\ Target(s) \notin dirs

\* Mutant of Creat: an existing file is opened without being emptied.
CreatKeeps(s) ==
    /\ Acts(s, "STOR") /\ CreatWorks(s)
    /\ uploads < MaxUploads
    /\ LET u     == uploads + 1
           inode == IF IsFilePath(Target(s)) THEN files[Target(s)] ELSE u
       IN  /\ uploads' = u
           /\ upload' = Set(upload, s, u)
           /\ fd' = Set(fd, s, inode)
           /\ files' = [p \in DOMAIN files \cup {Target(s)} |->
                          IF p = Target(s) THEN inode ELSE files[p]]
           /\ UNCHANGED content
           /\ Meddle(s, inode, "content")
    /\ Continue(s, "receiving")
    /\ UNCHANGED <<dirs, cwd, req, offset, got>>

\* read_ascii_file and read_binary_file up to creat(2), which empties a file that is
\* there, whoever has it open.
Creat(s) ==
    /\ Acts(s, "STOR") /\ CreatWorks(s)
    /\ uploads < MaxUploads
    /\ LET u     == uploads + 1
           inode == IF IsFilePath(Target(s)) THEN files[Target(s)] ELSE u
       IN  /\ uploads' = u
           /\ upload' = Set(upload, s, u)
           /\ fd' = Set(fd, s, inode)
           /\ files' = [p \in DOMAIN files \cup {Target(s)} |->
                          IF p = Target(s) THEN inode ELSE files[p]]
           /\ content' = Set(content, inode, <<>>)
           /\ Meddle(s, inode, "content")
    /\ Continue(s, "receiving")
    /\ UNCHANGED <<dirs, cwd, req, offset, got>>

CreatFails(s) ==
    /\ Acts(s, "STOR") /\ ~CreatWorks(s)
    /\ Refuse(s, 552)
    /\ UNCHANGED <<tree, cwd>>

-----------------------------------------------------------------------------
(* The loops over the blocks.                                              *)

\* Mutant of SendBlock: the file is looked up by its name at each read.
SendBlockByName(s) ==
    /\ pc[s] = "sending" /\ IsFilePath(Target(s))
    /\ LET blocks == content[files[Target(s)]]
       IN  /\ offset[s] < Len(blocks)
           /\ got' = Set(got, s, Append(got[s], blocks[offset[s] + 1]))
    /\ offset' = Set(offset, s, offset[s] + 1)
    /\ UNCHANGED <<tree, pc, cwd, req, code, fd, upload, meddled>>

SendBlock(s) ==
    /\ pc[s] = "sending"
    /\ offset[s] < Len(content[fd[s]])
    /\ got' = Set(got, s, Append(got[s], content[fd[s]][offset[s] + 1]))
    /\ offset' = Set(offset, s, offset[s] + 1)
    /\ UNCHANGED <<tree, pc, cwd, req, code, fd, upload, meddled>>

\* read() finds the end of the file as it is now; the connection may break earlier.
SendEnds(s) ==
    /\ pc[s] = "sending"
    /\ \/ offset[s] >= Len(content[fd[s]]) /\ Succeed(s, 226)
       \/ Refuse(s, 426)
    /\ UNCHANGED <<tree, cwd>>

\* Mutant of Written: the block goes to the end of the file.
WrittenAtEnd(blocks, at, block) == Append(blocks, block)

\* write(2) at the offset of the descriptor, which may lie behind the end of a file
\* that somebody has emptied since.
Written(blocks, at, block) ==
    [i \in 1 .. IF at > Len(blocks) THEN at ELSE Len(blocks) |->
        IF i = at THEN block ELSE IF i > Len(blocks) THEN Hole ELSE blocks[i]]

ReceiveBlock(s) ==
    /\ pc[s] = "receiving"
    /\ offset[s] < MaxBlocks
    /\ LET at == offset[s] + 1
       IN  /\ content' = Set(content, fd[s], Written(content[fd[s]], at, Block(upload[s], at)))
           /\ offset' = Set(offset, s, at)
    /\ UNCHANGED <<dirs, files, uploads, pc, cwd, req, code, fd, upload, got>>
    /\ Meddle(s, fd[s], "content")

\* The client closes the connection, or the file cannot be written.
ReceiveEnds(s) ==
    /\ pc[s] = "receiving"
    /\ Succeed(s, 226) \/ Refuse(s, 426)
    /\ UNCHANGED <<tree, cwd>>

\* The connection breaks: what is found under the name is unlinked.
ReceiveBreaks(s) ==
    /\ pc[s] = "receiving"
    /\ Reply(s, 426) /\ Forget(s)
    /\ IF IsFilePath(Target(s)) THEN Unlink(s) ELSE UNCHANGED files /\ meddled' = Set(meddled, s, {})
    /\ UNCHANGED <<dirs, content, uploads, cwd>>

\* SIGPIPE or a lost control connection ends the process where it is: what it has
\* done to the tree stays, what it knew is forgotten.
Dies(s) ==
    /\ pc[s] # "gone"
    /\ pc' = Set(pc, s, "gone")
    /\ cwd' = Set(cwd, s, Root) /\ code' = Set(code, s, 0)
    /\ Forget(s) /\ meddled' = Set(meddled, s, {})
    /\ UNCHANGED tree

Act(s) == Mkd(s) \/ Rmd(s) \/ Dele(s) \/ CannotConnect(s)
          \/ OpenToSend(s) \/ Creat(s) \/ CreatFails(s)
Move(s) == SendBlock(s) \/ SendEnds(s) \/ ReceiveBlock(s) \/ ReceiveEnds(s) \/ ReceiveBreaks(s)
Ask(s) == Cwd(s) \/ CwdFails(s) \/ Check(s) \/ CheckFails(s)

Next == \E s \in Sessions : Ask(s) \/ Act(s) \/ Move(s) \/ Dies(s)

Spec == Init /\ [][Next]_vars

-----------------------------------------------------------------------------
(* Properties.                                                             *)

Blocks == {Hole} \cup (Inodes \X (1 .. MaxBlocks))
FinalCodes == {226, 250, 257, 425, 426, 501, 550, 552}

\* Every variable holds a value of its kind, and files and descriptors lead to inodes.
TypeOK ==
    /\ dirs \subseteq Paths
    /\ DOMAIN files \subseteq Paths /\ \A p \in DOMAIN files : files[p] \in 1 .. uploads
    /\ content \in [Inodes -> Seq(Blocks)]
    /\ uploads \in 0 .. MaxUploads
    /\ pc \in [Sessions -> {"idle", "checked", "sending", "receiving", "gone"}]
    /\ cwd \in [Sessions -> Paths]
    /\ code \in [Sessions -> FinalCodes \cup {0}]
    /\ \A s \in Sessions :
         /\ fd[s] \in 0 .. uploads /\ upload[s] \in 0 .. uploads
         /\ offset[s] \in 0 .. MaxBlocks /\ got[s] \in Seq(Blocks)
         /\ meddled[s] \subseteq {"name", "content"}
         /\ pc[s] \in {"sending", "receiving"} => fd[s] # 0

Answered(s, verb, reply) == pc[s] = "idle" /\ req[s].verb = verb /\ code[s] = reply

\* After 226 to a STOR the file of that name is exactly what was sent, nothing of
\* an earlier and longer file of the name being left, unless another session has
\* unlinked the name or stored to the file since it was created.
StoredAsSent ==
    \A s \in Sessions :
        Answered(s, "STOR", 226) =>
            /\ "name" \notin meddled[s] => IsFilePath(Target(s)) /\ files[Target(s)] = fd[s]
            /\ "content" \notin meddled[s] =>
                 content[fd[s]] = [i \in 1 .. offset[s] |-> Block(upload[s], i)]

\* What RETR has sent before 226 is the whole file it opened, even if its name was
\* unlinked or given to another file meanwhile, unless somebody has stored to it.
ReadAsStored ==
    \A s \in Sessions :
        Answered(s, "RETR", 226) /\ "content" \notin meddled[s] => got[s] = content[fd[s]]

\* However many sessions store under one name at once, each block lies where it lay
\* in what was sent, in the file and in what is read from it: sessions may overwrite each
\* other and leave holes, but never shift or repeat what they write.
PositionsKept ==
    LET InPlace(blocks) == \A i \in DOMAIN blocks : blocks[i] = Hole \/ blocks[i][2] = i
    IN  /\ \A inode \in Inodes : InPlace(content[inode])
        /\ \A s \in Sessions : InPlace(got[s])

\* The sessions implement the tree: a success reports a change of the tree that the
\* same step made, at the path the request named when it was checked, and that was
\* legal although the check was made on an earlier tree; a refusal changes nothing; a
\* failed STOR removes its own name only.
Outcome(s) ==
    CASE pc[s] = "gone"                            -> "gone"
      [] pc[s] = "checked" \/ pc[s] = "sending"    -> "pending"
      [] pc[s] = "receiving"                       -> "storing"
      [] Answered(s, "MKD", 257)                   -> "made"
      [] Answered(s, "RMD", 250) \/ Answered(s, "DELE", 250) -> "removed"
      [] Answered(s, "STOR", 226)                  -> "stored"
      [] OTHER                                     -> "other"

\* The path a request that runs is about; "." and ".." name nothing it may change.
Named(s) ==
    IF pc[s] \in {"checked", "sending", "receiving"} /\ req[s].arg \notin Dots
    THEN Target(s) ELSE Root

AbstractTree == INSTANCE FileTree WITH
    files <- DOMAIN files,
    outcome <- [s \in Sessions |-> Outcome(s)],
    target <- [s \in Sessions |-> Named(s)]

TreeRefinement == AbstractTree!TreeSpec

\* A session whose current directory was removed by another is stuck in it: until a
\* directory of that name is made again, every answer to a request that has an argument
\* is a refusal and it cannot move, not even with "..".  Not so of a transfer already
\* begun, nor of RETR and STOR without argument, whose path is the lost directory's.
StrandedIsRefused ==
    [][\A s \in Sessions :
         /\ cwd[s] \notin dirs \cup dirs'
         /\ pc[s] = "idle" \/ (pc[s] = "checked" /\ req[s].arg # NoArg)
         /\ pc'[s] # "gone"
         => /\ cwd'[s] = cwd[s]
            /\ pc'[s] \in {"checked", "idle"}
            /\ code'[s] # code[s] => code'[s] \in {0, 425, 501, 550, 552}]_vars
=============================================================================
