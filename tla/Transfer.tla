------------------------------ MODULE Transfer ------------------------------
(***************************************************************************)
(* The four functions of dtp.c that move a file over an open data          *)
(* connection: send_binary_file, send_ascii_file, read_binary_file and     *)
(* read_ascii_file.                                                        *)
(*                                                                         *)
(* Each is a loop over one buffer of BUF_SIZE + 1 bytes that is cleared    *)
(* once, before the first read.  The ASCII pair works on it as on a C      *)
(* string: what a short read leaves behind is still there for strchr and   *)
(* strlen.  The file has been opened or created when a behaviour starts.   *)
(***************************************************************************)
EXTENDS Integers, SequencesExt

CONSTANTS BufSize,      \* BUF_SIZE
          Text,         \* the bytes other than CR, LF and NUL
          MaxLength     \* bound on the length of a file

\* With one byte the first line and its CR LF would not fit in 2 * BUF_SIZE.
ASSUME TransferAssumption ==
    /\ BufSize \in Nat /\ BufSize >= 2
    /\ Text \cap {"cr", "lf", "nul"} = {}
    /\ MaxLength \in Nat

VARIABLES job,      \* the direction, the type and the bytes to transfer
          taken,    \* how many of these have been read
          pc,       \* "read", "work", "done", "failed"
          buf,      \* buf, the bytes of the buffer
          ret,      \* ret, ret_read: the length of the latest chunk
          pos,      \* str_start, as an index of buf
          conv,     \* the string with_cr_str points to
          size,     \* new_str_size, 0 when with_cr_str is NULL
          out,      \* the bytes written: to the socket, or to the file
          shortWrite,  \* ghost: the disk took a part of a write only
          shrank    \* ghost: a chunk was shorter than the one before it

vars == <<job, taken, pc, buf, ret, pos, conv, size, out, shortWrite, shrank>>

Bytes == Text \cup {"cr", "lf", "nul"}
Sources == UNION {[1 .. n -> Bytes] : n \in 0 .. MaxLength}

Sending == job.dir = "send"
Binary == job.type = "binary"

EmptyBuffer == [i \in 1 .. BufSize + 1 |-> "nul"]

Init ==
    /\ job \in [dir : {"send", "receive"}, type : {"ascii", "binary"}, source : Sources]
    /\ taken = 0
    /\ pc = "read"
    /\ buf = EmptyBuffer
    /\ ret = 0 /\ pos = 1
    /\ conv = <<>> /\ size = 0
    /\ out = <<>>
    /\ shortWrite = FALSE /\ shrank = FALSE

-----------------------------------------------------------------------------
(* The common loop: read a chunk until there is none.                      *)

Left == Len(job.source) - taken

\* Mutant of ReadSizes: the byte kept for the final NUL is read into.
ReadSizesOneMore ==
    IF Sending THEN {n \in 0 .. BufSize + 1 : n = Left \/ (n = BufSize + 1 /\ n < Left)}
    ELSE {n \in 0 .. BufSize + 1 : n <= Left /\ (n = 0 => Left = 0)}

\* What read() may return: a file gives all it has room for, a socket some of what
\* the client will send.
ReadSizes ==
    IF Sending THEN {n \in 0 .. BufSize : n = Left \/ (n = BufSize /\ n < Left)}
    ELSE {n \in 0 .. BufSize : n <= Left /\ (n = 0 => Left = 0)}

\* The chunk covers the front of the buffer, the rest stays as it was.
Fill(n) ==
    /\ buf' = [i \in 1 .. BufSize + 1 |-> IF i <= n THEN job.source[taken + i] ELSE buf[i]]
    /\ taken' = taken + n
    /\ ret' = n
    /\ pos' = 1
    /\ shrank' = (shrank \/ n < ret)

\* Mutant of Read: the end of the file does not end the loop.
ReadForEver ==
    /\ pc = "read"
    /\ \E n \in ReadSizes :
          /\ Fill(n)
          /\ pc' = "work"
    /\ UNCHANGED <<job, conv, size, out, shortWrite>>

Read ==
    /\ pc = "read"
    /\ \E n \in ReadSizes :
          \/ n = 0 /\ pc' = "done" /\ UNCHANGED <<taken, buf, ret, pos, shrank>>
          \/ n > 0 /\ pc' = "work" /\ Fill(n)
    /\ UNCHANGED <<job, conv, size, out, shortWrite>>

\* -3: a received file is unlinked.
ReadFails ==
    /\ pc = "read"
    /\ pc' = "failed"
    /\ out' = (IF Sending THEN out ELSE <<>>)
    /\ UNCHANGED <<job, taken, buf, ret, pos, conv, size, shortWrite, shrank>>

\* -4 and -5, or the SIGPIPE that comes first: a write to the socket or an
\* allocation fails.
SendFails ==
    /\ pc = "work" /\ Sending
    /\ pc' = "failed"
    /\ UNCHANGED <<job, taken, buf, ret, pos, conv, size, out, shortWrite, shrank>>

\* What write() may take of some bytes.  A socket takes all of them.  A disk that other
\* sessions fill and free at any time takes all, a part, or refuses.
Takes(bytes) == IF Sending THEN {Len(bytes)} ELSE 0 .. Len(bytes)

\* Mutant of Write: a write that is refused is passed over.
WriteUntested(bytes, next) ==
    \E n \in Takes(bytes) :
        /\ out' = out \o SubSeq(bytes, 1, n)
        /\ shortWrite' = (shortWrite \/ n \in 1 .. Len(bytes) - 1)
        /\ pc' = next

\* write() and the test of its result: only a refusal ends the transfer, a part counts
\* as a success and the rest of the bytes is dropped.
Write(bytes, next) ==
    \E n \in Takes(bytes) :
        /\ out' = out \o SubSeq(bytes, 1, n)
        /\ shortWrite' = (shortWrite \/ n \in 1 .. Len(bytes) - 1)
        /\ pc' = (IF bytes # <<>> /\ n = 0 THEN "failed" ELSE next)

\* send_binary_file and read_binary_file
CopyChunk ==
    /\ pc = "work" /\ Binary
    /\ Write(SubSeq(buf, 1, ret), "read")
    /\ UNCHANGED <<job, taken, buf, ret, pos, conv, size, shrank>>

-----------------------------------------------------------------------------
(* C strings in the buffer.                                                *)

\* strchr(buf + p, c) stops at i: there is a c, or the NUL that ends the string.
StrchrStops(p, c, i) ==
    /\ i \in p .. BufSize + 1
    /\ buf[i] \in {c, "nul"}
    /\ \A j \in p .. i - 1 : buf[j] \notin {c, "nul"}

Finds(p, c, i) == StrchrStops(p, c, i) /\ buf[i] = c
Ends(p, c, i) == StrchrStops(p, c, i) /\ buf[i] = "nul"

-----------------------------------------------------------------------------
(* send_ascii_file                                                         *)

\* Mutant of Grown: the final NUL is not counted.
GrownForgetsNul(length) ==
    CASE size = 0 -> 2 * BufSize
      [] size # 0 /\ size - Len(conv) < length + 2 -> 2 * size
      [] OTHER -> size

\* The size of with_cr_str once there is room for a line of the given length: the
\* first line allocates it and is not measured, a later one may double it.
Grown(length) ==
    CASE size = 0 -> 2 * BufSize
      [] size # 0 /\ size - Len(conv) < length + 3 -> 2 * size
      [] OTHER -> size

\* A LF may be found behind the chunk, in what an earlier one left.
AddLine ==
    /\ pc = "work" /\ Sending /\ ~Binary
    /\ pos <= ret
    /\ \E lf \in 1 .. BufSize + 1 :
          /\ Finds(pos, "lf", lf)
          /\ size' = Grown(lf - pos)
          /\ conv' = conv \o SubSeq(buf, pos, lf - 1) \o <<"cr", "lf">>
          /\ buf' = [buf EXCEPT ![lf] = "nul"]
          /\ pos' = lf + 1
    /\ UNCHANGED <<job, taken, pc, ret, out, shortWrite, shrank>>

NoMoreLines == pos > ret \/ \E i \in 1 .. BufSize + 1 : Ends(pos, "lf", i)

\* Mutant of FlushLines: the end of the chunk without a LF is forgotten.
FlushOnlyLines ==
    /\ pc = "work" /\ Sending /\ ~Binary
    /\ NoMoreLines /\ size > 0
    /\ Write(conv, "read")
    /\ conv' = <<>> /\ size' = 0
    /\ UNCHANGED <<job, taken, buf, ret, pos, shrank>>

\* The lines, then what follows the last of them in the chunk.  When the last LF was
\* found behind the chunk the length of the rest is negative and write() refuses it.
FlushLines ==
    /\ pc = "work" /\ Sending /\ ~Binary
    /\ NoMoreLines /\ size > 0
    /\ \/ pos <= ret + 1 /\ Write(conv \o SubSeq(buf, pos, ret), "read")
       \/ pos > ret + 1 /\ Write(conv, "failed")
    /\ conv' = <<>> /\ size' = 0
    /\ UNCHANGED <<job, taken, buf, ret, pos, shrank>>

\* A chunk without a line: the buffer is written up to its first NUL and cleared,
\* which the other branch does not do.
FlushString ==
    /\ pc = "work" /\ Sending /\ ~Binary
    /\ NoMoreLines /\ size = 0
    /\ \E i \in 1 .. BufSize + 1 : Ends(1, "nul", i) /\ Write(SubSeq(buf, 1, i - 1), "read")
    /\ buf' = EmptyBuffer
    /\ UNCHANGED <<job, taken, ret, pos, conv, size, shrank>>

-----------------------------------------------------------------------------
(* read_ascii_file                                                         *)

\* Mutant of StoreLine: the string goes on at the CR, now a NUL.
StoreLineStays ==
    /\ pc = "work" /\ ~Sending /\ ~Binary
    /\ \E cr \in 1 .. BufSize + 1 :
          /\ Finds(pos, "cr", cr)
          /\ Write(SubSeq(buf, pos, cr - 1), "work")
          /\ buf' = [buf EXCEPT ![cr] = "nul"]
          /\ pos' = cr
    /\ UNCHANGED <<job, taken, ret, conv, size, shrank>>

\* The text in front of a CR; the CR is dropped.
StoreLine ==
    /\ pc = "work" /\ ~Sending /\ ~Binary
    /\ \E cr \in 1 .. BufSize + 1 :
          /\ Finds(pos, "cr", cr)
          /\ Write(SubSeq(buf, pos, cr - 1), "work")
          /\ buf' = [buf EXCEPT ![cr] = "nul"]
          /\ pos' = cr + 1
    /\ UNCHANGED <<job, taken, ret, conv, size, shrank>>

\* The rest of the string, as long as the buffer makes it.
StoreRest ==
    /\ pc = "work" /\ ~Sending /\ ~Binary
    /\ \E i \in 1 .. BufSize + 1 : Ends(pos, "cr", i) /\ Write(SubSeq(buf, pos, i - 1), "read")
    /\ UNCHANGED <<job, taken, buf, ret, pos, conv, size, shrank>>

-----------------------------------------------------------------------------
SendStep == AddLine \/ FlushLines \/ FlushString
ReceiveStep == StoreLine \/ StoreRest
Progress == Read \/ CopyChunk \/ SendStep \/ ReceiveStep

Next == Progress \/ ReadFails \/ SendFails

Spec == Init /\ [][Next]_vars

\* The session's process is scheduled, and its peer sends, or takes, what is to be
\* transferred, or breaks the connection.
FairSpec == Spec /\ WF_vars(Progress)

-----------------------------------------------------------------------------
(* Properties.                                                             *)

\* Every variable holds a value of its kind.
TypeOK ==
    /\ job.dir \in {"send", "receive"} /\ job.type \in {"ascii", "binary"}
    /\ job.source \in Seq(Bytes)
    /\ taken \in 0 .. Len(job.source)
    /\ pc \in {"read", "work", "done", "failed"}
    /\ buf \in [1 .. BufSize + 1 -> Bytes]
    /\ ret \in 0 .. BufSize
    /\ pos \in 1 .. BufSize + 1
    /\ conv \in Seq(Bytes) /\ size \in Nat
    /\ out \in Seq(Bytes)
    /\ shortWrite \in BOOLEAN /\ shrank \in BOOLEAN

\* The lines of send_ascii_file and the NUL that ends them always fit in what has
\* been allocated for them, although the first line is never measured and a later
\* one doubles the memory once only; and no string leaves the buffer, whose last byte
\* stays NUL whatever is read into the others or written over them.
WithinMemory ==
    /\ conv # <<>> => Len(conv) + 1 <= size
    /\ buf[BufSize + 1] = "nul"

HasLF(bytes) == \E i \in DOMAIN bytes : bytes[i] = "lf"
NulFree(bytes) == \A i \in DOMAIN bytes : bytes[i] # "nul"

\* What the first n bytes become when each becomes its image.
Images(bytes, image) ==
    LET upTo[n \in 0 .. Len(bytes)] ==
            IF n = 0 THEN <<>> ELSE upTo[n - 1] \o image[bytes[n]]
    IN  upTo

\* What a line end is on either side.
ByteToNetwork == [b \in Bytes |-> IF b = "lf" THEN <<"cr", "lf">> ELSE <<b>>]
ByteToFile == [b \in Bytes |-> IF b = "cr" THEN <<>> ELSE <<b>>]
ToNetwork(file) == Images(file, ByteToNetwork)[Len(file)]
ToFile(bytes) == Images(bytes, ByteToFile)[Len(bytes)]

\* Unless the disk takes a part of a write only, which is not noticed, a binary
\* transfer has written nothing but the start of what was to be transferred, at any
\* time and however it fails, and all of it when it is reported complete.
BinaryExact ==
    Binary /\ ~shortWrite =>
        /\ IsPrefix(out, job.source)
        /\ pc = "done" => out = job.source

\* The last chunk of a file finds no text behind it: it is full, the only one, has a
\* line of its own, or follows a chunk after which the buffer was cleared.
NothingBehindLastChunk(file) ==
    \A k \in 0 .. Len(file) :
        LET start == k * BufSize
        IN  start < Len(file) /\ Len(file) < start + BufSize =>
                \/ start = 0
                \/ HasLF(SubSeq(file, start + 1, Len(file)))
                \/ ~HasLF(SubSeq(file, start - BufSize + 1, start))

\* A text without NULs is sent whole and in order, each LF as CR LF, wherever the
\* line ends fall in the chunks, as long as its last chunk finds no text behind it.
AsciiSentWhole ==
    pc = "done" /\ Sending /\ ~Binary
        /\ NulFree(job.source) /\ NothingBehindLastChunk(job.source) =>
    out = ToNetwork(job.source)

\* A text without NULs is stored whole and in order without its CRs, however they
\* fall in the chunks, as long as no chunk is shorter than the one before it and the disk
\* takes what is written whole or refuses it.
AsciiStoredWhole ==
    pc = "done" /\ ~Sending /\ ~Binary /\ NulFree(job.source) /\ ~shrank /\ ~shortWrite =>
    out = ToFile(job.source)

Stage == CASE pc = "work" -> 2 [] pc = "read" -> 1 [] OTHER -> 0

\* No loop of the four functions turns without getting on: a step reads more, or leaves
\* the chunk or the loop behind, or goes on in the chunk, which is finite.
EveryTurnAdvances ==
    [][\/ taken' > taken
       \/ taken' = taken /\ Stage' < Stage
       \/ taken' = taken /\ Stage' = Stage /\ pos' > pos]_vars

\* A transfer comes to an end, whatever the file holds and however it is cut.
TransferEnds == <>(pc \in {"done", "failed"})

-----------------------------------------------------------------------------
(* What the documentation says, and the code does not do.                  *)

\* dtp.h:141-142, read_ascii_file writes to the file what it reads on the connection;
\* here, on a disk that does not run short.
StoredIsWhatWasSent ==
    pc = "done" /\ ~Sending /\ ~Binary /\ NulFree(job.source) /\ ~shortWrite =>
    out = ToFile(job.source)
=============================================================================
