--------------------------- MODULE TransferProofs ---------------------------
(***************************************************************************)
(* Theorems of Transfer, for any size of the buffer, any file and any way  *)
(* of cutting it into chunks.                                              *)
(***************************************************************************)
EXTENDS Transfer, SequenceTheorems, WellFoundedInduction, TLAPS

-----------------------------------------------------------------------------
(* The invariants.                                                         *)

\* The memory behind with_cr_str is twice BUF_SIZE at least, once there is any.
Allocated ==
    /\ size = 0 => conv = <<>>
    /\ size # 0 => size >= 2 * BufSize /\ Len(conv) + 1 <= size

MemoryInv == TypeOK /\ WithinMemory /\ Allocated

\* What has been written is the first n bytes.
Delivered(n) == out = SubSeq(job.source, 1, n)

\* While a chunk waits to be written it is what was read last.
BinaryInv ==
    Binary /\ ~shortWrite =>
        /\ pc = "read" => Delivered(taken)
        /\ pc = "work" => /\ ret \in 1 .. taken
                          /\ Delivered(taken - ret)
                          /\ SubSeq(buf, 1, ret) = SubSeq(job.source, taken - ret + 1, taken)
        /\ pc = "done" => taken = Len(job.source) /\ Delivered(taken)
        /\ pc = "failed" => IsPrefix(out, job.source)

-----------------------------------------------------------------------------
(* Bytes of the buffer, and writing them.                                  *)

LEMMA Constants ==
    /\ BufSize \in Nat /\ BufSize >= 2
    /\ "cr" \in Bytes /\ "lf" \in Bytes /\ "nul" \in Bytes
BY TransferAssumption DEF Bytes

LEMMA BufferBytes ==
    ASSUME buf \in [1 .. BufSize + 1 -> Bytes],
           NEW p \in Nat \ {0}, NEW q \in 0 .. BufSize + 1
    PROVE  /\ SubSeq(buf, p, q) \in Seq(Bytes)
           /\ Len(SubSeq(buf, p, q)) = IF p <= q THEN q - p + 1 ELSE 0
           /\ \A i \in 1 .. q - p + 1 : SubSeq(buf, p, q)[i] = buf[p + i - 1]
<1>1. p \in Int /\ q \in Int
  OBVIOUS
<1>2. \A i \in p .. q : buf[i] \in Bytes
  BY Constants
<1>3. /\ SubSeq(buf, p, q) \in Seq(Bytes)
      /\ Len(SubSeq(buf, p, q)) = IF p <= q THEN q - p + 1 ELSE 0
      /\ \A i \in 1 .. q - p + 1 : SubSeq(buf, p, q)[i] = buf[p + i - 1]
  BY <1>1, <1>2, SubSeqProperties
<1> QED
  BY <1>3

LEMMA TakesSome ==
    ASSUME NEW bytes \in Seq(Bytes), NEW n \in Takes(bytes)
    PROVE  /\ Len(bytes) \in Nat /\ n \in 0 .. Len(bytes)
           /\ Sending => n = Len(bytes)
BY LenProperties DEF Takes

LEMMA WriteTypes ==
    ASSUME out \in Seq(Bytes), shortWrite \in BOOLEAN,
           NEW bytes \in Seq(Bytes), NEW next, Write(bytes, next)
    PROVE  out' \in Seq(Bytes) /\ shortWrite' \in BOOLEAN /\ pc' \in {"failed", next}
<1>1. PICK n \in Takes(bytes) :
         /\ out' = out \o SubSeq(bytes, 1, n)
         /\ shortWrite' = (shortWrite \/ n \in 1 .. Len(bytes) - 1)
         /\ pc' = (IF bytes # <<>> /\ n = 0 THEN "failed" ELSE next)
  BY DEF Write
<1>2. SubSeq(bytes, 1, n) \in Seq(Bytes)
  <2>1. n \in Nat /\ n <= Len(bytes) /\ Len(bytes) \in Nat
    BY TakesSome
  <2>2. \A i \in 1 .. n : bytes[i] \in Bytes
    BY <2>1, ElementOfSeq
  <2>3. 1 \in Int /\ n \in Int
    BY <2>1
  <2> QED
    BY <2>2, <2>3, SubSeqProperties, Zenon
<1>3. out' \in Seq(Bytes)
  BY <1>1, <1>2, ConcatProperties, Zenon
<1>4. shortWrite' \in BOOLEAN
  BY <1>1, Zenon
<1>5. pc' \in {"failed", next}
  BY <1>1
<1> QED
  BY <1>3, <1>4, <1>5

-----------------------------------------------------------------------------
(* Types and memory.                                                       *)

LEMMA InitMemory == Init => MemoryInv
<1> SUFFICES ASSUME Init PROVE MemoryInv
  OBVIOUS
<1>1. job.dir \in {"send", "receive"} /\ job.type \in {"ascii", "binary"}
  BY DEF Init
<1>2. job.source \in Seq(Bytes)
  <2>1. job.source \in Sources
    BY DEF Init
  <2>2. PICK n \in 0 .. MaxLength : job.source \in [1 .. n -> Bytes]
    BY <2>1 DEF Sources
  <2>3. n \in Nat
    BY TransferAssumption
  <2> QED
    BY <2>2, <2>3, SeqDef
<1>3. taken \in 0 .. Len(job.source)
  BY <1>2, LenProperties DEF Init
<1>4. buf \in [1 .. BufSize + 1 -> Bytes] /\ buf[BufSize + 1] = "nul"
  BY Constants DEF Init, EmptyBuffer
<1>5. shortWrite \in BOOLEAN
  BY DEF Init
<1>6. <<>> \in Seq(Bytes)
  BY EmptySeq
<1>7. ret \in 0 .. BufSize /\ pos \in 1 .. BufSize + 1
  BY Constants DEF Init
<1>8. pc = "read" /\ conv = <<>> /\ size = 0 /\ out = <<>> /\ shrank \in BOOLEAN
  BY DEF Init
<1> QED
  BY <1>1, <1>2, <1>3, <1>4, <1>5, <1>6, <1>7, <1>8 DEF MemoryInv, TypeOK, WithinMemory, Allocated

\* A chunk leaves the last byte of the buffer alone.
LEMMA ReadMemory ==
    ASSUME MemoryInv, Read
    PROVE  MemoryInv'
<1> USE DEF MemoryInv
<1>1. PICK n \in ReadSizes :
         \/ n = 0 /\ pc' = "done" /\ UNCHANGED <<taken, buf, ret, pos, shrank>>
         \/ n > 0 /\ pc' = "work" /\ Fill(n)
  BY DEF Read
<1>2. UNCHANGED <<job, conv, size, out, shortWrite>>
  BY DEF Read
<1>3. CASE n = 0 /\ pc' = "done" /\ UNCHANGED <<taken, buf, ret, pos, shrank>>
  BY <1>2, <1>3 DEF TypeOK, WithinMemory, Allocated
<1>4. CASE n > 0 /\ pc' = "work" /\ Fill(n)
  <2>1. Len(job.source) \in Nat /\ taken \in 0 .. Len(job.source) /\ job.source \in Seq(Bytes)
    BY LenProperties DEF TypeOK
  <2>2. n \in 0 .. BufSize /\ n <= Len(job.source) - taken
    BY <2>1, Constants DEF ReadSizes, Left
  <2>3. taken' \in 0 .. Len(job.source) /\ ret' \in 0 .. BufSize /\ pos' \in 1 .. BufSize + 1
    BY <1>4, <2>1, <2>2, Constants DEF Fill
  <2>4. \A i \in 1 .. n : job.source[taken + i] \in Bytes
    BY <2>1, <2>2, ElementOfSeq
  <2>5. buf' \in [1 .. BufSize + 1 -> Bytes]
    BY <1>4, <2>2, <2>4, Constants DEF Fill, TypeOK
  <2>6. buf'[BufSize + 1] = "nul"
    BY <1>4, <2>2, Constants DEF Fill, TypeOK, WithinMemory
  <2>7. shrank' \in BOOLEAN
    BY <1>4 DEF Fill
  <2> QED
    BY <1>2, <1>4, <2>3, <2>5, <2>6, <2>7 DEF TypeOK, WithinMemory, Allocated
<1> QED
  BY <1>1, <1>3, <1>4

\* A line is at most BUF_SIZE - 1 long, so that the first fits in what is allocated
\* for it, and any other in twice what was there.
LEMMA LineFits ==
    ASSUME MemoryInv, NEW length \in 0 .. BufSize - 1
    PROVE  /\ Grown(length) \in Nat /\ Grown(length) >= 2 * BufSize
           /\ Len(conv) + length + 3 <= Grown(length)
<1>1. Len(conv) \in Nat /\ size \in Nat
  BY LenProperties DEF MemoryInv, TypeOK
<1>2. CASE size = 0
  <2>1. Len(conv) = 0
    BY <1>2, EmptySeq DEF MemoryInv, Allocated
  <2>2. Grown(length) = 2 * BufSize
    BY <1>2 DEF Grown
  <2> QED
    BY <2>1, <2>2, Constants
<1>3. CASE size # 0
  <2>1. size >= 2 * BufSize /\ Len(conv) + 1 <= size
    BY <1>3 DEF MemoryInv, Allocated
  <2>2. CASE size - Len(conv) < length + 3
    <3>1. Grown(length) = 2 * size
      BY <1>3, <2>2 DEF Grown
    <3> QED
      BY <1>1, <2>1, <3>1, Constants
  <2>3. CASE ~(size - Len(conv) < length + 3)
    <3>1. Grown(length) = size
      BY <1>3, <2>3 DEF Grown
    <3> QED
      BY <1>1, <2>1, <2>3, <3>1, Constants
  <2> QED
    BY <2>2, <2>3
<1> QED
  BY <1>2, <1>3

\* strchr finds a byte in front of the last one of the buffer.
LEMMA FoundBeforeEnd ==
    ASSUME TypeOK, WithinMemory, NEW c \in {"cr", "lf"}, NEW i \in 1 .. BufSize + 1,
           Finds(pos, c, i)
    PROVE  /\ i \in pos .. BufSize
           /\ [buf EXCEPT ![i] = "nul"] \in [1 .. BufSize + 1 -> Bytes]
           /\ [buf EXCEPT ![i] = "nul"][BufSize + 1] = "nul"
<1>1. pos \in 1 .. BufSize + 1 /\ i \in pos .. BufSize + 1 /\ buf[i] # "nul"
  BY DEF Finds, StrchrStops, TypeOK
<1>2. i # BufSize + 1
  BY <1>1 DEF WithinMemory
<1> QED
  BY <1>1, <1>2, Constants DEF TypeOK, WithinMemory

LEMMA AddLineMemory ==
    ASSUME MemoryInv, AddLine
    PROVE  MemoryInv'
<1> USE DEF MemoryInv
<1>1. PICK lf \in 1 .. BufSize + 1 :
         /\ Finds(pos, "lf", lf)
         /\ size' = Grown(lf - pos)
         /\ conv' = conv \o SubSeq(buf, pos, lf - 1) \o <<"cr", "lf">>
         /\ buf' = [buf EXCEPT ![lf] = "nul"]
         /\ pos' = lf + 1
  BY DEF AddLine
<1>2. pc = "work" /\ UNCHANGED <<job, taken, pc, ret, out, shortWrite, shrank>>
  BY DEF AddLine
<1>3. /\ lf \in pos .. BufSize
      /\ buf' \in [1 .. BufSize + 1 -> Bytes] /\ buf'[BufSize + 1] = "nul"
  BY <1>1, FoundBeforeEnd
<1>4. pos \in 1 .. BufSize + 1
  BY DEF TypeOK
<1>5. pos' \in 1 .. BufSize + 1
  BY <1>1, <1>3, <1>4, Constants
<1>6. /\ SubSeq(buf, pos, lf - 1) \in Seq(Bytes)
      /\ Len(SubSeq(buf, pos, lf - 1)) = lf - pos
  <2>1. pos \in Nat \ {0} /\ lf - 1 \in 0 .. BufSize + 1
    BY <1>3, <1>4, Constants
  <2>2. /\ SubSeq(buf, pos, lf - 1) \in Seq(Bytes)
        /\ Len(SubSeq(buf, pos, lf - 1)) = IF pos <= lf - 1 THEN (lf - 1) - pos + 1 ELSE 0
    BY <2>1, BufferBytes DEF TypeOK
  <2> QED
    BY <2>2, <1>3, <1>4, Constants
<1>7. <<"cr", "lf">> \in Seq(Bytes) /\ Len(<<"cr", "lf">>) = 2
  BY Constants
<1>8. conv \in Seq(Bytes) /\ Len(conv) \in Nat
  BY LenProperties DEF TypeOK
<1>9. conv' \in Seq(Bytes) /\ Len(conv') = Len(conv) + (lf - pos) + 2
  <2> DEFINE line == SubSeq(buf, pos, lf - 1)
  <2>1. conv \o line \in Seq(Bytes) /\ Len(conv \o line) = Len(conv) + Len(line)
    BY <1>6, <1>8, ConcatProperties, Zenon
  <2> HIDE DEF line
  <2>2. /\ (conv \o line) \o <<"cr", "lf">> \in Seq(Bytes)
        /\ Len((conv \o line) \o <<"cr", "lf">>) = Len(conv \o line) + Len(<<"cr", "lf">>)
    BY <2>1, <1>7, ConcatProperties, Zenon
  <2>3. conv' = (conv \o line) \o <<"cr", "lf">>
    BY <1>1 DEF line
  <2>4. Len(line) = lf - pos
    BY <1>6 DEF line
  <2> QED
    BY <2>1, <2>2, <2>3, <2>4, <1>7, Zenon
<1>10. lf - pos \in 0 .. BufSize - 1
  BY <1>3, <1>4, Constants
<1>11. /\ size' \in Nat /\ size' >= 2 * BufSize
       /\ Len(conv) + (lf - pos) + 3 <= size'
  BY <1>1, <1>10, LineFits
<1>12. Len(conv') + 1 <= size' /\ size' # 0
  BY <1>8, <1>9, <1>10, <1>11, Constants
<1> QED
  BY <1>2, <1>3, <1>5, <1>9, <1>11, <1>12 DEF TypeOK, WithinMemory, Allocated

-----------------------------------------------------------------------------
(* The steps that write.                                                   *)

\* A step that writes bytes of the buffer or of the lines, and leaves what it was
\* reading alone, or cleared.
LEMMA WriteMemory ==
    ASSUME MemoryInv,
           NEW bytes \in Seq(Bytes), NEW next \in {"read", "work", "failed"},
           Write(bytes, next),
           UNCHANGED <<job, taken, ret, shrank>>,
           buf' \in [1 .. BufSize + 1 -> Bytes], buf'[BufSize + 1] = "nul",
           pos' \in 1 .. BufSize + 1,
           UNCHANGED <<conv, size>> \/ (conv' = <<>> /\ size' = 0)
    PROVE  MemoryInv'
<1> USE DEF MemoryInv
<1>1. out' \in Seq(Bytes) /\ shortWrite' \in BOOLEAN /\ pc' \in {"failed", "read", "work"}
  <2>1. out \in Seq(Bytes) /\ shortWrite \in BOOLEAN
    BY DEF TypeOK
  <2> QED
    BY <2>1, WriteTypes
<1>2. conv' \in Seq(Bytes) /\ size' \in Nat /\ Allocated' /\ (conv' # <<>> => Len(conv') + 1 <= size')
  <2>1. CASE UNCHANGED <<conv, size>>
    BY <2>1 DEF TypeOK, Allocated, WithinMemory
  <2>2. CASE conv' = <<>> /\ size' = 0
    BY <2>2, EmptySeq DEF Allocated
  <2> QED
    BY <2>1, <2>2
<1> QED
  BY <1>1, <1>2 DEF TypeOK, WithinMemory

LEMMA CopyChunkMemory ==
    ASSUME MemoryInv, CopyChunk
    PROVE  MemoryInv'
<1>1. SubSeq(buf, 1, ret) \in Seq(Bytes)
  BY BufferBytes, Constants DEF MemoryInv, TypeOK
<1>2. /\ Write(SubSeq(buf, 1, ret), "read")
      /\ UNCHANGED <<job, taken, buf, ret, pos, conv, size, shrank>>
  BY DEF CopyChunk
<1>3. buf' \in [1 .. BufSize + 1 -> Bytes] /\ buf'[BufSize + 1] = "nul" /\ pos' \in 1 .. BufSize + 1
  BY <1>2 DEF MemoryInv, TypeOK, WithinMemory
<1> QED
  BY <1>1, <1>2, <1>3, WriteMemory

LEMMA FlushLinesMemory ==
    ASSUME MemoryInv, FlushLines
    PROVE  MemoryInv'
<1>1. /\ UNCHANGED <<job, taken, buf, ret, pos, shrank>>
      /\ conv' = <<>> /\ size' = 0
  BY DEF FlushLines
<1>2. buf' \in [1 .. BufSize + 1 -> Bytes] /\ buf'[BufSize + 1] = "nul" /\ pos' \in 1 .. BufSize + 1
  BY <1>1 DEF MemoryInv, TypeOK, WithinMemory
<1>3. conv \in Seq(Bytes)
  BY DEF MemoryInv, TypeOK
<1>4. CASE Write(conv \o SubSeq(buf, pos, ret), "read")
  <2>1. SubSeq(buf, pos, ret) \in Seq(Bytes)
    BY BufferBytes, Constants DEF MemoryInv, TypeOK
  <2>2. conv \o SubSeq(buf, pos, ret) \in Seq(Bytes)
    BY <1>3, <2>1, ConcatProperties, Zenon
  <2> QED
    BY <1>1, <1>2, <1>4, <2>2, WriteMemory
<1>5. CASE Write(conv, "failed")
  BY <1>1, <1>2, <1>3, <1>5, WriteMemory
<1> QED
  BY <1>4, <1>5 DEF FlushLines

LEMMA FlushStringMemory ==
    ASSUME MemoryInv, FlushString
    PROVE  MemoryInv'
<1>1. PICK i \in 1 .. BufSize + 1 : Write(SubSeq(buf, 1, i - 1), "read")
  BY DEF FlushString
<1>2. UNCHANGED <<job, taken, ret, pos, conv, size, shrank>> /\ buf' = EmptyBuffer
  BY DEF FlushString
<1>3. buf' \in [1 .. BufSize + 1 -> Bytes] /\ buf'[BufSize + 1] = "nul" /\ pos' \in 1 .. BufSize + 1
  BY <1>2, Constants DEF EmptyBuffer, MemoryInv, TypeOK
<1>4. SubSeq(buf, 1, i - 1) \in Seq(Bytes)
  BY BufferBytes, Constants DEF MemoryInv, TypeOK
<1> QED
  BY <1>1, <1>2, <1>3, <1>4, WriteMemory

LEMMA StoreLineMemory ==
    ASSUME MemoryInv, StoreLine
    PROVE  MemoryInv'
<1>1. PICK cr \in 1 .. BufSize + 1 :
         /\ Finds(pos, "cr", cr)
         /\ Write(SubSeq(buf, pos, cr - 1), "work")
         /\ buf' = [buf EXCEPT ![cr] = "nul"]
         /\ pos' = cr + 1
  BY DEF StoreLine
<1>2. UNCHANGED <<job, taken, ret, conv, size, shrank>>
  BY DEF StoreLine
<1>3. cr \in pos .. BufSize /\ pos \in 1 .. BufSize + 1
  BY <1>1, FoundBeforeEnd DEF MemoryInv, TypeOK
<1>4. /\ buf' \in [1 .. BufSize + 1 -> Bytes] /\ buf'[BufSize + 1] = "nul"
      /\ pos' \in 1 .. BufSize + 1
  <2>1. buf' \in [1 .. BufSize + 1 -> Bytes] /\ buf'[BufSize + 1] = "nul"
    BY <1>1, FoundBeforeEnd DEF MemoryInv
  <2> QED
    BY <1>1, <1>3, <2>1, Constants
<1>5. SubSeq(buf, pos, cr - 1) \in Seq(Bytes)
  <2>1. pos \in Nat \ {0} /\ cr - 1 \in 0 .. BufSize + 1
    BY <1>3, Constants
  <2> QED
    BY <2>1, BufferBytes DEF MemoryInv, TypeOK
<1> QED
  BY <1>1, <1>2, <1>4, <1>5, WriteMemory

LEMMA StoreRestMemory ==
    ASSUME MemoryInv, StoreRest
    PROVE  MemoryInv'
<1>1. PICK i \in 1 .. BufSize + 1 : Write(SubSeq(buf, pos, i - 1), "read")
  BY DEF StoreRest
<1>2. UNCHANGED <<job, taken, buf, ret, pos, conv, size, shrank>>
  BY DEF StoreRest
<1>3. buf' \in [1 .. BufSize + 1 -> Bytes] /\ buf'[BufSize + 1] = "nul" /\ pos' \in 1 .. BufSize + 1
  BY <1>2 DEF MemoryInv, TypeOK, WithinMemory
<1>4. SubSeq(buf, pos, i - 1) \in Seq(Bytes)
  <2>1. pos \in Nat \ {0} /\ i - 1 \in 0 .. BufSize + 1
    BY Constants DEF MemoryInv, TypeOK
  <2> QED
    BY <2>1, BufferBytes DEF MemoryInv, TypeOK
<1> QED
  BY <1>1, <1>2, <1>3, <1>4, WriteMemory

\* A failure frees the lines and leaves their variables as they are.
LEMMA FailureMemory ==
    ASSUME MemoryInv, ReadFails \/ SendFails
    PROVE  MemoryInv'
<1>1. /\ pc' = "failed"
      /\ UNCHANGED <<job, taken, buf, ret, pos, conv, size, shortWrite, shrank>>
      /\ out' = out \/ out' = <<>>
  BY DEF ReadFails, SendFails
<1>2. out' \in Seq(Bytes)
  BY <1>1, EmptySeq DEF MemoryInv, TypeOK
<1> QED
  BY <1>1, <1>2 DEF MemoryInv, TypeOK, WithinMemory, Allocated

LEMMA NextMemory ==
    ASSUME MemoryInv, [Next]_vars
    PROVE  MemoryInv'
<1>1. CASE Read
  BY <1>1, ReadMemory
<1>2. CASE CopyChunk
  BY <1>2, CopyChunkMemory
<1>3. CASE AddLine
  BY <1>3, AddLineMemory
<1>4. CASE FlushLines
  BY <1>4, FlushLinesMemory
<1>5. CASE FlushString
  BY <1>5, FlushStringMemory
<1>6. CASE StoreLine
  BY <1>6, StoreLineMemory
<1>7. CASE StoreRest
  BY <1>7, StoreRestMemory
<1>8. CASE ReadFails \/ SendFails
  BY <1>8, FailureMemory
<1>9. CASE UNCHANGED vars
  BY <1>9 DEF vars, MemoryInv, TypeOK, WithinMemory, Allocated
<1> QED
  BY <1>1, <1>2, <1>3, <1>4, <1>5, <1>6, <1>7, <1>8, <1>9
     DEF Next, Progress, SendStep, ReceiveStep

LEMMA AlwaysMemory == Spec => []MemoryInv
BY InitMemory, NextMemory, PTL DEF Spec

\* The variables of a transfer hold values of their kinds, for any buffer size and
\* files of any length.
THEOREM TypeCorrect == Spec => []TypeOK
<1>1. MemoryInv => TypeOK
  BY DEF MemoryInv
<1> QED
  BY <1>1, AlwaysMemory, PTL

\* Whatever the file and the size of the buffer, the lines of send_ascii_file fit in
\* the memory allocated for them, and the buffer's last byte stays NUL.
THEOREM StringsFitMemory == Spec => []WithinMemory
<1>1. MemoryInv => WithinMemory
  BY DEF MemoryInv
<1> QED
  BY <1>1, AlwaysMemory, PTL

-----------------------------------------------------------------------------
(* Binary transfers.                                                       *)

LEMMA InitBinary == Init => BinaryInv
<1> SUFFICES ASSUME Init PROVE BinaryInv
  OBVIOUS
<1>1. pc = "read" /\ taken = 0 /\ out = <<>>
  BY DEF Init
<1>2. SubSeq(job.source, 1, 0) = <<>>
  BY SubSeqEmpty
<1>3. Delivered(taken)
  BY <1>1, <1>2 DEF Delivered
<1> QED
  BY <1>1, <1>3 DEF BinaryInv

LEMMA ReadBinary ==
    ASSUME TypeOK, BinaryInv, Binary, ~shortWrite, Read
    PROVE  BinaryInv'
<1>1. pc = "read" /\ UNCHANGED <<job, conv, size, out, shortWrite>>
  BY DEF Read
<1>2. Delivered(taken)
  BY <1>1 DEF BinaryInv
<1>4. PICK n \in ReadSizes :
         \/ n = 0 /\ pc' = "done" /\ UNCHANGED <<taken, buf, ret, pos, shrank>>
         \/ n > 0 /\ pc' = "work" /\ Fill(n)
  BY DEF Read
<1>5. /\ job.source \in Seq(Bytes) /\ Len(job.source) \in Nat
      /\ taken \in 0 .. Len(job.source)
  BY LenProperties DEF TypeOK
<1>6. n \in 0 .. BufSize /\ n <= Len(job.source) - taken /\ (n = 0 => taken = Len(job.source))
  BY <1>5, Constants DEF ReadSizes, Left
<1>7. CASE n = 0 /\ pc' = "done" /\ UNCHANGED <<taken, buf, ret, pos, shrank>>
  <2>1. Delivered(taken)'
    BY <1>1, <1>2, <1>7 DEF Delivered
  <2>2. (taken = Len(job.source))'
    BY <1>1, <1>6, <1>7
  <2> QED
    BY <1>7, <2>1, <2>2 DEF BinaryInv
<1>8. CASE n > 0 /\ pc' = "work" /\ Fill(n)
  <2>1. taken' = taken + n /\ ret' = n
    BY <1>8 DEF Fill
  <2>2. (ret \in 1 .. taken)'
    BY <1>5, <1>6, <1>8, <2>1, Constants
  <2>3. taken' - ret' = taken
    BY <1>5, <1>6, <2>1, Constants
  <2>4. Delivered(taken - ret)'
    BY <1>1, <1>2, <2>3 DEF Delivered
  <2>5. SubSeq(buf', 1, n) = SubSeq(job.source, taken + 1, taken + n)
    <3>1. /\ SubSeq(buf', 1, n) \in Seq(Bytes)
          /\ Len(SubSeq(buf', 1, n)) = n
          /\ \A i \in 1 .. n : SubSeq(buf', 1, n)[i] = job.source[taken + i]
      <4>1. \A i \in 1 .. n : buf'[i] = job.source[taken + i]
        BY <1>6, <1>8, Constants DEF Fill
      <4>2. \A i \in 1 .. n : buf'[i] \in Bytes
        BY <4>1, <1>5, <1>6, ElementOfSeq
      <4>3. 1 \in Int /\ n \in Int
        BY <1>6, Constants
      <4>4. /\ SubSeq(buf', 1, n) \in Seq(Bytes)
            /\ Len(SubSeq(buf', 1, n)) = IF 1 <= n THEN n - 1 + 1 ELSE 0
            /\ \A i \in 1 .. n - 1 + 1 : SubSeq(buf', 1, n)[i] = buf'[1 + i - 1]
        BY <4>2, <4>3, SubSeqProperties
      <4> QED
        BY <1>6, <1>8, <4>1, <4>4, Constants
    <3>2. /\ SubSeq(job.source, taken + 1, taken + n) \in Seq(Bytes)
          /\ Len(SubSeq(job.source, taken + 1, taken + n)) = n
          /\ \A i \in 1 .. n : SubSeq(job.source, taken + 1, taken + n)[i] = job.source[taken + i]
      <4>1. \A i \in taken + 1 .. taken + n : job.source[i] \in Bytes
        BY <1>5, <1>6, Constants, ElementOfSeq
      <4>2. taken + 1 \in Int /\ taken + n \in Int
        BY <1>5, <1>6, Constants
      <4>3. /\ SubSeq(job.source, taken + 1, taken + n) \in Seq(Bytes)
            /\ Len(SubSeq(job.source, taken + 1, taken + n)) =
                 IF taken + 1 <= taken + n THEN (taken + n) - (taken + 1) + 1 ELSE 0
            /\ \A i \in 1 .. (taken + n) - (taken + 1) + 1 :
                 SubSeq(job.source, taken + 1, taken + n)[i] = job.source[taken + 1 + i - 1]
        BY <4>1, <4>2, SubSeqProperties
      <4> QED
        BY <1>5, <1>6, <1>8, <4>3, Constants
    <3> QED
      BY <3>1, <3>2, SeqEqual
  <2>6. (SubSeq(buf, 1, ret) = SubSeq(job.source, taken - ret + 1, taken))'
    <3>1. taken' - ret' + 1 = taken + 1 /\ taken' = taken + n /\ ret' = n /\ job' = job
      BY <1>1, <2>1, <2>3
    <3> QED
      BY <2>5, <3>1
  <2> QED
    BY <1>8, <2>2, <2>4, <2>6 DEF BinaryInv
<1> QED
  BY <1>4, <1>7, <1>8

LEMMA PartIsPrefix ==
    ASSUME TypeOK, NEW n \in 0 .. Len(job.source), Delivered(n)
    PROVE  /\ IsPrefix(out, job.source)
           /\ n = Len(job.source) => out = job.source
<1>1. job.source \in Seq(Bytes) /\ out \in Seq(Bytes) /\ Len(job.source) \in Nat
  BY LenProperties DEF TypeOK
<1>2. Len(out) = n
  <2>1. n \in Int /\ 1 \in Int /\ \A i \in 1 .. n : job.source[i] \in Bytes
    BY <1>1, ElementOfSeq
  <2>2. Len(SubSeq(job.source, 1, n)) = IF 1 <= n THEN n - 1 + 1 ELSE 0
    BY <2>1, SubSeqProperties
  <2> QED
    BY <1>1, <2>2 DEF Delivered
<1>3. SubSeq(out, 1, Len(out)) = out
  BY <1>1, SubSeqFull
<1>4. IsPrefix(out, job.source)
  BY <1>1, <1>2, <1>3 DEF IsPrefix, Delivered
<1>5. SubSeq(job.source, 1, Len(job.source)) = job.source
  BY <1>1, SubSeqFull
<1> QED
  BY <1>4, <1>5 DEF Delivered

\* When write() takes the chunk whole it continues what has been written; when it
\* refuses it, what has been written stays.
LEMMA CopyBinary ==
    ASSUME TypeOK, BinaryInv, Binary, ~shortWrite, CopyChunk
    PROVE  BinaryInv'
<1> SUFFICES ASSUME ~shortWrite' PROVE BinaryInv'
  BY DEF BinaryInv
<1> DEFINE chunk == SubSeq(buf, 1, ret)
<1>1. pc = "work" /\ UNCHANGED <<job, taken, ret>>
  BY DEF CopyChunk
<1>2. /\ ret \in 1 .. taken
      /\ Delivered(taken - ret)
      /\ chunk = SubSeq(job.source, taken - ret + 1, taken)
  BY <1>1 DEF BinaryInv
<1>3. /\ job.source \in Seq(Bytes) /\ Len(job.source) \in Nat /\ out \in Seq(Bytes)
      /\ taken \in 0 .. Len(job.source) /\ ret \in 0 .. BufSize
  BY LenProperties DEF TypeOK
<1>4. chunk \in Seq(Bytes) /\ Len(chunk) = ret /\ chunk # <<>>
  <2>1. ret \in 0 .. BufSize + 1 /\ 1 \in Nat \ {0} /\ buf \in [1 .. BufSize + 1 -> Bytes]
    BY <1>3, Constants DEF TypeOK
  <2>2. chunk \in Seq(Bytes) /\ Len(chunk) = IF 1 <= ret THEN ret - 1 + 1 ELSE 0
    BY <2>1, BufferBytes
  <2>3. Len(chunk) = ret /\ ret # 0
    BY <1>2, <1>3, <2>2
  <2> QED
    BY <2>2, <2>3, EmptySeq
<1>5. PICK n \in Takes(chunk) :
         /\ out' = out \o SubSeq(chunk, 1, n)
         /\ shortWrite' = (shortWrite \/ n \in 1 .. Len(chunk) - 1)
         /\ pc' = (IF chunk # <<>> /\ n = 0 THEN "failed" ELSE "read")
  BY DEF CopyChunk, Write
<1> HIDE DEF chunk
<1>6. n = 0 \/ n = ret
  <2>1. n \in 0 .. ret
    BY <1>4, TakesSome
  <2>2. ~(n \in 1 .. ret - 1)
    BY <1>4, <1>5, Zenon
  <2> QED
    BY <1>3, <2>1, <2>2
<1>7. CASE n = 0
  <2>1. pc' = "failed"
    BY <1>4, <1>5, <1>7
  <2>2. SubSeq(chunk, 1, 0) = <<>>
    BY SubSeqEmpty
  <2>3. out' = out
    BY <1>3, <1>5, <1>7, <2>2, ConcatEmptySeq
  <2>4. IsPrefix(out, job.source)
    <3>1. taken - ret \in 0 .. Len(job.source)
      BY <1>2, <1>3
    <3> QED
      BY <1>2, <3>1, PartIsPrefix
  <2> QED
    BY <1>1, <2>1, <2>3, <2>4 DEF BinaryInv
<1>8. CASE n = ret
  <2>1. SubSeq(chunk, 1, n) = chunk
    BY <1>4, <1>8, SubSeqFull
  <2>2. /\ 1 \in 1 .. Len(job.source) + 1
        /\ taken - ret \in 1 - 1 .. Len(job.source) /\ taken \in taken - ret .. Len(job.source)
    BY <1>2, <1>3
  <2>3. SubSeq(job.source, 1, taken - ret) \o SubSeq(job.source, taken - ret + 1, taken)
          = SubSeq(job.source, 1, taken)
    BY <1>3, <2>2, ConcatAdjacentSubSeq
  <2>4. out' = SubSeq(job.source, 1, taken)
    BY <1>2, <1>5, <2>1, <2>3 DEF Delivered
  <2>5. Delivered(taken)'
    BY <1>1, <2>4 DEF Delivered
  <2>6. pc' = "read"
    <3>1. n # 0
      BY <1>2, <1>3, <1>8
    <3> QED
      BY <1>5, <3>1
  <2> QED
    BY <2>5, <2>6 DEF BinaryInv
<1> QED
  BY <1>6, <1>7, <1>8

\* A short write stays on record.
LEMMA ShortWriteStays ==
    ASSUME [Next]_vars, shortWrite
    PROVE  shortWrite'
BY DEF Next, vars, Progress, SendStep, ReceiveStep, Read, CopyChunk, AddLine, FlushLines,
       FlushString, StoreLine, StoreRest, ReadFails, SendFails, Write

LEMMA FailureBinary ==
    ASSUME TypeOK, BinaryInv, Binary, ~shortWrite, ReadFails \/ SendFails
    PROVE  BinaryInv'
<1>1. /\ pc \in {"read", "work"} /\ pc' = "failed" /\ job' = job
      /\ out' = out \/ out' = <<>>
  BY DEF ReadFails, SendFails
<1>2. /\ job.source \in Seq(Bytes) /\ Len(job.source) \in Nat
      /\ taken \in 0 .. Len(job.source) /\ ret \in 0 .. BufSize
  BY LenProperties DEF TypeOK
<1>3. IsPrefix(out, job.source)
  <2>1. PICK n \in 0 .. Len(job.source) : Delivered(n)
    <3>1. CASE pc = "read"
      BY <1>2, <3>1 DEF BinaryInv
    <3>2. CASE pc = "work"
      <4>1. ret \in 1 .. taken /\ Delivered(taken - ret)
        BY <3>2 DEF BinaryInv
      <4>2. taken - ret \in 0 .. Len(job.source)
        BY <1>2, <4>1
      <4> QED
        BY <4>1, <4>2
    <3> QED
      BY <1>1, <3>1, <3>2
  <2> QED
    BY <2>1, PartIsPrefix
<1>4. IsPrefix(<<>>, job.source)
  <2>1. SubSeq(job.source, 1, 0) = <<>> /\ Len(<<>>) = 0
    BY SubSeqEmpty
  <2> QED
    BY <1>2, <2>1 DEF IsPrefix
<1> QED
  BY <1>1, <1>3, <1>4 DEF BinaryInv

\* The other steps that write are steps of an ASCII transfer.
LEMMA NextBinary ==
    ASSUME TypeOK, BinaryInv, [Next]_vars
    PROVE  BinaryInv'
<1>1. job' = job
  BY DEF Next, vars, Progress, SendStep, ReceiveStep, Read, CopyChunk, AddLine, FlushLines,
         FlushString, StoreLine, StoreRest, ReadFails, SendFails
<1>2. CASE ~Binary \/ shortWrite
  BY <1>1, <1>2, ShortWriteStays DEF BinaryInv, Binary
<1>3. CASE Binary /\ ~shortWrite
  <2>1. CASE Read
    BY <1>3, <2>1, ReadBinary
  <2>2. CASE CopyChunk
    BY <1>3, <2>2, CopyBinary
  <2>3. CASE ReadFails \/ SendFails
    BY <1>3, <2>3, FailureBinary
  <2>4. CASE UNCHANGED vars
    BY <2>4 DEF vars, BinaryInv, Binary, Delivered
  <2> QED
    BY <1>3, <2>1, <2>2, <2>3, <2>4 DEF Next, Progress, SendStep, ReceiveStep,
       AddLine, FlushLines, FlushString, StoreLine, StoreRest
<1> QED
  BY <1>2, <1>3

\* As long as every write to the disk is taken whole or refused, a binary transfer has
\* written a prefix of what is transferred, at any time and however it ends, and all of
\* it when it is reported complete: for any size of the buffer, any file, and any way
\* in which the connection cuts it.
THEOREM BinaryAlwaysExact == Spec => []BinaryExact
<1>1. Spec => []TypeOK
  BY TypeCorrect
<1>2. TypeOK /\ BinaryInv /\ [Next]_vars => BinaryInv'
  BY NextBinary
<1>3. TypeOK /\ BinaryInv => BinaryExact
  <2> SUFFICES ASSUME TypeOK, BinaryInv, Binary, ~shortWrite
               PROVE  IsPrefix(out, job.source) /\ (pc = "done" => out = job.source)
    BY DEF BinaryExact
  <2>1. job.source \in Seq(Bytes) /\ Len(job.source) \in Nat /\ taken \in 0 .. Len(job.source)
    BY LenProperties DEF TypeOK
  <2>2. CASE pc = "read"
    BY <2>1, <2>2, PartIsPrefix DEF BinaryInv
  <2>3. CASE pc = "work"
    <3>1. Delivered(taken - ret) /\ taken - ret \in 0 .. Len(job.source)
      BY <2>1, <2>3 DEF BinaryInv
    <3> QED
      BY <2>3, <3>1, PartIsPrefix
  <2>4. CASE pc = "done"
    BY <2>1, <2>4, PartIsPrefix DEF BinaryInv
  <2>5. CASE pc = "failed"
    BY <2>5 DEF BinaryInv
  <2> QED
    BY <2>2, <2>3, <2>4, <2>5 DEF TypeOK
<1> QED
  BY <1>1, <1>2, <1>3, InitBinary, PTL DEF Spec

-----------------------------------------------------------------------------
(* The image of a text, byte by byte.                                      *)

\* A set of numbers has a least one: what holds of each number that follows numbers
\* of which it holds is proved by assuming the least of which it does not.
LEMMA HasLeast ==
    ASSUME NEW S \in SUBSET Nat, S # {}
    PROVE  \E m \in S : \A k \in S : m <= k
<1>1. PICK m \in S : \A k \in S : ~ (<<k, m>> \in OpToRel(<, Nat))
  BY WFMin, NatLessThanWellFounded
<1>2. \A k \in S : ~(k < m)
  BY <1>1 DEF OpToRel
<1>3. \A k \in S : k \in Nat
  OBVIOUS
<1> QED
  BY <1>2, <1>3

\* f maps each n to the image of the first n bytes, up to the last.
IsImages(f, bytes, image, last) ==
    f = [n \in 0 .. last |-> IF n = 0 THEN <<>> ELSE f[n - 1] \o image[bytes[n]]]

LEMMA ImagesExist ==
    ASSUME NEW bytes, NEW image, NEW last \in Nat
    PROVE  \E f : IsImages(f, bytes, image, last)
<1> DEFINE Without == {n \in Nat : ~ \E f : IsImages(f, bytes, image, n)}
<1> SUFFICES ASSUME Without # {} PROVE FALSE
  OBVIOUS
<1>1. PICK n \in Without : \A k \in Without : n <= k
  <2>1. Without \in SUBSET Nat
    OBVIOUS
  <2> QED
    BY <2>1, HasLeast
<1>2. CASE n = 0
  <2>1. IsImages([k \in 0 .. 0 |-> <<>>], bytes, image, 0)
    <3> DEFINE f == [k \in 0 .. 0 |-> <<>>]
    <3>1. f = [k \in 0 .. 0 |-> IF k = 0 THEN <<>> ELSE f[k - 1] \o image[bytes[k]]]
      OBVIOUS
    <3> QED
      BY <3>1 DEF IsImages
  <2> QED
    BY <1>1, <1>2, <2>1
<1>3. CASE n # 0
  <2>1. n - 1 \in Nat /\ n \in Nat
    BY <1>3
  <2>2. n - 1 \notin Without
    BY <1>1, <2>1
  <2>3. PICK f : IsImages(f, bytes, image, n - 1)
    BY <2>1, <2>2
  <2> DEFINE g == [k \in 0 .. n |-> IF k = n THEN f[n - 1] \o image[bytes[n]] ELSE f[k]]
  <2>4. \A k \in 0 .. n : g[k] = IF k = 0 THEN <<>> ELSE g[k - 1] \o image[bytes[k]]
    <3> SUFFICES ASSUME NEW k \in 0 .. n
                 PROVE  g[k] = IF k = 0 THEN <<>> ELSE g[k - 1] \o image[bytes[k]]
      OBVIOUS
    <3>1. CASE k = n
      <4>1. k - 1 \in 0 .. n /\ k - 1 # n /\ k # 0
        BY <1>3, <2>1, <3>1
      <4>2. g[k - 1] = f[n - 1] /\ g[k] = f[n - 1] \o image[bytes[n]]
        BY <3>1, <4>1
      <4> QED
        BY <3>1, <4>1, <4>2
    <3>2. CASE k # n
      <4>1. k \in 0 .. n - 1
        BY <2>1, <3>2
      <4>2. f[k] = IF k = 0 THEN <<>> ELSE f[k - 1] \o image[bytes[k]]
        BY <2>3, <4>1 DEF IsImages
      <4>3. g[k] = f[k]
        BY <3>2
      <4>4. CASE k = 0
        BY <4>2, <4>3, <4>4
      <4>5. CASE k # 0
        <5>1. k - 1 \in 0 .. n /\ k - 1 # n
          BY <2>1, <4>1, <4>5
        <5>2. g[k - 1] = f[k - 1]
          BY <5>1
        <5> QED
          BY <4>2, <4>3, <4>5, <5>2
      <4> QED
        BY <4>4, <4>5
    <3> QED
      BY <3>1, <3>2
  <2>5. g = [k \in 0 .. n |-> IF k = 0 THEN <<>> ELSE g[k - 1] \o image[bytes[k]]]
    <3>1. DOMAIN g = 0 .. n /\ g = [k \in 0 .. n |-> g[k]]
      OBVIOUS
    <3> HIDE DEF g
    <3> QED
      BY <2>4, <3>1
  <2>6. IsImages(g, bytes, image, n)
    BY <2>5 DEF IsImages
  <2> QED
    BY <1>1, <2>6
<1> QED
  BY <1>2, <1>3

\* The first n bytes have the image of the first n - 1 and of the last of them.
LEMMA ImagesStep ==
    ASSUME NEW bytes, NEW image, Len(bytes) \in Nat
    PROVE  /\ Images(bytes, image)[0] = <<>>
           /\ \A n \in 1 .. Len(bytes) :
                 Images(bytes, image)[n] = Images(bytes, image)[n - 1] \o image[bytes[n]]
<1> DEFINE f == Images(bytes, image)
<1>1. f = CHOOSE g : IsImages(g, bytes, image, Len(bytes))
  BY DEF Images, IsImages
<1>2. IsImages(f, bytes, image, Len(bytes))
  BY <1>1, ImagesExist
<1> HIDE DEF f
<1>3. \A n \in 0 .. Len(bytes) : f[n] = IF n = 0 THEN <<>> ELSE f[n - 1] \o image[bytes[n]]
  BY <1>2 DEF IsImages
<1>4. f[0] = <<>> /\ \A n \in 1 .. Len(bytes) : f[n] = f[n - 1] \o image[bytes[n]]
  <2>1. 0 \in 0 .. Len(bytes) /\ \A n \in 1 .. Len(bytes) : n \in 0 .. Len(bytes) /\ n # 0
    OBVIOUS
  <2> QED
    BY <1>3, <2>1, Zenon
<1>5. Images(bytes, image) = f
  BY DEF f
<1> QED
  BY <1>4, <1>5

LEMMA ImagesTyped ==
    ASSUME NEW bytes \in Seq(Bytes), NEW image \in [Bytes -> Seq(Bytes)]
    PROVE  \A n \in 0 .. Len(bytes) : Images(bytes, image)[n] \in Seq(Bytes)
<1>1. Len(bytes) \in Nat
  BY LenProperties
<1> DEFINE f == Images(bytes, image)
           Wrong == {n \in 0 .. Len(bytes) : f[n] \notin Seq(Bytes)}
<1>2. f[0] = <<>> /\ \A n \in 1 .. Len(bytes) : f[n] = f[n - 1] \o image[bytes[n]]
  BY <1>1, ImagesStep
<1> HIDE DEF f
<1>3. ASSUME Wrong # {} PROVE FALSE
  <2>1. Wrong \in SUBSET Nat
    BY <1>1
  <2>2. PICK n \in Wrong : \A k \in Wrong : n <= k
    BY <2>1, <1>3, HasLeast
  <2>3. n # 0
    BY <1>2, EmptySeq
  <2>4. n \in 1 .. Len(bytes) /\ n - 1 \in 0 .. Len(bytes)
    BY <1>1, <2>3
  <2>5. n - 1 \notin Wrong
    BY <2>2, <2>4
  <2>6. f[n - 1] \in Seq(Bytes)
    BY <2>4, <2>5
  <2>7. image[bytes[n]] \in Seq(Bytes)
    BY <2>4, ElementOfSeq
  <2>8. f[n - 1] \o image[bytes[n]] \in Seq(Bytes)
    BY <2>6, <2>7, ConcatProperties, Zenon
  <2> QED
    BY <1>2, <2>4, <2>8
<1>4. \A n \in 0 .. Len(bytes) : f[n] \in Seq(Bytes)
  BY <1>3
<1> QED
  BY <1>4 DEF f

LEMMA Together ==
    \A u, v, w \in Seq(Bytes) : (u \o v) \o w = u \o (v \o w)
<1> SUFFICES ASSUME NEW u \in Seq(Bytes), NEW v \in Seq(Bytes), NEW w \in Seq(Bytes)
             PROVE  (u \o v) \o w = u \o (v \o w)
  OBVIOUS
<1>1. Len(u) \in Nat /\ Len(v) \in Nat /\ Len(w) \in Nat
  BY LenProperties
<1>2. PICK uv \in Seq(Bytes) : uv = u \o v
  BY ConcatProperties, Zenon
<1>3. PICK vw \in Seq(Bytes) : vw = v \o w
  BY ConcatProperties, Zenon
<1>4. /\ Len(uv) = Len(u) + Len(v)
      /\ \A i \in 1 .. Len(u) + Len(v) : uv[i] = IF i <= Len(u) THEN u[i] ELSE v[i - Len(u)]
  BY <1>2, ConcatProperties, Zenon
<1>5. /\ Len(vw) = Len(v) + Len(w)
      /\ \A i \in 1 .. Len(v) + Len(w) : vw[i] = IF i <= Len(v) THEN v[i] ELSE w[i - Len(v)]
  BY <1>3, ConcatProperties, Zenon
<1>6. PICK a \in Seq(Bytes) : a = uv \o w
  BY ConcatProperties, Zenon
<1>7. PICK b \in Seq(Bytes) : b = u \o vw
  BY ConcatProperties, Zenon
<1>8. /\ Len(a) = Len(uv) + Len(w)
      /\ \A i \in 1 .. Len(uv) + Len(w) : a[i] = IF i <= Len(uv) THEN uv[i] ELSE w[i - Len(uv)]
  BY <1>6, ConcatProperties, Zenon
<1>9. /\ Len(b) = Len(u) + Len(vw)
      /\ \A i \in 1 .. Len(u) + Len(vw) : b[i] = IF i <= Len(u) THEN u[i] ELSE vw[i - Len(u)]
  BY <1>7, ConcatProperties, Zenon
<1>10. PICK l \in Nat, m \in Nat, n \in Nat : l = Len(u) /\ m = Len(v) /\ n = Len(w)
  BY <1>1
<1>11. /\ \A i \in 1 .. l + m : uv[i] = IF i <= l THEN u[i] ELSE v[i - l]
       /\ \A i \in 1 .. m + n : vw[i] = IF i <= m THEN v[i] ELSE w[i - m]
       /\ \A i \in 1 .. l + m + n : a[i] = IF i <= l + m THEN uv[i] ELSE w[i - (l + m)]
       /\ \A i \in 1 .. l + m + n : b[i] = IF i <= l THEN u[i] ELSE vw[i - l]
       /\ Len(a) = l + m + n /\ Len(b) = l + m + n
  <2>1. Len(uv) = l + m /\ Len(vw) = m + n /\ l + (m + n) = l + m + n
    BY <1>4, <1>5, <1>10
  <2> QED
    BY <1>4, <1>5, <1>8, <1>9, <1>10, <2>1, Zenon
<1>12. ASSUME NEW i \in 1 .. l + m + n PROVE a[i] = b[i]
  <2>1. CASE i <= l
    BY <1>11, <2>1
  <2>2. CASE l < i /\ i <= l + m
    <3>1. i - l \in 1 .. m + n /\ i - l <= m /\ i \in 1 .. l + m
      BY <2>2
    <3> QED
      BY <1>11, <2>2, <3>1
  <2>3. CASE l + m < i
    <3>1. i - l \in 1 .. m + n /\ ~(i - l <= m) /\ ~(i <= l) /\ (i - l) - m = i - (l + m)
      BY <2>3
    <3>2. b[i] = vw[i - l] /\ vw[i - l] = w[(i - l) - m]
      BY <1>11, <3>1
    <3>3. a[i] = w[i - (l + m)]
      BY <1>11, <2>3
    <3> QED
      BY <3>1, <3>2, <3>3, Zenon
  <2> QED
    BY <2>1, <2>2, <2>3
<1>13. a = b
  BY <1>11, <1>12, SeqEqual
<1> QED
  BY <1>2, <1>3, <1>6, <1>7, <1>13

\* Bytes that are their own images are added as they are.
LEMMA ImagesOfRun ==
    ASSUME NEW bytes \in Seq(Bytes), NEW image \in [Bytes -> Seq(Bytes)],
           NEW p \in 0 .. Len(bytes), NEW q \in p .. Len(bytes),
           \A i \in p + 1 .. q : image[bytes[i]] = <<bytes[i]>>
    PROVE  Images(bytes, image)[q] = Images(bytes, image)[p] \o SubSeq(bytes, p + 1, q)
<1>1. Len(bytes) \in Nat /\ p \in Nat /\ q \in Nat /\ p <= q /\ q <= Len(bytes)
  BY LenProperties
<1> DEFINE f == Images(bytes, image)
           Wrong == {n \in p .. q : f[n] # f[p] \o SubSeq(bytes, p + 1, n)}
<1>2. \A n \in 1 .. Len(bytes) : f[n] = f[n - 1] \o image[bytes[n]]
  BY <1>1, ImagesStep
<1>3. \A n \in 0 .. Len(bytes) : f[n] \in Seq(Bytes)
  BY ImagesTyped
<1> HIDE DEF f
<1>4. ASSUME Wrong # {} PROVE FALSE
  <2>1. Wrong \in SUBSET Nat
    <3>1. p .. q \in SUBSET Nat
      BY <1>1
    <3> QED
      BY <3>1
  <2>2. PICK n \in Wrong : \A k \in Wrong : n <= k
    BY <2>1, <1>4, HasLeast
  <2>3. n # p
    <3>1. SubSeq(bytes, p + 1, p) = <<>>
      BY <1>1, SubSeqEmpty
    <3>2. f[p] \o <<>> = f[p]
      BY <1>3, ConcatEmptySeq
    <3> QED
      BY <3>1, <3>2
  <2>4. n \in p + 1 .. q /\ n - 1 \in p .. q /\ n \in 1 .. Len(bytes)
    BY <1>1, <2>3
  <2>5. n - 1 \notin Wrong
    <3>1. ~(n <= n - 1)
      BY <1>1, <2>4
    <3> QED
      BY <2>2, <3>1
  <2>6. f[n - 1] = f[p] \o SubSeq(bytes, p + 1, n - 1)
    BY <2>4, <2>5
  <2>7. f[n] = (f[p] \o SubSeq(bytes, p + 1, n - 1)) \o <<bytes[n]>>
    BY <1>2, <2>4, <2>6
  <2>8. SubSeq(bytes, p + 1, n) = SubSeq(bytes, p + 1, n - 1) \o <<bytes[n]>>
    <3>1. p + 1 \in 1 .. Len(bytes) /\ n \in p + 1 .. Len(bytes)
      BY <1>1, <2>4
    <3> QED
      BY <3>1, SubSeqRecursiveSecond
  <2>9. SubSeq(bytes, p + 1, n - 1) \in Seq(Bytes)
    <3>1. p + 1 \in Int /\ n - 1 \in Int /\ \A i \in p + 1 .. n - 1 : bytes[i] \in Bytes
      BY <1>1, <2>4, ElementOfSeq
    <3> QED
      BY <3>1, SubSeqProperties, Zenon
  <2>10. <<bytes[n]>> \in Seq(Bytes)
    <3>1. bytes[n] \in Bytes
      BY <2>4, ElementOfSeq
    <3> QED
      BY <3>1
  <2>11. f[n] = f[p] \o SubSeq(bytes, p + 1, n)
    <3>1. f[p] \in Seq(Bytes)
      BY <1>1, <1>3
    <3>2. PICK u \in Seq(Bytes), v \in Seq(Bytes), w \in Seq(Bytes) :
             u = f[p] /\ v = SubSeq(bytes, p + 1, n - 1) /\ w = <<bytes[n]>>
      BY <3>1, <2>9, <2>10
    <3>3. (u \o v) \o w = u \o (v \o w)
      BY Together, Zenon
    <3> QED
      BY <2>7, <2>8, <3>2, <3>3, Zenon
  <2> QED
    BY <2>11
<1>5. f[q] = f[p] \o SubSeq(bytes, p + 1, q)
  <2>1. q \in p .. q
    BY <1>1
  <2> QED
    BY <1>4, <2>1, Zenon
<1> QED
  BY <1>5 DEF f

LEMMA LineEnds ==
    /\ ByteToNetwork \in [Bytes -> Seq(Bytes)]
    /\ \A b \in Bytes : b # "lf" => ByteToNetwork[b] = <<b>>
    /\ ByteToNetwork["lf"] = <<"cr", "lf">>
    /\ ByteToFile \in [Bytes -> Seq(Bytes)]
    /\ \A b \in Bytes : b # "cr" => ByteToFile[b] = <<b>>
    /\ ByteToFile["cr"] = <<>>
<1>1. /\ "cr" \in Bytes /\ "lf" \in Bytes /\ "cr" # "lf"
      /\ <<>> \in Seq(Bytes) /\ <<"cr", "lf">> \in Seq(Bytes)
      /\ \A b \in Bytes : <<b>> \in Seq(Bytes)
  BY Constants, EmptySeq
<1> QED
  BY <1>1 DEF ByteToNetwork, ByteToFile

-----------------------------------------------------------------------------
(* Steps of either ASCII transfer.                                         *)

LEMMA ReadChunk ==
    ASSUME TypeOK, Read
    PROVE  /\ pc = "read" /\ UNCHANGED <<job, conv, size, out, shortWrite>>
           /\ \/ pc' = "done" /\ taken = Len(job.source)
                 /\ UNCHANGED <<taken, buf, ret, pos, shrank>>
              \/ \E n \in 1 .. BufSize :
                    /\ pc' = "work" /\ taken + n <= Len(job.source)
                    /\ taken' = taken + n /\ ret' = n /\ pos' = 1
                    /\ shrank' = (shrank \/ n < ret)
                    /\ \A i \in 1 .. n : buf'[i] = job.source[taken + i]
                    /\ \A i \in n + 1 .. BufSize + 1 : buf'[i] = buf[i]
                    /\ Sending => n = BufSize \/ taken + n = Len(job.source)
<1>1. pc = "read" /\ UNCHANGED <<job, conv, size, out, shortWrite>>
  BY DEF Read
<1>2. PICK n \in ReadSizes :
         \/ n = 0 /\ pc' = "done" /\ UNCHANGED <<taken, buf, ret, pos, shrank>>
         \/ n > 0 /\ pc' = "work" /\ Fill(n)
  BY DEF Read
<1>3. Len(job.source) \in Nat /\ taken \in 0 .. Len(job.source)
  BY LenProperties DEF TypeOK
<1>4. /\ n \in 0 .. BufSize /\ n <= Len(job.source) - taken
      /\ n = 0 => taken = Len(job.source)
      /\ Sending => n = BufSize \/ taken + n = Len(job.source)
  BY <1>3, Constants DEF ReadSizes, Left
<1>5. CASE n = 0 /\ pc' = "done" /\ UNCHANGED <<taken, buf, ret, pos, shrank>>
  BY <1>1, <1>4, <1>5
<1>6. CASE n > 0 /\ pc' = "work" /\ Fill(n)
  <2>1. n \in 1 .. BufSize /\ taken + n <= Len(job.source)
    BY <1>3, <1>4, <1>6, Constants
  <2>2. taken' = taken + n /\ ret' = n /\ pos' = 1 /\ shrank' = (shrank \/ n < ret)
    BY <1>6 DEF Fill
  <2>3. \A i \in 1 .. BufSize + 1 : buf'[i] = IF i <= n THEN job.source[taken + i] ELSE buf[i]
    BY <1>6 DEF Fill
  <2>4. /\ \A i \in 1 .. n : buf'[i] = job.source[taken + i]
        /\ \A i \in n + 1 .. BufSize + 1 : buf'[i] = buf[i]
    BY <2>1, <2>3, Constants
  <2> QED
    BY <1>1, <1>4, <1>6, <2>1, <2>2, <2>4
<1> QED
  BY <1>2, <1>5, <1>6

\* A socket takes all the bytes, and so does the disk that neither cuts nor refuses them.
LEMMA WritesAll ==
    ASSUME TypeOK, NEW bytes \in Seq(Bytes), NEW next, Write(bytes, next),
           Sending \/ (~shortWrite' /\ pc' # "failed")
    PROVE  /\ out' = out \o bytes
           /\ Sending => pc' = next
           /\ ~Sending => ~shortWrite
<1>1. PICK n \in Takes(bytes) :
         /\ out' = out \o SubSeq(bytes, 1, n)
         /\ shortWrite' = (shortWrite \/ n \in 1 .. Len(bytes) - 1)
         /\ pc' = (IF bytes # <<>> /\ n = 0 THEN "failed" ELSE next)
  BY DEF Write
<1>2. /\ Len(bytes) \in Nat /\ n \in 0 .. Len(bytes) /\ (Sending => n = Len(bytes))
      /\ bytes = <<>> <=> Len(bytes) = 0
  BY TakesSome, EmptySeq
<1>3. n = Len(bytes) /\ (~Sending => ~shortWrite)
  <2>1. CASE Sending
    BY <1>2, <2>1
  <2>2. CASE ~Sending
    <3>1. ~shortWrite /\ ~(n \in 1 .. Len(bytes) - 1)
      BY <1>1, <2>2, Zenon
    <3>2. bytes = <<>> \/ n # 0
      BY <1>1, <2>2
    <3> QED
      BY <1>2, <2>2, <3>1, <3>2
  <2> QED
    BY <2>1, <2>2
<1>4. SubSeq(bytes, 1, Len(bytes)) = bytes
  BY SubSeqFull
<1>5. bytes # <<>> => Len(bytes) # 0
  BY EmptySeq
<1> QED
  BY <1>1, <1>2, <1>3, <1>4, <1>5

\* What is still in the buffer of the chunk, up to a byte that changes, is added to
\* the image of what came before it as it is.
LEMMA PartOfChunk ==
    ASSUME TypeOK, ret <= taken,
           NEW image \in [Bytes -> Seq(Bytes)],
           NEW p \in 1 .. ret + 1, NEW q \in p - 1 .. ret,
           \A i \in p .. q : buf[i] = job.source[taken - ret + i] /\ image[buf[i]] = <<buf[i]>>
    PROVE  /\ SubSeq(buf, p, q) \in Seq(Bytes)
           /\ Images(job.source, image)[taken - ret + p - 1] \in Seq(Bytes)
           /\ Images(job.source, image)[taken - ret + q]
                = Images(job.source, image)[taken - ret + p - 1] \o SubSeq(buf, p, q)
<1>1. job.source \in Seq(Bytes)
  BY DEF TypeOK
<1>2. PICK s \in Seq(Bytes) : s = job.source
  BY <1>1
<1>3. Len(s) \in Nat /\ taken \in 0 .. Len(s) /\ ret \in 0 .. BufSize
  BY <1>2, LenProperties DEF TypeOK
<1>4. PICK d \in Nat : d = taken - ret
  BY <1>3, Constants
<1>5. /\ p \in Nat \ {0} /\ q \in 0 .. BufSize + 1 /\ p <= q + 1 /\ d + q <= Len(s)
      /\ p \in Int /\ q \in Int /\ d \in Int
  BY <1>3, <1>4, Constants
<1>6. \A i \in p .. q : buf[i] = s[d + i] /\ image[buf[i]] = <<buf[i]>>
  BY <1>2, <1>4
<1>7. /\ SubSeq(buf, p, q) \in Seq(Bytes)
      /\ Len(SubSeq(buf, p, q)) = IF p <= q THEN q - p + 1 ELSE 0
      /\ \A i \in 1 .. q - p + 1 : SubSeq(buf, p, q)[i] = buf[p + i - 1]
  BY <1>5, BufferBytes DEF TypeOK
<1>8. /\ SubSeq(s, d + p, d + q) \in Seq(Bytes)
      /\ Len(SubSeq(s, d + p, d + q)) = IF d + p <= d + q THEN (d + q) - (d + p) + 1 ELSE 0
      /\ \A i \in 1 .. (d + q) - (d + p) + 1 : SubSeq(s, d + p, d + q)[i] = s[(d + p) + i - 1]
  <2>1. d + p \in Int /\ d + q \in Int /\ \A i \in d + p .. d + q : i \in 1 .. Len(s)
    BY <1>3, <1>5
  <2>2. \A i \in d + p .. d + q : s[i] \in Bytes
    BY <2>1, ElementOfSeq
  <2>3. PICK a \in Int, b \in Int : a = d + p /\ b = d + q
    BY <2>1
  <2>4. \A i \in a .. b : s[i] \in Bytes
    BY <2>2, <2>3
  <2>5. /\ SubSeq(s, a, b) \in Seq(Bytes)
        /\ Len(SubSeq(s, a, b)) = IF a <= b THEN b - a + 1 ELSE 0
        /\ \A i \in 1 .. b - a + 1 : SubSeq(s, a, b)[i] = s[a + i - 1]
    BY <2>4, SubSeqProperties
  <2> QED
    BY <2>3, <2>5, Zenon
<1>9. SubSeq(buf, p, q) = SubSeq(s, d + p, d + q)
  <2>1. Len(SubSeq(buf, p, q)) = Len(SubSeq(s, d + p, d + q))
    BY <1>5, <1>7, <1>8
  <2>2. ASSUME NEW i \in 1 .. Len(SubSeq(buf, p, q))
        PROVE  SubSeq(buf, p, q)[i] = SubSeq(s, d + p, d + q)[i]
    <3>1. PICK length \in Nat : length = q - p + 1
      BY <1>5
    <3>2. Len(SubSeq(buf, p, q)) = length
      BY <1>5, <1>7, <3>1
    <3>3. i \in 1 .. length
      BY <3>2
    <3>4. /\ i \in 1 .. q - p + 1 /\ i \in 1 .. (d + q) - (d + p) + 1
          /\ p + i - 1 \in p .. q /\ d + (p + i - 1) = (d + p) + i - 1
      BY <1>5, <3>1, <3>3
    <3> QED
      BY <1>6, <1>7, <1>8, <3>4, Zenon
  <2> QED
    BY <1>7, <1>8, <2>1, <2>2, SeqEqual
<1>10. \A i \in d + p .. d + q : image[s[i]] = <<s[i]>>
  <2>1. \A i \in d + p .. d + q : i - d \in p .. q /\ d + (i - d) = i
    BY <1>5
  <2>2. \A j \in p .. q : image[s[d + j]] = <<s[d + j]>>
    BY <1>6
  <2> QED
    BY <2>1, <2>2, Zenon
<1>11. Images(s, image)[d + q] = Images(s, image)[d + p - 1] \o SubSeq(s, d + p, d + q)
  <2>1. PICK a \in 0 .. Len(s) : a = d + p - 1 /\ a + 1 = d + p
    BY <1>3, <1>5
  <2>2. PICK b \in a .. Len(s) : b = d + q
    BY <1>3, <1>5, <2>1
  <2>3. Images(s, image)[b] = Images(s, image)[a] \o SubSeq(s, a + 1, b)
    BY <1>10, <2>1, <2>2, ImagesOfRun, Zenon
  <2> QED
    BY <2>1, <2>2, <2>3
<1>12. Images(s, image)[d + p - 1] \in Seq(Bytes)
  <2>1. d + p - 1 \in 0 .. Len(s)
    BY <1>3, <1>5
  <2> QED
    BY <2>1, ImagesTyped
<1> QED
  BY <1>2, <1>4, <1>7, <1>9, <1>11, <1>12, Zenon

-----------------------------------------------------------------------------
(* read_ascii_file: storing a text.                                        *)

\* What the first n bytes of the text become in the file.
StoredOf(n) == Images(job.source, ByteToFile)[n]

\* As long as no chunk was shorter than an earlier one only NULs follow the latest
\* in the buffer, and the string that is left of a chunk ends with the chunk.
StoredInv ==
    ~Sending /\ ~Binary /\ NulFree(job.source) /\ ~shrank =>
        /\ pc \in {"read", "work"} => \A i \in ret + 1 .. BufSize + 1 : buf[i] = "nul"
        /\ pc = "read" /\ ~shortWrite => out = StoredOf(taken)
        /\ pc = "work" =>
              /\ ret \in 1 .. taken /\ pos \in 1 .. ret + 1
              /\ \A i \in pos .. ret : buf[i] = job.source[taken - ret + i]
              /\ ~shortWrite => out = StoredOf(taken - ret + pos - 1)
        /\ pc = "done" => taken = Len(job.source) /\ (~shortWrite => out = StoredOf(taken))

LEMMA InitStored == Init /\ TypeOK => StoredInv
<1> SUFFICES ASSUME Init, TypeOK PROVE StoredInv
  OBVIOUS
<1>1. pc = "read" /\ taken = 0 /\ ret = 0 /\ out = <<>> /\ buf = EmptyBuffer
  BY DEF Init
<1>2. Len(job.source) \in Nat
  BY LenProperties DEF TypeOK
<1>3. StoredOf(0) = <<>>
  BY <1>2, ImagesStep DEF StoredOf
<1>4. \A i \in 1 .. BufSize + 1 : buf[i] = "nul"
  BY <1>1 DEF EmptyBuffer
<1> QED
  BY <1>1, <1>3, <1>4 DEF StoredInv

LEMMA ReadStored ==
    ASSUME TypeOK, StoredInv, Read
    PROVE  StoredInv'
<1> SUFFICES ASSUME ~Sending, ~Binary, NulFree(job.source), ~shrank'
             PROVE  StoredInv'
  <2>1. job' = job
    BY ReadChunk
  <2> QED
    BY <2>1 DEF StoredInv, Sending, Binary
<1>1. pc = "read" /\ UNCHANGED <<job, conv, size, out, shortWrite>>
  BY ReadChunk
<1>2. Len(job.source) \in Nat /\ taken \in 0 .. Len(job.source) /\ ret \in 0 .. BufSize
  BY LenProperties DEF TypeOK
<1>3. CASE /\ pc' = "done" /\ taken = Len(job.source)
           /\ UNCHANGED <<taken, buf, ret, pos, shrank>>
  <2>1. ~shortWrite => out = StoredOf(taken)
    BY <1>1, <1>3 DEF StoredInv
  <2>2. (taken = Len(job.source) /\ (~shortWrite => out = StoredOf(taken)))'
    BY <1>1, <1>3, <2>1 DEF StoredOf
  <2> QED
    BY <1>3, <2>2 DEF StoredInv
<1>4. CASE pc' = "work"
  <2>1. PICK n \in 1 .. BufSize :
           /\ taken + n <= Len(job.source)
           /\ taken' = taken + n /\ ret' = n /\ pos' = 1
           /\ shrank' = (shrank \/ n < ret)
           /\ \A i \in 1 .. n : buf'[i] = job.source[taken + i]
           /\ \A i \in n + 1 .. BufSize + 1 : buf'[i] = buf[i]
    BY <1>4, ReadChunk
  <2>2. ~shrank /\ ret <= n
    <3>1. ~shrank /\ ~(n < ret)
      BY <2>1, Zenon
    <3> QED
      BY <1>2, <3>1, Constants
  <2>3. /\ \A i \in ret + 1 .. BufSize + 1 : buf[i] = "nul"
        /\ ~shortWrite => out = StoredOf(taken)
    BY <1>1, <2>2 DEF StoredInv
  <2>4. \A i \in ret' + 1 .. BufSize + 1 : buf'[i] = "nul"
    BY <1>2, <2>1, <2>2, <2>3, Constants
  <2>5. ret' \in 1 .. taken' /\ pos' \in 1 .. ret' + 1 /\ taken' - ret' = taken
        /\ taken' - ret' + pos' - 1 = taken
    BY <1>2, <2>1, Constants
  <2>6. \A i \in pos' .. ret' : buf'[i] = job'.source[taken' - ret' + i]
    BY <1>1, <2>1, <2>5
  <2>7. (~shortWrite => out = StoredOf(taken - ret + pos - 1))'
    BY <1>1, <2>3, <2>5 DEF StoredOf
  <2> QED
    BY <1>4, <2>4, <2>5, <2>6, <2>7 DEF StoredInv
<1> QED
  BY <1>3, <1>4, ReadChunk

\* The CR is in the chunk, for a NUL ends the string behind it; the text in front of
\* it is written and the CR is its own image, none.
LEMMA StoreLineStored ==
    ASSUME MemoryInv, StoredInv, StoreLine
    PROVE  StoredInv'
<1>1. PICK cr \in 1 .. BufSize + 1 :
         /\ Finds(pos, "cr", cr)
         /\ Write(SubSeq(buf, pos, cr - 1), "work")
         /\ buf' = [buf EXCEPT ![cr] = "nul"]
         /\ pos' = cr + 1
  BY DEF StoreLine
<1>2. pc = "work" /\ ~Sending /\ ~Binary /\ UNCHANGED <<job, taken, ret, conv, size, shrank>>
  BY DEF StoreLine
<1> SUFFICES ASSUME NulFree(job.source), ~shrank
             PROVE  StoredInv'
  BY <1>2 DEF StoredInv
<1>3. TypeOK /\ WithinMemory
  BY DEF MemoryInv
<1>4. /\ \A i \in ret + 1 .. BufSize + 1 : buf[i] = "nul"
      /\ ret \in 1 .. taken /\ pos \in 1 .. ret + 1
      /\ \A i \in pos .. ret : buf[i] = job.source[taken - ret + i]
      /\ ~shortWrite => out = StoredOf(taken - ret + pos - 1)
  BY <1>2 DEF StoredInv
<1>5. /\ job.source \in Seq(Bytes) /\ Len(job.source) \in Nat /\ taken \in 0 .. Len(job.source)
      /\ ret \in 0 .. BufSize /\ buf \in [1 .. BufSize + 1 -> Bytes]
  BY <1>3, LenProperties DEF TypeOK
<1>6. /\ cr \in pos .. BufSize /\ buf[cr] = "cr"
      /\ \A i \in pos .. cr - 1 : buf[i] # "cr"
  BY <1>1, <1>3, FoundBeforeEnd DEF Finds, StrchrStops
<1>7. cr <= ret
  <2>1. cr \in ret + 1 .. BufSize + 1 => buf[cr] = "nul"
    BY <1>4
  <2> QED
    BY <1>4, <1>5, <1>6, <2>1, Constants
<1>8. /\ SubSeq(buf, pos, cr - 1) \in Seq(Bytes)
      /\ StoredOf(taken - ret + pos - 1) \in Seq(Bytes)
      /\ StoredOf(taken - ret + (cr - 1))
           = StoredOf(taken - ret + pos - 1) \o SubSeq(buf, pos, cr - 1)
  <2>1. PICK q \in pos - 1 .. ret : q = cr - 1
    BY <1>4, <1>5, <1>6, <1>7, Constants
  <2>2. ASSUME NEW i \in pos .. q
        PROVE  buf[i] = job.source[taken - ret + i] /\ ByteToFile[buf[i]] = <<buf[i]>>
    <3>1. i \in pos .. ret /\ i \in pos .. cr - 1 /\ i \in 1 .. BufSize + 1
      BY <1>4, <1>5, <2>1, Constants
    <3>2. buf[i] \in Bytes /\ buf[i] # "cr"
      BY <1>5, <1>6, <3>1
    <3> QED
      BY <1>4, <3>1, <3>2, LineEnds
  <2>3. ret <= taken /\ pos \in 1 .. ret + 1
    BY <1>4, <1>5
  <2>4. ByteToFile \in [Bytes -> Seq(Bytes)]
    BY LineEnds
  <2>5. /\ SubSeq(buf, pos, q) \in Seq(Bytes)
        /\ StoredOf(taken - ret + pos - 1) \in Seq(Bytes)
        /\ StoredOf(taken - ret + q)
             = StoredOf(taken - ret + pos - 1) \o SubSeq(buf, pos, q)
    BY <1>3, <2>2, <2>3, <2>4, PartOfChunk DEF StoredOf
  <2> QED
    BY <2>1, <2>5
<1>9. StoredOf(taken - ret + cr) = StoredOf(taken - ret + (cr - 1))
  <2>1. PICK n \in 1 .. Len(job.source) :
           n = taken - ret + cr /\ n - 1 = taken - ret + (cr - 1)
    BY <1>4, <1>5, <1>6, <1>7, Constants
  <2>2. job.source[n] = "cr"
    BY <1>4, <1>6, <1>7, <2>1
  <2>3. StoredOf(n) = StoredOf(n - 1) \o <<>>
    <3>1. StoredOf(n) = StoredOf(n - 1) \o ByteToFile[job.source[n]]
      BY <1>5, ImagesStep DEF StoredOf
    <3> QED
      BY <2>2, <3>1, LineEnds
  <2>4. StoredOf(n - 1) \in Seq(Bytes)
    <3>1. n - 1 \in 0 .. Len(job.source)
      BY <1>5
    <3> QED
      BY <1>5, <3>1, ImagesTyped, LineEnds DEF StoredOf
  <2>5. StoredOf(n - 1) \o <<>> = StoredOf(n - 1)
    BY <2>4, ConcatEmptySeq
  <2> QED
    BY <2>1, <2>3, <2>5
<1>10. pc' # "failed" /\ ~shortWrite' => out' = StoredOf(taken - ret + cr)
  <2> SUFFICES ASSUME pc' # "failed", ~shortWrite' PROVE out' = StoredOf(taken - ret + cr)
    OBVIOUS
  <2>1. out' = out \o SubSeq(buf, pos, cr - 1) /\ ~shortWrite
    BY <1>1, <1>2, <1>3, <1>8, WritesAll
  <2> QED
    BY <1>4, <1>8, <1>9, <2>1
<1>11. pc' \in {"failed", "work"}
  BY <1>1 DEF Write
<1>12. \A i \in ret + 1 .. BufSize + 1 : buf'[i] = "nul"
  BY <1>1, <1>4, <1>5, <1>7, Constants
<1>13. pos' \in 1 .. ret + 1 /\ \A i \in pos' .. ret : buf'[i] = job.source[taken - ret + i]
  <2>1. pos' = cr + 1 /\ pos' \in 1 .. ret + 1
    BY <1>1, <1>4, <1>5, <1>6, <1>7, Constants
  <2>2. ASSUME NEW i \in pos' .. ret PROVE buf'[i] = job.source[taken - ret + i]
    <3>1. i \in pos .. ret /\ i # cr /\ i \in 1 .. BufSize + 1
      BY <1>4, <1>5, <1>6, <2>1, Constants
    <3> QED
      BY <1>1, <1>4, <1>5, <3>1
  <2> QED
    BY <2>1, <2>2
<1>14. (pc # "failed" /\ ~shortWrite => out = StoredOf(taken - ret + pos - 1))'
  <2>1. taken - ret + pos' - 1 = taken - ret + cr
    BY <1>1, <1>5, Constants
  <2> QED
    BY <1>2, <1>10, <2>1 DEF StoredOf
<1> QED
  BY <1>2, <1>4, <1>11, <1>12, <1>13, <1>14 DEF StoredInv

\* The string ends where the chunk does.
LEMMA StoreRestStored ==
    ASSUME MemoryInv, StoredInv, StoreRest
    PROVE  StoredInv'
<1>1. PICK e \in 1 .. BufSize + 1 :
         Ends(pos, "cr", e) /\ Write(SubSeq(buf, pos, e - 1), "read")
  BY DEF StoreRest
<1>2. /\ pc = "work" /\ ~Sending /\ ~Binary
      /\ UNCHANGED <<job, taken, buf, ret, pos, conv, size, shrank>>
  BY DEF StoreRest
<1> SUFFICES ASSUME NulFree(job.source), ~shrank
             PROVE  StoredInv'
  BY <1>2 DEF StoredInv
<1>3. TypeOK
  BY DEF MemoryInv
<1>4. /\ \A i \in ret + 1 .. BufSize + 1 : buf[i] = "nul"
      /\ ret \in 1 .. taken /\ pos \in 1 .. ret + 1
      /\ \A i \in pos .. ret : buf[i] = job.source[taken - ret + i]
      /\ ~shortWrite => out = StoredOf(taken - ret + pos - 1)
  BY <1>2 DEF StoredInv
<1>5. /\ job.source \in Seq(Bytes) /\ Len(job.source) \in Nat /\ DOMAIN job.source = 1 .. Len(job.source)
      /\ taken \in 0 .. Len(job.source)
      /\ ret \in 0 .. BufSize /\ buf \in [1 .. BufSize + 1 -> Bytes]
  BY <1>3, LenProperties DEF TypeOK
<1>6. /\ e \in pos .. BufSize + 1 /\ buf[e] = "nul"
      /\ \A i \in pos .. e - 1 : buf[i] \notin {"cr", "nul"}
  BY <1>1 DEF Ends, StrchrStops
<1>7. e = ret + 1
  <2>1. ASSUME e <= ret PROVE FALSE
    <3>1. buf[e] = job.source[taken - ret + e]
      BY <1>4, <1>6, <2>1
    <3>2. taken - ret + e \in DOMAIN job.source
      BY <1>4, <1>5, <1>6, <2>1, Constants
    <3> QED
      BY <1>6, <3>1, <3>2 DEF NulFree
  <2>2. ASSUME e > ret + 1 PROVE FALSE
    <3>1. ret + 1 \in pos .. e - 1 /\ ret + 1 \in ret + 1 .. BufSize + 1
      BY <1>4, <1>5, <1>6, <2>2, Constants
    <3> QED
      BY <1>4, <1>6, <3>1
  <2> QED
    BY <1>4, <1>5, <1>6, <2>1, <2>2, Constants
<1>8. SubSeq(buf, pos, e - 1) = SubSeq(buf, pos, ret)
  <2>1. e - 1 = ret
    BY <1>5, <1>7, Constants
  <2> QED
    BY <2>1
<1>9. /\ SubSeq(buf, pos, ret) \in Seq(Bytes)
      /\ StoredOf(taken - ret + ret) = StoredOf(taken - ret + pos - 1) \o SubSeq(buf, pos, ret)
  <2>1. ASSUME NEW i \in pos .. ret
        PROVE  buf[i] = job.source[taken - ret + i] /\ ByteToFile[buf[i]] = <<buf[i]>>
    <3>1. i \in pos .. e - 1 /\ i \in 1 .. BufSize + 1
      BY <1>4, <1>5, <1>7, Constants
    <3>2. buf[i] \in Bytes /\ buf[i] # "cr"
      BY <1>5, <1>6, <3>1
    <3> QED
      BY <1>4, <3>2, LineEnds
  <2>2. ret <= taken /\ pos \in 1 .. ret + 1 /\ ret \in pos - 1 .. ret
    BY <1>4, <1>5, Constants
  <2>3. ByteToFile \in [Bytes -> Seq(Bytes)]
    BY LineEnds
  <2> QED
    BY <1>3, <2>1, <2>2, <2>3, PartOfChunk DEF StoredOf
<1>10. pc' # "failed" /\ ~shortWrite' => out' = StoredOf(taken)
  <2> SUFFICES ASSUME pc' # "failed", ~shortWrite' PROVE out' = StoredOf(taken)
    OBVIOUS
  <2>1. out' = out \o SubSeq(buf, pos, ret) /\ ~shortWrite
    <3>1. Write(SubSeq(buf, pos, ret), "read")
      BY <1>1, <1>8
    <3> QED
      BY <1>2, <1>3, <1>9, <3>1, WritesAll
  <2>2. taken - ret + ret = taken
    BY <1>5, Constants
  <2> QED
    BY <1>4, <1>9, <2>1, <2>2
<1>11. (pc # "failed" /\ ~shortWrite => out = StoredOf(taken))'
  BY <1>2, <1>10 DEF StoredOf
<1>12. pc' \in {"failed", "read"}
  BY <1>1 DEF Write
<1> QED
  BY <1>2, <1>4, <1>11, <1>12 DEF StoredInv

LEMMA NextStored ==
    ASSUME MemoryInv, StoredInv, [Next]_vars
    PROVE  StoredInv'
<1>1. CASE Read
  BY <1>1, ReadStored DEF MemoryInv
<1>2. CASE StoreLine
  BY <1>2, StoreLineStored
<1>3. CASE StoreRest
  BY <1>3, StoreRestStored
<1>4. CASE ReadFails \/ SendFails
  BY <1>4 DEF ReadFails, SendFails, StoredInv
<1>5. CASE CopyChunk
  BY <1>5 DEF CopyChunk, StoredInv, Binary
<1>6. CASE AddLine \/ FlushLines \/ FlushString
  BY <1>6 DEF AddLine, FlushLines, FlushString, StoredInv, Sending
<1>7. CASE UNCHANGED vars
  BY <1>7 DEF vars, StoredInv, Sending, Binary, StoredOf
<1> QED
  BY <1>1, <1>2, <1>3, <1>4, <1>5, <1>6, <1>7 DEF Next, Progress, SendStep, ReceiveStep

\* read_ascii_file stores a text without NULs whole and in order, but for its CRs, as
\* long as no chunk is shorter than an earlier one and the disk does not fill up: for
\* any size of the buffer and wherever the line ends fall in the chunks.
THEOREM AsciiAlwaysStoredWhole == Spec => []AsciiStoredWhole
<1>1. MemoryInv /\ StoredInv /\ [Next]_vars => StoredInv'
  BY NextStored
<1>2. Init => StoredInv
  BY InitStored, InitMemory DEF MemoryInv
<1>3. StoredInv => AsciiStoredWhole
  BY DEF StoredInv, AsciiStoredWhole, StoredOf, ToFile
<1> QED
  BY <1>1, <1>2, <1>3, AlwaysMemory, PTL DEF Spec

-----------------------------------------------------------------------------
(* send_ascii_file: sending a text.                                        *)

\* What the first n bytes of the text become on the connection.
SentOf(n) == Images(job.source, ByteToNetwork)[n]

ChunkHasLF == \E i \in 1 .. ret : job.source[taken - ret + i] = "lf"

\* The number of bytes in front of a chunk.
WholeChunks(n) == \E k \in Nat : k <= n /\ n = k * BufSize

\* Between chunks no line is pending, no LF is left in the buffer, and nothing is left
\* in it after a full chunk without one.
BetweenChunks ==
    /\ conv = <<>> /\ size = 0 /\ out = SentOf(taken)
    /\ taken = Len(job.source) \/ WholeChunks(taken)
    /\ \A i \in 1 .. BufSize + 1 : buf[i] # "lf"
    /\ taken = 0 \/ (taken >= BufSize /\ \A i \in taken - BufSize + 1 .. taken : job.source[i] # "lf")
          => \A i \in 1 .. BufSize + 1 : buf[i] = "nul"

\* What is left of the chunk is still in the buffer; what comes before it is written or
\* in the lines; and text is behind the chunk only if it has a line.
InChunk ==
    /\ ret \in 1 .. taken /\ pos \in 1 .. ret + 1
    /\ ret = BufSize \/ taken = Len(job.source)
    /\ WholeChunks(taken - ret)
    /\ \A i \in pos .. ret : buf[i] = job.source[taken - ret + i]
    /\ \A i \in 1 .. BufSize + 1 : i < pos \/ ret < i => buf[i] # "lf"
    /\ out \o conv = SentOf(taken - ret + pos - 1)
    /\ size = 0 => pos = 1 /\ conv = <<>>
    /\ size # 0 => ChunkHasLF
    /\ ChunkHasLF \/ \A i \in ret + 1 .. BufSize + 1 : buf[i] = "nul"

SentInv ==
    Sending /\ ~Binary /\ NulFree(job.source) /\ NothingBehindLastChunk(job.source) =>
        /\ pc = "read" => BetweenChunks
        /\ pc = "work" => InChunk
        /\ pc = "done" => taken = Len(job.source) /\ out = SentOf(taken)

\* What each step of such a transfer relies on.
SendingText ==
    /\ MemoryInv /\ SentInv /\ Sending /\ ~Binary
    /\ NulFree(job.source) /\ NothingBehindLastChunk(job.source)

LEMMA TextFacts ==
    ASSUME SendingText
    PROVE  /\ TypeOK /\ job.source \in Seq(Bytes) /\ Len(job.source) \in Nat
           /\ DOMAIN job.source = 1 .. Len(job.source)
           /\ taken \in 0 .. Len(job.source) /\ ret \in 0 .. BufSize
           /\ pos \in 1 .. BufSize + 1 /\ buf \in [1 .. BufSize + 1 -> Bytes]
           /\ buf[BufSize + 1] = "nul"
           /\ out \in Seq(Bytes) /\ conv \in Seq(Bytes) /\ size \in Nat
<1>1. TypeOK /\ WithinMemory
  BY DEF SendingText, MemoryInv
<1> QED
  BY <1>1, LenProperties DEF TypeOK, WithinMemory

LEMMA InitSent == Init /\ TypeOK => SentInv
<1> SUFFICES ASSUME Init, TypeOK PROVE SentInv
  OBVIOUS
<1>1. pc = "read" /\ taken = 0 /\ conv = <<>> /\ size = 0 /\ out = <<>> /\ buf = EmptyBuffer
  BY DEF Init
<1>2. Len(job.source) \in Nat
  BY LenProperties DEF TypeOK
<1>3. out = SentOf(0)
  BY <1>1, <1>2, ImagesStep DEF SentOf
<1>4. \A i \in 1 .. BufSize + 1 : buf[i] = "nul"
  BY <1>1 DEF EmptyBuffer
<1>5. WholeChunks(0)
  BY Constants DEF WholeChunks
<1> QED
  BY <1>1, <1>3, <1>4, <1>5 DEF SentInv, BetweenChunks

LEMMA LFInPart ==
    ASSUME NEW s \in Seq(Bytes), NEW a \in Int, NEW b \in Int,
           \A i \in a .. b : i \in 1 .. Len(s)
    PROVE  HasLF(SubSeq(s, a, b)) <=> \E i \in a .. b : s[i] = "lf"
<1>1. \A i \in a .. b : s[i] \in Bytes
  BY ElementOfSeq
<1>2. PICK t \in Seq(Bytes) : t = SubSeq(s, a, b)
  BY <1>1, SubSeqProperties, Zenon
<1>3. /\ Len(t) = IF a <= b THEN b - a + 1 ELSE 0
      /\ \A i \in 1 .. b - a + 1 : t[i] = s[a + i - 1]
  <2>1. /\ Len(SubSeq(s, a, b)) = IF a <= b THEN b - a + 1 ELSE 0
        /\ \A i \in 1 .. b - a + 1 : SubSeq(s, a, b)[i] = s[a + i - 1]
    BY <1>1, SubSeqProperties
  <2> QED
    BY <1>2, <2>1, Zenon
<1>4. DOMAIN t = 1 .. b - a + 1
  <2>1. DOMAIN t = 1 .. Len(t)
    BY LenProperties
  <2> QED
    BY <1>3, <2>1
<1>5. ASSUME HasLF(t) PROVE \E i \in a .. b : s[i] = "lf"
  <2>1. PICK i \in 1 .. b - a + 1 : t[i] = "lf"
    BY <1>4, <1>5 DEF HasLF
  <2>2. a + i - 1 \in a .. b /\ s[a + i - 1] = "lf"
    BY <1>3, <2>1
  <2> QED
    BY <2>2
<1>6. ASSUME NEW i \in a .. b, s[i] = "lf" PROVE HasLF(t)
  <2>1. i - a + 1 \in 1 .. b - a + 1 /\ a + (i - a + 1) - 1 = i
    OBVIOUS
  <2>2. t[i - a + 1] = "lf"
    BY <1>3, <1>6, <2>1
  <2> QED
    BY <1>4, <2>1, <2>2 DEF HasLF
<1> QED
  BY <1>2, <1>5, <1>6

\* A chunk that does not fill the buffer is the last of the file: what is behind it is
\* what NothingBehindLastChunk is about.
LEMMA ReadSent ==
    ASSUME SendingText, Read
    PROVE  SentInv'
<1>1. pc = "read" /\ UNCHANGED <<job, conv, size, out, shortWrite>>
  BY ReadChunk, TextFacts
<1>2. BetweenChunks
  BY <1>1 DEF SendingText, SentInv
<1>3. /\ job.source \in Seq(Bytes) /\ Len(job.source) \in Nat
      /\ taken \in 0 .. Len(job.source) /\ out \in Seq(Bytes)
      /\ buf[BufSize + 1] = "nul"
  BY TextFacts
<1>4. CASE /\ pc' = "done" /\ taken = Len(job.source)
           /\ UNCHANGED <<taken, buf, ret, pos, shrank>>
  <2>1. (taken = Len(job.source) /\ out = SentOf(taken))'
    BY <1>1, <1>2, <1>4 DEF SentOf, BetweenChunks
  <2> QED
    BY <1>4, <2>1 DEF SentInv
<1>5. CASE pc' = "work"
  <2>1. PICK n \in 1 .. BufSize :
           /\ taken + n <= Len(job.source)
           /\ taken' = taken + n /\ ret' = n /\ pos' = 1
           /\ \A i \in 1 .. n : buf'[i] = job.source[taken + i]
           /\ \A i \in n + 1 .. BufSize + 1 : buf'[i] = buf[i]
           /\ n = BufSize \/ taken + n = Len(job.source)
    BY <1>5, ReadChunk, TextFacts DEF SendingText
  <2>2. /\ taken' - ret' = taken /\ taken' - ret' + pos' - 1 = taken
        /\ ret' \in 1 .. taken' /\ pos' \in 1 .. ret' + 1
    BY <1>3, <2>1, Constants
  <2>3. ret' = BufSize \/ taken' = Len(job'.source)
    BY <1>1, <2>1
  <2>4. WholeChunks(taken)
    BY <1>2, <1>3, <2>1 DEF BetweenChunks
  <2>5. \A i \in pos' .. ret' : buf'[i] = job'.source[taken' - ret' + i]
    BY <1>1, <2>1, <2>2
  <2>6. \A i \in 1 .. BufSize + 1 : i < pos' \/ ret' < i => buf'[i] # "lf"
    BY <1>2, <2>1, Constants DEF BetweenChunks
  <2>7. (out \o conv = SentOf(taken - ret + pos - 1))'
    <3>1. out \o <<>> = out
      BY <1>3, ConcatEmptySeq
    <3> QED
      BY <1>1, <1>2, <2>2, <3>1 DEF BetweenChunks, SentOf
  <2>8. (size = 0 => pos = 1 /\ conv = <<>>)' /\ (size # 0 => ChunkHasLF)'
    BY <1>1, <1>2, <2>1 DEF BetweenChunks
  <2>9. (\E i \in 1 .. n : job.source[taken + i] = "lf")
          \/ \A i \in n + 1 .. BufSize + 1 : buf'[i] = "nul"
    <3>1. CASE n = BufSize
      BY <1>3, <2>1, <3>1, Constants
    <3>2. CASE n # BufSize
      <4>1. PICK k \in Nat : k <= taken /\ taken = k * BufSize
        BY <2>4 DEF WholeChunks
      <4>2. /\ k \in 0 .. Len(job.source)
            /\ k * BufSize < Len(job.source) /\ Len(job.source) < k * BufSize + BufSize
        <5>1. taken < Len(job.source) /\ Len(job.source) < taken + BufSize /\ taken \in Nat
          BY <1>3, <2>1, <3>2, Constants
        <5>2. k \in 0 .. Len(job.source)
          BY <1>3, <4>1, <5>1
        <5> QED
          BY <4>1, <5>1, <5>2
      <4>3. \/ taken = 0
            \/ HasLF(SubSeq(job.source, taken + 1, Len(job.source)))
            \/ ~HasLF(SubSeq(job.source, taken - BufSize + 1, taken))
        BY <4>1, <4>2 DEF SendingText, NothingBehindLastChunk
      <4>4. CASE HasLF(SubSeq(job.source, taken + 1, Len(job.source)))
        <5>1. /\ taken + 1 \in Int /\ Len(job.source) \in Int
              /\ \A i \in taken + 1 .. Len(job.source) : i \in 1 .. Len(job.source)
          BY <1>3
        <5>2. PICK i \in taken + 1 .. Len(job.source) : job.source[i] = "lf"
          BY <1>3, <4>4, <5>1, LFInPart
        <5>3. i - taken \in 1 .. n /\ taken + (i - taken) = i
          BY <1>3, <2>1, <3>2
        <5> QED
          BY <5>2, <5>3
      <4>5. CASE taken = 0 \/ ~HasLF(SubSeq(job.source, taken - BufSize + 1, taken))
        <5>1. taken = 0 \/ (taken >= BufSize
                 /\ \A i \in taken - BufSize + 1 .. taken : job.source[i] # "lf")
          <6> SUFFICES ASSUME taken # 0
                       PROVE  taken >= BufSize
                                /\ \A i \in taken - BufSize + 1 .. taken : job.source[i] # "lf"
            OBVIOUS
          <6>1. k - 1 \in Nat /\ k * BufSize = (k - 1) * BufSize + BufSize
            <7>1. k # 0
              BY <4>1, Constants
            <7> QED
              BY <7>1, Constants
          <6>2. (k - 1) * BufSize \in Nat
            BY <6>1, Constants
          <6>3. taken >= BufSize
            BY <1>3, <4>1, <6>1, <6>2, Constants
          <6>4. /\ taken - BufSize + 1 \in Int /\ taken \in Int
                /\ \A i \in taken - BufSize + 1 .. taken : i \in 1 .. Len(job.source)
            BY <1>3, <6>3, Constants
          <6> QED
            BY <1>3, <4>5, <6>3, <6>4, LFInPart
        <5>2. \A i \in 1 .. BufSize + 1 : buf[i] = "nul"
          BY <1>2, <5>1 DEF BetweenChunks
        <5> QED
          BY <2>1, <5>2, Constants
      <4> QED
        BY <4>3, <4>4, <4>5
    <3> QED
      BY <3>1, <3>2
  <2>10. (ChunkHasLF \/ \A i \in ret + 1 .. BufSize + 1 : buf[i] = "nul")'
    BY <1>1, <2>1, <2>2, <2>9 DEF ChunkHasLF
  <2>11. WholeChunks(taken - ret)'
    BY <2>2, <2>4 DEF WholeChunks
  <2>12. InChunk'
    BY <2>2, <2>3, <2>5, <2>6, <2>7, <2>8, <2>10, <2>11 DEF InChunk
  <2> QED
    BY <1>5, <2>12 DEF SentInv
<1> QED
  BY <1>4, <1>5, ReadChunk, TextFacts

\* The LF is in the chunk, for none is left behind it: the line goes on from what has
\* been sent or gathered, and ends with the image of the LF.
LEMMA AddLineSent ==
    ASSUME SendingText, AddLine
    PROVE  SentInv'
<1>1. PICK lf \in 1 .. BufSize + 1 :
         /\ Finds(pos, "lf", lf)
         /\ size' = Grown(lf - pos)
         /\ conv' = conv \o SubSeq(buf, pos, lf - 1) \o <<"cr", "lf">>
         /\ buf' = [buf EXCEPT ![lf] = "nul"]
         /\ pos' = lf + 1
  BY DEF AddLine
<1>2. pc = "work" /\ UNCHANGED <<job, taken, pc, ret, out, shortWrite, shrank>>
  BY DEF AddLine
<1>3. InChunk
  BY <1>2 DEF SendingText, SentInv
<1>4. /\ ret \in 1 .. taken /\ pos \in 1 .. ret + 1
      /\ \A i \in pos .. ret : buf[i] = job.source[taken - ret + i]
      /\ \A i \in 1 .. BufSize + 1 : i < pos \/ ret < i => buf[i] # "lf"
      /\ out \o conv = SentOf(taken - ret + pos - 1)
  BY <1>3 DEF InChunk
<1>5. /\ TypeOK /\ job.source \in Seq(Bytes) /\ Len(job.source) \in Nat
      /\ taken \in 0 .. Len(job.source)
      /\ ret \in 0 .. BufSize /\ buf \in [1 .. BufSize + 1 -> Bytes]
      /\ out \in Seq(Bytes) /\ conv \in Seq(Bytes)
  BY TextFacts
<1>6. /\ lf \in pos .. BufSize /\ buf[lf] = "lf"
      /\ \A i \in pos .. lf - 1 : buf[i] # "lf"
  BY <1>1, <1>5, FoundBeforeEnd DEF Finds, StrchrStops, SendingText, MemoryInv
<1>7. /\ lf \in Nat /\ pos \in Nat /\ ret \in Nat /\ taken \in Nat /\ BufSize \in Nat
      /\ 1 <= pos /\ pos <= lf /\ lf <= ret /\ ret <= BufSize
      /\ ret <= taken /\ taken <= Len(job.source) /\ Len(job.source) \in Nat
  <2>1. lf <= ret
    BY <1>4, <1>5, <1>6, Constants
  <2> QED
    BY <1>4, <1>5, <1>6, <2>1, Constants
<1>8. /\ SubSeq(buf, pos, lf - 1) \in Seq(Bytes)
      /\ SentOf(taken - ret + (lf - 1)) = SentOf(taken - ret + pos - 1) \o SubSeq(buf, pos, lf - 1)
  <2>1. PICK q \in pos - 1 .. ret : q = lf - 1
    BY <1>4, <1>5, <1>6, <1>7, Constants
  <2>2. ASSUME NEW i \in pos .. q
        PROVE  buf[i] = job.source[taken - ret + i] /\ ByteToNetwork[buf[i]] = <<buf[i]>>
    <3>1. i \in pos .. ret /\ i \in pos .. lf - 1 /\ i \in 1 .. BufSize + 1
      BY <1>7, <2>1
    <3>2. buf[i] \in Bytes /\ buf[i] # "lf"
      BY <1>5, <1>6, <3>1
    <3> QED
      BY <1>4, <3>1, <3>2, LineEnds
  <2>3. ret <= taken /\ pos \in 1 .. ret + 1
    BY <1>4, <1>5
  <2>4. ByteToNetwork \in [Bytes -> Seq(Bytes)]
    BY LineEnds
  <2>5. /\ SubSeq(buf, pos, q) \in Seq(Bytes)
        /\ SentOf(taken - ret + q) = SentOf(taken - ret + pos - 1) \o SubSeq(buf, pos, q)
    BY <1>5, <2>2, <2>3, <2>4, PartOfChunk DEF SentOf
  <2> QED
    BY <2>1, <2>5
<1>9. /\ job.source[taken - ret + lf] = "lf"
      /\ SentOf(taken - ret + lf) = SentOf(taken - ret + (lf - 1)) \o <<"cr", "lf">>
  <2>1. PICK n \in 1 .. Len(job.source) :
           n = taken - ret + lf /\ n - 1 = taken - ret + (lf - 1)
    <3>1. /\ taken - ret + lf \in 1 .. Len(job.source)
          /\ (taken - ret + lf) - 1 = taken - ret + (lf - 1)
      BY <1>7
    <3> QED
      BY <3>1
  <2>2. job.source[n] = "lf"
    BY <1>4, <1>6, <1>7, <2>1
  <2>3. SentOf(n) = SentOf(n - 1) \o ByteToNetwork[job.source[n]]
    BY <1>5, ImagesStep DEF SentOf
  <2> QED
    BY <2>1, <2>2, <2>3, LineEnds
<1>10. out \o conv' = SentOf(taken - ret + lf)
  <2>1. PICK line \in Seq(Bytes) : line = SubSeq(buf, pos, lf - 1)
    BY <1>8
  <2>2. PICK end \in Seq(Bytes) : end = <<"cr", "lf">>
    <3>1. <<"cr", "lf">> \in Seq(Bytes)
      BY Constants
    <3> QED
      BY <3>1
  <2>3. PICK sent \in Seq(Bytes), before \in Seq(Bytes) : sent = out /\ before = conv
    BY <1>5
  <2>4. PICK lines \in Seq(Bytes) : lines = before \o line
    BY ConcatProperties, Zenon
  <2>5. sent \o (lines \o end) = (sent \o lines) \o end
    BY Together, Zenon
  <2>6. sent \o (before \o line) = (sent \o before) \o line
    BY Together, Zenon
  <2>7. conv' = lines \o end
    BY <1>1, <2>1, <2>2, <2>3, <2>4, Zenon
  <2>8. out \o lines = SentOf(taken - ret + (lf - 1))
    BY <1>4, <1>8, <2>1, <2>3, <2>4, <2>6, Zenon
  <2> QED
    BY <1>9, <2>2, <2>3, <2>5, <2>7, <2>8, Zenon
<1>11. size' # 0
  <2>1. lf - pos \in 0 .. BufSize - 1
    BY <1>4, <1>5, <1>6, Constants
  <2>2. size' \in Nat /\ size' >= 2 * BufSize
    BY <1>1, <2>1, LineFits DEF SendingText
  <2> QED
    BY <2>2, Constants
<1>12. ChunkHasLF'
  <2>1. lf \in 1 .. ret
    BY <1>4, <1>5, <1>6, <1>7, Constants
  <2> QED
    BY <1>2, <1>9, <2>1 DEF ChunkHasLF
<1>13. pos' \in 1 .. ret + 1 /\ \A i \in pos' .. ret : buf'[i] = job.source[taken - ret + i]
  <2>1. pos' = lf + 1 /\ pos' \in 1 .. ret + 1
    BY <1>1, <1>4, <1>5, <1>6, <1>7, Constants
  <2>2. ASSUME NEW i \in pos' .. ret PROVE buf'[i] = job.source[taken - ret + i]
    <3>1. i \in pos .. ret /\ i # lf /\ i \in 1 .. BufSize + 1
      BY <1>4, <1>5, <1>6, <2>1, Constants
    <3> QED
      BY <1>1, <1>4, <1>5, <3>1
  <2> QED
    BY <2>1, <2>2
<1>14. ASSUME NEW i \in 1 .. BufSize + 1, i < pos' \/ ret < i PROVE buf'[i] # "lf"
  <2>1. CASE i = lf
    BY <1>1, <1>5, <2>1
  <2>2. CASE i # lf
    <3>1. buf'[i] = buf[i]
      BY <1>1, <1>5, <2>2
    <3>2. i < pos \/ ret < i \/ i \in pos .. lf - 1
      BY <1>1, <1>4, <1>5, <1>6, <1>14, <2>2, Constants
    <3> QED
      BY <1>4, <1>6, <3>1, <3>2
  <2> QED
    BY <2>1, <2>2
<1>15. (out \o conv = SentOf(taken - ret + pos - 1))'
  <2>1. taken - ret + pos' - 1 = taken - ret + lf
    BY <1>1, <1>5, Constants
  <2> QED
    BY <1>2, <1>10, <2>1 DEF SentOf
<1>16. (ret = BufSize \/ taken = Len(job.source))' /\ WholeChunks(taken - ret)'
  BY <1>2, <1>3 DEF InChunk, WholeChunks
<1>17. (size = 0 => pos = 1 /\ conv = <<>>)'
  BY <1>11
<1>18. InChunk'
  BY <1>2, <1>4, <1>12, <1>13, <1>14, <1>15, <1>16, <1>17 DEF InChunk
<1> QED
  BY <1>2, <1>18 DEF SentInv

\* strchr has come to the end of the string: no LF is left in the chunk.
LEMMA NoLFLeft ==
    ASSUME SendingText, InChunk, NoMoreLines
    PROVE  \A i \in pos .. ret : buf[i] # "lf" /\ buf[i] # "nul"
<1>1. /\ job.source \in Seq(Bytes) /\ Len(job.source) \in Nat
      /\ DOMAIN job.source = 1 .. Len(job.source)
      /\ taken \in 0 .. Len(job.source) /\ ret \in 0 .. BufSize
  BY TextFacts
<1>2. /\ ret \in 1 .. taken /\ pos \in 1 .. ret + 1
      /\ \A i \in pos .. ret : buf[i] = job.source[taken - ret + i]
  BY DEF InChunk
<1>3. ASSUME NEW i \in pos .. ret PROVE buf[i] # "nul"
  <2>1. taken - ret + i \in DOMAIN job.source
    BY <1>1, <1>2, Constants
  <2> QED
    BY <1>2, <2>1 DEF NulFree, SendingText
<1>4. CASE pos > ret
  BY <1>1, <1>2, <1>4, Constants
<1>5. ASSUME NEW e \in 1 .. BufSize + 1, Ends(pos, "lf", e)
      PROVE  \A i \in pos .. ret : buf[i] # "lf"
  <2>1. /\ e \in pos .. BufSize + 1 /\ buf[e] = "nul"
        /\ \A i \in pos .. e - 1 : buf[i] # "lf"
    BY <1>5 DEF Ends, StrchrStops
  <2>2. ret < e
    <3>1. ASSUME e <= ret PROVE FALSE
      <4>1. e \in pos .. ret
        BY <1>1, <1>2, <2>1, <3>1, Constants
      <4> QED
        BY <1>3, <2>1, <4>1
    <3> QED
      BY <1>1, <2>1, <3>1, Constants
  <2>3. \A i \in pos .. ret : i \in pos .. e - 1
    BY <1>1, <1>2, <2>1, <2>2, Constants
  <2> QED
    BY <2>1, <2>3
<1> QED
  BY <1>3, <1>4, <1>5 DEF NoMoreLines

\* The rest of the chunk, which has no LF, is its own image.
LEMMA RestOfChunk ==
    ASSUME SendingText, InChunk, NoMoreLines
    PROVE  /\ SubSeq(buf, pos, ret) \in Seq(Bytes)
           /\ SentOf(taken) = SentOf(taken - ret + pos - 1) \o SubSeq(buf, pos, ret)
<1>1. TypeOK /\ taken \in Nat /\ ret \in 0 .. BufSize /\ buf \in [1 .. BufSize + 1 -> Bytes]
  BY TextFacts DEF TypeOK
<1>2. /\ ret \in 1 .. taken /\ pos \in 1 .. ret + 1
      /\ \A i \in pos .. ret : buf[i] = job.source[taken - ret + i]
  BY DEF InChunk
<1>3. /\ ret <= taken /\ ret \in pos - 1 .. ret /\ taken - ret + ret = taken
      /\ \A i \in pos .. ret : i \in 1 .. BufSize + 1
  BY <1>1, <1>2, Constants
<1>4. ASSUME NEW i \in pos .. ret
      PROVE  buf[i] = job.source[taken - ret + i] /\ ByteToNetwork[buf[i]] = <<buf[i]>>
  <2>1. buf[i] \in Bytes
    BY <1>1, <1>3
  <2>2. buf[i] # "lf"
    BY NoLFLeft
  <2> QED
    BY <1>2, <2>1, <2>2, LineEnds
<1>5. ByteToNetwork \in [Bytes -> Seq(Bytes)]
  BY LineEnds
<1>6. /\ SubSeq(buf, pos, ret) \in Seq(Bytes)
      /\ SentOf(taken - ret + ret) = SentOf(taken - ret + pos - 1) \o SubSeq(buf, pos, ret)
  BY <1>1, <1>2, <1>3, <1>4, <1>5, PartOfChunk DEF SentOf
<1> QED
  BY <1>3, <1>6

\* After a chunk its last byte is the last of a full chunk or of the file.
LEMMA ChunkEnds ==
    ASSUME SendingText, InChunk
    PROVE  taken = Len(job.source) \/ WholeChunks(taken)
<1>1. taken \in Nat /\ ret \in Nat /\ ret <= taken
  BY TextFacts DEF InChunk
<1>2. CASE ret = BufSize
  <2>1. PICK k \in Nat : k <= taken - ret /\ taken - ret = k * BufSize
    BY DEF InChunk, WholeChunks
  <2>2. (k + 1) * BufSize = k * BufSize + BufSize /\ k * BufSize \in Nat
    BY Constants
  <2>3. k + 1 \in Nat /\ k + 1 <= taken /\ taken = (k + 1) * BufSize
    BY <1>1, <1>2, <2>1, <2>2, Constants
  <2> QED
    BY <2>3 DEF WholeChunks
<1> QED
  BY <1>2 DEF InChunk

\* A chunk with a line is written whole, and none of its LFs is left in the buffer.
LEMMA FlushLinesSent ==
    ASSUME SendingText, FlushLines
    PROVE  SentInv'
<1>1. /\ pc = "work" /\ NoMoreLines /\ size > 0 /\ conv' = <<>> /\ size' = 0
      /\ UNCHANGED <<job, taken, buf, ret, pos, shrank>>
  BY DEF FlushLines
<1>2. InChunk
  BY <1>1 DEF SendingText, SentInv
<1>3. /\ TypeOK /\ Sending /\ taken \in Nat /\ ret \in 0 .. BufSize /\ size \in Nat
      /\ out \in Seq(Bytes) /\ conv \in Seq(Bytes)
  BY TextFacts DEF SendingText
<1>4. /\ ret \in 1 .. taken /\ pos \in 1 .. ret + 1
      /\ \A i \in 1 .. BufSize + 1 : i < pos \/ ret < i => buf[i] # "lf"
      /\ out \o conv = SentOf(taken - ret + pos - 1)
      /\ ChunkHasLF
  <2>1. size # 0
    BY <1>1, <1>3
  <2> QED
    BY <1>2, <2>1 DEF InChunk
<1>5. Write(conv \o SubSeq(buf, pos, ret), "read")
  <2>1. ~(pos > ret + 1)
    BY <1>3, <1>4
  <2> QED
    BY <2>1 DEF FlushLines
<1>6. PICK rest \in Seq(Bytes) :
         /\ rest = SubSeq(buf, pos, ret)
         /\ SentOf(taken) = SentOf(taken - ret + pos - 1) \o rest
  BY <1>1, <1>2, RestOfChunk
<1>7. PICK bytes \in Seq(Bytes) : bytes = conv \o rest
  BY <1>3, ConcatProperties, Zenon
<1>8. out' = out \o bytes /\ pc' = "read"
  <2>1. Write(bytes, "read")
    BY <1>5, <1>6, <1>7
  <2> QED
    BY <1>3, <2>1, WritesAll
<1>9. out' = SentOf(taken)
  <2>1. PICK sent \in Seq(Bytes), before \in Seq(Bytes) : sent = out /\ before = conv
    BY <1>3
  <2>2. sent \o (before \o rest) = (sent \o before) \o rest
    BY Together, Zenon
  <2> QED
    BY <1>4, <1>6, <1>7, <1>8, <2>1, <2>2, Zenon
<1>10. ASSUME NEW i \in 1 .. BufSize + 1 PROVE buf[i] # "lf"
  <2>1. i < pos \/ ret < i \/ i \in pos .. ret
    BY <1>3, <1>4, Constants
  <2>2. \A j \in pos .. ret : buf[j] # "lf"
    BY <1>1, <1>2, NoLFLeft
  <2> QED
    BY <1>4, <2>1, <2>2
<1>11. ~(taken = 0) /\ ~ \A i \in taken - BufSize + 1 .. taken : job.source[i] # "lf"
  <2>1. PICK i \in 1 .. ret : job.source[taken - ret + i] = "lf"
    BY <1>4 DEF ChunkHasLF
  <2>2. taken - ret + i \in taken - BufSize + 1 .. taken /\ taken # 0
    BY <1>3, <1>4, Constants
  <2> QED
    BY <2>1, <2>2
<1>12. BetweenChunks'
  <2>1. taken = Len(job.source) \/ WholeChunks(taken)
    BY <1>2, ChunkEnds
  <2>2. (taken = Len(job.source) \/ WholeChunks(taken))'
    BY <1>1, <2>1 DEF WholeChunks
  <2>3. (conv = <<>> /\ size = 0 /\ out = SentOf(taken))'
    BY <1>1, <1>9 DEF SentOf
  <2>4. (\A i \in 1 .. BufSize + 1 : buf[i] # "lf")'
    BY <1>1, <1>10
  <2>5. (~(taken = 0) /\ ~ \A i \in taken - BufSize + 1 .. taken : job.source[i] # "lf")'
    BY <1>1, <1>11
  <2> QED
    BY <2>2, <2>3, <2>4, <2>5 DEF BetweenChunks
<1> QED
  BY <1>8, <1>12 DEF SentInv

\* Nothing is behind a chunk without a line: the string in the buffer is the chunk.
LEMMA FlushStringSent ==
    ASSUME SendingText, FlushString
    PROVE  SentInv'
<1>1. /\ pc = "work" /\ NoMoreLines /\ size = 0 /\ buf' = EmptyBuffer
      /\ UNCHANGED <<job, taken, ret, pos, conv, size, shrank>>
  BY DEF FlushString
<1>2. InChunk
  BY <1>1 DEF SendingText, SentInv
<1>3. /\ TypeOK /\ Sending /\ taken \in Nat /\ ret \in 0 .. BufSize
      /\ out \in Seq(Bytes) /\ conv \in Seq(Bytes)
  BY TextFacts DEF SendingText
<1>4. /\ ret \in 1 .. taken /\ pos = 1 /\ conv = <<>>
      /\ \A i \in pos .. ret : buf[i] = job.source[taken - ret + i]
      /\ out \o conv = SentOf(taken - ret + pos - 1)
      /\ ChunkHasLF \/ \A i \in ret + 1 .. BufSize + 1 : buf[i] = "nul"
  BY <1>1, <1>2 DEF InChunk
<1>5. \A i \in pos .. ret : buf[i] # "lf" /\ buf[i] # "nul"
  BY <1>1, <1>2, NoLFLeft
<1>6. ~ChunkHasLF /\ \A i \in ret + 1 .. BufSize + 1 : buf[i] = "nul"
  BY <1>4, <1>5 DEF ChunkHasLF
<1>7. PICK e \in 1 .. BufSize + 1 : Ends(1, "nul", e) /\ Write(SubSeq(buf, 1, e - 1), "read")
  BY DEF FlushString
<1>8. e - 1 = ret
  <2>1. /\ e \in 1 .. BufSize + 1 /\ buf[e] = "nul"
        /\ \A i \in 1 .. e - 1 : buf[i] # "nul"
    BY <1>7 DEF Ends, StrchrStops
  <2>2. ~(e <= ret)
    <3>1. e <= ret => e \in pos .. ret
      BY <1>4, <2>1
    <3> QED
      BY <1>5, <2>1, <3>1
  <2>3. ~(e > ret + 1)
    <3>1. e > ret + 1 => ret + 1 \in 1 .. e - 1 /\ ret + 1 \in ret + 1 .. BufSize + 1
      BY <1>3, <2>1, Constants
    <3> QED
      BY <1>6, <2>1, <3>1
  <2> QED
    BY <1>3, <2>1, <2>2, <2>3, Constants
<1>9. PICK rest \in Seq(Bytes) :
         /\ rest = SubSeq(buf, pos, ret)
         /\ SentOf(taken) = SentOf(taken - ret + pos - 1) \o rest
  BY <1>1, <1>2, RestOfChunk
<1>10. out' = out \o rest /\ pc' = "read"
  <2>1. Write(rest, "read")
    BY <1>4, <1>7, <1>8, <1>9
  <2> QED
    BY <1>3, <2>1, WritesAll
<1>11. out' = SentOf(taken)
  <2>1. out \o <<>> = out
    BY <1>3, ConcatEmptySeq
  <2> QED
    BY <1>4, <1>9, <1>10, <2>1
<1>12. BetweenChunks'
  <2>1. taken = Len(job.source) \/ WholeChunks(taken)
    BY <1>2, ChunkEnds
  <2>2. (taken = Len(job.source) \/ WholeChunks(taken))'
    BY <1>1, <2>1 DEF WholeChunks
  <2>3. (conv = <<>> /\ size = 0 /\ out = SentOf(taken))'
    BY <1>1, <1>4, <1>11 DEF SentOf
  <2>4. \A i \in 1 .. BufSize + 1 : buf'[i] = "nul"
    BY <1>1 DEF EmptyBuffer
  <2> QED
    BY <2>2, <2>3, <2>4 DEF BetweenChunks
<1> QED
  BY <1>10, <1>12 DEF SentInv

LEMMA NextSent ==
    ASSUME MemoryInv, SentInv, [Next]_vars
    PROVE  SentInv'
<1>1. job' = job
  BY DEF Next, vars, Progress, SendStep, ReceiveStep, Read, CopyChunk, AddLine, FlushLines,
         FlushString, StoreLine, StoreRest, ReadFails, SendFails
<1> SUFFICES ASSUME Sending, ~Binary, NulFree(job.source), NothingBehindLastChunk(job.source)
             PROVE  SentInv'
  BY <1>1 DEF SentInv, Sending, Binary
<1>2. SendingText
  BY DEF SendingText
<1>3. CASE Read
  BY <1>2, <1>3, ReadSent
<1>4. CASE AddLine
  BY <1>2, <1>4, AddLineSent
<1>5. CASE FlushLines
  BY <1>2, <1>5, FlushLinesSent
<1>6. CASE FlushString
  BY <1>2, <1>6, FlushStringSent
<1>7. CASE ReadFails \/ SendFails
  BY <1>7 DEF ReadFails, SendFails, SentInv
<1>8. CASE UNCHANGED vars
  BY <1>8 DEF vars, SentInv, Sending, Binary, SentOf, BetweenChunks, InChunk, ChunkHasLF, WholeChunks
<1> QED
  BY <1>3, <1>4, <1>5, <1>6, <1>7, <1>8 DEF Next, Progress, SendStep, ReceiveStep,
     CopyChunk, StoreLine, StoreRest

\* send_ascii_file sends a text without NULs whole and in order, each LF as CR LF, as
\* long as its last chunk finds no text behind it: for any size of the buffer and
\* wherever the line ends fall in the chunks.
THEOREM AsciiAlwaysSentWhole == Spec => []AsciiSentWhole
<1>1. MemoryInv /\ SentInv /\ [Next]_vars => SentInv'
  BY NextSent
<1>2. Init => SentInv
  BY InitSent, InitMemory DEF MemoryInv
<1>3. SentInv => AsciiSentWhole
  BY DEF SentInv, AsciiSentWhole, SentOf, ToNetwork
<1> QED
  BY <1>1, <1>2, <1>3, AlwaysMemory, PTL DEF Spec

-----------------------------------------------------------------------------
(* The loops.                                                              *)

Advances ==
    \/ taken' > taken
    \/ taken' = taken /\ Stage' < Stage
    \/ taken' = taken /\ Stage' = Stage /\ pos' > pos

LEMMA StepAdvances ==
    ASSUME MemoryInv, Next
    PROVE  Advances
<1>1. /\ TypeOK /\ taken \in Nat /\ pos \in Nat
      /\ buf \in [1 .. BufSize + 1 -> Bytes]
  BY Constants DEF MemoryInv, TypeOK
<1>2. CASE Read
  <2>1. CASE pc' = "done" /\ UNCHANGED taken
    BY <1>2, <2>1 DEF Read, Advances, Stage
  <2>2. CASE \E n \in 1 .. BufSize : taken' = taken + n
    BY <1>1, <2>2, Constants DEF Advances
  <2> QED
    BY <1>1, <1>2, <2>1, <2>2, ReadChunk
<1>3. CASE pc \in {"read", "work"} /\ taken' = taken /\ pc' = "failed"
  BY <1>3 DEF Advances, Stage
<1>4. CASE pc = "work" /\ taken' = taken /\ pc' = "read"
  BY <1>4 DEF Advances, Stage
<1>5. CASE pc = "work" /\ taken' = taken /\ pc' = "work" /\ pos' > pos
  BY <1>5 DEF Advances, Stage
<1>6. CASE ReadFails \/ SendFails
  BY <1>3, <1>6 DEF ReadFails, SendFails
<1>7. CASE CopyChunk \/ FlushLines \/ FlushString \/ StoreRest
  <2>1. pc = "work" /\ taken' = taken
    BY <1>7 DEF CopyChunk, FlushLines, FlushString, StoreRest
  <2>2. pc' \in {"failed", "read"}
    BY <1>7 DEF CopyChunk, FlushLines, FlushString, StoreRest, Write
  <2> QED
    BY <1>3, <1>4, <2>1, <2>2
<1>8. CASE AddLine
  <2>1. PICK lf \in 1 .. BufSize + 1 : Finds(pos, "lf", lf) /\ pos' = lf + 1
    BY <1>8 DEF AddLine
  <2>2. pos' > pos
    BY <1>1, <2>1, Constants DEF Finds, StrchrStops
  <2> QED
    BY <1>5, <1>8, <2>2 DEF AddLine
<1>9. CASE StoreLine
  <2>1. PICK cr \in 1 .. BufSize + 1 :
           /\ Finds(pos, "cr", cr) /\ pos' = cr + 1
           /\ Write(SubSeq(buf, pos, cr - 1), "work")
    BY <1>9 DEF StoreLine
  <2>2. pos' > pos
    BY <1>1, <2>1, Constants DEF Finds, StrchrStops
  <2>3. pc = "work" /\ taken' = taken
    BY <1>9 DEF StoreLine
  <2>4. pc' \in {"failed", "work"}
    BY <2>1 DEF Write
  <2> QED
    BY <1>3, <1>5, <2>2, <2>3, <2>4
<1> QED
  BY <1>2, <1>6, <1>7, <1>8, <1>9 DEF Next, Progress, SendStep, ReceiveStep

\* No loop of the four functions turns without getting on, for any size of the buffer
\* and any file: a step reads more, leaves a stage behind, or moves on in the buffer,
\* and the file, the stages and the buffer have an end (TypeCorrect).
THEOREM EveryTurnAlwaysAdvances == Spec => EveryTurnAdvances
<1>1. MemoryInv /\ [Next]_vars => [Advances]_vars
  BY StepAdvances
<1> QED
  BY <1>1, AlwaysMemory, PTL DEF Spec, EveryTurnAdvances, Advances
=============================================================================
