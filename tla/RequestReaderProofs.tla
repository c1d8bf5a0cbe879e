------------------------ MODULE RequestReaderProofs ------------------------
(***************************************************************************)
(* Theorems of RequestReader, for any sizes of the buffers, any lines and  *)
(* any way of cutting the stream.                                          *)
(***************************************************************************)
EXTENDS RequestReader, SequenceTheorems, TLAPS

-----------------------------------------------------------------------------
(* The bytes of a line and of a chunk.                                     *)

LEMMA LineBytes ==
    ASSUME NEW line \in 1 .. MaxSent, NEW length \in Nat
    PROVE  /\ Line(line, length) \in Seq(ByteSet)
           /\ Len(Line(line, length)) = length + 2
           /\ \A k \in 1 .. length + 2 :
                 /\ Line(line, length)[k].line = line
                 /\ k < length + 2 => Line(line, length)[k].char # "lf"
<1> DEFINE text == [i \in 1 .. length |-> Byte(line, "text")]
           crlf == <<Byte(line, "cr"), Byte(line, "lf")>>
<1>1. \A c \in {"text", "cr", "lf"} : Byte(line, c) \in ByteSet
  BY DEF Byte, ByteSet
<1>2. text \in Seq(ByteSet) /\ Len(text) = length
  BY <1>1
<1>3. /\ crlf \in Seq(ByteSet) /\ Len(crlf) = 2
      /\ crlf[1] = Byte(line, "cr") /\ crlf[2] = Byte(line, "lf")
  BY <1>1
<1>4. \A k \in 1 .. length : text[k] = Byte(line, "text")
  OBVIOUS
<1> HIDE DEF text, crlf
<1>5. /\ text \o crlf \in Seq(ByteSet)
      /\ Len(text \o crlf) = length + 2
      /\ \A k \in 1 .. length + 2 :
            (text \o crlf)[k] = IF k <= length THEN text[k] ELSE crlf[k - length]
  <2>1. /\ text \o crlf \in Seq(ByteSet)
        /\ Len(text \o crlf) = Len(text) + Len(crlf)
        /\ \A k \in 1 .. Len(text) + Len(crlf) :
              (text \o crlf)[k] = IF k <= Len(text) THEN text[k] ELSE crlf[k - Len(text)]
    <3>1. text \in Seq(ByteSet) /\ crlf \in Seq(ByteSet)
      BY <1>2, <1>3
    <3> QED
      BY <3>1, ConcatProperties, Zenon
  <2> QED
    BY <2>1, <1>2, <1>3
<1>6. \A k \in 1 .. length + 2 :
         /\ (text \o crlf)[k].line = line
         /\ k < length + 2 => (text \o crlf)[k].char # "lf"
  <2> TAKE k \in 1 .. length + 2
  <2>1. CASE k <= length
    BY <2>1, <1>4, <1>5 DEF Byte
  <2>2. CASE ~(k <= length)
    <3>1. k = length + 1 \/ k = length + 2
      BY <2>2
    <3>2. CASE k = length + 1
      <4>1. k - length = 1
        BY <3>2
      <4> QED
        BY <3>2, <4>1, <2>2, <1>3, <1>5 DEF Byte
    <3>3. CASE k = length + 2
      <4>1. k - length = 2
        BY <3>3
      <4> QED
        BY <3>3, <4>1, <2>2, <1>3, <1>5 DEF Byte
    <3> QED
      BY <3>1, <3>2, <3>3
  <2> QED
    BY <2>1, <2>2
<1> QED
  BY <1>5, <1>6 DEF Line, text, crlf

\* read() cuts the wire in two.
LEMMA ChunkBytes ==
    ASSUME NEW n \in ReadSizes, wire \in Seq(ByteSet), BufSize \in Nat
    PROVE  /\ n \in 0 .. Len(wire)
           /\ SubSeq(wire, 1, n) \in Seq(ByteSet)
           /\ Len(SubSeq(wire, 1, n)) = n
           /\ SubSeq(wire, n + 1, Len(wire)) \in Seq(ByteSet)
           /\ SubSeq(wire, 1, n) \o SubSeq(wire, n + 1, Len(wire)) = wire
<1>1. n \in 0 .. Len(wire)
  BY DEF ReadSizes
<1>2. \A i \in 1 .. Len(wire) : wire[i] \in ByteSet
  BY ElementOfSeq
<1>3. SubSeq(wire, 1, n) \in Seq(ByteSet) /\ Len(SubSeq(wire, 1, n)) = n
  BY <1>1, <1>2, SubSeqProperties
<1>4. SubSeq(wire, n + 1, Len(wire)) \in Seq(ByteSet)
  BY <1>1, <1>2, SubSeqProperties
<1>5. SubSeq(wire, 1, n) \o SubSeq(wire, n + 1, Len(wire)) = wire
  <2>1. SubSeq(wire, 1, n) \o SubSeq(wire, n + 1, Len(wire)) = SubSeq(wire, 1, Len(wire))
    <3>1. /\ 1 \in 1 .. Len(wire) + 1 /\ n \in 1 - 1 .. Len(wire)
          /\ Len(wire) \in n .. Len(wire)
      BY <1>1
    <3> QED
      BY <3>1, ConcatAdjacentSubSeq, Zenon
  <2> QED
    BY <2>1, SubSeqFull
<1> QED
  BY <1>1, <1>3, <1>4, <1>5

\* The line init_cmd keeps is that of the first byte, or none.
LEMMA KeptLineOf ==
    ASSUME NEW bytes \in Seq(ByteSet)
    PROVE  KeptLine(bytes) = 0
           \/ (Len(bytes) >= 1 /\ KeptLine(bytes) = bytes[1].line /\ bytes[1] \in ByteSet)
<1>1. CASE CRLFs(bytes) = {}
  BY <1>1 DEF KeptLine
<1>2. CASE CRLFs(bytes) # {}
  <2>1. Len(bytes) >= 1
    BY <1>2 DEF CRLFs
  <2> QED
    BY <2>1, ElementOfSeq DEF KeptLine
<1> QED
  BY <1>1, <1>2

-----------------------------------------------------------------------------
(* The types and the room behind *request.                                 *)

LEMMA FreshBufferTypes ==
    ASSUME FreshBuffer
    PROVE  /\ request' \in Seq(ByteSet) /\ alloc' \in Nat /\ written' \in Nat
           /\ remaining' \in Int /\ written' = Len(request')
           /\ BufferSafe'
<1>1. Slack \in Nat \ {0}
  BY ReaderAssumption
<1>2. request' = <<>> /\ alloc' = Slack + 1 /\ written' = 0 /\ remaining' = Slack
  BY DEF FreshBuffer
<1>3. <<>> \in Seq(ByteSet) /\ Len(<<>>) = 0
  OBVIOUS
<1> QED
  BY <1>1, <1>2, <1>3 DEF BufferSafe

LEMMA ReadChunkRoom ==
    ASSUME TypeOK, BufferSafe, NEW n \in Nat,
           alloc' = Grown(n), written' = written + n, remaining' = remaining - n
    PROVE  alloc' \in Nat /\ written' \in Nat /\ remaining' \in Int /\ BufferSafe'
<1>1. Slack \in Nat \ {0} /\ alloc \in Nat /\ written \in Nat /\ remaining \in Int
  BY ReaderAssumption DEF TypeOK
<1>2. CASE n > remaining
  BY <1>1, <1>2 DEF Grown, BufferSafe
<1>3. CASE ~(n > remaining)
  BY <1>1, <1>3 DEF Grown, BufferSafe
<1> QED
  BY <1>2, <1>3

\* What ReadChunk does to the bytes.
LEMMA ReadChunkBytes ==
    ASSUME TypeOK, BufferSafe, ReadChunk
    PROVE  \E n \in ReadSizes :
              LET chunk == SubSeq(wire, 1, n)
              IN  /\ n \in 0 .. Len(wire)
                  /\ chunk \in Seq(ByteSet) /\ Len(chunk) = n
                  /\ wire' \in Seq(ByteSet) /\ wire = chunk \o wire'
                  /\ request' = request \o chunk
                  /\ request' \in Seq(ByteSet) /\ Len(request') = Len(request) + n
                  /\ written' = Len(request')
                  /\ alloc' \in Nat /\ written' \in Nat /\ remaining' \in Int
                  /\ BufferSafe'
                  /\ \E ends \in LoopMayEnd(chunk) : pc' = (IF ends THEN "read" ELSE "reading")
<1>1. PICK n \in ReadSizes :
           /\ wire' = SubSeq(wire, n + 1, Len(wire))
           /\ alloc' = Grown(n)
           /\ request' = request \o SubSeq(wire, 1, n)
           /\ written' = written + n
           /\ remaining' = remaining - n
           /\ \E ends \in LoopMayEnd(SubSeq(wire, 1, n)) :
                 pc' = (IF ends THEN "read" ELSE "reading")
  BY Zenon DEF ReadChunk
<1>2. wire \in Seq(ByteSet) /\ request \in Seq(ByteSet) /\ BufSize \in Nat /\ written = Len(request)
  BY ReaderAssumption DEF TypeOK
<1>3. /\ n \in 0 .. Len(wire)
      /\ SubSeq(wire, 1, n) \in Seq(ByteSet)
      /\ Len(SubSeq(wire, 1, n)) = n
      /\ SubSeq(wire, n + 1, Len(wire)) \in Seq(ByteSet)
      /\ SubSeq(wire, 1, n) \o SubSeq(wire, n + 1, Len(wire)) = wire
  BY <1>2, ChunkBytes
<1>4. n \in Nat
  BY <1>2, <1>3
<1>5. alloc' \in Nat /\ written' \in Nat /\ remaining' \in Int /\ BufferSafe'
  BY <1>1, <1>4, ReadChunkRoom
<1>6. request' \in Seq(ByteSet) /\ Len(request') = Len(request) + n
  BY <1>1, <1>2, <1>3, ConcatProperties
<1>7. written' = Len(request')
  BY <1>1, <1>2, <1>6
<1> QED
  BY <1>1, <1>3, <1>5, <1>6, <1>7, Zenon

LEMMA AnswerTypes ==
    ASSUME TypeOK, Handle
    PROVE  answers' \in Seq(0 .. MaxSent)
<1>1. KeptLine(request) \in 0 .. MaxSent
  <2>1. request \in Seq(ByteSet)
    BY DEF TypeOK
  <2>2. MaxSent \in Nat /\ \A b \in ByteSet : b.line \in 1 .. MaxSent
    BY ReaderAssumption DEF ByteSet
  <2>3. KeptLine(request) = 0 \/ KeptLine(request) \in 1 .. MaxSent
    BY <2>1, <2>2, KeptLineOf
  <2> QED
    BY <2>2, <2>3
<1>2. answers' = Append(answers, KeptLine(request)) /\ answers \in Seq(0 .. MaxSent)
  BY DEF Handle, TypeOK
<1> QED
  BY <1>1, <1>2

LEMMA SendBytes ==
    ASSUME TypeOK, NEW length \in LineLengths, Send(length)
    PROVE  /\ Sent + 1 \in 1 .. MaxSent /\ Sent \in Nat /\ Sent' = Sent + 1
           /\ length \in Nat
           /\ Line(Sent + 1, length) \in Seq(ByteSet)
           /\ wire' \in Seq(ByteSet) /\ wire' = wire \o Line(Sent + 1, length)
           /\ lengths' \in Seq(LineLengths)
<1>1. length \in Nat /\ lengths \in Seq(LineLengths) /\ wire \in Seq(ByteSet) /\ MaxSent \in Nat
  BY ReaderAssumption DEF TypeOK
<1>2. /\ Sent < MaxSent /\ wire' = wire \o Line(Sent + 1, length)
      /\ lengths' = Append(lengths, length)
  BY DEF Send
<1>3. Sent \in Nat /\ Sent + 1 \in 1 .. MaxSent
  BY <1>1, <1>2 DEF Sent
<1>4. Line(Sent + 1, length) \in Seq(ByteSet)
  BY <1>1, <1>3, LineBytes
<1>5. wire' \in Seq(ByteSet)
  BY <1>1, <1>2, <1>4, ConcatProperties
<1>6. lengths' \in Seq(LineLengths) /\ Sent' = Sent + 1
  BY <1>1, <1>2 DEF Sent
<1> QED
  BY <1>1, <1>2, <1>3, <1>4, <1>5, <1>6

LEMMA TypeAndRoomStep == TypeOK /\ BufferSafe /\ [Next]_vars => TypeOK' /\ BufferSafe'
<1> SUFFICES ASSUME TypeOK, BufferSafe, [Next]_vars PROVE TypeOK' /\ BufferSafe'
  OBVIOUS
<1>1. ASSUME NEW length \in LineLengths, Send(length) PROVE TypeOK' /\ BufferSafe'
  <2>1. wire' \in Seq(ByteSet) /\ lengths' \in Seq(LineLengths)
    BY <1>1, SendBytes
  <2>2. UNCHANGED <<window, eof, pc, bufferVars, answers>>
    BY <1>1 DEF Send
  <2> QED
    BY <2>1, <2>2 DEF TypeOK, BufferSafe, bufferVars
<1>2. CASE Shutdown
  BY <1>2 DEF Shutdown, TypeOK, BufferSafe, bufferVars
<1>3. CASE ReadChunk
  <2>1. /\ wire' \in Seq(ByteSet) /\ request' \in Seq(ByteSet)
        /\ written' = Len(request')
        /\ alloc' \in Nat /\ written' \in Nat /\ remaining' \in Int
        /\ BufferSafe'
        /\ pc' \in {"reading", "read"}
    BY <1>3, ReadChunkBytes
  <2>2. UNCHANGED <<clientVars, answers>>
    BY <1>3 DEF ReadChunk
  <2> QED
    BY <2>1, <2>2 DEF TypeOK, clientVars
<1>4. CASE ReadFails
  BY <1>4 DEF ReadFails, TypeOK, BufferSafe, clientVars, bufferVars
<1>5. CASE Handle
  <2>1. pc' = "reading" /\ FreshBuffer /\ UNCHANGED <<wire, clientVars>>
    BY <1>5 DEF Handle
  <2> QED
    BY <1>5, <2>1, FreshBufferTypes, AnswerTypes DEF TypeOK, clientVars
<1>6. CASE HandleBlank
  BY <1>6 DEF HandleBlank, TypeOK, BufferSafe, clientVars, bufferVars
<1>7. CASE UNCHANGED vars
  BY <1>7 DEF vars, clientVars, bufferVars, TypeOK, BufferSafe
<1> QED
  BY <1>1, <1>2, <1>3, <1>4, <1>5, <1>6, <1>7 DEF Next, Client, Server

LEMMA TypeAndRoomInit == Init => TypeOK /\ BufferSafe
<1>1. Slack \in Nat \ {0}
  BY ReaderAssumption
<1>2. /\ <<>> \in Seq(ByteSet) /\ <<>> \in Seq(LineLengths) /\ <<>> \in Seq(0 .. MaxSent)
      /\ Len(<<>>) = 0
  OBVIOUS
<1>3. Init => TypeOK
  <2> SUFFICES ASSUME Init PROVE TypeOK
    OBVIOUS
  <2>1. /\ wire \in Seq(ByteSet) /\ lengths \in Seq(LineLengths) /\ request \in Seq(ByteSet)
        /\ answers \in Seq(0 .. MaxSent) /\ written = Len(request)
    BY <1>2, Zenon DEF Init
  <2>2. eof = FALSE /\ pc = "reading" /\ alloc = Slack + 1 /\ written = 0 /\ remaining = Slack
    BY Zenon DEF Init
  <2>3. alloc \in Nat /\ written \in Nat /\ remaining \in Int
    BY <1>1, <2>2
  <2>4. eof \in BOOLEAN /\ window \in Nat
    BY <2>2, ReaderAssumption DEF Init
  <2> QED
    BY <2>1, <2>2, <2>3, <2>4 DEF TypeOK
<1>4. Init => BufferSafe
  BY <1>1 DEF Init, BufferSafe
<1> QED
  BY <1>3, <1>4

\* Every variable holds a value of its kind, and nb_written_char counts the bytes of
\* the request, for any sizes and lines.
THEOREM TypeCorrect == Spec => []TypeOK
BY TypeAndRoomInit, TypeAndRoomStep, PTL DEF Spec

\* For any BUF_SIZE and request_size, and any way of cutting the stream, the memory
\* behind *request holds what is copied to it and the final NUL.
THEOREM RequestAlwaysFits == Spec => []BufferSafe
BY TypeAndRoomInit, TypeAndRoomStep, PTL DEF Spec

-----------------------------------------------------------------------------
(* The order of the answers.  What has been read for the current request   *)
(* and what is still on the wire form one stream, in the order of the      *)
(* lines; all of it is of later lines than the answered ones, because a    *)
(* request is handled only when it ends with a whole line.                 *)

Ordered(s) ==
    \A i, j \in 1 .. Len(s) :
        i < j => s[i].line <= s[j].line /\ (s[i].char = "lf" => s[i].line < s[j].line)

Stream == request \o wire

StreamSent == \A k \in 1 .. Len(Stream) : Stream[k].line <= Sent

AnswersBehind ==
    \A i \in DOMAIN answers : \A k \in 1 .. Len(Stream) : answers[i] < Stream[k].line

ReadEnds ==
    pc = "read" => \/ Len(request) >= 1 /\ request[Len(request)].char = "lf"
                   \/ wire = <<>> /\ eof

OrderInv ==
    /\ TypeOK /\ BufferSafe
    /\ Ordered(Stream)
    /\ StreamSent
    /\ AnswersBehind
    /\ AnswersFollowLines
    /\ ReadEnds

LEMMA ByteLines == \A b \in ByteSet : b.line \in 1 .. MaxSent /\ b.line \in Nat /\ b.line >= 1
BY ReaderAssumption DEF ByteSet

LEMMA ConcatIndex ==
    ASSUME NEW s \in Seq(ByteSet), NEW t \in Seq(ByteSet)
    PROVE  /\ s \o t \in Seq(ByteSet) /\ Len(s) \in Nat /\ Len(t) \in Nat
           /\ Len(s \o t) = Len(s) + Len(t)
           /\ \A k \in 1 .. Len(s) : (s \o t)[k] = s[k] /\ s[k] \in ByteSet
           /\ \A k \in 1 .. Len(t) : (s \o t)[Len(s) + k] = t[k] /\ t[k] \in ByteSet
           /\ \A k \in Len(s) + 1 .. Len(s) + Len(t) :
                 k - Len(s) \in 1 .. Len(t) /\ (s \o t)[k] = t[k - Len(s)]
<1>1. /\ s \o t \in Seq(ByteSet)
      /\ Len(s \o t) = Len(s) + Len(t)
      /\ \A k \in 1 .. Len(s) + Len(t) :
            (s \o t)[k] = IF k <= Len(s) THEN s[k] ELSE t[k - Len(s)]
  BY ConcatProperties, Zenon
<1>2. Len(s) \in Nat /\ Len(t) \in Nat
  OBVIOUS
<1>3. \A k \in 1 .. Len(s) : (s \o t)[k] = s[k] /\ s[k] \in ByteSet
  BY <1>1, <1>2
<1>4. ASSUME NEW k \in 1 .. Len(t) PROVE (s \o t)[Len(s) + k] = t[k] /\ t[k] \in ByteSet
  <2>1. /\ Len(s) + k \in 1 .. Len(s) + Len(t) /\ ~(Len(s) + k <= Len(s))
        /\ Len(s) + k - Len(s) = k
    BY <1>2
  <2> QED
    BY <1>1, <2>1
<1>5. ASSUME NEW k \in Len(s) + 1 .. Len(s) + Len(t)
      PROVE  k - Len(s) \in 1 .. Len(t) /\ (s \o t)[k] = t[k - Len(s)]
  <2>1. k \in 1 .. Len(s) + Len(t) /\ ~(k <= Len(s)) /\ k - Len(s) \in 1 .. Len(t)
    BY <1>2
  <2> QED
    BY <1>1, <2>1
<1> QED
  BY <1>1, <1>2, <1>3, <1>4, <1>5

LEMMA ConcatThree ==
    \A s, t, u \in Seq(ByteSet) : (s \o t) \o u = s \o (t \o u)
BY ConcatAssociative

\* A new line goes behind everything sent before.
LEMMA LineBehind ==
    ASSUME NEW s \in Seq(ByteSet), NEW L \in Nat, L + 1 \in 1 .. MaxSent, NEW length \in Nat,
           Ordered(s), \A k \in 1 .. Len(s) : s[k].line <= L
    PROVE  /\ Ordered(s \o Line(L + 1, length))
           /\ \A k \in 1 .. Len(s \o Line(L + 1, length)) :
                 /\ (s \o Line(L + 1, length))[k].line <= L + 1
                 /\ \/ k \in 1 .. Len(s) /\ (s \o Line(L + 1, length))[k] = s[k]
                    \/ (s \o Line(L + 1, length))[k].line = L + 1
<1> DEFINE t == Line(L + 1, length)
           r == s \o t
<1>1. /\ t \in Seq(ByteSet) /\ Len(t) = length + 2
      /\ \A k \in 1 .. length + 2 : t[k].line = L + 1 /\ (k < length + 2 => t[k].char # "lf")
  BY LineBytes
<1> HIDE DEF t
<1>2. /\ Len(s) \in Nat /\ Len(r) = Len(s) + Len(t)
      /\ \A k \in 1 .. Len(s) : r[k] = s[k] /\ s[k] \in ByteSet
      /\ \A k \in Len(s) + 1 .. Len(s) + Len(t) : k - Len(s) \in 1 .. Len(t) /\ r[k] = t[k - Len(s)]
  BY <1>1, ConcatIndex
<1> HIDE DEF r
<1>3. \A k \in 1 .. Len(r) :
         \/ k \in 1 .. Len(s) /\ r[k] = s[k] /\ s[k] \in ByteSet
         \/ k \in Len(s) + 1 .. Len(r) /\ r[k].line = L + 1 /\ (k < Len(r) => r[k].char # "lf")
  BY <1>1, <1>2
<1>4. Ordered(r)
  <2> SUFFICES ASSUME NEW i \in 1 .. Len(r), NEW j \in 1 .. Len(r), i < j
               PROVE  r[i].line <= r[j].line /\ (r[i].char = "lf" => r[i].line < r[j].line)
    BY DEF Ordered
  <2>1. CASE j \in 1 .. Len(s)
    <3>1. i \in 1 .. Len(s)
      BY <2>1
    <3> QED
      BY <2>1, <3>1, <1>2 DEF Ordered
  <2>2. CASE i \in 1 .. Len(s) /\ j \notin 1 .. Len(s)
    <3>1. r[i].line <= L /\ r[i].line \in Nat
      BY <2>2, <1>2, ByteLines
    <3>2. r[j].line = L + 1
      BY <2>2, <1>3
    <3> QED
      BY <3>1, <3>2
  <2>3. CASE i \notin 1 .. Len(s) /\ j \notin 1 .. Len(s)
    <3>1. i < Len(r)
      BY <1>1, <1>2
    <3> QED
      BY <2>3, <3>1, <1>3
  <2> QED
    BY <2>1, <2>2, <2>3
<1>5. \A k \in 1 .. Len(r) :
         r[k].line <= L + 1 /\ ((k \in 1 .. Len(s) /\ r[k] = s[k]) \/ r[k].line = L + 1)
  BY <1>3, ByteLines
<1> QED
  BY <1>4, <1>5 DEF r, t

LEMMA SendOrder ==
    ASSUME OrderInv, NEW length \in LineLengths, Send(length), TypeOK', BufferSafe'
    PROVE  OrderInv'
<1> DEFINE new == Line(Sent + 1, length)
<1>1. /\ request \in Seq(ByteSet) /\ wire \in Seq(ByteSet) /\ Stream \in Seq(ByteSet)
      /\ new \in Seq(ByteSet)
      /\ Sent \in Nat /\ Sent + 1 \in 1 .. MaxSent /\ length \in Nat /\ Sent' = Sent + 1
      /\ answers \in Seq(0 .. MaxSent)
  BY SendBytes, ConcatProperties DEF OrderInv, TypeOK, Stream
<1>2. Stream' = Stream \o new
  <2>1. request' = request /\ wire' = wire \o new
    BY DEF Send, bufferVars
  <2> HIDE DEF new
  <2>2. request \o (wire \o new) = (request \o wire) \o new
    BY <1>1, ConcatThree
  <2> QED
    BY <2>1, <2>2, Zenon DEF Stream
<1>3. /\ Ordered(Stream')
      /\ \A k \in 1 .. Len(Stream') :
            /\ Stream'[k].line <= Sent'
            /\ (k \in 1 .. Len(Stream) /\ Stream'[k] = Stream[k]) \/ Stream'[k].line = Sent + 1
  BY <1>1, <1>2, LineBehind DEF OrderInv, StreamSent
<1>4. answers' = answers /\ pc' = pc /\ request' = request /\ eof' = eof /\ ~eof
  BY DEF Send, bufferVars
<1>5. \A i \in DOMAIN answers : answers[i] \in Nat /\ answers[i] <= Sent
  BY <1>1, ReaderAssumption DEF OrderInv, AnswersFollowLines
<1>6. AnswersBehind'
  <2> SUFFICES ASSUME NEW i \in DOMAIN answers, NEW k \in 1 .. Len(Stream')
               PROVE  answers[i] < Stream'[k].line
    BY <1>4 DEF AnswersBehind
  <2>1. CASE k \in 1 .. Len(Stream) /\ Stream'[k] = Stream[k]
    BY <2>1 DEF OrderInv, AnswersBehind
  <2>2. CASE Stream'[k].line = Sent + 1
    BY <2>2, <1>1, <1>5
  <2> QED
    BY <1>3, <2>1, <2>2
<1>7. AnswersFollowLines'
  <2>1. \A i \in DOMAIN answers : answers[i] <= Sent'
    BY <1>1, <1>5
  <2> QED
    BY <2>1, <1>4 DEF AnswersFollowLines, OrderInv
<1>8. ReadEnds'
  BY <1>4 DEF OrderInv, ReadEnds
<1>9. Ordered(Stream)' /\ StreamSent'
  BY <1>3 DEF Ordered, StreamSent
<1> QED
  BY <1>6, <1>7, <1>8, <1>9 DEF OrderInv

LEMMA LoopMayEndCases ==
    ASSUME NEW chunk, TRUE \in LoopMayEnd(chunk)
    PROVE  /\ Len(chunk) >= 2 => EndsWithCRLF(chunk)
           /\ Len(chunk) = 1 => chunk[1].char = "lf"
BY Zenon DEF LoopMayEnd

\* The chunk that ends the loop ends with a LF, or nothing is left to come.
LEMMA ChunkEnds ==
    ASSUME NEW n \in ReadSizes, NEW chunk \in Seq(ByteSet), Len(chunk) = n,
           TRUE \in LoopMayEnd(chunk)
    PROVE  \/ Len(chunk) >= 1 /\ chunk[Len(chunk)].char = "lf"
           \/ n = 0 /\ wire = <<>> /\ eof
<1>1. /\ Len(chunk) >= 2 => EndsWithCRLF(chunk)
      /\ Len(chunk) = 1 => chunk[1].char = "lf"
  BY LoopMayEndCases
<1>2. n \in Nat
  OBVIOUS
<1>3. CASE n >= 2
  <2>1. EndsWithCRLF(chunk)
    BY <1>1, <1>3
  <2>2. chunk[Len(chunk)].char = "lf"
    BY <2>1 DEF EndsWithCRLF
  <2> QED
    BY <1>3, <2>2
<1>4. CASE n = 1
  BY <1>1, <1>4
<1>5. CASE n = 0
  BY <1>5 DEF ReadSizes
<1> QED
  BY <1>2, <1>3, <1>4, <1>5

LEMMA ReadOrder ==
    ASSUME OrderInv, ReadChunk, TypeOK', BufferSafe'
    PROVE  OrderInv'
<1>t. TypeOK /\ BufferSafe
  BY DEF OrderInv
<1>1. PICK n \in ReadSizes :
           LET chunk == SubSeq(wire, 1, n)
           IN  /\ chunk \in Seq(ByteSet) /\ Len(chunk) = n
               /\ wire' \in Seq(ByteSet) /\ wire = chunk \o wire'
               /\ request' = request \o chunk
               /\ request' \in Seq(ByteSet) /\ Len(request') = Len(request) + n
               /\ \E ends \in LoopMayEnd(chunk) : pc' = (IF ends THEN "read" ELSE "reading")
  BY <1>t, ReadChunkBytes, Zenon
<1> DEFINE chunk == SubSeq(wire, 1, n)
<1>2. /\ chunk \in Seq(ByteSet) /\ Len(chunk) = n
      /\ wire' \in Seq(ByteSet) /\ wire = chunk \o wire'
      /\ request' = request \o chunk
      /\ \E ends \in LoopMayEnd(chunk) : pc' = (IF ends THEN "read" ELSE "reading")
      /\ request \in Seq(ByteSet)
  BY <1>1, <1>t DEF TypeOK
<1> HIDE DEF chunk
<1>3. Stream' = Stream
  <2>1. (request \o chunk) \o wire' = request \o (chunk \o wire')
    BY <1>2, ConcatThree
  <2> QED
    BY <1>2, <2>1, Zenon DEF Stream
<1>4. UNCHANGED <<answers, lengths, eof>>
  BY DEF ReadChunk, clientVars
<1>5. ReadEnds'
  <2> SUFFICES ASSUME pc' = "read" PROVE ReadEnds'
    BY DEF ReadEnds
  <2>1. TRUE \in LoopMayEnd(chunk)
    <3>1. PICK ends \in LoopMayEnd(chunk) : pc' = (IF ends THEN "read" ELSE "reading")
      BY <1>2
    <3>2. LoopMayEnd(chunk) \subseteq BOOLEAN
      BY Zenon DEF LoopMayEnd
    <3>3. ends = TRUE
      BY <3>1, <3>2
    <3> QED
      BY <3>3
  <2>2. CASE Len(chunk) >= 1 /\ chunk[Len(chunk)].char = "lf"
    <3>1. Len(request') = Len(request) + Len(chunk)
          /\ request'[Len(request) + Len(chunk)] = chunk[Len(chunk)]
      BY <1>2, <2>2, ConcatIndex
    <3>2. Len(request') >= 1
      BY <1>2, <2>2, <3>1
    <3> QED
      BY <2>2, <3>1, <3>2 DEF ReadEnds
  <2>3. CASE n = 0 /\ wire = <<>> /\ eof
    <3>1. wire' = <<>>
      BY <1>2, <2>3, ConcatEqualIffEmpty, EmptySeq
    <3> QED
      BY <3>1, <2>3, <1>4 DEF ReadEnds
  <2> QED
    BY <1>2, <2>1, <2>2, <2>3, ChunkEnds
<1> QED
  BY <1>3, <1>4, <1>5 DEF OrderInv, Ordered, StreamSent, AnswersBehind, AnswersFollowLines, Sent

LEMMA HandleOrder ==
    ASSUME OrderInv, Handle, TypeOK', BufferSafe'
    PROVE  OrderInv'
<1>1. /\ pc = "read" /\ pc' = "reading" /\ request' = <<>>
      /\ UNCHANGED <<wire, eof, lengths>>
      /\ answers' = Append(answers, KeptLine(request))
  BY DEF Handle, FreshBuffer, clientVars
<1>2. /\ request \in Seq(ByteSet) /\ wire \in Seq(ByteSet) /\ answers \in Seq(0 .. MaxSent)
      /\ MaxSent \in Nat /\ Sent \in Nat /\ Sent' = Sent
  BY <1>1, ReaderAssumption DEF OrderInv, TypeOK, Sent
<1>3. Stream' = wire
  BY <1>1, <1>2, ConcatEmptySeq DEF Stream
<1>4. /\ Len(Stream) = Len(request) + Len(wire) /\ Len(request) \in Nat /\ Len(wire) \in Nat
      /\ \A k \in 1 .. Len(request) : Stream[k] = request[k] /\ request[k] \in ByteSet
      /\ \A k \in 1 .. Len(wire) : Stream[Len(request) + k] = wire[k] /\ wire[k] \in ByteSet
  BY <1>2, ConcatIndex DEF Stream
<1>5. \A k \in 1 .. Len(wire) : Len(request) + k \in 1 .. Len(Stream)
  BY <1>4
<1>6. Ordered(wire) /\ \A k \in 1 .. Len(wire) : wire[k].line <= Sent
  <2>1. \A i, j \in 1 .. Len(wire) : i < j => Len(request) + i < Len(request) + j
    BY <1>4
  <2> QED
    BY <1>4, <1>5, <2>1 DEF OrderInv, Ordered, StreamSent
<1>7. \A k \in 1 .. Len(wire) : KeptLine(request) < wire[k].line
  <2> SUFFICES ASSUME NEW k \in 1 .. Len(wire) PROVE KeptLine(request) < wire[k].line
    OBVIOUS
  <2>1. wire # <<>>
    BY <1>2
  <2>2. Len(request) >= 1 /\ request[Len(request)].char = "lf"
    BY <1>1, <2>1 DEF OrderInv, ReadEnds
  <2>3. /\ Len(request) \in 1 .. Len(request) /\ 1 \in 1 .. Len(request)
        /\ Len(request) \in 1 .. Len(Stream) /\ 1 \in 1 .. Len(Stream)
        /\ Len(request) < Len(request) + k
    BY <1>4, <2>2
  <2>4. Stream[Len(request)].line < wire[k].line
    BY <1>4, <1>5, <2>2, <2>3 DEF OrderInv, Ordered
  <2>5. request[1].line <= request[Len(request)].line
    <3>1. CASE Len(request) = 1
      BY <3>1, <2>3, <1>4, ByteLines
    <3>2. CASE Len(request) > 1
      BY <3>2, <2>3, <1>4 DEF OrderInv, Ordered
    <3>3. Len(request) = 1 \/ Len(request) > 1
      <4>1. Len(request) \in Nat /\ Len(request) >= 1
        BY <1>4, <2>2
      <4> QED
        BY <4>1
    <3> QED
      BY <3>1, <3>2, <3>3, Zenon
  <2>6. /\ request[1].line \in Nat /\ request[Len(request)].line \in Nat
        /\ wire[k].line \in Nat /\ wire[k].line >= 1
    BY <1>4, <2>3, ByteLines
  <2>7. request[1].line < wire[k].line
    <3>1. request[Len(request)].line < wire[k].line
      BY <1>4, <2>3, <2>4, Zenon
    <3> QED
      BY <2>5, <2>6, <3>1
  <2>8. KeptLine(request) = 0 \/ KeptLine(request) = request[1].line
    BY <1>2, KeptLineOf
  <2>9. 0 < wire[k].line
    BY <2>6
  <2> QED
    BY <2>7, <2>8, <2>9
<1>8. /\ KeptLine(request) \in Nat /\ KeptLine(request) <= Sent
      /\ \A i \in DOMAIN answers : KeptLine(request) # 0 => answers[i] < KeptLine(request)
  <2>1. CASE KeptLine(request) = 0
    BY <2>1, <1>2
  <2>2. CASE Len(request) >= 1 /\ KeptLine(request) = request[1].line
    <3>1. 1 \in 1 .. Len(request) /\ 1 \in 1 .. Len(Stream)
      BY <2>2, <1>4
    <3>2. Stream[1].line = KeptLine(request) /\ KeptLine(request) \in Nat
      BY <2>2, <3>1, <1>4, ByteLines
    <3> QED
      BY <3>1, <3>2 DEF OrderInv, StreamSent, AnswersBehind
  <2> QED
    BY <1>2, <2>1, <2>2, KeptLineOf
<1>9. /\ DOMAIN answers = 1 .. Len(answers) /\ DOMAIN answers' = 1 .. Len(answers) + 1
      /\ Len(answers) \in Nat
      /\ \A i \in 1 .. Len(answers) : answers'[i] = answers[i] /\ answers[i] \in Nat
      /\ answers'[Len(answers) + 1] = KeptLine(request)
  BY <1>1, <1>2, <1>8
<1>10. AnswersBehind'
  <2> SUFFICES ASSUME NEW i \in 1 .. Len(answers) + 1, NEW k \in 1 .. Len(wire)
               PROVE  answers'[i] < wire[k].line
    BY <1>3, <1>9 DEF AnswersBehind
  <2>1. CASE i \in 1 .. Len(answers)
    BY <2>1, <1>4, <1>5, <1>9 DEF OrderInv, AnswersBehind
  <2>2. CASE i = Len(answers) + 1
    BY <2>2, <1>7, <1>9
  <2> QED
    BY <1>9, <2>1, <2>2
<1>11. AnswersFollowLines'
  <2> SUFFICES ASSUME NEW i \in 1 .. Len(answers) + 1, NEW j \in 1 .. Len(answers) + 1
               PROVE  /\ answers'[i] <= Sent
                      /\ i < j /\ answers'[i] # 0 /\ answers'[j] # 0 => answers'[i] < answers'[j]
    BY <1>2, <1>9 DEF AnswersFollowLines
  <2>1. answers'[i] <= Sent
    <3>1. CASE i \in 1 .. Len(answers)
      BY <3>1, <1>9 DEF OrderInv, AnswersFollowLines
    <3>2. CASE i = Len(answers) + 1
      BY <3>2, <1>8, <1>9
    <3> QED
      BY <1>9, <3>1, <3>2
  <2>2. ASSUME i < j, answers'[i] # 0, answers'[j] # 0 PROVE answers'[i] < answers'[j]
    <3>1. i \in 1 .. Len(answers)
      BY <2>2, <1>9
    <3>2. CASE j \in 1 .. Len(answers)
      BY <2>2, <3>1, <3>2, <1>9 DEF OrderInv, AnswersFollowLines
    <3>3. CASE j = Len(answers) + 1
      BY <2>2, <3>1, <3>3, <1>8, <1>9
    <3> QED
      BY <1>9, <3>2, <3>3
  <2> QED
    BY <2>1, <2>2
<1>12. ReadEnds'
  BY <1>1 DEF ReadEnds
<1>13. Ordered(Stream)' /\ StreamSent'
  BY <1>2, <1>3, <1>6 DEF Ordered, StreamSent
<1> QED
  BY <1>10, <1>11, <1>12, <1>13 DEF OrderInv

LEMMA OrderStep == OrderInv /\ [Next]_vars => OrderInv'
<1> SUFFICES ASSUME OrderInv, [Next]_vars PROVE OrderInv'
  OBVIOUS
<1>t. TypeOK' /\ BufferSafe'
  BY TypeAndRoomStep DEF OrderInv
<1>1. ASSUME NEW length \in LineLengths, Send(length) PROVE OrderInv'
  BY <1>1, <1>t, SendOrder
<1>2. CASE Shutdown \/ ReadFails \/ HandleBlank \/ UNCHANGED vars
  <2>1. /\ UNCHANGED <<request, wire, answers, lengths>>
        /\ pc' = "read" => pc = "read"
        /\ eof => eof'
    BY <1>2 DEF Shutdown, ReadFails, HandleBlank, vars, bufferVars, clientVars
  <2>2. Ordered(Stream)' /\ StreamSent' /\ AnswersBehind' /\ AnswersFollowLines'
    BY <2>1 DEF OrderInv, Stream, Ordered, StreamSent, AnswersBehind, AnswersFollowLines, Sent
  <2>3. ReadEnds'
    BY <2>1 DEF OrderInv, ReadEnds
  <2> QED
    BY <2>2, <2>3, <1>t DEF OrderInv
<1>3. CASE ReadChunk
  BY <1>3, <1>t, ReadOrder
<1>4. CASE Handle
  BY <1>4, <1>t, HandleOrder
<1> QED
  BY <1>1, <1>2, <1>3, <1>4 DEF Next, Client, Server

LEMMA OrderInit == Init => OrderInv
<1> SUFFICES ASSUME Init PROVE OrderInv
  OBVIOUS
<1>1. request = <<>> /\ wire = <<>> /\ answers = <<>> /\ pc = "reading"
  BY DEF Init
<1>2. Stream = <<>> /\ 1 .. Len(Stream) = {} /\ DOMAIN answers = {}
  BY <1>1 DEF Stream
<1> QED
  BY <1>1, <1>2, TypeAndRoomInit
     DEF OrderInv, Ordered, StreamSent, AnswersBehind, AnswersFollowLines, ReadEnds

\* However the stream is cut and however far ahead the client writes, no line is
\* answered twice or after a later one, and no answer is for a line not sent.
THEOREM AnswersKeepOrder == Spec => []AnswersFollowLines
<1>1. OrderInv => AnswersFollowLines
  BY DEF OrderInv
<1> QED
  BY <1>1, OrderInit, OrderStep, PTL DEF Spec
-----------------------------------------------------------------------------
(* A client that waits for each answer.  Between an answer and the next    *)
(* line both ends of the stream are empty; after a line was sent, what has *)
(* been read of it and what has not are that line and nothing else.  The   *)
(* loop can end only behind a LF, hence with the whole line read.          *)

Waiting ==
    window = 1 /\ ~eof =>
        \/ /\ Len(answers) = Sent
           /\ request = <<>> /\ wire = <<>> /\ pc # "read"
        \/ /\ Len(answers) + 1 = Sent
           /\ Stream = Line(Sent, lengths[Sent])
           /\ pc = "read" => wire = <<>>

LockStepInv == TypeOK /\ BufferSafe /\ Sent <= MaxSent /\ Waiting /\ LockStepAnswers

\* A line ends in CR LF.
LEMMA LineEnd ==
    ASSUME NEW line \in 1 .. MaxSent, NEW length \in Nat
    PROVE  /\ Line(line, length)[length + 1].char = "cr"
           /\ Line(line, length)[length + 2].char = "lf"
<1> DEFINE text == [i \in 1 .. length |-> Byte(line, "text")]
           crlf == <<Byte(line, "cr"), Byte(line, "lf")>>
<1>1. \A c \in {"text", "cr", "lf"} : Byte(line, c) \in ByteSet
  BY DEF Byte, ByteSet
<1>2. text \in Seq(ByteSet) /\ Len(text) = length
  BY <1>1
<1>3. /\ crlf \in Seq(ByteSet) /\ Len(crlf) = 2
      /\ crlf[1].char = "cr" /\ crlf[2].char = "lf"
  BY <1>1 DEF Byte
<1>4. Line(line, length) = text \o crlf
  BY DEF Line
<1> HIDE DEF text, crlf
<1>5. \A k \in 1 .. Len(crlf) : (text \o crlf)[Len(text) + k] = crlf[k]
  BY <1>2, <1>3, ConcatIndex
<1>6. 1 \in 1 .. Len(crlf) /\ 2 \in 1 .. Len(crlf)
  BY <1>3
<1>7. (text \o crlf)[length + 1] = crlf[1] /\ (text \o crlf)[length + 2] = crlf[2]
  BY <1>2, <1>5, <1>6
<1> QED
  BY <1>3, <1>4, <1>7

\* The line that waits for its answer.
LEMMA LatestLine ==
    ASSUME LockStepInv, Len(answers) + 1 = Sent
    PROVE  Sent \in 1 .. MaxSent /\ lengths[Sent] \in Nat
<1>1. lengths \in Seq(LineLengths) /\ answers \in Seq(0 .. MaxSent) /\ LineLengths \subseteq Nat
  BY ReaderAssumption DEF LockStepInv, TypeOK
<1>2. Sent \in Nat /\ Len(answers) \in Nat /\ Sent = Len(lengths) /\ Sent <= MaxSent /\ MaxSent \in Nat
  BY <1>1, ReaderAssumption DEF Sent, LockStepInv
<1>3. Sent \in 1 .. Len(lengths) /\ Sent \in 1 .. MaxSent
  BY <1>2
<1>4. lengths[Sent] \in LineLengths
  BY <1>1, <1>3, ElementOfSeq
<1> QED
  BY <1>1, <1>3, <1>4

\* What init_cmd makes of exactly one line.
LEMMA WholeLineKept ==
    ASSUME NEW line \in 1 .. MaxSent, NEW length \in Nat
    PROVE  KeptLine(Line(line, length)) = IF length + 2 <= MaxRequest THEN line ELSE 0
<1>1. PICK bytes \in Seq(ByteSet) : bytes = Line(line, length)
  BY LineBytes
<1>2. /\ Len(bytes) = length + 2 /\ bytes[1].line = line
      /\ bytes[length + 1].char = "cr" /\ bytes[length + 2].char = "lf"
  <2>1. 1 \in 1 .. length + 2
    OBVIOUS
  <2>2. Len(bytes) = length + 2 /\ bytes[1].line = line
    BY <1>1, <2>1, LineBytes
  <2> QED
    BY <1>1, <2>2, LineEnd
<1>3. length + 1 \in CRLFs(bytes)
  BY <1>2 DEF CRLFs
<1>4. KeptLine(bytes) = IF length + 2 <= MaxRequest THEN line ELSE 0
  <2>1. MaxRequest \in Nat
    BY ReaderAssumption
  <2> QED
    BY <1>2, <1>3, <2>1 DEF KeptLine
<1> QED
  BY <1>1, <1>4

LEMMA SendWaits ==
    ASSUME LockStepInv, NEW length \in LineLengths, Send(length)
    PROVE  Waiting' /\ LockStepAnswers'
<1>1. /\ UNCHANGED <<window, eof, pc, request, answers>>
      /\ lengths' = Append(lengths, length) /\ wire' = wire \o Line(Sent + 1, length)
      /\ Sent - Len(answers) < window
  BY DEF Send, bufferVars
<1>2. /\ Sent \in Nat /\ Sent' = Sent + 1 /\ lengths \in Seq(LineLengths)
      /\ answers \in Seq(0 .. MaxSent) /\ Len(answers) \in Nat
      /\ Line(Sent + 1, length) \in Seq(ByteSet)
  BY SendBytes DEF LockStepInv, TypeOK
<1>3. /\ lengths'[Sent'] = length
      /\ \A i \in 1 .. Sent : lengths'[i] = lengths[i]
  BY <1>1, <1>2 DEF Sent
<1> SUFFICES ASSUME window = 1, ~eof PROVE Waiting' /\ LockStepAnswers'
  BY <1>1 DEF Waiting, LockStepAnswers
<1>4. Len(answers) = Sent /\ request = <<>> /\ wire = <<>> /\ pc # "read"
  BY <1>1, <1>2 DEF LockStepInv, Waiting
<1>5. Stream' = Line(Sent', lengths'[Sent'])
  <2>1. PICK new \in Seq(ByteSet) : new = Line(Sent + 1, length)
    BY <1>2
  <2>2. <<>> \o (<<>> \o new) = new
    BY <2>1, ConcatEmptySeq
  <2> QED
    BY <1>1, <1>2, <1>3, <1>4, <2>1, <2>2 DEF Stream
<1>6. Waiting'
  BY <1>1, <1>2, <1>4, <1>5 DEF Waiting
<1>7. LockStepAnswers'
  <2>1. DOMAIN answers = 1 .. Sent
    BY <1>2, <1>4
  <2> QED
    BY <1>1, <1>3, <2>1 DEF LockStepInv, LockStepAnswers
<1> QED
  BY <1>6, <1>7

LEMMA ReadWaits ==
    ASSUME LockStepInv, ReadChunk
    PROVE  Waiting' /\ LockStepAnswers'
<1>t. TypeOK /\ BufferSafe
  BY DEF LockStepInv
<1>1. PICK n \in ReadSizes :
           LET chunk == SubSeq(wire, 1, n)
           IN  /\ chunk \in Seq(ByteSet) /\ Len(chunk) = n
               /\ wire' \in Seq(ByteSet) /\ wire = chunk \o wire'
               /\ request' = request \o chunk
               /\ \E ends \in LoopMayEnd(chunk) : pc' = (IF ends THEN "read" ELSE "reading")
  BY <1>t, ReadChunkBytes, Zenon
<1>2. PICK chunk \in Seq(ByteSet) :
           /\ Len(chunk) = n
           /\ wire' \in Seq(ByteSet) /\ wire = chunk \o wire'
           /\ request' = request \o chunk
           /\ \E ends \in LoopMayEnd(chunk) : pc' = (IF ends THEN "read" ELSE "reading")
  BY <1>1
<1>3. request \in Seq(ByteSet) /\ wire \in Seq(ByteSet) /\ UNCHANGED <<window, eof, lengths, answers>>
  BY <1>t DEF TypeOK, ReadChunk, clientVars
<1>4. Stream' = Stream
  <2>1. (request \o chunk) \o wire' = request \o (chunk \o wire')
    BY <1>2, <1>3, ConcatThree
  <2> QED
    BY <1>2, <2>1, Zenon DEF Stream
<1>5. LockStepAnswers'
  BY <1>3 DEF LockStepInv, LockStepAnswers
<1> SUFFICES ASSUME window = 1, ~eof PROVE Waiting'
  BY <1>3, <1>5 DEF Waiting
<1>6. wire # <<>>
  BY DEF ReadSizes
<1>7. Len(answers) + 1 = Sent /\ Stream = Line(Sent, lengths[Sent])
  BY <1>6 DEF LockStepInv, Waiting
<1>8. ASSUME pc' = "read" PROVE wire' = <<>>
  <2>1. TRUE \in LoopMayEnd(chunk)
    <3>1. PICK ends \in LoopMayEnd(chunk) : pc' = (IF ends THEN "read" ELSE "reading")
      BY <1>2
    <3>2. LoopMayEnd(chunk) \subseteq BOOLEAN
      BY Zenon DEF LoopMayEnd
    <3> QED
      BY <1>8, <3>1, <3>2
  <2>2. Len(chunk) >= 1 /\ chunk[Len(chunk)].char = "lf"
    BY <1>2, <1>6, <2>1, ChunkEnds
  <2>3. /\ Len(request') = Len(request) + Len(chunk)
        /\ request'[Len(request')] = chunk[Len(chunk)]
        /\ request' \in Seq(ByteSet) /\ Len(request') >= 1 /\ Len(request') \in Nat
    <3>1. Len(chunk) \in 1 .. Len(chunk)
      BY <2>2
    <3>2. PICK whole \in Seq(ByteSet) : whole = request \o chunk
      BY <1>3, ConcatIndex
    <3>3. /\ Len(whole) = Len(request) + Len(chunk) /\ Len(request) \in Nat /\ Len(chunk) \in Nat
          /\ whole[Len(request) + Len(chunk)] = chunk[Len(chunk)]
      BY <1>3, <3>1, <3>2, ConcatIndex
    <3> QED
      BY <1>2, <2>2, <3>2, <3>3
  <2>4. /\ Len(Stream) = Len(request') + Len(wire') /\ Len(wire') \in Nat
        /\ Stream[Len(request')].char = "lf"
    <3>1. /\ Len(request' \o wire') = Len(request') + Len(wire') /\ Len(wire') \in Nat
          /\ \A k \in 1 .. Len(request') : (request' \o wire')[k] = request'[k]
      BY <1>2, <2>3, ConcatIndex
    <3>2. Stream = request' \o wire'
      BY <1>4 DEF Stream
    <3> QED
      BY <2>2, <2>3, <3>1, <3>2
  <2>5. Sent \in 1 .. MaxSent /\ lengths[Sent] \in Nat
    BY <1>7, LatestLine
  <2>6. /\ Len(Stream) = lengths[Sent] + 2
        /\ \A k \in 1 .. lengths[Sent] + 2 : k < lengths[Sent] + 2 => Stream[k].char # "lf"
    <3>1. PICK line \in 1 .. MaxSent, length \in Nat : line = Sent /\ length = lengths[Sent]
      BY <2>5
    <3>2. /\ Len(Line(line, length)) = length + 2
          /\ \A k \in 1 .. length + 2 : k < length + 2 => Line(line, length)[k].char # "lf"
      BY LineBytes
    <3>3. Stream = Line(line, length)
      BY <1>7, <3>1
    <3> QED
      BY <3>1, <3>2, <3>3
  <2>7. Len(wire') = 0
    BY <2>3, <2>4, <2>5, <2>6
  <2> QED
    BY <1>2, <2>7, EmptySeq
<1> QED
  BY <1>3, <1>4, <1>7, <1>8 DEF Waiting, Sent

LEMMA HandleWaits ==
    ASSUME LockStepInv, Handle
    PROVE  Waiting' /\ LockStepAnswers'
<1>1. /\ pc = "read" /\ pc' = "reading" /\ request' = <<>>
      /\ UNCHANGED <<wire, window, eof, lengths>>
      /\ answers' = Append(answers, KeptLine(request))
  BY DEF Handle, FreshBuffer, clientVars
<1>2. /\ answers \in Seq(0 .. MaxSent) /\ Len(answers) \in Nat /\ request \in Seq(ByteSet)
      /\ Sent' = Sent
  BY <1>1 DEF LockStepInv, TypeOK, Sent
<1> SUFFICES ASSUME window = 1, ~eof PROVE Waiting' /\ LockStepAnswers'
  BY <1>1 DEF Waiting, LockStepAnswers
<1>3. Len(answers) + 1 = Sent /\ Stream = Line(Sent, lengths[Sent]) /\ wire = <<>>
  BY <1>1 DEF LockStepInv, Waiting
<1>4. Sent \in 1 .. MaxSent /\ lengths[Sent] \in Nat
  BY <1>3, LatestLine
<1>5. request = Line(Sent, lengths[Sent])
  BY <1>2, <1>3, ConcatEmptySeq DEF Stream
<1>6. KeptLine(request) = IF lengths[Sent] + 2 <= MaxRequest THEN Sent ELSE 0
  BY <1>4, <1>5, WholeLineKept
<1>7. /\ DOMAIN answers' = 1 .. Sent /\ Len(answers') = Sent /\ DOMAIN answers = 1 .. Len(answers)
      /\ \A i \in 1 .. Len(answers) : answers'[i] = answers[i]
      /\ answers'[Sent] = KeptLine(request)
  BY <1>1, <1>2, <1>3
<1>8. LockStepAnswers'
  <2> SUFFICES ASSUME NEW i \in 1 .. Sent
               PROVE  IF lengths[i] + 2 <= MaxRequest THEN answers'[i] = i ELSE answers'[i] = 0
    BY <1>1, <1>7 DEF LockStepAnswers
  <2>1. CASE i = Sent
    BY <2>1, <1>6, <1>7
  <2>2. CASE i # Sent
    <3>1. i \in 1 .. Len(answers)
      BY <2>2, <1>2, <1>3, <1>4
    <3> QED
      BY <3>1, <1>7 DEF LockStepInv, LockStepAnswers
  <2> QED
    BY <2>1, <2>2
<1>9. Waiting'
  BY <1>1, <1>2, <1>3, <1>7 DEF Waiting
<1> QED
  BY <1>8, <1>9

LEMMA LockStepStep == LockStepInv /\ [Next]_vars => LockStepInv'
<1> SUFFICES ASSUME LockStepInv, [Next]_vars PROVE LockStepInv'
  OBVIOUS
<1>t. TypeOK' /\ BufferSafe'
  BY TypeAndRoomStep DEF LockStepInv
<1>s. Sent' <= MaxSent
  <2>1. ASSUME NEW length \in LineLengths, Send(length) PROVE Sent' <= MaxSent
    BY <2>1, SendBytes, ReaderAssumption DEF LockStepInv
  <2>2. CASE UNCHANGED lengths
    BY <2>2 DEF LockStepInv, Sent
  <2> QED
    BY <2>1, <2>2
       DEF Next, Client, Server, Shutdown, ReadChunk, ReadFails, Handle, HandleBlank, vars, clientVars
<1>1. ASSUME NEW length \in LineLengths, Send(length) PROVE Waiting' /\ LockStepAnswers'
  BY <1>1, SendWaits
<1>2. ASSUME Shutdown PROVE Waiting' /\ LockStepAnswers'
  BY <1>2 DEF Shutdown, Waiting, LockStepAnswers
<1>3. ASSUME ReadFails \/ HandleBlank \/ UNCHANGED vars PROVE Waiting' /\ LockStepAnswers'
  <2>1. /\ UNCHANGED <<wire, window, eof, lengths, request, answers>>
        /\ pc' = "read" => pc = "read"
    BY <1>3 DEF ReadFails, HandleBlank, vars, clientVars, bufferVars
  <2> QED
    BY <2>1 DEF LockStepInv, Waiting, LockStepAnswers, Stream, Sent
<1>4. ASSUME ReadChunk PROVE Waiting' /\ LockStepAnswers'
  BY <1>4, ReadWaits
<1>5. ASSUME Handle PROVE Waiting' /\ LockStepAnswers'
  BY <1>5, HandleWaits
<1> QED
  BY <1>t, <1>s, <1>1, <1>2, <1>3, <1>4, <1>5 DEF Next, Client, Server, LockStepInv

LEMMA LockStepInit == Init => LockStepInv
<1> SUFFICES ASSUME Init PROVE LockStepInv
  OBVIOUS
<1>1. request = <<>> /\ wire = <<>> /\ answers = <<>> /\ lengths = <<>> /\ pc = "reading"
  BY DEF Init
<1>2. Len(answers) = Sent /\ DOMAIN answers = {} /\ Sent <= MaxSent
  BY <1>1, ReaderAssumption DEF Sent
<1> QED
  BY <1>1, <1>2, TypeAndRoomInit DEF LockStepInv, Waiting, LockStepAnswers

\* A client that waits for each answer gets, for any sizes, any lines and any cutting
\* of the stream, as its i-th answer the one to its i-th line, or a 500 if that line
\* is too long.
THEOREM WaitingClientsAnswered == Spec => []LockStepAnswers
<1>1. LockStepInv => LockStepAnswers
  BY DEF LockStepInv
<1> QED
  BY <1>1, LockStepInit, LockStepStep, PTL DEF Spec

\* When the server has read all of such a client's bytes, every line has its answer and
\* nothing is left over, or the latest line is whole and alone in the request.
THEOREM WaitingClientsLoseNothing == Spec => []NothingLost
<1>1. LockStepInv => NothingLost
  <2> SUFFICES ASSUME LockStepInv, window = 1, ~eof, wire = <<>>
               PROVE  \/ Len(answers) = Sent /\ request = <<>>
                      \/ Len(answers) + 1 = Sent /\ request = Line(Sent, lengths[Sent])
    BY DEF NothingLost
  <2>1. request \o wire = request
    BY ConcatEmptySeq DEF LockStepInv, TypeOK
  <2> QED
    BY <2>1 DEF LockStepInv, Waiting, Stream
<1> QED
  BY <1>1, LockStepInit, LockStepStep, PTL DEF Spec
=============================================================================
