---------------------------- MODULE RequestReader ----------------------------
(***************************************************************************)
(* read_client_request (clientHandler.c) and the first lines of init_cmd   *)
(* (command.c): how the bytes of the control connection become requests.   *)
(*                                                                         *)
(* The client writes whole lines.  TCP hands them over in chunks of any    *)
(* size; the server reads until a chunk ends with CR LF, then looks at the *)
(* first line of what it has read and answers it.                          *)
(***************************************************************************)
EXTENDS Integers, Sequences, FiniteSetsExt

CONSTANTS BufSize,      \* BUF_SIZE, the most one read() returns
          Slack,        \* request_size, the first allocation and the margin of the others
          MaxRequest,   \* MAX_REQUEST_LENGTH - 1
          LineLengths,  \* the lengths of the lines a client may send
          MaxSent,      \* bound on the number of lines sent
          Windows,      \* how many unanswered lines a client may allow itself
          MaxAnswers    \* bound on the number of answers

ASSUME ReaderAssumption ==
    /\ BufSize \in Nat \ {0} /\ Slack \in Nat \ {0}
    /\ MaxRequest \in Nat
    /\ LineLengths \subseteq Nat
    /\ MaxSent \in Nat /\ Windows \subseteq Nat /\ MaxAnswers \in Nat

VARIABLES wire,       \* bytes sent by the client and not yet read
          window,     \* how many unanswered lines this client allows itself
          eof,        \* the client will send nothing more
          lengths,    \* the length of each line sent so far
          pc,         \* "reading", "read", "crashed", "exited"
          request,    \* the bytes copied to *request
          alloc,      \* the size of the memory *request points to
          written,    \* nb_written_char
          remaining,  \* remaining_space
          answers     \* for each answer, the line it answers, or 0 for a 500

clientVars == <<window, eof, lengths>>
bufferVars == <<request, alloc, written, remaining>>
vars == <<wire, clientVars, pc, bufferVars, answers>>

Sent == Len(lengths)

\* A byte: the line it belongs to, and whether it is CR, LF or another one.
Byte(line, char) == [line |-> line, char |-> char]
Line(line, length) ==
    [i \in 1 .. length |-> Byte(line, "text")] \o <<Byte(line, "cr"), Byte(line, "lf")>>

\* Mutant of FreshBuffer: nb_written_char is not reset.
FreshBufferKeepsCount ==
    /\ request' = <<>>
    /\ alloc' = Slack + 1
    /\ remaining' = Slack
    /\ UNCHANGED written

\* Mutant of FreshBuffer: the request is appended to the previous one.
FreshBufferKeepsRequest == UNCHANGED bufferVars

\* The allocation at the top of read_client_request.
FreshBuffer ==
    /\ request' = <<>>
    /\ alloc' = Slack + 1
    /\ written' = 0
    /\ remaining' = Slack

Init ==
    /\ window \in Windows
    /\ wire = <<>> /\ eof = FALSE /\ lengths = <<>>
    /\ pc = "reading"
    /\ request = <<>> /\ alloc = Slack + 1 /\ written = 0 /\ remaining = Slack
    /\ answers = <<>>

\* A line is sent when the client has seen enough answers.
Send(length) ==
    /\ ~eof
    /\ Sent < MaxSent
    /\ Sent - Len(answers) < window
    /\ lengths' = Append(lengths, length)
    /\ wire' = wire \o Line(Sent + 1, length)
    /\ UNCHANGED <<window, eof, pc, bufferVars, answers>>

Shutdown ==
    /\ ~eof
    /\ eof' = TRUE
    /\ UNCHANGED <<wire, window, lengths, pc, bufferVars, answers>>

\* How many bytes read() may return: some of those that have arrived, or none at
\* the end of the stream.
ReadSizes ==
    IF wire = <<>> THEN IF eof THEN {0} ELSE {}
    ELSE {n \in 1 .. BufSize : n <= Len(wire)}

EndsWithCRLF(bytes) ==
    LET n == Len(bytes)
    IN  n >= 2 /\ bytes[n - 1].char = "cr" /\ bytes[n].char = "lf"

\* The test `buf[n-2] != CR || buf[n-1] != LF' looks at the latest chunk only.  With
\* less than two bytes in it, it reads memory in front of buf: any outcome.
LoopMayEnd(chunk) ==
    {ends \in BOOLEAN :
        /\ Len(chunk) >= 2 => (ends <=> EndsWithCRLF(chunk))
        /\ Len(chunk) = 1 /\ chunk[1].char # "lf" => ~ends}

\* Mutant of Grown: the margin of the first allocation is forgotten.
GrownByChunk(n) == IF n > remaining THEN written + n ELSE alloc

\* realloc, when the chunk does not fit in what is left of the first allocation.
Grown(n) == IF n > remaining THEN written + n + Slack ELSE alloc

ReadChunk ==
    /\ pc = "reading"
    /\ \E n \in ReadSizes :
          LET chunk == SubSeq(wire, 1, n)
          IN  /\ wire' = SubSeq(wire, n + 1, Len(wire))
              /\ alloc' = Grown(n)
              /\ request' = request \o chunk
              /\ written' = written + n
              /\ remaining' = remaining - n
              /\ \E ends \in LoopMayEnd(chunk) : pc' = (IF ends THEN "read" ELSE "reading")
    /\ UNCHANGED <<clientVars, answers>>

\* read() returns -1.
ReadFails ==
    /\ pc = "reading"
    /\ pc' = "exited"
    /\ UNCHANGED <<wire, clientVars, bufferVars, answers>>

CRLFs(bytes) ==
    {i \in 1 .. Len(bytes) - 1 : bytes[i].char = "cr" /\ bytes[i + 1].char = "lf"}

\* Mutant of KeptLine: the limit on the length is off by one.
KeptLineOffByOne(bytes) ==
    IF Len(bytes) >= MaxRequest \/ CRLFs(bytes) = {} THEN 0 ELSE bytes[1].line

\* What init_cmd makes of the request: the line it keeps is what precedes the first
\* CR LF, the rest is dropped.  0 stands for the NULL it returns when the request is
\* too long or holds no CR LF, which handle_client answers with a 500.
KeptLine(bytes) ==
    IF Len(bytes) > MaxRequest \/ CRLFs(bytes) = {} THEN 0 ELSE bytes[1].line

\* strtok finds no word in an empty line and strlen is applied to NULL.
IsBlank(bytes) == KeptLine(bytes) # 0 /\ Min(CRLFs(bytes)) = 1

\* Mutant of Handle: a request that init_cmd refuses is not answered.
HandleSilently ==
    /\ pc = "read"
    /\ ~IsBlank(request)
    /\ Len(answers) < MaxAnswers
    /\ answers' = IF KeptLine(request) = 0 THEN answers ELSE Append(answers, KeptLine(request))
    /\ pc' = "reading"
    /\ FreshBuffer
    /\ UNCHANGED <<wire, clientVars>>

Handle ==
    /\ pc = "read"
    /\ ~IsBlank(request)
    /\ Len(answers) < MaxAnswers
    /\ answers' = Append(answers, KeptLine(request))
    /\ pc' = "reading"
    /\ FreshBuffer
    /\ UNCHANGED <<wire, clientVars>>

HandleBlank ==
    /\ pc = "read"
    /\ IsBlank(request)
    /\ pc' = "crashed"
    /\ UNCHANGED <<wire, clientVars, bufferVars, answers>>

Client == Shutdown \/ \E length \in LineLengths : Send(length)
Server == ReadChunk \/ ReadFails \/ Handle \/ HandleBlank

Next == Client \/ Server

Spec == Init /\ [][Next]_vars

\* The server's process is scheduled: bytes that have arrived are read and requests
\* that have been read are handled.  The connection need not break.  At the end of
\* the stream read() returns 0 at once, and a turn of the loop whose test reads
\* other bytes than CR LF changes nothing: it is a stuttering step.
FairSpec ==
    /\ Spec
    /\ WF_vars(wire # <<>> /\ ReadChunk)
    /\ WF_vars(Handle \/ HandleBlank)

-----------------------------------------------------------------------------
(* Properties.                                                             *)

ByteSet == [line : 1 .. MaxSent, char : {"text", "cr", "lf"}]

\* Every variable holds a value of its kind; written counts the bytes of request.
TypeOK ==
    /\ wire \in Seq(ByteSet) /\ window \in Nat /\ eof \in BOOLEAN /\ lengths \in Seq(LineLengths)
    /\ pc \in {"reading", "read", "crashed", "exited"}
    /\ request \in Seq(ByteSet)
    /\ alloc \in Nat /\ written \in Nat /\ remaining \in Int
    /\ written = Len(request)
    /\ answers \in Seq(0 .. MaxSent)

\* The memory behind *request always has room for what has been copied and for the
\* final NUL.  remaining_space is not replenished by realloc: once a chunk has not
\* fitted it stays negative and every later chunk reallocates.
BufferSafe ==
    /\ written + 1 <= alloc
    /\ remaining >= 0 => alloc = written + remaining + 1
    /\ remaining < 0 => alloc = written + Slack

\* However the stream is cut, no line is answered twice and none before an earlier
\* one, and no answer is for a line that has not been sent.
AnswersFollowLines ==
    \A i, j \in DOMAIN answers :
        /\ answers[i] <= Sent
        /\ i < j /\ answers[i] # 0 /\ answers[j] # 0 => answers[i] < answers[j]

\* A client that waits for each answer gets the answer to its own line: the i-th
\* answer is for the i-th line, or a 500 for a line that is too long, until it
\* shuts its side of the connection down.
LockStepAnswers ==
    window = 1 /\ ~eof => \A i \in DOMAIN answers :
                IF lengths[i] + 2 <= MaxRequest THEN answers[i] = i ELSE answers[i] = 0

\* No line of a client that waits is lost: when all its bytes have been read, every line
\* has its answer and nothing is left over for the next request, or the latest one is
\* in the request, whole and alone: about to be handled, or behind a CR LF that was cut
\* in two and did not end the loop (LoopEndsAtCRLF).  One that does not wait may lose
\* lines: of those that arrive together only the first is handled.
NothingLost ==
    window = 1 /\ ~eof /\ wire = <<>> =>
        \/ Len(answers) = Sent /\ request = <<>>
        \/ Len(answers) + 1 = Sent /\ request = Line(Sent, lengths[Sent])

\* clientHandler.c:278, the loop ends at a CR LF.
LoopEndsAtCRLF == pc = "reading" => ~EndsWithCRLF(request)

\* clientHandler.h:62-63, requests are handled until the end of the connection.
ReturnsAtEnd == eof ~> pc \in {"exited", "crashed"}
=============================================================================
