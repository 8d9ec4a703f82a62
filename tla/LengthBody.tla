----------------------------- MODULE LengthBody -----------------------------
(***************************************************************************)
(* The loop that reads a body which is not chunked: it is the same in      *)
(* handleNonChunkResponse (GET, written to the response file) and in the   *)
(* second half of handlePOSTResponse (written to the client).  The bytes   *)
(* pass through SocketBuffer.data in order, so a run is described by       *)
(* counts: how many came in, how many wait in the buffer, how many went    *)
(* out.                                                                    *)
(***************************************************************************)
EXTENDS Integers

CONSTANTS MaxRecv,   \* MAX_RECV_SIZE
          MaxSend,   \* MAX_SEND_SIZE
          MaxBody    \* bound: bytes a server sends, and claims to send

ASSUME SizesAssumption == /\ MaxRecv \in Nat \ {0}
                          /\ MaxSend \in Nat
                          /\ MaxRecv <= MaxSend
                          /\ MaxBody \in Nat

BufferSize == MaxRecv + MaxSend + MaxSend   \* sizeof SocketBuffer.data
NoLength == -1                              \* no Content-Length header

VARIABLES size,      \* the server's Content-Length, or NoLength
          body,      \* bytes of body the server does send
          closes,    \* does it close the connection after them?
          taken,     \* bytes that recv has returned, leftover included
          dataSize,  \* bytes of them in the buffer
          result,    \* the code's own count, kept if size is known
          written,   \* bytes passed on to the file or the client
          st         \* "reading", or how the loop was left

vars == <<size, body, closes, taken, dataSize, result, written, st>>

TypeOK == /\ size \in 0 .. MaxBody \cup {NoLength}
          /\ body \in 0 .. MaxBody
          /\ closes \in BOOLEAN
          /\ taken \in 0 .. body
          /\ dataSize \in 0 .. BufferSize
          /\ result \in 0 .. body
          /\ written \in 0 .. body
          /\ st \in {"reading", "whole", "closed", "timeout"}

\* Mutant: result starts at 0, the leftover of readHeader is not counted.
Init_IgnoresLeftover == /\ size \in 0 .. MaxBody \cup {NoLength}
                        /\ body \in 0 .. MaxBody
                        /\ closes \in BOOLEAN
                        /\ taken \in {n \in 0 .. body : n < MaxRecv}
                        /\ dataSize = taken
                        /\ result = 0
                        /\ written = 0
                        /\ st = "reading"

\* readHeader leaves the bytes of its last recv that follow the header.
Init == /\ size \in 0 .. MaxBody \cup {NoLength}
        /\ body \in 0 .. MaxBody
        /\ closes \in BOOLEAN
        /\ taken \in {n \in 0 .. body : n < MaxRecv}
        /\ dataSize = taken
        /\ result = taken
        /\ written = 0
        /\ st = "reading"

\* Mutant: more bytes than announced will do.
GotAll_OrMore == size # NoLength /\ result >= size
GotAll == size # NoLength /\ result = size

\* Leave the loop; what waits in the buffer goes out first, or does not.
Leave(why, flush) == /\ st' = why
                     /\ written' = IF flush THEN written + dataSize ELSE written
                     /\ UNCHANGED <<size, body, closes, taken, dataSize, result>>

Complete == /\ st = "reading"
            /\ GotAll
            /\ Leave("whole", TRUE)

\* Mutants: what the last recv brought is not flushed with the rest; the buffer
\* is never flushed.
Recv_DropsLast(n) ==
  /\ st = "reading" /\ ~GotAll /\ taken + n <= body
  /\ taken' = taken + n
  /\ result' = IF size = NoLength THEN result ELSE result + n
  /\ IF dataSize + n >= MaxSend
       THEN dataSize' = 0 /\ written' = written + dataSize
       ELSE dataSize' = dataSize + n /\ UNCHANGED written
  /\ UNCHANGED <<size, body, closes, st>>
Recv_NoFlush(n) ==
  /\ st = "reading" /\ ~GotAll /\ taken + n <= body
  /\ taken' = taken + n
  /\ result' = IF size = NoLength THEN result ELSE result + n
  /\ dataSize' = dataSize + n
  /\ UNCHANGED <<size, body, closes, written, st>>

\* The buffer is emptied once it holds MAX_SEND_SIZE bytes.
Recv(n) ==
  /\ st = "reading"
  /\ ~GotAll
  /\ taken + n <= body
  /\ taken' = taken + n
  /\ result' = IF size = NoLength THEN result ELSE result + n
  /\ IF dataSize + n >= MaxSend
       THEN dataSize' = 0 /\ written' = written + dataSize + n
       ELSE dataSize' = dataSize + n /\ UNCHANGED written
  /\ UNCHANGED <<size, body, closes, st>>

ServerCloses == /\ st = "reading"
                /\ ~GotAll
                /\ closes /\ taken = body
                /\ Leave("closed", TRUE)

\* Mutant: the timeout counts only if nothing has come.
Timeout_OnlyEmpty == /\ st = "reading" /\ ~GotAll /\ taken = 0
                     /\ Leave("timeout", FALSE)

\* recv returns -1: SO_RCVTIMEO, or the connection was reset.
Timeout == /\ st = "reading"
           /\ ~GotAll
           /\ Leave("timeout", FALSE)

Next == Complete \/ ServerCloses \/ Timeout \/ \E n \in 1 .. MaxRecv : Recv(n)

Spec == Init /\ [][Next]_vars
\* recv always returns: bytes, end of stream, or the timeout of the socket.
FairSpec == Spec /\ WF_vars(Next)
-----------------------------------------------------------------------------
\* Every recv has room for MAX_RECV_SIZE bytes, though the buffer is only
\* looked at after the bytes are in it (dataSize >= MAX_SEND_SIZE).
RecvHasRoom == st = "reading" => dataSize + MaxRecv <= BufferSize

\* While the loop runs, and when it reports success, no byte has been passed on
\* twice, skipped or overtaken by the reset of dataSize: what came in is what
\* went out and what still waits.  A timeout drops what waits, although the code
\* says "send the client what we have" there (get.c:121, proxy.c:106); all that
\* came before has gone out, so fewer than MAX_SEND_SIZE bytes are missing.
EveryByteOnce ==
  /\ st = "reading" => taken = written + dataSize
  /\ st \in {"whole", "closed"} => taken = written
  /\ st = "timeout" => written <= taken /\ taken < written + MaxSend

\* The loop reports success only with Content-Length bytes, or with all the
\* server sent before it closed.
SuccessIsAll == /\ st = "whole" => written = size
                /\ st = "closed" => written = body

\* A server that does not send more than it announced is never waited for once
\* all has come (result and the leftover of readHeader are counted together).
NoNeedlessWait ==
  st = "timeout" /\ size # NoLength /\ body <= size => taken < size

\* The loop is left, whatever the server announces, sends and closes.
Returns == st = "reading" ~> st # "reading"
=============================================================================
