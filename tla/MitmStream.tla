----------------------------- MODULE MitmStream -----------------------------
(***************************************************************************)
(* One response on its way through the Python proxy: readHeader, then      *)
(* dechunkResponse or nonchunkResponse of MITM.py.  The server's bytes     *)
(* arrive in segments cut anywhere; what is read goes to the client and,   *)
(* without the framing, to the output file.                                *)
(***************************************************************************)
EXTENDS ChunkCoding

CONSTANTS MaxRecv,    \* MAX_RECV_SIZE
          MaxSend,    \* MAX_SEND_SIZE
          MaxCalls,   \* calls of dechunkResponse before a RecursionError
          ServerHead,       \* the header the server sends, up to its empty line
          Chunkings,  \* chunked bodies a server may send
          Plain,      \* bodies sent without chunks
          MaxLength   \* bound: largest Content-Length

Chunked == -1
EmptyLine == CRLF \o CRLF

\* The empty line ends the header: it has none before.
ASSUME StreamAssumption ==
  /\ {MaxRecv, MaxSend, MaxCalls} \subseteq Nat \ {0} /\ MaxLength \in Nat
  /\ ServerHead \in Seq(Bytes)
  /\ Found(ServerHead \o EmptyLine, EmptyLine) = Len(ServerHead) + 1
  /\ Chunkings \subseteq Seq(Seq(Bytes)) /\ Plain \subseteq Seq(Bytes)
  /\ \A c \in Chunkings : \A i \in DOMAIN c : Len(c[i]) \in 1 .. 15

VARIABLES kind,      \* Chunked, or a Content-Length
          chunks,    \* the body: chunks, or one if it is not chunked
          todo,      \* bytes the server sends that were not received yet
          closes,    \* will the server close when all is sent?
          mode,      \* the loop that runs, or how the response ended
          header,    \* what readHeader takes for the header
          data,      \* bytes received and not used yet
          chunk,     \* currentChunk
          want,      \* chunkLength
          left,      \* length, as nonchunkResponse counts it down
          calls,     \* depth of the recursion
          client,    \* bytes sent to the client after the header
          file,      \* bytes written to the output file
          cut        \* history: did a segment end inside the empty line?

streamVars == <<kind, chunks, todo, closes, mode, header, data, chunk, want, left,
                calls, client, file, cut>>
server == <<kind, chunks, closes>>

Ends == {"done", "dead", "badSize", "tooDeep", "spin"}

StreamTypeOK == /\ kind \in {Chunked} \cup 0 .. MaxLength
                /\ todo \in Seq(Bytes) /\ header \in Seq(Bytes) /\ file \in Seq(Bytes)
                /\ data \in Seq(Bytes) /\ chunk \in Seq(Bytes)
                /\ client \in Seq(Nat)
                /\ closes \in BOOLEAN /\ cut \in BOOLEAN
                /\ mode \in {"header", "size", "chunk", "length"} \cup Ends
                /\ want \in Nat /\ left \in Int
                /\ calls \in 0 .. MaxCalls
                /\ mode = "length" => Len(data) < MaxSend

StreamInit == /\ \/ /\ kind = Chunked
                    /\ chunks \in Chunkings
                    /\ todo = ServerHead \o EmptyLine \o Encoded(chunks)
                 \/ /\ kind \in 0 .. MaxLength
                    /\ \E body \in Plain : chunks = <<body>> /\ todo = ServerHead \o EmptyLine \o body
              /\ closes \in BOOLEAN
              /\ mode = "header"
              /\ header = <<>> /\ data = <<>> /\ chunk = <<>>
              /\ client = <<>> /\ file = <<>>
              /\ want = 0 /\ left = 0 /\ calls = 0
              /\ cut = FALSE

-----------------------------------------------------------------------------
Segment(n) == SubSeq(todo, 1, n)
Receive(n) == n <= Len(todo) /\ todo' = SubSeq(todo, n + 1, Len(todo))

FirstOf(s, n) == SubSeq(s, 1, IF n <= Len(s) THEN n ELSE Len(s))

\* sendall and write of the same bytes.
Pass(bytes) == client' = client \o bytes /\ file' = file \o bytes

\* Mutants: the empty line stays with the body; the first bytes of the body are
\* not counted.
AfterHeader_Short(bytes, at) == header' = header \o SubSeq(bytes, 1, at + 1)
AfterHeader(bytes, at) == header' = header \o SubSeq(bytes, 1, at + 3)

Countdown_FromHeader(bytes) == left' = kind
Countdown(bytes) == left' = kind - Len(bytes)

\* handleClientRequest takes the body up where readHeader stopped.
StartBody(rest) ==
  IF kind = Chunked
    THEN /\ mode' = "size"
         /\ data' = rest
         /\ calls' = 1
         /\ UNCHANGED <<client, file, left>>
    ELSE /\ Pass(rest)
         /\ Countdown(rest)
         /\ mode' = IF left' = 0 THEN "done" ELSE "length"
         /\ UNCHANGED <<data, calls>>

\* readHeader looks for the empty line in the segment, not in the header.
RecvHeader(n) ==
  LET bytes == Segment(n)
      at == Found(bytes, EmptyLine)
  IN /\ mode = "header"
     /\ Receive(n)
     /\ cut' = (cut \/ \E k \in 1 .. 3 : Len(header) + n = Len(ServerHead) + k)
     /\ IF at = 0
          THEN header' = header \o bytes /\ UNCHANGED <<mode, data, left, calls, client, file>>
          ELSE /\ AfterHeader(bytes, at)
               /\ StartBody(SubSeq(bytes, at + 4, n))
     /\ UNCHANGED <<server, chunk, want>>

RecvSize(n) == /\ mode = "size" /\ FoundEnd(data) = 0
               /\ Receive(n)
               /\ data' = data \o Segment(n)
               /\ UNCHANGED <<server, mode, header, chunk, want, left, calls, client, file, cut>>

\* hex() of a number has the prefix 0x.
HexLine(n) == <<0, 33, n>> \o CRLF

\* int(line, base=16); a line that is no number raises ValueError.
IsSize(line) == line # <<>> /\ \A i \in DOMAIN line : line[i] < 16

ReadSize ==
  LET end == FoundEnd(data)
      line == SubSeq(data, 1, end - 1)
      rest == SubSeq(data, end + 2, Len(data))
  IN /\ mode = "size" /\ end # 0
     /\ CASE ~IsSize(line) -> /\ mode' = "badSize"
                              /\ UNCHANGED <<data, chunk, want, client>>
          [] IsSize(line) /\ Hex(line) = 0 ->
               /\ mode' = "done"
               /\ client' = client \o LastFrame
               /\ UNCHANGED <<data, chunk, want>>
          [] OTHER -> /\ mode' = "chunk"
                      /\ want' = Hex(line)
                      /\ client' = client \o HexLine(want')
                      /\ chunk' = FirstOf(rest, want' + 2)
                      /\ data' = SubSeq(rest, want' + 3, Len(rest))
     /\ UNCHANGED <<server, todo, header, left, calls, file, cut>>

RecvChunk(n) == /\ mode = "chunk" /\ Len(chunk) < want + 2
                /\ Receive(n)
                /\ chunk' = chunk \o Segment(n)
                /\ UNCHANGED <<server, mode, header, data, want, left, calls, client, file, cut>>

\* Mutant: what came in with the chunk's last segment is dropped.
Following_Dropped == data
Following == IF data = <<>> THEN SubSeq(chunk, want + 3, Len(chunk)) ELSE data

\* The chunk is whole, with its CRLF: pass it on and call again.
EndChunk == /\ mode = "chunk" /\ Len(chunk) >= want + 2
            /\ client' = client \o SubSeq(chunk, 1, want) \o CRLF
            /\ file' = file \o SubSeq(chunk, 1, want)
            /\ data' = Following
            /\ chunk' = <<>>
            /\ IF calls = MaxCalls
                 THEN mode' = "tooDeep" /\ UNCHANGED calls
                 ELSE mode' = "size" /\ calls' = calls + 1
            /\ UNCHANGED <<server, todo, header, want, left, cut>>

\* Mutant: a buffer of MAX_SEND_SIZE bytes is not full yet.
Full_Above(bytes) == Len(bytes) > MaxSend
Full(bytes) == Len(bytes) >= MaxSend

RecvLength(n) == LET bytes == data \o Segment(n)
                 IN /\ mode = "length"
                    /\ Receive(n)
                    /\ left' = left - n
                    /\ IF Full(bytes) \/ left' = 0
                         THEN Pass(bytes) /\ data' = <<>>
                         ELSE data' = bytes /\ UNCHANGED <<client, file>>
                    /\ mode' = IF left' = 0 THEN "done" ELSE mode
                    /\ UNCHANGED <<server, header, chunk, want, calls, cut>>

Waiting == \/ mode \in {"header", "length"}
           \/ mode = "size" /\ FoundEnd(data) = 0
           \/ mode = "chunk" /\ Len(chunk) < want + 2

\* recv raises: the timeout of a plain connection, or one that was reset.
Lose == /\ Waiting
        /\ mode' = "dead"
        /\ UNCHANGED <<server, todo, header, data, chunk, want, left, calls, client, file, cut>>

\* At the end of the stream recv answers b'', at once and for ever.
SpinAtEnd == /\ Waiting
             /\ closes /\ todo = <<>>
             /\ mode' = "spin"
             /\ UNCHANGED <<server, todo, header, data, chunk, want, left, calls, client, file, cut>>

StreamNext == \/ \E n \in 1 .. MaxRecv : RecvHeader(n) \/ RecvSize(n) \/ RecvChunk(n) \/ RecvLength(n)
              \/ ReadSize \/ EndChunk \/ Lose \/ SpinAtEnd

StreamSpec == StreamInit /\ [][StreamNext]_streamVars
-----------------------------------------------------------------------------
\* The server sends what it announced.
Honest == kind = Chunked \/ kind = Len(chunks[1])
Body == FlattenSeq(chunks)
Reframed == FlattenSeq([i \in DOMAIN chunks |->
                          HexLine(Len(chunks[i])) \o chunks[i] \o CRLF])

\* Header and body are told apart right wherever the stream is cut, except
\* inside the empty line: that one is never found, and the body is taken for
\* header up to the next empty line that comes in one piece.
HeaderSeparated == mode \notin {"header", "dead", "spin"} /\ ~cut
                     => header = ServerHead \o EmptyLine

\* What is stored is the body so far, in order and once, whatever the segments
\* and chunks; the client gets the same, framed again with hex(); at the end
\* both have all of it.
BodyReassembled ==
  ~cut /\ Honest =>
    /\ IsPrefix(file, Body)
    /\ IsPrefix(client, IF kind = Chunked THEN Reframed \o LastFrame ELSE Body)
    /\ mode = "done" => /\ file = Body
                        /\ kind = Chunked => client = Reframed \o LastFrame

\* An honest response is never waited for once all of it has come, so that the
\* end of the stream cannot make the loops spin, nor is it refused, unless it
\* has more chunks than the recursion has room for.
NoNeedlessEnd ==
  ~cut /\ Honest => /\ todo = <<>> => ~Waiting
                    /\ mode \notin {"badSize", "spin"}
                    /\ mode = "tooDeep" => Len(chunks) >= MaxCalls
=============================================================================
