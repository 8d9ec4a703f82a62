---------------------------- MODULE ChunkedBody ----------------------------
(***************************************************************************)
(* Reading a chunked body: dechunkResponse (GET: chunk data is written to  *)
(* the response file) and handlePostChunked (POST: each chunk is framed    *)
(* again and sent on).  The two differ in what they emit only.  The        *)
(* server's bytes arrive in segments cut anywhere.                         *)
(***************************************************************************)
EXTENDS ChunkCoding

CONSTANTS MaxRecv,    \* MAX_RECV_SIZE
          MaxSend,    \* MAX_SEND_SIZE
          MaxInt,     \* INT_MAX
          MaxLong,    \* LONG_MAX
          Chunkings,  \* bodies a server may send: sequences of chunks
          Junk        \* streams that are not chunked bodies at all

ASSUME ChunkAssumption ==
  /\ MaxRecv \in Nat \ {0} /\ MaxSend \in Nat /\ MaxRecv <= MaxSend
  /\ MaxInt \in Nat /\ MaxLong \in Nat /\ 15 <= MaxInt /\ MaxInt <= MaxLong
  /\ Chunkings \subseteq Seq(Seq(Bytes)) /\ Junk \subseteq Seq(Bytes)
  /\ \A c \in Chunkings : \A i \in DOMAIN c : Len(c[i]) \in 1 .. 15

VARIABLES sink,      \* "file" (GET) or "client" (POST)
          chunks,    \* the body the server sends, or <<>> with junk
          todo,      \* bytes of it not received yet
          whole,     \* does the server send all of it, or stop in the middle?
          closes,    \* will it close then?
          data,      \* the SocketBuffer: bytes before the next chunk
          chunk,     \* the ChunkBuffer being filled
          want,      \* chunkLength
          out,       \* bytes emitted
          st,        \* "size", "chunk", or how the function ended; "stray": it
                     \* went on to use memory outside its buffers
          aligned    \* did some recv end with the last byte of a chunk?

Ints == -MaxInt - 1 .. MaxInt

server == <<chunks, whole, closes>>
vars == <<sink, server, todo, data, chunk, want, out, st, aligned>>

TypeOK == /\ sink \in {"file", "client"}
          /\ \A s \in {todo, data, chunk} : s \in Seq(Bytes)
          /\ out \in Seq(Nat)
          /\ {whole, closes, aligned} \subseteq BOOLEAN
          /\ want \in Ints
          /\ st \in {"size", "chunk", "ok", "failed", "spinning", "stray"}
          /\ st = "size" => chunk = <<>>   \* freeChunk
          /\ st = "chunk" => data = <<>>   \* memset

\* readHeader may leave the first bytes of the body in data.
Init == /\ sink \in {"file", "client"}
        /\ whole \in BOOLEAN /\ closes \in BOOLEAN
        /\ chunks \in Chunkings \cup {<<>>}
        /\ \E stream \in IF chunks = <<>> THEN Junk ELSE {Encoded(chunks)} :
           \E start \in 0 .. MaxRecv - 1, end \in 0 .. Len(stream) :
              /\ start <= end
              /\ whole <=> end = Len(stream)
              /\ data = SubSeq(stream, 1, start)
              /\ todo = SubSeq(stream, start + 1, end)
        /\ chunk = <<>> /\ want = 0 /\ out = <<>>
        /\ st = "size"
        /\ aligned = FALSE

-----------------------------------------------------------------------------
MINUS == 18
PLUS == 19

\* strtol stops at the ends of a long, and the assignment keeps an int of it.
AsLong(n) == IF n > MaxLong THEN MaxLong
             ELSE IF n < -MaxLong - 1 THEN -MaxLong - 1 ELSE n
AsInt(n) == IF n \in Ints THEN n
            ELSE ((n + MaxInt + 1) % (2 * MaxInt + 2)) - MaxInt - 1

\* The digits that begin at first, perhaps none.
Digits(d, first) ==
  LET stop == SelectInSubSeq(d, first, Len(d), LAMBDA b : b > 15)
  IN SubSeq(d, first, IF stop = 0 THEN Len(d) ELSE stop - 1)

\* Mutant: blanks before the number are not skipped.
Strtol_NoBlanks(d) == Hex(Digits(d, 1))
\* int chunkLength = strtol(data, NULL, 16): blanks are skipped, CR and LF among
\* them, then comes a sign or not, and without digits the number is 0.
Strtol(d) ==
  LET start == SelectInSeq(d, LAMBDA b : b \notin {CR, LF})
      number == IF start = 0 THEN 0
                ELSE IF d[start] = MINUS THEN -Hex(Digits(d, start + 1))
                ELSE Hex(Digits(d, IF d[start] = PLUS THEN start + 1 ELSE start))
  IN AsInt(AsLong(number))

\* fwrite for a GET; for a POST sprintf("%X") and "\r\n" as soon as the size is
\* known, the data and "\r\n" once they are here.  %X takes an int for unsigned;
\* sizes from 256 on, which only junk has, are not spelled out digit by digit.
SizeLine(n) ==
  LET unsigned == IF n < 0 THEN n + 2 * MaxInt + 2 ELSE n
      digits == IF unsigned < 16 THEN <<unsigned>> ELSE <<unsigned \div 16, unsigned % 16>>
  IN IF sink = "file" THEN <<>> ELSE digits \o CRLF
Emitted(c) == IF sink = "file" THEN c ELSE c \o CRLF
EmittedLast == IF sink = "file" THEN <<>> ELSE LastFrame

Waiting == \/ st = "size" /\ FoundEnd(data) = 0
           \/ st = "chunk" /\ Len(chunk) < want

-----------------------------------------------------------------------------
\* Mutant: the size line is not bounded.
TooLong_Never(d) == FALSE
TooLong(d) == Len(d) > MaxRecv + MaxSend

\* One recv of the loop that looks for the end of the size line.
RecvSize(n) ==
  /\ st = "size" /\ Waiting
  /\ n <= Len(todo)
  /\ data' = data \o SubSeq(todo, 1, n)
  /\ todo' = SubSeq(todo, n + 1, Len(todo))
  /\ st' = IF TooLong(data') THEN "failed" ELSE st
  /\ UNCHANGED <<sink, server, chunk, want, out, aligned>>

LastChunk == /\ st = "size" /\ ~Waiting
             /\ Strtol(data) = 0
             /\ st' = "ok"
             /\ out' = out \o EmittedLast
             /\ UNCHANGED <<sink, server, todo, data, chunk, want, aligned>>

\* Mutant: what came with the size line is lost.
Begun_Empty == <<>>
Begun == SubSeq(data, FoundEnd(data) + 2, Len(data))

BeginChunk == /\ st = "size" /\ ~Waiting
              /\ Strtol(data) # 0
              /\ want' = Strtol(data)
              /\ out' = out \o SizeLine(want')
              /\ chunk' = Begun
              /\ data' = <<>>
              /\ st' = "chunk"
              /\ UNCHANGED <<sink, server, todo, aligned>>

RecvChunk(n) == /\ st = "chunk" /\ Waiting
                /\ n <= Len(todo)
                /\ chunk' = chunk \o SubSeq(todo, 1, n)
                /\ todo' = SubSeq(todo, n + 1, Len(todo))
                /\ UNCHANGED <<sink, server, data, want, out, st, aligned>>

\* Mutant: the CRLF is not skipped.
Rest_WithCRLF == SubSeq(chunk, want + 1, Len(chunk))
\* What follows the chunk is kept for the next call, less the CRLF that ends
\* the chunk; if it is two bytes or fewer there is nothing to keep, and if the
\* CRLF has not come yet nobody will skip it.
Rest == SubSeq(chunk, want + 3, Len(chunk))

\* Mutant: the chunk's buffer is used again as it is.
Freed_Not == chunk
Freed == <<>>

EndChunk == /\ st = "chunk" /\ ~Waiting
            /\ want > 0
            /\ out' = out \o Emitted(SubSeq(chunk, 1, want))
            /\ data' = Rest
            /\ chunk' = Freed
            /\ st' = "size"
            /\ aligned' = (aligned \/ Len(chunk) = want)
            /\ UNCHANGED <<sink, server, todo, want>>

\* A negative chunkLength is not 0 and waits for nothing: fwrite and send take it
\* for an enormous size, and memcpy begins before the buffer and ends beyond the
\* SocketBuffer.  What the program does from here on is undefined.
NegativeChunk == /\ st = "chunk" /\ ~Waiting
                 /\ want < 0
                 /\ st' = "stray"
                 /\ UNCHANGED <<sink, server, todo, data, chunk, want, out, aligned>>

\* Mutant: an error of recv is looked for in the chunk's loop only.
Timeout_InChunk == /\ Waiting /\ st = "chunk"
                   /\ st' = "failed"
                   /\ UNCHANGED <<sink, server, todo, data, chunk, want, out, aligned>>
Timeout == /\ Waiting
           /\ st' = "failed"
           /\ UNCHANGED <<sink, server, todo, data, chunk, want, out, aligned>>

\* recv returns 0 at the end of the stream; neither loop looks for it, and it
\* returns 0 again, at once, each time.
Spin == /\ Waiting
        /\ closes /\ todo = <<>>
        /\ st' = "spinning"
        /\ UNCHANGED <<sink, server, todo, data, chunk, want, out, aligned>>

Next == \/ \E n \in 1 .. MaxRecv : RecvSize(n) \/ RecvChunk(n)
        \/ LastChunk \/ BeginChunk \/ EndChunk \/ NegativeChunk \/ Timeout \/ Spin

Spec == Init /\ [][Next]_vars
\* recv returns, by data, the end of the stream or its timeout.
FairSpec == Spec /\ WF_vars(Next)
-----------------------------------------------------------------------------
Expected == IF sink = "file" THEN FlattenSeq(chunks) ELSE Encoded(chunks)

\* Whatever the segments, what is emitted is the body so far, and all of it when
\* the function reports success, as long as no recv stopped exactly at the end
\* of a chunk's data.
ReassembledUnlessAligned ==
  chunks # <<>> /\ ~aligned => /\ IsPrefix(out, Expected)
                               /\ st = "ok" => out = Expected

\* Success leaves the server's connection at the next response, or short of it
\* by no more than the CRLF that ends the body: no byte of the body is left for
\* the readHeader of a persistent connection to take for a header.
NextResponseIntact ==
  st = "ok" /\ chunks # <<>> /\ whole /\ ~aligned => IsSuffix(todo, CRLF)

\* Neither loop looks for the end of the stream.  It does no harm after a whole
\* body, which no segmentation but an aligned one makes them read beyond: only a
\* server that closes early can make a thread spin.
SpinsOnlyWhenCut ==
  st = "spinning" /\ chunks # <<>> => ~whole \/ aligned

\* As long as the server does not close, the function returns, wherever the
\* server falls silent: each of the two loops gives up on a timeout.  A negative size
\* is the one way out of its control.
Returns == ~closes => <>(st \in {"ok", "failed", "stray"})

\* The SocketBuffer has room for each recv of MAX_RECV_SIZE bytes, as the size
\* line is bounded, and for what memcpy puts there behind a chunk: all of it came
\* with one recv.  With a negative size nothing of the kind holds, memcpy has no
\* room (see StraysOnlyIfMisread for when that is).
RecvHasRoom ==
  /\ st = "size" /\ Waiting => Len(data) + MaxRecv <= MaxRecv + 2 * MaxSend
  /\ st = "chunk" /\ ~Waiting /\ want >= 0 => Len(Rest) <= MaxRecv + 2 * MaxSend

\* A negative size, which takes fwrite and memcpy out of their buffers, is never
\* read out of a chunked body, though its data look like signs and numbers: only
\* a server that sends something else gets there, or a recv that stopped exactly
\* at the end of a chunk's data, after which data are read as sizes.
StraysOnlyIfMisread == st = "stray" => chunks = <<>> \/ aligned

\* get.c says of what the client is sent "the original request may have been
\* chunked and/or zipped": it is the body, whatever the chunks and segments.
Reassembled == st = "ok" /\ chunks # <<>> => out = Expected
=============================================================================
