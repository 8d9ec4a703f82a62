---------------------------- MODULE ClientRequest ----------------------------
(***************************************************************************)
(* Taking in a request, the first part of handleRequest: readHeader reads  *)
(* up to the empty line into a growing buffer, extractPostData the body    *)
(* into another, parseURL finds the server.  Bytes are counted, against    *)
(* the sizes of the buffers.  readHeader serves responses in the same way. *)
(***************************************************************************)
EXTENDS RequestURL

CONSTANTS MaxRecv,   \* MAX_RECV_SIZE
          MaxSend,   \* MAX_SEND_SIZE
          MaxPort,   \* MAX_PORT_LENGTH
          Headers,   \* lengths of headers, empty line included
          Bodies,    \* lengths of bodies, announced and sent
          URLs,      \* URLs asked for
          MaxFails   \* bound: failed recvs in a body

ASSUME RequestAssumption == /\ MaxRecv \in Nat \ {0} /\ MaxSend \in Nat /\ MaxFails \in Nat
                            /\ MaxPort \in Nat /\ Len(DefaultPort) < MaxPort
                            /\ Headers \subseteq Nat \ {0} /\ Bodies \subseteq Nat
                            /\ URLs \subseteq Seq(Chars)

NoLength == -1                        \* no Content-Length header
Initial == 5 * (MaxRecv + MaxSend)    \* currentMaxSize of a new ChunkBuffer

VARIABLES header, body, length,  \* what the client sends and announces
          leaves,  \* does it close the connection after that?
          taken,   \* bytes that recv has returned
          size,    \* currentSize of the buffer being filled
          cap,     \* its currentMaxSize
          st,      \* the loop that runs, or how the request ended
          fails,   \* recvs of the body that failed
          url,     \* the URL asked for, once it is parsed
          conn     \* the Connection parseURL returns

client == <<header, body, length, leaves>>
vars == <<client, taken, size, cap, st, fails, url, conn>>

TypeOK == /\ header \in Headers /\ body \in Bodies /\ length \in Bodies \cup {NoLength}
          /\ leaves \in BOOLEAN
          /\ taken \in 0 .. header + body
          /\ size \in Int
          /\ st = "header" => size = taken
          /\ st = "post" => size = taken - header - fails
          /\ cap \in Nat /\ cap >= Initial
          /\ st \in {"header", "post", "parse", "accepted", "rejected", "none",
                     "garbled", "overrun", "spin"}
          /\ fails \in 0 .. MaxFails

Init == /\ header \in Headers /\ body \in Bodies /\ length \in Bodies \cup {NoLength}
        /\ leaves \in BOOLEAN
        /\ taken = 0 /\ size = 0
        /\ cap = Initial
        /\ st = "header"
        /\ fails = 0
        /\ url = <<>> /\ conn = Rejected

Unparsed == UNCHANGED <<client, url, conn>>
Take(n) == taken + n <= header + body /\ taken' = taken + n

-----------------------------------------------------------------------------
\* Mutant: the buffer grows only when it is full.
Full_Late(n) == n >= cap
Full(n) == n >= cap \div 2
\* allocateBufferSpace: twice the size, zeroes after the data.
Grown(n) == IF Full(n) THEN 2 * cap ELSE cap

\* A recv of readHeader that does not bring the end of the header.
RecvHeader(n) == /\ st = "header"
                 /\ Take(n)
                 /\ size + n < header
                 /\ size' = size + n
                 /\ cap' = Grown(size')
                 /\ UNCHANGED <<st, fails>>
                 /\ Unparsed

\* How much of a new buffer is zeroed.
Zeroed == MaxRecv + MaxSend

\* The same, but strstr runs past the zeroed part of a buffer that has not
\* grown yet and finds an old empty line there.
ReadStale(n) == /\ st = "header"
                /\ Take(n)
                /\ size + n < header
                /\ size + n >= Zeroed /\ cap = Initial
                /\ size' = size + n
                /\ st' = "garbled"
                /\ UNCHANGED <<cap, fails>>
                /\ Unparsed

\* Mutant: one byte of it is taken for a part of the empty line.
Leftover_Short(n) == size + n - header - 1
\* What the recv brought behind the header.
Leftover(n) == size + n - header

\* The recv with the end of the header.  What follows it starts the body.  The
\* copy loop, for a header of half a new buffer or more, grows and so frees the
\* buffer it copies from: what it then copies is undefined.  And a copy that
\* fills the zeroed part of its buffer has no 0 at its end for readContentLength.
FindEnd(n) == /\ st = "header"
              /\ Take(n)
              /\ size + n >= header
              /\ size' = Leftover(n)
              /\ cap' = Initial
              /\ \/ /\ header < Initial \div 2
                    /\ st' = IF length = NoLength THEN "parse" ELSE "post"
                 \/ header >= Zeroed /\ st' = "garbled"
              /\ UNCHANGED fails
              /\ Unparsed

\* recv returns 0 or -1 before the header is whole.
LoseHeader == /\ st = "header"
              /\ st' = "none"
              /\ UNCHANGED <<taken, size, cap, fails>>
              /\ Unparsed

\* Mutant: the body is whole only when more has come.
PostWhole_More == size > length
PostWhole == size >= length

\* What has come with a size below 0 was written before the buffer, over what
\* malloc keeps there: nothing is certain after that.
RecvPost(n) == /\ st = "post" /\ ~PostWhole
               /\ Take(n)
               /\ cap' = Grown(size)
               /\ size' = size + n
               /\ st' = IF size < 0 THEN "overrun" ELSE st
               /\ UNCHANGED fails
               /\ Unparsed

\* The -1 that recv returns on a timeout is added to currentSize.
FailPost == /\ st = "post" /\ ~PostWhole
            /\ fails < MaxFails
            /\ fails' = fails + 1
            /\ cap' = Grown(size)
            /\ size' = size - 1
            /\ UNCHANGED <<taken, st>>
            /\ Unparsed

\* The client is gone: recv returns 0 for ever.
SpinPost == /\ st = "post" /\ ~PostWhole
            /\ leaves /\ taken = header + body
            /\ st' = "spin"
            /\ UNCHANGED <<taken, size, cap, fails>>
            /\ Unparsed

EndPost == /\ st = "post" /\ PostWhole
           /\ st' = "parse"
           /\ UNCHANGED <<taken, size, cap, fails>>
           /\ Unparsed

\* The first line has no two words, or its URL does not start with http://.
RejectLine == /\ st = "parse"
              /\ st' = "rejected"
              /\ UNCHANGED <<taken, size, cap, fails>>
              /\ Unparsed

\* allocateConnection copies the port, and the 0 behind it, into an array of
\* MAX_PORT_LENGTH bytes, however long it is.
PortFits(c) == Len(c.port) < MaxPort

ParseURL == /\ st = "parse"
            /\ url' \in URLs
            /\ conn' = Parsed(url')
            /\ st' = IF conn' = Rejected THEN "rejected"
                     ELSE IF PortFits(conn') THEN "accepted" ELSE "overrun"
            /\ UNCHANGED <<client, taken, size, cap, fails>>

Next == \/ \E n \in 1 .. MaxRecv : RecvHeader(n) \/ ReadStale(n) \/ FindEnd(n) \/ RecvPost(n)
        \/ LoseHeader \/ FailPost \/ SpinPost \/ EndPost \/ RejectLine \/ ParseURL

Spec == Init /\ [][Next]_vars
-----------------------------------------------------------------------------
\* Every recv writes inside its buffer, MAX_RECV_SIZE bytes from where it starts:
\* the two loops look at the size of the buffer at different places, after and
\* before the recv.  The exception is a body of which fewer bytes have come than
\* recvs have failed: each failure takes one from the size, which is below 0
\* then, and the next recv starts before the buffer.
RecvHasRoom ==
  /\ st = "header" => 0 <= size /\ size + MaxRecv <= cap
  /\ st = "post" /\ ~PostWhole => /\ fails <= taken - header => 0 <= size
                                 /\ size + MaxRecv <= Grown(size)

\* While no recv fails, a body that was announced right is taken as it is, not
\* more and not less, and never waited for once all of it has come, with the
\* part that came with the header counted.  After a timeout this does not hold:
\* the loop forgets a byte for each.
BodyRight == fails = 0 /\ body = length =>
               /\ st = "spin" => FALSE
               /\ st = "post" /\ taken = header + body => PostWhole
               /\ st \in {"parse", "accepted"} => size = body

\* For a URL with a slash before its query, if it has one: the host is the one it
\* means, and the port too unless there is a colon in its path.  The port is kept
\* in an array of MAX_PORT_LENGTH bytes, and only a URL that names a longer one,
\* or has a colon in its path, makes the copy run past the end of it.
ServerRight ==
  st \in {"accepted", "overrun"} /\ At(Unqueried(url), "/") # 0 =>
    /\ conn.host = Meant(url).host
    /\ At(Unqueried(url), ":") < At(Unqueried(url), "/") =>
          /\ conn = Meant(url)
          /\ st = "overrun" => ~PortFits(Meant(url))
=============================================================================
