------------------------- MODULE ChunkedBodyProofs -------------------------
(***************************************************************************)
(* Proofs about ChunkedBody, for all sizes of buffers, bodies and          *)
(* segmentations: the recvs have room; unless a recv stops exactly at the  *)
(* end of a chunk's data, the body is reassembled, nothing of it is left   *)
(* for the next response, no thread spins on a whole body, and no size is  *)
(* read as negative.                                                       *)
(***************************************************************************)
EXTENDS ChunkedBody, SequenceLemmas

-----------------------------------------------------------------------------
(* Strtol: a number always, the size when the size line is there.           *)

LEMMA DigitsAre ==
  ASSUME NEW d \in Seq(Bytes), NEW first \in 1 .. Len(d) + 1
  PROVE  /\ Hex(Digits(d, first)) \in Nat
         /\ first < Len(d) /\ d[first] \in 0 .. 15 /\ d[first + 1] = CR
            => Hex(Digits(d, first)) = d[first]
<1> DEFINE stops == {i \in first .. Len(d) : d[i] > 15}
           stop == IF stops # {} THEN Min(stops) ELSE 0
           last == IF stop = 0 THEN Len(d) ELSE stop - 1
           digits == SubSeq(d, first, last)
<1>1. Digits(d, first) = digits
  BY DEF Digits, SelectInSubSeq
<1>2. /\ stop = 0 => stops = {}
      /\ stop # 0 => stop \in stops /\ \A i \in stops : stop <= i
  <2> stops \in SUBSET Nat /\ 0 \notin stops
    OBVIOUS
  <2> HIDE DEF stops
  <2>1. stops # {} => Min(stops) \in stops /\ \A i \in stops : Min(stops) <= i
    BY MinIsLeast
  <2> QED
    BY <2>1
<1> HIDE DEF stop
<1>3. digits \in Seq(Bytes)
  <2>1. stop # 0 => stop \in first .. Len(d)
    BY <1>2
  <2> QED
    BY <2>1
<1>4. digits \in Seq(Nat)
  <2>1. Bytes \subseteq Nat
    BY DEF Bytes
  <2> QED
    BY <1>3, <2>1, SeqOfMore
<1>5. ASSUME first < Len(d), d[first] \in 0 .. 15, d[first + 1] = CR
      PROVE  Hex(digits) = d[first]
  <2>1. first + 1 \in stops /\ first \notin stops
    BY <1>5 DEF CR
  <2>2. stop = first + 1
    BY <1>2, <2>1
  <2>3. digits = SubSeq(d, first, first)
    BY <2>2
  <2>4. Len(digits) = 1 /\ digits[1] = d[first]
    <3>1. first \in 1 .. Len(d)
      BY <1>5
    <3>2. Len(SubSeq(d, first, first)) = 1 /\ SubSeq(d, first, first)[1] = d[first]
      BY <3>1, OneOf
    <3> QED
      BY <2>3, <3>2, Zenon
  <2> HIDE DEF digits
  <2> QED
    BY <1>4, <2>4, HexIsNat
<1> HIDE DEF digits
<1> QED
  BY <1>1, <1>4, <1>5, HexIsNat

LEMMA IntIs ==
  ASSUME NEW n \in Int
  PROVE  /\ AsInt(AsLong(n)) \in Ints
         /\ n \in 0 .. 15 => AsInt(AsLong(n)) = n
<1>1. MaxInt \in Nat /\ MaxLong \in Nat /\ 15 <= MaxInt /\ MaxInt <= MaxLong
  BY ChunkAssumption
<1>2. AsLong(n) \in Int /\ (n \in 0 .. 15 => AsLong(n) = n /\ n \in Ints)
  BY <1>1 DEF AsLong, Ints
<1>3. ASSUME NEW m \in Int PROVE AsInt(m) \in Ints /\ (m \in Ints => AsInt(m) = m)
  <2> DEFINE r == (m + MaxInt + 1) % (2 * MaxInt + 2)
  <2>1. r \in 0 .. 2 * MaxInt + 1
    BY <1>1
  <2> HIDE DEF r
  <2>2. r - MaxInt - 1 \in Ints
    BY <1>1, <2>1 DEF Ints
  <2> QED
    BY <2>2 DEF AsInt, r
<1> QED
  BY <1>2, <1>3

LEMMA StrtolIs ==
  ASSUME NEW d \in Seq(Bytes)
  PROVE  /\ Strtol(d) \in Ints
         /\ \A back \in {0, 1} :
              /\ Len(d) >= back + 2
              /\ back = 1 => d[1] = LF
              /\ d[back + 1] \in 0 .. 15
              /\ d[back + 2] = CR
              => Strtol(d) = d[back + 1]
<1> DEFINE starts == {i \in 1 .. Len(d) : d[i] \notin {CR, LF}}
           start == IF starts # {} THEN Min(starts) ELSE 0
           number == IF start = 0 THEN 0
                     ELSE IF d[start] = MINUS THEN -Hex(Digits(d, start + 1))
                     ELSE Hex(Digits(d, IF d[start] = PLUS THEN start + 1 ELSE start))
<1>1. Strtol(d) = AsInt(AsLong(number))
  BY DEF Strtol, SelectInSeq
<1>2. /\ start \in 0 .. Len(d)
      /\ start # 0 => start \in starts /\ \A i \in starts : start <= i
      /\ start = 0 => starts = {}
  <2> starts \in SUBSET Nat /\ \A i \in starts : i # 0 /\ i \in 0 .. Len(d)
    OBVIOUS
  <2> HIDE DEF starts
  <2>1. starts # {} => Min(starts) \in starts /\ \A i \in starts : Min(starts) <= i
    BY MinIsLeast
  <2>2. Len(d) \in Nat
    OBVIOUS
  <2>3. CASE starts # {}
    <3>1. start = Min(starts)
      BY <2>3
    <3> QED
      BY <2>1, <2>3, <3>1
  <2>4. CASE starts = {}
    <3>1. start = 0
      BY <2>4
    <3> QED
      BY <2>2, <2>4, <3>1
  <2> QED
    BY <2>3, <2>4
<1> HIDE DEF start
<1>3. number \in Int
  <2>1. start # 0 => start \in 1 .. Len(d) + 1 /\ start + 1 \in 1 .. Len(d) + 1
    BY <1>2
  <2>2. start # 0 => Hex(Digits(d, start)) \in Nat /\ Hex(Digits(d, start + 1)) \in Nat
    BY <2>1, DigitsAre
  <2> QED
    BY <2>2
<1>4. ASSUME NEW back \in {0, 1}, Len(d) >= back + 2, back = 1 => d[1] = LF,
             d[back + 1] \in 0 .. 15, d[back + 2] = CR
      PROVE  Strtol(d) = d[back + 1]
  <2>1. back + 1 \in starts /\ (back = 1 => 1 \notin starts)
    <3>1. back + 1 \in 1 .. Len(d)
      BY <1>4
    <3>2. d[back + 1] # CR /\ d[back + 1] # LF
      <4>1. \A x \in 0 .. 15 : x # CR /\ x # LF
        BY DEF CR, LF
      <4> QED
        BY <1>4, <4>1, Zenon
    <3>3. back + 1 \in starts
      BY <3>1, <3>2, Zenon
    <3>4. back = 1 => 1 \notin starts
      BY <1>4, Zenon
    <3> QED
      BY <3>3, <3>4, Zenon
  <2>2. start = back + 1
    BY <1>2, <2>1
  <2>3. number = Hex(Digits(d, back + 1))
    <3>1. \A x \in 0 .. 15 : x # MINUS /\ x # PLUS
      BY DEF MINUS, PLUS
    <3>2. d[back + 1] # MINUS /\ d[back + 1] # PLUS
      BY <1>4, <3>1, Zenon
    <3>3. start # 0
      BY <2>2
    <3> QED
      BY <2>2, <3>2, <3>3, Zenon
  <2>4. Hex(Digits(d, back + 1)) = d[back + 1]
    <3>1. /\ back + 1 \in 1 .. Len(d) + 1 /\ back + 1 < Len(d)
          /\ d[(back + 1) + 1] = CR
      BY <1>4
    <3> QED
      BY <1>4, <3>1, DigitsAre
  <2> HIDE DEF number
  <2> QED
    BY <1>1, <1>3, <1>4, <2>3, <2>4, IntIs
<1> HIDE DEF number
<1>5. Strtol(d) \in Ints
  BY <1>1, <1>3, IntIs
<1> QED
  BY <1>4, <1>5

-----------------------------------------------------------------------------
(* Types, and room in the SocketBuffer.                                     *)

\* What the server sends is one of the bodies, or junk.
ServerOK == chunks \in Chunkings \cup {<<>>}
TInv == TypeOK /\ ServerOK

Room == /\ st = "size" => Len(data) <= MaxRecv + MaxSend
        /\ st = "chunk" /\ want > 0 => Len(chunk) <= want + MaxRecv + MaxSend
        /\ st = "chunk" => want # 0
RInv == TInv /\ Room

LEMMA ServerSends ==
  ASSUME ServerOK, chunks # <<>>
  PROVE  chunks \in Seq(Seq(Bytes)) /\ ChunkSizes(chunks)
  BY ChunkAssumption DEF ServerOK, ChunkSizes

LEMMA InitRInv == Init => RInv
<1> SUFFICES ASSUME Init PROVE RInv
  OBVIOUS
<1>1. ServerOK
  BY DEF Init, ServerOK
<1>2. PICK stream \in IF chunks = <<>> THEN Junk ELSE {Encoded(chunks)} :
        \E start \in 0 .. MaxRecv - 1, end \in 0 .. Len(stream) :
             /\ start <= end
             /\ data = SubSeq(stream, 1, start)
             /\ todo = SubSeq(stream, start + 1, end)
  BY DEF Init
<1>pick. PICK start \in 0 .. MaxRecv - 1, end \in 0 .. Len(stream) :
             /\ start <= end
             /\ data = SubSeq(stream, 1, start)
             /\ todo = SubSeq(stream, start + 1, end)
  BY <1>2
<1>3. stream \in Seq(Bytes)
  <2>1. CASE chunks = <<>>
    BY <1>2, <2>1, ChunkAssumption
  <2>2. CASE chunks # <<>>
    BY <1>1, <2>2, ServerSends, EncodedTyped
  <2> QED
    BY <2>1, <2>2
<1>4. start \in 0 .. Len(stream) /\ MaxRecv \in Nat /\ MaxSend \in Nat
  BY <1>pick, <1>3, ChunkAssumption
<1>5. data \in Seq(Bytes) /\ Len(data) = start
  BY <1>pick, <1>4, <1>3, HeadTyped
<1>6. todo \in Seq(Bytes)
  BY <1>pick, <1>3, <1>4
<1>7. <<>> \in Seq(Bytes) /\ <<>> \in Seq(Nat)
  OBVIOUS
<1>zero. 0 \in Ints
  BY ChunkAssumption DEF Ints
<1>8. TypeOK
  BY <1>5, <1>6, <1>7, <1>zero DEF Init, TypeOK
<1>9. Room
  BY <1>4, <1>5 DEF Init, Room
<1> QED
  BY <1>1, <1>8, <1>9 DEF RInv, TInv

LEMMA SizeLineTyped ==
  ASSUME NEW n \in Ints
  PROVE  SizeLine(n) \in Seq(Nat)
<1> DEFINE unsigned == IF n < 0 THEN n + 2 * MaxInt + 2 ELSE n
           digits == IF unsigned < 16 THEN <<unsigned>> ELSE <<unsigned \div 16, unsigned % 16>>
<1>1. unsigned \in Nat
  BY ChunkAssumption DEF Ints
<1> HIDE DEF unsigned
<1>2. unsigned \div 16 \in Nat /\ unsigned % 16 \in Nat
  BY <1>1
<1>3. digits \in Seq(Nat) /\ <<>> \in Seq(Nat)
  BY <1>1, <1>2
<1> HIDE DEF digits
<1>4. digits \o CRLF \in Seq(Nat)
  BY <1>3, BytesAreNat
<1> QED
  BY <1>3, <1>4 DEF SizeLine, digits, unsigned

LEMMA EmittedTyped ==
  ASSUME NEW c \in Seq(Bytes)
  PROVE  Emitted(c) \in Seq(Nat) /\ EmittedLast \in Seq(Nat)
<1>1. c \in Seq(Nat) /\ CRLF \in Seq(Nat) /\ LastFrame \in Seq(Nat) /\ <<>> \in Seq(Nat)
  BY BytesAreNat
<1> QED
  BY <1>1 DEF Emitted, EmittedLast

LEMMA RInvStep == RInv /\ [Next]_vars => RInv'
<1> SUFFICES ASSUME RInv, [Next]_vars PROVE RInv'
  OBVIOUS
<1> USE DEF RInv
<1>t. TInv /\ TypeOK /\ ServerOK
  BY DEF TInv
<1>typed. /\ todo \in Seq(Bytes) /\ data \in Seq(Bytes) /\ chunk \in Seq(Bytes)
          /\ out \in Seq(Nat) /\ want \in Int
          /\ MaxRecv \in Nat /\ MaxSend \in Nat
          /\ Len(data) \in Nat /\ Len(chunk) \in Nat
  <2>1. todo \in Seq(Bytes) /\ data \in Seq(Bytes) /\ chunk \in Seq(Bytes)
        /\ out \in Seq(Nat) /\ want \in Int
    BY <1>t DEF TypeOK, Ints
  <2>2. MaxRecv \in Nat /\ MaxSend \in Nat
    BY ChunkAssumption
  <2> QED
    BY <2>1, <2>2
<1>1. ASSUME NEW n \in 1 .. MaxRecv, RecvSize(n) PROVE RInv'
  <2>1. n \in 0 .. Len(todo)
    BY <1>1, <1>typed DEF RecvSize
  <2>2. data' = data \o SubSeq(todo, 1, n) /\ todo' = SubSeq(todo, n + 1, Len(todo))
    BY <1>1 DEF RecvSize
  <2>3. data' \in Seq(Bytes) /\ todo' \in Seq(Bytes)
    BY <1>typed, <2>1, <2>2, RecvSplits
  <2>4. st = "size" /\ st' = IF TooLong(data') THEN "failed" ELSE st
    BY <1>1 DEF RecvSize
  <2>5. TypeOK'
    BY <1>1, <1>t, <2>3, <2>4 DEF RecvSize, TypeOK, server
  <2>6. Room'
    <3>1. Len(data') \in Nat
      BY <2>3
    <3>2. st' = "size" => ~(Len(data') > MaxRecv + MaxSend)
      BY <2>4 DEF TooLong
    <3> QED
      BY <1>typed, <2>4, <3>1, <3>2 DEF Room
  <2>7. ServerOK'
    BY <1>1, <1>t DEF RecvSize, server, ServerOK
  <2> QED
    BY <2>5, <2>6, <2>7 DEF TInv
<1>2. ASSUME NEW n \in 1 .. MaxRecv, RecvChunk(n) PROVE RInv'
  <2>1. n \in 0 .. Len(todo)
    BY <1>2, <1>typed DEF RecvChunk
  <2>2. chunk' = chunk \o SubSeq(todo, 1, n) /\ todo' = SubSeq(todo, n + 1, Len(todo))
    BY <1>2 DEF RecvChunk
  <2>3. chunk' \in Seq(Bytes) /\ todo' \in Seq(Bytes) /\ Len(chunk') = Len(chunk) + n
    BY <1>typed, <2>1, <2>2, RecvSplits DEF Joins
  <2>4. st = "chunk" /\ st' = st /\ want' = want /\ Len(chunk) < want
    BY <1>2 DEF RecvChunk, Waiting
  <2>5. TypeOK'
    BY <1>2, <1>t, <2>3, <2>4 DEF RecvChunk, TypeOK, server
  <2>6. Room'
    BY <1>typed, <2>3, <2>4 DEF Room
  <2>7. ServerOK'
    BY <1>2, <1>t DEF RecvChunk, server, ServerOK
  <2> QED
    BY <2>5, <2>6, <2>7 DEF TInv
<1>3. CASE LastChunk
  <2>1. out' \in Seq(Nat)
    <3>1. EmittedLast \in Seq(Nat)
      BY <1>typed, EmittedTyped
    <3> QED
      BY <1>3, <1>typed, <3>1 DEF LastChunk
  <2>2. TypeOK'
    BY <1>3, <1>t, <2>1 DEF LastChunk, TypeOK, server
  <2>3. Room' /\ ServerOK'
    BY <1>3, <1>t DEF LastChunk, server, ServerOK, Room
  <2> QED
    BY <2>2, <2>3 DEF TInv
<1>4. CASE BeginChunk
  <2>1. st = "size" /\ st' = "chunk" /\ data' = <<>> /\ chunk' = Begun /\ want' = Strtol(data)
    BY <1>4 DEF BeginChunk
  <2>2. want' \in Ints /\ want' \in Int
    BY <1>typed, <2>1, StrtolIs DEF Ints
  <2>3. FoundEnd(data) + 2 \in Nat \ {0} /\ FoundEnd(data) \in Nat
    BY <1>typed, FoundEndIs
  <2>4. chunk' \in Seq(Bytes)
    BY <1>typed, <2>1, <2>3, TailTyped DEF Begun
  <2>5. Len(chunk') <= Len(data) /\ Len(chunk') \in Nat
    <3>1. Len(chunk') = IF FoundEnd(data) + 2 <= Len(data)
                        THEN Len(data) - (FoundEnd(data) + 2) + 1 ELSE 0
      BY <1>typed, <2>1, <2>3, TailTyped DEF Begun
    <3> QED
      BY <1>typed, <2>3, <3>1
  <2>6. out' \in Seq(Nat)
    <3>1. out' = out \o SizeLine(want')
      BY <1>4 DEF BeginChunk
    <3>2. SizeLine(want') \in Seq(Nat)
      BY <2>2, SizeLineTyped
    <3> QED
      BY <1>typed, <3>1, <3>2
  <2>7. TypeOK'
    BY <1>4, <1>t, <2>1, <2>2, <2>4, <2>6 DEF BeginChunk, TypeOK, server
  <2>8. Room'
    <3>1. want' # 0
      BY <1>4 DEF BeginChunk
    <3> QED
      BY <1>typed, <2>1, <2>2, <2>5, <3>1 DEF Room
  <2>9. ServerOK'
    BY <1>4, <1>t DEF BeginChunk, server, ServerOK
  <2> QED
    BY <2>7, <2>8, <2>9 DEF TInv
<1>5. CASE EndChunk
  <2>1. /\ st = "chunk" /\ st' = "size" /\ data' = Rest /\ chunk' = <<>>
        /\ ~(Len(chunk) < want) /\ want > 0
    BY <1>5 DEF EndChunk, Waiting, Freed
  <2>2. want + 3 \in Nat \ {0} /\ want \in 0 .. Len(chunk)
    BY <1>typed, <2>1
  <2>3. data' \in Seq(Bytes)
    BY <1>typed, <2>1, <2>2, TailTyped DEF Rest
  <2>4. Len(data') = IF want + 3 <= Len(chunk) THEN Len(chunk) - (want + 3) + 1 ELSE 0
    BY <1>typed, <2>1, <2>2, TailTyped DEF Rest
  <2>5. out' \in Seq(Nat)
    <3> DEFINE c == SubSeq(chunk, 1, want)
    <3>1. c \in Seq(Bytes)
      BY <1>typed, <2>2, HeadTyped
    <3> HIDE DEF c
    <3>2. Emitted(c) \in Seq(Nat)
      BY <3>1, EmittedTyped
    <3>3. out' = out \o Emitted(c)
      BY <1>5 DEF EndChunk, c
    <3> QED
      BY <1>typed, <3>2, <3>3
  <2>6. TypeOK'
    BY <1>5, <1>t, <2>1, <2>3, <2>5 DEF EndChunk, TypeOK, server
  <2>7. Room'
    <3>1. Len(chunk) <= want + MaxRecv + MaxSend
      BY <2>1 DEF Room
    <3>2. Len(data') <= MaxRecv + MaxSend
      BY <1>typed, <2>4, <3>1
    <3> QED
      BY <2>1, <3>2 DEF Room
  <2>8. ServerOK'
    BY <1>5, <1>t DEF EndChunk, server, ServerOK
  <2> QED
    BY <2>6, <2>7, <2>8 DEF TInv
<1>6. CASE Timeout
  BY <1>6, <1>t DEF Timeout, TInv, TypeOK, ServerOK, Room, server
<1>7. CASE Spin
  BY <1>7, <1>t DEF Spin, TInv, TypeOK, ServerOK, Room, server
<1>8. CASE NegativeChunk
  BY <1>8, <1>t DEF NegativeChunk, TInv, TypeOK, ServerOK, Room, server
<1>9. CASE UNCHANGED vars
  BY <1>9, <1>t DEF vars, TInv, TypeOK, ServerOK, Room, server
<1> QED
  BY <1>1, <1>2, <1>3, <1>4, <1>5, <1>6, <1>7, <1>8, <1>9 DEF Next

LEMMA AlwaysRoom == Spec => []RInv
  BY InitRInv, RInvStep, PTL DEF Spec

\* Whatever the server sends, body or junk, each variable of the two functions
\* keeps its type; a buffer is empty whenever the other one is in use.
THEOREM ChunkedTyped == Spec => []TypeOK
<1>1. RInv => TypeOK
  BY DEF RInv, TInv
<1> QED
  BY <1>1, AlwaysRoom, PTL

\* The SocketBuffer has room for each recv and, as long as no size is negative,
\* for what memcpy puts there behind a chunk, for all sizes of its parts and
\* whatever the server sends: the check of the length in the loop covers what the
\* loop reads, and what a chunk leaves over came with one recv.
THEOREM SocketBufferHasRoom == Spec => []RecvHasRoom
<1>1. ASSUME RInv PROVE RecvHasRoom
  <2>1. /\ st = "size" => Len(data) <= MaxRecv + MaxSend
        /\ st = "chunk" /\ want > 0 => Len(chunk) <= want + MaxRecv + MaxSend
        /\ st = "chunk" => want # 0
    BY <1>1 DEF RInv, Room
  <2>2. /\ Len(data) \in Nat /\ Len(chunk) \in Nat /\ chunk \in Seq(Bytes) /\ want \in Int
        /\ MaxRecv \in Nat /\ MaxSend \in Nat /\ MaxRecv <= MaxSend
    BY <1>1, ChunkAssumption DEF RInv, TInv, TypeOK, Ints
  <2>3. ASSUME st = "chunk", want >= 0 PROVE Len(Rest) <= MaxRecv + 2 * MaxSend
    <3>1. want + 3 \in Nat \ {0} /\ want > 0
      BY <2>1, <2>2, <2>3
    <3>2. Len(Rest) = IF want + 3 <= Len(chunk) THEN Len(chunk) - (want + 3) + 1 ELSE 0
      BY <2>2, <3>1, TailTyped DEF Rest
    <3>3. Len(chunk) <= want + MaxRecv + MaxSend
      BY <2>1, <2>3, <3>1
    <3> QED
      BY <2>2, <3>1, <3>2, <3>3
  <2>4. st = "size" => Len(data) + MaxRecv <= MaxRecv + 2 * MaxSend
    BY <2>1, <2>2
  <2> QED
    BY <2>3, <2>4 DEF RecvHasRoom
<1> QED
  BY <1>1, AlwaysRoom, PTL
-----------------------------------------------------------------------------
(* The loop of the size line ends two bytes before the chunk's data.        *)

LEMMA SizeLineThere ==
  ASSUME NEW stream \in Seq(Bytes), NEW d \in Seq(Bytes), NEW c \in Seq(Bytes),
         Len(c) \in 0 .. 15, NEW p \in Nat, NEW back \in {0, 1}, back <= p,
         FrameAt(stream, p, c), back = 1 => stream[p] = LF,
         Lies(d, stream, p - back), FoundEnd(d) # 0
  PROVE  Strtol(d) = Len(c) /\ FoundEnd(d) = back + 2 /\ Len(d) >= back + 3
<1>1. /\ FoundEnd(d) = back + 2 /\ Len(d) >= back + 3
      /\ d[back + 1] = Len(c) /\ d[back + 2] = CR
      /\ back = 1 => d[1] = LF
  BY LineEndThere
<1>2. Len(d) >= back + 2 /\ d[back + 1] \in 0 .. 15
  BY <1>1
<1>3. Strtol(d) = d[back + 1]
  BY <1>1, <1>2, StrtolIs
<1> QED
  BY <1>1, <1>3

-----------------------------------------------------------------------------
(* What is emitted, chunk by chunk.                                         *)

\* The output after k chunks, and all of it; what is emitted with the size of
\* a chunk, with its data, and at the end.
Sent(to, cs, k) == IF to = "file" THEN FlattenSeq(SubSeq(cs, 1, k))
                   ELSE FlattenSeq(SubSeq(Frames(cs), 1, k))
SentAll(to, cs) == IF to = "file" THEN FlattenSeq(cs) ELSE Encoded(cs)
WithSize(to, n) == IF to = "file" THEN <<>> ELSE <<n>> \o CRLF
WithData(to, c) == IF to = "file" THEN c ELSE c \o CRLF
AtEnd(to) == IF to = "file" THEN <<>> ELSE LastFrame

LEMMA SentGrows ==
  ASSUME NEW cs \in Seq(Seq(Bytes)), ChunkSizes(cs), NEW to \in {"file", "client"}
  PROVE  /\ Sent(to, cs, 0) = <<>>
         /\ Sent(to, cs, Len(cs)) \o AtEnd(to) = SentAll(to, cs)
         /\ \A k \in 0 .. Len(cs) : IsPrefix(Sent(to, cs, k), SentAll(to, cs))
         /\ \A k \in 0 .. Len(cs) - 1 :
              /\ Sent(to, cs, k + 1) = (Sent(to, cs, k) \o WithSize(to, Len(cs[k + 1])))
                                        \o WithData(to, cs[k + 1])
              /\ IsPrefix(Sent(to, cs, k) \o WithSize(to, Len(cs[k + 1])), SentAll(to, cs))
<1> DEFINE n == Len(cs)
           fs == IF to = "file" THEN cs ELSE Frames(cs)
           P(k) == FlattenSeq(SubSeq(fs, 1, k))
           all == FlattenSeq(fs)
           end == AtEnd(to)
<1>1. /\ n \in Nat /\ fs \in Seq(Seq(Bytes)) /\ Len(fs) = n
  BY FramesTyped
<1>2. \A i \in 1 .. n : fs[i] = IF to = "file" THEN cs[i] ELSE Framed(cs[i])
  BY FramesTyped
<1>3. \A k : Sent(to, cs, k) = P(k)
  BY DEF Sent
<1>4. SentAll(to, cs) = all \o end
  <2>1. FlattenSeq(cs) \in Seq(Bytes)
    <3>1. PICK G : Parts(cs, G, Bytes) /\ FlattenSeq(cs) = G[Len(cs)]
      BY FlattenParts
    <3> QED
      BY <1>1, <3>1 DEF Parts
  <2>2. FlattenSeq(cs) \o <<>> = FlattenSeq(cs)
    BY <2>1
  <2> QED
    BY <2>2, Zenon DEF SentAll, AtEnd, Encoded, Frames
<1>end. end \in Seq(Bytes)
  <2>1. <<>> \in Seq(Bytes)
    OBVIOUS
  <2> QED
    BY <2>1, LastTyped DEF AtEnd
<1> HIDE DEF fs, end
<1>5. /\ P(0) = <<>> /\ P(n) = all
      /\ \A k \in 0 .. n : P(k) \in Seq(Bytes) /\ Starts(all, P(k))
      /\ \A k \in 0 .. n - 1 : P(k + 1) = P(k) \o fs[k + 1]
  <2>1. /\ P(0) = <<>> /\ P(Len(fs)) = all
        /\ \A k \in 0 .. Len(fs) : P(k) \in Seq(Bytes) /\ Starts(all, P(k))
        /\ \A k \in 0 .. Len(fs) - 1 : P(k + 1) = P(k) \o fs[k + 1]
    BY <1>1, FlattenPieces
  <2> HIDE DEF P, all
  <2> QED
    BY <1>1, <2>1
<1> HIDE DEF P, all
<1>6. all \in Seq(Bytes)
  <2>1. n \in 0 .. n
    BY <1>1
  <2> QED
    BY <1>5, <2>1
<1>all. all \o end \in Seq(Bytes)
  BY <1>6, <1>end
<1>7. ASSUME NEW s \in Seq(Bytes), Starts(all, s) PROVE IsPrefix(s, all \o end)
  <2>1. Starts(all \o end, s)
    BY <1>6, <1>7, <1>end, StartsLonger
  <2> QED
    BY <1>all, <2>1, StartsIsPrefix
<1>8. ASSUME NEW k \in 0 .. n PROVE IsPrefix(P(k), all \o end)
  BY <1>5, <1>7
<1>9. ASSUME NEW k \in 0 .. n - 1
      PROVE  /\ P(k + 1) = (P(k) \o WithSize(to, Len(cs[k + 1]))) \o WithData(to, cs[k + 1])
             /\ IsPrefix(P(k) \o WithSize(to, Len(cs[k + 1])), all \o end)
  <2> DEFINE c == cs[k + 1]
             a == WithSize(to, Len(c))
             b == WithData(to, c)
             q == P(k)
  <2>1. k \in 0 .. n /\ k + 1 \in 0 .. n /\ k + 1 \in 1 .. n
    BY <1>1
  <2>2. c \in Seq(Bytes) /\ Len(c) \in 0 .. 15
    <3>1. Len(c) \in 1 .. 15
      BY <2>1 DEF ChunkSizes
    <3> QED
      BY <2>1, <3>1
  <2>3. P(k + 1) = q \o fs[k + 1] /\ q \in Seq(Bytes)
    BY <1>5, <2>1
  <2>4. fs[k + 1] = IF to = "file" THEN c ELSE Framed(c)
    BY <1>2, <2>1
  <2> HIDE DEF c, q
  <2>5. a \in Seq(Bytes) /\ b \in Seq(Bytes) /\ P(k + 1) = (q \o a) \o b
    <3>1. CASE to = "file"
      <4>1. a = <<>> /\ b = c
        BY <3>1 DEF WithSize, WithData
      <4>2. q \o <<>> = q /\ <<>> \in Seq(Bytes)
        BY <2>3
      <4>3. P(k + 1) = q \o c
        BY <2>3, <2>4, <3>1, Zenon
      <4> QED
        BY <2>2, <4>1, <4>2, <4>3, Zenon
    <3>2. CASE to = "client"
      <4> DEFINE h == <<Len(c)>>
                 l == h \o CRLF
      <4>1. h \in Seq(Bytes) /\ CRLF \in Seq(Bytes)
        <5>1. Len(c) \in Bytes
          BY <2>2 DEF Bytes
        <5> QED
          BY <5>1, CRLFIs
      <4>2. "file" # "client"
        OBVIOUS
      <4>3. a = l /\ b = c \o CRLF
        BY <3>2, <4>2 DEF WithSize, WithData
      <4>4. Framed(c) = l \o c \o CRLF
        BY DEF Framed
      <4> HIDE DEF h
      <4>5. l \in Seq(Bytes) /\ c \o CRLF \in Seq(Bytes)
        BY <2>2, <4>1
      <4> HIDE DEF l
      <4>6. P(k + 1) = q \o (l \o c \o CRLF)
        <5>1. fs[k + 1] = Framed(c)
          BY <2>4, <3>2, <4>2
        <5> QED
          BY <2>3, <4>4, <5>1, Zenon
      <4>7. q \o (l \o c \o CRLF) = (q \o l) \o (c \o CRLF)
        <5>1. q \in Seq(Bytes) /\ l \in Seq(Bytes) /\ c \in Seq(Bytes) /\ CRLF \in Seq(Bytes)
          BY <2>2, <2>3, <4>1, <4>5
        <5>2. Regrouped(q, l, c, CRLF)
          BY <5>1, Regroup, Zenon
        <5> QED
          BY <5>2, Zenon DEF Regrouped
      <4> QED
        BY <4>3, <4>5, <4>6, <4>7, Zenon
    <3> QED
      BY <3>1, <3>2
  <2> HIDE DEF a, b
  <2>6. q \o a \in Seq(Bytes)
    BY <2>3, <2>5
  <2>7. Starts(q \o a, q \o a)
    BY <2>6 DEF Starts
  <2>8. Starts(P(k + 1), q \o a)
    <3>1. Starts((q \o a) \o b, q \o a)
      BY <2>5, <2>6, <2>7, StartsLonger
    <3> QED
      BY <2>5, <3>1, Zenon
  <2>9. Starts(all, P(k + 1)) /\ P(k + 1) \in Seq(Bytes)
    BY <1>5, <2>1
  <2>10. Len(q \o a) \in Nat /\ Len(P(k + 1)) \in Nat /\ Len(all) \in Nat
    BY <1>6, <2>6, <2>9
  <2>11. Starts(all, q \o a)
    BY <2>8, <2>9, <2>10, StartsTrans
  <2>12. IsPrefix(q \o a, all \o end)
    BY <1>7, <2>6, <2>11
  <2> QED
    BY <2>5, <2>12 DEF a, b, c, q
<1>10. Sent(to, cs, 0) = <<>> /\ Sent(to, cs, n) \o end = SentAll(to, cs)
  BY <1>3, <1>4, <1>5
<1>11. ASSUME NEW k \in 0 .. n PROVE IsPrefix(Sent(to, cs, k), SentAll(to, cs))
  BY <1>3, <1>4, <1>8
<1>12. ASSUME NEW k \in 0 .. n - 1
       PROVE /\ Sent(to, cs, k + 1) = (Sent(to, cs, k) \o WithSize(to, Len(cs[k + 1])))
                                        \o WithData(to, cs[k + 1])
             /\ IsPrefix(Sent(to, cs, k) \o WithSize(to, Len(cs[k + 1])), SentAll(to, cs))
  BY <1>3, <1>4, <1>9
<1> QED
  BY <1>10, <1>11, <1>12 DEF end
-----------------------------------------------------------------------------
(* The invariant: the buffer and what is still to come are the stream from  *)
(* the place where the loop is.                                             *)

LEMMA SuffixOfCRLF ==
  ASSUME NEW t \in Seq(Bytes), Len(t) \in 0 .. 2,
         Len(t) = 1 => t[1] = LF,
         Len(t) = 2 => t[1] = CR /\ t[2] = LF
  PROVE  IsSuffix(t, CRLF)
<1> DEFINE r == Reverse(t)
           l == Reverse(CRLF)
<1>2. l \in Seq(Bytes) /\ Len(l) = 2 /\ l[1] = LF /\ l[2] = CR
  <2> DEFINE e == CRLF
  <2>1. e \in Seq(Bytes) /\ Len(e) = 2 /\ e[1] = CR /\ e[2] = LF /\ l = Reverse(e)
    BY CRLFIs
  <2> HIDE DEF e, l
  <2>2. /\ l = [i \in 1 .. 2 |-> e[(2 - i) + 1]]
    BY <2>1 DEF Reverse
  <2>3. ASSUME NEW i \in 1 .. 2 PROVE e[(2 - i) + 1] \in Bytes
    <3>1. (2 - i) + 1 = 1 \/ (2 - i) + 1 = 2
      OBVIOUS
    <3>2. CR \in Bytes /\ LF \in Bytes
      BY DEF CR, LF, Bytes
    <3> QED
      BY <2>1, <3>1, <3>2, Zenon
  <2>4. l \in Seq(Bytes) /\ Len(l) = 2 /\ l[1] = e[(2 - 1) + 1] /\ l[2] = e[(2 - 2) + 1]
    BY <2>2, <2>3
  <2>5. (2 - 1) + 1 = 2 /\ (2 - 2) + 1 = 1
    OBVIOUS
  <2> QED
    BY <2>1, <2>4, <2>5
<1>3. r \in Seq(Bytes) /\ Len(r) = Len(t)
      /\ \A i \in 1 .. Len(t) : r[i] = t[Len(t) - i + 1]
  <2>1. Len(t) \in Nat
    OBVIOUS
  <2>2. \A i \in 1 .. Len(t) : t[(Len(t) - i) + 1] \in Bytes
    BY <2>1
  <2>3. r = [i \in 1 .. Len(t) |-> t[(Len(t) - i) + 1]]
    BY DEF Reverse
  <2> HIDE DEF r
  <2> QED
    BY <2>1, <2>2, <2>3
<1> HIDE DEF r, l
<1>4. Starts(l, r)
  <2>1. CASE Len(t) = 0
    BY <1>2, <1>3, <2>1 DEF Starts
  <2>2. CASE Len(t) = 1
    <3>1. r[1] = LF
      BY <1>3, <2>2
    <3> QED
      BY <1>2, <1>3, <2>2, <3>1 DEF Starts
  <2>3. CASE Len(t) = 2
    <3>1. r[1] = LF /\ r[2] = CR
      BY <1>3, <2>3
    <3> QED
      BY <1>2, <1>3, <2>3, <3>1 DEF Starts
  <2> QED
    BY <2>1, <2>2, <2>3
<1>5. IsPrefix(r, l)
  BY <1>2, <1>3, <1>4, StartsIsPrefix
<1> QED
  BY <1>5 DEF IsSuffix, r, l

AtSize == \E k \in 0 .. Len(chunks), back \in {0, 1} :
            /\ out = Sent(sink, chunks, k)
            /\ back <= Place(chunks, k)
            /\ Follows(data, todo, whole, Encoded(chunks), Place(chunks, k) - back)

AtChunk == \E k \in 0 .. Len(chunks) - 1 :
            /\ want = Len(chunks[k + 1])
            /\ out = Sent(sink, chunks, k) \o WithSize(sink, Len(chunks[k + 1]))
            /\ Follows(chunk, todo, whole, Encoded(chunks), Place(chunks, k) + 3)

Finished == out = SentAll(sink, chunks) /\ (whole => IsSuffix(todo, CRLF))

Unaligned ==
  chunks # <<>> /\ ~aligned =>
     /\ st = "size" => AtSize
     /\ st = "chunk" => AtChunk
     /\ st = "ok" => Finished
     /\ st \in {"failed", "spinning"} => IsPrefix(out, SentAll(sink, chunks))
     /\ st = "spinning" => ~whole
     /\ st # "stray"
SInv == TInv /\ Unaligned

LEMMA InitUnaligned == Init => Unaligned
<1> SUFFICES ASSUME Init, chunks # <<>> PROVE st = "size" /\ AtSize
  BY DEF Unaligned, Init
<1> DEFINE stream == Encoded(chunks)
<1>1. ServerOK
  BY DEF Init, ServerOK
<1>2. chunks \in Seq(Seq(Bytes)) /\ ChunkSizes(chunks)
  BY <1>1, ServerSends
<1>3. PICK start \in 0 .. MaxRecv - 1, end \in 0 .. Len(stream) :
             /\ start <= end
             /\ whole <=> end = Len(stream)
             /\ data = SubSeq(stream, 1, start)
             /\ todo = SubSeq(stream, start + 1, end)
  BY DEF Init
<1>4. stream \in Seq(Bytes)
  BY <1>2, EncodedTyped
<1> HIDE DEF stream
<1>5. start \in 0 .. Len(stream) /\ Len(stream) \in Nat
  BY <1>3, <1>4, ChunkAssumption
<1>6. data \in Seq(Bytes) /\ Len(data) = start /\ \A i \in 1 .. start : data[i] = stream[i]
  BY <1>3, <1>4, <1>5, HeadTyped
<1>7. Len(todo) = end - start /\ \A i \in 1 .. end - start : todo[i] = stream[start + i]
  BY <1>3, <1>4, <1>5
<1>8. Lies(data, stream, 0)
  BY <1>5, <1>6 DEF Lies
<1>9. Lies(todo, stream, 0 + Len(data))
  BY <1>5, <1>6, <1>7 DEF Lies
<1>10. whole <=> 0 + Len(data) + Len(todo) = Len(stream)
  BY <1>3, <1>5, <1>6, <1>7
<1>11. Follows(data, todo, whole, stream, 0)
  BY <1>8, <1>9, <1>10 DEF Follows
<1>12. Place(chunks, 0) = 0 /\ 0 - 0 = 0 /\ 0 <= 0 /\ 0 \in 0 .. Len(chunks) /\ 0 \in {0, 1}
  BY <1>2, FramesLie
<1>13. out = Sent(sink, chunks, 0)
  <2>1. sink \in {"file", "client"} /\ out = <<>>
    BY DEF Init
  <2> QED
    BY <1>2, <2>1, SentGrows
<1>14. AtSize
  BY <1>11, <1>12, <1>13, Zenon DEF AtSize, stream
<1> QED
  BY <1>14 DEF Init
\* What every step below needs to know of the body.
LEMMA BodyIs ==
  ASSUME TInv, chunks # <<>>
  PROVE  /\ chunks \in Seq(Seq(Bytes)) /\ ChunkSizes(chunks) /\ Encoded(chunks) \in Seq(Bytes)
         /\ sink \in {"file", "client"}
         /\ data \in Seq(Bytes) /\ todo \in Seq(Bytes) /\ chunk \in Seq(Bytes)
         /\ Len(chunks) \in Nat
<1>1. ServerOK /\ TypeOK
  BY DEF TInv
<1>2. chunks \in Seq(Seq(Bytes)) /\ ChunkSizes(chunks)
  BY <1>1, ServerSends
<1>3. Encoded(chunks) \in Seq(Bytes)
  BY <1>2, EncodedTyped
<1>4. sink \in {"file", "client"} /\ data \in Seq(Bytes) /\ todo \in Seq(Bytes)
      /\ chunk \in Seq(Bytes)
  BY <1>1 DEF TypeOK
<1>5. Len(chunks) \in Nat
  BY <1>2
<1> QED
  BY <1>2, <1>3, <1>4, <1>5

\* While a loop waits, what has been emitted is a beginning of the body.
LEMMA OutIsPrefix ==
  ASSUME TInv, chunks # <<>>, AtSize \/ AtChunk
  PROVE  IsPrefix(out, SentAll(sink, chunks))
<1>1. CASE AtSize
  <2>1. PICK k \in 0 .. Len(chunks) : out = Sent(sink, chunks, k)
    BY <1>1 DEF AtSize
  <2> QED
    BY <2>1, BodyIs, SentGrows
<1>2. CASE AtChunk
  <2>1. PICK k \in 0 .. Len(chunks) - 1 :
           out = Sent(sink, chunks, k) \o WithSize(sink, Len(chunks[k + 1]))
    BY <1>2 DEF AtChunk
  <2> QED
    BY <2>1, BodyIs, SentGrows
<1> QED
  BY <1>1, <1>2

LEMMA RecvSizeUnaligned ==
  ASSUME SInv, NEW n \in 1 .. MaxRecv, RecvSize(n), chunks # <<>>, ~aligned
  PROVE  Unaligned'
<1>1. /\ st = "size" /\ st' \in {"size", "failed"}
      /\ UNCHANGED <<sink, chunks, whole, out>>
      /\ data' = data \o SubSeq(todo, 1, n) /\ todo' = SubSeq(todo, n + 1, Len(todo))
      /\ n <= Len(todo)
  BY DEF RecvSize, server
<1>2. TInv /\ AtSize
  BY <1>1 DEF SInv, Unaligned
<1>3. PICK k \in 0 .. Len(chunks), back \in {0, 1} :
            /\ out = Sent(sink, chunks, k)
            /\ back <= Place(chunks, k)
            /\ Follows(data, todo, whole, Encoded(chunks), Place(chunks, k) - back)
  BY <1>2 DEF AtSize
<1>4. /\ Encoded(chunks) \in Seq(Bytes) /\ data \in Seq(Bytes) /\ todo \in Seq(Bytes)
  BY <1>2, BodyIs
<1>5. n \in 0 .. Len(todo)
  BY <1>1, <1>4, ChunkAssumption
<1>6. Place(chunks, k) - back \in Nat
  <2>1. Place(chunks, k) \in Nat
    BY <1>2, BodyIs, FramesLie
  <2> QED
    BY <1>3, <2>1
<1>7. Follows(data', todo', whole, Encoded(chunks), Place(chunks, k) - back)
  BY <1>1, <1>3, <1>4, <1>5, <1>6, FollowsRecv
<1>8. AtSize'
  BY <1>1, <1>3, <1>7, Zenon DEF AtSize
<1>9. IsPrefix(out, SentAll(sink, chunks))
  BY <1>2, OutIsPrefix
<1> QED
  BY <1>1, <1>8, <1>9 DEF Unaligned

LEMMA RecvChunkUnaligned ==
  ASSUME SInv, NEW n \in 1 .. MaxRecv, RecvChunk(n), chunks # <<>>, ~aligned
  PROVE  Unaligned'
<1>1. /\ st = "chunk" /\ st' = "chunk"
      /\ UNCHANGED <<sink, chunks, whole, out, want>>
      /\ chunk' = chunk \o SubSeq(todo, 1, n) /\ todo' = SubSeq(todo, n + 1, Len(todo))
      /\ n <= Len(todo)
  BY DEF RecvChunk, server
<1>2. TInv /\ AtChunk
  BY <1>1 DEF SInv, Unaligned
<1>3. PICK k \in 0 .. Len(chunks) - 1 :
            /\ want = Len(chunks[k + 1])
            /\ out = Sent(sink, chunks, k) \o WithSize(sink, Len(chunks[k + 1]))
            /\ Follows(chunk, todo, whole, Encoded(chunks), Place(chunks, k) + 3)
  BY <1>2 DEF AtChunk
<1>4. /\ Encoded(chunks) \in Seq(Bytes) /\ chunk \in Seq(Bytes) /\ todo \in Seq(Bytes)
  BY <1>2, BodyIs
<1>5. n \in 0 .. Len(todo)
  BY <1>1, <1>4, ChunkAssumption
<1>6. Place(chunks, k) + 3 \in Nat
  <2>1. k \in 0 .. Len(chunks)
    BY <1>2, BodyIs
  <2>2. Place(chunks, k) \in Nat
    BY <1>2, <2>1, BodyIs, FramesLie
  <2> QED
    BY <2>2
<1>7. Follows(chunk', todo', whole, Encoded(chunks), Place(chunks, k) + 3)
  BY <1>1, <1>3, <1>4, <1>5, <1>6, FollowsRecv
<1>8. AtChunk'
  BY <1>1, <1>3, <1>7, Zenon DEF AtChunk
<1> QED
  BY <1>1, <1>8 DEF Unaligned

\* When the size line is there, its number is the size of the next chunk, and
\* the data begins three bytes after the frame does.
LEMMA SizeKnown ==
  ASSUME SInv, chunks # <<>>, ~aligned, st = "size", ~Waiting
  PROVE  \E k \in 0 .. Len(chunks), back \in {0, 1} :
            /\ out = Sent(sink, chunks, k)
            /\ back <= Place(chunks, k)
            /\ Follows(data, todo, whole, Encoded(chunks), Place(chunks, k) - back)
            /\ Strtol(data) = Len(ChunkAt(chunks, k))
            /\ FoundEnd(data) = back + 2
            /\ Len(data) >= back + 3
<1>1. TInv /\ AtSize
  BY DEF SInv, Unaligned
<1>2. PICK k \in 0 .. Len(chunks), back \in {0, 1} :
            /\ out = Sent(sink, chunks, k)
            /\ back <= Place(chunks, k)
            /\ Follows(data, todo, whole, Encoded(chunks), Place(chunks, k) - back)
  BY <1>1 DEF AtSize
<1>3. /\ Encoded(chunks) \in Seq(Bytes) /\ data \in Seq(Bytes)
      /\ chunks \in Seq(Seq(Bytes)) /\ ChunkSizes(chunks)
  BY <1>1, BodyIs
<1>4. ChunkAt(chunks, k) \in Seq(Bytes) /\ Len(ChunkAt(chunks, k)) \in 0 .. 15
  BY <1>3, FrameOfChunk
<1>5. /\ Place(chunks, k) \in Nat
      /\ FrameAt(Encoded(chunks), Place(chunks, k), ChunkAt(chunks, k))
      /\ Place(chunks, k) > 0 => Encoded(chunks)[Place(chunks, k)] = LF
  BY <1>3, FramesLie
<1>6. back = 1 => Encoded(chunks)[Place(chunks, k)] = LF
  <2>1. back = 1 => Place(chunks, k) > 0
    BY <1>2, <1>5
  <2> QED
    BY <1>5, <2>1, Zenon
<1>7. FoundEnd(data) # 0
  BY DEF Waiting
<1>8. Lies(data, Encoded(chunks), Place(chunks, k) - back)
  BY <1>2 DEF Follows
<1>9. Strtol(data) = Len(ChunkAt(chunks, k)) /\ FoundEnd(data) = back + 2
      /\ Len(data) >= back + 3
  BY <1>2, <1>3, <1>4, <1>5, <1>6, <1>7, <1>8, SizeLineThere
<1> QED
  BY <1>2, <1>9
LEMMA LastChunkUnaligned ==
  ASSUME SInv, LastChunk, chunks # <<>>, ~aligned
  PROVE  Unaligned'
<1>1. /\ st = "size" /\ ~Waiting /\ Strtol(data) = 0 /\ st' = "ok"
      /\ out' = out \o EmittedLast /\ UNCHANGED <<sink, chunks, whole, todo>>
  BY DEF LastChunk, server
<1>t. TInv
  BY DEF SInv
<1> DEFINE stream == Encoded(chunks)
           m == Len(chunks)
<1>2. PICK k \in 0 .. m, back \in {0, 1} :
            /\ out = Sent(sink, chunks, k)
            /\ back <= Place(chunks, k)
            /\ Follows(data, todo, whole, stream, Place(chunks, k) - back)
            /\ Strtol(data) = Len(ChunkAt(chunks, k))
            /\ FoundEnd(data) = back + 2
            /\ Len(data) >= back + 3
  BY <1>1, SizeKnown
<1>3. /\ stream \in Seq(Bytes) /\ data \in Seq(Bytes) /\ todo \in Seq(Bytes)
      /\ chunks \in Seq(Seq(Bytes)) /\ ChunkSizes(chunks)
      /\ sink \in {"file", "client"} /\ m \in Nat
  BY <1>t, BodyIs
<1>4. k = m
  <2>1. ~(k < m)
    BY <1>1, <1>2, <1>3, FrameOfChunk
  <2> QED
    BY <1>3, <2>1
<1>5. out' = SentAll(sink, chunks)
  <2>1. Sent(sink, chunks, m) \o AtEnd(sink) = SentAll(sink, chunks)
    BY <1>3, SentGrows
  <2>2. EmittedLast = AtEnd(sink)
    BY DEF EmittedLast, AtEnd
  <2> QED
    BY <1>1, <1>2, <1>4, <2>1, <2>2, Zenon
<1> DEFINE p == Place(chunks, m)
<1>6. p \in Nat /\ Len(stream) = p + 5 /\ FrameAt(stream, p, <<>>)
  <2>1. m \in 0 .. m
    BY <1>3
  <2>2. FrameAt(stream, p, ChunkAt(chunks, m)) /\ p \in Nat /\ Len(stream) = p + 5
    BY <1>3, <2>1, FramesLie
  <2>3. ChunkAt(chunks, m) = <<>>
    BY <1>3 DEF ChunkAt
  <2> QED
    BY <2>2, <2>3
<1> HIDE DEF stream, m, p
<1>7. stream[p + 4] = CR /\ stream[p + 5] = LF
  <2>1. Len(<<>>) = 0 /\ p + 3 + 0 + 1 = p + 4 /\ p + 3 + 0 + 2 = p + 5
    BY <1>6
  <2>2. stream[p + 3 + Len(<<>>) + 1] = CR /\ stream[p + 3 + Len(<<>>) + 2] = LF
    BY <1>6 DEF FrameAt
  <2> QED
    BY <2>1, <2>2, Zenon
<1>8. whole => IsSuffix(todo, CRLF)
  <2> SUFFICES ASSUME whole PROVE IsSuffix(todo, CRLF)
    OBVIOUS
  <2> DEFINE q == p - back
             d == Len(data)
             t == Len(todo)
  <2>1. Lies(todo, stream, q + d) /\ q + d + t = Len(stream)
    BY <1>2, <1>4 DEF Follows, p
  <2>2. /\ d \in Nat /\ t \in Nat /\ p \in Nat /\ back \in {0, 1} /\ d >= back + 3
        /\ Len(stream) = p + 5
    BY <1>2, <1>3, <1>6
  <2> HIDE DEF d, t
  <2>3. q + d + t = p + 5
    BY <2>1, <2>2
  <2>4. t \in 0 .. 2
    BY <2>2, <2>3
  <2>5. \A i \in 1 .. t : todo[i] = stream[q + d + i]
    BY <2>1 DEF Lies, t
  <2>6. t = 1 => todo[1] = LF
    <3>1. t = 1 => q + d + 1 = p + 5 /\ 1 \in 1 .. t
      BY <2>2, <2>3
    <3> QED
      BY <1>7, <2>5, <3>1
  <2>7. t = 2 => todo[1] = CR /\ todo[2] = LF
    <3>1. t = 2 => q + d + 1 = p + 4 /\ q + d + 2 = p + 5 /\ 1 \in 1 .. t /\ 2 \in 1 .. t
      BY <2>2, <2>3
    <3> QED
      BY <1>7, <2>5, <3>1
  <2> QED
    BY <1>3, <2>4, <2>6, <2>7, SuffixOfCRLF DEF t
<1>9. Finished'
  BY <1>1, <1>5, <1>8, Zenon DEF Finished
<1> QED
  BY <1>1, <1>9 DEF Unaligned

LEMMA SizeLineIs ==
  ASSUME NEW n \in 0 .. 15
  PROVE  SizeLine(n) = WithSize(sink, n)
<1>1. n < 16 /\ ~(n < 0)
  OBVIOUS
<1> QED
  BY <1>1 DEF SizeLine, WithSize

LEMMA BeginChunkUnaligned ==
  ASSUME SInv, BeginChunk, chunks # <<>>, ~aligned
  PROVE  Unaligned'
<1>1. /\ st = "size" /\ ~Waiting /\ Strtol(data) # 0 /\ st' = "chunk"
      /\ want' = Strtol(data) /\ out' = out \o SizeLine(want') /\ chunk' = Begun
      /\ UNCHANGED <<sink, chunks, whole, todo>>
  BY DEF BeginChunk, server
<1>t. TInv
  BY DEF SInv
<1> DEFINE stream == Encoded(chunks)
           m == Len(chunks)
<1>2. PICK k \in 0 .. m, back \in {0, 1} :
            /\ out = Sent(sink, chunks, k)
            /\ back <= Place(chunks, k)
            /\ Follows(data, todo, whole, stream, Place(chunks, k) - back)
            /\ Strtol(data) = Len(ChunkAt(chunks, k))
            /\ FoundEnd(data) = back + 2
            /\ Len(data) >= back + 3
  BY <1>1, SizeKnown
<1>3. /\ stream \in Seq(Bytes) /\ data \in Seq(Bytes) /\ todo \in Seq(Bytes)
      /\ chunks \in Seq(Seq(Bytes)) /\ ChunkSizes(chunks)
      /\ sink \in {"file", "client"} /\ m \in Nat
  BY <1>t, BodyIs
<1>4. k < m /\ k \in 0 .. m - 1 /\ Len(ChunkAt(chunks, k)) \in 0 .. 15
  <2>1. k < m /\ Len(ChunkAt(chunks, k)) \in 0 .. 15
    BY <1>1, <1>2, <1>3, FrameOfChunk
  <2> QED
    BY <1>3, <2>1
<1>5. want' = Len(chunks[k + 1]) /\ want' \in 0 .. 15
  BY <1>1, <1>2, <1>4 DEF ChunkAt
<1>6. SizeLine(want') = WithSize(sink, want')
  BY <1>5, SizeLineIs, Zenon
<1>7. out' = Sent(sink, chunks, k) \o WithSize(sink, Len(chunks[k + 1]))
  BY <1>1, <1>2, <1>5, <1>6, Zenon
<1> DEFINE p == Place(chunks, k)
<1> HIDE DEF stream, m
<1>8. p \in Nat
  <2>1. \A j \in 0 .. m : Place(chunks, j) \in Nat
    BY <1>3, FramesLie DEF m
  <2> QED
    BY <2>1
<1> HIDE DEF p
<1>9. Follows(chunk', todo, whole, stream, p + 3)
  <2>1. /\ back + 3 \in 0 .. Len(data) /\ p - back \in Nat
        /\ (back + 3) + 1 = (back + 2) + 2 /\ (p - back) + (back + 3) = p + 3
    <3>1. back <= p /\ Len(data) >= back + 3
      BY <1>2 DEF p
    <3>2. Len(data) \in Nat
      BY <1>3
    <3> QED
      BY <1>8, <3>1, <3>2
  <2>2. chunk' = SubSeq(data, (back + 3) + 1, Len(data))
    <3>1. chunk' = SubSeq(data, (back + 2) + 2, Len(data))
      BY <1>1, <1>2, Zenon DEF Begun
    <3> QED
      BY <2>1, <3>1, Zenon
  <2>3. Follows(data, todo, whole, stream, p - back)
    BY <1>2 DEF p
  <2>4. Follows(chunk', todo, whole, stream, (p - back) + (back + 3))
    BY <1>3, <2>1, <2>2, <2>3, FollowsDrop
  <2> QED
    BY <2>1, <2>4, Zenon
<1>10. AtChunk'
  BY <1>1, <1>4, <1>5, <1>7, <1>9, Zenon DEF AtChunk, p, m, stream
<1> QED
  BY <1>1, <1>10 DEF Unaligned
LEMMA EndChunkUnaligned ==
  ASSUME SInv, EndChunk, chunks # <<>>, ~aligned'
  PROVE  Unaligned'
<1>1. /\ st = "chunk" /\ ~(Len(chunk) < want) /\ st' = "size"
      /\ out' = out \o Emitted(SubSeq(chunk, 1, want)) /\ data' = Rest
      /\ UNCHANGED <<sink, chunks, whole, todo>>
      /\ ~aligned /\ Len(chunk) # want
  BY DEF EndChunk, server, Waiting
<1>2. TInv /\ AtChunk
  BY <1>1 DEF SInv, Unaligned
<1> DEFINE stream == Encoded(chunks)
           m == Len(chunks)
<1>3. /\ stream \in Seq(Bytes) /\ chunk \in Seq(Bytes) /\ todo \in Seq(Bytes)
      /\ chunks \in Seq(Seq(Bytes)) /\ ChunkSizes(chunks)
      /\ sink \in {"file", "client"} /\ m \in Nat
  BY <1>2, BodyIs
<1>4. PICK k \in 0 .. m - 1 :
            /\ want = Len(chunks[k + 1])
            /\ out = Sent(sink, chunks, k) \o WithSize(sink, Len(chunks[k + 1]))
            /\ Follows(chunk, todo, whole, stream, Place(chunks, k) + 3)
  BY <1>2 DEF AtChunk
<1> DEFINE p == Place(chunks, k)
           c == chunks[k + 1]
<1>5. k \in 0 .. m /\ k + 1 \in 0 .. m /\ k + 1 \in 1 .. m
  BY <1>3
<1>6. p \in Nat /\ FrameAt(stream, p, c) /\ Place(chunks, k + 1) = p + Len(c) + 5
  <2>1. p \in Nat /\ FrameAt(stream, p, ChunkAt(chunks, k))
    BY <1>3, <1>5, FramesLie
  <2>2. Place(chunks, k + 1) = p + Len(c) + 5
    BY <1>3, FramesLie
  <2>3. ChunkAt(chunks, k) = c
    BY <1>3, <1>5 DEF ChunkAt
  <2> QED
    BY <2>1, <2>2, <2>3, Zenon
<1>7. c \in Seq(Bytes)
  BY <1>3, <1>5
<1>sent. Sent(sink, chunks, k + 1) = (Sent(sink, chunks, k) \o WithSize(sink, Len(c)))
                                    \o WithData(sink, c)
  BY <1>3, SentGrows
<1> HIDE DEF stream, m, c, p
<1>8. want = Len(c) /\ want \in Nat /\ Len(chunk) \in Nat /\ Len(chunk) > want
      /\ Follows(chunk, todo, whole, stream, p + 3)
  <2>1. want = Len(c) /\ Follows(chunk, todo, whole, stream, p + 3)
    BY <1>4 DEF c, p
  <2>2. want \in Nat /\ Len(chunk) \in Nat
    BY <1>3, <1>7, <2>1
  <2> QED
    BY <1>1, <2>1, <2>2
<1>9. SubSeq(chunk, 1, want) = c
  <2> DEFINE h == SubSeq(chunk, 1, want)
  <2>1. want \in 0 .. Len(chunk)
    BY <1>8
  <2>2. h \in Seq(Bytes) /\ Len(h) = want /\ \A i \in 1 .. want : h[i] = chunk[i]
    BY <1>3, <2>1, HeadTyped
  <2>3. ASSUME NEW i \in 1 .. want PROVE h[i] = c[i]
    <3>1. i \in 1 .. Len(chunk)
      BY <1>8
    <3>2. chunk[i] = stream[p + 3 + i]
      BY <1>8, <3>1 DEF Follows, Lies
    <3>3. c[i] = stream[p + 3 + i]
      BY <1>6, <1>8 DEF FrameAt
    <3> QED
      BY <2>2, <3>2, <3>3
  <2> HIDE DEF h
  <2>4. h = c
    BY <1>7, <1>8, <2>2, <2>3, SameSeq
  <2> QED
    BY <2>4 DEF h
<1>10. out' = Sent(sink, chunks, k + 1)
  <2>1. Emitted(c) = WithData(sink, c)
    BY DEF Emitted, WithData
  <2>2. out = Sent(sink, chunks, k) \o WithSize(sink, Len(c))
    BY <1>4 DEF c
  <2> QED
    BY <1>1, <1>9, <1>sent, <2>1, <2>2, Zenon
<1> DEFINE q == Place(chunks, k + 1)
<1>11. q = p + want + 5 /\ q \in Nat
  BY <1>6, <1>8
<1> HIDE DEF q
<1>12. CASE Len(chunk) = want + 1
  <2>1. data' = <<>>
    <3>1. Rest = <<>>
      BY <1>3, <1>8, <1>12 DEF Rest
    <3> QED
      BY <1>1, <3>1
  <2>2. 1 <= q /\ q - 1 = (p + 3) + Len(chunk) /\ Len(chunk) + 1 = want + 2
        /\ Len(chunk) \in 0 .. Len(chunk) /\ p + 3 \in Nat
    BY <1>6, <1>8, <1>11, <1>12
  <2>3. data' = SubSeq(chunk, Len(chunk) + 1, Len(chunk))
    BY <1>3, <2>1
  <2>4. Follows(data', todo, whole, stream, (p + 3) + Len(chunk))
    BY <1>3, <1>8, <2>2, <2>3, FollowsDrop
  <2>5. Follows(data', todo, whole, stream, q - 1)
    BY <2>2, <2>4, Zenon
  <2>6. 1 \in {0, 1}
    OBVIOUS
  <2>7. AtSize'
    BY <1>1, <1>5, <1>10, <2>2, <2>5, <2>6, Zenon DEF AtSize, q, stream, m
  <2> QED
    BY <1>1, <2>7 DEF Unaligned
<1>13. CASE Len(chunk) # want + 1
  <2>1. /\ want + 2 \in 0 .. Len(chunk) /\ (want + 2) + 1 = want + 3
        /\ (p + 3) + (want + 2) = q - 0 /\ 0 <= q /\ p + 3 \in Nat
    BY <1>6, <1>8, <1>11, <1>13
  <2>2. data' = SubSeq(chunk, (want + 2) + 1, Len(chunk))
    BY <1>1, <2>1, Zenon DEF Rest
  <2>3. Follows(data', todo, whole, stream, (p + 3) + (want + 2))
    BY <1>3, <1>8, <2>1, <2>2, FollowsDrop
  <2>4. Follows(data', todo, whole, stream, q - 0)
    BY <2>1, <2>3, Zenon
  <2>5. 0 \in {0, 1}
    OBVIOUS
  <2>6. AtSize'
    BY <1>1, <1>5, <1>10, <2>1, <2>4, <2>5, Zenon DEF AtSize, q, stream, m
  <2> QED
    BY <1>1, <2>6 DEF Unaligned
<1> QED
  BY <1>12, <1>13

LEMMA TimeoutUnaligned ==
  ASSUME SInv, Timeout, chunks # <<>>, ~aligned
  PROVE  Unaligned'
<1>1. /\ st' = "failed" /\ st \in {"size", "chunk"}
      /\ UNCHANGED <<sink, chunks, out>>
  BY DEF Timeout, server, Waiting
<1>2. TInv /\ (AtSize \/ AtChunk)
  BY <1>1 DEF SInv, Unaligned
<1>3. IsPrefix(out, SentAll(sink, chunks))
  BY <1>2, OutIsPrefix
<1> QED
  BY <1>1, <1>3 DEF Unaligned

\* The size of a chunk in a body is never negative.
LEMMA NoNegativeChunk ==
  ASSUME SInv, NegativeChunk, chunks # <<>>, ~aligned
  PROVE  FALSE
<1>1. st = "chunk" /\ want < 0
  BY DEF NegativeChunk
<1>2. TInv /\ AtChunk
  BY <1>1 DEF SInv, Unaligned
<1>3. chunks \in Seq(Seq(Bytes))
  BY <1>2, BodyIs
<1>4. PICK k \in 0 .. Len(chunks) - 1 : want = Len(chunks[k + 1])
  BY <1>2 DEF AtChunk
<1>5. chunks[k + 1] \in Seq(Bytes)
  BY <1>3, <1>4
<1>6. Len(chunks[k + 1]) \in Nat
  BY <1>5
<1> QED
  BY <1>1, <1>4, <1>6

\* At the end of a whole body no loop is left waiting.
LEMMA SpinUnaligned ==
  ASSUME SInv, Spin, chunks # <<>>, ~aligned
  PROVE  Unaligned'
<1>1. /\ st' = "spinning" /\ st \in {"size", "chunk"} /\ Waiting /\ todo = <<>>
      /\ UNCHANGED <<sink, chunks, whole, out>>
  BY DEF Spin, server, Waiting
<1>2. TInv /\ (AtSize \/ AtChunk) /\ (st = "size" => AtSize) /\ (st = "chunk" => AtChunk)
  BY <1>1 DEF SInv, Unaligned
<1>3. IsPrefix(out, SentAll(sink, chunks))
  BY <1>2, OutIsPrefix
<1> DEFINE stream == Encoded(chunks)
           m == Len(chunks)
<1>4. /\ stream \in Seq(Bytes) /\ chunk \in Seq(Bytes) /\ data \in Seq(Bytes)
      /\ chunks \in Seq(Seq(Bytes)) /\ ChunkSizes(chunks) /\ m \in Nat
  BY <1>2, BodyIs
<1>5. Len(stream) \in Nat /\ Len(data) \in Nat /\ Len(chunk) \in Nat /\ Len(todo) = 0
  BY <1>1, <1>4
<1>6. ASSUME NEW k \in 0 .. m
      PROVE  /\ FrameAt(stream, Place(chunks, k), ChunkAt(chunks, k))
             /\ Place(chunks, k) \in Nat /\ Len(ChunkAt(chunks, k)) \in Nat
  <2>1. FrameAt(stream, Place(chunks, k), ChunkAt(chunks, k)) /\ Place(chunks, k) \in Nat
    BY <1>4, FramesLie
  <2>2. ChunkAt(chunks, k) \in Seq(Bytes)
    BY <1>4, FrameOfChunk
  <2> QED
    BY <2>1, <2>2
<1>7. ASSUME st = "size", whole PROVE FALSE
  <2>1. PICK k \in 0 .. m, back \in {0, 1} :
            /\ back <= Place(chunks, k)
            /\ Follows(data, todo, whole, stream, Place(chunks, k) - back)
    BY <1>2, <1>7 DEF AtSize
  <2> DEFINE p == Place(chunks, k)
             c == ChunkAt(chunks, k)
  <2>2. FrameAt(stream, p, c) /\ p \in Nat /\ Len(c) \in Nat
    BY <1>6
  <2> HIDE DEF stream, m, p, c
  <2>3. /\ back <= p /\ Lies(data, stream, p - back)
        /\ p - back + Len(data) + Len(todo) = Len(stream)
    BY <1>7, <2>1 DEF Follows, p
  <2>4. p + Len(c) + 5 <= Len(stream) /\ stream[p + 2] = CR /\ stream[p + 3] = LF
    BY <2>2 DEF FrameAt
  <2>5. Len(data) >= back + 5
    BY <1>5, <2>2, <2>3, <2>4
  <2>6. /\ back + 2 \in 1 .. Len(data) /\ back + 2 + 1 \in 1 .. Len(data)
        /\ p - back + (back + 2) = p + 2 /\ p - back + (back + 2 + 1) = p + 3
        /\ back + 2 + 1 <= Len(data)
    BY <1>5, <2>2, <2>5
  <2>7. data[back + 2] = CR /\ data[back + 2 + 1] = LF
    BY <2>3, <2>4, <2>6 DEF Lies
  <2>8. LineEnd(data, back + 2)
    BY <2>6, <2>7 DEF LineEnd
  <2>9. FoundEnd(data) # 0
    BY <1>4, <2>6, <2>8, FoundEndIs
  <2> QED
    BY <1>1, <1>7, <2>9 DEF Waiting
<1>8. ASSUME st = "chunk", whole PROVE FALSE
  <2>1. PICK k \in 0 .. m - 1 :
            /\ want = Len(chunks[k + 1])
            /\ Follows(chunk, todo, whole, stream, Place(chunks, k) + 3)
    BY <1>2, <1>8 DEF AtChunk
  <2> DEFINE p == Place(chunks, k)
  <2>2. k \in 0 .. m /\ ChunkAt(chunks, k) = chunks[k + 1]
    BY <1>4 DEF ChunkAt
  <2>3. p \in Nat /\ want \in Nat /\ p + want + 5 <= Len(stream)
    <3>1. FrameAt(stream, p, ChunkAt(chunks, k)) /\ p \in Nat /\ Len(ChunkAt(chunks, k)) \in Nat
      BY <1>6, <2>2
    <3>2. p + Len(ChunkAt(chunks, k)) + 5 <= Len(stream)
      BY <3>1, Zenon DEF FrameAt
    <3> QED
      BY <2>1, <2>2, <3>1, <3>2, Zenon
  <2> HIDE DEF stream, m, p
  <2>4. p + 3 + Len(chunk) + Len(todo) = Len(stream)
    BY <1>8, <2>1 DEF Follows, p
  <2>5. ~(Len(chunk) < want)
    BY <1>5, <2>3, <2>4
  <2> QED
    BY <1>1, <1>8, <2>5 DEF Waiting
<1>9. ~whole
  BY <1>1, <1>7, <1>8
<1> QED
  BY <1>1, <1>3, <1>9 DEF Unaligned

LEMMA SInvStep == RInv /\ SInv /\ [Next]_vars => SInv'
<1> SUFFICES ASSUME RInv, SInv, [Next]_vars PROVE Unaligned'
  BY RInvStep DEF SInv, RInv
<1> SUFFICES ASSUME chunks' # <<>>, ~aligned' PROVE Unaligned'
  BY DEF Unaligned
<1>1. chunks' = chunks /\ (aligned => aligned')
  <2>1. ASSUME NEW n \in 1 .. MaxRecv, RecvSize(n) \/ RecvChunk(n)
        PROVE  chunks' = chunks /\ (aligned => aligned')
    BY <2>1 DEF RecvSize, RecvChunk, server
  <2>2. CASE LastChunk
    BY <2>2 DEF LastChunk, server
  <2>5. CASE BeginChunk
    BY <2>5 DEF BeginChunk, server
  <2>6. CASE EndChunk
    <3>1. chunks' = chunks /\ aligned' = (aligned \/ Len(chunk) = want)
      BY <2>6 DEF EndChunk, server
    <3> QED
      BY <3>1
  <2>3. CASE Timeout \/ Spin \/ NegativeChunk
    BY <2>3 DEF Timeout, Spin, NegativeChunk, server
  <2>4. CASE UNCHANGED vars
    BY <2>4 DEF vars, server
  <2> QED
    BY <2>1, <2>2, <2>3, <2>4, <2>5, <2>6 DEF Next
<1>2. chunks # <<>> /\ ~aligned
  BY <1>1
<1>3. ASSUME NEW n \in 1 .. MaxRecv, RecvSize(n) PROVE Unaligned'
  BY <1>2, <1>3, RecvSizeUnaligned
<1>4. ASSUME NEW n \in 1 .. MaxRecv, RecvChunk(n) PROVE Unaligned'
  BY <1>2, <1>4, RecvChunkUnaligned
<1>5. CASE LastChunk
  BY <1>2, <1>5, LastChunkUnaligned
<1>6. CASE BeginChunk
  BY <1>2, <1>6, BeginChunkUnaligned
<1>7. CASE EndChunk
  BY <1>2, <1>7, EndChunkUnaligned
<1>8. CASE Timeout
  BY <1>2, <1>8, TimeoutUnaligned
<1>9. CASE Spin
  BY <1>2, <1>9, SpinUnaligned
<1>10. CASE NegativeChunk
  BY <1>2, <1>10, NoNegativeChunk
<1>11. CASE UNCHANGED vars
  BY <1>11 DEF SInv, Unaligned, AtSize, AtChunk, Finished, vars, server
<1> QED
  BY <1>3, <1>4, <1>5, <1>6, <1>7, <1>8, <1>9, <1>10, <1>11 DEF Next

LEMMA AlwaysUnaligned == Spec => []SInv
<1>1. Init => RInv /\ SInv
  BY InitRInv, InitUnaligned DEF SInv, RInv
<1>2. (RInv /\ SInv) /\ [Next]_vars => (RInv /\ SInv)'
  BY RInvStep, SInvStep
<1> QED
  BY <1>1, <1>2, PTL DEF Spec

\* What the client is sent, or the scanned file gets, is the body so far however
\* the server's bytes arrive, and all of it when the function reports success,
\* unless a recv stopped exactly at the end of a chunk's data: for every body,
\* both sizes of the buffers and every segmentation.
THEOREM BodyReassembled == Spec => []ReassembledUnlessAligned
<1>1. ASSUME SInv PROVE ReassembledUnlessAligned
  <2> SUFFICES ASSUME chunks # <<>>, ~aligned
               PROVE  IsPrefix(out, Expected) /\ (st = "ok" => out = Expected)
    BY DEF ReassembledUnlessAligned
  <2>1. TInv /\ Expected = SentAll(sink, chunks)
    BY <1>1 DEF SInv, Expected, SentAll
  <2>2. st \in {"size", "chunk", "ok", "failed", "spinning"}
    BY <1>1, <2>1 DEF TInv, TypeOK, SInv, Unaligned
  <2>3. CASE st \in {"size", "chunk"}
    <3>1. AtSize \/ AtChunk
      BY <1>1, <2>3 DEF SInv, Unaligned
    <3> QED
      BY <2>1, <2>3, <3>1, OutIsPrefix
  <2>4. CASE st \in {"failed", "spinning"}
    BY <1>1, <2>1, <2>4 DEF SInv, Unaligned
  <2>5. CASE st = "ok"
    <3>1. out = SentAll(sink, chunks)
      BY <1>1, <2>5 DEF SInv, Unaligned, Finished
    <3>2. SentAll(sink, chunks) \in Seq(Nat)
      BY <2>1, <3>1 DEF TInv, TypeOK
    <3>3. IsPrefix(out, out)
      BY <3>1, <3>2 DEF IsPrefix
    <3> QED
      BY <2>1, <3>1, <3>3, Zenon
  <2> QED
    BY <2>2, <2>3, <2>4, <2>5
<1> QED
  BY <1>1, AlwaysUnaligned, PTL

\* After a success nothing of the body is left in the connection but, at most,
\* the CRLF that ends it: the next response begins where readHeader looks.
THEOREM NextResponseUntouched == Spec => []NextResponseIntact
<1>1. SInv => NextResponseIntact
  BY DEF SInv, Unaligned, Finished, NextResponseIntact
<1> QED
  BY <1>1, AlwaysUnaligned, PTL

\* A thread that reads beyond the end of the stream for ever was cut short, or
\* a recv had stopped exactly at the end of a chunk's data.
THEOREM SpinsOnlyIfCut == Spec => []SpinsOnlyWhenCut
<1>1. SInv => SpinsOnlyWhenCut
  BY DEF SInv, Unaligned, SpinsOnlyWhenCut
<1> QED
  BY <1>1, AlwaysUnaligned, PTL

\* No segmentation of any body, but an aligned one, makes the size of a chunk
\* negative, whatever the data of its chunks look like.
THEOREM StraysIfMisread == Spec => []StraysOnlyIfMisread
<1>1. SInv => StraysOnlyIfMisread
  BY DEF SInv, Unaligned, StraysOnlyIfMisread
<1> QED
  BY <1>1, AlwaysUnaligned, PTL
=============================================================================
