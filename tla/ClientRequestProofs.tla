------------------------ MODULE ClientRequestProofs ------------------------
(***************************************************************************)
(* Proofs about ClientRequest, for all sizes of buffers, headers, bodies   *)
(* and recvs: no recv writes outside its buffer but in the one case that   *)
(* RecvHasRoom names, a body announced right is taken as it is; and for    *)
(* all URLs the server that parseURL finds is the one the URL means.       *)
(***************************************************************************)
EXTENDS ClientRequest, SequenceLemmas

\* A buffer is less than half full when readHeader calls recv, and less than
\* half full plus one recv when extractPostData looks at it.
Room == /\ st = "header" => size < cap \div 2 /\ size < header /\ fails = 0
        /\ st = "post" => size < (cap \div 2) + MaxRecv

IInv == TypeOK /\ Room /\ BodyRight

\* Arithmetic on half a buffer.
LEMMA Halves ==
  ASSUME NEW c \in Nat, c >= Initial
  PROVE  /\ (2 * c) \div 2 = c
         /\ c \div 2 \in Nat /\ 2 * (c \div 2) <= c
         /\ c \div 2 >= 2 * MaxRecv
  BY RequestAssumption DEF Initial

LEMMA InitIInv == Init => IInv
<1> SUFFICES ASSUME Init PROVE IInv
  OBVIOUS
<1>1. Initial \in Nat
  BY RequestAssumption DEF Initial
<1>2. TypeOK
  BY <1>1, RequestAssumption DEF Init, TypeOK
<1>3. Initial \div 2 \in Nat /\ Initial \div 2 >= 2 * MaxRecv
  BY <1>1, Halves
<1>4. 0 < cap \div 2 /\ 0 < header
  BY <1>3, RequestAssumption DEF Init
<1>5. Room
  BY <1>4 DEF Init, Room
<1> QED
  BY <1>2, <1>5 DEF Init, IInv, BodyRight

LEMMA StepIInv == IInv /\ [Next]_vars => IInv'
<1> SUFFICES ASSUME IInv, [Next]_vars PROVE IInv'
  OBVIOUS
<1> USE RequestAssumption
<1>1. /\ header \in Nat \ {0} /\ body \in Nat /\ length \in Nat \cup {NoLength}
      /\ taken \in Nat /\ size \in Int /\ cap \in Nat /\ cap >= Initial /\ fails \in Nat
      /\ Initial \in Nat
  BY DEF IInv, TypeOK, Initial
<1>2. /\ cap \div 2 \in Nat /\ cap \div 2 >= 2 * MaxRecv /\ (2 * cap) \div 2 = cap
      /\ 2 * (cap \div 2) <= cap
      /\ Initial \div 2 \in Nat /\ Initial \div 2 >= 2 * MaxRecv
  BY <1>1, Halves
<1> USE DEF IInv, TypeOK, Room, BodyRight, Unparsed, client, Take
<1>3. ASSUME NEW n \in 1 .. MaxRecv, RecvHeader(n) PROVE IInv'
  <2>1. cap' \in Nat /\ cap' >= Initial /\ size' < cap' \div 2
    BY <1>1, <1>2, <1>3 DEF RecvHeader, Grown, Full
  <2> QED
    BY <1>1, <1>3, <2>1 DEF RecvHeader
<1>4. ASSUME NEW n \in 1 .. MaxRecv, ReadStale(n) PROVE IInv'
  BY <1>1, <1>4 DEF ReadStale, Zeroed
<1>5. ASSUME NEW n \in 1 .. MaxRecv, FindEnd(n) PROVE IInv'
  <2>1. size' \in Nat /\ size' < MaxRecv /\ cap' = Initial /\ size' = taken' - header
    BY <1>1, <1>5 DEF FindEnd, Leftover
  <2>2. TypeOK'
    <3>1. st' \in {"garbled", "parse", "post"}
      BY <1>5 DEF FindEnd
    <3>2. taken' \in 0 .. header + body /\ fails' = fails
      BY <1>1, <1>5 DEF FindEnd
    <3>3. fails = 0 /\ header' = header
      BY <1>5 DEF FindEnd
    <3> QED
      BY <1>1, <1>5, <2>1, <3>1, <3>2, <3>3 DEF FindEnd
  <2>3. Room'
    BY <1>1, <1>2, <1>5, <2>1 DEF FindEnd
  <2>4. BodyRight'
    BY <1>1, <1>5, <2>1 DEF FindEnd, PostWhole, NoLength
  <2> QED
    BY <2>2, <2>3, <2>4
<1>6. ASSUME NEW n \in 1 .. MaxRecv, RecvPost(n) PROVE IInv'
  <2>1. cap' \in Nat /\ cap' >= Initial /\ size' < (cap' \div 2) + MaxRecv
    BY <1>1, <1>2, <1>6 DEF RecvPost, Grown, Full
  <2> QED
    BY <1>1, <1>6, <2>1 DEF RecvPost, PostWhole
<1>7. CASE FailPost
  <2>1. cap' \in Nat /\ cap' >= Initial /\ size' < (cap' \div 2) + MaxRecv
    BY <1>1, <1>2, <1>7 DEF FailPost, Grown, Full
  <2> QED
    BY <1>1, <1>7, <2>1 DEF FailPost, PostWhole
<1>8. CASE LoseHeader
  BY <1>1, <1>8 DEF LoseHeader
<1>9. CASE SpinPost
  BY <1>1, <1>9 DEF SpinPost, PostWhole
<1>10. CASE EndPost
  BY <1>1, <1>10 DEF EndPost, PostWhole
<1>11. CASE RejectLine
  BY <1>1, <1>11 DEF RejectLine
<1>12. CASE ParseURL
  BY <1>1, <1>12 DEF ParseURL, PortFits
<1>13. CASE UNCHANGED vars
  BY <1>13 DEF vars, PostWhole
<1> QED
  BY <1>3, <1>4, <1>5, <1>6, <1>7, <1>8, <1>9, <1>10, <1>11, <1>12, <1>13 DEF Next

LEMMA AlwaysIInv == Spec => []IInv
  BY InitIInv, StepIInv, PTL DEF Spec

\* The counts of the two loops stay within their types.
THEOREM RequestTyped == Spec => []TypeOK
<1>1. IInv => TypeOK
  BY DEF IInv
<1> QED
  BY AlwaysIInv, <1>1, PTL

\* No recv of the two loops can write past the end of its buffer, nor before its
\* start unless more recvs have failed than bytes of the body had come.
THEOREM EveryRecvHasRoom == Spec => []RecvHasRoom
<1>1. IInv => RecvHasRoom
  <2> SUFFICES ASSUME IInv PROVE RecvHasRoom
    OBVIOUS
  <2>1. cap \in Nat /\ size \in Int /\ cap \div 2 >= 2 * MaxRecv /\ 2 * (cap \div 2) <= cap
        /\ cap \div 2 \in Nat
    BY Halves DEF IInv, TypeOK
  <2>2. /\ header \in Nat /\ taken \in Nat /\ fails \in Nat
        /\ st = "header" => size = taken
        /\ st = "post" => size = taken - header - fails
    BY RequestAssumption DEF IInv, TypeOK
  <2> QED
    BY <2>1, <2>2, RequestAssumption DEF IInv, Room, RecvHasRoom, Grown, Full
<1> QED
  BY AlwaysIInv, <1>1, PTL

\* A body announced right is taken as it is and never waited for in vain, unless a
\* recv fails.
THEOREM BodiesRight == Spec => []BodyRight
<1>1. IInv => BodyRight
  BY DEF IInv
<1> QED
  BY AlwaysIInv, <1>1, PTL

-----------------------------------------------------------------------------
(* URLs, of any length.                                                      *)

\* strstr finds the first of the characters it looks for.
LEMMA AtFirst ==
  ASSUME NEW u \in Seq(Chars), NEW char
  PROVE  /\ At(u, char) \in 0 .. Len(u)
         /\ At(u, char) = 0 => \A i \in 1 .. Len(u) : u[i] # char
         /\ At(u, char) # 0 => /\ u[At(u, char)] = char
                               /\ \A i \in 1 .. At(u, char) - 1 : u[i] # char
<1> DEFINE I == {i \in 1 .. Len(u) : u[i] = char}
<1>1. At(u, char) = IF I # {} THEN Min(I) ELSE 0
  BY DEF At, SelectInSeq
<1>2. I # {} => Min(I) \in I /\ \A j \in I : Min(I) <= j
  <2>1. I \in SUBSET Nat
    OBVIOUS
  <2> QED
    BY <2>1, MinIsLeast
<1> DEFINE m == Min(I)
<1>3. At(u, char) = IF I # {} THEN m ELSE 0
  BY <1>1
<1>4. I # {} => m \in I /\ \A j \in I : m <= j
  BY <1>2
<1> HIDE DEF m
<1>5. CASE I = {}
  BY <1>3, <1>5
<1>6. CASE I # {}
  BY <1>3, <1>4, <1>6
<1> QED
  BY <1>5, <1>6

LEMMA FirstIsAt ==
  ASSUME NEW u \in Seq(Chars), NEW char, NEW k \in 1 .. Len(u), u[k] = char,
         \A i \in 1 .. k - 1 : u[i] # char
  PROVE  At(u, char) = k
<1> DEFINE m == At(u, char)
<1>1. /\ m \in 0 .. Len(u)
      /\ m = 0 => \A i \in 1 .. Len(u) : u[i] # char
      /\ m # 0 => u[m] = char /\ \A i \in 1 .. m - 1 : u[i] # char
  BY AtFirst
<1> HIDE DEF m
<1>2. m # 0
  BY <1>1
<1>3. ~(m < k) /\ ~(k < m)
  BY <1>1, <1>2
<1>4. m = k
  BY <1>1, <1>3
<1> QED
  BY <1>4 DEF m

\* What is cut off behind does not matter to the first place before it.
LEMMA AtOfFront ==
  ASSUME NEW u \in Seq(Chars), NEW char, NEW k \in 0 .. Len(u)
  PROVE  At(SubSeq(u, 1, k), char) = IF At(u, char) <= k THEN At(u, char) ELSE 0
<1> DEFINE m == At(u, char)
           v == SubSeq(u, 1, k)
           a == At(v, char)
<1>1. v \in Seq(Chars) /\ Len(v) = k /\ \A i \in 1 .. k : v[i] = u[i]
  OBVIOUS
<1>2. /\ m \in 0 .. Len(u)
      /\ m = 0 => \A i \in 1 .. Len(u) : u[i] # char
      /\ m # 0 => u[m] = char /\ \A i \in 1 .. m - 1 : u[i] # char
  BY AtFirst
<1>3. /\ a \in 0 .. k
      /\ a = 0 => \A i \in 1 .. k : v[i] # char
      /\ a # 0 => v[a] = char /\ \A i \in 1 .. a - 1 : v[i] # char
  <2> HIDE DEF v
  <2> QED
    BY <1>1, AtFirst
<1> HIDE DEF m, v, a
<1>4. a = IF m <= k THEN m ELSE 0
  <2>1. CASE m = 0
    BY <1>1, <1>2, <1>3, <2>1
  <2>2. CASE m # 0 /\ m <= k
    <3>1. a # 0 /\ u[a] = char /\ a \in 1 .. k /\ v[m] = char
      BY <1>1, <1>2, <1>3, <2>2
    <3>2. ~(a < m) /\ ~(m < a)
      BY <1>1, <1>2, <1>3, <2>2, <3>1
    <3> QED
      BY <1>2, <2>2, <3>1, <3>2
  <2>3. CASE m # 0 /\ ~(m <= k)
    BY <1>1, <1>2, <1>3, <2>3
  <2> QED
    BY <2>1, <2>2, <2>3
<1> QED
  BY <1>4 DEF m, v, a

\* The authority ends at the slash if no question mark comes first.
LEMMA AuthorityIs ==
  ASSUME NEW u \in Seq(Chars), At(u, "/") # 0,
         At(u, "?") = 0 \/ At(u, "/") < At(u, "?")
  PROVE  Authority(u) = Before(u, At(u, "/"))
<1> DEFINE I == {i \in 1 .. Len(u) : u[i] \in {"/", "?"}}
           s == At(u, "/")
           q == At(u, "?")
<1>1. Authority(u) = LET end == IF I # {} THEN Min(I) ELSE 0
                     IN IF end = 0 THEN u ELSE Before(u, end)
  BY DEF Authority, SelectInSeq
<1>2. /\ s \in 1 .. Len(u) /\ u[s] = "/" /\ \A i \in 1 .. s - 1 : u[i] # "/"
      /\ \A i \in 1 .. s - 1 : u[i] # "?"
  <2>1. s \in 1 .. Len(u) /\ u[s] = "/" /\ \A i \in 1 .. s - 1 : u[i] # "/"
    BY AtFirst
  <2>2. /\ q \in 0 .. Len(u)
        /\ q = 0 => \A i \in 1 .. Len(u) : u[i] # "?"
        /\ q # 0 => \A i \in 1 .. q - 1 : u[i] # "?"
    BY AtFirst
  <2> HIDE DEF s, q
  <2>3. q = 0 \/ s < q
    BY DEF s, q
  <2> QED
    BY <2>1, <2>2, <2>3
<1> HIDE DEF s, q
<1>3. Min(I) = s
  <2>1. I \in SUBSET Nat /\ s \in I /\ \A i \in I : s <= i
    BY <1>2
  <2>2. Min(I) \in I /\ \A i \in I : Min(I) <= i
    BY <2>1, MinIsLeast
  <2> DEFINE m == Min(I)
  <2>3. m \in I /\ \A i \in I : m <= i
    BY <2>2
  <2> HIDE DEF I, m
  <2>4. m \in Nat /\ s \in Nat /\ m <= s /\ s <= m
    BY <2>1, <2>3
  <2>5. m = s
    BY <2>4
  <2> QED
    BY <2>5 DEF m
<1>4. I # {} /\ s # 0
  BY <1>2
<1> QED
  BY <1>1, <1>3, <1>4 DEF s

\* parseURL finds the server that a URL means.
LEMMA ParsedRight ==
  ASSUME NEW u \in Seq(Chars), Parsed(u) # Rejected, At(Unqueried(u), "/") # 0
  PROVE  /\ Parsed(u).host = Meant(u).host
         /\ At(Unqueried(u), ":") < At(Unqueried(u), "/") => Parsed(u) = Meant(u)
<1> DEFINE s == At(u, "/")
           q == At(u, "?")
           c == At(u, ":")
           auth == Before(u, s)
<1>1. /\ s \in 0 .. Len(u) /\ q \in 0 .. Len(u) /\ c \in 0 .. Len(u)
      /\ s # 0 => u[s] = "/"
      /\ q # 0 => u[q] = "?"
      /\ c # 0 => u[c] = ":"
  BY AtFirst
<1>2. /\ q = 0 => Unqueried(u) = u
      /\ q # 0 => Unqueried(u) = SubSeq(u, 1, q - 1) /\ q - 1 \in 0 .. Len(u)
  BY <1>1 DEF Unqueried, Before
<1>3. ASSUME NEW char
      PROVE  /\ q = 0 => At(Unqueried(u), char) = At(u, char)
             /\ q # 0 => At(Unqueried(u), char) =
                           IF At(u, char) <= q - 1 THEN At(u, char) ELSE 0
  <2>1. CASE q = 0
    BY <1>2, <2>1
  <2>2. CASE q # 0
    <3> DEFINE k == q - 1
    <3>1. k \in 0 .. Len(u) /\ Unqueried(u) = SubSeq(u, 1, k)
      BY <1>2, <2>2
    <3> HIDE DEF k
    <3>2. At(Unqueried(u), char) = IF At(u, char) <= k THEN At(u, char) ELSE 0
      BY <3>1, AtOfFront
    <3> QED
      BY <2>2, <3>2 DEF k
  <2> QED
    BY <2>1, <2>2
<1>4. s # 0 /\ (q = 0 \/ s < q) /\ At(Unqueried(u), "/") = s
  <2>1. /\ q = 0 => At(Unqueried(u), "/") = s
        /\ q # 0 => At(Unqueried(u), "/") = IF s <= q - 1 THEN s ELSE 0
    BY <1>3
  <2> HIDE DEF s, q, c
  <2> QED
    BY <1>1, <2>1
<1>5. Authority(u) = auth
  BY <1>4, AuthorityIs
<1>6. At(auth, ":") = IF c <= s - 1 THEN c ELSE 0
  <2>1. s - 1 \in 0 .. Len(u)
    BY <1>1, <1>4
  <2> QED
    BY <2>1, AtOfFront DEF Before
<1>7. Meant(u) = IF At(auth, ":") = 0 THEN [host |-> auth, port |-> DefaultPort]
                 ELSE [host |-> Before(auth, At(auth, ":")), port |-> After(auth, At(auth, ":"))]
  BY <1>5 DEF Meant
<1>8. /\ Colon(u) = IF q # 0 /\ q < c THEN 0 ELSE c
      /\ Parsed(u) = IF Colon(u) = 0 THEN [host |-> auth, port |-> DefaultPort]
                     ELSE IF Colon(u) < s
                       THEN [host |-> Before(u, Colon(u)),
                             port |-> SubSeq(u, Colon(u) + 1, s - 1)]
                       ELSE [host |-> auth, port |-> After(u, Colon(u))]
  BY DEF Colon, Parsed
<1>9. At(Unqueried(u), ":") = IF q # 0 /\ c > q - 1 THEN 0 ELSE c
  <2>1. /\ q = 0 => At(Unqueried(u), ":") = c
        /\ q # 0 => At(Unqueried(u), ":") = IF c <= q - 1 THEN c ELSE 0
    BY <1>3
  <2> HIDE DEF s, q, c
  <2> QED
    BY <1>1, <2>1
<1>10. q # 0 /\ c # 0 => q # c
  <2> HIDE DEF s, q, c
  <2> QED
    BY <1>1
<1>11. CASE Colon(u) = 0
  <2>1. At(auth, ":") = 0
    <3> HIDE DEF s, q, c, auth
    <3> QED
      BY <1>1, <1>4, <1>6, <1>8, <1>11
  <2>2. Parsed(u) = [host |-> auth, port |-> DefaultPort]
    BY <1>8, <1>11
  <2>3. Meant(u) = [host |-> auth, port |-> DefaultPort]
    BY <1>7, <2>1
  <2> QED
    BY <2>2, <2>3
<1>12. CASE Colon(u) # 0 /\ c < s
  <2>1. Colon(u) = c /\ c # 0 /\ At(auth, ":") = c
    <3> HIDE DEF s, q, c, auth
    <3> QED
      BY <1>1, <1>4, <1>6, <1>8, <1>12
  <2>2. Before(auth, c) = Before(u, c) /\ After(auth, c) = SubSeq(u, c + 1, s - 1)
    <3> HIDE DEF s, q, c
    <3>1. s - 1 \in 0 .. Len(u) /\ c \in 1 .. s - 1
      BY <1>1, <1>4, <1>12, <2>1
    <3>2. Len(auth) = s - 1
      BY <3>1 DEF Before
    <3>3. SubSeq(SubSeq(u, 1, s - 1), 1, c - 1) = SubSeq(u, 1, c - 1)
      BY <3>1
    <3>4. SubSeq(SubSeq(u, 1, s - 1), c + 1, s - 1) = SubSeq(u, c + 1, s - 1)
      BY <3>1
    <3> QED
      BY <3>2, <3>3, <3>4 DEF Before, After
  <2>3. Meant(u) = [host |-> Before(auth, c), port |-> After(auth, c)]
    BY <1>7, <2>1
  <2>4. Parsed(u) = [host |-> Before(u, c), port |-> SubSeq(u, c + 1, s - 1)]
    <3> HIDE DEF s, q, c, auth
    <3> QED
      BY <1>8, <1>12, <2>1
  <2> QED
    BY <2>2, <2>3, <2>4
<1>13. CASE Colon(u) # 0 /\ ~(c < s)
  <2>1. Colon(u) = c /\ ~(At(Unqueried(u), ":") < s) /\ At(auth, ":") = 0
    <3> HIDE DEF s, q, c, auth
    <3> QED
      BY <1>1, <1>4, <1>6, <1>8, <1>9, <1>10, <1>13
  <2>2. Parsed(u) = [host |-> auth, port |-> After(u, c)]
    <3> HIDE DEF s, q, c, auth
    <3> QED
      BY <1>8, <1>13, <2>1
  <2> QED
    BY <1>4, <1>7, <2>1, <2>2
<1> QED
  BY <1>11, <1>12, <1>13

\* What is known of a URL once it is parsed, and of the Connection made of it.
Decided == /\ st \in {"header", "post", "parse"} => url = <<>>
           /\ st \in {"accepted", "overrun"} =>
                \/ st = "overrun" /\ url = <<>>
                \/ /\ url \in URLs /\ conn = Parsed(url) /\ conn # Rejected
                   /\ st = "overrun" => ~PortFits(conn)

\* Of a URL, of whatever length and with whatever in it, the server is found that
\* it means, and the copy of the port overrun, only as far as ServerRight says.
THEOREM ServersRight == Spec => []ServerRight
<1>1. Init => Decided
  BY DEF Init, Decided
<1>2. Decided /\ [Next]_vars => Decided'
  BY DEF Decided, Next, vars, client, Unparsed, RecvHeader, ReadStale, FindEnd, RecvPost,
         LoseHeader, FailPost, SpinPost, EndPost, RejectLine, ParseURL
<1>3. Decided => ServerRight
  <2>1. At(Unqueried(<<>>), "/") = 0
    <3> DEFINE none == <<>>
    <3>0. none \in Seq(Chars) /\ Len(none) = 0
      OBVIOUS
    <3> HIDE DEF none
    <3>1. At(none, "?") \in 0 .. 0 /\ At(none, "/") \in 0 .. 0
      BY <3>0, AtFirst
    <3> QED
      BY <3>1 DEF Unqueried, none
  <2> SUFFICES ASSUME Decided, st \in {"accepted", "overrun"}, At(Unqueried(url), "/") # 0
               PROVE  /\ conn.host = Meant(url).host
                      /\ At(Unqueried(url), ":") < At(Unqueried(url), "/") =>
                            /\ conn = Meant(url)
                            /\ st = "overrun" => ~PortFits(Meant(url))
    BY DEF ServerRight
  <2>2. /\ url \in Seq(Chars) /\ conn = Parsed(url) /\ conn # Rejected
        /\ st = "overrun" => ~PortFits(conn)
    BY <2>1, RequestAssumption DEF Decided
  <2>3. /\ Parsed(url).host = Meant(url).host
        /\ At(Unqueried(url), ":") < At(Unqueried(url), "/") => Parsed(url) = Meant(url)
    BY <2>2, ParsedRight
  <2> QED
    BY <2>2, <2>3
<1> QED
  BY <1>1, <1>2, <1>3, PTL DEF Spec
=============================================================================
