--------------------------- MODULE SequenceLemmas ---------------------------
(***************************************************************************)
(* Lemmas about natural numbers and sequences that several proofs need:    *)
(* least elements and induction, said of sets of numbers and so without    *)
(* operator parameters; FlattenSeq, by its pieces; Found and Hex, by what  *)
(* they return; where the frames of a chunked body lie in its stream; and  *)
(* a buffer that holds a part of a stream with the rest still to come.     *)
(***************************************************************************)
EXTENDS ChunkCoding, WellFoundedInduction, TLAPS

\* Every set of numbers that is not empty has a least element.
LEMMA LeastNat ==
  ASSUME NEW T \in SUBSET Nat, T # {}
  PROVE  \E x \in T : \A y \in T : x <= y
<1> DEFINE Less == {ss \in Nat \X Nat : ss[1] < ss[2]}
<1>1. IsWellFoundedOn(Less, Nat)
  BY NatLessThanWellFounded DEF OpToRel
<1> HIDE DEF Less
<1>2. PICK x \in T : \A y \in T : <<y, x>> \notin Less
  BY <1>1, WFMin
<1>3. ASSUME NEW y \in T PROVE x <= y
  <2>1. x \in Nat /\ y \in Nat
    BY <1>3
  <2>2. ~(y < x)
    <3>1. <<y, x>> \notin {ss \in Nat \X Nat : ss[1] < ss[2]}
      BY <1>2, <1>3 DEF Less
    <3> QED
      BY <2>1, <3>1
  <2> QED
    BY <2>1, <2>2
<1> QED
  BY <1>3

\* Induction, of the set of numbers a statement holds for.
LEMMA Induction ==
  ASSUME NEW T, 0 \in T, \A n \in Nat : n \in T => n + 1 \in T
  PROVE  \A n \in Nat : n \in T
<1> SUFFICES ASSUME NEW m \in Nat, m \notin T PROVE FALSE
  OBVIOUS
<1> DEFINE Out == {n \in Nat : n \notin T}
<1>1. PICK x \in Out : \A y \in Out : x <= y
  BY LeastNat
<1>2. x # 0 /\ x - 1 \in Nat /\ x - 1 \notin Out
  BY <1>1
<1> QED
  BY <1>2

\* Min of the community modules is that least element.
LEMMA MinIsLeast ==
  ASSUME NEW T \in SUBSET Nat, T # {}
  PROVE  Min(T) \in T /\ \A y \in T : Min(T) <= y
  BY LeastNat DEF Min

\* What is defined by recursion along 0 .. n exists.
Recursive(f, n, S, first, step) == /\ f \in [0 .. n -> S]
                                   /\ f[0] = first
                                   /\ \A i \in 1 .. n : f[i] = step[i][f[i - 1]]

LEMMA Recursion ==
  ASSUME NEW n \in Nat, NEW S, NEW first \in S, NEW step \in [1 .. n -> [S -> S]]
  PROVE  \E f : Recursive(f, n, S, first, step)
<1> USE DEF Recursive
<1> DEFINE Is(m, f) == Recursive(f, m, S, first, step)
           Some(m) == \E f : Is(m, f)
           T == {m \in Nat : m <= n => Some(m)}
<1>1. Some(0)
  <2>1. Is(0, [i \in 0 .. 0 |-> first])
    OBVIOUS
  <2> HIDE DEF Is
  <2> QED
    BY <2>1
<1>2. ASSUME NEW m \in Nat, m + 1 <= n, Some(m) PROVE Some(m + 1)
  <2>1. PICK f : Is(m, f)
    BY <1>2
  <2> DEFINE new == step[m + 1][f[m]]
             g == [i \in 0 .. m + 1 |-> IF i = m + 1 THEN new ELSE f[i]]
  <2>2. new \in S
    BY <1>2, <2>1
  <2> HIDE DEF new
  <2>3. g \in [0 .. m + 1 -> S] /\ g[0] = first
    BY <2>1, <2>2
  <2>4. g[m + 1] = new /\ \A i \in 0 .. m : g[i] = f[i]
    OBVIOUS
  <2> HIDE DEF g
  <2>5. ASSUME NEW i \in 1 .. m + 1 PROVE g[i] = step[i][g[i - 1]]
    <3>1. i - 1 \in 0 .. m /\ g[i - 1] = f[i - 1]
      BY <2>4
    <3>2. CASE i = m + 1
      <4>1. i - 1 = m
        BY <3>2
      <4> QED
        BY <2>4, <3>1, <3>2, <4>1, Zenon DEF new
    <3>3. CASE i # m + 1
      <4>1. i \in 1 .. m /\ i \in 0 .. m
        BY <3>3
      <4> QED
        BY <2>1, <2>4, <3>1, <4>1, Zenon
    <3> QED
      BY <3>2, <3>3
  <2>6. Is(m + 1, g)
    BY <2>3, <2>5
  <2> QED
    BY <2>6
<1> HIDE DEF Some
<1>3. 0 \in T /\ \A m \in Nat : m \in T => m + 1 \in T
  BY <1>1, <1>2
<1> HIDE DEF T
<1>4. n \in T
  BY <1>3, Induction
<1>5. Some(n)
  BY <1>4 DEF T
<1> QED
  BY <1>5 DEF Some

-----------------------------------------------------------------------------
(* Sequences, element by element.                                           *)

\* Sequences are equal that have the same elements.
LEMMA SameSeq ==
  ASSUME NEW S, NEW s \in Seq(S), NEW t \in Seq(S),
         Len(s) = Len(t), \A i \in 1 .. Len(s) : s[i] = t[i]
  PROVE  s = t
  OBVIOUS

-----------------------------------------------------------------------------
(* FlattenSeq appends one sequence after the other.                         *)

\* What the first i sequences of fs come to, for each i.
Parts(fs, G, S) == /\ G \in [0 .. Len(fs) -> Seq(S)]
                   /\ G[0] = <<>>
                   /\ \A i \in 1 .. Len(fs) : G[i] = G[i - 1] \o fs[i]

\* There are such parts.
LEMMA PartsExist ==
  ASSUME NEW S, NEW fs \in Seq(Seq(S))
  PROVE  \E G : Parts(fs, G, S)
<1> DEFINE n == Len(fs)
           step == [i \in 1 .. n |-> [s \in Seq(S) |-> s \o fs[i]]]
<1>1. step \in [1 .. n -> [Seq(S) -> Seq(S)]]
  OBVIOUS
<1>2. \A i \in 1 .. n, s \in Seq(S) : step[i][s] = s \o fs[i]
  OBVIOUS
<1> HIDE DEF step
<1>3. n \in Nat /\ <<>> \in Seq(S)
  OBVIOUS
<1>4. PICK G \in [0 .. n -> Seq(S)] : /\ G[0] = <<>>
                                      /\ \A i \in 1 .. n : G[i] = step[i][G[i - 1]]
  <2>1. \E G : Recursive(G, n, Seq(S), <<>>, step)
    BY <1>1, <1>3, Recursion
  <2> QED
    BY <2>1 DEF Recursive
<1>5. ASSUME NEW i \in 1 .. n PROVE G[i] = G[i - 1] \o fs[i]
  <2>1. i - 1 \in 0 .. n
    OBVIOUS
  <2>2. G[i - 1] \in Seq(S)
    BY <2>1
  <2> QED
    BY <1>2, <1>4, <2>2, Zenon
<1> QED
  BY <1>4, <1>5 DEF Parts

\* FlattenSeq is the last of the parts.
LEMMA FlattenIsLast ==
  ASSUME NEW S, NEW fs \in Seq(Seq(S)), NEW G, Parts(fs, G, S)
  PROVE  FlattenSeq(fs) = G[Len(fs)]
<1>1. CASE Len(fs) = 0
  BY <1>1 DEF Parts, FlattenSeq
<1>2. CASE Len(fs) # 0
  <2> DEFINE n == Len(fs)
             Is(f) == f = [i \in 1 .. n |-> IF i = 1 THEN fs[i] ELSE f[i - 1] \o fs[i]]
             flatten == CHOOSE f : Is(f)
             H == [i \in 1 .. n |-> G[i]]
  <2>1. ASSUME NEW i \in 1 .. n
        PROVE  G[i] = G[i - 1] \o fs[i] /\ G[0] = <<>> /\ fs[i] \in Seq(S)
    <3>1. G[i] = G[i - 1] \o fs[i] /\ G[0] = <<>>
      BY Zenon DEF Parts
    <3>2. fs[i] \in Seq(S)
      OBVIOUS
    <3> QED
      BY <3>1, <3>2
  <2>first. G[1] = fs[1] /\ 1 \in 1 .. n
    <3>1. 1 \in 1 .. n /\ 1 - 1 = 0
      BY <1>2
    <3>2. G[1] = G[1 - 1] \o fs[1] /\ G[0] = <<>> /\ fs[1] \in Seq(S)
      BY <2>1, <3>1, Zenon
    <3>3. G[1] = <<>> \o fs[1]
      BY <3>1, <3>2, Zenon
    <3> QED
      BY <3>1, <3>2, <3>3
  <2>2. Is(H)
    <3>1. ASSUME NEW i \in 1 .. n
          PROVE  H[i] = IF i = 1 THEN fs[i] ELSE H[i - 1] \o fs[i]
      <4>1. CASE i = 1
        <5>1. H[1] = G[1]
          BY <2>first
        <5> QED
          BY <2>first, <4>1, <5>1
      <4>2. CASE i # 1
        <5>1. i - 1 \in 1 .. n
          BY <4>2
        <5>2. H[i - 1] = G[i - 1] /\ H[i] = G[i]
          BY <5>1
        <5> QED
          BY <2>1, <4>2, <5>2
      <4> QED
        BY <4>1, <4>2
    <3> DEFINE K == [i \in 1 .. n |-> IF i = 1 THEN fs[i] ELSE H[i - 1] \o fs[i]]
    <3>2. H = K
      BY <3>1
    <3> QED
      BY <3>2
  <2>3. Is(flatten)
    <3> HIDE DEF H, Is
    <3> QED
      BY <2>2
  <2>4. FlattenSeq(fs) = flatten[n]
    BY <1>2 DEF FlattenSeq
  <2>5. ASSUME NEW i \in 1 .. n
        PROVE  flatten[i] = IF i = 1 THEN fs[i] ELSE flatten[i - 1] \o fs[i]
    <3> HIDE DEF flatten
    <3> QED
      BY <2>3
  <2> HIDE DEF flatten
  <2> DEFINE T == {m \in Nat : m \in 1 .. n => flatten[m] = G[m]}
  <2>6. ASSUME NEW m \in Nat, m \in T PROVE m + 1 \in T
    <3> SUFFICES ASSUME m + 1 \in 1 .. n PROVE flatten[m + 1] = G[m + 1]
      OBVIOUS
    <3>1. /\ G[m + 1] = G[(m + 1) - 1] \o fs[m + 1]
          /\ G[0] = <<>> /\ fs[m + 1] \in Seq(S)
          /\ flatten[m + 1] = IF m + 1 = 1 THEN fs[m + 1] ELSE flatten[(m + 1) - 1] \o fs[m + 1]
      BY <2>1, <2>5
    <3>2. (m + 1) - 1 = m
      OBVIOUS
    <3>3. CASE m = 0
      <4>1. flatten[1] = fs[1]
        BY <2>5, <2>first
      <4> QED
        BY <2>first, <3>3, <4>1
    <3>4. CASE m # 0
      <4>1. m \in 1 .. n /\ m + 1 # 1
        BY <3>4
      <4>2. flatten[m] = G[m]
        BY <2>6, <4>1
      <4> QED
        BY <3>1, <3>2, <4>1, <4>2
    <3> QED
      BY <3>3, <3>4
  <2>7. 0 \in T
    OBVIOUS
  <2> HIDE DEF T
  <2>8. n \in T
    BY <2>6, <2>7, Induction
  <2>9. flatten[n] = G[n]
    BY <1>2, <2>8 DEF T
  <2> QED
    BY <2>4, <2>9
<1> QED
  BY <1>1, <1>2

\* All pieces of a flattened sequence: each is the one before it and the next
\* sequence.
LEMMA FlattenParts ==
  ASSUME NEW S, NEW fs \in Seq(Seq(S))
  PROVE  \E G : /\ Parts(fs, G, S)
                /\ \A k \in 0 .. Len(fs) : FlattenSeq(SubSeq(fs, 1, k)) = G[k]
                /\ FlattenSeq(fs) = G[Len(fs)]
<1>1. PICK G : Parts(fs, G, S)
  BY PartsExist
<1>2. ASSUME NEW k \in 0 .. Len(fs) PROVE FlattenSeq(SubSeq(fs, 1, k)) = G[k]
  <2> DEFINE f == SubSeq(fs, 1, k)
             H == [i \in 0 .. k |-> G[i]]
  <2>1. f \in Seq(Seq(S)) /\ Len(f) = k /\ \A i \in 1 .. k : f[i] = fs[i]
    OBVIOUS
  <2>2. H \in [0 .. k -> Seq(S)] /\ H[0] = <<>> /\ H[k] = G[k]
    BY <1>1 DEF Parts
  <2>3. \A i \in 0 .. k : H[i] = G[i]
    OBVIOUS
  <2> HIDE DEF f, H
  <2>4. ASSUME NEW i \in 1 .. k PROVE H[i] = H[i - 1] \o f[i]
    <3>1. i - 1 \in 0 .. k /\ i \in 1 .. Len(fs)
      OBVIOUS
    <3>2. G[i] = G[i - 1] \o fs[i]
      BY <1>1, <3>1 DEF Parts
    <3>3. H[i] = G[i] /\ H[i - 1] = G[i - 1] /\ f[i] = fs[i]
      BY <2>1, <2>3, <3>1
    <3> QED
      BY <3>2, <3>3, Zenon
  <2>5. Parts(f, H, S)
    BY <2>1, <2>2, <2>4 DEF Parts
  <2>6. FlattenSeq(f) = H[k]
    BY <2>1, <2>5, FlattenIsLast
  <2> QED
    BY <2>2, <2>6 DEF f
<1>3. FlattenSeq(fs) = G[Len(fs)]
  BY <1>1, FlattenIsLast
<1> QED
  BY <1>1, <1>2, <1>3

\* A sequence over a set is one over a larger set.
LEMMA SeqOfMore ==
  ASSUME NEW S, NEW T, S \subseteq T, NEW s \in Seq(S)
  PROVE  s \in Seq(T)
  OBVIOUS

\* The subsequence of one element.
LEMMA OneOf ==
  ASSUME NEW S, NEW s \in Seq(S), NEW j \in 1 .. Len(s)
  PROVE  Len(SubSeq(s, j, j)) = 1 /\ SubSeq(s, j, j)[1] = s[j]
  OBVIOUS

\* One sequence begins with another.
Starts(t, s) == Len(s) <= Len(t) /\ \A i \in 1 .. Len(s) : s[i] = t[i]

\* What begins with s does so when more is appended.
LEMMA StartsLonger ==
  ASSUME NEW S, NEW s \in Seq(S), NEW t \in Seq(S), NEW u \in Seq(S), Starts(t, s)
  PROVE  Starts(t \o u, s)
<1>1. /\ Len(t \o u) = Len(t) + Len(u) /\ Len(s) <= Len(t)
      /\ \A i \in 1 .. Len(t) : (t \o u)[i] = t[i]
  BY DEF Starts
<1> QED
  BY <1>1 DEF Starts

\* Starts is IsPrefix, one way.
LEMMA StartsIsPrefix ==
  ASSUME NEW S, NEW s \in Seq(S), NEW t \in Seq(S), Starts(t, s)
  PROVE  IsPrefix(s, t)
<1>1. SubSeq(s, 1, Len(s)) \in Seq(S) /\ SubSeq(t, 1, Len(s)) \in Seq(S)
  BY DEF Starts
<1>2. SubSeq(s, 1, Len(s)) = SubSeq(t, 1, Len(s))
  BY <1>1 DEF Starts
<1> QED
  BY <1>2 DEF IsPrefix, Starts

\* Of the parts of FlattenSeq, each begins with those before.
LEMMA PartsArePrefixes ==
  ASSUME NEW S, NEW fs \in Seq(Seq(S)), NEW G, Parts(fs, G, S)
  PROVE  \A k, m \in 0 .. Len(fs) : k <= m => Starts(G[m], G[k])
<1> SUFFICES ASSUME NEW k \in 0 .. Len(fs)
             PROVE  \A m \in 0 .. Len(fs) : k <= m => Starts(G[m], G[k])
  OBVIOUS
<1> DEFINE T == {m \in Nat : k <= m /\ m <= Len(fs) => Starts(G[m], G[k])}
<1>1. 0 \in T
  BY DEF Starts, Parts
<1>2. ASSUME NEW m \in Nat, m \in T PROVE m + 1 \in T
  <2> SUFFICES ASSUME k <= m + 1, m + 1 <= Len(fs) PROVE Starts(G[m + 1], G[k])
    OBVIOUS
  <2>1. CASE k = m + 1
    <3>1. Len(G[k]) <= Len(G[k])
      BY DEF Parts
    <3> QED
      BY <2>1, <3>1 DEF Starts
  <2>2. CASE k # m + 1
    <3>1. k <= m /\ m \in 0 .. Len(fs) /\ m + 1 \in 1 .. Len(fs) /\ (m + 1) - 1 = m
      BY <2>2
    <3>2. Starts(G[m], G[k])
      BY <1>2, <3>1
    <3>3. G[m] \in Seq(S) /\ G[k] \in Seq(S) /\ fs[m + 1] \in Seq(S)
      <4>1. G \in [0 .. Len(fs) -> Seq(S)] /\ m + 1 \in 1 .. Len(fs)
        BY <3>1 DEF Parts
      <4>2. fs[m + 1] \in Seq(S)
        BY <4>1
      <4> QED
        BY <3>1, <4>1, <4>2
    <3>4. G[m + 1] = G[(m + 1) - 1] \o fs[m + 1]
      BY <3>1 DEF Parts
    <3>5. G[m + 1] = G[m] \o fs[m + 1]
      BY <3>1, <3>4, Zenon
    <3>6. Starts(G[m] \o fs[m + 1], G[k])
      BY <3>2, <3>3, StartsLonger
    <3> QED
      BY <3>5, <3>6, Zenon
  <2> QED
    BY <2>1, <2>2
<1> HIDE DEF T
<1>3. \A m \in Nat : m \in T
  BY <1>1, <1>2, Induction
<1> QED
  BY <1>3 DEF T
\* The same, of FlattenSeq alone.
LEMMA FlattenPieces ==
  ASSUME NEW S, NEW fs \in Seq(Seq(S))
  PROVE  /\ FlattenSeq(SubSeq(fs, 1, 0)) = <<>>
         /\ FlattenSeq(SubSeq(fs, 1, Len(fs))) = FlattenSeq(fs)
         /\ \A k \in 0 .. Len(fs) : /\ FlattenSeq(SubSeq(fs, 1, k)) \in Seq(S)
                                    /\ Starts(FlattenSeq(fs), FlattenSeq(SubSeq(fs, 1, k)))
         /\ \A k \in 0 .. Len(fs) - 1 :
              FlattenSeq(SubSeq(fs, 1, k + 1)) = FlattenSeq(SubSeq(fs, 1, k)) \o fs[k + 1]
<1> DEFINE n == Len(fs)
           P(k) == FlattenSeq(SubSeq(fs, 1, k))
           all == FlattenSeq(fs)
<1>1. PICK G : Parts(fs, G, S) /\ (\A k \in 0 .. n : P(k) = G[k]) /\ all = G[n]
  BY FlattenParts
<1> HIDE DEF P, all
<1>2. n \in Nat /\ n \in 0 .. n /\ 0 \in 0 .. n
  OBVIOUS
<1>3. G \in [0 .. n -> Seq(S)] /\ G[0] = <<>>
  BY <1>1 DEF Parts
<1>4. P(0) = <<>> /\ P(n) = all
  BY <1>1, <1>2, <1>3
<1>5. ASSUME NEW k \in 0 .. n PROVE P(k) \in Seq(S) /\ Starts(all, P(k))
  <2>1. Starts(G[n], G[k])
    BY <1>1, <1>2, PartsArePrefixes
  <2> QED
    BY <1>1, <1>3, <2>1
<1>6. ASSUME NEW k \in 0 .. n - 1 PROVE P(k + 1) = P(k) \o fs[k + 1]
  <2>1. k \in 0 .. n /\ k + 1 \in 0 .. n /\ k + 1 \in 1 .. n /\ (k + 1) - 1 = k
    BY <1>2
  <2>2. G[k + 1] = G[(k + 1) - 1] \o fs[k + 1]
    BY <1>1, <2>1 DEF Parts
  <2>3. P(k + 1) = G[k + 1] /\ P(k) = G[k]
    BY <1>1, <2>1
  <2> QED
    BY <2>1, <2>2, <2>3, Zenon
<1> QED
  BY <1>4, <1>5, <1>6 DEF P, all
-----------------------------------------------------------------------------
(* Numbers and line ends.                                                   *)

\* Hex is a number, and that of one digit is the digit.
LEMMA HexIsNat ==
  ASSUME NEW ds \in Seq(Nat)
  PROVE  Hex(ds) \in Nat /\ (Len(ds) = 1 => Hex(ds) = ds[1])
<1> DEFINE n == Len(ds)
           Is(f) == f = [i \in 0 .. n |-> IF i = 0 THEN 0 ELSE 16 * f[i - 1] + ds[i]]
           value == CHOOSE f : Is(f)
           step == [i \in 1 .. n |-> [x \in Nat |-> 16 * x + ds[i]]]
<1>1. \E f : Is(f)
  <2>1. step \in [1 .. n -> [Nat -> Nat]] /\ n \in Nat /\ 0 \in Nat
    OBVIOUS
  <2>2. \A i \in 1 .. n, x \in Nat : step[i][x] = 16 * x + ds[i]
    OBVIOUS
  <2> HIDE DEF step
  <2>3. PICK f : Recursive(f, n, Nat, 0, step)
    BY <2>1, Recursion
  <2> DEFINE g == [i \in 0 .. n |-> IF i = 0 THEN 0 ELSE 16 * f[i - 1] + ds[i]]
  <2>4. ASSUME NEW i \in 0 .. n PROVE f[i] = g[i]
    <3>1. CASE i = 0
      BY <2>3, <3>1 DEF Recursive
    <3>2. CASE i # 0
      <4>1. i \in 1 .. n /\ i - 1 \in 0 .. n
        BY <3>2
      <4>2. f[i] = step[i][f[i - 1]] /\ f[i - 1] \in Nat
        BY <2>3, <4>1 DEF Recursive
      <4>3. f[i] = 16 * f[i - 1] + ds[i]
        BY <2>2, <4>1, <4>2
      <4> QED
        BY <3>2, <4>3
    <3> QED
      BY <3>1, <3>2
  <2>5. f = g
    BY <2>3, <2>4 DEF Recursive
  <2> QED
    BY <2>5
<1>2. Is(value)
  <2> HIDE DEF Is
  <2> QED
    BY <1>1
<1>3. Hex(ds) = value[n]
  BY DEF Hex
<1> HIDE DEF value
<1>4. \A i \in 0 .. n : value[i] = IF i = 0 THEN 0 ELSE 16 * value[i - 1] + ds[i]
  BY <1>2
<1> DEFINE T == {m \in Nat : m <= n => value[m] \in Nat}
<1>5. 0 \in T
  BY <1>4
<1>more. ASSUME NEW m \in Nat, m \in T PROVE m + 1 \in T
  <2> SUFFICES ASSUME m + 1 <= n PROVE value[m + 1] \in Nat
    OBVIOUS
  <2>1. m + 1 \in 0 .. n /\ (m + 1) - 1 = m /\ m + 1 # 0 /\ m <= n /\ m + 1 \in 1 .. n
    OBVIOUS
  <2>2. value[m + 1] = 16 * value[m] + ds[m + 1]
    BY <1>4, <2>1
  <2>3. value[m] \in Nat
    BY <1>more, <2>1
  <2>4. ds[m + 1] \in Nat
    BY <2>1
  <2> QED
    BY <2>2, <2>3, <2>4
<1> HIDE DEF T
<1>6. n \in T
  BY <1>5, <1>more, Induction
<1>7. n = 1 => value[n] = ds[1]
  BY <1>4
<1> QED
  BY <1>3, <1>6, <1>7 DEF T

\* Where a line ends.
LineEnd(d, i) == i + 1 <= Len(d) /\ d[i] = CR /\ d[i + 1] = LF

\* CRLF, byte by byte.
LEMMA CRLFIs ==
  /\ CRLF \in Seq(Bytes) /\ Len(CRLF) = 2 /\ CRLF[1] = CR /\ CRLF[2] = LF
<1>1. CR \in Bytes /\ LF \in Bytes
  BY DEF CR, LF, Bytes
<1>2. CRLF \in Seq(Bytes) /\ Len(CRLF) = 2 /\ CRLF[1] = CR /\ CRLF[2] = LF
  BY <1>1 DEF CRLF
<1> QED
  BY <1>2

\* what occurs in d at i.
OccursAt(d, what, i) == /\ i + Len(what) - 1 <= Len(d)
                        /\ \A j \in 1 .. Len(what) : what[j] = d[i + j - 1]

\* Starts is IsPrefix.
LEMMA PrefixIs ==
  ASSUME NEW S, NEW s \in Seq(S), NEW t \in Seq(S)
  PROVE  IsPrefix(s, t) <=> Starts(t, s)
<1>1. Starts(t, s) => IsPrefix(s, t)
  BY StartsIsPrefix
<1>2. ASSUME IsPrefix(s, t) PROVE Starts(t, s)
  <2>1. Len(s) <= Len(t) /\ SubSeq(s, 1, Len(s)) = SubSeq(t, 1, Len(s))
    BY <1>2 DEF IsPrefix
  <2>2. Len(s) \in Nat /\ Len(t) \in Nat
    OBVIOUS
  <2>3. ASSUME NEW i \in 1 .. Len(s) PROVE s[i] = t[i]
    <3>1. SubSeq(s, 1, Len(s))[i] = s[i]
      OBVIOUS
    <3>2. SubSeq(t, 1, Len(s))[i] = t[i]
      BY <2>1, <2>2
    <3> QED
      BY <2>1, <3>1, <3>2, Zenon
  <2> QED
    BY <2>1, <2>3 DEF Starts
<1> QED
  BY <1>1, <1>2

\* Found is where what first occurs.
LEMMA FoundIs ==
  ASSUME NEW S, NEW d \in Seq(S), NEW what \in Seq(S)
  PROVE  /\ Found(d, what) \in 0 .. Len(d)
         /\ Found(d, what) = 0 => \A i \in 1 .. Len(d) : ~OccursAt(d, what, i)
         /\ Found(d, what) # 0 =>
              /\ OccursAt(d, what, Found(d, what))
              /\ \A i \in 1 .. Len(d) : OccursAt(d, what, i) => Found(d, what) <= i
<1> DEFINE at == {i \in 1 .. Len(d) : IsPrefix(what, SubSeq(d, i, Len(d)))}
           least == CHOOSE i \in at : \A j \in at : i <= j
<1>1. ASSUME NEW i \in 1 .. Len(d)
      PROVE  IsPrefix(what, SubSeq(d, i, Len(d))) <=> OccursAt(d, what, i)
  <2> DEFINE rest == SubSeq(d, i, Len(d))
  <2>1. rest \in Seq(S) /\ Len(rest) = Len(d) - i + 1
        /\ \A j \in 1 .. Len(rest) : rest[j] = d[i + j - 1]
    OBVIOUS
  <2> HIDE DEF rest
  <2>2. IsPrefix(what, rest) <=> Starts(rest, what)
    BY <2>1, PrefixIs
  <2>3. Len(what) \in Nat /\ Len(d) \in Nat
    OBVIOUS
  <2>4. Len(what) <= Len(rest) <=> i + Len(what) - 1 <= Len(d)
    BY <2>1, <2>3
  <2>5. Starts(rest, what) <=> OccursAt(d, what, i)
    BY <2>1, <2>3, <2>4 DEF Starts, OccursAt
  <2> QED
    BY <2>2, <2>5, Zenon DEF rest
<1>2. at # {} => least \in at /\ \A j \in at : least <= j
  <2> at \in SUBSET Nat
    OBVIOUS
  <2> HIDE DEF at
  <2> QED
    BY LeastNat
<1>3. Found(d, what) = IF at = {} THEN 0 ELSE least
  BY DEF Found
<1>4. at = {i \in 1 .. Len(d) : OccursAt(d, what, i)}
  BY <1>1, Zenon
<1> HIDE DEF at, least
<1>5. CASE at = {}
  BY <1>3, <1>4, <1>5
<1>6. CASE at # {}
  <2>1. /\ least \in 1 .. Len(d) /\ OccursAt(d, what, least)
        /\ \A j \in 1 .. Len(d) : OccursAt(d, what, j) => least <= j
    BY <1>2, <1>4, <1>6
  <2>2. Found(d, what) = least
    BY <1>3, <1>6
  <2> QED
    BY <2>1, <2>2
<1> QED
  BY <1>5, <1>6

\* FoundEnd is where the first line ends.
LEMMA FoundEndIs ==
  ASSUME NEW d \in Seq(Bytes)
  PROVE  /\ FoundEnd(d) \in 0 .. Len(d)
         /\ FoundEnd(d) = 0 => \A i \in 1 .. Len(d) : ~LineEnd(d, i)
         /\ FoundEnd(d) # 0 => /\ LineEnd(d, FoundEnd(d))
                               /\ \A i \in 1 .. FoundEnd(d) - 1 : ~LineEnd(d, i)
<1>1. CRLF \in Seq(Bytes) /\ Len(CRLF) = 2 /\ CRLF[1] = CR /\ CRLF[2] = LF
  BY CRLFIs
<1>2. ASSUME NEW i \in 1 .. Len(d) PROVE OccursAt(d, CRLF, i) <=> LineEnd(d, i)
  <2>1. i + 2 - 1 = i + 1 /\ i + 1 - 1 = i
    OBVIOUS
  <2>2. (\A j \in 1 .. 2 : CRLF[j] = d[i + j - 1])
          <=> CRLF[1] = d[i + 1 - 1] /\ CRLF[2] = d[i + 2 - 1]
    OBVIOUS
  <2> QED
    BY <1>1, <2>1, <2>2, Zenon DEF OccursAt, LineEnd
<1> DEFINE f == Found(d, CRLF)
<1>3. /\ f \in 0 .. Len(d)
      /\ f = 0 => \A i \in 1 .. Len(d) : ~OccursAt(d, CRLF, i)
      /\ f # 0 => /\ OccursAt(d, CRLF, f)
                  /\ \A i \in 1 .. Len(d) : OccursAt(d, CRLF, i) => f <= i
  BY <1>1, FoundIs
<1>4. FoundEnd(d) = f
  BY DEF FoundEnd
<1> HIDE DEF f
<1>5. f # 0 => f \in 1 .. Len(d) /\ \A i \in 1 .. f - 1 : i \in 1 .. Len(d) /\ ~(f <= i)
  BY <1>3
<1> QED
  BY <1>2, <1>3, <1>4, <1>5, Zenon
-----------------------------------------------------------------------------
(* The bytes of a stream that a buffer holds.                               *)

\* s is what follows the first p bytes of the stream.
Lies(s, stream, p) == /\ p + Len(s) <= Len(stream)
                      /\ \A i \in 1 .. Len(s) : s[i] = stream[p + i]

\* u is s and the first n elements of t; v is s without its first n elements.
Joins(u, s, t, n) == /\ Len(u) = Len(s) + n
                     /\ \A i \in 1 .. Len(s) : u[i] = s[i]
                     /\ \A i \in 1 .. n : u[Len(s) + i] = t[i]
Drops(v, s, n) == /\ Len(v) = Len(s) - n
                  /\ \A i \in 1 .. Len(s) - n : v[i] = s[n + i]

\* recv moves n bytes from what is to come to the end of a buffer.
LEMMA RecvSplits ==
  ASSUME NEW S, NEW s \in Seq(S), NEW t \in Seq(S), NEW n \in 0 .. Len(t)
  PROVE  /\ SubSeq(t, n + 1, Len(t)) \in Seq(S) /\ s \o SubSeq(t, 1, n) \in Seq(S)
         /\ Drops(SubSeq(t, n + 1, Len(t)), t, n)
         /\ Joins(s \o SubSeq(t, 1, n), s, t, n)
<1> DEFINE r == SubSeq(t, 1, n)
           u == s \o r
<1>1. SubSeq(t, n + 1, Len(t)) \in Seq(S)
  OBVIOUS
<1>2. Len(SubSeq(t, n + 1, Len(t))) = Len(t) - n
  OBVIOUS
<1>3. \A i \in 1 .. Len(t) - n : SubSeq(t, n + 1, Len(t))[i] = t[n + i]
  OBVIOUS
<1>4. r \in Seq(S) /\ Len(r) = n /\ \A i \in 1 .. n : r[i] = t[i]
  OBVIOUS
<1> HIDE DEF r
<1>5. /\ u \in Seq(S) /\ Len(u) = Len(s) + n
      /\ \A i \in 1 .. Len(s) : u[i] = s[i]
      /\ \A i \in 1 .. n : u[Len(s) + i] = t[i]
  BY <1>4
<1> QED
  BY <1>1, <1>2, <1>3, <1>5 DEF r, Joins, Drops

\* A buffer stays in its place when what follows it is appended.
LEMMA LiesJoined ==
  ASSUME NEW stream, NEW s, NEW t, NEW u, NEW n \in Nat, NEW p \in Nat,
         Len(s) \in Nat, Len(t) \in Nat, Len(stream) \in Nat, n <= Len(t),
         Lies(s, stream, p), Lies(t, stream, p + Len(s)), Joins(u, s, t, n)
  PROVE  Lies(u, stream, p)
<1> USE DEF Joins
<1>1. ASSUME NEW i \in 1 .. Len(u) PROVE u[i] = stream[p + i]
  <2>1. CASE i <= Len(s)
    <3>1. i \in 1 .. Len(s)
      BY <2>1
    <3> QED
      BY <3>1 DEF Lies
  <2>2. CASE i > Len(s)
    <3> DEFINE j == i - Len(s)
    <3>1. j \in 1 .. n /\ j \in 1 .. Len(t) /\ Len(s) + j = i /\ p + Len(s) + j = p + i
      BY <2>2
    <3> HIDE DEF j
    <3>2. u[i] = t[j]
      BY <3>1
    <3>3. t[j] = stream[p + Len(s) + j]
      BY <3>1 DEF Lies
    <3> QED
      BY <3>1, <3>2, <3>3
  <2> QED
    BY <2>1, <2>2
<1>2. p + Len(u) <= Len(stream)
  BY DEF Lies
<1> QED
  BY <1>1, <1>2 DEF Lies

\* Without its first n bytes a buffer lies n bytes later.
LEMMA LiesTail ==
  ASSUME NEW stream, NEW s, NEW v, NEW n \in Nat, NEW p \in Nat,
         Len(s) \in Nat, Len(stream) \in Nat, n <= Len(s),
         Lies(s, stream, p), Drops(v, s, n)
  PROVE  Lies(v, stream, p + n)
<1> USE DEF Drops
<1>1. ASSUME NEW i \in 1 .. Len(v) PROVE v[i] = stream[p + n + i]
  <2>1. n + i \in 1 .. Len(s) /\ p + (n + i) = p + n + i /\ i \in 1 .. Len(s) - n
    OBVIOUS
  <2>2. s[n + i] = stream[p + (n + i)]
    BY <2>1 DEF Lies
  <2> QED
    BY <2>1, <2>2
<1>2. p + n + Len(v) <= Len(stream)
  BY DEF Lies
<1> QED
  BY <1>1, <1>2 DEF Lies

\* The end of a sequence, and its length.
LEMMA TailTyped ==
  ASSUME NEW S, NEW s \in Seq(S), NEW m \in Nat \ {0}
  PROVE  /\ SubSeq(s, m, Len(s)) \in Seq(S)
         /\ Len(SubSeq(s, m, Len(s))) = IF m <= Len(s) THEN Len(s) - m + 1 ELSE 0
  OBVIOUS

\* The beginning of a sequence, and its length.
LEMMA HeadTyped ==
  ASSUME NEW S, NEW s \in Seq(S), NEW m \in 0 .. Len(s)
  PROVE  /\ SubSeq(s, 1, m) \in Seq(S) /\ Len(SubSeq(s, 1, m)) = m
         /\ \A i \in 1 .. m : SubSeq(s, 1, m)[i] = s[i]
  OBVIOUS

-----------------------------------------------------------------------------
(* The types of bytes and frames.                                           *)

\* Bytes are numbers, for the client's sequences, which hold sizes too.
LEMMA BytesAreNat ==
  /\ Bytes \subseteq Nat /\ CRLF \in Seq(Nat) /\ LastFrame \in Seq(Nat)
  /\ \A s \in Seq(Bytes) : s \in Seq(Nat)
<1>1. Bytes \subseteq Nat
  BY DEF Bytes
<1>2. \A s \in Seq(Bytes) : s \in Seq(Nat)
  BY <1>1, SeqOfMore
<1>3. CRLF \in Seq(Nat)
  BY <1>2, CRLFIs
<1>4. <<0>> \in Seq(Nat)
  OBVIOUS
<1> QED
  BY <1>1, <1>2, <1>3, <1>4 DEF LastFrame

\* The frame of a chunk is a sequence of bytes.
LEMMA FramedTyped ==
  ASSUME NEW c \in Seq(Bytes), Len(c) \in 1 .. 15
  PROVE  Framed(c) \in Seq(Bytes)
<1>1. <<Len(c)>> \in Seq(Bytes)
  BY DEF Bytes
<1>2. CRLF \in Seq(Bytes)
  BY CRLFIs
<1> QED
  BY <1>1, <1>2 DEF Framed

\* So is the last frame.
LEMMA LastTyped == LastFrame \in Seq(Bytes)
<1>1. <<0>> \in Seq(Bytes)
  BY DEF Bytes
<1>2. CRLF \in Seq(Bytes)
  BY CRLFIs
<1> QED
  BY <1>1, <1>2 DEF LastFrame

Frames(cs) == [i \in DOMAIN cs |-> Framed(cs[i])]
ChunkSizes(cs) == \A i \in 1 .. Len(cs) : Len(cs[i]) \in 1 .. 15

\* The frames of a body.
LEMMA FramesTyped ==
  ASSUME NEW cs \in Seq(Seq(Bytes)), ChunkSizes(cs)
  PROVE  /\ Frames(cs) \in Seq(Seq(Bytes)) /\ Len(Frames(cs)) = Len(cs)
         /\ \A i \in 1 .. Len(cs) : Frames(cs)[i] = Framed(cs[i])
<1>1. DOMAIN cs = 1 .. Len(cs) /\ Len(cs) \in Nat
  OBVIOUS
<1>2. \A i \in 1 .. Len(cs) : Framed(cs[i]) \in Seq(Bytes)
  BY FramedTyped DEF ChunkSizes
<1> QED
  BY <1>1, <1>2 DEF Frames

\* A chunked body is a sequence of bytes.
LEMMA EncodedTyped ==
  ASSUME NEW cs \in Seq(Seq(Bytes)), ChunkSizes(cs)
  PROVE  Encoded(cs) \in Seq(Bytes) /\ FlattenSeq(Frames(cs)) \in Seq(Bytes)
<1>1. Frames(cs) \in Seq(Seq(Bytes))
  BY FramesTyped
<1>2. PICK G : Parts(Frames(cs), G, Bytes) /\ FlattenSeq(Frames(cs)) = G[Len(Frames(cs))]
  BY <1>1, FlattenParts
<1>3. FlattenSeq(Frames(cs)) \in Seq(Bytes)
  BY <1>1, <1>2 DEF Parts
<1> QED
  BY <1>3, LastTyped DEF Encoded, Frames

-----------------------------------------------------------------------------
(* Where the chunks are in the encoded body.                                *)

\* What follows the first p bytes of the stream is the frame of c: its size,
\* CRLF, its bytes, CRLF.  The last frame is that of the empty chunk.
FrameAt(stream, p, c) ==
  /\ p + Len(c) + 5 <= Len(stream)
  /\ stream[p + 1] = Len(c) /\ stream[p + 2] = CR /\ stream[p + 3] = LF
  /\ \A j \in 1 .. Len(c) : stream[p + 3 + j] = c[j]
  /\ stream[p + 3 + Len(c) + 1] = CR /\ stream[p + 3 + Len(c) + 2] = LF

\* Appending, in the words of Joins.
LEMMA Appended ==
  ASSUME NEW S, NEW s \in Seq(S), NEW t \in Seq(S)
  PROVE  s \o t \in Seq(S) /\ Joins(s \o t, s, t, Len(t))
  BY DEF Joins

\* A size, CRLF, as many bytes and CRLF are a frame.
LEMMA FrameOfParts ==
  ASSUME NEW c \in Seq(Bytes), NEW h \in Seq(Bytes), NEW e \in Seq(Bytes),
         Len(h) = 1, h[1] = Len(c), Len(e) = 2, e[1] = CR, e[2] = LF
  PROVE  LET f == h \o e \o c \o e
         IN f \in Seq(Bytes) /\ Len(f) = Len(c) + 5 /\ FrameAt(f, 0, c)
<1> DEFINE a == h \o e
           b == a \o c
           f == b \o e
<1>n. Len(c) \in Nat
  OBVIOUS
<1>1. a \in Seq(Bytes) /\ Joins(a, h, e, Len(e))
  BY Appended
<1> HIDE DEF a
<1>2. b \in Seq(Bytes) /\ Joins(b, a, c, Len(c))
  BY <1>1, Appended
<1> HIDE DEF b
<1>3. f \in Seq(Bytes) /\ Joins(f, b, e, Len(e))
  BY <1>2, Appended
<1> USE DEF Joins
<1> HIDE DEF f
<1>4. Len(a) = 3 /\ a[1] = Len(c) /\ a[2] = CR /\ a[3] = LF
  <2>1. a[1] = h[1] /\ a[1 + 1] = e[1] /\ a[1 + 2] = e[2]
    BY <1>1
  <2> QED
    BY <1>1, <2>1
<1>5. Len(b) = Len(c) + 3 /\ b[1] = Len(c) /\ b[2] = CR /\ b[3] = LF
  BY <1>2, <1>4, <1>n
<1>6. Len(f) = Len(c) + 5
  BY <1>3, <1>5, <1>n
<1>7. f[1] = Len(c) /\ f[2] = CR /\ f[3] = LF
  BY <1>3, <1>5, <1>n
<1>8. f[3 + Len(c) + 1] = CR /\ f[3 + Len(c) + 2] = LF
  <2>1. f[Len(b) + 1] = e[1] /\ f[Len(b) + 2] = e[2]
    BY <1>3
  <2>2. Len(b) + 1 = 3 + Len(c) + 1 /\ Len(b) + 2 = 3 + Len(c) + 2
    BY <1>5, <1>n
  <2> QED
    BY <2>1, <2>2
<1>9. ASSUME NEW j \in 1 .. Len(c) PROVE f[3 + j] = c[j]
  <2>1. 3 + j \in 1 .. Len(b)
    BY <1>5, <1>n
  <2>2. b[3 + j] = c[j]
    BY <1>2, <1>4
  <2> QED
    BY <1>3, <2>1, <2>2
<1>10. FrameAt(f, 0, c)
  <2>1. 0 + 1 = 1 /\ 0 + 2 = 2 /\ 0 + 3 = 3 /\ 0 + Len(c) + 5 <= Len(f)
    BY <1>6, <1>n
  <2> QED
    BY <1>7, <1>8, <1>9, <2>1 DEF FrameAt
<1> QED
  BY <1>3, <1>6, <1>10 DEF a, b, f

\* The frame of a chunk is a frame.
LEMMA FrameOf ==
  ASSUME NEW c \in Seq(Bytes), Len(c) \in 0 .. 15
  PROVE  LET f == <<Len(c)>> \o CRLF \o c \o CRLF
         IN f \in Seq(Bytes) /\ Len(f) = Len(c) + 5 /\ FrameAt(f, 0, c)
<1> DEFINE h == <<Len(c)>>
<1>1. h \in Seq(Bytes) /\ Len(h) = 1 /\ h[1] = Len(c)
  BY DEF Bytes
<1> HIDE DEF h
<1>2. LET f == h \o CRLF \o c \o CRLF
      IN f \in Seq(Bytes) /\ Len(f) = Len(c) + 5 /\ FrameAt(f, 0, c)
  BY <1>1, CRLFIs, FrameOfParts
<1> QED
  BY <1>2 DEF h

\* A frame is one wherever it stands in a stream.
LEMMA FrameMoves ==
  ASSUME NEW c, Len(c) \in Nat, NEW f, NEW s, NEW stream, NEW p \in Nat,
         FrameAt(f, 0, c), Len(f) = Len(c) + 5, Len(stream) \in Nat,
         p + Len(f) <= Len(stream),
         \A i \in 1 .. Len(f) : stream[p + i] = f[i]
  PROVE  FrameAt(stream, p, c)
<1>1. /\ stream[p + 1] = f[1] /\ stream[p + 2] = f[2] /\ stream[p + 3] = f[3]
      /\ stream[p + (3 + Len(c) + 1)] = f[3 + Len(c) + 1]
      /\ stream[p + (3 + Len(c) + 2)] = f[3 + Len(c) + 2]
  OBVIOUS
<1>2. /\ f[1] = Len(c) /\ f[2] = CR /\ f[3] = LF
      /\ f[3 + Len(c) + 1] = CR /\ f[3 + Len(c) + 2] = LF
  <2>1. 0 + 1 = 1 /\ 0 + 2 = 2 /\ 0 + 3 = 3
    OBVIOUS
  <2> QED
    BY <2>1 DEF FrameAt
<1>3. ASSUME NEW j \in 1 .. Len(c) PROVE stream[p + 3 + j] = c[j]
  <2>1. 3 + j \in 1 .. Len(f) /\ p + (3 + j) = p + 3 + j /\ 0 + 3 + j = 3 + j
    OBVIOUS
  <2>2. stream[p + (3 + j)] = f[3 + j]
    BY <2>1
  <2>3. f[0 + 3 + j] = c[j]
    BY DEF FrameAt
  <2> QED
    BY <2>1, <2>2, <2>3
<1>4. /\ p + (3 + Len(c) + 1) = p + 3 + Len(c) + 1
      /\ p + (3 + Len(c) + 2) = p + 3 + Len(c) + 2
      /\ p + Len(c) + 5 <= Len(stream)
  OBVIOUS
<1> QED
  BY <1>1, <1>2, <1>3, <1>4 DEF FrameAt

\* The last frame is the frame of the empty chunk.
LEMMA LastIsFrame == LastFrame = <<Len(<<>>)>> \o CRLF \o <<>> \o CRLF
<1> DEFINE h == <<Len(<<>>)>>
<1>1. h = <<0>> /\ h \in Seq(Nat) /\ CRLF \in Seq(Nat)
  BY BytesAreNat
<1> HIDE DEF h
<1>2. h \o CRLF \in Seq(Nat)
  BY <1>1
<1>3. (h \o CRLF) \o <<>> = h \o CRLF
  BY <1>2
<1>4. LastFrame = h \o CRLF \o CRLF
  BY <1>1 DEF LastFrame
<1> QED
  BY <1>3, <1>4 DEF h

\* Starts is transitive.
LEMMA StartsTrans ==
  ASSUME NEW s, NEW t, NEW u, Len(s) \in Nat, Len(t) \in Nat, Len(u) \in Nat,
         Starts(u, t), Starts(t, s)
  PROVE  Starts(u, s)
  BY DEF Starts

\* Where the frame of chunk k + 1 is, and that chunk; the last one is empty.
Place(cs, k) == Len(FlattenSeq(SubSeq(Frames(cs), 1, k)))
ChunkAt(cs, k) == IF k < Len(cs) THEN cs[k + 1] ELSE <<>>

\* The chunk at a place, which is empty behind all others.
LEMMA FrameOfChunk ==
  ASSUME NEW cs \in Seq(Seq(Bytes)), ChunkSizes(cs), NEW k \in 0 .. Len(cs)
  PROVE  /\ ChunkAt(cs, k) \in Seq(Bytes) /\ Len(ChunkAt(cs, k)) \in 0 .. 15
         /\ k < Len(cs) <=> Len(ChunkAt(cs, k)) # 0
<1>1. CASE k < Len(cs)
  <2>1. k + 1 \in 1 .. Len(cs)
    BY <1>1
  <2>2. cs[k + 1] \in Seq(Bytes) /\ Len(cs[k + 1]) \in 1 .. 15
    BY <2>1 DEF ChunkSizes
  <2> QED
    <3>1. ChunkAt(cs, k) = cs[k + 1]
      BY <1>1 DEF ChunkAt
    <3>2. \A x \in 1 .. 15 : x \in 0 .. 15 /\ x # 0
      OBVIOUS
    <3> QED
      BY <1>1, <2>2, <3>1, <3>2, Zenon
<1>2. CASE ~(k < Len(cs))
  BY <1>2 DEF ChunkAt
<1> QED
  BY <1>1, <1>2

\* A frame has five bytes more than its chunk.
LEMMA FiveIs ==
  ASSUME NEW x \in Nat, NEW y \in Nat
  PROVE  x + (y + 5) = x + y + 5 /\ x + y + 5 = x + 3 + y + 2
  OBVIOUS

\* In the stream of a chunked body each chunk's frame is at its place, and behind
\* the last frame nothing is.
LEMMA FramesLie ==
  ASSUME NEW cs \in Seq(Seq(Bytes)), ChunkSizes(cs)
  PROVE  /\ Place(cs, 0) = 0
         /\ \A k \in 0 .. Len(cs) :
              /\ Place(cs, k) \in Nat
              /\ FrameAt(Encoded(cs), Place(cs, k), ChunkAt(cs, k))
              /\ Place(cs, k) > 0 => Encoded(cs)[Place(cs, k)] = LF
         /\ \A k \in 0 .. Len(cs) - 1 :
              Place(cs, k + 1) = Place(cs, k) + Len(cs[k + 1]) + 5
         /\ Len(Encoded(cs)) = Place(cs, Len(cs)) + 5
<1> DEFINE fs == Frames(cs)
           n == Len(cs)
           stream == Encoded(cs)
<1>1. n \in Nat /\ fs \in Seq(Seq(Bytes)) /\ Len(fs) = n
      /\ \A i \in 1 .. n : fs[i] = Framed(cs[i])
  BY FramesTyped
<1>2. PICK G : /\ Parts(fs, G, Bytes)
               /\ \A k \in 0 .. n : FlattenSeq(SubSeq(fs, 1, k)) = G[k]
               /\ FlattenSeq(fs) = G[n]
  <2> HIDE DEF fs
  <2> QED
    BY <1>1, FlattenParts
<1>3. \A k \in 0 .. n : Place(cs, k) = Len(G[k])
  BY <1>2 DEF Place
<1>4. stream = G[n] \o LastFrame
  BY <1>2 DEF Encoded, Frames
<1>5. G \in [0 .. n -> Seq(Bytes)] /\ G[0] = <<>>
  BY <1>1, <1>2 DEF Parts
<1>6. \A k \in 0 .. n : Starts(G[n], G[k])
  <2> HIDE DEF fs
  <2>1. \A k, m \in 0 .. Len(fs) : k <= m => Starts(G[m], G[k])
    BY <1>1, <1>2, PartsArePrefixes
  <2>2. n \in 0 .. n /\ \A k \in 0 .. n : k <= n
    BY <1>1
  <2> QED
    BY <1>1, <2>1, <2>2, Zenon
<1> HIDE DEF fs, stream
<1>7. n \in 0 .. n /\ G[n] \in Seq(Bytes) /\ 0 \in 0 .. n
  BY <1>1, <1>5
<1>8. stream \in Seq(Bytes) /\ Joins(stream, G[n], LastFrame, Len(LastFrame))
  BY <1>4, <1>7, LastTyped, Appended
<1>9. Len(stream) \in Nat /\ Starts(stream, G[n])
  BY <1>7, <1>8, LastTyped DEF Joins, Starts
<1>10. ASSUME NEW k \in 0 .. n
       PROVE  Starts(stream, G[k]) /\ Len(G[k]) \in Nat /\ G[k] \in Seq(Bytes)
  <2>1. G[k] \in Seq(Bytes) /\ Starts(G[n], G[k])
    BY <1>5, <1>6
  <2>2. Len(G[k]) \in Nat /\ Len(G[n]) \in Nat
    BY <1>7, <2>1
  <2> QED
    BY <1>9, <2>1, <2>2, StartsTrans
<1>11. Place(cs, 0) = 0
  BY <1>3, <1>5, <1>7
<1>12. ASSUME NEW k \in 0 .. n - 1
       PROVE  /\ Len(G[k + 1]) = Len(G[k]) + Len(cs[k + 1]) + 5
              /\ FrameAt(stream, Len(G[k]), cs[k + 1])
  <2> DEFINE c == cs[k + 1]
             f == Framed(c)
  <2>1. k \in 0 .. n /\ k + 1 \in 0 .. n /\ k + 1 \in 1 .. n /\ (k + 1) - 1 = k
    BY <1>1
  <2>2. c \in Seq(Bytes) /\ Len(c) \in 0 .. 15 /\ Len(c) \in Nat
    <3>1. Len(c) \in 1 .. 15
      BY <2>1 DEF ChunkSizes
    <3> QED
      BY <2>1, <3>1
  <2> HIDE DEF c
  <2>3. f \in Seq(Bytes) /\ Len(f) = Len(c) + 5 /\ FrameAt(f, 0, c)
    BY <2>2, FrameOf DEF Framed
  <2>4. G[k + 1] = G[k] \o f
    <3>1. G[k + 1] = G[(k + 1) - 1] \o fs[k + 1]
      BY <1>1, <1>2, <2>1 DEF Parts
    <3>2. fs[k + 1] = f
      BY <1>1, <2>1 DEF c
    <3> QED
      BY <2>1, <3>1, <3>2, Zenon
  <2> HIDE DEF f
  <2>5. Joins(G[k + 1], G[k], f, Len(f))
    BY <1>10, <2>1, <2>3, <2>4, Appended
  <2>6. Starts(stream, G[k + 1]) /\ Len(G[k]) \in Nat
    BY <1>10, <2>1
  <2>7. Len(G[k + 1]) = Len(G[k]) + Len(f) /\ Len(f) \in Nat
    BY <2>2, <2>3, <2>5 DEF Joins
  <2>8. ASSUME NEW i \in 1 .. Len(f) PROVE stream[Len(G[k]) + i] = f[i]
    <3>1. G[k + 1][Len(G[k]) + i] = f[i]
      BY <2>5 DEF Joins
    <3>2. Len(G[k]) + i \in 1 .. Len(G[k + 1])
      BY <2>6, <2>7
    <3>3. G[k + 1][Len(G[k]) + i] = stream[Len(G[k]) + i]
      BY <2>6, <3>2 DEF Starts
    <3> QED
      BY <3>1, <3>3
  <2>9. Len(G[k]) + Len(f) <= Len(stream)
    BY <2>6, <2>7 DEF Starts
  <2>10. FrameAt(stream, Len(G[k]), c)
    BY <1>9, <2>2, <2>3, <2>6, <2>8, <2>9, FrameMoves
  <2>11. Len(G[k + 1]) = Len(G[k]) + Len(c) + 5
    <3>1. Len(G[k + 1]) = Len(G[k]) + (Len(c) + 5)
      BY <2>3, <2>7, Zenon
    <3>2. Len(G[k]) + (Len(c) + 5) = Len(G[k]) + Len(c) + 5
      BY <2>2, <2>6, FiveIs
    <3> QED
      BY <3>1, <3>2, Zenon
  <2> QED
    BY <2>10, <2>11 DEF c
<1>13. Len(stream) = Len(G[n]) + 5 /\ FrameAt(stream, Len(G[n]), <<>>)
  <2> DEFINE f == LastFrame
  <2> DEFINE e == <<>>
  <2>1. e \in Seq(Bytes) /\ Len(e) = 0 /\ Len(e) \in 0 .. 15 /\ Len(e) \in Nat
    OBVIOUS
  <2>last. f = <<Len(e)>> \o CRLF \o e \o CRLF
    BY LastIsFrame
  <2> HIDE DEF e
  <2>2. f \in Seq(Bytes) /\ Len(f) = Len(e) + 5 /\ FrameAt(f, 0, e)
    BY <2>1, <2>last, FrameOf
  <2> HIDE DEF f
  <2>3. Joins(stream, G[n], f, Len(f)) /\ Len(G[n]) \in Nat
    BY <1>7, <1>8 DEF f
  <2>4. Len(f) = 5
    BY <2>1, <2>2
  <2>5. Len(stream) = Len(G[n]) + 5
    BY <2>3, <2>4 DEF Joins
  <2>6. \A i \in 1 .. Len(f) : stream[Len(G[n]) + i] = f[i]
    BY <2>3 DEF Joins
  <2>7. Len(G[n]) + Len(f) <= Len(stream)
    BY <1>9, <2>3, <2>4, <2>5
  <2>8. FrameAt(stream, Len(G[n]), e)
    BY <1>9, <2>1, <2>2, <2>3, <2>6, <2>7, FrameMoves
  <2> QED
    BY <2>5, <2>8 DEF e
<1>14. ASSUME NEW k \in 0 .. n
       PROVE  FrameAt(stream, Len(G[k]), ChunkAt(cs, k))
  <2>1. CASE k < n
    <3>1. k \in 0 .. n - 1
      BY <1>1, <2>1
    <3> QED
      BY <1>12, <2>1, <3>1 DEF ChunkAt
  <2>2. CASE ~(k < n)
    <3>1. k = n
      BY <1>1, <2>2
    <3> QED
      BY <1>13, <2>2, <3>1 DEF ChunkAt
  <2> QED
    BY <2>1, <2>2
<1>15. ASSUME NEW k \in 0 .. n, Len(G[k]) > 0 PROVE stream[Len(G[k])] = LF
  <2>1. k # 0
    BY <1>5, <1>15
  <2> DEFINE j == k - 1
  <2>2. j \in 0 .. n - 1 /\ j + 1 = k /\ j \in 0 .. n
    BY <1>1, <2>1
  <2> HIDE DEF j
  <2>3. Len(G[k]) = Len(G[j]) + Len(cs[k]) + 5 /\ FrameAt(stream, Len(G[j]), cs[k])
    BY <1>12, <2>2
  <2>4. Len(G[j]) \in Nat /\ Len(cs[k]) \in Nat
    BY <1>1, <1>10, <2>1, <2>2
  <2>5. Len(G[k]) = Len(G[j]) + 3 + Len(cs[k]) + 2
    <3>1. Len(G[j]) + Len(cs[k]) + 5 = Len(G[j]) + 3 + Len(cs[k]) + 2
      BY <2>4, FiveIs
    <3> QED
      BY <2>3, <3>1, Zenon
  <2> QED
    BY <2>3, <2>5 DEF FrameAt
<1>16. ASSUME NEW k \in 0 .. n - 1
       PROVE  Place(cs, k + 1) = Place(cs, k) + Len(cs[k + 1]) + 5
  <2>1. k \in 0 .. n /\ k + 1 \in 0 .. n
    BY <1>1
  <2> QED
    BY <1>3, <1>12, <2>1
<1>17. ASSUME NEW k \in 0 .. n
       PROVE  /\ Place(cs, k) \in Nat
              /\ FrameAt(stream, Place(cs, k), ChunkAt(cs, k))
              /\ Place(cs, k) > 0 => stream[Place(cs, k)] = LF
  BY <1>3, <1>10, <1>14, <1>15
<1>18. Len(stream) = Place(cs, n) + 5
  BY <1>3, <1>7, <1>13
<1> QED
  BY <1>11, <1>16, <1>17, <1>18 DEF stream

\* Once there is the end of a line, the frame's size is all that is before it,
\* even if the last byte of the CRLF before the frame was left in the buffer.
LEMMA LineEndThere ==
  ASSUME NEW stream \in Seq(Bytes), NEW d \in Seq(Bytes), NEW c \in Seq(Bytes),
         Len(c) \in 0 .. 15, NEW p \in Nat, NEW back \in {0, 1}, back <= p,
         FrameAt(stream, p, c), back = 1 => stream[p] = LF,
         Lies(d, stream, p - back), FoundEnd(d) # 0
  PROVE  /\ FoundEnd(d) = back + 2 /\ Len(d) >= back + 3
         /\ d[back + 1] = Len(c) /\ d[back + 2] = CR
         /\ back = 1 => d[1] = LF
<1> DEFINE f == FoundEnd(d)
<1>1. f \in 1 .. Len(d) /\ LineEnd(d, f) /\ \A i \in 1 .. f - 1 : ~LineEnd(d, i)
  BY FoundEndIs
<1> HIDE DEF f
<1>n. Len(d) \in Nat /\ Len(stream) \in Nat /\ Len(c) \in Nat
  OBVIOUS
<1>2. \A i \in 1 .. Len(d) : d[i] = stream[p - back + i]
  BY DEF Lies
<1>3. stream[p + 1] = Len(c) /\ stream[p + 2] = CR /\ stream[p + 3] = LF
  BY DEF FrameAt
<1>4. Len(c) # CR /\ LF # CR
  <2>1. \A x \in 0 .. 15 : x # CR
    BY DEF CR
  <2>2. Len(c) # CR
    BY <2>1, Zenon
  <2>3. LF # CR
    BY DEF CR, LF
  <2> QED
    BY <2>2, <2>3
<1>5. Len(d) >= f + 1
  BY <1>1 DEF LineEnd
<1>6. f >= back + 2
  <2>1. CASE back = 0
    <3>1. 1 \in 1 .. Len(d) /\ p - back + 1 = p + 1
      BY <1>1, <1>n, <2>1
    <3>2. d[1] = Len(c)
      BY <1>2, <1>3, <3>1
    <3>3. f # 1
      BY <1>1, <1>4, <3>2 DEF LineEnd
    <3> QED
      BY <1>1, <2>1, <3>3
  <2>2. CASE back = 1
    <3>1. 1 \in 1 .. Len(d) /\ p - back + 1 = p /\ p - back + 2 = p + 1
      BY <1>1, <1>n, <2>2
    <3>2. d[1] = LF
      BY <1>2, <2>2, <3>1
    <3>3. f # 1
      BY <1>1, <1>4, <3>2 DEF LineEnd
    <3>4. 2 \in 1 .. Len(d)
      BY <1>1, <1>5, <1>n, <3>3
    <3>5. d[2] = Len(c)
      BY <1>2, <1>3, <3>1, <3>4
    <3>6. f # 2
      BY <1>1, <1>4, <3>5 DEF LineEnd
    <3> QED
      BY <1>1, <2>2, <3>3, <3>6
  <2> QED
    BY <2>1, <2>2
<1>7. Len(d) >= back + 3
  BY <1>1, <1>5, <1>6, <1>n
<1>8. /\ back + 1 \in 1 .. Len(d) /\ back + 2 \in 1 .. Len(d) /\ back + 3 \in 1 .. Len(d)
      /\ p - back + (back + 1) = p + 1 /\ p - back + (back + 2) = p + 2
      /\ p - back + (back + 3) = p + 3 /\ back + 2 + 1 = back + 3
  BY <1>7, <1>n
<1>9. d[back + 1] = Len(c) /\ d[back + 2] = CR /\ d[back + 3] = LF
  <2>1. /\ d[back + 1] = stream[p - back + (back + 1)]
        /\ d[back + 2] = stream[p - back + (back + 2)]
        /\ d[back + 3] = stream[p - back + (back + 3)]
    BY <1>2, <1>8, Zenon
  <2> QED
    BY <1>3, <1>8, <2>1, Zenon
<1>10. LineEnd(d, back + 2)
  BY <1>7, <1>8, <1>9 DEF LineEnd
<1>11. f = back + 2
  BY <1>1, <1>6, <1>10
<1>12. back = 1 => d[1] = LF
  <2> SUFFICES ASSUME back = 1 PROVE d[1] = LF
    OBVIOUS
  <2>1. 1 \in 1 .. Len(d) /\ p - back + 1 = p
    BY <1>7, <1>n
  <2> QED
    BY <1>2, <2>1
<1> QED
  BY <1>7, <1>9, <1>11, <1>12 DEF f

-----------------------------------------------------------------------------
(* Four sequences, appended in different orders.                           *)

Regrouped(p, a, c, e) == /\ p \o (a \o c \o e) = (p \o a) \o (c \o e)
                         /\ (p \o a) \o c \o e = (p \o a) \o (c \o e)

\* The two orders of appending agree.
LEMMA Regroup ==
  ASSUME NEW S, NEW p \in Seq(S), NEW a \in Seq(S), NEW c \in Seq(S), NEW e \in Seq(S)
  PROVE  Regrouped(p, a, c, e)
<1> DEFINE pa == p \o a
           ce == c \o e
<1>1. pa \in Seq(S) /\ ce \in Seq(S)
  OBVIOUS
<1>2. a \o c \o e = a \o ce
  OBVIOUS
<1>3. pa \o c \o e = pa \o ce
  <2> HIDE DEF pa
  <2> QED
    BY <1>1
<1>4. p \o (a \o ce) = pa \o ce
  <2> HIDE DEF ce
  <2> QED
    BY <1>1
<1> QED
  BY <1>2, <1>3, <1>4, Zenon DEF Regrouped

-----------------------------------------------------------------------------
(* A buffer and what is still to come are the stream from some place on.   *)

\* The buffer begins after p bytes of the stream and the rest follows it, up to
\* the stream's end if all of it is sent.
Follows(buffer, rest, all, stream, p) ==
  /\ Lies(buffer, stream, p) /\ Lies(rest, stream, p + Len(buffer))
  /\ all <=> p + Len(buffer) + Len(rest) = Len(stream)

\* recv keeps the buffer and the rest in their place.
LEMMA FollowsRecv ==
  ASSUME NEW stream \in Seq(Bytes), NEW s \in Seq(Bytes), NEW t \in Seq(Bytes),
         NEW p \in Nat, NEW n \in 0 .. Len(t), NEW all,
         Follows(s, t, all, stream, p),
         NEW u, u = s \o SubSeq(t, 1, n), NEW v, v = SubSeq(t, n + 1, Len(t))
  PROVE  Follows(u, v, all, stream, p)
<1>1. /\ Len(s) \in Nat /\ Len(t) \in Nat /\ Len(stream) \in Nat
      /\ n \in Nat /\ n <= Len(t) /\ p \in Nat /\ p + Len(s) \in Nat
  OBVIOUS
<1>2. Lies(s, stream, p) /\ Lies(t, stream, p + Len(s))
  BY DEF Follows
<1>3. Joins(u, s, t, n) /\ Drops(v, t, n)
  BY RecvSplits, Zenon
<1>4. Lies(u, stream, p)
  BY <1>1, <1>2, <1>3, LiesJoined
<1>5. Lies(v, stream, p + Len(s) + n)
  BY <1>1, <1>2, <1>3, LiesTail, Zenon
<1>6. Len(u) = Len(s) + n /\ Len(v) = Len(t) - n
  BY <1>3, Zenon DEF Joins, Drops
<1>7. /\ p + Len(s) + n = p + (Len(s) + n)
      /\ p + (Len(s) + n) + (Len(t) - n) = p + Len(s) + Len(t)
  BY ONLY <1>1
<1>8. p + Len(u) + Len(v) = p + Len(s) + Len(t) /\ p + Len(s) + n = p + Len(u)
  BY ONLY <1>6, <1>7, Zenon
<1> QED
  BY <1>4, <1>5, <1>8, Zenon DEF Follows

\* Dropping n bytes of the buffer moves the place by n.
LEMMA FollowsDrop ==
  ASSUME NEW stream \in Seq(Bytes), NEW s \in Seq(Bytes), NEW t \in Seq(Bytes),
         NEW p \in Nat, NEW n \in 0 .. Len(s), NEW all,
         Follows(s, t, all, stream, p),
         NEW u, u = SubSeq(s, n + 1, Len(s))
  PROVE  Follows(u, t, all, stream, p + n)
<1>1. Lies(s, stream, p) /\ Lies(t, stream, p + Len(s))
  BY DEF Follows
<1>2. Len(s) \in Nat /\ Len(t) \in Nat /\ Len(stream) \in Nat /\ n \in Nat /\ n <= Len(s)
  OBVIOUS
<1>3. Drops(u, s, n)
  BY RecvSplits
<1>4. Lies(u, stream, p + n)
  BY <1>1, <1>2, <1>3, LiesTail, Zenon
<1>5. Len(u) = Len(s) - n
  BY <1>3, Zenon DEF Drops
<1>6. p + n + (Len(s) - n) = p + Len(s)
  BY ONLY <1>2, p \in Nat
<1>7. p + n + Len(u) = p + Len(s)
  BY ONLY <1>5, <1>6, Zenon
<1> QED
  BY <1>1, <1>4, <1>7, Zenon DEF Follows

\* The end of the line after a size has come, at the latest with the last byte.
LEMMA LineEndComes ==
  ASSUME NEW stream \in Seq(Bytes), NEW d \in Seq(Bytes), NEW c, Len(c) \in Nat,
         NEW p \in Nat, FrameAt(stream, p, c), Lies(d, stream, p),
         p + Len(d) = Len(stream)
  PROVE  FoundEnd(d) # 0
<1>1. Len(d) \in Nat /\ Len(stream) \in Nat
  OBVIOUS
<1>2. p + Len(c) + 5 <= Len(stream) /\ stream[p + 2] = CR /\ stream[p + 3] = LF
  BY DEF FrameAt
<1>3. 2 \in 1 .. Len(d) /\ 3 \in 1 .. Len(d) /\ 2 + 1 = 3 /\ 3 <= Len(d)
  BY <1>1, <1>2
<1>4. d[2] = CR /\ d[3] = LF
  BY <1>2, <1>3, Zenon DEF Lies
<1>5. LineEnd(d, 2)
  BY <1>3, <1>4, Zenon DEF LineEnd
<1> QED
  BY <1>3, <1>5, FoundEndIs

\* A buffer that has all of the stream is the stream.
LEMMA LiesWhole ==
  ASSUME NEW S, NEW s \in Seq(S), NEW stream \in Seq(S), Lies(s, stream, 0),
         Len(s) = Len(stream)
  PROVE  s = stream
<1>1. ASSUME NEW i \in 1 .. Len(s) PROVE s[i] = stream[i]
  <2>1. s[i] = stream[0 + i]
    BY DEF Lies
  <2>2. 0 + i = i
    OBVIOUS
  <2> QED
    BY <2>1, <2>2
<1> QED
  BY <1>1, SameSeq

\* Behind its head, a stream is its content.
LEMMA LiesAfter ==
  ASSUME NEW head \in Seq(Bytes), NEW content \in Seq(Bytes), NEW s \in Seq(Bytes),
         NEW p \in Nat, Lies(s, head \o content, Len(head) + p)
  PROVE  Lies(s, content, p)
<1> DEFINE stream == head \o content
           h == Len(head)
<1>1. /\ h \in Nat /\ Len(content) \in Nat /\ Len(s) \in Nat
      /\ Len(stream) = h + Len(content)
      /\ \A i \in 1 .. Len(content) : stream[h + i] = content[i]
  OBVIOUS
<1>2. h + p + Len(s) <= Len(stream) /\ \A i \in 1 .. Len(s) : s[i] = stream[h + p + i]
  BY DEF Lies
<1> HIDE DEF stream, h
<1>3. p + Len(s) <= Len(content)
  BY <1>1, <1>2
<1>4. ASSUME NEW i \in 1 .. Len(s) PROVE s[i] = content[p + i]
  <2>1. p + i \in 1 .. Len(content) /\ h + p + i = h + (p + i)
    BY <1>1, <1>3
  <2> QED
    BY <1>1, <1>2, <2>1
<1> QED
  BY <1>3, <1>4 DEF Lies

\* The same, said of the content behind a head.
LEMMA FollowsAfter ==
  ASSUME NEW head \in Seq(Bytes), NEW content \in Seq(Bytes), NEW s \in Seq(Bytes),
         NEW t \in Seq(Bytes), NEW all, Follows(s, t, all, head \o content, Len(head))
  PROVE  Follows(s, t, all, content, 0)
<1>1. /\ Len(head) \in Nat /\ Len(content) \in Nat /\ Len(s) \in Nat /\ Len(t) \in Nat
      /\ Len(head \o content) = Len(head) + Len(content)
      /\ Len(head) + 0 = Len(head) /\ 0 + Len(s) = Len(s) /\ 0 \in Nat
  OBVIOUS
<1>2. Lies(s, head \o content, Len(head) + 0) /\ Lies(t, head \o content, Len(head) + Len(s))
  BY <1>1 DEF Follows
<1>3. Lies(s, content, 0) /\ Lies(t, content, 0 + Len(s))
  BY <1>1, <1>2, LiesAfter
<1>4. all <=> Len(head) + Len(s) + Len(t) = Len(head) + Len(content)
  BY <1>1 DEF Follows
<1> DEFINE h == Len(head)
           n == Len(content)
           k == Len(s)
           m == Len(t)
<1>5. (h + k + m = h + n) <=> (0 + k + m = n)
  <2>1. h \in Nat /\ n \in Nat /\ k \in Nat /\ m \in Nat
    BY <1>1
  <2> HIDE DEF h, n, k, m
  <2> QED
    BY ONLY <2>1
<1> QED
  BY <1>3, <1>4, <1>5, Zenon DEF Follows
=============================================================================
