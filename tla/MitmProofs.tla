----------------------------- MODULE MitmProofs -----------------------------
(***************************************************************************)
(* Proofs about the Python proxy.                                          *)
(*                                                                         *)
(* CertCache and MitmServer, for any number of threads, hosts and file     *)
(* numbers and any size of the cache: the cache is above its size only by  *)
(* what is still to be evicted; the threads use it as CertCache says, so   *)
(* that this holds of the whole proxy; threads with one number are a whole *)
(* round of numbers apart; and the file a request ends with is its own.    *)
(*                                                                         *)
(* MitmStream, for all headers, bodies, segments and sizes of buffers: the *)
(* header is told from the body unless a segment ends inside the empty     *)
(* line, the body is stored and passed on whole, and nothing waits for     *)
(* what an honest server has sent already.                                 *)
(***************************************************************************)
EXTENDS MitmServer, MitmStream, SequenceLemmas, FiniteSetTheorems

-----------------------------------------------------------------------------
(* The cache.                                                               *)

\* Each thread about to evict saw one entry too many; at most all threads but
\* those still about to evict have done so since.
Surplus == Evicting # {} =>
             Len(cache) + Cardinality(Threads) >= maxSize + 1 + Cardinality(Evicting)

\* Where all hosts fit, the cache is never seen too large.
KeptIfRoom == Evicting # {} => Cardinality(Hosts) > maxSize

CacheInv == CacheTypeOK /\ Bounded /\ Surplus /\ KeptIfRoom

\* The two sets of threads are finite, so that they can be counted.
LEMMA Counted ==
  ASSUME NEW S \in SUBSET Threads
  PROVE  IsFiniteSet(S) /\ Cardinality(S) \in Nat /\ Cardinality(S) <= Cardinality(Threads)
  BY CacheAssumption, FS_Subset, FS_CardinalityType

\* An entry for each host at most: the cache is not longer than there are hosts.
LEMMA AtMostHosts ==
  ASSUME CacheTypeOK
  PROVE  Len(cache) <= Cardinality(Hosts)
<1>1. cache \in Injection(1 .. Len(cache), Hosts)
  BY DEF CacheTypeOK, Injection
<1>2. Cardinality(1 .. Len(cache)) <= Cardinality(Hosts)
  BY <1>1, CacheAssumption, FS_Injection
<1>3. Len(cache) \in Nat
  BY DEF CacheTypeOK
<1> QED
  BY <1>2, <1>3, FS_Interval

LEMMA CacheInitInv == CacheInit => CacheInv
<1> SUFFICES ASSUME CacheInit PROVE CacheInv
  OBVIOUS
<1>1. Trimming = {} /\ Evicting = {}
  BY DEF CacheInit, Trimming, Evicting
<1>2. CacheTypeOK
  BY CacheAssumption DEF CacheInit, CacheTypeOK, IsInjective
<1>3. Bounded
  <2>1. maxSize \in Nat /\ Len(cache) = 0
    BY CacheAssumption DEF CacheInit
  <2> QED
    BY <1>1, <2>1, FS_EmptySet DEF Bounded
<1> QED
  BY <1>1, <1>2, <1>3 DEF CacheInv, Surplus, KeptIfRoom

LEMMA CacheTypeStep == CacheTypeOK /\ [CacheNext]_cacheVars => CacheTypeOK'
<1> SUFFICES ASSUME CacheTypeOK, [CacheNext]_cacheVars PROVE CacheTypeOK'
  OBVIOUS
<1> USE DEF CacheTypeOK
<1>1. ASSUME NEW t \in Threads, NEW h \in Hosts, Ask(t, h) PROVE CacheTypeOK'
  BY <1>1 DEF Ask
<1>2. ASSUME NEW t \in Threads, Hit(t) \/ Miss(t) PROVE CacheTypeOK'
  BY <1>2 DEF Hit, Miss, Move
<1>3. ASSUME NEW t \in Threads, Store(t) PROVE CacheTypeOK'
  <2>1. CASE Cached(asked[t])
    BY <1>3, <2>1 DEF Store, Move
  <2>2. CASE ~Cached(asked[t])
    <3>1. cache' = Append(cache, asked[t]) /\ asked[t] \in Hosts
      BY <1>3, <2>2 DEF Store, Move
    <3>2. \A i \in 1 .. Len(cache) : cache[i] # asked[t]
      BY <2>2 DEF Cached, Range
    <3>3. cache' \in Seq(Hosts) /\ IsInjective(cache')
      BY <3>1, <3>2 DEF IsInjective
    <3> QED
      BY <1>3, <3>3 DEF Store, Move
  <2> QED
    BY <2>1, <2>2
<1>4. ASSUME NEW t \in Threads, Trim(t) PROVE CacheTypeOK'
  BY <1>4 DEF Trim, Move
<1>5. ASSUME NEW t \in Threads, Evict(t) PROVE CacheTypeOK'
  <2>1. cache' \in Seq(Hosts) /\ IsInjective(cache')
    <3>1. cache \in Seq(Hosts) /\ cache # <<>> /\ cache' = Tail(cache)
      BY <1>5 DEF Evict
    <3>2. /\ cache' \in Seq(Hosts) /\ Len(cache') = Len(cache) - 1
          /\ \A i \in 1 .. Len(cache') : cache'[i] = cache[i + 1] /\ i + 1 \in 1 .. Len(cache)
      BY <3>1
    <3> QED
      BY <3>1, <3>2 DEF IsInjective
  <2> QED
    BY <1>5, <2>1 DEF Evict, Move
<1>6. ASSUME NEW t \in Threads, EvictNothing(t) PROVE CacheTypeOK'
  BY <1>6 DEF EvictNothing, Move
<1>7. CASE CacheRestart
  BY <1>7 DEF CacheRestart, IsInjective
<1>8. CASE UNCHANGED cacheVars
  BY <1>8 DEF cacheVars
<1> QED
  BY <1>1, <1>2, <1>3, <1>4, <1>5, <1>6, <1>7, <1>8 DEF CacheNext, Serve

LEMMA CountStep == CacheInv /\ [CacheNext]_cacheVars => (Bounded /\ Surplus /\ KeptIfRoom)'
<1> SUFFICES ASSUME CacheInv, [CacheNext]_cacheVars PROVE (Bounded /\ Surplus /\ KeptIfRoom)'
  OBVIOUS
<1> DEFINE T == Trimming
           E == Evicting
           N == Cardinality(Threads)
<1>1. /\ maxSize \in Nat /\ maxSize' = maxSize
      /\ Len(cache) \in Nat /\ N \in Nat
  <2>1. UNCHANGED maxSize
    BY DEF CacheNext, cacheVars, Ask, Serve, Hit, Miss, Store, Trim, Evict,
           EvictNothing, CacheRestart, Move
  <2> QED
    BY <2>1, CacheAssumption, FS_CardinalityType DEF CacheInv, CacheTypeOK
<1>2. /\ Cardinality(T) \in Nat /\ Cardinality(E) \in Nat /\ Cardinality(E) <= N
      /\ IsFiniteSet(T) /\ IsFiniteSet(E)
  BY Counted DEF Trimming, Evicting
<1>3. at \in [Threads -> {"out", "get", "make", "trim", "evict"}]
  BY DEF CacheInv, CacheTypeOK
<1> USE DEF CacheInv, Bounded, Surplus, KeptIfRoom
<1>4. ASSUME NEW t \in Threads, NEW h \in Hosts, Ask(t, h)
      PROVE  (Bounded /\ Surplus /\ KeptIfRoom)'
  <2>1. T' = T /\ E' = E /\ cache' = cache
    BY <1>3, <1>4 DEF Ask, Trimming, Evicting
  <2> QED
    BY <1>1, <2>1
<1>5. ASSUME NEW t \in Threads, Hit(t) \/ Miss(t)
      PROVE  (Bounded /\ Surplus /\ KeptIfRoom)'
  <2>1. /\ at[t] = "get" /\ cache' = cache
        /\ \E place \in {"out", "make"} : at' = [at EXCEPT ![t] = place]
    BY <1>5 DEF Hit, Miss, Move
  <2>2. \A u \in Threads : /\ (at'[u] = "trim") <=> (at[u] = "trim")
                           /\ (at'[u] = "evict") <=> (at[u] = "evict")
    BY <1>3, <2>1
  <2>3. T' = T /\ E' = E
    BY <2>2, Zenon DEF Trimming, Evicting
  <2> QED
    BY <1>1, <2>1, <2>3
<1>6. ASSUME NEW t \in Threads, Store(t)
      PROVE  (Bounded /\ Surplus /\ KeptIfRoom)'
  <2>1. T' = T \cup {t} /\ t \notin T /\ E' = E
    BY <1>3, <1>6 DEF Store, Move, Trimming, Evicting
  <2>2. Len(cache') \in {Len(cache), Len(cache) + 1}
    BY <1>6 DEF Store, Cached, CacheTypeOK
  <2>3. Cardinality(T') = Cardinality(T) + 1
    BY <1>2, <2>1, FS_AddElement
  <2>4. Evicting' = Evicting /\ Cardinality(Trimming') = Cardinality(Trimming) + 1
    BY <2>1, <2>3
  <2> HIDE DEF T, E
  <2>5. Bounded'
    BY <1>1, <1>2, <2>2, <2>4 DEF T, E
  <2>6. Surplus'
    BY <1>1, <1>2, <2>2, <2>4 DEF T, E
  <2>7. KeptIfRoom'
    BY <1>1, <2>4
  <2> QED
    BY <2>5, <2>6, <2>7
<1>7. ASSUME NEW t \in Threads, Trim(t)
      PROVE  (Bounded /\ Surplus /\ KeptIfRoom)'
  <2>1. T' = T \ {t} /\ t \in T /\ cache' = cache
    BY <1>3, <1>7 DEF Trim, Move, Trimming
  <2>2. Cardinality(T') = Cardinality(T) - 1
    BY <1>2, <2>1, FS_RemoveElement
  <2>3. CASE TooLarge
    <3>1. E' = E \cup {t} /\ t \notin E
      BY <1>3, <1>7, <2>3 DEF Trim, Move, Evicting
    <3>2. Cardinality(E') = Cardinality(E) + 1 /\ Cardinality(E') <= N
      <4>1. Cardinality(E') = Cardinality(E) + 1
        BY <1>2, <3>1, FS_AddElement
      <4>2. E' \in SUBSET Threads
        BY DEF Evicting
      <4> QED
        BY <4>1, <4>2, Counted
    <3>3. Len(cache) > maxSize /\ Len(cache) <= Cardinality(Hosts)
      BY <2>3, AtMostHosts DEF TooLarge
    <3>4. Cardinality(Hosts) \in Nat
      BY CacheAssumption, FS_CardinalityType
    <3>5. Bounded'
      BY <1>1, <1>2, <2>1, <2>2, <3>1, <3>2
    <3>6. Surplus'
      BY <1>1, <1>2, <2>1, <3>2, <3>3
    <3>7. KeptIfRoom'
      BY <1>1, <3>3, <3>4
    <3> QED
      BY <3>5, <3>6, <3>7
  <2>4. CASE ~TooLarge
    <3>1. E' = E
      BY <1>3, <1>7, <2>4 DEF Trim, Move, Evicting
    <3>2. Cardinality(T') \in Nat
      BY <1>2, <2>1, FS_RemoveElement, FS_CardinalityType
    <3>3. Bounded'
      BY <1>1, <1>2, <2>1, <2>4, <3>1, <3>2 DEF TooLarge
    <3>4. Surplus' /\ KeptIfRoom'
      BY <1>1, <2>1, <3>1
    <3> QED
      BY <3>3, <3>4
  <2> QED
    BY <2>3, <2>4
<1>8. ASSUME NEW t \in Threads, Evict(t) \/ EvictNothing(t)
      PROVE  (Bounded /\ Surplus /\ KeptIfRoom)'
  <2>1. E' = E \ {t} /\ t \in E /\ T' = T
    BY <1>3, <1>8 DEF Evict, EvictNothing, Move, Trimming, Evicting
  <2>2. Cardinality(E') = Cardinality(E) - 1
    BY <1>2, <2>1, FS_RemoveElement
  <2>3. \/ Len(cache') = Len(cache) - 1
        \/ Len(cache) = 0 /\ Len(cache') = 0
    BY <1>8 DEF Evict, EvictNothing, CacheTypeOK
  <2>4. Bounded'
    <3>1. Cardinality(E') \in Nat
      BY <1>2, <2>1, FS_RemoveElement, FS_CardinalityType
    <3> QED
      BY <1>1, <1>2, <2>1, <2>2, <2>3, <3>1
  <2>5. Surplus'
    BY <1>1, <1>2, <2>1, <2>2, <2>3
  <2>6. KeptIfRoom'
    BY <1>1, <2>1
  <2> QED
    BY <2>4, <2>5, <2>6
<1>9. CASE CacheRestart
  <2>1. T' = {} /\ E' = {} /\ Len(cache') = 0
    BY <1>9 DEF CacheRestart, Trimming, Evicting
  <2> QED
    BY <1>1, <2>1, FS_EmptySet
<1>10. CASE UNCHANGED cacheVars
  <2>1. T' = T /\ E' = E /\ cache' = cache
    BY <1>10 DEF cacheVars, Trimming, Evicting
  <2> QED
    BY <1>1, <2>1
<1> QED
  BY <1>4, <1>5, <1>6, <1>7, <1>8, <1>9, <1>10 DEF CacheNext, Serve

LEMMA AlwaysCacheInv == CacheSpec => []CacheInv
<1>1. CacheInv /\ [CacheNext]_cacheVars => CacheInv'
  BY CacheTypeStep, CountStep DEF CacheInv
<1> QED
  BY CacheInitInv, <1>1, PTL DEF CacheSpec

\* Whatever the interleaving of lookups, stores and evictions, the cache is
\* above max_size only by threads that are still inside __setitem__.
THEOREM CacheBounded == CacheSpec => []Bounded
<1>1. CacheInv => Bounded
  BY DEF CacheInv
<1> QED
  BY AlwaysCacheInv, <1>1, PTL

\* A cache with room for all hosts never evicts one, and with at most
\* max_size + 1 threads no popitem meets an empty cache.
THEOREM EvictionsRight == CacheSpec => []EvictsRight
<1>1. CacheInv => EvictsRight
  <2> SUFFICES ASSUME CacheInv, Evicting # {}, Cardinality(Threads) <= maxSize + 1
               PROVE  cache # <<>>
    BY DEF EvictsRight, CacheInv, KeptIfRoom
  <2>1. Cardinality(Evicting) \in Nat /\ Cardinality(Evicting) # 0
    BY Counted, FS_EmptySet DEF Evicting
  <2>2. maxSize \in Nat /\ Len(cache) \in Nat /\ Cardinality(Threads) \in Nat
    BY CacheAssumption, FS_CardinalityType DEF CacheInv, CacheTypeOK
  <2>3. Len(cache) # 0
    BY <2>1, <2>2 DEF CacheInv, Surplus
  <2> QED
    BY <2>3
<1> QED
  BY AlwaysCacheInv, <1>1, PTL

-----------------------------------------------------------------------------
(* The threads of the proxy.                                                *)

\* The threads of the proxy use the cache as CertCache says.
LEMMA ImplementsCache == Spec => CacheSpec
<1>1. Init => CacheInit
  BY DEF Init
<1>2. [Next]_vars => [CacheNext]_cacheVars
  BY DEF Next, vars, Restart, Accept, Forward, Intercept, LoadCert, LoadCertFails,
         Acquire, Number, Count, OpenFile, StorePart, StoreBody, Unzip, Unbrotli, Finish, Spin,
         FilesOnly, CacheNext
<1> QED
  BY <1>1, <1>2, PTL DEF Spec, CacheSpec

\* With requests running through the whole proxy the cache is within its size
\* but for threads still inside __setitem__.
THEOREM ServerCacheBounded == Spec => []Bounded
  BY ImplementsCache, CacheBounded, PTL

\* With requests running through the whole proxy a host is evicted only if not
\* all fit, and no popitem meets an empty cache.
THEOREM ServerEvictsRight == Spec => []EvictsRight
  BY ImplementsCache, EvictionsRight, PTL

-----------------------------------------------------------------------------
\* How many numbers had been drawn when this process started.
Drawn == IF \E t \in Threads : pc[t] = "count" THEN fileNum + 1 ELSE fileNum
Base == draws - Drawn

\* The part of the types that counting needs.
CountTypes == /\ pc \in [Threads -> Places]
              /\ fileNum \in Nat /\ draws \in Nat
              /\ num \in [Threads -> Nat]
              /\ id \in [Threads -> Nat]

\* One thread at most is between acquire and release.
LockHeld == \A t \in Threads : pc[t] \in {"number", "count"} => lock = {t}

\* The live threads have different draws, of this process, and their numbers
\* are those of their draws.
Numbered == /\ Base \in Nat
            /\ \A t \in Threads : id[t] <= draws
            /\ \A t \in Threads : id[t] # 0 =>
                 /\ id[t] > Base
                 /\ num[t] = ((id[t] - 1 - Base) % MaxFileName) + 1
            /\ \A t, u \in Threads : t # u /\ id[t] = id[u] => id[t] = 0

NInv == CountTypes /\ LockHeld /\ Numbered

\* A step that neither takes nor gives back the lock: it draws nothing, and
\* changes a draw only by ending its thread.
Apart == /\ UNCHANGED <<lock, fileNum, draws>>
         /\ CountTypes'
         /\ \A t \in Threads : /\ pc'[t] = "number" <=> pc[t] = "number"
                               /\ pc'[t] = "count" <=> pc[t] = "count"
                               /\ id'[t] = 0 \/ (id'[t] = id[t] /\ num'[t] = num[t])

LEMMA ApartKeeps == NInv /\ Apart => NInv'
<1> SUFFICES ASSUME NInv, Apart PROVE NInv'
  OBVIOUS
<1>1. LockHeld'
  BY DEF NInv, LockHeld, Apart
<1>2. Base' = Base
  BY DEF Apart, Base, Drawn
<1>3. Numbered'
  BY <1>2 DEF NInv, Numbered, Apart, CountTypes
<1> QED
  BY <1>1, <1>3 DEF NInv, Apart

LEMMA NInvInit == Init => NInv
<1> SUFFICES ASSUME Init PROVE NInv
  OBVIOUS
<1>1. CountTypes
  BY DEF Init, CountTypes, Places
<1>2. Base = 0
  <2>1. ~(\E t \in Threads : pc[t] = "count")
    BY DEF Init
  <2>2. Drawn = fileNum
    BY <2>1, Zenon DEF Drawn
  <2> QED
    BY <2>2 DEF Init, Base
<1> QED
  BY <1>1, <1>2 DEF Init, NInv, LockHeld, Numbered

LEMMA NInvStep == NInv /\ [Next]_vars => NInv'
<1> SUFFICES ASSUME NInv, [Next]_vars PROVE NInv'
  OBVIOUS
<1> USE ServerAssumption
<1>1. CASE Restart
  <2>1. Base' = draws
    BY <1>1 DEF Restart, RestartServer, Base, Drawn, NInv, CountTypes
  <2> QED
    BY <1>1, <2>1 DEF Restart, RestartServer, NInv, CountTypes, LockHeld, Numbered, Places
<1>2. ASSUME NEW t \in Threads, Acquire(t) PROVE NInv'
  <2>1. \A u \in Threads : pc[u] \notin {"number", "count"}
    BY <1>2 DEF Acquire, NInv, LockHeld
  <2>2. LockHeld' /\ CountTypes'
    BY <1>2, <2>1 DEF Acquire, Goto, NInv, LockHeld, CountTypes, Places
  <2>3. Base' = Base
    BY <1>2, <2>1 DEF Acquire, Goto, Base, Drawn, NInv, CountTypes
  <2> QED
    BY <1>2, <2>2, <2>3 DEF Acquire, NInv, Numbered
<1>3. ASSUME NEW t \in Threads, Number(t) PROVE NInv'
  <2>1. \A u \in Threads : pc[u] # "count"
    BY <1>3 DEF Number, NInv, LockHeld
  <2>2. fileNum = draws - Base /\ Base' = Base /\ Base \in Nat
    BY <1>3, <2>1 DEF Number, Goto, Base, Drawn, NInv, CountTypes, Numbered
  <2>3. LockHeld' /\ draws' = draws + 1
    BY <1>3 DEF Number, Goto, NInv, LockHeld, CountTypes
  <2>4. FileNumber \in Nat /\ FileNumber = ((draws - Base) % MaxFileName) + 1
    BY <2>2 DEF FileNumber, NInv, CountTypes
  <2>5. CountTypes'
    BY <1>3, <2>4 DEF Number, Goto, NInv, CountTypes, Places
  <2>6. /\ id' = [id EXCEPT ![t] = draws + 1]
        /\ num' = [num EXCEPT ![t] = FileNumber]
    BY <1>3 DEF Number
  <2>7. Numbered'
    <3> USE DEF NInv, CountTypes, Numbered
    <3>1. \A u \in Threads : id'[u] <= draws'
      BY <2>3, <2>6
    <3>2. id'[t] = draws + 1 /\ num'[t] = FileNumber /\ id'[t] - 1 - Base' = draws - Base
      BY <2>2, <2>6
    <3>3. id'[t] > Base'
      BY <2>2, <3>2
    <3>4. \A u \in Threads \ {t} : id'[u] = id[u] /\ num'[u] = num[u]
      BY <2>6
    <3>5. \A u \in Threads : id'[u] # 0 =>
            id'[u] > Base' /\ num'[u] = ((id'[u] - 1 - Base') % MaxFileName) + 1
      BY <2>2, <2>4, <3>2, <3>3, <3>4
    <3>6. \A u, v \in Threads : u # v /\ id'[u] = id'[v] => id'[u] = 0
      BY <3>2, <3>4
    <3> QED
      BY <2>2, <3>1, <3>5, <3>6
  <2> QED
    BY <2>3, <2>5, <2>7 DEF NInv
<1>4. ASSUME NEW t \in Threads, Count(t) PROVE NInv'
  <2>1. \A u \in Threads \ {t} : pc[u] \notin {"number", "count"}
    BY <1>4 DEF Count, NInv, LockHeld
  <2>2. LockHeld' /\ CountTypes'
    BY <1>4, <2>1 DEF Count, Goto, NInv, LockHeld, CountTypes, Places
  <2>3. Base' = Base
    BY <1>4, <2>1 DEF Count, Goto, Base, Drawn, NInv, CountTypes
  <2> QED
    BY <1>4, <2>2, <2>3 DEF Count, NInv, Numbered
<1>5. ASSUME NEW t \in Threads,
             \/ Accept(t) \/ Forward(t) \/ Intercept(t) \/ LoadCert(t) \/ Spin(t)
             \/ LoadCertFails(t) \/ Finish(t)
      PROVE  NInv'
  <2>1. Apart
    BY <1>5 DEF Accept, Forward, Intercept, LoadCert, Spin, LoadCertFails, Finish,
                Step, End, Goto, Apart, NInv, CountTypes, Places
  <2> QED
    BY <2>1, ApartKeeps
<1>6. ASSUME NEW t \in Threads, OpenFile(t) \/ StorePart(t) \/ StoreBody(t) \/ Unzip(t) \/ Unbrotli(t)
      PROVE  NInv'
  <2>1. Apart
    BY <1>6 DEF OpenFile, StorePart, StoreBody, Unzip, Unbrotli, FilesOnly, Goto, Apart,
                NInv, CountTypes, Places
  <2> QED
    BY <2>1, ApartKeeps
<1>7. CASE UNCHANGED vars
  <2>1. Apart
    BY <1>7 DEF vars, serverVars, Apart, NInv, CountTypes
  <2> QED
    BY <2>1, ApartKeeps
<1> QED
  BY <1>1, <1>2, <1>3, <1>4, <1>5, <1>6, <1>7 DEF Next

\* Equal remainders of different numbers: a multiple of the divisor apart.
LEMMA SameRemainder ==
  ASSUME NEW n \in Nat \ {0}, NEW a \in Nat, NEW b \in Nat, a < b, a % n = b % n
  PROVE  b - a >= n
<1>1. /\ a = n * (a \div n) + (a % n)
      /\ b = n * (b \div n) + (b % n)
      /\ a \div n \in Int /\ b \div n \in Int
  OBVIOUS
<1>2. PICK k \in Int : b - a = n * k
  <2> DEFINE p == a \div n
             q == b \div n
             r == a % n
  <2>1. a = n * p + r /\ b = n * q + r /\ p \in Int /\ q \in Int /\ r \in Int
    BY <1>1
  <2> HIDE DEF p, q, r
  <2>2. b - a = n * (q - p) /\ q - p \in Int
    BY <2>1
  <2> QED
    BY <2>2
<1>3. k >= 1
  BY <1>2
<1> QED
  BY <1>2, <1>3

\* Two threads have one number only if MAX_FILE_NAME draws or more lie between.
THEOREM NumbersFarApart == Spec => []NumbersApart
<1>1. NInv => NumbersApart
  <2> SUFFICES ASSUME NInv, NEW t \in Threads, NEW u \in Threads,
                      id[t] # 0, id[u] # 0, num[t] = num[u], id[t] < id[u]
               PROVE  id[u] - id[t] >= MaxFileName
    <3>1. NInv => \A v \in Threads : id[v] \in Nat
      BY DEF NInv, CountTypes
    <3>2. NInv => \A v, w \in Threads : v # w /\ id[v] # 0 => id[v] # id[w]
      BY DEF NInv, Numbered
    <3> QED
      BY <3>1, <3>2 DEF NumbersApart, Live
  <2> DEFINE a == id[t] - 1 - Base
             b == id[u] - 1 - Base
  <2>1. a \in Nat /\ b \in Nat /\ a < b /\ b - a = id[u] - id[t]
    BY DEF NInv, CountTypes, Numbered
  <2>2. a % MaxFileName = b % MaxFileName
    <3>1. num[t] = (a % MaxFileName) + 1 /\ num[u] = (b % MaxFileName) + 1
      BY DEF NInv, Numbered
    <3> HIDE DEF a, b
    <3> DEFINE r == a % MaxFileName
               s == b % MaxFileName
    <3>2. r \in Int /\ s \in Int
      BY <2>1, ServerAssumption
    <3>3. r + 1 = s + 1
      BY <3>1
    <3> HIDE DEF r, s
    <3>4. r = s
      BY <3>2, <3>3
    <3> QED
      BY <3>4 DEF r, s
  <2> HIDE DEF a, b
  <2> QED
    BY <2>1, <2>2, ServerAssumption, SameRemainder
<1> QED
  BY NInvInit, NInvStep, <1>1, PTL DEF Spec

-----------------------------------------------------------------------------
\* The types but those of the cache.
ServerTypes == /\ fileNum \in 0 .. MaxDraws /\ draws \in 0 .. MaxDraws
               /\ lock \subseteq Threads
               /\ num \in [Threads -> Numbers]
               /\ enc \in [Threads -> Exts]
               /\ files \in [Numbers \X Exts -> {Absent} \cup SUBSET (1 .. MaxDraws)]
               /\ id \in [Threads -> 0 .. MaxDraws]
               /\ shared \subseteq 1 .. MaxDraws

\* A thread past acquire may draw.
Drawing == \A t \in Threads : pc[t] = "number" => draws < MaxDraws

\* A thread past its draw has a number, which its files are named by.
HasNumber == \A t \in Threads :
  pc[t] \in {"count", "answer", "store", "unpack", "noFile", "stored"} => id[t] # 0

TInv == NInv /\ ServerTypes /\ Drawing /\ HasNumber

LEMMA TInvInit == Init => TInv
<1> SUFFICES ASSUME Init PROVE TInv
  OBVIOUS
<1>1. ServerTypes /\ Drawing /\ HasNumber
  BY ServerAssumption DEF Init, ServerTypes, Drawing, HasNumber, Numbers, Exts
<1> QED
  BY <1>1, NInvInit DEF TInv

LEMMA NoLess ==
  ASSUME NEW a \in Nat, NEW b \in Nat, a - b \in Nat \/ a - (b + 1) \in Nat
  PROVE  b <= a
  OBVIOUS

LEMMA TInvStep == TInv /\ [Next]_vars => TInv'
<1> SUFFICES ASSUME TInv, [Next]_vars PROVE TInv'
  OBVIOUS
<1> USE ServerAssumption
<1>1. NInv'
  BY NInvStep DEF TInv
<1> SUFFICES (ServerTypes /\ Drawing /\ HasNumber)'
  BY <1>1 DEF TInv
<1>2. /\ pc \in [Threads -> Places] /\ LockHeld
      /\ fileNum' \in Nat /\ draws' \in Nat /\ (draws' <= MaxDraws => fileNum' <= MaxDraws)
  <2>1. fileNum' \in Nat /\ draws' \in Nat
    BY <1>1 DEF NInv, CountTypes
  <2>2. draws' - fileNum' \in Nat \/ draws' - (fileNum' + 1) \in Nat
    BY <1>1 DEF NInv, Numbered, Base, Drawn
  <2>3. fileNum' <= draws'
    BY <2>1, <2>2, NoLess
  <2>4. draws' <= MaxDraws => fileNum' <= MaxDraws
    BY <2>1, <2>3
  <2> QED
    BY <2>1, <2>4 DEF TInv, NInv, CountTypes
<1> USE DEF TInv, ServerTypes, Drawing, HasNumber
<1>3. CASE Restart
  BY <1>3 DEF Restart, RestartServer, Numbers, Exts
<1>4. ASSUME NEW t \in Threads, Acquire(t)
      PROVE  (ServerTypes /\ Drawing /\ HasNumber)'
  BY <1>2, <1>4 DEF Acquire, Goto
<1>5. ASSUME NEW t \in Threads, Number(t)
      PROVE  (ServerTypes /\ Drawing /\ HasNumber)'
  <2>1. draws' = draws + 1 /\ draws' \in 1 .. MaxDraws
    BY <1>5 DEF Number
  <2>2. FileNumber \in Numbers
    BY DEF FileNumber, Numbers
  <2>3. \A u \in Threads \ {t} : pc[u] # "number"
    BY <1>2, <1>5 DEF Number, LockHeld
  <2>4. shared' \subseteq 1 .. MaxDraws
    <3> DEFINE others == {u \in Threads \ {t} : Live(u) /\ num[u] = FileNumber}
    <3>1. shared' = shared \cup {id[u] : u \in others}
                       \cup (IF others = {} THEN {} ELSE {draws + 1})
      BY <1>5 DEF Number
    <3>2. \A u \in others : id[u] \in 1 .. MaxDraws
      BY DEF Live
    <3> HIDE DEF others
    <3> QED
      BY <2>1, <3>1, <3>2
  <2>5. Drawing' /\ HasNumber'
    BY <1>2, <1>5, <2>3 DEF Number, Goto
  <2>6. ServerTypes'
    BY <1>2, <1>5, <2>1, <2>2, <2>4 DEF Number
  <2> QED
    BY <2>5, <2>6
<1>6. ASSUME NEW t \in Threads, Count(t)
      PROVE  (ServerTypes /\ Drawing /\ HasNumber)'
  BY <1>2, <1>6 DEF Count, Goto
<1>7. ASSUME NEW t \in Threads,
             \/ Accept(t) \/ Forward(t) \/ Intercept(t) \/ LoadCert(t) \/ Spin(t)
             \/ LoadCertFails(t) \/ Finish(t)
      PROVE  (ServerTypes /\ Drawing /\ HasNumber)'
  <2>1. /\ UNCHANGED <<lock, fileNum, files, draws, shared>>
        /\ \/ /\ UNCHANGED <<num, enc, id>>
              /\ \E p \in {"request", "cert", "lock", "spin"} : pc' = [pc EXCEPT ![t] = p]
           \/ /\ num' = [num EXCEPT ![t] = 1] /\ enc' = [enc EXCEPT ![t] = "txt"]
              /\ id' = [id EXCEPT ![t] = 0] /\ pc' = [pc EXCEPT ![t] = "none"]
    BY <1>7 DEF Accept, Forward, Intercept, LoadCert, Spin, LoadCertFails, Finish,
                Step, End, Goto
  <2> QED
    BY <1>2, <2>1 DEF Numbers, Exts
<1>8. ASSUME NEW t \in Threads, OpenFile(t) \/ StorePart(t) \/ StoreBody(t) \/ Unzip(t) \/ Unbrotli(t)
      PROVE  (ServerTypes /\ Drawing /\ HasNumber)'
  <2>1. /\ UNCHANGED <<lock, fileNum, num, draws, id, shared>>
        /\ pc[t] \in {"answer", "store", "unpack"}
        /\ pc' = pc \/ \E p \in Places \ {"number"} : pc' = [pc EXCEPT ![t] = p]
    BY <1>8 DEF OpenFile, StorePart, StoreBody, Unzip, Unbrotli, FilesOnly, Goto, Places
  <2>2. Drawing' /\ HasNumber'
    BY <1>2, <2>1
  <2>3. enc' \in [Threads -> Exts]
    BY <1>8 DEF OpenFile, StorePart, StoreBody, Unzip, Unbrotli
  <2>4. \A e \in Exts : File(t, e) \in Numbers \X Exts
    BY DEF File
  <2>5. id[t] \in 1 .. MaxDraws
    BY <2>1
  <2>6. files' \in [Numbers \X Exts -> {Absent} \cup SUBSET (1 .. MaxDraws)]
    <3> USE DEF Has, Put
    <3>1. CASE OpenFile(t)
      BY <3>1, <2>4 DEF OpenFile
    <3>2. CASE StorePart(t) \/ StoreBody(t)
      BY <3>2, <2>4, <2>5 DEF StorePart, StoreBody
    <3>3. CASE Unzip(t)
      BY <3>3, <2>4 DEF Unzip, Exts
    <3>4. CASE Unbrotli(t)
      BY <3>4, <2>4 DEF Unbrotli, Exts
    <3> QED
      BY <1>8, <3>1, <3>2, <3>3, <3>4
  <2> QED
    BY <2>1, <2>2, <2>3, <2>6
<1>9. CASE UNCHANGED vars
  BY <1>9 DEF vars, serverVars
<1> QED
  BY <1>3, <1>4, <1>5, <1>6, <1>7, <1>8, <1>9 DEF Next

LEMMA AlwaysTInv == Spec => []TInv
  BY TInvInit, TInvStep, PTL DEF Spec

\* Type correctness of the Python proxy: file numbers stay within 1..MAX_FILE_NAME
\* and nothing is drawn beyond the bound.
THEOREM ServerTyped == Spec => []TypeOK
<1>1. TInv /\ CacheInv => TypeOK
  BY DEF TInv, NInv, CountTypes, ServerTypes, CacheInv, TypeOK
<1> QED
  BY AlwaysTInv, ImplementsCache, AlwaysCacheInv, <1>1, PTL

-----------------------------------------------------------------------------
\* Only draws made so far have written files.
FilesDrawn == \A f \in Numbers \X Exts : files[f] = Absent \/ files[f] \subseteq 1 .. draws

\* Threads with one number at the same time are all noted as sharing it.
Exclusive == \A t, u \in Threads :
  t # u /\ Live(t) /\ Live(u) /\ num[t] = num[u] => id[t] \in shared /\ id[u] \in shared

\* What a thread that shares its number with nobody finds in its files: nothing
\* of its own before it opens one, then what it wrote alone, in that one first.
Whole(t) == \/ Has(t, "txt") = {id[t]} /\ (enc[t] # "txt" => Has(t, enc[t]) = Absent)
            \/ enc[t] = "gzip" /\ Has(t, "txt") \subseteq {id[t]} /\ Has(t, "gzip") = {id[t]}
            \/ enc[t] = "txt.br" /\ id[t] \notin Has(t, "txt") /\ Has(t, "txt.br") = Absent
Own(t) == /\ \A f \in Numbers \X Exts : id[t] \in files[f] =>
               f[1] = num[t] /\ pc[t] \notin {"count", "answer"}
          /\ pc[t] = "store" => /\ Has(t, enc[t]) \subseteq {id[t]}
                                /\ \A e \in Exts \ {enc[t]} : id[t] \notin Has(t, e)
          /\ pc[t] = "unpack" => /\ enc[t] # "txt" /\ Has(t, enc[t]) = {id[t]}
                                 /\ id[t] \notin Has(t, "txt")
          /\ pc[t] = "stored" => Whole(t)
OwnFiles == \A t \in Threads : Live(t) /\ id[t] \notin shared => Own(t)

FInv == TInv /\ FilesDrawn /\ Exclusive /\ OwnFiles

LEMMA FInvInit == Init => FInv
<1> SUFFICES ASSUME Init PROVE FInv
  OBVIOUS
<1>1. TInv
  BY TInvInit
<1> QED
  BY <1>1 DEF Init, FInv, FilesDrawn, Exclusive, OwnFiles, Live

\* A step that leaves the files alone; a thread it moves ends, or does not come
\* to a place where its files matter.
Quiet == /\ UNCHANGED <<files, shared>> /\ draws' = draws
         /\ \A t \in Threads :
              \/ id'[t] = 0
              \/ /\ id'[t] = id[t] /\ num'[t] = num[t] /\ enc'[t] = enc[t]
                 /\ \/ pc'[t] = pc[t]
                    \/ pc'[t] \notin {"count", "answer", "store", "unpack", "stored"}
                    \/ pc[t] = "count" /\ pc'[t] = "answer"

LEMMA QuietKeeps == FInv /\ Quiet => (FilesDrawn /\ Exclusive /\ OwnFiles)'
<1> SUFFICES ASSUME FInv, Quiet PROVE (FilesDrawn /\ Exclusive /\ OwnFiles)'
  OBVIOUS
<1>1. FilesDrawn' /\ Exclusive'
  BY DEF FInv, Quiet, FilesDrawn, Exclusive, Live
<1>2. ASSUME NEW t \in Threads, Live(t)', id'[t] \notin shared' PROVE Own(t)'
  <2>1. /\ UNCHANGED <<files, shared>>
        /\ id'[t] = id[t] /\ num'[t] = num[t] /\ enc'[t] = enc[t]
        /\ \/ pc'[t] = pc[t]
           \/ pc'[t] \notin {"count", "answer", "store", "unpack", "stored"}
           \/ pc[t] = "count" /\ pc'[t] = "answer"
    BY <1>2 DEF Quiet, Live
  <2>2. Own(t)
    BY <1>2, <2>1 DEF FInv, OwnFiles, Live
  <2>3. \A e : Has(t, e)' = Has(t, e)
    BY <2>1 DEF Has, File
  <2> QED
    BY <2>1, <2>2, <2>3 DEF Own, Whole
<1> QED
  BY <1>1, <1>2 DEF OwnFiles

\* A step of one thread that writes to files of its number only, and only what
\* was in one of them or the thread's own draw.
Writes(t) == /\ UNCHANGED <<num, id, draws, shared>>
             /\ Live(t)
             /\ \A u \in Threads \ {t} : pc'[u] = pc[u] /\ enc'[u] = enc[u]
             /\ \A f \in Numbers \X Exts :
                  \/ files'[f] = files[f]
                  \/ /\ f[1] = num[t]
                     /\ \/ files'[f] = Absent
                        \/ \A d \in files'[f] :
                             d = id[t] \/ \E e \in Exts : Has(t, e) # Absent /\ d \in Has(t, e)

LEMMA WritesKeeps ==
  ASSUME FInv, NEW t \in Threads, Writes(t)
  PROVE  /\ FilesDrawn' /\ Exclusive'
         /\ \A u \in Threads \ {t} : Live(u)' /\ id'[u] \notin shared' => Own(u)'
<1>1. \A u \in Threads : id[u] \in Nat /\ id[u] <= draws /\ num[u] \in Numbers /\ draws \in Nat
  BY DEF FInv, TInv, NInv, CountTypes, Numbered, ServerTypes
<1>2. \A e \in Exts : File(t, e) \in Numbers \X Exts
  BY <1>1 DEF File
<1>3. FilesDrawn'
  BY <1>1, <1>2 DEF FInv, FilesDrawn, Writes, Has, Live, Absent
<1>4. Exclusive'
  BY DEF FInv, Exclusive, Writes, Live
<1>5. ASSUME NEW u \in Threads \ {t}, Live(u)', id'[u] \notin shared' PROVE Own(u)'
  <2>1. /\ UNCHANGED <<num, id, shared>> /\ Live(u) /\ pc'[u] = pc[u] /\ enc'[u] = enc[u]
        /\ id[u] \notin shared
    BY <1>5 DEF Writes, Live
  <2>2. Own(u)
    BY <2>1 DEF FInv, OwnFiles
  <2>3. num[u] # num[t] /\ id[u] # id[t] /\ id[u] # 0
    BY <2>1 DEF FInv, Exclusive, Writes, Live, TInv, NInv, Numbered
  <2>4. \A e \in Exts : Has(u, e)' = Has(u, e)
    BY <1>1, <2>1, <2>3 DEF Has, File, Writes
  <2>5. \A f \in Numbers \X Exts : id[u] \in files'[f] => id[u] \in files[f]
    <3> SUFFICES ASSUME NEW f \in Numbers \X Exts, id[u] \in files'[f], files'[f] # files[f]
                 PROVE  FALSE
      OBVIOUS
    <3>1. id[u] \notin Absent
      BY <1>1, <2>3 DEF Absent
    <3>2. PICK e \in Exts : id[u] \in Has(t, e)
      BY <2>3, <3>1 DEF Writes
    <3>3. File(t, e)[1] = num[u]
      BY <1>2, <2>2, <3>2 DEF Own, Has
    <3> QED
      BY <2>3, <3>3 DEF File
  <2>6. enc[u] \in Exts
    BY DEF FInv, TInv, ServerTypes
  <2> QED
    BY <2>1, <2>2, <2>4, <2>5, <2>6 DEF Own, Whole, Exts
<1> QED
  BY <1>3, <1>4, <1>5

LEMMA FInvStep == FInv /\ [Next]_vars => FInv'
<1> SUFFICES ASSUME FInv, [Next]_vars PROVE FInv'
  OBVIOUS
<1>1. TInv'
  BY TInvStep DEF FInv
<1> SUFFICES (FilesDrawn /\ Exclusive /\ OwnFiles)'
  BY <1>1 DEF FInv
<1>2. /\ pc \in [Threads -> Places] /\ num \in [Threads -> Numbers]
      /\ enc \in [Threads -> Exts] /\ id \in [Threads -> Nat] /\ draws \in Nat
      /\ files \in [Numbers \X Exts -> {Absent} \cup SUBSET (1 .. MaxDraws)]
      /\ shared \subseteq Nat
  BY DEF FInv, TInv, NInv, CountTypes, ServerTypes
<1>3. CASE Restart
  BY <1>3, QuietKeeps DEF Quiet, Restart, RestartServer
<1>4. ASSUME NEW t \in Threads, Acquire(t) \/ Count(t)
      PROVE  (FilesDrawn /\ Exclusive /\ OwnFiles)'
  BY <1>2, <1>4, QuietKeeps DEF Quiet, Acquire, Count, Goto
<1>5. ASSUME NEW t \in Threads, Number(t)
      PROVE  (FilesDrawn /\ Exclusive /\ OwnFiles)'
  <2> DEFINE others == {u \in Threads \ {t} : Live(u) /\ num[u] = FileNumber}
  <2>1. /\ UNCHANGED <<files, enc>>
        /\ draws' = draws + 1
        /\ num' = [num EXCEPT ![t] = FileNumber]
        /\ id' = [id EXCEPT ![t] = draws + 1]
        /\ pc' = [pc EXCEPT ![t] = "count"]
        /\ shared' = shared \cup {id[u] : u \in others}
                       \cup (IF others = {} THEN {} ELSE {draws + 1})
    BY <1>5 DEF Number, Goto
  <2>2. \A u \in Threads \ {t} : num[u] = FileNumber /\ Live(u) =>
          id[u] \in shared' /\ draws + 1 \in shared'
    BY <2>1
  <2>3. shared \subseteq shared'
    BY <2>1
  <2> HIDE DEF others
  <2>4. FilesDrawn'
    BY <1>2, <2>1 DEF FInv, FilesDrawn
  <2>5. Exclusive'
    BY <1>2, <2>1, <2>2, <2>3 DEF FInv, Exclusive, Live
  <2>6. \A f \in Numbers \X Exts : draws + 1 \notin files[f]
    BY <1>2 DEF FInv, FilesDrawn, Absent
  <2>7. Own(t)'
    BY <1>2, <2>1, <2>6 DEF Own
  <2>8. ASSUME NEW u \in Threads \ {t}, Live(u)', id'[u] \notin shared' PROVE Own(u)'
    <3>1. Own(u)
      BY <1>2, <2>1, <2>3, <2>8 DEF FInv, OwnFiles, Live
    <3>2. \A e : Has(u, e)' = Has(u, e)
      BY <1>2, <2>1 DEF Has, File
    <3> QED
      BY <1>2, <2>1, <3>1, <3>2 DEF Own, Whole
  <2> QED
    BY <2>4, <2>5, <2>7, <2>8 DEF OwnFiles
<1>6. ASSUME NEW t \in Threads,
             \/ Accept(t) \/ Forward(t) \/ Intercept(t) \/ LoadCert(t) \/ Spin(t)
             \/ LoadCertFails(t) \/ Finish(t)
      PROVE  (FilesDrawn /\ Exclusive /\ OwnFiles)'
  <2>1. /\ UNCHANGED <<files, draws, shared>>
        /\ \/ /\ UNCHANGED <<num, enc, id>>
              /\ \E p \in {"request", "cert", "lock", "spin"} : pc' = [pc EXCEPT ![t] = p]
           \/ /\ num' = [num EXCEPT ![t] = 1] /\ enc' = [enc EXCEPT ![t] = "txt"]
              /\ id' = [id EXCEPT ![t] = 0] /\ pc' = [pc EXCEPT ![t] = "none"]
    BY <1>6 DEF Accept, Forward, Intercept, LoadCert, Spin, LoadCertFails, Finish,
                Step, End, Goto
  <2> QED
    BY <1>2, <2>1, QuietKeeps DEF Quiet
<1>7. ASSUME NEW t \in Threads, OpenFile(t) \/ StorePart(t) \/ StoreBody(t) \/ Unzip(t) \/ Unbrotli(t)
      PROVE  (FilesDrawn /\ Exclusive /\ OwnFiles)'
  <2>1. /\ UNCHANGED <<num, id, draws, shared>>
        /\ pc[t] \in {"answer", "store", "unpack"}
        /\ \A u \in Threads \ {t} : pc'[u] = pc[u] /\ enc'[u] = enc[u]
        /\ enc' \in [Threads -> Exts]
    BY <1>2, <1>7 DEF OpenFile, StorePart, StoreBody, Unzip, Unbrotli, FilesOnly, Goto
  <2>2. Live(t)
    BY <2>1 DEF FInv, TInv, HasNumber, Live
  <2>3. \A e \in Exts : /\ File(t, e) \in Numbers \X Exts
                        /\ File(t, e)[1] = num[t] /\ File(t, e)[2] = e
                        /\ Has(t, e)' = files'[File(t, e)]
    BY <1>2, <2>1 DEF File, Has
  <2>4. \A f \in Numbers \X Exts, e \in Exts :
          f[1] = num[t] /\ f[2] = e => f = File(t, e)
    BY DEF File
  <2>5. Live(t)' /\ id'[t] \notin shared' => Own(t) /\ id[t] # 0
    BY <2>1, <2>2 DEF FInv, OwnFiles, Live
  <2>6. ASSUME OpenFile(t) PROVE Writes(t) /\ (Own(t) => Own(t)')
    <3>1. PICK e \in Exts : /\ files' = [files EXCEPT ![File(t, e)] = {}]
                            /\ enc' = [enc EXCEPT ![t] = e]
                            /\ pc[t] = "answer" /\ pc' = [pc EXCEPT ![t] = "store"]
      BY <2>6 DEF OpenFile, Put, Goto
    <3>2. Writes(t)
      BY <1>2, <2>1, <2>2, <2>3, <3>1 DEF Writes
    <3>3. ASSUME Own(t) PROVE Own(t)'
      <4>1. \A f \in Numbers \X Exts : id[t] \notin files[f]
        BY <3>1, <3>3 DEF Own
      <4>2. \A f \in Numbers \X Exts : id[t] \notin files'[f]
        BY <1>2, <3>1, <4>1
      <4>3. Has(t, e)' = {}
        BY <1>2, <2>3, <3>1
      <4> QED
        BY <1>2, <2>1, <2>3, <3>1, <4>2, <4>3 DEF Own
    <3> QED
      BY <3>2, <3>3
  <2>7. ASSUME StorePart(t) \/ StoreBody(t) PROVE Writes(t) /\ (Own(t) /\ id[t] # 0 => Own(t)')
    <3> DEFINE e == enc[t]
    <3>1. /\ e \in Exts /\ pc[t] = "store" /\ enc' = enc
          /\ \/ pc' = pc
             \/ pc' = [pc EXCEPT ![t] = IF e = "txt" THEN "stored" ELSE "unpack"]
          /\ IF Has(t, e) = Absent
               THEN files' = files
               ELSE files' = [files EXCEPT ![File(t, e)] = Has(t, e) \cup {id[t]}]
      BY <1>2, <2>7 DEF StorePart, StoreBody, Put, Goto
    <3>2. Writes(t)
      BY <1>2, <2>1, <2>2, <2>3, <3>1 DEF Writes
    <3>3. ASSUME Own(t), id[t] # 0 PROVE Own(t)'
      <4>1. /\ Has(t, e) \subseteq {id[t]}
            /\ \A x \in Exts \ {e} : id[t] \notin Has(t, x)
            /\ \A f \in Numbers \X Exts : id[t] \in files[f] => f[1] = num[t]
        BY <3>1, <3>3 DEF Own
      <4>2. files' = [files EXCEPT ![File(t, e)] = {id[t]}]
        <5>1. Has(t, e) # Absent /\ Has(t, e) \cup {id[t]} = {id[t]}
          BY <3>3, <4>1 DEF Absent
        <5> QED
          BY <3>1, <5>1
      <4>3. Has(t, e)' = {id[t]}
            /\ \A f \in Numbers \X Exts : id[t] \in files'[f] => f = File(t, e)
        <5>1. Has(t, e)' = {id[t]}
          BY <1>2, <2>3, <3>1, <4>2
        <5>2. ASSUME NEW f \in Numbers \X Exts, f # File(t, e), id[t] \in files[f] PROVE FALSE
          <6>1. f[1] = num[t] /\ f[2] \in Exts
            BY <4>1, <5>2
          <6>2. f = File(t, f[2])
            BY <2>4, <6>1
          <6> QED
            BY <4>1, <5>2, <6>1, <6>2 DEF Has
        <5> QED
          BY <1>2, <2>3, <3>1, <4>2, <5>1, <5>2
      <4>4. e # "txt" => id[t] \notin Has(t, "txt")'
        <5>1. "txt" \in Exts
          BY DEF Exts
        <5>2. e # "txt" => File(t, "txt") # File(t, e)
          BY <2>3, <3>1, <5>1
        <5> QED
          BY <2>3, <4>3, <5>1, <5>2
      <4> QED
        BY <1>2, <2>1, <2>3, <3>1, <4>3, <4>4 DEF Own, Whole
    <3> QED
      BY <3>2, <3>3
  <2>8. ASSUME Unzip(t) PROVE Writes(t) /\ (Own(t) => Own(t)')
    <3>1. /\ "gzip" \in Exts /\ "txt" \in Exts
          /\ pc[t] = "unpack" /\ enc[t] = "gzip" /\ enc' = enc /\ Has(t, "gzip") # Absent
          /\ pc' = [pc EXCEPT ![t] = "stored"]
          /\ \/ files' = [files EXCEPT ![File(t, "txt")] = Has(t, "gzip"),
                                       ![File(t, "gzip")] = Absent]
             \/ \E unpacked \in {{}, Has(t, "gzip")} :
                  files' = [files EXCEPT ![File(t, "txt")] = unpacked]
      BY <2>8 DEF Unzip, Put, Goto, Exts
    <3>2. Writes(t)
      BY <1>2, <2>1, <2>2, <2>3, <3>1 DEF Writes
    <3>3. ASSUME Own(t) PROVE Own(t)'
      <4>1. Has(t, "gzip") = {id[t]} /\ id[t] \notin Has(t, "txt")
        BY <3>1, <3>3 DEF Own
      <4>2. Whole(t)'
        <5>1. File(t, "txt") # File(t, "gzip")
          BY <2>3, <3>1
        <5>2. \/ Has(t, "txt")' = {id[t]} /\ Has(t, "gzip")' = Absent
              \/ Has(t, "txt")' \subseteq {id[t]} /\ Has(t, "gzip")' = {id[t]}
          BY <1>2, <2>3, <3>1, <4>1, <5>1 DEF Has
        <5> QED
          BY <2>1, <3>1, <5>2 DEF Whole
      <4>3. \A f \in Numbers \X Exts : id[t] \in files'[f] => f[1] = num[t]
        BY <1>2, <2>3, <3>1, <3>3 DEF Own
      <4> QED
        BY <1>2, <2>1, <3>1, <4>2, <4>3 DEF Own
    <3> QED
      BY <3>2, <3>3
  <2>9. ASSUME Unbrotli(t) PROVE Writes(t) /\ (Own(t) /\ id[t] # 0 => Own(t)')
    <3>1. /\ "txt.br" \in Exts /\ "txt" \in Exts
          /\ pc[t] = "unpack" /\ enc[t] = "txt.br" /\ enc' = enc
      BY <2>9 DEF Unbrotli, Exts
    <3>2. PICK txt : /\ \/ txt = Has(t, "txt")
                        \/ Has(t, "txt") = Absent /\ txt = Has(t, "txt.br")
                     /\ files' = [files EXCEPT ![File(t, "txt.br")] = Absent,
                                               ![File(t, "txt")] = txt]
                     /\ pc' = [pc EXCEPT ![t] = IF txt = Absent THEN "noFile" ELSE "stored"]
      BY <2>9 DEF Unbrotli, Goto
    <3>3. Writes(t)
      BY <1>2, <2>1, <2>2, <2>3, <3>1, <3>2 DEF Writes
    <3>4. ASSUME Own(t), id[t] # 0 PROVE Own(t)'
      <4>1. Has(t, "txt.br") = {id[t]} /\ id[t] \notin Has(t, "txt")
        BY <3>1, <3>4 DEF Own
      <4>2. Has(t, "txt.br")' = Absent /\ Has(t, "txt")' = txt
        BY <1>2, <2>3, <3>1, <3>2
      <4>3. Whole(t)'
        BY <2>1, <3>1, <3>2, <4>1, <4>2 DEF Whole
      <4>4. \A f \in Numbers \X Exts : id[t] \in files'[f] => f[1] = num[t]
        BY <1>2, <2>3, <3>1, <3>2, <3>4 DEF Own, Absent
      <4> QED
        BY <1>2, <2>1, <3>1, <3>2, <4>3, <4>4 DEF Own
    <3> QED
      BY <3>3, <3>4
  <2>10. Writes(t) /\ (Live(t)' /\ id'[t] \notin shared' => Own(t)')
    BY <1>7, <2>5, <2>6, <2>7, <2>8, <2>9
  <2> QED
    BY <2>10, WritesKeeps DEF OwnFiles
<1>8. CASE UNCHANGED vars
  BY <1>8, QuietKeeps DEF Quiet, vars, serverVars
<1> QED
  BY <1>3, <1>4, <1>5, <1>6, <1>7, <1>8 DEF Next

\* The file a request ends with is its own, unless its number was in use by
\* another request at the same time: for any number of threads, file numbers
\* and requests, whatever the processes before it left behind.
THEOREM StoredFilesAreOwn == Spec => []StoredIsOwn
<1>1. FInv => StoredIsOwn
  BY DEF FInv, TInv, HasNumber, OwnFiles, Own, Whole, Live, StoredIsOwn
<1> QED
  BY FInvInit, FInvStep, <1>1, PTL DEF Spec
-----------------------------------------------------------------------------
(* The streams: types.                                                      *)

LEMMA EmptyLineIs ==
  /\ EmptyLine \in Seq(Bytes) /\ Len(EmptyLine) = 4
  /\ ServerHead \o EmptyLine \in Seq(Bytes)
  /\ Len(ServerHead \o EmptyLine) = Len(ServerHead) + 4
<1>1. CRLF \in Seq(Bytes) /\ Len(CRLF) = 2
  BY CRLFIs
<1>2. EmptyLine \in Seq(Bytes) /\ Len(EmptyLine) = 4
  <2>1. CRLF \o CRLF \in Seq(Bytes) /\ Joins(CRLF \o CRLF, CRLF, CRLF, Len(CRLF))
    BY <1>1, Appended
  <2>2. Len(CRLF \o CRLF) = Len(CRLF) + Len(CRLF)
    BY <2>1, Zenon DEF Joins
  <2>3. Len(CRLF \o CRLF) = 4
    BY <1>1, <2>2
  <2> QED
    BY <2>1, <2>3, Zenon DEF EmptyLine
<1>3. ServerHead \in Seq(Bytes)
  BY StreamAssumption
<1>4. ServerHead \o EmptyLine \in Seq(Bytes)
      /\ Joins(ServerHead \o EmptyLine, ServerHead, EmptyLine, Len(EmptyLine))
  BY <1>2, <1>3, Appended
<1> QED
  BY <1>2, <1>4, Zenon DEF Joins

\* What the server sends.
Sends == \/ kind = Chunked /\ chunks \in Chunkings
         \/ kind \in 0 .. MaxLength /\ \E body \in Plain : chunks = <<body>>
Content == IF kind = Chunked THEN Encoded(chunks) ELSE chunks[1]
Stream == ServerHead \o EmptyLine \o Content

\* Nothing of the body is touched before the header is whole.
Fresh == mode = "header" => /\ data = <<>> /\ chunk = <<>> /\ client = <<>> /\ file = <<>>
StreamInv == StreamTypeOK /\ Sends /\ Fresh

LEMMA ContentTyped ==
  ASSUME Sends
  PROVE  /\ Content \in Seq(Bytes) /\ chunks \in Seq(Seq(Bytes))
         /\ kind = Chunked => ChunkSizes(chunks)
         /\ kind # Chunked => Len(chunks) = 1 /\ chunks = <<chunks[1]>>
<1>1. CASE kind = Chunked /\ chunks \in Chunkings
  <2>1. chunks \in Seq(Seq(Bytes)) /\ ChunkSizes(chunks)
    BY <1>1, StreamAssumption DEF ChunkSizes
  <2> QED
    BY <1>1, <2>1, EncodedTyped DEF Content
<1>2. CASE kind \in 0 .. MaxLength /\ \E body \in Plain : chunks = <<body>>
  <2>1. PICK body \in Plain : chunks = <<body>>
    BY <1>2
  <2>2. body \in Seq(Bytes)
    BY StreamAssumption
  <2>3. kind # Chunked
    BY <1>2, StreamAssumption DEF Chunked
  <2> QED
    BY <2>1, <2>2, <2>3 DEF Content
<1> QED
  BY <1>1, <1>2 DEF Sends

LEMMA InitSends == StreamInit => Sends /\ todo = Stream
<1> SUFFICES ASSUME StreamInit PROVE Sends /\ todo = Stream
  OBVIOUS
<1>1. Sends
  BY DEF StreamInit, Sends
<1>2. CASE kind = Chunked
  <2>1. kind \notin 0 .. MaxLength
    BY <1>2, StreamAssumption DEF Chunked
  <2> QED
    BY <1>1, <1>2, <2>1 DEF StreamInit, Stream, Content
<1>3. CASE kind # Chunked
  <2>1. PICK body \in Plain : chunks = <<body>> /\ todo = ServerHead \o EmptyLine \o body
    BY <1>3 DEF StreamInit
  <2>2. chunks[1] = body
    BY <2>1
  <2> QED
    BY <1>1, <1>3, <2>1, <2>2, Zenon DEF Stream, Content
<1> QED
  BY <1>2, <1>3

LEMMA StreamTypes ==
  ASSUME Sends
  PROVE  Stream \in Seq(Bytes)
<1>1. ServerHead \o EmptyLine \in Seq(Bytes) /\ Content \in Seq(Bytes)
  BY EmptyLineIs, ContentTyped
<1> QED
  BY <1>1 DEF Stream

LEMMA InitStreamInv == StreamInit => StreamInv
<1> SUFFICES ASSUME StreamInit PROVE StreamInv
  OBVIOUS
<1>1. Sends /\ todo = Stream
  BY InitSends
<1>3. todo \in Seq(Bytes)
  BY <1>1, StreamTypes
<1>4. /\ mode = "header" /\ header = <<>> /\ data = <<>> /\ chunk = <<>>
      /\ client = <<>> /\ file = <<>> /\ want = 0 /\ left = 0 /\ calls = 0 /\ cut = FALSE
      /\ closes \in BOOLEAN /\ kind \in {Chunked} \cup 0 .. MaxLength
  BY DEF StreamInit
<1>5. 0 \in 0 .. MaxCalls
  BY StreamAssumption
<1>6. StreamTypeOK
  <2>1. /\ todo \in Seq(Bytes) /\ header \in Seq(Bytes) /\ file \in Seq(Bytes)
        /\ data \in Seq(Bytes) /\ chunk \in Seq(Bytes)
    BY <1>3, <1>4
  <2>2. client \in Seq(Nat) /\ want \in Nat /\ left \in Int /\ calls \in 0 .. MaxCalls
    BY <1>4, <1>5
  <2>3. /\ mode \in {"header", "size", "chunk", "length"} \cup Ends
        /\ mode = "length" => Len(data) < MaxSend
        /\ cut \in BOOLEAN
    BY <1>4
  <2> QED
    BY <1>4, <2>1, <2>2, <2>3, Zenon DEF StreamTypeOK
<1> QED
  <2>1. <<>> \in Seq(Bytes)
    OBVIOUS
  <2>2. Fresh
    BY <1>4, <2>1, Zenon DEF Fresh
  <2> QED
    BY <1>1, <1>6, <2>2, Zenon DEF StreamInv

LEMMA SegmentTyped ==
  ASSUME StreamTypeOK, NEW n \in 1 .. MaxRecv, Receive(n)
  PROVE  /\ n \in 0 .. Len(todo) /\ n \in Nat \ {0}
         /\ Segment(n) \in Seq(Bytes) /\ Len(Segment(n)) = n
         /\ todo' \in Seq(Bytes) /\ Len(todo') = Len(todo) - n
<1>1. todo \in Seq(Bytes) /\ Len(todo) \in Nat
  BY DEF StreamTypeOK
<1>2. n \in 0 .. Len(todo) /\ n \in Nat \ {0}
  BY <1>1, StreamAssumption DEF Receive
<1>3. Segment(n) \in Seq(Bytes) /\ Len(Segment(n)) = n
  BY <1>1, <1>2, HeadTyped DEF Segment
<1>4. todo' = SubSeq(todo, n + 1, Len(todo))
  BY DEF Receive
<1>5. todo' \in Seq(Bytes)
  BY <1>1, <1>2, <1>4
<1>6. Len(todo') = Len(todo) - n
  BY <1>1, <1>2, <1>4
<1> QED
  BY <1>2, <1>3, <1>5, <1>6

LEMMA HexLineTyped == ASSUME NEW n \in Nat PROVE HexLine(n) \in Seq(Nat)
<1>1. <<0, 33, n>> \in Seq(Nat)
  OBVIOUS
<1> QED
  BY <1>1, BytesAreNat DEF HexLine

LEMMA RecvHeaderTyped ==
  ASSUME StreamInv, NEW n \in 1 .. MaxRecv, RecvHeader(n)
  PROVE  StreamInv'
<1> DEFINE bytes == Segment(n)
           found == Found(bytes, EmptyLine)
           rest == SubSeq(bytes, found + 4, n)
<1>1. /\ mode = "header" /\ Receive(n) /\ UNCHANGED <<kind, chunks, closes, chunk, want>>
      /\ cut' \in BOOLEAN
      /\ found = 0 => /\ header' = header \o bytes
                      /\ UNCHANGED <<mode, data, left, calls, client, file>>
      /\ found # 0 => AfterHeader(bytes, found) /\ StartBody(rest)
  BY DEF RecvHeader, server
<1>2. StreamTypeOK /\ Sends /\ data = <<>> /\ chunk = <<>> /\ client = <<>> /\ file = <<>>
  BY <1>1 DEF StreamInv, Fresh
<1>3. bytes \in Seq(Bytes) /\ Len(bytes) = n /\ todo' \in Seq(Bytes) /\ n \in Nat
  BY <1>1, <1>2, SegmentTyped
<1>4. found \in 0 .. n
  BY <1>3, EmptyLineIs, FoundIs
<1>5. found # 0 => rest \in Seq(Bytes) /\ Len(rest) \in Nat
  BY <1>3, <1>4
<1>6. found # 0 => header \o SubSeq(bytes, 1, found + 3) \in Seq(Bytes)
  <2> SUFFICES ASSUME found # 0 PROVE header \o SubSeq(bytes, 1, found + 3) \in Seq(Bytes)
    OBVIOUS
  <2>1. OccursAt(bytes, EmptyLine, found)
    BY <1>3, EmptyLineIs, FoundIs
  <2>2. found + 3 \in 0 .. n
    BY <1>3, <1>4, <2>1, EmptyLineIs DEF OccursAt
  <2>3. SubSeq(bytes, 1, found + 3) \in Seq(Bytes)
    BY <1>3, <2>2, HeadTyped
  <2> QED
    BY <1>2, <2>3, Appended DEF StreamTypeOK
<1>7. Sends'
  BY <1>1, <1>2 DEF Sends
<1> HIDE DEF found, rest, bytes
<1>8. CASE found = 0
  <2>1. header' \in Seq(Bytes)
    BY <1>1, <1>2, <1>3, <1>8, Appended DEF StreamTypeOK
  <2> QED
    BY <1>1, <1>2, <1>3, <1>7, <1>8, <2>1 DEF StreamInv, StreamTypeOK, Fresh
<1>9. CASE found # 0 /\ kind = Chunked
  <2>1. /\ header' \in Seq(Bytes) /\ data' = rest /\ mode' = "size" /\ calls' = 1
        /\ UNCHANGED <<client, file, left>>
    BY <1>1, <1>6, <1>9 DEF AfterHeader, StartBody
  <2>2. 1 \in 0 .. MaxCalls
    BY StreamAssumption
  <2> QED
    BY <1>1, <1>2, <1>3, <1>5, <1>7, <1>9, <2>1, <2>2 DEF StreamInv, StreamTypeOK, Fresh
<1>10. CASE found # 0 /\ kind # Chunked
  <2>1. /\ header' \in Seq(Bytes) /\ data' = data /\ calls' = calls
        /\ client' = client \o rest /\ file' = file \o rest /\ left' = kind - Len(rest)
        /\ mode' \in {"done", "length"}
    BY <1>1, <1>6, <1>10 DEF AfterHeader, StartBody, Pass, Countdown
  <2>2. rest \in Seq(Bytes) /\ rest \in Seq(Nat) /\ Len(rest) \in Nat
    BY <1>5, <1>10, BytesAreNat
  <2>3. client' \in Seq(Nat) /\ file' \in Seq(Bytes)
    BY <1>2, <2>1, <2>2 DEF StreamTypeOK
  <2>4. left' \in Int
    BY <1>2, <1>10, <2>1, <2>2, StreamAssumption DEF StreamTypeOK
  <2>5. Len(data') < MaxSend
    BY <1>2, <2>1, StreamAssumption
  <2>6. mode' \in {"header", "size", "chunk", "length"} \cup Ends /\ mode' # "header"
    BY <2>1 DEF Ends
  <2> QED
    BY <1>1, <1>2, <1>3, <1>7, <2>1, <2>3, <2>4, <2>5, <2>6
       DEF StreamInv, StreamTypeOK, Fresh
<1> QED
  BY <1>8, <1>9, <1>10

LEMMA RecvTyped ==
  ASSUME StreamInv, NEW n \in 1 .. MaxRecv, RecvSize(n) \/ RecvChunk(n) \/ RecvLength(n)
  PROVE  StreamInv'
<1>1. Receive(n) /\ UNCHANGED <<kind, chunks, closes, header, want, calls, cut>>
  BY DEF RecvSize, RecvChunk, RecvLength, server
<1>2. StreamTypeOK /\ Sends
  BY DEF StreamInv
<1>3. Segment(n) \in Seq(Bytes) /\ Len(Segment(n)) = n /\ todo' \in Seq(Bytes) /\ n \in Nat
  BY <1>1, <1>2, SegmentTyped
<1>4. Sends'
  BY <1>1, <1>2 DEF Sends
<1>5. CASE RecvSize(n)
  <2>1. /\ data' = data \o Segment(n) /\ mode = "size"
        /\ UNCHANGED <<mode, chunk, left, client, file>>
    BY <1>5 DEF RecvSize
  <2>2. data' \in Seq(Bytes)
    BY <1>2, <1>3, <2>1 DEF StreamTypeOK
  <2> QED
    BY <1>1, <1>2, <1>3, <1>4, <2>1, <2>2 DEF StreamInv, StreamTypeOK, Fresh
<1>6. CASE RecvChunk(n)
  <2>1. /\ chunk' = chunk \o Segment(n) /\ mode = "chunk"
        /\ UNCHANGED <<mode, data, left, client, file>>
    BY <1>6 DEF RecvChunk
  <2>2. chunk' \in Seq(Bytes)
    BY <1>2, <1>3, <2>1 DEF StreamTypeOK
  <2> QED
    BY <1>1, <1>2, <1>3, <1>4, <2>1, <2>2 DEF StreamInv, StreamTypeOK, Fresh
<1>7. CASE RecvLength(n)
  <2> DEFINE bytes == data \o Segment(n)
  <2>1. bytes \in Seq(Bytes) /\ bytes \in Seq(Nat)
    <3>1. bytes \in Seq(Bytes)
      BY <1>2, <1>3 DEF StreamTypeOK
    <3> QED
      BY <3>1, BytesAreNat
  <2>2. /\ left' = left - n /\ chunk' = chunk
        /\ mode = "length" /\ mode' \in {"done", "length"}
        /\ \/ client' = client \o bytes /\ file' = file \o bytes /\ data' = <<>>
           \/ ~Full(bytes) /\ data' = bytes /\ client' = client /\ file' = file
    BY <1>7 DEF RecvLength, Pass
  <2> HIDE DEF bytes
  <2>3. left' \in Int
    BY <1>2, <1>3, <2>2 DEF StreamTypeOK
  <2>4. client' \in Seq(Nat) /\ file' \in Seq(Bytes) /\ data' \in Seq(Bytes)
    <3>1. /\ client \in Seq(Nat) /\ file \in Seq(Bytes)
          /\ client \o bytes \in Seq(Nat) /\ file \o bytes \in Seq(Bytes)
      BY <1>2, <2>1, Appended DEF StreamTypeOK
    <3>2. <<>> \in Seq(Bytes)
      OBVIOUS
    <3> QED
      BY <2>1, <2>2, <3>1, <3>2, Zenon
  <2>5. Len(data') < MaxSend
    BY <2>1, <2>2, StreamAssumption DEF Full
  <2>6. mode' \in {"header", "size", "chunk", "length"} \cup Ends /\ mode' # "header"
    BY <2>2 DEF Ends
  <2> QED
    BY <1>1, <1>2, <1>3, <1>4, <2>2, <2>3, <2>4, <2>5, <2>6
       DEF StreamInv, StreamTypeOK, Fresh
<1> QED
  BY <1>5, <1>6, <1>7

LEMMA ReadSizeTyped ==
  ASSUME StreamInv, ReadSize
  PROVE  StreamInv'
<1> DEFINE end == FoundEnd(data)
           line == SubSeq(data, 1, end - 1)
           rest == SubSeq(data, end + 2, Len(data))
<1>1. /\ mode = "size" /\ end # 0
      /\ UNCHANGED <<kind, chunks, closes, todo, header, left, calls, file, cut>>
      /\ \/ mode' = "badSize" /\ UNCHANGED <<data, chunk, want, client>>
         \/ mode' = "done" /\ client' = client \o LastFrame /\ UNCHANGED <<data, chunk, want>>
         \/ /\ mode' = "chunk" /\ want' = Hex(line)
            /\ client' = client \o HexLine(want')
            /\ chunk' = FirstOf(rest, want' + 2)
            /\ data' = SubSeq(rest, want' + 3, Len(rest))
  BY DEF ReadSize, server
<1>u. UNCHANGED <<kind, chunks, closes, todo, header, left, calls, file, cut>>
  BY <1>1
<1>2. StreamTypeOK /\ Sends
  BY DEF StreamInv
<1>3. Sends'
  BY <1>1, <1>2 DEF Sends
<1>4. data \in Seq(Bytes) /\ client \in Seq(Nat)
  BY <1>2 DEF StreamTypeOK
<1>5. end \in 1 .. Len(data)
  BY <1>1, <1>4, FoundEndIs
<1> HIDE DEF end
<1>6. Hex(line) \in Nat
  <2>1. end - 1 \in 0 .. Len(data)
    BY <1>4, <1>5
  <2>2. line \in Seq(Bytes)
    BY <1>4, <2>1, HeadTyped
  <2>3. line \in Seq(Nat)
    BY <2>2, BytesAreNat
  <2> HIDE DEF line
  <2> QED
    BY <2>3, HexIsNat
<1>7. rest \in Seq(Bytes)
  <2>1. end + 2 \in Nat \ {0}
    BY <1>4, <1>5
  <2> QED
    BY <1>4, <2>1, TailTyped
<1> HIDE DEF line, rest
<1>8. mode' \in {"header", "size", "chunk", "length"} \cup Ends
      /\ mode' # "header" /\ mode' # "length"
  BY <1>1 DEF Ends
<1>9. CASE mode' = "chunk"
  <2>1. /\ want' = Hex(line) /\ client' = client \o HexLine(want')
        /\ chunk' = FirstOf(rest, want' + 2)
        /\ data' = SubSeq(rest, want' + 3, Len(rest))
    BY <1>1, <1>9
  <2>2. want' \in Nat /\ want' + 2 \in Nat /\ want' + 3 \in Nat \ {0}
    BY <1>6, <2>1
  <2>3. client' \in Seq(Nat)
    BY <1>4, <2>1, <2>2, HexLineTyped
  <2>4. chunk' \in Seq(Bytes)
    BY <1>7, <2>1, <2>2 DEF FirstOf
  <2>5. data' \in Seq(Bytes)
    BY <1>7, <2>1, <2>2, TailTyped
  <2> QED
    BY <1>u, <1>2, <1>3, <1>8, <2>2, <2>3, <2>4, <2>5 DEF StreamInv, StreamTypeOK, Fresh
<1>10. CASE mode' # "chunk"
  <2>1. UNCHANGED <<data, chunk, want>> /\ client' \in Seq(Nat)
    <3>1. UNCHANGED <<data, chunk, want>> /\ client' \in {client, client \o LastFrame}
      BY <1>1, <1>10
    <3>2. client \o LastFrame \in Seq(Nat)
      BY <1>4, BytesAreNat
    <3> QED
      BY <1>4, <3>1, <3>2
  <2>2. data' \in Seq(Bytes) /\ chunk' \in Seq(Bytes) /\ want' \in Nat
    BY <1>2, <2>1 DEF StreamTypeOK
  <2> QED
    BY <1>u, <1>2, <1>3, <1>8, <2>1, <2>2 DEF StreamInv, StreamTypeOK, Fresh
<1> QED
  BY <1>9, <1>10

LEMMA EndChunkTyped ==
  ASSUME StreamInv, EndChunk
  PROVE  StreamInv'
<1>1. /\ mode = "chunk" /\ Len(chunk) >= want + 2
      /\ client' = client \o SubSeq(chunk, 1, want) \o CRLF
      /\ file' = file \o SubSeq(chunk, 1, want)
      /\ data' = Following /\ chunk' = <<>>
      /\ \/ mode' = "tooDeep" /\ calls' = calls
         \/ mode' = "size" /\ calls # MaxCalls /\ calls' = calls + 1
      /\ UNCHANGED <<kind, chunks, closes, todo, header, want, left, cut>>
  BY DEF EndChunk, server
<1>2. StreamTypeOK /\ Sends
  BY DEF StreamInv
<1>3. Sends'
  BY <1>1, <1>2 DEF Sends
<1>4. /\ data \in Seq(Bytes) /\ chunk \in Seq(Bytes) /\ client \in Seq(Nat)
      /\ file \in Seq(Bytes) /\ want \in Nat /\ calls \in 0 .. MaxCalls
  BY <1>2 DEF StreamTypeOK
<1> DEFINE c == SubSeq(chunk, 1, want)
<1>5. c \in Seq(Bytes) /\ c \in Seq(Nat)
  <2>1. want \in 0 .. Len(chunk)
    BY <1>1, <1>4
  <2>2. c \in Seq(Bytes)
    BY <1>4, <2>1, HeadTyped
  <2> QED
    BY <2>2, BytesAreNat
<1> HIDE DEF c
<1>6. client' \in Seq(Nat) /\ file' \in Seq(Bytes)
  <2>1. client' = client \o c \o CRLF /\ file' = file \o c
    BY <1>1 DEF c
  <2>2. CRLF \in Seq(Nat)
    BY BytesAreNat
  <2> QED
    BY <1>4, <1>5, <2>1, <2>2
<1>7. data' \in Seq(Bytes)
  <2>1. want + 3 \in Nat \ {0}
    BY <1>4
  <2>2. SubSeq(chunk, want + 3, Len(chunk)) \in Seq(Bytes)
    BY <1>4, <2>1, TailTyped
  <2> QED
    BY <1>1, <1>4, <2>2 DEF Following
<1>8. calls' \in 0 .. MaxCalls
  BY <1>1, <1>4, StreamAssumption
<1>9. mode' \in {"header", "size", "chunk", "length"} \cup Ends
      /\ mode' # "header" /\ mode' # "length"
  BY <1>1 DEF Ends
<1>10. chunk' \in Seq(Bytes)
  BY <1>1
<1> QED
  BY <1>1, <1>2, <1>3, <1>6, <1>7, <1>8, <1>9, <1>10 DEF StreamInv, StreamTypeOK, Fresh

LEMMA StreamInvStep == StreamInv /\ [StreamNext]_streamVars => StreamInv'
<1> SUFFICES ASSUME StreamInv, [StreamNext]_streamVars PROVE StreamInv'
  OBVIOUS
<1>1. ASSUME NEW n \in 1 .. MaxRecv,
             RecvHeader(n) \/ RecvSize(n) \/ RecvChunk(n) \/ RecvLength(n)
      PROVE  StreamInv'
  BY <1>1, RecvHeaderTyped, RecvTyped
<1>2. CASE ReadSize
  BY <1>2, ReadSizeTyped
<1>3. CASE EndChunk
  BY <1>3, EndChunkTyped
<1>4. CASE Lose \/ SpinAtEnd
  <2>1. /\ mode' \in Ends /\ mode' # "header" /\ mode' # "length"
        /\ UNCHANGED <<kind, chunks, closes, todo, header, data, chunk, want, left, calls,
                       client, file, cut>>
    BY <1>4 DEF Lose, SpinAtEnd, server, Ends
  <2> QED
    BY <2>1 DEF StreamInv, StreamTypeOK, Sends, Fresh
<1>5. CASE UNCHANGED streamVars
  BY <1>5 DEF streamVars, StreamInv, StreamTypeOK, Sends, Fresh
<1> QED
  BY <1>1, <1>2, <1>3, <1>4, <1>5 DEF StreamNext

LEMMA AlwaysStreamInv == StreamSpec => []StreamInv
  BY InitStreamInv, StreamInvStep, PTL DEF StreamSpec

\* The readers of the Python proxy keep to their types: the buffer of an
\* unchunked body stays below MAX_SEND_SIZE, and the recursion within its limit.
THEOREM StreamTyped == StreamSpec => []StreamTypeOK
<1>1. StreamInv => StreamTypeOK
  BY DEF StreamInv
<1> QED
  BY <1>1, AlwaysStreamInv, PTL

-----------------------------------------------------------------------------
(* The header: the first empty line of the stream is the one that ends it,  *)
(* and unless a segment cuts it, it is found.                               *)

\* While the header is read it is what has come of the stream, and not all of it.
AtHeader == Len(header) <= Len(ServerHead) /\ Follows(header, todo, TRUE, Stream, 0)
HeaderInv == ~cut => /\ mode = "header" => AtHeader
                     /\ mode \notin {"header", "dead", "spin"} => header = ServerHead \o EmptyLine

LEMMA OccursMoves ==
  ASSUME NEW d, NEW e, NEW what, NEW i \in Nat, NEW k \in Nat,
         Len(d) \in Nat, Len(what) \in Nat,
         i + Len(what) - 1 <= Len(d), OccursAt(e, what, k),
         \A j \in 1 .. Len(what) : d[i + j - 1] = e[k + j - 1]
  PROVE  OccursAt(d, what, i)
  BY DEF OccursAt

\* In the header with its empty line, the empty line occurs at its place only.
LEMMA EmptyLineEnds ==
  LET W == ServerHead \o EmptyLine
      H == Len(ServerHead)
  IN /\ OccursAt(W, EmptyLine, H + 1)
     /\ \A i \in 1 .. H : ~OccursAt(W, EmptyLine, i)
<1> DEFINE W == ServerHead \o EmptyLine
           H == Len(ServerHead)
<1>1. W \in Seq(Bytes) /\ EmptyLine \in Seq(Bytes) /\ Len(W) = H + 4 /\ H \in Nat
  BY EmptyLineIs, StreamAssumption
<1>2. Found(W, EmptyLine) = H + 1
  BY StreamAssumption
<1> HIDE DEF W, H
<1>3. H + 1 # 0 /\ \A i \in 1 .. H : i \in 1 .. Len(W) /\ ~(H + 1 <= i)
  BY <1>1
<1>4. /\ OccursAt(W, EmptyLine, H + 1)
      /\ \A i \in 1 .. Len(W) : OccursAt(W, EmptyLine, i) => H + 1 <= i
  BY <1>1, <1>2, <1>3, FoundIs
<1>5. \A i \in 1 .. H : ~OccursAt(W, EmptyLine, i)
  BY <1>3, <1>4, Zenon
<1> QED
  BY <1>4, <1>5 DEF W, H

\* A segment of the stream, received after h bytes that were header: if it ends
\* before the empty line or behind it, it has the empty line in it just if it
\* reaches behind it, and then at its place.
LEMMA SegmentHas ==
  ASSUME NEW content \in Seq(Bytes), NEW bytes \in Seq(Bytes),
         NEW h \in 0 .. Len(ServerHead),
         Lies(bytes, ServerHead \o EmptyLine \o content, h),
         \A k \in 1 .. 3 : h + Len(bytes) # Len(ServerHead) + k
  PROVE  LET found == Found(bytes, EmptyLine)
         IN \/ found = 0 /\ h + Len(bytes) <= Len(ServerHead)
            \/ /\ found # 0 /\ h + found = Len(ServerHead) + 1
               /\ found \in 1 .. Len(bytes) /\ found + 3 <= Len(bytes)
<1> DEFINE W == ServerHead \o EmptyLine
           H == Len(ServerHead)
           found == Found(bytes, EmptyLine)
           n == Len(bytes)
           S == W \o content
<1>1. /\ W \in Seq(Bytes) /\ EmptyLine \in Seq(Bytes) /\ Len(W) = H + 4 /\ H \in Nat
      /\ Len(EmptyLine) = 4 /\ n \in Nat /\ h \in Nat /\ h <= H
  BY EmptyLineIs, StreamAssumption
<1>2. /\ OccursAt(W, EmptyLine, H + 1)
      /\ \A i \in 1 .. H : ~OccursAt(W, EmptyLine, i)
  BY EmptyLineEnds
<1>3. /\ found \in 0 .. n
      /\ found = 0 => \A i \in 1 .. n : ~OccursAt(bytes, EmptyLine, i)
      /\ found # 0 => /\ OccursAt(bytes, EmptyLine, found)
                      /\ \A i \in 1 .. n : OccursAt(bytes, EmptyLine, i) => found <= i
  BY <1>1, FoundIs
<1>4. \A i \in 1 .. Len(W) : S[i] = W[i]
  BY <1>1
<1>5. \A i \in 1 .. n : bytes[i] = S[h + i]
  BY DEF Lies
<1> HIDE DEF W, H, found, n, S
<1>6. \A i \in 1 .. n : h + i <= H + 4 => bytes[i] = W[h + i]
  <2> SUFFICES ASSUME NEW i \in 1 .. n, h + i <= H + 4 PROVE bytes[i] = W[h + i]
    OBVIOUS
  <2>1. h + i \in 1 .. Len(W)
    BY <1>1
  <2> QED
    BY <1>4, <1>5, <2>1
<1>7. h + n <= H \/ h + n >= H + 4
  <2>1. h + n # H + 1 /\ h + n # H + 2 /\ h + n # H + 3
    BY DEF n, H
  <2> QED
    BY <1>1, <2>1
<1>8. ASSUME h + n >= H + 4
      PROVE  H + 1 - h \in 1 .. n /\ OccursAt(bytes, EmptyLine, H + 1 - h)
  <2> DEFINE i == H + 1 - h
  <2>1. i \in 1 .. n /\ i \in Nat /\ i + 4 - 1 <= n /\ H + 1 \in Nat
    BY <1>1, <1>8
  <2>2. ASSUME NEW j \in 1 .. 4 PROVE bytes[i + j - 1] = W[H + 1 + j - 1]
    <3>1. i + j - 1 \in 1 .. n /\ h + (i + j - 1) = H + 1 + j - 1 /\ h + (i + j - 1) <= H + 4
      BY <1>1, <1>8
    <3> QED
      BY <1>6, <3>1
  <2> HIDE DEF i
  <2>3. /\ Len(EmptyLine) \in Nat /\ Len(bytes) \in Nat /\ i + Len(EmptyLine) - 1 <= Len(bytes)
        /\ \A j \in 1 .. Len(EmptyLine) : bytes[i + j - 1] = W[H + 1 + j - 1]
    <3>1. Len(EmptyLine) \in Nat /\ Len(bytes) \in Nat /\ i + Len(EmptyLine) - 1 <= Len(bytes)
      BY <1>1, <2>1 DEF n
    <3> QED
      BY <1>1, <2>2, <3>1
  <2>4. OccursAt(bytes, EmptyLine, i)
    BY <1>2, <2>1, <2>3, OccursMoves, Zenon
  <2> QED
    BY <2>1, <2>4 DEF i
<1>9. CASE found = 0
  <2>1. ~(h + n >= H + 4)
    BY <1>3, <1>8, <1>9
  <2> QED
    BY <1>7, <1>9, <2>1 DEF found, n, H
<1>10. CASE found # 0
  <2>1. OccursAt(bytes, EmptyLine, found) /\ found \in 1 .. n
    BY <1>1, <1>3, <1>10
  <2>2. found + 3 <= n
    BY <1>1, <2>1 DEF OccursAt, n
  <2>n. /\ found \in 1 .. n /\ found + 3 <= n /\ found \in Nat
        /\ h \in Nat /\ H \in Nat /\ n \in Nat
    BY <1>1, <2>1, <2>2
  <2>3. ~(h + found <= H)
    <3> SUFFICES ASSUME h + found <= H PROVE FALSE
      OBVIOUS
    <3>j. h + found <= H
      OBVIOUS
    <3>1. h + found \in 1 .. H /\ h + found \in Nat /\ h + found + 4 - 1 <= Len(W) /\ found \in Nat
      BY <1>1, <2>1
    <3>2. ASSUME NEW j \in 1 .. 4 PROVE W[h + found + j - 1] = bytes[found + j - 1]
      <4>1. found + j - 1 \in 1 .. n /\ h + (found + j - 1) = h + found + j - 1
            /\ h + (found + j - 1) <= H + 4
        BY ONLY <2>n, <3>j, j \in 1 .. 4
      <4> QED
        BY <1>6, <4>1
    <3>3. /\ Len(EmptyLine) \in Nat /\ Len(W) \in Nat /\ h + found + Len(EmptyLine) - 1 <= Len(W)
          /\ \A j \in 1 .. Len(EmptyLine) : W[h + found + j - 1] = bytes[found + j - 1]
      BY <1>1, <3>1, <3>2
    <3>4. OccursAt(W, EmptyLine, h + found)
      BY <2>1, <3>1, <3>3, OccursMoves, Zenon
    <3> QED
      BY <1>2, <3>1, <3>4
  <2>4. h + n >= H + 4
    BY ONLY <2>n, <2>3
  <2>5. found <= H + 1 - h
    BY <1>3, <1>8, <1>10, <2>4
  <2>6. h + found = H + 1
    BY ONLY <2>n, <2>3, <2>5
  <2> QED
    BY <1>10, <2>1, <2>2, <2>6 DEF found, n, H
<1> QED
  BY <1>9, <1>10

LEMMA FollowsFirst ==
  ASSUME NEW stream \in Seq(Bytes), NEW s, s = <<>>
  PROVE  Follows(s, stream, TRUE, stream, 0)
<1>1. Len(s) = 0 /\ 0 + 0 = 0 /\ Len(stream) \in Nat
  OBVIOUS
<1>2. Lies(s, stream, 0) /\ Lies(stream, stream, 0)
  BY <1>1 DEF Lies
<1>3. 0 + Len(s) = 0 /\ 0 + Len(s) + Len(stream) = Len(stream)
  BY <1>1
<1> QED
  BY <1>2, <1>3, Zenon DEF Follows

LEMMA Behind ==
  ASSUME NEW S, NEW s \in Seq(S), NEW t \in Seq(S)
  PROVE  t = SubSeq(s \o t, Len(s) + 1, Len(s \o t))
  OBVIOUS

\* As long as its head, what lies at the start of a stream is the head.
LEMMA LiesHead ==
  ASSUME NEW S, NEW s \in Seq(S), NEW head \in Seq(S), NEW content \in Seq(S),
         Lies(s, head \o content, 0), Len(s) = Len(head)
  PROVE  s = head
<1>1. \A i \in 1 .. Len(head) : (head \o content)[i] = head[i]
  OBVIOUS
<1>2. ASSUME NEW i \in 1 .. Len(s) PROVE s[i] = head[i]
  <2>1. s[i] = (head \o content)[0 + i] /\ 0 + i = i
    BY DEF Lies
  <2> QED
    BY <1>1, <2>1
<1> QED
  BY <1>2, SameSeq

\* A segment that does not end inside the empty line is all header, or has the
\* empty line, and then the header is whole and the body begins behind it.
LEMMA HeaderSplits ==
  ASSUME StreamInv, HeaderInv, NEW n \in 1 .. MaxRecv, RecvHeader(n), ~cut'
  PROVE  LET bytes == Segment(n)
             found == Found(bytes, EmptyLine)
         IN \/ found = 0 /\ AtHeader'
            \/ /\ found # 0
               /\ header \o SubSeq(bytes, 1, found + 3) = ServerHead \o EmptyLine
               /\ Follows(SubSeq(bytes, found + 4, n), todo', TRUE, Content, 0)
<1> DEFINE bytes == Segment(n)
           found == Found(bytes, EmptyLine)
           u == header \o bytes
           h == Len(header)
           H == Len(ServerHead)
           W == ServerHead \o EmptyLine
<1>1. /\ mode = "header" /\ Receive(n) /\ UNCHANGED <<kind, chunks>>
      /\ ~cut /\ ~\E k \in 1 .. 3 : h + n = H + k
      /\ found = 0 => header' = u
  BY DEF RecvHeader, server
<1>2. StreamTypeOK /\ Sends
  BY DEF StreamInv
<1>3. h <= H /\ Follows(header, todo, TRUE, Stream, 0)
  BY <1>1 DEF HeaderInv, AtHeader
<1>4. /\ header \in Seq(Bytes) /\ todo \in Seq(Bytes) /\ Stream \in Seq(Bytes)
      /\ Content \in Seq(Bytes) /\ W \in Seq(Bytes) /\ Len(W) = H + 4
      /\ h \in Nat /\ H \in Nat /\ Stream = W \o Content
  <2>1. Stream \in Seq(Bytes) /\ Content \in Seq(Bytes)
    BY <1>2, ContentTyped, StreamTypes
  <2>2. header \in Seq(Bytes) /\ todo \in Seq(Bytes)
    BY <1>2 DEF StreamTypeOK
  <2>3. ServerHead \in Seq(Bytes)
    BY StreamAssumption
  <2>4. Stream = W \o Content
    BY DEF Stream
  <2> QED
    BY <2>1, <2>2, <2>3, <2>4, EmptyLineIs
<1>5. /\ n \in 0 .. Len(todo) /\ bytes \in Seq(Bytes) /\ Len(bytes) = n /\ n \in Nat
      /\ todo' \in Seq(Bytes) /\ todo' = SubSeq(todo, n + 1, Len(todo))
      /\ bytes = SubSeq(todo, 1, n)
  BY <1>1, <1>2, SegmentTyped DEF Receive, Segment
<1>6. Stream' = Stream
  BY <1>1 DEF Stream, Content
<1> HIDE DEF bytes, found, W
<1>7. u \in Seq(Bytes) /\ Len(u) = h + n
  BY <1>4, <1>5
<1>8. Follows(u, todo', TRUE, Stream, 0)
  BY <1>3, <1>4, <1>5, FollowsRecv, Zenon
<1>9. Follows(bytes, todo', TRUE, Stream, h)
  <2>1. bytes = SubSeq(u, h + 1, Len(u))
    BY <1>4, <1>5, Behind
  <2>2. h \in 0 .. Len(u) /\ 0 + h = h
    BY <1>4, <1>5, <1>7
  <2> HIDE DEF u, h
  <2>3. Follows(bytes, todo', TRUE, Stream, 0 + h)
    BY <1>4, <1>5, <1>7, <1>8, <2>1, <2>2, FollowsDrop
  <2> QED
    BY <2>2, <2>3
<1>10. \/ found = 0 /\ h + n <= H
       \/ found # 0 /\ h + found = H + 1 /\ found \in 1 .. n /\ found + 3 <= n
  <2>1. Lies(bytes, ServerHead \o EmptyLine \o Content, h)
    BY <1>9 DEF Follows, Stream
  <2>2. h \in 0 .. H /\ \A k \in 1 .. 3 : h + Len(bytes) # H + k
    BY <1>1, <1>3, <1>4, <1>5
  <2> QED
    BY <1>4, <1>5, <2>1, <2>2, SegmentHas DEF found
<1>11. CASE found = 0 /\ h + n <= H
  <2>1. header' = u /\ Len(header') <= H
    BY <1>1, <1>7, <1>11
  <2>2. AtHeader'
    BY <1>6, <1>8, <2>1, Zenon DEF AtHeader
  <2> QED
    BY <1>11, <2>2 DEF found, bytes
<1>12. CASE found # 0 /\ h + found = H + 1 /\ found \in 1 .. n /\ found + 3 <= n
  <2> DEFINE w == found + 3
             q == header \o SubSeq(bytes, 1, w)
             rest == SubSeq(bytes, w + 1, Len(bytes))
  <2>1. /\ w \in 0 .. Len(bytes) /\ h + w = Len(W) /\ w + 1 = found + 4
        /\ w \in Nat /\ w + 1 \in Nat \ {0}
    <3>1. h \in Nat /\ H \in Nat /\ Len(W) = H + 4 /\ Len(bytes) = n /\ n \in Nat
      BY <1>4, <1>5
    <3> HIDE DEF h, H
    <3> QED
      BY <1>12, <3>1
  <2> HIDE DEF w
  <2>2. rest \in Seq(Bytes)
    BY <1>5, <2>1, TailTyped
  <2>3. Follows(rest, todo', TRUE, Stream, h + w)
    BY <1>4, <1>5, <1>9, <2>1, FollowsDrop
  <2>4. Follows(rest, todo', TRUE, W \o Content, Len(W))
    BY <1>4, <2>1, <2>3
  <2> HIDE DEF rest
  <2>5. Follows(rest, todo', TRUE, Content, 0)
    BY <1>4, <1>5, <2>2, <2>4, FollowsAfter
  <2>6. q \in Seq(Bytes) /\ Joins(q, header, bytes, w)
    BY <1>4, <1>5, <2>1, RecvSplits
  <2> HIDE DEF q
  <2>7. Lies(header, Stream, 0) /\ Lies(bytes, Stream, 0 + h)
    <3>1. 0 + h = h
      BY <1>4
    <3> QED
      BY <1>3, <1>9, <3>1 DEF Follows
  <2>8. Len(q) = Len(W)
    BY <2>1, <2>6 DEF Joins
  <2>9. Lies(q, Stream, 0)
    <3>1. Len(header) \in Nat /\ Len(bytes) \in Nat /\ Len(Stream) \in Nat /\ w <= Len(bytes)
      BY <1>4, <1>5, <2>1
    <3> QED
      BY <2>1, <2>6, <2>7, <3>1, LiesJoined
  <2>10. q = W
    BY <1>4, <2>6, <2>8, <2>9, LiesHead
  <2>11. rest = SubSeq(bytes, found + 4, n)
    BY <1>5, <2>1 DEF rest
  <2>12. header \o SubSeq(bytes, 1, found + 3) = W
    BY <2>10 DEF q, w
  <2> QED
    BY <1>12, <2>5, <2>11, <2>12 DEF found, bytes, W
<1> QED
  BY <1>10, <1>11, <1>12

LEMMA InitHeader == StreamInit => HeaderInv
<1> SUFFICES ASSUME StreamInit PROVE HeaderInv
  OBVIOUS
<1>1. /\ Sends /\ todo = Stream /\ header = <<>> /\ mode = "header"
      /\ Len(ServerHead) \in Nat
  BY InitSends, StreamAssumption DEF StreamInit
<1>2. Stream \in Seq(Bytes) /\ Len(header) <= Len(ServerHead)
  BY <1>1, StreamTypes
<1>3. AtHeader
  BY <1>1, <1>2, FollowsFirst DEF AtHeader
<1> QED
  BY <1>1, <1>3 DEF HeaderInv

LEMMA HeaderStep ==
  ASSUME StreamInv, HeaderInv, [StreamNext]_streamVars
  PROVE  HeaderInv'
<1>1. ASSUME NEW n \in 1 .. MaxRecv, RecvHeader(n) PROVE HeaderInv'
  <2> SUFFICES ASSUME ~cut'
               PROVE  /\ mode' = "header" => AtHeader'
                      /\ mode' \notin {"header", "dead", "spin"}
                           => header' = ServerHead \o EmptyLine
    BY DEF HeaderInv
  <2> DEFINE bytes == Segment(n)
             found == Found(bytes, EmptyLine)
  <2>1. \/ found = 0 /\ AtHeader'
        \/ found # 0 /\ header \o SubSeq(bytes, 1, found + 3) = ServerHead \o EmptyLine
    BY <1>1, HeaderSplits
  <2>2. /\ mode = "header"
        /\ found = 0 => mode' = mode
        /\ found # 0 => /\ header' = header \o SubSeq(bytes, 1, found + 3)
                        /\ mode' \in {"size", "done", "length"}
    BY <1>1 DEF RecvHeader, AfterHeader, StartBody
  <2> HIDE DEF found, bytes
  <2> QED
    BY <2>1, <2>2
<1>2. ASSUME UNCHANGED <<header, cut>>, mode # "header", mode' # "header", mode \notin Ends
      PROVE  HeaderInv'
  BY <1>2 DEF HeaderInv, Ends
<1>3. ASSUME NEW n \in 1 .. MaxRecv, RecvSize(n) \/ RecvChunk(n) \/ RecvLength(n)
      PROVE  HeaderInv'
  <2>1. /\ UNCHANGED <<header, cut>> /\ mode \in {"size", "chunk", "length"}
        /\ mode' # "header"
    BY <1>3 DEF RecvSize, RecvChunk, RecvLength
  <2> QED
    BY <1>2, <2>1 DEF Ends
<1>4. CASE ReadSize \/ EndChunk
  <2>1. /\ UNCHANGED <<header, cut>> /\ mode \in {"size", "chunk"}
        /\ mode' # "header"
    BY <1>4 DEF ReadSize, EndChunk
  <2> QED
    BY <1>2, <2>1 DEF Ends
<1>5. CASE Lose \/ SpinAtEnd
  <2>1. mode' \in {"dead", "spin"} /\ UNCHANGED <<header, cut>>
    BY <1>5 DEF Lose, SpinAtEnd
  <2> QED
    BY <2>1 DEF HeaderInv
<1>6. CASE UNCHANGED streamVars
  BY <1>6 DEF streamVars, HeaderInv, AtHeader, Stream, Content
<1> QED
  BY <1>1, <1>3, <1>4, <1>5, <1>6 DEF StreamNext

LEMMA AlwaysHeader == StreamSpec => [](StreamInv /\ HeaderInv)
<1>1. StreamInit => StreamInv /\ HeaderInv
  BY InitStreamInv, InitHeader
<1>2. StreamInv /\ HeaderInv /\ [StreamNext]_streamVars => (StreamInv /\ HeaderInv)'
  BY StreamInvStep, HeaderStep
<1> QED
  BY <1>1, <1>2, PTL DEF StreamSpec

\* readHeader finds the end of the header wherever the segments are cut, unless
\* one ends inside the empty line: for every header that has its only empty
\* line at its end, and whatever body comes behind it.
THEOREM HeaderFound == StreamSpec => []HeaderSeparated
<1>1. HeaderInv => HeaderSeparated
  BY DEF HeaderInv, HeaderSeparated
<1> QED
  BY <1>1, AlwaysHeader, PTL

-----------------------------------------------------------------------------
(* What is written and what is sent, chunk by chunk.                        *)

Written(cs, k) == FlattenSeq(SubSeq(cs, 1, k))
HexFrames(cs) == [i \in DOMAIN cs |-> HexLine(Len(cs[i])) \o cs[i] \o CRLF]
Hexed(cs, k) == FlattenSeq(SubSeq(HexFrames(cs), 1, k))
HexedAll(cs) == FlattenSeq(HexFrames(cs)) \o LastFrame

LEMMA WrittenGrows ==
  ASSUME NEW cs \in Seq(Seq(Bytes))
  PROVE  /\ Written(cs, 0) = <<>> /\ Written(cs, Len(cs)) = FlattenSeq(cs)
         /\ \A k \in 0 .. Len(cs) :
              Written(cs, k) \in Seq(Bytes) /\ IsPrefix(Written(cs, k), FlattenSeq(cs))
         /\ \A k \in 0 .. Len(cs) - 1 : Written(cs, k + 1) = Written(cs, k) \o cs[k + 1]
<1> DEFINE n == Len(cs)
           all == FlattenSeq(cs)
<1>1. /\ Written(cs, 0) = <<>> /\ Written(cs, n) = all
      /\ \A k \in 0 .. n : Written(cs, k) \in Seq(Bytes) /\ Starts(all, Written(cs, k))
      /\ \A k \in 0 .. n - 1 : Written(cs, k + 1) = Written(cs, k) \o cs[k + 1]
  BY FlattenPieces, Zenon DEF Written
<1> HIDE DEF all
<1>2. all \in Seq(Bytes)
  <2>1. n \in 0 .. n
    OBVIOUS
  <2> QED
    BY <1>1, <2>1
<1>3. ASSUME NEW k \in 0 .. n PROVE IsPrefix(Written(cs, k), all)
  BY <1>1, <1>2, StartsIsPrefix
<1> QED
  BY <1>1, <1>3 DEF all

\* With chunk k + 1 the client gets its size with 0x, its bytes and CRLF.
HexGrows(cs, k) ==
  /\ Hexed(cs, k + 1) = Hexed(cs, k) \o HexLine(Len(cs[k + 1])) \o cs[k + 1] \o CRLF
  /\ IsPrefix(Hexed(cs, k) \o HexLine(Len(cs[k + 1])), HexedAll(cs))

LEMMA HexedGrows ==
  ASSUME NEW cs \in Seq(Seq(Bytes))
  PROVE  /\ Hexed(cs, 0) = <<>> /\ Hexed(cs, Len(cs)) \o LastFrame = HexedAll(cs)
         /\ \A k \in 0 .. Len(cs) :
              Hexed(cs, k) \in Seq(Nat) /\ IsPrefix(Hexed(cs, k), HexedAll(cs))
         /\ \A k \in 0 .. Len(cs) - 1 : HexGrows(cs, k)
         /\ HexedAll(cs) \in Seq(Nat)
<1> DEFINE n == Len(cs)
           fs == HexFrames(cs)
           all == FlattenSeq(fs)
<1>1. ASSUME NEW c \in Seq(Bytes)
      PROVE  /\ HexLine(Len(c)) \in Seq(Nat) /\ c \in Seq(Nat)
             /\ HexLine(Len(c)) \o c \o CRLF \in Seq(Nat)
  <2> DEFINE l == HexLine(Len(c))
  <2>1. l \in Seq(Nat) /\ c \in Seq(Nat) /\ CRLF \in Seq(Nat)
    <3>1. Len(c) \in Nat
      OBVIOUS
    <3> QED
      BY <3>1, HexLineTyped, BytesAreNat
  <2> HIDE DEF l
  <2>2. l \o c \in Seq(Nat)
    BY <2>1
  <2>3. l \o c \o CRLF \in Seq(Nat)
    BY <2>1, <2>2
  <2> QED
    BY <2>1, <2>3 DEF l
<1>2. /\ n \in Nat /\ fs \in Seq(Seq(Nat)) /\ Len(fs) = n
      /\ \A i \in 1 .. n : fs[i] = HexLine(Len(cs[i])) \o cs[i] \o CRLF
  <2>1. DOMAIN cs = 1 .. n /\ n \in Nat
    OBVIOUS
  <2>2. \A i \in 1 .. n : HexLine(Len(cs[i])) \o cs[i] \o CRLF \in Seq(Nat)
    BY <1>1
  <2> QED
    BY <2>1, <2>2 DEF HexFrames
<1> HIDE DEF fs
<1>3. /\ Hexed(cs, 0) = <<>> /\ Hexed(cs, n) = all
      /\ \A k \in 0 .. n : Hexed(cs, k) \in Seq(Nat) /\ Starts(all, Hexed(cs, k))
      /\ \A k \in 0 .. n - 1 : Hexed(cs, k + 1) = Hexed(cs, k) \o fs[k + 1]
  <2>1. \A k : Hexed(cs, k) = FlattenSeq(SubSeq(fs, 1, k))
    BY DEF Hexed, fs
  <2>2. /\ FlattenSeq(SubSeq(fs, 1, 0)) = <<>>
        /\ FlattenSeq(SubSeq(fs, 1, Len(fs))) = all
        /\ \A k \in 0 .. Len(fs) : /\ FlattenSeq(SubSeq(fs, 1, k)) \in Seq(Nat)
                                   /\ Starts(all, FlattenSeq(SubSeq(fs, 1, k)))
        /\ \A k \in 0 .. Len(fs) - 1 :
             FlattenSeq(SubSeq(fs, 1, k + 1)) = FlattenSeq(SubSeq(fs, 1, k)) \o fs[k + 1]
    BY <1>2, FlattenPieces
  <2> QED
    BY <1>2, <2>1, <2>2, Zenon
<1> HIDE DEF all
<1>4. all \in Seq(Nat) /\ LastFrame \in Seq(Nat) /\ all \o LastFrame \in Seq(Nat)
  <2>1. n \in 0 .. n
    BY <1>2
  <2>2. all \in Seq(Nat) /\ LastFrame \in Seq(Nat)
    BY <1>3, <2>1, BytesAreNat
  <2> QED
    BY <2>2
<1>5. HexedAll(cs) = all \o LastFrame
  BY DEF HexedAll, all, fs
<1>6. ASSUME NEW s \in Seq(Nat), Starts(all, s) PROVE IsPrefix(s, HexedAll(cs))
  <2>1. Starts(all \o LastFrame, s)
    BY <1>4, <1>6, StartsLonger
  <2>2. IsPrefix(s, all \o LastFrame)
    BY <1>4, <2>1, StartsIsPrefix
  <2> QED
    BY <1>5, <2>2, Zenon
<1>7. ASSUME NEW k \in 0 .. n - 1 PROVE HexGrows(cs, k)
  <2> DEFINE c == cs[k + 1]
             a == HexLine(Len(c))
             q == Hexed(cs, k)
  <2>1. k \in 0 .. n /\ k + 1 \in 0 .. n /\ k + 1 \in 1 .. n
    BY <1>2
  <2>2. c \in Seq(Bytes)
    BY <2>1
  <2>3. a \in Seq(Nat) /\ c \in Seq(Nat) /\ CRLF \in Seq(Nat)
    BY <1>1, <2>2, BytesAreNat
  <2>4. q \in Seq(Nat) /\ Hexed(cs, k + 1) = q \o fs[k + 1] /\ fs[k + 1] = a \o c \o CRLF
    BY <1>2, <1>3, <2>1
  <2> HIDE DEF c, a, q
  <2>5. Regrouped(q, a, c, CRLF)
    BY <2>3, <2>4, Regroup, Zenon
  <2>6. Hexed(cs, k + 1) = q \o (a \o c \o CRLF)
    BY <2>4, Zenon
  <2>7. Hexed(cs, k + 1) = (q \o a) \o c \o CRLF /\ Hexed(cs, k + 1) = (q \o a) \o (c \o CRLF)
    BY <2>5, <2>6, Zenon DEF Regrouped
  <2>8. Starts(all, q \o a)
    <3>1. q \o a \in Seq(Nat) /\ c \o CRLF \in Seq(Nat)
      BY <2>3, <2>4
    <3>2. Starts(q \o a, q \o a)
      BY <3>1 DEF Starts
    <3>3. Starts((q \o a) \o (c \o CRLF), q \o a)
      BY <3>1, <3>2, StartsLonger
    <3>4. Starts(Hexed(cs, k + 1), q \o a)
      BY <2>7, <3>3, Zenon
    <3>5. Starts(all, Hexed(cs, k + 1)) /\ Hexed(cs, k + 1) \in Seq(Nat)
      BY <1>3, <2>1
    <3>6. Len(q \o a) \in Nat /\ Len(Hexed(cs, k + 1)) \in Nat /\ Len(all) \in Nat
      BY <1>4, <3>1, <3>5
    <3> QED
      BY <3>4, <3>5, <3>6, StartsTrans
  <2>9. IsPrefix(q \o a, HexedAll(cs))
    <3>1. q \o a \in Seq(Nat)
      BY <2>3, <2>4
    <3> QED
      BY <1>6, <2>8, <3>1
  <2> QED
    BY <2>7, <2>9, Zenon DEF HexGrows, c, a, q
<1>8. ASSUME NEW k \in 0 .. n
      PROVE  Hexed(cs, k) \in Seq(Nat) /\ IsPrefix(Hexed(cs, k), HexedAll(cs))
  BY <1>3, <1>6
<1>9. Hexed(cs, 0) = <<>> /\ Hexed(cs, n) \o LastFrame = HexedAll(cs)
  BY <1>3, <1>5, Zenon
<1>10. HexedAll(cs) \in Seq(Nat)
  BY <1>4, <1>5
<1> QED
  BY <1>7, <1>8, <1>9, <1>10

LEMMA ChunkedContent ==
  ASSUME Sends, kind = Chunked
  PROVE  /\ chunks \in Seq(Seq(Bytes)) /\ ChunkSizes(chunks) /\ Len(chunks) \in Nat
         /\ Content = Encoded(chunks) /\ Content \in Seq(Bytes)
         /\ Body = FlattenSeq(chunks) /\ Reframed \o LastFrame = HexedAll(chunks)
<1>1. chunks \in Seq(Seq(Bytes)) /\ ChunkSizes(chunks) /\ Content \in Seq(Bytes)
  BY ContentTyped
<1>2. Len(chunks) \in Nat
  BY <1>1
<1>3. Reframed \o LastFrame = HexedAll(chunks)
  BY DEF Reframed, HexedAll, HexFrames
<1> QED
  BY <1>1, <1>2, <1>3 DEF Content, Body

LEMMA PlainContent ==
  ASSUME Sends, kind # Chunked, Honest
  PROVE  /\ Content = chunks[1] /\ Content \in Seq(Bytes)
         /\ Body = Content /\ kind = Len(Content)
<1>1. Content \in Seq(Bytes) /\ chunks \in Seq(Seq(Bytes)) /\ Len(chunks) = 1
  BY ContentTyped
<1>2. Content = chunks[1]
  BY DEF Content
<1>3. /\ Written(chunks, 0) = <<>> /\ Written(chunks, Len(chunks)) = FlattenSeq(chunks)
      /\ \A k \in 0 .. Len(chunks) - 1 :
           Written(chunks, k + 1) = Written(chunks, k) \o chunks[k + 1]
  BY <1>1, WrittenGrows
<1>4. 0 \in 0 .. Len(chunks) - 1 /\ 0 + 1 = 1
  BY <1>1
<1>5. Written(chunks, 0 + 1) = Written(chunks, 0) \o chunks[0 + 1]
  BY <1>3, <1>4
<1>6. FlattenSeq(chunks) = <<>> \o Content
  BY <1>1, <1>2, <1>3, <1>4, <1>5, Zenon
<1>7. <<>> \o Content = Content
  BY <1>1
<1> QED
  BY <1>1, <1>2, <1>6, <1>7 DEF Body, Honest

-----------------------------------------------------------------------------
(* The body: what is in the buffers and what is still to come are the body  *)
(* as it is sent from the place on where the loop is.                       *)

Sizing(k) == /\ calls = k + 1 /\ file = Written(chunks, k) /\ client = Hexed(chunks, k)
             /\ Follows(data, todo, TRUE, Content, Place(chunks, k))
AtSize == kind = Chunked /\ \E k \in 0 .. Len(chunks) : Sizing(k)

\* currentChunk is filled before anything is left for the next line.
Filling(k) == /\ calls = k + 1 /\ file = Written(chunks, k)
              /\ want = Len(chunks[k + 1]) /\ client = Hexed(chunks, k) \o HexLine(want)
              /\ Follows(chunk \o data, todo, TRUE, Content, Place(chunks, k) + 3)
              /\ data # <<>> => Len(chunk) = want + 2
AtChunk == kind = Chunked /\ \E k \in 0 .. Len(chunks) - 1 : Filling(k)

AtLength == /\ kind # Chunked /\ left = Len(todo) /\ left > 0 /\ client = file
            /\ Follows(file \o data, todo, TRUE, Content, 0)

ToClient == IF kind = Chunked THEN HexedAll(chunks) ELSE Body
Prefixed == IsPrefix(file, Body) /\ IsPrefix(client, ToClient)
Ended == /\ Prefixed /\ mode \notin {"badSize", "spin"}
         /\ mode = "done" => file = Body /\ (kind = Chunked => client = HexedAll(chunks))
         /\ mode = "tooDeep" => Len(chunks) >= MaxCalls

BodyInv == ~cut /\ Honest => /\ mode = "size" => AtSize
                             /\ mode = "chunk" => AtChunk
                             /\ mode = "length" => AtLength
                             /\ mode \in Ends => Ended
Inv == StreamInv /\ HeaderInv /\ BodyInv

LEMMA FirstRest ==
  ASSUME NEW S, NEW r \in Seq(S), NEW m \in Nat
  PROVE  LET f == FirstOf(r, m)
             g == SubSeq(r, m + 1, Len(r))
         IN /\ f \in Seq(S) /\ g \in Seq(S) /\ f \o g = r
            /\ g # <<>> => Len(f) = m
<1>1. CASE m <= Len(r)
  <2>1. FirstOf(r, m) = SubSeq(r, 1, m) /\ m \in 0 .. Len(r)
    BY <1>1 DEF FirstOf
  <2>2. SubSeq(r, 1, m) \in Seq(S) /\ Len(SubSeq(r, 1, m)) = m
    BY <2>1, HeadTyped
  <2>3. SubSeq(r, m + 1, Len(r)) \in Seq(S)
    OBVIOUS
  <2>4. SubSeq(r, 1, m) \o SubSeq(r, m + 1, Len(r)) = r
    <3> DEFINE f == SubSeq(r, 1, m)
               g == SubSeq(r, m + 1, Len(r))
    <3>1. /\ f \in Seq(S) /\ Len(f) = m /\ \A i \in 1 .. m : f[i] = r[i]
      BY <2>1, HeadTyped
    <3>2. g \in Seq(S) /\ Len(g) = Len(r) - m /\ \A i \in 1 .. Len(r) - m : g[i] = r[m + i]
      BY <2>1, RecvSplits DEF Drops
    <3>3. Len(r) \in Nat
      OBVIOUS
    <3> HIDE DEF f, g
    <3>4. f \o g \in Seq(S) /\ Joins(f \o g, f, g, Len(g))
      BY <3>1, <3>2, Appended
    <3> DEFINE u == f \o g
    <3> HIDE DEF u
    <3>5. u \in Seq(S) /\ Len(u) = Len(r)
      BY <1>1, <3>1, <3>2, <3>3, <3>4 DEF Joins, u
    <3>6. ASSUME NEW i \in 1 .. Len(u) PROVE u[i] = r[i]
      <4>1. CASE i <= m
        <5>1. i \in 1 .. m
          BY <4>1
        <5> QED
          BY <3>1, <3>4, <5>1 DEF Joins, u
      <4>2. CASE ~(i <= m)
        <5> DEFINE j == i - m
        <5>1. j \in 1 .. Len(g) /\ j \in 1 .. Len(r) - m /\ m + j = i
          BY <3>2, <3>3, <3>5, <4>2
        <5> HIDE DEF j
        <5>2. u[m + j] = g[j] /\ g[j] = r[m + j]
          BY <3>1, <3>2, <3>4, <5>1 DEF Joins, u
        <5> QED
          BY <5>1, <5>2
      <4> QED
        BY <4>1, <4>2
    <3>7. u = r
      BY <3>5, <3>6, SameSeq
    <3> QED
      BY <3>7 DEF u, f, g
  <2> QED
    BY <2>1, <2>2, <2>3, <2>4
<1>2. CASE ~(m <= Len(r))
  <2>1. FirstOf(r, m) = SubSeq(r, 1, Len(r))
    BY <1>2 DEF FirstOf
  <2>2. SubSeq(r, 1, Len(r)) = r
    OBVIOUS
  <2>3. SubSeq(r, m + 1, Len(r)) = <<>>
    BY <1>2
  <2>4. r \o <<>> = r /\ <<>> \in Seq(S)
    OBVIOUS
  <2> QED
    BY <2>1, <2>2, <2>3, <2>4
<1> QED
  BY <1>1, <1>2

\* What is written and sent so far begins what is to be written and sent.
LEMMA AlwaysPrefixed ==
  ASSUME Inv, ~cut, Honest
  PROVE  Prefixed
<1>1. StreamTypeOK /\ Sends /\ Fresh
  BY DEF Inv, StreamInv
<1>2. CASE mode = "header"
  <2>1. file = <<>> /\ client = <<>>
    BY <1>1, <1>2 DEF Fresh
  <2>2. CASE kind = Chunked
    <3>1. /\ chunks \in Seq(Seq(Bytes)) /\ 0 \in 0 .. Len(chunks)
          /\ Body = FlattenSeq(chunks) /\ ToClient = HexedAll(chunks)
      BY <1>1, <2>2, ChunkedContent DEF ToClient
    <3>2. file = Written(chunks, 0) /\ client = Hexed(chunks, 0)
      BY <2>1, <3>1, WrittenGrows, HexedGrows
    <3> QED
      BY <3>1, <3>2, WrittenGrows, HexedGrows DEF Prefixed
  <2>3. CASE kind # Chunked
    <3>1. Body \in Seq(Bytes) /\ ToClient = Body /\ <<>> \in Seq(Bytes)
      BY <1>1, <2>3, PlainContent DEF ToClient
    <3>2. Starts(Body, <<>>)
      BY <3>1 DEF Starts
    <3>3. IsPrefix(<<>>, Body)
      BY <3>1, <3>2, StartsIsPrefix
    <3> QED
      BY <2>1, <3>1, <3>3 DEF Prefixed
  <2> QED
    BY <2>2, <2>3
<1>3. CASE mode = "size"
  <2>1. AtSize
    BY <1>3 DEF Inv, BodyInv
  <2>2. PICK k \in 0 .. Len(chunks) : Sizing(k)
    BY <2>1 DEF AtSize
  <2>3. /\ chunks \in Seq(Seq(Bytes))
        /\ Body = FlattenSeq(chunks) /\ ToClient = HexedAll(chunks)
    BY <1>1, <2>1, ChunkedContent DEF ToClient, AtSize
  <2> QED
    BY <2>2, <2>3, WrittenGrows, HexedGrows DEF Prefixed, Sizing
<1>4. CASE mode = "chunk"
  <2>1. AtChunk
    BY <1>4 DEF Inv, BodyInv
  <2>2. PICK k \in 0 .. Len(chunks) - 1 : Filling(k)
    BY <2>1 DEF AtChunk
  <2>3. /\ chunks \in Seq(Seq(Bytes)) /\ Len(chunks) \in Nat
        /\ Body = FlattenSeq(chunks) /\ ToClient = HexedAll(chunks)
    BY <1>1, <2>1, ChunkedContent DEF ToClient, AtChunk
  <2>4. k \in 0 .. Len(chunks)
    BY <2>3
  <2>5. HexGrows(chunks, k)
    BY <2>3, HexedGrows
  <2>6. IsPrefix(client, HexedAll(chunks))
    BY <2>2, <2>5, Zenon DEF HexGrows, Filling
  <2> QED
    BY <2>2, <2>3, <2>4, <2>6, WrittenGrows DEF Prefixed, Filling
<1>5. CASE mode = "length"
  <2>1. AtLength
    BY <1>5 DEF Inv, BodyInv
  <2>2. /\ Body \in Seq(Bytes) /\ ToClient = Body /\ Body = Content
        /\ file \in Seq(Bytes) /\ data \in Seq(Bytes)
    BY <1>1, <2>1, PlainContent DEF ToClient, AtLength, StreamTypeOK
  <2> DEFINE u == file \o data
  <2>3. Lies(u, Body, 0) /\ client = file
    BY <2>1, <2>2 DEF AtLength, Follows
  <2>4. u \in Seq(Bytes) /\ Joins(u, file, data, Len(data))
    BY <2>2, Appended
  <2>5. Len(u) = Len(file) + Len(data) /\ Len(file) \in Nat /\ Len(data) \in Nat
    <3>1. Len(file) \in Nat /\ Len(data) \in Nat
      BY <2>2
    <3> QED
      BY <2>4, <3>1, Zenon DEF Joins
  <2>n. Len(Body) \in Nat /\ Len(u) \in Nat
    BY <2>2, <2>4
  <2>6. Starts(Body, file)
    <3>1. Len(file) <= Len(Body)
      <4>1. 0 + Len(u) <= Len(Body)
        BY <2>3 DEF Lies
      <4> HIDE DEF u
      <4> QED
        BY <2>5, <2>n, <4>1
    <3>2. ASSUME NEW i \in 1 .. Len(file) PROVE file[i] = Body[i]
      <4>1. i \in 1 .. Len(u) /\ 0 + i = i
        <5> HIDE DEF u
        <5> QED
          BY <2>5
      <4>2. u[i] = Body[0 + i]
        BY <2>3, <4>1, Zenon DEF Lies
      <4>3. u[i] = file[i]
        BY <2>4, Zenon DEF Joins
      <4> QED
        BY <4>1, <4>2, <4>3
    <3> QED
      BY <3>1, <3>2 DEF Starts
  <2>7. IsPrefix(file, Body)
    BY <2>2, <2>6, StartsIsPrefix
  <2> QED
    BY <2>2, <2>3, <2>7 DEF Prefixed
<1>6. CASE mode \in Ends
  BY <1>6 DEF Inv, BodyInv, Ended
<1>7. mode \in {"header", "size", "chunk", "length"} \cup Ends
  BY <1>1 DEF StreamTypeOK
<1> QED
  BY <1>2, <1>3, <1>4, <1>5, <1>6, <1>7

\* Once all of the stream has come, no loop calls recv again.
LEMMA AllCome ==
  ASSUME Inv, ~cut, Honest, todo = <<>>
  PROVE  ~Waiting
<1>1. StreamTypeOK /\ Sends /\ Len(todo) = 0
  BY DEF Inv, StreamInv
<1>2. mode # "header"
  <2> SUFFICES ASSUME mode = "header" PROVE FALSE
    OBVIOUS
  <2>1. Len(header) <= Len(ServerHead) /\ Follows(header, todo, TRUE, Stream, 0)
    BY DEF Inv, HeaderInv, AtHeader
  <2>2. 0 + Len(header) + 0 = Len(Stream)
    BY <1>1, <2>1 DEF Follows
  <2>3. Content \in Seq(Bytes)
    BY <1>1, ContentTyped
  <2> DEFINE W == ServerHead \o EmptyLine
  <2>4. W \in Seq(Bytes) /\ Len(W) = Len(ServerHead) + 4
    BY EmptyLineIs
  <2>5. Stream = W \o Content
    BY DEF Stream
  <2> HIDE DEF W
  <2>6. Len(Stream) = Len(W) + Len(Content)
    BY <2>3, <2>4, <2>5, Appended DEF Joins
  <2>7. Len(ServerHead) \in Nat /\ Len(Content) \in Nat /\ Len(header) \in Nat
    BY <1>1, <2>3, StreamAssumption DEF StreamTypeOK
  <2> QED
    BY <2>1, <2>2, <2>4, <2>6, <2>7
<1>3. mode # "length"
  <2> SUFFICES ASSUME mode = "length" PROVE FALSE
    OBVIOUS
  <2>1. left = Len(todo) /\ left > 0
    BY DEF Inv, BodyInv, AtLength
  <2>2. left = 0
    BY <1>1, <2>1
  <2> QED
    BY <2>1, <2>2
<1>4. mode = "size" => FoundEnd(data) # 0
  <2> SUFFICES ASSUME mode = "size" PROVE FoundEnd(data) # 0
    OBVIOUS
  <2>1. AtSize
    BY DEF Inv, BodyInv
  <2>2. PICK k \in 0 .. Len(chunks) : Sizing(k)
    BY <2>1 DEF AtSize
  <2>3. /\ chunks \in Seq(Seq(Bytes)) /\ ChunkSizes(chunks)
        /\ Content = Encoded(chunks) /\ Content \in Seq(Bytes)
    BY <1>1, <2>1, ChunkedContent DEF AtSize
  <2> DEFINE p == Place(chunks, k)
             c == ChunkAt(chunks, k)
  <2>4. p \in Nat /\ FrameAt(Content, p, c)
    BY <2>3, FramesLie
  <2>5. Len(c) \in Nat
    BY <2>3, FrameOfChunk
  <2> HIDE DEF p, c
  <2>6. data \in Seq(Bytes) /\ Follows(data, todo, TRUE, Content, p)
    BY <1>1, <2>2 DEF Sizing, StreamTypeOK, p
  <2>7. Lies(data, Content, p) /\ p + Len(data) + 0 = Len(Content)
    BY <1>1, <2>6 DEF Follows
  <2>8. p + Len(data) = Len(Content)
    <3>1. Len(data) \in Nat
      BY <2>6
    <3> QED
      BY <2>4, <2>7, <3>1
  <2> QED
    BY <2>3, <2>4, <2>5, <2>6, <2>7, <2>8, LineEndComes
<1>5. mode = "chunk" => ~(Len(chunk) < want + 2)
  <2> SUFFICES ASSUME mode = "chunk", Len(chunk) < want + 2 PROVE FALSE
    OBVIOUS
  <2>1. AtChunk
    BY DEF Inv, BodyInv
  <2>2. PICK k \in 0 .. Len(chunks) - 1 : Filling(k)
    BY <2>1 DEF AtChunk
  <2>3. /\ chunks \in Seq(Seq(Bytes)) /\ ChunkSizes(chunks) /\ Len(chunks) \in Nat
        /\ Content = Encoded(chunks) /\ Content \in Seq(Bytes)
    BY <1>1, <2>1, ChunkedContent DEF AtChunk
  <2> DEFINE p == Place(chunks, k)
             c == ChunkAt(chunks, k)
  <2>k. k \in 0 .. Len(chunks) /\ k < Len(chunks)
    BY <2>3
  <2>4. p \in Nat /\ FrameAt(Content, p, c)
    BY <2>3, <2>k, FramesLie
  <2>5. Len(c) \in Nat /\ want = Len(c)
    BY <2>2, <2>3, <2>k, FrameOfChunk DEF ChunkAt, Filling
  <2> HIDE DEF p, c
  <2>6. /\ chunk \in Seq(Bytes) /\ data \in Seq(Bytes) /\ data = <<>>
        /\ Follows(chunk \o data, todo, TRUE, Content, p + 3)
    <3>1. data = <<>>
      BY <1>1, <2>2 DEF Filling, StreamTypeOK
    <3> QED
      BY <1>1, <2>2, <3>1 DEF Filling, StreamTypeOK, p
  <2>7. chunk \o data = chunk
    BY <2>6
  <2>8. p + 3 + Len(chunk) + 0 = Len(Content)
    BY <1>1, <2>6, <2>7 DEF Follows
  <2>9. p + Len(c) + 5 <= Len(Content)
    BY <2>4 DEF FrameAt
  <2>10. Len(chunk) \in Nat
    BY <2>6
  <2> QED
    BY <2>4, <2>5, <2>8, <2>9, <2>10
<1> QED
  BY <1>2, <1>3, <1>4, <1>5 DEF Waiting

LEMMA OneLong ==
  ASSUME NEW S, NEW s \in Seq(S), Len(s) = 1
  PROVE  s # <<>> /\ DOMAIN s = {1}
<1>1. s # <<>>
  OBVIOUS
<1>2. DOMAIN s = 1 .. Len(s)
  OBVIOUS
<1> QED
  BY <1>1, <1>2

LEMMA Emptied ==
  ASSUME NEW S, NEW s \in Seq(S), NEW e, e = <<>>
  PROVE  s \o e = s /\ e \o s = s
  OBVIOUS

\* The body begins with what readHeader left over.
LEMMA BodyBegins ==
  ASSUME Inv, NEW n \in 1 .. MaxRecv, RecvHeader(n), ~cut', Honest
  PROVE  BodyInv'
<1> DEFINE bytes == Segment(n)
           found == Found(bytes, EmptyLine)
           rest == SubSeq(bytes, found + 4, n)
<1>1. /\ mode = "header" /\ UNCHANGED <<kind, chunks>>
      /\ found = 0 => mode' = mode
      /\ found # 0 => StartBody(rest)
  BY DEF RecvHeader, server
<1>2. /\ StreamInv /\ HeaderInv /\ StreamTypeOK /\ Sends
      /\ data = <<>> /\ client = <<>> /\ file = <<>>
  BY <1>1 DEF Inv, StreamInv, Fresh
<1>3. StreamTypeOK'
  BY <1>2, RecvHeaderTyped DEF StreamInv
<1>4. Content' = Content
  BY <1>1 DEF Content
<1>5. found # 0 => Follows(rest, todo', TRUE, Content, 0)
  <2>1. \/ found = 0 /\ AtHeader'
        \/ /\ found # 0
           /\ header \o SubSeq(bytes, 1, found + 3) = ServerHead \o EmptyLine
           /\ Follows(rest, todo', TRUE, Content, 0)
    BY <1>2, HeaderSplits
  <2> HIDE DEF found, bytes, rest
  <2> QED
    BY <2>1
<1>6. rest \in Seq(Bytes)
  <2>1. bytes \in Seq(Bytes) /\ Len(bytes) = n
    BY <1>2, SegmentTyped DEF RecvHeader
  <2>2. found + 4 \in Nat \ {0}
    BY <2>1, EmptyLineIs, FoundIs
  <2> HIDE DEF found, bytes
  <2>3. SubSeq(bytes, found + 4, Len(bytes)) \in Seq(Bytes)
    BY <2>1, <2>2, TailTyped
  <2> QED
    BY <2>1, <2>3
<1> HIDE DEF found, rest, bytes
<1>7. CASE found = 0
  BY <1>1, <1>7 DEF BodyInv, Ends
<1>8. CASE found # 0 /\ kind = Chunked
  <2>1. mode' = "size" /\ data' = rest /\ calls' = 1 /\ file' = file /\ client' = client
    BY <1>1, <1>8 DEF StartBody
  <2>2. /\ chunks \in Seq(Seq(Bytes)) /\ ChunkSizes(chunks) /\ Len(chunks) \in Nat
    BY <1>2, <1>8, ChunkedContent
  <2>3. /\ Place(chunks, 0) = 0 /\ Written(chunks, 0) = <<>> /\ Hexed(chunks, 0) = <<>>
        /\ 0 \in 0 .. Len(chunks) /\ 0 + 1 = 1
    BY <2>2, FramesLie, WrittenGrows, HexedGrows
  <2>4. Sizing(0)'
    BY <1>1, <1>2, <1>4, <1>5, <1>8, <2>1, <2>3 DEF Sizing
  <2>5. AtSize'
    BY <1>1, <1>8, <2>3, <2>4 DEF AtSize
  <2> QED
    BY <2>1, <2>5 DEF BodyInv, Ends
<1>9. CASE found # 0 /\ kind # Chunked
  <2>1. /\ client' = client \o rest /\ file' = file \o rest /\ left' = kind - Len(rest)
        /\ data' = data /\ mode' = IF left' = 0 THEN "done" ELSE "length"
    BY <1>1, <1>9 DEF StartBody, Pass, Countdown
  <2>2. Content \in Seq(Bytes) /\ Body = Content /\ kind = Len(Content)
    BY <1>2, <1>9, PlainContent
  <2>3. client' = rest /\ file' = rest /\ data' = <<>>
    BY <1>2, <1>6, <2>1, Emptied
  <2>4. /\ Lies(rest, Content, 0) /\ 0 + Len(rest) + Len(todo') = Len(Content)
        /\ Len(rest) \in Nat /\ Len(todo') \in Nat
    BY <1>3, <1>5, <1>6, <1>9 DEF Follows, StreamTypeOK
  <2>5. left' = Len(todo')
    BY <2>1, <2>2, <2>4
  <2>6. CASE left' = 0
    <3>1. Len(rest) = Len(Content)
      BY <2>4, <2>5, <2>6
    <3>2. rest = Body
      BY <1>6, <2>2, <2>4, <3>1, LiesWhole
    <3>3. ToClient' = Body /\ Body' = Body
      BY <1>1, <1>9 DEF ToClient, Body
    <3>4. Starts(Body, Body)
      BY <2>2 DEF Starts
    <3>5. IsPrefix(Body, Body)
      BY <2>2, <3>4, StartsIsPrefix
    <3>6. Ended'
      BY <1>1, <1>9, <2>1, <2>3, <2>6, <3>2, <3>3, <3>5 DEF Ended, Prefixed
    <3> QED
      BY <2>1, <2>6, <3>6 DEF BodyInv
  <2>7. CASE left' # 0
    <3>1. left' > 0
      BY <2>4, <2>5, <2>7
    <3>2. file' \o data' = rest
      BY <1>6, <2>3, Emptied
    <3>3. AtLength'
      BY <1>1, <1>4, <1>5, <1>9, <2>3, <2>5, <3>1, <3>2 DEF AtLength
    <3> QED
      BY <2>1, <2>7, <3>3 DEF BodyInv, Ends
  <2> QED
    BY <2>6, <2>7
<1> QED
  BY <1>7, <1>8, <1>9

LEMMA MoreOfSize ==
  ASSUME Inv, NEW n \in 1 .. MaxRecv, RecvSize(n), ~cut, Honest
  PROVE  BodyInv'
<1>1. /\ mode = "size" /\ mode' = "size" /\ Receive(n) /\ data' = data \o SubSeq(todo, 1, n)
      /\ UNCHANGED <<kind, chunks, calls, file, client>>
  BY DEF RecvSize, server, Segment
<1>2. StreamTypeOK /\ Sends
  BY DEF Inv, StreamInv
<1>3. AtSize
  BY <1>1 DEF Inv, BodyInv
<1>4. PICK k \in 0 .. Len(chunks) : Sizing(k)
  BY <1>3 DEF AtSize
<1>5. /\ chunks \in Seq(Seq(Bytes)) /\ ChunkSizes(chunks) /\ Content \in Seq(Bytes)
      /\ kind = Chunked /\ Content' = Content
  BY <1>1, <1>2, <1>3, ChunkedContent DEF AtSize, Content
<1> DEFINE p == Place(chunks, k)
<1>6. p \in Nat
  BY <1>5, FramesLie
<1> HIDE DEF p
<1>7. /\ todo \in Seq(Bytes) /\ data \in Seq(Bytes) /\ n \in 0 .. Len(todo)
      /\ todo' = SubSeq(todo, n + 1, Len(todo))
  BY <1>1, <1>2, SegmentTyped DEF StreamTypeOK, Receive
<1>8. Follows(data, todo, TRUE, Content, p)
  BY <1>4 DEF Sizing, p
<1>9. Follows(data', todo', TRUE, Content, p)
  BY <1>1, <1>5, <1>6, <1>7, <1>8, FollowsRecv, Zenon
<1>10. Sizing(k)'
  BY <1>1, <1>4, <1>5, <1>9 DEF Sizing, p
<1>11. AtSize'
  BY <1>1, <1>5, <1>10 DEF AtSize
<1> QED
  BY <1>1, <1>11 DEF BodyInv, Ends

\* The size line is all there and is the size of the next chunk; the rest of the
\* buffer is the chunk's, then the next line's.
LEMMA SizeIsRead ==
  ASSUME Inv, ReadSize, ~cut, Honest
  PROVE  BodyInv'
<1> DEFINE end == FoundEnd(data)
           line == SubSeq(data, 1, end - 1)
           rest == SubSeq(data, end + 2, Len(data))
<1>1. /\ mode = "size" /\ end # 0
      /\ UNCHANGED <<kind, chunks, todo, calls, file>>
      /\ ~IsSize(line) => mode' = "badSize"
      /\ IsSize(line) /\ Hex(line) = 0 => mode' = "done" /\ client' = client \o LastFrame
      /\ IsSize(line) /\ Hex(line) # 0 =>
           /\ mode' = "chunk" /\ want' = Hex(line)
           /\ client' = client \o HexLine(want')
           /\ chunk' = FirstOf(rest, want' + 2)
           /\ data' = SubSeq(rest, want' + 3, Len(rest))
  BY DEF ReadSize, server
<1>2. StreamTypeOK /\ Sends
  BY DEF Inv, StreamInv
<1>3. AtSize
  BY <1>1 DEF Inv, BodyInv
<1>4. PICK k \in 0 .. Len(chunks) : Sizing(k)
  BY <1>3 DEF AtSize
<1>5. /\ chunks \in Seq(Seq(Bytes)) /\ ChunkSizes(chunks) /\ Content \in Seq(Bytes)
      /\ Len(chunks) \in Nat /\ Content = Encoded(chunks)
      /\ Body = FlattenSeq(chunks) /\ kind = Chunked
      /\ Content' = Content /\ Body' = Body /\ ToClient' = HexedAll(chunks)
  BY <1>1, <1>2, <1>3, ChunkedContent DEF AtSize, Content, Body, ToClient
<1> DEFINE p == Place(chunks, k)
           c == ChunkAt(chunks, k)
<1>6. p \in Nat /\ FrameAt(Content, p, c)
  BY <1>5, FramesLie
<1>7. /\ c \in Seq(Bytes) /\ Len(c) \in 0 .. 15
      /\ k < Len(chunks) <=> Len(c) # 0
      /\ k < Len(chunks) => c = chunks[k + 1]
  BY <1>5, FrameOfChunk DEF ChunkAt
<1>8. k < Len(chunks) => k \in 0 .. Len(chunks) - 1
  BY <1>5
<1> HIDE DEF p, c
<1>9. /\ data \in Seq(Bytes) /\ todo \in Seq(Bytes) /\ Len(data) \in Nat
      /\ Follows(data, todo, TRUE, Content, p)
  <2>1. data \in Seq(Bytes) /\ todo \in Seq(Bytes)
    BY <1>2 DEF StreamTypeOK
  <2>2. Follows(data, todo, TRUE, Content, p)
    BY <1>4, Zenon DEF Sizing, p
  <2>3. Len(data) \in Nat
    BY <2>1
  <2> QED
    BY <2>1, <2>2, <2>3
<1>10. end = 2 /\ Len(data) >= 3 /\ data[1] = Len(c)
  <2>1. Lies(data, Content, p - 0) /\ 0 <= p /\ 0 + 2 = 2 /\ 0 + 3 = 3 /\ 0 + 1 = 1
    BY <1>6, <1>9 DEF Follows
  <2>2. 0 \in {0, 1} /\ 0 # 1
    OBVIOUS
  <2>3. FoundEnd(data) = 0 + 2 /\ Len(data) >= 0 + 3 /\ data[0 + 1] = Len(c)
    <3>1. 0 = 1 => Content[p] = LF
      OBVIOUS
    <3> QED
      BY <1>1, <1>5, <1>6, <1>7, <1>9, <2>1, <2>2, <3>1, LineEndThere, ZenonT(60)
  <2> QED
    BY <2>1, <2>3
<1>11. IsSize(line) /\ Hex(line) = Len(c)
  <2>1. line = SubSeq(data, 1, 1) /\ 1 \in 1 .. Len(data)
    BY <1>9, <1>10
  <2>2. Len(line) = 1 /\ line[1] = data[1]
    <3>1. Len(SubSeq(data, 1, 1)) = 1 /\ SubSeq(data, 1, 1)[1] = data[1]
      BY <1>9, <2>1, OneOf, Zenon
    <3> HIDE DEF line
    <3> QED
      BY <2>1, <3>1, Zenon
  <2>3. 1 \in 0 .. Len(data)
    BY <2>1
  <2>4. line \in Seq(Bytes)
    BY <1>9, <2>1, <2>3, HeadTyped
  <2>5. line \in Seq(Nat)
    BY <2>4, BytesAreNat
  <2> HIDE DEF line
  <2>6. Hex(line) = Len(c)
    BY <1>10, <2>2, <2>5, HexIsNat
  <2>7. line # <<>> /\ DOMAIN line = {1} /\ line[1] < 16
    <3>1. line # <<>> /\ DOMAIN line = {1}
      BY <2>2, <2>5, OneLong
    <3>2. \A x \in 0 .. 15 : x < 16
      OBVIOUS
    <3>3. line[1] = Len(c)
      BY <1>10, <2>2, Zenon
    <3>4. line[1] < 16
      BY <1>7, <3>2, <3>3, Zenon
    <3> QED
      BY <3>1, <3>4, Zenon
  <2> QED
    BY <2>6, <2>7 DEF IsSize
<1>12. rest \in Seq(Bytes) /\ Follows(rest, todo, TRUE, Content, p + 3)
  <2>1. rest = SubSeq(data, 3 + 1, Len(data)) /\ 3 \in 0 .. Len(data) /\ 3 + 1 \in Nat \ {0}
    BY <1>9, <1>10
  <2>2. rest \in Seq(Bytes)
    BY <1>9, <2>1, TailTyped
  <2> HIDE DEF rest
  <2> QED
    BY <1>5, <1>6, <1>9, <2>1, <2>2, FollowsDrop
<1> HIDE DEF end, line, rest
<1>13. CASE Len(c) = 0
  <2>1. mode' = "done" /\ client' = client \o LastFrame /\ file' = file
    BY <1>1, <1>11, <1>13
  <2>2. k = Len(chunks)
    BY <1>5, <1>7, <1>13
  <2>3. file' = FlattenSeq(chunks)
    BY <1>4, <1>5, <2>1, <2>2, WrittenGrows DEF Sizing
  <2>4. client' = HexedAll(chunks)
    BY <1>4, <1>5, <2>1, <2>2, HexedGrows DEF Sizing
  <2>5. IsPrefix(file', Body')
    <3>1. file' = Written(chunks, k)
      BY <1>4, <2>1 DEF Sizing
    <3> QED
      BY <1>5, <3>1, WrittenGrows
  <2>6. IsPrefix(client', ToClient')
    <3>1. HexedAll(chunks) \in Seq(Nat)
      BY <1>5, HexedGrows
    <3>2. Starts(HexedAll(chunks), HexedAll(chunks))
      BY <3>1 DEF Starts
    <3> QED
      BY <1>5, <2>4, <3>1, <3>2, StartsIsPrefix
  <2>7. Ended'
    BY <1>1, <1>5, <2>1, <2>3, <2>4, <2>5, <2>6 DEF Ended, Prefixed
  <2> QED
    BY <2>1, <2>7 DEF BodyInv
<1>14. CASE Len(c) # 0
  <2>1. /\ mode' = "chunk" /\ want' = Len(c) /\ client' = client \o HexLine(want')
        /\ chunk' = FirstOf(rest, want' + 2)
        /\ data' = SubSeq(rest, want' + 3, Len(rest))
    BY <1>1, <1>11, <1>14
  <2>2. k \in 0 .. Len(chunks) - 1 /\ c = chunks[k + 1]
    BY <1>7, <1>8, <1>14
  <2>3. want' + 2 \in Nat /\ want' + 3 = want' + 2 + 1
    BY <1>7, <2>1
  <2>4. chunk' \o data' = rest /\ (data' # <<>> => Len(chunk') = want' + 2)
    BY <1>12, <2>1, <2>3, FirstRest
  <2>5. Filling(k)'
    BY <1>1, <1>4, <1>5, <1>12, <2>1, <2>2, <2>4 DEF Sizing, Filling, p
  <2>6. AtChunk'
    BY <1>1, <1>5, <2>2, <2>5 DEF AtChunk
  <2> QED
    BY <2>1, <2>6 DEF BodyInv, Ends
<1> QED
  BY <1>13, <1>14

LEMMA MoreOfChunk ==
  ASSUME Inv, NEW n \in 1 .. MaxRecv, RecvChunk(n), ~cut, Honest
  PROVE  BodyInv'
<1>1. /\ mode = "chunk" /\ mode' = "chunk" /\ Receive(n) /\ chunk' = chunk \o SubSeq(todo, 1, n)
      /\ Len(chunk) < want + 2
      /\ UNCHANGED <<kind, chunks, data, want, calls, file, client>>
  BY DEF RecvChunk, server, Segment
<1>2. StreamTypeOK /\ Sends
  BY DEF Inv, StreamInv
<1>3. AtChunk
  BY <1>1 DEF Inv, BodyInv
<1>4. PICK k \in 0 .. Len(chunks) - 1 : Filling(k)
  BY <1>3 DEF AtChunk
<1>5. /\ chunks \in Seq(Seq(Bytes)) /\ ChunkSizes(chunks) /\ Content \in Seq(Bytes)
      /\ kind = Chunked /\ Content' = Content /\ Len(chunks) \in Nat
  BY <1>1, <1>2, <1>3, ChunkedContent DEF AtChunk, Content
<1> DEFINE p == Place(chunks, k)
<1>6. p \in Nat /\ p + 3 \in Nat
  <2>1. k \in 0 .. Len(chunks)
    BY <1>5
  <2>2. p \in Nat
    BY <1>5, <2>1, FramesLie
  <2> HIDE DEF p
  <2> QED
    BY <2>2
<1> HIDE DEF p
<1>7. /\ todo \in Seq(Bytes) /\ chunk \in Seq(Bytes) /\ n \in 0 .. Len(todo)
      /\ todo' = SubSeq(todo, n + 1, Len(todo))
      /\ data \in Seq(Bytes) /\ chunk' \in Seq(Bytes)
  <2>1. StreamTypeOK'
    BY RecvTyped DEF Inv, StreamInv
  <2> QED
    BY <1>1, <1>2, <2>1, SegmentTyped DEF StreamTypeOK, Receive
<1>8. data = <<>>
  <2>1. want \in Nat /\ Len(chunk) \in Nat
    BY <1>2 DEF StreamTypeOK
  <2> QED
    BY <1>1, <1>4, <2>1 DEF Filling
<1>9. chunk \o data = chunk /\ chunk' \o data' = chunk' /\ data' = <<>>
  BY <1>1, <1>7, <1>8, Emptied
<1>10. Follows(chunk, todo, TRUE, Content, p + 3)
  BY <1>4, <1>9, Zenon DEF Filling, p
<1>11. Follows(chunk', todo', TRUE, Content, p + 3)
  BY <1>1, <1>5, <1>6, <1>7, <1>10, FollowsRecv, Zenon
<1>12. Filling(k)'
  BY <1>1, <1>4, <1>5, <1>9, <1>11 DEF Filling, p
<1>13. AtChunk'
  BY <1>1, <1>4, <1>5, <1>12 DEF AtChunk
<1> QED
  BY <1>1, <1>13 DEF BodyInv, Ends

\* What begins with c where a frame has c, begins with c.
LEMMA FrameData ==
  ASSUME NEW stream \in Seq(Bytes), NEW u \in Seq(Bytes), NEW c \in Seq(Bytes),
         NEW p \in Nat, FrameAt(stream, p, c), Lies(u, stream, p + 3), Len(c) <= Len(u)
  PROVE  SubSeq(u, 1, Len(c)) = c
<1> DEFINE s == SubSeq(u, 1, Len(c))
<1>1. Len(c) \in 0 .. Len(u)
  OBVIOUS
<1>2. s \in Seq(Bytes) /\ Len(s) = Len(c) /\ \A i \in 1 .. Len(c) : s[i] = u[i]
  BY <1>1, HeadTyped
<1> HIDE DEF s
<1>3. ASSUME NEW i \in 1 .. Len(s) PROVE s[i] = c[i]
  <2>1. i \in 1 .. Len(c) /\ i \in 1 .. Len(u)
    BY <1>1, <1>2
  <2>2. u[i] = stream[p + 3 + i]
    BY <2>1 DEF Lies
  <2>3. stream[p + 3 + i] = c[i]
    BY <2>1 DEF FrameAt
  <2> QED
    BY <1>2, <2>1, <2>2, <2>3
<1>4. s = c
  BY <1>2, <1>3, SameSeq
<1> QED
  BY <1>4 DEF s

\* A chunk that is whole is passed on as it is; what is left over is what
\* follows its frame.
LEMMA ChunkIsPassed ==
  ASSUME Inv, EndChunk, ~cut, Honest
  PROVE  BodyInv'
<1>1. /\ mode = "chunk" /\ ~(Len(chunk) < want + 2)
      /\ client' = client \o SubSeq(chunk, 1, want) \o CRLF
      /\ file' = file \o SubSeq(chunk, 1, want)
      /\ data' = Following /\ chunk' = <<>>
      /\ \/ mode' = "tooDeep" /\ calls = MaxCalls
         \/ mode' = "size" /\ calls' = calls + 1
      /\ UNCHANGED <<kind, chunks, todo>>
  <2>1. StreamTypeOK
    BY DEF Inv, StreamInv
  <2>2. want + 2 \in Nat /\ Len(chunk) \in Nat
    BY <2>1 DEF StreamTypeOK
  <2> QED
    BY <2>2 DEF EndChunk, server
<1>2. StreamTypeOK /\ Sends
  BY DEF Inv, StreamInv
<1>3. AtChunk
  BY <1>1 DEF Inv, BodyInv
<1>4. PICK k \in 0 .. Len(chunks) - 1 : Filling(k)
  BY <1>3 DEF AtChunk
<1>5. /\ chunks \in Seq(Seq(Bytes)) /\ ChunkSizes(chunks) /\ Content \in Seq(Bytes)
      /\ Len(chunks) \in Nat /\ Content = Encoded(chunks)
      /\ Body = FlattenSeq(chunks) /\ kind = Chunked
      /\ Content' = Content /\ Body' = Body /\ ToClient' = HexedAll(chunks)
  BY <1>1, <1>2, <1>3, ChunkedContent DEF AtChunk, Content, Body, ToClient
<1>k. /\ k \in 0 .. Len(chunks) /\ k < Len(chunks) /\ k + 1 \in 0 .. Len(chunks)
      /\ k + 1 \in 1 .. Len(chunks) /\ k \in Nat
  BY <1>5
<1> DEFINE p == Place(chunks, k)
           c == chunks[k + 1]
           u == chunk \o data
<1>6. p \in Nat /\ FrameAt(Content, p, c) /\ Place(chunks, k + 1) = p + Len(c) + 5
  <2>1. ChunkAt(chunks, k) = c
    BY <1>k DEF ChunkAt
  <2> QED
    BY <1>5, <1>k, <2>1, FramesLie
<1>7. /\ c \in Seq(Bytes) /\ Len(c) \in Nat
      /\ chunk \in Seq(Bytes) /\ data \in Seq(Bytes) /\ todo \in Seq(Bytes)
      /\ Len(chunk) \in Nat
  BY <1>2, <1>5, <1>k DEF StreamTypeOK
<1>8. /\ calls = k + 1 /\ file = Written(chunks, k) /\ want = Len(c)
      /\ client = Hexed(chunks, k) \o HexLine(Len(c))
      /\ Follows(u, todo, TRUE, Content, p + 3)
      /\ data # <<>> => Len(chunk) = want + 2
  BY <1>4, Zenon DEF Filling, p, c, u
<1> HIDE DEF p, c
<1>9. u \in Seq(Bytes) /\ Len(u) = Len(chunk) + Len(data) /\ Len(data) \in Nat
      /\ Joins(u, chunk, data, Len(data))
  <2>1. u \in Seq(Bytes) /\ Joins(u, chunk, data, Len(data))
    BY <1>7, Appended
  <2>2. Len(data) \in Nat
    BY <1>7
  <2> QED
    BY <2>1, <2>2 DEF Joins
<1>10. want + 2 \in 0 .. Len(chunk) /\ want + 2 \in 0 .. Len(u) /\ want \in 0 .. Len(chunk)
  <2>1. want \in Nat /\ want + 2 <= Len(chunk)
    <3>1. want \in Nat
      BY <1>7, <1>8
    <3> QED
      BY <1>1, <1>7, <3>1
  <2>2. Len(chunk) <= Len(u) /\ Len(u) \in Nat
    BY <1>7, <1>9
  <2> HIDE DEF u
  <2> QED
    BY <1>7, <2>1, <2>2
<1>11. SubSeq(chunk, 1, want) = c
  <2>1. Lies(u, Content, p + 3)
    BY <1>8 DEF Follows
  <2>2. Lies(chunk, Content, p + 3)
    <3>1. p + 3 + Len(u) <= Len(Content) /\ \A i \in 1 .. Len(u) : u[i] = Content[p + 3 + i]
      BY <2>1 DEF Lies
    <3>2. Len(Content) \in Nat
      BY <1>5
    <3> HIDE DEF u
    <3>3. p + 3 + Len(chunk) <= Len(Content)
      BY <1>6, <1>7, <1>9, <3>1, <3>2
    <3>4. \A i \in 1 .. Len(chunk) : i \in 1 .. Len(u) /\ u[i] = chunk[i]
      BY <1>7, <1>9 DEF Joins
    <3> QED
      BY <3>1, <3>3, <3>4 DEF Lies
  <2>3. Len(c) <= Len(chunk)
    BY <1>7, <1>8, <1>10
  <2>4. SubSeq(chunk, 1, Len(c)) = c
    BY <1>5, <1>6, <1>7, <2>2, <2>3, FrameData
  <2> QED
    BY <1>8, <2>4
<1>12. data' = SubSeq(u, want + 2 + 1, Len(u))
  <2>1. want + 3 = want + 2 + 1
    BY <1>7, <1>8
  <2>2. CASE data = <<>>
    <3>1. u = chunk
      BY <1>7, <2>2, Emptied
    <3>2. data' = SubSeq(chunk, want + 3, Len(chunk))
      BY <1>1, <2>2 DEF Following
    <3> QED
      BY <2>1, <3>1, <3>2, Zenon
  <2>3. CASE data # <<>>
    <3>1. data' = data /\ want + 2 + 1 = Len(chunk) + 1
      BY <1>1, <1>8, <2>3 DEF Following
    <3>2. data = SubSeq(chunk \o data, Len(chunk) + 1, Len(chunk \o data))
      BY <1>7, Behind
    <3> QED
      BY <3>1, <3>2, Zenon
  <2> QED
    BY <2>2, <2>3
<1> HIDE DEF u
<1>13. Follows(data', todo', TRUE, Content, Place(chunks, k + 1))
  <2>1. want + 2 + 1 \in Nat \ {0} /\ p + 3 \in Nat /\ p + 3 + (want + 2) = Place(chunks, k + 1)
    BY <1>6, <1>7, <1>8
  <2>2. Follows(data', todo, TRUE, Content, p + 3 + (want + 2))
    BY <1>5, <1>7, <1>8, <1>9, <1>10, <1>12, <2>1, FollowsDrop
  <2> QED
    BY <1>1, <2>1, <2>2, Zenon
<1>14. /\ file' = Written(chunks, k + 1)
       /\ client' = Hexed(chunks, k + 1)
  <2>1. /\ Written(chunks, k + 1) = Written(chunks, k) \o c
        /\ Hexed(chunks, k + 1) = Hexed(chunks, k) \o HexLine(Len(c)) \o c \o CRLF
    <3>1. HexGrows(chunks, k)
      BY <1>4, <1>5, HexedGrows
    <3>2. Hexed(chunks, k + 1) = Hexed(chunks, k) \o HexLine(Len(c)) \o c \o CRLF
      BY <3>1, Zenon DEF HexGrows, c
    <3>3. Written(chunks, k + 1) = Written(chunks, k) \o c
      BY <1>4, <1>5, WrittenGrows DEF c
    <3> QED
      BY <3>2, <3>3
  <2> QED
    BY <1>1, <1>8, <1>11, <2>1, Zenon
<1>15. CASE mode' = "size" /\ calls' = calls + 1
  <2>1. calls' = (k + 1) + 1
    BY <1>8, <1>15
  <2>2. Sizing(k + 1)'
    BY <1>1, <1>5, <1>13, <1>14, <2>1 DEF Sizing
  <2>3. AtSize'
    BY <1>1, <1>5, <1>k, <2>2 DEF AtSize
  <2> QED
    BY <1>15, <2>3 DEF BodyInv, Ends
<1>16. CASE mode' = "tooDeep" /\ calls = MaxCalls
  <2>1. Prefixed'
    <3>1. IsPrefix(file', Body')
      BY <1>5, <1>k, <1>14, WrittenGrows
    <3>2. IsPrefix(client', ToClient')
      BY <1>5, <1>k, <1>14, HexedGrows
    <3> QED
      BY <3>1, <3>2 DEF Prefixed
  <2>2. Len(chunks') >= MaxCalls
    BY <1>1, <1>5, <1>k, <1>8, <1>16
  <2>3. Ended'
    BY <1>16, <2>1, <2>2 DEF Ended
  <2> QED
    BY <1>16, <2>3 DEF BodyInv
<1> QED
  BY <1>1, <1>15, <1>16

LEMMA MoreOfLength ==
  ASSUME Inv, NEW n \in 1 .. MaxRecv, RecvLength(n), ~cut, Honest
  PROVE  BodyInv'
<1> DEFINE bytes == data \o Segment(n)
           u == file \o data
<1>1. /\ mode = "length" /\ Receive(n) /\ left' = left - n
      /\ \/ client' = client \o bytes /\ file' = file \o bytes /\ data' = <<>>
         \/ left' # 0 /\ data' = bytes /\ client' = client /\ file' = file
      /\ mode' = IF left' = 0 THEN "done" ELSE mode
      /\ UNCHANGED <<kind, chunks>>
  BY DEF RecvLength, server, Pass
<1>2. StreamTypeOK /\ Sends
  BY DEF Inv, StreamInv
<1>3. AtLength
  BY <1>1 DEF Inv, BodyInv
<1>4. /\ kind # Chunked /\ left = Len(todo) /\ client = file
      /\ Follows(u, todo, TRUE, Content, 0)
  BY <1>3 DEF AtLength
<1>5. /\ Content \in Seq(Bytes) /\ Body = Content
      /\ Content' = Content /\ Body' = Body /\ ToClient' = Body
  BY <1>1, <1>2, <1>4, PlainContent DEF Content, Body, ToClient
<1>6. /\ todo \in Seq(Bytes) /\ data \in Seq(Bytes) /\ file \in Seq(Bytes)
      /\ n \in 0 .. Len(todo) /\ Segment(n) \in Seq(Bytes)
      /\ todo' = SubSeq(todo, n + 1, Len(todo)) /\ Segment(n) = SubSeq(todo, 1, n)
      /\ todo' \in Seq(Bytes) /\ Len(todo') = Len(todo) - n
  BY <1>1, <1>2, SegmentTyped DEF StreamTypeOK, Receive, Segment
<1>7. u \in Seq(Bytes) /\ bytes \in Seq(Bytes) /\ file \o bytes \in Seq(Bytes)
  <2>1. u \in Seq(Bytes) /\ bytes \in Seq(Bytes)
    BY <1>6, Appended
  <2> HIDE DEF bytes
  <2>2. file \o bytes \in Seq(Bytes)
    BY <1>6, <2>1, Appended
  <2> QED
    BY <2>1, <2>2
<1>8. Follows(file \o bytes, todo', TRUE, Content, 0)
  <2>1. file \o bytes = u \o SubSeq(todo, 1, n)
    <3> DEFINE g == Segment(n)
    <3>1. g \in Seq(Bytes) /\ g = SubSeq(todo, 1, n)
      BY <1>6
    <3> HIDE DEF g
    <3>2. file \in Seq(Bytes) /\ data \in Seq(Bytes) /\ g \in Seq(Bytes)
      BY <1>6, <3>1
    <3>3. file \o (data \o g) = (file \o data) \o g
      BY ONLY <3>2
    <3> QED
      BY <3>1, <3>3, Zenon DEF g
  <2> HIDE DEF u, bytes
  <2> QED
    BY <1>4, <1>5, <1>6, <1>7, <2>1, FollowsRecv, Zenon
<1> HIDE DEF bytes
<1>9. left' = Len(todo') /\ left' \in Nat
  BY <1>1, <1>4, <1>6
<1>10. file' \o data' = file \o bytes /\ client' = file'
  <2>1. CASE client' = client \o bytes /\ file' = file \o bytes /\ data' = <<>>
    BY <1>4, <1>7, <2>1, Emptied
  <2>2. CASE data' = bytes /\ client' = client /\ file' = file
    BY <1>4, <2>2
  <2> QED
    BY <1>1, <2>1, <2>2
<1>11. CASE left' = 0
  <2> DEFINE v == file \o bytes
  <2>1. file' = v
    BY <1>1, <1>11
  <2>2. v \in Seq(Bytes) /\ Follows(v, todo', TRUE, Content, 0)
    BY <1>7, <1>8
  <2> HIDE DEF v
  <2>3. Lies(v, Content, 0) /\ 0 + Len(v) + 0 = Len(Content)
    BY <1>9, <1>11, <2>2 DEF Follows
  <2>4. Len(v) = Len(Content)
    <3>1. Len(v) \in Nat
      BY <2>2
    <3> QED
      BY <2>3, <3>1
  <2>5. v = Content
    BY <1>5, <2>2, <2>3, <2>4, LiesWhole
  <2>6. IsPrefix(Content, Content)
    <3>1. Starts(Content, Content)
      BY <1>5 DEF Starts
    <3> QED
      BY <1>5, <3>1, StartsIsPrefix
  <2>7. mode' = "done" /\ kind' # Chunked
    BY <1>1, <1>4, <1>11
  <2>8. Prefixed'
    BY <1>5, <1>10, <2>1, <2>5, <2>6 DEF Prefixed
  <2>9. Ended'
    BY <1>5, <2>1, <2>5, <2>7, <2>8 DEF Ended
  <2> QED
    BY <2>7, <2>9 DEF BodyInv
<1>12. CASE left' # 0
  <2>1. mode' = "length"
    BY <1>1, <1>12
  <2>2. left' > 0
    BY <1>9, <1>12
  <2>3. AtLength'
    BY <1>1, <1>4, <1>5, <1>8, <1>9, <1>10, <2>2 DEF AtLength
  <2> QED
    BY <2>1, <2>3 DEF BodyInv, Ends
<1> QED
  BY <1>11, <1>12

LEMMA BodyStep ==
  ASSUME Inv, [StreamNext]_streamVars
  PROVE  BodyInv'
<1> SUFFICES ASSUME ~cut', Honest' PROVE BodyInv'
  BY DEF BodyInv
<1>1. ASSUME UNCHANGED <<cut, kind, chunks>> PROVE ~cut /\ Honest
  BY <1>1 DEF Honest
<1>2. ASSUME NEW n \in 1 .. MaxRecv, RecvHeader(n) PROVE BodyInv'
  <2>1. UNCHANGED <<kind, chunks>>
    BY <1>2 DEF RecvHeader, server
  <2>2. Honest
    BY <2>1 DEF Honest
  <2> QED
    BY <1>2, <2>2, BodyBegins
<1>3. ASSUME NEW n \in 1 .. MaxRecv, RecvSize(n) \/ RecvChunk(n) \/ RecvLength(n)
      PROVE  BodyInv'
  <2>1. UNCHANGED <<cut, kind, chunks>>
    BY <1>3 DEF RecvSize, RecvChunk, RecvLength, server
  <2> QED
    BY <1>1, <1>3, <2>1, MoreOfSize, MoreOfChunk, MoreOfLength
<1>4. CASE ReadSize \/ EndChunk
  <2>1. UNCHANGED <<cut, kind, chunks>>
    BY <1>4 DEF ReadSize, EndChunk, server
  <2> QED
    BY <1>1, <1>4, <2>1, SizeIsRead, ChunkIsPassed
<1>5. CASE Lose
  <2>1. mode' = "dead" /\ UNCHANGED <<cut, kind, chunks, client, file>>
    BY <1>5 DEF Lose, server
  <2>2. Prefixed
    BY <1>1, <2>1, AlwaysPrefixed
  <2>3. Prefixed'
    BY <2>1, <2>2 DEF Prefixed, Body, ToClient
  <2>4. Ended'
    BY <2>1, <2>3 DEF Ended
  <2> QED
    BY <2>1, <2>4 DEF BodyInv
<1>6. CASE SpinAtEnd
  <2>1. Waiting /\ todo = <<>> /\ UNCHANGED <<cut, kind, chunks>>
    BY <1>6 DEF SpinAtEnd, server
  <2> QED
    BY <1>1, <2>1, AllCome
<1>7. CASE UNCHANGED streamVars
  <2>1. /\ UNCHANGED <<kind, chunks, todo, mode, data, chunk, want, left, calls, client, file, cut>>
        /\ UNCHANGED <<Content, Body, ToClient, Honest>>
    BY <1>7 DEF streamVars, Content, Body, ToClient, Honest
  <2>2. BodyInv
    BY DEF Inv
  <2> QED
    BY <2>1, <2>2 DEF BodyInv, AtSize, Sizing, AtChunk, Filling, AtLength, Ended, Prefixed
<1> QED
  BY <1>2, <1>3, <1>4, <1>5, <1>6, <1>7 DEF StreamNext

LEMMA AlwaysInv == StreamSpec => []Inv
<1>1. StreamInit => Inv
  <2>1. StreamInit => BodyInv
    BY DEF StreamInit, BodyInv, Ends
  <2> QED
    BY <2>1, InitStreamInv, InitHeader DEF Inv
<1>2. Inv /\ [StreamNext]_streamVars => Inv'
  <2>1. Inv /\ [StreamNext]_streamVars => StreamInv' /\ HeaderInv'
    BY StreamInvStep, HeaderStep DEF Inv
  <2>2. Inv /\ [StreamNext]_streamVars => BodyInv'
    BY BodyStep
  <2> QED
    BY <2>1, <2>2 DEF Inv
<1> QED
  BY <1>1, <1>2, PTL DEF StreamSpec

\* What handleClientRequest and its readers store is the body as far as it came,
\* in order and once, and what they send the same, with each size rewritten by
\* hex(); a response that ended is complete in both: for every body, chunked or
\* not, every size of segments and buffers.
THEOREM StreamReassembled == StreamSpec => []BodyReassembled
<1>1. ASSUME Inv PROVE BodyReassembled
  <2> SUFFICES ASSUME ~cut, Honest
               PROVE  /\ IsPrefix(file, Body)
                      /\ IsPrefix(client, IF kind = Chunked THEN Reframed \o LastFrame ELSE Body)
                      /\ mode = "done" => /\ file = Body
                                          /\ kind = Chunked => client = Reframed \o LastFrame
    BY DEF BodyReassembled
  <2>1. Prefixed
    BY <1>1, AlwaysPrefixed
  <2>2. Reframed \o LastFrame = HexedAll(chunks)
    BY DEF Reframed, HexedAll, HexFrames
  <2>3. mode = "done" => file = Body /\ (kind = Chunked => client = HexedAll(chunks))
    BY <1>1 DEF Inv, BodyInv, Ended, Ends
  <2> QED
    BY <2>1, <2>2, <2>3, Zenon DEF Prefixed, ToClient
<1> QED
  BY <1>1, AlwaysInv, PTL

\* A server that sends what it announced is never waited for when it has sent
\* all of it, so the end of its stream makes no loop spin; its sizes are read as
\* sizes, and only a body of as many chunks as the recursion has room for fails.
THEOREM HonestNeverSpins == StreamSpec => []NoNeedlessEnd
<1>1. ASSUME Inv PROVE NoNeedlessEnd
  <2> SUFFICES ASSUME ~cut, Honest
               PROVE  /\ todo = <<>> => ~Waiting
                      /\ mode \notin {"badSize", "spin"}
                      /\ mode = "tooDeep" => Len(chunks) >= MaxCalls
    BY DEF NoNeedlessEnd
  <2>1. todo = <<>> => ~Waiting
    BY <1>1, AllCome
  <2>2. mode \in Ends => Ended
    BY <1>1 DEF Inv, BodyInv
  <2> QED
    BY <2>1, <2>2 DEF Ended, Ends
<1> QED
  BY <1>1, AlwaysInv, PTL
=============================================================================
