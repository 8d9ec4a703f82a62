------------------------------ MODULE CertCache ------------------------------
(***************************************************************************)
(* load_cert by the threads of one process over the cache in memory        *)
(* (CertificateAuthority with an LRUCache, an OrderedDict with a size).    *)
(* Nothing is locked: a thread may be stopped between the lookup and the   *)
(* store, and inside __setitem__ between the store, the look at the size   *)
(* and popitem.  get does not move an entry, so the oldest entry goes.     *)
(***************************************************************************)
EXTENDS FiniteSets, Functions, Naturals, Sequences

CONSTANTS Threads, Hosts,
          Sizes  \* the max_size a cache may be made with

ASSUME CacheAssumption == IsFiniteSet(Threads) /\ IsFiniteSet(Hosts) /\ Sizes \subseteq Nat

VARIABLES maxSize,  \* self.max_size
          cache,    \* the hosts with an entry, oldest first
          at,       \* where each thread is in load_cert
          asked     \* the host it wants a certificate for

cacheVars == <<maxSize, cache, at, asked>>

CacheTypeOK == /\ maxSize \in Sizes
               /\ cache \in Seq(Hosts) /\ IsInjective(cache)
               /\ at \in [Threads -> {"out", "get", "make", "trim", "evict"}]
               /\ asked \in [Threads -> Hosts]

CacheInit == /\ maxSize \in Sizes
             /\ cache = <<>>
             /\ at = [t \in Threads |-> "out"]
             /\ asked \in {[t \in Threads |-> h] : h \in Hosts}

Cached(h) == h \in Range(cache)
Move(t, to) == at' = [at EXCEPT ![t] = to] /\ UNCHANGED <<maxSize, asked>>

Ask(t, h) == /\ at[t] = "out"
             /\ at' = [at EXCEPT ![t] = "get"]
             /\ asked' = [asked EXCEPT ![t] = h]
             /\ UNCHANGED <<maxSize, cache>>

Hit(t) == /\ at[t] = "get"
          /\ Cached(asked[t])
          /\ Move(t, "out")
          /\ UNCHANGED cache

Miss(t) == /\ at[t] = "get"
           /\ ~Cached(asked[t])
           /\ Move(t, "make")
           /\ UNCHANGED cache

\* Mutant: the size is looked at before the entry is added.
Store_TrimsFull(t) ==
  /\ at[t] = "make"
  /\ Move(t, IF Len(cache) > maxSize THEN "trim" ELSE "out")
  /\ cache' = IF Cached(asked[t]) THEN cache ELSE Append(cache, asked[t])

\* The certificate is made; an entry another thread stored keeps its place.
Store(t) == /\ at[t] = "make"
            /\ Move(t, "trim")
            /\ cache' = IF Cached(asked[t]) THEN cache ELSE Append(cache, asked[t])

\* Mutant: a full cache is one too large.
TooLarge_WhenFull == Len(cache) >= maxSize
TooLarge == Len(cache) > maxSize

Trim(t) == /\ at[t] = "trim"
           /\ Move(t, IF TooLarge THEN "evict" ELSE "out")
           /\ UNCHANGED cache

\* popitem(last=False); of an empty OrderedDict it raises KeyError.
Evict(t) == /\ at[t] = "evict"
            /\ cache # <<>>
            /\ Move(t, "out")
            /\ cache' = Tail(cache)

EvictNothing(t) == /\ at[t] = "evict"
                   /\ cache = <<>>
                   /\ Move(t, "out")
                   /\ UNCHANGED cache

\* The process ends and is started again.
CacheRestart == /\ cache' = <<>>
                /\ at' = [t \in Threads |-> "out"]
                /\ UNCHANGED <<maxSize, asked>>

Serve(t) == Hit(t) \/ Trim(t) \/ Evict(t)
CacheNext == \/ \E t \in Threads : \/ \E h \in Hosts : Ask(t, h)
                                   \/ Serve(t) \/ Miss(t) \/ Store(t) \/ EvictNothing(t)
             \/ CacheRestart

CacheSpec == CacheInit /\ [][CacheNext]_cacheVars
-----------------------------------------------------------------------------
Evicting == {t \in Threads : at[t] = "evict"}
Trimming == {t \in Threads : at[t] = "trim"}

\* The cache is above max_size by no more than the threads that have stored an
\* entry and have not looked at the size, or not evicted, yet: with no thread
\* inside __setitem__ it is within its size, however the threads interleaved.
Bounded == Len(cache) <= maxSize + Cardinality(Trimming) + Cardinality(Evicting)

\* As long as all hosts fit, none is evicted: each is made again only by
\* threads that asked for it at the same time.  And though threads that all saw
\* one surplus entry each evict one, with at most max_size + 1 threads no
\* popitem meets an empty cache.
EvictsRight ==
  Evicting # {} => /\ Cardinality(Hosts) > maxSize
                   /\ Cardinality(Threads) <= maxSize + 1 => cache # <<>>
=============================================================================
