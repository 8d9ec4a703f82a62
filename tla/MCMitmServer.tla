---------------------------- MODULE MCMitmServer ----------------------------
(* Two threads, which differ in nothing, as do the hosts. *)
EXTENDS MitmServer, TLC

CONSTANTS t1, t2, h1, h2

TwoThreads == {t1, t2}
TwoHosts == {h1, h2}
ThreadSymmetry == Permutations(TwoThreads) \cup Permutations(TwoHosts)
=============================================================================
