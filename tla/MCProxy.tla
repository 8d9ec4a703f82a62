------------------------------ MODULE MCProxy ------------------------------
(* Model values of the composed proxy; see the .cfg files. *)
EXTENDS Proxy, TLC

CONSTANTS w1, w2, n1, n2, clean, malware, h1, h2

OneWorker == {w1}
TwoWorkers == {w1, w2}
TwoNames == {n1, n2}
BodySet == {clean, malware}
InfectedSet == {malware}
OneHost == {h1}
TwoHosts == {h1, h2}

\* Threads and names are interchangeable in the safety properties; numbers of
\* descriptors are not (the kernel hands out the lowest).
TwoSymmetry == Permutations(TwoWorkers) \cup Permutations(TwoNames)
=============================================================================
