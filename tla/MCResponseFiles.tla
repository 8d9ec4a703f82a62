-------------------------- MODULE MCResponseFiles --------------------------
(* Model values of the directory model; see the .cfg files. *)
EXTENDS ResponseFiles, TLC

CONSTANTS w1, w2, n1, n2, n3, clean1, clean2, malware

WorkerPair == {w1, w2}
NameTriple == {n1, n2, n3}
BodySet == {clean1, clean2, malware}
InfectedSet == {malware}

\* Workers and names are interchangeable in every property checked.
PairSymmetry == Permutations(WorkerPair) \cup Permutations(NameTriple)
=============================================================================
