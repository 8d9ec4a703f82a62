-------------------------- MODULE CertFilesProofs --------------------------
(***************************************************************************)
(* Proofs about CertFiles: for any number of runs, hosts and roots, what   *)
(* is on disk was signed by the root on disk, and a run that ends leaves   *)
(* that root whole.                                                        *)
(***************************************************************************)
EXTENDS CertFiles, TLAPS

\* What a run under way knows: it has not ended, its file is the root's or its
\* host's, and past the root it has a certificate.
RunState == \A r \in Runs : pc[r] # "idle" =>
              /\ exit[r] = "none"
              /\ file[r] # "root" => file[r] = host[r] /\ ca[r] # 0

\* Unless roots were made at the same time or renewed, one run at most is
\* storing a root, it found none on disk, and whoever is past the root and
\* whatever was signed agrees with the root on disk.
OneRoot == raced \/ renewed \/
             /\ \A r \in Runs : Storing(r) => disk["root"] = 0
             /\ \A q, r \in Runs : Storing(q) /\ Storing(r) => q = r
             /\ \A r \in Runs : pc[r] # "idle" /\ file[r] # "root" => ca[r] = disk["root"]
             /\ \A h \in Hosts : Whole(h) => disk[h] = disk["root"]

\* Without a whole root nothing ran yet, or a run died, or one is at the root.
RootOwed == disk["root"] = 0 =>
              \/ \A r \in Runs : pc[r] = "idle" /\ exit[r] = "none"
              \/ \E r \in Runs : exit[r] = "died"
              \/ \E r \in Runs : pc[r] # "idle" /\ file[r] = "root"

IInv == TypeOK /\ RunState /\ OneRoot /\ RootOwed

LEMMA InitIInv == Init => IInv
<1> SUFFICES ASSUME Init PROVE IInv
  OBVIOUS
<1> USE CertAssumption DEF Init, Files
<1>1. TypeOK
  <2>1. \A r \in Runs : pc[r] = "idle" /\ host[r] = "none" /\ file[r] = "root"
    OBVIOUS
  <2>2. \A r \in Runs : pc[r] \in {"open", "write"} => ca[r] # 0
    BY <2>1
  <2>3. disk \in [Files -> 0 .. MaxRoots] /\ ca \in [Runs -> 0 .. MaxRoots]
        /\ roots \in 0 .. MaxRoots
    OBVIOUS
  <2>4. host \in [Runs -> Hosts \cup {"none"}] /\ file \in [Runs -> Files]
    OBVIOUS
  <2>5. /\ pc \in [Runs -> {"idle", "get", "open", "write"}]
        /\ exit \in [Runs -> {"none", "created", "existed", "died"}]
    OBVIOUS
  <2>6. force \in [Runs -> BOOLEAN] /\ raced \in BOOLEAN /\ renewed \in BOOLEAN
    OBVIOUS
  <2> QED
    BY <2>2, <2>3, <2>4, <2>5, <2>6 DEF TypeOK
<1>2. RunState /\ RootOwed
  BY DEF RunState, RootOwed
<1>3. OneRoot
  BY DEF OneRoot, Storing, Whole
<1> QED
  BY <1>1, <1>2, <1>3 DEF IInv

LEMMA TypeStep == IInv /\ [Next]_vars => TypeOK'
<1> SUFFICES ASSUME IInv, [Next]_vars PROVE TypeOK'
  OBVIOUS
<1> USE CertAssumption DEF IInv, TypeOK, RunState, Files
<1>1. ASSUME NEW r \in Runs, Start(r) PROVE TypeOK'
  BY <1>1 DEF Start, Goto
<1>2. ASSUME NEW r \in Runs, Load(r) PROVE TypeOK'
  BY <1>2 DEF Load, Done, Return, Goto
<1>3. ASSUME NEW r \in Runs, GenerateRoot(r) PROVE TypeOK'
  BY <1>3 DEF GenerateRoot, Goto
<1>4. ASSUME NEW r \in Runs, GenerateHost(r) PROVE TypeOK'
  BY <1>4 DEF GenerateHost, Goto
<1>5. ASSUME NEW r \in Runs, Open(r) PROVE TypeOK'
  BY <1>5 DEF Open, Goto
<1>6. ASSUME NEW r \in Runs, Write(r) PROVE TypeOK'
  BY <1>6 DEF Write, Done, Return, Goto
<1>7. ASSUME NEW r \in Runs, Die(r) PROVE TypeOK'
  BY <1>7 DEF Die, Return, Goto
<1>8. CASE UNCHANGED vars
  BY <1>8 DEF vars
<1> QED
  BY <1>1, <1>2, <1>3, <1>4, <1>5, <1>6, <1>7, <1>8 DEF Next

LEMMA RunStateStep == IInv /\ [Next]_vars => RunState'
<1> SUFFICES ASSUME IInv, [Next]_vars PROVE RunState'
  OBVIOUS
<1> USE CertAssumption DEF IInv, TypeOK, RunState, Files, Found, Whole
<1>1. ASSUME NEW r \in Runs, Start(r) PROVE RunState'
  BY <1>1 DEF Start, Goto
<1>2. ASSUME NEW r \in Runs, Load(r) PROVE RunState'
  BY <1>2 DEF Load, Done, Return, Goto
<1>3. ASSUME NEW r \in Runs, GenerateRoot(r) PROVE RunState'
  BY <1>3 DEF GenerateRoot, Goto
<1>4. ASSUME NEW r \in Runs, GenerateHost(r) PROVE RunState'
  BY <1>4 DEF GenerateHost, Goto
<1>5. ASSUME NEW r \in Runs, Open(r) PROVE RunState'
  BY <1>5 DEF Open, Goto
<1>6. ASSUME NEW r \in Runs, Write(r) PROVE RunState'
  BY <1>6 DEF Write, Done, Return, Goto
<1>7. ASSUME NEW r \in Runs, Die(r) PROVE RunState'
  BY <1>7 DEF Die, Return, Goto
<1>8. CASE UNCHANGED vars
  BY <1>8 DEF vars
<1> QED
  BY <1>1, <1>2, <1>3, <1>4, <1>5, <1>6, <1>7, <1>8 DEF Next

LEMMA OneRootStep == IInv /\ [Next]_vars => OneRoot'
<1> SUFFICES ASSUME IInv, [Next]_vars PROVE OneRoot'
  OBVIOUS
<1> USE CertAssumption DEF IInv, TypeOK, RunState, Files, OneRoot, Storing, Whole
<1>1. ASSUME NEW r \in Runs, Start(r) PROVE OneRoot'
  BY <1>1 DEF Start, Goto
<1>2. ASSUME NEW r \in Runs, Load(r) PROVE OneRoot'
  BY <1>2 DEF Load, Found, Done, Return, Goto
<1>3. ASSUME NEW r \in Runs, GenerateRoot(r) PROVE OneRoot'
  <2>1. ~renewed' => disk["root"] = 0
    BY <1>3 DEF GenerateRoot, Found, Overwrites
  <2>2. ~raced' => ~raced /\ \A q \in Runs : ~Storing(q)
    BY <1>3 DEF GenerateRoot
  <2> QED
    BY <1>3, <2>1, <2>2 DEF GenerateRoot, Goto
<1>4. ASSUME NEW r \in Runs, GenerateHost(r) PROVE OneRoot'
  BY <1>4 DEF GenerateHost, Goto
<1>5. ASSUME NEW r \in Runs, Open(r) PROVE OneRoot'
  BY <1>5 DEF Open, Goto
<1>6. ASSUME NEW r \in Runs, Write(r) PROVE OneRoot'
  <2>1. CASE file[r] = "root"
    BY <1>6, <2>1 DEF Write, Done, Return, Goto
  <2>2. CASE file[r] # "root"
    BY <1>6, <2>2 DEF Write, Done, Return, Goto
  <2> QED
    BY <2>1, <2>2
<1>7. ASSUME NEW r \in Runs, Die(r) PROVE OneRoot'
  BY <1>7 DEF Die, Return, Goto
<1>8. CASE UNCHANGED vars
  BY <1>8 DEF vars
<1> QED
  BY <1>1, <1>2, <1>3, <1>4, <1>5, <1>6, <1>7, <1>8 DEF Next

LEMMA RootOwedStep == IInv /\ [Next]_vars => RootOwed'
<1> SUFFICES ASSUME IInv, [Next]_vars PROVE RootOwed'
  OBVIOUS
<1> USE CertAssumption DEF IInv, TypeOK, RunState, Files, RootOwed
<1>1. ASSUME NEW r \in Runs, Start(r) PROVE RootOwed'
  BY <1>1 DEF Start, Goto
<1>2. ASSUME NEW r \in Runs, Load(r) PROVE RootOwed'
  BY <1>2 DEF Load, Found, Whole, Done, Return, Goto
<1>3. ASSUME NEW r \in Runs, GenerateRoot(r) PROVE RootOwed'
  BY <1>3 DEF GenerateRoot, Goto
<1>4. ASSUME NEW r \in Runs, GenerateHost(r) PROVE RootOwed'
  BY <1>4 DEF GenerateHost, Goto
<1>5. ASSUME NEW r \in Runs, Open(r) PROVE RootOwed'
  BY <1>5 DEF Open, Goto
<1>6. ASSUME NEW r \in Runs, Write(r) PROVE RootOwed'
  <2>1. CASE file[r] = "root"
    BY <1>6, <2>1 DEF Write
  <2>2. CASE file[r] # "root"
    BY <1>6, <2>2 DEF Write, Done, Return, Goto
  <2> QED
    BY <2>1, <2>2
<1>7. ASSUME NEW r \in Runs, Die(r) PROVE RootOwed'
  BY <1>7 DEF Die, Return, Goto
<1>8. CASE UNCHANGED vars
  BY <1>8 DEF vars
<1> QED
  BY <1>1, <1>2, <1>3, <1>4, <1>5, <1>6, <1>7, <1>8 DEF Next

LEMMA AlwaysIInv == Spec => []IInv
<1>1. IInv /\ [Next]_vars => IInv'
  BY TypeStep, RunStateStep, OneRootStep, RootOwedStep DEF IInv
<1> QED
  BY InitIInv, <1>1, PTL DEF Spec

\* Runs of the certificate tool stay within their types, and none stores a
\* certificate before it has a root.
THEOREM CertFilesTyped == Spec => []TypeOK
<1>1. IInv => TypeOK
  BY DEF IInv
<1> QED
  BY AlwaysIInv, <1>1, PTL

\* Whatever runs overlap or die, the host certificates on disk were signed by
\* the root on disk, unless roots were made at the same time or renewed.
THEOREM SignedByTheRoot == Spec => []AllSigned
<1>1. IInv => AllSigned
  BY DEF IInv, OneRoot, AllSigned
<1> QED
  BY AlwaysIInv, <1>1, PTL

\* When all runs have ended by themselves the root is whole on disk.
THEOREM RunsRepair == Spec => []RunRepairs
<1>1. IInv => RunRepairs
  BY DEF IInv, RootOwed, RunRepairs, Whole
<1> QED
  BY AlwaysIInv, <1>1, PTL
=============================================================================
