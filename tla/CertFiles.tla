----------------------------- MODULE CertFiles -----------------------------
(***************************************************************************)
(* Certificates on disk: runs of the command line tool                     *)
(* (CertificateCreator.main), each of which loads or makes the root        *)
(* certificate (RootCACache) and then, if a host was given, that host's    *)
(* certificate (FileCache).  The start of the proxy is such a run without  *)
(* a host and without --force (Server.__init__).  A file is emptied when   *)
(* it is opened and gets its bytes when it is closed; a run may die        *)
(* between the two, and several may be under way at once: the lock of a    *)
(* FileCache is for the threads of one process.                            *)
(***************************************************************************)
EXTENDS Naturals

CONSTANTS Runs,     \* processes that may be running at the same time
          Hosts,    \* host names
          MaxRoots  \* bound: root certificates ever made

ASSUME CertAssumption == {"root", "none"} \cap Hosts = {} /\ MaxRoots \in Nat

VARIABLES disk,    \* contents of the root's and of each host's file
          pc,      \* where each run is
          host,    \* its hostname argument
          force,   \* its --force argument
          file,    \* the file it is busy with
          ca,      \* self.ca_cert
          roots,   \* number of root certificates made so far
          exit,    \* how the last run of each process ended
          raced,   \* history: did a run make a root while another stored one?
          renewed  \* history: has a run been told to replace the root?

vars == <<disk, pc, host, force, file, ca, roots, exit, raced, renewed>>

\* A root certificate is its number, a host's certificate the number of the
\* root that signed it; 0 is a file that is empty or does not exist, which
\* FileCache.get does not tell apart.
Files == Hosts \cup {"root"}
Whole(f) == disk[f] # 0

TypeOK == /\ disk \in [Files -> 0 .. MaxRoots]
          /\ pc \in [Runs -> {"idle", "get", "open", "write"}]
          /\ host \in [Runs -> Hosts \cup {"none"}]
          /\ force \in [Runs -> BOOLEAN]
          /\ file \in [Runs -> Files]
          /\ ca \in [Runs -> 0 .. MaxRoots]
          /\ roots \in 0 .. MaxRoots
          /\ exit \in [Runs -> {"none", "created", "existed", "died"}]
          /\ raced \in BOOLEAN
          /\ renewed \in BOOLEAN
          /\ \A r \in Runs : pc[r] \in {"open", "write"} => ca[r] # 0

Init == /\ disk = [f \in Files |-> 0]
        /\ pc = [r \in Runs |-> "idle"]
        /\ host = [r \in Runs |-> "none"]
        /\ force = [r \in Runs |-> FALSE]
        /\ file = [r \in Runs |-> "root"]
        /\ ca = [r \in Runs |-> 0]
        /\ roots = 0
        /\ exit = [r \in Runs |-> "none"]
        /\ raced = FALSE
        /\ renewed = FALSE

-----------------------------------------------------------------------------
\* Mutant: --force of a run for a host renews the root as well.
MutantOverwrites(r) == force[r]

\* --force is about the host's file if there is one, about the root's if not.
Overwrites(r) == force[r] /\ (file[r] = host[r] \/ host[r] = "none")

\* Mutant: an empty file of a root that was once made is taken for that root.
MutantFound(r) == ~Overwrites(r) /\ (Whole(file[r]) \/ roots > 0)

Found(r) == ~Overwrites(r) /\ Whole(file[r])

\* r has made a root and has not stored it yet.
Storing(r) == file[r] = "root" /\ pc[r] \in {"open", "write"}

Goto(r, p) == pc' = [pc EXCEPT ![r] = p]

\* The end of a run, and of its first part: a run for a host goes on.
Return(r, how) == /\ Goto(r, "idle")
                  /\ exit' = [exit EXCEPT ![r] = how]
                  /\ UNCHANGED file
Done(r, how) ==
  IF file[r] = "root" /\ host[r] # "none"
    THEN Goto(r, "get") /\ file' = [file EXCEPT ![r] = host[r]] /\ UNCHANGED exit
    ELSE Return(r, how)

-----------------------------------------------------------------------------
Start(r) == /\ pc[r] = "idle"
            /\ Goto(r, "get")
            /\ \E h \in Hosts \cup {"none"} : host' = [host EXCEPT ![r] = h]
            /\ \E f \in BOOLEAN : force' = [force EXCEPT ![r] = f]
            /\ file' = [file EXCEPT ![r] = "root"]
            /\ ca' = [ca EXCEPT ![r] = 0]
            /\ exit' = [exit EXCEPT ![r] = "none"]
            /\ UNCHANGED <<disk, roots, raced, renewed>>

\* The file is a certificate: it is used as it is.
Load(r) == /\ pc[r] = "get"
           /\ Found(r)
           /\ ca' = IF file[r] = "root" THEN [ca EXCEPT ![r] = disk["root"]] ELSE ca
           /\ Done(r, "existed")
           /\ UNCHANGED <<disk, host, force, roots, raced, renewed>>

\* There is none, or it is to be replaced: make one in memory.
GenerateRoot(r) == /\ pc[r] = "get" /\ file[r] = "root"
                   /\ ~Found(r)
                   /\ roots < MaxRoots
                   /\ Goto(r, "open")
                   /\ roots' = roots + 1
                   /\ ca' = [ca EXCEPT ![r] = roots + 1]
                   /\ raced' = (raced \/ \E q \in Runs : Storing(q))
                   /\ renewed' = (renewed \/ (force[r] /\ host[r] = "none"))
                   /\ UNCHANGED <<disk, host, force, file, exit>>

GenerateHost(r) == /\ pc[r] = "get" /\ file[r] # "root"
                   /\ ~Found(r)
                   /\ Goto(r, "open")
                   /\ UNCHANGED <<disk, host, force, file, ca, roots, exit, raced, renewed>>

\* open(filename, 'wb')
Open(r) == /\ pc[r] = "open"
           /\ Goto(r, "write")
           /\ disk' = [disk EXCEPT ![file[r]] = 0]
           /\ UNCHANGED <<host, force, file, ca, roots, exit, raced, renewed>>

\* The end of the with statement: the bytes reach the file.
Write(r) == /\ pc[r] = "write"
            /\ disk' = [disk EXCEPT ![file[r]] = ca[r]]
            /\ Done(r, "created")
            /\ UNCHANGED <<host, force, ca, roots, raced, renewed>>

Die(r) == /\ pc[r] # "idle"
          /\ Return(r, "died")
          /\ UNCHANGED <<disk, host, force, ca, roots, raced, renewed>>

Next == \E r \in Runs : \/ Start(r) \/ Load(r)
                        \/ GenerateRoot(r) \/ GenerateHost(r)
                        \/ Open(r) \/ Write(r) \/ Die(r)

Spec == Init /\ [][Next]_vars

-----------------------------------------------------------------------------
\* Every host certificate on disk was signed by the root on disk, whatever
\* runs died half-way and however runs for hosts interleaved: load_cert signs
\* with the root that __init__ loaded, and loading comes after storing.  Two
\* exceptions: the root was renewed with --force, which leaves the host files
\* of the old root in place, or two runs made a root at the same time.
AllSigned == raced \/ renewed
             \/ \A h \in Hosts : Whole(h) => disk[h] = disk["root"]

\* When nothing runs and the last run of every process ended by itself, the
\* root is whole on disk: a run that died after open('wb') leaves an empty
\* file, which the next run takes for a missing one (FileCache.get) and fills.
RunRepairs == (/\ \A r \in Runs : pc[r] = "idle" /\ exit[r] # "died"
               /\ \E r \in Runs : exit[r] # "none")
              => Whole("root")
=============================================================================
