----------------------------- MODULE MitmServer -----------------------------
(***************************************************************************)
(* The threads of the Python proxy (Server of MITM.py): each handles one   *)
(* request over a plain or an intercepted connection, draws a file number  *)
(* under the lock, and stores the answer in a file of that number, which   *)
(* it unpacks if it was compressed.  Certificates come from CertCache.     *)
(* An exception that nobody catches ends the thread; its sockets are       *)
(* closed when its frames are freed.                                       *)
(***************************************************************************)
EXTENDS CertCache

CONSTANTS MaxFileName,  \* MAX_FILE_NAME
          MaxDraws      \* bound: file numbers drawn in all

ASSUME ServerAssumption == MaxFileName \in Nat \ {0} /\ MaxDraws \in Nat

VARIABLES pc,       \* where each thread is; "none" if there is none
          lock,     \* the threads that hold self.lock
          fileNum,  \* self.fileNum
          num,      \* requestHash of each thread
          enc,      \* the extension of the file it writes
          files,    \* ./responseMessages: who wrote each file, or Absent
          draws,    \* history: how many numbers were drawn so far
          id,       \* history: which draw the thread's number was
          shared    \* history: draws whose number was in use by another thread

serverVars == <<pc, lock, fileNum, num, enc, files, draws, id, shared>>
vars == <<cacheVars, serverVars>>

Numbers == 1 .. MaxFileName
Exts == {"gzip", "txt.br", "txt"}
Absent == {0}   \* no such file; a set of draws otherwise

Places == {"none", "request", "cert", "lock", "number", "count",
           "answer", "store", "unpack", "noFile", "stored", "spin"}
TypeOK == /\ CacheTypeOK
          /\ pc \in [Threads -> Places]
          /\ lock \subseteq Threads
          /\ fileNum \in 0 .. MaxDraws
          /\ num \in [Threads -> Numbers]
          /\ enc \in [Threads -> Exts]
          /\ files \in [Numbers \X Exts -> {Absent} \cup SUBSET (1 .. MaxDraws)]
          /\ draws \in 0 .. MaxDraws
          /\ id \in [Threads -> 0 .. MaxDraws]
          /\ shared \subseteq 1 .. MaxDraws

Init == /\ CacheInit
        /\ pc = [t \in Threads |-> "none"]
        /\ lock = {}
        /\ fileNum = 0
        /\ num = [t \in Threads |-> 1]
        /\ enc = [t \in Threads |-> "txt"]
        /\ files = [f \in Numbers \X Exts |-> Absent]
        /\ draws = 0
        /\ id = [t \in Threads |-> 0]
        /\ shared = {}

Goto(t, p) == pc' = [pc EXCEPT ![t] = p]
\* A step that touches nothing but the place of the thread.
Step(t, from, to) == /\ pc[t] = from
                     /\ Goto(t, to)
                     /\ UNCHANGED <<lock, fileNum, num, enc, files, draws, id, shared>>
\* The end of a thread, and of its variables.
End(t, from) == /\ pc[t] = from
                /\ Goto(t, "none")
                /\ num' = [num EXCEPT ![t] = 1]
                /\ enc' = [enc EXCEPT ![t] = "txt"]
                /\ id' = [id EXCEPT ![t] = 0]
                /\ UNCHANGED <<lock, fileNum, files, draws, shared>>

-----------------------------------------------------------------------------
Accept(t) == Step(t, "none", "request") /\ UNCHANGED cacheVars

\* The request is read and its server answers: it is sent on, or, after a
\* CONNECT, the thread gets a certificate to answer the client with, who sends
\* the request then.
Forward(t) == Step(t, "request", "lock") /\ UNCHANGED cacheVars
Intercept(t) == \E h \in Hosts : Step(t, "request", "cert") /\ Ask(t, h)
LoadCert(t) == /\ Miss(t) \/ Store(t) \/ Serve(t)
               /\ Step(t, "cert", IF at'[t] = "out" THEN "lock" ELSE "cert")
LoadCertFails(t) == EvictNothing(t) /\ End(t, "cert")

\* Mutant: no lock.
Acquire_Always(t) == /\ pc[t] = "lock" /\ draws < MaxDraws
                     /\ lock' = lock \cup {t}
                     /\ Goto(t, "number")
                     /\ UNCHANGED <<cacheVars, fileNum, num, enc, files, draws, id, shared>>
Acquire(t) == /\ pc[t] = "lock" /\ draws < MaxDraws
              /\ lock = {}
              /\ lock' = {t}
              /\ Goto(t, "number")
              /\ UNCHANGED <<cacheVars, fileNum, num, enc, files, draws, id, shared>>

\* A thread that has a number, and may have a file of that number open.
Live(t) == id[t] # 0

\* Mutant: the numbers start again one too late.
FileNumber_WrapsLate == (fileNum % (MaxFileName + 1)) + 1
FileNumber == (fileNum % MaxFileName) + 1

Number(t) == /\ pc[t] = "number"
             /\ num' = [num EXCEPT ![t] = FileNumber]
             /\ draws' = draws + 1
             /\ id' = [id EXCEPT ![t] = draws + 1]
             /\ LET others == {u \in Threads \ {t} : Live(u) /\ num[u] = FileNumber}
                IN shared' = shared \cup {id[u] : u \in others}
                              \cup (IF others = {} THEN {} ELSE {draws + 1})
             /\ Goto(t, "count")
             /\ UNCHANGED <<cacheVars, lock, fileNum, enc, files>>

\* self.fileNum += 1 and release.
Count(t) == /\ pc[t] = "count"
            /\ fileNum' = fileNum + 1
            /\ lock' = lock \ {t}
            /\ Goto(t, "answer")
            /\ UNCHANGED <<cacheVars, num, enc, files, draws, id, shared>>

-----------------------------------------------------------------------------
\* Files are named by number and extension; what an open file descriptor of a
\* removed file gets is lost.
File(t, ext) == <<num[t], ext>>
Put(t, ext, who) == files' = [files EXCEPT ![File(t, ext)] = who]
Has(t, ext) == files[File(t, ext)]
FilesOnly == UNCHANGED <<cacheVars, lock, fileNum, num, draws, id, shared>>

\* Mutant: the file is opened for appending.
OpenFile_Appends(t) == /\ pc[t] = "answer"
                       /\ \E e \in Exts : /\ enc' = [enc EXCEPT ![t] = e]
                                          /\ Put(t, e, Has(t, e) \ Absent)
                       /\ Goto(t, "store")
                       /\ FilesOnly

\* open(..., 'wb+') once the header is read and has a body.
OpenFile(t) == /\ pc[t] = "answer"
               /\ \E e \in Exts : enc' = [enc EXCEPT ![t] = e] /\ Put(t, e, {})
               /\ Goto(t, "store")
               /\ FilesOnly

\* dechunkResponse or nonchunkResponse wrote some of the body: it is in the file
\* whatever becomes of the rest.
StorePart(t) == /\ pc[t] = "store" /\ Has(t, enc[t]) # Absent
                /\ Put(t, enc[t], Has(t, enc[t]) \cup {id[t]})
                /\ UNCHANGED <<pc, enc>>
                /\ FilesOnly

\* They got all of it.
StoreBody(t) == /\ pc[t] = "store"
                /\ IF Has(t, enc[t]) = Absent
                     THEN UNCHANGED files
                     ELSE Put(t, enc[t], Has(t, enc[t]) \cup {id[t]})
                /\ Goto(t, IF enc[t] = "txt" THEN "stored" ELSE "unpack")
                /\ UNCHANGED enc
                /\ FilesOnly

\* unzipFile: a whole .gzip replaces the .txt and is removed; a bad one stays,
\* and the .txt beside it has what copyfileobj wrote until then, if anything.
Unzip(t) == /\ pc[t] = "unpack" /\ enc[t] = "gzip" /\ Has(t, "gzip") # Absent
            /\ \/ files' = [files EXCEPT ![File(t, "txt")] = Has(t, "gzip"),
                                         ![File(t, "gzip")] = Absent]
               \/ \E unpacked \in {{}, Has(t, "gzip")} : Put(t, "txt", unpacked)
            /\ Goto(t, "stored")
            /\ UNCHANGED enc
            /\ FilesOnly

\* unBrFile: brotli -d does not overwrite a file, and writes none for a bad
\* input; then the .txt.br is removed and the .txt, whoever wrote it, opened.
Unbrotli(t) ==
  /\ pc[t] = "unpack" /\ enc[t] = "txt.br"
  /\ \E txt \in {Has(t, "txt")} \cup (IF Has(t, "txt") = Absent THEN {Has(t, "txt.br")} ELSE {}) :
        /\ files' = [files EXCEPT ![File(t, "txt.br")] = Absent, ![File(t, "txt")] = txt]
        /\ Goto(t, IF txt = Absent THEN "noFile" ELSE "stored")
  /\ UNCHANGED enc
  /\ FilesOnly

\* An early return (no header, no connection, 304, 204) or an exception (None
\* unpacked, a malformed line or length, a lost connection, a missing file),
\* or the end of the request.
Finish(t) == /\ \E p \in {"request", "lock", "answer", "store", "unpack",
                          "noFile", "stored"} : End(t, p)
             /\ UNCHANGED cacheVars

\* recv answers b'' for ever and the loop does not look for it: reading the
\* request or, before the lock, its body, the answer's header or its body.
Spin(t) == /\ \E p \in {"request", "lock", "answer", "store"} : Step(t, p, "spin")
           /\ UNCHANGED cacheVars

\* The process dies with its threads and is started again; the files stay.
RestartServer == /\ pc' = [t \in Threads |-> "none"]
                 /\ lock' = {}
                 /\ fileNum' = 0
                 /\ num' = [t \in Threads |-> 1]
                 /\ enc' = [t \in Threads |-> "txt"]
                 /\ id' = [t \in Threads |-> 0]
                 /\ UNCHANGED <<files, draws, shared>>
Restart == RestartServer /\ CacheRestart

Next == \/ Restart
        \/ \E t \in Threads :
             \/ Accept(t) \/ Forward(t) \/ Intercept(t)
             \/ LoadCert(t) \/ LoadCertFails(t)
             \/ Acquire(t) \/ Number(t) \/ Count(t)
             \/ OpenFile(t) \/ StorePart(t) \/ StoreBody(t) \/ Unzip(t) \/ Unbrotli(t)
             \/ Finish(t) \/ Spin(t)

Spec == Init /\ [][Next]_vars
-----------------------------------------------------------------------------
\* Two threads have the same file number only if MAX_FILE_NAME numbers or more
\* were drawn between theirs: the lock makes number and count one step, and the
\* numbers go round evenly.
NumbersApart ==
  \A t, u \in Threads : t # u /\ Live(t) /\ Live(u) /\ num[t] = num[u]
    => id[t] - id[u] >= MaxFileName \/ id[u] - id[t] >= MaxFileName

\* The file a request ends with has nothing in it that another request wrote:
\* it is the body that came, with no packed file left, or, for a bad gzip, as
\* much as could be unpacked of it, the packed file beside it; a request
\* compressed with brotli may instead find an older file of its number, which
\* brotli does not overwrite, and then nothing of its own is in it.  But for that,
\* what a thread leaves that died or spins in the middle of a body never gets into
\* the file of the next request of that number.  The exception are requests that
\* had their number at the same time.
StoredIsOwn ==
  \A t \in Threads : pc[t] = "stored" /\ id[t] \notin shared =>
    \/ Has(t, "txt") = {id[t]} /\ (enc[t] # "txt" => Has(t, enc[t]) = Absent)
    \/ enc[t] = "gzip" /\ Has(t, "txt") \subseteq {id[t]} /\ Has(t, "gzip") = {id[t]}
    \/ enc[t] = "txt.br" /\ id[t] \notin Has(t, "txt") /\ Has(t, "txt.br") = Absent
=============================================================================
