--------------------------- MODULE ResponseFiles ---------------------------
(***************************************************************************)
(* The directory ./responseMessages/ of the C proxy and the threads that   *)
(* use it.  A thread draws a file name for each request it forwards        *)
(* (fileNameHash), stores the body of a GET response under that name       *)
(* (.txt, or .gz if the body is gzip-encoded and then unzipped to .txt),   *)
(* has ClamAV scan the .txt file by name, and only then opens the file     *)
(* again, by name, to send it to the client.  Sockets, descriptors and     *)
(* memory are in module Proxy, which composes this one.                    *)
(*                                                                         *)
(* Every step ends at a point where another thread can observe or disturb  *)
(* the directory; the recv and fwrite loop of a body is one step that      *)
(* leaves the whole body in the file (the bytes are in LengthBody).        *)
(***************************************************************************)
CONSTANTS Workers,      \* threads, one per accepted connection
          Names,        \* file names fileNameHash can produce
          Bodies,       \* response bodies, decoded
          Infected,     \* those cl_scanfile answers CL_VIRUS for
          DrawsCollide  \* may two live requests hash to the same name?

Markers == {"absent", "empty", "none", "nothing", "named", "garbled"}

ASSUME FilesAssumption == /\ Infected \subseteq Bodies
                          /\ Bodies \cap Markers = {}
                          /\ Names \cap Markers = {}
                          /\ DrawsCollide \in BOOLEAN

VARIABLES up,       \* is the proxy process running?
          stage,    \* where each worker is with its response file
          name,     \* hashName of the worker's request
          txt,      \* contents of ./responseMessages/<name>.txt
          gz,       \* contents of ./responseMessages/<name>.gz, decoded
          cur,      \* the body the server sent for this request
          verdict,  \* resultScan
          shown     \* what the client was sent of the body

vars == <<up, stage, name, txt, gz, cur, verdict, shown>>

Stages == {"idle",       \* no request being answered
           "named",      \* has a name, waits for the response header
           "plain",      \* writing the body to .txt
           "zipped",     \* writing the body to .gz
           "packed",     \* .gz complete
           "unpacking",  \* unzipFile has opened .txt for writing
           "text",       \* .txt complete, not scanned yet
           "judged",     \* virusScan has returned
           "hung"}       \* in a loop or a call that never returns

Contents == Bodies \cup {"absent", "empty"}
Verdicts == {"none", "CLEAN", "VIRUS", "SCAN_ERROR"}
Warnings == {"named", "garbled"}

TypeOK == /\ up \in BOOLEAN
          /\ stage \in [Workers -> Stages]
          /\ name \in [Workers -> Names \cup {"none"}]
          /\ txt \in [Names -> Contents]
          /\ gz \in [Names -> Contents]
          /\ cur \in [Workers -> Bodies \cup {"none"}]
          /\ verdict \in [Workers -> Verdicts]
          /\ shown \in [Workers -> Bodies \cup Warnings \cup {"nothing"}]

Init == /\ up = TRUE
        /\ stage = [w \in Workers |-> "idle"]
        /\ name = [w \in Workers |-> "none"]
        /\ txt = [n \in Names |-> "absent"]
        /\ gz = [n \in Names |-> "absent"]
        /\ cur = [w \in Workers |-> "none"]
        /\ verdict = [w \in Workers |-> "none"]
        /\ shown = [w \in Workers |-> "nothing"]

Holders(n) == {w \in Workers : name[w] = n}
Present(n) == txt[n] # "absent" \/ gz[n] # "absent"

\* A write through a FILE* opened earlier: it reaches the directory entry
\* only if nobody has removed it meanwhile.
Write(dir, n, c) == IF dir[n] = "absent" THEN dir ELSE [dir EXCEPT ![n] = c]

\* The worker is done with its request; its name is forgotten.
Leave(w, s) == /\ stage' = [stage EXCEPT ![w] = s]
               /\ name' = IF s = "idle" THEN [name EXCEPT ![w] = "none"] ELSE name

-----------------------------------------------------------------------------
\* Mutants: what a slip in the code would make of the actions below.

\* The stat() loop looks for .txt only.
ChooseName_TxtOnly(w) ==
  /\ stage[w] = "idle"
  /\ \E n \in Names : /\ txt[n] = "absent" /\ Holders(n) = {}
                      /\ name' = [name EXCEPT ![w] = n]
  /\ stage' = [stage EXCEPT ![w] = "named"]
  /\ cur' = [cur EXCEPT ![w] = "none"]
  /\ verdict' = [verdict EXCEPT ![w] = "none"]
  /\ shown' = [shown EXCEPT ![w] = "nothing"]
  /\ UNCHANGED <<up, txt, gz>>

\* unzipFile removes the .gz file before it has made the .txt file.
UnzipStart_RemovesFirst(w) == /\ stage[w] = "packed"
                              /\ stage' = [stage EXCEPT ![w] = "unpacking"]
                              /\ gz' = [gz EXCEPT ![name[w]] = "absent"]
                              /\ UNCHANGED <<up, name, txt, cur, verdict, shown>>

\* The return code of cl_scanfile is passed on as it is.
Scan_RawCode(w) == /\ stage[w] = "text"
                   /\ stage' = [stage EXCEPT ![w] = "judged"]
                   /\ \E v \in Verdicts \cup {"CL_EOPEN"} :
                         verdict' = [verdict EXCEPT ![w] = v]
                   /\ UNCHANGED <<up, name, txt, gz, cur, shown>>

\* The .txt file is scanned while unzipFile is still writing it.
Scan_Early(w) == /\ stage[w] \in {"unpacking", "text"}
                 /\ stage' = [stage EXCEPT ![w] = "judged"]
                 /\ verdict' = [verdict EXCEPT ![w] =
                       IF txt[name[w]] \in Infected THEN "VIRUS" ELSE "CLEAN"]
                 /\ UNCHANGED <<up, name, txt, gz, cur, shown>>

\* Anything but VIRUS is sent.
SendOK_NotVirus(w) == /\ stage[w] = "judged"
                      /\ verdict[w] # "VIRUS"
                      /\ txt[name[w]] # "absent"
                      /\ shown' = [shown EXCEPT ![w] = txt[name[w]]]

\* The file that was sent is not removed.
Deliver_KeepsFile(w) == /\ stage[w] = "judged"
                        /\ verdict[w] = "CLEAN"
                        /\ shown' = [shown EXCEPT ![w] = txt[name[w]]]
                        /\ Leave(w, "idle")
                        /\ UNCHANGED <<up, txt, gz, cur, verdict>>

-----------------------------------------------------------------------------
\* fileNameHash: draw until neither .txt nor .gz of that name exists.
ChooseName(w) ==
  /\ stage[w] = "idle"
  /\ \E n \in Names : /\ ~Present(n)
                      /\ DrawsCollide \/ Holders(n) = {}
                      /\ name' = [name EXCEPT ![w] = n]
  /\ stage' = [stage EXCEPT ![w] = "named"]
  /\ cur' = [cur EXCEPT ![w] = "none"]
  /\ verdict' = [verdict EXCEPT ![w] = "none"]
  /\ shown' = [shown EXCEPT ![w] = "nothing"]
  /\ UNCHANGED <<up, txt, gz>>

\* No file is ever made under this name: the response header is unreadable,
\* says 304 Not Modified, or answers a request other than GET.
Abandon(w) == /\ stage[w] = "named"
              /\ Leave(w, "idle")
              /\ UNCHANGED <<up, txt, gz, cur, verdict, shown>>

\* fopen(fileString,"wb+"): creates the file, or truncates an existing one.
OpenResult(w, isZip) ==
  /\ stage[w] = "named"
  /\ stage' = [stage EXCEPT ![w] = IF isZip THEN "zipped" ELSE "plain"]
  /\ IF isZip THEN gz' = [gz EXCEPT ![name[w]] = "empty"] /\ UNCHANGED txt
              ELSE txt' = [txt EXCEPT ![name[w]] = "empty"] /\ UNCHANGED gz
  /\ UNCHANGED <<up, name, cur, verdict, shown>>

\* The body was read to its end and the file closed.
StoreBody(w, b) ==
  /\ cur' = [cur EXCEPT ![w] = b]
  /\ \/ /\ stage[w] = "plain"
        /\ stage' = [stage EXCEPT ![w] = "text"]
        /\ txt' = Write(txt, name[w], b)
        /\ UNCHANGED gz
     \/ /\ stage[w] = "zipped"
        /\ stage' = [stage EXCEPT ![w] = "packed"]
        /\ gz' = Write(gz, name[w], b)
        /\ UNCHANGED txt
  /\ UNCHANGED <<up, name, verdict, shown>>

\* Reading the body failed: remove(fileString).
Discard(w) ==
  /\ \/ /\ stage[w] = "plain"
        /\ txt' = [txt EXCEPT ![name[w]] = "absent"]
        /\ UNCHANGED gz
     \/ /\ stage[w] = "zipped"
        /\ gz' = [gz EXCEPT ![name[w]] = "absent"]
        /\ UNCHANGED txt
  /\ Leave(w, "idle")
  /\ UNCHANGED <<up, cur, verdict, shown>>

\* unzipFile opens the .txt file before it reads the .gz file ...
UnzipStart(w) == /\ stage[w] = "packed"
                 /\ stage' = [stage EXCEPT ![w] = "unpacking"]
                 /\ txt' = [txt EXCEPT ![name[w]] = "empty"]
                 /\ UNCHANGED <<up, name, gz, cur, verdict, shown>>

\* ... and removes the .gz file once gzread returns 0.
UnzipEnd(w) == /\ stage[w] = "unpacking"
               /\ gz[name[w]] # "absent"
               /\ stage' = [stage EXCEPT ![w] = "text"]
               /\ txt' = Write(txt, name[w], gz[name[w]])
               /\ gz' = [gz EXCEPT ![name[w]] = "absent"]
               /\ UNCHANGED <<up, name, cur, verdict, shown>>

\* The thread stops making progress with its files as they are: the server
\* closes inside a chunk (recv returns 0 for ever) or gzread keeps returning
\* -1; neither loop looks for that.
Hang(w) == /\ stage[w] \in {"plain", "zipped", "unpacking"}
           /\ Leave(w, "hung")
           /\ UNCHANGED <<up, txt, gz, cur, verdict, shown>>

\* cl_scanfile opens the file by name; any failure of it is SCAN_ERROR.
Scan(w) ==
  /\ stage[w] = "text"
  /\ stage' = [stage EXCEPT ![w] = "judged"]
  /\ \E v \in {"SCAN_ERROR"} \cup
              (IF txt[name[w]] \in Infected THEN {"VIRUS"}
               ELSE IF txt[name[w]] # "absent" THEN {"CLEAN"} ELSE {}) :
        verdict' = [verdict EXCEPT ![w] = v]
  /\ UNCHANGED <<up, name, txt, gz, cur, shown>>

\* sendOKResponse reads the file by name again and sends it.
SendOK(w) == /\ stage[w] = "judged"
             /\ verdict[w] = "CLEAN"
             /\ txt[name[w]] # "absent"
             /\ shown' = [shown EXCEPT ![w] =
                            IF txt[name[w]] = "empty" THEN "nothing" ELSE txt[name[w]]]

\* Case CLEAN of handleGETResponse: send, then remove(finalFileName).
Deliver(w) == /\ SendOK(w)
              /\ txt' = [txt EXCEPT ![name[w]] = "absent"]
              /\ Leave(w, "idle")
              /\ UNCHANGED <<up, gz, cur, verdict>>

\* The client stops reading: send() on its socket has no timeout.
DeliverBlocks(w) == /\ SendOK(w)
                    /\ Leave(w, "hung")
                    /\ UNCHANGED <<up, txt, gz, cur, verdict>>

\* sendBadResponse: the warning page names the virus through virusName, which
\* virusScan was passed by value and never set: any text may appear there.
SendBad(w) == /\ stage[w] = "judged"
              /\ verdict[w] = "VIRUS"
              /\ \E x \in Warnings : shown' = [shown EXCEPT ![w] = x]

\* Case VIRUS: the warning, then remove(finalFileName).
Block(w) == /\ SendBad(w)
            /\ txt' = [txt EXCEPT ![name[w]] = "absent"]
            /\ Leave(w, "idle")
            /\ UNCHANGED <<up, gz, cur, verdict>>

\* The client does not read the warning either.
WarnBlocks(w) == /\ SendBad(w)
                 /\ Leave(w, "hung")
                 /\ UNCHANGED <<up, txt, gz, cur, verdict>>

\* SCAN_ERROR has no branch: handleGETResponse returns, the file stays.
GiveUp(w) == /\ stage[w] = "judged"
             /\ verdict[w] = "SCAN_ERROR"
             /\ Leave(w, "idle")
             /\ UNCHANGED <<up, txt, gz, cur, verdict, shown>>

-----------------------------------------------------------------------------
\* The process ends, at any point and whatever the threads were doing: poll
\* fails and main returns, a fault, a signal.  The directory survives.
Die == /\ up
       /\ up' = FALSE
       /\ stage' = [w \in Workers |-> "idle"]
       /\ name' = [w \in Workers |-> "none"]
       /\ UNCHANGED <<txt, gz, cur, verdict, shown>>

Restart == /\ ~up
           /\ up' = TRUE
           /\ UNCHANGED <<stage, name, txt, gz, cur, verdict, shown>>

\* cleanMessages.sh, run between two runs of the proxy: it removes *.txt; its
\* other patterns (*.gzip, *.txt.br) are not the .gz this program writes.
CleanMessages == /\ ~up
                 /\ txt' = [n \in Names |-> "absent"]
                 /\ UNCHANGED <<up, stage, name, gz, cur, verdict, shown>>

WorkerStep(w) == \/ ChooseName(w) \/ Abandon(w)
                 \/ \E z \in BOOLEAN : OpenResult(w, z)
                 \/ \E b \in Bodies : StoreBody(w, b)
                 \/ Discard(w) \/ UnzipStart(w) \/ UnzipEnd(w) \/ Hang(w)
                 \/ Scan(w) \/ Deliver(w) \/ DeliverBlocks(w)
                 \/ Block(w) \/ WarnBlocks(w) \/ GiveUp(w)

Next == \/ \E w \in Workers : up /\ WorkerStep(w)
        \/ Die \/ Restart \/ CleanMessages

Spec == Init /\ [][Next]_vars
-----------------------------------------------------------------------------
\* What a client was sent is what the scanner judged: a body only if it is the
\* one the server sent for this very request and has no signature, a warning
\* only if that body is infected.  Files are scanned and sent by name, in two
\* steps, so this rests on nobody else touching the name in between
\* (handleGETResponse, virusScan, sendOKResponse).
ShownAsJudged ==
  \A w \in Workers : /\ shown[w] \in Bodies => shown[w] = cur[w] /\ cur[w] \notin Infected
                     /\ shown[w] \in Warnings => cur[w] \in Infected

\* From fopen to remove a request's name is claimed on disk by .txt or .gz, with
\* no gap while unzipFile moves from one to the other: that is all that makes
\* the stat() loop of another thread's fileNameHash skip the name.
NameStaysClaimed ==
  \A w \in Workers : stage[w] \notin {"idle", "named"} => Present(name[w])

\* A file no running request has opened (left by an earlier run of the proxy, or
\* by a failed scan) is never truncated, served or removed by a running proxy,
\* whatever names its requests draw: fileNameHash looks for both extensions.
Opened(n) == \E w \in Holders(n) : stage[w] # "named"
LeftoverStep == \A n \in Names : up /\ Present(n) /\ ~Opened(n)
                                   => txt'[n] = txt[n] /\ gz'[n] = gz[n]
LeftoversUntouched == [][LeftoverStep]_vars

\* A request that is over has removed its files, whichever way it ended, unless
\* its scan failed (no branch of handleGETResponse) or the process died.
TidyStep ==
  \A n \in Names : Holders(n) # {} /\ Holders(n)' = {} /\ Present(n)'
                     => ~up' \/ \E w \in Holders(n) : verdict[w] = "SCAN_ERROR"
NothingLeftBehind == [][TidyStep]_vars

\* util.c says of fileNameHash "WE NEED TO ENSURE ALL HASHES ARE UNIQUE": no
\* two requests being answered have the same name.
NamesUnique ==
  \A w1, w2 \in Workers : w1 # w2 /\ name[w1] = name[w2] => name[w1] = "none"

-----------------------------------------------------------------------------
\* The directory implements the scan gate.
gateOf(w) == IF stage[w] \in {"packed", "unpacking", "text"} THEN "held"
             ELSE IF stage[w] # "judged" THEN "idle"
             ELSE IF verdict[w] = "CLEAN" THEN "passed"
             ELSE IF verdict[w] = "VIRUS" THEN "blocked" ELSE "held"
outOf(w) == IF shown[w] \in Warnings THEN "warning" ELSE shown[w]

gateState == [w \in Workers |-> gateOf(w)]
gateOut == [w \in Workers |-> outOf(w)]

Gate == INSTANCE ScanGate WITH state <- gateState, body <- cur, out <- gateOut

\* Every behaviour of the directory and its threads is one of ScanGate, as long
\* as live requests have different names (handleGETResponse).
GateSpec == Gate!Spec
=============================================================================
