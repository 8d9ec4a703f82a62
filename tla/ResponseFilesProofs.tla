------------------------ MODULE ResponseFilesProofs ------------------------
(***************************************************************************)
(* Proofs about module ResponseFiles for any number of threads, names and  *)
(* bodies.  Everything but type correctness assumes that live requests     *)
(* draw different names (~DrawsCollide).                                   *)
(***************************************************************************)
EXTENDS ResponseFiles, TLAPS

\* A worker has a name exactly while it answers a request.
NameWhileBusy == \A w \in Workers : stage[w] = "idle" <=> name[w] = "none"

\* What the directory holds for a worker, stage by stage.
FileState(w) ==
  /\ stage[w] = "named" => txt[name[w]] = "absent" /\ gz[name[w]] = "absent"
  /\ stage[w] = "plain" => txt[name[w]] = "empty" /\ gz[name[w]] = "absent"
  /\ stage[w] = "zipped" => txt[name[w]] = "absent" /\ gz[name[w]] = "empty"
  /\ stage[w] = "packed" => txt[name[w]] = "absent" /\ gz[name[w]] = cur[w]
  /\ stage[w] = "unpacking" => txt[name[w]] = "empty" /\ gz[name[w]] = cur[w]
  /\ stage[w] \in {"text", "judged"} => txt[name[w]] = cur[w] /\ gz[name[w]] = "absent"
  /\ stage[w] = "hung" => Present(name[w])

\* What the worker knows about the body it holds.
BodyState(w) ==
  /\ stage[w] \in {"packed", "unpacking", "text", "judged"} => cur[w] \in Bodies
  /\ stage[w] = "judged" => /\ verdict[w] # "none"
                            /\ verdict[w] = "CLEAN" => cur[w] \notin Infected
                            /\ verdict[w] = "VIRUS" => cur[w] \in Infected
  /\ stage[w] \notin {"idle", "hung"} => shown[w] = "nothing"

\* No thread outlives the process.
DownMeansIdle == ~up => \A w \in Workers : stage[w] = "idle"

IInv == /\ TypeOK
        /\ NameWhileBusy
        /\ DownMeansIdle
        /\ NamesUnique
        /\ \A w \in Workers : FileState(w)
        /\ \A w \in Workers : BodyState(w)
        /\ ShownAsJudged

-----------------------------------------------------------------------------
(***************************************************************************)
(* Type correctness, with the fact it needs to be inductive.               *)
(***************************************************************************)
LEMMA TypeStep ==
  ASSUME TypeOK, NameWhileBusy, [Next]_vars
  PROVE  TypeOK' /\ NameWhileBusy'
<1> USE FilesAssumption DEF TypeOK, NameWhileBusy, Markers, Stages, Contents,
                            Verdicts, Warnings
<1>1. ASSUME NEW w \in Workers, WorkerStep(w)
      PROVE  TypeOK' /\ NameWhileBusy'
  <2>1. CASE ChooseName(w)
    BY <2>1 DEF ChooseName
  <2>2. CASE Abandon(w)
    BY <2>2 DEF Abandon, Leave
  <2>3. ASSUME NEW z \in BOOLEAN, OpenResult(w, z)
        PROVE  TypeOK' /\ NameWhileBusy'
    BY <2>3 DEF OpenResult
  <2>4. ASSUME NEW b \in Bodies, StoreBody(w, b)
        PROVE  TypeOK' /\ NameWhileBusy'
    BY <2>4 DEF StoreBody, Write
  <2>5. CASE Discard(w)
    BY <2>5 DEF Discard, Leave
  <2>6. CASE UnzipStart(w)
    BY <2>6 DEF UnzipStart
  <2>7. CASE UnzipEnd(w)
    BY <2>7 DEF UnzipEnd, Write
  <2>8. CASE Hang(w)
    BY <2>8 DEF Hang, Leave
  <2>9. CASE Scan(w)
    BY <2>9 DEF Scan
  <2>10. CASE Deliver(w)
    BY <2>10 DEF Deliver, SendOK, Leave
  <2>11. CASE DeliverBlocks(w)
    BY <2>11 DEF DeliverBlocks, SendOK, Leave
  <2>12. CASE Block(w)
    BY <2>12 DEF Block, SendBad, Leave
  <2>13. CASE GiveUp(w)
    BY <2>13 DEF GiveUp, Leave
  <2>14. CASE WarnBlocks(w)
    BY <2>14 DEF WarnBlocks, SendBad, Leave
  <2> QED
    BY <1>1, <2>1, <2>2, <2>3, <2>4, <2>5, <2>6, <2>7, <2>8, <2>9, <2>10,
       <2>11, <2>12, <2>13, <2>14 DEF WorkerStep
<1>2. CASE Die
  BY <1>2 DEF Die
<1>3. CASE Restart
  BY <1>3 DEF Restart
<1>4. CASE CleanMessages
  BY <1>4 DEF CleanMessages
<1>5. CASE UNCHANGED vars
  BY <1>5 DEF vars
<1> QED
  BY <1>1, <1>2, <1>3, <1>4, <1>5 DEF Next

\* Every variable keeps its type, and a worker has a name exactly while it
\* answers a request, whether or not names collide.
THEOREM TypeCorrect == Spec => [](TypeOK /\ NameWhileBusy)
<1>1. Init => TypeOK /\ NameWhileBusy
  BY FilesAssumption DEF Init, TypeOK, NameWhileBusy, Stages, Contents,
                         Verdicts, Warnings
<1>2. TypeOK /\ NameWhileBusy /\ [Next]_vars => (TypeOK /\ NameWhileBusy)'
  BY TypeStep
<1> QED
  BY <1>1, <1>2, PTL DEF Spec

-----------------------------------------------------------------------------
(***************************************************************************)
(* The inductive invariant.  A step of one worker cannot disturb what      *)
(* another one holds, because their names differ; its own conjuncts follow *)
(* from the stage it leaves.                                               *)
(***************************************************************************)
Core == /\ DownMeansIdle
        /\ NamesUnique
        /\ \A w \in Workers : FileState(w)
        /\ \A w \in Workers : BodyState(w)
        /\ ShownAsJudged

LEMMA CoreStep ==
  ASSUME ~DrawsCollide, IInv, up, NEW w \in Workers, WorkerStep(w)
  PROVE  Core'
<1> USE FilesAssumption DEF TypeOK, NameWhileBusy, DownMeansIdle, NamesUnique,
        FileState, BodyState, ShownAsJudged, IInv, Core, Present, Markers, Stages,
        Contents, Verdicts, Warnings
<1>1. CASE ChooseName(w)
  BY <1>1 DEF ChooseName, Holders
<1>2. CASE Abandon(w)
  BY <1>2 DEF Abandon, Leave
<1>3. ASSUME NEW z \in BOOLEAN, OpenResult(w, z)
      PROVE  Core'
  BY <1>3 DEF OpenResult
<1>4. ASSUME NEW b \in Bodies, StoreBody(w, b)
      PROVE  Core'
  BY <1>4 DEF StoreBody, Write
<1>5. CASE Discard(w)
  BY <1>5 DEF Discard, Leave
<1>6. CASE UnzipStart(w)
  BY <1>6 DEF UnzipStart
<1>7. CASE UnzipEnd(w)
  BY <1>7 DEF UnzipEnd, Write
<1>8. CASE Hang(w)
  BY <1>8 DEF Hang, Leave
<1>9. CASE Scan(w)
  BY <1>9 DEF Scan
<1>10. CASE Deliver(w)
  BY <1>10 DEF Deliver, SendOK, Leave
<1>11. CASE DeliverBlocks(w)
  BY <1>11 DEF DeliverBlocks, SendOK, Leave
<1>12. CASE Block(w)
  BY <1>12 DEF Block, SendBad, Leave
<1>13. CASE GiveUp(w)
  BY <1>13 DEF GiveUp, Leave
<1>14. CASE WarnBlocks(w)
  BY <1>14 DEF WarnBlocks, SendBad, Leave
<1> QED
  BY <1>1, <1>2, <1>3, <1>4, <1>5, <1>6, <1>7, <1>8, <1>9, <1>10, <1>11, <1>12, <1>13,
     <1>14 DEF WorkerStep

LEMMA InvStep ==
  ASSUME ~DrawsCollide, IInv, [Next]_vars
  PROVE  IInv'
<1>1. TypeOK' /\ NameWhileBusy'
  BY TypeStep DEF IInv
<1>2. Core'
  <2> USE DEF IInv, Core, TypeOK, NameWhileBusy, DownMeansIdle, NamesUnique,
              FileState, BodyState, ShownAsJudged, Present
  <2>1. ASSUME up, NEW w \in Workers, WorkerStep(w)
        PROVE  Core'
    BY <2>1, CoreStep
  <2>2. CASE Die
    BY <2>2 DEF Die
  <2>3. CASE Restart
    BY <2>3 DEF Restart
  <2>4. CASE CleanMessages
    BY <2>4 DEF CleanMessages
  <2>5. CASE UNCHANGED vars
    BY <2>5 DEF vars
  <2> QED
    BY <2>1, <2>2, <2>3, <2>4, <2>5 DEF Next
<1> QED
  BY <1>1, <1>2 DEF IInv, Core

\* The inductive invariant holds of the directory and its threads, as long as
\* live requests have different names.
THEOREM Invariance ==
  ASSUME ~DrawsCollide
  PROVE  Spec => []IInv
<1>1. Init => IInv
  <2>1. Init => TypeOK /\ NameWhileBusy
    BY FilesAssumption DEF Init, TypeOK, NameWhileBusy, Stages, Contents,
                           Verdicts, Warnings
  <2> QED
    BY <2>1, FilesAssumption
    DEF Init, IInv, DownMeansIdle, NamesUnique, FileState, BodyState,
        ShownAsJudged, Markers, Warnings
<1>2. IInv /\ [Next]_vars => IInv'
  BY InvStep
<1> QED
  BY <1>1, <1>2, PTL DEF Spec

\* A client is sent a body only if it is the one its own request brought and
\* the scanner found nothing in it, and a warning only for an infected one.
THEOREM ClientsGetWhatWasJudged ==
  ASSUME ~DrawsCollide
  PROVE  Spec => []ShownAsJudged
<1>1. IInv => ShownAsJudged
  BY DEF IInv
<1> QED
  BY <1>1, Invariance, PTL

\* The name of a request stays claimed on disk from fopen to remove, through
\* unzipFile's change of extension.
THEOREM ClaimsHold ==
  ASSUME ~DrawsCollide
  PROVE  Spec => []NameStaysClaimed
<1>1. IInv => NameStaysClaimed
  BY FilesAssumption DEF IInv, TypeOK, FileState, BodyState, NameStaysClaimed,
     Present, Stages, Markers
<1> QED
  BY <1>1, Invariance, PTL

-----------------------------------------------------------------------------
(***************************************************************************)
(* What a step may never do.                                               *)
(***************************************************************************)
LEMMA FilesOfOthers ==
  ASSUME ~DrawsCollide, IInv, up, NEW w \in Workers, WorkerStep(w)
  PROVE  LeftoverStep /\ TidyStep
<1> USE FilesAssumption DEF LeftoverStep, TidyStep, TypeOK, NameWhileBusy,
        NamesUnique, FileState, BodyState, IInv, Present, Opened, Holders,
        Markers, Stages, Contents, Verdicts
<1>1. CASE ChooseName(w)
  BY <1>1 DEF ChooseName
<1>2. CASE Abandon(w)
  BY <1>2 DEF Abandon, Leave
<1>3. ASSUME NEW z \in BOOLEAN, OpenResult(w, z)
      PROVE  LeftoverStep /\ TidyStep
  BY <1>3 DEF OpenResult
<1>4. ASSUME NEW b \in Bodies, StoreBody(w, b)
      PROVE  LeftoverStep /\ TidyStep
  BY <1>4 DEF StoreBody, Write
<1>5. CASE Discard(w)
  BY <1>5 DEF Discard, Leave
<1>6. CASE UnzipStart(w)
  BY <1>6 DEF UnzipStart
<1>7. CASE UnzipEnd(w)
  BY <1>7 DEF UnzipEnd, Write
<1>8. CASE Hang(w)
  BY <1>8 DEF Hang, Leave
<1>9. CASE Scan(w)
  BY <1>9 DEF Scan
<1>10. CASE Deliver(w)
  BY <1>10 DEF Deliver, SendOK, Leave
<1>11. CASE DeliverBlocks(w)
  BY <1>11 DEF DeliverBlocks, SendOK, Leave
<1>12. CASE Block(w)
  BY <1>12 DEF Block, SendBad, Leave
<1>13. CASE GiveUp(w)
  BY <1>13 DEF GiveUp, Leave
<1>14. CASE WarnBlocks(w)
  BY <1>14 DEF WarnBlocks, SendBad, Leave
<1> QED
  BY <1>1, <1>2, <1>3, <1>4, <1>5, <1>6, <1>7, <1>8, <1>9, <1>10, <1>11, <1>12, <1>13,
     <1>14 DEF WorkerStep

\* A running proxy never touches a file that none of its requests opened.
THEOREM LeftoversSafe ==
  ASSUME ~DrawsCollide
  PROVE  Spec => LeftoversUntouched
<1>1. IInv /\ [Next]_vars => [LeftoverStep]_vars
  <2> SUFFICES ASSUME IInv, [Next]_vars
               PROVE  [LeftoverStep]_vars
    OBVIOUS
  <2>1. ASSUME up, NEW w \in Workers, WorkerStep(w)
        PROVE  LeftoverStep
    BY <2>1, FilesOfOthers
  <2>2. CASE Die \/ Restart \/ CleanMessages
    BY <2>2 DEF Die, Restart, CleanMessages, LeftoverStep
  <2> QED
    BY <2>1, <2>2 DEF Next
<1> QED
  BY <1>1, Invariance, PTL DEF LeftoversUntouched, Spec

\* A request that is over has removed its files, unless its scan failed or the
\* process went away.
THEOREM RequestsTidyUp ==
  ASSUME ~DrawsCollide
  PROVE  Spec => NothingLeftBehind
<1>1. IInv /\ [Next]_vars => [TidyStep]_vars
  <2> SUFFICES ASSUME IInv, [Next]_vars
               PROVE  [TidyStep]_vars
    OBVIOUS
  <2>1. ASSUME up, NEW w \in Workers, WorkerStep(w)
        PROVE  TidyStep
    BY <2>1, FilesOfOthers
  <2>2. CASE Die \/ Restart \/ CleanMessages
    BY <2>2 DEF Die, Restart, CleanMessages, TidyStep, Holders
  <2> QED
    BY <2>1, <2>2 DEF Next
<1> QED
  BY <1>1, Invariance, PTL DEF NothingLeftBehind, Spec

-----------------------------------------------------------------------------
(***************************************************************************)
(* Refinement: each step of the directory is a step of ScanGate or leaves  *)
(* it unchanged.  A plain body is held from the moment it is stored; a     *)
(* gzip-encoded one too, and unpacking it does not show; a worker that     *)
(* hangs, fails or dies with its process drops what it holds.              *)
(***************************************************************************)
GateStep == [Gate!Next]_(Gate!vars)

LEMMA DropIsGateStep ==
  ASSUME NEW W \in SUBSET Workers,
         gateState' = [w \in Workers |-> IF w \in W THEN "idle" ELSE gateState[w]],
         UNCHANGED <<cur, gateOut>>
  PROVE  Gate!Next
BY DEF Gate!Next, Gate!Drop

\* A step that changes one worker only, seen through the mapping.
OthersKeep(w) == \A v \in Workers \ {w} : /\ stage'[v] = stage[v]
                                         /\ verdict'[v] = verdict[v]
                                         /\ shown'[v] = shown[v]
                                         /\ cur'[v] = cur[v]

LEMMA GateMoves ==
  ASSUME NEW w \in Workers, OthersKeep(w)
  PROVE  /\ gateState' = [gateState EXCEPT ![w] = gateOf(w)']
         /\ gateOut' = [gateOut EXCEPT ![w] = outOf(w)']
<1>1. \A v \in Workers \ {w} : gateOf(v)' = gateOf(v) /\ outOf(v)' = outOf(v)
  BY DEF OthersKeep, gateOf, outOf, Warnings
<1> HIDE DEF gateOf, outOf
<1> QED
  BY <1>1 DEF gateState, gateOut

LEMMA GateKeeps ==
  ASSUME NEW w \in Workers, OthersKeep(w)
  PROVE  /\ gateOf(w)' = gateOf(w) => gateState' = gateState
         /\ outOf(w)' = outOf(w) => gateOut' = gateOut
<1> HIDE DEF gateOf, outOf
<1> QED
  BY GateMoves DEF gateState, gateOut

LEMMA GateStays ==
  ASSUME NEW w \in Workers, OthersKeep(w), cur' = cur,
         gateOf(w)' = gateOf(w), outOf(w)' = outOf(w)
  PROVE  GateStep
BY GateKeeps DEF GateStep, Gate!vars

LEMMA GateDrops ==
  ASSUME NEW w \in Workers, OthersKeep(w), cur' = cur,
         gateOf(w)' = "idle", outOf(w)' = outOf(w)
  PROVE  GateStep
<1>1. gateOut' = gateOut
  BY GateMoves DEF gateOut
<1>2. gateState' = [v \in Workers |-> IF v \in {w} THEN "idle" ELSE gateState[v]]
  BY GateMoves DEF gateState
<1> QED
  BY <1>1, <1>2, DropIsGateStep DEF GateStep

LEMMA WorkerRefines ==
  ASSUME ~DrawsCollide, IInv, up, NEW w \in Workers, WorkerStep(w)
  PROVE  GateStep
<1> USE FilesAssumption DEF TypeOK, Stages, Contents, Verdicts, Warnings,
        Markers, NameWhileBusy, FileState, BodyState, IInv
<1>0. /\ gateState[w] = gateOf(w)
      /\ gateOut[w] = outOf(w)
  BY DEF gateState, gateOut
<1>1. CASE ChooseName(w)
  <2>1. OthersKeep(w)
    BY <1>1 DEF ChooseName, OthersKeep
  <2>2. gateOf(w) = "idle" /\ gateOf(w)' = "idle" /\ outOf(w)' = "nothing"
    BY <1>1 DEF ChooseName, gateOf, outOf
  <2>3. gateOut' = [gateOut EXCEPT ![w] = "nothing"] /\ gateState' = gateState
    BY <2>1, <2>2, GateMoves, GateKeeps
  <2>4. cur' = [cur EXCEPT ![w] = "none"]
    BY <1>1 DEF ChooseName
  <2>5. Gate!Begin(w)
    BY <1>0, <2>2, <2>3, <2>4 DEF Gate!Begin
  <2> QED
    BY <2>5 DEF GateStep, Gate!Next
<1>2. CASE Abandon(w)
  <2>1. OthersKeep(w) /\ cur' = cur
    BY <1>2 DEF Abandon, Leave, OthersKeep
  <2>2. gateOf(w)' = gateOf(w) /\ outOf(w)' = outOf(w)
    BY <1>2 DEF Abandon, Leave, gateOf, outOf
  <2> QED
    BY <2>1, <2>2, GateStays
<1>3. ASSUME NEW z \in BOOLEAN, OpenResult(w, z)
      PROVE  GateStep
  <2>1. OthersKeep(w) /\ cur' = cur
    BY <1>3 DEF OpenResult, OthersKeep
  <2>2. gateOf(w)' = gateOf(w) /\ outOf(w)' = outOf(w)
    BY <1>3 DEF OpenResult, gateOf, outOf
  <2> QED
    BY <2>1, <2>2, GateStays
<1>4. ASSUME NEW b \in Bodies, StoreBody(w, b)
      PROVE  GateStep
  <2>1. OthersKeep(w)
    BY <1>4 DEF StoreBody, OthersKeep
  <2>2. gateOf(w) = "idle" /\ gateOf(w)' = "held" /\ outOf(w)' = outOf(w)
    BY <1>4 DEF StoreBody, gateOf, outOf
  <2>3. gateOut' = gateOut /\ gateState' = [gateState EXCEPT ![w] = "held"]
    BY <2>1, <2>2, GateMoves, GateKeeps
  <2>4. outOf(w) = "nothing" /\ cur' = [cur EXCEPT ![w] = b]
    BY <1>4 DEF StoreBody, outOf
  <2>5. Gate!Hold(w)
    BY <1>0, <2>2, <2>3, <2>4 DEF Gate!Hold
  <2> QED
    BY <2>5 DEF GateStep, Gate!Next
<1>5. CASE Discard(w)
  <2>1. OthersKeep(w) /\ cur' = cur
    BY <1>5 DEF Discard, Leave, OthersKeep
  <2>2. gateOf(w)' = gateOf(w) /\ outOf(w)' = outOf(w)
    BY <1>5 DEF Discard, Leave, gateOf, outOf
  <2> QED
    BY <2>1, <2>2, GateStays
<1>6. CASE UnzipStart(w)
  <2>1. OthersKeep(w) /\ cur' = cur
    BY <1>6 DEF UnzipStart, OthersKeep
  <2>2. gateOf(w)' = gateOf(w) /\ outOf(w)' = outOf(w)
    BY <1>6 DEF UnzipStart, gateOf, outOf
  <2> QED
    BY <2>1, <2>2, GateStays
<1>7. CASE UnzipEnd(w)
  <2>1. OthersKeep(w) /\ cur' = cur
    BY <1>7 DEF UnzipEnd, OthersKeep
  <2>2. gateOf(w)' = gateOf(w) /\ outOf(w)' = outOf(w)
    BY <1>7 DEF UnzipEnd, gateOf, outOf
  <2> QED
    BY <2>1, <2>2, GateStays
<1>8. CASE Hang(w)
  <2>1. OthersKeep(w) /\ cur' = cur
    BY <1>8 DEF Hang, Leave, OthersKeep
  <2>2. gateOf(w)' = "idle" /\ outOf(w)' = outOf(w)
    BY <1>8 DEF Hang, Leave, gateOf, outOf
  <2> QED
    BY <2>1, <2>2, GateDrops
<1>9. CASE Scan(w)
  <2>1. OthersKeep(w) /\ cur' = cur /\ outOf(w)' = outOf(w) /\ gateOf(w) = "held"
    BY <1>9 DEF Scan, OthersKeep, gateOf, outOf
  <2>2. gateOut' = gateOut /\ gateState' = [gateState EXCEPT ![w] = gateOf(w)']
    BY <2>1, GateMoves, GateKeeps
  <2>3. CASE verdict'[w] = "CLEAN"
    <3>1. gateOf(w)' = "passed" /\ cur[w] \in Bodies \ Infected
      BY <1>9, <2>3 DEF Scan, gateOf
    <3>2. Gate!Pass(w)
      BY <1>0, <2>1, <2>2, <3>1 DEF Gate!Pass
    <3> QED
      BY <3>2 DEF GateStep, Gate!Next
  <2>4. CASE verdict'[w] = "VIRUS"
    <3>1. gateOf(w)' = "blocked" /\ cur[w] \in Infected
      BY <1>9, <2>4 DEF Scan, gateOf
    <3>2. Gate!Stop(w)
      BY <1>0, <2>1, <2>2, <3>1 DEF Gate!Stop
    <3> QED
      BY <3>2 DEF GateStep, Gate!Next
  <2>5. CASE verdict'[w] = "SCAN_ERROR"
    <3>1. gateOf(w)' = gateOf(w)
      BY <1>9, <2>5 DEF Scan, gateOf
    <3> QED
      BY <2>1, <3>1, GateStays
  <2> QED
    BY <1>9, <2>3, <2>4, <2>5 DEF Scan
<1>10. CASE Deliver(w)
  <2>1. OthersKeep(w)
    BY <1>10 DEF Deliver, SendOK, Leave, OthersKeep
  <2>2. gateOf(w) = "passed" /\ gateOf(w)' = "idle" /\ outOf(w)' = cur[w]
    BY <1>10 DEF Deliver, SendOK, Leave, gateOf, outOf
  <2>3. gateOut' = [gateOut EXCEPT ![w] = cur[w]]
    BY <2>1, <2>2, GateMoves
  <2>4. gateState' = [gateState EXCEPT ![w] = "idle"]
    BY <2>1, <2>2, GateMoves
  <2>5. Gate!Release(w)
    BY <1>0, <1>10, <2>2, <2>3, <2>4 DEF Deliver, Gate!Release
  <2> QED
    BY <2>5 DEF GateStep, Gate!Next
<1>11. CASE DeliverBlocks(w)
  <2>1. OthersKeep(w)
    BY <1>11 DEF DeliverBlocks, SendOK, Leave, OthersKeep
  <2>2. gateOf(w) = "passed" /\ gateOf(w)' = "idle" /\ outOf(w)' = cur[w]
    BY <1>11 DEF DeliverBlocks, SendOK, Leave, gateOf, outOf
  <2>3. gateOut' = [gateOut EXCEPT ![w] = cur[w]]
    BY <2>1, <2>2, GateMoves
  <2>4. gateState' = [gateState EXCEPT ![w] = "idle"]
    BY <2>1, <2>2, GateMoves
  <2>5. Gate!Release(w)
    BY <1>0, <1>11, <2>2, <2>3, <2>4 DEF DeliverBlocks, Gate!Release
  <2> QED
    BY <2>5 DEF GateStep, Gate!Next
<1>12. CASE Block(w)
  <2>1. OthersKeep(w)
    BY <1>12 DEF Block, SendBad, Leave, OthersKeep
  <2>2. gateOf(w) = "blocked" /\ gateOf(w)' = "idle" /\ outOf(w)' = "warning"
    BY <1>12 DEF Block, SendBad, Leave, gateOf, outOf
  <2>3. gateOut' = [gateOut EXCEPT ![w] = "warning"]
    BY <2>1, <2>2, GateMoves
  <2>4. gateState' = [gateState EXCEPT ![w] = "idle"]
    BY <2>1, <2>2, GateMoves
  <2>5. Gate!Warn(w)
    BY <1>0, <1>12, <2>2, <2>3, <2>4 DEF Block, SendBad, Gate!Warn
  <2> QED
    BY <2>5 DEF GateStep, Gate!Next
<1>13. CASE GiveUp(w)
  <2>1. OthersKeep(w) /\ cur' = cur
    BY <1>13 DEF GiveUp, Leave, OthersKeep
  <2>2. gateOf(w)' = "idle" /\ outOf(w)' = outOf(w)
    BY <1>13 DEF GiveUp, Leave, gateOf, outOf
  <2> QED
    BY <2>1, <2>2, GateDrops
<1>14. CASE WarnBlocks(w)
  <2>1. OthersKeep(w)
    BY <1>14 DEF WarnBlocks, SendBad, Leave, OthersKeep
  <2>2. gateOf(w) = "blocked" /\ gateOf(w)' = "idle" /\ outOf(w)' = "warning"
    BY <1>14 DEF WarnBlocks, SendBad, Leave, gateOf, outOf
  <2>3. gateOut' = [gateOut EXCEPT ![w] = "warning"]
    BY <2>1, <2>2, GateMoves
  <2>4. gateState' = [gateState EXCEPT ![w] = "idle"]
    BY <2>1, <2>2, GateMoves
  <2>5. Gate!Warn(w)
    BY <1>0, <1>14, <2>2, <2>3, <2>4 DEF WarnBlocks, SendBad, Gate!Warn
  <2> QED
    BY <2>5 DEF GateStep, Gate!Next
<1> QED
  BY <1>1, <1>2, <1>3, <1>4, <1>5, <1>6, <1>7, <1>8, <1>9,
     <1>10, <1>11, <1>12, <1>13, <1>14 DEF WorkerStep

\* The directory and its threads implement ScanGate, as long as live requests
\* have different names.
THEOREM ImplementsScanGate ==
  ASSUME ~DrawsCollide
  PROVE  Spec => GateSpec
<1>1. Init => Gate!Init
  BY DEF Init, Gate!Init, gateState, gateOut, gateOf, outOf, Warnings
<1>2. IInv /\ [Next]_vars => [Gate!Next]_(Gate!vars)
  <2> SUFFICES ASSUME IInv, [Next]_vars
               PROVE  GateStep
    BY DEF GateStep
  <2>1. ASSUME up, NEW w \in Workers, WorkerStep(w)
        PROVE  GateStep
    BY <2>1, WorkerRefines
  <2>2. CASE Die
    <3>1. gateState' = [v \in Workers |-> IF v \in Workers THEN "idle" ELSE gateState[v]]
      BY <2>2 DEF Die, gateState, gateOf
    <3>2. UNCHANGED <<cur, gateOut>>
      BY <2>2 DEF Die, gateOut, outOf
    <3> QED
      BY <3>1, <3>2, DropIsGateStep DEF GateStep
  <2>3. CASE Restart \/ CleanMessages \/ UNCHANGED vars
    BY <2>3 DEF Restart, CleanMessages, vars, GateStep, Gate!vars, gateState,
                gateOut, gateOf, outOf
  <2> QED
    BY <2>1, <2>2, <2>3 DEF Next
<1> QED
  BY <1>1, <1>2, Invariance, PTL DEF Spec, GateSpec, Gate!Spec
=============================================================================
