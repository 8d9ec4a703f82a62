----------------------------- MODULE ProxyProofs -----------------------------
(***************************************************************************)
(* The composed proxy for any number of threads, names, descriptors and    *)
(* requests: it uses the response directory as ResponseFiles says, each    *)
(* thread works on sockets of its own and closes them, and memory goes     *)
(* back.                                                                   *)
(***************************************************************************)
EXTENDS Proxy, TLAPS

FilesStep == [Files!Next]_(Files!vars)

-----------------------------------------------------------------------------
(* Every step of the proxy is a step of the directory, or leaves it alone. *)

LEMMA WorkerTouchesFiles ==
  ASSUME NEW w \in Workers, WorkerStep(w)
  PROVE  UNCHANGED files \/ Files!WorkerStep(w)
<1>1. CASE \/ Accept(w) \/ AcceptWithoutThread(w) \/ ReadRequest(w)
           \/ RejectRequest(w) \/ LoseRequestBody(w)
           \/ DripHeader(w) \/ NotModifiedBlocks(w)
  BY <1>1 DEF Accept, AcceptWithoutThread, AcceptClient, ReadRequest,
              RejectRequest, LoseRequestBody, DripHeader, NotModifiedBlocks
<1>2. CASE TimedStep(w)
  BY <1>2 DEF TimedStep, Connect, LoseServer, SendRequest, NoHeader, NoPostHeader,
              NotModified, StartBody, StartRelay, Files!WorkerStep
<1>3. CASE OwnStep(w)
  BY <1>3 DEF OwnStep, Examine, Deliver, Block, GiveUp, CloseClient, Files!WorkerStep
<1>4. CASE FinishBody(w) \/ FailBody(w) \/ Stall(w)
  BY <1>4 DEF FinishBody, FailBody, Stall, Files!WorkerStep
<1>5. CASE \/ FinishRelay(w) \/ FinishSizedRelay(w) \/ StallRelay(w)
           \/ NextRequest(w) \/ EndPersistent(w)
  BY <1>5 DEF FinishRelay, FinishSizedRelay, StallRelay, NextRequest, EndPersistent
<1> QED
  BY <1>1, <1>2, <1>3, <1>4, <1>5 DEF WorkerStep

LEMMA WorkerUsesFiles ==
  ASSUME up, NEW w \in Workers, WorkerStep(w)
  PROVE  FilesStep
<1>1. CASE UNCHANGED files
  BY <1>1 DEF files, FilesStep, Files!vars
<1>2. CASE Files!WorkerStep(w)
  BY <1>2 DEF FilesStep, Files!Next
<1> QED
  BY <1>1, <1>2, WorkerTouchesFiles

\* The proxy implements the directory: what ResponseFiles promises of every
\* behaviour, its refinement of ScanGate included, the proxy keeps.
THEOREM UsesFiles == Spec => FilesSpec
<1>1. Init => Files!Init
  BY DEF Init
<1>2. [Next]_vars => FilesStep
  <2> SUFFICES ASSUME [Next]_vars PROVE FilesStep
    OBVIOUS
  <2>1. ASSUME up, NEW w \in Workers, WorkerStep(w)
        PROVE  FilesStep
    BY <2>1, WorkerUsesFiles
  <2>2. CASE Die
    BY <2>2 DEF Die, FilesStep, Files!Next
  <2>3. CASE BetweenRuns
    BY <2>3 DEF BetweenRuns, FilesStep, Files!Next
  <2>4. CASE UNCHANGED vars
    BY <2>4 DEF vars, files, FilesStep, Files!vars
  <2> QED
    BY <2>1, <2>2, <2>3, <2>4 DEF Next
<1> QED
  BY <1>1, <1>2, PTL DEF Spec, FilesSpec, Files!Spec, FilesStep

-----------------------------------------------------------------------------
(* What is proved of the directory, said of the proxy.                      *)

Of == INSTANCE ResponseFilesProofs

LEMMA SameInit == Files!Init => Of!Init
BY DEF Files!Init, Of!Init

LEMMA SameStep == FilesStep => [Of!Next]_(Of!vars)
BY DEF FilesStep, Files!vars, Of!vars, Files!Next, Of!Next,
       Files!WorkerStep, Of!WorkerStep, Files!ChooseName, Of!ChooseName,
       Files!Abandon, Of!Abandon, Files!OpenResult, Of!OpenResult,
       Files!StoreBody, Of!StoreBody, Files!Discard, Of!Discard,
       Files!UnzipStart, Of!UnzipStart, Files!UnzipEnd, Of!UnzipEnd,
       Files!Hang, Of!Hang, Files!Scan, Of!Scan, Files!SendOK, Of!SendOK,
       Files!Deliver, Of!Deliver, Files!DeliverBlocks, Of!DeliverBlocks,
       Files!SendBad, Of!SendBad, Files!Block, Of!Block,
       Files!WarnBlocks, Of!WarnBlocks, Files!GiveUp, Of!GiveUp, Files!Die, Of!Die,
       Files!Restart, Of!Restart, Files!CleanMessages, Of!CleanMessages,
       Files!Leave, Of!Leave, Files!Write, Of!Write, Files!Present, Of!Present,
       Files!Holders, Of!Holders, Files!Warnings, Of!Warnings

\* A client of the proxy is sent a body only if it is the answer to its own
\* request and was scanned and found clean, and a warning only for an infected one.
THEOREM ClientsProtected ==
  ASSUME ~DrawsCollide
  PROVE  Spec => []Files!ShownAsJudged
<1>1. Of!Spec => []Of!ShownAsJudged
  <2>1. Of!FilesAssumption
    BY BodiesAssumption, NoMarker DEF Of!FilesAssumption, Of!Markers, Files!Markers
  <2> QED
    BY <2>1, Of!ClientsGetWhatWasJudged DEF Of!FilesAssumption
<1>2. Of!ShownAsJudged => Files!ShownAsJudged
  BY DEF Files!ShownAsJudged, Of!ShownAsJudged, Files!Warnings, Of!Warnings
<1> QED
  BY <1>1, <1>2, SameInit, SameStep, UsesFiles, PTL
  DEF FilesSpec, Files!Spec, FilesStep, Of!Spec

-----------------------------------------------------------------------------
(* Type correctness, sockets and memory: any number of threads and         *)
(* descriptors, the descriptor table handing numbers out again.            *)

StageOK == stage \in [Workers -> Files!Stages]

LEMMA InitType == Init => TypeOK /\ StageOK
BY ProxyAssumption
DEF Init, Files!Init, TypeOK, StageOK, Files!Stages, Pcs, Exits, Requests, NoRequest, Blocks

\* The directory's part of a worker's step changes the stage of that worker.
LEMMA FilesMoveOne ==
  ASSUME StageOK, NEW w \in Workers, Files!WorkerStep(w)
  PROVE  /\ StageOK'
         /\ \A v \in Workers \ {w} : stage'[v] = stage[v]
<1> USE DEF StageOK, Files!Stages, Files!Leave
<1>1. CASE Files!ChooseName(w) \/ Files!Abandon(w) \/ Files!Scan(w) \/ Files!Hang(w)
  BY <1>1 DEF Files!ChooseName, Files!Abandon, Files!Scan, Files!Hang
<1>2. CASE \E z \in BOOLEAN : Files!OpenResult(w, z)
  BY <1>2 DEF Files!OpenResult
<1>3. CASE \E b \in Bodies : Files!StoreBody(w, b)
  BY <1>3 DEF Files!StoreBody
<1>4. CASE Files!Discard(w) \/ Files!UnzipStart(w) \/ Files!UnzipEnd(w)
  BY <1>4 DEF Files!Discard, Files!UnzipStart, Files!UnzipEnd
<1>5. CASE \/ Files!Deliver(w) \/ Files!DeliverBlocks(w) \/ Files!Block(w)
           \/ Files!WarnBlocks(w) \/ Files!GiveUp(w)
  BY <1>5 DEF Files!Deliver, Files!DeliverBlocks, Files!Block, Files!WarnBlocks, Files!GiveUp
<1> QED
  BY <1>1, <1>2, <1>3, <1>4, <1>5 DEF Files!WorkerStep

-----------------------------------------------------------------------------
\* All that a step of one thread says of the others, descriptors apart.
OnlyMoves(w) == \A v \in Workers \ {w} :
  /\ pc'[v] = pc[v] /\ req'[v] = req[v] /\ exit'[v] = exit[v]
  /\ cfd'[v] = cfd[v] /\ ofd'[v] = ofd[v] /\ heap'[v] = heap[v]

LEMMA TypeStep ==
  ASSUME TypeOK, NEW w \in Workers, WorkerStep(w)
  PROVE  TypeOK' /\ OnlyMoves(w)
<1> USE ProxyAssumption
    DEF TypeOK, OnlyMoves, Goto, Hold, Close, Return, Sockets, Pcs, Exits, Blocks,
        Requests, NoRequest, Fds, Free, fds, files, PostData
<1>1. CASE Accept(w)
  BY <1>1 DEF Accept, AcceptClient
<1>2. CASE AcceptWithoutThread(w)
  BY <1>2 DEF AcceptWithoutThread, AcceptClient
<1>3. CASE ReadRequest(w)
  BY <1>3 DEF ReadRequest
<1>4. CASE RejectRequest(w)
  BY <1>4 DEF RejectRequest
<1>5. CASE LoseRequestBody(w)
  BY <1>5 DEF LoseRequestBody
<1>6. CASE Connect(w)
  BY <1>6 DEF Connect
<1>7. CASE LoseServer(w)
  BY <1>7 DEF LoseServer
<1>8. CASE SendRequest(w)
  BY <1>8 DEF SendRequest
<1>9. CASE NoHeader(w)
  BY <1>9 DEF NoHeader, AwaitsHeader
<1>10. CASE NoPostHeader(w)
  BY <1>10 DEF NoPostHeader, AwaitsHeader
<1>11. CASE NotModified(w)
  <2>1. CASE Goto(w, "persist") /\ UNCHANGED <<req, fds, served, heap, exit>>
    BY <2>1
  <2>2. CASE Return(w, Sockets(w), {})
    BY <2>2
  <2> QED
    BY <1>11, <2>1, <2>2 DEF NotModified
<1>12. CASE StartBody(w)
  <2>1. PICK connection \in BOOLEAN :
           req' = [req EXCEPT ![w].keep = req[w].keep /\ connection]
    BY <1>12 DEF StartBody
  <2>2. req[w].get = TRUE
    BY <1>12 DEF StartBody, AwaitsHeader
  <2>3. req[w] \in Requests
    BY <2>2
  <2>4. [req[w] EXCEPT !.keep = req[w].keep /\ connection] \in Requests
    BY <2>3
  <2>5. req' \in [Workers -> Requests \cup {NoRequest}]
    BY <2>1, <2>4
  <2>6. \A v \in Workers \ {w} : req'[v] = req[v]
    BY <2>1
  <2> QED
    BY <1>12, <2>5, <2>6 DEF StartBody
<1>13. CASE StartRelay(w)
  BY <1>13 DEF StartRelay, AwaitsHeader
<1>14. CASE Examine(w)
  BY <1>14 DEF Examine
<1>15. CASE Deliver(w)
  <2>1. CASE Goto(w, "persist") /\ Hold(w, {}) /\ UNCHANGED <<req, fds, served, exit>>
    BY <2>1
  <2>2. CASE Return(w, {cfd[w]}, {})
    BY <2>2
  <2> QED
    BY <1>15, <2>1, <2>2 DEF Deliver
<1>16. CASE Block(w)
  BY <1>16 DEF Block
<1>17. CASE GiveUp(w)
  BY <1>17 DEF GiveUp
<1>18. CASE CloseClient(w)
  BY <1>18 DEF CloseClient
<1>19. CASE FinishBody(w)
  BY <1>19 DEF FinishBody
<1>20. CASE FailBody(w)
  BY <1>20 DEF FailBody
<1>21. CASE Stall(w)
  BY <1>21 DEF Stall
<1>22. CASE FinishRelay(w)
  BY <1>22 DEF FinishRelay
<1>23. CASE FinishSizedRelay(w)
  BY <1>23 DEF FinishSizedRelay
<1>24. CASE StallRelay(w)
  BY <1>24 DEF StallRelay
<1>25. CASE NextRequest(w)
  BY <1>25 DEF NextRequest
<1>26. CASE EndPersistent(w)
  BY <1>26 DEF EndPersistent
<1>27. CASE DripHeader(w)
  BY <1>27 DEF DripHeader
<1>28. CASE NotModifiedBlocks(w)
  BY <1>28 DEF NotModifiedBlocks
<1> HIDE DEF TypeOK, OnlyMoves, Goto, Hold, Close, Return, Sockets, Pcs, Exits, Blocks,
         Requests, NoRequest, Fds, Free, fds, files, PostData
<1> QED
  BY <1>1, <1>2, <1>3, <1>4, <1>5, <1>6, <1>7, <1>8, <1>9, <1>10, <1>11, <1>12, <1>13,
     <1>14, <1>15, <1>16, <1>17, <1>18, <1>19, <1>20, <1>21, <1>22, <1>23, <1>24, <1>25,
     <1>26, <1>27, <1>28
  DEF WorkerStep, TimedStep, OwnStep

-----------------------------------------------------------------------------
NobodyTwice == \A v \in Workers : exit[v] # "closedTwice"

Own(w) == /\ HasClient(w) => cfd[w] \in Fds /\ OwnsClient(w)
          /\ HasServer(w) => ofd[w] \in Fds /\ OwnsServer(w)

\* The mark of a double close stays until the thread is over, so that the
\* invariant cannot come back to life after it was lost.
TwiceIsLast == \A v \in Workers : exit[v] = "closedTwice" => pc[v] \in {"closing", "done"}

SockInv == /\ TypeOK /\ StageOK
           /\ TwiceIsLast
           /\ NobodyTwice => \A w \in Workers : Own(w)

\* A step of w leaves the table entries of all other threads as they are.
KeepsOthers(w) == \A v \in Workers \ {w}, f \in Fds, k \in {"client"} \cup Hosts :
                    owner[f] = <<v, k>> => owner'[f] = <<v, k>>

LEMMA OthersOwn ==
  ASSUME TypeOK, NEW w \in Workers, OnlyMoves(w), KeepsOthers(w),
         NEW v \in Workers \ {w}, stage'[v] = stage[v], Own(v)
  PROVE  Own(v)'
<1>1. HasClient(v)' = HasClient(v) /\ HasServer(v)' = HasServer(v)
  BY DEF OnlyMoves, HasClient, HasServer
<1>2. HasClient(v) => cfd'[v] \in Fds /\ owner'[cfd'[v]] = <<v, "client">>
  BY DEF OnlyMoves, KeepsOthers, Own, OwnsClient
<1>3. HasServer(v) => ofd'[v] \in Fds /\ owner'[ofd'[v]] \in {v} \X Hosts
  <2> SUFFICES ASSUME HasServer(v)
               PROVE  ofd'[v] \in Fds /\ owner'[ofd'[v]] \in {v} \X Hosts
    OBVIOUS
  <2>1. PICK h \in Hosts : owner[ofd[v]] = <<v, h>>
    BY DEF Own, OwnsServer
  <2>2. ofd'[v] = ofd[v] /\ ofd[v] \in Fds
    BY DEF OnlyMoves, Own
  <2>3. owner'[ofd[v]] = <<v, h>>
    BY <2>1, <2>2 DEF KeepsOthers
  <2> QED
    BY <2>2, <2>3
<1> QED
  BY <1>1, <1>2, <1>3 DEF Own, OwnsClient, OwnsServer

\* Descriptors a thread owns are nobody else's, so closing them is harmless.
LEMMA CloseKeepsOthers ==
  ASSUME TypeOK, NEW w \in Workers, NEW S \in SUBSET Fds, Close(S),
         \A f \in S : owner[f] = <<w, "client">> \/ owner[f] \in {w} \X Hosts
  PROVE  KeepsOthers(w)
BY DEF KeepsOthers, Close

LEMMA OpenKeepsOthers ==
  ASSUME TypeOK, NEW w \in Workers, NEW f \in Fds, NextFd(f), NEW x,
         owner' = [owner EXCEPT ![f] = x]
  PROVE  KeepsOthers(w)
BY ProxyAssumption DEF KeepsOthers, NextFd, Free, TypeOK

LEMMA WorkerOwns ==
  ASSUME TypeOK, StageOK, NEW w \in Workers, WorkerStep(w),
         NobodyTwice, NobodyTwice', Own(w), StageOK'
  PROVE  Own(w)' /\ KeepsOthers(w)
<1> USE ProxyAssumption
    DEF TypeOK, StageOK, Files!Stages, Own, HasClient, HasServer, OwnsClient, OwnsServer,
        Goto, Hold, fds, files
<1>a. ASSUME UNCHANGED owner PROVE KeepsOthers(w)
  BY <1>a DEF KeepsOthers
<1>b. ASSUME Return(w, Sockets(w), {}) \/ (\E B : Return(w, Sockets(w), B)),
             HasClient(w), HasServer(w)
      PROVE  Own(w)' /\ KeepsOthers(w)
  <2>1. Close(Sockets(w)) /\ pc'[w] = "done"
    BY <1>b DEF Return
  <2>2. Sockets(w) \in SUBSET Fds
    BY <1>b DEF Sockets
  <2>3. KeepsOthers(w)
    BY <1>b, <2>1, <2>2, CloseKeepsOthers DEF Sockets
  <2> QED
    BY <2>1, <2>3
<1>c. ASSUME NEW B, Return(w, {cfd[w]}, B), HasClient(w)
      PROVE  Own(w)' /\ KeepsOthers(w)
  <2>1. Close({cfd[w]}) /\ pc'[w] = "done"
    BY <1>c DEF Return
  <2>2. KeepsOthers(w)
    BY <1>c, <2>1, CloseKeepsOthers
  <2> QED
    BY <2>1, <2>2
<1>d. ASSUME Close({ofd[w]}), HasClient(w), HasServer(w)
      PROVE  KeepsOthers(w) /\ owner'[cfd[w]] = <<w, "client">>
  <2>1. KeepsOthers(w)
    BY <1>d, CloseKeepsOthers
  <2>2. cfd[w] # ofd[w]
    BY <1>d
  <2> QED
    BY <1>d, <2>1, <2>2 DEF Close
<1>1. CASE Accept(w) \/ AcceptWithoutThread(w)
  <2>1. PICK f \in Fds : /\ NextFd(f)
                         /\ cfd' = [cfd EXCEPT ![w] = f]
                         /\ owner' = [owner EXCEPT ![f] = <<w, "client">>]
    BY <1>1 DEF Accept, AcceptWithoutThread, AcceptClient
  <2>2. KeepsOthers(w)
    BY <2>1, OpenKeepsOthers
  <2>3. pc'[w] \in {"request", "done"}
    BY <1>1 DEF Accept, AcceptWithoutThread
  <2> QED
    BY <2>1, <2>2, <2>3
<1>2. CASE ReadRequest(w)
  <2>1. PICK r \in Requests, f \in Fds :
           /\ NextFd(f)
           /\ ofd' = [ofd EXCEPT ![w] = f]
           /\ owner' = [owner EXCEPT ![f] = <<w, r.host>>]
    BY <1>2 DEF ReadRequest
  <2>2. KeepsOthers(w)
    BY <2>1, OpenKeepsOthers
  <2>3. pc[w] = "request" /\ pc'[w] = "connect" /\ cfd' = cfd
    BY <1>2 DEF ReadRequest
  <2>4. cfd[w] # f
    BY <2>1, <2>3 DEF NextFd, Free
  <2>5. r.host \in Hosts
    BY DEF Requests
  <2> QED
    BY <2>1, <2>2, <2>3, <2>4, <2>5
<1>3. CASE RejectRequest(w)
  BY <1>3, <1>c DEF RejectRequest
<1>4. CASE LoseRequestBody(w) \/ Connect(w) \/ StallRelay(w) \/ NextRequest(w)
  BY <1>4, <1>a DEF LoseRequestBody, Connect, StallRelay, NextRequest
<1>5. CASE LoseServer(w) \/ EndPersistent(w)
  BY <1>5, <1>b DEF LoseServer, EndPersistent
<1>6. CASE SendRequest(w)
  BY <1>6, <1>a DEF SendRequest
<1>7. CASE NoHeader(w) \/ FailBody(w)
  <2>1. HasClient(w) /\ HasServer(w)
    BY <1>7 DEF NoHeader, AwaitsHeader, FailBody, Files!Discard
  <2> QED
    BY <1>7, <2>1, <1>b DEF NoHeader, FailBody
<1>8. CASE NoPostHeader(w)
  BY <1>8 DEF NoPostHeader, NobodyTwice
<1>9. CASE NotModified(w)
  <2>1. pc[w] = "answer" /\ stage[w] = "named"
    BY <1>9 DEF NotModified, AwaitsHeader
  <2>2. CASE Goto(w, "persist") /\ UNCHANGED <<req, fds, served, heap, exit>>
    BY <2>1, <2>2, <1>a
  <2>3. CASE Return(w, Sockets(w), {})
    BY <2>1, <2>3, <1>b
  <2> QED
    BY <1>9, <2>2, <2>3 DEF NotModified
<1>10. CASE StartBody(w)
  BY <1>10, <1>a DEF StartBody, AwaitsHeader
<1>20. CASE DripHeader(w) \/ NotModifiedBlocks(w)
  BY <1>20, <1>a DEF DripHeader, NotModifiedBlocks, AwaitsHeader
<1>11. CASE StartRelay(w)
  BY <1>11, <1>a DEF StartRelay, AwaitsHeader
<1>12. CASE FinishBody(w)
  <2>1. /\ pc' = pc /\ pc[w] = "answer" /\ cfd' = cfd /\ ofd' = ofd /\ req' = req
        /\ stage[w] \in {"plain", "zipped"}
        /\ stage'[w] \in {"text", "packed"}
    BY <1>12 DEF FinishBody, Files!StoreBody
  <2>2. CASE req[w].keep
    BY <1>12, <2>1, <2>2, <1>a DEF FinishBody
  <2>3. CASE ~req[w].keep
    <3>1. Close({ofd[w]})
      BY <1>12, <2>3 DEF FinishBody
    <3> QED
      BY <2>1, <2>3, <3>1, <1>d
  <2> QED
    BY <2>2, <2>3
<1>13. CASE Stall(w)
  BY <1>13, <1>a DEF Stall
<1>14. CASE Examine(w)
  <2>1. /\ stage[w] \in {"packed", "unpacking", "text"}
        /\ stage'[w] \in {"unpacking", "text", "judged"}
    BY <1>14 DEF Examine, Files!UnzipStart, Files!UnzipEnd, Files!Scan
  <2> QED
    BY <1>14, <2>1, <1>a DEF Examine
<1>15. CASE Deliver(w)
  <2>1. pc[w] = "answer"
    BY <1>15 DEF Deliver
  <2>2. CASE req[w].keep /\ Goto(w, "persist") /\ UNCHANGED <<req, fds, served, exit>>
    BY <2>1, <2>2, <1>a
  <2>3. CASE Return(w, {cfd[w]}, {})
    BY <2>1, <2>3, <1>c
  <2> QED
    BY <1>15, <2>2, <2>3 DEF Deliver
<1>16. CASE Block(w) \/ GiveUp(w)
  BY <1>16, <1>a DEF Block, GiveUp
<1>17. CASE FinishRelay(w)
  BY <1>17, <1>d DEF FinishRelay
<1>18. CASE FinishSizedRelay(w)
  BY <1>18, <1>a DEF FinishSizedRelay
<1>19. CASE CloseClient(w)
  <2>1. HasClient(w)
    BY <1>19 DEF CloseClient, NobodyTwice
  <2> QED
    BY <1>19, <2>1, <1>c DEF CloseClient
<1> QED
  BY <1>1, <1>2, <1>3, <1>4, <1>5, <1>6, <1>7, <1>8, <1>9, <1>10, <1>11, <1>12, <1>13,
     <1>14, <1>15, <1>16, <1>17, <1>18, <1>19, <1>20
  DEF WorkerStep, TimedStep, OwnStep

\* The mark is set on the way to the last close and never taken away.
LEMMA TwiceStep ==
  ASSUME TypeOK, TwiceIsLast, NEW w \in Workers, WorkerStep(w)
  PROVE  TwiceIsLast' /\ (NobodyTwice' => NobodyTwice)
<1>1. OnlyMoves(w)
  BY TypeStep
<1>2. CASE exit' = exit /\ exit[w] # "closedTwice"
  BY <1>1, <1>2 DEF OnlyMoves, TwiceIsLast, NobodyTwice
<1>3. CASE pc[w] = "closing" /\ pc'[w] = "done" /\ exit' = exit
  BY <1>1, <1>3 DEF OnlyMoves, TwiceIsLast, NobodyTwice
<1>4. CASE pc[w] \notin {"closing", "done"} /\ exit'[w] # "closedTwice"
  BY <1>1, <1>4 DEF OnlyMoves, TwiceIsLast, NobodyTwice
<1>5. CASE NoPostHeader(w)
  <2>1. pc[w] = "answer" /\ pc'[w] = "closing" /\ exit'[w] = "closedTwice"
    BY <1>5 DEF NoPostHeader, AwaitsHeader, Goto, TypeOK
  <2> QED
    BY <1>1, <2>1 DEF OnlyMoves, TwiceIsLast, NobodyTwice
<1>6. pc[w] # "done"
  BY DEF WorkerStep, TimedStep, OwnStep, Accept, AcceptWithoutThread, AcceptClient,
         ReadRequest, RejectRequest, LoseRequestBody, Connect, LoseServer, SendRequest,
         NoHeader, NoPostHeader, NotModified, StartBody, StartRelay, AwaitsHeader,
         Examine, Deliver, Block, GiveUp, CloseClient, FinishBody, FailBody, Stall,
         FinishRelay, FinishSizedRelay, StallRelay, NextRequest, EndPersistent,
         DripHeader, NotModifiedBlocks
<1>7. pc[w] # "closing" => exit[w] # "closedTwice"
  BY <1>6 DEF TwiceIsLast
<1>8. CASE CloseClient(w)
  BY <1>3, <1>8 DEF CloseClient, Return, Goto, TypeOK
<1>9. CASE \/ AcceptWithoutThread(w) \/ Block(w) \/ GiveUp(w) \/ FinishSizedRelay(w)
  BY <1>4, <1>9 DEF AcceptWithoutThread, AcceptClient, Block, GiveUp, FinishSizedRelay, TypeOK
<1>10. CASE \/ Accept(w) \/ ReadRequest(w) \/ RejectRequest(w) \/ LoseRequestBody(w)
           \/ Connect(w) \/ LoseServer(w) \/ SendRequest(w) \/ NextRequest(w)
           \/ EndPersistent(w)
  BY <1>2, <1>7, <1>10
  DEF Accept, AcceptClient, ReadRequest, RejectRequest, LoseRequestBody, Connect,
      LoseServer, SendRequest, NextRequest, EndPersistent, Return
<1>11. CASE \/ NoHeader(w) \/ NotModified(w) \/ StartBody(w) \/ StartRelay(w)
            \/ FinishRelay(w) \/ StallRelay(w)
  BY <1>2, <1>7, <1>11
  DEF NoHeader, NotModified, StartBody, StartRelay, AwaitsHeader, FinishRelay,
      StallRelay, Return
<1>12. CASE Examine(w) \/ Deliver(w) \/ FinishBody(w) \/ FailBody(w) \/ Stall(w)
  BY <1>2, <1>7, <1>12 DEF Examine, Deliver, FinishBody, FailBody, Stall, Return
<1>13. CASE DripHeader(w) \/ NotModifiedBlocks(w)
  BY <1>4, <1>13 DEF DripHeader, NotModifiedBlocks, AwaitsHeader, TypeOK
<1> QED
  BY <1>5, <1>8, <1>9, <1>10, <1>11, <1>12, <1>13 DEF WorkerStep, TimedStep, OwnStep

LEMMA InitSock == Init => SockInv
<1> SUFFICES ASSUME Init PROVE SockInv
  OBVIOUS
<1>1. TypeOK /\ StageOK
  BY InitType
<1>2. \A w \in Workers : ~HasClient(w) /\ ~HasServer(w)
  BY DEF Init, HasClient, HasServer
<1> QED
  BY <1>1, <1>2 DEF SockInv, TwiceIsLast, Own, Init

LEMMA SockStep == SockInv /\ [Next]_vars => SockInv'
<1> SUFFICES ASSUME SockInv, [Next]_vars
             PROVE  SockInv'
  OBVIOUS
<1>1. ASSUME up, NEW w \in Workers, WorkerStep(w)
      PROVE  SockInv'
  <2>1. TypeOK' /\ OnlyMoves(w)
    BY <1>1, TypeStep DEF SockInv
  <2>2. StageOK' /\ \A v \in Workers \ {w} : stage'[v] = stage[v]
    BY <1>1, WorkerTouchesFiles, FilesMoveOne DEF SockInv, files, StageOK
  <2>3. TwiceIsLast' /\ (NobodyTwice' => NobodyTwice)
    BY <1>1, TwiceStep DEF SockInv
  <2>4. ASSUME NobodyTwice'
        PROVE  \A v \in Workers : Own(v)'
    <3>1. NobodyTwice /\ \A v \in Workers : Own(v)
      BY <2>3, <2>4 DEF SockInv
    <3>2. Own(w)' /\ KeepsOthers(w)
      BY <1>1, <2>2, <2>4, <3>1, WorkerOwns DEF SockInv
    <3>3. \A v \in Workers \ {w} : Own(v)'
      BY <2>1, <2>2, <3>1, <3>2, OthersOwn DEF SockInv
    <3> QED
      BY <3>2, <3>3
  <2> QED
    BY <2>1, <2>2, <2>3, <2>4 DEF SockInv
<1>2. CASE Die
  <2>1. TypeOK' /\ StageOK'
    BY <1>2 DEF Die, Files!Die, SockInv, TypeOK, StageOK, Files!Stages, Pcs, Exits, Blocks
  <2>2. \A w \in Workers : pc'[w] \in {"unborn", "done"} /\ exit'[w] # "closedTwice"
    BY <1>2 DEF Die
  <2>3. \A w \in Workers : stage'[w] = "idle"
    BY <1>2 DEF Die, Files!Die
  <2> QED
    BY <2>1, <2>2, <2>3 DEF SockInv, TwiceIsLast, Own, HasClient, HasServer
<1>3. CASE BetweenRuns \/ UNCHANGED vars
  <2>1. UNCHANGED <<stage, pc, req, fds, served, heap, exit>>
    BY <1>3 DEF BetweenRuns, Files!Restart, Files!CleanMessages, vars, files
  <2> QED
    BY <2>1 DEF SockInv, TypeOK, StageOK, TwiceIsLast, NobodyTwice, Own, HasClient,
                HasServer, OwnsClient, OwnsServer, fds
<1> QED
  BY <1>1, <1>2, <1>3 DEF Next

\* The types of all the variables that Proxy adds to ResponseFiles.
THEOREM ProxyTypeCorrect == Spec => []TypeOK
<1>1. SockInv => TypeOK
  BY DEF SockInv
<1> QED
  BY InitSock, SockStep, <1>1, PTL DEF Spec

\* As long as nobody ran the failure path of handlePOSTResponse, the descriptors
\* a thread uses are sockets it opened itself and has not closed.
THEOREM ThreadsOwnTheirSockets == Spec => []SocketsOwned
<1>1. SockInv => SocketsOwned
  BY DEF SockInv, NobodyTwice, SocketsOwned, Own
<1> QED
  BY InitSock, SockStep, <1>1, PTL DEF Spec

-----------------------------------------------------------------------------
\* What a thread holds in memory, by the place it has reached.
Returned(w) == /\ heap[w] \subseteq {"argument", "header", "ctype", "chunk"}
               /\ "argument" \notin heap[w] \/ exit[w] = "noThread"
               /\ "ctype" \notin heap[w] \/ exit[w] = "scanError"
               /\ "header" \notin heap[w] \/ ~req[w].get
Stored == {"packed", "unpacking", "text", "judged"}
Memory(w) == /\ pc[w] = "persist" => heap[w] = {}
             /\ pc[w] = "done" => Returned(w)
             /\ pc[w] = "answer" /\ stage[w] = "named" => heap[w] = {}
             /\ pc[w] = "answer" /\ stage[w] \in Stored => heap[w] \subseteq {"ctype"}
             /\ pc[w] = "relay" => ~req[w].get
             /\ pc[w] = "closing" => Returned(w) /\ heap[w] \subseteq {"header", "chunk"}

\* Which descriptors a thread may own, by the place it has reached.
Only(w, F) == \A f \in Fds : owner[f][1] = w => f \in F
Claims(w) ==
  /\ Only(w, Sockets(w))
  /\ pc[w] = "unborn" => Only(w, {})
  /\ pc[w] = "request" => Only(w, {cfd[w]})
  /\ pc[w] = "answer" /\ stage[w] \in Stored /\ ~req[w].keep => Only(w, {cfd[w]})
  /\ pc[w] = "closing" => Only(w, {cfd[w]}) \/ exit[w] = "sizedPost"
  /\ pc[w] = "done" => \/ Only(w, {})
                       \/ exit[w] \in {"noThread", "blocked", "scanError"}
                       \/ exit[w] = "sizedPost" /\ Only(w, {ofd[w]})

LEMMA WorkerMemory ==
  ASSUME TypeOK, StageOK, StageOK', NEW w \in Workers, WorkerStep(w), Memory(w)
  PROVE  Memory(w)'
<1> USE DEF TypeOK, StageOK, Files!Stages, Memory, Returned, Stored, Goto, Hold, Return, fds, files
<1>1. CASE Accept(w) \/ AcceptWithoutThread(w)
  BY <1>1 DEF Accept, AcceptWithoutThread, AcceptClient
<1>2. CASE ReadRequest(w) \/ RejectRequest(w) \/ LoseRequestBody(w) \/ Connect(w)
  BY <1>2 DEF ReadRequest, RejectRequest, LoseRequestBody, Connect
<1>3. CASE LoseServer(w) \/ EndPersistent(w) \/ NextRequest(w) \/ StallRelay(w)
  BY <1>3 DEF LoseServer, EndPersistent, NextRequest, StallRelay
<1>4. CASE SendRequest(w)
  <2>1. stage'[w] = "named"
    BY <1>4 DEF SendRequest, Files!ChooseName
  <2> QED
    BY <1>4, <2>1 DEF SendRequest
<1>5. CASE NoHeader(w) \/ NoPostHeader(w) \/ StartRelay(w)
  BY <1>5 DEF NoHeader, NoPostHeader, StartRelay, AwaitsHeader
<1>16. CASE DripHeader(w) \/ NotModifiedBlocks(w)
  BY <1>16 DEF DripHeader, NotModifiedBlocks
<1>6. CASE NotModified(w)
  <2>1. heap[w] = {}
    BY <1>6 DEF NotModified, AwaitsHeader
  <2>2. CASE Goto(w, "persist") /\ UNCHANGED <<req, fds, served, heap, exit>>
    BY <2>1, <2>2
  <2>3. CASE Return(w, Sockets(w), {})
    BY <2>3
  <2> QED
    BY <1>6, <2>2, <2>3 DEF NotModified
<1>7. CASE StartBody(w)
  <2>1. stage'[w] \in {"plain", "zipped"} /\ pc'[w] = "answer"
    BY <1>7 DEF StartBody, AwaitsHeader, Files!OpenResult
  <2> QED
    BY <2>1
<1>8. CASE FinishBody(w)
  <2>1. pc' = pc /\ pc[w] = "answer" /\ stage'[w] # "named" /\ heap'[w] \subseteq {"ctype"}
    BY <1>8 DEF FinishBody, Files!StoreBody
  <2> QED
    BY <2>1
<1>9. CASE FailBody(w) \/ Stall(w)
  BY <1>9 DEF FailBody, Stall
<1>10. CASE Examine(w)
  <2>1. stage[w] \in Stored /\ stage'[w] \in Stored
    BY <1>10 DEF Examine, Files!UnzipStart, Files!UnzipEnd, Files!Scan
  <2> QED
    BY <1>10, <2>1 DEF Examine
<1>11. CASE Deliver(w)
  BY <1>11 DEF Deliver
<1>12. CASE Block(w)
  BY <1>12 DEF Block
<1>13. CASE GiveUp(w)
  <2>1. heap'[w] \subseteq {"ctype"} /\ pc'[w] = "done" /\ exit'[w] = "scanError"
    BY <1>13 DEF GiveUp, Files!GiveUp
  <2> QED
    BY <2>1
<1>14. CASE FinishRelay(w) \/ FinishSizedRelay(w)
  BY <1>14 DEF FinishRelay, FinishSizedRelay
<1>15. CASE CloseClient(w)
  BY <1>15 DEF CloseClient
<1> QED
  BY <1>1, <1>2, <1>3, <1>4, <1>5, <1>6, <1>7, <1>8, <1>9, <1>10, <1>11, <1>12, <1>13,
     <1>14, <1>15, <1>16
  DEF WorkerStep, TimedStep, OwnStep

MemoryInv == SockInv /\ \A w \in Workers : Memory(w)

LEMMA InitMemory == Init => MemoryInv
  BY InitSock DEF Init, MemoryInv, Memory

LEMMA MemoryStep == MemoryInv /\ [Next]_vars => MemoryInv'
<1> SUFFICES ASSUME MemoryInv, [Next]_vars
             PROVE  MemoryInv'
  OBVIOUS
<1>1. SockInv /\ SockInv'
  BY SockStep DEF MemoryInv
<1>2. ASSUME up, NEW w \in Workers, WorkerStep(w), NEW v \in Workers
      PROVE  Memory(v)'
  <2>1. CASE v = w
    BY <1>1, <1>2, <2>1, WorkerMemory DEF MemoryInv, SockInv
  <2>2. CASE v # w
    <3>1. OnlyMoves(w)
      BY <1>1, <1>2, TypeStep DEF SockInv
    <3>2. stage'[v] = stage[v]
      BY <1>1, <1>2, <2>2, WorkerTouchesFiles, FilesMoveOne DEF SockInv, files, StageOK
    <3> QED
      BY <2>2, <3>1, <3>2 DEF MemoryInv, Memory, Returned, OnlyMoves
  <2> QED
    BY <2>1, <2>2
<1>3. ASSUME Die, NEW v \in Workers PROVE Memory(v)'
  <2>1. pc'[v] \in {"unborn", "done"} /\ heap'[v] = {}
    BY <1>3 DEF Die
  <2> QED
    BY <2>1 DEF Memory, Returned
<1>4. ASSUME BetweenRuns \/ UNCHANGED vars, NEW v \in Workers PROVE Memory(v)'
  <2>1. UNCHANGED <<stage, pc, req, heap, exit>>
    BY <1>4 DEF BetweenRuns, Files!Restart, Files!CleanMessages, vars, files
  <2> QED
    BY <2>1 DEF MemoryInv, Memory, Returned
<1> QED
  BY <1>1, <1>2, <1>3, <1>4 DEF Next, MemoryInv

\* For any number of threads and of requests on one connection: memory is
\* returned between requests, and at the end but for what the property lists.
THEOREM MemoryComesBack == Spec => []MemoryReturned
<1>1. MemoryInv => MemoryReturned
  BY DEF MemoryInv, Memory, Returned, MemoryReturned
<1> QED
  BY InitMemory, MemoryStep, <1>1, PTL DEF Spec

-----------------------------------------------------------------------------
LEMMA CloseReleases ==
  ASSUME TypeOK, NEW S, Close(S), NEW v \in Workers, NEW F, Only(v, F)
  PROVE  Only(v, F \ S)'
<1> SUFFICES ASSUME NEW f \in Fds, owner'[f][1] = v
             PROVE  f \in F \ S
  BY DEF Only
<1>1. v # "nobody"
  BY ProxyAssumption
<1> QED
  BY <1>1 DEF Close, Only, Free

\* Nobody but a thread itself makes it own more.
LEMMA OthersClaim ==
  ASSUME TypeOK, NEW w \in Workers, WorkerStep(w), NEW v \in Workers \ {w}, NEW F, Only(v, F)
  PROVE  Only(v, F)'
<1> USE DEF Only
<1>1. CASE UNCHANGED owner
  BY <1>1
<1>2. ASSUME NEW S, Close(S) PROVE Only(v, F)'
  BY <1>2, CloseReleases
<1>3. CASE \E f \in Fds : \E k : owner' = [owner EXCEPT ![f] = <<w, k>>]
  BY <1>3 DEF TypeOK
<1>4. CASE Accept(w) \/ AcceptWithoutThread(w) \/ ReadRequest(w)
  BY <1>3, <1>4 DEF Accept, AcceptWithoutThread, AcceptClient, ReadRequest
<1>5. CASE RejectRequest(w) \/ LoseServer(w) \/ NoHeader(w) \/ NoPostHeader(w)
           \/ EndPersistent(w) \/ CloseClient(w) \/ FailBody(w) \/ FinishRelay(w)
  BY <1>2, <1>5 DEF RejectRequest, LoseServer, NoHeader, NoPostHeader, EndPersistent,
                    CloseClient, FailBody, FinishRelay, Return
<1>6. CASE NotModified(w) \/ Deliver(w) \/ FinishBody(w)
  BY <1>1, <1>2, <1>6 DEF NotModified, Deliver, FinishBody, Return, fds
<1>7. CASE LoseRequestBody(w) \/ Connect(w) \/ SendRequest(w) \/ StartBody(w)
           \/ StartRelay(w) \/ Examine(w) \/ Block(w) \/ GiveUp(w) \/ Stall(w)
           \/ FinishSizedRelay(w) \/ StallRelay(w) \/ NextRequest(w)
           \/ DripHeader(w) \/ NotModifiedBlocks(w)
  BY <1>1, <1>7 DEF LoseRequestBody, Connect, SendRequest, StartBody, StartRelay, Examine,
     Block, GiveUp, Stall, FinishSizedRelay, StallRelay, NextRequest,
     DripHeader, NotModifiedBlocks, fds
<1> QED
  BY <1>4, <1>5, <1>6, <1>7 DEF WorkerStep, TimedStep, OwnStep

LEMMA WorkerClaims ==
  ASSUME TypeOK, StageOK, StageOK', NEW w \in Workers, WorkerStep(w), Claims(w)
  PROVE  Claims(w)'
<1> USE DEF TypeOK, StageOK, Files!Stages, Claims, Stored, Sockets, Goto, Hold, fds, files
<1>a. ASSUME NEW S, NEW B, Return(w, S, B), NEW F, Only(w, F)
      PROVE  pc'[w] = "done" /\ Only(w, F \ S)' /\ UNCHANGED <<cfd, ofd, exit>>
  BY <1>a, CloseReleases DEF Return
<1>b. ASSUME NEW B, Return(w, Sockets(w), B) PROVE Claims(w)'
  <2>1. Sockets(w) \ Sockets(w) = {}
    OBVIOUS
  <2> QED
    BY <1>a, <1>b, <2>1 DEF Only
<1>c. ASSUME NEW B, Return(w, {cfd[w]}, B), Only(w, {cfd[w]}) PROVE Claims(w)'
  <2>1. Only(w, {cfd[w]} \ {cfd[w]})'
    BY <1>a, <1>c
  <2> QED
    BY <1>a, <1>c, <2>1 DEF Only
<1>1. CASE Accept(w) \/ AcceptWithoutThread(w)
  <2>1. PICK f \in Fds : /\ cfd' = [cfd EXCEPT ![w] = f]
                         /\ owner' = [owner EXCEPT ![f] = <<w, "client">>]
    BY <1>1 DEF Accept, AcceptWithoutThread, AcceptClient
  <2>2. Only(w, {}) /\ cfd'[w] = f
    BY <1>1, <2>1 DEF Accept, AcceptWithoutThread, AcceptClient
  <2>3. \A g \in Fds : owner'[g][1] = w => g = f
    BY <2>1, <2>2 DEF Only
  <2>4. pc'[w] = "request" \/ (pc'[w] = "done" /\ exit'[w] = "noThread")
    BY <1>1 DEF Accept, AcceptWithoutThread
  <2> QED
    BY <2>2, <2>3, <2>4 DEF Only
<1>2. CASE ReadRequest(w)
  <2>1. PICK r \in Requests, f \in Fds :
           /\ ofd' = [ofd EXCEPT ![w] = f]
           /\ owner' = [owner EXCEPT ![f] = <<w, r.host>>]
    BY <1>2 DEF ReadRequest
  <2>2. pc[w] = "request" /\ cfd' = cfd /\ pc'[w] = "connect"
    BY <1>2 DEF ReadRequest
  <2> QED
    BY <2>1, <2>2 DEF Only
<1>3. CASE RejectRequest(w)
  BY <1>3, <1>c DEF RejectRequest
<1>4. CASE LoseServer(w) \/ EndPersistent(w) \/ NoHeader(w)
  BY <1>4, <1>b DEF LoseServer, EndPersistent, NoHeader
<1>5. CASE FailBody(w)
  BY <1>5, <1>b DEF FailBody
<1>6. CASE LoseRequestBody(w) \/ Connect(w) \/ StallRelay(w) \/ NextRequest(w) \/ Stall(w)
  BY <1>6 DEF LoseRequestBody, Connect, StallRelay, NextRequest, Stall, Only
<1>19. CASE DripHeader(w) \/ NotModifiedBlocks(w)
  BY <1>19 DEF DripHeader, NotModifiedBlocks, Only
<1>7. CASE SendRequest(w)
  <2>1. stage'[w] = "named"
    BY <1>7 DEF SendRequest, Files!ChooseName
  <2> QED
    BY <1>7, <2>1 DEF SendRequest, Only
<1>8. CASE NoPostHeader(w)
  <2>1. Only(w, Sockets(w) \ Sockets(w))'
    BY <1>8, CloseReleases DEF NoPostHeader
  <2>2. pc'[w] = "closing"
    BY <1>8 DEF NoPostHeader
  <2> QED
    BY <2>1, <2>2 DEF Only
<1>9. CASE NotModified(w)
  <2>1. CASE Goto(w, "persist") /\ UNCHANGED <<req, fds, served, heap, exit>>
    BY <2>1 DEF Only
  <2>2. CASE Return(w, Sockets(w), {})
    BY <2>2, <1>b
  <2> QED
    BY <1>9, <2>1, <2>2 DEF NotModified
<1>10. CASE StartBody(w)
  <2>1. stage'[w] \in {"plain", "zipped"} /\ pc' = pc /\ pc[w] = "answer"
    BY <1>10 DEF StartBody, AwaitsHeader, Files!OpenResult
  <2> QED
    BY <1>10, <2>1 DEF StartBody, Only
<1>11. CASE StartRelay(w)
  BY <1>11 DEF StartRelay, Only
<1>12. CASE FinishBody(w)
  <2>1. pc' = pc /\ pc[w] = "answer" /\ UNCHANGED <<cfd, ofd, req>>
    BY <1>12 DEF FinishBody
  <2>2. CASE req[w].keep
    BY <1>12, <2>1, <2>2 DEF FinishBody, Only
  <2>3. CASE ~req[w].keep
    <3>1. Only(w, Sockets(w) \ {ofd[w]})'
      BY <1>12, <2>3, CloseReleases DEF FinishBody
    <3> QED
      BY <2>1, <3>1 DEF Only
  <2> QED
    BY <2>2, <2>3
<1>13. CASE Examine(w)
  <2>1. stage[w] \in Stored
    BY <1>13 DEF Examine, Files!UnzipStart, Files!UnzipEnd, Files!Scan
  <2> QED
    BY <1>13, <2>1 DEF Examine, Only
<1>14. CASE Deliver(w)
  <2>1. pc[w] = "answer" /\ stage[w] \in Stored
    BY <1>14 DEF Deliver, Files!Deliver, Files!SendOK
  <2>2. CASE Goto(w, "persist") /\ UNCHANGED <<req, fds, served, exit>>
    BY <2>2 DEF Only
  <2>3. CASE ~req[w].keep /\ Return(w, {cfd[w]}, {})
    BY <2>1, <2>3, <1>c
  <2> QED
    BY <1>14, <2>2, <2>3 DEF Deliver
<1>15. CASE Block(w) \/ GiveUp(w)
  <2>1. pc'[w] = "done" /\ exit'[w] \in {"blocked", "scanError"} /\ UNCHANGED fds
    BY <1>15 DEF Block, GiveUp
  <2> QED
    BY <2>1 DEF Only
<1>16. CASE FinishRelay(w)
  <2>1. Only(w, Sockets(w) \ {ofd[w]})'
    BY <1>16, CloseReleases DEF FinishRelay
  <2>2. pc'[w] = "closing" /\ UNCHANGED <<cfd, ofd>>
    BY <1>16 DEF FinishRelay
  <2> QED
    BY <2>1, <2>2 DEF Only
<1>17. CASE FinishSizedRelay(w)
  BY <1>17 DEF FinishSizedRelay, Only
<1>18. CASE CloseClient(w)
  <2>1. CASE Only(w, {cfd[w]})
    BY <1>18, <2>1, <1>c DEF CloseClient
  <2>2. CASE exit[w] = "sizedPost"
    <3>1. Only(w, Sockets(w) \ {cfd[w]})'
      BY <1>18, <1>a DEF CloseClient
    <3>2. pc'[w] = "done" /\ UNCHANGED <<cfd, ofd, exit>>
      BY <1>18 DEF CloseClient, Return
    <3> QED
      BY <2>2, <3>1, <3>2 DEF Only
  <2> QED
    BY <1>18, <2>1, <2>2 DEF CloseClient
<1> QED
  BY <1>1, <1>2, <1>3, <1>4, <1>5, <1>6, <1>7, <1>8, <1>9, <1>10, <1>11, <1>12, <1>13,
     <1>14, <1>15, <1>16, <1>17, <1>18, <1>19
  DEF WorkerStep, TimedStep, OwnStep

ClaimInv == SockInv /\ \A w \in Workers : Claims(w)

LEMMA InitClaims == Init => ClaimInv
<1> SUFFICES ASSUME Init PROVE ClaimInv
  OBVIOUS
<1>1. \A w \in Workers : Only(w, {}) /\ pc[w] = "unborn"
  BY ProxyAssumption DEF Init, Only, Free
<1> QED
  BY <1>1, InitSock DEF ClaimInv, Claims, Only

LEMMA ClaimStep == ClaimInv /\ [Next]_vars => ClaimInv'
<1> SUFFICES ASSUME ClaimInv, [Next]_vars
             PROVE  ClaimInv'
  OBVIOUS
<1>1. SockInv /\ SockInv'
  BY SockStep DEF ClaimInv
<1>2. ASSUME up, NEW w \in Workers, WorkerStep(w), NEW v \in Workers
      PROVE  Claims(v)'
  <2>1. CASE v = w
    BY <1>1, <1>2, <2>1, WorkerClaims DEF ClaimInv, SockInv
  <2>2. CASE v # w
    <3>1. OnlyMoves(w)
      BY <1>1, <1>2, TypeStep DEF SockInv
    <3>2. stage'[v] = stage[v]
      BY <1>1, <1>2, <2>2, WorkerTouchesFiles, FilesMoveOne DEF SockInv, files, StageOK
    <3>3. ASSUME NEW f \in Fds, owner[f][1] # v PROVE owner'[f][1] # v
      <4>1. Only(v, Fds \ {f})
        BY <3>3 DEF Only
      <4>2. Only(v, Fds \ {f})'
        BY <1>1, <1>2, <2>2, <4>1, OthersClaim DEF SockInv
      <4> QED
        BY <4>2 DEF Only
    <3>4. UNCHANGED <<pc[v], req[v], exit[v], cfd[v], ofd[v]>>
      BY <2>2, <3>1 DEF OnlyMoves
    <3>5. Claims(v)
      BY DEF ClaimInv
    <3> QED
      BY <3>2, <3>3, <3>4, <3>5 DEF Claims, Sockets, Only
  <2> QED
    BY <2>1, <2>2
<1>3. ASSUME Die, NEW v \in Workers PROVE Claims(v)'
  <2>1. Only(v, {})'
    BY <1>3, ProxyAssumption DEF Die, Only, Free
  <2> QED
    BY <2>1 DEF Claims, Only
<1>4. ASSUME BetweenRuns \/ UNCHANGED vars, NEW v \in Workers PROVE Claims(v)'
  <2>1. UNCHANGED <<stage, pc, req, fds, exit>>
    BY <1>4 DEF BetweenRuns, Files!Restart, Files!CleanMessages, vars, files
  <2> QED
    BY <2>1 DEF ClaimInv, Claims, Sockets, Only, fds
<1> QED
  BY <1>1, <1>2, <1>3, <1>4 DEF Next, ClaimInv

\* A thread that is over has closed its sockets, but in the four cases the
\* property lists, whatever the other threads close by mistake.
THEOREM SocketsGetClosed == Spec => []SocketsClosedAtEnd
<1>1. ClaimInv => SocketsClosedAtEnd
  BY DEF ClaimInv, Claims, Only, SocketsClosedAtEnd
<1> QED
  BY InitClaims, ClaimStep, <1>1, PTL DEF Spec
=============================================================================
