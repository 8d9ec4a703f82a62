------------------------------- MODULE Proxy -------------------------------
(***************************************************************************)
(* The C proxy: a main loop that accepts connections and gives each a      *)
(* detached thread, and the threads' whole life, from reading the first    *)
(* request to the last close.  The response directory is module            *)
(* ResponseFiles; this module adds what the threads share beside it, the   *)
(* descriptor table of the process, and the heap blocks each one owns.     *)
(*                                                                         *)
(* A descriptor is a number the kernel hands out again once it is closed,  *)
(* lowest first, so closing one twice can close somebody else's.           *)
(***************************************************************************)
EXTENDS Naturals, FiniteSets

CONSTANTS Workers, Names, Bodies, Infected, DrawsCollide,  \* as in ResponseFiles
          Hosts,        \* servers a request can name
          MaxFd,        \* descriptors left to the process for connections
          MaxRequests   \* bound: requests modelled on one client connection

ASSUME ProxyAssumption == /\ MaxFd \in Nat /\ MaxRequests \in Nat
                          /\ "client" \notin Hosts
                          /\ "nobody" \notin Workers

ASSUME BodiesAssumption == Infected \subseteq Bodies /\ DrawsCollide \in BOOLEAN

VARIABLES up, stage, name, txt, gz, cur, verdict, shown  \* of ResponseFiles
VARIABLES pc,      \* where each thread is
          req,     \* the request it is answering
          owner,   \* the descriptor table: whose socket each number is
          cfd,     \* clientSocket of each thread
          ofd,     \* outgoingSocket of each thread
          served,  \* requests read from its client so far
          heap,    \* blocks it has allocated and not freed
          exit     \* how the thread ended, or why it hangs, where that matters

files == <<up, stage, name, txt, gz, cur, verdict, shown>>
fds == <<owner, cfd, ofd>>
vars == <<files, pc, req, fds, served, heap, exit>>

Files == INSTANCE ResponseFiles

ASSUME NoMarker == Bodies \cap Files!Markers = {} /\ Names \cap Files!Markers = {}

Pcs == {"unborn",   \* connection not made yet
        "request",  \* handleRequest: reading the first request
        "connect",  \* handleRequest: socket made, connecting
        "send",     \* sendRequest: sending the request
        "answer",   \* sent and named: handling the response, see stage
        "relay",    \* handlePOSTResponse: passing the body on
        "closing",  \* back in sendRequest, about to close the client
        "persist",  \* handlePersistantRequest: reading the next request
        "hung",     \* in a call or a loop that never ends
        "done"}     \* the thread has returned

Blocks == {"argument", "request", "data", "leftover", "addr", "header", "ctype", "chunk"}
Exits == {"clean", "blocked", "scanError", "noThread", "sizedPost", "closedTwice", "died",
          "dripped", "unread"}
Fds == 1 .. MaxFd
Free == <<"nobody", "none">>

\* isGet, and clientConnection; once the response header is read the latter
\* is conjoined with the server's answer (connection && clientConnection).
Requests == [get : BOOLEAN, keep : BOOLEAN, host : Hosts]
NoRequest == [get |-> FALSE, keep |-> FALSE, host |-> "client"]

TypeOK == /\ pc \in [Workers -> Pcs]
          /\ req \in [Workers -> Requests \cup {NoRequest}]
          /\ owner \in [Fds -> {Free} \cup (Workers \X ({"client"} \cup Hosts))]
          /\ cfd \in [Workers -> Fds \cup {0}]
          /\ ofd \in [Workers -> Fds \cup {0}]
          /\ served \in [Workers -> 0 .. MaxRequests]
          /\ heap \in [Workers -> SUBSET Blocks]
          /\ exit \in [Workers -> Exits]

Init == /\ Files!Init
        /\ pc = [w \in Workers |-> "unborn"]
        /\ req = [w \in Workers |-> NoRequest]
        /\ owner = [f \in Fds |-> Free]
        /\ cfd = [w \in Workers |-> 0]
        /\ ofd = [w \in Workers |-> 0]
        /\ served = [w \in Workers |-> 0]
        /\ heap = [w \in Workers |-> {}]
        /\ exit = [w \in Workers |-> "clean"]

-----------------------------------------------------------------------------
NextFd(f) == /\ owner[f] = Free
             /\ \A g \in 1 .. (f - 1) : owner[g] # Free
Close(S) == owner' = [f \in Fds |-> IF f \in S THEN Free ELSE owner[f]]
Sockets(w) == {cfd[w], ofd[w]}

Goto(w, p) == pc' = [pc EXCEPT ![w] = p]
Hold(w, B) == heap' = [heap EXCEPT ![w] = B]

\* The thread returns, having closed the descriptors in S and holding B.
Return(w, S, B) == /\ Goto(w, "done")
                   /\ Close(S)
                   /\ Hold(w, B)
                   /\ UNCHANGED <<req, cfd, ofd, served, exit>>

\* What the code calls the body of a request, if it has one.
PostData == {{}, {"data"}}

-----------------------------------------------------------------------------
\* Mutants: what a slip in the code would make of the actions below.

\* The server is closed even though the connection is to be kept.
FinishBody_ClosesAlways(w) ==
  /\ pc[w] = "answer"
  /\ \E b \in Bodies : Files!StoreBody(w, b)
  /\ Close({ofd[w]})
  /\ \E contentType \in {{}, {"ctype"}} : Hold(w, contentType)
  /\ UNCHANGED <<pc, req, cfd, ofd, served, exit>>

\* The failed body's FILE is not closed; its file is not removed.
FailBody_LeaksFile(w) == /\ pc[w] = "answer"
                         /\ Files!Discard(w)
                         /\ Return(w, Sockets(w), {"FILE"})
FailBody_KeepsFile(w) == /\ pc[w] = "answer"
                         /\ stage[w] \in {"plain", "zipped"}
                         /\ stage' = [stage EXCEPT ![w] = "idle"]
                         /\ name' = [name EXCEPT ![w] = "none"]
                         /\ UNCHANGED <<up, txt, gz, cur, verdict, shown>>
                         /\ Return(w, Sockets(w), {})

\* The client is not closed after its answer; the content type is not freed.
Deliver_ForgetsClient(w) == /\ pc[w] = "answer"
                            /\ Files!Deliver(w)
                            /\ \/ /\ req[w].keep
                                  /\ Goto(w, "persist")
                                  /\ Hold(w, {})
                                  /\ UNCHANGED <<req, fds, served, exit>>
                               \/ ~req[w].keep /\ Return(w, {}, {})
Deliver_KeepsType(w) == /\ pc[w] = "answer"
                        /\ Files!Deliver(w)
                        /\ \/ /\ req[w].keep
                              /\ Goto(w, "persist")
                              /\ UNCHANGED <<req, fds, served, heap, exit>>
                           \/ ~req[w].keep /\ Return(w, {cfd[w]}, heap[w])

\* A failed scan is tried again.
GiveUp_Retries(w) == /\ pc[w] = "answer"
                     /\ stage[w] = "judged" /\ verdict[w] = "SCAN_ERROR"
                     /\ stage' = [stage EXCEPT ![w] = "text"]
                     /\ UNCHANGED <<up, name, txt, gz, cur, verdict, shown>>
                     /\ UNCHANGED <<pc, req, fds, served, heap, exit>>

-----------------------------------------------------------------------------
\* mainLoop: accept, then pthread_create.
AcceptClient(w) == /\ pc[w] = "unborn"
                   /\ \E f \in Fds : /\ NextFd(f)
                                     /\ cfd' = [cfd EXCEPT ![w] = f]
                                     /\ owner' = [owner EXCEPT ![f] = <<w, "client">>]
                   /\ Hold(w, {"argument"})
                   /\ UNCHANGED <<files, req, ofd, served>>

Accept(w) == /\ AcceptClient(w)
             /\ Goto(w, "request")
             /\ UNCHANGED exit

\* pthread_create fails and nobody looks: no thread will close this
\* socket, or free the argument it was to find it in.
AcceptWithoutThread(w) == /\ AcceptClient(w)
                          /\ Goto(w, "done")
                          /\ exit' = [exit EXCEPT ![w] = "noThread"]

\* handleRequest up to connect(): header and body read, URL parsed, host
\* resolved, outgoing socket made.
ReadRequest(w) ==
  /\ pc[w] = "request"
  /\ MaxRequests > 0
  /\ \E r \in Requests, f \in Fds :
        /\ NextFd(f)
        /\ req' = [req EXCEPT ![w] = r]
        /\ ofd' = [ofd EXCEPT ![w] = f]
        /\ owner' = [owner EXCEPT ![f] = <<w, r.host>>]
  /\ \E d \in PostData : Hold(w, {"request", "addr"} \cup d)
  /\ Goto(w, "connect")
  /\ served' = [served EXCEPT ![w] = 1]
  /\ UNCHANGED <<files, cfd, exit>>

\* No header within the timeout, no operation, no URL, not http:// (CONNECT
\* included), an unknown host, or no descriptor left for socket().
RejectRequest(w) == /\ pc[w] = "request"
                    /\ Return(w, {cfd[w]}, {})
                    /\ UNCHANGED files

\* extractPostData loops for ever when the client closes or stalls in a body.
LoseRequestBody(w) == /\ pc[w] \in {"request", "persist"}
                      /\ Goto(w, "hung")
                      /\ Hold(w, {"request", "data", "leftover"})
                      /\ UNCHANGED <<files, req, fds, served, exit>>

Connect(w) == /\ pc[w] = "connect"
              /\ Goto(w, "send")
              /\ Hold(w, heap[w] \ {"addr"})
              /\ UNCHANGED <<files, req, fds, served, exit>>

\* setsockopt or connect fails; 403 for the latter.  Or, in sendRequest, the
\* send fails.
LoseServer(w) == /\ pc[w] \in {"connect", "send"}
                 /\ Return(w, Sockets(w), {})
                 /\ UNCHANGED files

\* sendRequest: send, free data, fileNameHash, free request.
SendRequest(w) == /\ pc[w] = "send"
                  /\ Files!ChooseName(w)
                  /\ Goto(w, "answer")
                  /\ Hold(w, {})
                  /\ UNCHANGED <<req, fds, served, exit>>

-----------------------------------------------------------------------------
AwaitsHeader(w, isGet) == /\ pc[w] = "answer"
                          /\ stage[w] = "named"
                          /\ req[w].get = isGet

\* readHeader returns NULL in handleGETResponse ...
NoHeader(w) == /\ AwaitsHeader(w, TRUE)
               /\ Files!Abandon(w)
               /\ Return(w, Sockets(w), {})

\* ... and in handlePOSTResponse, whose caller will close the client again.
NoPostHeader(w) == /\ AwaitsHeader(w, FALSE)
                   /\ Files!Abandon(w)
                   /\ Close(Sockets(w))
                   /\ Goto(w, "closing")
                   /\ exit' = [exit EXCEPT ![w] = "closedTwice"]
                   /\ UNCHANGED <<req, cfd, ofd, served, heap>>

\* readHeader loops over recv, and each has its own 20 s: a server whose bytes
\* keep coming but never make the empty line keeps the thread for ever.
DripHeader(w) == /\ \E isGet \in BOOLEAN : AwaitsHeader(w, isGet)
                 /\ Goto(w, "hung")
                 /\ Hold(w, {"header"})
                 /\ exit' = [exit EXCEPT ![w] = "dripped"]
                 /\ UNCHANGED <<files, req, fds, served>>

\* 304 is passed on as it is ...
NotModified(w) == /\ AwaitsHeader(w, TRUE)
                  /\ Files!Abandon(w)
                  /\ \/ /\ req[w].keep
                        /\ Goto(w, "persist")
                        /\ UNCHANGED <<req, fds, served, heap, exit>>
                     \/ Return(w, Sockets(w), {})

\* ... to a client that may not read it.
NotModifiedBlocks(w) == /\ AwaitsHeader(w, TRUE)
                        /\ Goto(w, "hung")
                        /\ Hold(w, {"header"})
                        /\ exit' = [exit EXCEPT ![w] = "unread"]
                        /\ UNCHANGED <<files, req, fds, served>>

\* Any other answer to a GET is written to a file.
StartBody(w) ==
  /\ AwaitsHeader(w, TRUE)
  /\ \E isZip \in BOOLEAN : Files!OpenResult(w, isZip)
  /\ \E connection \in BOOLEAN :
        req' = [req EXCEPT ![w].keep = req[w].keep /\ connection]
  /\ Hold(w, {"header", "leftover"})
  /\ UNCHANGED <<pc, fds, served, exit>>

FinishBody(w) ==
  /\ pc[w] = "answer"
  /\ \E b \in Bodies : Files!StoreBody(w, b)
  /\ IF req[w].keep THEN UNCHANGED owner ELSE Close({ofd[w]})
  /\ \E contentType \in {{}, {"ctype"}} : Hold(w, contentType)
  /\ UNCHANGED <<pc, req, cfd, ofd, served, exit>>

\* recv times out; dechunkResponse drops the chunk it was filling.
FailBody(w) == /\ pc[w] = "answer"
               /\ Files!Discard(w)
               /\ \E chunk \in {{}, {"chunk"}} : Return(w, Sockets(w), chunk)

Stall(w) == /\ pc[w] = "answer"
            /\ Files!Hang(w) \/ Files!DeliverBlocks(w) \/ Files!WarnBlocks(w)
            /\ Goto(w, "hung")
            /\ UNCHANGED <<req, fds, served, heap, exit>>

\* unzipFile and virusScan: the thread alone, with files.
Examine(w) == /\ pc[w] = "answer"
              /\ Files!UnzipStart(w) \/ Files!UnzipEnd(w) \/ Files!Scan(w)
              /\ UNCHANGED <<pc, req, fds, served, heap, exit>>

Deliver(w) == /\ pc[w] = "answer"
              /\ Files!Deliver(w)
              /\ \/ /\ req[w].keep
                    /\ Goto(w, "persist")
                    /\ Hold(w, {})
                    /\ UNCHANGED <<req, fds, served, exit>>
                 \/ /\ ~req[w].keep
                    /\ Return(w, {cfd[w]}, {})

\* The two ways handleGETResponse returns without closing anything.
Block(w) == /\ pc[w] = "answer"
            /\ Files!Block(w)
            /\ Goto(w, "done")
            /\ Hold(w, {})
            /\ exit' = [exit EXCEPT ![w] = "blocked"]
            /\ UNCHANGED <<req, fds, served>>

GiveUp(w) == /\ pc[w] = "answer"
             /\ Files!GiveUp(w)
             /\ Goto(w, "done")
             /\ exit' = [exit EXCEPT ![w] = "scanError"]
             /\ UNCHANGED <<req, fds, served, heap>>

-----------------------------------------------------------------------------
\* handlePOSTResponse keeps the header block only for a chunked body.
StartRelay(w) == /\ AwaitsHeader(w, FALSE)
                 /\ Files!Abandon(w)
                 /\ \E chunked \in BOOLEAN :
                       Hold(w, IF chunked THEN {"header", "leftover"} ELSE {"leftover"})
                 /\ Goto(w, "relay")
                 /\ UNCHANGED <<req, fds, served, exit>>

\* Server closed, timed out, or sent the last chunk; a chunked body's header,
\* and the chunk a timeout interrupted, are never freed.
FinishRelay(w) ==
  /\ pc[w] = "relay"
  /\ Close({ofd[w]})
  /\ \E chunk \in {{}, {"chunk"}} :
        Hold(w, IF "header" \in heap[w] THEN {"header"} \cup chunk ELSE {})
  /\ Goto(w, "closing")
  /\ UNCHANGED <<files, req, cfd, ofd, served, exit>>

\* As many bytes as Content-Length said: the server's socket stays open.
FinishSizedRelay(w) == /\ pc[w] = "relay"
                       /\ "header" \notin heap[w]
                       /\ Goto(w, "closing")
                       /\ Hold(w, {})
                       /\ exit' = [exit EXCEPT ![w] = "sizedPost"]
                       /\ UNCHANGED <<files, req, fds, served>>

\* The server closes inside a chunk, or the client stops reading.
StallRelay(w) == /\ pc[w] = "relay"
                 /\ Goto(w, "hung")
                 /\ UNCHANGED <<files, req, fds, served, heap, exit>>

\* sendRequest, after handlePOSTResponse.
CloseClient(w) == /\ pc[w] = "closing"
                  /\ Return(w, {cfd[w]}, heap[w])
                  /\ UNCHANGED files

-----------------------------------------------------------------------------
\* handlePersistantRequest: whatever host the request names, it goes to the
\* server this thread is connected to.
NextRequest(w) == /\ pc[w] = "persist"
                  /\ served[w] < MaxRequests
                  /\ \E r \in Requests : req' = [req EXCEPT ![w] = r]
                  /\ \E d \in PostData : Hold(w, {"request"} \cup d)
                  /\ served' = [served EXCEPT ![w] = @ + 1]
                  /\ Goto(w, "send")
                  /\ UNCHANGED <<files, fds, exit>>

EndPersistent(w) == /\ pc[w] = "persist"
                    /\ Return(w, Sockets(w), {})
                    /\ UNCHANGED files

-----------------------------------------------------------------------------
\* The process goes and the kernel takes back descriptors and memory.
Die == /\ Files!Die
       /\ pc' = [w \in Workers |-> IF pc[w] = "unborn" THEN "unborn" ELSE "done"]
       /\ exit' = [w \in Workers |-> IF pc[w] = "unborn" THEN "clean" ELSE "died"]
       /\ owner' = [f \in Fds |-> Free]
       /\ heap' = [w \in Workers |-> {}]
       /\ UNCHANGED <<req, cfd, ofd, served>>

BetweenRuns == /\ Files!Restart \/ Files!CleanMessages
               /\ UNCHANGED <<pc, req, fds, served, heap, exit>>

\* Steps a thread takes without waiting for a peer.
OwnStep(w) == Examine(w) \/ Deliver(w) \/ Block(w) \/ GiveUp(w) \/ CloseClient(w)

\* Mutant: no timeout is set, and a server that never answers holds the thread.
TimedStep_NoTimeout(w) == Connect(w) \/ SendRequest(w)

\* Waits that the receive and send timeouts of the server's socket end, once it
\* is silent.
TimedStep(w) == \/ Connect(w) \/ LoseServer(w) \/ SendRequest(w)
                \/ NoHeader(w) \/ NoPostHeader(w) \/ NotModified(w)
                \/ StartBody(w) \/ StartRelay(w)

WorkerStep(w) == \/ Accept(w) \/ AcceptWithoutThread(w)
                 \/ ReadRequest(w) \/ RejectRequest(w) \/ LoseRequestBody(w)
                 \/ TimedStep(w) \/ OwnStep(w)
                 \/ DripHeader(w) \/ NotModifiedBlocks(w)
                 \/ FinishBody(w) \/ FailBody(w) \/ Stall(w)
                 \/ FinishRelay(w) \/ FinishSizedRelay(w) \/ StallRelay(w)
                 \/ NextRequest(w) \/ EndPersistent(w)

Next == \/ \E w \in Workers : up /\ WorkerStep(w)
        \/ Die \/ BetweenRuns

Spec == Init /\ [][Next]_vars

\* A detached thread is always scheduled again, and SO_RCVTIMEO/SO_SNDTIMEO
\* (20 s) end each of its waits for a silent server.  Nothing is assumed of
\* clients, nor of servers that are not silent: DripHeader is always possible.
Fairness == \A w \in Workers : WF_vars(up /\ (OwnStep(w) \/ TimedStep(w)))
FairSpec == Spec /\ Fairness
-----------------------------------------------------------------------------
\* The threads use the directory as ResponseFiles says, so everything that
\* holds of its behaviours holds of the proxy (sendRequest, handleGETResponse).
FilesSpec == Files!Spec

HasClient(w) == /\ pc[w] \notin {"unborn", "done"}
                /\ ~(pc[w] = "closing" /\ exit[w] = "closedTwice")
HasServer(w) == \/ pc[w] \in {"connect", "send", "relay", "persist"}
                \/ /\ pc[w] = "answer"
                   /\ stage[w] \in {"named", "plain", "zipped"} \/ req[w].keep
OwnsClient(w) == owner[cfd[w]] = <<w, "client">>
OwnsServer(w) == owner[ofd[w]] \in {w} \X Hosts

\* A thread sends and receives on its own two sockets only: the numbers it
\* holds have not been closed and handed out again, unless some thread ran the
\* failure path of handlePOSTResponse, which closes the client twice.
SocketsOwned ==
  (\A v \in Workers : exit[v] # "closedTwice")
    => \A w \in Workers : /\ HasClient(w) => OwnsClient(w)
                          /\ HasServer(w) => OwnsServer(w)

\* A thread that is over has closed its sockets, unless it is one of four: it
\* was never made, warned its client, failed to scan, or passed on the answer
\* to a POST by length; the last one leaks the server's socket only.
SocketsClosedAtEnd ==
  \A w \in Workers, f \in Fds :
    pc[w] = "done" /\ owner[f][1] = w
      => \/ exit[w] \in {"noThread", "blocked", "scanError"}
         \/ exit[w] = "sizedPost" /\ f = ofd[w]

\* A thread between two requests of a persistent connection holds no memory,
\* and one that is over leaks at most a content type after a failed scan, a
\* cut chunk, or the header of an answer to a POST; one that was never made leaves
\* its argument.
MemoryReturned ==
  \A w \in Workers :
    /\ pc[w] = "persist" => heap[w] = {}
    /\ pc[w] = "done" => /\ heap[w] \subseteq {"argument", "header", "ctype", "chunk"}
                         /\ "argument" \notin heap[w] \/ exit[w] = "noThread"
                         /\ "ctype" \notin heap[w] \/ exit[w] = "scanError"
                         /\ "header" \notin heap[w] \/ ~req[w].get

\* Once a thread has its server socket it gets as far as the body of the answer,
\* or ends: a server that falls silent cannot hold it, at whatever step, the
\* timeouts see to that (handleRequest).  One can that sends header bytes without
\* end, and so can a client that does not read its 304.
SilenceNeverHolds ==
  \A w \in Workers : pc[w] = "connect" ~> \/ pc[w] \in {"relay", "persist", "done"}
                                          \/ stage[w] \in {"plain", "zipped"}
                                          \/ exit[w] \in {"dripped", "unread"}

\* A body that has been read is unzipped, scanned and answered, its client given
\* the body if it is clean and a warning if not, and its file removed.  Only zlib
\* or the client can keep the thread from it for ever; after a failed scan
\* nothing is sent or removed, nor when the process dies.  For the sockets, which
\* stay open after a warning, see SocketsClosedAtEnd.
Answered(w, n) == /\ pc[w] \in {"persist", "done"}
                  /\ ~Files!Present(n)
                  /\ IF cur[w] \in Infected THEN shown[w] \in Files!Warnings
                                            ELSE shown[w] = cur[w]
BodiesAreAnswered ==
  \A w \in Workers, n \in Names :
    stage[w] \in {"packed", "text"} /\ name[w] = n
      ~> Answered(w, n) \/ pc[w] = "hung" \/ exit[w] \in {"scanError", "died"}

\* request.c says of its argument "the argument passed is the client socket
\* FD": the number a running thread holds is still the client it was made for.
ServesItsClient == \A w \in Workers : HasClient(w) => OwnsClient(w)

\* request.c says of handleRequest "parses the request and connects to the
\* server": the answer a thread waits for comes from the server named by the
\* request it read last.
AskedItsServer ==
  \A w \in Workers : pc[w] = "answer" /\ stage[w] = "named" /\ OwnsServer(w)
                        => owner[ofd[w]] = <<w, req[w].host>>
=============================================================================
