# Verification of the antivirus proxy

TLA+ models of the proxy in this repository, the TLC runs that check them and
proofs, checked by TLAPS, of the properties that matter most. Paths are
relative to the root of the repository (`src/src/get.c` is `get.c` below, and
so on for the other C files).

## 1. The system

The repository holds two programs that share a directory and a script.

**The C proxy** (`proxy.c`, `request.c`, `get.c`, `util.c`) is a multithreaded
HTTP proxy. The main thread accepts connections; each gets a detached thread.
The thread reads a request, connects to the server named in it, sends the
request on and handles the answer. The body of the answer to a GET is stored in
`./responseMessages/<hash>.txt` (or `.gz`, then unzipped to `.txt`), scanned with
ClamAV *by name*, and then either read again *by name* and sent to the client,
or replaced by a warning page. The answer to any other request is passed on
unscanned.

**The Python proxy** (`MITM.py`) does the same for HTTPS with certificates it
makes for each host (`CertificateCreator.py`); it stores bodies but does not scan
them.

| Part | State it keeps | Operations | Talks to |
|---|---|---|---|
| `mainLoop` (proxy.c) | listening socket | poll, accept, create thread | client threads, by a heap-allocated descriptor |
| client thread (`handleRequest`, `handlePersistantRequest`, `sendRequest`) | client and server descriptors, request, its memory | read and parse a request, connect, send, read the next | kernel (descriptors are shared with every other thread), response handlers |
| GET response (`handleGETResponse`) | header, response file, keep-alive decision | store, unzip, scan, deliver, block, clean up | directory, ClamAV, client |
| POST response (`handlePOSTResponse`) | header, buffer | relay by length or in chunks | server, client |
| body readers (`handleNonChunkResponse`, `dechunkResponse`, `handlePostChunked`) | `SocketBuffer`, `ChunkBuffer`, counts | recv, flush, reframe | server, file or client |
| `readHeader`, `extractPostData` | growing `ChunkBuffer` | recv until a blank line, or until a length | client or server |
| `fileNameHash` | none; reads the directory | draw until the name is free | directory |
| `cleanMessages.sh` | none | remove leftovers | directory, between runs |
| `parseURL` | none | cut a URL into host and port | client thread |
| `MITM.py` `Server` | `fileNum` under a lock, a certificate authority | one thread per client: read, intercept or forward, store and unpack the body | `CertificateAuthority`, sockets, directory |
| `MITM.py` `readHeader`, `dechunkResponse`, `nonchunkResponse` | local byte strings | recv, pass on to client and file | server, client, file |
| `CertificateAuthority`, `LRUCache` | root certificate, cache in memory | `load_cert`, `get`, `__setitem__` | threads of the server, OpenSSL |
| `FileCache`, `RootCACache`, `main` | certificate files | load, make, store, replace (`--force`) | OpenSSL, disk |

What makes it hard:

* **shared tables without locks.** The C threads share the descriptor table of
  the process and the directory. Descriptor numbers are handed out again, lowest
  first, so a second `close` can close somebody else's socket. File names are
  kept apart only by the `stat` loop of `fileNameHash`. The Python threads share the
  certificate cache, which has no lock, and a directory in which files are named by a
  number that goes round.
* **check, then use by name.** What is sent is not the bytes that were scanned
  but the file that has the name that was scanned.
* **many ways out.** `handleRequest`, `handleGETResponse` and `handlePOSTResponse`
  have some twenty `return`s, each of which must close, free and remove the right
  things, and `handleGETResponse` calls `handlePersistantRequest`, which calls
  `sendRequest` again.
* **segmentation.** `recv` may cut the stream anywhere: in a size line, between a
  chunk and the CRLF after it, in the empty line after a header. Buffers grow while
  they are filled, and the loops look at their size at different places.
* **silence, closes and death.** Receive timeouts (10 s on the client, 20 s on the
  server), loops that do not look for the end of the stream, and a process that may
  die with files half written and find them at its next start: response files in both
  proxies, and certificates, which are emptied before they are written.

What makes each part correct:

* directory: a client is shown only what was judged, for its own request; a live
  name stays claimed; files left by somebody else are not touched; a request
  leaves nothing behind;
* threads: a thread only uses sockets that are its own; at its end its sockets are
  closed and its memory is freed; a server that falls silent cannot hold it;
* body readers, of both proxies: no byte lost, repeated or out of order, success only
  for a whole body, no overrun of a buffer, and an end for every run of the loop;
* requests: a header and a body are taken as they were sent, no buffer is overrun, and
  the server found is the one the URL means;
* file numbers and files of the Python proxy: a number is shared only by requests a
  whole round of numbers apart, and the file a request ends with is its own;
* certificates: those on disk are signed by the root on disk, the next run repairs what
  a death left; the cache is above its size only while somebody is trimming it, and
  evicts only what it must.

`PROJECT.json` lists each hazard with its line and the properties that watch it.

## 2. The modules

| Module | Models | Correspondence |
|---|---|---|
| `ScanGate` | nothing in particular: what the proxy promises | *abstract specification*: a body is held, judged, then released, replaced by a warning, or dropped |
| `ResponseFiles` | the directory and how threads use it | `name` is `hashName`, `txt`/`gz` the two possible entries of each name, `verdict` is `resultScan`, `stage` the place in `handleGETResponse`, `shown` what the client got, `cur` a history variable (the body the server sent). Steps end where another thread can look: `unzipFile` is two steps (`.txt` opened, `.gz` removed) |
| `Proxy` | main loop and threads: control flow, descriptors, memory | composes `ResponseFiles` (`Files == INSTANCE ResponseFiles`): every thread step that touches the directory conjoins its action. `owner` is the descriptor table, `cfd`/`ofd` are `clientSocket`/`outgoingSocket`, `heap` the blocks a thread has allocated and not freed, `exit` (history) which of the remarkable ways out it took |
| `LengthBody` | the loop over an unchunked body | counts of bytes taken, buffered and written; `result` and `size` are the variables of the code |
| `ChunkCoding` | the bytes of a chunked body | digits, CR, LF, letters; shared by the two modules about chunks |
| `ChunkedBody` | `dechunkResponse` and `handlePostChunked` | byte by byte: `data` is the `SocketBuffer`, `chunk` the `ChunkBuffer`, `todo` what the server has sent or will; `whole` and `closes` say where it stops; `sink` tells the two functions apart |
| `RequestURL` | `parseURL` | an operator on sequences of the characters it tells apart, and what the URL means |
| `ClientRequest` | `readHeader`, `extractPostData`, `allocateBufferSpace` and `parseURL`, as `handleRequest` calls them | counts of bytes: `size` and `cap` are `currentSize` and `currentMaxSize` of the buffer being filled |
| `CertCache` | `load_cert` over an `LRUCache` | `cache` is the order of the `OrderedDict`, `at` the place of each thread in `load_cert`; a thread can be stopped between any two of lookup, store, look at the size, and `popitem` |
| `MitmServer` | the threads of the Python proxy | extends `CertCache`: `LoadCert` conjoins its steps; `pc` is the place in `handleRequest`, `intercept` and `handleClientRequest`, `num` is `requestHash`, `files` who wrote each file; `draws`, `id` and `shared` are history |
| `MitmStream` | `readHeader`, `dechunkResponse` and `nonchunkResponse` of `MITM.py`, in the order a response goes through them | byte by byte: `data` and `chunk` are `data` and `currentChunk`, `left` is `length`, `calls` the depth of the recursion |
| `CertFiles` | runs of the certificate tool, and the start of the proxy | `disk` is what each file holds, a certificate is the number of the root that signed it, `pc` the place in `load_cert`/`load_root_ca_cert` and the two `__setitem__`s |
| `MC...` | | values of the constants for TLC |
| `ResponseFilesProofs`, `ProxyProofs`, `LengthBodyProofs`, `ChunkedBodyProofs`, `ClientRequestProofs`, `CertFilesProofs` | | theorems about the module of that name |
| `MitmProofs` | | theorems about the Python proxy: `CertCache`, `MitmServer` and `MitmStream` |
| `SequenceLemmas` | | what the proofs about bytes need of sequences, `Found`, `Hex` and `FlattenSeq` |

Conventions. A worker of `ResponseFiles` and `Proxy` is one accepted connection
with its thread. The persistent-request recursion (`handleGETResponse` →
`handlePersistantRequest` → `sendRequest` → ...) is a loop back to `pc = "persist"`:
nothing but returns follows those calls, except the `close(clientSocket)` after
`handlePOSTResponse`, which is the action `CloseClient`. Mutated forms of some
actions (`Deliver_KeepsFile`, ...) stand before the definitions they alter; no
next-state relation uses them, they show which slip each property catches.
`ClientRequest` stands beside `Proxy`: what is one step there (`ReadRequest`,
`RejectRequest`, `LoseRequestBody`) is taken apart here; `LengthBody` and `ChunkedBody` do
the same for `FinishBody`, `FailBody`, `Stall` and their `Relay` counterparts, and
`MitmStream` for `OpenFile`, `StoreBody`, `Spin` and part of `Finish` in `MitmServer`.

### What the models leave out

* In `Proxy`, the 10 s timeout of the client socket appears as outcomes of reading
  (rejected, ended, or never ending in `extractPostData`); time itself is not
  modelled. `extractPostData` ignores the result of `recv`, so a client that stalls
  or leaves in a body ends in `LoseRequestBody`.
* Undefined behaviour (the `virusName` pointer that is never set, `freeaddrinfo` of
  an unset pointer in `request.c:239`, a `FILE*` that is NULL when descriptors have
  run out) is either any text (`SendBad`) or the death of the process (`Die`, possible
  in every state).
* `FILE*`s also take descriptor numbers, for the time a file is open; only sockets
  are in the table. This can only make the consequences of a double close worse;
  `SocketsOwned` says nothing of that case.
* In `ResponseFiles` two requests draw the same name only if the constant
  `DrawsCollide` is TRUE. `fileNameHash` hashes the request with values of `rand()`
  and does not reserve the name it finds free, so before the file exists two
  requests differ only by their draws. All runs and proofs (except type
  correctness) assume `DrawsCollide = FALSE`, an assumption the comment at
  `util.c:45` asks for and the code makes likely, not certain.
* Which text the headers carry, beyond GET or not, keep-alive or not, gzip or not,
  chunked or not, the host, and a length. In `MitmServer` it is any outcome.
* `strtol` in `ChunkedBody` has blanks, a sign, digits, the ends of a `long` and the conversion to
  `int`, but no `0x`; `int(..., 16)` in `MitmStream` has digits only, no sign, `0x` or blanks.
* What the C program does once it has used memory outside its buffers: `ChunkedBody` ends in
  `stray` there, `ClientRequest` in `overrun`. In `Proxy` it may be the death of the process (`Die`).
* In `ClientRequest`, what `strstr`, `strcpy` and `readContentLength` find beyond the
  zeroed part of a buffer, or in one that was freed, is undefined; the request is then
  `garbled`, and nothing more is said of it. `malloc` and `realloc` do not fail.
* In `CertCache`, `get` of `LRUCache` does not move what it finds, so that the order is
  the one of insertion; that is the code, not an abstraction.
* In `MitmServer`, sockets (they are closed when the frames of a thread are freed) and
  the requests of one connection (a connection carries one). `unzipFile` and
  `unBrFile` are one step each: only a request with the same number could look in
  between, and `StoredIsOwn` says nothing about requests that share a number while both
  are live. What they and the loops over a body leave half done when they fail is in the model
  (`StorePart`, `Unzip`); that `brotli` removes what it could not finish is taken from the tool. The connection to a server and the TLS handshakes are part of `Forward` and
  `Intercept`, their failures part of `Finish`.
* In `MitmStream`, a client that cannot be sent to: the exception ends the thread as
  `Lose` does.
* In `CertFiles`, a write that fails other than by the death of the run.

## 3. The runs

| Run | Shows | Bounds |
|---|---|---|
| `response_files` | `ShownAsJudged`, `NameStaysClaimed`, `LeftoversUntouched`, `NothingLeftBehind`, and that the directory implements `ScanGate` (`GateSpec`) | 2 threads, 3 names, 3 bodies (one infected), any number of deaths, restarts and cleanings |
| `proxy` | `SocketsOwned`, `SocketsClosedAtEnd`, `MemoryReturned`, and that `Proxy` implements `ResponseFiles` (`FilesSpec`) | 2 connections of up to 2 requests, 2 names, 4 descriptors |
| `proxy_progress` | `SilenceNeverHolds`, `BodiesAreAnswered` | 2 connections of 1 request, 3 descriptors |
| `length_body` | `RecvHasRoom`, `EveryByteOnce`, `SuccessIsAll`, `NoNeedlessWait`, `Returns` | `MAX_RECV_SIZE` 2, `MAX_SEND_SIZE` 5, up to 14 bytes announced and sent |
| `chunked_body` | `ReassembledUnlessAligned`, `NextResponseIntact`, `SpinsOnlyWhenCut`, `RecvHasRoom`, `StraysOnlyIfMisread`, `Returns` | `MAX_RECV_SIZE` 4, `MAX_SEND_SIZE` 6, `INT_MAX` 127, `LONG_MAX` 32767, bodies of one to three chunks, whole or cut anywhere, with every segmentation; six streams that are no chunked body: a size line without end, without digits, with either sign, and sizes that no `int` or no `long` holds |
| `client_request` | `RecvHasRoom`, `BodyRight`, `ServerRight` | `MAX_RECV_SIZE` 2, `MAX_SEND_SIZE` 3, `MAX_PORT_LENGTH` 3: buffers of 25 bytes that grow at 12; headers of 4 to 30 bytes and bodies of 0 to 27 on both sides of each size; up to 2 failing `recv`s; all URLs of an ordinary first character and up to four others, and five odd ones, among them a port and a path behind a colon that do not fit |
| `mitm_server` | `Bounded`, `EvictsRight`, `NumbersApart`, `StoredIsOwn` | 2 threads, 2 hosts, caches of 0 to 2 entries, `MAX_FILE_NAME` 2, 3 numbers drawn, any number of restarts |
| `mitm_stream` | `HeaderSeparated`, `BodyReassembled`, `NoNeedlessEnd` | `MAX_RECV_SIZE` 6, `MAX_SEND_SIZE` 4, a recursion limit of 3, bodies of one to three chunks or up to 8 bytes, right and wrong lengths, every segmentation |
| `cert_files` | `AllSigned`, `RunRepairs` | 2 runs at a time, one after the other without a bound, 2 hosts, 3 roots |

The type invariants are checked in the runs of `ResponseFiles`, `Proxy`, `ChunkedBody`,
`MitmServer` and `MitmStream` (there `StreamTypeOK`), and proved; those of `LengthBody`,
`ClientRequest` and `CertFiles` are proved only. And the runs that find a statement of the sources refuted:

| Run | Statement | What the code does |
|---|---|---|
| `proxy_client_socket` | request.c:160, the argument "is the client socket FD" | `handlePOSTResponse` closes the client when it gets no header, `sendRequest` closes the number again; another thread's client may have it by then |
| `proxy_hosts` | request.c:159, "connects to the server" of the request | later requests of a connection go to the first one's server |
| `chunked_split` | get.c:242, the client is sent the content of a chunked original | a recv that ends with the last byte of a chunk leaves the CRLF to be read as a size line; alone it reads as size 0 and the body ends early *as a success* |

Five more places where a comment and the code disagree show in the models without a
run of their own. The properties named here pass because they except what the code does:

* get.c:218, `virusScan` "stores result in virus name": the pointer is passed by value,
  and the warning page (get.c:415) prints one that was never set (`SendBad` shows any text);
* request.c:250, "BE SURE TO CLOSE IF ERROR": after SCAN_ERROR `handleGETResponse` returns
  with both sockets open (the exception "scanError" of `SocketsClosedAtEnd`);
* request.c:161, "once we have finished ... be sure to delete them": the header of a chunked
  POST answer, a chunk cut by a timeout and the content type after SCAN_ERROR stay
  allocated (the exceptions of `MemoryReturned`);
* get.c:121 and proxy.c:106, "send the client what we have if server times out": what is
  buffered is dropped (`LengthBody!Timeout`; the last conjunct of `EveryByteOnce` allows it and
  bounds it by `MAX_SEND_SIZE`);
* request.c:34, parseURL "extracts the port number and the hostname": a colon in the path is
  taken for the one before the port, and a port of `MAX_PORT_LENGTH` characters or more is copied
  over the end of its array (the exceptions of `ServerRight`).

The exceptions in other properties are behaviour of the same kind: a server that drips header
bytes, and a client that does not read its 304 (`SilenceNeverHolds`); a failed scan, after which
nothing is sent, removed or closed (`BodiesAreAnswered`); a spinning thread when a server closes
early (`SpinsOnlyWhenCut`); a negative size, which only a stream that is no chunked body has, and
which takes `fwrite` and `memcpy` out of their buffers (`RecvHasRoom` of `ChunkedBody` says nothing
of it, `StraysOnlyIfMisread` when it can be); a byte of a request body forgotten for each timeout
(`BodyRight`), and a `recv` that starts before its buffer if more of them failed than bytes came
(`RecvHasRoom` of `ClientRequest`); an empty line cut by a segment (`cut` in `MitmStream`); numbers
that meet after a round, and an older file that `brotli` does not overwrite (`StoredIsOwn`); a renewed
or twice-made root (`AllSigned`). Each property says that nothing but its exceptions goes wrong; that
the exceptions do is the code's behaviour, and the hazards in `PROJECT.json` name them as not covered.
Headers of half a new buffer or more, and what is read beyond the zeroed part of one, depend on the
length of the header alone; the model ends in `garbled` there and no property is stated about them.

Why the bounds are enough. Every hazard of the directory needs a thread and one
disturber: another thread, a leftover file, or a second life of the process; three
names leave one live name for each thread and one for a leftover. Descriptors: four
are two connections with both sockets open, and since numbers are handed out lowest
first, any early close is followed by a reuse; leaked descriptors make the table
run out. A second request per connection is what it takes to use a server socket
that a first one left, and to carry memory from one to the other. For the body loops the
sizes keep the ratios that matter: several `recv`s fit under `MAX_SEND_SIZE`, the
buffer overshoots it by less than one `recv`, and fourteen bytes fill and empty the
buffer at least twice. The chunk payloads contain bytes that look like digits, CR
and LF. `client_request` has sizes below, at and above each threshold of a buffer: its
zeroed part, half of it, all of it. Three draws over two numbers are one that goes round; caches
of up to two entries for two hosts and two threads give both an eviction that meets an
empty cache and a cache with room for all. Two runs of the certificate tool are what a race over the root takes, a
third root is one renewed after a race. The proofs remove the bounds of every
safety property.

Symmetry is used in the runs `response_files` and `proxy` (threads and names) and
`mitm_server` (threads and hosts), never with liveness. `CHECK_DEADLOCK FALSE` stands where
the system stops: at the end of a body, a request, or the bounded draws and roots.

### Fairness

`Proxy!FairSpec` assumes, for each thread, weak fairness of its own steps
(unzip, scan, answer, close) and of the waits that a timeout ends (`TimedStep`:
connect, send, and the answer's header, read on the server's socket, for which
`request.c:264` and `request.c:277` set 20 s both ways): a thread of the system is
always scheduled again, and a `recv` from a silent server always returns. The 20 s are of each
`recv`, though, and `readHeader` is a loop of them: a server that sends a byte now and then holds
the thread for ever. That is the action `DripHeader`, possible whenever a header is waited for, and
an exception of `SilenceNeverHolds`, which is a property about silence. Nothing is
assumed of clients, who may never send a request, or stop reading a body, a warning or a 304
(`Stall`, `NotModifiedBlocks`). Reading a body
is not assumed to end either: the loops over chunks never end if the server closes
in the wrong place, and a server may send for ever. `LengthBody!FairSpec` and
`ChunkedBody!FairSpec` assume that `recv` returns, by data, end of stream or timeout (the 20 s
of request.c:264); they bound what the server sends, and `Returns` is about that much. Nothing is
assumed, and no liveness claimed, of the Python proxy: an intercepted connection has no timeout
that would justify it.

## 4. What is proved

All theorems hold for every value of the constants that satisfies the named
assumptions:

* `FilesAssumption`, `ProxyAssumption`, `BodiesAssumption`, `NoMarker` and `CertAssumption`
  say that the sets of model values are disjoint from the markers ("absent", ...) used
  beside them;
* `SizesAssumption` and `ChunkAssumption` that `0 < MAX_RECV_SIZE <= MAX_SEND_SIZE`, as
  `proxy.h` defines them; `RequestAssumption` and `StreamAssumption` that the sizes are
  numbers; `ChunkAssumption` that an `int` holds a hexadecimal digit and a `long` all that an
  `int` does; `RequestAssumption` that "80" fits the array of a port;
* `RequestAssumption` that no header is empty and that URLs are sequences of the characters
  `RequestURL` tells apart; no length is bounded, nor what follows what;
* `ChunkAssumption` and `StreamAssumption` that bodies are sequences of bytes and that a chunk
  has 1 to 15 of them, so that its size is one hexadecimal digit. Any number of chunks, with
  any contents;
* `StreamAssumption` that the empty line behind a header is the first one in it: that is what
  makes it the end of the header;
* `CacheAssumption` that threads and hosts are finitely many, `ServerAssumption` that there is
  at least one file number.

* `ResponseFilesProofs`. `TypeCorrect` is inductive with `NameWhileBusy` (a worker
  has a name exactly while it is answering). The rest, under `~DrawsCollide`,
  follows from one inductive invariant `IInv`: types, `NameWhileBusy`, no thread
  while the process is down, `NamesUnique`, `FileState` (which entries the directory
  holds for a worker at each stage and with which contents), `BodyState` (what the
  verdict says about the body held) and `ShownAsJudged`. `ShownAsJudged` alone is not
  inductive: that `Deliver` sends the right body needs `FileState` at "judged", and
  that needs that no other worker wrote to the name in between, which is
  `NamesUnique`; that in turn is kept by `ChooseName` because live names are claimed.
  From `IInv`: `ClientsGetWhatWasJudged`, `ClaimsHold`, the action properties
  `LeftoversSafe` and `RequestsTidyUp`, and the refinement `ImplementsScanGate`,
  shown step by step (`WorkerRefines`).
* `ProxyProofs`. `UsesFiles`: each step of `Proxy` is a step of `ResponseFiles` or leaves
  the directory alone, so `Proxy` implements it; `ClientsProtected` carries
  `ShownAsJudged` over to the composed system. `ProxyTypeCorrect`, and
  `ThreadsOwnTheirSockets`: while no
  thread has taken the failure path of `handlePOSTResponse`, each uses only sockets
  that are open and its own, for any number of threads and descriptors. The
  invariant `SockInv` says at which `pc` and `stage` a thread still owns which
  socket; the key lemma is that closing one's own numbers and opening free ones
  keeps what the others own (`OthersOwn`). `TwiceIsLast` says that the failure path
  is the last thing a thread does, and its hypothesis is where the theorem would
  fail for the code without the exception (run `proxy_client_socket`).
  `MemoryComesBack` and `SocketsGetClosed` rest on the same invariant with `Memory` (what
  a thread may hold at each place) and `Claims` (which descriptors may be listed as its own
  at each place). `Claims` is kept whatever other threads close by mistake: closing only
  takes away, and a number is given to the thread that asks (`CloseReleases`).
* `LengthBodyProofs`. `NoOverrun`, `NothingLostOrRepeated`, `SuccessPassesAll` and
  `WaitsOnlyIfMore` for all sizes, from the invariant that `result` agrees with the bytes
  taken, and these with the bytes passed on and buffered.
* `ChunkedBodyProofs`. `ChunkedTyped` and `SocketBufferHasRoom` whatever the server sends,
  junk included; the latter from `Room`, the most a chunk can leave in the buffer for the
  next size line, and from `StrtolIs` and `IntIs`, which say what `strtol` and the conversion to `int`
  return for any bytes. `StraysIfMisread` rests on the invariant below: at the beginning of a chunk of
  a body the size is its length, positive whatever its data look like (`NoNegativeChunk`). `BodyReassembled`, `NextResponseUntouched` and `SpinsOnlyIfCut` follow from
  one invariant, `Unaligned`: unless a `recv` stopped exactly at the end of a chunk's data, the
  loop is at some chunk `k`, what was emitted is the first `k` chunks (`Sent`, framed or not as
  the sink asks), and the buffer followed by what is still to come is the encoded body from
  the place of chunk `k` on (`AtSize`), or from behind its size line (`AtChunk`). The code drops
  what has come of the CRLF after a chunk. If only its CR has, the LF stands before the next
  size line (`back`), where `strtol` skips it (`StrtolIs`); if nothing of it has, the CRLF is taken
  for a line: that is `aligned`, without which the invariant fails (run `chunked_split`).
* `ClientRequestProofs`. `EveryRecvHasRoom` and `BodiesRight`, from `Room`: in `readHeader` the buffer is less than half full before each `recv`, in
  `extractPostData`, which looks earlier, less than half and one `recv`. That is why the
  two different orders of growing and receiving are both safe at the end of the buffer. At its
  start they are as long as the size is not below 0: it is what was taken of the body less the
  failures. `ServersRight` is about `Parsed`, for URLs and port arrays of every length: where the
  first slash, colon and query mark are, and that the port found is the one meant.
* `CertFilesProofs`. `SignedByTheRoot` from `OneRoot`: unless roots were renewed or made at the same
  time, one run at most stores a root, it met none on disk, and whoever is past the root
  signs with the one on disk. `RunsRepair` from `RootOwed`: without a whole root on
  disk nothing ran yet, or somebody died, or somebody is at it. And the types.
* `MitmProofs`, the cache. `CacheBounded` and `EvictionsRight` by counting the threads inside
  `__setitem__`. `Bounded` is inductive; that evictions meet entries needs `Surplus`: each
  thread about to evict saw one entry too many, and no more threads than there are
  can have evicted since. `ServerCacheBounded` and `ServerEvictsRight` carry the two theorems
  over to the server, whose steps are steps of `CertCache` or leave the cache alone.
* `MitmProofs`, the threads. `ServerTyped`, and `NumbersFarApart`: with `Base` the draws before
  this process started, a live thread's
  number is `(id - 1 - Base) % MAX_FILE_NAME + 1` (`Numbered`), so that equal numbers are
  of draws that differ by a multiple of `MAX_FILE_NAME`; the lock is needed between
  a number and its count (`LockHeld`). `StoredFilesAreOwn` from `FInv`: only draws made so far
  have written files (`FilesDrawn`); two live threads of one number are both in `shared`
  (`Exclusive`); and a thread that is not finds nothing of its own in any file before it
  opens one, and afterwards nothing but its own body in the file it writes and, but for brotli's
  older file, the one it will end with, however much of it came (`OwnFiles`).
  `StoredIsOwn` speaks of the end of a request only; that nobody wrote to its files on the
  way is what `Exclusive` gives, and it holds because a draw notes who has the number.
* `MitmProofs`, the readers. `StreamTyped`. `HeaderFound` from `AtHeader`: the header so far
  followed by what is to come is the stream, and it stops before the empty line; the segment that
  goes beyond has all of the line if it was not cut, and the first place where the line is found is
  the one where the header ends. `StreamReassembled` and `HonestNeverSpins` from `BodyInv`, which
  says of each loop what the buffer followed by what is still to come is: the stream from chunk
  `k` on (`Sizing`), the bytes of chunk `k`, its CRLF and the rest (`Filling`), or the part of a
  plain body not counted yet (`AtLength`, where `left` is that part's length); and that the file
  has the first `k` chunks, the client the same chunks with sizes as `hex()` writes them. From
  it: a loop that waits has something to wait for.
* `SequenceLemmas`. The installed provers have no induction over data: the library's theorems
  take an operator as a parameter. They do have one fact without such a parameter, that a
  set in a well-founded relation has a minimal element; `Induction` and `Recursion` derive from it
  that a *set* of numbers with 0 and every successor has all numbers, and that a function
  defined by recursion on an interval exists. With these, what `FlattenSeq`, `Hex` and `Found`
  return can be proved for all sequences (`FlattenParts`, `HexIsNat`, `FoundIs`), and that the
  frames of a chunked body lie where they should (`FramesLie`). `Lies` and `Follows` say which
  part of a stream a buffer and the bytes to come are; both readers of chunks share them.

A proof attempt found one slip in a model: two cases of `Parsed` overlapped, so that TLC took the
first where the code decides by the order of its tests. They are `IF`s now, in the code's order.

Model-checked only: liveness (`SilenceNeverHolds`, `BodiesAreAnswered`, `Returns` of both body
loops), which the prover does not handle. Every safety property of a passing run, and the
two refinements, are proved.

## 5. Not modelled

`parseRequest` and `connectRelay` are dead code. Certificate contents are calls into
OpenSSL without state. ClamAV is outside: `Scan` takes any verdict `cl_scanfile` may
give for the contents, and any failure. The contents of gzip and brotli files are outside
as well. Of the start of the C proxy (`main`, `initClam`, `setupSocket`) only the directory it
finds is modelled: the rest is a sequence of library calls before any thread exists. The
headers sent to a client (get.c:423) and the depth of the stack (get.c:344) are not modelled.
The "passthrough" of HTTPS by the C proxy that the repository's README names has no code: a
CONNECT has no URL that starts with `http://` and is rejected (`RejectLine`). `cert/`, `obj/` and the makefile hold no behaviour.

## 6. Plan

Done, in this order: `ScanGate` and `ResponseFiles` with their proofs (the promise of
the program), `Proxy` over it, `LengthBody`, `ChunkedBody`, the certificates on disk
(`CertFiles`) and in memory (`CertCache`), `MitmServer` over the latter, `MitmStream`,
`RequestURL` and `ClientRequest`, each with proofs of all its safety properties.

Left:

1. The headers a client is sent: `Connection` against what happens to the socket, as a part
   of the request in `Proxy` (the hazard at get.c:423).
2. Chunks of more than 15 bytes: sizes of several digits in `ChunkCoding`.
