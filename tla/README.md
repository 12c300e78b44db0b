# TLA+ verification of cpp_try's common library

`cpp_try` is a small C++ server toolkit (`common/`) with a demo application
(`app1/`). This directory holds TLA+ models of its core, the TLC
configurations that check them, and TLAPS proofs. All line numbers refer to
`src/cpp_try`; both makefiles build with `-D NDEBUG`, so `assert` does nothing,
and without `WIN`, so the `#ifndef WIN` branches are the program on Linux.

## Inventory

| part | state | operations | hard behaviour | correct when |
|---|---|---|---|---|
| `Util/ByteBuffer` | array, length | AddData, GetData, RemoveData | overlapping memcpy | the remainder survives a removal |
| `Net/NetConnection`, `NetPackageHeader` | receive/send buffer, cached header | AddRecvData, CheckRecvPackage, TakeRecvPackage, Send, DoSend | stream cut anywhere, sizes of any sign, slow peer, peer gone at any step | packages whole, in order, once; buffers suffice; replies whole and flushed |
| `Net/NetConnectionManager`, `NetListener` | descriptor map, epoll set, event batch, needremove | Init, SelectSocket, AddConnection, OnSocketRead/Write/Close, Release | descriptor reuse, other threads, EMFILE, failing epoll_ctl, failure in the middle of a batch | map = kernel; an event only ever reaches its own socket |
| `Net/NetAwakeBridge` | one socket | Init, Notify, CheckSend; accepted and read like a client | connect under way, refused, broken; full buffers, short sends, a failing select | Notify wakes the net thread |
| `Net/NetServer` | `m_Run`, thread, manager | Start, ThreadProcess, Stop, OnRecvData | Stop at any moment, a second Start | Stop returns, nothing stays open |
| `Http/HttpServer` | event base, map of outgoing requests; response text with a stack of counts | Start, Stop, SendHttpRequest, callbacks; GetHttpParams, GetHttpURI, AddLuaKeyValue, Begin/EndLuaTable | request address reused, callback with NULL, stop during requests; separators, nesting | every connection freed once; parameters arrive; tables are Lua |
| `Util/LockQueue` | queue, mutex | Push, Pop, TryPop, MoveAll | Pop on an emptied queue, unlocked GetSize | linearizable queue |
| `Util/DataUtil`, `StringUtil`, `TimeUtil` | none / reference second and tick | conversions, Split, GetCurrentMillisecond | positions, widths, a tick that starts over | reads invert writes; time is right within a second |
| `MySQL/*` | connection, pending results, current row | Query, Execute, transactions, GetRecord, Get* | unread results, lost server, answers nobody looks at | own rows, all rows; commit and rollback mean it |
| `Config/LuaWrap` | Lua state, its stack | GetLuaState, ReleaseLua, Read* | release then use, stack balance, casts | a running server has a state; stack unchanged, fields read as written |
| `app1` | `is_run` | main, HttpTest | signal against start/stop | clean stop |
| `tinyxml2`, `third_part`, `libsrc` | | | | vendored, left out |

Interaction: `NetServer::Start` creates the net thread; that thread alone
touches the manager, the listener and the connections. `NetConnectionManager`
calls `NetServer::OnRecvData` for every complete package; `OnRecvData` takes
the package and answers through `NetConnection::Send`, which calls back into
the manager (`UpdateConnectionSend`) to arm `EPOLLOUT`. The main thread only
sets `m_Run` and joins. `app1`'s `main` runs an `HttpTest`, a subclass of
`HttpServer`: one thread runs libevent's loop, which calls `OnHttpRequest` for
clients and `OnHttpRequestDone` for the program's own requests; `main` sleeps
until a signal clears `is_run`, then stops the server. Other threads of the process (HTTP, MySQL, files) share
nothing with the net thread but the descriptor table.

## Modules

* `ByteBuffer` - the buffer as a sequence; `RemoveData` takes the direction in
  which the libc's memcpy walks as an argument. With `"ascending"` the
  overlapping copy is a move; with `"descending"` (x86 libcs that copy from the
  end) the bytes that stay are overwritten first.
* `NetConnection` - one connection. A byte received is its position in the
  peer's stream, so a buffer in order holds consecutive numbers; `Unpack` finds
  the header whose first byte has the position of the buffer's first byte, and
  any header at all if the bytes are not a header. Net-thread steps: `EpollWait`
  (event snapshot), `OnSocketRead` (one recv of any size, end of stream, or
  error), `CheckRecvPackage`, `OnRecvData` (with `TakeRecvPackage` and the login's
  reply), `GetDataNegative`, `DoSend` / `NoWrite`, `OnSocketClose`; between any two
  of them the peer may send, read, close or reset. The size in a header is a signed
  integer: one that is too large is refused, a negative one is not, and ends the
  process in TakeRecvPackage's memcpy (`GetDataNegative`). `why` records why the socket is removed
  (OnSocketRead's return codes 1-4, EPOLLERR, a failed send).
* `PackageChannel` - what the connection promises: packages whole, in order,
  once; shut only because the peer left or its next package is malformed (its
  size is wrong in either direction, or its sign).
  `NetConnection!ChannelSpec` is the refinement.
* `NetConnectionManager` - the socket loop with the kernel's descriptor table,
  the listener, the accepted connections, needremove and Release; other threads
  open and close descriptors at any step. `closing` separates the deletion of a
  connection from the `close` that follows it. What a read does to the bytes is
  abstracted to: works, fails, leaves something to send. `build` selects
  SelectSocketLinux (epoll set kept in the kernel, batches of `MaxEvents`) or
  SelectSocketWin (the sets are made anew each round, everything ready is
  handled, listener first and then in map order, at most `MaxConnections`).
  Where AddConnection or Init add a socket to the epoll set, epoll_ctl may fail: the
  code prints and goes on, and the entry is not watched (`added`).
* `NetServer` - extends the manager by `m_Run`, the main thread with up to
  `MaxStarts` calls of Start, and `LuaWrap`'s Lua state, which Start makes (the
  first time only) and Stop closes.
* `NetAwakeBridge` - both ends of the bridge. `CheckSend` asks select, under both
  meanings of its first argument: a refused connection is closed, one with room may
  be used, and when select fails the socket is closed whatever its state.
  `NotifySend` sends as much of the package as there is `Room` for; a short count is
  not looked at (`cut`), no room is an error. The net thread accepts the connection
  (`Accept`), receives part of what is there (`ReadBridge`) and takes packages off
  (`CheckRecvPackage`). Bytes are positions in the stream; `whole` holds the
  positions of the packages sent whole, so bytes that are read from anywhere else
  are no header. `due` is where the last package ends that a Notify with an
  established connection and room enough had to send.
* `HttpServer` - the event thread (`thread` is its place in ThreadProcess), the
  main thread's Start, Stop, join and destruction, the clients, and the outgoing
  requests. Requests and connections are addresses: `requests` and `connections`
  are what libevent has allocated, `m_HttpRequest` what the server recorded, and
  a freed address may come back. `EventBaseLoop` is the poll of one
  event_base_loop, `Handle` one callback, `LoopDone` its return, early when
  event_base_loopbreak was called. A request may fail in evhttp_make_request (the
  request is freed, no callback) or later (callback with NULL); `failed` records
  that one did. `SendHttpRequest` may happen wherever a subclass's code runs.
* `App1` - main() on Linux, composed with `HttpServer`; signals at any moment.
* `LockQueue` - every operation between lock and unlock step by step; GetSize
  without the lock may say anything while another thread holds the lock. `ub` says
  that Pop has called `front()` of an empty queue.
  `AtomicQueue` is what it promises; `LockQueue!QueueSpec` is the refinement.
* `MySQLWrap` - one connection, its client library and server (external): a
  command is refused while a result set is unstored or results are to follow.
  Statements are numbered; the program's view (what it wrote, kept, had rolled
  back) stands beside the server's (open transaction, what is stored). The
  server may go away at any time. A Query whose statement gives no rows is executed
  and then ends the process, MySQLResult::Init reading through NULL (`CrashesAfter`).
  `MySQLResult` - the rows of one result.
* `LuaConfig` - the Read functions as pushes and pops on the Lua stack, with the
  conversion of each: lua_tonumber takes numbers and their texts and gives a double
  (rounded beyond `ExactLimit`), (int) and (Int64) drop the fraction and give anything
  for what is out of range (undefined), (float) rounds beyond `FloatLimit`, a text
  ends at a NUL. Numbers are in steps of `1/Fraction`. lua_next visits the keys of a
  table in any order.
* `TimeUtil` - GetCurrentMillisecond next to the real time and clock(), which is
  real time that starts over on Windows and processor time on Linux.
* `DataUtil` - fields written one after the other and read back, in bytes of a
  small base.
* `HttpText` - GetHttpURI against GetHttpParams with Split, on sequences of
  characters; HttpResponse's Lua tables as tokens.
* `MCHelpers` - NetAwakeBridge, LockQueue and the helper modules above side by side. They share
  nothing, so their state spaces are added, not multiplied: the variable `part`
  picks one and the others stay in their initial state. `MCApp1` does the same with
  the two programs around HttpServer (`program`): one that starts, stops and uses it
  at will, and app1.
* `NetConnectionProofs`, `NetConnectionManagerProofs`, `NetServerProofs`,
  `NetAwakeBridgeProofs`, `HttpServerProofs`, `LockQueueProofs` - the theorems about
  the module each is named after (`HttpServerProofs` also those about App1);
  `HelperProofs` - those about MySQLWrap, MySQLResult, LuaConfig and TimeUtil;
  `ConversionProofs` - those about DataUtil and HttpText.
* `MC...` - small instances.

Operators called "Mutant of X" are faulty variants of X, used to confirm that a
property can fail; no specification uses them.

Abstractions: header fields no code reads, logging, addresses and ports are
left out. A peer may write any header: with a wrong sign, an oversized body or a
negative size. EAGAIN cannot occur on an accepted connection, sockets being used only
when reported ready (the code would close the connection). A negative length in
memcpy is a size beyond any memory and taken to end the process. event_base_loop with
EVLOOP_NONBLOCK polls once in the model, as libevent's event.h says; libevent 2.1.8
polls again while callbacks were run, which two calls of the loop do too. In
LuaConfig neither the overflow of a float nor the 14 digits with which Lua prints a
number are modelled.

## Runs

| run | shows |
|---|---|
| `net_connection` | `TypeOK`, `RecvBufferSuffices`, `PackagesInOrder`, `OnlyBadDataRefused`, `SendStreamIntact`, the refinement `ChannelSpec`, and under fairness `PackageTaken` and `RepliesFlushed`, with the usual memcpy, for headers with sizes of any sign |
| `net_connection_memcpy` | violation: with a memcpy that copies from the end, `RemainderMovedBack` fails (ByteBuffer.cpp:55) |
| `net_manager` | both builds: `MapMatchesKernel`, `EventsCurrent`, `EventsFit`, `OthersUntouched`, `OnlyFaultyClosed` |
| `net_manager_listener` | violation: a failed accept or set-up of one client closes the listening socket (`ListenerKept`) |
| `net_server` | over a restart: `AllReleased` (all but the bridges NetAwakeBridge::Init forgets), `StopReturns` |
| `net_server_lua` | violation: after a second Start there is no Lua state (`LuaStateThere`), as GetLuaState makes one only once |
| `awake_bridge_linux` | violation: on Linux Notify never sends and wakes nobody (`NotifyWakes`) |
| `http_server` | HttpServer: `ExactUntilFailure`, `FreedOnce`, `RegisteredServed`, `ClientsAnswered` (Answered), `HttpStopReturns` (StopReturns). app1: `CleanReturn`, `SignalStops` |
| `http_request_reused` | violation: after a failed request a new one at its address is not recorded (`RequestsRecorded`) |
| `helpers` | NetAwakeBridge where select ignores nfds (Windows): `BridgeKept`, `WakeUpsWhole`, `NotifyWakes`. LockQueue, Pop included: `EmptyWhenSaidSo`, the refinement `QueueSpec`, `CallsReturn`. MySQL: `TransactionsHold`, `ClearedBefore`, `OwnRows`, `ReadsEveryRow`. Lua: `StackKept`, `ConfigRead`. Time: `TimeAccurate`, `TimeHardlyBack`. Data: `ReadBack`. HTTP text: `ParamsArrive`, `TableReadable` |
| `lock_queue_pop` | violation: a Pop after GetSize meets a queue another consumer has emptied; nothing is thrown, `front()` is undefined (`PopDefined`) |
| `mysql_rollback` | violation: a procedure called in a transaction makes ROLLBACK be refused, and the next START TRANSACTION commits (`RolledBackStaysOut`) |

What the properties of `helpers` exclude, because the code really behaves so:

* `LockQueue::Pop` may call `front()` of an empty `std::queue`, which the run
  `lock_queue_pop` shows; `EmptyWhenSaidSo` says that only Pop does, and `CallsReturn`
  promises nothing after it.
* `Notify` does not look at a short send: half a package shifts the framing, and the
  net thread may close the bridge or wait for bytes that do not come (`cut` in
  `WakeUpsWhole` and `NotifyWakes`). A bridge whose epoll_ctl failed wakes nobody.
* `Execute` of a statement with rows (DoHeartBeat's procedure may be one) leaves a
  result set that ClearResult cannot remove; every later statement is refused,
  and `Query` returns the old rows (`unread` in `ClearedBefore` and `OwnRows`).
* `TimeAccurate`, and on Windows `TimeHardlyBack`, hold for calls close enough
  together (`frequent`): a tick that started over shows only while it is below the
  reference tick, and a call that misses it goes back by a whole round (24.8 days
  in the code). On Linux `TimeHardlyBack` holds without that, but clock()
  is processor time, and the answer may be arbitrarily far behind.
* `WriteDouble` always writes at the beginning of the array (`ReadBack` has
  doubles there only).
* Nothing is escaped in a URI (`ParamsArrive` has no separators in the wrong
  places). In `ConfigRead` a value fits the type asked for (`Fits`): a number beyond
  2^53 changes in a double and beyond 2^24 in a float, one out of range of an int
  becomes anything; an array or text that is missing ends the process.
* A column that is not there, or a read without a row, reads wild memory
  (`careless` in `ReadsEveryRow`).

Bounds. Connection: header 2, body at most 2, chunk 5, buffer 8 - exactly what
`RecvBufferAssumption` needs, so an off-by-one overflows it; a chunk holds two
packages and a bit, a package spans chunks, three packages (all mixes of an empty
one, the largest one, a wrong sign, a body too large and a negative size) exercise a package
before, at and after the one under test; two replies fill the send buffer and the third is dropped;
`SOCK_SNDBUF` 3 forces partial sends. Manager: the bridge and two clients, six
descriptors so that the third accept may find none left, batches of two so that
a batch can leave a ready socket behind, one descriptor of another thread; on
Windows two connections at most, so that the third is turned away. NetServer: one
client and the bridge, two starts, so that a bridge is forgotten.
The clients are interchangeable (symmetry, used without liveness). HTTP: two
request addresses and three sends, so that an address comes back after a failure
and after a success; three connections, one more than can be carried at once;
two starts; one registered and one unknown path. LockQueue: two producers, two
consumers with two calls each, three items: a MoveAll meets pushes and another
consumer. MySQL: three statements (four in the violation) out of a query, an
update, and procedures with one and two further results, with transactions and
losses in between; results of none, one and three rows with NULLs and a name that
occurs twice. Lua: one field of each type, arrays of up to three elements, an
array of mixed types, an empty one, a missing field, a text that is a number, one
with a NUL, fractions, and numbers on both sides of what a float, an int, a double and
an Int64 hold. Bridge: packages of 3 bytes in a connection that holds 7 and reads of 4,
so that a read spans packages and the third of four packages may find room for none or
for a part. Time: a clock that starts over every 5 milliseconds, watched for 15, with
seconds of 3, so that it does so several times and at every phase of a second. Data: three
fields in ten bytes with four values each, all ends of the integer ranges, texts
that are empty, too long or hold a NUL. Text: two parameters, keys and values with
every separator; tables nested three deep.

Fairness. The net thread runs its loop for as long as the server runs
(`WF(NetThread)`, `WF(ThreadProcess)`); epoll_wait has a 200 ms timeout, which
is what `EpollTimeout` is. `RepliesFlushed` also assumes that the peer reads.
Nothing is assumed about when clients connect, send or leave. The HTTP thread
and app1's main thread are scheduled (`WF(ThreadProcess)`, `WF(MainThread)`): both
poll, every 100 and 200 ms. Nothing is assumed of signals or of the servers
asked. In NetAwakeBridge the thread in Notify goes on to its send, and the net thread
accepts and reads what is there (its loop; `WF` of each step, each being enabled until
taken); nothing is assumed of when connections are established or break.
LockQueue's threads take their next step if it stays possible; std::mutex
promises no more, and the number of calls is bounded.

## Proofs

Every safety invariant and action property of the passing runs, and both
refinements, are theorems; a run shows a property on its instance, the theorem for
every value of the constants that satisfies the named assumptions of the module. Each invariance proof has the same
shape: an inductive invariant, a lemma per action that keeps it, and a last step
that combines them. The inductive invariants were checked by TLC on the runs' instances
before they were proved.

`NetConnectionProofs` (any sizes that satisfy the assumptions, any packages):

* `ConnectionTypeOK`: both buffers stay within their arrays, whatever the memcpy.
* `RecvBufferNeverFull`: `RecvBufferSuffices`, whatever the memcpy and whatever sizes,
  negative ones included, the headers give. Not inductive by itself:
  the strengthening `Drained` says that a cached header has been checked, that
  outside the do-while loop less than one package is buffered, and that a package
  is taken only when complete. Then recv's chunk fits by
  `HEADER_SIZE + NET_PACKAGE_MAX_SIZE - 1 + RECV_SIZE <= NET_BUFFER_SIZE`
  (`RecvBufferAssumption`; 28 + 1023 + 1024 <= 8192 in the code).
* `RemainderKept`, `PackagesKeepOrder`, `OnlyMalformedRefused` and
  `ImplementsPackageChannel`, the refinement, from `MemcpyOrders = {"ascending"}`: the hypothesis is needed, as
  `net_connection_memcpy` shows. The invariant is `FrameInv`: the packages
  lie behind each other in the stream (`Laid`), the receive buffer begins with the
  first package not handed on and a cached header is that package's (`Aligned`).
  `OnlyMalformedRefused` also says when the process ends: for a negative size only.
  Without `Aligned` nothing ties the header that CheckRecvPackage unpacks to a
  package of the peer.
* `RepliesWhole`: `SendStreamIntact` from the same hypothesis. `SendInv`
  adds `Answers`: every queued byte belongs to an answer to a package received so
  far, so that a further reply cannot coincide with one that is under way.

`NetConnectionManagerProofs` (any clients, descriptors, batch size and limits, both builds):

* `ManagerTypes`, `MapAgrees` (`MapMatchesKernel`), `BatchCurrent`
  (`EventsCurrent`), `SocketsFit` (`EventsFit`), and the action properties
  `OthersKept` (`OthersUntouched`) and `FaultlessKept` (`OnlyFaultyClosed`). One
  invariant carries all, `ManagerInv`: who owns a descriptor (`Owned`), what is
  registered (`Registered`), no descriptor twice in the batch and needremove
  (`Distinct`: without it an event could be handled after its socket was closed
  for another), what there can be at each place of the loop (`Phases`), that an
  event has a reason and what is removed deserves it (`Faults`), and the limits
  (`Room`).

`NetServerProofs` (any number of restarts):

* `Released` (`AllReleased`) and `LuaUntilRestart`: `LuaStateThere` up to the second
  Start, from which on `net_server_lua` refutes it. `ServerInv`
  adds to `ManagerInv` where the main and the net thread are relative to each
  other, what the flag in GetLuaState remembers, and a count: no more bridges
  are open than Starts got past NetAwakeBridge::Init.

`NetAwakeBridgeProofs` (both systems, any sizes and number of calls):
`KeptUntilFailed` (`BridgeKept`) and `WholeUnlessCut` (`WakeUpsWhole`). For the first,
a thread about to send has found the connection up, with room, or broken, and nobody
else fills it meanwhile (`RoomKept`). For the second, until a send is cut the packages
lie end to end from where the net thread is up to what was written (`EndToEnd`).

`HttpServerProofs` (any number of addresses, sends and restarts):

* `ConnectionsFreedOnce`: `FreedOnce`, which is inductive as it stands:
  the connections in the map are allocated and different, and none carries the
  request of another entry. Holds whatever fails.
* `MapExactUntilFailure`: `ExactUntilFailure`. The strengthening `Book`
  adds that the map has no stale key, so that `insert` never finds an entry, and
  that a destroyed server has no thread. Both rest on `BookSteps`: only four
  actions touch the bookkeeping.
* `RegisteredAnswered`: `RegisteredServed`. `Serving` says that the port is bound
  only between the bind and evhttp_free, that a client waits only while it is, and that
  past OnRegisterServer every registered path has its callback.
* `ServerTypes`: `TypeOK`.
* `ReturnsClean`: `CleanReturn` of App1. Every step of the program is a step of
  its server or leaves the server alone (`ServerSteps`), so the program inherits
  `Serving`; `Obeys` adds that main() stops the server only after a signal.

`LockQueueProofs` (any threads and items):

* `SaysEmptyOfEmpty`: `EmptyWhenSaidSo`, for any operations, Pop included.
* `PopSafeAlone`: `PopDefined` for a single consumer, whatever the number of producers;
  with two `lock_queue_pop` refutes it. What GetSize said without the lock stays
  true because only the consumer itself takes items away.
* `ImplementsAtomicQueue`: the refinement `QueueSpec`, for any operations.
  `QueueInv` says that the mutex is held by exactly the thread at work on the
  queue, and what that thread has learnt of the queue while nobody else can
  change it.

`HelperProofs`:

* MySQL: `ResultsCleared` (`ClearedBefore`) and `QueryGetsItsRows` (`OwnRows`),
  because a result set stays unstored only after Execute; `TransactionsKept`
  (`TransactionsHold`), because server and program agree on the open transaction
  as long as no answer was refused (`Agreed`), and statements to come have numbers
  that nobody knows yet (`Numbered`); `RowsRead` (`ReadsEveryRow`), where the
  first column of a name exists by well-founded induction on its position.
* Lua: `StackUnchanged` (`StackKept`) and `FieldsRead` (`ConfigRead`). `InArray`
  says that inside an array the stack is the table, the array and the last key,
  that no key was visited twice, and that what was read is the conversion of the
  elements at the visited keys; what fits its type is its own conversion.
* Time: `MillisecondAccurate` (`TimeAccurate`) and the action property
  `MillisecondHardlyBack` (`TimeHardlyBack`): Linux without, Windows with the
  condition that calls are frequent. `Reference` says that between calls
  that are frequent the tick has not started over unnoticed.

`ConversionProofs` (any base, widths, fields, names and values). What these modules
compute is defined by recursion over bytes, characters and tokens. The library's
induction theorems cannot be instantiated here, so the module argues with sets: a
set of naturals that contains 0 and the successor of each member is all of them
(`Inductive`; `Backwards` is the descending form), both from the smallest member of
the complement (`SmallestOf`). The equation of a recursive function follows once some
function is shown to satisfy it (`DefinedBackwards`, `PowersToExist`, `SumsExist`).

* `TablesReadable`: `TableReadable`. `TableInv` says that every token may follow the one
  before it (`Linked`), which token is last for each count on top of the stack
  (`LastToken`: a count above zero is what makes the next entry begin with a comma), and
  that the stack is as deep as there are tables open (`Paired`).
* `ParametersArrive`: `ParamsArrive`. `UriInv` says that the keys already written are
  written once in some order, that the URI is the path, `?` and their items, and
  that splitting what follows `?` at `&` gives exactly those items. The lemmas are
  about Split: appending a further item splits into one piece more (`SplitAppended`),
  and an item without separators in the wrong places is read as its key and
  value (`ItemsRead`).
* `ValuesReadBack`: `ReadBack`. `DataInv` says that, with doubles at the beginning only,
  the fields lie behind each other at offsets that agree with the writer's and the
  reader's positions (`Laid`, `InStep`). `IntegerRead` and `SignedRead` show that the
  bytes of an integer add up to it again, `FieldRead` the same for every kind of field. The assumption on the
  fields (`IsValue`) is that each is a value of the C++ type it is passed as, and that
  a string's length fits the signed integer written in front of it.

`TypeOK` of NetConnectionManager and of HttpServer serves the proofs; no run
lists it.

Model-checked only:

* Liveness: `PackageTaken`, `RepliesFlushed`, `StopReturns` of NetServer,
  `HttpStopReturns`, `ClientsAnswered`, `NotifyWakes`, `SignalStops`, `CallsReturn`. Fairness
  and ENABLED are beyond the prover.
* The violation runs, whose counterexamples are TLC's.

## Plan

1. Done: every component of the toolkit has a module (see Not modelled for what
   is left out of them).
2. Done: the theorems above, one for each safety property and refinement.
3. Left: shorter proofs for the manager.

## Not modelled

* `tinyxml2`, `third_part`, `libsrc`: vendored code, nine tenths of the repository's
  lines. libevent, libmysql, Lua and the kernel appear as external actions, as
  the toolkit's code uses them.
* `NetServer::Init` (reads StartSetting.xml and opens MySQL), `DoLuaFile`, printing,
  date and number formatting (`%I64d` included), `Trim`, `SplitToInt`,
  `GetStringWidth`: pure I/O or functions without state.
* `start_daemon` (one fork before anything is started), the demo modules of app1,
  which only print, and `app1/Util/DataUtil`, an older copy nothing includes.
* SIGPIPE: a failing send is modelled as the end of its connection only.
* The sequence number (`Index`) of a package header: Send never sets it and
  nothing reads it.
