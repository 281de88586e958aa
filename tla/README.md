# KWebServer in TLA+

KWebServer is a plugin that gives scripts of the krkr engine an HTTP(S) server
and client. Its network core is a modified copy of Simple-Web-Server on
boost::asio; on top of it sits a binding that turns requests into events of the
script's main thread. This directory holds TLA+ modules of that program, the
TLC configurations that check them on small instances, and TLAPS proofs of what
matters most for every instance.

Paths such as `server_http.hpp:477` are relative to `src/`.

## 1. Inventory

Threads: the script's *main thread*; a *runner* thread per `startAsync()`
(detached); `thread_pool_size` (2 under `KServer`) *io threads* inside
`io_service::run()`, on which every completion handler and timer runs; a thread
per asynchronous client request. They share the objects below.

| Part | State | Operations | Interacts with |
|---|---|---|---|
| `ScopeRunner` (`utility.hpp:434-477`) | one atomic counter, -1 once stopped | `continue_lock`, `~SharedLock`, `stop` | every completion handler takes a lock; `~ServerBase` and `~ClientBase` stop it |
| `Response` (`server_http.hpp:41-201`) | stream buffer, `send_queue` under a mutex | `send`, `send_from_queue`, `send_on_delete` | owned by the script and by pending writes; writes to the connection's socket |
| `Connection`, `Session` (`server_http.hpp:292-342`) | socket, timer, request, stage of the exchange | `set_timeout`, `cancel_timeout`, `close`, `read`, `read_chunked_transfer_encoded`, `find_resource`, `write`; `accept` and handshake | io threads, timer handlers, the response's deleter, `stop()` |
| `ServerBase` life cycle (`server_http.hpp:404-539`), `KServer` (`httpserver.cpp:366-490`) | acceptor, io_service, set of connections (raw pointers) | `bind`, `accept_and_run`, `accept`, `stop`, `create_connection` and its deleter, `startAsync` | detached runner, io threads, main thread |
| Request dispatch (`httpserver.cpp:94-128`) | an event in flight to the main thread, the reference count of its response (`tp_stub.cpp:711-745`) | `RequestEnvelopDiffer` in the two builds | io thread to main thread |
| `KResponse`, `FileSender` (`httpserver.cpp:132-364`) | shared response, reference counts, alive count | `send`, `release`, `sendFile`, `autoClose` | main thread, io threads through send callbacks |
| `ClientBase` (`client_http.hpp`, `client_https.hpp`) | pool of connections, own io_service | `request` in a synchronous and an asynchronous form, `stop`, connect, write, read, reconnect once, server-sent events | callers' threads |
| `KClient` (`httpclient.cpp`) | pointer to the client | `open`, `sendSync`, `sendAsync`, `close` | main thread, sender threads |
| `KRunnable` (`KRunnable.cpp`) | posted tasks, timers, futures | `runTask*`, `cancelTimer`, `setFuture` | any thread to the main thread |
| `NativeObject` (`NativeObject.hpp`), callers (`Callers.hpp`) | member table under a mutex, counts of the members | `FuncCall`, `PropGet`, `PropSet`, `DeleteMember`, `EnumMembers`, `Invalidate` | the script; its base is every `KServer`, `KResponse`, `KClient` |
| Parsing (`utility.hpp:42-330`), header-end matcher (`client_http.hpp:13-50`) | none; two counters | functions; one call per read | sessions |

Vendored or generated (`tp_stub.*`, `ncbind*`, `ncb_*`, `propmacros.h`), thin
wrappers (`crypto.hpp`, `mutex.hpp`, `asio_compatibility.hpp`,
`status_code.hpp`) and stream or code-page adapters are left aside.

What makes each part correct, and what is hard to test in it:

* **ScopeRunner.** Nobody is inside a scope when `stop()` has returned. The
  difficulty is the interleaving of a load, a weak exchange and a decrement.
* **Send queue.** One write at a time, the stream's bytes in their order on the
  wire, each callback once, also when a write fails with buffers behind it or the
  owner lets go in between. The difficulty: two senders at a stream without a
  lock, two io threads, a mutex that is released before the callbacks, and
  lifetimes kept by `shared_ptr` captures.
* **Connection.** Each wait has a timer, requests do not overlap, the handler
  sees whole requests, nothing disappears without a report. The difficulty:
  a timer whose handler is queued already cannot be cancelled; `stop()` and
  the destructor come between any two handlers.
* **Life cycle.** The set of raw pointers never holds a deleted connection, the
  accept chain never breaks, `stop()` stops. The difficulty: `startAsync()`
  runs `bind()` and `listen()` on another thread than `stop()`.
* **Client.** A request is answered once, tried again at most once, and a
  synchronous one returns with its own answer. The difficulty: several threads
  run and restart one io_service.
* **KClient.** A client is not replaced under a thread that uses it, and every
  asynchronous request comes to its event. The difficulty: `open()` takes no
  lock, a thread reads the client when it starts, and requests of all threads
  share a service that any of them restarts.
* **Dispatch and script objects.** A response lives exactly as long as somebody
  refers to it, and its members with it. The difficulty: a plain integer counts
  the references of two threads, and members run under the object's own mutex.
* **Bytes.** What one side writes is what the other reads. The difficulty: a
  read ends anywhere, takes a part of what follows it, and the content may look
  like the end of a header, of a line, or like a chunk.

`PROJECT.json` lists every hazard at its line and the properties about it.

## 2. Modules

| Module | Of | Role |
|---|---|---|
| `ScopeGate` | what `ScopeRunner` promises | abstract specification |
| `ScopeRunner` | `utility.hpp:434-477` | the atomics, one access per step; refines `ScopeGate` |
| `SendPromise` | what a response promises its senders and the peer | abstract specification |
| `ResponseQueue` | `Response::send` and its handlers, the deleter's last write; refines `SendPromise` | component |
| `ConnectionPromise` | what a connection promises its peer and the server's owner | abstract specification |
| `ServerConnection` | one connection, accept handler to last session; refines `ConnectionPromise` | component |
| `HttpServer` | `bind`, `accept_and_run`, `accept`, connection set, `stop`, `startAsync` | component |
| `RequestPromise` | what a client promises whoever makes a request | abstract specification |
| `ClientPool` | asynchronous requests of `ClientBase`, its pool of connections, `Client<HTTP>` and `Client<HTTPS>`; refines `RequestPromise` | component |
| `SyncRequest` | the synchronous `request()` | component, extended by `KClient` |
| `KClient` | `open`, `close`, `sendSync`, `sendAsync` and their threads | composition with `SyncRequest` |
| `HeaderEndMatch` | the matcher of the header's end | operators, used by `HeaderEnd` and `Exchange` |
| `HeaderEnd` | the matcher on a stream | component and its reference definition |
| `Percent` | `utility.hpp:68-109`, character by character | operators, used by `QueryString` |
| `QueryString` | `QueryString::create`, `QueryString::parse`, `Percent::decode` | component |
| `Utility` | headers, attributes and their percent encoding, first lines | operators |
| `Exchange` | both ends of a connection, byte by byte | composition of both readers and writers, over `Utility` and `HeaderEndMatch` |
| `FileSender` | `KResponse::sendFile`, `release`, `FileSender` | component |
| `NativeObject` | member table and its mutex | component, extended by `Dispatch` |
| `Dispatch` | the hand-over of a request to the main thread | composition with `NativeObject` |
| `*_proofs` | `ResponseQueue`, `ServerConnection`, `HttpServer`, `KClient` with `SyncRequest`, `FileSender`, `Dispatch`; `Client_proofs` is about `ClientPool` and `HeaderEnd`, `Utility_proofs` about `ScopeRunner` and `QueryString` | theorems checked by TLAPS |
| `MC_*` | | instances for TLC |

Operators whose comment begins with "Mutant" are not part of the specification:
each is a wrong form of the definition that follows it, the way a bug would
make it, and is named in `PROJECT.json` with the property that then fails.

### ScopeRunner

`count` is the atomic; `expected[h]` is `continue_lock()`'s local; `pc[h]` says
where a chain of handlers is: `pending` (an asynchronous operation is under
way), `cas` (in the loop), `scope` (holds a lock), `left`, `refused`. `Load`,
`Acquire`, `Retry`, `Refuse` are the accesses of `continue_lock()`, `Release`
the destructor of the lock, `StopCall`, `StopCas`, `StopAlready` those of
`stop()`. `Complete` lets a chain come back: a handler usually has started the
next operation. A weak exchange that fails spuriously re-reads the same value,
a stuttering step.

`ScopeGate` is the promise: `Enter` while open, `Leave`, and `Close` only when
nobody is inside. The mapping is `inside <- Holders`, `open <- count # -1`.

### ResponseQueue

A buffer is a number, in the order in which `send()` moves the buffers out of the
stream. No lock guards that: `Move` takes the stream's pointer, which is null
(`nulls`) when another sender has not come to `Replace` yet, that puts a new
buffer there; `Enqueue` is the part under the mutex. `overlaps` is history: which
buffer was moved while which other one was still on its way to the mutex. To write
from a null buffer ends the process (`crashed`). `writes` are the operations given
to asio: only `OneWriteAtATime` says that there is one. A completion handler is
`Dispatch` (lock of the runner), then `PopHead` or `FlushQueue` under the mutex,
then a `Callback` for each callback, then `HandlerReturns`, which drops the
`shared_ptr`. `Unreferenced` spells out who holds a `shared_ptr<Response>`:
owners, pending writes, running handlers. `SendOnDelete` is the deleter, and
`FinalHandler` the handler of its write, whose callback goes on with the
connection (`ServerConnection!WriteDone`). `StopService` is `KServer.stop()`,
after which no handler is dispatched until `StartAgain`; the destructor's
`StopRunner` is the library's, since `KServer` never deletes its server.
`accepted`, `wire`, `answers` are history variables.

`SendPromise` is the promise: buffers are accepted, delivered in that order
without a gap, and told of once, with success only when they are on the wire and
with an error only when the connection is broken; the rest of the stream is sent
when nobody holds the response any more, after all of them; nobody is told
anything when the server is gone. The mapping is the identity on the histories,
and `rest` (kept, sending, sent) comes from `deleted` and the pending write.
What it hides is the queue, its mutex, the writes and the handlers.

### ServerConnection

`phase` names the asynchronous operation of the session, or `app` while the
script owns the response, or `gone`; `result` its outcome. The completion
handlers of a session never overlap, so each is one action, built from the
operators `Await`, `Drop`, `Report`, `ReadRequest`, `FindResource`,
`CallHandler`, `ChunkComplete`. `timer` and `expiry` separate the expiry of a
timer from the run of its handler. `Peer` completes operations in every way;
`Owner` is the script; `StopCloses`, `StopIoService`, `StopRunner` come from
`stop()` and `~ServerBase`. A request is a record of what the code
distinguishes: how its header parses, where its content is, whether a handler
is found, and its `Connection` fields and version. `HandshakeDone` exists for
HTTPS; with `Https = FALSE` the session starts with the header.

`ConnectionPromise` is the promise: a request arrives, is whole, is handled once
if it has a handler, is answered once, and only then the next is taken; one that
comes to another end is reported, unless nobody handles its kind; nothing is
called when the server is gone. The mapping is `Stage`, which reads how far the
request is from `phase`, `result` and `received`. What it hides is the way there:
header, content and chunks, sockets, timers, the owner's sends, persistence.

The send queue is abstracted to "the owner may send, then releases": what happens
in between is `ResponseQueue`. `on_upgrade` is not modelled, `KServer`
never sets it. `on_error` is `ServerBase`'s callback: what `Report` counts is its
call. In the build with `USE_TVP_EVENT` the body that `KServer` gives it is
commented out (`httpserver.cpp:407-418`), so that no script hears of an error.
The destructor is `ServerBase`'s as well, and `KServer` never runs it.

### HttpServer

`runner[k]` is the thread of the k-th `startAsync()`, at the steps between which
`stop()` can come; `terminated` means that an exception left the thread or a
joinable `std::thread` was destroyed, which ends the process; `Refuse` is an
address or a port that `make_address`, `open` or `bind` do not take, which ends it
too (`refused`). `conn[c]` and `sock[c]` follow a Connection object by address, so
that a re-used address is the same `c`. `script` and `lastCall` follow the main
thread through `stop()`. `start_stop_mutex` is `MutexFree`; `accept_and_run()`
does not take it. The script calls `startAsync()` and `stop()` in any order.
`polite` records whether it has so far called `stop()` only when no start was
under way, and `startAsync()` only after the last run had ended: what needs such a
script says so in its property.

### ClientPool

A connection is a Connection object by address, a request the session that
holds one: `of[r]`. `stage[r]` is the asynchronous operation under way
(`resolve` to `event`) or the point at which `request()` and its callback can
be interrupted by other threads: `held` (a connection is taken, nothing is
started), `again` (a reconnect), `settled` and `opened` (the pool's mutex is
released, the user's callback is still to come). `op[r]` is the operation's
result. `Request` is `get_connection()`, `Release` the part of the session's
callback under the pool's mutex, `Reconnect` the branch of `read()` that takes
a new connection. A timer is `armed`, then its handler is queued (`expiry`),
where cancelling does not reach it. Stages of the HTTPS client and of a proxy
come in by `Following`. What the server answers is a choice in `HeaderDone`,
`HeaderOnly`, `EventStream`, `HeaderThrows` and `BodyDone`. A kept connection
that is closed still counts as open for `connect()`, which asks
`socket->lowest_layer().is_open()`.

`RequestPromise` is the promise to a caller: a request is tried twice at most,
and never again once the caller has been told anything; the caller is told of an
event only after a try, of the end once, and of nothing afterwards, nor when the
client is closed. A request is lost only because of that, or because a response
made a handler throw. The mapping takes a request's state from its stage
(`StateOf`), its tries from `sent` and what was told from `calls`; connections,
the pool, timers, sockets and the reconnect are hidden.

### SyncRequest

`pc[t]` follows a caller through `client_http.hpp:198-256`: `Start` begins the
asynchronous request, `Enter` and `Leave` are the two critical sections of the
counter, `Run` and `RunReturns` are `io_service::run()`. `pending` is the
service's work; when the last of it is done the service is stopped, and `Leave`
restarts it. What happens inside a request is `ClientPool`'s: here a thread in
`run()` completes one, its own or another's, or a handler throws (`Throws`,
`stoull()` in `client_http.hpp:541`), which leaves `run()` and `request()`
without the decrement.

### KClient

Extends `SyncRequest`: the counter, the pending work and the service are those of
the client that is open. `OpenDeletes` is `open()` while a request runs, which
deletes the client under it; `Open` is `open()` otherwise, and leaves no client
when its constructor throws. `Begin` is the thread of a `sendAsync()`, which
reads `self->hc` only now, `Post` its event and `Deliver` the host program's
call of `onFinished`. `SendSyncOther` is `sendSync()` with a content that is neither a
string nor an octet, which makes no request and reads the response all the same.
`crash` is the end of the process: a deleted client, none, or a null response is
used. `Heard` are the requests that are sure to end, because the server answers or
the script has set the timeouts; they are unset by default
(`httpclient.cpp:35-36`), and a request that waits for a silent server need not
end. How a timeout is set is not modelled: a client's configuration is written by
one thread and read by another as plain integers.

### HeaderEndMatch and HeaderEnd

`MatchByte` is one turn of the loop of `HeaderEndMatch::operator()`. `HeaderEnd`
feeds it every text over `Bytes`, since its counters survive from one read to
the next. `HeaderEndIsExact` is the reference: an end is reported where
`\r\n\r\n` or `\n\n` stands, and is missed only behind a stray `\r`.

### Percent and QueryString

An octet is a number. `NextField`, `WriteName`, `WriteEquals` and `WriteValue`
are the loops of `create()` and of `Percent::encode()` inside it; `ScanSeparator`,
`ScanEquals` and `ScanOther` one turn of the loop of `parse()`, the first also
what comes behind the loop; `DecodeNext` one turn of `Percent::decode()`, which
returns to `parse()` with `DecodeReturns`. `cursor`, `namePos`, `nameEndPos`,
`valuePos` and `spot` are the code's positions, from 1 on, with 0 for `npos`. A
multimap is the sequence of its fields, in the order in which `create()` meets
them and `parse()` inserts them. `origin` is history: which character of which
field each character of the query stands for.

### Utility

A text is a sequence of one-character strings. The operators follow
`utility.hpp` function by function; where the code splits with `find`, `rfind`
or `getline`, so do they. Names the code only passes on (`Content-Length`,
`chunked`, a method, a version) are single members of the alphabet.

### Exchange

A `Reader` is a session with its buffers: `header`, `body`, `chunk` and
`chunkBody` are the operations that may be pending. `Receive` appends a segment of
any size, as far as the operation's completion condition lets it; `HeaderRead`,
`ChunkLineRead` and `ChunkRead` are the completion handlers of both sides, which
count the additional bytes that a read has taken. `RequestText` is what
`ClientBase` writes, `OwnReply` what `Response::write()` puts out; `BareLineReply`
and `OldReply` are other servers. A reply of the style `appended` is
`write(status)` followed by `append()` or `sendFile()`: the header announces 0
bytes, and the rest comes in front of the next response (`misled`). A length is
one digit, and the size of a chunk too. Timeouts and failures are in
`ServerConnection` and `ClientPool`, the buffers' limits as well.

### NativeObject and Dispatch

`functions` is the member table, `count` the members' reference counts, `call`
the member that runs under `concurrent`. A section that calls out keeps the
mutex until `CallReturns`; a call of the object from there is `CallAgain`, after
which the script waits for itself (`stuck`). `PropSet` of a member that exists
does what `std::map::insert` does, nothing, after the old object has
been released.

`Dispatch` is `httpserver.cpp:101-112`, statement by statement, against the main
thread, in the build with `USE_TVP_EVENT`. `AddRef()` and `Release()` of
`tTJSDispatch` are a load and a store with the other thread in between (`Load`,
`Stores`); `raced` records that a store has overwritten another, and `broken` a
use after the end or an `invalidate`. What follows either is undefined, so that
the behaviours end there (`Defined`). `ReleaseFile` drops a reference whoever has
taken it; `over` records a `release()` too many, after which the count is no
longer that of the references, and `UseAfterEnd` the use of a variable whose
object is gone. `Handle`, `Keep`, `DropVariable`, `HandlerReturns` are the script
and the host program.

### FileSender

The build with `USE_TVP_EVENT`. A file is its length, a block its sender, offset
and length. A block goes through the response's stream, where nothing is locked:
`First` (main thread) and `Callback` (io thread) read it and write it to the
stream (`Send`), `Move` and `Replace` are the two halves of `send()` before the
mutex, `Enqueue` the one under it, `Written` the handler that pops the queue and
then, with the mutex released, comes to the `Callback`. `stream`, `holder` and
`taken` say which buffer a `write()` goes to: one that has been moved out still
takes bytes until the stream has its new one. `overlapped` is history: two threads
were between a `write()` and the new buffer. `WriteFails` and `Fails` are the
callbacks that `ResponseQueue!FlushQueue` makes. `refs` is the count of the script
object `KResponse`, which `SendFile` raises and `Release` lowers, as often as the
script calls it; `Held` says who keeps the `Response`: the object, and each
FileSender that has not been deleted. `Deleter` is the step that goes on with the
connection.

## 3. Runs

| Run | Instance | Shows |
|---|---|---|
| `scope_runner` | 3 handler chains, 2 callers of `stop()` | refinement of `ScopeGate`; `stop()` returns if handlers cease to enter |
| `response_queue` | 2 senders, 2 io threads, 3 sends, the service stopped and started | one write, no stalled buffer, the stream's order and the rest last unless two `send()` overlap, refinement of `SendPromise`, every callback once the service runs |
| `server_connection` | HTTPS, 8 request shapes, 2 requests, 2 chunks, timeouts 5 and 300 | timers, whole requests, nothing lost silently, silence after the destructor, refinement of `ConnectionPromise`, a connection whose peer falls silent ends |
| `http_server` | 2 starts, 3 connections, any order of calls, any bind refused | the set of raw pointers is sound, the accept chain is unbroken; with a polite script no termination but by a refused address or port, no peer after `stop()`, and the run ends |
| `client_pool` | 2 requests at a time, repeated; 3 connections; HTTP, timeout on | exclusive connections, refinement of `RequestPromise` |
| `client_answers` | 1 request at a time, HTTPS through a proxy, both timeouts | a request whose server falls silent is answered |
| `kclient` | the main thread and 2 threads of `sendAsync()`, a request each, 2 calls of `open()`, handlers may throw, one server may stay silent | a restart finds nobody inside, a lonely request has its answer, what a script must do to be safe, every event comes unless a request waits for ever |
| `utility` | every text of up to 5 of 8 bytes; every query of up to 8 of 4 octets, 2 fields | the matcher is exact; attributes come back; fields come back from a query |
| `exchange` | 5 requests, 8 replies, 2 exchanges, segments of any size | requests and responses arrive whole, nothing is left in a buffer unless the script announced another length, no read waits for ever |
| `dispatch` | one response with 2 native members and a script's, 2 variables, 1 file, 1 `release()` too many | who refers to it keeps it and its destructor waits for nobody, as long as the script releases what it has sent; its members are alive, it ends |
| `file_sender` | 2 files of 0, 1, 4 or 5 bytes, blocks of 2, 2 io threads, 3 calls of `release()` | files whole and in order until two threads meet at the stream, nothing cut off, link goes on when released |
| `file_full_block` | 1 file of 2 or 4 bytes | the finding below |

Bounds. Three handlers let two exchanges fail in a row while a third holds a lock.
Three sends let a buffer arrive while one is written and one is being popped, the
largest case the code distinguishes (`size() == 1`, `> 0`);
two senders are enough to meet at the stream. Two
requests let a read follow a response. Three connection objects let one accept,
one live and one die. Two starts let a run follow a stop, or overlap it. A session
of the client holds one connection, and two when it connects again: three
connections let one of two sessions do so while the other works, and the pool trim
something. Sessions repeat without a bound; `MaxParts` bounds chunks and events
only, and what depends on their end is said of a peer that falls silent. Three
threads with a request each let one be inside, one restart the service and one
come new, or one leave with an exception before the others; two calls of `open()`
let one replace a client in use. The texts of `utility` are as long as the longest
end of a header and one byte more, so that a partial match can be spoilt; each is
cut into a name and a value at every place. The bytes are those that a function
treats specially, and one letter. Eight octets are two fields, one of them with an
escape at its end. The requests and replies of `exchange` have each way to delimit
content, and contents that look like delimiters; two exchanges let the second find
what the first has left. In `dispatch` two variables let one go while the other
holds on, one file lets `release()` be the last reference, one call of it more
than files are sent ends the object early, and one function of the script is
assigned to a new member, to an old one, and forgotten. With blocks of 2 the
lengths 0, 1, 4 and 5 are an empty file, a short block, full blocks only and full
blocks with a rest; two files let the main thread start one while an io thread is
at the stream with the other, or two io threads meet there, and three calls of
`release()` are one more than the files that have been sent.

`client_pool` checks states up to the view `Seen`, which leaves out the record
of a connection nobody holds: `Request` and `Replace` overwrite it before it is
read again. Connections and requests are interchangeable, hence the symmetry;
the runs with liveness use neither.

`CHECK_DEADLOCK FALSE` is in the runs of finished systems: a connection that is
gone, a server that has stopped for the last time or a runner that is stopped
has nothing left to do; neither has a process that has ended (`crashed`, `crash`),
or a script that waits for itself.

Fairness. Threads that are inside the code run (weak fairness of the steps of a
handler, of `stop()`, of the runner); those of the io_service while it runs, so
that `EveryCallbackRuns` asks that it runs in the end, and is not stopped for good
by `KServer.stop()`. A pending write completes, because `send()` sets a timer that
closes the socket. Timers expire. An operation on a closed socket fails. The
script releases a response some time (`KResponse` is finalised when its variable
goes). Peers owe nothing, nobody has to call `stop()`, and sessions in
`HttpServer` need not end. A peer that keeps asking, and one that sends chunk
after chunk, restart the timer at every read and keep a connection or a request
for ever: `SilenceEndsConnection` and `SilenceIsAnswered` say of each thing heard
that either the next one or the end follows. A request of the client with timeouts
comes to an end when its server is silent because its stages have timers; only the
resolver of `Client<HTTPS>` has none, and the system's gives up by itself.
`KClient` assumes an end of the requests in `Heard` only, and that the main thread
takes its events; `EventComes` is said of runs in which no other request stays
pending. In `Exchange` what is under way arrives, the handlers run and the script
answers; that is not assumed of the script in `Dispatch`, where handlers return
and variables go, but the script may keep files or take new variables for ever
(`ObjectEnds` names it). In `FileSender` the script's variable goes when the
handler has returned; nobody has to call `release()`, and a null buffer may end
the process (`LinkGoesOn` names it). `StopReturns` is conditional because the code
can be starved: `stop()` waits for an instant with a count of 0.

The finding.

* `file_full_block`: a file whose length is a multiple of the block size never
  comes to its end: the last read is empty, and nothing deletes the sender.

Seen on the way, without a run of their own; each is what the modules say the
code does, and the properties make room for it.

Server:

* A `stop()` that overtakes the detached thread's `bind()` finds no acceptor and
  does nothing (`server_http.hpp:480`, against the comment at 476); a peer whose
  accept handler is still queued has no socket in its connection yet, so `stop()`
  leaves it connected (`server_http.hpp:487`).
* The property pages call both timeouts infinite by default, `Config` has 5 and
  300 seconds (`docs/f_KHttpServer_timeout_request.html:28`,
  `server_http.hpp:357`).
* A response whose script only calls `write(status)` announces
  `Content-Length: 0`; what `append()` or `sendFile()` adds lies outside it, and
  stays on the connection in front of the next response.
* Nothing guards the response's stream (`server_http.hpp:139-143`). When the main
  thread starts a second file, or a second io thread is called back, between one
  `send()`'s move of the buffer and the new one, a null buffer is queued and
  dereferenced, or a block goes out of order or is lost; without that the blocks
  of two files alternate (`httpserver.cpp:157-178`).
* An address that does not parse, or a port in use, ends the process: nothing
  catches the exception on the detached thread (`httpserver.cpp:484`).
* The `Release()` that would balance `sendFile()`'s `AddRef()` is commented out,
  so that the link stays open without a `release()`, which the page says is not
  needed (`docs/f_KResponse_sendFile.html:43`, `httpserver.cpp:275-301`). A file
  that cannot be opened keeps the main thread in a loop (`httpserver.cpp:273`).
* Two threads change the count of a response (`tp_stub.cpp:716`). A lost update
  keeps the response for ever or ends it early; the page of the connection count
  expects neither (`docs/f_KHttpServer_getAliveConnectionCount.html:37`).
* One `release()` more than files were sent drops somebody else's reference
  (`httpserver.cpp:261-263`). If it is the last, the destructor runs inside the call
  and waits for ever for the mutex that `FuncCall` holds (`NativeObject.hpp:48`).
* In the build without `USE_TVP_EVENT` the closure that carries a request refers
  to locals of a function that has returned, and deletes one of them
  (`httpserver.cpp:115-127`).

Client:

* `sendSync()` with a content that is neither a string nor an octet makes no request
  and dereferences the response it has not got (`httpclient.cpp:69-75`).
* A request without a timeout, the default, whose server is silent keeps the events
  of the others waiting, too: `run()` returns to nobody while it has work.
* A caller that enters `run()` after another's last work has stopped the
  service, and before that one restarts it, gets a null response without an
  error, which `sendSync` dereferences (`client_http.hpp:214`,
  `httpclient.cpp:75`). `kclient` shows when (`WaitingIsSafe`).
* After an exception out of `run()` the counter stays too high and the service is
  never restarted (`client_http.hpp:208-218`).
* A response that ends with its stream leaves the ended connection in the pool
  (`client_http.hpp:587`). For HTTP/1.1 the field that says so is looked up as
  `Session` (`client_http.hpp:575`), so that such a response is cut short.
* A header whose lines end with a bare `\n` is found, one with `\n\r\n` or with a
  stray `\r` before its end is not (`client_http.hpp:18-48`).

Parsing:

* A query field is split at its last `=` (`utility.hpp:138-157`); a request's
  query starts behind the last `?`; without a `\r` the version loses its last
  character (`utility.hpp:282`).
* A header line without `:` ends the header, and a field with an empty value is
  dropped when its line ends with a bare `\n` (`utility.hpp:168-180`). An empty
  attribute without quotes swallows the next one (`utility.hpp:209`).

Script objects:

* Assigning an object to a member that exists releases the old object and leaves
  it in the table (`NativeObject.hpp:89-92`): `TableHoldsLive` speaks of the
  others. A member that calls the object again waits for ever
  (`NativeObject.hpp:48`). `invalidate` deletes the object whatever its count.
* `autoClose` cannot be set: a value that is no object is refused, because the
  member is given its own name (`NativeObject.hpp:97`, `Callers.hpp:57`, against
  `docs/f_KResponse_autoClose.html:28`).
* `FunctionCaller::IsInstanceOf` compares the wrong way round
  (`Callers.hpp:247`).

## 4. Proofs

TLAPS checks, for every value of the constants (finite sets of handlers,
senders and threads, any number of sends, any octets):

* `Utility_proofs`, for `ScopeRunner`: `IInv == TypeOK /\ CountIsHolders /\
  StoppedIsMinusOne` is inductive. `CountIsHolders` alone is not: when the count
  is -1 it says nothing of the holders, hence `StoppedIsMinusOne`. From it follow
  the type invariant, `StopExcludesHandlers`, and `Refinement`: each step is a
  step of `ScopeGate` or a stutter.
  For `QueryString`, with any octets and any number of fields, `QueryInv` follows
  the writer and the readers: every character of the query stands for what
  `origin` says, each place is followed by the next one of its field (`Written`),
  and the scan is in the field whose predecessors it has returned (`ReadSoFar`),
  with its name so far behind it (`InName`) or its value (`InValue`), of which
  `decode()` has the first characters (`DecodeInv`). `WrittenOn` is the lemma
  about what is appended, `DecodesOne` the one about a character and its escape.
  `QueryRoundTrip` follows: the fields come back, whatever octets their values
  have. The round trip is stated of a machine and not of recursive operators, so
  that it needs no induction over texts.
* `ResponseQueue_proofs`: `IInv` joins `OneWriteAtATime`, `WriteReadsHead` and
  `QueueIsServed` with `ReferencesCount`, which says what the `shared_ptr`
  captures are worth: a sender inside `send()` is an owner, and the deleter runs
  only when no handler and no write is left. Without it an `Enqueue` after
  `SendOnDelete` would break the first part. `WireInv` adds the order: while a
  write may still come from the queue, the wire followed by what is left of the
  queue is what was accepted (`InOrder`), a write fails only when the socket is
  gone for good (`ErrorsAreFinal`), and the deleter's rest follows all of it
  (`RestComesLast`). `StreamInv` adds what the stream's pointer is, and `OrderInv`
  that of two buffers on their way, or of one on its way and one accepted, the
  later was not overtaken but by an overlap, which every `Enqueue` carries over to
  what is accepted and every write to the wire (`WireOrder`); `WireIsStreamOrder`
  follows. `Refinement` says that every step is a step of `SendPromise` or a
  stutter. It needs to know where each buffer is, and that it is there once
  (`PlaceInv`): with its sender, in the queue, with a handler that owes a
  callback, or answered; and that what a handler is about to report is true
  (`TruthInv`), which the bytes, the failure and the handler's lock keep so.
* `HttpServer_proofs`: `IInv == TypeOK /\ SetHoldsNoDeleted /\
  AcceptChainUnbroken`, whatever the script calls. The parts are inductive once
  the types are known; `NewAcceptFacts` is the lemma about `create_connection()`
  that the first accept and the accept handlers share.
  For a script that stops before it starts again, `PInv` adds where the acceptor
  is, as long as the process lives: a run that is the active one owns it, and
  after the last `stop()` it is closed (`AcceptorFollows`). A run that is out of
  work has no listening acceptor, because the chain of accepts is never broken; so
  no detached thread throws, but for a refused address or port
  (`NeverTerminates`), and no peer is accepted after `stop()` (`NoPeerAfterStop`).
* `ServerConnection_proofs`: `IInv` joins `TypeOK`, `TimerGuardsEveryWait` and
  `NoSilentLoss` with `Ledger` (how far the counters of read, handled and
  answered requests are apart in each phase), `Reports` (`on_error` is called
  once for a request) and `Arrived` (what is known of its content). `Leaving`,
  `Awaiting` and `Finding` are the three ways that a read handler ends, each
  proved once and cited by the handlers. `OneRequestAtATime` follows from
  `Ledger`, `HandlerSeesWholeRequest` from `Arrived`, `NothingCalledAfterStop`
  from the guards of the handlers. For `Refinement` the same invariant is enough:
  `LeavingKeeps`, `AwaitingKeeps` and `FindingKeeps` say which step of
  `ConnectionPromise` those three ways are, `StepKeeps` the same of every action.
* `Client_proofs`: `IInv` joins `TypeOK` and `ConnectionExclusive` with, for
  each session, `OwnedBy` (the connection of a live session is marked, so that
  neither `get_connection()` nor the loop of the callback takes it), `WritesOf`
  (`attempt` tells a first try from a second) and `CallsOf`. `SessionStep` says
  once why a handler leaves the other sessions alone; `Waiting`, `Releasing` and
  `Settling` are the ends of a handler, `Outside` all that happens to sockets and
  timers. Exclusion is not inductive without `OwnedBy`. For `Refinement`,
  `SessionEffect` says of every handler which of six things it does to its
  request (asks, sends, goes on, tells an event, tells the end, ends), and
  `StepKeepsPromise` that each is a step of `RequestPromise`, given
  `ToldInOrder`: nothing has been told before a header is read, and whatever has
  a header has been sent.
  The module also holds the matcher: its counters tell which part of an end the
  text ends with (`CountersTellTail`, `TailTellsCounters`), for every text and
  alphabet; `HeaderEndIsExact` alone is not inductive.
* `Dispatch_proofs`: `IInv` joins `HoldersCounted` with `IoAlone` (until the event
  is handled nobody else counts) and `MainRefers` (who counts on the main thread
  refers to the object, and so does the caller of a member). The last is why a
  `release()` under the mutex of what `sendFile()` has taken never is the last
  one; after one too many (`over`) a call may hold nothing of the count it drops,
  and both properties except it. `TInv` is about the members of the script object:
  the count of a member that has not been replaced is at least the number of names
  that the table has for it, and one more while the script keeps it in a variable
  (`TableCounts`); `TableHoldsLive` follows.
* `KClient_proofs`, for `SyncRequest`: `IInv == TypeOK /\ CountCoversInside`. The
  counter is at least the number of callers between increment and decrement (an
  exception makes it larger for good), so the caller that brings it to 0 is alone:
  `RestartIsAlone`, by the cardinality of the set of callers inside. `AInv` says
  that a stopped service still has somebody to leave it, and follows a request
  that nothing has overlapped through its phases (`AloneIsServed`): its callback
  is pending in a service that runs, or it has its answer. For `KClient`, whose
  `open()` puts a new counter and a new service under the callers, `KInv` keeps
  both, and adds that only a thread that has still to report is in a request
  (`RequestsReport`); `WaitingIsSafe` is part of it.
* `FileSender_proofs`: `HInv` holds whatever the threads do to each other: a
  buffer that the stream still writes to is there (`BuffersExist`), each write in the
  queue has a sender of its own (`OwnWrites`), and the deleter comes behind every
  holder (`LastHolder`); `NothingIsCutOff`, `AliveIsExact` and `ToldOnce` follow.
  `InOrder` holds until two threads are at the stream at once: every buffer holds the
  one block of its sender (`OneByOne`), each file is where its blocks have come to
  (`Position`, `Behind`), and every block on the wire is placed behind the one before
  it (`Placed`); `FileInOrder` follows, for any files and any block size.
  `LoneFileInOrder` says that a file that is alone on its response needs no such
  condition: its callbacks never meet another thread.

Assumptions are those the modules state (`HandlersAssumption`,
`MaxSendsAssumption`, `FiniteAssumption`, `BoundsAssumption`, ...): finite sets,
natural numbers, names that differ. The type invariants are proved and not part
of a run; neither are `NobodyInsideAfterStop`, `CountIsHolders`,
`DeleteAfterQueue`, `AliveIsExact` and `ToldOnce`, nor `SentAtMostTwice` and
`CallbackOnce`, which a run checks as parts of `ClientPool!KeepsPromise`, and
`OneRequestAtATime`, which a run checks as a part of `ServerConnection!KeepsPromise`.

Liveness (`StopReturns`, `EveryCallbackRuns`, `SilenceEndsConnection`,
`StopEndsRun`, `SilenceIsAnswered`, `EventComes`, `ExchangeEnds`,
`ObjectEnds`, `LinkGoesOn`) is model-checked only: the prover does not handle
fairness. So are the properties of `Exchange` and `AttributesRoundTrip`, whose
readers are computed by recursion over texts.

## 5. Not modelled, and the plan

Left out, and why:

* `tp_stub.h`, `tp_stub.cpp` and `ncbind.hpp`, `ncb_*` and `propmacros.h` are
  three quarters of the lines in `src/`: stubs generated to look up the host
  program's functions, and a third-party class binder made of templates. The only
  behaviour of theirs that the plugin's correctness rests on is the reference
  count of `tTJSDispatch`, which is in `Dispatch`.
* `KRunnable` is used by `runTask()` alone, and only in builds without
  `USE_TVP_EVENT`; both Release configurations define it (`httpserv.vcxproj:256`,
  `323`). There the task it carries refers to locals that are gone, so that any
  behaviour follows. `runTaskLater()` and `runTaskTimer()` have no caller, and
  never run their task (`KRunnable.cpp:65-79`, `115-130`). The `onSent` callbacks
  of that build are left out with it.
* `KServer::start()`, which runs the server on the main thread, is the run of
  `HttpServer` without the detached thread; `setSpecificCallBack` fills a table
  before a start; `appendFile` copies a file into the stream's buffer.
* `Date`, the cryptography helpers and `SemicolonSeparatedAttributes` have no
  caller in the plugin; the last is modelled nevertheless, the helpers have no
  state. Stream wrappers and code-page conversion are sequential adapters.
* Timeouts that a script sets on `KClient` while a request reads them.
* What an update of a count that two threads change at once leads to: `Dispatch`
  stops at it (`raced`), and no property says that it cannot happen, because it can
  (`tp_stub.cpp:716`).
* The bytes of TLS, registration with the host program, mutex annotations, asio
  version switches, the table of status codes.

Next, in this order:

1. The composition of `ServerConnection` with `SendPromise`: the abstract owner of
   a response replaced by the promise of its queue; and of `FileSender` with it.
2. `SyncRequest` on top of `RequestPromise`: the answer of a synchronous request
   is the one its session was told.
