-------------------------- MODULE ServerConnection --------------------------
(***************************************************************************)
(* One connection of ServerBase (src/server_http.hpp, src/server_https.hpp)*)
(* from the accept handler to the end of its last session: TLS handshake,  *)
(* request header, content or chunks, the request handler, the response,   *)
(* and the next request of a persistent connection.                        *)
(*                                                                         *)
(* A session has at most one asynchronous operation at a time, so its      *)
(* completion handlers never overlap and each is one step.  What happens   *)
(* between them comes from elsewhere: the peer, the timer's handler on     *)
(* another io thread, the script that owns the response, stop() and the    *)
(* destructor of the server.                                               *)
(*                                                                         *)
(* The connection's shared_ptr is kept by its session only: "gone" means   *)
(* that the last reference is dropped and the socket closed by that.       *)
(***************************************************************************)
EXTENDS Integers, Sequences, FiniteSets

CONSTANTS
    Https,            \* TRUE: Server<HTTPS>
    TimeoutRequest,   \* config.timeout_request, 0 for none
    TimeoutContent,   \* config.timeout_content, 0 for none
    Requests,         \* what the peer may send
    MaxRequests,      \* bound on the requests of the connection
    MaxChunks         \* bound on the chunks of a chunked request

ASSUME TimeoutAssumption == TimeoutRequest \in Nat /\ TimeoutContent \in Nat
ASSUME HttpsAssumption == Https \in BOOLEAN
ASSUME BoundsAssumption == MaxRequests \in Nat /\ MaxChunks \in Nat

(* A request: how its header parses, where its content is, whether a       *)
(* handler is found for it, and what it says about persistence.            *)
BodyKinds == {"none", "inBuffer", "toRead", "badLength", "chunked"}
ASSUME RequestsAssumption ==
    \A r \in Requests :
        /\ r.wellFormed \in BOOLEAN
        /\ r.body \in BodyKinds
        /\ r.route \in BOOLEAN
        /\ r.connection \in Seq({"close", "keep-alive", "other"})
        /\ r.version \in {"1.0", "1.1"}

VARIABLES
    phase,      \* what the session waits for
    result,     \* of its asynchronous operation
    sock,       \* "open", or "closed" by close()
    timer,      \* connection->timer: "null", "armed" or "done"
    expiry,     \* a timer has expired and its handler has still to run
    request,    \* the request the session reads or answers
    received,   \* how much of it has arrived: "header" or "all"
    chunks,     \* chunks that have arrived
    autoClose,  \* response->close_connection_after_response
    open,       \* the ScopeRunner hands out locks
    running,    \* threads are inside io_service::run()
    read,       \* history: requests whose header arrived
    handled,    \* history: calls of the request handler
    answered,   \* history: responses written completely
    thrown,     \* history: the handler of this request threw
    reported    \* history: on_error calls for this request

vars == <<phase, result, sock, timer, expiry, request, received, chunks,
          autoClose, open, running, read, handled, answered, thrown, reported>>

server == <<open, running>>

counters == <<read, handled, answered>>

NoRequest == [wellFormed |-> FALSE, body |-> "none", route |-> FALSE,
              connection |-> <<>>, version |-> "1.0"]

Reads == {"handshake", "header", "content", "chunkLine", "chunkBody"}
Waits == Reads \cup {"write"}

Init ==
    /\ phase = "accepted"
    /\ result = "pending"
    /\ sock = "open"
    /\ timer = "null"
    /\ expiry = FALSE
    /\ request = NoRequest
    /\ received = "header"
    /\ chunks = 0
    /\ autoClose = FALSE
    /\ open = TRUE
    /\ running = TRUE
    /\ read = 0 /\ handled = 0 /\ answered = 0
    /\ thrown = FALSE
    /\ reported = 0

-----------------------------------------------------------------------------
(* Timers.  set_timeout() replaces the timer, which cancels the old one;   *)
(* a handler that is already queued with success is not cancelled.         *)

SetTimeout(seconds) == IF seconds = 0 THEN "null" ELSE "armed"
CancelTimeout == IF timer = "armed" THEN "done" ELSE timer

TimerExpires ==
    /\ timer = "armed"
    /\ timer' = "done"
    /\ expiry' = TRUE
    /\ UNCHANGED <<phase, result, sock, request, received, chunks, autoClose,
                   server, counters, thrown, reported>>

\* Mutant: the handler returns on success as it does when it is cancelled.
TimerHandlerIdle ==
    /\ running
    /\ expiry
    /\ expiry' = FALSE
    /\ UNCHANGED <<phase, result, sock, timer, request, received, chunks,
                   autoClose, server, counters, thrown, reported>>

\* The timer's handler: the weak_ptr may have expired meanwhile.
TimerHandler ==
    /\ running
    /\ expiry
    /\ expiry' = FALSE
    /\ sock' = IF phase = "gone" THEN sock ELSE "closed"
    /\ UNCHANGED <<phase, result, timer, request, received, chunks, autoClose,
                   server, counters, thrown, reported>>

-----------------------------------------------------------------------------
(* What a completion handler does with the session.  `t` is what it made   *)
(* of the timer before.                                                    *)

\* Start the next asynchronous operation under a new timer.
Await(next, seconds) ==
    /\ phase' = next
    /\ result' = "pending"
    /\ timer' = SetTimeout(seconds)

\* Return without starting another one: the session and connection go.
Drop ==
    /\ phase' = "gone"
    /\ result' = "pending"
    /\ timer' = CancelTimeout

\* on_error, then return.
Report ==
    /\ reported' = reported + 1
    /\ Drop

\* read(): a new session on the connection.
ReadRequest == Await("header", TimeoutRequest)

\* Mutant: the next request is read while the response is being written.
CallHandlerReadsOn ==
    /\ handled' = handled + 1
    /\ ReadRequest
    /\ UNCHANGED <<thrown, reported>>

\* write(): the handler of the resource is called.  It keeps the response,
\* or returns without, or throws: then the deleter runs send_on_delete().
CallHandler ==
    /\ handled' = handled + 1
    /\ \/ /\ phase' = "app"
          /\ result' = "pending"
          /\ timer' = SetTimeout(TimeoutContent)
          /\ UNCHANGED <<thrown, reported>>
       \/ /\ thrown' = TRUE
          /\ reported' = reported + 1
          /\ Await("write", TimeoutContent)

\* find_resource(): a request without a handler is dropped silently.
FindResource ==
    \/ request.route /\ CallHandler
    \/ ~request.route /\ Drop /\ UNCHANGED <<handled, thrown, reported>>

\* Mutant: the size line is awaited without a timer.
ReadChunkLineUntimed ==
    /\ phase' = "chunkLine"
    /\ result' = "pending"
    /\ timer' = CancelTimeout

\* read_chunked_transfer_encoded()
ReadChunkLine == Await("chunkLine", TimeoutContent)

\* Mutants: an error that nobody is told, and one that is not under the lock.
FailedSilently == open /\ result = "error" /\ Drop /\ UNCHANGED reported
FailedUnlocked == result = "error" /\ Report

\* The checks every read handler starts with: no lock, a full buffer
\* (message_size; the 413 response it writes is never sent), an error.
Refused == ~open /\ Drop /\ UNCHANGED reported
BufferFull == open /\ Report
Failed == open /\ result = "error" /\ Report

-----------------------------------------------------------------------------
(* The peer and the operating system complete operations.                  *)

OperationFails ==
    /\ phase \in Waits
    /\ result = "pending"
    /\ result' = "error"
    /\ UNCHANGED <<phase, sock, timer, expiry, request, received, chunks,
                   autoClose, server, counters, thrown, reported>>

\* A header arrives, with or without its content.
HeaderArrives ==
    /\ phase = "header"
    /\ result = "pending"
    /\ sock = "open"
    /\ read < MaxRequests
    /\ \E r \in Requests :
          /\ request' = r
          /\ received' = IF r.body \in {"none", "inBuffer"} THEN "all"
                                                            ELSE "header"
    /\ result' = "ok"
    /\ read' = read + 1
    /\ chunks' = 0
    /\ autoClose' = FALSE
    /\ thrown' = FALSE
    /\ reported' = 0
    /\ UNCHANGED <<phase, sock, timer, expiry, server, handled, answered>>

\* The content, the rest of a chunk, or the peer's side of the handshake.
OperationSucceeds ==
    /\ phase \in {"handshake", "content", "chunkBody", "write"}
    /\ result = "pending"
    /\ sock = "open"
    /\ result' = "ok"
    /\ received' = IF phase = "content" THEN "all" ELSE received
    /\ answered' = IF phase = "write" THEN answered + 1 ELSE answered
    /\ UNCHANGED <<phase, sock, timer, expiry, request, chunks, autoClose,
                   server, read, handled, thrown, reported>>

\* A chunk's size line arrives; the chunk of size 0 is the last one.
ChunkLineArrives ==
    /\ phase = "chunkLine"
    /\ result = "pending"
    /\ sock = "open"
    /\ \/ chunks < MaxChunks /\ chunks' = chunks + 1 /\ UNCHANGED received
       \/ received' = "all" /\ UNCHANGED chunks
    /\ result' = "ok"
    /\ UNCHANGED <<phase, sock, timer, expiry, request, autoClose, server,
                   counters, thrown, reported>>

-----------------------------------------------------------------------------
(* The completion handlers *)

\* The accept handler of either protocol, for a connection that was accepted.
Accepted ==
    /\ phase = "accepted"
    /\ \/ ~open /\ Drop
       \/ open /\ Await(IF Https THEN "handshake" ELSE "header", TimeoutRequest)
    /\ UNCHANGED <<sock, expiry, request, received, chunks, autoClose, server,
                   counters, thrown, reported>>

HandshakeDone ==
    /\ phase = "handshake"
    /\ result # "pending"
    /\ \/ Refused
       \/ Failed
       \/ open /\ result = "ok" /\ ReadRequest /\ UNCHANGED reported
    /\ UNCHANGED <<sock, expiry, request, received, chunks, autoClose, server,
                   counters, thrown>>

\* read()'s handler: parse, then find out where the content is.
HeaderDone ==
    /\ phase = "header"
    /\ result # "pending"
    /\ \/ (Refused \/ BufferFull \/ Failed) /\ UNCHANGED <<handled, thrown>>
       \/ /\ open /\ result = "ok"
          /\ IF ~request.wellFormed \/ request.body = "badLength"
             THEN Report /\ UNCHANGED <<handled, thrown>>
             ELSE CASE request.body \in {"none", "inBuffer"} -> FindResource
                    [] request.body = "toRead" ->
                          /\ Await("content", TimeoutContent)
                          /\ UNCHANGED <<handled, thrown, reported>>
                    [] request.body = "chunked" ->
                          /\ ReadChunkLine
                          /\ UNCHANGED <<handled, thrown, reported>>
    /\ UNCHANGED <<sock, expiry, request, received, chunks, autoClose, server,
                   read, answered>>

ContentDone ==
    /\ phase = "content"
    /\ result # "pending"
    /\ \/ (Refused \/ BufferFull \/ Failed) /\ UNCHANGED <<handled, thrown>>
       \/ open /\ result = "ok" /\ FindResource
    /\ UNCHANGED <<sock, expiry, request, received, chunks, autoClose, server,
                   read, answered>>

\* Mutant: the chunk of size 0 is not waited for.
ChunkCompleteEarly == FindResource

\* read_chunked_transfer_encoded_chunk(): after the last chunk comes the
\* handler, after any other one the next size line.
ChunkComplete ==
    \/ received = "all" /\ FindResource
    \/ received # "all" /\ ReadChunkLine /\ UNCHANGED <<handled, thrown, reported>>

\* A size line: it may not be a number, and the chunk may be there already.
ChunkLineDone ==
    /\ phase = "chunkLine"
    /\ result # "pending"
    /\ \/ (Refused \/ BufferFull \/ Failed) /\ UNCHANGED <<handled, thrown>>
       \/ /\ open /\ result = "ok"
          /\ \/ Report /\ UNCHANGED <<handled, thrown>>
             \/ /\ Await("chunkBody", TimeoutContent)
                /\ UNCHANGED <<handled, thrown, reported>>
             \/ ChunkComplete
    /\ UNCHANGED <<sock, expiry, request, received, chunks, autoClose, server,
                   read, answered>>

ChunkBodyDone ==
    /\ phase = "chunkBody"
    /\ result # "pending"
    /\ \/ (Refused \/ BufferFull \/ Failed) /\ UNCHANGED <<handled, thrown>>
       \/ open /\ result = "ok" /\ ChunkComplete
    /\ UNCHANGED <<sock, expiry, request, received, chunks, autoClose, server,
                   read, answered>>

-----------------------------------------------------------------------------
(* The owner of the response *)

\* Response::send() by the owner: it restarts the timer.
Send ==
    /\ phase = "app"
    /\ timer' = SetTimeout(TimeoutContent)
    /\ UNCHANGED <<phase, result, sock, expiry, request, received, chunks,
                   autoClose, server, counters, thrown, reported>>

SetAutoClose ==
    /\ phase = "app"
    /\ autoClose' = TRUE
    /\ UNCHANGED <<phase, result, sock, timer, expiry, request, received,
                   chunks, server, counters, thrown, reported>>

\* The last shared_ptr<Response> goes: send_on_delete().
ReleaseResponse ==
    /\ phase = "app"
    /\ Await("write", TimeoutContent)
    /\ UNCHANGED <<sock, expiry, request, received, chunks, autoClose, server,
                   counters, thrown, reported>>

\* What the request says about the connection: the first "close" or
\* "keep-alive" among its Connection fields decides, else the version.
Persistent(r) ==
    LET said == {i \in 1 .. Len(r.connection) : r.connection[i] # "other"}
    IN  IF said = {} THEN r.version = "1.1"
        ELSE \E i \in said : /\ \A j \in said : i <= j
                             /\ r.connection[i] = "keep-alive"

\* The handler of send_on_delete() and the callback write() gave it.
WriteDone ==
    /\ phase = "write"
    /\ result # "pending"
    /\ \/ Refused
       \/ Failed
       \/ /\ open /\ result = "ok"
          /\ IF ~autoClose /\ Persistent(request) THEN ReadRequest ELSE Drop
          /\ UNCHANGED reported
    /\ UNCHANGED <<sock, expiry, request, received, chunks, autoClose, server,
                   counters, thrown>>

-----------------------------------------------------------------------------
(* The server *)

\* stop() closes every connection of the set, then stops the io_service.
StopCloses ==
    /\ running
    /\ phase # "gone"
    /\ sock = "open"
    /\ sock' = "closed"
    /\ UNCHANGED <<phase, result, timer, expiry, request, received, chunks,
                   autoClose, server, counters, thrown, reported>>

\* It misses a connection that is being accepted: see HttpServer.
StopIoService ==
    /\ running
    /\ running' = FALSE
    /\ UNCHANGED <<phase, result, sock, timer, expiry, request, received,
                   chunks, autoClose, open, counters, thrown, reported>>

\* ~ServerBase(): handler_runner->stop().
StopRunner ==
    /\ open
    /\ open' = FALSE
    /\ UNCHANGED <<phase, result, sock, timer, expiry, request, received,
                   chunks, autoClose, running, counters, thrown, reported>>

-----------------------------------------------------------------------------
Handler ==
    /\ running
    /\ \/ Accepted \/ HandshakeDone \/ HeaderDone \/ ContentDone
       \/ ChunkLineDone \/ ChunkBodyDone \/ WriteDone

Peer == OperationFails \/ HeaderArrives \/ OperationSucceeds \/ ChunkLineArrives

Owner == Send \/ SetAutoClose \/ ReleaseResponse

Next == \/ Handler \/ TimerExpires \/ TimerHandler
        \/ Peer \/ Owner
        \/ StopCloses \/ StopIoService \/ StopRunner

Spec == Init /\ [][Next]_vars

(* The io threads run what is ready, time passes, an operation on a closed *)
(* socket fails, and the owner of a response releases it some time.  The   *)
(* peer need not do anything.                                              *)
Fairness ==
    /\ WF_vars(Handler)
    /\ WF_vars(TimerExpires)
    /\ WF_vars(TimerHandler)
    /\ WF_vars(sock = "closed" /\ OperationFails)
    /\ WF_vars(ReleaseResponse)

FairSpec == Spec /\ Fairness

-----------------------------------------------------------------------------
(* Properties *)

TypeOK ==
    /\ phase \in Waits \cup {"accepted", "app", "gone"}
    /\ result \in {"pending", "ok", "error"}
    /\ sock \in {"open", "closed"}
    /\ timer \in {"null", "armed", "done"}
    /\ expiry \in BOOLEAN /\ autoClose \in BOOLEAN /\ thrown \in BOOLEAN
    /\ open \in BOOLEAN /\ running \in BOOLEAN
    /\ request \in Requests \cup {NoRequest}
    /\ received \in {"header", "all"}
    /\ chunks \in 0 .. MaxChunks
    /\ read \in 0 .. MaxRequests
    /\ handled \in 0 .. read
    /\ answered \in 0 .. handled
    /\ reported \in 0 .. 2

(* No wait for the peer or for the owner of a response is without a timer  *)
(* that will close the connection, on any path through the handlers, if    *)
(* the timeout of its kind is not 0 (src/server_http.hpp:309-323).         *)
TimerGuardsEveryWait ==
    LET guarded == \/ result # "pending" \/ sock = "closed"
                   \/ timer = "armed" \/ expiry
    IN  /\ TimeoutRequest > 0 /\ phase \in {"handshake", "header"} => guarded
        /\ TimeoutContent > 0 /\ phase \in (Waits \cup {"app"})
                                    \ {"handshake", "header"} => guarded

(* A handler is called for a request only when all of its content has      *)
(* arrived, whatever path brought it there.                                *)
HandlerSeesWholeRequest ==
    [][handled' > handled => received = "all" /\ request.wellFormed]_vars

(* Requests of a connection do not overlap: the next one is read only when *)
(* every handled one is answered, and handled once.                        *)
OneRequestAtATime ==
    /\ handled <= read
    /\ phase = "header" => handled = answered
    /\ phase \in {"app", "write"} => handled = read /\ handled <= answered + 1

(* No request is lost without a trace: when the connection is gone, the    *)
(* last request was answered, or on_error was told, or no handler existed, *)
(* or the server is being destroyed.  Early and stale timers included.     *)
NoSilentLoss ==
    phase = "gone" /\ open =>
        /\ read > handled => reported > 0 \/ ~request.route
        /\ handled > answered => reported > 0

(* Once ~ServerBase() has stopped the runner, no handler of a resource and *)
(* no on_error is called: they may be destroyed.                           *)
NothingCalledAfterStop ==
    [][~open => handled' = handled /\ reported' <= reported]_vars

\* What the peer has been heard of.
Heard == <<read, chunks, received>>

(* With both timeouts set, a connection whose peer falls silent ends, at   *)
(* whatever stage, as long as the io_service runs: from each thing that    *)
(* was heard the connection comes to the next one or to its end.  A peer   *)
(* that keeps asking, or sends one chunk after the other, keeps it: every  *)
(* read restarts the timer (src/server_http.hpp:542, 585, 628).            *)
SilenceEndsConnection ==
    \A r \in 0 .. MaxRequests, n \in 0 .. MaxChunks, h \in {"header", "all"} :
        (Heard = <<r, n, h>>)
            ~> (Heard # <<r, n, h>> \/ phase = "gone" \/ ~running)

\* How far the connection is with its request.
Stage ==
    CASE phase \in {"accepted", "handshake"} -> "waiting"
      [] phase = "header" /\ result # "ok" -> "waiting"
      [] phase = "write" /\ result = "ok" -> "answered"
      [] phase = "app" \/ (phase = "write" /\ result # "ok") -> "handled"
      [] phase = "gone" -> "ended"
      [] OTHER -> IF received = "all" /\ request.wellFormed THEN "whole"
                                                            ELSE "arriving"

(* Handlers, timers, failures, stop() and the destructor together keep     *)
(* what a connection promises: requests one by one, each handled whole,    *)
(* answered once or reported, and silence once the server is gone          *)
(* (src/server_http.hpp:541-803).                                          *)
Promise == INSTANCE ConnectionPromise
           WITH stage <- Stage, route <- request.route
KeepsPromise == Promise!Spec
=============================================================================
