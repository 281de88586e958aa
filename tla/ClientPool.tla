----------------------------- MODULE ClientPool -----------------------------
(***************************************************************************)
(* ClientBase (src/client_http.hpp, src/client_https.hpp): the pool of     *)
(* connections, the session of each request from get_connection() to the   *)
(* request's callback, the one reconnect, and the timers.                  *)
(*                                                                         *)
(* Requests are made by any threads; the completion handlers of different  *)
(* sessions run on different threads, those of one session one after the   *)
(* other.  A section under connections_mutex is a step; so is the rest of  *)
(* a handler, which touches only its own session.                          *)
(*                                                                         *)
(* A connection is the address of an object: it is used again when neither *)
(* the pool nor a session holds it.                                        *)
(***************************************************************************)
EXTENDS Integers, FiniteSets

CONSTANTS
    Requests,         \* sessions; one serves requests one after the other
    Conns,            \* addresses of Connection objects
    None,             \* no connection
    Https, Proxy,     \* Client<HTTPS>; with config.proxy_server
    Timeout,          \* config.timeout, 0 for none
    TimeoutConnect,   \* config.timeout_connect, 0 for config.timeout
    MaxParts          \* bound on the chunks or events of a response

ASSUME NoneAssumption == None \notin Conns
ASSUME KindAssumption == Https \in BOOLEAN /\ Proxy \in BOOLEAN
ASSUME TimeoutAssumption == Timeout \in Nat /\ TimeoutConnect \in Nat
ASSUME PartsAssumption == MaxParts \in Nat

VARIABLES
    pool,      \* connections
    conn,      \* [Conns]: the fields of the objects
    stage,     \* [Requests]: what the session waits for, or is about to do
    op,        \* [Requests]: the result of its asynchronous operation
    of,        \* [Requests]: session->connection
    open,      \* the ScopeRunner hands out locks
    parts,     \* [Requests]: chunks or events that have arrived
    sent,      \* [Requests], history: times the request was written
    events,    \* [Requests], history: callbacks for an event stream
    calls      \* [Requests], history: callbacks

vars == <<pool, conn, stage, op, of, open, parts, sent, events, calls>>

history == <<sent, events, calls>>

Setup == {"resolve", "connect", "proxyWrite", "proxyRead", "handshake"}
Body == {"body", "chunkLine", "chunkBody"}
Waits == Setup \cup Body \cup {"write", "read", "untilEnd", "event"}

\* A connection that get_connection() or a reconnect has just created.
Fresh(reconnect) ==
    [inUse |-> TRUE, attempt |-> reconnect, event |-> FALSE,
     sock |-> "none", armed |-> FALSE, expiry |-> FALSE]

Init ==
    /\ pool = {}
    /\ conn = [c \in Conns |-> Fresh(TRUE)]
    /\ stage = [r \in Requests |-> "new"]
    /\ op = [r \in Requests |-> "pending"]
    /\ of = [r \in Requests |-> None]
    /\ open = TRUE
    /\ parts = [r \in Requests |-> 0]
    /\ sent = [r \in Requests |-> 0]
    /\ events = [r \in Requests |-> 0]
    /\ calls = [r \in Requests |-> 0]

\* Nothing holds the object: its address is free and its timer gone.
Free(c) == c \notin pool /\ \A r \in Requests : of[r] # c

-----------------------------------------------------------------------------
(* Timers and the socket *)

\* set_timeout() before a stage.  Client<HTTPS> resolves without one.
TimeoutOf(s) ==
    IF s = "resolve" /\ Https THEN 0
    ELSE IF s \in Setup /\ TimeoutConnect > 0 THEN TimeoutConnect ELSE Timeout

\* cancel_timeout(): a handler that is queued already is not cancelled.
Cancelled(c) == [conn EXCEPT ![c].armed = FALSE]

\* An asynchronous connect is under way: the socket is open for cancel().
Connecting(c) == \E r \in Requests : of[r] = c /\ stage[r] = "connect"

\* Mutant: close() without the socket's cancel() and shutdown().
ClosedNot(c) == conn[c].sock

\* Connection::close(): shutdown and cancel; the socket stays is_open().
Closed(c) == IF conn[c].sock \in {"open", "ended"} \/ Connecting(c)
             THEN "closed" ELSE conn[c].sock

TimerExpires(c) ==
    /\ ~Free(c)
    /\ conn[c].armed
    /\ conn' = [conn EXCEPT ![c].armed = FALSE, ![c].expiry = TRUE]
    /\ UNCHANGED <<pool, stage, op, of, open, parts, history>>

\* The timer's handler finds the object by a weak pointer, or not at all.
TimerHandler(c) ==
    /\ ~Free(c)
    /\ conn[c].expiry
    /\ conn' = [conn EXCEPT ![c].expiry = FALSE, ![c].sock = Closed(c)]
    /\ UNCHANGED <<pool, stage, op, of, open, parts, history>>

\* The server closes a connection, in use or kept.
PeerCloses(c) ==
    /\ ~Free(c)
    /\ conn[c].sock = "open"
    /\ conn' = [conn EXCEPT ![c].sock = "ended"]
    /\ UNCHANGED <<pool, stage, op, of, open, parts, history>>

\* How an operation may end.  For a reader "ok" means that what it waits for
\* has arrived: to read until the end that is the end of the stream.  Of the
\* failures only the read of a header tells two apart: "aborted" stands for
\* operation_aborted and for a buffer of max_response_streambuf_size.
Outcomes(r) ==
    LET s == stage[r]
        sock == conn[of[r]].sock
        works == \/ sock = "open" /\ s # "untilEnd"
                 \/ sock = "ended" /\ s \in {"write", "proxyWrite", "untilEnd"}
                 \/ sock = "closed" /\ s = "untilEnd"
                 \/ sock = "none" /\ s \in {"resolve", "connect"}
    IN  (IF works THEN {"ok"} ELSE {})
           \cup {"error"}
           \cup (IF s = "read" THEN {"aborted"} ELSE {})

OperationEnds(r) ==
    /\ stage[r] \in Waits
    /\ op[r] = "pending"
    /\ \E o \in Outcomes(r) :
          /\ o = "ok" /\ stage[r] \in {"chunkLine", "event"} => parts[r] < MaxParts
          /\ op' = [op EXCEPT ![r] = o]
          /\ parts' = IF o = "ok" /\ stage[r] \in {"chunkLine", "event"}
                      THEN [parts EXCEPT ![r] = @ + 1] ELSE parts
          /\ conn' = IF o = "ok" /\ stage[r] = "connect"
                     THEN [conn EXCEPT ![of[r]].sock = "open"] ELSE conn
    /\ UNCHANGED <<pool, stage, of, open, history>>

-----------------------------------------------------------------------------
(* request() *)

\* Mutant: the connection that is taken from the pool is not marked.
RequestUnmarked(r) ==
    /\ open
    /\ stage[r] \in {"new", "done"}
    /\ \/ \E c \in pool :
             /\ ~conn[c].inUse
             /\ conn' = [conn EXCEPT ![c].attempt = TRUE]
             /\ of' = [of EXCEPT ![r] = c]
             /\ UNCHANGED pool
       \/ /\ \A c \in pool : conn[c].inUse
          /\ \E c \in Conns :
                /\ Free(c)
                /\ conn' = [conn EXCEPT ![c] = Fresh(TRUE)]
                /\ of' = [of EXCEPT ![r] = c]
                /\ pool' = pool \cup {c}
    /\ stage' = [stage EXCEPT ![r] = "held"]
    /\ parts' = [parts EXCEPT ![r] = 0]
    /\ sent' = [sent EXCEPT ![r] = 0]
    /\ events' = [events EXCEPT ![r] = 0]
    /\ calls' = [calls EXCEPT ![r] = 0]
    /\ UNCHANGED <<op, open>>

\* get_connection(): an unused connection of the pool, or a new one.  (No
\* request is made of a client that is being destroyed.)
Request(r) ==
    /\ open
    /\ stage[r] \in {"new", "done"}
    /\ \/ \E c \in pool :
             /\ ~conn[c].inUse
             /\ conn' = [conn EXCEPT ![c].inUse = TRUE, ![c].attempt = TRUE]
             /\ of' = [of EXCEPT ![r] = c]
             /\ UNCHANGED pool
       \/ /\ \A c \in pool : conn[c].inUse
          /\ \E c \in Conns :
                /\ Free(c)
                /\ conn' = [conn EXCEPT ![c] = Fresh(TRUE)]
                /\ of' = [of EXCEPT ![r] = c]
                /\ pool' = pool \cup {c}
    /\ stage' = [stage EXCEPT ![r] = "held"]
    /\ parts' = [parts EXCEPT ![r] = 0]
    /\ sent' = [sent EXCEPT ![r] = 0]
    /\ events' = [events EXCEPT ![r] = 0]
    /\ calls' = [calls EXCEPT ![r] = 0]
    /\ UNCHANGED <<op, open>>

\* Start the operation of a stage; `cs` is what the handler made of the
\* connections before.
Wait(r, s, cs) ==
    /\ stage' = [stage EXCEPT ![r] = s]
    /\ op' = [op EXCEPT ![r] = "pending"]
    /\ conn' = [cs EXCEPT ![of[r]].armed = TimeoutOf(s) > 0]
    /\ sent' = IF s = "write" THEN [sent EXCEPT ![r] = @ + 1] ELSE sent
    /\ UNCHANGED <<pool, of, open, parts, events, calls>>

\* connect(), by request() or, in stage "again", by a reconnect.
Connect(r) ==
    /\ stage[r] \in {"held", "again"}
    /\ IF conn[of[r]].sock = "none" THEN Wait(r, "resolve", conn)
                                    ELSE Wait(r, "write", conn)

-----------------------------------------------------------------------------
(* session->callback *)

\* connections after the loop that keeps one of the unused.
Trimmed(p, cs) ==
    LET unused == {d \in p : ~cs[d].inUse}
    IN  IF unused = {} THEN {p} ELSE {p \ (unused \ {d}) : d \in unused}

\* Its part under the mutex: release the connection (not an event stream's),
\* drop it after an error, and trim the pool.  In stage "opened" an event is
\* read after the request's callback, in stage "settled" the session ends.
Release(r, e, cs, next) ==
    LET c == of[r]
        released == IF cs[c].event THEN cs ELSE [cs EXCEPT ![c].inUse = FALSE]
    IN  /\ conn' = released
        /\ pool' \in Trimmed(IF e = "ok" THEN pool ELSE pool \ {c}, released)
        /\ stage' = [stage EXCEPT ![r] = next]
        /\ op' = [op EXCEPT ![r] = "pending"]
        /\ UNCHANGED <<of, open, parts, history>>

Settle(r, e) == Release(r, e, Cancelled(of[r]), "settled")

\* Then the request's own callback.
UserCallback(r) ==
    /\ stage[r] \in {"settled", "opened"}
    /\ calls' = [calls EXCEPT ![r] = @ + 1]
    /\ IF stage[r] = "opened"
       THEN /\ stage' = [stage EXCEPT ![r] = "event"]
            /\ conn' = [conn EXCEPT ![of[r]].armed = TimeoutOf("event") > 0]
            /\ events' = [events EXCEPT ![r] = @ + 1]
            /\ UNCHANGED of
       ELSE /\ stage' = [stage EXCEPT ![r] = "done"]
            /\ of' = [of EXCEPT ![r] = None]
            /\ UNCHANGED <<conn, events>>
    /\ UNCHANGED <<pool, op, open, parts, sent>>

-----------------------------------------------------------------------------
(* The completion handlers *)

Completed(r, stages) == open /\ stage[r] \in stages /\ op[r] # "pending"

\* No lock: the handler returns, and the session with it.
Refused(r) ==
    /\ ~open
    /\ stage[r] \in Waits
    /\ op[r] # "pending"
    /\ conn' = Cancelled(of[r])
    /\ stage' = [stage EXCEPT ![r] = "lost"]
    /\ of' = [of EXCEPT ![r] = None]
    /\ UNCHANGED <<pool, op, open, parts, history>>

\* What follows a stage of connect() that succeeds.
Following(s) ==
    CASE s = "resolve" -> "connect"
      [] s = "connect" -> IF ~Https THEN "write"
                          ELSE IF Proxy THEN "proxyWrite" ELSE "handshake"
      [] s = "proxyWrite" -> "proxyRead"
      [] s = "proxyRead" -> "handshake"
      [] s = "handshake" -> "write"

SetupDone(r) ==
    /\ Completed(r, Setup)
    /\ IF op[r] = "ok"
       THEN \/ Wait(r, Following(stage[r]), conn)
            \/ stage[r] = "proxyRead" /\ Settle(r, "error")  \* not a 200
       ELSE Settle(r, "error")

WriteDone(r) ==
    /\ Completed(r, {"write"})
    /\ IF op[r] = "ok" THEN Wait(r, "read", conn) ELSE Settle(r, "error")

\* A response header: where its content is depends on the server.
HeaderDone(r) ==
    /\ Completed(r, {"read"})
    /\ op[r] = "ok"
    /\ LET cs == [conn EXCEPT ![of[r]].attempt = TRUE]
       IN  \E s \in {"body", "chunkLine", "untilEnd"} : Wait(r, s, cs)

\* It has no content, or all of it has arrived; or it does not parse.
HeaderOnly(r) ==
    /\ Completed(r, {"read"})
    /\ op[r] = "ok"
    /\ Settle(r, "ok") \/ Settle(r, "error")

\* text/event-stream: the callback is called, then events are read.
EventStream(r) ==
    /\ Completed(r, {"read"})
    /\ op[r] = "ok"
    /\ Release(r, "ok", [Cancelled(of[r]) EXCEPT ![of[r]].event = TRUE], "opened")

\* stoull() throws on a Content-Length that is no number: the exception
\* leaves the handler and the session is destroyed without its callback.
HeaderThrows(r) ==
    /\ Completed(r, {"read"})
    /\ op[r] = "ok"
    /\ conn' = Cancelled(of[r])
    /\ stage' = [stage EXCEPT ![r] = "thrown"]
    /\ UNCHANGED <<pool, op, of, open, parts, history>>

\* A header that cannot be read: one more try on a new connection, if this
\* one is still in the pool.
MayReconnect(r) == /\ conn[of[r]].attempt
                   /\ op[r] # "aborted"
                   /\ of[r] \in pool

Replace(r, d) ==
    /\ conn' = [conn EXCEPT ![d] = Fresh(FALSE)]
    /\ of' = [of EXCEPT ![r] = d]
    /\ pool' = (pool \ {of[r]}) \cup {d}
    /\ stage' = [stage EXCEPT ![r] = "again"]

Failed(r) == Completed(r, {"read"}) /\ op[r] # "ok"

\* Mutant: the caller is told of the failure as well.
ReconnectTold(r) ==
    /\ Failed(r) /\ MayReconnect(r)
    /\ \E d \in Conns : Free(d) /\ Replace(r, d)
    /\ calls' = [calls EXCEPT ![r] = @ + 1]
    /\ UNCHANGED <<op, open, parts, sent, events>>

Reconnect(r) ==
    /\ Failed(r) /\ MayReconnect(r)
    /\ \E d \in Conns : Free(d) /\ Replace(r, d)
    /\ UNCHANGED <<op, open, parts, history>>

HeaderFails(r) ==
    /\ Failed(r) /\ ~MayReconnect(r)
    /\ Settle(r, "error")

\* The content, a chunk's size line or the rest of a chunk.  A size line may
\* be no number, or its chunk may be there already; 0 is the last chunk.
BodyDone(r) ==
    /\ Completed(r, Body)
    /\ IF op[r] # "ok" THEN Settle(r, "error")
       ELSE CASE stage[r] = "body" -> Settle(r, "ok")
              [] stage[r] = "chunkLine" ->
                    \/ Settle(r, "error") \/ Settle(r, "ok")
                    \/ \E s \in {"chunkLine", "chunkBody"} : Wait(r, s, conn)
              [] stage[r] = "chunkBody" ->
                    Settle(r, "ok") \/ Wait(r, "chunkLine", conn)

\* HTTP/1.0: the end of the stream is the end of the content.
UntilEndDone(r) ==
    /\ Completed(r, {"untilEnd"})
    /\ Settle(r, op[r])

EventDone(r) ==
    /\ Completed(r, {"event"})
    /\ IF op[r] = "ok" THEN Release(r, "ok", Cancelled(of[r]), "opened")
                      ELSE Settle(r, "error")

-----------------------------------------------------------------------------
(* stop() and ~ClientBase() *)

\* stop(): close every connection of the pool and empty it.
Stop ==
    /\ pool # {}
    /\ conn' = [c \in Conns |-> IF c \in pool
                                THEN [conn[c] EXCEPT !.sock = Closed(c)]
                                ELSE conn[c]]
    /\ pool' = {}
    /\ UNCHANGED <<stage, op, of, open, parts, history>>

\* handler_runner->stop() waits for the handlers inside their scope.
StopRunner ==
    /\ open
    /\ \A r \in Requests : stage[r] \notin {"held", "settled", "opened", "again"}
    /\ open' = FALSE
    /\ UNCHANGED <<pool, conn, stage, op, of, parts, history>>

-----------------------------------------------------------------------------
Handler(r) ==
    \/ SetupDone(r) \/ WriteDone(r)
    \/ HeaderDone(r) \/ HeaderOnly(r) \/ EventStream(r) \/ HeaderThrows(r)
    \/ Reconnect(r) \/ HeaderFails(r)
    \/ BodyDone(r) \/ UntilEndDone(r) \/ EventDone(r)
    \/ Refused(r) \/ UserCallback(r)

Environment ==
    \/ \E c \in Conns : TimerExpires(c) \/ TimerHandler(c) \/ PeerCloses(c)
    \/ \E r \in Requests : OperationEnds(r)

Next ==
    \/ \E r \in Requests : Request(r) \/ Connect(r) \/ Handler(r)
    \/ Environment
    \/ Stop \/ StopRunner

Spec == Init /\ [][Next]_vars

\* io_service threads run the handlers that are ready, timers expire, the
\* resolver gives up, and an operation on a closed socket ends.
MustEnd(r) == conn[of[r]].sock \in {"closed", "ended"} \/ stage[r] = "resolve"

Fairness ==
    /\ \A r \in Requests :
          /\ WF_vars(Connect(r))
          /\ WF_vars(Handler(r))
          /\ WF_vars(stage[r] \in Waits /\ MustEnd(r) /\ OperationEnds(r))
    /\ \A c \in Conns : WF_vars(TimerExpires(c)) /\ WF_vars(TimerHandler(c))

FairSpec == Spec /\ Fairness

-----------------------------------------------------------------------------
(* Properties *)

Stages == {"new", "held", "again", "settled", "opened", "done", "lost", "thrown"}
             \cup Waits

\* Live: between get_connection() and the release in the callback.
Live(r) == stage[r] \in Waits \cup {"held", "again", "opened"}

\* The type of the state; every live session has a connection.
TypeOK ==
    /\ pool \subseteq Conns
    /\ conn \in [Conns -> [inUse : BOOLEAN, attempt : BOOLEAN, event : BOOLEAN,
                           sock : {"none", "open", "ended", "closed"},
                           armed : BOOLEAN, expiry : BOOLEAN]]
    /\ stage \in [Requests -> Stages]
    /\ op \in [Requests -> {"pending", "ok", "aborted", "error"}]
    /\ of \in [Requests -> Conns \cup {None}]
    /\ open \in BOOLEAN
    /\ parts \in [Requests -> 0..MaxParts]
    /\ sent \in [Requests -> Nat] /\ events \in [Requests -> Nat]
    /\ calls \in [Requests -> Nat]
    /\ \A r \in Requests : Live(r) => of[r] # None

\* No two sessions write to and read from one connection at the same time,
\* although a connection is handed on (get_connection()) while the callback
\* of the session that released it still runs.
ConnectionExclusive ==
    \A q, r \in Requests : Live(q) /\ Live(r) /\ of[q] = of[r] => q = r

\* A request is written twice at most: the new connection of a reconnect
\* does not reconnect, whatever was in flight on the first.
SentAtMostTwice == \A r \in Requests : sent[r] <= 2

\* The callback is called once, and for an event stream once more for its
\* opening and for every event: a timeout, stop() and a reconnect add no call.
CallbackOnce ==
    \A r \in Requests :
       /\ calls[r] <= events[r] + 1
       /\ stage[r] = "done" => calls[r] = events[r] + 1

\* What whoever made a request knows of it.
StateOf(s) == CASE s = "new" -> "none"
                [] s = "done" -> "answered"
                [] s \in {"lost", "thrown"} -> "lost"
                [] OTHER -> "asked"

\* The sessions keep what a client promises: no reconnect, timer, event stream,
\* stop() or reused connection makes a third try, a try after an answer, an
\* answer too many, or one after the destructor (src/client_http.hpp:147-256,
\* 342-409, 465-690).
Promise == INSTANCE RequestPromise
           WITH state <- [r \in Requests |-> StateOf(stage[r])],
                tries <- sent, told <- calls
KeepsPromise == Promise!Spec

\* With a timeout a request whose server falls silent comes to its end, at
\* whatever stage: from each chunk it has it comes to the next one or to its
\* callback, unless the client is destroyed or the handler of its header throws.
\* A server that sends one chunk after the other keeps it: the timer is
\* restarted for each (src/client_http.hpp:643).
SilenceIsAnswered ==
    \A r \in Requests, n \in 0 .. MaxParts :
        (stage[r] \in Waits \cup {"held"} /\ parts[r] = n)
            ~> \/ parts[r] > n \/ calls[r] > 0
               \/ stage[r] \in {"lost", "thrown"}
=============================================================================
