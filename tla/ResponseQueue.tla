--------------------------- MODULE ResponseQueue ---------------------------
(***************************************************************************)
(* ServerBase::Response (src/server_http.hpp): the queue of buffers that   *)
(* send() hands to one socket, the completion handler that works it off,   *)
(* and the last write that the deleter of the shared_ptr starts.           *)
(*                                                                         *)
(* Senders are the owners of a shared_ptr<Response> that call send(): the  *)
(* script through KResponse on the main thread, and a FileSender on an     *)
(* io thread.  Threads are the threads inside io_service::run().  A buffer *)
(* is its number: buffers are numbered in the order in which send() moves  *)
(* them out of the stream, which is the order in which their bytes were    *)
(* put there.  A critical section of send_queue_mutex is one step; what    *)
(* send() does to the stream before it is two, under no lock.              *)
(*                                                                         *)
(* A write that fails may have sent a part of its buffer; `wire` holds     *)
(* whole buffers only.  Writing from a null buffer ends the process.  What *)
(* a sender puts in the stream in the middle of another's send() may be    *)
(* lost with the stream buffer it replaces: such bytes get no number here, *)
(* FileSender follows them.                                                *)
(***************************************************************************)
EXTENDS Integers, Sequences, FiniteSets

CONSTANTS Senders, Threads,
          MaxSends      \* bound on the number of calls of send()

ASSUME MaxSendsAssumption == MaxSends \in Nat
ASSUME FiniteAssumption == IsFiniteSet(Senders) /\ IsFiniteSet(Threads)

VARIABLES
    taken,      \* [Senders]: buffer moved out of the stream, not yet queued
    moved,      \* senders that have not given the stream a new buffer yet
    empty,      \* the stream's unique_ptr is null
    nulls,      \* the buffers that are null pointers
    overlaps,   \* history: <<m, n>>, n was moved while m was in send()
    queue,      \* send_queue
    writes,     \* the asynchronous writes that asio has been given
    job,        \* [Threads]: the completion handler a thread is running
    owners,     \* senders that hold a shared_ptr<Response>
    deleted,    \* the deleter has run: send_on_delete() was called
    up,         \* the socket still works
    open,       \* the connection's ScopeRunner hands out locks
    running,    \* io_service has not been stopped
    crashed,    \* the process has dereferenced a null buffer
    buffers,    \* number of buffers moved out of the stream
    accepted,   \* history: buffers in the order they entered send_queue
    wire,       \* history: buffers written to the socket, in order
    answers     \* history: calls of callbacks

stream == <<moved, empty, nulls, overlaps>>
process == <<running, crashed>>
vars == <<taken, queue, writes, job, owners, deleted, up, open, buffers,
          accepted, wire, answers, stream, process>>

None == 0
Idle == [at |-> "idle", calls |-> <<>>]
Answer(b, ok) == [buffer |-> b, ok |-> ok]
PendingWrite(b) == [buffer |-> b, result |-> "pending"]

\* The number of the buffer that is left in the stream for send_on_delete().
FinalBuffer == buffers + 1

Init ==
    /\ taken = [s \in Senders |-> None]
    /\ queue = <<>>
    /\ writes = {}
    /\ job = [t \in Threads |-> Idle]
    /\ owners = Senders
    /\ deleted = FALSE
    /\ up = TRUE
    /\ open = TRUE
    /\ moved = {} /\ empty = FALSE /\ nulls = {} /\ overlaps = {}
    /\ running = TRUE /\ crashed = FALSE
    /\ buffers = 0
    /\ accepted = <<>>
    /\ wire = <<>>
    /\ answers = <<>>

-----------------------------------------------------------------------------
(* send() *)

\* The stream's buffer is moved out, before the mutex is taken.
Move(s) ==
    /\ s \in owners
    /\ taken[s] = None
    /\ buffers < MaxSends
    /\ buffers' = buffers + 1
    /\ taken' = [taken EXCEPT ![s] = buffers + 1]
    /\ moved' = moved \cup {s}
    /\ empty' = TRUE
    /\ nulls' = IF empty THEN nulls \cup {buffers + 1} ELSE nulls
    /\ overlaps' = overlaps \cup {<<taken[r], buffers + 1>> :
                                   r \in {u \in Senders : taken[u] # None}}
    /\ UNCHANGED <<queue, writes, job, owners, deleted, up, open, accepted,
                   wire, answers, process>>

\* The stream gets a new one.
Replace(s) ==
    /\ s \in moved
    /\ moved' = moved \ {s}
    /\ empty' = FALSE
    /\ UNCHANGED <<taken, queue, writes, job, owners, deleted, up, open,
                   buffers, accepted, wire, answers, nulls, overlaps, process>>

\* send_from_queue(): hand the first buffer of the queue to the socket.
SendFromQueue(q) == {PendingWrite(Head(q))}
ReadsNull(q) == q # <<>> /\ Head(q) \in nulls

\* Mutant: a write for every send().
EnqueueAlwaysWrites(s) ==
    /\ taken[s] # None /\ s \notin moved
    /\ queue' = Append(queue, taken[s])
    /\ writes' = writes \cup SendFromQueue(queue')
    /\ crashed' = ReadsNull(queue')
    /\ accepted' = Append(accepted, taken[s])
    /\ taken' = [taken EXCEPT ![s] = None]
    /\ UNCHANGED <<job, owners, deleted, up, open, buffers, wire, answers,
                   stream, running>>

\* Mutant: emplace_front().
EnqueueFirst(s) ==
    /\ taken[s] # None /\ s \notin moved
    /\ queue' = <<taken[s]>> \o queue
    /\ writes' = IF Len(queue') = 1 THEN writes \cup SendFromQueue(queue')
                                    ELSE writes
    /\ crashed' = ReadsNull(queue')
    /\ accepted' = Append(accepted, taken[s])
    /\ taken' = [taken EXCEPT ![s] = None]
    /\ UNCHANGED <<job, owners, deleted, up, open, buffers, wire, answers,
                   stream, running>>

\* The rest of send(), under the mutex.
Enqueue(s) ==
    /\ taken[s] # None /\ s \notin moved
    /\ queue' = Append(queue, taken[s])
    /\ writes' = IF Len(queue') = 1 THEN writes \cup SendFromQueue(queue')
                                    ELSE writes
    /\ crashed' = ReadsNull(queue')
    /\ accepted' = Append(accepted, taken[s])
    /\ taken' = [taken EXCEPT ![s] = None]
    /\ UNCHANGED <<job, owners, deleted, up, open, buffers, wire, answers,
                   stream, running>>

\* A sender gives up its shared_ptr.
Release(s) ==
    /\ s \in owners
    /\ taken[s] = None
    /\ owners' = owners \ {s}
    /\ UNCHANGED <<taken, queue, writes, job, deleted, up, open, buffers,
                   accepted, wire, answers, stream, process>>

-----------------------------------------------------------------------------
(* The socket *)

\* A write succeeds while the socket works and fails afterwards.
WriteCompletes(w) ==
    /\ w \in writes
    /\ w.result = "pending"
    /\ writes' = (writes \ {w})
                   \cup {[w EXCEPT !.result = IF up THEN "ok" ELSE "error"]}
    /\ wire' = IF up THEN Append(wire, w.buffer) ELSE wire
    /\ UNCHANGED <<taken, queue, job, owners, deleted, up, open, buffers,
                   accepted, answers, stream, process>>

\* The peer goes away, or the timer or stop() closes the connection.
SocketFails ==
    /\ up
    /\ up' = FALSE
    /\ UNCHANGED <<taken, queue, writes, job, owners, deleted, open, buffers,
                   accepted, wire, answers, stream, process>>

-----------------------------------------------------------------------------
(* The completion handler of send_from_queue() *)

Final(w) == deleted /\ w.buffer = FinalBuffer

\* Mutant: the handler goes on without a lock.
DispatchUnlocked(t, w) ==
    /\ running /\ job[t].at = "idle"
    /\ w \in writes
    /\ w.result # "pending"
    /\ ~Final(w)
    /\ writes' = writes \ {w}
    /\ job' = [job EXCEPT ![t] = [at |-> w.result, calls |-> <<>>]]
    /\ UNCHANGED <<taken, queue, owners, deleted, up, open, buffers, accepted,
                   wire, answers, stream, process>>

\* A thread dispatches it: continue_lock(), then the mutex is still to come.
Dispatch(t, w) ==
    /\ running /\ job[t].at = "idle"
    /\ w \in writes
    /\ w.result # "pending"
    /\ ~Final(w)
    /\ open
    /\ writes' = writes \ {w}
    /\ job' = [job EXCEPT ![t] = [at |-> w.result, calls |-> <<>>]]
    /\ UNCHANGED <<taken, queue, owners, deleted, up, open, buffers, accepted,
                   wire, answers, stream, process>>

\* No lock: the handler returns, and its shared_ptr to the Response with it.
DispatchRefused(t, w) ==
    /\ running /\ job[t].at = "idle"
    /\ w \in writes
    /\ w.result # "pending"
    /\ ~open
    /\ writes' = writes \ {w}
    /\ UNCHANGED <<taken, queue, job, owners, deleted, up, open, buffers,
                   accepted, wire, answers, stream, process>>

\* Mutant: the next write is started before the first element is erased.
PopHeadLate(t) ==
    /\ job[t].at = "ok"
    /\ queue' = Tail(queue)
    /\ writes' = IF queue' # <<>> THEN writes \cup SendFromQueue(queue)
                                  ELSE writes
    /\ crashed' = ReadsNull(queue')
    /\ job' = [job EXCEPT ![t] = [at |-> "call",
                                  calls |-> <<Answer(Head(queue), TRUE)>>]]
    /\ UNCHANGED <<taken, owners, deleted, up, open, buffers, accepted, wire,
                   answers, stream, running>>

\* Mutant: the next write is not started.
PopHeadStops(t) ==
    /\ job[t].at = "ok"
    /\ queue' = Tail(queue)
    /\ writes' = writes
    /\ crashed' = ReadsNull(queue')
    /\ job' = [job EXCEPT ![t] = [at |-> "call",
                                  calls |-> <<Answer(Head(queue), TRUE)>>]]
    /\ UNCHANGED <<taken, owners, deleted, up, open, buffers, accepted, wire,
                   answers, stream, running>>

\* !ec: erase the first element, start the next write, release the mutex.
PopHead(t) ==
    /\ job[t].at = "ok"
    /\ queue' = Tail(queue)
    /\ writes' = IF queue' # <<>> THEN writes \cup SendFromQueue(queue')
                                  ELSE writes
    /\ crashed' = ReadsNull(queue')
    /\ job' = [job EXCEPT ![t] = [at |-> "call",
                                  calls |-> <<Answer(Head(queue), TRUE)>>]]
    /\ UNCHANGED <<taken, owners, deleted, up, open, buffers, accepted, wire,
                   answers, stream, running>>

\* Mutant: only the callback of the write that failed.
FlushHeadOnly(t) ==
    /\ job[t].at = "error"
    /\ queue' = <<>>
    /\ job' = [job EXCEPT ![t] = [at |-> "call",
                                  calls |-> <<Answer(Head(queue), FALSE)>>]]
    /\ UNCHANGED <<taken, writes, owners, deleted, up, open, buffers, accepted,
                   wire, answers, stream, process>>

\* ec: collect the callbacks of the whole queue and clear it.
FlushQueue(t) ==
    /\ job[t].at = "error"
    /\ queue' = <<>>
    /\ job' = [job EXCEPT
                 ![t] = [at |-> "call",
                         calls |-> [i \in 1 .. Len(queue) |->
                                       Answer(queue[i], FALSE)]]]
    /\ UNCHANGED <<taken, writes, owners, deleted, up, open, buffers, accepted,
                   wire, answers, stream, process>>

\* The callbacks run after the mutex has been released.
Callback(t) ==
    /\ job[t].at = "call"
    /\ job[t].calls # <<>>
    /\ answers' = Append(answers, Head(job[t].calls))
    /\ job' = [job EXCEPT ![t].calls = Tail(@)]
    /\ UNCHANGED <<taken, queue, writes, owners, deleted, up, open, buffers,
                   accepted, wire, stream, process>>

\* The handler returns: its lock and its shared_ptr go.
HandlerReturns(t) ==
    /\ job[t].at = "call"
    /\ job[t].calls = <<>>
    /\ job' = [job EXCEPT ![t] = Idle]
    /\ UNCHANGED <<taken, queue, writes, owners, deleted, up, open, buffers,
                   accepted, wire, answers, stream, process>>

-----------------------------------------------------------------------------
(* The last shared_ptr is gone: the owners', or the one that each pending  *)
(* write and each running handler keeps (`self`).                          *)

\* Mutant: the handlers capture `this` in place of `self`.
UnreferencedBySelf == owners = {}

Unreferenced ==
    /\ owners = {}
    /\ writes = {}
    /\ \A t \in Threads : job[t] = Idle

\* The deleter calls send_on_delete(): what is left in the stream is sent.
SendOnDelete ==
    /\ Unreferenced
    /\ ~deleted
    /\ deleted' = TRUE
    /\ writes' = writes \cup {PendingWrite(FinalBuffer)}
    /\ UNCHANGED <<taken, queue, job, owners, up, open, buffers, accepted,
                   wire, answers, stream, process>>

\* Its completion handler goes on with the connection, or reports ec.
FinalHandler(t, w) ==
    /\ running /\ job[t].at = "idle"
    /\ w \in writes
    /\ w.result # "pending"
    /\ Final(w)
    /\ open
    /\ writes' = writes \ {w}
    /\ answers' = Append(answers, Answer(w.buffer, w.result = "ok"))
    /\ UNCHANGED <<taken, queue, job, owners, deleted, up, open, buffers,
                   accepted, wire, stream, process>>

\* ~ServerBase() stops the runner when no handler holds a lock.
StopRunner ==
    /\ open
    /\ \A t \in Threads : job[t] = Idle
    /\ open' = FALSE
    /\ UNCHANGED <<taken, queue, writes, job, owners, deleted, up, buffers,
                   accepted, wire, answers, stream, process>>

\* KServer.stop() stops the internal io_service: no completion handler is
\* dispatched until the script starts the server again.
StopService ==
    /\ running
    /\ running' = FALSE
    /\ UNCHANGED <<taken, queue, writes, job, owners, deleted, up, open,
                   buffers, accepted, wire, answers, stream, crashed>>

StartAgain ==
    /\ ~running
    /\ running' = TRUE
    /\ UNCHANGED <<taken, queue, writes, job, owners, deleted, up, open,
                   buffers, accepted, wire, answers, stream, crashed>>

-----------------------------------------------------------------------------
ThreadStep(t) ==
    \/ \E w \in writes : \/ Dispatch(t, w)
                         \/ DispatchRefused(t, w)
                         \/ FinalHandler(t, w)
    \/ PopHead(t) \/ FlushQueue(t) \/ Callback(t) \/ HandlerReturns(t)

Next ==
    /\ ~crashed
    /\ \/ \E s \in Senders : Move(s) \/ Replace(s) \/ Enqueue(s) \/ Release(s)
       \/ \E w \in writes : WriteCompletes(w)
       \/ \E t \in Threads : ThreadStep(t)
       \/ SocketFails \/ SendOnDelete \/ StopRunner \/ StopService \/ StartAgain

Spec == Init /\ [][Next]_vars

(* While io_service runs, so do its threads, and a write does not stay     *)
(* pending, because send() has started a timer of timeout_content seconds  *)
(* that closes the connection; a sender inside send() gets the mutex.      *)
Fairness ==
    /\ \A s \in Senders : WF_vars(~crashed /\ (Replace(s) \/ Enqueue(s)))
    /\ WF_vars(~crashed /\ running /\ \E w \in writes : WriteCompletes(w))
    /\ \A t \in Threads : WF_vars(~crashed /\ ThreadStep(t))
    /\ WF_vars(~crashed /\ SendOnDelete)

FairSpec == Spec /\ Fairness

-----------------------------------------------------------------------------
(* Properties *)

Buffer == 1 .. MaxSends + 1
Answers == [buffer : Buffer, ok : BOOLEAN]
Writes == [buffer : Buffer, result : {"pending", "ok", "error"}]
Jobs == [at : {"idle", "ok", "error", "call"}, calls : Seq(Answers)]

StreamTypeOK ==
    /\ moved \subseteq Senders /\ nulls \subseteq Buffer
    /\ overlaps \subseteq Buffer \X Buffer
    /\ empty \in BOOLEAN /\ running \in BOOLEAN /\ crashed \in BOOLEAN

QueueTypeOK ==
    /\ taken \in [Senders -> Buffer \cup {None}]
    /\ queue \in Seq(Buffer)
    /\ writes \subseteq Writes
    /\ job \in [Threads -> Jobs]
    /\ owners \subseteq Senders
    /\ deleted \in BOOLEAN /\ up \in BOOLEAN /\ open \in BOOLEAN
    /\ buffers \in 0 .. MaxSends
    /\ accepted \in Seq(Buffer) /\ wire \in Seq(Buffer)
    /\ answers \in Seq(Answers)

TypeOK == QueueTypeOK /\ StreamTypeOK

\* Threads that hold the lock of a completion that has not touched the queue.
Entered == {t \in Threads : job[t].at \in {"ok", "error"}}

(* At any time the socket has at most one asynchronous write, and a write  *)
(* and a handler that has yet to pop the queue exclude each other: two     *)
(* overlapping async_writes would mix the bytes of two buffers, however    *)
(* many threads call send() (src/server_http.hpp:75-109, 138-149).         *)
OneWriteAtATime ==
    /\ \A v, w \in writes : v = w
    /\ \A t, u \in Entered : t = u
    /\ writes # {} => Entered = {}

(* The buffer a write reads from is the first of the queue, so that the    *)
(* queue's shared_ptr keeps it alive until the handler erases it.          *)
WriteReadsHead ==
    \A w \in writes :
        Final(w) \/ (queue # <<>> /\ w.buffer = Head(queue))

(* A buffer in the queue is never left behind: as long as handlers may     *)
(* run, somebody is at work on it.                                         *)
QueueIsServed ==
    open /\ queue # <<>> => writes # {} \/ Entered # {}

(* What the invariants above rest on; inductive with them.            *)
ReferencesCount ==
    /\ \A s \in Senders : taken[s] # None => s \in owners
    /\ deleted => owners = {} /\ \A t \in Threads : job[t] = Idle
    /\ deleted => \A w \in writes : Final(w)
    /\ deleted /\ open => queue = <<>>
    /\ queue = <<>> => Entered = {}

IInv ==
    /\ QueueTypeOK
    /\ OneWriteAtATime
    /\ WriteReadsHead
    /\ QueueIsServed
    /\ ReferencesCount

(* The peer reads the bytes in the order in which they were put in the     *)
(* stream, and the rest that send_on_delete() sends after all of them.     *)
(* Two buffers change places only when the send() of one was still on its  *)
(* way to the mutex while the other moved its buffer out, and only such an *)
(* overlap can put a null buffer in the queue                              *)
(* (src/server_http.hpp:138-149).                                          *)
WireIsStreamOrder ==
    /\ \A j \in 1 .. Len(wire) : \A i \in 1 .. j - 1 :
          wire[i] < wire[j] \/ <<wire[j], wire[i]>> \in overlaps
    /\ \A n \in nulls : \E m \in 1 .. n - 1 : <<m, n>> \in overlaps

\* What is left in the stream when the last shared_ptr goes.
RestOf(pending) ==
    IF ~deleted THEN "kept" ELSE IF pending THEN "sending" ELSE "sent"

(* Senders, handlers, failures and the deleter together keep what a        *)
(* response promises: nothing is sent out of order or twice, each callback *)
(* is called once and tells the truth, and none after the destructor       *)
(* (src/server_http.hpp:62-160).                                           *)
Promise == INSTANCE SendPromise
           WITH rest <- RestOf(\E w \in writes : w.result = "pending")
KeepsPromise == Promise!Spec

(* send_on_delete() starts its write alone: no queued buffer and no other  *)
(* write is left when the last shared_ptr goes, unless the handlers were   *)
(* refused because the server is being destroyed.                          *)
DeleteAfterQueue ==
    [][SendOnDelete /\ open => queue = <<>>]_vars

(* If io_service runs in the end, every buffer that send() has moved out   *)
(* is answered, with or without an error, also one that was on its way     *)
(* when KServer.stop() stopped the service, unless the server is destroyed *)
(* or a null buffer ends the process (src/server_http.hpp:74-110).         *)
EveryCallbackRuns ==
    <>[]running =>
        \A b \in 1 .. MaxSends :
            (\E s \in Senders : taken[s] = b)
                ~> \/ ~open \/ crashed
                   \/ \E i \in 1 .. Len(answers) : answers[i].buffer = b
=============================================================================
