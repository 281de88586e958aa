----------------------------- MODULE SyncRequest -----------------------------
(***************************************************************************)
(* The synchronous form of ClientBase::request()                           *)
(* (src/client_http.hpp:198-256): each caller starts an asynchronous       *)
(* request, runs the io_service that all of them share, and restarts it    *)
(* when it is the last.  KClient calls it from a thread of its own for     *)
(* every sendAsync() and from the main thread for sendSync()               *)
(* (src/httpclient.cpp:64-132).                                            *)
(*                                                                         *)
(* What an asynchronous request does until its callback is ClientPool's:   *)
(* here it is pending until a thread inside run() completes it.            *)
(***************************************************************************)
EXTENDS Integers, FiniteSets

CONSTANTS
    Threads,      \* callers
    MaxRequests,  \* bound on the requests of each
    MayThrow,     \* a handler may throw: stoull() of a Content-Length
    Heard         \* requests that are sure to end: the server answers, or
                  \* the script has set the timeouts

ASSUME ThreadsAssumption == IsFiniteSet(Threads)
ASSUME MaxRequestsAssumption == MaxRequests \in Nat

VARIABLES
    pc,        \* [Threads]: where a caller is in request()
    made,      \* [Threads]: requests made; the last is the current one
    answer,    \* [Threads]: response and ec of the current request's frame
    count,     \* concurrent_synchronous_requests
    pending,   \* requests <<t, n>> that the io_service still has work for
    stopped,   \* io_service->stopped()
    alone      \* [Threads], history: no other request has overlapped, and
               \* no earlier one has left with an exception

vars == <<pc, made, answer, count, pending, stopped, alone>>

Requests == Threads \X (1..MaxRequests)

ASSUME HeardAssumption == Heard \subseteq Requests

Init ==
    /\ pc = [t \in Threads |-> "idle"]
    /\ made = [t \in Threads |-> 0]
    /\ answer = [t \in Threads |-> "none"]
    /\ count = 0
    /\ pending = {}
    /\ stopped = FALSE
    /\ alone = [t \in Threads |-> TRUE]

Idle(t) == pc[t] \in {"idle", "returned"}

\* The asynchronous request(): from now on the io_service has work.
Start(t) ==
    /\ Idle(t)
    /\ made[t] < MaxRequests
    /\ pc' = [pc EXCEPT ![t] = "started"]
    /\ made' = [made EXCEPT ![t] = @ + 1]
    /\ answer' = [answer EXCEPT ![t] = "none"]
    /\ pending' = pending \cup {<<t, made[t] + 1>>}
    /\ LET others == {u \in Threads \ {t} : ~Idle(u)}
       IN  alone' = [u \in Threads |-> IF u = t THEN others = {} /\ count = 0
                                       ELSE alone[u] /\ u \notin others]
    /\ UNCHANGED <<count, stopped>>

Enter(t) ==
    /\ pc[t] = "started"
    /\ count' = count + 1
    /\ pc' = [pc EXCEPT ![t] = "counted"]
    /\ UNCHANGED <<made, answer, pending, stopped, alone>>

\* run() of a stopped io_service returns; without work it stops it.
Run(t) ==
    /\ pc[t] = "counted"
    /\ stopped' = (stopped \/ pending = {})
    /\ pc' = [pc EXCEPT ![t] = IF stopped' THEN "ran" ELSE "running"]
    /\ UNCHANGED <<made, answer, count, pending, alone>>

\* The end of a request: its work is gone, and without any the service stops.
Finished(q) ==
    /\ pending' = pending \ {q}
    /\ stopped' = (pending' = {})

\* Its callback, on any thread inside run(), writes to its caller's frame.
Callback(u, q) ==
    LET t == q[1]
        live == ~Idle(t) /\ made[t] = q[2]
    IN  /\ pc[u] = "running"
        /\ ~stopped
        /\ \E a \in {"response", "error"} :
              answer' = IF live THEN [answer EXCEPT ![t] = a] ELSE answer
        /\ Finished(q)
        /\ UNCHANGED <<pc, made, count, alone>>

\* A handler throws: run() and request() are left by the exception.
Throws(u, q) ==
    /\ MayThrow
    /\ pc[u] = "running"
    /\ ~stopped
    /\ pc' = [pc EXCEPT ![u] = "idle"]
    /\ Finished(q)
    /\ UNCHANGED <<made, answer, count, alone>>

\* Every run() of a stopped service returns.
RunReturns(t) ==
    /\ pc[t] = "running"
    /\ stopped
    /\ pc' = [pc EXCEPT ![t] = "ran"]
    /\ UNCHANGED <<made, answer, count, pending, stopped, alone>>

\* Mutant: the first to leave restarts the service.
LeaveFirst(t) ==
    /\ pc[t] = "ran"
    /\ count' = count - 1
    /\ stopped' = FALSE
    /\ pc' = [pc EXCEPT ![t] = "returned"]
    /\ UNCHANGED <<made, answer, pending, alone>>

\* Mutant: the service is not restarted.
LeaveStopped(t) ==
    /\ pc[t] = "ran"
    /\ count' = count - 1
    /\ pc' = [pc EXCEPT ![t] = "returned"]
    /\ UNCHANGED <<made, answer, pending, stopped, alone>>

\* The last one out restarts the service; then throw system_error(ec), or
\* return the response, which is null when the callback has not run.
Leave(t) ==
    /\ pc[t] = "ran"
    /\ count' = count - 1
    /\ stopped' = (stopped /\ count' # 0)
    /\ pc' = [pc EXCEPT ![t] = "returned"]
    /\ UNCHANGED <<made, answer, pending, alone>>

Handler == \E u \in Threads, q \in pending : Callback(u, q) \/ Throws(u, q)

Step(t) == Enter(t) \/ Run(t) \/ RunReturns(t) \/ Leave(t)

Next == Handler \/ \E t \in Threads : Start(t) \/ Step(t)

Spec == Init /\ [][Next]_vars

\* A handler of a request that is sure to end.
HeardHandler ==
    \E u \in Threads, q \in pending \cap Heard : Callback(u, q) \/ Throws(u, q)

-----------------------------------------------------------------------------
(* Properties *)

\* Inside: between the increment and the decrement of the counter.
Inside == {t \in Threads : pc[t] \in {"counted", "running", "ran"}}

\* The type of the state.
TypeOK ==
    /\ pc \in [Threads -> {"idle", "started", "counted", "running", "ran",
                           "returned"}]
    /\ made \in [Threads -> 0..MaxRequests]
    /\ answer \in [Threads -> {"none", "response", "error"}]
    /\ count \in Nat
    /\ pending \subseteq Requests
    /\ stopped \in BOOLEAN
    /\ alone \in [Threads -> BOOLEAN]

\* A restart comes when no other thread is inside run() or about to enter it
\* as a counted one: boost::asio requires it, and the counter is there for it
\* (src/client_http.hpp:208-218).
RestartAlone ==
    [][stopped /\ ~stopped' => \E t \in Threads : Inside \subseteq {t}]_vars

\* A request that nothing overlaps returns with its answer, whatever earlier
\* requests of other threads have left behind in the service, exceptions apart.
AloneIsAnswered ==
    \A t \in Threads : pc[t] = "returned" /\ alone[t] => answer[t] # "none"

\* The inductive part of RestartAlone.
CountCoversInside == count >= Cardinality(Inside)

=============================================================================
