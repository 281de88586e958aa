------------------------------ MODULE KClient -------------------------------
(***************************************************************************)
(* KClient (src/httpclient.cpp:30-137): the client object of a script.     *)
(* open() replaces the HTTP client it holds, sendSync() makes a            *)
(* synchronous request on the main thread, sendAsync() makes one on a      *)
(* thread of its own that reads the HTTP client when it starts, and posts  *)
(* onFinished when the request has returned or thrown.                     *)
(*                                                                         *)
(* The requests are SyncRequest's: its counter, its pending work and its   *)
(* service belong to the HTTP client that is open.                         *)
(***************************************************************************)
EXTENDS SyncRequest

CONSTANTS Main,      \* the main thread, one of Threads
          MaxOpens   \* bound on the calls of open()

ASSUME MainAssumption == Main \in Threads
ASSUME MaxOpensAssumption == MaxOpens \in Nat

Senders == Threads \ {Main}

VARIABLES
    hc,        \* whether there is an HTTP client: self->hc is not NULL
    opens,     \* calls of open()
    task,      \* [Senders]: the thread of a sendAsync()
    crash,     \* what the process has died of
    reopened   \* history: open() while a sendAsync() had not reported

script == <<hc, opens, task, reopened>>
allVars == <<vars, script, crash>>

KInit ==
    /\ Init
    /\ hc = FALSE
    /\ opens = 0
    /\ task = [t \in Senders |-> "none"]
    /\ crash = "no"
    /\ reopened = FALSE

Outstanding == {t \in Senders : task[t] # "none"}

\* Threads in the middle of a request of the HTTP client.
Requesting == {t \in Threads : ~Idle(t)}

-----------------------------------------------------------------------------
(* The main thread, in the script *)

\* open() while a request runs: close() deletes the client under it.
OpenDeletes ==
    /\ Idle(Main)
    /\ opens < MaxOpens
    /\ Requesting # {}
    /\ opens' = opens + 1
    /\ crash' = "deletedClient"
    /\ reopened' = (reopened \/ Outstanding # {})
    /\ UNCHANGED <<vars, hc, task>>

\* open(): close(), then a new client, with a service and a counter of its
\* own, unless its constructor throws.
Open ==
    /\ Idle(Main)
    /\ opens < MaxOpens
    /\ Requesting = {}
    /\ opens' = opens + 1
    /\ hc' \in BOOLEAN
    /\ count' = 0
    /\ pending' = {}
    /\ stopped' = FALSE
    /\ reopened' = (reopened \/ Outstanding # {})
    /\ UNCHANGED <<pc, made, answer, alone, task, crash>>

\* sendSync() and sendAsync() write to hc->config at once.
SendWithoutClient ==
    /\ Idle(Main)
    /\ ~hc
    /\ crash' = "noClient"
    /\ UNCHANGED <<vars, script>>

SendSync ==
    /\ hc
    /\ pc[Main] = "idle"
    /\ Start(Main)
    /\ UNCHANGED <<script, crash>>

\* A content that is neither a string nor an octet: no request is made, and
\* the response that there is not is read.
SendSyncOther ==
    /\ Idle(Main)
    /\ hc
    /\ crash' = "noRequest"
    /\ UNCHANGED <<vars, script>>

\* A synchronous request has returned: its response is read, its error is
\* thrown to the script.
SendSyncReturns ==
    /\ pc[Main] = "returned"
    /\ pc' = [pc EXCEPT ![Main] = "idle"]
    /\ crash' = IF answer[Main] = "none" THEN "nullResponse" ELSE crash
    /\ UNCHANGED <<made, answer, count, pending, stopped, alone, script>>

SendAsync(t) ==
    /\ Idle(Main)
    /\ hc
    /\ task[t] = "none"
    /\ made[t] < MaxRequests
    /\ task' = [task EXCEPT ![t] = "created"]
    /\ UNCHANGED <<vars, hc, opens, reopened, crash>>

\* onFinished comes to the script.
Deliver(t) ==
    /\ Idle(Main)
    /\ task[t] = "posted"
    /\ task' = [task EXCEPT ![t] = "none"]
    /\ UNCHANGED <<vars, hc, opens, reopened, crash>>

-----------------------------------------------------------------------------
(* The thread of a sendAsync() *)

\* It reads self->hc now, and calls request().
Begin(t) ==
    /\ task[t] = "created"
    /\ hc
    /\ Start(t)
    /\ task' = [task EXCEPT ![t] = "requesting"]
    /\ UNCHANGED <<hc, opens, reopened, crash>>

BeginWithoutClient(t) ==
    /\ task[t] = "created"
    /\ ~hc
    /\ crash' = "noClient"
    /\ UNCHANGED <<vars, script>>

\* Mutant: the event is posted before the request has left the client.
PostEarly(t) ==
    /\ task[t] = "requesting"
    /\ answer[t] # "none"
    /\ task' = [task EXCEPT ![t] = "posted"]
    /\ UNCHANGED <<vars, hc, opens, reopened, crash>>

\* Mutant: an exception other than system_error and error_code is not caught.
PostAnswered(t) ==
    /\ task[t] = "requesting"
    /\ pc[t] = "returned"
    /\ task' = [task EXCEPT ![t] = IF answer[t] = "none" THEN @ ELSE "posted"]
    /\ crash' = IF answer[t] = "none" THEN "nullResponse" ELSE crash
    /\ UNCHANGED <<vars, hc, opens, reopened>>

\* request() has returned a response, thrown its error, or an exception of a
\* handler: each way one event is posted.  A null response is read, too.
Post(t) ==
    /\ task[t] = "requesting"
    /\ Idle(t)
    /\ IF pc[t] = "returned" /\ answer[t] = "none"
       THEN crash' = "nullResponse" /\ UNCHANGED task
       ELSE task' = [task EXCEPT ![t] = "posted"] /\ UNCHANGED crash
    /\ UNCHANGED <<vars, hc, opens, reopened>>

-----------------------------------------------------------------------------
RequestStep ==
    /\ Handler \/ \E t \in Threads : Step(t)
    /\ UNCHANGED <<script, crash>>

MainStep ==
    \/ Open \/ OpenDeletes
    \/ SendWithoutClient \/ SendSync \/ SendSyncOther \/ SendSyncReturns
    \/ \E t \in Senders : SendAsync(t) \/ Deliver(t)

SenderStep(t) == Begin(t) \/ BeginWithoutClient(t) \/ Post(t)

KNext ==
    /\ crash = "no"
    /\ MainStep \/ RequestStep \/ \E t \in Senders : SenderStep(t)

KSpec == KInit /\ [][KNext]_allVars

\* Threads run, the main thread takes its events, and the requests that are sure
\* to end come to their handlers.  The others may not: without a timeout, which
\* is what a client has until the script sets one, a silent server keeps them.
KFairness ==
    /\ \A t \in Threads : WF_allVars(crash = "no" /\ Step(t) /\ UNCHANGED <<script, crash>>)
    /\ WF_allVars(crash = "no" /\ HeardHandler /\ UNCHANGED <<script, crash>>)
    /\ WF_allVars(crash = "no" /\ SendSyncReturns)
    /\ \A t \in Senders : /\ WF_allVars(crash = "no" /\ SenderStep(t))
                          /\ SF_allVars(crash = "no" /\ Deliver(t))

KFairSpec == KSpec /\ KFairness

-----------------------------------------------------------------------------
(* Properties *)

(* What a script has to do to be safe: open a client, and call open()      *)
(* again only after every onFinished has come; then nothing uses a client  *)
(* that is deleted (src/httpclient.cpp:52-62, 96-100, 133-137).  And a     *)
(* request comes back with a null response only after requests have        *)
(* overlapped, or one has come after another was left by an exception      *)
(* (src/client_http.hpp:198-256).  The null response of sendSync() with a  *)
(* content that is neither string nor octet is none of a request: that     *)
(* call always crashes (`noRequest`, src/httpclient.cpp:69-75).            *)
WaitingIsSafe ==
    /\ crash = "deletedClient" => reopened
    /\ crash = "nullResponse" => \E t \in Threads : ~alone[t]

(* Every sendAsync() comes to its event, whatever other requests, on the   *)
(* main thread too, do to the service they share (src/httpclient.cpp:      *)
(* 96-129), unless one of them waits for its server for ever: run() then   *)
(* returns to none of the callers, those with an answer among them.        *)
EventComes ==
    []<>(pending \subseteq Heard) =>
        \A t \in Senders : task[t] = "created" ~> task[t] = "none" \/ crash # "no"
=============================================================================
