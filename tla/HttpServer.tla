----------------------------- MODULE HttpServer -----------------------------
(***************************************************************************)
(* The life of a ServerBase (src/server_http.hpp) under KServer's          *)
(* startAsync() and stop() (src/httpserver.cpp): bind(), accept_and_run()  *)
(* on a detached thread, the chain of accepts, the set of connections that *)
(* stop() closes, and starting again.  What a session does on a connection *)
(* is ServerConnection's subject; here it only ends some time.             *)
(*                                                                         *)
(* A connection is the address of a Connection object; addresses are used  *)
(* again after delete.  The pool of io threads works while a runner is     *)
(* inside io_service::run() and the io_service is not stopped.             *)
(***************************************************************************)
EXTENDS Integers, FiniteSets

CONSTANTS
    Conns,      \* addresses of Connection objects
    Runners     \* threads of startAsync(): bounds the number of starts

VARIABLES
    runner,     \* [Runners]: where the thread is in ServerBase::start()
    acceptor,   \* "none", "bound", "listening" or "closed"
    ioStopped,  \* io_service->stopped()
    conn,       \* [Conns]: what the object is used for
    sock,       \* [Conns]: its socket
    set,        \* connections->set
    script,     \* where the script is in stop()
    lastCall,   \* its last call of startAsync() or stop()
    polite      \* history: it has not called stop() during a start, nor
                \* startAsync() before the last run had ended

vars == <<runner, acceptor, ioStopped, conn, sock, set, script, lastCall,
          polite>>

Init ==
    /\ runner = [k \in Runners |-> "idle"]
    /\ acceptor = "none"
    /\ ioStopped = FALSE
    /\ conn = [c \in Conns |-> "free"]
    /\ sock = [c \in Conns |-> "none"]
    /\ set = {}
    /\ script = "idle"
    /\ lastCall = "none"
    /\ polite = TRUE

\* start_stop_mutex is held by stop() until it returns.
MutexFree == script = "idle"

\* An exception that leaves a thread ends the process, be it one of the server's
\* own making or the answer of the operating system to its address or port.
Alive == \A k \in Runners : runner[k] \notin {"terminated", "refused"}
Serving == Alive /\ ~ioStopped /\ \E k \in Runners : runner[k] = "run"
Queued == {"queued ok", "queued aborted", "queued error"}

-----------------------------------------------------------------------------
(* The script *)

StartAsync(k) ==
    /\ Alive
    /\ script = "idle"
    /\ runner[k] = "idle"
    /\ polite' = (polite /\ \A j \in Runners : runner[j] \in {"idle", "done"})
    /\ runner' = [runner EXCEPT ![k] = "bind"]
    /\ lastCall' = "start"
    /\ UNCHANGED <<acceptor, ioStopped, conn, sock, set, script>>

\* The script calls stop(), at any time; a polite one not while a runner is
\* on its way to run().
StopCall ==
    /\ Alive
    /\ script = "idle"
    /\ lastCall' = "stop"
    /\ polite' = (polite /\ \A k \in Runners :
                             runner[k] \in {"idle", "run", "done"})

\* stop() without an acceptor does nothing.
StopEarly ==
    /\ StopCall
    /\ acceptor = "none"
    /\ UNCHANGED <<runner, acceptor, ioStopped, conn, sock, set, script>>

\* Mutant: the acceptor is cancelled, not closed.
StopAcceptorCancels ==
    /\ StopCall
    /\ acceptor # "none"
    /\ conn' = [c \in Conns |-> IF conn[c] = "accepting"
                                THEN "queued aborted" ELSE conn[c]]
    /\ script' = "closing"
    /\ UNCHANGED <<runner, acceptor, ioStopped, sock, set>>

\* stop() closes the acceptor, which aborts the pending accepts,
StopAcceptor ==
    /\ StopCall
    /\ acceptor # "none"
    /\ acceptor' = "closed"
    /\ conn' = [c \in Conns |-> IF conn[c] = "accepting"
                                THEN "queued aborted" ELSE conn[c]]
    /\ script' = "closing"
    /\ UNCHANGED <<runner, ioStopped, sock, set>>

\* then closes the connections of the set and clears it, under its mutex.
\* A connection whose accept handler has not run has no socket to close.
StopConnections ==
    /\ Alive
    /\ script = "closing"
    /\ sock' = [c \in Conns |-> IF c \in set /\ sock[c] = "open"
                                THEN "closed" ELSE sock[c]]
    /\ set' = {}
    /\ script' = "stopping"
    /\ UNCHANGED <<runner, acceptor, ioStopped, conn, lastCall, polite>>

\* Mutant: the io_service goes on.
StopIoServiceNot ==
    /\ Alive
    /\ script = "stopping"
    /\ script' = "idle"
    /\ UNCHANGED <<runner, acceptor, ioStopped, conn, sock, set, lastCall,
                   polite>>

\* Last, io_service->stop().
StopIoService ==
    /\ Alive
    /\ script = "stopping"
    /\ ioStopped' = TRUE
    /\ script' = "idle"
    /\ UNCHANGED <<runner, acceptor, conn, sock, set, lastCall,
                   polite>>

-----------------------------------------------------------------------------
(* ServerBase::start() on its detached thread.  An exception there ends    *)
(* the process.                                                            *)

\* bind(), under start_stop_mutex: opening an open acceptor throws.
Bind(k) ==
    /\ Alive
    /\ runner[k] = "bind"
    /\ MutexFree
    /\ IF acceptor \in {"none", "closed"}
       THEN acceptor' = "bound" /\ runner' = [runner EXCEPT ![k] = "listen"]
       ELSE runner' = [runner EXCEPT ![k] = "terminated"] /\ UNCHANGED acceptor
    /\ UNCHANGED <<ioStopped, conn, sock, set, script, lastCall,
                   polite>>

\* A bad address, a port in use, no socket: make_address(), open(), bind() or
\* listen() throws, whatever the script does.
Refuse(k) ==
    /\ Alive
    /\ \/ runner[k] = "bind" /\ MutexFree
       \/ runner[k] = "listen"
    /\ runner' = [runner EXCEPT ![k] = "refused"]
    /\ UNCHANGED <<acceptor, ioStopped, conn, sock, set, script, lastCall,
                   polite>>

\* acceptor->listen() throws on a closed acceptor.
Listen(k) ==
    /\ Alive
    /\ runner[k] = "listen"
    /\ IF acceptor # "closed"
       THEN acceptor' = "listening" /\ runner' = [runner EXCEPT ![k] = "accept"]
       ELSE runner' = [runner EXCEPT ![k] = "terminated"] /\ UNCHANGED acceptor
    /\ UNCHANGED <<ioStopped, conn, sock, set, script, lastCall,
                   polite>>

\* accept(): a new connection, in the set, waits for a peer.  On a closed
\* acceptor the operation fails at once, with another error than "aborted".
NewAccept(c, old) ==
    /\ conn[c] = "free"
    /\ conn' = [old EXCEPT ![c] = IF acceptor = "listening"
                                  THEN "accepting" ELSE "queued error"]
    /\ set' = set \cup {c}

FirstAccept(k) ==
    /\ Alive
    /\ runner[k] = "accept"
    /\ \E c \in Conns : NewAccept(c, conn)
    /\ runner' = [runner EXCEPT ![k] = "restart"]
    /\ UNCHANGED <<acceptor, ioStopped, sock, script, lastCall, polite>>

\* io_service restart, threads.clear() and run().  Clearing the threads of
\* a run that has not ended destroys joinable threads.
Run(k) ==
    /\ Alive
    /\ runner[k] = "restart"
    /\ IF \E j \in Runners : runner[j] = "run"
       THEN /\ runner' = [runner EXCEPT ![k] = "terminated"]
            /\ UNCHANGED ioStopped
       ELSE /\ runner' = [runner EXCEPT ![k] = "run"]
            /\ ioStopped' = FALSE
    /\ UNCHANGED <<acceptor, conn, sock, set, script, lastCall,
                   polite>>

\* run() returns when the io_service is stopped or out of work; the other
\* threads, which may be in a handler, are joined.
RunReturns(k) ==
    /\ Alive
    /\ runner[k] = "run"
    /\ \A c \in Conns : conn[c] # "dying"
    /\ ioStopped \/ \A c \in Conns : conn[c] = "free"
    /\ ioStopped' = TRUE
    /\ runner' = [runner EXCEPT ![k] = "done"]
    /\ UNCHANGED <<acceptor, conn, sock, set, script, lastCall,
                   polite>>

-----------------------------------------------------------------------------
(* The io threads and the peers *)

\* The operating system accepts a peer; the handler is queued.
PeerConnects(c) ==
    /\ Alive
    /\ conn[c] = "accepting"
    /\ acceptor = "listening"
    /\ conn' = [conn EXCEPT ![c] = "queued ok"]
    /\ sock' = [sock EXCEPT ![c] = "unassigned"]
    /\ UNCHANGED <<runner, acceptor, ioStopped, set, script, lastCall, polite>>

\* Mutant: the handler starts no further accept.
AcceptHandlerOnce(c) ==
    /\ Serving
    /\ conn[c] = "queued ok"
    /\ conn' = [conn EXCEPT ![c] = "live"]
    /\ sock' = [sock EXCEPT ![c] = "open"]
    /\ UNCHANGED <<runner, acceptor, ioStopped, set, script, lastCall, polite>>

\* The accept handler: start the next accept, then read from this peer.
AcceptHandler(c) ==
    /\ Serving
    /\ conn[c] = "queued ok"
    /\ \E d \in Conns \ {c} : NewAccept(d, [conn EXCEPT ![c] = "live"])
    /\ sock' = [sock EXCEPT ![c] = "open"]
    /\ UNCHANGED <<runner, acceptor, ioStopped, script, lastCall, polite>>

\* With another error than "aborted": start the next accept, drop this one.
AcceptFailed(c) ==
    /\ Serving
    /\ conn[c] = "queued error"
    /\ \E d \in Conns \ {c} : NewAccept(d, [conn EXCEPT ![c] = "dying"])
    /\ UNCHANGED <<runner, acceptor, ioStopped, sock, script, lastCall, polite>>

\* With operation_aborted the chain of accepts ends.
AcceptAborted(c) ==
    /\ Serving
    /\ conn[c] = "queued aborted"
    /\ conn' = [conn EXCEPT ![c] = "dying"]
    /\ UNCHANGED <<runner, acceptor, ioStopped, sock, set, script, lastCall,
                   polite>>

\* The last handler of the last session drops its shared_ptr.
SessionEnds(c) ==
    /\ Serving
    /\ conn[c] = "live"
    /\ conn' = [conn EXCEPT ![c] = "dying"]
    /\ UNCHANGED <<runner, acceptor, ioStopped, sock, set, script, lastCall,
                   polite>>

\* Mutant: the address stays in the set.
DeleterNoErase(c) ==
    /\ Alive
    /\ conn[c] = "dying"
    /\ conn' = [conn EXCEPT ![c] = "free"]
    /\ sock' = [sock EXCEPT ![c] = "none"]
    /\ UNCHANGED <<runner, acceptor, ioStopped, set, script, lastCall, polite>>

\* The deleter: erase the address from the set under its mutex, delete.
Deleter(c) ==
    /\ Alive
    /\ conn[c] = "dying"
    /\ set' = set \ {c}
    /\ conn' = [conn EXCEPT ![c] = "free"]
    /\ sock' = [sock EXCEPT ![c] = "none"]
    /\ UNCHANGED <<runner, acceptor, ioStopped, script, lastCall, polite>>

-----------------------------------------------------------------------------
Script == \/ \E k \in Runners : StartAsync(k)
          \/ StopEarly \/ StopAcceptor \/ StopConnections \/ StopIoService

RunnerStep(k) ==
    \/ Bind(k) \/ Refuse(k) \/ Listen(k)
    \/ FirstAccept(k) \/ Run(k) \/ RunReturns(k)

Handler(c) ==
    \/ AcceptHandler(c) \/ AcceptFailed(c) \/ AcceptAborted(c) \/ Deleter(c)

Next ==
    \/ Script
    \/ \E k \in Runners : RunnerStep(k)
    \/ \E c \in Conns : PeerConnects(c) \/ Handler(c) \/ SessionEnds(c)

Spec == Init /\ [][Next]_vars

(* Threads run, handlers that are ready are dispatched one by one, and a   *)
(* call of stop() returns.  Peers and sessions owe nothing.                *)
Fairness ==
    /\ WF_vars(StopConnections \/ StopIoService)
    /\ \A k \in Runners : WF_vars(RunnerStep(k))
    /\ \A c \in Conns : WF_vars(Handler(c))

FairSpec == Spec /\ Fairness

-----------------------------------------------------------------------------
(* Properties *)

TypeOK ==
    /\ runner \in [Runners -> {"idle", "bind", "listen", "accept", "restart",
                               "run", "done", "terminated", "refused"}]
    /\ acceptor \in {"none", "bound", "listening", "closed"}
    /\ ioStopped \in BOOLEAN
    /\ conn \in [Conns -> {"free", "accepting", "live", "dying"} \cup Queued]
    /\ sock \in [Conns -> {"none", "unassigned", "open", "closed"}]
    /\ \A c \in Conns : sock[c] = "open" => conn[c] \in {"live", "dying"}
    /\ set \subseteq Conns
    /\ script \in {"idle", "closing", "stopping"}
    /\ lastCall \in {"none", "start", "stop"}
    /\ polite \in BOOLEAN

(* stop() walks over raw pointers: none of them is ever the address of a   *)
(* deleted connection, although the set does not own its members and       *)
(* connections end on io threads at any time (src/server_http.hpp:483-488, *)
(* 525-532).                                                               *)
SetHoldsNoDeleted == \A c \in set : conn[c] # "free"

(* If the script is polite, its starts and stops do not end the process:   *)
(* no bind() meets an acceptor that is open, no listen() one that is       *)
(* closed, no run destroys joinable threads.  An address or a port that    *)
(* the operating system refuses still does (`refused`): nothing catches it *)
(* on the detached thread (src/httpserver.cpp:484).                        *)
NeverTerminates ==
    polite => \A k \in Runners : runner[k] # "terminated"

(* While the server listens, an accept is under way, or its handler is     *)
(* queued, or a runner is about to start one: no order of starts, stops    *)
(* and failed accepts breaks the chain (src/server_http.hpp:812-814).      *)
AcceptChainUnbroken ==
    acceptor = "listening" =>
        \/ \E c \in Conns :
              conn[c] \in {"accepting", "queued ok", "queued error"}
        \/ \E k \in Runners : runner[k] = "accept"

StopReturned == lastCall = "stop" /\ script = "idle"

PeerAccepted(c) == conn[c] = "accepting" /\ conn'[c] = "queued ok"

(* After stop() has returned no peer is accepted until the next start, if  *)
(* the script is polite.                                                   *)
NoPeerAfterStop ==
    [][\A c \in Conns : PeerAccepted(c) /\ polite => ~StopReturned]_vars

(* After stop() the run ends, if the script is polite: its threads leave   *)
(* the io_service.                                                         *)
StopEndsRun ==
    (script = "closing") ~> (~polite \/ \A k \in Runners : runner[k] # "run")

=============================================================================
