------------------------- MODULE HttpServer_proofs -------------------------
(***************************************************************************)
(* Proofs about HttpServer, for any number of connection objects and       *)
(* starts, and for a script that calls startAsync() and stop() in any      *)
(* order.  The first three facts do not need each other, except that all   *)
(* of them need the types; what only polite scripts are promised follows.  *)
(***************************************************************************)
EXTENDS HttpServer, TLAPS

States == {"free", "accepting", "live", "dying"} \cup Queued

IInv == TypeOK /\ SetHoldsNoDeleted /\ AcceptChainUnbroken

(* accept() puts a connection that is in use into the set, and starts an   *)
(* accept or queues its failure, whatever the handler did with its own     *)
(* connection before (`old`).                                              *)
LEMMA NewAcceptFacts ==
    ASSUME TypeOK, SetHoldsNoDeleted,
           NEW c \in Conns, NEW old \in [Conns -> States],
           \A d \in Conns : conn[d] # "free" => old[d] # "free",
           NewAccept(c, old)
    PROVE  /\ conn' \in [Conns -> States]
           /\ set' \subseteq Conns
           /\ SetHoldsNoDeleted'
           /\ conn'[c] \in {"accepting", "queued error"}
           /\ conn[c] = "free"
           /\ \A d \in Conns \ {c} : conn'[d] = old[d]
  BY DEF NewAccept, TypeOK, SetHoldsNoDeleted, States, Queued

(* The initial state satisfies the invariant: there is no connection yet.  *)
LEMMA InitInv == Init => IInv
  BY DEF Init, IInv, TypeOK, SetHoldsNoDeleted, AcceptChainUnbroken, Queued

(* The steps of the script. *)
LEMMA ScriptStep == IInv /\ Script => IInv'
<1> USE DEF IInv
<1>1. ASSUME IInv, NEW k \in Runners, StartAsync(k)
      PROVE  IInv'
  BY <1>1 DEF StartAsync, TypeOK, SetHoldsNoDeleted, AcceptChainUnbroken, Queued
<1>2. ASSUME IInv, StopEarly
      PROVE  IInv'
  BY <1>2 DEF StopEarly, StopCall, TypeOK, SetHoldsNoDeleted, AcceptChainUnbroken, Queued
<1>3. ASSUME IInv, StopAcceptor
      PROVE  IInv'
  BY <1>3 DEF StopAcceptor, StopCall, TypeOK, SetHoldsNoDeleted, AcceptChainUnbroken, Queued
<1>4. ASSUME IInv, StopConnections
      PROVE  IInv'
  BY <1>4 DEF StopConnections, TypeOK, SetHoldsNoDeleted, AcceptChainUnbroken, Queued
<1>5. ASSUME IInv, StopIoService
      PROVE  IInv'
  BY <1>5 DEF StopIoService, TypeOK, SetHoldsNoDeleted, AcceptChainUnbroken, Queued
<1> QED
  BY <1>1, <1>2, <1>3, <1>4, <1>5 DEF Script

(* The steps of the thread of a startAsync(). *)
LEMMA RunnerStepInv ==
    ASSUME IInv, NEW k \in Runners, RunnerStep(k)
    PROVE  IInv'
<1> USE DEF IInv
<1>1. CASE Bind(k)
  BY <1>1 DEF Bind, TypeOK, SetHoldsNoDeleted, AcceptChainUnbroken, Queued
<1>2. CASE Listen(k)
  BY <1>2 DEF Listen, TypeOK, SetHoldsNoDeleted, AcceptChainUnbroken, Queued
<1>3. CASE FirstAccept(k)
  <2>1. PICK c \in Conns : NewAccept(c, conn)
    BY <1>3 DEF FirstAccept
  <2>2. conn \in [Conns -> States]
    BY DEF TypeOK, States
  <2>3. /\ conn' \in [Conns -> States]
        /\ set' \subseteq Conns
        /\ SetHoldsNoDeleted'
        /\ conn'[c] \in {"accepting", "queued error"}
        /\ conn[c] = "free"
        /\ \A d \in Conns \ {c} : conn'[d] = conn[d]
    BY <2>1, <2>2, NewAcceptFacts
  <2>4. TypeOK'
    BY <1>3, <2>3 DEF FirstAccept, TypeOK, States
  <2>5. AcceptChainUnbroken'
    BY <2>3 DEF AcceptChainUnbroken
  <2> QED
    BY <2>3, <2>4, <2>5
<1>4. CASE Run(k)
  BY <1>4 DEF Run, TypeOK, SetHoldsNoDeleted, AcceptChainUnbroken, Queued
<1>5. CASE RunReturns(k)
  BY <1>5 DEF RunReturns, TypeOK, SetHoldsNoDeleted, AcceptChainUnbroken, Queued
<1>6. CASE Refuse(k)
  BY <1>6 DEF Refuse, TypeOK, SetHoldsNoDeleted, AcceptChainUnbroken, Queued
<1> QED
  BY <1>1, <1>2, <1>3, <1>4, <1>5, <1>6 DEF RunnerStep

(* The steps of the io threads, and of the peers. *)
LEMMA ConnStepInv ==
    ASSUME IInv, NEW c \in Conns, PeerConnects(c) \/ Handler(c) \/ SessionEnds(c)
    PROVE  IInv'
<1> USE DEF IInv
<1>1. CASE PeerConnects(c)
  BY <1>1 DEF PeerConnects, TypeOK, SetHoldsNoDeleted, AcceptChainUnbroken, Queued
<1>2. CASE AcceptHandler(c) \/ AcceptFailed(c)
  <2>1. PICK d \in Conns \ {c}, s \in {"live", "dying"} :
            NewAccept(d, [conn EXCEPT ![c] = s])
    BY <1>2 DEF AcceptHandler, AcceptFailed
  <2> DEFINE old == [conn EXCEPT ![c] = s]
  <2>2. old \in [Conns -> States]
    BY DEF TypeOK, States, Queued
  <2>3. \A e \in Conns : conn[e] # "free" => old[e] # "free"
    BY DEF TypeOK
  <2>4. /\ conn' \in [Conns -> States]
        /\ set' \subseteq Conns
        /\ SetHoldsNoDeleted'
        /\ conn'[d] \in {"accepting", "queued error"}
        /\ conn[d] = "free"
        /\ \A e \in Conns \ {d} : conn'[e] = old[e]
    <3> HIDE DEF old
    <3> QED
      BY <2>1, <2>2, <2>3, NewAcceptFacts DEF old
  <2>5. TypeOK'
    <3>1. conn'[c] = s /\ \A e \in Conns \ {c, d} : conn'[e] = conn[e]
      BY <2>4 DEF TypeOK
    <3> QED
      BY <1>2, <2>4, <3>1 DEF AcceptHandler, AcceptFailed, TypeOK, States, Queued
  <2>6. AcceptChainUnbroken'
    BY <2>1, <2>4 DEF AcceptChainUnbroken
  <2> QED
    BY <2>4, <2>5, <2>6
<1>3. CASE AcceptAborted(c)
  BY <1>3 DEF AcceptAborted, TypeOK, SetHoldsNoDeleted, AcceptChainUnbroken, Queued
<1>4. CASE SessionEnds(c)
  BY <1>4 DEF SessionEnds, TypeOK, SetHoldsNoDeleted, AcceptChainUnbroken, Queued
<1>5. CASE Deleter(c)
  BY <1>5 DEF Deleter, TypeOK, SetHoldsNoDeleted, AcceptChainUnbroken, Queued
<1> QED
  BY <1>1, <1>2, <1>3, <1>4, <1>5 DEF Handler

(* A stuttering step changes nothing the invariant speaks about. *)
LEMMA StutterInv == IInv /\ UNCHANGED vars => IInv'
  BY DEF IInv, vars, TypeOK, SetHoldsNoDeleted, AcceptChainUnbroken

(* IInv is an invariant of the life of a server. *)
THEOREM Invariance == Spec => []IInv
<1>1. IInv /\ [Next]_vars => IInv'
  BY ScriptStep, RunnerStepInv, ConnStepInv, StutterInv DEF Next
<1> QED
  BY InitInv, <1>1, PTL DEF Spec

(* Every variable keeps its type, and only a connection whose accept       *)
(* handler has run has an open socket.                                     *)
THEOREM TypeCorrect == Spec => []TypeOK
<1>1. IInv => TypeOK
  BY DEF IInv
<1> QED
  BY Invariance, <1>1, PTL

(* stop() never walks over the address of a deleted connection.            *)
THEOREM SetIsSound == Spec => []SetHoldsNoDeleted
<1>1. IInv => SetHoldsNoDeleted
  BY DEF IInv
<1> QED
  BY Invariance, <1>1, PTL

(* A listening server always has an accept under way or about to be.       *)
THEOREM ChainNeverBreaks == Spec => []AcceptChainUnbroken
<1>1. IInv => AcceptChainUnbroken
  BY DEF IInv
<1> QED
  BY Invariance, <1>1, PTL

(***************************************************************************)
(* A polite script, as long as no address and no port has been refused.    *)
(***************************************************************************)

Active(k) == runner[k] \in {"bind", "listen", "accept", "restart", "run"}

\* Where the acceptor is, which tells what the next bind(), listen() or peer
\* will find: the one runner that is active, or the last stop(), says it.
AcceptorFollows ==
    /\ script # "idle" => lastCall = "stop" /\ acceptor = "closed"
    /\ lastCall = "stop" => /\ acceptor \in {"none", "closed"}
                            /\ \A k \in Runners : runner[k] \in {"idle", "run", "done"}
    /\ \A j, k \in Runners : Active(j) /\ Active(k) => j = k
    /\ (\A k \in Runners : ~Active(k)) => acceptor \in {"none", "closed"}
    /\ \A k \in Runners :
          /\ runner[k] = "bind" => acceptor \in {"none", "closed"}
          /\ runner[k] = "listen" => acceptor = "bound"
          /\ runner[k] \in {"accept", "restart"} => acceptor = "listening"
          /\ runner[k] = "run" => /\ acceptor \in {"listening", "closed"}
                                  /\ ioStopped => acceptor = "closed"

PInv == polite => NeverTerminates /\ (Alive => AcceptorFollows)

USE DEF Active, Alive, NeverTerminates

\* The script's calls: a polite one starts when no runner is active, and stops
\* when none is on its way to run().
LEMMA PoliteScript == IInv /\ PInv /\ Script => PInv'
<1> SUFFICES ASSUME IInv, PInv, Script, polite' PROVE AcceptorFollows'
  BY DEF PInv, Script, StartAsync, StopEarly, StopAcceptor, StopCall,
         StopConnections, StopIoService, IInv, TypeOK
<1>0. polite /\ Alive
  BY DEF Script, StartAsync, StopEarly, StopAcceptor, StopCall, StopConnections,
         StopIoService
<1> USE <1>0 DEF IInv, PInv, TypeOK, AcceptorFollows
<1>1. ASSUME NEW k \in Runners, StartAsync(k) PROVE AcceptorFollows'
  <2>1. \A j \in Runners : runner[j] \in {"idle", "done"}
    BY <1>1 DEF StartAsync
  <2>2. acceptor \in {"none", "closed"} /\ acceptor' = acceptor
    BY <1>1, <2>1 DEF StartAsync
  <2>3. runner' = [runner EXCEPT ![k] = "bind"] /\ lastCall' = "start" /\ script' = "idle"
    BY <1>1 DEF StartAsync
  <2>4. \A j \in Runners \ {k} : runner'[j] \in {"idle", "done"}
    BY <2>1, <2>3
  <2>5. runner'[k] = "bind"
    BY <2>3
  <2> QED
    BY <2>2, <2>3, <2>4, <2>5
<1>2. CASE StopEarly
  BY <1>2 DEF StopEarly, StopCall
<1>3. CASE StopAcceptor
  BY <1>3 DEF StopAcceptor, StopCall
<1>4. CASE StopConnections
  BY <1>4 DEF StopConnections
<1>5. CASE StopIoService
  BY <1>5 DEF StopIoService
<1> QED
  BY <1>1, <1>2, <1>3, <1>4, <1>5 DEF Script

\* The one active runner goes on; a run that is out of work has no acceptor,
\* because a listening one has an accept under way.
LEMMA PoliteRunner ==
    ASSUME IInv, PInv, NEW k \in Runners, RunnerStep(k) PROVE PInv'
<1> SUFFICES ASSUME polite'
             PROVE  NeverTerminates' /\ (Alive' => AcceptorFollows')
  BY DEF PInv
<1>0. polite /\ Alive
  BY DEF RunnerStep, Bind, Refuse, Listen, FirstAccept, Run, RunReturns
<1> USE <1>0 DEF IInv, PInv, TypeOK, AcceptorFollows
<1>1. CASE Bind(k)
  BY <1>1 DEF Bind, MutexFree
<1>2. CASE Listen(k)
  BY <1>2 DEF Listen
<1>3. CASE FirstAccept(k)
  BY <1>3 DEF FirstAccept
<1>4. CASE Run(k)
  BY <1>4 DEF Run
<1>5. CASE RunReturns(k)
  <2>1. acceptor = "closed"
    <3>1. CASE \A c \in Conns : conn[c] = "free"
      BY <1>5, <3>1 DEF RunReturns, AcceptChainUnbroken
    <3>2. CASE ioStopped
      BY <1>5, <3>2 DEF RunReturns
    <3> QED
      BY <1>5, <3>1, <3>2 DEF RunReturns
  <2> QED
    BY <1>5, <2>1 DEF RunReturns
<1>6. CASE Refuse(k)
  BY <1>6 DEF Refuse
<1> QED
  BY <1>1, <1>2, <1>3, <1>4, <1>5, <1>6 DEF RunnerStep

\* The io threads and the peers leave all this alone.
LEMMA PoliteConn ==
    ASSUME PInv, UNCHANGED <<runner, acceptor, ioStopped, script, lastCall, polite>>
    PROVE  PInv'
  BY DEF PInv, AcceptorFollows

(* Both invariants, for every script. *)
THEOREM PoliteInvariance == Spec => [](IInv /\ PInv)
<1>1. Init => PInv
  BY DEF Init, PInv, AcceptorFollows
<1>2. IInv /\ PInv /\ [Next]_vars => PInv'
  <2> SUFFICES ASSUME IInv, PInv, [Next]_vars PROVE PInv'
    OBVIOUS
  <2>1. CASE Script
    BY <2>1, PoliteScript
  <2>2. ASSUME NEW k \in Runners, RunnerStep(k) PROVE PInv'
    BY <2>2, PoliteRunner
  <2>3. ASSUME NEW c \in Conns, PeerConnects(c) \/ Handler(c) \/ SessionEnds(c)
        PROVE  PInv'
    BY <2>3, PoliteConn
    DEF PeerConnects, Handler, AcceptHandler, AcceptFailed, AcceptAborted, Deleter,
        SessionEnds
  <2>4. CASE UNCHANGED vars
    BY <2>4, PoliteConn DEF vars
  <2> QED
    BY <2>1, <2>2, <2>3, <2>4 DEF Next
<1> QED
  BY Invariance, <1>1, <1>2, PTL DEF Spec

(* A polite script's starts and stops never make a detached thread throw,  *)
(* or destroy threads that can be joined; an address or a port that is     *)
(* refused is another matter (Refuse).                                     *)
THEOREM PoliteNeverTerminates == Spec => []NeverTerminates
<1>1. PInv => NeverTerminates
  BY DEF PInv, NeverTerminates
<1> QED
  BY PoliteInvariance, <1>1, PTL

(* After stop() no peer is accepted, if the script is polite.              *)
THEOREM PoliteNoPeer == Spec => NoPeerAfterStop
<1>1. IInv /\ PInv /\ [Next]_vars
         => [\A c \in Conns : PeerAccepted(c) /\ polite => ~StopReturned]_vars
  <2> SUFFICES ASSUME IInv, PInv, Next, polite, StopReturned,
                      NEW c \in Conns, PeerAccepted(c)
               PROVE  FALSE
    OBVIOUS
  <2>1. PeerConnects(c)
    <3>1. ASSUME Script PROVE FALSE
      BY <3>1 DEF Script, StartAsync, StopEarly, StopAcceptor, StopConnections,
                  StopIoService, PeerAccepted, IInv, TypeOK, Queued
    <3>2. ASSUME NEW k \in Runners, RunnerStep(k) PROVE FALSE
      BY <3>2 DEF RunnerStep, Bind, Refuse, Listen, FirstAccept, Run, RunReturns, NewAccept,
                  PeerAccepted, IInv, TypeOK, Queued
    <3>3. ASSUME NEW d \in Conns, Handler(d) \/ SessionEnds(d) PROVE FALSE
      BY <3>3 DEF Handler, AcceptHandler, AcceptFailed, AcceptAborted, Deleter,
                  SessionEnds, NewAccept, PeerAccepted, IInv, TypeOK, Queued
    <3>4. ASSUME NEW d \in Conns, PeerConnects(d) PROVE d = c
      BY <3>4 DEF PeerConnects, PeerAccepted, IInv, TypeOK
    <3> QED
      BY <3>1, <3>2, <3>3, <3>4 DEF Next
  <2>2. acceptor # "listening"
    BY <2>1 DEF PInv, AcceptorFollows, StopReturned, PeerConnects
  <2> QED
    BY <2>1, <2>2 DEF PeerConnects
<1> QED
  BY PoliteInvariance, <1>1, PTL DEF Spec, NoPeerAfterStop
=============================================================================
