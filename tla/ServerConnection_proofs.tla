---------------------- MODULE ServerConnection_proofs ----------------------
(***************************************************************************)
(* The safety of a server's connection, for any number of requests and     *)
(* chunks, any timeouts and whatever the peer sends.                       *)
(***************************************************************************)
EXTENDS ServerConnection, TLAPS

Body == {"content", "chunkLine", "chunkBody"}

\* A request's header, or more of it, has been read and nobody has it yet.
InHand == phase \in Body \/ (phase = "header" /\ result = "ok")

\* How far the counters are apart in each phase.
Ledger ==
    /\ phase \in {"accepted", "handshake"} => read = 0
    /\ phase = "header" /\ result # "ok" => read = handled
    /\ InHand => read = handled + 1
    /\ phase = "header" \/ phase \in Body => handled = answered
    /\ phase = "app" => read = handled /\ handled = answered + 1
    /\ phase = "write" =>
          /\ read = handled
          /\ result = "ok" => handled = answered
          /\ result # "ok" => handled = answered + 1

\* on_error may have been called for the request that a session works on, once.
Reports ==
    /\ phase # "gone" => reported <= 1
    /\ InHand \/ phase = "app" => reported = 0

\* What is known of a request whose content is awaited or has arrived.
Arrived ==
    /\ phase = "header" /\ result = "ok" /\ request.body \in {"none", "inBuffer"}
          => received = "all"
    /\ phase = "content" /\ result = "ok" => received = "all"
    /\ phase \in Body => request.wellFormed

IInv == TypeOK /\ Ledger /\ Reports /\ Arrived /\ TimerGuardsEveryWait /\ NoSilentLoss

USE DEF InHand, Body, Waits, Reads

LEMMA InitInv == Init => IInv
<1> SUFFICES ASSUME Init PROVE IInv
  OBVIOUS
<1>1. TypeOK
  <2>1. phase \in Waits \cup {"accepted", "app", "gone"}
    BY DEF Init
  <2>2. /\ result \in {"pending", "ok", "error"}
        /\ sock \in {"open", "closed"}
        /\ timer \in {"null", "armed", "done"}
    BY DEF Init
  <2>3. /\ expiry \in BOOLEAN /\ autoClose \in BOOLEAN /\ thrown \in BOOLEAN
        /\ open \in BOOLEAN /\ running \in BOOLEAN
    BY DEF Init
  <2>4. /\ request \in Requests \cup {NoRequest}
        /\ received \in {"header", "all"}
    BY DEF Init
  <2>5. /\ chunks \in 0 .. MaxChunks
        /\ read \in 0 .. MaxRequests
        /\ handled \in 0 .. read
        /\ answered \in 0 .. handled
        /\ reported \in 0 .. 2
    BY BoundsAssumption DEF Init
  <2> QED
    BY <2>1, <2>2, <2>3, <2>4, <2>5 DEF TypeOK
<1>2. Ledger /\ Reports /\ Arrived
  BY DEF Init, Ledger, Reports, Arrived
<1>3. TimerGuardsEveryWait /\ NoSilentLoss
  BY DEF Init, TimerGuardsEveryWait, NoSilentLoss
<1> QED
  BY <1>1, <1>2, <1>3 DEF IInv

(***************************************************************************)
(* What the read handlers do with a session, each way once.                *)
(***************************************************************************)

\* What no read handler changes.
kept == <<sock, expiry, request, received, chunks, autoClose, server, read, answered>>

\* They end the session: without a lock, with a full buffer, after an error.
LEMMA Leaving ==
    ASSUME IInv, phase \in Waits, result # "pending",
           Refused \/ BufferFull \/ Failed,
           UNCHANGED kept, UNCHANGED <<handled, thrown>>,
           phase # "write"
    PROVE  IInv'
<1> USE DEF IInv, TypeOK, Ledger, Reports, Arrived, TimerGuardsEveryWait, NoSilentLoss,
            server, kept
<1>1. CASE Refused
  BY <1>1 DEF Refused, Drop, CancelTimeout
<1>2. CASE BufferFull \/ Failed
  BY <1>2 DEF BufferFull, Failed, Report, Drop, CancelTimeout
<1> QED
  BY <1>1, <1>2

\* They wait for more of the request.
LEMMA Awaiting ==
    ASSUME IInv, InHand, request.wellFormed,
           NEW next \in Body, Await(next, TimeoutContent),
           UNCHANGED kept, UNCHANGED <<handled, thrown, reported>>
    PROVE  IInv'
<1> USE DEF IInv, TypeOK, Ledger, Reports, Arrived, TimerGuardsEveryWait, NoSilentLoss,
            server, kept
<1> QED
  BY TimeoutAssumption DEF Await, SetTimeout

\* They call the request's handler, or drop a request that has none.
LEMMA Finding ==
    ASSUME IInv, InHand, open, FindResource, UNCHANGED kept
    PROVE  IInv'
<1> USE TimeoutAssumption
    DEF IInv, TypeOK, Ledger, Reports, Arrived, TimerGuardsEveryWait, NoSilentLoss,
        server, kept
<1>1. CASE ~request.route /\ Drop /\ UNCHANGED <<handled, thrown, reported>>
  BY <1>1 DEF Drop, CancelTimeout
<1>2. CASE /\ handled' = handled + 1
           /\ phase' = "app" /\ result' = "pending"
           /\ timer' = SetTimeout(TimeoutContent)
           /\ UNCHANGED <<thrown, reported>>
  BY <1>2 DEF SetTimeout
<1>3. CASE /\ handled' = handled + 1
           /\ thrown' = TRUE
           /\ reported' = reported + 1
           /\ Await("write", TimeoutContent)
  BY <1>3 DEF Await, SetTimeout
<1> QED
  BY <1>1, <1>2, <1>3 DEF FindResource, CallHandler

LEMMA NextInv == IInv /\ [Next]_vars => IInv'
<1> USE TimeoutAssumption, BoundsAssumption, RequestsAssumption
    DEF IInv, TypeOK, Ledger, Reports, Arrived, TimerGuardsEveryWait, NoSilentLoss,
        server, counters
<1> SUFFICES ASSUME IInv, [Next]_vars
             PROVE  IInv'
  OBVIOUS
<1>1. CASE UNCHANGED vars
  BY <1>1 DEF vars
<1>2. CASE TimerExpires
  BY <1>2 DEF TimerExpires
<1>3. CASE TimerHandler
  <2>1. TypeOK'
    BY <1>3 DEF TimerHandler
  <2>2. Ledger' /\ Reports' /\ Arrived'
    BY <1>3 DEF TimerHandler
  <2>3. TimerGuardsEveryWait' /\ NoSilentLoss'
    BY <1>3 DEF TimerHandler
  <2> QED
    BY <2>1, <2>2, <2>3
<1>4. CASE OperationFails
  BY <1>4 DEF OperationFails
<1>5. CASE HeaderArrives
  <2>1. TypeOK'
    <3>1. request' \in Requests /\ received' \in {"header", "all"}
      BY <1>5 DEF HeaderArrives
    <3>2. /\ read' \in 0 .. MaxRequests /\ handled' \in 0 .. read'
          /\ answered' \in 0 .. handled' /\ reported' \in 0 .. 2
          /\ chunks' \in 0 .. MaxChunks
      BY <1>5 DEF HeaderArrives
    <3> QED
      BY <1>5, <3>1, <3>2 DEF HeaderArrives
  <2>2. Ledger' /\ Reports' /\ Arrived'
    BY <1>5 DEF HeaderArrives
  <2>3. TimerGuardsEveryWait' /\ NoSilentLoss'
    BY <1>5 DEF HeaderArrives
  <2> QED
    BY <2>1, <2>2, <2>3
<1>6. CASE OperationSucceeds
  BY <1>6 DEF OperationSucceeds
<1>7. CASE ChunkLineArrives
  BY <1>7 DEF ChunkLineArrives
<1>8. CASE Accepted
  BY <1>8 DEF Accepted, Await, Drop, SetTimeout, CancelTimeout
<1>9. CASE HandshakeDone
  BY <1>9 DEF HandshakeDone, Refused, Failed, Report, ReadRequest, Await, Drop,
              SetTimeout, CancelTimeout
<1>10. CASE Send
  BY <1>10 DEF Send, SetTimeout
<1>11. CASE SetAutoClose
  BY <1>11 DEF SetAutoClose
<1>12. CASE ReleaseResponse
  BY <1>12 DEF ReleaseResponse, Await, SetTimeout
<1>13. CASE WriteDone
  BY <1>13 DEF WriteDone, Refused, Failed, Report, ReadRequest, Await, Drop,
               SetTimeout, CancelTimeout
<1>14. CASE StopCloses
  BY <1>14 DEF StopCloses
<1>15. CASE StopIoService
  <2>1. TypeOK'
    <3>1. running' \in BOOLEAN
      BY <1>15 DEF StopIoService
    <3>2. /\ UNCHANGED <<phase, result, sock, timer, expiry, request, received>>
          /\ UNCHANGED <<chunks, autoClose, read, handled, answered, thrown, reported>>
          /\ UNCHANGED open
      BY <1>15 DEF StopIoService
    <3> QED
      BY <3>1, <3>2
  <2>2. Ledger' /\ Reports' /\ Arrived'
    BY <1>15 DEF StopIoService
  <2>3. TimerGuardsEveryWait' /\ NoSilentLoss'
    BY <1>15 DEF StopIoService
  <2> QED
    BY <2>1, <2>2, <2>3
<1>16. CASE StopRunner
  <2>1. TypeOK'
    <3>1. open' \in BOOLEAN
      BY <1>16 DEF StopRunner
    <3>2. /\ UNCHANGED <<phase, result, sock, timer, expiry, request, received>>
          /\ UNCHANGED <<chunks, autoClose, read, handled, answered, thrown, reported>>
          /\ UNCHANGED running
      BY <1>16 DEF StopRunner
    <3> QED
      BY <3>1, <3>2
  <2>2. Ledger' /\ Reports' /\ Arrived'
    BY <1>16 DEF StopRunner
  <2>3. TimerGuardsEveryWait' /\ NoSilentLoss'
    BY <1>16 DEF StopRunner
  <2> QED
    BY <2>1, <2>2, <2>3
<1> HIDE DEF IInv, TypeOK, Ledger, Reports, Arrived, TimerGuardsEveryWait, NoSilentLoss
<1>a. (phase \in Body => request.wellFormed) /\ request \in Requests \cup {NoRequest}
  BY DEF IInv, TypeOK, Arrived
<1>17. CASE HeaderDone
  <2>1. UNCHANGED kept
    BY <1>17 DEF HeaderDone, kept
  <2>2. CASE (Refused \/ BufferFull \/ Failed) /\ UNCHANGED <<handled, thrown>>
    BY <1>17, <2>1, <2>2, Leaving DEF HeaderDone
  <2>3. CASE open /\ result = "ok"
    <3>1. CASE Report /\ UNCHANGED <<handled, thrown>>
      BY <2>1, <2>3, <3>1, <1>17, Leaving DEF BufferFull, HeaderDone
    <3>2. CASE request.wellFormed /\ FindResource
      BY <2>1, <2>3, <3>2, <1>17, Finding DEF HeaderDone
    <3>3. CASE /\ request.wellFormed
               /\ Await("content", TimeoutContent) \/ ReadChunkLine
               /\ UNCHANGED <<handled, thrown, reported>>
      BY <2>1, <2>3, <3>3, <1>17, Awaiting DEF HeaderDone, ReadChunkLine
    <3>4. CASE ~request.wellFormed \/ request.body = "badLength"
      BY <2>3, <3>1, <3>4, <1>17 DEF HeaderDone, Refused, BufferFull, Failed
    <3>5. CASE request.wellFormed /\ request.body \in {"none", "inBuffer"}
      BY <2>3, <3>1, <3>2, <3>5, <1>17 DEF HeaderDone, Refused, BufferFull, Failed
    <3>6. CASE request.wellFormed /\ request.body \in {"toRead", "chunked"}
      BY <2>3, <3>1, <3>3, <3>6, <1>17 DEF HeaderDone, Refused, BufferFull, Failed
    <3>7. request.body \in BodyKinds
      BY <1>a DEF NoRequest, BodyKinds
    <3> QED
      BY <3>4, <3>5, <3>6, <3>7 DEF BodyKinds
  <2> QED
    BY <1>17, <2>2, <2>3 DEF HeaderDone
<1>18. CASE ContentDone
  <2>1. UNCHANGED kept
    BY <1>18 DEF ContentDone, kept
  <2>2. CASE (Refused \/ BufferFull \/ Failed) /\ UNCHANGED <<handled, thrown>>
    BY <1>18, <2>1, <2>2, Leaving DEF ContentDone
  <2>3. CASE open /\ FindResource
    BY <1>18, <2>1, <2>3, Finding DEF ContentDone
  <2> QED
    BY <1>18, <2>2, <2>3 DEF ContentDone
<1>19. CASE ChunkLineDone
  <2>1. UNCHANGED kept
    BY <1>19 DEF ChunkLineDone, kept
  <2>2. CASE (Refused \/ BufferFull \/ Failed) /\ UNCHANGED <<handled, thrown>>
    BY <1>19, <2>1, <2>2, Leaving DEF ChunkLineDone
  <2>3. CASE open /\ Report /\ UNCHANGED <<handled, thrown>>
    BY <1>19, <2>1, <2>3, Leaving DEF ChunkLineDone, BufferFull
  <2>4. CASE Await("chunkBody", TimeoutContent) /\ UNCHANGED <<handled, thrown, reported>>
    BY <1>19, <2>1, <2>4, <1>a, Awaiting DEF ChunkLineDone
  <2>5. CASE open /\ FindResource
    BY <1>19, <2>1, <2>5, Finding DEF ChunkLineDone
  <2>6. CASE ReadChunkLine /\ UNCHANGED <<handled, thrown, reported>>
    BY <1>19, <2>1, <2>6, <1>a, Awaiting DEF ChunkLineDone, ReadChunkLine
  <2> QED
    BY <1>19, <2>2, <2>3, <2>4, <2>5, <2>6 DEF ChunkLineDone, ChunkComplete
<1>20. CASE ChunkBodyDone
  <2>1. UNCHANGED kept
    BY <1>20 DEF ChunkBodyDone, kept
  <2>2. CASE (Refused \/ BufferFull \/ Failed) /\ UNCHANGED <<handled, thrown>>
    BY <1>20, <2>1, <2>2, Leaving DEF ChunkBodyDone
  <2>3. CASE open /\ FindResource
    BY <1>20, <2>1, <2>3, Finding DEF ChunkBodyDone
  <2>4. CASE ReadChunkLine /\ UNCHANGED <<handled, thrown, reported>>
    BY <1>20, <2>1, <2>4, <1>a, Awaiting DEF ChunkBodyDone, ReadChunkLine
  <2> QED
    BY <1>20, <2>2, <2>3, <2>4 DEF ChunkBodyDone, ChunkComplete
<1> QED
  BY <1>1, <1>2, <1>3, <1>4, <1>5, <1>6, <1>7, <1>8, <1>9, <1>10, <1>11, <1>12,
     <1>13, <1>14, <1>15, <1>16, <1>17, <1>18, <1>19, <1>20
     DEF Next, Handler, Peer, Owner

\* The inductive invariant.
THEOREM Invariant == Spec => []IInv
  BY InitInv, NextInv, PTL DEF Spec

\* Type correctness; the counters of requests read, handled and answered are in
\* that order, and on_error is called twice for a request at most.
THEOREM TypeCorrect == Spec => []TypeOK
<1>1. IInv => TypeOK
  BY DEF IInv
<1> QED
  BY <1>1, Invariant, PTL

\* Every wait has its timer (src/server_http.hpp:309-323), whatever the
\* timeouts are.
THEOREM WaitsAreGuarded == Spec => []TimerGuardsEveryWait
<1>1. IInv => TimerGuardsEveryWait
  BY DEF IInv
<1> QED
  BY <1>1, Invariant, PTL

\* A request whose connection goes was answered, or on_error has been told of
\* it, or it had no handler (src/server_http.hpp:541-779).
THEOREM LossIsTold == Spec => []NoSilentLoss
<1>1. IInv => NoSilentLoss
  BY DEF IInv
<1> QED
  BY <1>1, Invariant, PTL

\* The requests of a connection follow one another (src/server_http.hpp:751-779).
THEOREM RequestsFollow == Spec => []OneRequestAtATime
<1>1. IInv => OneRequestAtATime
  BY DEF IInv, TypeOK, Ledger, OneRequestAtATime
<1> QED
  BY <1>1, Invariant, PTL

(***************************************************************************)
(* A handler is called by a step that knows its request to be whole, and   *)
(* under a lock of the ScopeRunner.                                        *)
(***************************************************************************)
LEMMA CallsAreWhole ==
    ASSUME IInv, Next, handled' # handled
    PROVE  open /\ received = "all" /\ request.wellFormed
<1>1. HeaderDone \/ ContentDone \/ ChunkLineDone \/ ChunkBodyDone
  BY DEF Next, Handler, Peer, Owner, TimerExpires, TimerHandler, OperationFails,
         HeaderArrives, OperationSucceeds, ChunkLineArrives, Accepted,
         HandshakeDone, WriteDone, Send, SetAutoClose, ReleaseResponse, StopCloses,
         StopIoService, StopRunner, counters
<1>2. CASE HeaderDone
  <2>1. /\ open /\ result = "ok" /\ phase = "header" /\ request.wellFormed
        /\ request.body # "badLength"
    BY <1>2 DEF HeaderDone
  <2>2. request.body \in {"none", "inBuffer", "toRead", "chunked"}
    BY <2>1, RequestsAssumption DEF IInv, TypeOK, NoRequest, BodyKinds
  <2>3. request.body \in {"none", "inBuffer"}
    BY <1>2, <2>1, <2>2 DEF HeaderDone
  <2> QED
    BY <2>1, <2>3 DEF IInv, Arrived
<1>3. CASE ContentDone
  BY <1>3 DEF ContentDone, IInv, Arrived
<1>4. CASE ChunkLineDone
  BY <1>4 DEF ChunkLineDone, ChunkComplete, IInv, Arrived
<1>5. CASE ChunkBodyDone
  BY <1>5 DEF ChunkBodyDone, ChunkComplete, IInv, Arrived
<1> QED
  BY <1>1, <1>2, <1>3, <1>4, <1>5

\* No handler is called for a part of a request (src/server_http.hpp:585-713).
THEOREM HandlersSeeAll == Spec => HandlerSeesWholeRequest
<1>1. IInv /\ [Next]_vars =>
        [handled' > handled => received = "all" /\ request.wellFormed]_vars
  <2> SUFFICES ASSUME IInv, Next, handled' > handled
               PROVE  received = "all" /\ request.wellFormed
    OBVIOUS
  <2>1. handled' # handled
    BY DEF IInv, TypeOK
  <2> QED
    BY <2>1, CallsAreWhole
<1> QED
  BY <1>1, Invariant, PTL DEF Spec, HandlerSeesWholeRequest

\* After ~ServerBase() neither a handler nor on_error is called
\* (src/server_http.hpp:496-499).
THEOREM SilentAfterStop == Spec => NothingCalledAfterStop
<1>1. IInv /\ [Next]_vars => [~open => handled' = handled /\ reported' <= reported]_vars
  <2> SUFFICES ASSUME IInv, Next, ~open
               PROVE  handled' = handled /\ reported' <= reported
    OBVIOUS
  <2>1. handled' = handled
    BY CallsAreWhole
  <2>2. reported \in 0 .. 2
    BY DEF IInv, TypeOK
  <2>3. reported' = reported \/ reported' = 0
    BY DEF Next, Handler, Peer, Owner, TimerExpires, TimerHandler, OperationFails,
           HeaderArrives, OperationSucceeds, ChunkLineArrives, Accepted,
           HandshakeDone, HeaderDone, ContentDone, ChunkLineDone, ChunkBodyDone,
           WriteDone, Refused, BufferFull, Failed, Send, SetAutoClose,
           ReleaseResponse, StopCloses, StopIoService, StopRunner
  <2> QED
    BY <2>1, <2>2, <2>3
<1> QED
  BY <1>1, Invariant, PTL DEF Spec, NothingCalledAfterStop
(***************************************************************************)
(* The connection keeps its promise.  What Leaving, Awaiting and Finding   *)
(* are about ends the request's way, leaves it where it is, and has it     *)
(* handled or, for want of a handler, ended.                               *)
(***************************************************************************)

\* The phase of a session decides how far its request is.
LEMMA Stages ==
    /\ phase \in {"accepted", "handshake"} => Stage = "waiting"
    /\ phase = "header" /\ result # "ok" => Stage = "waiting"
    /\ InHand => Stage = IF received = "all" /\ request.wellFormed THEN "whole"
                                                                   ELSE "arriving"
    /\ phase = "app" => Stage = "handled"
    /\ phase = "write" => Stage = IF result = "ok" THEN "answered" ELSE "handled"
    /\ phase = "gone" => Stage = "ended"
<1>1. /\ phase \in {"accepted", "handshake"} => Stage = "waiting"
      /\ phase = "header" /\ result # "ok" => Stage = "waiting"
  BY DEF Stage
<1>2. InHand => Stage = IF received = "all" /\ request.wellFormed THEN "whole"
                                                                  ELSE "arriving"
  BY DEF Stage
<1>3. /\ phase = "app" => Stage = "handled"
      /\ phase = "write" => Stage = IF result = "ok" THEN "answered" ELSE "handled"
      /\ phase = "gone" => Stage = "ended"
  BY DEF Stage
<1> QED
  BY <1>1, <1>2, <1>3

LEMMA LeavingKeeps ==
    ASSUME phase \in Waits, result # "pending",
           Refused \/ BufferFull \/ Failed,
           UNCHANGED <<request, open, handled, answered>>,
           phase = "write" => result = "error" \/ ~open
    PROVE  Promise!Next
<1>1. Stage' = "ended" /\ Stage # "ended"
  BY DEF Refused, BufferFull, Failed, Report, Drop, Stage
<1>2. CASE Refused
  BY <1>1, <1>2 DEF Refused, Drop, Promise!Next, Promise!End
<1>3. CASE BufferFull \/ Failed
  <2>1. open /\ reported' = reported + 1
    BY <1>3 DEF BufferFull, Failed, Report
  <2>2. Stage # "answered"
    BY <2>1 DEF Stage
  <2> QED
    BY <1>1, <2>1, <2>2 DEF Promise!Next, Promise!Report
<1> QED
  BY <1>2, <1>3

LEMMA AwaitingKeeps ==
    ASSUME InHand, NEW next \in Body, Await(next, TimeoutContent),
           UNCHANGED <<request, received, open, handled, answered, reported>>
    PROVE  UNCHANGED Promise!vars
  BY DEF Await, Stage, Promise!vars

LEMMA FindingKeeps ==
    ASSUME InHand, received = "all", request.wellFormed, open, FindResource,
           UNCHANGED <<request, open, answered>>
    PROVE  Promise!Next
<1>1. Stage = "whole"
  BY Stages
<1>2. CASE ~request.route /\ Drop /\ UNCHANGED <<handled, thrown, reported>>
  <2>1. Stage' = "ended"
    BY <1>2 DEF Drop, Stage
  <2> QED
    BY <1>1, <1>2, <2>1 DEF Promise!Next, Promise!End
<1>3. CASE request.route /\ CallHandler
  <2>1. Stage' = "handled"
    BY <1>3 DEF CallHandler, Await, Stage
  <2>2. handled' = handled + 1 /\ reported' \in {reported, reported + 1}
    BY <1>3 DEF CallHandler
  <2> QED
    BY <1>1, <1>3, <2>1, <2>2 DEF Promise!Next, Promise!Handle
<1> QED
  BY <1>2, <1>3 DEF FindResource

LEMMA InitKeeps == Init => Promise!Init
  BY DEF Init, Promise!Init, Stage, NoRequest

LEMMA StepKeeps == IInv /\ [Next]_vars => [Promise!Next]_Promise!vars
<1> SUFFICES ASSUME IInv, [Next]_vars
             PROVE  Promise!Next \/ UNCHANGED Promise!vars
  OBVIOUS
<1>1. CASE UNCHANGED vars
  BY <1>1 DEF vars, Stage, Promise!vars
<1>2. CASE TimerExpires \/ TimerHandler \/ StopCloses \/ StopIoService
  BY <1>2 DEF TimerExpires, TimerHandler, StopCloses, StopIoService, server, counters,
              Stage, Promise!vars
<1>3. CASE Send \/ SetAutoClose \/ ReleaseResponse
  <2>1. Stage = "handled" /\ Stage' = "handled"
    BY <1>3 DEF Send, SetAutoClose, ReleaseResponse, Await, Stage
  <2>2. UNCHANGED <<request, handled, answered, reported, open>>
    BY <1>3 DEF Send, SetAutoClose, ReleaseResponse, server, counters
  <2> QED
    BY <2>1, <2>2 DEF Promise!vars
<1>4. CASE StopRunner
  <2>1. Stage' = Stage
    BY <1>4 DEF StopRunner, Stage
  <2> QED
    BY <1>4, <2>1 DEF StopRunner, counters, Promise!Next, Promise!Close
<1>5. CASE OperationFails
  <2>1. Stage' = Stage
    BY <1>5 DEF OperationFails, Stage
  <2> QED
    BY <1>5, <2>1 DEF OperationFails, server, counters, Promise!vars
<1>6. CASE HeaderArrives
  <2>1. Stage = "waiting" /\ Stage' \in {"arriving", "whole"}
    BY <1>6 DEF HeaderArrives, Stage
  <2>2. request'.route \in BOOLEAN
    BY <1>6, RequestsAssumption DEF HeaderArrives
  <2> QED
    BY <1>6, <2>1, <2>2 DEF HeaderArrives, server, Promise!Next, Promise!Receive
<1>7. CASE OperationSucceeds
  <2>1. UNCHANGED <<request, handled, reported, open>>
    BY <1>7 DEF OperationSucceeds, server
  <2>2. CASE phase = "write"
    <3>1. Stage = "handled" /\ Stage' = "answered"
      BY <1>7, <2>2 DEF OperationSucceeds, Stage
    <3> QED
      BY <1>7, <2>1, <2>2, <3>1 DEF OperationSucceeds, Promise!Next, Promise!Answer
  <2>3. CASE phase = "content"
    <3>1. answered' = answered /\ Stage \in {"arriving", "whole"} /\ Stage' = "whole"
      BY <1>7, <2>3 DEF OperationSucceeds, IInv, Arrived, Stage
    <3> QED
      BY <2>1, <3>1 DEF Promise!Next, Promise!Complete, Promise!vars
  <2>4. CASE phase \in {"handshake", "chunkBody"}
    <3>1. answered' = answered /\ Stage' = Stage
      BY <1>7, <2>4 DEF OperationSucceeds, Stage
    <3> QED
      BY <2>1, <3>1 DEF Promise!vars
  <2> QED
    BY <1>7, <2>2, <2>3, <2>4 DEF OperationSucceeds
<1>8. CASE ChunkLineArrives
  <2>1. Stage \in {"arriving", "whole"} /\ Stage' \in {Stage, "whole"}
    BY <1>8 DEF ChunkLineArrives, IInv, Arrived, Stage
  <2>2. UNCHANGED <<request, handled, answered, reported, open>>
    BY <1>8 DEF ChunkLineArrives, server, counters
  <2> QED
    BY <2>1, <2>2 DEF Promise!Next, Promise!Complete, Promise!vars
<1>9. CASE Accepted
  <2>1. UNCHANGED <<request, handled, answered, reported, open>> /\ Stage = "waiting"
    BY <1>9 DEF Accepted, server, counters, Stage
  <2>2. CASE ~open /\ Drop
    <3>1. Stage' = "ended"
      BY <2>2 DEF Drop, Stage
    <3> QED
      BY <2>1, <2>2, <3>1 DEF Promise!Next, Promise!End
  <2>3. CASE \E next \in {"handshake", "header"} : Await(next, TimeoutRequest)
    <3>1. Stage' = "waiting"
      BY <2>3 DEF Await, Stage
    <3> QED
      BY <2>1, <3>1 DEF Promise!vars
  <2> QED
    BY <1>9, <2>2, <2>3 DEF Accepted
<1>10. CASE HandshakeDone
  <2>1. UNCHANGED <<request, handled, answered, open>> /\ Stage = "waiting"
    BY <1>10 DEF HandshakeDone, server, counters, Stage
  <2>2. CASE Refused \/ Failed
    BY <1>10, <2>1, <2>2, LeavingKeeps DEF HandshakeDone
  <2>3. CASE ReadRequest /\ UNCHANGED reported
    <3>1. Stage' = "waiting"
      BY <2>3 DEF ReadRequest, Await, Stage
    <3> QED
      BY <2>1, <2>3, <3>1 DEF Promise!vars
  <2> QED
    BY <1>10, <2>2, <2>3 DEF HandshakeDone
<1>11. CASE WriteDone
  <2>1. UNCHANGED <<request, handled, answered, open>>
    BY <1>11 DEF WriteDone, server, counters
  <2>2. CASE Refused \/ Failed
    BY <1>11, <2>1, <2>2, LeavingKeeps DEF WriteDone, Refused, Failed
  <2>3. CASE open /\ result = "ok" /\ (ReadRequest \/ Drop) /\ UNCHANGED reported
    <3>1. Stage = "answered"
      BY <1>11, <2>3 DEF WriteDone, Stage
    <3>2. CASE ReadRequest
      <4>1. Stage' = "waiting"
        BY <3>2 DEF ReadRequest, Await, Stage
      <4> QED
        BY <2>1, <2>3, <3>1, <4>1 DEF Promise!Next, Promise!GoOn
    <3>3. CASE Drop
      <4>1. Stage' = "ended"
        BY <3>3 DEF Drop, Stage
      <4> QED
        BY <2>1, <2>3, <3>1, <4>1 DEF Promise!Next, Promise!End
    <3> QED
      BY <2>3, <3>2, <3>3
  <2> QED
    BY <1>11, <2>2, <2>3 DEF WriteDone
<1>12. CASE HeaderDone
  <2>1. /\ UNCHANGED <<request, received, open, answered>>
        /\ phase = "header" /\ result # "pending"
    BY <1>12 DEF HeaderDone, server
  <2>2. CASE (Refused \/ BufferFull \/ Failed) /\ UNCHANGED handled
    BY <2>1, <2>2, LeavingKeeps
  <2>3. CASE open /\ result = "ok" /\ request.wellFormed
             /\ request.body \in {"none", "inBuffer"} /\ FindResource
    <3>1. received = "all"
      BY <2>1, <2>3 DEF IInv, Arrived
    <3> QED
      BY <2>1, <2>3, <3>1, FindingKeeps
  <2>4. CASE /\ result = "ok"
             /\ Await("content", TimeoutContent) \/ ReadChunkLine
             /\ UNCHANGED <<handled, thrown, reported>>
    BY <2>1, <2>4, AwaitingKeeps DEF ReadChunkLine
  <2>5. CASE open /\ Report /\ UNCHANGED handled
    BY <2>1, <2>5, LeavingKeeps DEF BufferFull
  <2>6. request.body \in BodyKinds
    BY RequestsAssumption DEF IInv, TypeOK, NoRequest, BodyKinds
  <2>7. CASE /\ open /\ result = "ok"
             /\ ~request.wellFormed \/ request.body = "badLength"
    BY <1>12, <2>2, <2>5, <2>7 DEF HeaderDone
  <2>8. CASE /\ open /\ result = "ok" /\ request.wellFormed
             /\ request.body \in {"none", "inBuffer"}
    BY <1>12, <2>2, <2>3, <2>8 DEF HeaderDone
  <2>9. CASE /\ open /\ result = "ok" /\ request.wellFormed
             /\ request.body \in {"toRead", "chunked"}
    BY <1>12, <2>2, <2>4, <2>9 DEF HeaderDone
  <2> QED
    BY <1>12, <2>2, <2>6, <2>7, <2>8, <2>9 DEF HeaderDone, BodyKinds
<1>13. CASE ContentDone
  <2>1. /\ UNCHANGED <<request, received, open, answered>>
        /\ phase \in Body /\ request.wellFormed /\ result # "pending"
    BY <1>13 DEF ContentDone, server, IInv, Arrived
  <2>2. CASE (Refused \/ BufferFull \/ Failed) /\ UNCHANGED handled
    BY <2>1, <2>2, LeavingKeeps
  <2>3. CASE open /\ received = "all" /\ FindResource
    BY <2>1, <2>3, FindingKeeps
  <2> QED
    BY <1>13, <2>2, <2>3 DEF ContentDone, IInv, Arrived
<1>14. CASE ChunkLineDone
  <2>1. /\ UNCHANGED <<request, received, open, answered>>
        /\ phase \in Body /\ request.wellFormed /\ result # "pending"
    BY <1>14 DEF ChunkLineDone, server, IInv, Arrived
  <2>2. CASE (Refused \/ BufferFull \/ Failed) /\ UNCHANGED handled
    BY <2>1, <2>2, LeavingKeeps
  <2>3. CASE open /\ received = "all" /\ FindResource
    BY <2>1, <2>3, FindingKeeps
  <2>4. CASE /\ Await("chunkBody", TimeoutContent) \/ ReadChunkLine
             /\ UNCHANGED <<handled, thrown, reported>>
    BY <2>1, <2>4, AwaitingKeeps DEF ReadChunkLine
  <2>5. CASE open /\ Report /\ UNCHANGED handled
    BY <2>1, <2>5, LeavingKeeps DEF BufferFull
  <2> QED
    BY <1>14, <2>2, <2>3, <2>4, <2>5 DEF ChunkLineDone, ChunkComplete
<1>15. CASE ChunkBodyDone
  <2>1. /\ UNCHANGED <<request, received, open, answered>>
        /\ phase \in Body /\ request.wellFormed /\ result # "pending"
    BY <1>15 DEF ChunkBodyDone, server, IInv, Arrived
  <2>2. CASE (Refused \/ BufferFull \/ Failed) /\ UNCHANGED handled
    BY <2>1, <2>2, LeavingKeeps
  <2>3. CASE open /\ received = "all" /\ FindResource
    BY <2>1, <2>3, FindingKeeps
  <2>4. CASE ReadChunkLine /\ UNCHANGED <<handled, thrown, reported>>
    BY <2>1, <2>4, AwaitingKeeps DEF ReadChunkLine
  <2> QED
    BY <1>15, <2>2, <2>3, <2>4 DEF ChunkBodyDone, ChunkComplete
<1> QED
  BY <1>1, <1>2, <1>3, <1>4, <1>5, <1>6, <1>7, <1>8, <1>9, <1>10, <1>11, <1>12,
     <1>13, <1>14, <1>15 DEF Next, Handler, Peer, Owner

\* A connection keeps what it promises: its requests are handled one by one,
\* each as a whole and once, each is answered or reported, and nothing is
\* called once the server is gone (src/server_http.hpp:541-803).
THEOREM Refinement == Spec => KeepsPromise
  BY InitKeeps, StepKeeps, Invariant, PTL DEF Spec, KeepsPromise, Promise!Spec
=============================================================================
