----------------------- MODULE ResponseQueue_proofs -----------------------
(***************************************************************************)
(* Proofs about ResponseQueue for any number of senders, io threads and    *)
(* calls of send().  The argument: the right to start the next write goes  *)
(* from a sender that finds the queue empty to the write, from the write   *)
(* to the handler of its completion, and from that handler, in the         *)
(* critical section in which it erases the first buffer, to the next write *)
(* or back to the senders.  IInv says that nobody else ever holds it.      *)
(* WireInv follows the bytes from the queue to the wire.  PlaceInv and     *)
(* TruthInv follow each buffer from its sender to its answer; with them    *)
(* every step is a step of SendPromise, or changes nothing it sees.        *)
(***************************************************************************)
EXTENDS ResponseQueue, SequenceTheorems, TLAPS

(* The first element and the rest of a sequence that is not empty.         *)
LEMMA HeadTail ==
  ASSUME NEW S, NEW q \in Seq(S), q # <<>>
  PROVE  Head(q) \in S /\ Tail(q) \in Seq(S)
OBVIOUS

(* What a function of the positions of a sequence is.                      *)
LEMMA MapSeq ==
  ASSUME NEW S, NEW n \in Nat, NEW f, f \in [1 .. n -> S]
  PROVE  f \in Seq(S)
OBVIOUS

(* Sequences of no and of one element, and the elements of a sequence.     *)
LEMMA SmallSeq ==
  ASSUME NEW S
  PROVE  /\ <<>> \in Seq(S)
         /\ \A a \in S : <<a>> \in Seq(S)
         /\ \A q \in Seq(S) : Len(q) \in Nat /\ \A i \in 1 .. Len(q) : q[i] \in S
OBVIOUS

(* The records the actions build have their types.                         *)
LEMMA RecordTypes ==
  /\ \A b \in Buffer : PendingWrite(b) \in Writes
  /\ \A b \in Buffer, ok \in BOOLEAN : Answer(b, ok) \in Answers
  /\ \A at \in {"idle", "ok", "error", "call"}, c \in Seq(Answers) :
        [at |-> at, calls |-> c] \in Jobs
  /\ Idle \in Jobs
  /\ \A w \in Writes, r \in {"ok", "error"} : [w EXCEPT !.result = r] \in Writes
  /\ \A w \in Writes : w.buffer \in Buffer /\ w.result \in {"pending", "ok", "error"}
  /\ \A j \in Jobs, c \in Seq(Answers) : [j EXCEPT !.calls = c] \in Jobs
  /\ \A j \in Jobs : j.calls \in Seq(Answers)
BY SmallSeq DEF PendingWrite, Answer, Idle, Writes, Answers, Jobs

(* The initial state satisfies the inductive invariant.                    *)
LEMMA InitIInv == Init => IInv
<1> SUFFICES ASSUME Init PROVE IInv
  OBVIOUS
<1> USE DEF Init
<1>1. QueueTypeOK
  <2>1. <<>> \in Seq(Buffer) /\ <<>> \in Seq(Answers)
    BY SmallSeq
  <2>2. 0 \in 0 .. MaxSends
    BY MaxSendsAssumption
  <2>3. QED
    BY <2>1, <2>2, RecordTypes DEF QueueTypeOK
<1>2. OneWriteAtATime /\ WriteReadsHead /\ QueueIsServed
  BY DEF OneWriteAtATime, WriteReadsHead, QueueIsServed, Entered, Idle
<1>3. ReferencesCount
  BY DEF ReferencesCount, Entered, Idle, None
<1>4. QED
  BY <1>1, <1>2, <1>3 DEF IInv

(* Steps preserve type correctness.                                        *)
LEMMA NextTypeOK == IInv /\ [Next]_vars => QueueTypeOK'
<1> SUFFICES ASSUME IInv, [Next]_vars PROVE QueueTypeOK'
  OBVIOUS
<1>a. QueueTypeOK /\ ReferencesCount
  BY DEF IInv
<1>b. buffers \in Nat /\ FinalBuffer \in Buffer /\ (buffers < MaxSends => buffers + 1 \in 0 .. MaxSends)
  BY <1>a, MaxSendsAssumption DEF QueueTypeOK, FinalBuffer, Buffer
<1>1. ASSUME NEW s \in Senders, Move(s) PROVE QueueTypeOK'
  BY <1>1, <1>a, <1>b DEF QueueTypeOK, Move, FinalBuffer
<1>2. ASSUME NEW s \in Senders, Enqueue(s) PROVE QueueTypeOK'
  <2>1. taken[s] \in Buffer
    BY <1>2, <1>a DEF Enqueue, QueueTypeOK
  <2>2. queue' \in Seq(Buffer) /\ queue' # <<>> /\ accepted' \in Seq(Buffer)
    BY <1>2, <1>a, <2>1 DEF Enqueue, QueueTypeOK
  <2>3. SendFromQueue(queue') \subseteq Writes
    BY <2>2, HeadTail, RecordTypes DEF SendFromQueue
  <2>4. QED
    BY <1>2, <1>a, <2>2, <2>3 DEF Enqueue, QueueTypeOK
<1>3. ASSUME NEW s \in Senders, Release(s) PROVE QueueTypeOK'
  BY <1>3, <1>a DEF QueueTypeOK, Release
<1>4. ASSUME NEW w \in writes, WriteCompletes(w) PROVE QueueTypeOK'
  <2>1. w \in Writes /\ w.buffer \in Buffer
    BY <1>a, RecordTypes DEF QueueTypeOK
  <2>2. [w EXCEPT !.result = IF up THEN "ok" ELSE "error"] \in Writes
    BY <2>1, RecordTypes
  <2>3. writes' \subseteq Writes
    BY <1>4, <1>a, <2>2 DEF WriteCompletes, QueueTypeOK
  <2>4. wire' \in Seq(Buffer)
    BY <1>4, <1>a, <2>1 DEF WriteCompletes, QueueTypeOK
  <2>5. QED
    BY <1>4, <1>a, <2>3, <2>4 DEF WriteCompletes, QueueTypeOK
<1>5. ASSUME NEW t \in Threads, NEW w \in writes, Dispatch(t, w) PROVE QueueTypeOK'
  <2>1. w.result \in {"ok", "error"}
    BY <1>5, <1>a, RecordTypes DEF Dispatch, QueueTypeOK
  <2>2. [at |-> w.result, calls |-> <<>>] \in Jobs
    BY <2>1, SmallSeq, RecordTypes
  <2>3. QED
    BY <1>5, <1>a, <2>2 DEF Dispatch, QueueTypeOK
<1>6. ASSUME NEW t \in Threads, NEW w \in writes, DispatchRefused(t, w)
      PROVE  QueueTypeOK'
  BY <1>6, <1>a DEF QueueTypeOK, DispatchRefused
<1>7. ASSUME NEW t \in Threads, NEW w \in writes, FinalHandler(t, w)
      PROVE  QueueTypeOK'
  <2>1. Answer(w.buffer, w.result = "ok") \in Answers
    BY <1>a, RecordTypes DEF QueueTypeOK
  <2>2. QED
    BY <1>7, <1>a, <2>1 DEF QueueTypeOK, FinalHandler
<1>8. ASSUME NEW t \in Threads, PopHead(t) PROVE QueueTypeOK'
  <2>1. queue # <<>>
    BY <1>8, <1>a DEF PopHead, ReferencesCount, Entered
  <2>2. Head(queue) \in Buffer /\ queue' \in Seq(Buffer)
    BY <1>8, <1>a, <2>1, HeadTail DEF PopHead, QueueTypeOK
  <2>3. queue' # <<>> => SendFromQueue(queue') \subseteq Writes
    BY <2>2, HeadTail, RecordTypes DEF SendFromQueue
  <2>4. <<Answer(Head(queue), TRUE)>> \in Seq(Answers)
    BY <2>2, SmallSeq, RecordTypes
  <2>5. [at |-> "call", calls |-> <<Answer(Head(queue), TRUE)>>] \in Jobs
    BY <2>4, RecordTypes
  <2>6. QED
    BY <1>8, <1>a, <2>2, <2>3, <2>5 DEF PopHead, QueueTypeOK
<1>9. ASSUME NEW t \in Threads, FlushQueue(t) PROVE QueueTypeOK'
  <2> DEFINE calls == [i \in 1 .. Len(queue) |-> Answer(queue[i], FALSE)]
  <2>1. /\ Len(queue) \in Nat
        /\ \A i \in 1 .. Len(queue) : Answer(queue[i], FALSE) \in Answers
    BY <1>a, SmallSeq, RecordTypes DEF QueueTypeOK
  <2>2. Len(queue) \in Nat /\ calls \in [1 .. Len(queue) -> Answers]
    BY <2>1
  <2>3. calls \in Seq(Answers)
    BY <2>2, MapSeq
  <2>4. [at |-> "call", calls |-> calls] \in Jobs
    BY <2>3, RecordTypes
  <2>5. QED
    BY <1>9, <1>a, <2>4 DEF QueueTypeOK, FlushQueue
<1>10. ASSUME NEW t \in Threads, Callback(t) PROVE QueueTypeOK'
  <2>1. job[t] \in Jobs /\ job[t].calls \in Seq(Answers)
    BY <1>a, RecordTypes DEF QueueTypeOK
  <2>2. /\ Head(job[t].calls) \in Answers
        /\ Tail(job[t].calls) \in Seq(Answers)
    BY <1>10, <2>1, HeadTail DEF Callback
  <2>3. [job[t] EXCEPT !.calls = Tail(job[t].calls)] \in Jobs
    BY <2>1, <2>2, RecordTypes
  <2>4. QED
    BY <1>10, <1>a, <2>2, <2>3 DEF QueueTypeOK, Callback
<1>11. ASSUME NEW t \in Threads, HandlerReturns(t) PROVE QueueTypeOK'
  BY <1>11, <1>a, RecordTypes DEF QueueTypeOK, HandlerReturns
<1>12. CASE SendOnDelete
  <2>1. PendingWrite(FinalBuffer) \in Writes
    BY <1>b, RecordTypes
  <2>2. QED
    BY <1>12, <1>a, <2>1 DEF QueueTypeOK, SendOnDelete
<1>13. CASE SocketFails \/ StopRunner \/ StopService \/ StartAgain
  BY <1>13, <1>a DEF QueueTypeOK, SocketFails, StopRunner, StopService, StartAgain
<1>14. ASSUME NEW s \in Senders, Replace(s) PROVE QueueTypeOK'
  BY <1>14, <1>a DEF QueueTypeOK, Replace
<1>15. CASE UNCHANGED vars
  BY <1>15, <1>a DEF QueueTypeOK, vars
<1>16. QED
  BY <1>1, <1>2, <1>3, <1>4, <1>5, <1>6, <1>7, <1>8, <1>9, <1>10, <1>11,
     <1>12, <1>13, <1>15, <1>14
  DEF Next, ThreadStep

(* Appending to a sequence: when it gets its first element, which is then  *)
(* its head, and otherwise the head stays.                                 *)
LEMMA AppendFacts ==
  ASSUME NEW S, NEW q \in Seq(S), NEW x \in S
  PROVE  /\ Append(q, x) # <<>>
         /\ Len(Append(q, x)) = 1 <=> q = <<>>
         /\ q = <<>> => Head(Append(q, x)) = x
         /\ q # <<>> => Head(Append(q, x)) = Head(q)
<1>1. Len(q) \in Nat /\ Len(Append(q, x)) = Len(q) + 1
  OBVIOUS
<1>2. Len(q) = 0 <=> q = <<>>
  OBVIOUS
<1>3. Append(q, x) # <<>> /\ (Len(Append(q, x)) = 1 <=> q = <<>>)
  BY <1>1, <1>2
<1>4. q = <<>> => Head(Append(q, x)) = x
  OBVIOUS
<1>5. q # <<>> => Head(Append(q, x)) = Head(q)
  BY <1>1, <1>2
<1>6. QED
  BY <1>3, <1>4, <1>5

(* The handlers that have entered, when one thread's job changes.          *)
LEMMA EnteredStep ==
  ASSUME NEW t \in Threads, \A u \in Threads \ {t} : job'[u] = job[u]
  PROVE  /\ job'[t].at \in {"ok", "error"} => Entered' = Entered \cup {t}
         /\ job'[t].at \notin {"ok", "error"} => Entered' = Entered \ {t}
BY DEF Entered

(* Steps preserve what the invariants say of the queue, its writes and the *)
(* handlers: the proof follows the right to start the next write.          *)
LEMMA NextQueue ==
  IInv /\ [Next]_vars =>
    /\ OneWriteAtATime' /\ WriteReadsHead' /\ QueueIsServed' /\ ReferencesCount'
<1> SUFFICES ASSUME IInv, [Next]_vars
             PROVE  /\ OneWriteAtATime' /\ WriteReadsHead'
                    /\ QueueIsServed' /\ ReferencesCount'
  OBVIOUS
<1>a. QueueTypeOK /\ OneWriteAtATime /\ WriteReadsHead /\ QueueIsServed /\ ReferencesCount
  BY DEF IInv
<1> DEFINE Goal == /\ OneWriteAtATime' /\ WriteReadsHead'
                   /\ QueueIsServed' /\ ReferencesCount'
<1>1. ASSUME NEW s \in Senders, Move(s) PROVE Goal
  <2>1. ~deleted
    BY <1>1, <1>a DEF Move, ReferencesCount
  <2>2. Entered' = Entered
    BY <1>1 DEF Move, Entered
  <2>3. \A r \in Senders : taken'[r] # None => r \in owners'
    BY <1>1, <1>a DEF Move, ReferencesCount, QueueTypeOK
  <2>4. QED
    BY <1>1, <1>a, <2>1, <2>2, <2>3
    DEF Move, OneWriteAtATime, WriteReadsHead, QueueIsServed,
        ReferencesCount, Final
<1>2. ASSUME NEW s \in Senders, Enqueue(s) PROVE Goal
  <2>1. ~deleted /\ ~deleted'
    BY <1>2, <1>a DEF Enqueue, ReferencesCount
  <2>2. Entered' = Entered
    BY <1>2 DEF Enqueue, Entered
  <2>3. queue \in Seq(Buffer) /\ taken[s] \in Buffer
    BY <1>2, <1>a DEF Enqueue, QueueTypeOK
  <2>4. \A r \in Senders : taken'[r] # None => r \in owners'
    BY <1>2, <1>a DEF Enqueue, ReferencesCount, QueueTypeOK
  <2>5. CASE queue = <<>>
    <3>1. writes = {} /\ Entered = {}
      BY <2>1, <2>5, <1>a DEF WriteReadsHead, ReferencesCount, Final
    <3>2. queue' # <<>> /\ Head(queue') = taken[s] /\ Len(queue') = 1
      BY <1>2, <2>3, <2>5, AppendFacts DEF Enqueue
    <3>3. writes' = {PendingWrite(taken[s])}
      BY <1>2, <3>1, <3>2 DEF Enqueue, SendFromQueue
    <3>4. QED
      BY <2>1, <2>2, <2>4, <3>1, <3>2, <3>3
      DEF OneWriteAtATime, WriteReadsHead, QueueIsServed, ReferencesCount,
          PendingWrite
  <2>6. CASE queue # <<>>
    <3>1. queue' # <<>> /\ Head(queue') = Head(queue) /\ Len(queue') # 1
      BY <1>2, <2>3, <2>6, AppendFacts DEF Enqueue
    <3>2. writes' = writes /\ open' = open
      BY <1>2, <3>1 DEF Enqueue
    <3>3. QED
      BY <1>a, <2>1, <2>2, <2>4, <2>6, <3>1, <3>2
      DEF OneWriteAtATime, WriteReadsHead, QueueIsServed, ReferencesCount, Final
  <2>7. QED
    BY <2>5, <2>6
<1>3. ASSUME NEW s \in Senders, Release(s) PROVE Goal
  <2>1. Entered' = Entered /\ (deleted' => owners' = {})
    BY <1>3, <1>a DEF Release, Entered, ReferencesCount
  <2>2. QED
    BY <1>3, <1>a, <2>1
    DEF Release, OneWriteAtATime, WriteReadsHead, QueueIsServed,
        ReferencesCount, Final, FinalBuffer
<1>4. ASSUME NEW w \in writes, WriteCompletes(w) PROVE Goal
  <2> DEFINE v == [w EXCEPT !.result = IF up THEN "ok" ELSE "error"]
  <2>1. writes = {w} /\ writes' = {v}
    BY <1>4, <1>a DEF WriteCompletes, OneWriteAtATime
  <2>2. v.buffer = w.buffer
    BY <1>a DEF QueueTypeOK, Writes
  <2>3. Entered' = Entered /\ Entered = {}
    BY <1>4, <1>a, <2>1 DEF WriteCompletes, Entered, OneWriteAtATime
  <2>4. QED
    BY <1>4, <1>a, <2>1, <2>2, <2>3
    DEF WriteCompletes, OneWriteAtATime, WriteReadsHead, QueueIsServed,
        ReferencesCount, Final, FinalBuffer
<1>5. ASSUME NEW t \in Threads, NEW w \in writes, Dispatch(t, w) PROVE Goal
  <2>1. writes = {w} /\ writes' = {} /\ Entered = {}
    BY <1>5, <1>a DEF Dispatch, OneWriteAtATime
  <2>2. w.result \in {"ok", "error"}
    BY <1>5, <1>a, RecordTypes DEF Dispatch, QueueTypeOK
  <2>3. Entered' = Entered \cup {t}
    <3>1. job'[t].at = w.result /\ \A u \in Threads \ {t} : job'[u] = job[u]
      BY <1>5, <1>a DEF Dispatch, QueueTypeOK
    <3>2. QED
      BY <2>2, <3>1, EnteredStep
  <2>4. ~deleted /\ queue # <<>>
    BY <1>5, <1>a DEF Dispatch, ReferencesCount, WriteReadsHead
  <2>5. QED
    BY <1>5, <1>a, <2>1, <2>3, <2>4
    DEF Dispatch, OneWriteAtATime, WriteReadsHead, QueueIsServed, ReferencesCount
<1>6. ASSUME NEW t \in Threads, NEW w \in writes, DispatchRefused(t, w)
      PROVE  Goal
  <2>1. writes' = {} /\ Entered' = Entered /\ Entered = {} /\ ~open'
    BY <1>6, <1>a DEF DispatchRefused, OneWriteAtATime, Entered
  <2>2. QED
    BY <1>6, <1>a, <2>1
    DEF DispatchRefused, OneWriteAtATime, WriteReadsHead, QueueIsServed,
        ReferencesCount
<1>7. ASSUME NEW t \in Threads, NEW w \in writes, FinalHandler(t, w) PROVE Goal
  <2>1. deleted /\ writes = {w} /\ writes' = {} /\ Entered' = Entered /\ Entered = {}
    BY <1>7, <1>a DEF FinalHandler, Final, OneWriteAtATime, Entered
  <2>2. ~(open /\ queue # <<>>)
    BY <1>7, <1>a, <2>1 DEF FinalHandler, ReferencesCount
  <2>3. QED
    BY <1>7, <1>a, <2>1, <2>2
    DEF FinalHandler, OneWriteAtATime, WriteReadsHead, QueueIsServed,
        ReferencesCount
<1>8. ASSUME NEW t \in Threads, PopHead(t) PROVE Goal
  <2>1. t \in Entered
    BY <1>8 DEF PopHead, Entered
  <2>2. Entered = {t} /\ writes = {}
    BY <1>a, <2>1 DEF OneWriteAtATime
  <2>3. Entered' = Entered \ {t}
    <3>1. job'[t].at = "call" /\ \A u \in Threads \ {t} : job'[u] = job[u]
      BY <1>8, <1>a DEF PopHead, QueueTypeOK
    <3>2. QED
      BY <3>1, EnteredStep
  <2>4. ~deleted /\ ~deleted'
    BY <1>8, <1>a DEF PopHead, ReferencesCount, Idle
  <2>5. writes' = IF queue' # <<>> THEN {PendingWrite(Head(queue'))} ELSE {}
    BY <1>8, <2>2 DEF PopHead, SendFromQueue
  <2>6. Entered' = {}
    BY <2>2, <2>3
  <2>7. OneWriteAtATime'
    BY <2>5, <2>6 DEF OneWriteAtATime
  <2>8. WriteReadsHead'
    BY <2>5 DEF WriteReadsHead, PendingWrite
  <2>9. QueueIsServed'
    BY <2>5 DEF QueueIsServed
  <2>10. ReferencesCount'
    BY <1>8, <1>a, <2>4, <2>6 DEF PopHead, ReferencesCount
  <2>11. QED
    BY <2>7, <2>8, <2>9, <2>10
<1>9. ASSUME NEW t \in Threads, FlushQueue(t) PROVE Goal
  <2>1. t \in Entered
    BY <1>9 DEF FlushQueue, Entered
  <2>2. Entered = {t} /\ writes = {}
    BY <1>a, <2>1 DEF OneWriteAtATime
  <2>3. Entered' = Entered \ {t}
    <3>1. job'[t].at = "call" /\ \A u \in Threads \ {t} : job'[u] = job[u]
      BY <1>9, <1>a DEF FlushQueue, QueueTypeOK
    <3>2. QED
      BY <3>1, EnteredStep
  <2>4. ~deleted
    BY <1>9, <1>a DEF FlushQueue, ReferencesCount, Idle
  <2>5. QED
    BY <1>9, <1>a, <2>2, <2>3, <2>4
    DEF FlushQueue, OneWriteAtATime, WriteReadsHead, QueueIsServed,
        ReferencesCount
<1>10. ASSUME NEW t \in Threads, Callback(t) \/ HandlerReturns(t) PROVE Goal
  <2>1. Entered' = Entered
    <3>1. /\ job'[t].at \in {"call", "idle"}
          /\ \A u \in Threads \ {t} : job'[u] = job[u]
      BY <1>10, <1>a DEF Callback, HandlerReturns, Idle, QueueTypeOK, Jobs
    <3>2. job[t].at = "call"
      BY <1>10 DEF Callback, HandlerReturns
    <3>3. QED
      BY <3>1, <3>2, EnteredStep DEF Entered
  <2>2. ~deleted
    BY <1>10, <1>a DEF Callback, HandlerReturns, Idle, ReferencesCount
  <2>3. UNCHANGED <<taken, queue, writes, owners, deleted, open, FinalBuffer>>
    BY <1>10 DEF Callback, HandlerReturns, FinalBuffer
  <2>4. OneWriteAtATime' /\ QueueIsServed'
    BY <1>a, <2>1, <2>3 DEF OneWriteAtATime, QueueIsServed
  <2>5. WriteReadsHead'
    BY <1>a, <2>3 DEF WriteReadsHead, Final
  <2>6. ReferencesCount'
    BY <1>a, <2>1, <2>2, <2>3 DEF ReferencesCount
  <2>7. QED
    BY <2>4, <2>5, <2>6
<1>11. CASE SendOnDelete
  <2>1. Entered' = {}
    BY <1>11 DEF SendOnDelete, Unreferenced, Entered, Idle
  <2>2. writes' = {PendingWrite(FinalBuffer)} /\ deleted' /\ FinalBuffer' = FinalBuffer
    BY <1>11 DEF SendOnDelete, Unreferenced, FinalBuffer
  <2>3. \A w \in writes' : Final(w)'
    BY <2>2 DEF Final, PendingWrite
  <2>4. /\ writes = {} /\ Entered = {}
        /\ owners' = {} /\ \A t \in Threads : job'[t] = Idle
        /\ UNCHANGED <<queue, open, taken, owners>>
    BY <1>11 DEF SendOnDelete, Unreferenced, Entered, Idle
  <2>5. open' => queue' = <<>>
    BY <1>a, <2>4 DEF QueueIsServed
  <2>6. OneWriteAtATime' /\ WriteReadsHead' /\ QueueIsServed'
    BY <2>1, <2>2, <2>3, <2>5 DEF OneWriteAtATime, WriteReadsHead, QueueIsServed
  <2>7. ReferencesCount'
    BY <1>a, <2>1, <2>3, <2>4, <2>5 DEF ReferencesCount
  <2>8. QED
    BY <2>6, <2>7
<1>12. CASE SocketFails
  BY <1>12, <1>a
  DEF SocketFails, OneWriteAtATime, WriteReadsHead, QueueIsServed,
      ReferencesCount, Entered, Final, FinalBuffer
<1>13. CASE StopRunner
  BY <1>13, <1>a
  DEF StopRunner, OneWriteAtATime, WriteReadsHead, QueueIsServed,
      ReferencesCount, Entered, Final, FinalBuffer
<1>14. ASSUME NEW s \in Senders, Replace(s) PROVE Goal
  BY <1>14, <1>a
  DEF Replace, OneWriteAtATime, WriteReadsHead, QueueIsServed,
      ReferencesCount, Entered, Final, FinalBuffer
<1>15. CASE StopService \/ StartAgain
  BY <1>15, <1>a
  DEF StopService, StartAgain, OneWriteAtATime, WriteReadsHead, QueueIsServed,
      ReferencesCount, Entered, Final, FinalBuffer
<1>16. CASE UNCHANGED vars
  BY <1>16, <1>a
  DEF vars, OneWriteAtATime, WriteReadsHead, QueueIsServed,
      ReferencesCount, Entered, Final, FinalBuffer
<1>17. QED
  BY <1>1, <1>2, <1>3, <1>4, <1>5, <1>6, <1>7, <1>8, <1>9, <1>10, <1>11,
     <1>12, <1>13, <1>16, <1>14, <1>15
  DEF Next, ThreadStep

(* The strengthening holds in every reachable state.                       *)
THEOREM Invariance == Spec => []IInv
<1>1. IInv /\ [Next]_vars => IInv'
  BY NextTypeOK, NextQueue DEF IInv
<1>2. QED
  BY <1>1, InitIInv, PTL DEF Spec

(* For any number of senders and threads, no two writes overlap on the     *)
(* socket, and a write never overlaps the handler of the one before.       *)
THEOREM WritesNeverOverlap == Spec => []OneWriteAtATime
<1>1. IInv => OneWriteAtATime
  BY DEF IInv
<1>2. QED
  BY <1>1, Invariance, PTL

(* A pending write reads a buffer that the queue still owns.               *)
THEOREM BufferOutlivesWrite == Spec => []WriteReadsHead
<1>1. IInv => WriteReadsHead
  BY DEF IInv
<1>2. QED
  BY <1>1, Invariance, PTL

(* A queue that is not empty has a write or a handler at work on it.       *)
THEOREM QueueNeverStalls == Spec => []QueueIsServed
<1>1. IInv => QueueIsServed
  BY DEF IInv
<1>2. QED
  BY <1>1, Invariance, PTL

(* The deleter of the last shared_ptr finds an empty queue, unless the     *)
(* server is being destroyed.                                              *)
THEOREM DeleterFindsEmptyQueue == Spec => DeleteAfterQueue
<1>1. IInv /\ [Next]_vars => [SendOnDelete /\ open => queue = <<>>]_vars
  <2> SUFFICES ASSUME IInv, SendOnDelete, open PROVE queue = <<>>
    OBVIOUS
  <2>1. writes = {} /\ Entered = {}
    BY DEF SendOnDelete, Unreferenced, Entered, Idle
  <2>2. QED
    BY <2>1 DEF IInv, QueueIsServed
<1>2. QED
  BY <1>1, Invariance, PTL DEF Spec, DeleteAfterQueue
-----------------------------------------------------------------------------
(* The order on the wire *)

\* The buffers of the queue whose bytes are not on the wire.
Unwritten ==
    IF \/ \E t \in Threads : job[t].at = "ok"
       \/ \E w \in writes : w.result = "ok" /\ ~Final(w)
    THEN Tail(queue) ELSE queue

IsPrefixOf(a, b) == Len(a) <= Len(b) /\ a = SubSeq(b, 1, Len(a))

\* While a write may still come from the queue, the wire and what is left of
\* the queue make up what was accepted.
InOrder ==
    up /\ ~deleted /\ (open \/ writes # {} \/ queue = <<>>)
        => wire \o Unwritten = accepted

\* A write fails only when the socket is gone for good.
ErrorsAreFinal ==
    \/ \E t \in Threads : job[t].at = "error"
    \/ \E w \in writes : w.result = "error"
  => ~up

\* The rest that the deleter sends comes after all that was accepted.
RestComesLast ==
    /\ ~deleted => IsPrefixOf(wire, accepted)
    /\ deleted /\ open => IsPrefixOf(wire, Append(accepted, FinalBuffer))
    /\ deleted /\ open /\ up /\ (\E w \in writes : w.result = "pending")
         => wire = accepted

WireInv == (~open => Entered = {}) /\ ErrorsAreFinal /\ InOrder /\ RestComesLast

(* The first element of a queue moves to the end of the wire; an element   *)
(* is added to the queue, also when its first one is already written.      *)
LEMMA MoveHead ==
  ASSUME NEW S, NEW a \in Seq(S), NEW q \in Seq(S), q # <<>>
  PROVE  Append(a, Head(q)) \o Tail(q) = a \o q
<1>1. /\ Head(q) \in S /\ Tail(q) \in Seq(S) /\ Head(q) = q[1]
      /\ Len(Tail(q)) = Len(q) - 1 /\ Len(q) \in Nat \ {0} /\ Len(a) \in Nat
      /\ \A i \in 1 .. Len(q) - 1 : Tail(q)[i] = q[i + 1]
  BY HeadTailProperties, EmptySeq, LenProperties
<1>2. /\ Append(a, Head(q)) \in Seq(S) /\ Len(Append(a, Head(q))) = Len(a) + 1
      /\ \A i \in 1 .. Len(a) : Append(a, Head(q))[i] = a[i]
      /\ Append(a, Head(q))[Len(a) + 1] = q[1]
  BY <1>1, AppendProperties
<1> DEFINE l == Append(a, Head(q)) \o Tail(q)
           r == a \o q
<1>3. /\ l \in Seq(S) /\ Len(l) = Len(a) + Len(q)
      /\ \A i \in 1 .. Len(a) + Len(q) :
            l[i] = IF i <= Len(a) + 1 THEN Append(a, Head(q))[i]
                                      ELSE Tail(q)[i - (Len(a) + 1)]
  BY <1>1, <1>2, ConcatProperties
<1>4. /\ r \in Seq(S) /\ Len(r) = Len(a) + Len(q)
      /\ \A i \in 1 .. Len(a) + Len(q) :
            r[i] = IF i <= Len(a) THEN a[i] ELSE q[i - Len(a)]
  BY ConcatProperties
<1>5. ASSUME NEW i \in 1 .. Len(a) + Len(q) PROVE l[i] = r[i]
  <2> HIDE DEF l, r
  <2>1. CASE i <= Len(a)
    BY <2>1, <1>1, <1>2, <1>3, <1>4
  <2>2. CASE i = Len(a) + 1
    BY <2>2, <1>1, <1>2, <1>3, <1>4
  <2>3. CASE i > Len(a) + 1
    <3>1. i - (Len(a) + 1) \in 1 .. Len(q) - 1
      BY <2>3, <1>1
    <3>2. l[i] = Tail(q)[i - (Len(a) + 1)] /\ r[i] = q[i - Len(a)]
      BY <2>3, <1>1, <1>3, <1>4
    <3>3. Tail(q)[i - (Len(a) + 1)] = q[i - Len(a)]
      BY <3>1, <1>1
    <3> QED
      BY <3>2, <3>3
  <2> QED
    BY <2>1, <2>2, <2>3, <1>1
<1> HIDE DEF l, r
<1>6. l = r
  BY <1>3, <1>4, <1>5, SeqEqual
<1> QED
  BY <1>6 DEF l, r

LEMMA AddToRest ==
  ASSUME NEW S, NEW a \in Seq(S), NEW q \in Seq(S), NEW x \in S
  PROVE  /\ a \o Append(q, x) = Append(a \o q, x)
         /\ q # <<>> => Tail(Append(q, x)) = Append(Tail(q), x)
<1>1. /\ a \o Append(q, x) = a \o (q \o <<x>>) /\ <<x>> \in Seq(S)
      /\ Append(a \o q, x) = (a \o q) \o <<x>>
  BY AppendIsConcat, ConcatProperties, SmallSeq
<1>2. a \o Append(q, x) = Append(a \o q, x)
  BY <1>1, ConcatAssociative
<1>3. q # <<>> => Tail(Append(q, x)) = Append(Tail(q), x)
  BY HeadTailAppend
<1> QED
  BY <1>2, <1>3

(* What is a beginning of what.                                            *)
LEMMA Beginnings ==
  ASSUME NEW S, NEW a \in Seq(S), NEW b \in Seq(S), NEW x \in S
  PROVE  /\ IsPrefixOf(a, a \o b)
         /\ IsPrefixOf(a, a)
         /\ IsPrefixOf(a, b) => IsPrefixOf(a, Append(b, x))
<1>1. Len(a) \in Nat /\ Len(b) \in Nat /\ SubSeq(a, 1, Len(a)) = a
  BY LenProperties, SubSeqFull
<1>2. IsPrefixOf(a, a)
  BY <1>1 DEF IsPrefixOf
<1>3. ASSUME NEW c \in Seq(S), NEW d \in Seq(S), IsPrefixOf(d, c)
      PROVE  \A e \in Seq(S) : IsPrefixOf(d, c \o e)
  <2> TAKE e \in Seq(S)
  <2>1. Len(c \o e) = Len(c) + Len(e) /\ Len(e) \in Nat /\ Len(c) \in Nat /\ Len(d) \in Nat
    BY ConcatProperties, LenProperties
  <2>2. Len(d) <= Len(c) /\ d = SubSeq(c, 1, Len(d))
    BY <1>3 DEF IsPrefixOf
  <2>3. CASE d = <<>>
    <3>1. Len(d) = 0 /\ SubSeq(c \o e, 1, 0) = <<>>
      BY <2>3, EmptySeq, SubSeqEmpty
    <3> QED
      BY <2>1, <2>3, <3>1 DEF IsPrefixOf
  <2>4. CASE d # <<>>
    <3>1. Len(d) \in 1 .. Len(c)
      BY <2>1, <2>2, <2>4, EmptySeq
    <3>2. SubSeq(c \o e, 1, Len(d)) = SubSeq(c, 1, Len(d))
      BY <3>1, <2>1, SubSeqOfConcat1
    <3> QED
      BY <2>1, <2>2, <3>2 DEF IsPrefixOf
  <2> QED
    BY <2>3, <2>4
<1>4. IsPrefixOf(a, a \o b)
  BY <1>2, <1>3
<1>5. IsPrefixOf(a, b) => IsPrefixOf(a, Append(b, x))
  BY <1>3, AppendIsConcat, SmallSeq
<1> QED
  BY <1>2, <1>4, <1>5

(* The parts that do not say what is on the wire.                          *)
LEMMA NextErrors ==
  IInv /\ WireInv /\ [Next]_vars => (~open' => Entered' = {}) /\ ErrorsAreFinal'
<1> SUFFICES ASSUME IInv, WireInv, [Next]_vars
             PROVE  (~open' => Entered' = {}) /\ ErrorsAreFinal'
  OBVIOUS
<1>a. QueueTypeOK /\ ReferencesCount /\ ErrorsAreFinal /\ (~open => Entered = {})
  BY DEF IInv, WireInv
<1> DEFINE Goal == (~open' => Entered' = {}) /\ ErrorsAreFinal'
<1>1. ASSUME job' = job, open' = open, up' => up,
             \A w \in writes' : w.result = "error" => w \in writes \/ ~up
      PROVE  Goal
  BY <1>1, <1>a DEF Entered, ErrorsAreFinal
<1>2. ASSUME NEW s \in Senders, Move(s) \/ Replace(s) \/ Release(s) PROVE Goal
  BY <1>2, <1>1 DEF Move, Replace, Release
<1>3. ASSUME NEW s \in Senders, Enqueue(s) PROVE Goal
  <2>1. \A w \in writes' : w \in writes \/ w.result = "pending"
    BY <1>3 DEF Enqueue, SendFromQueue, PendingWrite
  <2> QED
    BY <1>3, <2>1, <1>1 DEF Enqueue
<1>4. ASSUME NEW w \in writes, WriteCompletes(w) PROVE Goal
  <2>1. [w EXCEPT !.result = IF up THEN "ok" ELSE "error"].result
          = IF up THEN "ok" ELSE "error"
    BY <1>a DEF QueueTypeOK, Writes
  <2>2. ASSUME NEW v \in writes', v.result = "error", v \notin writes PROVE ~up
    <3>1. v = [w EXCEPT !.result = IF up THEN "ok" ELSE "error"]
      BY <1>4, <2>2 DEF WriteCompletes
    <3> QED
      BY <2>1, <2>2, <3>1
  <2> QED
    BY <1>4, <2>2, <1>1 DEF WriteCompletes
<1>5. ASSUME NEW t \in Threads, NEW w \in writes, Dispatch(t, w) PROVE Goal
  <2>1. job'[t].at = w.result /\ \A u \in Threads \ {t} : job'[u] = job[u]
    BY <1>5, <1>a DEF Dispatch, QueueTypeOK
  <2>2. open' /\ up' = up /\ writes' \subseteq writes /\ w \in writes
    BY <1>5 DEF Dispatch
  <2> QED
    BY <2>1, <2>2, <1>a DEF ErrorsAreFinal
<1>6. ASSUME NEW t \in Threads, NEW w \in writes,
             DispatchRefused(t, w) \/ FinalHandler(t, w)
      PROVE  Goal
  BY <1>6, <1>1 DEF DispatchRefused, FinalHandler
<1>7. ASSUME NEW t \in Threads,
             PopHead(t) \/ FlushQueue(t) \/ Callback(t) \/ HandlerReturns(t)
      PROVE  Goal
  <2>1. /\ job'[t].at \in {"call", "idle"}
        /\ \A u \in Threads \ {t} : job'[u] = job[u]
    <3>1. CASE PopHead(t)
      BY <3>1, <1>a DEF PopHead, QueueTypeOK
    <3>2. CASE FlushQueue(t)
      BY <3>2, <1>a DEF FlushQueue, QueueTypeOK
    <3>3. CASE Callback(t) \/ HandlerReturns(t)
      BY <3>3, <1>a DEF Callback, HandlerReturns, Idle, QueueTypeOK, Jobs
    <3> QED
      BY <1>7, <3>1, <3>2, <3>3
  <2>2. open' = open /\ up' = up
    BY <1>7 DEF PopHead, FlushQueue, Callback, HandlerReturns
  <2>3. \A w \in writes' : w \in writes \/ w.result = "pending"
    <3>1. CASE PopHead(t)
      BY <3>1 DEF PopHead, SendFromQueue, PendingWrite
    <3>2. CASE FlushQueue(t) \/ Callback(t) \/ HandlerReturns(t)
      BY <3>2 DEF FlushQueue, Callback, HandlerReturns
    <3> QED
      BY <1>7, <3>1, <3>2
  <2>4. ~open' => Entered' = {}
    BY <2>1, <2>2, <1>a DEF Entered
  <2>5. ErrorsAreFinal'
    BY <2>1, <2>2, <2>3, <1>a DEF ErrorsAreFinal
  <2> QED
    BY <2>4, <2>5
<1>8. CASE SendOnDelete
  <2>1. \A w \in writes' : w \in writes \/ w.result = "pending"
    BY <1>8 DEF SendOnDelete, PendingWrite
  <2> QED
    BY <1>8, <2>1, <1>1 DEF SendOnDelete
<1>9. CASE SocketFails \/ StopService \/ StartAgain
  BY <1>9, <1>1 DEF SocketFails, StopService, StartAgain
<1>10. CASE StopRunner
  BY <1>10, <1>a DEF StopRunner, Entered, Idle, ErrorsAreFinal
<1>11. CASE UNCHANGED vars
  BY <1>11, <1>1 DEF vars
<1> QED
  BY <1>2, <1>3, <1>4, <1>5, <1>6, <1>7, <1>8, <1>9, <1>10, <1>11
  DEF Next, ThreadStep

(* A step that changes neither the queue, the writes, what handlers have   *)
(* still to do to the queue, nor the histories.                            *)
LEMMA WireSame ==
  ASSUME InOrder, RestComesLast,
         UNCHANGED <<queue, writes, deleted, accepted, wire>>,
         up' => up, open' => open,
         deleted => buffers' = buffers,
         \A t \in Threads : job'[t].at = "ok" <=> job[t].at = "ok"
  PROVE  InOrder' /\ RestComesLast'
<1>1. deleted => FinalBuffer' = FinalBuffer
  BY DEF FinalBuffer
<1>2. ~deleted => Unwritten' = Unwritten
  BY DEF Unwritten, Final
<1>3. InOrder'
  BY <1>2 DEF InOrder
<1> QED
  BY <1>1, <1>3 DEF RestComesLast

(* Steps preserve the order on the wire.                                   *)
LEMMA NextWire ==
  IInv /\ WireInv /\ [Next]_vars => InOrder' /\ RestComesLast'
<1> SUFFICES ASSUME IInv, WireInv, [Next]_vars PROVE InOrder' /\ RestComesLast'
  OBVIOUS
<1>a. /\ QueueTypeOK /\ OneWriteAtATime /\ WriteReadsHead /\ QueueIsServed
      /\ ReferencesCount /\ ErrorsAreFinal /\ InOrder /\ RestComesLast
      /\ ~open => Entered = {}
  BY DEF IInv, WireInv
<1>b. /\ queue \in Seq(Buffer) /\ accepted \in Seq(Buffer) /\ wire \in Seq(Buffer)
      /\ FinalBuffer \in Buffer
  BY <1>a, MaxSendsAssumption DEF QueueTypeOK, FinalBuffer, Buffer
<1> DEFINE Goal == InOrder' /\ RestComesLast'
<1>1. ASSUME NEW s \in Senders, Move(s) PROVE Goal
  <2>1. ~deleted
    BY <1>1, <1>a DEF Move, ReferencesCount
  <2> QED
    BY <1>1, <1>a, <2>1, WireSame DEF Move
<1>2. ASSUME NEW s \in Senders, Enqueue(s) PROVE Goal
  <2>1. ~deleted /\ ~deleted' /\ taken[s] \in Buffer
    BY <1>2, <1>a DEF Enqueue, ReferencesCount, QueueTypeOK
  <2>2. /\ queue' = Append(queue, taken[s]) /\ accepted' = Append(accepted, taken[s])
        /\ wire' = wire /\ open' = open /\ up' = up /\ job' = job
    BY <1>2 DEF Enqueue
  <2>3. IsPrefixOf(wire', accepted')
    BY <1>a, <1>b, <2>1, <2>2, Beginnings DEF RestComesLast
  <2>4. ASSUME up', open' \/ writes' # {} \/ queue' = <<>>
        PROVE  wire' \o Unwritten' = accepted'
    <3>1. CASE queue = <<>>
      <4>1. writes = {} /\ Entered = {} /\ Unwritten = queue
        BY <2>1, <3>1, <1>a
        DEF WriteReadsHead, ReferencesCount, Final, Unwritten, Entered
      <4>2. wire \o queue = accepted
        BY <2>1, <2>2, <2>4, <3>1, <4>1, <1>a DEF InOrder
      <4>3. \A w \in writes' : w.result = "pending"
        BY <1>2, <4>1 DEF Enqueue, SendFromQueue, PendingWrite
      <4>4. Unwritten' = queue'
        BY <2>2, <4>1, <4>3 DEF Unwritten, Entered
      <4> QED
        BY <1>b, <2>1, <2>2, <4>2, <4>4, AddToRest
    <3>2. CASE queue # <<>>
      <4>1. writes' = writes /\ queue' # <<>>
        BY <1>2, <1>b, <2>1, <2>2, <3>2, AppendFacts DEF Enqueue
      <4>2. wire \o Unwritten = accepted
        BY <2>1, <2>2, <2>4, <4>1, <1>a DEF InOrder
      <4>3. Unwritten' = Append(Unwritten, taken[s])
        <5>1. Tail(queue') = Append(Tail(queue), taken[s])
          BY <1>b, <2>1, <2>2, <3>2, AddToRest
        <5> QED
          BY <2>1, <2>2, <4>1, <5>1 DEF Unwritten, Final
      <4>4. Unwritten \in Seq(Buffer)
        BY <1>b, <3>2, HeadTail DEF Unwritten
      <4>5. wire \o Append(Unwritten, taken[s]) = Append(wire \o Unwritten, taken[s])
        BY <1>b, <2>1, <4>4, AddToRest
      <4> QED
        BY <2>2, <4>2, <4>3, <4>5
    <3> QED
      BY <3>1, <3>2
  <2> QED
    BY <2>1, <2>3, <2>4 DEF InOrder, RestComesLast
<1>3. ASSUME NEW s \in Senders, Replace(s) \/ Release(s) PROVE Goal
  BY <1>3, <1>a, WireSame DEF Replace, Release
<1>4. ASSUME NEW w \in writes, WriteCompletes(w) PROVE Goal
  <2> DEFINE v == [w EXCEPT !.result = IF up THEN "ok" ELSE "error"]
  <2>1. writes = {w} /\ writes' = {v}
    BY <1>4, <1>a DEF WriteCompletes, OneWriteAtATime
  <2>2. /\ v.buffer = w.buffer /\ v.result = (IF up THEN "ok" ELSE "error")
        /\ w.buffer \in Buffer
    BY <1>4, <1>a DEF QueueTypeOK, Writes
  <2>3. /\ w.result = "pending" /\ Entered = {}
        /\ UNCHANGED <<queue, job, deleted, up, open, accepted, FinalBuffer>>
        /\ wire' = IF up THEN Append(wire, w.buffer) ELSE wire
    BY <1>4, <1>a DEF WriteCompletes, OneWriteAtATime, FinalBuffer
  <2>4. CASE ~up
    BY <2>3, <2>4, <1>a DEF InOrder, RestComesLast
  <2>5. CASE up /\ ~deleted
    <3>1. queue # <<>> /\ w.buffer = Head(queue)
      BY <2>5, <1>a DEF WriteReadsHead, Final
    <3>2. Unwritten = queue
      BY <2>1, <2>3 DEF Unwritten, Entered
    <3>3. wire \o queue = accepted
      BY <2>1, <2>5, <3>2, <1>a DEF InOrder
    <3>4. Unwritten' = Tail(queue)
      BY <2>1, <2>2, <2>3, <2>5 DEF Unwritten, Final
    <3>5. Append(wire, Head(queue)) \o Tail(queue) = accepted
      BY <1>b, <3>1, <3>3, MoveHead
    <3>6. /\ Append(wire, Head(queue)) \in Seq(Buffer)
          /\ Tail(queue) \in Seq(Buffer)
      BY <1>b, <3>1, HeadTail, AppendProperties
    <3>7. IsPrefixOf(Append(wire, Head(queue)), accepted)
      BY <3>5, <3>6, Beginnings, <2>2
    <3> QED
      BY <2>3, <2>5, <3>1, <3>4, <3>5, <3>7 DEF InOrder, RestComesLast
  <2>6. CASE up /\ deleted
    <3>1. w.buffer = FinalBuffer
      BY <2>6, <1>a DEF ReferencesCount, Final
    <3>2. open => wire = accepted
      BY <2>3, <2>6, <1>a DEF RestComesLast
    <3>3. open => IsPrefixOf(wire', Append(accepted, FinalBuffer))
      <4>1. Append(accepted, FinalBuffer) \in Seq(Buffer)
        BY <1>b, AppendProperties
      <4> QED
        BY <1>b, <2>3, <2>6, <3>1, <3>2, <4>1, Beginnings
    <3>4. \A u \in writes' : u.result = "ok"
      BY <2>1, <2>2, <2>6
    <3> QED
      BY <2>3, <2>6, <3>3, <3>4 DEF InOrder, RestComesLast
  <2> QED
    BY <2>4, <2>5, <2>6
<1>5. ASSUME NEW t \in Threads, NEW w \in writes, Dispatch(t, w) PROVE Goal
  <2>1. writes = {w} /\ writes' = {} /\ Entered = {} /\ ~Final(w)
    BY <1>5, <1>a DEF Dispatch, OneWriteAtATime
  <2>2. w.result \in {"ok", "error"}
    BY <1>5, <1>a, RecordTypes DEF Dispatch, QueueTypeOK
  <2>3. job'[t].at = w.result /\ \A u \in Threads \ {t} : job'[u] = job[u]
    BY <1>5, <1>a DEF Dispatch, QueueTypeOK
  <2>4. UNCHANGED <<queue, deleted, up, open, accepted, wire, FinalBuffer>> /\ ~deleted
    BY <1>5, <1>a DEF Dispatch, FinalBuffer, ReferencesCount, Final
  <2>5. CASE w.result = "ok"
    <3>1. Unwritten' = Tail(queue) /\ Unwritten = Tail(queue)
      BY <2>1, <2>3, <2>4, <2>5 DEF Unwritten
    <3> QED
      BY <2>1, <2>4, <3>1, <1>a DEF InOrder, RestComesLast
  <2>6. CASE w.result = "error"
    BY <2>4, <2>6, <1>a DEF InOrder, RestComesLast, ErrorsAreFinal
  <2> QED
    BY <2>2, <2>5, <2>6
<1>6. ASSUME NEW t \in Threads, NEW w \in writes, DispatchRefused(t, w)
      PROVE  Goal
  <2>1. writes' = {} /\ ~open' /\ UNCHANGED <<queue, deleted, accepted, wire>>
    BY <1>6, <1>a DEF DispatchRefused, OneWriteAtATime
  <2>2. ~deleted => queue # <<>>
    BY <1>6, <1>a DEF DispatchRefused, WriteReadsHead, Final
  <2> QED
    BY <2>1, <2>2, <1>a DEF InOrder, RestComesLast
<1>7. ASSUME NEW t \in Threads, NEW w \in writes, FinalHandler(t, w) PROVE Goal
  <2>1. deleted /\ writes' \subseteq writes
    BY <1>7 DEF FinalHandler, Final
  <2>2. UNCHANGED <<deleted, up, open, accepted, wire, FinalBuffer>>
    BY <1>7 DEF FinalHandler, FinalBuffer
  <2> QED
    BY <2>1, <2>2, <1>a DEF InOrder, RestComesLast
<1>8. ASSUME NEW t \in Threads, PopHead(t) PROVE Goal
  <2>1. t \in Entered
    BY <1>8 DEF PopHead, Entered
  <2>2. Entered = {t} /\ writes = {} /\ queue # <<>> /\ open
    BY <1>a, <2>1 DEF OneWriteAtATime, ReferencesCount
  <2>3. ~deleted /\ UNCHANGED <<deleted, up, open, accepted, wire>> /\ queue' = Tail(queue)
    BY <1>8, <1>a DEF PopHead, ReferencesCount, Idle
  <2>4. Unwritten = Tail(queue)
    BY <1>8 DEF PopHead, Unwritten
  <2>5. Unwritten' = Tail(queue)
    <3>1. job'[t].at = "call" /\ \A u \in Threads \ {t} : job'[u] = job[u]
      BY <1>8, <1>a DEF PopHead, QueueTypeOK
    <3>2. \A u \in Threads : job'[u].at # "ok"
      BY <2>2, <3>1 DEF Entered
    <3>3. \A w \in writes' : w.result = "pending"
      BY <1>8, <2>2 DEF PopHead, SendFromQueue, PendingWrite
    <3> QED
      BY <2>3, <3>2, <3>3 DEF Unwritten
  <2> QED
    BY <2>2, <2>3, <2>4, <2>5, <1>a DEF InOrder, RestComesLast
<1>9. ASSUME NEW t \in Threads, FlushQueue(t) PROVE Goal
  <2>1. ~up /\ ~deleted
    BY <1>9, <1>a DEF FlushQueue, ErrorsAreFinal, ReferencesCount, Idle
  <2>2. UNCHANGED <<deleted, up, open, accepted, wire>>
    BY <1>9 DEF FlushQueue
  <2> QED
    BY <2>1, <2>2, <1>a DEF InOrder, RestComesLast
<1>10. ASSUME NEW t \in Threads, Callback(t) \/ HandlerReturns(t) PROVE Goal
  <2>1. /\ job'[t].at \in {"call", "idle"} /\ job[t].at = "call"
        /\ \A u \in Threads \ {t} : job'[u] = job[u]
    BY <1>10, <1>a DEF Callback, HandlerReturns, Idle, QueueTypeOK, Jobs
  <2>2. UNCHANGED <<queue, writes, deleted, accepted, wire, up, open, buffers>>
    BY <1>10 DEF Callback, HandlerReturns
  <2> QED
    BY <2>1, <2>2, <1>a, WireSame
<1>11. CASE SendOnDelete
  <2>1. /\ writes = {} /\ Entered = {}
        /\ ~deleted /\ deleted'
        /\ UNCHANGED <<queue, up, open, accepted, wire, FinalBuffer>>
    BY <1>11 DEF SendOnDelete, Unreferenced, Entered, Idle, FinalBuffer
  <2>2. open => queue = <<>>
    BY <2>1, <1>a DEF QueueIsServed
  <2>3. Unwritten = queue
    BY <2>1 DEF Unwritten, Entered
  <2>4. open /\ up => wire = accepted
    BY <1>a, <1>b, <2>1, <2>2, <2>3, ConcatEmptySeq DEF InOrder
  <2>5. IsPrefixOf(wire, Append(accepted, FinalBuffer))
    BY <1>a, <1>b, <2>1, Beginnings DEF RestComesLast
  <2> QED
    BY <2>1, <2>4, <2>5 DEF InOrder, RestComesLast
<1>12. CASE SocketFails \/ StopService \/ StartAgain
  BY <1>12, <1>a, WireSame DEF SocketFails, StopService, StartAgain
<1>13. CASE StopRunner
  BY <1>13, <1>a, WireSame DEF StopRunner
<1>14. CASE UNCHANGED vars
  BY <1>14, <1>a, WireSame DEF vars
<1> QED
  BY <1>1, <1>2, <1>3, <1>4, <1>5, <1>6, <1>7, <1>8, <1>9, <1>10, <1>11,
     <1>12, <1>13, <1>14
  DEF Next, ThreadStep

(* The strengthening for the order on the wire holds at every moment.      *)
LEMMA WireInvariance == Spec => []WireInv
<1>1. Init => WireInv
  <2> SUFFICES ASSUME Init PROVE WireInv
    OBVIOUS
  <2>1. Unwritten = <<>> /\ Entered = {}
    BY DEF Init, Unwritten, Entered, Idle
  <2>2. wire = <<>> /\ accepted = <<>> /\ <<>> \in Seq(Buffer) /\ ~deleted /\ writes = {}
    BY SmallSeq DEF Init
  <2>3. <<>> \o <<>> = <<>> /\ IsPrefixOf(<<>>, <<>>)
    <3>1. 1 \in Buffer
      BY MaxSendsAssumption DEF Buffer
    <3> QED
      BY <2>2, <3>1, ConcatEmptySeq, Beginnings
  <2> QED
    BY <2>1, <2>2, <2>3 DEF WireInv, InOrder, RestComesLast, ErrorsAreFinal, Init, Idle
<1>2. IInv /\ WireInv /\ [Next]_vars => WireInv'
  BY NextErrors, NextWire DEF WireInv
<1> QED
  BY Invariance, <1>1, <1>2, PTL DEF Spec
-----------------------------------------------------------------------------
(* The refinement of SendPromise. A buffer is at one place at a time: with *)
(* its sender, in the queue, with a handler that owes the call of its      *)
(* callback, or answered.                                                  *)

In(b, q) == \E i \in 1 .. Len(q) : q[i] = b
Distinct(q) == \A i, j \in 1 .. Len(q) : q[i] = q[j] => i = j

\* Thread t has still to call the callback of b.
Owes(t, b) == \E i \in 1 .. Len(job[t].calls) : job[t].calls[i].buffer = b
IsTold(b) == \E i \in 1 .. Len(answers) : answers[i].buffer = b

TakenIsNew ==
    /\ \A b \in Buffer : In(b, accepted) => b <= buffers
    /\ \A s \in Senders : taken[s] # None =>
          taken[s] <= buffers /\ ~In(taken[s], accepted)
    /\ \A r, s \in Senders : taken[r] # None /\ taken[r] = taken[s] => r = s

QueuedOnce ==
    /\ Distinct(queue)
    /\ \A b \in Buffer : In(b, queue) => In(b, accepted) /\ ~IsTold(b)

OwedOnce ==
    /\ \A t \in Threads : \A i, j \in 1 .. Len(job[t].calls) :
          job[t].calls[i].buffer = job[t].calls[j].buffer => i = j
    /\ \A t \in Threads, b \in Buffer : Owes(t, b) =>
          In(b, accepted) /\ ~In(b, queue) /\ ~IsTold(b)
    /\ \A t, u \in Threads, b \in Buffer : Owes(t, b) /\ Owes(u, b) => t = u

ToldWhenDone ==
    \A b \in Buffer : IsTold(b) =>
        In(b, accepted) \/ (deleted /\ b = FinalBuffer /\ writes = {})

PlaceInv == TakenIsNew /\ QueuedOnce /\ OwedOnce /\ ToldWhenDone

\* What a handler is about to report is true, and the server still there.
OkIsWritten ==
    /\ \A w \in writes : w.result = "ok" => In(w.buffer, wire)
    /\ \A t \in Threads : job[t].at = "ok" => In(Head(queue), wire)

ReportsAreTrue ==
    \A t \in Threads : \A i \in 1 .. Len(job[t].calls) :
        IF job[t].calls[i].ok THEN In(job[t].calls[i].buffer, wire) ELSE ~up

HandlersHoldServer == \A t \in Threads : job[t] # Idle => open

TruthInv == OkIsWritten /\ ReportsAreTrue /\ HandlersHoldServer

(* The elements of a sequence that grows at its end or loses its head.     *)
LEMMA AtTheEnd ==
  ASSUME NEW S, NEW q \in Seq(S), NEW x \in S
  PROVE  /\ \A b : In(b, Append(q, x)) <=> In(b, q) \/ b = x
         /\ Distinct(q) /\ ~In(x, q) => Distinct(Append(q, x))
<1>1. /\ Len(q) \in Nat /\ Len(Append(q, x)) = Len(q) + 1
      /\ \A i \in 1 .. Len(q) : Append(q, x)[i] = q[i]
      /\ Append(q, x)[Len(q) + 1] = x
  BY AppendProperties, LenProperties
<1>2. ASSUME NEW b PROVE In(b, Append(q, x)) <=> In(b, q) \/ b = x
  <2>1. ASSUME In(b, Append(q, x)) PROVE In(b, q) \/ b = x
    <3>1. PICK i \in 1 .. Len(q) + 1 : Append(q, x)[i] = b
      BY <1>1, <2>1 DEF In
    <3> QED
      BY <1>1, <3>1 DEF In
  <2>2. ASSUME In(b, q) PROVE In(b, Append(q, x))
    <3>1. PICK i \in 1 .. Len(q) : q[i] = b
      BY <2>2 DEF In
    <3>2. i \in 1 .. Len(Append(q, x)) /\ Append(q, x)[i] = b
      BY <1>1, <3>1
    <3> QED
      BY <3>2 DEF In
  <2>3. In(x, Append(q, x))
    <3>1. Len(q) + 1 \in 1 .. Len(Append(q, x))
      BY <1>1
    <3> QED
      BY <1>1, <3>1 DEF In
  <2> QED
    BY <2>1, <2>2, <2>3
<1>3. ASSUME Distinct(q), ~In(x, q) PROVE Distinct(Append(q, x))
  <2> SUFFICES ASSUME NEW i \in 1 .. Len(q) + 1, NEW j \in 1 .. Len(q) + 1,
                      Append(q, x)[i] = Append(q, x)[j]
               PROVE  i = j
    BY <1>1 DEF Distinct
  <2>1. \A k \in 1 .. Len(q) : q[k] # x
    BY <1>3 DEF In
  <2>2. CASE i \in 1 .. Len(q) /\ j \in 1 .. Len(q)
    BY <1>1, <1>3, <2>2 DEF Distinct
  <2>3. CASE i = Len(q) + 1 /\ j \in 1 .. Len(q)
    BY <1>1, <2>1, <2>3
  <2>4. CASE j = Len(q) + 1 /\ i \in 1 .. Len(q)
    BY <1>1, <2>1, <2>4
  <2> QED
    BY <1>1, <2>2, <2>3, <2>4
<1> QED
  BY <1>2, <1>3

LEMMA WithoutHead ==
  ASSUME NEW S, NEW q \in Seq(S), q # <<>>
  PROVE  /\ In(Head(q), q)
         /\ \A b : In(b, Tail(q)) => In(b, q)
         /\ Distinct(q) => /\ Distinct(Tail(q))
                           /\ \A b : In(b, Tail(q)) => b # Head(q)
<1>1. /\ Head(q) = q[1] /\ Len(q) \in Nat \ {0}
      /\ Len(Tail(q)) = Len(q) - 1
      /\ \A i \in 1 .. Len(q) - 1 : Tail(q)[i] = q[i + 1]
  BY HeadTailProperties, EmptySeq, LenProperties
<1>2. 1 \in 1 .. Len(q) /\ \A i \in 1 .. Len(q) - 1 : i + 1 \in 1 .. Len(q) /\ i + 1 # 1
  BY <1>1
<1>3. In(Head(q), q)
  BY <1>1, <1>2 DEF In
<1>4. ASSUME NEW b, In(b, Tail(q))
      PROVE  In(b, q) /\ (Distinct(q) => b # Head(q))
  <2>1. PICK i \in 1 .. Len(q) - 1 : Tail(q)[i] = b
    BY <1>1, <1>4 DEF In
  <2>2. q[i + 1] = b /\ i + 1 \in 1 .. Len(q) /\ i + 1 # 1
    BY <1>1, <1>2, <2>1
  <2> QED
    BY <1>1, <1>2, <2>2 DEF In, Distinct
<1>5. ASSUME Distinct(q) PROVE Distinct(Tail(q))
  <2> SUFFICES ASSUME NEW i \in 1 .. Len(q) - 1, NEW j \in 1 .. Len(q) - 1,
                      Tail(q)[i] = Tail(q)[j]
               PROVE  i = j
    BY <1>1 DEF Distinct
  <2>1. q[i + 1] = q[j + 1] /\ i + 1 \in 1 .. Len(q) /\ j + 1 \in 1 .. Len(q)
    BY <1>1, <1>2
  <2>2. i + 1 = j + 1
    BY <1>5, <2>1 DEF Distinct
  <2> QED
    BY <1>1, <2>2
<1> QED
  BY <1>3, <1>4, <1>5

(* One more answer.                                                        *)
LEMMA OneMoreTold ==
  ASSUME QueueTypeOK, NEW a \in Answers, answers' = Append(answers, a)
  PROVE  \A b : IsTold(b)' <=> IsTold(b) \/ b = a.buffer
<1>1. /\ answers \in Seq(Answers) /\ Len(answers) \in Nat
      /\ Len(answers') = Len(answers) + 1
      /\ \A i \in 1 .. Len(answers) : answers'[i] = answers[i]
      /\ answers'[Len(answers) + 1] = a
  BY AppendProperties, LenProperties DEF QueueTypeOK
<1> TAKE b
<1>2. ASSUME IsTold(b)' PROVE IsTold(b) \/ b = a.buffer
  <2>1. PICK i \in 1 .. Len(answers) + 1 : answers'[i].buffer = b
    BY <1>1, <1>2 DEF IsTold
  <2> QED
    BY <1>1, <2>1 DEF IsTold
<1>3. ASSUME IsTold(b) PROVE IsTold(b)'
  <2>1. PICK i \in 1 .. Len(answers) : answers[i].buffer = b
    BY <1>3 DEF IsTold
  <2>2. i \in 1 .. Len(answers') /\ answers'[i].buffer = b
    BY <1>1, <2>1
  <2> QED
    BY <2>2 DEF IsTold
<1>4. b = a.buffer => IsTold(b)'
  <2>1. Len(answers) + 1 \in 1 .. Len(answers')
    BY <1>1
  <2> QED
    BY <1>1, <2>1 DEF IsTold
<1> QED
  BY <1>2, <1>3, <1>4

(* A step that moves no buffer from one place to another.                  *)
LEMMA PlacesSame ==
  ASSUME PlaceInv,
         UNCHANGED <<taken, queue, accepted, answers, buffers>>,
         \A t \in Threads : job'[t].calls \in {job[t].calls, <<>>},
         deleted => deleted' /\ (writes = {} => writes' = {})
  PROVE  PlaceInv'
<1>1. /\ \A b : In(b, accepted)' <=> In(b, accepted)
      /\ \A b : In(b, queue)' <=> In(b, queue)
      /\ \A b : IsTold(b)' <=> IsTold(b)
  BY DEF In, IsTold
<1>2. TakenIsNew' /\ QueuedOnce'
  BY <1>1 DEF PlaceInv, TakenIsNew, QueuedOnce, Distinct, In
<1>3. ASSUME NEW t \in Threads, NEW b, Owes(t, b)' PROVE Owes(t, b)
  <2>1. CASE job'[t].calls = job[t].calls
    BY <1>3, <2>1 DEF Owes
  <2>2. CASE job'[t].calls = <<>>
    <3>1. Len(job'[t].calls) = 0
      BY <2>2
    <3>2. 1 .. 0 = {}
      OBVIOUS
    <3> QED
      BY <1>3, <3>1, <3>2 DEF Owes
  <2> QED
    BY <2>1, <2>2
<1>4. OwedOnce'
  <2>1. ASSUME NEW t \in Threads, NEW i \in 1 .. Len(job'[t].calls)
        PROVE  job'[t].calls = job[t].calls
    <3>1. Len(<<>>) = 0 /\ 1 .. 0 = {}
      OBVIOUS
    <3> QED
      BY <2>1, <3>1
  <2>2. ASSUME NEW t \in Threads, NEW i \in 1 .. Len(job'[t].calls),
               NEW j \in 1 .. Len(job'[t].calls),
               job'[t].calls[i].buffer = job'[t].calls[j].buffer
        PROVE  i = j
    BY <2>1, <2>2 DEF PlaceInv, OwedOnce
  <2>3. ASSUME NEW t \in Threads, NEW b \in Buffer, Owes(t, b)'
        PROVE  In(b, accepted)' /\ ~In(b, queue)' /\ ~IsTold(b)'
    BY <1>1, <1>3, <2>3 DEF PlaceInv, OwedOnce
  <2>4. ASSUME NEW t \in Threads, NEW u \in Threads, NEW b \in Buffer,
               Owes(t, b)', Owes(u, b)'
        PROVE  t = u
    BY <1>3, <2>4 DEF PlaceInv, OwedOnce
  <2> QED
    BY <2>2, <2>3, <2>4 DEF OwedOnce, Buffer
<1>5. ToldWhenDone'
  BY <1>1 DEF PlaceInv, ToldWhenDone, FinalBuffer, Buffer
<1> QED
  BY <1>2, <1>4, <1>5 DEF PlaceInv

(* A sender takes a new buffer, and puts it into the queue.                *)
LEMMA TakeIsPlaced ==
  ASSUME IInv, PlaceInv, NEW s \in Senders, Move(s)
  PROVE  PlaceInv'
<1>a. /\ QueueTypeOK /\ ~deleted /\ buffers \in Nat /\ MaxSends \in Nat
      /\ \A r \in Senders : taken[r] \in Nat
  BY MaxSendsAssumption DEF IInv, QueueTypeOK, ReferencesCount, Move, Buffer, None
<1>1. UNCHANGED <<queue, accepted, answers, job, deleted>> /\ buffers' = buffers + 1
  BY DEF Move
<1>2. /\ taken'[s] = buffers + 1
      /\ \A r \in Senders \ {s} : taken'[r] = taken[r]
  BY <1>a DEF Move, QueueTypeOK
<1>3. buffers + 1 \in Buffer
  BY <1>a DEF Move, Buffer
<1>4. /\ \A b : In(b, accepted)' <=> In(b, accepted)
      /\ \A b : In(b, queue)' <=> In(b, queue)
      /\ \A b : IsTold(b)' <=> IsTold(b)
      /\ \A t, b : Owes(t, b)' <=> Owes(t, b)
  BY <1>1 DEF In, IsTold, Owes
<1>5. TakenIsNew'
  <2>1. ASSUME NEW b \in Buffer, In(b, accepted) PROVE b <= buffers /\ b <= buffers'
    BY <1>1, <1>a, <2>1 DEF PlaceInv, TakenIsNew, Buffer
  <2>2. ~In(buffers + 1, accepted)
    BY <1>3, <1>a, <2>1
  <2>3. ASSUME NEW r \in Senders, taken'[r] # None
        PROVE  taken'[r] <= buffers' /\ ~In(taken'[r], accepted)
    BY <1>1, <1>2, <1>a, <2>2, <2>3 DEF PlaceInv, TakenIsNew
  <2>4. ASSUME NEW r \in Senders, NEW u \in Senders, taken'[r] # None,
               taken'[r] = taken'[u]
        PROVE  r = u
    <3>1. \A v \in Senders \ {s} : taken'[v] # None => taken'[v] <= buffers
      BY <1>2 DEF PlaceInv, TakenIsNew
    <3> QED
      BY <1>2, <1>a, <2>4, <3>1 DEF PlaceInv, TakenIsNew
  <2> QED
    BY <1>4, <2>1, <2>3, <2>4, <1>1 DEF TakenIsNew, Buffer
<1>6. QueuedOnce' /\ OwedOnce'
  BY <1>1, <1>4 DEF PlaceInv, QueuedOnce, OwedOnce, Distinct, Buffer
<1>7. ToldWhenDone'
  BY <1>4, <1>a DEF PlaceInv, ToldWhenDone, Buffer
<1> QED
  BY <1>5, <1>6, <1>7 DEF PlaceInv

LEMMA EnqueueIsPlaced ==
  ASSUME IInv, PlaceInv, NEW s \in Senders, Enqueue(s)
  PROVE  PlaceInv' /\ taken[s] \in Buffer /\ ~In(taken[s], accepted) /\ ~IsTold(taken[s])
<1> DEFINE x == taken[s]
<1>a. QueueTypeOK /\ ~deleted /\ x \in Buffer /\ queue \in Seq(Buffer) /\ accepted \in Seq(Buffer)
  BY DEF IInv, QueueTypeOK, ReferencesCount, Enqueue
<1>1. /\ UNCHANGED <<answers, job, deleted, buffers>>
      /\ queue' = Append(queue, x) /\ accepted' = Append(accepted, x)
  BY DEF Enqueue
<1>2. /\ taken'[s] = None
      /\ \A r \in Senders \ {s} : taken'[r] = taken[r]
  BY <1>a DEF Enqueue, QueueTypeOK
<1>3. ~In(x, accepted) /\ x <= buffers
  BY DEF PlaceInv, TakenIsNew, Enqueue
<1>4. ~In(x, queue) /\ ~IsTold(x) /\ \A t \in Threads : ~Owes(t, x)
  BY <1>3, <1>a DEF PlaceInv, QueuedOnce, OwedOnce, ToldWhenDone
<1> HIDE DEF x
<1>5. /\ \A b : In(b, accepted)' <=> In(b, accepted) \/ b = x
      /\ \A b : In(b, queue)' <=> In(b, queue) \/ b = x
      /\ Distinct(queue) => Distinct(queue')
  <2>1. \A b : In(b, accepted') <=> In(b, accepted) \/ b = x
    BY <1>1, <1>a, AtTheEnd
  <2>2. /\ \A b : In(b, queue') <=> In(b, queue) \/ b = x
        /\ Distinct(queue) => Distinct(queue')
    BY <1>1, <1>4, <1>a, AtTheEnd
  <2> QED
    BY <2>1, <2>2 DEF In
<1>6. /\ \A b : IsTold(b)' <=> IsTold(b)
      /\ \A t, b : Owes(t, b)' <=> Owes(t, b)
  BY <1>1 DEF IsTold, Owes
<1>7. TakenIsNew'
  <2>1. ASSUME NEW b \in Buffer, In(b, accepted)' PROVE b <= buffers'
    BY <1>1, <1>3, <1>5, <2>1 DEF PlaceInv, TakenIsNew
  <2>2. ASSUME NEW r \in Senders, taken'[r] # None
        PROVE  /\ r # s /\ taken'[r] = taken[r]
               /\ taken'[r] <= buffers' /\ ~In(taken'[r], accepted')
    <3>1. r # s /\ taken'[r] = taken[r]
      BY <1>2, <2>2
    <3>2. taken[r] # x
      BY <2>2, <3>1 DEF x, PlaceInv, TakenIsNew
    <3>3. taken[r] <= buffers /\ ~In(taken[r], accepted)
      BY <2>2, <3>1 DEF PlaceInv, TakenIsNew
    <3>4. ~In(taken[r], accepted')
      BY <1>5, <3>2, <3>3 DEF In
    <3> QED
      BY <1>1, <3>1, <3>3, <3>4
  <2>3. ASSUME NEW r \in Senders, NEW u \in Senders, taken'[r] # None,
               taken'[r] = taken'[u]
        PROVE  r = u
    BY <2>2, <2>3 DEF PlaceInv, TakenIsNew
  <2>4. ASSUME NEW r \in Senders, taken'[r] # None PROVE ~In(taken[r], accepted)'
    BY <2>2, <2>4 DEF In
  <2> QED
    BY <2>1, <2>2, <2>3, <2>4 DEF TakenIsNew, Buffer
<1>8. QueuedOnce'
  <2>1. Distinct(queue)'
    BY <1>5 DEF PlaceInv, QueuedOnce, Distinct
  <2>2. ASSUME NEW b \in Buffer, In(b, queue)'
        PROVE  In(b, accepted)' /\ ~IsTold(b)'
    BY <1>4, <1>5, <1>6, <2>2 DEF PlaceInv, QueuedOnce
  <2> QED
    BY <2>1, <2>2 DEF QueuedOnce, Buffer
<1>9. OwedOnce'
  <2>1. ASSUME NEW t \in Threads, NEW b \in Buffer, Owes(t, b)
        PROVE  In(b, accepted)' /\ ~In(b, queue)' /\ ~IsTold(b)'
    BY <1>4, <1>5, <1>6, <2>1 DEF PlaceInv, OwedOnce
  <2> QED
    BY <1>1, <1>6, <2>1 DEF PlaceInv, OwedOnce, Buffer
<1>10. ToldWhenDone'
  BY <1>5, <1>6, <1>a DEF PlaceInv, ToldWhenDone, Buffer
<1> QED
  BY <1>a, <1>3, <1>4, <1>7, <1>8, <1>9, <1>10 DEF PlaceInv, x

(* Thread t now owes the buffers of a set that nobody else owes, while the *)
(* queue and the answers keep away from what is owed.                      *)
LEMMA OwesAfter ==
  ASSUME OwedOnce, NEW t \in Threads, NEW B,
         \A u \in Threads \ {t} : job'[u] = job[u],
         \A b \in Buffer : Owes(t, b)' => b \in B,
         \A i, j \in 1 .. Len(job'[t].calls) :
            job'[t].calls[i].buffer = job'[t].calls[j].buffer => i = j,
         \A b \in B : \A u \in Threads \ {t} : ~Owes(u, b),
         \A b \in B : In(b, accepted)' /\ ~In(b, queue)' /\ ~IsTold(b)',
         \A b \in Buffer : In(b, accepted) => In(b, accepted)',
         \A b \in Buffer : \A u \in Threads \ {t} :
            Owes(u, b) => ~In(b, queue)' /\ ~IsTold(b)'
  PROVE  OwedOnce'
<1>1. ASSUME NEW u \in Threads \ {t}, NEW b PROVE Owes(u, b)' <=> Owes(u, b)
  BY DEF Owes
<1>2. ASSUME NEW u \in Threads, NEW i \in 1 .. Len(job'[u].calls),
             NEW j \in 1 .. Len(job'[u].calls),
             job'[u].calls[i].buffer = job'[u].calls[j].buffer
      PROVE  i = j
  <2>1. CASE u = t
    BY <1>2, <2>1
  <2>2. CASE u # t
    BY <1>2, <2>2 DEF OwedOnce
  <2> QED
    BY <2>1, <2>2
<1>3. ASSUME NEW u \in Threads, NEW b \in Buffer, Owes(u, b)'
      PROVE  In(b, accepted)' /\ ~In(b, queue)' /\ ~IsTold(b)'
  <2>1. CASE u = t
    BY <1>3, <2>1
  <2>2. CASE u # t
    BY <1>1, <1>3, <2>2 DEF OwedOnce
  <2> QED
    BY <2>1, <2>2
<1>4. ASSUME NEW u \in Threads, NEW v \in Threads, NEW b \in Buffer,
             Owes(u, b)', Owes(v, b)'
      PROVE  u = v
  BY <1>1, <1>4 DEF OwedOnce
<1> QED
  BY <1>2, <1>3, <1>4 DEF OwedOnce, Buffer

(* The handler takes one buffer, or all, from the queue.                   *)
LEMMA PopIsPlaced ==
  ASSUME IInv, PlaceInv, NEW t \in Threads, PopHead(t)
  PROVE  PlaceInv'
<1> DEFINE x == Head(queue)
<1>a. QueueTypeOK /\ ~deleted /\ queue \in Seq(Buffer) /\ queue # <<>>
  BY DEF IInv, QueueTypeOK, ReferencesCount, PopHead, Entered, Idle
<1>1. UNCHANGED <<taken, accepted, answers, deleted, buffers>> /\ queue' = Tail(queue)
  BY DEF PopHead
<1>2. /\ job'[t].calls = <<Answer(x, TRUE)>>
      /\ \A u \in Threads \ {t} : job'[u] = job[u]
  BY <1>a DEF PopHead, QueueTypeOK
<1>3. /\ x \in Buffer /\ In(x, queue)
      /\ \A b : In(b, queue)' => In(b, queue)
      /\ Distinct(queue)' /\ ~In(x, queue')
      /\ \A b : In(b, queue)' <=> In(b, queue')
  <2>1. /\ In(x, queue)
        /\ \A b : In(b, queue') => In(b, queue)
        /\ Distinct(queue') /\ ~In(x, queue')
    BY <1>1, <1>a, WithoutHead DEF PlaceInv, QueuedOnce
  <2>2. x \in Buffer
    BY <1>a, HeadTail
  <2>3. \A b : In(b, queue)' <=> In(b, queue')
    BY DEF In
  <2>4. Distinct(queue)'
    BY <2>1 DEF Distinct
  <2> QED
    BY <2>1, <2>2, <2>3, <2>4
<1>4. /\ \A b : In(b, accepted)' <=> In(b, accepted)
      /\ \A b : IsTold(b)' <=> IsTold(b)
  BY <1>1 DEF In, IsTold
<1>5. In(x, accepted) /\ ~IsTold(x) /\ \A u \in Threads : ~Owes(u, x)
  BY <1>3 DEF PlaceInv, QueuedOnce, OwedOnce
<1> HIDE DEF x
<1>6. /\ Len(job'[t].calls) = 1 /\ job'[t].calls[1] = Answer(x, TRUE)
      /\ \A i \in 1 .. 1 : i = 1
  BY <1>2
<1>7. \A b : Owes(t, b)' => b \in {x}
  <2> TAKE b
  <2>1. HAVE Owes(t, b)'
  <2>2. PICK i \in 1 .. Len(job'[t].calls) : job'[t].calls[i].buffer = b
    BY <2>1 DEF Owes
  <2>3. i = 1
    BY <1>6, <2>2
  <2> QED
    BY <1>6, <2>2, <2>3 DEF Answer
<1> DEFINE B == {x}
<1>8. OwedOnce'
  <2>1. \A i, j \in 1 .. Len(job'[t].calls) :
            job'[t].calls[i].buffer = job'[t].calls[j].buffer => i = j
    BY <1>6
  <2>2. \A b \in B : In(b, accepted)' /\ ~In(b, queue)' /\ ~IsTold(b)'
    BY <1>3, <1>4, <1>5
  <2>3. \A b \in Buffer : \A u \in Threads \ {t} :
            Owes(u, b) => ~In(b, queue)' /\ ~IsTold(b)'
    BY <1>3, <1>4 DEF PlaceInv, OwedOnce
  <2>4. \A b \in B : \A u \in Threads \ {t} : ~Owes(u, b)
    BY <1>5
  <2>5. \A b \in Buffer : In(b, accepted) => In(b, accepted)'
    BY <1>4
  <2>6. \A b \in Buffer : Owes(t, b)' => b \in B
    BY <1>7
  <2>7. OwedOnce
    BY DEF PlaceInv
  <2> HIDE DEF B
  <2> QED
    BY <1>2, <2>1, <2>2, <2>3, <2>4, <2>5, <2>6, <2>7, OwesAfter
<1>9. TakenIsNew' /\ QueuedOnce' /\ ToldWhenDone'
  BY <1>1, <1>3, <1>4, <1>a
  DEF PlaceInv, TakenIsNew, QueuedOnce, ToldWhenDone, Buffer
<1> QED
  BY <1>8, <1>9 DEF PlaceInv

LEMMA FlushIsPlaced ==
  ASSUME IInv, PlaceInv, NEW t \in Threads, FlushQueue(t)
  PROVE  PlaceInv'
<1>a. QueueTypeOK /\ ~deleted /\ queue \in Seq(Buffer) /\ Len(queue) \in Nat
  BY LenProperties DEF IInv, QueueTypeOK, ReferencesCount, FlushQueue, Idle
<1>1. UNCHANGED <<taken, accepted, answers, deleted, buffers>> /\ queue' = <<>>
  BY DEF FlushQueue
<1>2. /\ job'[t].calls = [i \in 1 .. Len(queue) |-> Answer(queue[i], FALSE)]
      /\ \A u \in Threads \ {t} : job'[u] = job[u]
  BY <1>a DEF FlushQueue, QueueTypeOK
<1>3. \A b : ~In(b, queue)'
  <2>1. Len(queue') = 0 /\ 1 .. 0 = {}
    BY <1>1
  <2> QED
    BY <2>1 DEF In
<1>4. /\ \A b : In(b, accepted)' <=> In(b, accepted)
      /\ \A b : IsTold(b)' <=> IsTold(b)
  BY <1>1 DEF In, IsTold
<1>5. /\ Len(job'[t].calls) = Len(queue)
      /\ \A i \in 1 .. Len(queue) : job'[t].calls[i].buffer = queue[i]
  BY <1>2, <1>a DEF Answer
<1> DEFINE B == {b \in Buffer : In(b, queue)}
<1>6. OwedOnce'
  <2>1. \A i, j \in 1 .. Len(job'[t].calls) :
            job'[t].calls[i].buffer = job'[t].calls[j].buffer => i = j
    BY <1>5 DEF PlaceInv, QueuedOnce, Distinct
  <2>2. \A b \in B : In(b, accepted)' /\ ~In(b, queue)' /\ ~IsTold(b)'
    BY <1>3, <1>4 DEF PlaceInv, QueuedOnce
  <2>3. \A b \in Buffer : \A u \in Threads \ {t} :
            Owes(u, b) => ~In(b, queue)' /\ ~IsTold(b)'
    BY <1>3, <1>4 DEF PlaceInv, OwedOnce
  <2>4. \A b \in B : \A u \in Threads \ {t} : ~Owes(u, b)
    BY DEF PlaceInv, OwedOnce
  <2>5. \A b \in Buffer : In(b, accepted) => In(b, accepted)'
    BY <1>4
  <2>6. \A b \in Buffer : Owes(t, b)' => b \in B
    BY <1>5 DEF Owes, In
  <2>7. OwedOnce
    BY DEF PlaceInv
  <2> HIDE DEF B
  <2> QED
    BY <1>2, <2>1, <2>2, <2>3, <2>4, <2>5, <2>6, <2>7, OwesAfter
<1>7. TakenIsNew' /\ ToldWhenDone'
  BY <1>1, <1>4, <1>a DEF PlaceInv, TakenIsNew, ToldWhenDone, Buffer
<1>8. QueuedOnce'
  <2>1. Distinct(queue)'
    <3>1. Len(queue') = 0 /\ 1 .. 0 = {}
      BY <1>1
    <3> QED
      BY <3>1 DEF Distinct
  <2> QED
    BY <1>3, <2>1 DEF QueuedOnce
<1> QED
  BY <1>6, <1>7, <1>8 DEF PlaceInv

(* A callback is called; nobody owes that buffer any more.                 *)
LEMMA CallbackIsPlaced ==
  ASSUME IInv, PlaceInv, NEW t \in Threads, Callback(t)
  PROVE  /\ PlaceInv'
         /\ job[t].calls # <<>> /\ Head(job[t].calls) = job[t].calls[1]
         /\ 1 \in 1 .. Len(job[t].calls) /\ job[t].calls[1] \in Answers
         /\ Owes(t, Head(job[t].calls).buffer)
<1> DEFINE c == job[t].calls
           a == Head(c)
<1>a. QueueTypeOK /\ ~deleted /\ job[t] \in Jobs /\ c \in Seq(Answers) /\ c # <<>>
  BY RecordTypes DEF IInv, QueueTypeOK, ReferencesCount, Callback, Idle
<1>1. /\ UNCHANGED <<taken, queue, accepted, deleted, buffers>>
      /\ answers' = Append(answers, a)
  BY DEF Callback
<1>2. /\ job'[t].calls = Tail(c)
      /\ \A u \in Threads \ {t} : job'[u] = job[u]
  BY <1>a DEF Callback, QueueTypeOK, Jobs
<1>3. /\ a \in Answers /\ a = c[1] /\ Len(c) \in Nat \ {0}
      /\ Len(Tail(c)) = Len(c) - 1
      /\ \A i \in 1 .. Len(c) - 1 : Tail(c)[i] = c[i + 1]
  BY <1>a, HeadTailProperties, EmptySeq, LenProperties
<1>4. a.buffer \in Buffer /\ 1 \in 1 .. Len(c)
  BY <1>3 DEF Answers
<1>5. Owes(t, a.buffer)
  BY <1>3, <1>4 DEF Owes
<1>6. \A b : IsTold(b)' <=> IsTold(b) \/ b = a.buffer
  BY <1>a, <1>1, <1>3, OneMoreTold
<1>7. /\ \A b : In(b, accepted)' <=> In(b, accepted)
      /\ \A b : In(b, queue)' <=> In(b, queue)
  BY <1>1 DEF In
<1>8. In(a.buffer, accepted) /\ ~In(a.buffer, queue)
  BY <1>4, <1>5 DEF PlaceInv, OwedOnce
<1>9. ASSUME NEW b \in Buffer, Owes(t, b)' PROVE Owes(t, b) /\ b # a.buffer
  <2>1. PICK i \in 1 .. Len(c) - 1 : job'[t].calls[i].buffer = b
    BY <1>2, <1>3, <1>9 DEF Owes
  <2>2. i + 1 \in 1 .. Len(c) /\ i + 1 # 1 /\ c[i + 1].buffer = b
    BY <1>2, <1>3, <2>1
  <2>3. Owes(t, b)
    BY <2>2 DEF Owes
  <2>4. c[i + 1].buffer # c[1].buffer
    BY <1>4, <2>2 DEF PlaceInv, OwedOnce
  <2> QED
    BY <1>3, <2>2, <2>3, <2>4
<1> DEFINE B == {b \in Buffer : Owes(t, b) /\ b # a.buffer}
<1>10. OwedOnce'
  <2>1. ASSUME NEW i \in 1 .. Len(job'[t].calls), NEW j \in 1 .. Len(job'[t].calls),
               job'[t].calls[i].buffer = job'[t].calls[j].buffer
        PROVE  i = j
    <3>1. i \in 1 .. Len(c) - 1 /\ j \in 1 .. Len(c) - 1
      BY <1>2, <1>3, <2>1
    <3>2. c[i + 1].buffer = c[j + 1].buffer /\ i + 1 \in 1 .. Len(c) /\ j + 1 \in 1 .. Len(c)
      BY <1>2, <1>3, <2>1, <3>1
    <3>3. i + 1 = j + 1
      BY <3>2 DEF PlaceInv, OwedOnce
    <3> QED
      BY <3>1, <3>3, <1>3
  <2>2. \A b \in B : In(b, accepted)' /\ ~In(b, queue)' /\ ~IsTold(b)'
    BY <1>6, <1>7 DEF PlaceInv, OwedOnce
  <2>3. \A b \in Buffer : \A u \in Threads \ {t} :
            Owes(u, b) => ~In(b, queue)' /\ ~IsTold(b)'
    BY <1>4, <1>5, <1>6, <1>7 DEF PlaceInv, OwedOnce
  <2>4. \A b \in B : \A u \in Threads \ {t} : ~Owes(u, b)
    BY DEF PlaceInv, OwedOnce
  <2>5. \A b \in Buffer : In(b, accepted) => In(b, accepted)'
    BY <1>7
  <2>6. \A b \in Buffer : Owes(t, b)' => b \in B
    BY <1>9
  <2>7. OwedOnce
    BY DEF PlaceInv
  <2> HIDE DEF B
  <2> QED
    BY <1>2, <2>1, <2>2, <2>3, <2>4, <2>5, <2>6, <2>7, OwesAfter
<1>11. TakenIsNew'
  BY <1>1, <1>7 DEF PlaceInv, TakenIsNew, Buffer
<1>12. QueuedOnce'
  <2>1. Distinct(queue)'
    BY <1>1 DEF PlaceInv, QueuedOnce, Distinct
  <2>2. ASSUME NEW b \in Buffer, In(b, queue)' PROVE In(b, accepted)' /\ ~IsTold(b)'
    BY <1>6, <1>7, <1>8, <2>2 DEF PlaceInv, QueuedOnce
  <2> QED
    BY <2>1, <2>2 DEF QueuedOnce, Buffer
<1>13. ToldWhenDone'
  <2>1. ASSUME NEW b \in Buffer, IsTold(b)' PROVE In(b, accepted)'
    BY <1>6, <1>7, <1>8, <1>a, <2>1 DEF PlaceInv, ToldWhenDone
  <2> QED
    BY <2>1 DEF ToldWhenDone, Buffer
<1> QED
  BY <1>a, <1>3, <1>4, <1>5, <1>10, <1>11, <1>12, <1>13 DEF PlaceInv

(* The rest that the deleter sent is answered; it never was in the queue.  *)
LEMMA FinalIsPlaced ==
  ASSUME IInv, PlaceInv, NEW t \in Threads, NEW w \in writes, FinalHandler(t, w)
  PROVE  PlaceInv' /\ w.buffer = FinalBuffer /\ FinalBuffer \in Buffer /\ ~IsTold(FinalBuffer)
<1> DEFINE a == Answer(w.buffer, w.result = "ok")
<1>a. /\ QueueTypeOK /\ deleted /\ w.buffer = FinalBuffer /\ FinalBuffer \in Buffer
      /\ buffers \in Nat /\ FinalBuffer = buffers + 1
  BY MaxSendsAssumption DEF IInv, QueueTypeOK, FinalHandler, Final, FinalBuffer, Buffer
<1>1. /\ UNCHANGED <<taken, queue, accepted, job, deleted, buffers, FinalBuffer>>
      /\ answers' = Append(answers, a) /\ writes' = writes \ {w}
  BY DEF FinalHandler, FinalBuffer
<1>2. writes' = {}
  BY <1>1 DEF IInv, OneWriteAtATime
<1>3. a \in Answers /\ a.buffer = FinalBuffer
  BY <1>a, RecordTypes DEF QueueTypeOK, Answer
<1>4. \A b : IsTold(b)' <=> IsTold(b) \/ b = FinalBuffer
  BY <1>a, <1>1, <1>3, OneMoreTold
<1>5. ~In(FinalBuffer, accepted)
  BY <1>a DEF PlaceInv, TakenIsNew
<1>6. ~IsTold(FinalBuffer)
  BY <1>a, <1>5 DEF PlaceInv, ToldWhenDone
<1>7. /\ \A b : In(b, accepted)' <=> In(b, accepted)
      /\ \A b : In(b, queue)' <=> In(b, queue)
      /\ \A u, b : Owes(u, b)' <=> Owes(u, b)
  BY <1>1 DEF In, Owes
<1>8. TakenIsNew'
  BY <1>1, <1>7 DEF PlaceInv, TakenIsNew, Buffer
<1>9. QueuedOnce'
  <2>1. Distinct(queue)'
    BY <1>1 DEF PlaceInv, QueuedOnce, Distinct
  <2>2. ASSUME NEW b \in Buffer, In(b, queue)' PROVE In(b, accepted)' /\ ~IsTold(b)'
    BY <1>4, <1>5, <1>7, <2>2 DEF PlaceInv, QueuedOnce
  <2> QED
    BY <2>1, <2>2 DEF QueuedOnce, Buffer
<1>10. OwedOnce'
  <2>1. ASSUME NEW u \in Threads, NEW b \in Buffer, Owes(u, b)
        PROVE  In(b, accepted)' /\ ~In(b, queue)' /\ ~IsTold(b)'
    BY <1>4, <1>5, <1>7, <2>1 DEF PlaceInv, OwedOnce
  <2> QED
    BY <1>1, <1>7, <2>1 DEF PlaceInv, OwedOnce, Buffer
<1>11. ToldWhenDone'
  BY <1>1, <1>2, <1>4, <1>7, <1>a DEF PlaceInv, ToldWhenDone, Buffer
<1> QED
  BY <1>a, <1>6, <1>8, <1>9, <1>10, <1>11 DEF PlaceInv

(* Steps keep every buffer at one place.                                   *)
LEMMA NextPlaces == IInv /\ PlaceInv /\ [Next]_vars => PlaceInv'
<1> SUFFICES ASSUME IInv, PlaceInv, [Next]_vars PROVE PlaceInv'
  OBVIOUS
<1>a. QueueTypeOK /\ OneWriteAtATime /\ ReferencesCount
  BY DEF IInv
<1>1. ASSUME NEW s \in Senders, Replace(s) \/ Release(s) PROVE PlaceInv'
  BY <1>1, PlacesSame DEF Replace, Release
<1>2. ASSUME NEW w \in writes, WriteCompletes(w) PROVE PlaceInv'
  BY <1>2, PlacesSame DEF WriteCompletes
<1>3. ASSUME NEW t \in Threads, NEW w \in writes, Dispatch(t, w) PROVE PlaceInv'
  <2>1. \A u \in Threads : job'[u].calls \in {job[u].calls, <<>>}
    BY <1>3, <1>a DEF Dispatch, QueueTypeOK
  <2> QED
    BY <1>3, <2>1, PlacesSame DEF Dispatch
<1>4. ASSUME NEW t \in Threads, NEW w \in writes, DispatchRefused(t, w)
      PROVE  PlaceInv'
  BY <1>4, PlacesSame DEF DispatchRefused
<1>5. ASSUME NEW t \in Threads, HandlerReturns(t) PROVE PlaceInv'
  <2>1. \A u \in Threads : job'[u].calls \in {job[u].calls, <<>>}
    BY <1>5, <1>a DEF HandlerReturns, QueueTypeOK, Idle
  <2> QED
    BY <1>5, <2>1, PlacesSame DEF HandlerReturns
<1>6. CASE SendOnDelete
  BY <1>6, PlacesSame DEF SendOnDelete
<1>7. CASE SocketFails \/ StopRunner \/ StopService \/ StartAgain \/ UNCHANGED vars
  BY <1>7, PlacesSame DEF SocketFails, StopRunner, StopService, StartAgain, vars
<1> QED
  BY <1>1, <1>2, <1>3, <1>4, <1>5, <1>6, <1>7, TakeIsPlaced, EnqueueIsPlaced,
     PopIsPlaced, FlushIsPlaced, CallbackIsPlaced, FinalIsPlaced
  DEF Next, ThreadStep

(* What was written stays written.                                         *)
LEMMA WireGrows ==
  ASSUME QueueTypeOK, [Next]_vars
  PROVE  \A b : In(b, wire) => In(b, wire)'
<1>1. CASE wire' = wire
  BY <1>1 DEF In
<1>2. ASSUME NEW w \in writes, WriteCompletes(w), wire' # wire
      PROVE  \A b : In(b, wire) => In(b, wire)'
  <2>1. wire' = Append(wire, w.buffer) /\ wire \in Seq(Buffer) /\ w.buffer \in Buffer
    BY <1>2, RecordTypes DEF WriteCompletes, QueueTypeOK
  <2>2. \A b : In(b, wire) => In(b, wire')
    BY <2>1, AtTheEnd
  <2> QED
    BY <2>2 DEF In
<1>3. wire' = wire \/ \E w \in writes : WriteCompletes(w)
  BY DEF Next, ThreadStep, vars, Move, Enqueue, Release, SocketFails, Dispatch,
         DispatchRefused, PopHead, FlushQueue, Callback, HandlerReturns,
         SendOnDelete, FinalHandler, StopRunner, Replace, StopService, StartAgain
<1> QED
  BY <1>1, <1>2, <1>3

(* A step that starts or ends no write and leaves the handlers alone.      *)
LEMMA TruthSame ==
  ASSUME QueueTypeOK, TruthInv, [Next]_vars,
         job' = job, up' => up, open' = open \/ (\A t \in Threads : job[t] = Idle),
         \A w \in writes' : w.result = "ok" => w \in writes,
         \A t \in Threads : job[t].at = "ok" => Head(queue') = Head(queue)
  PROVE  TruthInv'
<1>1. \A b : In(b, wire) => In(b, wire)'
  BY WireGrows
<1>2. OkIsWritten'
  BY <1>1 DEF TruthInv, OkIsWritten
<1>3. ReportsAreTrue'
  BY <1>1 DEF TruthInv, ReportsAreTrue
<1>4. HandlersHoldServer'
  BY DEF TruthInv, HandlersHoldServer
<1> QED
  BY <1>2, <1>3, <1>4 DEF TruthInv

(* A step of thread t that changes what it is doing.                       *)
LEMMA TruthOfThread ==
  ASSUME QueueTypeOK, TruthInv, [Next]_vars, NEW t \in Threads,
         \A u \in Threads \ {t} : job'[u] = job[u], up' = up, open' = open,
         \A w \in writes' : w.result = "ok" => w \in writes,
         \A u \in Threads \ {t} : job[u].at = "ok" => Head(queue') = Head(queue),
         job'[t].at = "ok" => In(Head(queue), wire) /\ queue' = queue,
         \A i \in 1 .. Len(job'[t].calls) :
            IF job'[t].calls[i].ok THEN In(job'[t].calls[i].buffer, wire) ELSE ~up,
         job'[t] = Idle \/ open
  PROVE  TruthInv'
<1>1. \A b : In(b, wire) => In(b, wire)'
  BY WireGrows
<1>2. ASSUME NEW u \in Threads, job'[u].at = "ok" PROVE In(Head(queue), wire)'
  <2>1. CASE u = t
    <3>1. In(Head(queue), wire) /\ queue' = queue
      BY <1>2, <2>1
    <3> QED
      BY <1>1, <3>1
  <2>2. CASE u # t
    <3>1. job[u].at = "ok" /\ Head(queue') = Head(queue)
      BY <1>2, <2>2
    <3>2. In(Head(queue), wire)
      BY <3>1 DEF TruthInv, OkIsWritten
    <3> QED
      BY <1>1, <3>1, <3>2
  <2> QED
    BY <2>1, <2>2
<1>3. OkIsWritten'
  BY <1>1, <1>2 DEF TruthInv, OkIsWritten
<1>4. ReportsAreTrue'
  <2> SUFFICES ASSUME NEW u \in Threads, NEW i \in 1 .. Len(job'[u].calls)
               PROVE  IF job'[u].calls[i].ok THEN In(job'[u].calls[i].buffer, wire')
                                             ELSE ~up'
    BY DEF ReportsAreTrue, In
  <2>0. \A b : In(b, wire) => In(b, wire')
    BY <1>1 DEF In
  <2>1. CASE u = t
    BY <2>0, <2>1
  <2>2. CASE u # t
    BY <2>0, <2>2 DEF TruthInv, ReportsAreTrue
  <2> QED
    BY <2>1, <2>2
<1>5. HandlersHoldServer'
  BY DEF TruthInv, HandlersHoldServer
<1> QED
  BY <1>3, <1>4, <1>5 DEF TruthInv

(* Steps preserve that reports are true and find the server there.         *)
LEMMA NextTruth == IInv /\ WireInv /\ TruthInv /\ [Next]_vars => TruthInv'
<1> SUFFICES ASSUME IInv, WireInv, TruthInv, [Next]_vars PROVE TruthInv'
  OBVIOUS
<1>a. QueueTypeOK /\ OneWriteAtATime /\ WriteReadsHead /\ ReferencesCount /\ ErrorsAreFinal
  BY DEF IInv, WireInv
<1>b. 1 .. 0 = {} /\ Len(<<>>) = 0
  OBVIOUS
<1>1. ASSUME NEW s \in Senders, Move(s) \/ Replace(s) \/ Release(s) PROVE TruthInv'
  BY <1>1, <1>a, TruthSame DEF Move, Replace, Release
<1>2. ASSUME NEW s \in Senders, Enqueue(s) PROVE TruthInv'
  <2>1. \A w \in writes' : w.result = "ok" => w \in writes
    BY <1>2 DEF Enqueue, SendFromQueue, PendingWrite
  <2>2. ASSUME NEW t \in Threads, job[t].at = "ok" PROVE Head(queue') = Head(queue)
    <3>1. queue # <<>> /\ queue \in Seq(Buffer) /\ taken[s] \in Buffer
      BY <1>2, <1>a, <2>2 DEF ReferencesCount, Entered, QueueTypeOK, Enqueue
    <3> QED
      BY <1>2, <3>1, AppendFacts DEF Enqueue
  <2> QED
    BY <1>2, <1>a, <2>1, <2>2, TruthSame DEF Enqueue
<1>3. ASSUME NEW w \in writes, WriteCompletes(w) PROVE TruthInv'
  <2> DEFINE v == [w EXCEPT !.result = IF up THEN "ok" ELSE "error"]
  <2>1. writes = {w} /\ writes' = {v} /\ Entered = {} /\ UNCHANGED <<job, up, open>>
    BY <1>3, <1>a DEF WriteCompletes, OneWriteAtATime
  <2>2. v.buffer = w.buffer /\ v.result = (IF up THEN "ok" ELSE "error")
    BY <1>a DEF QueueTypeOK, Writes
  <2>3. ASSUME v.result = "ok" PROVE In(v.buffer, wire')
    <3>1. wire' = Append(wire, w.buffer) /\ wire \in Seq(Buffer) /\ w.buffer \in Buffer
      BY <1>3, <1>a, <2>2, <2>3, RecordTypes DEF WriteCompletes, QueueTypeOK
    <3> QED
      BY <2>2, <3>1, AtTheEnd
  <2>4. \A b : In(b, wire) => In(b, wire)'
    BY <1>a, WireGrows
  <2>5. OkIsWritten'
    <3>1. \A t \in Threads : job'[t].at # "ok"
      BY <2>1 DEF Entered
    <3>2. \A u \in writes' : u.result = "ok" => In(u.buffer, wire')
      BY <2>1, <2>3
    <3> QED
      BY <3>1, <3>2 DEF OkIsWritten, In
  <2>6. ReportsAreTrue' /\ HandlersHoldServer'
    BY <2>1, <2>4 DEF TruthInv, ReportsAreTrue, HandlersHoldServer
  <2> QED
    BY <2>5, <2>6 DEF TruthInv
<1>4. ASSUME NEW t \in Threads, NEW w \in writes, Dispatch(t, w) PROVE TruthInv'
  <2>1. /\ job'[t].at = w.result /\ job'[t].calls = <<>>
        /\ \A u \in Threads \ {t} : job'[u] = job[u]
    BY <1>4, <1>a DEF Dispatch, QueueTypeOK
  <2>2. Entered = {} /\ w.buffer = Head(queue)
    BY <1>4, <1>a DEF Dispatch, OneWriteAtATime, WriteReadsHead
  <2>3. \A u \in Threads \ {t} : job[u].at # "ok"
    BY <2>2 DEF Entered
  <2>4. w.result = "ok" => In(Head(queue), wire)
    BY <2>2 DEF TruthInv, OkIsWritten
  <2>5. UNCHANGED <<queue, up, open>> /\ writes' \subseteq writes /\ open
    BY <1>4 DEF Dispatch
  <2> QED
    BY <1>a, <1>b, <2>1, <2>3, <2>4, <2>5, TruthOfThread
<1>5. ASSUME NEW t \in Threads, NEW w \in writes,
             DispatchRefused(t, w) \/ FinalHandler(t, w)
      PROVE  TruthInv'
  BY <1>5, <1>a, TruthSame DEF DispatchRefused, FinalHandler
<1>6. ASSUME NEW t \in Threads, PopHead(t) PROVE TruthInv'
  <2>1. /\ job'[t].at = "call" /\ job'[t].calls = <<Answer(Head(queue), TRUE)>>
        /\ \A u \in Threads \ {t} : job'[u] = job[u]
    BY <1>6, <1>a DEF PopHead, QueueTypeOK
  <2>2. \A u \in Threads \ {t} : job[u].at # "ok"
    BY <1>6, <1>a DEF PopHead, OneWriteAtATime, Entered
  <2>3. \A w \in writes' : w.result = "ok" => w \in writes
    BY <1>6 DEF PopHead, SendFromQueue, PendingWrite
  <2>4. In(Head(queue), wire) /\ open
    BY <1>6 DEF PopHead, TruthInv, OkIsWritten, HandlersHoldServer, Idle
  <2>5. ASSUME NEW i \in 1 .. Len(job'[t].calls)
        PROVE  job'[t].calls[i].ok /\ job'[t].calls[i].buffer = Head(queue)
    <3>1. i = 1 /\ job'[t].calls[1] = Answer(Head(queue), TRUE)
      BY <2>1, <2>5
    <3> QED
      BY <3>1 DEF Answer
  <2>6. up' = up /\ open' = open
    BY <1>6 DEF PopHead
  <2> QED
    BY <1>a, <2>1, <2>2, <2>3, <2>4, <2>5, <2>6, TruthOfThread
<1>7. ASSUME NEW t \in Threads, FlushQueue(t) PROVE TruthInv'
  <2>1. /\ job'[t].at = "call"
        /\ job'[t].calls = [i \in 1 .. Len(queue) |-> Answer(queue[i], FALSE)]
        /\ \A u \in Threads \ {t} : job'[u] = job[u]
    BY <1>7, <1>a DEF FlushQueue, QueueTypeOK
  <2>2. \A u \in Threads \ {t} : job[u].at # "ok"
    BY <1>7, <1>a DEF FlushQueue, OneWriteAtATime, Entered
  <2>3. ~up /\ open /\ up' = up /\ open' = open /\ writes' = writes
    BY <1>7, <1>a DEF FlushQueue, ErrorsAreFinal, TruthInv, HandlersHoldServer, Idle
  <2>4. ASSUME NEW i \in 1 .. Len(job'[t].calls) PROVE ~job'[t].calls[i].ok
    <3>1. Len(queue) \in Nat
      BY <1>a, LenProperties DEF QueueTypeOK
    <3>2. i \in 1 .. Len(queue)
      BY <2>1, <2>4, <3>1
    <3> QED
      BY <2>1, <3>2 DEF Answer
  <2> QED
    BY <1>a, <2>1, <2>2, <2>3, <2>4, TruthOfThread
<1>8. ASSUME NEW t \in Threads, Callback(t) PROVE TruthInv'
  <2> DEFINE c == job[t].calls
  <2>1. c \in Seq(Answers) /\ c # <<>>
    BY <1>8, <1>a, RecordTypes DEF Callback, QueueTypeOK
  <2>2. /\ Len(c) \in Nat \ {0} /\ Len(Tail(c)) = Len(c) - 1
        /\ \A i \in 1 .. Len(c) - 1 : Tail(c)[i] = c[i + 1]
    BY <2>1, HeadTailProperties, EmptySeq, LenProperties
  <2>3. /\ job'[t].at = "call" /\ job'[t].calls = Tail(c)
        /\ \A u \in Threads \ {t} : job'[u] = job[u]
    BY <1>8, <1>a DEF Callback, QueueTypeOK, Jobs
  <2>4. open /\ UNCHANGED <<queue, writes, up, open>>
    BY <1>8 DEF Callback, TruthInv, HandlersHoldServer, Idle
  <2>5. ASSUME NEW i \in 1 .. Len(job'[t].calls)
        PROVE  IF job'[t].calls[i].ok THEN In(job'[t].calls[i].buffer, wire) ELSE ~up
    <3>1. i + 1 \in 1 .. Len(c) /\ job'[t].calls[i] = c[i + 1]
      BY <2>2, <2>3, <2>5
    <3> QED
      BY <3>1 DEF TruthInv, ReportsAreTrue
  <2> QED
    BY <1>a, <2>3, <2>4, <2>5, TruthOfThread
<1>9. ASSUME NEW t \in Threads, HandlerReturns(t) PROVE TruthInv'
  <2>1. job'[t] = Idle /\ \A u \in Threads \ {t} : job'[u] = job[u]
    BY <1>9, <1>a DEF HandlerReturns, QueueTypeOK
  <2>2. job'[t].at # "ok" /\ Len(job'[t].calls) = 0
    BY <1>b, <2>1 DEF Idle
  <2>3. UNCHANGED <<queue, writes, up, open>>
    BY <1>9 DEF HandlerReturns
  <2> QED
    BY <1>a, <1>b, <2>1, <2>2, <2>3, TruthOfThread
<1>10. CASE SendOnDelete
  <2>1. \A w \in writes' : w.result = "ok" => w \in writes
    BY <1>10 DEF SendOnDelete, PendingWrite
  <2> QED
    BY <1>10, <1>a, <2>1, TruthSame DEF SendOnDelete
<1>11. CASE SocketFails \/ StopRunner \/ StopService \/ StartAgain \/ UNCHANGED vars
  BY <1>11, <1>a, TruthSame DEF SocketFails, StopRunner, StopService, StartAgain, vars
<1> QED
  BY <1>1, <1>2, <1>3, <1>4, <1>5, <1>6, <1>7, <1>8, <1>9, <1>10, <1>11
  DEF Next, ThreadStep

\* SendPromise's `rest`.
Rest == RestOf(\E w \in writes : w.result = "pending")

(* What SendPromise sees of a step that it does not see.                   *)
LEMMA Stutter ==
  ASSUME UNCHANGED <<accepted, wire, answers, up, open, deleted>>,
         deleted => ((\E w \in writes' : w.result = "pending")
                        <=> (\E w \in writes : w.result = "pending"))
  PROVE  UNCHANGED Promise!vars
<1>1. Rest' = Rest
  BY DEF Rest, RestOf
<1> QED
  BY <1>1 DEF Rest, Promise!vars

LEMMA EnqueueIsAccept ==
  ASSUME IInv, PlaceInv, NEW s \in Senders, Enqueue(s)
  PROVE  Promise!Next
<1>1. taken[s] \in Buffer /\ ~In(taken[s], accepted) /\ ~IsTold(taken[s])
  BY EnqueueIsPlaced
<1>2. Rest = "kept" /\ Rest' = Rest
  BY DEF Rest, RestOf, Enqueue, IInv, QueueTypeOK, ReferencesCount
<1>3. Promise!Accept(taken[s])
  BY <1>1, <1>2
  DEF Rest, Promise!Accept, Promise!Has, Promise!Told, In, IsTold, Enqueue
<1> QED
  BY <1>1, <1>3 DEF Promise!Next

LEMMA WriteIsDelivery ==
  ASSUME IInv, WireInv, PlaceInv, NEW w \in writes, WriteCompletes(w)
  PROVE  Promise!Next \/ UNCHANGED Promise!vars
<1> DEFINE v == [w EXCEPT !.result = IF up THEN "ok" ELSE "error"]
<1>a. /\ QueueTypeOK /\ OneWriteAtATime /\ WriteReadsHead /\ ReferencesCount
      /\ InOrder /\ RestComesLast
  BY DEF IInv, WireInv
<1>b. /\ queue \in Seq(Buffer) /\ accepted \in Seq(Buffer) /\ wire \in Seq(Buffer)
      /\ buffers \in Nat /\ FinalBuffer = buffers + 1 /\ FinalBuffer \in Buffer
  BY <1>a, MaxSendsAssumption DEF QueueTypeOK, FinalBuffer, Buffer
<1>1. /\ writes = {w} /\ writes' = {v} /\ w.result = "pending" /\ Entered = {}
      /\ UNCHANGED <<queue, accepted, answers, up, open, deleted>>
      /\ wire' = IF up THEN Append(wire, w.buffer) ELSE wire
  BY <1>a DEF WriteCompletes, OneWriteAtATime
<1>2. v.result # "pending"
  BY <1>a DEF QueueTypeOK, Writes
<1>3. CASE ~deleted /\ up
  <2>1. queue # <<>> /\ w.buffer = Head(queue)
    BY <1>3, <1>a DEF WriteReadsHead, Final
  <2>2. wire \o queue = accepted
    <3>1. Unwritten = queue
      BY <1>1 DEF Unwritten, Entered
    <3> QED
      BY <1>1, <1>3, <3>1, <1>a DEF InOrder
  <2>3. Len(wire) < Len(accepted) /\ accepted[Len(wire) + 1] = Head(queue)
    <3>1. Len(queue) \in Nat \ {0} /\ Len(wire) \in Nat /\ Head(queue) = queue[1]
      BY <1>b, <2>1, HeadTailProperties, EmptySeq, LenProperties
    <3>2. /\ Len(accepted) = Len(wire) + Len(queue)
          /\ \A i \in 1 .. Len(wire) + Len(queue) :
                accepted[i] = IF i <= Len(wire) THEN wire[i] ELSE queue[i - Len(wire)]
      BY <1>b, <2>2, ConcatProperties
    <3>3. Len(wire) + 1 \in 1 .. Len(wire) + Len(queue) /\ ~(Len(wire) + 1 <= Len(wire))
          /\ Len(wire) + 1 - Len(wire) = 1
      BY <3>1
    <3> QED
      BY <3>1, <3>2, <3>3
  <2>4. Rest = "kept" /\ Rest' = Rest
    BY <1>1, <1>3 DEF Rest, RestOf
  <2>5. Promise!Deliver
    BY <1>1, <1>3, <2>1, <2>3, <2>4 DEF Rest, Promise!Deliver
  <2> QED
    BY <2>5 DEF Promise!Next
<1>4. CASE ~deleted /\ ~up
  BY <1>1, <1>4, Stutter
<1>5. CASE deleted
  <2>1. Rest = "sending" /\ Rest' = "sent"
    BY <1>1, <1>2, <1>5 DEF Rest, RestOf
  <2>2. w.buffer = FinalBuffer
    BY <1>5, <1>a DEF ReferencesCount, Final
  <2>3. ~In(FinalBuffer, accepted)
    BY <1>b DEF PlaceInv, TakenIsNew
  <2>4. open /\ up => wire = accepted
    BY <1>1, <1>5, <1>a DEF RestComesLast
  <2>5. Promise!RestSent(FinalBuffer)
    BY <1>1, <2>1, <2>2, <2>3, <2>4 DEF Rest, Promise!RestSent, Promise!Has, In
  <2> QED
    BY <1>b, <2>5 DEF Promise!Next
<1> QED
  BY <1>3, <1>4, <1>5

LEMMA CallbackIsTell ==
  ASSUME IInv, PlaceInv, TruthInv, NEW t \in Threads, Callback(t)
  PROVE  Promise!Next
<1> DEFINE a == job[t].calls[1]
<1>1. /\ Head(job[t].calls) = a /\ 1 \in 1 .. Len(job[t].calls)
      /\ a \in Answers /\ Owes(t, a.buffer)
  BY CallbackIsPlaced
<1>2. a.buffer \in Buffer /\ a.ok \in BOOLEAN /\ a = [buffer |-> a.buffer, ok |-> a.ok]
  BY <1>1 DEF Answers
<1>3. In(a.buffer, accepted) /\ ~IsTold(a.buffer)
  BY <1>1, <1>2 DEF PlaceInv, OwedOnce
<1>4. IF a.ok THEN In(a.buffer, wire) ELSE ~up
  BY <1>1 DEF TruthInv, ReportsAreTrue
<1>5. open
  BY DEF Callback, TruthInv, HandlersHoldServer, Idle
<1>6. /\ answers' = Append(answers, a)
      /\ UNCHANGED <<accepted, wire, up, open, deleted, writes>>
  BY <1>1 DEF Callback
<1>7. Rest' = Rest
  BY <1>6 DEF Rest, RestOf
<1> HIDE DEF a
<1>8. Promise!Tell(a.buffer, a.ok)
  BY <1>2, <1>3, <1>4, <1>5, <1>6, <1>7
  DEF Rest, Promise!Tell, Promise!Has, Promise!Told, In, IsTold
<1> QED
  BY <1>2, <1>8 DEF Promise!Next

LEMMA FinalIsTell ==
  ASSUME IInv, WireInv, PlaceInv, TruthInv, NEW t \in Threads, NEW w \in writes,
         FinalHandler(t, w)
  PROVE  Promise!Next
<1> DEFINE ok == w.result = "ok"
<1>1. w.buffer = FinalBuffer /\ FinalBuffer \in Buffer /\ ~IsTold(FinalBuffer)
  BY FinalIsPlaced
<1>2. /\ deleted /\ deleted' /\ writes = {w} /\ writes' = {} /\ w.result # "pending" /\ open
      /\ answers' = Append(answers, [buffer |-> FinalBuffer, ok |-> ok])
      /\ UNCHANGED <<accepted, wire, up, open>>
  BY <1>1 DEF FinalHandler, Final, IInv, OneWriteAtATime, Answer
<1>3. Rest = "sent" /\ Rest' = "sent"
  BY <1>2 DEF Rest, RestOf
<1>4. ok => In(FinalBuffer, wire)
  BY <1>1 DEF TruthInv, OkIsWritten
<1>5. ~ok => ~up
  <2>1. w.result \in {"pending", "ok", "error"}
    BY RecordTypes DEF IInv, QueueTypeOK
  <2> QED
    BY <1>2, <2>1 DEF WireInv, ErrorsAreFinal
<1>6. ok \in BOOLEAN
  OBVIOUS
<1> HIDE DEF ok
<1>7. Promise!Tell(FinalBuffer, ok)
  BY <1>1, <1>2, <1>3, <1>4, <1>5
  DEF Rest, Promise!Tell, Promise!Has, Promise!Told, In, IsTold
<1> QED
  BY <1>1, <1>6, <1>7 DEF Promise!Next

LEMMA DeleteIsSendRest ==
  ASSUME IInv, WireInv, SendOnDelete
  PROVE  Promise!Next
<1>1. /\ writes = {} /\ Entered = {} /\ ~deleted /\ deleted'
      /\ UNCHANGED <<accepted, wire, answers, up, open>>
      /\ writes' = {PendingWrite(FinalBuffer)}
  BY DEF SendOnDelete, Unreferenced, Entered, Idle
<1>2. Rest = "kept" /\ Rest' = "sending"
  <2>1. PendingWrite(FinalBuffer).result = "pending"
    BY DEF PendingWrite
  <2>2. \E w \in writes' : w.result = "pending"
    BY <1>1, <2>1
  <2> QED
    BY <1>1, <2>2 DEF Rest, RestOf
<1>3. open /\ up => wire = accepted
  <2>1. open => queue = <<>>
    BY <1>1 DEF IInv, QueueIsServed
  <2>2. Unwritten = queue
    BY <1>1 DEF Unwritten, Entered
  <2>3. wire \in Seq(Buffer)
    BY DEF IInv, QueueTypeOK
  <2> QED
    BY <1>1, <2>1, <2>2, <2>3, ConcatEmptySeq DEF WireInv, InOrder
<1>4. Promise!SendRest
  BY <1>1, <1>2, <1>3 DEF Rest, Promise!SendRest
<1> QED
  BY <1>4 DEF Promise!Next

(* At the start every buffer is in its place and nothing is to be told.    *)
LEMMA InitPlaces == Init => PlaceInv /\ TruthInv
<1> SUFFICES ASSUME Init PROVE PlaceInv /\ TruthInv
  OBVIOUS
<1>1. /\ queue = <<>> /\ accepted = <<>> /\ answers = <<>> /\ writes = {}
      /\ \A t \in Threads : job[t] = Idle /\ job[t].calls = <<>> /\ job[t].at = "idle"
      /\ \A s \in Senders : taken[s] = None
  BY DEF Init, Idle
<1>2. Len(<<>>) = 0 /\ 1 .. 0 = {}
  OBVIOUS
<1>3. (\A b : ~In(b, <<>>)) /\ Distinct(<<>>)
  BY <1>2 DEF In, Distinct
<1>4. (\A b : ~IsTold(b)) /\ \A t \in Threads : \A b : ~Owes(t, b)
  BY <1>1, <1>2 DEF IsTold, Owes
<1>5. TakenIsNew /\ QueuedOnce /\ ToldWhenDone
  BY <1>1, <1>3, <1>4 DEF TakenIsNew, QueuedOnce, ToldWhenDone
<1>6. OwedOnce /\ ReportsAreTrue
  BY <1>1, <1>2, <1>4 DEF OwedOnce, ReportsAreTrue
<1>7. OkIsWritten /\ HandlersHoldServer
  BY <1>1 DEF OkIsWritten, HandlersHoldServer
<1> QED
  BY <1>5, <1>6, <1>7 DEF PlaceInv, TruthInv

(* Senders, io threads, failures and the deleter together keep             *)
(* SendPromise, whatever their number and order                            *)
(* (src/server_http.hpp:62-160): what was accepted goes out in order and   *)
(* without a gap, the rest after it, and every callback is called at most  *)
(* once, with the truth, and never after the server is gone.               *)
THEOREM Refinement == Spec => KeepsPromise
<1>1. Init => Promise!Init
  <2> SUFFICES ASSUME Init PROVE Promise!Init
    OBVIOUS
  <2>1. Rest = "kept"
    BY DEF Init, Rest, RestOf
  <2> QED
    BY <2>1 DEF Init, Rest, Promise!Init
<1>2. IInv /\ WireInv /\ PlaceInv /\ TruthInv /\ [Next]_vars
        => [Promise!Next]_Promise!vars
  <2> SUFFICES ASSUME IInv, WireInv, PlaceInv, TruthInv, [Next]_vars
               PROVE  Promise!Next \/ UNCHANGED Promise!vars
    OBVIOUS
  <2>1. ASSUME NEW s \in Senders, Move(s) \/ Replace(s) \/ Release(s)
        PROVE  UNCHANGED Promise!vars
    BY <2>1, Stutter DEF Move, Replace, Release
  <2>2. ASSUME NEW t \in Threads, NEW w \in writes,
               Dispatch(t, w) \/ DispatchRefused(t, w)
        PROVE  UNCHANGED Promise!vars
    <3>1. /\ UNCHANGED <<accepted, wire, answers, up, open, deleted>>
          /\ writes' = writes \ {w} /\ w.result # "pending"
      BY <2>2 DEF Dispatch, DispatchRefused
    <3> QED
      BY <3>1, Stutter
  <2>3. ASSUME NEW t \in Threads, PopHead(t) \/ FlushQueue(t) \/ HandlerReturns(t)
        PROVE  UNCHANGED Promise!vars
    <3>1. UNCHANGED <<accepted, wire, answers, up, open, deleted>>
      BY <2>3 DEF PopHead, FlushQueue, HandlerReturns
    <3>2. ~deleted
      <4>1. job[t].at # "idle"
        BY <2>3 DEF PopHead, FlushQueue, HandlerReturns
      <4>2. deleted => job[t] = Idle
        BY DEF IInv, ReferencesCount
      <4> QED
        BY <4>1, <4>2 DEF Idle
    <3> QED
      BY <3>1, <3>2, Stutter
  <2>4. CASE SocketFails
    <3>1. Rest' = Rest
      BY <2>4 DEF SocketFails, Rest, RestOf
    <3>2. Promise!Break
      BY <2>4, <3>1 DEF SocketFails, Rest, Promise!Break
    <3> QED
      BY <3>2 DEF Promise!Next
  <2>5. CASE StopRunner
    <3>1. Rest' = Rest
      BY <2>5 DEF StopRunner, Rest, RestOf
    <3>2. Promise!Close
      BY <2>5, <3>1 DEF StopRunner, Rest, Promise!Close
    <3> QED
      BY <3>2 DEF Promise!Next
  <2>6. CASE StopService \/ StartAgain \/ UNCHANGED vars
    <3>1. UNCHANGED <<accepted, wire, answers, up, open, deleted, writes>>
      BY <2>6 DEF StopService, StartAgain, vars
    <3> QED
      BY <3>1, Stutter
  <2> QED
    BY <2>1, <2>2, <2>3, <2>4, <2>5, <2>6, EnqueueIsAccept, WriteIsDelivery,
       CallbackIsTell, FinalIsTell, DeleteIsSendRest
    DEF Next, ThreadStep
<1> QED
  BY <1>1, <1>2, InitPlaces, Invariance, WireInvariance, NextPlaces, NextTruth, PTL
  DEF Spec, KeepsPromise, Promise!Spec
-----------------------------------------------------------------------------
(* The order of the stream *)

StreamInv ==
    /\ StreamTypeOK
    /\ \A s \in moved : taken[s] # None
    /\ empty => moved # {}
    /\ \A n \in nulls : \E m \in 1 .. n - 1 : <<m, n>> \in overlaps

\* Two buffers in their order, or one was moved in the other's send().
Follows(m, n) == m < n \/ <<n, m>> \in overlaps

\* What holds of two buffers on their way, of one on its way and one in the
\* queue, and of two that went into the queue.
OrderInv ==
    /\ \A r, s \in Senders :
          taken[r] # None /\ taken[s] # None /\ taken[r] < taken[s]
             => <<taken[r], taken[s]>> \in overlaps
    /\ \A s \in Senders : taken[s] # None =>
          \A i \in 1 .. Len(accepted) : Follows(accepted[i], taken[s])
    /\ \A j \in 1 .. Len(accepted) : \A i \in 1 .. j - 1 :
          Follows(accepted[i], accepted[j])

\* The wire, also when a destroyed server sends the rest after a gap.
WireOrder ==
    /\ \A j \in 1 .. Len(wire) : \A i \in 1 .. j - 1 : Follows(wire[i], wire[j])
    /\ deleted /\ (\E w \in writes : w.result = "pending") =>
          \A i \in 1 .. Len(wire) : wire[i] <= buffers

(* Steps that leave the stream, the senders and the queue's history alone  *)
(* preserve what is said of them.                                          *)
LEMMA StreamSame ==
  ASSUME StreamInv, UNCHANGED <<taken, stream>>,
         running' \in BOOLEAN, crashed' \in BOOLEAN
  PROVE  StreamInv'
BY DEF StreamInv, StreamTypeOK, stream

LEMMA OrderSame ==
  ASSUME OrderInv, UNCHANGED <<taken, accepted, overlaps>>
  PROVE  OrderInv'
BY DEF OrderInv, Follows

(* What send() does to the stream.                                         *)
LEMMA MoveKeepsOrder ==
  ASSUME IInv, PlaceInv, StreamInv, OrderInv, NEW s \in Senders, Move(s)
  PROVE  StreamInv' /\ OrderInv'
<1> DEFINE n == buffers + 1
<1>a. /\ QueueTypeOK /\ buffers \in Nat /\ MaxSends \in Nat /\ n \in Buffer
      /\ \A r \in Senders : taken[r] \in Nat
      /\ \A r \in Senders : taken[r] # None =>
            taken[r] \in Buffer /\ taken[r] \in 1 .. n - 1
  BY MaxSendsAssumption
  DEF IInv, QueueTypeOK, PlaceInv, TakenIsNew, Move, Buffer, None
<1>1. /\ taken[s] = None /\ taken'[s] = n
      /\ \A r \in Senders \ {s} : taken'[r] = taken[r]
      /\ moved' = moved \cup {s} /\ empty' = TRUE
      /\ nulls' = IF empty THEN nulls \cup {n} ELSE nulls
      /\ overlaps' = overlaps \cup {<<taken[r], n>> :
                                      r \in {u \in Senders : taken[u] # None}}
      /\ UNCHANGED <<accepted, running, crashed>>
  BY <1>a DEF Move, QueueTypeOK, process
<1>2. \A r \in Senders : taken[r] # None => <<taken[r], n>> \in overlaps'
  BY <1>1
<1>3. overlaps \subseteq overlaps'
  BY <1>1
<1>4. StreamTypeOK'
  <2>1. overlaps' \subseteq Buffer \X Buffer
    BY <1>a, <1>1 DEF StreamInv, StreamTypeOK
  <2> QED
    BY <1>a, <1>1, <2>1 DEF StreamInv, StreamTypeOK
<1>5. \A r \in moved' : taken'[r] # None
  BY <1>a, <1>1 DEF StreamInv, StreamTypeOK, None
<1>6. ASSUME NEW k \in nulls' PROVE \E m \in 1 .. k - 1 : <<m, k>> \in overlaps'
  <2>1. CASE k \in nulls
    BY <1>3, <2>1 DEF StreamInv
  <2>2. CASE k = n /\ empty
    <3>1. PICK r \in moved : taken[r] # None
      BY <2>2 DEF StreamInv
    <3> QED
      BY <1>2, <1>a, <2>2, <3>1 DEF StreamInv, StreamTypeOK
  <2> QED
    BY <1>1, <1>6, <2>1, <2>2
<1>7. \A a, b : Follows(a, b) => Follows(a, b)'
  BY <1>3 DEF Follows
<1>8. ASSUME NEW r \in Senders, NEW u \in Senders,
             taken'[r] # None, taken'[u] # None, taken'[r] < taken'[u]
      PROVE  <<taken'[r], taken'[u]>> \in overlaps'
  <2>1. CASE u = s
    <3>1. r # s
      BY <1>8, <1>1, <1>a, <2>1
    <3> QED
      BY <1>8, <1>1, <1>2, <2>1, <3>1
  <2>2. CASE u # s
    <3>1. taken'[u] = taken[u] /\ taken[u] \in 1 .. n - 1
      BY <1>8, <1>1, <1>a, <2>2
    <3>2. r # s
      BY <1>8, <1>1, <1>a, <3>1
    <3>3. taken'[r] = taken[r]
      BY <1>1, <3>2
    <3> QED
      BY <1>8, <1>3, <3>1, <3>3 DEF OrderInv
  <2> QED
    BY <2>1, <2>2
<1>9. ASSUME NEW u \in Senders, taken'[u] # None, NEW i \in 1 .. Len(accepted')
      PROVE  Follows(accepted[i], taken[u])'
  <2>1. i \in 1 .. Len(accepted) /\ accepted' = accepted
    BY <1>1, <1>9
  <2>2. CASE u = s
    <3>1. accepted[i] \in Buffer /\ In(accepted[i], accepted)
      BY <2>1, <1>a, SmallSeq DEF QueueTypeOK, In
    <3>2. accepted[i] <= buffers
      BY <3>1 DEF PlaceInv, TakenIsNew
    <3> QED
      BY <1>1, <1>a, <2>1, <2>2, <3>1, <3>2 DEF Follows, Buffer
  <2>3. CASE u # s
    BY <1>9, <1>1, <1>7, <2>1, <2>3 DEF OrderInv, Follows
  <2> QED
    BY <2>2, <2>3
<1>10. \A j \in 1 .. Len(accepted') : \A i \in 1 .. j - 1 :
          Follows(accepted[i], accepted[j])'
  BY <1>1, <1>3 DEF OrderInv, Follows
<1> QED
  BY <1>1, <1>4, <1>5, <1>6, <1>8, <1>9, <1>10 DEF StreamInv, OrderInv

LEMMA EnqueueKeepsOrder ==
  ASSUME IInv, PlaceInv, StreamInv, OrderInv, NEW s \in Senders, Enqueue(s)
  PROVE  StreamInv' /\ OrderInv'
<1> DEFINE x == taken[s]  k == Len(accepted)
<1>a. /\ QueueTypeOK /\ x \in Buffer /\ x # None /\ s \notin moved
      /\ accepted \in Seq(Buffer) /\ k \in Nat
      /\ \A r \in Senders : taken[r] \in Nat
  BY MaxSendsAssumption, SmallSeq DEF IInv, QueueTypeOK, Enqueue, Buffer, None
<1>1. /\ taken'[s] = None /\ \A r \in Senders \ {s} : taken'[r] = taken[r]
      /\ accepted' = Append(accepted, x) /\ crashed' \in BOOLEAN
      /\ UNCHANGED <<moved, empty, nulls, overlaps, running>>
  BY <1>a DEF Enqueue, QueueTypeOK, stream, ReadsNull
<1>2. /\ Len(accepted') = k + 1 /\ accepted'[k + 1] = x
      /\ \A i \in 1 .. k : accepted'[i] = accepted[i]
  BY <1>1, <1>a
<1>3. StreamInv'
  BY <1>1, <1>a DEF StreamInv, StreamTypeOK
<1>4. \A r, u \in Senders :
         taken'[r] # None /\ taken'[u] # None /\ taken'[r] < taken'[u]
            => <<taken'[r], taken'[u]>> \in overlaps'
  BY <1>1 DEF OrderInv
<1>5. ASSUME NEW u \in Senders, taken'[u] # None, NEW i \in 1 .. Len(accepted')
      PROVE  Follows(accepted[i], taken[u])'
  <2>1. u # s /\ taken'[u] = taken[u] /\ taken[u] # x /\ taken[u] \in Nat
    BY <1>5, <1>1, <1>a DEF PlaceInv, TakenIsNew
  <2>2. CASE i = k + 1
    <3>1. x < taken[u] \/ <<taken[u], x>> \in overlaps
      BY <1>5, <1>a, <2>1 DEF OrderInv, Buffer
    <3> QED
      BY <1>1, <1>2, <2>1, <2>2, <3>1 DEF Follows
  <2>3. CASE i # k + 1
    <3>1. i \in 1 .. k
      BY <1>5, <1>2, <1>a, <2>3
    <3>2. Follows(accepted[i], taken[u])
      BY <1>5, <2>1, <3>1 DEF OrderInv
    <3> QED
      BY <1>1, <1>2, <2>1, <3>1, <3>2 DEF Follows
  <2> QED
    BY <2>2, <2>3
<1>6. ASSUME NEW j \in 1 .. Len(accepted'), NEW i \in 1 .. j - 1
      PROVE  Follows(accepted[i], accepted[j])'
  <2>1. i \in 1 .. k /\ accepted'[i] = accepted[i]
    BY <1>6, <1>2, <1>a
  <2>2. CASE j = k + 1
    <3>1. Follows(accepted[i], x)
      BY <1>a, <2>1 DEF OrderInv
    <3> QED
      BY <1>1, <1>2, <2>1, <2>2, <3>1 DEF Follows
  <2>3. CASE j # k + 1
    <3>1. j \in 1 .. k /\ accepted'[j] = accepted[j]
      BY <1>6, <1>2, <1>a, <2>3
    <3> QED
      BY <1>1, <2>1, <3>1, <1>6 DEF OrderInv, Follows
  <2> QED
    BY <2>2, <2>3
<1> QED
  BY <1>3, <1>4, <1>5, <1>6 DEF OrderInv

(* Steps preserve the order of the stream.                                 *)
LEMMA NextOrder ==
  IInv /\ PlaceInv /\ StreamInv /\ OrderInv /\ [Next]_vars => StreamInv' /\ OrderInv'
<1> SUFFICES ASSUME IInv, PlaceInv, StreamInv, OrderInv, [Next]_vars
             PROVE  StreamInv' /\ OrderInv'
  OBVIOUS
<1>a. running \in BOOLEAN /\ crashed \in BOOLEAN
  BY DEF StreamInv, StreamTypeOK
<1>1. ASSUME NEW s \in Senders, Replace(s) PROVE StreamInv' /\ OrderInv'
  <2>1. StreamInv'
    BY <1>1, <1>a DEF Replace, StreamInv, StreamTypeOK, process
  <2> QED
    BY <1>1, <2>1, OrderSame DEF Replace
<1>2. ASSUME UNCHANGED <<taken, accepted, stream>>,
             running' \in BOOLEAN, crashed' \in BOOLEAN
      PROVE  StreamInv' /\ OrderInv'
  BY <1>2, StreamSame, OrderSame DEF stream
<1>3. ASSUME NEW s \in Senders, Release(s) PROVE StreamInv' /\ OrderInv'
  BY <1>3, <1>2, <1>a DEF Release, process
<1>4. ASSUME NEW w \in writes, WriteCompletes(w) PROVE StreamInv' /\ OrderInv'
  BY <1>4, <1>2, <1>a DEF WriteCompletes, process
<1>5. ASSUME NEW t \in Threads, ThreadStep(t) PROVE StreamInv' /\ OrderInv'
  <2>1. UNCHANGED <<taken, accepted, stream>>
    BY <1>5
    DEF ThreadStep, Dispatch, DispatchRefused, FinalHandler, PopHead,
        FlushQueue, Callback, HandlerReturns
  <2>2. running' \in BOOLEAN /\ crashed' \in BOOLEAN
    BY <1>5, <1>a
    DEF ThreadStep, Dispatch, DispatchRefused, FinalHandler, PopHead,
        FlushQueue, Callback, HandlerReturns, process, ReadsNull
  <2> QED
    BY <1>2, <2>1, <2>2
<1>6. CASE SocketFails \/ SendOnDelete \/ StopRunner \/ StopService \/ StartAgain
  BY <1>6, <1>2, <1>a
  DEF SocketFails, SendOnDelete, StopRunner, StopService, StartAgain, process
<1>7. CASE UNCHANGED vars
  BY <1>7, <1>2, <1>a DEF vars, process
<1> QED
  BY <1>1, <1>3, <1>4, <1>5, <1>6, <1>7, MoveKeepsOrder, EnqueueKeepsOrder DEF Next

(* A prefix of what was accepted is in order.                              *)
LEMMA PrefixInOrder ==
  ASSUME OrderInv, PlaceInv, accepted \in Seq(Buffer), wire \in Seq(Buffer),
         IsPrefixOf(wire, accepted)
  PROVE  /\ \A j \in 1 .. Len(wire) : \A i \in 1 .. j - 1 : Follows(wire[i], wire[j])
         /\ \A i \in 1 .. Len(wire) : wire[i] <= buffers
<1>1. /\ Len(wire) \in Nat /\ Len(accepted) \in Nat /\ Len(wire) <= Len(accepted)
      /\ \A i \in 1 .. Len(wire) : wire[i] = accepted[i] /\ wire[i] \in Buffer
  BY SmallSeq DEF IsPrefixOf
<1>2. ASSUME NEW j \in 1 .. Len(wire), NEW i \in 1 .. j - 1
      PROVE  Follows(wire[i], wire[j])
  <2>1. j \in 1 .. Len(accepted) /\ i \in 1 .. Len(wire)
    BY <1>1, <1>2
  <2> QED
    BY <1>1, <1>2, <2>1 DEF OrderInv
<1>3. ASSUME NEW i \in 1 .. Len(wire) PROVE wire[i] <= buffers
  <2>1. i \in 1 .. Len(accepted) /\ accepted[i] \in Buffer /\ wire[i] = accepted[i]
    BY <1>1, <1>3
  <2> QED
    BY <2>1 DEF PlaceInv, TakenIsNew, In
<1> QED
  BY <1>2, <1>3

(* As long as somebody holds the response the wire is in order.            *)
LEMMA KeptOrder ==
  IInv /\ WireInv /\ PlaceInv /\ OrderInv /\ ~deleted => WireOrder
<1> SUFFICES ASSUME IInv, WireInv, PlaceInv, OrderInv, ~deleted PROVE WireOrder
  OBVIOUS
<1>1. accepted \in Seq(Buffer) /\ wire \in Seq(Buffer) /\ IsPrefixOf(wire, accepted)
  BY DEF IInv, QueueTypeOK, WireInv, RestComesLast
<1> QED
  BY <1>1, PrefixInOrder DEF WireOrder

(* Afterwards steps preserve it: what is appended is the rest, whose       *)
(* number is the last.                                                     *)
LEMMA NextWireOrder ==
  IInv /\ WireInv /\ PlaceInv /\ OrderInv /\ WireOrder /\ [Next]_vars
    => (deleted' => WireOrder')
<1> SUFFICES ASSUME IInv, WireInv, PlaceInv, OrderInv, WireOrder, [Next]_vars,
                    deleted'
             PROVE  WireOrder'
  OBVIOUS
<1>a. QueueTypeOK /\ OneWriteAtATime /\ ReferencesCount
  BY DEF IInv
<1>1. ASSUME NEW w \in writes, WriteCompletes(w), deleted PROVE WireOrder'
  <2> DEFINE v == [w EXCEPT !.result = IF up THEN "ok" ELSE "error"]
  <2>1. writes' = {v} /\ v.result # "pending" /\ UNCHANGED <<overlaps, buffers>>
    BY <1>1, <1>a DEF WriteCompletes, OneWriteAtATime, QueueTypeOK, Writes, stream
  <2>2. CASE ~up
    <3>1. wire' = wire
      BY <1>1, <2>2 DEF WriteCompletes
    <3> QED
      BY <2>1, <3>1 DEF WireOrder, Follows
  <2>3. CASE up
    <3>1. /\ wire' = Append(wire, FinalBuffer) /\ wire \in Seq(Buffer)
          /\ buffers \in Nat /\ Len(wire) \in Nat
      BY <1>1, <1>a, <2>3, SmallSeq DEF WriteCompletes, ReferencesCount, Final, QueueTypeOK
    <3>2. /\ Len(wire') = Len(wire) + 1 /\ wire'[Len(wire) + 1] = FinalBuffer
          /\ \A i \in 1 .. Len(wire) : wire'[i] = wire[i] /\ wire[i] \in Buffer
      BY <3>1, SmallSeq
    <3>3. \A i \in 1 .. Len(wire) : wire[i] <= buffers
      BY <1>1 DEF WireOrder, WriteCompletes
    <3>4. ASSUME NEW j \in 1 .. Len(wire'), NEW i \in 1 .. j - 1
          PROVE  Follows(wire[i], wire[j])'
      <4>1. i \in 1 .. Len(wire) /\ wire'[i] = wire[i]
        BY <3>1, <3>2, <3>4
      <4>2. CASE j = Len(wire) + 1
        BY <3>1, <3>2, <3>3, <4>1, <4>2 DEF Follows, FinalBuffer, Buffer
      <4>3. CASE j # Len(wire) + 1
        <5>1. j \in 1 .. Len(wire) /\ wire'[j] = wire[j]
          BY <3>1, <3>2, <3>4, <4>3
        <5> QED
          BY <2>1, <4>1, <5>1, <3>4 DEF WireOrder, Follows
      <4> QED
        BY <4>2, <4>3
    <3> QED
      BY <2>1, <3>4 DEF WireOrder
  <2> QED
    BY <2>2, <2>3
<1>2. CASE SendOnDelete
  <2>1. IsPrefixOf(wire, accepted) /\ accepted \in Seq(Buffer) /\ wire \in Seq(Buffer)
    BY <1>2, <1>a DEF SendOnDelete, WireInv, RestComesLast, QueueTypeOK
  <2>2. UNCHANGED <<wire, buffers, overlaps>>
    BY <1>2 DEF SendOnDelete, stream
  <2> QED
    BY <2>1, <2>2, PrefixInOrder DEF WireOrder, Follows
<1>3. ASSUME deleted, deleted' = deleted, UNCHANGED <<wire, buffers, overlaps>>,
             writes' \subseteq writes
      PROVE  WireOrder'
  BY <1>3 DEF WireOrder, Follows
<1>4. ASSUME deleted, NEW t \in Threads, ThreadStep(t) PROVE WireOrder'
  <2>1. job[t].at = "idle" /\ job[t].at # "call"
    BY <1>4, <1>a DEF ReferencesCount, Idle
  <2> QED
    BY <1>3, <1>4, <2>1
    DEF ThreadStep, Dispatch, DispatchRefused, FinalHandler, PopHead,
        FlushQueue, Callback, HandlerReturns, stream
<1>5. ASSUME deleted, NEW s \in Senders,
             Move(s) \/ Replace(s) \/ Enqueue(s) \/ Release(s)
      PROVE  WireOrder'
  <2>1. owners = {} /\ taken[s] = None
    BY <1>5, <1>a DEF ReferencesCount
  <2>2. Replace(s)
    BY <1>5, <2>1 DEF Move, Enqueue, Release
  <2> QED
    BY <1>3, <1>5, <2>2 DEF Replace
<1>6. ASSUME deleted, SocketFails \/ StopRunner \/ StopService \/ StartAgain
                      \/ UNCHANGED vars
      PROVE  WireOrder'
  BY <1>3, <1>6 DEF SocketFails, StopRunner, StopService, StartAgain, stream, vars
<1>7. deleted => WireOrder'
  BY <1>1, <1>2, <1>4, <1>5, <1>6 DEF Next
<1>8. ~deleted => SendOnDelete
  BY DEF Next, ThreadStep, vars, Move, Replace, Enqueue, Release, SocketFails, Dispatch,
         DispatchRefused, PopHead, FlushQueue, Callback, HandlerReturns,
         WriteCompletes, FinalHandler, StopRunner, StopService, StartAgain
<1> QED
  BY <1>2, <1>7, <1>8

(* All of it holds at every moment.                                        *)
LEMMA OrderInvariance == Spec => [](StreamInv /\ OrderInv /\ WireOrder)
<1>1. Init => StreamInv /\ OrderInv /\ WireOrder
  <2> SUFFICES ASSUME Init PROVE StreamInv /\ OrderInv /\ WireOrder
    OBVIOUS
  <2>1. Len(<<>>) = 0 /\ 1 .. 0 = {}
    OBVIOUS
  <2>2. StreamInv
    BY DEF Init, StreamInv, StreamTypeOK
  <2>3. OrderInv /\ WireOrder
    BY <2>1 DEF Init, OrderInv, WireOrder, None
  <2> QED
    BY <2>2, <2>3
<1> QED
  BY <1>1, InitPlaces, NextPlaces, NextOrder, KeptOrder, NextWireOrder,
     Invariance, WireInvariance, PTL DEF Spec

(* Type correctness of ResponseQueue.                                      *)
THEOREM TypeCorrect == Spec => []TypeOK
<1>1. IInv /\ StreamInv => TypeOK
  BY DEF IInv, StreamInv, TypeOK
<1> QED
  BY <1>1, Invariance, OrderInvariance, PTL

(* For any senders, threads and failures the peer reads the bytes in the   *)
(* order of the stream, except for buffers whose send()s overlapped before *)
(* the mutex, and only those leave a null buffer.                          *)
THEOREM PeerReadsStreamOrder == Spec => []WireIsStreamOrder
<1>1. StreamInv /\ WireOrder => WireIsStreamOrder
  BY DEF StreamInv, WireOrder, Follows, WireIsStreamOrder
<1> QED
  BY <1>1, OrderInvariance, PTL
=============================================================================
