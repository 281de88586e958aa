--------------------------- MODULE KClient_proofs ---------------------------
(***************************************************************************)
(* Proofs about SyncRequest, and about KClient on top of it, for any       *)
(* finite set of threads.  The counter covers the callers inside, so that  *)
(* a restart finds none in run(); a request that nothing overlaps keeps    *)
(* its callback or has its answer.  KClient only adds when requests are    *)
(* made and clients replaced: its steps are steps of SyncRequest, or open. *)
(***************************************************************************)
EXTENDS KClient, FiniteSetTheorems, TLAPS

IInv == TypeOK /\ CountCoversInside

\* The callers inside are finitely many, so the counter can cover them.
LEMMA InsideFinite == IsFiniteSet(Inside) /\ Cardinality(Inside) \in Nat
  <1>1. Inside \subseteq Threads
    BY DEF Inside
  <1> QED
    BY <1>1, ThreadsAssumption, FS_Subset, FS_CardinalityType

\* A caller that is inside is counted.
LEMMA InsideCounted ==
  ASSUME CountCoversInside, NEW t \in Inside, count \in Nat
  PROVE  count >= 1 /\ count - 1 >= Cardinality(Inside \ {t})
  <1>1. Cardinality(Inside \ {t}) = Cardinality(Inside) - 1
    BY InsideFinite, FS_RemoveElement
  <1>2. IsFiniteSet(Inside \ {t}) /\ Cardinality(Inside \ {t}) \in Nat
    BY InsideFinite, FS_RemoveElement, FS_CardinalityType
  <1> QED
    BY <1>1, <1>2, InsideFinite DEF CountCoversInside

\* In its initial state the system satisfies the invariant.
LEMMA Initially == Init => IInv
  <1> SUFFICES ASSUME Init PROVE IInv
    OBVIOUS
  <1>1. TypeOK
    <2>1. 0 \in 0..MaxRequests /\ 0 \in Nat
      BY MaxRequestsAssumption
    <2>2. made \in [Threads -> 0..MaxRequests]
      BY <2>1 DEF Init
    <2> QED
      BY <2>1, <2>2 DEF Init, TypeOK
  <1>2. Inside = {}
    BY DEF Init, Inside
  <1>3. CountCoversInside
    BY <1>2, FS_EmptySet DEF Init, CountCoversInside
  <1> QED
    BY <1>1, <1>3 DEF IInv

\* Steps that leave the counter alone and let nobody in keep the counter's part.
LEMMA FewerInside ==
  ASSUME CountCoversInside, count' = count, count \in Nat, Inside' \subseteq Inside
  PROVE  CountCoversInside'
  <1>1. Cardinality(Inside') \in Nat /\ Cardinality(Inside') <= Cardinality(Inside)
    BY InsideFinite, FS_Subset, FS_CardinalityType
  <1> QED
    BY <1>1, InsideFinite DEF CountCoversInside

\* Every step keeps the invariant.
LEMMA Inductive == IInv /\ [Next]_vars => IInv'
  <1> SUFFICES ASSUME IInv, [Next]_vars PROVE IInv'
    OBVIOUS
  <1> USE DEF IInv
  <1>1. ASSUME NEW t \in Threads, Start(t) PROVE IInv'
    <2>1. TypeOK'
      <3>1. made' \in [Threads -> 0..MaxRequests] /\ <<t, made[t] + 1>> \in Requests
        BY <1>1, MaxRequestsAssumption DEF TypeOK, Start, Requests
      <3> QED
        BY <1>1, <3>1 DEF TypeOK, Start, Idle
    <2>2. Inside' = Inside
      BY <1>1 DEF TypeOK, Start, Idle, Inside
    <2> QED
      BY <1>1, <2>1, <2>2, FewerInside DEF TypeOK, Start
  <1>2. ASSUME NEW t \in Threads, Enter(t) PROVE IInv'
    <2>1. TypeOK'
      BY <1>2 DEF TypeOK, Enter
    <2>2. t \notin Inside /\ Inside' = Inside \cup {t}
      BY <1>2 DEF TypeOK, Enter, Inside
    <2>3. Cardinality(Inside') = Cardinality(Inside) + 1
      BY <2>2, InsideFinite, FS_AddElement
    <2>4. CountCoversInside'
      BY <1>2, <2>3, InsideFinite DEF TypeOK, CountCoversInside, Enter
    <2> QED
      BY <2>1, <2>4
  <1>3. ASSUME NEW t \in Threads, Run(t) PROVE IInv'
    <2>1. TypeOK'
      BY <1>3 DEF TypeOK, Run
    <2>2. Inside' = Inside
      BY <1>3 DEF TypeOK, Run, Inside
    <2> QED
      BY <1>3, <2>1, <2>2, FewerInside DEF TypeOK, Run
  <1>4. ASSUME NEW t \in Threads, RunReturns(t) PROVE IInv'
    <2>1. TypeOK'
      BY <1>4 DEF TypeOK, RunReturns
    <2>2. Inside' = Inside
      BY <1>4 DEF TypeOK, RunReturns, Inside
    <2> QED
      BY <1>4, <2>1, <2>2, FewerInside DEF TypeOK, RunReturns
  <1>5. ASSUME NEW t \in Threads, Leave(t) PROVE IInv'
    <2>1. t \in Inside /\ Inside' = Inside \ {t}
      BY <1>5 DEF TypeOK, Leave, Inside
    <2>2. count >= 1 /\ count - 1 >= Cardinality(Inside \ {t})
      BY <2>1, InsideCounted DEF TypeOK
    <2>3. TypeOK'
      BY <1>5, <2>2 DEF TypeOK, Leave
    <2>4. CountCoversInside'
      BY <1>5, <2>1, <2>2 DEF CountCoversInside, Leave
    <2> QED
      BY <2>3, <2>4
  <1>6. ASSUME NEW u \in Threads, NEW q \in pending, Callback(u, q) PROVE IInv'
    <2>1. TypeOK'
      BY <1>6 DEF TypeOK, Callback, Finished
    <2>2. Inside' = Inside
      BY <1>6 DEF TypeOK, Callback, Inside
    <2> QED
      BY <1>6, <2>1, <2>2, FewerInside DEF TypeOK, Callback
  <1>7. ASSUME NEW u \in Threads, NEW q \in pending, Throws(u, q) PROVE IInv'
    <2>1. TypeOK'
      BY <1>7 DEF TypeOK, Throws, Finished
    <2>2. Inside' \subseteq Inside
      BY <1>7 DEF TypeOK, Throws, Inside
    <2> QED
      BY <1>7, <2>1, <2>2, FewerInside DEF TypeOK, Throws
  <1>8. ASSUME UNCHANGED vars PROVE IInv'
    BY <1>8 DEF vars, TypeOK, CountCoversInside, Inside
  <1> QED
    BY <1>1, <1>2, <1>3, <1>4, <1>5, <1>6, <1>7, <1>8 DEF Next, Handler, Step

\* The invariant holds of every behaviour.
THEOREM Invariance == Spec => []IInv
  BY Initially, Inductive, PTL DEF Spec

\* Type correctness, for any callers and any number of requests.
THEOREM TypeCorrect == Spec => []TypeOK
  BY Invariance, PTL DEF IInv

\* The counter of concurrent requests never falls below the number of callers
\* between its increment and its decrement, also when handlers throw.
THEOREM CountCorrect == Spec => []CountCoversInside
  BY Invariance, PTL DEF IInv

\* A step that restarts the service is a Leave with nobody else inside.
LEMMA RestartStep ==
  ASSUME IInv, Next, stopped, ~stopped'
  PROVE  \E t \in Threads : Inside \subseteq {t}
  <1>1. ~Handler
    BY DEF Handler, Callback, Throws
  <1>2. PICK t \in Threads : Leave(t)
    BY <1>1 DEF Next, Step, Start, Enter, Run, RunReturns
  <1>3. t \in Inside
    BY <1>2 DEF Leave, Inside
  <1>4. Cardinality(Inside \ {t}) <= 0
    <2>1. count = 1
      <3>1. count' = 0
        BY <1>2, Zenon DEF Leave
      <3>2. count' = count - 1 /\ count \in Nat
        BY <1>2 DEF Leave, IInv, TypeOK
      <3> QED
        BY <3>1, <3>2
    <2>2. Cardinality(Inside \ {t}) \in Nat
      BY InsideFinite, FS_RemoveElement, FS_CardinalityType
    <2> QED
      BY <1>3, <2>1, <2>2, InsideCounted DEF IInv
  <1>5. Inside \ {t} = {}
    <2>1. IsFiniteSet(Inside \ {t}) /\ Cardinality(Inside \ {t}) \in Nat
      BY InsideFinite, FS_RemoveElement, FS_CardinalityType
    <2> QED
      BY <1>4, <2>1, FS_EmptySet
  <1> QED
    BY <1>5

\* The io_service is restarted only when no other caller is inside run().
THEOREM RestartIsAlone == Spec => RestartAlone
  <1>1. IInv /\ [Next]_vars =>
          [stopped /\ ~stopped' => \E t \in Threads : Inside \subseteq {t}]_vars
    <2> SUFFICES ASSUME IInv, Next
                 PROVE  stopped /\ ~stopped' => \E t \in Threads : Inside \subseteq {t}
      OBVIOUS
    <2> QED
      BY RestartStep
  <1> QED
    BY <1>1, Invariance, PTL DEF Spec, RestartAlone

-----------------------------------------------------------------------------
\* A request that nothing overlaps

\* What is left of a request that nothing has overlapped: its callback, or
\* an answer.  Nobody else is counted, so the service has been restarted.
AloneIsServed(t) ==
    alone[t] =>
       /\ ~Idle(t) => \A u \in Threads \ {t} : Idle(u)
       /\ pc[t] = "started" => count = 0
       /\ pc[t] \in {"counted", "running", "ran"} => count = 1
       /\ pc[t] \in {"started", "counted"} => ~stopped /\ <<t, made[t]>> \in pending
       /\ pc[t] = "running" =>
             \/ ~stopped /\ <<t, made[t]>> \in pending
             \/ answer[t] # "none"
       /\ pc[t] \in {"ran", "returned"} => answer[t] # "none"

\* A stopped service is one that somebody has yet to leave.
AInv == (stopped => count >= 1) /\ \A t \in Threads : AloneIsServed(t)

\* A thread inside run() is counted.
LEMMA RunnersCounted ==
  ASSUME IInv, NEW t \in Inside
  PROVE  count >= 1
  BY InsideCounted DEF IInv, TypeOK

\* A request is a pair.
LEMMA Pairs ==
  ASSUME NEW q \in Requests
  PROVE  q = <<q[1], q[2]>> /\ q[1] \in Threads
  BY DEF Requests

\* Another thread's step that changes neither the counter nor the service.
LEMMA OthersStep ==
  ASSUME NEW t \in Threads, AloneIsServed(t), alone'[t] => alone[t],
         ~Idle(t) => ~alone'[t],
         pc'[t] = pc[t], made'[t] = made[t], answer'[t] = answer[t]
  PROVE  AloneIsServed(t)'
  BY DEF AloneIsServed, Idle

\* Every step keeps the invariant.
LEMMA NextAlone == IInv /\ AInv /\ [Next]_vars => AInv'
  <1> SUFFICES ASSUME IInv, AInv, [Next]_vars PROVE AInv'
    OBVIOUS
  <1>a. TypeOK /\ (stopped => count >= 1) /\ \A t \in Threads : AloneIsServed(t)
    BY DEF IInv, AInv
  <1>1. ASSUME NEW t \in Threads, Start(t) PROVE AInv'
    <2>1. stopped' = stopped /\ count' = count
      BY <1>1 DEF Start
    <2>2. ASSUME NEW u \in Threads \ {t} PROVE AloneIsServed(u)'
      <3>1. alone'[u] = (alone[u] /\ Idle(u))
        BY <1>1, <1>a DEF Start, TypeOK
      <3>2. pc'[u] = pc[u] /\ made'[u] = made[u] /\ answer'[u] = answer[u]
        BY <1>1, <1>a DEF Start, TypeOK
      <3> QED
        BY <1>a, <3>1, <3>2, OthersStep
    <2>3. AloneIsServed(t)'
      <3>1. alone'[t] => count = 0 /\ \A u \in Threads \ {t} : Idle(u)
        BY <1>1, <1>a DEF Start, TypeOK
      <3>2. /\ pc'[t] = "started" /\ <<t, made'[t]>> \in pending'
            /\ \A u \in Threads \ {t} : pc'[u] = pc[u]
        BY <1>1, <1>a DEF Start, TypeOK
      <3> QED
        BY <1>a, <2>1, <3>1, <3>2 DEF AloneIsServed, Idle
    <2> QED
      BY <1>a, <2>1, <2>2, <2>3 DEF AInv
  <1>2. ASSUME NEW t \in Threads, Enter(t) \/ Run(t) \/ RunReturns(t) \/ Leave(t)
        PROVE  AInv'
    <2>1. stopped' => count' >= 1
      <3>1. CASE Enter(t)
        BY <3>1, <1>a DEF Enter, TypeOK
      <3>2. CASE Run(t) \/ RunReturns(t)
        <4>1. t \in Inside /\ count' = count
          BY <3>2 DEF Run, RunReturns, Inside
        <4> QED
          BY <4>1, RunnersCounted
      <3>3. CASE Leave(t)
        <4>1. t \in Inside /\ count' = count - 1 /\ (stopped' => count' # 0)
          BY <3>3, Zenon DEF Leave, Inside
        <4>2. count \in Nat /\ count >= 1
          BY <1>a, <4>1, RunnersCounted DEF TypeOK
        <4> QED
          BY <4>1, <4>2
      <3> QED
        BY <1>2, <3>1, <3>2, <3>3
    <2>2. /\ ~Idle(t)
          /\ \A u \in Threads \ {t} : pc'[u] = pc[u]
          /\ UNCHANGED <<made, answer, pending, alone>>
      BY <1>2, <1>a DEF Enter, Run, RunReturns, Leave, TypeOK, Idle
    <2>3. ASSUME NEW u \in Threads \ {t} PROVE AloneIsServed(u)'
      <3>1. ~Idle(u) => ~alone'[u]
        BY <1>a, <2>2 DEF AloneIsServed
      <3> QED
        BY <1>a, <2>2, <3>1, OthersStep
    <2>4. AloneIsServed(t)'
      <3> SUFFICES ASSUME alone[t] PROVE AloneIsServed(t)'
        BY <2>2 DEF AloneIsServed
      <3>1. \A u \in Threads \ {t} : Idle(u)'
        BY <1>a, <2>2 DEF AloneIsServed, Idle
      <3>2. CASE Enter(t)
        <4>1. pc'[t] = "counted" /\ count' = count + 1 /\ stopped' = stopped /\ pc[t] = "started"
          BY <3>2, <1>a DEF Enter, TypeOK
        <4> QED
          BY <1>a, <2>2, <3>1, <4>1 DEF AloneIsServed
      <3>3. CASE Run(t)
        <4>1. count' = count /\ stopped' = stopped /\ ~stopped /\ <<t, made[t]>> \in pending
          BY <3>3, <1>a DEF Run, AloneIsServed, TypeOK
        <4>2. pc'[t] = "running" /\ pc[t] = "counted"
          BY <3>3, <4>1, <1>a DEF Run, TypeOK
        <4> QED
          BY <1>a, <2>2, <3>1, <4>1, <4>2 DEF AloneIsServed
      <3>4. CASE RunReturns(t)
        <4>1. pc'[t] = "ran" /\ pc[t] = "running" /\ stopped /\ count' = count
          BY <3>4, <1>a DEF RunReturns, TypeOK
        <4> QED
          BY <1>a, <2>2, <3>1, <4>1 DEF AloneIsServed
      <3>5. CASE Leave(t)
        <4>1. pc'[t] = "returned" /\ pc[t] = "ran"
          BY <3>5, <1>a DEF Leave, TypeOK
        <4> QED
          BY <1>a, <2>2, <3>1, <4>1 DEF AloneIsServed
      <3> QED
        BY <1>2, <3>2, <3>3, <3>4, <3>5
    <2> QED
      BY <2>1, <2>3, <2>4 DEF AInv
  <1>3. ASSUME NEW u \in Threads, NEW q \in pending, Callback(u, q) PROVE AInv'
    <2>1. /\ pc[u] = "running" /\ u \in Inside /\ ~Idle(u)
          /\ UNCHANGED <<pc, made, count, alone>>
          /\ pending' = pending \ {q} /\ (stopped' <=> pending' = {})
      BY <1>3 DEF Callback, Inside, Finished, Idle
    <2>2. q = <<q[1], q[2]>> /\ q[1] \in Threads
      BY <1>a, Pairs DEF TypeOK
    <2>3. stopped' => count' >= 1
      BY <2>1, RunnersCounted
    <2>4. ASSUME NEW t \in Threads PROVE AloneIsServed(t)'
      <3>1. answer'[t] = answer[t] \/ answer'[t] # "none"
        BY <1>3, <1>a DEF Callback, TypeOK
      <3>2. CASE t # u
        <4>1. Idle(t) \/ ~alone[t]
          BY <1>a, <2>1, <3>2 DEF AloneIsServed
        <4> QED
          BY <1>a, <2>1, <3>1, <4>1 DEF AloneIsServed, Idle
      <3>3. CASE t = u
        <4>1. CASE q = <<t, made[t]>>
          <5>1. answer'[t] # "none"
            BY <1>3, <1>a, <2>1, <3>3, <4>1 DEF Callback, TypeOK
          <5> QED
            BY <1>a, <2>1, <3>3, <5>1 DEF AloneIsServed, Idle
        <4>2. CASE q # <<t, made[t]>>
          <5>1. <<t, made[t]>> \in pending => <<t, made[t]>> \in pending' /\ ~stopped'
            BY <2>1, <4>2
          <5> QED
            BY <1>a, <2>1, <3>1, <3>3, <5>1 DEF AloneIsServed, Idle
        <4> QED
          BY <4>1, <4>2
      <3> QED
        BY <3>2, <3>3
    <2> QED
      BY <2>3, <2>4 DEF AInv
  <1>4. ASSUME NEW u \in Threads, NEW q \in pending, Throws(u, q) PROVE AInv'
    <2>1. /\ pc[u] = "running" /\ u \in Inside /\ ~Idle(u) /\ pc'[u] = "idle"
          /\ \A t \in Threads \ {u} : pc'[t] = pc[t]
          /\ UNCHANGED <<made, count, alone, answer>>
      BY <1>4, <1>a DEF Throws, Inside, Finished, Idle, TypeOK
    <2>2. stopped' => count' >= 1
      BY <2>1, RunnersCounted
    <2>3. ASSUME NEW t \in Threads PROVE AloneIsServed(t)'
      <3>1. CASE t # u
        <4>1. Idle(t) \/ ~alone[t]
          BY <1>a, <2>1, <3>1 DEF AloneIsServed
        <4> QED
          BY <1>a, <2>1, <3>1, <4>1, OthersStep
      <3>2. CASE t = u
        BY <2>1, <3>2 DEF AloneIsServed, Idle
      <3> QED
        BY <3>1, <3>2
    <2> QED
      BY <2>2, <2>3 DEF AInv
  <1>5. CASE UNCHANGED vars
    BY <1>5, <1>a DEF vars, AInv, AloneIsServed, Idle
  <1> QED
    BY <1>1, <1>2, <1>3, <1>4, <1>5 DEF Next, Handler, Step

\* A request that nothing overlaps returns with a response or an error, for
\* any number of callers and whatever was left behind before it.
THEOREM AloneGetsAnswer == Spec => []AloneIsAnswered
  <1>1. Init => AInv
    BY DEF Init, AInv, AloneIsServed, Idle
  <1>2. AInv => AloneIsAnswered
    BY DEF AInv, AloneIsServed, AloneIsAnswered
  <1> QED
    BY Invariance, NextAlone, <1>1, <1>2, PTL DEF Spec

-----------------------------------------------------------------------------
\* KClient: the same requests, made by a script that opens clients

\* The type of the script's part of the state.
KTypeOK ==
    /\ hc \in BOOLEAN
    /\ opens \in 0..MaxOpens
    /\ task \in [Senders -> {"none", "created", "requesting", "posted"}]
    /\ crash \in {"no", "noClient", "noRequest", "deletedClient", "nullResponse"}
    /\ reopened \in BOOLEAN

\* Only the thread of a sendAsync() that has not reported is in a request.
RequestsReport ==
    \A t \in Senders : ~Idle(t) => task[t] = "requesting"

KInv == IInv /\ AInv /\ KTypeOK /\ RequestsReport /\ WaitingIsSafe

\* In its initial state the client satisfies the invariant.
LEMMA KInitially == KInit => KInv
  <1> SUFFICES ASSUME KInit PROVE KInv
    OBVIOUS
  <1>1. IInv
    BY Initially DEF KInit
  <1>2. AInv
    BY DEF KInit, Init, AInv, AloneIsServed, Idle
  <1>3. KTypeOK
    <2>1. 0 \in 0..MaxOpens
      BY MaxOpensAssumption
    <2>2. task \in [Senders -> {"none", "created", "requesting", "posted"}]
      BY DEF KInit
    <2> QED
      BY <2>1, <2>2 DEF KInit, KTypeOK
  <1>4. RequestsReport /\ WaitingIsSafe
    BY DEF KInit, Init, RequestsReport, WaitingIsSafe, Idle, Senders
  <1> QED
    BY <1>1, <1>2, <1>3, <1>4 DEF KInv

\* A step of the requests themselves, with what it leaves alone.
LEMMA RequestsInv ==
  ASSUME KInv, [Next]_vars
  PROVE  IInv' /\ AInv'
  BY Inductive, NextAlone DEF KInv

\* Another thread is where it was, and has its answer.
LEMMA StartedBy ==
  ASSUME NEW t \in Threads, Start(t), TypeOK
  PROVE  \A u \in Threads \ {t} : pc'[u] = pc[u]
  BY DEF Start, TypeOK

\* open() of a client that nothing uses.
LEMMA OpenInv == ASSUME KInv, crash = "no", Open PROVE KInv'
  <1>a. TypeOK /\ CountCoversInside /\ AInv /\ KTypeOK /\ RequestsReport
    BY DEF KInv, IInv
  <1>1. Inside = {} /\ Inside' = {}
    BY DEF Open, Requesting, Idle, Inside
  <1>2. IInv'
    <2>1. TypeOK'
      BY <1>a DEF Open, TypeOK
    <2>2. CountCoversInside'
      BY <1>1, FS_EmptySet DEF Open, CountCoversInside
    <2> QED
      BY <2>1, <2>2 DEF IInv
  <1>3. AInv'
    <2>1. \A t \in Threads : Idle(t)
      BY DEF Open, Requesting
    <2> QED
      BY <1>a, <2>1 DEF Open, AInv, AloneIsServed, Idle
  <1>4. KTypeOK'
    BY <1>a, MaxOpensAssumption DEF Open, KTypeOK
  <1>5. RequestsReport' /\ WaitingIsSafe'
    BY <1>a DEF Open, RequestsReport, WaitingIsSafe, Idle
  <1> QED
    BY <1>2, <1>3, <1>4, <1>5 DEF KInv

\* open() of a client that is in use: its user is a sendAsync().
LEMMA OpenDeletesInv == ASSUME KInv, crash = "no", OpenDeletes PROVE KInv'
  <1>1. IInv' /\ AInv'
    BY RequestsInv DEF OpenDeletes
  <1>2. PICK t \in Threads : ~Idle(t)
    BY DEF OpenDeletes, Requesting
  <1>3. t \in Senders
    BY <1>2 DEF OpenDeletes, Senders
  <1>4. Outstanding # {}
    BY <1>2, <1>3 DEF KInv, RequestsReport, Outstanding
  <1>5. KTypeOK'
    BY MaxOpensAssumption DEF KInv, OpenDeletes, KTypeOK
  <1>6. RequestsReport' /\ WaitingIsSafe'
    BY <1>4 DEF KInv, OpenDeletes, RequestsReport, WaitingIsSafe, Idle, vars
  <1> QED
    BY <1>1, <1>5, <1>6 DEF KInv

\* A synchronous request has returned to the script.
LEMMA SendSyncReturnsInv == ASSUME KInv, crash = "no", SendSyncReturns PROVE KInv'
  <1>a. TypeOK /\ CountCoversInside /\ AInv /\ KTypeOK /\ RequestsReport
    BY DEF KInv, IInv
  <1>1. pc[Main] = "returned" /\ pc'[Main] = "idle"
        /\ \A t \in Threads \ {Main} : pc'[t] = pc[t]
    BY <1>a, MainAssumption DEF SendSyncReturns, TypeOK
  <1>2. TypeOK'
    BY <1>a DEF SendSyncReturns, TypeOK
  <1>3. Inside' = Inside
    BY <1>1 DEF Inside
  <1>4. IInv'
    BY <1>a, <1>2, <1>3, FewerInside DEF SendSyncReturns, IInv, TypeOK
  <1>5. AInv'
    <2>1. \A t \in Threads : (Idle(t)' <=> Idle(t))
      BY <1>1 DEF Idle
    <2>2. ASSUME NEW t \in Threads PROVE AloneIsServed(t)'
      <3>1. CASE t = Main
        BY <1>1, <3>1 DEF AloneIsServed, Idle
      <3>2. CASE t # Main
        <4>1. pc'[t] = pc[t]
          BY <1>1, <3>2
        <4> QED
          BY <1>a, <2>1, <4>1 DEF SendSyncReturns, AInv, AloneIsServed
      <3> QED
        BY <3>1, <3>2
    <2> QED
      BY <1>a, <2>2 DEF SendSyncReturns, AInv
  <1>6. KTypeOK'
    BY <1>a DEF SendSyncReturns, KTypeOK, script
  <1>7. RequestsReport'
    BY <1>a, <1>1 DEF SendSyncReturns, RequestsReport, Idle, script, Senders
  <1>8. WaitingIsSafe'
    <2>1. answer[Main] = "none" => ~alone[Main]
      BY <1>a, <1>1, MainAssumption DEF AInv, AloneIsServed
    <2> QED
      BY <2>1, MainAssumption DEF KInv, SendSyncReturns, WaitingIsSafe, script
  <1> QED
    BY <1>4, <1>5, <1>6, <1>7, <1>8 DEF KInv

\* The thread of a sendAsync() reports.
LEMMA PostInv == ASSUME KInv, crash = "no", NEW t \in Senders, Post(t) PROVE KInv'
  <1>1. IInv' /\ AInv'
    BY RequestsInv DEF Post
  <1>2. KTypeOK'
    BY DEF KInv, Post, KTypeOK
  <1>3. RequestsReport'
    BY DEF KInv, KTypeOK, Post, RequestsReport, Idle, vars
  <1>4. WaitingIsSafe'
    <2>1. t \in Threads
      BY DEF Senders
    <2>2. pc[t] = "returned" /\ answer[t] = "none" => ~alone[t]
      BY <2>1 DEF KInv, AInv, AloneIsServed
    <2> QED
      BY <2>1, <2>2 DEF KInv, Post, WaitingIsSafe, vars
  <1> QED
    BY <1>1, <1>2, <1>3, <1>4 DEF KInv

\* Every step of the client keeps the invariant.
LEMMA KInductive == KInv /\ [KNext]_allVars => KInv'
  <1> SUFFICES ASSUME KInv, [KNext]_allVars PROVE KInv'
    OBVIOUS
  <1>a. TypeOK /\ KTypeOK /\ RequestsReport /\ WaitingIsSafe
    BY DEF KInv, IInv
  <1>1. CASE crash = "no" /\ MainStep
    <2>1. CASE Open \/ OpenDeletes \/ SendSyncReturns
      BY <1>1, <2>1, OpenInv, OpenDeletesInv, SendSyncReturnsInv
    <2>2. CASE SendWithoutClient \/ SendSyncOther
      <3>1. IInv' /\ AInv'
        BY <2>2, RequestsInv DEF SendWithoutClient, SendSyncOther
      <3> QED
        BY <1>a, <2>2, <3>1
        DEF KInv, SendWithoutClient, SendSyncOther, KTypeOK, RequestsReport,
            WaitingIsSafe, Idle, script, vars
    <2>3. CASE SendSync
      <3>1. IInv' /\ AInv'
        BY <2>3, MainAssumption, RequestsInv DEF SendSync, Next
      <3>2. \A u \in Senders : pc'[u] = pc[u]
        BY <1>a, <2>3, MainAssumption, StartedBy DEF SendSync, Senders
      <3> QED
        BY <1>1, <1>a, <2>3, <3>1, <3>2
        DEF KInv, SendSync, KTypeOK, RequestsReport, WaitingIsSafe, Idle, script
    <2>4. ASSUME NEW t \in Senders, SendAsync(t) \/ Deliver(t) PROVE KInv'
      <3>1. IInv' /\ AInv'
        BY <2>4, RequestsInv DEF SendAsync, Deliver
      <3>2. KTypeOK'
        BY <1>a, <2>4 DEF SendAsync, Deliver, KTypeOK
      <3>3. RequestsReport'
        BY <1>a, <2>4 DEF SendAsync, Deliver, KTypeOK, RequestsReport, Idle, vars
      <3>4. WaitingIsSafe'
        BY <1>a, <2>4 DEF SendAsync, Deliver, WaitingIsSafe, vars
      <3> QED
        BY <3>1, <3>2, <3>3, <3>4 DEF KInv
    <2> QED
      BY <1>1, <2>1, <2>2, <2>3, <2>4 DEF MainStep
  <1>2. CASE crash = "no" /\ RequestStep
    <2>1. IInv' /\ AInv'
      BY <1>2, RequestsInv DEF RequestStep, Next
    <2>2. \A t \in Senders : ~Idle(t)' => ~Idle(t)
      <3>1. CASE Handler
        BY <3>1, <1>a DEF Handler, Callback, Throws, Idle, TypeOK, Senders
      <3>2. ASSUME NEW t \in Threads, Step(t) PROVE \A u \in Threads : ~Idle(u)' => ~Idle(u)
        BY <3>2, <1>a DEF Step, Enter, Run, RunReturns, Leave, Idle, TypeOK
      <3> QED
        BY <1>2, <3>1, <3>2 DEF RequestStep, Senders
    <2>3. KTypeOK' /\ RequestsReport'
      BY <1>2, <1>a, <2>2 DEF RequestStep, KTypeOK, RequestsReport, script
    <2>4. WaitingIsSafe'
      BY <1>2 DEF RequestStep, WaitingIsSafe
    <2> QED
      BY <2>1, <2>3, <2>4 DEF KInv
  <1>3. ASSUME crash = "no", NEW t \in Senders, SenderStep(t) PROVE KInv'
    <2>1. CASE Begin(t)
      <3>1. IInv' /\ AInv'
        BY <2>1, RequestsInv DEF Begin, Next, Senders
      <3>2. \A u \in Senders \ {t} : pc'[u] = pc[u]
        BY <1>a, <2>1, StartedBy DEF Begin, Senders
      <3>3. KTypeOK'
        BY <1>a, <2>1 DEF Begin, KTypeOK
      <3>4. RequestsReport'
        BY <1>a, <2>1, <3>2 DEF Begin, KTypeOK, RequestsReport, Idle
      <3>5. WaitingIsSafe'
        BY <1>3, <2>1 DEF Begin, WaitingIsSafe
      <3> QED
        BY <3>1, <3>3, <3>4, <3>5 DEF KInv
    <2>2. CASE BeginWithoutClient(t)
      <3>1. IInv' /\ AInv'
        BY <2>2, RequestsInv DEF BeginWithoutClient
      <3> QED
        BY <1>a, <2>2, <3>1
        DEF KInv, BeginWithoutClient, KTypeOK, RequestsReport, WaitingIsSafe,
            Idle, script, vars
    <2> QED
      BY <1>3, <2>1, <2>2, PostInv DEF SenderStep
  <1>4. CASE UNCHANGED allVars
    <2>1. IInv' /\ AInv'
      BY <1>4, RequestsInv DEF allVars
    <2> QED
      BY <1>4, <1>a, <2>1
      DEF KInv, allVars, KTypeOK, RequestsReport, WaitingIsSafe, Idle, script, vars
  <1> QED
    BY <1>1, <1>2, <1>3, <1>4 DEF KNext

THEOREM KInvariance == KSpec => []KInv
  BY KInitially, KInductive, PTL DEF KSpec

\* Type correctness of the client, for any threads and numbers of requests and
\* of calls of open().
THEOREM KTypeCorrect == KSpec => [](TypeOK /\ KTypeOK)
  <1>1. KInv => TypeOK /\ KTypeOK
    BY DEF KInv, IInv
  <1> QED
    BY <1>1, KInvariance, PTL

\* A client that the script opens and uses as it likes restarts its service
\* only when nobody else is inside run().
THEOREM KRestartIsAlone == KSpec => RestartAlone
  <1>1. KInv /\ [KNext]_allVars =>
          [stopped /\ ~stopped' => \E t \in Threads : Inside \subseteq {t}]_vars
    <2> SUFFICES ASSUME KInv, KNext, stopped, ~stopped'
                 PROVE  \E t \in Threads : Inside \subseteq {t}
      BY DEF allVars
    <2>1. CASE Next
      BY <2>1, RestartStep DEF KInv
    <2>2. CASE Open
      <3>1. Inside = {}
        BY <2>2 DEF Open, Requesting, Idle, Inside
      <3> QED
        BY <3>1, MainAssumption
    <2>3. Next \/ Open
      <3>1. CASE MainStep
        BY <3>1, MainAssumption
        DEF MainStep, OpenDeletes, SendWithoutClient, SendSync, SendSyncOther,
            SendSyncReturns, SendAsync, Deliver, Next, vars
      <3>2. CASE RequestStep
        BY <3>2 DEF RequestStep, Next
      <3>3. ASSUME NEW t \in Senders, SenderStep(t) PROVE Next
        BY <3>3 DEF SenderStep, Begin, BeginWithoutClient, Post, Next, vars, Senders
      <3> QED
        BY <3>1, <3>2, <3>3 DEF KNext
    <2> QED
      BY <2>1, <2>2, <2>3
  <1> QED
    BY <1>1, KInvariance, PTL DEF KSpec, RestartAlone

\* A request that nothing overlaps has its answer when it returns to the
\* script or to the thread of a sendAsync(), whatever client it is made of.
THEOREM KAloneGetsAnswer == KSpec => []AloneIsAnswered
  <1>1. KInv => AloneIsAnswered
    BY DEF KInv, AInv, AloneIsServed, AloneIsAnswered
  <1> QED
    BY <1>1, KInvariance, PTL

\* A client is deleted in use only by a script that opens another before the
\* events have come, and a request that comes back with a null response needs
\* others that overlap or that an exception has left.
THEOREM KWaitingIsSafe == KSpec => []WaitingIsSafe
  <1>1. KInv => WaitingIsSafe
    BY DEF KInv
  <1> QED
    BY <1>1, KInvariance, PTL
=============================================================================
