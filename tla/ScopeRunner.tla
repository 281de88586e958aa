---------------------------- MODULE ScopeRunner ----------------------------
(***************************************************************************)
(* SimpleWeb::ScopeRunner (src/utility.hpp): the lock-free gate between    *)
(* the asio completion handlers of a server or a client and the destructor *)
(* of that object.  A completion handler calls continue_lock() first and   *)
(* returns when it gets nullptr; ~ServerBase and ~ClientBase call stop()   *)
(* before they free what the handlers use.                                 *)
(*                                                                         *)
(* A handler here is one chain of asynchronous operations: when its        *)
(* completion handler has left the scope, the operation it started may     *)
(* complete later and run the next completion handler (Complete).          *)
(* Each access to the atomic `count` is a step of its own.  A weak         *)
(* compare-exchange that fails without reason retries with the value it    *)
(* read: that is a stuttering step.                                        *)
(***************************************************************************)
EXTENDS Integers, FiniteSets

CONSTANTS Handlers,   \* chains of asynchronous operations
          Stoppers    \* threads that call stop()

ASSUME HandlersAssumption == IsFiniteSet(Handlers)

VARIABLES count,      \* std::atomic<long> count
          expected,   \* continue_lock()'s local, one per handler
          pc,         \* where each handler is
          stopPc      \* where each caller of stop() is

vars == <<count, expected, pc, stopPc>>

Init ==
    /\ count = 0
    /\ expected = [h \in Handlers |-> 0]
    /\ pc = [h \in Handlers |-> "pending"]
    /\ stopPc = [s \in Stoppers |-> "running"]

Holders == {h \in Handlers : pc[h] = "scope"}

-----------------------------------------------------------------------------
(* continue_lock() *)

\* long expected = count;
Load(h) ==
    /\ pc[h] = "pending"
    /\ expected' = [expected EXCEPT ![h] = count]
    /\ pc' = [pc EXCEPT ![h] = "cas"]
    /\ UNCHANGED <<count, stopPc>>

\* Mutant: the runner's state is not looked at.
AcquireUnchecked(h) ==
    /\ pc[h] = "cas"
    /\ count = expected[h]
    /\ count' = expected[h] + 1
    /\ pc' = [pc EXCEPT ![h] = "scope"]
    /\ UNCHANGED <<expected, stopPc>>

\* The exchange succeeds: the handler owns a SharedLock.
Acquire(h) ==
    /\ pc[h] = "cas"
    /\ expected[h] >= 0
    /\ count = expected[h]
    /\ count' = expected[h] + 1
    /\ pc' = [pc EXCEPT ![h] = "scope"]
    /\ UNCHANGED <<expected, stopPc>>

\* The exchange fails and leaves the value it saw in `expected`.
Retry(h) ==
    /\ pc[h] = "cas"
    /\ expected[h] >= 0
    /\ count # expected[h]
    /\ expected' = [expected EXCEPT ![h] = count]
    /\ UNCHANGED <<count, pc, stopPc>>

\* expected < 0: nullptr, the handler returns without touching the object.
Refuse(h) ==
    /\ pc[h] = "cas"
    /\ expected[h] < 0
    /\ pc' = [pc EXCEPT ![h] = "refused"]
    /\ UNCHANGED <<count, expected, stopPc>>

\* Mutant: a lock that is not given back.
ReleaseNever(h) ==
    /\ pc[h] = "scope"
    /\ pc' = [pc EXCEPT ![h] = "left"]
    /\ UNCHANGED <<count, expected, stopPc>>

\* ~SharedLock()
Release(h) ==
    /\ pc[h] = "scope"
    /\ count' = count - 1
    /\ pc' = [pc EXCEPT ![h] = "left"]
    /\ UNCHANGED <<expected, stopPc>>

\* The next asynchronous operation of the chain completes.
Complete(h) ==
    /\ pc[h] = "left"
    /\ pc' = [pc EXCEPT ![h] = "pending"]
    /\ UNCHANGED <<count, expected, stopPc>>

-----------------------------------------------------------------------------
(* stop(): spins (stutters) while count > 0, because a failed exchange     *)
(* resets `expected` to 0.                                                 *)

StopCall(s) ==
    /\ stopPc[s] = "running"
    /\ stopPc' = [stopPc EXCEPT ![s] = "spin"]
    /\ UNCHANGED <<count, expected, pc>>

StopCas(s) ==
    /\ stopPc[s] = "spin"
    /\ count = 0
    /\ count' = -1
    /\ stopPc' = [stopPc EXCEPT ![s] = "stopped"]
    /\ UNCHANGED <<expected, pc>>

\* Another caller has already stopped the runner.
StopAlready(s) ==
    /\ stopPc[s] = "spin"
    /\ count < 0
    /\ stopPc' = [stopPc EXCEPT ![s] = "stopped"]
    /\ UNCHANGED <<count, expected, pc>>

-----------------------------------------------------------------------------
HandlerStep(h) ==
    Load(h) \/ Acquire(h) \/ Retry(h) \/ Refuse(h) \/ Release(h) \/ Complete(h)

StopStep(s) == StopCall(s) \/ StopCas(s) \/ StopAlready(s)

Next == \/ \E h \in Handlers : HandlerStep(h)
        \/ \E s \in Stoppers : StopStep(s)

Spec == Init /\ [][Next]_vars

(* The operating system runs every thread, and a handler leaves its scope. *)
(* Nothing forces an operation to complete or somebody to call stop().     *)
Fairness ==
    /\ \A h \in Handlers :
          WF_vars(Load(h) \/ Acquire(h) \/ Retry(h) \/ Refuse(h) \/ Release(h))
    /\ \A s \in Stoppers : WF_vars(StopCas(s) \/ StopAlready(s))

FairSpec == Spec /\ Fairness

-----------------------------------------------------------------------------
(* Properties *)

TypeOK ==
    /\ count \in -1 .. Cardinality(Handlers)
    /\ expected \in [Handlers -> -1 .. Cardinality(Handlers)]
    /\ pc \in [Handlers -> {"pending", "cas", "scope", "left", "refused"}]
    /\ stopPc \in [Stoppers -> {"running", "spin", "stopped"}]

(* Once a call of stop() has returned, the object may be freed: no         *)
(* completion handler is inside its scope, then or ever after              *)
(* (src/utility.hpp:455, src/server_http.hpp:496-499).                     *)
NobodyInsideAfterStop ==
    (\E s \in Stoppers : stopPc[s] = "stopped") => Holders = {}

(* `count` is -1 or the number of locks handed out: no interleaving of     *)
(* loads, exchanges and decrements loses or invents a lock.                *)
CountIsHolders == count = -1 \/ count = Cardinality(Holders)

(* The inductive invariant of the proofs. *)
StoppedIsMinusOne ==
    /\ count = -1 => Holders = {}
    /\ (\E s \in Stoppers : stopPc[s] = "stopped") => count = -1

IInv == TypeOK /\ CountIsHolders /\ StoppedIsMinusOne

(* Every interleaving of the atomics is a behaviour of the abstract gate.  *)
Gate == INSTANCE ScopeGate WITH inside <- Holders, open <- count # -1
RefinesGate == Gate!Spec

(* A stop() that is called returns, provided that from some moment on no   *)
(* handler enters the scope: a steady stream of handlers may starve it,    *)
(* because it waits for an instant at which count is 0.                    *)
StopReturns ==
    \A s \in Stoppers :
        <>[](Holders = {}) => (stopPc[s] = "spin" ~> stopPc[s] = "stopped")
=============================================================================
