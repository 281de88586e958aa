---------------------------- MODULE NativeObject ----------------------------
(***************************************************************************)
(* NativeObject (src/NativeObject.hpp) with the callers it holds           *)
(* (src/Callers.hpp): a script object with a table of members, which are   *)
(* objects with reference counts of their own, under a mutex that is held  *)
(* while a member is called.                                               *)
(*                                                                         *)
(* Members are called by the script's thread only.  A section under the    *)
(* mutex is one step, unless it calls out: then the mutex stays locked     *)
(* until the call returns, and a call of the object that is made meanwhile *)
(* waits for ever (std::mutex is not recursive).                           *)
(*                                                                         *)
(* Operations that change nothing are left out: PropGet, IsValid,          *)
(* IsInstanceOf, and PropSet of a value that is no object, which the       *)
(* member refuses because it is given its own name (src/Callers.hpp:57).   *)
(***************************************************************************)
EXTENDS Integers, FiniteSets

CONSTANTS
    Names,       \* names of members
    Native,      \* those whose callers the constructor puts
    CallsOut,    \* those of them that call an object they are given
    Functions,   \* function objects of the script
    MaxCount,    \* bound on the references to one of them
    None

ASSUME NamesAssumption == IsFiniteSet(Names)
ASSUME NativeAssumption == Native \subseteq Names /\ CallsOut \subseteq Native
ASSUME FunctionsAssumption ==
    Functions \cap Names = {} /\ None \notin Names \cup Functions \cup Int
ASSUME MaxCountAssumption == MaxCount \in Nat

\* A caller is known by the member it was put for.
Objects == Native \cup Functions

VARIABLES
    functions,   \* [Names]: the member's object
    count,       \* [Objects]: the reference counts of the members' objects
    own,         \* functions that the script itself refers to
    call,        \* the member that runs under the mutex, or "EnumMembers"
    stuck,       \* the script waits for a mutex that it has locked itself
    replaced,    \* history: objects released for another one to take the name
    life         \* "alive", "ending": in the destructor, "deleted"

table == <<functions, count, own, replaced>>
nativeVars == <<functions, count, own, call, stuck, replaced, life>>

\* The constructor of the child, with putFunc() and putProp() for each member.
NativeInit ==
    /\ functions = [n \in Names |-> IF n \in Native THEN n ELSE None]
    /\ count = [o \in Objects |-> 1]
    /\ own = Functions
    /\ call = None
    /\ stuck = FALSE
    /\ replaced = {}
    /\ life = "alive"

Locked == call # None

\* The call that holds the mutex is in the script's code.
InScript ==
    \/ call = "EnumMembers"
    \/ call \in Names /\ functions[call] \in CallsOut \cup Functions

\* `concurrent` is taken, for a section that does not call out.
Section == life = "alive" /\ ~stuck /\ ~Locked

\* FuncCall() of an existing member: it runs under the mutex.  A call of a
\* member that is gone is undefined, and not modelled (TableHoldsLive).
FuncCall(n) ==
    /\ Section
    /\ functions[n] # None /\ count[functions[n]] > 0
    /\ call' = n
    /\ UNCHANGED <<table, stuck, life>>

\* EnumMembers(): the callback runs under the mutex.
EnumMembers ==
    /\ Section
    /\ call' = "EnumMembers"
    /\ UNCHANGED <<table, stuck, life>>

\* The member or the callback returns, and the lock goes.
CallReturns ==
    /\ Locked /\ ~stuck
    /\ call' = None
    /\ UNCHANGED <<table, stuck, life>>

\* Any operation of the object from within a call of it.
CallAgain ==
    /\ ~stuck /\ InScript
    /\ stuck' = TRUE
    /\ UNCHANGED <<table, call, life>>

\* Mutant: the new object is not counted (AsObjectNoAddRef()).
PropSetUncounted(n, f) ==
    /\ Section /\ f \in own /\ count[f] < MaxCount
    /\ functions' = IF functions[n] = None THEN [functions EXCEPT ![n] = f] ELSE functions
    /\ count' = [o \in Objects |-> count[o] - (IF o = functions[n] THEN 1 ELSE 0)]
    /\ replaced' = replaced \cup ({functions[n]} \ {None})
    /\ UNCHANGED <<own, call, stuck, life>>

\* PropSet() of an object: insert() does nothing when the name is taken,
\* although the old object has been released and the new one counted.
PropSet(n, f) ==
    /\ Section /\ f \in own /\ count[f] < MaxCount
    /\ functions' = IF functions[n] = None THEN [functions EXCEPT ![n] = f] ELSE functions
    /\ count' = [o \in Objects |-> count[o] + (IF o = f THEN 1 ELSE 0)
                                            - (IF o = functions[n] THEN 1 ELSE 0)]
    /\ replaced' = replaced \cup ({functions[n]} \ {None})
    /\ UNCHANGED <<own, call, stuck, life>>

DeleteMember(n) ==
    /\ Section
    /\ functions[n] # None
    /\ count' = [count EXCEPT ![functions[n]] = @ - 1]
    /\ functions' = [functions EXCEPT ![n] = None]
    /\ UNCHANGED <<own, call, stuck, replaced, life>>

\* The script's own variable of a function goes.
Forget(f) ==
    /\ ~stuck /\ f \in own
    /\ own' = own \ {f}
    /\ count' = [count EXCEPT ![f] = @ - 1]
    /\ UNCHANGED <<functions, call, stuck, replaced, life>>

\* The destructor waits for the mutex, then releases every member once.
Destructor ==
    /\ life = "ending"
    /\ ~Locked
    /\ count' = [o \in Objects |-> count[o] - Cardinality({n \in Names : functions[n] = o})]
    /\ life' = "deleted"
    /\ UNCHANGED <<functions, own, call, stuck, replaced>>

\* What a script does with an object it has a variable of.
NativeStep ==
    \/ \E n \in Names : FuncCall(n) \/ DeleteMember(n)
    \/ \E n \in Names, f \in Functions : PropSet(n, f)
    \/ EnumMembers

-----------------------------------------------------------------------------
(* Every member is an object that exists, as long as the script has not    *)
(* put one in the place of another: the table's counts survive any order   *)
(* of assigning, deleting and forgetting (src/NativeObject.hpp:88-113,     *)
(* 148-166).                                                               *)
TableHoldsLive ==
    life = "alive" =>
       \A n \in Names :
          functions[n] \in Objects \ replaced => count[functions[n]] > 0

=============================================================================
