----------------------------- MODULE ScopeGate -----------------------------
(***************************************************************************)
(* What a ScopeRunner promises the completion handlers and the destructor  *)
(* of the object it guards, whatever the atomics do: handlers enter and    *)
(* leave a scope while the gate is open, and the gate closes, for ever,    *)
(* only at a moment when nobody is inside.                                 *)
(***************************************************************************)
CONSTANT Handlers

VARIABLES inside,   \* the handlers that hold a shared lock
          open      \* FALSE once the guarded object may be destroyed

vars == <<inside, open>>

Init == inside = {} /\ open = TRUE

Enter(h) ==
    /\ open
    /\ h \notin inside
    /\ inside' = inside \cup {h}
    /\ UNCHANGED open

Leave(h) ==
    /\ h \in inside
    /\ inside' = inside \ {h}
    /\ UNCHANGED open

Close ==
    /\ open
    /\ inside = {}
    /\ open' = FALSE
    /\ UNCHANGED inside

Next == \/ \E h \in Handlers : Enter(h) \/ Leave(h)
        \/ Close

Spec == Init /\ [][Next]_vars
=============================================================================
