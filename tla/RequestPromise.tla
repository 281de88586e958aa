--------------------------- MODULE RequestPromise ---------------------------
(***************************************************************************)
(* What a client promises whoever makes a request, whatever becomes of     *)
(* connections, timers and other requests: it is tried at most twice, and  *)
(* never again once the caller has been told anything; the caller is told  *)
(* of an event only after a try, of the end once, and of nothing after     *)
(* that, nor once the client is closed.                                    *)
(***************************************************************************)
EXTENDS Naturals

CONSTANT Requests

VARIABLES state,   \* [Requests]: none, asked, answered or lost
          tries,   \* [Requests]: times it was sent since it was asked
          told,    \* [Requests]: calls of its callback
          open     \* FALSE once the client may be destroyed

vars == <<state, tries, told, open>>

Init ==
    /\ state = [r \in Requests |-> "none"]
    /\ tries = [r \in Requests |-> 0]
    /\ told = [r \in Requests |-> 0]
    /\ open = TRUE

Ask(r) ==
    /\ open
    /\ state[r] \in {"none", "answered"}
    /\ state' = [state EXCEPT ![r] = "asked"]
    /\ tries' = [tries EXCEPT ![r] = 0]
    /\ told' = [told EXCEPT ![r] = 0]
    /\ UNCHANGED open

Asked(r) == open /\ state[r] = "asked"

Try(r) ==
    /\ Asked(r)
    /\ tries[r] < 2
    /\ told[r] = 0
    /\ tries' = [tries EXCEPT ![r] = @ + 1]
    /\ UNCHANGED <<state, told, open>>

Event(r) ==
    /\ Asked(r)
    /\ tries[r] > 0
    /\ told' = [told EXCEPT ![r] = @ + 1]
    /\ UNCHANGED <<state, tries, open>>

Answer(r) ==
    /\ Asked(r)
    /\ told' = [told EXCEPT ![r] = @ + 1]
    /\ state' = [state EXCEPT ![r] = "answered"]
    /\ UNCHANGED <<tries, open>>

\* The client has been closed, or a response has made a handler throw.
Lose(r) ==
    /\ state[r] = "asked"
    /\ open => tries[r] > 0 /\ told[r] = 0
    /\ state' = [state EXCEPT ![r] = "lost"]
    /\ UNCHANGED <<tries, told, open>>

Close ==
    /\ open
    /\ open' = FALSE
    /\ UNCHANGED <<state, tries, told>>

Next ==
    \/ \E r \in Requests : Ask(r) \/ Try(r) \/ Event(r) \/ Answer(r) \/ Lose(r)
    \/ Close

Spec == Init /\ [][Next]_vars
=============================================================================
