------------------------- MODULE ConnectionPromise --------------------------
(***************************************************************************)
(* What a connection promises its peer and the server's owner: requests    *)
(* are taken one after another, each is handled once, when all of it is    *)
(* there, and answered once, before the next is taken; one that is neither *)
(* is reported, unless nobody handles its kind; and neither a handler nor  *)
(* on_error is called when the server is gone.                             *)
(***************************************************************************)
EXTENDS Naturals

VARIABLES stage,     \* waiting, arriving, whole, handled, answered or ended
          route,     \* there is a handler for the request
          handled,   \* calls of handlers
          answered,  \* responses the peer has got
          reported,  \* calls of on_error since the request came
          open       \* FALSE once the server is being destroyed

vars == <<stage, route, handled, answered, reported, open>>

Init ==
    /\ stage = "waiting"
    /\ route = FALSE
    /\ handled = 0 /\ answered = 0 /\ reported = 0
    /\ open = TRUE

Receive ==
    /\ stage = "waiting"
    /\ stage' \in {"arriving", "whole"}
    /\ route' \in BOOLEAN
    /\ reported' = 0
    /\ UNCHANGED <<handled, answered, open>>

Complete ==
    /\ stage = "arriving"
    /\ stage' = "whole"
    /\ UNCHANGED <<route, handled, answered, reported, open>>

\* A handler that throws is reported, and its response is sent nevertheless.
Handle ==
    /\ open /\ stage = "whole" /\ route
    /\ stage' = "handled"
    /\ handled' = handled + 1
    /\ reported' \in {reported, reported + 1}
    /\ UNCHANGED <<route, answered, open>>

Answer ==
    /\ stage = "handled"
    /\ stage' = "answered"
    /\ answered' = answered + 1
    /\ UNCHANGED <<route, handled, reported, open>>

GoOn ==
    /\ open /\ stage = "answered"
    /\ stage' = "waiting"
    /\ UNCHANGED <<route, handled, answered, reported, open>>

Report ==
    /\ open /\ stage \notin {"answered", "ended"}
    /\ stage' = "ended"
    /\ reported' = reported + 1
    /\ UNCHANGED <<route, handled, answered, open>>

\* The connection ends and nobody is told.
End ==
    /\ stage # "ended"
    /\ open => stage = "answered" \/ (stage = "whole" /\ ~route)
    /\ stage' = "ended"
    /\ UNCHANGED <<route, handled, answered, reported, open>>

Close ==
    /\ open
    /\ open' = FALSE
    /\ UNCHANGED <<stage, route, handled, answered, reported>>

Next == \/ Receive \/ Complete \/ Handle \/ Answer \/ GoOn
        \/ Report \/ End \/ Close

Spec == Init /\ [][Next]_vars
=============================================================================
