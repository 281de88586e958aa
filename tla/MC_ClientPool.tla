---------------------------- MODULE MC_ClientPool ----------------------------
(***************************************************************************)
(* Two requests and three connections: each request holds one, and one     *)
(* more is there to connect again.                                         *)
(***************************************************************************)
EXTENDS ClientPool, TLC

Symmetry == Permutations(Conns) \cup Permutations(Requests)

\* A free connection is overwritten before it is read.
Seen == <<pool, [c \in Conns |-> IF Free(c) THEN Fresh(TRUE) ELSE conn[c]],
          stage, op, of, open, parts, history>>
=============================================================================
