----------------------------- MODULE MC_KClient -----------------------------
(***************************************************************************)
(* The main thread and two threads of sendAsync() with a request each: all *)
(* may overlap, or one may come after another has left with an exception.  *)
(* The client is opened twice.  The server of one of the threads may stay  *)
(* silent.                                                                 *)
(***************************************************************************)
EXTENDS KClient

SilentTo == CHOOSE t \in Senders : TRUE
MCHeard == {q \in Requests : q[1] # SilentTo}
=============================================================================
