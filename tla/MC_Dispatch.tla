---------------------------- MODULE MC_Dispatch ----------------------------
(***************************************************************************)
(* One response with the two native members that count references, and     *)
(* the member that scripts put: their handler onSent, a function f.        *)
(***************************************************************************)
EXTENDS Dispatch
=============================================================================
