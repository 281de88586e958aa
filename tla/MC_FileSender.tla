---------------------------- MODULE MC_FileSender ----------------------------
(***************************************************************************)
(* Two files on one response, with blocks of two: an empty file, one      *)
(* below a block, full blocks only, and full blocks with a rest.           *)
(***************************************************************************)
EXTENDS FileSender
=============================================================================
