--------------------------- MODULE MC_ScopeRunner ---------------------------
(***************************************************************************)
(* Three chains of handlers against two callers of stop(): enough for two  *)
(* exchanges to fail in a row and for the second stop() to find -1.        *)
(***************************************************************************)
EXTENDS ScopeRunner
=============================================================================
