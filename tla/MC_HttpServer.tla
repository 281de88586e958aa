--------------------------- MODULE MC_HttpServer ---------------------------
(***************************************************************************)
(* Two starts, so that a run follows a stop or overlaps it, and three      *)
(* connection objects: one accepts while one is served and one dies.       *)
(***************************************************************************)
EXTENDS HttpServer
=============================================================================
