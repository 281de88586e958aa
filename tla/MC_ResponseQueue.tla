-------------------------- MODULE MC_ResponseQueue --------------------------
(***************************************************************************)
(* Two senders and two io threads, as when a script sends while a          *)
(* FileSender runs on KServer's pool of two: three calls of send() let     *)
(* a third buffer arrive between the two halves of a handler, or while two *)
(* others are on their way to the mutex.                                   *)
(***************************************************************************)
EXTENDS ResponseQueue
=============================================================================
