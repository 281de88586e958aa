------------------------ MODULE MC_ServerConnection ------------------------
(***************************************************************************)
(* Two requests on one connection, so that the second read follows a       *)
(* response, and two chunks, so that a chunk follows a chunk.  The eight   *)
(* requests reach every branch of the header's handler and of Persistent.  *)
(***************************************************************************)
EXTENDS ServerConnection

Request(wellFormed, body, route, connection, version) ==
    [wellFormed |-> wellFormed, body |-> body, route |-> route,
     connection |-> connection, version |-> version]

MCRequests ==
    { Request(TRUE, "none", TRUE, <<>>, "1.1"),
      Request(TRUE, "inBuffer", TRUE, <<"other", "keep-alive">>, "1.0"),
      Request(TRUE, "toRead", TRUE, <<"close", "keep-alive">>, "1.1"),
      Request(TRUE, "chunked", TRUE, <<"keep-alive", "close">>, "1.1"),
      Request(TRUE, "toRead", TRUE, <<"other">>, "1.0"),
      Request(TRUE, "none", FALSE, <<>>, "1.1"),
      Request(TRUE, "badLength", TRUE, <<>>, "1.1"),
      Request(FALSE, "none", TRUE, <<>>, "1.1") }
=============================================================================
