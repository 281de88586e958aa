--------------------------- MODULE HeaderEndMatch ---------------------------
(***************************************************************************)
(* HeaderEndMatch (src/client_http.hpp:13-49): the condition with which    *)
(* the client reads up to the end of a response's header, and of a         *)
(* server-sent event.  asio calls it with the bytes that have arrived      *)
(* since the last call; its two counters live on between the calls, so     *)
(* that it is a machine that takes the stream byte by byte.                *)
(***************************************************************************)
EXTENDS Integers

CR == "CR"
LF == "LF"

\* crlfcrlf, lflf, and whether the end has been returned.
Counting(c, l) == [crlfcrlf |-> c, lflf |-> l, found |-> FALSE]

NewMatch == Counting(0, 0)

Matches == [crlfcrlf : 0..3, lflf : 0..1, found : BOOLEAN]

\* Mutant: a '\r' after a complete "\r\n" starts over.
MatchCRForgets(m) == Counting(IF m.crlfcrlf = 0 THEN 1 ELSE 0, 0)

MatchCR(m) ==
    Counting(IF m.crlfcrlf \in {0, 2} THEN m.crlfcrlf + 1 ELSE 0, 0)

MatchLF(m) ==
    IF m.crlfcrlf = 3 \/ m.lflf = 1
    THEN [m EXCEPT !.found = TRUE]
    ELSE Counting(IF m.crlfcrlf = 1 THEN 2 ELSE 0, 1)

MatchOther(m) == Counting(0, 0)

MatchByte(m, b) ==
    CASE b = LF -> MatchLF(m)
      [] b = CR -> MatchCR(m)
      [] OTHER -> MatchOther(m)
=============================================================================
