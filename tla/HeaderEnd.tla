----------------------------- MODULE HeaderEnd ------------------------------
(***************************************************************************)
(* The machine of HeaderEndMatch at work on a stream: every text over      *)
(* Bytes, up to the byte at which it reports the end of the header.        *)
(***************************************************************************)
EXTENDS HeaderEndMatch, Sequences

CONSTANTS Bytes,
          MaxText      \* bound on the length of a text

VARIABLES text,        \* what the stream has delivered
          match        \* the matcher's counters

streamVars == <<text, match>>

StreamInit == text = <<>> /\ match = NewMatch

\* The loop's next byte; there is none after `return {++it, true}`.
StreamNext ==
    /\ ~match.found
    /\ Len(text) < MaxText
    /\ \E b \in Bytes : /\ text' = Append(text, b)
                        /\ match' = MatchByte(match, b)

StreamSpec == StreamInit /\ [][StreamNext]_streamVars

-----------------------------------------------------------------------------
(* Properties *)

StreamTypeOK ==
    /\ text \in Seq(Bytes)
    /\ match \in Matches

\* The bytes s stand in the text from position i on.
StandsAt(i, s) == \A k \in 1..Len(s) : i + k - 1 \in 1..Len(text)
                                        /\ text[i + k - 1] = s[k]

EndsWith(s) == StandsAt(Len(text) - Len(s) + 1, s)

\* What is reported as an end is one, standard or not: "\r\n\r\n" or "\n\n".
FoundIsEnd ==
    match.found => EndsWith(<<CR, LF, CR, LF>>) \/ EndsWith(<<LF, LF>>)

\* An end that was not reported is no "\n\n", and a "\r\n\r\n" only where a
\* third '\r' before it has thrown the counter out of step.
EndIsFound ==
    ~match.found =>
        /\ \A i \in 1..Len(text) : ~StandsAt(i, <<LF, LF>>)
        /\ \A i \in 1..Len(text) :
              StandsAt(i, <<CR, LF, CR, LF>>) => i > 1 /\ text[i - 1] = CR

\* The end of a header is found where it is, however the bytes arrive, unless
\* a stray '\r' stands before it (src/client_http.hpp:18-48).
HeaderEndIsExact == FoundIsEnd /\ EndIsFound

\* What the counters remember of the text, unless it has been cut off.
LastIs(k, b) == Len(text) >= k /\ text[Len(text) - k + 1] = b

CountersTellTail ==
    ~match.found =>
        /\ match.lflf = 1 <=> LastIs(1, LF)
        /\ match.crlfcrlf = 1 => LastIs(1, CR)
        /\ match.crlfcrlf = 2 => LastIs(1, LF) /\ LastIs(2, CR)
        /\ match.crlfcrlf = 3 => LastIs(1, CR) /\ LastIs(2, LF) /\ LastIs(3, CR)

\* After a '\r' that follows no '\r' the counter is in step.
TailTellsCounters ==
    ~match.found =>
        /\ LastIs(1, CR) /\ ~LastIs(2, CR) => match.crlfcrlf \in {1, 3}
        /\ LastIs(1, LF) /\ LastIs(2, CR) /\ ~LastIs(3, CR) => match.crlfcrlf = 2
        /\ LastIs(1, CR) /\ LastIs(2, LF) /\ LastIs(3, CR) /\ ~LastIs(4, CR)
              => match.crlfcrlf = 3

StreamInv == StreamTypeOK /\ FoundIsEnd /\ EndIsFound /\ CountersTellTail /\ TailTellsCounters
=============================================================================
