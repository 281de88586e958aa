--------------------------- MODULE Client_proofs ----------------------------
(***************************************************************************)
(* The client of client_http.hpp.  The matcher that ends the read of a     *)
(* header, for every alphabet and every text: what it reports is an end,   *)
(* and the ends it passes over are those that follow a stray '\r'; the     *)
(* invariant ties its two counters to the last bytes of the text, in both  *)
(* directions.  Then the sessions, for any number of requests made at the  *)
(* same time and of connections, with or without TLS, a proxy and timeouts.*)
(***************************************************************************)
EXTENDS ClientPool, HeaderEnd, TLAPS

(***************************************************************************)
(* HeaderEnd: the condition on which async_read_until() completes.         *)
(***************************************************************************)

\* One more byte: what the text's positions hold after a step.
LEMMA ByteAppended ==
    ASSUME NEW b, text \in Seq(Bytes), b \in Bytes, text' = Append(text, b)
    PROVE  /\ Len(text) \in Nat
           /\ Len(text') = Len(text) + 1
           /\ text' \in Seq(Bytes)
           /\ text'[Len(text) + 1] = b
           /\ \A i \in 1..Len(text) : text'[i] = text[i]
  OBVIOUS

\* The tail moves up by one byte.
LEMMA TailFacts ==
    ASSUME NEW b, text \in Seq(Bytes), b \in Bytes, text' = Append(text, b)
    PROVE  /\ \A c : LastIs(1, c)' <=> b = c
           /\ \A c : LastIs(2, c)' <=> LastIs(1, c)
           /\ \A c : LastIs(3, c)' <=> LastIs(2, c)
           /\ \A c : LastIs(4, c)' <=> LastIs(3, c)
  BY ByteAppended DEF LastIs

\* A matcher's step by the byte it takes.
LEMMA MatchFacts ==
    ASSUME NEW b, match \in [crlfcrlf : 0..3, lflf : 0..1, found : BOOLEAN],
           match' = MatchByte(match, b), ~match.found
    PROVE  /\ match' \in [crlfcrlf : 0..3, lflf : 0..1, found : BOOLEAN]
           /\ b = LF =>
                 /\ match'.found <=> match.crlfcrlf = 3 \/ match.lflf = 1
                 /\ ~match'.found =>
                       /\ match'.lflf = 1
                       /\ match'.crlfcrlf = IF match.crlfcrlf = 1 THEN 2 ELSE 0
           /\ b = CR =>
                 /\ ~match'.found
                 /\ match'.lflf = 0
                 /\ match'.crlfcrlf = IF match.crlfcrlf \in {0, 2}
                                      THEN match.crlfcrlf + 1 ELSE 0
           /\ b # LF /\ b # CR =>
                 ~match'.found /\ match'.lflf = 0 /\ match'.crlfcrlf = 0
<1>1. CR # LF
  BY DEF CR, LF
<1>2. CASE b = LF
  <2>1. match' = MatchLF(match)
    BY <1>1, <1>2 DEF MatchByte
  <2>2. CASE match.crlfcrlf = 3 \/ match.lflf = 1
    <3>1. match' = [match EXCEPT !.found = TRUE]
      BY <2>1, <2>2 DEF MatchLF
    <3>2. /\ match' \in [crlfcrlf : 0..3, lflf : 0..1, found : BOOLEAN]
          /\ match'.found
      BY <3>1
    <3> QED
      BY ONLY <1>1, <1>2, <2>2, <3>2
  <2>3. CASE ~(match.crlfcrlf = 3 \/ match.lflf = 1)
    <3>1. match' = [crlfcrlf |-> IF match.crlfcrlf = 1 THEN 2 ELSE 0,
                   lflf |-> 1, found |-> FALSE]
      BY <2>1, <2>3 DEF MatchLF, Counting
    <3>2. /\ match' \in [crlfcrlf : 0..3, lflf : 0..1, found : BOOLEAN]
          /\ ~match'.found
          /\ match'.lflf = 1
          /\ match'.crlfcrlf = IF match.crlfcrlf = 1 THEN 2 ELSE 0
      BY <3>1
    <3> QED
      BY ONLY <1>1, <1>2, <2>3, <3>2
  <2> QED
    BY <2>2, <2>3
<1>3. CASE b = CR
  <2>1. match' = MatchCR(match)
    BY <1>1, <1>3 DEF MatchByte
  <2>2. match' = Counting(IF match.crlfcrlf \in {0, 2}
                          THEN match.crlfcrlf + 1 ELSE 0, 0)
    BY <2>1 DEF MatchCR
  <2>3. (IF match.crlfcrlf \in {0, 2} THEN match.crlfcrlf + 1 ELSE 0) \in 0..3
    OBVIOUS
  <2>4. match' = [crlfcrlf |-> IF match.crlfcrlf \in {0, 2}
                             THEN match.crlfcrlf + 1 ELSE 0,
                 lflf |-> 0, found |-> FALSE]
    BY <2>2 DEF Counting
  <2>5. /\ match' \in [crlfcrlf : 0..3, lflf : 0..1, found : BOOLEAN]
        /\ ~match'.found
        /\ match'.lflf = 0
        /\ match'.crlfcrlf = IF match.crlfcrlf \in {0, 2}
                            THEN match.crlfcrlf + 1 ELSE 0
    BY <2>3, <2>4
  <2> QED
    BY ONLY <1>1, <1>3, <2>5
<1>4. CASE b # LF /\ b # CR
  <2>1. match' = MatchOther(match)
    BY <1>4 DEF MatchByte
  <2> QED
    BY <1>4, <2>1 DEF MatchOther, Counting
<1> QED
  BY <1>2, <1>3, <1>4

LEMMA StreamInitially == StreamInit => StreamInv
  BY DEF StreamInit, StreamInv, StreamTypeOK, FoundIsEnd, EndIsFound, CountersTellTail,
         TailTellsCounters, NewMatch, Counting, Matches, LastIs, StandsAt, CR, LF

LEMMA StreamInductive == StreamInv /\ [StreamNext]_streamVars => StreamInv'
<1> SUFFICES ASSUME StreamInv, [StreamNext]_streamVars
             PROVE  StreamInv'
  OBVIOUS
<1>1. CASE UNCHANGED streamVars
  BY <1>1 DEF streamVars, StreamInv, StreamTypeOK, FoundIsEnd, EndIsFound, CountersTellTail,
              TailTellsCounters, LastIs, StandsAt, EndsWith
<1>2. CASE StreamNext
  <2>1. PICK b \in Bytes : text' = Append(text, b) /\ match' = MatchByte(match, b)
    BY <1>2 DEF StreamNext
  <2>2. ~match.found
    BY <1>2 DEF StreamNext
  <2>3. text \in Seq(Bytes) /\ match \in [crlfcrlf : 0..3, lflf : 0..1, found : BOOLEAN]
    BY DEF StreamInv, StreamTypeOK, Matches
  <2> DEFINE n == Len(text)
  <2>a. /\ n \in Nat
        /\ Len(text') = n + 1
        /\ text' \in Seq(Bytes)
        /\ text'[n + 1] = b
        /\ \A i \in 1..n : text'[i] = text[i]
    BY <2>1, <2>3, ByteAppended
  <2>t. /\ \A c : LastIs(1, c)' <=> b = c
        /\ \A c : LastIs(2, c)' <=> LastIs(1, c)
        /\ \A c : LastIs(3, c)' <=> LastIs(2, c)
        /\ \A c : LastIs(4, c)' <=> LastIs(3, c)
    BY <2>1, <2>3, TailFacts
  <2>m. /\ match' \in [crlfcrlf : 0..3, lflf : 0..1, found : BOOLEAN]
        /\ b = LF =>
              /\ match'.found <=> match.crlfcrlf = 3 \/ match.lflf = 1
              /\ ~match'.found =>
                    /\ match'.lflf = 1
                    /\ match'.crlfcrlf = IF match.crlfcrlf = 1 THEN 2 ELSE 0
        /\ b = CR =>
              /\ ~match'.found
              /\ match'.lflf = 0
              /\ match'.crlfcrlf = IF match.crlfcrlf \in {0, 2}
                                   THEN match.crlfcrlf + 1 ELSE 0
        /\ b # LF /\ b # CR =>
              ~match'.found /\ match'.lflf = 0 /\ match'.crlfcrlf = 0
    BY <2>1, <2>2, <2>3, MatchFacts
  <2>d. CR # LF
    BY DEF CR, LF
  <2>c. /\ match.lflf = 1 <=> LastIs(1, LF)
        /\ match.crlfcrlf = 1 => LastIs(1, CR)
        /\ match.crlfcrlf = 2 => LastIs(1, LF) /\ LastIs(2, CR)
        /\ match.crlfcrlf = 3 => LastIs(1, CR) /\ LastIs(2, LF) /\ LastIs(3, CR)
    BY <2>2 DEF StreamInv, CountersTellTail
  <2>s. /\ LastIs(1, CR) /\ ~LastIs(2, CR) => match.crlfcrlf \in {1, 3}
        /\ LastIs(1, LF) /\ LastIs(2, CR) /\ ~LastIs(3, CR) => match.crlfcrlf = 2
        /\ LastIs(1, CR) /\ LastIs(2, LF) /\ LastIs(3, CR) /\ ~LastIs(4, CR)
              => match.crlfcrlf = 3
    BY <2>2 DEF StreamInv, TailTellsCounters
  <2>u. ~(LastIs(1, CR) /\ LastIs(1, LF))
    BY <2>d DEF LastIs
  <2>4. StreamTypeOK'
    BY <2>a, <2>m DEF StreamTypeOK, Matches
  <2>5. FoundIsEnd'
    <3> SUFFICES ASSUME match'.found
                 PROVE  \/ EndsWith(<<CR, LF, CR, LF>>)' \/ EndsWith(<<LF, LF>>)'
      BY DEF FoundIsEnd
    <3>1. b = LF /\ (match.crlfcrlf = 3 \/ match.lflf = 1)
      BY <2>m
    <3>2. CASE match.lflf = 1
      <4>1. n >= 1 /\ text[n] = LF
        BY <3>2, <2>c, <2>a DEF LastIs
      <4> QED
        BY <4>1, <3>1, <2>a DEF EndsWith, StandsAt
    <3>3. CASE match.crlfcrlf = 3
      <4>1. n >= 3 /\ text[n] = CR /\ text[n - 1] = LF /\ text[n - 2] = CR
        BY <3>3, <2>c, <2>a DEF LastIs
      <4>2. /\ text'[n + 1] = LF /\ text'[n] = CR
            /\ text'[n - 1] = LF /\ text'[n - 2] = CR
        BY <4>1, <3>1, <2>a
      <4>3. /\ Len(<<CR, LF, CR, LF>>) = 4
            /\ <<CR, LF, CR, LF>>[1] = CR /\ <<CR, LF, CR, LF>>[2] = LF
            /\ <<CR, LF, CR, LF>>[3] = CR /\ <<CR, LF, CR, LF>>[4] = LF
        OBVIOUS
      <4>4. ASSUME NEW k \in 1..4
            PROVE  /\ n - 2 + k - 1 \in 1..n + 1
                   /\ text'[n - 2 + k - 1] = <<CR, LF, CR, LF>>[k]
        <5>1. k = 1 \/ k = 2 \/ k = 3 \/ k = 4
          OBVIOUS
        <5> QED
          BY <5>1, <4>1, <4>2, <4>3, <2>a
      <4>5. Len(text') - 4 + 1 = n - 2
        BY <2>a
      <4>6. ASSUME NEW k \in 1..Len(<<CR, LF, CR, LF>>)
            PROVE  LET i == Len(text') - Len(<<CR, LF, CR, LF>>) + 1
                   IN  /\ i + k - 1 \in 1..Len(text')
                       /\ text'[i + k - 1] = <<CR, LF, CR, LF>>[k]
        <5>1. k \in 1..4 /\ Len(text') - Len(<<CR, LF, CR, LF>>) + 1 = n - 2
          BY <4>3, <4>5
        <5> QED
          BY <5>1, <4>4, <2>a
      <4> QED
        BY <4>6 DEF EndsWith, StandsAt
    <3> QED
      BY <3>1, <3>2, <3>3
  <2>6. EndIsFound'
    <3> SUFFICES ASSUME ~match'.found
                 PROVE  /\ \A i \in 1..n + 1 : ~StandsAt(i, <<LF, LF>>)'
                        /\ \A i \in 1..n + 1 : StandsAt(i, <<CR, LF, CR, LF>>)'
                              => i > 1 /\ text'[i - 1] = CR
      BY <2>a DEF EndIsFound
    <3>1. ASSUME NEW i \in 1..n + 1, StandsAt(i, <<LF, LF>>)'
          PROVE  FALSE
      <4>1. i \in 1..n /\ text'[i] = LF /\ text'[i + 1] = LF
        BY <3>1, <2>a DEF StandsAt
      <4>2. CASE i < n
        <5>1. StandsAt(i, <<LF, LF>>)
          BY <4>1, <4>2, <2>a DEF StandsAt
        <5> QED
          BY <5>1, <4>1, <2>2 DEF StreamInv, EndIsFound
      <4>3. CASE i = n
        <5>1. LastIs(1, LF) /\ b = LF
          BY <4>1, <4>3, <2>a DEF LastIs
        <5> QED
          BY <5>1, <2>c, <2>m
      <4> QED
        BY <4>1, <4>2, <4>3, <2>a
    <3>2. ASSUME NEW i \in 1..n + 1, StandsAt(i, <<CR, LF, CR, LF>>)'
          PROVE  i > 1 /\ text'[i - 1] = CR
      <4>1. /\ i + 3 <= n + 1
            /\ text'[i] = CR /\ text'[i + 1] = LF
            /\ text'[i + 2] = CR /\ text'[i + 3] = LF
        BY <3>2, <2>a DEF StandsAt
      <4>2. CASE i + 3 <= n
        <5>1. StandsAt(i, <<CR, LF, CR, LF>>) /\ i \in 1..n
          BY <4>1, <4>2, <2>a DEF StandsAt
        <5>2. i > 1 /\ text[i - 1] = CR
          BY <5>1, <2>2 DEF StreamInv, EndIsFound
        <5> QED
          BY <5>1, <5>2, <2>a
      <4>3. CASE i + 3 = n + 1
        <5>1. LastIs(1, CR) /\ LastIs(2, LF) /\ LastIs(3, CR) /\ b = LF
          BY <4>1, <4>3, <2>a DEF LastIs
        <5>2. LastIs(4, CR)
          BY <5>1, <2>s, <2>m
        <5> QED
          BY <5>2, <4>3, <2>a DEF LastIs
      <4> QED
        BY <4>1, <4>2, <4>3, <2>a
    <3> QED
      BY <3>1, <3>2
  <2>7. CountersTellTail'
    BY <2>t, <2>m, <2>c, <2>d, <2>3 DEF CountersTellTail
  <2>8. TailTellsCounters'
    BY <2>t, <2>m, <2>c, <2>d, <2>s, <2>u, <2>3 DEF TailTellsCounters
  <2> QED
    BY <2>4, <2>5, <2>6, <2>7, <2>8 DEF StreamInv
<1> QED
  BY <1>1, <1>2 DEF StreamNext

\* The inductive invariant, the machine's types among it.
THEOREM StreamInvariant == StreamSpec => []StreamInv
  BY StreamInitially, StreamInductive, PTL DEF StreamSpec

\* Every reported end of a header is "\r\n\r\n" or "\n\n"; no "\n\n" is passed
\* over, and no "\r\n\r\n" that follows no '\r'.
THEOREM HeaderEndExact == StreamSpec => []HeaderEndIsExact
<1>1. StreamInv => HeaderEndIsExact
  BY DEF StreamInv, HeaderEndIsExact
<1> QED
  BY <1>1, StreamInvariant, PTL

(***************************************************************************)
(* ClientPool: the sessions.                                               *)
(***************************************************************************)

Connection == [inUse : BOOLEAN, attempt : BOOLEAN, event : BOOLEAN,
               sock : {"none", "open", "ended", "closed"},
               armed : BOOLEAN, expiry : BOOLEAN]

\* What keeps get_connection() and the loop of the callback from a connection
\* that a session works with.
OwnedBy(r) ==
    Live(r) => /\ conn[of[r]].inUse
               /\ stage[r] \in {"opened", "event"} => conn[of[r]].event

\* How often a request has been written: `attempt` tells the tries apart.
WritesOf(r) ==
    /\ sent[r] <= 2
    /\ stage[r] \in Setup \cup {"held", "again"} =>
          sent[r] <= IF conn[of[r]].attempt THEN 0 ELSE 1
    /\ stage[r] \in {"write", "read"} =>
          sent[r] <= IF conn[of[r]].attempt THEN 1 ELSE 2

\* The callback's last call is the session's end.
CallsOf(r) == calls[r] = IF stage[r] = "done" THEN events[r] + 1 ELSE events[r]

IInv ==
    /\ TypeOK
    /\ ConnectionExclusive
    /\ \A r \in Requests : OwnedBy(r) /\ WritesOf(r) /\ CallsOf(r)

USE DEF Live, Stages, Waits, Setup, Body

(***************************************************************************)
(* The fields of a connection.                                             *)
(***************************************************************************)

\* An assignment to a field of one connection.
LEMMA Fields ==
    ASSUME NEW f \in [Conns -> Connection], NEW c \in Conns, NEW b \in BOOLEAN
    PROVE  /\ [f EXCEPT ![c].armed = b] \in [Conns -> Connection]
           /\ [f EXCEPT ![c].inUse = b] \in [Conns -> Connection]
           /\ [f EXCEPT ![c].attempt = b] \in [Conns -> Connection]
           /\ [f EXCEPT ![c].event = b] \in [Conns -> Connection]
           /\ [f EXCEPT ![c].expiry = b] \in [Conns -> Connection]
  BY DEF Connection

\* An assignment to `sock`.
LEMMA Sockets ==
    ASSUME NEW f \in [Conns -> Connection], NEW c \in Conns,
           NEW k \in {"none", "open", "ended", "closed"}
    PROVE  [f EXCEPT ![c].sock = k] \in [Conns -> Connection]
  BY DEF Connection

\* No request has been made.
LEMMA InitInv == Init => IInv
<1> SUFFICES ASSUME Init PROVE IInv
  OBVIOUS
<1>1. conn \in [Conns -> Connection]
  BY DEF Init, Fresh, Connection
<1>2. TypeOK
  <2>1. stage \in [Requests -> Stages]
    BY DEF Init
  <2>2. /\ op \in [Requests -> {"pending", "ok", "aborted", "error"}]
        /\ of \in [Requests -> Conns \cup {None}]
    BY DEF Init
  <2>3. parts \in [Requests -> 0..MaxParts]
    BY PartsAssumption DEF Init
  <2>4. \A r \in Requests : ~Live(r)
    BY DEF Init
  <2> QED
    BY <1>1, <2>1, <2>2, <2>3, <2>4 DEF Init, TypeOK, Connection
<1>3. ConnectionExclusive
  BY DEF Init, ConnectionExclusive
<1>4. \A r \in Requests : OwnedBy(r) /\ WritesOf(r) /\ CallsOf(r)
  BY DEF Init, OwnedBy, WritesOf, CallsOf
<1> QED
  BY <1>2, <1>3, <1>4 DEF IInv

(***************************************************************************)
(* What one session does with its connection leaves the others' alone.     *)
(***************************************************************************)
LEMMA SessionStep ==
    ASSUME IInv, NEW r \in Requests, Live(r), TypeOK',
           \A d \in Conns \ {of[r]} : conn'[d] = conn[d],
           \A q \in Requests \ {r} :
              /\ stage'[q] = stage[q] /\ of'[q] = of[q]
              /\ sent'[q] = sent[q] /\ calls'[q] = calls[q] /\ events'[q] = events[q],
           Live(r)' => of'[r] = of[r],
           OwnedBy(r)', WritesOf(r)', CallsOf(r)'
    PROVE  IInv'
<1>1. ConnectionExclusive'
  BY DEF IInv, ConnectionExclusive
<1>2. ASSUME NEW q \in Requests \ {r}
      PROVE  (OwnedBy(q) /\ WritesOf(q) /\ CallsOf(q))'
  <2>1. CASE Live(q)
    <3>1. of[q] \in Conns \ {of[r]}
      BY <2>1 DEF IInv, ConnectionExclusive, TypeOK
    <3> QED
      BY <3>1 DEF IInv, OwnedBy, WritesOf, CallsOf
  <2>2. CASE ~Live(q)
    BY <2>2 DEF IInv, OwnedBy, WritesOf, CallsOf
  <2> QED
    BY <2>1, <2>2
<1> QED
  BY <1>1, <1>2 DEF IInv

\* It starts an operation: a stage before the write is not entered again.
LEMMA Waiting ==
    ASSUME IInv, NEW r \in Requests, Live(r), NEW s \in Waits \ {"event"},
           NEW cs \in {conn, [conn EXCEPT ![of[r]].attempt = TRUE]},
           cs = conn \/ s \notin Setup \cup {"write", "read"},
           s \in Setup \cup {"write"} => stage[r] \in Setup \cup {"held", "again"},
           s = "read" => stage[r] = "write",
           Wait(r, s, cs)
    PROVE  IInv'
<1> DEFINE c == of[r]
<1>1. c \in Conns /\ conn \in [Conns -> Connection]
  BY DEF IInv, TypeOK, Connection
<1>2. cs \in [Conns -> Connection]
  <2>1. [conn EXCEPT ![c].attempt = TRUE] \in [Conns -> Connection]
    BY <1>1, Fields
  <2> QED
    BY <1>1, <2>1
<1>3. conn' \in [Conns -> Connection]
  <2>1. (TimeoutOf(s) > 0) \in BOOLEAN
    OBVIOUS
  <2> QED
    BY <1>1, <1>2, <2>1, Fields DEF Wait
<1>4. TypeOK'
  <2>1. stage' \in [Requests -> Stages] /\ sent' \in [Requests -> Nat]
    BY DEF IInv, TypeOK, Wait
  <2>2. op' \in [Requests -> {"pending", "ok", "aborted", "error"}]
    BY DEF IInv, TypeOK, Wait
  <2>3. \A q \in Requests : Live(q)' => of'[q] # None
    BY DEF IInv, TypeOK, Wait
  <2> QED
    BY <1>3, <2>1, <2>2, <2>3 DEF IInv, TypeOK, Wait, Connection
<1>5. /\ conn'[c].inUse = conn[c].inUse /\ conn'[c].event = conn[c].event
      /\ conn'[c].attempt = cs[c].attempt
  BY <1>1, <1>2 DEF Wait, Connection
<1>6. \A d \in Conns \ {c} : conn'[d] = conn[d]
  BY <1>1, <1>2 DEF Wait
<1>7. OwnedBy(r)' /\ CallsOf(r)'
  BY <1>5 DEF IInv, TypeOK, OwnedBy, CallsOf, Wait
<1>8. WritesOf(r)'
  BY <1>5 DEF IInv, TypeOK, WritesOf, Wait
<1> QED
  BY <1>4, <1>6, <1>7, <1>8, SessionStep DEF IInv, TypeOK, Wait

\* The loop of the callback takes connections out of the pool.
LEMMA Trimming ==
    ASSUME NEW p, NEW cs, NEW q \in Trimmed(p, cs)
    PROVE  q \subseteq p
  BY DEF Trimmed

\* The callback, under the mutex.
LEMMA Releasing ==
    ASSUME IInv, NEW r \in Requests, stage[r] \in Waits,
           NEW next \in {"settled", "opened"}, NEW e, NEW cs \in [Conns -> Connection],
           \A d \in Conns \ {of[r]} : cs[d] = conn[d],
           cs[of[r]].inUse = conn[of[r]].inUse,
           next = "opened" => cs[of[r]].event,
           Release(r, e, cs, next)
    PROVE  IInv'
<1> DEFINE c == of[r]
<1>1. c \in Conns
  BY DEF IInv, TypeOK
<1>2. conn' \in [Conns -> Connection]
  BY <1>1, Fields DEF Release
<1>3. pool' \subseteq Conns
  BY Trimming DEF IInv, TypeOK, Release
<1>4. TypeOK'
  <2>1. stage' \in [Requests -> Stages]
    BY DEF IInv, TypeOK, Release
  <2>2. op' \in [Requests -> {"pending", "ok", "aborted", "error"}]
    BY DEF IInv, TypeOK, Release
  <2>3. \A q \in Requests : Live(q)' => of'[q] # None
    BY DEF IInv, TypeOK, Release
  <2> QED
    BY <1>2, <1>3, <2>1, <2>2, <2>3 DEF IInv, TypeOK, Release, history, Connection
<1>5. \A d \in Conns \ {c} : conn'[d] = conn[d]
  BY <1>1 DEF Release
<1>6. next = "opened" => conn'[c].inUse /\ conn'[c].event
  BY <1>1 DEF IInv, OwnedBy, Release
<1>7. OwnedBy(r)'
  BY <1>6 DEF IInv, TypeOK, OwnedBy, Release
<1>8. WritesOf(r)' /\ CallsOf(r)'
  BY DEF IInv, TypeOK, WritesOf, CallsOf, Release, history
<1> QED
  BY <1>4, <1>5, <1>7, <1>8, SessionStep DEF IInv, TypeOK, Release, history

\* ... which ends the session.
LEMMA Settling ==
    ASSUME IInv, NEW r \in Requests, stage[r] \in Waits, NEW e, Settle(r, e)
    PROVE  IInv'
<1>1. of[r] \in Conns /\ conn \in [Conns -> Connection]
  BY DEF IInv, TypeOK, Connection
<1>2. Cancelled(of[r]) \in [Conns -> Connection]
  BY <1>1, Fields DEF Cancelled
<1>3. /\ \A d \in Conns \ {of[r]} : Cancelled(of[r])[d] = conn[d]
      /\ Cancelled(of[r])[of[r]].inUse = conn[of[r]].inUse
  BY <1>1 DEF Cancelled, Connection
<1> QED
  BY <1>2, <1>3, Releasing DEF Settle

(***************************************************************************)
(* The steps.                                                              *)
(***************************************************************************)

\* request(): nobody works with the connection that it takes.
LEMMA RequestInv == ASSUME IInv, NEW r \in Requests, Request(r) PROVE IInv'
<1>1. PICK c \in Conns :
         /\ of' = [of EXCEPT ![r] = c]
         /\ pool' \subseteq pool \cup {c}
         /\ conn' \in [Conns -> Connection]
         /\ \A d \in Conns \ {c} : conn'[d] = conn[d]
         /\ conn'[c].inUse /\ conn'[c].attempt
         /\ \A q \in Requests : Live(q) => of[q] # c
  <2>0. conn \in [Conns -> Connection] /\ pool \subseteq Conns
    BY DEF IInv, TypeOK, Connection
  <2>1. CASE \E c \in pool :
                /\ ~conn[c].inUse
                /\ conn' = [conn EXCEPT ![c].inUse = TRUE, ![c].attempt = TRUE]
                /\ of' = [of EXCEPT ![r] = c]
                /\ UNCHANGED pool
    <3>1. PICK c \in pool :
                /\ ~conn[c].inUse
                /\ conn' = [conn EXCEPT ![c].inUse = TRUE, ![c].attempt = TRUE]
                /\ of' = [of EXCEPT ![r] = c]
                /\ UNCHANGED pool
      BY <2>1
    <3>2. conn' \in [Conns -> Connection]
      BY <2>0, <3>1 DEF Connection
    <3>3. conn'[c].inUse /\ conn'[c].attempt
      BY <2>0, <3>1 DEF Connection
    <3>4. \A q \in Requests : Live(q) => of[q] # c
      BY <3>1 DEF IInv, OwnedBy
    <3> QED
      BY <2>0, <3>1, <3>2, <3>3, <3>4
  <2>2. CASE \E c \in Conns :
                /\ Free(c)
                /\ conn' = [conn EXCEPT ![c] = Fresh(TRUE)]
                /\ of' = [of EXCEPT ![r] = c]
                /\ pool' = pool \cup {c}
    <3>1. PICK c \in Conns :
                /\ Free(c)
                /\ conn' = [conn EXCEPT ![c] = Fresh(TRUE)]
                /\ of' = [of EXCEPT ![r] = c]
                /\ pool' = pool \cup {c}
      BY <2>2
    <3>2. Fresh(TRUE) \in Connection /\ Fresh(TRUE).inUse /\ Fresh(TRUE).attempt
      BY DEF Fresh, Connection
    <3> QED
      BY <2>0, <3>1, <3>2 DEF Free
  <2> QED
    BY <2>1, <2>2 DEF Request
<1>2. stage[r] \in {"new", "done"} /\ stage' = [stage EXCEPT ![r] = "held"]
  BY DEF Request
<1>3. TypeOK'
  <2>1. stage' \in [Requests -> Stages] /\ of' \in [Requests -> Conns \cup {None}]
    BY <1>1, <1>2 DEF IInv, TypeOK
  <2>2. parts' \in [Requests -> 0..MaxParts]
    BY PartsAssumption DEF IInv, TypeOK, Request
  <2>3. \A q \in Requests : Live(q)' => of'[q] # None
    BY <1>1, <1>2, NoneAssumption DEF IInv, TypeOK
  <2>4. /\ sent' \in [Requests -> Nat] /\ events' \in [Requests -> Nat]
        /\ calls' \in [Requests -> Nat]
    BY DEF IInv, TypeOK, Request
  <2> QED
    BY <1>1, <2>1, <2>2, <2>3, <2>4 DEF IInv, TypeOK, Request, Connection
<1>4. ConnectionExclusive'
  BY <1>1, <1>2 DEF IInv, TypeOK, ConnectionExclusive
<1>5. OwnedBy(r)' /\ WritesOf(r)' /\ CallsOf(r)'
  BY <1>1, <1>2 DEF IInv, TypeOK, OwnedBy, WritesOf, CallsOf, Request
<1>6. ASSUME NEW q \in Requests \ {r}
      PROVE  (OwnedBy(q) /\ WritesOf(q) /\ CallsOf(q))'
  <2>1. /\ stage'[q] = stage[q] /\ of'[q] = of[q] /\ sent'[q] = sent[q]
        /\ calls'[q] = calls[q] /\ events'[q] = events[q]
    BY <1>1, <1>2 DEF IInv, TypeOK, Request
  <2>2. Live(q) => conn'[of[q]] = conn[of[q]]
    BY <1>1 DEF IInv, TypeOK
  <2> QED
    BY <2>1, <2>2 DEF IInv, OwnedBy, WritesOf, CallsOf
<1> QED
  BY <1>3, <1>4, <1>5, <1>6 DEF IInv

\* The one reconnect: the new connection may not reconnect.
LEMMA ReconnectInv == ASSUME IInv, NEW r \in Requests, Reconnect(r) PROVE IInv'
<1>1. PICK d \in Conns : Free(d) /\ Replace(r, d)
  BY DEF Reconnect
<1>2. /\ stage[r] = "read" /\ conn[of[r]].attempt
      /\ of[r] \in Conns /\ conn \in [Conns -> Connection]
  BY DEF IInv, TypeOK, Connection, Reconnect, Failed, Completed, MayReconnect
<1>3. Fresh(FALSE) \in Connection /\ Fresh(FALSE).inUse /\ ~Fresh(FALSE).attempt
  BY DEF Fresh, Connection
<1>4. conn' \in [Conns -> Connection] /\ conn'[d] = Fresh(FALSE)
  BY <1>1, <1>2, <1>3 DEF Replace
<1>5. TypeOK'
  <2>1. stage' \in [Requests -> Stages] /\ of' \in [Requests -> Conns \cup {None}]
    BY <1>1 DEF IInv, TypeOK, Replace
  <2>2. pool' \subseteq Conns
    BY <1>1 DEF IInv, TypeOK, Replace
  <2>3. \A q \in Requests : Live(q)' => of'[q] # None
    BY <1>1, NoneAssumption DEF IInv, TypeOK, Replace
  <2> QED
    BY <1>4, <2>1, <2>2, <2>3 DEF IInv, TypeOK, Reconnect, history, Connection
<1>6. ConnectionExclusive'
  BY <1>1 DEF IInv, TypeOK, ConnectionExclusive, Replace, Free
<1>7. OwnedBy(r)' /\ CallsOf(r)'
  BY <1>1, <1>2, <1>3, <1>4
  DEF IInv, TypeOK, OwnedBy, CallsOf, Replace, Reconnect, history
<1>8. WritesOf(r)'
  <2>1. sent[r] <= 1 /\ sent' = sent
    BY <1>2 DEF IInv, WritesOf, Reconnect, history
  <2>2. stage'[r] = "again" /\ of'[r] = d
    BY <1>1 DEF IInv, TypeOK, Replace
  <2> QED
    BY <1>3, <1>4, <2>1, <2>2 DEF IInv, TypeOK, WritesOf
<1>9. ASSUME NEW q \in Requests \ {r}
      PROVE  (OwnedBy(q) /\ WritesOf(q) /\ CallsOf(q))'
  <2>1. /\ stage'[q] = stage[q] /\ of'[q] = of[q] /\ sent'[q] = sent[q]
        /\ calls'[q] = calls[q] /\ events'[q] = events[q]
    BY <1>1 DEF IInv, TypeOK, Replace, Reconnect, history
  <2>2. Live(q) => conn'[of[q]] = conn[of[q]]
    BY <1>1 DEF IInv, TypeOK, Replace, Free
  <2> QED
    BY <2>1, <2>2 DEF IInv, OwnedBy, WritesOf, CallsOf
<1> QED
  BY <1>5, <1>6, <1>7, <1>8, <1>9 DEF IInv

\* connect(), by request() or by a reconnect.
LEMMA ConnectInv == ASSUME IInv, NEW r \in Requests, Connect(r) PROVE IInv'
<1>1. stage[r] \in {"held", "again"}
  BY DEF Connect
<1>2. ASSUME NEW s \in {"resolve", "write"}, Wait(r, s, conn) PROVE IInv'
  <2>1. s \in (Setup \cup {"write"}) \ {"event"} /\ s # "read"
    OBVIOUS
  <2>2. Live(r)
    BY <1>1
  <2> QED
    BY <1>1, <1>2, <2>1, <2>2, Waiting
<1> QED
  BY <1>2 DEF Connect

\* The handlers of a session that goes on, or ends with its callback.
LEMMA SetupInv == ASSUME IInv, NEW r \in Requests, SetupDone(r) PROVE IInv'
<1>1. stage[r] \in Setup
  BY DEF SetupDone, Completed
<1>2. CASE Settle(r, "error")
  BY <1>1, <1>2, Settling
<1>3. CASE Wait(r, Following(stage[r]), conn)
  <2>1. Following(stage[r]) \in (Setup \cup {"write"}) \ {"event"}
    BY <1>1 DEF Following
  <2> QED
    BY <1>1, <1>3, <2>1, Waiting
<1> QED
  BY <1>2, <1>3 DEF SetupDone

\* The request has been written.
LEMMA WriteInv == ASSUME IInv, NEW r \in Requests, WriteDone(r) PROVE IInv'
<1>1. stage[r] = "write"
  BY DEF WriteDone, Completed
<1>2. CASE Settle(r, "error")
  BY <1>1, <1>2, Settling
<1>3. CASE Wait(r, "read", conn)
  BY <1>1, <1>3, Waiting
<1> QED
  BY <1>2, <1>3 DEF WriteDone

\* A header has been read, with more to come or with nothing.
LEMMA HeaderInv ==
    ASSUME IInv, NEW r \in Requests, HeaderDone(r) \/ HeaderOnly(r) \/ HeaderFails(r)
    PROVE  IInv'
<1>1. stage[r] = "read"
  BY DEF HeaderDone, HeaderOnly, HeaderFails, Failed, Completed
<1>2. CASE HeaderDone(r)
  BY <1>1, <1>2, Waiting DEF HeaderDone
<1>3. CASE HeaderOnly(r) \/ HeaderFails(r)
  BY <1>1, <1>3, Settling DEF HeaderOnly, HeaderFails
<1> QED
  BY <1>2, <1>3

\* The header of an event stream: its connection is not released any more.
LEMMA EventStreamInv == ASSUME IInv, NEW r \in Requests, EventStream(r) PROVE IInv'
<1> DEFINE c == of[r]
           cs == [Cancelled(c) EXCEPT ![c].event = TRUE]
<1>1. stage[r] = "read" /\ Release(r, "ok", cs, "opened")
  BY DEF EventStream, Completed
<1>2. c \in Conns /\ conn \in [Conns -> Connection]
  BY <1>1 DEF IInv, TypeOK, Connection
<1>3. Cancelled(c) \in [Conns -> Connection]
  BY <1>2, Fields DEF Cancelled
<1>4. cs \in [Conns -> Connection]
  BY <1>2, <1>3, Fields
<1>5. /\ \A d \in Conns \ {c} : cs[d] = conn[d]
      /\ cs[c].inUse = conn[c].inUse /\ cs[c].event
  BY <1>2, <1>3 DEF Cancelled, Connection
<1> QED
  BY <1>1, <1>4, <1>5, Releasing

\* An event, or the stream's end.
LEMMA EventInv == ASSUME IInv, NEW r \in Requests, EventDone(r) PROVE IInv'
<1> DEFINE c == of[r]
<1>1. stage[r] = "event"
  BY DEF EventDone, Completed
<1>2. CASE Settle(r, "error")
  BY <1>1, <1>2, Settling
<1>3. CASE Release(r, "ok", Cancelled(c), "opened")
  <2>1. c \in Conns /\ conn \in [Conns -> Connection] /\ conn[c].event
    BY <1>1 DEF IInv, TypeOK, OwnedBy, Connection
  <2>2. Cancelled(c) \in [Conns -> Connection]
    BY <2>1, Fields DEF Cancelled
  <2>3. /\ \A d \in Conns \ {c} : Cancelled(c)[d] = conn[d]
        /\ Cancelled(c)[c].inUse = conn[c].inUse /\ Cancelled(c)[c].event
    BY <2>1 DEF Cancelled, Connection
  <2> QED
    BY <1>1, <1>3, <2>2, <2>3, Releasing
<1> QED
  BY <1>2, <1>3 DEF EventDone

\* Content.
LEMMA BodyInv ==
    ASSUME IInv, NEW r \in Requests, BodyDone(r) \/ UntilEndDone(r) PROVE IInv'
<1>1. stage[r] \in Body \cup {"untilEnd"}
  BY DEF BodyDone, UntilEndDone, Completed
<1>2. CASE \E e \in {"ok", "error", op[r]} : Settle(r, e)
  BY <1>1, <1>2, Settling
<1>3. CASE \E s \in {"chunkLine", "chunkBody"} : Wait(r, s, conn)
  BY <1>1, <1>3, Waiting
<1>4. BodyDone(r) => \/ \E e \in {"ok", "error", op[r]} : Settle(r, e)
                     \/ \E s \in {"chunkLine", "chunkBody"} : Wait(r, s, conn)
  BY DEF BodyDone, Completed
<1> QED
  BY <1>2, <1>3, <1>4 DEF UntilEndDone

\* A session that goes without its callback: no lock, or an exception.
LEMMA LostInv ==
    ASSUME IInv, NEW r \in Requests, Refused(r) \/ HeaderThrows(r) PROVE IInv'
<1>1. /\ stage[r] \in Waits
      /\ conn' = Cancelled(of[r]) /\ of[r] \in Conns /\ conn \in [Conns -> Connection]
  BY DEF IInv, TypeOK, Refused, HeaderThrows, Completed, Connection
<1>2. conn' \in [Conns -> Connection]
  BY <1>1, Fields DEF Cancelled
<1>3. /\ stage' \in [Requests -> Stages] /\ of' \in [Requests -> Conns \cup {None}]
      /\ stage'[r] \in {"lost", "thrown"}
      /\ \A q \in Requests \ {r} : stage'[q] = stage[q] /\ of'[q] = of[q]
  BY DEF IInv, TypeOK, Refused, HeaderThrows
<1>4. \A d \in Conns \ {of[r]} : conn'[d] = conn[d]
  BY <1>1 DEF Cancelled
<1>5. UNCHANGED <<pool, op, open, parts, sent, events, calls>>
  BY DEF Refused, HeaderThrows, history
<1>6. TypeOK'
  <2>1. \A q \in Requests : Live(q)' => of'[q] # None
    BY <1>3 DEF IInv, TypeOK
  <2> QED
    BY <1>2, <1>3, <1>5, <2>1 DEF IInv, TypeOK, Connection
<1>7. OwnedBy(r)' /\ WritesOf(r)' /\ CallsOf(r)'
  BY <1>1, <1>3, <1>5 DEF IInv, OwnedBy, WritesOf, CallsOf
<1> QED
  BY <1>1, <1>3, <1>4, <1>5, <1>6, <1>7, SessionStep

\* The request's callback, which leaves an event stream's session its connection.
LEMMA UserCallbackInv == ASSUME IInv, NEW r \in Requests, UserCallback(r) PROVE IInv'
<1>0. UNCHANGED <<pool, op, open, parts, sent>>
  BY DEF UserCallback
<1>1. CASE stage[r] = "opened"
  <2>1. of[r] \in Conns /\ conn \in [Conns -> Connection] /\ of' = of
    BY <1>1 DEF IInv, TypeOK, Connection, UserCallback
  <2>2. /\ conn' = [conn EXCEPT ![of[r]].armed = TimeoutOf("event") > 0]
        /\ stage' = [stage EXCEPT ![r] = "event"]
        /\ calls' = [calls EXCEPT ![r] = @ + 1] /\ events' = [events EXCEPT ![r] = @ + 1]
    BY <1>1 DEF UserCallback
  <2>3. conn' \in [Conns -> Connection]
    <3>1. (TimeoutOf("event") > 0) \in BOOLEAN
      OBVIOUS
    <3> QED
      BY <2>1, <2>2, <3>1, Fields
  <2>4. TypeOK'
    <3>1. stage' \in [Requests -> Stages]
      BY <2>2 DEF IInv, TypeOK
    <3>2. calls' \in [Requests -> Nat] /\ events' \in [Requests -> Nat]
      BY <2>2 DEF IInv, TypeOK
    <3>3. \A q \in Requests : Live(q)' => of'[q] # None
      BY <1>1, <2>1, <2>2 DEF IInv, TypeOK
    <3> QED
      BY <1>0, <2>1, <2>3, <3>1, <3>2, <3>3 DEF IInv, TypeOK, Connection
  <2>5. /\ \A d \in Conns \ {of[r]} : conn'[d] = conn[d]
        /\ conn'[of[r]].inUse = conn[of[r]].inUse
        /\ conn'[of[r]].event = conn[of[r]].event
    BY <2>1, <2>2 DEF Connection
  <2>6. OwnedBy(r)' /\ WritesOf(r)' /\ CallsOf(r)'
    BY <1>0, <1>1, <2>1, <2>2, <2>5 DEF IInv, TypeOK, OwnedBy, WritesOf, CallsOf
  <2> QED
    BY <1>0, <1>1, <2>1, <2>2, <2>4, <2>5, <2>6, SessionStep DEF IInv, TypeOK
<1>2. CASE stage[r] = "settled"
  <2>1. /\ stage' = [stage EXCEPT ![r] = "done"]
        /\ of' = [of EXCEPT ![r] = None]
        /\ calls' = [calls EXCEPT ![r] = @ + 1]
        /\ UNCHANGED <<conn, events>>
    BY <1>2 DEF UserCallback
  <2>2. TypeOK'
    <3>1. stage' \in [Requests -> Stages] /\ of' \in [Requests -> Conns \cup {None}]
      BY <2>1 DEF IInv, TypeOK
    <3>2. calls' \in [Requests -> Nat]
      BY <2>1 DEF IInv, TypeOK
    <3>3. \A q \in Requests : Live(q)' => of'[q] # None
      BY <2>1 DEF IInv, TypeOK
    <3> QED
      BY <1>0, <2>1, <3>1, <3>2, <3>3 DEF IInv, TypeOK
  <2>3. ConnectionExclusive'
    BY <2>1 DEF IInv, TypeOK, ConnectionExclusive
  <2>4. \A q \in Requests : (OwnedBy(q) /\ WritesOf(q) /\ CallsOf(q))'
    BY <1>0, <1>2, <2>1 DEF IInv, TypeOK, OwnedBy, WritesOf, CallsOf
  <2> QED
    BY <2>2, <2>3, <2>4 DEF IInv
<1> QED
  BY <1>1, <1>2 DEF UserCallback

\* What happens to a socket or a timer is nothing to the sessions' state.
LEMMA Outside ==
    ASSUME IInv, TypeOK',
           \A d \in Conns : /\ conn'[d].inUse = conn[d].inUse
                            /\ conn'[d].attempt = conn[d].attempt
                            /\ conn'[d].event = conn[d].event,
           UNCHANGED <<stage, of, sent, events, calls>>
    PROVE  IInv'
<1>1. ConnectionExclusive'
  BY DEF IInv, ConnectionExclusive
<1>2. ASSUME NEW q \in Requests
      PROVE  (OwnedBy(q) /\ WritesOf(q) /\ CallsOf(q))'
  <2>1. Live(q) => of[q] \in Conns
    BY DEF IInv, TypeOK
  <2> QED
    BY <2>1 DEF IInv, OwnedBy, WritesOf, CallsOf
<1> QED
  BY <1>1, <1>2 DEF IInv

\* Timers, and the server's end of a connection.
LEMMA TimerInv ==
    ASSUME IInv, NEW c \in Conns, TimerExpires(c) \/ TimerHandler(c) \/ PeerCloses(c)
    PROVE  IInv'
<1>1. conn \in [Conns -> Connection]
  BY DEF IInv, TypeOK, Connection
<1>2. /\ conn' \in [Conns -> Connection]
      /\ \A d \in Conns : /\ conn'[d].inUse = conn[d].inUse
                          /\ conn'[d].attempt = conn[d].attempt
                          /\ conn'[d].event = conn[d].event
  <2>1. CASE TimerExpires(c)
    BY <1>1, <2>1 DEF TimerExpires, Connection
  <2>2. CASE TimerHandler(c)
    <3>1. Closed(c) \in {"none", "open", "ended", "closed"}
      BY <1>1 DEF Closed, Connection
    <3> QED
      BY <1>1, <2>2, <3>1 DEF TimerHandler, Connection
  <2>3. CASE PeerCloses(c)
    BY <1>1, <2>3 DEF PeerCloses, Connection
  <2> QED
    BY <2>1, <2>2, <2>3
<1>3. UNCHANGED <<pool, stage, op, of, open, parts, sent, events, calls>>
  BY DEF TimerExpires, TimerHandler, PeerCloses, history
<1>4. TypeOK'
  BY <1>2, <1>3 DEF IInv, TypeOK, Connection
<1> QED
  BY <1>2, <1>3, <1>4, Outside

\* An asynchronous operation ends.
LEMMA OperationInv == ASSUME IInv, NEW r \in Requests, OperationEnds(r) PROVE IInv'
<1>1. conn \in [Conns -> Connection] /\ of[r] \in Conns
  BY DEF IInv, TypeOK, Connection, OperationEnds
<1>2. PICK o \in Outcomes(r) :
         /\ o = "ok" /\ stage[r] \in {"chunkLine", "event"} => parts[r] < MaxParts
         /\ op' = [op EXCEPT ![r] = o]
         /\ parts' = IF o = "ok" /\ stage[r] \in {"chunkLine", "event"}
                     THEN [parts EXCEPT ![r] = @ + 1] ELSE parts
         /\ conn' = IF o = "ok" /\ stage[r] = "connect"
                    THEN [conn EXCEPT ![of[r]].sock = "open"] ELSE conn
  BY DEF OperationEnds
<1>3. /\ conn' \in [Conns -> Connection]
      /\ \A d \in Conns : /\ conn'[d].inUse = conn[d].inUse
                          /\ conn'[d].attempt = conn[d].attempt
                          /\ conn'[d].event = conn[d].event
  BY <1>1, <1>2 DEF Connection
<1>4. op' \in [Requests -> {"pending", "ok", "aborted", "error"}]
  <2>1. o \in {"ok", "aborted", "error"}
    BY DEF Outcomes
  <2> QED
    BY <1>2, <2>1 DEF IInv, TypeOK
<1>5. parts' \in [Requests -> 0..MaxParts]
  <2>1. parts \in [Requests -> 0..MaxParts]
    BY DEF IInv, TypeOK
  <2>2. CASE parts' = parts
    BY <2>1, <2>2
  <2>3. CASE parts[r] < MaxParts /\ parts' = [parts EXCEPT ![r] = @ + 1]
    BY <2>1, <2>3, PartsAssumption
  <2> QED
    BY <1>2, <2>2, <2>3
<1>6. UNCHANGED <<pool, stage, of, open, sent, events, calls>>
  BY DEF OperationEnds, history
<1>7. TypeOK'
  BY <1>3, <1>4, <1>5, <1>6 DEF IInv, TypeOK, Connection
<1> QED
  BY <1>3, <1>6, <1>7, Outside

\* stop(), and the destructor.
LEMMA StopInv == ASSUME IInv, Stop \/ StopRunner PROVE IInv'
<1>1. conn \in [Conns -> Connection]
  BY DEF IInv, TypeOK, Connection
<1>2. /\ conn' \in [Conns -> Connection]
      /\ \A d \in Conns : /\ conn'[d].inUse = conn[d].inUse
                          /\ conn'[d].attempt = conn[d].attempt
                          /\ conn'[d].event = conn[d].event
  <2>1. CASE Stop
    <3>1. \A c \in Conns : Closed(c) \in {"none", "open", "ended", "closed"}
      BY <1>1 DEF Closed, Connection
    <3> QED
      BY <1>1, <2>1, <3>1 DEF Stop, Connection
  <2>2. CASE StopRunner
    BY <1>1, <2>2 DEF StopRunner
  <2> QED
    BY <2>1, <2>2
<1>3. /\ pool' \subseteq Conns /\ open' \in BOOLEAN
      /\ UNCHANGED <<stage, op, of, parts, sent, events, calls>>
  BY DEF IInv, TypeOK, Stop, StopRunner, history
<1>4. TypeOK'
  BY <1>2, <1>3 DEF IInv, TypeOK, Connection
<1> QED
  BY <1>2, <1>3, <1>4, Outside

\* Each action, once.
LEMMA NextInv == IInv /\ [Next]_vars => IInv'
<1> SUFFICES ASSUME IInv, [Next]_vars PROVE IInv'
  OBVIOUS
<1>1. ASSUME NEW r \in Requests, Request(r) PROVE IInv'
  BY <1>1, RequestInv
<1>2. ASSUME NEW r \in Requests, Connect(r) PROVE IInv'
  BY <1>2, ConnectInv
<1>3. ASSUME NEW r \in Requests, Handler(r) PROVE IInv'
  <2>1. CASE SetupDone(r) \/ WriteDone(r)
    BY <2>1, SetupInv, WriteInv
  <2>2. CASE HeaderDone(r) \/ HeaderOnly(r) \/ HeaderFails(r)
    BY <2>2, HeaderInv
  <2>3. CASE EventStream(r) \/ EventDone(r)
    BY <2>3, EventStreamInv, EventInv
  <2>4. CASE Reconnect(r)
    BY <2>4, ReconnectInv
  <2>5. CASE BodyDone(r) \/ UntilEndDone(r)
    BY <2>5, BodyInv
  <2>6. CASE Refused(r) \/ HeaderThrows(r)
    BY <2>6, LostInv
  <2>7. CASE UserCallback(r)
    BY <2>7, UserCallbackInv
  <2> QED
    BY <1>3, <2>1, <2>2, <2>3, <2>4, <2>5, <2>6, <2>7 DEF Handler
<1>4. CASE Environment
  BY <1>4, TimerInv, OperationInv DEF Environment
<1>5. CASE Stop \/ StopRunner
  BY <1>5, StopInv
<1>6. CASE UNCHANGED vars
  <2>1. TypeOK'
    BY <1>6 DEF vars, history, IInv, TypeOK
  <2> QED
    BY <1>6, <2>1, Outside DEF vars, history
<1> QED
  BY <1>1, <1>2, <1>3, <1>4, <1>5, <1>6 DEF Next

(***************************************************************************)
(* The theorems.                                                           *)
(***************************************************************************)

\* The invariant holds of every state.
THEOREM Invariant == Spec => []IInv
<1> QED
  BY InitInv, NextInv, PTL DEF Spec

\* The state has its type, and a live session has a connection.
THEOREM TypeCorrect == Spec => []TypeOK
<1>1. IInv => TypeOK
  BY DEF IInv
<1> QED
  BY <1>1, Invariant, PTL

\* No two sessions work with one connection, whatever is handed on by the pool
\* while callbacks, reconnects, timers and stop() interleave.
THEOREM NoSharedConnection == Spec => []ConnectionExclusive
<1>1. IInv => ConnectionExclusive
  BY DEF IInv
<1> QED
  BY <1>1, Invariant, PTL

\* No request is written a third time.
THEOREM NoThirdTry == Spec => []SentAtMostTwice
<1>1. IInv => SentAtMostTwice
  BY DEF IInv, WritesOf, SentAtMostTwice
<1> QED
  BY <1>1, Invariant, PTL

\* A session's callback is called once at its end, and once for an event.
THEOREM NoSecondCallback == Spec => []CallbackOnce
<1>1. IInv => CallbackOnce
  BY DEF IInv, TypeOK, CallsOf, CallbackOnce
<1> QED
  BY <1>1, Invariant, PTL

(***************************************************************************)
(* The refinement of RequestPromise.                                       *)
(***************************************************************************)

\* Stages that no session is in when the destructor has closed the scope.
Inside == {"held", "again", "settled", "opened"}

\* Before a header is read nothing has been told, afterwards the request has
\* been sent.
ToldInOrder(r) ==
    /\ stage[r] \in Setup \cup {"held", "again", "write", "read"} => calls[r] = 0
    /\ stage[r] \in Body \cup {"write", "read", "untilEnd", "opened", "event"}
          => sent[r] > 0
    /\ ~open => stage[r] \notin Inside

PInv == IInv /\ \A r \in Requests : ToldInOrder(r)

\* The ways from a stage to another on which nothing is sent or told.
Advances(a, b) ==
    \/ a \in Setup \cup {"held", "again"} /\ b \in Setup
    \/ a = "write" /\ b = "read"
    \/ a = "read" /\ b \in {"again", "opened", "untilEnd"} \cup Body
    \/ a \in Body /\ b \in Body
    \/ a = "event" /\ b = "opened"
    \/ a \in Waits /\ b = "settled"

\* What a step of session r does to what its caller knows.
Becomes(r, s, w, c) ==
    /\ stage' = [stage EXCEPT ![r] = s]
    /\ sent' = [sent EXCEPT ![r] = w]
    /\ calls' = [calls EXCEPT ![r] = c]
    /\ open' = open

Asks(r) == open /\ stage[r] \in {"new", "done"} /\ Becomes(r, "held", 0, 0)
Sends(r) ==
    /\ stage[r] \in Setup \cup {"held", "again"}
    /\ stage[r] \in Setup => open
    /\ Becomes(r, "write", sent[r] + 1, calls[r])
GoesOn(r) ==
    /\ stage[r] \in Waits => open
    /\ \E b \in Stages : Advances(stage[r], b) /\ Becomes(r, b, sent[r], calls[r])
TellsEvent(r) == stage[r] = "opened" /\ Becomes(r, "event", sent[r], calls[r] + 1)
TellsEnd(r) == stage[r] = "settled" /\ Becomes(r, "done", sent[r], calls[r] + 1)
Ends(r) ==
    \/ ~open /\ stage[r] \in Waits /\ Becomes(r, "lost", sent[r], calls[r])
    \/ open /\ stage[r] = "read" /\ Becomes(r, "thrown", sent[r], calls[r])

\* An operation is started.
LEMMA WaitBecomes ==
    ASSUME TypeOK, NEW r \in Requests, NEW s, NEW cs, Wait(r, s, cs)
    PROVE  Becomes(r, s, IF s = "write" THEN sent[r] + 1 ELSE sent[r], calls[r])
<1>1. sent' = [sent EXCEPT ![r] = IF s = "write" THEN sent[r] + 1 ELSE sent[r]]
  BY DEF Wait, TypeOK
<1>2. calls' = [calls EXCEPT ![r] = calls[r]]
  BY DEF Wait, TypeOK
<1> QED
  BY <1>1, <1>2 DEF Wait, Becomes

\* A session comes to its callback.
LEMMA ReleaseBecomes ==
    ASSUME TypeOK, NEW r \in Requests, NEW e, NEW cs, NEW s, Release(r, e, cs, s)
    PROVE  Becomes(r, s, sent[r], calls[r])
<1>1. sent' = [sent EXCEPT ![r] = sent[r]] /\ calls' = [calls EXCEPT ![r] = calls[r]]
  BY DEF Release, history, TypeOK
<1> QED
  BY <1>1 DEF Release, Becomes

LEMMA SettleBecomes ==
    ASSUME TypeOK, NEW r \in Requests, open, stage[r] \in Waits, NEW e, Settle(r, e)
    PROVE  GoesOn(r)
<1>1. Becomes(r, "settled", sent[r], calls[r])
  BY ReleaseBecomes DEF Settle
<1> QED
  BY <1>1 DEF GoesOn, Advances

\* Every step of a session is one of these.
LEMMA SessionEffect ==
    ASSUME TypeOK, NEW r \in Requests, Request(r) \/ Connect(r) \/ Handler(r)
    PROVE  Asks(r) \/ Sends(r) \/ GoesOn(r) \/ TellsEvent(r) \/ TellsEnd(r) \/ Ends(r)
<1> DEFINE Kept == sent' = [sent EXCEPT ![r] = sent[r]]
                   /\ calls' = [calls EXCEPT ![r] = calls[r]]
<1>0. UNCHANGED <<sent, calls>> => Kept
  BY DEF TypeOK
<1>1. CASE Request(r)
  BY <1>1 DEF Request, Asks, Becomes
<1>2. CASE Connect(r)
  <2>1. stage[r] \in {"held", "again"}
    BY <1>2 DEF Connect
  <2>2. CASE Wait(r, "resolve", conn)
    <3>1. Becomes(r, "resolve", sent[r], calls[r])
      BY <2>2, WaitBecomes
    <3> QED
      BY <2>1, <3>1 DEF GoesOn, Advances
  <2>3. CASE Wait(r, "write", conn)
    <3>1. Becomes(r, "write", sent[r] + 1, calls[r])
      BY <2>3, WaitBecomes
    <3> QED
      BY <2>1, <3>1 DEF Sends
  <2> QED
    BY <1>2, <2>2, <2>3 DEF Connect
<1>3. CASE SetupDone(r)
  <2>1. open /\ stage[r] \in Setup
    BY <1>3 DEF SetupDone, Completed
  <2>2. CASE Wait(r, Following(stage[r]), conn)
    <3>1. Following(stage[r]) \in Setup \cup {"write"}
      BY <2>1 DEF Following
    <3>2. CASE Following(stage[r]) = "write"
      <4>1. Becomes(r, "write", sent[r] + 1, calls[r])
        BY <2>2, <3>2, WaitBecomes
      <4> QED
        BY <2>1, <4>1 DEF Sends
    <3>3. CASE Following(stage[r]) \in Setup
      <4>1. Becomes(r, Following(stage[r]), sent[r], calls[r])
        BY <2>2, <3>3, WaitBecomes
      <4> QED
        BY <2>1, <3>3, <4>1 DEF GoesOn, Advances
    <3> QED
      BY <3>1, <3>2, <3>3
  <2> QED
    BY <1>3, <2>1, <2>2, SettleBecomes DEF SetupDone
<1>4. CASE WriteDone(r)
  <2>1. open /\ stage[r] = "write"
    BY <1>4 DEF WriteDone, Completed
  <2>2. CASE Wait(r, "read", conn)
    <3>1. Becomes(r, "read", sent[r], calls[r])
      BY <2>2, WaitBecomes
    <3> QED
      BY <2>1, <3>1 DEF GoesOn, Advances
  <2> QED
    BY <1>4, <2>1, <2>2, SettleBecomes DEF WriteDone
<1>5. CASE HeaderDone(r)
  <2>1. open /\ stage[r] = "read"
    BY <1>5 DEF HeaderDone, Completed
  <2>2. PICK s \in {"body", "chunkLine", "untilEnd"} :
           Wait(r, s, [conn EXCEPT ![of[r]].attempt = TRUE])
    BY <1>5 DEF HeaderDone
  <2>3. Becomes(r, s, sent[r], calls[r])
    BY <2>2, WaitBecomes
  <2> QED
    BY <2>1, <2>3 DEF GoesOn, Advances
<1>6. CASE HeaderOnly(r) \/ HeaderFails(r)
  <2>1. open /\ stage[r] \in Waits
    BY <1>6 DEF HeaderOnly, HeaderFails, Failed, Completed
  <2> QED
    BY <1>6, <2>1, SettleBecomes DEF HeaderOnly, HeaderFails
<1>7. CASE EventStream(r)
  <2>1. open /\ stage[r] = "read" /\ Becomes(r, "opened", sent[r], calls[r])
    BY <1>7, ReleaseBecomes DEF EventStream, Completed
  <2> QED
    BY <2>1 DEF GoesOn, Advances
<1>8. CASE HeaderThrows(r)
  BY <1>0, <1>8 DEF HeaderThrows, Completed, Ends, Becomes, history
<1>9. CASE Reconnect(r)
  <2>1. open /\ stage[r] = "read" /\ Becomes(r, "again", sent[r], calls[r])
    BY <1>0, <1>9 DEF Reconnect, Failed, Completed, Replace, Becomes, history
  <2> QED
    BY <2>1 DEF GoesOn, Advances
<1>10. CASE BodyDone(r)
  <2>1. open /\ stage[r] \in Body
    BY <1>10 DEF BodyDone, Completed
  <2>2. ASSUME NEW s \in Body, Wait(r, s, conn)
        PROVE  GoesOn(r)
    <3>1. Becomes(r, s, sent[r], calls[r])
      BY <2>2, WaitBecomes
    <3> QED
      BY <2>1, <3>1 DEF GoesOn, Advances
  <2>3. (\E e : Settle(r, e)) \/ (\E s \in Body : Wait(r, s, conn))
    BY <1>10, <2>1 DEF BodyDone
  <2> QED
    BY <2>1, <2>2, <2>3, SettleBecomes
<1>11. CASE UntilEndDone(r)
  BY <1>11, SettleBecomes DEF UntilEndDone, Completed
<1>12. CASE EventDone(r)
  <2>1. open /\ stage[r] = "event"
    BY <1>12 DEF EventDone, Completed
  <2>2. CASE Release(r, "ok", Cancelled(of[r]), "opened")
    <3>1. Becomes(r, "opened", sent[r], calls[r])
      BY <2>2, ReleaseBecomes
    <3> QED
      BY <2>1, <3>1 DEF GoesOn, Advances
  <2> QED
    BY <1>12, <2>1, <2>2, SettleBecomes DEF EventDone
<1>13. CASE Refused(r)
  BY <1>0, <1>13 DEF Refused, Ends, Becomes, history
<1>14. CASE UserCallback(r)
  <2>1. sent' = [sent EXCEPT ![r] = sent[r]]
    BY <1>14 DEF UserCallback, TypeOK
  <2> QED
    BY <1>14, <2>1 DEF UserCallback, TellsEvent, TellsEnd, Becomes
<1> QED
  BY <1>1, <1>2, <1>3, <1>4, <1>5, <1>6, <1>7, <1>8, <1>9, <1>10, <1>11, <1>12,
     <1>13, <1>14 DEF Handler

\* What happens outside the sessions is not seen by their callers.
LEMMA OutsideEffect ==
    ASSUME Environment \/ Stop \/ UNCHANGED vars
    PROVE  UNCHANGED <<stage, sent, calls, open>>
  BY DEF Environment, TimerExpires, TimerHandler, PeerCloses, OperationEnds, Stop,
         vars, history

\* The sessions, after a step of one of them.
LEMMA BecomesFacts ==
    ASSUME TypeOK, NEW r \in Requests, NEW s, NEW w, NEW c, Becomes(r, s, w, c)
    PROVE  /\ stage'[r] = s /\ sent'[r] = w /\ calls'[r] = c /\ open' = open
           /\ \A q \in Requests \ {r} : /\ stage'[q] = stage[q] /\ sent'[q] = sent[q]
                                        /\ calls'[q] = calls[q]
  BY DEF TypeOK, Becomes

LEMMA ToldInOrderInv ==
    ASSUME PInv, NEW r \in Requests,
           Asks(r) \/ Sends(r) \/ GoesOn(r) \/ TellsEvent(r) \/ TellsEnd(r) \/ Ends(r)
    PROVE  \A q \in Requests : ToldInOrder(q)'
<1>0. TypeOK /\ \A q \in Requests : ToldInOrder(q)
  BY DEF PInv, IInv
<1>1. sent[r] \in Nat /\ calls[r] \in Nat
  BY <1>0 DEF TypeOK
<1>2. PICK s, w, c : Becomes(r, s, w, c)
  BY DEF Asks, Sends, GoesOn, TellsEvent, TellsEnd, Ends
<1>3. \A q \in Requests \ {r} : ToldInOrder(q)'
  BY <1>0, <1>2, BecomesFacts DEF ToldInOrder
<1>4. ToldInOrder(r)'
  <2>1. CASE Asks(r)
    BY <1>0, <2>1, BecomesFacts DEF Asks, ToldInOrder
  <2>2. CASE Sends(r)
    <3>1. /\ stage'[r] = "write" /\ sent'[r] = sent[r] + 1
          /\ calls'[r] = calls[r] /\ open' = open
      BY <1>0, <2>2, BecomesFacts DEF Sends
    <3>2. calls[r] = 0
      BY <1>0, <2>2 DEF Sends, ToldInOrder
    <3> QED
      BY <1>1, <3>1, <3>2 DEF ToldInOrder, Inside
  <2>3. CASE GoesOn(r)
    <3>1. PICK b \in Stages : Advances(stage[r], b) /\ Becomes(r, b, sent[r], calls[r])
      BY <2>3 DEF GoesOn
    <3>2. stage'[r] = b /\ sent'[r] = sent[r] /\ calls'[r] = calls[r] /\ open' = open
      BY <1>0, <3>1, BecomesFacts
    <3>3. b \in Inside => open
      BY <2>3, <3>1 DEF GoesOn, Advances, Inside
    <3> QED
      BY <1>0, <3>1, <3>2, <3>3 DEF Advances, ToldInOrder
  <2>4. CASE TellsEvent(r)
    BY <1>0, <2>4, BecomesFacts DEF TellsEvent, ToldInOrder, Inside
  <2>5. CASE TellsEnd(r)
    BY <1>0, <2>5, BecomesFacts DEF TellsEnd, ToldInOrder, Inside
  <2>6. CASE Ends(r)
    BY <1>0, <2>6, BecomesFacts DEF Ends, ToldInOrder, Inside
  <2> QED
    BY <2>1, <2>2, <2>3, <2>4, <2>5, <2>6
<1> QED
  BY <1>3, <1>4

LEMMA PInvInductive == PInv /\ [Next]_vars => PInv'
<1> SUFFICES ASSUME PInv, [Next]_vars PROVE PInv'
  OBVIOUS
<1>1. IInv' /\ TypeOK
  BY NextInv DEF PInv, IInv
<1>2. CASE \E r \in Requests : Request(r) \/ Connect(r) \/ Handler(r)
  BY <1>1, <1>2, SessionEffect, ToldInOrderInv DEF PInv
<1>3. CASE Environment \/ Stop \/ UNCHANGED vars
  BY <1>1, <1>3, OutsideEffect DEF PInv, ToldInOrder
<1>4. CASE StopRunner
  BY <1>1, <1>4 DEF StopRunner, history, PInv, ToldInOrder, Inside
<1> QED
  BY <1>2, <1>3, <1>4 DEF Next

\* The step of a session is the promise's.
LEMMA StepKeepsPromise ==
    ASSUME PInv, NEW r \in Requests,
           Asks(r) \/ Sends(r) \/ GoesOn(r) \/ TellsEvent(r) \/ TellsEnd(r) \/ Ends(r)
    PROVE  [Promise!Next]_Promise!vars
<1> DEFINE state == [q \in Requests |-> StateOf(stage[q])]
<1>0. /\ TypeOK /\ WritesOf(r) /\ ToldInOrder(r)
      /\ sent \in [Requests -> Nat] /\ calls \in [Requests -> Nat]
  BY DEF PInv, IInv, TypeOK
<1>1. ASSUME NEW s, NEW w, NEW c, Becomes(r, s, w, c)
      PROVE  /\ state' = [state EXCEPT ![r] = StateOf(s)]
             /\ open' = open
             /\ sent' = [sent EXCEPT ![r] = w]
             /\ calls' = [calls EXCEPT ![r] = c]
             /\ w = sent[r] => sent' = sent
             /\ c = calls[r] => calls' = calls
             /\ StateOf(s) = StateOf(stage[r]) => state' = state
  <2>1. stage' = [stage EXCEPT ![r] = s]
    BY <1>1 DEF Becomes
  <2>2. stage'[r] = s /\ \A q \in Requests \ {r} : stage'[q] = stage[q]
    BY <1>0, <1>1, BecomesFacts
  <2>3. state' = [state EXCEPT ![r] = StateOf(s)]
    BY <2>2
  <2>4. StateOf(s) = StateOf(stage[r]) => state' = state
    BY <2>2
  <2> QED
    BY <1>0, <1>1, <2>3, <2>4 DEF Becomes
<1>2. CASE Asks(r)
  <2>1. StateOf("held") = "asked" /\ state[r] \in {"none", "answered"}
    BY <1>2 DEF Asks, StateOf
  <2>2. /\ state' = [state EXCEPT ![r] = "asked"] /\ open' = open /\ open
        /\ sent' = [sent EXCEPT ![r] = 0] /\ calls' = [calls EXCEPT ![r] = 0]
    <3>1. Becomes(r, "held", 0, 0) /\ open
      BY <1>2 DEF Asks
    <3>2. state' = [state EXCEPT ![r] = StateOf("held")]
      BY <1>1, <3>1, Zenon
    <3> QED
      BY <2>1, <3>1, <3>2 DEF Becomes
  <2>3. Promise!Ask(r)
    BY <2>1, <2>2 DEF Promise!Ask
  <2> QED
    BY <2>3 DEF Promise!Next
<1>3. CASE Sends(r)
  <2>1. StateOf("write") = "asked" /\ state[r] = "asked"
    BY <1>3 DEF Sends, StateOf
  <2>2. sent[r] < 2 /\ calls[r] = 0 /\ open
    BY <1>0, <1>3 DEF Sends, WritesOf, ToldInOrder, Inside
  <2>3. Promise!Try(r)
    BY <1>1, <1>3, <2>1, <2>2 DEF Sends, Promise!Try, Promise!Asked
  <2> QED
    BY <2>3 DEF Promise!Next
<1>4. CASE GoesOn(r)
  <2>1. PICK b \in Stages : Advances(stage[r], b) /\ Becomes(r, b, sent[r], calls[r])
    BY <1>4 DEF GoesOn
  <2>2. StateOf(b) = "asked" /\ StateOf(stage[r]) = "asked"
    BY <2>1 DEF Advances, StateOf
  <2> QED
    BY <1>1, <2>1, <2>2 DEF Promise!vars
<1>5. CASE TellsEvent(r)
  <2>1. StateOf("event") = "asked" /\ state[r] = "asked"
    BY <1>5 DEF TellsEvent, StateOf
  <2>2. sent[r] > 0 /\ open
    BY <1>0, <1>5 DEF TellsEvent, ToldInOrder, Inside
  <2>3. Promise!Event(r)
    BY <1>1, <1>5, <2>1, <2>2 DEF TellsEvent, Promise!Event, Promise!Asked
  <2> QED
    BY <2>3 DEF Promise!Next
<1>6. CASE TellsEnd(r)
  <2>1. StateOf("done") = "answered" /\ state[r] = "asked"
    BY <1>6 DEF TellsEnd, StateOf
  <2>2. open
    BY <1>0, <1>6 DEF TellsEnd, ToldInOrder, Inside
  <2>3. /\ state' = [state EXCEPT ![r] = "answered"] /\ open' = open
        /\ sent' = sent /\ calls' = [calls EXCEPT ![r] = calls[r] + 1]
    BY <1>1, <1>6, <2>1 DEF TellsEnd
  <2>4. Promise!Answer(r)
    BY <2>1, <2>2, <2>3 DEF Promise!Answer, Promise!Asked
  <2> QED
    BY <2>4 DEF Promise!Next
<1>7. CASE Ends(r)
  <2>1. StateOf("lost") = "lost" /\ StateOf("thrown") = "lost" /\ state[r] = "asked"
    BY <1>7 DEF Ends, StateOf
  <2>2. open => sent[r] > 0 /\ calls[r] = 0
    BY <1>0, <1>7 DEF Ends, ToldInOrder
  <2>3. Promise!Lose(r)
    BY <1>1, <1>7, <2>1, <2>2 DEF Ends, Promise!Lose
  <2> QED
    BY <2>3 DEF Promise!Next
<1> QED
  BY <1>2, <1>3, <1>4, <1>5, <1>6, <1>7

\* The client implements the promise: for any number of requests, connections
\* and events, no interleaving of handlers, timers, reconnects and stop() makes
\* a third try, a try or an answer after the answer, or a callback after the
\* destructor has closed the scope of the handlers.
THEOREM Refinement == Spec => KeepsPromise
<1>1. Init => Promise!Init
  BY DEF Init, Promise!Init, StateOf
<1>2. PInv /\ [Next]_vars => [Promise!Next]_Promise!vars
  <2> SUFFICES ASSUME PInv, [Next]_vars PROVE [Promise!Next]_Promise!vars
    OBVIOUS
  <2>0. TypeOK
    BY DEF PInv, IInv
  <2>1. CASE \E r \in Requests : Request(r) \/ Connect(r) \/ Handler(r)
    BY <2>0, <2>1, SessionEffect, StepKeepsPromise
  <2>2. CASE Environment \/ Stop \/ UNCHANGED vars
    <3>1. UNCHANGED <<stage, sent, calls, open>>
      BY <2>2, OutsideEffect
    <3> QED
      BY <3>1 DEF Promise!vars
  <2>3. CASE StopRunner
    BY <2>3 DEF StopRunner, history, Promise!Next, Promise!Close
  <2> QED
    BY <2>1, <2>2, <2>3 DEF Next
<1>3. Init => PInv
  BY InitInv DEF Init, PInv, ToldInOrder, Inside
<1> QED
  BY <1>1, <1>2, <1>3, PInvInductive, PTL DEF Spec, KeepsPromise, Promise!Spec
=============================================================================
