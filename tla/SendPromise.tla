---------------------------- MODULE SendPromise -----------------------------
(***************************************************************************)
(* What a response promises its senders and the peer: buffers are sent in  *)
(* the order in which they were accepted, without a gap, and the rest      *)
(* after all of them; a sender is told once of each of its buffers, of     *)
(* success only when the peer has it, of a failure only when the           *)
(* connection is broken, and of nothing when the server is gone.           *)
(***************************************************************************)
EXTENDS Naturals, Sequences

CONSTANT Buffer

VARIABLES accepted,  \* the buffers in the order of send()
          wire,      \* what the peer has been sent
          answers,   \* what the senders have been told: [buffer, ok]
          up,        \* FALSE once the connection is broken
          open,      \* FALSE once the server is being destroyed
          rest       \* what was never sent: kept, sending or sent

vars == <<accepted, wire, answers, up, open, rest>>

Init ==
    /\ accepted = <<>> /\ wire = <<>> /\ answers = <<>>
    /\ up = TRUE /\ open = TRUE
    /\ rest = "kept"

Has(s, b) == \E i \in 1..Len(s) : s[i] = b
Told(b) == \E i \in 1..Len(answers) : answers[i].buffer = b

Accept(b) ==
    /\ rest = "kept"
    /\ ~Has(accepted, b) /\ ~Told(b)
    /\ accepted' = Append(accepted, b)
    /\ UNCHANGED <<wire, answers, up, open, rest>>

Deliver ==
    /\ up /\ rest = "kept"
    /\ Len(wire) < Len(accepted)
    /\ wire' = Append(wire, accepted[Len(wire) + 1])
    /\ UNCHANGED <<accepted, answers, up, open, rest>>

Tell(b, ok) ==
    /\ open
    /\ Has(accepted, b) \/ rest = "sent"
    /\ ~Told(b)
    /\ IF ok THEN Has(wire, b) ELSE ~up
    /\ answers' = Append(answers, [buffer |-> b, ok |-> ok])
    /\ UNCHANGED <<accepted, wire, up, open, rest>>

\* Nobody holds the response any more.
SendRest ==
    /\ rest = "kept"
    /\ open /\ up => wire = accepted
    /\ rest' = "sending"
    /\ UNCHANGED <<accepted, wire, answers, up, open>>

RestSent(b) ==
    /\ rest = "sending"
    /\ ~Has(accepted, b)
    /\ open /\ up => wire = accepted
    /\ wire' = IF up THEN Append(wire, b) ELSE wire
    /\ rest' = "sent"
    /\ UNCHANGED <<accepted, answers, up, open>>

Break == up /\ up' = FALSE /\ UNCHANGED <<accepted, wire, answers, open, rest>>

Close == open /\ open' = FALSE /\ UNCHANGED <<accepted, wire, answers, up, rest>>

Next ==
    \/ \E b \in Buffer : \/ Accept(b) \/ RestSent(b)
                         \/ \E ok \in BOOLEAN : Tell(b, ok)
    \/ Deliver \/ SendRest \/ Break \/ Close

Spec == Init /\ [][Next]_vars
=============================================================================
