----------------------------- MODULE FileSender -----------------------------
(***************************************************************************)
(* KResponse::sendFile() and FileSender (src/httpserver.cpp:132-364), in   *)
(* the build with USE_TVP_EVENT: a file is sent in blocks, the callback of *)
(* Response::send() reads and sends the next, and the FileSender deletes   *)
(* itself after the last.  KResponse is a script object with a reference   *)
(* count; it and every FileSender hold the Response, whose deleter goes on *)
(* with the connection.                                                    *)
(*                                                                         *)
(* A block goes into the response's stream, and send() takes the stream's  *)
(* buffer, with no lock; only the queue has one.  The main thread sends    *)
(* the first block of a file, the io threads the others, and two of them   *)
(* may be at the stream at once: each statement is a step, one never sees  *)
(* another half done.  A buffer is the sequence of its blocks, a file is   *)
(* its length.  A write and the handler that takes it off the queue are    *)
(* one step: ResponseQueue has them apart.                                 *)
(***************************************************************************)
EXTENDS Integers, FiniteSets, Sequences

CONSTANTS
    Senders,       \* the FileSender of each call of sendFile()
    Block,         \* packetsize
    Lengths,       \* the lengths of the files
    IoThreads,     \* the number of threads of the io_service
    MaxReleases,   \* bound on the calls of release()
    MayFail,       \* a write may fail
    None

ASSUME BlockAssumption == Block \in Nat \ {0}
ASSUME LengthsAssumption == Lengths \subseteq Nat
ASSUME MaxReleasesAssumption == MaxReleases \in Nat
ASSUME MayFailAssumption == MayFail \in BOOLEAN
ASSUME NoneAssumption == None \notin Senders

VARIABLES
    refs,       \* the KResponse's reference count, 0 when it is deleted
    script,     \* the script's variable holds it
    released,   \* calls of release()
    main,       \* the sender whose first block the main thread sends, or None
    stage,      \* [Senders]: where a FileSender is
    file,       \* [Senders]: the length of its file
    off,        \* [Senders]: the position of its ifstream
    last,       \* [Senders]: read_length of the write under way
    stream,     \* the blocks in the response's own buffer
    holder,     \* the sender whose send() has moved that buffer out, or None
    taken,      \* [Senders]: the buffer that its send() has, None for a null pointer
    queue,      \* send_queue: a buffer, and the sender whose callback it has
    wire,       \* history: the blocks on the connection
    overlapped, \* history: two threads were at the stream at once
    crashed,    \* a null buffer was to be written: the process has ended
    told,       \* [Senders], history: calls of the FileSender's callback
    alive,      \* aliveConnCount
    gone        \* the Response's deleter has run

object == <<refs, script, released>>
response == <<stream, holder, taken, queue, wire, crashed>>
vars == <<object, main, stage, file, off, last, response, overlapped, told,
          alive, gone>>

\* RequestEnvelopDiffer: the count that is left is the event argument's.
Init ==
    /\ refs = 1
    /\ script = TRUE
    /\ released = 0
    /\ main = None
    /\ stage = [s \in Senders |-> "none"]
    /\ file = [s \in Senders |-> 0]
    /\ off = [s \in Senders |-> 0]
    /\ last = [s \in Senders |-> 0]
    /\ stream = <<>>
    /\ holder = None
    /\ taken = [s \in Senders |-> None]
    /\ queue = <<>>
    /\ wire = <<>>
    /\ overlapped = FALSE
    /\ crashed = FALSE
    /\ told = [s \in Senders |-> 0]
    /\ alive = 1
    /\ gone = FALSE

Started == {s \in Senders : stage[s] # "none"}

\* Senders between the write() to the stream and the new buffer in it.
AtStream == {s \in Senders : stage[s] \in {"put", "moved"}}

\* Senders that occupy an io thread.
OnIo == {s \in Senders : stage[s] \in {"popped", "put", "moved", "replaced"}} \ {main}

-----------------------------------------------------------------------------
(* FileSender::send() *)

\* gcount() of a read at offset `o` of a file of `n` bytes.
ReadLength(n, o) == IF n - o > Block THEN Block ELSE n - o

\* response->write(): the stream may still write to a buffer that was moved out.
Put(block) ==
    IF holder = None
    THEN stream' = Append(stream, block) /\ UNCHANGED taken
    ELSE taken' = [taken EXCEPT ![holder] = Append(@, block)] /\ UNCHANGED stream

\* Mutant: the file is read from where the last block began.
AdvanceNot(o, length) == IF o = 0 THEN length ELSE o

\* Where a read leaves the ifstream.
Advance(o, length) == o + length

\* Nothing is sent, and nothing more happens, at the file's end.
Send(s, o) ==
    LET length == ReadLength(file[s], o)
    IN  IF length > 0
        THEN /\ off' = [off EXCEPT ![s] = Advance(o, length)]
             /\ last' = [last EXCEPT ![s] = length]
             /\ Put([of |-> s, at |-> o, length |-> length])
             /\ overlapped' = (overlapped \/ AtStream # {})
             /\ stage' = [stage EXCEPT ![s] = "put"]
             /\ UNCHANGED main
        ELSE /\ stage' = [stage EXCEPT ![s] = "stuck"]
             /\ main' = IF main = s THEN None ELSE main
             /\ UNCHANGED <<off, last, stream, taken, overlapped>>

\* The first block, on the main thread.
First(s) ==
    /\ stage[s] = "begun"
    /\ Send(s, 0)
    /\ UNCHANGED <<object, file, holder, queue, wire, crashed, told, alive, gone>>

\* response->send(): the stream's buffer is moved out, a null pointer when that
\* has happened before.
Move(s) ==
    /\ stage[s] = "put"
    /\ stage' = [stage EXCEPT ![s] = "moved"]
    /\ IF holder = None
       THEN taken' = [taken EXCEPT ![s] = stream] /\ stream' = <<>> /\ holder' = s
       ELSE taken' = [taken EXCEPT ![s] = None] /\ UNCHANGED <<stream, holder>>
    /\ UNCHANGED <<object, main, file, off, last, queue, wire, overlapped,
                   crashed, told, alive, gone>>

\* The stream gets a new buffer; one that it may have is deleted.
Replace(s) ==
    /\ stage[s] = "moved"
    /\ stage' = [stage EXCEPT ![s] = "replaced"]
    /\ stream' = <<>>
    /\ holder' = None
    /\ UNCHANGED <<object, main, file, off, last, taken, queue, wire, overlapped,
                   crashed, told, alive, gone>>

\* send_from_queue() of the first buffer of q.
NullFirst(q) == q # <<>> /\ q[1].buffer = None

\* The rest of response->send(), under the queue's mutex.
Enqueue(s) ==
    /\ stage[s] = "replaced"
    /\ stage' = [stage EXCEPT ![s] = "writing"]
    /\ queue' = Append(queue, [buffer |-> taken[s], by |-> s])
    /\ crashed' = NullFirst(queue')
    /\ taken' = [taken EXCEPT ![s] = None]
    /\ main' = IF main = s THEN None ELSE main
    /\ UNCHANGED <<object, file, off, last, stream, holder, wire, overlapped,
                   told, alive, gone>>

-----------------------------------------------------------------------------
(* The handler of send_from_queue() *)

\* A write has succeeded: under the mutex, it goes and the next one starts.
Written(s) ==
    /\ queue # <<>> /\ s = Head(queue).by
    /\ Cardinality(OnIo) < IoThreads
    /\ stage' = [stage EXCEPT ![s] = "popped"]
    /\ wire' = wire \o Head(queue).buffer
    /\ queue' = Tail(queue)
    /\ crashed' = NullFirst(queue')
    /\ UNCHANGED <<object, main, file, off, last, stream, holder, taken,
                   overlapped, told, alive, gone>>

\* Mutant: a short block is not taken for the last.
CallbackOn(s) ==
    /\ stage[s] = "popped"
    /\ Send(s, off[s])
    /\ UNCHANGED <<object, file, holder, queue, wire, crashed, told, alive, gone>>

\* The callback, without the mutex: the next block after a full one, else the
\* end.
Callback(s) ==
    /\ stage[s] = "popped"
    /\ IF last[s] = Block
       THEN Send(s, off[s]) /\ UNCHANGED <<told, alive>>
       ELSE /\ stage' = [stage EXCEPT ![s] = "freed"]
            /\ told' = [told EXCEPT ![s] = @ + 1]
            /\ alive' = alive - 1
            /\ UNCHANGED <<main, off, last, stream, taken, overlapped>>
    /\ UNCHANGED <<object, file, holder, queue, wire, crashed, gone>>

\* A write has failed: its handler takes all callbacks.
WriteFails ==
    /\ MayFail /\ queue # <<>>
    /\ stage' = [s \in Senders |->
                    IF \E i \in 1..Len(queue) : queue[i].by = s THEN "failing" ELSE stage[s]]
    /\ queue' = <<>>
    /\ UNCHANGED <<object, main, file, off, last, stream, holder, taken, wire,
                   overlapped, crashed, told, alive, gone>>

\* A callback with the error: the sender is told, and not deleted.
Fails(s) ==
    /\ stage[s] = "failing"
    /\ stage' = [stage EXCEPT ![s] = "failed"]
    /\ told' = [told EXCEPT ![s] = @ + 1]
    /\ UNCHANGED <<object, main, file, off, last, response, overlapped, alive, gone>>

-----------------------------------------------------------------------------
(* KResponse *)

\* The script runs: not inside sendFile(), and not in the destructor of the
\* object that a release() too many has run under its own call, where the main
\* thread waits for ever (Dispatch).
Scripting == script /\ refs > 0 /\ main = None

\* sendFile(): hold the object, put the header, if any, into the stream, and
\* make a sender.
SendFile(s, n) ==
    /\ Scripting
    /\ stage[s] = "none"
    /\ refs' = refs + 1
    /\ main' = s
    /\ stage' = [stage EXCEPT ![s] = "begun"]
    /\ file' = [file EXCEPT ![s] = n]
    /\ overlapped' = (overlapped \/ AtStream # {})
    /\ alive' = alive + 1
    /\ UNCHANGED <<script, released, off, last, response, told, gone>>

\* iTJSDispatch2::Release(), and the destructor with the last one.
Drop ==
    /\ refs' = refs - 1
    /\ alive' = IF refs = 1 THEN alive - 1 ELSE alive
    /\ UNCHANGED <<main, stage, file, off, last, response, overlapped, told, gone>>

\* The script's release(), which drops a reference, whoever has taken it.
Release ==
    /\ Scripting
    /\ released < MaxReleases
    /\ released' = released + 1
    /\ Drop
    /\ UNCHANGED script

\* The last variable goes that holds the object.
Finalize ==
    /\ Scripting
    /\ script' = FALSE
    /\ Drop
    /\ UNCHANGED released

\* Mutant: the sender has a plain reference to the response.
HeldByObject == refs > 0

\* Who holds the Response: the object, and every FileSender that exists.
Held == refs > 0 \/ \E s \in Started : stage[s] # "freed"

\* The Response's deleter, which goes on with the connection or closes it.
Deleter ==
    /\ ~Held
    /\ ~gone
    /\ gone' = TRUE
    /\ UNCHANGED <<object, main, stage, file, off, last, response, overlapped,
                   told, alive>>

-----------------------------------------------------------------------------
SenderStep(s) ==
    \/ First(s) \/ Move(s) \/ Replace(s) \/ Enqueue(s)
    \/ Callback(s) \/ Fails(s)

Next ==
    /\ ~crashed
    /\ \/ \E s \in Senders : \/ SenderStep(s) \/ Written(s)
                            \/ \E n \in Lengths : SendFile(s, n)
       \/ WriteFails
       \/ Release \/ Finalize \/ Deleter

Spec == Init /\ [][Next]_vars

\* Threads run, a write completes, the last holder deletes the response, and a
\* variable of a handler goes when the handler has returned.
Fairness ==
    /\ \A s \in Senders : WF_vars(~crashed /\ SenderStep(s))
    /\ WF_vars(~crashed /\ \E s \in Senders : Written(s))
    /\ WF_vars(~crashed /\ Finalize)
    /\ WF_vars(~crashed /\ Deleter)

FairSpec == Spec /\ Fairness

-----------------------------------------------------------------------------
(* Properties *)

\* The block of the file of s at offset o.
BlockAt(s, o) == [of |-> s, at |-> o, length |-> ReadLength(file[s], o)]

\* As long as no two threads were at the stream at once, every block on the
\* connection is one of a file, whole and once, those of one file come in the
\* order of the file, and a file is there to its end when its sender is
\* deleted.  The blocks of two files that are sent at the same time alternate;
\* and when the main thread starts a file, or the other io thread is called
\* back, between the write() and the new buffer of a send(), nothing of this
\* holds: blocks go out in the wrong order, are lost, or the process ends
\* (src/httpserver.cpp:157-178, src/server_http.hpp:138-149).
FileInOrder ==
    ~overlapped =>
       /\ \A j \in 1..Len(wire) : LET b == wire[j] IN
             /\ b.at < file[b.of] /\ b = BlockAt(b.of, b.at)
             /\ \A i \in 1..j - 1 : wire[i] # b
             /\ b.at = 0 \/ \E i \in 1..j - 1 : wire[i] = BlockAt(b.of, b.at - Block)
       /\ \A s \in Senders : stage[s] = "freed" =>
             \E j \in 1..Len(wire) :
                wire[j].of = s /\ wire[j].at + wire[j].length = file[s]

\* The connection goes on only when nothing is left to send: the senders keep
\* the response, although the script has long let go of its object.
NothingIsCutOff ==
    gone => queue = <<>> /\ \A s \in Started : stage[s] = "freed"

\* The connection goes on when the script has released what it has sent, if
\* every write succeeds, no file ends with a full block, and no null buffer was
\* to be written.
LinkGoesOn ==
    refs = 0 ~>
       \/ gone \/ crashed
       \/ \E s \in Started : stage[s] = "failed" \/ file[s] % Block = 0

\* docs/f_KResponse_sendFile.html:43 speaks of what happens when the file has
\* been sent: a sender comes to its end.  One whose file ends with a full block
\* does not, and is never deleted.
SenderFinishes ==
    \A s \in Senders : stage[s] = "writing" ~> stage[s] \in {"freed", "failed"}

=============================================================================
