------------------------- MODULE FileSender_proofs --------------------------
(***************************************************************************)
(* The files of one response, for any number of senders and of io threads, *)
(* any lengths and any size of a block: what each puts on the connection,  *)
(* and who keeps the response until it is there.                           *)
(***************************************************************************)
EXTENDS FileSender, FiniteSetTheorems, TLAPS

Stages == {"none", "begun", "put", "moved", "replaced", "writing", "popped",
           "failing", "failed", "stuck", "freed"}
Blocks == [of : Senders, at : Nat, length : Nat]
Buffers == Seq(Blocks) \cup {None}

\* The type of the state.
TypeOK ==
    /\ refs \in Nat /\ script \in BOOLEAN /\ released \in Nat
    /\ main \in Senders \cup {None}
    /\ stage \in [Senders -> Stages]
    /\ file \in [Senders -> Nat]
    /\ off \in [Senders -> Nat]
    /\ last \in [Senders -> Nat]
    /\ stream \in Seq(Blocks)
    /\ holder \in Senders \cup {None}
    /\ taken \in [Senders -> Buffers]
    /\ queue \in Seq([buffer : Buffers, by : Senders])
    /\ wire \in Seq(Blocks)
    /\ overlapped \in BOOLEAN /\ crashed \in BOOLEAN /\ gone \in BOOLEAN
    /\ told \in [Senders -> Nat]
    /\ alive \in Int

\* A buffer to which the stream still writes is the one that its holder has
\* moved out, and the process has ended before a null pointer is written.
BuffersExist ==
    /\ holder # None => stage[holder] = "moved" /\ taken[holder] \in Seq(Blocks)
    /\ ~crashed /\ queue # <<>> => queue[1].buffer \in Seq(Blocks)

\* Each write in the queue is one of its own sender.
OwnWrites ==
    /\ \A i \in 1..Len(queue) : stage[queue[i].by] = "writing"
    /\ \A i, j \in 1..Len(queue) : queue[i].by = queue[j].by => i = j

LEMMA ElementType ==
  ASSUME NEW S, NEW q \in Seq(S), NEW i \in 1..Len(q) PROVE q[i] \in S
  OBVIOUS

\* Every write in the queue has a sender.
LEMMA WritesHaveSenders ==
  ASSUME TypeOK
  PROVE  /\ \A i \in 1..Len(queue) : queue[i].by \in Senders /\ queue[i].buffer \in Buffers
         /\ Len(queue) \in Nat
  <1>1. queue \in Seq([buffer : Buffers, by : Senders])
    BY DEF TypeOK
  <1>2. ASSUME NEW i \in 1..Len(queue) PROVE queue[i] \in [buffer : Buffers, by : Senders]
    BY <1>1, ElementType
  <1> QED
    BY <1>1, <1>2

\* The senders whose destructor has not run.
Undeleted == {s \in Started : stage[s] # "freed"}

\* The Response's deleter waits for every holder, and no file is started after
\* it.
LastHolder == gone => refs = 0 /\ Undeleted = {}

\* aliveConnCount, which a script reads, is the number of the response objects
\* and senders that exist (src/httpserver.cpp:52-57, 146, 154, 187, 362, 479).
AliveIsExact == alive = Cardinality(Undeleted) + IF refs > 0 THEN 1 ELSE 0

\* The callback of sendFile() is called when its sender is deleted or fails,
\* and once (src/httpserver.cpp:151, 171).
ToldOnce ==
    \A s \in Senders : told[s] = IF stage[s] \in {"freed", "failed"} THEN 1 ELSE 0

\* Who holds what, whatever happens to the blocks.
HInv ==
    /\ TypeOK /\ BuffersExist /\ OwnWrites
    /\ LastHolder /\ IsFiniteSet(Started) /\ AliveIsExact /\ ToldOnce

-----------------------------------------------------------------------------
\* Who holds the response

\* The senders that are not deleted are finitely many.
LEMMA UndeletedFinite ==
  ASSUME IsFiniteSet(Started)
  PROVE  IsFiniteSet(Undeleted) /\ Cardinality(Undeleted) \in Nat
  <1>1. Undeleted \subseteq Started
    BY DEF Undeleted
  <1> QED
    BY <1>1, FS_Subset, FS_CardinalityType

\* A sender goes from one stage to another in which it exists, too.
LEMMA SameSenders ==
  ASSUME TypeOK, UNCHANGED <<refs, alive, gone>>,
         stage' \in [Senders -> Stages],
         \A s \in Senders : \/ stage'[s] = stage[s]
                            \/ stage[s] \notin {"none", "freed"} /\ stage'[s] \notin {"none", "freed"}
  PROVE  /\ Started' = Started /\ Undeleted' = Undeleted
         /\ LastHolder => LastHolder'
         /\ AliveIsExact => AliveIsExact'
  <1>1. Started' = Started /\ Undeleted' = Undeleted
    BY DEF Started, Undeleted
  <1> QED
    BY <1>1 DEF LastHolder, AliveIsExact

\* The first state: nobody sends.
LEMMA HInit == Init => HInv
  <1> SUFFICES ASSUME Init PROVE HInv
    OBVIOUS
  <1>1. TypeOK
    <2>1. /\ stage \in [Senders -> Stages] /\ taken \in [Senders -> Buffers]
          /\ file \in [Senders -> Nat] /\ off \in [Senders -> Nat]
          /\ last \in [Senders -> Nat] /\ told \in [Senders -> Nat]
      BY DEF Init, Stages, Buffers
    <2>2. /\ stream \in Seq(Blocks) /\ wire \in Seq(Blocks)
          /\ queue \in Seq([buffer : Buffers, by : Senders])
      BY DEF Init
    <2>3. /\ script \in BOOLEAN /\ overlapped \in BOOLEAN
          /\ crashed \in BOOLEAN /\ gone \in BOOLEAN
      BY Zenon DEF Init
    <2>4. /\ refs \in Nat /\ released \in Nat /\ alive \in Int
          /\ main \in Senders \cup {None} /\ holder \in Senders \cup {None}
      BY DEF Init
    <2> QED
      BY <2>1, <2>2, <2>3, <2>4 DEF TypeOK
  <1>2. BuffersExist /\ OwnWrites /\ LastHolder /\ ToldOnce
    BY DEF Init, BuffersExist, OwnWrites, LastHolder, ToldOnce
  <1>3. Started = {} /\ Undeleted = {}
    BY DEF Init, Started, Undeleted
  <1>4. IsFiniteSet({}) /\ Cardinality({}) = 0
    BY FS_EmptySet
  <1>5. IsFiniteSet(Started) /\ AliveIsExact
    BY <1>3, <1>4 DEF Init, AliveIsExact
  <1> QED
    BY <1>1, <1>2, <1>5 DEF HInv

\* A block goes into the stream, or the sender has come to the end of its file.
LEMMA HSend ==
  ASSUME HInv, NEW s \in Senders, NEW o \in Nat, stage[s] \in {"begun", "popped"},
         Send(s, o), UNCHANGED <<object, file, holder, queue, wire, crashed, told, alive, gone>>
  PROVE  HInv'
  <1>0. TypeOK /\ BuffersExist
    BY DEF HInv
  <1>1. /\ ReadLength(file[s], o) \in Int
        /\ ReadLength(file[s], o) > 0 => ReadLength(file[s], o) \in Nat
    BY <1>0, BlockAssumption DEF ReadLength, TypeOK
  <1>2. /\ stage' \in [Senders -> Stages]
        /\ stage'[s] \in {"put", "stuck"} /\ \A u \in Senders \ {s} : stage'[u] = stage[u]
    BY <1>0 DEF Send, TypeOK, Stages
  <1>3. ASSUME ReadLength(file[s], o) > 0 PROVE TypeOK' /\ BuffersExist'
    <2> DEFINE block == [of |-> s, at |-> o, length |-> ReadLength(file[s], o)]
    <2>1. block \in Blocks
      BY <1>1, <1>3 DEF Blocks
    <2>2. /\ off' = [off EXCEPT ![s] = Advance(o, ReadLength(file[s], o))]
          /\ last' = [last EXCEPT ![s] = ReadLength(file[s], o)]
          /\ Put(block)
          /\ overlapped' = (overlapped \/ AtStream # {})
          /\ main' = main
      BY <1>3 DEF Send
    <2> HIDE DEF block
    <2>3. stream' \in Seq(Blocks)
      <3>1. stream \in Seq(Blocks) /\ stream' \in {stream, Append(stream, block)}
        BY <1>0, <2>2 DEF Put, TypeOK
      <3> QED
        BY <2>1, <3>1
    <2>4. /\ taken' \in [Senders -> Buffers]
          /\ holder # None => taken'[holder] \in Seq(Blocks)
      <3>1. CASE holder = None
        BY <1>0, <2>2, <3>1 DEF Put, TypeOK
      <3>2. CASE holder # None
        <4>1. Append(taken[holder], block) \in Seq(Blocks)
          BY <1>0, <2>1, <3>2 DEF BuffersExist
        <4> QED
          BY <1>0, <2>2, <3>2, <4>1 DEF Put, TypeOK, Buffers
      <3> QED
        BY <3>1, <3>2
    <2>5. overlapped' \in BOOLEAN
      BY <2>2, Zenon
    <2>6. off' \in [Senders -> Nat] /\ last' \in [Senders -> Nat]
      <3>1. Advance(o, ReadLength(file[s], o)) \in Nat
        BY <1>1, <1>3 DEF Advance
      <3> QED
        BY <1>0, <1>1, <1>3, <2>2, <3>1 DEF TypeOK
    <2>7. TypeOK'
      BY <1>0, <1>2, <2>2, <2>3, <2>4, <2>5, <2>6 DEF TypeOK, object
    <2>8. BuffersExist'
      BY <1>0, <1>2, <2>4 DEF BuffersExist, TypeOK
    <2> QED
      BY <2>7, <2>8
  <1>4. ASSUME ~(ReadLength(file[s], o) > 0) PROVE TypeOK' /\ BuffersExist'
    <2>1. /\ main' = IF main = s THEN None ELSE main
          /\ UNCHANGED <<off, last, stream, taken, overlapped>>
      BY <1>4 DEF Send
    <2>2. TypeOK'
      BY <1>0, <1>2, <2>1 DEF TypeOK, object
    <2>3. BuffersExist'
      BY <1>0, <1>2, <2>1 DEF TypeOK, BuffersExist
    <2> QED
      BY <2>2, <2>3
  <1>5. TypeOK' /\ BuffersExist'
    BY <1>3, <1>4
  <1>6. OwnWrites' /\ ToldOnce'
    <2>1. \A i \in 1..Len(queue) : queue[i].by \in Senders
      BY <1>0, WritesHaveSenders
    <2>2. OwnWrites'
      BY <1>2, <2>1 DEF HInv, OwnWrites
    <2>3. ToldOnce'
      BY <1>0, <1>2 DEF HInv, ToldOnce
    <2> QED
      BY <2>2, <2>3
  <1>7. Started' = Started /\ LastHolder' /\ AliveIsExact'
    BY <1>0, <1>2, SameSenders DEF HInv, object
  <1> QED
    BY <1>5, <1>6, <1>7 DEF HInv

\* The rest of response->send(), statement by statement.
LEMMA HMove == ASSUME HInv, NEW s \in Senders, Move(s) PROVE HInv'
  <1>0. TypeOK /\ BuffersExist /\ OwnWrites
    BY DEF HInv
  <1>1. /\ stage[s] = "put" /\ stage' = [stage EXCEPT ![s] = "moved"]
        /\ UNCHANGED <<object, main, file, off, last, queue, wire, overlapped,
                       crashed, told, alive, gone>>
    BY DEF Move
  <1>2. stage' \in [Senders -> Stages] /\ stage'[s] = "moved"
        /\ \A u \in Senders \ {s} : stage'[u] = stage[u]
    BY <1>0, <1>1 DEF TypeOK, Stages
  <1>3. \/ /\ holder' = s /\ stream' = <<>> /\ taken' = [taken EXCEPT ![s] = stream]
        \/ /\ holder' = holder /\ stream' = stream /\ taken' = [taken EXCEPT ![s] = None]
           /\ holder # None
    BY DEF Move
  <1>4. /\ stream' \in Seq(Blocks) /\ holder' \in Senders \cup {None}
        /\ taken' \in [Senders -> Buffers]
    <2>1. stream \in Buffers /\ None \in Buffers /\ <<>> \in Seq(Blocks) /\ s \in Senders
      BY <1>0 DEF TypeOK, Buffers
    <2>2. /\ taken \in [Senders -> Buffers] /\ stream \in Seq(Blocks)
          /\ holder \in Senders \cup {None}
      BY <1>0 DEF TypeOK
    <2>3. taken' \in [Senders -> Buffers]
      BY <1>3, <2>1, <2>2
    <2> QED
      BY <1>3, <2>1, <2>2, <2>3
  <1>5. TypeOK'
    BY <1>0, <1>1, <1>2, <1>4 DEF TypeOK, object
  <1>6. BuffersExist'
    <2>1. CASE holder' = s /\ taken' = [taken EXCEPT ![s] = stream]
      BY <1>0, <1>1, <1>2, <2>1 DEF TypeOK, BuffersExist
    <2>2. CASE holder' = holder /\ taken' = [taken EXCEPT ![s] = None] /\ holder # None
      <3>1. holder # s /\ holder \in Senders
        BY <1>0, <1>1, <2>2 DEF BuffersExist, TypeOK
      <3> QED
        BY <1>0, <1>1, <1>2, <2>2, <3>1 DEF TypeOK, BuffersExist
    <2> QED
      BY <1>3, <2>1, <2>2
  <1>7. OwnWrites' /\ ToldOnce'
    BY <1>0, <1>1, <1>2, WritesHaveSenders DEF HInv, OwnWrites, ToldOnce
  <1>8. Started' = Started /\ LastHolder' /\ AliveIsExact'
    BY <1>0, <1>1, <1>2, SameSenders DEF HInv, object
  <1> QED
    BY <1>5, <1>6, <1>7, <1>8 DEF HInv

LEMMA HReplace == ASSUME HInv, NEW s \in Senders, Replace(s) PROVE HInv'
  <1>0. TypeOK /\ BuffersExist /\ OwnWrites
    BY DEF HInv
  <1>1. /\ stage[s] = "moved" /\ stage' = [stage EXCEPT ![s] = "replaced"]
        /\ stream' = <<>> /\ holder' = None
        /\ UNCHANGED <<object, main, file, off, last, taken, queue, wire, overlapped,
                       crashed, told, alive, gone>>
    BY DEF Replace
  <1>2. stage' \in [Senders -> Stages] /\ stage'[s] = "replaced"
        /\ \A u \in Senders \ {s} : stage'[u] = stage[u]
    BY <1>0, <1>1 DEF TypeOK, Stages
  <1>3. TypeOK' /\ BuffersExist'
    BY <1>0, <1>1, <1>2 DEF TypeOK, BuffersExist, object
  <1>4. OwnWrites' /\ ToldOnce'
    BY <1>0, <1>1, <1>2, WritesHaveSenders DEF HInv, OwnWrites, ToldOnce
  <1>5. Started' = Started /\ LastHolder' /\ AliveIsExact'
    BY <1>0, <1>1, <1>2, SameSenders DEF HInv, object
  <1> QED
    BY <1>3, <1>4, <1>5 DEF HInv

LEMMA HEnqueue == ASSUME HInv, ~crashed, NEW s \in Senders, Enqueue(s) PROVE HInv'
  <1>0. TypeOK /\ BuffersExist /\ OwnWrites
    BY DEF HInv
  <1> DEFINE entry == [buffer |-> taken[s], by |-> s]
  <1>1. /\ stage[s] = "replaced" /\ stage' = [stage EXCEPT ![s] = "writing"]
        /\ queue' = Append(queue, entry)
        /\ crashed' = NullFirst(queue')
        /\ taken' = [taken EXCEPT ![s] = None]
        /\ main' = IF main = s THEN None ELSE main
        /\ UNCHANGED <<object, file, off, last, stream, holder, wire, overlapped,
                       told, alive, gone>>
    BY DEF Enqueue
  <1>2. stage' \in [Senders -> Stages] /\ stage'[s] = "writing"
        /\ \A u \in Senders \ {s} : stage'[u] = stage[u]
    BY <1>0, <1>1 DEF TypeOK, Stages
  <1>3. /\ entry \in [buffer : Buffers, by : Senders] /\ entry.by = s
        /\ queue \in Seq([buffer : Buffers, by : Senders])
    BY <1>0 DEF TypeOK
  <1> HIDE DEF entry
  <1>4. /\ queue' \in Seq([buffer : Buffers, by : Senders])
        /\ Len(queue') = Len(queue) + 1 /\ Len(queue) \in Nat
        /\ queue'[Len(queue) + 1] = entry
        /\ \A i \in 1..Len(queue) : queue'[i] = queue[i]
    BY <1>1, <1>3
  <1>5. TypeOK'
    <2>1. crashed' \in BOOLEAN
      BY <1>1, Zenon DEF NullFirst
    <2>2. taken' \in [Senders -> Buffers] /\ main' \in Senders \cup {None}
      BY <1>0, <1>1 DEF TypeOK, Buffers
    <2> QED
      BY <1>0, <1>1, <1>2, <1>4, <2>1, <2>2 DEF TypeOK, object
  <1>6. BuffersExist'
    <2>1. holder' # None => stage'[holder'] = "moved" /\ taken'[holder'] \in Seq(Blocks)
      BY <1>0, <1>1, <1>2 DEF BuffersExist, TypeOK
    <2>2. ~crashed' => queue'[1].buffer \in Seq(Blocks)
      <3>1. 1 \in 1..Len(queue') /\ queue' # <<>>
        BY <1>4
      <3>2. queue'[1] \in [buffer : Buffers, by : Senders]
        BY <1>4, <3>1, ElementType
      <3> QED
        BY <1>1, <3>1, <3>2 DEF NullFirst, Buffers
    <2> QED
      BY <2>1, <2>2 DEF BuffersExist
  <1>7. OwnWrites'
    <2>1. \A i \in 1..Len(queue) : queue[i].by \in Senders \ {s} /\ stage[queue[i].by] = "writing"
      BY <1>0, <1>1, WritesHaveSenders DEF OwnWrites
    <2> QED
      BY <1>0, <1>2, <1>3, <1>4, <2>1 DEF OwnWrites
  <1>8. ToldOnce'
    BY <1>1, <1>2 DEF HInv, ToldOnce
  <1>9. Started' = Started /\ LastHolder' /\ AliveIsExact'
    BY <1>0, <1>1, <1>2, SameSenders DEF HInv, object
  <1> QED
    BY <1>5, <1>6, <1>7, <1>8, <1>9 DEF HInv

\* A write has succeeded.
LEMMA HWritten == ASSUME HInv, ~crashed, NEW s \in Senders, Written(s) PROVE HInv'
  <1>0. TypeOK /\ BuffersExist /\ OwnWrites
    BY DEF HInv
  <1>1. /\ queue # <<>> /\ s = Head(queue).by
        /\ stage' = [stage EXCEPT ![s] = "popped"]
        /\ wire' = wire \o Head(queue).buffer
        /\ queue' = Tail(queue) /\ crashed' = NullFirst(queue')
        /\ UNCHANGED <<object, main, file, off, last, stream, holder, taken,
                       overlapped, told, alive, gone>>
    BY DEF Written
  <1>2. /\ queue \in Seq([buffer : Buffers, by : Senders]) /\ Len(queue) \in Nat \ {0}
        /\ Head(queue) = queue[1]
        /\ queue' \in Seq([buffer : Buffers, by : Senders]) /\ Len(queue') = Len(queue) - 1
        /\ \A i \in 1..Len(queue') : queue'[i] = queue[i + 1]
    BY <1>0, <1>1 DEF TypeOK
  <1>3. stage[s] = "writing"
    BY <1>0, <1>1, <1>2 DEF OwnWrites
  <1>4. stage' \in [Senders -> Stages] /\ stage'[s] = "popped"
        /\ \A u \in Senders \ {s} : stage'[u] = stage[u]
    BY <1>0, <1>1 DEF TypeOK, Stages
  <1>5. TypeOK'
    <2>1. crashed' \in BOOLEAN
      BY <1>1, Zenon DEF NullFirst
    <2>2. wire' \in Seq(Blocks)
      BY <1>0, <1>1, <1>2 DEF BuffersExist, TypeOK
    <2> QED
      BY <1>0, <1>1, <1>2, <1>4, <2>1, <2>2 DEF TypeOK, object
  <1>6. BuffersExist'
    <2>1. holder' # None => stage'[holder'] = "moved" /\ taken'[holder'] \in Seq(Blocks)
      BY <1>0, <1>1, <1>3, <1>4 DEF BuffersExist, TypeOK
    <2>2. ASSUME ~crashed', queue' # <<>> PROVE queue'[1].buffer \in Seq(Blocks)
      <3>1. 1 \in 1..Len(queue')
        BY <1>2, <2>2
      <3>2. queue'[1] \in [buffer : Buffers, by : Senders]
        BY <1>2, <3>1, ElementType
      <3> QED
        BY <1>1, <2>2, <3>2 DEF NullFirst, Buffers
    <2> QED
      BY <2>1, <2>2 DEF BuffersExist
  <1>7. OwnWrites'
    <2>1. ASSUME NEW i \in 1..Len(queue')
          PROVE  /\ i + 1 \in 1..Len(queue) /\ queue'[i].by \in Senders \ {s}
                 /\ stage[queue'[i].by] = "writing"
      <3>1. i + 1 \in 1..Len(queue) /\ 1 \in 1..Len(queue) /\ i + 1 # 1
        BY <1>2
      <3>2. queue[i + 1].by # queue[1].by
        BY <1>0, <3>1 DEF OwnWrites
      <3> QED
        BY <1>0, <1>1, <1>2, <3>1, <3>2, WritesHaveSenders DEF OwnWrites
    <2>2. \A i, j \in 1..Len(queue') : queue'[i].by = queue'[j].by => i = j
      <3> TAKE i, j \in 1..Len(queue')
      <3>1. queue[i + 1].by = queue[j + 1].by => i + 1 = j + 1
        BY <1>0, <2>1 DEF OwnWrites
      <3> QED
        BY <1>2, <3>1
    <2> QED
      BY <1>4, <2>1, <2>2 DEF OwnWrites
  <1>8. ToldOnce'
    BY <1>1, <1>3, <1>4 DEF HInv, ToldOnce
  <1>9. Started' = Started /\ LastHolder' /\ AliveIsExact'
    BY <1>0, <1>1, <1>3, <1>4, SameSenders DEF HInv, object
  <1> QED
    BY <1>5, <1>6, <1>7, <1>8, <1>9 DEF HInv

\* The callback of a write, and that of a sender's last one.
LEMMA HCallback == ASSUME HInv, NEW s \in Senders, Callback(s) PROVE HInv'
  <1>0. TypeOK /\ BuffersExist /\ OwnWrites
    BY DEF HInv
  <1>1. stage[s] = "popped" /\ off[s] \in Nat
    BY <1>0 DEF Callback, TypeOK
  <1>2. CASE last[s] = Block
    BY <1>1, <1>2, HSend DEF Callback
  <1>3. CASE last[s] # Block
    <2>1. /\ stage' = [stage EXCEPT ![s] = "freed"]
          /\ told' = [told EXCEPT ![s] = @ + 1]
          /\ alive' = alive - 1
          /\ UNCHANGED <<main, off, last, stream, taken, overlapped>>
          /\ UNCHANGED <<object, file, holder, queue, wire, crashed, gone>>
      BY <1>3 DEF Callback
    <2>2. stage' \in [Senders -> Stages] /\ stage'[s] = "freed"
          /\ \A u \in Senders \ {s} : stage'[u] = stage[u]
      BY <1>0, <2>1 DEF TypeOK, Stages
    <2>3. TypeOK'
      <3>1. told' \in [Senders -> Nat] /\ alive' \in Int
        BY <1>0, <2>1 DEF TypeOK
      <3> QED
        BY <1>0, <2>1, <2>2, <3>1 DEF TypeOK, object
    <2>4. BuffersExist'
      BY <1>0, <1>1, <2>1, <2>2 DEF BuffersExist, TypeOK
    <2>5. OwnWrites'
      BY <1>0, <1>1, <2>1, <2>2, WritesHaveSenders DEF OwnWrites
    <2>6. ToldOnce'
      BY <1>0, <1>1, <2>1, <2>2 DEF HInv, ToldOnce, TypeOK
    <2>7. /\ Started' = Started /\ s \in Undeleted /\ Undeleted' = Undeleted \ {s}
      BY <1>1, <2>2 DEF Started, Undeleted
    <2>8. /\ Cardinality(Undeleted') = Cardinality(Undeleted) - 1
          /\ Cardinality(Undeleted) \in Nat
      BY <2>7, UndeletedFinite, FS_RemoveElement DEF HInv
    <2>9. LastHolder'
      BY <2>1, <2>7 DEF HInv, LastHolder, object
    <2>10. AliveIsExact'
      BY <1>0, <2>1, <2>8 DEF HInv, AliveIsExact, object, TypeOK
    <2> QED
      BY <2>3, <2>4, <2>5, <2>6, <2>7, <2>9, <2>10 DEF HInv
  <1> QED
    BY <1>2, <1>3

\* The callbacks after an error.
LEMMA HWriteFails == ASSUME HInv, WriteFails PROVE HInv'
  <1>0. TypeOK /\ BuffersExist /\ OwnWrites
    BY DEF HInv
  <1>1. /\ stage' = [s \in Senders |->
                       IF \E i \in 1..Len(queue) : queue[i].by = s THEN "failing" ELSE stage[s]]
        /\ queue' = <<>>
        /\ UNCHANGED <<object, main, file, off, last, stream, holder, taken, wire,
                       overlapped, crashed, told, alive, gone>>
    BY DEF WriteFails
  <1>2. /\ stage' \in [Senders -> Stages]
        /\ \A s \in Senders : \/ stage'[s] = stage[s]
                              \/ stage[s] = "writing" /\ stage'[s] = "failing"
    BY <1>0, <1>1 DEF TypeOK, Stages, OwnWrites
  <1>3. TypeOK'
    <2>1. queue' \in Seq([buffer : Buffers, by : Senders])
      BY <1>1
    <2> QED
      BY <1>0, <1>1, <1>2, <2>1 DEF TypeOK, object
  <1>4. BuffersExist' /\ OwnWrites'
    <2>1. holder # None => holder \in Senders /\ stage'[holder] = "moved"
      BY <1>0, <1>2 DEF BuffersExist, TypeOK
    <2>2. BuffersExist'
      BY <1>0, <1>1, <2>1 DEF BuffersExist
    <2>3. OwnWrites'
      BY <1>1 DEF OwnWrites
    <2> QED
      BY <2>2, <2>3
  <1>5. ToldOnce'
    BY <1>0, <1>1, <1>2 DEF HInv, ToldOnce
  <1>6. Started' = Started /\ LastHolder' /\ AliveIsExact'
    BY <1>0, <1>1, <1>2, SameSenders DEF HInv, object
  <1> QED
    BY <1>3, <1>4, <1>5, <1>6 DEF HInv

LEMMA HFails == ASSUME HInv, NEW s \in Senders, Fails(s) PROVE HInv'
  <1>0. TypeOK /\ BuffersExist /\ OwnWrites
    BY DEF HInv
  <1>1. /\ stage[s] = "failing" /\ stage' = [stage EXCEPT ![s] = "failed"]
        /\ told' = [told EXCEPT ![s] = @ + 1]
        /\ UNCHANGED <<object, main, file, off, last, stream, holder, taken, queue,
                       wire, overlapped, crashed, alive, gone>>
    BY DEF Fails, response
  <1>2. stage' \in [Senders -> Stages] /\ stage'[s] = "failed"
        /\ \A u \in Senders \ {s} : stage'[u] = stage[u]
    BY <1>0, <1>1 DEF TypeOK, Stages
  <1>3. TypeOK'
    BY <1>0, <1>1, <1>2 DEF TypeOK, object
  <1>4. BuffersExist'
    BY <1>0, <1>1, <1>2 DEF BuffersExist, TypeOK
  <1>5. OwnWrites'
    BY <1>0, <1>1, <1>2, WritesHaveSenders DEF OwnWrites
  <1>6. ToldOnce'
    BY <1>0, <1>1, <1>2 DEF HInv, ToldOnce, TypeOK
  <1>7. Started' = Started /\ LastHolder' /\ AliveIsExact'
    BY <1>0, <1>1, <1>2, SameSenders DEF HInv, object
  <1> QED
    BY <1>3, <1>4, <1>5, <1>6, <1>7 DEF HInv

\* A file is started.
LEMMA HSendFile ==
  ASSUME HInv, NEW s \in Senders, NEW n \in Lengths, SendFile(s, n) PROVE HInv'
  <1>0. TypeOK /\ BuffersExist /\ OwnWrites
    BY DEF HInv
  <1>1. /\ refs > 0 /\ stage[s] = "none"
        /\ refs' = refs + 1 /\ main' = s /\ alive' = alive + 1
        /\ stage' = [stage EXCEPT ![s] = "begun"]
        /\ file' = [file EXCEPT ![s] = n]
        /\ overlapped' = (overlapped \/ AtStream # {})
        /\ UNCHANGED <<script, released, off, last, stream, holder, taken, queue,
                       wire, crashed, told, gone>>
    BY DEF SendFile, Scripting, response
  <1>2. stage' \in [Senders -> Stages] /\ stage'[s] = "begun"
        /\ \A u \in Senders \ {s} : stage'[u] = stage[u]
    BY <1>0, <1>1 DEF TypeOK, Stages
  <1>3. TypeOK'
    <2>1. overlapped' \in BOOLEAN
      BY <1>1, Zenon
    <2> QED
      BY <1>0, <1>1, <1>2, <2>1, LengthsAssumption DEF TypeOK
  <1>4. BuffersExist'
    BY <1>0, <1>1, <1>2 DEF BuffersExist, TypeOK
  <1>5. OwnWrites'
    BY <1>0, <1>1, <1>2, WritesHaveSenders DEF OwnWrites
  <1>6. ToldOnce'
    BY <1>0, <1>1, <1>2 DEF HInv, ToldOnce, TypeOK
  <1>7. /\ Started' = Started \cup {s} /\ s \notin Started
        /\ Undeleted' = Undeleted \cup {s} /\ s \notin Undeleted
    BY <1>1, <1>2 DEF Started, Undeleted
  <1>8. /\ IsFiniteSet(Started')
        /\ Cardinality(Undeleted') = Cardinality(Undeleted) + 1
        /\ Cardinality(Undeleted) \in Nat
    BY <1>7, UndeletedFinite, FS_AddElement DEF HInv
  <1>9. LastHolder'
    BY <1>0, <1>1 DEF HInv, LastHolder
  <1>10. AliveIsExact'
    BY <1>0, <1>1, <1>8 DEF HInv, AliveIsExact, TypeOK
  <1> QED
    BY <1>3, <1>4, <1>5, <1>6, <1>8, <1>9, <1>10 DEF HInv

\* The script lets go of the object, by release() or with its variable.
LEMMA HDrop == ASSUME HInv, Release \/ Finalize PROVE HInv'
  <1>0. TypeOK /\ BuffersExist /\ OwnWrites
    BY DEF HInv
  <1>1. /\ refs > 0 /\ refs' = refs - 1
        /\ alive' = IF refs = 1 THEN alive - 1 ELSE alive
        /\ script' \in {script, FALSE} /\ released' \in {released, released + 1}
        /\ UNCHANGED <<main, stage, file, off, last, stream, holder, taken, queue,
                       wire, crashed, overlapped, told, gone>>
    BY DEF Release, Finalize, Scripting, Drop, response
  <1>2. TypeOK'
    <2>1. script' \in BOOLEAN
      BY <1>0, <1>1, Zenon DEF TypeOK
    <2> QED
      BY <1>0, <1>1, <2>1 DEF TypeOK
  <1>3. BuffersExist' /\ OwnWrites' /\ ToldOnce'
    BY <1>1 DEF HInv, BuffersExist, OwnWrites, ToldOnce
  <1>4. Started' = Started /\ Undeleted' = Undeleted
    BY <1>1 DEF Started, Undeleted
  <1>5. LastHolder'
    BY <1>0, <1>1 DEF HInv, LastHolder
  <1>6. AliveIsExact'
    BY <1>0, <1>1, <1>4, UndeletedFinite DEF HInv, AliveIsExact, TypeOK
  <1> QED
    BY <1>2, <1>3, <1>4, <1>5, <1>6 DEF HInv

\* The response is deleted.
LEMMA HDeleter == ASSUME HInv, Deleter PROVE HInv'
  <1>0. TypeOK /\ BuffersExist /\ OwnWrites
    BY DEF HInv
  <1>1. /\ ~Held /\ gone' = TRUE
        /\ UNCHANGED <<refs, script, released, main, stage, file, off, last, stream,
                       holder, taken, queue, wire, crashed, overlapped, told, alive>>
    BY DEF Deleter, object, response
  <1>2. refs = 0 /\ Undeleted = {}
    BY <1>0, <1>1 DEF Held, Undeleted, TypeOK
  <1>3. TypeOK' /\ BuffersExist' /\ OwnWrites' /\ ToldOnce'
    BY <1>1 DEF HInv, TypeOK, BuffersExist, OwnWrites, ToldOnce
  <1>4. Started' = Started /\ Undeleted' = Undeleted
    BY <1>1 DEF Started, Undeleted
  <1> QED
    BY <1>1, <1>2, <1>3, <1>4 DEF HInv, LastHolder, AliveIsExact

LEMMA HNext == HInv /\ [Next]_vars => HInv'
  <1> SUFFICES ASSUME HInv, [Next]_vars PROVE HInv'
    OBVIOUS
  <1>1. ASSUME ~crashed, NEW s \in Senders, SenderStep(s) PROVE HInv'
    <2>1. CASE First(s)
      BY <2>1, HSend DEF First
    <2> QED
      BY <1>1, <2>1, HMove, HReplace, HEnqueue, HCallback, HFails DEF SenderStep
  <1>2. CASE ~crashed /\ \E s \in Senders : Written(s)
    BY <1>2, HWritten
  <1>3. CASE \E s \in Senders, n \in Lengths : SendFile(s, n)
    BY <1>3, HSendFile
  <1>4. CASE WriteFails \/ Release \/ Finalize \/ Deleter
    BY <1>4, HWriteFails, HDrop, HDeleter
  <1>5. CASE UNCHANGED vars
    BY <1>5 DEF vars, object, response, HInv, TypeOK, BuffersExist, OwnWrites,
                LastHolder, Started, Undeleted, AliveIsExact, ToldOnce
  <1> QED
    BY <1>1, <1>2, <1>3, <1>4, <1>5 DEF Next

-----------------------------------------------------------------------------
\* The blocks

\* The offset of the last block that s has read, and that block.
At(s) == off[s] - last[s]
Current(s) == BlockAt(s, At(s))

\* It is not on the connection yet, or it is.
Ahead(s) == stage[s] \in {"put", "moved", "replaced", "writing"}
Arrived(s) == stage[s] \in {"popped", "freed"}

On(block) == \E i \in 1..Len(wire) : wire[i] = block

\* Where the file of s is, and what of it has gone before.
Position(s) ==
    /\ stage[s] \in {"none", "begun"} => off[s] = 0
    /\ Ahead(s) \/ Arrived(s) =>
          At(s) \in Nat /\ At(s) < file[s] /\ last[s] = ReadLength(file[s], At(s))
    /\ Ahead(s) => At(s) = 0 \/ On(BlockAt(s, At(s) - Block))
    /\ Arrived(s) => On(Current(s))
    /\ stage[s] = "freed" => last[s] # Block

Behind(s) ==
    \A i \in 1..Len(wire) :
       wire[i].of = s => wire[i].at < IF Ahead(s) THEN At(s) ELSE off[s]

\* One sender is at the stream, and every buffer has the block of its sender.
OneByOne ==
    /\ \A s, t \in AtStream : s = t
    /\ AtStream = {} => stream = <<>> /\ holder = None
    /\ \A s \in Senders : stage[s] = "put" => stream = <<Current(s)>> /\ holder = None
    /\ \A s \in Senders : stage[s] \in {"moved", "replaced"} => taken[s] = <<Current(s)>>
    /\ \A i \in 1..Len(queue) : queue[i].buffer = <<Current(queue[i].by)>>

\* A block on the connection comes once, and after the one before it.
Placed(j) ==
    /\ wire[j].at < file[wire[j].of] /\ wire[j] = BlockAt(wire[j].of, wire[j].at)
    /\ \A i \in 1..j - 1 : wire[i] # wire[j]
    /\ \/ wire[j].at = 0
       \/ \E i \in 1..j - 1 : wire[i] = BlockAt(wire[j].of, wire[j].at - Block)

InOrder ==
    /\ OneByOne
    /\ \A s \in Senders : Position(s) /\ Behind(s)
    /\ \A j \in 1..Len(wire) : Placed(j)

IInv == HInv /\ (~overlapped => InOrder)

\* What the connection has are blocks.
LEMMA WireType ==
  ASSUME TypeOK
  PROVE  /\ Len(wire) \in Nat
         /\ \A i \in 1..Len(wire) : wire[i] \in Blocks /\ wire[i].of \in Senders /\ wire[i].at \in Nat
  <1>1. wire \in Seq(Blocks)
    BY DEF TypeOK
  <1>2. ASSUME NEW i \in 1..Len(wire) PROVE wire[i] \in Blocks
    BY <1>1, ElementType
  <1> QED
    BY <1>1, <1>2 DEF Blocks

\* A read is short only at the end of the file, and empty only there.
LEMMA Reading ==
  ASSUME NEW n \in Nat, NEW o \in Nat, o <= n
  PROVE  /\ ReadLength(n, o) \in Nat
         /\ ReadLength(n, o) <= Block
         /\ o + ReadLength(n, o) <= n
         /\ ReadLength(n, o) > 0 <=> o < n
         /\ ReadLength(n, o) # Block => o + ReadLength(n, o) = n
  BY BlockAssumption DEF ReadLength

\* What another sender does leaves the file of u alone.
LEMMA OtherFile ==
  ASSUME NEW u \in Senders, Position(u), Behind(u), UNCHANGED wire,
         stage'[u] = stage[u], file'[u] = file[u], off'[u] = off[u], last'[u] = last[u]
  PROVE  Position(u)' /\ Behind(u)' /\ Current(u)' = Current(u)
  BY DEF Position, Behind, Current, At, Ahead, Arrived, On, BlockAt

LEMMA WireStays ==
  ASSUME \A j \in 1..Len(wire) : Placed(j), UNCHANGED <<wire, file>>
  PROVE  \A j \in 1..Len(wire)' : Placed(j)'
  BY DEF Placed, BlockAt

\* The first state: nothing is on the connection.
LEMMA OInit == Init => InOrder
  <1> SUFFICES ASSUME Init PROVE InOrder
    OBVIOUS
  <1>1. Len(wire) = 0 /\ Len(queue) = 0 /\ AtStream = {}
    BY DEF Init, AtStream
  <1>2. OneByOne
    BY <1>1 DEF Init, OneByOne
  <1>3. ASSUME NEW s \in Senders PROVE Position(s) /\ Behind(s)
    BY <1>1 DEF Init, Position, Behind, Ahead, Arrived
  <1> QED
    BY <1>1, <1>2, <1>3 DEF InOrder

\* A block goes into the stream where nobody else is.
LEMMA OSend ==
  ASSUME HInv, InOrder, ~overlapped', NEW s \in Senders,
         stage[s] \in {"begun", "popped"}, off[s] <= file[s],
         off[s] = 0 \/ On(BlockAt(s, off[s] - Block)),
         Send(s, off[s]), UNCHANGED <<object, file, holder, queue, wire, crashed, told, alive, gone>>
  PROVE  InOrder'
  <1>0. TypeOK /\ OwnWrites /\ OneByOne
    BY DEF HInv, InOrder
  <1>1. off[s] \in Nat /\ file[s] \in Nat /\ stage \in [Senders -> Stages]
        /\ off \in [Senders -> Nat] /\ last \in [Senders -> Nat]
    BY <1>0 DEF TypeOK
  <1>2. ~Ahead(s)
    BY DEF Ahead
  <1>3. CASE ReadLength(file[s], off[s]) > 0
    <2> DEFINE block == BlockAt(s, off[s])
    <2>1. /\ off' = [off EXCEPT ![s] = off[s] + ReadLength(file[s], off[s])]
          /\ last' = [last EXCEPT ![s] = ReadLength(file[s], off[s])]
          /\ Put(block)
          /\ AtStream = {}
          /\ stage' = [stage EXCEPT ![s] = "put"]
      BY <1>3 DEF Send, Advance, BlockAt
    <2>2. holder = None /\ stream' = <<block>> /\ UNCHANGED taken
      BY <1>0, <2>1 DEF OneByOne, Put
    <2>3. /\ off'[s] = off[s] + ReadLength(file[s], off[s])
          /\ last'[s] = ReadLength(file[s], off[s]) /\ stage'[s] = "put"
          /\ \A u \in Senders \ {s} : /\ off'[u] = off[u] /\ last'[u] = last[u]
                                      /\ stage'[u] = stage[u] /\ file'[u] = file[u]
      BY <1>1, <2>1
    <2>4. At(s)' = off[s] /\ Current(s)' = block /\ off[s] < file[s] /\ Ahead(s)' /\ ~Arrived(s)'
      BY <1>1, <1>3, <2>3, Reading DEF At, Current, BlockAt, Ahead, Arrived
    <2>5. Position(s)'
      BY <1>1, <2>3, <2>4 DEF Position, On, BlockAt
    <2>6. Behind(s)'
      BY <1>2, <2>4 DEF InOrder, Behind
    <2>7. ASSUME NEW u \in Senders \ {s}
          PROVE  Position(u)' /\ Behind(u)' /\ Current(u)' = Current(u)
      BY <2>3, OtherFile DEF InOrder
    <2>8. OneByOne'
      <3>1. AtStream' = {s}
        BY <2>1, <2>3 DEF AtStream
      <3>2. \A i \in 1..Len(queue) : queue[i].by \in Senders \ {s}
        BY <1>0, WritesHaveSenders DEF OwnWrites
      <3>3. \A i \in 1..Len(queue)' : queue'[i].buffer = <<Current(queue[i].by)'>>
        BY <1>0, <2>7, <3>2 DEF OneByOne
      <3>4. \A u \in Senders : stage'[u] = "put" => u = s
        BY <3>1 DEF AtStream
      <3>5. \A u \in Senders : stage'[u] \in {"moved", "replaced"} => taken'[u] = <<Current(u)'>>
        BY <1>0, <2>2, <2>3, <2>7 DEF OneByOne
      <3> QED
        BY <2>2, <2>4, <3>1, <3>3, <3>4, <3>5 DEF OneByOne
    <2>9. \A j \in 1..Len(wire)' : Placed(j)'
      BY WireStays DEF InOrder
    <2> QED
      BY <2>5, <2>6, <2>7, <2>8, <2>9 DEF InOrder
  <1>4. CASE ~(ReadLength(file[s], off[s]) > 0)
    <2>1. /\ stage' = [stage EXCEPT ![s] = "stuck"]
          /\ UNCHANGED <<off, last, stream, taken, overlapped>>
      BY <1>4 DEF Send
    <2>2. stage'[s] = "stuck" /\ \A u \in Senders \ {s} : stage'[u] = stage[u]
      BY <1>1, <2>1
    <2>3. Position(s)' /\ Behind(s)'
      BY <1>2, <2>1, <2>2 DEF InOrder, Position, Behind, Ahead, Arrived
    <2>4. ASSUME NEW u \in Senders \ {s}
          PROVE  Position(u)' /\ Behind(u)' /\ Current(u)' = Current(u)
      BY <2>1, <2>2, OtherFile DEF InOrder
    <2>5. Current(s)' = Current(s)
      BY <2>1 DEF Current, At, BlockAt
    <2>6. AtStream' = AtStream
      BY <2>2 DEF AtStream
    <2>7. OneByOne'
      BY <1>0, <2>1, <2>2, <2>4, <2>5, <2>6, WritesHaveSenders DEF OneByOne
    <2> QED
      BY <2>3, <2>4, <2>7, WireStays DEF InOrder
  <1> QED
    BY <1>3, <1>4

\* A sender takes its buffer to the queue.
LEMMA OAlong ==
  ASSUME HInv, InOrder, NEW s \in Senders, Move(s) \/ Replace(s) \/ Enqueue(s)
  PROVE  InOrder'
  <1>0. TypeOK /\ OwnWrites /\ OneByOne
    BY DEF HInv, InOrder
  <1>1. /\ UNCHANGED <<file, off, last, wire>>
        /\ stage \in [Senders -> Stages] /\ taken \in [Senders -> Buffers]
    BY <1>0 DEF Move, Replace, Enqueue, TypeOK
  <1>2. /\ Ahead(s) /\ Ahead(s)' /\ ~Arrived(s)' /\ ~Arrived(s)
        /\ stage'[s] \notin {"none", "begun", "freed"}
        /\ \A u \in Senders \ {s} : stage'[u] = stage[u]
    BY <1>1 DEF Move, Replace, Enqueue, Ahead, Arrived
  <1>3. \A u \in Senders : Current(u)' = Current(u)
    BY <1>1 DEF Current, At, BlockAt
  <1>4. ASSUME NEW u \in Senders PROVE Position(u)' /\ Behind(u)'
    <2>1. CASE u = s
      BY <1>1, <1>2, <2>1 DEF InOrder, Position, Behind, At, On, BlockAt
    <2>2. CASE u # s
      BY <1>1, <1>2, <2>2, OtherFile DEF InOrder
    <2> QED
      BY <2>1, <2>2
  <1>5. \A j \in 1..Len(wire)' : Placed(j)'
    BY <1>1, WireStays DEF InOrder
  <1>6. CASE Move(s)
    <2>1. /\ stage[s] = "put" /\ stage' = [stage EXCEPT ![s] = "moved"] /\ queue' = queue
          /\ holder = None /\ stream = <<Current(s)>>
      BY <1>0, <1>6 DEF Move, OneByOne
    <2>2. taken' = [taken EXCEPT ![s] = stream] /\ stream' = <<>> /\ holder' = s
      BY <1>6, <2>1 DEF Move
    <2>3. AtStream = {s} /\ AtStream' = {s}
      BY <1>0, <1>1, <2>1 DEF AtStream, OneByOne
    <2>4. \A u \in Senders : stage'[u] # "put"
      BY <1>1, <2>1, <2>3 DEF AtStream
    <2>5. \A u \in Senders : stage'[u] \in {"moved", "replaced"} => taken'[u] = <<Current(u)'>>
      BY <1>0, <1>1, <1>3, <2>1, <2>2 DEF OneByOne
    <2>6. \A i \in 1..Len(queue') : queue'[i].by \in Senders /\ queue'[i].buffer = <<Current(queue'[i].by)>>
      BY <1>0, <1>3, <2>1, WritesHaveSenders DEF OneByOne
    <2>7. OneByOne'
      BY <1>3, <2>3, <2>4, <2>5, <2>6 DEF OneByOne
    <2> QED
      BY <1>4, <1>5, <2>7 DEF InOrder
  <1>7. CASE Replace(s)
    <2>1. /\ stage[s] = "moved" /\ stage' = [stage EXCEPT ![s] = "replaced"]
          /\ stream' = <<>> /\ holder' = None /\ queue' = queue /\ taken' = taken
      BY <1>7 DEF Replace
    <2>2. AtStream = {s} /\ AtStream' = {}
      BY <1>0, <1>1, <2>1 DEF AtStream, OneByOne
    <2>3. \A u \in Senders : stage'[u] # "put"
      BY <2>2 DEF AtStream
    <2>4. \A u \in Senders : stage'[u] \in {"moved", "replaced"} => taken'[u] = <<Current(u)'>>
      BY <1>0, <1>1, <1>3, <2>1 DEF OneByOne
    <2>5. \A i \in 1..Len(queue') : queue'[i].by \in Senders /\ queue'[i].buffer = <<Current(queue'[i].by)>>
      BY <1>0, <1>3, <2>1, WritesHaveSenders DEF OneByOne
    <2>6. OneByOne'
      BY <1>3, <2>1, <2>2, <2>3, <2>4, <2>5 DEF OneByOne
    <2> QED
      BY <1>4, <1>5, <2>6 DEF InOrder
  <1>8. CASE Enqueue(s)
    <2> DEFINE entry == [buffer |-> taken[s], by |-> s]
    <2>1. /\ stage[s] = "replaced" /\ stage' = [stage EXCEPT ![s] = "writing"]
          /\ queue' = Append(queue, entry)
          /\ taken' = [taken EXCEPT ![s] = None]
          /\ UNCHANGED <<stream, holder>>
      BY <1>8 DEF Enqueue
    <2>2. entry.buffer = <<Current(s)>> /\ entry.by = s
          /\ entry \in [buffer : Buffers, by : Senders]
          /\ queue \in Seq([buffer : Buffers, by : Senders])
      BY <1>0, <1>1, <2>1 DEF OneByOne, TypeOK
    <2> HIDE DEF entry
    <2>3. /\ Len(queue') = Len(queue) + 1 /\ Len(queue) \in Nat
          /\ queue'[Len(queue) + 1] = entry
          /\ \A i \in 1..Len(queue) : queue'[i] = queue[i]
      BY <2>1, <2>2
    <2>4. AtStream' = AtStream
      BY <1>1, <2>1 DEF AtStream
    <2>5. \A u \in Senders : stage'[u] \in {"put", "moved", "replaced"} =>
             stage[u] = stage'[u] /\ taken'[u] = taken[u]
      BY <1>1, <2>1
    <2>6. \A i \in 1..Len(queue') : queue'[i].by \in Senders /\ queue'[i].buffer = <<Current(queue'[i].by)>>
      BY <1>0, <1>3, <2>2, <2>3, WritesHaveSenders DEF OneByOne
    <2>7. OneByOne'
      BY <1>0, <1>3, <2>1, <2>4, <2>5, <2>6 DEF OneByOne
    <2> QED
      BY <1>4, <1>5, <2>7 DEF InOrder
  <1> QED
    BY <1>6, <1>7, <1>8

\* A block arrives.
LEMMA OWritten ==
  ASSUME HInv, InOrder, NEW s \in Senders, Written(s) PROVE InOrder'
  <1>0. TypeOK /\ OwnWrites /\ OneByOne
    BY DEF HInv, InOrder
  <1>1. /\ queue # <<>> /\ s = Head(queue).by
        /\ stage' = [stage EXCEPT ![s] = "popped"]
        /\ wire' = wire \o Head(queue).buffer /\ queue' = Tail(queue)
        /\ UNCHANGED <<file, off, last, stream, holder, taken>>
    BY DEF Written
  <1>2. /\ queue \in Seq([buffer : Buffers, by : Senders]) /\ Len(queue) \in Nat \ {0}
        /\ Head(queue) = queue[1] /\ Len(queue') = Len(queue) - 1
        /\ \A i \in 1..Len(queue') : queue'[i] = queue[i + 1] /\ i + 1 \in 1..Len(queue)
    BY <1>0, <1>1 DEF TypeOK
  <1>3. stage[s] = "writing" /\ Head(queue).buffer = <<Current(s)>>
    BY <1>0, <1>1, <1>2 DEF OwnWrites, OneByOne
  <1>4. stage'[s] = "popped" /\ \A u \in Senders \ {s} : stage'[u] = stage[u]
    BY <1>0, <1>1 DEF TypeOK
  <1>5. \A u \in Senders : Current(u)' = Current(u) /\ At(u)' = At(u)
    BY <1>1 DEF Current, At, BlockAt
  <1>6. /\ Len(wire') = Len(wire) + 1 /\ Len(wire) \in Nat
        /\ wire'[Len(wire) + 1] = Current(s)
        /\ \A i \in 1..Len(wire) : wire'[i] = wire[i]
    <2>1. wire \in Seq(Blocks) /\ wire' = wire \o <<Current(s)>>
      BY <1>0, <1>1, <1>3 DEF TypeOK
    <2> QED
      BY <2>1
  <1>7. /\ At(s) \in Nat /\ At(s) < file[s] /\ At(s) < off[s]
        /\ At(s) = 0 \/ On(BlockAt(s, At(s) - Block))
        /\ Current(s).of = s /\ Current(s).at = At(s) /\ Current(s) = BlockAt(s, At(s))
        /\ last[s] = ReadLength(file[s], At(s))
    <2>1. Ahead(s) /\ Position(s) /\ off[s] \in Nat /\ last[s] \in Nat /\ file[s] \in Nat
      BY <1>0, <1>3 DEF InOrder, Ahead, TypeOK
    <2>2. /\ At(s) \in Nat /\ At(s) < file[s] /\ last[s] = ReadLength(file[s], At(s))
          /\ At(s) = 0 \/ On(BlockAt(s, At(s) - Block))
      BY <2>1 DEF Position
    <2>3. last[s] > 0
      BY <2>1, <2>2, Reading
    <2>4. At(s) < off[s]
      BY <2>1, <2>3 DEF At
    <2> QED
      BY <2>2, <2>4 DEF Current, BlockAt
  <1>8. \A i \in 1..Len(wire) : wire[i].of = s => wire[i].at < At(s)
    BY <1>3 DEF InOrder, Behind, Ahead
  <1>9. Position(s)'
    <2>1. On(Current(s))'
      BY <1>5, <1>6 DEF On
    <2> QED
      BY <1>1, <1>4, <1>5, <1>7, <2>1 DEF Position, Ahead, Arrived
  <1>10. Behind(s)'
    <2>1. ~Ahead(s)' /\ At(s) \in Int /\ off[s] \in Int
      BY <1>0, <1>4, <1>7 DEF Ahead, TypeOK
    <2>2. ASSUME NEW i \in 1..Len(wire'), wire'[i].of = s PROVE wire'[i].at < off[s]
      <3>1. CASE i = Len(wire) + 1
        BY <1>6, <1>7, <3>1
      <3>2. CASE i \in 1..Len(wire)
        <4>1. wire'[i] = wire[i] /\ wire[i].at \in Nat
          BY <1>0, <1>6, <3>2, WireType
        <4> QED
          BY <1>7, <1>8, <2>1, <2>2, <3>2, <4>1
      <3> QED
        BY <1>6, <3>1, <3>2
    <2> QED
      BY <1>1, <2>1, <2>2 DEF Behind
  <1>11. ASSUME NEW u \in Senders \ {s} PROVE Position(u)' /\ Behind(u)'
    <2>1. Position(u) /\ Behind(u)
      BY DEF InOrder
    <2>2. \A block : On(block) => On(block)'
      BY <1>6 DEF On
    <2>3. \A o : BlockAt(u, o)' = BlockAt(u, o)
      BY <1>1 DEF BlockAt
    <2>4. Position(u)'
      BY <1>1, <1>4, <1>5, <2>1, <2>2, <2>3 DEF Position, Ahead, Arrived
    <2>5. Behind(u)'
      BY <1>1, <1>4, <1>5, <1>6, <1>7, <2>1 DEF Behind, Ahead
    <2> QED
      BY <2>4, <2>5
  <1>12. ASSUME NEW j \in 1..Len(wire') PROVE Placed(j)'
    <2>1. \A u, o : BlockAt(u, o)' = BlockAt(u, o)
      BY <1>1 DEF BlockAt
    <2>2. CASE j \in 1..Len(wire)
      <3>1. Placed(j) /\ \A i \in 1..j : i \in 1..Len(wire)
        BY <1>6, <2>2 DEF InOrder
      <3> QED
        BY <1>1, <1>6, <2>1, <2>2, <3>1 DEF Placed
    <2>3. CASE j = Len(wire) + 1
      <3>1. j - 1 = Len(wire) /\ wire'[j] = Current(s)
        BY <1>6, <2>3
      <3>2. \A i \in 1..j - 1 : wire'[i] # wire'[j]
        <4>1. ASSUME NEW i \in 1..Len(wire), wire[i] = Current(s) PROVE FALSE
          BY <1>7, <1>8, <4>1
        <4> QED
          BY <1>6, <3>1, <4>1
      <3>3. At(s) = 0 \/ \E i \in 1..j - 1 : wire'[i] = BlockAt(s, At(s) - Block)
        BY <1>6, <1>7, <3>1 DEF On
      <3> QED
        BY <1>1, <1>7, <2>1, <3>1, <3>2, <3>3 DEF Placed
    <2> QED
      BY <1>6, <2>2, <2>3
  <1>13. OneByOne'
    <2>1. AtStream' = AtStream
      BY <1>3, <1>4 DEF AtStream
    <2>2. \A u \in Senders : stage'[u] \in {"put", "moved", "replaced"} => stage[u] = stage'[u]
      BY <1>4
    <2>3. \A i \in 1..Len(queue') : queue'[i].by \in Senders /\ queue'[i].buffer = <<Current(queue'[i].by)>>
      BY <1>0, <1>2, <1>5, WritesHaveSenders DEF OneByOne
    <2> QED
      BY <1>0, <1>1, <1>5, <2>1, <2>2, <2>3 DEF OneByOne
  <1> QED
    BY <1>9, <1>10, <1>11, <1>12, <1>13 DEF InOrder

\* A callback, a failure, and a new file.
LEMMA OCallback ==
  ASSUME HInv, InOrder, ~overlapped', NEW s \in Senders, Callback(s) PROVE InOrder'
  <1>0. TypeOK /\ OwnWrites /\ OneByOne
    BY DEF HInv, InOrder
  <1>1. stage[s] = "popped" /\ off[s] \in Nat /\ last[s] \in Nat /\ file[s] \in Nat
    BY <1>0 DEF Callback, TypeOK
  <1>2. /\ At(s) \in Nat /\ At(s) < file[s] /\ last[s] = ReadLength(file[s], At(s))
        /\ On(Current(s))
    BY <1>1 DEF InOrder, Position, Arrived
  <1>3. CASE last[s] = Block
    <2>1. off[s] <= file[s]
      BY <1>1, <1>2, Reading DEF At
    <2>2. On(BlockAt(s, off[s] - Block))
      BY <1>2, <1>3 DEF Current, At
    <2> QED
      BY <1>1, <1>3, <2>1, <2>2, OSend DEF Callback
  <1>4. CASE last[s] # Block
    <2>1. /\ stage' = [stage EXCEPT ![s] = "freed"]
          /\ UNCHANGED <<file, off, last, stream, holder, taken, queue, wire>>
      BY <1>4 DEF Callback
    <2>2. stage'[s] = "freed" /\ \A u \in Senders \ {s} : stage'[u] = stage[u]
      BY <1>0, <2>1 DEF TypeOK
    <2>3. \A u \in Senders : Current(u)' = Current(u)
      BY <2>1 DEF Current, At, BlockAt
    <2>4. Position(s)' /\ Behind(s)'
      <3>1. On(Current(s))'
        BY <1>2, <2>1, <2>3 DEF On
      <3>2. Position(s)'
        BY <1>2, <1>4, <2>1, <2>2, <3>1 DEF Position, At, Ahead, Arrived
      <3>3. Behind(s)'
        BY <1>1, <2>1, <2>2 DEF InOrder, Behind, Ahead
      <3> QED
        BY <3>2, <3>3
    <2>5. ASSUME NEW u \in Senders \ {s} PROVE Position(u)' /\ Behind(u)'
      BY <2>1, <2>2, OtherFile DEF InOrder
    <2>6. OneByOne'
      <3>1. AtStream' = AtStream
        BY <1>1, <2>2 DEF AtStream
      <3>2. \A u \in Senders : stage'[u] \in {"put", "moved", "replaced"} => stage[u] = stage'[u]
        BY <2>2
      <3> QED
        BY <1>0, <2>1, <2>3, <3>1, <3>2, WritesHaveSenders DEF OneByOne
    <2> QED
      BY <2>1, <2>4, <2>5, <2>6, WireStays DEF InOrder
  <1> QED
    BY <1>3, <1>4

LEMMA OFails ==
  ASSUME HInv, InOrder, WriteFails \/ \E s \in Senders : Fails(s) PROVE InOrder'
  <1>0. TypeOK /\ OwnWrites /\ OneByOne
    BY DEF HInv, InOrder
  <1>1. /\ UNCHANGED <<file, off, last, stream, holder, taken, wire>>
        /\ queue' \in {<<>>, queue}
        /\ \A u \in Senders : \/ stage'[u] = stage[u]
                              \/ stage[u] = "writing" /\ stage'[u] = "failing"
                              \/ stage[u] = "failing" /\ stage'[u] = "failed"
    <2>1. CASE WriteFails
      BY <1>0, <2>1 DEF WriteFails, OwnWrites
    <2>2. ASSUME NEW s \in Senders, Fails(s)
          PROVE  /\ UNCHANGED <<file, off, last, stream, holder, taken, wire, queue>>
                 /\ \A u \in Senders : \/ stage'[u] = stage[u]
                                       \/ stage[u] = "failing" /\ stage'[u] = "failed"
      BY <1>0, <2>2 DEF Fails, response, TypeOK
    <2> QED
      BY <2>1, <2>2
  <1>2. \A u \in Senders : Current(u)' = Current(u)
    BY <1>1 DEF Current, At, BlockAt
  <1>3. ASSUME NEW u \in Senders PROVE Position(u)' /\ Behind(u)'
    <2>1. CASE stage'[u] = stage[u]
      BY <1>1, <2>1, OtherFile DEF InOrder
    <2>2. CASE stage[u] \in {"writing", "failing"} /\ stage'[u] \in {"failing", "failed"}
      <3>1. Position(u)'
        BY <2>2 DEF Position, Ahead, Arrived
      <3>2. At(u) <= off[u] /\ At(u) \in Int /\ off[u] \in Int
        BY <1>0 DEF At, TypeOK
      <3>3. Behind(u)'
        BY <1>0, <1>1, <2>2, <3>2, WireType DEF InOrder, Behind, Ahead
      <3> QED
        BY <3>1, <3>3
    <2> QED
      BY <1>1, <2>1, <2>2
  <1>4. OneByOne'
    <2>1. AtStream' = AtStream
      BY <1>1 DEF AtStream
    <2>2. \A u \in Senders : stage'[u] \in {"put", "moved", "replaced"} => stage[u] = stage'[u]
      BY <1>1
    <2>3. \A i \in 1..Len(queue') : queue'[i].by \in Senders /\ queue'[i].buffer = <<Current(queue'[i].by)>>
      BY <1>0, <1>1, WritesHaveSenders DEF OneByOne
    <2> QED
      BY <1>0, <1>1, <1>2, <2>1, <2>2, <2>3 DEF OneByOne
  <1> QED
    BY <1>1, <1>3, <1>4, WireStays DEF InOrder

LEMMA OSendFile ==
  ASSUME HInv, InOrder, NEW s \in Senders, NEW n \in Lengths, SendFile(s, n)
  PROVE  InOrder'
  <1>0. TypeOK /\ OwnWrites /\ OneByOne
    BY DEF HInv, InOrder
  <1>1. /\ stage[s] = "none" /\ stage' = [stage EXCEPT ![s] = "begun"]
        /\ file' = [file EXCEPT ![s] = n]
        /\ UNCHANGED <<off, last, stream, holder, taken, queue, wire>>
    BY DEF SendFile, response
  <1>2. /\ stage'[s] = "begun"
        /\ \A u \in Senders \ {s} : stage'[u] = stage[u] /\ file'[u] = file[u]
    BY <1>0, <1>1 DEF TypeOK
  <1>3. off[s] = 0 /\ \A i \in 1..Len(wire) : wire[i].of \in Senders \ {s}
    <2>1. off[s] = 0 /\ \A i \in 1..Len(wire) : wire[i].of = s => wire[i].at < 0
      BY <1>1 DEF InOrder, Position, Behind, Ahead
    <2>2. \A i \in 1..Len(wire) : wire[i].of \in Senders /\ wire[i].at \in Nat
      BY <1>0, WireType
    <2> QED
      BY <2>1, <2>2
  <1>4. Position(s)' /\ Behind(s)'
    BY <1>1, <1>2, <1>3 DEF Position, Behind, Ahead, Arrived
  <1>5. ASSUME NEW u \in Senders \ {s}
        PROVE  Position(u)' /\ Behind(u)' /\ Current(u)' = Current(u)
    BY <1>1, <1>2, OtherFile DEF InOrder
  <1>6. ASSUME NEW j \in 1..Len(wire) PROVE Placed(j)'
    <2>1. Placed(j) /\ wire[j].of \in Senders \ {s}
      BY <1>3 DEF InOrder
    <2>2. \A o : BlockAt(wire[j].of, o)' = BlockAt(wire[j].of, o)
      BY <1>1, <1>2, <2>1 DEF BlockAt
    <2> QED
      BY <1>1, <1>2, <2>1, <2>2 DEF Placed
  <1>7. OneByOne'
    <2>1. AtStream' = AtStream
      BY <1>1, <1>2 DEF AtStream
    <2>2. \A u \in Senders : stage'[u] \in {"put", "moved", "replaced"} =>
             u # s /\ stage[u] = stage'[u]
      BY <1>2
    <2>3. \A i \in 1..Len(queue) : queue[i].by \in Senders \ {s}
      BY <1>0, <1>1, WritesHaveSenders DEF OwnWrites
    <2> QED
      BY <1>0, <1>1, <1>5, <2>1, <2>2, <2>3 DEF OneByOne
  <1> QED
    BY <1>1, <1>4, <1>5, <1>6, <1>7 DEF InOrder

\* All other steps leave the blocks alone.
LEMMA OSame ==
  ASSUME InOrder, UNCHANGED <<stage, file, off, last, stream, holder, taken, queue, wire>>
  PROVE  InOrder'
  <1>1. ASSUME NEW u \in Senders
        PROVE  Position(u)' /\ Behind(u)' /\ Current(u)' = Current(u)
    BY OtherFile DEF InOrder
  <1>2. \A u : Current(u)' = Current(u)
    BY DEF Current, At, BlockAt
  <1>3. AtStream' = AtStream
    BY DEF AtStream
  <1>4. OneByOne'
    BY <1>2, <1>3 DEF InOrder, OneByOne
  <1> QED
    BY <1>1, <1>4, WireStays DEF InOrder

LEMMA Inductive == IInv /\ [Next]_vars => IInv'
  <1> SUFFICES ASSUME IInv, [Next]_vars PROVE IInv'
    OBVIOUS
  <1>1. HInv /\ HInv'
    BY HNext DEF IInv
  <1>2. ~overlapped' => ~overlapped
    BY DEF Next, SenderStep, First, Send, Move, Replace, Enqueue, Written, Callback,
           WriteFails, Fails, SendFile, Release, Finalize, Drop, Deleter, vars
  <1>3. SUFFICES ASSUME InOrder, ~overlapped' PROVE InOrder'
    BY <1>1, <1>2 DEF IInv
  <1>4. ASSUME NEW s \in Senders, SenderStep(s) PROVE InOrder'
    <2>1. CASE First(s)
      <3>1. off[s] = 0 /\ stage[s] = "begun" /\ 0 <= file[s]
        BY <1>1, <1>3, <2>1 DEF First, InOrder, Position, HInv, TypeOK
      <3> QED
        BY <1>1, <1>3, <2>1, <3>1, OSend DEF First
    <2> QED
      BY <1>1, <1>3, <1>4, <2>1, OAlong, OCallback, OFails DEF SenderStep
  <1>5. CASE \E s \in Senders : Written(s)
    BY <1>1, <1>3, <1>5, OWritten
  <1>6. CASE \E s \in Senders, n \in Lengths : SendFile(s, n)
    BY <1>1, <1>3, <1>6, OSendFile
  <1>7. CASE WriteFails
    BY <1>1, <1>3, <1>7, OFails
  <1>8. CASE Release \/ Finalize \/ Deleter \/ UNCHANGED vars
    <2>1. UNCHANGED <<stage, file, off, last, stream, holder, taken, queue, wire>>
      BY <1>8 DEF Release, Finalize, Drop, Deleter, vars, response
    <2> QED
      BY <1>3, <2>1, OSame
  <1> QED
    BY <1>4, <1>5, <1>6, <1>7, <1>8 DEF Next

-----------------------------------------------------------------------------
\* The theorems

\* The invariant holds of every state.
THEOREM Invariance == Spec => []IInv
  <1>1. Init => IInv
    BY HInit, OInit DEF IInv
  <1> QED
    BY <1>1, Inductive, PTL DEF Spec

\* However many files a script sends on one response, each goes out block
\* after block, and to its end before its sender is deleted, until two threads
\* are at the stream at once.
THEOREM FilesGoOutInOrder == Spec => []FileInOrder
  <1>1. ASSUME HInv, InOrder PROVE FileInOrder
    <2>1. TypeOK
      BY <1>1 DEF HInv
    <2>2. ASSUME NEW s \in Senders, stage[s] = "freed"
          PROVE  \E j \in 1..Len(wire) :
                    wire[j].of = s /\ wire[j].at + wire[j].length = file[s]
      <3>1. /\ At(s) \in Nat /\ At(s) < file[s] /\ last[s] = ReadLength(file[s], At(s))
            /\ On(Current(s)) /\ last[s] # Block /\ file[s] \in Nat
        BY <1>1, <2>1, <2>2 DEF InOrder, Position, Arrived, TypeOK
      <3>2. At(s) + ReadLength(file[s], At(s)) = file[s]
        BY <3>1, Reading
      <3>3. PICK j \in 1..Len(wire) : wire[j] = Current(s)
        BY <3>1 DEF On
      <3>4. wire[j].of = s /\ wire[j].at = At(s) /\ wire[j].length = ReadLength(file[s], At(s))
        BY <3>3 DEF Current, BlockAt
      <3> QED
        BY <3>2, <3>4
    <2>3. \A j \in 1..Len(wire) : Placed(j)
      BY <1>1 DEF InOrder
    <2> QED
      BY <2>2, <2>3 DEF FileInOrder, Placed
  <1>2. IInv => FileInOrder
    BY <1>1 DEF IInv, FileInOrder
  <1> QED
    BY <1>2, Invariance, PTL

\* A file that is alone on its response does not meet another thread at the
\* stream: its callbacks come one after the other, and after the main thread
\* has put its first block into the queue.
THEOREM LoneFileInOrder ==
    ASSUME \A s, t \in Senders : s = t
    PROVE  Spec => [](FileInOrder /\ ~overlapped)
  <1>1. Init => ~overlapped
    BY DEF Init
  <1>2. ~overlapped /\ [Next]_vars => ~overlapped'
    <2> SUFFICES ASSUME ~overlapped, [Next]_vars PROVE ~overlapped'
      OBVIOUS
    <2>1. ASSUME NEW s \in Senders, stage[s] \notin {"put", "moved"} PROVE AtStream = {}
      BY <2>1 DEF AtStream
    <2>2. ASSUME NEW s \in Senders, First(s) \/ Callback(s) PROVE ~overlapped'
      BY <2>1, <2>2 DEF First, Callback, Send
    <2>3. ASSUME NEW s \in Senders, NEW n \in Lengths, SendFile(s, n) PROVE ~overlapped'
      BY <2>1, <2>3 DEF SendFile
    <2> QED
      BY <2>2, <2>3 DEF Next, SenderStep, Move, Replace, Enqueue, Written, WriteFails,
                        Fails, Release, Finalize, Drop, Deleter, vars
  <1> QED
    BY <1>1, <1>2, FilesGoOutInOrder, PTL DEF Spec

\* The connection goes on when nothing is left to send: the senders keep the
\* response, whatever the script has released.
THEOREM ResponseIsKept == Spec => []NothingIsCutOff
  <1>1. ASSUME HInv, gone
        PROVE  queue = <<>> /\ \A s \in Started : stage[s] = "freed"
    <2>1. Undeleted = {} /\ TypeOK /\ OwnWrites
      BY <1>1 DEF HInv, LastHolder
    <2>2. \A s \in Senders : stage[s] # "writing"
      BY <2>1 DEF Undeleted, Started
    <2>3. queue \in Seq([buffer : Buffers, by : Senders]) /\ Len(queue) = 0
      <3>1. \A i \in 1..Len(queue) : FALSE
        BY <2>1, <2>2, WritesHaveSenders DEF OwnWrites
      <3> QED
        BY <2>1, <3>1, WritesHaveSenders DEF TypeOK
    <2> QED
      BY <2>1, <2>3 DEF Undeleted
  <1>2. IInv => NothingIsCutOff
    BY <1>1 DEF IInv, NothingIsCutOff
  <1> QED
    BY <1>2, Invariance, PTL

\* The number of connections that a script reads is exact, also after errors,
\* early calls of release() and files that end with a full block.
THEOREM AliveCountIsExact == Spec => []AliveIsExact
  <1>1. IInv => AliveIsExact
    BY DEF IInv, HInv
  <1> QED
    BY <1>1, Invariance, PTL

\* No sender calls its callback twice: not for an error and again when it is
\* deleted.
THEOREM SenderTellsOnce == Spec => []ToldOnce
  <1>1. IInv => ToldOnce
    BY DEF IInv, HInv
  <1> QED
    BY <1>1, Invariance, PTL
=============================================================================
