--------------------------- MODULE Utility_proofs ---------------------------
(***************************************************************************)
(* Proofs about the classes of src/utility.hpp.                            *)
(*                                                                         *)
(* ScopeRunner, for any finite set of handlers and any set of callers of   *)
(* stop().  IInv is inductive: the number of holders determines `count` as *)
(* long as it is not -1, and -1 can only be written when it was 0, that    *)
(* is, when nobody held a lock.                                            *)
(*                                                                         *)
(* QueryString, for any octets and any number of fields.  QueryInv is      *)
(* inductive: what create() writes says of every character which field,    *)
(* name or value it belongs to and what comes next, and parse() and        *)
(* decode() know by it where they are.                                     *)
(***************************************************************************)
EXTENDS ScopeRunner, QueryString, FiniteSetTheorems, SequenceTheorems, TLAPS

-----------------------------------------------------------------------------
(* class ScopeRunner *)

(* The holders are finitely many, and no more than the handlers.           *)
LEMMA HoldersFinite ==
    /\ IsFiniteSet(Holders)
    /\ Cardinality(Holders) \in Nat
    /\ Cardinality(Handlers) \in Nat
    /\ Cardinality(Holders) <= Cardinality(Handlers)
<1>1. Holders \subseteq Handlers
  BY DEF Holders
<1>2. QED
  BY <1>1, HandlersAssumption, FS_Subset, FS_CardinalityType

(* A handler outside its scope leaves room for one more lock.              *)
LEMMA RoomForOne ==
  ASSUME NEW h \in Handlers, h \notin Holders
  PROVE  Cardinality(Holders) + 1 <= Cardinality(Handlers)
<1>1. IsFiniteSet(Holders) /\ Cardinality(Holders) \in Nat
  BY HoldersFinite
<1>2. Cardinality(Holders \cup {h}) = Cardinality(Holders) + 1
  BY <1>1, FS_AddElement
<1>3. Holders \cup {h} \subseteq Handlers
  BY DEF Holders
<1>4. Cardinality(Holders \cup {h}) <= Cardinality(Handlers)
  BY <1>3, HandlersAssumption, FS_Subset
<1>5. QED
  BY <1>2, <1>4

(* What each kind of step does to the set of holders.                      *)
LEMMA HoldersStep ==
  ASSUME TypeOK, NEW h \in Handlers
  PROVE  /\ Acquire(h) => Holders' = Holders \cup {h} /\ h \notin Holders
         /\ Release(h) => Holders' = Holders \ {h} /\ h \in Holders
         /\ Load(h) \/ Retry(h) \/ Refuse(h) \/ Complete(h) => Holders' = Holders
BY DEF TypeOK, Holders, Acquire, Release, Load, Retry, Refuse, Complete

(* The runner starts with no lock and a count of 0.                        *)
LEMMA InitIInv == Init => IInv
<1> SUFFICES ASSUME Init PROVE IInv
  OBVIOUS
<1>1. Holders = {}
  BY DEF Init, Holders
<1>2. Cardinality(Holders) = 0
  BY <1>1, FS_EmptySet
<1>3. TypeOK
  BY HoldersFinite DEF Init, TypeOK
<1>4. QED
  BY <1>1, <1>2, <1>3 DEF Init, IInv, CountIsHolders, StoppedIsMinusOne

(* Every step of a handler and of a caller of stop() preserves IInv.       *)
LEMMA NextIInv == IInv /\ [Next]_vars => IInv'
<1> SUFFICES ASSUME IInv, [Next]_vars PROVE IInv'
  OBVIOUS
<1> USE DEF IInv
<1> DEFINE N == Cardinality(Handlers)
<1>a. /\ IsFiniteSet(Holders)
      /\ Cardinality(Holders) \in Nat
      /\ N \in Nat
      /\ Cardinality(Holders) <= N
  BY HoldersFinite
<1>1. ASSUME NEW h \in Handlers, Load(h) PROVE IInv'
  <2>1. Holders' = Holders
    BY <1>1, HoldersStep
  <2>2. TypeOK'
    BY <1>1 DEF TypeOK, Load
  <2>3. QED
    BY <1>1, <2>1, <2>2 DEF CountIsHolders, StoppedIsMinusOne, Load
<1>2. ASSUME NEW h \in Handlers, Acquire(h) PROVE IInv'
  <2>1. Holders' = Holders \cup {h} /\ h \notin Holders
    BY <1>2, HoldersStep
  <2>2. Cardinality(Holders') = Cardinality(Holders) + 1
    BY <1>a, <2>1, FS_AddElement
  <2>3. Cardinality(Holders) + 1 <= N
    BY <2>1, RoomForOne
  <2>4. count # -1 /\ count \in Int
    BY <1>2, <1>a DEF Acquire, TypeOK
  <2>5. count' = Cardinality(Holders) + 1 /\ count' # -1
    BY <1>2, <1>a, <2>4 DEF Acquire, CountIsHolders, TypeOK
  <2>6. TypeOK'
    BY <1>2, <1>a, <2>3, <2>5 DEF TypeOK, Acquire
  <2>7. QED
    BY <1>2, <2>2, <2>4, <2>5, <2>6
    DEF CountIsHolders, StoppedIsMinusOne, Acquire
<1>3. ASSUME NEW h \in Handlers, Retry(h) PROVE IInv'
  <2>1. Holders' = Holders
    BY <1>3, HoldersStep
  <2>2. TypeOK'
    BY <1>3 DEF TypeOK, Retry
  <2>3. QED
    BY <1>3, <2>1, <2>2 DEF CountIsHolders, StoppedIsMinusOne, Retry
<1>4. ASSUME NEW h \in Handlers, Refuse(h) PROVE IInv'
  <2>1. Holders' = Holders
    BY <1>4, HoldersStep
  <2>2. TypeOK'
    BY <1>4 DEF TypeOK, Refuse
  <2>3. QED
    BY <1>4, <2>1, <2>2 DEF CountIsHolders, StoppedIsMinusOne, Refuse
<1>5. ASSUME NEW h \in Handlers, Release(h) PROVE IInv'
  <2>1. Holders' = Holders \ {h} /\ h \in Holders
    BY <1>5, HoldersStep
  <2>2. Cardinality(Holders') = Cardinality(Holders) - 1
    BY <1>a, <2>1, FS_RemoveElement
  <2>3. Cardinality(Holders') \in Nat
    BY <1>a, <2>1, FS_RemoveElement, FS_CardinalityType
  <2>4. count # -1
    BY <2>1 DEF StoppedIsMinusOne
  <2>5. count' = Cardinality(Holders') /\ count' # -1
    BY <1>5, <1>a, <2>2, <2>3, <2>4 DEF Release, CountIsHolders
  <2>6. TypeOK'
    BY <1>5, <1>a, <2>2, <2>3, <2>5 DEF TypeOK, Release
  <2>7. QED
    BY <1>5, <2>4, <2>5, <2>6
    DEF CountIsHolders, StoppedIsMinusOne, Release
<1>6. ASSUME NEW h \in Handlers, Complete(h) PROVE IInv'
  <2>1. Holders' = Holders
    BY <1>6, HoldersStep
  <2>2. TypeOK'
    BY <1>6 DEF TypeOK, Complete
  <2>3. QED
    BY <1>6, <2>1, <2>2 DEF CountIsHolders, StoppedIsMinusOne, Complete
<1>7. ASSUME NEW s \in Stoppers, StopCall(s) PROVE IInv'
  BY <1>7 DEF TypeOK, CountIsHolders, StoppedIsMinusOne, Holders, StopCall
<1>8. ASSUME NEW s \in Stoppers, StopCas(s) PROVE IInv'
  <2>1. Holders = {}
    <3>1. Cardinality(Holders) = 0
      BY <1>8 DEF StopCas, CountIsHolders
    <3>2. QED
      BY <1>a, <3>1, FS_EmptySet
  <2>2. Holders' = {} /\ count' = -1
    BY <1>8, <2>1 DEF StopCas, Holders
  <2>3. TypeOK'
    BY <1>8, <1>a DEF TypeOK, StopCas
  <2>4. QED
    BY <2>2, <2>3 DEF CountIsHolders, StoppedIsMinusOne
<1>9. ASSUME NEW s \in Stoppers, StopAlready(s) PROVE IInv'
  <2>1. count = -1
    BY <1>9, <1>a DEF StopAlready, TypeOK
  <2>2. count' = -1 /\ Holders' = Holders
    BY <1>9, <2>1 DEF StopAlready, Holders
  <2>3. TypeOK'
    BY <1>9 DEF TypeOK, StopAlready
  <2>4. QED
    BY <2>1, <2>2, <2>3 DEF CountIsHolders, StoppedIsMinusOne
<1>10. CASE UNCHANGED vars
  BY <1>10 DEF vars, TypeOK, CountIsHolders, StoppedIsMinusOne, Holders
<1>11. QED
  BY <1>1, <1>2, <1>3, <1>4, <1>5, <1>6, <1>7, <1>8, <1>9, <1>10
  DEF Next, HandlerStep, StopStep

(* The strengthening holds in every reachable state.                       *)
THEOREM Invariance == Spec => []IInv
BY InitIInv, NextIInv, PTL DEF Spec

(* Type correctness of ScopeRunner.                                        *)
THEOREM TypeCorrect == Spec => []TypeOK
<1>1. IInv => TypeOK
  BY DEF IInv
<1>2. QED
  BY <1>1, Invariance, PTL

(* The atomic count is the number of shared locks until it is -1.          *)
THEOREM CountCorrect == Spec => []CountIsHolders
<1>1. IInv => CountIsHolders
  BY DEF IInv
<1>2. QED
  BY <1>1, Invariance, PTL

(* Whatever the number of handlers and of callers, once a call of stop()   *)
(* has returned no completion handler is inside its scope.                 *)
THEOREM StopExcludesHandlers == Spec => []NobodyInsideAfterStop
<1>1. IInv => NobodyInsideAfterStop
  BY DEF IInv, StoppedIsMinusOne, NobodyInsideAfterStop
<1>2. QED
  BY <1>1, Invariance, PTL

(* The atomics implement the abstract gate: the initial state is a gate's, *)
(* and each step enters, leaves or closes the gate or does not change it.  *)
THEOREM Refinement == Spec => RefinesGate
<1>1. Init => Gate!Init
  BY DEF Init, Gate!Init, Holders
<1>2. IInv /\ [Next]_vars => [Gate!Next]_Gate!vars
  <2> SUFFICES ASSUME IInv, [Next]_vars PROVE [Gate!Next]_Gate!vars
    OBVIOUS
  <2>a. TypeOK /\ CountIsHolders /\ StoppedIsMinusOne
    BY DEF IInv
  <2>b. count \in Int /\ count >= -1
    BY <2>a, HoldersFinite DEF TypeOK
  <2>1. ASSUME NEW h \in Handlers, Acquire(h) PROVE Gate!Enter(h)
    <3>1. Holders' = Holders \cup {h} /\ h \notin Holders
      BY <2>1, <2>a, HoldersStep
    <3>2. count # -1 /\ count' # -1
      BY <2>1, <2>b DEF Acquire
    <3>3. QED
      BY <3>1, <3>2 DEF Gate!Enter
  <2>2. ASSUME NEW h \in Handlers, Release(h) PROVE Gate!Leave(h)
    <3>1. Holders' = Holders \ {h} /\ h \in Holders
      BY <2>2, <2>a, HoldersStep
    <3>2. count # -1
      BY <3>1, <2>a DEF StoppedIsMinusOne
    <3>3. count' # -1
      <4>1. Cardinality(Holders) \in Nat /\ Cardinality(Holders) # 0
        BY <3>1, HoldersFinite, FS_EmptySet
      <4>2. QED
        BY <4>1, <3>2, <2>a, <2>2 DEF CountIsHolders, Release
    <3>4. QED
      BY <3>1, <3>2, <3>3 DEF Gate!Leave
  <2>3. ASSUME NEW h \in Handlers,
               Load(h) \/ Retry(h) \/ Refuse(h) \/ Complete(h)
        PROVE  UNCHANGED Gate!vars
    <3>1. Holders' = Holders
      BY <2>3, <2>a, HoldersStep
    <3>2. count' = count
      BY <2>3 DEF Load, Retry, Refuse, Complete
    <3>3. QED
      BY <3>1, <3>2 DEF Gate!vars
  <2>4. ASSUME NEW s \in Stoppers, StopCas(s) PROVE Gate!Close
    <3>1. Holders = {}
      BY <2>4, <2>a, HoldersFinite, FS_EmptySet DEF StopCas, CountIsHolders
    <3>2. QED
      BY <2>4, <3>1 DEF StopCas, Gate!Close, Holders
  <2>5. ASSUME NEW s \in Stoppers, StopCall(s) \/ StopAlready(s)
        PROVE  UNCHANGED Gate!vars
    BY <2>5 DEF StopCall, StopAlready, Gate!vars, Holders
  <2>6. CASE UNCHANGED vars
    BY <2>6 DEF vars, Gate!vars, Holders
  <2>7. QED
    BY <2>1, <2>2, <2>3, <2>4, <2>5, <2>6
    DEF Next, HandlerStep, StopStep, Gate!Next
<1>3. QED
  BY <1>1, <1>2, Invariance, PTL DEF Spec, RefinesGate, Gate!Spec

-----------------------------------------------------------------------------
(* class QueryString *)

(* A character is left as it is, or its two digits give it back.           *)
LEMMA EncodedOctet ==
  ASSUME NEW o \in Octet
  PROVE  \/ /\ Encode(o) = <<o>>
            /\ o \notin {AMP, EQUALS, PERCENT, PLUS}
         \/ \E a, b \in Octet \ {AMP, EQUALS} :
              /\ Encode(o) = <<PERCENT, a, b>>
              /\ 16 * HexValue(a) + HexValue(b) = o
<1> DEFINE a == HexChar(o \div 16)
           b == HexChar(o % 16)
<1>1. CASE o \in Unreserved
  BY <1>1 DEF Encode, Unreserved, DigitOctets, LetterOctets, AMP, EQUALS, PERCENT, PLUS, Octet
<1>2. CASE o \notin Unreserved
  <2>1. /\ o \div 16 \in 0..15 /\ o % 16 \in 0..15
        /\ o = 16 * (o \div 16) + (o % 16)
    BY DEF Octet
  <2>2. ASSUME NEW n \in 0..15
        PROVE  HexChar(n) \in Octet \ {AMP, EQUALS} /\ HexValue(HexChar(n)) = n
    BY DEF HexChar, HexValue, DigitOctets, Octet, AMP, EQUALS
  <2>3. a \in Octet \ {AMP, EQUALS} /\ b \in Octet \ {AMP, EQUALS}
    BY <2>1, <2>2
  <2>4. 16 * HexValue(a) + HexValue(b) = o
    BY <2>1, <2>2
  <2>5. Encode(o) = <<PERCENT, a, b>>
    BY <1>2 DEF Encode
  <2> HIDE DEF a, b
  <2>6. QED
    BY <2>3, <2>4, <2>5
<1>3. QED
  BY <1>1, <1>2

(* What is written of a character: one octet or three, and no separator.   *)
LEMMA EncodeType ==
  ASSUME NEW o \in Octet
  PROVE  /\ Encode(o) \in Seq(Octet)
         /\ Len(Encode(o)) \in {1, 3}
         /\ DOMAIN Encode(o) = 1..Len(Encode(o))
         /\ \A d \in DOMAIN Encode(o) : Encode(o)[d] \notin {AMP, EQUALS}
<1>1. CASE Encode(o) = <<o>> /\ o \notin {AMP, EQUALS, PERCENT, PLUS}
  BY <1>1
<1>2. ASSUME NEW a \in Octet \ {AMP, EQUALS}, NEW b \in Octet \ {AMP, EQUALS},
             Encode(o) = <<PERCENT, a, b>>
      PROVE  /\ Encode(o) \in Seq(Octet)
             /\ Len(Encode(o)) \in {1, 3}
             /\ DOMAIN Encode(o) = 1..Len(Encode(o))
             /\ \A d \in DOMAIN Encode(o) : Encode(o)[d] \notin {AMP, EQUALS}
  BY <1>2 DEF PERCENT, Octet, AMP, EQUALS
<1>3. QED
  BY <1>1, <1>2, EncodedOctet
(* The second of two sequences begins where the first ends.                *)
LEMMA ConcatBehind ==
  ASSUME NEW S, NEW s \in Seq(S), NEW t \in Seq(S), NEW d \in 1..Len(t)
  PROVE  (s \o t)[Len(s) + d] = t[d]
OBVIOUS

Fields == Seq(FieldOf(Seq(Octet), Seq(Octet)))

(* A place in what is written, or the one before it.                       *)
Placed(fs, n, o) ==
    o = Place("separator", 1, 0, 0) \/ \E c \in Octet : IsPlace(fs, n, o, c)

(* More is written: the old places keep their meaning and their order, and *)
(* the new ones go on from the last.                                       *)
LEMMA WrittenOn ==
  ASSUME NEW fs, NEW gs, NEW n, NEW m,
         NEW text \in Seq(Octet), NEW places \in Seq(Places), Len(text) = Len(places),
         NEW more \in Seq(Octet), NEW new \in Seq(Places), Len(more) = Len(new),
         Written(fs, n, text, places),
         \A o \in Places, c \in Octet : IsPlace(fs, n, o, c) => IsPlace(gs, m, o, c),
         \A o \in Places, c \in Octet, last \in Places :
            IsPlace(fs, n, o, c) /\ Placed(fs, n, last) /\ o = NextPlace(fs, last)
              => o = NextPlace(gs, last),
         \A d \in 1..Len(new) : IsPlace(gs, m, new[d], more[d]),
         Len(new) # 0 => new[1] = NextPlace(gs, PlaceAt(places, Len(places))),
         \A d \in 2..Len(new) : new[d] = NextPlace(gs, new[d - 1])
  PROVE  Written(gs, m, text \o more, places \o new)
<1> DEFINE all == places \o new
<1>1. /\ all \in Seq(Places) /\ Len(all) = Len(places) + Len(new)
      /\ \A p \in 1..Len(places) : all[p] = places[p] /\ (text \o more)[p] = text[p]
  BY ConcatProperties
<1>2. \A d \in 1..Len(new) : /\ all[Len(places) + d] = new[d]
                             /\ (text \o more)[Len(places) + d] = more[d]
  BY ConcatBehind
<1> SUFFICES ASSUME NEW p \in 1..Len(all)
             PROVE  /\ IsPlace(gs, m, all[p], (text \o more)[p])
                    /\ all[p] = NextPlace(gs, PlaceAt(all, p - 1))
  BY DEF Written
<1>3. PlaceAt(places, 0) \in Places
  BY DEF PlaceAt, Places, Place
<1> HIDE DEF all
<1>4. CASE p \in 1..Len(places)
  <2>1. /\ places[p] \in Places /\ text[p] \in Octet /\ PlaceAt(places, p - 1) \in Places
        /\ PlaceAt(all, p - 1) = PlaceAt(places, p - 1)
    <3>1. places[p] \in Places /\ text[p] \in Octet
      BY <1>4
    <3>2. CASE p = 1
      BY <1>3, <3>1, <3>2 DEF PlaceAt
    <3>3. CASE p # 1
      <4>1. p - 1 \in 1..Len(places) /\ p - 1 # 0
        BY <1>4, <3>3
      <4>2. places[p - 1] \in Places /\ all[p - 1] = places[p - 1]
        BY <1>1, <4>1
      <4>3. QED
        BY <3>1, <4>1, <4>2 DEF PlaceAt
    <3>4. QED
      BY <3>2, <3>3
  <2>2. /\ IsPlace(fs, n, places[p], text[p])
        /\ places[p] = NextPlace(fs, PlaceAt(places, p - 1))
    BY <1>4 DEF Written
  <2>3. Placed(fs, n, PlaceAt(places, p - 1))
    <3>1. CASE p = 1
      BY <3>1 DEF PlaceAt, Placed
    <3>2. CASE p # 1
      <4>1. p - 1 \in 1..Len(places) /\ p - 1 # 0
        BY <1>4, <3>2
      <4>2. text[p - 1] \in Octet
        BY <4>1
      <4>3. QED
        BY <4>1, <4>2 DEF Written, PlaceAt, Placed
    <3>3. QED
      BY <3>1, <3>2
  <2>4. QED
    BY <1>1, <1>4, <2>1, <2>2, <2>3
<1>5. CASE p \notin 1..Len(places)
  <2>1. PICK d \in 1..Len(new) : p = Len(places) + d
    <3>1. p - Len(places) \in 1..Len(new) /\ p = Len(places) + (p - Len(places))
      BY <1>1, <1>5
    <3>2. QED
      BY <3>1
  <2>2. IsPlace(gs, m, all[p], (text \o more)[p])
    BY <1>2, <2>1
  <2>3. CASE d = 1
    <3>1. p - 1 = Len(places)
      BY <2>1, <2>3
    <3>2. PlaceAt(all, p - 1) = PlaceAt(places, Len(places))
      BY <1>1, <3>1 DEF PlaceAt
    <3>3. QED
      BY <1>2, <2>1, <2>2, <2>3, <3>2
  <2>4. CASE d # 1
    <3>1. d - 1 \in 1..Len(new) /\ p - 1 = Len(places) + (d - 1) /\ p - 1 # 0 /\ d \in 2..Len(new)
      BY <2>1, <2>4
    <3>2. PlaceAt(all, p - 1) = new[d - 1]
      BY <1>2, <3>1 DEF PlaceAt
    <3>3. QED
      BY <1>2, <2>1, <2>2, <3>1, <3>2
  <2>5. QED
    BY <2>3, <2>4
<1>6. QED
  BY <1>4, <1>5

(* The last place is of what has been written.                             *)
LEMMA LastType ==
  ASSUME WrittenInv
  PROVE  LET last == PlaceAt(origin, Len(origin))
             n == IF loop = "name" THEN Len(fields) - 1 ELSE Len(fields)
         IN  /\ last \in Places
             /\ Placed(fields, n, last)
<1>1. Place("separator", 1, 0, 0) \in Places
  BY DEF Places, Place
<1>2. origin \in Seq(Places) /\ query \in Seq(Octet) /\ Len(query) = Len(origin)
  BY DEF WrittenInv, WrittenType
<1>3. CASE Len(origin) = 0
  BY <1>1, <1>3 DEF PlaceAt, Placed
<1>4. CASE Len(origin) # 0
  <2>1. Len(origin) \in 1..Len(origin)
    BY <1>2, <1>4
  <2>2. origin[Len(origin)] \in Places /\ query[Len(origin)] \in Octet
    BY <1>2, <2>1
  <2>3. QED
    BY <1>4, <2>1, <2>2 DEF PlaceAt, WrittenInv, Written, Placed
<1>5. QED
  BY <1>3, <1>4

(* Only a separator stands for an '&', and only an '=' for itself.         *)
LEMMA KindOfPlace ==
  ASSUME NEW fs \in Fields, NEW n \in 0..Len(fs), NEW o \in Places, NEW c \in Octet,
         IsPlace(fs, n, o, c)
  PROVE  /\ o.field \in 1..Len(fs)
         /\ o.kind = "separator" => o.field \in 2..Len(fs) /\ c = AMP
         /\ o.kind = "name" => IsName(fs, o, c)
         /\ o.kind = "equals" => o.field \in 1..n /\ c = EQUALS
         /\ o.kind = "value" => IsValue(fs, n, o, c)
<1>1. CASE IsSeparator(fs, o, c)
  BY <1>1 DEF IsSeparator, Place, Fields
<1>2. CASE IsName(fs, o, c)
  BY <1>2 DEF IsName, Place
<1>3. CASE IsEquals(n, o, c)
  BY <1>3 DEF IsEquals, Place, Fields
<1>4. CASE IsValue(fs, n, o, c)
  <2>1. o.kind = "value" /\ o.field \in 1..n
    BY <1>4 DEF IsValue, Place
  <2>2. QED
    BY <1>4, <2>1 DEF Fields
<1>5. QED
  BY <1>1, <1>2, <1>3, <1>4 DEF IsPlace

(* What follows is of the same field, or it is the separator behind it.    *)
LEMMA NextPlaceField ==
  ASSUME NEW fs, NEW o \in Places
  PROVE  \/ /\ NextPlace(fs, o).field = o.field
            /\ NextPlace(fs, o).kind \in {"name", "equals", "value"}
         \/ NextPlace(fs, o) = Place("separator", o.field + 1, 0, 0)
<1>1. o.kind \in {"separator", "name", "equals", "value"}
  BY DEF Places
<1>2. ASSUME NEW k, NEW j
      PROVE  /\ NameFrom(fs, k, j).field = k
             /\ NameFrom(fs, k, j).kind \in {"name", "equals"}
             /\ \/ ValueFrom(fs, k, j).field = k /\ ValueFrom(fs, k, j).kind = "value"
                \/ ValueFrom(fs, k, j) = Place("separator", k + 1, 0, 0)
  BY DEF NameFrom, ValueFrom, Place
<1>3. ASSUME NEW k, NEW j, NEW d
      PROVE  Place("value", k, j, d).field = k /\ Place("value", k, j, d).kind = "value"
  BY DEF Place
<1>4. QED
  BY <1>1, <1>2, <1>3 DEF NextPlace

(* A field's name and value are texts.                                     *)
LEMMA FieldType ==
  ASSUME NEW fs \in Fields, NEW i \in 1..Len(fs)
  PROVE  /\ fs[i] \in FieldOf(Seq(Octet), Seq(Octet))
         /\ fs[i].name \in Seq(Octet) /\ fs[i].value \in Seq(Octet)
<1>1. fs[i] \in FieldOf(Seq(Octet), Seq(Octet))
  BY DEF Fields
<1>2. QED
  BY <1>1 DEF FieldOf

(* A place that follows one of a known field is of that field or behind it. *)
LEMMA FieldBefore ==
  ASSUME NEW fs \in Fields, NEW n \in 0..Len(fs), NEW o \in Places, NEW c \in Octet,
         IsPlace(fs, n, o, c), NEW before \in Places, o = NextPlace(fs, before)
  PROVE  before.field \in 1..Len(fs)
<1>1. o.field \in 1..Len(fs) /\ (o.kind = "separator" => o.field \in 2..Len(fs))
  BY KindOfPlace
<1>2. before.field \in Nat /\ Len(fs) \in Nat
  BY DEF Places, Fields
<1>3. CASE o = Place("separator", before.field + 1, 0, 0)
  BY <1>1, <1>2, <1>3 DEF Place
<1>4. CASE o.field = before.field
  BY <1>1, <1>4
<1>5. QED
  BY <1>3, <1>4, NextPlaceField

(* for(auto &field : fields) of create().                                  *)
LEMMA NextFieldWritten == WrittenInv /\ NextField => WrittenInv'
<1> SUFFICES ASSUME WrittenInv, NextField PROVE WrittenInv'
  OBVIOUS
<1> DEFINE k == Len(fields)
           last == PlaceAt(origin, Len(origin))
           text == IF fields = <<>> THEN <<>> ELSE <<AMP>>
           places == IF fields = <<>> THEN <<>> ELSE <<Place("separator", k + 1, 0, 0)>>
<1>0. k \in Nat /\ WrittenType /\ fields \in Fields /\ (fields = <<>> <=> k = 0)
  BY DEF WrittenInv, WrittenType, Fields
<1>1. /\ text \in Seq(Octet) /\ places \in Seq(Places) /\ Len(text) = Len(places)
      /\ query' = query \o text /\ origin' = origin \o places
  <2>1. CASE fields = <<>>
    <3>1. text = <<>> /\ places = <<>>
      BY <2>1
    <3> HIDE DEF text, places
    <3>2. <<>> \in Seq(Octet) /\ <<>> \in Seq(Places)
      OBVIOUS
    <3>3. Write(<<>>, <<>>)
      BY <2>1 DEF NextField
    <3>4. QED
      BY <3>1, <3>2, <3>3 DEF Write
  <2>2. CASE fields # <<>>
    <3>1. Place("separator", k + 1, 0, 0) \in Places
      BY <1>0 DEF Places, Place
    <3>2. text = <<AMP>> /\ places = <<Place("separator", k + 1, 0, 0)>>
      BY <2>2
    <3>3. Write(<<AMP>>, <<Place("separator", k + 1, 0, 0)>>)
      BY <2>2 DEF NextField, Current
    <3> HIDE DEF text, places
    <3>4. QED
      BY <3>1, <3>2, <3>3 DEF Write, AMP, Octet
  <2>3. QED
    BY <2>1, <2>2
<1>2. /\ fields' \in Fields
      /\ Len(fields') = k + 1
      /\ \A i \in 1..k : fields'[i] = fields[i]
      /\ fields'[k + 1].name = <<>> /\ fields'[k + 1].value = <<>>
      /\ loop' = "name" /\ loop # "name" /\ loop \in {"create", "value"}
  BY <1>0 DEF NextField, WrittenType, FieldOf, Fields
<1>3. /\ Written(fields, k, query, origin)
      /\ fields # <<>> => NextPlace(fields, last) = Place("separator", k + 1, 0, 0)
      /\ fields = <<>> => origin = <<>>
      /\ last \in Places
  BY <1>2, LastType DEF WrittenInv, LastPlace
<1> HIDE DEF text, places, k, last
<1>4. k = Len(fields)
  BY DEF k
<1>5. ASSUME NEW o \in Places, NEW c \in Octet, IsPlace(fields, k, o, c)
      PROVE  IsPlace(fields', k, o, c) /\ o.field \in 1..k
  <2>1. CASE IsSeparator(fields, o, c)
    BY <1>0, <1>2, <1>4, <2>1 DEF IsPlace, IsSeparator
  <2>2. CASE IsName(fields, o, c)
    BY <1>0, <1>2, <1>4, <2>2 DEF IsPlace, IsName
  <2>3. CASE IsEquals(k, o, c)
    BY <2>3 DEF IsPlace, IsEquals
  <2>4. CASE IsValue(fields, k, o, c)
    BY <1>0, <1>2, <1>4, <2>4 DEF IsPlace, IsValue
  <2>5. QED
    BY <1>5, <2>1, <2>2, <2>3, <2>4 DEF IsPlace
<1>6. ASSUME NEW o \in Places, NEW c \in Octet, NEW before \in Places,
             IsPlace(fields, k, o, c) /\ o = NextPlace(fields, before)
      PROVE  o = NextPlace(fields', before)
  <2>1. before.field \in 1..k
    <3>1. fields \in Fields /\ k \in 0..Len(fields)
      BY <1>0, <1>4
    <3>2. QED
      BY <1>4, <1>6, <3>1, FieldBefore
  <2>2. fields'[before.field] = fields[before.field]
    BY <1>2, <2>1
  <2>3. QED
    BY <1>6, <2>2 DEF NextPlace, NameFrom, ValueFrom
<1>7. Written(fields', k, query', origin')
  <2>1. CASE fields = <<>>
    BY <1>0, <1>1, <1>3, <2>1 DEF text, places, Written, WrittenType
  <2>2. CASE fields # <<>>
    <3>0. k # 0 /\ text = <<AMP>> /\ places = <<Place("separator", k + 1, 0, 0)>>
      BY <1>0, <2>2 DEF text, places
    <3>1. \A d \in 1..Len(places) : IsPlace(fields', k, places[d], text[d])
      BY <1>0, <1>2, <3>0 DEF IsPlace, IsSeparator, Place
    <3>2. places[1] = NextPlace(fields', last)
      <4>1. last.field \in 1..k
        BY <1>0, <1>3, <2>2, <3>0, NextPlaceField DEF Places, Place
      <4>2. NextPlace(fields', last) = NextPlace(fields, last)
        BY <1>2, <4>1 DEF NextPlace, NameFrom, ValueFrom
      <4>3. QED
        BY <1>3, <2>2, <3>0, <4>2
    <3>3. \A d \in 2..Len(places) : places[d] = NextPlace(fields', places[d - 1])
      BY <3>0
    <3>4. /\ query \in Seq(Octet) /\ origin \in Seq(Places) /\ Len(query) = Len(origin)
          /\ Len(text) = Len(places)
      BY <1>0, <1>1 DEF WrittenType
    <3>5. QED
      BY <1>1, <1>3, <1>5, <1>6, <3>1, <3>2, <3>3, <3>4, WrittenOn DEF last
  <2>3. QED
    BY <2>1, <2>2
<1>8. WrittenType'
  <2>1. query' \in Seq(Octet) /\ origin' \in Seq(Places) /\ Len(origin') = Len(query')
    <3>1. /\ query \in Seq(Octet) /\ origin \in Seq(Places) /\ Len(query) = Len(origin)
          /\ Len(text) = Len(places)
      BY <1>0, <1>1 DEF WrittenType
    <3>2. query \o text \in Seq(Octet) /\ Len(query \o text) = Len(query) + Len(text)
      BY <1>1, <3>1, ConcatProperties
    <3>3. origin \o places \in Seq(Places) /\ Len(origin \o places) = Len(origin) + Len(places)
      BY <1>1, <3>1, ConcatProperties
    <3>4. QED
      BY <1>1, <3>1, <3>2, <3>3
  <2>2. QED
    BY <1>2, <2>1 DEF WrittenType, Fields
<1>9. LastPlace'
  <2>1. NextPlace(fields', PlaceAt(origin', Len(origin'))) = Place("equals", k + 1, 0, 0)
    <3>1. NextPlace(fields', Place("separator", k + 1, 0, 0)) = Place("equals", k + 1, 0, 0)
      BY <1>2 DEF NextPlace, NameFrom, Place
    <3>2. PlaceAt(origin', Len(origin')) = Place("separator", k + 1, 0, 0)
      <4>1. CASE fields = <<>>
        BY <1>0, <1>1, <1>3, <4>1 DEF places, PlaceAt
      <4>2. CASE fields # <<>>
        BY <1>0, <1>1, <4>2 DEF places, PlaceAt, WrittenType
      <4>3. QED
        BY <4>1, <4>2
    <3>3. QED
      BY <3>1, <3>2
  <2>2. fields' # <<>>
    <3>1. Len(fields') # Len(<<>>)
      BY <1>0, <1>2
    <3>2. QED
      BY <3>1
  <2>3. QED
    BY <1>2, <2>1, <2>2 DEF LastPlace
<1>10. QED
  <2>1. Len(fields') - 1 = k
    BY <1>0, <1>2
  <2>2. QED
    BY <1>2, <1>7, <1>8, <1>9, <2>1 DEF WrittenInv

(* The lengths of what has been written.                                   *)
LEMMA WriteLengths ==
  ASSUME WrittenInv, NEW text \in Seq(Octet), NEW places \in Seq(Places),
         Len(text) = Len(places), Write(text, places)
  PROVE  /\ query' = query \o text /\ origin' = origin \o places
         /\ query \in Seq(Octet) /\ origin \in Seq(Places) /\ Len(query) = Len(origin)
         /\ query' \in Seq(Octet) /\ origin' \in Seq(Places) /\ Len(query') = Len(origin')
         /\ Len(origin') = Len(origin) + Len(places)
<1>1. /\ query \in Seq(Octet) /\ origin \in Seq(Places) /\ Len(query) = Len(origin)
      /\ query' = query \o text /\ origin' = origin \o places
  BY DEF WrittenInv, WrittenType, Write
<1>2. query \o text \in Seq(Octet) /\ Len(query \o text) = Len(query) + Len(text)
  BY <1>1, ConcatProperties
<1>3. origin \o places \in Seq(Places) /\ Len(origin \o places) = Len(origin) + Len(places)
  BY <1>1, ConcatProperties
<1>4. QED
  BY <1>1, <1>2, <1>3

(* A character of a name.                                                  *)
LEMMA WriteNameWritten == ASSUME NEW c \in Octet PROVE WrittenInv /\ WriteName(c) => WrittenInv'
<1> SUFFICES ASSUME WrittenInv, WriteName(c) PROVE WrittenInv'
  OBVIOUS
<1> DEFINE k == Len(fields)
           last == PlaceAt(origin, Len(origin))
           name == fields[k].name
           place == Place("name", k, Len(name) + 1, 1)
<1>0. /\ k \in Nat \ {0} /\ WrittenType /\ fields \in Fields
      /\ loop = "name" /\ loop' = "name"
  BY DEF WrittenInv, WrittenType, Fields, LastPlace, WriteName
<1>1. fields[k] \in FieldOf(Seq(Octet), Seq(Octet)) /\ name \in Seq(Octet)
  BY <1>0, FieldType
<1>2. place \in Places
  BY <1>0, <1>1 DEF Places, Place
<1>3. /\ query' = query \o <<c>> /\ origin' = origin \o <<place>>
      /\ query \in Seq(Octet) /\ origin \in Seq(Places) /\ Len(query) = Len(origin)
      /\ query' \in Seq(Octet) /\ origin' \in Seq(Places) /\ Len(query') = Len(origin')
      /\ Len(origin') = Len(origin) + 1
  <2>1. Write(<<c>>, <<place>>)
    BY DEF WriteName, Current
  <2> HIDE DEF place
  <2>2. /\ <<c>> \in Seq(Octet) /\ <<place>> \in Seq(Places)
        /\ Len(<<c>>) = 1 /\ Len(<<place>>) = 1
    BY <1>2
  <2>3. QED
    BY <2>1, <2>2, WriteLengths
<1>4. /\ fields' \in Fields
      /\ Len(fields') = k
      /\ \A i \in 1..k : /\ fields'[i].value = fields[i].value
                         /\ i # k => fields'[i].name = fields[i].name
      /\ fields'[k].name = Append(name, c)
  <2> DEFINE field == [fields[k] EXCEPT !.name = Append(name, c)]
  <2>1. /\ field \in FieldOf(Seq(Octet), Seq(Octet))
        /\ field.name = Append(name, c) /\ field.value = fields[k].value
    <3>1. Append(name, c) \in Seq(Octet)
      BY <1>1
    <3>2. QED
      BY <1>1, <3>1 DEF FieldOf
  <2> HIDE DEF field
  <2>2. fields' = [fields EXCEPT ![k] = field]
    BY DEF WriteName, Current, field
  <2>3. QED
    BY <1>0, <2>1, <2>2 DEF Fields
<1>5. /\ Len(fields'[k].name) = Len(name) + 1
      /\ fields'[k].name[Len(name) + 1] = c
      /\ \A i \in 1..Len(name) : fields'[k].name[i] = name[i]
  BY <1>1, <1>4
<1>6. /\ Written(fields, k - 1, query, origin)
      /\ NextPlace(fields, last) = Place("equals", k, 0, 0)
      /\ last \in Places
      /\ Placed(fields, k - 1, last)
      /\ fields[k].value = <<>>
  BY <1>0, LastType DEF WrittenInv, LastPlace
<1> HIDE DEF k, last, name, place
<1>7. k = Len(fields) /\ name = fields[k].name /\ place = Place("name", k, Len(name) + 1, 1)
  BY DEF k, name, place
<1>8. \A i \in 1..k : \A j \in 1..Len(fields[i].name) :
         j \in 1..Len(fields'[i].name) /\ fields'[i].name[j] = fields[i].name[j]
  <2>1. ASSUME NEW i \in 1..k, i # k, NEW j \in 1..Len(fields[i].name)
        PROVE  j \in 1..Len(fields'[i].name) /\ fields'[i].name[j] = fields[i].name[j]
    BY <1>4, <2>1
  <2>2. ASSUME NEW j \in 1..Len(name)
        PROVE  j \in 1..Len(fields'[k].name) /\ fields'[k].name[j] = name[j]
    BY <1>1, <1>5
  <2>3. QED
    BY <1>7, <2>1, <2>2
<1>9. ASSUME NEW o \in Places, NEW d \in Octet, IsPlace(fields, k - 1, o, d)
      PROVE  IsPlace(fields', k - 1, o, d)
  <2>1. CASE IsSeparator(fields, o, d)
    BY <1>4, <1>7, <2>1 DEF IsPlace, IsSeparator
  <2>2. CASE IsName(fields, o, d)
    BY <1>4, <1>7, <1>8, <2>2 DEF IsPlace, IsName
  <2>3. CASE IsEquals(k - 1, o, d)
    BY <2>3 DEF IsPlace, IsEquals
  <2>4. CASE IsValue(fields, k - 1, o, d)
    <3>1. o.field \in 1..k
      BY <1>0, <1>7, <2>4 DEF IsValue
    <3>2. fields'[o.field].value = fields[o.field].value
      BY <1>4, <3>1
    <3>3. QED
      BY <2>4, <3>2 DEF IsPlace, IsValue
  <2>5. QED
    BY <1>9, <2>1, <2>2, <2>3, <2>4 DEF IsPlace
<1>10. ASSUME NEW o \in Places, NEW d \in Octet, NEW before \in Places,
              IsPlace(fields, k - 1, o, d) /\ o = NextPlace(fields, before)
       PROVE  o = NextPlace(fields', before)
  <2>1. fields \in Fields /\ k - 1 \in 0..Len(fields)
    BY <1>0, <1>7
  <2>2. before.field \in 1..k
    BY <1>7, <1>10, <2>1, FieldBefore
  <2>3. fields'[before.field].value = fields[before.field].value
    BY <1>4, <2>2
  <2>4. o # Place("equals", k, 0, 0)
    BY <1>0, <1>7, <1>10, <2>1, KindOfPlace DEF Place
  <2>5. ASSUME NEW j \in Nat, NameFrom(fields, before.field, j) # Place("equals", k, 0, 0)
        PROVE  NameFrom(fields', before.field, j) = NameFrom(fields, before.field, j)
    BY <1>1, <1>4, <1>5, <1>7, <2>2, <2>5 DEF NameFrom
  <2>6. before.index \in Nat /\ before.kind \in {"separator", "name", "equals", "value"}
    BY DEF Places
  <2>7. QED
    BY <1>10, <2>3, <2>4, <2>5, <2>6 DEF NextPlace, ValueFrom
<1>11. place = NextPlace(fields', last)
  <2>1. last.kind \in {"separator", "name", "equals", "value"} /\ last.index \in Nat
    BY <1>6 DEF Places
  <2>2. ASSUME NEW i, NEW j \in Nat, NameFrom(fields, i, j) = Place("equals", k, 0, 0)
        PROVE  i = k /\ j > Len(name)
    BY <1>1, <1>7, <2>2 DEF NameFrom, Place
  <2>3. ASSUME NEW i, NEW j PROVE ValueFrom(fields, i, j) # Place("equals", k, 0, 0)
    BY DEF ValueFrom, Place
  <2>4. CASE last.kind = "separator"
    <3>1. NameFrom(fields, last.field, 1) = Place("equals", k, 0, 0)
      BY <1>6, <2>4 DEF NextPlace
    <3>2. last.field = k /\ Len(name) = 0
      BY <1>1, <2>2, <3>1
    <3>3. NameFrom(fields', k, 1) = place
      BY <1>5, <1>7, <3>2 DEF NameFrom
    <3>4. QED
      BY <2>4, <3>2, <3>3 DEF NextPlace
  <2>5. CASE last.kind = "name"
    <3>1. NameFrom(fields, last.field, last.index + 1) = Place("equals", k, 0, 0)
      BY <1>6, <2>5 DEF NextPlace
    <3>2. last.field = k /\ last.index + 1 > Len(name)
      BY <1>1, <2>1, <2>2, <3>1
    <3>3. last.index \in 1..Len(name)
      <4>1. PICK d \in Octet : IsPlace(fields, k - 1, last, d)
        BY <1>6, <2>5 DEF Place, Placed
      <4>2. IsName(fields, last, d)
        <5>1. fields \in Fields /\ k - 1 \in 0..Len(fields)
          BY <1>0, <1>7
        <5>2. QED
          BY <1>6, <2>5, <4>1, <5>1, KindOfPlace
      <4>3. QED
        BY <1>7, <3>2, <4>2 DEF IsName
    <3>4. last.index = Len(name)
      BY <1>1, <3>2, <3>3
    <3>5. NameFrom(fields', k, Len(name) + 1) = place
      BY <1>1, <1>5, <1>7 DEF NameFrom
    <3>6. QED
      BY <2>5, <3>2, <3>4, <3>5 DEF NextPlace
  <2>6. CASE last.kind = "equals"
    BY <1>6, <2>3, <2>6 DEF NextPlace
  <2>7. CASE last.kind = "value"
    <3>1. Place("value", last.field, last.index, last.digit + 1) # Place("equals", k, 0, 0)
      BY DEF Place
    <3>2. QED
      BY <1>6, <2>3, <2>7, <3>1 DEF NextPlace
  <2>8. QED
    BY <2>1, <2>4, <2>5, <2>6, <2>7
<1>12. IsPlace(fields', k - 1, place, c)
  <2>1. /\ place.field = k /\ place.index = Len(name) + 1
        /\ place = Place("name", place.field, place.index, 1)
    BY <1>7 DEF Place
  <2>2. /\ Len(name) + 1 \in 1..Len(fields'[k].name) /\ k \in 1..Len(fields')
        /\ c = fields'[k].name[Len(name) + 1]
    BY <1>0, <1>1, <1>4, <1>5
  <2>3. QED
    BY <2>1, <2>2 DEF IsPlace, IsName
<1>13. Written(fields', k - 1, query', origin')
  <2> DEFINE more == <<c>>
             new == <<place>>
  <2>1. /\ more \in Seq(Octet) /\ new \in Seq(Places)
        /\ Len(more) = 1 /\ Len(new) = 1 /\ new[1] = place /\ more[1] = c
        /\ query' = query \o more /\ origin' = origin \o new
    BY <1>2, <1>3
  <2> HIDE DEF more, new
  <2>2. \A d \in 1..Len(new) : IsPlace(fields', k - 1, new[d], more[d])
    BY <1>12, <2>1
  <2>3. \A d \in 2..Len(new) : new[d] = NextPlace(fields', new[d - 1])
    BY <2>1
  <2>4. Len(new) # 0 => new[1] = NextPlace(fields', PlaceAt(origin, Len(origin)))
    BY <1>11, <2>1 DEF last
  <2>5. \A o \in Places, d \in Octet, before \in Places :
           IsPlace(fields, k - 1, o, d) /\ o = NextPlace(fields, before)
             => o = NextPlace(fields', before)
    BY <1>10
  <2>6. /\ Written(fields, k - 1, query, origin) /\ Len(more) = Len(new)
        /\ query \in Seq(Octet) /\ origin \in Seq(Places) /\ Len(query) = Len(origin)
    BY <1>3, <1>6, <2>1
  <2>7. Written(fields', k - 1, query \o more, origin \o new)
    BY <1>9, <2>1, <2>2, <2>3, <2>4, <2>5, <2>6, WrittenOn
  <2>8. QED
    BY <2>1, <2>7
<1>14. NextPlace(fields', place) = Place("equals", k, 0, 0)
  BY <1>0, <1>1, <1>5, <1>7 DEF NextPlace, NameFrom, Place
<1>15. PlaceAt(origin', Len(origin')) = place
  BY <1>2, <1>3 DEF PlaceAt
<1>16. WrittenType' /\ LastPlace'
  <2>1. WrittenType'
    BY <1>0, <1>3, <1>4 DEF WrittenType, Fields
  <2>2. fields' # <<>> /\ fields'[k].value = <<>>
    BY <1>0, <1>4, <1>6
  <2>3. QED
    BY <1>0, <1>4, <1>14, <1>15, <2>1, <2>2 DEF LastPlace
<1>17. QED
  BY <1>0, <1>4, <1>13, <1>16 DEF WrittenInv

(* The '=' behind a name.                                                  *)
LEMMA WriteEqualsWritten == WrittenInv /\ WriteEquals => WrittenInv'
<1> SUFFICES ASSUME WrittenInv, WriteEquals PROVE WrittenInv'
  OBVIOUS
<1> DEFINE k == Len(fields)
           last == PlaceAt(origin, Len(origin))
           place == Place("equals", k, 0, 0)
           more == <<EQUALS>>
           new == <<place>>
<1>0. /\ k \in Nat \ {0} /\ WrittenType /\ fields \in Fields /\ fields # <<>>
      /\ loop = "name" /\ loop' = "value" /\ fields' = fields
  BY DEF WrittenInv, WrittenType, Fields, LastPlace, WriteEquals
<1>1. place \in Places
  BY <1>0 DEF Places, Place
<1>2. /\ more \in Seq(Octet) /\ new \in Seq(Places)
      /\ Len(more) = 1 /\ Len(new) = 1 /\ new[1] = place /\ more[1] = EQUALS
      /\ Write(more, new)
  <2>1. Write(more, new)
    BY DEF WriteEquals, Current
  <2> HIDE DEF place
  <2>2. QED
    BY <1>1, <2>1 DEF EQUALS, Octet
<1> HIDE DEF more, new
<1>3. /\ query' = query \o more /\ origin' = origin \o new
      /\ query \in Seq(Octet) /\ origin \in Seq(Places) /\ Len(query) = Len(origin)
      /\ query' \in Seq(Octet) /\ origin' \in Seq(Places) /\ Len(query') = Len(origin')
      /\ Len(origin') = Len(origin) + 1
  BY <1>2, WriteLengths
<1>4. /\ Written(fields, k - 1, query, origin)
      /\ NextPlace(fields, last) = place
      /\ fields[k].value = <<>>
  BY <1>0 DEF WrittenInv, LastPlace
<1> HIDE DEF k, last
<1>5. k = Len(fields)
  BY DEF k
<1>6. ASSUME NEW o \in Places, NEW d \in Octet, IsPlace(fields, k - 1, o, d)
      PROVE  IsPlace(fields, k, o, d)
  BY <1>0, <1>6 DEF IsPlace, IsEquals, IsValue
<1>7. IsPlace(fields, k, place, EQUALS)
  BY <1>0 DEF IsPlace, IsEquals, Place
<1> HIDE DEF place
<1>8. Written(fields, k, query', origin')
  <2>1. \A d \in 1..Len(new) : IsPlace(fields, k, new[d], more[d])
    BY <1>2, <1>7
  <2>2. \A d \in 2..Len(new) : new[d] = NextPlace(fields, new[d - 1])
    BY <1>2
  <2>3. Len(new) # 0 => new[1] = NextPlace(fields, PlaceAt(origin, Len(origin)))
    BY <1>2, <1>4 DEF last
  <2>4. Written(fields, k, query \o more, origin \o new)
    BY <1>2, <1>3, <1>4, <1>6, <2>1, <2>2, <2>3, WrittenOn
  <2>5. QED
    BY <1>3, <2>4
<1>9. NextPlace(fields, place) = Place("separator", k + 1, 0, 0)
  BY <1>0, <1>4, <1>5 DEF NextPlace, ValueFrom, Place, place
<1>10. PlaceAt(origin', Len(origin')) = place
  BY <1>2, <1>3 DEF PlaceAt
<1>11. WrittenType' /\ LastPlace'
  BY <1>0, <1>3, <1>5, <1>9, <1>10 DEF WrittenType, LastPlace
<1>12. QED
  BY <1>0, <1>5, <1>8, <1>11 DEF WrittenInv

(* The characters of a value, encoded.                                     *)
LEMMA WriteValueWritten ==
  ASSUME NEW c \in Octet PROVE WrittenInv /\ WriteValue(c) => WrittenInv'
<1> SUFFICES ASSUME WrittenInv, WriteValue(c) PROVE WrittenInv'
  OBVIOUS
<1> DEFINE k == Len(fields)
           last == PlaceAt(origin, Len(origin))
           value == fields[k].value
           index == Len(value) + 1
           more == Encode(c)
           new == [d \in DOMAIN more |-> Place("value", k, index, d)]
<1>0. /\ k \in Nat \ {0} /\ WrittenType /\ fields \in Fields /\ fields # <<>>
      /\ loop = "value" /\ loop' = "value"
  BY DEF WrittenInv, WrittenType, Fields, LastPlace, WriteValue
<1>1. /\ fields[k] \in FieldOf(Seq(Octet), Seq(Octet)) /\ value \in Seq(Octet)
      /\ index \in Nat
  BY <1>0, FieldType
<1>2. /\ more \in Seq(Octet) /\ Len(more) \in {1, 3} /\ DOMAIN more = 1..Len(more)
  BY EncodeType
<1>3. new \in Seq(Places) /\ Len(new) = Len(more)
  <2>1. \A d \in 1..Len(more) : Place("value", k, index, d) \in Places
    BY <1>0, <1>1, <1>2 DEF Places, Place
  <2> HIDE DEF more
  <2>2. new = [d \in 1..Len(more) |-> Place("value", k, index, d)] /\ Len(more) \in Nat
    BY <1>2
  <2> HIDE DEF index
  <2>3. QED
    BY <2>1, <2>2
<1>4. Write(more, new)
  BY DEF WriteValue, Current
<1>5. \A d \in 1..Len(more) : new[d] = Place("value", k, index, d)
  BY <1>2
<1>6. /\ fields' \in Fields
      /\ Len(fields') = k
      /\ \A i \in 1..k : /\ fields'[i].name = fields[i].name
                         /\ i # k => fields'[i].value = fields[i].value
      /\ fields'[k].value = Append(value, c)
  <2> DEFINE field == [fields[k] EXCEPT !.value = Append(value, c)]
  <2>1. /\ field \in FieldOf(Seq(Octet), Seq(Octet))
        /\ field.value = Append(value, c) /\ field.name = fields[k].name
    <3>1. Append(value, c) \in Seq(Octet)
      BY <1>1
    <3>2. QED
      BY <1>1, <3>1 DEF FieldOf
  <2> HIDE DEF field
  <2>2. fields' = [fields EXCEPT ![k] = field]
    BY DEF WriteValue, Current, field
  <2>3. QED
    BY <1>0, <2>1, <2>2 DEF Fields
<1>7. /\ Len(fields'[k].value) = index
      /\ fields'[k].value[index] = c
      /\ \A i \in 1..Len(value) : fields'[k].value[i] = value[i]
  BY <1>1, <1>6
<1>8. /\ Written(fields, k, query, origin)
      /\ NextPlace(fields, last) = Place("separator", k + 1, 0, 0)
      /\ last \in Places
      /\ Placed(fields, k, last)
  BY <1>0, LastType DEF WrittenInv, LastPlace
<1> HIDE DEF k, last, value, index, more, new
<1>9. k = Len(fields) /\ value = fields[k].value /\ index = Len(value) + 1 /\ more = Encode(c)
  BY DEF k, value, index, more
<1>10. /\ query' = query \o more /\ origin' = origin \o new
       /\ query \in Seq(Octet) /\ origin \in Seq(Places) /\ Len(query) = Len(origin)
       /\ query' \in Seq(Octet) /\ origin' \in Seq(Places) /\ Len(query') = Len(origin')
       /\ Len(origin') = Len(origin) + Len(more)
  BY <1>2, <1>3, <1>4, WriteLengths
<1>11. \A i \in 1..k : \A j \in 1..Len(fields[i].value) :
          j \in 1..Len(fields'[i].value) /\ fields'[i].value[j] = fields[i].value[j]
  BY <1>1, <1>6, <1>7, <1>9
<1>12. ASSUME NEW o \in Places, NEW d \in Octet, IsPlace(fields, k, o, d)
       PROVE  IsPlace(fields', k, o, d)
  <2>1. CASE IsSeparator(fields, o, d)
    BY <1>6, <1>9, <2>1 DEF IsPlace, IsSeparator
  <2>2. CASE IsName(fields, o, d)
    BY <1>6, <1>9, <2>2 DEF IsPlace, IsName
  <2>3. CASE IsEquals(k, o, d)
    BY <2>3 DEF IsPlace, IsEquals
  <2>4. CASE IsValue(fields, k, o, d)
    <3>1. /\ o.field \in 1..k /\ o.index \in 1..Len(fields[o.field].value)
          /\ o = Place("value", o.field, o.index, o.digit)
          /\ o.digit \in 1..Len(Encode(fields[o.field].value[o.index]))
          /\ d = Encode(fields[o.field].value[o.index])[o.digit]
      BY <2>4 DEF IsValue
    <3>2. /\ o.index \in 1..Len(fields'[o.field].value)
          /\ fields'[o.field].value[o.index] = fields[o.field].value[o.index]
      BY <1>11, <3>1
    <3>3. QED
      BY <3>1, <3>2 DEF IsPlace, IsValue
  <2>5. QED
    BY <1>12, <2>1, <2>2, <2>3, <2>4 DEF IsPlace
<1>13. ASSUME NEW o \in Places, NEW d \in Octet, NEW before \in Places,
              IsPlace(fields, k, o, d) /\ Placed(fields, k, before) /\ o = NextPlace(fields, before)
       PROVE  o = NextPlace(fields', before)
  <2>1. fields \in Fields /\ k \in 0..Len(fields)
    BY <1>0, <1>9
  <2>2. before.field \in 1..k
    BY <1>9, <1>13, <2>1, FieldBefore
  <2>3. fields'[before.field].name = fields[before.field].name
    BY <1>6, <2>2
  <2>4. o # Place("separator", k + 1, 0, 0)
    BY <1>0, <1>9, <1>13, <2>1, KindOfPlace DEF Place
  <2>5. ASSUME NEW j \in Nat, ValueFrom(fields, before.field, j) # Place("separator", k + 1, 0, 0)
        PROVE  ValueFrom(fields', before.field, j) = ValueFrom(fields, before.field, j)
    <3>1. CASE before.field # k
      BY <1>6, <2>2, <3>1 DEF ValueFrom
    <3>2. CASE before.field = k
      <4>1. j <= Len(value)
        BY <1>9, <2>5, <3>2 DEF ValueFrom
      <4>2. j <= Len(fields'[k].value)
        BY <1>1, <1>7, <1>9, <4>1
      <4>3. QED
        BY <1>9, <3>2, <4>1, <4>2 DEF ValueFrom
    <3>3. QED
      BY <3>1, <3>2
  <2>6. before.index \in Nat /\ before.kind \in {"separator", "name", "equals", "value"}
    BY DEF Places
  <2>7. CASE before.kind # "value"
    BY <1>13, <2>3, <2>4, <2>5, <2>6, <2>7 DEF NextPlace, NameFrom
  <2>8. CASE before.kind = "value"
    <3>1. PICK e \in Octet : IsPlace(fields, k, before, e)
      BY <1>13, <2>8 DEF Placed, Place
    <3>2. before.index \in 1..Len(fields[before.field].value)
      BY <2>1, <2>8, <3>1, KindOfPlace DEF IsValue
    <3>3. fields'[before.field].value[before.index] = fields[before.field].value[before.index]
      BY <1>11, <2>2, <3>2
    <3>4. QED
      BY <1>13, <2>4, <2>5, <2>6, <2>8, <3>3 DEF NextPlace
  <2>9. QED
    BY <2>7, <2>8
<1>14. new[1] = NextPlace(fields', last)
  <2>1. new[1] = Place("value", k, index, 1) /\ ValueFrom(fields', k, index) = Place("value", k, index, 1)
    BY <1>1, <1>2, <1>5, <1>7, <1>9 DEF ValueFrom
  <2>2. ASSUME NEW i \in Nat, NEW j \in Nat,
               ValueFrom(fields, i, j) = Place("separator", k + 1, 0, 0)
        PROVE  i = k /\ j > Len(value)
    BY <1>0, <1>1, <1>9, <2>2 DEF ValueFrom, Place
  <2>3. ASSUME NEW i, NEW j PROVE NameFrom(fields, i, j) # Place("separator", k + 1, 0, 0)
    BY DEF NameFrom, Place
  <2>4. /\ last.kind \in {"separator", "name", "equals", "value"}
        /\ last.field \in Nat /\ last.index \in Nat
    BY <1>8 DEF Places
  <2>5. CASE last.kind \in {"separator", "name"}
    BY <1>8, <2>3, <2>5 DEF NextPlace
  <2>6. CASE last.kind = "equals"
    <3>1. ValueFrom(fields, last.field, 1) = Place("separator", k + 1, 0, 0)
      BY <1>8, <2>6 DEF NextPlace
    <3>2. last.field = k /\ index = 1
      BY <1>1, <1>9, <2>2, <2>4, <3>1
    <3>3. QED
      BY <2>1, <2>6, <3>2 DEF NextPlace
  <2>7. CASE last.kind = "value"
    <3>1. PICK d \in Octet : IsPlace(fields, k, last, d)
      BY <1>8, <2>7 DEF Place, Placed
    <3>2. last.field \in 1..k /\ last.index \in 1..Len(fields[last.field].value)
      <4>1. fields \in Fields /\ k \in 0..Len(fields)
        BY <1>0, <1>9
      <4>2. QED
        BY <1>8, <2>7, <3>1, <4>1, KindOfPlace DEF IsValue
    <3>3. ~(last.digit < Len(Encode(fields[last.field].value[last.index])))
      BY <1>8, <2>7 DEF NextPlace, Place
    <3>4. ValueFrom(fields, last.field, last.index + 1) = Place("separator", k + 1, 0, 0)
      BY <1>8, <2>7, <3>3 DEF NextPlace
    <3>5. last.field = k /\ last.index = Len(value)
      <4>1. last.index + 1 \in Nat
        BY <2>4
      <4>2. last.field = k /\ last.index + 1 > Len(value)
        BY <2>2, <2>4, <3>4, <4>1
      <4>3. QED
        BY <1>1, <1>9, <2>4, <3>2, <4>2
    <3>6. fields'[k].value[last.index] = fields[k].value[last.index]
      BY <1>7, <1>9, <3>2, <3>5
    <3>7. QED
      BY <1>9, <2>1, <2>7, <3>3, <3>5, <3>6 DEF NextPlace
  <2>8. QED
    BY <2>4, <2>5, <2>6, <2>7
<1>15. Written(fields', k, query', origin')
  <2>1. ASSUME NEW d \in 1..Len(new) PROVE IsPlace(fields', k, new[d], more[d])
    <3>1. new[d] = Place("value", k, index, d) /\ d \in 1..Len(Encode(c)) /\ more[d] = Encode(c)[d]
      BY <1>3, <1>5, <1>9
    <3>2. index \in 1..Len(fields'[k].value) /\ k \in 1..k /\ fields'[k].value[index] = c
      BY <1>0, <1>1, <1>7, <1>9
    <3>3. QED
      BY <3>1, <3>2 DEF IsPlace, IsValue, Place
  <2>2. ASSUME NEW d \in 2..Len(new) PROVE new[d] = NextPlace(fields', new[d - 1])
    <3>1. /\ d - 1 \in 1..Len(more) /\ d \in 1..Len(more) /\ d - 1 < Len(more)
          /\ (d - 1) + 1 = d
      BY <1>2, <1>3
    <3>2. new[d] = Place("value", k, index, d) /\ new[d - 1] = Place("value", k, index, d - 1)
      BY <1>5, <3>1
    <3>3. /\ new[d - 1].kind = "value" /\ new[d - 1].field = k
          /\ new[d - 1].index = index /\ new[d - 1].digit = d - 1
      BY <3>2 DEF Place
    <3>4. d - 1 < Len(Encode(fields'[k].value[index]))
      BY <1>7, <1>9, <3>1
    <3>5. QED
      BY <3>1, <3>2, <3>3, <3>4 DEF NextPlace
  <2>3. Len(new) # 0 => new[1] = NextPlace(fields', PlaceAt(origin, Len(origin)))
    BY <1>14 DEF last
  <2>4. \A o \in Places, d \in Octet, before \in Places :
           IsPlace(fields, k, o, d) /\ Placed(fields, k, before) /\ o = NextPlace(fields, before)
             => o = NextPlace(fields', before)
    BY <1>13
  <2>5. Written(fields', k, query \o more, origin \o new)
    BY <1>2, <1>3, <1>8, <1>10, <1>12, <2>1, <2>2, <2>3, <2>4, WrittenOn
  <2>6. QED
    BY <1>10, <2>5
<1>16. NextPlace(fields', PlaceAt(origin', Len(origin'))) = Place("separator", k + 1, 0, 0)
  <2>1. PlaceAt(origin', Len(origin')) = Place("value", k, index, Len(more))
    <3>1. Len(origin') = Len(origin) + Len(new) /\ Len(new) \in 1..Len(new) /\ Len(origin') # 0
      BY <1>2, <1>3, <1>10
    <3>2. origin'[Len(origin')] = new[Len(new)]
      BY <1>3, <1>10, <3>1, ConcatBehind
    <3>3. QED
      BY <1>3, <1>5, <3>1, <3>2 DEF PlaceAt
  <2>2. /\ ~(Len(more) < Len(Encode(fields'[k].value[index])))
        /\ ValueFrom(fields', k, index + 1) = Place("separator", k + 1, 0, 0)
    BY <1>1, <1>2, <1>7, <1>9 DEF ValueFrom
  <2>3. QED
    BY <2>1, <2>2 DEF NextPlace, Place
<1>17. WrittenType' /\ LastPlace'
  BY <1>0, <1>6, <1>10, <1>16 DEF WrittenType, LastPlace, Fields
<1>18. QED
  BY <1>0, <1>6, <1>15, <1>17 DEF WrittenInv

(* The rest of the loops leaves what is written alone.                     *)
LEMMA OthersWritten ==
  ASSUME WrittenInv, written' = written,
         \/ CreateReturns
         \/ loop \in {"parse", "decode"} /\ loop' \in {"parse", "decode", "done"}
  PROVE  WrittenInv'
<1>1. /\ fields' = fields /\ query' = query /\ origin' = origin
      /\ loop # "name" /\ loop' # "name" /\ loop' \in {"parse", "decode", "done"}
  BY DEF written, CreateReturns
<1>2. WrittenType' /\ LastPlace'
  BY <1>1 DEF WrittenInv, WrittenType, LastPlace
<1>3. QED
  BY <1>1, <1>2 DEF WrittenInv

-----------------------------------------------------------------------------
(* What parse() and decode() find.                                         *)

(* From a place the next one follows, up to the end.                       *)
LEMMA Signs ==
  ASSUME WrittenInv, loop # "name", fields # <<>>
  PROVE  /\ Sign(0) = Place("separator", 1, 0, 0)
         /\ Sign(Len(query) + 1) = Place("separator", Len(fields) + 1, 0, 0)
         /\ \A p \in 1..Len(query) : /\ Sign(p) \in Places
                                     /\ IsPlace(fields, Len(fields), Sign(p), query[p])
         /\ \A p \in 0..Len(query) : Sign(p + 1) = NextPlace(fields, Sign(p))
<1>1. /\ origin \in Seq(Places) /\ query \in Seq(Octet) /\ Len(query) = Len(origin)
      /\ Written(fields, Len(fields), query, origin)
      /\ NextPlace(fields, PlaceAt(origin, Len(origin))) = Place("separator", Len(fields) + 1, 0, 0)
  BY DEF WrittenInv, WrittenType, LastPlace
<1>2. Sign(0) = Place("separator", 1, 0, 0)
  BY <1>1 DEF Sign, PlaceAt
<1>3. Sign(Len(query) + 1) = Place("separator", Len(fields) + 1, 0, 0)
  BY <1>1 DEF Sign
<1>4. ASSUME NEW p \in 1..Len(query)
      PROVE  /\ Sign(p) \in Places /\ IsPlace(fields, Len(fields), Sign(p), query[p])
             /\ Sign(p) = origin[p]
  <2>1. Sign(p) = origin[p]
    BY <1>1 DEF Sign, PlaceAt
  <2>2. QED
    BY <1>1, <2>1 DEF Written
<1>5. ASSUME NEW p \in 0..Len(query)
      PROVE  Sign(p + 1) = NextPlace(fields, Sign(p))
  <2>1. Sign(p) = PlaceAt(origin, p)
    BY <1>1 DEF Sign
  <2>2. CASE p = Len(query)
    BY <1>1, <1>3, <2>1, <2>2
  <2>3. CASE p # Len(query)
    <3>1. p + 1 \in 1..Len(query) /\ (p + 1) - 1 = p
      BY <1>1, <2>3
    <3>2. origin[p + 1] = NextPlace(fields, PlaceAt(origin, p))
      BY <1>1, <3>1 DEF Written
    <3>3. QED
      BY <1>4, <2>1, <3>1, <3>2
  <2>4. QED
    BY <2>2, <2>3
<1>6. QED
  BY <1>2, <1>3, <1>4, <1>5

(* What the cursor sees: a separator, the end, or a character of a field.  *)
LEMMA Sees ==
  ASSUME WrittenInv, loop # "name", fields # <<>>, cursor \in 1..Len(query) + 1
  PROVE  /\ Here.kind \in {"separator", "name", "equals", "value"}
         /\ Here.kind = "separator" =>
              /\ ~AtEnd => query[cursor] = AMP
              /\ Here = Place("separator", Here.field, 0, 0)
              /\ Scanned \in 1..Len(fields)
              /\ AtEnd => Scanned = Len(fields)
              /\ ~AtEnd => Scanned + 1 \in 1..Len(fields)
         /\ Here.kind # "separator" =>
              /\ ~AtEnd /\ cursor \in 1..Len(query) /\ Scanned = Here.field
              /\ Scanned \in 1..Len(fields)
              /\ Here.kind = "name" =>
                   /\ Here.index \in 1..Len(fields[Scanned].name)
                   /\ query[cursor] = fields[Scanned].name[Here.index]
              /\ Here.kind = "equals" => query[cursor] = EQUALS
              /\ Here.kind = "value" => query[cursor] \notin {AMP, EQUALS}
<1>1. /\ fields \in Fields /\ Len(fields) \in Nat \ {0} /\ Len(query) \in Nat
      /\ Len(fields) \in 0..Len(fields) /\ query \in Seq(Octet)
  BY DEF WrittenInv, WrittenType, Fields
<1>2. CASE AtEnd
  <2>1. Here = Place("separator", Len(fields) + 1, 0, 0)
    BY <1>2, Signs DEF Here, AtEnd
  <2>2. QED
    BY <1>1, <1>2, <2>1 DEF Scanned, Place
<1>3. CASE ~AtEnd
  <2>1. cursor \in 1..Len(query) /\ query[cursor] \in Octet
    BY <1>1, <1>3 DEF AtEnd
  <2>2. Here \in Places /\ IsPlace(fields, Len(fields), Here, query[cursor])
    BY <2>1, Signs DEF Here
  <2>3. Here.kind \in {"separator", "name", "equals", "value"}
    BY <2>2 DEF Places
  <2>4. CASE Here.kind = "separator"
    <3>1. IsSeparator(fields, Here, query[cursor])
      BY <2>2, <2>4 DEF IsPlace, IsName, IsEquals, IsValue, Place
    <3>2. QED
      <4>1. /\ Here.field \in 2..Len(fields) /\ query[cursor] = AMP
            /\ Here = Place("separator", Here.field, 0, 0)
        BY <3>1 DEF IsSeparator
      <4>2. Scanned = Here.field - 1
        BY <2>4 DEF Scanned
      <4>3. Scanned \in 1..Len(fields) /\ Scanned + 1 \in 1..Len(fields)
        <5>1. Here.field \in 2..Len(fields) /\ Len(fields) \in Nat
          BY <1>1, <4>1
        <5>2. QED
          BY <4>2, <5>1
      <4>4. QED
        BY <1>3, <2>4, <4>1, <4>3
  <2>5. CASE Here.kind = "name"
    BY <1>1, <1>3, <2>1, <2>2, <2>5, KindOfPlace DEF Scanned, IsName
  <2>6. CASE Here.kind = "equals"
    BY <1>1, <1>3, <2>1, <2>2, <2>6, KindOfPlace DEF Scanned
  <2>7. CASE Here.kind = "value"
    <3>1. IsValue(fields, Len(fields), Here, query[cursor])
      BY <1>1, <2>1, <2>2, <2>7, KindOfPlace
    <3>2. Scanned = Here.field /\ Here.field \in 1..Len(fields)
      BY <2>7, <3>1 DEF Scanned, IsValue
    <3>3. fields[Here.field].value[Here.index] \in Octet
      <4>1. fields[Here.field].value \in Seq(Octet)
        BY <1>1, <3>2, FieldType
      <4>2. QED
        BY <3>1, <4>1 DEF IsValue
    <3>4. query[cursor] \notin {AMP, EQUALS}
      BY <3>1, <3>3, EncodeType DEF IsValue
    <3>5. QED
      BY <1>3, <2>1, <2>7, <3>2, <3>4
  <2>8. QED
    BY <2>3, <2>4, <2>5, <2>6, <2>7
<1>4. QED
  BY <1>2, <1>3

(* The name that parse() cuts out is the field's.                          *)
LEMMA NameFound ==
  ASSUME WrittenInv, cursor \in 1..Len(query) + 1, Scanned \in 1..Len(fields), InValue,
         namePos \in Nat
  PROVE  Name = fields[Scanned].name
<1> DEFINE name == fields[Scanned].name
<1>1. name \in Seq(Octet) /\ query \in Seq(Octet)
  BY FieldType DEF WrittenInv, WrittenType, Fields
<1>2. /\ namePos \in 1..cursor /\ namePos + Len(name) <= Len(query) + 1
      /\ \A m \in 1..Len(name) : query[namePos + m - 1] = name[m]
      /\ nameEndPos = namePos + Len(name)
  BY DEF InValue, NameBegins
<1>3. nameEndPos # None
  BY <1>1, <1>2 DEF None
<1>4. Name = SubSeq(query, namePos, namePos + Len(name) - 1)
  <2>1. Name = SubSeq(query, namePos, nameEndPos - 1)
    BY <1>3 DEF Name
  <2>2. Len(name) \in Nat
    BY <1>1
  <2> HIDE DEF name
  <2>3. nameEndPos - 1 = namePos + Len(name) - 1
    BY <1>2, <2>2
  <2>4. QED
    BY <2>1, <2>3
<1> HIDE DEF name
<1>5. /\ Name \in Seq(Octet) /\ Len(Name) = Len(name)
      /\ \A m \in 1..Len(name) : Name[m] = query[namePos + m - 1]
  <2> DEFINE last == namePos + Len(name) - 1
  <2>1. /\ namePos \in 1..Len(query) + 1 /\ last \in namePos - 1..Len(query)
        /\ last - namePos + 1 = Len(name) /\ Len(name) \in Nat /\ Len(query) \in Nat
    BY <1>1, <1>2
  <2> HIDE DEF last
  <2>2. /\ Name = SubSeq(query, namePos, last)
        /\ \A i \in namePos..last : query[i] \in Octet
    BY <1>1, <1>4, <2>1 DEF last
  <2>3. Len(SubSeq(query, namePos, last)) = Len(name)
    BY <2>1, <2>2, SubSeqProperties
  <2>4. \A m \in 1..Len(name) : SubSeq(query, namePos, last)[m] = query[namePos + m - 1]
    BY <2>1, <2>2, SubSeqProperties
  <2>5. SubSeq(query, namePos, last) \in Seq(Octet)
    BY <2>1, <2>2, SubSeqProperties
  <2>6. QED
    BY <2>2, <2>3, <2>4, <2>5
<1>6. Name = name
  BY <1>1, <1>2, <1>5, SeqEqual
<1>7. QED
  BY <1>6 DEF name

(* The cursor goes on: what it sees next follows what it sees now.         *)
LEMMA Ahead ==
  ASSUME WrittenInv, loop # "name", fields # <<>>, cursor \in 1..Len(query),
         fields' = fields, origin' = origin, cursor' = cursor + 1
  PROVE  /\ Here' = NextPlace(fields, Here)
         /\ \A p \in 0..Len(query) + 1 : Sign(p)' = Sign(p)
         /\ Here = Sign(cursor)
         /\ Here' = Sign(cursor + 1)
BY Signs DEF Here, Sign

(* Until create() returns, nothing has been scanned.                       *)
LEMMA InitQueryInv == QueryInit => QueryInv
<1> SUFFICES ASSUME QueryInit PROVE QueryInv
  OBVIOUS
<1>1. WrittenInv
  <2>1. fields \in Fields /\ query \in Seq(Octet) /\ origin \in Seq(Places)
    BY DEF QueryInit, Fields
  <2>2. Len(query) = 0 /\ Len(origin) = 0 /\ Len(fields) = 0 /\ loop = "create"
    BY DEF QueryInit
  <2>3. WrittenType /\ LastPlace
    BY <2>1, <2>2 DEF QueryInit, WrittenType, LastPlace, Fields
  <2>4. QED
    BY <2>2, <2>3 DEF WrittenInv, Written
<1>2. NothingScanned /\ ScanType
  BY DEF QueryInit, NothingScanned, ScanType, None
<1>3. QED
  BY <1>1, <1>2 DEF QueryInit, QueryInv, ScanInv, DecodeInv, QueryRoundTrip

(* create()'s loops.                                                       *)
LEMMA WritingStep ==
  ASSUME QueryInv, OctetsAssumption,
         NextField \/ WriteEquals \/ \E o \in Octets : WriteName(o) \/ WriteValue(o)
  PROVE  QueryInv'
<1>1. WrittenInv'
  BY NextFieldWritten, WriteEqualsWritten, WriteNameWritten, WriteValueWritten
     DEF QueryInv, OctetsAssumption
<1>2. /\ loop \in {"create", "name", "value"} /\ loop' \in {"name", "value"}
      /\ UNCHANGED <<scanned, read>>
  BY DEF NextField, WriteEquals, WriteName, WriteValue, Write
<1>3. Len(query') \in Nat
  BY <1>1 DEF WrittenInv, WrittenType
<1>4. NothingScanned' /\ ScanType'
  BY <1>2, <1>3 DEF QueryInv, NothingScanned, ScanType, scanned, read, None
<1>5. QED
  BY <1>1, <1>2, <1>4 DEF QueryInv, ScanInv, DecodeInv, QueryRoundTrip

(* create() returns, and parse() begins.                                   *)
LEMMA CreateReturnsStep ==
  ASSUME QueryInv, CreateReturns
  PROVE  QueryInv'
<1>1. /\ WrittenInv' /\ loop # "name" /\ WrittenInv
      /\ fields' = fields /\ query' = query /\ origin' = origin
      /\ loop \in {"create", "value"} /\ loop' = "parse"
      /\ UNCHANGED <<scanned, read>>
  BY OthersWritten DEF QueryInv, CreateReturns, written
<1>2. /\ cursor = 1 /\ namePos = 1 /\ nameEndPos = None /\ valuePos = None
      /\ result = <<>> /\ decoded = <<>>
  BY <1>1 DEF QueryInv, NothingScanned
<1>3. ScanType' /\ NothingScanned'
  BY <1>1 DEF QueryInv, ScanType, NothingScanned, scanned
<1>4. fields \in Fields /\ Len(query) \in Nat
  BY <1>1 DEF WrittenInv, WrittenType, Fields
<1>5. ScanInv'
  <2> SUFFICES ASSUME Plain' PROVE ReadSoFar' /\ UnderWay'
    BY DEF ScanInv
  <2>1. Plain
    BY <1>1 DEF Plain
  <2>2. CASE fields = <<>>
    BY <1>1, <1>2, <2>2 DEF ReadSoFar, UnderWay, scanned
  <2>3. CASE fields # <<>>
    <3>1. Here' = Place("name", 1, 1, 1)
      <4>1. fields[1].name # <<>> /\ 1 \in 1..Len(fields)
        BY <1>4, <2>1, <2>3 DEF Plain, Fields
      <4>2. 1 <= Len(fields[1].name)
        BY <1>4, <4>1, FieldType
      <4>3. Sign(1) = NextPlace(fields, Place("separator", 1, 0, 0))
        BY <1>1, <1>4, <2>3, Signs
      <4>4. Sign(1) = Place("name", 1, 1, 1)
        BY <4>2, <4>3 DEF NextPlace, NameFrom, Place
      <4>5. QED
        BY <1>1, <1>2, <4>4 DEF Here, Sign, scanned
    <3>2. Scanned' = 1 /\ Here'.kind = "name" /\ Here'.index = 1
      BY <3>1 DEF Scanned, Place
    <3>3. ReadSoFar'
      BY <1>1, <1>2, <2>3, <3>2 DEF ReadSoFar, scanned
    <3>4. InName(0)'
      BY <1>1, <1>2, <1>4 DEF InName, NameBegins, scanned
    <3>5. QED
      <4>1. InName(Here.index - 1)'
        BY <3>2, <3>4
      <4>2. QED
        BY <1>1, <2>3, <3>2, <3>3, <4>1 DEF UnderWay
  <2>4. QED
    BY <2>2, <2>3
<1>6. QED
  BY <1>1, <1>3, <1>5 DEF QueryInv, DecodeInv, QueryRoundTrip

(* A character that ends neither a name nor a field.                       *)
LEMMA ScanOtherStep ==
  ASSUME QueryInv, ScanOther
  PROVE  QueryInv'
<1>1. /\ WrittenInv' /\ loop # "name" /\ WrittenInv
      /\ fields' = fields /\ query' = query /\ origin' = origin
      /\ loop = "parse" /\ loop' = "parse"
      /\ cursor' = cursor + 1 /\ UNCHANGED <<namePos, nameEndPos, valuePos, result, spot, decoded>>
  BY OthersWritten DEF QueryInv, ScanOther, written, read
<1>2. /\ Len(query) \in Nat /\ cursor \in 1..Len(query) /\ query[cursor] \notin {AMP, EQUALS}
      /\ fields \in Fields
  BY <1>1 DEF QueryInv, ScanType, ScanOther, AtEnd, WrittenInv, WrittenType, Fields
<1>3. ScanType' /\ NothingScanned'
  BY <1>1, <1>2 DEF QueryInv, ScanType, NothingScanned
<1>4. ScanInv'
  <2> SUFFICES ASSUME Plain' PROVE ReadSoFar' /\ UnderWay'
    BY DEF ScanInv
  <2>1. /\ ReadSoFar /\ UnderWay /\ fields # <<>>
    <3>1. Plain
      BY <1>1 DEF Plain
    <3>2. fields # <<>>
      BY <1>1, <1>2 DEF WrittenInv, WrittenType, LastPlace
    <3>3. QED
      BY <1>1, <3>1, <3>2 DEF QueryInv, ScanInv
  <2>2. /\ Here' = NextPlace(fields, Here) /\ Here = Sign(cursor)
        /\ \A p \in 0..Len(query) + 1 : Sign(p)' = Sign(p)
    BY <1>1, <1>2, <2>1, Ahead
  <2>3. /\ Here.kind \in {"name", "value"} /\ Scanned = Here.field /\ Scanned \in 1..Len(fields)
        /\ Here.kind = "name" =>
             /\ Here.index \in 1..Len(fields[Scanned].name)
             /\ query[cursor] = fields[Scanned].name[Here.index]
    BY <1>1, <1>2, <2>1, Sees DEF AtEnd
  <2>4. Len(fields[Scanned].name) \in Nat
    BY <1>2, <2>3, FieldType
  <2>5. CASE Here.kind = "name"
    <3>1. InName(Here.index - 1)
      BY <2>1, <2>5 DEF UnderWay
    <3>2. /\ Here' = NameFrom(fields, Here.field, Here.index + 1)
      BY <2>2, <2>5 DEF NextPlace
    <3>3. Scanned' = Scanned
      BY <2>3, <3>2 DEF Scanned, NameFrom, Place
    <3>4. \A m \in 1..Here.index : query[namePos + m - 1] = fields[Scanned].name[m]
      <4>1. namePos + (Here.index - 1) = cursor /\ Here.index \in Nat /\ namePos \in Nat
        <5>1. namePos + (Here.index - 1) = cursor
          BY <3>1 DEF InName
        <5>2. namePos \in Nat /\ Here.index \in Nat
          BY <2>3, <2>4, <2>5 DEF QueryInv, ScanType
        <5>3. QED
          BY <5>1, <5>2
      <4>2. ASSUME NEW m \in 1..Here.index PROVE query[namePos + m - 1] = fields[Scanned].name[m]
        <5>1. CASE m = Here.index
          BY <2>3, <2>5, <4>1, <5>1
        <5>2. CASE m # Here.index
          <6>1. m \in 1..Here.index - 1
            BY <4>1, <5>2
          <6>2. QED
            BY <3>1, <6>1 DEF InName, NameBegins
        <5>3. QED
          BY <5>1, <5>2
      <4>3. QED
        BY <4>2
    <3>5. PICK n \in Nat : n = Here.index
      BY <2>3, <2>4, <2>5
    <3>6. InName(n)'
      <4>1. /\ namePos + (n - 1) = cursor /\ nameEndPos = None /\ valuePos = None
            /\ namePos \in 1..cursor /\ namePos + (n - 1) <= Len(query) + 1
        BY <3>1, <3>5 DEF InName, NameBegins
      <4>2. namePos + n = cursor + 1 /\ namePos \in 1..cursor + 1 /\ namePos + n <= Len(query) + 1
        BY <1>2, <3>5, <4>1
      <4>3. QED
        BY <1>1, <3>3, <3>4, <3>5, <4>1, <4>2 DEF InName, NameBegins
    <3>7. CASE n + 1 <= Len(fields[Scanned].name)
      <4>1. Here'.kind = "name" /\ Here'.index - 1 = n
        BY <2>3, <3>2, <3>5, <3>7 DEF NameFrom, Place
      <4>2. UnderWay'
        BY <1>1, <2>1, <3>6, <4>1 DEF UnderWay
      <4>3. QED
        BY <1>1, <2>1, <3>3, <4>2 DEF ReadSoFar
    <3>8. CASE ~(n + 1 <= Len(fields[Scanned].name))
      <4>1. Here'.kind = "equals" /\ Len(fields'[Scanned'].name) = n
        <5>1. n \in 1..Len(fields[Scanned].name)
          BY <2>3, <2>5, <3>5
        <5>2. Len(fields[Scanned].name) = n
          BY <2>4, <3>8, <5>1
        <5>3. Here' = Place("equals", Here.field, 0, 0)
          BY <2>3, <3>2, <3>5, <3>8 DEF NameFrom
        <5>4. QED
          BY <1>1, <3>3, <5>2, <5>3 DEF Place
      <4>2. UnderWay'
        BY <1>1, <2>1, <3>6, <4>1 DEF UnderWay
      <4>3. QED
        BY <1>1, <2>1, <3>3, <4>2 DEF ReadSoFar
    <3>9. QED
      BY <3>7, <3>8
  <2>6. CASE Here.kind = "value"
    <3>1. InValue
      BY <2>1, <2>6 DEF UnderWay
    <3>2. /\ Here' = Place("value", Scanned, Here.index, Here.digit + 1)
          \/ Here' = ValueFrom(fields, Scanned, Here.index + 1)
      BY <2>2, <2>3, <2>6 DEF NextPlace
    <3>3. Here'.kind \in {"value", "separator"} /\ Scanned' = Scanned
      <4>1. ASSUME NEW i, NEW d, Here' = Place("value", Scanned, i, d)
            PROVE  Here'.kind = "value" /\ Scanned' = Scanned
        BY <4>1 DEF Scanned, Place
      <4>2. CASE Here' = Place("separator", Scanned + 1, 0, 0)
        BY <2>3, <4>2 DEF Scanned, Place
      <4>3. QED
        BY <3>2, <4>1, <4>2 DEF ValueFrom
    <3>4. InValue'
      <4> DEFINE name == fields[Scanned].name
      <4>1. /\ NameBegins(Len(name)) /\ nameEndPos = namePos + Len(name)
            /\ valuePos = nameEndPos + 1 /\ valuePos <= cursor
            /\ Sign(valuePos) = ValueFrom(fields, Scanned, 1)
            /\ \A q \in valuePos..cursor - 1 : Sign(q).kind = "value"
        BY <3>1 DEF InValue
      <4>2. valuePos \in Nat /\ valuePos \in 0..Len(query) + 1 /\ valuePos <= cursor + 1
        BY <1>2, <4>1 DEF QueryInv, ScanType
      <4>3. Sign(valuePos)' = ValueFrom(fields', Scanned', 1)
        BY <1>1, <2>2, <3>3, <4>1, <4>2
      <4>4. \A q \in valuePos..(cursor + 1) - 1 : Sign(q)'.kind = "value"
        <5>1. ASSUME NEW q \in valuePos..(cursor + 1) - 1 PROVE Sign(q)'.kind = "value"
          <6>1. q \in 0..Len(query) + 1 /\ (q = cursor \/ q \in valuePos..cursor - 1)
            BY <1>2, <4>2
          <6>2. Sign(q).kind = "value"
            BY <2>2, <2>6, <4>1, <6>1
          <6>3. QED
            BY <2>2, <6>1, <6>2
        <5>2. QED
          BY <5>1
      <4>5. NameBegins(Len(name))'
        <5>1. /\ namePos \in 1..cursor /\ namePos + Len(name) <= Len(query) + 1
              /\ \A m \in 1..Len(name) : query[namePos + m - 1] = name[m]
          BY <4>1 DEF NameBegins
        <5>2. namePos' \in 1..cursor' /\ fields'[Scanned'].name = name
          BY <1>1, <1>2, <3>3, <5>1
        <5>3. QED
          BY <1>1, <3>3, <5>1, <5>2 DEF NameBegins
      <4>6. QED
        BY <1>1, <3>3, <4>1, <4>2, <4>3, <4>4, <4>5 DEF InValue
    <3>5. UnderWay'
      BY <1>1, <2>1, <3>3, <3>4 DEF UnderWay
    <3>6. QED
      BY <1>1, <2>1, <3>3, <3>5 DEF ReadSoFar
  <2>7. QED
    BY <2>3, <2>5, <2>6
<1>5. QED
  BY <1>1, <1>3, <1>4 DEF QueryInv, DecodeInv, QueryRoundTrip

(* The '=' behind a name.                                                  *)
LEMMA ScanEqualsStep ==
  ASSUME QueryInv, ScanEquals
  PROVE  QueryInv'
<1>1. /\ WrittenInv' /\ loop # "name" /\ WrittenInv
      /\ fields' = fields /\ query' = query /\ origin' = origin
      /\ loop = "parse" /\ loop' = "parse" /\ nameEndPos' = cursor /\ valuePos' = cursor + 1
      /\ cursor' = cursor + 1 /\ UNCHANGED <<namePos, result, spot, decoded>>
  BY OthersWritten DEF QueryInv, ScanEquals, written, read
<1>2. /\ Len(query) \in Nat /\ cursor \in 1..Len(query) /\ query[cursor] = EQUALS
      /\ fields \in Fields
  BY <1>1 DEF QueryInv, ScanType, ScanEquals, AtEnd, WrittenInv, WrittenType, Fields
<1>3. ScanType' /\ NothingScanned'
  BY <1>1, <1>2 DEF QueryInv, ScanType, NothingScanned
<1>4. ScanInv'
  <2> SUFFICES ASSUME Plain' PROVE ReadSoFar' /\ UnderWay'
    BY DEF ScanInv
  <2>1. Plain /\ ReadSoFar /\ UnderWay /\ fields # <<>>
    <3>1. Plain
      BY <1>1 DEF Plain
    <3>2. fields # <<>>
      BY <1>1, <1>2 DEF WrittenInv, WrittenType, LastPlace
    <3>3. QED
      BY <1>1, <3>1, <3>2 DEF QueryInv, ScanInv
  <2>2. /\ Here' = NextPlace(fields, Here) /\ Here = Sign(cursor) /\ Here' = Sign(cursor + 1)
        /\ \A p \in 0..Len(query) + 1 : Sign(p)' = Sign(p)
    BY <1>1, <1>2, <2>1, Ahead
  <2>3. Scanned = Here.field /\ Scanned \in 1..Len(fields) /\ Here.kind = "equals"
    <3>1. AMP # EQUALS /\ ~AtEnd
      BY <1>2 DEF AMP, EQUALS, AtEnd
    <3>2. Here.kind # "separator" /\ Here.kind # "value"
      BY <1>1, <1>2, <2>1, <3>1, Sees
    <3>3. Here.kind # "name"
      BY <1>1, <1>2, <2>1, Sees DEF Plain
    <3>4. QED
      BY <1>1, <1>2, <2>1, <3>2, <3>3, Sees
  <2>4. InName(Len(fields[Scanned].name)) /\ Len(fields[Scanned].name) \in Nat
    BY <1>2, <2>1, <2>3, FieldType DEF UnderWay
  <2>5. Here' = ValueFrom(fields, Scanned, 1)
    BY <2>2, <2>3 DEF NextPlace
  <2>6. Scanned' = Scanned /\ Here'.kind \in {"value", "separator"}
    BY <2>3, <2>5 DEF Scanned, ValueFrom, Place
  <2>7. InValue'
    <3>1. NameBegins(Len(fields[Scanned].name))'
      BY <1>1, <1>2, <2>4, <2>6 DEF InName, NameBegins
    <3>2. cursor = namePos + Len(fields[Scanned].name)
      BY <2>4 DEF InName
    <3>3. PICK n \in Nat : n = cursor + 1
      BY <1>2
    <3>4. Sign(n)' = ValueFrom(fields, Scanned, 1)
      BY <1>2, <2>2, <2>5, <3>3
    <3>5. \A q \in n..n - 1 : Sign(q)'.kind = "value"
      BY <3>3
    <3>6. nameEndPos' = namePos + Len(fields[Scanned].name) /\ n = nameEndPos' + 1
      BY <1>1, <3>2, <3>3
    <3>7. valuePos' = n /\ cursor' = n
      BY <1>1, <3>3
    <3>8. Sign(valuePos)' = ValueFrom(fields, Scanned, 1)
      BY <3>4, <3>7 DEF Sign
    <3>9. QED
      BY <1>1, <1>2, <2>6, <3>1, <3>5, <3>6, <3>7, <3>8 DEF InValue
  <2>8. UnderWay'
    BY <1>1, <2>1, <2>6, <2>7 DEF UnderWay
  <2>9. QED
    BY <1>1, <2>1, <2>6, <2>8 DEF ReadSoFar
<1>5. QED
  BY <1>1, <1>3, <1>4 DEF QueryInv, DecodeInv, QueryRoundTrip

(* An '&' or the end: the field behind it is complete, unless there is no  *)
(* field at all.                                                           *)
LEMMA ScanSeparatorStep ==
  ASSUME QueryInv, ScanSeparator
  PROVE  QueryInv'
<1>1. /\ WrittenInv' /\ loop # "name" /\ WrittenInv
      /\ fields' = fields /\ query' = query /\ origin' = origin
      /\ loop = "parse" /\ loop' \in {"parse", "decode", "done"}
  <2>1. written' = written /\ loop = "parse" /\ loop' \in {"parse", "decode", "done"}
    BY DEF ScanSeparator, Emplace, GoOn
  <2>2. QED
    BY <2>1, OthersWritten DEF QueryInv, written
<1>2. /\ Len(query) \in Nat /\ cursor \in 1..Len(query) + 1
      /\ ~AtEnd => query[cursor] = AMP
      /\ fields \in Fields
  BY <1>1 DEF QueryInv, ScanType, ScanSeparator, WrittenInv, WrittenType, Fields
<1>3. ScanType' /\ NothingScanned'
  <2>1. CASE Emplace
    BY <1>1, <1>2, <2>1 DEF QueryInv, ScanType, NothingScanned, Emplace, scanned
  <2>2. CASE GoOn
    BY <1>1, <1>2, <2>2 DEF QueryInv, ScanType, NothingScanned, GoOn, AtEnd, None
  <2>3. QED
    BY <2>1, <2>2 DEF ScanSeparator
<1>4. CASE ~Plain
  <2>1. ~Plain'
    BY <1>1, <1>4 DEF Plain
  <2>2. QED
    BY <1>1, <1>3, <2>1 DEF QueryInv, ScanInv, DecodeInv, QueryRoundTrip
<1>5. CASE Plain /\ fields = <<>>
  <2>1. query = <<>> /\ namePos = 1 /\ nameEndPos = None /\ Len(result) = 0
    BY <1>1, <1>5 DEF QueryInv, ScanInv, UnderWay, ReadSoFar, WrittenInv, WrittenType, LastPlace
  <2>2. AtEnd /\ cursor = 1
    BY <1>2, <2>1 DEF AtEnd
  <2>3. Name = <<>>
    BY <2>1, <2>2, SubSeqEmpty DEF Name
  <2>4. loop' = "done" /\ result' = result
    BY <2>2, <2>3 DEF ScanSeparator, GoOn
  <2>5. result = <<>>
    BY <1>1, <1>5, <2>1 DEF QueryInv, ScanInv, ReadSoFar
  <2>6. QED
    BY <1>1, <1>3, <1>5, <2>4, <2>5 DEF QueryInv, ScanInv, DecodeInv, QueryRoundTrip
<1>6. CASE Plain /\ fields # <<>>
  <2>1. ReadSoFar /\ UnderWay
    BY <1>1, <1>6 DEF QueryInv, ScanInv
  <2>2. Here.kind = "separator" /\ Scanned \in 1..Len(fields)
    <3>1. Here.kind # "separator" => ~AtEnd /\ query[cursor] = AMP /\ AMP # EQUALS
      BY <1>1, <1>2, <1>6, Sees DEF AMP, EQUALS
    <3>2. Here.kind # "equals" /\ Here.kind # "value"
      BY <1>1, <1>2, <1>6, <3>1, Sees
    <3>3. Here.kind # "name"
      BY <1>1, <1>2, <1>6, <3>1, Sees DEF Plain
    <3>4. QED
      BY <1>1, <1>2, <1>6, <3>2, <3>3, Sees
  <2>3. InValue
    BY <1>6, <2>1, <2>2 DEF UnderWay
  <2>4. Name = fields[Scanned].name /\ Name # <<>>
    BY <1>1, <1>2, <1>6, <2>2, <2>3, NameFound DEF QueryInv, ScanType, Plain
  <2>5. /\ Emplace /\ valuePos # None /\ valuePos \in 1..cursor
        /\ Sign(valuePos) = ValueFrom(fields, Scanned, 1)
    <3>1. Len(fields[Scanned].name) \in Nat
      BY <1>2, <2>2, FieldType
    <3>2. /\ valuePos = namePos + Len(fields[Scanned].name) + 1 /\ valuePos <= cursor
          /\ Sign(valuePos) = ValueFrom(fields, Scanned, 1) /\ namePos \in 1..cursor
      BY <2>3 DEF InValue, NameBegins
    <3>3. QED
      BY <1>2, <2>4, <3>1, <3>2 DEF ScanSeparator, None
  <2>6. DecodeInv'
    <3>1. /\ loop' = "decode" /\ spot' = valuePos /\ decoded' = <<>>
          /\ UNCHANGED <<cursor, namePos, nameEndPos, valuePos, result>>
      BY <2>5 DEF Emplace, scanned
    <3>2. \A p : Sign(p)' = Sign(p)
      BY <1>1 DEF Sign
    <3>3. Here' = Here /\ Scanned' = Scanned
      BY <1>1, <3>1 DEF Here, Sign, Scanned
    <3>4. ReadSoFar' /\ InValue'
      BY <1>1, <2>1, <2>3, <3>1, <3>2, <3>3 DEF ReadSoFar, InValue, NameBegins
    <3>5. PICK n : n = valuePos
      OBVIOUS
    <3>6. Sign(spot)' = ValueFrom(fields', Scanned', 1)
      <4>1. Sign(n)' = ValueFrom(fields, Scanned, 1)
        BY <2>5, <3>2, <3>5
      <4>2. spot' = n
        BY <3>1, <3>5
      <4>3. QED
        BY <1>1, <3>3, <4>1, <4>2 DEF Sign
    <3>7. /\ decoded' \in Seq(Octet) /\ Len(decoded') = 0
          /\ 0 <= Len(fields[Scanned].value)
      BY <1>2, <2>2, <3>1, FieldType
    <3>8. QED
      BY <1>1, <1>6, <2>2, <2>5, <3>1, <3>3, <3>4, <3>6, <3>7 DEF DecodeInv
  <2>7. QED
    BY <1>1, <1>3, <2>5, <2>6 DEF QueryInv, ScanInv, QueryRoundTrip, Emplace
<1>7. QED
  BY <1>4, <1>5, <1>6

(* What decode() reads at a character's first place is the character, and  *)
(* it goes on behind its last one.                                         *)
LEMMA DecodesOne ==
  ASSUME WrittenInv, loop # "name", fields # <<>>, cursor \in 1..Len(query) + 1,
         NEW k \in 1..Len(fields), NEW j \in 1..Len(fields[k].value),
         NEW p \in 1..cursor - 1, Sign(p) = Place("value", k, j, 1),
         Here.kind = "separator"
  PROVE  /\ Decode(query, p, cursor) = fields[k].value[j]
         /\ Behind(query, p, cursor) \in p..cursor
         /\ Sign(Behind(query, p, cursor)) = ValueFrom(fields, k, j + 1)
<1> DEFINE o == fields[k].value[j]
           digits == Encode(o)
<1>1. /\ o \in Octet /\ Len(query) \in Nat /\ fields \in Fields /\ Len(fields) \in 0..Len(fields)
  <2>1. fields \in Fields /\ Len(query) \in Nat
    BY DEF WrittenInv, WrittenType, Fields
  <2>2. fields[k].value \in Seq(Octet)
    BY <2>1, FieldType
  <2>3. QED
    BY <2>1, <2>2 DEF Fields
<1>2. ASSUME NEW q \in 1..Len(query), NEW d \in Nat, Sign(q) = Place("value", k, j, d)
      PROVE  /\ d \in 1..Len(digits) /\ query[q] = digits[d]
             /\ Sign(q + 1) = IF d < Len(digits) THEN Place("value", k, j, d + 1)
                              ELSE ValueFrom(fields, k, j + 1)
  <2>1. /\ Sign(q) \in Places /\ IsPlace(fields, Len(fields), Sign(q), query[q])
        /\ Sign(q + 1) = NextPlace(fields, Sign(q))
    BY <1>1, Signs
  <2>2. query[q] \in Octet
    BY DEF WrittenInv, WrittenType
  <2>3. Sign(q).kind = "value" /\ Sign(q).field = k /\ Sign(q).index = j /\ Sign(q).digit = d
    BY <1>2 DEF Place
  <2>4. IsValue(fields, Len(fields), Sign(q), query[q])
    BY <1>1, <2>1, <2>2, <2>3, KindOfPlace
  <2>5. QED
    BY <2>1, <2>3, <2>4 DEF IsValue, NextPlace
<1>3. ASSUME NEW q \in 1..cursor, NEW d \in Nat, Sign(q) = Place("value", k, j, d)
      PROVE  q \in 1..Len(query) /\ q < cursor
  <2>1. q # cursor
    BY <1>3 DEF Here, Place
  <2>2. QED
    BY <1>1, <2>1
<1>4. p \in 1..Len(query) /\ p < cursor /\ p \in 1..cursor
  BY <1>1
<1>5. query[p] = digits[1]
  BY <1>2, <1>4
<1>6. CASE digits = <<o>> /\ o \notin {AMP, EQUALS, PERCENT, PLUS}
  <2>1. query[p] = o /\ Len(digits) = 1
    BY <1>5, <1>6
  <2>2. Sign(p + 1) = ValueFrom(fields, k, j + 1)
    BY <1>2, <1>4, <2>1
  <2>3. Decode(query, p, cursor) = o /\ Behind(query, p, cursor) = p + 1
    BY <1>6, <2>1 DEF Decode, Behind, IsEscape
  <2>4. QED
    BY <1>1, <1>4, <2>2, <2>3
<1>7. ASSUME NEW a \in Octet \ {AMP, EQUALS}, NEW b \in Octet \ {AMP, EQUALS},
             digits = <<PERCENT, a, b>>, 16 * HexValue(a) + HexValue(b) = o
      PROVE  /\ Decode(query, p, cursor) = o
             /\ Behind(query, p, cursor) \in p..cursor
             /\ Sign(Behind(query, p, cursor)) = ValueFrom(fields, k, j + 1)
  <2>0. Len(digits) = 3 /\ digits[1] = PERCENT /\ digits[2] = a /\ digits[3] = b
    BY <1>7
  <2> HIDE DEF digits, o
  <2>1. Sign(p + 1) = Place("value", k, j, 2)
    BY <1>2, <1>4, <2>0
  <2>2. p + 1 \in 1..Len(query) /\ p + 1 < cursor
    BY <1>1, <1>3, <1>4, <2>1
  <2>3. query[p + 1] = a /\ Sign(p + 2) = Place("value", k, j, 3)
    <3>1. query[p + 1] = digits[2] /\ Sign((p + 1) + 1) = Place("value", k, j, 2 + 1)
      BY <1>2, <2>0, <2>1, <2>2
    <3>2. (p + 1) + 1 = p + 2
      BY <1>1
    <3>3. QED
      BY <2>0, <3>1, <3>2
  <2>4. p + 2 \in 1..Len(query) /\ p + 2 < cursor
    BY <1>1, <1>3, <1>4, <2>2, <2>3
  <2>5. query[p + 2] = b /\ Sign(p + 3) = ValueFrom(fields, k, j + 1)
    <3>1. query[p + 2] = digits[3] /\ Sign((p + 2) + 1) = ValueFrom(fields, k, j + 1)
      BY <1>2, <2>0, <2>3, <2>4
    <3>2. (p + 2) + 1 = p + 3
      BY <1>1
    <3>3. QED
      BY <2>0, <3>1, <3>2
  <2>6. IsEscape(query, p, cursor)
    BY <1>5, <2>0, <2>4 DEF IsEscape
  <2>7. Decode(query, p, cursor) = o /\ Behind(query, p, cursor) = p + 3
    BY <1>7, <2>3, <2>5, <2>6 DEF Decode, Behind
  <2>8. QED
    BY <1>1, <1>4, <2>4, <2>5, <2>7
<1>8. QED
  BY <1>1, <1>6, <1>7, EncodedOctet

(* The loop of decode().                                                   *)
LEMMA DecodeNextStep ==
  ASSUME QueryInv, DecodeNext
  PROVE  QueryInv'
<1>1. /\ WrittenInv' /\ loop # "name" /\ WrittenInv
      /\ fields' = fields /\ query' = query /\ origin' = origin
      /\ loop = "decode" /\ loop' = "decode" /\ spot < cursor
      /\ UNCHANGED <<cursor, namePos, nameEndPos, valuePos, result>>
      /\ decoded' = Append(decoded, Decode(query, spot, cursor))
      /\ spot' = Behind(query, spot, cursor)
  BY OthersWritten DEF QueryInv, DecodeNext, written, scanned
<1>2. fields \in Fields /\ Len(query) \in Nat /\ cursor \in 1..Len(query) + 1
  BY DEF QueryInv, ScanType, WrittenInv, WrittenType, Fields
<1>3. ScanType' /\ NothingScanned'
  BY <1>1 DEF QueryInv, ScanType, NothingScanned
<1>4. DecodeInv'
  <2> SUFFICES ASSUME Plain' PROVE DecodeInv'
    BY DEF DecodeInv
  <2> DEFINE n == Len(decoded)
             value == fields[Scanned].value
  <2>1. /\ fields # <<>> /\ ReadSoFar /\ Here.kind = "separator" /\ InValue
        /\ spot \in valuePos..cursor /\ decoded \in Seq(Octet)
        /\ \A i \in DOMAIN decoded : decoded[i] = value[i]
        /\ Sign(spot) = ValueFrom(fields, Scanned, n + 1)
        /\ n <= Len(value)
    <3>1. Plain
      BY <1>1 DEF Plain
    <3>2. QED
      BY <1>1, <3>1 DEF QueryInv, DecodeInv
  <2>2. Scanned \in 1..Len(fields)
    BY <1>1, <1>2, <2>1, Sees
  <2>3. value \in Seq(Octet) /\ Len(fields[Scanned].name) \in Nat
    BY <1>2, <2>2, FieldType
  <2>4. valuePos \in 1..cursor /\ spot \in valuePos..cursor - 1 /\ spot \in 1..cursor - 1
    <3>1. /\ valuePos = namePos + Len(fields[Scanned].name) + 1 /\ valuePos <= cursor
          /\ namePos \in 1..cursor
      BY <2>1 DEF InValue, NameBegins
    <3>2. QED
      BY <1>1, <1>2, <2>1, <2>3, <3>1
  <2>5. Sign(spot) = Place("value", Scanned, n + 1, 1) /\ n + 1 \in 1..Len(value)
    <3>1. Sign(spot).kind = "value"
      BY <2>1, <2>4 DEF InValue
    <3>2. n + 1 <= Len(value)
      BY <2>1, <3>1 DEF ValueFrom, Place
    <3>3. QED
      BY <2>1, <2>3, <3>2 DEF ValueFrom
  <2>6. /\ Decode(query, spot, cursor) = value[n + 1]
        /\ spot' \in spot..cursor
        /\ Sign(Behind(query, spot, cursor)) = ValueFrom(fields, Scanned, n + 2)
    <3>1. (n + 1) + 1 = n + 2
      BY <2>1
    <3>2. QED
      BY <1>1, <1>2, <2>1, <2>2, <2>4, <2>5, <3>1, DecodesOne
  <2>7. \A p : Sign(p)' = Sign(p)
    BY <1>1 DEF Sign
  <2>8. Here' = Here /\ Scanned' = Scanned
    BY <1>1 DEF Here, Sign, Scanned
  <2>9. ReadSoFar' /\ InValue'
    BY <1>1, <2>1, <2>7, <2>8 DEF ReadSoFar, InValue, NameBegins
  <2>10. spot' \in valuePos..cursor
    BY <1>2, <2>4, <2>6
  <2>11. /\ decoded' \in Seq(Octet) /\ Len(decoded') = n + 1
         /\ \A i \in DOMAIN decoded' : decoded'[i] = value[i]
    <3>1. value[n + 1] \in Octet
      BY <2>3, <2>5
    <3> HIDE DEF value
    <3>2. decoded' = Append(decoded, value[n + 1])
      BY <1>1, <2>6
    <3>3. QED
      BY <2>1, <3>1, <3>2
  <2>12. Sign(spot)' = ValueFrom(fields', Scanned', Len(decoded') + 1)
    <3>1. (n + 1) + 1 = n + 2
      BY <2>1
    <3>2. PICK p : p = Behind(query, spot, cursor)
      OBVIOUS
    <3>3. Sign(p)' = ValueFrom(fields, Scanned, n + 2) /\ spot' = p
      BY <1>1, <2>6, <2>7, <3>2
    <3>4. QED
      BY <1>1, <2>8, <2>11, <3>1, <3>3 DEF Sign
  <2>13. QED
    BY <1>1, <2>1, <2>5, <2>8, <2>9, <2>10, <2>11, <2>12 DEF DecodeInv
<1>5. QED
  BY <1>1, <1>3, <1>4 DEF QueryInv, ScanInv, QueryRoundTrip

(* result.emplace(): the field is there, with all of its value.            *)
LEMMA DecodeReturnsStep ==
  ASSUME QueryInv, DecodeReturns
  PROVE  QueryInv'
<1>1. /\ WrittenInv' /\ loop # "name" /\ WrittenInv
      /\ fields' = fields /\ query' = query /\ origin' = origin
      /\ loop = "decode" /\ loop' \in {"parse", "done"} /\ spot >= cursor
      /\ namePos' = cursor + 1 /\ nameEndPos' = None /\ valuePos' = None
      /\ IF AtEnd THEN loop' = "done" /\ cursor' = cursor
         ELSE loop' = "parse" /\ cursor' = cursor + 1
      /\ result' = Append(result, [name |-> Name, value |-> decoded])
  BY OthersWritten DEF QueryInv, DecodeReturns, GoOn, written
<1>2. fields \in Fields /\ Len(query) \in Nat /\ cursor \in 1..Len(query) + 1
  BY DEF QueryInv, ScanType, WrittenInv, WrittenType, Fields
<1>3. ScanType' /\ NothingScanned'
  BY <1>1, <1>2 DEF QueryInv, ScanType, NothingScanned, AtEnd, None
<1>4. CASE ~Plain
  <2>1. ~Plain'
    BY <1>1, <1>4 DEF Plain
  <2>2. QED
    BY <1>1, <1>3, <2>1 DEF QueryInv, ScanInv, DecodeInv, QueryRoundTrip
<1>5. CASE Plain
  <2> DEFINE n == Len(decoded)
             value == fields[Scanned].value
  <2>1. /\ fields # <<>> /\ ReadSoFar /\ Here.kind = "separator" /\ InValue
        /\ spot \in valuePos..cursor /\ decoded \in Seq(Octet)
        /\ \A i \in DOMAIN decoded : decoded[i] = value[i]
        /\ Sign(spot) = ValueFrom(fields, Scanned, n + 1)
        /\ n <= Len(value)
    BY <1>1, <1>5 DEF QueryInv, DecodeInv
  <2>2. /\ Scanned \in 1..Len(fields)
        /\ AtEnd => Scanned = Len(fields)
        /\ ~AtEnd => Scanned + 1 \in 1..Len(fields)
        /\ Here = Place("separator", Here.field, 0, 0)
    BY <1>1, <1>2, <2>1, Sees
  <2>3. value \in Seq(Octet) /\ Len(fields[Scanned].name) \in Nat
    BY <1>2, <2>2, FieldType
  <2>4. decoded = value
    <3>1. valuePos \in Int
      BY <1>1 DEF QueryInv, ScanType
    <3>2. spot = cursor
      BY <1>1, <1>2, <2>1, <3>1
    <3>3. ~(n + 1 <= Len(value))
      BY <2>1, <3>2 DEF Here, ValueFrom, Place
    <3>4. n = Len(value)
      BY <2>1, <2>3, <3>3
    <3>5. QED
      BY <2>1, <2>3, <3>4, SeqEqual
  <2>5. Name = fields[Scanned].name
    BY <1>1, <1>2, <2>1, <2>2, NameFound DEF QueryInv, ScanType
  <2>6. /\ result' \in Fields /\ Len(result') = Scanned
        /\ \A k \in 1..Len(result') : result'[k] = fields[k]
    <3>1. fields[Scanned] \in FieldOf(Seq(Octet), Seq(Octet))
      BY <1>2, <2>2, FieldType
    <3>2. [name |-> Name, value |-> decoded] = fields[Scanned]
      BY <2>4, <2>5, <3>1 DEF FieldOf
    <3>3. result' = Append(result, fields[Scanned])
      BY <1>1, <3>2
    <3>4. /\ result \in Fields /\ Len(result) = Scanned - 1
          /\ \A k \in DOMAIN result : result[k] = fields[k]
      BY <2>1 DEF ReadSoFar, Fields
    <3>5. QED
      BY <2>2, <3>1, <3>3, <3>4 DEF Fields
  <2>7. CASE AtEnd
    <3>1. result' = fields
      BY <1>2, <2>2, <2>6, <2>7, SeqEqual DEF Fields
    <3>2. QED
      BY <1>1, <1>3, <2>7, <3>1 DEF QueryInv, ScanInv, DecodeInv, QueryRoundTrip
  <2>8. CASE ~AtEnd
    <3>1. cursor \in 1..Len(query) /\ cursor' = cursor + 1 /\ loop' = "parse"
      BY <1>1, <1>2, <2>8 DEF AtEnd
    <3>2. Here' = NextPlace(fields, Here)
      BY <1>1, <2>1, <3>1, Ahead
    <3>3. Here.field = Scanned + 1
      <4>1. Scanned = Here.field - 1
        BY <2>1 DEF Scanned
      <4>2. Here.field \in Nat
        <5>1. Here = Sign(cursor) /\ Sign(cursor) \in Places
          BY <1>1, <2>1, <3>1, Signs DEF Here
        <5>2. QED
          BY <5>1 DEF Places
      <4>3. QED
        BY <4>1, <4>2
    <3>4. Here' = Place("name", Scanned + 1, 1, 1)
      <4>1. fields[Scanned + 1].name # <<>>
        BY <1>2, <1>5, <2>2, <2>8 DEF Plain, Fields
      <4>2. 1 <= Len(fields[Scanned + 1].name)
        BY <1>2, <2>2, <2>8, <4>1, FieldType
      <4>3. QED
        BY <2>1, <3>2, <3>3, <4>2 DEF NextPlace, NameFrom
    <3>5. Scanned' = Scanned + 1 /\ Here'.kind = "name" /\ Here'.index - 1 = 0
      BY <3>4 DEF Scanned, Place
    <3>6. ReadSoFar'
      BY <1>1, <2>1, <2>2, <2>6, <3>5 DEF ReadSoFar, Fields
    <3>7. InName(0)'
      BY <1>1, <1>2, <3>1 DEF InName, NameBegins
    <3>8. UnderWay'
      <4>1. InName(Here.index - 1)'
        BY <3>5, <3>7
      <4>2. QED
        BY <1>1, <2>1, <3>5, <4>1 DEF UnderWay
    <3>9. QED
      BY <1>1, <1>3, <3>1, <3>6, <3>8 DEF QueryInv, ScanInv, DecodeInv, QueryRoundTrip
  <2>9. QED
    BY <2>7, <2>8
<1>6. QED
  BY <1>4, <1>5

(* Every step of create(), parse() and decode() preserves QueryInv.        *)
LEMMA NextQueryInv == OctetsAssumption /\ QueryInv /\ [QueryNext]_queryVars => QueryInv'
<1> SUFFICES ASSUME OctetsAssumption, QueryInv, [QueryNext]_queryVars PROVE QueryInv'
  OBVIOUS
<1>1. CASE NextField \/ WriteEquals \/ \E o \in Octets : WriteName(o) \/ WriteValue(o)
  BY <1>1, WritingStep
<1>2. CASE CreateReturns
  BY <1>2, CreateReturnsStep
<1>3. CASE ScanSeparator
  BY <1>3, ScanSeparatorStep
<1>4. CASE ScanEquals
  BY <1>4, ScanEqualsStep
<1>5. CASE ScanOther
  BY <1>5, ScanOtherStep
<1>6. CASE DecodeNext
  BY <1>6, DecodeNextStep
<1>7. CASE DecodeReturns
  BY <1>7, DecodeReturnsStep
<1>8. CASE UNCHANGED queryVars
  <2>1. /\ loop' = loop /\ fields' = fields /\ query' = query /\ origin' = origin
        /\ cursor' = cursor /\ namePos' = namePos /\ nameEndPos' = nameEndPos
        /\ valuePos' = valuePos /\ spot' = spot /\ decoded' = decoded /\ result' = result
    BY <1>8 DEF queryVars, written, scanned, read
  <2>2. WrittenInv'
    BY <2>1 DEF QueryInv, WrittenInv, WrittenType, LastPlace
  <2>3. ScanType' /\ NothingScanned' /\ QueryRoundTrip'
    BY <2>1 DEF QueryInv, ScanType, NothingScanned, QueryRoundTrip, Plain
  <2>4. /\ Here' = Here /\ Scanned' = Scanned /\ \A p : Sign(p)' = Sign(p)
        /\ Sign(valuePos)' = Sign(valuePos) /\ Sign(spot)' = Sign(spot)
    BY <2>1 DEF Here, Sign, Scanned
  <2>5. /\ Plain' = Plain /\ ReadSoFar' = ReadSoFar /\ InValue' = InValue
        /\ UnderWay' = UnderWay
    BY <2>1, <2>4 DEF Plain, ReadSoFar, InValue, InName, NameBegins, UnderWay
  <2>6. ScanInv' /\ DecodeInv'
    BY <2>1, <2>4, <2>5 DEF QueryInv, ScanInv, DecodeInv
  <2>7. QED
    BY <2>2, <2>3, <2>6 DEF QueryInv
<1>9. QED
  BY <1>1, <1>2, <1>3, <1>4, <1>5, <1>6, <1>7, <1>8 DEF QueryNext

(* QueryInv holds in every reachable state.                                *)
THEOREM QueryInvariant == QuerySpec => []QueryInv
<1>1. QueryInit => QueryInv
  BY InitQueryInv
<1>2. QueryInv /\ [QueryNext]_queryVars => QueryInv'
  BY NextQueryInv, OctetsAssumption
<1>3. QED
  BY <1>1, <1>2, PTL DEF QuerySpec

(* Any fields come back from a query string, whatever their values are, if *)
(* their names are not empty and have no '&' and no '='                    *)
(* (src/utility.hpp:72-162).                                               *)
THEOREM QueriesRoundTrip == QuerySpec => []QueryRoundTrip
<1>1. QueryInv => QueryRoundTrip
  BY DEF QueryInv
<1>2. QED
  BY <1>1, QueryInvariant, PTL
=============================================================================
