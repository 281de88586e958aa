-------------------------- MODULE Dispatch_proofs --------------------------
(***************************************************************************)
(* The life of a response between two threads, for any members, functions  *)
(* and bounds on what the script keeps.                                    *)
(***************************************************************************)
EXTENDS Dispatch, FiniteSetTheorems, TLAPS

DTypeOK ==
    /\ refs \in Int
    /\ load \in [{"io", "main"} -> Int \cup {None}]
    /\ io \in {"arg", "post", "release", "delete", "done"}
    /\ event \in {"none", "queued", "running", "over"}
    /\ vars \in Nat /\ files \in Int
    /\ main \in {"idle", "variable", "drop", "event", "sendFile", "release", "destructor"}
    /\ life \in {"alive", "ending", "deleted"}
    /\ over \in BOOLEAN /\ raced \in BOOLEAN /\ broken \in BOOLEAN

\* What the main thread counts refers to the object, and so does the caller of
\* a member, also when a variable is about to go.
MainRefers ==
    /\ load["main"] # None <=> main \notin {"idle", "destructor"}
    /\ main = "variable" => event = "running" \/ vars > 0
    /\ main = "sendFile" => vars > 0
    /\ main = "event" => event = "over"
    /\ main = "drop" => vars > 0 /\ (Locked => vars > 1)
    /\ Locked => vars > 0

\* Before the event is handled the io thread is alone.
IoAlone ==
    /\ event = "none" <=> io \in {"arg", "post"}
    /\ load["io"] # None => io # "done"
    /\ event \in {"none", "queued"} =>
          /\ main = "idle" /\ vars = 0 /\ files = 0 /\ ~raced /\ ~over
          /\ load["io"] \in {None, refs}

Holders == Referrers + files

\* The count is the number of references, of which the last one ends it.  What
\* a thread has loaded was the count of an object.
HoldersCounted ==
    /\ ~over => files >= 0
    /\ ~raced /\ ~broken =>
          /\ refs = Holders
          /\ life = "alive" <=> Holders > 0
          /\ \A t \in {"io", "main"} : load[t] # None => load[t] > 0

IInv == DTypeOK /\ MainRefers /\ IoAlone /\ HoldersCounted /\ DestructorIsAlone

USE DEF Defined

\* A count is a number; a call of sendFile() is a call.
LEMMA NoneIsNoNumber == None \notin Int /\ None \notin {"sendFile", "release"}
  BY FunctionsAssumption, NativeAssumption, MembersAssumption

\* The first state: the response is the io thread's alone.
LEMMA InitInv == DInit => IInv
<1> SUFFICES ASSUME DInit PROVE IInv
  OBVIOUS
<1>1. DTypeOK
  <2>1. load \in [{"io", "main"} -> Int \cup {None}]
    BY DEF DInit
  <2>2. over \in BOOLEAN /\ raced \in BOOLEAN /\ broken \in BOOLEAN
    BY DEF DInit
  <2> QED
    BY <2>1, <2>2 DEF DInit, NativeInit, DTypeOK
<1>2. MainRefers /\ IoAlone /\ HoldersCounted /\ DestructorIsAlone
  BY DEF DInit, NativeInit, MainRefers, IoAlone, HoldersCounted, Holders, Referrers,
         DestructorIsAlone, Locked
<1> QED
  BY <1>1, <1>2 DEF IInv

\* The variables are among the references, and the event that is deleted.
LEMMA VariablesRefer ==
    ASSUME DTypeOK
    PROVE  /\ Referrers \in Int /\ Referrers >= vars
           /\ main = "event" /\ event = "over" => Referrers >= vars + 1
<1> DEFINE I == CASE io = "arg" -> 1 [] io \in {"post", "release"} -> 2
                  [] io = "delete" -> 1 [] io = "done" -> 0
           E == CASE event = "queued" -> 1 [] event = "running" -> 1
                  [] event = "over" -> IF main = "event" THEN 1 ELSE 0
                  [] event = "none" -> 0
<1>1. I \in Nat
  BY DEF DTypeOK
<1>2. E \in Nat /\ (main = "event" /\ event = "over" => E = 1)
  BY DEF DTypeOK
<1>3. Referrers = I + E + vars
  BY DEF Referrers
<1> HIDE DEF I, E
<1> QED
  BY <1>1, <1>2, <1>3 DEF DTypeOK

\* One step of either thread, each way once.
LEMMA NextInv == IInv /\ [DNext]_all => IInv'
<1> SUFFICES ASSUME IInv, [DNext]_all PROVE IInv'
  OBVIOUS
<1> USE NoneIsNoNumber
        DEF IInv, DTypeOK, MainRefers, IoAlone, HoldersCounted, Holders, Referrers, DestructorIsAlone,
            Locked, table, nativeVars
<1>1. CASE Defined /\ IoLoads
  <2> USE <1>1 DEF IoLoads, Load
  <2>1. DTypeOK'
    OBVIOUS
  <2>2. MainRefers'
    OBVIOUS
  <2>3. IoAlone'
    OBVIOUS
  <2>4. HoldersCounted'
    OBVIOUS
  <2>5. DestructorIsAlone'
    OBVIOUS
  <2> QED
    BY <2>1, <2>2, <2>3, <2>4, <2>5
<1>2. CASE Defined /\ Arg
  <2> USE <1>2 DEF Arg, AddRef, Stores
  <2>1. DTypeOK'
    OBVIOUS
  <2>2. MainRefers'
    OBVIOUS
  <2>3. IoAlone'
    OBVIOUS
  <2>4. HoldersCounted'
    OBVIOUS
  <2>5. DestructorIsAlone'
    OBVIOUS
  <2> QED
    BY <2>1, <2>2, <2>3, <2>4, <2>5
<1>3. CASE Defined /\ PostEvent
  <2> USE <1>3 DEF PostEvent, AddRef, Stores
  <2>1. DTypeOK'
    OBVIOUS
  <2>2. MainRefers'
    OBVIOUS
  <2>3. IoAlone'
    OBVIOUS
  <2>4. HoldersCounted'
    OBVIOUS
  <2>5. DestructorIsAlone'
    OBVIOUS
  <2> QED
    BY <2>1, <2>2, <2>3, <2>4, <2>5
<1>4. CASE Defined /\ ReleaseOwn
  <2> USE <1>4 DEF ReleaseOwn, Release, Stores
  <2>1. DTypeOK'
    OBVIOUS
  <2>2. MainRefers'
    OBVIOUS
  <2>3. IoAlone'
    OBVIOUS
  <2>4. ~raced' => load["io"] = Holders
    OBVIOUS
  <2>5. ~raced' => Holders > 0 /\ (~over => Holders > 1)
    OBVIOUS
  <2>6. load["io"] \in Int
    OBVIOUS
  <2>7. ~raced' => refs' = Holders'
    BY <2>4, <2>6
  <2>8. ~raced' => (life' = "alive" <=> Holders' > 0)
    BY <2>4, <2>5, <2>6
  <2>9. HoldersCounted'
    BY <2>7, <2>8
  <2>10. DestructorIsAlone'
    BY <2>4, <2>5, <2>6
  <2> QED
    BY <2>1, <2>2, <2>3, <2>9, <2>10
<1>5. CASE Defined /\ DeleteArg
  <2> USE <1>5 DEF DeleteArg, Release, Stores
  <2>1. DTypeOK'
    OBVIOUS
  <2>2. MainRefers'
    OBVIOUS
  <2>3. IoAlone'
    OBVIOUS
  <2>4. ~raced' => load["io"] = Holders
    OBVIOUS
  <2>5. ~raced' => Holders > 0 /\ (Locked /\ ~over => Holders > 1)
    OBVIOUS
  <2>6. load["io"] \in Int
    OBVIOUS
  <2>7. ~raced' => refs' = Holders'
    BY <2>4, <2>6
  <2>8. ~raced' => (life' = "alive" <=> Holders' > 0)
    BY <2>4, <2>5, <2>6
  <2>9. HoldersCounted'
    BY <2>7, <2>8
  <2>10. DestructorIsAlone'
    BY <2>4, <2>5, <2>6
  <2> QED
    BY <2>1, <2>2, <2>3, <2>9, <2>10
<1>6. CASE Defined /\ Handle
  <2> USE <1>6 DEF Handle, Free, Counts, Load
  <2>1. DTypeOK'
    OBVIOUS
  <2>2. MainRefers'
    OBVIOUS
  <2>3. IoAlone'
    OBVIOUS
  <2>4. HoldersCounted'
    OBVIOUS
  <2>5. DestructorIsAlone'
    OBVIOUS
  <2> QED
    BY <2>1, <2>2, <2>3, <2>4, <2>5
<1>7. CASE Defined /\ Keep
  <2> USE <1>7 DEF Keep, Scripting, Free, Counts, Load
  <2>1. DTypeOK'
    OBVIOUS
  <2>2. MainRefers'
    OBVIOUS
  <2>3. IoAlone'
    OBVIOUS
  <2>4. HoldersCounted'
    OBVIOUS
  <2>5. DestructorIsAlone'
    OBVIOUS
  <2> QED
    BY <2>1, <2>2, <2>3, <2>4, <2>5
<1>8. CASE Defined /\ DropVariable
  <2> USE <1>8 DEF DropVariable, Scripting, Free, Counts, Load
  <2>1. DTypeOK'
    OBVIOUS
  <2>2. MainRefers'
    OBVIOUS
  <2>3. IoAlone'
    OBVIOUS
  <2>4. HoldersCounted'
    OBVIOUS
  <2>5. DestructorIsAlone'
    OBVIOUS
  <2> QED
    BY <2>1, <2>2, <2>3, <2>4, <2>5
<1>9. CASE Defined /\ HandlerReturns
  <2> USE <1>9 DEF HandlerReturns, Free, Counts, Load
  <2>1. DTypeOK'
    OBVIOUS
  <2>2. MainRefers'
    OBVIOUS
  <2>3. IoAlone'
    OBVIOUS
  <2>4. HoldersCounted'
    OBVIOUS
  <2>5. DestructorIsAlone'
    OBVIOUS
  <2> QED
    BY <2>1, <2>2, <2>3, <2>4, <2>5
<1>10. CASE Defined /\ SendFile
  <2> USE <1>10 DEF SendFile, Free, Counts, Load
  <2>1. DTypeOK'
    OBVIOUS
  <2>2. MainRefers'
    OBVIOUS
  <2>3. IoAlone'
    OBVIOUS
  <2>4. HoldersCounted'
    OBVIOUS
  <2>5. DestructorIsAlone'
    OBVIOUS
  <2> QED
    BY <2>1, <2>2, <2>3, <2>4, <2>5
<1>11. CASE Defined /\ ReleaseFile
  <2> USE <1>11 DEF ReleaseFile, Free, Counts, Load
  <2>1. DTypeOK'
    OBVIOUS
  <2>2. MainRefers'
    OBVIOUS
  <2>3. IoAlone'
    OBVIOUS
  <2>4. HoldersCounted'
    OBVIOUS
  <2>5. DestructorIsAlone'
    OBVIOUS
  <2> QED
    BY <2>1, <2>2, <2>3, <2>4, <2>5
<1>12. CASE Defined /\ Added
  <2> USE <1>12 DEF Added, AddRef, Stores
  <2>1. DTypeOK'
    OBVIOUS
  <2>2. MainRefers'
    OBVIOUS
  <2>3. IoAlone'
    OBVIOUS
  <2>4. ~raced' => load["main"] = Holders
    OBVIOUS
  <2>5. (~raced' => Holders > 0) /\ load["main"] \in Int
    OBVIOUS
  <2>6. HoldersCounted'
    BY <2>4, <2>5
  <2>7. DestructorIsAlone'
    OBVIOUS
  <2> QED
    BY <2>1, <2>2, <2>3, <2>6, <2>7
<1>13. CASE Defined /\ Dropped
  <2> USE <1>13 DEF Dropped, Release, Stores
  <2>1. files' \in Int /\ over' \in BOOLEAN /\ (~over' => files' >= 0)
    <3>1. CASE main = "release"
      <4>1. files' = files - 1 /\ over' = (over \/ files < 1)
        BY <3>1
      <4>2. over' \in BOOLEAN
        BY <4>1, Zenon
      <4>3. ~over' => ~(files < 1)
        BY <4>1, Zenon
      <4>4. files \in Int
        OBVIOUS
      <4> QED
        BY ONLY <4>1, <4>2, <4>3, <4>4
    <3>2. CASE main # "release"
      <4>1. files' = files /\ over' = over
        BY <3>2
      <4> QED
        BY <4>1
    <3> QED
      BY <3>1, <3>2
  <2>2. vars' \in Nat /\ refs' \in Int /\ load' \in [{"io", "main"} -> Int \cup {None}]
    OBVIOUS
  <2>3. main' \in {"idle", "destructor"} /\ life' \in {"alive", "ending", "deleted"}
    OBVIOUS
  <2>4. DTypeOK'
    BY <2>1, <2>2, <2>3
  <2>5. MainRefers'
    OBVIOUS
  <2>6. IoAlone'
    OBVIOUS
  <2>7. ~raced' => load["main"] = Holders
    OBVIOUS
  <2>8. ~raced' => Holders > 0
    OBVIOUS
  <2>9. ~over' => files >= 0 /\ (main = "release" => files >= 1)
    <3>1. main = "release" => over' = (over \/ files < 1)
      OBVIOUS
    <3>2. main # "release" => over' = over
      OBVIOUS
    <3>3. files \in Int /\ (~over => files >= 0)
      OBVIOUS
    <3>4. ~over' => ~over /\ (main = "release" => ~(files < 1))
      BY ONLY <3>1, <3>2, Zenon
    <3> QED
      BY ONLY <3>3, <3>4
  <2>10. Locked => vars > 0 /\ (main = "drop" => vars > 1)
    OBVIOUS
  <2>11. main = "event" => event = "over"
    OBVIOUS
  <2>12. vars \in Nat /\ files \in Int /\ Holders = Referrers + files
    OBVIOUS
  <2>13. /\ Referrers \in Int /\ Referrers >= vars
         /\ main = "event" /\ event = "over" => Referrers >= vars + 1
    BY VariablesRefer
  <2>14. main \in {"drop", "event", "release"}
    OBVIOUS
  <2>15. ~raced' => Holders > 0 /\ (Locked /\ ~over' => Holders > 1)
    <3> HIDE DEF Holders, Referrers, Locked
    <3> QED
      BY ONLY <2>8, <2>9, <2>10, <2>11, <2>12, <2>13, <2>14
  <2>16. load["main"] \in Int
    OBVIOUS
  <2>17. ~raced' => refs' = Holders'
    BY <2>7, <2>16
  <2>18. ~raced' => (life' = "alive" <=> Holders' > 0)
    BY <2>7, <2>15, <2>16
  <2>19. HoldersCounted'
    BY <2>17, <2>18, <2>1
  <2>20. DestructorIsAlone'
    BY <2>7, <2>15, <2>16
  <2> QED
    BY <2>4, <2>5, <2>6, <2>19, <2>20
<1>14. CASE Defined /\ Invalidate
  <2> USE <1>14 DEF Invalidate, Free
  <2>1. DTypeOK'
    OBVIOUS
  <2>2. MainRefers'
    OBVIOUS
  <2>3. IoAlone'
    OBVIOUS
  <2>4. HoldersCounted'
    OBVIOUS
  <2>5. DestructorIsAlone'
    OBVIOUS
  <2> QED
    BY <2>1, <2>2, <2>3, <2>4, <2>5
<1>15. CASE Defined /\ Use
  <2> USE <1>15 DEF Use, Free, NativeStep, FuncCall, EnumMembers, PropSet, DeleteMember, Section, dispatchVars
  <2>1. DTypeOK'
    OBVIOUS
  <2>2. MainRefers'
    OBVIOUS
  <2>3. IoAlone'
    OBVIOUS
  <2>4. HoldersCounted'
    OBVIOUS
  <2>5. DestructorIsAlone'
    OBVIOUS
  <2> QED
    BY <2>1, <2>2, <2>3, <2>4, <2>5
<1>16. CASE Defined /\ CallEnds
  <2> USE <1>16 DEF CallEnds, Free, CallReturns, CallAgain, dispatchVars
  <2>1. DTypeOK'
    OBVIOUS
  <2>2. MainRefers'
    OBVIOUS
  <2>3. IoAlone'
    OBVIOUS
  <2>4. HoldersCounted'
    OBVIOUS
  <2>5. DestructorIsAlone'
    OBVIOUS
  <2> QED
    BY <2>1, <2>2, <2>3, <2>4, <2>5
<1>17. CASE Defined /\ Elsewhere
  <2> USE <1>17 DEF Elsewhere, Scripting, Free, Forget, dispatchVars
  <2>1. DTypeOK'
    OBVIOUS
  <2>2. MainRefers'
    OBVIOUS
  <2>3. IoAlone'
    OBVIOUS
  <2>4. HoldersCounted'
    OBVIOUS
  <2>5. DestructorIsAlone'
    OBVIOUS
  <2> QED
    BY <2>1, <2>2, <2>3, <2>4, <2>5
<1>18. CASE Defined /\ UseAfterEnd
  <2> USE <1>18 DEF UseAfterEnd, Scripting, Free
  <2>1. DTypeOK'
    OBVIOUS
  <2>2. MainRefers' /\ IoAlone'
    OBVIOUS
  <2>3. HoldersCounted' /\ DestructorIsAlone'
    OBVIOUS
  <2> QED
    BY <2>1, <2>2, <2>3
<1>19. CASE Defined /\ End
  <2> USE <1>19 DEF End, Destructor, dispatchVars
  <2>1. DTypeOK'
    OBVIOUS
  <2>2. MainRefers'
    OBVIOUS
  <2>3. IoAlone'
    OBVIOUS
  <2>4. HoldersCounted'
    OBVIOUS
  <2>5. DestructorIsAlone'
    OBVIOUS
  <2> QED
    BY <2>1, <2>2, <2>3, <2>4, <2>5
<1>20. CASE UNCHANGED all
  BY <1>20 DEF all, dispatchVars
<1> QED
  BY <1>1, <1>2, <1>3, <1>4, <1>5, <1>6, <1>7, <1>8, <1>9, <1>10, <1>11, <1>12, <1>13, <1>14, <1>15, <1>16, <1>17, <1>19, <1>20, <1>18 DEF DNext, IoStep, MainStep

(***************************************************************************)
(* The invariant holds of every state.                                     *)
(***************************************************************************)
THEOREM Invariant == DSpec => []IInv
<1> QED
  BY InitInv, NextInv, PTL DEF DSpec

(* Every variable of the hand-over has its type, the count of a response   *)
(* and what a thread has loaded of it among them.                          *)
THEOREM TypeCorrect == DSpec => []DTypeOK
<1>1. IInv => DTypeOK
  BY DEF IInv
<1> QED
  BY <1>1, Invariant, PTL

(* A response exists exactly while somebody refers to it or it has files   *)
(* to send, as long as no count has overwritten another and no release()   *)
(* was one too many, and always while its event waits.                     *)
THEOREM CountedOut == DSpec => []EndsWithLastHolder
<1>1. IInv => EndsWithLastHolder
  <2> SUFFICES ASSUME IInv PROVE EndsWithLastHolder
    OBVIOUS
  <2>1. ~raced /\ ~broken => (life = "alive" <=> Holders > 0)
    BY DEF IInv, HoldersCounted
  <2>2. event = "queued" => ~raced /\ Holders > 0
    BY DEF IInv, DTypeOK, IoAlone, Holders, Referrers
  <2> QED
    BY <2>1, <2>2 DEF EndsWithLastHolder, Holders
<1> QED
  BY <1>1, Invariant, PTL

(* The destructor of a response waits for a call of the response only      *)
(* after a release() too many, or a count that was overwritten.            *)
THEOREM DestructorWaitsForNobody == DSpec => []DestructorIsAlone
<1>1. IInv => DestructorIsAlone
  BY DEF IInv
<1> QED
  BY <1>1, Invariant, PTL

(***************************************************************************)
(* The members.                                                            *)
(***************************************************************************)

Named(o) == {n \in Names : functions[n] = o}

\* What the table and the script refer to is counted, until an object of a
\* member is released for another one to take its name.
TableCounts ==
    /\ functions \in [Names -> Objects \cup {None}]
    /\ count \in [Objects -> Int]
    /\ own \subseteq Functions
    /\ \A o \in Objects \ replaced :
          count[o] >= Cardinality(Named(o)) + (IF o \in own THEN 1 ELSE 0)

TInv == life = "alive" => TableCounts

\* A member's object has a name.
LEMMA NamedIsFinite ==
    ASSUME NEW o
    PROVE  /\ IsFiniteSet(Named(o)) /\ Cardinality(Named(o)) \in Nat
           /\ \A n \in Named(o) : Cardinality(Named(o)) >= 1
<1>1. IsFiniteSet(Named(o))
  BY NamesAssumption, FS_Subset DEF Named
<1>2. Cardinality(Named(o)) \in Nat
  BY <1>1, FS_CardinalityType
<1>3. Cardinality(Named(o)) = 0 => Named(o) = {}
  BY <1>1, FS_EmptySet
<1> QED
  BY <1>1, <1>2, <1>3

\* The constructor.
LEMMA TableInit == DInit => TInv
<1> SUFFICES ASSUME DInit PROVE TableCounts
  BY DEF TInv
<1>1. /\ functions \in [Names -> Objects \cup {None}]
      /\ count \in [Objects -> Int] /\ own \subseteq Functions
  BY DEF DInit, NativeInit, Objects
<1>2. ASSUME NEW o \in Objects
      PROVE  count[o] >= Cardinality(Named(o)) + (IF o \in own THEN 1 ELSE 0)
  <2>1. CASE o \in Native
    <3>1. Named(o) = {o} /\ o \notin own
      BY <2>1, NativeAssumption, FunctionsAssumption DEF Named, DInit, NativeInit
    <3>2. Cardinality(Named(o)) = 1
      BY <3>1, FS_Singleton
    <3> QED
      BY <3>1, <3>2 DEF DInit, NativeInit
  <2>2. CASE o \in Functions
    <3>1. Named(o) = {}
      BY <2>2, NativeAssumption, FunctionsAssumption DEF Named, DInit, NativeInit
    <3>2. Cardinality(Named(o)) = 0
      BY <3>1, FS_EmptySet
    <3> QED
      BY <3>2 DEF DInit, NativeInit
  <2> QED
    BY <2>1, <2>2 DEF Objects
<1> QED
  BY <1>1, <1>2 DEF TableCounts

\* PropSet(), to a new name or to one that is taken.
LEMMA TablePropSet ==
    ASSUME TableCounts, NEW n \in Names, NEW f \in Functions, PropSet(n, f)
    PROVE  TableCounts'
<1>0. f \in Objects /\ None \notin Objects
  BY FunctionsAssumption, NativeAssumption DEF Objects
<1>1. /\ functions' \in [Names -> Objects \cup {None}]
      /\ count' \in [Objects -> Int] /\ own' = own
  BY <1>0 DEF PropSet, TableCounts
<1>2. ASSUME NEW o \in Objects \ replaced'
      PROVE  count'[o] >= Cardinality(Named(o)') + (IF o \in own THEN 1 ELSE 0)
  <2>0. o \notin replaced /\ o # functions[n]
    BY <1>0 DEF PropSet
  <2>1. count'[o] = count[o] + (IF o = f THEN 1 ELSE 0)
    BY <2>0 DEF PropSet, TableCounts
  <2>2. CASE functions[n] = None /\ o = f
    <3>1. Named(o)' = Named(o) \cup {n} /\ n \notin Named(o)
      BY <1>0, <2>2 DEF Named, PropSet, TableCounts
    <3>2. Cardinality(Named(o)') = Cardinality(Named(o)) + 1
      BY <3>1, NamedIsFinite, FS_AddElement
    <3> QED
      BY <2>0, <2>1, <2>2, <3>2, NamedIsFinite DEF TableCounts
  <2>3. CASE functions[n] # None \/ o # f
    <3>1. Named(o)' = Named(o)
      BY <1>0, <2>0, <2>3 DEF Named, PropSet, TableCounts
    <3> QED
      BY <2>0, <2>1, <3>1, NamedIsFinite DEF TableCounts
  <2> QED
    BY <2>2, <2>3
<1> QED
  BY <1>1, <1>2 DEF TableCounts

\* DeleteMember() releases the object with its name.
LEMMA TableDelete ==
    ASSUME TableCounts, NEW n \in Names, DeleteMember(n) PROVE TableCounts'
<1>0. None \notin Objects /\ functions[n] \in Objects
  BY FunctionsAssumption, NativeAssumption DEF Objects, TableCounts, DeleteMember
<1>1. /\ functions' \in [Names -> Objects \cup {None}]
      /\ count' \in [Objects -> Int] /\ own' = own /\ replaced' = replaced
  BY <1>0 DEF DeleteMember, TableCounts
<1>2. ASSUME NEW o \in Objects \ replaced
      PROVE  count'[o] >= Cardinality(Named(o)') + (IF o \in own THEN 1 ELSE 0)
  <2>1. CASE o = functions[n]
    <3>1. Named(o)' = Named(o) \ {n} /\ n \in Named(o)
      BY <1>0, <2>1 DEF Named, DeleteMember, TableCounts
    <3>2. Cardinality(Named(o)') = Cardinality(Named(o)) - 1
      BY <3>1, NamedIsFinite, FS_RemoveElement
    <3>3. count'[o] = count[o] - 1
      BY <1>0, <2>1 DEF DeleteMember, TableCounts
    <3> QED
      BY <3>2, <3>3, NamedIsFinite DEF TableCounts
  <2>2. CASE o # functions[n]
    <3>1. Named(o)' = Named(o) /\ count'[o] = count[o]
      BY <1>0, <2>2 DEF Named, DeleteMember, TableCounts
    <3> QED
      BY <3>1 DEF TableCounts
  <2> QED
    BY <2>1, <2>2
<1> QED
  BY <1>1, <1>2 DEF TableCounts

\* The script's own variable of a function goes.
LEMMA TableForget ==
    ASSUME TableCounts, NEW f \in Functions, Forget(f) PROVE TableCounts'
<1>1. /\ functions' = functions /\ replaced' = replaced
      /\ count' \in [Objects -> Int] /\ own' \subseteq Functions
  BY DEF Forget, TableCounts, Objects
<1>2. ASSUME NEW o \in Objects \ replaced
      PROVE  count'[o] >= Cardinality(Named(o)) + (IF o \in own' THEN 1 ELSE 0)
  BY NamedIsFinite DEF Forget, TableCounts
<1> QED
  BY <1>1, <1>2 DEF TableCounts, Named

\* All other steps leave the table alone, or end the object.
LEMMA TableNext == TInv /\ [DNext]_all => TInv'
<1> SUFFICES ASSUME TInv, [DNext]_all, life' = "alive" PROVE TableCounts'
  BY DEF TInv
<1>1. CASE UNCHANGED table /\ life' = life
  BY <1>1 DEF TInv, TableCounts, Named, table
<1>2. life = "alive"
  BY DEF DNext, IoStep, IoLoads, Arg, PostEvent, ReleaseOwn, DeleteArg, MainStep,
         Handle, Keep, DropVariable, HandlerReturns, SendFile, ReleaseFile, Counts,
         Added, Dropped, Invalidate, Use, UseAfterEnd, CallEnds, Elsewhere, End, AddRef, Release,
         NativeStep, FuncCall, DeleteMember, PropSet, EnumMembers, CallReturns,
         CallAgain, Forget, Destructor, nativeVars, all
<1>3. CASE IoStep
  BY <1>1, <1>2, <1>3 DEF IoStep, IoLoads, Arg, PostEvent, ReleaseOwn, DeleteArg, nativeVars, table
<1>4. CASE Handle \/ Keep \/ DropVariable \/ HandlerReturns \/ SendFile \/ ReleaseFile
  BY <1>1, <1>4 DEF Handle, Keep, DropVariable, HandlerReturns, SendFile, ReleaseFile,
                    Counts, nativeVars, table
<1>5. CASE Added \/ Dropped \/ Invalidate
  BY <1>1, <1>2, <1>5 DEF Added, Dropped, Invalidate, table
<1>6. CASE Use
  <2>1. ASSUME NEW n \in Names, FuncCall(n) PROVE TableCounts'
    BY <1>1, <2>1 DEF FuncCall
  <2>2. CASE EnumMembers
    BY <1>1, <2>2 DEF EnumMembers
  <2>3. ASSUME NEW n \in Names, DeleteMember(n) PROVE TableCounts'
    BY <1>2, <2>3, TableDelete DEF TInv
  <2>4. ASSUME NEW n \in Names, NEW f \in Functions, PropSet(n, f) PROVE TableCounts'
    BY <1>2, <2>4, TablePropSet DEF TInv
  <2> QED
    BY <1>6, <2>1, <2>2, <2>3, <2>4 DEF Use, NativeStep
<1>7. CASE UseAfterEnd
  BY <1>1, <1>7 DEF UseAfterEnd, nativeVars, table
<1>8. CASE CallEnds
  BY <1>1, <1>8 DEF CallEnds, CallReturns, CallAgain
<1>9. CASE Elsewhere
  BY <1>2, <1>9, TableForget DEF Elsewhere, TInv
<1>10. CASE End
  BY <1>10 DEF End, Destructor
<1>11. CASE UNCHANGED all
  BY <1>1, <1>11 DEF all, nativeVars, table
<1> QED
  BY <1>3, <1>4, <1>5, <1>6, <1>8, <1>9, <1>10, <1>11, <1>7 DEF DNext, MainStep

(* A member's object exists, in whatever order members are assigned,       *)
(* deleted and forgotten, unless one has taken the place of another.       *)
THEOREM MembersLive == DSpec => []TableHoldsLive
<1>1. DSpec => []TInv
  BY TableInit, TableNext, PTL DEF DSpec
<1>2. TInv => TableHoldsLive
  <2> SUFFICES ASSUME TableCounts, NEW n \in Names, functions[n] \in Objects \ replaced
               PROVE  count[functions[n]] > 0
    BY DEF TInv, TableHoldsLive
  <2>1. Cardinality(Named(functions[n])) >= 1
    BY NamedIsFinite DEF Named
  <2> QED
    BY <2>1, NamedIsFinite DEF TableCounts
<1> QED
  BY <1>1, <1>2, PTL
=============================================================================
