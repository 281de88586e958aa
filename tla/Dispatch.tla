------------------------------ MODULE Dispatch ------------------------------
(***************************************************************************)
(* The hand-over of a request to the script, in the build with             *)
(* USE_TVP_EVENT (src/httpserver.cpp:94-113): a thread of the io_service   *)
(* makes a KResponse, posts it as the argument of an event, and drops its  *)
(* own references while the main thread may already handle the event.      *)
(* What the script does with the object is NativeObject's.                 *)
(*                                                                         *)
(* The reference count of a script object is a plain integer               *)
(* (src/tp_stub.cpp:711-745): adding and releasing are a load and a store, *)
(* and two threads may be between them.  globalParseMutex keeps io threads *)
(* apart, not the main thread.                                             *)
(***************************************************************************)
EXTENDS NativeObject

CONSTANTS
    MaxVars,     \* bound on the script's variables of the object
    MaxFiles     \* bound on the calls of sendFile() without a release(), and of
                 \* release() without a sendFile()

ASSUME MembersAssumption == {"sendFile", "release"} \subseteq Native
ASSUME BoundsAssumption == MaxVars \in Nat \ {0} /\ MaxFiles \in Nat

VARIABLES
    refs,       \* RefCount of the KResponse
    load,       \* [{"io", "main"}]: the value between a load and its store
    io,         \* the io thread's next statement
    event,      \* the posted event: "none", "queued", "running", "over"
    vars,       \* the script's variables of the object
    files,      \* calls of sendFile() less those of release()
    main,       \* the count that the main thread changes, or "destructor"
    over,       \* history: release() was called once too often
    raced,      \* history: a store has overwritten another
    broken      \* a count was changed after the object's end, or it was ended
                \* by the script (Invalidate)

dispatchVars == <<refs, load, io, event, vars, files, main, over, raced, broken>>
all == <<nativeVars, dispatchVars>>

DInit ==
    /\ NativeInit
    /\ refs = 1
    /\ load = [io |-> None, main |-> None]
    /\ io = "arg"
    /\ event = "none"
    /\ vars = 0
    /\ files = 0
    /\ main = "idle"
    /\ over = FALSE
    /\ raced = FALSE
    /\ broken = FALSE

-----------------------------------------------------------------------------
(* tTJSDispatch *)

Load(t) ==
    /\ load[t] = None
    /\ load' = [load EXCEPT ![t] = refs]
    /\ broken' = (broken \/ life # "alive")
    /\ UNCHANGED <<refs, raced>>

Stores(t) ==
    /\ load[t] # None
    /\ load' = [load EXCEPT ![t] = None]
    /\ raced' = (raced \/ refs # load[t])
    /\ UNCHANGED broken

AddRef(t) ==
    /\ Stores(t)
    /\ refs' = load[t] + 1
    /\ UNCHANGED life

\* Release() deletes the object when it has found the count at 1.
Release(t) ==
    /\ Stores(t)
    /\ refs' = load[t] - 1
    /\ life' = IF load[t] = 1 /\ life = "alive" THEN "ending" ELSE life

-----------------------------------------------------------------------------
(* The io thread *)

IoLoads ==
    /\ io # "done"
    /\ Load("io")
    /\ UNCHANGED <<nativeVars, io, event, vars, files, main, over>>

\* arg[1] = its
Arg ==
    /\ io = "arg"
    /\ AddRef("io")
    /\ io' = "post"
    /\ UNCHANGED <<table, call, stuck, event, vars, files, main, over>>

\* TVPPostEvent() copies the arguments, and the main thread may take the event.
PostEvent ==
    /\ io = "post"
    /\ AddRef("io")
    /\ io' = "release"
    /\ event' = "queued"
    /\ UNCHANGED <<table, call, stuck, vars, files, main, over>>

\* Mutant: the reference that `new` gave is kept.
ReleaseOwnNot ==
    /\ io = "release"
    /\ Stores("io")
    /\ refs' = load["io"]
    /\ io' = "delete"
    /\ UNCHANGED <<nativeVars, event, vars, files, main, over>>

\* its->Release()
ReleaseOwn ==
    /\ io = "release"
    /\ Release("io")
    /\ io' = "delete"
    /\ UNCHANGED <<table, call, stuck, event, vars, files, main, over>>

\* delete[] arg
DeleteArg ==
    /\ io = "delete"
    /\ Release("io")
    /\ io' = "done"
    /\ UNCHANGED <<table, call, stuck, event, vars, files, main, over>>

IoStep == IoLoads \/ Arg \/ PostEvent \/ ReleaseOwn \/ DeleteArg

-----------------------------------------------------------------------------
(* The main thread *)

Free == main = "idle" /\ ~stuck

\* Script code runs, and not a native method.
Scripting == Free /\ (Locked => InScript)

\* The main thread begins to count.
Counts(what) ==
    /\ Load("main")
    /\ main' = what
    /\ UNCHANGED <<nativeVars, io, vars, files, over>>

\* The event is dispatched: its handler has a variable for the response.
Handle ==
    /\ Free /\ event = "queued"
    /\ event' = "running"
    /\ Counts("variable")

\* The script keeps the object in one more variable.
Keep ==
    /\ Scripting /\ 0 < vars /\ vars < MaxVars
    /\ Counts("variable")
    /\ UNCHANGED event

\* A variable goes, the handler's own too: not the last one during a call.
DropVariable ==
    /\ Scripting /\ vars > (IF Locked THEN 1 ELSE 0)
    /\ Counts("drop")
    /\ UNCHANGED event

\* The handler has returned, and the event with its arguments is deleted.
HandlerReturns ==
    /\ Free /\ event = "running" /\ ~Locked
    /\ event' = "over"
    /\ Counts("event")

\* sendFile(), called under the mutex, takes a reference.
SendFile ==
    /\ Free /\ call = "sendFile" /\ functions[call] = call
    /\ files < MaxFiles
    /\ Counts("sendFile")
    /\ UNCHANGED event

\* release(), called under the mutex, drops one, whoever has taken it.
ReleaseFile ==
    /\ Free /\ call = "release" /\ functions[call] = call
    /\ files > -MaxFiles
    /\ Counts("release")
    /\ UNCHANGED event

\* Mutant: sendFile() without its AddRef().
AddedUnheld ==
    /\ main \in {"variable", "sendFile"}
    /\ IF main = "variable"
       THEN AddRef("main") /\ vars' = vars + 1 /\ UNCHANGED <<files, call>>
       ELSE Stores("main") /\ files' = files + 1 /\ call' = None /\ UNCHANGED <<refs, life, vars>>
    /\ main' = "idle"
    /\ UNCHANGED <<table, stuck, io, event, over>>

\* The count goes up; sendFile() returns.
Added ==
    /\ main \in {"variable", "sendFile"}
    /\ AddRef("main")
    /\ IF main = "variable"
       THEN vars' = vars + 1 /\ UNCHANGED <<files, call>>
       ELSE files' = files + 1 /\ call' = None /\ UNCHANGED vars
    /\ main' = "idle"
    /\ UNCHANGED <<table, stuck, io, event, over>>

\* The count goes down, and at 0 the destructor runs at once.  release()
\* returns, unless that destructor waits for the mutex that FuncCall() holds.
Dropped ==
    /\ main \in {"drop", "event", "release"}
    /\ Release("main")
    /\ main' = IF life' = life THEN "idle" ELSE "destructor"
    /\ vars' = IF main = "drop" THEN vars - 1 ELSE vars
    /\ IF main = "release"
       THEN /\ files' = files - 1
            /\ over' = (over \/ files < 1)
            /\ call' = IF life' = life THEN None ELSE call
       ELSE UNCHANGED <<files, over, call>>
    /\ UNCHANGED <<table, stuck, io, event>>

\* `invalidate` deletes the object, whatever its count.
Invalidate ==
    /\ Free /\ vars > 0 /\ ~Locked /\ life = "alive"
    /\ life' = "ending"
    /\ main' = "destructor"
    /\ broken' = TRUE
    /\ UNCHANGED <<table, call, stuck, refs, load, io, event, vars, files, over, raced>>

\* A variable may be left of an object that is gone.
UseAfterEnd ==
    /\ Scripting /\ vars > 0 /\ life # "alive"
    /\ broken' = TRUE
    /\ UNCHANGED <<nativeVars, refs, load, io, event, vars, files, main, over, raced>>

\* The script uses the object through one of its variables.
Use ==
    /\ Free /\ vars > 0
    /\ NativeStep
    /\ UNCHANGED dispatchVars

CallEnds ==
    /\ Free
    /\ CallReturns \/ CallAgain
    /\ UNCHANGED dispatchVars

Elsewhere ==
    /\ Scripting
    /\ \E f \in Functions : Forget(f)
    /\ UNCHANGED dispatchVars

\* The destructor, on the thread that has dropped the last reference.
End ==
    /\ Destructor
    /\ main' = IF main = "destructor" THEN "idle" ELSE main
    /\ UNCHANGED <<refs, load, io, event, vars, files, over, raced, broken>>

MainStep ==
    \/ Handle \/ Keep \/ DropVariable \/ HandlerReturns
    \/ SendFile \/ ReleaseFile \/ Added \/ Dropped
    \/ Invalidate \/ Use \/ UseAfterEnd \/ CallEnds \/ Elsewhere

\* What follows an overwritten count, or a use after the end, is undefined.
Defined == ~raced /\ ~broken

DNext ==
    /\ Defined
    /\ IoStep \/ MainStep \/ End

DSpec == DInit /\ [][DNext]_all

\* The io thread runs; the main thread handles events, comes back from
\* calls, and the variables of a handler go.  sendFile() is released.
DFairness ==
    /\ WF_all(Defined /\ IoStep)
    /\ WF_all(Defined /\ Handle)
    /\ WF_all(Defined /\ (Added \/ Dropped))
    /\ WF_all(Defined /\ End)
    /\ SF_all(Defined /\ DropVariable)
    /\ SF_all(Defined /\ HandlerReturns)
    /\ SF_all(Defined /\ CallReturns /\ UNCHANGED dispatchVars)

DFairSpec == DSpec /\ DFairness

-----------------------------------------------------------------------------
(* Properties *)

\* References that exist: `its` and arg[1] of the io thread, the event's copy,
\* and the script's variables.
Referrers ==
    (CASE io = "arg" -> 1 [] io \in {"post", "release"} -> 2
       [] io = "delete" -> 1 [] io = "done" -> 0)
    + (CASE event = "queued" -> 1 [] event = "running" -> 1
         [] event = "over" -> IF main = "event" THEN 1 ELSE 0
         [] event = "none" -> 0)
    + vars

(* An event that waits keeps its response.  And as long as no count was    *)
(* overwritten by that of the other thread, the object exists exactly      *)
(* while somebody refers to it or it has files to send, however the io     *)
(* thread's releases and the script's handler interleave, if the script    *)
(* has not called release() once too often: one that nothing has been      *)
(* taken for drops the reference of another, and the object ends under a   *)
(* variable (src/httpserver.cpp:105-112, 261-263, 275).                    *)
EndsWithLastHolder ==
    /\ event = "queued" /\ ~broken => life = "alive"
    /\ ~raced /\ ~broken /\ ~over => (life = "alive" <=> Referrers + files > 0)

(* The destructor, which locks the object's mutex, runs under a call of    *)
(* the object, where it waits for ever, only after a release() too many or *)
(* a count that was overwritten: the caller's variable outlives the call,  *)
(* and a release() of what sendFile() has taken is never the last one      *)
(* (src/NativeObject.hpp:23-34, 48-51; src/httpserver.cpp:261-275).        *)
DestructorIsAlone == life = "ending" /\ ~raced /\ ~over => ~Locked

(* A response goes when the script has let go of it, unless its files are  *)
(* not released or released once too often, the script takes new variables *)
(* for ever, or it has locked itself out of the object                     *)
(* (src/httpserver.cpp:105-112, 359-362).                                  *)
ObjectEnds ==
    \/ <>(life = "deleted" \/ raced \/ broken \/ stuck \/ over)
    \/ []<>(files > 0) \/ []<>(main = "variable")

=============================================================================
