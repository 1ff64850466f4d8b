---------------------------- MODULE EventCallback ----------------------------
(***************************************************************************)
(* ThreadSafeEventCallback over std::set (shared/utils/EventCallback.hpp): *)
(* the callbacks of one event, its std::shared_mutex, and threads that     *)
(* add, remove, clear and invoke.                                          *)
(*                                                                         *)
(* An entry of the set is a callback and the pointer that operator<        *)
(* orders by.  Functions and member functions have one pointer each, which *)
(* a member function shares with itself on another instance.  The pointer  *)
(* of a std::function is the address of the temporary it was passed in,    *)
(* another one, or the same by chance, at every call.                      *)
(*                                                                         *)
(* A callback may return, throw, or add and remove callbacks itself.       *)
(* ThinVirtualLayer::operator() is noexcept: what is thrown terminates the *)
(* program, also in invokeError.  The lock of glibc lets readers pass      *)
(* waiting writers.                                                        *)
(***************************************************************************)
EXTENDS Integers, FiniteSets

CONSTANTS
    Threads,
    Functions,  \* functions and member functions, each with its instance
    Lambdas,    \* callbacks wrapped in a std::function
    Ptr,        \* the pointer of each of the Functions
    Addresses,  \* where a temporary std::function can be
    None

ASSUME EventAssumption ==
    /\ Functions \cap Lambdas = {}
    /\ \A f \in Functions : Ptr[f] \notin Addresses
    /\ None \notin Threads \cup Functions \cup Lambdas

Callbacks == Functions \cup Lambdas
Ptrs == Addresses \cup {Ptr[f] : f \in Functions}
Entries == [fn : Callbacks, ptr : Ptrs]

VARIABLES
    callbacks,   \* the set
    sharing,     \* mutex: who has it shared
    owner,       \* mutex: who has it exclusively
    epc,         \* what a thread does with the event
    todo,        \* callbacks its invoke has still to call
    running,     \* the callback it runs
    change,      \* what it will do to the set
    owed,        \* history: entries there since its invoke began, and not called
    terminated   \* std::terminate

lockVars  == <<sharing, owner>>
eventVars == <<callbacks, lockVars, epc, todo, running, change, owed, terminated>>

\* ptr() of the wrapper a callback is put in.
PtrsOf(c) == IF c \in Lambdas THEN Addresses ELSE {Ptr[c]}

EventInit ==
    /\ callbacks = {} /\ sharing = {} /\ owner = None
    /\ epc = [t \in Threads |-> "idle"]
    /\ todo = [t \in Threads |-> {}]
    /\ running = [t \in Threads |-> None]
    /\ change = [t \in Threads |-> None]
    /\ owed = [t \in Threads |-> {}]
    /\ terminated = FALSE

Step(t, from, to) == epc[t] = from /\ epc' = [epc EXCEPT ![t] = to]

-----------------------------------------------------------------------------
(* invoke and invokeError                                                   *)

\* The set is looked at without the mutex: an empty one ends the call.
Invoke_Empty(t) ==
    /\ Step(t, "idle", IF callbacks = {} THEN "idle" ELSE "invoke")
    /\ owed' = [owed EXCEPT ![t] = callbacks]
    /\ UNCHANGED <<callbacks, lockVars, todo, running, change, terminated>>

Invoke_Lock(t) ==
    /\ owner = None
    /\ Step(t, "invoke", "calling")
    /\ sharing' = sharing \cup {t}
    /\ todo' = [todo EXCEPT ![t] = callbacks]
    /\ UNCHANGED <<callbacks, owner, running, change, owed, terminated>>

Invoke_Call(t) ==
    /\ Step(t, "calling", "running")
    /\ \E e \in todo[t] :
         /\ running' = [running EXCEPT ![t] = e]
         /\ todo' = [todo EXCEPT ![t] = @ \ {e}]
         /\ owed' = [owed EXCEPT ![t] = @ \ {e}]
    /\ UNCHANGED <<callbacks, lockVars, change, terminated>>

Callback_Return(t) ==
    /\ Step(t, "running", "calling")
    /\ running' = [running EXCEPT ![t] = None]
    /\ UNCHANGED <<callbacks, lockVars, todo, change, owed, terminated>>

Callback_Throw(t) ==
    /\ epc[t] = "running"
    /\ terminated' = TRUE
    /\ UNCHANGED <<callbacks, lockVars, epc, todo, running, change, owed>>

Invoke_Return(t) ==
    /\ todo[t] = {}
    /\ Step(t, "calling", "idle")
    /\ sharing' = sharing \ {t}
    /\ owed' = [owed EXCEPT ![t] = {}]
    /\ UNCHANGED <<callbacks, owner, todo, running, change, terminated>>

Invoking(t) ==
    \/ Invoke_Lock(t) \/ Invoke_Call(t) \/ Callback_Return(t) \/ Callback_Throw(t)
    \/ Invoke_Return(t)

-----------------------------------------------------------------------------
(* addCallback, removeCallback and clear, called by a thread or by the      *)
(* callback it runs.                                                        *)

\* The callback to add, the pointer to remove.
Changes ==
    UNION {{[kind |-> "add", fn |-> c, ptr |-> p] : p \in PtrsOf(c)} : c \in Callbacks}
    \cup {[kind |-> "remove", fn |-> None, ptr |-> p] : p \in Ptrs}
    \cup {[kind |-> "clear", fn |-> None, ptr |-> None]}

Change_Begin(t) ==
    /\ \E from \in {"idle", "running"} : Step(t, from, "lock")
    /\ \E c \in Changes : change' = [change EXCEPT ![t] = c]
    /\ UNCHANGED <<callbacks, lockVars, todo, running, owed, terminated>>

\* The mutex is taken while others have it shared.
Change_Lock_Shared(t) ==
    /\ owner = None
    /\ Step(t, "lock", "change")
    /\ owner' = t
    /\ UNCHANGED <<callbacks, sharing, todo, running, change, owed, terminated>>

\* A callback waits here for the invoke that called it, for ever.
Change_Lock(t) ==
    /\ owner = None /\ sharing = {}
    /\ Step(t, "lock", "change")
    /\ owner' = t
    /\ UNCHANGED <<callbacks, sharing, todo, running, change, owed, terminated>>

\* emplace keeps an entry of the same pointer; erase takes every such entry,
\* and so does the loop that removes a member function.
Changed(entry) ==
    LET same == {e \in callbacks : e.ptr = entry.ptr} IN
    CASE entry.kind = "add"    -> IF same = {} THEN callbacks \cup {[fn |-> entry.fn, ptr |-> entry.ptr]}
                                  ELSE callbacks
      [] entry.kind = "remove" -> callbacks \ same
      [] OTHER                 -> {}

Change_Apply(t) ==
    /\ Step(t, "change", "idle")
    /\ callbacks' = Changed(change[t])
    /\ owed' = [s \in Threads |-> owed[s] \cap Changed(change[t])]
    /\ owner' = None
    /\ change' = [change EXCEPT ![t] = None]
    /\ UNCHANGED <<sharing, todo, running, terminated>>

Changing(t) == Change_Lock(t) \/ Change_Apply(t)

-----------------------------------------------------------------------------
\* Types, and the mutex: it has one owner or any number of sharers.
EventTypeOK ==
    /\ callbacks \subseteq Entries
    /\ sharing \subseteq Threads /\ owner \in Threads \cup {None}
    /\ owner # None => sharing = {}
    /\ \A t \in Threads : todo[t] \subseteq Entries /\ running[t] \in Entries \cup {None}

\* A callback runs only while it is registered, so that removeCallback, once
\* it has returned, is the last of it: it outwaits an invoke in another thread
\* and no later one can call it.
RunsOnlyRegistered ==
    \A t \in Threads : epc[t] = "running" => running[t] \in callbacks

\* invoke calls all that is registered from its first look at the set, which
\* is before it has the mutex, to its end.
RegisteredAreCalled ==
    \A t \in Threads : epc[t] = "calling" /\ todo[t] = {} => owed[t] = {}

\* What a listener may rely on.
CallsExactlyRegistered == RunsOnlyRegistered /\ RegisteredAreCalled
=============================================================================
