---------------------------- MODULE SocketHandler ----------------------------
(***************************************************************************)
(* SocketHandler (src/SocketHandler.cpp): the owner of all sockets.  It    *)
(* hands out ids, keeps the sockets in a map from id to socket, and        *)
(* destroys them.                                                          *)
(*                                                                         *)
(* A socket is an object that is constructed once.  The handler destroys   *)
(* it, or the program deletes the pointer it was given: no destructor of a *)
(* socket calls destroySocket, so the entry stays, and whatever destroys   *)
(* the entry destroys the socket a second time.                            *)
(*                                                                         *)
(* createServerSocket and createClientSocket check active without the      *)
(* mutex and do the rest with it; destroySocket looks the id up without    *)
(* the mutex and erases with it.  A lookup that overlaps a section of      *)
(* another thread may miss the entry or crash, and so may any use of an    *)
(* entry or a handler that no longer exists: after a crash nothing moves.  *)
(***************************************************************************)
EXTENDS Integers, FiniteSets

CONSTANTS Callers,   \* threads that create and destroy sockets
          Sockets,   \* socket objects that can be constructed
          IdRange,   \* number of ids: 2^32 for uint32_t
          None       \* no socket, no holder of socketMutex

ASSUME IdRangePositive == IdRange \in Nat \ {0}
ASSUME NoneOutside == None \notin Callers \cup Sockets

VARIABLES active, nextId, sockets, socketMutex,
          handler,      \* alive, closing (in the destructor), gone
          kind, id,     \* of each socket object
          life,         \* of each socket object: unborn, alive, destroyed, deleted
          pc, want,     \* a caller's step and the kind it creates
          arg,          \* the id a caller creates or destroys with
          found,        \* the socket destroySocket's iterator points to
          returned,     \* the socket the last create call returned
          crashed

objectVars == <<kind, id, life>>
callVars == <<pc, want, arg, found, returned>>
vars == <<active, nextId, sockets, socketMutex, handler, objectVars, callVars, crashed>>

Ids == 0..(IdRange - 1)
Kinds == {"server", "client"}

Owned == {sockets[i] : i \in DOMAIN sockets}

Init ==
    /\ active = TRUE /\ nextId = 0 /\ socketMutex = None
    /\ sockets = [i \in {} |-> None]
    /\ handler = "alive" /\ crashed = FALSE
    /\ kind = [s \in Sockets |-> "server"]
    /\ id = [s \in Sockets |-> 0]
    /\ life = [s \in Sockets |-> "unborn"]
    /\ pc = [c \in Callers |-> "idle"]
    /\ want = [c \in Callers |-> "server"]
    /\ arg = [c \in Callers |-> 0]
    /\ found = [c \in Callers |-> None]
    /\ returned = [c \in Callers |-> None]

Goto(c, from, to) == pc[c] = from /\ pc' = [pc EXCEPT ![c] = to]

\* The local variables of a call end with it.
Forget(c) ==
    /\ want' = [want EXCEPT ![c] = "server"]
    /\ arg' = [arg EXCEPT ![c] = 0]
    /\ found' = [found EXCEPT ![c] = None]

\* A use of memory that is gone.
Crash ==
    /\ crashed' = TRUE
    /\ UNCHANGED <<active, nextId, sockets, socketMutex, handler, objectVars, callVars>>

-----------------------------------------------------------------------------
(* createServerSocket and createClientSocket                               *)

\* validateActive: an inactive handler throws.
Create_Validate(c) ==
    /\ ~crashed /\ handler # "gone" /\ active
    /\ Goto(c, "idle", "validated")
    /\ \E k \in Kinds : want' = [want EXCEPT ![c] = k]
    /\ returned' = [returned EXCEPT ![c] = None]
    /\ UNCHANGED <<active, nextId, sockets, socketMutex, handler, objectVars, arg, found, crashed>>

\* nextId after the id was taken: for a client it is the size of the map
\* before the new entry.
NextId(k) == (IF k = "server" THEN nextId + 1 ELSE Cardinality(DOMAIN sockets)) % IdRange

Create_Lock(c) ==
    /\ ~crashed /\ handler # "gone" /\ socketMutex = None
    /\ Goto(c, "validated", "construct")
    /\ socketMutex' = c
    /\ arg' = [arg EXCEPT ![c] = nextId]
    /\ nextId' = NextId(want[c])
    /\ UNCHANGED <<active, sockets, handler, objectVars, want, found, returned, crashed>>

\* The constructor throws: the address does not resolve.
Create_Throw(c) ==
    /\ ~crashed
    /\ Goto(c, "construct", "idle")
    /\ socketMutex' = None /\ Forget(c)
    /\ UNCHANGED <<active, nextId, sockets, handler, objectVars, returned, crashed>>

\* As try_emplace(id, socket.release()) would do.
Emplace_Leaks(s, i) ==
    /\ life' = [life EXCEPT ![s] = "alive"]
    /\ sockets' = IF i \in DOMAIN sockets THEN sockets
                  ELSE [j \in DOMAIN sockets \cup {i} |-> IF j = i THEN s ELSE sockets[j]]

\* emplace: an entry that is already there stays, and the new socket goes.
Emplace(s, i) ==
    IF i \in DOMAIN sockets
    THEN /\ life' = [life EXCEPT ![s] = "destroyed"]
         /\ UNCHANGED sockets
    ELSE /\ life' = [life EXCEPT ![s] = "alive"]
         /\ sockets' = [j \in DOMAIN sockets \cup {i} |-> IF j = i THEN s ELSE sockets[j]]

Returns_New(s, i) == s

\* emplace(...).first->second.get()
Returns(s, i) == IF i \in DOMAIN sockets THEN sockets[i] ELSE s

Create_Emplace(c) ==
    /\ ~crashed
    /\ Goto(c, "construct", "idle")
    /\ \E s \in Sockets :
         /\ life[s] = "unborn"
         /\ kind' = [kind EXCEPT ![s] = want[c]]
         /\ id' = [id EXCEPT ![s] = arg[c]]
         /\ Emplace(s, arg[c])
         /\ returned' = [returned EXCEPT ![c] = Returns(s, arg[c])]
    /\ socketMutex' = None /\ Forget(c)
    /\ UNCHANGED <<active, nextId, handler, crashed>>

\* The program deletes the socket it was given.
Delete(c) ==
    /\ ~crashed
    /\ pc[c] = "idle" /\ returned[c] # None /\ life[returned[c]] = "alive"
    /\ life' = [life EXCEPT ![returned[c]] = "deleted"]
    /\ returned' = [returned EXCEPT ![c] = None]
    /\ UNCHANGED <<active, nextId, sockets, socketMutex, handler, kind, id, pc, want, arg, found, crashed>>

-----------------------------------------------------------------------------
(* destroySocket                                                           *)

Destroy_Find(c) ==
    /\ ~crashed /\ handler # "gone"
    /\ \E i \in Ids :
         \/ /\ i \in DOMAIN sockets
            /\ Goto(c, "idle", "found")
            /\ arg' = [arg EXCEPT ![c] = i]
            /\ found' = [found EXCEPT ![c] = sockets[i]]
         \/ /\ i \notin DOMAIN sockets \/ socketMutex # None
            /\ pc[c] = "idle"
            /\ UNCHANGED <<pc, arg, found>>
    /\ UNCHANGED <<active, nextId, sockets, socketMutex, handler, objectVars, want, returned, crashed>>

Destroy_FindOverlaps(c) ==
    /\ ~crashed /\ handler # "gone"
    /\ pc[c] = "idle" /\ socketMutex # None
    /\ Crash

Destroy_Erase(c) ==
    /\ ~crashed /\ handler # "gone" /\ socketMutex = None
    /\ found[c] \in Owned /\ life[found[c]] = "alive"
    /\ Goto(c, "found", "idle")
    /\ sockets' = [i \in DOMAIN sockets \ {arg[c]} |-> sockets[i]]
    /\ life' = [life EXCEPT ![found[c]] = "destroyed"]
    /\ nextId' = arg[c] /\ Forget(c)
    /\ UNCHANGED <<active, socketMutex, handler, kind, id, returned, crashed>>

\* Another thread erased the entry first and the iterator dangles, or the
\* program deleted the socket and the entry dangles.
Destroy_EraseDangling(c) ==
    /\ ~crashed /\ handler # "gone" /\ socketMutex = None
    /\ pc[c] = "found" /\ (found[c] \notin Owned \/ life[found[c]] # "alive")
    /\ Crash

\* A call that waited for socketMutex while the handler went away.
UseAfterDestructor(c) ==
    /\ ~crashed /\ handler = "gone"
    /\ pc[c] \in {"validated", "found"}
    /\ Crash

-----------------------------------------------------------------------------
(* ~SocketHandler                                                          *)

Destructor_Deactivate ==
    /\ ~crashed /\ handler = "alive"
    /\ handler' = "closing" /\ active' = FALSE
    /\ UNCHANGED <<nextId, sockets, socketMutex, objectVars, callVars, crashed>>

Destructor_Clear_FirstOnly ==
    /\ ~crashed /\ handler = "closing" /\ socketMutex = None
    /\ handler' = "gone"
    /\ sockets' = [i \in DOMAIN sockets \ {0} |-> sockets[i]]
    /\ life' = [s \in Sockets |->
                  IF 0 \in DOMAIN sockets /\ sockets[0] = s THEN "destroyed" ELSE life[s]]
    /\ UNCHANGED <<active, nextId, socketMutex, kind, id, callVars, crashed>>

Destructor_Clear ==
    /\ ~crashed /\ handler = "closing" /\ socketMutex = None
    /\ \A s \in Owned : life[s] = "alive"
    /\ handler' = "gone"
    /\ sockets' = [i \in {} |-> None]
    /\ life' = [s \in Sockets |-> IF s \in Owned THEN "destroyed" ELSE life[s]]
    /\ UNCHANGED <<active, nextId, socketMutex, kind, id, callVars, crashed>>

Destructor_ClearDangling ==
    /\ ~crashed /\ handler = "closing" /\ socketMutex = None
    /\ \E s \in Owned : life[s] # "alive"
    /\ Crash

-----------------------------------------------------------------------------
Caller(c) ==
    \/ Create_Validate(c) \/ Create_Lock(c) \/ Create_Throw(c) \/ Create_Emplace(c)
    \/ Delete(c)
    \/ Destroy_Find(c) \/ Destroy_FindOverlaps(c)
    \/ Destroy_Erase(c) \/ Destroy_EraseDangling(c)
    \/ UseAfterDestructor(c)

Next ==
    \/ \E c \in Callers : Caller(c)
    \/ Destructor_Deactivate \/ Destructor_Clear \/ Destructor_ClearDangling

Spec == Init /\ [][Next]_vars

-----------------------------------------------------------------------------
\* Every variable has its type.
TypeOK ==
    /\ active \in BOOLEAN /\ crashed \in BOOLEAN
    /\ nextId \in Ids
    /\ DOMAIN sockets \subseteq Ids /\ \A i \in DOMAIN sockets : sockets[i] \in Sockets
    /\ socketMutex \in Callers \cup {None}
    /\ handler \in {"alive", "closing", "gone"}
    /\ kind \in [Sockets -> Kinds] /\ id \in [Sockets -> Ids]
    /\ life \in [Sockets -> {"unborn", "alive", "destroyed", "deleted"}]
    /\ pc \in [Callers -> {"idle", "validated", "construct", "found"}]
    /\ want \in [Callers -> Kinds] /\ arg \in [Callers -> Ids]
    /\ found \in [Callers -> Sockets \cup {None}]
    /\ returned \in [Callers -> Sockets \cup {None}]

\* However creates, destroys and deletes interleave, and although ids are handed
\* out twice, the map owns a socket from its construction until the handler
\* destroys it, under its own id.  So no socket leaks, and none the handler
\* destroyed is left in the map.  One that the program deleted is.
OwnedUntilDestroyed ==
    /\ Owned = {s \in Sockets : life[s] \in {"alive", "deleted"}}
    /\ \A i \in DOMAIN sockets : id[sockets[i]] = i

\* A create call never returns a socket that the handler has destroyed, whatever
\* happened to the id it was given: it is alive, unless the program deleted it.
CreateReturnsLiveSocket ==
    [][\A c \in Callers :
          returned[c] = None /\ returned'[c] # None => life'[returned'[c]] \in {"alive", "deleted"}]_vars

\* "The destructor will remove the socket from the SocketHandler": it does not.
NoDanglingEntry == \A s \in Owned : life[s] # "deleted"

\* "Creates a server socket", "Creates a client socket": a create call returns
\* the socket it constructed, of the kind it was asked for.  With an id that is
\* taken it returns the socket that has it.
CreateReturnsNewSocket ==
    [][\A c \in Callers :
          returned[c] = None /\ returned'[c] # None
            => life[returned'[c]] = "unborn" /\ kind'[returned'[c]] = want[c]]_vars

\* No socket is left when the destructor has finished, those included whose
\* create call had passed validateActive before active was cleared.
NoSocketOutlivesHandler == handler = "gone" => \A s \in Sockets : life[s] # "alive"

=============================================================================
