------------------------------ MODULE RoomLock ------------------------------
(***************************************************************************)
(* RoomStore.mutate and the distributed lock under it                      *)
(* (apps/backend/src/redis/room.store.ts:22-107), for one room.            *)
(*                                                                         *)
(* A member of Calls is one call of mutate(): it draws a fresh randomUUID, *)
(* so the call itself stands for its lock token.  Calls run on any node,   *)
(* and every Redis command of theirs is one step.  The content of the room *)
(* is abstracted to the set of calls whose update it carries; fn adds the  *)
(* call to what it was given.                                              *)
(***************************************************************************)
CONSTANTS Calls,    \* the mutate() calls in flight on the room
          NoCall,   \* the lock key is not set
          Outlive,  \* may a live holder still be running when its 5 s TTL ends?
          Crashes   \* may a node die while one of its calls is in flight?

ASSUME RoomLockAssumption == /\ NoCall \notin Calls
                             /\ Outlive \in BOOLEAN
                             /\ Crashes \in BOOLEAN

VARIABLES lock,      \* the value of lock:room:<id>
          exists,    \* the key room:<id> is set
          applied,   \* the calls whose update the stored record carries
          pc,        \* where each call stands
          snapshot,  \* the record each call read
          result     \* what the call's promise settles with

vars == <<lock, exists, applied, pc, snapshot, result>>

Pcs == {"idle", "acquire", "read", "run", "save", "release", "done", "dead"}
Results == {"none", "room", "null", "error", "busy"}

(***************************************************************************)
(* The states in which a call believes it holds the lock.                  *)
(***************************************************************************)
Critical == {"read", "run", "save", "release"}
Running(c) == pc[c] \in {"acquire"} \cup Critical

\* The lock holds a token or nothing, and every call settles with what mutate()
\* can return or throw (room.store.ts:81-96).
TypeOK == /\ lock \in Calls \cup {NoCall}
          /\ exists \in BOOLEAN
          /\ applied \in SUBSET Calls
          /\ pc \in [Calls -> Pcs]
          /\ snapshot \in [Calls -> SUBSET Calls]
          /\ result \in [Calls -> Results]

Init == /\ lock = NoCall
        /\ exists = TRUE
        /\ applied = {}
        /\ pc = [c \in Calls |-> "idle"]
        /\ snapshot = [c \in Calls |-> {}]
        /\ result = [c \in Calls |-> "none"]

Goto(c, label) == pc' = [pc EXCEPT ![c] = label]
Settle(c, r) == result' = [result EXCEPT ![c] = r]

-----------------------------------------------------------------------------
(***************************************************************************)
(* Faulty variants of steps below: each run is repeated with one of them   *)
(* in the step's place, and the property it breaks has to notice.          *)
(***************************************************************************)
\* SET without NX.
AcquireWithoutNX(c) == /\ pc[c] = "acquire"
                       /\ lock' = c
                       /\ Goto(c, "read")
                       /\ UNCHANGED <<exists, applied, snapshot, result>>

\* The lock is taken inside the try block and freed with a plain DEL, so a
\* call that gave up frees the lock of another.
BusyReleases(c) == /\ pc[c] = "acquire"
                   /\ lock # NoCall
                   /\ lock' = NoCall
                   /\ Goto(c, "done")
                   /\ Settle(c, "busy")
                   /\ UNCHANGED <<exists, applied, snapshot>>

\* The release is not in a finally block: an early return skips it.
ReadNothingKeepsLock(c) == /\ pc[c] = "read"
                           /\ ~exists
                           /\ Settle(c, "null")
                           /\ Goto(c, "done")
                           /\ UNCHANGED <<lock, exists, applied, snapshot>>

\* The lock covers fn alone: it is released before the write.
RunUnlocksEarly(c) == /\ pc[c] = "run"
                      /\ lock' = NoCall
                      /\ Goto(c, "save")
                      /\ UNCHANGED <<exists, applied, snapshot, result>>

\* mutate() swallows what fn throws and returns nothing.
RunSwallowsError(c, r) == /\ pc[c] \in {"read", "run", "save"}
                          /\ r = "null" => pc[c] = "run"
                          /\ Settle(c, "undefined")
                          /\ Goto(c, "release")
                          /\ UNCHANGED <<lock, exists, applied, snapshot>>

-----------------------------------------------------------------------------
(***************************************************************************)
(* One call of mutate().                                                   *)
(***************************************************************************)
Call(c) == /\ pc[c] = "idle"
           /\ Goto(c, "acquire")
           /\ UNCHANGED <<lock, exists, applied, snapshot, result>>

\* SET key token PX 5000 NX answered OK.
Acquire(c) == /\ pc[c] = "acquire"
              /\ lock = NoCall
              /\ lock' = c
              /\ Goto(c, "read")
              /\ UNCHANGED <<exists, applied, snapshot, result>>

\* SET was refused and the 4 s of waiting are over: 'Room is busy'.  It is
\* thrown before the try block, so there is no release.
Busy(c) == /\ pc[c] = "acquire"
           /\ lock # NoCall
           /\ Goto(c, "done")
           /\ Settle(c, "busy")
           /\ UNCHANGED <<lock, exists, applied, snapshot>>

\* getRoom found the record.
Read(c) == /\ pc[c] = "read"
           /\ exists
           /\ snapshot' = [snapshot EXCEPT ![c] = applied]
           /\ Goto(c, "run")
           /\ UNCHANGED <<lock, exists, applied, result>>

\* getRoom found nothing: return null, through finally.
ReadNothing(c) == /\ pc[c] = "read"
                  /\ ~exists
                  /\ Settle(c, "null")
                  /\ Goto(c, "release")
                  /\ UNCHANGED <<lock, exists, applied, snapshot>>

\* fn returned the mutated room.
Run(c) == /\ pc[c] = "run"
          /\ Goto(c, "save")
          /\ UNCHANGED <<lock, exists, applied, snapshot, result>>

\* fn returned null, or threw (or a Redis command failed): no write.
RunNothing(c, r) == /\ pc[c] \in {"read", "run", "save"}
                    /\ r = "null" => pc[c] = "run"
                    /\ Settle(c, r)
                    /\ Goto(c, "release")
                    /\ UNCHANGED <<lock, exists, applied, snapshot>>

\* save(): the record fn made of what was read replaces the stored one.
Save(c) == /\ pc[c] = "save"
           /\ exists' = TRUE
           /\ applied' = snapshot[c] \cup {c}
           /\ Settle(c, "room")
           /\ Goto(c, "release")
           /\ UNCHANGED <<lock, snapshot>>

\* RELEASE_LUA: delete the key only if it still holds this call's token.
Release(c) == /\ pc[c] = "release"
              /\ lock' = IF lock = c THEN NoCall ELSE lock
              /\ Goto(c, "done")
              /\ UNCHANGED <<exists, applied, snapshot, result>>

(***************************************************************************)
(* The environment.                                                        *)
(***************************************************************************)
\* The node running the call dies; only Redis keeps what it wrote.
Crash(c) == /\ Crashes
            /\ Running(c)
            /\ Goto(c, "dead")
            /\ UNCHANGED <<lock, exists, applied, snapshot, result>>

\* The TTL of the lock key ends.  Without Outlive that happens only to the
\* lock of a call that died: the holder's few commands take far less than 5 s.
Expire == /\ lock # NoCall
          /\ Outlive \/ pc[lock] = "dead"
          /\ lock' = NoCall
          /\ UNCHANGED <<exists, applied, pc, snapshot, result>>

\* deleteRoom, which takes no lock.
Delete == /\ exists
          /\ exists' = FALSE
          /\ UNCHANGED <<lock, applied, pc, snapshot, result>>

Step(c) == \/ Acquire(c) \/ Busy(c)
           \/ Read(c) \/ ReadNothing(c)
           \/ Run(c) \/ \E r \in {"null", "error"} : RunNothing(c, r)
           \/ Save(c) \/ Release(c)

Next == \/ \E c \in Calls : Call(c) \/ Step(c) \/ Crash(c)
        \/ Expire
        \/ Delete

Spec == Init /\ [][Next]_vars

(***************************************************************************)
(* A live node runs its calls to the end, and Redis expires keys.          *)
(***************************************************************************)
Fairness == /\ \A c \in Calls : WF_vars(Step(c))
            /\ WF_vars(Expire)

FairSpec == Spec /\ Fairness

-----------------------------------------------------------------------------
(***************************************************************************)
(* Properties.                                                             *)
(***************************************************************************)
\* Two live calls are never between acquiring and releasing the lock at once:
\* the claim of room.store.ts:11-15, while holders finish within the TTL.
MutualExclusion ==
    \A c, d \in Calls : pc[c] \in Critical /\ pc[d] \in Critical => c = d

\* An update mutate() has acknowledged stays in the stored record: no later
\* write is built on a record read before it (docs/ARCHITECTURE.md:130-131,
\* "no lost updates").
NoLostUpdate == \A c \in Calls : result[c] = "room" => c \in applied

\* Nobody but its owner, or the TTL of a dead owner, takes a lock away
\* (the compare-and-delete of RELEASE_LUA).
OnlyOwnerUnlocks ==
    [][\A c \in Calls : lock = c /\ lock' # c
            => \/ pc[c] = "release" /\ pc'[c] = "done"
               \/ pc[c] = "dead"]_vars

\* Whoever holds the lock, and even if its node dies, the lock is set free:
\* the room does not stay busy for ever.
LockIsFreed == \A c \in Calls : lock = c ~> lock # c

(***************************************************************************)
(* mutate() implements the indivisible read-modify-write: the write is the *)
(* step at which the abstract room changes.                                *)
(***************************************************************************)
Outcome(c) == IF result[c] = "none" THEN "pending"
              ELSE IF result[c] = "room" THEN "saved" ELSE "nothing"

Abstract == INSTANCE AtomicRoom WITH outcome <- [c \in Calls |-> Outcome(c)]

\* Each call of mutate() takes effect at once or not at all: no interleaving of
\* reads, writes, crashes and deletions shows callers anything else.
ImplementsAtomicRoom == Abstract!Spec

=============================================================================
