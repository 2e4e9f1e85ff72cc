--------------------------- MODULE RoomLockProofs ---------------------------
(***************************************************************************)
(* Proofs about RoomLock for any set of calls.                             *)
(*                                                                         *)
(* TypeOK needs no assumption.  The rest holds while no live holder        *)
(* outlives the TTL of its lock (Outlive = FALSE); the run                 *)
(* RoomLockOutlive shows that the assumption is needed.                    *)
(***************************************************************************)
EXTENDS RoomLock, TLAPS

(***************************************************************************)
(* The inductive invariant.                                                *)
(***************************************************************************)
\* A live call in its critical section is the one the lock names.
HoldersOwn == \A c \in Calls : pc[c] \in Critical => lock = c

\* What a holder has read is what is stored, until it writes.
SnapshotsFresh == \A c \in Calls : pc[c] \in {"run", "save"} => snapshot[c] = applied

\* A call has no result before it is done with fn.
Unsettled == \A c \in Calls : pc[c] \in {"idle", "acquire", "read", "run", "save"}
                                 => result[c] = "none"

LockInv == TypeOK /\ HoldersOwn /\ SnapshotsFresh /\ Unsettled /\ NoLostUpdate

(***************************************************************************)
(* Every step keeps the types: RoomStore never stores a token that is not  *)
(* a call's, nor leaves a call in a state the code does not have.          *)
(***************************************************************************)
LEMMA TypeOKStep == TypeOK /\ [Next]_vars => TypeOK'
<1> USE RoomLockAssumption DEF TypeOK, Pcs, Results, Goto, Settle
<1> SUFFICES ASSUME TypeOK, [Next]_vars PROVE TypeOK'
  OBVIOUS
<1>1. ASSUME NEW c \in Calls, Call(c) PROVE TypeOK'
  BY <1>1 DEF Call
<1>2. ASSUME NEW c \in Calls, Acquire(c) PROVE TypeOK'
  BY <1>2 DEF Acquire
<1>3. ASSUME NEW c \in Calls, Busy(c) PROVE TypeOK'
  BY <1>3 DEF Busy
<1>4. ASSUME NEW c \in Calls, Read(c) PROVE TypeOK'
  BY <1>4 DEF Read
<1>5. ASSUME NEW c \in Calls, ReadNothing(c) PROVE TypeOK'
  BY <1>5 DEF ReadNothing
<1>6. ASSUME NEW c \in Calls, Run(c) PROVE TypeOK'
  BY <1>6 DEF Run
<1>7. ASSUME NEW c \in Calls, NEW r \in {"null", "error"}, RunNothing(c, r)
      PROVE TypeOK'
  BY <1>7 DEF RunNothing
<1>8. ASSUME NEW c \in Calls, Save(c) PROVE TypeOK'
  BY <1>8 DEF Save
<1>9. ASSUME NEW c \in Calls, Release(c) PROVE TypeOK'
  BY <1>9 DEF Release
<1>10. ASSUME NEW c \in Calls, Crash(c) PROVE TypeOK'
  BY <1>10 DEF Crash
<1>11. CASE Expire
  BY <1>11 DEF Expire
<1>12. CASE Delete
  BY <1>12 DEF Delete
<1>13. CASE UNCHANGED vars
  BY <1>13 DEF vars
<1> QED
  BY <1>1, <1>2, <1>3, <1>4, <1>5, <1>6, <1>7, <1>8, <1>9, <1>10, <1>11, <1>12, <1>13
     DEF Next, Step

\* The types hold before any call.
LEMMA TypeOKInit == Init => TypeOK
BY RoomLockAssumption DEF Init, TypeOK, Pcs, Results

\* The types hold in every behaviour of mutate(), deletions, crashes and
\* late holders included.
THEOREM TypeCorrect == Spec => []TypeOK
BY TypeOKInit, TypeOKStep, PTL DEF Spec

-----------------------------------------------------------------------------
\* The invariant holds before any call.
LEMMA LockInvInit == Init => LockInv
BY TypeOKInit, RoomLockAssumption
   DEF Init, LockInv, HoldersOwn, SnapshotsFresh, Unsettled, NoLostUpdate, Critical

(***************************************************************************)
(* One step keeps the invariant.  The lock is the reason each time: a step *)
(* of a holder excludes another holder, so no other snapshot can go stale. *)
(***************************************************************************)
LEMMA LockInvStep ==
    ASSUME Outlive = FALSE
    PROVE  LockInv /\ [Next]_vars => LockInv'
<1> SUFFICES ASSUME LockInv, [Next]_vars PROVE LockInv'
  OBVIOUS
<1>0. TypeOK /\ TypeOK'
  BY TypeOKStep DEF LockInv
<1> USE RoomLockAssumption, <1>0
    DEF LockInv, HoldersOwn, SnapshotsFresh, Unsettled, NoLostUpdate,
        Critical, Goto, Settle
<1>1. ASSUME NEW c \in Calls, Call(c) PROVE LockInv'
  BY <1>1 DEF Call, TypeOK
<1>2. ASSUME NEW c \in Calls, Acquire(c) PROVE LockInv'
  BY <1>2 DEF Acquire, TypeOK
<1>3. ASSUME NEW c \in Calls, Busy(c) PROVE LockInv'
  BY <1>3 DEF Busy, TypeOK
<1>4. ASSUME NEW c \in Calls, Read(c) PROVE LockInv'
  BY <1>4 DEF Read, TypeOK
<1>5. ASSUME NEW c \in Calls, ReadNothing(c) PROVE LockInv'
  BY <1>5 DEF ReadNothing, TypeOK
<1>6. ASSUME NEW c \in Calls, Run(c) PROVE LockInv'
  BY <1>6 DEF Run, TypeOK
<1>7. ASSUME NEW c \in Calls, NEW r \in {"null", "error"}, RunNothing(c, r)
      PROVE LockInv'
  BY <1>7 DEF RunNothing, TypeOK
<1>8. ASSUME NEW c \in Calls, Save(c) PROVE LockInv'
  <2>1. \A d \in Calls : d # c => pc[d] \notin Critical
    BY <1>8 DEF Save
  <2>2. applied' = applied \cup {c}
    BY <1>8 DEF Save
  <2>3. \A d \in Calls : d # c => pc'[d] = pc[d] /\ result'[d] = result[d]
    BY <1>8 DEF Save, TypeOK
  <2>4. pc'[c] = "release" /\ result'[c] = "room" /\ UNCHANGED <<lock, snapshot>>
    BY <1>8 DEF Save, TypeOK
  <2>5. HoldersOwn' /\ SnapshotsFresh' /\ Unsettled'
    BY <1>8, <2>1, <2>3, <2>4 DEF Save
  <2>6. NoLostUpdate'
    BY <2>2, <2>3, <2>4
  <2> QED
    BY <2>5, <2>6
<1>9. ASSUME NEW c \in Calls, Release(c) PROVE LockInv'
  BY <1>9 DEF Release, TypeOK
<1>10. ASSUME NEW c \in Calls, Crash(c) PROVE LockInv'
  BY <1>10 DEF Crash, TypeOK
<1>11. ASSUME Expire, Outlive = FALSE PROVE LockInv'
  BY <1>11 DEF Expire, TypeOK
<1>12. CASE Delete
  BY <1>12 DEF Delete
<1>13. CASE UNCHANGED vars
  BY <1>13 DEF vars
<1> QED
  BY <1>1, <1>2, <1>3, <1>4, <1>5, <1>6, <1>7, <1>8, <1>9, <1>10, <1>11, <1>12, <1>13
     DEF Next, Step

\* While no live holder outlives the TTL, the invariant holds in every reachable
\* state (the lock of room.store.ts:22-107).
THEOREM LockInvariant ==
    ASSUME Outlive = FALSE
    PROVE  Spec => []LockInv
BY LockInvInit, LockInvStep, PTL DEF Spec

\* At most one live call is between acquireLock and releaseLock.
THEOREM Exclusion ==
    ASSUME Outlive = FALSE
    PROVE  Spec => []MutualExclusion
<1>1. LockInv => MutualExclusion
  BY DEF LockInv, HoldersOwn, MutualExclusion
<1> QED
  BY <1>1, LockInvariant, PTL

\* An update that mutate() returned is never overwritten by an older record.
THEOREM NoUpdateLost ==
    ASSUME Outlive = FALSE
    PROVE  Spec => []NoLostUpdate
<1>1. LockInv => NoLostUpdate
  BY DEF LockInv
<1> QED
  BY <1>1, LockInvariant, PTL

\* Only the owner's release, or the TTL of a dead owner, frees the lock.
THEOREM ReleaseIsOwn ==
    ASSUME Outlive = FALSE
    PROVE  Spec => OnlyOwnerUnlocks
<1> DEFINE Unlock == \A c \in Calls : lock = c /\ lock' # c
                        => \/ pc[c] = "release" /\ pc'[c] = "done"
                           \/ pc[c] = "dead"
<1>1. LockInv /\ [Next]_vars => [Unlock]_vars
  <2> SUFFICES ASSUME LockInv, Next, NEW c \in Calls, lock = c, lock' # c
               PROVE  \/ pc[c] = "release" /\ pc'[c] = "done"
                      \/ pc[c] = "dead"
    OBVIOUS
  <2>1. lock # NoCall
    BY RoomLockAssumption
  <2>2. ASSUME NEW d \in Calls, Release(d)
        PROVE  pc[c] = "release" /\ pc'[c] = "done"
    BY <2>2 DEF Release, LockInv, TypeOK, Goto
  <2>3. ASSUME Expire PROVE pc[c] = "dead"
    BY <2>3 DEF Expire
  <2> QED
    BY <2>1, <2>2, <2>3
       DEF Next, Step, Call, Acquire, Busy, Read, ReadNothing, Run, RunNothing, Save,
           Crash, Delete
<1>2. Spec => []LockInv
  BY LockInvariant
<1> QED
  BY <1>1, <1>2, PTL DEF Spec, OnlyOwnerUnlocks

-----------------------------------------------------------------------------
(***************************************************************************)
(* Refinement: the write is the step at which the abstract room changes.   *)
(***************************************************************************)
LEMMA RefinesInit == Init => Abstract!Init
BY DEF Init, Abstract!Init, Outcome

\* Every step of mutate() is a step of the atomic room or changes nothing it sees.
LEMMA RefinesStep ==
    ASSUME Outlive = FALSE
    PROVE  LockInv /\ [Next]_vars => [Abstract!Next]_(Abstract!vars)
<1> SUFFICES ASSUME LockInv, [Next]_vars
             PROVE  [Abstract!Next]_(Abstract!vars)
  OBVIOUS
<1> DEFINE outcomes == [c \in Calls |-> Outcome(c)]
<1> USE DEF Goto, Settle
<1>1. ASSUME NEW c \in Calls, Save(c) PROVE Abstract!Apply(c)
  <2>1. Outcome(c) = "pending" /\ Outcome(c)' = "saved"
    BY <1>1 DEF Save, LockInv, Unsettled, TypeOK, Outcome
  <2>2. \A d \in Calls : d # c => Outcome(d)' = Outcome(d)
    BY <1>1 DEF Save, LockInv, TypeOK, Outcome
  <2>3. outcomes' = [outcomes EXCEPT ![c] = "saved"]
    BY <2>1, <2>2
  <2>4. exists' = TRUE /\ applied' = applied \cup {c}
    BY <1>1 DEF Save, LockInv, SnapshotsFresh
  <2> QED
    BY <2>1, <2>3, <2>4 DEF Abstract!Apply
<1>2. ASSUME NEW c \in Calls, NEW r \in {"null", "error", "busy"},
             result[c] = "none", Settle(c, r), UNCHANGED <<exists, applied>>
      PROVE  Abstract!Refuse(c)
  <2>1. Outcome(c) = "pending" /\ Outcome(c)' = "nothing"
    BY <1>2 DEF LockInv, TypeOK, Outcome
  <2>2. \A d \in Calls : d # c => Outcome(d)' = Outcome(d)
    BY <1>2 DEF LockInv, TypeOK, Outcome
  <2>3. outcomes' = [outcomes EXCEPT ![c] = "nothing"]
    BY <2>1, <2>2
  <2> QED
    BY <1>2, <2>1, <2>3 DEF Abstract!Refuse
<1>3. ASSUME UNCHANGED <<exists, applied, result>> PROVE UNCHANGED Abstract!vars
  BY <1>3 DEF Abstract!vars, Outcome
<1>4. ASSUME NEW c \in Calls, Busy(c) PROVE Abstract!Refuse(c)
  BY <1>4, <1>2 DEF Busy, LockInv, Unsettled
<1>5. ASSUME NEW c \in Calls, ReadNothing(c) PROVE Abstract!Refuse(c)
  BY <1>5, <1>2 DEF ReadNothing, LockInv, Unsettled
<1>6. ASSUME NEW c \in Calls, NEW r \in {"null", "error"}, RunNothing(c, r)
      PROVE  Abstract!Refuse(c)
  BY <1>6, <1>2 DEF RunNothing, LockInv, Unsettled
<1>7. ASSUME Delete PROVE Abstract!Delete
  BY <1>7 DEF Delete, Abstract!Delete, Outcome
<1>8. ASSUME NEW c \in Calls,
             Call(c) \/ Acquire(c) \/ Read(c) \/ Run(c) \/ Release(c) \/ Crash(c)
      PROVE  UNCHANGED Abstract!vars
  BY <1>8, <1>3 DEF Call, Acquire, Read, Run, Release, Crash
<1>9. ASSUME Expire \/ UNCHANGED vars PROVE UNCHANGED Abstract!vars
  BY <1>9, <1>3 DEF Expire, vars
<1> QED
  BY <1>1, <1>4, <1>5, <1>6, <1>7, <1>8, <1>9 DEF Next, Step, Abstract!Next

\* RoomStore.mutate implements the indivisible read-modify-write.
THEOREM MutateIsAtomic ==
    ASSUME Outlive = FALSE
    PROVE  Spec => ImplementsAtomicRoom
BY RefinesInit, RefinesStep, LockInvariant, PTL DEF Spec, ImplementsAtomicRoom, Abstract!Spec
=============================================================================
