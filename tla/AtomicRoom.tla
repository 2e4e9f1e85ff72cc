----------------------------- MODULE AtomicRoom -----------------------------
(***************************************************************************)
(* What RoomStore.mutate promises its callers (room.store.ts:76-80 and     *)
(* the comment at :11-15): every read-modify-write of a room is one        *)
(* indivisible step, whatever node runs it.                                *)
(*                                                                         *)
(* The content of a room is abstracted to the set of the calls whose       *)
(* update it carries.  Its existence is a separate flag: deleteRoom is not *)
(* one of the serialised writes, and an update may bring a deleted record  *)
(* back.                                                                   *)
(***************************************************************************)
CONSTANT Calls

VARIABLES exists,   \* the key room:<id> holds a record
          applied,  \* the calls whose update the record carries
          outcome   \* what mutate() did for each call

vars == <<exists, applied, outcome>>

Outcomes == {"pending", "saved", "nothing"}

Init == /\ exists = TRUE
        /\ applied = {}
        /\ outcome = [c \in Calls |-> "pending"]

\* The whole read-modify-write of one call.
Apply(c) == /\ outcome[c] = "pending"
            /\ exists' = TRUE
            /\ applied' = applied \cup {c}
            /\ outcome' = [outcome EXCEPT ![c] = "saved"]

\* The call ends with no write: no room, fn returned null or threw, no lock.
Refuse(c) == /\ outcome[c] = "pending"
             /\ outcome' = [outcome EXCEPT ![c] = "nothing"]
             /\ UNCHANGED <<exists, applied>>

Delete == /\ exists' = FALSE
          /\ UNCHANGED <<applied, outcome>>

Next == Delete \/ \E c \in Calls : Apply(c) \/ Refuse(c)

Spec == Init /\ [][Next]_vars
=============================================================================
