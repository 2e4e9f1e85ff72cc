---------------------------- MODULE PlayerOrder ----------------------------
(***************************************************************************)
(* Lists of players as the room record holds them: players and drawOrder   *)
(* (apps/backend/src/game/game.types.ts).                                  *)
(***************************************************************************)
EXTENDS Integers, Sequences

\* The list without p, which it names at most once: players.splice(idx, 1) and
\* drawOrder.filter(id => id !== p).
Without(o, p) ==
    IF \E k \in DOMAIN o : o[k] = p
    THEN LET k == CHOOSE k \in DOMAIN o : o[k] = p
         IN  [i \in 1..(Len(o) - 1) |-> IF i < k THEN o[i] ELSE o[i + 1]]
    ELSE o

\* A list is sound for a set of players when it names members of the set, each at
\* most once.
SoundFor(o, S) == /\ o \in Seq(S)
                  /\ \A i, j \in DOMAIN o : o[i] = o[j] => i = j
=============================================================================
