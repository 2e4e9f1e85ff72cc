----------------------------- MODULE MCTurnTalk -----------------------------
(***************************************************************************)
(* TurnTalk for TLC: three players and two words that differ by a letter,  *)
(* so that a guess is right in one turn and nearly right in the other.     *)
(* The functions of Scoring are compared with what they should compute,    *)
(* over bounded inputs.                                                    *)
(***************************************************************************)
EXTENDS TurnTalk, TLC

CONSTANTS p1, p2, p3

MCOrder == <<p1, p2, p3>>
Crow == <<"c", "r", "o", "w">>
Brow == <<"b", "r", "o", "w">>
Sun == <<"s", "u", "n">>
MCWords == {Crow, Brow}
MCGuesses == {Crow, Sun}
MCDifficultyOf == (Crow :> "MEDIUM") @@ (Brow :> "EASY")

\* Levenshtein says whether one edit is enough, as OneEdit defines it.
Short == UNION {[1..n -> {"a", "b"}] : n \in 0..4}
ASSUME LevenshteinAssumption ==
    \A g, w \in Short : (Levenshtein(g, w) <= 1) <=> (g = w \/ OneEdit(g, w))

\* A mask shows as many letters as hints are due, and all the hints of a turn together
\* leave a letter blank (words have at most 20 letters).
ASSUME MaskAssumption ==
    \A n \in 1..20 :
        /\ \A c \in 0..TotalHints(n) : Cardinality(Revealed(n, c)) = c
        /\ UNION {Revealed(n, c) : c \in 0..TotalHints(n)} # 0..(n - 1)

\* A guess pays at least the base score and never more than the first one at once; it
\* pays less the later it comes.  A drawing pays at most what its cap says.
ASSUME ScoreAssumption ==
    /\ \A d \in Difficulties, total \in {1, 30, 80, 240}, order \in 0..7 :
         \A r \in 0..total :
            LET points == ScoreGuess(r, total, order, d)
            IN /\ points >= BaseScore
               /\ points <= ScoreGuess(total, total, 0, d)
               /\ points <= ScoreGuess(r + 1, total, order, d)
               /\ order < Len(GuessOrderBonus) => points > ScoreGuess(r, total, order + 1, d)
    /\ \A c \in 0..20 : /\ ScoreDrawer(c) \in 0..DrawerMaxScore
                        /\ ScoreDrawer(c) <= ScoreDrawer(c + 1)
=============================================================================
