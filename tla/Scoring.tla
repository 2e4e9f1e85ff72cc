------------------------------ MODULE Scoring ------------------------------
(***************************************************************************)
(* The pure functions of packages/shared/src/scoring/index.ts: points,     *)
(* hint masks, and how close a guess comes to the word.                    *)
(*                                                                         *)
(* A word is the sequence of its letters, as normalizeGuess leaves it: in  *)
(* lower case and without accents.  Words of several parts, whose spaces a *)
(* mask shows, are left out.  Where the code computes with floating-point  *)
(* numbers, these are the integers it comes to.                            *)
(***************************************************************************)
EXTENDS Integers, Sequences

Smaller(a, b) == IF a <= b THEN a ELSE b

\* Math.round of the fraction n / d.
Rounded(n, d) == (2 * n + d) \div (2 * d)

-----------------------------------------------------------------------------
(***************************************************************************)
(* Points (DEFAULT_SCORING).                                               *)
(***************************************************************************)
BaseScore == 100
MaxTimeBonus == 250
GuessOrderBonus == <<120, 80, 50, 30, 20, 10>>
DrawerMultiplier == 40
DrawerMaxScore == 250

\* difficultyMultiplier, in percent.
Difficulties == {"EASY", "MEDIUM", "HARD"}
Percent(difficulty) == CASE difficulty = "EASY"   -> 100
                         [] difficulty = "MEDIUM" -> 115
                         [] difficulty = "HARD"   -> 130

\* 1.15 is a little less than 115 / 100: these products end just below one half.
TiesDown == {110, 170, 190, 210, 330, 350}

Multiplied(points, difficulty) ==
    Rounded(points * Percent(difficulty), 100)
        - (IF difficulty = "MEDIUM" /\ points \in TiesDown THEN 1 ELSE 0)

TimeBonus(remaining, total) ==
    IF total > 0 /\ remaining > 0
    THEN Rounded(MaxTimeBonus * Smaller(remaining, total), total)
    ELSE 0

\* order counts the correct guesses before this one.
OrderBonus(order) ==
    IF order < Len(GuessOrderBonus) THEN GuessOrderBonus[order + 1] ELSE 0

ScoreGuess(remaining, total, order, difficulty) ==
    Multiplied(BaseScore + TimeBonus(remaining, total), difficulty) + OrderBonus(order)

ScoreDrawer(correctGuessers) == Smaller(correctGuessers * DrawerMultiplier, DrawerMaxScore)

-----------------------------------------------------------------------------
(***************************************************************************)
(* Hints.                                                                  *)
(***************************************************************************)
\* The positions shown of a word of n letters, counted from 0, spread over the word.
Revealed(n, count) == {(k * n) \div count : k \in 0..(Smaller(count, n) - 1)}

\* maskWord: the letters a hint shows, the others blank.
Blank == "_"
MaskWord(word, count) ==
    [i \in DOMAIN word |-> IF i - 1 \in Revealed(Len(word), count) THEN word[i] ELSE Blank]

\* scheduleHints: how many hints a word of n letters gets (game.service.ts:225).
TotalHints(n) == IF n = 0 THEN 0 ELSE Smaller(n - 1, (2 * n) \div 5)

-----------------------------------------------------------------------------
(***************************************************************************)
(* Guesses.                                                                *)
(***************************************************************************)
\* levenshtein: the distance between the first i letters of one word and the first j of
\* the other, each row of the table from the one before.
Levenshtein(a, b) ==
    LET Least(x, y, z) == Smaller(x, Smaller(y, z))
        distance[cell \in (0..Len(a)) \X (0..Len(b))] ==
            LET i == cell[1]
                j == cell[2]
            IN IF i = 0 THEN j
               ELSE IF j = 0 THEN i
               ELSE Least(distance[<<i - 1, j>>] + 1,
                          distance[<<i, j - 1>>] + 1,
                          distance[<<i - 1, j - 1>>] + (IF a[i] = b[j] THEN 0 ELSE 1))
    IN distance[<<Len(a), Len(b)>>]

\* A faulty variant of ClassifyGuess: only the word itself is special.
RightOrWrong(guess, word) == IF guess = word THEN "correct" ELSE "wrong"

ClassifyGuess(guess, word) ==
    IF guess = word THEN "correct"
    ELSE IF Len(word) >= 4 /\ Levenshtein(guess, word) <= 1 THEN "close"
    ELSE "wrong"
=============================================================================
