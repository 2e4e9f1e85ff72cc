--------------------------- MODULE DocumentedGame ---------------------------
(***************************************************************************)
(* The rules of a game as docs/ARCHITECTURE.md gives them: the phases of   *)
(* lines 64-87, and line 89, by which a round is over when every connected *)
(* player has drawn once.                                                  *)
(***************************************************************************)
EXTENDS Naturals

CONSTANTS Players, \* identities that may be in the room
          Rounds   \* how many rounds a game has

VARIABLES phase,   \* the phase of the game
          present, \* the players that are connected
          round,   \* the current round, 0 when there is no game
          waiting, \* the players who have yet to draw in this round
          drawing  \* the player with the pen, if there is one, as a set

vars == <<phase, present, round, waiting, drawing>>

Init == /\ phase = "LOBBY"
        /\ present \subseteq Players
        /\ round = 0
        /\ waiting = {}
        /\ drawing = {}

\* Players connect and disconnect as they like.
Presence == /\ present' \in SUBSET Players
            /\ UNCHANGED <<phase, round, waiting, drawing>>

\* The host starts the game, which takes two players (lines 69 and 251): all who
\* are present will draw.
Start == /\ phase = "LOBBY"
         /\ \E p, q \in present : p # q
         /\ phase' = "WORD_SELECTION"
         /\ round' = 1
         /\ waiting' = present
         /\ UNCHANGED <<present, drawing>>

\* The next player, one who has yet to draw, gets words to choose from.
TurnBegins == /\ phase \in {"WORD_SELECTION", "ROUND_END"}
              /\ drawing = {}
              /\ \E p \in waiting : drawing' = {p} /\ waiting' = waiting \ {p}
              /\ phase' = "WORD_SELECTION"
              /\ UNCHANGED <<present, round>>

WordChosen == /\ phase = "WORD_SELECTION"
              /\ drawing # {}
              /\ phase' = "DRAWING"
              /\ UNCHANGED <<present, round, waiting, drawing>>

\* All have guessed, or the time is over.
TurnEnds == /\ phase = "DRAWING"
            /\ phase' = "ROUND_END"
            /\ drawing' = {}
            /\ UNCHANGED <<present, round, waiting>>

\* Everybody has drawn and there are rounds to go.
RoundEnds == /\ phase = "ROUND_END"
             /\ waiting = {}
             /\ round < Rounds
             /\ round' = round + 1
             /\ waiting' = present
             /\ UNCHANGED <<phase, present, drawing>>

\* Everybody has drawn in the last round.
GameEnds == /\ phase = "ROUND_END"
            /\ waiting = {}
            /\ round = Rounds
            /\ phase' = "GAME_END"
            /\ UNCHANGED <<present, round, waiting, drawing>>

BackToLobby == /\ phase = "GAME_END"
               /\ phase' = "LOBBY"
               /\ round' = 0
               /\ UNCHANGED <<present, waiting, drawing>>

Next == \/ Presence \/ Start \/ TurnBegins \/ WordChosen \/ TurnEnds
        \/ RoundEnds \/ GameEnds \/ BackToLobby

Spec == Init /\ [][Next]_vars
=============================================================================
