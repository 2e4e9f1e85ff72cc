----------------------------- MODULE GameStore -----------------------------
(***************************************************************************)
(* What a player's page makes of the events it receives: gameStore.ts and  *)
(* roomStore.ts, as useGameConnection.ts wires them to the socket, and     *)
(* what RoomPage.tsx shows (all in apps/frontend/src).                     *)
(*                                                                         *)
(* A view keeps what this page shows of its own player: of the room record *)
(* the phase and whether he has the pen, of the turn the word or its mask, *)
(* whether he has guessed, and whether the word choices are offered.  Chat *)
(* lines, scores and the canvas are left out.                              *)
(***************************************************************************)
EXTENDS Naturals

CONSTANT Null   \* in place of a word

\* roomStore.setRoom: `room` is a room record as the server sent it.
SetRoom(view, room, p) == [view EXCEPT !.phase = room.phase, !.pen = p \in room.drawing]

\* gameStore: the mutations that socket events call.
StartTurn(view, mask) ==
    [view EXCEPT !.mask = mask, !.myWord = Null, !.choices = FALSE, !.guessed = FALSE]
SetWordChoices(view) == [view EXCEPT !.choices = TRUE]
SetMyWord(view, word) == [view EXCEPT !.myWord = word]
SetMasked(view, mask) == [view EXCEPT !.mask = mask]
MarkGuessed(view) == [view EXCEPT !.guessed = TRUE]
ResetTurn(view) == [view EXCEPT !.mask = << >>, !.myWord = Null, !.choices = FALSE]
EndRound(view, word) == [view EXCEPT !.choices = FALSE, !.myWord = word]

\* RoomPage: the word in the top bar, the way the input box takes, and the choices.
WordDisplay(view) == IF (view.pen \/ view.guessed) /\ view.myWord # Null
                     THEN view.myWord ELSE view.mask
InputIsGuess(view) == ~view.pen /\ view.phase = "DRAWING" /\ ~view.guessed
OffersChoices(view) == view.pen /\ view.phase = "WORD_SELECTION" /\ view.choices
=============================================================================
