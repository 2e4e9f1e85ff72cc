---------------------------- MODULE CanvasEngine ----------------------------
(***************************************************************************)
(* The canvas of one client as a function of the operations applied to it: *)
(* CanvasEngine.apply and applyMany (apps/frontend/src/components/canvas/  *)
(* CanvasEngine.ts:50-101).  Colours, widths and pixels are left out; of   *)
(* the points of a stroke only their number is kept.                       *)
(***************************************************************************)
EXTENDS Naturals, SequencesExt

\* A stroke or a fill; an operation names the stroke it belongs to, or 0.
Item == [id : Nat, points : Nat]
Op == [type : {"start", "move", "end", "fill", "undo", "clear"}, id : Nat]

\* What is committed, in order, and the strokes that have no end yet.
Canvas == [history : Seq(Item), live : SUBSET Item]
Blank == [history |-> << >>, live |-> {}]

Stroke(c, id) == {s \in c.live : s.id = id}

Started(c, id) == [c EXCEPT !.live = (@ \ Stroke(c, id)) \cup {[id |-> id, points |-> 1]}]
Moved(c, id) == [c EXCEPT !.live = {IF s.id = id THEN [s EXCEPT !.points = @ + 1] ELSE s : s \in @}]
Committed(c, s) == [history |-> Append(c.history, s), live |-> c.live \ {s}]
Undone(c) == IF c.history = << >> THEN c ELSE [c EXCEPT !.history = Front(@)]

\* A move or an end of an unknown stroke is ignored.
Apply(c, op) ==
    CASE op.type = "start" -> Started(c, op.id)
      [] op.type = "move"  -> Moved(c, op.id)
      [] op.type = "end"   -> IF Stroke(c, op.id) = {} THEN c
                              ELSE Committed(c, CHOOSE s \in Stroke(c, op.id) : TRUE)
      [] op.type = "fill"  -> Committed(c, [id |-> op.id, points |-> 0])
      [] op.type = "undo"  -> Undone(c)
      [] op.type = "clear" -> Blank

\* The canvas after the first i operations, for each i; the last of them is the result.
ApplyMany(c, ops) ==
    LET shown[i \in 0..Len(ops)] == IF i = 0 THEN c ELSE Apply(shown[i - 1], ops[i])
    IN  shown[Len(ops)]
=============================================================================
