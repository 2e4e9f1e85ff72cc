--------------------------- MODULE DrawSyncProofs ---------------------------
(***************************************************************************)
(* Theorems about DrawSync, for any viewers, nodes and bounds.             *)
(***************************************************************************)
EXTENDS DrawSync, CommonProofs, SequenceTheorems

-----------------------------------------------------------------------------
(***************************************************************************)
(* The canvas engine.                                                      *)
(***************************************************************************)
\* f holds the canvas after each of the first n operations.
Trace(f, n, c, ops) == f = [i \in 0..n |-> IF i = 0 THEN c ELSE Apply(f[i - 1], ops[i])]

LEMMA TraceExists ==
    ASSUME NEW c, NEW ops, NEW n \in Nat
    PROVE  \E f : Trace(f, n, c, ops)
<1>. DEFINE T == {m \in Nat : \E f : Trace(f, m, c, ops)}
<1>1. 0 \in T
  <2>. DEFINE f == [i \in 0..0 |-> c]
  <2>1. Trace(f, 0, c, ops)
    BY DEF Trace
  <2>. QED  BY <2>1
<1>2. ASSUME NEW m \in Nat, m \in T PROVE m + 1 \in T
  <2>1. PICK f : Trace(f, m, c, ops)
    BY <1>2
  <2>. DEFINE g == [i \in 0..(m + 1) |-> IF i <= m THEN f[i] ELSE Apply(f[m], ops[m + 1])]
  <2>2. \A i \in 0..(m + 1) : g[i] = IF i = 0 THEN c ELSE Apply(g[i - 1], ops[i])
    <3>. SUFFICES ASSUME NEW i \in 0..(m + 1)
                  PROVE  g[i] = IF i = 0 THEN c ELSE Apply(g[i - 1], ops[i])
      OBVIOUS
    <3>1. CASE i = 0
      BY <3>1, <2>1 DEF Trace
    <3>2. CASE i # 0 /\ i <= m
      <4>1. i - 1 \in 0..m /\ i \in 0..m
        BY <3>2
      <4>2. f[i] = Apply(f[i - 1], ops[i])
        BY <4>1, <3>2, <2>1 DEF Trace
      <4>3. g[i - 1] = f[i - 1] /\ g[i] = f[i]
        BY <4>1, <3>2
      <4>. QED  BY <4>2, <4>3, <3>2
    <3>3. CASE i = m + 1
      <4>1. g[i] = Apply(f[m], ops[i]) /\ g[i - 1] = f[m] /\ i # 0
        BY <3>3
      <4>. QED  BY <4>1
    <3>. QED  BY <3>1, <3>2, <3>3
  <2>3. g = [i \in 0..(m + 1) |-> IF i = 0 THEN c ELSE Apply(g[i - 1], ops[i])]
    BY <2>2
  <2>4. Trace(g, m + 1, c, ops)
    BY <2>3 DEF Trace
  <2>. QED  BY <2>4
<1>. HIDE DEF T
<1>3. Nat \subseteq T
  BY <1>1, <1>2, SetInduction
<1>. QED  BY <1>3 DEF T

\* Two traces agree as far as both go, if their operations do.
Agree(ops, more, n) == \A i \in 1..n : ops[i] = more[i]

LEMMA TraceUnique ==
    ASSUME NEW c, NEW ops, NEW more, NEW f, NEW g, NEW n \in Nat, NEW m \in Nat, n <= m,
           Agree(ops, more, n),
           Trace(f, n, c, ops), Trace(g, m, c, more)
    PROVE  f[n] = g[n]
<1>. DEFINE T == {k \in Nat : k <= n => f[k] = g[k]}
<1>1. 0 \in T
  BY DEF Trace
<1>2. ASSUME NEW k \in Nat, k \in T PROVE k + 1 \in T
  <2>. SUFFICES ASSUME k + 1 <= n PROVE f[k + 1] = g[k + 1]
    OBVIOUS
  <2>1. f[k] = g[k] /\ k + 1 \in 0..n /\ k + 1 \in 0..m /\ k + 1 # 0 /\ k + 1 - 1 = k
    BY <1>2
  <2>2. f[k + 1] = Apply(f[k], ops[k + 1])
    BY <2>1 DEF Trace
  <2>3. g[k + 1] = Apply(g[k], more[k + 1])
    BY <2>1 DEF Trace
  <2>4. ops[k + 1] = more[k + 1]
    BY <2>1 DEF Agree
  <2>. QED  BY <2>1, <2>2, <2>3, <2>4
<1>. HIDE DEF T
<1>3. Nat \subseteq T
  BY <1>1, <1>2, SetInduction
<1>. QED  BY <1>3 DEF T

LEMMA ApplyManyTrace ==
    ASSUME NEW c, NEW ops, Len(ops) \in Nat
    PROVE  \E f : Trace(f, Len(ops), c, ops) /\ ApplyMany(c, ops) = f[Len(ops)]
<1>. DEFINE g == CHOOSE f : f = [i \in 0..Len(ops) |->
                                    IF i = 0 THEN c ELSE Apply(f[i - 1], ops[i])]
<1>0. \E f : Trace(f, Len(ops), c, ops)
  BY TraceExists
<1>1. \E f : f = [i \in 0..Len(ops) |-> IF i = 0 THEN c ELSE Apply(f[i - 1], ops[i])]
  BY <1>0 DEF Trace
<1>2. Trace(g, Len(ops), c, ops)
  BY <1>1 DEF Trace
<1>3. ApplyMany(c, ops) = g[Len(ops)]
  BY DEF ApplyMany
<1>. QED  BY <1>2, <1>3

LEMMA ApplyManyEmpty == ASSUME NEW c PROVE ApplyMany(c, << >>) = c
<1>1. Len(<< >>) = 0
  OBVIOUS
<1>2. PICK f : Trace(f, 0, c, << >>) /\ ApplyMany(c, << >>) = f[0]
  BY <1>1, ApplyManyTrace
<1>. QED  BY <1>2 DEF Trace

LEMMA TraceLonger ==
    ASSUME NEW c, NEW ops, NEW more, NEW n \in Nat, NEW m \in Nat, m = n + 1, NEW f, NEW g,
           Agree(ops, more, n), Trace(f, n, c, ops), Trace(g, m, c, more)
    PROVE  g[m] = Apply(f[n], more[m])
<1>1. f[n] = g[n]
  <2>1. \A k, j \in Nat : k <= j /\ Agree(ops, more, k) /\ Trace(f, k, c, ops) /\ Trace(g, j, c, more)
                         => f[k] = g[k]
    BY TraceUnique
  <2>2. n <= m
    OBVIOUS
  <2>. QED  BY <2>1, <2>2
<1>2. m \in 0..m /\ m # 0 /\ m - 1 = n
  OBVIOUS
<1>. QED  BY <1>1, <1>2 DEF Trace

LEMMA ApplyManyAppend ==
    ASSUME NEW c, NEW ops \in Seq(Op), NEW op \in Op
    PROVE  ApplyMany(c, Append(ops, op)) = Apply(ApplyMany(c, ops), op)
<1>1. PICK n \in Nat, m \in Nat, more \in Seq(Op) :
          n = Len(ops) /\ m = n + 1 /\ more = Append(ops, op) /\ m = Len(more) /\ more[m] = op
  <2>1. Len(ops) \in Nat /\ Len(ops) + 1 \in Nat /\ Append(ops, op) \in Seq(Op)
    OBVIOUS
  <2>2. Len(Append(ops, op)) = Len(ops) + 1 /\ Append(ops, op)[Len(ops) + 1] = op
    BY AppendProperties
  <2>. QED  BY <2>1, <2>2
<1>2. Agree(ops, more, n)
  <2>1. \A i \in 1..Len(ops) : ops[i] = Append(ops, op)[i]
    BY AppendProperties
  <2>. QED  BY <2>1, <1>1 DEF Agree
<1>3. PICK f : Trace(f, n, c, ops) /\ ApplyMany(c, ops) = f[n]
  BY <1>1, ApplyManyTrace
<1>4. PICK g : Trace(g, m, c, more) /\ ApplyMany(c, more) = g[m]
  BY <1>1, ApplyManyTrace
<1>5. \A k, j \in Nat : j = k + 1 /\ Agree(ops, more, k) /\ Trace(f, k, c, ops) /\ Trace(g, j, c, more)
                       => g[j] = Apply(f[k], more[j])
  BY TraceLonger
<1>6. g[m] = Apply(f[n], more[m])
  BY <1>1, <1>2, <1>3, <1>4, <1>5
<1>. QED  BY <1>1, <1>3, <1>4, <1>6

\* The operations seen by the last step of an induction.
LEMMA LastApart ==
    ASSUME NEW ops \in Seq(Op), NEW n \in Nat, Len(ops) = n + 1
    PROVE  \E front \in Seq(Op), op \in Op : ops = Append(front, op) /\ Len(front) = n
<1>1. ops # << >>
  OBVIOUS
<1>2. PICK front \in Seq(Op), op \in Op : ops = Append(front, op)
  BY <1>1, SequenceEmptyOrAppend
<1>3. Len(front) \in Nat /\ Len(ops) = Len(front) + 1
  BY <1>2, AppendProperties
<1>. QED  BY <1>2, <1>3

LEMMA ApplyManyConcat ==
    ASSUME NEW c, NEW ops \in Seq(Op), NEW more \in Seq(Op)
    PROVE  ApplyMany(c, ops \o more) = ApplyMany(ApplyMany(c, ops), more)
<1>. DEFINE T == {n \in Nat : \A s \in Seq(Op) : Len(s) = n =>
                              ApplyMany(c, ops \o s) = ApplyMany(ApplyMany(c, ops), s)}
<1>1. 0 \in T
  <2>. SUFFICES ASSUME NEW s \in Seq(Op), Len(s) = 0
                PROVE  ApplyMany(c, ops \o s) = ApplyMany(ApplyMany(c, ops), s)
    OBVIOUS
  <2>1. s = << >> /\ ops \o s = ops
    BY EmptySeq, ConcatEmptySeq
  <2>. QED  BY <2>1, ApplyManyEmpty
<1>2. ASSUME NEW n \in Nat, n \in T PROVE n + 1 \in T
  <2>. SUFFICES ASSUME NEW s \in Seq(Op), Len(s) = n + 1
                PROVE  ApplyMany(c, ops \o s) = ApplyMany(ApplyMany(c, ops), s)
    OBVIOUS
  <2>1. PICK front \in Seq(Op), op \in Op : s = Append(front, op) /\ Len(front) = n
    BY LastApart
  <2>2. ApplyMany(c, ops \o front) = ApplyMany(ApplyMany(c, ops), front)
    BY <1>2, <2>1
  <2>3. ops \o front \in Seq(Op) /\ ops \o s = Append(ops \o front, op)
    BY <2>1
  <2>4. ApplyMany(c, ops \o s) = Apply(ApplyMany(c, ops \o front), op)
    BY <2>3, ApplyManyAppend
  <2>5. ApplyMany(ApplyMany(c, ops), s) = Apply(ApplyMany(ApplyMany(c, ops), front), op)
    BY <2>1, ApplyManyAppend
  <2>. QED  BY <2>2, <2>4, <2>5
<1>. HIDE DEF T
<1>3. Nat \subseteq T
  BY <1>1, <1>2, SetInduction
<1>. QED  BY <1>3 DEF T

-----------------------------------------------------------------------------
(***************************************************************************)
(* Types of the canvas engine.                                             *)
(***************************************************************************)
LEMMA BlankIsCanvas == Blank \in Canvas
BY DEF Blank, Canvas

LEMMA CommittedType ==
    ASSUME NEW c \in Canvas, NEW s \in Item
    PROVE  Committed(c, s) \in Canvas
BY DEF Committed, Canvas

LEMMA ApplyType ==
    ASSUME NEW c \in Canvas, NEW op \in Op
    PROVE  Apply(c, op) \in Canvas
<1>1. CASE op.type = "start"
  <2>. DEFINE begun == (c.live \ Stroke(c, op.id)) \cup {[id |-> op.id, points |-> 1]}
  <2>1. Started(c, op.id) = [c EXCEPT !.live = begun]
    BY DEF Started
  <2>2. [id |-> op.id, points |-> 1] \in Item
    BY DEF Op, Item
  <2>3. begun \in SUBSET Item
    BY <2>2 DEF Canvas
  <2>. HIDE DEF begun
  <2>4. [c EXCEPT !.live = begun] \in Canvas
    BY <2>3 DEF Canvas
  <2>. QED  BY <1>1, <2>1, <2>4 DEF Apply
<1>2. CASE op.type = "move"
  <2>. DEFINE grown == {IF s.id = op.id THEN [s EXCEPT !.points = @ + 1] ELSE s : s \in c.live}
  <2>1. Moved(c, op.id) = [c EXCEPT !.live = grown]
    BY DEF Moved
  <2>2. ASSUME NEW s \in c.live PROVE s \in Item /\ [s EXCEPT !.points = @ + 1] \in Item
    <3>1. s \in Item /\ s.points + 1 \in Nat
      BY DEF Canvas, Item
    <3>. QED  BY <3>1 DEF Item
  <2>3. grown \in SUBSET Item
    BY <2>2
  <2>. HIDE DEF grown
  <2>4. [c EXCEPT !.live = grown] \in Canvas
    BY <2>3 DEF Canvas
  <2>. QED  BY <1>2, <2>1, <2>4 DEF Apply
<1>3. CASE op.type = "end"
  <2>1. CASE Stroke(c, op.id) = {}
    BY <1>3, <2>1 DEF Apply
  <2>2. CASE Stroke(c, op.id) # {}
    <3>1. (CHOOSE s \in Stroke(c, op.id) : TRUE) \in Stroke(c, op.id)
      BY <2>2
    <3>2. (CHOOSE s \in Stroke(c, op.id) : TRUE) \in Item
      BY <3>1 DEF Stroke, Canvas
    <3>. QED  BY <1>3, <2>2, <3>2, CommittedType DEF Apply
  <2>. QED  BY <2>1, <2>2
<1>4. CASE op.type = "fill"
  <2>1. [id |-> op.id, points |-> 0] \in Item
    BY DEF Op, Item
  <2>. QED  BY <1>4, <2>1, CommittedType DEF Apply
<1>5. CASE op.type = "undo"
  <2>1. CASE c.history = << >>
    BY <1>5, <2>1 DEF Apply, Undone
  <2>2. CASE c.history # << >>
    <3>1. Undone(c) = [history |-> Front(c.history), live |-> c.live]
      BY <2>2 DEF Undone, Canvas
    <3>2. Front(c.history) \in Seq(Item)
      BY <2>2 DEF Front, Canvas
    <3>3. Undone(c) \in Canvas
      BY <3>1, <3>2 DEF Canvas
    <3>. QED  BY <1>5, <3>3 DEF Apply
  <2>. QED  BY <2>1, <2>2
<1>6. CASE op.type = "clear"
  BY <1>6, BlankIsCanvas DEF Apply
<1>. QED  BY <1>1, <1>2, <1>3, <1>4, <1>5, <1>6 DEF Op

LEMMA ApplyManyType ==
    ASSUME NEW c \in Canvas, NEW ops \in Seq(Op)
    PROVE  ApplyMany(c, ops) \in Canvas
<1>. DEFINE T == {n \in Nat : \A s \in Seq(Op) : Len(s) = n => ApplyMany(c, s) \in Canvas}
<1>1. 0 \in T
  <2>1. \A s \in Seq(Op) : Len(s) = 0 => s = << >>
    BY EmptySeq
  <2>. QED  BY <2>1, ApplyManyEmpty
<1>2. ASSUME NEW n \in Nat, n \in T PROVE n + 1 \in T
  <2>. SUFFICES ASSUME NEW s \in Seq(Op), Len(s) = n + 1 PROVE ApplyMany(c, s) \in Canvas
    OBVIOUS
  <2>1. PICK front \in Seq(Op), op \in Op : s = Append(front, op) /\ Len(front) = n
    BY LastApart
  <2>2. ApplyMany(c, front) \in Canvas
    BY <1>2, <2>1
  <2>. QED  BY <2>1, <2>2, ApplyManyAppend, ApplyType
<1>. HIDE DEF T
<1>3. Nat \subseteq T
  BY <1>1, <1>2, SetInduction
<1>. QED  BY <1>3 DEF T

LEMMA ClearBlanks ==
    /\ Clear \in Op
    /\ \A c : Apply(c, Clear) = Blank
    /\ \A c : ApplyMany(c, <<Clear>>) = Blank
<1>1. Clear \in Op /\ Clear.type = "clear"
  BY DEF Clear, Op
<1>2. \A c : Apply(c, Clear) = Blank
  BY <1>1 DEF Apply
<1>3. ASSUME NEW c PROVE ApplyMany(c, <<Clear>>) = Blank
  <2>1. << >> \in Seq(Op) /\ <<Clear>> = Append(<< >>, Clear)
    OBVIOUS
  <2>. QED  BY <1>1, <1>2, <2>1, ApplyManyAppend
<1>. QED  BY <1>1, <1>2, <1>3


-----------------------------------------------------------------------------
(***************************************************************************)
(* Types.  The bound on the clears under way is that every one of them is  *)
(* an operation of the drawer.                                             *)
(***************************************************************************)
TypeInv == TypeOK /\ clearing + Len(sent) <= made

LEMMA RemoveAtType ==
    ASSUME NEW S, NEW s \in Seq(S), NEW i \in DOMAIN s
    PROVE  /\ s[i] \in S
           /\ RemoveAt(s, i) \in Seq(S)
           /\ Len(RemoveAt(s, i)) = Len(s) - 1
<1>1. i \in 1..Len(s) /\ Len(s) \in Nat /\ \A j \in 1..Len(s) : s[j] \in S
  BY ElementOfSeq
<1>2. SubSeq(s, 1, i - 1) \in Seq(S) /\ Len(SubSeq(s, 1, i - 1)) = i - 1
  <2>1. 1 \in Int /\ i - 1 \in Int /\ \A j \in 1..(i - 1) : s[j] \in S
    BY <1>1
  <2>2. /\ SubSeq(s, 1, i - 1) \in Seq(S)
        /\ Len(SubSeq(s, 1, i - 1)) = IF 1 <= i - 1 THEN i - 1 - 1 + 1 ELSE 0
    BY <2>1, SubSeqProperties
  <2>. QED  BY <2>2, <1>1
<1>3. SubSeq(s, i + 1, Len(s)) \in Seq(S) /\ Len(SubSeq(s, i + 1, Len(s))) = Len(s) - i
  <2>1. i + 1 \in Int /\ Len(s) \in Int /\ \A j \in (i + 1)..Len(s) : s[j] \in S
    BY <1>1
  <2>2. /\ SubSeq(s, i + 1, Len(s)) \in Seq(S)
        /\ Len(SubSeq(s, i + 1, Len(s)))
             = IF i + 1 <= Len(s) THEN Len(s) - (i + 1) + 1 ELSE 0
    BY <2>1, SubSeqProperties
  <2>. QED  BY <2>2, <1>1
<1>4. /\ SubSeq(s, 1, i - 1) \o SubSeq(s, i + 1, Len(s)) \in Seq(S)
      /\ Len(SubSeq(s, 1, i - 1) \o SubSeq(s, i + 1, Len(s))) = (i - 1) + (Len(s) - i)
  BY <1>2, <1>3, ConcatProperties
<1>5. RemoveAt(s, i) = SubSeq(s, 1, i - 1) \o SubSeq(s, i + 1, Len(s))
  BY DEF RemoveAt
<1>6. (i - 1) + (Len(s) - i) = Len(s) - 1
  BY <1>1
<1>. QED  BY <1>1, <1>4, <1>5, <1>6

\* LTRIM leaves at most Cap operations, and everything when there are no more.
LEMMA TrimmedType ==
    ASSUME NEW ops \in Seq(Op)
    PROVE  /\ Trimmed(ops) \in Seq(Op) /\ Len(Trimmed(ops)) <= Cap
           /\ Len(ops) <= Cap => Trimmed(ops) = ops
<1>1. Cap \in Nat /\ Len(ops) \in Nat
  BY DrawSyncAssumption
<1>2. CASE Len(ops) <= Cap
  BY <1>1, <1>2 DEF Trimmed
<1>3. CASE Len(ops) > Cap
  <2>. DEFINE from == Len(ops) - Cap + 1
  <2>1. from \in Int /\ Len(ops) \in Int /\ \A j \in from..Len(ops) : ops[j] \in Op
    BY <1>1, <1>3
  <2>2. /\ SubSeq(ops, from, Len(ops)) \in Seq(Op)
        /\ Len(SubSeq(ops, from, Len(ops))) = IF from <= Len(ops) THEN Len(ops) - from + 1 ELSE 0
    BY <2>1, SubSeqProperties
  <2>. QED  BY <2>2, <1>1, <1>3 DEF Trimmed
<1>. QED  BY <1>1, <1>2, <1>3

LEMMA ShowType ==
    ASSUME canvas \in [Viewers -> Canvas], NEW n, NEW ops \in Seq(Op), Show(n, ops)
    PROVE  canvas' \in [Viewers -> Canvas]
BY ApplyManyType DEF Show

LEMMA SendType ==
    ASSUME commands \in [Nodes -> Seq(Command)], NEW n \in Nodes, NEW x \in Command, Send(n, x)
    PROVE  commands' \in [Nodes -> Seq(Command)]
BY DEF Send

LEMMA BroadcastType ==
    ASSUME TypeOK, NEW ops \in Seq(Op), Broadcast(ops)
    PROVE  canvas' \in [Viewers -> Canvas] /\ bus' \in [Nodes -> Seq(Seq(Op))]
<1>1. canvas' \in [Viewers -> Canvas]
  BY ShowType DEF TypeOK, Broadcast
<1>2. \A n \in Nodes : Append(bus[n], ops) \in Seq(Seq(Op)) /\ bus[n] \in Seq(Seq(Op))
  BY DEF TypeOK
<1>. QED  BY <1>1, <1>2 DEF Broadcast

LEMMA CommandTypes ==
    /\ \A ops \in Seq(Op) : [do |-> "append", ops |-> ops] \in Command
    /\ [do |-> "del"] \in Command
    /\ \A v \in Viewers : [do |-> "read", viewer |-> v] \in Command
    /\ \A x \in Command : /\ x.do \in {"append", "del", "read"}
                          /\ x.do = "append" => x.ops \in Seq(Op)
                          /\ x.do = "read" => x.viewer \in Viewers
BY DEF Command

LEMMA NextOpsType == ASSUME TypeOK, NEW op \in NextOps PROVE op \in Op
<1>1. made + 1 \in Nat /\ \A s \in mine.live : s.id \in Nat
  BY DrawSyncAssumption DEF TypeOK, Canvas, Item
<1>. QED  BY <1>1 DEF NextOps, Op

LEMMA TypeInit == Init => TypeInv
<1>. SUFFICES ASSUME Init PROVE TypeInv
  OBVIOUS
<1>1. mine \in Canvas /\ canvas \in [Viewers -> Canvas]
  BY BlankIsCanvas DEF Init
<1>2. /\ sent \in Seq([op : Op, slow : BOOLEAN]) /\ Len(sent) = 0
      /\ pending \in Seq(Op) /\ commands \in [Nodes -> Seq(Command)]
      /\ bus \in [Nodes -> Seq(Seq(Op))]
  BY DEF Init
<1>3. buffer \in Seq(Op) /\ Len(buffer) <= Cap
  BY DrawSyncAssumption DEF Init
<1>4. stage \in [Viewers -> Stages] /\ home \in [Viewers -> Nodes] /\ captured \in [Viewers -> Seq(Op)]
  BY DEF Init, Stages
<1>5. clearing \in 0..MaxOps /\ made \in 0..MaxOps /\ losses \in 0..MaxLosses
      /\ clearing + Len(sent) <= made
  BY <1>2, DrawSyncAssumption DEF Init
<1>6. {trimmed, hasty} \subseteq BOOLEAN /\ raced \cup missed \cup watching \subseteq Viewers
  BY DEF Init
<1>. QED  BY <1>1, <1>2, <1>3, <1>4, <1>5, <1>6 DEF TypeInv, TypeOK

LEMMA DrawType ==
    ASSUME TypeInv, NEW op \in NextOps, NEW slow \in BOOLEAN, Draw(op, slow)
    PROVE  TypeInv'
<1>1. op \in Op
  BY NextOpsType DEF TypeInv
<1>2. mine' \in Canvas
  BY <1>1, ApplyType DEF TypeInv, TypeOK, Draw
<1>3. sent' \in Seq([op : Op, slow : BOOLEAN]) /\ Len(sent') = Len(sent) + 1
  BY <1>1 DEF TypeInv, TypeOK, Draw
<1>4. made' \in 0..MaxOps /\ made' = made + 1
  BY DrawSyncAssumption DEF TypeInv, TypeOK, Draw
<1>. QED  BY <1>2, <1>3, <1>4 DEF TypeInv, TypeOK, Draw, viewers

LEMMA AuthoriseType ==
    ASSUME TypeInv, NEW i \in DOMAIN sent, Authorise(i)
    PROVE  TypeInv'
<1>1. /\ sent[i] \in [op : Op, slow : BOOLEAN] /\ sent' \in Seq([op : Op, slow : BOOLEAN])
      /\ Len(sent') = Len(sent) - 1
  BY RemoveAtType DEF TypeInv, TypeOK, Authorise
<1>2. Len(sent) \in Nat /\ clearing \in Nat /\ made \in Nat /\ made <= MaxOps /\ MaxOps \in Nat
      /\ clearing + Len(sent) <= made
  BY DrawSyncAssumption DEF TypeInv, TypeOK
<1>3. raced' \subseteq Viewers
  BY DEF TypeInv, TypeOK, Authorise
<1>4. CASE sent[i].op = Clear
  <2>1. Desk \in Nodes /\ commands \in [Nodes -> Seq(Command)] /\ Send(Desk, [do |-> "del"])
    BY <1>4, DrawSyncAssumption DEF TypeInv, TypeOK, Authorise
  <2>2. commands' \in [Nodes -> Seq(Command)]
    BY <2>1, SendType, CommandTypes
  <2>3. pending' = << >> /\ clearing' = clearing + 1 /\ made' = made
    BY <1>4 DEF Authorise, drawer
  <2>4. clearing' \in 0..MaxOps /\ clearing' + Len(sent') <= made'
    BY <2>3, <1>1, <1>2
  <2>. QED  BY <1>1, <1>3, <2>2, <2>3, <2>4 DEF TypeInv, TypeOK, Authorise, drawer
<1>5. CASE sent[i].op # Clear
  <2>1. /\ pending' = Append(pending, sent[i].op) /\ UNCHANGED <<commands, clearing>>
        /\ made' = made
    BY <1>5 DEF Authorise, drawer
  <2>2. pending' \in Seq(Op)
    BY <2>1, <1>1 DEF TypeInv, TypeOK
  <2>3. clearing' + Len(sent') <= made'
    BY <2>1, <1>1, <1>2
  <2>. QED  BY <1>1, <1>3, <2>1, <2>2, <2>3 DEF TypeInv, TypeOK, Authorise, drawer
<1>. QED  BY <1>4, <1>5

LEMMA FlushType == ASSUME TypeInv, Flush PROVE TypeInv'
<1>1. pending \in Seq(Op) /\ Broadcast(pending) /\ TypeOK
  BY DEF TypeInv, TypeOK, Flush
<1>2. canvas' \in [Viewers -> Canvas] /\ bus' \in [Nodes -> Seq(Seq(Op))]
  BY <1>1, BroadcastType
<1>3. Desk \in Nodes /\ commands \in [Nodes -> Seq(Command)]
      /\ Send(Desk, [do |-> "append", ops |-> pending])
  BY DrawSyncAssumption DEF TypeInv, TypeOK, Flush
<1>4. commands' \in [Nodes -> Seq(Command)]
  BY <1>1, <1>3, SendType, CommandTypes
<1>5. raced' \subseteq Viewers /\ hasty' \in BOOLEAN
  BY DEF TypeInv, TypeOK, Flush
<1>6. pending' \in Seq(Op)
  BY DEF Flush
<1>. QED  BY <1>2, <1>4, <1>5, <1>6 DEF TypeInv, TypeOK, Flush, drawer

LEMMA AnnounceType == ASSUME TypeInv, Announce PROVE TypeInv'
<1>1. <<Clear>> \in Seq(Op) /\ Broadcast(<<Clear>>) /\ TypeOK
  BY ClearBlanks DEF TypeInv, Announce
<1>2. canvas' \in [Viewers -> Canvas] /\ bus' \in [Nodes -> Seq(Seq(Op))]
  BY <1>1, BroadcastType
<1>3. Cardinality(Dels) \in Nat
  <2>1. Len(commands[Desk]) \in Nat /\ DOMAIN commands[Desk] = 1..Len(commands[Desk])
    BY DrawSyncAssumption DEF TypeInv, TypeOK
  <2>2. IsFiniteSet(1..Len(commands[Desk])) /\ Dels \subseteq 1..Len(commands[Desk])
    BY <2>1, FS_Interval DEF Dels
  <2>. QED  BY <2>2, FS_Subset, FS_CardinalityType
<1>4. clearing' \in 0..MaxOps /\ clearing' + Len(sent') <= made'
  <2>1. clearing \in 0..MaxOps /\ clearing > Cardinality(Dels) /\ clearing' = clearing - 1
        /\ sent' = sent /\ made' = made /\ clearing + Len(sent) <= made
        /\ Len(sent) \in Nat /\ made \in Int /\ MaxOps \in Nat
    BY DrawSyncAssumption DEF TypeInv, TypeOK, Announce, drawer
  <2>. QED  BY <1>3, <2>1
<1>. QED  BY <1>2, <1>4 DEF TypeInv, TypeOK, Announce, drawer

LEMMA ExecuteType == ASSUME TypeInv, NEW n \in Nodes, Execute(n) PROVE TypeInv'
<1>. DEFINE q == commands[n]
            x == Head(q)
<1>1. q \in Seq(Command) /\ q # << >> /\ x \in Command /\ Tail(q) \in Seq(Command)
  BY HeadTailProperties DEF TypeInv, TypeOK, Execute
<1>2. commands' \in [Nodes -> Seq(Command)]
  BY <1>1 DEF TypeInv, TypeOK, Execute
<1>3. CASE x.do = "append"
  <2>1. buffer \o x.ops \in Seq(Op)
    BY <1>1, <1>3, CommandTypes DEF TypeInv, TypeOK
  <2>2. buffer' = Trimmed(buffer \o x.ops) /\ UNCHANGED <<stage, captured>>
        /\ trimmed' = (trimmed \/ Len(buffer) + Len(x.ops) > Cap)
    BY <1>3 DEF Execute
  <2>3. buffer' \in Seq(Op) /\ Len(buffer') <= Cap /\ trimmed' \in BOOLEAN
    BY <2>1, <2>2, TrimmedType DEF TypeInv, TypeOK
  <2>. QED  BY <1>2, <2>2, <2>3 DEF TypeInv, TypeOK, Execute, drawer
<1>4. CASE x.do = "del"
  <2>1. buffer' = << >> /\ trimmed' = FALSE /\ UNCHANGED <<stage, captured>>
    BY <1>4 DEF Execute
  <2>2. buffer' \in Seq(Op) /\ Len(buffer') <= Cap
    BY <2>1, DrawSyncAssumption
  <2>. QED  BY <1>2, <2>1, <2>2 DEF TypeInv, TypeOK, Execute, drawer
<1>5. CASE x.do = "read"
  <2>1. /\ stage' = [stage EXCEPT ![x.viewer] = "read"]
        /\ captured' = [captured EXCEPT ![x.viewer] = buffer] /\ UNCHANGED <<buffer, trimmed>>
    BY <1>5 DEF Execute
  <2>2. x.viewer \in Viewers
    BY <1>1, <1>5, CommandTypes
  <2>3. stage' \in [Viewers -> Stages] /\ captured' \in [Viewers -> Seq(Op)]
    BY <2>1, <2>2 DEF TypeInv, TypeOK, Stages
  <2>. QED  BY <1>2, <2>1, <2>3 DEF TypeInv, TypeOK, Execute, drawer
<1>. QED  BY <1>1, <1>3, <1>4, <1>5, CommandTypes

LEMMA DeliverType == ASSUME TypeInv, NEW n \in Nodes, Deliver(n) PROVE TypeInv'
<1>1. Head(bus[n]) \in Seq(Op) /\ Tail(bus[n]) \in Seq(Seq(Op))
  BY HeadTailProperties DEF TypeInv, TypeOK, Deliver
<1>2. canvas' \in [Viewers -> Canvas]
  BY <1>1, ShowType DEF TypeInv, TypeOK, Deliver
<1>3. bus' \in [Nodes -> Seq(Seq(Op))]
  BY <1>1 DEF TypeInv, TypeOK, Deliver
<1>. QED  BY <1>2, <1>3 DEF TypeInv, TypeOK, Deliver, drawer

LEMMA ViewerType ==
    ASSUME TypeInv, NEW v \in Viewers,
           \/ \E n \in Nodes : Bind(v, n)
           \/ AskBuffer(v) \/ Replay(v) \/ EnterRoom(v) \/ Lose(v)
    PROVE  TypeInv'
<1>1. ASSUME NEW n \in Nodes, Bind(v, n) PROVE TypeInv'
  <2>1. home' \in [Viewers -> Nodes] /\ stage' \in [Viewers -> Stages] /\ raced' \subseteq Viewers
    BY <1>1 DEF TypeInv, TypeOK, Bind, Stages
  <2>. QED  BY <1>1, <2>1 DEF TypeInv, TypeOK, Bind, server, drawer
<1>2. CASE AskBuffer(v)
  <2>1. home[v] \in Nodes /\ commands \in [Nodes -> Seq(Command)]
        /\ Send(home[v], [do |-> "read", viewer |-> v])
    BY <1>2 DEF TypeInv, TypeOK, AskBuffer
  <2>2. commands' \in [Nodes -> Seq(Command)]
    BY <2>1, SendType, CommandTypes
  <2>3. stage' \in [Viewers -> Stages]
    BY <1>2 DEF TypeInv, TypeOK, AskBuffer, Stages
  <2>. QED  BY <1>2, <2>2, <2>3 DEF TypeInv, TypeOK, AskBuffer, drawer
<1>3. CASE Replay(v)
  <2>1. stage' \in [Viewers -> Stages] /\ captured' \in [Viewers -> Seq(Op)] /\ missed' \subseteq Viewers
    BY <1>3 DEF TypeInv, TypeOK, Replay, Stages
  <2>2. canvas' \in [Viewers -> Canvas]
    BY <1>3, ApplyManyType DEF TypeInv, TypeOK, Replay
  <2>. QED  BY <1>3, <2>1, <2>2 DEF TypeInv, TypeOK, Replay, server, drawer
<1>4. CASE EnterRoom(v)
  BY <1>4 DEF TypeInv, TypeOK, EnterRoom, server, drawer
<1>5. CASE Lose(v)
  <2>1. stage' \in [Viewers -> Stages] /\ raced' \cup missed' \subseteq Viewers
    BY <1>5 DEF TypeInv, TypeOK, Lose, Stages
  <2>2. canvas' \in [Viewers -> Canvas]
    BY <1>5, BlankIsCanvas DEF TypeInv, TypeOK, Lose
  <2>3. losses' \in 0..MaxLosses
    BY <1>5, DrawSyncAssumption DEF TypeInv, TypeOK, Lose
  <2>. QED  BY <1>5, <2>1, <2>2, <2>3 DEF TypeInv, TypeOK, Lose, server, drawer
<1>. QED  BY <1>1, <1>2, <1>3, <1>4, <1>5

LEMMA TypeStep == TypeInv /\ [Next]_vars => TypeInv'
<1>. SUFFICES ASSUME TypeInv, [Next]_vars PROVE TypeInv'
  OBVIOUS
<1>1. CASE UNCHANGED vars
  BY <1>1 DEF TypeInv, TypeOK, vars, server, viewers, drawer
<1>2. ASSUME NEW op \in NextOps, NEW slow \in BOOLEAN, Draw(op, slow) PROVE TypeInv'
  BY <1>2, DrawType
<1>3. ASSUME NEW i \in DOMAIN sent, Authorise(i) PROVE TypeInv'
  BY <1>3, AuthoriseType
<1>4. ASSUME NEW n \in Nodes, Execute(n) \/ Deliver(n) PROVE TypeInv'
  BY <1>4, ExecuteType, DeliverType
<1>5. ASSUME NEW v \in Viewers,
             \/ \E n \in Nodes : Bind(v, n)
             \/ AskBuffer(v) \/ Replay(v) \/ EnterRoom(v) \/ Lose(v)
      PROVE  TypeInv'
  BY <1>5, ViewerType
<1>. QED  BY <1>1, <1>2, <1>3, <1>4, <1>5, FlushType, AnnounceType DEF Next

\* The state stays well formed: the buffer within its cap, the clears under way within
\* the operations made.  For any viewers, nodes and bounds, overtaking handlers included.
THEOREM TypeCorrect == Spec => []TypeOK
<1>1. TypeInv => TypeOK
  BY DEF TypeInv
<1>. QED  BY TypeInit, TypeStep, <1>1, PTL DEF Spec

-----------------------------------------------------------------------------
(***************************************************************************)
(* The buffer and the drawer's canvas.  The commands on their way to the   *)
(* buffer lead from what it shows to a canvas, and the operations the      *)
(* server has yet to send there lead from that one to the drawer's.        *)
(***************************************************************************)
\* What a command does to the canvas the buffer shows.
Effect(c, x) == IF x.do = "append" THEN ApplyMany(c, x.ops)
                ELSE IF x.do = "del" THEN Blank ELSE c

\* f holds that canvas before and after each of the commands.
Run(f, q) == /\ f \in [0..Len(q) -> Canvas]
             /\ \A i \in 1..Len(q) : f[i] = Effect(f[i - 1], q[i])

ReadsOnly(q) == \A i \in DOMAIN q : q[i].do = "read"

OpsOf(s) == [i \in 1..Len(s) |-> s[i].op]
Outstanding == pending \o OpsOf(sent)

\* Only the drawer's node writes, and its handlers keep their order.
InOrder == /\ \A n \in Nodes \ {Desk} : ReadsOnly(commands[n])
           /\ \A i \in DOMAIN sent : ~sent[i].slow

BufferLeads ==
    \E f : /\ Run(f, commands[Desk])
           /\ ~trimmed => f[0] = ApplyMany(Blank, buffer)
           /\ mine = ApplyMany(f[Len(commands[Desk])], Outstanding)

BufferInv == TypeInv /\ InOrder /\ BufferLeads

LEMMA EffectType ==
    ASSUME NEW c \in Canvas, NEW x \in Command PROVE Effect(c, x) \in Canvas
BY ApplyManyType, BlankIsCanvas, CommandTypes DEF Effect

LEMMA RunLonger ==
    ASSUME NEW q \in Seq(Command), NEW x \in Command, NEW f, Run(f, q)
    PROVE  \E g : /\ Run(g, Append(q, x)) /\ g[0] = f[0]
                  /\ g[Len(Append(q, x))] = Effect(f[Len(q)], x)
<1>. DEFINE n == Len(q)
            g == [i \in 0..(n + 1) |-> IF i <= n THEN f[i] ELSE Effect(f[n], x)]
<1>1. /\ n \in Nat /\ Len(Append(q, x)) = n + 1 /\ Append(q, x)[n + 1] = x
      /\ \A i \in 1..n : Append(q, x)[i] = q[i]
  BY AppendProperties
<1>2. f \in [0..n -> Canvas] /\ \A i \in 1..n : f[i] = Effect(f[i - 1], q[i])
  BY DEF Run
<1>3. Effect(f[n], x) \in Canvas
  BY <1>1, <1>2, EffectType
<1>4. g \in [0..(n + 1) -> Canvas]
  BY <1>1, <1>2, <1>3
<1>5. ASSUME NEW i \in 1..(n + 1) PROVE g[i] = Effect(g[i - 1], Append(q, x)[i])
  <2>1. CASE i <= n
    <3>1. i \in 1..n /\ g[i] = f[i] /\ g[i - 1] = f[i - 1]
      BY <1>1, <2>1
    <3>. QED  BY <3>1, <1>1, <1>2
  <2>2. CASE i = n + 1
    <3>1. g[i] = Effect(f[n], x) /\ g[i - 1] = f[n]
      BY <1>1, <2>2
    <3>. QED  BY <3>1, <1>1, <2>2
  <2>. QED  BY <1>1, <2>1, <2>2
<1>6. g[0] = f[0] /\ g[n + 1] = Effect(f[n], x)
  BY <1>1
<1>7. Run(g, Append(q, x))
  BY <1>1, <1>4, <1>5 DEF Run
<1>. QED  BY <1>1, <1>6, <1>7

LEMMA RunShorter ==
    ASSUME NEW q \in Seq(Command), q # << >>, NEW f, Run(f, q)
    PROVE  \E g : /\ Run(g, Tail(q)) /\ g[0] = Effect(f[0], Head(q))
                  /\ g[Len(Tail(q))] = f[Len(q)]
<1>. DEFINE n == Len(q)
            g == [i \in 0..(n - 1) |-> f[i + 1]]
<1>1. /\ n \in Nat /\ n > 0 /\ Len(Tail(q)) = n - 1 /\ Head(q) = q[1]
      /\ \A i \in 1..(n - 1) : Tail(q)[i] = q[i + 1]
  BY HeadTailProperties, EmptySeq
<1>2. f \in [0..n -> Canvas] /\ \A i \in 1..n : f[i] = Effect(f[i - 1], q[i])
  BY DEF Run
<1>3. g \in [0..(n - 1) -> Canvas]
  BY <1>1, <1>2
<1>4. ASSUME NEW i \in 1..(n - 1) PROVE g[i] = Effect(g[i - 1], Tail(q)[i])
  <2>1. i + 1 \in 1..n /\ g[i] = f[i + 1] /\ g[i - 1] = f[i] /\ (i + 1) - 1 = i
    BY <1>1
  <2>. QED  BY <2>1, <1>1, <1>2
<1>5. g[0] = f[1] /\ g[n - 1] = f[n]
  BY <1>1
<1>6. f[1] = Effect(f[0], q[1])
  BY <1>1, <1>2
<1>7. Run(g, Tail(q))
  BY <1>1, <1>3, <1>4 DEF Run
<1>. QED  BY <1>1, <1>5, <1>6, <1>7

LEMMA RunOfReads ==
    ASSUME NEW q \in Seq(Command), NEW f, Run(f, q), ReadsOnly(q)
    PROVE  f[Len(q)] = f[0]
<1>. DEFINE T == {k \in Nat : k <= Len(q) => f[k] = f[0]}
<1>0. Len(q) \in Nat /\ DOMAIN q = 1..Len(q)
  OBVIOUS
<1>1. 0 \in T
  OBVIOUS
<1>2. ASSUME NEW k \in Nat, k \in T PROVE k + 1 \in T
  <2>. SUFFICES ASSUME k + 1 <= Len(q) PROVE f[k + 1] = f[0]
    OBVIOUS
  <2>1. f[k] = f[0] /\ k + 1 \in 1..Len(q) /\ (k + 1) - 1 = k
    BY <1>0, <1>2
  <2>2. f[k + 1] = Effect(f[k], q[k + 1])
    BY <2>1 DEF Run
  <2>3. q[k + 1].do = "read"
    BY <2>1, <1>0 DEF ReadsOnly
  <2>. QED  BY <2>1, <2>2, <2>3 DEF Effect
<1>. HIDE DEF T
<1>3. Nat \subseteq T
  BY <1>1, <1>2, SetInduction
<1>. QED  BY <1>0, <1>3 DEF T

-----------------------------------------------------------------------------
(***************************************************************************)
(* The operations on the drawer's node.                                    *)
(***************************************************************************)
Sending == [op : Op, slow : BOOLEAN]

LEMMA OpsOfType == ASSUME NEW s \in Seq(Sending) PROVE OpsOf(s) \in Seq(Op)
<1>1. \A i \in 1..Len(s) : s[i] \in Sending
  BY ElementOfSeq
<1>2. \A i \in 1..Len(s) : s[i].op \in Op
  BY <1>1 DEF Sending
<1>3. Len(s) \in Nat
  OBVIOUS
<1>. QED  BY <1>2, <1>3 DEF OpsOf

LEMMA OpsOfAppend ==
    ASSUME NEW s \in Seq(Sending), NEW x \in Sending
    PROVE  OpsOf(Append(s, x)) = Append(OpsOf(s), x.op)
<1>1. Append(s, x) \in Seq(Sending) /\ x.op \in Op
  BY DEF Sending
<1>2. OpsOf(s) \in Seq(Op) /\ OpsOf(Append(s, x)) \in Seq(Op)
  BY <1>1, OpsOfType
<1>3. Append(OpsOf(s), x.op) \in Seq(Op)
  BY <1>1, <1>2
<1>4. /\ Len(s) \in Nat /\ Len(Append(s, x)) = Len(s) + 1 /\ Append(s, x)[Len(s) + 1] = x
      /\ \A i \in 1..Len(s) : Append(s, x)[i] = s[i]
  BY AppendProperties
<1>5. Len(OpsOf(s)) = Len(s) /\ Len(OpsOf(Append(s, x))) = Len(s) + 1
  BY <1>4 DEF OpsOf
<1>6. /\ Len(Append(OpsOf(s), x.op)) = Len(s) + 1 /\ Append(OpsOf(s), x.op)[Len(s) + 1] = x.op
      /\ \A i \in 1..Len(s) : Append(OpsOf(s), x.op)[i] = OpsOf(s)[i]
  BY <1>1, <1>2, <1>5, AppendProperties
<1>7. \A i \in 1..(Len(s) + 1) : OpsOf(Append(s, x))[i] = Append(OpsOf(s), x.op)[i]
  BY <1>4, <1>6 DEF OpsOf
<1>. QED  BY <1>2, <1>3, <1>5, <1>6, <1>7, SeqEqual

LEMMA OpsOfFirst ==
    ASSUME NEW s \in Seq(Sending), s # << >>
    PROVE  /\ s[1].op \in Op /\ RemoveAt(s, 1) \in Seq(Sending)
           /\ OpsOf(s) = <<s[1].op>> \o OpsOf(RemoveAt(s, 1))
<1>. DEFINE r == RemoveAt(s, 1)
<1>1. Len(s) \in Nat /\ 1 \in DOMAIN s /\ s[1] \in Sending
  BY EmptySeq, ElementOfSeq
<1>2. r = Tail(s)
  <2>1. SubSeq(s, 1, 1 - 1) = << >>
    BY SubSeqEmpty
  <2>2. SubSeq(s, 1 + 1, Len(s)) = Tail(s) /\ Tail(s) \in Seq(Sending)
    BY TailIsSubSeq, HeadTailProperties
  <2>3. << >> \o Tail(s) = Tail(s)
    BY <2>2, ConcatEmptySeq
  <2>. QED  BY <2>1, <2>2, <2>3 DEF RemoveAt
<1>3. r \in Seq(Sending) /\ Len(r) = Len(s) - 1 /\ \A i \in 1..(Len(s) - 1) : r[i] = s[i + 1]
  BY <1>2, HeadTailProperties
<1>. HIDE DEF r
<1>4. s[1].op \in Op /\ OpsOf(s) \in Seq(Op) /\ OpsOf(r) \in Seq(Op)
  BY <1>1, <1>3, OpsOfType DEF Sending
<1>5. <<s[1].op>> \o OpsOf(r) \in Seq(Op)
  BY <1>4
<1>6. Len(OpsOf(s)) = Len(s) /\ Len(<<s[1].op>> \o OpsOf(r)) = Len(s)
  BY <1>1, <1>3, <1>4 DEF OpsOf
<1>7. ASSUME NEW i \in 1..Len(s) PROVE OpsOf(s)[i] = (<<s[1].op>> \o OpsOf(r))[i]
  <2>1. CASE i = 1
    BY <1>1, <1>4, <2>1 DEF OpsOf
  <2>2. CASE i > 1
    <3>1. i - 1 \in 1..(Len(s) - 1) /\ (i - 1) + 1 = i
      BY <1>1, <2>2
    <3>2. (<<s[1].op>> \o OpsOf(r))[i] = OpsOf(r)[i - 1]
      <4>1. Len(OpsOf(r)) = Len(s) - 1 /\ Len(<<s[1].op>>) = 1 /\ <<s[1].op>> \in Seq(Op)
        BY <1>1, <1>3, <1>4 DEF OpsOf
      <4>2. \A j \in 1..(1 + (Len(s) - 1)) : (<<s[1].op>> \o OpsOf(r))[j]
                                           = IF j <= 1 THEN <<s[1].op>>[j] ELSE OpsOf(r)[j - 1]
        <5>1. /\ Len(<<s[1].op>>) + Len(OpsOf(r)) = 1 + (Len(s) - 1)
              /\ \A j \in 1..(Len(<<s[1].op>>) + Len(OpsOf(r))) :
                    (<<s[1].op>> \o OpsOf(r))[j] = IF j <= Len(<<s[1].op>>) THEN <<s[1].op>>[j]
                                                  ELSE OpsOf(r)[j - Len(<<s[1].op>>)]
          BY <4>1, <1>4, ConcatProperties
        <5>. QED  BY <4>1, <5>1
      <4>3. i \in 1..(1 + (Len(s) - 1)) /\ ~(i <= 1)
        BY <1>1, <2>2
      <4>. QED  BY <4>2, <4>3
    <3>3. OpsOf(r)[i - 1] = r[i - 1].op /\ OpsOf(s)[i] = s[i].op
      BY <3>1, <1>3 DEF OpsOf
    <3>4. r[i - 1] = s[i]
      BY <3>1, <1>3
    <3>. QED  BY <3>2, <3>3, <3>4
  <2>3. i = 1 \/ i > 1
    BY <1>1
  <2>. QED  BY <2>1, <2>2, <2>3
<1>8. OpsOf(s) = <<s[1].op>> \o OpsOf(r)
  BY <1>4, <1>5, <1>6, <1>7, SeqEqual
<1>. QED  BY <1>3, <1>4, <1>8 DEF r

\* What the server's variables hold of the drawing, with their types.
LEMMA DrawingTypes ==
    ASSUME TypeInv
    PROVE  /\ Desk \in Nodes /\ commands[Desk] \in Seq(Command) /\ Len(commands[Desk]) \in Nat
           /\ sent \in Seq(Sending) /\ pending \in Seq(Op) /\ buffer \in Seq(Op)
           /\ OpsOf(sent) \in Seq(Op) /\ Outstanding \in Seq(Op)
<1>1. sent \in Seq(Sending) /\ pending \in Seq(Op) /\ buffer \in Seq(Op)
  BY DEF TypeInv, TypeOK, Sending
<1>2. OpsOf(sent) \in Seq(Op)
  BY <1>1, OpsOfType
<1>3. Desk \in Nodes /\ commands[Desk] \in Seq(Command)
  BY DrawSyncAssumption DEF TypeInv, TypeOK
<1>. QED  BY <1>1, <1>2, <1>3 DEF Outstanding

\* Handlers that keep their order are done in the order of the operations.
LEMMA OldestFirst ==
    ASSUME TypeInv, InOrder, NEW i \in DOMAIN sent, Authorise(i)
    PROVE  i = 1 /\ sent # << >>
<1>1. sent \in Seq(Sending) /\ i \in 1..Len(sent) /\ Len(sent) \in Nat
  BY DrawingTypes
<1>2. \A j \in 1..(i - 1) : sent[j].slow
  BY DEF Authorise
<1>3. ASSUME i # 1 PROVE FALSE
  <2>1. 1 \in 1..(i - 1) /\ 1 \in DOMAIN sent
    BY <1>1, <1>3
  <2>. QED  BY <2>1, <1>2 DEF InOrder
<1>. QED  BY <1>1, <1>3

\* An operation that is not a clear stays outstanding when its handler is done...
LEMMA OutstandingKept ==
    ASSUME TypeInv, sent # << >>,
           pending' = Append(pending, sent[1].op), sent' = RemoveAt(sent, 1)
    PROVE  Outstanding' = Outstanding
<1>. DEFINE rest == OpsOf(RemoveAt(sent, 1))
            op == sent[1].op
<1>1. sent \in Seq(Sending) /\ pending \in Seq(Op)
  BY DrawingTypes
<1>2. op \in Op /\ RemoveAt(sent, 1) \in Seq(Sending) /\ OpsOf(sent) = <<op>> \o rest
  BY <1>1, OpsOfFirst
<1>3. rest \in Seq(Op)
  BY <1>2, OpsOfType
<1>4. Append(pending, op) = pending \o <<op>>
  BY <1>1, <1>2, AppendIsConcat
<1>. HIDE DEF rest, op
<1>5. <<op>> \in Seq(Op)
  BY <1>2
<1>6. (pending \o <<op>>) \o rest = pending \o (<<op>> \o rest)
  BY <1>1, <1>3, <1>5, ConcatAssociative
<1>. QED  BY <1>2, <1>4, <1>6 DEF Outstanding, rest, op

\* ... and what precedes a clear does not matter when the clear's is done.
LEMMA OutstandingCleared ==
    ASSUME TypeInv, sent # << >>, sent[1].op = Clear,
           pending' = << >>, sent' = RemoveAt(sent, 1), NEW c \in Canvas
    PROVE  ApplyMany(c, Outstanding) = ApplyMany(Blank, Outstanding')
<1>. DEFINE rest == OpsOf(RemoveAt(sent, 1))
<1>1. sent \in Seq(Sending) /\ pending \in Seq(Op)
  BY DrawingTypes
<1>2. Clear \in Op /\ RemoveAt(sent, 1) \in Seq(Sending) /\ OpsOf(sent) = <<Clear>> \o rest
  BY <1>1, OpsOfFirst
<1>3. rest \in Seq(Op)
  BY <1>2, OpsOfType
<1>4. Outstanding' = rest
  <2>1. << >> \o rest = rest
    BY <1>3, ConcatEmptySeq
  <2>. QED  BY <2>1 DEF Outstanding
<1>5. Outstanding = pending \o (<<Clear>> \o rest)
  BY <1>2 DEF Outstanding
<1>. HIDE DEF rest
<1>6. <<Clear>> \in Seq(Op) /\ <<Clear>> \o rest \in Seq(Op)
  BY <1>2, <1>3
<1>7. ApplyMany(c, pending \o (<<Clear>> \o rest)) = ApplyMany(ApplyMany(c, pending), <<Clear>> \o rest)
  BY <1>1, <1>6, ApplyManyConcat
<1>8. ApplyMany(ApplyMany(c, pending), <<Clear>> \o rest)
        = ApplyMany(ApplyMany(ApplyMany(c, pending), <<Clear>>), rest)
  BY <1>3, <1>6, ApplyManyConcat
<1>9. ApplyMany(ApplyMany(c, pending), <<Clear>>) = Blank
  BY ClearBlanks
<1>. QED  BY <1>4, <1>5, <1>7, <1>8, <1>9

\* A flush takes the pending operations off what is outstanding.
LEMMA OutstandingFlushed ==
    ASSUME TypeInv, pending' = << >>, sent' = sent, NEW c \in Canvas
    PROVE  ApplyMany(c, Outstanding) = ApplyMany(ApplyMany(c, pending), Outstanding')
<1>1. OpsOf(sent) \in Seq(Op) /\ pending \in Seq(Op)
  BY DrawingTypes
<1>2. Outstanding' = OpsOf(sent)
  <2>1. << >> \o OpsOf(sent) = OpsOf(sent)
    BY <1>1, ConcatEmptySeq
  <2>. QED  BY <2>1 DEF Outstanding, OpsOf
<1>. QED  BY <1>1, <1>2, ApplyManyConcat DEF Outstanding

\* An operation the drawer makes is outstanding first.
LEMMA OutstandingDrawn ==
    ASSUME TypeInv, NEW op \in Op, NEW slow \in BOOLEAN, pending' = pending,
           sent' = Append(sent, [op |-> op, slow |-> slow]), NEW c
    PROVE  ApplyMany(c, Outstanding') = Apply(ApplyMany(c, Outstanding), op)
<1>1. sent \in Seq(Sending) /\ [op |-> op, slow |-> slow] \in Sending
      /\ pending \in Seq(Op) /\ OpsOf(sent) \in Seq(Op) /\ Outstanding \in Seq(Op)
  BY DrawingTypes DEF Sending
<1>2. OpsOf(sent') = Append(OpsOf(sent), op)
  BY <1>1, OpsOfAppend
<1>3. pending \o Append(OpsOf(sent), op) = Append(pending \o OpsOf(sent), op)
  <2>1. <<op>> \in Seq(Op) /\ pending \o OpsOf(sent) \in Seq(Op)
    BY <1>1
  <2>2. Append(OpsOf(sent), op) = OpsOf(sent) \o <<op>>
        /\ Append(pending \o OpsOf(sent), op) = (pending \o OpsOf(sent)) \o <<op>>
    BY <1>1, <2>1, AppendIsConcat
  <2>. QED  BY <1>1, <2>1, <2>2, ConcatAssociative
<1>4. Outstanding' = Append(Outstanding, op)
  BY <1>2, <1>3 DEF Outstanding
<1>. QED  BY <1>1, <1>4, ApplyManyAppend

-----------------------------------------------------------------------------
(***************************************************************************)
(* The steps keep their order.                                             *)
(***************************************************************************)
LEMMA OrderInit == Init => InOrder
BY DEF Init, InOrder, ReadsOnly

LEMMA ReadsOnlyTail ==
    ASSUME NEW q \in Seq(Command), q # << >>, ReadsOnly(q) PROVE ReadsOnly(Tail(q))
BY DEF ReadsOnly

LEMMA ReadsOnlyLonger ==
    ASSUME NEW q \in Seq(Command), ReadsOnly(q), NEW v \in Viewers
    PROVE  ReadsOnly(Append(q, [do |-> "read", viewer |-> v]))
BY CommandTypes DEF ReadsOnly

LEMMA SlowKept ==
    ASSUME TypeInv, InOrder, NEW i \in DOMAIN sent, Authorise(i)
    PROVE  \A j \in DOMAIN sent' : ~sent'[j].slow
<1>1. sent \in Seq(Sending) /\ i = 1 /\ sent # << >> /\ sent' = RemoveAt(sent, i)
  BY DrawingTypes, OldestFirst DEF Authorise
<1>2. RemoveAt(sent, 1) = Tail(sent)
  <2>1. SubSeq(sent, 1, 1 - 1) = << >>
    BY SubSeqEmpty
  <2>2. SubSeq(sent, 1 + 1, Len(sent)) = Tail(sent) /\ Tail(sent) \in Seq(Sending)
    BY <1>1, TailIsSubSeq, HeadTailProperties
  <2>3. << >> \o Tail(sent) = Tail(sent)
    BY <2>2, ConcatEmptySeq
  <2>. QED  BY <2>1, <2>2, <2>3 DEF RemoveAt
<1>3. Tail(sent) \in Seq(Sending) /\ Len(Tail(sent)) = Len(sent) - 1 /\ Len(sent) \in Nat
      /\ \A j \in 1..(Len(sent) - 1) : Tail(sent)[j] = sent[j + 1]
  BY <1>1, HeadTailProperties
<1>4. \A j \in 1..Len(sent) : ~sent[j].slow
  BY <1>1 DEF InOrder
<1>. QED  BY <1>1, <1>2, <1>3, <1>4

LEMMA OrderStep ==
    ASSUME Overtaking = FALSE, TypeInv, InOrder, [Next]_vars
    PROVE  InOrder'
<1>. DEFINE Same == commands' = commands /\ sent' = sent
<1>0. sent \in Seq(Sending) /\ \A n \in Nodes : commands[n] \in Seq(Command)
      /\ commands \in [Nodes -> Seq(Command)]
  BY DrawingTypes DEF TypeInv, TypeOK
<1>1. ASSUME Same PROVE InOrder'
  BY <1>1 DEF InOrder
<1>2. ASSUME NEW op \in NextOps, NEW slow \in BOOLEAN, Draw(op, slow) PROVE InOrder'
  <2>1. slow = FALSE /\ commands' = commands /\ sent' = Append(sent, [op |-> op, slow |-> slow])
    BY <1>2 DEF Draw
  <2>2. op \in Op
    BY NextOpsType DEF TypeInv
  <2>3. \A j \in DOMAIN sent' : ~sent'[j].slow
    BY <1>0, <2>1, <2>2 DEF InOrder, Sending
  <2>. QED  BY <2>1, <2>3 DEF InOrder
<1>3. ASSUME NEW i \in DOMAIN sent, Authorise(i) PROVE InOrder'
  <2>1. \A n \in Nodes \ {Desk} : commands'[n] = commands[n]
    BY <1>3, <1>0 DEF Authorise, Send
  <2>. QED  BY <1>3, <2>1, SlowKept DEF InOrder
<1>4. CASE Flush
  BY <1>4, <1>0 DEF Flush, Send, InOrder
<1>5. CASE Announce
  BY <1>5, <1>1 DEF Announce
<1>6. ASSUME NEW n \in Nodes, Execute(n) PROVE InOrder'
  <2>1. sent' = sent /\ commands[n] # << >> /\ commands' = [commands EXCEPT ![n] = Tail(@)]
    BY <1>6 DEF Execute
  <2>2. \A m \in Nodes \ {Desk} : ReadsOnly(commands'[m])
    BY <1>0, <2>1, ReadsOnlyTail DEF InOrder
  <2>. QED  BY <2>1, <2>2 DEF InOrder
<1>7. ASSUME NEW n \in Nodes, Deliver(n) PROVE InOrder'
  BY <1>7, <1>1 DEF Deliver
<1>8. ASSUME NEW v \in Viewers, NEW n \in Nodes, Bind(v, n) PROVE InOrder'
  BY <1>8, <1>1 DEF Bind, server
<1>9. ASSUME NEW v \in Viewers, AskBuffer(v) PROVE InOrder'
  <2>1. sent' = sent /\ home[v] \in Nodes
        /\ commands' = [commands EXCEPT ![home[v]] = Append(@, [do |-> "read", viewer |-> v])]
    BY <1>9 DEF AskBuffer, Send, TypeInv, TypeOK
  <2>2. \A m \in Nodes \ {Desk} : ReadsOnly(commands'[m])
    BY <1>0, <2>1, ReadsOnlyLonger DEF InOrder
  <2>. QED  BY <2>1, <2>2 DEF InOrder
<1>10. ASSUME NEW v \in Viewers, Replay(v) \/ EnterRoom(v) \/ Lose(v) PROVE InOrder'
  BY <1>10, <1>1 DEF Replay, EnterRoom, Lose, server
<1>11. CASE UNCHANGED vars
  BY <1>11, <1>1 DEF vars, server
<1>. QED  BY <1>2, <1>3, <1>4, <1>5, <1>6, <1>7, <1>8, <1>9, <1>10, <1>11 DEF Next

-----------------------------------------------------------------------------
(***************************************************************************)
(* The steps keep the buffer and the canvas together.                      *)
(***************************************************************************)
LEMMA BufferInit == Init => BufferLeads
<1>. SUFFICES ASSUME Init PROVE BufferLeads
  OBVIOUS
<1>. DEFINE f == [i \in 0..0 |-> Blank]
<1>1. commands[Desk] = << >> /\ Len(commands[Desk]) = 0 /\ mine = Blank /\ buffer = << >>
  BY DrawSyncAssumption DEF Init
<1>2. Run(f, << >>) /\ f[0] = Blank
  BY BlankIsCanvas DEF Run
<1>3. Outstanding = << >>
  BY DEF Init, Outstanding, OpsOf
<1>4. f[0] = ApplyMany(Blank, buffer) /\ mine = ApplyMany(f[0], Outstanding)
  BY <1>1, <1>2, <1>3, ApplyManyEmpty
<1>. HIDE DEF f
<1>. QED  BY <1>1, <1>2, <1>4 DEF BufferLeads

\* A step that has nothing to do with the buffer.
Aside == /\ commands'[Desk] = commands[Desk] /\ buffer' = buffer /\ trimmed' = trimmed
         /\ mine' = mine /\ pending' = pending /\ sent' = sent

LEMMA AsideKeeps == ASSUME BufferLeads, Aside PROVE BufferLeads'
BY DEF BufferLeads, Aside, Outstanding

LEMMA DrawKeepsBuffer ==
    ASSUME BufferInv, NEW op \in NextOps, NEW slow \in BOOLEAN, Draw(op, slow)
    PROVE  BufferLeads'
<1>1. PICK f : /\ Run(f, commands[Desk])
               /\ ~trimmed => f[0] = ApplyMany(Blank, buffer)
               /\ mine = ApplyMany(f[Len(commands[Desk])], Outstanding)
  BY DEF BufferInv, BufferLeads
<1>2. op \in Op
  BY NextOpsType DEF BufferInv, TypeInv
<1>3. /\ pending' = pending /\ sent' = Append(sent, [op |-> op, slow |-> slow])
      /\ commands' = commands /\ buffer' = buffer /\ trimmed' = trimmed /\ mine' = Apply(mine, op)
  BY DEF Draw
<1>4. mine' = ApplyMany(f[Len(commands[Desk])], Outstanding')
  BY <1>1, <1>2, <1>3, OutstandingDrawn DEF BufferInv
<1>. QED  BY <1>1, <1>3, <1>4 DEF BufferLeads

LEMMA AuthoriseKeepsBuffer ==
    ASSUME BufferInv, NEW i \in DOMAIN sent, Authorise(i)
    PROVE  BufferLeads'
<1>1. PICK f : /\ Run(f, commands[Desk])
               /\ ~trimmed => f[0] = ApplyMany(Blank, buffer)
               /\ mine = ApplyMany(f[Len(commands[Desk])], Outstanding)
  BY DEF BufferInv, BufferLeads
<1>2. i = 1 /\ sent # << >>
  BY OldestFirst DEF BufferInv
<1>3. /\ Desk \in Nodes /\ commands[Desk] \in Seq(Command) /\ Len(commands[Desk]) \in Nat
      /\ commands \in [Nodes -> Seq(Command)]
  BY DrawingTypes DEF BufferInv, TypeInv, TypeOK
<1>4. /\ sent' = RemoveAt(sent, 1) /\ buffer' = buffer /\ trimmed' = trimmed /\ mine' = mine
  BY <1>2 DEF Authorise, drawer
<1>5. CASE sent[1].op = Clear
  <2>1. pending' = << >> /\ commands'[Desk] = Append(commands[Desk], [do |-> "del"])
    BY <1>2, <1>3, <1>5 DEF Authorise, Send
  <2>2. [do |-> "del"] \in Command /\ Effect(f[Len(commands[Desk])], [do |-> "del"]) = Blank
    BY CommandTypes DEF Effect
  <2>3. PICK g : /\ Run(g, Append(commands[Desk], [do |-> "del"])) /\ g[0] = f[0]
                 /\ g[Len(Append(commands[Desk], [do |-> "del"]))] = Blank
    BY <1>1, <1>3, <2>2, RunLonger
  <2>4. f[Len(commands[Desk])] \in Canvas
    BY <1>1, <1>3 DEF Run
  <2>5. mine = ApplyMany(Blank, Outstanding')
    BY <1>1, <1>2, <1>4, <1>5, <2>1, <2>4, OutstandingCleared DEF BufferInv
  <2>. QED  BY <1>1, <1>4, <2>1, <2>3, <2>5 DEF BufferLeads
<1>6. CASE sent[1].op # Clear
  <2>1. pending' = Append(pending, sent[1].op) /\ commands' = commands
    BY <1>2, <1>6 DEF Authorise
  <2>2. Outstanding' = Outstanding
    BY <1>2, <1>4, <2>1, OutstandingKept DEF BufferInv
  <2>. QED  BY <1>1, <1>4, <2>1, <2>2 DEF BufferLeads
<1>. QED  BY <1>5, <1>6

LEMMA FlushKeepsBuffer == ASSUME BufferInv, Flush PROVE BufferLeads'
<1>1. PICK f : /\ Run(f, commands[Desk])
               /\ ~trimmed => f[0] = ApplyMany(Blank, buffer)
               /\ mine = ApplyMany(f[Len(commands[Desk])], Outstanding)
  BY DEF BufferInv, BufferLeads
<1>2. /\ Desk \in Nodes /\ commands[Desk] \in Seq(Command) /\ Len(commands[Desk]) \in Nat
      /\ commands \in [Nodes -> Seq(Command)] /\ pending \in Seq(Op)
  BY DrawingTypes DEF BufferInv, TypeInv, TypeOK
<1>3. PICK x \in Command : x = [do |-> "append", ops |-> pending]
  BY <1>2, CommandTypes
<1>4. /\ commands'[Desk] = Append(commands[Desk], x) /\ pending' = << >> /\ sent' = sent
      /\ buffer' = buffer /\ trimmed' = trimmed /\ mine' = mine
  BY <1>2, <1>3 DEF Flush, Send, drawer
<1>5. f[Len(commands[Desk])] \in Canvas
  BY <1>1, <1>2 DEF Run
<1>6. Effect(f[Len(commands[Desk])], x) = ApplyMany(f[Len(commands[Desk])], pending)
  BY <1>3 DEF Effect
<1>7. PICK g : /\ Run(g, Append(commands[Desk], x)) /\ g[0] = f[0]
               /\ g[Len(Append(commands[Desk], x))] = ApplyMany(f[Len(commands[Desk])], pending)
  BY <1>1, <1>2, <1>6, RunLonger
<1>8. mine = ApplyMany(ApplyMany(f[Len(commands[Desk])], pending), Outstanding')
  BY <1>1, <1>4, <1>5, OutstandingFlushed DEF BufferInv
<1>. QED  BY <1>1, <1>4, <1>7, <1>8 DEF BufferLeads

LEMMA ExecuteKeepsBuffer == ASSUME BufferInv, NEW n \in Nodes, Execute(n) PROVE BufferLeads'
<1>1. PICK f : /\ Run(f, commands[Desk])
               /\ ~trimmed => f[0] = ApplyMany(Blank, buffer)
               /\ mine = ApplyMany(f[Len(commands[Desk])], Outstanding)
  BY DEF BufferInv, BufferLeads
<1>2. /\ Desk \in Nodes /\ commands[Desk] \in Seq(Command) /\ Len(commands[Desk]) \in Nat
      /\ commands \in [Nodes -> Seq(Command)] /\ buffer \in Seq(Op)
      /\ trimmed \in BOOLEAN
  BY DrawingTypes DEF BufferInv, TypeInv, TypeOK
<1>3. /\ commands[n] # << >> /\ commands' = [commands EXCEPT ![n] = Tail(@)]
      /\ UNCHANGED <<pending, sent, mine>>
  BY DEF Execute, drawer
<1>4. Outstanding' = Outstanding
  BY <1>3 DEF Outstanding, OpsOf
<1>5. PICK x \in Command : x = Head(commands[n])
  BY <1>2, <1>3, HeadTailProperties
<1>6. CASE n # Desk
  <2>1. x.do = "read"
    <3>1. 1 \in DOMAIN commands[n] /\ x = commands[n][1]
      BY <1>2, <1>3, <1>5, EmptySeq
    <3>. QED  BY <1>6, <3>1 DEF BufferInv, InOrder, ReadsOnly
  <2>2. buffer' = buffer /\ trimmed' = trimmed
    BY <1>5, <2>1 DEF Execute
  <2>3. commands'[Desk] = commands[Desk]
    BY <1>2, <1>3, <1>6
  <2>. QED  BY <1>3, <2>2, <2>3, AsideKeeps DEF BufferInv, Aside
<1>7. CASE n = Desk
  <2>1. commands'[Desk] = Tail(commands[Desk])
    BY <1>2, <1>3, <1>7
  <2>2. PICK g : /\ Run(g, Tail(commands[Desk])) /\ g[0] = Effect(f[0], x)
                 /\ g[Len(Tail(commands[Desk]))] = f[Len(commands[Desk])]
    BY <1>1, <1>2, <1>3, <1>5, <1>7, RunShorter
  <2>3. ~trimmed' => g[0] = ApplyMany(Blank, buffer')
    <3>. SUFFICES ASSUME ~trimmed' PROVE g[0] = ApplyMany(Blank, buffer')
      OBVIOUS
    <3>1. CASE x.do = "append"
      <4>1. x.ops \in Seq(Op) /\ buffer \o x.ops \in Seq(Op)
        BY <1>2, <3>1, CommandTypes
      <4>2. /\ buffer' = Trimmed(buffer \o x.ops)
            /\ trimmed' = (trimmed \/ Len(buffer) + Len(x.ops) > Cap)
        BY <1>5, <1>7, <3>1 DEF Execute
      <4>3. ~trimmed /\ Len(buffer) + Len(x.ops) <= Cap
        <5>1. Len(buffer) \in Nat /\ Len(x.ops) \in Nat /\ Cap \in Nat
          BY <1>2, <4>1, DrawSyncAssumption
        <5>2. CASE trimmed
          BY <4>2, <5>2
        <5>3. CASE ~trimmed /\ Len(buffer) + Len(x.ops) > Cap
          BY <4>2, <5>3
        <5>. QED  BY <5>1, <5>2, <5>3
      <4>4. buffer' = buffer \o x.ops
        <5>1. Len(buffer \o x.ops) = Len(buffer) + Len(x.ops)
          BY <1>2, <4>1, ConcatProperties
        <5>. QED  BY <4>1, <4>2, <4>3, <5>1, TrimmedType
      <4>5. g[0] = ApplyMany(ApplyMany(Blank, buffer), x.ops)
        BY <1>1, <2>2, <3>1, <4>3 DEF Effect
      <4>. QED  BY <1>2, <4>1, <4>4, <4>5, ApplyManyConcat
    <3>2. CASE x.do = "del"
      <4>1. buffer' = << >> /\ g[0] = Blank
        BY <1>5, <1>7, <2>2, <3>2 DEF Execute, Effect
      <4>. QED  BY <4>1, ApplyManyEmpty
    <3>3. CASE x.do = "read"
      <4>1. buffer' = buffer /\ trimmed' = trimmed /\ g[0] = f[0]
        BY <1>5, <1>7, <2>2, <3>3 DEF Execute, Effect
      <4>. QED  BY <4>1, <1>1
    <3>. QED  BY <3>1, <3>2, <3>3, CommandTypes
  <2>. QED  BY <1>1, <1>3, <1>4, <2>1, <2>2, <2>3 DEF BufferLeads
<1>. QED  BY <1>6, <1>7

LEMMA AskKeepsBuffer == ASSUME BufferInv, NEW v \in Viewers, AskBuffer(v) PROVE BufferLeads'
<1>1. PICK f : /\ Run(f, commands[Desk])
               /\ ~trimmed => f[0] = ApplyMany(Blank, buffer)
               /\ mine = ApplyMany(f[Len(commands[Desk])], Outstanding)
  BY DEF BufferInv, BufferLeads
<1>2. /\ Desk \in Nodes /\ commands[Desk] \in Seq(Command) /\ Len(commands[Desk]) \in Nat
      /\ commands \in [Nodes -> Seq(Command)] /\ home[v] \in Nodes
  BY DrawingTypes DEF BufferInv, TypeInv, TypeOK
<1>3. PICK x \in Command : x = [do |-> "read", viewer |-> v]
  BY CommandTypes
<1>4. /\ commands' = [commands EXCEPT ![home[v]] = Append(@, x)]
      /\ UNCHANGED <<pending, sent, mine, buffer, trimmed>>
  BY <1>3 DEF AskBuffer, Send, drawer
<1>5. CASE home[v] = Desk
  <2>1. commands'[Desk] = Append(commands[Desk], x)
    BY <1>2, <1>4, <1>5
  <2>2. Effect(f[Len(commands[Desk])], x) = f[Len(commands[Desk])]
    BY <1>3 DEF Effect
  <2>3. PICK g : /\ Run(g, Append(commands[Desk], x)) /\ g[0] = f[0]
                 /\ g[Len(Append(commands[Desk], x))] = f[Len(commands[Desk])]
    BY <1>1, <1>2, <2>2, RunLonger
  <2>4. Outstanding' = Outstanding
    BY <1>4 DEF Outstanding, OpsOf
  <2>. QED  BY <1>1, <1>4, <2>1, <2>3, <2>4 DEF BufferLeads
<1>6. CASE home[v] # Desk
  <2>1. commands'[Desk] = commands[Desk]
    BY <1>2, <1>4, <1>6
  <2>. QED  BY <1>4, <2>1, AsideKeeps DEF BufferInv, Aside
<1>. QED  BY <1>5, <1>6

LEMMA BufferStep ==
    ASSUME Overtaking = FALSE, BufferInv, [Next]_vars
    PROVE  BufferInv'
<1>1. TypeInv' /\ InOrder'
  BY TypeStep, OrderStep DEF BufferInv
<1>. SUFFICES BufferLeads'
  BY <1>1 DEF BufferInv
<1>2. Aside => BufferLeads'
  BY AsideKeeps DEF BufferInv
<1>3. ASSUME NEW op \in NextOps, NEW slow \in BOOLEAN, Draw(op, slow) PROVE BufferLeads'
  BY <1>3, DrawKeepsBuffer
<1>4. ASSUME NEW i \in DOMAIN sent, Authorise(i) PROVE BufferLeads'
  BY <1>4, AuthoriseKeepsBuffer
<1>5. CASE Announce
  <2>1. Aside
    BY <1>5 DEF Announce, Aside, drawer
  <2>. QED  BY <1>2, <2>1
<1>6. ASSUME NEW n \in Nodes, Execute(n) PROVE BufferLeads'
  BY <1>6, ExecuteKeepsBuffer
<1>7. ASSUME NEW n \in Nodes, Deliver(n) PROVE BufferLeads'
  BY <1>7, <1>2 DEF Deliver, Aside, drawer
<1>8. ASSUME NEW v \in Viewers, NEW n \in Nodes, Bind(v, n) PROVE BufferLeads'
  BY <1>8, <1>2 DEF Bind, Aside, server, drawer
<1>9. ASSUME NEW v \in Viewers, AskBuffer(v) PROVE BufferLeads'
  BY <1>9, AskKeepsBuffer
<1>10. ASSUME NEW v \in Viewers, Replay(v) \/ EnterRoom(v) \/ Lose(v) PROVE BufferLeads'
  BY <1>10, <1>2 DEF Replay, EnterRoom, Lose, Aside, server, drawer
<1>11. CASE UNCHANGED vars
  <2>1. Aside
    BY <1>11 DEF vars, server, drawer, Aside
  <2>. QED  BY <1>2, <2>1
<1>. QED  BY <1>3, <1>4, <1>5, <1>6, <1>7, <1>8, <1>9, <1>10, <1>11, FlushKeepsBuffer DEF Next

\* While nothing is on its way to it, the buffer replayed on a blank canvas gives the
\* drawer's canvas, unless it was trimmed: for any drawing, clears and undos included, any
\* cap, and any batching of the operations.
THEOREM BufferShowsCanvas ==
    ASSUME Overtaking = FALSE
    PROVE  Spec => []BufferIsCanvas
<1>1. Init => BufferInv
  BY TypeInit, OrderInit, BufferInit DEF BufferInv
<1>2. BufferInv /\ [Next]_vars => BufferInv'
  BY BufferStep
<1>3. BufferInv => BufferIsCanvas
  <2>. SUFFICES ASSUME BufferInv, Stored, ~trimmed PROVE ApplyMany(Blank, buffer) = mine
    BY DEF BufferIsCanvas
  <2>1. PICK f : /\ Run(f, commands[Desk]) /\ f[0] = ApplyMany(Blank, buffer)
                 /\ mine = ApplyMany(f[Len(commands[Desk])], Outstanding)
    BY DEF BufferInv, BufferLeads
  <2>2. commands[Desk] \in Seq(Command) /\ ReadsOnly(commands[Desk])
    BY DrawingTypes DEF BufferInv, Stored, ReadsOnly
  <2>3. Outstanding = << >>
    BY DEF Stored, Outstanding, OpsOf
  <2>. QED  BY <2>1, <2>2, <2>3, RunOfReads, ApplyManyEmpty
<1>. QED  BY <1>1, <1>2, <1>3, PTL DEF Spec

-----------------------------------------------------------------------------
(***************************************************************************)
(* The viewers.                                                            *)
(***************************************************************************)
\* A node's queue holds the one question of each viewer who waits there for the buffer.
ReadsAsked ==
    \A n \in Nodes : \A i \in DOMAIN commands[n] : commands[n][i].do = "read" =>
        /\ stage[commands[n][i].viewer] = "asked" /\ home[commands[n][i].viewer] = n
        /\ \A j \in DOMAIN commands[n] : /\ commands[n][j].do = "read"
                                         /\ commands[n][j].viewer = commands[n][i].viewer
                                         => i = j

\* Nothing that was drawn is on its way to the buffer, or to the node of v.
Quiet(v) == ReadsOnly(commands[Desk]) /\ clearing = 0 /\ bus[home[v]] = << >> /\ ~trimmed

\* A viewer whose replay was not raced comes with a blank canvas, and it is quiet while he
\* comes in; what is read for him is the buffer.
Newcomer(v) == v \notin raced =>
    /\ stage[v] = "away" => canvas[v] = Blank
    /\ Joining(v) => Quiet(v) /\ canvas[v] = Blank
    /\ stage[v] = "read" => captured[v] = buffer
    /\ stage[v] = "in" /\ v \notin watching /\ v \notin missed => buffer = << >>

\* Until a clear is announced, what came after it is outstanding.
Cleared == ~hasty /\ clearing > 0 => mine = ApplyMany(Blank, Outstanding)

\* The broadcasts on their way to a settled viewer lead from his canvas to one that lacks
\* the outstanding operations only.
BusRun(f, q) == /\ f \in [0..Len(q) -> Canvas]
                /\ \A i \in 1..Len(q) : f[i] = ApplyMany(f[i - 1], q[i])

Follows(v) == ~hasty /\ Settled(v) /\ v \notin raced \cup missed =>
    \E f : /\ BusRun(f, bus[home[v]]) /\ f[0] = canvas[v]
           /\ clearing = 0 => mine = ApplyMany(f[Len(bus[home[v]])], Outstanding)

SyncInv == /\ BufferInv
           /\ bus[Desk] = << >>
           /\ ReadsAsked
           /\ Cleared
           /\ \A v \in Viewers : Newcomer(v) /\ Follows(v)

LEMMA BusRunLonger ==
    ASSUME NEW q \in Seq(Seq(Op)), NEW ops \in Seq(Op), NEW f, BusRun(f, q)
    PROVE  \E g : /\ BusRun(g, Append(q, ops)) /\ g[0] = f[0]
                  /\ g[Len(Append(q, ops))] = ApplyMany(f[Len(q)], ops)
<1>. DEFINE n == Len(q)
            g == [i \in 0..(n + 1) |-> IF i <= n THEN f[i] ELSE ApplyMany(f[n], ops)]
<1>1. /\ n \in Nat /\ Len(Append(q, ops)) = n + 1 /\ Append(q, ops)[n + 1] = ops
      /\ \A i \in 1..n : Append(q, ops)[i] = q[i]
  BY AppendProperties
<1>2. f \in [0..n -> Canvas] /\ \A i \in 1..n : f[i] = ApplyMany(f[i - 1], q[i])
  BY DEF BusRun
<1>3. ApplyMany(f[n], ops) \in Canvas
  BY <1>1, <1>2, ApplyManyType
<1>4. g \in [0..(n + 1) -> Canvas]
  BY <1>1, <1>2, <1>3
<1>5. ASSUME NEW i \in 1..(n + 1) PROVE g[i] = ApplyMany(g[i - 1], Append(q, ops)[i])
  <2>1. CASE i <= n
    <3>1. i \in 1..n /\ g[i] = f[i] /\ g[i - 1] = f[i - 1]
      BY <1>1, <2>1
    <3>. QED  BY <3>1, <1>1, <1>2
  <2>2. CASE i = n + 1
    <3>1. g[i] = ApplyMany(f[n], ops) /\ g[i - 1] = f[n]
      BY <1>1, <2>2
    <3>. QED  BY <3>1, <1>1, <2>2
  <2>. QED  BY <1>1, <2>1, <2>2
<1>6. g[0] = f[0] /\ g[n + 1] = ApplyMany(f[n], ops)
  BY <1>1
<1>7. BusRun(g, Append(q, ops))
  BY <1>1, <1>4, <1>5 DEF BusRun
<1>. QED  BY <1>1, <1>6, <1>7

LEMMA BusRunShorter ==
    ASSUME NEW q \in Seq(Seq(Op)), q # << >>, NEW f, BusRun(f, q)
    PROVE  \E g : /\ BusRun(g, Tail(q)) /\ g[0] = ApplyMany(f[0], Head(q))
                  /\ g[Len(Tail(q))] = f[Len(q)]
<1>. DEFINE n == Len(q)
            g == [i \in 0..(n - 1) |-> f[i + 1]]
<1>1. /\ n \in Nat /\ n > 0 /\ Len(Tail(q)) = n - 1 /\ Head(q) = q[1]
      /\ \A i \in 1..(n - 1) : Tail(q)[i] = q[i + 1]
  BY HeadTailProperties, EmptySeq
<1>2. f \in [0..n -> Canvas] /\ \A i \in 1..n : f[i] = ApplyMany(f[i - 1], q[i])
  BY DEF BusRun
<1>3. g \in [0..(n - 1) -> Canvas]
  BY <1>1, <1>2
<1>4. ASSUME NEW i \in 1..(n - 1) PROVE g[i] = ApplyMany(g[i - 1], Tail(q)[i])
  <2>1. i + 1 \in 1..n /\ g[i] = f[i + 1] /\ g[i - 1] = f[i] /\ (i + 1) - 1 = i
    BY <1>1
  <2>. QED  BY <2>1, <1>1, <1>2
<1>5. g[0] = f[1] /\ g[n - 1] = f[n]
  BY <1>1
<1>6. f[1] = ApplyMany(f[0], q[1])
  BY <1>1, <1>2
<1>7. BusRun(g, Tail(q))
  BY <1>1, <1>3, <1>4 DEF BusRun
<1>. QED  BY <1>1, <1>5, <1>6, <1>7

LEMMA BusRunNone ==
    ASSUME NEW c \in Canvas
    PROVE  \E f : BusRun(f, << >>) /\ f[0] = c /\ f[Len(<< >>)] = c
<1>. DEFINE f == [i \in 0..0 |-> c]
<1>1. BusRun(f, << >>) /\ f[0] = c /\ Len(<< >>) = 0
  BY DEF BusRun
<1>. QED  BY <1>1

\* Once it is quiet the buffer lacks the outstanding operations only.
LEMMA QuietBuffer ==
    ASSUME BufferInv, NEW v, Quiet(v)
    PROVE  mine = ApplyMany(ApplyMany(Blank, buffer), Outstanding)
<1>1. PICK f : /\ Run(f, commands[Desk]) /\ f[0] = ApplyMany(Blank, buffer)
               /\ mine = ApplyMany(f[Len(commands[Desk])], Outstanding)
  BY DEF BufferInv, BufferLeads, Quiet
<1>2. commands[Desk] \in Seq(Command) /\ ReadsOnly(commands[Desk])
  BY DrawingTypes DEF BufferInv, Quiet
<1>. QED  BY <1>1, <1>2, RunOfReads

\* Whatever is clear or not, the drawer's canvas is some canvas with the outstanding
\* operations applied.
LEMMA SomeCanvas == ASSUME BufferInv PROVE \E c \in Canvas : mine = ApplyMany(c, Outstanding)
<1>1. PICK f : /\ Run(f, commands[Desk])
               /\ mine = ApplyMany(f[Len(commands[Desk])], Outstanding)
  BY DEF BufferInv, BufferLeads
<1>2. f[Len(commands[Desk])] \in Canvas
  <2>1. Len(commands[Desk]) \in Nat
    BY DrawingTypes DEF BufferInv
  <2>. QED  BY <1>1, <2>1 DEF Run
<1>. QED  BY <1>1, <1>2

-----------------------------------------------------------------------------
(***************************************************************************)
(* The steps and the questions of the viewers.                             *)
(***************************************************************************)
AskInv == TypeInv /\ ReadsAsked

LEMMA AskKeepsAsked == ASSUME AskInv, NEW v \in Viewers, AskBuffer(v) PROVE ReadsAsked'
<1>1. /\ home[v] \in Nodes /\ commands \in [Nodes -> Seq(Command)] /\ stage \in [Viewers -> Stages]
      /\ \A n \in Nodes : \A i \in DOMAIN commands[n] :
            commands[n][i].do = "read" => commands[n][i].viewer \in Viewers
  <2>1. \A n \in Nodes : \A i \in DOMAIN commands[n] : commands[n][i] \in Command
    BY DEF AskInv, TypeInv, TypeOK
  <2>. QED  BY <2>1, CommandTypes DEF AskInv, TypeInv, TypeOK
<1>2. PICK x \in Command : x = [do |-> "read", viewer |-> v]
  BY CommandTypes
<1>3. /\ stage[v] = "bound" /\ stage' = [stage EXCEPT ![v] = "asked"] /\ home' = home
      /\ commands' = [commands EXCEPT ![home[v]] = Append(@, x)]
  BY <1>2 DEF AskBuffer, Send
<1>4. \A n \in Nodes : \A i \in DOMAIN commands[n] :
          commands[n][i].do = "read" => commands[n][i].viewer # v
  BY <1>3 DEF AskInv, ReadsAsked
<1>5. x.do = "read" /\ x.viewer = v
  BY <1>2
<1>. SUFFICES ASSUME NEW n \in Nodes, NEW i \in DOMAIN commands'[n], commands'[n][i].do = "read"
              PROVE  /\ stage'[commands'[n][i].viewer] = "asked" /\ home'[commands'[n][i].viewer] = n
                     /\ \A j \in DOMAIN commands'[n] :
                           /\ commands'[n][j].do = "read"
                           /\ commands'[n][j].viewer = commands'[n][i].viewer
                           => i = j
  BY DEF ReadsAsked
<1>6. CASE n # home[v]
  <2>1. commands'[n] = commands[n]
    BY <1>1, <1>3, <1>6
  <2>. QED  BY <1>1, <1>3, <1>4, <2>1 DEF AskInv, ReadsAsked
<1>7. CASE n = home[v]
  <2>. DEFINE q == commands[n]
  <2>1. commands'[n] = Append(q, x) /\ q \in Seq(Command)
    BY <1>1, <1>3, <1>7
  <2>2. /\ Len(q) \in Nat /\ DOMAIN q = 1..Len(q) /\ DOMAIN commands'[n] = 1..(Len(q) + 1)
        /\ commands'[n][Len(q) + 1] = x /\ \A j \in 1..Len(q) : commands'[n][j] = q[j]
    BY <2>1
  <2>3. CASE i = Len(q) + 1
    <3>1. \A j \in 1..Len(q) : ~ (commands'[n][j].do = "read" /\ commands'[n][j].viewer = v)
      BY <1>4, <2>2
    <3>. QED  BY <1>1, <1>3, <1>5, <1>7, <2>2, <2>3, <3>1
  <2>4. CASE i \in 1..Len(q)
    <3>1. q[i].do = "read" /\ q[i].viewer # v /\ q[i].viewer \in Viewers
      BY <1>1, <1>4, <2>2, <2>4
    <3>2. stage[q[i].viewer] = "asked" /\ home[q[i].viewer] = n
          /\ \A j \in 1..Len(q) : q[j].do = "read" /\ q[j].viewer = q[i].viewer => i = j
      BY <2>2, <2>4, <3>1 DEF AskInv, ReadsAsked
    <3>3. commands'[n][i] = q[i] /\ stage'[q[i].viewer] = stage[q[i].viewer]
      BY <1>1, <1>3, <2>2, <2>4, <3>1
    <3>4. ASSUME NEW j \in 1..(Len(q) + 1), commands'[n][j].do = "read",
                 commands'[n][j].viewer = q[i].viewer
          PROVE  i = j
      <4>1. j # Len(q) + 1
        BY <1>5, <2>2, <3>1, <3>4
      <4>2. j \in 1..Len(q) /\ commands'[n][j] = q[j]
        BY <2>2, <4>1
      <4>. QED  BY <3>2, <3>4, <4>2
    <3>. QED  BY <1>3, <2>2, <3>2, <3>3, <3>4
  <2>. QED  BY <2>2, <2>3, <2>4
<1>. QED  BY <1>6, <1>7

LEMMA ExecuteKeepsAsked ==
    ASSUME AskInv, NEW n \in Nodes, Execute(n)
    PROVE  /\ ReadsAsked'
           /\ Head(commands[n]).do = "read" => stage[Head(commands[n]).viewer] = "asked"
<1>. DEFINE q == commands[n]
            x == Head(q)
<1>1. /\ commands \in [Nodes -> Seq(Command)] /\ stage \in [Viewers -> Stages]
      /\ \A m \in Nodes : \A i \in DOMAIN commands[m] : commands[m][i] \in Command
      /\ q \in Seq(Command) /\ q # << >>
  BY DEF AskInv, TypeInv, TypeOK, Execute
<1>2. /\ Len(q) \in Nat /\ DOMAIN q = 1..Len(q) /\ Len(q) > 0 /\ 1 \in DOMAIN q /\ x = q[1]
      /\ Len(Tail(q)) = Len(q) - 1 /\ DOMAIN Tail(q) = 1..(Len(q) - 1)
      /\ \A i \in 1..(Len(q) - 1) : Tail(q)[i] = q[i + 1]
  BY <1>1, HeadTailProperties, EmptySeq
<1>3. home' = home /\ commands' = [commands EXCEPT ![n] = Tail(@)]
  BY DEF Execute
<1>4. /\ x.do = "read" => /\ x.viewer \in Viewers /\ stage[x.viewer] = "asked" /\ home[x.viewer] = n
                          /\ stage' = [stage EXCEPT ![x.viewer] = "read"]
      /\ x.do # "read" => stage' = stage
  BY <1>1, <1>2, CommandTypes DEF Execute, AskInv, ReadsAsked
<1>5. ASSUME NEW m \in Nodes, NEW i \in DOMAIN commands'[m], commands'[m][i].do = "read"
      PROVE  /\ stage'[commands'[m][i].viewer] = "asked" /\ home'[commands'[m][i].viewer] = m
             /\ \A j \in DOMAIN commands'[m] :
                   /\ commands'[m][j].do = "read"
                   /\ commands'[m][j].viewer = commands'[m][i].viewer
                   => i = j
  <2>1. CASE m # n
    <3>1. commands'[m] = commands[m]
      BY <1>1, <1>3, <2>1
    <3>2. /\ stage[commands[m][i].viewer] = "asked" /\ home[commands[m][i].viewer] = m
          /\ \A j \in DOMAIN commands[m] : /\ commands[m][j].do = "read"
                                           /\ commands[m][j].viewer = commands[m][i].viewer
                                           => i = j
      BY <1>5, <3>1 DEF AskInv, ReadsAsked
    <3>3. commands[m][i].viewer \in Viewers
      BY <1>1, <1>5, <3>1, CommandTypes
    <3>. QED  BY <1>1, <1>3, <1>4, <2>1, <3>1, <3>2, <3>3
  <2>2. CASE m = n
    <3>1. commands'[n] = Tail(q)
      BY <1>1, <1>3
    <3>2. i \in 1..(Len(q) - 1) /\ Tail(q)[i] = q[i + 1] /\ i + 1 \in 1..Len(q) /\ i + 1 # 1
      BY <1>2, <2>2, <3>1
    <3>3. q[i + 1].do = "read" /\ q[i + 1].viewer \in Viewers
      BY <1>1, <1>2, <1>5, <2>2, <3>1, <3>2, CommandTypes
    <3>4. /\ stage[q[i + 1].viewer] = "asked" /\ home[q[i + 1].viewer] = n
          /\ \A j \in 1..Len(q) : q[j].do = "read" /\ q[j].viewer = q[i + 1].viewer => i + 1 = j
      BY <1>2, <3>2, <3>3 DEF AskInv, ReadsAsked
    <3>5. x.do = "read" => x.viewer # q[i + 1].viewer
      BY <1>2, <3>2, <3>4
    <3>6. ASSUME NEW j \in 1..(Len(q) - 1), Tail(q)[j].do = "read",
                 Tail(q)[j].viewer = q[i + 1].viewer
          PROVE  i = j
      <4>1. j + 1 \in 1..Len(q) /\ Tail(q)[j] = q[j + 1]
        BY <1>2
      <4>2. i + 1 = j + 1
        BY <4>1, <3>4, <3>6
      <4>. QED  BY <4>2, <3>2
    <3>. QED  BY <1>1, <1>2, <1>3, <1>4, <2>2, <3>1, <3>2, <3>3, <3>4, <3>5, <3>6
  <2>. QED  BY <2>1, <2>2
<1>6. ReadsAsked'
  BY <1>5 DEF ReadsAsked
<1>. QED  BY <1>4, <1>6

\* Commands that are no questions come and go as they like.
LEMMA SendKeepsAsked ==
    ASSUME AskInv, NEW x \in Command, x.do # "read", Send(Desk, x), stage' = stage, home' = home
    PROVE  ReadsAsked'
<1>1. Desk \in Nodes /\ commands \in [Nodes -> Seq(Command)]
  BY DrawSyncAssumption DEF AskInv, TypeInv, TypeOK
<1>2. commands' = [commands EXCEPT ![Desk] = Append(@, x)]
  BY DEF Send
<1>. SUFFICES ASSUME NEW n \in Nodes, NEW i \in DOMAIN commands'[n], commands'[n][i].do = "read"
              PROVE  /\ stage'[commands'[n][i].viewer] = "asked" /\ home'[commands'[n][i].viewer] = n
                     /\ \A j \in DOMAIN commands'[n] :
                           /\ commands'[n][j].do = "read"
                           /\ commands'[n][j].viewer = commands'[n][i].viewer
                           => i = j
  BY DEF ReadsAsked
<1>3. CASE n # Desk
  <2>1. commands'[n] = commands[n]
    BY <1>1, <1>2, <1>3
  <2>. QED  BY <2>1 DEF AskInv, ReadsAsked
<1>4. CASE n = Desk
  <2>. DEFINE q == commands[Desk]
  <2>1. commands'[n] = Append(q, x) /\ q \in Seq(Command)
    BY <1>1, <1>2, <1>4
  <2>2. /\ Len(q) \in Nat /\ DOMAIN q = 1..Len(q) /\ DOMAIN commands'[n] = 1..(Len(q) + 1)
        /\ commands'[n][Len(q) + 1] = x /\ \A j \in 1..Len(q) : commands'[n][j] = q[j]
    BY <2>1
  <2>3. i \in 1..Len(q)
    BY <2>2
  <2>. QED  BY <1>1, <1>4, <2>2, <2>3 DEF AskInv, ReadsAsked
<1>. QED  BY <1>3, <1>4

LEMMA AskedStep == ASSUME AskInv, [Next]_vars PROVE ReadsAsked'
<1>. DEFINE Same == commands' = commands /\ stage' = stage /\ home' = home
<1>1. Same => ReadsAsked'
  BY DEF AskInv, ReadsAsked
<1>2. ASSUME NEW op \in NextOps, NEW slow \in BOOLEAN, Draw(op, slow) PROVE ReadsAsked'
  BY <1>1, <1>2 DEF Draw, viewers
<1>3. ASSUME NEW i \in DOMAIN sent, Authorise(i) PROVE ReadsAsked'
  <2>1. stage' = stage /\ home' = home
    BY <1>3 DEF Authorise
  <2>2. CASE sent[i].op = Clear
    <3>1. PICK x \in Command : x = [do |-> "del"]
      BY CommandTypes
    <3>2. Send(Desk, x) /\ x.do # "read"
      BY <1>3, <2>2, <3>1 DEF Authorise
    <3>. QED  BY <2>1, <3>2, SendKeepsAsked
  <2>3. CASE sent[i].op # Clear
    BY <1>1, <1>3, <2>1, <2>3 DEF Authorise
  <2>. QED  BY <2>2, <2>3
<1>4. CASE Flush
  <2>1. pending \in Seq(Op)
    BY DrawingTypes DEF AskInv
  <2>2. PICK x \in Command : x = [do |-> "append", ops |-> pending]
    BY <2>1, CommandTypes
  <2>3. Send(Desk, x) /\ x.do # "read" /\ stage' = stage /\ home' = home
    BY <1>4, <2>2 DEF Flush
  <2>. QED  BY <2>3, SendKeepsAsked
<1>5. CASE Announce
  <2>1. Same
    BY <1>5 DEF Announce
  <2>. QED  BY <1>1, <2>1
<1>6. ASSUME NEW n \in Nodes, Execute(n) PROVE ReadsAsked'
  BY <1>6, ExecuteKeepsAsked
<1>7. ASSUME NEW n \in Nodes, Deliver(n) PROVE ReadsAsked'
  BY <1>1, <1>7 DEF Deliver
<1>8. ASSUME NEW v \in Viewers, NEW n \in Nodes, Bind(v, n) \/ Replay(v) \/ Lose(v) PROVE ReadsAsked'
  <2>1. commands' = commands /\ stage[v] # "asked" /\ stage \in [Viewers -> Stages]
        /\ home \in [Viewers -> Nodes]
    BY <1>8 DEF Bind, Replay, Lose, Settled, server, AskInv, TypeInv, TypeOK
  <2>2. \A w \in Viewers \ {v} : stage'[w] = stage[w] /\ home'[w] = home[w]
    BY <1>8, <2>1 DEF Bind, Replay, Lose
  <2>3. \A m \in Nodes : \A i \in DOMAIN commands[m] :
            commands[m][i].do = "read" => commands[m][i].viewer \in Viewers \ {v}
    <3>1. \A m \in Nodes : \A i \in DOMAIN commands[m] : commands[m][i] \in Command
      BY DEF AskInv, TypeInv, TypeOK
    <3>. QED  BY <2>1, <3>1, CommandTypes DEF AskInv, ReadsAsked
  <2>. QED  BY <2>1, <2>2, <2>3 DEF AskInv, ReadsAsked
<1>9. ASSUME NEW v \in Viewers, AskBuffer(v) PROVE ReadsAsked'
  BY <1>9, AskKeepsAsked
<1>10. ASSUME NEW v \in Viewers, EnterRoom(v) PROVE ReadsAsked'
  BY <1>1, <1>10 DEF EnterRoom, server
<1>11. CASE UNCHANGED vars
  <2>1. Same
    BY <1>11 DEF vars, server, viewers
  <2>. QED  BY <1>1, <2>1
<1>12. Nodes # {}
  BY DrawSyncAssumption
<1>. QED  BY <1>2, <1>3, <1>4, <1>5, <1>6, <1>7, <1>8, <1>9, <1>10, <1>11, <1>12 DEF Next

\* The bus of the drawer's own node is never used.
LEMMA BusIdleStep == ASSUME TypeInv, bus[Desk] = << >>, [Next]_vars PROVE bus'[Desk] = << >>
<1>0. Desk \in Nodes /\ bus \in [Nodes -> Seq(Seq(Op))]
  BY DrawSyncAssumption DEF TypeInv, TypeOK
<1>1. ASSUME NEW ops, Broadcast(ops) PROVE bus'[Desk] = << >>
  BY <1>0, <1>1 DEF Broadcast
<1>2. CASE Flush
  BY <1>1, <1>2 DEF Flush
<1>3. CASE Announce
  BY <1>1, <1>3 DEF Announce
<1>4. ASSUME NEW n \in Nodes, Deliver(n) PROVE bus'[Desk] = << >>
  BY <1>0, <1>4 DEF Deliver
<1>5. CASE bus' = bus
  BY <1>5
<1>6. ASSUME NEW op \in NextOps, NEW slow \in BOOLEAN, Draw(op, slow) PROVE bus' = bus
  BY <1>6 DEF Draw
<1>7. ASSUME NEW i \in DOMAIN sent, Authorise(i) PROVE bus' = bus
  BY <1>7 DEF Authorise
<1>8. ASSUME NEW n \in Nodes, Execute(n) PROVE bus' = bus
  BY <1>8 DEF Execute
<1>9. ASSUME NEW v \in Viewers,
             \/ \E n \in Nodes : Bind(v, n)
             \/ AskBuffer(v) \/ Replay(v) \/ EnterRoom(v) \/ Lose(v)
      PROVE  bus' = bus
  BY <1>9 DEF Bind, AskBuffer, Replay, EnterRoom, Lose, server
<1>10. UNCHANGED vars => bus' = bus
  BY DEF vars, server
<1>. QED  BY <1>2, <1>3, <1>4, <1>5, <1>6, <1>7, <1>8, <1>9, <1>10 DEF Next

\* Steps that leave the drawer's operations where they are.
Kept == pending' = pending /\ sent' = sent /\ mine' = mine

LEMMA KeptOutstanding == Kept => Outstanding' = Outstanding
BY DEF Kept, Outstanding, OpsOf

LEMMA ClearedStep ==
    ASSUME BufferInv, Cleared, [Next]_vars
    PROVE  Cleared'
<1>0. clearing \in Nat /\ hasty \in BOOLEAN
  BY DEF BufferInv, TypeInv, TypeOK
<1>1. ASSUME Kept, clearing' > 0 => clearing > 0, ~hasty' => ~hasty PROVE Cleared'
  BY <1>1, KeptOutstanding DEF Cleared, Kept
<1>2. ASSUME NEW op \in NextOps, NEW slow \in BOOLEAN, Draw(op, slow) PROVE Cleared'
  <2>1. op \in Op
    BY NextOpsType DEF BufferInv, TypeInv
  <2>2. /\ pending' = pending /\ sent' = Append(sent, [op |-> op, slow |-> slow])
        /\ clearing' = clearing /\ hasty' = hasty /\ mine' = Apply(mine, op)
    BY <1>2 DEF Draw
  <2>3. ApplyMany(Blank, Outstanding') = Apply(ApplyMany(Blank, Outstanding), op)
    BY <2>1, <2>2, OutstandingDrawn DEF BufferInv
  <2>. QED  BY <2>2, <2>3 DEF Cleared
<1>3. ASSUME NEW i \in DOMAIN sent, Authorise(i) PROVE Cleared'
  <2>1. i = 1 /\ sent # << >> /\ sent' = RemoveAt(sent, 1) /\ mine' = mine /\ hasty' = hasty
    BY <1>3, OldestFirst DEF BufferInv, Authorise, drawer
  <2>2. CASE sent[1].op = Clear
    <3>1. pending' = << >>
      BY <1>3, <2>1, <2>2 DEF Authorise
    <3>2. PICK c \in Canvas : mine = ApplyMany(c, Outstanding)
      BY SomeCanvas
    <3>3. ApplyMany(c, Outstanding) = ApplyMany(Blank, Outstanding')
      BY <2>1, <2>2, <3>1, OutstandingCleared DEF BufferInv
    <3>. QED  BY <2>1, <3>2, <3>3 DEF Cleared
  <2>3. CASE sent[1].op # Clear
    <3>1. pending' = Append(pending, sent[1].op) /\ clearing' = clearing
      BY <1>3, <2>1, <2>3 DEF Authorise
    <3>2. Outstanding' = Outstanding
      BY <2>1, <3>1, OutstandingKept DEF BufferInv
    <3>. QED  BY <2>1, <3>1, <3>2 DEF Cleared
  <2>. QED  BY <2>2, <2>3
<1>4. CASE Flush
  <2>1. clearing' = clearing /\ hasty' = (hasty \/ clearing > 0)
    BY <1>4 DEF Flush
  <2>. QED  BY <2>1 DEF Cleared
<1>5. CASE Announce
  <2>1. Kept /\ clearing' = clearing - 1 /\ hasty' = hasty
    BY <1>5 DEF Announce, Kept, drawer
  <2>. QED  BY <1>0, <1>1, <2>1
<1>6. ASSUME NEW n \in Nodes, Execute(n) \/ Deliver(n) PROVE Cleared'
  <2>1. Kept /\ clearing' = clearing /\ hasty' = hasty
    BY <1>6 DEF Execute, Deliver, Kept, drawer
  <2>. QED  BY <1>1, <2>1
<1>7. ASSUME NEW v \in Viewers,
             \/ \E n \in Nodes : Bind(v, n)
             \/ AskBuffer(v) \/ Replay(v) \/ EnterRoom(v) \/ Lose(v)
      PROVE  Cleared'
  <2>1. Kept /\ clearing' = clearing /\ hasty' = hasty
    BY <1>7 DEF Bind, AskBuffer, Replay, EnterRoom, Lose, Kept, server, drawer
  <2>. QED  BY <1>1, <2>1
<1>8. CASE UNCHANGED vars
  <2>1. Kept /\ clearing' = clearing /\ hasty' = hasty
    BY <1>8 DEF vars, server, drawer, Kept
  <2>. QED  BY <1>1, <2>1
<1>. QED  BY <1>2, <1>3, <1>4, <1>5, <1>6, <1>7, <1>8 DEF Next

-----------------------------------------------------------------------------
(***************************************************************************)
(* The steps and the canvases of the viewers.                              *)
(***************************************************************************)
Watched(v) == Newcomer(v) /\ Follows(v)

LEMMA ViewerTypes ==
    ASSUME SyncInv
    PROVE  /\ stage \in [Viewers -> Stages] /\ home \in [Viewers -> Nodes]
           /\ canvas \in [Viewers -> Canvas] /\ captured \in [Viewers -> Seq(Op)]
           /\ bus \in [Nodes -> Seq(Seq(Op))] /\ clearing \in Nat
           /\ {trimmed, hasty} \subseteq BOOLEAN
           /\ commands \in [Nodes -> Seq(Command)] /\ Desk \in Nodes
BY DrawSyncAssumption DEF SyncInv, BufferInv, TypeInv, TypeOK

LEMMA DrawKeepsWatched ==
    ASSUME SyncInv, NEW op \in NextOps, NEW slow \in BOOLEAN, Draw(op, slow), NEW v \in Viewers
    PROVE  Watched(v)'
<1>1. op \in Op
  BY NextOpsType DEF SyncInv, BufferInv, TypeInv
<1>2. /\ pending' = pending /\ sent' = Append(sent, [op |-> op, slow |-> slow])
      /\ mine' = Apply(mine, op)
      /\ UNCHANGED <<commands, buffer, clearing, bus, trimmed, home, stage, captured, canvas,
                     watching, raced, missed, hasty>>
  BY DEF Draw, viewers
<1>3. Newcomer(v)'
  BY <1>2 DEF SyncInv, Newcomer, Joining, InRoom, Settled, Quiet
<1>4. ASSUME ~hasty, Settled(v), v \notin raced \cup missed
      PROVE  \E f : /\ BusRun(f, bus[home[v]]) /\ f[0] = canvas[v]
                    /\ clearing = 0 => mine' = ApplyMany(f[Len(bus[home[v]])], Outstanding')
  <2>1. PICK f : /\ BusRun(f, bus[home[v]]) /\ f[0] = canvas[v]
                 /\ clearing = 0 => mine = ApplyMany(f[Len(bus[home[v]])], Outstanding)
    BY <1>4 DEF SyncInv, Follows
  <2>2. ApplyMany(f[Len(bus[home[v]])], Outstanding')
          = Apply(ApplyMany(f[Len(bus[home[v]])], Outstanding), op)
    BY <1>1, <1>2, OutstandingDrawn DEF SyncInv, BufferInv
  <2>. QED  BY <1>2, <2>1, <2>2
<1>5. Follows(v)'
  BY <1>2, <1>4 DEF Follows, Settled
<1>. QED  BY <1>3, <1>5 DEF Watched

LEMMA AuthoriseKeepsWatched ==
    ASSUME SyncInv, NEW i \in DOMAIN sent, Authorise(i), NEW v \in Viewers
    PROVE  Watched(v)'
<1>1. i = 1 /\ sent # << >> /\ sent' = RemoveAt(sent, 1)
      /\ UNCHANGED <<mine, buffer, bus, trimmed, home, stage, captured, canvas, watching, missed, hasty>>
  BY OldestFirst DEF SyncInv, BufferInv, Authorise, drawer
<1>2. clearing \in Nat
  BY ViewerTypes
<1>3. CASE sent[1].op = Clear
  <2>1. clearing' = clearing + 1 /\ raced' = raced \cup {w \in Viewers : Joining(w)}
    BY <1>1, <1>3 DEF Authorise
  <2>2. Newcomer(v)'
    BY <1>1, <2>1 DEF SyncInv, Newcomer, Joining, InRoom, Settled
  <2>3. clearing' # 0
    BY <1>2, <2>1
  <2>4. Follows(v)'
    BY <1>1, <2>1, <2>3 DEF SyncInv, Follows, Settled
  <2>. QED  BY <2>2, <2>4 DEF Watched
<1>4. CASE sent[1].op # Clear
  <2>1. pending' = Append(pending, sent[1].op) /\ clearing' = clearing /\ raced' = raced
        /\ commands' = commands
    BY <1>1, <1>4 DEF Authorise
  <2>2. Outstanding' = Outstanding
    BY <1>1, <2>1, OutstandingKept DEF SyncInv, BufferInv
  <2>3. Newcomer(v)'
    BY <1>1, <2>1 DEF SyncInv, Newcomer, Joining, InRoom, Settled, Quiet
  <2>4. Follows(v)'
    BY <1>1, <2>1, <2>2 DEF SyncInv, Follows, Settled
  <2>. QED  BY <2>3, <2>4 DEF Watched
<1>. QED  BY <1>3, <1>4

\* A broadcast adds its operations at the end of what is on its way to a settled viewer.
LEMMA BroadcastReaches ==
    ASSUME SyncInv, NEW ops \in Seq(Op), Broadcast(ops), home' = home, NEW v \in Viewers,
           Settled(v), NEW f, BusRun(f, bus[home[v]]), f[0] = canvas[v]
    PROVE  \E g : /\ BusRun(g, bus'[home[v]]) /\ g[0] = canvas'[v]
                  /\ g[Len(bus'[home[v]])] = ApplyMany(f[Len(bus[home[v]])], ops)
<1>1. home[v] \in Nodes /\ bus[home[v]] \in Seq(Seq(Op)) /\ canvas[v] \in Canvas /\ Desk \in Nodes
  BY ViewerTypes
<1>2. stage[v] # "away" /\ v \in watching
  BY DEF Settled
<1>3. CASE home[v] = Desk
  <2>1. bus[home[v]] = << >> /\ bus'[home[v]] = << >> /\ Len(<< >>) = 0
    BY <1>1, <1>3 DEF Broadcast, SyncInv
  <2>2. canvas'[v] = ApplyMany(canvas[v], ops)
    BY <1>2, <1>3 DEF Broadcast, Show, InRoom
  <2>3. canvas'[v] \in Canvas
    BY <1>1, <2>2, ApplyManyType
  <2>4. PICK g : BusRun(g, << >>) /\ g[0] = canvas'[v] /\ g[Len(<< >>)] = canvas'[v]
    BY <2>3, BusRunNone
  <2>. QED  BY <2>1, <2>2, <2>4
<1>4. CASE home[v] # Desk
  <2>1. bus'[home[v]] = Append(bus[home[v]], ops)
    BY <1>1, <1>4 DEF Broadcast
  <2>2. canvas'[v] = canvas[v]
    BY <1>4 DEF Broadcast, Show
  <2>. QED  BY <1>1, <2>1, <2>2, BusRunLonger
<1>. QED  BY <1>3, <1>4

LEMMA FlushKeepsWatched == ASSUME SyncInv, Flush, NEW v \in Viewers PROVE Watched(v)'
<1>1. /\ pending' = << >> /\ Broadcast(pending) /\ hasty' = (hasty \/ clearing > 0)
      /\ raced' = raced \cup {w \in Viewers : Joining(w)}
      /\ UNCHANGED <<sent, mine, clearing, buffer, home, stage, captured, watching, missed>>
  BY DEF Flush, drawer
<1>2. pending \in Seq(Op) /\ clearing \in Nat /\ bus \in [Nodes -> Seq(Seq(Op))] /\ home[v] \in Nodes
  BY ViewerTypes, DrawingTypes DEF SyncInv, BufferInv
<1>3. stage[v] = "away" => canvas'[v] = canvas[v]
  BY <1>1 DEF Broadcast, Show, InRoom
<1>4. Newcomer(v)'
  BY <1>1, <1>3 DEF SyncInv, Newcomer, Joining, InRoom, Settled
<1>5. ASSUME ~hasty', Settled(v), v \notin raced \cup missed
      PROVE  \E g : /\ BusRun(g, bus'[home[v]]) /\ g[0] = canvas'[v]
                    /\ clearing = 0 => mine = ApplyMany(g[Len(bus'[home[v]])], Outstanding')
  <2>1. ~hasty /\ clearing = 0
    <3>1. ASSUME hasty \/ clearing > 0 PROVE FALSE
      <4>1. hasty' = TRUE
        BY <1>1, <3>1
      <4>. QED  BY <1>5, <4>1
    <3>. QED  BY <1>2, <3>1
  <2>2. PICK f : /\ BusRun(f, bus[home[v]]) /\ f[0] = canvas[v]
                 /\ mine = ApplyMany(f[Len(bus[home[v]])], Outstanding)
    BY <1>5, <2>1 DEF SyncInv, Follows
  <2>3. PICK g : /\ BusRun(g, bus'[home[v]]) /\ g[0] = canvas'[v]
                 /\ g[Len(bus'[home[v]])] = ApplyMany(f[Len(bus[home[v]])], pending)
    BY <1>1, <1>2, <1>5, <2>2, BroadcastReaches
  <2>4. f[Len(bus[home[v]])] \in Canvas
    <3>1. Len(bus[home[v]]) \in Nat
      BY <1>2
    <3>. QED  BY <2>2, <3>1 DEF BusRun
  <2>5. mine = ApplyMany(ApplyMany(f[Len(bus[home[v]])], pending), Outstanding')
    BY <1>1, <2>2, <2>4, OutstandingFlushed DEF SyncInv, BufferInv
  <2>. QED  BY <2>3, <2>5
<1>6. Follows(v)'
  BY <1>1, <1>5 DEF Follows, Settled
<1>. QED  BY <1>4, <1>6 DEF Watched

LEMMA AnnounceKeepsWatched == ASSUME SyncInv, Announce, NEW v \in Viewers PROVE Watched(v)'
<1>1. /\ Broadcast(<<Clear>>) /\ clearing' = clearing - 1 /\ Kept
      /\ UNCHANGED <<hasty, raced, buffer, home, stage, captured, watching, missed>>
  BY DEF Announce, Kept, drawer
<1>2. clearing \in Nat /\ clearing > 0 /\ bus \in [Nodes -> Seq(Seq(Op))] /\ home[v] \in Nodes
  <2>1. Cardinality(Dels) \in Nat
    <3>1. commands[Desk] \in Seq(Command)
      BY ViewerTypes
    <3>2. IsFiniteSet(1..Len(commands[Desk])) /\ Dels \subseteq 1..Len(commands[Desk])
      BY <3>1, FS_Interval DEF Dels
    <3>. QED  BY <3>2, FS_Subset, FS_CardinalityType
  <2>2. clearing > Cardinality(Dels)
    BY DEF Announce
  <2>. QED  BY <2>1, <2>2, ViewerTypes
<1>3. stage[v] = "away" => canvas'[v] = canvas[v]
  BY DEF Announce, Broadcast, Show, InRoom
<1>4. v \notin raced => ~Joining(v)
  BY <1>2 DEF SyncInv, Newcomer, Quiet
<1>5. Newcomer(v)'
  BY <1>1, <1>3, <1>4 DEF SyncInv, Newcomer, Joining, InRoom, Settled
<1>6. ASSUME ~hasty, Settled(v), v \notin raced \cup missed
      PROVE  \E g : /\ BusRun(g, bus'[home[v]]) /\ g[0] = canvas'[v]
                    /\ mine = ApplyMany(g[Len(bus'[home[v]])], Outstanding)
  <2>1. PICK f : BusRun(f, bus[home[v]]) /\ f[0] = canvas[v]
    BY <1>6 DEF SyncInv, Follows
  <2>2. <<Clear>> \in Seq(Op)
    BY ClearBlanks
  <2>3. PICK g : /\ BusRun(g, bus'[home[v]]) /\ g[0] = canvas'[v]
                 /\ g[Len(bus'[home[v]])] = ApplyMany(f[Len(bus[home[v]])], <<Clear>>)
    BY <1>1, <1>6, <2>1, <2>2, BroadcastReaches
  <2>4. g[Len(bus'[home[v]])] = Blank
    BY <2>3, ClearBlanks
  <2>5. mine = ApplyMany(Blank, Outstanding)
    BY <1>2, <1>6 DEF SyncInv, Cleared
  <2>. QED  BY <2>3, <2>4, <2>5
<1>7. Outstanding' = Outstanding /\ mine' = mine
  BY <1>1, KeptOutstanding DEF Kept
<1>8. Follows(v)'
  BY <1>1, <1>6, <1>7 DEF Follows, Settled
<1>. QED  BY <1>5, <1>8 DEF Watched

LEMMA ExecuteKeepsWatched ==
    ASSUME SyncInv, NEW n \in Nodes, Execute(n), NEW v \in Viewers
    PROVE  Watched(v)'
<1>1. /\ commands[n] # << >> /\ commands' = [commands EXCEPT ![n] = Tail(@)] /\ Kept
      /\ UNCHANGED <<clearing, bus, home, canvas, watching, raced, missed, hasty>>
  BY DEF Execute, Kept, drawer
<1>2. commands \in [Nodes -> Seq(Command)] /\ commands[n] \in Seq(Command) /\ Desk \in Nodes
      /\ stage \in [Viewers -> Stages] /\ captured \in [Viewers -> Seq(Op)]
  BY ViewerTypes
<1>3. PICK x \in Command : x = Head(commands[n]) /\ (x.do = "read" => stage[x.viewer] = "asked")
  <2>1. Head(commands[n]) \in Command
    BY <1>1, <1>2, HeadTailProperties
  <2>2. Head(commands[n]).do = "read" => stage[Head(commands[n]).viewer] = "asked"
    BY ExecuteKeepsAsked DEF SyncInv, BufferInv, AskInv
  <2>. QED  BY <2>1, <2>2
<1>4. ReadsOnly(commands[n]) => x.do = "read"
  <2>1. 1 \in DOMAIN commands[n] /\ x = commands[n][1]
    BY <1>1, <1>2, <1>3, EmptySeq
  <2>. QED  BY <2>1 DEF ReadsOnly
<1>5. n # Desk => x.do = "read"
  BY <1>4 DEF SyncInv, BufferInv, InOrder
<1>6. /\ x.do = "read" => /\ x.viewer \in Viewers /\ buffer' = buffer /\ trimmed' = trimmed
                          /\ stage' = [stage EXCEPT ![x.viewer] = "read"]
                          /\ captured' = [captured EXCEPT ![x.viewer] = buffer]
      /\ x.do # "read" => stage' = stage /\ captured' = captured
  BY <1>3, CommandTypes DEF Execute
<1>7. Joining(v)' = Joining(v) /\ Settled(v)' = Settled(v)
      /\ (stage'[v] = "away" <=> stage[v] = "away") /\ (stage'[v] = "in" <=> stage[v] = "in")
  <2>1. CASE x.do = "read" /\ x.viewer = v
    <3>1. stage[v] = "asked" /\ stage'[v] = "read"
      BY <1>2, <1>3, <1>6, <2>1
    <3>. QED  BY <3>1 DEF Joining, Settled, InRoom
  <2>2. CASE x.do # "read" \/ x.viewer # v
    <3>1. stage'[v] = stage[v] /\ watching' = watching
      BY <1>1, <1>2, <1>6, <2>2
    <3>. QED  BY <3>1 DEF Joining, Settled, InRoom
  <2>. QED  BY <2>1, <2>2
<1>8. ASSUME v \notin raced, Joining(v)
      PROVE  /\ x.do = "read" /\ Quiet(v)'
  <2>1. Quiet(v)
    BY <1>8 DEF SyncInv, Newcomer
  <2>2. x.do = "read"
    BY <1>4, <1>5, <2>1 DEF Quiet
  <2>3. ReadsOnly(commands'[Desk])
    <3>1. ReadsOnly(commands[Desk]) /\ commands[Desk] \in Seq(Command)
      BY <1>2, <2>1 DEF Quiet
    <3>2. CASE n = Desk
      BY <1>1, <1>2, <3>1, <3>2, ReadsOnlyTail
    <3>3. CASE n # Desk
      BY <1>1, <1>2, <3>1, <3>3
    <3>. QED  BY <3>2, <3>3
  <2>. QED  BY <1>1, <1>6, <2>1, <2>2, <2>3 DEF Quiet
<1>9. Newcomer(v)'
  <2>. SUFFICES ASSUME v \notin raced PROVE Newcomer(v)'
    BY <1>1 DEF Newcomer
  <2>1. CASE Joining(v)
    <3>1. x.do = "read" /\ Quiet(v)' /\ buffer' = buffer
      BY <1>6, <1>8, <2>1
    <3>2. stage'[v] = "read" => captured'[v] = buffer
      <4>1. CASE x.viewer = v
        BY <1>2, <1>6, <3>1, <4>1
      <4>2. CASE x.viewer # v
        BY <1>2, <1>6, <3>1, <4>2 DEF SyncInv, Newcomer
      <4>. QED  BY <4>1, <4>2
    <3>. QED  BY <1>1, <1>7, <2>1, <3>1, <3>2 DEF SyncInv, Newcomer
  <2>2. CASE ~Joining(v)
    <3>1. stage[v] # "read" /\ stage'[v] # "read" /\ ~Joining(v)'
          /\ (stage[v] = "in" => v \in watching)
      BY <1>7, <2>2 DEF Joining, InRoom, Settled
    <3>. QED  BY <1>1, <1>7, <2>2, <3>1 DEF SyncInv, Newcomer
  <2>. QED  BY <2>1, <2>2
<1>10. Follows(v)'
  BY <1>1, <1>7, KeptOutstanding DEF SyncInv, Follows, Kept
<1>. QED  BY <1>9, <1>10 DEF Watched

LEMMA DeliverKeepsWatched ==
    ASSUME SyncInv, NEW n \in Nodes, Deliver(n), NEW v \in Viewers
    PROVE  Watched(v)'
<1>1. /\ bus[n] # << >> /\ bus' = [bus EXCEPT ![n] = Tail(@)] /\ Show(n, Head(bus[n])) /\ Kept
      /\ UNCHANGED <<commands, buffer, clearing, trimmed, home, stage, captured, watching, raced,
                     missed, hasty>>
  BY DEF Deliver, Kept, drawer
<1>2. bus \in [Nodes -> Seq(Seq(Op))] /\ bus[n] \in Seq(Seq(Op)) /\ home[v] \in Nodes
      /\ canvas[v] \in Canvas
  BY ViewerTypes
<1>3. home[v] # n => bus'[home[v]] = bus[home[v]] /\ canvas'[v] = canvas[v]
  BY <1>1, <1>2 DEF Show
<1>4. stage[v] = "away" => canvas'[v] = canvas[v]
  BY <1>1 DEF Show, InRoom
<1>5. v \notin raced /\ Joining(v) => home[v] # n
  BY <1>1 DEF SyncInv, Newcomer, Quiet
<1>6. Newcomer(v)'
  BY <1>1, <1>3, <1>4, <1>5 DEF SyncInv, Newcomer, Joining, InRoom, Settled, Quiet
<1>7. ASSUME ~hasty, Settled(v), v \notin raced \cup missed
      PROVE  \E g : /\ BusRun(g, bus'[home[v]]) /\ g[0] = canvas'[v]
                    /\ clearing = 0 => mine = ApplyMany(g[Len(bus'[home[v]])], Outstanding)
  <2>1. PICK f : /\ BusRun(f, bus[home[v]]) /\ f[0] = canvas[v]
                 /\ clearing = 0 => mine = ApplyMany(f[Len(bus[home[v]])], Outstanding)
    BY <1>7 DEF SyncInv, Follows
  <2>2. CASE home[v] # n
    BY <1>3, <2>1, <2>2
  <2>3. CASE home[v] = n
    <3>1. bus'[n] = Tail(bus[n])
      BY <1>1, <1>2
    <3>2. canvas'[v] = ApplyMany(canvas[v], Head(bus[n]))
      BY <1>1, <1>7, <2>3 DEF Show, InRoom, Settled
    <3>3. PICK g : /\ BusRun(g, Tail(bus[n])) /\ g[0] = ApplyMany(f[0], Head(bus[n]))
                   /\ g[Len(Tail(bus[n]))] = f[Len(bus[n])]
      BY <1>1, <1>2, <2>1, <2>3, BusRunShorter
    <3>. QED  BY <2>1, <2>3, <3>1, <3>2, <3>3
  <2>. QED  BY <2>2, <2>3
<1>8. Outstanding' = Outstanding /\ mine' = mine
  BY <1>1, KeptOutstanding DEF Kept
<1>9. Follows(v)'
  BY <1>1, <1>7, <1>8 DEF Follows, Settled
<1>. QED  BY <1>6, <1>9 DEF Watched

LEMMA BindKeepsWatched ==
    ASSUME SyncInv, NEW w \in Viewers, NEW n \in Nodes, Bind(w, n), NEW v \in Viewers
    PROVE  Watched(v)'
<1>1. /\ stage[w] = "away" /\ home' = [home EXCEPT ![w] = n] /\ stage' = [stage EXCEPT ![w] = "bound"]
      /\ raced' = IF trimmed \/ Underway(n) THEN raced \cup {w} ELSE raced
      /\ UNCHANGED <<sent, pending, commands, buffer, clearing, bus, trimmed, captured, canvas,
                     watching, missed, mine, hasty>>
  BY DEF Bind, server, drawer
<1>2. stage \in [Viewers -> Stages] /\ home \in [Viewers -> Nodes] /\ clearing \in Nat
  BY ViewerTypes
<1>3. Kept
  BY <1>1 DEF Kept
<1>4. CASE v = w
  <2>1. stage'[v] = "bound" /\ home'[v] = n /\ Joining(v)' /\ ~Settled(v)'
    BY <1>1, <1>2, <1>4 DEF Joining, Settled, InRoom
  <2>2. ASSUME v \notin raced' PROVE Quiet(v)' /\ canvas'[v] = Blank
    <3>1. ~trimmed /\ ~Underway(n) /\ v \notin raced
      BY <1>1, <1>4, <2>2
    <3>2. ReadsOnly(commands[Desk]) /\ clearing = 0 /\ bus[n] = << >>
      BY <1>2, <3>1 DEF Underway, ReadsOnly
    <3>3. canvas[v] = Blank
      BY <1>1, <1>4, <3>1 DEF SyncInv, Newcomer
    <3>. QED  BY <1>1, <2>1, <3>1, <3>2, <3>3 DEF Quiet
  <2>3. Newcomer(v)'
    BY <2>1, <2>2 DEF Newcomer
  <2>4. Follows(v)'
    BY <2>1 DEF Follows
  <2>. QED  BY <2>3, <2>4 DEF Watched
<1>5. CASE v # w
  <2>1. stage'[v] = stage[v] /\ home'[v] = home[v] /\ (v \in raced' <=> v \in raced)
    BY <1>1, <1>2, <1>5
  <2>2. Newcomer(v)'
    BY <1>1, <2>1 DEF SyncInv, Newcomer, Joining, InRoom, Settled, Quiet
  <2>3. Follows(v)'
    BY <1>1, <1>3, <2>1, KeptOutstanding DEF SyncInv, Follows, Settled
  <2>. QED  BY <2>2, <2>3 DEF Watched
<1>. QED  BY <1>4, <1>5

LEMMA AskKeepsWatched ==
    ASSUME SyncInv, NEW w \in Viewers, AskBuffer(w), NEW v \in Viewers
    PROVE  Watched(v)'
<1>1. /\ stage[w] = "bound" /\ stage' = [stage EXCEPT ![w] = "asked"]
      /\ commands' = [commands EXCEPT ![home[w]] = Append(@, [do |-> "read", viewer |-> w])]
      /\ UNCHANGED <<sent, pending, buffer, clearing, bus, trimmed, home, captured, canvas, watching,
                     raced, missed, mine, hasty>>
  BY DEF AskBuffer, Send, drawer
<1>2. /\ stage \in [Viewers -> Stages] /\ home[w] \in Nodes /\ commands \in [Nodes -> Seq(Command)]
      /\ Desk \in Nodes /\ commands[Desk] \in Seq(Command)
  BY ViewerTypes
<1>3. Joining(v)' = Joining(v) /\ Settled(v)' = Settled(v)
      /\ (stage'[v] = "away" => stage[v] = "away") /\ (stage'[v] = "read" => stage[v] = "read")
      /\ (stage'[v] = "in" => stage[v] = "in")
  BY <1>1, <1>2 DEF Joining, Settled, InRoom
<1>4. ReadsOnly(commands[Desk]) => ReadsOnly(commands'[Desk])
  <2>1. CASE home[w] = Desk
    BY <1>1, <1>2, <2>1, ReadsOnlyLonger
  <2>2. CASE home[w] # Desk
    BY <1>1, <1>2, <2>2
  <2>. QED  BY <2>1, <2>2
<1>5. Quiet(v) => Quiet(v)'
  BY <1>1, <1>4 DEF Quiet
<1>6. Newcomer(v)'
  BY <1>1, <1>3, <1>5 DEF SyncInv, Newcomer
<1>7. Kept
  BY <1>1 DEF Kept
<1>8. Follows(v)'
  BY <1>1, <1>3, <1>7, KeptOutstanding DEF SyncInv, Follows, Kept
<1>. QED  BY <1>6, <1>8 DEF Watched

LEMMA ReplayKeepsWatched ==
    ASSUME SyncInv, NEW w \in Viewers, Replay(w), NEW v \in Viewers
    PROVE  Watched(v)'
<1>1. /\ stage[w] = "read" /\ stage' = [stage EXCEPT ![w] = "in"]
      /\ captured' = [captured EXCEPT ![w] = << >>]
      /\ canvas' = IF w \in watching THEN [canvas EXCEPT ![w] = ApplyMany(@, captured[w])] ELSE canvas
      /\ missed' = IF w \notin watching /\ captured[w] # << >> THEN missed \cup {w} ELSE missed
      /\ UNCHANGED <<sent, pending, commands, buffer, clearing, bus, trimmed, home, watching, raced,
                     mine, hasty>>
  BY DEF Replay, server, drawer
<1>2. stage \in [Viewers -> Stages] /\ canvas \in [Viewers -> Canvas]
      /\ captured \in [Viewers -> Seq(Op)] /\ buffer \in Seq(Op)
  BY ViewerTypes, DrawingTypes DEF SyncInv, BufferInv
<1>3. Kept /\ Outstanding' = Outstanding
  BY <1>1, KeptOutstanding DEF Kept
<1>4. CASE v # w
  <2>1. stage'[v] = stage[v] /\ captured'[v] = captured[v] /\ canvas'[v] = canvas[v]
        /\ (v \in missed' <=> v \in missed)
    BY <1>1, <1>2, <1>4
  <2>2. Newcomer(v)'
    BY <1>1, <2>1 DEF SyncInv, Newcomer, Joining, InRoom, Settled, Quiet
  <2>3. Follows(v)'
    BY <1>1, <1>3, <2>1 DEF SyncInv, Follows, Settled
  <2>. QED  BY <2>2, <2>3 DEF Watched
<1>5. CASE v = w
  <2>1. stage'[v] = "in" /\ Joining(v)
    BY <1>1, <1>2, <1>5 DEF Joining, InRoom, Settled
  <2>2. v \notin raced => Quiet(v) /\ canvas[v] = Blank /\ captured[v] = buffer /\ Quiet(v)'
    BY <1>1, <1>5, <2>1 DEF SyncInv, Newcomer, Quiet
  <2>3. CASE v \in watching
    <3>1. canvas'[v] = ApplyMany(canvas[v], captured[v]) /\ ~Joining(v)'
      BY <1>1, <1>2, <1>5, <2>1, <2>3 DEF Joining, Settled
    <3>2. Newcomer(v)'
      BY <1>1, <2>1, <2>3, <3>1 DEF Newcomer
    <3>3. ASSUME v \notin raced
          PROVE  \E f : /\ BusRun(f, bus[home[v]]) /\ f[0] = canvas'[v]
                        /\ mine = ApplyMany(f[Len(bus[home[v]])], Outstanding)
      <4>1. canvas'[v] = ApplyMany(Blank, buffer) /\ bus[home[v]] = << >>
        BY <2>2, <3>1, <3>3 DEF Quiet
      <4>2. canvas'[v] \in Canvas
        BY <1>2, <4>1, ApplyManyType, BlankIsCanvas
      <4>3. mine = ApplyMany(canvas'[v], Outstanding)
        BY <2>2, <3>3, <4>1, QuietBuffer DEF SyncInv
      <4>4. PICK f : BusRun(f, << >>) /\ f[0] = canvas'[v] /\ f[Len(<< >>)] = canvas'[v]
        BY <4>2, BusRunNone
      <4>. QED  BY <4>1, <4>3, <4>4
    <3>4. Follows(v)'
      BY <1>1, <1>3, <3>3 DEF Follows, Kept
    <3>. QED  BY <3>2, <3>4 DEF Watched
  <2>4. CASE v \notin watching
    <3>1. canvas'[v] = canvas[v] /\ ~Settled(v)' /\ (v \notin missed' => captured[v] = << >>)
      BY <1>1, <1>2, <1>5, <2>4 DEF Settled
    <3>2. Newcomer(v)'
      BY <1>1, <2>1, <2>2, <3>1 DEF Newcomer
    <3>3. Follows(v)'
      BY <3>1 DEF Follows
    <3>. QED  BY <3>2, <3>3 DEF Watched
  <2>. QED  BY <2>3, <2>4
<1>. QED  BY <1>4, <1>5

LEMMA EnterKeepsWatched ==
    ASSUME SyncInv, NEW w \in Viewers, EnterRoom(w), NEW v \in Viewers
    PROVE  Watched(v)'
<1>1. /\ stage[w] = "in" /\ w \notin watching /\ watching' = watching \cup {w}
      /\ UNCHANGED <<sent, pending, commands, buffer, clearing, bus, trimmed, home, stage, captured,
                     canvas, raced, missed, mine, hasty>>
  BY DEF EnterRoom, server, drawer
<1>2. Kept /\ Outstanding' = Outstanding
  BY <1>1, KeptOutstanding DEF Kept
<1>3. CASE v # w
  <2>1. v \in watching' <=> v \in watching
    BY <1>1, <1>3
  <2>2. Newcomer(v)'
    BY <1>1, <2>1 DEF SyncInv, Newcomer, Joining, InRoom, Settled, Quiet
  <2>3. Follows(v)'
    BY <1>1, <1>2, <2>1 DEF SyncInv, Follows, Settled
  <2>. QED  BY <2>2, <2>3 DEF Watched
<1>4. CASE v = w
  <2>1. ~Joining(v)' /\ Joining(v) /\ stage'[v] = "in" /\ v \in watching'
    BY <1>1, <1>4 DEF Joining, InRoom, Settled
  <2>2. Newcomer(v)'
    BY <2>1 DEF Newcomer
  <2>3. ASSUME v \notin raced \cup missed
        PROVE  \E f : /\ BusRun(f, bus[home[v]]) /\ f[0] = canvas[v]
                      /\ mine = ApplyMany(f[Len(bus[home[v]])], Outstanding)
    <3>1. Quiet(v) /\ canvas[v] = Blank /\ buffer = << >> /\ bus[home[v]] = << >>
      BY <1>1, <1>4, <2>1, <2>3 DEF SyncInv, Newcomer, Quiet
    <3>2. mine = ApplyMany(Blank, Outstanding)
      BY <3>1, QuietBuffer, ApplyManyEmpty DEF SyncInv
    <3>3. PICK f : BusRun(f, << >>) /\ f[0] = Blank /\ f[Len(<< >>)] = Blank
      BY BlankIsCanvas, BusRunNone
    <3>. QED  BY <3>1, <3>2, <3>3
  <2>4. Follows(v)'
    BY <1>1, <1>2, <2>3 DEF Follows
  <2>. QED  BY <2>2, <2>4 DEF Watched
<1>. QED  BY <1>3, <1>4

LEMMA LoseKeepsWatched ==
    ASSUME SyncInv, NEW w \in Viewers, Lose(w), NEW v \in Viewers
    PROVE  Watched(v)'
<1>1. /\ stage' = [stage EXCEPT ![w] = "away"]
      /\ canvas' \in {canvas, [canvas EXCEPT ![w] = Blank]}
      /\ raced' = IF canvas'[w] = Blank THEN raced \ {w} ELSE raced \cup {w}
      /\ missed' = missed \ {w}
      /\ UNCHANGED <<sent, pending, commands, buffer, clearing, bus, trimmed, home, captured, watching,
                     mine, hasty>>
  BY DEF Lose, server, drawer
<1>2. stage \in [Viewers -> Stages] /\ canvas \in [Viewers -> Canvas]
  BY ViewerTypes
<1>3. Kept /\ Outstanding' = Outstanding
  BY <1>1, KeptOutstanding DEF Kept
<1>4. CASE v # w
  <2>1. stage'[v] = stage[v] /\ canvas'[v] = canvas[v] /\ (v \in raced' <=> v \in raced)
        /\ (v \in missed' <=> v \in missed)
    BY <1>1, <1>2, <1>4
  <2>2. Newcomer(v)'
    BY <1>1, <2>1 DEF SyncInv, Newcomer, Joining, InRoom, Settled, Quiet
  <2>3. Follows(v)'
    BY <1>1, <1>3, <2>1 DEF SyncInv, Follows, Settled
  <2>. QED  BY <2>2, <2>3 DEF Watched
<1>5. CASE v = w
  <2>1. stage'[v] = "away" /\ (v \notin raced' => canvas'[v] = Blank)
    BY <1>1, <1>2, <1>5
  <2>2. ~Joining(v)' /\ ~Settled(v)'
    BY <2>1 DEF Joining, Settled, InRoom
  <2>. QED  BY <2>1, <2>2 DEF Watched, Newcomer, Follows
<1>. QED  BY <1>4, <1>5

LEMMA SyncInit == Init => SyncInv
<1>. SUFFICES ASSUME Init PROVE SyncInv
  OBVIOUS
<1>1. BufferInv
  BY TypeInit, OrderInit, BufferInit DEF BufferInv
<1>2. bus[Desk] = << >> /\ ReadsAsked /\ Cleared
  BY DrawSyncAssumption DEF Init, ReadsAsked, Cleared
<1>3. ASSUME NEW v \in Viewers PROVE Newcomer(v) /\ Follows(v)
  <2>1. canvas[v] = Blank /\ mine = Blank /\ home[v] \in Nodes /\ bus[home[v]] = << >>
        /\ stage[v] \in {"away", "in"} /\ (stage[v] = "in" => v \in watching)
    BY DEF Init, InRoom
  <2>2. Newcomer(v)
    BY <2>1 DEF Newcomer, Joining, InRoom, Settled
  <2>3. Outstanding = << >>
    BY DEF Init, Outstanding, OpsOf
  <2>4. PICK f : BusRun(f, << >>) /\ f[0] = Blank /\ f[Len(<< >>)] = Blank
    BY BlankIsCanvas, BusRunNone
  <2>5. mine = ApplyMany(f[Len(<< >>)], Outstanding)
    BY <2>1, <2>3, <2>4, ApplyManyEmpty
  <2>6. Follows(v)
    BY <2>1, <2>4, <2>5 DEF Follows
  <2>. QED  BY <2>2, <2>6
<1>. QED  BY <1>1, <1>2, <1>3 DEF SyncInv

LEMMA SyncStep ==
    ASSUME Overtaking = FALSE, SyncInv, [Next]_vars
    PROVE  SyncInv'
<1>1. BufferInv'
  BY BufferStep DEF SyncInv
<1>2. bus'[Desk] = << >> /\ ReadsAsked' /\ Cleared'
  BY BusIdleStep, AskedStep, ClearedStep DEF SyncInv, BufferInv, AskInv
<1>3. SUFFICES ASSUME NEW v \in Viewers PROVE Watched(v)'
  BY <1>1, <1>2 DEF SyncInv, Watched
<1>4. ASSUME NEW op \in NextOps, NEW slow \in BOOLEAN, Draw(op, slow) PROVE Watched(v)'
  BY <1>4, DrawKeepsWatched
<1>5. ASSUME NEW i \in DOMAIN sent, Authorise(i) PROVE Watched(v)'
  BY <1>5, AuthoriseKeepsWatched
<1>6. ASSUME NEW n \in Nodes, Execute(n) \/ Deliver(n) PROVE Watched(v)'
  BY <1>6, ExecuteKeepsWatched, DeliverKeepsWatched
<1>7. ASSUME NEW w \in Viewers, NEW n \in Nodes, Bind(w, n) PROVE Watched(v)'
  BY <1>7, BindKeepsWatched
<1>8. ASSUME NEW w \in Viewers, AskBuffer(w) \/ Replay(w) \/ EnterRoom(w) \/ Lose(w)
      PROVE  Watched(v)'
  BY <1>8, AskKeepsWatched, ReplayKeepsWatched, EnterKeepsWatched, LoseKeepsWatched
<1>9. CASE UNCHANGED vars
  <2>1. Watched(v)
    BY DEF SyncInv, Watched
  <2>. QED  BY <1>9, <2>1 DEF vars, server, viewers, drawer, Watched, Newcomer, Follows, Joining,
            InRoom, Settled, Quiet, Outstanding, OpsOf, ReadsOnly
<1>. QED  BY <1>4, <1>5, <1>6, <1>7, <1>8, <1>9, FlushKeepsWatched, AnnounceKeepsWatched DEF Next

\* A viewer whom everything has reached has the drawer's canvas, if he was there from the
\* beginning or came while it was quiet, took the replay, and no clear was raced: for any
\* viewers, nodes and operations, whatever the batches and however late the broadcasts.
THEOREM ViewersInSync ==
    ASSUME Overtaking = FALSE
    PROVE  Spec => []InSync
<1>1. SyncInv /\ [Next]_vars => SyncInv'
  BY SyncStep
<1>2. SyncInv => InSync
  <2>. SUFFICES ASSUME SyncInv, ~hasty, NEW v \in Viewers, Delivered(v), v \notin raced \cup missed
                PROVE  canvas[v] = mine
    BY DEF InSync
  <2>1. Settled(v) /\ bus[home[v]] = << >> /\ clearing = 0
    BY DEF Delivered, Stored
  <2>2. PICK f : /\ f[0] = canvas[v]
                 /\ mine = ApplyMany(f[Len(bus[home[v]])], Outstanding)
    BY <2>1 DEF SyncInv, Follows
  <2>3. Outstanding = << >>
    BY DEF Delivered, Stored, Outstanding, OpsOf
  <2>4. Len(bus[home[v]]) = 0
    BY <2>1
  <2>. QED  BY <2>2, <2>3, <2>4, ApplyManyEmpty
<1>. QED  BY SyncInit, <1>1, <1>2, PTL DEF Spec
=============================================================================
