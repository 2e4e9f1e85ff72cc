---------------------------- MODULE CommonProofs ----------------------------
(***************************************************************************)
(* Lemmas that the proofs of several modules cite: induction over sets of  *)
(* numbers, and what removing a player does to a list of players.          *)
(***************************************************************************)
EXTENDS PlayerOrder, FiniteSetTheorems, TLAPS

-----------------------------------------------------------------------------
(***************************************************************************)
(* Induction.  The induction theorems of the library take an operator; one *)
(* about a set of numbers follows from the well-founded ordering of finite *)
(* sets by inclusion.                                                      *)
(***************************************************************************)
LEMMA Least ==
    ASSUME NEW T, T \subseteq Nat, T # {}
    PROVE  \E x \in T : \A y \in T : x <= y
<1>. DEFINE R == StrictSubsetOrdering(Nat)
            I == {1..x : x \in T}
<1>1. IsWellFoundedOn(R, FiniteSubsetsOf(Nat))
  BY FS_StrictSubsetOrderingWellFounded
<1>2. \A x \in Nat : IsFiniteSet(1..x) /\ 1..x \subseteq Nat
  BY FS_Interval
<1>3. I \subseteq FiniteSubsetsOf(Nat) /\ I # {}
  BY <1>2 DEF FiniteSubsetsOf
<1>. HIDE DEF R
<1>4. PICK J \in I : \A y \in I : ~ (<<y, J>> \in R)
  BY <1>1, <1>3, WFMin
<1>5. PICK x \in T : J = 1..x
  OBVIOUS
<1>6. ASSUME NEW y \in T, y < x PROVE FALSE
  <2>1. 1..y \subseteq 1..x /\ 1..y # 1..x
    <3>1. x \in 1..x /\ x \notin 1..y
      BY <1>6
    <3>. QED  BY <3>1, <1>6
  <2>2. 1..y \in I /\ 1..y \in SUBSET Nat /\ 1..x \in SUBSET Nat
    BY <1>2
  <2>3. <<1..y, 1..x>> \in R
    BY <2>1, <2>2 DEF R, StrictSubsetOrdering
  <2>. QED  BY <1>4, <1>5, <2>2, <2>3
<1>. QED  BY <1>6

LEMMA SetInduction ==
    ASSUME NEW T, 0 \in T, \A n \in Nat : n \in T => n + 1 \in T
    PROVE  Nat \subseteq T
<1>1. SUFFICES ASSUME Nat \ T # {} PROVE FALSE
  OBVIOUS
<1>2. PICK x \in Nat \ T : \A y \in Nat \ T : x <= y
  BY <1>1, Least
<1>3. x # 0 /\ x - 1 \in Nat
  BY <1>2
<1>4. x - 1 \in T
  BY <1>2, <1>3
<1>. QED  BY <1>3, <1>4, <1>2

-----------------------------------------------------------------------------
(***************************************************************************)
(* Lists of players.                                                       *)
(***************************************************************************)
\* Filtering a player out keeps an order sound, without the player.
LEMMA WithoutSound ==
    ASSUME NEW S, NEW o, SoundFor(o, S), NEW p
    PROVE  SoundFor(Without(o, p), S \ {p})
<1>1. DOMAIN o = 1..Len(o) /\ Len(o) \in Nat /\ \A i \in DOMAIN o : o[i] \in S
  BY DEF SoundFor
<1>2. CASE ~ \E k \in DOMAIN o : o[k] = p
  <2>1. o \in [1..Len(o) -> S \ {p}]
    BY <1>1, <1>2 DEF SoundFor
  <2>2. o \in Seq(S \ {p})
    BY <1>1, <2>1
  <2>. QED  BY <1>2, <2>2 DEF Without, SoundFor
<1>3. CASE \E k \in DOMAIN o : o[k] = p
  <2>. DEFINE k == CHOOSE i \in DOMAIN o : o[i] = p
              w == [i \in 1..(Len(o) - 1) |-> IF i < k THEN o[i] ELSE o[i + 1]]
  <2>1. k \in 1..Len(o) /\ o[k] = p
    BY <1>1, <1>3
  <2>2. \A i \in 1..Len(o) : o[i] = p => i = k
    BY <1>1, <2>1 DEF SoundFor
  <2>. HIDE DEF k
  <2>3. w \in [1..(Len(o) - 1) -> S \ {p}]
    BY <1>1, <2>1, <2>2
  <2>4. Len(o) - 1 \in Nat
    BY <1>1, <2>1
  <2>5. w \in Seq(S \ {p})
    BY <2>3, <2>4
  <2>6. \A i, j \in 1..(Len(o) - 1) : w[i] = w[j] => i = j
    BY <1>1, <2>1 DEF SoundFor
  <2>7. DOMAIN w = 1..(Len(o) - 1)
    OBVIOUS
  <2>8. Without(o, p) = w
    BY <1>3 DEF Without, k
  <2>. QED  BY <2>5, <2>6, <2>7, <2>8 DEF SoundFor
<1>. QED  BY <1>2, <1>3

\* Everybody else is still in the list.
LEMMA WithoutKeepsOthers ==
    ASSUME NEW S, NEW o, SoundFor(o, S), NEW p, NEW i \in DOMAIN o, o[i] # p
    PROVE  \E j \in DOMAIN Without(o, p) : Without(o, p)[j] = o[i]
<1>1. DOMAIN o = 1..Len(o) /\ Len(o) \in Nat
  BY DEF SoundFor
<1>2. CASE ~ \E k \in DOMAIN o : o[k] = p
  BY <1>2 DEF Without
<1>3. CASE \E k \in DOMAIN o : o[k] = p
  <2>. DEFINE k == CHOOSE x \in DOMAIN o : o[x] = p
              w == [x \in 1..(Len(o) - 1) |-> IF x < k THEN o[x] ELSE o[x + 1]]
  <2>1. k \in 1..Len(o) /\ o[k] = p
    BY <1>1, <1>3
  <2>2. i # k /\ i \in 1..Len(o)
    BY <1>1, <2>1
  <2>3. Without(o, p) = w
    BY <1>3 DEF Without
  <2>. HIDE DEF k
  <2>4. CASE i < k
    <3>1. i \in 1..(Len(o) - 1) /\ w[i] = o[i]
      BY <1>1, <2>1, <2>2, <2>4
    <3>. QED  BY <2>3, <3>1
  <2>5. CASE i > k
    <3>1. i - 1 \in 1..(Len(o) - 1) /\ ~(i - 1 < k) /\ (i - 1) + 1 = i
      BY <1>1, <2>1, <2>2, <2>5
    <3>2. w[i - 1] = o[i]
      BY <3>1
    <3>. QED  BY <2>3, <3>1, <3>2
  <2>. QED  BY <1>1, <2>1, <2>2, <2>4, <2>5
<1>. QED  BY <1>2, <1>3

\* Putting somebody new at the end keeps a list sound, with one member more.
LEMMA AppendSound ==
    ASSUME NEW S, NEW o, SoundFor(o, S), NEW p \in S, \A i \in DOMAIN o : o[i] # p
    PROVE  /\ SoundFor(Append(o, p), S)
           /\ Append(o, p) # << >>
           /\ \A i \in DOMAIN o : i \in DOMAIN Append(o, p) /\ Append(o, p)[i] = o[i]
           /\ \E i \in DOMAIN Append(o, p) : Append(o, p)[i] = p
<1>1. o \in Seq(S) /\ DOMAIN o = 1..Len(o) /\ Len(o) \in Nat
  BY DEF SoundFor
<1>2. /\ Append(o, p) \in Seq(S)
      /\ Len(Append(o, p)) = Len(o) + 1
      /\ \A i \in 1..Len(o) : Append(o, p)[i] = o[i]
      /\ Append(o, p)[Len(o) + 1] = p
  BY <1>1
<1>3. DOMAIN Append(o, p) = 1..(Len(o) + 1)
  BY <1>1, <1>2
<1>4. \A i, j \in 1..(Len(o) + 1) : Append(o, p)[i] = Append(o, p)[j] => i = j
  BY <1>1, <1>2 DEF SoundFor
<1>5. Len(o) + 1 \in 1..(Len(o) + 1) /\ \A i \in 1..Len(o) : i \in 1..(Len(o) + 1)
  BY <1>1
<1>. QED  BY <1>1, <1>2, <1>3, <1>4, <1>5 DEF SoundFor
=============================================================================
