--------------------------- MODULE TurnTalkProofs ---------------------------
(***************************************************************************)
(* Theorems about TurnTalk, for any players, words, guesses and bounds.    *)
(***************************************************************************)
EXTENDS TurnTalk, CommonProofs, SequenceTheorems

-----------------------------------------------------------------------------
(***************************************************************************)
(* Lists.                                                                  *)
(***************************************************************************)
\* The record in which nobody has guessed.
LEMMA NobodyNamed == ASSUME NEW S PROVE SoundFor(<< >>, S)
BY DEF SoundFor

LEMMA SoundInMore ==
    ASSUME NEW S, NEW T, S \subseteq T, NEW o, SoundFor(o, S) PROVE SoundFor(o, T)
<1>1. o \in Seq(T)
  BY DEF SoundFor
<1>. QED  BY <1>1 DEF SoundFor

-----------------------------------------------------------------------------
(***************************************************************************)
(* Words.  A guess that is one edit away from the word is at distance at   *)
(* most one: the table of distances, by induction over its diagonals.      *)
(***************************************************************************)
\* One entry of the table of the distances between the beginnings of two words, from
\* those before it.
Entry(f, i, j, a, b) ==
    IF i = 0 THEN j
    ELSE IF j = 0 THEN i
    ELSE Smaller(f[<<i - 1, j>>] + 1,
                 Smaller(f[<<i, j - 1>>] + 1,
                         f[<<i - 1, j - 1>>] + (IF a[i] = b[j] THEN 0 ELSE 1)))

\* f is that table as far as the k-th diagonal.
Cells(a, b) == (0..Len(a)) \X (0..Len(b))
Entries(f, k, a, b) == \A i \in 0..Len(a), j \in 0..Len(b) :
                          i + j <= k => f[<<i, j>>] = Entry(f, i, j, a, b)

LEMMA CellsType ==
    ASSUME NEW a, NEW b
    PROVE  /\ \A i \in 0..Len(a), j \in 0..Len(b) : <<i, j>> \in Cells(a, b)
           /\ \A x \in Cells(a, b) : /\ x[1] \in 0..Len(a) /\ x[2] \in 0..Len(b)
                                     /\ x = <<x[1], x[2]>>
BY DEF Cells

LEMMA EntryType ==
    ASSUME NEW a, NEW b, NEW f, NEW i \in Nat, NEW j \in Nat,
           i # 0 /\ j # 0 => /\ f[<<i - 1, j>>] \in Nat /\ f[<<i, j - 1>>] \in Nat
                             /\ f[<<i - 1, j - 1>>] \in Nat
    PROVE  Entry(f, i, j, a, b) \in Nat
<1>1. CASE i = 0 \/ j = 0
  BY <1>1 DEF Entry
<1>2. CASE i # 0 /\ j # 0
  <2>2. PICK x \in Nat, y \in Nat, z \in Nat :
            x = f[<<i - 1, j>>] /\ y = f[<<i, j - 1>>] /\ z = f[<<i - 1, j - 1>>]
    BY <1>2
  <2>3. \A m, n \in Nat : Smaller(m, n) \in Nat
    BY DEF Smaller
  <2>4. PICK c \in Nat : c = IF a[i] = b[j] THEN 0 ELSE 1
    OBVIOUS
  <2>5. Entry(f, i, j, a, b) = Smaller(x + 1, Smaller(y + 1, z + c))
    BY <1>2, <2>2, <2>4 DEF Entry
  <2>6. x + 1 \in Nat /\ y + 1 \in Nat /\ z + c \in Nat
    OBVIOUS
  <2>7. Smaller(y + 1, z + c) \in Nat
    BY <2>3, <2>6
  <2>. QED  BY <2>3, <2>5, <2>6, <2>7
<1>. QED  BY <1>1, <1>2

LEMMA EntriesExist ==
    ASSUME NEW a, NEW b, Len(a) \in Nat, Len(b) \in Nat, NEW k \in Nat
    PROVE  \E f \in [Cells(a, b) -> Nat] : Entries(f, k, a, b)
<1>. DEFINE F == [Cells(a, b) -> Nat]
            T == {n \in Nat : \E f \in F : Entries(f, n, a, b)}
<1>1. 0 \in T
  <2>. DEFINE f == [x \in Cells(a, b) |-> 0]
  <2>1. f \in F
    OBVIOUS
  <2>2. Entries(f, 0, a, b)
    BY CellsType DEF Entries, Entry
  <2>. QED  BY <2>1, <2>2
<1>2. ASSUME NEW n \in Nat, n \in T PROVE n + 1 \in T
  <2>1. PICK f \in F : Entries(f, n, a, b)
    BY <1>2
  <2>2. PICK g : g = [x \in Cells(a, b) |-> IF x[1] + x[2] <= n THEN f[x]
                                           ELSE Entry(f, x[1], x[2], a, b)]
    OBVIOUS
  <2>3. ASSUME NEW i \in 0..Len(a), NEW j \in 0..Len(b)
        PROVE  g[<<i, j>>] = IF i + j <= n THEN f[<<i, j>>] ELSE Entry(f, i, j, a, b)
    BY <2>2, CellsType
  <2>4. g \in F
    <3>1. ASSUME NEW x \in Cells(a, b)
          PROVE  f[x] \in Nat /\ Entry(f, x[1], x[2], a, b) \in Nat
      <4>1. PICK i \in 0..Len(a), j \in 0..Len(b) : x[1] = i /\ x[2] = j
        BY CellsType
      <4>2. i # 0 /\ j # 0 => i - 1 \in 0..Len(a) /\ j - 1 \in 0..Len(b)
        OBVIOUS
      <4>3. i # 0 /\ j # 0 => /\ f[<<i - 1, j>>] \in Nat /\ f[<<i, j - 1>>] \in Nat
                             /\ f[<<i - 1, j - 1>>] \in Nat
        BY <2>1, <4>2, CellsType
      <4>4. i \in Nat /\ j \in Nat
        OBVIOUS
      <4>5. Entry(f, i, j, a, b) \in Nat
        BY <4>3, <4>4, EntryType
      <4>. QED  BY <2>1, <4>1, <4>5
    <3>. QED  BY <2>2, <3>1
  <2>5. ASSUME NEW i \in 0..Len(a), NEW j \in 0..Len(b), i + j <= n + 1
        PROVE  g[<<i, j>>] = Entry(g, i, j, a, b)
    <3>1. g[<<i, j>>] = Entry(f, i, j, a, b)
      BY <2>1, <2>3 DEF Entries
    <3>2. Entry(g, i, j, a, b) = Entry(f, i, j, a, b)
      <4>1. CASE i = 0 \/ j = 0
        BY <4>1 DEF Entry
      <4>2. CASE i # 0 /\ j # 0
        <5>1. /\ i - 1 \in 0..Len(a) /\ j - 1 \in 0..Len(b)
              /\ i - 1 + j <= n /\ i + (j - 1) <= n /\ i - 1 + (j - 1) <= n
          BY <2>5, <4>2
        <5>2. /\ g[<<i - 1, j>>] = f[<<i - 1, j>>] /\ g[<<i, j - 1>>] = f[<<i, j - 1>>]
              /\ g[<<i - 1, j - 1>>] = f[<<i - 1, j - 1>>]
          BY <2>3, <5>1
        <5>. QED  BY <5>2 DEF Entry
      <4>. QED  BY <4>1, <4>2
    <3>. QED  BY <3>1, <3>2
  <2>6. Entries(g, n + 1, a, b)
    BY <2>5 DEF Entries
  <2>. HIDE DEF F
  <2>. QED  BY <2>4, <2>6
<1>. HIDE DEF T
<1>3. Nat \subseteq T
  BY <1>1, <1>2, SetInduction
<1>. QED  BY <1>3 DEF T

\* f holds the distances between all beginnings of two words.
Distances(f, a, b) ==
    \A i \in 0..Len(a), j \in 0..Len(b) : f[<<i, j>>] = Entry(f, i, j, a, b)

NumbersTo(f, k, a, b) == \A i \in 0..Len(a), j \in 0..Len(b) :
                            i + j < k => f[<<i, j>>] \in Nat

LEMMA DistancesType ==
    ASSUME NEW a, NEW b, Len(a) \in Nat, Len(b) \in Nat, NEW f, Distances(f, a, b)
    PROVE  \A i \in 0..Len(a), j \in 0..Len(b) : f[<<i, j>>] \in Nat
<1>. DEFINE T == {k \in Nat : NumbersTo(f, k, a, b)}
<1>1. 0 \in T
  BY DEF NumbersTo
<1>2. ASSUME NEW n \in Nat, NumbersTo(f, n, a, b),
             NEW i \in 0..Len(a), NEW j \in 0..Len(b), i + j < n + 1
      PROVE  f[<<i, j>>] \in Nat
  <2>1. i # 0 /\ j # 0 => /\ i - 1 \in 0..Len(a) /\ j - 1 \in 0..Len(b)
                          /\ i - 1 + j < n /\ i + (j - 1) < n /\ i - 1 + (j - 1) < n
    BY <1>2
  <2>2. i # 0 /\ j # 0 => /\ f[<<i - 1, j>>] \in Nat /\ f[<<i, j - 1>>] \in Nat
                          /\ f[<<i - 1, j - 1>>] \in Nat
    BY <1>2, <2>1 DEF NumbersTo
  <2>3. i \in Nat /\ j \in Nat
    OBVIOUS
  <2>4. Entry(f, i, j, a, b) \in Nat
    BY <2>2, <2>3, EntryType
  <2>. QED  BY <2>4 DEF Distances
<1>3. ASSUME NEW n \in Nat, n \in T PROVE n + 1 \in T
  <2>1. NumbersTo(f, n, a, b)
    BY <1>3
  <2>2. \A i \in 0..Len(a), j \in 0..Len(b) : i + j < n + 1 => f[<<i, j>>] \in Nat
    BY <1>2, <2>1
  <2>3. NumbersTo(f, n + 1, a, b)
    BY <2>2 DEF NumbersTo
  <2>. QED  BY <2>3
<1>. HIDE DEF T
<1>4. Nat \subseteq T
  BY <1>1, <1>3, SetInduction
<1>5. Len(a) + Len(b) + 1 \in T
  BY <1>4
<1>6. \A i \in 0..Len(a), j \in 0..Len(b) : i + j < Len(a) + Len(b) + 1
  OBVIOUS
<1>. QED  BY <1>5, <1>6 DEF T, NumbersTo

LEMMA LevenshteinTable ==
    ASSUME NEW a, NEW b, Len(a) \in Nat, Len(b) \in Nat
    PROVE  \E f : /\ Levenshtein(a, b) = f[<<Len(a), Len(b)>>]
                  /\ Distances(f, a, b)
                  /\ \A i \in 0..Len(a), j \in 0..Len(b) : f[<<i, j>>] \in Nat
<1>. DEFINE Rule(f) == [x \in (0..Len(a)) \X (0..Len(b)) |->
                LET i == x[1]
                    j == x[2]
                IN IF i = 0 THEN j
                   ELSE IF j = 0 THEN i
                   ELSE Smaller(f[<<i - 1, j>>] + 1,
                                Smaller(f[<<i, j - 1>>] + 1,
                                        f[<<i - 1, j - 1>>]
                                            + (IF a[i] = b[j] THEN 0 ELSE 1)))]
            d == CHOOSE f : f = Rule(f)
<1>1. PICK f \in [Cells(a, b) -> Nat] : Entries(f, Len(a) + Len(b), a, b)
  <2>1. Len(a) + Len(b) \in Nat
    OBVIOUS
  <2>. QED  BY <2>1, EntriesExist
<1>2. ASSUME NEW i \in 0..Len(a), NEW j \in 0..Len(b)
      PROVE  f[<<i, j>>] = Entry(f, i, j, a, b)
  <2>1. i + j <= Len(a) + Len(b)
    OBVIOUS
  <2>. QED  BY <1>1, <2>1 DEF Entries
<1>3. f = [x \in Cells(a, b) |-> Entry(f, x[1], x[2], a, b)]
  <2>1. \A x \in Cells(a, b) : f[x] = Entry(f, x[1], x[2], a, b)
    BY CellsType, <1>2
  <2>. QED  BY <1>1, <2>1
<1>4. d = [x \in Cells(a, b) |-> Entry(d, x[1], x[2], a, b)]
  <2>1. \A h : Rule(h) = [x \in Cells(a, b) |-> Entry(h, x[1], x[2], a, b)]
    BY DEF Entry, Cells
  <2>2. f = Rule(f)
    BY <1>3, <2>1
  <2>. HIDE DEF Rule
  <2>3. d = Rule(d)
    BY <2>2
  <2>. QED  BY <2>1, <2>3
<1>5. Levenshtein(a, b) = d[<<Len(a), Len(b)>>]
  BY DEF Levenshtein
<1>. HIDE DEF d
<1>6. Distances(d, a, b)
  <2>. SUFFICES ASSUME NEW i \in 0..Len(a), NEW j \in 0..Len(b)
                PROVE  d[<<i, j>>] = Entry(d, i, j, a, b)
    BY DEF Distances
  <2>1. <<i, j>> \in Cells(a, b) /\ <<i, j>>[1] = i /\ <<i, j>>[2] = j
    BY CellsType
  <2>. QED  BY <1>4, <2>1
<1>. QED  BY <1>5, <1>6, DistancesType

\* What an entry is at most.
LEMMA DistanceBounds ==
    ASSUME NEW f, NEW a, NEW b, Len(a) \in Nat, Len(b) \in Nat, Distances(f, a, b),
           \A i \in 0..Len(a), j \in 0..Len(b) : f[<<i, j>>] \in Nat
    PROVE  /\ f[<<0, 0>>] = 0
           /\ \A i, m \in 0..Len(a), j, n \in 0..Len(b) :
                (m = i + 1 /\ n = j + 1) =>
                    /\ f[<<m, n>>] <= f[<<i, j>>] + 1
                    /\ a[m] = b[n] => f[<<m, n>>] <= f[<<i, j>>]
           /\ \A i, m \in 0..Len(a), j \in 0..Len(b) :
                m = i + 1 => f[<<m, j>>] <= f[<<i, j>>] + 1
           /\ \A i \in 0..Len(a), j, n \in 0..Len(b) :
                n = j + 1 => f[<<i, n>>] <= f[<<i, j>>] + 1
<1>1. f[<<0, 0>>] = 0
  <2>1. 0 \in 0..Len(a) /\ 0 \in 0..Len(b)
    OBVIOUS
  <2>2. f[<<0, 0>>] = Entry(f, 0, 0, a, b)
    BY <2>1 DEF Distances
  <2>. QED  BY <2>2 DEF Entry
<1>2. ASSUME NEW i \in 0..Len(a), NEW j \in 0..Len(b), i > 0, j > 0
      PROVE  /\ a[i] = b[j] => f[<<i, j>>] <= f[<<i - 1, j - 1>>]
             /\ f[<<i, j>>] <= f[<<i - 1, j - 1>>] + 1
             /\ f[<<i, j>>] <= f[<<i - 1, j>>] + 1
             /\ f[<<i, j>>] <= f[<<i, j - 1>>] + 1
  <2>1. i - 1 \in 0..Len(a) /\ j - 1 \in 0..Len(b) /\ i # 0 /\ j # 0
    BY <1>2
  <2>2. PICK x \in Nat, y \in Nat, z \in Nat :
            x = f[<<i - 1, j>>] /\ y = f[<<i, j - 1>>] /\ z = f[<<i - 1, j - 1>>]
    BY <2>1
  <2>3. f[<<i, j>>] = Entry(f, i, j, a, b)
    BY DEF Distances
  <2>4. PICK c \in Nat : c = (IF a[i] = b[j] THEN 0 ELSE 1)
    OBVIOUS
  <2>5. f[<<i, j>>] = Smaller(x + 1, Smaller(y + 1, z + c))
    BY <2>1, <2>2, <2>3, <2>4 DEF Entry
  <2>6. PICK v \in Nat : v = Smaller(x + 1, Smaller(y + 1, z + c))
    BY DEF Smaller
  <2>7. v <= x + 1 /\ v <= y + 1 /\ v <= z + c
    BY <2>6 DEF Smaller
  <2>8. c <= 1 /\ (a[i] = b[j] => c = 0) /\ z + 0 = z
    BY <2>4
  <2>9. v <= z + 1 /\ (a[i] = b[j] => v <= z)
    BY <2>7, <2>8
  <2>10. f[<<i, j>>] = v
    BY <2>5, <2>6
  <2>. QED  BY <2>2, <2>7, <2>9, <2>10
<1>3. ASSUME NEW i \in 0..Len(a), i > 0 PROVE f[<<i, 0>>] <= f[<<i - 1, 0>>] + 1
  <2>1. i - 1 \in 0..Len(a) /\ 0 \in 0..Len(b) /\ i # 0
    BY <1>3
  <2>2. f[<<i, 0>>] = i /\ f[<<i - 1, 0>>] = i - 1
    BY <2>1 DEF Distances, Entry
  <2>. QED  BY <2>2
<1>4. ASSUME NEW j \in 0..Len(b), j > 0 PROVE f[<<0, j>>] <= f[<<0, j - 1>>] + 1
  <2>1. j - 1 \in 0..Len(b) /\ 0 \in 0..Len(a)
    BY <1>4
  <2>2. f[<<0, j>>] = j /\ f[<<0, j - 1>>] = j - 1
    BY <2>1 DEF Distances, Entry
  <2>. QED  BY <2>2
<1>5. ASSUME NEW i \in 0..Len(a), NEW m \in 0..Len(a), NEW j \in 0..Len(b), m = i + 1
      PROVE  f[<<m, j>>] <= f[<<i, j>>] + 1
  <2>1. m - 1 = i /\ m > 0 /\ j \in Nat
    BY <1>5
  <2>2. CASE j = 0
    BY <1>3, <2>1, <2>2
  <2>3. CASE j # 0
    <3>1. j > 0
      BY <2>1, <2>3
    <3>. QED  BY <1>2, <2>1, <3>1
  <2>. QED  BY <2>2, <2>3
<1>6. ASSUME NEW i \in 0..Len(a), NEW j \in 0..Len(b), NEW n \in 0..Len(b), n = j + 1
      PROVE  f[<<i, n>>] <= f[<<i, j>>] + 1
  <2>1. n - 1 = j /\ n > 0 /\ i \in Nat
    BY <1>6
  <2>2. CASE i = 0
    BY <1>4, <2>1, <2>2
  <2>3. CASE i # 0
    <3>1. i > 0
      BY <2>1, <2>3
    <3>. QED  BY <1>2, <2>1, <3>1
  <2>. QED  BY <2>2, <2>3
<1>7. ASSUME NEW i \in 0..Len(a), NEW m \in 0..Len(a), NEW j \in 0..Len(b), NEW n \in 0..Len(b),
             m = i + 1, n = j + 1
      PROVE  /\ f[<<m, n>>] <= f[<<i, j>>] + 1
             /\ a[m] = b[n] => f[<<m, n>>] <= f[<<i, j>>]
  <2>1. m - 1 = i /\ m > 0 /\ n - 1 = j /\ n > 0
    BY <1>7
  <2>2. /\ f[<<m, n>>] <= f[<<m - 1, n - 1>>] + 1
        /\ a[m] = b[n] => f[<<m, n>>] <= f[<<m - 1, n - 1>>]
    BY <1>2, <2>1
  <2>. QED  BY <2>1, <2>2
<1>. QED  BY <1>1, <1>5, <1>6, <1>7

-----------------------------------------------------------------------------
\* Letter k of the longer word is one too many: the words agree before it, and after it.
LEMMA OneMore ==
    ASSUME NEW f, NEW a, NEW b, Len(a) \in Nat, Len(b) \in Nat, Distances(f, a, b),
           Len(a) = Len(b) + 1, NEW k \in 1..Len(a),
           \A i \in 1..Len(b) : b[i] = IF i < k THEN a[i] ELSE a[i + 1]
    PROVE  f[<<Len(a), Len(b)>>] <= 1
<1>. DEFINE T == {n \in Nat : n <= Len(b) =>
                    /\ n < k => f[<<n, n>>] <= 0
                    /\ n + 1 >= k => f[<<n + 1, n>>] <= 1}
<1>1. \A i \in 0..Len(a), j \in 0..Len(b) : f[<<i, j>>] \in Nat
  BY DistancesType
<1>2. /\ f[<<0, 0>>] = 0
      /\ \A i, m \in 0..Len(a), j, l \in 0..Len(b) :
            (m = i + 1 /\ l = j + 1 /\ a[m] = b[l]) => f[<<m, l>>] <= f[<<i, j>>]
      /\ \A i, m \in 0..Len(a), j \in 0..Len(b) :
            m = i + 1 => f[<<m, j>>] <= f[<<i, j>>] + 1
  BY <1>1, DistanceBounds
<1>3. 0 \in T
  <2>1. f[<<0, 0>>] <= 0
    BY <1>2
  <2>2. 0 \in 0..Len(a) /\ 1 \in 0..Len(a) /\ 0 \in 0..Len(b) /\ 1 = 0 + 1
    OBVIOUS
  <2>3. f[<<1, 0>>] <= f[<<0, 0>>] + 1
    BY <1>2, <2>2
  <2>. QED  BY <1>1, <2>1, <2>2, <2>3
<1>4. ASSUME NEW n \in Nat, n \in T PROVE n + 1 \in T
  <2>. SUFFICES ASSUME n + 1 <= Len(b)
                PROVE  /\ n + 1 < k => f[<<n + 1, n + 1>>] <= 0
                       /\ (n + 1) + 1 >= k => f[<<(n + 1) + 1, n + 1>>] <= 1
    OBVIOUS
  <2>1. /\ n \in 0..Len(a) /\ n + 1 \in 0..Len(a) /\ n + 2 \in 0..Len(a)
        /\ n \in 0..Len(b) /\ n + 1 \in 0..Len(b) /\ n + 1 \in 1..Len(b)
        /\ n + 2 = (n + 1) + 1 /\ n <= Len(b)
    OBVIOUS
  <2>2. /\ n < k => f[<<n, n>>] <= 0
        /\ n + 1 >= k => f[<<n + 1, n>>] <= 1
    BY <1>4, <2>1
  <2>3. PICK x \in Nat, y \in Nat, u \in Nat, v \in Nat :
            x = f[<<n, n>>] /\ y = f[<<n + 1, n>>] /\ u = f[<<n + 1, n + 1>>]
            /\ v = f[<<n + 2, n + 1>>]
    BY <1>1, <2>1
  <2>4. a[n + 1] = b[n + 1] => u <= x
    BY <1>2, <2>1, <2>3
  <2>5. a[n + 2] = b[n + 1] => v <= y
    BY <1>2, <2>1, <2>3
  <2>6. v <= u + 1
    BY <1>2, <2>1, <2>3
  <2>7. n + 1 < k => u <= 0
    BY <2>1, <2>2, <2>3, <2>4
  <2>8. n + 2 >= k => v <= 1
    <3>1. CASE n + 2 = k
      <4>1. n + 1 < k
        BY <3>1
      <4>. QED  BY <4>1, <2>6, <2>7
    <3>2. CASE n + 2 > k
      <4>1. n + 1 >= k /\ ~(n + 1 < k) /\ n + 1 + 1 = n + 2
        BY <3>2
      <4>2. a[n + 2] = b[n + 1]
        BY <4>1, <2>1
      <4>. QED  BY <4>1, <4>2, <2>2, <2>3, <2>5
    <3>. QED  BY <3>1, <3>2
  <2>. QED  BY <2>3, <2>7, <2>8
<1>. HIDE DEF T
<1>5. Nat \subseteq T
  BY <1>3, <1>4, SetInduction
<1>6. Len(b) \in T
  BY <1>5
<1>. QED  BY <1>6 DEF T

\* The words differ in letter k at most.
LEMMA OneOther ==
    ASSUME NEW f, NEW a, NEW b, Len(a) \in Nat, Len(b) = Len(a), Distances(f, a, b),
           NEW k \in Nat, \A i \in 1..Len(b) : i # k => a[i] = b[i]
    PROVE  f[<<Len(a), Len(b)>>] <= 1
<1>. DEFINE T == {n \in Nat : n <= Len(b) =>
                    /\ f[<<n, n>>] <= 1
                    /\ n < k => f[<<n, n>>] <= 0}
<1>1. \A i \in 0..Len(a), j \in 0..Len(b) : f[<<i, j>>] \in Nat
  BY DistancesType
<1>2. /\ f[<<0, 0>>] = 0
      /\ \A i, m \in 0..Len(a), j, l \in 0..Len(b) :
            (m = i + 1 /\ l = j + 1) => /\ f[<<m, l>>] <= f[<<i, j>>] + 1
                                        /\ a[m] = b[l] => f[<<m, l>>] <= f[<<i, j>>]
  BY <1>1, DistanceBounds
<1>3. 0 \in T
  BY <1>2
<1>4. ASSUME NEW n \in Nat, n \in T PROVE n + 1 \in T
  <2>. SUFFICES ASSUME n + 1 <= Len(b)
                PROVE  /\ f[<<n + 1, n + 1>>] <= 1
                       /\ n + 1 < k => f[<<n + 1, n + 1>>] <= 0
    OBVIOUS
  <2>1. /\ n \in 0..Len(a) /\ n + 1 \in 0..Len(a) /\ n + 1 \in 1..Len(b)
        /\ n <= Len(b)
    OBVIOUS
  <2>2. /\ f[<<n, n>>] <= 1
        /\ n < k => f[<<n, n>>] <= 0
    BY <1>4, <2>1
  <2>3. PICK x \in Nat, u \in Nat : x = f[<<n, n>>] /\ u = f[<<n + 1, n + 1>>]
    BY <1>1, <2>1
  <2>4. (a[n + 1] = b[n + 1] => u <= x) /\ u <= x + 1
    BY <1>2, <2>1, <2>3
  <2>5. n + 1 # k => a[n + 1] = b[n + 1]
    BY <2>1
  <2>6. (n + 1 = k => n < k) /\ (n + 1 < k => n < k)
    OBVIOUS
  <2>. QED  BY <2>2, <2>3, <2>4, <2>5, <2>6
<1>. HIDE DEF T
<1>5. Nat \subseteq T
  BY <1>3, <1>4, SetInduction
<1>6. Len(b) \in T
  BY <1>5
<1>. QED  BY <1>6 DEF T

\* The table of two words is that of the same words the other way round, transposed.
LEMMA Transposed ==
    ASSUME NEW f, NEW a, NEW b, Len(a) \in Nat, Len(b) \in Nat, Distances(f, a, b)
    PROVE  \E g : Distances(g, b, a) /\ g[<<Len(b), Len(a)>>] = f[<<Len(a), Len(b)>>]
<1>1. PICK g : g = [x \in Cells(b, a) |-> f[<<x[2], x[1]>>]]
  OBVIOUS
<1>2. \A i \in 0..Len(b), j \in 0..Len(a) : g[<<i, j>>] = f[<<j, i>>]
  BY <1>1, CellsType
<1>3. \A i \in 0..Len(a), j \in 0..Len(b) : f[<<i, j>>] \in Nat
  BY DistancesType
<1>4. ASSUME NEW i \in 0..Len(b), NEW j \in 0..Len(a)
      PROVE  g[<<i, j>>] = Entry(g, i, j, b, a)
  <2>1. g[<<i, j>>] = Entry(f, j, i, a, b)
    BY <1>2 DEF Distances
  <2>2. CASE i = 0 \/ j = 0
    BY <2>1, <2>2 DEF Entry
  <2>3. CASE i # 0 /\ j # 0
    <3>1. i - 1 \in 0..Len(b) /\ j - 1 \in 0..Len(a)
      BY <2>3
    <3>2. PICK x \in Nat, y \in Nat, z \in Nat :
              x = f[<<j - 1, i>>] /\ y = f[<<j, i - 1>>] /\ z = f[<<j - 1, i - 1>>]
      BY <1>3, <3>1
    <3>3. g[<<i, j - 1>>] = x /\ g[<<i - 1, j>>] = y /\ g[<<i - 1, j - 1>>] = z
      BY <1>2, <3>1, <3>2
    <3>4. PICK c \in Nat : c = IF a[j] = b[i] THEN 0 ELSE 1
      OBVIOUS
    <3>5. Entry(f, j, i, a, b) = Smaller(x + 1, Smaller(y + 1, z + c))
      BY <2>3, <3>2, <3>4 DEF Entry
    <3>6. Entry(g, i, j, b, a) = Smaller(y + 1, Smaller(x + 1, z + c))
      BY <2>3, <3>3, <3>4 DEF Entry
    <3>7. Smaller(x + 1, Smaller(y + 1, z + c)) = Smaller(y + 1, Smaller(x + 1, z + c))
      BY DEF Smaller
    <3>. QED  BY <2>1, <3>5, <3>6, <3>7
  <2>. QED  BY <2>2, <2>3
<1>5. Distances(g, b, a)
  BY <1>4 DEF Distances
<1>6. g[<<Len(b), Len(a)>>] = f[<<Len(a), Len(b)>>]
  BY <1>2
<1>. QED  BY <1>5, <1>6

\* The words that differ by one edit, as TurnTalk defines it.
LEMMA WithoutOne ==
    ASSUME NEW S, NEW w \in Seq(S), NEW k \in DOMAIN w
    PROVE  LET v == SubSeq(w, 1, k - 1) \o SubSeq(w, k + 1, Len(w))
           IN  /\ Len(v) = Len(w) - 1
               /\ \A i \in 1..(Len(w) - 1) : v[i] = IF i < k THEN w[i] ELSE w[i + 1]
<1>0. k \in 1..Len(w) /\ Len(w) \in Nat
  OBVIOUS
<1>1. PICK x \in Seq(S) : x = SubSeq(w, 1, k - 1) /\ Len(x) = k - 1
                          /\ \A i \in 1..(k - 1) : x[i] = w[i]
  <2>1. 1 \in Int /\ k - 1 \in Int /\ \A i \in 1..(k - 1) : w[i] \in S
    BY <1>0
  <2>2. /\ SubSeq(w, 1, k - 1) \in Seq(S)
        /\ Len(SubSeq(w, 1, k - 1)) = IF 1 <= k - 1 THEN (k - 1) - 1 + 1 ELSE 0
        /\ \A i \in 1..((k - 1) - 1 + 1) : SubSeq(w, 1, k - 1)[i] = w[1 + i - 1]
    BY <2>1, SubSeqProperties
  <2>3. /\ (IF 1 <= k - 1 THEN (k - 1) - 1 + 1 ELSE 0) = k - 1 /\ (k - 1) - 1 + 1 = k - 1
        /\ \A i \in 1..(k - 1) : 1 + i - 1 = i
    BY <1>0
  <2>. QED  BY <2>2, <2>3
<1>2. PICK y \in Seq(S) : y = SubSeq(w, k + 1, Len(w)) /\ Len(y) = Len(w) - k
                          /\ \A i \in 1..(Len(w) - k) : y[i] = w[k + i]
  <2>0. PICK m \in Int, n \in Int : m = k + 1 /\ n = Len(w)
    BY <1>0
  <2>1. \A i \in m..n : w[i] \in S
    BY <1>0, <2>0
  <2>2. PICK y : y = SubSeq(w, m, n)
    OBVIOUS
  <2>3. /\ y \in Seq(S) /\ Len(y) = IF m <= n THEN n - m + 1 ELSE 0
        /\ \A i \in 1..(n - m + 1) : y[i] = w[m + i - 1]
    BY <2>1, <2>2, SubSeqProperties
  <2>4. Len(y) = n - k
    BY <1>0, <2>0, <2>3
  <2>5. ASSUME NEW i \in 1..(n - k) PROVE y[i] = w[k + i]
    <3>1. i \in 1..(n - m + 1) /\ m + i - 1 = k + i
      BY <1>0, <2>0
    <3>. QED  BY <2>3, <3>1
  <2>. QED  BY <2>0, <2>2, <2>3, <2>4, <2>5
<1>3. PICK v : v = x \o y
  OBVIOUS
<1>4. /\ Len(v) = Len(x) + Len(y)
      /\ \A i \in 1..(Len(x) + Len(y)) : v[i] = IF i <= Len(x) THEN x[i] ELSE y[i - Len(x)]
  BY <1>3, ConcatProperties
<1>5. Len(v) = Len(w) - 1
  BY <1>0, <1>1, <1>2, <1>4
<1>6. ASSUME NEW i \in 1..(Len(w) - 1) PROVE v[i] = IF i < k THEN w[i] ELSE w[i + 1]
  <2>1. i \in 1..(Len(x) + Len(y))
    BY <1>0, <1>1, <1>2
  <2>2. CASE i < k
    <3>1. i <= Len(x) /\ i \in 1..(k - 1)
      BY <1>0, <1>1, <2>2
    <3>. QED  BY <1>1, <1>4, <2>1, <2>2, <3>1
  <2>3. CASE ~(i < k)
    <3>1. ~(i <= Len(x)) /\ i - Len(x) = i - (k - 1) /\ i - (k - 1) \in 1..(Len(w) - k)
          /\ k + (i - (k - 1)) = i + 1
      BY <1>0, <1>1, <2>3
    <3>2. v[i] = y[i - (k - 1)]
      BY <1>4, <2>1, <3>1
    <3>. QED  BY <1>2, <2>3, <3>1, <3>2
  <2>. QED  BY <2>2, <2>3
<1>. QED  BY <1>1, <1>2, <1>3, <1>5, <1>6

\* Words that are equal or differ by one edit are at a distance of at most one.
LEMMA OneEditIsNear ==
    ASSUME NEW S, NEW g \in Seq(S), NEW w \in Seq(S), g = w \/ OneEdit(g, w)
    PROVE  Levenshtein(g, w) <= 1
<1>0. /\ Len(g) \in Nat /\ Len(w) \in Nat /\ DOMAIN g = 1..Len(g) /\ DOMAIN w = 1..Len(w)
  OBVIOUS
<1>1. PICK f : Levenshtein(g, w) = f[<<Len(g), Len(w)>>] /\ Distances(f, g, w)
  BY <1>0, LevenshteinTable
<1>. SUFFICES f[<<Len(g), Len(w)>>] <= 1
  BY <1>1
<1>2. CASE g = w
  <2>1. 0 \in Nat /\ Len(w) = Len(g) /\ \A i \in 1..Len(w) : i # 0 => g[i] = w[i]
    BY <1>2, <1>0
  <2>. QED  BY <1>0, <1>1, <2>1, OneOther
<1>3. CASE Len(g) = Len(w) /\ Cardinality({i \in DOMAIN w : g[i] # w[i]}) <= 1
  <2>. DEFINE D == {i \in 1..Len(w) : g[i] # w[i]}
  <2>1. IsFiniteSet(D) /\ Cardinality(D) <= 1
    <3>1. IsFiniteSet(1..Len(w))
      BY <1>0, FS_Interval
    <3>2. D \in SUBSET (1..Len(w))
      OBVIOUS
    <3>3. IsFiniteSet(D)
      BY <3>1, <3>2, FS_Subset
    <3>. QED  BY <1>0, <1>3, <3>3
  <2>2. PICK k \in Nat : \A i \in D : i = k
    <3>1. CASE D = {}
      BY <3>1
    <3>2. CASE D # {}
      <4>1. PICK k \in D : TRUE
        BY <3>2
      <4>2. ASSUME NEW i \in D, i # k PROVE FALSE
        <5>1. PICK A, B : A = {k} /\ B = A \cup {i}
          OBVIOUS
        <5>2. IsFiniteSet(A) /\ Cardinality(A) = 1
          BY <5>1, FS_Singleton
        <5>3. Cardinality(B) = IF i \in A THEN Cardinality(A) ELSE Cardinality(A) + 1
          BY <5>1, <5>2, FS_AddElement
        <5>4. Cardinality(B) = 2
          BY <4>2, <5>1, <5>2, <5>3
        <5>5. B \in SUBSET D
          BY <4>1, <4>2, <5>1
        <5>. HIDE DEF D
        <5>6. Cardinality(B) <= Cardinality(D) /\ Cardinality(D) \in Nat
          BY <2>1, <5>5, FS_Subset, FS_CardinalityType
        <5>. QED  BY <2>1, <5>4, <5>6
      <4>. QED  BY <4>1, <4>2
    <3>. QED  BY <3>1, <3>2
  <2>3. Len(w) = Len(g) /\ \A i \in 1..Len(w) : i # k => g[i] = w[i]
    BY <1>3, <2>2
  <2>. QED  BY <1>0, <1>1, <2>3, OneOther
<1>4. CASE Len(g) = Len(w) + 1 /\ \E i \in DOMAIN g : w = Without1(g, i)
  <2>1. PICK k \in 1..Len(g) : w = Without1(g, k)
    BY <1>0, <1>4
  <2>2. \A i \in 1..(Len(g) - 1) : w[i] = IF i < k THEN g[i] ELSE g[i + 1]
    BY <1>0, <2>1, WithoutOne DEF Without1
  <2>3. Len(g) - 1 = Len(w)
    BY <1>0, <1>4
  <2>4. \A i \in 1..Len(w) : w[i] = IF i < k THEN g[i] ELSE g[i + 1]
    BY <2>2, <2>3
  <2>. QED  BY <1>0, <1>1, <1>4, <2>4, OneMore
<1>5. CASE Len(w) = Len(g) + 1 /\ \E i \in DOMAIN w : g = Without1(w, i)
  <2>1. PICK k \in 1..Len(w) : g = Without1(w, k)
    BY <1>0, <1>5
  <2>2. \A i \in 1..(Len(w) - 1) : g[i] = IF i < k THEN w[i] ELSE w[i + 1]
    BY <1>0, <2>1, WithoutOne DEF Without1
  <2>3. Len(w) - 1 = Len(g)
    BY <1>0, <1>5
  <2>4. \A i \in 1..Len(g) : g[i] = IF i < k THEN w[i] ELSE w[i + 1]
    BY <2>2, <2>3
  <2>5. PICK h : Distances(h, w, g) /\ h[<<Len(w), Len(g)>>] = f[<<Len(g), Len(w)>>]
    BY <1>0, <1>1, Transposed
  <2>6. h[<<Len(w), Len(g)>>] <= 1
    BY <1>0, <1>5, <2>4, <2>5, OneMore
  <2>. QED  BY <2>5, <2>6
<1>. QED  BY <1>2, <1>3, <1>4, <1>5 DEF OneEdit

-----------------------------------------------------------------------------
(***************************************************************************)
(* Types.                                                                  *)
(***************************************************************************)
\* What a handler has captured, and the turns left to the one that begins the next.
Captured(t) ==
    /\ t \in Task
    /\ t.at \in {"choose", "word", "announce", "credit"} => t.word \in Words
    /\ t.at \in {"word", "announce"} => t.word \in Used
    /\ t.at \in {"deal", "choose", "rejoin", "bind"} => t.player \in Players

Starters == {"advance", "begin"}
Starting == /\ \A t, u \in tasks : t.at \in Starters /\ u.at \in Starters => t = u
            /\ (\E t \in tasks : t.at \in Starters) => turn < MaxTurns

HandlersTyped == IsFiniteSet(tasks) /\ (\A t \in tasks : Captured(t)) /\ Starting
SelectsTyped == \A s \in timers : s.kind = "select" => s.player \in Players

TypeInv == TypeOK /\ HandlersTyped /\ SelectsTyped

\* Pages.
Mask == Seq(STRING \cup {Blank})

LEMMA PageTypes ==
    /\ \A w \in Word : \A n : MaskWord(w, n) \in Mask
    /\ \A v \in View, s \in Snapshot : \A p : SetRoom(v, s, p) \in View
    /\ \A v \in View, m \in Mask : StartTurn(v, m) \in View /\ SetMasked(v, m) \in View
    /\ \A v \in View, w \in Word : SetMyWord(v, w) \in View /\ EndRound(v, w) \in View
    /\ \A v \in View : SetWordChoices(v) \in View /\ MarkGuessed(v) \in View
<1>1. ASSUME NEW w \in Word, NEW n PROVE MaskWord(w, n) \in Mask
  <2>1. w \in Seq(STRING)
    <3>1. << >> \in Seq(STRING) /\ \A x \in Words : x \in Seq(STRING)
      BY TurnTalkAssumption
    <3>. QED  BY <3>1 DEF Word
  <2>2. \A i \in 1..Len(w) :
            (IF i - 1 \in Revealed(Len(w), n) THEN w[i] ELSE Blank) \in STRING \cup {Blank}
    BY <2>1
  <2>3. MaskWord(w, n) \in [1..Len(w) -> STRING \cup {Blank}] /\ Len(w) \in Nat
    BY <2>1, <2>2 DEF MaskWord
  <2>. QED  BY <2>3 DEF Mask
<1>2. ASSUME NEW v \in View, NEW s \in Snapshot, NEW p PROVE SetRoom(v, s, p) \in View
  <2>1. (p \in s.drawing) \in BOOLEAN
    OBVIOUS
  <2>2. s.phase \in Phases
    BY DEF Snapshot
  <2>. QED  BY <2>1, <2>2 DEF SetRoom, View
<1>3. ASSUME NEW v \in View, NEW m \in Mask
      PROVE  StartTurn(v, m) \in View /\ SetMasked(v, m) \in View
  BY DEF StartTurn, SetMasked, View, Mask
<1>4. ASSUME NEW v \in View, NEW w \in Word
      PROVE  SetMyWord(v, w) \in View /\ EndRound(v, w) \in View
  BY DEF SetMyWord, EndRound, View
<1>5. ASSUME NEW v \in View PROVE SetWordChoices(v) \in View /\ MarkGuessed(v) \in View
  BY DEF SetWordChoices, MarkGuessed, View
<1>. QED  BY <1>1, <1>2, <1>3, <1>4, <1>5

LEMMA RoomStateType ==
    ASSUME TypeOK, NEW s \in Snapshot
    PROVE  RoomState(s) \in [Players -> View]
BY PageTypes DEF TypeOK, RoomState

LEMMA PublicType == \A r \in Room : Public(r) \in Snapshot
BY DEF Public, Room, Snapshot

\* Players.
LEMMA DrawerType ==
    ASSUME TypeOK
    PROVE  CurrentDrawer \in Players \cup {Nobody}
           /\ (CurrentDrawer # Nobody => CurrentDrawer \in room.players)
<1>1. room.turnPointer \in Nat /\ SoundFor(room.drawOrder, room.players)
      /\ room.players \subseteq Players
  BY DEF TypeOK, Room
<1>. QED  BY <1>1, TurnTalkAssumption DEF CurrentDrawer, SoundFor

LEMMA GuessedType ==
    ASSUME TypeOK
    PROVE  Guessed \subseteq room.players /\ IsFiniteSet(Guessed)
<1>1. Guessed \subseteq room.players /\ room.players \subseteq Players
  BY DEF TypeOK, Room, Guessed, SoundFor
<1>. QED  BY <1>1, TurnTalkAssumption, FS_Subset

\* Points.
LEMMA DivMonotone ==
    ASSUME NEW a \in Nat, NEW b \in Nat, a <= b, NEW d \in Nat \ {0}
    PROVE  a \div d \in Nat /\ a \div d <= b \div d
<1>1. /\ a = d * (a \div d) + (a % d) /\ 0 <= a % d /\ a % d < d /\ a \div d \in Int
      /\ b = d * (b \div d) + (b % d) /\ 0 <= b % d /\ b % d < d /\ b \div d \in Int
  OBVIOUS
<1>. QED  BY <1>1, SMTT(30)

LEMMA MultipliedMonotone ==
    ASSUME NEW m \in Nat, NEW n \in Nat, m <= n, NEW d \in Difficulties
    PROVE  Multiplied(m, d) \in Nat /\ Multiplied(m, d) <= Multiplied(n, d)
<1>1. Multiplied(m, d) \in Nat
  BY DEF Multiplied, Rounded, Percent, Difficulties, TiesDown
<1>2. Multiplied(m, d) <= Multiplied(n, d)
  BY DEF Multiplied, Rounded, Percent, Difficulties, TiesDown
<1>. QED  BY <1>1, <1>2

LEMMA OrderBonusFalls ==
    ASSUME NEW i \in Nat, NEW j \in Nat, i <= j
    PROVE  /\ OrderBonus(j) \in Nat /\ OrderBonus(j) <= OrderBonus(i)
           /\ i < j /\ i < Len(GuessOrderBonus) => OrderBonus(j) < OrderBonus(i)
BY DEF OrderBonus, GuessOrderBonus

LEMMA TimeBonusMonotone ==
    ASSUME NEW r \in Nat, NEW s \in Nat, r <= s, NEW t \in Nat \ {0}
    PROVE  TimeBonus(r, t) \in Nat /\ TimeBonus(r, t) <= TimeBonus(s, t)
<1>1. PICK m \in Nat, n \in Nat : m = 2 * (250 * Smaller(r, t)) + t
                                  /\ n = 2 * (250 * Smaller(s, t)) + t /\ m <= n
  BY DEF Smaller
<1>2. PICK d \in Nat \ {0} : d = 2 * t
  OBVIOUS
<1>3. m \div d \in Nat /\ n \div d \in Nat /\ m \div d <= n \div d /\ 0 <= n \div d
  <2>1. m \div d \in Nat /\ m \div d <= n \div d
    BY <1>1, DivMonotone
  <2>2. n \div d \in Nat
    BY DivMonotone
  <2>. QED  BY <2>1, <2>2
<1>4. Rounded(MaxTimeBonus * Smaller(r, t), t) = m \div d
      /\ Rounded(MaxTimeBonus * Smaller(s, t), t) = n \div d
  BY <1>1, <1>2 DEF Rounded, MaxTimeBonus
<1>5. t > 0 /\ (r > 0 => s > 0)
  OBVIOUS
<1>. QED  BY <1>3, <1>4, <1>5 DEF TimeBonus

\* A guess is worth at least as much the sooner it comes, in time and in order.
LEMMA ScoreFalls ==
    ASSUME NEW r \in Nat, NEW s \in Nat, r <= s, NEW i \in Nat, NEW j \in Nat, i <= j,
           NEW d \in Difficulties
    PROVE  /\ ScoreGuess(r, Total, j, d) \in Nat
           /\ ScoreGuess(r, Total, j, d) <= ScoreGuess(s, Total, i, d)
           /\ i < j /\ i < Len(GuessOrderBonus)
                 => ScoreGuess(r, Total, j, d) < ScoreGuess(s, Total, i, d)
<1>1. Total \in Nat \ {0}
  BY TurnTalkAssumption
<1>2. PICK x \in Nat, y \in Nat : x = TimeBonus(r, Total) /\ y = TimeBonus(s, Total) /\ x <= y
  BY <1>1, TimeBonusMonotone
<1>3. PICK m \in Nat, n \in Nat : m = Multiplied(BaseScore + x, d)
                                  /\ n = Multiplied(BaseScore + y, d) /\ m <= n
  <2>1. BaseScore + x \in Nat /\ BaseScore + y \in Nat /\ BaseScore + x <= BaseScore + y
    BY <1>2 DEF BaseScore
  <2>. QED  BY <2>1, MultipliedMonotone
<1>4. PICK k \in Nat, l \in Nat : k = OrderBonus(j) /\ l = OrderBonus(i) /\ k <= l
                                  /\ (i < j /\ i < Len(GuessOrderBonus) => k < l)
  <2>1. OrderBonus(j) \in Nat /\ OrderBonus(i) \in Nat
    BY OrderBonusFalls
  <2>2. OrderBonus(j) <= OrderBonus(i)
    BY OrderBonusFalls
  <2>3. i < j /\ i < Len(GuessOrderBonus) => OrderBonus(j) < OrderBonus(i)
    BY OrderBonusFalls
  <2>. QED  BY <2>1, <2>2, <2>3
<1>5. ScoreGuess(r, Total, j, d) = m + k /\ ScoreGuess(s, Total, i, d) = n + l
  BY <1>2, <1>3, <1>4 DEF ScoreGuess
<1>6. m + k \in Nat /\ m + k <= n + l
  BY <1>3, <1>4
<1>7. k < l => m + k < n + l
  BY <1>3
<1>. QED  BY <1>4, <1>5, <1>6, <1>7

\* Handlers.
LEMMA OldHandlers ==
    ASSUME HandlersTyped, Used \subseteq Used'
    PROVE  \A t \in tasks : Captured(t)'
BY DEF HandlersTyped, Captured

LEMMA HandlersStay ==
    ASSUME HandlersTyped, UNCHANGED <<tasks, turn>>, Used \subseteq Used'
    PROVE  HandlersTyped'
BY OldHandlers DEF HandlersTyped, Starting

LEMMA HandlerEnds ==
    ASSUME HandlersTyped, UNCHANGED turn, Used \subseteq Used', NEW t \in tasks, Finish(t)
    PROVE  HandlersTyped'
<1>1. tasks' = tasks \ {t} /\ tasks' \subseteq tasks
  BY DEF Finish
<1>2. IsFiniteSet(tasks')
  BY <1>1, FS_RemoveElement DEF HandlersTyped
<1>. QED  BY <1>1, <1>2, OldHandlers DEF HandlersTyped, Starting

LEMMA HandlerGoesOn ==
    ASSUME HandlersTyped, UNCHANGED turn, Used \subseteq Used', NEW t \in tasks, NEW u,
           Becomes(t, u), Captured(u)', u.at \in Starters => t.at \in Starters
    PROVE  HandlersTyped'
<1>1. tasks' = (tasks \ {t}) \cup {u}
  BY DEF Becomes
<1>2. IsFiniteSet(tasks \ {t})
  BY FS_RemoveElement DEF HandlersTyped
<1>3. IsFiniteSet(tasks')
  BY <1>1, <1>2, FS_AddElement
<1>4. \A x \in tasks' : Captured(x)'
  BY <1>1, OldHandlers
<1>5. Starting'
  BY <1>1 DEF HandlersTyped, Starting
<1>. QED  BY <1>3, <1>4, <1>5 DEF HandlersTyped

LEMMA HandlerStarts ==
    ASSUME HandlersTyped, UNCHANGED turn, Used \subseteq Used', NEW u, Spawn(u),
           Captured(u)', u.at \notin Starters
    PROVE  HandlersTyped'
<1>1. tasks' = tasks \cup {u}
  BY DEF Spawn
<1>2. IsFiniteSet(tasks')
  BY <1>1, FS_AddElement DEF HandlersTyped
<1>3. \A x \in tasks' : Captured(x)'
  BY <1>1, OldHandlers
<1>4. Starting'
  BY <1>1 DEF HandlersTyped, Starting
<1>. QED  BY <1>2, <1>3, <1>4 DEF HandlersTyped

LEMMA HandlerType ==
    ASSUME NEW label \in Labels, NEW p \in Players \cup {Nobody}
    PROVE  LET u == Handler(label, p)
           IN  u \in Task /\ u.at = label /\ u.player = p
<1>1. NoSnapshot \in Snapshot
  BY DEF NoSnapshot, Snapshot, Phases
<1>2. 0 \in 0..MaxTasks /\ 0 \in Turns /\ 0 \in Sockets
  BY TurnTalkAssumption DEF Turns, Sockets
<1>. QED  BY <1>1, <1>2 DEF Handler, Task, Word

\* Steps that leave the record alone.
LEMMA RecordStays ==
    ASSUME TypeInv, UNCHANGED <<room, Around>>,
           secret' \in Secret, secret'.word \in Used \cup {<< >>},
           timers' \subseteq Timers, SelectsTyped', remaining' \in 0..Total,
           view' \in [Players -> View], HandlersTyped'
    PROVE  TypeInv'
<1>1. Used' = Used
  BY DEF Used
<1>2. tasks' \subseteq Task
  BY DEF HandlersTyped, Captured
<1>. QED  BY <1>1, <1>2 DEF TypeInv, TypeOK, Around

LEMMA InitType == Init => TypeInv
<1>. SUFFICES ASSUME Init PROVE TypeInv
  OBVIOUS
<1>1. room \in Room
  <2>1. 1 \in Sockets
    BY TurnTalkAssumption DEF Sockets
  <2>2. FirstOrder \in Seq(Players) /\ << >> \in Seq(Players) /\ << >> \in Seq(Words)
    BY TurnTalkAssumption DEF SoundFor
  <2>. QED  BY <2>1, <2>2 DEF Init, Room, Phases
<1>2. secret \in Secret /\ secret.word = << >>
  BY DEF Init, NoSecret, Secret, Word
<1>3. PICK u : u = Handler("begin", Nobody)
  OBVIOUS
<1>4. u \in Task /\ u.at = "begin"
  BY <1>3, HandlerType DEF Labels
<1>5. HandlersTyped
  <2>1. tasks = {u} /\ turn = 0
    BY <1>3 DEF Init
  <2>2. IsFiniteSet(tasks)
    BY <2>1, FS_Singleton
  <2>3. 0 < MaxTurns
    BY TurnTalkAssumption
  <2>. QED  BY <1>4, <2>1, <2>2, <2>3 DEF HandlersTyped, Captured, Starting
<1>6. view \in [Players -> View]
  <2>1. ResetTurn([phase |-> room.phase, pen |-> FALSE, mask |-> << >>, myWord |-> Null,
                   guessed |-> FALSE, choices |-> FALSE]) \in View
    <3>1. room.phase \in Phases /\ << >> \in Seq(STRING \cup {Blank})
      BY <1>1 DEF Room
    <3>. QED  BY <3>1 DEF ResetTurn, View
  <2>. QED  BY <2>1 DEF Init
<1>7. SoundFor(room.drawOrder, room.players) /\ SoundFor(room.guessed, room.players)
  BY TurnTalkAssumption DEF Init, SoundFor
<1>8. /\ live \in [Players -> Sockets] /\ turn \in Turns /\ departures \in 0..MaxDepartures
      /\ remaining \in 0..Total
  BY TurnTalkAssumption DEF Init, Sockets, Turns
<1>9. timers = {} /\ bound \subseteq Players /\ back \subseteq Players /\ gone \subseteq Players
  BY DEF Init
<1>10. tasks \subseteq Task
  BY <1>5 DEF HandlersTyped, Captured
<1>. QED  BY <1>1, <1>2, <1>5, <1>6, <1>7, <1>8, <1>9, <1>10 DEF TypeInv, TypeOK, SelectsTyped

LEMMA TimerType ==
    ASSUME NEW kind \in TimerKinds, NEW p \in Players \cup {Nobody}, NEW w \in Word
    PROVE  LET x == Timer(kind, p, w) IN x \in Timers /\ x.kind = kind /\ x.player = p
BY DEF Timer, Timers

LEMMA EmptyWord == << >> \in Word /\ NoSecret \in Secret
BY DEF Word, NoSecret, Secret

\* A handler that goes on, or starts, in a step that leaves the record alone.
LEMMA SameWords == UNCHANGED room => Used' = Used
BY DEF Used

LEMMA CapturedStays == ASSUME UNCHANGED room, NEW u, Captured(u) PROVE Captured(u)'
BY SameWords DEF Captured

LEMMA DealTyped == ASSUME TypeInv, NEW t \in tasks, Deal(t) PROVE TypeInv'
<1>1. t \in Task /\ t.player \in Players /\ t.snap \in Snapshot
  BY DEF TypeInv, HandlersTyped, Captured, Deal, Task
<1>2. secret' \in Secret /\ secret'.word \in Used \cup {<< >>}
  BY DEF Deal, NoSecret, Secret, Word
<1>3. view' \in [Players -> View]
  <2>1. RoomState(t.snap) \in [Players -> View]
    BY <1>1, RoomStateType DEF TypeInv
  <2>. QED  BY <2>1, PageTypes DEF Deal
<1>4. PICK x : x = Timer("select", t.player, << >>)
  OBVIOUS
<1>5. x \in Timers /\ x.player \in Players
  BY <1>1, <1>4, TimerType, EmptyWord DEF TimerKinds
<1>6. timers' \subseteq Timers /\ SelectsTyped'
  BY <1>4, <1>5 DEF Deal, Cleared, TypeInv, TypeOK, SelectsTyped
<1>7. HandlersTyped'
  BY HandlerEnds, SameWords DEF Deal, Around, TypeInv
<1>. QED  BY <1>2, <1>3, <1>6, <1>7, RecordStays DEF Deal, TypeInv, TypeOK

\* Timers are dropped.
LEMMA FewerTimers ==
    ASSUME TypeInv, timers' \subseteq timers PROVE timers' \subseteq Timers /\ SelectsTyped'
BY DEF TypeInv, TypeOK, SelectsTyped

\* The handler that stores the word which p has chosen.
LEMMA ChoiceTyped ==
    ASSUME TypeInv, NEW p \in Players, NEW w \in Words,
           Spawn([Handler("choose", p) EXCEPT !.word = w, !.choices = secret.choices]),
           UNCHANGED <<room, Around>>
    PROVE  HandlersTyped'
<1>. DEFINE h == Handler("choose", p)
<1>1. PICK u : u = [h EXCEPT !.word = w, !.choices = secret.choices]
  OBVIOUS
<1>2. h \in Task /\ h.at = "choose" /\ h.player = p
  BY HandlerType DEF Labels
<1>3. secret.choices \in SUBSET Words
  BY DEF TypeInv, TypeOK, Secret
<1>. HIDE DEF h
<1>4. u \in Task /\ u.at = "choose" /\ u.player = p /\ u.word = w
  BY <1>1, <1>2, <1>3 DEF Task, Word
<1>5. Captured(u)'
  BY <1>4 DEF Captured
<1>. QED  BY <1>1, <1>4, <1>5, HandlerStarts, SameWords DEF TypeInv, Starters, Around, h

LEMMA ChooseTyped ==
    ASSUME TypeInv, NEW p \in Players, NEW w \in Words, ChooseWord(p, w) PROVE TypeInv'
<1>1. HandlersTyped'
  BY ChoiceTyped DEF ChooseWord
<1>2. timers' \subseteq Timers /\ SelectsTyped'
  BY FewerTimers DEF ChooseWord
<1>. QED  BY <1>1, <1>2, RecordStays DEF ChooseWord, TypeInv, TypeOK

LEMMA SelectTimeoutTyped ==
    ASSUME TypeInv, NEW s \in timers, NEW w \in Words, SelectTimeout(s, w) PROVE TypeInv'
<1>1. s.player \in Players
  BY DEF SelectTimeout, TypeInv, SelectsTyped
<1>2. HandlersTyped'
  BY <1>1, ChoiceTyped DEF SelectTimeout
<1>3. timers' \subseteq Timers /\ SelectsTyped'
  BY FewerTimers DEF SelectTimeout
<1>. QED  BY <1>2, <1>3, RecordStays DEF SelectTimeout, TypeInv, TypeOK

LEMMA SetWordTyped == ASSUME TypeInv, NEW t \in tasks, SetWord(t) PROVE TypeInv'
<1>1. t \in Task /\ t.word \in Words /\ t.word \in Used
  BY DEF TypeInv, HandlersTyped, Captured, SetWord
<1>2. secret' \in Secret /\ secret'.word \in Used \cup {<< >>}
  BY <1>1 DEF SetWord, Secret, Task, Word
<1>3. PICK u : u = [t EXCEPT !.at = "announce"]
  OBVIOUS
<1>4. u \in Task /\ u.at = "announce" /\ u.word = t.word
  BY <1>1, <1>3 DEF Task, Labels
<1>5. Captured(u)
  BY <1>1, <1>4 DEF Captured
<1>6. HandlersTyped'
  BY <1>3, <1>4, <1>5, CapturedStays, HandlerGoesOn, SameWords DEF SetWord, Around, TypeInv, Starters
<1>7. timers' \subseteq Timers /\ SelectsTyped'
  BY FewerTimers DEF SetWord
<1>. QED  BY <1>2, <1>6, <1>7, RecordStays DEF SetWord, TypeInv, TypeOK

LEMMA AnnounceTyped == ASSUME TypeInv, NEW t \in tasks, Announce(t) PROVE TypeInv'
<1>1. t \in Task /\ t.snap \in Snapshot /\ t.word \in Word
  BY DEF TypeInv, HandlersTyped, Captured, Task
<1>2. view' \in [Players -> View]
  <2>1. \A p \in Players : view[p] \in View
    BY DEF TypeInv, TypeOK
  <2>2. PICK m \in Mask : m = MaskWord(t.word, 0)
    BY <1>1, PageTypes
  <2>3. ASSUME NEW p \in Players PROVE Announced(t, p) \in View
    <3>1. SetRoom(view[p], t.snap, p) \in View
      BY <1>1, <2>1, PageTypes
    <3>2. StartTurn(SetRoom(view[p], t.snap, p), m) \in View
      BY <3>1, PageTypes
    <3>3. PICK v \in View : v = IF p \in Listening
                                THEN StartTurn(SetRoom(view[p], t.snap, p), m) ELSE view[p]
      BY <2>1, <3>2
    <3>4. SetMyWord(v, t.word) \in View
      BY <1>1, PageTypes
    <3>. QED  BY <2>2, <3>3, <3>4 DEF Announced
  <2>. QED  BY <2>3 DEF Announce
<1>3. PICK x, y : x = Timer("draw", Nobody, << >>) /\ y = Timer("hint", Nobody, t.word)
  OBVIOUS
<1>4. x \in Timers /\ x.kind = "draw" /\ y \in Timers /\ y.kind = "hint"
  <2>1. "draw" \in TimerKinds /\ "hint" \in TimerKinds /\ << >> \in Word
    BY EmptyWord DEF TimerKinds
  <2>2. x \in Timers /\ x.kind = "draw"
    BY <1>3, <2>1, TimerType
  <2>3. y \in Timers /\ y.kind = "hint"
    BY <1>1, <1>3, <2>1 DEF Timer, Timers
  <2>. QED  BY <2>2, <2>3
<1>5. timers' \subseteq timers \cup {x, y}
  BY <1>3 DEF Announce, Cleared
<1>6. timers' \subseteq Timers /\ SelectsTyped'
  BY <1>4, <1>5 DEF TypeInv, TypeOK, SelectsTyped
<1>7. HandlersTyped'
  BY HandlerEnds, SameWords DEF Announce, Around, TypeInv
<1>. QED  BY <1>2, <1>6, <1>7, RecordStays DEF Announce, TypeInv, TypeOK

LEMMA HintTyped == ASSUME TypeInv, NEW h \in timers, Hint(h) PROVE TypeInv'
<1>1. h \in Timers /\ h.word \in Word
  BY DEF TypeInv, TypeOK, Timers
<1>2. secret' \in Secret /\ secret'.word \in Used \cup {<< >>}
  BY DEF Hint, Secret, TypeInv, TypeOK
<1>3. view' \in [Players -> View]
  <2>1. PICK m \in Mask : m = MaskWord(h.word, secret'.revealed)
    BY <1>1, PageTypes
  <2>2. \A p \in Players : view[p] \in View /\ SetMasked(view[p], m) \in View
    BY PageTypes DEF TypeInv, TypeOK
  <2>. QED  BY <2>1, <2>2 DEF Hint
<1>4. timers' \subseteq Timers /\ SelectsTyped'
  BY FewerTimers DEF Hint
<1>5. HandlersTyped'
  BY HandlersStay, SameWords DEF Hint, Around, TypeInv
<1>. QED  BY <1>2, <1>3, <1>4, <1>5, RecordStays DEF Hint, TypeInv, TypeOK

LEMMA TickTyped == ASSUME TypeInv, Tick PROVE TypeInv'
<1>1. timers' \subseteq Timers /\ SelectsTyped'
  BY FewerTimers DEF Tick
<1>2. HandlersTyped'
  BY HandlersStay, SameWords DEF Tick, Around, TypeInv
<1>3. remaining' \in 0..Total
  BY TurnTalkAssumption DEF Tick, TypeInv, TypeOK
<1>. QED  BY <1>1, <1>2, <1>3, RecordStays DEF Tick, TypeInv, TypeOK

-----------------------------------------------------------------------------
\* What is typed waits in a handler of its own.
LEMMA UnusedNumber ==
    ASSUME TypeInv, Cardinality(tasks) < MaxTasks, NEW p PROVE Unused(p) \in 1..MaxTasks
<1>. DEFINE taken == {t.n : t \in tasks}
<1>1. IsFiniteSet(tasks) /\ MaxTasks \in Nat
  BY TurnTalkAssumption DEF TypeInv, HandlersTyped
<1>2. PICK f : f = [t \in tasks |-> t.n]
  OBVIOUS
<1>3. f \in Surjection(tasks, taken)
  BY <1>2 DEF Surjection
<1>4. IsFiniteSet(taken) /\ Cardinality(taken) <= Cardinality(tasks)
  BY <1>1, <1>3, FS_Surjection
<1>5. IsFiniteSet(1..MaxTasks) /\ Cardinality(1..MaxTasks) = MaxTasks
  BY <1>1, FS_Interval
<1>6. ~ (1..MaxTasks \subseteq taken)
  <2>1. ASSUME 1..MaxTasks \subseteq taken PROVE FALSE
    <3>1. Cardinality(1..MaxTasks) <= Cardinality(taken)
      BY <1>4, <2>1, FS_Subset
    <3>2. Cardinality(tasks) \in Nat /\ Cardinality(taken) \in Nat
      BY <1>1, <1>4, FS_CardinalityType
    <3>. QED  BY <1>1, <1>4, <1>5, <3>1, <3>2
  <2>. QED  BY <2>1
<1>7. \E n \in 1..MaxTasks : \A t \in tasks : t.player = p => t.n # n
  BY <1>6
<1>. QED  BY <1>7 DEF Unused

LEMMA SayTyped ==
    ASSUME TypeInv, NEW p \in Players, NEW label \in {"guess", "chat"},
           NEW text \in Guesses \cup {<< >>}, Say(label, p, text)
    PROVE  TypeInv'
<1>. DEFINE h == Handler(label, p)
            n == Unused(p)
            knows == IF p \in Insiders THEN turn ELSE 0
            typed == IF label = "guess" /\ room.phase = "DRAWING" /\ secret.word # << >>
                     THEN turn ELSE 0
<1>1. PICK u : u = [h EXCEPT !.n = n, !.text = text, !.knows = knows, !.typed = typed]
  OBVIOUS
<1>2. Spawn(u)
  BY <1>1 DEF Say, Typed
<1>3. h \in Task /\ h.at = label /\ h.player = p
  BY HandlerType DEF Labels
<1>4. n \in 0..MaxTasks
  <2>1. n \in 1..MaxTasks
    BY UnusedNumber DEF Say
  <2>. QED  BY <2>1
<1>5. knows \in Turns /\ typed \in Turns
  BY TurnTalkAssumption DEF TypeInv, TypeOK, Turns
<1>. HIDE DEF h, n, knows, typed
<1>6. u \in Task /\ u.at = label /\ u.player = p
  BY <1>1, <1>3, <1>4, <1>5 DEF Task
<1>7. Captured(u)'
  BY <1>6 DEF Captured
<1>8. HandlersTyped'
  BY <1>2, <1>6, <1>7, HandlerStarts, SameWords DEF Say, TypeInv, Starters
<1>9. timers' \subseteq Timers /\ SelectsTyped'
  BY FewerTimers DEF Say
<1>. QED  BY <1>8, <1>9, RecordStays DEF Say, TypeInv, TypeOK, Around

LEMMA GuessTyped == ASSUME TypeInv, NEW t \in tasks, Guess(t) PROVE TypeInv'
<1>1. HandlersTyped'
  <2>1. CASE Finish(t)
    BY <2>1, HandlerEnds, SameWords DEF Guess, Around, TypeInv
  <2>2. CASE ~Finish(t)
    <3>1. PICK u : u = [t EXCEPT !.at = "match", !.drawer = CurrentDrawer,
                                 !.sock = room.socket[t.player]]
      OBVIOUS
    <3>2. Becomes(t, u) /\ t.player \in room.players
      BY <2>2, <3>1 DEF Guess
    <3>3. t \in Task /\ t.player \in Players /\ room.socket[t.player] \in Sockets
      BY <3>2 DEF TypeInv, TypeOK, HandlersTyped, Captured, Room
    <3>4. CurrentDrawer \in Players \cup {Nobody}
      BY DrawerType DEF TypeInv
    <3>5. u \in Task /\ u.at = "match"
      BY <3>1, <3>3, <3>4 DEF Task, Labels
    <3>6. Captured(u)'
      BY <3>5 DEF Captured
    <3>. QED  BY <3>2, <3>5, <3>6, HandlerGoesOn, SameWords DEF Guess, TypeInv, Around, Starters
  <2>. QED  BY <2>1, <2>2
<1>2. timers' \subseteq Timers /\ SelectsTyped'
  BY FewerTimers DEF Guess
<1>. QED  BY <1>1, <1>2, RecordStays DEF Guess, TypeInv, TypeOK

LEMMA MatchTyped == ASSUME TypeInv, NEW t \in tasks, Match(t) PROVE TypeInv'
<1>. DEFINE verdict == IF secret.word = << >> THEN "wrong" ELSE ClassifyGuess(t.text, secret.word)
<1>1. HandlersTyped'
  <2>1. CASE verdict # "correct"
    <3>1. Finish(t)
      BY <2>1 DEF Match
    <3>. QED  BY <3>1, HandlerEnds, SameWords DEF Match, Around, TypeInv
  <2>2. CASE verdict = "correct"
    <3>1. PICK u : u = [t EXCEPT !.at = "credit", !.word = secret.word]
      OBVIOUS
    <3>2. Becomes(t, u) /\ secret.word # << >>
      BY <2>2, <3>1 DEF Match
    <3>3. t \in Task /\ secret.word \in Words
      BY <3>2 DEF TypeInv, TypeOK, HandlersTyped, Captured, Secret, Word
    <3>4. u \in Task /\ u.at = "credit" /\ u.word = secret.word
      BY <3>1, <3>3 DEF Task, Labels, Word
    <3>5. Captured(u)'
      BY <3>3, <3>4 DEF Captured
    <3>. QED  BY <3>2, <3>4, <3>5, HandlerGoesOn, SameWords DEF Match, TypeInv, Around, Starters
  <2>. QED  BY <2>1, <2>2
<1>2. timers' \subseteq Timers /\ SelectsTyped'
  BY FewerTimers DEF Match
<1>. QED  BY <1>1, <1>2, RecordStays DEF Match, TypeInv, TypeOK

LEMMA RouteChatTyped == ASSUME TypeInv, NEW t \in tasks, RouteChat(t) PROVE TypeInv'
<1>1. HandlersTyped'
  BY HandlerEnds, SameWords DEF RouteChat, Around, TypeInv
<1>2. timers' \subseteq Timers /\ SelectsTyped'
  BY FewerTimers DEF RouteChat
<1>. QED  BY <1>1, <1>2, RecordStays DEF RouteChat, TypeInv, TypeOK

\* A handler that ends the turn, or brings about the next.
LEMMA DrawTimeoutTyped == ASSUME TypeInv, NEW d \in timers, DrawTimeout(d) PROVE TypeInv'
<1>1. PICK u : u = Handler("end", Nobody)
  OBVIOUS
<1>2. u \in Task /\ u.at = "end"
  BY <1>1, HandlerType DEF Labels
<1>3. Captured(u)'
  BY <1>2 DEF Captured
<1>4. HandlersTyped'
  BY <1>1, <1>2, <1>3, HandlerStarts, SameWords DEF DrawTimeout, Starters, Around, TypeInv
<1>5. timers' \subseteq Timers /\ SelectsTyped'
  BY FewerTimers DEF DrawTimeout, Cleared
<1>. QED  BY <1>4, <1>5, RecordStays DEF DrawTimeout, TypeInv, TypeOK

LEMMA EndTurnTyped == ASSUME TypeInv, NEW t \in tasks, EndTurn(t) PROVE TypeInv'
<1>1. PICK u : u = [t EXCEPT !.at = "close", !.word = secret.word]
  OBVIOUS
<1>2. t \in Task /\ secret.word \in Word
  BY DEF TypeInv, TypeOK, HandlersTyped, Captured, Secret
<1>3. u \in Task /\ u.at = "close"
  BY <1>1, <1>2 DEF Task, Labels
<1>4. Captured(u)'
  BY <1>3 DEF Captured
<1>5. HandlersTyped'
  BY <1>1, <1>3, <1>4, HandlerGoesOn, SameWords DEF EndTurn, Starters, Around, TypeInv
<1>6. timers' \subseteq Timers /\ SelectsTyped'
  BY FewerTimers DEF EndTurn
<1>. QED  BY <1>5, <1>6, RecordStays DEF EndTurn, TypeInv, TypeOK

LEMMA WipeTyped == ASSUME TypeInv, NEW t \in tasks, Wipe(t) PROVE TypeInv'
<1>1. PICK x : x = Timer("roundEnd", Nobody, << >>)
  OBVIOUS
<1>2. x \in Timers /\ x.kind = "roundEnd"
  BY <1>1, TimerType, EmptyWord DEF TimerKinds
<1>3. timers' \subseteq Timers /\ SelectsTyped'
  BY <1>1, <1>2 DEF Wipe, Cleared, TypeInv, TypeOK, SelectsTyped
<1>4. secret' \in Secret /\ secret'.word \in Used \cup {<< >>}
  BY EmptyWord DEF Wipe, NoSecret
<1>5. HandlersTyped'
  BY HandlerEnds, SameWords DEF Wipe, Around, TypeInv
<1>. QED  BY <1>3, <1>4, <1>5, RecordStays DEF Wipe, TypeInv, TypeOK

LEMMA RoundEndTyped == ASSUME TypeInv, NEW s \in timers, RoundEndTimeout(s) PROVE TypeInv'
<1>1. PICK u : u = Handler("advance", Nobody)
  OBVIOUS
<1>2. u \in Task /\ u.at = "advance"
  BY <1>1, HandlerType DEF Labels
<1>3. Captured(u)'
  BY <1>2 DEF Captured
<1>4. HandlersTyped'
  <2>1. tasks' = {u} /\ turn < MaxTurns /\ turn' = turn
    BY <1>1 DEF RoundEndTimeout, Spawn, Around
  <2>2. IsFiniteSet(tasks')
    BY <2>1, FS_Singleton
  <2>. QED  BY <1>3, <2>1, <2>2 DEF HandlersTyped, Starting
<1>5. timers' \subseteq Timers /\ SelectsTyped'
  BY FewerTimers DEF RoundEndTimeout
<1>. QED  BY <1>4, <1>5, RecordStays DEF RoundEndTimeout, TypeInv, TypeOK

LEMMA LeftTyped == ASSUME TypeInv, NEW t \in tasks, Left(t) PROVE TypeInv'
<1>1. t.snap \in Snapshot
  BY DEF TypeInv, HandlersTyped, Captured, Task
<1>2. HandlersTyped'
  BY HandlerEnds, SameWords DEF Left, Around, TypeInv
<1>3. timers' \subseteq Timers /\ SelectsTyped'
  BY FewerTimers DEF Left
<1>4. view' \in [Players -> View]
  BY <1>1, RoomStateType DEF Left, TypeInv
<1>. QED  BY <1>2, <1>3, <1>4, RecordStays DEF Left, TypeInv, TypeOK

LEMMA ResumeTyped == ASSUME TypeInv, NEW t \in tasks, Resume(t) PROVE TypeInv'
<1>1. t.snap \in Snapshot
  BY DEF TypeInv, HandlersTyped, Captured, Task
<1>2. HandlersTyped'
  BY HandlerEnds, SameWords DEF Resume, Around, TypeInv
<1>3. timers' \subseteq Timers /\ SelectsTyped'
  BY FewerTimers DEF Resume
<1>4. view' \in [Players -> View]
  <2>1. RoomState(t.snap) \in [Players -> View]
    BY <1>1, RoomStateType DEF TypeInv
  <2>2. PICK m \in Mask : m = MaskWord(secret.word, secret.revealed)
    BY PageTypes DEF TypeInv, TypeOK, Secret
  <2>. QED  BY <2>1, <2>2, PageTypes DEF Resume
<1>. QED  BY <1>2, <1>3, <1>4, RecordStays DEF Resume, TypeInv, TypeOK

-----------------------------------------------------------------------------
\* Steps that write the record.
LEMMA RecordChanges ==
    ASSUME TypeInv, room' \in Room,
           SoundFor(room'.drawOrder, room'.players), SoundFor(room'.guessed, room'.players),
           secret' = secret, Used \subseteq Used',
           timers' \subseteq timers, remaining' \in 0..Total, HandlersTyped',
           live' \in [Players -> Sockets], bound' \subseteq Players,
           view' \in [Players -> View], turn' \in Turns, departures' \in 0..MaxDepartures,
           back' \subseteq Players, gone' \subseteq Players
    PROVE  TypeInv'
<1>1. tasks' \subseteq Task
  BY DEF HandlersTyped, Captured
<1>2. timers' \subseteq Timers /\ SelectsTyped'
  BY FewerTimers
<1>3. secret' \in Secret /\ secret'.word \in Used' \cup {<< >>}
  BY DEF TypeInv, TypeOK
<1>. QED  BY <1>1, <1>2, <1>3 DEF TypeInv, TypeOK

\* The words are those of the record.
LEMMA SameUsed == room'.usedWords = room.usedWords => Used' = Used
BY DEF Used

LEMMA BeginTyped == ASSUME TypeInv, NEW t \in tasks, BeginTurn(t) PROVE TypeInv'
<1>1. CASE CurrentDrawer = Nobody
  <2>1. HandlersTyped'
    BY <1>1, HandlerEnds, SameWords DEF BeginTurn, TypeInv
  <2>2. timers' \subseteq Timers /\ SelectsTyped'
    BY FewerTimers DEF BeginTurn
  <2>. QED  BY <1>1, <2>1, <2>2, RecordStays DEF BeginTurn, TypeInv, TypeOK, Around
<1>2. CASE CurrentDrawer # Nobody
  <2>. DEFINE d == CurrentDrawer
  <2>1. PICK u : u = [t EXCEPT !.at = "deal", !.player = d, !.sock = room.socket[d],
                               !.snap = Public(room')]
    OBVIOUS
  <2>2. PICK zeros \in [Players -> Nat] : zeros = [p \in Players |-> 0]
    OBVIOUS
  <2>14. PICK pen : pen = {d} \cap room.players
    OBVIOUS
  <2>3. /\ t.at = "begin" /\ turn' = turn + 1 /\ back' = {} /\ gone' = {}
        /\ Becomes(t, u)
        /\ UNCHANGED <<secret, timers, remaining, live, bound, view, departures>>
        /\ room' = [room EXCEPT !.phase = "WORD_SELECTION", !.guessed = << >>,
                                !.roundScore = zeros, !.drawing = pen]
    BY <1>2, <2>1, <2>2, <2>14 DEF BeginTurn
  <2>4. /\ room \in Room /\ d \in Players /\ pen \in SUBSET Players
        /\ << >> \in Seq(Players)
    BY <1>2, <2>14, DrawerType DEF TypeInv, TypeOK, Room
  <2>. HIDE DEF d
  <2>5. /\ room' \in Room /\ room'.players = room.players /\ room'.guessed = << >>
        /\ room'.drawOrder = room.drawOrder /\ room'.usedWords = room.usedWords
    BY <2>2, <2>3, <2>4 DEF Room, Phases
  <2>6. SoundFor(room'.drawOrder, room'.players) /\ SoundFor(room'.guessed, room'.players)
    BY <2>5, NobodyNamed DEF TypeInv, TypeOK
  <2>7. turn < MaxTurns /\ turn \in Nat
    BY <2>3, TurnTalkAssumption DEF TypeInv, TypeOK, HandlersTyped, Starting, Starters, Turns
  <2>8. turn' \in Turns
    BY <2>3, <2>7, TurnTalkAssumption DEF Turns
  <2>9. t \in Task /\ Public(room') \in Snapshot /\ room.socket[d] \in Sockets
    BY <2>4, <2>5, PublicType DEF TypeInv, HandlersTyped, Captured, Room
  <2>10. u \in Task /\ u.at = "deal" /\ u.player = d
    BY <2>1, <2>4, <2>9 DEF Task, Labels
  <2>11. HandlersTyped'
    <3>1. IsFiniteSet(tasks \ {t})
      BY FS_RemoveElement DEF TypeInv, HandlersTyped
    <3>2. tasks' = (tasks \ {t}) \cup {u}
      BY <2>3 DEF Becomes
    <3>3. IsFiniteSet(tasks')
      BY <3>1, <3>2, FS_AddElement
    <3>4. \A x \in tasks' : Captured(x)'
      BY <2>4, <2>5, <2>10, <3>2, SameUsed DEF TypeInv, HandlersTyped, Captured
    <3>5. \A x \in tasks' : x.at \notin Starters
      BY <2>3, <2>10, <3>2 DEF TypeInv, HandlersTyped, Starting, Starters
    <3>. QED  BY <3>3, <3>4, <3>5 DEF HandlersTyped, Starting
  <2>12. Used' = Used
    BY <2>5, SameUsed
  <2>. QED  BY <2>3, <2>5, <2>6, <2>8, <2>11, <2>12, RecordChanges DEF TypeInv, TypeOK
<1>. QED  BY <1>1, <1>2

LEMMA AppendUsed ==
    ASSUME TypeOK, NEW w \in Words, room'.usedWords = Append(room.usedWords, w)
    PROVE  /\ room'.usedWords \in Seq(Words) /\ Used' = Used \cup {w} /\ CurrentWord' = w
           /\ room'.usedWords # << >>
<1>1. PICK o \in Seq(Words) : o = room.usedWords
  BY DEF TypeOK, Room
<1>2. PICK n \in Nat : n = Len(o)
  BY <1>1
<1>3. /\ Append(o, w) \in Seq(Words) /\ Len(Append(o, w)) = n + 1
      /\ \A i \in 1..n : Append(o, w)[i] = o[i]
      /\ Append(o, w)[n + 1] = w
  BY <1>2
<1>4. DOMAIN o = 1..n /\ DOMAIN Append(o, w) = 1..(n + 1)
  BY <1>2, <1>3
<1>5. \A i \in 1..(n + 1) : i = n + 1 \/ i \in 1..n
  BY <1>2
<1>6. n + 1 \in 1..(n + 1) /\ \A i \in 1..n : i \in 1..(n + 1)
  BY <1>2
<1>7. Used' = Used \cup {w}
  BY <1>1, <1>3, <1>4, <1>5, <1>6 DEF Used
<1>8. CurrentWord' = w
  BY <1>1, <1>3 DEF CurrentWord
<1>9. Append(o, w) # << >>
  BY <1>3
<1>10. room'.usedWords = Append(o, w)
  BY <1>1
<1>. QED  BY <1>3, <1>7, <1>8, <1>9, <1>10

LEMMA SelectTyped == ASSUME TypeInv, NEW t \in tasks, SelectWord(t) PROVE TypeInv'
<1>. DEFINE chosen == room.phase = "WORD_SELECTION" /\ CurrentDrawer = t.player
<1>1. CASE ~chosen
  <2>1. HandlersTyped'
    BY <1>1, HandlerEnds, SameWords DEF SelectWord, TypeInv, Around
  <2>2. timers' \subseteq Timers /\ SelectsTyped'
    BY <1>1, FewerTimers DEF SelectWord
  <2>. QED  BY <1>1, <2>1, <2>2, RecordStays DEF SelectWord, TypeInv, TypeOK
<1>2. CASE chosen
  <2>1. PICK u : u = [t EXCEPT !.at = "word", !.sock = room.socket[t.player],
                               !.snap = Public(room')]
    OBVIOUS
  <2>2. /\ t.at = "choose" /\ Becomes(t, u) /\ remaining' = Total
        /\ UNCHANGED <<secret, view, Around>> /\ timers' \subseteq timers
        /\ room' = [room EXCEPT !.phase = "DRAWING",
                                !.usedWords = Append(room.usedWords, t.word)]
    BY <1>2, <2>1 DEF SelectWord, Cleared
  <2>3. t \in Task /\ t.word \in Words /\ t.player \in Players
    BY <2>2 DEF TypeInv, HandlersTyped, Captured
  <2>4. Append(room.usedWords, t.word) \in Seq(Words) /\ room \in Room
    BY <2>3 DEF TypeInv, TypeOK, Room
  <2>5. /\ room' \in Room /\ room'.players = room.players /\ room'.guessed = room.guessed
        /\ room'.drawOrder = room.drawOrder
        /\ room'.usedWords = Append(room.usedWords, t.word)
    BY <2>2, <2>4 DEF Room, Phases
  <2>6. Used' = Used \cup {t.word}
    BY <2>3, <2>5, AppendUsed DEF TypeInv
  <2>7. Public(room') \in Snapshot /\ room.socket[t.player] \in Sockets
    BY <2>3, <2>4, <2>5, PublicType DEF Room
  <2>8. u \in Task /\ u.at = "word" /\ u.word = t.word
    BY <2>1, <2>3, <2>7 DEF Task, Labels
  <2>9. Captured(u)'
    BY <2>3, <2>6, <2>8 DEF Captured
  <2>10. HandlersTyped'
    BY <2>2, <2>6, <2>8, <2>9, HandlerGoesOn DEF TypeInv, Around, Starters
  <2>11. Total \in 0..Total
    BY TurnTalkAssumption
  <2>. QED  BY <2>2, <2>5, <2>6, <2>10, <2>11, RecordChanges DEF TypeInv, TypeOK, Around
<1>. QED  BY <1>1, <1>2

LEMMA CreditTyped == ASSUME TypeInv, NEW t \in tasks, Credit(t) PROVE TypeInv'
<1>. DEFINE p == t.player
            counts == Counts(p)
<1>1. CASE ~counts
  <2>1. HandlersTyped'
    BY <1>1, HandlerEnds, SameWords DEF Credit, TypeInv, Around
  <2>2. timers' \subseteq Timers /\ SelectsTyped'
    BY <1>1, FewerTimers DEF Credit
  <2>. QED  BY <1>1, <2>1, <2>2, RecordStays DEF Credit, TypeInv, TypeOK
<1>2. CASE counts
  <2>. DEFINE points == ScoreGuess(remaining, Total, GuessOrder, DifficultyOf[t.word])
  <2>1. /\ t \in Task /\ t.word \in Words /\ room \in Room
        /\ p \in Players /\ p \in room.players /\ p \notin Guessed
    BY <1>2 DEF Credit, Counts, TypeInv, TypeOK, HandlersTyped, Captured, Room
  <2>2. points \in Nat
    <3>1. GuessOrder \in Nat
      <4>1. IsFiniteSet(Guessed \ room.drawing)
        BY GuessedType, FS_Difference DEF TypeInv
      <4>. QED  BY <4>1, FS_CardinalityType DEF GuessOrder
    <3>2. remaining \in Nat /\ DifficultyOf[t.word] \in Difficulties
      BY <2>1, TurnTalkAssumption DEF TypeInv, TypeOK
    <3>. QED  BY <3>1, <3>2, ScoreFalls
  <2>. HIDE DEF points
  <2>13. room.roundScore \in [Players -> Nat] /\ room.roundScore[p] + points \in Nat
    BY <2>1, <2>2 DEF Room
  <2>3. PICK scores \in [Players -> Nat] :
            scores = [room.roundScore EXCEPT ![p] = room.roundScore[p] + points]
    BY <2>13
  <2>4. /\ room' = [room EXCEPT !.guessed = Append(room.guessed, p), !.roundScore = scores]
        /\ UNCHANGED <<secret, remaining, Around>>
        /\ view' = [q \in Players |->
                      LET v == RoomState(Public(room'))[q]
                          w == IF q = p /\ q \in Listening THEN MarkGuessed(v) ELSE v
                      IN IF q = p /\ Reaches(t.sock, q)
                         THEN SetMyWord(MarkGuessed(w), t.word) ELSE w]
        /\ timers' \subseteq timers
        /\ Finish(t) \/ Becomes(t, Handler("end", Nobody))
    BY <1>2, <2>3 DEF Credit, Cleared, points
  <2>5. SoundFor(room.guessed, room.players)
    BY DEF TypeInv, TypeOK
  <2>6. SoundFor(Append(room.guessed, p), room.players)
    BY <2>1, <2>5, AppendSound DEF Guessed
  <2>7. Append(room.guessed, p) \in Seq(Players)
    BY <2>1 DEF Room
  <2>8. /\ room' \in Room /\ room'.players = room.players
        /\ room'.guessed = Append(room.guessed, p)
        /\ room'.drawOrder = room.drawOrder /\ room'.usedWords = room.usedWords
    BY <2>1, <2>4, <2>7 DEF Room
  <2>9. Used' = Used
    BY <2>8, SameUsed
  <2>10. view' \in [Players -> View]
    <3>1. RoomState(Public(room')) \in [Players -> View]
      BY <2>8, PublicType, RoomStateType DEF TypeInv
    <3>2. t.word \in Word
      BY <2>1 DEF Word
    <3>3. ASSUME NEW v \in View
          PROVE  MarkGuessed(v) \in View /\ SetMyWord(MarkGuessed(v), t.word) \in View
                 /\ SetMyWord(MarkGuessed(MarkGuessed(v)), t.word) \in View
      BY <3>2, PageTypes
    <3>. QED  BY <2>4, <3>1, <3>3
  <2>11. HandlersTyped'
    <3>1. CASE Finish(t)
      BY <2>4, <2>9, <3>1, HandlerEnds DEF TypeInv, Around
    <3>2. CASE Becomes(t, Handler("end", Nobody))
      <4>1. PICK u : u = Handler("end", Nobody)
        OBVIOUS
      <4>2. u \in Task /\ u.at = "end"
        BY <4>1, HandlerType DEF Labels
      <4>3. Captured(u)'
        BY <4>2 DEF Captured
      <4>. QED  BY <2>4, <2>9, <3>2, <4>1, <4>2, <4>3, HandlerGoesOn DEF TypeInv, Around, Starters
    <3>. QED  BY <2>4, <3>1, <3>2
  <2>12. SoundFor(room'.drawOrder, room'.players) /\ SoundFor(room'.guessed, room'.players)
    BY <2>6, <2>8 DEF TypeInv, TypeOK
  <2>. QED  BY <2>4, <2>8, <2>9, <2>10, <2>11, <2>12, RecordChanges DEF TypeInv, TypeOK, Around
<1>. QED  BY <1>1, <1>2

LEMMA CloseTyped == ASSUME TypeInv, NEW t \in tasks, CloseTurn(t) PROVE TypeInv'
<1>. DEFINE open == room.phase \in {"DRAWING", "WORD_SELECTION"}
<1>1. CASE ~open
  <2>1. HandlersTyped'
    BY <1>1, HandlerEnds, SameWords DEF CloseTurn, TypeInv, Around
  <2>2. timers' \subseteq Timers /\ SelectsTyped'
    BY <1>1, FewerTimers DEF CloseTurn
  <2>. QED  BY <1>1, <2>1, <2>2, RecordStays DEF CloseTurn, TypeInv, TypeOK
<1>2. CASE open
  <2>. DEFINE prize == ScoreDrawer(Cardinality(Guessed \ {CurrentDrawer}))
  <2>1. /\ t \in Task /\ t.word \in Word /\ room \in Room
        /\ room.roundScore \in [Players -> Nat]
    BY DEF TypeInv, TypeOK, HandlersTyped, Captured, Room, Task
  <2>2. prize \in Nat
    <3>1. IsFiniteSet(Guessed \ {CurrentDrawer})
      BY GuessedType, FS_Difference DEF TypeInv
    <3>2. Cardinality(Guessed \ {CurrentDrawer}) \in Nat
      BY <3>1, FS_CardinalityType
    <3>. QED  BY <3>2 DEF ScoreDrawer, Smaller, DrawerMultiplier, DrawerMaxScore
  <2>. HIDE DEF prize
  <2>13. \A p \in Players :
            (IF p = CurrentDrawer THEN room.roundScore[p] + prize ELSE room.roundScore[p]) \in Nat
    BY <2>1, <2>2
  <2>3. PICK scores \in [Players -> Nat] :
            scores = [p \in Players |-> IF p = CurrentDrawer
                                        THEN room.roundScore[p] + prize ELSE room.roundScore[p]]
    BY <2>13
  <2>4. PICK pen : pen = room.drawing \ {CurrentDrawer}
    OBVIOUS
  <2>5. PICK u : u = [t EXCEPT !.at = "wipe"]
    OBVIOUS
  <2>6. /\ room' = [room EXCEPT !.phase = "ROUND_END", !.drawing = pen, !.roundScore = scores]
        /\ UNCHANGED <<secret, timers, remaining, Around>>
        /\ view' = [p \in Players |->
                      IF p \in Listening
                      THEN EndRound(RoomState(Public(room'))[p], t.word) ELSE view[p]]
        /\ Becomes(t, u)
    BY <1>2, <2>3, <2>4, <2>5 DEF CloseTurn, prize
  <2>7. pen \in SUBSET Players
    BY <2>1, <2>4 DEF Room
  <2>8. /\ room' \in Room /\ room'.players = room.players
        /\ room'.guessed = room.guessed
        /\ room'.drawOrder = room.drawOrder /\ room'.usedWords = room.usedWords
    BY <2>1, <2>6, <2>7 DEF Room, Phases
  <2>9. Used' = Used
    BY <2>8, SameUsed
  <2>10. view' \in [Players -> View]
    <3>1. RoomState(Public(room')) \in [Players -> View]
      BY <2>8, PublicType, RoomStateType DEF TypeInv
    <3>2. view \in [Players -> View]
      BY DEF TypeInv, TypeOK
    <3>. QED  BY <2>1, <2>6, <3>1, <3>2, PageTypes
  <2>11. HandlersTyped'
    <3>1. u \in Task /\ u.at = "wipe"
      BY <2>1, <2>5 DEF Task, Labels
    <3>2. Captured(u)'
      BY <3>1 DEF Captured
    <3>. QED  BY <2>6, <2>9, <3>1, <3>2, HandlerGoesOn DEF TypeInv, Around, Starters
  <2>12. SoundFor(room'.drawOrder, room'.players) /\ SoundFor(room'.guessed, room'.players)
    BY <2>8 DEF TypeInv, TypeOK
  <2>. QED  BY <2>6, <2>8, <2>9, <2>10, <2>11, <2>12, RecordChanges DEF TypeInv, TypeOK, Around
<1>. QED  BY <1>1, <1>2

LEMMA AdvanceTyped == ASSUME TypeInv, NEW t \in tasks, AdvanceTurn(t) PROVE TypeInv'
<1>1. CASE Finish(t) /\ UNCHANGED room
  <2>1. HandlersTyped'
    BY <1>1, HandlerEnds, SameWords DEF AdvanceTurn, TypeInv, Around
  <2>2. timers' \subseteq Timers /\ SelectsTyped'
    BY FewerTimers DEF AdvanceTurn
  <2>. QED  BY <1>1, <2>1, <2>2, RecordStays DEF AdvanceTurn, TypeInv, TypeOK
<1>2. CASE ~(Finish(t) /\ UNCHANGED room)
  <2>1. PICK u : u = [t EXCEPT !.at = "begin"]
    OBVIOUS
  <2>10. PICK next \in Nat : next = room.turnPointer + 1
    BY DEF TypeInv, TypeOK, Room
  <2>2. /\ t.at = "advance" /\ Becomes(t, u)
        /\ UNCHANGED <<secret, timers, remaining, view, Around>>
        /\ room' = [room EXCEPT !.turnPointer = next]
    BY <1>2, <2>1, <2>10 DEF AdvanceTurn
  <2>3. t \in Task /\ room \in Room
    BY DEF TypeInv, TypeOK, HandlersTyped, Captured
  <2>4. /\ room' \in Room /\ room'.players = room.players
        /\ room'.guessed = room.guessed
        /\ room'.drawOrder = room.drawOrder /\ room'.usedWords = room.usedWords
    BY <2>2, <2>3 DEF Room
  <2>5. Used' = Used
    BY <2>4, SameUsed
  <2>6. u \in Task /\ u.at = "begin"
    BY <2>1, <2>3 DEF Task, Labels
  <2>7. Captured(u)'
    BY <2>6 DEF Captured
  <2>8. HandlersTyped'
    BY <2>2, <2>5, <2>6, <2>7, HandlerGoesOn DEF TypeInv, Around, Starters
  <2>9. SoundFor(room'.drawOrder, room'.players) /\ SoundFor(room'.guessed, room'.players)
    BY <2>4 DEF TypeInv, TypeOK
  <2>. QED  BY <2>2, <2>4, <2>5, <2>8, <2>9, RecordChanges DEF TypeInv, TypeOK, Around
<1>. QED  BY <1>1, <1>2

\* Connections are lost and come back, players are removed.
LEMMA LoseTyped == ASSUME TypeInv, NEW p \in Players, Lose(p) PROVE TypeInv'
<1>1. room \in Room /\ live \in [Players -> Sockets] /\ 0 \in Sockets
  BY TurnTalkAssumption DEF TypeInv, TypeOK, Sockets
<1>2. PICK others \in SUBSET Players : others = room.connected \ {p}
  BY <1>1 DEF Room
<1>3. /\ departures < MaxDepartures /\ departures' = departures + 1
      /\ live' = [live EXCEPT ![p] = 0] /\ bound' = bound \ {p}
      /\ room' = [room EXCEPT !.connected = others]
      /\ view' = [RoomState(Public(room)) EXCEPT ![p] = view[p]]
      /\ UNCHANGED <<secret, timers, remaining, tasks, turn, back, gone>>
  BY <1>2 DEF Lose
<1>4. /\ room' \in Room /\ room'.players = room.players
      /\ room'.guessed = room.guessed
      /\ room'.drawOrder = room.drawOrder /\ room'.usedWords = room.usedWords
  BY <1>1, <1>2, <1>3 DEF Room
<1>5. Used' = Used
  BY <1>4, SameUsed
<1>6. live' \in [Players -> Sockets]
  BY <1>1, <1>3
<1>7. view' \in [Players -> View]
  <2>1. RoomState(Public(room)) \in [Players -> View]
    BY <1>1, PublicType, RoomStateType DEF TypeInv
  <2>. QED  BY <1>3, <2>1 DEF TypeInv, TypeOK
<1>8. departures' \in 0..MaxDepartures
  BY <1>3, TurnTalkAssumption DEF TypeInv, TypeOK
<1>9. HandlersTyped'
  BY <1>3, <1>5, HandlersStay DEF TypeInv
<1>10. SoundFor(room'.drawOrder, room'.players) /\ SoundFor(room'.guessed, room'.players)
  BY <1>4 DEF TypeInv, TypeOK
<1>. QED  BY <1>3, <1>4, <1>5, <1>6, <1>7, <1>8, <1>9, <1>10, RecordChanges DEF TypeInv, TypeOK

LEMMA ReconnectTyped == ASSUME TypeInv, NEW p \in Players, Reconnect(p) PROVE TypeInv'
<1>1. PICK u : u = Handler("rejoin", p)
  OBVIOUS
<1>2. u \in Task /\ u.at = "rejoin" /\ u.player = p
  BY <1>1, HandlerType DEF Labels
<1>3. Captured(u)'
  BY <1>2 DEF Captured
<1>4. HandlersTyped'
  BY <1>1, <1>2, <1>3, HandlerStarts, SameWords DEF Reconnect, Starters, TypeInv
<1>5. live' \in [Players -> Sockets]
  <2>1. departures + 1 \in Sockets
    BY TurnTalkAssumption DEF TypeInv, TypeOK, Sockets
  <2>. QED  BY <2>1 DEF Reconnect, TypeInv, TypeOK
<1>6. Used' = Used
  BY SameWords DEF Reconnect
<1>. QED  BY <1>4, <1>5, <1>6, RecordChanges DEF Reconnect, TypeInv, TypeOK

LEMMA RejoinTyped == ASSUME TypeInv, NEW t \in tasks, Rejoin(t) PROVE TypeInv'
<1>. DEFINE p == t.player
<1>1. /\ room \in Room /\ live \in [Players -> Sockets] /\ t \in Task /\ p \in Players
      /\ room.socket \in [Players -> Sockets]
  BY DEF TypeInv, TypeOK, HandlersTyped, Captured, Rejoin, Room
<1>2. PICK players \in SUBSET Players, connected \in SUBSET Players :
          players = room.players \cup {p} /\ connected = room.connected \cup {p}
  BY <1>1 DEF Room
<1>3. PICK socket \in [Players -> Sockets] : socket = [room.socket EXCEPT ![p] = live[p]]
  BY <1>1
<1>4. PICK u : u = [t EXCEPT !.at = "bind", !.snap = Public(room')]
  OBVIOUS
<1>5. /\ t.at = "rejoin" /\ Becomes(t, u)
      /\ room' = [room EXCEPT !.players = players, !.connected = connected, !.socket = socket]
      /\ UNCHANGED <<secret, timers, remaining, view, Around>>
  BY <1>2, <1>3, <1>4 DEF Rejoin
<1>6. /\ room' \in Room /\ room'.players = players
      /\ room'.guessed = room.guessed
      /\ room'.drawOrder = room.drawOrder /\ room'.usedWords = room.usedWords
  BY <1>1, <1>5 DEF Room
<1>7. Used' = Used
  BY <1>6, SameUsed
<1>8. Public(room') \in Snapshot
  BY <1>6, PublicType
<1>9. u \in Task /\ u.at = "bind" /\ u.player = p
  BY <1>1, <1>4, <1>8 DEF Task, Labels
<1>10. Captured(u)'
  BY <1>1, <1>9 DEF Captured
<1>11. HandlersTyped'
  BY <1>5, <1>7, <1>9, <1>10, HandlerGoesOn DEF TypeInv, Around, Starters
<1>12. SoundFor(room'.drawOrder, room'.players) /\ SoundFor(room'.guessed, room'.players)
  BY <1>2, <1>6, SoundInMore DEF TypeInv, TypeOK
<1>. QED  BY <1>5, <1>6, <1>7, <1>11, <1>12, RecordChanges DEF TypeInv, TypeOK, Around

LEMMA BindTyped == ASSUME TypeInv, NEW t \in tasks, Bind(t) PROVE TypeInv'
<1>1. t \in Task /\ t.player \in Players
  BY DEF TypeInv, HandlersTyped, Captured, Bind
<1>2. PICK u : u = [t EXCEPT !.at = "resume"]
  OBVIOUS
<1>3. u \in Task /\ u.at = "resume"
  BY <1>1, <1>2 DEF Task, Labels
<1>4. Captured(u)'
  BY <1>3 DEF Captured
<1>5. HandlersTyped'
  BY <1>2, <1>3, <1>4, HandlerGoesOn, SameWords DEF Bind, TypeInv, Starters
<1>6. Used' = Used
  BY SameWords DEF Bind
<1>. QED  BY <1>1, <1>5, <1>6, RecordChanges DEF Bind, TypeInv, TypeOK

LEMMA RemoveTyped == ASSUME TypeInv, NEW p \in Players, Remove(p) PROVE TypeInv'
<1>1. room \in Room /\ room.roundScore \in [Players -> Nat]
  BY DEF TypeInv, TypeOK, Room
<1>2. PICK players \in SUBSET Players, connected \in SUBSET Players, drawing \in SUBSET Players :
          /\ players = room.players \ {p} /\ connected = room.connected \ {p}
          /\ drawing = room.drawing \ {p}
  BY <1>1 DEF Room
<1>3. SoundFor(Without(room.drawOrder, p), players) /\ SoundFor(Without(room.guessed, p), players)
  BY <1>2, WithoutSound DEF TypeInv, TypeOK
<1>4. PICK order \in Seq(Players), guessed \in Seq(Players) :
          order = Without(room.drawOrder, p) /\ guessed = Without(room.guessed, p)
  <2>1. SoundFor(Without(room.drawOrder, p), Players) /\ SoundFor(Without(room.guessed, p), Players)
    BY <1>2, <1>3, SoundInMore
  <2>. QED  BY <2>1 DEF SoundFor
<1>5. PICK scores \in [Players -> Nat] : scores = [room.roundScore EXCEPT ![p] = 0]
  BY <1>1
<1>6. PICK u : u = [Handler("left", p) EXCEPT !.snap = Public(room')]
  OBVIOUS
<1>7. /\ departures < MaxDepartures /\ departures' = departures + 1
      /\ room' = [room EXCEPT !.players = players, !.connected = connected,
                              !.drawOrder = order, !.drawing = drawing, !.guessed = guessed,
                              !.roundScore = scores]
      /\ bound' = bound \ {p} /\ gone' = gone \cup {p} /\ Spawn(u)
      /\ UNCHANGED <<secret, timers, remaining, live, view, turn, back>>
  BY <1>2, <1>4, <1>5, <1>6 DEF Remove
<1>8. /\ room' \in Room /\ room'.players = players /\ room'.guessed = guessed
      /\ room'.drawOrder = order /\ room'.usedWords = room.usedWords
  BY <1>1, <1>7 DEF Room
<1>9. Used' = Used
  BY <1>8, SameUsed
<1>10. PICK h \in Task : h = Handler("left", p) /\ h.at = "left"
  BY HandlerType DEF Labels
<1>11. Public(room') \in Snapshot
  BY <1>8, PublicType
<1>12. u \in Task /\ u.at = "left"
  BY <1>6, <1>10, <1>11 DEF Task
<1>13. Captured(u)'
  BY <1>12 DEF Captured
<1>14. HandlersTyped'
  BY <1>7, <1>9, <1>12, <1>13, HandlerStarts DEF TypeInv, Starters
<1>15. departures' \in 0..MaxDepartures
  BY <1>7, TurnTalkAssumption DEF TypeInv, TypeOK
<1>. QED  BY <1>3, <1>4, <1>7, <1>8, <1>9, <1>14, <1>15, RecordChanges DEF TypeInv, TypeOK

LEMMA TypeStep == ASSUME TypeInv, [Next]_vars PROVE TypeInv'
<1>1. ASSUME NEW t \in tasks, Silent(t) PROVE TypeInv'
  BY <1>1, BeginTyped, DealTyped, SelectTyped, SetWordTyped, AnnounceTyped, CreditTyped,
     EndTurnTyped, CloseTyped, WipeTyped, AdvanceTyped, RejoinTyped, BindTyped, ResumeTyped,
     LeftTyped DEF Silent
<1>2. ASSUME NEW t \in tasks, Speech(t) PROVE TypeInv'
  BY <1>2, GuessTyped, MatchTyped, RouteChatTyped DEF Speech
<1>3. CASE Event
  <2>1. ASSUME NEW x \in timers, NEW w \in Words, SelectTimeout(x, w) PROVE TypeInv'
    BY <2>1, SelectTimeoutTyped
  <2>2. ASSUME NEW x \in timers, Hint(x) \/ DrawTimeout(x) \/ RoundEndTimeout(x)
        PROVE  TypeInv'
    BY <2>2, HintTyped, DrawTimeoutTyped, RoundEndTyped
  <2>3. ASSUME NEW p \in Players, NEW w \in Words, ChooseWord(p, w) PROVE TypeInv'
    BY <2>3, ChooseTyped
  <2>4. ASSUME NEW p \in Players, (\E g \in Guesses : SubmitGuess(p, g)) \/ SendChat(p)
        PROVE  TypeInv'
    BY <2>4, SayTyped DEF SubmitGuess, SendChat
  <2>5. ASSUME NEW p \in Players, Lose(p) \/ Reconnect(p) \/ Remove(p) PROVE TypeInv'
    BY <2>5, LoseTyped, ReconnectTyped, RemoveTyped
  <2>. QED  BY <1>3, <2>1, <2>2, <2>3, <2>4, <2>5, TickTyped DEF Event
<1>4. CASE UNCHANGED vars
  <2>1. HandlersTyped'
    BY <1>4, HandlersStay, SameWords DEF vars, TypeInv
  <2>2. timers' \subseteq Timers /\ SelectsTyped'
    BY <1>4, FewerTimers DEF vars
  <2>. QED  BY <1>4, <2>1, <2>2, RecordStays DEF vars, TypeInv, TypeOK, Around
<1>. QED  BY <1>1, <1>2, <1>3, <1>4 DEF Next

THEOREM TypeCorrect == Spec => []TypeOK
<1>1. TypeInv => TypeOK
  BY DEF TypeInv
<1>. QED  BY <1>1, InitType, TypeStep, PTL DEF Spec

-----------------------------------------------------------------------------
(***************************************************************************)
(* The invariant.                                                          *)
(***************************************************************************)
\* The records have their fields, whatever is in them.
IsRoom(r) ==
    r \in [phase : {r.phase}, players : {r.players}, connected : {r.connected},
           drawOrder : {r.drawOrder}, turnPointer : {r.turnPointer}, drawing : {r.drawing},
           guessed : {r.guessed}, roundScore : {r.roundScore}, usedWords : {r.usedWords},
           socket : {r.socket}]

IsTask(t) ==
    t \in [at : {t.at}, player : {t.player}, n : {t.n}, knows : {t.knows}, typed : {t.typed},
           text : {t.text}, word : {t.word}, choices : {t.choices}, drawer : {t.drawer},
           sock : {t.sock}, snap : {t.snap}]

\* The turn order and the list of those who have guessed are sound, and the turns count up.
Sound == /\ IsRoom(room) /\ \A t \in tasks : IsTask(t)
         /\ room.phase \in Phases /\ room.turnPointer \in Nat /\ turn \in Nat
         /\ SoundFor(room.drawOrder, room.players) /\ SoundFor(room.guessed, room.players)

\* Until the first turn begins, nothing is under way that could end or start another one.
Opening == {"begin", "guess", "chat", "rejoin", "bind", "resume", "left"}
Fresh == turn = 0 => /\ room.phase = "WORD_SELECTION"
                     /\ timers = {} /\ secret.choices = {}
                     /\ \A t \in tasks : t.at \in Opening

\* Between two turns one handler, or one timer, brings about the next; in a turn, none.
Bringing == {"wipe", "advance", "begin"}
Pausing == {s \in timers : s.kind = "roundEnd"}
InPlay == room.phase # "ROUND_END" /\ turn > 0

OneSuccessor ==
    /\ \A t, u \in tasks : t.at \in Bringing /\ u.at \in Bringing => t = u
    /\ \A s, x \in Pausing : s = x
    /\ (\E t \in tasks : t.at \in Bringing) => Pausing = {}
    /\ InPlay => Pausing = {} /\ \A t \in tasks : t.at \notin Bringing

\* In a turn one player draws: the one at the turn pointer.
OneDraws == InPlay => /\ room.drawing = {CurrentDrawer}
                      /\ room.turnPointer < Len(room.drawOrder)

\* A line that was typed with the word of this turn in mind waits in a handler that has
\* not yet looked at the room, and its sender belongs to the insiders.
Speaking == {"guess", "chat"}
KnowsLess(t) ==
    /\ t.knows \in Nat /\ t.knows <= turn
    /\ turn > 0 /\ (t.at \notin Speaking \/ room.phase = "WORD_SELECTION") => t.knows < turn
    /\ (t.knows = turn /\ room.phase = "DRAWING") => t.player \in {CurrentDrawer} \cup Guessed
LinesKept == \A t \in tasks : KnowsLess(t)

TalkInv == Sound /\ Fresh /\ OneSuccessor /\ OneDraws /\ LinesKept

-----------------------------------------------------------------------------
(***************************************************************************)
(* The list of players who have guessed, and the drawer, when one leaves.  *)
(***************************************************************************)
\* Somebody who draws later than the player at an index is removed: he stays there.
LEMMA WithoutLater ==
    ASSUME NEW S, NEW o, SoundFor(o, S), NEW p, NEW n \in Nat,
           \A i \in 1..(n + 1) : i \in DOMAIN o => o[i] # p,
           n < Len(o)
    PROVE  n < Len(Without(o, p)) /\ Without(o, p)[n + 1] = o[n + 1]
<1>1. DOMAIN o = 1..Len(o) /\ Len(o) \in Nat
  BY DEF SoundFor
<1>2. CASE ~ \E k \in DOMAIN o : o[k] = p
  BY <1>2 DEF Without
<1>3. CASE \E k \in DOMAIN o : o[k] = p
  <2>. DEFINE k == CHOOSE x \in DOMAIN o : o[x] = p
              w == [x \in 1..(Len(o) - 1) |-> IF x < k THEN o[x] ELSE o[x + 1]]
  <2>1. k \in 1..Len(o) /\ o[k] = p
    BY <1>1, <1>3
  <2>2. Without(o, p) = w
    BY <1>3 DEF Without
  <2>. HIDE DEF k
  <2>3. k > n + 1
    BY <1>1, <2>1
  <2>4. n + 1 \in 1..(Len(o) - 1) /\ w[n + 1] = o[n + 1]
    BY <1>1, <2>1, <2>3
  <2>5. SoundFor(w, S \ {p}) /\ DOMAIN w = 1..(Len(o) - 1)
    BY WithoutSound, <2>2
  <2>6. DOMAIN w = 1..Len(w) /\ Len(w) \in Nat
    BY <2>5 DEF SoundFor
  <2>7. n + 1 \in 1..Len(w)
    BY <2>4, <2>5, <2>6
  <2>. QED  BY <2>2, <2>4, <2>6, <2>7
<1>. QED  BY <1>2, <1>3

\* Whom a list names.
Named(o) == {o[i] : i \in DOMAIN o}

LEMMA NamedInOrder == ASSUME NEW S, NEW o, SoundFor(o, S) PROVE Named(o) \subseteq S
BY DEF Named, SoundFor

\* Until he is removed himself, nobody is dropped from the list of those who have guessed.
LEMMA NamedWithout ==
    ASSUME NEW S, NEW o, SoundFor(o, S), NEW p, NEW q \in Named(o), q # p
    PROVE  q \in Named(Without(o, p))
<1>1. PICK i \in DOMAIN o : o[i] = q
  BY DEF Named
<1>2. PICK j \in DOMAIN Without(o, p) : Without(o, p)[j] = q
  BY <1>1, WithoutKeepsOthers
<1>. QED  BY <1>2 DEF Named

-----------------------------------------------------------------------------
(***************************************************************************)
(* A turn goes on: most steps change no more than this.                    *)
(***************************************************************************)
\* A handler that is started, or goes on.
Harmless(u) == /\ IsTask(u) /\ KnowsLess(u)
               /\ u.at \notin Bringing
               /\ turn > 0 \/ u.at \in Opening

SameTurn ==
    /\ room'.phase = room.phase /\ turn' = turn
    /\ InPlay => /\ CurrentDrawer' = CurrentDrawer /\ room'.drawing = room.drawing
                 /\ room'.turnPointer < Len(room'.drawOrder)
    /\ \A t \in tasks : t.player \in Guessed => t.player \in Guessed'

LEMMA TurnGoesOn ==
    ASSUME TalkInv, SameTurn, Sound',
           \A u \in tasks' : u \in tasks \/ Harmless(u)',
           \A s \in timers' : s \in timers \/ (turn > 0 /\ s.kind # "roundEnd"),
           turn = 0 => secret'.choices = {}
    PROVE  TalkInv'
<1>. USE DEF TalkInv, Harmless
<1>1. turn \in Nat
  BY DEF Sound
<1>2. Fresh'
  BY <1>1 DEF Fresh, SameTurn
<1>3. OneSuccessor'
  BY DEF OneSuccessor, SameTurn, Pausing, InPlay
<1>4. OneDraws'
  BY DEF OneDraws, SameTurn, InPlay
<1>5. LinesKept'
  <2>1. SUFFICES ASSUME NEW t \in tasks', t \in tasks PROVE KnowsLess(t)'
    BY DEF LinesKept
  <2>2. KnowsLess(t)
    BY <2>1 DEF LinesKept
  <2>3. ASSUME t.knows = turn, room.phase = "DRAWING"
        PROVE  t.player \in {CurrentDrawer'} \cup Guessed'
    <3>1. InPlay
      BY <1>1, <2>3 DEF InPlay, Fresh
    <3>. QED  BY <2>1, <2>2, <2>3, <3>1 DEF KnowsLess, SameTurn
  <2>. QED  BY <2>2, <2>3 DEF KnowsLess, SameTurn
<1>. QED  BY <1>2, <1>3, <1>4, <1>5

\* In particular when the record is left alone.
LEMMA RoomGoesOn ==
    ASSUME TalkInv, UNCHANGED <<room, turn>>,
           \A u \in tasks' : u \in tasks \/ Harmless(u),
           \A s \in timers' : s \in timers \/ (turn > 0 /\ s.kind # "roundEnd"),
           turn = 0 => secret'.choices = {}
    PROVE  TalkInv'
<1>1. CurrentDrawer' = CurrentDrawer /\ Guessed' = Guessed
  BY DEF CurrentDrawer, Guessed
<1>2. \A u \in tasks' : u \in tasks \/ Harmless(u)'
  BY <1>1 DEF Harmless, KnowsLess
<1>3. SameTurn
  BY <1>1 DEF SameTurn, TalkInv, OneDraws
<1>4. Sound'
  BY <1>1 DEF TalkInv, Sound, Harmless
<1>. QED  BY <1>2, <1>3, <1>4, TurnGoesOn

\* Handlers that start know nothing of the word, those that go on no more than before.
LEMMA NewHandlers ==
    ASSUME TalkInv, NEW label, NEW p
    PROVE  LET u == Handler(label, p)
           IN  IsTask(u) /\ u.at = label /\ u.player = p /\ u.knows = 0
BY DEF Handler, IsTask
\* A handler goes on without learning anything.
LEMMA HandlersGoOn ==
    ASSUME TalkInv, NEW t \in tasks, t.at \notin Speaking, NEW u, IsTask(u),
           u.knows = t.knows, u.at \notin Bringing \cup Speaking, t.at \notin Opening
    PROVE  Harmless(u)
<1>1. turn > 0
  BY DEF TalkInv, Fresh, Sound
<1>2. KnowsLess(t) /\ t.knows < turn /\ t.knows # turn
  BY <1>1 DEF TalkInv, LinesKept, KnowsLess, Sound
<1>. QED  BY <1>1, <1>2 DEF Harmless, KnowsLess

-----------------------------------------------------------------------------
(***************************************************************************)
(* Steps that leave the record alone.                                      *)
(***************************************************************************)
LEMMA Quiet == ASSUME TalkInv, UNCHANGED <<room, turn, timers, secret>>,
                      \A u \in tasks' : u \in tasks \/ Harmless(u)
               PROVE  TalkInv'
BY RoomGoesOn DEF TalkInv, Fresh

\* Somebody says something: he knows the word if he is an insider.
LEMMA SayKeeps ==
    ASSUME TalkInv, NEW p, NEW label \in Speaking, NEW text, Say(label, p, text)
    PROVE  TalkInv'
<1>. DEFINE u == Typed(label, p, text)
<1>1. /\ IsTask(u) /\ u.at = label /\ u.player = p
      /\ u.knows = IF p \in Insiders THEN turn ELSE 0
  BY DEF Typed, Handler, IsTask
<1>2. turn \in Nat /\ (room.phase = "DRAWING" => turn > 0)
  BY DEF TalkInv, Sound, Fresh
<1>3. p \in Insiders => p \in {CurrentDrawer} \cup Guessed /\ room.phase = "DRAWING"
  BY <1>2 DEF TalkInv, OneDraws, InPlay, Insiders
<1>4. KnowsLess(u)
  BY <1>1, <1>2, <1>3 DEF KnowsLess, Speaking
<1>5. Harmless(u)
  BY <1>1, <1>4 DEF Harmless, Speaking, Opening, Bringing
<1>. QED  BY <1>5, Quiet DEF Say, Spawn

\* A line is looked at, and a guess that is to be matched knows less than the word.
LEMMA SpeechKeeps == ASSUME TalkInv, NEW t \in tasks, Speech(t) PROVE TalkInv'
<1>1. CASE RouteChat(t)
  BY <1>1, Quiet DEF RouteChat, Finish, Around
<1>2. CASE Guess(t)
  <2>1. CASE tasks' = tasks \ {t}
    BY <1>2, <2>1, Quiet DEF Guess, Around
  <2>2. CASE tasks' # tasks \ {t}
    <3>. DEFINE u == [t EXCEPT !.at = "match", !.drawer = CurrentDrawer,
                               !.sock = room.socket[t.player]]
    <3>1. /\ room.phase = "DRAWING" /\ t.player # CurrentDrawer
          /\ t.player \in room.players \ Guessed
          /\ tasks' = (tasks \ {t}) \cup {u}
      BY <1>2, <2>2 DEF Guess, Finish, Becomes
    <3>2. IsTask(u) /\ u.at = "match" /\ u.player = t.player /\ u.knows = t.knows
      BY DEF TalkInv, Sound, IsTask
    <3>3. turn \in Nat /\ turn > 0
      BY <3>1 DEF TalkInv, Sound, Fresh
    <3>4. KnowsLess(t)
      BY DEF TalkInv, LinesKept
    <3>5. Harmless(u)
      BY <3>1, <3>2, <3>3, <3>4 DEF Harmless, KnowsLess, Bringing
    <3>. QED  BY <1>2, <3>1, <3>5, Quiet DEF Guess, Around
  <2>. QED  BY <2>1, <2>2
<1>3. CASE Match(t)
  <2>. DEFINE u == [t EXCEPT !.at = "credit", !.word = secret.word]
  <2>1. t.at = "match" /\ UNCHANGED <<room, secret, timers, Around>>
        /\ (tasks' = tasks \ {t} \/ tasks' = (tasks \ {t}) \cup {u})
    BY <1>3 DEF Match, Finish, Becomes
  <2>2. IsTask(u) /\ u.at = "credit" /\ u.knows = t.knows
    BY DEF TalkInv, Sound, IsTask
  <2>3. Harmless(u)
    BY <2>1, <2>2, HandlersGoOn DEF Speaking, Bringing, Opening
  <2>. QED  BY <2>1, <2>3, Quiet DEF Around
<1>. QED  BY <1>1, <1>2, <1>3 DEF Speech
\* A handler that starts knows nothing, and that is enough.
LEMMA StartsHarmless ==
    ASSUME TalkInv, NEW label, label \notin Bringing,
           turn > 0 \/ label \in Opening, NEW u, IsTask(u), u.at = label, u.knows = 0,
           turn > 0 \/ room.phase # "DRAWING"
    PROVE  Harmless(u)
BY DEF TalkInv, Sound, Harmless, KnowsLess

\* There is a word to choose only in a turn.
LEMMA ChooseKeeps ==
    ASSUME TalkInv, NEW p, NEW w,
           \/ ChooseWord(p, w)
           \/ \E s \in timers : s.player = p /\ SelectTimeout(s, w)
    PROVE  TalkInv'
<1>. DEFINE u == [Handler("choose", p) EXCEPT !.word = w, !.choices = secret.choices]
<1>1. /\ UNCHANGED <<room, secret, Around>> /\ timers' \subseteq timers
      /\ w \in secret.choices /\ tasks' = tasks \cup {u}
  BY DEF ChooseWord, SelectTimeout, Spawn
<1>2. turn \in Nat /\ turn > 0
  BY <1>1 DEF TalkInv, Sound, Fresh
<1>3. IsTask(u) /\ u.at = "choose" /\ u.knows = 0
  BY DEF Handler, IsTask
<1>4. Harmless(u)
  BY <1>2, <1>3, StartsHarmless DEF Bringing
<1>. QED  BY <1>1, <1>2, <1>4, RoomGoesOn DEF Around

\* Timers run only in a turn.
LEMMA TimersKeep ==
    ASSUME TalkInv, NEW s \in timers, Hint(s) \/ DrawTimeout(s)
    PROVE  TalkInv'
<1>1. turn \in Nat /\ turn > 0
  BY DEF TalkInv, Sound, Fresh
<1>2. CASE Hint(s)
  BY <1>1, <1>2, RoomGoesOn DEF Hint, Around
<1>3. CASE DrawTimeout(s)
  <2>. DEFINE u == Handler("end", Nobody)
  <2>1. IsTask(u) /\ u.at = "end" /\ u.knows = 0
    BY NewHandlers
  <2>2. Harmless(u)
    BY <1>1, <2>1, StartsHarmless DEF Bringing
  <2>3. /\ UNCHANGED <<room, secret, Around>> /\ timers' \subseteq timers
        /\ tasks' = tasks \cup {u}
    BY <1>3 DEF DrawTimeout, Spawn, Cleared
  <2>. QED  BY <1>1, <2>2, <2>3, RoomGoesOn DEF Around
<1>. QED  BY <1>2, <1>3

\* Handlers that go on after they have read or written the record.
LEMMA DealKeeps == ASSUME TalkInv, NEW t \in tasks, Deal(t) PROVE TalkInv'
<1>1. turn \in Nat /\ turn > 0
  BY DEF TalkInv, Sound, Fresh, Deal, Opening
<1>2. \A x \in timers' : x \in timers \/ x.kind # "roundEnd"
  BY DEF Deal, Cleared, Timer
<1>3. UNCHANGED <<room, turn>> /\ tasks' \subseteq tasks
  BY DEF Deal, Finish, Around
<1>. QED  BY <1>1, <1>2, <1>3, RoomGoesOn

LEMMA AnnounceKeeps == ASSUME TalkInv, NEW t \in tasks, Announce(t) PROVE TalkInv'
<1>1. turn \in Nat /\ turn > 0
  BY DEF TalkInv, Sound, Fresh, Announce, Opening
<1>2. \A x \in timers' : x \in timers \/ x.kind # "roundEnd"
  BY DEF Announce, Cleared, Timer
<1>3. UNCHANGED <<room, turn>> /\ tasks' \subseteq tasks
  BY DEF Announce, Finish, Around
<1>. QED  BY <1>1, <1>2, <1>3, RoomGoesOn

LEMMA GoOnKeeps ==
    ASSUME TalkInv, NEW t \in tasks, SetWord(t) \/ EndTurn(t)
    PROVE  TalkInv'
<1>1. /\ t.at \in {"word", "end"} /\ UNCHANGED <<room, timers, Around>>
      /\ tasks' = (tasks \ {t}) \cup
                   {IF t.at = "word" THEN [t EXCEPT !.at = "announce"]
                    ELSE [t EXCEPT !.at = "close", !.word = secret.word]}
  BY DEF SetWord, EndTurn, Becomes
<1>2. turn \in Nat /\ turn > 0
  BY <1>1 DEF TalkInv, Sound, Fresh, Opening
<1>3. /\ IsTask([t EXCEPT !.at = "announce"])
      /\ [t EXCEPT !.at = "announce"].at = "announce"
      /\ [t EXCEPT !.at = "announce"].knows = t.knows
  BY DEF TalkInv, Sound, IsTask
<1>4. /\ IsTask([t EXCEPT !.at = "close", !.word = secret.word])
      /\ [t EXCEPT !.at = "close", !.word = secret.word].at = "close"
      /\ [t EXCEPT !.at = "close", !.word = secret.word].knows = t.knows
  BY DEF TalkInv, Sound, IsTask
<1>5. /\ Harmless([t EXCEPT !.at = "announce"])
      /\ Harmless([t EXCEPT !.at = "close", !.word = secret.word])
  BY <1>1, <1>3, <1>4, HandlersGoOn DEF Opening, Bringing, Speaking
<1>. QED  BY <1>1, <1>2, <1>5, RoomGoesOn DEF Around
-----------------------------------------------------------------------------
(***************************************************************************)
(* Connections and players come and go.                                    *)
(***************************************************************************)
\* A handler of a connection says nothing, and goes on in any phase.
LEMMA ArrivalGoesOn ==
    ASSUME TalkInv, NEW t \in tasks, t.at \in {"rejoin", "bind"}, NEW u, IsTask(u),
           u.at \in {"bind", "resume"}, u.knows = t.knows, u.player = t.player
    PROVE  Harmless(u)
<1>1. KnowsLess(t) /\ t.at \notin Speaking /\ u.at \notin Speaking
  BY DEF TalkInv, LinesKept, Speaking
<1>2. turn \in Nat /\ (turn > 0 \/ u.at \in Opening) /\ u.at \notin Bringing
  BY DEF TalkInv, Sound, Opening, Bringing
<1>. QED  BY <1>1, <1>2 DEF Harmless, KnowsLess

LEMMA ConnectionKeeps ==
    ASSUME TalkInv, \/ \E p : Reconnect(p)
                    \/ \E t \in tasks : Bind(t) \/ Resume(t) \/ Left(t)
                    \/ Tick
    PROVE  TalkInv'
<1>1. ASSUME NEW p, Reconnect(p) PROVE TalkInv'
  <2>. DEFINE u == Handler("rejoin", p)
  <2>1. IsTask(u) /\ u.at = "rejoin" /\ u.knows = 0
    BY NewHandlers
  <2>2. turn \in Nat /\ (turn > 0 \/ room.phase # "DRAWING")
    BY DEF TalkInv, Sound, Fresh
  <2>3. Harmless(u)
    BY <2>1, <2>2, StartsHarmless DEF Bringing, Opening
  <2>. QED  BY <1>1, <2>3, Quiet DEF Reconnect, Spawn
<1>2. ASSUME NEW t \in tasks, Bind(t) PROVE TalkInv'
  <2>. DEFINE u == [t EXCEPT !.at = "resume"]
  <2>1. IsTask(u) /\ u.at = "resume" /\ u.knows = t.knows /\ u.player = t.player
    BY DEF TalkInv, Sound, IsTask
  <2>2. Harmless(u)
    BY <1>2, <2>1, ArrivalGoesOn DEF Bind
  <2>. QED  BY <1>2, <2>2, Quiet DEF Bind, Becomes
<1>3. ASSUME NEW t \in tasks, Resume(t) \/ Left(t) PROVE TalkInv'
  BY <1>3, Quiet DEF Resume, Left, Finish, Around
<1>4. CASE Tick
  BY <1>4, Quiet DEF Tick, Around
<1>. QED  BY <1>1, <1>2, <1>3, <1>4

\* The flag of a lost connection is no part of the turn.
LEMMA LoseKeeps == ASSUME TalkInv, NEW p, Lose(p) PROVE TalkInv'
<1>1. /\ room' = [room EXCEPT !.connected = @ \ {p}]
      /\ UNCHANGED <<secret, timers, tasks, turn>>
  BY DEF Lose
<1>2. /\ IsRoom(room')
      /\ room'.phase = room.phase /\ room'.drawing = room.drawing
      /\ room'.players = room.players /\ room'.drawOrder = room.drawOrder
      /\ room'.turnPointer = room.turnPointer /\ room'.guessed = room.guessed
  BY <1>1 DEF TalkInv, Sound, IsRoom
<1>3. CurrentDrawer' = CurrentDrawer /\ Guessed' = Guessed
  BY <1>2 DEF CurrentDrawer, Guessed
<1>4. Sound' /\ SameTurn
  BY <1>1, <1>2, <1>3 DEF TalkInv, Sound, SameTurn, OneDraws
<1>. QED  BY <1>1, <1>4, TurnGoesOn DEF TalkInv, Fresh

\* Whoever joins again is a player, and no more.
LEMMA RejoinKeeps == ASSUME TalkInv, NEW t \in tasks, Rejoin(t) PROVE TalkInv'
<1>. DEFINE p == t.player
<1>0. PICK u : u = [t EXCEPT !.at = "bind", !.snap = Public(room')]
  OBVIOUS
<1>1. /\ t.at = "rejoin"
      /\ room' = [room EXCEPT !.players = @ \cup {p}, !.connected = @ \cup {p},
                              !.socket = [room.socket EXCEPT ![p] = live[p]]]
      /\ tasks' = (tasks \ {t}) \cup {u} /\ UNCHANGED <<secret, timers, turn>>
  BY <1>0 DEF Rejoin, Becomes, Around
<1>2. /\ IsRoom(room')
      /\ room'.phase = room.phase /\ room'.drawing = room.drawing
      /\ room'.players = room.players \cup {p} /\ room'.drawOrder = room.drawOrder
      /\ room'.turnPointer = room.turnPointer /\ room'.guessed = room.guessed
  BY <1>1 DEF TalkInv, Sound, IsRoom
<1>3. CurrentDrawer' = CurrentDrawer /\ Guessed' = Guessed
  BY <1>2 DEF CurrentDrawer, Guessed
<1>4. IsTask(u) /\ u.at = "bind" /\ u.knows = t.knows /\ u.player = t.player
  BY <1>0 DEF TalkInv, Sound, IsTask
<1>5. Harmless(u)
  BY <1>1, <1>4, ArrivalGoesOn
<1>6. Harmless(u)'
  BY <1>1, <1>2, <1>3, <1>5 DEF Harmless, KnowsLess
<1>7. SoundFor(room'.drawOrder, room'.players) /\ SoundFor(room'.guessed, room'.players)
  BY <1>2, SoundInMore DEF TalkInv, Sound
<1>8. Sound' /\ SameTurn
  BY <1>1, <1>2, <1>3, <1>4, <1>7 DEF TalkInv, Sound, SameTurn, OneDraws
<1>. QED  BY <1>1, <1>6, <1>8, TurnGoesOn DEF TalkInv, Fresh

\* Nobody is removed who draws up to this turn, and nobody who has a line that waits.
LEMMA RemoveKeeps ==
    ASSUME TalkInv, Shifts = FALSE, Overlap = FALSE, NEW p, Remove(p)
    PROVE  TalkInv'
<1>0. PICK u : u = [Handler("left", p) EXCEPT !.snap = Public(room')]
  OBVIOUS
<1>1. /\ room' = [room EXCEPT !.players = @ \ {p}, !.connected = @ \ {p},
                              !.drawOrder = Without(@, p), !.drawing = @ \ {p},
                              !.guessed = Without(@, p),
                              !.roundScore = [room.roundScore EXCEPT ![p] = 0]]
      /\ \A i \in 1..(room.turnPointer + 1) :
            i \in DOMAIN room.drawOrder => room.drawOrder[i] # p
      /\ \A t \in tasks : t.player # p
      /\ tasks' = tasks \cup {u} /\ UNCHANGED <<secret, timers, turn>>
  BY <1>0 DEF Remove, Spawn
<1>2. /\ IsRoom(room')
      /\ room'.phase = room.phase /\ room'.drawing = room.drawing \ {p}
      /\ room'.players = room.players \ {p}
      /\ room'.drawOrder = Without(room.drawOrder, p)
      /\ room'.turnPointer = room.turnPointer
      /\ room'.guessed = Without(room.guessed, p)
  BY <1>1 DEF TalkInv, Sound, IsRoom
<1>3. /\ SoundFor(room.drawOrder, room.players) /\ SoundFor(room.guessed, room.players)
      /\ room.turnPointer \in Nat /\ turn \in Nat
  BY DEF TalkInv, Sound
<1>4. SoundFor(room'.drawOrder, room'.players) /\ SoundFor(room'.guessed, room'.players)
  BY <1>2, <1>3, WithoutSound
<1>5. ASSUME InPlay
      PROVE  /\ CurrentDrawer' = CurrentDrawer /\ room'.drawing = room.drawing
             /\ room'.turnPointer < Len(room'.drawOrder)
  <2>1. room.drawing = {CurrentDrawer} /\ room.turnPointer < Len(room.drawOrder)
    BY <1>5 DEF TalkInv, OneDraws
  <2>2. /\ room.turnPointer < Len(room'.drawOrder)
        /\ room'.drawOrder[room.turnPointer + 1] = room.drawOrder[room.turnPointer + 1]
    <3>. DEFINE n == room.turnPointer
                o == room.drawOrder
    <3>1. /\ SoundFor(o, room.players) /\ n \in Nat /\ n < Len(o)
          /\ \A i \in 1..(n + 1) : i \in DOMAIN o => o[i] # p
      BY <1>1, <1>3, <2>1
    <3>. HIDE DEF n, o
    <3>2. n < Len(Without(o, p)) /\ Without(o, p)[n + 1] = o[n + 1]
      BY <3>1, WithoutLater
    <3>. QED  BY <1>2, <3>2 DEF n, o
  <2>3. CurrentDrawer' = CurrentDrawer
    BY <1>2, <2>1, <2>2 DEF CurrentDrawer
  <2>4. room.turnPointer + 1 \in DOMAIN room.drawOrder
    BY <1>3, <2>1 DEF SoundFor
  <2>5. CurrentDrawer # p
    BY <1>1, <1>3, <2>1, <2>4 DEF CurrentDrawer
  <2>. QED  BY <1>2, <2>1, <2>2, <2>3, <2>5
<1>6. ASSUME NEW t \in tasks, t.player \in Guessed PROVE t.player \in Guessed'
  <2>1. t.player \in Named(room.guessed) /\ t.player # p
    BY <1>1, <1>6 DEF Guessed, Named
  <2>2. t.player \in Named(Without(room.guessed, p))
    BY <1>3, <2>1, NamedWithout
  <2>. QED  BY <1>2, <2>2 DEF Guessed, Named
<1>7. IsTask(u) /\ u.at = "left" /\ u.knows = 0 /\ u.player = p
  BY <1>0 DEF Handler, IsTask
<1>8. SameTurn
  BY <1>1, <1>2, <1>5, <1>6 DEF SameTurn
<1>9. Sound'
  BY <1>1, <1>2, <1>4, <1>7 DEF TalkInv, Sound
<1>10. Harmless(u)
  <2>1. turn > 0 \/ room.phase # "DRAWING"
    BY <1>3 DEF TalkInv, Fresh
  <2>. QED  BY <1>7, <2>1, StartsHarmless DEF Bringing, Opening
<1>11. Harmless(u)'
  <2>1. u.knows = turn => turn = 0
    BY <1>7
  <2>2. room.phase = "DRAWING" => turn > 0
    BY <1>3 DEF TalkInv, Fresh
  <2>. QED  BY <1>1, <1>2, <1>3, <1>10, <2>1, <2>2 DEF Harmless, KnowsLess
<1>. QED  BY <1>1, <1>8, <1>9, <1>11, TurnGoesOn DEF TalkInv, Fresh
\* A right guess is counted.
LEMMA CreditKeeps == ASSUME TalkInv, NEW t \in tasks, Credit(t) PROVE TalkInv'
<1>1. turn \in Nat /\ turn > 0
  BY DEF TalkInv, Sound, Fresh, Credit, Opening
<1>2. CASE ~Counts(t.player)
  BY <1>2, Quiet DEF Credit, Finish, Around
<1>3. CASE Counts(t.player)
  <2>. DEFINE p == t.player
              u == Handler("end", Nobody)
  <2>1. /\ p \in room.players /\ p \notin Guessed
        /\ UNCHANGED <<secret, turn>> /\ timers' \subseteq timers
        /\ tasks' \subseteq tasks \cup {u}
        /\ \E scores : room' = [room EXCEPT !.guessed = Append(room.guessed, p),
                                           !.roundScore = scores]
    BY <1>3 DEF Credit, Counts, Becomes, Finish, Cleared, Around
  <2>2. /\ IsRoom(room')
        /\ room'.phase = room.phase /\ room'.drawing = room.drawing
        /\ room'.players = room.players /\ room'.drawOrder = room.drawOrder
        /\ room'.turnPointer = room.turnPointer
        /\ room'.guessed = Append(room.guessed, p)
    BY <2>1 DEF TalkInv, Sound, IsRoom
  <2>3. SoundFor(room.guessed, room.players)
    BY DEF TalkInv, Sound
  <2>4. /\ SoundFor(room'.guessed, room'.players)
        /\ \A i \in DOMAIN room.guessed :
              i \in DOMAIN room'.guessed /\ room'.guessed[i] = room.guessed[i]
    BY <2>1, <2>2, <2>3, AppendSound DEF Guessed
  <2>5. CurrentDrawer' = CurrentDrawer /\ Guessed \subseteq Guessed'
    BY <2>2, <2>4 DEF CurrentDrawer, Guessed
  <2>6. IsTask(u) /\ u.at = "end" /\ u.knows = 0
    BY NewHandlers
  <2>7. Harmless(u)'
    BY <1>1, <2>1, <2>6 DEF Harmless, KnowsLess, Bringing
  <2>8. Sound' /\ SameTurn
    BY <2>1, <2>2, <2>4, <2>5, <2>6 DEF TalkInv, Sound, SameTurn, OneDraws
  <2>. QED  BY <1>1, <2>1, <2>7, <2>8, TurnGoesOn
<1>. QED  BY <1>2, <1>3
-----------------------------------------------------------------------------
(***************************************************************************)
(* Turns begin and end.                                                    *)
(***************************************************************************)
\* The one who is to draw gets the pen, and no line knows the word to come.
LEMMA BeginKeeps == ASSUME TalkInv, NEW t \in tasks, BeginTurn(t) PROVE TalkInv'
<1>1. CASE CurrentDrawer = Nobody
  BY <1>1, Quiet DEF BeginTurn, Finish
<1>2. CASE CurrentDrawer # Nobody
  <2>. DEFINE d == CurrentDrawer
  <2>0. PICK u : u = [t EXCEPT !.at = "deal", !.player = d, !.sock = room.socket[d],
                               !.snap = Public(room')]
    OBVIOUS
  <2>1. /\ t.at = "begin" /\ turn' = turn + 1 /\ UNCHANGED <<secret, timers>>
        /\ tasks' = (tasks \ {t}) \cup {u}
        /\ \E scores : room' = [room EXCEPT !.phase = "WORD_SELECTION", !.guessed = << >>,
                                           !.roundScore = scores,
                                           !.drawing = {d} \cap room.players]
    BY <1>2, <2>0 DEF BeginTurn, Becomes
  <2>2. /\ IsRoom(room')
        /\ room'.phase = "WORD_SELECTION" /\ room'.drawing = {d} \cap room.players
        /\ room'.players = room.players /\ room'.drawOrder = room.drawOrder
        /\ room'.turnPointer = room.turnPointer /\ room'.guessed = << >>
    BY <2>1 DEF TalkInv, Sound, IsRoom
  <2>3. CurrentDrawer' = d
    BY <2>2 DEF CurrentDrawer
  <2>4. /\ turn \in Nat /\ room.turnPointer \in Nat
        /\ SoundFor(room.drawOrder, room.players)
    BY DEF TalkInv, Sound
  <2>5. room.turnPointer < Len(room.drawOrder) /\ d \in room.players
    BY <1>2, <2>4 DEF CurrentDrawer, SoundFor
  <2>6. IsTask(u) /\ u.at = "deal" /\ u.knows = t.knows
    BY <2>0 DEF TalkInv, Sound, IsTask
  <2>7. \A x \in tasks : x.knows \in Nat /\ x.knows <= turn
    BY DEF TalkInv, LinesKept, KnowsLess
  <2>8. Sound'
    BY <2>1, <2>2, <2>4, <2>6, NobodyNamed DEF TalkInv, Sound, Phases
  <2>9. Fresh' /\ turn' > 0
    BY <2>1, <2>4 DEF Fresh
  <2>10. OneSuccessor'
    BY <2>1, <2>6 DEF TalkInv, OneSuccessor, Pausing, Bringing
  <2>11. OneDraws'
    BY <2>2, <2>3, <2>5 DEF OneDraws
  <2>12. LinesKept'
    BY <2>1, <2>2, <2>4, <2>6, <2>7 DEF LinesKept, KnowsLess
  <2>. QED  BY <2>8, <2>9, <2>10, <2>11, <2>12 DEF TalkInv
<1>. QED  BY <1>1, <1>2

\* The word is chosen in the turn that was dealt, and no line knows it.
LEMMA SelectKeeps == ASSUME TalkInv, NEW t \in tasks, SelectWord(t) PROVE TalkInv'
<1>1. CASE ~(room.phase = "WORD_SELECTION" /\ CurrentDrawer = t.player)
  BY <1>1, Quiet DEF SelectWord, Finish, Around
<1>2. CASE room.phase = "WORD_SELECTION" /\ CurrentDrawer = t.player
  <2>0. PICK u : u = [t EXCEPT !.at = "word", !.sock = room.socket[t.player],
                               !.snap = Public(room')]
    OBVIOUS
  <2>1. /\ t.at = "choose" /\ UNCHANGED <<secret, turn>> /\ timers' \subseteq timers
        /\ tasks' = (tasks \ {t}) \cup {u}
        /\ \E words : room' = [room EXCEPT !.phase = "DRAWING", !.usedWords = words]
    BY <1>2, <2>0 DEF SelectWord, Becomes, Cleared, Around
  <2>2. /\ IsRoom(room')
        /\ room'.phase = "DRAWING" /\ room'.drawing = room.drawing
        /\ room'.players = room.players /\ room'.drawOrder = room.drawOrder
        /\ room'.turnPointer = room.turnPointer /\ room'.guessed = room.guessed
    BY <2>1 DEF TalkInv, Sound, IsRoom
  <2>3. CurrentDrawer' = CurrentDrawer
    BY <2>2 DEF CurrentDrawer
  <2>4. turn \in Nat /\ turn > 0
    BY <2>1 DEF TalkInv, Sound, Fresh, Opening
  <2>5. IsTask(u) /\ u.at = "word" /\ u.knows = t.knows
    BY <2>0 DEF TalkInv, Sound, IsTask
  <2>6. Sound'
    BY <2>1, <2>2, <2>5 DEF TalkInv, Sound, Phases
  <2>7. Fresh'
    BY <2>1, <2>4 DEF Fresh
  <2>8. OneSuccessor'
    BY <1>2, <2>1, <2>4, <2>5 DEF TalkInv, OneSuccessor, Pausing, Bringing, InPlay
  <2>9. OneDraws'
    BY <1>2, <2>2, <2>3, <2>4 DEF TalkInv, OneDraws, InPlay
  <2>10. \A x \in tasks : x.knows \in Nat /\ x.knows < turn
    BY <1>2, <2>4 DEF TalkInv, LinesKept, KnowsLess
  <2>11. LinesKept'
    BY <2>1, <2>4, <2>5, <2>10 DEF LinesKept, KnowsLess
  <2>. QED  BY <2>6, <2>7, <2>8, <2>9, <2>11 DEF TalkInv
<1>. QED  BY <1>1, <1>2

\* The turn is over: the handler that closed it brings about the next.
LEMMA CloseKeeps == ASSUME TalkInv, NEW t \in tasks, CloseTurn(t) PROVE TalkInv'
<1>1. CASE room.phase \notin {"DRAWING", "WORD_SELECTION"}
  BY <1>1, Quiet DEF CloseTurn, Finish, Around
<1>2. CASE room.phase \in {"DRAWING", "WORD_SELECTION"}
  <2>0. PICK u : u = [t EXCEPT !.at = "wipe"]
    OBVIOUS
  <2>1. /\ t.at = "close" /\ UNCHANGED <<secret, timers, turn>>
        /\ tasks' = (tasks \ {t}) \cup {u}
        /\ \E drawing, scores : room' = [room EXCEPT !.phase = "ROUND_END",
                                                     !.drawing = drawing,
                                                     !.roundScore = scores]
    BY <1>2, <2>0 DEF CloseTurn, Becomes, Around
  <2>2. /\ IsRoom(room')
        /\ room'.phase = "ROUND_END"
        /\ room'.players = room.players /\ room'.drawOrder = room.drawOrder
        /\ room'.turnPointer = room.turnPointer /\ room'.guessed = room.guessed
    BY <2>1 DEF TalkInv, Sound, IsRoom
  <2>3. turn \in Nat /\ turn > 0
    BY <2>1 DEF TalkInv, Sound, Fresh, Opening
  <2>4. IsTask(u) /\ u.at = "wipe" /\ u.knows = t.knows
    BY <2>0 DEF TalkInv, Sound, IsTask
  <2>5. Sound'
    BY <2>1, <2>2, <2>4 DEF TalkInv, Sound, Phases
  <2>6. Fresh' /\ OneDraws'
    BY <2>1, <2>2, <2>3 DEF Fresh, OneDraws, InPlay
  <2>7. OneSuccessor'
    BY <1>2, <2>1, <2>2, <2>3 DEF TalkInv, OneSuccessor, Pausing, InPlay
  <2>8. KnowsLess(t) /\ t.knows < turn
    BY <2>1, <2>3 DEF TalkInv, LinesKept, KnowsLess, Speaking
  <2>9. LinesKept'
    <3>1. ASSUME NEW x \in tasks PROVE KnowsLess(x)'
      BY <2>1, <2>2 DEF TalkInv, LinesKept, KnowsLess
    <3>2. KnowsLess(u)'
      BY <2>1, <2>2, <2>4, <2>8 DEF KnowsLess
    <3>. QED  BY <2>1, <3>1, <3>2 DEF LinesKept
  <2>. QED  BY <2>5, <2>6, <2>7, <2>9 DEF TalkInv
<1>. QED  BY <1>1, <1>2
\* The pause: the handler leaves a timer behind ...
LEMMA WipeKeeps == ASSUME TalkInv, NEW t \in tasks, Wipe(t) PROVE TalkInv'
<1>. DEFINE s == Timer("roundEnd", Nobody, << >>)
<1>1. /\ t.at = "wipe" /\ UNCHANGED <<room, turn>> /\ tasks' = tasks \ {t}
      /\ timers' = {x \in timers : x.kind # "roundEnd"} \cup {s}
  BY DEF Wipe, Finish, Cleared, Around
<1>2. CurrentDrawer' = CurrentDrawer /\ Guessed' = Guessed
  BY <1>1 DEF CurrentDrawer, Guessed
<1>3. turn \in Nat /\ turn > 0 /\ ~InPlay
  BY <1>1 DEF TalkInv, Sound, Fresh, Opening, OneSuccessor, Bringing
<1>4. Sound' /\ Fresh' /\ OneDraws' /\ LinesKept'
  BY <1>1, <1>2, <1>3 DEF TalkInv, Sound, Fresh, OneDraws, InPlay, LinesKept, KnowsLess
<1>5. Pausing' \subseteq {s} /\ ~InPlay'
  BY <1>1, <1>3 DEF Pausing, InPlay
<1>6. \A x \in tasks' : x.at \notin Bringing
  BY <1>1 DEF TalkInv, OneSuccessor, Bringing
<1>. QED  BY <1>4, <1>5, <1>6 DEF TalkInv, OneSuccessor

\* ... and the timer starts a handler.
LEMMA PauseKeeps ==
    ASSUME TalkInv, NEW s \in timers, RoundEndTimeout(s)
    PROVE  TalkInv'
<1>. DEFINE u == Handler("advance", Nobody)
<1>1. /\ s \in Pausing /\ UNCHANGED <<room, secret, turn>> /\ timers' = timers \ {s}
      /\ tasks = {} /\ tasks' = {u}
  BY DEF RoundEndTimeout, Pausing, Spawn, Around
<1>2. CurrentDrawer' = CurrentDrawer /\ Guessed' = Guessed
  BY <1>1 DEF CurrentDrawer, Guessed
<1>3. IsTask(u) /\ u.at = "advance" /\ u.knows = 0
  BY NewHandlers
<1>4. turn \in Nat /\ turn > 0 /\ ~InPlay
  BY <1>1 DEF TalkInv, Sound, Fresh, OneSuccessor
<1>5. Sound' /\ Fresh' /\ OneDraws' /\ LinesKept'
  BY <1>1, <1>2, <1>3, <1>4 DEF TalkInv, Sound, Fresh, OneDraws, InPlay, LinesKept, KnowsLess
<1>6. Pausing' = {} /\ ~InPlay'
  BY <1>1, <1>4 DEF TalkInv, OneSuccessor, Pausing, InPlay
<1>. QED  BY <1>1, <1>5, <1>6 DEF TalkInv, OneSuccessor

\* The turn pointer moves in the pause, when nobody draws.
LEMMA AdvanceKeeps == ASSUME TalkInv, NEW t \in tasks, AdvanceTurn(t) PROVE TalkInv'
<1>1. CASE tasks' = tasks \ {t} /\ UNCHANGED room
  BY <1>1, Quiet DEF AdvanceTurn, Around
<1>2. CASE ~(tasks' = tasks \ {t} /\ UNCHANGED room)
  <2>0. PICK u : u = [t EXCEPT !.at = "begin"]
    OBVIOUS
  <2>1. /\ t.at = "advance" /\ UNCHANGED <<secret, timers, turn>>
        /\ tasks' = (tasks \ {t}) \cup {u}
        /\ room' = [room EXCEPT !.turnPointer = room.turnPointer + 1]
    BY <1>2, <2>0 DEF AdvanceTurn, Becomes, Finish, Around
  <2>2. /\ IsRoom(room') /\ room'.turnPointer = room.turnPointer + 1
        /\ room'.phase = room.phase /\ room'.drawing = room.drawing
        /\ room'.players = room.players /\ room'.drawOrder = room.drawOrder
        /\ room'.guessed = room.guessed
    BY <2>1 DEF TalkInv, Sound, IsRoom
  <2>3. /\ turn \in Nat /\ turn > 0 /\ room.turnPointer \in Nat
        /\ room.phase = "ROUND_END" /\ ~InPlay
    BY <2>1 DEF TalkInv, Sound, Fresh, Opening, OneSuccessor, Bringing, InPlay
  <2>4. IsTask(u) /\ u.at = "begin" /\ u.knows = t.knows
    BY <2>0 DEF TalkInv, Sound, IsTask
  <2>5. Sound'
    BY <2>1, <2>2, <2>3, <2>4 DEF TalkInv, Sound
  <2>6. Fresh' /\ OneDraws' /\ ~InPlay'
    BY <2>1, <2>2, <2>3 DEF Fresh, OneDraws, InPlay
  <2>7. OneSuccessor'
    BY <2>1, <2>4, <2>6 DEF TalkInv, OneSuccessor, Pausing, Bringing
  <2>8. KnowsLess(t) /\ t.knows < turn
    BY <2>1, <2>3 DEF TalkInv, LinesKept, KnowsLess, Speaking
  <2>9. LinesKept'
    <3>1. ASSUME NEW x \in tasks PROVE KnowsLess(x)'
      BY <2>1, <2>2, <2>3 DEF TalkInv, LinesKept, KnowsLess
    <3>2. KnowsLess(u)'
      BY <2>1, <2>2, <2>3, <2>4, <2>8 DEF KnowsLess
    <3>. QED  BY <2>1, <3>1, <3>2 DEF LinesKept
  <2>. QED  BY <2>5, <2>6, <2>7, <2>9 DEF TalkInv
<1>. QED  BY <1>1, <1>2

-----------------------------------------------------------------------------
(***************************************************************************)
(* The invariant holds, and what is overheard tells nothing.               *)
(***************************************************************************)
LEMMA TalkInit == Init => TalkInv
<1>. SUFFICES ASSUME Init PROVE TalkInv
  OBVIOUS
<1>1. /\ room.phase = "WORD_SELECTION" /\ room.turnPointer = 0 /\ turn = 0
      /\ room.drawOrder = FirstOrder /\ room.players = Players /\ room.guessed = << >>
      /\ IsRoom(room)
  BY DEF Init, IsRoom
<1>2. \A t \in tasks : IsTask(t) /\ t.at = "begin" /\ t.knows = 0
  BY DEF Init, Handler, IsTask
<1>3. timers = {} /\ secret.choices = {} /\ \A t, u \in tasks : t = u
  BY DEF Init, NoSecret
<1>4. Sound
  BY <1>1, <1>2, NobodyNamed, TurnTalkAssumption DEF Sound, Phases
<1>5. Fresh /\ OneSuccessor /\ OneDraws /\ LinesKept
  BY <1>1, <1>2, <1>3 DEF Fresh, Opening, OneSuccessor, Pausing, InPlay, OneDraws,
     LinesKept, KnowsLess
<1>. QED  BY <1>4, <1>5 DEF TalkInv

LEMMA TalkStep ==
    ASSUME Shifts = FALSE, Overlap = FALSE, TalkInv, Next
    PROVE  TalkInv'
<1>1. ASSUME NEW t \in tasks, Silent(t) PROVE TalkInv'
  BY <1>1, BeginKeeps, DealKeeps, SelectKeeps, GoOnKeeps, AnnounceKeeps, CreditKeeps,
     CloseKeeps, WipeKeeps, AdvanceKeeps, RejoinKeeps, ConnectionKeeps DEF Silent
<1>2. CASE Event
  <2>1. ASSUME NEW x \in timers, NEW w \in Words, SelectTimeout(x, w) PROVE TalkInv'
    BY <2>1, ChooseKeeps
  <2>2. ASSUME NEW x \in timers, Hint(x) \/ DrawTimeout(x) \/ RoundEndTimeout(x)
        PROVE  TalkInv'
    BY <2>2, TimersKeep, PauseKeeps
  <2>3. ASSUME NEW p \in Players, NEW w \in Words, ChooseWord(p, w) PROVE TalkInv'
    BY <2>3, ChooseKeeps
  <2>4. ASSUME NEW p \in Players, (\E g \in Guesses : SubmitGuess(p, g)) \/ SendChat(p)
        PROVE  TalkInv'
    BY <2>4, SayKeeps DEF SubmitGuess, SendChat, Speaking
  <2>5. ASSUME NEW p \in Players, Lose(p) \/ Reconnect(p) \/ Remove(p) PROVE TalkInv'
    BY <2>5, LoseKeeps, ConnectionKeeps, RemoveKeeps
  <2>. QED  BY <1>2, <2>1, <2>2, <2>3, <2>4, <2>5, ConnectionKeeps DEF Event
<1>. QED  BY <1>1, <1>2, SpeechKeeps DEF Next

\* A line is shown to somebody who is still guessing only when its sender is no insider,
\* or when it is a guess that was let through to be matched: neither knows the word.
LEMMA LinesTellNothing ==
    ASSUME TalkInv, Next
    PROVE  SecretKept'
<1>1. CASE overheard' = {}
  BY <1>1 DEF SecretKept
<1>2. ASSUME NEW t \in tasks, Speech(t), overheard' # {} PROVE SecretKept'
  <2>1. /\ overheard' = {[knows |-> t.knows, typed |-> t.typed, text |-> t.text]}
        /\ StillGuessing # {} /\ turn' = turn
    BY <1>2 DEF Speech, Guess, Match, RouteChat, Show, Around
  <2>2. room.phase = "DRAWING" /\ InPlay
    BY <2>1 DEF StillGuessing, TalkInv, Sound, Fresh, InPlay
  <2>3. KnowsLess(t) /\ turn \in Nat /\ turn > 0
    BY <2>2 DEF TalkInv, LinesKept, Sound, InPlay
  <2>4. CurrentDrawer \in room.players /\ room.drawing = {CurrentDrawer}
    BY <2>2 DEF TalkInv, OneDraws, Sound, SoundFor, CurrentDrawer
  <2>5. Guessed \subseteq room.players
    BY DEF TalkInv, Sound, SoundFor, Guessed
  <2>6. t.knows # turn
    <3>1. CASE Match(t)
      BY <2>3, <3>1 DEF Match, KnowsLess, Speaking
    <3>2. CASE RouteChat(t)
      <4>1. Channel \cap StillGuessing = {}
        BY <2>2, <2>4, <2>5 DEF Channel, StillGuessing
      <4>2. t.player \notin Channel
        BY <2>1, <2>2, <3>2, <4>1 DEF RouteChat, Show
      <4>. QED  BY <2>2, <2>3, <2>4, <2>5, <4>2 DEF KnowsLess, Channel
    <3>3. CASE Guess(t)
      BY <1>2, <2>2, <3>3 DEF Guess
    <3>. QED  BY <1>2, <3>1, <3>2, <3>3 DEF Speech
  <2>. QED  BY <2>1, <2>6 DEF SecretKept
<1>. QED  BY <1>1, <1>2 DEF Next

\* What somebody said who knew the word of a turn reaches nobody who is still guessing
\* it, with any number of players, handlers in flight, turns and lost connections, as long
\* as nobody leaves who draws before those still to draw.
THEOREM SecretStays ==
    ASSUME Shifts = FALSE, Overlap = FALSE
    PROVE  Spec => []SecretKept
<1>1. Init => TalkInv /\ SecretKept
  BY TalkInit DEF Init, SecretKept
<1>2. TalkInv /\ SecretKept /\ [Next]_vars => TalkInv' /\ SecretKept'
  <2>1. ASSUME TalkInv, SecretKept, UNCHANGED vars PROVE TalkInv' /\ SecretKept'
    <3>1. SecretKept'
      BY <2>1 DEF vars, SecretKept
    <3>2. TalkInv'
      BY <2>1, Quiet DEF vars
    <3>. QED  BY <3>1, <3>2
  <2>. QED  BY <2>1, TalkStep, LinesTellNothing
<1>. QED  BY <1>1, <1>2, PTL DEF Spec

-----------------------------------------------------------------------------
(***************************************************************************)
(* The steps of a turn.  A handler works for the phase it has brought      *)
(* about, and the word that is stored is the one that was chosen last.     *)
(***************************************************************************)
Judging == {"match", "credit"}

InStep(t) ==
    /\ t.at = "deal" => room.phase = "WORD_SELECTION"
    /\ t.at \in {"word", "announce"} => room.phase = "DRAWING" /\ t.word = CurrentWord
    /\ t.at = "chat" => t.typed = 0
    /\ t.typed \in 0..turn
    /\ (turn > 0 /\ t.typed = turn) => /\ room.phase # "WORD_SELECTION"
                                       /\ room.phase = "DRAWING" => secret.word = CurrentWord
    /\ t.at \in Judging => room.phase # "WORD_SELECTION"
    /\ t.at = "credit" => t.word = CurrentWord

\* A turn is about to begin, or will when the pause is over.
Between == Pausing # {} \/ \E t \in tasks : t.at \in Starters

\* No handler judges a guess when one is about to begin a turn.
Apart == \A t, u \in tasks : t.at \in Starters => u.at \notin Judging

WordKept == /\ room.phase = "WORD_SELECTION" \/ Between => secret.word = << >>
            /\ room.phase # "WORD_SELECTION" => secret.word \in {<< >>, CurrentWord}
            /\ room.phase = "DRAWING" => room.usedWords # << >>
            /\ room.phase = "WORD_SELECTION" => room.guessed = << >>

StepInv == (\A t \in tasks : InStep(t)) /\ Apart /\ WordKept

TurnInv == TypeInv /\ TalkInv /\ StepInv

LEMMA TurnNumber == ASSUME TurnInv PROVE turn \in Nat
BY TurnTalkAssumption DEF TurnInv, TypeInv, TypeOK, Turns

\* Most steps change no more than this.
Unhurried(u) == /\ u.at \notin Starters
                /\ u.at \in Judging => \A t \in tasks : t.at \notin Starters

LEMMA StaysInStep ==
    ASSUME TurnInv, UNCHANGED turn, room'.phase = room.phase,
           room'.usedWords = room.usedWords, secret'.word = secret.word,
           Pausing' \subseteq Pausing,
           room.phase = "WORD_SELECTION" /\ room.guessed = << >> => room'.guessed = << >>,
           \A u \in tasks' : u \in tasks \/ (InStep(u)' /\ Unhurried(u))
    PROVE  StepInv'
<1>1. CurrentWord' = CurrentWord
  BY DEF CurrentWord
<1>2. \A t \in tasks : InStep(t)'
  BY <1>1 DEF TurnInv, StepInv, InStep
<1>3. Apart'
  BY DEF TurnInv, StepInv, Apart, Unhurried
<1>4. Between' => Between
  BY DEF Between, Unhurried
<1>. QED  BY <1>1, <1>2, <1>3, <1>4 DEF TurnInv, StepInv, WordKept

\* A handler that starts, and one that goes on.
Plain(label) == label \notin {"deal", "word", "announce", "chat"} \cup Starters \cup Judging

LEMMA NewInStep ==
    ASSUME TurnInv, UNCHANGED turn, NEW u, u.typed = 0, Plain(u.at)
    PROVE  InStep(u)' /\ Unhurried(u)
<1>1. turn \in Nat
  BY TurnNumber
<1>. QED  BY <1>1 DEF InStep, Unhurried, Plain, Judging

LEMMA GoesOnInStep ==
    ASSUME TurnInv, UNCHANGED turn, room'.phase = room.phase,
           room'.usedWords = room.usedWords, secret'.word = secret.word,
           NEW t \in tasks, NEW u, u.typed = t.typed, Plain(u.at)
    PROVE  InStep(u)' /\ Unhurried(u)
<1>1. InStep(t) /\ CurrentWord' = CurrentWord
  BY DEF TurnInv, StepInv, CurrentWord
<1>. QED  BY <1>1 DEF InStep, Unhurried, Plain, Judging

\* In particular when record and secret are left alone.
LEMMA RestInStep ==
    ASSUME TurnInv, UNCHANGED <<room, turn, secret>>, Pausing' \subseteq Pausing,
           \A u \in tasks' : u \in tasks \/ (InStep(u)' /\ Unhurried(u))
    PROVE  StepInv'
BY StaysInStep

LEMMA FieldsOfHandler ==
    ASSUME NEW label \in Labels, NEW p \in Players \cup {Nobody}
    PROVE  LET u == Handler(label, p)
           IN  u \in Task /\ u.at = label /\ u.player = p /\ u.typed = 0
<1>1. Handler(label, p) \in Task /\ Handler(label, p).at = label /\ Handler(label, p).player = p
  BY HandlerType
<1>. QED  BY <1>1 DEF Handler

LEMMA TaskType == ASSUME TurnInv, NEW t \in tasks PROVE t \in Task
BY DEF TurnInv, TypeInv, TypeOK

\* In a turn no handler is about to begin one.
LEMMA InPlayApart ==
    ASSUME TurnInv, InPlay
    PROVE  ~Between /\ \A t \in tasks : t.at \notin Bringing
BY DEF TurnInv, TalkInv, OneSuccessor, Between, Bringing, Starters

LEMMA DrawingInPlay == ASSUME TurnInv, room.phase = "DRAWING" PROVE InPlay
BY TurnNumber DEF TurnInv, TalkInv, Fresh, InPlay

LEMMA DealInStep == ASSUME TurnInv, NEW t \in tasks, Deal(t) PROVE StepInv'
<1>1. secret.word = << >> /\ secret'.word = << >>
  BY DEF TurnInv, StepInv, InStep, WordKept, Deal, NoSecret
<1>2. Pausing' \subseteq Pausing /\ tasks' \subseteq tasks /\ UNCHANGED <<room, turn>>
  BY DEF Deal, Pausing, Cleared, Timer, Finish, Around
<1>. QED  BY <1>1, <1>2, StaysInStep

LEMMA FinishInStep ==
    ASSUME TurnInv, NEW t \in tasks, Announce(t) \/ RouteChat(t) \/ Resume(t) \/ Left(t)
    PROVE  StepInv'
<1>1. tasks' \subseteq tasks /\ UNCHANGED <<room, turn, secret>>
  BY DEF Announce, RouteChat, Resume, Left, Finish, Around
<1>2. Pausing' \subseteq Pausing
  BY DEF Announce, RouteChat, Resume, Left, Pausing, Cleared, Timer
<1>. QED  BY <1>1, <1>2, RestInStep

LEMMA TimesInStep ==
    ASSUME TurnInv, Tick \/ \E x \in timers : Hint(x) PROVE StepInv'
<1>1. UNCHANGED <<room, turn, tasks>> /\ secret'.word = secret.word /\ timers' \subseteq timers
  BY DEF Tick, Hint, Around, TurnInv, TypeInv, TypeOK, Secret
<1>. QED  BY <1>1, StaysInStep DEF Pausing

LEMMA ChooseInStep ==
    ASSUME TurnInv, NEW p \in Players, NEW w,
           \/ ChooseWord(p, w)
           \/ \E s \in timers : s.player = p /\ SelectTimeout(s, w)
    PROVE  StepInv'
<1>1. PICK h : h = Handler("choose", p) /\ h \in Task /\ h.at = "choose" /\ h.typed = 0
  BY FieldsOfHandler DEF Labels
<1>2. PICK u : u = [h EXCEPT !.word = w, !.choices = secret.choices]
  OBVIOUS
<1>3. u.at = "choose" /\ u.typed = 0
  BY <1>1, <1>2 DEF Task
<1>4. UNCHANGED <<room, turn, secret>> /\ timers' \subseteq timers /\ tasks' = tasks \cup {u}
  BY <1>1, <1>2 DEF ChooseWord, SelectTimeout, Spawn, Around
<1>5. InStep(u)' /\ Unhurried(u)
  BY <1>3, <1>4, NewInStep DEF Plain, Judging, Starters
<1>. QED  BY <1>4, <1>5, RestInStep DEF Pausing

\* A guess counts as typed in this turn when the word was set by then.
LEMMA SayInStep ==
    ASSUME TurnInv, NEW p \in Players, NEW label \in {"guess", "chat"}, NEW text,
           Say(label, p, text)
    PROVE  StepInv'
<1>. DEFINE typed == IF label = "guess" /\ room.phase = "DRAWING" /\ secret.word # << >>
                     THEN turn ELSE 0
            knows == IF p \in Insiders THEN turn ELSE 0
            n == Unused(p)
<1>1. PICK h : h = Handler(label, p) /\ h \in Task /\ h.at = label
  BY FieldsOfHandler DEF Labels
<1>2. PICK u : u = [h EXCEPT !.n = n, !.text = text, !.knows = knows, !.typed = typed]
  OBVIOUS
<1>3. UNCHANGED <<room, turn, secret, timers>> /\ tasks' = tasks \cup {u}
  BY <1>1, <1>2 DEF Say, Spawn, Typed
<1>. HIDE DEF n, knows
<1>4. u.at = label /\ u.typed = typed
  BY <1>1, <1>2 DEF Task
<1>5. turn \in Nat
  BY TurnNumber
<1>6. typed = turn /\ turn > 0 => room.phase = "DRAWING" /\ secret.word = CurrentWord
  BY DEF TurnInv, StepInv, WordKept
<1>7. InStep(u) /\ Unhurried(u)
  BY <1>4, <1>5, <1>6 DEF InStep, Unhurried, Judging, Starters
<1>8. InStep(u)'
  BY <1>3, <1>7 DEF InStep, CurrentWord
<1>. QED  BY <1>3, <1>7, <1>8, RestInStep DEF Pausing

LEMMA GuessInStep == ASSUME TurnInv, NEW t \in tasks, Guess(t) PROVE StepInv'
<1>0. UNCHANGED <<room, turn, secret, timers>>
  BY DEF Guess, Around
<1>1. CASE Finish(t)
  BY <1>0, <1>1, RestInStep DEF Finish, Pausing
<1>2. CASE ~Finish(t)
  <2>1. PICK u : u = [t EXCEPT !.at = "match", !.drawer = CurrentDrawer,
                               !.sock = room.socket[t.player]]
    OBVIOUS
  <2>2. room.phase = "DRAWING" /\ tasks' = (tasks \ {t}) \cup {u}
    BY <1>2, <2>1 DEF Guess, Becomes
  <2>3. u.at = "match" /\ u.typed = t.typed
    BY <2>1, TaskType DEF Task
  <2>4. \A x \in tasks : x.at \notin Starters
    BY <2>2, InPlayApart, DrawingInPlay DEF Between
  <2>5. InStep(t)
    BY DEF TurnInv, StepInv
  <2>6. InStep(u) /\ Unhurried(u)
    BY <2>2, <2>3, <2>4, <2>5 DEF InStep, Unhurried, Judging, Starters
  <2>7. InStep(u)'
    BY <1>0, <2>6 DEF InStep, CurrentWord
  <2>. QED  BY <1>0, <2>2, <2>6, <2>7, RestInStep DEF Pausing
<1>. QED  BY <1>1, <1>2

\* The word that a right guess has hit is that of the turn.
LEMMA MatchInStep == ASSUME TurnInv, NEW t \in tasks, Match(t) PROVE StepInv'
<1>0. UNCHANGED <<room, turn, secret, timers>> /\ t.at = "match"
  BY DEF Match, Around
<1>1. CASE Finish(t)
  BY <1>0, <1>1, RestInStep DEF Finish, Pausing
<1>2. CASE ~Finish(t)
  <2>1. PICK u : u = [t EXCEPT !.at = "credit", !.word = secret.word]
    OBVIOUS
  <2>2. secret.word # << >> /\ tasks' = (tasks \ {t}) \cup {u}
    BY <1>2, <2>1 DEF Match, Becomes
  <2>3. u.at = "credit" /\ u.typed = t.typed /\ u.word = secret.word
    BY <2>1, TaskType DEF Task
  <2>4. \A x \in tasks : x.at \notin Starters
    BY <1>0 DEF TurnInv, StepInv, Apart, Judging
  <2>5. InStep(t) /\ secret.word = CurrentWord
    BY <1>0, <2>2 DEF TurnInv, StepInv, InStep, WordKept, Judging
  <2>6. InStep(u) /\ Unhurried(u)
    BY <1>0, <2>3, <2>4, <2>5 DEF InStep, Unhurried, Judging, Starters
  <2>7. InStep(u)'
    BY <1>0, <2>6 DEF InStep, CurrentWord
  <2>. QED  BY <1>0, <2>2, <2>6, <2>7, RestInStep DEF Pausing
<1>. QED  BY <1>1, <1>2

LEMMA EndInStep ==
    ASSUME TurnInv, (\E d \in timers : DrawTimeout(d)) \/ (\E t \in tasks : EndTurn(t))
    PROVE  StepInv'
<1>1. ASSUME NEW d \in timers, DrawTimeout(d) PROVE StepInv'
  <2>1. PICK u : u = Handler("end", Nobody) /\ u.at = "end" /\ u.typed = 0
    BY FieldsOfHandler DEF Labels
  <2>2. UNCHANGED <<room, turn, secret>> /\ timers' \subseteq timers /\ tasks' = tasks \cup {u}
    BY <1>1, <2>1 DEF DrawTimeout, Spawn, Around, Cleared
  <2>3. InStep(u)' /\ Unhurried(u)
    BY <2>1, <2>2, NewInStep DEF Plain, Judging, Starters
  <2>. QED  BY <2>2, <2>3, RestInStep DEF Pausing
<1>2. ASSUME NEW t \in tasks, EndTurn(t) PROVE StepInv'
  <2>1. PICK u : u = [t EXCEPT !.at = "close", !.word = secret.word]
    OBVIOUS
  <2>2. UNCHANGED <<room, turn, secret, timers>> /\ tasks' = (tasks \ {t}) \cup {u}
    BY <1>2, <2>1 DEF EndTurn, Becomes, Around
  <2>3. u.at = "close" /\ u.typed = t.typed
    BY <2>1, TaskType DEF Task
  <2>4. InStep(u)' /\ Unhurried(u)
    BY <2>2, <2>3, GoesOnInStep DEF Plain, Judging, Starters
  <2>. QED  BY <2>2, <2>4, RestInStep DEF Pausing
<1>. QED  BY <1>1, <1>2

LEMMA CreditInStep == ASSUME TurnInv, NEW t \in tasks, Credit(t) PROVE StepInv'
<1>1. UNCHANGED <<turn, secret>> /\ t.at = "credit" /\ timers' \subseteq timers
  BY DEF Credit, Around, Cleared
<1>2. room.phase # "WORD_SELECTION"
  BY <1>1 DEF TurnInv, StepInv, InStep, Judging
<1>3. room'.phase = room.phase /\ room'.usedWords = room.usedWords
  BY DEF Credit, TurnInv, TypeInv, TypeOK, Room
<1>4. PICK u : u = Handler("end", Nobody) /\ u.at = "end" /\ u.typed = 0
  BY FieldsOfHandler DEF Labels
<1>5. tasks' \subseteq tasks \cup {u}
  BY <1>4 DEF Credit, Finish, Becomes
<1>6. InStep(u)' /\ Unhurried(u)
  BY <1>1, <1>4, NewInStep DEF Plain, Judging, Starters
<1>. QED  BY <1>1, <1>2, <1>3, <1>5, <1>6, StaysInStep DEF Pausing

\* Connections and players come and go.
LEMMA LoseInStep == ASSUME TurnInv, NEW p, Lose(p) PROVE StepInv'
<1>1. /\ room'.phase = room.phase /\ room'.usedWords = room.usedWords
      /\ room'.guessed = room.guessed
  BY DEF Lose, TurnInv, TypeInv, TypeOK, Room
<1>. QED  BY <1>1, StaysInStep DEF Lose, Pausing

LEMMA ReconnectInStep == ASSUME TurnInv, NEW p \in Players, Reconnect(p) PROVE StepInv'
<1>1. PICK u : u = Handler("rejoin", p) /\ u.at = "rejoin" /\ u.typed = 0
  BY FieldsOfHandler DEF Labels
<1>2. UNCHANGED <<room, turn, secret, timers>> /\ tasks' = tasks \cup {u}
  BY <1>1 DEF Reconnect, Spawn
<1>3. InStep(u)' /\ Unhurried(u)
  BY <1>1, <1>2, NewInStep DEF Plain, Judging, Starters
<1>. QED  BY <1>2, <1>3, RestInStep DEF Pausing

LEMMA RejoinInStep == ASSUME TurnInv, NEW t \in tasks, Rejoin(t) PROVE StepInv'
<1>1. PICK u : u = [t EXCEPT !.at = "bind", !.snap = Public(room')]
  OBVIOUS
<1>2. UNCHANGED <<turn, secret, timers>> /\ tasks' = (tasks \ {t}) \cup {u}
  BY <1>1 DEF Rejoin, Becomes, Around
<1>3. /\ room'.phase = room.phase /\ room'.usedWords = room.usedWords
      /\ room'.guessed = room.guessed
  BY DEF Rejoin, TurnInv, TypeInv, TypeOK, Room
<1>4. u.at = "bind" /\ u.typed = t.typed
  BY <1>1, TaskType DEF Task
<1>5. InStep(u)' /\ Unhurried(u)
  BY <1>2, <1>3, <1>4, GoesOnInStep DEF Plain, Judging, Starters
<1>. QED  BY <1>2, <1>3, <1>5, StaysInStep DEF Pausing

LEMMA BindInStep == ASSUME TurnInv, NEW t \in tasks, Bind(t) PROVE StepInv'
<1>1. PICK u : u = [t EXCEPT !.at = "resume"]
  OBVIOUS
<1>2. UNCHANGED <<room, turn, secret, timers>> /\ tasks' = (tasks \ {t}) \cup {u}
  BY <1>1 DEF Bind, Becomes
<1>3. u.at = "resume" /\ u.typed = t.typed
  BY <1>1, TaskType DEF Task
<1>4. InStep(u)' /\ Unhurried(u)
  BY <1>2, <1>3, GoesOnInStep DEF Plain, Judging, Starters
<1>. QED  BY <1>2, <1>4, RestInStep DEF Pausing

LEMMA RemoveInStep == ASSUME TurnInv, NEW p \in Players, Remove(p) PROVE StepInv'
<1>1. PICK h : h = Handler("left", p) /\ h \in Task /\ h.at = "left" /\ h.typed = 0
  BY FieldsOfHandler DEF Labels
<1>2. PICK u : u = [h EXCEPT !.snap = Public(room')]
  OBVIOUS
<1>3. UNCHANGED <<turn, secret, timers>> /\ tasks' = tasks \cup {u}
  BY <1>1, <1>2 DEF Remove, Spawn
<1>4. /\ room'.phase = room.phase /\ room'.usedWords = room.usedWords
      /\ room'.guessed = Without(room.guessed, p)
  BY DEF Remove, TurnInv, TypeInv, TypeOK, Room
<1>5. Without(<< >>, p) = << >>
  BY DEF Without
<1>6. u.at = "left" /\ u.typed = 0
  BY <1>1, <1>2 DEF Task
<1>7. InStep(u)' /\ Unhurried(u)
  BY <1>3, <1>6, NewInStep DEF Plain, Judging, Starters
<1>. QED  BY <1>3, <1>4, <1>5, <1>7, StaysInStep DEF Pausing

\* Steps that begin or end a turn, or choose or store its word.
LEMMA SetWordInStep == ASSUME TurnInv, NEW t \in tasks, SetWord(t) PROVE StepInv'
<1>1. PICK u : u = [t EXCEPT !.at = "announce"]
  OBVIOUS
<1>2. /\ UNCHANGED <<room, turn, timers>> /\ tasks' = (tasks \ {t}) \cup {u}
      /\ secret'.word = t.word /\ t.at = "word"
  BY <1>1 DEF SetWord, Becomes, Around
<1>3. u.at = "announce" /\ u.typed = t.typed /\ u.word = t.word
  BY <1>1, TaskType DEF Task
<1>4. CurrentWord' = CurrentWord
  BY <1>2 DEF CurrentWord
<1>5. room.phase = "DRAWING" /\ t.word = CurrentWord /\ InStep(t)
  BY <1>2 DEF TurnInv, StepInv, InStep
<1>6. InStep(u)' /\ \A x \in tasks : InStep(x)'
  BY <1>2, <1>3, <1>4, <1>5 DEF TurnInv, StepInv, InStep, Judging
<1>7. ~Between
  BY <1>5, DrawingInPlay, InPlayApart
<1>8. ~Between'
  BY <1>2, <1>3, <1>7 DEF Between, Pausing, Starters
<1>9. Apart'
  BY <1>8 DEF Apart, Between
<1>10. WordKept'
  BY <1>2, <1>4, <1>5, <1>8 DEF TurnInv, StepInv, WordKept
<1>. QED  BY <1>2, <1>6, <1>9, <1>10 DEF StepInv

LEMMA BeginInStep ==
    ASSUME TurnInv, Overlap = FALSE, NEW t \in tasks, BeginTurn(t) PROVE StepInv'
<1>1. CASE CurrentDrawer = Nobody
  BY <1>1, RestInStep DEF BeginTurn, Finish, Pausing
<1>2. CASE CurrentDrawer # Nobody
  <2>1. PICK u : u = [t EXCEPT !.at = "deal", !.player = CurrentDrawer,
                               !.sock = room.socket[CurrentDrawer], !.snap = Public(room')]
    OBVIOUS
  <2>2. /\ t.at = "begin" /\ Settled /\ turn' = turn + 1 /\ UNCHANGED <<secret, timers>>
        /\ tasks' = (tasks \ {t}) \cup {u}
    BY <1>2, <2>1 DEF BeginTurn, Becomes, InTurn
  <2>3. /\ room'.phase = "WORD_SELECTION" /\ room'.guessed = << >>
    BY <1>2 DEF BeginTurn, TurnInv, TypeInv, TypeOK, Room
  <2>4. u.at = "deal" /\ u.typed = t.typed
    BY <2>1, TaskType DEF Task
  <2>5. turn \in Nat
    BY TurnNumber
  <2>6. \A x \in tasks : /\ x.typed \in 0..turn
                         /\ x.at = "chat" => x.typed = 0
                         /\ x.at \notin {"deal", "word", "announce"} \cup Judging
    BY <2>2 DEF TurnInv, StepInv, InStep, Apart, Settled, Starters, Judging
  <2>7. \A x \in tasks' : InStep(x)'
    BY <2>2, <2>3, <2>4, <2>5, <2>6 DEF InStep, Judging
  <2>8. Apart'
    BY <2>2, <2>4, <2>6 DEF Apart, Judging
  <2>9. WordKept'
    BY <2>2, <2>3 DEF TurnInv, StepInv, WordKept, Between, Starters
  <2>. QED  BY <2>7, <2>8, <2>9 DEF StepInv
<1>. QED  BY <1>1, <1>2

LEMMA SelectInStep ==
    ASSUME TurnInv, Overlap = FALSE, NEW t \in tasks, SelectWord(t) PROVE StepInv'
<1>1. CASE ~(room.phase = "WORD_SELECTION" /\ CurrentDrawer = t.player)
  BY <1>1, RestInStep DEF SelectWord, Finish, Pausing, Around
<1>2. CASE room.phase = "WORD_SELECTION" /\ CurrentDrawer = t.player
  <2>1. PICK u : u = [t EXCEPT !.at = "word", !.sock = room.socket[t.player],
                               !.snap = Public(room')]
    OBVIOUS
  <2>2. /\ t.at = "choose" /\ Settled /\ UNCHANGED <<turn, secret>> /\ timers' \subseteq timers
        /\ tasks' = (tasks \ {t}) \cup {u}
    BY <1>2, <2>1 DEF SelectWord, Becomes, Cleared, Around, InTurn
  <2>3. /\ room'.phase = "DRAWING" /\ room'.usedWords = Append(room.usedWords, t.word)
        /\ room'.guessed = room.guessed
    BY <1>2 DEF SelectWord, TurnInv, TypeInv, TypeOK, Room
  <2>4. CurrentWord' = t.word /\ room'.usedWords # << >>
    <3>1. t.word \in Words /\ TypeOK
      BY <2>2 DEF TurnInv, TypeInv, HandlersTyped, Captured
    <3>. QED  BY <2>3, <3>1, AppendUsed
  <2>5. u.at = "word" /\ u.typed = t.typed /\ u.word = t.word
    BY <2>1, TaskType DEF Task
  <2>6. \A x \in tasks : /\ InStep(x) /\ x.at \notin {"deal", "word", "announce"} \cup Judging
                         /\ ~(turn > 0 /\ x.typed = turn)
    BY <1>2, <2>2 DEF TurnInv, StepInv, InStep, Settled, Judging
  <2>7. \A x \in tasks' : InStep(x)'
    BY <2>2, <2>3, <2>4, <2>5, <2>6 DEF InStep, Judging
  <2>8. turn > 0 /\ ~Between
    <3>1. turn > 0 /\ InPlay
      BY <1>2, <2>2, TurnNumber DEF TurnInv, TalkInv, Fresh, Opening, InPlay
    <3>. QED  BY <3>1, InPlayApart
  <2>9. ~Between'
    BY <2>2, <2>5, <2>8 DEF Between, Pausing, Starters
  <2>10. Apart'
    BY <2>9 DEF Apart, Between
  <2>11. secret'.word = << >>
    BY <1>2, <2>2 DEF TurnInv, StepInv, WordKept
  <2>12. WordKept'
    BY <2>3, <2>4, <2>11 DEF WordKept
  <2>. QED  BY <2>7, <2>10, <2>12 DEF StepInv
<1>. QED  BY <1>1, <1>2

LEMMA CloseInStep ==
    ASSUME TurnInv, Overlap = FALSE, NEW t \in tasks, CloseTurn(t) PROVE StepInv'
<1>1. CASE room.phase \notin {"DRAWING", "WORD_SELECTION"}
  BY <1>1, RestInStep DEF CloseTurn, Finish, Pausing, Around
<1>2. CASE room.phase \in {"DRAWING", "WORD_SELECTION"}
  <2>1. PICK u : u = [t EXCEPT !.at = "wipe"]
    OBVIOUS
  <2>2. /\ t.at = "close" /\ Settled /\ UNCHANGED <<turn, secret, timers>>
        /\ tasks' = (tasks \ {t}) \cup {u}
    BY <1>2, <2>1 DEF CloseTurn, Becomes, Around, InTurn
  <2>3. /\ room'.phase = "ROUND_END" /\ room'.usedWords = room.usedWords
        /\ room'.guessed = room.guessed
    BY <1>2 DEF CloseTurn, TurnInv, TypeInv, TypeOK, Room
  <2>4. u.at = "wipe" /\ u.typed = t.typed
    BY <2>1, TaskType DEF Task
  <2>5. CurrentWord' = CurrentWord
    BY <2>3 DEF CurrentWord
  <2>6. \A x \in tasks : InStep(x) /\ x.at \notin {"deal", "word", "announce"}
    BY <2>2 DEF TurnInv, StepInv, Settled
  <2>7. \A x \in tasks' : InStep(x)'
    BY <2>2, <2>3, <2>4, <2>5, <2>6 DEF InStep, Judging
  <2>8. ~Between
    <3>1. turn > 0 /\ InPlay
      BY <1>2, <2>2, TurnNumber DEF TurnInv, TalkInv, Fresh, Opening, InPlay
    <3>. QED  BY <3>1, InPlayApart
  <2>9. ~Between'
    BY <2>2, <2>4, <2>8 DEF Between, Pausing, Starters
  <2>10. Apart'
    BY <2>9 DEF Apart, Between
  <2>11. WordKept'
    BY <2>2, <2>3, <2>5, <2>9 DEF TurnInv, StepInv, WordKept
  <2>. QED  BY <2>7, <2>10, <2>11 DEF StepInv
<1>. QED  BY <1>1, <1>2

LEMMA WipeInStep == ASSUME TurnInv, NEW t \in tasks, Wipe(t) PROVE StepInv'
<1>1. /\ t.at = "wipe" /\ UNCHANGED <<room, turn>> /\ tasks' = tasks \ {t}
      /\ secret'.word = << >>
  BY DEF Wipe, Finish, Around, NoSecret
<1>2. turn > 0 /\ ~InPlay
  BY <1>1, TurnNumber DEF TurnInv, TalkInv, Fresh, Opening, OneSuccessor, Bringing
<1>3. room.phase = "ROUND_END" /\ CurrentWord' = CurrentWord
  BY <1>1, <1>2 DEF InPlay, CurrentWord
<1>4. \A x \in tasks' : InStep(x)'
  BY <1>1, <1>3 DEF TurnInv, StepInv, InStep
<1>5. Apart'
  BY <1>1 DEF TurnInv, StepInv, Apart
<1>6. WordKept'
  BY <1>1, <1>3 DEF WordKept
<1>. QED  BY <1>4, <1>5, <1>6 DEF StepInv

LEMMA PauseInStep == ASSUME TurnInv, NEW s \in timers, RoundEndTimeout(s) PROVE StepInv'
<1>1. PICK u : u = Handler("advance", Nobody) /\ u.at = "advance" /\ u.typed = 0
  BY FieldsOfHandler DEF Labels
<1>2. /\ UNCHANGED <<room, turn, secret>> /\ s \in Pausing /\ tasks' = {u}
      /\ CurrentWord' = CurrentWord
  BY <1>1 DEF RoundEndTimeout, Pausing, Spawn, Around, CurrentWord
<1>3. turn \in Nat
  BY TurnNumber
<1>4. \A x \in tasks' : InStep(x)'
  BY <1>1, <1>2, <1>3 DEF InStep, Judging
<1>5. Apart'
  BY <1>1, <1>2 DEF Apart, Judging
<1>6. WordKept'
  BY <1>2 DEF TurnInv, StepInv, WordKept, Between
<1>. QED  BY <1>4, <1>5, <1>6 DEF StepInv

LEMMA AdvanceInStep == ASSUME TurnInv, NEW t \in tasks, AdvanceTurn(t) PROVE StepInv'
<1>1. CASE tasks' = tasks \ {t} /\ UNCHANGED room
  BY <1>1, RestInStep DEF AdvanceTurn, Pausing, Around
<1>2. CASE ~(tasks' = tasks \ {t} /\ UNCHANGED room)
  <2>1. PICK u : u = [t EXCEPT !.at = "begin"]
    OBVIOUS
  <2>2. /\ t.at = "advance" /\ UNCHANGED <<turn, secret, timers>>
        /\ tasks' = (tasks \ {t}) \cup {u}
    BY <1>2, <2>1 DEF AdvanceTurn, Finish, Becomes, Around
  <2>3. /\ room'.phase = room.phase /\ room'.usedWords = room.usedWords
        /\ room'.guessed = room.guessed
    BY DEF AdvanceTurn, TurnInv, TypeInv, TypeOK, Room
  <2>4. u.at = "begin" /\ u.typed = t.typed
    BY <2>1, TaskType DEF Task
  <2>5. CurrentWord' = CurrentWord
    BY <2>3 DEF CurrentWord
  <2>6. \A x \in tasks' : InStep(x)'
    BY <2>2, <2>3, <2>4, <2>5 DEF TurnInv, StepInv, InStep, Judging
  <2>7. Apart'
    BY <2>2, <2>4 DEF TurnInv, StepInv, Apart, Judging, Starters
  <2>8. WordKept'
    BY <2>2, <2>3, <2>5 DEF TurnInv, StepInv, WordKept, Between, Starters
  <2>. QED  BY <2>6, <2>7, <2>8 DEF StepInv
<1>. QED  BY <1>1, <1>2

LEMMA TurnInit == Init => TurnInv
<1>. SUFFICES ASSUME Init PROVE TurnInv
  OBVIOUS
<1>1. TypeInv /\ TalkInv
  BY InitType, TalkInit
<1>2. PICK u : u = Handler("begin", Nobody) /\ u.at = "begin" /\ u.typed = 0
  BY FieldsOfHandler DEF Labels
<1>3. /\ tasks = {u} /\ turn = 0 /\ room.phase = "WORD_SELECTION" /\ room.guessed = << >>
      /\ secret.word = << >>
  BY <1>2 DEF Init, NoSecret
<1>4. \A t \in tasks : InStep(t)
  BY <1>2, <1>3 DEF InStep, Judging
<1>5. Apart /\ WordKept
  BY <1>2, <1>3 DEF Apart, WordKept, Judging
<1>. QED  BY <1>1, <1>4, <1>5 DEF TurnInv, StepInv

LEMMA TurnStep ==
    ASSUME Shifts = FALSE, Overlap = FALSE, TurnInv, [Next]_vars PROVE TurnInv'
<1>0. TypeInv'
  BY TypeStep DEF TurnInv
<1>1. CASE UNCHANGED vars
  <2>1. TalkInv'
    BY <1>1, Quiet DEF TurnInv, vars
  <2>2. StepInv'
    BY <1>1, RestInStep DEF vars, Pausing
  <2>. QED  BY <1>0, <2>1, <2>2 DEF TurnInv
<1>2. CASE Next
  <2>1. TalkInv'
    BY <1>2, TalkStep DEF TurnInv
  <2>5. SUFFICES StepInv'
    BY <1>0, <2>1 DEF TurnInv
  <2>2. ASSUME NEW t \in tasks, Silent(t) PROVE StepInv'
    BY <2>2, BeginInStep, DealInStep, SelectInStep, SetWordInStep, FinishInStep, CreditInStep,
       EndInStep, CloseInStep, WipeInStep, AdvanceInStep, RejoinInStep, BindInStep DEF Silent
  <2>3. ASSUME NEW t \in tasks, Speech(t) PROVE StepInv'
    BY <2>3, GuessInStep, MatchInStep, FinishInStep DEF Speech
  <2>4. CASE Event
    <3>1. ASSUME NEW x \in timers, NEW w \in Words, SelectTimeout(x, w) PROVE StepInv'
      <4>1. x.player \in Players
        BY <3>1 DEF SelectTimeout, TurnInv, TypeInv, SelectsTyped
      <4>. QED  BY <3>1, <4>1, ChooseInStep
    <3>2. ASSUME NEW x \in timers, Hint(x) \/ DrawTimeout(x) \/ RoundEndTimeout(x)
          PROVE  StepInv'
      BY <3>2, TimesInStep, EndInStep, PauseInStep
    <3>3. ASSUME NEW p \in Players, NEW w \in Words, ChooseWord(p, w) PROVE StepInv'
      BY <3>3, ChooseInStep
    <3>4. ASSUME NEW p \in Players, (\E g \in Guesses : SubmitGuess(p, g)) \/ SendChat(p)
          PROVE  StepInv'
      BY <3>4, SayInStep DEF SubmitGuess, SendChat
    <3>5. ASSUME NEW p \in Players, Lose(p) \/ Reconnect(p) \/ Remove(p) PROVE StepInv'
      BY <3>5, LoseInStep, ReconnectInStep, RemoveInStep
    <3>. QED  BY <2>4, <3>1, <3>2, <3>3, <3>4, <3>5, TimesInStep DEF Event
  <2>. QED  BY <1>2, <2>2, <2>3, <2>4 DEF Next
<1>. QED  BY <1>1, <1>2

\* What is shown to those who are still guessing is a guess that was judged by the word
\* of the turn, or was typed before that word was set.
LEMMA LinesMiss == ASSUME TurnInv, Next PROVE NearMissPrivate'
<1>1. CASE overheard' = {}
  BY <1>1 DEF NearMissPrivate
<1>2. ASSUME NEW t \in tasks, Speech(t), overheard' # {} PROVE NearMissPrivate'
  <2>1. /\ overheard' = {[knows |-> t.knows, typed |-> t.typed, text |-> t.text]}
        /\ StillGuessing # {} /\ turn' = turn /\ room' = room
    BY <1>2 DEF Speech, Guess, Match, RouteChat, Show, Around
  <2>2. room.phase = "DRAWING" /\ turn > 0 /\ CurrentWord' = CurrentWord
    BY <2>1, DrawingInPlay DEF StillGuessing, InPlay, CurrentWord
  <2>3. SUFFICES ASSUME t.typed = turn PROVE ~Telling(t.text, CurrentWord)
    BY <2>1, <2>2 DEF NearMissPrivate
  <2>4. InStep(t) /\ secret.word = CurrentWord
    BY <2>2, <2>3 DEF TurnInv, StepInv, InStep
  <2>5. Match(t)
    <3>1. ~Guess(t)
      BY <1>2, <2>2 DEF Guess
    <3>2. ~RouteChat(t)
      BY <2>2, <2>3, <2>4 DEF RouteChat, InStep
    <3>. QED  BY <1>2, <3>1, <3>2 DEF Speech
  <2>6. CurrentWord \in Words
    <3>1. room.usedWords \in Seq(Words) /\ room.usedWords # << >>
      BY <2>2 DEF TurnInv, TypeInv, TypeOK, Room, StepInv, WordKept
    <3>2. Len(room.usedWords) \in 1..Len(room.usedWords)
      BY <3>1
    <3>. QED  BY <3>1, <3>2 DEF CurrentWord
  <2>7. CurrentWord # << >> /\ CurrentWord \in Seq(STRING) /\ t.text \in Seq(STRING)
    <3>1. t.text \in Guesses \cup {<< >>} /\ << >> \in Seq(STRING)
      BY TaskType DEF Task
    <3>. QED  BY <2>6, <3>1, TurnTalkAssumption
  <2>8. ClassifyGuess(t.text, CurrentWord) = "wrong"
    BY <1>2, <2>4, <2>5, <2>7 DEF Match
  <2>9. t.text # CurrentWord
        /\ ~(Len(CurrentWord) >= 4 /\ Levenshtein(t.text, CurrentWord) <= 1)
    BY <2>8 DEF ClassifyGuess
  <2>10. OneEdit(t.text, CurrentWord) => Levenshtein(t.text, CurrentWord) <= 1
    BY <2>7, OneEditIsNear
  <2>. QED  BY <2>9, <2>10 DEF Telling
<1>. QED  BY <1>1, <1>2 DEF Next

THEOREM MissesStayPrivate ==
    ASSUME Shifts = FALSE, Overlap = FALSE
    PROVE  Spec => []NearMissPrivate
<1>1. Init => TurnInv /\ NearMissPrivate
  BY TurnInit DEF Init, NearMissPrivate
<1>2. TurnInv /\ NearMissPrivate /\ [Next]_vars => TurnInv' /\ NearMissPrivate'
  <2>1. ASSUME NearMissPrivate, UNCHANGED vars PROVE NearMissPrivate'
    BY <2>1 DEF vars, NearMissPrivate, CurrentWord
  <2>. QED  BY <2>1, TurnStep, LinesMiss
<1>. QED  BY <1>1, <1>2, PTL DEF Spec

-----------------------------------------------------------------------------
(***************************************************************************)
(* Points.  What a guess would be worth now, in a place of the order,      *)
(* bounds what those in that place and before it have been paid.           *)
(***************************************************************************)
Pay(order) == ScoreGuess(remaining, Total, order, DifficultyOf[CurrentWord])

LEMMA PayType ==
    ASSUME TypeOK, CurrentWord \in Words
    PROVE  \A i \in Nat : Pay(i) \in Nat
<1>1. remaining \in Nat /\ DifficultyOf[CurrentWord] \in Difficulties
  BY TurnTalkAssumption DEF TypeOK
<1>. QED  BY <1>1, ScoreFalls DEF Pay

LEMMA PayFalls ==
    ASSUME TypeOK, CurrentWord \in Words, NEW i \in Nat, NEW j \in Nat, i <= j
    PROVE  /\ Pay(j) <= Pay(i)
           /\ i < j /\ i < Len(GuessOrderBonus) => Pay(j) < Pay(i)
<1>1. PICK r \in Nat, d \in Difficulties : r = remaining /\ d = DifficultyOf[CurrentWord]
  BY TurnTalkAssumption DEF TypeOK
<1>2. r <= r
  OBVIOUS
<1>3. ScoreGuess(r, Total, j, d) <= ScoreGuess(r, Total, i, d)
  BY <1>2, ScoreFalls
<1>4. i < j /\ i < Len(GuessOrderBonus)
         => ScoreGuess(r, Total, j, d) < ScoreGuess(r, Total, i, d)
  BY <1>2, ScoreFalls
<1>. QED  BY <1>1, <1>3, <1>4 DEF Pay

LEMMA PayFallsInTime ==
    ASSUME TypeOK, CurrentWord \in Words, CurrentWord' = CurrentWord,
           remaining' \in Nat, remaining' <= remaining, NEW i \in Nat
    PROVE  Pay(i)' <= Pay(i) /\ Pay(i)' \in Nat
<1>1. PICK r \in Nat, d \in Difficulties : r = remaining /\ d = DifficultyOf[CurrentWord]
  BY TurnTalkAssumption DEF TypeOK
<1>2. PICK s \in Nat : s = remaining' /\ s <= r
  BY <1>1
<1>3. i <= i
  OBVIOUS
<1>4. ScoreGuess(s, Total, i, d) \in Nat
  BY <1>2, <1>3, ScoreFalls
<1>5. ScoreGuess(s, Total, i, d) <= ScoreGuess(r, Total, i, d)
  BY <1>2, <1>3, ScoreFalls
<1>. QED  BY <1>1, <1>2, <1>4, <1>5 DEF Pay

\* Whoever is to draw is there, cannot guess, and is the only one who may draw; whoever
\* has not guessed has no points yet.
ToDraw == turn > 0 => room.turnPointer < Len(room.drawOrder)
Beginning == \E t \in tasks : t.at = "begin"
DrawerApart ==
    turn > 0 /\ ~Beginning =>
        /\ CurrentDrawer \notin Guessed
        /\ \A t \in tasks : t.at \in Judging => t.player # CurrentDrawer
        /\ \A p \in Players : p \notin Guessed /\ p # CurrentDrawer => room.roundScore[p] = 0
        /\ room.drawing \subseteq {CurrentDrawer}

\* Nobody who was before the guesser at an index has been removed; unless he is the one
\* who has guessed again since, and is before him again.
OneGone == \A p, q \in gone : p = q
InPlace(i) == gone = {} \/ \E j \in 1..(i - 1) : room.guessed[j] \in gone
Earned(i) == room.roundScore[room.guessed[i]]
Paid == /\ room.guessed # << >> => CurrentWord \in Words
        /\ OneGone => \A i \in DOMAIN room.guessed : /\ Earned(i) >= Pay(i)
                                                     /\ InPlace(i) => Earned(i) >= Pay(i - 1)

PayInv == ToDraw /\ DrawerApart /\ Paid /\ EarlierPaysMore

LEMMA GuessedList ==
    ASSUME TypeOK
    PROVE  /\ DOMAIN room.guessed = 1..Len(room.guessed) /\ Len(room.guessed) \in Nat
           /\ \A i \in DOMAIN room.guessed : room.guessed[i] \in Players /\ Earned(i) \in Nat
<1>1. /\ room.guessed \in Seq(Players) /\ room.roundScore \in [Players -> Nat]
  BY DEF TypeOK, Room
<1>. QED  BY <1>1 DEF Earned

\* Most steps change no more than this.
LEMMA PointsStay ==
    ASSUME TypeOK, PayInv, UNCHANGED <<turn, gone>>,
           remaining' \in Nat, remaining' <= remaining,
           room'.guessed = room.guessed, room'.roundScore = room.roundScore,
           room'.turnPointer = room.turnPointer, room'.drawOrder = room.drawOrder,
           room'.drawing = room.drawing, room'.usedWords = room.usedWords,
           Beginning => Beginning',
           \A u \in tasks' : u \in tasks \/ u.at \notin Judging
                             \/ (turn > 0 /\ ~Beginning => u.player # CurrentDrawer)
    PROVE  PayInv'
<1>1. CurrentWord' = CurrentWord /\ CurrentDrawer' = CurrentDrawer /\ Guessed' = Guessed
  BY DEF CurrentWord, CurrentDrawer, Guessed
<1>2. ToDraw' /\ DrawerApart'
  BY <1>1 DEF PayInv, ToDraw, DrawerApart
<1>3. Paid'
  <2>1. room'.guessed # << >> => CurrentWord' \in Words
    BY <1>1 DEF PayInv, Paid
  <2>2. SUFFICES ASSUME OneGone', NEW i \in DOMAIN room'.guessed
                 PROVE  Earned(i)' >= Pay(i)' /\ (InPlace(i)' => Earned(i)' >= Pay(i - 1)')
    BY <2>1 DEF Paid
  <2>3. i \in DOMAIN room.guessed /\ OneGone /\ i \in Nat /\ i - 1 \in Nat
    BY <2>2, GuessedList DEF OneGone
  <2>4. CurrentWord \in Words
    BY <2>3, GuessedList DEF PayInv, Paid
  <2>5. /\ Pay(i)' <= Pay(i) /\ Pay(i)' \in Nat /\ Pay(i) \in Nat
        /\ Pay(i - 1)' <= Pay(i - 1) /\ Pay(i - 1)' \in Nat /\ Pay(i - 1) \in Nat
    <3>1. Pay(i)' <= Pay(i) /\ Pay(i)' \in Nat
      BY <1>1, <2>3, <2>4, PayFallsInTime
    <3>2. Pay(i - 1)' <= Pay(i - 1) /\ Pay(i - 1)' \in Nat
      BY <1>1, <2>3, <2>4, PayFallsInTime
    <3>. QED  BY <2>3, <2>4, <3>1, <3>2, PayType
  <2>6. Earned(i)' = Earned(i) /\ Earned(i) \in Nat /\ (InPlace(i)' => InPlace(i))
    BY <2>3, GuessedList DEF Earned, InPlace
  <2>7. Earned(i) >= Pay(i) /\ (InPlace(i) => Earned(i) >= Pay(i - 1))
    BY <2>3 DEF PayInv, Paid
  <2>. QED  BY <2>5, <2>6, <2>7
<1>4. EarlierPaysMore'
  BY DEF PayInv, EarlierPaysMore
<1>. QED  BY <1>2, <1>3, <1>4 DEF PayInv

\* In particular when the record is left alone.
LEMMA PointsRest ==
    ASSUME TurnInv, PayInv, UNCHANGED <<room, turn, gone, remaining>>,
           Beginning => Beginning', \A u \in tasks' : u \in tasks \/ u.at \notin Judging
    PROVE  PayInv'
<1>1. remaining \in Nat /\ TypeOK
  BY TurnTalkAssumption DEF TurnInv, TypeInv, TypeOK
<1>. QED  BY <1>1, PointsStay

\* Nobody has guessed.
LEMMA NobodyPaid ==
    ASSUME room'.guessed = << >> PROVE Paid' /\ EarlierPaysMore'
BY DEF Paid, EarlierPaysMore

\* The place of a guess is the number of those before it.
LEMMA OrderIsLength ==
    ASSUME TypeOK, CurrentDrawer \notin Guessed, room.drawing \subseteq {CurrentDrawer}
    PROVE  GuessOrder = Len(room.guessed)
<1>1. Guessed \ room.drawing = Guessed
  OBVIOUS
<1>2. PICK n \in Nat : n = Len(room.guessed) /\ DOMAIN room.guessed = 1..n
  BY GuessedList
<1>3. SoundFor(room.guessed, room.players)
  BY DEF TypeOK
<1>4. PICK f : f = [i \in 1..n |-> room.guessed[i]]
  OBVIOUS
<1>5. f \in Bijection(1..n, Guessed)
  BY <1>2, <1>3, <1>4 DEF Guessed, SoundFor, Bijection, Injection, Surjection, IsInjective
<1>6. ExistsBijection(1..n, Guessed)
  BY <1>5 DEF ExistsBijection
<1>7. Cardinality(Guessed) = n
  BY <1>6, FS_CountingElements
<1>. QED  BY <1>1, <1>2, <1>7 DEF GuessOrder

LEMMA HandlersPay ==
    ASSUME TurnInv, PayInv, NEW t \in tasks,
           \/ Deal(t) \/ SetWord(t) \/ Announce(t) \/ EndTurn(t) \/ Wipe(t)
           \/ Bind(t) \/ Resume(t) \/ Left(t) \/ RouteChat(t)
    PROVE  PayInv'
<1>1. UNCHANGED <<room, turn, gone, remaining>> /\ t.at # "begin"
  BY DEF Deal, SetWord, Announce, EndTurn, Wipe, Bind, Resume, Left, RouteChat, Around
<1>2. PICK u, v, w : /\ u = [t EXCEPT !.at = "announce"]
                     /\ v = [t EXCEPT !.at = "close", !.word = secret.word]
                     /\ w = [t EXCEPT !.at = "resume"]
  OBVIOUS
<1>3. /\ tasks \ {t} \subseteq tasks'
      /\ tasks' \subseteq tasks \cup {u, v, w}
  BY <1>2 DEF Deal, SetWord, Announce, EndTurn, Wipe, Bind, Resume, Left, RouteChat,
     Finish, Becomes
<1>4. u.at = "announce" /\ v.at = "close" /\ w.at = "resume"
  BY <1>2, TaskType DEF Task
<1>. QED  BY <1>1, <1>3, <1>4, PointsRest DEF Beginning, Judging

LEMMA EventsPay ==
    ASSUME TurnInv, PayInv,
           \/ \E p \in Players, w \in Words : ChooseWord(p, w)
           \/ \E s \in timers : (\E w \in Words : SelectTimeout(s, w)) \/ Hint(s)
                                \/ DrawTimeout(s) \/ RoundEndTimeout(s)
           \/ \E p \in Players : Reconnect(p)
    PROVE  PayInv'
<1>1. ASSUME UNCHANGED <<room, turn, gone, remaining>>, NEW u, tasks' = tasks \cup {u},
             u.at \notin Judging
      PROVE  PayInv'
  BY <1>1, PointsRest DEF Beginning
<1>2. ASSUME NEW p \in Players, NEW w,
             Spawn([Handler("choose", p) EXCEPT !.word = w, !.choices = secret.choices]),
             UNCHANGED <<room, turn, gone, remaining>>
      PROVE  PayInv'
  <2>1. PICK h \in Task : h = Handler("choose", p) /\ h.at = "choose"
    BY FieldsOfHandler DEF Labels
  <2>2. PICK u : u = [h EXCEPT !.word = w, !.choices = secret.choices]
    OBVIOUS
  <2>3. u.at = "choose" /\ tasks' = tasks \cup {u}
    BY <1>2, <2>1, <2>2 DEF Task, Spawn
  <2>. QED  BY <1>1, <1>2, <2>3 DEF Judging
<1>3. ASSUME NEW p \in Players, NEW w \in Words, ChooseWord(p, w) PROVE PayInv'
  BY <1>2, <1>3 DEF ChooseWord, Around
<1>4. ASSUME NEW s \in timers, NEW w \in Words, SelectTimeout(s, w) PROVE PayInv'
  <2>1. s.player \in Players
    BY <1>4 DEF SelectTimeout, TurnInv, TypeInv, SelectsTyped
  <2>. QED  BY <1>2, <1>4, <2>1 DEF SelectTimeout, Around
<1>5. ASSUME NEW label \in {"end", "advance", "rejoin"}, NEW p \in Players \cup {Nobody},
             Spawn(Handler(label, p)), UNCHANGED <<room, turn, gone, remaining>>
      PROVE  PayInv'
  <2>1. PICK u : u = Handler(label, p) /\ u.at = label
    BY FieldsOfHandler DEF Labels
  <2>. QED  BY <1>1, <1>5, <2>1 DEF Spawn, Judging
<1>6. ASSUME NEW s \in timers, DrawTimeout(s) \/ RoundEndTimeout(s) PROVE PayInv'
  BY <1>5, <1>6 DEF DrawTimeout, RoundEndTimeout, Around
<1>7. ASSUME NEW p \in Players, Reconnect(p) PROVE PayInv'
  BY <1>5, <1>7 DEF Reconnect
<1>8. ASSUME NEW s \in timers, Hint(s) PROVE PayInv'
  BY <1>8, PointsRest DEF Hint, Around, Beginning
<1>. QED  BY <1>3, <1>4, <1>6, <1>7, <1>8

LEMMA SayPays ==
    ASSUME TurnInv, PayInv, NEW p \in Players, NEW label \in {"guess", "chat"}, NEW text,
           Say(label, p, text)
    PROVE  PayInv'
<1>. DEFINE typed == IF label = "guess" /\ room.phase = "DRAWING" /\ secret.word # << >>
                     THEN turn ELSE 0
            knows == IF p \in Insiders THEN turn ELSE 0
            n == Unused(p)
<1>1. PICK h \in Task : h = Handler(label, p) /\ h.at = label
  BY FieldsOfHandler DEF Labels
<1>2. PICK u : u = [h EXCEPT !.n = n, !.text = text, !.knows = knows, !.typed = typed]
  OBVIOUS
<1>3. UNCHANGED <<room, turn, gone, remaining>> /\ tasks' = tasks \cup {u}
  BY <1>1, <1>2 DEF Say, Spawn, Typed
<1>. HIDE DEF n, knows, typed
<1>4. u.at = label
  BY <1>1, <1>2 DEF Task
<1>. QED  BY <1>3, <1>4, PointsRest DEF Beginning, Judging

LEMMA TickPays == ASSUME TurnInv, PayInv, Tick PROVE PayInv'
<1>1. TypeOK /\ remaining' \in Nat /\ remaining' <= remaining
  BY TurnTalkAssumption DEF Tick, TurnInv, TypeInv, TypeOK
<1>. QED  BY <1>1, PointsStay DEF Tick, Around, Beginning

LEMMA ConnectionsPay ==
    ASSUME TurnInv, PayInv, (\E p \in Players : Lose(p)) \/ (\E t \in tasks : Rejoin(t))
    PROVE  PayInv'
<1>0. TypeOK /\ remaining \in Nat
  BY TurnTalkAssumption DEF TurnInv, TypeInv, TypeOK
<1>1. UNCHANGED <<turn, gone, remaining>>
  BY DEF Lose, Rejoin, Around
<1>2. /\ room'.guessed = room.guessed /\ room'.roundScore = room.roundScore
      /\ room'.turnPointer = room.turnPointer /\ room'.drawOrder = room.drawOrder
      /\ room'.drawing = room.drawing /\ room'.usedWords = room.usedWords
  BY DEF Lose, Rejoin, TurnInv, TypeInv, TypeOK, Room
<1>3. ASSUME NEW p \in Players, Lose(p) PROVE PayInv'
  BY <1>0, <1>1, <1>2, <1>3, PointsStay DEF Lose, Beginning
<1>4. ASSUME NEW t \in tasks, Rejoin(t) PROVE PayInv'
  <2>1. PICK u : u = [t EXCEPT !.at = "bind", !.snap = Public(room')]
    OBVIOUS
  <2>2. t.at # "begin" /\ tasks' = (tasks \ {t}) \cup {u}
    BY <1>4, <2>1 DEF Rejoin, Becomes
  <2>3. u.at = "bind"
    BY <2>1, TaskType DEF Task
  <2>. QED  BY <1>0, <1>1, <1>2, <2>2, <2>3, PointsStay DEF Beginning, Judging
<1>. QED  BY <1>3, <1>4

\* The drawer's guess is no guess.
LEMMA GuessPays ==
    ASSUME TurnInv, PayInv, NEW t \in tasks, Guess(t) \/ Match(t) PROVE PayInv'
<1>1. /\ UNCHANGED <<room, turn, gone, remaining>> /\ TypeOK /\ remaining \in Nat
      /\ t.at \in {"guess", "match"}
  BY TurnTalkAssumption DEF Guess, Match, Around, TurnInv, TypeInv, TypeOK
<1>2. PICK u, v : /\ u = [t EXCEPT !.at = "match", !.drawer = CurrentDrawer,
                                   !.sock = room.socket[t.player]]
                  /\ v = [t EXCEPT !.at = "credit", !.word = secret.word]
  OBVIOUS
<1>3. u.player = t.player /\ v.player = t.player
  BY <1>2, TaskType DEF Task
<1>4. \/ tasks' = tasks \ {t}
      \/ tasks' = (tasks \ {t}) \cup {u} /\ t.player # CurrentDrawer
      \/ tasks' = (tasks \ {t}) \cup {v} /\ t.at = "match"
  <2>1. CASE Guess(t)
    BY <1>2, <2>1 DEF Guess, Finish, Becomes
  <2>2. CASE Match(t)
    BY <1>2, <2>2 DEF Match, Finish, Becomes
  <2>. QED  BY <2>1, <2>2
<1>5. t.at = "match" /\ turn > 0 /\ ~Beginning => t.player # CurrentDrawer
  BY DEF PayInv, DrawerApart, Judging
<1>6. Beginning => Beginning'
  BY <1>1, <1>4 DEF Beginning
<1>7. \A x \in tasks' : x \in tasks \/ x.at \notin Judging
                        \/ (turn > 0 /\ ~Beginning => x.player # CurrentDrawer)
  BY <1>3, <1>4, <1>5
<1>. QED  BY <1>1, <1>6, <1>7, PointsStay

LEMMA BeginPays == ASSUME TurnInv, PayInv, NEW t \in tasks, BeginTurn(t) PROVE PayInv'
<1>0. turn \in Nat
  BY TurnNumber
<1>1. CASE CurrentDrawer = Nobody
  <2>1. turn = 0
    <3>1. room.turnPointer \in Nat /\ room.drawOrder \in Seq(Players)
      BY DEF TurnInv, TypeInv, TypeOK, Room
    <3>2. room.turnPointer < Len(room.drawOrder) => CurrentDrawer \in Players
      BY <3>1 DEF CurrentDrawer
    <3>. QED  BY <1>0, <1>1, <3>2, TurnTalkAssumption DEF PayInv, ToDraw
  <2>2. UNCHANGED <<room, turn, gone, remaining>>
    BY <1>1 DEF BeginTurn
  <2>3. ToDraw' /\ DrawerApart'
    BY <2>1, <2>2 DEF ToDraw, DrawerApart
  <2>4. room'.guessed = << >>
    BY <2>1, <2>2 DEF TurnInv, TalkInv, Fresh, StepInv, WordKept
  <2>. QED  BY <2>3, <2>4, NobodyPaid DEF PayInv
<1>2. CASE CurrentDrawer # Nobody
  <2>1. PICK u : u = [t EXCEPT !.at = "deal", !.player = CurrentDrawer,
                               !.sock = room.socket[CurrentDrawer], !.snap = Public(room')]
    OBVIOUS
  <2>2. t.at = "begin" /\ tasks' = (tasks \ {t}) \cup {u}
    BY <1>2, <2>1 DEF BeginTurn, Becomes
  <2>3. PICK zeros, pen : zeros = [p \in Players |-> 0] /\ pen = {CurrentDrawer} \cap room.players
    OBVIOUS
  <2>4. room' = [room EXCEPT !.phase = "WORD_SELECTION", !.guessed = << >>,
                             !.roundScore = zeros, !.drawing = pen]
    BY <1>2, <2>3 DEF BeginTurn
  <2>5. /\ room'.guessed = << >> /\ room'.roundScore = zeros /\ room'.drawing = pen
        /\ room'.turnPointer = room.turnPointer /\ room'.drawOrder = room.drawOrder
    BY <2>4 DEF TurnInv, TypeInv, TypeOK, Room
  <2>6. CurrentDrawer' = CurrentDrawer /\ Guessed' = {}
    BY <2>5 DEF CurrentDrawer, Guessed
  <2>7. \A x \in tasks' : x.at \notin Judging
    <3>1. u.at = "deal"
      BY <2>1, TaskType DEF Task
    <3>. QED  BY <2>2, <3>1 DEF TurnInv, StepInv, Apart, Starters, Judging
  <2>8. DrawerApart'
    BY <2>3, <2>5, <2>6, <2>7 DEF DrawerApart
  <2>9. ToDraw'
    BY <1>2, <2>5 DEF ToDraw, CurrentDrawer
  <2>. QED  BY <2>5, <2>8, <2>9, NobodyPaid DEF PayInv
<1>. QED  BY <1>1, <1>2

LEMMA SelectPays == ASSUME TurnInv, PayInv, NEW t \in tasks, SelectWord(t) PROVE PayInv'
<1>0. t.at = "choose" /\ UNCHANGED <<turn, gone>>
  BY DEF SelectWord, Around
<1>1. CASE ~(room.phase = "WORD_SELECTION" /\ CurrentDrawer = t.player)
  BY <1>0, <1>1, PointsRest DEF SelectWord, Finish, Beginning
<1>2. CASE room.phase = "WORD_SELECTION" /\ CurrentDrawer = t.player
  <2>1. PICK u : u = [t EXCEPT !.at = "word", !.sock = room.socket[t.player],
                               !.snap = Public(room')]
    OBVIOUS
  <2>2. tasks' = (tasks \ {t}) \cup {u} /\ u.at = "word"
    <3>1. u.at = "word"
      BY <2>1, TaskType DEF Task
    <3>. QED  BY <1>2, <2>1, <3>1 DEF SelectWord, Becomes
  <2>3. /\ room'.guessed = room.guessed /\ room'.roundScore = room.roundScore
        /\ room'.turnPointer = room.turnPointer /\ room'.drawOrder = room.drawOrder
        /\ room'.drawing = room.drawing
    BY <1>2 DEF SelectWord, TurnInv, TypeInv, TypeOK, Room
  <2>4. CurrentDrawer' = CurrentDrawer /\ Guessed' = Guessed
    BY <2>3 DEF CurrentDrawer, Guessed
  <2>5. ToDraw' /\ DrawerApart'
    BY <1>0, <2>2, <2>3, <2>4 DEF PayInv, ToDraw, DrawerApart, Beginning, Judging
  <2>6. room'.guessed = << >>
    BY <1>2, <2>3 DEF TurnInv, StepInv, WordKept
  <2>. QED  BY <2>5, <2>6, NobodyPaid DEF PayInv
<1>. QED  BY <1>1, <1>2

\* The turn pointer moves, and until the next turn begins nobody guesses.
LEMMA AdvancePays == ASSUME TurnInv, PayInv, NEW t \in tasks, AdvanceTurn(t) PROVE PayInv'
<1>0. t.at = "advance" /\ UNCHANGED <<turn, gone, remaining>>
  BY DEF AdvanceTurn, Around
<1>1. CASE tasks' = tasks \ {t} /\ UNCHANGED room
  BY <1>0, <1>1, PointsRest DEF Beginning
<1>2. CASE ~(tasks' = tasks \ {t} /\ UNCHANGED room)
  <2>1. PICK u : u = [t EXCEPT !.at = "begin"]
    OBVIOUS
  <2>2. tasks' = (tasks \ {t}) \cup {u} /\ u.at = "begin"
    <3>1. u.at = "begin"
      BY <2>1, TaskType DEF Task
    <3>. QED  BY <1>2, <2>1, <3>1 DEF AdvanceTurn, Becomes, Finish
  <2>3. PICK next : next = room.turnPointer + 1
    OBVIOUS
  <2>4. next < Len(room.drawOrder) /\ room' = [room EXCEPT !.turnPointer = next]
    BY <1>2, <2>3 DEF AdvanceTurn, Finish
  <2>5. /\ room'.guessed = room.guessed /\ room'.roundScore = room.roundScore
        /\ room'.usedWords = room.usedWords
        /\ room'.turnPointer = next /\ room'.drawOrder = room.drawOrder
    BY <2>4 DEF TurnInv, TypeInv, TypeOK, Room
  <2>6. ToDraw' /\ DrawerApart'
    BY <2>2, <2>4, <2>5 DEF ToDraw, DrawerApart, Beginning
  <2>7. Paid'
    <3>1. CurrentWord' = CurrentWord
      BY <2>5 DEF CurrentWord
    <3>2. \A i : Pay(i)' = Pay(i)
      BY <1>0, <3>1 DEF Pay
    <3>. QED  BY <1>0, <2>5, <3>1, <3>2 DEF PayInv, Paid, OneGone, InPlace, Earned
  <2>8. EarlierPaysMore'
    BY <1>0, <2>5 DEF PayInv, EarlierPaysMore
  <2>. QED  BY <2>6, <2>7, <2>8 DEF PayInv
<1>. QED  BY <1>1, <1>2

\* A right guess is paid what the place after all those before it is worth.
LEMMA CreditPays == ASSUME TurnInv, PayInv, NEW t \in tasks, Credit(t) PROVE PayInv'
<1>. DEFINE p == t.player
<1>0. /\ TypeOK /\ t.at = "credit" /\ t \in Task /\ room \in Room
      /\ UNCHANGED <<turn, gone, remaining>>
  BY DEF Credit, Around, TurnInv, TypeInv, TypeOK
<1>1. PICK u : u = Handler("end", Nobody) /\ u.at = "end"
  BY FieldsOfHandler DEF Labels
<1>2. tasks \ {t} \subseteq tasks' /\ tasks' \subseteq tasks \cup {u}
  BY <1>1 DEF Credit, Finish, Becomes
<1>3. CASE ~Counts(p)
  BY <1>0, <1>1, <1>2, <1>3, PointsRest DEF Credit, Beginning, Judging
<1>4. CASE Counts(p)
  <2>1. /\ p \in Players /\ p \in room.players /\ p \notin Guessed
    BY <1>0, <1>4 DEF Counts, Room
  <2>2. turn > 0 /\ ~Beginning
    <3>1. turn > 0
      BY <1>0, TurnNumber DEF TurnInv, TalkInv, Fresh, Opening
    <3>2. ~Beginning
      BY <1>0 DEF TurnInv, StepInv, Apart, Starters, Judging, Beginning
    <3>. QED  BY <3>1, <3>2
  <2>3. /\ CurrentDrawer \notin Guessed /\ room.drawing \subseteq {CurrentDrawer}
        /\ p # CurrentDrawer /\ room.roundScore[p] = 0
        /\ \A x \in tasks : x.at \in Judging => x.player # CurrentDrawer
        /\ \A q \in Players : q \notin Guessed /\ q # CurrentDrawer => room.roundScore[q] = 0
    BY <1>0, <2>1, <2>2 DEF PayInv, DrawerApart, Judging
  <2>4. t.word = CurrentWord /\ CurrentWord \in Words
    BY <1>0 DEF TurnInv, StepInv, InStep, TypeInv, HandlersTyped, Captured
  <2>5. PICK L \in Nat : /\ L = Len(room.guessed) /\ GuessOrder = L
                        /\ DOMAIN room.guessed = 1..L
    BY <1>0, <2>3, OrderIsLength, GuessedList
  <2>6. PICK points \in Nat : points = Pay(L)
    BY <1>0, <2>4, <2>5, PayType
  <2>7. PICK scores : scores = [room.roundScore EXCEPT ![p] = points]
    OBVIOUS
  <2>8. PICK g : g = Append(room.guessed, p)
    OBVIOUS
  <2>9. room' = [room EXCEPT !.guessed = g, !.roundScore = scores]
    <3>1. room.roundScore[p] + points = points
      BY <2>3, <2>6
    <3>2. ScoreGuess(remaining, Total, GuessOrder, DifficultyOf[t.word]) = points
      BY <2>4, <2>5, <2>6 DEF Pay
    <3>. QED  BY <1>4, <2>7, <2>8, <3>1, <3>2 DEF Credit
  <2>10. /\ room'.guessed = g /\ room'.roundScore = scores
         /\ room'.turnPointer = room.turnPointer /\ room'.drawOrder = room.drawOrder
         /\ room'.drawing = room.drawing /\ room'.usedWords = room.usedWords
    BY <1>0, <2>9 DEF Room
  <2>11. CurrentWord' = CurrentWord /\ CurrentDrawer' = CurrentDrawer
    BY <2>10 DEF CurrentWord, CurrentDrawer
  <2>12. \A i : Pay(i)' = Pay(i)
    BY <1>0, <2>11 DEF Pay
  <2>13. /\ DOMAIN g = 1..(L + 1) /\ g[L + 1] = p
         /\ \A i \in 1..L : g[i] = room.guessed[i]
    <3>1. room.guessed \in Seq(Players)
      BY <1>0 DEF Room
    <3>2. Len(g) = L + 1 /\ g \in Seq(Players)
      BY <2>1, <2>5, <2>8, <3>1
    <3>. QED  BY <2>1, <2>5, <2>8, <3>1, <3>2
  <2>14. Guessed' = Guessed \cup {p}
    <3>1. \A i \in 1..(L + 1) : i = L + 1 \/ i \in 1..L
      BY <2>5
    <3>2. L + 1 \in 1..(L + 1) /\ \A i \in 1..L : i \in 1..(L + 1)
      BY <2>5
    <3>. QED  BY <2>5, <2>10, <2>13, <3>1, <3>2 DEF Guessed
  <2>15. room.roundScore \in [Players -> Nat] /\ scores[p] = points
         /\ \A q \in Players : q # p => scores[q] = room.roundScore[q]
    BY <1>0, <2>1, <2>7 DEF Room
  <2>16. Earned(L + 1)' = points
    BY <2>10, <2>13, <2>15 DEF Earned
  <2>17. \A i \in 1..L : Earned(i)' = Earned(i) /\ Earned(i) \in Nat
    <3>1. \A i \in 1..L : room.guessed[i] \in Players /\ room.guessed[i] # p
      BY <1>0, <2>1, <2>5, GuessedList DEF Guessed
    <3>. QED  BY <1>0, <2>5, <2>10, <2>13, <2>15, <3>1, GuessedList DEF Earned
  <2>18. ToDraw' /\ DrawerApart'
    <3>1. \A x \in tasks' : x.at \in Judging => x.player # CurrentDrawer
      BY <1>1, <1>2, <2>3 DEF Judging
    <3>2. \A q \in Players : q \notin Guessed' /\ q # CurrentDrawer => scores[q] = 0
      BY <2>3, <2>14, <2>15
    <3>3. CurrentDrawer \notin Guessed'
      BY <2>3, <2>14
    <3>. QED  BY <1>0, <2>3, <2>10, <2>11, <3>1, <3>2, <3>3 DEF PayInv, ToDraw, DrawerApart
  <2>19. ASSUME OneGone, NEW i \in 1..L
         PROVE  /\ Earned(i) >= Pay(i) /\ Pay(i) \in Nat /\ Pay(i - 1) \in Nat
                /\ InPlace(i) => Earned(i) >= Pay(i - 1)
    <3>1. i \in Nat /\ i - 1 \in Nat
      BY <2>5
    <3>. QED  BY <1>0, <2>4, <2>5, <2>19, <3>1, PayType DEF PayInv, Paid
  <2>20. Paid'
    <3>1. SUFFICES ASSUME OneGone', NEW i \in 1..(L + 1)
                   PROVE  Earned(i)' >= Pay(i) /\ (InPlace(i)' => Earned(i)' >= Pay(i - 1))
      BY <2>4, <2>10, <2>11, <2>12, <2>13 DEF Paid
    <3>2. CASE i = L + 1
      <4>1. Pay(L + 1) \in Nat /\ Pay(L + 1) <= Pay(L)
        <5>1. L + 1 \in Nat /\ L <= L + 1
          BY <2>5
        <5>. QED  BY <1>0, <2>4, <2>5, <5>1, PayType, PayFalls
      <4>2. i - 1 = L
        BY <2>5, <3>2
      <4>. QED  BY <2>6, <2>16, <3>2, <4>1, <4>2
    <3>3. CASE i \in 1..L
      <4>1. InPlace(i)' => InPlace(i)
        <5>1. \A j \in 1..(i - 1) : g[j] = room.guessed[j]
          BY <2>5, <2>13, <3>3
        <5>. QED  BY <1>0, <2>10, <5>1 DEF InPlace
      <4>2. OneGone
        BY <1>0, <3>1 DEF OneGone
      <4>. QED  BY <2>17, <2>19, <3>3, <4>1, <4>2
    <3>. QED  BY <2>5, <3>2, <3>3
  <2>21. EarlierPaysMore'
    <3>1. SUFFICES ASSUME NEW i \in 1..(L + 1), NEW j \in 1..(L + 1), i < j
                   PROVE  /\ OneGone' => Earned(i)' >= Earned(j)'
                          /\ (i <= Len(GuessOrderBonus) /\ gone' = {})
                                 => Earned(i)' > Earned(j)'
      BY <2>10, <2>13 DEF EarlierPaysMore, Earned, OneGone
    <3>2. i \in 1..L /\ i \in Nat /\ i - 1 \in Nat /\ i <= L /\ i - 1 < L
      BY <2>5, <3>1
    <3>3. CASE j \in 1..L
      <4>1. /\ OneGone => Earned(i) >= Earned(j)
            /\ (i <= Len(GuessOrderBonus) /\ gone = {}) => Earned(i) > Earned(j)
        BY <2>5, <3>1, <3>2, <3>3 DEF PayInv, EarlierPaysMore, Earned, OneGone
      <4>2. OneGone' => OneGone
        BY <1>0 DEF OneGone
      <4>. QED  BY <1>0, <2>17, <3>2, <3>3, <4>1, <4>2
    <3>4. CASE j = L + 1
      <4>1. Pay(L) <= Pay(i)
        BY <1>0, <2>4, <2>5, <3>2, PayFalls
      <4>2. i <= Len(GuessOrderBonus) => Pay(L) < Pay(i - 1)
        <5>1. i <= Len(GuessOrderBonus) => i - 1 < Len(GuessOrderBonus)
          BY <3>2 DEF GuessOrderBonus
        <5>2. i - 1 <= L
          BY <2>5, <3>2
        <5>. QED  BY <1>0, <2>4, <2>5, <3>2, <5>1, <5>2, PayFalls
      <4>3. Earned(i)' = Earned(i) /\ Earned(i) \in Nat /\ Earned(j)' = Pay(L) /\ Pay(L) \in Nat
        BY <2>6, <2>16, <2>17, <3>2, <3>4
      <4>4. OneGone' => Earned(i) >= Pay(L)
        <5>1. OneGone' => OneGone
          BY <1>0 DEF OneGone
        <5>. QED  BY <2>19, <3>2, <4>1, <4>3, <5>1
      <4>5. (i <= Len(GuessOrderBonus) /\ gone' = {}) => Earned(i) > Pay(L)
        <5>1. gone' = {} => OneGone /\ InPlace(i)
          BY <1>0 DEF OneGone, InPlace
        <5>. QED  BY <2>19, <3>2, <4>2, <4>3, <5>1
      <4>. QED  BY <4>3, <4>4, <4>5
    <3>. QED  BY <2>5, <3>3, <3>4
  <2>. QED  BY <2>18, <2>20, <2>21 DEF PayInv
<1>. QED  BY <1>3, <1>4

\* The drawer is paid when the turn is closed, and has not guessed.
LEMMA ClosePays == ASSUME TurnInv, PayInv, NEW t \in tasks, CloseTurn(t) PROVE PayInv'
<1>0. /\ TypeOK /\ t.at = "close" /\ t \in Task /\ room \in Room
      /\ UNCHANGED <<turn, gone, remaining>>
  BY DEF CloseTurn, Around, TurnInv, TypeInv, TypeOK
<1>1. CASE room.phase \notin {"DRAWING", "WORD_SELECTION"}
  BY <1>0, <1>1, PointsRest DEF CloseTurn, Finish, Beginning
<1>2. CASE room.phase \in {"DRAWING", "WORD_SELECTION"}
  <2>1. turn > 0 /\ InPlay
    BY <1>0, <1>2, TurnNumber DEF TurnInv, TalkInv, Fresh, Opening, InPlay
  <2>2. ~Beginning
    BY <2>1, InPlayApart DEF Beginning, Bringing
  <2>3. PICK scores : scores = [q \in Players |->
                        IF q = CurrentDrawer
                        THEN room.roundScore[q] + ScoreDrawer(Cardinality(Guessed \ {CurrentDrawer}))
                        ELSE room.roundScore[q]]
    OBVIOUS
  <2>4. PICK pen : pen = room.drawing \ {CurrentDrawer}
    OBVIOUS
  <2>5. room' = [room EXCEPT !.phase = "ROUND_END", !.drawing = pen, !.roundScore = scores]
    BY <1>2, <2>3, <2>4 DEF CloseTurn
  <2>6. /\ room'.guessed = room.guessed /\ room'.roundScore = scores
        /\ room'.turnPointer = room.turnPointer /\ room'.drawOrder = room.drawOrder
        /\ room'.drawing = pen /\ room'.usedWords = room.usedWords
    BY <1>0, <2>5 DEF Room
  <2>7. /\ CurrentWord' = CurrentWord /\ CurrentDrawer' = CurrentDrawer /\ Guessed' = Guessed
    BY <2>6 DEF CurrentWord, CurrentDrawer, Guessed
  <2>8. PICK u : u = [t EXCEPT !.at = "wipe"]
    OBVIOUS
  <2>9. u.at = "wipe" /\ tasks' = (tasks \ {t}) \cup {u}
    BY <1>0, <1>2, <2>8 DEF CloseTurn, Becomes, Task
  <2>10. /\ CurrentDrawer \notin Guessed /\ pen \subseteq {CurrentDrawer}
         /\ \A x \in tasks : x.at \in Judging => x.player # CurrentDrawer
         /\ \A q \in Players : q \notin Guessed /\ q # CurrentDrawer => room.roundScore[q] = 0
    BY <2>1, <2>2, <2>4 DEF PayInv, DrawerApart
  <2>11. \A q \in Players : q # CurrentDrawer => scores[q] = room.roundScore[q]
    BY <2>3
  <2>12. ToDraw' /\ DrawerApart'
    <3>1. \A x \in tasks' : x.at \in Judging => x.player # CurrentDrawer
      BY <2>9, <2>10 DEF Judging
    <3>. QED  BY <1>0, <2>6, <2>7, <2>10, <2>11, <3>1 DEF PayInv, ToDraw, DrawerApart
  <2>13. \A i \in DOMAIN room.guessed : Earned(i)' = Earned(i)
    <3>1. \A i \in DOMAIN room.guessed : room.guessed[i] \in Players
                                         /\ room.guessed[i] # CurrentDrawer
      BY <1>0, <2>10, GuessedList DEF Guessed
    <3>. QED  BY <2>6, <2>11, <3>1 DEF Earned
  <2>14. \A i : Pay(i)' = Pay(i) /\ InPlace(i)' = InPlace(i)
    BY <1>0, <2>6, <2>7 DEF Pay, InPlace
  <2>15. Paid'
    BY <1>0, <2>6, <2>7, <2>13, <2>14 DEF PayInv, Paid, OneGone
  <2>16. EarlierPaysMore'
    BY <1>0, <2>6, <2>13 DEF PayInv, EarlierPaysMore, Earned
  <2>. QED  BY <2>12, <2>15, <2>16 DEF PayInv
<1>. QED  BY <1>1, <1>2

\* Where in the old list the entries of the new one were.
LEMMA WithoutIndices ==
    ASSUME NEW S, NEW o, SoundFor(o, S), NEW p
    PROVE  \E k \in 1..(Len(o) + 1) :
              /\ k \in DOMAIN o => o[k] = p
              /\ \A i \in DOMAIN Without(o, p) :
                    /\ i \in Nat /\ Without(o, p)[i] # p
                    /\ i < k => i \in DOMAIN o /\ Without(o, p)[i] = o[i]
                    /\ ~(i < k) => /\ k \in DOMAIN o /\ k <= i /\ i + 1 \in DOMAIN o
                                   /\ Without(o, p)[i] = o[i + 1]
<1>1. DOMAIN o = 1..Len(o) /\ Len(o) \in Nat
  BY DEF SoundFor
<1>2. CASE ~ \E k \in DOMAIN o : o[k] = p
  <2>1. Without(o, p) = o
    BY <1>2 DEF Without
  <2>2. Len(o) + 1 \in 1..(Len(o) + 1) /\ Len(o) + 1 \notin DOMAIN o
    BY <1>1
  <2>3. \A i \in DOMAIN o : i \in Nat /\ i < Len(o) + 1 /\ o[i] # p
    BY <1>1, <1>2
  <2>. QED  BY <2>1, <2>2, <2>3
<1>3. CASE \E k \in DOMAIN o : o[k] = p
  <2>. DEFINE k == CHOOSE x \in DOMAIN o : o[x] = p
              w == [x \in 1..(Len(o) - 1) |-> IF x < k THEN o[x] ELSE o[x + 1]]
  <2>1. k \in 1..Len(o) /\ o[k] = p /\ k \in 1..(Len(o) + 1) /\ k \in Nat
    BY <1>1, <1>3
  <2>2. \A i \in 1..Len(o) : o[i] = p => i = k
    BY <1>1, <2>1 DEF SoundFor
  <2>3. Without(o, p) = w
    BY <1>3 DEF Without
  <2>. HIDE DEF k
  <2>4. ASSUME NEW i \in 1..(Len(o) - 1)
        PROVE  /\ i \in Nat /\ w[i] # p
               /\ i < k => i \in DOMAIN o /\ w[i] = o[i]
               /\ ~(i < k) => k \in DOMAIN o /\ k <= i /\ i + 1 \in DOMAIN o /\ w[i] = o[i + 1]
    <3>1. i \in Nat /\ i \in 1..Len(o) /\ i + 1 \in 1..Len(o)
      BY <1>1
    <3>2. CASE i < k
      <4>1. w[i] = o[i] /\ i # k
        BY <2>1, <3>2
      <4>. QED  BY <1>1, <2>2, <3>1, <3>2, <4>1
    <3>3. CASE ~(i < k)
      <4>1. w[i] = o[i + 1] /\ i + 1 # k /\ k <= i
        BY <2>1, <3>1, <3>3
      <4>. QED  BY <1>1, <2>1, <2>2, <3>1, <3>3, <4>1
    <3>. QED  BY <3>2, <3>3
  <2>. QED  BY <1>1, <2>1, <2>3, <2>4
<1>. QED  BY <1>2, <1>3

\* Whoever came after the one who is removed moves up a place, and has been paid for the
\* one he had: the next guess may be paid as much, and no more.
LEMMA RemovePays ==
    ASSUME TurnInv, PayInv, Shifts = FALSE, Overlap = FALSE, NEW p \in Players, Remove(p)
    PROVE  PayInv'
<1>0. /\ TypeOK /\ room \in Room /\ gone' = gone \cup {p}
      /\ UNCHANGED <<turn, remaining>>
  BY DEF Remove, TurnInv, TypeInv, TypeOK
<1>1. PICK h \in Task : h = Handler("left", p) /\ h.at = "left"
  BY FieldsOfHandler DEF Labels
<1>2. PICK u : u = [h EXCEPT !.snap = Public(room')]
  OBVIOUS
<1>3. tasks' = tasks \cup {u} /\ u.at = "left"
  <2>1. u.at = "left"
    BY <1>1, <1>2 DEF Task
  <2>. QED  BY <1>1, <1>2, <2>1 DEF Remove, Spawn
<1>4. PICK scores : scores = [room.roundScore EXCEPT ![p] = 0]
  OBVIOUS
<1>5. PICK g : g = Without(room.guessed, p)
  OBVIOUS
<1>6. room' = [room EXCEPT !.players = @ \ {p}, !.connected = @ \ {p},
                           !.drawOrder = Without(@, p), !.drawing = @ \ {p},
                           !.guessed = g, !.roundScore = scores]
  BY <1>4, <1>5 DEF Remove
<1>7. /\ room'.guessed = g /\ room'.roundScore = scores
      /\ room'.turnPointer = room.turnPointer
      /\ room'.drawOrder = Without(room.drawOrder, p)
      /\ room'.drawing = room.drawing \ {p} /\ room'.usedWords = room.usedWords
  BY <1>0, <1>6 DEF Room
<1>8. CurrentWord' = CurrentWord /\ \A i : Pay(i)' = Pay(i)
  <2>1. CurrentWord' = CurrentWord
    BY <1>7 DEF CurrentWord
  <2>. QED  BY <1>0, <2>1 DEF Pay
<1>9. SoundFor(room.guessed, room.players) /\ SoundFor(room.drawOrder, room.players)
  BY <1>0 DEF TypeOK
<1>10. PICK k \in 1..(Len(room.guessed) + 1) :
          /\ k \in DOMAIN room.guessed => room.guessed[k] = p
          /\ \A i \in DOMAIN g :
                /\ i \in Nat /\ g[i] # p
                /\ i < k => i \in DOMAIN room.guessed /\ g[i] = room.guessed[i]
                /\ ~(i < k) => /\ k \in DOMAIN room.guessed /\ k <= i
                               /\ i + 1 \in DOMAIN room.guessed
                               /\ g[i] = room.guessed[i + 1]
  BY <1>5, <1>9, WithoutIndices
<1>11. scores[p] = 0 /\ \A q \in Players : q # p => scores[q] = room.roundScore[q]
  BY <1>0, <1>4 DEF Room
<1>12. PICK was : was = [i \in DOMAIN g |-> IF i < k THEN i ELSE i + 1]
  OBVIOUS
<1>13. ASSUME NEW i \in DOMAIN g
       PROVE  /\ was[i] \in DOMAIN room.guessed /\ Earned(i)' = Earned(was[i])
              /\ Earned(was[i]) \in Nat
  <2>1. was[i] \in DOMAIN room.guessed /\ g[i] = room.guessed[was[i]] /\ g[i] # p
    BY <1>10, <1>12
  <2>2. room.guessed[was[i]] \in Players /\ Earned(was[i]) \in Nat
    BY <1>0, <2>1, GuessedList
  <2>. QED  BY <1>7, <1>11, <2>1, <2>2 DEF Earned
<1>14. ToDraw' /\ DrawerApart'
  <2>1. SUFFICES ASSUME turn > 0 PROVE ToDraw' /\ DrawerApart'
    BY <1>0 DEF ToDraw, DrawerApart
  <2>2. PICK n, o : n = room.turnPointer /\ o = room.drawOrder
    OBVIOUS
  <2>3. /\ SoundFor(o, room.players) /\ n \in Nat /\ n < Len(o)
        /\ \A i \in 1..(n + 1) : i \in DOMAIN o => o[i] # p
    BY <1>0, <1>9, <2>1, <2>2 DEF Remove, Room, PayInv, ToDraw
  <2>4. n < Len(Without(o, p)) /\ Without(o, p)[n + 1] = o[n + 1]
    BY <2>3, WithoutLater
  <2>5. CurrentDrawer' = CurrentDrawer
    BY <1>7, <2>2, <2>3, <2>4 DEF CurrentDrawer
  <2>6. Guessed' \subseteq Guessed /\ \A q \in Players : q \notin Guessed' => q \notin Guessed \/ q = p
    <3>1. Guessed' \subseteq Guessed
      BY <1>7, <1>10 DEF Guessed
    <3>2. ASSUME NEW q \in Guessed, q # p PROVE q \in Guessed'
      <4>1. q \in Named(room.guessed)
        BY <3>2 DEF Guessed, Named
      <4>2. q \in Named(g)
        BY <1>5, <1>9, <3>2, <4>1, NamedWithout
      <4>. QED  BY <1>7, <4>2 DEF Guessed, Named
    <3>. QED  BY <3>1, <3>2
  <2>7. Beginning' = Beginning
    BY <1>3 DEF Beginning
  <2>8. ToDraw'
    BY <1>7, <2>2, <2>4 DEF ToDraw
  <2>9. DrawerApart'
    <3>1. SUFFICES ASSUME ~Beginning PROVE DrawerApart'
      BY <2>7 DEF DrawerApart
    <3>2. /\ CurrentDrawer \notin Guessed
          /\ \A t \in tasks : t.at \in Judging => t.player # CurrentDrawer
          /\ \A q \in Players : q \notin Guessed /\ q # CurrentDrawer => room.roundScore[q] = 0
          /\ room.drawing \subseteq {CurrentDrawer}
      BY <2>1, <3>1 DEF PayInv, DrawerApart
    <3>3. \A t \in tasks' : t.at \in Judging => t.player # CurrentDrawer
      BY <1>3, <3>2 DEF Judging
    <3>4. \A q \in Players : q \notin Guessed' /\ q # CurrentDrawer => scores[q] = 0
      BY <1>11, <2>6, <3>2
    <3>. QED  BY <1>7, <2>5, <2>6, <3>2, <3>3, <3>4 DEF DrawerApart
  <2>. QED  BY <2>8, <2>9
<1>15. OneGone' => OneGone /\ gone \subseteq {p}
  BY <1>0 DEF OneGone
<1>16. Paid'
  <2>1. ASSUME OneGone', NEW i \in DOMAIN g
        PROVE  Earned(i)' >= Pay(i) /\ ~InPlace(i)'
    <3>1. ~InPlace(i)'
      <4>1. gone' = {p}
        BY <1>0, <1>15, <2>1
      <4>2. \A j \in 1..(i - 1) : j \in DOMAIN g
        <5>1. SoundFor(g, room.players \ {p})
          BY <1>5, <1>9, WithoutSound
        <5>2. DOMAIN g = 1..Len(g) /\ Len(g) \in Nat
          BY <5>1 DEF SoundFor
        <5>. QED  BY <2>1, <5>2
      <4>. QED  BY <1>7, <1>10, <4>1, <4>2 DEF InPlace
    <3>2. CASE i < k
      <4>1. was[i] = i
        BY <1>12, <3>2
      <4>. QED  BY <1>13, <1>15, <2>1, <3>1, <4>1 DEF PayInv, Paid
    <3>3. CASE ~(i < k)
      <4>1. was[i] = i + 1 /\ i \in Nat /\ k <= i /\ k \in DOMAIN room.guessed
            /\ room.guessed[k] = p
        BY <1>10, <1>12, <3>3
      <4>2. InPlace(i + 1)
        <5>1. k \in 1..((i + 1) - 1)
          BY <4>1
        <5>. QED  BY <1>15, <2>1, <4>1, <5>1 DEF InPlace
      <4>3. Earned(i + 1) >= Pay((i + 1) - 1)
        BY <1>13, <1>15, <2>1, <4>1, <4>2 DEF PayInv, Paid
      <4>4. (i + 1) - 1 = i
        BY <4>1
      <4>. QED  BY <1>13, <3>1, <4>1, <4>3, <4>4
    <3>. QED  BY <3>2, <3>3
  <2>2. g # << >> => CurrentWord \in Words
    <3>1. room.guessed = << >> => g = << >>
      BY <1>5 DEF Without
    <3>. QED  BY <3>1 DEF PayInv, Paid
  <2>. QED  BY <1>7, <1>8, <2>1, <2>2 DEF Paid
<1>17. EarlierPaysMore'
  <2>1. ASSUME NEW i \in DOMAIN g, NEW j \in DOMAIN g, i < j, OneGone'
        PROVE  Earned(i)' >= Earned(j)'
    <3>1. was[i] < was[j]
      BY <1>10, <1>12, <2>1
    <3>2. was[i] \in DOMAIN room.guessed /\ was[j] \in DOMAIN room.guessed
      BY <1>13
    <3>3. Earned(was[i]) >= Earned(was[j])
      BY <1>15, <2>1, <3>1, <3>2 DEF PayInv, EarlierPaysMore, Earned, OneGone
    <3>. QED  BY <1>13, <3>3
  <2>2. gone' # {}
    BY <1>0
  <2>. QED  BY <1>7, <2>1, <2>2 DEF EarlierPaysMore, Earned, OneGone
<1>. QED  BY <1>14, <1>16, <1>17 DEF PayInv

LEMMA PayInit == Init => PayInv
<1>. SUFFICES ASSUME Init PROVE PayInv
  OBVIOUS
<1>1. turn = 0 /\ room.guessed = << >>
  BY DEF Init
<1>. QED  BY <1>1 DEF PayInv, ToDraw, DrawerApart, Paid, EarlierPaysMore

LEMMA PayStep ==
    ASSUME Shifts = FALSE, Overlap = FALSE, TurnInv, PayInv, [Next]_vars PROVE PayInv'
<1>1. CASE UNCHANGED vars
  BY <1>1, PointsRest DEF vars, Beginning
<1>2. CASE Next
  <2>1. ASSUME NEW t \in tasks, Silent(t) PROVE PayInv'
    BY <2>1, HandlersPay, BeginPays, SelectPays, CreditPays, ClosePays, AdvancePays,
       ConnectionsPay DEF Silent
  <2>2. ASSUME NEW t \in tasks, Speech(t) PROVE PayInv'
    BY <2>2, HandlersPay, GuessPays DEF Speech
  <2>3. CASE Event
    <3>1. ASSUME NEW x \in timers,
                 (\E w \in Words : SelectTimeout(x, w)) \/ Hint(x) \/ DrawTimeout(x)
                 \/ RoundEndTimeout(x)
          PROVE  PayInv'
      BY <3>1, EventsPay
    <3>2. ASSUME NEW p \in Players, (\E w \in Words : ChooseWord(p, w)) \/ Reconnect(p)
          PROVE  PayInv'
      BY <3>2, EventsPay
    <3>3. ASSUME NEW p \in Players, (\E g \in Guesses : SubmitGuess(p, g)) \/ SendChat(p)
          PROVE  PayInv'
      BY <3>3, SayPays DEF SubmitGuess, SendChat
    <3>4. ASSUME NEW p \in Players, Lose(p) \/ Remove(p) PROVE PayInv'
      BY <3>4, ConnectionsPay, RemovePays
    <3>. QED  BY <2>3, <3>1, <3>2, <3>3, <3>4, TickPays DEF Event
  <2>. QED  BY <1>2, <2>1, <2>2, <2>3 DEF Next
<1>. QED  BY <1>1, <1>2

THEOREM EarlierEarnsMore ==
    ASSUME Shifts = FALSE, Overlap = FALSE
    PROVE  Spec => []EarlierPaysMore
<1>1. Init => TurnInv /\ PayInv
  BY TurnInit, PayInit
<1>2. TurnInv /\ PayInv /\ [Next]_vars => TurnInv' /\ PayInv'
  BY TurnStep, PayStep
<1>3. PayInv => EarlierPaysMore
  BY DEF PayInv
<1>. QED  BY <1>1, <1>2, <1>3, PTL DEF Spec

-----------------------------------------------------------------------------
(***************************************************************************)
(* Pages.  One handler at a time has something to tell, and it has what    *)
(* the record says; timers run in the turn they were set in; and what a    *)
(* page keeps is what the last of these handlers has sent it.              *)
(***************************************************************************)
Returning == {"rejoin", "bind", "resume"}
Choosing == {"deal", "word", "announce"}
Reports == Choosing \cup Returning \cup {"left"}

Reporting ==
    /\ \A t, u \in tasks : t.at \in Reports /\ u.at \in Reports => t = u
    /\ \A t \in tasks : t.at \in Reports \ {"rejoin"} => t.snap = Public(room)

\* Whoever is in the room is on the connection that the record has.
Wired == \A p \in bound : live[p] # 0 /\ room.socket[p] = live[p]

\* What a handler has captured of players and connections.
Addressed(t) ==
    /\ t.at \in {"rejoin", "bind"} => live[t.player] # 0
    /\ t.at = "bind" => room.socket[t.player] = live[t.player]
    /\ t.at \in Choosing => t.player = CurrentDrawer /\ t.sock = room.socket[t.player]
    /\ t.at \in Judging => /\ t.player \in Players
                           /\ t.player \in back \/ t.sock = room.socket[t.player]
    /\ t.at \in Returning => t.player \in back

\* The word is out: the turn has been announced.
Open == room.phase = "DRAWING" /\ \A t \in tasks : t.at \notin {"word", "announce"}
Ending == {"end", "close", "credit"}
HintsDue == TotalHints(Len(CurrentWord))

EndsInTurn ==
    \A t \in tasks : t.at \in Ending => /\ Open \/ room.phase = "ROUND_END"
                                        /\ \A u \in tasks : u.at \notin Starters
TimersRun ==
    \A s \in timers : /\ s.kind \in {"draw", "hint"} =>
                            Open /\ \A t \in tasks : t.at \notin {"end", "close"}
                      /\ s.kind = "hint" => /\ s = Timer("hint", Nobody, CurrentWord)
                                            /\ secret.revealed < HintsDue
WordReady ==
    /\ \A t \in tasks : /\ t.at \in {"word", "announce"} => room.guessed = << >>
                        /\ t.at = "word" => secret.word = << >>
                        /\ t.at = "announce" => secret.word = CurrentWord /\ secret.revealed = 0
    /\ Open => secret.word = CurrentWord /\ secret.revealed <= HintsDue

ShowsRoom(v, r, p) == v.phase = r.phase /\ v.pen = (p \in r.drawing)
RoomShown == Settled => \A p \in Listening : ShowsRoom(view[p], room, p)
ChoicesShown == room.phase = "WORD_SELECTION" /\ (\A t \in tasks : t.at # "deal") =>
                    \A p \in Listening \cap room.drawing : p \notin back => view[p].choices = TRUE

Masked(m) == \E c \in 0..HintsDue : m = MaskWord(CurrentWord, c)
PageShows(v, p) ==
    /\ Masked(v.mask)
    /\ p \notin Guessed => v.guessed = FALSE
    /\ p \notin back => /\ p \in Guessed => v.guessed = TRUE
                        /\ p \in room.drawing \cup Guessed => v.myWord = CurrentWord
Returns(p) == \E t \in tasks : t.at \in Returning /\ t.player = p
TurnShown == Open => \A p \in Listening : Returns(p) \/ PageShows(view[p], p)

SetInv == /\ Reporting /\ Wired /\ (\A t \in tasks : Addressed(t))
          /\ EndsInTurn /\ TimersRun /\ WordReady
ShownInv == RoomShown /\ ChoicesShown /\ TurnShown
ScreenInv == SetInv /\ ShownInv

-----------------------------------------------------------------------------
\* A hint leaves a letter blank, and so shows another word than the one to be guessed.
LEMMA LastIsHidden ==
    ASSUME NEW n \in Nat, NEW c \in Nat, c < n
    PROVE  n - 1 \notin Revealed(n, c)
<1>1. CASE c = 0
  <2>1. 0..(Smaller(c, n) - 1) = {}
    BY <1>1 DEF Smaller
  <2>. QED  BY <2>1 DEF Revealed
<1>2. CASE c > 0
  <2>1. Smaller(c, n) = c
    BY DEF Smaller
  <2>2. ASSUME NEW k \in 0..(c - 1) PROVE (k * n) \div c # n - 1
    <3>1. PICK q : q = (k * n) \div c
      OBVIOUS
    <3>2. k * n \in Nat
      OBVIOUS
    <3>3. q \in Int /\ q * c <= k * n
      BY <1>2, <3>1, <3>2
    <3>4. k * n <= (c - 1) * n
      OBVIOUS
    <3>5. (c - 1) * n < (n - 1) * c
      <4>1. (c - 1) * n = c * n - n /\ (n - 1) * c = c * n - c
        OBVIOUS
      <4>2. c * n \in Int
        OBVIOUS
      <4>. QED  BY <4>1, <4>2
    <3>6. (c - 1) * n \in Int /\ (n - 1) * c \in Int
      OBVIOUS
    <3>7. q # n - 1
      BY <3>2, <3>3, <3>4, <3>5, <3>6
    <3>. QED  BY <3>1, <3>7
  <2>. QED  BY <2>1, <2>2 DEF Revealed
<1>. QED  BY <1>1, <1>2

LEMMA MaskHides ==
    ASSUME NEW w \in Words, NEW c \in 0..TotalHints(Len(w))
    PROVE  MaskWord(w, c) # w
<1>1. w \in Seq(STRING) /\ w # << >>
  BY TurnTalkAssumption
<1>2. PICK n : n = Len(w) /\ n \in Nat /\ DOMAIN w = 1..n
  BY <1>1
<1>3. n > 0
  BY <1>1, <1>2
<1>4. TotalHints(n) <= n - 1 /\ TotalHints(n) \in Int
  <2>1. (2 * n) \div 5 \in Int
    BY <1>2
  <2>. QED  BY <1>2, <1>3, <2>1 DEF TotalHints, Smaller
<1>5. c \in Nat /\ c < n
  BY <1>2, <1>4
<1>6. n - 1 \notin Revealed(n, c)
  BY <1>2, <1>5, LastIsHidden
<1>7. MaskWord(w, c)[n] = Blank
  BY <1>2, <1>3, <1>6 DEF MaskWord
<1>8. w[n] # Blank
  BY <1>2, <1>3, TurnTalkAssumption
<1>. QED  BY <1>7, <1>8

\* The word that is drawn is a word, and not "nothing yet".
LEMMA WordOfTurn ==
    ASSUME TurnInv, room.phase = "DRAWING"
    PROVE  CurrentWord \in Words /\ CurrentWord # Null
<1>1. room.usedWords \in Seq(Words) /\ room.usedWords # << >>
  BY DEF TurnInv, TypeInv, TypeOK, Room, StepInv, WordKept
<1>2. Len(room.usedWords) \in 1..Len(room.usedWords)
  BY <1>1
<1>3. CurrentWord \in Words
  BY <1>1, <1>2 DEF CurrentWord
<1>. QED  BY <1>3, TurnTalkAssumption

LEMMA ScreensShow == ASSUME TurnInv, ScreenInv PROVE ScreenTrue
<1>. SUFFICES ASSUME tasks = {}, NEW p \in Listening \cap room.players
              PROVE  LET v == view[p]
                         knows == p \in room.drawing \cup Guessed
                     IN /\ v.phase = room.phase
                        /\ v.pen <=> (p \in room.drawing)
                        /\ p \notin back =>
                              /\ OffersChoices(v) <=> (room.phase = "WORD_SELECTION" /\ p \in room.drawing)
                              /\ room.phase = "DRAWING" =>
                                    /\ InputIsGuess(v) <=> ~knows
                                    /\ (WordDisplay(v) = CurrentWord) <=> knows
                        /\ (room.phase = "DRAWING" /\ ~knows) => WordDisplay(v) # CurrentWord
  BY DEF ScreenTrue
<1>1. PICK v : v = view[p] /\ v \in View
  <2>1. p \in Players
    BY DEF TurnInv, TypeInv, TypeOK, Room
  <2>. QED  BY <2>1 DEF TurnInv, TypeInv, TypeOK
<1>2. v.phase = room.phase /\ v.pen = (p \in room.drawing)
  BY <1>1 DEF ScreenInv, ShownInv, RoomShown, Settled, ShowsRoom
<1>3. p \notin back => (OffersChoices(v) <=> (room.phase = "WORD_SELECTION" /\ p \in room.drawing))
  BY <1>1, <1>2 DEF ScreenInv, ShownInv, ChoicesShown, Settled, OffersChoices
<1>4. ASSUME room.phase = "DRAWING"
      PROVE  /\ p \notin room.drawing \cup Guessed => WordDisplay(v) # CurrentWord
             /\ p \notin back => /\ InputIsGuess(v) <=> p \notin room.drawing \cup Guessed
                                 /\ p \in room.drawing \cup Guessed => WordDisplay(v) = CurrentWord
  <2>1. PageShows(v, p)
    BY <1>1, <1>4 DEF ScreenInv, ShownInv, TurnShown, Open, Returns
  <2>2. CurrentWord \in Words /\ CurrentWord # Null
    BY <1>4, WordOfTurn
  <2>3. v.mask # CurrentWord
    BY <2>1, <2>2, MaskHides DEF PageShows, Masked, HintsDue
  <2>4. p \notin room.drawing \cup Guessed => WordDisplay(v) = v.mask
    BY <1>2, <2>1 DEF PageShows, WordDisplay
  <2>5. p \notin back => (InputIsGuess(v) <=> p \notin room.drawing \cup Guessed)
    BY <1>2, <1>4, <2>1 DEF PageShows, InputIsGuess
  <2>6. p \notin back /\ p \in room.drawing \cup Guessed => WordDisplay(v) = CurrentWord
    BY <1>2, <2>1, <2>2 DEF PageShows, WordDisplay
  <2>. QED  BY <2>3, <2>4, <2>5, <2>6
<1>. QED  BY <1>1, <1>2, <1>3, <1>4

\* What the pages do with what they are sent.
LEMMA SetRoomPage ==
    ASSUME NEW v \in View, NEW s, NEW p
    PROVE  LET x == SetRoom(v, s, p)
           IN  /\ x.phase = s.phase /\ x.pen = (p \in s.drawing)
               /\ x.mask = v.mask /\ x.myWord = v.myWord
               /\ x.guessed = v.guessed /\ x.choices = v.choices
BY DEF View, SetRoom

LEMMA StartTurnPage ==
    ASSUME NEW v \in View, NEW m
    PROVE  LET x == StartTurn(v, m)
           IN  /\ x.phase = v.phase /\ x.pen = v.pen
               /\ x.mask = m /\ x.guessed = FALSE
BY DEF View, StartTurn

LEMMA SetMaskedPage ==
    ASSUME NEW v \in View, NEW m
    PROVE  LET x == SetMasked(v, m)
           IN  /\ x.phase = v.phase /\ x.pen = v.pen /\ x.choices = v.choices
               /\ x.mask = m /\ x.guessed = v.guessed /\ x.myWord = v.myWord
BY DEF View, SetMasked

LEMMA SetMyWordPage ==
    ASSUME NEW v \in View, NEW w
    PROVE  LET x == SetMyWord(v, w)
           IN  /\ x.phase = v.phase /\ x.pen = v.pen /\ x.choices = v.choices
               /\ x.mask = v.mask /\ x.guessed = v.guessed /\ x.myWord = w
BY DEF View, SetMyWord

LEMMA OtherPages ==
    ASSUME NEW v \in View
    PROVE  /\ \A w : LET x == EndRound(v, w) IN x.phase = v.phase /\ x.pen = v.pen
           /\ LET x == SetWordChoices(v)
              IN  x.phase = v.phase /\ x.pen = v.pen /\ x.choices = TRUE
           /\ LET x == MarkGuessed(v)
              IN  /\ x.phase = v.phase /\ x.pen = v.pen /\ x.choices = v.choices
                  /\ x.mask = v.mask /\ x.guessed = TRUE /\ x.myWord = v.myWord
BY DEF View, EndRound, SetWordChoices, MarkGuessed

\* The parts of a page that room:updated leaves alone.
SameTurnPart(x, v) == /\ x.mask = v.mask /\ x.myWord = v.myWord
                      /\ x.guessed = v.guessed /\ x.choices = v.choices

LEMMA RoomStateShows ==
    ASSUME TurnInv, NEW r, NEW p \in Listening, Public(r) \in Snapshot
    PROVE  LET x == RoomState(Public(r))[p]
           IN  x \in View /\ ShowsRoom(x, r, p) /\ SameTurnPart(x, view[p])
<1>1. p \in Players /\ view[p] \in View
  BY DEF Listening, TurnInv, TypeInv, TypeOK
<1>2. RoomState(Public(r))[p] = SetRoom(view[p], Public(r), p)
  BY <1>1 DEF RoomState
<1>3. SetRoom(view[p], Public(r), p) \in View
  BY <1>1, PageTypes
<1>4. PICK s : s = Public(r) /\ s.phase = r.phase /\ s.drawing = r.drawing
  BY DEF Public
<1>5. PICK x : x = SetRoom(view[p], s, p)
  OBVIOUS
<1>6. /\ x.phase = s.phase /\ x.pen = (p \in s.drawing)
      /\ x.mask = view[p].mask /\ x.myWord = view[p].myWord
      /\ x.guessed = view[p].guessed /\ x.choices = view[p].choices
  BY <1>1, <1>5, SetRoomPage
<1>7. x = RoomState(Public(r))[p] /\ x \in View
  BY <1>2, <1>3, <1>4, <1>5
<1>. QED  BY <1>4, <1>5, <1>6, <1>7 DEF ShowsRoom, SameTurnPart

LEMMA ListeningPage ==
    ASSUME TurnInv, NEW p \in Listening PROVE p \in Players /\ p \in bound /\ view[p] \in View
BY DEF Listening, TurnInv, TypeInv, TypeOK

\* A page of the turn stays one.
LEMMA PageStays ==
    ASSUME room'.usedWords = room.usedWords, back \subseteq back',
           NEW p, p \in Guessed' <=> p \in Guessed,
           p \in room'.drawing => p \in room.drawing,
           NEW v, NEW x, x.mask = v.mask, x.guessed = v.guessed, x.myWord = v.myWord,
           PageShows(v, p)
    PROVE  PageShows(x, p)'
<1>1. CurrentWord' = CurrentWord /\ HintsDue' = HintsDue
  BY DEF CurrentWord, HintsDue
<1>. QED  BY <1>1 DEF PageShows, Masked

-----------------------------------------------------------------------------
(***************************************************************************)
(* Steps that tell the pages nothing and leave them nothing to be told.    *)
(***************************************************************************)
SameShown ==
    /\ room'.phase = room.phase /\ room'.drawing = room.drawing /\ room'.guessed = room.guessed
    /\ room'.usedWords = room.usedWords /\ room'.socket = room.socket
    /\ UNCHANGED <<secret, live, bound, view, back>>
    /\ \A s \in timers' : s \in timers \/ s.kind \notin {"draw", "hint"}

Unreported(u) == /\ u.at \notin Reports
                 /\ u.at \in Judging => /\ u.player \in Players
                                        /\ u.player \in back \/ u.sock = room.socket[u.player]

SameReports == /\ \A t \in tasks : t.at \in Reports => t \in tasks'
               /\ \A u \in tasks' : u \in tasks \/ Unreported(u)

MayEnd(u) == u.at \in Ending => /\ Open \/ room.phase = "ROUND_END"
                                /\ \A t \in tasks' : t.at \notin Starters

NoTimerRuns == \A s \in timers' : s.kind \notin {"draw", "hint"}

LEMMA CalmKeeps ==
    ASSUME TurnInv, ScreenInv, SameShown, SameReports,
           CurrentDrawer' = CurrentDrawer \/ \A t \in tasks : t.at \notin Choosing,
           \A u \in tasks' : MayEnd(u),
           NoTimerRuns \/ \A u \in tasks' : u \in tasks \/ u.at \notin {"end", "close"}
    PROVE  ScreenInv'
<1>. USE DEF SameShown, SameReports
<1>1. Public(room') = Public(room) /\ Listening' = Listening /\ Guessed' = Guessed
      /\ CurrentWord' = CurrentWord /\ HintsDue' = HintsDue
  BY DEF Public, Listening, Guessed, CurrentWord, HintsDue
<1>2. \A u \in tasks' : u.at \in Reports => u \in tasks
  BY DEF Unreported
<1>3. Reporting'
  BY <1>1, <1>2 DEF ScreenInv, SetInv, Reporting
<1>4. Wired'
  BY DEF ScreenInv, SetInv, Wired
<1>5. \A t \in tasks' : Addressed(t)'
  <2>1. ASSUME NEW t \in tasks', t \in tasks PROVE Addressed(t)'
    BY <2>1 DEF ScreenInv, SetInv, Addressed
  <2>2. ASSUME NEW t \in tasks', Unreported(t) PROVE Addressed(t)'
    BY <2>2 DEF Unreported, Reports, Choosing, Returning, Addressed
  <2>. QED  BY <2>1, <2>2
<1>6. Open' = Open
  BY <1>2 DEF Open, Reports, Choosing
<1>7. EndsInTurn'
  BY <1>6 DEF EndsInTurn, MayEnd
<1>8. TimersRun'
  BY <1>1, <1>6 DEF ScreenInv, SetInv, TimersRun, NoTimerRuns
<1>9. WordReady'
  BY <1>1, <1>2, <1>6 DEF ScreenInv, SetInv, WordReady, Reports, Choosing
<1>10. SetInv'
  BY <1>3, <1>4, <1>5, <1>7, <1>8, <1>9 DEF SetInv
<1>11. RoomShown'
  <2>1. Settled' => Settled
    BY DEF Settled, Reports, Choosing, Returning
  <2>. QED  BY <1>1, <2>1 DEF ScreenInv, ShownInv, RoomShown, ShowsRoom
<1>12. ChoicesShown'
  <2>1. (\A t \in tasks' : t.at # "deal") => \A t \in tasks : t.at # "deal"
    BY DEF Reports, Choosing
  <2>. QED  BY <1>1, <2>1 DEF ScreenInv, ShownInv, ChoicesShown
<1>13. TurnShown'
  <2>1. \A p : Returns(p) => Returns(p)'
    BY DEF Returns, Reports
  <2>2. \A p \in Listening : PageShows(view[p], p) => PageShows(view[p], p)'
    BY <1>1, PageStays
  <2>. QED  BY <1>1, <1>6, <2>1, <2>2 DEF ScreenInv, ShownInv, TurnShown
<1>. QED  BY <1>10, <1>11, <1>12, <1>13 DEF ScreenInv, ShownInv

\* In particular a handler that starts, goes on or ends.
Unnoticed(u) == /\ Unreported(u) /\ u.at \notin Starters
                /\ u.at \in Ending => Open \/ room.phase = "ROUND_END"
                /\ NoTimerRuns \/ u.at \notin {"end", "close"}

LEMMA UnnoticedKeeps ==
    ASSUME TurnInv, ScreenInv, UNCHANGED <<room, secret, live, bound, view, back>>,
           timers' \subseteq timers,
           \A t \in tasks : t.at \in Reports => t \in tasks',
           \A u \in tasks' : \/ u \in tasks
                             \/ /\ Unnoticed(u)
                                /\ u.at \in Ending => \A t \in tasks : t.at \notin Starters
    PROVE  ScreenInv'
<1>1. SameShown /\ CurrentDrawer' = CurrentDrawer
  BY DEF SameShown, CurrentDrawer
<1>2. SameReports
  BY DEF SameReports, Unnoticed
<1>3. \A u \in tasks' : u.at \in Ending => Open \/ room.phase = "ROUND_END"
  BY DEF Unnoticed, ScreenInv, SetInv, EndsInTurn
<1>4. (\E u \in tasks' : u.at \in Ending) => \A t \in tasks' : t.at \notin Starters
  BY DEF Unnoticed, ScreenInv, SetInv, EndsInTurn
<1>5. \A u \in tasks' : MayEnd(u)
  BY <1>3, <1>4 DEF MayEnd
<1>6. NoTimerRuns \/ \A u \in tasks' : u \in tasks \/ u.at \notin {"end", "close"}
  BY DEF Unnoticed
<1>. QED  BY <1>1, <1>2, <1>5, <1>6, CalmKeeps

LEMMA ChooseShown ==
    ASSUME TurnInv, ScreenInv, NEW p \in Players, NEW w,
           \/ ChooseWord(p, w)
           \/ \E s \in timers : s.player = p /\ SelectTimeout(s, w)
    PROVE  ScreenInv'
<1>1. PICK h : h = Handler("choose", p) /\ h \in Task /\ h.at = "choose"
  BY FieldsOfHandler DEF Labels
<1>2. PICK u : u = [h EXCEPT !.word = w, !.choices = secret.choices]
  OBVIOUS
<1>3. u.at = "choose"
  BY <1>1, <1>2 DEF Task
<1>4. /\ UNCHANGED <<room, secret, live, bound, view, back>>
      /\ timers' \subseteq timers /\ tasks' = tasks \cup {u}
  BY <1>1, <1>2 DEF ChooseWord, SelectTimeout, Spawn, Around
<1>5. Unnoticed(u) /\ u.at \notin Ending
  BY <1>3 DEF Unnoticed, Unreported, Reports, Choosing, Returning, Judging, Starters, Ending
<1>. QED  BY <1>4, <1>5, UnnoticedKeeps

LEMMA SayShown ==
    ASSUME TurnInv, ScreenInv, NEW p \in Players, NEW label \in {"guess", "chat"}, NEW text,
           Say(label, p, text)
    PROVE  ScreenInv'
<1>. DEFINE typed == IF label = "guess" /\ room.phase = "DRAWING" /\ secret.word # << >>
                     THEN turn ELSE 0
            knows == IF p \in Insiders THEN turn ELSE 0
            n == Unused(p)
<1>1. PICK h : h = Handler(label, p) /\ h \in Task /\ h.at = label
  BY FieldsOfHandler DEF Labels
<1>2. PICK u : u = [h EXCEPT !.n = n, !.text = text, !.knows = knows, !.typed = typed]
  OBVIOUS
<1>3. /\ UNCHANGED <<room, secret, live, bound, view, back, timers>>
      /\ tasks' = tasks \cup {u}
  BY <1>1, <1>2 DEF Say, Spawn, Typed
<1>. HIDE DEF n, knows, typed
<1>4. u.at = label
  BY <1>1, <1>2 DEF Task
<1>5. Unnoticed(u) /\ u.at \notin Ending
  BY <1>4 DEF Unnoticed, Unreported, Reports, Choosing, Returning, Judging, Starters, Ending
<1>. QED  BY <1>3, <1>5, UnnoticedKeeps

LEMMA GuessShown == ASSUME TurnInv, ScreenInv, NEW t \in tasks, Guess(t) PROVE ScreenInv'
<1>0. UNCHANGED <<room, secret, live, bound, view, back, timers>> /\ t.at \notin Reports
  BY DEF Guess, Around, Reports, Choosing, Returning
<1>1. CASE Finish(t)
  BY <1>0, <1>1, UnnoticedKeeps DEF Finish
<1>2. CASE ~Finish(t)
  <2>1. PICK u : u = [t EXCEPT !.at = "match", !.drawer = CurrentDrawer,
                               !.sock = room.socket[t.player]]
    OBVIOUS
  <2>2. tasks' = (tasks \ {t}) \cup {u} /\ t.player \in room.players
    BY <1>2, <2>1 DEF Guess, Becomes
  <2>5. t.player \in Players
    BY <2>2 DEF TurnInv, TypeInv, TypeOK, Room
  <2>3. u.at = "match" /\ u.player = t.player /\ u.sock = room.socket[t.player]
    BY <2>1, TaskType DEF Task
  <2>4. Unnoticed(u) /\ u.at \notin Ending
    BY <2>3, <2>5
       DEF Unnoticed, Unreported, Reports, Choosing, Returning, Judging, Starters, Ending
  <2>. QED  BY <1>0, <2>2, <2>4, UnnoticedKeeps
<1>. QED  BY <1>1, <1>2

\* A guess is right only when the word of the turn is out, and nobody guesses it by luck
\* before it is announced.
LEMMA MatchShown ==
    ASSUME Luck = FALSE, TurnInv, ScreenInv, NEW t \in tasks, Match(t) PROVE ScreenInv'
<1>0. /\ UNCHANGED <<room, secret, live, bound, view, back, timers>>
      /\ t.at = "match" /\ t.at \notin Reports
  BY DEF Match, Around, Reports, Choosing, Returning
<1>1. CASE Finish(t)
  BY <1>0, <1>1, UnnoticedKeeps DEF Finish
<1>2. CASE ~Finish(t)
  <2>1. PICK u : u = [t EXCEPT !.at = "credit", !.word = secret.word]
    OBVIOUS
  <2>2. /\ secret.word # << >> /\ tasks' = (tasks \ {t}) \cup {u}
        /\ \A x \in tasks : x.at # "announce"
    BY <1>2, <2>1 DEF Match, Becomes
  <2>3. u.at = "credit" /\ u.player = t.player /\ u.sock = t.sock
    BY <2>1, TaskType DEF Task
  <2>4. \A x \in tasks : x.at \notin Starters
    BY <1>0 DEF TurnInv, StepInv, Apart, Judging
  <2>5. InStep(t) /\ room.phase \in Phases /\ Addressed(t)
    BY DEF TurnInv, TypeInv, TypeOK, Room, StepInv, ScreenInv, SetInv
  <2>6. \A x \in tasks : x.at # "word"
    BY <2>2 DEF ScreenInv, SetInv, WordReady
  <2>7. Open \/ room.phase = "ROUND_END"
    BY <1>0, <2>2, <2>5, <2>6 DEF InStep, Judging, Phases, Open
  <2>8. Unreported(u)
    BY <1>0, <2>3, <2>5
       DEF Unreported, Reports, Choosing, Returning, Judging, Addressed
  <2>9. Unnoticed(u)
    BY <2>3, <2>7, <2>8 DEF Unnoticed, Starters
  <2>. QED  BY <1>0, <2>2, <2>4, <2>9, UnnoticedKeeps
<1>. QED  BY <1>1, <1>2

LEMMA ChatShown ==
    ASSUME TurnInv, ScreenInv, NEW t \in tasks, RouteChat(t) PROVE ScreenInv'
<1>1. /\ UNCHANGED <<room, secret, live, bound, view, back, timers>>
      /\ t.at \notin Reports /\ tasks' = tasks \ {t}
  BY DEF RouteChat, Finish, Around, Reports, Choosing, Returning
<1>. QED  BY <1>1, UnnoticedKeeps

LEMMA TickShown == ASSUME TurnInv, ScreenInv, Tick PROVE ScreenInv'
<1>1. UNCHANGED <<room, secret, live, bound, view, back, timers, tasks>>
  BY DEF Tick, Around
<1>. QED  BY <1>1, UnnoticedKeeps

LEMMA TimeoutShown ==
    ASSUME TurnInv, ScreenInv, NEW d \in timers, DrawTimeout(d) PROVE ScreenInv'
<1>1. PICK u : u = Handler("end", Nobody) /\ u.at = "end"
  BY FieldsOfHandler DEF Labels
<1>2. /\ UNCHANGED <<room, secret, live, bound, view, back>>
      /\ tasks' = tasks \cup {u} /\ timers' = Cleared({"draw", "hint"}) /\ d.kind = "draw"
  BY <1>1 DEF DrawTimeout, Spawn, Around
<1>3. Open
  BY <1>2 DEF ScreenInv, SetInv, TimersRun
<1>4. \A t \in tasks : t.at \notin Starters
  BY <1>3, DrawingInPlay, InPlayApart DEF Open, Bringing, Starters
<1>5. Unnoticed(u)
  BY <1>1, <1>2, <1>3
     DEF Unnoticed, Unreported, Reports, Choosing, Returning, Judging, Starters, NoTimerRuns, Cleared
<1>. QED  BY <1>2, <1>4, <1>5, UnnoticedKeeps DEF Cleared

LEMMA EndShown == ASSUME TurnInv, ScreenInv, NEW t \in tasks, EndTurn(t) PROVE ScreenInv'
<1>1. PICK u : u = [t EXCEPT !.at = "close", !.word = secret.word]
  OBVIOUS
<1>2. /\ UNCHANGED <<room, secret, live, bound, view, back, timers>>
      /\ tasks' = (tasks \ {t}) \cup {u} /\ t.at = "end"
  BY <1>1 DEF EndTurn, Becomes, Around
<1>3. u.at = "close"
  BY <1>1, TaskType DEF Task
<1>4. /\ Open \/ room.phase = "ROUND_END"
      /\ \A x \in tasks : x.at \notin Starters
      /\ \A s \in timers : s.kind \notin {"draw", "hint"}
  <2>1. "end" \in Ending
    BY DEF Ending
  <2>2. \A s \in timers : s.kind \notin {"draw", "hint"}
    BY <1>2 DEF ScreenInv, SetInv, TimersRun
  <2>. QED  BY <1>2, <2>1, <2>2 DEF ScreenInv, SetInv, EndsInTurn
<1>5. Unnoticed(u) /\ t.at \notin Reports
  BY <1>2, <1>3, <1>4
     DEF Unnoticed, Unreported, Reports, Choosing, Returning, Judging, Starters, NoTimerRuns
<1>. QED  BY <1>2, <1>4, <1>5, UnnoticedKeeps

LEMMA PauseShown ==
    ASSUME TurnInv, ScreenInv, NEW s \in timers, RoundEndTimeout(s) PROVE ScreenInv'
<1>1. PICK u : u = Handler("advance", Nobody) /\ u.at = "advance"
  BY FieldsOfHandler DEF Labels
<1>2. /\ UNCHANGED <<room, secret, live, bound, view, back>>
      /\ tasks' = tasks \cup {u} /\ tasks = {} /\ timers' \subseteq timers
  BY <1>1 DEF RoundEndTimeout, Spawn, Around
<1>3. SameShown /\ CurrentDrawer' = CurrentDrawer
  BY <1>2 DEF SameShown, CurrentDrawer
<1>4. SameReports
  BY <1>1, <1>2 DEF SameReports, Unreported, Reports, Choosing, Returning, Judging
<1>5. \A x \in tasks' : MayEnd(x) /\ x.at \notin {"end", "close"}
  BY <1>1, <1>2 DEF MayEnd, Ending
<1>. QED  BY <1>3, <1>4, <1>5, CalmKeeps

\* The drawer changes when nobody is at work on his turn.
LEMMA AdvanceShown == ASSUME TurnInv, ScreenInv, NEW t \in tasks, AdvanceTurn(t) PROVE ScreenInv'
<1>0. UNCHANGED <<secret, live, bound, view, back, timers>> /\ t.at = "advance"
  BY DEF AdvanceTurn, Around
<1>1. t.at \notin Reports
  BY <1>0 DEF Reports, Choosing, Returning
<1>2. CASE Finish(t) /\ UNCHANGED room
  BY <1>0, <1>1, <1>2, UnnoticedKeeps DEF Finish
<1>3. CASE ~(Finish(t) /\ UNCHANGED room)
  <2>1. PICK u : u = [t EXCEPT !.at = "begin"]
    OBVIOUS
  <2>2. room' = [room EXCEPT !.turnPointer = room.turnPointer + 1] /\ tasks' = (tasks \ {t}) \cup {u}
    BY <1>3, <2>1 DEF AdvanceTurn, Becomes
  <2>3. u.at = "begin"
    BY <2>1, TaskType DEF Task
  <2>4. SameShown
    BY <1>0, <2>2 DEF SameShown, TurnInv, TypeInv, TypeOK, Room
  <2>5. SameReports
    BY <1>1, <2>2, <2>3
       DEF SameReports, Unreported, Reports, Choosing, Returning, Judging
  <2>6. ASSUME NEW x \in tasks, x.at \in Choosing PROVE FALSE
    <3>1. turn > 0 /\ turn \in Nat
      BY <2>6, TurnNumber DEF TurnInv, TalkInv, Fresh, Opening, Choosing
    <3>2. room.phase # "ROUND_END"
      BY <2>6 DEF TurnInv, StepInv, InStep, Choosing
    <3>. QED  BY <1>0, <3>1, <3>2, InPlayApart DEF InPlay, Bringing
  <2>7. \A x \in tasks : x.at \notin Ending
    BY <1>0 DEF ScreenInv, SetInv, EndsInTurn, Starters
  <2>8. \A x \in tasks' : MayEnd(x) /\ (x \in tasks \/ x.at \notin {"end", "close"})
    BY <2>2, <2>3, <2>7 DEF MayEnd, Ending
  <2>. QED  BY <2>4, <2>5, <2>6, <2>8, CalmKeeps
<1>. QED  BY <1>2, <1>3

LEMMA ChoosingInPlay ==
    ASSUME TurnInv, NEW t \in tasks, t.at \in Choosing
    PROVE  InPlay /\ turn > 0 /\ room.phase = (IF t.at = "deal" THEN "WORD_SELECTION" ELSE "DRAWING")
<1>1. turn > 0
  BY TurnNumber DEF TurnInv, TalkInv, Fresh, Opening, Choosing
<1>2. room.phase = (IF t.at = "deal" THEN "WORD_SELECTION" ELSE "DRAWING")
  BY DEF TurnInv, StepInv, InStep, Choosing
<1>. QED  BY <1>1, <1>2 DEF InPlay

\* While the turn is not open and the pause has not begun, no timer of a turn runs and no
\* handler ends it.
LEMMA NothingEnds ==
    ASSUME ScreenInv, ~Open
    PROVE  /\ \A s \in timers : s.kind \notin {"draw", "hint"}
           /\ room.phase # "ROUND_END" => \A u \in tasks : u.at \notin Ending
BY DEF ScreenInv, SetInv, TimersRun, EndsInTurn

LEMMA BeginShown ==
    ASSUME Overlap = FALSE, TurnInv, ScreenInv, NEW t \in tasks, BeginTurn(t) PROVE ScreenInv'
<1>0. /\ UNCHANGED <<secret, live, bound, view, timers>> /\ t.at = "begin" /\ Settled
  BY DEF BeginTurn, InTurn
<1>1. \A x \in tasks : x.at \notin Reports
  BY <1>0 DEF Settled, Reports, Choosing, Returning
<1>2. CASE CurrentDrawer = Nobody
  <2>1. UNCHANGED <<room, back>> /\ tasks' = tasks \ {t}
    BY <1>2 DEF BeginTurn, Finish
  <2>. QED  BY <1>0, <1>1, <2>1, UnnoticedKeeps
<1>3. CASE CurrentDrawer # Nobody
  <2>1. PICK d : d = CurrentDrawer /\ d \in Players
    BY <1>3, DrawerType DEF TurnInv, TypeInv
  <2>2. PICK u : u = [t EXCEPT !.at = "deal", !.player = d, !.sock = room.socket[d],
                               !.snap = Public(room')]
    OBVIOUS
  <2>3. /\ room' = [room EXCEPT !.phase = "WORD_SELECTION", !.guessed = << >>,
                                !.roundScore = [p \in Players |-> 0],
                                !.drawing = {d} \cap room.players]
        /\ back' = {} /\ tasks' = (tasks \ {t}) \cup {u}
    BY <1>3, <2>1, <2>2 DEF BeginTurn, Becomes
  <2>4. /\ room'.phase = "WORD_SELECTION" /\ room'.socket = room.socket
        /\ room'.drawOrder = room.drawOrder /\ room'.turnPointer = room.turnPointer
    BY <2>3 DEF TurnInv, TypeInv, TypeOK, Room
  <2>5. u.at = "deal" /\ u.player = d /\ u.sock = room.socket[d] /\ u.snap = Public(room')
    BY <2>2, TaskType DEF Task
  <2>6. \A x \in tasks : x.at \notin Judging /\ x.at \notin Ending
    BY <1>0 DEF TurnInv, StepInv, Apart, ScreenInv, SetInv, EndsInTurn, Starters
  <2>7. ~Open
    BY <1>0, DrawingInPlay, InPlayApart DEF Open, Bringing
  <2>8. CurrentDrawer' = d
    BY <2>1, <2>4 DEF CurrentDrawer
  <2>9. \A x \in tasks' : x = u \/ (x \in tasks /\ x.at \notin Reports \cup Judging \cup Ending)
    BY <1>1, <2>3, <2>6
  <2>10. \A x \in tasks' : x.at \notin Ending \cup {"word", "announce"}
    BY <2>5, <2>9 DEF Ending, Reports, Choosing
  <2>11. ~Open'
    BY <2>4 DEF Open
  <2>12. Reporting'
    BY <2>5, <2>9 DEF Reporting
  <2>13. Wired'
    BY <1>0, <2>4 DEF ScreenInv, SetInv, Wired
  <2>14. \A x \in tasks' : Addressed(x)'
    <3>1. Addressed(u)'
      BY <2>4, <2>5, <2>8 DEF Addressed, Choosing, Judging, Returning
    <3>. QED  BY <2>9, <3>1 DEF Addressed, Reports, Choosing, Returning
  <2>15. EndsInTurn' /\ TimersRun' /\ WordReady'
    BY <1>0, <2>7, <2>10, <2>11, NothingEnds DEF EndsInTurn, TimersRun, WordReady
  <2>16. u \in tasks' /\ ~Settled'
    BY <2>3, <2>5 DEF Settled
  <2>17. RoomShown' /\ ChoicesShown' /\ TurnShown'
    BY <2>5, <2>11, <2>16 DEF RoomShown, ChoicesShown, TurnShown
  <2>. QED  BY <2>12, <2>13, <2>14, <2>15, <2>17 DEF ScreenInv, SetInv, ShownInv
<1>. QED  BY <1>2, <1>3

\* The reporting handler is the only one, and has what the record says.
LEMMA OneReports ==
    ASSUME ScreenInv, NEW t \in tasks, t.at \in Reports
    PROVE  /\ \A x \in tasks : x = t \/ x.at \notin Reports
           /\ t.at # "rejoin" => t.snap = Public(room)
           /\ Addressed(t)
BY DEF ScreenInv, SetInv, Reporting

\* When it has ended the pages are told.
LEMMA ReportEnds ==
    ASSUME TurnInv, ScreenInv, NEW t \in tasks, t.at \in Reports, Finish(t)
    PROVE  /\ \A x \in tasks' : x \in tasks /\ x.at \notin Reports
           /\ Settled'
BY OneReports DEF Finish, Settled, Reports, Choosing, Returning

LEMMA DealShown == ASSUME TurnInv, ScreenInv, NEW t \in tasks, Deal(t) PROVE ScreenInv'
<1>0. /\ UNCHANGED <<room, live, bound, back>> /\ Finish(t) /\ t.at = "deal"
      /\ timers' = Cleared({"select"}) \cup {Timer("select", t.player, << >>)}
      /\ t.at \in Reports /\ t.at \in Choosing
  BY DEF Deal, Around, Reports, Choosing
<1>1. /\ \A x \in tasks' : x \in tasks /\ x.at \notin Reports
      /\ Settled'
  BY <1>0, ReportEnds
<1>2. Addressed(t) /\ t.snap = Public(room)
  BY <1>0, OneReports
<1>3. room.phase = "WORD_SELECTION" /\ InPlay
  BY <1>0, ChoosingInPlay
<1>4. ~Open /\ ~Open'
  BY <1>0, <1>3 DEF Open
<1>5. /\ \A s \in timers' : s.kind \notin {"draw", "hint"}
      /\ \A x \in tasks' : x.at \notin Ending
  BY <1>0, <1>1, <1>3, <1>4, NothingEnds DEF Cleared, Timer
<1>6. SetInv'
  <2>1. Reporting' /\ Wired'
    BY <1>0, <1>1 DEF ScreenInv, SetInv, Reporting, Wired
  <2>2. \A x \in tasks' : Addressed(x)'
    BY <1>0, <1>1 DEF ScreenInv, SetInv, Addressed, CurrentDrawer
  <2>3. EndsInTurn' /\ TimersRun' /\ WordReady'
    BY <1>1, <1>4, <1>5 DEF EndsInTurn, TimersRun, WordReady, Reports, Choosing
  <2>. QED  BY <2>1, <2>2, <2>3 DEF SetInv
<1>7. Listening' = Listening /\ Public(room) \in Snapshot
  BY <1>0, PublicType DEF Listening, TurnInv, TypeInv, TypeOK
<1>8. ASSUME NEW p \in Listening
      PROVE  /\ ShowsRoom(view'[p], room, p)
             /\ p \in room.drawing => view'[p].choices = TRUE
  <2>1. p \in Players /\ p \in bound /\ live[p] # 0
    BY ListeningPage DEF Listening
  <2>2. PICK x : x = RoomState(t.snap)[p] /\ x \in View /\ ShowsRoom(x, room, p)
    BY <1>2, <1>7, RoomStateShows
  <2>3. view'[p] = IF p = t.player /\ Reaches(t.sock, p) THEN SetWordChoices(x) ELSE x
    BY <2>1, <2>2 DEF Deal
  <2>4. PICK y : y = SetWordChoices(x) /\ y.phase = x.phase /\ y.pen = x.pen /\ y.choices = TRUE
    BY <2>2, OtherPages
  <2>5. ShowsRoom(view'[p], room, p)
    BY <2>2, <2>3, <2>4 DEF ShowsRoom
  <2>6. ASSUME p \in room.drawing PROVE view'[p].choices = TRUE
    <3>1. p = t.player
      BY <1>0, <1>2, <1>3, <2>6 DEF Addressed, TurnInv, TalkInv, OneDraws
    <3>2. Reaches(t.sock, p)
      BY <1>0, <1>2, <2>1, <3>1 DEF Addressed, ScreenInv, SetInv, Wired, Reaches
    <3>. QED  BY <2>3, <2>4, <3>1, <3>2
  <2>. QED  BY <2>5, <2>6
<1>9. RoomShown' /\ ChoicesShown' /\ TurnShown'
  BY <1>0, <1>4, <1>7, <1>8 DEF RoomShown, ChoicesShown, TurnShown, ShowsRoom
<1>. QED  BY <1>6, <1>9 DEF ScreenInv, ShownInv

LEMMA SelectShown ==
    ASSUME Overlap = FALSE, TurnInv, ScreenInv, NEW t \in tasks, SelectWord(t) PROVE ScreenInv'
<1>0. UNCHANGED <<secret, live, bound, view, back>> /\ t.at = "choose" /\ Settled
  BY DEF SelectWord, InTurn, Around
<1>1. \A x \in tasks : x.at \notin Reports
  BY <1>0 DEF Settled, Reports, Choosing, Returning
<1>2. CASE ~ (room.phase = "WORD_SELECTION" /\ CurrentDrawer = t.player)
  <2>1. UNCHANGED <<room, timers>> /\ tasks' = tasks \ {t}
    BY <1>2 DEF SelectWord, Finish
  <2>. QED  BY <1>0, <1>1, <2>1, UnnoticedKeeps
<1>3. CASE room.phase = "WORD_SELECTION" /\ CurrentDrawer = t.player
  <2>1. PICK d : d = t.player /\ d = CurrentDrawer
    BY <1>3
  <2>2. PICK u : u = [t EXCEPT !.at = "word", !.sock = room.socket[d],
                               !.snap = Public(room')]
    OBVIOUS
  <2>3. /\ room' = [room EXCEPT !.phase = "DRAWING",
                                !.usedWords = Append(room.usedWords, t.word)]
        /\ timers' = Cleared({"select"}) /\ tasks' = (tasks \ {t}) \cup {u}
    BY <1>3, <2>1, <2>2 DEF SelectWord, Becomes
  <2>4. /\ room'.phase = "DRAWING" /\ room'.socket = room.socket
        /\ room'.guessed = room.guessed
        /\ room'.drawOrder = room.drawOrder /\ room'.turnPointer = room.turnPointer
    BY <2>3 DEF TurnInv, TypeInv, TypeOK, Room
  <2>5. u.at = "word" /\ u.player = d /\ u.sock = room.socket[d] /\ u.snap = Public(room')
    BY <2>1, <2>2, TaskType DEF Task
  <2>6. ~Open
    BY <1>3 DEF Open
  <2>7. /\ \A s \in timers : s.kind \notin {"draw", "hint"}
        /\ \A x \in tasks : x.at \notin Ending
    BY <1>3, <2>6, NothingEnds
  <2>8. CurrentDrawer' = d
    BY <2>1, <2>4 DEF CurrentDrawer
  <2>9. \A x \in tasks' : x = u \/ (x \in tasks /\ x.at \notin Reports \cup Ending)
    BY <1>1, <2>3, <2>7
  <2>10. \A x \in tasks' : x.at \notin Ending \cup {"announce"}
    BY <2>5, <2>9 DEF Ending, Reports, Choosing
  <2>11. u \in tasks' /\ ~Settled' /\ ~Open'
    BY <2>3, <2>5 DEF Settled, Open
  <2>12. Reporting'
    BY <2>5, <2>9 DEF Reporting
  <2>13. Wired'
    BY <1>0, <2>4 DEF ScreenInv, SetInv, Wired
  <2>14. \A x \in tasks' : Addressed(x)'
    <3>1. Addressed(u)'
      BY <2>4, <2>5, <2>8 DEF Addressed, Choosing, Judging, Returning
    <3>2. ASSUME NEW x \in tasks', x # u PROVE Addressed(x)'
      BY <1>0, <2>4, <2>9, <3>2 DEF ScreenInv, SetInv, Addressed, Reports, Choosing, Returning
    <3>. QED  BY <3>1, <3>2
  <2>15. EndsInTurn' /\ TimersRun'
    BY <2>3, <2>7, <2>10 DEF EndsInTurn, TimersRun, Cleared
  <2>16. WordReady'
    <3>1. secret.word = << >> /\ room.guessed = << >>
      BY <1>3 DEF TurnInv, StepInv, WordKept
    <3>. QED  BY <1>0, <2>4, <2>10, <2>11, <3>1 DEF WordReady
  <2>17. RoomShown' /\ ChoicesShown' /\ TurnShown'
    BY <2>4, <2>11 DEF RoomShown, ChoicesShown, TurnShown
  <2>. QED  BY <2>12, <2>13, <2>14, <2>15, <2>16, <2>17 DEF ScreenInv, SetInv, ShownInv
<1>. QED  BY <1>2, <1>3

LEMMA SetWordShown == ASSUME TurnInv, ScreenInv, NEW t \in tasks, SetWord(t) PROVE ScreenInv'
<1>0. /\ UNCHANGED <<room, timers, live, bound, view, back>>
      /\ t.at = "word" /\ t.at \in Reports /\ t.at \in Choosing
  BY DEF SetWord, Around, Reports, Choosing
<1>1. PICK u : u = [t EXCEPT !.at = "announce"]
  OBVIOUS
<1>2. tasks' = (tasks \ {t}) \cup {u}
  BY <1>1 DEF SetWord, Becomes
<1>3. u.at = "announce" /\ u.player = t.player /\ u.sock = t.sock /\ u.snap = t.snap
  BY <1>1, TaskType DEF Task
<1>4. /\ \A x \in tasks : x = t \/ x.at \notin Reports
      /\ t.snap = Public(room) /\ Addressed(t)
  BY <1>0, OneReports
<1>5. room.phase = "DRAWING" /\ t.word = CurrentWord
  BY <1>0 DEF TurnInv, StepInv, InStep
<1>6. secret'.word = CurrentWord /\ secret'.revealed = 0
  BY <1>5 DEF SetWord
<1>7. ~Open /\ u \in tasks' /\ ~Open' /\ ~Settled'
  BY <1>0, <1>2, <1>3 DEF Open, Settled
<1>8. /\ \A s \in timers : s.kind \notin {"draw", "hint"}
      /\ \A x \in tasks : x.at \notin Ending
  BY <1>5, <1>7, NothingEnds
<1>9. \A x \in tasks' : x = u \/ (x \in tasks /\ x.at \notin Reports \cup Ending)
  BY <1>2, <1>4, <1>8
<1>10. Reporting'
  BY <1>0, <1>3, <1>4, <1>9 DEF Reporting
<1>11. Wired'
  BY <1>0 DEF ScreenInv, SetInv, Wired
<1>12. \A x \in tasks' : Addressed(x)'
  <2>0. CurrentDrawer' = CurrentDrawer
    BY <1>0 DEF CurrentDrawer
  <2>1. Addressed(u)'
    BY <1>0, <1>3, <1>4, <2>0 DEF Addressed, Choosing, Judging, Returning
  <2>2. ASSUME NEW x \in tasks', x # u PROVE Addressed(x)'
    BY <1>0, <1>9, <2>0, <2>2 DEF ScreenInv, SetInv, Addressed
  <2>. QED  BY <2>1, <2>2
<1>13. EndsInTurn' /\ TimersRun'
  BY <1>0, <1>3, <1>8, <1>9 DEF EndsInTurn, TimersRun, Ending
<1>14. WordReady'
  <2>1. room.guessed = << >>
    BY <1>0 DEF ScreenInv, SetInv, WordReady
  <2>2. CurrentWord' = CurrentWord
    BY <1>0 DEF CurrentWord
  <2>3. \A x \in tasks' : x.at # "word"
    BY <1>3, <1>9 DEF Reports, Choosing
  <2>. QED  BY <1>0, <1>6, <1>7, <2>1, <2>2, <2>3 DEF WordReady
<1>15. RoomShown' /\ ChoicesShown' /\ TurnShown'
  BY <1>0, <1>5, <1>7 DEF RoomShown, ChoicesShown, TurnShown
<1>. QED  BY <1>10, <1>11, <1>12, <1>13, <1>14, <1>15 DEF ScreenInv, SetInv, ShownInv

LEMMA HintsType == ASSUME NEW w \in Words PROVE TotalHints(Len(w)) \in Nat
<1>1. Len(w) \in Nat /\ Len(w) > 0
  BY TurnTalkAssumption
<1>2. (2 * Len(w)) \div 5 \in Nat
  BY <1>1
<1>. QED  BY <1>1, <1>2 DEF TotalHints, Smaller

LEMMA AnnounceShown == ASSUME TurnInv, ScreenInv, NEW t \in tasks, Announce(t) PROVE ScreenInv'
<1>0. /\ UNCHANGED <<room, secret, live, bound, back>> /\ Finish(t) /\ t.at = "announce"
      /\ timers' = Cleared({"draw", "hint"}) \cup {Timer("draw", Nobody, << >>)}
                   \cup {x \in {Timer("hint", Nobody, t.word)} : TotalHints(Len(t.word)) > 0}
      /\ t.at \in Reports /\ t.at \in Choosing
  BY DEF Announce, Around, Reports, Choosing
<1>1. /\ \A x \in tasks' : x \in tasks /\ x.at \notin Reports
      /\ Settled'
  BY <1>0, ReportEnds
<1>2. Addressed(t) /\ t.snap = Public(room)
  BY <1>0, OneReports
<1>3. room.phase = "DRAWING" /\ InPlay
  BY <1>0, ChoosingInPlay
<1>4. PICK w : w = CurrentWord /\ w = t.word /\ w \in Words
  BY <1>0, <1>3, WordOfTurn DEF TurnInv, StepInv, InStep
<1>5. ~Open /\ Open'
  BY <1>0, <1>1, <1>3 DEF Open, Reports, Choosing
<1>6. \A x \in tasks' : x.at \notin Ending
  BY <1>1, <1>3, <1>5, NothingEnds
<1>7. /\ secret.word = w /\ secret.revealed = 0 /\ room.guessed = << >>
      /\ CurrentWord' = w /\ CurrentDrawer' = CurrentDrawer /\ HintsDue' = TotalHints(Len(w))
  BY <1>0, <1>4 DEF ScreenInv, SetInv, WordReady, CurrentWord, CurrentDrawer, HintsDue
<1>8. SetInv'
  <2>1. Reporting' /\ Wired'
    BY <1>0, <1>1 DEF ScreenInv, SetInv, Reporting, Wired
  <2>2. \A x \in tasks' : Addressed(x)'
    BY <1>0, <1>1, <1>7 DEF ScreenInv, SetInv, Addressed
  <2>3. EndsInTurn'
    BY <1>6 DEF EndsInTurn
  <2>4. TimersRun'
    <3>1. ASSUME NEW s \in timers', s.kind = "hint"
          PROVE  s = Timer("hint", Nobody, w) /\ TotalHints(Len(w)) > 0
      BY <1>0, <1>4, <3>1 DEF Cleared, Timer
    <3>. QED  BY <1>0, <1>5, <1>6, <1>7, <3>1 DEF TimersRun, Ending
  <2>5. WordReady'
    BY <1>0, <1>1, <1>4, <1>7, HintsType DEF WordReady, Reports, Choosing
  <2>. QED  BY <2>1, <2>2, <2>3, <2>4, <2>5 DEF SetInv
<1>9. Listening' = Listening /\ Public(room) \in Snapshot /\ Guessed' = {}
  <2>1. Public(room) \in Snapshot
    BY PublicType DEF TurnInv, TypeInv, TypeOK
  <2>. QED  BY <1>0, <1>7, <2>1 DEF Listening, Guessed
<1>10. ASSUME NEW p \in Listening
       PROVE  /\ ShowsRoom(view'[p], room, p)
              /\ view'[p].mask = MaskWord(w, 0) /\ view'[p].guessed = FALSE
              /\ p \in room.drawing => view'[p].myWord = w
  <2>1. p \in Players /\ p \in bound /\ live[p] # 0 /\ view[p] \in View
    BY ListeningPage DEF Listening
  <2>2. PICK s : s = Public(room) /\ s \in Snapshot /\ s.phase = room.phase /\ s.drawing = room.drawing
    BY <1>9 DEF Public
  <2>3. PICK x : /\ x = SetRoom(view[p], s, p) /\ x \in View
                 /\ x.phase = room.phase /\ x.pen = (p \in room.drawing)
    BY <2>1, <2>2, SetRoomPage, PageTypes
  <2>4. MaskWord(w, 0) \in Mask
    BY <1>4, PageTypes DEF Word
  <2>5. PICK m : m = MaskWord(w, 0) /\ m \in Mask
    BY <2>4
  <2>6. PICK y : y = StartTurn(x, m)
    OBVIOUS
  <2>11. y \in View
    BY <2>3, <2>5, <2>6, PageTypes
  <2>12. y.phase = x.phase /\ y.pen = x.pen /\ y.mask = m /\ y.guessed = FALSE
    BY <2>3, <2>6, StartTurnPage
  <2>7. PICK z : /\ z = SetMyWord(y, w) /\ z.phase = y.phase /\ z.pen = y.pen
                 /\ z.mask = y.mask /\ z.guessed = y.guessed /\ z.myWord = w
    BY <2>11, SetMyWordPage
  <2>8. view'[p] = IF p = t.player /\ Reaches(t.sock, p) THEN z ELSE y
    BY <1>2, <1>4, <2>1, <2>2, <2>3, <2>5, <2>6, <2>7 DEF Announce, Announced
  <2>9. p \in room.drawing => p = t.player
    BY <1>0, <1>2, <1>3 DEF Addressed, TurnInv, TalkInv, OneDraws
  <2>10. p = t.player => Reaches(t.sock, p)
    BY <1>0, <1>2, <2>1 DEF Addressed, ScreenInv, SetInv, Wired, Reaches
  <2>. QED  BY <2>3, <2>5, <2>7, <2>8, <2>9, <2>10, <2>12 DEF ShowsRoom
<1>11. RoomShown' /\ ChoicesShown'
  BY <1>0, <1>3, <1>9, <1>10 DEF RoomShown, ChoicesShown, ShowsRoom
<1>12. TurnShown'
  <2>1. TotalHints(Len(w)) \in Nat
    BY <1>4, HintsType
  <2>2. Masked(MaskWord(w, 0))'
    BY <1>7, <2>1 DEF Masked
  <2>3. ASSUME NEW p \in Listening PROVE PageShows(view[p], p)'
    <3>1. PICK m : m = MaskWord(w, 0) /\ Masked(m)' /\ view'[p].mask = m
      BY <1>10, <2>2
    <3>. QED  BY <1>0, <1>7, <1>9, <1>10, <3>1 DEF PageShows
  <2>. QED  BY <1>9, <2>3 DEF TurnShown
<1>. QED  BY <1>8, <1>11, <1>12 DEF ScreenInv, ShownInv

LEMMA HintShown == ASSUME TurnInv, ScreenInv, NEW h \in timers, Hint(h) PROVE ScreenInv'
<1>0. /\ UNCHANGED <<room, tasks, live, bound, back>> /\ h.kind = "hint"
      /\ secret' = [secret EXCEPT !.revealed = secret.revealed + 1]
  BY DEF Hint, Around
<1>1. /\ Open /\ h = Timer("hint", Nobody, CurrentWord) /\ secret.revealed < HintsDue
      /\ secret.word = CurrentWord
  BY <1>0 DEF ScreenInv, SetInv, TimersRun, WordReady
<1>2. PICK w : w = CurrentWord /\ w \in Words
  BY <1>1, WordOfTurn DEF Open
<1>3. PICK c : c = secret.revealed /\ c \in Nat /\ c + 1 <= HintsDue /\ HintsDue \in Nat
  <2>1. secret.revealed \in Nat
    BY DEF TurnInv, TypeInv, TypeOK, Secret
  <2>2. HintsDue \in Nat
    BY <1>2, HintsType DEF HintsDue
  <2>. QED  BY <1>1, <2>1, <2>2
<1>4. secret'.revealed = c + 1 /\ secret'.word = w
  BY <1>0, <1>1, <1>2, <1>3 DEF TurnInv, TypeInv, TypeOK, Secret
<1>5. h.word = w /\ HintsDue = TotalHints(Len(w))
  BY <1>1, <1>2 DEF Timer, HintsDue
<1>6. /\ CurrentWord' = w /\ HintsDue' = HintsDue /\ CurrentDrawer' = CurrentDrawer
      /\ Open' = Open /\ Listening' = Listening /\ Settled' = Settled /\ Guessed' = Guessed
  BY <1>0, <1>2 DEF CurrentWord, HintsDue, CurrentDrawer, Open, Listening, Settled, Guessed
<1>7. \A t \in tasks : t.at \notin {"word", "announce"}
  BY <1>1 DEF Open
<1>8. SetInv'
  <2>1. Reporting' /\ Wired' /\ \A t \in tasks' : Addressed(t)'
    BY <1>0, <1>6 DEF ScreenInv, SetInv, Reporting, Wired, Addressed
  <2>2. EndsInTurn'
    BY <1>0, <1>6 DEF ScreenInv, SetInv, EndsInTurn
  <2>3. timers' \subseteq timers
    BY DEF Hint
  <2>4. ASSUME NEW s \in timers', s.kind = "hint" PROVE c + 1 < HintsDue
    <3>1. s = h
      BY <1>1, <2>3, <2>4 DEF ScreenInv, SetInv, TimersRun
    <3>2. ~ (c + 1 >= HintsDue)
      BY <1>4, <1>5, <2>4, <3>1 DEF Hint
    <3>. QED  BY <1>3, <3>2
  <2>5. TimersRun'
    BY <1>0, <1>2, <1>4, <1>6, <2>3, <2>4 DEF ScreenInv, SetInv, TimersRun
  <2>6. WordReady'
    BY <1>0, <1>3, <1>4, <1>6, <1>7 DEF WordReady
  <2>. QED  BY <2>1, <2>2, <2>5, <2>6 DEF SetInv
<1>9. PICK m : m = MaskWord(w, c + 1)
  OBVIOUS
<1>10. ASSUME NEW p \in Listening
       PROVE  LET x == view'[p]
              IN  /\ x.phase = view[p].phase /\ x.pen = view[p].pen
                  /\ x.choices = view[p].choices /\ x.mask = m
                  /\ x.guessed = view[p].guessed /\ x.myWord = view[p].myWord
  <2>1. p \in Players /\ view[p] \in View
    BY ListeningPage
  <2>2. view'[p] = SetMasked(view[p], m)
    BY <1>4, <1>5, <1>9, <2>1 DEF Hint
  <2>. QED  BY <2>1, <2>2, SetMaskedPage
<1>11. RoomShown' /\ ChoicesShown'
  BY <1>0, <1>6, <1>10 DEF ScreenInv, ShownInv, RoomShown, ChoicesShown, ShowsRoom
<1>12. TurnShown'
  <2>1. Masked(m)'
    BY <1>3, <1>6, <1>9 DEF Masked
  <2>2. ASSUME NEW p \in Listening, PageShows(view[p], p) PROVE PageShows(view[p], p)'
    <3>1. PICK x : x = view'[p]
      OBVIOUS
    <3>. QED  BY <1>0, <1>2, <1>6, <1>10, <2>1, <2>2, <3>1 DEF PageShows
  <2>3. \A p : Returns(p)' = Returns(p)
    BY <1>0 DEF Returns
  <2>. QED  BY <1>1, <1>6, <2>2, <2>3 DEF ScreenInv, ShownInv, TurnShown
<1>. QED  BY <1>8, <1>11, <1>12 DEF ScreenInv, ShownInv

\* Who has guessed, when one more has.
LEMMA OneMoreGuessed ==
    ASSUME TurnInv, NEW p, room'.guessed = Append(room.guessed, p)
    PROVE  Guessed' = Guessed \cup {p}
<1>0. room.guessed \in Seq(Players)
  BY DEF TurnInv, TypeInv, TypeOK, Room
<1>1. PICK g, n : /\ g = room.guessed /\ g \in Seq(Players)
                  /\ n = Len(g) /\ n \in Nat /\ DOMAIN g = 1..n
  BY <1>0
<1>2. PICK a : /\ a = Append(g, p) /\ DOMAIN a = 1..(n + 1) /\ a[n + 1] = p
               /\ \A i \in 1..n : a[i] = g[i]
  <2>1. g \in Seq(Players \cup {p})
    BY <1>1
  <2>. QED  BY <1>1, <2>1
<1>3. Guessed = {g[i] : i \in 1..n} /\ Guessed' = {a[i] : i \in 1..(n + 1)}
  BY <1>1, <1>2 DEF Guessed
<1>4. 1..(n + 1) = 1..n \cup {n + 1}
  BY <1>1
<1>. QED  BY <1>2, <1>3, <1>4

LEMMA CreditShown == ASSUME TurnInv, ScreenInv, NEW t \in tasks, Credit(t) PROVE ScreenInv'
<1>0. UNCHANGED <<secret, live, bound, back>> /\ t.at = "credit" /\ t.at \notin Reports
  BY DEF Credit, Around, Reports, Choosing, Returning
<1>1. PICK p : p = t.player
  OBVIOUS
<1>2. CASE ~Counts(p)
  <2>1. UNCHANGED <<room, view, timers>> /\ tasks' = tasks \ {t}
    BY <1>1, <1>2 DEF Credit, Finish
  <2>. QED  BY <1>0, <2>1, UnnoticedKeeps
<1>3. CASE Counts(p)
  <2>1. PICK n : room' = [room EXCEPT !.guessed = Append(room.guessed, p), !.roundScore = n]
    BY <1>1, <1>3 DEF Credit
  <2>2. /\ room'.phase = room.phase /\ room'.drawing = room.drawing
        /\ room'.socket = room.socket /\ room'.usedWords = room.usedWords
        /\ room'.drawOrder = room.drawOrder /\ room'.turnPointer = room.turnPointer
        /\ room'.guessed = Append(room.guessed, p)
    BY <2>1 DEF TurnInv, TypeInv, TypeOK, Room
  <2>3. PICK u : u = Handler("end", Nobody) /\ u.at = "end"
    BY FieldsOfHandler DEF Labels
  <2>4. \/ tasks' = tasks \ {t} /\ timers' = timers
        \/ tasks' = (tasks \ {t}) \cup {u} /\ timers' = Cleared({"draw", "hint"})
    BY <1>1, <1>3, <2>3 DEF Credit, Finish, Becomes
  <2>5. /\ Open \/ room.phase = "ROUND_END"
        /\ \A x \in tasks : x.at \notin Starters
    BY <1>0 DEF ScreenInv, SetInv, EndsInTurn, Ending
  <2>6. Addressed(t) /\ InStep(t)
    BY DEF ScreenInv, SetInv, TurnInv, StepInv
  <2>7. /\ CurrentWord' = CurrentWord /\ HintsDue' = HintsDue /\ CurrentDrawer' = CurrentDrawer
        /\ Public(room') = Public(room) /\ Listening' = Listening
    BY <1>0, <2>2 DEF CurrentWord, HintsDue, CurrentDrawer, Public, Listening
  <2>8. Guessed' = Guessed \cup {p}
    BY <2>2, OneMoreGuessed
  <2>9. /\ \A x \in tasks : x = t \/ x \in tasks'
        /\ \A x \in tasks' : x \in tasks \/ x = u
    BY <2>4
  <2>10. \A x \in tasks : x.at \notin {"word", "announce"}
    BY <2>5 DEF Open, TurnInv, StepInv, InStep
  <2>11. Open' = Open
    BY <2>2, <2>3, <2>9, <2>10 DEF Open
  <2>12. SetInv'
    <3>1. Reporting'
      BY <2>3, <2>7, <2>9 DEF ScreenInv, SetInv, Reporting, Reports, Choosing, Returning
    <3>2. Wired'
      BY <1>0, <2>2 DEF ScreenInv, SetInv, Wired
    <3>3. \A x \in tasks' : Addressed(x)'
      <4>1. Addressed(u)'
        BY <2>3 DEF Addressed, Choosing, Judging, Returning
      <4>2. ASSUME NEW x \in tasks PROVE Addressed(x)'
        BY <1>0, <2>2, <2>7 DEF ScreenInv, SetInv, Addressed
      <4>. QED  BY <2>9, <4>1, <4>2
    <3>4. EndsInTurn'
      BY <2>2, <2>3, <2>5, <2>9, <2>11 DEF EndsInTurn, Starters
    <3>5. TimersRun'
      BY <1>0, <2>3, <2>4, <2>7, <2>9, <2>11 DEF ScreenInv, SetInv, TimersRun, Cleared
    <3>6. WordReady'
      BY <1>0, <2>3, <2>7, <2>9, <2>10, <2>11 DEF ScreenInv, SetInv, WordReady
    <3>. QED  BY <3>1, <3>2, <3>3, <3>4, <3>5, <3>6 DEF SetInv
  <2>13. Public(room') \in Snapshot
    BY <2>7, PublicType DEF TurnInv, TypeInv, TypeOK
  <2>14. ASSUME NEW q \in Listening
         PROVE  /\ ShowsRoom(view'[q], room, q) /\ view'[q].mask = view[q].mask
                /\ q # p => view'[q].guessed = view[q].guessed /\ view'[q].myWord = view[q].myWord
                /\ q = p => view'[q].guessed = TRUE
                /\ q = p /\ p \notin back => view'[q].myWord = t.word
    <3>1. q \in Players /\ q \in bound /\ live[q] # 0
      BY ListeningPage DEF Listening
    <3>2. PICK s : s = Public(room') /\ s = Public(room) /\ s \in Snapshot
      BY <2>7, <2>13
    <3>3. PICK v : /\ v = RoomState(s)[q] /\ v \in View /\ ShowsRoom(v, room, q)
                   /\ SameTurnPart(v, view[q])
      BY <3>2, RoomStateShows
    <3>4. PICK w : w = MarkGuessed(v)
      OBVIOUS
    <3>5. /\ w \in View /\ w.phase = v.phase /\ w.pen = v.pen
          /\ w.mask = v.mask /\ w.guessed = TRUE /\ w.myWord = v.myWord
      BY <3>3, <3>4, PageTypes, OtherPages
    <3>6. PICK x : x = MarkGuessed(w)
      OBVIOUS
    <3>7. /\ x \in View /\ x.phase = w.phase /\ x.pen = w.pen
          /\ x.mask = w.mask /\ x.guessed = TRUE
      BY <3>5, <3>6, PageTypes, OtherPages
    <3>8. PICK y : y = SetMyWord(x, t.word)
      OBVIOUS
    <3>9. /\ y.phase = x.phase /\ y.pen = x.pen
          /\ y.mask = x.mask /\ y.guessed = x.guessed /\ y.myWord = t.word
      BY <3>7, <3>8, SetMyWordPage
    <3>10. view'[q] = IF q = p THEN (IF Reaches(t.sock, q) THEN y ELSE w) ELSE v
      BY <1>1, <1>3, <3>1, <3>2, <3>3, <3>4, <3>6, <3>8 DEF Credit
    <3>11. q = p /\ p \notin back => Reaches(t.sock, q)
      BY <1>0, <1>1, <2>6, <3>1 DEF Addressed, Judging, ScreenInv, SetInv, Wired, Reaches
    <3>. QED  BY <3>3, <3>5, <3>7, <3>9, <3>10, <3>11 DEF ShowsRoom, SameTurnPart
  <2>15. RoomShown'
    BY <2>2, <2>7, <2>14 DEF RoomShown, ShowsRoom
  <2>16. ChoicesShown'
    BY <2>2, <2>5 DEF ChoicesShown, Open
  <2>17. TurnShown'
    <3>1. t.word = CurrentWord
      BY <1>0, <2>6 DEF InStep
    <3>2. ASSUME NEW q \in Listening, PageShows(view[q], q) PROVE PageShows(view[q], q)'
      <4>1. PICK x, v : x = view'[q] /\ v = view[q]
        OBVIOUS
      <4>2. Masked(x.mask)'
        BY <2>7, <2>14, <3>2, <4>1 DEF PageShows, Masked
      <4>. QED  BY <1>0, <2>2, <2>7, <2>8, <2>14, <3>1, <3>2, <4>1, <4>2 DEF PageShows
    <3>3. \A q : Returns(q) => Returns(q)'
      BY <1>0, <2>9 DEF Returns, Returning
    <3>. QED  BY <2>7, <2>11, <3>2, <3>3 DEF ScreenInv, ShownInv, TurnShown
  <2>. QED  BY <2>12, <2>15, <2>16, <2>17 DEF ScreenInv, ShownInv
<1>. QED  BY <1>2, <1>3

LEMMA CloseShown ==
    ASSUME Overlap = FALSE, TurnInv, ScreenInv, NEW t \in tasks, CloseTurn(t) PROVE ScreenInv'
<1>0. /\ UNCHANGED <<secret, live, bound, back, timers>> /\ t.at = "close" /\ Settled
      /\ t.at \in Ending
  BY DEF CloseTurn, InTurn, Around, Ending
<1>1. \A x \in tasks : x.at \notin Reports
  BY <1>0 DEF Settled, Reports, Choosing, Returning
<1>2. CASE room.phase \notin {"DRAWING", "WORD_SELECTION"}
  <2>1. UNCHANGED <<room, view>> /\ tasks' = tasks \ {t}
    BY <1>2 DEF CloseTurn, Finish
  <2>. QED  BY <1>0, <1>1, <2>1, UnnoticedKeeps
<1>3. CASE room.phase \in {"DRAWING", "WORD_SELECTION"}
  <2>1. PICK u : u = [t EXCEPT !.at = "wipe"]
    OBVIOUS
  <2>2. PICK n : room' = [room EXCEPT !.phase = "ROUND_END",
                                      !.drawing = room.drawing \ {CurrentDrawer},
                                      !.roundScore = n]
    BY <1>3 DEF CloseTurn
  <2>3. tasks' = (tasks \ {t}) \cup {u}
    BY <1>3, <2>1 DEF CloseTurn, Becomes
  <2>4. /\ room'.phase = "ROUND_END" /\ room'.socket = room.socket
        /\ room'.drawing = room.drawing \ {CurrentDrawer}
    BY <2>2 DEF TurnInv, TypeInv, TypeOK, Room
  <2>5. u.at = "wipe"
    BY <2>1, TaskType DEF Task
  <2>6. /\ \A x \in tasks : x.at \notin Starters
        /\ \A s \in timers : s.kind \notin {"draw", "hint"}
    BY <1>0 DEF ScreenInv, SetInv, EndsInTurn, TimersRun
  <2>7. \A x \in tasks' : x.at \notin Reports \cup Starters /\ (x \in tasks \/ x.at \notin Judging)
    BY <1>1, <2>3, <2>5, <2>6 DEF Reports, Choosing, Returning, Starters, Judging
  <2>8. SetInv'
    <3>1. Reporting' /\ WordReady'
      BY <2>4, <2>7 DEF Reporting, WordReady, Reports, Choosing, Open
    <3>2. Wired'
      BY <1>0, <2>4 DEF ScreenInv, SetInv, Wired
    <3>3. \A x \in tasks' : Addressed(x)'
      BY <1>0, <2>4, <2>7 DEF ScreenInv, SetInv, Addressed, Reports, Choosing, Returning
    <3>4. EndsInTurn' /\ TimersRun'
      BY <1>0, <2>4, <2>6, <2>7 DEF EndsInTurn, TimersRun
    <3>. QED  BY <3>1, <3>2, <3>3, <3>4 DEF SetInv
  <2>9. room' \in Room
    BY CloseTyped DEF TurnInv, TypeInv, TypeOK
  <2>10. Listening' = Listening /\ Public(room') \in Snapshot
    BY <1>0, <2>9, PublicType DEF Listening
  <2>11. PICK r : r = room'
    OBVIOUS
  <2>12. ASSUME NEW p \in Listening PROVE ShowsRoom(view'[p], r, p)
    <3>1. p \in Players
      BY ListeningPage
    <3>2. PICK v : v = RoomState(Public(r))[p] /\ v \in View /\ ShowsRoom(v, r, p)
      BY <2>10, <2>11, RoomStateShows
    <3>3. view'[p] = EndRound(v, t.word)
      BY <1>3, <2>11, <3>1, <3>2 DEF CloseTurn
    <3>4. PICK x : x = EndRound(v, t.word)
      OBVIOUS
    <3>5. x.phase = v.phase /\ x.pen = v.pen
      BY <3>2, <3>4, OtherPages
    <3>. QED  BY <3>2, <3>3, <3>4, <3>5 DEF ShowsRoom
  <2>13. RoomShown' /\ ChoicesShown' /\ TurnShown'
    BY <2>4, <2>10, <2>11, <2>12 DEF RoomShown, ChoicesShown, TurnShown, Open, ShowsRoom
  <2>. QED  BY <2>8, <2>13 DEF ScreenInv, ShownInv
<1>. QED  BY <1>2, <1>3

LEMMA WipeShown == ASSUME TurnInv, ScreenInv, NEW t \in tasks, Wipe(t) PROVE ScreenInv'
<1>0. /\ UNCHANGED <<room, live, bound, view, back>> /\ t.at = "wipe" /\ tasks' = tasks \ {t}
      /\ timers' = Cleared({"roundEnd"}) \cup {Timer("roundEnd", Nobody, << >>)}
      /\ t.at \notin Reports
  BY DEF Wipe, Finish, Around, Reports, Choosing, Returning
<1>1. room.phase = "ROUND_END"
  BY <1>0, InPlayApart, TurnNumber DEF InPlay, TurnInv, TalkInv, Fresh, Opening, Bringing
<1>2. \A x \in tasks : x.at \notin Choosing
  BY <1>1, ChoosingInPlay DEF InPlay
<1>3. ~Open /\ ~Open'
  BY <1>0, <1>1 DEF Open
<1>4. \A s \in timers' : s.kind \notin {"draw", "hint"}
  BY <1>0, <1>3, NothingEnds DEF Cleared, Timer
<1>5. CurrentDrawer' = CurrentDrawer /\ Public(room') = Public(room) /\ Listening' = Listening
  BY <1>0 DEF CurrentDrawer, Public, Listening
<1>6. SetInv'
  <2>1. Reporting' /\ Wired' /\ \A x \in tasks' : Addressed(x)'
    BY <1>0, <1>5 DEF ScreenInv, SetInv, Reporting, Wired, Addressed
  <2>2. EndsInTurn' /\ TimersRun'
    BY <1>0, <1>1, <1>4 DEF ScreenInv, SetInv, EndsInTurn, TimersRun
  <2>3. WordReady'
    BY <1>0, <1>2, <1>3 DEF WordReady, Choosing
  <2>. QED  BY <2>1, <2>2, <2>3 DEF SetInv
<1>7. Settled' => Settled
  BY <1>0 DEF Settled, Reports, Choosing, Returning
<1>8. RoomShown' /\ ChoicesShown' /\ TurnShown'
  BY <1>0, <1>1, <1>3, <1>5, <1>7
     DEF ScreenInv, ShownInv, RoomShown, ChoicesShown, TurnShown, ShowsRoom
<1>. QED  BY <1>6, <1>8 DEF ScreenInv, ShownInv

-----------------------------------------------------------------------------
(***************************************************************************)
(* Connections are lost and come back, players are removed.                *)
(***************************************************************************)
LEMMA LoseShown ==
    ASSUME Overlap = FALSE, TurnInv, ScreenInv, NEW p \in Players, Lose(p) PROVE ScreenInv'
<1>0. /\ UNCHANGED <<secret, timers, tasks, back>> /\ Settled
      /\ live' = [live EXCEPT ![p] = 0] /\ bound' = bound \ {p}
      /\ room' = [room EXCEPT !.connected = room.connected \ {p}]
      /\ view' = [RoomState(Public(room)) EXCEPT ![p] = view[p]]
  BY DEF Lose, InTurn
<1>1. /\ room'.phase = room.phase /\ room'.drawing = room.drawing
      /\ room'.socket = room.socket /\ room'.usedWords = room.usedWords
      /\ room'.drawOrder = room.drawOrder /\ room'.turnPointer = room.turnPointer
      /\ room'.guessed = room.guessed
  BY <1>0 DEF TurnInv, TypeInv, TypeOK, Room
<1>2. \A x \in tasks : x.at \notin Reports
  BY <1>0 DEF Settled, Reports, Choosing, Returning
<1>3. /\ CurrentWord' = CurrentWord /\ HintsDue' = HintsDue /\ Guessed' = Guessed
      /\ Open' = Open /\ Settled' = Settled
  BY <1>0, <1>1 DEF CurrentWord, HintsDue, Guessed, Open, Settled
<1>4. live \in [Players -> Sockets] /\ bound \subseteq Players
  BY DEF TurnInv, TypeInv, TypeOK
<1>5. Listening' = Listening \ {p}
  BY <1>0, <1>4 DEF Listening
<1>6. SetInv'
  <2>1. Reporting' /\ WordReady'
    BY <1>0, <1>1, <1>2, <1>3 DEF ScreenInv, SetInv, Reporting, WordReady
  <2>2. Wired'
    BY <1>0, <1>1, <1>4 DEF ScreenInv, SetInv, Wired
  <2>3. \A x \in tasks' : Addressed(x)'
    BY <1>0, <1>1, <1>2 DEF ScreenInv, SetInv, Addressed, Reports, Choosing, Returning
  <2>4. EndsInTurn' /\ TimersRun'
    BY <1>0, <1>1, <1>3 DEF ScreenInv, SetInv, EndsInTurn, TimersRun
  <2>. QED  BY <2>1, <2>2, <2>3, <2>4 DEF SetInv
<1>7. ASSUME NEW q \in Listening, q # p
      PROVE  ShowsRoom(view'[q], room, q) /\ SameTurnPart(view'[q], view[q])
  <2>1. q \in Players /\ Public(room) \in Snapshot
    BY ListeningPage, PublicType DEF TurnInv, TypeInv, TypeOK
  <2>2. PICK v : /\ v = RoomState(Public(room))[q]
                 /\ ShowsRoom(v, room, q) /\ SameTurnPart(v, view[q])
    BY <2>1, RoomStateShows
  <2>3. view'[q] = v
    BY <1>0, <1>7, <2>1, <2>2 DEF RoomState
  <2>. QED  BY <2>2, <2>3
<1>8. RoomShown' /\ ChoicesShown'
  BY <1>0, <1>1, <1>5, <1>7
     DEF ScreenInv, ShownInv, RoomShown, ChoicesShown, ShowsRoom, SameTurnPart
<1>9. TurnShown'
  <2>1. ASSUME NEW q \in Listening, q # p, PageShows(view[q], q) PROVE PageShows(view[q], q)'
    BY <1>0, <1>1, <1>3, <1>7, <2>1, PageStays DEF SameTurnPart
  <2>2. \A q : Returns(q)' = Returns(q)
    BY <1>0 DEF Returns
  <2>. QED  BY <1>3, <1>5, <2>1, <2>2 DEF ScreenInv, ShownInv, TurnShown
<1>. QED  BY <1>6, <1>8, <1>9 DEF ScreenInv, ShownInv

LEMMA ReconnectShown ==
    ASSUME Overlap = FALSE, TurnInv, ScreenInv, NEW p \in Players, Reconnect(p) PROVE ScreenInv'
<1>1. PICK u : u = Handler("rejoin", p) /\ u.at = "rejoin" /\ u.player = p
  BY FieldsOfHandler DEF Labels
<1>0. /\ UNCHANGED <<room, secret, timers, bound, view>> /\ Settled /\ live[p] = 0
      /\ live' = [live EXCEPT ![p] = departures + 1] /\ back' = back \cup {p}
      /\ tasks' = tasks \cup {u}
  BY <1>1 DEF Reconnect, InTurn, Spawn
<1>2. \A x \in tasks : x.at \notin Reports
  BY <1>0 DEF Settled, Reports, Choosing, Returning
<1>3. live \in [Players -> Sockets] /\ departures \in Nat /\ p \notin bound
  BY <1>0, TurnTalkAssumption DEF TurnInv, TypeInv, TypeOK, ScreenInv, SetInv, Wired
<1>4. /\ CurrentWord' = CurrentWord /\ HintsDue' = HintsDue /\ Guessed' = Guessed
      /\ Listening' = Listening
  BY <1>0, <1>3 DEF CurrentWord, HintsDue, Guessed, Listening, TurnInv, TypeInv, TypeOK
<1>5. Open' = Open /\ ~Settled'
  BY <1>0, <1>1 DEF Open, Settled
<1>6. SetInv'
  <2>1. Reporting' /\ WordReady'
    BY <1>0, <1>1, <1>2, <1>4, <1>5 DEF ScreenInv, SetInv, Reporting, WordReady
  <2>2. Wired'
    BY <1>0, <1>3 DEF ScreenInv, SetInv, Wired, TurnInv, TypeInv, TypeOK
  <2>3. \A x \in tasks' : Addressed(x)'
    <3>1. live'[p] # 0
      BY <1>0, <1>3
    <3>2. Addressed(u)'
      BY <1>0, <1>1, <3>1 DEF Addressed, Choosing, Judging, Returning
    <3>3. ASSUME NEW x \in tasks PROVE Addressed(x)'
      BY <1>0, <1>2 DEF ScreenInv, SetInv, Addressed, Reports, Choosing, Returning
    <3>. QED  BY <1>0, <3>2, <3>3
  <2>4. EndsInTurn' /\ TimersRun'
    BY <1>0, <1>1, <1>4, <1>5 DEF ScreenInv, SetInv, EndsInTurn, TimersRun, Starters, Ending
  <2>. QED  BY <2>1, <2>2, <2>3, <2>4 DEF SetInv
<1>7. RoomShown' /\ ChoicesShown'
  <2>1. (\A x \in tasks' : x.at # "deal") => \A x \in tasks : x.at # "deal"
    BY <1>0
  <2>. QED  BY <1>0, <1>4, <1>5, <2>1 DEF ScreenInv, ShownInv, RoomShown, ChoicesShown
<1>8. TurnShown'
  <2>1. ASSUME NEW q \in Listening, PageShows(view[q], q) PROVE PageShows(view[q], q)'
    BY <1>0, <1>4, <2>1, PageStays
  <2>2. \A q : Returns(q) => Returns(q)'
    BY <1>0 DEF Returns
  <2>. QED  BY <1>4, <1>5, <2>1, <2>2 DEF ScreenInv, ShownInv, TurnShown
<1>. QED  BY <1>6, <1>7, <1>8 DEF ScreenInv, ShownInv

\* A handler of a player who is coming back goes on; the pages are told in the end.
LEMMA ReturnGoesOn ==
    ASSUME TurnInv, ScreenInv, NEW t \in tasks, t.at \in {"rejoin", "bind"},
           NEW u, Becomes(t, u), u.at \in {"bind", "resume"}, u.player = t.player,
           u.snap = Public(room'), Addressed(u)', Wired',
           room'.phase = room.phase, room'.drawing = room.drawing,
           room'.guessed = room.guessed, room'.usedWords = room.usedWords,
           \A p \in Players : p = t.player \/ room'.socket[p] = room.socket[p],
           UNCHANGED <<secret, timers, live, view, back>>,
           bound' \subseteq bound \cup {t.player}
    PROVE  ScreenInv'
<1>0. tasks' = (tasks \ {t}) \cup {u} /\ u \in tasks'
  BY DEF Becomes
<1>1. /\ t.at \in Reports /\ t.at \in Returning /\ t.at \notin Ending
      /\ u.at \in Reports /\ u.at \in Returning
      /\ u.at \notin Ending \cup Starters \cup Choosing
  BY DEF Reports, Returning, Ending, Starters, Choosing
<1>2. \A x \in tasks' : x = u \/ (x \in tasks /\ x.at \notin Reports)
  BY <1>0, <1>1, OneReports
<1>3. \A x \in tasks : x.at \notin Choosing
  BY <1>1, OneReports DEF Reports, Choosing, Returning
<1>4. /\ CurrentWord' = CurrentWord /\ HintsDue' = HintsDue /\ Guessed' = Guessed
  BY DEF CurrentWord, HintsDue, Guessed
<1>5. Open' = Open /\ ~Settled'
  <2>1. ~Settled'
    BY <1>0 DEF Settled
  <2>2. \A x \in tasks' : x.at \notin Choosing
    BY <1>1, <1>2, <1>3
  <2>. QED  BY <1>3, <2>1, <2>2 DEF Open, Choosing
<1>6. t.player \in back
  BY <1>1 DEF ScreenInv, SetInv, Addressed
<1>7. SetInv'
  <2>1. Reporting'
    BY <1>2 DEF Reporting
  <2>2. \A x \in tasks' : Addressed(x)'
    <3>1. ASSUME NEW x \in tasks, x.at \notin Reports PROVE Addressed(x)'
      <4>1. Addressed(x)
        BY DEF ScreenInv, SetInv
      <4>2. x.at \in Judging => x.player \in back \/ x.sock = room'.socket[x.player]
        BY <1>6, <4>1 DEF Addressed
      <4>. QED  BY <3>1, <4>1, <4>2 DEF Addressed, Reports, Returning
    <3>. QED  BY <1>2, <3>1
  <2>3. EndsInTurn'
    BY <1>1, <1>2, <1>5 DEF ScreenInv, SetInv, EndsInTurn
  <2>4. TimersRun'
    BY <1>1, <1>2, <1>4, <1>5 DEF ScreenInv, SetInv, TimersRun, Ending
  <2>5. WordReady'
    BY <1>1, <1>2, <1>4, <1>5 DEF ScreenInv, SetInv, WordReady, Choosing, Reports
  <2>. QED  BY <2>1, <2>2, <2>3, <2>4, <2>5 DEF SetInv
<1>8. Listening' \subseteq Listening \cup {t.player}
  BY DEF Listening
<1>9. RoomShown' /\ ChoicesShown'
  <2>1. \A x \in tasks : x.at # "deal"
    BY <1>3 DEF Choosing
  <2>. QED  BY <1>5, <1>6, <1>8, <2>1 DEF ScreenInv, ShownInv, RoomShown, ChoicesShown
<1>10. TurnShown'
  <2>1. Returns(t.player)'
    BY <1>0, <1>1 DEF Returns
  <2>2. ASSUME NEW q \in Listening, q # t.player, Returns(q) PROVE Returns(q)'
    BY <1>0, <2>2 DEF Returns
  <2>3. ASSUME NEW q \in Listening, PageShows(view[q], q) PROVE PageShows(view[q], q)'
    BY <1>4, <2>3, PageStays
  <2>. QED  BY <1>5, <1>8, <2>1, <2>2, <2>3 DEF ScreenInv, ShownInv, TurnShown
<1>. QED  BY <1>7, <1>9, <1>10 DEF ScreenInv, ShownInv

LEMMA RejoinShown == ASSUME TurnInv, ScreenInv, NEW t \in tasks, Rejoin(t) PROVE ScreenInv'
<1>1. PICK p : p = t.player /\ p \in Players /\ t.at = "rejoin"
  BY DEF Rejoin, TurnInv, TypeInv, HandlersTyped, Captured
<1>2. PICK u : u = [t EXCEPT !.at = "bind", !.snap = Public(room')]
  OBVIOUS
<1>3. PICK s : s = [room.socket EXCEPT ![p] = live[p]]
  OBVIOUS
<1>4. room' = [room EXCEPT !.players = room.players \cup {p},
                           !.connected = room.connected \cup {p}, !.socket = s]
  BY <1>1, <1>3 DEF Rejoin
<1>5. /\ room'.phase = room.phase /\ room'.drawing = room.drawing /\ room'.guessed = room.guessed
      /\ room'.usedWords = room.usedWords /\ room'.socket = s
  BY <1>4 DEF TurnInv, TypeInv, TypeOK, Room
<1>6. room.socket \in [Players -> Sockets] /\ bound \subseteq Players
  BY DEF TurnInv, TypeInv, TypeOK, Room
<1>7. s[p] = live[p] /\ \A q \in Players : q = p \/ s[q] = room.socket[q]
  BY <1>1, <1>3, <1>6
<1>8. u.at = "bind" /\ u.player = p /\ u.snap = Public(room')
  BY <1>1, <1>2, TaskType DEF Task
<1>9. Becomes(t, u) /\ UNCHANGED <<secret, timers, live, bound, view, back>>
  BY <1>2 DEF Rejoin, Around
<1>10. Wired'
  BY <1>5, <1>6, <1>7, <1>9 DEF ScreenInv, SetInv, Wired
<1>11. Addressed(t)
  BY DEF ScreenInv, SetInv
<1>12. Addressed(u)'
  BY <1>1, <1>5, <1>7, <1>8, <1>9, <1>11 DEF Addressed, Choosing, Judging, Returning
<1>. QED  BY <1>1, <1>5, <1>7, <1>8, <1>9, <1>10, <1>12, ReturnGoesOn

LEMMA BindShown == ASSUME TurnInv, ScreenInv, NEW t \in tasks, Bind(t) PROVE ScreenInv'
<1>1. PICK u : u = [t EXCEPT !.at = "resume"]
  OBVIOUS
<1>2. /\ Becomes(t, u) /\ t.at = "bind" /\ bound' = bound \cup {t.player}
      /\ UNCHANGED <<room, secret, timers, live, view, back>>
  BY <1>1 DEF Bind
<1>3. u.at = "resume" /\ u.player = t.player /\ u.snap = t.snap
  BY <1>1, TaskType DEF Task
<1>4. t.snap = Public(room) /\ Addressed(t)
  BY <1>2, OneReports DEF Reports, Returning
<1>5. Wired'
  BY <1>2, <1>4 DEF ScreenInv, SetInv, Wired, Addressed
<1>6. Addressed(u)'
  BY <1>2, <1>3, <1>4 DEF Addressed, Choosing, Judging, Returning
<1>. QED  BY <1>2, <1>3, <1>4, <1>5, <1>6, ReturnGoesOn

\* A handler ends that has told all pages what the record says.
LEMMA TellsAll ==
    ASSUME TurnInv, ScreenInv, NEW t \in tasks, Finish(t), t.at \in {"resume", "left"},
           UNCHANGED <<room, secret, timers, live, bound, back>>,
           \A p \in Listening : ShowsRoom(view'[p], room, p),
           \A p \in Listening : p # t.player \/ t.at = "left"
                                   => SameTurnPart(view'[p], view[p]),
           t.at = "resume" /\ t.player \in Listening /\ Open
               => PageShows(view'[t.player], t.player)
    PROVE  ScreenInv'
<1>0. t.at \in Reports /\ t.at \notin Choosing
  BY DEF Reports, Returning, Choosing
<1>1. \A x \in tasks' : x \in tasks /\ x.at \notin Reports
  BY <1>0, ReportEnds
<1>2. \A x \in tasks : x.at \notin Choosing
  BY <1>0, OneReports DEF Reports
<1>3. /\ CurrentWord' = CurrentWord /\ HintsDue' = HintsDue /\ Guessed' = Guessed
      /\ CurrentDrawer' = CurrentDrawer /\ Listening' = Listening
      /\ Public(room') = Public(room)
  BY DEF CurrentWord, HintsDue, Guessed, CurrentDrawer, Listening, Public
<1>4. Open' = Open
  BY <1>1, <1>2 DEF Open, Choosing
<1>5. SetInv'
  <2>1. Reporting' /\ Wired' /\ \A x \in tasks' : Addressed(x)'
    BY <1>1, <1>3 DEF ScreenInv, SetInv, Reporting, Wired, Addressed
  <2>2. EndsInTurn' /\ TimersRun' /\ WordReady'
    BY <1>1, <1>3, <1>4 DEF ScreenInv, SetInv, EndsInTurn, TimersRun, WordReady
  <2>. QED  BY <2>1, <2>2 DEF SetInv
<1>6. RoomShown'
  BY <1>3 DEF RoomShown, ShowsRoom
<1>7. ChoicesShown'
  <2>1. t.at = "resume" => t.player \in back
    BY DEF ScreenInv, SetInv, Addressed, Returning
  <2>2. \A x \in tasks : x.at # "deal"
    BY <1>2 DEF Choosing
  <2>. QED  BY <1>3, <2>1, <2>2 DEF ScreenInv, ShownInv, ChoicesShown, SameTurnPart
<1>8. TurnShown'
  <2>1. ASSUME NEW p \in Listening, p # t.player \/ t.at = "left", PageShows(view[p], p)
        PROVE  PageShows(view[p], p)'
    BY <1>3, <2>1, PageStays DEF SameTurnPart
  <2>2. ASSUME NEW p \in Listening, PageShows(view'[p], p) PROVE PageShows(view[p], p)'
    <3>1. PICK x : x = view'[p]
      OBVIOUS
    <3>. QED  BY <1>3, <2>2, <3>1 DEF PageShows, Masked
  <2>3. ASSUME NEW p, Returns(p), p # t.player \/ t.at = "left" PROVE Returns(p)'
    <3>1. PICK x \in tasks : x.at \in Returning /\ x.player = p
      BY <2>3 DEF Returns
    <3>2. x # t
      BY <2>3, <3>1 DEF Returning
    <3>. QED  BY <3>1, <3>2 DEF Returns, Finish
  <2>. QED  BY <1>3, <1>4, <2>1, <2>2, <2>3 DEF ScreenInv, ShownInv, TurnShown
<1>. QED  BY <1>5, <1>6, <1>7, <1>8 DEF ScreenInv, ShownInv

LEMMA LeftShown == ASSUME TurnInv, ScreenInv, NEW t \in tasks, Left(t) PROVE ScreenInv'
<1>1. /\ Finish(t) /\ t.at = "left" /\ view' = RoomState(t.snap)
      /\ UNCHANGED <<room, secret, timers, live, bound, back>>
  BY DEF Left, Around
<1>2. t.snap = Public(room)
  BY <1>1, OneReports DEF Reports
<1>3. Public(room) \in Snapshot
  BY PublicType DEF TurnInv, TypeInv, TypeOK
<1>4. \A p \in Listening : ShowsRoom(view'[p], room, p) /\ SameTurnPart(view'[p], view[p])
  BY <1>1, <1>2, <1>3, RoomStateShows
<1>. QED  BY <1>1, <1>4, TellsAll

LEMMA ResumeShown == ASSUME TurnInv, ScreenInv, NEW t \in tasks, Resume(t) PROVE ScreenInv'
<1>1. /\ Finish(t) /\ t.at = "resume"
      /\ UNCHANGED <<room, secret, timers, live, bound, back>>
  BY DEF Resume, Around
<1>2. t.snap = Public(room) /\ t.player \in back
  BY <1>1, OneReports DEF Reports, Returning, Addressed
<1>3. PICK s : s = Public(room) /\ s \in Snapshot
  BY PublicType DEF TurnInv, TypeInv, TypeOK
<1>4. PICK m : m = MaskWord(secret.word, secret.revealed)
  OBVIOUS
<1>5. Open => Masked(m)
  <2>1. secret.revealed \in Nat
    BY DEF TurnInv, TypeInv, TypeOK, Secret
  <2>2. Open => CurrentWord \in Words
    BY WordOfTurn DEF Open
  <2>3. Open => HintsDue \in Nat
    BY <2>2, HintsType DEF HintsDue
  <2>4. Open => secret.word = CurrentWord /\ secret.revealed \in 0..HintsDue
    BY <2>1, <2>3 DEF ScreenInv, SetInv, WordReady
  <2>. QED  BY <1>4, <2>4 DEF Masked
<1>6. ASSUME NEW p \in Listening
      PROVE  /\ ShowsRoom(view'[p], room, p)
             /\ p # t.player => SameTurnPart(view'[p], view[p])
             /\ p = t.player /\ Open => view'[p].mask = m /\ view'[p].guessed = FALSE
  <2>1. PICK v : /\ v = RoomState(s)[p] /\ v \in View /\ ShowsRoom(v, room, p)
                 /\ SameTurnPart(v, view[p])
    BY <1>3, RoomStateShows
  <2>2. PICK x : x = StartTurn(v, m)
    OBVIOUS
  <2>3. x.phase = v.phase /\ x.pen = v.pen /\ x.mask = m /\ x.guessed = FALSE
    BY <2>1, <2>2, StartTurnPage
  <2>4. p \in Players
    BY ListeningPage
  <2>5. view'[p] = IF p = t.player /\ room.phase # "ROUND_END" THEN x ELSE v
    BY <1>2, <1>3, <1>4, <2>1, <2>2, <2>4 DEF Resume
  <2>. QED  BY <2>1, <2>3, <2>5 DEF ShowsRoom, Open
<1>7. t.player \in Listening /\ Open => PageShows(view'[t.player], t.player)
  BY <1>2, <1>5, <1>6 DEF PageShows
<1>. QED  BY <1>1, <1>6, <1>7, TellsAll

\* Removing a player removes nobody else from the list, and adds nobody.
LEMMA OthersNamed ==
    ASSUME NEW S, NEW o, SoundFor(o, S), NEW p, NEW q, q # p
    PROVE  q \in Named(Without(o, p)) <=> q \in Named(o)
<1>1. q \in Named(o) => q \in Named(Without(o, p))
  BY NamedWithout
<1>2. SoundFor(o, Named(o))
  <2>1. o \in Seq(S) /\ DOMAIN o = 1..Len(o) /\ Len(o) \in Nat
    BY DEF SoundFor
  <2>2. o \in [1..Len(o) -> Named(o)]
    BY <2>1 DEF Named
  <2>3. o \in Seq(Named(o))
    BY <2>1, <2>2
  <2>. QED  BY <2>3 DEF SoundFor
<1>3. Named(Without(o, p)) \subseteq Named(o) \ {p}
  BY <1>2, WithoutSound, NamedInOrder
<1>. QED  BY <1>1, <1>3

LEMMA RemoveShown ==
    ASSUME Overlap = FALSE, TurnInv, ScreenInv, NEW p \in Players, Remove(p) PROVE ScreenInv'
<1>1. PICK h : h = Handler("left", p) /\ h \in Task /\ h.at = "left" /\ h.player = p
  BY FieldsOfHandler DEF Labels
<1>2. PICK u : u = [h EXCEPT !.snap = Public(room')]
  OBVIOUS
<1>3. u.at = "left" /\ u.snap = Public(room')
  BY <1>1, <1>2 DEF Task
<1>4. /\ UNCHANGED <<secret, timers, live, view, back>> /\ Settled
      /\ bound' = bound \ {p} /\ tasks' = tasks \cup {u}
  BY <1>1, <1>2 DEF Remove, InTurn, Spawn
<1>5. /\ room'.phase = room.phase /\ room'.drawing = room.drawing \ {p}
      /\ room'.socket = room.socket /\ room'.usedWords = room.usedWords
      /\ room'.guessed = Without(room.guessed, p)
  BY DEF Remove, TurnInv, TypeInv, TypeOK, Room
<1>6. \A x \in tasks : x.at \notin Reports
  BY <1>4 DEF Settled, Reports, Choosing, Returning
<1>7. u \in tasks' /\ u.at \notin Choosing \cup Ending \cup Starters /\ ~Settled'
  BY <1>3, <1>4 DEF Choosing, Ending, Starters, Settled
<1>8. /\ CurrentWord' = CurrentWord /\ HintsDue' = HintsDue /\ Listening' = Listening \ {p}
  BY <1>4, <1>5 DEF CurrentWord, HintsDue, Listening
<1>9. Open' = Open
  BY <1>4, <1>5, <1>7 DEF Open, Choosing
<1>10. SetInv'
  <2>1. Reporting'
    BY <1>3, <1>4, <1>6 DEF Reporting
  <2>2. Wired'
    BY <1>4, <1>5 DEF ScreenInv, SetInv, Wired
  <2>3. \A x \in tasks' : Addressed(x)'
    <3>1. Addressed(u)'
      BY <1>3 DEF Addressed, Choosing, Judging, Returning
    <3>2. ASSUME NEW x \in tasks PROVE Addressed(x)'
      BY <1>4, <1>5, <1>6 DEF ScreenInv, SetInv, Addressed, Reports, Choosing, Returning
    <3>. QED  BY <1>4, <3>1, <3>2
  <2>4. EndsInTurn' /\ TimersRun'
    BY <1>4, <1>5, <1>7, <1>8, <1>9 DEF ScreenInv, SetInv, EndsInTurn, TimersRun, Ending
  <2>5. WordReady'
    BY <1>3, <1>4, <1>6, <1>8, <1>9 DEF ScreenInv, SetInv, WordReady, Reports, Choosing
  <2>. QED  BY <2>1, <2>2, <2>3, <2>4, <2>5 DEF SetInv
<1>11. RoomShown' /\ ChoicesShown'
  <2>1. \A x \in tasks : x.at # "deal"
    BY <1>6 DEF Reports, Choosing
  <2>. QED  BY <1>4, <1>5, <1>7, <1>8, <2>1 DEF ScreenInv, ShownInv, RoomShown, ChoicesShown
<1>12. TurnShown'
  <2>1. ASSUME NEW q, q # p PROVE q \in Guessed' <=> q \in Guessed
    <3>1. SoundFor(room.guessed, room.players)
      BY DEF TurnInv, TypeInv, TypeOK
    <3>2. Guessed = Named(room.guessed) /\ Guessed' = Named(Without(room.guessed, p))
      BY <1>5 DEF Guessed, Named
    <3>. QED  BY <2>1, <3>1, <3>2, OthersNamed
  <2>2. ASSUME NEW q \in Listening, q # p, PageShows(view[q], q) PROVE PageShows(view[q], q)'
    BY <1>4, <1>5, <2>1, <2>2, PageStays
  <2>3. \A q : Returns(q) => Returns(q)'
    BY <1>4 DEF Returns
  <2>. QED  BY <1>8, <1>9, <2>2, <2>3 DEF ScreenInv, ShownInv, TurnShown
<1>. QED  BY <1>10, <1>11, <1>12 DEF ScreenInv, ShownInv

LEMMA ScreenInit == Init => ScreenInv
<1>. SUFFICES ASSUME Init PROVE ScreenInv
  OBVIOUS
<1>1. PICK u : u = Handler("begin", Nobody) /\ u.at = "begin"
  BY FieldsOfHandler DEF Labels
<1>2. /\ tasks = {u} /\ timers = {} /\ live = [p \in Players |-> 1] /\ bound = Players
      /\ room.phase = "WORD_SELECTION" /\ room.drawing = {}
      /\ room.socket = [p \in Players |-> 1]
  BY <1>1 DEF Init
<1>3. PICK v : v = ResetTurn([phase |-> "WORD_SELECTION", pen |-> FALSE, mask |-> << >>,
                             myWord |-> Null, guessed |-> FALSE, choices |-> FALSE])
  OBVIOUS
<1>4. v.phase = "WORD_SELECTION" /\ v.pen = FALSE
  BY <1>3 DEF ResetTurn
<1>5. \A p \in Players : view[p] = v
  BY <1>2, <1>3 DEF Init
<1>6. SetInv
  <2>1. Reporting /\ EndsInTurn /\ TimersRun /\ WordReady
    BY <1>1, <1>2
       DEF Reporting, EndsInTurn, TimersRun, WordReady, Open, Reports, Choosing, Returning, Ending
  <2>2. Wired
    BY <1>2 DEF Wired
  <2>3. \A t \in tasks : Addressed(t)
    BY <1>1, <1>2 DEF Addressed, Choosing, Judging, Returning
  <2>. QED  BY <2>1, <2>2, <2>3 DEF SetInv
<1>7. Listening \subseteq Players
  BY <1>2 DEF Listening
<1>8. RoomShown
  <2>1. \A p \in Players : (p \in room.drawing) = FALSE
    BY <1>2
  <2>. QED  BY <1>2, <1>4, <1>5, <1>7, <2>1 DEF RoomShown, ShowsRoom
<1>9. ChoicesShown /\ TurnShown
  BY <1>2 DEF ChoicesShown, TurnShown, Open
<1>. QED  BY <1>6, <1>8, <1>9 DEF ScreenInv, ShownInv

LEMMA ScreenStep ==
    ASSUME Shifts = FALSE, Overlap = FALSE, Luck = FALSE, TurnInv, ScreenInv, [Next]_vars
    PROVE  ScreenInv'
<1>1. CASE UNCHANGED vars
  BY <1>1, UnnoticedKeeps DEF vars
<1>2. CASE Next
  <2>1. ASSUME NEW t \in tasks, Silent(t) PROVE ScreenInv'
    BY <2>1, BeginShown, DealShown, SelectShown, SetWordShown, AnnounceShown, CreditShown,
       EndShown, CloseShown, WipeShown, AdvanceShown, RejoinShown, BindShown, ResumeShown,
       LeftShown DEF Silent
  <2>2. ASSUME NEW t \in tasks, Speech(t) PROVE ScreenInv'
    BY <2>2, GuessShown, MatchShown, ChatShown DEF Speech
  <2>3. CASE Event
    <3>1. ASSUME NEW x \in timers, NEW w \in Words, SelectTimeout(x, w) PROVE ScreenInv'
      <4>1. x.player \in Players
        BY <3>1 DEF SelectTimeout, TurnInv, TypeInv, SelectsTyped
      <4>. QED  BY <3>1, <4>1, ChooseShown
    <3>2. ASSUME NEW x \in timers, Hint(x) \/ DrawTimeout(x) \/ RoundEndTimeout(x)
          PROVE  ScreenInv'
      BY <3>2, HintShown, TimeoutShown, PauseShown
    <3>3. ASSUME NEW p \in Players, NEW w \in Words, ChooseWord(p, w) PROVE ScreenInv'
      BY <3>3, ChooseShown
    <3>4. ASSUME NEW p \in Players, (\E g \in Guesses : SubmitGuess(p, g)) \/ SendChat(p)
          PROVE  ScreenInv'
      BY <3>4, SayShown DEF SubmitGuess, SendChat
    <3>5. ASSUME NEW p \in Players, Lose(p) \/ Reconnect(p) \/ Remove(p) PROVE ScreenInv'
      BY <3>5, LoseShown, ReconnectShown, RemoveShown
    <3>. QED  BY <2>3, <3>1, <3>2, <3>3, <3>4, <3>5, TickShown DEF Event
  <2>. QED  BY <1>2, <2>1, <2>2, <2>3 DEF Next
<1>. QED  BY <1>1, <1>2

\* When no handler is in flight, the page of everybody in the room shows his part in the
\* turn, and nobody's shows a word he is to guess (GameStore; game.service.ts:152-414,
\* game.gateway.ts:124-142, 165-174, 456-474).
THEOREM ScreensAreTrue ==
    ASSUME Shifts = FALSE, Overlap = FALSE, Luck = FALSE
    PROVE  Spec => []ScreenTrue
<1>1. Init => TurnInv /\ ScreenInv
  BY TurnInit, ScreenInit
<1>2. TurnInv /\ ScreenInv /\ [Next]_vars => TurnInv' /\ ScreenInv'
  BY TurnStep, ScreenStep
<1>3. TurnInv /\ ScreenInv => ScreenTrue
  BY ScreensShow
<1>. QED  BY <1>1, <1>2, <1>3, PTL DEF Spec
=============================================================================
