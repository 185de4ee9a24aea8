------------------------- MODULE TableEngineProofs -------------------------
(***************************************************************************)
(* What the operators of TableEngine keep true of a table, and what they   *)
(* do to the number of its chips, for any number of seats, any blinds,     *)
(* stakes, rake and ranks.  First the lemmas about sums of chips (module   *)
(* ChipCount) that it rests on; then the loops of the showdown (SidePots): *)
(* what the pots hold at every iteration, that the loops pay what          *)
(* TableEngine says a showdown pays, and what the players may expect of it.*)
(*                                                                         *)
(* The invariant of the loops pairs the pots built so far with the levels  *)
(* passed so far: pot k is the pot of the k-th level that a player still   *)
(* in has reached, and holds the chips of that pot up to the level the     *)
(* loop is at.                                                             *)
(*                                                                         *)
(* Last, the cards: bestHandFrom returns, for every seven cards, what the  *)
(* rules say of them (HandEvaluator).  Both evaluate5 and the reference    *)
(* are first read as one of the nine kinds of hand, with the ranks that    *)
(* break ties; no five of the seven read better than the reference does,   *)
(* and five of them read the same; of two different scores one beats the   *)
(* other, so the best of the twenty-one is the reference.                  *)
(***************************************************************************)
EXTENDS Showdown, FiniteSetTheorems, FunctionTheorems, SequenceTheorems, WellFoundedInduction,
        TLAPS

----------------------------------------------------------------------------
(* Sums of chips: finite heaps of any size *)

\* The chips of one owner are as many as his amount.
LEMMA OwnChips ==
  ASSUME NEW i, NEW n \in Nat
  PROVE  /\ IsFiniteSet({i} \X (1 .. n))
         /\ Cardinality({i} \X (1 .. n)) = n
<1>1. IsFiniteSet({i}) /\ Cardinality({i}) = 1
  BY FS_Singleton
<1>2. IsFiniteSet(1 .. n) /\ Cardinality(1 .. n) = n
  BY FS_Interval
<1>3. /\ IsFiniteSet({i} \X (1 .. n))
      /\ Cardinality({i} \X (1 .. n)) = Cardinality({i}) * Cardinality(1 .. n)
  BY <1>1, <1>2, FS_Product
<1> QED BY <1>1, <1>2, <1>3

\* A heap of naturals on a finite set of owners has finitely many chips.
LEMMA ChipsFinite ==
  ASSUME NEW S, IsFiniteSet(S), NEW f \in [S -> Nat]
  PROVE  IsFiniteSet(Chips(f))
<1> DEFINE g == [i \in S |-> {i} \X (1 .. f[i])]
           T == {{i} \X (1 .. f[i]) : i \in S}
<1>1. g \in Surjection(S, T)
  BY DEF Surjection
<1>2. IsFiniteSet(T)
  BY <1>1, FS_Surjection
<1>3. ASSUME NEW i \in S PROVE IsFiniteSet({i} \X (1 .. f[i]))
  BY OwnChips
<1>4. IsFiniteSet(UNION T)
  BY <1>2, <1>3, FS_UNION
<1> QED BY <1>4 DEF Chips

\* A sum of naturals is a natural.
LEMMA TotalType ==
  ASSUME NEW S, IsFiniteSet(S), NEW f \in [S -> Nat]
  PROVE  Total(f) \in Nat
BY ChipsFinite, FS_CardinalityType DEF Total

\* The chips of all the owners but one.
Others(f, i) == {c \in Chips(f) : c[1] # i}

\* A sum is one of its amounts plus what the others have.
LEMMA TotalSplit ==
  ASSUME NEW S, IsFiniteSet(S), NEW f \in [S -> Nat], NEW i \in S
  PROVE  /\ Cardinality(Others(f, i)) \in Nat
         /\ Total(f) = Cardinality(Others(f, i)) + f[i]
<1> DEFINE own == {i} \X (1 .. f[i])
<1>1. IsFiniteSet(Chips(f))
  BY ChipsFinite
<1>2. IsFiniteSet(Others(f, i)) /\ Cardinality(Others(f, i)) \in Nat
  BY <1>1, FS_Subset, FS_CardinalityType DEF Others
<1>3. IsFiniteSet(own) /\ Cardinality(own) = f[i]
  BY OwnChips
<1>4. Chips(f) = Others(f, i) \cup own
  BY DEF Chips, Others
<1>5. Others(f, i) \cap own = {}
  BY DEF Others
<1>6. Cardinality(Others(f, i) \cup own) =
        Cardinality(Others(f, i)) + Cardinality(own)
          - Cardinality(Others(f, i) \cap own)
  BY <1>2, <1>3, FS_Union
<1>7. Cardinality(Others(f, i) \cap own) = 0
  BY <1>5, FS_EmptySet
<1> QED BY <1>2, <1>3, <1>4, <1>6, <1>7 DEF Total

\* Changing one amount changes the sum by as much.
LEMMA TotalUpdate ==
  ASSUME NEW S, IsFiniteSet(S), NEW f \in [S -> Nat], NEW g \in [S -> Nat],
         NEW i \in S, \A j \in S \ {i} : g[j] = f[j]
  PROVE  Total(g) = Total(f) + g[i] - f[i]
<1>1. Others(g, i) = Others(f, i)
  BY DEF Others, Chips
<1>2. /\ Total(f) = Cardinality(Others(f, i)) + f[i]
      /\ Cardinality(Others(f, i)) \in Nat
  BY TotalSplit
<1>3. Total(g) = Cardinality(Others(g, i)) + g[i]
  BY TotalSplit
<1> QED BY <1>1, <1>2, <1>3

\* No amount exceeds the sum.
LEMMA TotalBound ==
  ASSUME NEW S, IsFiniteSet(S), NEW f \in [S -> Nat], NEW i \in S
  PROVE  f[i] <= Total(f)
BY TotalSplit

\* A sum of zeros is zero.
LEMMA TotalZero ==
  ASSUME NEW S, NEW f \in [S -> Nat], \A i \in S : f[i] = 0
  PROVE  Total(f) = 0
<1>1. Chips(f) = {}
  BY DEF Chips
<1> QED BY <1>1, FS_EmptySet DEF Total

\* A non-empty set of naturals has a least element, and First is it: the set
\* of the initial segments 1 .. n, n in S, has a minimal member.
LEMMA FirstType ==
  ASSUME NEW S \in SUBSET Nat, S # {}
  PROVE  First(S) \in S /\ \A j \in S : First(S) <= j
<1> DEFINE T == {1 .. n : n \in S}
           R == StrictSubsetOrdering(Nat)
<1>1. IsWellFoundedOn(R, FiniteSubsetsOf(Nat))
  BY FS_StrictSubsetOrderingWellFounded
<1>2. ASSUME NEW n \in S PROVE 1 .. n \in FiniteSubsetsOf(Nat)
  BY FS_Interval DEF FiniteSubsetsOf
<1>3. T \subseteq FiniteSubsetsOf(Nat) /\ T # {}
  BY <1>2
<1>4. PICK m \in T : \A x \in T : ~(<<x, m>> \in R)
  <2> HIDE DEF T, R
  <2> QED BY <1>1, <1>3, WFMin
<1>5. PICK i \in S : m = 1 .. i
  BY <1>4
<1>6. ASSUME NEW j \in S, j < i PROVE FALSE
  <2>1. 1 .. j \subseteq 1 .. i /\ i \in 1 .. i /\ i \notin 1 .. j
    BY <1>6
  <2>2. <<1 .. j, 1 .. i>> \in R
    BY <2>1 DEF StrictSubsetOrdering
  <2> QED BY <1>4, <1>5, <2>2
<1>7. \A j \in S : i <= j
  BY <1>6
<1> QED BY <1>7 DEF First

\* A finite set of naturals that is not empty has a greatest element: the sum of
\* its elements bounds it, and the least of its bounds is one of them.
LEMMA LastType ==
  ASSUME NEW S \in SUBSET Nat, IsFiniteSet(S), S # {}
  PROVE  Last(S) \in S /\ \A j \in S : Last(S) >= j
<1> DEFINE f == [j \in S |-> j]
           B == {b \in Nat : \A j \in S : j <= b}
<1>1. \A j \in S : j <= Total(f)
  <2>1. f \in [S -> Nat]
    OBVIOUS
  <2> QED BY <2>1, TotalBound
<1>2. Total(f) \in Nat
  <2>1. f \in [S -> Nat]
    OBVIOUS
  <2> QED BY <2>1, TotalType
<1>3. B \in SUBSET Nat /\ B # {}
  BY <1>1, <1>2
<1>4. First(B) \in B /\ \A b \in B : First(B) <= b
  <2> HIDE DEF B
  <2> QED BY <1>3, FirstType
<1>5. PICK b \in B : \A c \in B : b <= c
  BY <1>4
<1>6. b \in S
  <2> SUFFICES ASSUME b \notin S PROVE FALSE
    OBVIOUS
  <2>1. \A j \in S : j \in Nat /\ j < b
    BY <1>5
  <2>2. b - 1 \in Nat /\ \A j \in S : j <= b - 1
    <3>1. b \in Nat /\ \E j \in S : j \in Nat /\ j < b
      BY <1>5, <2>1
    <3> QED BY <2>1, <3>1
  <2> QED BY <1>5, <2>2
<1> QED BY <1>5, <1>6 DEF Last

\* As many as the members of n disjoint sets are the sum of their numbers.
LEMMA CountUnion ==
  ASSUME NEW S, IsFiniteSet(S), NEW F, DOMAIN F = S,
         \A i \in S : IsFiniteSet(F[i]),
         \A i, j \in S : i # j => F[i] \cap F[j] = {}
  PROVE  Cardinality(UNION {F[i] : i \in S}) = Total([i \in S |-> Cardinality(F[i])])
<1> DEFINE n == [i \in S |-> Cardinality(F[i])]
           B(i) == CHOOSE b : b \in Bijection(1 .. n[i], F[i])
           U == UNION {F[i] : i \in S}
           h == [c \in Chips(n) |-> B(c[1])[c[2]]]
<1>1. ASSUME NEW i \in S
      PROVE  n[i] \in Nat /\ B(i) \in Bijection(1 .. n[i], F[i])
  <2>1. n[i] \in Nat /\ ExistsBijection(1 .. n[i], F[i])
    BY FS_CardinalityType
  <2> QED BY <2>1 DEF ExistsBijection
<1>2. n \in [S -> Nat]
  BY <1>1
<1>3. ASSUME NEW c \in Chips(n)
      PROVE  c[1] \in S /\ c[2] \in 1 .. n[c[1]] /\ c = <<c[1], c[2]>>
  BY DEF Chips
<1>4. ASSUME NEW i \in S, NEW k \in 1 .. n[i]
      PROVE  <<i, k>> \in Chips(n)
  BY DEF Chips
<1>5. ASSUME NEW i \in S
      PROVE  /\ \A k \in 1 .. n[i] : B(i)[k] \in F[i]
             /\ \A k, l \in 1 .. n[i] : B(i)[k] = B(i)[l] => k = l
             /\ \A x \in F[i] : \E k \in 1 .. n[i] : B(i)[k] = x
  <2> HIDE DEF n, B
  <2> QED BY <1>1, Fun_BijectionProperties
<1> HIDE DEF n, B
<1>6. h \in [Chips(n) -> U]
  BY <1>3, <1>5
<1>7. ASSUME NEW c \in Chips(n), NEW d \in Chips(n), h[c] = h[d]
      PROVE  c = d
  <2>1. h[c] \in F[c[1]] /\ h[d] \in F[d[1]]
    BY <1>3, <1>5
  <2>2. c[1] = d[1]
    BY <1>3, <1>7, <2>1
  <2>3. c[2] = d[2]
    BY <1>3, <1>5, <1>7, <2>2
  <2> QED BY <1>3, <2>2, <2>3
<1>8. ASSUME NEW x \in U PROVE \E c \in Chips(n) : h[c] = x
  <2>1. PICK i \in S : x \in F[i]
    OBVIOUS
  <2>2. PICK k \in 1 .. n[i] : B(i)[k] = x
    BY <1>5, <2>1
  <2>3. <<i, k>> \in Chips(n) /\ h[<<i, k>>] = B(i)[k]
    BY <1>4
  <2> QED BY <2>2, <2>3
<1> HIDE DEF h, U
<1>9. ExistsBijection(Chips(n), U)
  BY <1>6, <1>7, <1>8, Fun_IsBij DEF ExistsBijection
<1>10. IsFiniteSet(Chips(n))
  BY <1>2, ChipsFinite
<1> QED BY <1>9, <1>10, FS_Bijection DEF Total, U, n

\* What a chip is: an owner of the heap and a number up to his amount.
LEMMA ChipsOf ==
  ASSUME NEW f
  PROVE  /\ \A i \in DOMAIN f : \A k \in 1 .. f[i] : <<i, k>> \in Chips(f)
         /\ \A c \in Chips(f) : /\ c[1] \in DOMAIN f /\ c[2] \in 1 .. f[c[1]]
                                /\ c = <<c[1], c[2]>>
BY DEF Chips

\* The members of C that the sorting q puts into group j.
Group(C, q, j) == {c \in C : q[c] = j}

\* Things sorted into groups are as many as their groups have members.
LEMMA CountGroups ==
  ASSUME NEW C, IsFiniteSet(C), NEW T, IsFiniteSet(T), NEW q \in [C -> T],
         NEW g \in [T -> Nat], \A j \in T : g[j] = Cardinality(Group(C, q, j))
  PROVE  Cardinality(C) = Total(g)
<1> DEFINE F == [j \in T |-> Group(C, q, j)]
<1>1. UNION {F[j] : j \in T} = C
  BY DEF Group
<1>2. \A j \in T : IsFiniteSet(F[j])
  BY FS_Subset DEF Group
<1>3. \A i, j \in T : i # j => F[i] \cap F[j] = {}
  BY DEF Group
<1>4. DOMAIN F = T /\ [j \in T |-> Cardinality(F[j])] = g
  OBVIOUS
<1> HIDE DEF F
<1>5. Cardinality(UNION {F[j] : j \in T}) = Total([j \in T |-> Cardinality(F[j])])
  BY <1>2, <1>3, <1>4, CountUnion
<1> QED BY <1>1, <1>4, <1>5

\* A one-to-one map onto B counts B.
LEMMA SameCount ==
  ASSUME NEW A, IsFiniteSet(A), NEW B, NEW h \in [A -> B],
         \A c, d \in A : h[c] = h[d] => c = d,
         \A x \in B : \E c \in A : h[c] = x
  PROVE  IsFiniteSet(B) /\ Cardinality(B) = Cardinality(A)
<1>1. ExistsBijection(A, B)
  BY Fun_IsBij DEF ExistsBijection
<1> QED BY <1>1, FS_Bijection

\* A number for each of the cells S \X T.
Matrix(f, S, T) == f \in [S \X T -> Nat]

\* The chips in the cells of a matrix.
LEMMA CellChips ==
  ASSUME NEW S, NEW T, NEW f, Matrix(f, S, T)
  PROVE  /\ \A a \in S, b \in T : \A k \in 1 .. f[<<a, b>>] : <<<<a, b>>, k>> \in Chips(f)
         /\ \A c \in Chips(f) : /\ c[1][1] \in S /\ c[1][2] \in T
                                /\ c[2] \in 1 .. f[<<c[1][1], c[1][2]>>]
                                /\ c = <<<<c[1][1], c[1][2]>>, c[2]>>
<1>1. DOMAIN f = S \X T
  BY DEF Matrix
<1>2. ASSUME NEW c \in Chips(f)
      PROVE  /\ c[1][1] \in S /\ c[1][2] \in T /\ c[1] = <<c[1][1], c[1][2]>>
             /\ c[2] \in 1 .. f[c[1]] /\ c = <<c[1], c[2]>>
  <2>1. c[1] \in S \X T /\ c[2] \in 1 .. f[c[1]] /\ c = <<c[1], c[2]>>
    BY <1>1, ChipsOf
  <2> QED BY <2>1
<1> QED BY <1>1, <1>2, ChipsOf

\* A row and a column of a matrix, and the chips in them.
Row(f, T, i)      == [j \in T |-> f[<<i, j>>]]
Column(f, S, j)   == [i \in S |-> f[<<i, j>>]]
RowChips(f, i)    == {c \in Chips(f) : c[1][1] = i}
ColumnChips(f, j) == {c \in Chips(f) : c[1][2] = j}

\* The chips in a row, and in a column, are the sum of its cells.
LEMMA CountRow ==
  ASSUME NEW S, NEW T, IsFiniteSet(T), NEW f, Matrix(f, S, T), NEW i \in S
  PROVE  Cardinality(RowChips(f, i)) = Total(Row(f, T, i))
<1> DEFINE r == [j \in T |-> f[<<i, j>>]]
           G == {c \in Chips(f) : c[1][1] = i}
           h == [c \in Chips(r) |-> <<<<i, c[1]>>, c[2]>>]
<1>0. /\ \A a \in S, b \in T : \A k \in 1 .. f[<<a, b>>] : <<<<a, b>>, k>> \in Chips(f)
      /\ \A c \in Chips(f) : /\ c[1][1] \in S /\ c[1][2] \in T
                             /\ c[2] \in 1 .. f[<<c[1][1], c[1][2]>>]
                             /\ c = <<<<c[1][1], c[1][2]>>, c[2]>>
  BY CellChips
<1>1. r \in [T -> Nat] /\ DOMAIN r = T
  BY DEF Matrix
<1>2. \A c \in Chips(r) : c[1] \in T /\ c[2] \in 1 .. f[<<i, c[1]>>] /\ c = <<c[1], c[2]>>
  BY <1>1, ChipsOf
<1>3. h \in [Chips(r) -> G]
  BY <1>0, <1>2
<1>4. ASSUME NEW c \in Chips(r), NEW d \in Chips(r), h[c] = h[d] PROVE c = d
  <2>1. <<<<i, c[1]>>, c[2]>> = <<<<i, d[1]>>, d[2]>>
    BY <1>4
  <2> QED BY <1>2, <2>1
<1>5. ASSUME NEW x \in G PROVE \E c \in Chips(r) : h[c] = x
  <2>1. x[1][1] = i /\ x[1][2] \in T /\ x[2] \in 1 .. f[<<i, x[1][2]>>]
        /\ x = <<<<i, x[1][2]>>, x[2]>>
    BY <1>0
  <2>2. <<x[1][2], x[2]>> \in Chips(r)
    BY <1>1, <2>1, ChipsOf
  <2>3. h[<<x[1][2], x[2]>>] = x
    BY <2>1, <2>2
  <2> QED BY <2>2, <2>3
<1>6. IsFiniteSet(Chips(r))
  BY <1>1, ChipsFinite
<1>7. G = RowChips(f, i) /\ r = Row(f, T, i)
  BY DEF RowChips, Row
<1> HIDE DEF G, h, r
<1>8. Cardinality(G) = Cardinality(Chips(r))
  BY <1>3, <1>4, <1>5, <1>6, SameCount
<1> QED BY <1>7, <1>8 DEF Total

LEMMA CountColumn ==
  ASSUME NEW S, NEW T, IsFiniteSet(S), NEW f, Matrix(f, S, T), NEW j \in T
  PROVE  Cardinality(ColumnChips(f, j)) = Total(Column(f, S, j))
<1> DEFINE r == [i \in S |-> f[<<i, j>>]]
           G == {c \in Chips(f) : c[1][2] = j}
           h == [c \in Chips(r) |-> <<<<c[1], j>>, c[2]>>]
<1>0. /\ \A a \in S, b \in T : \A k \in 1 .. f[<<a, b>>] : <<<<a, b>>, k>> \in Chips(f)
      /\ \A c \in Chips(f) : /\ c[1][1] \in S /\ c[1][2] \in T
                             /\ c[2] \in 1 .. f[<<c[1][1], c[1][2]>>]
                             /\ c = <<<<c[1][1], c[1][2]>>, c[2]>>
  BY CellChips
<1>1. r \in [S -> Nat] /\ DOMAIN r = S
  BY DEF Matrix
<1>2. \A c \in Chips(r) : c[1] \in S /\ c[2] \in 1 .. f[<<c[1], j>>] /\ c = <<c[1], c[2]>>
  BY <1>1, ChipsOf
<1>3. h \in [Chips(r) -> G]
  <2>1. ASSUME NEW c \in Chips(r) PROVE <<<<c[1], j>>, c[2]>> \in G
    <3>1. <<<<c[1], j>>, c[2]>> \in Chips(f)
      BY <1>0, <1>2
    <3> QED BY <3>1
  <2> QED BY <2>1
<1>4. ASSUME NEW c \in Chips(r), NEW d \in Chips(r), h[c] = h[d] PROVE c = d
  <2>1. <<<<c[1], j>>, c[2]>> = <<<<d[1], j>>, d[2]>>
    BY <1>4
  <2> QED BY <1>2, <2>1
<1>5. ASSUME NEW x \in G PROVE \E c \in Chips(r) : h[c] = x
  <2>1. x[1][1] \in S /\ x[1][2] = j /\ x[2] \in 1 .. f[<<x[1][1], j>>]
        /\ x = <<<<x[1][1], j>>, x[2]>>
    BY <1>0
  <2>2. <<x[1][1], x[2]>> \in Chips(r)
    BY <1>1, <2>1, ChipsOf
  <2>3. h[<<x[1][1], x[2]>>] = x
    BY <2>1, <2>2
  <2> QED BY <2>2, <2>3
<1>6. IsFiniteSet(Chips(r))
  BY <1>1, ChipsFinite
<1>7. G = ColumnChips(f, j) /\ r = Column(f, S, j)
  BY DEF ColumnChips, Column
<1> HIDE DEF G, h, r
<1>8. Cardinality(G) = Cardinality(Chips(r))
  BY <1>3, <1>4, <1>5, <1>6, SameCount
<1> QED BY <1>7, <1>8 DEF Total

\* A matrix can be summed by rows or by columns: both count the chips of its
\* cells.
LEMMA TotalSwap ==
  ASSUME NEW S, IsFiniteSet(S), NEW T, IsFiniteSet(T), NEW f, Matrix(f, S, T),
         NEW rows \in [S -> Nat], \A i \in S : rows[i] = Total(Row(f, T, i)),
         NEW cols \in [T -> Nat], \A j \in T : cols[j] = Total(Column(f, S, j))
  PROVE  Total(rows) = Total(cols)
<1>7. ASSUME NEW i \in S PROVE Cardinality(RowChips(f, i)) = Total(Row(f, T, i))
  BY CountRow
<1>8. ASSUME NEW j \in T PROVE Cardinality(ColumnChips(f, j)) = Total(Column(f, S, j))
  BY CountColumn
<1> DEFINE C == Chips(f)
           row == [c \in C |-> c[1][1]]
           col == [c \in C |-> c[1][2]]
<1>1. IsFiniteSet(C)
  BY FS_Product, ChipsFinite DEF Matrix
<1>2. row \in [C -> S] /\ col \in [C -> T]
  BY CellChips
<1>3. ASSUME NEW i \in S PROVE rows[i] = Cardinality(Group(C, row, i))
  <2>1. Group(C, row, i) = RowChips(f, i)
    BY DEF Group, RowChips
  <2> QED BY <1>7, <2>1
<1>4. ASSUME NEW j \in T PROVE cols[j] = Cardinality(Group(C, col, j))
  <2>1. Group(C, col, j) = ColumnChips(f, j)
    BY DEF Group, ColumnChips
  <2> QED BY <1>8, <2>1
<1> HIDE DEF C, row, col
<1>5. Cardinality(C) = Total(rows)
  BY <1>1, <1>2, <1>3, CountGroups
<1>6. Cardinality(C) = Total(cols)
  BY <1>1, <1>2, <1>4, CountGroups
<1> QED BY <1>5, <1>6

\* The same amount for each owner in W, nothing for the others.
LEMMA TotalEqual ==
  ASSUME NEW S, IsFiniteSet(S), NEW W \in SUBSET S, NEW a \in Nat,
         NEW f \in [S -> Nat], \A i \in S : f[i] = IF i \in W THEN a ELSE 0
  PROVE  Total(f) = Cardinality(W) * a
<1>1. Chips(f) = W \X (1 .. a)
  BY DEF Chips
<1>2. IsFiniteSet(W) /\ IsFiniteSet(1 .. a) /\ Cardinality(1 .. a) = a
  BY FS_Subset, FS_Interval
<1> QED BY <1>1, <1>2, FS_Product DEF Total

\* Sums add up.
LEMMA TotalSum ==
  ASSUME NEW S, IsFiniteSet(S), NEW f \in [S -> Nat], NEW g \in [S -> Nat],
         NEW s \in [S -> Nat], \A i \in S : s[i] = f[i] + g[i]
  PROVE  Total(s) = Total(f) + Total(g)
<1> DEFINE above == {c \in Chips(s) : c[2] > f[c[1]]}
           h == [c \in Chips(g) |-> <<c[1], f[c[1]] + c[2]>>]
<1>1. s \in [S -> Nat] /\ DOMAIN s = S /\ DOMAIN f = S /\ DOMAIN g = S
  OBVIOUS
<1>2. /\ \A c \in Chips(f) : c[1] \in S /\ c[2] \in 1 .. f[c[1]] /\ c = <<c[1], c[2]>>
      /\ \A c \in Chips(g) : c[1] \in S /\ c[2] \in 1 .. g[c[1]] /\ c = <<c[1], c[2]>>
      /\ \A c \in Chips(s) : c[1] \in S /\ c[2] \in 1 .. s[c[1]] /\ c = <<c[1], c[2]>>
  BY <1>1, ChipsOf
<1>3. /\ \A i \in S : \A k \in 1 .. f[i] : <<i, k>> \in Chips(f)
      /\ \A i \in S : \A k \in 1 .. g[i] : <<i, k>> \in Chips(g)
      /\ \A i \in S : \A k \in 1 .. s[i] : <<i, k>> \in Chips(s)
  BY <1>1, ChipsOf
<1>4. \A i \in S : s[i] = f[i] + g[i] /\ f[i] \in Nat /\ g[i] \in Nat
  OBVIOUS
<1>5. Chips(s) = Chips(f) \cup above /\ Chips(f) \cap above = {}
  <2>1. ASSUME NEW c \in Chips(f) PROVE c \in Chips(s) /\ c \notin above
    <3>1. c[1] \in S /\ c[2] \in 1 .. f[c[1]] /\ c[2] \in 1 .. s[c[1]] /\ c = <<c[1], c[2]>>
      BY <1>2, <1>4
    <3> QED BY <1>3, <1>4, <3>1
  <2>2. ASSUME NEW c \in Chips(s), c \notin above PROVE c \in Chips(f)
    <3>1. c[1] \in S /\ c[2] \in 1 .. f[c[1]] /\ c = <<c[1], c[2]>>
      BY <1>2, <1>4, <2>2
    <3> QED BY <1>3, <3>1
  <2> QED BY <2>1, <2>2
<1>6. h \in [Chips(g) -> above]
  <2>1. ASSUME NEW c \in Chips(g) PROVE <<c[1], f[c[1]] + c[2]>> \in above
    <3>1. c[1] \in S /\ f[c[1]] + c[2] \in 1 .. s[c[1]] /\ f[c[1]] + c[2] > f[c[1]]
      BY <1>2, <1>4
    <3> QED BY <1>3, <3>1
  <2> QED BY <2>1
<1>7. ASSUME NEW c \in Chips(g), NEW d \in Chips(g), h[c] = h[d] PROVE c = d
  <2>1. c[1] = d[1] /\ f[c[1]] + c[2] = f[c[1]] + d[2]
    BY <1>7
  <2> QED BY <1>2, <1>4, <2>1
<1>8. ASSUME NEW x \in above PROVE \E c \in Chips(g) : h[c] = x
  <2> DEFINE k == x[2] - f[x[1]]
  <2>1. x[1] \in S /\ k \in 1 .. g[x[1]] /\ x = <<x[1], f[x[1]] + k>>
    BY <1>2, <1>4
  <2>2. <<x[1], k>> \in Chips(g)
    BY <1>3, <2>1
  <2>3. h[<<x[1], k>>] = x
    BY <2>1, <2>2
  <2> QED BY <2>2, <2>3
<1>9. IsFiniteSet(Chips(f)) /\ IsFiniteSet(Chips(g)) /\ IsFiniteSet(Chips(s))
  BY <1>1, ChipsFinite
<1> HIDE DEF h
<1>10. ExistsBijection(Chips(g), above)
  BY <1>6, <1>7, <1>8, Fun_IsBij DEF ExistsBijection
<1>11. IsFiniteSet(above) /\ Cardinality(above) = Cardinality(Chips(g))
  BY <1>9, <1>10, FS_Bijection
<1> HIDE DEF above
<1>12. Cardinality(Chips(s)) =
         Cardinality(Chips(f)) + Cardinality(above) - Cardinality(Chips(f) \cap above)
  BY <1>5, <1>9, <1>11, FS_Union
<1>13. Cardinality(Chips(f) \cap above) = 0
  BY <1>5, FS_EmptySet
<1>14. Cardinality(Chips(f)) \in Nat /\ Cardinality(Chips(g)) \in Nat
  BY <1>9, FS_CardinalityType
<1> QED BY <1>11, <1>12, <1>13, <1>14 DEF Total

----------------------------------------------------------------------------
(* Sound tables *)

\* A bet of the street is part of what the player has put into the hand.
BetsRecorded(t) == \A i \in Seat : t.bet[i] <= t.totalBet[i]

\* No cards lie at an empty seat.
EmptySeatsUndealt(t) == \A i \in Seat : t.id[i] = Nobody => ~t.dealt[i]

\* The pot holds what the seats have put in.
PotCovered(t) == t.pot >= Total(t.totalBet)

\* ACTIVE means chips behind, ALLIN none.
StackMatchesStatus(t) ==
  \A i \in Seat : /\ t.status[i] = "ACTIVE" => t.stack[i] > 0
                  /\ t.status[i] = "ALLIN"  => t.stack[i] = 0

\* Dealt players who still bet have won alike for the closed streets.
ClosedStreetsEven(t) ==
  \A i, j \in Seat :
    /\ t.dealt[i] /\ t.status[i] = "ACTIVE"
    /\ t.dealt[j] /\ t.status[j] = "ACTIVE"
    => t.totalBet[i] - t.bet[i] = t.totalBet[j] - t.bet[j]

HandSound(t) == PotCovered(t) /\ StackMatchesStatus(t) /\ ClosedStreetsEven(t)

Sound(t) ==
  /\ t \in Table
  /\ BetsRecorded(t)
  /\ EmptySeatsUndealt(t)
  /\ t.stage \in ActionStage => HandSound(t)

LEMMA SeatFinite == IsFiniteSet(Seat)
BY SeatAssumption, FS_Interval DEF Seat

LEMMA NewTableSound == Sound(NewTable)
<1>1. NewTable \in Table
  BY SeatAssumption, BlindAssumption DEF NewTable, Table, Zero, False, Stage, Status,
     Seat, NoSeat, NoResult, NoEntry, NoAllIn
<1>2. BetsRecorded(NewTable) /\ EmptySeatsUndealt(NewTable)
  BY DEF NewTable, BetsRecorded, EmptySeatsUndealt, Zero, False
<1> QED BY <1>1, <1>2 DEF Sound, NewTable, ActionStage

LEMMA AddPlayerSound ==
  ASSUME NEW t, Sound(t), NEW i \in Seat, t.id[i] = Nobody, NEW p \in Player,
         NEW stack \in Nat
  PROVE  Sound(AddPlayer(t, i, p, stack))
<1> DEFINE u == AddPlayer(t, i, p, stack)
<1>1. u \in Table
  BY DEF Sound, Table, AddPlayer, Status
<1>2. BetsRecorded(u)
  BY DEF Sound, Table, BetsRecorded, AddPlayer
<1>3. EmptySeatsUndealt(u)
  BY NobodyAssumption DEF Sound, Table, EmptySeatsUndealt, AddPlayer
<1>4. ASSUME u.stage \in ActionStage PROVE HandSound(u)
  <2>1. HandSound(t)
    BY <1>4 DEF Sound, Table, AddPlayer
  <2>2. PotCovered(u)
    BY <2>1 DEF Sound, Table, AddPlayer, HandSound, PotCovered
  <2>3. StackMatchesStatus(u)
    BY <2>1 DEF Sound, Table, AddPlayer, HandSound, StackMatchesStatus
  <2>4. ClosedStreetsEven(u)
    <3>1. ~t.dealt[i]
      BY DEF Sound, EmptySeatsUndealt
    <3> QED BY <2>1, <3>1 DEF Sound, Table, AddPlayer, HandSound, ClosedStreetsEven
  <2> QED BY <2>2, <2>3, <2>4 DEF HandSound
<1> QED BY <1>1, <1>2, <1>3, <1>4 DEF Sound

LEMMA RemovePlayerSound ==
  ASSUME NEW t, Sound(t), NEW i \in Seat
  PROVE  Sound(RemovePlayer(t, i))
<1> DEFINE u == RemovePlayer(t, i)
<1>1. u \in Table
  BY DEF Sound, Table, RemovePlayer, Status
<1>2. BetsRecorded(u)
  BY DEF Sound, Table, BetsRecorded, RemovePlayer
<1>3. EmptySeatsUndealt(u)
  BY DEF Sound, Table, EmptySeatsUndealt, RemovePlayer
<1>4. ASSUME u.stage \in ActionStage PROVE HandSound(u)
  <2>1. HandSound(t)
    BY <1>4 DEF Sound, Table, RemovePlayer
  <2>2. PotCovered(u)
    <3>1. /\ t.totalBet \in [Seat -> Nat] /\ u.totalBet \in [Seat -> Nat]
          /\ u.totalBet[i] = 0 /\ \A j \in Seat \ {i} : u.totalBet[j] = t.totalBet[j]
          /\ u.pot = t.pot /\ t.pot \in Nat
      BY DEF Sound, Table, RemovePlayer
    <3>2. Total(u.totalBet) = Total(t.totalBet) + u.totalBet[i] - t.totalBet[i]
      BY <3>1, SeatFinite, TotalUpdate
    <3>3. Total(t.totalBet) \in Nat
      BY <3>1, SeatFinite, TotalType
    <3>4. t.pot >= Total(t.totalBet)
      BY <2>1 DEF HandSound, PotCovered
    <3> QED BY <3>1, <3>2, <3>3, <3>4 DEF PotCovered
  <2>3. StackMatchesStatus(u)
    BY <2>1 DEF Sound, Table, RemovePlayer, HandSound, StackMatchesStatus
  <2>4. ClosedStreetsEven(u)
    BY <2>1 DEF Sound, Table, RemovePlayer, HandSound, ClosedStreetsEven
  <2> QED BY <2>2, <2>3, <2>4 DEF HandSound
<1> QED BY <1>1, <1>2, <1>3, <1>4 DEF Sound

----------------------------------------------------------------------------
(* Turns *)

\* The next seat is the first of the seats asked for; with none it stays where
\* it is.
LEMMA NextInType ==
  ASSUME NEW S \in SUBSET Seat, NEW i \in Seat \cup {NoSeat}
  PROVE  /\ NextIn(S, i) \in S \cup {i}
         /\ S # {} => /\ NextIn(S, i) \in S
                       /\ \A k \in S : Ahead(i, NextIn(S, i)) <= Ahead(i, k)
<1>1. CASE S = {}
  BY <1>1 DEF NextIn
<1>2. CASE S # {}
  <2> DEFINE D == {Ahead(i, j) : j \in S}
  <2>1. ASSUME NEW j \in S PROVE Ahead(i, j) \in Nat
    BY SeatAssumption DEF Ahead, Seat, NoSeat
  <2>2. D \in SUBSET Nat /\ D # {}
    BY <1>2, <2>1
  <2>3. First(D) \in D /\ \A d \in D : First(D) <= d
    <3> HIDE DEF D
    <3> QED BY <2>2, FirstType
  <2>4. PICK j \in S : Ahead(i, j) = First(D)
    BY <2>3
  <2>5. \A k \in S : Ahead(i, j) <= Ahead(i, k)
    BY <2>3, <2>4
  <2> QED BY <1>2, <2>5 DEF NextIn
<1> QED BY <1>1, <1>2

LEMMA NextActiveType ==
  ASSUME NEW t, NEW i \in Seat \cup {NoSeat}
  PROVE  NextActiveFrom(t, i) \in Seat \cup {NoSeat}
BY NextInType DEF NextActiveFrom, Live, Occupied

LEMMA NextSeatedType ==
  ASSUME NEW t, NEW i \in Seat
  PROVE  NextSeatedFrom(t, i) \in Seat
BY NextInType DEF NextSeatedFrom, Playable, Occupied

\* HasPlayer makes SeatOf the player's seat.
LEMMA SeatOfType ==
  ASSUME NEW t, NEW p, HasPlayer(t, p)
  PROVE  SeatOf(t, p) \in Seat /\ t.id[SeatOf(t, p)] = p
BY DEF HasPlayer, SeatOf

----------------------------------------------------------------------------
(* Winnings *)

LEMMA LeastType ==
  ASSUME NEW a \in Nat, NEW b \in Nat
  PROVE  Least(a, b) \in Nat /\ Least(a, b) <= a /\ Least(a, b) <= b
BY DEF Least

\* The rake is never more than the pot.
LEMMA RakeBound ==
  ASSUME NEW pot \in Nat
  PROVE  RakeOf(pot) \in Nat /\ RakeOf(pot) <= pot
<1> DEFINE part == pot * RakePercent
<1>1. part \in Nat /\ part <= pot * 100
  BY RakeAssumption
<1>2. part \div 100 \in Nat /\ part \div 100 <= pot
  <2> HIDE DEF part
  <2> QED BY <1>1
<1> QED BY <1>2, LeastType, RakeAssumption DEF RakeOf

LEMMA ResultType ==
  ASSUME NEW t, NEW win \in [Seat -> Nat]
  PROVE  ResultOf(t, win) \in [Player -> Nat \cup {NoEntry}]
BY SeatOfType DEF ResultOf

LEMMA FoldWinSound ==
  ASSUME NEW t, Sound(t), NEW w \in Seat
  PROVE  Sound(FoldWin(t, w)) /\ FoldWin(t, w).stage = "SETTLEMENT"
<1> DEFINE u == FoldWin(t, w)
           amount == t.pot - RakeOf(t.pot)
           win == [i \in Seat |-> IF i = w THEN amount ELSE 0]
<1>1. amount \in Nat
  BY RakeBound DEF Sound, Table
<1>2. win \in [Seat -> Nat] /\ ResultOf(t, win) \in [Player -> Nat \cup {NoEntry}]
  BY <1>1, ResultType
<1>3. /\ u = [t EXCEPT !.stack[w] = @ + amount, !.pot = 0,
                       !.result = ResultOf(t, win), !.isFoldWin = TRUE,
                       !.revealed = FALSE, !.stage = "SETTLEMENT"]
  BY DEF FoldWin
<1> HIDE DEF amount, win, u
<1>4. u \in Table
  <2>1. [t.stack EXCEPT ![w] = @ + amount] \in [Seat -> Nat]
    BY <1>1 DEF Sound, Table
  <2>2. "SETTLEMENT" \in Stage
    BY DEF Stage
  <2> QED BY <1>2, <1>3, <2>1, <2>2 DEF Sound, Table
<1>5. BetsRecorded(u) /\ EmptySeatsUndealt(u) /\ u.stage = "SETTLEMENT"
  BY <1>3 DEF Sound, Table, BetsRecorded, EmptySeatsUndealt
<1>6. Sound(u)
  BY <1>4, <1>5 DEF Sound, ActionStage
<1> QED BY <1>5, <1>6 DEF u

\* Winners and odd chips: a share is never more than the pot it comes from.
LEMMA ShareBound ==
  ASSUME NEW a \in Nat, NEW n \in Nat \ {0}
  PROVE  /\ a \div n \in Nat
         /\ a - (a \div n) * (n - 1) \in Nat
<1>1. a \div n \in Nat /\ n * (a \div n) <= a
  OBVIOUS
<1>2. (a \div n) * (n - 1) = n * (a \div n) - (a \div n)
  BY <1>1
<1> QED BY <1>1, <1>2

LEMMA OpenLevelsFinite ==
  ASSUME NEW t, t \in Table
  PROVE  IsFiniteSet(OpenLevels(t))
<1> DEFINE V == {t.totalBet[i] : i \in Seat}
           g == [i \in Seat |-> t.totalBet[i]]
<1>1. g \in Surjection(Seat, V)
  BY DEF Surjection
<1>2. IsFiniteSet(V)
  BY <1>1, SeatFinite, FS_Surjection
<1>3. OpenLevels(t) \subseteq V
  BY DEF OpenLevels, Occupied
<1> QED BY <1>2, <1>3, FS_Subset

LEMMA PotShareType ==
  ASSUME NEW t, t \in Table, NEW level, NEW ranking, NEW i
  PROVE  PotShare(t, level, ranking, i) \in Nat
<1> DEFINE W == PotWinners(t, level, ranking)
<1>1. PotAmount(t, level) \in Nat
  <2>1. IsFiniteSet(Chips(t.totalBet))
    BY SeatFinite, ChipsFinite DEF Table
  <2> QED BY <2>1, FS_Subset, FS_CardinalityType DEF PotAmount
<1>2. CASE i \notin W
  BY <1>2 DEF PotShare
<1>3. CASE i \in W
  <2>1. IsFiniteSet(W)
    BY SeatFinite, FS_Subset DEF PotWinners, PotEligible, NotFolded, Occupied
  <2>2. Cardinality(W) \in Nat \ {0}
    BY <1>3, <2>1, FS_CardinalityType, FS_EmptySet
  <2> HIDE DEF W
  <2> QED BY <1>1, <1>3, <2>2, ShareBound DEF PotShare, W
<1> QED BY <1>2, <1>3

LEMMA PayoutType ==
  ASSUME NEW t, t \in Table, NEW ranking
  PROVE  Payout(t, ranking) \in [Seat -> Nat]
<1>1. ASSUME NEW i \in Seat
      PROVE  Total([l \in OpenLevels(t) |-> PotShare(t, l, ranking, i)]) \in Nat
  <2>1. [l \in OpenLevels(t) |-> PotShare(t, l, ranking, i)] \in [OpenLevels(t) -> Nat]
    BY PotShareType
  <2> QED BY <2>1, OpenLevelsFinite, TotalType
<1> QED BY <1>1 DEF Payout

LEMMA PerformShowdownSound ==
  ASSUME NEW t, Sound(t), NEW ranking
  PROVE  Sound(PerformShowdown(t, ranking))
<1> DEFINE u == PerformShowdown(t, ranking)
           shown == [i \in Seat |-> IF t.dealt[i] THEN ranking[i] ELSE 0]
           win == Payout(t, shown)
           won == [i \in Seat |-> t.stack[i] + win[i]]
           result == ResultOf(t, win)
<1>1. "SETTLEMENT" \in Stage /\ "SETTLEMENT" \notin ActionStage
  BY DEF Stage, ActionStage
<1>2. CASE NotFolded(t) = {}
  <2>1. u = [t EXCEPT !.stage = "SETTLEMENT"]
    BY <1>2 DEF PerformShowdown
  <2> HIDE DEF u
  <2>2. u \in Table
    BY <1>1, <2>1 DEF Sound, Table
  <2>3. BetsRecorded(u) /\ EmptySeatsUndealt(u) /\ u.stage = "SETTLEMENT"
    BY <2>1 DEF Sound, Table, BetsRecorded, EmptySeatsUndealt
  <2>4. Sound(u)
    BY <1>1, <2>2, <2>3 DEF Sound
  <2> QED BY <2>4 DEF u
<1>3. CASE NotFolded(t) # {}
  <2>1. win \in [Seat -> Nat] /\ result \in [Player -> Nat \cup {NoEntry}]
    BY PayoutType, ResultType DEF Sound
  <2>2. u = [t EXCEPT !.stack = won, !.pot = 0, !.result = result,
                      !.isFoldWin = FALSE, !.revealed = FALSE, !.stage = "SETTLEMENT"]
    BY <1>3 DEF PerformShowdown
  <2>3. won \in [Seat -> Nat]
    <3> HIDE DEF win
    <3> QED BY <2>1 DEF Sound, Table
  <2> HIDE DEF u, won, result, win
  <2>4. u \in Table
    BY <1>1, <2>1, <2>2, <2>3 DEF Sound, Table
  <2>5. BetsRecorded(u) /\ EmptySeatsUndealt(u) /\ u.stage = "SETTLEMENT"
    BY <2>2 DEF Sound, Table, BetsRecorded, EmptySeatsUndealt
  <2>6. Sound(u)
    BY <1>1, <2>4, <2>5 DEF Sound
  <2> QED BY <2>6 DEF u
<1> QED BY <1>2, <1>3

----------------------------------------------------------------------------
(* Closing a betting round *)

\* The street is closed only when all who bet have put in alike: so the closed
\* streets stay even.
LEMMA ClosedSound ==
  ASSUME NEW t, Sound(t), IsBettingRoundComplete(t)
  PROVE  Sound([t EXCEPT !.bet = Zero, !.hasActed = False,
                         !.currentBet = 0, !.minBet = BigBlind])
<1> DEFINE closed == [t EXCEPT !.bet = Zero, !.hasActed = False,
                               !.currentBet = 0, !.minBet = BigBlind]
<1>1. closed \in Table
  BY BlindAssumption DEF Sound, Table, Zero, False
<1>2. BetsRecorded(closed)
  BY DEF Sound, Table, BetsRecorded, Zero
<1>3. EmptySeatsUndealt(closed)
  BY DEF Sound, Table, EmptySeatsUndealt
<1>4. ASSUME t.stage \in ActionStage PROVE HandSound(closed)
  <2>1. HandSound(t)
    BY <1>4 DEF Sound
  <2>2. PotCovered(closed) /\ StackMatchesStatus(closed)
    BY <2>1 DEF Sound, Table, HandSound, PotCovered, StackMatchesStatus
  <2>3. ASSUME NEW i \in Seat, t.dealt[i], t.status[i] = "ACTIVE"
        PROVE  t.bet[i] = t.currentBet
    BY <2>3 DEF Sound, EmptySeatsUndealt, IsBettingRoundComplete, Live, Occupied
  <2>4. ClosedStreetsEven(closed)
    BY <2>1, <2>3 DEF Sound, Table, HandSound, ClosedStreetsEven, Zero
  <2> QED BY <2>2, <2>4 DEF HandSound
<1>5. closed.stage = t.stage
  BY DEF Sound, Table
<1> QED BY <1>1, <1>2, <1>3, <1>4, <1>5 DEF Sound

LEMMA AdvanceStreetSound ==
  ASSUME NEW t, Sound(t), IsBettingRoundComplete(t), NEW ranking
  PROVE  Sound(AdvanceStreet(t, ranking))
<1> DEFINE closed == [t EXCEPT !.bet = Zero, !.hasActed = False,
                               !.currentBet = 0, !.minBet = BigBlind]
<1>1. Sound(closed) /\ closed \in Table
  BY ClosedSound DEF Sound
<1>5. closed.stage = t.stage
  BY DEF Sound, Table
<1>6. CASE t.stage = "RIVER"
  <2> HIDE DEF closed
  <2>2. Sound(PerformShowdown(closed, ranking))
    BY <1>1, PerformShowdownSound
  <2> QED BY <1>6, <2>2 DEF AdvanceStreet, closed
<1>7. CASE t.stage # "RIVER"
  <2> DEFINE next == NextActiveFrom(t, t.dealer)
             u == [closed EXCEPT !.stage = NextStage(t.stage), !.active = next]
  <2>1. next \in Seat \cup {NoSeat}
    BY NextActiveType DEF Sound, Table
  <2>2. /\ NextStage(t.stage) \in Stage
        /\ NextStage(t.stage) \in ActionStage => t.stage \in ActionStage
    BY DEF Sound, Table, Stage, ActionStage, NextStage
  <2> HIDE DEF closed, next
  <2>3. u \in Table
    BY <1>1, <2>1, <2>2 DEF Table
  <2>4. BetsRecorded(u) /\ EmptySeatsUndealt(u)
    BY <1>1 DEF Sound, Table, BetsRecorded, EmptySeatsUndealt
  <2>5. u.stage = NextStage(t.stage)
    BY <1>1 DEF Table
  <2>6. ASSUME t.stage \in ActionStage PROVE HandSound(u)
    BY <1>1, <1>5, <2>6
       DEF Sound, Table, HandSound, PotCovered, StackMatchesStatus, ClosedStreetsEven
  <2>7. Sound(u)
    BY <2>2, <2>3, <2>4, <2>5, <2>6 DEF Sound
  <2>8. AdvanceStreet(t, ranking) = u
    BY <1>7 DEF AdvanceStreet, closed, next
  <2> QED BY <2>7, <2>8
<1> QED BY <1>6, <1>7

\* Only the turn moves: nothing else of the table matters to Sound.
LEMMA TurnMoveSound ==
  ASSUME NEW t, Sound(t), NEW i \in Seat \cup {NoSeat}
  PROVE  Sound([t EXCEPT !.active = i])
<1> DEFINE u == [t EXCEPT !.active = i]
<1>1. u \in Table /\ BetsRecorded(u) /\ EmptySeatsUndealt(u) /\ u.stage = t.stage
  BY DEF Sound, Table, BetsRecorded, EmptySeatsUndealt
<1>2. ASSUME t.stage \in ActionStage PROVE HandSound(u)
  BY <1>2 DEF Sound, Table, HandSound, PotCovered, StackMatchesStatus, ClosedStreetsEven
<1> QED BY <1>1, <1>2 DEF Sound

LEMMA PassTurnSound ==
  ASSUME NEW t, Sound(t), NEW ranking
  PROVE  Sound(PassTurn(t, ranking))
<1>1. NextActiveFrom(t, t.active) \in Seat \cup {NoSeat}
  BY NextActiveType DEF Sound, Table
<1> QED BY <1>1, AdvanceStreetSound, TurnMoveSound DEF PassTurn

LEMMA ResolveSound ==
  ASSUME NEW t, Sound(t), NEW ranking
  PROVE  Sound(Resolve(t, ranking))
<1>1. CASE Cardinality(NotFolded(t)) = 1
  <2> DEFINE w == CHOOSE i \in NotFolded(t) : TRUE
  <2>1. NotFolded(t) # {}
    BY <1>1, FS_EmptySet
  <2>2. w \in Seat
    BY <2>1 DEF NotFolded, Occupied
  <2> HIDE DEF w
  <2>3. Sound(FoldWin(t, w))
    BY <2>2, FoldWinSound
  <2> QED BY <1>1, <2>3 DEF Resolve, w
<1>2. CASE Cardinality(NotFolded(t)) # 1
  BY <1>2, PassTurnSound DEF Resolve
<1> QED BY <1>1, <1>2

\* Marking a player FOLD or SITOUT, or that he has acted, disturbs nothing.
LEMMA OutSound ==
  ASSUME NEW t, Sound(t), NEW i \in Seat, NEW status \in {"FOLD", "SITOUT"},
         NEW acted \in [Seat -> BOOLEAN]
  PROVE  Sound([t EXCEPT !.status[i] = status, !.hasActed = acted])
<1> DEFINE u == [t EXCEPT !.status[i] = status, !.hasActed = acted]
<1>1. u \in Table
  BY DEF Sound, Table, Status
<1>2. BetsRecorded(u) /\ EmptySeatsUndealt(u) /\ u.stage = t.stage
  BY DEF Sound, Table, BetsRecorded, EmptySeatsUndealt
<1>3. ASSUME t.stage \in ActionStage PROVE HandSound(u)
  BY <1>3 DEF Sound, Table, HandSound, PotCovered, StackMatchesStatus, ClosedStreetsEven
<1> QED BY <1>1, <1>2, <1>3 DEF Sound

LEMMA FoldSound ==
  ASSUME NEW t, Sound(t), t.active \in Seat
  PROVE  Sound(Fold(t))
<1> DEFINE acted == [t.hasActed EXCEPT ![t.active] = TRUE]
<1>1. acted \in [Seat -> BOOLEAN]
  BY DEF Sound, Table
<1>2. Sound([t EXCEPT !.status[t.active] = "FOLD", !.hasActed = acted])
  <2> HIDE DEF acted
  <2> QED BY <1>1, OutSound
<1>3. Fold(t) = [t EXCEPT !.status[t.active] = "FOLD", !.hasActed = acted]
  BY DEF Fold, Sound, Table
<1> QED BY <1>2, <1>3

LEMMA FoldSitOutSound ==
  ASSUME NEW t, Sound(t), NEW ranking
  PROVE  Sound(FoldSitOut(t, ranking))
<1>1. CASE IsCurrentPlayerSitOut(t)
  <2>1. t.active \in Seat
    BY <1>1 DEF IsCurrentPlayerSitOut, Occupied
  <2>2. Sound(Resolve(Fold(t), ranking))
    BY <2>1, FoldSound, ResolveSound
  <2> QED BY <1>1, <2>2 DEF FoldSitOut, Fold
<1>2. CASE ~IsCurrentPlayerSitOut(t)
  BY <1>2 DEF FoldSitOut
<1> QED BY <1>1, <1>2

LEMMA FinishSound ==
  ASSUME NEW t, Sound(t), NEW ranking
  PROVE  Sound(Finish(t, ranking))
BY ResolveSound, PassTurnSound, FoldSitOutSound DEF Finish

LEMMA FoldPlayerOnLeaveSound ==
  ASSUME NEW t, Sound(t), NEW i \in Seat, NEW ranking
  PROVE  Sound(FoldPlayerOnLeave(t, i, ranking))
<1> DEFINE folded == [t EXCEPT !.status[i] = "FOLD"]
<1>1. t.hasActed \in [Seat -> BOOLEAN]
  BY DEF Sound, Table
<1>2. Sound([t EXCEPT !.status[i] = "FOLD", !.hasActed = t.hasActed])
  BY <1>1, OutSound
<1>3. folded = [t EXCEPT !.status[i] = "FOLD", !.hasActed = t.hasActed]
  BY DEF Sound, Table
<1>4. Sound(folded)
  BY <1>2, <1>3
<1>5. Sound(Resolve(folded, ranking))
  <2> HIDE DEF folded
  <2> QED BY <1>4, ResolveSound
<1> QED BY <1>4, <1>5 DEF FoldPlayerOnLeave

----------------------------------------------------------------------------
(* The player's moves *)

\* Fields that Sound says nothing of but their type.
LEMMA BetFieldsSound ==
  ASSUME NEW t, Sound(t), NEW acted \in [Seat -> BOOLEAN], NEW cb \in Nat,
         NEW mb \in Nat, NEW called \in Nat \cup {NoAllIn}, NEW str \in BOOLEAN
  PROVE  Sound([t EXCEPT !.hasActed = acted, !.currentBet = cb, !.minBet = mb,
                         !.calledAllIn = called, !.straddled = str])
<1> DEFINE u == [t EXCEPT !.hasActed = acted, !.currentBet = cb, !.minBet = mb,
                          !.calledAllIn = called, !.straddled = str]
<1>1. u \in Table
  BY DEF Sound, Table
<1>2. BetsRecorded(u) /\ EmptySeatsUndealt(u) /\ u.stage = t.stage
  BY DEF Sound, Table, BetsRecorded, EmptySeatsUndealt
<1>3. ASSUME t.stage \in ActionStage PROVE HandSound(u)
  BY <1>3 DEF Sound, Table, HandSound, PotCovered, StackMatchesStatus, ClosedStreetsEven
<1> QED BY <1>1, <1>2, <1>3 DEF Sound

LEMMA CheckSound ==
  ASSUME NEW t, Sound(t), t.active \in Seat
  PROVE  Sound(Check(t))
<1> DEFINE acted == [t.hasActed EXCEPT ![t.active] = TRUE]
<1>1. /\ acted \in [Seat -> BOOLEAN] /\ t.currentBet \in Nat /\ t.minBet \in Nat
      /\ t.calledAllIn \in Nat \cup {NoAllIn} /\ t.straddled \in BOOLEAN
  BY DEF Sound, Table
<1>2. Check(t) = [t EXCEPT !.hasActed = acted, !.currentBet = t.currentBet,
                           !.minBet = t.minBet, !.calledAllIn = t.calledAllIn,
                           !.straddled = t.straddled]
  BY DEF Check, Sound, Table
<1>3. Sound([t EXCEPT !.hasActed = acted, !.currentBet = t.currentBet,
                      !.minBet = t.minBet, !.calledAllIn = t.calledAllIn,
                      !.straddled = t.straddled])
  <2> HIDE DEF acted
  <2> QED BY <1>1, BetFieldsSound
<1> QED BY <1>2, <1>3

\* x may be negative: a straddle posted over a bigger bet takes chips back. It
\* cannot take back more than the player has put in, which the pot holds.
LEMMA PutInSound ==
  ASSUME NEW t, Sound(t), t.active \in Seat, NEW x \in Int,
         t.stack[t.active] > 0, x <= t.stack[t.active],
         t.bet[t.active] + x >= 0, t.pot + x >= 0
  PROVE  Sound(PutIn(t, x))
<1> DEFINE u == PutIn(t, x)
           a == t.active
<1>1. /\ t.stack[a] - x \in Nat /\ t.bet[a] + x \in Nat
      /\ t.totalBet[a] + x \in Nat /\ t.pot + x \in Nat
  BY DEF Sound, Table, BetsRecorded
<1>2. /\ [t.stack EXCEPT ![a] = @ - x] \in [Seat -> Nat]
      /\ [t.bet EXCEPT ![a] = @ + x] \in [Seat -> Nat]
      /\ [t.totalBet EXCEPT ![a] = @ + x] \in [Seat -> Nat]
      /\ [t.status EXCEPT ![a] = IF t.stack[a] = x THEN "ALLIN" ELSE @] \in [Seat -> Status]
  BY <1>1 DEF Sound, Table, Status
<1>3. u \in Table
  BY <1>1, <1>2 DEF Sound, Table, PutIn
<1>4. BetsRecorded(u)
  BY <1>1 DEF Sound, Table, BetsRecorded, PutIn
<1>5. EmptySeatsUndealt(u) /\ u.stage = t.stage
  BY DEF Sound, Table, EmptySeatsUndealt, PutIn
<1>6. ASSUME t.stage \in ActionStage PROVE HandSound(u)
  <2>1. HandSound(t)
    BY <1>6 DEF Sound
  <2>2. PotCovered(u)
    <3>1. /\ t.totalBet \in [Seat -> Nat] /\ u.totalBet \in [Seat -> Nat]
          /\ u.totalBet[a] = t.totalBet[a] + x
          /\ \A j \in Seat \ {a} : u.totalBet[j] = t.totalBet[j]
          /\ u.pot = t.pot + x /\ t.pot \in Nat
      BY <1>1 DEF Sound, Table, PutIn
    <3>2. Total(u.totalBet) = Total(t.totalBet) + u.totalBet[a] - t.totalBet[a]
      BY <3>1, SeatFinite, TotalUpdate
    <3>3. Total(t.totalBet) \in Nat /\ t.totalBet[a] \in Nat
      BY <3>1, SeatFinite, TotalType
    <3>4. t.pot >= Total(t.totalBet)
      BY <2>1 DEF HandSound, PotCovered
    <3> QED BY <3>1, <3>2, <3>3, <3>4 DEF PotCovered
  <2>3. StackMatchesStatus(u)
    <3>1. t.status[a] # "ALLIN"
      BY <2>1 DEF Sound, Table, HandSound, StackMatchesStatus
    <3>2. u.stack[a] = t.stack[a] - x /\ \A j \in Seat \ {a} : u.stack[j] = t.stack[j]
      BY DEF Sound, Table, PutIn
    <3>3. /\ u.status[a] = IF t.stack[a] = x THEN "ALLIN" ELSE t.status[a]
          /\ \A j \in Seat \ {a} : u.status[j] = t.status[j]
      BY DEF Sound, Table, PutIn
    <3>4. t.stack[a] \in Nat
      BY DEF Sound, Table
    <3>5. \A i \in Seat : /\ t.status[i] = "ACTIVE" => t.stack[i] > 0
                          /\ t.status[i] = "ALLIN"  => t.stack[i] = 0
      BY <2>1 DEF HandSound, StackMatchesStatus
    <3> HIDE DEF u
    <3>6. ASSUME NEW i \in Seat
          PROVE  /\ u.status[i] = "ACTIVE" => u.stack[i] > 0
                 /\ u.status[i] = "ALLIN"  => u.stack[i] = 0
      <4>1. CASE i = a
        BY <3>1, <3>2, <3>3, <3>4, <4>1
      <4>2. CASE i # a
        BY <3>2, <3>3, <3>5, <4>2
      <4> QED BY <4>1, <4>2
    <3> QED BY <3>6 DEF StackMatchesStatus
  <2>4. ClosedStreetsEven(u)
    <3>1. ASSUME NEW i \in Seat
          PROVE  /\ u.totalBet[i] - u.bet[i] = t.totalBet[i] - t.bet[i]
                 /\ u.dealt[i] = t.dealt[i]
                 /\ u.status[i] = "ACTIVE" => t.status[i] = "ACTIVE"
      <4>1. /\ u.bet[i] = IF i = a THEN t.bet[i] + x ELSE t.bet[i]
            /\ u.totalBet[i] = IF i = a THEN t.totalBet[i] + x ELSE t.totalBet[i]
            /\ u.dealt[i] = t.dealt[i]
            /\ t.bet[i] \in Nat /\ t.totalBet[i] \in Nat
        BY DEF Sound, Table, PutIn
      <4>2. u.status[i] = "ACTIVE" => t.status[i] = "ACTIVE"
        BY DEF Sound, Table, PutIn
      <4> HIDE DEF u
      <4> QED BY <4>1, <4>2
    <3> HIDE DEF u
    <3> QED BY <2>1, <3>1 DEF HandSound, ClosedStreetsEven
  <2> QED BY <2>2, <2>3, <2>4 DEF HandSound
<1> HIDE DEF u
<1>7. Sound(u)
  BY <1>3, <1>4, <1>5, <1>6 DEF Sound
<1> QED BY <1>7 DEF u

\* Reopening the action after the bet fields were set.
LEMMA ReopenActionSound ==
  ASSUME NEW t, Sound(t), NEW cb \in Nat, NEW mb \in Nat,
         NEW called \in Nat \cup {NoAllIn}, NEW str \in BOOLEAN
  PROVE  Sound(ReopenAction([t EXCEPT !.currentBet = cb, !.minBet = mb,
                                      !.calledAllIn = called, !.straddled = str]))
<1> DEFINE v == [t EXCEPT !.currentBet = cb, !.minBet = mb,
                          !.calledAllIn = called, !.straddled = str]
           acted == [i \in Seat |-> v.hasActed[i] /\ ~(i # v.active /\ i \in Live(v))]
<1>1. acted \in [Seat -> BOOLEAN]
  BY DEF Sound, Table
<1>2. Sound([t EXCEPT !.hasActed = acted, !.currentBet = cb, !.minBet = mb,
                      !.calledAllIn = called, !.straddled = str])
  <2> HIDE DEF acted
  <2> QED BY <1>1, BetFieldsSound
<1>3. ReopenAction(v) = [v EXCEPT !.hasActed = acted]
  BY DEF ReopenAction
<1>4. [v EXCEPT !.hasActed = acted] =
        [t EXCEPT !.hasActed = acted, !.currentBet = cb, !.minBet = mb,
                  !.calledAllIn = called, !.straddled = str]
  <2> HIDE DEF acted
  <2> QED BY DEF Sound, Table
<1> QED BY <1>2, <1>3, <1>4

\* calledAllIn alone.
LEMMA CalledAllInSound ==
  ASSUME NEW t, Sound(t), NEW called \in Nat \cup {NoAllIn}
  PROVE  Sound([t EXCEPT !.calledAllIn = called])
<1>1. /\ t.hasActed \in [Seat -> BOOLEAN] /\ t.currentBet \in Nat /\ t.minBet \in Nat
      /\ t.straddled \in BOOLEAN
  BY DEF Sound, Table
<1>2. Sound([t EXCEPT !.hasActed = t.hasActed, !.currentBet = t.currentBet,
                      !.minBet = t.minBet, !.calledAllIn = called,
                      !.straddled = t.straddled])
  BY <1>1, BetFieldsSound
<1>3. [t EXCEPT !.calledAllIn = called] =
        [t EXCEPT !.hasActed = t.hasActed, !.currentBet = t.currentBet,
                  !.minBet = t.minBet, !.calledAllIn = called,
                  !.straddled = t.straddled]
  BY DEF Sound, Table
<1> QED BY <1>2, <1>3

\* A positive amount the player has is what he can put in.
LEMMA PayInSound ==
  ASSUME NEW t, Sound(t), t.active \in Seat, NEW x \in Nat,
         x > 0, x <= t.stack[t.active]
  PROVE  Sound(PutIn(t, x))
<1>1. /\ t.stack[t.active] > 0 /\ t.bet[t.active] + x >= 0 /\ t.pot + x >= 0
  BY DEF Sound, Table
<1> QED BY <1>1, PutInSound

LEMMA CallSound ==
  ASSUME NEW t, Sound(t), t.active \in Seat, CanCall(t)
  PROVE  Sound(Call(t))
<1> DEFINE x == CallAmount(t)
           won == PutIn(t, x)
<1>1. x \in Nat /\ x > 0 /\ x <= t.stack[t.active]
  BY DEF Sound, Table, CanCall, CallAmount, Least
<1>2. Sound(won)
  <2> HIDE DEF x
  <2> QED BY <1>1, PayInSound
<1>3. won.bet[t.active] \in Nat
  BY <1>2 DEF Sound, Table
<1> HIDE DEF won
<1>4. Sound([won EXCEPT !.calledAllIn = won.bet[t.active]])
  BY <1>2, <1>3, CalledAllInSound
<1> QED BY <1>2, <1>4 DEF Call, won

LEMMA RaiseSound ==
  ASSUME NEW t, Sound(t), t.active \in Seat, NEW amount \in Nat, CanRaise(t, amount)
  PROVE  Sound(Raise(t, amount))
<1> DEFINE a == t.active
           x == Least(amount - t.bet[a], t.stack[a])
           won == PutIn(t, x)
<1>1. x \in Nat /\ x > 0 /\ x <= t.stack[a] /\ amount - t.currentBet \in Nat
  BY DEF Sound, Table, CanRaise, Least
<1>2. Sound(won)
  <2> HIDE DEF x
  <2> QED BY <1>1, PayInSound
<1>3. won.bet[a] \in Nat /\ won.straddled \in BOOLEAN /\ NoAllIn \in Nat \cup {NoAllIn}
  BY <1>2 DEF Sound, Table
<1> DEFINE v == [won EXCEPT !.minBet = amount - t.currentBet,
                             !.currentBet = won.bet[a], !.calledAllIn = NoAllIn]
<1>4. v = [won EXCEPT !.currentBet = won.bet[a], !.minBet = amount - t.currentBet,
                       !.calledAllIn = NoAllIn, !.straddled = won.straddled]
  <2> HIDE DEF won
  <2> QED BY <1>2 DEF Sound, Table
<1>5. Sound(ReopenAction(v))
  <2> HIDE DEF won
  <2>1. Sound(ReopenAction([won EXCEPT !.currentBet = won.bet[a],
                 !.minBet = amount - t.currentBet, !.calledAllIn = NoAllIn,
                 !.straddled = won.straddled]))
    BY <1>1, <1>2, <1>3, ReopenActionSound
  <2> QED BY <1>4, <2>1
<1> QED BY <1>5 DEF Raise

LEMMA AllInSound ==
  ASSUME NEW t, Sound(t), t.active \in Seat, CanAllIn(t)
  PROVE  Sound(AllIn(t))
<1> DEFINE a == t.active
           won == PutIn(t, t.stack[a])
<1>1. t.stack[a] \in Nat /\ t.stack[a] > 0
  BY DEF Sound, Table, CanAllIn
<1>2. Sound(won)
  BY <1>1, PayInSound
<1>3. /\ won.bet[a] \in Nat /\ won.straddled \in BOOLEAN
      /\ won.calledAllIn \in Nat \cup {NoAllIn}
  BY <1>2 DEF Sound, Table
<1> HIDE DEF won
<1>4. CASE won.bet[a] > t.currentBet
  <2> DEFINE mb == won.bet[a] - t.currentBet
             v == [won EXCEPT !.minBet = mb, !.currentBet = won.bet[a],
                               !.calledAllIn = NoAllIn]
  <2>1. mb \in Nat
    BY <1>3, <1>4 DEF Sound, Table
  <2>2. v = [won EXCEPT !.currentBet = won.bet[a], !.minBet = mb,
                         !.calledAllIn = NoAllIn, !.straddled = won.straddled]
    BY <1>2 DEF Sound, Table
  <2>3. Sound(ReopenAction([won EXCEPT !.currentBet = won.bet[a], !.minBet = mb,
                         !.calledAllIn = NoAllIn, !.straddled = won.straddled]))
    <3> HIDE DEF mb
    <3> QED BY <1>2, <1>3, <2>1, ReopenActionSound
  <2>4. Sound(ReopenAction(v))
    BY <2>2, <2>3
  <2> QED BY <1>4, <2>4 DEF AllIn, won
<1>5. CASE ~(won.bet[a] > t.currentBet)
  <2> DEFINE called == IF won.calledAllIn = NoAllIn THEN won.bet[a] ELSE won.calledAllIn
  <2>1. called \in Nat \cup {NoAllIn}
    BY <1>3
  <2>2. Sound([won EXCEPT !.calledAllIn = called])
    <3> HIDE DEF called
    <3> QED BY <1>2, <2>1, CalledAllInSound
  <2> QED BY <1>5, <2>2 DEF AllIn, won
<1> QED BY <1>4, <1>5

\* A straddle may take chips back, but never more than the pot holds.
LEMMA StraddlePutIn ==
  ASSUME NEW t, Sound(t), t.active \in Seat, CanStraddle(t)
  PROVE  Sound(PutIn(t, 2 * BigBlind - t.bet[t.active]))
<1> DEFINE a == t.active
           extra == 2 * BigBlind - t.bet[a]
<1>1. HandSound(t)
  BY DEF CanStraddle, Sound, ActionStage
<1>2. t.bet[a] \in Nat /\ t.stack[a] \in Nat /\ t.pot \in Nat
  BY DEF Sound, Table
<1>3. t.bet[a] <= t.pot
  <2>1. t.totalBet \in [Seat -> Nat]
    BY DEF Sound, Table
  <2>2. t.totalBet[a] <= Total(t.totalBet) /\ Total(t.totalBet) \in Nat
    BY <2>1, SeatFinite, TotalBound, TotalType
  <2>3. t.bet[a] <= t.totalBet[a] /\ t.totalBet[a] \in Nat
    BY <2>1 DEF Sound, BetsRecorded
  <2> QED BY <1>1, <1>2, <2>2, <2>3 DEF HandSound, PotCovered
<1>4. /\ extra \in Int /\ t.stack[a] > 0 /\ extra <= t.stack[a]
      /\ t.bet[a] + extra >= 0 /\ t.pot + extra >= 0
  BY <1>2, <1>3, BlindAssumption DEF CanStraddle
<1> HIDE DEF extra
<1>5. Sound(PutIn(t, extra))
  BY <1>4, PutInSound
<1> QED BY <1>5 DEF extra

LEMMA StraddleSound ==
  ASSUME NEW t, Sound(t), t.active \in Seat, CanStraddle(t)
  PROVE  Sound(Straddle(t))
<1> DEFINE a == t.active
           extra == 2 * BigBlind - t.bet[a]
           put == PutIn(t, extra)
           won == [put EXCEPT !.currentBet = 2 * BigBlind, !.minBet = BigBlind,
                               !.straddled = TRUE]
<1>5. Sound(put)
  BY StraddlePutIn
<1>6. won = [put EXCEPT !.currentBet = 2 * BigBlind, !.minBet = BigBlind,
                         !.calledAllIn = put.calledAllIn, !.straddled = TRUE]
  <2> HIDE DEF put
  <2> QED BY <1>5 DEF Sound, Table
<1>7. Sound(ReopenAction(won))
  <2>1. put.calledAllIn \in Nat \cup {NoAllIn}
    BY <1>5 DEF Sound, Table
  <2>2. 2 * BigBlind \in Nat /\ BigBlind \in Nat
    BY BlindAssumption
  <2>3. Sound(ReopenAction([put EXCEPT !.currentBet = 2 * BigBlind, !.minBet = BigBlind,
                         !.calledAllIn = put.calledAllIn, !.straddled = TRUE]))
    <3> HIDE DEF put
    <3> QED BY <1>5, <2>1, <2>2, ReopenActionSound
  <2> QED BY <1>6, <2>3
<1>8. NextActiveFrom(won, a) \in Seat \cup {NoSeat}
  BY NextActiveType
<1>9. Sound([ReopenAction(won) EXCEPT !.active = NextActiveFrom(won, a)])
  <2> HIDE DEF won
  <2> QED BY <1>7, <1>8, TurnMoveSound
<1> QED BY <1>9 DEF Straddle

LEMMA SitOutSound ==
  ASSUME NEW t, Sound(t), t.active \in Seat, NEW ranking
  PROVE  Sound(SitOut(t, ranking))
<1> DEFINE u == [t EXCEPT !.status[t.active] = "SITOUT"]
<1>1. t.hasActed \in [Seat -> BOOLEAN]
  BY DEF Sound, Table
<1>2. Sound([t EXCEPT !.status[t.active] = "SITOUT", !.hasActed = t.hasActed])
  BY <1>1, OutSound
<1>3. u = [t EXCEPT !.status[t.active] = "SITOUT", !.hasActed = t.hasActed]
  BY DEF Sound, Table
<1>4. Sound(u)
  BY <1>2, <1>3
<1> HIDE DEF u
<1>5. Sound(FoldSitOut(u, ranking))
  BY <1>4, FoldSitOutSound
<1> QED BY <1>5 DEF SitOut, u

----------------------------------------------------------------------------
(* Between hands *)

\* The flags a table keeps for getting ready and showing cards.
LEMMA FlagsSound ==
  ASSUME NEW t, Sound(t), NEW ready \in [Seat -> BOOLEAN], NEW countdown \in BOOLEAN,
         NEW revealed \in BOOLEAN
  PROVE  Sound([t EXCEPT !.ready = ready, !.countdown = countdown,
                         !.revealed = revealed])
<1> DEFINE u == [t EXCEPT !.ready = ready, !.countdown = countdown, !.revealed = revealed]
<1>1. u \in Table
  BY DEF Sound, Table
<1>2. BetsRecorded(u) /\ EmptySeatsUndealt(u) /\ u.stage = t.stage
  BY DEF Sound, Table, BetsRecorded, EmptySeatsUndealt
<1>3. ASSUME t.stage \in ActionStage PROVE HandSound(u)
  BY <1>3 DEF Sound, Table, HandSound, PotCovered, StackMatchesStatus, ClosedStreetsEven
<1> QED BY <1>1, <1>2, <1>3 DEF Sound

LEMMA BeginReadyCountdownSound ==
  ASSUME NEW t, Sound(t)
  PROVE  Sound(BeginReadyCountdown(t))
<1> DEFINE ready == [i \in Seat |-> i \in Playable(t)]
<1>1. ready \in [Seat -> BOOLEAN] /\ t.revealed \in BOOLEAN /\ TRUE \in BOOLEAN
  BY DEF Sound, Table
<1>2. BeginReadyCountdown(t) =
        [t EXCEPT !.ready = ready, !.countdown = TRUE, !.revealed = t.revealed]
  BY DEF BeginReadyCountdown, Sound, Table
<1>3. Sound([t EXCEPT !.ready = ready, !.countdown = TRUE, !.revealed = t.revealed])
  <2> HIDE DEF ready
  <2> QED BY <1>1, FlagsSound
<1> QED BY <1>2, <1>3

LEMMA RevealSound ==
  ASSUME NEW t, Sound(t)
  PROVE  Sound(RevealFoldWinnerCards(t))
<1>1. t.ready \in [Seat -> BOOLEAN] /\ t.countdown \in BOOLEAN
  BY DEF Sound, Table
<1>2. Sound([t EXCEPT !.ready = t.ready, !.countdown = t.countdown, !.revealed = TRUE])
  BY <1>1, FlagsSound
<1>3. [t EXCEPT !.revealed = TRUE] =
        [t EXCEPT !.ready = t.ready, !.countdown = t.countdown, !.revealed = TRUE]
  BY DEF Sound, Table
<1> QED BY <1>2, <1>3 DEF RevealFoldWinnerCards

LEMMA ResetToWaitingSound ==
  ASSUME NEW t, Sound(t)
  PROVE  Sound(ResetToWaiting(t))
<1> DEFINE u == ResetToWaiting(t)
           status == [i \in Seat |-> IF t.stack[i] > 0 THEN "ACTIVE" ELSE "SITOUT"]
<1>1. NextSeatedFrom(t, t.dealer) \in Seat
  BY NextSeatedType DEF Sound, Table
<1>2. /\ status \in [Seat -> Status] /\ "WAITING" \in Stage
      /\ Zero \in [Seat -> Nat] /\ False \in [Seat -> BOOLEAN]
      /\ NoResult \in [Player -> Nat \cup {NoEntry}]
  BY DEF Status, Stage, Zero, False, NoResult
<1>3. u \in Table
  <2> HIDE DEF status
  <2> QED BY <1>1, <1>2, BlindAssumption DEF ResetToWaiting, status, Sound, Table
<1>4. BetsRecorded(u) /\ EmptySeatsUndealt(u) /\ u.stage = "WAITING"
  BY DEF Sound, Table, BetsRecorded, EmptySeatsUndealt, ResetToWaiting, Zero, False
<1> HIDE DEF u
<1>5. Sound(u)
  BY <1>3, <1>4 DEF Sound, ActionStage
<1> QED BY <1>5 DEF u

\* Two players post blinds; or one, if he is the only one who can.
LEMMA TwoBlinds ==
  ASSUME NEW sb \in Seat, NEW bb \in Seat, NEW blind \in [Seat -> Nat],
         \A i \in Seat \ {sb, bb} : blind[i] = 0
  PROVE  /\ Total(blind) <= blind[sb] + blind[bb]
         /\ sb # bb => Total(blind) = blind[sb] + blind[bb]
<1> DEFINE one == [i \in Seat |-> IF i = bb THEN blind[i] ELSE 0]
           none == [i \in Seat |-> 0]
           both == [one EXCEPT ![sb] = blind[sb]]
<1>1. none \in [Seat -> Nat] /\ one \in [Seat -> Nat] /\ both \in [Seat -> Nat]
  OBVIOUS
<1>2. Total(none) = 0
  BY <1>1, TotalZero
<1>3. /\ none[bb] = 0 /\ one[bb] = blind[bb] /\ \A j \in Seat \ {bb} : one[j] = none[j]
      /\ both[sb] = blind[sb] /\ \A j \in Seat \ {sb} : both[j] = one[j]
      /\ one[sb] \in Nat /\ (sb # bb => one[sb] = 0)
  OBVIOUS
<1>4. both = blind
  OBVIOUS
<1> HIDE DEF none, one, both
<1>5. Total(one) = Total(none) + one[bb] - none[bb]
  BY <1>1, <1>3, SeatFinite, TotalUpdate
<1>6. Total(both) = Total(one) + both[sb] - one[sb]
  BY <1>1, <1>3, SeatFinite, TotalUpdate
<1> QED BY <1>2, <1>3, <1>4, <1>5, <1>6

\* The blinds are the whole pot of a new hand: whoever posts less than his blind
\* is all-in, and everyone else has chips behind.
LEMMA StartHandSound ==
  ASSUME NEW t, Sound(t)
  PROVE  Sound(StartHand(t))
<1> DEFINE dealer == IF t.dealer \in Playable(t)
                     THEN t.dealer ELSE NextSeatedFrom(t, t.dealer)
           sb     == NextSeatedFrom(t, dealer)
           bb     == NextSeatedFrom(t, sb)
           blind  == [i \in Seat |-> IF i = bb THEN Least(BigBlind, t.stack[i])
                                     ELSE IF i = sb THEN Least(SmallBlind, t.stack[i])
                                     ELSE 0]
           stack  == [i \in Seat |-> t.stack[i] - blind[i]]
           status == [i \in Seat |->
                        IF t.stack[i] = 0 THEN "SITOUT"
                        ELSE IF t.stack[i] = blind[i] THEN "ALLIN" ELSE "ACTIVE"]
           dealt  == [i \in Seat |-> i \in Playable(t)]
           pot    == blind[sb] + blind[bb]
           posted == [t EXCEPT
                        !.stack = stack, !.bet = blind, !.totalBet = blind,
                        !.status = status, !.hasActed = False, !.ready = False,
                        !.dealt = dealt, !.stage = "PREFLOP", !.pot = pot,
                        !.currentBet = blind[bb], !.dealer = dealer,
                        !.straddled = FALSE, !.calledAllIn = NoAllIn,
                        !.result = NoResult, !.countdown = FALSE]
<1>1. dealer \in Seat /\ sb \in Seat /\ bb \in Seat
  BY NextSeatedType DEF Sound, Table
<1> HIDE DEF dealer, sb, bb
<1>2. t.stack \in [Seat -> Nat]
  BY DEF Sound, Table
<1>3. ASSUME NEW i \in Seat
      PROVE  blind[i] \in Nat /\ blind[i] <= t.stack[i]
  <2>1. t.stack[i] \in Nat /\ BigBlind \in Nat /\ SmallBlind \in Nat
    BY <1>2, BlindAssumption
  <2>2. blind[i] \in {Least(BigBlind, t.stack[i]), Least(SmallBlind, t.stack[i]), 0}
    OBVIOUS
  <2> HIDE DEF blind
  <2> QED BY <2>1, <2>2 DEF Least
<1>4. blind \in [Seat -> Nat] /\ \A i \in Seat \ {sb, bb} : blind[i] = 0
  BY <1>3
<1> HIDE DEF blind
<1>5. stack \in [Seat -> Nat] /\ status \in [Seat -> Status] /\ pot \in Nat
  BY <1>1, <1>2, <1>3, <1>4 DEF Status
<1>6. Total(blind) <= pot
  BY <1>1, <1>4, TwoBlinds
<1>7. /\ False \in [Seat -> BOOLEAN] /\ dealt \in [Seat -> BOOLEAN]
      /\ NoResult \in [Player -> Nat \cup {NoEntry}] /\ "PREFLOP" \in Stage
      /\ blind[bb] \in Nat
  BY <1>1, <1>4 DEF False, NoResult, Stage, ActionStage
<1>8. \A i \in Seat : /\ status[i] = "ACTIVE" => stack[i] > 0
                      /\ status[i] = "ALLIN"  => stack[i] = 0
  BY <1>2, <1>3, <1>4
<1>9. \A i \in Seat : dealt[i] => t.id[i] # Nobody
  BY DEF Playable, Occupied
<1> HIDE DEF stack, status, dealt, pot
<1>10. posted \in Table
  BY <1>1, <1>4, <1>5, <1>7 DEF Sound, Table
<1>11. /\ posted.bet = blind /\ posted.totalBet = blind /\ posted.pot = pot
       /\ posted.status = status /\ posted.stack = stack /\ posted.dealt = dealt
       /\ posted.id = t.id
  BY DEF Sound, Table
<1> HIDE DEF posted
<1>12. BetsRecorded(posted) /\ EmptySeatsUndealt(posted)
  BY <1>4, <1>9, <1>11 DEF BetsRecorded, EmptySeatsUndealt
<1>13. PotCovered(posted)
  <2>1. Total(blind) \in Nat
    BY <1>4, SeatFinite, TotalType
  <2> QED BY <1>5, <1>6, <1>11, <2>1 DEF PotCovered
<1>14. StackMatchesStatus(posted) /\ ClosedStreetsEven(posted)
  BY <1>4, <1>8, <1>11 DEF StackMatchesStatus, ClosedStreetsEven
<1>15. Sound(posted)
  BY <1>10, <1>12, <1>13, <1>14 DEF Sound, HandSound
<1>16. Sound([posted EXCEPT !.active = NextSeatedFrom(posted, bb)])
  BY <1>1, <1>15, NextSeatedType, TurnMoveSound
<1>17. StartHand(t) = [posted EXCEPT !.active = NextSeatedFrom(posted, bb)]
  BY DEF StartHand, posted, dealer, sb, bb, blind, stack, status, dealt, pot
<1> QED BY <1>16, <1>17

----------------------------------------------------------------------------
(* The pots *)

\* Sharing out a pot by the floored share, the odd chips to the first, leaves
\* nothing.
LEMMA ShareSum ==
  ASSUME NEW a \in Nat, NEW n \in Nat \ {0}
  PROVE  n * (a \div n) + (a - (a \div n) * (n - 1)) - (a \div n) = a
<1>1. a \div n \in Int
  OBVIOUS
<1>2. (a \div n) * (n - 1) = n * (a \div n) - (a \div n)
  BY <1>1
<1> QED BY <1>1, <1>2

LEMMA PotAmountType ==
  ASSUME NEW t, t \in Table, NEW level
  PROVE  PotAmount(t, level) \in Nat
<1>1. IsFiniteSet(Chips(t.totalBet))
  BY SeatFinite, ChipsFinite DEF Table
<1> QED BY <1>1, FS_Subset, FS_CardinalityType DEF PotAmount

\* Somebody wins every pot: a player still in has reached its level, and of
\* those who have one has the best ranking.
LEMMA PotHasWinner ==
  ASSUME NEW t, t \in Table, NEW ranking \in [Seat -> Nat], NEW level \in OpenLevels(t)
  PROVE  /\ PotWinners(t, level, ranking) \in SUBSET Seat
         /\ PotWinners(t, level, ranking) # {}
<1> DEFINE E == PotEligible(t, level)
           R == {ranking[i] : i \in E}
           g == [i \in E |-> ranking[i]]
<1>1. E \in SUBSET Seat /\ E # {}
  BY DEF OpenLevels, PotEligible, NotFolded, Occupied
<1>2. IsFiniteSet(E)
  BY <1>1, SeatFinite, FS_Subset
<1>3. g \in Surjection(E, R)
  BY DEF Surjection
<1>4. IsFiniteSet(R)
  BY <1>2, <1>3, FS_Surjection
<1>5. R \in SUBSET Nat /\ R # {}
  BY <1>1
<1>6. Last(R) \in R /\ \A r \in R : Last(R) >= r
  <2> HIDE DEF R
  <2> QED BY <1>4, <1>5, LastType
<1>7. PICK i \in E : ranking[i] = Last(R)
  BY <1>6
<1>8. i \in PotWinners(t, level, ranking)
  BY <1>6, <1>7 DEF PotWinners
<1> QED BY <1>1, <1>8 DEF PotWinners

\* The winners of a pot get all of it.
LEMMA PotPaidOut ==
  ASSUME NEW t, t \in Table, NEW ranking \in [Seat -> Nat], NEW level \in OpenLevels(t)
  PROVE  Total([i \in Seat |-> PotShare(t, level, ranking, i)]) = PotAmount(t, level)
<1> DEFINE W == PotWinners(t, level, ranking)
           a == PotAmount(t, level)
           n == Cardinality(W)
           share == a \div n
           won == [i \in Seat |-> PotShare(t, level, ranking, i)]
           even == [i \in Seat |-> IF i \in W THEN share ELSE 0]
<1>1. W \in SUBSET Seat /\ W # {}
  BY PotHasWinner
<1>2. a \in Nat
  BY PotAmountType
<1>3. n \in Nat \ {0}
  BY <1>1, SeatFinite, FS_Subset, FS_CardinalityType, FS_EmptySet
<1>4. W \in SUBSET Nat
  BY <1>1 DEF Seat
<1>5. First(W) \in W
  <2> HIDE DEF W
  <2> QED BY <1>1, <1>4, FirstType
<1>6. share \in Nat /\ a - share * (n - 1) \in Nat
  <2> HIDE DEF a, n
  <2> QED BY <1>2, <1>3, ShareBound
<1>7. \A i \in Seat : won[i] = IF i \notin W THEN 0
                                ELSE IF i = First(W) THEN a - share * (n - 1)
                                ELSE share
  BY DEF PotShare
<1>8. /\ even \in [Seat -> Nat] /\ won \in [Seat -> Nat]
      /\ won[First(W)] = a - share * (n - 1) /\ even[First(W)] = share
      /\ \A j \in Seat \ {First(W)} : won[j] = even[j]
  <2> HIDE DEF a, n, W, share
  <2>1. even \in [Seat -> Nat]
    BY <1>6
  <2>2. won[First(W)] = a - share * (n - 1) /\ even[First(W)] = share
    BY <1>1, <1>5, <1>7
  <2>3. \A j \in Seat \ {First(W)} : won[j] = even[j]
    BY <1>1, <1>7
  <2>4. won \in [Seat -> Nat]
    BY PotShareType
  <2> QED BY <2>1, <2>2, <2>3, <2>4
<1>9. Total(even) = n * share
  <2>1. \A i \in Seat : even[i] = IF i \in W THEN share ELSE 0
    OBVIOUS
  <2> HIDE DEF share, even, W
  <2> QED BY <1>1, <1>6, <1>8, <2>1, SeatFinite, TotalEqual
<1>10. Total(won) = Total(even) + won[First(W)] - even[First(W)]
  <2> HIDE DEF won, even, a, W
  <2> QED BY <1>1, <1>5, <1>8, SeatFinite, TotalUpdate
<1>11. n * share + (a - share * (n - 1)) - share = a
  <2> HIDE DEF a, n
  <2> QED BY <1>2, <1>3, ShareSum
<1> HIDE DEF won, even, a, n, share, W
<1>12. Total(won) = a
  BY <1>2, <1>3, <1>6, <1>8, <1>9, <1>10, <1>11
<1> QED BY <1>12 DEF won, a

\* Every chip anyone seated has put in lies in one of the pots.
LEMMA PotsHoldAll ==
  ASSUME NEW t, t \in Table, OpenLevels(t) # {}
  PROVE  Total([l \in OpenLevels(t) |-> PotAmount(t, l)]) = Total(t.totalBet)
<1> DEFINE L == OpenLevels(t)
           C == Chips(t.totalBet)
           q == [c \in C |-> PotOf(L, c[2])]
<1>1. L \in SUBSET Nat
  BY DEF OpenLevels, Occupied, Table
<1>7. IsFiniteSet(L) /\ IsFiniteSet(C)
  BY SeatFinite, ChipsFinite, OpenLevelsFinite DEF Table
<1> HIDE DEF L, C
<1>2. ASSUME NEW k PROVE PotOf(L, k) \in L
  <2> DEFINE A == {l \in L : l >= k}
  <2>1. CASE \E l \in L : l >= k
    <3>1. A \in SUBSET Nat /\ A # {}
      BY <1>1, <2>1
    <3>2. First(A) \in A
      <4> HIDE DEF A
      <4> QED BY <3>1, FirstType
    <3> QED BY <2>1, <3>2 DEF PotOf
  <2>2. CASE ~ \E l \in L : l >= k
    <3>1. Last(L) \in L
      BY <1>1, <1>7, LastType DEF L
    <3> QED BY <2>2, <3>1 DEF PotOf
  <2> QED BY <2>1, <2>2
<1>3. q \in [C -> L]
  BY <1>2
<1>4. \A l \in L : PotAmount(t, l) = Cardinality(Group(C, q, l))
  <2>1. ASSUME NEW l \in L
        PROVE  Group(C, q, l) = {c \in C : PotOf(L, c[2]) = l}
    BY DEF Group
  <2> HIDE DEF q
  <2> QED BY <2>1 DEF PotAmount, L, C
<1> HIDE DEF q
<1> DEFINE g == [l \in L |-> PotAmount(t, l)]
<1>5. g \in [L -> Nat] /\ \A l \in L : g[l] = Cardinality(Group(C, q, l))
  BY <1>4, PotAmountType
<1> HIDE DEF g
<1>6. Cardinality(C) = Total(g)
  BY <1>3, <1>5, <1>7, CountGroups
<1> QED BY <1>6 DEF Total, C, L, g

\* The showdown pays out what the seated players have put in, no more and no
\* less.
LEMMA PayoutTotal ==
  ASSUME NEW t, t \in Table, NEW ranking \in [Seat -> Nat], OpenLevels(t) # {}
  PROVE  Total(Payout(t, ranking)) = Total(t.totalBet)
<1> DEFINE L == OpenLevels(t)
           f == [x \in Seat \X L |-> PotShare(t, x[2], ranking, x[1])]
           rows == Payout(t, ranking)
           cols == [l \in L |-> PotAmount(t, l)]
<1>1. Matrix(f, Seat, L)
  BY PotShareType DEF Matrix
<1>2. \A i \in Seat : Row(f, L, i) = [l \in L |-> PotShare(t, l, ranking, i)]
  BY DEF Row
<1>3. \A l \in L : Column(f, Seat, l) = [i \in Seat |-> PotShare(t, l, ranking, i)]
  BY DEF Column
<1> HIDE DEF f
<1>4. rows \in [Seat -> Nat] /\ \A i \in Seat : rows[i] = Total(Row(f, L, i))
  BY <1>2, PayoutType DEF Payout
<1>5. cols \in [L -> Nat] /\ \A l \in L : cols[l] = Total(Column(f, Seat, l))
  BY <1>3, PotAmountType, PotPaidOut
<1>6. IsFiniteSet(L)
  BY OpenLevelsFinite
<1>7. Total(cols) = Total(t.totalBet)
  BY PotsHoldAll
<1> HIDE DEF L, rows, cols
<1>8. Total(rows) = Total(cols)
  BY <1>1, <1>4, <1>5, <1>6, SeatFinite, TotalSwap
<1> QED BY <1>7, <1>8 DEF rows

\* Without a pot nobody is won.
LEMMA NoPotNoPayout ==
  ASSUME NEW t, NEW ranking, OpenLevels(t) = {}
  PROVE  \A i \in Seat : Payout(t, ranking)[i] = 0
<1>1. ASSUME NEW i \in Seat
      PROVE  Total([l \in OpenLevels(t) |-> PotShare(t, l, ranking, i)]) = 0
  BY TotalZero
<1> QED BY <1>1 DEF Payout

\* An empty seat is won nothing.
LEMMA EmptySeatUnpaid ==
  ASSUME NEW t, NEW ranking, NEW i \in Seat, t.id[i] = Nobody
  PROVE  Payout(t, ranking)[i] = 0
<1> DEFINE f == [l \in OpenLevels(t) |-> PotShare(t, l, ranking, i)]
<1>1. \A l \in OpenLevels(t) : PotShare(t, l, ranking, i) = 0
  BY DEF PotShare, PotWinners, PotEligible, NotFolded, Occupied
<1>2. f \in [OpenLevels(t) -> Nat] /\ \A l \in OpenLevels(t) : f[l] = 0
  BY <1>1
<1>3. Total(f) = 0
  <2> HIDE DEF f
  <2> QED BY <1>2, TotalZero
<1> QED BY <1>3 DEF Payout

----------------------------------------------------------------------------
(* Ending a hand *)

\* Nobody has sat down, left or won.
Keeps(t, u) ==
  /\ u.id = t.id
  /\ \A i \in Seat : /\ u.stack[i] >= t.stack[i]
                     /\ t.id[i] = Nobody => u.stack[i] = t.stack[i]

\* What the hand of t has cost when u has settled it.
Settled(t, u) ==
  \/ u.isFoldWin /\ TableChips(t) - TableChips(u) <= RakeCap
  \/ TableChips(t) - TableChips(u) = Forfeited(t)
  \/ \A p \in Player : u.result[p] <= 0

\* Nobody has won the hand that is played.
Fresh(t) == InHand(t) => t.result = NoResult

\* What passing the turn, closing a street and ending the hand may do to the
\* chips of t.
Carried(t, u) ==
  /\ Keeps(t, u)
  /\ TableChips(u) <= TableChips(t)
  /\ InHand(u) => /\ InHand(t) /\ u.result = t.result
                  /\ TableChips(u) = TableChips(t) /\ Forfeited(u) = Forfeited(t)
  /\ InHand(t) /\ u.stage = "SETTLEMENT" => Settled(t, u)
  /\ u.stage = "WAITING" => t.stage = "WAITING"

LEMMA TableChipsType ==
  ASSUME NEW t, t \in Table
  PROVE  /\ Total(t.stack) \in Nat /\ TableChips(t) \in Nat
         /\ Total(t.totalBet) \in Nat /\ SeatedBets(t) \in Nat /\ Forfeited(t) \in Int
<1>1. t.stack \in [Seat -> Nat] /\ t.totalBet \in [Seat -> Nat] /\ t.pot \in Nat
  BY DEF Table
<1>2. Total(t.stack) \in Nat /\ Total(t.totalBet) \in Nat
  BY <1>1, SeatFinite, TotalType
<1> QED BY <1>1, <1>2 DEF TableChips, SeatedBets, Forfeited

\* Steps that leave the chips where they are.
LEMMA UnpaidCarried ==
  ASSUME NEW t, t \in Table, NEW u,
         u.id = t.id, u.stack = t.stack, u.totalBet = t.totalBet, u.pot = t.pot,
         u.result = t.result,
         u.stage = t.stage \/ (u.stage \in ActionStage /\ t.stage \in ActionStage)
  PROVE  Carried(t, u)
<1>1. TableChips(u) = TableChips(t) /\ Forfeited(u) = Forfeited(t)
  BY DEF TableChips, Forfeited, SeatedBets
<1>2. TableChips(t) \in Nat
  BY TableChipsType
<1>3. Keeps(t, u)
  BY DEF Keeps, Table
<1> QED BY <1>1, <1>2, <1>3 DEF Carried, InHand, ActionStage

\* One step after another: nothing goes on once the hand has ended.
LEMMA CarriedOn ==
  ASSUME NEW t, t \in Table, NEW u, u \in Table, NEW v, v \in Table,
         Carried(t, u), Carried(u, v), InHand(u) \/ v = u
  PROVE  Carried(t, v)
<1>1. CASE v = u
  BY <1>1
<1>2. CASE InHand(u)
  <2>1. TableChips(t) \in Nat /\ TableChips(u) \in Nat /\ TableChips(v) \in Nat
    BY TableChipsType
  <2>2. Keeps(t, v)
    BY DEF Carried, Keeps, Table
  <2>3. Settled(u, v) => Settled(t, v)
    BY <1>2 DEF Carried, Settled
  <2> QED BY <1>2, <2>1, <2>2, <2>3 DEF Carried
<1> QED BY <1>1, <1>2

\* The last player left takes the pot less the rake.
LEMMA FoldWinCarried ==
  ASSUME NEW t, Sound(t), NEW w \in Seat, t.id[w] # Nobody
  PROVE  Carried(t, FoldWin(t, w))
<1> DEFINE u == FoldWin(t, w)
           rake == RakeOf(t.pot)
<1>1. t.stack \in [Seat -> Nat] /\ t.pot \in Nat
  BY DEF Sound, Table
<1>2. rake \in Nat /\ rake <= t.pot /\ rake <= RakeCap
  <2>1. RakeOf(t.pot) \in Nat /\ RakeOf(t.pot) <= t.pot
    BY <1>1, RakeBound
  <2>2. (t.pot * RakePercent) \div 100 \in Int
    BY <1>1, RakeAssumption
  <2>3. RakeOf(t.pot) <= RakeCap
    BY <2>2, RakeAssumption DEF RakeOf, Least
  <2> QED BY <2>1, <2>3
<1>3. /\ u.stack = [t.stack EXCEPT ![w] = @ + (t.pot - rake)] /\ u.pot = 0
      /\ u.id = t.id /\ u.isFoldWin = TRUE /\ u.stage = "SETTLEMENT"
  BY DEF FoldWin, Sound, Table
<1> HIDE DEF u, rake
<1>4. u.stack \in [Seat -> Nat] /\ u.stack[w] = t.stack[w] + (t.pot - rake)
      /\ \A j \in Seat \ {w} : u.stack[j] = t.stack[j]
  BY <1>1, <1>2, <1>3
<1>5. Total(u.stack) = Total(t.stack) + u.stack[w] - t.stack[w]
  BY <1>1, <1>4, SeatFinite, TotalUpdate
<1>6. Total(t.stack) \in Nat
  BY <1>1, SeatFinite, TotalType
<1>7. TableChips(u) = TableChips(t) - rake /\ TableChips(t) \in Nat
  BY <1>1, <1>2, <1>3, <1>4, <1>5, <1>6 DEF TableChips
<1>8. Keeps(t, u)
  BY <1>1, <1>2, <1>3, <1>4 DEF Keeps
<1>9. Settled(t, u) /\ TableChips(u) <= TableChips(t)
  BY <1>2, <1>3, <1>7, RakeAssumption DEF Settled
<1>10. Carried(t, u)
  BY <1>3, <1>8, <1>9 DEF Carried, InHand, ActionStage
<1> QED BY <1>10 DEF u

\* The showdown pays out what the seated players have put in: what is lost is
\* what the players who left had put in.
LEMMA PerformShowdownCarried ==
  ASSUME NEW t, Sound(t), InHand(t), Fresh(t), NEW ranking \in [Seat -> Nat]
  PROVE  Carried(t, PerformShowdown(t, ranking))
<1> DEFINE u == PerformShowdown(t, ranking)
           shown == [i \in Seat |-> IF t.dealt[i] THEN ranking[i] ELSE 0]
           win == Payout(t, shown)
           won == [i \in Seat |-> t.stack[i] + win[i]]
<1>1. TableChips(t) \in Nat /\ Total(t.stack) \in Nat /\ t.pot \in Nat
      /\ Total(t.totalBet) \in Nat /\ t.stack \in [Seat -> Nat] /\ t.pot >= Total(t.totalBet)
  BY TableChipsType DEF Sound, Table, HandSound, PotCovered, InHand
<1>2. CASE NotFolded(t) = {}
  <2>1. u = [t EXCEPT !.stage = "SETTLEMENT"]
    BY <1>2 DEF PerformShowdown
  <2>2. /\ u.id = t.id /\ u.stack = t.stack /\ u.pot = t.pot /\ u.result = NoResult
        /\ u.stage = "SETTLEMENT"
    BY <2>1 DEF Sound, Table, Fresh
  <2> HIDE DEF u
  <2>3. TableChips(u) = TableChips(t) /\ Keeps(t, u)
    BY <1>1, <2>2 DEF TableChips, Keeps
  <2>4. Settled(t, u)
    BY <2>2 DEF Settled, NoResult, NoEntry
  <2>5. Carried(t, u)
    BY <1>1, <2>2, <2>3, <2>4 DEF Carried, InHand, ActionStage
  <2> QED BY <2>5 DEF u
<1>3. CASE NotFolded(t) # {}
  <2>1. shown \in [Seat -> Nat]
    BY DEF Sound, Table
  <2>2. win \in [Seat -> Nat]
    BY PayoutType DEF Sound
  <2>3. \A i \in Seat : t.id[i] = Nobody => win[i] = 0
    BY EmptySeatUnpaid
  <2>4. OpenLevels(t) = {} => \A i \in Seat : win[i] = 0
    BY NoPotNoPayout
  <2>5. OpenLevels(t) # {} => Total(win) = Total(t.totalBet)
    <3> HIDE DEF shown
    <3> QED BY <2>1, PayoutTotal DEF Sound
  <2>6. u = [t EXCEPT !.stack = won, !.pot = 0, !.result = ResultOf(t, win),
                      !.isFoldWin = FALSE, !.revealed = FALSE, !.stage = "SETTLEMENT"]
    BY <1>3 DEF PerformShowdown
  <2> HIDE DEF win, u
  <2>7. won \in [Seat -> Nat] /\ \A i \in Seat : won[i] = t.stack[i] + win[i]
    BY <1>1, <2>2
  <2> HIDE DEF won
  <2>8. Total(won) = Total(t.stack) + Total(win)
    BY <1>1, <2>2, <2>7, SeatFinite, TotalSum
  <2>9. /\ u.id = t.id /\ u.stack = won /\ u.pot = 0 /\ u.result = ResultOf(t, win)
        /\ u.stage = "SETTLEMENT"
    BY <2>6 DEF Sound, Table
  <2>10. Keeps(t, u)
    BY <1>1, <2>2, <2>3, <2>7, <2>9 DEF Keeps
  <2>11. Settled(t, u) /\ TableChips(u) <= TableChips(t)
    <3>1. CASE OpenLevels(t) = {}
      <4>1. Total(win) = 0
        BY <2>2, <2>4, <3>1, TotalZero
      <4>2. \A p \in Player : u.result[p] <= 0
        BY <2>4, <2>9, <3>1, SeatOfType DEF ResultOf, NoEntry
      <4> QED BY <1>1, <2>8, <2>9, <4>1, <4>2 DEF Settled, TableChips
    <3>2. CASE OpenLevels(t) # {}
      BY <1>1, <2>5, <2>8, <2>9, <3>2 DEF Settled, TableChips, Forfeited, SeatedBets
    <3> QED BY <3>1, <3>2
  <2>12. Carried(t, u)
    BY <2>9, <2>10, <2>11 DEF Carried, InHand, ActionStage
  <2> QED BY <2>12 DEF u
<1> QED BY <1>2, <1>3

LEMMA AdvanceStreetCarried ==
  ASSUME NEW t, Sound(t), Fresh(t), IsBettingRoundComplete(t), NEW ranking \in [Seat -> Nat]
  PROVE  Carried(t, AdvanceStreet(t, ranking))
<1> DEFINE closed == [t EXCEPT !.bet = Zero, !.hasActed = False,
                               !.currentBet = 0, !.minBet = BigBlind]
           u == AdvanceStreet(t, ranking)
<1>1. Sound(closed)
  BY ClosedSound
<1>2. /\ closed.id = t.id /\ closed.stack = t.stack /\ closed.totalBet = t.totalBet
      /\ closed.pot = t.pot /\ closed.result = t.result /\ closed.stage = t.stage
  BY DEF Sound, Table
<1>3. CASE t.stage = "RIVER"
  <2>1. u = PerformShowdown(closed, ranking)
    BY <1>3 DEF AdvanceStreet
  <2> HIDE DEF closed, u
  <2>2. Carried(t, closed)
    BY <1>2, UnpaidCarried DEF Sound
  <2>3. InHand(closed) /\ Fresh(closed)
    BY <1>2, <1>3 DEF InHand, Fresh, ActionStage
  <2>4. Carried(closed, u) /\ Sound(u)
    BY <1>1, <2>1, <2>3, PerformShowdownCarried, PerformShowdownSound
  <2>5. Carried(t, u)
    BY <1>1, <2>2, <2>3, <2>4, CarriedOn DEF Sound
  <2> QED BY <2>5 DEF u
<1>4. CASE t.stage # "RIVER"
  <2>1. u = [closed EXCEPT !.stage = NextStage(t.stage), !.active = NextActiveFrom(t, t.dealer)]
    BY <1>4 DEF AdvanceStreet
  <2> HIDE DEF closed
  <2>2. /\ u.id = t.id /\ u.stack = t.stack /\ u.totalBet = t.totalBet
        /\ u.pot = t.pot /\ u.result = t.result /\ u.stage = NextStage(t.stage)
    BY <1>1, <1>2, <2>1 DEF Sound, Table
  <2>3. u.stage = t.stage \/ (u.stage \in ActionStage /\ t.stage \in ActionStage)
    BY <2>2 DEF NextStage, ActionStage
  <2> HIDE DEF u
  <2>4. Carried(t, u)
    BY <2>2, <2>3, UnpaidCarried DEF Sound
  <2> QED BY <2>4 DEF u
<1> QED BY <1>3, <1>4

LEMMA PassTurnCarried ==
  ASSUME NEW t, Sound(t), Fresh(t), NEW ranking \in [Seat -> Nat]
  PROVE  Carried(t, PassTurn(t, ranking))
<1> DEFINE u == [t EXCEPT !.active = NextActiveFrom(t, t.active)]
<1>1. /\ u.id = t.id /\ u.stack = t.stack /\ u.totalBet = t.totalBet
      /\ u.pot = t.pot /\ u.result = t.result /\ u.stage = t.stage
  BY DEF Sound, Table
<1>2. Carried(t, u)
  <2> HIDE DEF u
  <2> QED BY <1>1, UnpaidCarried DEF Sound
<1> QED BY <1>2, AdvanceStreetCarried DEF PassTurn

LEMMA ResolveCarried ==
  ASSUME NEW t, Sound(t), Fresh(t), NEW ranking \in [Seat -> Nat]
  PROVE  Carried(t, Resolve(t, ranking))
<1>1. CASE Cardinality(NotFolded(t)) = 1
  <2> DEFINE w == CHOOSE i \in NotFolded(t) : TRUE
  <2>1. NotFolded(t) # {}
    BY <1>1, FS_EmptySet
  <2>2. w \in Seat /\ t.id[w] # Nobody
    BY <2>1 DEF NotFolded, Occupied
  <2> HIDE DEF w
  <2>3. Carried(t, FoldWin(t, w))
    BY <2>2, FoldWinCarried
  <2> QED BY <1>1, <2>3 DEF Resolve, w
<1>2. CASE Cardinality(NotFolded(t)) # 1
  BY <1>2, PassTurnCarried DEF Resolve
<1> QED BY <1>1, <1>2

\* u is t but for what players do without paying: then play goes on.
LEMMA ResolveAfter ==
  ASSUME NEW t, Sound(t), Fresh(t), InHand(t), NEW u, Sound(u), NEW ranking \in [Seat -> Nat],
         u.id = t.id, u.stack = t.stack, u.totalBet = t.totalBet, u.pot = t.pot,
         u.result = t.result, u.stage = t.stage
  PROVE  Carried(t, u) /\ Carried(t, Resolve(u, ranking))
<1>1. Carried(t, u)
  BY UnpaidCarried DEF Sound
<1>2. InHand(u) /\ Fresh(u)
  BY DEF InHand, Fresh
<1>3. Carried(u, Resolve(u, ranking)) /\ Sound(Resolve(u, ranking))
  BY <1>2, ResolveCarried, ResolveSound
<1> QED BY <1>1, <1>2, <1>3, CarriedOn DEF Sound

LEMMA FoldSitOutCarried ==
  ASSUME NEW t, Sound(t), Fresh(t), NEW ranking \in [Seat -> Nat]
  PROVE  Carried(t, FoldSitOut(t, ranking))
<1>1. CASE IsCurrentPlayerSitOut(t)
  <2>1. t.active \in Seat /\ InHand(t)
    BY <1>1 DEF IsCurrentPlayerSitOut, Occupied, InHand
  <2> DEFINE u == Fold(t)
  <2>2. Sound(u)
    BY <2>1, FoldSound
  <2>3. /\ u.id = t.id /\ u.stack = t.stack /\ u.totalBet = t.totalBet
        /\ u.pot = t.pot /\ u.result = t.result /\ u.stage = t.stage
    BY DEF Fold, Sound, Table
  <2>4. FoldSitOut(t, ranking) = Resolve(u, ranking)
    BY <1>1 DEF FoldSitOut, Fold
  <2> HIDE DEF u
  <2> QED BY <2>1, <2>2, <2>3, <2>4, ResolveAfter
<1>2. CASE ~IsCurrentPlayerSitOut(t)
  BY <1>2, UnpaidCarried DEF FoldSitOut, Sound
<1> QED BY <1>1, <1>2

LEMMA FinishCarried ==
  ASSUME NEW t, Sound(t), Fresh(t), NEW ranking \in [Seat -> Nat]
  PROVE  Carried(t, Finish(t, ranking))
<1> DEFINE u == PassTurn(t, ranking)
           v == FoldSitOut(u, ranking)
<1>1. Sound(u) /\ Carried(t, u)
  BY PassTurnSound, PassTurnCarried
<1>2. Fresh(u)
  BY <1>1 DEF Fresh, Carried
<1> HIDE DEF u
<1>3. Sound(v) /\ Carried(u, v)
  BY <1>1, <1>2, FoldSitOutSound, FoldSitOutCarried
<1>4. InHand(u) \/ v = u
  BY DEF FoldSitOut, IsCurrentPlayerSitOut, InHand
<1> HIDE DEF v
<1>5. Carried(t, v)
  BY <1>1, <1>3, <1>4, CarriedOn DEF Sound
<1> QED BY <1>5, ResolveCarried DEF Finish, u, v

LEMMA FoldPlayerOnLeaveCarried ==
  ASSUME NEW t, Sound(t), Fresh(t), NEW i \in Seat, NEW ranking \in [Seat -> Nat]
  PROVE  Carried(t, FoldPlayerOnLeave(t, i, ranking))
<1> DEFINE u == [t EXCEPT !.status[i] = "FOLD"]
<1>1. CASE t.stage \notin ActionStage \/ t.status[i] \in {"FOLD", "ALLIN"}
  BY <1>1, UnpaidCarried DEF FoldPlayerOnLeave, Sound
<1>2. CASE t.stage \in ActionStage /\ t.status[i] \notin {"FOLD", "ALLIN"}
  <2>1. t.hasActed \in [Seat -> BOOLEAN]
    BY DEF Sound, Table
  <2>2. Sound([t EXCEPT !.status[i] = "FOLD", !.hasActed = t.hasActed])
    BY <2>1, OutSound
  <2>3. u = [t EXCEPT !.status[i] = "FOLD", !.hasActed = t.hasActed]
    BY DEF Sound, Table
  <2>4. Sound(u)
    BY <2>2, <2>3
  <2>5. /\ u.id = t.id /\ u.stack = t.stack /\ u.totalBet = t.totalBet
        /\ u.pot = t.pot /\ u.result = t.result /\ u.stage = t.stage
    BY DEF Sound, Table
  <2>6. FoldPlayerOnLeave(t, i, ranking) \in {u, Resolve(u, ranking)}
    BY <1>2 DEF FoldPlayerOnLeave
  <2> HIDE DEF u
  <2>7. Carried(t, u) /\ Carried(t, Resolve(u, ranking))
    BY <1>2, <2>4, <2>5, ResolveAfter DEF InHand
  <2> QED BY <2>6, <2>7
<1> QED BY <1>1, <1>2

LEMMA SitOutCarried ==
  ASSUME NEW t, Sound(t), Fresh(t), t.stage \in ActionStage, t.active \in Seat,
         NEW ranking \in [Seat -> Nat]
  PROVE  Carried(t, SitOut(t, ranking))
<1> DEFINE u == [t EXCEPT !.status[t.active] = "SITOUT"]
<1>1. t.hasActed \in [Seat -> BOOLEAN]
  BY DEF Sound, Table
<1>2. Sound([t EXCEPT !.status[t.active] = "SITOUT", !.hasActed = t.hasActed])
  BY <1>1, OutSound
<1>3. u = [t EXCEPT !.status[t.active] = "SITOUT", !.hasActed = t.hasActed]
  BY DEF Sound, Table
<1>4. Sound(u)
  BY <1>2, <1>3
<1>5. /\ u.id = t.id /\ u.stack = t.stack /\ u.totalBet = t.totalBet
      /\ u.pot = t.pot /\ u.result = t.result /\ u.stage = t.stage
  BY DEF Sound, Table
<1> HIDE DEF u
<1>6. Carried(t, u) /\ InHand(u) /\ Fresh(u)
  BY <1>5, UnpaidCarried DEF Sound, InHand, Fresh
<1>7. Carried(u, FoldSitOut(u, ranking)) /\ Sound(FoldSitOut(u, ranking))
  BY <1>4, <1>6, FoldSitOutCarried, FoldSitOutSound
<1>8. Carried(t, FoldSitOut(u, ranking))
  BY <1>4, <1>6, <1>7, CarriedOn DEF Sound
<1> QED BY <1>8 DEF SitOut, u

----------------------------------------------------------------------------
(* Moves and blinds *)

\* A move of the active player takes nothing from anybody else.
Moved(t, m) ==
  /\ m.id = t.id /\ m.stage = t.stage /\ m.result = t.result
  /\ TableChips(m) = TableChips(t) /\ Forfeited(m) = Forfeited(t)
  /\ \A i \in Seat \ {t.active} : m.stack[i] = t.stack[i]

\* m and won differ in nothing that counts.
LEMMA MovedAlike ==
  ASSUME NEW t, NEW won, Moved(t, won), NEW m,
         m.id = won.id, m.stage = won.stage, m.result = won.result,
         m.stack = won.stack, m.pot = won.pot, m.totalBet = won.totalBet
  PROVE  Moved(t, m)
BY DEF Moved, TableChips, Forfeited, SeatedBets

\* What goes from the stack to the pot counts as bet.
LEMMA PutInMoved ==
  ASSUME NEW t, t \in Table, t.active \in Seat, NEW x \in Int, PutIn(t, x) \in Table
  PROVE  Moved(t, PutIn(t, x))
<1> DEFINE a == t.active
           u == PutIn(t, x)
<1>1. /\ t.stack \in [Seat -> Nat] /\ t.totalBet \in [Seat -> Nat] /\ t.pot \in Nat
      /\ u.stack \in [Seat -> Nat] /\ u.totalBet \in [Seat -> Nat]
  BY DEF Table
<1> DEFINE stack == [t.stack EXCEPT ![a] = @ - x]
           totalBet == [t.totalBet EXCEPT ![a] = @ + x]
<1>2. /\ u.id = t.id /\ u.stage = t.stage /\ u.result = t.result /\ u.pot = t.pot + x
      /\ u.stack = stack /\ u.totalBet = totalBet
  BY DEF PutIn, Table
<1> HIDE DEF u
<1>3. a \in Seat /\ t.stack[a] \in Nat /\ t.totalBet[a] \in Nat
  BY <1>1
<1>4. u.stack[a] = t.stack[a] - x /\ u.totalBet[a] = t.totalBet[a] + x
  BY <1>1, <1>2
<1>5. \A j \in Seat \ {a} : u.stack[j] = t.stack[j]
  BY <1>1, <1>2
<1>6. \A j \in Seat \ {a} : u.totalBet[j] = t.totalBet[j]
  BY <1>1, <1>2
<1> HIDE DEF stack, totalBet, a
<1>7. Total(u.stack) = Total(t.stack) + u.stack[a] - t.stack[a]
  BY <1>1, <1>3, <1>5, SeatFinite, TotalUpdate
<1>8. Total(u.totalBet) = Total(t.totalBet) + u.totalBet[a] - t.totalBet[a]
  BY <1>1, <1>3, <1>6, SeatFinite, TotalUpdate
<1>9. Total(t.stack) \in Nat /\ Total(t.totalBet) \in Nat
  BY TableChipsType
<1>10. Total(u.stack) = Total(t.stack) - x /\ Total(u.totalBet) = Total(t.totalBet) + x
  BY <1>3, <1>4, <1>7, <1>8, <1>9
<1>11. TableChips(u) = TableChips(t) /\ Forfeited(u) = Forfeited(t)
  BY <1>1, <1>2, <1>9, <1>10 DEF TableChips, Forfeited, SeatedBets
<1>12. Moved(t, u)
  BY <1>2, <1>5, <1>11 DEF Moved, a
<1> QED BY <1>12 DEF u

LEMMA FoldMoved ==
  ASSUME NEW t, t \in Table
  PROVE  Moved(t, Fold(t)) /\ Moved(t, Check(t))
BY DEF Moved, Fold, Check, Table, TableChips, Forfeited, SeatedBets

LEMMA CallMoved ==
  ASSUME NEW t, Sound(t), t.active \in Seat, CanCall(t)
  PROVE  Moved(t, Call(t))
<1> DEFINE x == CallAmount(t)
           won == PutIn(t, x)
           u == Call(t)
<1>1. x \in Nat /\ x > 0 /\ x <= t.stack[t.active]
  BY DEF Sound, Table, CanCall, CallAmount, Least
<1> HIDE DEF x
<1>2. won \in Table
  BY <1>1, PayInSound DEF Sound
<1>3. Moved(t, won)
  BY <1>1, <1>2, PutInMoved DEF Sound
<1>4. u = won \/ u = [won EXCEPT !.calledAllIn = won.bet[t.active]]
  BY DEF Call, x
<1> HIDE DEF won, u
<1>5. /\ u.id = won.id /\ u.stage = won.stage /\ u.result = won.result
      /\ u.stack = won.stack /\ u.pot = won.pot /\ u.totalBet = won.totalBet
  BY <1>2, <1>4 DEF Table
<1>6. Moved(t, u)
  BY <1>3, <1>5, MovedAlike
<1> QED BY <1>6 DEF u

LEMMA RaiseMoved ==
  ASSUME NEW t, Sound(t), t.active \in Seat, NEW amount \in Nat, CanRaise(t, amount)
  PROVE  Moved(t, Raise(t, amount))
<1> DEFINE a == t.active
           x == Least(amount - t.bet[a], t.stack[a])
           won == PutIn(t, x)
           u == Raise(t, amount)
<1>1. x \in Nat /\ x > 0 /\ x <= t.stack[a]
  BY DEF Sound, Table, CanRaise, Least
<1> HIDE DEF x
<1>2. won \in Table
  BY <1>1, PayInSound DEF Sound
<1>3. Moved(t, won)
  BY <1>1, <1>2, PutInMoved DEF Sound
<1>4. u = ReopenAction([won EXCEPT !.minBet = amount - t.currentBet,
                            !.currentBet = won.bet[a], !.calledAllIn = NoAllIn])
  BY DEF Raise, x
<1> HIDE DEF won, u
<1>5. /\ u.id = won.id /\ u.stage = won.stage /\ u.result = won.result
      /\ u.stack = won.stack /\ u.pot = won.pot /\ u.totalBet = won.totalBet
  BY <1>2, <1>4 DEF Table, ReopenAction
<1>6. Moved(t, u)
  BY <1>3, <1>5, MovedAlike
<1> QED BY <1>6 DEF u

LEMMA AllInMoved ==
  ASSUME NEW t, Sound(t), t.active \in Seat, CanAllIn(t)
  PROVE  Moved(t, AllIn(t))
<1> DEFINE a == t.active
           won == PutIn(t, t.stack[a])
           u == AllIn(t)
<1>1. t.stack[a] \in Nat /\ t.stack[a] > 0
  BY DEF Sound, Table, CanAllIn
<1>2. won \in Table
  BY <1>1, PayInSound DEF Sound
<1>3. Moved(t, won)
  BY <1>1, <1>2, PutInMoved DEF Sound
<1>4. \/ u = ReopenAction([won EXCEPT !.minBet = won.bet[a] - t.currentBet,
                             !.currentBet = won.bet[a], !.calledAllIn = NoAllIn])
      \/ u = [won EXCEPT !.calledAllIn = IF @ = NoAllIn THEN won.bet[a] ELSE @]
  BY DEF AllIn
<1> HIDE DEF won, u
<1>5. /\ u.id = won.id /\ u.stage = won.stage /\ u.result = won.result
      /\ u.stack = won.stack /\ u.pot = won.pot /\ u.totalBet = won.totalBet
  BY <1>2, <1>4 DEF Table, ReopenAction
<1>6. Moved(t, u)
  BY <1>3, <1>5, MovedAlike
<1> QED BY <1>6 DEF u

LEMMA StraddleMoved ==
  ASSUME NEW t, Sound(t), t.active \in Seat, CanStraddle(t)
  PROVE  Moved(t, Straddle(t))
<1> DEFINE a == t.active
           extra == 2 * BigBlind - t.bet[a]
           won == PutIn(t, extra)
           u == Straddle(t)
<1>1. Sound(u)
  BY StraddleSound
<1>2. u = [ReopenAction([won EXCEPT !.currentBet = 2 * BigBlind, !.minBet = BigBlind,
             !.straddled = TRUE])
             EXCEPT !.active = NextActiveFrom([won EXCEPT !.currentBet = 2 * BigBlind,
                                 !.minBet = BigBlind, !.straddled = TRUE], a)]
  BY DEF Straddle
<1>3. /\ u.id = won.id /\ u.stage = won.stage /\ u.result = won.result
      /\ u.stack = won.stack /\ u.pot = won.pot /\ u.totalBet = won.totalBet
  BY <1>2 DEF ReopenAction, PutIn, Sound, Table
<1>4. extra \in Int
  BY BlindAssumption DEF Sound, Table
<1>5. won \in Table
  BY StraddlePutIn DEF Sound
<1> HIDE DEF extra
<1>6. Moved(t, won)
  BY <1>4, <1>5, PutInMoved DEF Sound
<1> HIDE DEF won, u
<1>7. Moved(t, u)
  BY <1>3, <1>6, MovedAlike
<1> QED BY <1>7 DEF u

\* The blinds come out of two stacks.
LEMMA StartHandChips ==
  ASSUME NEW t, Sound(t), t.pot = 0, Cardinality(Playable(t)) >= 2
  PROVE  LET u == StartHand(t) IN
         /\ TableChips(u) = TableChips(t)
         /\ u.id = t.id /\ u.result = NoResult /\ u.stage = "PREFLOP"
         /\ \A i \in Seat : t.stack[i] = 0 => u.stack[i] = 0
<1> DEFINE dealer == IF t.dealer \in Playable(t)
                     THEN t.dealer ELSE NextSeatedFrom(t, t.dealer)
           sb     == NextSeatedFrom(t, dealer)
           bb     == NextSeatedFrom(t, sb)
           blind  == [i \in Seat |-> IF i = bb THEN Least(BigBlind, t.stack[i])
                                     ELSE IF i = sb THEN Least(SmallBlind, t.stack[i])
                                     ELSE 0]
           stack  == [i \in Seat |-> t.stack[i] - blind[i]]
           u      == StartHand(t)
<1>1. /\ u.stack = stack /\ u.pot = blind[sb] + blind[bb]
      /\ u.id = t.id /\ u.result = NoResult /\ u.stage = "PREFLOP"
  BY DEF StartHand, Sound, Table
<1>2. dealer \in Seat
  BY NextSeatedType DEF Sound, Table
<1> HIDE DEF dealer
<1>3. Playable(t) \in SUBSET Seat /\ Playable(t) # {}
  BY FS_EmptySet DEF Playable, Occupied
<1>4. sb \in Playable(t)
  BY <1>2, <1>3, NextInType DEF NextSeatedFrom
<1> HIDE DEF sb
<1>5. bb \in Playable(t) /\ \A k \in Playable(t) : Ahead(sb, bb) <= Ahead(sb, k)
  BY <1>3, <1>4, NextInType DEF NextSeatedFrom
<1> HIDE DEF bb
<1>6. sb # bb
  <2>1. PICK k \in Playable(t) : k # sb
    <3>1. ~(Playable(t) \subseteq {sb})
      <4>1. IsFiniteSet({sb}) /\ Cardinality({sb}) = 1
        BY FS_Singleton
      <4> SUFFICES ASSUME Playable(t) \subseteq {sb} PROVE FALSE
        OBVIOUS
      <4>2. Cardinality(Playable(t)) <= 1 /\ Cardinality(Playable(t)) \in Nat
        BY <4>1, FS_Subset, FS_CardinalityType
      <4> QED BY <4>2
    <3> QED BY <3>1
  <2>2. Ahead(sb, k) < MaxPlayers /\ Ahead(sb, sb) = MaxPlayers
    BY <1>3, <1>4, <2>1, SeatAssumption DEF Ahead, Seat
  <2>3. Ahead(sb, k) \in Int
    BY <1>3, <1>4, SeatAssumption DEF Ahead, Seat
  <2> QED BY <1>5, <2>1, <2>2, <2>3, SeatAssumption
<1>7. t.stack \in [Seat -> Nat]
  BY DEF Sound, Table
<1>8. ASSUME NEW i \in Seat
      PROVE  blind[i] \in Nat /\ blind[i] <= t.stack[i]
  <2>1. t.stack[i] \in Nat /\ BigBlind \in Nat /\ SmallBlind \in Nat
    BY <1>7, BlindAssumption
  <2>2. blind[i] \in {Least(BigBlind, t.stack[i]), Least(SmallBlind, t.stack[i]), 0}
    OBVIOUS
  <2> HIDE DEF blind
  <2> QED BY <2>1, <2>2 DEF Least
<1>9. blind \in [Seat -> Nat] /\ \A i \in Seat \ {sb, bb} : blind[i] = 0
  BY <1>8
<1> HIDE DEF blind, u
<1>10. stack \in [Seat -> Nat] /\ \A i \in Seat : t.stack[i] = stack[i] + blind[i]
  BY <1>7, <1>8, <1>9
<1> HIDE DEF stack
<1>11. Total(t.stack) = Total(stack) + Total(blind)
  BY <1>7, <1>9, <1>10, SeatFinite, TotalSum
<1>12. sb \in Seat /\ bb \in Seat
  BY <1>3, <1>4, <1>5
<1>13. Total(blind) = blind[sb] + blind[bb]
  BY <1>6, <1>9, <1>12, TwoBlinds
<1>14. Total(stack) \in Nat /\ Total(blind) \in Nat
  BY <1>9, <1>10, SeatFinite, TotalType
<1>15. TableChips(u) = TableChips(t)
  BY <1>1, <1>11, <1>13, <1>14 DEF TableChips
<1>16. \A i \in Seat : t.stack[i] = 0 => stack[i] = 0
  BY <1>9, <1>10
<1> QED BY <1>1, <1>15, <1>16 DEF u

\* Between hands the pot is empty.
LEMMA ResetToWaitingChips ==
  ASSUME NEW t, t \in Table
  PROVE  LET u == ResetToWaiting(t) IN
         /\ u.stack = t.stack /\ u.id = t.id /\ u.pot = 0
         /\ u.active = NoSeat /\ u.stage = "WAITING"
BY DEF ResetToWaiting, Table

----------------------------------------------------------------------------
(* Which pot a chip lies in *)

\* The pot of chip k is the lowest level not below k; the last pot, if all are.
LEMMA PotOfChip ==
  ASSUME NEW L, L \subseteq Nat, IsFiniteSet(L), L # {}, NEW k \in Nat
  PROVE  /\ PotOf(L, k) \in L
         /\ \A l \in L : l >= k => PotOf(L, k) >= k /\ PotOf(L, k) <= l
         /\ (\A l \in L : l < k) => \A l \in L : PotOf(L, k) >= l
<1> DEFINE A == {l \in L : l >= k}
<1>1. CASE \E l \in L : l >= k
  <2>1. A \in SUBSET Nat /\ A # {}
    BY <1>1
  <2>2. First(A) \in A /\ \A l \in A : First(A) <= l
    <3> HIDE DEF A
    <3> QED BY <2>1, FirstType
  <2>3. PotOf(L, k) = First(A)
    BY <1>1 DEF PotOf
  <2>4. ~ \A l \in L : l < k
    BY <1>1
  <2> QED BY <2>2, <2>3, <2>4
<1>2. CASE ~ \E l \in L : l >= k
  <2>1. Last(L) \in L /\ \A l \in L : Last(L) >= l
    BY LastType
  <2>2. PotOf(L, k) = Last(L)
    BY <1>2 DEF PotOf
  <2> QED BY <1>2, <2>1, <2>2
<1> QED BY <1>1, <1>2

----------------------------------------------------------------------------
(* The chips up to a level *)

\* A full table.
Full(u) == u \in Table /\ Occupied(u) = Seat

\* The chips of everybody's contribution up to level n, those of them that lie in
\* pot l, and the chips between two levels.
UpTo(u, n)     == {c \in Chips(u.totalBet) : c[2] <= n}
InPot(u, l, n) == {c \in UpTo(u, n) : PotOf(OpenLevels(u), c[2]) = l}
Layer(u, n, m) == {c \in Chips(u.totalBet) : n < c[2] /\ c[2] <= m}

\* Those who have put in n or more.
Reaching(u, n) == {i \in Seat : u.totalBet[i] >= n}

\* The levels of pots up to n.
Passed(u, n) == {l \in OpenLevels(u) : l <= n}

\* n is where the loop is: at the start, or at somebody's contribution.
AtStep(u, n) == n = 0 \/ \E i \in Seat : u.totalBet[i] = n

\* The next step after n is m.
NextStep(u, n, m) ==
  /\ \E i \in Seat : u.totalBet[i] = m
  /\ n < m
  /\ \A i \in Seat : u.totalBet[i] <= n \/ u.totalBet[i] >= m

LEMMA ChipsSeated ==
  ASSUME NEW u, u \in Table
  PROVE  /\ IsFiniteSet(Chips(u.totalBet))
         /\ \A i \in Seat : u.totalBet[i] \in Nat
         /\ \A c \in Chips(u.totalBet) : /\ c[1] \in Seat /\ c[2] \in Nat \ {0}
                                         /\ c[2] <= u.totalBet[c[1]]
                                         /\ c = <<c[1], c[2]>>
         /\ \A i \in Seat, k \in Nat \ {0} :
              k <= u.totalBet[i] => <<i, k>> \in Chips(u.totalBet)
<1>1. u.totalBet \in [Seat -> Nat] /\ DOMAIN u.totalBet = Seat
  BY DEF Table
<1>2. IsFiniteSet(Chips(u.totalBet))
  BY <1>1, SeatFinite, ChipsFinite
<1>3. \A i \in Seat : u.totalBet[i] \in Nat
  BY <1>1
<1>4. ASSUME NEW c \in Chips(u.totalBet)
      PROVE  /\ c[1] \in Seat /\ c[2] \in Nat \ {0}
             /\ c[2] <= u.totalBet[c[1]] /\ c = <<c[1], c[2]>>
  <2>1. c[1] \in Seat /\ c[2] \in 1 .. u.totalBet[c[1]] /\ c = <<c[1], c[2]>>
    BY <1>1, ChipsOf
  <2> QED BY <1>3, <2>1
<1>5. ASSUME NEW i \in Seat, NEW k \in Nat \ {0}, k <= u.totalBet[i]
      PROVE  <<i, k>> \in Chips(u.totalBet)
  <2>1. k \in 1 .. u.totalBet[i]
    BY <1>3, <1>5
  <2> QED BY <1>1, <2>1, ChipsOf
<1> QED BY <1>2, <1>3, <1>4, <1>5

LEMMA OpenLevelsType ==
  ASSUME NEW u, Full(u)
  PROVE  /\ OpenLevels(u) \subseteq Nat /\ IsFiniteSet(OpenLevels(u))
         /\ \A l \in OpenLevels(u) : l \in Nat \ {0}
         /\ \A l : l \in OpenLevels(u) <=>
              /\ \E i \in Seat : u.totalBet[i] = l
              /\ l > 0
              /\ \E i \in NotFolded(u) : u.totalBet[i] >= l
<1>1. IsFiniteSet(OpenLevels(u))
  BY OpenLevelsFinite DEF Full
<1>2. \A l : l \in OpenLevels(u) <=>
              /\ \E i \in Seat : u.totalBet[i] = l
              /\ l > 0
              /\ \E i \in NotFolded(u) : u.totalBet[i] >= l
  BY DEF OpenLevels, Full
<1>3. \A i \in Seat : u.totalBet[i] \in Nat
  BY ChipsSeated DEF Full
<1> QED BY <1>1, <1>2, <1>3

\* Between two steps everybody who gets to the second pays the difference.
LEMMA LayerSize ==
  ASSUME NEW u, Full(u), NEW n \in Nat, NEW m \in Nat, NextStep(u, n, m)
  PROVE  /\ IsFiniteSet(Layer(u, n, m))
         /\ Cardinality(Layer(u, n, m)) = (m - n) * Cardinality(Reaching(u, m))
<1>1. Layer(u, n, m) = Reaching(u, m) \X ((n + 1) .. m)
  <2>1. ASSUME NEW c \in Layer(u, n, m)
        PROVE  c \in Reaching(u, m) \X ((n + 1) .. m)
    <3>1. /\ c[1] \in Seat /\ c[2] \in Nat /\ c[2] <= u.totalBet[c[1]]
          /\ c = <<c[1], c[2]>> /\ u.totalBet[c[1]] \in Nat /\ n < c[2] /\ c[2] <= m
      BY <2>1, ChipsSeated DEF Layer, Full
    <3>2. u.totalBet[c[1]] >= m /\ c[2] \in (n + 1) .. m
      BY <3>1 DEF NextStep
    <3> QED BY <3>1, <3>2 DEF Reaching
  <2>2. ASSUME NEW i \in Reaching(u, m), NEW k \in (n + 1) .. m
        PROVE  <<i, k>> \in Layer(u, n, m)
    <3>1. i \in Seat /\ u.totalBet[i] \in Nat /\ k \in Nat \ {0} /\ k <= u.totalBet[i]
      BY ChipsSeated DEF Reaching, Full
    <3>2. <<i, k>> \in Chips(u.totalBet)
      BY <3>1, ChipsSeated DEF Full
    <3> QED BY <3>2 DEF Layer
  <2> QED BY <2>1, <2>2
<1>2. IsFiniteSet(Reaching(u, m)) /\ Cardinality(Reaching(u, m)) \in Nat
  BY SeatFinite, FS_Subset, FS_CardinalityType DEF Reaching
<1>3. IsFiniteSet((n + 1) .. m) /\ Cardinality((n + 1) .. m) = m - n
  BY FS_Interval DEF NextStep
<1>4. /\ IsFiniteSet(Reaching(u, m) \X ((n + 1) .. m))
      /\ Cardinality(Reaching(u, m) \X ((n + 1) .. m)) = Cardinality(Reaching(u, m)) * (m - n)
  BY <1>2, <1>3, FS_Product
<1>5. m - n \in Int
  OBVIOUS
<1> HIDE DEF NextStep, Layer, Reaching
<1>6. Cardinality(Reaching(u, m)) * (m - n) = (m - n) * Cardinality(Reaching(u, m))
  BY <1>2, <1>5
<1> QED BY <1>1, <1>4, <1>6

\* The step to a level that a player still in has reached fills a pot of its own,
\* and no other.
LEMMA StepOpens ==
  ASSUME NEW u, Full(u), NEW n \in Nat, NEW m \in Nat, AtStep(u, n), NextStep(u, n, m),
         m \in OpenLevels(u)
  PROVE  /\ Passed(u, m) = Passed(u, n) \cup {m}
         /\ \A l \in Passed(u, n) : l < m
         /\ InPot(u, m, m) = Layer(u, n, m)
         /\ \A l \in Passed(u, n) : InPot(u, l, m) = InPot(u, l, n)
<1> DEFINE O == OpenLevels(u)
<1>1. /\ O \subseteq Nat /\ IsFiniteSet(O)
      /\ \A l : l \in O <=> /\ \E i \in Seat : u.totalBet[i] = l
                            /\ l > 0
                            /\ \E i \in NotFolded(u) : u.totalBet[i] >= l
  BY OpenLevelsType
<1>2. \A i \in Seat : u.totalBet[i] \in Nat
  BY ChipsSeated DEF Full
<1>3. \A l \in O : l <= n \/ l >= m
  BY <1>1 DEF NextStep
<1>4. Passed(u, m) = Passed(u, n) \cup {m} /\ \A l \in Passed(u, n) : l < m
  <2>1. n < m
    BY DEF NextStep
  <2> QED BY <1>1, <1>3, <2>1 DEF Passed
<1>5. n > 0 => n \in O
  <2>1. PICK i \in NotFolded(u) : u.totalBet[i] >= m
    BY <1>1
  <2>2. i \in Seat /\ n < m
    BY DEF NotFolded, Occupied, NextStep
  <2> QED BY <1>1, <1>2, <2>1, <2>2 DEF AtStep
<1>6. ASSUME NEW c \in Chips(u.totalBet), c[2] <= m
      PROVE  IF c[2] <= n THEN PotOf(O, c[2]) <= n ELSE PotOf(O, c[2]) = m
  <2>1. c[2] \in Nat \ {0}
    BY ChipsSeated DEF Full
  <2> HIDE DEF O
  <2>2. /\ PotOf(O, c[2]) \in O
        /\ \A l \in O : l >= c[2] => PotOf(O, c[2]) >= c[2] /\ PotOf(O, c[2]) <= l
    BY <1>1, <2>1, PotOfChip DEF O
  <2>3. CASE c[2] <= n
    BY <1>5, <2>1, <2>2, <2>3
  <2>4. CASE ~ (c[2] <= n)
    <3>1. PotOf(O, c[2]) >= c[2] /\ PotOf(O, c[2]) <= m
      BY <1>6, <2>2 DEF O
    <3> QED BY <1>1, <1>3, <2>1, <2>2, <2>4, <3>1
  <2> QED BY <2>3, <2>4
<1>7. \A c \in Chips(u.totalBet) : c[2] \in Nat
  BY ChipsSeated DEF Full
<1>8. n < m
  BY DEF NextStep
<1>9. InPot(u, m, m) = Layer(u, n, m)
  BY <1>6, <1>7, <1>8 DEF InPot, UpTo, Layer
<1>10. ASSUME NEW l \in Passed(u, n) PROVE InPot(u, l, m) = InPot(u, l, n)
  <2>1. l \in Nat /\ l <= n
    BY <1>1 DEF Passed
  <2> QED BY <1>6, <1>7, <1>8, <2>1 DEF InPot, UpTo
<1> QED BY <1>4, <1>9, <1>10

\* The step to a level that only players who folded have reached goes to the last
\* pot.
LEMMA StepStays ==
  ASSUME NEW u, Full(u), NEW n \in Nat, NEW m \in Nat, AtStep(u, n), NextStep(u, n, m),
         m \notin OpenLevels(u)
  PROVE  /\ Passed(u, m) = Passed(u, n) /\ Passed(u, n) = OpenLevels(u)
         /\ \A last \in OpenLevels(u) :
              (\A l \in OpenLevels(u) : l <= last) =>
                /\ InPot(u, last, m) = InPot(u, last, n) \cup Layer(u, n, m)
                /\ InPot(u, last, n) \cap Layer(u, n, m) = {}
                /\ \A l \in OpenLevels(u) \ {last} : InPot(u, l, m) = InPot(u, l, n)
<1> DEFINE O == OpenLevels(u)
<1>1. /\ O \subseteq Nat /\ IsFiniteSet(O)
      /\ \A l : l \in O <=> /\ \E i \in Seat : u.totalBet[i] = l
                            /\ l > 0
                            /\ \E i \in NotFolded(u) : u.totalBet[i] >= l
  BY OpenLevelsType
<1>2. \A i \in Seat : u.totalBet[i] \in Nat
  BY ChipsSeated DEF Full
<1>3. n < m /\ \E i \in Seat : u.totalBet[i] = m
  BY DEF NextStep
<1>4. \A l \in O : l <= n
  <2>1. \A i \in NotFolded(u) : u.totalBet[i] < m
    BY <1>1, <1>2, <1>3 DEF NotFolded, Occupied
  <2>2. \A l \in O : l <= n \/ l >= m
    BY <1>1 DEF NextStep
  <2>3. ASSUME NEW l \in O PROVE l <= n
    <3>1. PICK i \in NotFolded(u) : u.totalBet[i] >= l
      BY <1>1
    <3>2. i \in Seat /\ u.totalBet[i] \in Nat /\ l \in Nat
      BY <1>1, <1>2 DEF NotFolded, Occupied
    <3>3. l < m
      BY <2>1, <3>1, <3>2
    <3> QED BY <2>2, <3>2, <3>3
  <2> QED BY <2>3
<1>5. Passed(u, m) = Passed(u, n) /\ Passed(u, n) = O
  BY <1>1, <1>3, <1>4 DEF Passed
<1>6. ASSUME NEW last \in O, \A l \in O : l <= last
      PROVE  /\ InPot(u, last, m) = InPot(u, last, n) \cup Layer(u, n, m)
             /\ InPot(u, last, n) \cap Layer(u, n, m) = {}
             /\ \A l \in O \ {last} : InPot(u, l, m) = InPot(u, l, n)
  <2>1. \A c \in Chips(u.totalBet) : c[2] \in Nat
    BY ChipsSeated DEF Full
  <2>2. ASSUME NEW c \in Chips(u.totalBet), c[2] > n
        PROVE  PotOf(O, c[2]) = last
    <3>1. \A l \in O : l < c[2]
      BY <1>1, <1>4, <2>1, <2>2
    <3> HIDE DEF O
    <3>2. PotOf(O, c[2]) \in O /\ \A l \in O : PotOf(O, c[2]) >= l
      BY <1>1, <1>6, <2>1, <3>1, PotOfChip
    <3>3. PotOf(O, c[2]) \in Nat /\ last \in Nat
      BY <1>1, <3>2
    <3>4. PotOf(O, c[2]) >= last /\ PotOf(O, c[2]) <= last
      BY <1>6, <3>2
    <3> QED BY <3>3, <3>4
  <2> QED BY <1>3, <2>1, <2>2 DEF InPot, UpTo, Layer
<1> QED BY <1>5, <1>6

----------------------------------------------------------------------------
(* The pots built so far *)

PotRecord == [amount : Nat, eligible : SUBSET Seat]

\* The levels passed, from the lowest to the highest, are those of the pots.
Ladder(u, n, lev, len) ==
  /\ lev \in [1 .. len -> Passed(u, n)]
  /\ \A j, k \in 1 .. len : j < k => lev[j] < lev[k]
  /\ \A l \in Passed(u, n) : \E k \in 1 .. len : lev[k] = l

\* Pot k is for those who have reached its level, and holds the chips that lie in
\* it up to level n.
Holds(u, n, lev, ps) ==
  /\ Ladder(u, n, lev, Len(ps))
  /\ \A k \in 1 .. Len(ps) : /\ ps[k].eligible = PotEligible(u, lev[k])
                             /\ ps[k].amount = Cardinality(InPot(u, lev[k], n))

Built(u, n, ps) == \E lev : Holds(u, n, lev, ps)

LEMMA InPotFinite ==
  ASSUME NEW u, Full(u), NEW l, NEW n
  PROVE  IsFiniteSet(InPot(u, l, n)) /\ Cardinality(InPot(u, l, n)) \in Nat
<1>1. IsFiniteSet(Chips(u.totalBet))
  BY ChipsSeated DEF Full
<1>2. InPot(u, l, n) \in SUBSET Chips(u.totalBet)
  BY DEF InPot, UpTo
<1> QED BY <1>1, <1>2, FS_Subset, FS_CardinalityType

\* A pot of its own for a level somebody still in has reached.
LEMMA OpenPot ==
  ASSUME NEW u, Full(u), NEW n \in Nat, NEW m \in Nat, AtStep(u, n), NextStep(u, n, m),
         NEW ps \in Seq(PotRecord), Built(u, n, ps), m \in OpenLevels(u),
         NEW pot, pot = [amount |-> (m - n) * Cardinality(Reaching(u, m)),
                         eligible |-> PotEligible(u, m)]
  PROVE  Append(ps, pot) \in Seq(PotRecord) /\ Built(u, m, Append(ps, pot))
<1>1. PICK lev : Holds(u, n, lev, ps)
  BY DEF Built
<1>2. /\ Passed(u, m) = Passed(u, n) \cup {m}
      /\ \A l \in Passed(u, n) : l < m
      /\ InPot(u, m, m) = Layer(u, n, m)
      /\ \A l \in Passed(u, n) : InPot(u, l, m) = InPot(u, l, n)
  BY StepOpens
<1>3. Cardinality(Layer(u, n, m)) = (m - n) * Cardinality(Reaching(u, m))
  BY LayerSize
<1>4. pot.eligible = PotEligible(u, m) /\ pot.amount = Cardinality(InPot(u, m, m))
  BY <1>2, <1>3
<1>5. pot \in PotRecord
  <2>1. pot.amount \in Nat
    BY <1>4, InPotFinite
  <2>2. pot.eligible \in SUBSET Seat
    BY <1>4 DEF PotEligible, NotFolded, Occupied
  <2> QED BY <2>1, <2>2 DEF PotRecord
<1> DEFINE len == Len(ps)
           qs == Append(ps, pot)
           new == [k \in 1 .. len + 1 |-> IF k = len + 1 THEN m ELSE lev[k]]
<1>6. len \in Nat /\ Len(qs) = len + 1 /\ qs \in Seq(PotRecord)
      /\ qs[len + 1] = pot /\ \A k \in 1 .. len : qs[k] = ps[k]
  BY <1>5
<1> HIDE DEF len, qs
<1>7. /\ lev \in [1 .. len -> Passed(u, n)]
      /\ \A j, k \in 1 .. len : j < k => lev[j] < lev[k]
      /\ \A l \in Passed(u, n) : \E k \in 1 .. len : lev[k] = l
      /\ \A k \in 1 .. len : /\ ps[k].eligible = PotEligible(u, lev[k])
                             /\ ps[k].amount = Cardinality(InPot(u, lev[k], n))
  BY <1>1 DEF Holds, Ladder, len
<1>8. new[len + 1] = m /\ \A k \in 1 .. len : new[k] = lev[k] /\ lev[k] \in Passed(u, n)
  BY <1>6, <1>7
<1>9. \A k \in 1 .. len + 1 : k = len + 1 \/ k \in 1 .. len
  BY <1>6
<1>10. Ladder(u, m, new, len + 1)
  <2>1. new \in [1 .. len + 1 -> Passed(u, m)]
    <3>1. \A k \in 1 .. len + 1 : (IF k = len + 1 THEN m ELSE lev[k]) \in Passed(u, m)
      BY <1>2, <1>8, <1>9
    <3> QED BY <3>1
  <2>2. ASSUME NEW j \in 1 .. len + 1, NEW k \in 1 .. len + 1, j < k
        PROVE  new[j] < new[k]
    <3>1. j \in 1 .. len
      BY <1>6, <2>2
    <3>2. CASE k = len + 1
      BY <1>2, <1>8, <3>1, <3>2
    <3>3. CASE k \in 1 .. len
      BY <1>7, <1>8, <2>2, <3>1, <3>3
    <3> QED BY <1>9, <3>2, <3>3
  <2>3. ASSUME NEW l \in Passed(u, m) PROVE \E k \in 1 .. len + 1 : new[k] = l
    <3>1. CASE l = m
      <4>1. len + 1 \in 1 .. len + 1
        BY <1>6
      <4> HIDE DEF new
      <4> QED BY <1>8, <3>1, <4>1
    <3>2. CASE l \in Passed(u, n)
      <4>1. PICK k \in 1 .. len : lev[k] = l
        BY <1>7, <3>2
      <4>2. k \in 1 .. len + 1 /\ new[k] = l
        BY <1>6, <1>8, <4>1
      <4> HIDE DEF new
      <4> QED BY <4>2
    <3> QED BY <1>2, <3>1, <3>2
  <2> HIDE DEF new
  <2> QED BY <2>1, <2>2, <2>3 DEF Ladder
<1> HIDE DEF new
<1>11. ASSUME NEW k \in 1 .. len + 1
       PROVE  /\ qs[k].eligible = PotEligible(u, new[k])
              /\ qs[k].amount = Cardinality(InPot(u, new[k], m))
  <2>1. CASE k = len + 1
    BY <1>4, <1>6, <1>8, <2>1
  <2>2. CASE k \in 1 .. len
    <3>1. qs[k] = ps[k] /\ new[k] = lev[k] /\ lev[k] \in Passed(u, n)
      BY <1>6, <1>8, <2>2
    <3>2. InPot(u, new[k], m) = InPot(u, lev[k], n)
      BY <1>2, <3>1
    <3>3. /\ ps[k].eligible = PotEligible(u, lev[k])
          /\ ps[k].amount = Cardinality(InPot(u, lev[k], n))
      BY <1>7, <2>2
    <3> QED BY <3>1, <3>2, <3>3
  <2> QED BY <1>9, <2>1, <2>2
<1>12. Holds(u, m, new, qs)
  BY <1>6, <1>10, <1>11 DEF Holds
<1> QED BY <1>6, <1>12 DEF Built, qs

\* A level nobody still in has reached goes to the last pot.
LEMMA FillPot ==
  ASSUME NEW u, Full(u), NEW n \in Nat, NEW m \in Nat, AtStep(u, n), NextStep(u, n, m),
         NEW ps \in Seq(PotRecord), Built(u, n, ps), m \notin OpenLevels(u), ps # <<>>,
         NEW qs, qs = [ps EXCEPT ![Len(ps)].amount =
                         @ + (m - n) * Cardinality(Reaching(u, m))]
  PROVE  qs \in Seq(PotRecord) /\ Built(u, m, qs)
<1>1. PICK lev : Holds(u, n, lev, ps)
  BY DEF Built
<1> DEFINE len == Len(ps)
           x == (m - n) * Cardinality(Reaching(u, m))
<1>2. len \in Nat \ {0} /\ len \in 1 .. len /\ ps \in [1 .. len -> PotRecord]
  <2>1. len \in Nat /\ ps \in [1 .. len -> PotRecord] /\ len # 0
    OBVIOUS
  <2> QED BY <2>1
<1>3. IsFiniteSet(Layer(u, n, m)) /\ Cardinality(Layer(u, n, m)) = x
  BY LayerSize
<1>4. x \in Nat
  BY <1>3, FS_CardinalityType
<1> HIDE DEF x
<1>5. /\ qs = [ps EXCEPT ![len].amount = @ + x]
      /\ ps[len] \in PotRecord
  BY <1>2 DEF x
<1> HIDE DEF len
<1>6. PICK pot : pot = [ps[len] EXCEPT !.amount = @ + x]
  OBVIOUS
<1>7. /\ pot \in PotRecord /\ pot.amount = ps[len].amount + x
      /\ pot.eligible = ps[len].eligible
  <2>1. ps[len].amount \in Nat
    BY <1>5 DEF PotRecord
  <2>2. PICK a \in Nat : a = ps[len].amount + x
    BY <1>4, <2>1
  <2>3. pot = [ps[len] EXCEPT !.amount = a]
    BY <1>6, <2>2
  <2> QED BY <1>5, <2>2, <2>3 DEF PotRecord
<1>8. qs = [ps EXCEPT ![len] = pot]
  BY <1>5, <1>6
<1>9. /\ qs \in [1 .. len -> PotRecord] /\ qs[len] = pot
      /\ \A k \in 1 .. len : k # len => qs[k] = ps[k]
  BY <1>2, <1>7, <1>8
<1>10. qs \in Seq(PotRecord) /\ Len(qs) = len
  <2>1. \A f \in [1 .. len -> PotRecord] : f \in Seq(PotRecord) /\ Len(f) = len
    BY <1>2
  <2> QED BY <1>9, <2>1
<1>11. /\ lev \in [1 .. len -> Passed(u, n)]
       /\ \A j, k \in 1 .. len : j < k => lev[j] < lev[k]
       /\ \A l \in Passed(u, n) : \E k \in 1 .. len : lev[k] = l
       /\ \A k \in 1 .. len : /\ ps[k].eligible = PotEligible(u, lev[k])
                              /\ ps[k].amount = Cardinality(InPot(u, lev[k], n))
  BY <1>1 DEF Holds, Ladder, len
<1>12. /\ Passed(u, m) = Passed(u, n) /\ Passed(u, n) = OpenLevels(u)
       /\ \A last \in OpenLevels(u) :
            (\A l \in OpenLevels(u) : l <= last) =>
              /\ InPot(u, last, m) = InPot(u, last, n) \cup Layer(u, n, m)
              /\ InPot(u, last, n) \cap Layer(u, n, m) = {}
              /\ \A l \in OpenLevels(u) \ {last} : InPot(u, l, m) = InPot(u, l, n)
  BY StepStays
<1>13. OpenLevels(u) \subseteq Nat
  BY OpenLevelsType
<1>14. PICK last \in OpenLevels(u) : last = lev[len]
  BY <1>2, <1>11, <1>12
<1>15. \A l \in OpenLevels(u) : l <= last
  <2>1. ASSUME NEW l \in OpenLevels(u) PROVE l <= last
    <3>1. PICK k \in 1 .. len : lev[k] = l
      BY <1>11, <1>12
    <3>2. k = len \/ k < len
      BY <1>2
    <3>3. l = last \/ l < last
      BY <1>2, <1>11, <1>14, <3>1, <3>2
    <3> QED BY <1>13, <3>3
  <2> QED BY <2>1
<1>16. \A k \in 1 .. len : k # len => lev[k] \in OpenLevels(u) \ {last}
  <2>1. ASSUME NEW k \in 1 .. len, k # len PROVE lev[k] \in OpenLevels(u) \ {last}
    <3>1. k < len
      BY <1>2, <2>1
    <3>2. lev[k] < lev[len] /\ lev[k] \in OpenLevels(u)
      BY <1>2, <1>11, <1>12, <3>1
    <3> QED BY <1>13, <1>14, <3>2
  <2> QED BY <2>1
<1>17. Cardinality(InPot(u, last, m)) = Cardinality(InPot(u, last, n)) + x
  <2>1. IsFiniteSet(InPot(u, last, n)) /\ Cardinality(InPot(u, last, n)) \in Nat
    BY InPotFinite
  <2>2. Cardinality(InPot(u, last, n) \cap Layer(u, n, m)) = 0
    BY <1>12, <1>15, FS_EmptySet
  <2>3. Cardinality(InPot(u, last, n) \cup Layer(u, n, m)) =
          Cardinality(InPot(u, last, n)) + Cardinality(Layer(u, n, m))
            - Cardinality(InPot(u, last, n) \cap Layer(u, n, m))
    BY <1>3, <2>1, FS_Union
  <2>4. InPot(u, last, m) = InPot(u, last, n) \cup Layer(u, n, m)
    BY <1>12, <1>15
  <2> QED BY <1>3, <1>4, <2>1, <2>2, <2>3, <2>4
<1>18. ASSUME NEW k \in 1 .. len
       PROVE  /\ qs[k].eligible = PotEligible(u, lev[k])
              /\ qs[k].amount = Cardinality(InPot(u, lev[k], m))
  <2>1. CASE k = len
    BY <1>2, <1>7, <1>9, <1>11, <1>14, <1>17, <2>1
  <2>2. CASE k # len
    <3>1. InPot(u, lev[k], m) = InPot(u, lev[k], n)
      BY <1>12, <1>15, <1>16, <2>2
    <3> QED BY <1>9, <1>11, <2>2, <3>1
  <2> QED BY <2>1, <2>2
<1>19. Ladder(u, m, lev, len)
  BY <1>11, <1>12 DEF Ladder
<1>20. Holds(u, m, lev, qs)
  BY <1>10, <1>18, <1>19 DEF Holds
<1> QED BY <1>10, <1>20 DEF Built

\* Without a pot there is none to go to: nobody still in has put in anything.
LEMMA SkipPot ==
  ASSUME NEW u, Full(u), NEW n \in Nat, NEW m \in Nat, AtStep(u, n), NextStep(u, n, m),
         NEW ps, ps = <<>>, Built(u, n, ps), m \notin OpenLevels(u)
  PROVE  Built(u, m, ps)
<1>1. PICK lev : Holds(u, n, lev, ps)
  BY DEF Built
<1>2. Passed(u, m) = Passed(u, n)
  BY StepStays
<1>3. Len(ps) = 0 /\ 1 .. Len(ps) = {}
  OBVIOUS
<1>4. Holds(u, m, lev, ps)
  BY <1>1, <1>2, <1>3 DEF Holds, Ladder
<1> QED BY <1>4 DEF Built

----------------------------------------------------------------------------
(* What the pots hold together *)

\* Chips up to where the loop is lie in pots whose levels are passed.
LEMMA PotPassed ==
  ASSUME NEW u, Full(u), NEW n \in Nat, AtStep(u, n), OpenLevels(u) # {},
         NEW c \in UpTo(u, n)
  PROVE  PotOf(OpenLevels(u), c[2]) \in Passed(u, n)
<1> DEFINE O == OpenLevels(u)
<1>1. /\ O \subseteq Nat /\ IsFiniteSet(O)
      /\ \A l : l \in O <=> /\ \E i \in Seat : u.totalBet[i] = l
                            /\ l > 0
                            /\ \E i \in NotFolded(u) : u.totalBet[i] >= l
  BY OpenLevelsType
<1>2. c[2] \in Nat \ {0} /\ c[2] <= n
  BY ChipsSeated DEF Full, UpTo
<1>3. (\E l \in O : l > n) => n \in O
  <2>1. ASSUME NEW l \in O, l > n PROVE n \in O
    <3>1. PICK i \in NotFolded(u) : u.totalBet[i] >= l
      BY <1>1
    <3>2. u.totalBet[i] \in Nat /\ l \in Nat
      BY <1>1, ChipsSeated DEF Full, NotFolded, Occupied
    <3>3. u.totalBet[i] >= n
      BY <2>1, <3>1, <3>2
    <3>4. n > 0 /\ \E j \in Seat : u.totalBet[j] = n
      BY <1>2 DEF AtStep
    <3> QED BY <1>1, <3>1, <3>3, <3>4
  <2> QED BY <2>1
<1> HIDE DEF O
<1>4. /\ PotOf(O, c[2]) \in O
      /\ \A l \in O : l >= c[2] => PotOf(O, c[2]) >= c[2] /\ PotOf(O, c[2]) <= l
  BY <1>1, <1>2, PotOfChip DEF O
<1>5. PotOf(O, c[2]) \in Nat
  BY <1>1, <1>4
<1>6. PotOf(O, c[2]) <= n
  <2>1. CASE n \in O
    BY <1>2, <1>4, <2>1
  <2>2. CASE n \notin O
    BY <1>3, <1>4, <1>5, <2>2
  <2> QED BY <2>1, <2>2
<1> QED BY <1>4, <1>6 DEF Passed, O

\* The levels of different pots differ.
LEMMA LadderInjective ==
  ASSUME NEW u, Full(u), NEW n, NEW lev, NEW len \in Nat, Ladder(u, n, lev, len)
  PROVE  \A j, k \in 1 .. len : lev[j] = lev[k] => j = k
<1>1. ASSUME NEW j \in 1 .. len, NEW k \in 1 .. len, lev[j] = lev[k] PROVE j = k
  <2>1. lev[j] \in Nat /\ lev[k] \in Nat
    BY OpenLevelsType DEF Ladder, Passed
  <2>2. ~ (j < k) /\ ~ (k < j)
    BY <1>1, <2>1 DEF Ladder
  <2> QED BY <2>2
<1> QED BY <1>1

\* The contributions up to n, as far as they go.
LEMMA UpToTotal ==
  ASSUME NEW u, Full(u), NEW n \in Nat
  PROVE  /\ IsFiniteSet(UpTo(u, n))
         /\ Cardinality(UpTo(u, n)) = Total([i \in Seat |-> Least(u.totalBet[i], n)])
<1> DEFINE f == [i \in Seat |-> Least(u.totalBet[i], n)]
<1>1. \A i \in Seat : u.totalBet[i] \in Nat
  BY ChipsSeated DEF Full
<1>2. DOMAIN f = Seat /\ \A i \in Seat : f[i] = Least(u.totalBet[i], n)
  OBVIOUS
<1> HIDE DEF f
<1>3. ASSUME NEW c \in Chips(f) PROVE c \in UpTo(u, n)
  <2>1. c[1] \in Seat /\ c[2] \in 1 .. Least(u.totalBet[c[1]], n) /\ c = <<c[1], c[2]>>
    BY <1>2, <1>3, ChipsOf
  <2>2. c[2] \in Nat \ {0} /\ c[2] <= u.totalBet[c[1]] /\ c[2] <= n
    BY <1>1, <2>1 DEF Least
  <2>3. <<c[1], c[2]>> \in Chips(u.totalBet)
    BY <2>1, <2>2, ChipsSeated DEF Full
  <2> QED BY <2>1, <2>2, <2>3 DEF UpTo
<1>4. ASSUME NEW c \in UpTo(u, n) PROVE c \in Chips(f)
  <2>1. /\ c[1] \in Seat /\ c[2] \in Nat \ {0} /\ c[2] <= u.totalBet[c[1]]
        /\ c = <<c[1], c[2]>> /\ c[2] <= n
    BY ChipsSeated DEF Full, UpTo
  <2>2. c[2] \in 1 .. Least(u.totalBet[c[1]], n)
    BY <1>1, <2>1 DEF Least
  <2> QED BY <1>2, <2>1, <2>2, ChipsOf
<1>5. UpTo(u, n) = Chips(f)
  BY <1>3, <1>4
<1>6. IsFiniteSet(UpTo(u, n))
  BY ChipsSeated, FS_Subset DEF Full, UpTo
<1> QED BY <1>5, <1>6 DEF Total, f

\* The pots built so far hold everybody's contribution up to where the loop is.
LEMMA BuiltTotal ==
  ASSUME NEW u, Full(u), NEW n \in Nat, AtStep(u, n), OpenLevels(u) # {},
         NEW ps \in Seq(PotRecord), Built(u, n, ps)
  PROVE  Total([k \in 1 .. Len(ps) |-> ps[k].amount]) =
           Total([i \in Seat |-> Least(u.totalBet[i], n)])
<1>1. PICK lev : Holds(u, n, lev, ps)
  BY DEF Built
<1>2. PICK len \in Nat : len = Len(ps)
  OBVIOUS
<1>3. /\ Ladder(u, n, lev, len)
      /\ \A k \in 1 .. len : ps[k].amount = Cardinality(InPot(u, lev[k], n))
  BY <1>1, <1>2 DEF Holds
<1>4. \A j, k \in 1 .. len : lev[j] = lev[k] => j = k
  BY <1>3, LadderInjective
<1> DEFINE C == UpTo(u, n)
           O == OpenLevels(u)
           q == [c \in C |-> CHOOSE k \in 1 .. len : lev[k] = PotOf(O, c[2])]
           g == [k \in 1 .. len |-> ps[k].amount]
<1>5. ASSUME NEW c \in C PROVE q[c] \in 1 .. len /\ lev[q[c]] = PotOf(O, c[2])
  <2>1. PotOf(O, c[2]) \in Passed(u, n)
    BY PotPassed
  <2>2. \E k \in 1 .. len : lev[k] = PotOf(O, c[2])
    BY <1>3, <2>1 DEF Ladder
  <2> HIDE DEF O, C
  <2> QED BY <2>2
<1>6. q \in [C -> 1 .. len]
  <2>1. \A c \in C : (CHOOSE k \in 1 .. len : lev[k] = PotOf(O, c[2])) \in 1 .. len
    BY <1>5
  <2> HIDE DEF O, C
  <2> QED BY <2>1
<1> HIDE DEF q
<1>7. ASSUME NEW k \in 1 .. len PROVE g[k] = Cardinality(Group(C, q, k))
  <2>1. Group(C, q, k) = {c \in C : PotOf(O, c[2]) = lev[k]}
    BY <1>4, <1>5 DEF Group
  <2>2. Group(C, q, k) = InPot(u, lev[k], n)
    BY <2>1 DEF InPot
  <2> QED BY <1>3, <2>2
<1>8. g \in [1 .. len -> Nat]
  <2>1. \A k \in 1 .. len : ps[k].amount \in Nat
    BY <1>3, InPotFinite
  <2> QED BY <2>1
<1>9. IsFiniteSet(C) /\ Cardinality(C) = Total([i \in Seat |-> Least(u.totalBet[i], n)])
  BY UpToTotal
<1>10. IsFiniteSet(1 .. len)
  BY FS_Interval
<1> HIDE DEF C, g, O
<1>11. Cardinality(C) = Total(g)
  BY <1>6, <1>7, <1>8, <1>9, <1>10, CountGroups
<1> QED BY <1>2, <1>9, <1>11 DEF g

----------------------------------------------------------------------------
(* Sharing the pots out *)

\* lev gives the owners S the names T, and the amounts of f become those of g.
Renames(S, T, f, g, lev) ==
  /\ lev \in [S -> T]
  /\ \A j, k \in S : lev[j] = lev[k] => j = k
  /\ \A l \in T : \E k \in S : lev[k] = l
  /\ \A k \in S : f[k] = g[lev[k]]

\* A sum does not depend on the names of the owners.
LEMMA TotalRenamed ==
  ASSUME NEW S, NEW T, IsFiniteSet(S), NEW f \in [S -> Nat], NEW g \in [T -> Nat],
         NEW lev, Renames(S, T, f, g, lev)
  PROVE  Total(f) = Total(g)
<1>0. /\ lev \in [S -> T]
      /\ \A j, k \in S : lev[j] = lev[k] => j = k
      /\ \A l \in T : \E k \in S : lev[k] = l
      /\ \A k \in S : f[k] = g[lev[k]]
  BY DEF Renames
<1> DEFINE h == [c \in Chips(f) |-> <<lev[c[1]], c[2]>>]
<1>1. DOMAIN f = S /\ DOMAIN g = T
  OBVIOUS
<1>2. \A c \in Chips(f) : c[1] \in S /\ c[2] \in 1 .. f[c[1]] /\ c = <<c[1], c[2]>>
  BY <1>1, ChipsOf
<1>3. \A c \in Chips(g) : c[1] \in T /\ c[2] \in 1 .. g[c[1]] /\ c = <<c[1], c[2]>>
  BY <1>1, ChipsOf
<1>4. \A k \in S : \A j \in 1 .. f[k] : <<k, j>> \in Chips(f)
  BY <1>1, ChipsOf
<1>5. \A l \in T : \A j \in 1 .. g[l] : <<l, j>> \in Chips(g)
  BY <1>1, ChipsOf
<1>6. h \in [Chips(f) -> Chips(g)]
  <2>1. ASSUME NEW c \in Chips(f) PROVE <<lev[c[1]], c[2]>> \in Chips(g)
    <3>1. c[1] \in S /\ c[2] \in 1 .. g[lev[c[1]]] /\ lev[c[1]] \in T
      BY <1>0, <1>2
    <3> QED BY <1>5, <3>1
  <2> QED BY <2>1
<1>7. ASSUME NEW c \in Chips(f), NEW d \in Chips(f), h[c] = h[d] PROVE c = d
  <2>1. lev[c[1]] = lev[d[1]] /\ c[2] = d[2]
    BY <1>7
  <2> QED BY <1>0, <1>2, <2>1
<1>8. ASSUME NEW x \in Chips(g) PROVE \E c \in Chips(f) : h[c] = x
  <2>1. x[1] \in T /\ x[2] \in 1 .. g[x[1]] /\ x = <<x[1], x[2]>>
    BY <1>3
  <2>2. PICK k \in S : lev[k] = x[1]
    BY <1>0, <2>1
  <2>3. <<k, x[2]>> \in Chips(f)
    BY <1>0, <1>4, <2>1, <2>2
  <2>4. h[<<k, x[2]>>] = x
    BY <2>1, <2>2, <2>3
  <2> QED BY <2>3, <2>4
<1>9. IsFiniteSet(Chips(f))
  BY ChipsFinite
<1> HIDE DEF h
<1>10. Cardinality(Chips(g)) = Cardinality(Chips(f))
  BY <1>6, <1>7, <1>8, <1>9, SameCount
<1> QED BY <1>10 DEF Total

\* Of two heaps the one that has nowhere more has no more together.
LEMMA TotalMonotone ==
  ASSUME NEW S, IsFiniteSet(S), NEW f \in [S -> Nat], NEW g \in [S -> Nat],
         \A i \in S : f[i] <= g[i]
  PROVE  Total(f) <= Total(g)
<1>1. DOMAIN f = S /\ DOMAIN g = S
  OBVIOUS
<1>2. ASSUME NEW c \in Chips(f) PROVE c \in Chips(g)
  <2>1. c[1] \in S /\ c[2] \in 1 .. f[c[1]] /\ c = <<c[1], c[2]>>
    BY <1>1, ChipsOf
  <2>2. f[c[1]] \in Nat /\ g[c[1]] \in Nat /\ f[c[1]] <= g[c[1]]
    BY <2>1
  <2>3. c[2] \in 1 .. g[c[1]]
    BY <2>1, <2>2
  <2> QED BY <1>1, <2>1, <2>3, ChipsOf
<1>3. IsFiniteSet(Chips(g))
  BY ChipsFinite
<1>4. Chips(f) \in SUBSET Chips(g)
  BY <1>2
<1> QED BY <1>3, <1>4, FS_Subset DEF Total

\* The share of a pot that is for those at a level, and holds what lies in its pot,
\* is the share of TableEngine.
LEMMA ShareIsPotShare ==
  ASSUME NEW u, u \in Table, NEW l \in OpenLevels(u), rank \in [Seat -> Nat],
         NEW pot, pot.eligible = PotEligible(u, l), pot.amount = PotAmount(u, l),
         NEW i \in Seat
  PROVE  Share(pot)[i] = PotShare(u, l, rank, i)
<1> DEFINE W == PotWinners(u, l, rank)
           a == PotAmount(u, l)
           n == Cardinality(W)
           s == a \div n
<1>1. Winners(pot.eligible) = W
  BY DEF Winners, PotWinners
<1>2. W \in SUBSET Seat /\ W # {}
  BY PotHasWinner
<1>3. n \in Nat \ {0}
  BY <1>2, SeatFinite, FS_Subset, FS_CardinalityType, FS_EmptySet
<1>4. a \in Nat
  BY PotAmountType
<1>5. s \in Nat
  <2> HIDE DEF a, n
  <2> QED BY <1>3, <1>4, ShareBound
<1>6. s + (a - s * n) = a - s * (n - 1)
  <2> HIDE DEF s, a, n
  <2>1. s * (n - 1) = s * n - s /\ s * n \in Int
    BY <1>3, <1>5
  <2> QED BY <1>4, <1>5, <2>1
<1>7. Share(pot)[i] = IF i \notin W THEN 0
                      ELSE IF i = First(W) THEN s + (a - s * n) ELSE s
  BY <1>1 DEF Share
<1>8. PotShare(u, l, rank, i) = IF i \notin W THEN 0
                                ELSE IF i = First(W) THEN a - s * (n - 1) ELSE s
  BY DEF PotShare
<1> QED BY <1>6, <1>7, <1>8

\* One owner more.
LEMMA TotalNext ==
  ASSUME NEW n \in Nat, NEW f \in [1 .. n + 1 -> Nat], NEW g \in [1 .. n -> Nat],
         \A k \in 1 .. n : f[k] = g[k]
  PROVE  Total(f) = Total(g) + f[n + 1]
<1>1. n + 1 \in 1 .. n + 1 /\ IsFiniteSet(1 .. n + 1)
  BY FS_Interval
<1>2. DOMAIN f = 1 .. n + 1 /\ DOMAIN g = 1 .. n
  OBVIOUS
<1>3. ASSUME NEW c \in Chips(g) PROVE c \in Others(f, n + 1)
  <2>1. c[1] \in 1 .. n /\ c[2] \in 1 .. g[c[1]] /\ c = <<c[1], c[2]>>
    BY <1>2, ChipsOf
  <2>2. c[1] \in 1 .. n + 1 /\ c[1] # n + 1 /\ c[2] \in 1 .. f[c[1]]
    BY <2>1
  <2>3. <<c[1], c[2]>> \in Chips(f)
    BY <1>2, <2>2, ChipsOf
  <2> QED BY <2>1, <2>2, <2>3 DEF Others
<1>4. ASSUME NEW c \in Others(f, n + 1) PROVE c \in Chips(g)
  <2>1. c \in Chips(f) /\ c[1] # n + 1
    BY DEF Others
  <2>2. c[1] \in 1 .. n + 1 /\ c[2] \in 1 .. f[c[1]] /\ c = <<c[1], c[2]>>
    BY <1>2, <2>1, ChipsOf
  <2>3. c[1] \in 1 .. n /\ c[2] \in 1 .. g[c[1]]
    BY <2>1, <2>2
  <2> QED BY <1>2, <2>2, <2>3, ChipsOf
<1>5. Others(f, n + 1) = Chips(g)
  BY <1>3, <1>4
<1>6. Total(f) = Cardinality(Others(f, n + 1)) + f[n + 1]
  BY <1>1, TotalSplit
<1> QED BY <1>5, <1>6 DEF Total

----------------------------------------------------------------------------
(* What a table pays depends on who sits there, has folded, has put in what *)

LEMMA StackAside ==
  ASSUME NEW u, NEW v, v.id = u.id, v.totalBet = u.totalBet, v.status = u.status
  PROVE  /\ Occupied(v) = Occupied(u) /\ NotFolded(v) = NotFolded(u)
         /\ OpenLevels(v) = OpenLevels(u)
         /\ \A n : AtStep(v, n) <=> AtStep(u, n)
         /\ \A n, ps : Built(v, n, ps) <=> Built(u, n, ps)
         /\ \A n, lev, ps : Holds(v, n, lev, ps) <=> Holds(u, n, lev, ps)
         /\ \A l, r, i : PotShare(v, l, r, i) = PotShare(u, l, r, i)
<1>1. Occupied(v) = Occupied(u) /\ NotFolded(v) = NotFolded(u)
  BY DEF Occupied, NotFolded
<1>2. OpenLevels(v) = OpenLevels(u)
  BY <1>1 DEF OpenLevels
<1>3. \A n : AtStep(v, n) <=> AtStep(u, n)
  BY DEF AtStep
<1>4. \A l : PotEligible(v, l) = PotEligible(u, l)
  BY <1>1 DEF PotEligible
<1>5. ASSUME NEW l, NEW n PROVE InPot(v, l, n) = InPot(u, l, n) /\ Passed(v, n) = Passed(u, n)
  BY <1>2 DEF InPot, UpTo, Passed
<1>6. ASSUME NEW n, NEW lev, NEW ps PROVE Holds(v, n, lev, ps) <=> Holds(u, n, lev, ps)
  BY <1>4, <1>5 DEF Holds, Ladder
<1>7. \A n, ps : Built(v, n, ps) <=> Built(u, n, ps)
  BY <1>6 DEF Built
<1>8. \A l : PotAmount(v, l) = PotAmount(u, l)
  BY <1>2 DEF PotAmount
<1>9. \A l, r : PotWinners(v, l, r) = PotWinners(u, l, r)
  BY <1>4 DEF PotWinners
<1>10. ASSUME NEW l, NEW r, NEW i PROVE PotShare(v, l, r, i) = PotShare(u, l, r, i)
  BY <1>8, <1>9 DEF PotShare
<1> QED BY <1>1, <1>2, <1>3, <1>6, <1>7, <1>10

----------------------------------------------------------------------------
(* What the players may expect of a payout *)

\* The matched parts of the contributions are the chips up to i's own.
LEMMA MatchedChips ==
  ASSUME NEW u, Full(u), NEW i \in Seat
  PROVE  /\ IsFiniteSet(UpTo(u, u.totalBet[i]))
         /\ Cardinality(UpTo(u, u.totalBet[i])) =
              Total([j \in Seat |-> Least(u.totalBet[i], u.totalBet[j])])
<1>1. \A j \in Seat : u.totalBet[j] \in Nat
  BY ChipsSeated DEF Full
<1>2. [j \in Seat |-> Least(u.totalBet[i], u.totalBet[j])] =
        [j \in Seat |-> Least(u.totalBet[j], u.totalBet[i])]
  BY <1>1 DEF Least
<1> QED BY <1>1, <1>2, UpToTotal

\* The chips up to n, sorted into their pots.
LEMMA UpToSorted ==
  ASSUME NEW u, Full(u), NEW n, OpenLevels(u) # {},
         NEW g \in [OpenLevels(u) -> Nat],
         \A l \in OpenLevels(u) : g[l] = Cardinality(InPot(u, l, n))
  PROVE  Cardinality(UpTo(u, n)) = Total(g)
<1> DEFINE C == UpTo(u, n)
           O == OpenLevels(u)
           q == [c \in C |-> PotOf(O, c[2])]
<1>1. O \subseteq Nat /\ IsFiniteSet(O)
  BY OpenLevelsType
<1>2. IsFiniteSet(C)
  BY ChipsSeated, FS_Subset DEF Full, UpTo
<1>3. \A c \in C : c[2] \in Nat
  BY ChipsSeated DEF Full, UpTo
<1>4. \A c \in C : PotOf(O, c[2]) \in O
  <2> HIDE DEF C, O
  <2> QED BY <1>1, <1>3, PotOfChip DEF O
<1>5. q \in [C -> O]
  <2> HIDE DEF C, O
  <2> QED BY <1>4
<1>6. ASSUME NEW l \in O PROVE g[l] = Cardinality(Group(C, q, l))
  <2>1. Group(C, q, l) = InPot(u, l, n)
    BY DEF Group, InPot
  <2> QED BY <2>1
<1>7. g \in [O -> Nat]
  OBVIOUS
<1> HIDE DEF C, O, q
<1>8. Cardinality(C) = Total(g)
  <2>1. IsFiniteSet(O) /\ \A l \in O : g[l] = Cardinality(Group(C, q, l))
    BY <1>1, <1>6
  <2> QED BY <1>2, <1>5, <1>7, <2>1, CountGroups
<1> QED BY <1>8 DEF C

\* The best hand wins every pot it has reached, so all the chips up to its own
\* contribution.
LEMMA BestHandPayout ==
  ASSUME NEW u, Full(u), NEW r \in [Seat -> Nat], NEW i \in NotFolded(u),
         \A j \in NotFolded(u) \ {i} : r[i] > r[j]
  PROVE  Payout(u, r)[i] >= Total([j \in Seat |-> Least(u.totalBet[i], u.totalBet[j])])
<1>1. i \in Seat /\ u.totalBet[i] \in Nat /\ u \in Table
  BY ChipsSeated DEF Full, NotFolded, Occupied
<1> DEFINE O == OpenLevels(u)
           n == u.totalBet[i]
           g == [l \in O |-> Cardinality(InPot(u, l, n))]
           f == [l \in O |-> PotShare(u, l, r, i)]
<1>2. Cardinality(UpTo(u, n)) = Total([j \in Seat |-> Least(u.totalBet[i], u.totalBet[j])])
  BY <1>1, MatchedChips
<1>3. Payout(u, r)[i] = Total(f)
  BY <1>1 DEF Payout
<1>4. O \subseteq Nat /\ IsFiniteSet(O)
  BY OpenLevelsType
<1>5. g \in [O -> Nat] /\ f \in [O -> Nat]
  <2>1. \A l \in O : Cardinality(InPot(u, l, n)) \in Nat /\ PotShare(u, l, r, i) \in Nat
    BY <1>1, InPotFinite, PotShareType
  <2> QED BY <2>1
<1>6. CASE O = {}
  <2>1. n = 0
    <3>1. n > 0 => n \in O
      BY <1>1, OpenLevelsType
    <3> QED BY <1>1, <1>6, <3>1
  <2>2. UpTo(u, n) = {}
    <3>1. \A c \in UpTo(u, n) : c[2] \in Nat \ {0} /\ c[2] <= 0
      BY <2>1, ChipsSeated DEF Full, UpTo
    <3>2. \A x \in Nat \ {0} : ~ (x <= 0)
      OBVIOUS
    <3> QED BY <3>1, <3>2
  <2>3. Cardinality(UpTo(u, n)) = 0
    BY <2>2, FS_EmptySet
  <2>4. Total(f) \in Nat
    <3> HIDE DEF f, O
    <3> QED BY <1>4, <1>5, TotalType
  <2> HIDE DEF f, n
  <2> QED BY <1>2, <1>3, <2>3, <2>4 DEF n
<1>7. CASE O # {}
  <2>1. Cardinality(UpTo(u, n)) = Total(g)
    <3>1. \A l \in O : g[l] = Cardinality(InPot(u, l, n))
      OBVIOUS
    <3> HIDE DEF g, n
    <3> QED BY <1>5, <1>7, <3>1, UpToSorted
  <2>2. ASSUME NEW l \in O PROVE g[l] <= f[l]
    <3>1. CASE l <= n
      <4>1. PotWinners(u, l, r) = {i}
        <5>1. i \in PotEligible(u, l)
          BY <3>1 DEF PotEligible
        <5>2. \A j \in PotEligible(u, l) : j # i => r[i] > r[j]
          BY DEF PotEligible
        <5>3. \A j \in PotEligible(u, l) : r[j] \in Nat
          BY DEF PotEligible, NotFolded, Occupied
        <5> QED BY <1>1, <5>1, <5>2, <5>3 DEF PotWinners
      <4>2. First({i}) = i
        <5>1. i \in Nat
          BY <1>1 DEF Seat
        <5> QED BY <5>1 DEF First
      <4>3. Cardinality({i}) = 1
        BY FS_Singleton
      <4>4. PotAmount(u, l) \in Nat
        BY <1>1, PotAmountType
      <4>5. PotShare(u, l, r, i) = PotAmount(u, l)
        <5>1. PotShare(u, l, r, i) = PotAmount(u, l) - (PotAmount(u, l) \div 1) * (1 - 1)
          BY <4>1, <4>2, <4>3 DEF PotShare
        <5>2. PotAmount(u, l) \div 1 \in Int
          BY <4>4
        <5> QED BY <4>4, <5>1, <5>2
      <4>6. InPot(u, l, n) \in SUBSET {c \in Chips(u.totalBet) : PotOf(O, c[2]) = l}
        BY DEF InPot, UpTo
      <4>7. IsFiniteSet({c \in Chips(u.totalBet) : PotOf(O, c[2]) = l})
        BY <1>1, ChipsSeated, FS_Subset
      <4>8. Cardinality(InPot(u, l, n)) <= PotAmount(u, l)
        BY <4>6, <4>7, FS_Subset DEF PotAmount
      <4> QED BY <4>5, <4>8
    <3>2. CASE l > n
      <4>1. InPot(u, l, n) = {}
        <5>1. ASSUME NEW c \in UpTo(u, n) PROVE PotOf(O, c[2]) # l
          <6>1. c[2] \in Nat \ {0} /\ c[2] <= n
            BY <1>1, ChipsSeated DEF UpTo
          <6>2. n \in O
            BY <1>1, <6>1, OpenLevelsType
          <6> HIDE DEF O, n
          <6>3. PotOf(O, c[2]) <= n
            BY <1>4, <1>7, <6>1, <6>2, PotOfChip
          <6> QED BY <1>1, <1>4, <3>2, <6>3 DEF n
        <5> QED BY <5>1 DEF InPot
      <4>2. Cardinality(InPot(u, l, n)) = 0
        BY <4>1, FS_EmptySet
      <4>3. PotShare(u, l, r, i) \in Nat
        BY <1>1, PotShareType
      <4> QED BY <4>2, <4>3
    <3> QED BY <1>1, <1>4, <3>1, <3>2
  <2>3. Total(g) <= Total(f)
    <3> HIDE DEF f, g, O
    <3> QED BY <1>4, <1>5, <2>2, TotalMonotone
  <2>4. Total(g) \in Nat /\ Total(f) \in Nat
    <3> HIDE DEF f, g, O
    <3> QED BY <1>4, <1>5, TotalType
  <2> HIDE DEF f, g, n
  <2> QED BY <1>2, <1>3, <2>1, <2>3, <2>4 DEF n
<1> QED BY <1>6, <1>7

\* The highest contribution still in.
LEMMA TopBet ==
  ASSUME NEW u, Full(u), NEW i \in NotFolded(u),
         NEW top, top = Last({u.totalBet[j] : j \in NotFolded(u)})
  PROVE  /\ top \in {u.totalBet[j] : j \in NotFolded(u)} /\ top \in Nat
         /\ \A j \in NotFolded(u) : u.totalBet[j] <= top
<1> DEFINE V == {u.totalBet[j] : j \in NotFolded(u)}
           h == [j \in NotFolded(u) |-> u.totalBet[j]]
<1>1. NotFolded(u) \in SUBSET Seat /\ \A j \in Seat : u.totalBet[j] \in Nat
  BY ChipsSeated DEF Full, NotFolded, Occupied
<1>2. IsFiniteSet(NotFolded(u))
  BY <1>1, SeatFinite, FS_Subset
<1>3. h \in Surjection(NotFolded(u), V)
  BY DEF Surjection
<1>4. IsFiniteSet(V)
  BY <1>2, <1>3, FS_Surjection
<1>5. V \in SUBSET Nat /\ V # {}
  BY <1>1
<1>6. Last(V) \in V /\ \A v \in V : Last(V) >= v
  <2> HIDE DEF V
  <2> QED BY <1>4, <1>5, LastType
<1> QED BY <1>1, <1>6

\* Nobody is paid chips above his own contribution, but those only players who
\* folded have put in.
LEMMA UnmatchedPayout ==
  ASSUME NEW u, Full(u), NEW r \in [Seat -> Nat], NEW i \in NotFolded(u),
         NEW top, top = Last({u.totalBet[j] : j \in NotFolded(u)}),
         NEW d \in [Seat -> Nat],
         \A j \in Seat : d[j] = IF u.totalBet[j] > top THEN u.totalBet[j] - top ELSE 0
  PROVE  Payout(u, r)[i] <= Total(d) + Total([j \in Seat |-> Least(u.totalBet[i], u.totalBet[j])])
<1>1. i \in Seat /\ u \in Table /\ \A j \in Seat : u.totalBet[j] \in Nat
  BY ChipsSeated DEF Full, NotFolded, Occupied
<1>2. PICK n \in Nat : n = u.totalBet[i]
  BY <1>1
<1>3. PICK m : m = [j \in Seat |-> Least(u.totalBet[i], u.totalBet[j])]
  OBVIOUS
<1>4. m \in [Seat -> Nat] /\ \A j \in Seat : m[j] = Least(n, u.totalBet[j])
  BY <1>1, <1>2, <1>3 DEF Least
<1>5. Cardinality(UpTo(u, n)) = Total(m) /\ Total(m) \in Nat /\ Total(d) \in Nat
  BY <1>1, <1>2, <1>3, <1>4, MatchedChips, TotalType, SeatFinite
<1>6. /\ top \in {u.totalBet[j] : j \in NotFolded(u)} /\ top \in Nat
      /\ \A j \in NotFolded(u) : u.totalBet[j] <= top
  BY TopBet
<1>7. n <= top
  BY <1>2, <1>6
<1> DEFINE O == OpenLevels(u)
           f == [l \in O |-> PotShare(u, l, r, i)]
<1>8. Payout(u, r)[i] = Total(f)
  BY <1>1 DEF Payout
<1>9. O \subseteq Nat /\ IsFiniteSet(O)
  BY OpenLevelsType
<1>10. f \in [O -> Nat]
  BY <1>1, PotShareType
<1>11. CASE O = {}
  <2>1. Total(f) = 0
    <3>1. \A l \in O : f[l] = 0
      BY <1>11
    <3> HIDE DEF f, O
    <3> QED BY <1>10, <3>1, TotalZero
  <2> QED BY <1>3, <1>5, <1>8, <2>1
<1>12. CASE O # {} /\ n < top
  <2> DEFINE g == [l \in O |-> Cardinality(InPot(u, l, n))]
  <2>1. top \in O /\ \A l \in O : l <= top
    <3>1. PICK j \in NotFolded(u) : u.totalBet[j] = top
      BY <1>6
    <3>2. j \in Seat
      BY <3>1 DEF NotFolded, Occupied
    <3>3. top \in O
      BY <1>6, <1>12, <3>1, <3>2, OpenLevelsType
    <3>4. ASSUME NEW l \in O PROVE l <= top
      <4>1. PICK k \in NotFolded(u) : u.totalBet[k] >= l
        BY OpenLevelsType
      <4>2. u.totalBet[k] \in Nat /\ u.totalBet[k] <= top
        BY <1>1, <1>6 DEF NotFolded, Occupied
      <4> QED BY <1>6, <1>9, <4>1, <4>2
    <3> QED BY <3>3, <3>4
  <2>2. g \in [O -> Nat]
    BY InPotFinite
  <2>3. Cardinality(UpTo(u, n)) = Total(g)
    <3>1. \A l \in O : g[l] = Cardinality(InPot(u, l, n))
      OBVIOUS
    <3> HIDE DEF g
    <3> QED BY <1>12, <2>2, <3>1, UpToSorted
  <2>4. ASSUME NEW l \in O PROVE f[l] <= g[l]
    <3>1. CASE l <= n
      <4>1. ASSUME NEW c \in Chips(u.totalBet), PotOf(O, c[2]) = l PROVE c[2] <= n
        <5>1. c[2] \in Nat
          BY <1>1, ChipsSeated
        <5> HIDE DEF O
        <5>2. c[2] <= top => PotOf(O, c[2]) >= c[2]
          BY <1>9, <1>12, <2>1, <5>1, PotOfChip
        <5>3. c[2] > top => PotOf(O, c[2]) >= top
          <6>1. ASSUME c[2] > top, NEW k \in O PROVE k < c[2]
            <7>1. k \in Nat /\ k <= top
              BY <1>9, <2>1
            <7> QED BY <1>6, <5>1, <6>1, <7>1
          <6> QED BY <1>9, <1>12, <2>1, <5>1, <6>1, PotOfChip
        <5>4. l \in Nat /\ l < top
          BY <1>2, <1>6, <1>9, <1>12, <3>1
        <5> QED BY <1>2, <1>6, <3>1, <4>1, <5>1, <5>2, <5>3, <5>4
      <4>2. InPot(u, l, n) = {c \in Chips(u.totalBet) : PotOf(O, c[2]) = l}
        BY <4>1 DEF InPot, UpTo
      <4>3. Cardinality(InPot(u, l, n)) = PotAmount(u, l)
        BY <4>2 DEF PotAmount
      <4>4. PotShare(u, l, r, i) <= PotAmount(u, l)
        <5>1. Total([j \in Seat |-> PotShare(u, l, r, j)]) = PotAmount(u, l)
          BY <1>1, PotPaidOut
        <5>2. PICK p : p = [j \in Seat |-> PotShare(u, l, r, j)]
          OBVIOUS
        <5>3. p \in [Seat -> Nat] /\ p[i] = PotShare(u, l, r, i)
          BY <1>1, <5>2, PotShareType
        <5>4. p[i] <= Total(p)
          BY <1>1, <5>3, SeatFinite, TotalBound
        <5> QED BY <5>1, <5>2, <5>3, <5>4
      <4> QED BY <4>3, <4>4
    <3>2. CASE l > n
      <4>1. i \notin PotWinners(u, l, r)
        BY <1>2, <1>9, <3>2 DEF PotWinners, PotEligible
      <4>2. f[l] = 0
        BY <4>1 DEF PotShare
      <4>3. g[l] \in Nat
        BY <2>2
      <4> QED BY <4>2, <4>3
    <3> QED BY <1>2, <1>9, <3>1, <3>2
  <2>5. Total(f) <= Total(g)
    <3> HIDE DEF f, g, O
    <3> QED BY <1>9, <1>10, <2>2, <2>4, TotalMonotone
  <2>6. Total(f) \in Nat
    <3> HIDE DEF f, g, O
    <3> QED BY <1>9, <1>10, TotalType
  <2> HIDE DEF f, g
  <2> QED BY <1>3, <1>5, <1>8, <2>3, <2>5, <2>6
<1>13. CASE O # {} /\ n = top
  <2>1. Total(Payout(u, r)) = Total(u.totalBet)
    BY <1>1, <1>13, PayoutTotal
  <2>2. Payout(u, r) \in [Seat -> Nat]
    BY <1>1, PayoutType
  <2>3. Payout(u, r)[i] <= Total(Payout(u, r))
    BY <1>1, <2>2, SeatFinite, TotalBound
  <2>4. Total(u.totalBet) = Total(m) + Total(d)
    <3>1. u.totalBet \in [Seat -> Nat]
      BY <1>1 DEF Table
    <3>2. \A j \in Seat : u.totalBet[j] = m[j] + d[j]
      BY <1>1, <1>4, <1>6, <1>13 DEF Least
    <3> QED BY <1>4, <3>1, <3>2, SeatFinite, TotalSum
  <2>5. Payout(u, r)[i] \in Nat
    BY <1>1, <2>2
  <2> QED BY <1>3, <1>5, <2>1, <2>3, <2>4, <2>5
<1> QED BY <1>2, <1>6, <1>7, <1>11, <1>12, <1>13

----------------------------------------------------------------------------
(* The invariant of the loops *)

\* What has been shared out are the shares of the first pots.
PaidOut(u, r, n, ps, k, win) ==
  \E lev : /\ Holds(u, n, lev, ps)
           /\ \A i \in Seat : win[i] = Total([j \in 1 .. k |-> PotShare(u, lev[j], r, i)])

\* Everybody's contribution is in the pots.
AllCounted(u, n) == \A i \in Seat : u.totalBet[i] <= n

LoopInv ==
  /\ Full(river) /\ rank \in [Seat -> Nat]
  /\ prevLevel \in Nat /\ AtStep(river, prevLevel)
  /\ pots \in Seq(PotRecord) /\ Built(river, prevLevel, pots)
  /\ winAmounts \in [Seat -> Nat]
  /\ phase \in {"deal", "score", "ranked", "build", "pay", "done"}
  /\ phase \in {"deal", "score", "ranked"} => prevLevel = 0 /\ pots = <<>>
  /\ phase \in {"deal", "score", "ranked", "build"} => paid = 0 /\ winAmounts = Zero
  /\ phase \in {"pay", "done"} =>
       /\ AllCounted(river, prevLevel)
       /\ paid \in 0 .. Len(pots)
       /\ PaidOut(river, rank, prevLevel, pots, paid, winAmounts)
  /\ phase = "done" => paid = Len(pots)

\* Every table a showdown finds is a full table.
LEMMA ShowdownTableFull ==
  ASSUME NEW u \in ShowdownTables
  PROVE  Full(u)
<1>1. PICK put \in [Seat -> Contribution], status \in Contested :
        u = RiverTable(put, status)
  BY DEF ShowdownTables
<1>2. Seating \in [Seat -> Player]
  BY SeatingAssumption DEF Seating
<1>3. put \in [Seat -> Nat] /\ status \in [Seat -> Status]
      /\ Seating \in [Seat -> Player \cup {Nobody}] /\ "RIVER" \in Stage
  <2>1. put \in [Seat -> Nat]
    BY ContributionAssumption
  <2>2. status \in [Seat -> Status]
    BY DEF Contested, Status
  <2>3. "RIVER" \in Stage
    BY DEF Stage, ActionStage
  <2> QED BY <1>2, <2>1, <2>2, <2>3
<1>4. NewTable \in Table
  BY NewTableSound DEF Sound
<1>5. u \in Table /\ u.id = Seating
  <2> HIDE DEF Seating, NewTable
  <2>1. PICK v : v = [NewTable EXCEPT !.id = Seating, !.totalBet = put]
    OBVIOUS
  <2>2. v \in Table /\ v.id = Seating
    BY <1>3, <1>4, <2>1 DEF Table
  <2>3. u = [v EXCEPT !.status = status, !.stage = "RIVER"]
    BY <1>1, <1>4, <2>1 DEF Table, RiverTable
  <2> QED BY <1>3, <2>2, <2>3 DEF Table
<1>6. \A i \in Seat : u.id[i] # Nobody
  BY <1>2, <1>5, NobodyAssumption
<1> QED BY <1>5, <1>6 DEF Full, Occupied

LEMMA ShowdownTablesExist == ShowdownTables # {}
<1>1. PICK c : c \in Contribution
  BY ContributionAssumption
<1>2. PICK put : put = [i \in Seat |-> c]
  OBVIOUS
<1>3. PICK status : status = [i \in Seat |-> "ALLIN"]
  OBVIOUS
<1>4. 0 \in Seat
  BY SeatAssumption DEF Seat
<1>5. /\ put \in [Seat -> Contribution]
      /\ status \in Contested
  <2>1. put \in [Seat -> Contribution] /\ status \in [Seat -> {"ALLIN", "FOLD"}]
    BY <1>1, <1>2, <1>3
  <2>2. status[0] = "ALLIN" /\ "ALLIN" # "FOLD"
    BY <1>3, <1>4
  <2> QED BY <1>4, <2>1, <2>2 DEF Contested
<1> QED BY <1>5 DEF ShowdownTables

\* Before the loop there is no pot, and nothing to put in one.
LEMMA NothingBuilt ==
  ASSUME NEW u, Full(u)
  PROVE  AtStep(u, 0) /\ Built(u, 0, <<>>)
<1>1. Passed(u, 0) = {}
  <2>1. \A l \in OpenLevels(u) : l \in Nat \ {0}
    BY OpenLevelsType
  <2>2. \A l \in Nat \ {0} : ~ (l <= 0)
    OBVIOUS
  <2> QED BY <2>1, <2>2 DEF Passed
<1>2. Len(<<>>) = 0 /\ 1 .. 0 = {}
  OBVIOUS
<1>3. PICK lev : lev = [k \in 1 .. 0 |-> 0]
  OBVIOUS
<1>4. lev \in [1 .. 0 -> Passed(u, 0)]
  BY <1>2, <1>3
<1>5. Ladder(u, 0, lev, 0)
  BY <1>1, <1>2, <1>4 DEF Ladder
<1>6. Holds(u, 0, lev, <<>>)
  BY <1>2, <1>5 DEF Holds
<1> QED BY <1>6 DEF Built, AtStep

LEMMA InitLoopInv == ShowdownInit => LoopInv
<1> SUFFICES ASSUME ShowdownInit PROVE LoopInv
  OBVIOUS
<1>1. Full(river)
  BY ShowdownTablesExist, ShowdownTableFull DEF ShowdownInit
<1>2. rank \in [Seat -> Nat] /\ winAmounts \in [Seat -> Nat]
  BY DEF ShowdownInit, Zero
<1>3. AtStep(river, prevLevel) /\ Built(river, prevLevel, pots) /\ pots \in Seq(PotRecord)
  BY <1>1, NothingBuilt DEF ShowdownInit
<1> QED BY <1>1, <1>2, <1>3 DEF ShowdownInit, LoopInv

\* The cards: any ranks are natural numbers.
LEMMA DealInv ==
  ASSUME LoopInv, Deal \/ ScoreHands
  PROVE  LoopInv'
BY DEF LoopInv, Deal, ScoreHands, potVars

LEMMA DetermineWinnersInv ==
  ASSUME LoopInv, DetermineWinners
  PROVE  LoopInv'
<1>1. ASSUME NEW i \in Seat
      PROVE  Cardinality({score[j] : j \in {k \in Seat : Beats(score[i], score[k])}}) \in Nat
  <2> DEFINE S == {k \in Seat : Beats(score[i], score[k])}
             T == {score[j] : j \in S}
             h == [j \in S |-> score[j]]
  <2>1. IsFiniteSet(S)
    BY SeatFinite, FS_Subset
  <2>2. h \in Surjection(S, T)
    BY DEF Surjection
  <2>3. IsFiniteSet(T)
    BY <2>1, <2>2, FS_Surjection
  <2> HIDE DEF T, S, h
  <2>4. Cardinality(T) \in Nat
    BY <2>3, FS_CardinalityType
  <2> QED BY <2>4 DEF T, S
<1>2. rank' \in [Seat -> Nat]
  BY <1>1 DEF DetermineWinners
<1> QED BY <1>2 DEF LoopInv, DetermineWinners, potVars

LEMMA ShowdownInv ==
  ASSUME LoopInv, Showdown
  PROVE  LoopInv'
<1>1. PICK u \in ShowdownTables : river' = u
  BY DEF Showdown
<1>2. Full(u) /\ AtStep(u, 0) /\ Built(u, 0, <<>>)
  BY ShowdownTableFull, NothingBuilt
<1>3. /\ prevLevel = 0 /\ pots = <<>> /\ paid = 0 /\ winAmounts = Zero
      /\ prevLevel' = 0 /\ pots' = <<>> /\ paid' = 0 /\ winAmounts' = Zero
      /\ rank' = rank /\ phase' = "build"
  BY DEF LoopInv, Showdown
<1>4. Full(river') /\ AtStep(river', prevLevel') /\ Built(river', prevLevel', pots')
  BY <1>1, <1>2, <1>3
<1>5. winAmounts' \in [Seat -> Nat] /\ pots' \in Seq(PotRecord) /\ prevLevel' \in Nat
      /\ rank' \in [Seat -> Nat]
  BY <1>3 DEF LoopInv, Zero
<1> QED BY <1>3, <1>4, <1>5 DEF LoopInv

\* buildPots: the next level.
LEMMA BuildPotInv ==
  ASSUME LoopInv, BuildPot
  PROVE  LoopInv'
<1>1. PICK u, n, ps : u = river /\ n = prevLevel /\ ps = pots
  OBVIOUS
<1>2. /\ Full(u) /\ n \in Nat /\ AtStep(u, n) /\ ps \in Seq(PotRecord) /\ Built(u, n, ps)
      /\ phase = "build"
  BY <1>1 DEF LoopInv, BuildPot
<1>3. \A i \in Seat : u.totalBet[i] \in Nat
  BY <1>2, ChipsSeated DEF Full
<1> DEFINE A == {u.totalBet[i] : i \in Seat} \ (0 .. n)
<1>4. A = LevelsAbove(prevLevel) /\ A # {}
  BY <1>1, <1>2 DEF LevelsAbove, Full, BuildPot
<1>5. A \in SUBSET Nat
  BY <1>3
<1>6. PICK m : m = First(A)
  OBVIOUS
<1>7. m \in A /\ \A j \in A : m <= j
  <2> HIDE DEF A
  <2> QED BY <1>4, <1>5, <1>6, FirstType
<1>8. m \in Nat /\ NextStep(u, n, m)
  <2>1. m \in Nat /\ n < m /\ \E i \in Seat : u.totalBet[i] = m
    BY <1>2, <1>3, <1>7
  <2>2. ASSUME NEW i \in Seat PROVE u.totalBet[i] <= n \/ u.totalBet[i] >= m
    BY <1>2, <1>3, <1>7, <2>1
  <2> QED BY <2>1, <2>2 DEF NextStep
<1>9. AtStep(u, m)
  BY <1>8 DEF AtStep, NextStep
<1>10. AtLevel(m) = Reaching(u, m)
  BY <1>1, <1>2 DEF AtLevel, Reaching, Full
<1>11. {i \in AtLevel(m) : river.status[i] # "FOLD"} = PotEligible(u, m)
  BY <1>1 DEF AtLevel, PotEligible, NotFolded
<1>12. PotEligible(u, m) # {} <=> m \in OpenLevels(u)
  <2>1. m > 0 /\ \E i \in Seat : u.totalBet[i] = m
    BY <1>2, <1>8 DEF NextStep
  <2> QED BY <1>2, <2>1, OpenLevelsType DEF PotEligible
<1> HIDE DEF A
<1>13. PICK amount : amount = (m - n) * Cardinality(Reaching(u, m))
  OBVIOUS
<1>14. /\ prevLevel' = m /\ river' = river /\ rank' = rank /\ paid' = paid
       /\ winAmounts' = winAmounts /\ phase' = phase
       /\ pots' = IF PotEligible(u, m) # {}
                  THEN Append(ps, [amount |-> amount, eligible |-> PotEligible(u, m)])
                  ELSE IF ps # <<>> THEN [ps EXCEPT ![Len(ps)].amount = @ + amount]
                  ELSE ps
  BY <1>1, <1>4, <1>6, <1>10, <1>11, <1>13 DEF BuildPot, AddPot
<1>15. PICK qs : qs = pots'
  OBVIOUS
<1>16. qs \in Seq(PotRecord) /\ Built(u, m, qs)
  <2>1. CASE PotEligible(u, m) # {}
    <3>1. PICK pot : pot = [amount |-> (m - n) * Cardinality(Reaching(u, m)),
                            eligible |-> PotEligible(u, m)]
      OBVIOUS
    <3>2. Append(ps, pot) \in Seq(PotRecord) /\ Built(u, m, Append(ps, pot))
      BY <1>2, <1>8, <1>12, <2>1, <3>1, OpenPot
    <3>3. qs = Append(ps, pot)
      BY <1>13, <1>14, <1>15, <2>1, <3>1
    <3> QED BY <3>2, <3>3
  <2>2. CASE PotEligible(u, m) = {} /\ ps # <<>>
    <3>1. qs = [ps EXCEPT ![Len(ps)].amount = @ + (m - n) * Cardinality(Reaching(u, m))]
      BY <1>13, <1>14, <1>15, <2>2
    <3> QED BY <1>2, <1>8, <1>12, <2>2, <3>1, FillPot
  <2>3. CASE PotEligible(u, m) = {} /\ ps = <<>>
    <3>1. qs = ps
      BY <1>14, <1>15, <2>3
    <3> QED BY <1>2, <1>8, <1>12, <2>3, <3>1, SkipPot
  <2> QED BY <2>1, <2>2, <2>3
<1>17. /\ river' = u /\ prevLevel' = m /\ pots' = qs
  BY <1>1, <1>14, <1>15
<1>18. /\ Full(river') /\ AtStep(river', prevLevel') /\ Built(river', prevLevel', pots')
       /\ prevLevel' \in Nat /\ pots' \in Seq(PotRecord)
  BY <1>2, <1>8, <1>9, <1>16, <1>17
<1> QED BY <1>2, <1>14, <1>18 DEF LoopInv

LEMMA EndBuildInv ==
  ASSUME LoopInv, EndBuild
  PROVE  LoopInv'
<1>1. PICK u, n, ps, r : u = river /\ n = prevLevel /\ ps = pots /\ r = rank
  OBVIOUS
<1>2. /\ Full(u) /\ n \in Nat /\ Built(u, n, ps) /\ ps \in Seq(PotRecord) /\ phase = "build"
      /\ paid = 0 /\ winAmounts = Zero
  BY <1>1 DEF LoopInv, EndBuild
<1>3. AllCounted(u, n)
  <2>1. \A i \in Seat : u.totalBet[i] \in Nat
    BY <1>2, ChipsSeated DEF Full
  <2>2. \A i \in Seat : u.totalBet[i] \in 0 .. n
    BY <1>1, <1>2 DEF EndBuild, LevelsAbove, Full
  <2> QED BY <1>2, <2>1, <2>2 DEF AllCounted
<1>4. PICK lev : Holds(u, n, lev, ps)
  BY <1>2 DEF Built
<1>5. PaidOut(u, r, n, ps, 0, Zero)
  <2>1. ASSUME NEW i \in Seat
        PROVE  Zero[i] = Total([j \in 1 .. 0 |-> PotShare(u, lev[j], r, i)])
    <3>1. PICK f : f = [j \in 1 .. 0 |-> PotShare(u, lev[j], r, i)]
      OBVIOUS
    <3>2. f \in [1 .. 0 -> Nat] /\ \A j \in 1 .. 0 : f[j] = 0
      BY <3>1
    <3>3. Total(f) = 0
      BY <3>2, TotalZero
    <3> QED BY <3>1, <3>3 DEF Zero
  <2> QED BY <1>4, <2>1 DEF PaidOut
<1>6. /\ river' = u /\ prevLevel' = n /\ pots' = ps /\ rank' = r /\ paid' = 0
      /\ winAmounts' = Zero /\ phase' = "pay"
  BY <1>1, <1>2 DEF EndBuild
<1>7. /\ AllCounted(river', prevLevel')
      /\ PaidOut(river', rank', prevLevel', pots', paid', winAmounts')
  BY <1>3, <1>5, <1>6
<1>8. 0 \in 0 .. Len(ps)
  BY <1>2
<1>9. Full(river') /\ AtStep(river', prevLevel') /\ Built(river', prevLevel', pots')
  BY <1>1, <1>2, <1>6 DEF LoopInv
<1> QED BY <1>1, <1>2, <1>6, <1>7, <1>8, <1>9 DEF LoopInv

\* The pots hold all there is: pot k has the amount of TableEngine's pot.
LEMMA PotsComplete ==
  ASSUME NEW u, Full(u), NEW n \in Nat, AllCounted(u, n), NEW lev, NEW ps \in Seq(PotRecord),
         Holds(u, n, lev, ps)
  PROVE  /\ Passed(u, n) = OpenLevels(u)
         /\ \A k \in 1 .. Len(ps) : /\ lev[k] \in OpenLevels(u)
                                    /\ ps[k].eligible = PotEligible(u, lev[k])
                                    /\ ps[k].amount = PotAmount(u, lev[k])
<1>1. /\ OpenLevels(u) \subseteq Nat
      /\ \A l \in OpenLevels(u) : \E i \in Seat : u.totalBet[i] = l
  BY OpenLevelsType
<1>2. Passed(u, n) = OpenLevels(u)
  BY <1>1 DEF Passed, AllCounted
<1>3. ASSUME NEW c \in Chips(u.totalBet) PROVE c[2] <= n
  <2>1. /\ c[1] \in Seat /\ c[2] \in Nat /\ u.totalBet[c[1]] \in Nat
        /\ c[2] <= u.totalBet[c[1]] /\ u.totalBet[c[1]] <= n
    BY ChipsSeated DEF Full, AllCounted
  <2> QED BY <2>1
<1>4. \A l : Cardinality(InPot(u, l, n)) = PotAmount(u, l)
  <2>1. UpTo(u, n) = Chips(u.totalBet)
    BY <1>3 DEF UpTo
  <2> QED BY <2>1 DEF InPot, PotAmount
<1>5. PICK len : len = Len(ps)
  OBVIOUS
<1>6. /\ lev \in [1 .. len -> Passed(u, n)]
      /\ \A k \in 1 .. len : /\ ps[k].eligible = PotEligible(u, lev[k])
                             /\ ps[k].amount = Cardinality(InPot(u, lev[k], n))
  BY <1>5 DEF Holds, Ladder
<1> QED BY <1>2, <1>4, <1>5, <1>6

\* The distribution: the next pot.
LEMMA PayPotInv ==
  ASSUME LoopInv, PayPot
  PROVE  LoopInv'
<1>1. PICK u, n, ps, r, k, win :
        u = river /\ n = prevLevel /\ ps = pots /\ r = rank /\ k = paid /\ win = winAmounts
  OBVIOUS
<1>2. /\ Full(u) /\ n \in Nat /\ ps \in Seq(PotRecord) /\ r \in [Seat -> Nat]
      /\ AllCounted(u, n) /\ k \in 0 .. Len(ps) /\ PaidOut(u, r, n, ps, k, win)
      /\ win \in [Seat -> Nat] /\ phase = "pay" /\ k < Len(ps)
  BY <1>1 DEF LoopInv, PayPot
<1>3. PICK lev : /\ Holds(u, n, lev, ps)
                 /\ \A i \in Seat : win[i] = Total([j \in 1 .. k |-> PotShare(u, lev[j], r, i)])
  BY <1>2 DEF PaidOut
<1>4. k \in Nat /\ k + 1 \in 1 .. Len(ps) /\ k + 1 \in 0 .. Len(ps)
  BY <1>2
<1>5. PICK pot : pot = ps[k + 1]
  OBVIOUS
<1>6. PICK l : l = lev[k + 1]
  OBVIOUS
<1>7. l \in OpenLevels(u) /\ pot.eligible = PotEligible(u, l) /\ pot.amount = PotAmount(u, l)
  BY <1>2, <1>3, <1>4, <1>5, <1>6, PotsComplete
<1>8. ASSUME NEW i \in Seat PROVE Share(pot)[i] = PotShare(u, l, r, i)
  <2>1. u \in Table /\ rank \in [Seat -> Nat]
    BY <1>1, <1>2 DEF Full
  <2>2. Share(pot)[i] = PotShare(u, l, rank, i)
    BY <1>7, <2>1, ShareIsPotShare
  <2> QED BY <1>1, <2>2
<1>9. PICK new : new = winAmounts'
  OBVIOUS
<1>10. new = [i \in Seat |-> win[i] + Share(pot)[i]]
  BY <1>1, <1>5, <1>9 DEF PayPot
<1>11. \A i \in Seat : new[i] = win[i] + PotShare(u, l, r, i)
  BY <1>8, <1>10
<1>12. \A x, i : PotShare(u, x, r, i) \in Nat
  BY <1>2, PotShareType DEF Full
<1>13. new \in [Seat -> Nat]
  BY <1>2, <1>10, <1>11, <1>12
<1>14. ASSUME NEW i \in Seat
       PROVE  new[i] = Total([j \in 1 .. k + 1 |-> PotShare(u, lev[j], r, i)])
  <2>1. PICK f : f = [j \in 1 .. k + 1 |-> PotShare(u, lev[j], r, i)]
    OBVIOUS
  <2>2. PICK g : g = [j \in 1 .. k |-> PotShare(u, lev[j], r, i)]
    OBVIOUS
  <2>3. f \in [1 .. k + 1 -> Nat] /\ g \in [1 .. k -> Nat]
    BY <1>12, <2>1, <2>2
  <2>4. \A j \in 1 .. k : f[j] = g[j]
    BY <1>4, <2>1, <2>2
  <2>5. f[k + 1] = PotShare(u, l, r, i)
    BY <1>4, <1>6, <2>1
  <2>6. Total(f) = Total(g) + f[k + 1]
    BY <1>4, <2>3, <2>4, TotalNext
  <2>7. win[i] = Total(g)
    BY <1>3, <2>2
  <2> QED BY <1>11, <2>1, <2>5, <2>6, <2>7
<1>15. PaidOut(u, r, n, ps, k + 1, new)
  BY <1>3, <1>14 DEF PaidOut
<1>16. /\ river' = u /\ prevLevel' = n /\ pots' = ps /\ rank' = r /\ paid' = k + 1
       /\ winAmounts' = new /\ phase' = "pay"
  BY <1>1, <1>2, <1>9 DEF PayPot
<1>17. PaidOut(river', rank', prevLevel', pots', paid', winAmounts') /\ AllCounted(river', prevLevel')
  BY <1>2, <1>15, <1>16
<1>18. Full(river') /\ AtStep(river', prevLevel') /\ Built(river', prevLevel', pots')
  BY <1>1, <1>16 DEF LoopInv
<1> QED BY <1>2, <1>4, <1>13, <1>16, <1>17, <1>18 DEF LoopInv

\* The stacks are credited; nothing else of the table changes.
LEMMA CreditStacksInv ==
  ASSUME LoopInv, CreditStacks
  PROVE  LoopInv'
<1>1. PICK u, v, n, ps, r, k, win :
        /\ u = river /\ v = river' /\ n = prevLevel /\ ps = pots /\ r = rank /\ k = paid
        /\ win = winAmounts
  OBVIOUS
<1>2. /\ Full(u) /\ n \in Nat /\ ps \in Seq(PotRecord) /\ Built(u, n, ps) /\ AtStep(u, n)
      /\ AllCounted(u, n) /\ PaidOut(u, r, n, ps, k, win)
      /\ win \in [Seat -> Nat] /\ phase = "pay" /\ k = Len(ps)
  BY <1>1 DEF LoopInv, CreditStacks
<1>3. PICK stack : stack = [i \in Seat |-> u.stack[i] + win[i]]
  OBVIOUS
<1>4. stack \in [Seat -> Nat]
  <2>1. \A i \in Seat : u.stack[i] \in Nat /\ win[i] \in Nat
    <3>1. u.stack \in [Seat -> Nat] /\ win \in [Seat -> Nat]
      BY <1>2 DEF Full, Table
    <3> QED BY <3>1
  <2>2. \A i \in Seat : u.stack[i] + win[i] \in Nat
    BY <2>1
  <2> QED BY <1>3, <2>2
<1>5. v = [u EXCEPT !.stack = stack]
  BY <1>1, <1>3 DEF CreditStacks
<1>6. v \in Table /\ v.id = u.id /\ v.totalBet = u.totalBet /\ v.status = u.status
  BY <1>2, <1>4, <1>5 DEF Full, Table
<1>7. /\ Occupied(v) = Occupied(u)
      /\ \A m : AtStep(v, m) <=> AtStep(u, m)
      /\ \A m, qs : Built(v, m, qs) <=> Built(u, m, qs)
      /\ \A m, lev, qs : Holds(v, m, lev, qs) <=> Holds(u, m, lev, qs)
      /\ \A l, s, i : PotShare(v, l, s, i) = PotShare(u, l, s, i)
  BY <1>6, StackAside
<1>8. Full(v) /\ AtStep(v, n) /\ Built(v, n, ps)
  BY <1>2, <1>6, <1>7 DEF Full
<1>9. AllCounted(v, n)
  BY <1>2, <1>6 DEF AllCounted
<1>10. PaidOut(v, r, n, ps, k, win)
  <2>1. PICK lev : /\ Holds(u, n, lev, ps)
                   /\ \A i \in Seat : win[i] = Total([j \in 1 .. k |-> PotShare(u, lev[j], r, i)])
    BY <1>2 DEF PaidOut
  <2>2. Holds(v, n, lev, ps)
    BY <1>7, <2>1
  <2>3. ASSUME NEW i \in Seat
        PROVE  win[i] = Total([j \in 1 .. k |-> PotShare(v, lev[j], r, i)])
    <3>1. [j \in 1 .. k |-> PotShare(v, lev[j], r, i)] =
            [j \in 1 .. k |-> PotShare(u, lev[j], r, i)]
      BY <1>7
    <3> QED BY <2>1, <3>1
  <2> QED BY <2>2, <2>3 DEF PaidOut
<1>11. /\ river' = v /\ prevLevel' = n /\ pots' = ps /\ rank' = r /\ paid' = k
       /\ winAmounts' = win /\ phase' = "done"
  BY <1>1, <1>2 DEF CreditStacks
<1>12. /\ Full(river') /\ AtStep(river', prevLevel') /\ Built(river', prevLevel', pots')
       /\ AllCounted(river', prevLevel')
       /\ PaidOut(river', rank', prevLevel', pots', paid', winAmounts')
  BY <1>8, <1>9, <1>10, <1>11
<1>13. rank' \in [Seat -> Nat] /\ paid' \in 0 .. Len(pots') /\ paid' = Len(pots')
  BY <1>1, <1>2, <1>11 DEF LoopInv
<1> QED BY <1>2, <1>11, <1>12, <1>13 DEF LoopInv

LEMMA NextLoopInv ==
  ASSUME LoopInv, [ShowdownNext]_showdownVars
  PROVE  LoopInv'
<1>1. CASE UNCHANGED showdownVars
  <2>1. UNCHANGED <<river, rank, prevLevel, pots, paid, winAmounts, phase>>
    BY <1>1 DEF showdownVars, loopVars
  <2> QED BY <2>1 DEF LoopInv
<1>2. CASE Deal \/ ScoreHands
  BY <1>2, DealInv
<1>3. CASE DetermineWinners
  BY <1>3, DetermineWinnersInv
<1>4. CASE Showdown
  BY <1>4, ShowdownInv
<1>5. CASE BuildPot
  BY <1>5, BuildPotInv
<1>6. CASE EndBuild
  BY <1>6, EndBuildInv
<1>7. CASE PayPot
  BY <1>7, PayPotInv
<1>8. CASE CreditStacks
  BY <1>8, CreditStacksInv
<1> QED BY <1>1, <1>2, <1>3, <1>4, <1>5, <1>6, <1>7, <1>8 DEF ShowdownNext, LoopNext

\* The invariant of the loops (buildPots, performShowdown): the pots are those of
\* the levels passed, and what has been won are the shares of the first of them.
THEOREM LoopsInvariant == ShowdownSpec => []LoopInv
<1>1. ShowdownInit => LoopInv
  BY InitLoopInv
<1>2. LoopInv /\ [ShowdownNext]_showdownVars => LoopInv'
  BY NextLoopInv
<1> QED BY <1>1, <1>2, PTL DEF ShowdownSpec

----------------------------------------------------------------------------
(* What follows from it *)

LEMMA HoldLevels == LoopInv => PotsHoldLevels
<1> SUFFICES ASSUME LoopInv, OpenLevels(river) # {}
             PROVE  PotTotal = Total([i \in Seat |-> Least(river.totalBet[i], prevLevel)])
  BY DEF PotsHoldLevels
<1>1. PICK u, n, ps : u = river /\ n = prevLevel /\ ps = pots
  OBVIOUS
<1>2. /\ Full(u) /\ n \in Nat /\ AtStep(u, n) /\ ps \in Seq(PotRecord) /\ Built(u, n, ps)
      /\ OpenLevels(u) # {}
  BY <1>1 DEF LoopInv
<1>3. Total([k \in 1 .. Len(ps) |-> ps[k].amount]) =
        Total([i \in Seat |-> Least(u.totalBet[i], n)])
  BY <1>2, BuiltTotal
<1> QED BY <1>1, <1>3 DEF PotTotal

LEMMA PayoutPaid == LoopInv /\ phase = "done" => winAmounts = Payout(river, rank)
<1> SUFFICES ASSUME LoopInv, phase = "done"
             PROVE  winAmounts = Payout(river, rank)
  OBVIOUS
<1>1. PICK u, n, ps, r, win :
        u = river /\ n = prevLevel /\ ps = pots /\ r = rank /\ win = winAmounts
  OBVIOUS
<1>2. /\ Full(u) /\ n \in Nat /\ ps \in Seq(PotRecord) /\ r \in [Seat -> Nat]
      /\ AllCounted(u, n) /\ win \in [Seat -> Nat] /\ PaidOut(u, r, n, ps, Len(ps), win)
  BY <1>1 DEF LoopInv
<1>3. PICK lev :
        /\ Holds(u, n, lev, ps)
        /\ \A i \in Seat : win[i] = Total([j \in 1 .. Len(ps) |-> PotShare(u, lev[j], r, i)])
  BY <1>2 DEF PaidOut
<1>4. PICK len \in Nat : len = Len(ps)
  BY <1>2
<1>5. Passed(u, n) = OpenLevels(u)
  BY <1>2, <1>3, PotsComplete
<1>6. Ladder(u, n, lev, len)
  BY <1>3, <1>4 DEF Holds
<1>7. PICK T : T = OpenLevels(u)
  OBVIOUS
<1>8. lev \in [1 .. len -> T] /\ \A l \in T : \E k \in 1 .. len : lev[k] = l
  BY <1>5, <1>6, <1>7 DEF Ladder
<1>9. \A j, k \in 1 .. len : lev[j] = lev[k] => j = k
  BY <1>2, <1>4, <1>6, LadderInjective
<1>10. IsFiniteSet(1 .. len)
  BY FS_Interval
<1>11. u \in Table
  BY <1>2 DEF Full
<1>12. ASSUME NEW i \in Seat PROVE win[i] = Payout(u, r)[i]
  <2>1. PICK f : f = [j \in 1 .. len |-> PotShare(u, lev[j], r, i)]
    OBVIOUS
  <2>2. PICK g : g = [l \in T |-> PotShare(u, l, r, i)]
    OBVIOUS
  <2>3. f \in [1 .. len -> Nat] /\ g \in [T -> Nat]
    BY <1>11, <2>1, <2>2, PotShareType
  <2>4. \A k \in 1 .. len : f[k] = g[lev[k]]
    BY <1>8, <2>1, <2>2
  <2>5. Total(f) = Total(g)
    <3>1. Renames(1 .. len, T, f, g, lev)
      BY <1>8, <1>9, <2>4 DEF Renames
    <3> QED BY <1>10, <2>3, <3>1, TotalRenamed
  <2>6. Payout(u, r)[i] = Total(g)
    BY <1>7, <2>2 DEF Payout
  <2> QED BY <1>3, <1>4, <2>1, <2>5, <2>6
<1>13. Payout(u, r) \in [Seat -> Nat]
  BY <1>11, PayoutType
<1>14. win = Payout(u, r)
  BY <1>2, <1>12, <1>13
<1> QED BY <1>1, <1>14

\* What the winner in the lowest seat gets is an even share and what that leaves over.
LEMMA SharePlusRest ==
  ASSUME NEW a \in Int, NEW s \in Int, NEW n \in Int
  PROVE  a - s * (n - 1) = s + (a - n * s)
<1>1. s * (n - 1) = s * n - s
  OBVIOUS
<1>2. n * s = s * n
  OBVIOUS
<1>3. s * n \in Int /\ s * (n - 1) \in Int
  OBVIOUS
<1> QED BY <1>1, <1>2, <1>3

\* A winner's share of a pot is an even one and, for one of the winners, the odd chips.
LEMMA PotShareSplit ==
  ASSUME river \in Table, NEW level, NEW i \in Seat
  PROVE  PotShare(river, level, rank, i) = EvenShare(level, i) + OddChips(level, i)
<1>1. PICK W : W = PotWinners(river, level, rank)
  OBVIOUS
<1>2. PICK a : a = PotAmount(river, level)
  OBVIOUS
<1>3. a \in Nat
  BY <1>2, PotAmountType
<1>4. /\ EvenShare(level, i) = IF i \in W THEN a \div Cardinality(W) ELSE 0
      /\ OddChips(level, i) = IF i \in W /\ i = First(W)
                             THEN a - Cardinality(W) * (a \div Cardinality(W)) ELSE 0
      /\ PotShare(river, level, rank, i) =
           IF i \notin W THEN 0
           ELSE IF i = First(W) THEN a - (a \div Cardinality(W)) * (Cardinality(W) - 1)
                ELSE a \div Cardinality(W)
  BY <1>1, <1>2 DEF EvenShare, OddChips, PotShare
<1>5. CASE i \notin W
  BY <1>4, <1>5
<1>6. CASE i \in W
  <2>1. IsFiniteSet(W)
    BY <1>1, SeatFinite, FS_Subset DEF PotWinners, PotEligible, NotFolded, Occupied
  <2>2. PICK n : n = Cardinality(W)
    OBVIOUS
  <2>3. n \in Nat \ {0}
    BY <1>6, <2>1, <2>2, FS_CardinalityType, FS_EmptySet
  <2>4. PICK s : s = a \div n
    OBVIOUS
  <2>5. s \in Int
    BY <1>3, <2>3, <2>4
  <2>6. a - s * (n - 1) = s + (a - n * s)
    BY <1>3, <2>3, <2>5, SharePlusRest
  <2> QED BY <1>4, <1>6, <2>2, <2>4, <2>5, <2>6
<1> QED BY <1>5, <1>6

LEMMA EvenlyPaid == LoopInv => PaysPayout
<1> SUFFICES ASSUME LoopInv, phase = "done", NEW i \in Seat
             PROVE  winAmounts[i] =
                      Total([l \in OpenLevels(river) |-> EvenShare(l, i) + OddChips(l, i)])
  BY PayoutPaid DEF PaysPayout
<1>1. river \in Table
  BY DEF LoopInv, Full
<1>2. winAmounts[i] = Total([l \in OpenLevels(river) |-> PotShare(river, l, rank, i)])
  BY PayoutPaid DEF Payout
<1>3. \A l \in OpenLevels(river) : PotShare(river, l, rank, i) = EvenShare(l, i) + OddChips(l, i)
  BY <1>1, PotShareSplit
<1>4. [l \in OpenLevels(river) |-> PotShare(river, l, rank, i)] =
        [l \in OpenLevels(river) |-> EvenShare(l, i) + OddChips(l, i)]
  BY <1>3
<1> QED BY <1>2, <1>4

LEMMA BestPaid == LoopInv => BestHandIsPaid
<1> SUFFICES ASSUME LoopInv, phase = "done", NEW i \in NotFolded(river),
                    \A j \in NotFolded(river) \ {i} : rank[i] > rank[j]
             PROVE  winAmounts[i] >= Total([j \in Seat |-> Matched(i, j)])
  BY DEF BestHandIsPaid
<1>1. PICK u, r : u = river /\ r = rank
  OBVIOUS
<1>2. Full(u) /\ r \in [Seat -> Nat] /\ i \in NotFolded(u)
      /\ \A j \in NotFolded(u) \ {i} : r[i] > r[j]
  BY <1>1 DEF LoopInv
<1>3. Payout(u, r)[i] >= Total([j \in Seat |-> Least(u.totalBet[i], u.totalBet[j])])
  BY <1>2, BestHandPayout
<1>4. winAmounts = Payout(u, r)
  BY <1>1, PayoutPaid
<1> QED BY <1>1, <1>3, <1>4 DEF Matched

LEMMA UnmatchedUnpaid == LoopInv => NobodyWinsUnmatched
<1> SUFFICES ASSUME LoopInv, phase = "done", NEW i \in NotFolded(river)
             PROVE  LET top  == Last({river.totalBet[j] : j \in NotFolded(river)})
                        dead == Total([j \in Seat |->
                                  IF river.totalBet[j] > top THEN river.totalBet[j] - top ELSE 0])
                    IN  winAmounts[i] <= dead + Total([j \in Seat |-> Matched(i, j)])
  BY DEF NobodyWinsUnmatched
<1>1. PICK u, r : u = river /\ r = rank
  OBVIOUS
<1>2. Full(u) /\ r \in [Seat -> Nat] /\ i \in NotFolded(u)
  BY <1>1 DEF LoopInv
<1>3. PICK top : top = Last({u.totalBet[j] : j \in NotFolded(u)})
  OBVIOUS
<1>4. PICK d : d = [j \in Seat |-> IF u.totalBet[j] > top THEN u.totalBet[j] - top ELSE 0]
  OBVIOUS
<1>5. top \in Nat /\ \A j \in Seat : u.totalBet[j] \in Nat
  <2>1. \A j \in Seat : u.totalBet[j] \in Nat
    BY <1>2, ChipsSeated DEF Full
  <2>2. top \in {u.totalBet[j] : j \in NotFolded(u)}
    BY <1>2, <1>3, TopBet
  <2> QED BY <2>1, <2>2 DEF NotFolded, Occupied
<1>6. d \in [Seat -> Nat]
  BY <1>4, <1>5
<1>7. \A j \in Seat : d[j] = IF u.totalBet[j] > top THEN u.totalBet[j] - top ELSE 0
  BY <1>4
<1>8. Payout(u, r)[i] <= Total(d) + Total([j \in Seat |-> Least(u.totalBet[i], u.totalBet[j])])
  BY <1>2, <1>3, <1>6, <1>7, UnmatchedPayout
<1>9. winAmounts = Payout(u, r)
  BY <1>1, PayoutPaid
<1> QED BY <1>1, <1>3, <1>4, <1>8, <1>9 DEF Matched

\* At every iteration of buildPots the pots hold, of everyone's contribution, the
\* part up to the level reached, for any number of players and any contributions.
THEOREM PotsAlwaysHoldLevels == ShowdownSpec => []PotsHoldLevels
BY LoopsInvariant, HoldLevels, PTL

\* The loops of buildPots and performShowdown compute the payout by which
\* TableEngine, and the proofs about PokerTable, describe a showdown: an even share of
\* every pot for each of its winners, and its odd chips for the one in the lowest seat.
THEOREM LoopsPayPayout == ShowdownSpec => []PaysPayout
BY LoopsInvariant, EvenlyPaid, PTL

\* Whoever has the best hand of those still in wins from everybody all that he has
\* matched.
THEOREM BestHandAlwaysPaid == ShowdownSpec => []BestHandIsPaid
BY LoopsInvariant, BestPaid, PTL

\* Nobody still in wins more of a player's chips than he has matched, but for the
\* chips that only players who folded have put in.
THEOREM UnmatchedNeverWon == ShowdownSpec => []NobodyWinsUnmatched
BY LoopsInvariant, UnmatchedUnpaid, PTL

----------------------------------------------------------------------------
(***************************************************************************)
(* What a hand is worth (HandEvaluator).                                   *)
(***************************************************************************)

\* B puts the members of S in an order.
Orders(S, B) ==
  \A x, y, z \in S :
    /\ <<x, x>> \notin B
    /\ <<x, y>> \in B /\ <<y, z>> \in B => <<x, z>> \in B
    /\ x = y \/ <<x, y>> \in B \/ <<y, x>> \in B

\* The place of x is the number of those before it, counted from 0.
Place(S, B, x) == Cardinality({y \in S : <<y, x>> \in B})

LEMMA SortedPlace ==
  ASSUME NEW S, IsFiniteSet(S), NEW B, Orders(S, B), NEW x \in S
  PROVE  /\ Place(S, B, x) + 1 \in 1 .. Cardinality(S)
         /\ Sorted(S, B)[Place(S, B, x) + 1] = x
<1>1. ASSUME NEW z \in S, NEW y \in S, <<z, y>> \in B
      PROVE  Place(S, B, z) < Place(S, B, y)
  <2> DEFINE U == {w \in S : <<w, z>> \in B}
             V == {w \in S : <<w, y>> \in B}
  <2>1. U \in SUBSET V /\ z \in V /\ z \notin U
    BY <1>1 DEF Orders
  <2>2. IsFiniteSet(V) /\ IsFiniteSet(U)
    BY FS_Subset
  <2>3. Place(S, B, z) = Cardinality(U) /\ Place(S, B, y) = Cardinality(V)
    BY DEF Place
  <2> HIDE DEF U, V
  <2>4. Cardinality(U) <= Cardinality(V) /\ Cardinality(U) # Cardinality(V)
    BY <2>1, <2>2, FS_Subset
  <2> QED BY <2>2, <2>3, <2>4, FS_CardinalityType
<1> DEFINE U == {w \in S : <<w, x>> \in B}
<1>2. U \in SUBSET S /\ x \notin U /\ Place(S, B, x) = Cardinality(U)
  BY DEF Orders, Place
<1>3. PICK n \in Nat : n = Place(S, B, x) /\ n < Cardinality(S) /\ Cardinality(S) \in Nat
  <2> HIDE DEF U
  <2>1. IsFiniteSet(U) /\ Cardinality(U) <= Cardinality(S) /\ Cardinality(U) # Cardinality(S)
    BY <1>2, FS_Subset
  <2> QED BY <1>2, <2>1, FS_CardinalityType
<1>4. n + 1 \in 1 .. Cardinality(S) /\ (n + 1) - 1 = n
  BY <1>3
<1>5. \A z \in S : Place(S, B, z) = n => z = x
  <2> SUFFICES ASSUME NEW z \in S, Place(S, B, z) = n, z # x PROVE FALSE
    OBVIOUS
  <2>1. <<z, x>> \in B \/ <<x, z>> \in B
    BY DEF Orders
  <2> QED BY <1>1, <1>3, <2>1
<1>6. (CHOOSE z \in S : Cardinality({y \in S : <<y, z>> \in B}) = n) = x
  BY <1>3, <1>5 DEF Place
<1>7. Sorted(S, B)[n + 1]
        = CHOOSE z \in S : Cardinality({y \in S : <<y, z>> \in B}) = (n + 1) - 1
  BY <1>4 DEF Sorted
<1> QED BY <1>3, <1>4, <1>6, <1>7

\* Every place is taken, by the members of S in their order.
LEMMA SortedAll ==
  ASSUME NEW S, IsFiniteSet(S), NEW B, Orders(S, B)
  PROVE  /\ Cardinality(S) \in Nat
         /\ Sorted(S, B) \in Seq(S) /\ Len(Sorted(S, B)) = Cardinality(S)
         /\ \A i \in 1 .. Cardinality(S) : Sorted(S, B)[i] \in S
         /\ \A x \in S : \E i \in 1 .. Cardinality(S) : Sorted(S, B)[i] = x
         /\ \A i, j \in 1 .. Cardinality(S) : i < j => <<Sorted(S, B)[i], Sorted(S, B)[j]>> \in B
<1> DEFINE n == Cardinality(S)
           place == [x \in S |-> Place(S, B, x) + 1]
           s == Sorted(S, B)
<1>1. n \in Nat
  BY FS_CardinalityType
<1>2. \A x \in S : Place(S, B, x) + 1 \in 1 .. n /\ s[Place(S, B, x) + 1] = x
  BY SortedPlace
<1>3. place \in [S -> 1 .. n] /\ \A x \in S : s[place[x]] = x
  BY <1>2
<1> HIDE DEF place, s
<1>4. place \in Injection(S, 1 .. n)
  BY <1>3 DEF Injection, IsInjective
<1>5. IsFiniteSet(1 .. n) /\ Cardinality(1 .. n) = n
  BY <1>1, FS_Interval
<1>6. place \in Surjection(S, 1 .. n)
  BY <1>1, <1>4, <1>5, FS_Injection
<1>7. \A i \in 1 .. n : \E x \in S : place[x] = i
  BY <1>6 DEF Surjection
<1>8. \A i \in 1 .. n : s[i] \in S /\ place[s[i]] = i
  BY <1>3, <1>7
<1>9. s \in Seq(S) /\ Len(s) = n
  <2> DEFINE at(i) == CHOOSE x \in S : Cardinality({y \in S : <<y, x>> \in B}) = i - 1
  <2>1. s = [i \in 1 .. n |-> at(i)]
    BY Zenon DEF s, Sorted
  <2> HIDE DEF at
  <2>2. s \in [1 .. n -> S]
    BY <1>8, <2>1
  <2> QED BY <1>1, <2>2, SeqDef, LenProperties
<1>10. ASSUME NEW i \in 1 .. n, NEW j \in 1 .. n, i < j, <<s[i], s[j]>> \notin B PROVE FALSE
  <2>1. s[i] # s[j] /\ s[i] \in S /\ s[j] \in S
    BY <1>8, <1>10
  <2>2. <<s[j], s[i]>> \in B
    BY <1>10, <2>1 DEF Orders
  <2> DEFINE U == {w \in S : <<w, s[j]>> \in B}
             V == {w \in S : <<w, s[i]>> \in B}
  <2>3. U \in SUBSET V /\ s[j] \in V /\ s[j] \notin U
    BY <2>1, <2>2 DEF Orders
  <2>4. IsFiniteSet(U) /\ IsFiniteSet(V)
    BY FS_Subset
  <2>5. Cardinality(U) = j - 1 /\ Cardinality(V) = i - 1
    <3>1. Place(S, B, s[j]) = Cardinality(U) /\ Place(S, B, s[i]) = Cardinality(V)
      BY DEF Place
    <3>2. Place(S, B, s[j]) + 1 = j /\ Place(S, B, s[i]) + 1 = i
      BY <1>8, <2>1 DEF place
    <3>3. Cardinality(U) \in Nat /\ Cardinality(V) \in Nat
      <4> HIDE DEF U, V
      <4> QED BY <2>4, FS_CardinalityType
    <3> HIDE DEF U, V
    <3> QED BY <3>1, <3>2, <3>3
  <2>6. Cardinality(U) <= Cardinality(V)
    <3> HIDE DEF U, V
    <3> QED BY <2>3, <2>4, FS_Subset
  <2> HIDE DEF U, V
  <2> QED BY <1>1, <1>10, <2>5, <2>6
<1>11. \A x \in S : \E i \in 1 .. n : s[i] = x
  BY <1>3
<1> QED BY <1>1, <1>8, <1>9, <1>10, <1>11 DEF s

----------------------------------------------------------------------------
(* Cards and their ranks *)

OfRank(C, r) == {c \in C : c.rank = r}

Cards(C) == C \subseteq Card /\ IsFiniteSet(C)

LEMMA CardType ==
  \A c \in Card : c.rank \in 2 .. 14 /\ c.suit \in {"S", "H", "D", "C"}
BY DEF Card, Ace

LEMMA SameCard ==
  \A c, d \in Card : c.rank = d.rank /\ c.suit = d.suit => c = d
BY DEF Card

LEMMA RanksType ==
  ASSUME NEW C, Cards(C)
  PROVE  /\ Ranks(C) \subseteq 2 .. 14 /\ Ranks(C) \subseteq Nat /\ IsFiniteSet(Ranks(C))
         /\ Cardinality(Ranks(C)) \in Nat /\ Cardinality(Ranks(C)) <= Cardinality(C)
<1>1. Ranks(C) \subseteq 2 .. 14
  BY CardType DEF Ranks, Cards
<1> DEFINE f == [c \in C |-> c.rank]
<1>2. f \in Surjection(C, Ranks(C))
  BY DEF Surjection, Ranks
<1>3. IsFiniteSet(Ranks(C)) /\ Cardinality(Ranks(C)) <= Cardinality(C)
  <2> HIDE DEF f
  <2> QED BY <1>2, FS_Surjection DEF Cards
<1> QED BY <1>1, <1>3, FS_CardinalityType

LEMMA RankCount ==
  ASSUME NEW C, Cards(C), NEW r
  PROVE  /\ Count(C, r) = Cardinality(OfRank(C, r)) /\ Count(C, r) \in 0 .. 4
         /\ Count(C, r) >= 1 <=> r \in Ranks(C)
         /\ Cards(OfRank(C, r)) /\ OfRank(C, r) \subseteq C
<1>1. Cards(OfRank(C, r)) /\ OfRank(C, r) \subseteq C
  <2>1. OfRank(C, r) \subseteq C
    BY DEF OfRank
  <2> QED BY <2>1, FS_Subset DEF Cards
<1>2. Count(C, r) = Cardinality(OfRank(C, r))
  BY DEF Count, OfRank
<1>3. Cardinality(OfRank(C, r)) <= 4
  <2> DEFINE f == [c \in OfRank(C, r) |-> c.suit]
             T == {"S", "H", "D", "C"}
  <2>1. f \in Injection(OfRank(C, r), T)
    BY <1>1, CardType, SameCard DEF Injection, IsInjective, OfRank, Cards
  <2>2. IsFiniteSet(T) /\ Cardinality(T) = 4
    <3>1. IsFiniteSet({"S"}) /\ Cardinality({"S"}) = 1
      BY FS_Singleton
    <3>2. IsFiniteSet({"S"} \cup {"H"}) /\ Cardinality({"S"} \cup {"H"}) = 2
      BY <3>1, FS_AddElement
    <3>3. IsFiniteSet({"S"} \cup {"H"} \cup {"D"}) /\ Cardinality({"S"} \cup {"H"} \cup {"D"}) = 3
      BY <3>2, FS_AddElement
    <3>4. /\ IsFiniteSet({"S"} \cup {"H"} \cup {"D"} \cup {"C"})
          /\ Cardinality({"S"} \cup {"H"} \cup {"D"} \cup {"C"}) = 4
      BY <3>3, FS_AddElement
    <3>5. T = {"S"} \cup {"H"} \cup {"D"} \cup {"C"}
      OBVIOUS
    <3> QED BY <3>4, <3>5
  <2> HIDE DEF f, T
  <2> QED BY <2>1, <2>2, FS_Injection
<1>4. Cardinality(OfRank(C, r)) \in Nat
      /\ (Cardinality(OfRank(C, r)) = 0 <=> OfRank(C, r) = {})
  BY <1>1, FS_CardinalityType, FS_EmptySet DEF Cards
<1>5. OfRank(C, r) # {} <=> r \in Ranks(C)
  BY DEF OfRank, Ranks
<1> QED BY <1>1, <1>2, <1>3, <1>4, <1>5

----------------------------------------------------------------------------
(* Five cards in groups of one rank *)

ByCount(C) ==
  LET count == [r \in Ranks(C) |-> Count(C, r)]
  IN  {p \in Ranks(C) \X Ranks(C) :
         \/ count[p[1]] > count[p[2]]
         \/ count[p[1]] = count[p[2]] /\ p[1] > p[2]}

RankGroups(C) == Sorted(Ranks(C), ByCount(C))

LEMMA ByCountIs ==
  ASSUME NEW C, NEW x \in Ranks(C), NEW y \in Ranks(C)
  PROVE  <<x, y>> \in ByCount(C) <=>
           Count(C, x) > Count(C, y) \/ (Count(C, x) = Count(C, y) /\ x > y)
<1> DEFINE count == [r \in Ranks(C) |-> Count(C, r)]
<1>1. count[x] = Count(C, x) /\ count[y] = Count(C, y)
  OBVIOUS
<1>2. ByCount(C) = {p \in Ranks(C) \X Ranks(C) :
                       \/ count[p[1]] > count[p[2]]
                       \/ count[p[1]] = count[p[2]] /\ p[1] > p[2]}
  BY DEF ByCount
<1> HIDE DEF count
<1> QED BY <1>1, <1>2

\* g lists the n ranks of C, in the order of their groups.
Groups(C, g, n) ==
  /\ n \in Nat /\ g \in Seq(Nat) /\ Len(g) = n
  /\ \A i \in 1 .. n : g[i] \in Ranks(C) /\ g[i] \in 2 .. 14 /\ Count(C, g[i]) \in 1 .. 4
  /\ \A r \in Ranks(C) : \E i \in 1 .. n : g[i] = r
  /\ \A i, j \in 1 .. n : i < j =>
       \/ Count(C, g[i]) > Count(C, g[j])
       \/ Count(C, g[i]) = Count(C, g[j]) /\ g[i] > g[j]

LEMMA GroupsAll ==
  ASSUME NEW C, Cards(C)
  PROVE  Groups(C, RankGroups(C), Cardinality(Ranks(C)))
<1> SUFFICES ASSUME NEW g, g = RankGroups(C), NEW n, n = Cardinality(Ranks(C))
             PROVE  Groups(C, g, n)
  OBVIOUS
<1>1. /\ Ranks(C) \subseteq 2 .. 14 /\ Ranks(C) \subseteq Nat /\ IsFiniteSet(Ranks(C))
      /\ \A r \in Ranks(C) : Count(C, r) \in 1 .. 4
  <2>1. \A r \in Ranks(C) : Count(C, r) \in 0 .. 4 /\ Count(C, r) >= 1
    BY RankCount
  <2> QED BY <2>1, RanksType
<1>2. ASSUME NEW x \in Ranks(C), NEW y \in Ranks(C), NEW z \in Ranks(C)
      PROVE  /\ <<x, x>> \notin ByCount(C)
             /\ <<x, y>> \in ByCount(C) /\ <<y, z>> \in ByCount(C) => <<x, z>> \in ByCount(C)
             /\ x = y \/ <<x, y>> \in ByCount(C) \/ <<y, x>> \in ByCount(C)
  <2>1. /\ Count(C, x) \in Nat /\ Count(C, y) \in Nat /\ Count(C, z) \in Nat
        /\ x \in Nat /\ y \in Nat /\ z \in Nat
    BY <1>1
  <2>2. /\ <<x, x>> \in ByCount(C) <=>
             Count(C, x) > Count(C, x) \/ (Count(C, x) = Count(C, x) /\ x > x)
        /\ <<x, y>> \in ByCount(C) <=>
             Count(C, x) > Count(C, y) \/ (Count(C, x) = Count(C, y) /\ x > y)
        /\ <<y, x>> \in ByCount(C) <=>
             Count(C, y) > Count(C, x) \/ (Count(C, y) = Count(C, x) /\ y > x)
        /\ <<y, z>> \in ByCount(C) <=>
             Count(C, y) > Count(C, z) \/ (Count(C, y) = Count(C, z) /\ y > z)
        /\ <<x, z>> \in ByCount(C) <=>
             Count(C, x) > Count(C, z) \/ (Count(C, x) = Count(C, z) /\ x > z)
    BY ByCountIs
  <2> QED BY <2>1, <2>2
<1>3. Orders(Ranks(C), ByCount(C))
  BY <1>2 DEF Orders
<1>4. /\ n \in Nat /\ g \in Seq(Ranks(C)) /\ Len(g) = n
      /\ \A i \in 1 .. n : g[i] \in Ranks(C)
      /\ \A r \in Ranks(C) : \E i \in 1 .. n : g[i] = r
      /\ \A i, j \in 1 .. n : i < j => <<g[i], g[j]>> \in ByCount(C)
  <2>1. RankGroups(C) = Sorted(Ranks(C), ByCount(C))
    BY DEF RankGroups
  <2>2. /\ Cardinality(Ranks(C)) \in Nat
        /\ RankGroups(C) \in Seq(Ranks(C)) /\ Len(RankGroups(C)) = Cardinality(Ranks(C))
        /\ \A i \in 1 .. Cardinality(Ranks(C)) : RankGroups(C)[i] \in Ranks(C)
        /\ \A r \in Ranks(C) : \E i \in 1 .. Cardinality(Ranks(C)) : RankGroups(C)[i] = r
        /\ \A i, j \in 1 .. Cardinality(Ranks(C)) :
             i < j => <<RankGroups(C)[i], RankGroups(C)[j]>> \in ByCount(C)
    <3>1. IsFiniteSet(Ranks(C))
      BY <1>1
    <3> QED BY ONLY <1>3, <2>1, <3>1, SortedAll
  <2> QED BY ONLY <2>2, g = RankGroups(C), n = Cardinality(Ranks(C))
<1>5. g \in Seq(Nat)
  BY <1>1, <1>4, SeqMonotonic
<1>6. ASSUME NEW i \in 1 .. n, NEW j \in 1 .. n, i < j
      PROVE  \/ Count(C, g[i]) > Count(C, g[j])
             \/ Count(C, g[i]) = Count(C, g[j]) /\ g[i] > g[j]
  <2>1. <<g[i], g[j]>> \in ByCount(C) /\ g[i] \in Ranks(C) /\ g[j] \in Ranks(C)
    BY <1>4, <1>6
  <2> QED BY <2>1, ByCountIs
<1> QED BY <1>1, <1>4, <1>5, <1>6 DEF Groups

OfRanks(C, R) == {c \in C : c.rank \in R}

\* The cards of one more rank.
LEMMA OneMoreRank ==
  ASSUME NEW C, Cards(C), NEW R, NEW r, r \notin R
  PROVE  /\ Cardinality(OfRanks(C, R)) \in Nat
         /\ Cardinality(OfRanks(C, R \cup {r})) = Cardinality(OfRanks(C, R)) + Count(C, r)
<1> DEFINE S == OfRanks(C, R)
           T == OfRank(C, r)
<1>1. IsFiniteSet(S) /\ IsFiniteSet(T)
  BY FS_Subset DEF Cards, OfRanks, OfRank
<1>2. OfRanks(C, R \cup {r}) = S \cup T /\ S \cap T = {}
  BY DEF OfRanks, OfRank
<1>3. Cardinality(S) \in Nat /\ Cardinality(T) \in Nat
  BY <1>1, FS_CardinalityType
<1>4. Cardinality(T) = Count(C, r)
  BY RankCount
<1> HIDE DEF S, T
<1>5. Cardinality(S \cup T) = Cardinality(S) + Cardinality(T) - Cardinality(S \cap T)
  BY <1>1, FS_Union
<1>6. Cardinality(S \cap T) = 0
  BY <1>2, FS_EmptySet
<1>7. Cardinality(S \cup T) = Cardinality(S) + Cardinality(T)
  BY <1>3, <1>5, <1>6
<1> QED BY <1>2, <1>3, <1>4, <1>7 DEF S

\* As many as there are cards are those of each rank together.
LEMMA RankSums ==
  ASSUME NEW C, Cards(C), NEW a, NEW b, NEW c, NEW d, NEW e
  PROVE  /\ Ranks(C) = {a} => Cardinality(C) = Count(C, a)
         /\ Ranks(C) = {a, b} /\ a # b => Cardinality(C) = Count(C, a) + Count(C, b)
         /\ Ranks(C) = {a, b, c} /\ a # b /\ c \notin {a, b} =>
              Cardinality(C) = Count(C, a) + Count(C, b) + Count(C, c)
         /\ Ranks(C) = {a, b, c, d} /\ a # b /\ c \notin {a, b} /\ d \notin {a, b, c} =>
              Cardinality(C) = Count(C, a) + Count(C, b) + Count(C, c) + Count(C, d)
         /\ Ranks(C) = {a, b, c, d, e} /\ a # b /\ c \notin {a, b} /\ d \notin {a, b, c}
            /\ e \notin {a, b, c, d} =>
              Cardinality(C) = Count(C, a) + Count(C, b) + Count(C, c) + Count(C, d) + Count(C, e)
<1>1. OfRanks(C, Ranks(C)) = C /\ OfRanks(C, {}) = {}
  BY DEF OfRanks, Ranks
<1>2. Cardinality(OfRanks(C, {})) = 0
  BY <1>1, FS_EmptySet
<1>3. /\ Count(C, a) \in Nat /\ Count(C, b) \in Nat /\ Count(C, c) \in Nat
      /\ Count(C, d) \in Nat /\ Count(C, e) \in Nat
  BY RankCount
<1>4. Cardinality(OfRanks(C, {a})) = Count(C, a)
  <2>1. {a} = {} \cup {a} /\ a \notin {}
    OBVIOUS
  <2> QED BY <1>2, <1>3, <2>1, OneMoreRank
<1>5. a # b => Cardinality(OfRanks(C, {a, b})) = Count(C, a) + Count(C, b)
  <2>1. {a, b} = {a} \cup {b} /\ (a # b => b \notin {a})
    OBVIOUS
  <2> QED BY <1>4, <2>1, OneMoreRank
<1>6. a # b /\ c \notin {a, b} =>
        Cardinality(OfRanks(C, {a, b, c})) = Count(C, a) + Count(C, b) + Count(C, c)
  <2>1. {a, b, c} = {a, b} \cup {c}
    OBVIOUS
  <2> QED BY <1>5, <2>1, OneMoreRank
<1>7. a # b /\ c \notin {a, b} /\ d \notin {a, b, c} =>
        Cardinality(OfRanks(C, {a, b, c, d}))
          = Count(C, a) + Count(C, b) + Count(C, c) + Count(C, d)
  <2>1. {a, b, c, d} = {a, b, c} \cup {d}
    OBVIOUS
  <2> QED BY <1>6, <2>1, OneMoreRank
<1>8. a # b /\ c \notin {a, b} /\ d \notin {a, b, c} /\ e \notin {a, b, c, d} =>
        Cardinality(OfRanks(C, {a, b, c, d, e}))
          = Count(C, a) + Count(C, b) + Count(C, c) + Count(C, d) + Count(C, e)
  <2>1. {a, b, c, d, e} = {a, b, c, d} \cup {e}
    OBVIOUS
  <2> QED BY <1>7, <2>1, OneMoreRank
<1> QED BY <1>1, <1>4, <1>5, <1>6, <1>7, <1>8

Five(F) == Cards(F) /\ Cardinality(F) = 5

\* How five cards may fall into groups.
GroupShape(F, g, n) ==
  \/ n = 2 /\ Count(F, g[1]) = 4 /\ Count(F, g[2]) = 1
  \/ n = 2 /\ Count(F, g[1]) = 3 /\ Count(F, g[2]) = 2
  \/ n = 3 /\ Count(F, g[1]) = 3 /\ Count(F, g[2]) = 1 /\ Count(F, g[3]) = 1
  \/ n = 3 /\ Count(F, g[1]) = 2 /\ Count(F, g[2]) = 2 /\ Count(F, g[3]) = 1
  \/ n = 4 /\ Count(F, g[1]) = 2 /\ Count(F, g[2]) = 1 /\ Count(F, g[3]) = 1
     /\ Count(F, g[4]) = 1
  \/ n = 5 /\ \A i \in 1 .. 5 : Count(F, g[i]) = 1

LEMMA FiveGroups ==
  ASSUME NEW F, Five(F)
  PROVE  GroupShape(F, RankGroups(F), Cardinality(Ranks(F)))
<1> SUFFICES ASSUME NEW g, g = RankGroups(F), NEW n, n = Cardinality(Ranks(F))
             PROVE  GroupShape(F, g, n)
  OBVIOUS
<1> USE DEF GroupShape
<1>1. Cards(F) /\ Cardinality(F) = 5
  BY DEF Five
<1>2. /\ n \in Nat
      /\ \A i \in 1 .. n : g[i] \in Ranks(F) /\ g[i] \in Nat /\ Count(F, g[i]) \in 1 .. 4
      /\ \A r \in Ranks(F) : \E i \in 1 .. n : g[i] = r
      /\ \A i, j \in 1 .. n : i < j => Count(F, g[i]) >= Count(F, g[j]) /\ g[i] # g[j]
  <2>1. /\ n \in Nat
        /\ \A i \in 1 .. n : g[i] \in Ranks(F) /\ g[i] \in 2 .. 14 /\ Count(F, g[i]) \in 1 .. 4
        /\ \A r \in Ranks(F) : \E i \in 1 .. n : g[i] = r
        /\ \A i, j \in 1 .. n : i < j =>
              \/ Count(F, g[i]) > Count(F, g[j])
              \/ Count(F, g[i]) = Count(F, g[j]) /\ g[i] > g[j]
    <3>1. Groups(F, g, n)
      BY <1>1, GroupsAll
    <3> QED BY <3>1 DEF Groups
  <2>2. ASSUME NEW i \in 1 .. n, NEW j \in 1 .. n, i < j
        PROVE  Count(F, g[i]) >= Count(F, g[j]) /\ g[i] # g[j]
    <3>1. Count(F, g[i]) \in Nat /\ Count(F, g[j]) \in Nat /\ g[i] \in Nat /\ g[j] \in Nat
      BY <2>1
    <3>2. \/ Count(F, g[i]) > Count(F, g[j])
          \/ Count(F, g[i]) = Count(F, g[j]) /\ g[i] > g[j]
      BY <2>1, <2>2
    <3> QED BY <3>1, <3>2
  <2>3. \A i \in 1 .. n : g[i] \in Nat
    BY <2>1
  <2> QED BY <2>1, <2>2, <2>3
<1>3. n <= 5
  BY <1>1, RanksType
<1>4. n # 0
  <2>1. Ranks(F) # {}
    <3>1. F # {}
      BY <1>1, FS_EmptySet
    <3> QED BY <3>1 DEF Ranks
  <2> QED BY <1>2, <2>1
<1>5. n # 1
  <2> SUFFICES ASSUME n = 1 PROVE FALSE
    OBVIOUS
  <2>1. Ranks(F) = {g[1]} /\ Count(F, g[1]) \in 1 .. 4
    BY <1>2
  <2> QED BY <1>1, <2>1, RankSums
<1>6. CASE n = 2
  <2>1. /\ 1 \in 1 .. n /\ 2 \in 1 .. n
        /\ \A i \in 1 .. n : i \in {1, 2}
    BY <1>6
  <2>2. g[1] # g[2] /\ Ranks(F) = {g[1], g[2]} /\ Count(F, g[1]) >= Count(F, g[2])
        /\ Count(F, g[1]) \in 1 .. 4 /\ Count(F, g[2]) \in 1 .. 4
    BY <1>2, <2>1
  <2>3. Count(F, g[1]) + Count(F, g[2]) = 5
    BY <1>1, <2>2, RankSums
  <2> QED BY <1>6, <2>2, <2>3
<1>7. CASE n = 3
  <2>1. /\ 1 \in 1 .. n /\ 2 \in 1 .. n /\ 3 \in 1 .. n
        /\ \A i \in 1 .. n : i \in {1, 2, 3}
    BY <1>7
  <2>2. /\ g[1] # g[2] /\ g[3] \notin {g[1], g[2]} /\ Ranks(F) = {g[1], g[2], g[3]}
        /\ Count(F, g[1]) >= Count(F, g[2]) /\ Count(F, g[2]) >= Count(F, g[3])
        /\ Count(F, g[1]) \in 1 .. 4 /\ Count(F, g[2]) \in 1 .. 4 /\ Count(F, g[3]) \in 1 .. 4
    BY <1>2, <2>1
  <2>3. Count(F, g[1]) + Count(F, g[2]) + Count(F, g[3]) = 5
    BY <1>1, <2>2, RankSums
  <2> QED BY <1>7, <2>2, <2>3
<1>8. CASE n = 4
  <2>1. /\ 1 \in 1 .. n /\ 2 \in 1 .. n /\ 3 \in 1 .. n /\ 4 \in 1 .. n
        /\ \A i \in 1 .. n : i \in {1, 2, 3, 4}
    BY <1>8
  <2>2. /\ g[1] # g[2] /\ g[3] \notin {g[1], g[2]} /\ g[4] \notin {g[1], g[2], g[3]}
        /\ Ranks(F) = {g[1], g[2], g[3], g[4]}
    BY <1>2, <2>1
  <2>3. /\ Count(F, g[1]) >= Count(F, g[2]) /\ Count(F, g[2]) >= Count(F, g[3])
        /\ Count(F, g[3]) >= Count(F, g[4])
        /\ Count(F, g[1]) \in 1 .. 4 /\ Count(F, g[2]) \in 1 .. 4 /\ Count(F, g[3]) \in 1 .. 4
        /\ Count(F, g[4]) \in 1 .. 4
    BY <1>2, <2>1
  <2>4. Count(F, g[1]) + Count(F, g[2]) + Count(F, g[3]) + Count(F, g[4]) = 5
    BY <1>1, <2>2, RankSums
  <2> QED BY <1>8, <2>3, <2>4
<1>9. CASE n = 5
  <2>1. /\ 1 \in 1 .. n /\ 2 \in 1 .. n /\ 3 \in 1 .. n /\ 4 \in 1 .. n /\ 5 \in 1 .. n
        /\ \A i \in 1 .. n : i \in {1, 2, 3, 4, 5}
    BY <1>9
  <2>2. /\ g[1] # g[2] /\ g[3] \notin {g[1], g[2]} /\ g[4] \notin {g[1], g[2], g[3]}
        /\ g[5] \notin {g[1], g[2], g[3], g[4]}
        /\ Ranks(F) = {g[1], g[2], g[3], g[4], g[5]}
    BY <1>2, <2>1
  <2>3. /\ Count(F, g[1]) \in 1 .. 4 /\ Count(F, g[2]) \in 1 .. 4 /\ Count(F, g[3]) \in 1 .. 4
        /\ Count(F, g[4]) \in 1 .. 4 /\ Count(F, g[5]) \in 1 .. 4
    BY <1>2, <2>1
  <2>4. Count(F, g[1]) + Count(F, g[2]) + Count(F, g[3]) + Count(F, g[4]) + Count(F, g[5]) = 5
    BY <1>1, <2>2, RankSums
  <2>5. /\ Count(F, g[1]) = 1 /\ Count(F, g[2]) = 1 /\ Count(F, g[3]) = 1
        /\ Count(F, g[4]) = 1 /\ Count(F, g[5]) = 1
    BY <2>3, <2>4
  <2> QED BY <1>9, <2>1, <2>5
<1> QED BY <1>2, <1>3, <1>4, <1>5, <1>6, <1>7, <1>8, <1>9

----------------------------------------------------------------------------
(* Straights *)

\* The ranks of a straight that t ends.
RunOf(t) == IF t = 5 THEN {14, 2, 3, 4, 5} ELSE (t - 4) .. t

LEMMA FiveInARow ==
  ASSUME NEW t \in Nat, t >= 5
  PROVE  IsFiniteSet((t - 4) .. t) /\ Cardinality((t - 4) .. t) = 5
<1>1. (t - 4) \in Int /\ t \in Int
  OBVIOUS
<1>2. /\ IsFiniteSet((t - 4) .. t)
      /\ Cardinality((t - 4) .. t) = IF (t - 4) > t THEN 0 ELSE t - (t - 4) + 1
  BY <1>1, FS_Interval
<1> QED BY <1>2

LEMMA ThreeValues ==
  ASSUME NEW a, NEW b, NEW c, a # b, c \notin {a, b}
  PROVE  IsFiniteSet({a, b, c}) /\ Cardinality({a, b, c}) = 3
<1>1. IsFiniteSet({a}) /\ Cardinality({a}) = 1
  BY FS_Singleton
<1>2. IsFiniteSet({a} \cup {b}) /\ Cardinality({a} \cup {b}) = 2
  <2>1. b \notin {a}
    OBVIOUS
  <2> QED BY <1>1, <2>1, FS_AddElement
<1>3. {a} \cup {b} = {a, b} /\ {a, b} \cup {c} = {a, b, c}
  OBVIOUS
<1> QED BY <1>2, <1>3, FS_AddElement

LEMMA FiveValues ==
  ASSUME NEW a, NEW b, NEW c, NEW d, NEW e,
         a # b, c \notin {a, b}, d \notin {a, b, c}, e \notin {a, b, c, d}
  PROVE  IsFiniteSet({a, b, c, d, e}) /\ Cardinality({a, b, c, d, e}) = 5
<1>1. IsFiniteSet({a, b, c}) /\ Cardinality({a, b, c}) = 3
  BY ThreeValues
<1>2. {a, b, c} \cup {d} = {a, b, c, d} /\ {a, b, c, d} \cup {e} = {a, b, c, d, e}
  OBVIOUS
<1>3. IsFiniteSet({a, b, c, d}) /\ Cardinality({a, b, c, d}) = 4
  BY <1>1, <1>2, FS_AddElement
<1> QED BY <1>2, <1>3, FS_AddElement

LEMMA RunCard ==
  ASSUME NEW t \in 5 .. 14
  PROVE  IsFiniteSet(RunOf(t)) /\ Cardinality(RunOf(t)) = 5
<1>1. CASE t = 5
  <2>1. RunOf(t) = {14, 2, 3, 4, 5}
    BY <1>1 DEF RunOf
  <2>2. PICK a, b, c, d, e : a = 14 /\ b = 2 /\ c = 3 /\ d = 4 /\ e = 5
    OBVIOUS
  <2>3. a # b /\ c \notin {a, b} /\ d \notin {a, b, c} /\ e \notin {a, b, c, d}
    BY <2>2
  <2>4. IsFiniteSet({a, b, c, d, e}) /\ Cardinality({a, b, c, d, e}) = 5
    BY ONLY <2>3, FiveValues
  <2>5. RunOf(t) = {a, b, c, d, e}
    BY <2>1, <2>2
  <2> QED BY ONLY <2>4, <2>5
<1>2. CASE t # 5
  <2>1. RunOf(t) = (t - 4) .. t
    BY <1>2 DEF RunOf
  <2> QED BY <2>1, FiveInARow
<1> QED BY <1>1, <1>2

\* The last of some ranks.
LEMMA TopOf ==
  ASSUME NEW R, R \subseteq 0 .. 14, R # {}
  PROVE  Top(R) \in R /\ \A q \in R : q <= Top(R)
<1> DEFINE P(m) == \A q \in R : q <= m
<1>1. \E r \in R : \A q \in R : q <= r
  <2> DEFINE has(k) == \E r \in R : r >= k
  <2>1. has(0)
    <3>1. PICK r \in R : TRUE
      OBVIOUS
    <3> QED BY <3>1
  <2>2. ~ has(15)
    OBVIOUS
  <2>3. \E k \in 0 .. 14 : has(k) /\ ~ has(k + 1)
    <3> HIDE DEF has
    <3> QED BY <2>1, <2>2
  <2>4. PICK k \in 0 .. 14 : has(k) /\ ~ has(k + 1)
    BY <2>3
  <2>5. PICK r \in R : r >= k
    BY <2>4
  <2>6. \A q \in R : q <= r
    BY <2>4, <2>5
  <2> QED BY <2>6
<1> QED BY <1>1 DEF Top

LEMMA TopIs ==
  ASSUME NEW R, R \subseteq 0 .. 14, NEW r \in R, \A q \in R : q <= r
  PROVE  Top(R) = r
<1>1. PICK m \in R : m = Top(R) /\ \A q \in R : q <= m
  BY TopOf
<1> QED BY <1>1

\* straightHigh finds the straight that five cards are.
LEMMA StraightHighIs ==
  ASSUME NEW C, Cards(C)
  PROVE  /\ StraightHigh(C) \in {0} \cup 5 .. 14
         /\ StraightHigh(C) # 0 => Ranks(C) = RunOf(StraightHigh(C))
         /\ \A t \in 5 .. 14 : Ranks(C) = RunOf(t) => StraightHigh(C) = t
<1>1. Ranks(C) \subseteq 2 .. 14 /\ IsFiniteSet(Ranks(C))
  BY RanksType
<1> DEFINE R == Ranks(C)
           row == Cardinality(R) = 5 /\ \A q \in R : Top(R) - q <= 4
<1>2. StraightHigh(C) = IF row THEN Top(R) ELSE IF R = {14, 2, 3, 4, 5} THEN 5 ELSE 0
  BY DEF StraightHigh, Ace
<1>3. ASSUME row PROVE Top(R) \in 6 .. 14 /\ R = (Top(R) - 4) .. Top(R)
  <2>1. R # {}
    BY <1>3, FS_EmptySet
  <2>2. PICK m \in R : m = Top(R) /\ \A q \in R : q <= m
    BY <1>1, <2>1, TopOf
  <2>3. m \in 2 .. 14 /\ R \subseteq (m - 4) .. m
    BY <1>1, <1>3, <2>2
  <2>4. m >= 5
    <3> SUFFICES ASSUME m < 5 PROVE FALSE
      BY <2>3
    <3>1. R \subseteq {2, 3, 4}
      BY <1>1, <2>2, <2>3
    <3>2. IsFiniteSet({2, 3, 4}) /\ Cardinality({2, 3, 4}) = 3
      <4>1. 2 # 3 /\ 4 \notin {2, 3}
        OBVIOUS
      <4>2. PICK a, b, c : a = 2 /\ b = 3 /\ c = 4
        OBVIOUS
      <4>3. a # b /\ c \notin {a, b}
        BY <4>2
      <4>4. IsFiniteSet({a, b, c}) /\ Cardinality({a, b, c}) = 3
        BY ONLY <4>3, ThreeValues
      <4> QED BY <4>2, <4>4
    <3> DEFINE low == {2, 3, 4}
    <3>3. R \in SUBSET low /\ IsFiniteSet(low) /\ Cardinality(low) = 3
      BY <3>1, <3>2
    <3> HIDE DEF R, low
    <3>4. Cardinality(R) <= 3
      BY <3>3, FS_Subset
    <3> QED BY <1>3, <3>4 DEF row
  <2>5. IsFiniteSet((m - 4) .. m) /\ Cardinality((m - 4) .. m) = 5
    BY <2>3, <2>4, FiveInARow
  <2>6. R = (m - 4) .. m
    <3>1. Cardinality(R) = Cardinality((m - 4) .. m)
      BY <1>3, <2>5
    <3> HIDE DEF R
    <3> QED BY <2>3, <2>5, <3>1, FS_Subset
  <2>7. m - 4 \in R
    BY <2>3, <2>6
  <2> QED BY <1>1, <2>2, <2>3, <2>6, <2>7
<1>4. ASSUME NEW t \in 6 .. 14, R = (t - 4) .. t PROVE row /\ Top(R) = t
  <2>1. t \in R /\ \A q \in R : q <= t /\ t - q <= 4
    BY <1>4
  <2>2. Top(R) = t
    <3>1. R \subseteq 0 .. 14
      BY <1>1
    <3> HIDE DEF R
    <3> QED BY <2>1, <3>1, TopIs
  <2>3. Cardinality(R) = 5
    BY <1>4, FiveInARow
  <2> HIDE DEF R
  <2> QED BY <2>1, <2>2, <2>3
<1>5. R = {14, 2, 3, 4, 5} => ~ row
  <2> SUFFICES ASSUME R = {14, 2, 3, 4, 5}, row PROVE FALSE
    OBVIOUS
  <2>1. Top(R) \in 6 .. 14 /\ R = (Top(R) - 4) .. Top(R)
    BY <1>3
  <2>2. 2 \in R /\ 14 \in R
    OBVIOUS
  <2> HIDE DEF R
  <2> QED BY <2>1, <2>2
<1> HIDE DEF row
<1>6. CASE row
  <2>1. StraightHigh(C) = Top(R) /\ Top(R) \in 6 .. 14 /\ R = RunOf(Top(R))
    BY <1>2, <1>3, <1>6 DEF RunOf
  <2>2. ASSUME NEW t \in 5 .. 14, R = RunOf(t) PROVE Top(R) = t
    <3>1. t # 5
      BY <1>5, <1>6, <2>2 DEF RunOf
    <3>2. t \in 6 .. 14 /\ R = (t - 4) .. t
      BY <2>2, <3>1 DEF RunOf
    <3> QED BY <1>4, <3>2
  <2> QED BY <2>1, <2>2
<1>7. CASE ~ row /\ R = {14, 2, 3, 4, 5}
  <2>1. StraightHigh(C) = 5 /\ R = RunOf(5)
    BY <1>2, <1>7 DEF RunOf
  <2>2. ASSUME NEW t \in 5 .. 14, R = RunOf(t) PROVE t = 5
    <3> SUFFICES ASSUME t # 5 PROVE FALSE
      OBVIOUS
    <3>1. t \in 6 .. 14 /\ R = (t - 4) .. t
      BY <2>2 DEF RunOf
    <3> QED BY <1>4, <1>7, <3>1
  <2> QED BY <2>1, <2>2
<1>8. CASE ~ row /\ R # {14, 2, 3, 4, 5}
  <2>1. StraightHigh(C) = 0
    BY <1>2, <1>8
  <2>2. ASSUME NEW t \in 5 .. 14, R = RunOf(t) PROVE FALSE
    <3>1. t # 5
      BY <1>8, <2>2 DEF RunOf
    <3>2. t \in 6 .. 14 /\ R = (t - 4) .. t
      BY <2>2, <3>1 DEF RunOf
    <3> QED BY <1>4, <1>8, <3>2
  <2> QED BY <2>1, <2>2
<1> QED BY <1>6, <1>7, <1>8

\* StraightTop finds the highest straight among some ranks.
LEMMA StraightTopIs ==
  ASSUME NEW R, R \subseteq 2 .. 14
  PROVE  /\ StraightTop(R) \in {0} \cup 5 .. 14
         /\ StraightTop(R) # 0 => RunOf(StraightTop(R)) \subseteq R
         /\ \A t \in 5 .. 14 : RunOf(t) \subseteq R => StraightTop(R) >= t
<1> DEFINE low == IF 14 \in R THEN R \cup {1} ELSE R
           tops == {r \in 5 .. 14 : (r - 4) .. r \subseteq low}
<1>1. StraightTop(R) = IF tops = {} THEN 0 ELSE Top(tops)
  BY DEF StraightTop, Ace
<1>2. ASSUME NEW t \in 5 .. 14 PROVE t \in tops <=> RunOf(t) \subseteq R
  <2>1. CASE t = 5
    <3>1. (t - 4) .. t = {1, 2, 3, 4, 5} /\ RunOf(t) = {14, 2, 3, 4, 5}
      BY <2>1 DEF RunOf
    <3>2. 1 \notin R
      OBVIOUS
    <3> QED BY <3>1, <3>2
  <2>2. CASE t # 5
    <3>1. RunOf(t) = (t - 4) .. t /\ 1 \notin (t - 4) .. t
      BY <2>2 DEF RunOf
    <3> QED BY <3>1
  <2> QED BY <2>1, <2>2
<1>3. tops \subseteq 5 .. 14
  OBVIOUS
<1> HIDE DEF tops
<1>4. CASE tops = {}
  BY <1>1, <1>2, <1>4
<1>5. CASE tops # {}
  <2>1. Top(tops) \in tops /\ \A q \in tops : q <= Top(tops)
    <3>1. tops \subseteq 0 .. 14
      BY <1>3
    <3> QED BY <1>5, <3>1, TopOf
  <2>2. StraightTop(R) = Top(tops)
    BY <1>1, <1>5
  <2> QED BY <1>2, <1>3, <2>1, <2>2
<1> QED BY <1>4, <1>5

----------------------------------------------------------------------------
(* What evaluate5 makes of five cards *)

OneSuit(C) == Cardinality(Suits(C)) = 1

CountsOf(C) ==
  LET count == [r \in Ranks(C) |-> Count(C, r)]
  IN  [i \in 1 .. Len(RankGroups(C)) |-> count[RankGroups(C)[i]]]

\* The verdict on groups g with k cards each, t what straightHigh says.
Verdict(C, g, k, t) ==
  CASE OneSuit(C) /\ t = 14              -> <<10, t>>
    [] OneSuit(C) /\ t \in 1 .. 13       -> <<9, t>>
    [] k[1] = 4                          -> <<8>> \o g
    [] k[1] = 3 /\ k[2] = 2              -> <<7>> \o g
    [] OneSuit(C) /\ t = 0               -> <<6>> \o g
    [] ~ OneSuit(C) /\ t # 0             -> <<5, t>>
    [] k[1] = 3 /\ k[2] = 1              -> <<4>> \o g
    [] k[1] = 2 /\ k[2] = 2              -> <<3>> \o g
    [] k[1] = 2 /\ k[2] = 1              -> <<2>> \o g
    [] ~ OneSuit(C) /\ t = 0 /\ k[1] = 1 -> <<1>> \o g

LEMMA EvaluateIs ==
  \A C : Evaluate5(C) = Verdict(C, RankGroups(C), CountsOf(C), StraightHigh(C))
<1>1. 14 - 1 = 13
  OBVIOUS
<1> QED BY <1>1 DEF Evaluate5, Verdict, OneSuit, CountsOf, RankGroups, ByCount, Ace

\* A score of hand h with n values.
Shape(v, h, n) == v \in Seq(Nat) /\ Len(v) = n + 1 /\ v[1] = h

LEMMA AfterHead ==
  ASSUME NEW h \in Nat, NEW g \in Seq(Nat)
  PROVE  /\ Shape(<<h>> \o g, h, Len(g))
         /\ \A i \in 1 .. Len(g) : (<<h>> \o g)[i + 1] = g[i]
<1>1. <<h>> \o g \in Seq(Nat) /\ Len(<<h>> \o g) = Len(g) + 1
  OBVIOUS
<1>2. \A i \in 1 .. (1 + Len(g)) : (<<h>> \o g)[i] = IF i = 1 THEN h ELSE g[i - 1]
  OBVIOUS
<1>3. Len(g) \in Nat
  OBVIOUS
<1>4. ASSUME NEW i \in 1 .. Len(g) PROVE (<<h>> \o g)[i + 1] = g[i]
  <2>1. i + 1 \in 1 .. (1 + Len(g)) /\ i + 1 # 1 /\ (i + 1) - 1 = i
    BY <1>3
  <2> QED BY <1>2, <2>1
<1> QED BY <1>1, <1>2, <1>3, <1>4 DEF Shape

LEMMA Pairing ==
  ASSUME NEW h \in Nat, NEW a \in Nat
  PROVE  Shape(<<h, a>>, h, 1) /\ <<h, a>>[2] = a
BY DEF Shape

LEMMA CountsAre ==
  ASSUME NEW C, Cards(C), NEW n, n = Cardinality(Ranks(C)), NEW g, g = RankGroups(C)
  PROVE  \A i \in 1 .. n : CountsOf(C)[i] = Count(C, g[i])
<1>1. Groups(C, g, n)
  BY GroupsAll
<1> DEFINE count == [r \in Ranks(C) |-> Count(C, r)]
<1>2. \A r \in Ranks(C) : count[r] = Count(C, r)
  OBVIOUS
<1>3. CountsOf(C) = [i \in 1 .. Len(g) |-> count[g[i]]]
  BY DEF CountsOf
<1> HIDE DEF count
<1> QED BY <1>1, <1>2, <1>3 DEF Groups

\* Cards no two of which have a rank have as many ranks.
LEMMA ManyRanks ==
  ASSUME NEW C, Cards(C), \A c, d \in C : c.rank = d.rank => c = d
  PROVE  Cardinality(Ranks(C)) = Cardinality(C)
<1> DEFINE f == [c \in C |-> c.rank]
<1>1. f \in Injection(C, Ranks(C))
  BY DEF Injection, IsInjective, Ranks
<1>2. IsFiniteSet(Ranks(C)) /\ Cardinality(Ranks(C)) <= Cardinality(C)
      /\ Cardinality(Ranks(C)) \in Nat /\ Cardinality(C) \in Nat
  BY RanksType, FS_CardinalityType DEF Cards
<1>3. Cardinality(C) <= Cardinality(Ranks(C))
  <2> HIDE DEF f
  <2> QED BY <1>1, <1>2, FS_Injection
<1> QED BY <1>2, <1>3

LEMMA OneSuitIs ==
  ASSUME NEW C, Cards(C), C # {}
  PROVE  OneSuit(C) <=> \A c, d \in C : c.suit = d.suit
<1>1. ASSUME OneSuit(C) PROVE \A c, d \in C : c.suit = d.suit
  <2>1. IsFiniteSet(Suits(C))
    <3> DEFINE f == [c \in C |-> c.suit]
    <3>1. f \in Surjection(C, Suits(C))
      BY DEF Surjection, Suits
    <3> HIDE DEF f
    <3> QED BY <3>1, FS_Surjection DEF Cards
  <2>2. PICK s : Suits(C) = {s}
    BY <1>1, <2>1, FS_Singleton DEF OneSuit
  <2> QED BY <2>2 DEF Suits
<1>2. ASSUME \A c, d \in C : c.suit = d.suit PROVE OneSuit(C)
  <2>1. PICK c \in C : TRUE
    OBVIOUS
  <2>2. Suits(C) = {c.suit}
    BY <1>2, <2>1 DEF Suits
  <2> QED BY <2>2, FS_Singleton DEF OneSuit
<1> QED BY <1>1, <1>2

\* Cards of one suit have different ranks.
LEMMA OneSuitRanks ==
  ASSUME NEW C, Cards(C), C # {}, OneSuit(C)
  PROVE  Cardinality(Ranks(C)) = Cardinality(C)
<1>1. \A c, d \in C : c.rank = d.rank => c = d
  BY OneSuitIs, SameCard DEF Cards
<1> QED BY <1>1, ManyRanks

\* No two cards are of a rank.
Singles(C) == \A r \in Ranks(C) : Count(C, r) = 1

NoRun(C) == \A t \in 5 .. 14 : Ranks(C) # RunOf(t)

Falling(v, i, j, k) == v[i] > v[j] /\ v[j] > v[k]

\* How v reads when the five cards are each of the hands.
StraightFlushRead(F, v) ==
  /\ Shape(v, IF v[2] = 14 THEN 10 ELSE 9, 1)
  /\ v[2] \in 5 .. 14 /\ Ranks(F) = RunOf(v[2]) /\ OneSuit(F) /\ Singles(F)

FourRead(F, v) ==
  /\ Shape(v, 8, 2) /\ Ranks(F) = {v[2], v[3]} /\ v[2] # v[3]
  /\ Count(F, v[2]) = 4 /\ Count(F, v[3]) = 1

FullRead(F, v) ==
  /\ Shape(v, 7, 2) /\ Ranks(F) = {v[2], v[3]} /\ v[2] # v[3]
  /\ Count(F, v[2]) = 3 /\ Count(F, v[3]) = 2

FlushRead(F, v) ==
  /\ Shape(v, 6, 5) /\ Ranks(F) = {v[2], v[3], v[4], v[5], v[6]}
  /\ Falling(v, 2, 3, 4) /\ Falling(v, 4, 5, 6)
  /\ OneSuit(F) /\ NoRun(F) /\ Singles(F)

StraightRead(F, v) ==
  /\ Shape(v, 5, 1)
  /\ v[2] \in 5 .. 14 /\ Ranks(F) = RunOf(v[2]) /\ ~ OneSuit(F) /\ Singles(F)

ThreeRead(F, v) ==
  /\ Shape(v, 4, 3) /\ Ranks(F) = {v[2], v[3], v[4]} /\ v[2] \notin {v[3], v[4]} /\ v[3] > v[4]
  /\ Count(F, v[2]) = 3 /\ Count(F, v[3]) = 1 /\ Count(F, v[4]) = 1

TwoPairRead(F, v) ==
  /\ Shape(v, 3, 3) /\ Ranks(F) = {v[2], v[3], v[4]} /\ v[2] > v[3] /\ v[4] \notin {v[2], v[3]}
  /\ Count(F, v[2]) = 2 /\ Count(F, v[3]) = 2 /\ Count(F, v[4]) = 1

PairRead(F, v) ==
  /\ Shape(v, 2, 4) /\ Ranks(F) = {v[2], v[3], v[4], v[5]} /\ v[2] \notin {v[3], v[4], v[5]}
  /\ Falling(v, 3, 4, 5)
  /\ Count(F, v[2]) = 2 /\ Count(F, v[3]) = 1 /\ Count(F, v[4]) = 1 /\ Count(F, v[5]) = 1

HighRead(F, v) ==
  /\ Shape(v, 1, 5) /\ Ranks(F) = {v[2], v[3], v[4], v[5], v[6]}
  /\ Falling(v, 2, 3, 4) /\ Falling(v, 4, 5, 6)
  /\ ~ OneSuit(F) /\ NoRun(F) /\ Singles(F)

Reads(F, v) ==
  \/ StraightFlushRead(F, v) \/ FourRead(F, v) \/ FullRead(F, v) \/ FlushRead(F, v)
  \/ StraightRead(F, v) \/ ThreeRead(F, v) \/ TwoPairRead(F, v) \/ PairRead(F, v)
  \/ HighRead(F, v)

LEMMA EvaluateReads ==
  ASSUME NEW F, Five(F)
  PROVE  Reads(F, Evaluate5(F))
<1>1. Cards(F) /\ Cardinality(F) = 5 /\ F # {}
  BY FS_EmptySet DEF Five
<1>2. PICK g, k, t, n : /\ g = RankGroups(F) /\ k = CountsOf(F) /\ t = StraightHigh(F)
                        /\ n = Cardinality(Ranks(F))
  OBVIOUS
<1>3. PICK v : v = Evaluate5(F)
  OBVIOUS
<1>4. v = Verdict(F, g, k, t)
  BY <1>2, <1>3, EvaluateIs
<1>5. Groups(F, g, n)
  BY <1>1, <1>2, GroupsAll
<1>6. \A i \in 1 .. n : k[i] = Count(F, g[i])
  BY <1>1, <1>2, CountsAre
<1>7. /\ t \in {0} \cup 5 .. 14
      /\ t # 0 => Ranks(F) = RunOf(t)
      /\ \A u \in 5 .. 14 : Ranks(F) = RunOf(u) => t = u
  BY <1>1, <1>2, StraightHighIs
<1>8. n # 5 => t = 0 /\ ~ OneSuit(F)
  <2>1. t # 0 => n = 5
    BY <1>2, <1>7, RunCard
  <2>2. OneSuit(F) => n = 5
    BY <1>1, <1>2, OneSuitRanks
  <2> QED BY <2>1, <2>2
<1>9. /\ g \in Seq(Nat) /\ Len(g) = n /\ n \in Nat
      /\ \A i \in 1 .. n : g[i] \in Ranks(F) /\ g[i] \in Nat
      /\ \A r \in Ranks(F) : \E i \in 1 .. n : g[i] = r
      /\ \A i, j \in 1 .. n : i < j =>
           \/ Count(F, g[i]) > Count(F, g[j])
           \/ Count(F, g[i]) = Count(F, g[j]) /\ g[i] > g[j]
  BY <1>5 DEF Groups
<1>10. \A h \in Nat : v = <<h>> \o g => Shape(v, h, n) /\ \A i \in 1 .. n : v[i + 1] = g[i]
  <2> SUFFICES ASSUME NEW h \in Nat, v = <<h>> \o g
               PROVE  Shape(v, h, n) /\ \A i \in 1 .. n : v[i + 1] = g[i]
    OBVIOUS
  <2>1. /\ Shape(<<h>> \o g, h, Len(g))
        /\ \A i \in 1 .. Len(g) : (<<h>> \o g)[i + 1] = g[i]
    BY <1>9, AfterHead
  <2> QED BY <1>9, <2>1
<1>15. GroupShape(F, g, n)
  BY <1>2, FiveGroups
<1>11. CASE n = 2
  <2>1. /\ 1 \in 1 .. n /\ 2 \in 1 .. n
        /\ \A i \in 1 .. n : i \in {1, 2}
    BY <1>11
  <2>2. k[1] = Count(F, g[1]) /\ k[2] = Count(F, g[2])
    BY <1>6, <2>1
  <2>3. g[1] # g[2] /\ Ranks(F) = {g[1], g[2]}
    <3>1. \/ Count(F, g[1]) > Count(F, g[2])
          \/ Count(F, g[1]) = Count(F, g[2]) /\ g[1] > g[2]
      BY <1>9, <2>1
    <3>2. g[1] # g[2]
      <4>1. Count(F, g[1]) \in Nat /\ g[1] \in Nat
        BY <1>1, <1>9, <2>1, RankCount
      <4> QED BY <3>1, <4>1
    <3> QED BY <1>9, <2>1, <3>2
  <2>4. ASSUME NEW h \in Nat, v = <<h>> \o g PROVE Shape(v, h, 2) /\ v[2] = g[1] /\ v[3] = g[2]
    <3>1. Shape(v, h, n) /\ v[1 + 1] = g[1] /\ v[2 + 1] = g[2]
      BY <1>10, <2>1, <2>4
    <3> QED BY <1>11, <3>1
  <2>5. CASE Count(F, g[1]) = 4 /\ Count(F, g[2]) = 1
    <3>1. v = <<8>> \o g
      BY <1>4, <1>8, <1>11, <2>2, <2>5 DEF Verdict
    <3>2. FourRead(F, v)
      BY <2>3, <2>4, <2>5, <3>1 DEF FourRead
    <3> QED BY <1>3, <3>2 DEF Reads
  <2>6. CASE Count(F, g[1]) = 3 /\ Count(F, g[2]) = 2
    <3>1. v = <<7>> \o g
      BY <1>4, <1>8, <1>11, <2>2, <2>6 DEF Verdict
    <3>2. FullRead(F, v)
      BY <2>3, <2>4, <2>6, <3>1 DEF FullRead
    <3> QED BY <1>3, <3>2 DEF Reads
  <2> QED BY <1>11, <2>5, <2>6, <1>15 DEF GroupShape
<1>12. CASE n = 3
  <2>1. /\ 1 \in 1 .. n /\ 2 \in 1 .. n /\ 3 \in 1 .. n
        /\ \A i \in 1 .. n : i \in {1, 2, 3}
    BY <1>12
  <2>2. k[1] = Count(F, g[1]) /\ k[2] = Count(F, g[2])
    BY <1>6, <2>1
  <2>3. /\ g[1] \in Nat /\ g[2] \in Nat /\ g[3] \in Nat
        /\ Count(F, g[1]) \in Nat /\ Count(F, g[2]) \in Nat /\ Count(F, g[3]) \in Nat
    BY <1>1, <1>9, <2>1, RankCount
  <2>4. /\ Count(F, g[1]) > Count(F, g[2]) \/ (Count(F, g[1]) = Count(F, g[2]) /\ g[1] > g[2])
        /\ Count(F, g[1]) > Count(F, g[3]) \/ (Count(F, g[1]) = Count(F, g[3]) /\ g[1] > g[3])
        /\ Count(F, g[2]) > Count(F, g[3]) \/ (Count(F, g[2]) = Count(F, g[3]) /\ g[2] > g[3])
    BY <1>9, <2>1
  <2>5. g[1] # g[2] /\ g[1] # g[3] /\ g[2] # g[3]
    BY <2>3, <2>4
  <2>6. Ranks(F) = {g[1], g[2], g[3]}
    BY <1>9, <2>1
  <2>7. ASSUME NEW h \in Nat, v = <<h>> \o g
        PROVE Shape(v, h, 3) /\ v[2] = g[1] /\ v[3] = g[2] /\ v[4] = g[3]
    <3>1. Shape(v, h, n) /\ v[1 + 1] = g[1] /\ v[2 + 1] = g[2] /\ v[3 + 1] = g[3]
      BY <1>10, <2>1, <2>7
    <3> QED BY <1>12, <3>1
  <2>8. CASE Count(F, g[1]) = 3 /\ Count(F, g[2]) = 1 /\ Count(F, g[3]) = 1
    <3>1. v = <<4>> \o g
      BY <1>4, <1>8, <1>12, <2>2, <2>8 DEF Verdict
    <3>2. g[2] > g[3]
      BY <2>4, <2>8
    <3>3. ThreeRead(F, v)
      BY <2>5, <2>6, <2>7, <2>8, <3>1, <3>2 DEF ThreeRead
    <3> QED BY <1>3, <3>3 DEF Reads
  <2>9. CASE Count(F, g[1]) = 2 /\ Count(F, g[2]) = 2 /\ Count(F, g[3]) = 1
    <3>1. v = <<3>> \o g
      BY <1>4, <1>8, <1>12, <2>2, <2>9 DEF Verdict
    <3>2. g[1] > g[2]
      BY <2>4, <2>9
    <3>3. TwoPairRead(F, v)
      BY <2>5, <2>6, <2>7, <2>9, <3>1, <3>2 DEF TwoPairRead
    <3> QED BY <1>3, <3>3 DEF Reads
  <2> QED BY <1>12, <2>8, <2>9, <1>15 DEF GroupShape
<1>13. CASE n = 4
  <2>1. /\ 1 \in 1 .. n /\ 2 \in 1 .. n /\ 3 \in 1 .. n /\ 4 \in 1 .. n
        /\ \A i \in 1 .. n : i \in {1, 2, 3, 4}
    BY <1>13
  <2>2. k[1] = Count(F, g[1]) /\ k[2] = Count(F, g[2])
    BY <1>6, <2>1
  <2>3. g[1] \in Nat /\ g[2] \in Nat /\ g[3] \in Nat /\ g[4] \in Nat
    BY <1>9, <2>1
  <2>4. Count(F, g[1]) = 2 /\ Count(F, g[2]) = 1 /\ Count(F, g[3]) = 1 /\ Count(F, g[4]) = 1
    BY <1>13, <1>15 DEF GroupShape
  <2>5. /\ Count(F, g[2]) > Count(F, g[3]) \/ (Count(F, g[2]) = Count(F, g[3]) /\ g[2] > g[3])
        /\ Count(F, g[3]) > Count(F, g[4]) \/ (Count(F, g[3]) = Count(F, g[4]) /\ g[3] > g[4])
    BY <1>9, <2>1
  <2>6. g[2] > g[3] /\ g[3] > g[4] /\ g[1] \notin {g[2], g[3], g[4]}
    BY <2>4, <2>5
  <2>7. Ranks(F) = {g[1], g[2], g[3], g[4]}
    BY <1>9, <2>1
  <2>8. v = <<2>> \o g
    BY <1>4, <1>8, <1>13, <2>2, <2>4 DEF Verdict
  <2>9. Shape(v, 2, 4) /\ v[2] = g[1] /\ v[3] = g[2] /\ v[4] = g[3] /\ v[5] = g[4]
    <3>1. Shape(v, 2, n) /\ v[1 + 1] = g[1] /\ v[2 + 1] = g[2] /\ v[3 + 1] = g[3]
          /\ v[4 + 1] = g[4]
      BY <1>10, <2>1, <2>8
    <3> QED BY <1>13, <3>1
  <2>10. PairRead(F, v)
    BY <2>4, <2>6, <2>7, <2>9 DEF PairRead, Falling
  <2> QED BY <1>3, <2>10 DEF Reads
<1>14. CASE n = 5
  <2>1. /\ 1 \in 1 .. n /\ 2 \in 1 .. n /\ 3 \in 1 .. n /\ 4 \in 1 .. n /\ 5 \in 1 .. n
        /\ \A i \in 1 .. n : i \in {1, 2, 3, 4, 5}
    BY <1>14
  <2>2. \A i \in 1 .. 5 : Count(F, g[i]) = 1
    BY <1>14, <1>15 DEF GroupShape
  <2>3. k[1] = 1 /\ k[2] = 1
    BY <1>6, <1>14, <2>1, <2>2
  <2>4. g[1] > g[2] /\ g[2] > g[3] /\ g[3] > g[4] /\ g[4] > g[5]
    <3>1. \A i, j \in 1 .. 5 : i < j => g[i] > g[j]
      BY <1>9, <1>14, <2>2
    <3> QED BY <3>1
  <2>5. Ranks(F) = {g[1], g[2], g[3], g[4], g[5]}
    BY <1>9, <2>1
  <2>9. Singles(F)
    BY <2>2, <2>5 DEF Singles
  <2>6. ASSUME NEW h \in Nat, v = <<h>> \o g
        PROVE /\ Shape(v, h, 5) /\ v[2] = g[1] /\ v[3] = g[2] /\ v[4] = g[3]
              /\ v[5] = g[4] /\ v[6] = g[5]
    <3>1. Shape(v, h, n) /\ v[1 + 1] = g[1] /\ v[2 + 1] = g[2] /\ v[3 + 1] = g[3]
          /\ v[4 + 1] = g[4] /\ v[5 + 1] = g[5]
      BY <1>10, <2>1, <2>6
    <3> QED BY <1>14, <3>1
  <2>7. CASE t = 0
    <3>1. NoRun(F)
      BY <1>7, <2>7 DEF NoRun
    <3>2. CASE OneSuit(F)
      <4>1. v = <<6>> \o g
        BY <1>4, <2>3, <2>7, <3>2 DEF Verdict
      <4>2. FlushRead(F, v)
        BY <2>9, <2>4, <2>5, <2>6, <3>1, <3>2, <4>1 DEF FlushRead, Falling
      <4> QED BY <1>3, <4>2 DEF Reads
    <3>3. CASE ~ OneSuit(F)
      <4>1. v = <<1>> \o g
        BY <1>4, <2>3, <2>7, <3>3 DEF Verdict
      <4>2. HighRead(F, v)
        BY <2>9, <2>4, <2>5, <2>6, <3>1, <3>3, <4>1 DEF HighRead, Falling
      <4> QED BY <1>3, <4>2 DEF Reads
    <3> QED BY <3>2, <3>3
  <2>8. CASE t # 0
    <3>1. t \in 5 .. 14 /\ Ranks(F) = RunOf(t)
      BY <1>7, <2>8
    <3>2. \A h \in Nat : v = <<h, t>> => Shape(v, h, 1) /\ v[2] = t
      BY <3>1, Pairing
    <3>3. CASE OneSuit(F)
      <4>1. v = IF t = 14 THEN <<10, t>> ELSE <<9, t>>
        BY <1>4, <2>3, <3>1, <3>3 DEF Verdict
      <4>2. StraightFlushRead(F, v)
        BY <2>9, <3>1, <3>2, <3>3, <4>1 DEF StraightFlushRead
      <4> QED BY <1>3, <4>2 DEF Reads
    <3>4. CASE ~ OneSuit(F)
      <4>1. v = <<5, t>>
        BY <1>4, <2>3, <3>1, <3>4 DEF Verdict
      <4>2. StraightRead(F, v)
        BY <2>9, <3>1, <3>2, <3>4, <4>1 DEF StraightRead
      <4> QED BY <1>3, <4>2 DEF Reads
    <3> QED BY <3>3, <3>4
  <2> QED BY <2>7, <2>8
<1> QED BY <1>11, <1>12, <1>13, <1>14, <1>15 DEF GroupShape

----------------------------------------------------------------------------
(* What the reference reads off seven cards *)

LEMMA DownOrders ==
  ASSUME NEW R, R \subseteq Nat
  PROVE  Orders(R, {p \in R \X R : p[1] > p[2]})
<1> DEFINE B == {p \in R \X R : p[1] > p[2]}
<1>1. \A x, y \in R : <<x, y>> \in B <=> x > y
  OBVIOUS
<1> HIDE DEF B
<1>2. ASSUME NEW x \in R, NEW y \in R, NEW z \in R
      PROVE  /\ <<x, x>> \notin B
             /\ <<x, y>> \in B /\ <<y, z>> \in B => <<x, z>> \in B
             /\ x = y \/ <<x, y>> \in B \/ <<y, x>> \in B
  <2>1. x \in Nat /\ y \in Nat /\ z \in Nat
    OBVIOUS
  <2>2. /\ <<x, x>> \in B <=> x > x
        /\ <<x, y>> \in B <=> x > y
        /\ <<y, x>> \in B <=> y > x
        /\ <<y, z>> \in B <=> y > z
        /\ <<x, z>> \in B <=> x > z
    BY <1>1
  <2> QED BY <2>1, <2>2
<1>3. Orders(R, B)
  BY <1>2 DEF Orders
<1> QED BY <1>3 DEF B

\* h are the n highest ranks of R.
IsHighest(h, n, R) ==
  /\ h \in Seq(Nat) /\ Len(h) = n
  /\ \A i \in 1 .. n : h[i] \in R
  /\ \A i, j \in 1 .. n : i < j => h[i] > h[j]
  /\ \A i \in 1 .. n, q \in R : q > h[i] => \E j \in 1 .. (i - 1) : q = h[j]

LEMMA HighestIs ==
  ASSUME NEW R, R \subseteq Nat, IsFiniteSet(R), NEW n \in Nat, n <= Cardinality(R)
  PROVE  IsHighest(Highest(n, R), n, R)
<1> DEFINE B == {p \in R \X R : p[1] > p[2]}
<1>1. \A x, y \in R : <<x, y>> \in B <=> x > y
  OBVIOUS
<1>2. PICK s : s = Sorted(R, B)
  OBVIOUS
<1>3. Highest(n, R) = SubSeq(s, 1, n)
  BY <1>2 DEF Highest
<1>4. Orders(R, B)
  BY DownOrders
<1> HIDE DEF B
<1>5. PICK m \in Nat : m = Cardinality(R)
  BY FS_CardinalityType
<1>6. /\ s \in Seq(R) /\ Len(s) = m
      /\ \A i \in 1 .. m : s[i] \in R
      /\ \A x \in R : \E i \in 1 .. m : s[i] = x
      /\ \A i, j \in 1 .. m : i < j => <<s[i], s[j]>> \in B
  BY <1>2, <1>4, <1>5, SortedAll
<1>7. \A i, j \in 1 .. m : i < j => s[i] > s[j]
  BY <1>1, <1>6
<1>8. PICK h : h = SubSeq(s, 1, n)
  OBVIOUS
<1>9. n <= m /\ s \in Seq(Nat)
  BY <1>5, <1>6, SeqMonotonic
<1>10. h \in Seq(Nat) /\ Len(h) = n /\ \A i \in 1 .. n : h[i] = s[i]
  <2>1. 1 \in Int /\ n \in Int /\ \A i \in 1 .. n : s[i] \in Nat
    BY <1>6, <1>9
  <2>2. /\ h \in Seq(Nat) /\ Len(h) = IF 1 <= n THEN n - 1 + 1 ELSE 0
        /\ \A i \in 1 .. n - 1 + 1 : h[i] = s[1 + i - 1]
    BY <1>8, <2>1, SubSeqProperties
  <2> QED BY <2>2
<1>11. ASSUME NEW i \in 1 .. n, NEW q \in R, q > h[i]
       PROVE  \E j \in 1 .. (i - 1) : q = h[j]
  <2>1. PICK k \in 1 .. m : s[k] = q
    BY <1>6
  <2>2. i \in 1 .. m /\ h[i] = s[i] /\ s[i] \in Nat /\ s[k] \in Nat
    BY <1>6, <1>9, <1>10
  <2>3. k < i
    <3>1. k # i
      BY <1>11, <2>1, <2>2
    <3>2. ~ (i < k)
      BY <1>7, <1>11, <2>1, <2>2
    <3> QED BY <2>2, <3>1, <3>2
  <2> QED BY <1>10, <2>1, <2>2, <2>3
<1>12. \A i, j \in 1 .. n : i < j => h[i] > h[j]
  BY <1>7, <1>9, <1>10
<1> QED BY <1>3, <1>6, <1>8, <1>9, <1>10, <1>11, <1>12 DEF IsHighest

----------------------------------------------------------------------------
(* Some of the cards *)

LEMMA FewerCards ==
  ASSUME NEW C, Cards(C), NEW D, D \subseteq C
  PROVE  /\ Cards(D) /\ Ranks(D) \subseteq Ranks(C) /\ Cardinality(D) <= Cardinality(C)
         /\ \A r : Count(D, r) <= Count(C, r)
<1>1. Cards(D) /\ Ranks(D) \subseteq Ranks(C) /\ Cardinality(D) <= Cardinality(C)
  BY FS_Subset DEF Cards, Ranks
<1>2. ASSUME NEW r PROVE Count(D, r) <= Count(C, r)
  <2>1. OfRank(D, r) \subseteq OfRank(C, r)
    BY DEF OfRank
  <2>2. Cards(OfRank(C, r)) /\ Count(D, r) = Cardinality(OfRank(D, r))
        /\ Count(C, r) = Cardinality(OfRank(C, r))
    BY <1>1, RankCount
  <2> QED BY <2>1, <2>2, FS_Subset DEF Cards
<1> QED BY <1>1, <1>2

LEMMA RestOfRanks ==
  ASSUME NEW C, Cards(C), NEW X
  PROVE  /\ Cards(OfRanks(C, X)) /\ Cards(OfRanks(C, Ranks(C) \ X))
         /\ Cardinality(OfRanks(C, X)) \in Nat /\ Cardinality(OfRanks(C, Ranks(C) \ X)) \in Nat
         /\ Cardinality(C) = Cardinality(OfRanks(C, X)) + Cardinality(OfRanks(C, Ranks(C) \ X))
<1> DEFINE S == OfRanks(C, X)
           T == OfRanks(C, Ranks(C) \ X)
<1>1. S \subseteq C /\ T \subseteq C /\ C = S \cup T /\ S \cap T = {}
  BY DEF OfRanks, Ranks
<1>2. Cards(S) /\ Cards(T)
  BY <1>1, FewerCards
<1> HIDE DEF S, T
<1>3. Cardinality(S) \in Nat /\ Cardinality(T) \in Nat
  BY <1>2, FS_CardinalityType DEF Cards
<1>4. Cardinality(S \cup T) = Cardinality(S) + Cardinality(T) - Cardinality(S \cap T)
  BY <1>2, FS_Union DEF Cards
<1>5. Cardinality(S \cap T) = 0
  BY <1>1, FS_EmptySet
<1>6. Cardinality(C) = Cardinality(S) + Cardinality(T)
  BY <1>1, <1>3, <1>4, <1>5
<1> QED BY <1>2, <1>3, <1>6 DEF S, T

\* Of ranks with one card each there are as many as cards.
LEMMA SingleRanks ==
  ASSUME NEW C, Cards(C), NEW Y, Y \subseteq Ranks(C), \A r \in Y : Count(C, r) < 2
  PROVE  IsFiniteSet(Y) /\ Cardinality(Y) = Cardinality(OfRanks(C, Y))
<1> DEFINE D == OfRanks(C, Y)
<1>1. D \subseteq C /\ Ranks(D) = Y
  BY DEF OfRanks, Ranks
<1>2. Cards(D)
  BY <1>1, FewerCards
<1>3. ASSUME NEW c \in D, NEW d \in D, c.rank = d.rank, c # d PROVE FALSE
  <2> DEFINE r == c.rank
             T == OfRank(C, r)
  <2>1. r \in Y /\ c \in T /\ d \in T \ {c}
    BY <1>1, <1>3 DEF OfRank, OfRanks
  <2>2. IsFiniteSet(T) /\ Cardinality(T) < 2 /\ Cardinality(T) \in Nat
    <3>1. Count(C, r) = Cardinality(OfRank(C, r)) /\ Cards(OfRank(C, r)) /\ Count(C, r) \in 0 .. 4
      BY RankCount
    <3> QED BY <2>1, <3>1 DEF Cards
  <2> HIDE DEF T
  <2>3. IsFiniteSet(T \ {c}) /\ Cardinality(T \ {c}) = Cardinality(T) - 1
    BY <2>1, <2>2, FS_RemoveElement
  <2>4. Cardinality(T \ {c}) # 0 /\ Cardinality(T \ {c}) \in Nat
    BY <2>1, <2>3, FS_EmptySet, FS_CardinalityType
  <2> QED BY <2>2, <2>3, <2>4
<1> HIDE DEF D
<1>4. Cardinality(Ranks(D)) = Cardinality(D)
  BY <1>2, <1>3, ManyRanks
<1> QED BY <1>1, <1>2, <1>4, RanksType DEF D

LEMMA OneRank ==
  ASSUME NEW C, Cards(C), NEW a, NEW b, a # b
  PROVE  /\ Cardinality(OfRanks(C, {a})) = Count(C, a)
         /\ Cardinality(OfRanks(C, {a, b})) = Count(C, a) + Count(C, b)
<1>1. OfRanks(C, {}) = {} /\ {a} = {} \cup {a} /\ {a, b} = {a} \cup {b} /\ b \notin {a}
      /\ a \notin {}
  BY DEF OfRanks
<1>2. Cardinality(OfRanks(C, {})) = 0
  BY <1>1, FS_EmptySet
<1>3. Cardinality(OfRanks(C, {a})) = 0 + Count(C, a)
  BY <1>1, <1>2, OneMoreRank
<1>4. Cardinality(OfRanks(C, {a, b})) = Cardinality(OfRanks(C, {a})) + Count(C, b)
  BY <1>1, OneMoreRank
<1>5. Count(C, a) \in Nat /\ Count(C, b) \in Nat
  BY RankCount
<1> QED BY <1>3, <1>4, <1>5

----------------------------------------------------------------------------
(* The parts of the reference *)

Seven(C) == Cards(C) /\ Cardinality(C) = 7

Many(C, n) == {r \in Ranks(C) : Count(C, r) >= n}

Flushes(C) == {s \in Suits(C) : Cardinality(InSuit(C, s)) >= 5}
Colour(C)  == IF Flushes(C) = {} THEN {} ELSE Ranks(InSuit(C, CHOOSE s \in Flushes(C) : TRUE))

HasStraightFlush(C) == Colour(C) # {} /\ StraightTop(Colour(C)) # 0
HasFour(C)     == Many(C, 4) # {}
HasFull(C)     == Many(C, 3) # {} /\ Many(C, 2) # {Top(Many(C, 3))}
HasFlush(C)    == Colour(C) # {}
HasStraight(C) == StraightTop(Ranks(C)) # 0
HasThree(C)    == Many(C, 3) # {}
HasTwoPair(C)  == Cardinality(Many(C, 2)) >= 2
HasPair(C)     == Many(C, 2) # {}

LEMMA DirectIs ==
  ASSUME NEW C
  PROVE  Direct(C) =
    IF Colour(C) # {} /\ StraightTop(Colour(C)) = 14 THEN <<10, 14>>
    ELSE IF HasStraightFlush(C) THEN <<9, StraightTop(Colour(C))>>
    ELSE IF HasFour(C) THEN <<8, Top(Many(C, 4)), Top(Ranks(C) \ {Top(Many(C, 4))})>>
    ELSE IF HasFull(C)
         THEN <<7, Top(Many(C, 3)), Top(Many(C, 2) \ {Top(Many(C, 3))})>>
    ELSE IF HasFlush(C) THEN <<6>> \o Highest(5, Colour(C))
    ELSE IF HasStraight(C) THEN <<5, StraightTop(Ranks(C))>>
    ELSE IF HasThree(C) THEN <<4, Top(Many(C, 3))>> \o Highest(2, Ranks(C) \ Many(C, 3))
    ELSE IF HasTwoPair(C)
         THEN LET two == Highest(2, Many(C, 2))
              IN  <<3>> \o two \o Highest(1, Ranks(C) \ {two[1], two[2]})
    ELSE IF HasPair(C) THEN <<2, Top(Many(C, 2))>> \o Highest(3, Ranks(C) \ Many(C, 2))
    ELSE <<1>> \o Highest(5, Ranks(C))
BY DEF Direct, Colour, Flushes, Many, Ace, HasStraightFlush, HasFour, HasFull, HasFlush,
       HasStraight, HasThree, HasTwoPair, HasPair

LEMMA ManyType ==
  ASSUME NEW C, Cards(C)
  PROVE  /\ Ranks(C) \subseteq 2 .. 14 /\ Ranks(C) \subseteq 0 .. 14 /\ Ranks(C) \subseteq Nat
         /\ IsFiniteSet(Ranks(C))
         /\ \A n : Many(C, n) \subseteq Ranks(C) /\ IsFiniteSet(Many(C, n))
<1>1. Ranks(C) \subseteq 2 .. 14 /\ IsFiniteSet(Ranks(C))
  BY RanksType
<1>2. \A n : Many(C, n) \subseteq Ranks(C)
  BY DEF Many
<1> QED BY <1>1, <1>2, FS_Subset

\* Of seven cards five are of one suit in one way only.
LEMMA ColourIs ==
  ASSUME NEW C, Seven(C), NEW s \in {"S", "H", "D", "C"}, Cardinality(InSuit(C, s)) >= 5
  PROVE  Colour(C) = Ranks(InSuit(C, s)) /\ Colour(C) # {}
<1>1. \A u : IsFiniteSet(InSuit(C, u)) /\ Cardinality(InSuit(C, u)) \in Nat
  <2>1. \A u : InSuit(C, u) \subseteq C
    BY DEF InSuit
  <2> QED BY <2>1, FS_Subset, FS_CardinalityType DEF Seven, Cards
<1>2. ASSUME NEW u \in Flushes(C), u # s PROVE FALSE
  <2> DEFINE S == InSuit(C, s)
             U == InSuit(C, u)
  <2>1. S \cap U = {} /\ S \cup U \subseteq C
    BY <1>2 DEF InSuit
  <2>2. IsFiniteSet(S) /\ IsFiniteSet(U) /\ Cardinality(S) \in Nat /\ Cardinality(U) \in Nat
        /\ Cardinality(S) >= 5 /\ Cardinality(U) >= 5
    BY <1>1, <1>2 DEF Flushes
  <2> HIDE DEF S, U
  <2>3. Cardinality(S \cup U) = Cardinality(S) + Cardinality(U) - Cardinality(S \cap U)
    BY <2>2, FS_Union
  <2>4. Cardinality(S \cap U) = 0
    BY <2>1, FS_EmptySet
  <2>5. Cardinality(S \cup U) <= 7
    BY <2>1, FS_Subset DEF Seven, Cards
  <2> QED BY <2>2, <2>3, <2>4, <2>5
<1>3. InSuit(C, s) # {}
  BY FS_EmptySet
<1>4. s \in Flushes(C)
  BY <1>3 DEF Flushes, Suits, InSuit
<1>5. Flushes(C) = {s}
  BY <1>2, <1>4
<1>6. Colour(C) = Ranks(InSuit(C, s))
  BY <1>5 DEF Colour
<1> QED BY <1>3, <1>6 DEF Ranks

LEMMA ColourOf ==
  ASSUME NEW C, Seven(C), Colour(C) # {}
  PROVE  /\ \E s \in {"S", "H", "D", "C"} :
              Cardinality(InSuit(C, s)) >= 5 /\ Colour(C) = Ranks(InSuit(C, s))
         /\ Colour(C) \subseteq Ranks(C) /\ IsFiniteSet(Colour(C)) /\ Cardinality(Colour(C)) >= 5
<1>1. Flushes(C) # {} /\ Colour(C) = Ranks(InSuit(C, CHOOSE s \in Flushes(C) : TRUE))
  BY DEF Colour
<1>2. PICK s \in Flushes(C) : Colour(C) = Ranks(InSuit(C, s))
  BY <1>1
<1>3. s \in {"S", "H", "D", "C"} /\ Cardinality(InSuit(C, s)) >= 5
  BY <1>2, CardType DEF Flushes, Suits, Seven, Cards
<1>4. InSuit(C, s) \subseteq C /\ \A c, d \in InSuit(C, s) : c.suit = d.suit
  BY DEF InSuit
<1>5. Cards(InSuit(C, s)) /\ Ranks(InSuit(C, s)) \subseteq Ranks(C)
  BY <1>4, FewerCards DEF Seven
<1>6. Cardinality(Ranks(InSuit(C, s))) = Cardinality(InSuit(C, s))
  <2>1. \A c, d \in InSuit(C, s) : c.rank = d.rank => c = d
    BY <1>4, <1>5, SameCard DEF Cards
  <2> QED BY <1>5, <2>1, ManyRanks
<1> QED BY <1>2, <1>3, <1>5, <1>6, RanksType

\* Five cards of one suit are of the colour.
LEMMA ColourHolds ==
  ASSUME NEW C, Seven(C), NEW F, F \subseteq C, Five(F), OneSuit(F)
  PROVE  Colour(C) # {} /\ Ranks(F) \subseteq Colour(C)
<1>1. Cards(F) /\ Cardinality(F) = 5 /\ F # {}
  BY FS_EmptySet DEF Five
<1>2. PICK c \in F : TRUE
  BY <1>1
<1>3. c.suit \in {"S", "H", "D", "C"} /\ F \subseteq InSuit(C, c.suit)
  BY <1>1, CardType, OneSuitIs DEF InSuit, Cards
<1>4. Cardinality(InSuit(C, c.suit)) >= 5 /\ Ranks(F) \subseteq Ranks(InSuit(C, c.suit))
  <2>1. InSuit(C, c.suit) \subseteq C
    BY DEF InSuit
  <2>2. Cards(InSuit(C, c.suit)) /\ Cardinality(InSuit(C, c.suit)) \in Nat
    BY <2>1, FewerCards, FS_CardinalityType DEF Seven, Cards
  <2> QED BY <1>1, <1>3, <2>2, FewerCards
<1> QED BY <1>3, <1>4, ColourIs

----------------------------------------------------------------------------
(* How the reference reads *)

IsTop(r, S) == r \in S /\ \A q \in S : q <= r

LEMMA IsTopOf ==
  ASSUME NEW R, R \subseteq 0 .. 14, R # {}
  PROVE  IsTop(Top(R), R) /\ Top(R) \in Nat
<1>1. Top(R) \in R /\ \A q \in R : q <= Top(R)
  BY TopOf
<1>2. PICK m : m = Top(R)
  OBVIOUS
<1>3. m \in R /\ \A q \in R : q <= m
  BY <1>1, <1>2
<1>4. m \in Nat
  BY ONLY <1>3, R \subseteq 0 .. 14
<1> QED BY <1>2, <1>3, <1>4 DEF IsTop

\* h are the n highest, one after the other.
TopsOf(h, n, R) ==
  /\ h \in Seq(Nat) /\ Len(h) = n
  /\ IsTop(h[1], R)
  /\ n >= 2 => IsTop(h[2], R \ {h[1]})
  /\ n >= 3 => IsTop(h[3], R \ {h[1], h[2]})
  /\ n >= 4 => IsTop(h[4], R \ {h[1], h[2], h[3]})
  /\ n >= 5 => IsTop(h[5], R \ {h[1], h[2], h[3], h[4]})

LEMMA HighestTops ==
  ASSUME NEW R, R \subseteq Nat, IsFiniteSet(R), NEW n \in 1 .. 5, Cardinality(R) >= n
  PROVE  TopsOf(Highest(n, R), n, R)
<1>0. PICK h : h = Highest(n, R)
  OBVIOUS
<1>1. IsHighest(h, n, R)
  <2>1. n \in Nat
    OBVIOUS
  <2>2. IsHighest(Highest(n, R), n, R)
    <3>1. n <= Cardinality(R)
      BY FS_CardinalityType
    <3> QED BY <2>1, <3>1, HighestIs
  <2> QED BY <1>0, <2>2
<1>2. ASSUME NEW i \in 1 .. n, NEW T, T = {h[j] : j \in 1 .. (i - 1)}
      PROVE  IsTop(h[i], R \ T)
  <2>1. h[i] \in R /\ h[i] \in Nat
    BY <1>1 DEF IsHighest
  <2>2. h[i] \notin T
    <3> SUFFICES ASSUME NEW j \in 1 .. (i - 1), h[i] = h[j] PROVE FALSE
      BY <1>2
    <3>1. j \in 1 .. n /\ j < i
      OBVIOUS
    <3>2. h[j] > h[i] /\ h[j] \in Nat
      BY <1>1, <3>1 DEF IsHighest
    <3> QED BY <2>1, <3>2
  <2>3. ASSUME NEW q \in R \ T PROVE q <= h[i]
    <3>1. ~ (q > h[i])
      <4> SUFFICES ASSUME q > h[i] PROVE FALSE
        OBVIOUS
      <4>1. PICK j \in 1 .. (i - 1) : q = h[j]
        BY <1>1 DEF IsHighest
      <4> QED BY <1>2, <4>1
    <3> QED BY <2>1, <3>1
  <2> QED BY <2>1, <2>2, <2>3 DEF IsTop
<1>3. IsTop(h[1], R)
  <2>1. {h[j] : j \in 1 .. (1 - 1)} = {} /\ R \ {} = R /\ 1 \in 1 .. n
    OBVIOUS
  <2> QED BY <1>2, <2>1
<1>4. ASSUME n >= 2 PROVE IsTop(h[2], R \ {h[1]})
  <2>1. {h[j] : j \in 1 .. (2 - 1)} = {h[1]} /\ 2 \in 1 .. n
    BY <1>4
  <2> QED BY <1>2, <2>1
<1>5. ASSUME n >= 3 PROVE IsTop(h[3], R \ {h[1], h[2]})
  <2>1. {h[j] : j \in 1 .. (3 - 1)} = {h[1], h[2]} /\ 3 \in 1 .. n
    BY <1>5
  <2> QED BY <1>2, <2>1
<1>6. ASSUME n >= 4 PROVE IsTop(h[4], R \ {h[1], h[2], h[3]})
  <2>1. {h[j] : j \in 1 .. (4 - 1)} = {h[1], h[2], h[3]} /\ 4 \in 1 .. n
    BY <1>6
  <2> QED BY <1>2, <2>1
<1>7. ASSUME n >= 5 PROVE IsTop(h[5], R \ {h[1], h[2], h[3], h[4]})
  <2>1. {h[j] : j \in 1 .. (5 - 1)} = {h[1], h[2], h[3], h[4]} /\ 5 \in 1 .. n
    BY <1>7
  <2> QED BY <1>2, <2>1
<1> QED BY <1>0, <1>1, <1>3, <1>4, <1>5, <1>6, <1>7 DEF IsHighest, TopsOf

StraightFlushOf(C, d) ==
  HasStraightFlush(C) /\ Shape(d, IF d[2] = 14 THEN 10 ELSE 9, 1) /\ d[2] = StraightTop(Colour(C))

FourOf(C, d) ==
  Shape(d, 8, 2) /\ IsTop(d[2], Many(C, 4)) /\ IsTop(d[3], Ranks(C) \ {d[2]})

FullOf(C, d) ==
  Shape(d, 7, 2) /\ IsTop(d[2], Many(C, 3)) /\ IsTop(d[3], Many(C, 2) \ {d[2]})

HighestOf(S, d) ==
  /\ IsTop(d[2], S) /\ IsTop(d[3], S \ {d[2]}) /\ IsTop(d[4], S \ {d[2], d[3]})
  /\ IsTop(d[5], S \ {d[2], d[3], d[4]}) /\ IsTop(d[6], S \ {d[2], d[3], d[4], d[5]})

FlushOf(C, d) == Shape(d, 6, 5) /\ HighestOf(Colour(C), d)

StraightOf(C, d) == Shape(d, 5, 1) /\ d[2] = StraightTop(Ranks(C))

ThreeOf(C, d) ==
  /\ Shape(d, 4, 3) /\ IsTop(d[2], Many(C, 3)) /\ IsTop(d[3], Ranks(C) \ {d[2]})
  /\ IsTop(d[4], Ranks(C) \ {d[2], d[3]})

TwoPairOf(C, d) ==
  /\ Shape(d, 3, 3) /\ IsTop(d[2], Many(C, 2)) /\ IsTop(d[3], Many(C, 2) \ {d[2]})
  /\ IsTop(d[4], Ranks(C) \ {d[2], d[3]})

PairOf(C, d) ==
  /\ Shape(d, 2, 4) /\ IsTop(d[2], Many(C, 2)) /\ IsTop(d[3], Ranks(C) \ {d[2]})
  /\ IsTop(d[4], Ranks(C) \ {d[2], d[3]}) /\ IsTop(d[5], Ranks(C) \ {d[2], d[3], d[4]})

HighOf(C, d) == Shape(d, 1, 5) /\ HighestOf(Ranks(C), d)

DirectReads(C, d) ==
  \/ StraightFlushOf(C, d)
  \/ ~ HasStraightFlush(C) /\ FourOf(C, d)
  \/ ~ HasStraightFlush(C) /\ ~ HasFour(C) /\ FullOf(C, d)
  \/ ~ HasStraightFlush(C) /\ ~ HasFour(C) /\ ~ HasFull(C) /\ HasFlush(C) /\ FlushOf(C, d)
  \/ /\ ~ HasFour(C) /\ ~ HasFull(C) /\ ~ HasFlush(C) /\ HasStraight(C)
     /\ StraightOf(C, d)
  \/ /\ ~ HasFour(C) /\ ~ HasFull(C) /\ ~ HasFlush(C) /\ ~ HasStraight(C)
     /\ ThreeOf(C, d)
  \/ /\ ~ HasFour(C) /\ ~ HasFull(C) /\ ~ HasFlush(C) /\ ~ HasStraight(C) /\ ~ HasThree(C)
     /\ TwoPairOf(C, d)
  \/ /\ ~ HasFour(C) /\ ~ HasFull(C) /\ ~ HasFlush(C) /\ ~ HasStraight(C) /\ ~ HasThree(C)
     /\ ~ HasTwoPair(C) /\ PairOf(C, d)
  \/ /\ ~ HasFour(C) /\ ~ HasFull(C) /\ ~ HasFlush(C) /\ ~ HasStraight(C) /\ ~ HasThree(C)
     /\ ~ HasTwoPair(C) /\ ~ HasPair(C) /\ HighOf(C, d)

LEMMA AfterTwo ==
  ASSUME NEW h \in Nat, NEW a \in Nat, NEW g \in Seq(Nat)
  PROVE  /\ Shape(<<h, a>> \o g, h, Len(g) + 1) /\ (<<h, a>> \o g)[2] = a
         /\ \A i \in 1 .. Len(g) : (<<h, a>> \o g)[i + 2] = g[i]
<1> DEFINE t == <<h, a>>
<1>1. t \in Seq(Nat) /\ Len(t) = 2 /\ t[1] = h /\ t[2] = a
  OBVIOUS
<1> HIDE DEF t
<1>2. /\ t \o g \in Seq(Nat) /\ Len(t \o g) = 2 + Len(g) /\ Len(g) \in Nat
      /\ \A i \in 1 .. 2 + Len(g) : (t \o g)[i] = IF i <= 2 THEN t[i] ELSE g[i - 2]
  <2>1. /\ t \o g \in Seq(Nat) /\ Len(t \o g) = Len(t) + Len(g)
        /\ \A i \in 1 .. Len(t) + Len(g) :
             (t \o g)[i] = IF i <= Len(t) THEN t[i] ELSE g[i - Len(t)]
    BY ONLY <1>1, g \in Seq(Nat), ConcatProperties
  <2> QED BY <1>1, <2>1
<1>3. ASSUME NEW i \in 1 .. Len(g) PROVE (t \o g)[i + 2] = g[i]
  <2>1. i + 2 \in 1 .. 2 + Len(g) /\ ~ (i + 2 <= 2) /\ (i + 2) - 2 = i
    BY <1>2
  <2> QED BY <1>2, <2>1
<1>4. (t \o g)[1] = h /\ (t \o g)[2] = a
  BY <1>1, <1>2
<1> QED BY <1>2, <1>3, <1>4 DEF Shape, t

LEMMA AfterThree ==
  ASSUME NEW h \in Nat, NEW g \in Seq(Nat), Len(g) = 2, NEW k \in Seq(Nat), Len(k) = 1
  PROVE  /\ Shape(<<h>> \o g \o k, h, 3)
         /\ (<<h>> \o g \o k)[2] = g[1] /\ (<<h>> \o g \o k)[3] = g[2]
         /\ (<<h>> \o g \o k)[4] = k[1]
<1> DEFINE t == <<h>> \o g
<1>1. Shape(t, h, 2) /\ t[1 + 1] = g[1] /\ t[2 + 1] = g[2]
  <2>1. Shape(t, h, Len(g)) /\ \A i \in 1 .. Len(g) : t[i + 1] = g[i]
    BY AfterHead
  <2>2. 1 \in 1 .. Len(g) /\ 2 \in 1 .. Len(g)
    OBVIOUS
  <2> QED BY <2>1, <2>2
<1>2. t \in Seq(Nat) /\ Len(t) = 3 /\ t[1] = h
  BY <1>1 DEF Shape
<1> HIDE DEF t
<1>3. /\ t \o k \in Seq(Nat) /\ Len(t \o k) = 3 + 1
      /\ \A i \in 1 .. 3 + 1 : (t \o k)[i] = IF i <= 3 THEN t[i] ELSE k[i - 3]
  <2>1. /\ t \o k \in Seq(Nat) /\ Len(t \o k) = Len(t) + Len(k)
        /\ \A i \in 1 .. Len(t) + Len(k) :
             (t \o k)[i] = IF i <= Len(t) THEN t[i] ELSE k[i - Len(t)]
    BY ONLY <1>2, k \in Seq(Nat), ConcatProperties
  <2> QED BY <1>2, <2>1
<1>4. (t \o k)[1] = h /\ (t \o k)[2] = g[1] /\ (t \o k)[3] = g[2] /\ (t \o k)[4] = k[1]
  BY <1>1, <1>2, <1>3
<1> QED BY <1>3, <1>4 DEF Shape, t

\* What is left of seven cards besides those of a rank or two.
LEMMA Kickers ==
  ASSUME NEW C, Seven(C), NEW a, NEW b, a # b
  PROVE  /\ Ranks(C) \ {a} # {}
         /\ Count(C, a) + Count(C, b) < 7 => Ranks(C) \ {a, b} # {}
         /\ Count(C, a) <= 3 /\ (\A r \in Ranks(C) \ {a} : Count(C, r) < 2) =>
              Cardinality(Ranks(C) \ {a}) >= 4
         /\ (\A r \in Ranks(C) : Count(C, r) < 2) => Cardinality(Ranks(C)) >= 5
<1>1. Cards(C) /\ Cardinality(C) = 7
  BY DEF Seven
<1>2. Count(C, a) \in 0 .. 4 /\ Count(C, b) \in 0 .. 4
  BY <1>1, RankCount
<1>3. /\ Cardinality(OfRanks(C, {a})) = Count(C, a)
      /\ Cardinality(OfRanks(C, {a, b})) = Count(C, a) + Count(C, b)
  BY <1>1, OneRank
<1>4. \A X : /\ Cardinality(OfRanks(C, Ranks(C) \ X)) \in Nat
             /\ 7 = Cardinality(OfRanks(C, X)) + Cardinality(OfRanks(C, Ranks(C) \ X))
  BY <1>1, RestOfRanks
<1>5. \A X : OfRanks(C, Ranks(C) \ X) # {} => Ranks(C) \ X # {}
  BY DEF OfRanks
<1>6. \A X : Cardinality(OfRanks(C, Ranks(C) \ X)) # 0 => Ranks(C) \ X # {}
  BY <1>5, FS_EmptySet
<1>7. Ranks(C) \ {a} # {}
  <2>1. Cardinality(OfRanks(C, Ranks(C) \ {a})) # 0
    BY <1>2, <1>3, <1>4
  <2> QED BY <1>6, <2>1
<1>8. Count(C, a) + Count(C, b) < 7 => Ranks(C) \ {a, b} # {}
  <2>1. Count(C, a) + Count(C, b) < 7 => Cardinality(OfRanks(C, Ranks(C) \ {a, b})) # 0
    BY <1>2, <1>3, <1>4
  <2> QED BY <1>6, <2>1
<1>9. ASSUME Count(C, a) <= 3, \A r \in Ranks(C) \ {a} : Count(C, r) < 2
      PROVE  Cardinality(Ranks(C) \ {a}) >= 4
  <2>1. Cardinality(OfRanks(C, Ranks(C) \ {a})) >= 4
    <3>1. /\ Cardinality(OfRanks(C, Ranks(C) \ {a})) \in Nat
          /\ 7 = Cardinality(OfRanks(C, {a})) + Cardinality(OfRanks(C, Ranks(C) \ {a}))
      BY <1>4
    <3> QED BY <1>2, <1>3, <1>9, <3>1
  <2>2. Ranks(C) \ {a} \subseteq Ranks(C)
    OBVIOUS
  <2>3. Cardinality(Ranks(C) \ {a}) = Cardinality(OfRanks(C, Ranks(C) \ {a}))
    BY <1>1, <1>9, <2>2, SingleRanks
  <2> QED BY <2>1, <2>3
<1>10. ASSUME \A r \in Ranks(C) : Count(C, r) < 2 PROVE Cardinality(Ranks(C)) >= 5
  <2>1. OfRanks(C, Ranks(C)) = C
    BY DEF OfRanks, Ranks
  <2>2. Cardinality(Ranks(C)) = Cardinality(OfRanks(C, Ranks(C)))
    BY <1>1, <1>10, SingleRanks
  <2> QED BY <1>1, <2>1, <2>2
<1> QED BY <1>7, <1>8, <1>9, <1>10

LEMMA CardTwo ==
  ASSUME NEW S, IsFiniteSet(S)
  PROVE  /\ Cardinality(S) >= 2 <=> \E x, y \in S : x # y
         /\ S # {} => Cardinality(S) >= 1
<1>1. Cardinality(S) \in Nat /\ (S = {} <=> Cardinality(S) = 0)
  BY FS_CardinalityType, FS_EmptySet
<1>2. ASSUME NEW x \in S PROVE /\ IsFiniteSet(S \ {x})
                                /\ Cardinality(S \ {x}) = Cardinality(S) - 1
  BY FS_RemoveElement
<1>3. ASSUME NEW x \in S, NEW y \in S, x # y PROVE Cardinality(S) >= 2
  <2>1. S \ {x} # {}
    BY <1>3
  <2>2. Cardinality(S \ {x}) # 0 /\ Cardinality(S \ {x}) \in Nat
    BY <1>2, <2>1, FS_EmptySet, FS_CardinalityType
  <2> QED BY <1>1, <1>2, <2>2
<1>4. ASSUME Cardinality(S) >= 2 PROVE \E x, y \in S : x # y
  <2>1. PICK x \in S : TRUE
    BY <1>1, <1>4
  <2>2. Cardinality(S \ {x}) # 0
    BY <1>1, <1>2, <1>4
  <2>3. S \ {x} # {}
    BY <2>2, FS_EmptySet
  <2> QED BY <2>3
<1> QED BY <1>1, <1>3, <1>4

LEMMA DirectForm ==
  ASSUME NEW C, Seven(C)
  PROVE  DirectReads(C, Direct(C))
<1>1. Cards(C) /\ Cardinality(C) = 7
  BY DEF Seven
<1>2. PICK R : R = Ranks(C)
  OBVIOUS
<1>3. /\ R \subseteq 2 .. 14 /\ R \subseteq 0 .. 14 /\ R \subseteq Nat /\ IsFiniteSet(R)
      /\ \A n : Many(C, n) \subseteq R /\ IsFiniteSet(Many(C, n))
  BY <1>1, <1>2, ManyType
<1>19. \A X : R \ X \subseteq Nat /\ IsFiniteSet(R \ X)
  BY <1>3, FS_Subset
<1>4. PICK d : d = Direct(C)
  OBVIOUS
<1>5. \A r : Count(C, r) \in 0 .. 4
  BY <1>1, RankCount
<1>6. \A S : S \subseteq R /\ S # {} => IsTop(Top(S), S) /\ Top(S) \in Nat
  <2> SUFFICES ASSUME NEW S, S \subseteq R, S # {} PROVE IsTop(Top(S), S) /\ Top(S) \in Nat
    OBVIOUS
  <2>1. S \subseteq 0 .. 14
    BY <1>3
  <2> QED BY <2>1, IsTopOf
<1>7. Colour(C) # {} => /\ Colour(C) \subseteq R /\ IsFiniteSet(Colour(C))
                        /\ Cardinality(Colour(C)) >= 5
  BY <1>2, ColourOf
<1>8. CASE HasStraightFlush(C)
  <2>1. PICK t : t = StraightTop(Colour(C))
    OBVIOUS
  <2>2. t \in 5 .. 14
    <3>1. Colour(C) \subseteq 2 .. 14
      BY <1>3, <1>7, <1>8 DEF HasStraightFlush
    <3> QED BY <1>8, <2>1, <3>1, StraightTopIs DEF HasStraightFlush
  <2>3. d = IF t = 14 THEN <<10, t>> ELSE <<9, t>>
    BY <1>4, <1>8, <2>1, DirectIs DEF HasStraightFlush
  <2>4. Shape(<<10, t>>, 10, 1) /\ <<10, t>>[2] = t /\ Shape(<<9, t>>, 9, 1) /\ <<9, t>>[2] = t
    BY <2>2, Pairing
  <2>5. StraightFlushOf(C, d)
    BY <1>8, <2>1, <2>3, <2>4 DEF StraightFlushOf
  <2> QED BY <1>4, <2>5 DEF DirectReads
<1> DEFINE sf == Colour(C) # {} /\ StraightTop(Colour(C)) = 14
<1>9. ~ HasStraightFlush(C) => ~ sf
  BY DEF HasStraightFlush
<1>10. CASE ~ HasStraightFlush(C) /\ HasFour(C)
  <2>1. PICK a, b : a = Top(Many(C, 4)) /\ b = Top(R \ {a})
    OBVIOUS
  <2>2. d = <<8, a, b>>
    BY <1>2, <1>4, <1>9, <1>10, <2>1, DirectIs
  <2>3. IsTop(a, Many(C, 4)) /\ a \in Nat
    BY <1>3, <1>6, <1>10, <2>1 DEF HasFour
  <2>4. R \ {a} # {}
    <3>1. a # 0 - 1
      BY <2>3
    <3> QED BY <1>2, <3>1, Kickers
  <2>5. IsTop(b, R \ {a}) /\ b \in Nat
    BY <1>6, <2>1, <2>4
  <2>6. Shape(d, 8, 2) /\ d[2] = a /\ d[3] = b
    BY <2>2, <2>3, <2>5 DEF Shape
  <2>7. FourOf(C, d)
    BY <1>2, <2>3, <2>5, <2>6 DEF FourOf
  <2> QED BY <1>4, <1>10, <2>7 DEF DirectReads
<1>11. CASE ~ HasStraightFlush(C) /\ ~ HasFour(C) /\ HasFull(C)
  <2>1. PICK a, b : a = Top(Many(C, 3)) /\ b = Top(Many(C, 2) \ {a})
    OBVIOUS
  <2>2. d = <<7, a, b>>
    BY <1>4, <1>9, <1>11, <2>1, DirectIs
  <2>3. IsTop(a, Many(C, 3)) /\ a \in Nat
    BY <1>3, <1>6, <1>11, <2>1 DEF HasFull
  <2>4. Many(C, 2) \ {a} # {}
    <3>1. a \in Many(C, 2)
      BY <1>5, <2>3 DEF IsTop, Many
    <3> QED BY <1>11, <2>1, <3>1 DEF HasFull
  <2>5. IsTop(b, Many(C, 2) \ {a}) /\ b \in Nat
    BY <1>3, <1>6, <2>1, <2>4
  <2>6. Shape(d, 7, 2) /\ d[2] = a /\ d[3] = b
    BY <2>2, <2>3, <2>5 DEF Shape
  <2>7. FullOf(C, d)
    BY <2>3, <2>5, <2>6 DEF FullOf
  <2> QED BY <1>4, <1>11, <2>7 DEF DirectReads
<1>12. CASE /\ ~ HasStraightFlush(C) /\ ~ HasFour(C) /\ ~ HasFull(C) /\ HasFlush(C)
  <2>1. PICK h : h = Highest(5, Colour(C))
    OBVIOUS
  <2>2. d = <<6>> \o h
    BY <1>4, <1>9, <1>12, <2>1, DirectIs
  <2>3. h \in Seq(Nat) /\ Len(h) = 5
        /\ IsTop(h[1], Colour(C)) /\ IsTop(h[2], Colour(C) \ {h[1]})
        /\ IsTop(h[3], Colour(C) \ {h[1], h[2]})
        /\ IsTop(h[4], Colour(C) \ {h[1], h[2], h[3]})
        /\ IsTop(h[5], Colour(C) \ {h[1], h[2], h[3], h[4]})
    <3>1. Colour(C) \subseteq Nat /\ IsFiniteSet(Colour(C)) /\ Cardinality(Colour(C)) >= 5
      BY <1>3, <1>7, <1>12 DEF HasFlush
    <3>2. 5 \in 1 .. 5
      OBVIOUS
    <3>3. TopsOf(Highest(5, Colour(C)), 5, Colour(C))
      BY <3>1, <3>2, HighestTops
    <3> QED BY <2>1, <3>3 DEF TopsOf
  <2>4. Shape(d, 6, 5) /\ d[2] = h[1] /\ d[3] = h[2] /\ d[4] = h[3] /\ d[5] = h[4] /\ d[6] = h[5]
    <3>1. Shape(d, 6, Len(h)) /\ \A i \in 1 .. Len(h) : d[i + 1] = h[i]
      BY <2>2, <2>3, AfterHead
    <3>2. d[1 + 1] = h[1] /\ d[2 + 1] = h[2] /\ d[3 + 1] = h[3] /\ d[4 + 1] = h[4] /\ d[5 + 1] = h[5]
      BY <2>3, <3>1
    <3> QED BY <2>3, <3>1, <3>2
  <2>5. FlushOf(C, d)
    BY <2>3, <2>4 DEF FlushOf, HighestOf
  <2> QED BY <1>4, <1>12, <2>5 DEF DirectReads
<1> DEFINE low == ~ HasFour(C) /\ ~ HasFull(C) /\ ~ HasFlush(C)
<1>13. low => ~ HasStraightFlush(C) /\ ~ sf
  BY DEF HasFlush, HasStraightFlush
<1>14. CASE low /\ HasStraight(C)
  <2>1. PICK t : t = StraightTop(R)
    OBVIOUS
  <2>2. t \in Nat
    <3>1. t \in {0} \cup 5 .. 14
      BY ONLY <1>3, <2>1, StraightTopIs
    <3> QED BY <3>1
  <2>3. d = <<5, t>>
    BY <1>2, <1>4, <1>13, <1>14, <2>1, DirectIs
  <2>4. Shape(d, 5, 1) /\ d[2] = t
    BY <2>2, <2>3, Pairing
  <2>5. StraightOf(C, d)
    BY <1>2, <2>1, <2>4 DEF StraightOf
  <2> QED BY <1>4, <1>14, <2>5 DEF DirectReads
<1>15. CASE low /\ ~ HasStraight(C) /\ HasThree(C)
  <2>1. PICK a : a = Top(Many(C, 3))
    OBVIOUS
  <2>2. IsTop(a, Many(C, 3)) /\ a \in Nat
    BY <1>3, <1>6, <1>15, <2>1 DEF HasThree
  <2>3. Many(C, 2) = {a}
    BY <1>15, <2>1 DEF HasThree, HasFull
  <2>4. Many(C, 3) = {a}
    <3>1. Many(C, 3) \subseteq Many(C, 2)
      BY <1>5 DEF Many
    <3> QED BY <2>2, <2>3, <3>1 DEF IsTop
  <2>5. Cardinality(R \ {a}) >= 4
    <3>1. Count(C, a) <= 3
      <4>1. a \in R /\ ~ (Count(C, a) >= 4)
        BY <1>2, <1>15, <2>2 DEF IsTop, Many, HasFour
      <4> QED BY <1>5, <4>1
    <3>2. \A r \in R \ {a} : Count(C, r) < 2
      <4>1. \A r \in R : r # a => ~ (Count(C, r) >= 2)
        BY <1>2, <2>3 DEF Many
      <4> QED BY <1>5, <4>1
    <3>3. a # 0 - 1
      BY <2>2
    <3> QED BY <1>2, <3>1, <3>2, <3>3, Kickers
  <2>6. PICK h : h = Highest(2, R \ {a})
    OBVIOUS
  <2>7. /\ h \in Seq(Nat) /\ Len(h) = 2
        /\ IsTop(h[1], R \ {a}) /\ IsTop(h[2], (R \ {a}) \ {h[1]})
    <3>1. Cardinality(R \ {a}) >= 2 /\ 2 \in 1 .. 5
      <4>1. IsFiniteSet(R \ {a})
        BY <1>19
      <4>2. Cardinality(R \ {a}) \in Nat
        BY ONLY <4>1, FS_CardinalityType
      <4> QED BY <2>5, <4>2
    <3>2. TopsOf(Highest(2, R \ {a}), 2, R \ {a})
      BY <1>19, <3>1, HighestTops
    <3> QED BY <2>6, <3>2 DEF TopsOf
  <2>8. d = <<4, a>> \o h
    BY <1>2, <1>4, <1>13, <1>15, <2>1, <2>4, <2>6, DirectIs
  <2>9. Shape(d, 4, 3) /\ d[2] = a /\ d[3] = h[1] /\ d[4] = h[2]
    <3>3. /\ Shape(<<4, a>> \o h, 4, Len(h) + 1) /\ (<<4, a>> \o h)[2] = a
          /\ \A i \in 1 .. Len(h) : (<<4, a>> \o h)[i + 2] = h[i]
      <4>1. 4 \in Nat /\ a \in Nat /\ h \in Seq(Nat)
        BY <2>2, <2>7
      <4> QED BY ONLY <4>1, AfterTwo
    <3>1. Shape(d, 4, Len(h) + 1) /\ d[2] = a /\ \A i \in 1 .. Len(h) : d[i + 2] = h[i]
      BY <2>8, <3>3
    <3>2. d[1 + 2] = h[1] /\ d[2 + 2] = h[2]
      BY <2>7, <3>1
    <3> QED BY <2>7, <3>1, <3>2
  <2>10. ThreeOf(C, d)
    <3>1. (R \ {a}) \ {h[1]} = R \ {a, h[1]}
      OBVIOUS
    <3> QED BY <1>2, <2>2, <2>7, <2>9, <3>1 DEF ThreeOf
  <2> QED BY <1>4, <1>15, <2>10 DEF DirectReads
<1>16. CASE low /\ ~ HasStraight(C) /\ ~ HasThree(C) /\ HasTwoPair(C)
  <2>1. PICK h : h = Highest(2, Many(C, 2))
    OBVIOUS
  <2>2. /\ h \in Seq(Nat) /\ Len(h) = 2
        /\ IsTop(h[1], Many(C, 2)) /\ IsTop(h[2], Many(C, 2) \ {h[1]})
    <3>1. Many(C, 2) \subseteq Nat /\ IsFiniteSet(Many(C, 2)) /\ Cardinality(Many(C, 2)) >= 2
      BY <1>3, <1>16 DEF HasTwoPair
    <3>2. 2 \in 1 .. 5
      OBVIOUS
    <3>3. TopsOf(Highest(2, Many(C, 2)), 2, Many(C, 2))
      BY <3>1, <3>2, HighestTops
    <3> QED BY <2>1, <3>3 DEF TopsOf
  <2>3. R \ {h[1], h[2]} # {}
    <3>1. h[1] # h[2] /\ h[1] \in R /\ h[2] \in R
      BY <1>3, <2>2 DEF IsTop
    <3>2. ~ (Count(C, h[1]) >= 3) /\ ~ (Count(C, h[2]) >= 3)
      BY <1>2, <1>16, <3>1 DEF HasThree, Many
    <3>3. Count(C, h[1]) + Count(C, h[2]) < 7
      BY <1>5, <3>2
    <3> QED BY <1>2, <3>1, <3>3, Kickers
  <2>4. PICK k : k = Highest(1, R \ {h[1], h[2]})
    OBVIOUS
  <2>5. k \in Seq(Nat) /\ Len(k) = 1 /\ IsTop(k[1], R \ {h[1], h[2]})
    <3>1. Cardinality(R \ {h[1], h[2]}) >= 1 /\ 1 \in 1 .. 5
      <4>1. PICK K : K = R \ {h[1], h[2]}
        OBVIOUS
      <4>2. Cardinality(K) >= 1
        BY <1>19, <2>3, <4>1, CardTwo
      <4> QED BY <4>1, <4>2
    <3>2. TopsOf(Highest(1, R \ {h[1], h[2]}), 1, R \ {h[1], h[2]})
      BY <1>19, <3>1, HighestTops
    <3> QED BY <2>4, <3>2 DEF TopsOf
  <2>6. d = <<3>> \o h \o k
    BY <1>2, <1>4, <1>13, <1>16, <2>1, <2>4, DirectIs
  <2>7. Shape(d, 3, 3) /\ d[2] = h[1] /\ d[3] = h[2] /\ d[4] = k[1]
    BY <2>2, <2>5, <2>6, AfterThree
  <2>8. TwoPairOf(C, d)
    BY <1>2, <2>2, <2>5, <2>7 DEF TwoPairOf
  <2> QED BY <1>4, <1>16, <2>8 DEF DirectReads
<1>17. CASE low /\ ~ HasStraight(C) /\ ~ HasThree(C) /\ ~ HasTwoPair(C) /\ HasPair(C)
  <2>1. PICK a : a = Top(Many(C, 2))
    OBVIOUS
  <2>2. IsTop(a, Many(C, 2)) /\ a \in Nat
    BY <1>3, <1>6, <1>17, <2>1 DEF HasPair
  <2>3. Many(C, 2) = {a}
    BY <1>3, <1>17, <2>2, CardTwo DEF IsTop, HasTwoPair
  <2>4. Cardinality(R \ {a}) >= 4
    <3>1. Count(C, a) <= 3
      <4>1. a \in R /\ ~ (Count(C, a) >= 3)
        BY <1>2, <1>3, <1>17, <2>2 DEF IsTop, Many, HasThree
      <4> QED BY <1>5, <4>1
    <3>2. \A r \in R \ {a} : Count(C, r) < 2
      <4>1. \A r \in R : r # a => ~ (Count(C, r) >= 2)
        BY <1>2, <2>3 DEF Many
      <4> QED BY <1>5, <4>1
    <3>3. a # 0 - 1
      BY <2>2
    <3> QED BY <1>2, <3>1, <3>2, <3>3, Kickers
  <2>5. PICK h : h = Highest(3, R \ {a})
    OBVIOUS
  <2>6. /\ h \in Seq(Nat) /\ Len(h) = 3
        /\ IsTop(h[1], R \ {a}) /\ IsTop(h[2], (R \ {a}) \ {h[1]})
        /\ IsTop(h[3], (R \ {a}) \ {h[1], h[2]})
    <3>1. Cardinality(R \ {a}) >= 3 /\ 3 \in 1 .. 5
      <4>1. IsFiniteSet(R \ {a})
        BY <1>19
      <4>2. Cardinality(R \ {a}) \in Nat
        BY ONLY <4>1, FS_CardinalityType
      <4> QED BY <2>4, <4>2
    <3>2. TopsOf(Highest(3, R \ {a}), 3, R \ {a})
      BY <1>19, <3>1, HighestTops
    <3> QED BY <2>5, <3>2 DEF TopsOf
  <2>7. d = <<2, a>> \o h
    BY <1>2, <1>4, <1>13, <1>17, <2>1, <2>3, <2>5, DirectIs
  <2>8. Shape(d, 2, 4) /\ d[2] = a /\ d[3] = h[1] /\ d[4] = h[2] /\ d[5] = h[3]
    <3>3. /\ Shape(<<2, a>> \o h, 2, Len(h) + 1) /\ (<<2, a>> \o h)[2] = a
          /\ \A i \in 1 .. Len(h) : (<<2, a>> \o h)[i + 2] = h[i]
      <4>1. 2 \in Nat /\ a \in Nat /\ h \in Seq(Nat)
        BY <2>2, <2>6
      <4> QED BY ONLY <4>1, AfterTwo
    <3>1. Shape(d, 2, Len(h) + 1) /\ d[2] = a /\ \A i \in 1 .. Len(h) : d[i + 2] = h[i]
      BY <2>7, <3>3
    <3>2. d[1 + 2] = h[1] /\ d[2 + 2] = h[2] /\ d[3 + 2] = h[3]
      BY <2>6, <3>1
    <3> QED BY <2>6, <3>1, <3>2
  <2>9. PairOf(C, d)
    <3>1. (R \ {a}) \ {h[1]} = R \ {a, h[1]} /\ (R \ {a}) \ {h[1], h[2]} = R \ {a, h[1], h[2]}
      OBVIOUS
    <3> QED BY <1>2, <2>2, <2>6, <2>8, <3>1 DEF PairOf
  <2> QED BY <1>4, <1>17, <2>9 DEF DirectReads
<1>18. CASE low /\ ~ HasStraight(C) /\ ~ HasThree(C) /\ ~ HasTwoPair(C) /\ ~ HasPair(C)
  <2>1. Cardinality(R) >= 5
    <3>1. \A r \in R : ~ (Count(C, r) >= 2)
      BY <1>2, <1>18 DEF HasPair, Many
    <3>2. \A r \in R : Count(C, r) < 2
      BY <1>5, <3>1
    <3> QED BY <1>2, <3>2, Kickers, 0 # 1
  <2>2. PICK h : h = Highest(5, R)
    OBVIOUS
  <2>3. /\ h \in Seq(Nat) /\ Len(h) = 5
        /\ IsTop(h[1], R) /\ IsTop(h[2], R \ {h[1]}) /\ IsTop(h[3], R \ {h[1], h[2]})
        /\ IsTop(h[4], R \ {h[1], h[2], h[3]}) /\ IsTop(h[5], R \ {h[1], h[2], h[3], h[4]})
    <3>1. 5 \in 1 .. 5
      OBVIOUS
    <3>2. TopsOf(Highest(5, R), 5, R)
      BY <1>3, <2>1, <3>1, HighestTops
    <3> QED BY <2>2, <3>2 DEF TopsOf
  <2>4. d = <<1>> \o h
    BY <1>2, <1>4, <1>13, <1>18, <2>2, DirectIs
  <2>5. Shape(d, 1, 5) /\ d[2] = h[1] /\ d[3] = h[2] /\ d[4] = h[3] /\ d[5] = h[4] /\ d[6] = h[5]
    <3>1. Shape(d, 1, Len(h)) /\ \A i \in 1 .. Len(h) : d[i + 1] = h[i]
      BY <2>3, <2>4, AfterHead
    <3>2. d[1 + 1] = h[1] /\ d[2 + 1] = h[2] /\ d[3 + 1] = h[3] /\ d[4 + 1] = h[4] /\ d[5 + 1] = h[5]
      BY <2>3, <3>1
    <3> QED BY <2>3, <3>1, <3>2
  <2>6. HighOf(C, d)
    BY <1>2, <2>3, <2>5 DEF HighOf, HighestOf
  <2> QED BY <1>4, <1>18, <2>6 DEF DirectReads
<1> QED BY <1>8, <1>10, <1>11, <1>12, <1>14, <1>15, <1>16, <1>17, <1>18

----------------------------------------------------------------------------
(* No five of the seven cards are worth more than the reference says *)

Above(d, h) == d \in Seq(Nat) /\ Len(d) >= 1 /\ d[1] > h

LEMMA LowerHand ==
  ASSUME NEW v, NEW h \in Nat, NEW n, Shape(v, h, n), NEW d, Above(d, h)
  PROVE  ~ Beats(v, d)
<1>1. v \in Seq(Nat) /\ v[1] = h /\ d \in Seq(Nat) /\ Len(d) >= 1 /\ d[1] > h
  BY DEF Shape, Above
<1>2. 1 <= Len(d) /\ Len(d) \in Nat /\ d[1] \in Nat
  BY <1>1
<1> SUFFICES ASSUME NEW i \in 1 .. Len(v),
                    (IF i <= Len(v) THEN v[i] ELSE 0) > (IF i <= Len(d) THEN d[i] ELSE 0),
                    \A j \in 1 .. (i - 1) :
                      (IF j <= Len(v) THEN v[j] ELSE 0) = (IF j <= Len(d) THEN d[j] ELSE 0)
             PROVE  FALSE
  BY DEF Beats
<1>3. i \in Nat /\ i >= 1 /\ Len(v) \in Nat /\ 1 <= Len(v)
  BY <1>1
<1>4. CASE i = 1
  BY <1>1, <1>2, <1>3, <1>4
<1>5. CASE i # 1
  <2>1. 1 \in 1 .. (i - 1)
    BY <1>3, <1>5
  <2>2. v[1] = d[1]
    BY <1>2, <1>3, <2>1
  <2> QED BY <1>1, <1>2, <2>2
<1> QED BY <1>4, <1>5

LEMMA NoHigher ==
  ASSUME NEW h \in Nat, NEW n \in 1 .. 5, NEW v, Shape(v, h, n), NEW d, Shape(d, h, n),
         v[2] <= d[2],
         n >= 2 /\ v[2] = d[2] => v[3] <= d[3],
         n >= 3 /\ v[2] = d[2] /\ v[3] = d[3] => v[4] <= d[4],
         n >= 4 /\ v[2] = d[2] /\ v[3] = d[3] /\ v[4] = d[4] => v[5] <= d[5],
         n >= 5 /\ v[2] = d[2] /\ v[3] = d[3] /\ v[4] = d[4] /\ v[5] = d[5] => v[6] <= d[6]
  PROVE  ~ Beats(v, d)
<1>1. /\ v \in Seq(Nat) /\ Len(v) = n + 1 /\ v[1] = h
      /\ d \in Seq(Nat) /\ Len(d) = n + 1 /\ d[1] = h
  BY DEF Shape
<1> SUFFICES ASSUME NEW i \in 1 .. Len(v),
                    (IF i <= Len(v) THEN v[i] ELSE 0) > (IF i <= Len(d) THEN d[i] ELSE 0),
                    \A j \in 1 .. (i - 1) :
                      (IF j <= Len(v) THEN v[j] ELSE 0) = (IF j <= Len(d) THEN d[j] ELSE 0)
             PROVE  FALSE
  BY DEF Beats
<1>2. i \in 1 .. n + 1 /\ v[i] > d[i] /\ v[i] \in Nat /\ d[i] \in Nat
  BY <1>1
<1>3. \A j \in 1 .. (i - 1) : v[j] = d[j]
  <2> SUFFICES ASSUME NEW j \in 1 .. (i - 1) PROVE v[j] = d[j]
    OBVIOUS
  <2>1. j <= Len(v) /\ j <= Len(d)
    BY <1>1, <1>2
  <2> QED BY <2>1
<1>4. i \in {1, 2, 3, 4, 5, 6}
  BY <1>2
<1>5. i # 1
  BY <1>1, <1>2
<1>6. i # 2
  BY <1>2
<1>7. i # 3
  <2> SUFFICES ASSUME i = 3 PROVE FALSE
    OBVIOUS
  <2>1. v[2] = d[2] /\ n >= 2
    BY <1>2, <1>3
  <2> QED BY <1>2, <2>1
<1>8. i # 4
  <2> SUFFICES ASSUME i = 4 PROVE FALSE
    OBVIOUS
  <2>1. v[2] = d[2] /\ v[3] = d[3] /\ n >= 3
    BY <1>2, <1>3
  <2> QED BY <1>2, <2>1
<1>9. i # 5
  <2> SUFFICES ASSUME i = 5 PROVE FALSE
    OBVIOUS
  <2>1. v[2] = d[2] /\ v[3] = d[3] /\ v[4] = d[4] /\ n >= 4
    BY <1>2, <1>3
  <2> QED BY <1>2, <2>1
<1>10. i # 6
  <2> SUFFICES ASSUME i = 6 PROVE FALSE
    OBVIOUS
  <2>1. v[2] = d[2] /\ v[3] = d[3] /\ v[4] = d[4] /\ v[5] = d[5] /\ n >= 5
    BY <1>2, <1>3
  <2> QED BY <1>2, <2>1
<1> QED BY <1>4, <1>5, <1>6, <1>7, <1>8, <1>9, <1>10

LEMMA Heads ==
  ASSUME NEW C, NEW d
  PROVE  /\ StraightFlushOf(C, d) => Above(d, 8)
         /\ FourOf(C, d) => Above(d, 7)
         /\ FullOf(C, d) => Above(d, 6)
         /\ FlushOf(C, d) => Above(d, 5)
         /\ StraightOf(C, d) => Above(d, 4)
         /\ ThreeOf(C, d) => Above(d, 3)
         /\ TwoPairOf(C, d) => Above(d, 2)
         /\ PairOf(C, d) => Above(d, 1)
         /\ \A h, k \in Nat : h <= k /\ Above(d, k) => Above(d, h)
BY DEF Above, Shape, StraightFlushOf, FourOf, FullOf, FlushOf, StraightOf, ThreeOf, TwoPairOf,
       PairOf

LEMMA NoneBetter ==
  ASSUME NEW C, Seven(C), NEW F, F \subseteq C, Five(F),
         NEW v, Reads(F, v), NEW d, DirectReads(C, d)
  PROVE  ~ Beats(v, d)
<1>1. Cards(C) /\ Cards(F)
  BY DEF Seven, Five
<1>2. PICK R : R = Ranks(C)
  OBVIOUS
<1>3. /\ R \subseteq 2 .. 14 /\ Ranks(F) \subseteq R
      /\ \A n : Many(C, n) \subseteq R /\ IsFiniteSet(Many(C, n))
  BY <1>1, <1>2, ManyType, FewerCards
<1>4. \A r : Count(F, r) <= Count(C, r) /\ Count(F, r) \in Nat /\ Count(C, r) \in Nat
  BY <1>1, FewerCards, RankCount
<1>5. \A r \in Ranks(F), n \in Nat : Count(F, r) >= n => r \in Many(C, n)
  <2> SUFFICES ASSUME NEW r \in Ranks(F), NEW n \in Nat, Count(F, r) >= n PROVE r \in Many(C, n)
    OBVIOUS
  <2>1. Count(C, r) >= n /\ r \in Ranks(C)
    BY <1>2, <1>3, <1>4
  <2> QED BY <2>1 DEF Many
<1>19. \A r \in Ranks(F) : r \in R /\ r \in Nat
  <2>1. Ranks(F) \subseteq R /\ R \subseteq Nat
    BY <1>1, <1>2, <1>3, ManyType
  <2> QED BY <2>1
<1>6. OneSuit(F) => Colour(C) # {} /\ Ranks(F) \subseteq Colour(C)
  BY ColourHolds
<1>7. Colour(C) # {} => Colour(C) \subseteq 2 .. 14
  BY <1>2, <1>3, ColourOf
<1>8. /\ StraightFlushOf(C, d) => Above(d, 8)
      /\ FourOf(C, d) => Above(d, 7)
      /\ FullOf(C, d) => Above(d, 6)
      /\ FlushOf(C, d) => Above(d, 5)
      /\ StraightOf(C, d) => Above(d, 4)
      /\ ThreeOf(C, d) => Above(d, 3)
      /\ TwoPairOf(C, d) => Above(d, 2)
      /\ PairOf(C, d) => Above(d, 1)
      /\ \A h, k \in Nat : h <= k /\ Above(d, k) => Above(d, h)
  BY Heads
<1>9. CASE StraightFlushRead(F, v)
  <2>1. /\ Shape(v, IF v[2] = 14 THEN 10 ELSE 9, 1) /\ v[2] \in 5 .. 14 /\ Ranks(F) = RunOf(v[2])
        /\ OneSuit(F)
    BY <1>9 DEF StraightFlushRead
  <2>2. Colour(C) # {} /\ RunOf(v[2]) \subseteq Colour(C) /\ Colour(C) \subseteq 2 .. 14
    BY <1>6, <1>7, <2>1
  <2>3. PICK t : t = StraightTop(Colour(C))
    OBVIOUS
  <2>4. t \in 5 .. 14 /\ v[2] <= t
    BY <2>1, <2>2, <2>3, StraightTopIs
  <2>5. HasStraightFlush(C)
    BY <2>2, <2>3, <2>4 DEF HasStraightFlush
  <2>6. Shape(d, IF t = 14 THEN 10 ELSE 9, 1) /\ d[2] = t
    BY <2>3, <2>5 DEF DirectReads, StraightFlushOf, HasFlush, HasStraightFlush
  <2>7. CASE t = 14 /\ v[2] # 14
    <3>1. Shape(v, 9, 1) /\ Above(d, 9)
      BY <2>1, <2>6, <2>7 DEF Shape, Above
    <3> QED BY <3>1, LowerHand
  <2>8. CASE t = 14 /\ v[2] = 14
    <3>1. Shape(v, 10, 1) /\ Shape(d, 10, 1) /\ v[2] <= d[2] /\ 1 \in 1 .. 5
      BY <2>1, <2>6, <2>8
    <3> QED BY <3>1, NoHigher
  <2>9. CASE t # 14
    <3>1. Shape(v, 9, 1) /\ Shape(d, 9, 1) /\ v[2] <= d[2] /\ 1 \in 1 .. 5
      BY <2>1, <2>4, <2>6, <2>9
    <3> QED BY <3>1, NoHigher
  <2> QED BY <2>7, <2>8, <2>9
<1>10. CASE FourRead(F, v)
  <2>1. Shape(v, 8, 2) /\ v[2] # v[3] /\ v[2] \in Many(C, 4) /\ v[3] \in R
    BY <1>3, <1>5, <1>10 DEF FourRead
  <2>2. StraightFlushOf(C, d) \/ FourOf(C, d)
    BY <2>1 DEF DirectReads, HasFour
  <2>3. CASE StraightFlushOf(C, d)
    BY <1>8, <2>1, <2>3, LowerHand
  <2>4. CASE FourOf(C, d)
    <3>1. Shape(d, 8, 2) /\ v[2] <= d[2] /\ (v[2] = d[2] => v[3] <= d[3]) /\ 2 \in 1 .. 5
      BY <1>2, <2>1, <2>4 DEF FourOf, IsTop
    <3> QED BY <2>1, <3>1, NoHigher
  <2> QED BY <2>2, <2>3, <2>4
<1>11. CASE FullRead(F, v)
  <2>1. Shape(v, 7, 2) /\ v[2] # v[3] /\ v[2] \in Many(C, 3) /\ v[3] \in Many(C, 2)
        /\ v[2] \in Many(C, 2)
    BY <1>4, <1>5, <1>11 DEF FullRead
  <2>2. StraightFlushOf(C, d) \/ FourOf(C, d) \/ FullOf(C, d)
    BY <2>1 DEF DirectReads, HasFull
  <2>3. CASE StraightFlushOf(C, d) \/ FourOf(C, d)
    BY <1>8, <2>1, <2>3, LowerHand
  <2>4. CASE FullOf(C, d)
    <3>1. Shape(d, 7, 2) /\ v[2] <= d[2] /\ (v[2] = d[2] => v[3] <= d[3]) /\ 2 \in 1 .. 5
      BY <2>1, <2>4 DEF FullOf, IsTop
    <3> QED BY <2>1, <3>1, NoHigher
  <2> QED BY <2>2, <2>3, <2>4
<1>12. ASSUME NEW S, HighestOf(S, d), NEW h \in Nat, Shape(v, h, 5), Shape(d, h, 5),
              Ranks(F) \subseteq S, Ranks(F) = {v[2], v[3], v[4], v[5], v[6]},
              Falling(v, 2, 3, 4), Falling(v, 4, 5, 6)
       PROVE  ~ Beats(v, d)
  <2>1. /\ v[2] \in S /\ v[3] \in S /\ v[4] \in S /\ v[5] \in S /\ v[6] \in S
        /\ v[2] > v[3] /\ v[3] > v[4] /\ v[4] > v[5] /\ v[5] > v[6]
        /\ v[2] \in Nat /\ v[3] \in Nat /\ v[4] \in Nat /\ v[5] \in Nat /\ v[6] \in Nat
    <3>1. v[2] \in Ranks(F) /\ v[3] \in Ranks(F) /\ v[4] \in Ranks(F) /\ v[5] \in Ranks(F)
          /\ v[6] \in Ranks(F)
      BY <1>12
    <3> QED BY <1>12, <1>19, <3>1 DEF Falling
  <2>2. /\ v[2] <= d[2]
        /\ v[2] = d[2] => v[3] <= d[3]
        /\ v[2] = d[2] /\ v[3] = d[3] => v[4] <= d[4]
        /\ v[2] = d[2] /\ v[3] = d[3] /\ v[4] = d[4] => v[5] <= d[5]
        /\ v[2] = d[2] /\ v[3] = d[3] /\ v[4] = d[4] /\ v[5] = d[5] => v[6] <= d[6]
    BY <1>12, <2>1 DEF HighestOf, IsTop
  <2>3. 5 \in 1 .. 5
    OBVIOUS
  <2> QED BY <1>12, <2>2, <2>3, NoHigher
<1>13. CASE FlushRead(F, v)
  <2>1. Shape(v, 6, 5) /\ OneSuit(F)
    BY <1>13 DEF FlushRead
  <2>2. StraightFlushOf(C, d) \/ FourOf(C, d) \/ FullOf(C, d) \/ FlushOf(C, d)
    BY <1>6, <2>1 DEF DirectReads, HasFlush
  <2>3. CASE StraightFlushOf(C, d) \/ FourOf(C, d) \/ FullOf(C, d)
    <3>1. Above(d, 6)
      BY <1>8, <2>3
    <3> QED BY <2>1, <3>1, LowerHand
  <2>4. CASE FlushOf(C, d)
    <3>1. Ranks(F) \subseteq Colour(C)
      BY <1>6, <2>1
    <3> QED BY <1>12, <1>13, <2>4, <3>1 DEF FlushRead, FlushOf
  <2> QED BY <2>2, <2>3, <2>4
<1>14. CASE StraightRead(F, v)
  <2>1. Shape(v, 5, 1) /\ v[2] \in 5 .. 14 /\ RunOf(v[2]) \subseteq R
    BY <1>3, <1>14 DEF StraightRead
  <2>2. StraightTop(R) >= v[2] /\ StraightTop(R) # 0
    <3>1. StraightTop(R) >= v[2] /\ StraightTop(R) \in {0} \cup 5 .. 14
      BY <1>3, <2>1, StraightTopIs
    <3> QED BY <2>1, <3>1
  <2>3. StraightFlushOf(C, d) \/ FourOf(C, d) \/ FullOf(C, d) \/ FlushOf(C, d) \/ StraightOf(C, d)
    BY <1>2, <2>2 DEF DirectReads, HasStraight
  <2>4. CASE StraightFlushOf(C, d) \/ FourOf(C, d) \/ FullOf(C, d) \/ FlushOf(C, d)
    <3>1. Above(d, 5)
      BY <1>8, <2>4
    <3> QED BY <2>1, <3>1, LowerHand
  <2>5. CASE StraightOf(C, d)
    <3>1. Shape(d, 5, 1) /\ v[2] <= d[2] /\ 1 \in 1 .. 5
      <4>1. Shape(d, 5, 1) /\ d[2] = StraightTop(R)
        BY <1>2, <2>5 DEF StraightOf
      <4>2. StraightTop(R) \in {0} \cup 5 .. 14
        BY <1>3, StraightTopIs
      <4> QED BY <2>1, <2>2, <4>1, <4>2
    <3> QED BY <2>1, <3>1, NoHigher
  <2> QED BY <2>3, <2>4, <2>5
<1>15. CASE ThreeRead(F, v)
  <2>1. /\ Shape(v, 4, 3) /\ v[2] \in Many(C, 3) /\ v[3] \in R /\ v[4] \in R
        /\ v[2] \notin {v[3], v[4]} /\ v[3] > v[4] /\ v[3] \in Nat /\ v[4] \in Nat
    <3>1. v[2] \in Ranks(F) /\ v[3] \in Ranks(F) /\ v[4] \in Ranks(F) /\ Count(F, v[2]) >= 3
      BY <1>15 DEF ThreeRead
    <3>2. v[2] \in Many(C, 3)
      BY <1>5, <3>1
    <3> QED BY <1>15, <1>19, <3>1, <3>2 DEF ThreeRead
  <2>2. StraightFlushOf(C, d) \/ FourOf(C, d) \/ FullOf(C, d) \/ FlushOf(C, d) \/ StraightOf(C, d)
        \/ ThreeOf(C, d)
    BY <2>1 DEF DirectReads, HasThree
  <2>3. CASE StraightFlushOf(C, d) \/ FourOf(C, d) \/ FullOf(C, d) \/ FlushOf(C, d)
             \/ StraightOf(C, d)
    <3>1. Above(d, 4)
      BY <1>8, <2>3
    <3> QED BY <2>1, <3>1, LowerHand
  <2>4. CASE ThreeOf(C, d)
    <3>1. /\ Shape(d, 4, 3) /\ v[2] <= d[2] /\ (v[2] = d[2] => v[3] <= d[3])
          /\ (v[2] = d[2] /\ v[3] = d[3] => v[4] <= d[4]) /\ 3 \in 1 .. 5
      BY <1>2, <2>1, <2>4 DEF ThreeOf, IsTop
    <3> QED BY <2>1, <3>1, NoHigher
  <2> QED BY <2>2, <2>3, <2>4
<1>16. CASE TwoPairRead(F, v)
  <2>1. /\ Shape(v, 3, 3) /\ v[2] \in Many(C, 2) /\ v[3] \in Many(C, 2) /\ v[4] \in R
        /\ v[4] \notin {v[2], v[3]} /\ v[2] > v[3] /\ v[2] \in Nat /\ v[3] \in Nat
    <3>1. v[2] \in Ranks(F) /\ v[3] \in Ranks(F) /\ v[4] \in Ranks(F)
          /\ Count(F, v[2]) >= 2 /\ Count(F, v[3]) >= 2
      BY <1>16 DEF TwoPairRead
    <3>2. v[2] \in Many(C, 2) /\ v[3] \in Many(C, 2)
      BY <1>5, <3>1
    <3> QED BY <1>16, <1>19, <3>1, <3>2 DEF TwoPairRead
  <2>2. HasTwoPair(C)
    <3>1. v[2] # v[3]
      BY <2>1
    <3> QED BY <1>3, <2>1, <3>1, CardTwo DEF HasTwoPair
  <2>3. StraightFlushOf(C, d) \/ FourOf(C, d) \/ FullOf(C, d) \/ FlushOf(C, d) \/ StraightOf(C, d)
        \/ ThreeOf(C, d) \/ TwoPairOf(C, d)
    BY <2>2 DEF DirectReads
  <2>4. CASE StraightFlushOf(C, d) \/ FourOf(C, d) \/ FullOf(C, d) \/ FlushOf(C, d)
             \/ StraightOf(C, d) \/ ThreeOf(C, d)
    <3>1. Above(d, 3)
      BY <1>8, <2>4
    <3> QED BY <2>1, <3>1, LowerHand
  <2>5. CASE TwoPairOf(C, d)
    <3>1. /\ Shape(d, 3, 3) /\ v[2] <= d[2] /\ (v[2] = d[2] => v[3] <= d[3])
          /\ (v[2] = d[2] /\ v[3] = d[3] => v[4] <= d[4]) /\ 3 \in 1 .. 5
      BY <1>2, <2>1, <2>5 DEF TwoPairOf, IsTop
    <3> QED BY <2>1, <3>1, NoHigher
  <2> QED BY <2>3, <2>4, <2>5
<1>17. CASE PairRead(F, v)
  <2>1. /\ Shape(v, 2, 4) /\ v[2] \in Many(C, 2) /\ v[3] \in R /\ v[4] \in R /\ v[5] \in R
        /\ v[2] \notin {v[3], v[4], v[5]} /\ v[3] > v[4] /\ v[4] > v[5]
        /\ v[3] \in Nat /\ v[4] \in Nat /\ v[5] \in Nat
    <3>1. v[2] \in Ranks(F) /\ v[3] \in Ranks(F) /\ v[4] \in Ranks(F) /\ v[5] \in Ranks(F)
          /\ Count(F, v[2]) >= 2
      BY <1>17 DEF PairRead
    <3>2. v[2] \in Many(C, 2)
      BY <1>5, <3>1
    <3> QED BY <1>17, <1>19, <3>1, <3>2 DEF PairRead, Falling
  <2>2. StraightFlushOf(C, d) \/ FourOf(C, d) \/ FullOf(C, d) \/ FlushOf(C, d) \/ StraightOf(C, d)
        \/ ThreeOf(C, d) \/ TwoPairOf(C, d) \/ PairOf(C, d)
    BY <2>1 DEF DirectReads, HasPair
  <2>3. CASE StraightFlushOf(C, d) \/ FourOf(C, d) \/ FullOf(C, d) \/ FlushOf(C, d)
             \/ StraightOf(C, d) \/ ThreeOf(C, d) \/ TwoPairOf(C, d)
    <3>1. Above(d, 2)
      BY <1>8, <2>3
    <3> QED BY <2>1, <3>1, LowerHand
  <2>4. CASE PairOf(C, d)
    <3>1. /\ Shape(d, 2, 4) /\ v[2] <= d[2] /\ (v[2] = d[2] => v[3] <= d[3])
          /\ (v[2] = d[2] /\ v[3] = d[3] => v[4] <= d[4])
          /\ (v[2] = d[2] /\ v[3] = d[3] /\ v[4] = d[4] => v[5] <= d[5]) /\ 4 \in 1 .. 5
      BY <1>2, <2>1, <2>4 DEF PairOf, IsTop
    <3> QED BY <2>1, <3>1, NoHigher
  <2> QED BY <2>2, <2>3, <2>4
<1>18. CASE HighRead(F, v)
  <2>1. Shape(v, 1, 5)
    BY <1>18 DEF HighRead
  <2>2. \/ StraightFlushOf(C, d) \/ FourOf(C, d) \/ FullOf(C, d) \/ FlushOf(C, d)
        \/ StraightOf(C, d) \/ ThreeOf(C, d) \/ TwoPairOf(C, d) \/ PairOf(C, d)
        \/ HighOf(C, d)
    BY DEF DirectReads
  <2>3. CASE StraightFlushOf(C, d) \/ FourOf(C, d) \/ FullOf(C, d) \/ FlushOf(C, d)
             \/ StraightOf(C, d) \/ ThreeOf(C, d) \/ TwoPairOf(C, d) \/ PairOf(C, d)
    <3>1. Above(d, 1)
      BY <1>8, <2>3
    <3> QED BY <2>1, <3>1, LowerHand
  <2>4. CASE HighOf(C, d)
    BY <1>2, <1>3, <1>12, <1>18, <2>4 DEF HighRead, HighOf
  <2> QED BY <2>2, <2>3, <2>4
<1> QED BY <1>9, <1>10, <1>11, <1>13, <1>14, <1>15, <1>16, <1>17, <1>18 DEF Reads

----------------------------------------------------------------------------
(* Some five of the seven cards are worth what the reference says *)

LEMMA SomeOf ==
  ASSUME NEW S, IsFiniteSet(S), Cardinality(S) <= 4, NEW n \in 1 .. 4, n <= Cardinality(S)
  PROVE  \E T \in SUBSET S : Cardinality(T) = n
<1> DEFINE has(k) == \E T \in SUBSET S : Cardinality(T) = k
<1>1. Cardinality(S) \in Nat
  BY FS_CardinalityType
<1>2. has(Cardinality(S))
  OBVIOUS
<1>3. ASSUME NEW k \in 1 .. 4, has(k) PROVE has(k - 1)
  <2>1. PICK T \in SUBSET S : Cardinality(T) = k
    BY <1>3
  <2>2. IsFiniteSet(T)
    BY FS_Subset
  <2>3. T # {}
    BY <2>1, FS_EmptySet
  <2>4. PICK x \in T : TRUE
    BY <2>3
  <2>5. T \ {x} \in SUBSET S /\ Cardinality(T \ {x}) = k - 1
    BY <2>1, <2>2, <2>4, FS_RemoveElement
  <2> QED BY <2>5
<1> HIDE DEF has
<1>4. has(4) => has(4 - 1)
  BY <1>3
<1>5. has(3) => has(3 - 1)
  BY <1>3
<1>6. has(2) => has(2 - 1)
  BY <1>3
<1>7. (has(4) => has(3)) /\ (has(3) => has(2)) /\ (has(2) => has(1))
  BY <1>4, <1>5, <1>6
<1>8. PICK m \in Nat : m = Cardinality(S) /\ has(m)
  BY <1>1, <1>2
<1>9. m \in {1, 2, 3, 4} /\ n \in {1, 2, 3, 4} /\ n <= m
  BY <1>8
<1>10. has(n)
  BY <1>7, <1>8, <1>9
<1> QED BY <1>10 DEF has

\* As many cards of each rank of Y as wanted.
LEMMA Chosen ==
  ASSUME NEW C, Cards(C), NEW Y, Y \subseteq Ranks(C), NEW want \in [Y -> 1 .. 4],
         \A r \in Y : want[r] <= Count(C, r)
  PROVE  \E F \in SUBSET C : Cards(F) /\ Ranks(F) = Y /\ \A r \in Y : Count(F, r) = want[r]
<1>1. ASSUME NEW r \in Y
      PROVE  \E T \in SUBSET C : T \subseteq OfRank(C, r) /\ Cardinality(T) = want[r]
  <2>1. /\ IsFiniteSet(OfRank(C, r)) /\ OfRank(C, r) \subseteq C
        /\ Count(C, r) = Cardinality(OfRank(C, r)) /\ Count(C, r) \in 0 .. 4
    BY RankCount DEF Cards
  <2>2. want[r] \in 1 .. 4 /\ want[r] <= Cardinality(OfRank(C, r))
    BY <2>1
  <2>3. Cardinality(OfRank(C, r)) <= 4
    BY <2>1
  <2>4. PICK T \in SUBSET OfRank(C, r) : Cardinality(T) = want[r]
    BY <2>1, <2>2, <2>3, SomeOf
  <2> QED BY <2>1, <2>4
<1> DEFINE at(r) == CHOOSE T \in SUBSET C : T \subseteq OfRank(C, r) /\ Cardinality(T) = want[r]
<1>2. \A r \in Y : at(r) \in SUBSET C /\ at(r) \subseteq OfRank(C, r) /\ Cardinality(at(r)) = want[r]
  BY <1>1
<1> HIDE DEF at
<1> DEFINE F == {c \in C : c.rank \in Y /\ c \in at(c.rank)}
<1>3. F \subseteq C
  OBVIOUS
<1>4. Cards(F)
  BY <1>3, FewerCards
<1>5. ASSUME NEW r \in Y PROVE OfRank(F, r) = at(r)
  BY <1>2 DEF OfRank
<1>6. \A r \in Y : Count(F, r) = want[r]
  <2> SUFFICES ASSUME NEW r \in Y PROVE Count(F, r) = want[r]
    OBVIOUS
  <2> HIDE DEF F
  <2>1. Count(F, r) = Cardinality(OfRank(F, r))
    BY <1>4, RankCount
  <2> QED BY <1>2, <1>5, <2>1
<1>7. Ranks(F) \subseteq Y
  BY DEF Ranks
<1>8. Y \subseteq Ranks(F)
  <2> SUFFICES ASSUME NEW r \in Y PROVE r \in Ranks(F)
    OBVIOUS
  <2> HIDE DEF F
  <2>1. Count(F, r) >= 1 <=> r \in Ranks(F)
    BY <1>4, RankCount
  <2> QED BY <1>6, <2>1
<1> QED BY <1>3, <1>4, <1>6, <1>7, <1>8

LEMMA SameScore ==
  ASSUME NEW h, NEW n \in 1 .. 5, NEW v, Shape(v, h, n), NEW d, Shape(d, h, n),
         v[2] = d[2], n >= 2 => v[3] = d[3], n >= 3 => v[4] = d[4], n >= 4 => v[5] = d[5],
         n >= 5 => v[6] = d[6]
  PROVE  v = d
<1>1. v \in Seq(Nat) /\ Len(v) = n + 1 /\ d \in Seq(Nat) /\ Len(d) = n + 1 /\ v[1] = d[1]
  BY DEF Shape
<1>2. ASSUME NEW i \in 1 .. Len(v) PROVE v[i] = d[i]
  <2>1. i \in 1 .. n + 1
    BY <1>1
  <2>2. i \in {1, 2, 3, 4, 5, 6} /\ i <= n + 1
    BY <2>1
  <2> QED BY <1>1, <2>2
<1> QED BY <1>1, <1>2, SeqEqual

\* Which hand five cards are.
LEMMA WhichHand ==
  ASSUME NEW F, NEW v, Reads(F, v)
  PROVE  /\ \A a \in Ranks(F) : Count(F, a) = 4 => FourRead(F, v)
         /\ \A a, b \in Ranks(F) : Count(F, a) = 3 /\ Count(F, b) = 2 => FullRead(F, v)
         /\ \A a \in Ranks(F) :
              Count(F, a) = 3 /\ (\A r \in Ranks(F) : Count(F, r) # 2) => ThreeRead(F, v)
         /\ \A a, b \in Ranks(F) :
              a # b /\ Count(F, a) = 2 /\ Count(F, b) = 2 => TwoPairRead(F, v)
         /\ \A a \in Ranks(F) :
              Count(F, a) = 2 /\ (\A r \in Ranks(F) \ {a} : Count(F, r) = 1) => PairRead(F, v)
         /\ Singles(F) => \/ StraightFlushRead(F, v) \/ FlushRead(F, v) \/ StraightRead(F, v)
                          \/ HighRead(F, v)
<1>1. ASSUME NEW a \in Ranks(F), Count(F, a) # 1
      PROVE  \/ FourRead(F, v) \/ FullRead(F, v) \/ ThreeRead(F, v) \/ TwoPairRead(F, v)
             \/ PairRead(F, v)
  <2>1. ~ Singles(F)
    BY <1>1 DEF Singles
  <2> QED BY <2>1 DEF Reads, StraightFlushRead, FlushRead, StraightRead, HighRead
<1>2. /\ FourRead(F, v) => Ranks(F) = {v[2], v[3]} /\ Count(F, v[2]) = 4 /\ Count(F, v[3]) = 1
      /\ FullRead(F, v) => Ranks(F) = {v[2], v[3]} /\ Count(F, v[2]) = 3 /\ Count(F, v[3]) = 2
      /\ ThreeRead(F, v) => /\ Ranks(F) = {v[2], v[3], v[4]} /\ Count(F, v[2]) = 3
                            /\ Count(F, v[3]) = 1 /\ Count(F, v[4]) = 1
      /\ TwoPairRead(F, v) => /\ Ranks(F) = {v[2], v[3], v[4]} /\ Count(F, v[2]) = 2
                              /\ Count(F, v[3]) = 2 /\ Count(F, v[4]) = 1 /\ v[2] # v[3]
      /\ PairRead(F, v) => /\ Ranks(F) = {v[2], v[3], v[4], v[5]} /\ Count(F, v[2]) = 2
                           /\ Count(F, v[3]) = 1 /\ Count(F, v[4]) = 1 /\ Count(F, v[5]) = 1
  <2>1. TwoPairRead(F, v) => v[2] # v[3]
    <3> SUFFICES ASSUME TwoPairRead(F, v) PROVE v[2] # v[3]
      OBVIOUS
    <3>1. v \in Seq(Nat) /\ Len(v) = 4 /\ v[2] > v[3]
      BY DEF TwoPairRead, Shape
    <3>2. v[2] \in Nat /\ v[3] \in Nat
      <4>1. 2 \in 1 .. Len(v) /\ 3 \in 1 .. Len(v)
        BY <3>1
      <4> QED BY ONLY <3>1, <4>1, ElementOfSeq
    <3> QED BY <3>1, <3>2
  <2> QED BY <2>1 DEF FourRead, FullRead, ThreeRead, TwoPairRead, PairRead
<1>3. ASSUME NEW a \in Ranks(F), Count(F, a) = 4 PROVE FourRead(F, v)
  BY <1>1, <1>2, <1>3
<1>4. ASSUME NEW a \in Ranks(F), NEW b \in Ranks(F), Count(F, a) = 3, Count(F, b) = 2
      PROVE  FullRead(F, v)
  BY <1>1, <1>2, <1>4
<1>5. ASSUME NEW a \in Ranks(F), Count(F, a) = 3, \A r \in Ranks(F) : Count(F, r) # 2
      PROVE  ThreeRead(F, v)
  BY <1>1, <1>2, <1>5
<1>6. ASSUME NEW a \in Ranks(F), NEW b \in Ranks(F), a # b, Count(F, a) = 2, Count(F, b) = 2
      PROVE  TwoPairRead(F, v)
  BY <1>1, <1>2, <1>6
<1>7. ASSUME NEW a \in Ranks(F), Count(F, a) = 2, \A r \in Ranks(F) \ {a} : Count(F, r) = 1
      PROVE  PairRead(F, v)
  BY <1>1, <1>2, <1>7
<1>8. ASSUME Singles(F)
      PROVE  \/ StraightFlushRead(F, v) \/ FlushRead(F, v) \/ StraightRead(F, v)
             \/ HighRead(F, v)
  BY <1>2, <1>8 DEF Reads, Singles
<1> QED BY <1>3, <1>4, <1>5, <1>6, <1>7, <1>8

\* Cards for each branch of the reference: what they are worth, and that they are five.
LEMMA FiveOf ==
  ASSUME NEW F, Cards(F), NEW a, NEW b, NEW c, NEW d, NEW e
  PROVE  /\ Ranks(F) = {a, b} /\ a # b /\ Count(F, a) + Count(F, b) = 5 => Five(F)
         /\ Ranks(F) = {a, b, c} /\ a # b /\ c \notin {a, b}
            /\ Count(F, a) + Count(F, b) + Count(F, c) = 5 => Five(F)
         /\ Ranks(F) = {a, b, c, d} /\ a # b /\ c \notin {a, b} /\ d \notin {a, b, c}
            /\ Count(F, a) + Count(F, b) + Count(F, c) + Count(F, d) = 5 => Five(F)
BY RankSums DEF Five

\* One card of each of five ranks.
LEMMA FiveSingles ==
  ASSUME NEW F, Cards(F), Singles(F), Cardinality(Ranks(F)) = 5
  PROVE  Five(F)
<1>1. \A r \in Ranks(F) : Count(F, r) < 2
  BY DEF Singles
<1>2. OfRanks(F, Ranks(F)) = F
  BY DEF OfRanks, Ranks
<1>3. Cardinality(Ranks(F)) = Cardinality(OfRanks(F, Ranks(F)))
  BY <1>1, SingleRanks
<1> QED BY <1>2, <1>3 DEF Five

Makes(C, d) == \E F \in SUBSET C : Five(F) /\ Evaluate5(F) = d

LEMMA FourMade ==
  ASSUME NEW C, Cards(C), NEW d, FourOf(C, d) \/ FullOf(C, d)
  PROVE  Makes(C, d)
<1>1. PICK a, b : a = d[2] /\ b = d[3]
  OBVIOUS
<1>2. CASE FourOf(C, d)
  <2>1. Shape(d, 8, 2) /\ a # b /\ {a, b} \subseteq Ranks(C) /\ Count(C, a) >= 4
    BY <1>1, <1>2 DEF FourOf, IsTop, Many
  <2> DEFINE want == [r \in {a, b} |-> IF r = a THEN 4 ELSE 1]
  <2>2. want \in [{a, b} -> 1 .. 4] /\ want[a] = 4 /\ want[b] = 1
    BY <2>1
  <2>3. \A r \in {a, b} : want[r] <= Count(C, r)
    <3>1. Count(C, b) \in Nat /\ Count(C, a) \in Nat /\ Count(C, b) >= 1
      BY <2>1, RankCount
    <3> QED BY <2>1, <2>2, <3>1
  <2> HIDE DEF want
  <2>4. PICK F \in SUBSET C : /\ Cards(F) /\ Ranks(F) = {a, b}
                              /\ \A r \in {a, b} : Count(F, r) = want[r]
    BY <2>1, <2>2, <2>3, Chosen
  <2>5. Count(F, a) = 4 /\ Count(F, b) = 1
    BY <2>2, <2>4
  <2>6. Five(F)
    BY <2>1, <2>4, <2>5, FiveOf
  <2>7. PICK v : v = Evaluate5(F)
    OBVIOUS
  <2>8. FourRead(F, v)
    BY <2>4, <2>5, <2>6, <2>7, EvaluateReads, WhichHand
  <2>9. Shape(v, 8, 2) /\ v[2] = a /\ v[3] = b
    BY <2>4, <2>5, <2>8 DEF FourRead
  <2>10. v = d
    <3>1. 2 \in 1 .. 5
      OBVIOUS
    <3> QED BY <1>1, <2>1, <2>9, <3>1, SameScore
  <2> QED BY <2>6, <2>7, <2>10 DEF Makes
<1>3. CASE FullOf(C, d)
  <2>1. Shape(d, 7, 2) /\ a # b /\ {a, b} \subseteq Ranks(C) /\ Count(C, a) >= 3 /\ Count(C, b) >= 2
    BY <1>1, <1>3 DEF FullOf, IsTop, Many
  <2> DEFINE want == [r \in {a, b} |-> IF r = a THEN 3 ELSE 2]
  <2>2. want \in [{a, b} -> 1 .. 4] /\ want[a] = 3 /\ want[b] = 2
    BY <2>1
  <2>3. \A r \in {a, b} : want[r] <= Count(C, r)
    <3>1. Count(C, b) \in Nat /\ Count(C, a) \in Nat
      BY RankCount
    <3> QED BY <2>1, <2>2, <3>1
  <2> HIDE DEF want
  <2>4. PICK F \in SUBSET C : /\ Cards(F) /\ Ranks(F) = {a, b}
                              /\ \A r \in {a, b} : Count(F, r) = want[r]
    BY <2>1, <2>2, <2>3, Chosen
  <2>5. Count(F, a) = 3 /\ Count(F, b) = 2
    BY <2>2, <2>4
  <2>6. Five(F)
    BY <2>1, <2>4, <2>5, FiveOf
  <2>7. PICK v : v = Evaluate5(F)
    OBVIOUS
  <2>8. FullRead(F, v)
    BY <2>4, <2>5, <2>6, <2>7, EvaluateReads, WhichHand
  <2>9. Shape(v, 7, 2) /\ v[2] = a /\ v[3] = b
    BY <2>4, <2>5, <2>8 DEF FullRead
  <2>10. v = d
    <3>1. 2 \in 1 .. 5
      OBVIOUS
    <3> QED BY <1>1, <2>1, <2>9, <3>1, SameScore
  <2> QED BY <2>6, <2>7, <2>10 DEF Makes
<1> QED BY <1>2, <1>3

LEMMA ThreeMade ==
  ASSUME NEW C, Cards(C), NEW d, ThreeOf(C, d)
  PROVE  Makes(C, d)
<1>1. PICK a, b, c : a = d[2] /\ b = d[3] /\ c = d[4]
  OBVIOUS
<1>2. /\ Shape(d, 4, 3) /\ a # b /\ c \notin {a, b} /\ c <= b /\ {a, b, c} \subseteq Ranks(C)
      /\ Count(C, a) >= 3
  BY <1>1 DEF ThreeOf, IsTop, Many
<1> DEFINE want == [r \in {a, b, c} |-> IF r = a THEN 3 ELSE 1]
<1>3. want \in [{a, b, c} -> 1 .. 4] /\ want[a] = 3 /\ want[b] = 1 /\ want[c] = 1
  BY <1>2
<1>4. \A r \in {a, b, c} : want[r] <= Count(C, r)
  <2>1. Count(C, a) \in Nat /\ Count(C, b) \in Nat /\ Count(C, c) \in Nat
        /\ Count(C, b) >= 1 /\ Count(C, c) >= 1
    BY <1>2, RankCount
  <2> QED BY <1>2, <1>3, <2>1
<1> HIDE DEF want
<1>5. PICK F \in SUBSET C : /\ Cards(F) /\ Ranks(F) = {a, b, c}
                            /\ \A r \in {a, b, c} : Count(F, r) = want[r]
  BY <1>2, <1>3, <1>4, Chosen
<1>6. Count(F, a) = 3 /\ Count(F, b) = 1 /\ Count(F, c) = 1
  BY <1>3, <1>5
<1>7. Five(F)
  BY <1>2, <1>5, <1>6, FiveOf
<1>8. PICK v : v = Evaluate5(F)
  OBVIOUS
<1>9. ThreeRead(F, v)
  BY <1>5, <1>6, <1>7, <1>8, EvaluateReads, WhichHand
<1>10. b \in Nat /\ c \in Nat
  BY <1>2, ManyType
<1>11. Shape(v, 4, 3) /\ v[2] = a /\ v[3] = b /\ v[4] = c
  <2>1. /\ Shape(v, 4, 3) /\ {v[2], v[3], v[4]} = {a, b, c} /\ v[3] > v[4] /\ Count(F, v[2]) = 3
        /\ Count(F, v[3]) = 1 /\ Count(F, v[4]) = 1
    BY <1>5, <1>9 DEF ThreeRead
  <2>2. v[2] = a /\ v[3] \in {b, c} /\ v[4] \in {b, c}
    BY <1>6, <2>1
  <2> QED BY <1>2, <1>10, <2>1, <2>2
<1>12. v = d
  <2>1. 3 \in 1 .. 5
    OBVIOUS
  <2> QED BY <1>1, <1>2, <1>11, <2>1, SameScore
<1> QED BY <1>7, <1>8, <1>12 DEF Makes

LEMMA TwoPairMade ==
  ASSUME NEW C, Cards(C), NEW d, TwoPairOf(C, d)
  PROVE  Makes(C, d)
<1>1. PICK a, b, c : a = d[2] /\ b = d[3] /\ c = d[4]
  OBVIOUS
<1>2. /\ Shape(d, 3, 3) /\ a # b /\ c \notin {a, b} /\ b <= a /\ {a, b, c} \subseteq Ranks(C)
      /\ Count(C, a) >= 2 /\ Count(C, b) >= 2
  BY <1>1 DEF TwoPairOf, IsTop, Many
<1> DEFINE want == [r \in {a, b, c} |-> IF r = c THEN 1 ELSE 2]
<1>3. want \in [{a, b, c} -> 1 .. 4] /\ want[a] = 2 /\ want[b] = 2 /\ want[c] = 1
  BY <1>2
<1>4. \A r \in {a, b, c} : want[r] <= Count(C, r)
  <2>1. Count(C, a) \in Nat /\ Count(C, b) \in Nat /\ Count(C, c) \in Nat /\ Count(C, c) >= 1
    BY <1>2, RankCount
  <2> QED BY <1>2, <1>3, <2>1
<1> HIDE DEF want
<1>5. PICK F \in SUBSET C : /\ Cards(F) /\ Ranks(F) = {a, b, c}
                            /\ \A r \in {a, b, c} : Count(F, r) = want[r]
  BY <1>2, <1>3, <1>4, Chosen
<1>6. Count(F, a) = 2 /\ Count(F, b) = 2 /\ Count(F, c) = 1
  BY <1>3, <1>5
<1>7. Five(F)
  BY <1>2, <1>5, <1>6, FiveOf
<1>8. PICK v : v = Evaluate5(F)
  OBVIOUS
<1>9. TwoPairRead(F, v)
  BY <1>2, <1>5, <1>6, <1>7, <1>8, EvaluateReads, WhichHand
<1>10. a \in Nat /\ b \in Nat
  BY <1>2, ManyType
<1>11. Shape(v, 3, 3) /\ v[2] = a /\ v[3] = b /\ v[4] = c
  <2>1. /\ Shape(v, 3, 3) /\ {v[2], v[3], v[4]} = {a, b, c} /\ v[2] > v[3] /\ Count(F, v[2]) = 2
        /\ Count(F, v[3]) = 2 /\ Count(F, v[4]) = 1
    BY <1>5, <1>9 DEF TwoPairRead
  <2>2. v[4] = c /\ v[2] \in {a, b} /\ v[3] \in {a, b}
    BY <1>6, <2>1
  <2> QED BY <1>2, <1>10, <2>1, <2>2
<1>12. v = d
  <2>1. 3 \in 1 .. 5
    OBVIOUS
  <2> QED BY <1>1, <1>2, <1>11, <2>1, SameScore
<1> QED BY <1>7, <1>8, <1>12 DEF Makes

LEMMA PairMade ==
  ASSUME NEW C, Cards(C), NEW d, PairOf(C, d)
  PROVE  Makes(C, d)
<1>1. PICK a, b, c, e : a = d[2] /\ b = d[3] /\ c = d[4] /\ e = d[5]
  OBVIOUS
<1>2. /\ Shape(d, 2, 4) /\ a # b /\ c \notin {a, b} /\ e \notin {a, b, c} /\ c <= b /\ e <= c
      /\ {a, b, c, e} \subseteq Ranks(C) /\ Count(C, a) >= 2
  BY <1>1 DEF PairOf, IsTop, Many
<1> DEFINE want == [r \in {a, b, c, e} |-> IF r = a THEN 2 ELSE 1]
<1>3. /\ want \in [{a, b, c, e} -> 1 .. 4] /\ want[a] = 2 /\ want[b] = 1 /\ want[c] = 1
      /\ want[e] = 1
  BY <1>2
<1>4. \A r \in {a, b, c, e} : want[r] <= Count(C, r)
  <2>1. Count(C, a) \in Nat /\ Count(C, b) \in Nat /\ Count(C, c) \in Nat /\ Count(C, e) \in Nat
        /\ Count(C, b) >= 1 /\ Count(C, c) >= 1 /\ Count(C, e) >= 1
    BY <1>2, RankCount
  <2> QED BY <1>2, <1>3, <2>1
<1> HIDE DEF want
<1>5. PICK F \in SUBSET C : /\ Cards(F) /\ Ranks(F) = {a, b, c, e}
                            /\ \A r \in {a, b, c, e} : Count(F, r) = want[r]
  BY <1>2, <1>3, <1>4, Chosen
<1>6. Count(F, a) = 2 /\ Count(F, b) = 1 /\ Count(F, c) = 1 /\ Count(F, e) = 1
  BY <1>3, <1>5
<1>7. Five(F)
  BY <1>2, <1>5, <1>6, FiveOf
<1>8. PICK v : v = Evaluate5(F)
  OBVIOUS
<1>9. PairRead(F, v)
  BY <1>2, <1>5, <1>6, <1>7, <1>8, EvaluateReads, WhichHand
<1>10. b \in Nat /\ c \in Nat /\ e \in Nat
  BY <1>2, ManyType
<1>11. Shape(v, 2, 4) /\ v[2] = a /\ v[3] = b /\ v[4] = c /\ v[5] = e
  <2>1. /\ Shape(v, 2, 4) /\ {v[2], v[3], v[4], v[5]} = {a, b, c, e} /\ v[3] > v[4] /\ v[4] > v[5]
        /\ Count(F, v[2]) = 2 /\ Count(F, v[3]) = 1 /\ Count(F, v[4]) = 1 /\ Count(F, v[5]) = 1
    BY <1>5, <1>9 DEF PairRead, Falling
  <2>2. v[2] = a /\ v[3] \in {b, c, e} /\ v[4] \in {b, c, e} /\ v[5] \in {b, c, e}
    BY <1>6, <2>1
  <2> QED BY <1>2, <1>10, <2>1, <2>2
<1>12. v = d
  <2>1. 4 \in 1 .. 5
    OBVIOUS
  <2> QED BY <1>1, <1>2, <1>11, <2>1, SameScore
<1> QED BY <1>7, <1>8, <1>12 DEF Makes

\* Five ranks among those of some cards: one card of each.
LEMMA OneOfEach ==
  ASSUME NEW D, Cards(D), NEW Y, Y \subseteq Ranks(D), Cardinality(Y) = 5
  PROVE  \E F \in SUBSET D : Five(F) /\ Ranks(F) = Y /\ Singles(F)
<1> DEFINE want == [r \in Y |-> 1]
<1>1. want \in [Y -> 1 .. 4] /\ \A r \in Y : want[r] = 1
  OBVIOUS
<1>2. \A r \in Y : want[r] <= Count(D, r)
  <2>1. \A r \in Y : Count(D, r) \in 0 .. 4 /\ Count(D, r) >= 1
    BY RankCount
  <2> QED BY <1>1, <2>1
<1> HIDE DEF want
<1>3. PICK F \in SUBSET D : Cards(F) /\ Ranks(F) = Y /\ \A r \in Y : Count(F, r) = want[r]
  BY <1>1, <1>2, Chosen
<1>4. Singles(F)
  BY <1>1, <1>3 DEF Singles
<1>5. Five(F)
  BY <1>3, <1>4, FiveSingles
<1> QED BY <1>3, <1>4, <1>5

\* Two falling lists of the same five ranks are one.
Falls(a, b, c, d, e) ==
  /\ a \in Nat /\ b \in Nat /\ c \in Nat /\ d \in Nat /\ e \in Nat
  /\ a > b /\ b > c /\ c > d /\ d > e

LEMMA SameFalling ==
  ASSUME NEW a, NEW b, NEW c, NEW d, NEW e, Falls(a, b, c, d, e),
         NEW u, NEW v, NEW w, NEW x, NEW y, Falls(u, v, w, x, y),
         {a, b, c, d, e} = {u, v, w, x, y}
  PROVE  a = u /\ b = v /\ c = w /\ d = x /\ e = y
<1> USE DEF Falls
<1>1. a = u
  <2>1. a \in {u, v, w, x, y} /\ u \in {a, b, c, d, e}
    OBVIOUS
  <2> QED BY <2>1
<1>2. e = y
  <2>1. e \in {u, v, w, x, y} /\ y \in {a, b, c, d, e}
    OBVIOUS
  <2> QED BY <2>1
<1>3. b = v
  <2>1. b \in {v, w, x} /\ v \in {b, c, d}
    BY <1>1, <1>2
  <2> QED BY <2>1
<1>4. d = x
  <2>1. d \in {w, x} /\ x \in {c, d}
    BY <1>1, <1>2, <1>3
  <2> QED BY <2>1
<1>5. c = w
  <2>1. c \in {w}
    BY <1>1, <1>2, <1>3, <1>4
  <2> QED BY <2>1
<1> QED BY <1>1, <1>2, <1>3, <1>4, <1>5

LEMMA RunsDiffer ==
  ASSUME NEW t \in 5 .. 14, NEW u \in 5 .. 14, RunOf(t) = RunOf(u)
  PROVE  t = u
<1>1. CASE t = 5 /\ u # 5
  <2>1. 2 \in RunOf(t) /\ 14 \in RunOf(t) /\ RunOf(u) = (u - 4) .. u
    BY <1>1 DEF RunOf
  <2> QED BY <2>1
<1>2. CASE t # 5 /\ u = 5
  <2>1. 2 \in RunOf(u) /\ 14 \in RunOf(u) /\ RunOf(t) = (t - 4) .. t
    BY <1>2 DEF RunOf
  <2> QED BY <2>1
<1>3. CASE t # 5 /\ u # 5
  <2>1. RunOf(t) = (t - 4) .. t /\ RunOf(u) = (u - 4) .. u
    BY <1>3 DEF RunOf
  <2>2. t \in (t - 4) .. t /\ u \in (u - 4) .. u
    OBVIOUS
  <2>3. t \in (u - 4) .. u /\ u \in (t - 4) .. t
    BY <2>1, <2>2
  <2> QED BY <2>3
<1> QED BY <1>1, <1>2, <1>3

\* The five highest of some ranks fall, and are five.
LEMMA HighestFall ==
  ASSUME NEW S, S \subseteq Nat, NEW d, HighestOf(S, d)
  PROVE  /\ {d[2], d[3], d[4], d[5], d[6]} \subseteq S
         /\ d[2] > d[3] /\ d[3] > d[4] /\ d[4] > d[5] /\ d[5] > d[6]
         /\ Cardinality({d[2], d[3], d[4], d[5], d[6]}) = 5
<1>1. PICK a, b, c, x, y : a = d[2] /\ b = d[3] /\ c = d[4] /\ x = d[5] /\ y = d[6]
  OBVIOUS
<1>2. /\ a \in S /\ b \in S /\ c \in S /\ x \in S /\ y \in S
      /\ b # a /\ c \notin {a, b} /\ x \notin {a, b, c} /\ y \notin {a, b, c, x}
      /\ b <= a /\ c <= b /\ x <= c /\ y <= x
  BY <1>1 DEF HighestOf, IsTop
<1>3. a > b /\ b > c /\ c > x /\ x > y
  <2>1. a \in Nat /\ b \in Nat /\ c \in Nat /\ x \in Nat /\ y \in Nat
    BY <1>2
  <2> QED BY <1>2, <2>1
<1>4. Cardinality({a, b, c, x, y}) = 5
  BY <1>2, FiveValues
<1> QED BY <1>1, <1>2, <1>3, <1>4

LEMMA StraightFlushMade ==
  ASSUME NEW C, Seven(C), NEW d, StraightFlushOf(C, d)
  PROVE  Makes(C, d)
<1>1. PICK t : t = StraightTop(Colour(C))
  OBVIOUS
<1>2. Colour(C) # {} /\ t # 0 /\ d[2] = t /\ Shape(d, IF t = 14 THEN 10 ELSE 9, 1)
  BY <1>1 DEF StraightFlushOf, HasStraightFlush
<1>3. PICK s \in {"S", "H", "D", "C"} : Colour(C) = Ranks(InSuit(C, s))
  BY <1>2, ColourOf
<1>4. PICK D : D = InSuit(C, s)
  OBVIOUS
<1>5. D \subseteq C /\ Cards(D) /\ \A c \in D : c.suit = s
  <2>1. D \subseteq C /\ \A c \in D : c.suit = s
    BY <1>4 DEF InSuit
  <2> QED BY <2>1, FewerCards DEF Seven
<1>6. t \in 5 .. 14 /\ RunOf(t) \subseteq Ranks(D) /\ Cardinality(RunOf(t)) = 5
  <2>1. Ranks(D) \subseteq 2 .. 14
    BY <1>5, RanksType
  <2>2. t = StraightTop(Ranks(D))
    BY <1>1, <1>3, <1>4
  <2>3. t \in 5 .. 14 /\ RunOf(t) \subseteq Ranks(D)
    BY <1>2, <2>1, <2>2, StraightTopIs
  <2> QED BY <2>3, RunCard
<1>7. PICK F \in SUBSET D : Five(F) /\ Ranks(F) = RunOf(t) /\ Singles(F)
  BY <1>5, <1>6, OneOfEach
<1>8. OneSuit(F)
  <2>1. Cards(F) /\ F # {}
    BY <1>7, FS_EmptySet DEF Five
  <2>2. \A x, y \in F : x.suit = y.suit
    BY <1>5, <1>7
  <2> QED BY <2>1, <2>2, OneSuitIs
<1>9. PICK v : v = Evaluate5(F)
  OBVIOUS
<1>10. StraightFlushRead(F, v)
  <2>1. \/ StraightFlushRead(F, v) \/ FlushRead(F, v) \/ StraightRead(F, v)
        \/ HighRead(F, v)
    BY <1>7, <1>9, EvaluateReads, WhichHand
  <2>2. ~ NoRun(F)
    BY <1>6, <1>7 DEF NoRun
  <2> QED BY <1>8, <2>1, <2>2 DEF FlushRead, StraightRead, HighRead
<1>11. v[2] = t /\ Shape(v, IF t = 14 THEN 10 ELSE 9, 1)
  <2>1. v[2] \in 5 .. 14 /\ RunOf(v[2]) = RunOf(t)
    BY <1>7, <1>10 DEF StraightFlushRead
  <2>2. v[2] = t
    BY <1>6, <2>1, RunsDiffer
  <2> QED BY <1>10, <2>2 DEF StraightFlushRead
<1>12. v = d
  <2>1. 1 \in 1 .. 5
    OBVIOUS
  <2> QED BY <1>2, <1>11, <2>1, SameScore
<1> QED BY <1>5, <1>7, <1>9, <1>12 DEF Makes

LEMMA FlushMade ==
  ASSUME NEW C, Seven(C), NEW d, FlushOf(C, d), HasFlush(C), ~ HasStraightFlush(C)
  PROVE  Makes(C, d)
<1>1. PICK a, b, c, x, y : a = d[2] /\ b = d[3] /\ c = d[4] /\ x = d[5] /\ y = d[6]
  OBVIOUS
<1>2. PICK s \in {"S", "H", "D", "C"} : Colour(C) = Ranks(InSuit(C, s))
  BY ColourOf DEF HasFlush
<1>3. PICK D : D = InSuit(C, s)
  OBVIOUS
<1>4. D \subseteq C /\ Cards(D) /\ \A k \in D : k.suit = s
  <2>1. D \subseteq C /\ \A k \in D : k.suit = s
    BY <1>3 DEF InSuit
  <2> QED BY <2>1, FewerCards DEF Seven
<1>5. Ranks(D) \subseteq 2 .. 14 /\ Ranks(D) \subseteq Nat /\ Colour(C) = Ranks(D)
  BY <1>2, <1>3, <1>4, RanksType
<1>6. /\ {a, b, c, x, y} \subseteq Ranks(D) /\ Cardinality({a, b, c, x, y}) = 5
      /\ a > b /\ b > c /\ c > x /\ x > y
  BY <1>1, <1>5, HighestFall DEF FlushOf
<1>7. PICK F \in SUBSET D : Five(F) /\ Ranks(F) = {a, b, c, x, y} /\ Singles(F)
  BY <1>4, <1>6, OneOfEach
<1>8. OneSuit(F)
  <2>1. Cards(F) /\ F # {}
    BY <1>7, FS_EmptySet DEF Five
  <2>2. \A p, q \in F : p.suit = q.suit
    BY <1>4, <1>7
  <2> QED BY <2>1, <2>2, OneSuitIs
<1>9. PICK v : v = Evaluate5(F)
  OBVIOUS
<1>10. FlushRead(F, v)
  <2>1. \/ StraightFlushRead(F, v) \/ FlushRead(F, v) \/ StraightRead(F, v)
        \/ HighRead(F, v)
    BY <1>7, <1>9, EvaluateReads, WhichHand
  <2>2. ASSUME NEW t \in 5 .. 14, Ranks(F) = RunOf(t) PROVE FALSE
    <3>1. RunOf(t) \subseteq Colour(C) /\ Colour(C) \subseteq 2 .. 14
      BY <1>5, <1>6, <1>7, <2>2
    <3>2. StraightTop(Colour(C)) >= t
      BY <3>1, StraightTopIs
    <3> QED BY <3>2 DEF HasStraightFlush, HasFlush
  <2> QED BY <1>8, <2>1, <2>2 DEF StraightFlushRead, StraightRead, HighRead
<1>11. /\ Shape(v, 6, 5) /\ v[2] = a /\ v[3] = b /\ v[4] = c /\ v[5] = x /\ v[6] = y
  <2>1. /\ Shape(v, 6, 5) /\ {v[2], v[3], v[4], v[5], v[6]} = {a, b, c, x, y}
        /\ v[2] > v[3] /\ v[3] > v[4] /\ v[4] > v[5] /\ v[5] > v[6]
    BY <1>7, <1>10 DEF FlushRead, Falling
  <2>2. a \in Nat /\ b \in Nat /\ c \in Nat /\ x \in Nat /\ y \in Nat
    BY <1>5, <1>6
  <2>3. v[2] \in Nat /\ v[3] \in Nat /\ v[4] \in Nat /\ v[5] \in Nat /\ v[6] \in Nat
    BY <2>1, <2>2
  <2>4. PICK k, l, m, n, o : k = v[2] /\ l = v[3] /\ m = v[4] /\ n = v[5] /\ o = v[6]
    OBVIOUS
  <2>5. /\ k \in Nat /\ l \in Nat /\ m \in Nat /\ n \in Nat /\ o \in Nat
        /\ {k, l, m, n, o} = {a, b, c, x, y} /\ k > l /\ l > m /\ m > n /\ n > o
    BY <2>1, <2>3, <2>4
  <2>6. k = a /\ l = b /\ m = c /\ n = x /\ o = y
    <3>1. Falls(k, l, m, n, o) /\ Falls(a, b, c, x, y)
      BY <1>6, <2>2, <2>5 DEF Falls
    <3> QED BY ONLY <2>5, <3>1, SameFalling
  <2> QED BY <2>1, <2>4, <2>6
<1>12. v = d
  <2>1. Shape(d, 6, 5) /\ 5 \in 1 .. 5
    BY DEF FlushOf
  <2> QED BY <1>1, <1>11, <2>1, SameScore
<1> QED BY <1>4, <1>7, <1>9, <1>12 DEF Makes

LEMMA StraightMade ==
  ASSUME NEW C, Seven(C), NEW d, StraightOf(C, d), HasStraight(C), ~ HasFlush(C)
  PROVE  Makes(C, d)
<1>1. PICK t : t = StraightTop(Ranks(C))
  OBVIOUS
<1>2. Cards(C) /\ Ranks(C) \subseteq 2 .. 14
  BY RanksType DEF Seven
<1>3. t # 0 /\ d[2] = t /\ Shape(d, 5, 1)
  BY <1>1 DEF StraightOf, HasStraight
<1>4. t \in 5 .. 14 /\ RunOf(t) \subseteq Ranks(C) /\ Cardinality(RunOf(t)) = 5
  <2>1. t \in 5 .. 14 /\ RunOf(t) \subseteq Ranks(C)
    BY <1>1, <1>2, <1>3, StraightTopIs
  <2> QED BY <2>1, RunCard
<1>5. PICK F \in SUBSET C : Five(F) /\ Ranks(F) = RunOf(t) /\ Singles(F)
  BY <1>2, <1>4, OneOfEach
<1>6. ~ OneSuit(F)
  BY <1>5, ColourHolds DEF HasFlush
<1>7. PICK v : v = Evaluate5(F)
  OBVIOUS
<1>8. StraightRead(F, v)
  <2>1. \/ StraightFlushRead(F, v) \/ FlushRead(F, v) \/ StraightRead(F, v)
        \/ HighRead(F, v)
    BY <1>5, <1>7, EvaluateReads, WhichHand
  <2>2. ~ NoRun(F)
    BY <1>4, <1>5 DEF NoRun
  <2> QED BY <1>6, <2>1, <2>2 DEF FlushRead, StraightFlushRead, HighRead
<1>9. v[2] = t /\ Shape(v, 5, 1)
  <2>1. v[2] \in 5 .. 14 /\ RunOf(v[2]) = RunOf(t) /\ Shape(v, 5, 1)
    BY <1>5, <1>8 DEF StraightRead
  <2> QED BY <1>4, <2>1, RunsDiffer
<1>10. v = d
  <2>1. 1 \in 1 .. 5
    OBVIOUS
  <2> QED BY <1>3, <1>9, <2>1, SameScore
<1> QED BY <1>5, <1>7, <1>10 DEF Makes

LEMMA HighMade ==
  ASSUME NEW C, Seven(C), NEW d, HighOf(C, d), ~ HasStraight(C), ~ HasFlush(C)
  PROVE  Makes(C, d)
<1>1. PICK a, b, c, x, y : a = d[2] /\ b = d[3] /\ c = d[4] /\ x = d[5] /\ y = d[6]
  OBVIOUS
<1>2. Cards(C) /\ Ranks(C) \subseteq 2 .. 14 /\ Ranks(C) \subseteq Nat
  BY RanksType DEF Seven
<1>3. /\ {a, b, c, x, y} \subseteq Ranks(C) /\ Cardinality({a, b, c, x, y}) = 5
      /\ a > b /\ b > c /\ c > x /\ x > y
  BY <1>1, <1>2, HighestFall DEF HighOf
<1>4. PICK F \in SUBSET C : Five(F) /\ Ranks(F) = {a, b, c, x, y} /\ Singles(F)
  BY <1>2, <1>3, OneOfEach
<1>5. ~ OneSuit(F)
  BY <1>4, ColourHolds DEF HasFlush
<1>6. PICK v : v = Evaluate5(F)
  OBVIOUS
<1>7. HighRead(F, v)
  <2>1. \/ StraightFlushRead(F, v) \/ FlushRead(F, v) \/ StraightRead(F, v)
        \/ HighRead(F, v)
    BY <1>4, <1>6, EvaluateReads, WhichHand
  <2>2. ASSUME NEW t \in 5 .. 14, Ranks(F) = RunOf(t) PROVE FALSE
    <3>1. RunOf(t) \subseteq Ranks(C)
      BY <1>3, <1>4, <2>2
    <3>2. StraightTop(Ranks(C)) >= t
      BY <1>2, <3>1, StraightTopIs
    <3> QED BY <3>2 DEF HasStraight
  <2> QED BY <1>5, <2>1, <2>2 DEF StraightFlushRead, StraightRead, FlushRead
<1>8. /\ Shape(v, 1, 5) /\ v[2] = a /\ v[3] = b /\ v[4] = c /\ v[5] = x /\ v[6] = y
  <2>1. /\ Shape(v, 1, 5) /\ {v[2], v[3], v[4], v[5], v[6]} = {a, b, c, x, y}
        /\ v[2] > v[3] /\ v[3] > v[4] /\ v[4] > v[5] /\ v[5] > v[6]
    BY <1>4, <1>7 DEF HighRead, Falling
  <2>2. a \in Nat /\ b \in Nat /\ c \in Nat /\ x \in Nat /\ y \in Nat
    BY <1>2, <1>3
  <2>3. v[2] \in Nat /\ v[3] \in Nat /\ v[4] \in Nat /\ v[5] \in Nat /\ v[6] \in Nat
    BY <2>1, <2>2
  <2>4. PICK k, l, m, n, o : k = v[2] /\ l = v[3] /\ m = v[4] /\ n = v[5] /\ o = v[6]
    OBVIOUS
  <2>5. /\ k \in Nat /\ l \in Nat /\ m \in Nat /\ n \in Nat /\ o \in Nat
        /\ {k, l, m, n, o} = {a, b, c, x, y} /\ k > l /\ l > m /\ m > n /\ n > o
    BY <2>1, <2>3, <2>4
  <2>6. k = a /\ l = b /\ m = c /\ n = x /\ o = y
    <3>1. Falls(k, l, m, n, o) /\ Falls(a, b, c, x, y)
      BY <1>3, <2>2, <2>5 DEF Falls
    <3> QED BY ONLY <2>5, <3>1, SameFalling
  <2> QED BY <2>1, <2>4, <2>6
<1>9. v = d
  <2>1. Shape(d, 1, 5) /\ 5 \in 1 .. 5
    BY DEF HighOf
  <2> QED BY <1>1, <1>8, <2>1, SameScore
<1> QED BY <1>4, <1>6, <1>9 DEF Makes

LEMMA DirectMade ==
  ASSUME NEW C, Seven(C)
  PROVE  Makes(C, Direct(C))
<1>1. PICK d : d = Direct(C) /\ DirectReads(C, d)
  BY DirectForm
<1>2. Cards(C)
  BY DEF Seven
<1> QED BY <1>1, <1>2, StraightFlushMade, FourMade, FlushMade, StraightMade, ThreeMade, TwoPairMade,
           PairMade, HighMade DEF DirectReads

----------------------------------------------------------------------------
(* The best of them is what the reference says *)

\* How many values a score of each hand carries.
Arity(h) == IF h \in {5, 9, 10} THEN 1 ELSE IF h \in {7, 8} THEN 2
            ELSE IF h \in {3, 4} THEN 3 ELSE IF h = 2 THEN 4 ELSE 5

Score(v) == \E h \in 1 .. 10 : Shape(v, h, Arity(h))

LEMMA ReadScore ==
  ASSUME NEW F, NEW v, Reads(F, v)
  PROVE  Score(v)
<1>1. /\ Arity(10) = 1 /\ Arity(9) = 1 /\ Arity(8) = 2 /\ Arity(7) = 2 /\ Arity(6) = 5
      /\ Arity(5) = 1 /\ Arity(4) = 3 /\ Arity(3) = 3 /\ Arity(2) = 4 /\ Arity(1) = 5
  BY DEF Arity
<1>2. /\ StraightFlushRead(F, v) => Shape(v, 10, 1) \/ Shape(v, 9, 1)
      /\ FourRead(F, v) => Shape(v, 8, 2)
      /\ FullRead(F, v) => Shape(v, 7, 2)
      /\ FlushRead(F, v) => Shape(v, 6, 5)
      /\ StraightRead(F, v) => Shape(v, 5, 1)
      /\ ThreeRead(F, v) => Shape(v, 4, 3)
      /\ TwoPairRead(F, v) => Shape(v, 3, 3)
      /\ PairRead(F, v) => Shape(v, 2, 4)
      /\ HighRead(F, v) => Shape(v, 1, 5)
  BY DEF StraightFlushRead, FourRead, FullRead, FlushRead, StraightRead, ThreeRead, TwoPairRead,
         PairRead, HighRead
<1>3. \E h \in 1 .. 10, n \in 1 .. 5 : n = Arity(h) /\ Shape(v, h, n)
  BY <1>1, <1>2 DEF Reads
<1> QED BY <1>3 DEF Score

\* The first place where two of the same length differ decides.
LEMMA FirstDecides ==
  ASSUME NEW v, NEW w, v \in Seq(Nat), w \in Seq(Nat), Len(v) = Len(w),
         NEW i \in 1 .. Len(v), \A j \in 1 .. (i - 1) : v[j] = w[j]
  PROVE  v[i] > w[i] => Beats(v, w)
<1>1. Len(v) \in Nat /\ \A j \in 1 .. (i - 1) : j <= Len(v) /\ j <= Len(w)
  OBVIOUS
<1>2. i <= Len(v) /\ i <= Len(w)
  OBVIOUS
<1> QED BY <1>1, <1>2 DEF Beats

LEMMA HeadDecides ==
  ASSUME NEW v, NEW w, v \in Seq(Nat), w \in Seq(Nat), Len(v) >= 1, Len(w) >= 1, v[1] > w[1]
  PROVE  Beats(v, w)
<1>1. 1 \in 1 .. Len(v) /\ 1 <= Len(v) /\ 1 <= Len(w) /\ 1 .. (1 - 1) = {}
  OBVIOUS
<1> QED BY <1>1 DEF Beats

\* Of two scores one beats the other.
LEMMA OneBeats ==
  ASSUME NEW v, Score(v), NEW w, Score(w), v # w
  PROVE  Beats(v, w) \/ Beats(w, v)
<1>1. PICK h \in 1 .. 10 : Shape(v, h, Arity(h))
  BY DEF Score
<1>2. PICK k \in 1 .. 10 : Shape(w, k, Arity(k))
  BY DEF Score
<1>3. PICK n : n = Arity(h) /\ n \in 1 .. 5
  BY DEF Arity
<1>4. PICK m : m = Arity(k) /\ m \in 1 .. 5
  BY DEF Arity
<1>5. /\ v \in Seq(Nat) /\ Len(v) = n + 1 /\ v[1] = h
      /\ w \in Seq(Nat) /\ Len(w) = m + 1 /\ w[1] = k
  BY <1>1, <1>2, <1>3, <1>4 DEF Shape
<1>6. CASE h # k
  <2>1. Len(v) >= 1 /\ Len(w) >= 1 /\ (v[1] > w[1] \/ w[1] > v[1])
    BY <1>3, <1>4, <1>5, <1>6
  <2> QED BY <1>5, <2>1, HeadDecides
<1>7. CASE h = k
  <2>1. Len(v) = Len(w) /\ Len(v) = n + 1 /\ v[1] = w[1]
    BY <1>3, <1>4, <1>5, <1>7
  <2> DEFINE differs(i) == i \in 1 .. Len(v) /\ v[i] # w[i]
  <2>2. \E i \in 1 .. Len(v) : v[i] # w[i]
    BY <1>5, <2>1, SeqEqual
  <2>3. \E i \in 2 .. 6 : differs(i) /\ \A j \in 1 .. (i - 1) : ~ differs(j)
    <3>1. \A i : differs(i) => i \in {2, 3, 4, 5, 6}
      BY <1>3, <2>1
    <3>2. differs(2) \/ differs(3) \/ differs(4) \/ differs(5) \/ differs(6)
      BY <2>2, <3>1
    <3>3. ~ differs(1)
      BY <2>1
    <3> HIDE DEF differs
    <3> QED BY <3>1, <3>2, <3>3
  <2>4. PICK i \in 2 .. 6 : differs(i) /\ \A j \in 1 .. (i - 1) : ~ differs(j)
    BY <2>3
  <2>5. i \in 1 .. Len(v) /\ \A j \in 1 .. (i - 1) : v[j] = w[j] /\ w[j] = v[j]
    BY <1>3, <2>1, <2>4
  <2>6. v[i] \in Nat /\ w[i] \in Nat /\ v[i] # w[i]
    BY <1>5, <2>1, <2>4, <2>5
  <2> HIDE DEF differs
  <2>7. v[i] > w[i] \/ w[i] > v[i]
    BY <2>6
  <2> QED BY <1>5, <2>1, <2>5, <2>7, FirstDecides
<1> QED BY <1>6, <1>7

\* bestHandFrom is the reference: one five is worth it and no five beats it.
LEMMA BestHandIs ==
  ASSUME NEW C, Seven(C)
  PROVE  BestHandFrom(C) = Direct(C)
<1>1. Cards(C)
  BY DEF Seven
<1>2. \A F \in SUBSET C : Cardinality(F) = 5 => Five(F)
  BY <1>1, FewerCards DEF Five
<1>3. \A F \in Fives(C) : F \subseteq C /\ Five(F)
  BY <1>2 DEF Fives
<1>4. PICK d : d = Direct(C) /\ DirectReads(C, d)
  BY DirectForm
<1>5. PICK best \in SUBSET C : Five(best) /\ Evaluate5(best) = d
  BY <1>4, DirectMade DEF Makes
<1>6. best \in Fives(C)
  BY <1>5 DEF Fives, Five
<1> DEFINE scores == {Evaluate5(F) : F \in Fives(C)}
<1>7. d \in scores
  BY <1>5, <1>6
<1>8. \A s \in scores : Score(s) /\ ~ Beats(s, d)
  <2> SUFFICES ASSUME NEW F \in Fives(C) PROVE Score(Evaluate5(F)) /\ ~ Beats(Evaluate5(F), d)
    OBVIOUS
  <2>1. PICK v : v = Evaluate5(F) /\ Reads(F, v)
    BY <1>3, EvaluateReads
  <2>2. Score(v)
    BY <2>1, ReadScore
  <2>3. ~ Beats(v, d)
    BY <1>3, <1>4, <2>1, NoneBetter
  <2> QED BY <2>1, <2>2, <2>3
<1>9. BestHandFrom(C) = CHOOSE s \in scores : \A o \in scores : ~ Beats(o, s)
  BY DEF BestHandFrom
<1> HIDE DEF scores
<1>10. \A s \in scores : (\A o \in scores : ~ Beats(o, s)) => s = d
  BY <1>7, <1>8, OneBeats
<1>11. (CHOOSE s \in scores : \A o \in scores : ~ Beats(o, s)) = d
  BY <1>7, <1>8, <1>10
<1> QED BY <1>4, <1>9, <1>11

----------------------------------------------------------------------------
(* The cards of a showdown *)

LEMMA CardFinite == IsFiniteSet(Card)
<1> DEFINE N == 2 .. 14
           S == {"S", "H", "D", "C"}
           f == [p \in N \X S |-> [rank |-> p[1], suit |-> p[2]]]
<1>1. IsFiniteSet(N)
  <2>1. 2 \in Int /\ 14 \in Int
    OBVIOUS
  <2> QED BY <2>1, FS_Interval
<1>2. IsFiniteSet(S)
  <2>1. IsFiniteSet({"S"}) /\ IsFiniteSet({"H"}) /\ IsFiniteSet({"D"}) /\ IsFiniteSet({"C"})
    BY FS_Singleton
  <2>2. IsFiniteSet({"S"} \cup {"H"}) /\ IsFiniteSet({"D"} \cup {"C"})
    BY <2>1, FS_Union
  <2>3. IsFiniteSet(({"S"} \cup {"H"}) \cup ({"D"} \cup {"C"}))
    BY <2>2, FS_Union
  <2>4. S = ({"S"} \cup {"H"}) \cup ({"D"} \cup {"C"})
    OBVIOUS
  <2> QED BY <2>3, <2>4
<1>3. IsFiniteSet(N \X S)
  <2> HIDE DEF N, S
  <2> QED BY <1>1, <1>2, FS_Product
<1>4. ASSUME NEW c \in Card PROVE \E p \in N \X S : f[p] = c
  <2>1. c.rank \in N /\ c.suit \in S /\ c = [rank |-> c.rank, suit |-> c.suit]
    BY DEF Card, Ace
  <2>2. <<c.rank, c.suit>> \in N \X S
    BY <2>1
  <2> QED BY <2>1, <2>2
<1>5. ASSUME NEW p \in N \X S PROVE f[p] \in Card
  BY DEF Card, Ace
<1>6. f \in Surjection(N \X S, Card)
  <2>1. f \in [N \X S -> Card]
    BY <1>5
  <2> HIDE DEF N, S, f
  <2> QED BY <1>4, <2>1, Fun_IsSurj
<1> HIDE DEF N, S, f
<1> QED BY <1>3, <1>6, FS_Surjection

\* Two cards and the five of the board are seven.
LEMMA SevenDealt ==
  ASSUME NEW P \in Pairs, NEW B \in Fives(BoardCards)
  PROVE  Seven(P \cup B) /\ ScoreOf[P \cup B] = Direct(P \cup B)
<1>1. P \subseteq HoleCards /\ Cardinality(P) = 2 /\ B \subseteq BoardCards /\ Cardinality(B) = 5
  BY DEF Pairs, Fives
<1>2. P \subseteq Card /\ B \subseteq Card /\ P \cap B = {}
  BY <1>1, CardAssumption
<1>3. IsFiniteSet(P) /\ IsFiniteSet(B)
  BY <1>2, CardFinite, FS_Subset
<1>4. /\ IsFiniteSet(P \cup B)
      /\ Cardinality(P \cup B) = Cardinality(P) + Cardinality(B) - Cardinality(P \cap B)
  BY <1>3, FS_Union
<1>5. Cardinality(P \cap B) = 0
  BY <1>2, FS_EmptySet
<1>6. Seven(P \cup B)
  BY <1>1, <1>2, <1>4, <1>5 DEF Seven, Cards
<1>7. ScoreOf[P \cup B] = BestHandFrom(P \cup B)
  <2> DEFINE D == {Q \cup E : Q \in Pairs, E \in Fives(BoardCards)}
  <2>1. P \cup B \in D
    OBVIOUS
  <2>2. ScoreOf = [C \in D |-> BestHandFrom(C)]
    BY DEF ScoreOf
  <2> HIDE DEF D
  <2> QED BY <2>1, <2>2
<1>8. BestHandFrom(P \cup B) = Direct(P \cup B)
  BY <1>6, BestHandIs
<1> QED BY <1>6, <1>7, <1>8

\* Once there is a board, everybody holds two cards.
CardsDealt ==
  /\ board # {} => board \in Fives(BoardCards) /\ hole \in [Seat -> Pairs]
  /\ phase = "score" => board # {}
  /\ HandsAreBest

LEMMA ScoreHandsBest ==
  ASSUME CardsDealt, ScoreHands
  PROVE  CardsDealt'
<1>1. board \in Fives(BoardCards) /\ hole \in [Seat -> Pairs] /\ board' = board /\ hole' = hole
      /\ board # {}
  BY DEF ScoreHands, CardsDealt
<1>2. ASSUME NEW i \in Seat PROVE score'[i] = Direct(hole'[i] \cup board')
  <2>1. score'[i] = ScoreOf[hole[i] \cup board]
    BY DEF ScoreHands
  <2>2. ScoreOf[hole[i] \cup board] = Direct(hole[i] \cup board)
    BY <1>1, SevenDealt
  <2>3. hole'[i] = hole[i]
    BY <1>1
  <2> QED BY <1>1, <2>1, <2>2, <2>3
<1> QED BY <1>1, <1>2 DEF CardsDealt, HandsAreBest

LEMMA StepCardsDealt ==
  ASSUME CardsDealt, [ShowdownNext]_showdownVars
  PROVE  CardsDealt'
<1>1. CASE Deal
  <2>1. phase' = "deal" /\ board' \in Fives(BoardCards) /\ hole' \in [Seat -> Pairs]
    BY <1>1 DEF Deal
  <2> QED BY <2>1 DEF CardsDealt, HandsAreBest
<1>2. CASE ScoreHands
  BY <1>2, ScoreHandsBest
<1>3. CASE DetermineWinners
  <2>1. phase' = "ranked" /\ board' = {}
    BY <1>3 DEF DetermineWinners
  <2> QED BY <2>1 DEF CardsDealt, HandsAreBest
<1>4. ASSUME board' = board, hole' = hole, phase' # "score" PROVE CardsDealt'
  BY <1>4 DEF CardsDealt, HandsAreBest
<1>5. CASE Showdown
  <2>1. board' = board /\ hole' = hole /\ phase' # "score"
    BY <1>5 DEF Showdown, cardVars
  <2> QED BY <1>4, <2>1
<1>6. CASE LoopNext /\ UNCHANGED cardVars
  <2>1. phase' # "score"
    BY <1>6 DEF LoopNext, BuildPot, EndBuild, PayPot, CreditStacks
  <2>2. board' = board /\ hole' = hole
    BY <1>6 DEF cardVars
  <2> QED BY <1>4, <2>1, <2>2
<1>7. CASE UNCHANGED showdownVars
  <2>1. board' = board /\ hole' = hole /\ score' = score /\ phase' = phase
    BY <1>7 DEF showdownVars, loopVars
  <2> QED BY <2>1 DEF CardsDealt, HandsAreBest
<1> QED BY <1>1, <1>2, <1>3, <1>5, <1>6, <1>7 DEF ShowdownNext

\* Whatever is dealt, of whatever cards: bestHandFrom, which determineWinners asks of
\* every player, returns what the rules say of his seven cards. No five of the twenty-one
\* that combinations lists beat it, and one of them is worth it.
THEOREM HandsAlwaysBest == ShowdownSpec => []HandsAreBest
<1>1. ShowdownInit => CardsDealt
  BY DEF ShowdownInit, CardsDealt, HandsAreBest
<1>2. CardsDealt /\ [ShowdownNext]_showdownVars => CardsDealt'
  BY StepCardsDealt
<1>3. CardsDealt => HandsAreBest
  BY DEF CardsDealt
<1> QED BY <1>1, <1>2, <1>3, PTL DEF ShowdownSpec
=============================================================================
