------------------------------ MODULE DiffProofs ------------------------------
(***************************************************************************)
(* Proofs about Diff and SourceFileDiff: the answers of calc_diff are the  *)
(* least there is to add and to remove, and the changes of a file are      *)
(* those of its languages.                                                 *)
(*                                                                         *)
(* Best, a table of the lengths of the longest common subsequences of all  *)
(* beginnings, is what Longest is found in (LongestIs) and what stone's    *)
(* klist is the form of: Thresholds says that the candidates end where the *)
(* row reached grows, in the middle of a line where the mates tried so far *)
(* let it grow.  Replaced says what oldl and oldc are for: the candidate   *)
(* of the length before as the row above had it.  StoneMateInv is the      *)
(* heart of the argument; Matched is the invariant of output, and SFDInv   *)
(* that of the loops over the languages.                                   *)
(***************************************************************************)
EXTENDS SourceFileDiff, TLAPS, NaturalsInduction, WellFoundedInduction, SequenceTheorems

-----------------------------------------------------------------------------
(* Induction over the naturals, as statements about sets.                  *)

\* The library's theorem that < is well-founded, with its operator expanded.
LEMMA LessThanWellFounded ==
    IsWellFoundedOn({e \in Nat \X Nat : e[1] < e[2]}, Nat)
  BY NatLessThanWellFounded DEF OpToRel

\* A set of naturals that is not empty has a least element.
LEMMA LeastNat ==
  ASSUME NEW S \in SUBSET Nat, S # {}
  PROVE  \E n \in S : \A m \in S : n <= m
<1>. DEFINE R == {e \in Nat \X Nat : e[1] < e[2]}
<1>1. IsWellFoundedOn(R, Nat)
  BY LessThanWellFounded
<1>2. PICK n \in S : \A m \in S : <<m, n>> \notin R
  <2>. HIDE DEF R
  <2>. QED
    BY <1>1, WFMin
<1>3. ASSUME NEW m \in S PROVE n <= m
  <2>1. m \in Nat /\ n \in Nat
    OBVIOUS
  <2>2. ~(m < n)
    BY <1>2, <2>1
  <2>3. QED
    BY <2>1, <2>2
<1>4. QED
  BY <1>3

\* Induction, with the statement as a set.
LEMMA NatSet ==
  ASSUME NEW S, 0 \in S, \A n \in Nat : n \in S => n + 1 \in S
  PROVE  \A n \in Nat : n \in S
<1>. DEFINE T == {n \in Nat : n \notin S}
<1>1. SUFFICES ASSUME T # {} PROVE FALSE
  OBVIOUS
<1>2. PICK j \in T : \A m \in T : j <= m
  BY <1>1, LeastNat
<1>3. j # 0 /\ j - 1 \in Nat /\ (j - 1) + 1 = j
  BY <1>2
<1>4. j - 1 \in S
  BY <1>2, <1>3
<1>5. QED
  BY <1>2, <1>3, <1>4

-----------------------------------------------------------------------------
(* Tables of lengths of common subsequences.  R is the relation between    *)
(* the places of the one sequence and the equal places of the other.       *)

Places == Nat \X Nat
Cell(R, T, p) ==
    IF p[1] = 0 \/ p[2] = 0 THEN 0
    ELSE IF p \in R THEN T[<<p[1] - 1, p[2] - 1>>] + 1
    ELSE IF T[<<p[1] - 1, p[2]>>] >= T[<<p[1], p[2] - 1>>]
         THEN T[<<p[1] - 1, p[2]>>] ELSE T[<<p[1], p[2] - 1>>]

\* What a table is made of is in it.
Closed(D) ==
    \A p \in D : p[1] # 0 /\ p[2] # 0 =>
      /\ <<p[1] - 1, p[2] - 1>> \in D
      /\ <<p[1] - 1, p[2]>> \in D
      /\ <<p[1], p[2] - 1>> \in D

Fills(T, R, D) == \A p \in D : T[p] = Cell(R, T, p)
Alike(R, Q, D) == \A p \in D : p[1] # 0 /\ p[2] # 0 => (p \in R <=> p \in Q)

\* There is only one table, wherever it ends.
LEMMA TablesAgree ==
  ASSUME NEW D \in SUBSET Places, Closed(D), NEW R, NEW Q, NEW T, NEW U,
         Alike(R, Q, D), Fills(T, R, D), Fills(U, Q, D)
  PROVE  \A p \in D : T[p] = U[p]
<1>. DEFINE S == {d \in Nat : \E p \in D : p[1] + p[2] = d /\ T[p] # U[p]}
<1>1. SUFFICES ASSUME S # {} PROVE FALSE
  BY DEF Places
<1>2. S \in SUBSET Nat
  OBVIOUS
<1>3. PICK d \in S : \A e \in S : d <= e
  <2>. HIDE DEF S
  <2>. QED
    BY <1>1, <1>2, LeastNat
<1>4. PICK p \in D : p[1] + p[2] = d /\ T[p] # U[p]
  OBVIOUS
<1>5. p[1] \in Nat /\ p[2] \in Nat /\ p = <<p[1], p[2]>>
  BY DEF Places
<1>6. ASSUME NEW q \in D, q[1] + q[2] < d PROVE T[q] = U[q]
  <2>1. q[1] \in Nat /\ q[2] \in Nat
    BY DEF Places
  <2>2. q[1] + q[2] \notin S
    BY <1>3, <1>6, <2>1
  <2>3. QED
    BY <2>1, <2>2
<1>7. CASE p[1] = 0 \/ p[2] = 0
  <2>1. Cell(R, T, p) = Cell(Q, U, p)
    BY <1>7 DEF Cell
  <2>2. QED
    BY <1>4, <2>1 DEF Fills
<1>8. CASE p[1] # 0 /\ p[2] # 0
  <2>1. /\ <<p[1] - 1, p[2] - 1>> \in D
        /\ <<p[1] - 1, p[2]>> \in D
        /\ <<p[1], p[2] - 1>> \in D
    BY <1>8 DEF Closed
  <2>2. T[<<p[1] - 1, p[2] - 1>>] = U[<<p[1] - 1, p[2] - 1>>]
    BY <1>4, <1>5, <1>6, <1>8, <2>1
  <2>3. T[<<p[1] - 1, p[2]>>] = U[<<p[1] - 1, p[2]>>]
    BY <1>4, <1>5, <1>6, <1>8, <2>1
  <2>4. T[<<p[1], p[2] - 1>>] = U[<<p[1], p[2] - 1>>]
    BY <1>4, <1>5, <1>6, <1>8, <2>1
  <2>5. Cell(R, T, p) = Cell(Q, U, p)
    BY <1>8, <2>2, <2>3, <2>4 DEF Cell, Alike
  <2>6. QED
    BY <1>4, <2>5 DEF Fills
<1>9. QED
  BY <1>7, <1>8

Within(d) == {p \in Places : p[1] + p[2] <= d}
TableTo(R, d, T) == T \in [Within(d) -> Nat] /\ \A p \in Within(d) : T[p] = Cell(R, T, p)

\* The places with coordinates that add up to at most d need no others.
LEMMA WithinClosed ==
  ASSUME NEW d \in Nat
  PROVE  Closed(Within(d)) /\ Within(d) \in SUBSET Places
  BY DEF Closed, Within, Places

\* There is a table up to every bound.
LEMMA TableToExists ==
  ASSUME NEW R
  PROVE  \A d \in Nat : \E T : TableTo(R, d, T)
<1>. DEFINE S == {d \in Nat : \E T : TableTo(R, d, T)}
<1>1. 0 \in S
  <2>. DEFINE T == [p \in Within(0) |-> 0]
  <2>1. \A p \in Within(0) : p[1] = 0
    BY DEF Within, Places
  <2>2. TableTo(R, 0, T)
    BY <2>1 DEF TableTo, Cell
  <2>3. QED
    BY <2>2
<1>2. ASSUME NEW d \in Nat, d \in S PROVE d + 1 \in S
  <2>1. PICK T : TableTo(R, d, T)
    BY <1>2
  <2>. DEFINE U == [p \in Within(d + 1) |-> IF p \in Within(d) THEN T[p] ELSE Cell(R, T, p)]
  <2>2. Closed(Within(d + 1))
    BY WithinClosed
  <2>3. ASSUME NEW p \in Within(d + 1), p[1] # 0, p[2] # 0
        PROVE  /\ <<p[1] - 1, p[2] - 1>> \in Within(d)
               /\ <<p[1] - 1, p[2]>> \in Within(d)
               /\ <<p[1], p[2] - 1>> \in Within(d)
    BY <2>3 DEF Within, Places
  <2>4. Within(d) \subseteq Within(d + 1)
    BY DEF Within, Places
  <2>5. \A p \in Within(d) : U[p] = T[p]
    BY <2>4
  <2>6. ASSUME NEW p \in Within(d + 1) PROVE U[p] = Cell(R, U, p) /\ U[p] \in Nat
    <3>1. Cell(R, U, p) = Cell(R, T, p)
      <4>1. CASE p[1] = 0 \/ p[2] = 0
        BY <4>1 DEF Cell
      <4>2. CASE p[1] # 0 /\ p[2] # 0
        <5>1. /\ U[<<p[1] - 1, p[2] - 1>>] = T[<<p[1] - 1, p[2] - 1>>]
              /\ U[<<p[1] - 1, p[2]>>] = T[<<p[1] - 1, p[2]>>]
              /\ U[<<p[1], p[2] - 1>>] = T[<<p[1], p[2] - 1>>]
          BY <2>3, <2>5, <4>2
        <5>. HIDE DEF U
        <5>2. QED
          BY <5>1 DEF Cell
      <4>3. QED
        BY <4>1, <4>2
    <3>2. U[p] = Cell(R, T, p)
      BY <2>1, <2>5 DEF TableTo
    <3>3. Cell(R, T, p) \in Nat
      <4>1. CASE p[1] = 0 \/ p[2] = 0
        BY <4>1 DEF Cell
      <4>2. CASE p[1] # 0 /\ p[2] # 0
        BY <2>1, <2>3, <4>2 DEF Cell, TableTo
      <4>3. QED
        BY <4>1, <4>2
    <3>4. QED
      BY <3>1, <3>2, <3>3
  <2>7. TableTo(R, d + 1, U)
    <3>1. U \in [Within(d + 1) -> Nat]
      BY <2>6
    <3>. HIDE DEF U
    <3>2. QED
      BY <2>6, <3>1 DEF TableTo
  <2>8. QED
    BY <2>7
<1>3. \A d \in Nat : d \in S
  <2>. HIDE DEF S
  <2>. QED
    BY <1>1, <1>2, NatSet
<1>4. QED
  BY <1>3

IsTable(R, T) == T \in [Places -> Nat] /\ \A p \in Places : T[p] = Cell(R, T, p)
Table(R) == CHOOSE T : IsTable(R, T)
Best(R, m, n) == Table(R)[<<m, n>>]

\* There is a table of all places, which Table picks.
LEMMA TableExists ==
  ASSUME NEW R
  PROVE  IsTable(R, Table(R))
<1>. DEFINE To == [d \in Nat |-> CHOOSE T : TableTo(R, d, T)]
            T == [p \in Places |-> To[p[1] + p[2]][p]]
<1>1. ASSUME NEW d \in Nat PROVE TableTo(R, d, To[d])
  BY TableToExists
<1>2. ASSUME NEW d \in Nat, NEW e \in Nat, d <= e, NEW p \in Within(d)
      PROVE  To[d][p] = To[e][p] /\ To[e][p] \in Nat
  <2>. DEFINE V == To[d]
              W == To[e]
  <2>1. TableTo(R, d, V) /\ TableTo(R, e, W)
    BY <1>1
  <2>. HIDE DEF V, W, To, T
  <2>2. Within(d) \subseteq Within(e)
    BY <1>2 DEF Within, Places
  <2>3. \A q \in Within(d) : V[q] = Cell(R, V, q) /\ W[q] = Cell(R, W, q)
    BY <2>1, <2>2 DEF TableTo
  <2>4. V[p] = W[p]
    <3>. DEFINE D == Within(d)
    <3>1. D \in SUBSET Places /\ Closed(D)
      BY WithinClosed
    <3>2. Fills(V, R, D)
      BY <2>3 DEF Fills
    <3>3. Fills(W, R, D)
      BY <2>3 DEF Fills
    <3>4. Alike(R, R, D)
      BY DEF Alike
    <3>5. p \in D
      OBVIOUS
    <3>. HIDE DEF D
    <3>6. QED
      BY <3>1, <3>2, <3>3, <3>4, <3>5, TablesAgree
  <2>5. W[p] \in Nat
    BY <2>1, <2>2 DEF TableTo
  <2>6. QED
    BY <2>4, <2>5 DEF V, W
<1>3. ASSUME NEW p \in Places PROVE p[1] \in Nat /\ p[2] \in Nat /\ p[1] + p[2] \in Nat /\ p \in Within(p[1] + p[2])
  BY DEF Places, Within
<1>4. ASSUME NEW p \in Places, NEW e \in Nat, p[1] + p[2] <= e
      PROVE  T[p] = To[e][p] /\ T[p] \in Nat
  <2>1. T[p] = To[p[1] + p[2]][p]
    OBVIOUS
  <2>. HIDE DEF T, To
  <2>2. QED
    BY <1>2, <1>3, <1>4, <2>1
<1>5. ASSUME NEW p \in Places PROVE T[p] = Cell(R, T, p)
  <2>. DEFINE d == p[1] + p[2]
              V == To[d]
  <2>1. d \in Nat /\ p \in Within(d) /\ TableTo(R, d, V)
    BY <1>1, <1>3
  <2>2. ASSUME NEW q \in Within(d) PROVE T[q] = V[q]
    <3>1. q \in Places /\ q[1] + q[2] <= d
      BY DEF Within
    <3>2. QED
      BY <1>4, <2>1, <3>1
  <2>. HIDE DEF T, To, V, d
  <2>3. Closed(Within(d))
    BY <2>1, WithinClosed
  <2>4. V[p] = Cell(R, V, p)
    BY <2>1 DEF TableTo
  <2>5. Cell(R, V, p) = Cell(R, T, p)
    <3>1. CASE p[1] = 0 \/ p[2] = 0
      BY <3>1 DEF Cell
    <3>2. CASE p[1] # 0 /\ p[2] # 0
      <4>1. /\ <<p[1] - 1, p[2] - 1>> \in Within(d)
            /\ <<p[1] - 1, p[2]>> \in Within(d)
            /\ <<p[1], p[2] - 1>> \in Within(d)
        BY <2>1, <2>3, <3>2 DEF Closed
      <4>2. QED
        BY <2>2, <4>1 DEF Cell
    <3>3. QED
      BY <3>1, <3>2
  <2>6. QED
    BY <2>1, <2>2, <2>4, <2>5
<1>6. T \in [Places -> Nat]
  <2>1. \A p \in Places : T[p] \in Nat
    BY <1>3, <1>4
  <2>2. QED
    BY <2>1
<1>7. IsTable(R, T)
  <2>. HIDE DEF T
  <2>. QED
    BY <1>5, <1>6 DEF IsTable
<1>8. QED
  <2>. HIDE DEF T
  <2>. QED
    BY <1>7 DEF Table

-----------------------------------------------------------------------------
(* What is in a table.                                                     *)

\* A length is a natural number, 0 next to the edges.
LEMMA BestType ==
  ASSUME NEW R, NEW m \in Nat, NEW n \in Nat
  PROVE  Best(R, m, n) \in Nat /\ Best(R, m, 0) = 0 /\ Best(R, 0, n) = 0
<1>. DEFINE T == Table(R)
<1>1. IsTable(R, T)
  BY TableExists
<1>. HIDE DEF T
<1>2. <<m, n>> \in Places /\ <<m, 0>> \in Places /\ <<0, n>> \in Places
  BY DEF Places
<1>3. T[<<m, n>>] \in Nat /\ T[<<m, 0>>] = 0 /\ T[<<0, n>>] = 0
  BY <1>1, <1>2 DEF IsTable, Cell
<1>4. QED
  BY <1>3 DEF T, Best

\* Each length is made of those of the three places before.
LEMMA BestCell ==
  ASSUME NEW R, NEW m \in Nat, NEW n \in Nat
  PROVE  Best(R, m + 1, n + 1) =
           IF <<m + 1, n + 1>> \in R THEN Best(R, m, n) + 1
           ELSE IF Best(R, m, n + 1) >= Best(R, m + 1, n) THEN Best(R, m, n + 1)
           ELSE Best(R, m + 1, n)
<1>. DEFINE T == Table(R)
<1>1. IsTable(R, T)
  BY TableExists
<1>. HIDE DEF T
<1>. DEFINE p == <<m + 1, n + 1>>
<1>2. p \in Places /\ p[1] = m + 1 /\ p[2] = n + 1
  BY DEF Places
<1>3. p[1] # 0 /\ p[2] # 0 /\ p[1] - 1 = m /\ p[2] - 1 = n
  BY <1>2
<1>4. T[p] = Cell(R, T, p)
  BY <1>1, <1>2 DEF IsTable
<1>5. Cell(R, T, p) = IF p \in R THEN T[<<m, n>>] + 1
                      ELSE IF T[<<m, n + 1>>] >= T[<<m + 1, n>>] THEN T[<<m, n + 1>>]
                      ELSE T[<<m + 1, n>>]
  <2>. HIDE DEF p
  <2>. QED
    BY <1>2, <1>3 DEF Cell
<1>6. QED
  BY <1>4, <1>5 DEF T, Best

\* From one line to the next the best grows by one at most.
LEMMA BestSteps ==
  ASSUME NEW R, NEW m \in Nat, NEW n \in Nat
  PROVE  /\ Best(R, m + 1, n) \in {Best(R, m, n), Best(R, m, n) + 1}
         /\ Best(R, m, n + 1) \in {Best(R, m, n), Best(R, m, n) + 1}
<1>. DEFINE Fine(a, b) == /\ Best(R, a + 1, b) \in {Best(R, a, b), Best(R, a, b) + 1}
                          /\ Best(R, a, b + 1) \in {Best(R, a, b), Best(R, a, b) + 1}
            S == {d \in Nat : \E a, b \in Nat : a + b = d /\ ~Fine(a, b)}
<1>0. SUFFICES ASSUME ~Fine(m, n) PROVE FALSE
  OBVIOUS
<1>1. S # {}
  <2>1. m + n \in S
    BY <1>0
  <2>2. QED
    BY <2>1
<1>2. PICK d \in S : \A e \in S : d <= e
  <2>1. S \in SUBSET Nat
    OBVIOUS
  <2>. HIDE DEF S
  <2>. QED
    BY <1>1, <2>1, LeastNat
<1>3. PICK a \in Nat, b \in Nat : a + b = d /\ ~Fine(a, b)
  OBVIOUS
<1>4. ASSUME NEW x \in Nat, NEW z \in Nat, x + z < d PROVE Fine(x, z)
  <2>1. x + z \notin S
    <3>1. d \in Nat /\ x + z \in Nat /\ ~(d <= x + z)
      BY <1>4
    <3>. HIDE DEF S
    <3>2. QED
      BY <1>2, <3>1
  <2>2. QED
    BY <2>1
<1>. HIDE DEF S
<1>5. Best(R, a + 1, b) \in {Best(R, a, b), Best(R, a, b) + 1}
  <2>1. CASE b = 0
    BY <2>1, BestType
  <2>2. CASE b # 0
    <3>. DEFINE c == b - 1
    <3>1. c \in Nat /\ b = c + 1 /\ a + c < d
      BY <1>3, <2>2
    <3>. HIDE DEF c
    <3>2. Fine(a, c)
      BY <1>4, <3>1
    <3>3. Best(R, a, c) \in Nat /\ Best(R, a, b) \in Nat /\ Best(R, a + 1, c) \in Nat
      <4>1. a + 1 \in Nat
        OBVIOUS
      <4>2. QED
        BY <3>1, <4>1, BestType
    <3>4. Best(R, a + 1, b) = IF <<a + 1, b>> \in R THEN Best(R, a, c) + 1
                              ELSE IF Best(R, a, b) >= Best(R, a + 1, c) THEN Best(R, a, b)
                              ELSE Best(R, a + 1, c)
      BY <3>1, BestCell
    <3>5. /\ Best(R, a + 1, c) \in {Best(R, a, c), Best(R, a, c) + 1}
          /\ Best(R, a, b) \in {Best(R, a, c), Best(R, a, c) + 1}
      BY <3>1, <3>2
    <3>6. QED
      BY <3>3, <3>4, <3>5
  <2>3. QED
    BY <2>1, <2>2
<1>6. Best(R, a, b + 1) \in {Best(R, a, b), Best(R, a, b) + 1}
  <2>1. CASE a = 0
    BY <2>1, BestType
  <2>2. CASE a # 0
    <3>. DEFINE c == a - 1
    <3>1. c \in Nat /\ a = c + 1 /\ c + b < d
      BY <1>3, <2>2
    <3>. HIDE DEF c
    <3>2. Fine(c, b)
      BY <1>4, <3>1
    <3>3. Best(R, c, b) \in Nat /\ Best(R, a, b) \in Nat /\ Best(R, c, b + 1) \in Nat
      <4>1. b + 1 \in Nat
        OBVIOUS
      <4>2. QED
        BY <3>1, <4>1, BestType
    <3>4. Best(R, a, b + 1) = IF <<a, b + 1>> \in R THEN Best(R, c, b) + 1
                              ELSE IF Best(R, c, b + 1) >= Best(R, a, b) THEN Best(R, c, b + 1)
                              ELSE Best(R, a, b)
      BY <3>1, BestCell
    <3>5. /\ Best(R, a, b) \in {Best(R, c, b), Best(R, c, b) + 1}
          /\ Best(R, c, b + 1) \in {Best(R, c, b), Best(R, c, b) + 1}
      BY <3>1, <3>2
    <3>6. QED
      BY <3>3, <3>4, <3>5
  <2>3. QED
    BY <2>1, <2>2
<1>7. QED
  BY <1>3, <1>5, <1>6

\* More lines of the one sequence make nothing shorter.
LEMMA BestMoreRows ==
  ASSUME NEW R, NEW m \in Nat, NEW n \in Nat
  PROVE  \A j \in Nat : Best(R, m, n) <= Best(R, m + j, n)
<1>. DEFINE S == {j \in Nat : Best(R, m, n) <= Best(R, m + j, n)}
<1>1. 0 \in S
  <2>1. m + 0 = m /\ Best(R, m, n) \in Nat
    BY BestType
  <2>2. QED
    BY <2>1
<1>2. ASSUME NEW j \in Nat, j \in S PROVE j + 1 \in S
  <2>1. m + j \in Nat /\ m + (j + 1) = (m + j) + 1
    OBVIOUS
  <2>2. Best(R, (m + j) + 1, n) \in {Best(R, m + j, n), Best(R, m + j, n) + 1}
    BY <2>1, BestSteps
  <2>3. Best(R, m, n) \in Nat /\ Best(R, m + j, n) \in Nat
    BY <2>1, BestType
  <2>4. QED
    BY <1>2, <2>1, <2>2, <2>3
<1>3. \A j \in Nat : j \in S
  <2>. HIDE DEF S
  <2>. QED
    BY <1>1, <1>2, NatSet
<1>4. QED
  BY <1>3

\* Nor do more lines of the other, and each adds one at most.
LEMMA BestMoreColumns ==
  ASSUME NEW R, NEW m \in Nat, NEW n \in Nat
  PROVE  \A j \in Nat : Best(R, m, n) <= Best(R, m, n + j) /\ Best(R, m, n + j) <= Best(R, m, n) + j
<1>. DEFINE S == {j \in Nat : Best(R, m, n) <= Best(R, m, n + j) /\ Best(R, m, n + j) <= Best(R, m, n) + j}
<1>1. 0 \in S
  <2>1. n + 0 = n /\ Best(R, m, n) \in Nat
    BY BestType
  <2>2. QED
    BY <2>1
<1>2. ASSUME NEW j \in Nat, j \in S PROVE j + 1 \in S
  <2>1. n + j \in Nat /\ n + (j + 1) = (n + j) + 1
    OBVIOUS
  <2>2. Best(R, m, (n + j) + 1) \in {Best(R, m, n + j), Best(R, m, n + j) + 1}
    BY <2>1, BestSteps
  <2>3. Best(R, m, n) \in Nat /\ Best(R, m, n + j) \in Nat
    BY <2>1, BestType
  <2>4. QED
    BY <1>2, <2>1, <2>2, <2>3
<1>3. \A j \in Nat : j \in S
  <2>. HIDE DEF S
  <2>. QED
    BY <1>1, <1>2, NatSet
<1>4. QED
  BY <1>3

\* A longer part has no shorter common subsequence.
LEMMA BestMono ==
  ASSUME NEW R, NEW m \in Nat, NEW n \in Nat, NEW a \in Nat, NEW b \in Nat, m <= a, n <= b
  PROVE  Best(R, m, n) <= Best(R, a, b)
<1>. DEFINE h == a - m
            j == b - n
<1>1. h \in Nat /\ j \in Nat /\ m + h = a /\ n + j = b
  OBVIOUS
<1>. HIDE DEF h, j
<1>2. Best(R, m, n) <= Best(R, m + h, n)
  BY <1>1, BestMoreRows
<1>3. Best(R, a, n) <= Best(R, a, n + j)
  BY <1>1, BestMoreColumns
<1>4. Best(R, m, n) \in Nat /\ Best(R, a, n) \in Nat /\ Best(R, a, b) \in Nat
  BY BestType
<1>5. QED
  BY <1>1, <1>2, <1>3, <1>4

\* No common subsequence is longer than either part.
LEMMA BestBound ==
  ASSUME NEW R, NEW m \in Nat, NEW n \in Nat
  PROVE  Best(R, m, n) <= m /\ Best(R, m, n) <= n
<1>1. Best(R, m, n) <= n
  <2>1. Best(R, m, 0) = 0 /\ 0 + n = n
    BY BestType
  <2>2. Best(R, m, 0 + n) <= Best(R, m, 0) + n
    BY BestMoreColumns
  <2>3. QED
    BY <2>1, <2>2
<1>2. Best(R, m, n) <= m
  <2>. DEFINE S == {j \in Nat : Best(R, j, n) <= j}
  <2>1. 0 \in S
    BY BestType
  <2>2. ASSUME NEW j \in Nat, j \in S PROVE j + 1 \in S
    <3>1. Best(R, j + 1, n) \in {Best(R, j, n), Best(R, j, n) + 1}
      BY BestSteps
    <3>2. Best(R, j, n) \in Nat
      BY BestType
    <3>3. QED
      BY <2>2, <3>1, <3>2
  <2>3. \A j \in Nat : j \in S
    <3>. HIDE DEF S
    <3>. QED
      BY <2>1, <2>2, NatSet
  <2>4. QED
    BY <2>3
<1>3. QED
  BY <1>1, <1>2

\* Of equal beginnings everything is common.
LEMMA BestOfEqual ==
  ASSUME NEW R, NEW m \in Nat, \A j \in 1 .. m : <<j, j>> \in R
  PROVE  Best(R, m, m) = m
<1>. DEFINE S == {j \in Nat : j <= m => Best(R, j, j) = j}
<1>1. 0 \in S
  BY BestType
<1>2. ASSUME NEW j \in Nat, j \in S PROVE j + 1 \in S
  <2>1. SUFFICES ASSUME j + 1 <= m PROVE Best(R, j + 1, j + 1) = j + 1
    OBVIOUS
  <2>2. j + 1 \in 1 .. m /\ j <= m
    BY <2>1
  <2>3. <<j + 1, j + 1>> \in R /\ Best(R, j, j) = j
    BY <1>2, <2>2
  <2>4. QED
    BY <2>3, BestCell
<1>3. \A j \in Nat : j \in S
  <2>. HIDE DEF S
  <2>. QED
    BY <1>1, <1>2, NatSet
<1>4. QED
  BY <1>3

\* Equal beginnings and ends belong to a longest common subsequence.
LEMMA BestOfEnds ==
  ASSUME NEW R, NEW m \in Nat, NEW n \in Nat, NEW l \in Nat,
         \A h \in 1 .. l : <<m + h, n + h>> \in R
  PROVE  Best(R, m + l, n + l) = Best(R, m, n) + l
<1>. DEFINE S == {j \in Nat : j <= l => Best(R, m + j, n + j) = Best(R, m, n) + j}
<1>1. 0 \in S
  <2>1. m + 0 = m /\ n + 0 = n
    OBVIOUS
  <2>2. Best(R, m, n) \in Nat
    BY BestType
  <2>3. QED
    BY <2>1, <2>2
<1>2. ASSUME NEW j \in Nat, j \in S PROVE j + 1 \in S
  <2>1. SUFFICES ASSUME j + 1 <= l PROVE Best(R, m + (j + 1), n + (j + 1)) = Best(R, m, n) + (j + 1)
    OBVIOUS
  <2>2. j + 1 \in 1 .. l /\ j <= l /\ m + (j + 1) = (m + j) + 1 /\ n + (j + 1) = (n + j) + 1
        /\ m + j \in Nat /\ n + j \in Nat
    BY <2>1
  <2>3. <<(m + j) + 1, (n + j) + 1>> \in R
    BY <2>2
  <2>4. Best(R, m + j, n + j) = Best(R, m, n) + j
    BY <1>2, <2>2
  <2>5. Best(R, (m + j) + 1, (n + j) + 1) = Best(R, m + j, n + j) + 1
    BY <2>2, <2>3, BestCell
  <2>6. Best(R, m, n) \in Nat
    BY BestType
  <2>7. QED
    BY <2>2, <2>4, <2>5, <2>6
<1>3. \A j \in Nat : j \in S
  <2>. HIDE DEF S
  <2>. QED
    BY <1>1, <1>2, NatSet
<1>4. QED
  BY <1>3

\* The sequences of R begin with l equal elements, and go on like those of Q.
Shifted(R, Q, l) ==
    /\ \A j \in 1 .. l : <<j, j>> \in R
    /\ \A m \in Nat \ {0}, n \in Nat \ {0} : <<m, n>> \in Q <=> <<l + m, l + n>> \in R

\* An equal beginning belongs to a longest common subsequence: what follows it
\* may be looked at alone.
LEMMA BestOfStarts ==
  ASSUME NEW R, NEW Q, NEW l \in Nat, Shifted(R, Q, l)
  PROVE  \A m \in Nat, n \in Nat : Best(R, l + m, l + n) = l + Best(Q, m, n)
<1>. DEFINE S == {d \in Nat : \E a, b \in Nat : a + b = d /\ Best(R, l + a, l + b) # l + Best(Q, a, b)}
<1>0. SUFFICES ASSUME NEW m \in Nat, NEW n \in Nat, Best(R, l + m, l + n) # l + Best(Q, m, n)
               PROVE  FALSE
  OBVIOUS
<1>1. S # {}
  <2>1. m + n \in S
    BY <1>0
  <2>2. QED
    BY <2>1
<1>2. PICK d \in S : \A e \in S : d <= e
  <2>1. S \in SUBSET Nat
    OBVIOUS
  <2>. HIDE DEF S
  <2>. QED
    BY <1>1, <2>1, LeastNat
<1>3. PICK a \in Nat, b \in Nat : a + b = d /\ Best(R, l + a, l + b) # l + Best(Q, a, b)
  OBVIOUS
<1>4. ASSUME NEW x \in Nat, NEW z \in Nat, x + z < d PROVE Best(R, l + x, l + z) = l + Best(Q, x, z)
  <2>1. x + z \notin S
    <3>1. d \in Nat /\ x + z \in Nat /\ ~(d <= x + z)
      BY <1>4
    <3>. HIDE DEF S
    <3>2. QED
      BY <1>2, <3>1
  <2>2. QED
    BY <2>1
<1>. HIDE DEF S
<1>5. CASE a = 0 \/ b = 0
  <2>1. Best(Q, a, b) = 0
    BY <1>5, BestType
  <2>2. Best(R, l, l) = l
    BY BestOfEqual DEF Shifted
  <2>3. Best(R, l, l) <= Best(R, l + a, l + b)
    BY BestMono
  <2>4. Best(R, l + a, l + b) <= l + a /\ Best(R, l + a, l + b) <= l + b /\ Best(R, l + a, l + b) \in Nat
    <3>1. l + a \in Nat /\ l + b \in Nat
      OBVIOUS
    <3>2. QED
      BY <3>1, BestBound, BestType
  <2>5. QED
    BY <1>3, <1>5, <2>1, <2>2, <2>3, <2>4
<1>6. CASE a # 0 /\ b # 0
  <2>. DEFINE x == a - 1
              z == b - 1
  <2>1. x \in Nat /\ z \in Nat /\ a = x + 1 /\ b = z + 1 /\ l + a = (l + x) + 1 /\ l + b = (l + z) + 1
        /\ l + x \in Nat /\ l + z \in Nat /\ x + z < d /\ x + b < d /\ a + z < d
    BY <1>3, <1>6
  <2>. HIDE DEF x, z
  <2>2. /\ Best(R, l + x, l + z) = l + Best(Q, x, z)
        /\ Best(R, l + x, l + b) = l + Best(Q, x, b)
        /\ Best(R, l + a, l + z) = l + Best(Q, a, z)
    BY <1>4, <2>1
  <2>3. Best(Q, x, z) \in Nat /\ Best(Q, x, b) \in Nat /\ Best(Q, a, z) \in Nat
    BY <2>1, BestType
  <2>4. <<a, b>> \in Q <=> <<l + a, l + b>> \in R
    BY <1>6 DEF Shifted
  <2>5. Best(Q, a, b) = IF <<a, b>> \in Q THEN Best(Q, x, z) + 1
                        ELSE IF Best(Q, x, b) >= Best(Q, a, z) THEN Best(Q, x, b) ELSE Best(Q, a, z)
    BY <2>1, BestCell
  <2>6. Best(R, l + a, l + b) =
          IF <<l + a, l + b>> \in R THEN Best(R, l + x, l + z) + 1
          ELSE IF Best(R, l + x, l + b) >= Best(R, l + a, l + z) THEN Best(R, l + x, l + b)
          ELSE Best(R, l + a, l + z)
    BY <2>1, BestCell
  <2>7. QED
    BY <1>3, <2>2, <2>3, <2>4, <2>5, <2>6
<1>7. QED
  BY <1>5, <1>6

\* Between two mates a line adds nothing.
LEMMA BestWithoutMates ==
  ASSUME NEW R, NEW m \in Nat, NEW g \in Nat, NEW n \in Nat, g <= n,
         \A h \in g + 1 .. n : <<m + 1, h>> \notin R
  PROVE  Best(R, m + 1, n) = IF Best(R, m, n) >= Best(R, m + 1, g) THEN Best(R, m, n)
                             ELSE Best(R, m + 1, g)
<1>. DEFINE Is(j) == Best(R, m + 1, g + j) = IF Best(R, m, g + j) >= Best(R, m + 1, g) THEN Best(R, m, g + j)
                             ELSE Best(R, m + 1, g)
            S == {j \in Nat : g + j <= n => Is(j)}
<1>1. 0 \in S
  <2>1. Best(R, m, g) \in Nat /\ Best(R, m + 1, g) \in {Best(R, m, g), Best(R, m, g) + 1}
    BY BestType, BestSteps
  <2>2. g + 0 = g
    OBVIOUS
  <2>3. QED
    BY <2>1, <2>2
<1>2. ASSUME NEW j \in Nat, j \in S PROVE j + 1 \in S
  <2>1. SUFFICES ASSUME g + (j + 1) <= n PROVE Is(j + 1)
    OBVIOUS
  <2>2. g + j \in Nat /\ g + (j + 1) = (g + j) + 1 /\ g + j <= n /\ g + (j + 1) \in g + 1 .. n
    BY <2>1
  <2>3. Is(j)
    BY <1>2, <2>2
  <2>4. <<m + 1, (g + j) + 1>> \notin R
    BY <2>2
  <2>5. Best(R, m + 1, (g + j) + 1) = IF Best(R, m, (g + j) + 1) >= Best(R, m + 1, g + j) THEN Best(R, m, (g + j) + 1)
                             ELSE Best(R, m + 1, g + j)
    BY <2>2, <2>4, BestCell
  <2>6. Best(R, m, (g + j) + 1) \in {Best(R, m, g + j), Best(R, m, g + j) + 1} /\ Best(R, m, g + j) \in Nat /\ Best(R, m + 1, g) \in Nat
    <3>1. Best(R, m, (g + j) + 1) \in {Best(R, m, g + j), Best(R, m, g + j) + 1}
      BY <2>2, BestSteps
    <3>2. m + 1 \in Nat
      OBVIOUS
    <3>3. Best(R, m, g + j) \in Nat /\ Best(R, m + 1, g) \in Nat
      BY <2>2, <3>2, BestType
    <3>4. QED
      BY <3>1, <3>3
  <2>7. QED
    BY <2>2, <2>3, <2>5, <2>6
<1>3. \A j \in Nat : j \in S
  <2>. HIDE DEF S
  <2>. QED
    BY <1>1, <1>2, NatSet
<1>4. n - g \in Nat /\ g + (n - g) = n
  OBVIOUS
<1>5. QED
  BY <1>3, <1>4

-----------------------------------------------------------------------------
(* What the operators of Diff give.                                        *)

Corner(m, n) == (0 .. m) \X (0 .. n)

\* Two beginnings need no places but their own.
LEMMA CornerClosed ==
  ASSUME NEW m \in Nat, NEW n \in Nat
  PROVE  Closed(Corner(m, n)) /\ Corner(m, n) \in SUBSET Places
  BY DEF Closed, Corner, Places

\* The best of two beginnings depends on nothing behind them.
LEMMA BestLocal ==
  ASSUME NEW R, NEW Q, NEW a \in Nat, NEW b \in Nat,
         \A m \in 1 .. a, n \in 1 .. b : <<m, n>> \in R <=> <<m, n>> \in Q
  PROVE  Best(R, a, b) = Best(Q, a, b)
<1>. DEFINE D == Corner(a, b)
            T == Table(R)
            U == Table(Q)
<1>1. Closed(D) /\ D \in SUBSET Places
  BY CornerClosed
<1>2. IsTable(R, T) /\ IsTable(Q, U)
  BY TableExists
<1>3. Alike(R, Q, D)
  <2>1. ASSUME NEW p \in D, p[1] # 0, p[2] # 0 PROVE p \in R <=> p \in Q
    <3>1. p[1] \in 1 .. a /\ p[2] \in 1 .. b /\ p = <<p[1], p[2]>>
      BY <2>1 DEF Corner
    <3>2. <<p[1], p[2]>> \in R <=> <<p[1], p[2]>> \in Q
      BY <3>1
    <3>3. QED
      BY <3>1, <3>2
  <2>2. QED
    BY <2>1 DEF Alike
<1>4. <<a, b>> \in D
  BY DEF Corner
<1>. HIDE DEF D, T, U
<1>5. Fills(T, R, D) /\ Fills(U, Q, D)
  BY <1>1, <1>2 DEF IsTable, Fills
<1>6. T[<<a, b>>] = U[<<a, b>>]
  BY <1>1, <1>3, <1>4, <1>5, TablesAgree
<1>7. QED
  BY <1>6 DEF Best, T, U

\* What Longest says is what is in the table.
LEMMA LongestIs ==
  ASSUME NEW s, NEW t, NEW R, Len(s) \in Nat, Len(t) \in Nat,
         \A m \in 1 .. Len(s), n \in 1 .. Len(t) : <<m, n>> \in R <=> s[m] = t[n]
  PROVE  Longest(s, t) = Best(R, Len(s), Len(t))
<1>. DEFINE D == (0 .. Len(s)) \X (0 .. Len(t))
            Body(F) ==
              [p \in D |->
                 IF p[1] = 0 \/ p[2] = 0 THEN 0
                 ELSE IF s[p[1]] = t[p[2]] THEN F[<<p[1] - 1, p[2] - 1>>] + 1
                 ELSE IF F[<<p[1] - 1, p[2]>>] >= F[<<p[1], p[2] - 1>>]
                      THEN F[<<p[1] - 1, p[2]>>] ELSE F[<<p[1], p[2] - 1>>]]
            M == CHOOSE F : F = Body(F)
            T == Table(R)
            U == [p \in D |-> T[p]]
<1>1. D = Corner(Len(s), Len(t))
  BY DEF Corner
<1>2. Closed(D) /\ D \in SUBSET Places
  BY <1>1, CornerClosed
<1>3. IsTable(R, T)
  BY TableExists
<1>4. \A p \in D : p[1] # 0 /\ p[2] # 0 => (p \in R <=> s[p[1]] = t[p[2]])
  <2>1. ASSUME NEW p \in D, p[1] # 0, p[2] # 0 PROVE p \in R <=> s[p[1]] = t[p[2]]
    <3>1. p[1] \in 1 .. Len(s) /\ p[2] \in 1 .. Len(t) /\ p = <<p[1], p[2]>>
      BY <2>1
    <3>2. <<p[1], p[2]>> \in R <=> s[p[1]] = t[p[2]]
      BY <3>1
    <3>3. QED
      BY <3>1, <3>2
  <2>2. QED
    BY <2>1
<1>5. U = Body(U)
  <2>1. ASSUME NEW p \in D PROVE U[p] = Body(U)[p]
    <3>1. p \in Places
      BY <1>2
    <3>2. T[p] = Cell(R, T, p)
      BY <1>3, <3>1 DEF IsTable
    <3>3. CASE p[1] = 0 \/ p[2] = 0
      BY <3>2, <3>3 DEF Cell
    <3>4. CASE p[1] # 0 /\ p[2] # 0
      <4>1. /\ <<p[1] - 1, p[2] - 1>> \in D
            /\ <<p[1] - 1, p[2]>> \in D
            /\ <<p[1], p[2] - 1>> \in D
        BY <1>2, <3>4 DEF Closed
      <4>2. p \in R <=> s[p[1]] = t[p[2]]
        BY <1>4, <3>4
      <4>3. /\ U[<<p[1] - 1, p[2] - 1>>] = T[<<p[1] - 1, p[2] - 1>>]
            /\ U[<<p[1] - 1, p[2]>>] = T[<<p[1] - 1, p[2]>>]
            /\ U[<<p[1], p[2] - 1>>] = T[<<p[1], p[2] - 1>>]
        BY <4>1
      <4>4. U[p] = T[p]
        OBVIOUS
      <4>. HIDE DEF U, T, D
      <4>5. QED
        BY <3>2, <3>4, <4>2, <4>3, <4>4 DEF Cell
    <3>5. QED
      BY <3>3, <3>4
  <2>2. U = [p \in D |-> U[p]] /\ Body(U) = [p \in D |-> Body(U)[p]]
    OBVIOUS
  <2>. HIDE DEF U, Body, D
  <2>3. QED
    BY <2>1, <2>2
<1>6. M = Body(M)
  <2>. HIDE DEF Body, U
  <2>. QED
    BY <1>5
<1>7. Fills(M, R, D)
  <2>1. ASSUME NEW p \in D PROVE M[p] = Cell(R, M, p)
    <3>1. M[p] = Body(M)[p]
      BY <1>6
    <3>2. Body(M)[p] = Cell(R, M, p)
      <4>. HIDE DEF M
      <4>1. CASE p[1] = 0 \/ p[2] = 0
        BY <4>1 DEF Cell
      <4>2. CASE p[1] # 0 /\ p[2] # 0
        <5>1. p \in R <=> s[p[1]] = t[p[2]]
          BY <1>4, <4>2
        <5>2. QED
          BY <4>2, <5>1 DEF Cell
      <4>3. QED
        BY <4>1, <4>2
    <3>3. QED
      BY <3>1, <3>2
  <2>. HIDE DEF M, D
  <2>2. QED
    BY <2>1 DEF Fills
<1>8. Longest(s, t) = M[<<Len(s), Len(t)>>]
  BY DEF Longest
<1>9. <<Len(s), Len(t)>> \in D
  OBVIOUS
<1>. HIDE DEF M, D, T, U
<1>10. Fills(T, R, D) /\ Alike(R, R, D)
  BY <1>2, <1>3 DEF IsTable, Fills, Alike
<1>11. M[<<Len(s), Len(t)>>] = T[<<Len(s), Len(t)>>]
  BY <1>2, <1>7, <1>9, <1>10, TablesAgree
<1>12. QED
  BY <1>8, <1>11 DEF Best, T

\* The places of equal elements.
Twins(s, t) ==
    {p \in Places : p[1] \in 1 .. Len(s) /\ p[2] \in 1 .. Len(t) /\ s[p[1]] = t[p[2]]}

\* Longest is the length in the table of the equal places.
LEMMA LongestTwins ==
  ASSUME NEW s, NEW t, Len(s) \in Nat, Len(t) \in Nat
  PROVE  Longest(s, t) = Best(Twins(s, t), Len(s), Len(t))
<1>. DEFINE R == Twins(s, t)
<1>1. \A m \in 1 .. Len(s), n \in 1 .. Len(t) : <<m, n>> \in R <=> s[m] = t[n]
  BY DEF Twins, Places
<1>. HIDE DEF R
<1>2. Longest(s, t) = Best(R, Len(s), Len(t))
  BY <1>1, LongestIs
<1>3. QED
  BY <1>2 DEF R

\* Longest is no more than either length, and all of equal sequences.
LEMMA LongestBounds ==
  ASSUME NEW s, NEW t, Len(s) \in Nat, Len(t) \in Nat
  PROVE  /\ Longest(s, t) \in Nat
         /\ Longest(s, t) <= Len(s) /\ Longest(s, t) <= Len(t)
         /\ s = t => Longest(s, t) = Len(s)
<1>1. Longest(s, t) = Best(Twins(s, t), Len(s), Len(t))
  BY LongestTwins
<1>2. Best(Twins(s, t), Len(s), Len(t)) \in Nat
  BY BestType
<1>3. Best(Twins(s, t), Len(s), Len(t)) <= Len(s) /\ Best(Twins(s, t), Len(s), Len(t)) <= Len(t)
  BY BestBound
<1>4. ASSUME s = t PROVE Best(Twins(s, t), Len(s), Len(t)) = Len(s)
  <2>1. \A j \in 1 .. Len(s) : <<j, j>> \in Twins(s, t)
    BY <1>4 DEF Twins, Places
  <2>2. Best(Twins(s, t), Len(s), Len(s)) = Len(s)
    BY <2>1, BestOfEqual
  <2>3. QED
    BY <1>4, <2>2
<1>5. QED
  BY <1>1, <1>2, <1>3, <1>4

\* CommonStart is the length of an equal beginning.
LEMMA CommonStartIs ==
  ASSUME NEW s, NEW t, Len(s) \in Nat, Len(t) \in Nat
  PROVE  /\ CommonStart(s, t) \in 0 .. Len(s) /\ CommonStart(s, t) <= Len(t)
         /\ \A m \in 1 .. CommonStart(s, t) : s[m] = t[m]
<1>. DEFINE Ends(n) == n < Len(s) /\ n < Len(t) => s[n + 1] # t[n + 1]
            S == {n \in Nat : n <= Len(s) /\ n <= Len(t) /\ Ends(n)}
<1>1. S # {}
  <2>1. CASE Len(s) <= Len(t)
    <3>1. Len(s) \in S
      BY <2>1
    <3>2. QED
      BY <3>1
  <2>2. CASE Len(t) < Len(s)
    <3>1. Len(t) \in S
      BY <2>2
    <3>2. QED
      BY <3>1
  <2>3. QED
    BY <2>1, <2>2
<1>2. PICK n \in S : \A m \in S : n <= m
  <2>1. S \in SUBSET Nat
    OBVIOUS
  <2>. HIDE DEF S
  <2>2. QED
    BY <1>1, <2>1, LeastNat
<1>3. n \in 0 .. Len(s) /\ n <= Len(t) /\ Ends(n)
  BY <1>2
<1>4. ASSUME NEW m \in 1 .. n PROVE s[m] = t[m]
  <2>1. m - 1 \in Nat /\ ~(n <= m - 1) /\ (m - 1) + 1 = m /\ n \in Nat
    OBVIOUS
  <2>2. m - 1 \notin S
    <3>. HIDE DEF S
    <3>. QED
      BY <1>2, <2>1
  <2>3. QED
    BY <1>3, <2>1, <2>2
<1>5. \E c \in 0 .. Len(s) :
         /\ c <= Len(t) /\ \A m \in 1 .. c : s[m] = t[m]
         /\ c < Len(s) /\ c < Len(t) => s[c + 1] # t[c + 1]
  BY <1>3, <1>4
<1>6. QED
  BY <1>5 DEF CommonStart

Words == Seq(Lines \cup {Empty})

\* The hashes are integers, at most one for each line.
LEMMA HashesIs ==
  ASSUME NEW buf \in Words
  PROVE  Hashes(buf) \in Seq(Int) /\ Len(Hashes(buf)) <= Len(buf)
<1>. DEFINE Body(F) ==
              [n \in 0 .. Len(buf) |->
                 IF n = 0 THEN <<>>
                 ELSE IF buf[n] = Empty THEN F[n - 1]
                 ELSE Append(F[n - 1], Hash[buf[n]])]
            M == CHOOSE F : F = Body(F)
            To(m, F) == F \in [0 .. m -> Seq(Int)] /\ \A n \in 0 .. m :
                          F[n] = IF n = 0 THEN <<>>
                                 ELSE IF buf[n] = Empty THEN F[n - 1]
                                 ELSE Append(F[n - 1], Hash[buf[n]])
            S == {m \in Nat : m <= Len(buf) => \E F : To(m, F)}
<1>1. Len(buf) \in Nat /\ \A n \in 1 .. Len(buf) : buf[n] # Empty => Hash[buf[n]] \in Int
  BY DiffAssumption DEF Words
<1>2. 0 \in S
  <2>1. To(0, [n \in 0 .. 0 |-> <<>>])
    OBVIOUS
  <2>2. QED
    BY <2>1
<1>3. ASSUME NEW m \in Nat, m \in S PROVE m + 1 \in S
  <2>1. SUFFICES ASSUME m + 1 <= Len(buf) PROVE \E F : To(m + 1, F)
    OBVIOUS
  <2>2. m <= Len(buf) /\ m + 1 \in 1 .. Len(buf)
    BY <1>1, <2>1
  <2>3. PICK F : To(m, F)
    BY <1>3, <2>2
  <2>. DEFINE x == IF buf[m + 1] = Empty THEN F[m] ELSE Append(F[m], Hash[buf[m + 1]])
              N == [n \in 0 .. m + 1 |-> IF n = m + 1 THEN x ELSE F[n]]
  <2>4. x \in Seq(Int)
    <3>1. F[m] \in Seq(Int)
      BY <2>3
    <3>2. QED
      BY <1>1, <2>2, <3>1
  <2>. HIDE DEF x
  <2>5. N \in [0 .. m + 1 -> Seq(Int)]
    BY <2>3, <2>4
  <2>6. \A n \in 0 .. m : N[n] = F[n]
    OBVIOUS
  <2>7. N[m + 1] = x
    OBVIOUS
  <2>8. ASSUME NEW n \in 0 .. m + 1
        PROVE N[n] = IF n = 0 THEN <<>>
                     ELSE IF buf[n] = Empty THEN N[n - 1]
                     ELSE Append(N[n - 1], Hash[buf[n]])
    <3>. HIDE DEF N
    <3>1. CASE n = m + 1
      <4>1. N[n - 1] = F[m] /\ n # 0
        BY <2>6, <3>1
      <4>2. QED
        BY <2>7, <3>1, <4>1 DEF x
    <3>2. CASE n = 0
      BY <2>3, <2>6, <3>2
    <3>3. CASE n \in 1 .. m
      <4>1. N[n] = F[n] /\ N[n - 1] = F[n - 1] /\ n # 0
        BY <2>6, <3>3
      <4>2. QED
        BY <2>3, <3>3, <4>1
    <3>4. QED
      BY <3>1, <3>2, <3>3
  <2>9. To(m + 1, N)
    <3>. HIDE DEF N
    <3>. QED
      BY <2>5, <2>8
  <2>10. QED
    BY <2>9
<1>4. \A m \in Nat : m \in S
  <2>. HIDE DEF S
  <2>. QED
    BY <1>2, <1>3, NatSet
<1>5. PICK F : To(Len(buf), F)
  <2>1. Len(buf) \in S
    BY <1>1, <1>4
  <2>2. \E F : To(Len(buf), F)
    BY <1>1, <2>1
  <2>3. QED
    BY <2>2
<1>6. F = Body(F)
  BY <1>5
<1>7. M = Body(M)
  <2>. HIDE DEF Body
  <2>. QED
    BY <1>6
<1>8. Hashes(buf) = M[Len(buf)]
  BY DEF Hashes
<1>. HIDE DEF M
<1>. DEFINE Z == {m \in Nat : m <= Len(buf) => M[m] \in Seq(Int) /\ Len(M[m]) <= m}
<1>9. 0 \in Z
  <2>1. M[0] = <<>>
    BY <1>1, <1>7
  <2>2. M[0] \in Seq(Int) /\ Len(M[0]) = 0
    BY <2>1
  <2>3. QED
    BY <2>2
<1>10. ASSUME NEW m \in Nat, m \in Z PROVE m + 1 \in Z
  <2>1. SUFFICES ASSUME m + 1 <= Len(buf) PROVE M[m + 1] \in Seq(Int) /\ Len(M[m + 1]) <= m + 1
    OBVIOUS
  <2>2. m <= Len(buf) /\ m + 1 \in 1 .. Len(buf) /\ m + 1 \in 0 .. Len(buf) /\ (m + 1) - 1 = m /\ m + 1 # 0
    BY <1>1, <2>1
  <2>3. M[m] \in Seq(Int) /\ Len(M[m]) <= m
    BY <1>10, <2>2
  <2>4. M[m + 1] = IF buf[m + 1] = Empty THEN M[m] ELSE Append(M[m], Hash[buf[m + 1]])
    BY <1>7, <2>2
  <2>5. QED
    BY <1>1, <2>2, <2>3, <2>4
<1>11. \A m \in Nat : m \in Z
  <2>. HIDE DEF Z
  <2>. QED
    BY <1>9, <1>10, NatSet
<1>12. QED
  BY <1>1, <1>8, <1>11

\* The places of equal lines behind the common beginning, in front of the
\* common end.
Middle == {p \in Places : /\ p[1] \in 1 .. slen(1) /\ p[2] \in 1 .. slen(2)
                          /\ file[1][pref + p[1]] = file[2][pref + p[2]]}

\* What prune leaves.
Pruned ==
    /\ pref \in Nat /\ suff \in Nat
    /\ pref + suff <= len(1) /\ pref + suff <= len(2)
    /\ \A n \in 1 .. pref : file[1][n] = file[2][n]
    /\ \A n \in 1 .. suff : file[1][pref + slen(1) + n] = file[2][pref + slen(2) + n]

\* The length of the subsequence that a candidate ends.
Level(d) == Best(Middle, clist[d].x, clist[d].y)

\* A candidate ends a common subsequence one longer than the one it is
\* chained to.
Candidates ==
    /\ clist \in Seq([x : Nat, y : Nat, pred : Nat \ {0}]) /\ clist # <<>>
    /\ clist[1] = [x |-> 0, y |-> 0, pred |-> 1]
    /\ \A d \in 2 .. Len(clist) :
         LET before == clist[d].pred
         IN  /\ clist[d].x \in 1 .. i /\ y(d) \in 1 .. slen(2)
             /\ <<clist[d].x, y(d)>> \in Middle
             /\ before \in 1 .. d - 1
             /\ clist[before].x < clist[d].x /\ y(before) < y(d)
             /\ Level(d) = Level(before) + 1

Ranked ==
    /\ klist \in Seq(1 .. Len(clist)) /\ klist # <<>>
    /\ klist[1] = 1
    /\ \A l \in 0 .. k : Level(Klist(l)) = l

\* The row of the table of line m + 1, where its mates from g on are still to
\* be tried.
Merged(R, m, g, n) ==
    IF n < g THEN Best(R, m + 1, n)
    ELSE IF Best(R, m, n) >= Best(R, m + 1, g - 1) THEN Best(R, m, n)
    ELSE Best(R, m + 1, g - 1)

\* Where M are the mates of line m that are still to be tried.
Reached(R, m, M, n) == IF M = {} THEN Best(R, m, n) ELSE Merged(R, m - 1, Min(M), n)
Now(n) == Reached(Middle, i, mates, n)

\* klist says where the row that was reached grows.
Thresholds ==
    \A n \in 0 .. slen(2) :
      /\ Now(n) <= k
      /\ \A l \in 0 .. k : y(Klist(l)) <= n <=> l <= Now(n)

Earliest ==
    \A l \in 1 .. k : Best(Middle, clist[Klist(l)].x - 1, y(Klist(l))) < l

InRow ==
    /\ i \in 0 .. slen(1)
    /\ mates # {} =>
         /\ i # 0 /\ mates \subseteq Mates(i)
         /\ \A m \in mates, h \in Mates(i) : m < h => h \in mates

\* What oldl and oldc are in the middle of a row: the last length whose
\* candidate this line replaced, and that candidate; oldc may be passed.
Replaced ==
    mates # {} =>
      LET g == Min(mates)
          above(n) == Best(Middle, i - 1, n)
          here == Best(Middle, i, g - 1)
      IN  /\ oldl \in 0 .. k /\ oldc \in 1 .. Len(clist)
          /\ oldl <= here
          /\ \A l \in oldl + 1 .. k : clist[Klist(l)].x < i
          /\ here > oldl \/ (Level(oldc) = oldl /\ clist[oldc].x < i)
          /\ y(oldc) >= g => above(y(oldc) - 1) < oldl /\ oldl <= above(y(oldc))
          /\ here # above(g - 1) => here = oldl /\ oldl <= above(y(oldc))

\* The lines of file 0 up to n that have a match, counted by c.
Counts(c) ==
    /\ c \in [0 .. len(1) -> Nat]
    /\ \A n \in i .. len(1) : c[n] = c[n - 1] + (IF J[n] # 0 THEN 1 ELSE 0)
    /\ c[len(1)] = Longest(file[1], file[2])
    /\ removed = (i - 1) - c[i - 1]
    /\ added = J[i - 1] - c[i - 1]

-----------------------------------------------------------------------------
(* A row while the mates of its line are tried.                            *)

\* A row that is under way lies between the one above and one more, and grows
\* by one at most from place to place.
LEMMA MergedType ==
  ASSUME NEW R, NEW m \in Nat, NEW g \in Nat \ {0}, NEW n \in Nat
  PROVE  /\ Merged(R, m, g, n) \in Nat
         /\ Best(R, m, n) <= Merged(R, m, g, n)
         /\ Merged(R, m, g, n) <= Best(R, m, n) + 1
         /\ Merged(R, m, g, n + 1) \in {Merged(R, m, g, n), Merged(R, m, g, n) + 1}
         /\ Merged(R, m, g, 0) = 0
<1>. DEFINE a(h) == Best(R, m, h)
            b(h) == Best(R, m + 1, h)
            M(h) == Merged(R, m, g, h)
<1>1. m + 1 \in Nat /\ n + 1 \in Nat /\ g - 1 \in Nat
  OBVIOUS
<1>2. \A h \in Nat : a(h) \in Nat /\ b(h) \in Nat
  BY <1>1, BestType
<1>3. \A h \in Nat : b(h) \in {a(h), a(h) + 1} /\ a(h + 1) \in {a(h), a(h) + 1} /\ b(h + 1) \in {b(h), b(h) + 1}
  BY <1>1, BestSteps
<1>4. \A h \in Nat : M(h) = IF h < g THEN b(h) ELSE IF a(h) >= b(g - 1) THEN a(h) ELSE b(g - 1)
  BY DEF Merged
<1>5. \A h, l \in Nat : h <= l => a(h) <= a(l) /\ b(h) <= b(l)
  BY <1>1, BestMono
<1>. HIDE DEF M, a, b
<1>6. M(n) \in Nat /\ a(n) <= M(n) /\ M(n) <= a(n) + 1
  <2>1. M(n) = IF n < g THEN b(n) ELSE IF a(n) >= b(g - 1) THEN a(n) ELSE b(g - 1)
    BY <1>4
  <2>2. a(n) \in Nat /\ b(n) \in Nat /\ b(g - 1) \in Nat /\ b(n) \in {a(n), a(n) + 1}
    BY <1>1, <1>2, <1>3
  <2>3. g <= n => b(g - 1) <= b(n)
    BY <1>1, <1>5
  <2>4. QED
    BY <2>1, <2>2, <2>3
<1>7. M(n + 1) \in {M(n), M(n) + 1}
  <2>1. M(n) = IF n < g THEN b(n) ELSE IF a(n) >= b(g - 1) THEN a(n) ELSE b(g - 1)
    BY <1>4
  <2>2. M(n + 1) = IF n + 1 < g THEN b(n + 1) ELSE IF a(n + 1) >= b(g - 1) THEN a(n + 1) ELSE b(g - 1)
    BY <1>1, <1>4
  <2>3. a(n + 1) \in {a(n), a(n) + 1} /\ b(n + 1) \in {b(n), b(n) + 1} /\ b(n) \in {a(n), a(n) + 1}
    BY <1>3
  <2>4. a(n) \in Nat /\ b(n) \in Nat /\ b(g - 1) \in Nat
    BY <1>1, <1>2
  <2>5. n + 1 = g => b(g - 1) = b(n)
    <3>1. n + 1 = g => g - 1 = n
      OBVIOUS
    <3>2. QED
      BY <3>1
  <2>6. CASE n + 1 = g
    BY <2>1, <2>2, <2>3, <2>4, <2>5, <2>6
  <2>7. CASE n + 1 # g
    BY <2>1, <2>2, <2>3, <2>4, <2>7
  <2>8. QED
    BY <2>6, <2>7
<1>8. M(0) = 0
  <2>1. b(0) = 0
    BY <1>1, BestType DEF b
  <2>2. QED
    BY <1>4, <2>1
<1>9. QED
  BY <1>6, <1>7, <1>8 DEF M, a

\* Before the first mate, the row is the one above.
LEMMA MergedStart ==
  ASSUME NEW R, NEW m \in Nat, NEW g \in Nat \ {0}, NEW n \in Nat,
         \A h \in 1 .. g - 1 : <<m + 1, h>> \notin R
  PROVE  Merged(R, m, g, n) = Best(R, m, n) /\ Best(R, m + 1, g - 1) = Best(R, m, g - 1)
<1>1. ASSUME NEW l \in Nat, l < g PROVE Best(R, m + 1, l) = Best(R, m, l)
  <2>1. m + 1 \in Nat /\ Best(R, m, l) \in Nat
    BY BestType
  <2>2. Best(R, m + 1, 0) = 0
    BY <2>1, BestType
  <2>3. \A h \in 0 + 1 .. l : <<m + 1, h>> \notin R
    BY <1>1
  <2>4. Best(R, m + 1, l) = IF Best(R, m, l) >= Best(R, m + 1, 0) THEN Best(R, m, l) ELSE Best(R, m + 1, 0)
    BY <2>3, BestWithoutMates
  <2>5. QED
    BY <2>1, <2>2, <2>4
<1>2. g - 1 \in Nat
  OBVIOUS
<1>3. Best(R, m + 1, g - 1) = Best(R, m, g - 1)
  BY <1>1, <1>2
<1>4. g <= n => Best(R, m, g - 1) <= Best(R, m, n)
  BY <1>2, BestMono
<1>5. Best(R, m, n) \in Nat /\ Best(R, m, g - 1) \in Nat
  BY <1>2, BestType
<1>6. QED
  BY <1>1, <1>3, <1>4, <1>5 DEF Merged

\* From one mate to the next.
LEMMA MergedNext ==
  ASSUME NEW R, NEW m \in Nat, NEW g \in Nat \ {0}, NEW f \in Nat, g < f, NEW n \in Nat,
         <<m + 1, g>> \in R, \A h \in g + 1 .. f - 1 : <<m + 1, h>> \notin R
  PROVE  /\ Best(R, m + 1, g) = Best(R, m, g - 1) + 1
         /\ Best(R, m + 1, f - 1) = IF Best(R, m, f - 1) >= Best(R, m + 1, g) THEN Best(R, m, f - 1)
                                    ELSE Best(R, m + 1, g)
         /\ Merged(R, m, f, n) = IF n < g \/ Merged(R, m, g, n) >= Best(R, m + 1, g)
                                 THEN Merged(R, m, g, n) ELSE Best(R, m + 1, g)
<1>. DEFINE a(h) == Best(R, m, h)
            b(h) == Best(R, m + 1, h)
<1>1. m + 1 \in Nat /\ g - 1 \in Nat /\ f - 1 \in Nat /\ g <= f - 1
  OBVIOUS
<1>2. b(g) = a(g - 1) + 1
  <2>1. (g - 1) + 1 = g
    OBVIOUS
  <2>2. Best(R, m + 1, (g - 1) + 1) = Best(R, m, g - 1) + 1
    BY <1>1, <2>1, BestCell
  <2>3. QED
    BY <2>1, <2>2
<1>3. ASSUME NEW l \in Nat, g <= l, l < f PROVE b(l) = IF a(l) >= b(g) THEN a(l) ELSE b(g)
  <2>1. \A h \in g + 1 .. l : <<m + 1, h>> \notin R
    BY <1>3
  <2>2. QED
    BY <1>3, <2>1, BestWithoutMates
<1>4. b(f - 1) = IF a(f - 1) >= b(g) THEN a(f - 1) ELSE b(g)
  BY <1>1, <1>3
<1>5. a(n) \in Nat /\ b(n) \in Nat /\ b(g - 1) \in Nat /\ b(g) \in Nat /\ a(g - 1) \in Nat /\ a(f - 1) \in Nat
  BY <1>1, BestType
<1>6. b(g - 1) <= b(g)
  BY <1>1, BestMono
<1>7. f <= n => a(f - 1) <= a(n)
  BY <1>1, BestMono
<1>8. Merged(R, m, g, n) = IF n < g THEN b(n) ELSE IF a(n) >= b(g - 1) THEN a(n) ELSE b(g - 1)
  BY DEF Merged
<1>9. Merged(R, m, f, n) = IF n < f THEN b(n) ELSE IF a(n) >= b(f - 1) THEN a(n) ELSE b(f - 1)
  BY DEF Merged
<1>10. Merged(R, m, f, n) = IF n < g \/ Merged(R, m, g, n) >= b(g) THEN Merged(R, m, g, n) ELSE b(g)
  <2>1. CASE n < g
    BY <1>8, <1>9, <2>1
  <2>2. CASE g <= n /\ n < f
    <3>1. b(n) = IF a(n) >= b(g) THEN a(n) ELSE b(g)
      BY <1>3, <2>2
    <3>. HIDE DEF a, b
    <3>2. QED
      BY <1>5, <1>6, <1>8, <1>9, <2>2, <3>1
  <2>3. CASE f <= n
    <3>. HIDE DEF a, b
    <3>. QED
      BY <1>4, <1>5, <1>6, <1>7, <1>8, <1>9, <2>3
  <2>4. QED
    BY <2>1, <2>2, <2>3
<1>11. QED
  BY <1>2, <1>4, <1>10

\* The binary search finds where a candidate belongs.
LEMMA SearchFinds ==
  ASSUME NEW at0 \in Nat, k \in Nat, y(Klist(0)) < at0,
         \A l \in 0 .. k : y(Klist(l)) \in Nat,
         \A l \in 1 .. k : y(Klist(l - 1)) < y(Klist(l))
  PROVE  /\ Search(at0) \in 1 .. k + 1 /\ y(Klist(Search(at0) - 1)) < at0
         /\ Search(at0) <= k => at0 <= y(Klist(Search(at0)))
<1>. DEFINE Y(l) == y(Klist(l))
            K == k
<1>2. K \in Nat /\ \A l \in 0 .. K : Y(l) \in Nat
  OBVIOUS
<1>16. Y(0) < at0 /\ \A l \in 1 .. K : Y(l - 1) < Y(l)
  OBVIOUS
<1>. HIDE DEF Y, K
<1>. DEFINE D == {s \in (0 .. K) \X (1 .. K + 1) : s[1] < s[2]}
            Mid(r) == (r[1] + r[2]) \div 2
            Body(F) ==
              [r \in D |->
                 IF Mid(r) = r[1] THEN Mid(r) + 1
                 ELSE IF Y(Mid(r)) > at0 THEN F[<<r[1], Mid(r)>>]
                 ELSE IF Y(Mid(r)) < at0 THEN F[<<Mid(r), r[2]>>]
                 ELSE Mid(r)]
            Right(l) == /\ l \in 1 .. K + 1 /\ Y(l - 1) < at0
                        /\ l <= K => at0 <= Y(l)
            From(r) == Y(r[1]) < at0 /\ (r[2] <= K => at0 < Y(r[2]))
<1>3. \A r \in D : /\ r[1] \in 0 .. K /\ r[2] \in 1 .. K + 1 /\ r[1] < r[2] /\ r = <<r[1], r[2]>>
  OBVIOUS
<1>4. ASSUME NEW r \in D, Mid(r) # r[1]
      PROVE  /\ Mid(r) \in 1 .. K /\ r[1] < Mid(r) /\ Mid(r) < r[2]
             /\ <<r[1], Mid(r)>> \in D /\ <<Mid(r), r[2]>> \in D
  <2>1. r[1] \in 0 .. K /\ r[2] \in 1 .. K + 1 /\ r[1] < r[2]
    BY <1>3
  <2>2. Mid(r) \in Int /\ r[1] <= Mid(r) /\ Mid(r) < r[2]
    BY <1>2, <2>1
  <2>3. Mid(r) \in 1 .. K /\ r[1] < Mid(r) /\ Mid(r) < r[2]
    BY <1>2, <1>4, <2>1, <2>2
  <2>. HIDE DEF Mid
  <2>4. QED
    BY <1>2, <2>1, <2>3
<1>5. ASSUME NEW r \in D, Mid(r) = r[1] PROVE r[2] = r[1] + 1 /\ Mid(r) + 1 = r[2]
  <2>1. r[1] \in 0 .. K /\ r[2] \in 1 .. K + 1 /\ r[1] < r[2]
    BY <1>3
  <2>2. QED
    BY <1>2, <1>5, <2>1
<1>. DEFINE Short(n) == {r \in D : r[2] - r[1] <= n}
            Fine(F, r) == F[r] = IF Mid(r) = r[1] THEN Mid(r) + 1
                                 ELSE IF Y(Mid(r)) > at0 THEN F[<<r[1], Mid(r)>>]
                                 ELSE IF Y(Mid(r)) < at0 THEN F[<<Mid(r), r[2]>>]
                                 ELSE Mid(r)
            To(n, F) == DOMAIN F = Short(n) /\ F = [r \in Short(n) |-> F[r]] /\ \A r \in Short(n) : Fine(F, r)
            S == {n \in Nat : \E F : To(n, F)}
<1>6. ASSUME NEW r \in D, Mid(r) # r[1], NEW n \in Nat, r \in Short(n + 1)
      PROVE  <<r[1], Mid(r)>> \in Short(n) /\ <<Mid(r), r[2]>> \in Short(n)
  <2>1. /\ Mid(r) \in 1 .. K /\ r[1] < Mid(r) /\ Mid(r) < r[2]
        /\ <<r[1], Mid(r)>> \in D /\ <<Mid(r), r[2]>> \in D
    BY <1>4, <1>6
  <2>2. r[1] \in 0 .. K /\ r[2] \in 1 .. K + 1 /\ r[2] - r[1] <= n + 1
    BY <1>3, <1>6
  <2>. HIDE DEF Mid, D
  <2>3. QED
    BY <1>2, <2>1, <2>2
<1>7. 0 \in S
  <2>1. Short(0) = {}
    BY <1>2, <1>3
  <2>2. To(0, [r \in Short(0) |-> 0])
    BY <2>1
  <2>. QED
    BY <2>2
<1>8. ASSUME NEW n \in Nat, n \in S PROVE n + 1 \in S
  <2>1. PICK F : To(n, F)
    BY <1>8
  <2>. DEFINE G == [r \in Short(n + 1) |->
                      IF r \in Short(n) THEN F[r]
                      ELSE IF Mid(r) = r[1] THEN Mid(r) + 1
                      ELSE IF Y(Mid(r)) > at0 THEN F[<<r[1], Mid(r)>>]
                      ELSE IF Y(Mid(r)) < at0 THEN F[<<Mid(r), r[2]>>]
                      ELSE Mid(r)]
  <2>2. Short(n) \subseteq Short(n + 1)
    <3>1. ASSUME NEW r \in Short(n) PROVE r \in Short(n + 1)
      <4>1. r \in D /\ r[1] \in 0 .. K /\ r[2] \in 1 .. K + 1 /\ r[2] - r[1] <= n
        BY <1>3
      <4>2. r[2] - r[1] <= n + 1
        BY <1>2, <4>1
      <4>. HIDE DEF D
      <4>3. QED
        BY <4>1, <4>2
    <3>2. QED
      BY <3>1
  <2>3. \A r \in Short(n) : G[r] = F[r] /\ Fine(F, r)
    BY <2>1, <2>2
  <2>4. ASSUME NEW r \in Short(n + 1) PROVE Fine(G, r)
    <3>1. G[r] = IF Mid(r) = r[1] THEN Mid(r) + 1
                 ELSE IF Y(Mid(r)) > at0 THEN F[<<r[1], Mid(r)>>]
                 ELSE IF Y(Mid(r)) < at0 THEN F[<<Mid(r), r[2]>>]
                 ELSE Mid(r)
      <4>1. CASE r \in Short(n)
        <5>. HIDE DEF G, Short, D
        <5>. QED
          BY <2>3, <4>1
      <4>2. CASE r \notin Short(n)
        <5>. HIDE DEF Short, D, Mid
        <5>. QED
          BY <4>2
      <4>3. QED
        BY <4>1, <4>2
    <3>2. CASE Mid(r) = r[1]
      <4>. HIDE DEF G, Short, D, Mid
      <4>. QED
        BY <3>1, <3>2
    <3>3. CASE Mid(r) # r[1]
      <4>1. <<r[1], Mid(r)>> \in Short(n) /\ <<Mid(r), r[2]>> \in Short(n)
        BY <1>6, <3>3
      <4>. HIDE DEF G, Short, D, Mid
      <4>2. G[<<r[1], Mid(r)>>] = F[<<r[1], Mid(r)>>] /\ G[<<Mid(r), r[2]>>] = F[<<Mid(r), r[2]>>]
        BY <2>3, <4>1
      <4>3. QED
        BY <3>1, <4>2
    <3>4. QED
      BY <3>2, <3>3
  <2>5. To(n + 1, G)
    <3>1. DOMAIN G = Short(n + 1) /\ G = [r \in Short(n + 1) |-> G[r]]
      <4>. HIDE DEF Short, D, Mid
      <4>. QED
        OBVIOUS
    <3>. HIDE DEF G, Short, D, Mid, Fine
    <3>2. QED
      BY <2>4, <3>1
  <2>6. QED
    <3>. HIDE DEF To, G
    <3>. QED
      BY <2>5
<1>9. \A n \in Nat : n \in S
  <2>. HIDE DEF S
  <2>. QED
    BY <1>7, <1>8, NatSet
<1>10. K + 1 \in Nat /\ Short(K + 1) = D
  <2>1. \A r \in D : r[2] - r[1] <= K + 1
    BY <1>2, <1>3
  <2>. HIDE DEF D
  <2>2. QED
    BY <1>2, <2>1
<1>11. PICK F : To(K + 1, F)
  <2>1. K + 1 \in S
    BY <1>9, <1>10
  <2>. HIDE DEF To
  <2>2. QED
    BY <2>1
<1>12. F = Body(F)
  <2>1. DOMAIN F = D /\ F = [r \in D |-> F[r]] /\ \A r \in D : Fine(F, r)
    BY <1>10, <1>11
  <2>. HIDE DEF D, Mid
  <2>2. QED
    BY <2>1
<1>. DEFINE M == CHOOSE C : C = Body(C)
<1>13. M = Body(M)
  <2>. HIDE DEF Body
  <2>. QED
    BY <1>12
<1>14. Search(at0) = IF Y(K) < at0 THEN K + 1 ELSE M[<<0, K + 1>>]
  BY DEF Search, Y, K
<1>. HIDE DEF M
<1>15. \A r \in D : Fine(M, r)
  <2>. HIDE DEF D, Mid
  <2>. QED
    BY <1>13
<1>. DEFINE Z == {n \in Nat : \A r \in D : r[2] - r[1] <= n /\ From(r) => Right(M[r])}
<1>17. 0 \in Z
  <2>1. \A r \in D : ~(r[2] - r[1] <= 0)
    BY <1>2, <1>3
  <2>. HIDE DEF D, From, Right
  <2>2. QED
    BY <2>1
<1>18. ASSUME NEW n \in Nat, n \in Z PROVE n + 1 \in Z
  <2>1. SUFFICES ASSUME NEW r \in D, r[2] - r[1] <= n + 1, From(r) PROVE Right(M[r])
    OBVIOUS
  <2>2. Fine(M, r)
    BY <1>15
  <2>3. CASE Mid(r) = r[1]
    <3>1. M[r] = r[2] /\ r[2] = r[1] + 1
      BY <1>5, <2>2, <2>3
    <3>2. r[1] \in 0 .. K /\ r[2] \in 1 .. K + 1
      BY <1>3
    <3>3. r[2] - 1 = r[1]
      BY <1>2, <3>1, <3>2
    <3>4. Y(r[1]) < at0 /\ (r[2] <= K => at0 < Y(r[2]))
      BY <2>1
    <3>. HIDE DEF D, Mid
    <3>5. r[2] <= K => Y(r[2]) \in Nat
      BY <1>2, <3>2
    <3>6. QED
      BY <3>1, <3>2, <3>3, <3>4, <3>5
  <2>4. CASE Mid(r) # r[1]
    <3>1. /\ Mid(r) \in 1 .. K /\ r[1] < Mid(r) /\ Mid(r) < r[2]
          /\ <<r[1], Mid(r)>> \in D /\ <<Mid(r), r[2]>> \in D
      BY <1>4, <2>4
    <3>2. r[1] \in 0 .. K /\ r[2] \in 1 .. K + 1
      BY <1>3
    <3>3. Mid(r) - r[1] <= n /\ r[2] - Mid(r) <= n
      <4>. HIDE DEF Mid, D
      <4>. QED
        BY <1>2, <1>16, <2>1, <3>1, <3>2
    <3>4. Y(Mid(r)) \in Nat /\ Y(Mid(r) - 1) < Y(Mid(r))
      <4>. HIDE DEF Mid, D
      <4>. QED
        BY <1>2, <1>16, <3>1
    <3>5. CASE Y(Mid(r)) > at0
      <4>1. M[r] = M[<<r[1], Mid(r)>>]
        BY <2>2, <2>4, <3>5
      <4>2. From(<<r[1], Mid(r)>>)
        <5>. HIDE DEF D, Mid
        <5>. QED
          BY <2>1, <3>4, <3>5
      <4>3. \A q \in D : q[2] - q[1] <= n /\ From(q) => Right(M[q])
        BY <1>18
      <4>4. Right(M[<<r[1], Mid(r)>>])
        <5>. HIDE DEF D, Mid, From, Right
        <5>. QED
          BY <3>1, <3>3, <4>2, <4>3
      <4>. HIDE DEF Right
      <4>5. QED
        BY <4>1, <4>4
    <3>6. CASE Y(Mid(r)) < at0
      <4>1. M[r] = M[<<Mid(r), r[2]>>]
        BY <2>2, <2>4, <3>4, <3>6
      <4>2. From(<<Mid(r), r[2]>>)
        <5>. HIDE DEF D, Mid
        <5>. QED
          BY <2>1, <3>4, <3>6
      <4>3. \A q \in D : q[2] - q[1] <= n /\ From(q) => Right(M[q])
        BY <1>18
      <4>4. Right(M[<<Mid(r), r[2]>>])
        <5>. HIDE DEF D, Mid, From, Right
        <5>. QED
          BY <3>1, <3>3, <4>2, <4>3
      <4>. HIDE DEF Right
      <4>5. QED
        BY <4>1, <4>4
    <3>7. CASE Y(Mid(r)) = at0
      <4>1. M[r] = Mid(r)
        BY <2>2, <2>4, <3>7
      <4>. HIDE DEF D, Mid
      <4>2. QED
        BY <1>2, <1>16, <3>1, <3>4, <3>7, <4>1
    <3>8. QED
      <4>1. Y(Mid(r)) > at0 \/ Y(Mid(r)) < at0 \/ Y(Mid(r)) = at0
        <5>. HIDE DEF Mid
        <5>. QED
          BY <3>4
      <4>. HIDE DEF D, Mid, Right
      <4>2. QED
        BY <3>5, <3>6, <3>7, <4>1
  <2>5. QED
    BY <2>3, <2>4
<1>19. \A n \in Nat : n \in Z
  <2>. HIDE DEF Z
  <2>. QED
    BY <1>17, <1>18, NatSet
<1>20. Right(Search(at0))
  <2>1. CASE Y(K) < at0
    <3>1. Search(at0) = K + 1
      BY <1>14, <2>1
    <3>2. Right(K + 1)
      BY <1>2, <1>16, <2>1
    <3>3. QED
      BY <3>1, <3>2
  <2>2. CASE ~(Y(K) < at0)
    <3>1. Search(at0) = M[<<0, K + 1>>]
      BY <1>14, <2>2
    <3>. DEFINE q == <<0, K + 1>>
    <3>2. q \in D /\ q[2] - q[1] <= K + 1
      BY <1>2, <1>16
    <3>3. From(q)
      BY <1>2, <1>16
    <3>4. K + 1 \in Z
      BY <1>10, <1>19
    <3>. HIDE DEF q, D, From, Right
    <3>5. Right(M[q])
      BY <3>2, <3>3, <3>4
    <3>6. QED
      BY <3>1, <3>5 DEF q
  <2>3. QED
    BY <2>1, <2>2
<1>21. QED
  BY <1>20 DEF Y, K

\* A row that is under way does not fall.
LEMMA MergedMono ==
  ASSUME NEW R, NEW m \in Nat, NEW g \in Nat \ {0}, NEW a \in Nat, NEW b \in Nat, a <= b
  PROVE  Merged(R, m, g, a) <= Merged(R, m, g, b)
<1>1. m + 1 \in Nat /\ g - 1 \in Nat
  OBVIOUS
<1>2. Best(R, m, a) <= Best(R, m, b) /\ Best(R, m + 1, a) <= Best(R, m + 1, b)
  BY <1>1, BestMono
<1>3. a < g => Best(R, m + 1, a) <= Best(R, m + 1, g - 1)
  BY <1>1, BestMono
<1>4. /\ Best(R, m, a) \in Nat /\ Best(R, m, b) \in Nat /\ Best(R, m + 1, a) \in Nat
      /\ Best(R, m + 1, b) \in Nat /\ Best(R, m + 1, g - 1) \in Nat
  BY <1>1, BestType
<1>5. QED
  BY <1>2, <1>3, <1>4 DEF Merged

\* Y says where a row grows: Y[l] is the first place with a subsequence of
\* length l.
Rows(R, m, g, n, top, Y) ==
    /\ Y \in [0 .. top -> 0 .. n]
    /\ \A a \in 0 .. n : /\ Merged(R, m, g, a) <= top
                         /\ \A l \in 0 .. top : Y[l] <= a <=> l <= Merged(R, m, g, a)

\* There are no mates of line m + 1 from g to the next, f.
NextMate(R, m, g, f) ==
    /\ g < f /\ <<m + 1, g>> \in R
    /\ \A h \in g + 1 .. f - 1 : <<m + 1, h>> \notin R

\* A subsequence that mate g ends is of length l, and none of the mates before
\* made the row grow there.
Ends(R, m, g, l) ==
    l = Best(R, m + 1, g - 1) + 1 /\ Best(R, m, g - 1) = Best(R, m + 1, g - 1)

\* MergedNext for the row.
LEMMA NextMateRow ==
  ASSUME NEW R, NEW m \in Nat, NEW g \in Nat \ {0}, NEW f \in Nat, NextMate(R, m, g, f), NEW n \in Nat
  PROVE  Merged(R, m, f, n) = IF n < g \/ Merged(R, m, g, n) >= Best(R, m + 1, g)
                              THEN Merged(R, m, g, n) ELSE Best(R, m + 1, g)
<1>1. g < f /\ <<m + 1, g>> \in R /\ \A h \in g + 1 .. f - 1 : <<m + 1, h>> \notin R
  BY DEF NextMate
<1>2. QED
  BY <1>1, MergedNext

\* MergedNext for the mate itself.
LEMMA NextMateBest ==
  ASSUME NEW R, NEW m \in Nat, NEW g \in Nat \ {0}, NEW f \in Nat, NextMate(R, m, g, f)
  PROVE  Best(R, m + 1, g) = Best(R, m, g - 1) + 1
<1>1. g < f /\ <<m + 1, g>> \in R /\ \A h \in g + 1 .. f - 1 : <<m + 1, h>> \notin R
  BY DEF NextMate
<1>2. ASSUME NEW n \in Nat
      PROVE  /\ Best(R, m + 1, g) = Best(R, m, g - 1) + 1
             /\ Best(R, m + 1, f - 1) = IF Best(R, m, f - 1) >= Best(R, m + 1, g) THEN Best(R, m, f - 1)
                                         ELSE Best(R, m + 1, g)
             /\ Merged(R, m, f, n) = IF n < g \/ Merged(R, m, g, n) >= Best(R, m + 1, g)
                                     THEN Merged(R, m, g, n) ELSE Best(R, m + 1, g)
  BY <1>1, MergedNext
<1>3. 0 \in Nat
  OBVIOUS
<1>4. QED
  BY <1>2, <1>3

\* MergedNext for the lines up to the next mate.
LEMMA NextMateLast ==
  ASSUME NEW R, NEW m \in Nat, NEW g \in Nat \ {0}, NEW f \in Nat, NextMate(R, m, g, f)
  PROVE  Best(R, m + 1, f - 1) = IF Best(R, m, f - 1) >= Best(R, m + 1, g) THEN Best(R, m, f - 1)
                                 ELSE Best(R, m + 1, g)
<1>1. g < f /\ <<m + 1, g>> \in R /\ \A h \in g + 1 .. f - 1 : <<m + 1, h>> \notin R
  BY DEF NextMate
<1>2. ASSUME NEW n \in Nat
      PROVE  /\ Best(R, m + 1, g) = Best(R, m, g - 1) + 1
             /\ Best(R, m + 1, f - 1) = IF Best(R, m, f - 1) >= Best(R, m + 1, g) THEN Best(R, m, f - 1)
                                         ELSE Best(R, m + 1, g)
             /\ Merged(R, m, f, n) = IF n < g \/ Merged(R, m, g, n) >= Best(R, m + 1, g)
                                     THEN Merged(R, m, g, n) ELSE Best(R, m + 1, g)
  BY <1>1, MergedNext
<1>3. 0 \in Nat
  OBVIOUS
<1>4. QED
  BY <1>2, <1>3

\* The candidates of klist end at later and later lines.
LEMMA RowsGrow ==
  ASSUME NEW R, NEW m \in Nat, NEW g \in Nat \ {0}, NEW n \in Nat, NEW top \in Nat, NEW Y,
         Rows(R, m, g, n, top, Y)
  PROVE  Y[0] = 0 /\ \A l \in 1 .. top : Y[l - 1] < Y[l]
<1>1. Y[0] = 0
  <2>1. Merged(R, m, g, 0) = 0
    BY MergedType
  <2>2. 0 \in 0 .. n /\ 0 \in 0 .. top
    OBVIOUS
  <2>3. Y[0] <= 0 /\ Y[0] \in 0 .. n
    BY <2>1, <2>2 DEF Rows
  <2>4. QED
    BY <2>3
<1>2. ASSUME NEW l \in 1 .. top PROVE Y[l - 1] < Y[l]
  <2>1. PICK a : a = Y[l]
    OBVIOUS
  <2>2. l \in 0 .. top /\ l - 1 \in 0 .. top
    OBVIOUS
  <2>3. a \in 0 .. n
    BY <2>1, <2>2 DEF Rows
  <2>4. l <= Merged(R, m, g, a)
    BY <2>1, <2>2, <2>3 DEF Rows
  <2>5. a # 0
    BY <2>4, MergedType
  <2>. DEFINE c == a - 1
  <2>6. c \in Nat /\ c \in 0 .. n /\ a = c + 1 /\ a \in Nat
    BY <2>3, <2>5
  <2>. HIDE DEF c
  <2>7. Merged(R, m, g, c) \in Nat /\ Merged(R, m, g, c + 1) \in {Merged(R, m, g, c), Merged(R, m, g, c) + 1}
    BY <2>6, MergedType
  <2>8. l - 1 <= Merged(R, m, g, c)
    BY <2>4, <2>6, <2>7
  <2>9. Y[l - 1] <= c /\ Y[l - 1] \in 0 .. n
    BY <2>2, <2>6, <2>8 DEF Rows
  <2>10. QED
    BY <2>1, <2>3, <2>6, <2>9
<1>3. QED
  BY <1>1, <1>2

\* The place in the row of the next mate.
Takes(Y, top, g, l) ==
    l \in 1 .. top + 1 /\ Y[l - 1] < g /\ (l <= top => g <= Y[l])

\* The length at which a mate takes its place is one more than the row has
\* before it.
LEMMA RowsPlace ==
  ASSUME NEW R, NEW m \in Nat, NEW n \in Nat, NEW g \in Nat \ {0}, g <= n, NEW top \in Nat, NEW Y,
         Rows(R, m, g, n, top, Y),
         NEW l, Takes(Y, top, g, l)
  PROVE  l = Best(R, m + 1, g - 1) + 1 /\ Best(R, m + 1, g - 1) = Merged(R, m, g, g - 1)
<1>0. l \in 1 .. top + 1 /\ Y[l - 1] < g /\ (l <= top => g <= Y[l])
  BY DEF Takes
<1>1. g - 1 \in 0 .. n /\ g - 1 \in Nat /\ g \in Nat \ {0} /\ g - 1 < g
  OBVIOUS
<1>2. PICK b : b = Best(R, m + 1, g - 1)
  OBVIOUS
<1>3. b \in Nat
  BY <1>1, <1>2, BestType
<1>4. b = Merged(R, m, g, g - 1)
  BY <1>1, <1>2 DEF Merged
<1>5. l - 1 \in 0 .. top /\ Y[l - 1] \in 0 .. n
  BY <1>0 DEF Rows
<1>6. l - 1 <= b
  <2>1. Y[l - 1] <= g - 1
    BY <1>0, <1>5
  <2>2. QED
    BY <1>0, <1>1, <1>4, <1>5, <2>1 DEF Rows
<1>7. b <= top
  BY <1>1, <1>4 DEF Rows
<1>8. ASSUME l <= top PROVE b < l
  <2>1. l \in 0 .. top /\ Y[l] \in 0 .. n /\ g <= Y[l]
    BY <1>0, <1>8 DEF Rows
  <2>2. ~(Y[l] <= g - 1)
    BY <2>1
  <2>3. ~(l <= b)
    BY <1>0, <1>1, <1>4, <2>1, <2>2 DEF Rows
  <2>4. QED
    BY <1>0, <1>3, <2>3
<1>9. b = l - 1
  BY <1>0, <1>3, <1>6, <1>7, <1>8
<1>10. QED
  BY <1>0, <1>2, <1>3, <1>4, <1>9

\* A mate that does not improve on the row leaves klist as it is.
LEMMA RowsKept ==
  ASSUME NEW R, NEW m \in Nat, NEW n \in Nat, NEW g \in Nat \ {0}, g <= n, NEW top \in Nat, NEW Y,
         NEW f \in Nat, f <= n + 1, NextMate(R, m, g, f),
         Rows(R, m, g, n, top, Y), Best(R, m + 1, g) <= Merged(R, m, g, g)
  PROVE  Rows(R, m, f, n, top, Y)
<1>1. ASSUME NEW a \in 0 .. n PROVE Merged(R, m, f, a) = Merged(R, m, g, a)
  <2>1. a \in Nat /\ g \in Nat \ {0} /\ f \in Nat /\ g \in Nat /\ m + 1 \in Nat
    OBVIOUS
  <2>2. Merged(R, m, f, a) = IF a < g \/ Merged(R, m, g, a) >= Best(R, m + 1, g)
                                 THEN Merged(R, m, g, a) ELSE Best(R, m + 1, g)
    BY <2>1, NextMateRow
  <2>3. g <= a => Merged(R, m, g, g) <= Merged(R, m, g, a)
    BY <2>1, MergedMono
  <2>4. Merged(R, m, g, a) \in Nat /\ Merged(R, m, g, g) \in Nat
    BY <2>1, MergedType
  <2>5. Best(R, m + 1, g) \in Nat
    BY <2>1, BestType
  <2>6. QED
    BY <2>1, <2>2, <2>3, <2>4, <2>5
<1>2. QED
  BY <1>1 DEF Rows

\* A mate that does takes the place of the candidate of its length.
LEMMA RowsBetter ==
  ASSUME NEW R, NEW m \in Nat, NEW n \in Nat, NEW g \in Nat \ {0}, g <= n, NEW top \in Nat, NEW Y,
         NEW f \in Nat, f <= n + 1, NextMate(R, m, g, f),
         Rows(R, m, g, n, top, Y),
         NEW l \in 1 .. top, g < Y[l],
         Ends(R, m, g, l)
  PROVE  Rows(R, m, f, n, top, [Y EXCEPT ![l] = g])
<1>. DEFINE Z == [Y EXCEPT ![l] = g]
            M(a) == Merged(R, m, g, a)
            W(a) == Merged(R, m, f, a)
<1>1. g \in Nat /\ g \in Nat \ {0} /\ f \in Nat /\ g - 1 \in Nat /\ m + 1 \in Nat /\ g - 1 \in 0 .. n
  OBVIOUS
<1>2. Best(R, m + 1, g) = l
  <2>1. Best(R, m + 1, g) = Best(R, m, g - 1) + 1
    BY <1>1, NextMateBest
  <2>2. QED
    BY <2>1 DEF Ends
<1>3. ASSUME NEW a \in 0 .. n PROVE W(a) = IF a < g \/ M(a) >= l THEN M(a) ELSE l
  BY <1>1, <1>2, NextMateRow
<1>4. M(g - 1) = l - 1
  <2>1. g - 1 < g /\ Best(R, m + 1, g - 1) \in Nat
    BY <1>1, BestType
  <2>2. M(g - 1) = Best(R, m + 1, g - 1)
    BY <2>1 DEF Merged
  <2>. HIDE DEF M
  <2>3. QED
    BY <2>1, <2>2 DEF Ends
<1>5. Y \in [0 .. top -> 0 .. n] /\ l \in 0 .. top /\ g \in 0 .. n
  BY DEF Rows
<1>6. Z \in [0 .. top -> 0 .. n] /\ Z[l] = g /\ \A h \in 0 .. top : h # l => Z[h] = Y[h]
  BY <1>5
<1>7. ASSUME NEW a \in 0 .. n, NEW h \in 0 .. top
      PROVE  /\ W(a) <= top
             /\ Z[h] <= a <=> h <= W(a)
  <2>8. a \in Nat
    OBVIOUS
  <2>9. M(a) \in Nat
    BY <1>1, <2>8, MergedType
  <2>1. M(a) \in Nat /\ M(a) <= top /\ (Y[h] <= a <=> h <= M(a))
    BY <2>9 DEF Rows
  <2>2. W(a) = IF a < g \/ M(a) >= l THEN M(a) ELSE l
    BY <1>3
  <2>3. W(a) <= top
    BY <2>1, <2>2
  <2>4. CASE h = l
    <3>1. a < g => M(a) <= M(g - 1)
      <4>1. a < g => a <= g - 1
        BY <1>1
      <4>2. QED
        BY <1>1, <4>1, MergedMono
    <3>. HIDE DEF M, W, Z
    <3>2. QED
      BY <1>1, <1>4, <1>6, <2>1, <2>2, <2>4, <3>1
  <2>5. CASE h > l
    <3>. HIDE DEF M, W, Z
    <3>. QED
      BY <1>6, <2>1, <2>2, <2>5
  <2>6. CASE h < l
    <3>1. Y[h] <= g - 1
      <4>1. h <= M(g - 1)
        BY <1>4, <2>6
      <4>2. QED
        BY <1>1, <4>1 DEF Rows
    <3>2. Y[h] \in 0 .. n /\ Z[h] = Y[h]
      BY <1>5, <1>6, <2>6
    <3>. HIDE DEF M, W, Z
    <3>3. QED
      BY <1>1, <2>1, <2>2, <2>6, <3>1, <3>2
  <2>7. QED
    BY <2>3, <2>4, <2>5, <2>6
<1>8. QED
  <2>. HIDE DEF Z
  <2>. QED
    BY <1>6, <1>7 DEF Rows

\* The longest so far grows: what mates are left cannot make it grow again.
LEMMA RowsLonger ==
  ASSUME NEW R, NEW m \in Nat, NEW n \in Nat, NEW g \in Nat \ {0}, g <= n, NEW top \in Nat, NEW Y,
         <<m + 1, g>> \in R,
         Rows(R, m, g, n, top, Y),
         top = Best(R, m + 1, g - 1), Best(R, m, g - 1) = Best(R, m + 1, g - 1),
         NEW Z, Z \in [0 .. top + 1 -> 0 .. n], Z[top + 1] = g,
         \A l \in 0 .. top : Z[l] = Y[l]
  PROVE  Rows(R, m, n + 1, n, top + 1, Z)
<1>. DEFINE M(a) == Merged(R, m, g, a)
            W(a) == Merged(R, m, n + 1, a)
<1>1. g \in Nat /\ g \in Nat \ {0} /\ g - 1 \in Nat /\ m + 1 \in Nat /\ g - 1 \in 0 .. n /\ (g - 1) + 1 = g
  OBVIOUS
<1>2. Best(R, m + 1, g) = top + 1
  <2>1. Best(R, m + 1, (g - 1) + 1) = Best(R, m, g - 1) + 1
    BY <1>1, BestCell
  <2>2. QED
    BY <1>1, <2>1
<1>3. \A a \in 0 .. n : W(a) = Best(R, m + 1, a)
  BY DEF Merged
<1>4. M(g - 1) = top
  BY <1>1 DEF Merged
<1>5. ASSUME NEW a \in 0 .. n PROVE W(a) = IF a < g THEN M(a) ELSE top + 1
  <2>1. CASE a < g
    BY <1>3, <2>1 DEF Merged
  <2>2. CASE g <= a
    <3>1. Best(R, m + 1, g) <= Best(R, m + 1, a)
      BY <1>1, <2>2, BestMono
    <3>6. a \in Nat
      OBVIOUS
    <3>2. Best(R, m + 1, a) \in {Best(R, m, a), Best(R, m, a) + 1} /\ Best(R, m, a) \in Nat
      BY <3>6, BestSteps, BestType
    <3>3. Best(R, m, a) <= M(a) /\ M(a) \in Nat
      BY <1>1, MergedType
    <3>4. M(a) <= top
      BY DEF Rows
    <3>. HIDE DEF M, W
    <3>5. QED
      BY <1>2, <1>3, <2>2, <3>1, <3>2, <3>3, <3>4
  <2>3. QED
    BY <1>1, <2>1, <2>2
<1>6. ASSUME NEW a \in 0 .. n, NEW l \in 0 .. top + 1
      PROVE  /\ W(a) <= top + 1
             /\ Z[l] <= a <=> l <= W(a)
  <2>1. W(a) = IF a < g THEN M(a) ELSE top + 1
    BY <1>5
  <2>2. M(a) \in Nat /\ M(a) <= top
    <3>1. a \in Nat
      OBVIOUS
    <3>2. M(a) \in Nat
      BY <3>1, MergedType
    <3>3. M(a) <= top
      BY DEF Rows
    <3>4. QED
      BY <3>2, <3>3
  <2>3. W(a) <= top + 1
    BY <2>1, <2>2
  <2>4. CASE l = top + 1
    <3>. HIDE DEF M, W
    <3>. QED
      BY <2>1, <2>2, <2>3, <2>4
  <2>5. CASE l \in 0 .. top
    <3>1. Z[l] = Y[l] /\ (Y[l] <= a <=> l <= M(a)) /\ Y[l] \in 0 .. n
      BY <2>5 DEF Rows
    <3>2. Y[l] <= g - 1
      BY <1>1, <1>4, <2>5 DEF Rows
    <3>. HIDE DEF M, W
    <3>3. QED
      BY <1>1, <2>1, <2>2, <2>3, <2>5, <3>1, <3>2
  <2>6. QED
    BY <2>4, <2>5
<1>7. QED
  BY <1>6 DEF Rows

-----------------------------------------------------------------------------
(* What oldc and oldl say of the row.                                      *)

Behind(R, m, g, l, at0) ==
    /\ at0 >= g => Best(R, m, at0 - 1) < l /\ l <= Best(R, m, at0)
    /\ Best(R, m + 1, g - 1) # Best(R, m, g - 1) =>
         Best(R, m + 1, g - 1) = l /\ l <= Best(R, m, at0)

\* A mate behind oldc is worth a try.
LEMMA BehindPassed ==
  ASSUME NEW R, NEW m \in Nat, NEW g \in Nat \ {0}, NEW l \in Nat, NEW at0 \in Nat,
         Behind(R, m, g, l, at0), at0 < g
  PROVE  Best(R, m + 1, g - 1) = Best(R, m, g - 1)
<1>1. g - 1 \in Nat /\ m + 1 \in Nat /\ at0 <= g - 1 /\ (g - 1) + 1 = g
  OBVIOUS
<1>2. Best(R, m, at0) <= Best(R, m, g - 1)
  BY <1>1, BestMono
<1>3. Best(R, m + 1, g - 1) \in {Best(R, m, g - 1), Best(R, m, g - 1) + 1}
  BY <1>1, BestSteps
<1>4. Best(R, m, at0) \in Nat /\ Best(R, m, g - 1) \in Nat
  BY <1>1, BestType
<1>5. QED
  BY <1>2, <1>3, <1>4 DEF Behind

\* A mate in front of oldc is not.
LEMMA BehindSkipped ==
  ASSUME NEW R, NEW m \in Nat, NEW g \in Nat \ {0}, NEW l \in Nat, NEW at0 \in Nat, NEW f \in Nat,
         NextMate(R, m, g, f),
         Behind(R, m, g, l, at0), g <= at0, l <= Best(R, m + 1, g - 1)
  PROVE  /\ Best(R, m + 1, g) <= Merged(R, m, g, g)
         /\ Behind(R, m, f, l, at0) /\ l <= Best(R, m + 1, f - 1)
         /\ Best(R, m + 1, g - 1) <= Best(R, m + 1, f - 1)
<1>1. g - 1 \in Nat /\ m + 1 \in Nat /\ f - 1 \in Nat /\ at0 - 1 \in Nat /\ g - 1 <= at0 - 1 /\ g < f /\ g \in Nat
      /\ g - 1 < g /\ g - 1 <= g /\ g - 1 <= f - 1
  BY DEF NextMate
<1>2. Best(R, m, g - 1) <= Best(R, m, at0 - 1) /\ Best(R, m, at0 - 1) < l /\ l <= Best(R, m, at0)
  BY <1>1, BestMono DEF Behind
<1>3. Best(R, m + 1, g - 1) \in {Best(R, m, g - 1), Best(R, m, g - 1) + 1}
  BY <1>1, BestSteps, (g - 1) \in Nat
<1>4. /\ Best(R, m, g - 1) \in Nat /\ Best(R, m, at0 - 1) \in Nat /\ Best(R, m + 1, g) \in Nat
      /\ Best(R, m, f - 1) \in Nat
  BY <1>1, BestType
<1>5. Best(R, m + 1, g) = Best(R, m, g - 1) + 1
  BY <1>1, NextMateBest
<1>6. Best(R, m + 1, f - 1) = IF Best(R, m, f - 1) >= Best(R, m + 1, g) THEN Best(R, m, f - 1)
                                    ELSE Best(R, m + 1, g)
  BY <1>1, NextMateLast
<1>7. Best(R, m + 1, g - 1) = l /\ Best(R, m + 1, g) = l
  BY <1>2, <1>3, <1>4, <1>5
<1>8. Merged(R, m, g, g - 1) = l
  BY <1>1, <1>7 DEF Merged
<1>9. Merged(R, m, g, g - 1) <= Merged(R, m, g, g)
  BY <1>1, MergedMono
<1>10. Behind(R, m, f, l, at0)
  <2>1. at0 >= f => Best(R, m, at0 - 1) < l /\ l <= Best(R, m, at0)
    BY <1>2
  <2>2. Best(R, m + 1, f - 1) # Best(R, m, f - 1) =>
         Best(R, m + 1, f - 1) = l /\ l <= Best(R, m, at0)
    BY <1>2, <1>6, <1>7
  <2>3. QED
    BY <2>1, <2>2 DEF Behind
<1>11. l <= Best(R, m + 1, f - 1) /\ Best(R, m + 1, g - 1) <= Best(R, m + 1, f - 1)
  BY <1>4, <1>6, <1>7
<1>12. QED
  BY <1>7, <1>8, <1>9, <1>10, <1>11

\* A mate that is tried and gives nothing better was already one in the row
\* above.
LEMMA BehindTried ==
  ASSUME NEW R, NEW m \in Nat, NEW n \in Nat, NEW g \in Nat \ {0}, g <= n, NEW top \in Nat, NEW Y,
         NEW f \in Nat, f <= n + 1, NextMate(R, m, g, f),
         Rows(R, m, g, n, top, Y),
         NEW l \in 1 .. top, Y[l] <= g,
         Ends(R, m, g, l),
         NEW l0, NEW at0 \in Nat, at0 < g
  PROVE  /\ Best(R, m + 1, g) <= Merged(R, m, g, g)
         /\ Behind(R, m, f, l0, at0)
         /\ l <= Best(R, m + 1, f - 1)
<1>1. g - 1 \in Nat /\ m + 1 \in Nat /\ f - 1 \in Nat /\ g < f /\ g \in Nat /\ g \in 0 .. n /\ g \in Nat \ {0} /\ f \in Nat
      /\ g <= f - 1
  BY DEF NextMate
<1>2. Best(R, m + 1, g) = l
  <2>1. Best(R, m + 1, g) = Best(R, m, g - 1) + 1
    BY <1>1, NextMateBest
  <2>2. QED
    BY <2>1 DEF Ends
<1>3. l <= Merged(R, m, g, g)
  BY <1>1 DEF Rows
<1>4. Merged(R, m, g, g) = IF Best(R, m, g) >= Best(R, m + 1, g - 1) THEN Best(R, m, g) ELSE Best(R, m + 1, g - 1)
  BY <1>1 DEF Merged
<1>5. Best(R, m, g) \in Nat /\ Best(R, m + 1, g - 1) \in Nat /\ Best(R, m, f - 1) \in Nat
  BY <1>1, BestType
<1>6. l <= Best(R, m, g)
  BY <1>3, <1>4, <1>5 DEF Ends
<1>7. Best(R, m, g) <= Best(R, m, f - 1)
  BY <1>1, BestMono
<1>8. Best(R, m + 1, f - 1) = IF Best(R, m, f - 1) >= Best(R, m + 1, g) THEN Best(R, m, f - 1)
                                    ELSE Best(R, m + 1, g)
  BY <1>1, NextMateLast
<1>9. Best(R, m + 1, f - 1) = Best(R, m, f - 1) /\ l <= Best(R, m + 1, f - 1)
  BY <1>2, <1>5, <1>6, <1>7, <1>8
<1>10. Behind(R, m, f, l0, at0)
  <2>1. ~(at0 >= f)
    BY <1>1
  <2>2. QED
    BY <1>9, <2>1 DEF Behind
<1>11. QED
  BY <1>2, <1>3, <1>9, <1>10

\* A better candidate replaces the one oldc is then.
LEMMA BehindBetter ==
  ASSUME NEW R, NEW m \in Nat, NEW n \in Nat, NEW g \in Nat \ {0}, g <= n, NEW top \in Nat, NEW Y,
         NEW f \in Nat, f <= n + 1, NextMate(R, m, g, f),
         Rows(R, m, g, n, top, Y),
         NEW l \in 1 .. top, g < Y[l],
         Ends(R, m, g, l)
  PROVE  Behind(R, m, f, l, Y[l]) /\ l <= Best(R, m + 1, f - 1)
<1>1. g - 1 \in Nat /\ m + 1 \in Nat /\ f - 1 \in Nat /\ g < f /\ g \in Nat /\ g \in 0 .. n /\ g \in Nat \ {0} /\ f \in Nat
      /\ g <= f - 1
  BY DEF NextMate
<1>2. Best(R, m + 1, g) = l
  <2>1. Best(R, m + 1, g) = Best(R, m, g - 1) + 1
    BY <1>1, NextMateBest
  <2>2. QED
    BY <2>1 DEF Ends
<1>3. PICK a : a = Y[l]
  OBVIOUS
<1>4. l \in 0 .. top /\ a \in 0 .. n /\ a - 1 \in 0 .. n /\ a - 1 \in Nat /\ g <= a - 1 /\ ~(a <= a - 1) /\ a \in Nat
  BY <1>1, <1>3 DEF Rows
<1>5. l <= Merged(R, m, g, a) /\ ~(l <= Merged(R, m, g, a - 1))
  BY <1>3, <1>4 DEF Rows
<1>6. Best(R, m, a - 1) <= Merged(R, m, g, a - 1) /\ Merged(R, m, g, a - 1) \in Nat
  BY <1>1, <1>4, MergedType
<1>7. Best(R, m, a - 1) \in Nat /\ Best(R, m, a) \in Nat /\ Best(R, m + 1, g - 1) \in Nat /\ Best(R, m, f - 1) \in Nat
  BY <1>1, <1>4, BestType
<1>8. Best(R, m, a - 1) < l
  BY <1>5, <1>6, <1>7
<1>9. l <= Best(R, m, a)
  <2>1. Merged(R, m, g, a) = IF Best(R, m, a) >= Best(R, m + 1, g - 1) THEN Best(R, m, a) ELSE Best(R, m + 1, g - 1)
    BY <1>1, <1>4 DEF Merged
  <2>2. QED
    BY <1>5, <1>7, <2>1 DEF Ends
<1>10. Best(R, m + 1, f - 1) = IF Best(R, m, f - 1) >= Best(R, m + 1, g) THEN Best(R, m, f - 1)
                                    ELSE Best(R, m + 1, g)
  BY <1>1, NextMateLast
<1>11. Behind(R, m, f, l, a) /\ l <= Best(R, m + 1, f - 1)
  BY <1>2, <1>7, <1>8, <1>9, <1>10 DEF Behind
<1>12. QED
  BY <1>3, <1>11

-----------------------------------------------------------------------------
(* The files that are compared, and what prune leaves of them.             *)

Hashed == file \in Seq(Int) \X Seq(Int)

\* The types of the hashes.
LEMMA HashedIs ==
  ASSUME Hashed
  PROVE  /\ len(1) \in Nat /\ len(2) \in Nat
         /\ file[1] \in Seq(Int) /\ file[2] \in Seq(Int)
         /\ \A n \in 1 .. len(1) : file[1][n] \in Int
         /\ \A n \in 1 .. len(2) : file[2][n] \in Int
  BY DEF Hashed, len

\* The files are the common beginning, the middle and the common end.
LEMMA PrunedIs ==
  ASSUME Hashed, Pruned
  PROVE  /\ pref \in Nat /\ suff \in Nat /\ slen(1) \in Nat /\ slen(2) \in Nat
         /\ len(1) = pref + slen(1) + suff /\ len(2) = pref + slen(2) + suff
<1>1. len(1) \in Nat /\ len(2) \in Nat
  BY HashedIs
<1>2. QED
  BY <1>1 DEF Pruned, slen

\* Min of a set of naturals is its least element.
LEMMA MinIs ==
  ASSUME NEW S \in SUBSET Nat, S # {}
  PROVE  Min(S) \in S /\ \A n \in S : Min(S) <= n
<1>1. \E n \in S : \A m \in S : n <= m
  BY LeastNat
<1>2. QED
  BY <1>1 DEF Min

\* A longest common subsequence of the files holds their common beginning and
\* end.
LEMMA PrunedLongest ==
  ASSUME Hashed, Pruned
  PROVE  Longest(file[1], file[2]) = pref + Best(Middle, slen(1), slen(2)) + suff
<1>. DEFINE R == Twins(file[1], file[2])
            Q == {p \in Places : p[1] # 0 /\ p[2] # 0 /\ <<pref + p[1], pref + p[2]>> \in R}
<1>1. PICK a, b, c, d : a = pref /\ b = suff /\ c = slen(1) /\ d = slen(2)
  OBVIOUS
<1>2. a \in Nat /\ b \in Nat /\ c \in Nat /\ d \in Nat /\ len(1) = a + c + b /\ len(2) = a + d + b
  BY <1>1, PrunedIs
<1>3. Len(file[1]) \in Nat /\ Len(file[2]) \in Nat /\ Len(file[1]) = a + c + b /\ Len(file[2]) = a + d + b
  BY <1>2 DEF len
<1>4. Longest(file[1], file[2]) = Best(R, Len(file[1]), Len(file[2]))
  BY <1>3, LongestTwins
<1>5. \A m, n \in Nat : <<m, n>> \in R <=> m \in 1 .. a + c + b /\ n \in 1 .. a + d + b /\ file[1][m] = file[2][n]
  BY <1>3 DEF Twins, Places
<1>6. \A h \in 1 .. a : file[1][h] = file[2][h]
  BY <1>1 DEF Pruned
<1>7. \A h \in 1 .. b : file[1][a + c + h] = file[2][a + d + h]
  BY <1>1 DEF Pruned
<1>8. \A m, n \in Nat \ {0} : <<m, n>> \in Q <=> <<a + m, a + n>> \in R
  BY <1>1 DEF Places
<1>9. ASSUME NEW m \in 1 .. c, NEW n \in 1 .. d PROVE <<m, n>> \in Q <=> <<m, n>> \in Middle
  <2>1. m \in Nat \ {0} /\ n \in Nat \ {0} /\ a + m \in Nat /\ a + n \in Nat
        /\ a + m \in 1 .. a + c + b /\ a + n \in 1 .. a + d + b
    BY <1>2
  <2>2. <<m, n>> \in Q <=> file[1][a + m] = file[2][a + n]
    BY <1>5, <1>8, <2>1
  <2>3. <<m, n>> \in Middle <=> file[1][a + m] = file[2][a + n]
    BY <1>1, <2>1 DEF Middle, Places
  <2>4. QED
    BY <2>2, <2>3
<1>. HIDE DEF R, Q
<1>10. \A h \in 1 .. a : <<h, h>> \in R
  <2>1. SUFFICES ASSUME NEW h \in 1 .. a PROVE <<h, h>> \in R
    OBVIOUS
  <2>2. h \in Nat /\ h \in 1 .. a + c + b /\ h \in 1 .. a + d + b
    BY <1>2
  <2>3. QED
    BY <1>5, <1>6, <2>2
<1>11. \A h \in 1 .. b : <<(a + c) + h, (a + d) + h>> \in R
  <2>1. SUFFICES ASSUME NEW h \in 1 .. b PROVE <<(a + c) + h, (a + d) + h>> \in R
    OBVIOUS
  <2>2. a + c + h \in Nat /\ a + d + h \in Nat /\ a + c + h \in 1 .. a + c + b /\ a + d + h \in 1 .. a + d + b
    BY <1>2
  <2>3. QED
    BY <1>5, <1>7, <2>2
<1>12. a + c \in Nat /\ a + d \in Nat
  BY <1>2
<1>13. Best(R, (a + c) + b, (a + d) + b) = Best(R, a + c, a + d) + b
  BY <1>2, <1>11, <1>12, BestOfEnds
<1>14. Best(R, a + c, a + d) = a + Best(Q, c, d)
  <2>1. Shifted(R, Q, a)
    BY <1>8, <1>10 DEF Shifted
  <2>2. QED
    BY <1>2, <2>1, BestOfStarts
<1>15. Best(Q, c, d) = Best(Middle, c, d)
  BY <1>2, <1>9, BestLocal
<1>16. Longest(file[1], file[2]) = a + Best(Middle, c, d) + b
  BY <1>3, <1>4, <1>13, <1>14, <1>15
<1>17. QED
  BY <1>1, <1>16

\* LongestTo is the length in the table of the middle.
LEMMA LongestToIs ==
  ASSUME Hashed, Pruned, NEW m \in 0 .. slen(1), NEW n \in 0 .. slen(2)
  PROVE  LongestTo(m, n) = Best(Middle, m, n)
<1>. DEFINE s == SubSeq(file[1], pref + 1, pref + m)
            t == SubSeq(file[2], pref + 1, pref + n)
<1>1. pref \in Nat /\ slen(1) \in Nat /\ slen(2) \in Nat /\ m \in Nat /\ n \in Nat
      /\ m <= slen(1) /\ n <= slen(2)
  BY PrunedIs
<1>2. s = [h \in 1 .. m |-> file[1][pref + h]] /\ t = [h \in 1 .. n |-> file[2][pref + h]]
  <2>1. (pref + m) - (pref + 1) + 1 = m /\ (pref + n) - (pref + 1) + 1 = n
    BY <1>1
  <2>2. \A h \in 1 .. m : h + (pref + 1) - 1 = pref + h
    BY <1>1
  <2>3. \A h \in 1 .. n : h + (pref + 1) - 1 = pref + h
    BY <1>1
  <2>4. s = [h \in 1 .. m |-> file[1][pref + h]]
    BY <1>1, <2>1, <2>2
  <2>5. t = [h \in 1 .. n |-> file[2][pref + h]]
    BY <1>1, <2>1, <2>3
  <2>6. QED
    BY <2>4, <2>5
<1>3. Len(s) = m /\ Len(t) = n
  <2>1. s \in Seq(Int) /\ t \in Seq(Int)
    <3>1. file[1] \in Seq(Int) /\ file[2] \in Seq(Int) /\ len(1) \in Nat /\ len(2) \in Nat
      BY HashedIs
    <3>2. pref + m <= len(1) /\ pref + n <= len(2)
      <4>1. suff \in Nat /\ len(1) = pref + slen(1) + suff /\ len(2) = pref + slen(2) + suff
        BY PrunedIs
      <4>2. QED
        BY <1>1, <4>1
    <3>3. \A h \in 1 .. m : file[1][pref + h] \in Int
      <4>1. \A h \in 1 .. m : pref + h \in 1 .. len(1)
        BY <1>1, <3>1, <3>2
      <4>2. QED
        BY <4>1, HashedIs
    <3>4. \A h \in 1 .. n : file[2][pref + h] \in Int
      <4>1. \A h \in 1 .. n : pref + h \in 1 .. len(2)
        BY <1>1, <3>1, <3>2
      <4>2. QED
        BY <4>1, HashedIs
    <3>. HIDE DEF s, t
    <3>5. QED
      BY <1>1, <1>2, <3>3, <3>4
  <2>. HIDE DEF s, t
  <2>2. QED
    BY <1>1, <1>2, <2>1
<1>4. ASSUME NEW a \in 1 .. m, NEW b \in 1 .. n PROVE <<a, b>> \in Middle <=> s[a] = t[b]
  <2>1. a \in Nat /\ b \in Nat /\ a \in 1 .. slen(1) /\ b \in 1 .. slen(2)
    BY <1>1
  <2>2. s[a] = file[1][pref + a] /\ t[b] = file[2][pref + b]
    BY <1>2
  <2>. HIDE DEF s, t
  <2>3. QED
    BY <2>1, <2>2 DEF Middle, Places
<1>5. Longest(s, t) = Best(Middle, Len(s), Len(t))
  <2>1. Len(s) \in Nat /\ Len(t) \in Nat
    BY <1>1, <1>3
  <2>2. \A a \in 1 .. Len(s), b \in 1 .. Len(t) : <<a, b>> \in Middle <=> s[a] = t[b]
    BY <1>3, <1>4
  <2>. HIDE DEF s, t
  <2>3. QED
    BY <2>1, <2>2, LongestIs
<1>6. QED
  BY <1>3, <1>5 DEF LongestTo

\* prune finds what the files have in common at the beginning and the end.
LEMMA PruneGives ==
  ASSUME Hashed, Prune
  PROVE  Hashed' /\ Pruned'
<1>. DEFINE p == CommonStart(file[1], file[2])
            s == SubSeq(file[1], p + 1, len(1))
            t == SubSeq(file[2], p + 1, len(2))
            q == CommonStart(Reverse(s), Reverse(t))
<1>1. pref' = p /\ suff' = q /\ file' = file
  BY DEF Prune
<1>2. len(1) \in Nat /\ len(2) \in Nat /\ file[1] \in Seq(Int) /\ file[2] \in Seq(Int)
      /\ len(1) = Len(file[1]) /\ len(2) = Len(file[2])
  BY HashedIs DEF len
<1>3. /\ p \in 0 .. len(1) /\ p <= len(2)
      /\ \A n \in 1 .. p : file[1][n] = file[2][n]
  BY <1>2, CommonStartIs
<1>. HIDE DEF p
<1>4. p \in Nat /\ p <= len(1) /\ p <= len(2)
  BY <1>2, <1>3
<1>5. /\ Len(s) = len(1) - p /\ s \in Seq(Int)
      /\ \A n \in 1 .. len(1) - p : s[n] = file[1][p + n]
  <2>1. s = [n \in 1 .. len(1) - p |-> file[1][p + n]]
    <3>1. \A n \in 1 .. len(1) - p : n + (p + 1) - 1 = p + n
      BY <1>2, <1>4
    <3>2. len(1) - (p + 1) + 1 = len(1) - p
      BY <1>2, <1>4
    <3>3. QED
      BY <1>2, <1>4, <3>1, <3>2
  <2>2. \A n \in 1 .. len(1) - p : p + n \in 1 .. len(1)
    BY <1>2, <1>4
  <2>3. \A n \in 1 .. len(1) - p : file[1][p + n] \in Int
    BY <2>2, HashedIs
  <2>4. len(1) - p \in Nat
    BY <1>2, <1>4
  <2>. HIDE DEF s
  <2>5. s \in Seq(Int)
    BY <2>1, <2>3, <2>4
  <2>6. QED
    BY <2>1, <2>4, <2>5
<1>6. /\ Len(t) = len(2) - p /\ t \in Seq(Int)
      /\ \A n \in 1 .. len(2) - p : t[n] = file[2][p + n]
  <2>1. t = [n \in 1 .. len(2) - p |-> file[2][p + n]]
    <3>1. \A n \in 1 .. len(2) - p : n + (p + 1) - 1 = p + n
      BY <1>2, <1>4
    <3>2. len(2) - (p + 1) + 1 = len(2) - p
      BY <1>2, <1>4
    <3>3. QED
      BY <1>2, <1>4, <3>1, <3>2
  <2>2. \A n \in 1 .. len(2) - p : p + n \in 1 .. len(2)
    BY <1>2, <1>4
  <2>3. \A n \in 1 .. len(2) - p : file[2][p + n] \in Int
    BY <2>2, HashedIs
  <2>4. len(2) - p \in Nat
    BY <1>2, <1>4
  <2>. HIDE DEF t
  <2>5. t \in Seq(Int)
    BY <2>1, <2>3, <2>4
  <2>6. QED
    BY <2>1, <2>4, <2>5
<1>. HIDE DEF s, t
<1>7. /\ Len(Reverse(s)) = len(1) - p /\ \A n \in 1 .. len(1) - p : Reverse(s)[n] = s[(len(1) - p - n) + 1]
      /\ Len(Reverse(t)) = len(2) - p /\ \A n \in 1 .. len(2) - p : Reverse(t)[n] = t[(len(2) - p - n) + 1]
  <2>1. len(1) - p \in Nat /\ len(2) - p \in Nat
    BY <1>2, <1>4
  <2>2. Reverse(s) = [n \in 1 .. len(1) - p |-> s[(len(1) - p - n) + 1]]
    BY <1>5 DEF Reverse
  <2>3. Reverse(t) = [n \in 1 .. len(2) - p |-> t[(len(2) - p - n) + 1]]
    BY <1>6 DEF Reverse
  <2>4. \A n \in 1 .. len(1) - p : (len(1) - p - n) + 1 \in 1 .. len(1) - p
    BY <2>1
  <2>5. \A n \in 1 .. len(2) - p : (len(2) - p - n) + 1 \in 1 .. len(2) - p
    BY <2>1
  <2>6. \A n \in 1 .. len(1) - p : s[(len(1) - p - n) + 1] \in Int
    BY <1>5, <2>1, <2>4, ElementOfSeq
  <2>7. \A n \in 1 .. len(2) - p : t[(len(2) - p - n) + 1] \in Int
    BY <1>6, <2>1, <2>5, ElementOfSeq
  <2>8. Reverse(s) \in Seq(Int) /\ Reverse(t) \in Seq(Int)
    <3>1. [n \in 1 .. len(1) - p |-> s[(len(1) - p - n) + 1]] \in Seq(Int)
      BY <2>1, <2>6
    <3>2. [n \in 1 .. len(2) - p |-> t[(len(2) - p - n) + 1]] \in Seq(Int)
      BY <2>1, <2>7
    <3>3. QED
      BY <2>2, <2>3, <3>1, <3>2
  <2>9. QED
    BY <2>1, <2>2, <2>3, <2>8
<1>8. /\ q \in 0 .. len(1) - p /\ q <= len(2) - p
      /\ \A n \in 1 .. q : Reverse(s)[n] = Reverse(t)[n]
  <2>1. len(1) - p \in Nat /\ len(2) - p \in Nat
    BY <1>2, <1>4
  <2>2. Len(Reverse(s)) \in Nat /\ Len(Reverse(t)) \in Nat
    BY <1>7, <2>1
  <2>3. PICK u, v : u = Reverse(s) /\ v = Reverse(t)
    OBVIOUS
  <2>4. /\ CommonStart(u, v) \in 0 .. Len(u) /\ CommonStart(u, v) <= Len(v)
        /\ \A n \in 1 .. CommonStart(u, v) : u[n] = v[n]
    BY <2>2, <2>3, CommonStartIs
  <2>5. QED
    BY <1>7, <2>3, <2>4
<1>. HIDE DEF q
<1>9. q \in Nat /\ p + q <= len(1) /\ p + q <= len(2)
  BY <1>2, <1>4, <1>8
<1>10. ASSUME NEW n \in 1 .. q
       PROVE  file[1][p + (len(1) - p - q) + n] = file[2][p + (len(2) - p - q) + n]
  <2>1. PICK h : h = q - n + 1
    OBVIOUS
  <2>8. PICK a, b : a = len(1) /\ b = len(2)
    OBVIOUS
  <2>9. a \in Nat /\ b \in Nat /\ p + q <= a /\ p + q <= b
    BY <1>2, <1>9, <2>8
  <2>10. /\ h \in 1 .. q /\ h \in 1 .. a - p /\ h \in 1 .. b - p
         /\ (a - p - h) + 1 \in 1 .. a - p /\ (b - p - h) + 1 \in 1 .. b - p
         /\ p + ((a - p - h) + 1) = p + (a - p - q) + n
         /\ p + ((b - p - h) + 1) = p + (b - p - q) + n
    BY <1>4, <1>9, <2>1, <2>9
  <2>2. /\ h \in 1 .. q /\ h \in 1 .. len(1) - p /\ h \in 1 .. len(2) - p
        /\ (len(1) - p - h) + 1 \in 1 .. len(1) - p /\ (len(2) - p - h) + 1 \in 1 .. len(2) - p
        /\ p + ((len(1) - p - h) + 1) = p + (len(1) - p - q) + n
        /\ p + ((len(2) - p - h) + 1) = p + (len(2) - p - q) + n
    BY <2>8, <2>10
  <2>3. Reverse(s)[h] = s[(len(1) - p - h) + 1] /\ Reverse(t)[h] = t[(len(2) - p - h) + 1]
    BY <1>7, <2>2
  <2>4. s[(len(1) - p - h) + 1] = file[1][p + ((len(1) - p - h) + 1)]
    BY <1>5, <2>2
  <2>5. t[(len(2) - p - h) + 1] = file[2][p + ((len(2) - p - h) + 1)]
    BY <1>6, <2>2
  <2>6. Reverse(s)[h] = Reverse(t)[h]
    BY <1>8, <2>2
  <2>7. QED
    BY <2>2, <2>3, <2>4, <2>5, <2>6
<1>11. QED
  BY <1>1, <1>3, <1>4, <1>9, <1>10 DEF Pruned, Hashed, slen, len

-----------------------------------------------------------------------------
(* The loops of stone.                                                     *)

Stone == Pruned /\ InRow /\ Candidates /\ Ranked /\ Thresholds /\ Earliest /\ Replaced

\* What depends only on the texts and their common ends stays with them.
LEMMA SameInput ==
  ASSUME UNCHANGED input
  PROVE  /\ Middle' = Middle /\ slen(1)' = slen(1) /\ slen(2)' = slen(2)
         /\ len(1)' = len(1) /\ len(2)' = len(2)
         /\ pref' = pref /\ suff' = suff /\ file' = file /\ text' = text
         /\ Hashed => Hashed'
         /\ Pruned => Pruned'
         /\ \A n : Mates(n)' = Mates(n)
  BY DEF input, Middle, slen, len, Hashed, Pruned, Mates

\* The types of the candidates.
LEMMA StoneTypes ==
  ASSUME Hashed, Pruned, InRow, Candidates, Ranked
  PROVE  /\ k \in Nat /\ Len(klist) = k + 1 /\ klist \in Seq(Nat)
         /\ Len(clist) \in Nat \ {0}
         /\ \A l \in 0 .. k : Klist(l) \in 1 .. Len(clist)
         /\ Klist(0) = 1 /\ y(1) = 0 /\ clist[1].x = 0
         /\ \A d \in 1 .. Len(clist) : clist[d].x \in 0 .. i /\ y(d) \in 0 .. slen(2)
         /\ i \in Nat /\ i <= slen(1) /\ slen(1) \in Nat /\ slen(2) \in Nat
<1>1. slen(1) \in Nat /\ slen(2) \in Nat
  BY PrunedIs
<1>2. i \in Nat /\ i <= slen(1)
  BY <1>1 DEF InRow
<1>3. Len(clist) \in Nat \ {0}
  BY DEF Candidates
<1>4. klist \in Seq(1 .. Len(clist)) /\ klist # <<>> /\ klist[1] = 1
  BY DEF Ranked
<1>5. Len(klist) \in Nat \ {0} /\ k = Len(klist) - 1
  BY <1>4 DEF k
<1>6. klist \in Seq(Nat)
  BY <1>3, <1>4
<1>7. \A l \in 0 .. k : Klist(l) \in 1 .. Len(clist)
  <2>1. \A l \in 0 .. k : l + 1 \in 1 .. Len(klist)
    BY <1>5
  <2>2. QED
    BY <1>4, <2>1 DEF Klist
<1>8. Klist(0) = 1 /\ y(1) = 0 /\ clist[1].x = 0
  BY <1>4 DEF Klist, Candidates, y
<1>9. ASSUME NEW d \in 1 .. Len(clist) PROVE clist[d].x \in 0 .. i /\ y(d) \in 0 .. slen(2)
  <2>1. CASE d = 1
    BY <1>1, <1>2, <1>8, <2>1
  <2>2. CASE d # 1
    <3>1. d \in 2 .. Len(clist)
      BY <1>3, <2>2
    <3>2. clist[d].x \in 1 .. i /\ y(d) \in 1 .. slen(2)
      BY <3>1 DEF Candidates
    <3>3. QED
      BY <1>1, <1>2, <3>2
  <2>3. QED
    BY <2>1, <2>2
<1>10. \A d \in 1 .. Len(clist) : clist[d].x \in 0 .. i /\ y(d) \in 0 .. slen(2)
  BY <1>9
<1>11. k \in Nat /\ Len(klist) = k + 1
  BY <1>5
<1>12. QED
  BY <1>1, <1>2, <1>3, <1>6, <1>7, <1>8, <1>10, <1>11

\* Mates are the equal lines of the middle.
LEMMA MatesIs ==
  ASSUME Hashed, Pruned, NEW n \in 1 .. slen(1)
  PROVE  /\ Mates(n) \in SUBSET Nat /\ Mates(n) \subseteq 1 .. slen(2)
         /\ \A h \in Nat : h \in Mates(n) <=> <<n, h>> \in Middle
<1>1. slen(1) \in Nat /\ slen(2) \in Nat
  BY PrunedIs
<1>2. n \in Nat
  BY <1>1
<1>3. QED
  BY <1>1, <1>2 DEF Mates, Middle, Places

\* Where a line of file 0 begins, it has changed nothing yet.
AllMates(R, m, c, M) ==
    M \in SUBSET (1 .. c) /\ \A h \in 1 .. c : <<m, h>> \in R => h \in M

\* With all mates of a line to be tried, the row reached is the one above.
LEMMA ReachedStart ==
  ASSUME NEW R, NEW m \in Nat, NEW c \in Nat, NEW M, AllMates(R, m + 1, c, M)
  PROVE  /\ \A n \in 0 .. c : Reached(R, m + 1, M, n) = Best(R, m, n)
         /\ M # {} => Min(M) \in M /\ Best(R, m + 1, Min(M) - 1) = Best(R, m, Min(M) - 1)
<1>0. M \in SUBSET (1 .. c) /\ \A h \in 1 .. c : <<m + 1, h>> \in R => h \in M
  BY DEF AllMates
<1>1. CASE M = {}
  <2>1. SUFFICES ASSUME NEW n \in 0 .. c PROVE Best(R, m + 1, n) = Best(R, m, n)
    BY <1>1 DEF Reached
  <2>2. n \in Nat /\ n + 1 \in Nat \ {0} /\ (n + 1) - 1 = n
    OBVIOUS
  <2>3. \A h \in 1 .. (n + 1) - 1 : <<m + 1, h>> \notin R
    BY <1>0, <1>1, <2>2
  <2>4. Best(R, m + 1, (n + 1) - 1) = Best(R, m, (n + 1) - 1)
    BY <2>2, <2>3, MergedStart
  <2>5. QED
    BY <2>2, <2>4
<1>2. CASE M # {}
  <2>1. M \in SUBSET Nat
    BY <1>0
  <2>2. PICK g : g = Min(M)
    OBVIOUS
  <2>3. g \in M /\ \A h \in M : g <= h
    BY <1>2, <2>1, <2>2, MinIs
  <2>4. g \in Nat \ {0} /\ g <= c
    BY <1>0, <2>3
  <2>5. \A h \in 1 .. g - 1 : <<m + 1, h>> \notin R
    <3>1. SUFFICES ASSUME NEW h \in 1 .. g - 1, <<m + 1, h>> \in R PROVE FALSE
      OBVIOUS
    <3>2. h \in 1 .. c /\ ~(g <= h)
      BY <2>4
    <3>3. QED
      BY <1>0, <2>3, <3>1, <3>2
  <2>6. \A n \in Nat : Merged(R, m, g, n) = Best(R, m, n) /\ Best(R, m + 1, g - 1) = Best(R, m, g - 1)
    BY <2>4, <2>5, MergedStart
  <2>7. (m + 1) - 1 = m /\ 0 \in Nat
    OBVIOUS
  <2>8. ASSUME NEW n \in 0 .. c PROVE Reached(R, m + 1, M, n) = Best(R, m, n)
    <3>1. Reached(R, m + 1, M, n) = Merged(R, (m + 1) - 1, Min(M), n)
      BY <1>2 DEF Reached
    <3>2. Merged(R, m, g, n) = Best(R, m, n)
      BY <2>6
    <3>3. QED
      BY <2>2, <2>7, <3>1, <3>2
  <2>9. QED
    BY <2>2, <2>3, <2>6, <2>7, <2>8
<1>3. QED
  BY <1>1, <1>2

\* StoneLine keeps the invariant.
LEMMA StoneLineInv ==
  ASSUME Hashed, Stone, StoneLine
  PROVE  Hashed' /\ Stone'
<1>1. /\ mates = {} /\ i < slen(1) /\ i' = i + 1 /\ mates' = Mates(i + 1)
      /\ oldl' = 0 /\ oldc' = Klist(0)
      /\ UNCHANGED input /\ clist' = clist /\ klist' = klist
  BY DEF StoneLine
<1>2. /\ Middle' = Middle /\ slen(1)' = slen(1) /\ slen(2)' = slen(2)
      /\ Hashed' /\ Pruned' /\ \A n : Mates(n)' = Mates(n)
  BY <1>1, SameInput DEF Stone
<1>3. /\ k \in Nat /\ Len(klist) = k + 1 /\ klist \in Seq(Nat)
      /\ Len(clist) \in Nat \ {0}
      /\ \A l \in 0 .. k : Klist(l) \in 1 .. Len(clist)
      /\ Klist(0) = 1 /\ y(1) = 0 /\ clist[1].x = 0
      /\ \A d \in 1 .. Len(clist) : clist[d].x \in 0 .. i /\ y(d) \in 0 .. slen(2)
      /\ i \in Nat /\ i <= slen(1) /\ slen(1) \in Nat /\ slen(2) \in Nat
  BY StoneTypes DEF Stone
<1>4. i + 1 \in 1 .. slen(1)
  BY <1>1, <1>3
<1>5. /\ Mates(i + 1) \in SUBSET Nat /\ Mates(i + 1) \subseteq 1 .. slen(2)
      /\ \A h \in Nat : h \in Mates(i + 1) <=> <<i + 1, h>> \in Middle
  BY <1>4, MatesIs DEF Stone
<1>6. k' = k /\ \A l : Klist(l)' = Klist(l) /\ y(l)' = y(l) /\ Level(l)' = Level(l)
  BY <1>1, <1>2 DEF k, Klist, y, Level
<1>7. InRow'
  BY <1>1, <1>2, <1>4, <1>3 DEF InRow
<1>8. Candidates'
  <2>1. ASSUME NEW d \in 2 .. Len(clist) PROVE clist[d].x \in 1 .. i + 1
    <3>1. clist[d].x \in 1 .. i
      BY DEF Stone, Candidates
    <3>2. QED
      BY <1>3, <3>1
  <2>2. QED
    BY <1>1, <1>2, <1>6, <2>1 DEF Stone, Candidates
<1>9. Ranked'
  BY <1>1, <1>6 DEF Stone, Ranked
<1>10. PICK M, c, R : M = Mates(i + 1) /\ c = slen(2) /\ R = Middle
  OBVIOUS
<1>11. /\ \A n \in 0 .. c : Reached(R, i + 1, M, n) = Best(R, i, n)
       /\ M # {} => Min(M) \in M /\ Best(R, i + 1, Min(M) - 1) = Best(R, i, Min(M) - 1)
  <2>1. AllMates(R, i + 1, c, M)
    BY <1>5, <1>10 DEF AllMates
  <2>2. i \in Nat /\ c \in Nat
    BY <1>3, <1>10
  <2>3. QED
    BY <2>1, <2>2, ReachedStart
<1>12. \A n \in 0 .. slen(2) : Now(n)' = Now(n)
  <2>1. \A n : Now(n)' = Reached(R, i + 1, M, n)
    BY <1>1, <1>2, <1>10 DEF Now
  <2>2. \A n : Now(n) = Best(R, i, n)
    BY <1>1, <1>10 DEF Now, Reached
  <2>3. QED
    BY <1>10, <1>11, <2>1, <2>2
<1>13. Thresholds'
  BY <1>2, <1>6, <1>12 DEF Stone, Thresholds
<1>14. Earliest'
  BY <1>1, <1>2, <1>6 DEF Stone, Earliest
<1>15. Replaced'
  <2>1. SUFFICES ASSUME M # {} PROVE Replaced'
    BY <1>1, <1>10 DEF Replaced
  <2>2. PICK g : g = Min(M)
    OBVIOUS
  <2>3. g \in Nat /\ g > 0 /\ g - 1 \in Nat /\ Best(Middle, i + 1, g - 1) = Best(Middle, i, g - 1)
    BY <1>5, <1>10, <1>11, <2>1, <2>2
  <2>4. Best(Middle, i, g - 1) \in Nat
    BY <1>3, <2>3, BestType
  <2>5. 0 \in 0 .. k /\ Klist(0) \in 1 .. Len(clist) /\ ~(y(Klist(0)) >= g) /\ Level(Klist(0)) = 0
    <3>1. 0 \in 0 .. k
      BY <1>3
    <3>2. Level(Klist(0)) = 0
      BY <3>1 DEF Stone, Ranked
    <3>3. QED
      BY <1>3, <2>3, <3>1, <3>2
  <2>6. \A l \in 0 + 1 .. k : clist[Klist(l)].x < i + 1
    <3>1. \A l \in 0 + 1 .. k : Klist(l) \in 1 .. Len(clist)
      BY <1>3
    <3>2. \A d \in 1 .. Len(clist) : clist[d].x < i + 1
      BY <1>3
    <3>3. QED
      BY <3>1, <3>2
  <2>7. clist[Klist(0)].x < i + 1
    BY <1>3
  <2>8. (i + 1) - 1 = i
    BY <1>3
  <2>9. /\ oldl' \in 0 .. k' /\ oldc' \in 1 .. Len(clist')
        /\ oldl' <= Best(Middle', i', Min(mates') - 1)
        /\ \A l \in oldl' + 1 .. k' : clist'[Klist(l)'].x < i'
        /\ Level(Klist(0))' = oldl' /\ clist'[oldc'].x < i'
        /\ ~(y(Klist(0))' >= Min(mates'))
        /\ Best(Middle', i', Min(mates') - 1) = Best(Middle', i' - 1, Min(mates') - 1)
    <3>1. Min(mates') = g
      BY <1>1, <1>10, <2>2
    <3>2. QED
      BY <1>1, <1>2, <1>6, <2>3, <2>4, <2>5, <2>6, <2>7, <2>8, <3>1
  <2>10. Level(oldc)' = Level(Klist(0))' /\ y(oldc)' = y(Klist(0))'
    <3>1. Klist(0)' = Klist(0)
      BY <1>6
    <3>2. QED
      BY <1>1, <3>1 DEF Level, y
  <2>11. QED
    BY <2>9, <2>10 DEF Replaced
<1>16. QED
  BY <1>2, <1>7, <1>8, <1>9, <1>13, <1>14, <1>15 DEF Stone

-----------------------------------------------------------------------------
(* The mate that is tried.                                                 *)

Mate == Min(mates)
Later == mates \ {Mate}
Upcoming == IF Later = {} THEN slen(2) + 1 ELSE Min(Later)
Row == [h \in 0 .. k |-> y(Klist(h))]
Above == i - 1

\* The mate that is tried now, and the one after it.
LEMMA MateIs ==
  ASSUME Hashed, Stone, mates # {}
  PROVE  /\ i \in Nat \ {0} /\ Above \in Nat /\ Above + 1 = i /\ i \in 1 .. slen(1)
         /\ Mate \in mates /\ Mate \in Nat \ {0} /\ Mate <= slen(2) /\ <<i, Mate>> \in Middle
         /\ slen(2) \in Nat
         /\ Upcoming \in Nat /\ Upcoming <= slen(2) + 1
         /\ NextMate(Middle, Above, Mate, Upcoming)
         /\ Later # {} => Min(Later) = Upcoming
         /\ Later \subseteq Mates(i) /\ \A m \in Later, h \in Mates(i) : m < h => h \in Later
<1>1. /\ i \in 0 .. slen(1) /\ i # 0 /\ mates \subseteq Mates(i)
      /\ \A m \in mates, h \in Mates(i) : m < h => h \in mates
  BY DEF Stone, InRow
<1>2. slen(1) \in Nat /\ slen(2) \in Nat
  BY PrunedIs DEF Stone
<1>3. i \in Nat \ {0} /\ i - 1 \in Nat /\ (i - 1) + 1 = i /\ i \in 1 .. slen(1)
  BY <1>1, <1>2
<1>4. /\ Mates(i) \in SUBSET Nat /\ Mates(i) \subseteq 1 .. slen(2)
      /\ \A h \in Nat : h \in Mates(i) <=> <<i, h>> \in Middle
  BY <1>3, MatesIs DEF Stone
<1>5. PICK g : g = Mate
  OBVIOUS
<1>6. g \in mates /\ \A h \in mates : g <= h
  <2>1. mates \in SUBSET Nat
    BY <1>1, <1>4
  <2>2. QED
    BY <1>5, <2>1, MinIs DEF Mate
<1>7. g \in Nat \ {0} /\ g <= slen(2) /\ <<i, g>> \in Middle
  <2>1. g \in 1 .. slen(2) /\ g \in Mates(i)
    BY <1>1, <1>4, <1>6
  <2>2. g \in Nat
    BY <1>2, <2>1
  <2>3. QED
    BY <1>2, <1>4, <2>1, <2>2
<1>8. Later \subseteq Mates(i) /\ Later \in SUBSET Nat /\ Later \subseteq 1 .. slen(2)
      /\ \A h \in mates : h # g => h \in Later
  BY <1>1, <1>4, <1>5 DEF Later
<1>9. \A m \in Later, h \in Mates(i) : m < h => h \in Later
  <2>1. SUFFICES ASSUME NEW m \in Later, NEW h \in Mates(i), m < h PROVE h \in Later
    OBVIOUS
  <2>2. m \in mates /\ h \in mates
    BY <1>1, <2>1 DEF Later
  <2>3. g <= m /\ m \in Nat /\ h \in Nat /\ g \in Nat
    BY <1>4, <1>6, <1>7, <1>8, <2>1, <2>2
  <2>4. h # g
    BY <2>1, <2>3
  <2>5. QED
    BY <1>8, <2>2, <2>4
<1>10. PICK f : f = Upcoming
  OBVIOUS
<1>11. /\ f \in Nat /\ f <= slen(2) + 1 /\ g < f
       /\ \A h \in Later : f <= h
  <2>1. CASE Later = {}
    BY <1>2, <1>7, <1>10, <2>1 DEF Upcoming
  <2>2. CASE Later # {}
    <3>1. f = Min(Later)
      BY <1>10, <2>2 DEF Upcoming
    <3>2. f \in Later /\ \A h \in Later : f <= h
      BY <1>8, <2>2, <3>1, MinIs
    <3>3. f \in Nat /\ f <= slen(2) /\ g <= f /\ f # g
      BY <1>2, <1>5, <1>6, <1>8, <3>2 DEF Later
    <3>4. QED
      BY <1>2, <1>7, <3>2, <3>3
  <2>3. QED
    BY <2>1, <2>2
<1>12. \A h \in g + 1 .. f - 1 : <<i, h>> \notin Middle
  <2>1. SUFFICES ASSUME NEW h \in g + 1 .. f - 1, <<i, h>> \in Middle PROVE FALSE
    OBVIOUS
  <2>2. h \in Nat /\ g < h /\ ~(f <= h)
    BY <1>7, <1>11
  <2>3. h \in Mates(i)
    BY <1>4, <2>1, <2>2
  <2>4. h \in mates
    BY <1>1, <1>6, <2>2, <2>3
  <2>5. h \in Later
    BY <1>7, <1>8, <2>2, <2>4
  <2>6. QED
    BY <1>11, <2>2, <2>5
<1>13. NextMate(Middle, Above, g, f)
  BY <1>3, <1>7, <1>11, <1>12 DEF NextMate, Above
<1>14. Later # {} => Min(Later) = Upcoming
  BY DEF Upcoming
<1>15. Above \in Nat /\ Above + 1 = i
  BY <1>3 DEF Above
<1>16. QED
  BY <1>2, <1>3, <1>5, <1>6, <1>7, <1>8, <1>9, <1>10, <1>11, <1>13, <1>14, <1>15

\* What the invariant says of the row.
LEMMA RowIs ==
  ASSUME Hashed, Stone, mates # {}
  PROVE  /\ Rows(Middle, Above, Mate, slen(2), k, Row)
         /\ \A l \in 0 .. k : Row[l] = y(Klist(l)) /\ Row[l] \in 0 .. slen(2)
         /\ Behind(Middle, Above, Mate, oldl, y(oldc))
         /\ oldl \in 0 .. k /\ oldl \in Nat /\ oldl <= Best(Middle, Above + 1, Mate - 1)
         /\ oldc \in 1 .. Len(clist) /\ y(oldc) \in 0 .. slen(2) /\ y(oldc) \in Nat
<1>1. /\ k \in Nat /\ slen(2) \in Nat
      /\ \A l \in 0 .. k : Klist(l) \in 1 .. Len(clist)
      /\ \A d \in 1 .. Len(clist) : clist[d].x \in 0 .. i /\ y(d) \in 0 .. slen(2)
  BY StoneTypes DEF Stone
<1>2. Above \in Nat /\ Above + 1 = i /\ Above = i - 1
  BY MateIs DEF Above
<1>3. \A l \in 0 .. k : Row[l] = y(Klist(l)) /\ Row[l] \in 0 .. slen(2)
  BY <1>1 DEF Row
<1>4. Row \in [0 .. k -> 0 .. slen(2)]
  BY <1>1 DEF Row
<1>5. \A n \in 0 .. slen(2) : Now(n) = Merged(Middle, Above, Mate, n)
  BY <1>2 DEF Now, Reached, Mate
<1>6. \A n \in 0 .. slen(2) :
        /\ Now(n) <= k
        /\ \A l \in 0 .. k : y(Klist(l)) <= n <=> l <= Now(n)
  BY DEF Stone, Thresholds
<1>7. Rows(Middle, Above, Mate, slen(2), k, Row)
  BY <1>3, <1>4, <1>5, <1>6 DEF Rows
<1>8. /\ oldl \in 0 .. k /\ oldc \in 1 .. Len(clist)
      /\ oldl <= Best(Middle, i, Mate - 1)
      /\ y(oldc) >= Mate => Best(Middle, Above, y(oldc) - 1) < oldl /\ oldl <= Best(Middle, Above, y(oldc))
      /\ Best(Middle, i, Mate - 1) # Best(Middle, Above, Mate - 1)
           => Best(Middle, i, Mate - 1) = oldl /\ oldl <= Best(Middle, Above, y(oldc))
  BY <1>2 DEF Stone, Replaced, Mate
<1>9. Behind(Middle, Above, Mate, oldl, y(oldc))
  BY <1>2, <1>8 DEF Behind
<1>10. oldl \in Nat /\ y(oldc) \in 0 .. slen(2) /\ y(oldc) \in Nat
  BY <1>1, <1>8
<1>11. QED
  BY <1>2, <1>3, <1>7, <1>8, <1>9, <1>10

\* What search finds.
LEMMA PlaceIs ==
  ASSUME Hashed, Stone, mates # {}, NEW l, l = Search(Mate)
  PROVE  /\ l \in 1 .. k + 1 /\ l \in Nat /\ k \in Nat
         /\ y(Klist(l - 1)) < Mate
         /\ l <= k => Mate <= y(Klist(l))
         /\ Mate > y(oldc) => Ends(Middle, Above, Mate, l)
<1>1. /\ k \in Nat /\ slen(2) \in Nat /\ Klist(0) = 1 /\ y(1) = 0
  BY StoneTypes DEF Stone
<1>2. /\ Above \in Nat /\ Mate \in Nat \ {0} /\ Mate <= slen(2)
  BY MateIs
<1>3. /\ Rows(Middle, Above, Mate, slen(2), k, Row)
      /\ \A h \in 0 .. k : Row[h] = y(Klist(h)) /\ Row[h] \in 0 .. slen(2)
      /\ Behind(Middle, Above, Mate, oldl, y(oldc)) /\ oldl \in Nat /\ y(oldc) \in Nat
  BY RowIs
<1>4. \A h \in 1 .. k : Row[h - 1] < Row[h]
  BY <1>1, <1>2, <1>3, RowsGrow
<1>5. \A h \in 1 .. k : y(Klist(h - 1)) < y(Klist(h))
  <2>1. SUFFICES ASSUME NEW h \in 1 .. k PROVE y(Klist(h - 1)) < y(Klist(h))
    OBVIOUS
  <2>2. h \in 0 .. k /\ h - 1 \in 0 .. k
    BY <1>1
  <2>3. QED
    BY <1>3, <1>4, <2>2
<1>6. \A h \in 0 .. k : y(Klist(h)) \in Nat
  BY <1>1, <1>3
<1>7. y(Klist(0)) < Mate
  BY <1>1, <1>2
<1>8. PICK g : g = Mate
  OBVIOUS
<1>9. g \in Nat /\ y(Klist(0)) < g
  BY <1>2, <1>7, <1>8
<1>10. /\ Search(g) \in 1 .. k + 1 /\ y(Klist(Search(g) - 1)) < g
       /\ Search(g) <= k => g <= y(Klist(Search(g)))
  BY <1>1, <1>5, <1>6, <1>9, SearchFinds
<1>11. l \in 1 .. k + 1 /\ y(Klist(l - 1)) < Mate /\ (l <= k => Mate <= y(Klist(l)))
  BY <1>8, <1>10
<1>12. l \in Nat /\ l - 1 \in 0 .. k /\ (l <= k => l \in 0 .. k)
  BY <1>1, <1>11
<1>13. Row[l - 1] < Mate /\ (l <= k => Mate <= Row[l])
  BY <1>3, <1>11, <1>12
<1>14. ASSUME Mate > y(oldc) PROVE Ends(Middle, Above, Mate, l)
  <2>1. l = Best(Middle, Above + 1, Mate - 1) + 1
    <3>1. PICK R, a, n, top, r : R = Middle /\ a = Above /\ n = slen(2) /\ top = k /\ r = Row
      OBVIOUS
    <3>2. a \in Nat /\ n \in Nat /\ g \in Nat \ {0} /\ g <= n /\ top \in Nat
      BY <1>1, <1>2, <1>8, <3>1
    <3>3. Rows(R, a, g, n, top, r) /\ Takes(r, top, g, l)
      BY <1>3, <1>8, <1>11, <1>13, <3>1 DEF Takes
    <3>4. l = Best(R, a + 1, g - 1) + 1
      BY <3>2, <3>3, RowsPlace
    <3>5. QED
      BY <1>8, <3>1, <3>4
  <2>2. Best(Middle, Above + 1, Mate - 1) = Best(Middle, Above, Mate - 1)
    <3>1. y(oldc) < Mate
      BY <1>2, <1>3, <1>14
    <3>2. QED
      BY <1>2, <1>3, <3>1, BehindPassed
  <2>3. QED
    BY <2>1, <2>2 DEF Ends
<1>15. QED
  BY <1>1, <1>11, <1>12, <1>14

\* The row that is reached with the mate tried, or with the line done with.
LEMMA ReachedLater ==
  ASSUME Hashed, Stone, mates # {}, NEW n \in 0 .. slen(2)
  PROVE  /\ Reached(Middle, i, Later, n) = Merged(Middle, Above, Upcoming, n)
         /\ Reached(Middle, i, {}, n) = Merged(Middle, Above, slen(2) + 1, n)
<1>1. Above + 1 = i /\ slen(2) \in Nat /\ Above = i - 1
  BY MateIs DEF Above
<1>2. n < slen(2) + 1
  BY <1>1
<1>3. Merged(Middle, Above, slen(2) + 1, n) = Best(Middle, i, n)
  BY <1>1, <1>2 DEF Merged
<1>4. Reached(Middle, i, {}, n) = Merged(Middle, Above, slen(2) + 1, n)
  BY <1>3 DEF Reached
<1>5. CASE Later = {}
  BY <1>4, <1>5 DEF Upcoming
<1>6. CASE Later # {}
  <2>1. Upcoming = Min(Later)
    BY <1>6 DEF Upcoming
  <2>2. Reached(Middle, i, Later, n) = Merged(Middle, i - 1, Min(Later), n)
    BY <1>6 DEF Reached
  <2>3. QED
    BY <1>1, <1>4, <2>1, <2>2
<1>7. QED
  BY <1>4, <1>5, <1>6

\* The same line goes on with its next mate.
Goes == UNCHANGED <<input, i>> /\ mates' = Later

\* The mate is passed, and the place in the row is right.
LEMMA GoesInRow ==
  ASSUME Hashed, Stone, mates # {}, Goes
  PROVE  InRow' /\ Pruned' /\ Hashed' /\ Middle' = Middle /\ slen(2)' = slen(2)
<1>1. UNCHANGED input /\ i' = i /\ mates' = Later
  BY DEF Goes
<1>2. /\ Middle' = Middle /\ slen(1)' = slen(1) /\ slen(2)' = slen(2)
      /\ Hashed' /\ Pruned' /\ \A n : Mates(n)' = Mates(n)
  BY <1>1, SameInput DEF Stone
<1>3. /\ i \in 0 .. slen(1) /\ i # 0
  BY DEF Stone, InRow
<1>4. Later \subseteq Mates(i) /\ \A m \in Later, h \in Mates(i) : m < h => h \in Later
  BY MateIs
<1>5. Mates(i)' = Mates(i)
  BY <1>1 DEF Mates, input, slen, len
<1>6. mates' \subseteq Mates(i)' /\ \A m \in mates', h \in Mates(i)' : m < h => h \in mates'
  BY <1>1, <1>4, <1>5
<1>7. InRow'
  BY <1>1, <1>2, <1>3, <1>6 DEF InRow
<1>8. QED
  BY <1>2, <1>7

\* The row that klist stands for then.
LEMMA GoesThresholds ==
  ASSUME Hashed, Stone, mates # {}, Goes, NEW Z,
         Rows(Middle, Above, Upcoming, slen(2), k', Z), \A l \in 0 .. k' : Z[l] = y(Klist(l))'
  PROVE  Thresholds'
<1>1. Middle' = Middle /\ slen(2)' = slen(2) /\ i' = i /\ mates' = Later
  BY GoesInRow DEF Goes
<1>2. \A n \in 0 .. slen(2) : Now(n)' = Merged(Middle, Above, Upcoming, n)
  <2>1. \A n : Now(n)' = Reached(Middle, i, Later, n)
    BY <1>1 DEF Now
  <2>2. QED
    BY <2>1, ReachedLater
<1>3. \A n \in 0 .. slen(2) : /\ Merged(Middle, Above, Upcoming, n) <= k'
                              /\ \A l \in 0 .. k' : Z[l] <= n <=> l <= Merged(Middle, Above, Upcoming, n)
  BY DEF Rows
<1>4. \A n \in 0 .. slen(2) : /\ Now(n)' <= k'
                              /\ \A l \in 0 .. k' : y(Klist(l))' <= n <=> l <= Now(n)'
  BY <1>2, <1>3
<1>5. QED
  BY <1>1, <1>4 DEF Thresholds

\* What oldl and oldc are then.
LEMMA GoesReplaced ==
  ASSUME Hashed, Stone, mates # {}, Goes,
         oldl' \in 0 .. k', oldc' \in 1 .. Len(clist'),
         oldl' <= Best(Middle, Above + 1, Upcoming - 1),
         \A l \in oldl' + 1 .. k' : clist'[Klist(l)'].x < i,
         Best(Middle, Above + 1, Upcoming - 1) > oldl' \/ (Level(oldc)' = oldl' /\ clist'[oldc'].x < i),
         Behind(Middle, Above, Upcoming, oldl', y(oldc)')
  PROVE  Replaced'
<1>1. Middle' = Middle /\ slen(2)' = slen(2) /\ i' = i /\ mates' = Later
  BY GoesInRow DEF Goes
<1>2. Above + 1 = i /\ Above = i - 1
  BY MateIs DEF Above
<1>3. SUFFICES ASSUME Later # {} PROVE Replaced'
  BY <1>1 DEF Replaced
<1>4. Min(Later) = Upcoming
  BY <1>3, MateIs
<1>5. /\ y(oldc)' >= Upcoming => Best(Middle, Above, y(oldc)' - 1) < oldl' /\ oldl' <= Best(Middle, Above, y(oldc)')
      /\ Best(Middle, Above + 1, Upcoming - 1) # Best(Middle, Above, Upcoming - 1) =>
           Best(Middle, Above + 1, Upcoming - 1) = oldl' /\ oldl' <= Best(Middle, Above, y(oldc)')
  BY DEF Behind
<1>6. Min(mates') = Upcoming
  BY <1>1, <1>4
<1>7. i' - 1 = Above /\ i' = Above + 1
  BY <1>1, <1>2
<1>8. QED
  BY <1>1, <1>2, <1>5, <1>6, <1>7 DEF Replaced

\* Where nothing new is made.
Keeps == UNCHANGED <<clist, klist, oldl>>

\* Without a new candidate, what is said of the candidates holds on.
LEMMA KeepsCandidates ==
  ASSUME Hashed, Stone, mates # {}, Goes, Keeps
  PROVE  /\ k' = k /\ clist' = clist /\ klist' = klist /\ oldl' = oldl
         /\ \A l : Klist(l)' = Klist(l) /\ y(l)' = y(l) /\ Level(l)' = Level(l)
         /\ Candidates' /\ Ranked' /\ Earliest'
<1>1. Middle' = Middle /\ slen(2)' = slen(2) /\ i' = i
  BY GoesInRow DEF Goes
<1>2. clist' = clist /\ klist' = klist /\ oldl' = oldl
  BY DEF Keeps
<1>3. k' = k /\ \A l : Klist(l)' = Klist(l) /\ y(l)' = y(l) /\ Level(l)' = Level(l)
  BY <1>1, <1>2 DEF k, Klist, y, Level
<1>4. Candidates'
  BY <1>1, <1>2, <1>3 DEF Stone, Candidates
<1>5. Ranked'
  BY <1>2, <1>3 DEF Stone, Ranked
<1>6. Earliest'
  BY <1>1, <1>2, <1>3 DEF Stone, Earliest
<1>7. QED
  BY <1>2, <1>3, <1>4, <1>5, <1>6

\* A mate in front of oldc is passed over.
LEMMA SkippedInv ==
  ASSUME Hashed, Stone, mates # {}, Goes, Keeps, Mate <= y(oldc), oldc' = oldc
  PROVE  Stone'
<1>1. /\ k' = k /\ clist' = clist /\ klist' = klist /\ oldl' = oldl
      /\ \A l : Klist(l)' = Klist(l) /\ y(l)' = y(l) /\ Level(l)' = Level(l)
      /\ Candidates' /\ Ranked' /\ Earliest'
  BY KeepsCandidates
<1>2. Above \in Nat /\ Mate \in Nat \ {0} /\ Mate <= slen(2) /\ slen(2) \in Nat
      /\ Upcoming \in Nat /\ Upcoming <= slen(2) + 1 /\ NextMate(Middle, Above, Mate, Upcoming)
      /\ Above + 1 = i
  BY MateIs
<1>3. /\ Rows(Middle, Above, Mate, slen(2), k, Row)
      /\ \A l \in 0 .. k : Row[l] = y(Klist(l)) /\ Row[l] \in 0 .. slen(2)
      /\ Behind(Middle, Above, Mate, oldl, y(oldc))
      /\ oldl \in 0 .. k /\ oldl \in Nat /\ oldl <= Best(Middle, Above + 1, Mate - 1)
      /\ oldc \in 1 .. Len(clist) /\ y(oldc) \in Nat
  BY RowIs
<1>4. k \in Nat
  BY StoneTypes DEF Stone
<1>5. /\ Best(Middle, Above + 1, Mate) <= Merged(Middle, Above, Mate, Mate)
      /\ Behind(Middle, Above, Upcoming, oldl, y(oldc)) /\ oldl <= Best(Middle, Above + 1, Upcoming - 1)
      /\ Best(Middle, Above + 1, Mate - 1) <= Best(Middle, Above + 1, Upcoming - 1)
  BY <1>2, <1>3, BehindSkipped
<1>6. Rows(Middle, Above, Upcoming, slen(2), k, Row)
  BY <1>2, <1>3, <1>4, <1>5, RowsKept
<1>7. Thresholds'
  <2>1. \A l \in 0 .. k' : Row[l] = y(Klist(l))'
    <3>1. \A l : y(Klist(l))' = y(Klist(l))
      BY <1>1 DEF y
    <3>2. QED
      BY <1>1, <1>3, <3>1
  <2>2. Rows(Middle, Above, Upcoming, slen(2), k', Row)
    BY <1>1, <1>6
  <2>3. QED
    BY <2>1, <2>2, GoesThresholds
<1>8. Replaced'
  <2>1. /\ \A l \in oldl + 1 .. k : clist[Klist(l)].x < i
        /\ Best(Middle, i, Mate - 1) > oldl \/ (Level(oldc) = oldl /\ clist[oldc].x < i)
    BY DEF Stone, Replaced, Mate
  <2>2. Level(oldc)' = Level(oldc) /\ y(oldc)' = y(oldc)
    <3>1. Middle' = Middle
      BY GoesInRow
    <3>2. QED
      BY <1>1, <3>1 DEF Level, y
  <2>3. Best(Middle, Above + 1, Upcoming - 1) > oldl \/ (Level(oldc)' = oldl' /\ clist'[oldc'].x < i)
    <3>1. Mate - 1 \in Nat /\ Upcoming - 1 \in Nat /\ Above + 1 \in Nat
      BY <1>2 DEF NextMate
    <3>2. Best(Middle, Above + 1, Mate - 1) \in Nat /\ Best(Middle, Above + 1, Upcoming - 1) \in Nat
      BY <3>1, BestType
    <3>3. CASE Best(Middle, i, Mate - 1) > oldl
      BY <1>2, <1>3, <1>5, <3>2, <3>3
    <3>4. CASE Level(oldc) = oldl /\ clist[oldc].x < i
      BY <1>1, <2>2, <3>4
    <3>5. QED
      BY <2>1, <3>3, <3>4
  <2>4. \A l \in oldl' + 1 .. k' : clist'[Klist(l)'].x < i
    BY <1>1, <2>1
  <2>5. /\ oldl' \in 0 .. k' /\ oldc' \in 1 .. Len(clist')
        /\ oldl' <= Best(Middle, Above + 1, Upcoming - 1)
        /\ Behind(Middle, Above, Upcoming, oldl', y(oldc)')
    BY <1>1, <1>3, <1>5, <2>2
  <2>6. Best(Middle, Above + 1, Upcoming - 1) > oldl' \/ (Level(oldc)' = oldl' /\ clist'[oldc'].x < i)
    BY <1>1, <2>3
  <2>7. QED
    BY <2>4, <2>5, <2>6, GoesReplaced
<1>9. QED
  BY <1>1, <1>7, <1>8, GoesInRow DEF Stone

\* The candidate to chain to ends in front of the mate and above the line, and
\* is one shorter.
LEMMA PredecessorIs ==
  ASSUME Hashed, Stone, mates # {}, NEW l, l = Search(Mate), Mate > y(oldc)
  PROVE  /\ Predecessor(l) \in 1 .. Len(clist) /\ y(Predecessor(l)) < Mate /\ y(Predecessor(l)) \in Nat
         /\ clist[Predecessor(l)].x < i /\ Level(Predecessor(l)) = l - 1
         /\ Best(Middle, Above + 1, Mate - 1) = l - 1 /\ oldl <= l - 1 /\ l - 1 \in Nat
<1>1. /\ l \in 1 .. k + 1 /\ l \in Nat /\ k \in Nat /\ y(Klist(l - 1)) < Mate
      /\ Ends(Middle, Above, Mate, l)
  BY PlaceIs
<1>2. /\ oldl \in 0 .. k /\ oldl \in Nat /\ oldl <= Best(Middle, Above + 1, Mate - 1)
      /\ oldc \in 1 .. Len(clist) /\ y(oldc) \in Nat
  BY RowIs
<1>3. Above \in Nat /\ Above + 1 = i /\ Mate \in Nat \ {0} /\ Mate - 1 \in Nat /\ slen(2) \in Nat
  BY MateIs
<1>4. Best(Middle, Above + 1, Mate - 1) \in Nat
  BY <1>3, BestType
<1>5. Best(Middle, Above + 1, Mate - 1) = l - 1 /\ oldl <= l - 1 /\ l - 1 \in Nat
  BY <1>1, <1>2, <1>4 DEF Ends
<1>6. /\ \A h \in oldl + 1 .. k : clist[Klist(h)].x < i
      /\ Best(Middle, i, Mate - 1) > oldl \/ (Level(oldc) = oldl /\ clist[oldc].x < i)
  BY DEF Stone, Replaced, Mate
<1>7. CASE l # oldl + 1
  <2>1. Predecessor(l) = Klist(l - 1)
    BY <1>7 DEF Predecessor
  <2>2. l - 1 \in oldl + 1 .. k /\ l - 1 \in 0 .. k
    BY <1>1, <1>2, <1>5, <1>7
  <2>3. Klist(l - 1) \in 1 .. Len(clist)
    BY <2>2, StoneTypes DEF Stone
  <2>4. clist[Klist(l - 1)].x < i /\ Level(Klist(l - 1)) = l - 1
    BY <1>6, <2>2 DEF Stone, Ranked
  <2>5. y(Klist(l - 1)) \in Nat
    <3>1. \A d \in 1 .. Len(clist) : y(d) \in 0 .. slen(2)
      BY StoneTypes DEF Stone
    <3>2. QED
      BY <1>3, <2>3, <3>1
  <2>6. QED
    BY <1>1, <1>5, <2>1, <2>3, <2>4, <2>5
<1>8. CASE l = oldl + 1
  <2>1. Predecessor(l) = oldc
    BY <1>8 DEF Predecessor
  <2>2. l - 1 = oldl
    BY <1>2, <1>8
  <2>3. ~(Best(Middle, i, Mate - 1) > oldl)
    BY <1>2, <1>3, <1>5, <2>2
  <2>4. Level(oldc) = oldl /\ clist[oldc].x < i
    BY <1>6, <2>3
  <2>5. y(oldc) < Mate
    BY <1>2, <1>3
  <2>6. QED
    BY <1>2, <1>5, <2>1, <2>2, <2>4, <2>5
<1>9. QED
  BY <1>7, <1>8

\* A candidate that is no better is not made.
LEMMA TriedInv ==
  ASSUME Hashed, Stone, mates # {}, Goes, Keeps, NEW l, l = Search(Mate),
         Mate > y(oldc), ~Better(l, Mate), oldc' = Predecessor(l)
  PROVE  Stone'
<1>1. /\ k' = k /\ clist' = clist /\ klist' = klist /\ oldl' = oldl
      /\ \A h : Klist(h)' = Klist(h) /\ y(h)' = y(h) /\ Level(h)' = Level(h)
      /\ Candidates' /\ Ranked' /\ Earliest'
  BY KeepsCandidates
<1>2. Above \in Nat /\ Mate \in Nat \ {0} /\ Mate <= slen(2) /\ slen(2) \in Nat
      /\ Upcoming \in Nat /\ Upcoming <= slen(2) + 1 /\ NextMate(Middle, Above, Mate, Upcoming)
      /\ Above + 1 = i
  BY MateIs
<1>3. /\ Rows(Middle, Above, Mate, slen(2), k, Row)
      /\ \A h \in 0 .. k : Row[h] = y(Klist(h)) /\ Row[h] \in 0 .. slen(2)
      /\ oldl \in 0 .. k /\ oldl \in Nat
  BY RowIs
<1>4. /\ l \in 1 .. k + 1 /\ l \in Nat /\ k \in Nat
      /\ Ends(Middle, Above, Mate, l)
  BY PlaceIs
<1>5. l <= k /\ ~(Mate < y(Klist(l)))
  BY <1>4 DEF Better
<1>6. l \in 1 .. k /\ l \in 0 .. k
  BY <1>4, <1>5
<1>7. Row[l] <= Mate
  <2>1. y(Klist(l)) \in Nat
    BY <1>2, <1>3, <1>6
  <2>2. QED
    BY <1>2, <1>3, <1>5, <1>6, <2>1
<1>8. /\ Predecessor(l) \in 1 .. Len(clist) /\ y(Predecessor(l)) < Mate /\ y(Predecessor(l)) \in Nat
      /\ oldl <= l - 1
  BY PredecessorIs
<1>9. PICK p : p = y(Predecessor(l))
  OBVIOUS
<1>10. y(oldc)' = p /\ p \in Nat /\ p < Mate
  BY <1>1, <1>8, <1>9 DEF y
<1>11. /\ Best(Middle, Above + 1, Mate) <= Merged(Middle, Above, Mate, Mate)
       /\ Behind(Middle, Above, Upcoming, oldl, p)
       /\ l <= Best(Middle, Above + 1, Upcoming - 1)
  BY <1>2, <1>3, <1>4, <1>6, <1>7, <1>10, BehindTried
<1>12. Rows(Middle, Above, Upcoming, slen(2), k, Row)
  BY <1>2, <1>3, <1>4, <1>11, RowsKept
<1>13. Thresholds'
  <2>1. \A h \in 0 .. k' : Row[h] = y(Klist(h))'
    <3>1. \A h : y(Klist(h))' = y(Klist(h))
      BY <1>1 DEF y
    <3>2. QED
      BY <1>1, <1>3, <3>1
  <2>2. Rows(Middle, Above, Upcoming, slen(2), k', Row)
    BY <1>1, <1>12
  <2>3. QED
    BY <2>1, <2>2, GoesThresholds
<1>14. Replaced'
  <2>1. \A h \in oldl + 1 .. k : clist[Klist(h)].x < i
    BY DEF Stone, Replaced
  <2>2. \A h \in oldl' + 1 .. k' : clist'[Klist(h)'].x < i
    BY <1>1, <2>1
  <2>3. Best(Middle, Above + 1, Upcoming - 1) \in Nat
    <3>1. Upcoming - 1 \in Nat /\ Above + 1 \in Nat
      BY <1>2 DEF NextMate
    <3>2. QED
      BY <3>1, BestType
  <2>4. oldl < Best(Middle, Above + 1, Upcoming - 1)
    BY <1>3, <1>4, <1>8, <1>11, <2>3
  <2>5. /\ oldl' \in 0 .. k' /\ oldc' \in 1 .. Len(clist')
        /\ oldl' <= Best(Middle, Above + 1, Upcoming - 1)
        /\ Best(Middle, Above + 1, Upcoming - 1) > oldl'
        /\ Behind(Middle, Above, Upcoming, oldl', y(oldc)')
    BY <1>1, <1>3, <1>8, <1>10, <1>11, <2>3, <2>4
  <2>6. QED
    BY <2>2, <2>5, GoesReplaced
<1>15. QED
  BY <1>1, <1>13, <1>14, GoesInRow DEF Stone

-----------------------------------------------------------------------------
(* A new candidate.                                                        *)

New == Len(clist) + 1

\* The lists with the new candidate.
LEMMA NewList ==
  ASSUME Hashed, Stone, mates # {}, NEW l \in 1 .. k + 1, Candidate(l, Mate, Predecessor(l)),
         Predecessor(l) \in 1 .. Len(clist)
  PROVE  /\ k' = IF l > k THEN k + 1 ELSE k
         /\ New \in Nat /\ Len(clist') = New
         /\ clist' \in Seq([x : Nat, y : Nat, pred : Nat \ {0}])
         /\ \A d \in 1 .. Len(clist) : clist'[d] = clist[d]
         /\ clist'[New] = [x |-> i, y |-> Mate, pred |-> Predecessor(l)]
         /\ klist' \in Seq(1 .. New) /\ klist' # <<>> /\ klist'[1] = 1
         /\ \A h \in 0 .. k' : Klist(h)' = IF h = l THEN New ELSE Klist(h)
         /\ l \in 1 .. k'
         /\ \A h \in 0 .. k' : h # l => h \in 0 .. k
<1>1. /\ k \in Nat /\ Len(klist) = k + 1 /\ klist \in Seq(Nat)
      /\ Len(clist) \in Nat \ {0} /\ i \in Nat
  BY StoneTypes DEF Stone
<1>2. Mate \in Nat
  BY MateIs
<1>3. /\ clist \in Seq([x : Nat, y : Nat, pred : Nat \ {0}])
      /\ klist \in Seq(1 .. Len(clist)) /\ klist[1] = 1
  BY DEF Stone, Candidates, Ranked
<1>. DEFINE c == [x |-> i, y |-> Mate, pred |-> Predecessor(l)]
<1>4. clist' = Append(clist, c)
  BY DEF Candidate
<1>5. c \in [x : Nat, y : Nat, pred : Nat \ {0}]
  <2>1. Predecessor(l) \in Nat \ {0}
    BY <1>1
  <2>2. QED
    BY <1>1, <1>2, <2>1
<1>. HIDE DEF c
<1>6. /\ New \in Nat /\ Len(clist') = New
      /\ clist' \in Seq([x : Nat, y : Nat, pred : Nat \ {0}])
      /\ \A d \in 1 .. Len(clist) : clist'[d] = clist[d]
      /\ clist'[New] = c
  <2>. DEFINE T == [x : Nat, y : Nat, pred : Nat \ {0}]
  <2>1. clist \in Seq(T) /\ c \in T
    BY <1>3, <1>5
  <2>. HIDE DEF T
  <2>2. /\ Append(clist, c) \in Seq(T) /\ Len(Append(clist, c)) = Len(clist) + 1
        /\ \A d \in 1 .. Len(clist) : Append(clist, c)[d] = clist[d]
        /\ Append(clist, c)[Len(clist) + 1] = c
    BY <2>1, AppendProperties
  <2>3. /\ clist' \in Seq(T) /\ Len(clist') = Len(clist) + 1
        /\ \A d \in 1 .. Len(clist) : clist'[d] = clist[d]
        /\ clist'[Len(clist) + 1] = c
    BY <1>4, <2>2
  <2>4. New = Len(clist) + 1
    BY DEF New
  <2>5. New \in Nat
    BY <1>1, <2>4
  <2>6. clist' \in Seq([x : Nat, y : Nat, pred : Nat \ {0}])
    BY <2>3 DEF T
  <2>7. QED
    BY <2>3, <2>4, <2>5, <2>6
<1>7. klist' = IF l > k THEN Append(klist, New) ELSE [klist EXCEPT ![l + 1] = New]
  BY <1>6 DEF Candidate
<1>8. klist \in Seq(1 .. New) /\ New \in 1 .. New
  <2>1. 1 .. Len(clist) \subseteq 1 .. New
    BY <1>1 DEF New
  <2>2. New \in 1 .. New
    BY <1>1 DEF New
  <2>3. Seq(1 .. Len(clist)) \subseteq Seq(1 .. New)
    BY <2>1, SeqMonotonic
  <2>4. QED
    BY <1>3, <2>2, <2>3
<1>. HIDE DEF New
<1>9. CASE l > k
  <2>1. l = k + 1
    BY <1>1, <1>9
  <2>2. klist' = Append(klist, New)
    BY <1>7, <1>9
  <2>3. klist' \in Seq(1 .. New) /\ Len(klist') = k + 2 /\ klist'[1] = 1
    BY <1>1, <1>3, <1>8, <2>2
  <2>4. k' = k + 1
    BY <1>1, <2>3 DEF k
  <2>5. ASSUME NEW h \in 0 .. k' PROVE Klist(h)' = IF h = l THEN New ELSE Klist(h)
    <3>1. h + 1 \in 1 .. k + 2 /\ (h = l <=> h + 1 = Len(klist) + 1) /\ (h # l => h + 1 \in 1 .. Len(klist))
      BY <1>1, <2>1, <2>4
    <3>2. klist'[h + 1] = IF h + 1 = Len(klist) + 1 THEN New ELSE klist[h + 1]
      BY <1>1, <1>8, <2>2, <3>1
    <3>3. QED
      BY <3>1, <3>2 DEF Klist
  <2>6. l \in 1 .. k' /\ \A h \in 0 .. k' : h # l => h \in 0 .. k
    BY <1>1, <2>1, <2>4
  <2>7. klist' # <<>>
    BY <1>1, <2>3
  <2>8. k' = IF l > k THEN k + 1 ELSE k
    BY <1>9, <2>4
  <2>9. QED
    BY <1>6, <2>3, <2>5, <2>6, <2>7, <2>8 DEF c
<1>10. CASE ~(l > k)
  <2>1. l \in 1 .. k /\ l + 1 \in 1 .. Len(klist)
    BY <1>1, <1>10
  <2>2. klist' = [klist EXCEPT ![l + 1] = New]
    BY <1>7, <1>10
  <2>3. klist' \in Seq(1 .. New) /\ Len(klist') = k + 1 /\ klist'[1] = 1
    BY <1>1, <1>3, <1>8, <2>1, <2>2
  <2>4. k' = k
    BY <1>1, <2>3 DEF k
  <2>5. ASSUME NEW h \in 0 .. k' PROVE Klist(h)' = IF h = l THEN New ELSE Klist(h)
    <3>1. h + 1 \in 1 .. Len(klist) /\ (h = l <=> h + 1 = l + 1)
      BY <1>1, <2>1, <2>4
    <3>2. klist'[h + 1] = IF h + 1 = l + 1 THEN New ELSE klist[h + 1]
      BY <1>1, <1>8, <2>2, <3>1
    <3>3. QED
      BY <3>1, <3>2 DEF Klist
  <2>6. l \in 1 .. k' /\ \A h \in 0 .. k' : h # l => h \in 0 .. k
    BY <2>1, <2>4
  <2>7. klist' # <<>>
    BY <1>1, <2>3
  <2>8. k' = IF l > k THEN k + 1 ELSE k
    BY <1>10, <2>4
  <2>9. QED
    BY <1>6, <2>3, <2>5, <2>6, <2>7, <2>8 DEF c
<1>11. QED
  BY <1>9, <1>10

Makes(l) ==
    /\ l = Search(Mate) /\ Mate > y(oldc) /\ Better(l, Mate)
    /\ Candidate(l, Mate, Predecessor(l))
    /\ UNCHANGED <<input, i>>

\* The new candidate is of the length whose place it takes.
LEMMA NewCandidate ==
  ASSUME Hashed, Stone, mates # {}, NEW l, Makes(l)
  PROVE  /\ Best(Middle, Above + 1, Mate) = l
         /\ Candidates' /\ Ranked' /\ Earliest'
         /\ \A d \in 1 .. Len(clist) : Best(Middle', clist'[d].x, clist'[d].y) = Level(d)
<1>1. /\ l = Search(Mate) /\ Mate > y(oldc) /\ Better(l, Mate)
      /\ Candidate(l, Mate, Predecessor(l)) /\ UNCHANGED input /\ i' = i
  BY DEF Makes
<1>2. Middle' = Middle /\ slen(2)' = slen(2)
  BY <1>1, SameInput
<1>3. /\ Predecessor(l) \in 1 .. Len(clist) /\ y(Predecessor(l)) < Mate
      /\ clist[Predecessor(l)].x < i /\ Level(Predecessor(l)) = l - 1
  BY <1>1, PredecessorIs
<1>4. /\ l \in 1 .. k + 1 /\ l \in Nat /\ k \in Nat
      /\ Ends(Middle, Above, Mate, l)
  BY <1>1, PlaceIs
<1>5. /\ k' = IF l > k THEN k + 1 ELSE k
      /\ New \in Nat /\ Len(clist') = New
      /\ clist' \in Seq([x : Nat, y : Nat, pred : Nat \ {0}])
      /\ \A d \in 1 .. Len(clist) : clist'[d] = clist[d]
      /\ clist'[New] = [x |-> i, y |-> Mate, pred |-> Predecessor(l)]
      /\ klist' \in Seq(1 .. New) /\ klist' # <<>> /\ klist'[1] = 1
      /\ \A h \in 0 .. k' : Klist(h)' = IF h = l THEN New ELSE Klist(h)
      /\ l \in 1 .. k'
      /\ \A h \in 0 .. k' : h # l => h \in 0 .. k
  BY <1>1, <1>3, <1>4, NewList
<1>6. /\ Above \in Nat /\ Above + 1 = i /\ Above = i - 1 /\ i \in Nat \ {0}
      /\ Mate \in Nat \ {0} /\ Mate <= slen(2) /\ slen(2) \in Nat /\ <<i, Mate>> \in Middle
      /\ Upcoming \in Nat /\ NextMate(Middle, Above, Mate, Upcoming)
  BY MateIs DEF Above
<1>7. /\ Len(clist) \in Nat \ {0} /\ New = Len(clist) + 1
      /\ \A h \in 0 .. k : Klist(h) \in 1 .. Len(clist)
  BY StoneTypes DEF Stone, New
<1>8. Best(Middle, Above + 1, Mate) = l
  <2>1. Best(Middle, Above + 1, Mate) = Best(Middle, Above, Mate - 1) + 1
    BY <1>6, NextMateBest
  <2>2. QED
    BY <1>4, <2>1 DEF Ends
<1>9. \A d \in 1 .. Len(clist) : Best(Middle', clist'[d].x, clist'[d].y) = Level(d)
  BY <1>2, <1>5 DEF Level
<1>10. Candidates'
  <2>1. ASSUME NEW d \in 2 .. Len(clist')
        PROVE  /\ clist'[d].x \in 1 .. i /\ clist'[d].y \in 1 .. slen(2)
               /\ <<clist'[d].x, clist'[d].y>> \in Middle
               /\ clist'[d].pred \in 1 .. d - 1
               /\ clist'[clist'[d].pred].x < clist'[d].x /\ clist'[clist'[d].pred].y < clist'[d].y
               /\ Best(Middle, clist'[d].x, clist'[d].y)
                    = Best(Middle, clist'[clist'[d].pred].x, clist'[clist'[d].pred].y) + 1
    <3>1. CASE d = New
      <4>1. clist'[d].x = i /\ clist'[d].y = Mate /\ clist'[d].pred = Predecessor(l)
        BY <1>5, <3>1
      <4>2. clist'[Predecessor(l)] = clist[Predecessor(l)]
        BY <1>3, <1>5
      <4>3. Best(Middle, clist[Predecessor(l)].x, clist[Predecessor(l)].y) = l - 1 /\ clist[Predecessor(l)].y < Mate
        BY <1>3 DEF Level, y
      <4>4. Predecessor(l) \in 1 .. d - 1
        BY <1>3, <1>7, <3>1
      <4>5. i \in 1 .. i /\ Mate \in 1 .. slen(2)
        BY <1>6
      <4>6. Best(Middle, i, Mate) = (l - 1) + 1
        BY <1>4, <1>6, <1>8
      <4>7. QED
        BY <1>3, <1>6, <4>1, <4>2, <4>3, <4>4, <4>5, <4>6
    <3>2. CASE d # New
      <4>8. PICK n : n = Len(clist)
        OBVIOUS
      <4>9. d \in 2 .. New /\ New = n + 1 /\ n \in Nat
        BY <1>5, <1>7, <4>8
      <4>10. d \in 2 .. n /\ d \in 1 .. n
        BY <3>2, <4>9
      <4>1. d \in 2 .. Len(clist) /\ d \in 1 .. Len(clist)
        BY <4>8, <4>10
      <4>2. PICK b : b = clist[d].pred
        OBVIOUS
      <4>3. /\ clist[d].x \in 1 .. i /\ clist[d].y \in 1 .. slen(2)
            /\ <<clist[d].x, clist[d].y>> \in Middle
            /\ b \in 1 .. d - 1
            /\ clist[b].x < clist[d].x /\ clist[b].y < clist[d].y
            /\ Best(Middle, clist[d].x, clist[d].y) = Best(Middle, clist[b].x, clist[b].y) + 1
        BY <4>1, <4>2 DEF Stone, Candidates, Level, y
      <4>4. b \in 1 .. Len(clist)
        BY <1>7, <4>1, <4>3
      <4>5. clist'[d] = clist[d] /\ clist'[b] = clist[b]
        BY <1>5, <4>1, <4>4
      <4>6. QED
        BY <4>2, <4>3, <4>5
    <3>3. QED
      BY <3>1, <3>2
  <2>2. clist'[1] = [x |-> 0, y |-> 0, pred |-> 1] /\ clist' # <<>>
    <3>1. clist[1] = [x |-> 0, y |-> 0, pred |-> 1]
      BY DEF Stone, Candidates
    <3>2. 1 \in 1 .. Len(clist)
      BY <1>7
    <3>3. clist' # <<>>
      BY <1>5, <1>7
    <3>4. QED
      BY <1>5, <3>1, <3>2, <3>3
  <2>3. QED
    BY <1>1, <1>2, <1>5, <2>1, <2>2 DEF Candidates, Level, y
<1>11. Ranked'
  <2>1. ASSUME NEW h \in 0 .. k' PROVE Best(Middle', clist'[Klist(h)'].x, clist'[Klist(h)'].y) = h
    <3>1. CASE h = l
      <4>1. Klist(h)' = New
        BY <1>5, <3>1
      <4>2. QED
        BY <1>2, <1>5, <1>6, <1>8, <3>1, <4>1
    <3>2. CASE h # l
      <4>1. h \in 0 .. k /\ Klist(h)' = Klist(h)
        BY <1>5, <3>2
      <4>2. Klist(h) \in 1 .. Len(clist) /\ Level(Klist(h)) = h
        BY <1>7, <4>1 DEF Stone, Ranked
      <4>3. QED
        BY <1>9, <4>1, <4>2
    <3>3. QED
      BY <3>1, <3>2
  <2>2. \A h \in 0 .. k' : Level(Klist(h))' = h
    BY <2>1 DEF Level
  <2>3. QED
    BY <1>5, <2>2 DEF Ranked
<1>12. Earliest'
  <2>1. ASSUME NEW h \in 1 .. k' PROVE Best(Middle', clist'[Klist(h)'].x - 1, clist'[Klist(h)'].y) < h
    <3>0. h \in 0 .. k'
      OBVIOUS
    <3>1. CASE h = l
      <4>1. Klist(h)' = New
        BY <1>5, <3>0, <3>1
      <4>2. clist'[Klist(h)'].x - 1 = Above /\ clist'[Klist(h)'].y = Mate
        BY <1>5, <1>6, <4>1
      <4>3. Rows(Middle, Above, Mate, slen(2), k, Row) /\ \A a \in 0 .. k : Row[a] = y(Klist(a)) /\ Row[a] \in 0 .. slen(2)
        BY RowIs
      <4>4. Best(Middle, Above, Mate) <= Merged(Middle, Above, Mate, Mate) /\ Merged(Middle, Above, Mate, Mate) \in Nat
            /\ Best(Middle, Above, Mate) \in Nat
        BY <1>6, MergedType, BestType
      <4>5. Merged(Middle, Above, Mate, Mate) < l
        <5>1. Mate \in 0 .. slen(2)
          BY <1>6
        <5>2. CASE l > k
          <6>1. Merged(Middle, Above, Mate, Mate) <= k
            BY <4>3, <5>1 DEF Rows
          <6>2. QED
            BY <1>4, <4>4, <5>2, <6>1
        <5>3. CASE ~(l > k)
          <6>1. l \in 0 .. k
            BY <1>4, <5>3
          <6>2. Mate < Row[l] /\ Row[l] \in 0 .. slen(2)
            BY <1>1, <4>3, <5>3, <6>1 DEF Better
          <6>3. ~(Row[l] <= Mate)
            BY <1>6, <6>2
          <6>4. ~(l <= Merged(Middle, Above, Mate, Mate))
            BY <4>3, <5>1, <6>1, <6>3 DEF Rows
          <6>5. QED
            BY <1>4, <4>4, <6>4
        <5>4. QED
          BY <5>2, <5>3
      <4>6. Best(Middle, Above, Mate) < h
        BY <1>4, <3>1, <4>4, <4>5
      <4>7. QED
        BY <1>2, <4>2, <4>6
    <3>2. CASE h # l
      <4>1. h \in 0 .. k /\ Klist(h)' = Klist(h)
        BY <1>5, <3>0, <3>2
      <4>2. h \in 1 .. k /\ Klist(h) \in 1 .. Len(clist)
        BY <1>4, <1>7, <4>1
      <4>3. clist'[Klist(h)'] = clist[Klist(h)]
        BY <1>5, <4>1, <4>2
      <4>4. Best(Middle, clist[Klist(h)].x - 1, clist[Klist(h)].y) < h
        BY <4>2 DEF Stone, Earliest, y
      <4>5. QED
        BY <1>2, <4>3, <4>4
    <3>3. QED
      BY <3>1, <3>2
  <2>2. QED
    BY <2>1 DEF Earliest, y
<1>13. QED
  BY <1>8, <1>9, <1>10, <1>11, <1>12

\* It replaces the one of its length.
LEMMA ReplacingInv ==
  ASSUME Hashed, Stone, mates # {}, NEW l, Makes(l), l <= k, Goes,
         oldc' = Klist(l), oldl' = l
  PROVE  Stone'
<1>1. /\ l = Search(Mate) /\ Mate > y(oldc) /\ Better(l, Mate)
      /\ Candidate(l, Mate, Predecessor(l)) /\ UNCHANGED input /\ i' = i
  BY DEF Makes
<1>2. /\ Predecessor(l) \in 1 .. Len(clist)
      /\ Best(Middle, Above + 1, Mate - 1) = l - 1 /\ oldl <= l - 1
  BY <1>1, PredecessorIs
<1>3. /\ l \in 1 .. k + 1 /\ l \in Nat /\ k \in Nat
      /\ Ends(Middle, Above, Mate, l)
  BY <1>1, PlaceIs
<1>4. /\ k' = k
      /\ New \in Nat /\ Len(clist') = New
      /\ \A d \in 1 .. Len(clist) : clist'[d] = clist[d]
      /\ clist'[New] = [x |-> i, y |-> Mate, pred |-> Predecessor(l)]
      /\ \A h \in 0 .. k : Klist(h)' = IF h = l THEN New ELSE Klist(h)
  <2>1. /\ k' = IF l > k THEN k + 1 ELSE k
        /\ New \in Nat /\ Len(clist') = New
        /\ \A d \in 1 .. Len(clist) : clist'[d] = clist[d]
        /\ clist'[New] = [x |-> i, y |-> Mate, pred |-> Predecessor(l)]
        /\ \A h \in 0 .. k' : Klist(h)' = IF h = l THEN New ELSE Klist(h)
    BY <1>1, <1>2, <1>3, NewList
  <2>2. k' = k
    BY <1>3, <2>1
  <2>3. QED
    BY <2>1, <2>2
<1>5. /\ Above \in Nat /\ Above + 1 = i
      /\ Mate \in Nat \ {0} /\ Mate <= slen(2) /\ slen(2) \in Nat
      /\ Upcoming \in Nat /\ Upcoming <= slen(2) + 1 /\ NextMate(Middle, Above, Mate, Upcoming)
  BY MateIs
<1>6. /\ Rows(Middle, Above, Mate, slen(2), k, Row)
      /\ \A h \in 0 .. k : Row[h] = y(Klist(h)) /\ Row[h] \in 0 .. slen(2)
      /\ oldl \in 0 .. k /\ oldl \in Nat
  BY RowIs
<1>7. /\ Len(clist) \in Nat \ {0} /\ New = Len(clist) + 1
      /\ \A h \in 0 .. k : Klist(h) \in 1 .. Len(clist)
  BY StoneTypes DEF Stone, New
<1>8. /\ Candidates' /\ Ranked' /\ Earliest'
      /\ \A d \in 1 .. Len(clist) : Best(Middle', clist'[d].x, clist'[d].y) = Level(d)
  BY NewCandidate
<1>9. l \in 1 .. k /\ l \in 0 .. k /\ Mate < Row[l]
  <2>1. l \in 1 .. k /\ l \in 0 .. k
    BY <1>3
  <2>2. Mate < y(Klist(l))
    <3>1. ~(l > k)
      BY <1>3
    <3>2. QED
      BY <1>1, <3>1 DEF Better
  <2>3. QED
    BY <1>6, <2>1, <2>2
<1>10. PICK r, g, f, n : r = Row /\ g = Mate /\ f = Upcoming /\ n = slen(2)
  OBVIOUS
<1>11. /\ g \in Nat \ {0} /\ g <= n /\ n \in Nat /\ f \in Nat /\ f <= n + 1 /\ NextMate(Middle, Above, g, f)
       /\ Rows(Middle, Above, g, n, k, r) /\ g < r[l] /\ Ends(Middle, Above, g, l)
  BY <1>3, <1>5, <1>6, <1>9, <1>10
<1>12. /\ Rows(Middle, Above, f, n, k, [r EXCEPT ![l] = g])
       /\ Behind(Middle, Above, f, l, r[l]) /\ l <= Best(Middle, Above + 1, f - 1)
  BY <1>3, <1>5, <1>9, <1>11, RowsBetter, BehindBetter
<1>13. Thresholds'
  <2>. DEFINE Z == [r EXCEPT ![l] = g]
  <2>1. \A h \in 0 .. k : Z[h] = IF h = l THEN g ELSE r[h]
    <3>1. r \in [0 .. k -> 0 .. n]
      BY <1>11 DEF Rows
    <3>2. QED
      BY <3>1
  <2>. HIDE DEF Z
  <2>2. ASSUME NEW h \in 0 .. k' PROVE Z[h] = y(Klist(h))'
    <3>1. h \in 0 .. k
      BY <1>4
    <3>2. y(Klist(h))' = clist'[Klist(h)'].y
      BY DEF y
    <3>3. CASE h = l
      BY <1>4, <1>10, <2>1, <3>1, <3>2, <3>3
    <3>4. CASE h # l
      <4>1. Klist(h)' = Klist(h) /\ clist'[Klist(h)] = clist[Klist(h)]
        BY <1>4, <1>7, <3>1, <3>4
      <4>2. Z[h] = Row[h] /\ Row[h] = clist[Klist(h)].y
        BY <1>6, <1>10, <2>1, <3>1, <3>4 DEF y
      <4>3. QED
        BY <3>2, <4>1, <4>2
    <3>5. QED
      BY <3>3, <3>4
  <2>3. Rows(Middle, Above, Upcoming, slen(2), k', Z)
    BY <1>4, <1>10, <1>12 DEF Z
  <2>4. QED
    BY <2>2, <2>3, GoesThresholds
<1>14. Replaced'
  <2>1. \A h \in oldl + 1 .. k : clist[Klist(h)].x < i
    BY DEF Stone, Replaced
  <2>2. ASSUME NEW h \in l + 1 .. k PROVE clist'[Klist(h)'].x < i
    <3>1. h \in 0 .. k /\ h # l /\ h \in oldl + 1 .. k
      BY <1>2, <1>3, <1>6
    <3>2. Klist(h)' = Klist(h) /\ clist'[Klist(h)] = clist[Klist(h)]
      BY <1>4, <1>7, <3>1
    <3>3. QED
      BY <2>1, <3>1, <3>2
  <2>3. l \in oldl + 1 .. k
    BY <1>2, <1>3, <1>6, <1>9
  <2>4. /\ Klist(l) \in 1 .. Len(clist) /\ clist'[Klist(l)] = clist[Klist(l)]
        /\ clist[Klist(l)].x < i /\ Level(Klist(l)) = l
    BY <1>4, <1>7, <1>9, <2>1, <2>3 DEF Stone, Ranked
  <2>5. Klist(l) \in 1 .. Len(clist')
    BY <1>4, <1>7, <2>4
  <2>6. y(oldc)' = Row[l]
    BY <1>6, <1>9, <2>4 DEF y
  <2>7. Level(oldc)' = l
    <3>1. Level(oldc)' = Best(Middle', clist'[Klist(l)].x, clist'[Klist(l)].y)
      BY DEF Level
    <3>2. QED
      BY <1>8, <2>4, <3>1
  <2>8. \A h \in oldl' + 1 .. k' : clist'[Klist(h)'].x < i
    BY <1>4, <2>2
  <2>9. /\ oldl' \in 0 .. k' /\ oldc' \in 1 .. Len(clist')
        /\ oldl' <= Best(Middle, Above + 1, Upcoming - 1)
        /\ Level(oldc)' = oldl' /\ clist'[oldc'].x < i
        /\ Behind(Middle, Above, Upcoming, oldl', y(oldc)')
    BY <1>4, <1>9, <1>10, <1>12, <2>4, <2>5, <2>6, <2>7
  <2>10. QED
    BY <2>8, <2>9, GoesReplaced
<1>15. QED
  BY <1>8, <1>13, <1>14, GoesInRow DEF Stone

\* It is longer than all before, and the line is done with.
LEMMA LongerInv ==
  ASSUME Hashed, Stone, mates # {}, NEW l, Makes(l), ~(l <= k), mates' = {}
  PROVE  Stone'
<1>1. /\ l = Search(Mate) /\ Mate > y(oldc) /\ Better(l, Mate)
      /\ Candidate(l, Mate, Predecessor(l)) /\ UNCHANGED input /\ i' = i
  BY DEF Makes
<1>2. /\ Predecessor(l) \in 1 .. Len(clist)
  BY <1>1, PredecessorIs
<1>3. /\ l \in 1 .. k + 1 /\ l \in Nat /\ k \in Nat
      /\ Ends(Middle, Above, Mate, l) /\ l = k + 1 /\ l > k
  BY <1>1, PlaceIs
<1>4. /\ k' = k + 1
      /\ New \in Nat /\ Len(clist') = New
      /\ \A d \in 1 .. Len(clist) : clist'[d] = clist[d]
      /\ clist'[New] = [x |-> i, y |-> Mate, pred |-> Predecessor(l)]
      /\ \A h \in 0 .. k' : Klist(h)' = IF h = l THEN New ELSE Klist(h)
      /\ \A h \in 0 .. k' : h # l => h \in 0 .. k
  BY <1>1, <1>2, <1>3, NewList
<1>5. /\ Above \in Nat /\ Above + 1 = i
      /\ Mate \in Nat \ {0} /\ Mate <= slen(2) /\ slen(2) \in Nat /\ <<i, Mate>> \in Middle
  BY MateIs
<1>6. /\ Rows(Middle, Above, Mate, slen(2), k, Row)
      /\ \A h \in 0 .. k : Row[h] = y(Klist(h)) /\ Row[h] \in 0 .. slen(2)
  BY RowIs
<1>7. /\ Len(clist) \in Nat \ {0} /\ New = Len(clist) + 1
      /\ \A h \in 0 .. k : Klist(h) \in 1 .. Len(clist)
  BY StoneTypes DEF Stone, New
<1>8. Candidates' /\ Ranked' /\ Earliest'
  BY NewCandidate
<1>9. Middle' = Middle /\ slen(1)' = slen(1) /\ slen(2)' = slen(2) /\ Pruned' /\ Hashed'
  BY <1>1, SameInput DEF Stone
<1>10. InRow'
  BY <1>1, <1>9 DEF Stone, InRow
<1>11. Replaced'
  BY DEF Replaced
<1>12. Thresholds'
  <2>1. PICK r, g, n : r = Row /\ g = Mate /\ n = slen(2)
    OBVIOUS
  <2>. DEFINE Z == [h \in 0 .. k + 1 |-> IF h = l THEN g ELSE r[h]]
  <2>2. /\ g \in Nat \ {0} /\ g <= n /\ n \in Nat /\ <<Above + 1, g>> \in Middle
        /\ Rows(Middle, Above, g, n, k, r) /\ Ends(Middle, Above, g, l)
    BY <1>3, <1>5, <1>6, <2>1
  <2>3. k = Best(Middle, Above + 1, g - 1) /\ Best(Middle, Above, g - 1) = Best(Middle, Above + 1, g - 1)
    <3>1. Best(Middle, Above + 1, g - 1) \in Nat
      <4>1. Above + 1 \in Nat /\ g - 1 \in Nat
        BY <1>5, <2>2
      <4>2. QED
        BY <4>1, BestType
    <3>2. QED
      BY <1>3, <2>2, <3>1 DEF Ends
  <2>4. /\ Z \in [0 .. k + 1 -> 0 .. n] /\ Z[k + 1] = g
        /\ \A h \in 0 .. k : Z[h] = r[h]
    <3>1. r \in [0 .. k -> 0 .. n]
      BY <2>2 DEF Rows
    <3>2. g \in 0 .. n
      BY <2>2
    <3>3. ASSUME NEW h \in 0 .. k + 1 PROVE Z[h] \in 0 .. n
      BY <1>3, <3>1, <3>2, <3>3
    <3>4. k + 1 \in 0 .. k + 1
      BY <1>3
    <3>5. QED
      BY <1>3, <3>3, <3>4
  <2>. HIDE DEF Z
  <2>5. Rows(Middle, Above, n + 1, n, k + 1, Z)
    BY <1>3, <1>5, <2>2, <2>3, <2>4, RowsLonger
  <2>6. ASSUME NEW h \in 0 .. k' PROVE Z[h] = y(Klist(h))'
    <3>2. y(Klist(h))' = clist'[Klist(h)'].y
      BY DEF y
    <3>3. CASE h = l
      BY <1>3, <1>4, <2>1, <2>4, <3>2, <3>3
    <3>4. CASE h # l
      <4>1. h \in 0 .. k
        BY <1>4, <3>4
      <4>2. Klist(h)' = Klist(h) /\ clist'[Klist(h)] = clist[Klist(h)]
        BY <1>4, <1>7, <3>4, <4>1
      <4>3. Z[h] = Row[h] /\ Row[h] = clist[Klist(h)].y
        BY <1>6, <2>1, <2>4, <4>1 DEF y
      <4>4. QED
        BY <3>2, <4>2, <4>3
    <3>5. QED
      BY <3>3, <3>4
  <2>7. \A a \in 0 .. slen(2) : Now(a)' = Merged(Middle, Above, slen(2) + 1, a)
    <3>1. \A a : Now(a)' = Reached(Middle, i, {}, a)
      BY <1>1, <1>9 DEF Now
    <3>2. QED
      BY <3>1, ReachedLater
  <2>8. \A a \in 0 .. slen(2) : /\ Merged(Middle, Above, slen(2) + 1, a) <= k'
                                /\ \A h \in 0 .. k' : Z[h] <= a <=> h <= Merged(Middle, Above, slen(2) + 1, a)
    BY <1>4, <2>1, <2>5 DEF Rows
  <2>9. \A a \in 0 .. slen(2) : /\ Now(a)' <= k'
                                /\ \A h \in 0 .. k' : y(Klist(h))' <= a <=> h <= Now(a)'
    BY <2>6, <2>7, <2>8
  <2>10. QED
    BY <1>9, <2>9 DEF Thresholds
<1>13. QED
  BY <1>8, <1>9, <1>10, <1>11, <1>12 DEF Stone

\* StoneMate keeps the invariant.
LEMMA StoneMateInv ==
  ASSUME Hashed, Stone, StoneMate
  PROVE  Hashed' /\ Stone'
<1>. DEFINE l == Search(Mate)
<1>1. mates # {} /\ UNCHANGED input /\ i' = i
  BY DEF StoneMate
<1>2. Hashed'
  BY <1>1, SameInput
<1>3. CASE Mate <= y(oldc) /\ UNCHANGED <<clist, klist, oldc, oldl>> /\ mates' = Later
  <2>1. Goes /\ Keeps /\ oldc' = oldc
    BY <1>1, <1>3 DEF Goes, Keeps
  <2>2. QED
    BY <1>1, <1>2, <1>3, <2>1, SkippedInv
<1>4. CASE Mate > y(oldc) /\ ~Better(l, Mate) /\ oldc' = Predecessor(l) /\ UNCHANGED <<clist, klist, oldl>>
           /\ mates' = Later
  <2>1. Goes /\ Keeps
    BY <1>1, <1>4 DEF Goes, Keeps
  <2>2. QED
    BY <1>1, <1>2, <1>4, <2>1, TriedInv
<1>5. CASE /\ Mate > y(oldc) /\ Better(l, Mate) /\ Candidate(l, Mate, Predecessor(l))
           /\ IF l <= k THEN oldc' = Klist(l) /\ oldl' = l /\ mates' = Later
              ELSE oldc' = Predecessor(l) /\ UNCHANGED oldl /\ mates' = {}
  <2>1. Makes(l)
    BY <1>1, <1>5 DEF Makes
  <2>2. CASE l <= k
    <3>1. Goes
      BY <1>1, <1>5, <2>2 DEF Goes
    <3>2. QED
      BY <1>1, <1>2, <1>5, <2>1, <2>2, <3>1, ReplacingInv
  <2>3. CASE ~(l <= k)
    BY <1>1, <1>2, <1>5, <2>1, <2>3, LongerInv
  <2>4. QED
    BY <2>2, <2>3
<1>6. QED
  BY <1>3, <1>4, <1>5 DEF StoneMate, Mate, Later

\* Prune establishes the invariant of stone.
LEMMA PruneInv ==
  ASSUME Hashed, mates = {}, Prune
  PROVE  Hashed' /\ Stone'
<1>1. /\ mates' = {} /\ i' = 0 /\ klist' = <<1>>
      /\ clist' = <<[x |-> 0, y |-> 0, pred |-> 1]>>
  BY DEF Prune
<1>2. Hashed' /\ Pruned'
  BY PruneGives
<1>3. slen(1)' \in Nat /\ slen(2)' \in Nat
  <2>1. len(1)' \in Nat /\ len(2)' \in Nat
    BY <1>2 DEF Hashed, len
  <2>2. QED
    BY <1>2, <2>1 DEF Pruned, slen
<1>4. InRow' /\ Replaced'
  BY <1>1, <1>3 DEF InRow, Replaced
<1>5. /\ Len(klist') = 1 /\ k' = 0 /\ Len(clist') = 1
      /\ clist'[1] = [x |-> 0, y |-> 0, pred |-> 1] /\ klist'[1] = 1
  BY <1>1 DEF k
<1>6. Candidates'
  <2>1. clist' \in Seq([x : Nat, y : Nat, pred : Nat \ {0}]) /\ clist' # <<>>
    BY <1>1
  <2>2. \A d \in 2 .. Len(clist') : FALSE
    BY <1>5
  <2>3. QED
    BY <1>5, <2>1, <2>2 DEF Candidates
<1>7. \A h \in 0 .. k' : h = 0 /\ Klist(h)' = 1
  <2>1. \A h \in 0 .. k' : h = 0
    BY <1>5
  <2>2. Klist(0)' = 1
    BY <1>5 DEF Klist
  <2>3. QED
    BY <2>1, <2>2
<1>8. \A n \in Nat : Best(Middle', 0, n) = 0
  BY BestType
<1>9. Ranked'
  <2>1. klist' \in Seq(1 .. Len(clist')) /\ klist' # <<>>
    BY <1>1, <1>5
  <2>2. ASSUME NEW h \in 0 .. k' PROVE Level(Klist(h))' = h
    <3>1. Level(Klist(h))' = Best(Middle', clist'[1].x, clist'[1].y)
      BY <1>7 DEF Level
    <3>2. QED
      BY <1>5, <1>7, <1>8, <3>1
  <2>3. QED
    BY <1>5, <2>1, <2>2 DEF Ranked
<1>10. Thresholds'
  <2>1. ASSUME NEW n \in 0 .. slen(2)' PROVE Now(n)' = 0
    <3>1. n \in Nat
      BY <1>3
    <3>2. Now(n)' = Best(Middle', 0, n)
      BY <1>1 DEF Now, Reached
    <3>3. QED
      BY <1>8, <3>1, <3>2
  <2>2. ASSUME NEW n \in 0 .. slen(2)', NEW h \in 0 .. k'
        PROVE  y(Klist(h))' <= n <=> h <= Now(n)'
    <3>1. y(Klist(h))' = 0
      BY <1>5, <1>7 DEF y
    <3>2. h = 0 /\ Now(n)' = 0 /\ 0 <= n
      BY <1>3, <1>7, <2>1
    <3>3. QED
      BY <3>1, <3>2
  <2>3. QED
    BY <1>5, <2>1, <2>2 DEF Thresholds
<1>11. Earliest'
  <2>1. \A h \in 1 .. k' : FALSE
    BY <1>5
  <2>2. QED
    BY <2>1 DEF Earliest
<1>12. QED
  BY <1>2, <1>4, <1>6, <1>9, <1>10, <1>11 DEF Stone

\* A longest subsequence up to line i, and the k-candidates there.
LEMMA LongestSoFar ==
  ASSUME Hashed, Stone, mates = {}
  PROVE  Best(Middle, i, slen(2)) = k /\ k \in Nat /\ Level(Klist(k)) = k
<1>1. /\ k \in Nat /\ slen(2) \in Nat /\ i \in Nat
      /\ \A l \in 0 .. k : Klist(l) \in 1 .. Len(clist)
      /\ \A d \in 1 .. Len(clist) : y(d) \in 0 .. slen(2)
  BY StoneTypes DEF Stone
<1>2. k \in 0 .. k /\ slen(2) \in 0 .. slen(2)
  BY <1>1
<1>3. y(Klist(k)) <= slen(2)
  <2>1. y(Klist(k)) \in 0 .. slen(2)
    BY <1>1, <1>2
  <2>2. QED
    BY <1>1, <2>1
<1>4. Now(slen(2)) = Best(Middle, i, slen(2))
  BY DEF Now, Reached
<1>5. Now(slen(2)) <= k /\ k <= Now(slen(2))
  BY <1>2, <1>3 DEF Stone, Thresholds
<1>6. Best(Middle, i, slen(2)) \in Nat
  BY <1>1, BestType
<1>7. Level(Klist(k)) = k
  BY <1>2 DEF Stone, Ranked
<1>8. QED
  BY <1>1, <1>4, <1>5, <1>6, <1>7

\* The invariant says of klist what the comment in diff.c does.
LEMMA StoneKCandidates ==
  ASSUME Hashed, pc = "stone" => Stone
  PROVE  KCandidates
<1>1. SUFFICES ASSUME Stone, mates = {} PROVE KCandidates
  BY DEF KCandidates
<1>2. /\ k \in Nat /\ slen(1) \in Nat /\ slen(2) \in Nat /\ i \in Nat /\ i <= slen(1)
      /\ Len(clist) \in Nat \ {0}
      /\ \A l \in 0 .. k : Klist(l) \in 1 .. Len(clist)
      /\ \A d \in 1 .. Len(clist) : y(d) \in 0 .. slen(2)
  BY <1>1, StoneTypes DEF Stone
<1>3. \A m \in 0 .. slen(1), n \in 0 .. slen(2) : LongestTo(m, n) = Best(Middle, m, n)
  BY <1>1, LongestToIs DEF Stone
<1>4. LongestTo(i, slen(2)) = k
  <2>1. i \in 0 .. slen(1) /\ slen(2) \in 0 .. slen(2)
    BY <1>2
  <2>2. Best(Middle, i, slen(2)) = k
    BY <1>1, LongestSoFar
  <2>3. QED
    BY <1>3, <2>1, <2>2
<1>5. ASSUME NEW n \in 1 .. k
      PROVE  LET c == clist[Klist(n)]
             IN  /\ LongestTo(i, c.y) = n /\ LongestTo(i, c.y - 1) = n - 1
                 /\ file[1][pref + c.x] = file[2][pref + c.y]
                 /\ \A x \in 1 .. c.x - 1 :
                      file[1][pref + x] = file[2][pref + c.y] => LongestTo(x, c.y) < n
  <2>1. n \in 0 .. k /\ n \in Nat /\ n # 0
    BY <1>2
  <2>2. PICK d : d = Klist(n)
    OBVIOUS
  <2>3. d \in 1 .. Len(clist) /\ Level(d) = n
    BY <1>1, <1>2, <2>1, <2>2 DEF Stone, Ranked
  <2>4. d # 1
    <3>1. Level(1) = 0
      <4>1. clist[1].x = 0 /\ clist[1].y = 0
        BY <1>1 DEF Stone, Candidates
      <4>2. QED
        BY <4>1, BestType DEF Level
    <3>2. QED
      BY <2>1, <2>3, <3>1
  <2>5. d \in 2 .. Len(clist)
    BY <1>2, <2>3, <2>4
  <2>6. PICK a, b : a = clist[d].x /\ b = clist[d].y
    OBVIOUS
  <2>7. a \in 1 .. i /\ b \in 1 .. slen(2) /\ <<a, b>> \in Middle
    BY <1>1, <2>5, <2>6 DEF Stone, Candidates, y
  <2>8. /\ a \in Nat /\ a - 1 \in Nat /\ a - 1 < slen(1) /\ b \in Nat /\ b \in 0 .. slen(2) /\ b - 1 \in Nat /\ b - 1 \in 0 .. slen(2)
        /\ (b - 1) + 1 = b /\ b - 1 < b /\ i \in 0 .. slen(1)
    BY <1>2, <2>7
  <2>9. Best(Middle, i, b) = n /\ Best(Middle, i, b - 1) = n - 1
    <3>1. \A c \in 0 .. slen(2) : y(Klist(n)) <= c <=> n <= Best(Middle, i, c)
      BY <1>1, <2>1 DEF Stone, Thresholds, Now, Reached
    <3>2. y(Klist(n)) = b
      BY <2>2, <2>6 DEF y
    <3>3. n <= Best(Middle, i, b) /\ ~(n <= Best(Middle, i, b - 1))
      <4>1. b <= b /\ ~(b <= b - 1)
        BY <2>8
      <4>2. QED
        BY <2>8, <3>1, <3>2, <4>1
    <3>4. Best(Middle, i, (b - 1) + 1) \in {Best(Middle, i, b - 1), Best(Middle, i, b - 1) + 1}
      BY <1>2, <2>8, BestSteps
    <3>5. Best(Middle, i, b) \in Nat /\ Best(Middle, i, b - 1) \in Nat
      BY <1>2, <2>8, BestType
    <3>6. QED
      BY <2>1, <2>8, <3>3, <3>4, <3>5
  <2>10. LongestTo(i, b) = n /\ LongestTo(i, b - 1) = n - 1
    BY <1>3, <2>8, <2>9
  <2>11. file[1][pref + a] = file[2][pref + b]
    BY <2>7 DEF Middle
  <2>12. ASSUME NEW x \in 1 .. a - 1 PROVE LongestTo(x, b) < n
    <3>1. x \in Nat /\ x <= a - 1 /\ x \in 0 .. slen(1) /\ b <= b
      BY <1>2, <2>8
    <3>2. LongestTo(x, b) = Best(Middle, x, b)
      BY <1>3, <2>8, <3>1
    <3>3. Best(Middle, x, b) <= Best(Middle, a - 1, b)
      BY <2>8, <3>1, BestMono
    <3>4. Best(Middle, a - 1, b) < n
      BY <1>1, <2>2, <2>6 DEF Stone, Earliest, y
    <3>5. Best(Middle, x, b) \in Nat /\ Best(Middle, a - 1, b) \in Nat
      BY <2>8, <3>1, BestType
    <3>6. QED
      BY <2>1, <3>2, <3>3, <3>4, <3>5
  <2>13. QED
    BY <2>2, <2>6, <2>10, <2>11, <2>12
<1>6. QED
  BY <1>4, <1>5 DEF KCandidates

-----------------------------------------------------------------------------
(* The chain of the longest subsequence.                                   *)

Chains(C) ==
    /\ C[1] = {}
    /\ \A d \in 2 .. Len(clist) : C[d] = {clist[d]} \cup C[clist[d].pred]

\* There is a function of chains, whose values Chain gives.
LEMMA ChainIs ==
  ASSUME Hashed, Stone
  PROVE  \E C : Chains(C) /\ \A d \in 1 .. Len(clist) : Chain(d) = C[d]
<1>. DEFINE n == Len(clist)
            Is(F, d) == F[d] = IF y(d) = 0 THEN {} ELSE {clist[d]} \cup F[clist[d].pred]
            Body(F) == [d \in 1 .. n |-> IF y(d) = 0 THEN {} ELSE {clist[d]} \cup F[clist[d].pred]]
            To(m, F) == F = [d \in 1 .. m |-> F[d]] /\ \A d \in 1 .. m : Is(F, d)
            S == {m \in Nat : m <= n => \E F : To(m, F)}
            M == CHOOSE F : F = Body(F)
<1>1. n \in Nat /\ n \in 0 .. n /\ clist[1].y = 0 /\ DOMAIN clist = 1 .. n
  BY DEF Stone, Candidates
<1>2. \A d \in 2 .. n : clist[d].pred \in 1 .. d - 1 /\ y(d) # 0
  <2>1. \A d \in 2 .. n : clist[d].pred \in 1 .. d - 1 /\ y(d) \in 1 .. slen(2)
    BY DEF Stone, Candidates
  <2>2. slen(2) \in Nat
    BY PrunedIs DEF Stone
  <2>3. QED
    BY <2>1, <2>2
<1>3. y(1) = 0
  BY <1>1 DEF y
<1>. HIDE DEF n
<1>4. ASSUME NEW d \in 1 .. n, y(d) # 0 PROVE clist[d].pred \in 1 .. d - 1
  <2>1. d \in 2 .. n
    BY <1>1, <1>3, <1>4
  <2>2. QED
    BY <1>2, <2>1
<1>5. 0 \in S
  <2>1. To(0, [d \in 1 .. 0 |-> {}])
    OBVIOUS
  <2>. HIDE DEF To
  <2>2. QED
    BY <2>1
<1>6. ASSUME NEW m \in Nat, m \in S PROVE m + 1 \in S
  <2>1. ASSUME m + 1 <= n PROVE \E F : To(m + 1, F)
    <3>2. m <= n /\ m + 1 \in 1 .. n
      BY <1>1, <2>1
    <3>3. PICK F : To(m, F)
      BY <1>6, <3>2
    <3>. DEFINE G == [d \in 1 .. m + 1 |->
                        IF d \in 1 .. m THEN F[d] ELSE IF y(d) = 0 THEN {} ELSE {clist[d]} \cup F[clist[d].pred]]
    <3>4. \A d \in 1 .. m : G[d] = F[d]
      OBVIOUS
    <3>5. ASSUME NEW d \in 1 .. m + 1 PROVE Is(G, d)
      <4>1. d \in 1 .. n
        BY <1>1, <3>2
      <4>2. y(d) # 0 => clist[d].pred \in 1 .. m
        <5>1. SUFFICES ASSUME y(d) # 0 PROVE clist[d].pred \in 1 .. m
          OBVIOUS
        <5>2. clist[d].pred \in 1 .. d - 1
          BY <1>4, <4>1, <5>1
        <5>3. QED
          BY <5>2
      <4>3. y(d) # 0 => G[clist[d].pred] = F[clist[d].pred]
        BY <3>4, <4>2
      <4>4. G[d] = IF d \in 1 .. m THEN F[d] ELSE IF y(d) = 0 THEN {} ELSE {clist[d]} \cup F[clist[d].pred]
        OBVIOUS
      <4>5. d \in 1 .. m => F[d] = IF y(d) = 0 THEN {} ELSE {clist[d]} \cup F[clist[d].pred]
        BY <3>3
      <4>. HIDE DEF G
      <4>6. QED
        BY <4>3, <4>4, <4>5
    <3>6. G = [d \in 1 .. m + 1 |-> G[d]]
      OBVIOUS
    <3>. HIDE DEF G, Is
    <3>7. To(m + 1, G)
      BY <3>5, <3>6
    <3>. HIDE DEF To
    <3>8. QED
      BY <3>7
  <2>2. m + 1 \in Nat
    OBVIOUS
  <2>. HIDE DEF To
  <2>3. QED
    BY <2>1, <2>2
<1>7. \A m \in Nat : m \in S
  <2>. HIDE DEF S
  <2>. QED
    BY <1>5, <1>6, NatSet
<1>8. PICK F : To(n, F)
  <2>1. n \in S /\ n <= n
    <3>. HIDE DEF S
    <3>. QED
      BY <1>1, <1>7
  <2>. HIDE DEF To
  <2>2. QED
    BY <2>1
<1>9. F = Body(F)
  BY <1>8
<1>10. M = Body(M)
  <2>. HIDE DEF Body
  <2>. QED
    BY <1>9
<1>. HIDE DEF M
<1>11. \A d \in 1 .. n : Is(M, d)
  BY <1>10
<1>12. \A d \in 1 .. n : Chain(d) = M[d]
  BY <1>1 DEF Chain, M
<1>13. Chains(M)
  <2>1. M[1] = {} \/ n = 0
    <3>1. n = 0 \/ 1 \in 1 .. n
      BY <1>1
    <3>2. QED
      BY <1>3, <1>11, <3>1
  <2>2. n # 0
    BY DEF Stone, Candidates, n
  <2>3. ASSUME NEW d \in 2 .. n PROVE M[d] = {clist[d]} \cup M[clist[d].pred]
    <3>1. d \in 1 .. n
      BY <1>1
    <3>2. QED
      BY <1>2, <1>11, <3>1
  <2>4. QED
    BY <2>1, <2>2, <2>3 DEF Chains, n
<1>14. QED
  BY <1>12, <1>13 DEF n

\* S is a common subsequence, h counts its lines.
CountsTo(S, h) ==
    /\ h \in [0 .. slen(1) -> Nat] /\ h[0] = 0
    /\ \A n \in 1 .. slen(1) : h[n] = h[n - 1] + (IF \E c \in S : c.x = n THEN 1 ELSE 0)

Linked(S, a, b, level) ==
    /\ \A c \in S : c.x \in 1 .. a /\ c.y \in 1 .. b
    /\ \A c, e \in S : (c.x < e.x => c.y < e.y) /\ (c.x = e.x => c = e)
    /\ \E h : CountsTo(S, h) /\ \A n \in a .. slen(1) : h[n] = level

\* A chain with one more link.
LEMMA LinkedMore ==
  ASSUME Hashed, Pruned, NEW S, NEW a \in 0 .. slen(1), NEW b \in Nat, NEW level \in Nat,
         Linked(S, a, b, level),
         NEW c, c.x \in 1 .. slen(1), c.y \in Nat, a < c.x, b < c.y
  PROVE  Linked({c} \cup S, c.x, c.y, level + 1)
<1>1. slen(1) \in Nat
  BY PrunedIs
<1>2. PICK q, v, w : q = slen(1) /\ v = c.x /\ w = c.y
  OBVIOUS
<1>3. q \in Nat /\ a \in 0 .. q /\ v \in 1 .. q /\ w \in Nat /\ a < v /\ b < w /\ v \in Nat /\ a \in Nat
  BY <1>1, <1>2
<1>4. /\ \A e \in S : e.x \in 1 .. a /\ e.y \in 1 .. b
      /\ \A d, e \in S : (d.x < e.x => d.y < e.y) /\ (d.x = e.x => d = e)
  BY DEF Linked
<1>5. PICK h : CountsTo(S, h) /\ \A n \in a .. slen(1) : h[n] = level
  BY DEF Linked
<1>6. /\ h \in [0 .. q -> Nat] /\ h[0] = 0
      /\ \A n \in 1 .. q : h[n] = h[n - 1] + (IF \E e \in S : e.x = n THEN 1 ELSE 0)
      /\ \A n \in a .. q : h[n] = level
  BY <1>2, <1>5 DEF CountsTo
<1>7. \A e \in S : e.x < v /\ e.y < w /\ e.x \in Nat /\ e.y \in Nat
  BY <1>3, <1>4
<1>8. \A e \in {c} \cup S : e.x \in 1 .. v /\ e.y \in 1 .. w
  BY <1>2, <1>3, <1>4, <1>7
<1>9. \A d, e \in {c} \cup S : (d.x < e.x => d.y < e.y) /\ (d.x = e.x => d = e)
  <2>1. SUFFICES ASSUME NEW d \in {c} \cup S, NEW e \in {c} \cup S
                 PROVE  (d.x < e.x => d.y < e.y) /\ (d.x = e.x => d = e)
    OBVIOUS
  <2>2. CASE d \in S /\ e \in S
    BY <1>4, <2>2
  <2>3. CASE d \in S /\ e = c
    <3>1. d.x < v /\ d.y < w /\ d.x \in Nat
      BY <1>7, <2>3
    <3>2. d.x # v
      BY <1>3, <3>1
    <3>3. QED
      BY <1>2, <2>3, <3>1, <3>2
  <2>4. CASE d = c /\ e \in S
    <3>1. e.x < v /\ e.x \in Nat
      BY <1>7, <2>4
    <3>2. ~(v < e.x) /\ v # e.x
      BY <1>3, <3>1
    <3>3. QED
      BY <1>2, <2>4, <3>2
  <2>5. CASE d = c /\ e = c
    <3>1. ~(v < v)
      BY <1>3
    <3>2. QED
      BY <1>2, <2>5, <3>1
  <2>6. QED
    BY <2>2, <2>3, <2>4, <2>5
<1>. DEFINE H == [n \in 0 .. q |-> IF n < v THEN h[n] ELSE level + 1]
<1>10. H \in [0 .. q -> Nat] /\ H[0] = 0 /\ \A n \in 0 .. q : H[n] = IF n < v THEN h[n] ELSE level + 1
  BY <1>3, <1>6
<1>11. \A n \in v .. q : H[n] = level + 1
  BY <1>3, <1>10
<1>. HIDE DEF H
<1>12. ASSUME NEW n \in 1 .. q
       PROVE  H[n] = H[n - 1] + (IF \E e \in {c} \cup S : e.x = n THEN 1 ELSE 0)
  <2>1. n \in 0 .. q /\ n - 1 \in 0 .. q /\ n \in Nat /\ n - 1 < n
    BY <1>3
  <2>2. h[n] = h[n - 1] + (IF \E e \in S : e.x = n THEN 1 ELSE 0) /\ h[n - 1] \in Nat
    BY <1>6, <2>1
  <2>3. H[n] = (IF n < v THEN h[n] ELSE level + 1) /\ H[n - 1] = (IF n - 1 < v THEN h[n - 1] ELSE level + 1)
    BY <1>10, <2>1
  <2>4. CASE n < v
    <3>1. (\E e \in {c} \cup S : e.x = n) <=> \E e \in S : e.x = n
      BY <1>2, <1>3, <2>1, <2>4
    <3>2. n - 1 < v
      BY <1>3, <2>1, <2>4
    <3>3. QED
      BY <2>2, <2>3, <2>4, <3>1, <3>2
  <2>5. CASE n = v
    <3>1. \E e \in {c} \cup S : e.x = n
      BY <1>2, <2>5
    <3>2. n - 1 \in a .. q /\ n - 1 < v /\ ~(n < v)
      BY <1>3, <2>1, <2>5
    <3>3. h[n - 1] = level
      BY <1>6, <3>2
    <3>4. QED
      BY <2>3, <3>1, <3>2, <3>3
  <2>6. CASE n > v
    <3>1. ~(\E e \in {c} \cup S : e.x = n)
      <4>1. \A e \in S : e.x # n
        <5>1. SUFFICES ASSUME NEW e \in S, e.x = n PROVE FALSE
          OBVIOUS
        <5>2. e.x < v /\ e.x \in Nat
          BY <1>7
        <5>3. QED
          BY <1>3, <2>1, <2>6, <5>1, <5>2
      <4>2. c.x # n
        BY <1>2, <1>3, <2>1, <2>6
      <4>3. QED
        BY <4>1, <4>2
    <3>2. ~(n - 1 < v) /\ ~(n < v)
      BY <1>3, <2>1, <2>6
    <3>3. QED
      BY <2>3, <3>1, <3>2
  <2>7. QED
    BY <1>3, <2>1, <2>4, <2>5, <2>6
<1>13. CountsTo({c} \cup S, H)
  BY <1>2, <1>10, <1>12 DEF CountsTo
<1>14. QED
  BY <1>2, <1>8, <1>9, <1>11, <1>13 DEF Linked

\* The chain of a candidate is a common subsequence of its length.
LEMMA ChainLinked ==
  ASSUME Hashed, Stone, NEW C, Chains(C)
  PROVE  \A d \in 1 .. Len(clist) : Linked(C[d], clist[d].x, clist[d].y, Level(d))
<1>. DEFINE n == Len(clist)
            Fine(d) == Linked(C[d], clist[d].x, clist[d].y, Level(d))
            S == {d \in Nat : d \in 1 .. n /\ ~Fine(d)}
<1>1. /\ n \in Nat \ {0} /\ clist[1].x = 0 /\ y(1) = 0 /\ i \in Nat
      /\ \A d \in 1 .. n : clist[d].x \in 0 .. i /\ y(d) \in 0 .. slen(2)
      /\ i <= slen(1) /\ slen(1) \in Nat /\ slen(2) \in Nat
  BY StoneTypes DEF Stone
<1>2. ASSUME NEW d \in 1 .. n
      PROVE  clist[d].x \in 0 .. slen(1) /\ clist[d].y \in Nat /\ Level(d) \in Nat
  <2>1. clist[d].x \in 0 .. i /\ clist[d].y \in 0 .. slen(2)
    BY <1>1 DEF y
  <2>2. clist[d].x \in 0 .. slen(1) /\ clist[d].x \in Nat /\ clist[d].y \in Nat
    BY <1>1, <2>1
  <2>3. QED
    BY <2>2, BestType DEF Level
<1>3. Fine(1)
  <2>1. C[1] = {} /\ clist[1].x = 0 /\ Level(1) = 0
    BY <1>1, BestType DEF Chains, Level, y
  <2>. DEFINE h == [m \in 0 .. slen(1) |-> 0]
  <2>2. CountsTo({}, h) /\ \A m \in 0 .. slen(1) : h[m] = 0
    <3>1. \A m \in 1 .. slen(1) : m \in 0 .. slen(1) /\ m - 1 \in 0 .. slen(1)
      BY <1>1
    <3>2. 0 \in 0 .. slen(1)
      BY <1>1
    <3>3. QED
      BY <3>1, <3>2 DEF CountsTo
  <2>. HIDE DEF h
  <2>3. QED
    BY <2>1, <2>2 DEF Linked
<1>. HIDE DEF n, Fine
<1>4. SUFFICES ASSUME S # {} PROVE FALSE
  BY DEF Fine, n
<1>5. PICK d \in S : \A e \in S : d <= e
  <2>1. S \in SUBSET Nat
    OBVIOUS
  <2>. HIDE DEF S
  <2>2. QED
    BY <1>4, <2>1, LeastNat
<1>6. d \in 1 .. n /\ ~Fine(d) /\ d \in Nat
  BY <1>5
<1>7. d \in 2 .. n
  <2>1. d # 1
    BY <1>3, <1>6
  <2>2. QED
    BY <1>1, <1>6, <2>1
<1>8. PICK p : p = clist[d].pred
  OBVIOUS
<1>9. /\ clist[d].x \in 1 .. i /\ clist[d].y \in 1 .. slen(2)
      /\ p \in 1 .. d - 1 /\ clist[p].x < clist[d].x /\ clist[p].y < clist[d].y
      /\ Level(d) = Level(p) + 1
  BY <1>7, <1>8 DEF Stone, Candidates, y, n
<1>10. p \in 1 .. n /\ p \in Nat /\ ~(d <= p)
  BY <1>1, <1>6, <1>9
<1>11. Fine(p)
  BY <1>5, <1>10
<1>12. PICK a, b, level : a = clist[p].x /\ b = clist[p].y /\ level = Level(p)
  OBVIOUS
<1>13. a \in 0 .. slen(1) /\ b \in Nat /\ level \in Nat /\ Linked(C[p], a, b, level)
  BY <1>2, <1>10, <1>11, <1>12 DEF Fine
<1>14. PICK c : c = clist[d]
  OBVIOUS
<1>15. c.x \in 1 .. slen(1) /\ c.y \in Nat /\ a < c.x /\ b < c.y
  BY <1>1, <1>9, <1>12, <1>14
<1>16. Linked({c} \cup C[p], c.x, c.y, level + 1)
  BY <1>13, <1>15, LinkedMore DEF Stone
<1>17. C[d] = {clist[d]} \cup C[p]
  BY <1>7, <1>8 DEF Chains, n
<1>18. QED
  BY <1>6, <1>9, <1>12, <1>14, <1>16, <1>17 DEF Fine

-----------------------------------------------------------------------------
(* The match vector.                                                       *)

Matched ==
    /\ i \in 1 .. len(1) + 1
    /\ J \in [0 .. len(1) + 1 -> Int]
    /\ J[len(1) + 1] = len(2) + 1
    /\ J[i - 1] >= 0
    /\ \A n \in i .. len(1) + 1 : J[n] # 0 => \A m \in i - 1 .. n - 1 : J[m] < J[n]
    /\ len(1) = 0 => J[0] = 0
    /\ \/ i = 1 /\ J[0] = 0
       \/ J[i] # 0 /\ J[i - 1] = J[i] - 1
    /\ \E c \in [0 .. len(1) -> Nat] : Counts(c)

\* What unravel and output make of a chain S.
Vector(S, p, a, b, q, V) ==
    /\ V \in [0 .. p + a + q + 1 -> Int]
    /\ \A n \in 0 .. p : V[n] = n
    /\ \A n \in 1 .. a : /\ \A c \in S : c.x = n => V[p + n] = c.y + p
                         /\ (\A c \in S : c.x # n) => V[p + n] = 0
    /\ \A n \in 1 .. q : V[p + a + n] = p + b + n
    /\ V[p + a + q + 1] = p + b + q + 1

\* Matches are in order.
LEMMA VectorGrows ==
  ASSUME NEW S, NEW p \in Nat, NEW a \in Nat, NEW b \in Nat, NEW q \in Nat, NEW V,
         Vector(S, p, a, b, q, V),
         \A c \in S : c.x \in 1 .. a /\ c.y \in 1 .. b,
         \A c, e \in S : c.x < e.x => c.y < e.y,
         NEW n \in 1 .. p + a + q + 1, NEW m \in 0 .. n - 1, V[n] # 0
  PROVE  V[m] < V[n]
<1>1. \A h \in 0 .. p : V[h] = h
  BY DEF Vector
<1>2. \A h \in 1 .. a : /\ \A c \in S : c.x = h => V[p + h] = c.y + p
                        /\ (\A c \in S : c.x # h) => V[p + h] = 0
  BY DEF Vector
<1>3. \A h \in 1 .. q + 1 : V[p + a + h] = p + b + h
  <2>1. SUFFICES ASSUME NEW h \in 1 .. q + 1 PROVE V[p + a + h] = p + b + h
    OBVIOUS
  <2>2. CASE h = q + 1
    <3>1. p + a + h = p + a + q + 1 /\ p + b + h = p + b + q + 1
      BY <2>2
    <3>2. QED
      BY <3>1 DEF Vector
  <2>3. CASE h # q + 1
    <3>1. h \in 1 .. q
      BY <2>3
    <3>2. QED
      BY <3>1 DEF Vector
  <2>4. QED
    BY <2>2, <2>3
<1>4. ASSUME NEW h \in p + 1 .. p + a
      PROVE  V[h] = 0 \/ \E c \in S : c.x = h - p /\ V[h] = c.y + p
  <2>1. PICK l : l = h - p
    OBVIOUS
  <2>2. l \in 1 .. a /\ p + l = h
    BY <2>1
  <2>3. QED
    BY <1>2, <2>1, <2>2
<1>5. ASSUME NEW h \in p + a + 1 .. p + a + q + 1 PROVE V[h] = h - a + b
  <2>1. PICK l : l = h - p - a
    OBVIOUS
  <2>2. l \in 1 .. q + 1 /\ p + a + l = h /\ p + b + l = h - a + b
    BY <2>1
  <2>3. QED
    BY <1>3, <2>2
<1>6. n \in Nat /\ m \in Nat /\ m < n
  OBVIOUS
<1>7. CASE n <= p
  <2>1. n \in 0 .. p /\ m \in 0 .. p
    BY <1>6, <1>7
  <2>2. QED
    BY <1>1, <1>6, <2>1
<1>8. CASE n \in p + 1 .. p + a
  <2>1. PICK c \in S : c.x = n - p /\ V[n] = c.y + p
    BY <1>4, <1>8
  <2>2. c.y \in 1 .. b
    OBVIOUS
  <2>3. PICK w : w = c.y
    OBVIOUS
  <2>4. w \in Nat /\ w > 0 /\ V[n] = w + p
    BY <2>1, <2>2, <2>3
  <2>5. CASE m <= p
    <3>1. V[m] = m
      BY <1>1, <1>6, <2>5
    <3>2. QED
      BY <1>6, <2>4, <2>5, <3>1
  <2>6. CASE m > p
    <3>1. m \in p + 1 .. p + a
      BY <1>6, <1>8, <2>6
    <3>2. CASE V[m] = 0
      BY <2>4, <3>2
    <3>3. CASE V[m] # 0
      <4>1. PICK e \in S : e.x = m - p /\ V[m] = e.y + p
        BY <1>4, <3>1, <3>3
      <4>2. e.x < c.x
        BY <1>6, <2>1, <4>1
      <4>3. e.y < w
        BY <2>3, <4>2
      <4>4. e.y \in Nat
        OBVIOUS
      <4>5. QED
        BY <2>4, <4>1, <4>3, <4>4
    <3>4. QED
      BY <3>2, <3>3
  <2>7. QED
    BY <1>6, <2>5, <2>6
<1>9. CASE n > p + a
  <2>1. n \in p + a + 1 .. p + a + q + 1
    BY <1>6, <1>9
  <2>2. V[n] = n - a + b
    BY <1>5, <2>1
  <2>3. CASE m <= p
    <3>1. V[m] = m
      BY <1>1, <1>6, <2>3
    <3>2. QED
      BY <1>6, <1>9, <2>2, <2>3, <3>1
  <2>4. CASE m \in p + 1 .. p + a
    <3>1. CASE V[m] = 0
      BY <1>6, <1>9, <2>2, <3>1
    <3>2. CASE V[m] # 0
      <4>1. PICK e \in S : e.x = m - p /\ V[m] = e.y + p
        BY <1>4, <2>4, <3>2
      <4>2. e.y \in 1 .. b
        OBVIOUS
      <4>3. PICK w : w = e.y
        OBVIOUS
      <4>4. w \in Nat /\ w <= b /\ V[m] = w + p
        BY <4>1, <4>2, <4>3
      <4>5. QED
        BY <1>6, <1>9, <2>2, <4>4
    <3>3. QED
      BY <3>1, <3>2
  <2>5. CASE m > p + a
    <3>1. m \in p + a + 1 .. p + a + q + 1
      BY <1>6, <2>1, <2>5
    <3>2. V[m] = m - a + b
      BY <1>5, <3>1
    <3>3. QED
      BY <1>6, <2>2, <3>2
  <2>6. QED
    BY <1>6, <2>3, <2>4, <2>5
<1>10. QED
  BY <1>6, <1>7, <1>8, <1>9

\* The links of S are in a box; h counts those up to each line, c the places
\* of V that are not 0.
Boxed(S, a, b) == \A c \in S : c.x \in 1 .. a /\ c.y \in 1 .. b
Tally(S, a, h) ==
    /\ h \in [0 .. a -> Nat] /\ h[0] = 0
    /\ \A n \in 1 .. a : h[n] = h[n - 1] + (IF \E c \in S : c.x = n THEN 1 ELSE 0)
Marks(V, a, c) ==
    /\ c \in [0 .. a -> Nat] /\ c[0] = 0
    /\ \A n \in 1 .. a : c[n] = c[n - 1] + (IF V[n] # 0 THEN 1 ELSE 0)

\* So many lines have a match.
Counted(V, p, a, q, h) == \E c : Marks(V, p + a + q, c) /\ c[p + a + q] = p + h[a] + q

\* So many lines have a match as the beginning, the chain and the end have.
LEMMA VectorCounts ==
  ASSUME NEW S, NEW p \in Nat, NEW a \in Nat, NEW b \in Nat, NEW q \in Nat, NEW V, NEW h,
         Vector(S, p, a, b, q, V), Boxed(S, a, b), Tally(S, a, h)
  PROVE  Counted(V, p, a, q, h)
<1>0. /\ \A c \in S : c.x \in 1 .. a /\ c.y \in 1 .. b
      /\ h \in [0 .. a -> Nat] /\ h[0] = 0
      /\ \A n \in 1 .. a : h[n] = h[n - 1] + (IF \E c \in S : c.x = n THEN 1 ELSE 0)
  BY DEF Boxed, Tally
<1>. DEFINE c == [n \in 0 .. p + a + q |->
                    IF n <= p THEN n ELSE IF n <= p + a THEN p + h[n - p] ELSE p + h[a] + (n - p - a)]
<1>1. \A n \in 0 .. p + a + q : c[n] = IF n <= p THEN n ELSE IF n <= p + a THEN p + h[n - p] ELSE p + h[a] + (n - p - a)
  OBVIOUS
<1>2. h[a] \in Nat /\ \A n \in 0 .. a : h[n] \in Nat
  BY <1>0
<1>3. c \in [0 .. p + a + q -> Nat]
  <2>1. SUFFICES ASSUME NEW n \in 0 .. p + a + q
                 PROVE  (IF n <= p THEN n ELSE IF n <= p + a THEN p + h[n - p] ELSE p + h[a] + (n - p - a)) \in Nat
    OBVIOUS
  <2>2. n > p /\ n <= p + a => n - p \in 0 .. a
    OBVIOUS
  <2>3. n > p /\ n <= p + a => h[n - p] \in Nat
    BY <1>2, <2>2
  <2>4. QED
    BY <1>2, <2>3
<1>4. c[0] = 0
  <2>1. 0 \in 0 .. p + a + q /\ 0 <= p
    OBVIOUS
  <2>2. QED
    BY <1>1, <2>1
<1>5. c[p + a + q] = p + h[a] + q
  <2>1. PICK n : n = p + a + q
    OBVIOUS
  <2>2. n \in 0 .. p + a + q
    BY <2>1
  <2>3. c[n] = IF n <= p THEN n ELSE IF n <= p + a THEN p + h[n - p] ELSE p + h[a] + (n - p - a)
    BY <1>1, <2>2
  <2>. HIDE DEF c
  <2>4. CASE n <= p
    <3>1. n = p /\ a = 0 /\ q = 0
      BY <2>1, <2>4
    <3>2. QED
      BY <1>0, <2>1, <2>3, <2>4, <3>1
  <2>5. CASE n > p /\ n <= p + a
    <3>1. n - p = a /\ q = 0
      BY <2>1, <2>5
    <3>2. c[n] = p + h[n - p]
      BY <2>1, <2>3, <2>5
    <3>3. QED
      BY <1>2, <2>1, <3>1, <3>2
  <2>6. CASE n > p /\ n > p + a
    <3>1. n - p - a = q
      BY <2>1
    <3>2. c[n] = p + h[a] + (n - p - a)
      BY <2>1, <2>3, <2>6
    <3>3. QED
      BY <2>1, <3>1, <3>2
  <2>7. QED
    BY <2>1, <2>4, <2>5, <2>6
<1>6. ASSUME NEW n \in 1 .. p + a + q PROVE c[n] = c[n - 1] + (IF V[n] # 0 THEN 1 ELSE 0)
  <2>1. n \in 0 .. p + a + q /\ n - 1 \in 0 .. p + a + q /\ n \in Nat
    OBVIOUS
  <2>2. /\ c[n] = IF n <= p THEN n ELSE IF n <= p + a THEN p + h[n - p] ELSE p + h[a] + (n - p - a)
        /\ c[n - 1] = IF n - 1 <= p THEN n - 1 ELSE IF n - 1 <= p + a THEN p + h[(n - 1) - p]
                      ELSE p + h[a] + ((n - 1) - p - a)
    BY <1>1, <2>1
  <2>. HIDE DEF c
  <2>3. CASE n <= p
    <3>1. V[n] = n
      BY <2>1, <2>3 DEF Vector
    <3>2. QED
      BY <2>1, <2>2, <2>3, <3>1
  <2>4. CASE n > p /\ n <= p + a
    <3>1. PICK l : l = n - p
      OBVIOUS
    <3>2. l \in 1 .. a /\ p + l = n /\ l - 1 \in 0 .. a /\ (n - 1) - p = l - 1 /\ l \in Nat
      BY <2>1, <2>4, <3>1
    <3>3. c[n] = p + h[l]
      BY <2>1, <2>2, <2>4, <3>1
    <3>4. c[n - 1] = p + h[l - 1]
      <4>1. CASE l = 1
        <5>1. n - 1 = p /\ n - 1 <= p /\ l - 1 = 0
          BY <3>2, <4>1
        <5>2. QED
          BY <1>0, <2>2, <5>1
      <4>2. CASE l # 1
        <5>1. ~(n - 1 <= p) /\ n - 1 <= p + a
          BY <2>1, <2>4, <3>2, <4>2
        <5>2. QED
          BY <2>2, <3>2, <5>1
      <4>3. QED
        BY <4>1, <4>2
    <3>5. h[l] = h[l - 1] + (IF \E e \in S : e.x = l THEN 1 ELSE 0)
      BY <1>0, <3>2
    <3>6. V[n] # 0 <=> \E e \in S : e.x = l
      <4>1. ASSUME NEW e \in S, e.x = l PROVE V[n] # 0
        <5>1. V[p + l] = e.y + p
          BY <3>2, <4>1 DEF Vector
        <5>2. e.y \in 1 .. b
          BY <1>0
        <5>3. QED
          BY <3>2, <5>1, <5>2
      <4>2. ASSUME \A e \in S : e.x # l PROVE V[n] = 0
        BY <3>2, <4>2 DEF Vector
      <4>3. QED
        BY <4>1, <4>2
    <3>7. h[l - 1] \in Nat
      BY <1>2, <3>2
    <3>8. QED
      BY <3>3, <3>4, <3>5, <3>6, <3>7
  <2>5. CASE n > p /\ n > p + a
    <3>1. PICK l : l = n - p - a
      OBVIOUS
    <3>2. l \in 1 .. q /\ p + a + l = n /\ (n - 1) - p - a = l - 1
      BY <2>1, <2>5, <3>1
    <3>3. V[n] # 0
      <4>1. V[p + a + l] = p + b + l
        BY <3>2 DEF Vector
      <4>2. QED
        BY <3>2, <4>1
    <3>4. c[n] = p + h[a] + l
      BY <2>1, <2>2, <2>5, <3>1
    <3>5. c[n - 1] = p + h[a] + (l - 1)
      <4>1. CASE l = 1 /\ a = 0
        <5>1. n - 1 = p /\ n - 1 <= p /\ h[a] = 0
          BY <1>0, <3>2, <4>1
        <5>2. QED
          BY <2>2, <4>1, <5>1
      <4>2. CASE l = 1 /\ a # 0
        <5>1. ~(n - 1 <= p) /\ n - 1 <= p + a /\ (n - 1) - p = a
          BY <3>2, <4>2
        <5>2. c[n - 1] = p + h[a]
          BY <2>2, <5>1
        <5>3. QED
          BY <1>2, <4>2, <5>2
      <4>3. CASE l # 1
        <5>1. ~(n - 1 <= p) /\ ~(n - 1 <= p + a)
          BY <3>2, <4>3
        <5>2. QED
          BY <2>2, <3>2, <5>1
      <4>4. QED
        BY <4>1, <4>2, <4>3
    <3>6. QED
      BY <1>2, <3>2, <3>3, <3>4, <3>5
  <2>6. QED
    BY <2>1, <2>3, <2>4, <2>5
<1>. HIDE DEF c
<1>7. Marks(V, p + a + q, c)
  BY <1>3, <1>4, <1>6 DEF Marks
<1>8. QED
  BY <1>5, <1>7 DEF Counted

\* Unravel makes a match vector with a longest common subsequence.
LEMMA UnravelInv ==
  ASSUME Hashed, Stone, Unravel, added = 0, removed = 0
  PROVE  Hashed' /\ Matched'
<1>1. /\ mates = {} /\ i = slen(1) /\ i' = 1 /\ added' = 0 /\ removed' = 0
      /\ UNCHANGED input
  BY DEF Unravel
<1>2. /\ Hashed' /\ len(1)' = len(1) /\ len(2)' = len(2) /\ file' = file
  BY <1>1, SameInput
<1>3. /\ pref \in Nat /\ suff \in Nat /\ slen(1) \in Nat /\ slen(2) \in Nat
      /\ len(1) = pref + slen(1) + suff /\ len(2) = pref + slen(2) + suff
  BY PrunedIs DEF Stone
<1>4. /\ k \in Nat /\ Klist(k) \in 1 .. Len(clist)
      /\ \A d \in 1 .. Len(clist) : clist[d].x \in 0 .. i /\ y(d) \in 0 .. slen(2)
  BY StoneTypes DEF Stone
<1>5. PICK C : Chains(C) /\ \A d \in 1 .. Len(clist) : Chain(d) = C[d]
  BY ChainIs
<1>6. PICK d : d = Klist(k)
  OBVIOUS
<1>7. PICK S : S = Chain(d)
  OBVIOUS
<1>8. Linked(S, clist[d].x, clist[d].y, Level(d))
  <2>1. \A e \in 1 .. Len(clist) : Linked(C[e], clist[e].x, clist[e].y, Level(e))
    BY <1>5, ChainLinked
  <2>2. QED
    BY <1>4, <1>5, <1>6, <1>7, <2>1
<1>9. PICK p, a, b, q : p = pref /\ a = slen(1) /\ b = slen(2) /\ q = suff
  OBVIOUS
<1>10. p \in Nat /\ a \in Nat /\ b \in Nat /\ q \in Nat /\ len(1) = p + a + q /\ len(2) = p + b + q
  BY <1>3, <1>9
<1>11. clist[d].x \in 0 .. a /\ clist[d].y \in 0 .. b
  BY <1>1, <1>4, <1>6, <1>9 DEF y
<1>12. /\ \A c \in S : c.x \in 1 .. a /\ c.y \in 1 .. b
       /\ \A c, e \in S : (c.x < e.x => c.y < e.y) /\ (c.x = e.x => c = e)
  <2>1. \A c \in S : c.x \in 1 .. clist[d].x /\ c.y \in 1 .. clist[d].y
    BY <1>8 DEF Linked
  <2>2. QED
    BY <1>8, <1>10, <1>11, <2>1 DEF Linked
<1>13. PICK h : h \in [0 .. a -> Nat] /\ h[0] = 0 /\ h[a] = Level(d)
                /\ \A n \in 1 .. a : h[n] = h[n - 1] + (IF \E c \in S : c.x = n THEN 1 ELSE 0)
  <2>1. PICK h : CountsTo(S, h) /\ \A n \in clist[d].x .. slen(1) : h[n] = Level(d)
    BY <1>8 DEF Linked
  <2>2. a \in clist[d].x .. slen(1)
    BY <1>9, <1>10, <1>11
  <2>3. QED
    BY <1>9, <2>1, <2>2 DEF CountsTo
<1>14. h[a] = Best(Middle, a, b)
  BY <1>1, <1>6, <1>9, <1>13, LongestSoFar
<1>. DEFINE here(n) == {c \in S : c.x + p = n}
            at0(n) == IF n = p + a + q + 1 THEN p + b + q + 1
                      ELSE IF n <= p THEN n
                      ELSE IF n > p + a + q - q THEN n + (p + b + q) - (p + a + q)
                      ELSE IF here(n) = {} THEN 0
                      ELSE (CHOOSE c \in here(n) : TRUE).y + p
<1>15. J' = [n \in 0 .. p + a + q + 1 |-> at0(n)]
  BY <1>6, <1>7, <1>9, <1>10 DEF Unravel
<1>. HIDE DEF at0
<1>16. DOMAIN J' = 0 .. p + a + q + 1 /\ \A n \in 0 .. p + a + q + 1 : J'[n] = at0(n)
  BY <1>15
<1>17. \A n \in 0 .. p : at0(n) = n
  <2>1. SUFFICES ASSUME NEW n \in 0 .. p PROVE at0(n) = n
    OBVIOUS
  <2>2. n <= p /\ n # p + a + q + 1
    BY <1>10
  <2>3. QED
    BY <2>2 DEF at0
<1>18. ASSUME NEW n \in 1 .. a
       PROVE  /\ \A c \in S : c.x = n => at0(p + n) = c.y + p
              /\ (\A c \in S : c.x # n) => at0(p + n) = 0
  <2>1. p + n # p + a + q + 1 /\ ~(p + n <= p) /\ ~(p + n > p + a + q - q)
    BY <1>10
  <2>2. at0(p + n) = IF here(p + n) = {} THEN 0 ELSE (CHOOSE c \in here(p + n) : TRUE).y + p
    BY <2>1 DEF at0
  <2>3. here(p + n) = {c \in S : c.x = n}
    <3>1. \A c \in S : c.x + p = p + n <=> c.x = n
      BY <1>10, <1>12
    <3>2. QED
      BY <3>1
  <2>4. ASSUME NEW c \in S, c.x = n PROVE at0(p + n) = c.y + p
    <3>1. c \in here(p + n)
      BY <2>3, <2>4
    <3>2. \A e \in here(p + n) : e = c
      BY <1>12, <2>3, <2>4
    <3>. HIDE DEF here
    <3>3. (CHOOSE e \in here(p + n) : TRUE) = c
      BY <3>1, <3>2
    <3>4. QED
      BY <2>2, <3>1, <3>3
  <2>5. ASSUME \A c \in S : c.x # n PROVE at0(p + n) = 0
    BY <2>2, <2>3, <2>5
  <2>6. QED
    BY <2>4, <2>5
<1>19. ASSUME NEW n \in 1 .. q PROVE at0(p + a + n) = p + b + n
  <2>1. /\ p + a + n # p + a + q + 1 /\ ~(p + a + n <= p) /\ p + a + n > p + a + q - q
        /\ (p + a + n) + (p + b + q) - (p + a + q) = p + b + n
    BY <1>10
  <2>2. QED
    BY <2>1 DEF at0
<1>20. at0(p + a + q + 1) = p + b + q + 1
  BY DEF at0
<1>21. ASSUME NEW n \in 0 .. p + a + q + 1 PROVE at0(n) \in Int
  <2>1. CASE n <= p
    BY <1>10, <1>17, <2>1
  <2>2. CASE n > p /\ n <= p + a
    <3>1. PICK l : l = n - p
      OBVIOUS
    <3>2. l \in 1 .. a /\ p + l = n
      BY <1>10, <2>2, <3>1
    <3>3. CASE \E c \in S : c.x = l
      <4>1. PICK c \in S : c.x = l
        BY <3>3
      <4>2. at0(n) = c.y + p /\ c.y \in 1 .. b
        BY <1>12, <1>18, <3>2, <4>1
      <4>3. QED
        BY <1>10, <4>2
    <3>4. CASE \A c \in S : c.x # l
      BY <1>18, <3>2, <3>4
    <3>5. QED
      BY <3>3, <3>4
  <2>3. CASE n > p + a /\ n <= p + a + q
    <3>1. PICK l : l = n - p - a
      OBVIOUS
    <3>2. l \in 1 .. q /\ p + a + l = n
      BY <1>10, <2>3, <3>1
    <3>3. at0(n) = p + b + l
      BY <1>19, <3>2
    <3>4. QED
      BY <1>10, <3>2, <3>3
  <2>4. CASE n = p + a + q + 1
    BY <1>10, <1>20, <2>4
  <2>5. QED
    BY <1>10, <2>1, <2>2, <2>3, <2>4
<1>. HIDE DEF here
<1>22. PICK V : V = J'
  OBVIOUS
<1>23. Vector(S, p, a, b, q, V)
  <2>1. V \in [0 .. p + a + q + 1 -> Int]
    BY <1>15, <1>21, <1>22
  <2>2. \A n \in 0 .. p : V[n] = n
    BY <1>10, <1>16, <1>17, <1>22
  <2>3. \A n \in 1 .. a : V[p + n] = at0(p + n)
    <3>1. \A n \in 1 .. a : p + n \in 0 .. p + a + q + 1
      BY <1>10
    <3>2. QED
      BY <1>16, <1>22, <3>1
  <2>4. \A n \in 1 .. q : V[p + a + n] = p + b + n
    <3>1. \A n \in 1 .. q : p + a + n \in 0 .. p + a + q + 1
      BY <1>10
    <3>2. QED
      BY <1>16, <1>19, <1>22, <3>1
  <2>5. V[p + a + q + 1] = p + b + q + 1
    <3>1. p + a + q + 1 \in 0 .. p + a + q + 1
      BY <1>10
    <3>2. QED
      BY <1>16, <1>20, <1>22, <3>1
  <2>6. QED
    BY <1>18, <2>1, <2>2, <2>3, <2>4, <2>5 DEF Vector
<1>24. \A n \in 1 .. p + a + q + 1 : V[n] # 0 => \A m \in 0 .. n - 1 : V[m] < V[n]
  <2>1. \A c, e \in S : c.x < e.x => c.y < e.y
    BY <1>12
  <2>2. SUFFICES ASSUME NEW n \in 1 .. p + a + q + 1, V[n] # 0, NEW m \in 0 .. n - 1 PROVE V[m] < V[n]
    OBVIOUS
  <2>3. \A c \in S : c.x \in 1 .. a /\ c.y \in 1 .. b
    BY <1>12
  <2>4. QED
    BY <1>10, <1>23, <2>1, <2>2, <2>3, VectorGrows
<1>25. PICK c : Marks(V, p + a + q, c) /\ c[p + a + q] = p + h[a] + q
  <2>1. Boxed(S, a, b)
    BY <1>12 DEF Boxed
  <2>2. Tally(S, a, h)
    BY <1>13 DEF Tally
  <2>3. p \in Nat /\ a \in Nat /\ b \in Nat /\ q \in Nat
    BY <1>10
  <2>4. Counted(V, p, a, q, h)
    BY <1>23, <2>1, <2>2, <2>3, VectorCounts
  <2>5. QED
    BY <2>4 DEF Counted
<1>26. Longest(file[1], file[2]) = p + h[a] + q
  BY <1>9, <1>14, PrunedLongest DEF Stone
<1>27. V[0] = 0
  <2>1. 0 \in 0 .. p
    BY <1>10
  <2>2. QED
    BY <1>23, <2>1 DEF Vector
<1>28. Counts(c)'
  BY <1>1, <1>2, <1>10, <1>22, <1>25, <1>26, <1>27 DEF Counts, Marks
<1>29. Matched'
  <2>1. i' \in 1 .. len(1)' + 1 /\ i' - 1 = 0
    BY <1>1, <1>2, <1>10
  <2>2. J' \in [0 .. len(1)' + 1 -> Int] /\ J'[len(1)' + 1] = len(2)' + 1
    BY <1>2, <1>10, <1>22, <1>23 DEF Vector
  <2>3. \A n \in i' .. len(1)' + 1 : J'[n] # 0 => \A m \in i' - 1 .. n - 1 : J'[m] < J'[n]
    BY <1>1, <1>2, <1>10, <1>22, <1>24, <2>1
  <2>4. J'[0] = 0 /\ J'[i' - 1] = 0
    BY <1>22, <1>27, <2>1
  <2>5. c \in [0 .. len(1)' -> Nat]
    BY <1>2, <1>10, <1>25 DEF Marks
  <2>6. \E c0 \in [0 .. len(1)' -> Nat] : Counts(c0)'
    BY <1>28, <2>5
  <2>7. QED
    BY <1>1, <2>1, <2>2, <2>3, <2>4, <2>6 DEF Matched
<1>30. QED
  BY <1>2, <1>29

-----------------------------------------------------------------------------
(* Going through the match vector.                                         *)

\* Each line's match is the next line of file 1; no line has a match.  c
\* counts the matches.
Follows(V, c, s, e) ==
    \A m \in s + 1 .. e : V[m] = V[m - 1] + 1 /\ c[m] = c[m - 1] + (IF V[m] # 0 THEN 1 ELSE 0)
Pauses(V, c, s, e) ==
    \A m \in s + 1 .. e : V[m] = 0 /\ c[m] = c[m - 1] + (IF V[m] # 0 THEN 1 ELSE 0)

\* Over matches in a row, the match and their number grow alike.
LEMMA FollowsIs ==
  ASSUME NEW V, NEW c, NEW s \in Nat, NEW e \in Nat, s <= e,
         V[s] \in Nat, c[s] \in Nat, Follows(V, c, s, e)
  PROVE  V[e] = V[s] + (e - s) /\ c[e] = c[s] + (e - s)
<1>. DEFINE Z == {l \in Nat : s + l <= e => V[s + l] = V[s] + l /\ c[s + l] = c[s] + l}
<1>1. 0 \in Z
  <2>1. s + 0 = s
    OBVIOUS
  <2>2. QED
    BY <2>1
<1>2. ASSUME NEW l \in Nat, l \in Z PROVE l + 1 \in Z
  <2>1. SUFFICES ASSUME s + (l + 1) <= e
                 PROVE  V[s + (l + 1)] = V[s] + (l + 1) /\ c[s + (l + 1)] = c[s] + (l + 1)
    OBVIOUS
  <2>2. PICK m : m = s + (l + 1)
    OBVIOUS
  <2>3. m \in s + 1 .. e /\ m - 1 = s + l /\ s + l <= e
    BY <2>1, <2>2
  <2>4. V[m - 1] = V[s] + l /\ c[m - 1] = c[s] + l
    BY <1>2, <2>3
  <2>5. V[m] = V[m - 1] + 1 /\ c[m] = c[m - 1] + (IF V[m] # 0 THEN 1 ELSE 0)
    BY <2>3 DEF Follows
  <2>6. V[m] = V[s] + (l + 1) /\ V[m] # 0
    BY <2>4, <2>5
  <2>7. c[m] = c[s] + (l + 1)
    BY <2>4, <2>5, <2>6
  <2>8. QED
    BY <2>2, <2>6, <2>7
<1>3. \A l \in Nat : l \in Z
  <2>. HIDE DEF Z
  <2>. QED
    BY <1>1, <1>2, NatSet
<1>4. e - s \in Nat /\ s + (e - s) = e
  OBVIOUS
<1>5. e - s \in Z
  <2>. HIDE DEF Z
  <2>. QED
    BY <1>3, <1>4
<1>6. QED
  BY <1>4, <1>5

\* Over lines without a match their number stays.
LEMMA PausesIs ==
  ASSUME NEW V, NEW c, NEW s \in Nat, NEW e \in Nat, s <= e,
         c[s] \in Nat, Pauses(V, c, s, e)
  PROVE  c[e] = c[s]
<1>. DEFINE Z == {l \in Nat : s + l <= e => c[s + l] = c[s]}
<1>1. 0 \in Z
  <2>1. s + 0 = s
    OBVIOUS
  <2>2. QED
    BY <2>1
<1>2. ASSUME NEW l \in Nat, l \in Z PROVE l + 1 \in Z
  <2>1. SUFFICES ASSUME s + (l + 1) <= e PROVE c[s + (l + 1)] = c[s]
    OBVIOUS
  <2>2. PICK m : m = s + (l + 1)
    OBVIOUS
  <2>3. m \in s + 1 .. e /\ m - 1 = s + l /\ s + l <= e
    BY <2>1, <2>2
  <2>4. c[m - 1] = c[s]
    BY <1>2, <2>3
  <2>5. V[m] = 0 /\ c[m] = c[m - 1] + (IF V[m] # 0 THEN 1 ELSE 0)
    BY <2>3 DEF Pauses
  <2>6. QED
    BY <2>2, <2>4, <2>5
<1>3. \A l \in Nat : l \in Z
  <2>. HIDE DEF Z
  <2>. QED
    BY <1>1, <1>2, NatSet
<1>4. e - s \in Nat /\ s + (e - s) = e
  OBVIOUS
<1>5. e - s \in Z
  <2>. HIDE DEF Z
  <2>. QED
    BY <1>3, <1>4
<1>6. QED
  BY <1>4, <1>5

\* Up to FirstChanged the lines are matched in a row.
LEMMA FirstChangedIs ==
  ASSUME len(1) \in Nat, NEW s \in 1 .. len(1)
  PROVE  /\ FirstChanged(s) \in s .. len(1) + 1
         /\ \A m \in s .. FirstChanged(s) - 1 : m <= len(1) /\ J[m] = J[m - 1] + 1
<1>. DEFINE goesOn(n) == n <= len(1) /\ J[n] = J[n - 1] + 1
            T == s .. len(1) + 1
            P(n) == ~goesOn(n) /\ \A m \in s .. n - 1 : goesOn(m)
            S == {n \in T : ~goesOn(n)}
<1>1. S \in SUBSET Nat /\ len(1) + 1 \in S
  OBVIOUS
<1>2. PICK n \in S : \A m \in S : n <= m
  <2>. HIDE DEF S
  <2>. QED
    BY <1>1, LeastNat
<1>3. n \in T /\ ~goesOn(n)
  OBVIOUS
<1>4. ASSUME NEW m \in s .. n - 1 PROVE goesOn(m)
  <2>1. m \in T /\ m < n
    BY <1>3
  <2>2. ~(n <= m)
    BY <1>3, <2>1
  <2>3. QED
    BY <1>2, <2>1, <2>2
<1>5. P(n)
  BY <1>3, <1>4
<1>6. FirstChanged(s) = CHOOSE m \in T : P(m)
  BY DEF FirstChanged
<1>7. FirstChanged(s) \in T /\ P(FirstChanged(s))
  <2>. HIDE DEF T, P
  <2>. QED
    BY <1>3, <1>5, <1>6
<1>8. QED
  BY <1>7

\* From there to LastUnmatched they have no match, behind it is a match or the
\* end.
LEMMA LastUnmatchedIs ==
  ASSUME len(1) \in Nat, NEW s \in 1 .. len(1) + 1
  PROVE  /\ LastUnmatched(s) \in s - 1 .. len(1)
         /\ ~(LastUnmatched(s) + 1 <= len(1) /\ J[LastUnmatched(s) + 1] = 0)
         /\ \A m \in s .. LastUnmatched(s) : J[m] = 0
<1>. DEFINE unmatched(n) == n <= len(1) /\ J[n] = 0
            T == s - 1 .. len(1)
            P(n) == ~unmatched(n + 1) /\ \A m \in s .. n : unmatched(m)
            S == {n \in T : ~unmatched(n + 1)}
<1>1. S \in SUBSET Nat /\ len(1) \in S
  OBVIOUS
<1>2. PICK n \in S : \A m \in S : n <= m
  <2>. HIDE DEF S
  <2>. QED
    BY <1>1, LeastNat
<1>3. n \in T /\ ~unmatched(n + 1)
  OBVIOUS
<1>4. ASSUME NEW m \in s .. n PROVE unmatched(m)
  <2>1. m - 1 \in T /\ m - 1 < n /\ (m - 1) + 1 = m
    BY <1>3
  <2>2. ~(n <= m - 1)
    BY <1>3, <2>1
  <2>3. m - 1 \notin S
    <3>. HIDE DEF S
    <3>. QED
      BY <1>2, <2>2
  <2>4. QED
    BY <2>1, <2>3
<1>5. P(n)
  BY <1>3, <1>4
<1>6. LastUnmatched(s) = CHOOSE m \in T : P(m)
  BY DEF LastUnmatched
<1>7. LastUnmatched(s) \in T /\ P(LastUnmatched(s))
  <2>. HIDE DEF T, P
  <2>. QED
    BY <1>3, <1>5, <1>6
<1>8. QED
  BY <1>7

\* Output keeps the invariant: what it adds up are the lines outside the
\* subsequence so far.
LEMMA OutputKeepsMatched ==
  ASSUME Hashed, Matched, Output
  PROVE  Hashed' /\ Matched'
<1>1. i <= len(1) /\ UNCHANGED input
  BY DEF Output
<1>2. /\ Hashed' /\ len(1)' = len(1) /\ len(2)' = len(2) /\ file' = file
  BY <1>1, SameInput
<1>3. len(1) \in Nat /\ len(2) \in Nat
  BY HashedIs
<1>4. i \in 1 .. len(1)
  BY <1>1, <1>3 DEF Matched
<1>5. PICK N, M, V, s : N = len(1) /\ M = len(2) /\ V = J /\ s = i - 1
  OBVIOUS
<1>6. N \in Nat /\ M \in Nat /\ s \in 0 .. N - 1 /\ i = s + 1
  BY <1>3, <1>4, <1>5
<1>7. /\ V \in [0 .. N + 1 -> Int] /\ V[N + 1] = M + 1 /\ V[s] >= 0
      /\ \A n \in s + 1 .. N + 1 : V[n] # 0 => \A m \in s .. n - 1 : V[m] < V[n]
  <2>1. \A n \in i .. len(1) + 1 : J[n] # 0 => \A m \in i - 1 .. n - 1 : J[m] < J[n]
    BY DEF Matched
  <2>2. QED
    BY <1>5, <1>6, <2>1 DEF Matched
<1>8. PICK c : c \in [0 .. N -> Nat] /\ Counts(c)
  BY <1>5 DEF Matched
<1>9. /\ \A n \in s + 1 .. N : c[n] = c[n - 1] + (IF V[n] # 0 THEN 1 ELSE 0)
      /\ c[N] = Longest(file[1], file[2])
      /\ removed = s - c[s] /\ added = V[s] - c[s]
  BY <1>5, <1>6, <1>8 DEF Counts
<1>10. PICK a, b : a = FirstChanged(i) - 1 /\ b = LastUnmatched(FirstChanged(i))
  OBVIOUS
<1>11. FirstChanged(i) \in i .. len(1) + 1 /\ \A m \in i .. FirstChanged(i) - 1 : m <= len(1) /\ J[m] = J[m - 1] + 1
  BY <1>3, <1>4, FirstChangedIs
<1>12. /\ a \in s .. N /\ FirstChanged(i) = a + 1
       /\ \A m \in s + 1 .. a : V[m] = V[m - 1] + 1
  BY <1>5, <1>6, <1>10, <1>11
<1>13. /\ LastUnmatched(FirstChanged(i)) \in FirstChanged(i) - 1 .. len(1)
       /\ ~(LastUnmatched(FirstChanged(i)) + 1 <= len(1) /\ J[LastUnmatched(FirstChanged(i)) + 1] = 0)
       /\ \A m \in FirstChanged(i) .. LastUnmatched(FirstChanged(i)) : J[m] = 0
  <2>1. PICK t : t = FirstChanged(i)
    OBVIOUS
  <2>2. t \in 1 .. len(1) + 1
    BY <1>3, <1>4, <1>11, <2>1
  <2>3. QED
    BY <1>3, <2>1, <2>2, LastUnmatchedIs
<1>14. b \in a .. N /\ ~(b + 1 <= N /\ V[b + 1] = 0) /\ \A m \in a + 1 .. b : V[m] = 0
  BY <1>5, <1>10, <1>12, <1>13
<1>15. a \in Nat /\ b \in Nat /\ s \in Nat /\ s <= a /\ a <= b /\ b <= N
  BY <1>6, <1>12, <1>14
<1>16. V[a] = V[s] + (a - s) /\ c[a] = c[s] + (a - s)
  <2>1. V[s] \in Nat /\ c[s] \in Nat
    BY <1>6, <1>7, <1>8
  <2>2. Follows(V, c, s, a)
    BY <1>6, <1>9, <1>12, <1>15 DEF Follows
  <2>3. QED
    BY <1>15, <2>1, <2>2, FollowsIs
<1>17. c[b] = c[a]
  <2>1. c[a] \in Nat
    BY <1>6, <1>8, <1>15
  <2>2. Pauses(V, c, a, b)
    BY <1>6, <1>9, <1>14, <1>15 DEF Pauses
  <2>3. QED
    BY <1>15, <2>1, <2>2, PausesIs
<1>18. V[b + 1] # 0 /\ V[b + 1] \in Int /\ V[a] < V[b + 1]
  <2>1. V[b + 1] # 0
    <3>1. CASE b + 1 <= N
      BY <1>14, <3>1
    <3>2. CASE ~(b + 1 <= N)
      <4>1. b + 1 = N + 1
        BY <1>6, <1>15, <3>2
      <4>2. QED
        BY <1>6, <1>7, <4>1
    <3>3. QED
      BY <3>1, <3>2
  <2>2. b + 1 \in s + 1 .. N + 1 /\ a \in s .. (b + 1) - 1 /\ b + 1 \in 0 .. N + 1
    BY <1>6, <1>15
  <2>3. QED
    BY <1>7, <2>1, <2>2
<1>19. PICK g : g = V[b + 1] - 1
  OBVIOUS
<1>20. g \in Int /\ g >= V[a] /\ V[b + 1] = g + 1 /\ V[a] \in Nat /\ V[s] \in Nat /\ c[s] \in Nat /\ g >= 0
  <2>1. V[s] \in Nat /\ c[s] \in Nat
    BY <1>6, <1>7, <1>8
  <2>2. V[a] \in Nat
    BY <1>15, <1>16, <2>1
  <2>3. QED
    BY <1>18, <1>19, <2>1, <2>2
<1>21. /\ Change(a + 1, b, V[a] + 1, g)
       /\ J' = [V EXCEPT ![b] = g] /\ i' = b + 1
  <2>1. LET i0 == FirstChanged(i)
            i1 == LastUnmatched(i0)
            j1 == J[i1 + 1] - 1
        IN  /\ Change(i0, i1, J[i0 - 1] + 1, j1)
            /\ J' = [J EXCEPT ![i1] = j1]
            /\ i' = i1 + 1
    BY DEF Output
  <2>2. FirstChanged(i) - 1 = a /\ FirstChanged(i) = a + 1 /\ LastUnmatched(FirstChanged(i)) = b
    BY <1>10, <1>12
  <2>3. J[LastUnmatched(FirstChanged(i)) + 1] - 1 = g
    BY <1>5, <1>19, <2>2
  <2>4. QED
    BY <1>5, <2>1, <2>2, <2>3
<1>22. removed' = b - c[b] /\ added' = g - c[b]
  <2>1. removed' = removed + (IF a + 1 <= b THEN b - (a + 1) + 1 ELSE 0)
    BY <1>21 DEF Change
  <2>2. added' = added + (IF V[a] + 1 <= g THEN g - (V[a] + 1) + 1 ELSE 0)
    BY <1>21 DEF Change
  <2>3. (IF a + 1 <= b THEN b - (a + 1) + 1 ELSE 0) = b - a
    BY <1>15
  <2>4. (IF V[a] + 1 <= g THEN g - (V[a] + 1) + 1 ELSE 0) = g - V[a]
    BY <1>20
  <2>5. removed' = removed + (b - a) /\ added' = added + (g - V[a])
    BY <2>1, <2>2, <2>3, <2>4
  <2>6. PICK h, w : h = c[s] /\ w = V[s]
    OBVIOUS
  <2>7. h \in Nat /\ w \in Nat /\ removed = s - h /\ added = w - h /\ c[b] = h + (a - s) /\ V[a] = w + (a - s)
    BY <1>9, <1>16, <1>17, <1>20, <2>6
  <2>8. QED
    BY <1>15, <1>20, <2>5, <2>7
<1>23. PICK W : W = J'
  OBVIOUS
<1>24. /\ W \in [0 .. N + 1 -> Int] /\ W[b] = g
       /\ \A n \in 0 .. N + 1 : n # b => W[n] = V[n]
  <2>1. W = [V EXCEPT ![b] = g] /\ b \in 0 .. N + 1
    BY <1>6, <1>15, <1>21, <1>23
  <2>2. QED
    BY <1>7, <1>20, <2>1
<1>25. W[N + 1] = M + 1 /\ W[b + 1] = g + 1
  <2>1. N + 1 \in 0 .. N + 1 /\ N + 1 # b /\ b + 1 \in 0 .. N + 1 /\ b + 1 # b
    BY <1>6, <1>15
  <2>2. QED
    BY <1>7, <1>20, <1>24, <2>1
<1>26. ASSUME NEW n \in b + 1 .. N + 1, W[n] # 0, NEW m \in b .. n - 1 PROVE W[m] < W[n]
  <2>1. /\ n \in 0 .. N + 1 /\ n # b /\ n \in s + 1 .. N + 1
        /\ m \in s .. n - 1 /\ m \in 0 .. N + 1 /\ b + 1 \in 0 .. N + 1
    BY <1>6, <1>15
  <2>2. W[n] = V[n] /\ V[n] \in Int
    BY <1>7, <1>24, <2>1
  <2>3. \A l \in s .. n - 1 : V[l] < V[n]
    BY <1>7, <1>26, <2>1, <2>2
  <2>4. CASE m # b
    <3>1. W[m] = V[m]
      BY <1>24, <2>1, <2>4
    <3>2. QED
      BY <2>1, <2>2, <2>3, <3>1
  <2>5. CASE m = b
    <3>1. CASE n = b + 1
      BY <1>20, <1>24, <1>25, <2>5, <3>1
    <3>2. CASE n # b + 1
      <4>1. b + 1 \in s .. n - 1
        BY <1>6, <1>15, <2>1, <3>2
      <4>2. V[b + 1] < V[n]
        BY <2>3, <4>1
      <4>3. QED
        BY <1>20, <1>24, <2>2, <2>5, <4>2
    <3>3. QED
      BY <3>1, <3>2
  <2>6. QED
    BY <2>4, <2>5
<1>27. Counts(c)'
  <2>1. \A n \in b + 1 .. N : c[n] = c[n - 1] + (IF W[n] # 0 THEN 1 ELSE 0)
    <3>1. SUFFICES ASSUME NEW n \in b + 1 .. N PROVE c[n] = c[n - 1] + (IF W[n] # 0 THEN 1 ELSE 0)
      OBVIOUS
    <3>2. n \in 0 .. N + 1 /\ n # b /\ n \in s + 1 .. N
      BY <1>6, <1>15
    <3>3. W[n] = V[n]
      BY <1>24, <3>2
    <3>4. QED
      BY <1>9, <3>2, <3>3
  <2>2. i' - 1 = b /\ i' = b + 1
    BY <1>15, <1>21
  <2>3. c \in [0 .. len(1)' -> Nat] /\ c[len(1)'] = Longest(file[1], file[2])'
    BY <1>2, <1>5, <1>8, <1>9
  <2>4. removed' = (i' - 1) - c[i' - 1] /\ added' = J'[i' - 1] - c[i' - 1]
    BY <1>22, <1>23, <1>24, <2>2
  <2>5. \A n \in i' .. len(1)' : c[n] = c[n - 1] + (IF J'[n] # 0 THEN 1 ELSE 0)
    BY <1>2, <1>5, <1>23, <2>1, <2>2
  <2>6. QED
    BY <2>3, <2>4, <2>5 DEF Counts
<1>28. Matched'
  <2>1. i' = b + 1 /\ i' - 1 = b /\ len(1)' = N /\ len(2)' = M /\ J' = W
    BY <1>2, <1>5, <1>15, <1>21, <1>23
  <2>2. i' \in 1 .. len(1)' + 1
    BY <1>6, <1>15, <2>1
  <2>3. J' \in [0 .. len(1)' + 1 -> Int] /\ J'[len(1)' + 1] = len(2)' + 1
    BY <1>24, <1>25, <2>1
  <2>4. J'[i' - 1] >= 0
    BY <1>20, <1>24, <2>1
  <2>5. \A n \in i' .. len(1)' + 1 : J'[n] # 0 => \A m \in i' - 1 .. n - 1 : J'[m] < J'[n]
    BY <1>26, <2>1
  <2>6. len(1)' # 0
    BY <1>6, <2>1
  <2>7. J'[i'] # 0 /\ J'[i' - 1] = J'[i'] - 1
    BY <1>20, <1>24, <1>25, <2>1
  <2>8. \E c0 \in [0 .. len(1)' -> Nat] : Counts(c0)'
    BY <1>8, <1>27, <2>1
  <2>9. QED
    BY <2>2, <2>3, <2>4, <2>5, <2>6, <2>7, <2>8 DEF Matched
<1>29. QED
  BY <1>2, <1>28

\* The counts that are returned.
LEMMA ReturnResult ==
  ASSUME Hashed, Matched, Return
  PROVE  /\ added' = len(2) - Longest(file[1], file[2])
         /\ removed' = len(1) - Longest(file[1], file[2])
<1>1. len(1) \in Nat /\ len(2) \in Nat
  BY HashedIs
<1>2. i = len(1) + 1 /\ i - 1 = len(1)
  BY <1>1 DEF Return, Matched
<1>3. PICK c : Counts(c)
  BY DEF Matched
<1>4. /\ removed = len(1) - Longest(file[1], file[2])
      /\ added = J[len(1)] - Longest(file[1], file[2])
  BY <1>2, <1>3 DEF Counts
<1>5. CASE len(1) = 0
  <2>1. added' = added + (IF 1 <= len(2) THEN len(2) - 1 + 1 ELSE 0) /\ removed' = removed + 0
    BY <1>5 DEF Return, Change
  <2>2. J[len(1)] = 0
    BY <1>5 DEF Matched
  <2>3. Longest(file[1], file[2]) \in Nat
    BY <1>1, LongestBounds
  <2>4. QED
    BY <1>1, <1>4, <2>1, <2>2, <2>3
<1>6. CASE len(1) # 0
  <2>1. added' = added /\ removed' = removed
    BY <1>6 DEF Return
  <2>2. i # 1
    BY <1>1, <1>2, <1>6
  <2>3. J[i - 1] = J[i] - 1
    BY <2>2 DEF Matched
  <2>4. J[i] = len(2) + 1
    BY <1>2 DEF Matched
  <2>5. J[len(1)] = len(2)
    BY <1>1, <1>2, <2>3, <2>4
  <2>6. QED
    BY <1>4, <2>1, <2>5
<1>7. QED
  BY <1>5, <1>6

-----------------------------------------------------------------------------
(* A whole call of calc_diff.                                              *)

Small == Len(text[1]) < Large /\ Len(text[2]) < Large
HashedText == file = <<Hashes(text[1]), Hashes(text[2])>>

\* The answer leaves so many lines common.
Leaves(s, t, common) == added = Len(t) - common /\ removed = Len(s) - common

Answered ==
    /\ Small => HashedText /\ Leaves(file[1], file[2], Longest(file[1], file[2]))
    /\ ~Small => \E common \in 0 .. Longest(text[1], text[2]) :
                   /\ text[1] = text[2] => common = Len(text[1])
                   /\ Leaves(text[1], text[2], common)

DiffInv ==
    /\ text \in Words \X Words
    /\ Hashed
    /\ pc \in {"done", "prepare", "prune", "stone", "output"}
    /\ pc \in {"prune", "stone", "output"} => Small /\ HashedText
    /\ pc # "stone" => mates = {}
    /\ pc \in {"prepare", "prune", "stone"} => added = 0 /\ removed = 0
    /\ pc = "stone" => Stone
    /\ pc = "output" => Matched
    /\ pc = "done" => Answered

\* Before the first call there are no lines.
LEMMA UnusedHashed ==
  ASSUME Unused
  PROVE  Hashed
<1>1. <<>> \in Seq(Int)
  OBVIOUS
<1>2. << <<>>, <<>> >> \in Seq(Int) \X Seq(Int)
  BY <1>1
<1>3. QED
  BY <1>2 DEF Hashed, Unused

\* Before the first call the counts are those of two empty texts.
LEMMA EmptyText ==
  ASSUME Unused, text = << <<>>, <<>> >>
  PROVE  Hashed /\ Answered
<1>1. <<>> \in Words
  BY DEF Words
<1>2. Hashes(<<>>) \in Seq(Int) /\ Len(Hashes(<<>>)) <= 0
  <2>1. Len(<<>>) = 0
    OBVIOUS
  <2>2. QED
    BY <1>1, <2>1, HashesIs
<1>3. Hashes(<<>>) = <<>>
  BY <1>2
<1>4. Longest(<<>>, <<>>) = 0
  <2>1. Len(<<>>) = 0
    OBVIOUS
  <2>2. QED
    BY <2>1, LongestBounds
<1>5. text[1] = <<>> /\ text[2] = <<>> /\ file[1] = <<>> /\ file[2] = <<>> /\ added = 0 /\ removed = 0
  BY DEF Unused
<1>6. Leaves(<<>>, <<>>, 0)
  BY <1>5 DEF Leaves
<1>7. HashedText
  BY <1>3, <1>5 DEF HashedText, Unused
<1>8. Hashed
  BY UnusedHashed
<1>9. QED
  BY <1>4, <1>5, <1>6, <1>7, <1>8 DEF Answered

\* A call made first begins in the invariant.
LEMMA DiffInvInit ==
  ASSUME Init
  PROVE  DiffInv
<1>1. text \in Words \X Words
  BY DiffAssumption DEF Init, Words
<1>2. pc = "prepare" /\ mates = {} /\ added = 0 /\ removed = 0
  BY DEF Init, Unused
<1>3. Hashed
  BY UnusedHashed DEF Init
<1>4. QED
  BY <1>1, <1>2, <1>3 DEF DiffInv

\* The globals may be anything but the loops' own.
LEMMA CalcDiffInv ==
  ASSUME DiffInv, NEW s \in Words, NEW t \in Words, CalcDiff(s, t)
  PROVE  DiffInv'
<1>1. /\ text' = <<s, t>> /\ pc' = "prepare" /\ added' = 0 /\ removed' = 0
      /\ file' = file /\ mates' = mates /\ pc = "done"
  BY DEF CalcDiff, search
<1>2. Hashed' /\ mates' = {}
  BY <1>1 DEF DiffInv, Hashed
<1>3. QED
  BY <1>1, <1>2 DEF DiffInv

\* Prepare keeps it.
LEMMA PrepareInv ==
  ASSUME DiffInv, Prepare
  PROVE  DiffInv'
<1>1. /\ file' = <<Hashes(text[1]), Hashes(text[2])>> /\ pc = "prepare" /\ pc' = "prune"
      /\ text' = text /\ mates' = mates /\ added' = added /\ removed' = removed /\ Small
  BY DEF Prepare, search, result, Small
<1>2. text[1] \in Words /\ text[2] \in Words
  BY DEF DiffInv
<1>3. Hashed'
  <2>1. Hashes(text[1]) \in Seq(Int) /\ Hashes(text[2]) \in Seq(Int)
    BY <1>2, HashesIs
  <2>2. QED
    BY <1>1, <2>1 DEF Hashed
<1>4. HashedText' /\ Small'
  BY <1>1 DEF HashedText, Small
<1>5. QED
  BY <1>1, <1>3, <1>4 DEF DiffInv

\* CalcWithDisk answers right.
LEMMA CalcWithDiskInv ==
  ASSUME DiffInv, CalcWithDisk
  PROVE  DiffInv'
<1>1. /\ pc = "prepare" /\ pc' = "done" /\ UNCHANGED <<text, file, mates>>
      /\ ~Small
  <2>1. text \in Words \X Words
    BY DEF DiffInv
  <2>2. Len(text[1]) \in Nat /\ Len(text[2]) \in Nat
    BY <2>1 DEF Words
  <2>3. ~Small
    BY <2>2, DiffAssumption DEF CalcWithDisk, Small
  <2>4. QED
    BY <2>3 DEF CalcWithDisk, input, search
<1>2. PICK common \in 0 .. Longest(text[1], text[2]) :
        /\ text[1] = text[2] => common = Len(text[1])
        /\ added' = Len(text[2]) - common
        /\ removed' = Len(text[1]) - common
  BY DEF CalcWithDisk
<1>3. Leaves(text[1], text[2], common)'
  BY <1>1, <1>2 DEF Leaves
<1>4. ~Small' /\ text' = text
  BY <1>1 DEF Small
<1>5. Answered'
  BY <1>2, <1>3, <1>4 DEF Answered
<1>6. Hashed'
  BY <1>1 DEF DiffInv, Hashed
<1>7. QED
  BY <1>1, <1>5, <1>6 DEF DiffInv

\* Every step of a call keeps the invariant.
LEMMA DiffInvNext ==
  ASSUME DiffInv, Next
  PROVE  DiffInv'
<1>1. CASE Prepare
  BY <1>1, PrepareInv
<1>2. CASE CalcWithDisk
  BY <1>2, CalcWithDiskInv
<1>3. CASE Prune
  <2>1. /\ pc = "prune" /\ pc' = "stone" /\ UNCHANGED <<text, file, mates, added, removed>>
    BY <1>3 DEF Prune, result
  <2>2. Hashed /\ mates = {}
    BY <2>1 DEF DiffInv
  <2>3. Hashed' /\ Stone'
    BY <1>3, <2>2, PruneInv
  <2>4. Small' /\ HashedText'
    BY <2>1 DEF DiffInv, Small, HashedText
  <2>5. QED
    BY <2>1, <2>3, <2>4 DEF DiffInv
<1>4. CASE StoneLine
  <2>1. /\ pc = "stone" /\ pc' = "stone" /\ UNCHANGED <<text, file, added, removed>>
    BY <1>4 DEF StoneLine, input, result
  <2>2. Hashed /\ Stone
    BY <2>1 DEF DiffInv
  <2>3. Hashed' /\ Stone'
    BY <1>4, <2>2, StoneLineInv
  <2>4. Small' /\ HashedText'
    BY <2>1 DEF DiffInv, Small, HashedText
  <2>5. QED
    BY <2>1, <2>3, <2>4 DEF DiffInv
<1>5. CASE StoneMate
  <2>1. /\ pc = "stone" /\ pc' = "stone" /\ UNCHANGED <<text, file, added, removed>>
    BY <1>5 DEF StoneMate, input, result
  <2>2. Hashed /\ Stone
    BY <2>1 DEF DiffInv
  <2>3. Hashed' /\ Stone'
    BY <1>5, <2>2, StoneMateInv
  <2>4. Small' /\ HashedText'
    BY <2>1 DEF DiffInv, Small, HashedText
  <2>5. QED
    BY <2>1, <2>3, <2>4 DEF DiffInv
<1>6. CASE Unravel
  <2>1. /\ pc = "stone" /\ pc' = "output" /\ mates = {} /\ UNCHANGED <<text, file, mates>>
    BY <1>6 DEF Unravel, input
  <2>2. Hashed /\ Stone /\ added = 0 /\ removed = 0
    BY <2>1 DEF DiffInv
  <2>3. Hashed' /\ Matched'
    BY <1>6, <2>2, UnravelInv
  <2>4. Small' /\ HashedText'
    BY <2>1 DEF DiffInv, Small, HashedText
  <2>5. QED
    BY <2>1, <2>3, <2>4 DEF DiffInv
<1>7. CASE Output
  <2>1. /\ pc = "output" /\ pc' = "output" /\ UNCHANGED <<text, file, mates>>
    BY <1>7 DEF Output, input
  <2>2. Hashed /\ Matched
    BY <2>1 DEF DiffInv
  <2>3. Hashed' /\ Matched'
    BY <1>7, <2>2, OutputKeepsMatched
  <2>4. Small' /\ HashedText'
    BY <2>1 DEF DiffInv, Small, HashedText
  <2>5. QED
    BY <2>1, <2>3, <2>4 DEF DiffInv
<1>8. CASE Return
  <2>1. /\ pc = "output" /\ pc' = "done" /\ UNCHANGED <<text, file, mates>>
    BY <1>8 DEF Return, input, search
  <2>2. Hashed /\ Matched
    BY <2>1 DEF DiffInv
  <2>3. /\ added' = len(2) - Longest(file[1], file[2])
        /\ removed' = len(1) - Longest(file[1], file[2])
    BY <1>8, <2>2, ReturnResult
  <2>4. Leaves(file[1], file[2], Longest(file[1], file[2]))'
    BY <2>1, <2>3 DEF Leaves, len
  <2>5. Small' /\ HashedText' /\ Hashed'
    BY <2>1 DEF DiffInv, Small, HashedText, Hashed
  <2>6. Answered'
    BY <2>4, <2>5 DEF Answered
  <2>7. QED
    BY <2>1, <2>5, <2>6 DEF DiffInv
<1>9. QED
  BY <1>1, <1>2, <1>3, <1>4, <1>5, <1>6, <1>7, <1>8 DEF Next

\* So does a step of something else.
LEMMA DiffInvStutters ==
  ASSUME DiffInv, UNCHANGED vars
  PROVE  DiffInv'
<1>1. /\ text' = text /\ file' = file /\ pref' = pref /\ suff' = suff /\ i' = i /\ mates' = mates
      /\ clist' = clist /\ klist' = klist /\ oldc' = oldc /\ oldl' = oldl
      /\ J' = J /\ added' = added /\ removed' = removed /\ pc' = pc
  BY DEF vars, input, search, result
<1>2. Pruned' = Pruned /\ InRow' = InRow /\ Candidates' = Candidates /\ Ranked' = Ranked
  BY <1>1 DEF Pruned, InRow, Candidates, Ranked, Level, Middle, Mates, Klist, k, y, len, slen
<1>3. Thresholds' = Thresholds /\ Earliest' = Earliest /\ Replaced' = Replaced
  BY <1>1 DEF Thresholds, Earliest, Replaced, Now, Level, Middle, Mates, Klist, k, y, len, slen
<1>4. Matched' = Matched
  BY <1>1 DEF Matched, Counts, len
<1>5. Answered' = Answered /\ Hashed' = Hashed /\ Small' = Small /\ HashedText' = HashedText
  BY <1>1 DEF Answered, Hashed, Small, HashedText, Leaves
<1>6. QED
  BY <1>1, <1>2, <1>3, <1>4, <1>5 DEF DiffInv, Stone

\* The invariant implies what is said of calc_diff.
LEMMA DiffInvHolds ==
  ASSUME DiffInv
  PROVE  KCandidates /\ LeastChange
<1>1. KCandidates
  BY StoneKCandidates DEF DiffInv
<1>2. LeastChange
  BY DEF DiffInv, LeastChange, Answered, Small, Leaves, len
<1>3. QED
  BY <1>1, <1>2

-----------------------------------------------------------------------------
(* The changes of a file.                                                  *)

\* What an answer says of the lines of both texts.
Tells(s, t, a, r) ==
    /\ a \in Nat /\ r \in Nat
    /\ a - r = Gained(s, t) /\ r <= Len(s)
    /\ s = t => a = 0 /\ r = 0

\* An answer says how many lines more there are, takes no more than there are,
\* and finds equal texts equal.
LEMMA AnswerTells ==
  ASSUME DiffInv, pc = "done"
  PROVE  Tells(text[1], text[2], added, removed)
<1>1. PICK s, t : s = text[1] /\ t = text[2]
  OBVIOUS
<1>2. s \in Words /\ t \in Words /\ Answered
  BY <1>1 DEF DiffInv
<1>3. Len(s) \in Nat /\ Len(t) \in Nat
  BY <1>2 DEF Words
<1>4. CASE Small
  <2>1. PICK h, g : h = Hashes(s) /\ g = Hashes(t)
    OBVIOUS
  <2>2. file[1] = h /\ file[2] = g /\ Leaves(h, g, Longest(h, g))
    BY <1>1, <1>2, <1>4, <2>1 DEF Answered, HashedText
  <2>3. Len(h) \in Nat /\ Len(g) \in Nat /\ Len(h) <= Len(s)
    BY <1>2, <2>1, HashesIs
  <2>4. /\ Longest(h, g) \in Nat /\ Longest(h, g) <= Len(h) /\ Longest(h, g) <= Len(g)
        /\ h = g => Longest(h, g) = Len(h)
    BY <2>3, LongestBounds
  <2>5. Seen(s, t) = Len(h) /\ Seen(t, s) = Len(g)
    BY <1>1, <1>3, <1>4, <2>1, DiffAssumption DEF Seen, Small
  <2>6. PICK c : c = Longest(h, g)
    OBVIOUS
  <2>7. added = Len(g) - c /\ removed = Len(h) - c /\ c \in Nat /\ c <= Len(h) /\ c <= Len(g)
        /\ (h = g => c = Len(h))
    BY <2>2, <2>4, <2>6 DEF Leaves
  <2>8. Gained(s, t) = Len(g) - Len(h)
    BY <2>5 DEF Gained
  <2>9. s = t => h = g
    BY <2>1
  <2>10. QED
    BY <1>1, <1>3, <2>3, <2>7, <2>8, <2>9 DEF Tells
<1>5. CASE ~Small
  <2>1. PICK c \in 0 .. Longest(s, t) : (s = t => c = Len(s)) /\ Leaves(s, t, c)
    BY <1>1, <1>2, <1>5 DEF Answered
  <2>2. Longest(s, t) \in Nat /\ Longest(s, t) <= Len(s) /\ Longest(s, t) <= Len(t)
    BY <1>3, LongestBounds
  <2>3. c \in Nat /\ c <= Len(s) /\ c <= Len(t)
    BY <1>3, <2>1, <2>2
  <2>4. Seen(s, t) = Len(s) /\ Seen(t, s) = Len(t)
    BY <1>1, <1>3, <1>5, DiffAssumption DEF Seen, Small
  <2>5. Gained(s, t) = Len(t) - Len(s)
    BY <2>4 DEF Gained
  <2>6. added = Len(t) - c /\ removed = Len(s) - c
    BY <2>1 DEF Leaves
  <2>7. s = t => Len(s) = Len(t)
    OBVIOUS
  <2>8. QED
    BY <1>1, <1>3, <2>1, <2>3, <2>5, <2>6, <2>7 DEF Tells
<1>6. QED
  BY <1>4, <1>5

\* A call leaves the texts alone.
LEMMA TextKept ==
  ASSUME Next
  PROVE  text' = text
  BY DEF Next, Prepare, CalcWithDisk, Prune, StoneLine, StoneMate, Unravel, Output, Return, input

\* The types of a parsed language, missing or not.
LEMMA ParsedType ==
  ASSUME files \in FilePairs, NEW f \in {1, 2}, NEW l
  PROVE  /\ Parsed(f, l).code \in Words /\ Parsed(f, l).comments \in Words
         /\ Parsed(f, l).blanks \in Nat
<1>1. files[f] \in Seq(LanguageParts)
  BY FilePairsAssumption
<1>. DEFINE places == {n \in DOMAIN files[f] : files[f][n].language = l}
<1>2. CASE places = {}
  <2>1. Parsed(f, l) = Blank
    BY <1>2 DEF Parsed
  <2>2. <<>> \in Words
    BY DEF Words
  <2>3. QED
    BY <2>1, <2>2 DEF Blank
<1>3. CASE places # {}
  <2>1. PICK n : n = CHOOSE m \in places : TRUE
    OBVIOUS
  <2>2. Parsed(f, l) = files[f][n]
    BY <1>3, <2>1 DEF Parsed
  <2>3. n \in places
    <3>. HIDE DEF places
    <3>. QED
      BY <1>3, <2>1
  <2>4. Parsed(f, l) \in LanguageParts
    <3>1. n \in 1 .. Len(files[f])
      BY <1>1, <2>3
    <3>2. files[f][n] \in LanguageParts
      BY <1>1, <3>1, ElementOfSeq
    <3>3. QED
      BY <2>2, <3>2
  <2>5. QED
    BY <2>4 DEF LanguageParts, Words
<1>4. QED
  BY <1>2, <1>3

items == lists["diff"]
Entries == [language : Languages, n : [L!Changes -> Nat]]
Listed(I, l) == \E m \in DOMAIN I : I[m].language = l

\* The languages gone through are those listed, each once.
Passed(f, n) == f < which \/ (f = which /\ n < at)
PassedListed == \A f \in {1, 2} : \A n \in DOMAIN files[f] : Passed(f, n) => Listed(items, files[f][n].language)
ListedPassed ==
    \A m \in DOMAIN items : \E f \in {1, 2} : \E n \in DOMAIN files[f] :
      Passed(f, n) /\ items[m].language = files[f][n].language
ListedInOrder ==
    \A m, n \in DOMAIN items : m < n => ComesBefore(items[m].language, items[n].language)
ListedOnce == \A m, n \in DOMAIN items : m < n => items[m].language # items[n].language

\* What a LocDelta says of a language's code, and of all of it.
CodeRight(n, l) ==
    /\ n \in [L!Changes -> Nat]
    /\ Tells(Parsed(1, l).code, Parsed(2, l).code, n["code_added"], n["code_removed"])
RestZero(n) ==
    \A f \in L!Changes \ {"code_added", "code_removed"} : n[f] = 0
ItemRight(n, l) ==
    /\ CodeRight(n, l)
    /\ Tells(Parsed(1, l).comments, Parsed(2, l).comments, n["comments_added"], n["comments_removed"])
    /\ n["blanks_added"] \in Nat /\ n["blanks_removed"] \in Nat
    /\ n["blanks_added"] - n["blanks_removed"] = Parsed(2, l).blanks - Parsed(1, l).blanks
    /\ n["blanks_removed"] <= Parsed(1, l).blanks
    /\ Parsed(1, l).blanks = Parsed(2, l).blanks => n["blanks_added"] = 0 /\ n["blanks_removed"] = 0
ItemsRight == \A m \in DOMAIN items : ItemRight(items[m].n, items[m].language)

Comparing ==
    /\ part \in {"none", "code", "comments"}
    /\ part # "none" => AtLanguage /\ ~Known
    /\ part = "code" => /\ text = <<Parsed(1, language).code, Parsed(2, language).code>>
                        /\ delta = L!Zero
    /\ part = "comments" =>
         /\ text = <<Parsed(1, language).comments, Parsed(2, language).comments>>
         /\ CodeRight(delta, language) /\ RestZero(delta)

SFDInv ==
    /\ DiffInv
    /\ files \in FilePairs /\ which \in {1, 2, 3} /\ at \in Nat \ {0}
    /\ lists = [d \in {"diff"} |-> items] /\ items \in Seq(Entries)
    /\ PassedListed /\ ListedPassed /\ ListedOnce /\ ListedInOrder
    /\ ItemsRight /\ Comparing

\* The language the loops have come to is one of the file.
LEMMA LanguageIs ==
  ASSUME files \in FilePairs, which \in {1, 2, 3}, at \in Nat \ {0}, AtLanguage
  PROVE  which \in {1, 2} /\ at \in DOMAIN files[which] /\ language \in Languages
<1>1. which \in {1, 2}
  BY DEF AtLanguage
<1>2. files[which] \in Seq(LanguageParts)
  BY <1>1, FilePairsAssumption
<1>3. at \in 1 .. Len(files[which])
  BY <1>2 DEF AtLanguage
<1>4. files[which][at] \in LanguageParts
  BY <1>2, <1>3, ElementOfSeq
<1>5. QED
  BY <1>1, <1>2, <1>3, <1>4 DEF language, LanguageParts

\* A language that the first loop comes to is not listed yet.
LEMMA FirstIsNew ==
  ASSUME files \in FilePairs, which = 1, at \in Nat \ {0}, AtLanguage, ListedPassed
  PROVE  ~Known
<1>1. at \in DOMAIN files[1] /\ \A m, n \in DOMAIN files[1] : m < n => files[1][m].language # files[1][n].language
  BY LanguageIs, FilePairsAssumption
<1>2. SUFFICES ASSUME NEW m \in DOMAIN items, items[m].language = language PROVE FALSE
  BY DEF Known, items
<1>3. PICK f \in {1, 2} : \E n \in DOMAIN files[f] : Passed(f, n) /\ items[m].language = files[f][n].language
  BY DEF ListedPassed
<1>4. PICK n \in DOMAIN files[f] : Passed(f, n) /\ items[m].language = files[f][n].language
  BY <1>3
<1>5. f = 1 /\ n < at
  BY <1>3, <1>4 DEF Passed
<1>6. files[1][n].language # files[1][at].language
  BY <1>1, <1>4, <1>5
<1>7. QED
  BY <1>2, <1>4, <1>5, <1>6 DEF language

\* What depends on the files and the list stays with them.
LEMMA ListsKept ==
  ASSUME UNCHANGED <<files, lists>>
  PROVE  /\ items' = items /\ ListedOnce' = ListedOnce /\ ItemsRight' = ItemsRight
         /\ ListedInOrder' = ListedInOrder
         /\ (files \in FilePairs)' = (files \in FilePairs)
         /\ \A f, l : Parsed(f, l)' = Parsed(f, l)
<1>1. items' = items
  BY DEF items
<1>2. \A f, l : Parsed(f, l)' = Parsed(f, l)
  BY DEF Parsed
<1>3. ItemsRight' = ItemsRight
  BY <1>1, <1>2 DEF ItemsRight, ItemRight, CodeRight
<1>4. QED
  BY <1>1, <1>2, <1>3 DEF ListedOnce, ListedInOrder, ComesBefore

\* Nothing of the loops changes.
LEMMA PlaceKept ==
  ASSUME UNCHANGED <<files, which, at, lists>>
  PROVE  /\ PassedListed' = PassedListed /\ ListedPassed' = ListedPassed
         /\ AtLanguage' = AtLanguage /\ language' = language /\ Known' = Known
<1>1. items' = items
  BY ListsKept
<1>2. \A f, n : Passed(f, n)' = Passed(f, n)
  BY DEF Passed
<1>3. PassedListed' = PassedListed
  BY <1>1, <1>2 DEF PassedListed
<1>4. ListedPassed' = ListedPassed
  BY <1>1, <1>2 DEF ListedPassed
<1>5. AtLanguage' = AtLanguage /\ language' = language /\ Known' = Known
  BY DEF AtLanguage, language, Known
<1>6. QED
  BY <1>3, <1>4, <1>5

\* The loops begin in the invariant.
LEMMA SFDInvInit ==
  ASSUME SFDInit
  PROVE  SFDInv
<1>1. DiffInv
  <2>1. Hashed /\ Answered
    BY EmptyText DEF SFDInit
  <2>2. text \in Words \X Words
    <3>1. <<>> \in Words
      BY DEF Words
    <3>2. << <<>>, <<>> >> \in Words \X Words
      BY <3>1
    <3>3. QED
      BY <3>2 DEF SFDInit
  <2>3. pc = "done" /\ mates = {}
    BY DEF SFDInit, Unused
  <2>4. QED
    BY <2>1, <2>2, <2>3 DEF DiffInv
<1>2. files \in FilePairs /\ which = 1 /\ at = 1 /\ part = "none" /\ lists = [d \in {"diff"} |-> <<>>]
  BY DEF SFDInit
<1>3. items = <<>>
  BY <1>2 DEF items
<1>4. items \in Seq(Entries) /\ DOMAIN items = {}
  BY <1>3
<1>5. PassedListed
  <2>1. SUFFICES ASSUME NEW f \in {1, 2}, NEW n \in DOMAIN files[f], Passed(f, n) PROVE FALSE
    BY DEF PassedListed
  <2>2. n \in Nat \ {0}
    BY <1>2, FilePairsAssumption
  <2>3. QED
    BY <1>2, <2>1, <2>2 DEF Passed
<1>6. ListedPassed /\ ListedOnce /\ ListedInOrder /\ ItemsRight
  BY <1>4 DEF ListedPassed, ListedOnce, ListedInOrder, ItemsRight
<1>7. Comparing
  BY <1>2 DEF Comparing
<1>8. QED
  BY <1>1, <1>2, <1>3, <1>4, <1>5, <1>6, <1>7 DEF SFDInv

\* The loops go on to the next place.
LEMMA NextPlace ==
  ASSUME SFDInv, AtLanguage, which' = which, files' = files, at' = at + 1,
         Listed(items', language), \A l : Listed(items, l) => Listed(items', l)
  PROVE  PassedListed'
<1>1. SUFFICES ASSUME NEW f \in {1, 2}, NEW n \in DOMAIN files[f], Passed(f, n)'
               PROVE  Listed(items', files[f][n].language)
  BY DEF PassedListed
<1>2. which \in {1, 2} /\ at \in Nat /\ files \in FilePairs
  BY LanguageIs DEF SFDInv
<1>3. n \in Nat
  BY <1>2, FilePairsAssumption
<1>4. CASE f = which /\ n = at
  BY <1>4 DEF language
<1>5. CASE ~(f = which /\ n = at)
  <2>1. Passed(f, n)
    BY <1>1, <1>2, <1>3, <1>5 DEF Passed
  <2>2. Listed(items, files[f][n].language)
    BY <2>1 DEF SFDInv, PassedListed
  <2>3. QED
    BY <2>2
<1>6. QED
  BY <1>4, <1>5

\* What was listed is still of a language gone through.
LEMMA StillPassed ==
  ASSUME SFDInv, NEW m \in DOMAIN items, files' = files,
         \A f \in {1, 2} : \A n \in DOMAIN files[f] : Passed(f, n) => Passed(f, n)'
  PROVE  \E f \in {1, 2} : \E n \in DOMAIN files'[f] :
           Passed(f, n)' /\ items[m].language = files'[f][n].language
<1>1. PICK f \in {1, 2} : \E n \in DOMAIN files[f] : Passed(f, n) /\ items[m].language = files[f][n].language
  BY DEF SFDInv, ListedPassed
<1>2. QED
  BY <1>1

\* Skip keeps the invariant.
LEMMA SkipInv ==
  ASSUME SFDInv, Skip
  PROVE  SFDInv'
<1>1. /\ AtLanguage /\ part = "none" /\ part' = "none" /\ Known /\ at' = at + 1
      /\ UNCHANGED vars /\ UNCHANGED <<files, which, lists>>
  BY DEF Skip, locVars
<1>2. DiffInv'
  BY <1>1, DiffInvStutters DEF SFDInv
<1>3. /\ items' = items /\ ListedOnce' /\ ListedInOrder' /\ ItemsRight' /\ (files \in FilePairs)'
  BY <1>1, ListsKept DEF SFDInv
<1>4. Listed(items', language)
  BY <1>1, <1>3 DEF Known, Listed, items
<1>5. PassedListed'
  BY <1>1, <1>3, <1>4, NextPlace
<1>6. ListedPassed'
  <2>1. at \in Nat /\ which \in {1, 2, 3}
    BY DEF SFDInv
  <2>2. \A f \in {1, 2} : \A n \in DOMAIN files[f] : Passed(f, n) => Passed(f, n)'
    <3>1. SUFFICES ASSUME NEW f \in {1, 2}, NEW n \in DOMAIN files[f], Passed(f, n) PROVE Passed(f, n)'
      OBVIOUS
    <3>2. n \in Nat
      BY FilePairsAssumption DEF SFDInv
    <3>3. QED
      BY <1>1, <2>1, <3>1, <3>2 DEF Passed
  <2>3. QED
    BY <1>1, <1>3, <2>2, StillPassed DEF ListedPassed
<1>7. Comparing'
  BY <1>1 DEF Comparing
<1>8. at' \in Nat \ {0} /\ which' \in {1, 2, 3} /\ lists' = [d \in {"diff"} |-> items'] /\ items' \in Seq(Entries)
  BY <1>1, <1>3 DEF SFDInv
<1>9. QED
  BY <1>2, <1>3, <1>5, <1>6, <1>7, <1>8 DEF SFDInv

\* NextFile keeps the invariant.
LEMMA NextFileInv ==
  ASSUME SFDInv, NextFile
  PROVE  SFDInv'
<1>1. /\ which < 3 /\ at > Len(files[which]) /\ which' = which + 1 /\ at' = 1
      /\ UNCHANGED vars /\ UNCHANGED <<files, part, lists>>
  BY DEF NextFile, locVars
<1>2. DiffInv'
  BY <1>1, DiffInvStutters DEF SFDInv
<1>3. /\ items' = items /\ ListedOnce' /\ ListedInOrder' /\ ItemsRight' /\ (files \in FilePairs)'
  BY <1>1, ListsKept DEF SFDInv
<1>4. /\ which \in {1, 2} /\ which' \in {2, 3} /\ at \in Nat /\ files \in FilePairs
      /\ which' = which + 1
  BY <1>1 DEF SFDInv
<1>5. \A f \in {1, 2} : \A n \in DOMAIN files[f] : Passed(f, n) <=> Passed(f, n)'
  <2>1. SUFFICES ASSUME NEW f \in {1, 2}, NEW n \in DOMAIN files[f] PROVE Passed(f, n) <=> Passed(f, n)'
    OBVIOUS
  <2>2. n \in Nat \ {0} /\ n <= Len(files[f]) /\ Len(files[f]) \in Nat
    BY <1>4, FilePairsAssumption
  <2>3. f = which => n < at
    BY <1>1, <1>4, <2>2
  <2>4. Passed(f, n) <=> f <= which
    BY <1>4, <2>3 DEF Passed
  <2>5. Passed(f, n)' <=> f <= which
    BY <1>1, <1>4, <2>2 DEF Passed
  <2>6. QED
    BY <2>4, <2>5
<1>6. PassedListed'
  BY <1>1, <1>3, <1>5 DEF SFDInv, PassedListed
<1>7. ListedPassed'
  BY <1>1, <1>3, <1>5, StillPassed DEF ListedPassed
<1>8. part = "none"
  BY <1>1, <1>4 DEF SFDInv, Comparing, AtLanguage
<1>9. Comparing'
  BY <1>1, <1>8 DEF Comparing
<1>10. at' \in Nat \ {0} /\ which' \in {1, 2, 3} /\ lists' = [d \in {"diff"} |-> items'] /\ items' \in Seq(Entries)
  BY <1>1, <1>3, <1>4 DEF SFDInv
<1>11. QED
  BY <1>2, <1>3, <1>6, <1>7, <1>9, <1>10 DEF SFDInv

\* What a call changes is not what the loops have.
LEMMA CallKeeps ==
  ASSUME SFDInv, UNCHANGED <<files, which, at, lists>>, DiffInv', Comparing'
  PROVE  SFDInv'
<1>1. /\ items' = items /\ ListedOnce' /\ ListedInOrder' /\ ItemsRight' /\ (files \in FilePairs)'
  BY ListsKept DEF SFDInv
<1>2. PassedListed' /\ ListedPassed'
  BY PlaceKept DEF SFDInv
<1>3. at' \in Nat \ {0} /\ which' \in {1, 2, 3} /\ lists' = [d \in {"diff"} |-> items'] /\ items' \in Seq(Entries)
  BY <1>1 DEF SFDInv
<1>4. QED
  BY <1>1, <1>2, <1>3 DEF SFDInv

\* The LocDelta of nothing.
LEMMA ZeroIs == L!Zero = [f \in L!Changes |-> 0]
  BY DEF L!Zero, L!Fields

\* CompareCode keeps the invariant.
LEMMA CompareCodeInv ==
  ASSUME SFDInv, CompareCode
  PROVE  SFDInv'
<1>1. /\ AtLanguage /\ (which = 1 \/ ~Known)
      /\ CalcDiff(Parsed(1, language).code, Parsed(2, language).code)
      /\ delta' = L!Zero /\ part' = "code" /\ UNCHANGED <<files, which, at, lists>>
  BY DEF CompareCode, locVars
<1>2. PICK s, t : s = Parsed(1, language).code /\ t = Parsed(2, language).code
  OBVIOUS
<1>3. s \in Words /\ t \in Words
  BY <1>2, ParsedType DEF SFDInv
<1>4. CalcDiff(s, t)
  BY <1>1, <1>2
<1>5. DiffInv'
  BY <1>3, <1>4, CalcDiffInv DEF SFDInv
<1>6. ~Known
  BY <1>1, FirstIsNew DEF SFDInv
<1>7. AtLanguage' /\ ~Known' /\ language' = language
  BY <1>1, <1>6, PlaceKept
<1>8. Parsed(1, language)' = Parsed(1, language) /\ Parsed(2, language)' = Parsed(2, language)
  BY <1>1, <1>7 DEF Parsed
<1>9. text' = <<s, t>>
  BY <1>4 DEF CalcDiff
<1>10. Comparing'
  BY <1>1, <1>2, <1>7, <1>8, <1>9 DEF Comparing
<1>11. QED
  BY <1>1, <1>5, <1>10, CallKeeps

\* The steps of a call keep the invariant.
LEMMA CalcInv ==
  ASSUME SFDInv, Calc
  PROVE  SFDInv'
<1>1. Next /\ UNCHANGED <<files, which, at, part, delta, lists>>
  BY DEF Calc, sfdVars, locVars
<1>2. DiffInv'
  BY <1>1, DiffInvNext DEF SFDInv
<1>3. text' = text
  BY <1>1, TextKept
<1>4. AtLanguage' = AtLanguage /\ Known' = Known /\ language' = language
  BY <1>1, PlaceKept
<1>5. Parsed(1, language)' = Parsed(1, language) /\ Parsed(2, language)' = Parsed(2, language)
  BY <1>1, <1>4 DEF Parsed
<1>6. (L!Zero)' = L!Zero
  BY DEF L!Zero, L!Fields, L!Changes
<1>7. CodeRight(delta, language)' = CodeRight(delta, language) /\ RestZero(delta)' = RestZero(delta)
  BY <1>1, <1>4, <1>5 DEF CodeRight, RestZero
<1>8. Comparing'
  BY <1>1, <1>3, <1>4, <1>5, <1>6, <1>7 DEF SFDInv, Comparing
<1>9. QED
  BY <1>1, <1>2, <1>8, CallKeeps

\* CompareComments keeps the invariant: the answer for the code is right.
LEMMA CompareCommentsInv ==
  ASSUME SFDInv, CompareComments
  PROVE  SFDInv'
<1>1. /\ part = "code"
      /\ CalcDiff(Parsed(1, language).comments, Parsed(2, language).comments)
      /\ delta' = [delta EXCEPT !["code_added"] = added, !["code_removed"] = removed]
      /\ part' = "comments" /\ UNCHANGED <<files, which, at, lists>>
  BY DEF CompareComments, locVars
<1>2. PICK s, t : s = Parsed(1, language).comments /\ t = Parsed(2, language).comments
  OBVIOUS
<1>3. s \in Words /\ t \in Words
  BY <1>2, ParsedType DEF SFDInv
<1>4. CalcDiff(s, t)
  BY <1>1, <1>2
<1>5. DiffInv'
  BY <1>3, <1>4, CalcDiffInv DEF SFDInv
<1>6. AtLanguage' /\ ~Known' /\ language' = language
  BY <1>1, PlaceKept DEF SFDInv, Comparing
<1>7. Parsed(1, language)' = Parsed(1, language) /\ Parsed(2, language)' = Parsed(2, language)
  BY <1>1, <1>6 DEF Parsed
<1>8. text' = <<s, t>> /\ pc = "done"
  BY <1>4 DEF CalcDiff
<1>9. Tells(text[1], text[2], added, removed)
  BY <1>8, AnswerTells DEF SFDInv
<1>10. text = <<Parsed(1, language).code, Parsed(2, language).code>> /\ delta = L!Zero
  BY <1>1 DEF SFDInv, Comparing
<1>11. PICK a, r : a = added /\ r = removed
  OBVIOUS
<1>12. Tells(Parsed(1, language).code, Parsed(2, language).code, a, r) /\ a \in Nat /\ r \in Nat
  BY <1>9, <1>10, <1>11 DEF Tells
<1>13. delta' = [f \in L!Changes |-> IF f = "code_added" THEN a ELSE IF f = "code_removed" THEN r ELSE 0]
  BY <1>1, <1>10, <1>11, ZeroIs DEF L!Changes
<1>14. /\ delta' \in [L!Changes -> Nat] /\ delta'["code_added"] = a /\ delta'["code_removed"] = r
       /\ \A f \in L!Changes \ {"code_added", "code_removed"} : delta'[f] = 0
  BY <1>12, <1>13 DEF L!Changes
<1>15. CodeRight(delta, language)' /\ RestZero(delta)'
  <2>1. CodeRight(delta', language)
    BY <1>12, <1>14 DEF CodeRight
  <2>2. CodeRight(delta, language)'
    BY <1>6, <1>7, <2>1 DEF CodeRight, Tells, Gained, Seen, L!Changes
  <2>3. QED
    BY <1>14, <2>2 DEF RestZero, L!Changes
<1>16. Comparing'
  BY <1>1, <1>2, <1>6, <1>7, <1>8, <1>15 DEF Comparing
<1>17. QED
  BY <1>1, <1>5, <1>16, CallKeeps

\* A language that is not listed is appended.
LEMMA AddedLast ==
  ASSUME SFDInv, ~Known, NEW n, L!AddOne("diff", language, n)
  PROVE  items' = Append(items, [language |-> language, n |-> n])
<1>1. lists' = [lists EXCEPT !["diff"] = L!Add(lists["diff"], [language |-> language, n |-> n])]
  BY DEF L!AddOne
<1>2. items' = L!Add(items, [language |-> language, n |-> n])
  BY <1>1 DEF items, SFDInv
<1>3. L!Add(items, [language |-> language, n |-> n]) = L!AddLocDelta(items, [language |-> language, n |-> n])
  BY DEF L!Add
<1>4. ~(items # <<>> /\ items[1].language = language)
  <2>1. items # <<>> => 1 \in DOMAIN items
    BY DEF SFDInv
  <2>2. QED
    BY <2>1 DEF Known, items
<1>5. L!AddLocDelta(items, [language |-> language, n |-> n]) = Append(items, [language |-> language, n |-> n])
  BY <1>4 DEF L!AddLocDelta
<1>6. QED
  BY <1>2, <1>3, <1>5

\* The LocDelta that is added is right.
LEMMA DeltaIsRight ==
  ASSUME SFDInv, AddDelta
  PROVE  /\ AtLanguage /\ ~Known /\ UNCHANGED <<files, which>> /\ UNCHANGED vars
         /\ at' = at + 1 /\ part' = "none"
         /\ \E n \in [L!Changes -> Nat] :
              ItemRight(n, language) /\ L!AddOne("diff", language, n)
<1>1. /\ part = "comments" /\ pc = "done" /\ part' = "none" /\ at' = at + 1
      /\ UNCHANGED <<files, which>> /\ UNCHANGED vars
  BY DEF AddDelta
<1>2. PICK from, to : from = Parsed(1, language).blanks /\ to = Parsed(2, language).blanks
  OBVIOUS
<1>3. from \in Nat /\ to \in Nat
  BY <1>2, ParsedType DEF SFDInv
<1>4. /\ AtLanguage /\ ~Known /\ CodeRight(delta, language) /\ RestZero(delta)
      /\ text = <<Parsed(1, language).comments, Parsed(2, language).comments>>
  BY <1>1 DEF SFDInv, Comparing
<1>5. Tells(text[1], text[2], added, removed)
  BY <1>1, AnswerTells DEF SFDInv
<1>6. PICK a, r : a = added /\ r = removed
  OBVIOUS
<1>7. Tells(Parsed(1, language).comments, Parsed(2, language).comments, a, r) /\ a \in Nat /\ r \in Nat
  BY <1>4, <1>5, <1>6 DEF Tells
<1>8. PICK n : n = [delta EXCEPT
                      !["comments_added"] = a, !["comments_removed"] = r,
                      !["blanks_removed"] = IF from > to THEN from - to ELSE 0,
                      !["blanks_added"] = IF from > to THEN 0 ELSE to - from]
  OBVIOUS
<1>9. L!AddOne("diff", language, n)
  BY <1>2, <1>6, <1>8 DEF AddDelta
<1>10. delta \in [L!Changes -> Nat]
  BY <1>4 DEF CodeRight
<1>11. /\ n \in [L!Changes -> Nat]
       /\ n["comments_added"] = a /\ n["comments_removed"] = r
       /\ n["blanks_removed"] = (IF from > to THEN from - to ELSE 0)
       /\ n["blanks_added"] = (IF from > to THEN 0 ELSE to - from)
       /\ n["code_added"] = delta["code_added"] /\ n["code_removed"] = delta["code_removed"]
  BY <1>3, <1>7, <1>8, <1>10 DEF L!Changes
<1>12. CodeRight(n, language)
  BY <1>4, <1>11 DEF CodeRight
<1>13. ItemRight(n, language)
  BY <1>2, <1>3, <1>7, <1>11, <1>12 DEF ItemRight
<1>14. QED
  BY <1>1, <1>4, <1>9, <1>11, <1>13

\* A language that is not listed comes behind all that are.
LEMMA NewComesLast ==
  ASSUME SFDInv, AtLanguage, ~Known, NEW m \in DOMAIN items
  PROVE  ComesBefore(items[m].language, language)
<1>1. /\ files \in FilePairs /\ at \in Nat \ {0} /\ which \in {1, 2}
      /\ at \in DOMAIN files[which] /\ language = files[which][at].language
  BY LanguageIs DEF SFDInv, language
<1>2. PICK f \in {1, 2} : \E h \in DOMAIN files[f] :
             Passed(f, h) /\ items[m].language = files[f][h].language
  BY DEF SFDInv, ListedPassed
<1>3. PICK h \in DOMAIN files[f] : Passed(f, h) /\ items[m].language = files[f][h].language
  BY <1>2
<1>4. SUFFICES ASSUME NEW g \in {1, 2}, NEW n \in DOMAIN files[g],
                      files[g][n].language = language
               PROVE  f < g \/ (f = g /\ h < n)
  BY <1>3 DEF ComesBefore
<1>5. n \in Nat \ {0} /\ h \in Nat \ {0}
  BY <1>1, <1>3, <1>4, FilePairsAssumption
<1>6. ~Passed(g, n)
  <2>1. ~Listed(items, language)
    BY DEF Known, Listed, items
  <2>2. QED
    BY <1>4, <2>1 DEF SFDInv, PassedListed
<1>7. g = which => n = at
  <2>1. \A a, b \in DOMAIN files[which] :
          a < b => files[which][a].language # files[which][b].language
    BY <1>1, FilePairsAssumption
  <2>2. QED
    BY <1>1, <1>4, <1>5, <2>1
<1>8. QED
  BY <1>1, <1>2, <1>3, <1>5, <1>6, <1>7 DEF Passed

\* AddDelta keeps the invariant.
LEMMA AddDeltaInv ==
  ASSUME SFDInv, AddDelta
  PROVE  SFDInv'
<1>1. /\ AtLanguage /\ ~Known /\ UNCHANGED <<files, which>> /\ UNCHANGED vars
      /\ at' = at + 1 /\ part' = "none"
  BY DeltaIsRight
<1>2. PICK n \in [L!Changes -> Nat] : ItemRight(n, language) /\ L!AddOne("diff", language, n)
  BY DeltaIsRight
<1>3. items' = Append(items, [language |-> language, n |-> n])
  BY <1>1, <1>2, AddedLast
<1>4. PICK item, l : item = [language |-> language, n |-> n] /\ l = language
  OBVIOUS
<1>5. item \in Entries /\ item.language = l /\ item.n = n
  <2>1. language \in Languages
    BY <1>1, LanguageIs DEF SFDInv
  <2>2. QED
    BY <1>2, <1>4, <2>1 DEF Entries
<1>6. PICK I, K : I = items /\ K = Len(items)
  OBVIOUS
<1>7. I \in Seq(Entries) /\ K \in Nat /\ DOMAIN I = 1 .. K /\ items' = Append(I, item)
  BY <1>3, <1>4, <1>6 DEF SFDInv
<1>8. /\ items' \in Seq(Entries) /\ DOMAIN items' = 1 .. K + 1
      /\ items'[K + 1] = item /\ \A m \in 1 .. K : items'[m] = I[m]
  BY <1>5, <1>6, <1>7, AppendProperties
<1>9. \A m \in 1 .. K : I[m].language # l
  BY <1>1, <1>4, <1>6, <1>7 DEF Known, items
<1>10. DiffInv'
  BY <1>1, DiffInvStutters DEF SFDInv
<1>11. Listed(items', l)
  BY <1>5, <1>7, <1>8 DEF Listed
<1>12. \A h : Listed(I, h) => Listed(items', h)
  BY <1>7, <1>8 DEF Listed
<1>13. PassedListed'
  BY <1>1, <1>4, <1>6, <1>11, <1>12, NextPlace
<1>14. ListedPassed'
  <2>1. at \in Nat \ {0} /\ which \in {1, 2, 3} /\ files \in FilePairs
    BY DEF SFDInv
  <2>2. \A f \in {1, 2} : \A h \in DOMAIN files[f] : Passed(f, h) => Passed(f, h)'
    <3>1. SUFFICES ASSUME NEW f \in {1, 2}, NEW h \in DOMAIN files[f], Passed(f, h) PROVE Passed(f, h)'
      OBVIOUS
    <3>2. h \in Nat
      BY <2>1, FilePairsAssumption
    <3>3. QED
      BY <1>1, <2>1, <3>1, <3>2 DEF Passed
  <2>3. SUFFICES ASSUME NEW m \in DOMAIN items'
                 PROVE  \E f \in {1, 2} : \E h \in DOMAIN files'[f] :
                          Passed(f, h)' /\ items'[m].language = files'[f][h].language
    BY DEF ListedPassed
  <2>4. CASE m = K + 1
    <3>1. PICK f, h : f = which /\ h = at
      OBVIOUS
    <3>2. f \in {1, 2} /\ h \in DOMAIN files[f]
      BY <1>1, <2>1, <3>1, LanguageIs
    <3>3. Passed(f, h)'
      BY <1>1, <2>1, <3>1 DEF Passed
    <3>4. items'[m].language = files[f][h].language
      BY <1>4, <1>5, <1>8, <2>4, <3>1 DEF language
    <3>5. QED
      BY <1>1, <3>2, <3>3, <3>4
  <2>5. CASE m # K + 1
    <3>1. m \in 1 .. K
      BY <1>7, <1>8, <2>5
    <3>2. m \in DOMAIN items /\ items'[m] = items[m]
      BY <1>6, <1>7, <1>8, <3>1
    <3>3. \E f \in {1, 2} : \E h \in DOMAIN files'[f] :
            Passed(f, h)' /\ items[m].language = files'[f][h].language
      BY <1>1, <2>2, <3>2, StillPassed
    <3>4. QED
      BY <3>2, <3>3
  <2>6. QED
    BY <2>4, <2>5
<1>15. ListedOnce'
  <2>1. \A m, h \in 1 .. K : m < h => I[m].language # I[h].language
    BY <1>6, <1>7 DEF SFDInv, ListedOnce
  <2>2. SUFFICES ASSUME NEW m \in 1 .. K + 1, NEW h \in 1 .. K + 1, m < h
                 PROVE  items'[m].language # items'[h].language
    BY <1>8 DEF ListedOnce
  <2>3. m \in 1 .. K
    BY <1>7, <2>2
  <2>4. CASE h = K + 1
    BY <1>5, <1>8, <1>9, <2>3, <2>4
  <2>5. CASE h # K + 1
    <3>1. h \in 1 .. K
      BY <1>7, <2>5
    <3>2. QED
      BY <1>8, <2>1, <2>2, <2>3, <3>1
  <2>6. QED
    BY <2>4, <2>5
<1>16. ItemsRight'
  <2>1. \A m \in 1 .. K : ItemRight(I[m].n, I[m].language)
    BY <1>6, <1>7 DEF SFDInv, ItemsRight
  <2>2. ItemRight(item.n, item.language)
    BY <1>2, <1>4, <1>5
  <2>3. \A m \in 1 .. K + 1 : ItemRight(items'[m].n, items'[m].language)
    <3>1. SUFFICES ASSUME NEW m \in 1 .. K + 1 PROVE ItemRight(items'[m].n, items'[m].language)
      OBVIOUS
    <3>2. CASE m = K + 1
      BY <1>8, <2>2, <3>2
    <3>3. CASE m # K + 1
      <4>1. m \in 1 .. K
        BY <1>7, <3>3
      <4>2. QED
        BY <1>8, <2>1, <4>1
    <3>4. QED
      BY <3>2, <3>3
  <2>4. \A f, h : Parsed(f, h)' = Parsed(f, h)
    BY <1>1 DEF Parsed
  <2>5. SUFFICES ASSUME NEW m \in DOMAIN items' PROVE ItemRight(items[m].n, items[m].language)'
    BY DEF ItemsRight
  <2>6. ItemRight(items'[m].n, items'[m].language)
    BY <1>8, <2>3, <2>5
  <2>7. QED
    BY <2>4, <2>6 DEF ItemRight, CodeRight
<1>17. Comparing'
  BY <1>1 DEF Comparing
<1>21. ListedInOrder'
  <2>1. SUFFICES ASSUME NEW m \in 1 .. K + 1, NEW h \in 1 .. K + 1, m < h
                 PROVE  ComesBefore(items'[m].language, items'[h].language)
    BY <1>1, <1>8 DEF ListedInOrder, ComesBefore
  <2>2. m \in 1 .. K
    BY <1>7, <2>1
  <2>3. CASE h = K + 1
    <3>1. m \in DOMAIN items /\ items'[m] = items[m]
      BY <1>6, <1>7, <1>8, <2>2
    <3>2. ComesBefore(items[m].language, language)
      BY <1>1, <3>1, NewComesLast
    <3>3. QED
      BY <1>4, <1>5, <1>8, <2>3, <3>1, <3>2
  <2>4. CASE h # K + 1
    <3>1. h \in 1 .. K
      BY <1>7, <2>4
    <3>2. ComesBefore(I[m].language, I[h].language)
      BY <1>6, <1>7, <2>1, <2>2, <3>1 DEF SFDInv, ListedInOrder
    <3>3. QED
      BY <1>8, <2>2, <3>1, <3>2
  <2>5. QED
    BY <2>3, <2>4
<1>18. lists' = [d \in {"diff"} |-> items']
  <2>1. lists' = [lists EXCEPT !["diff"] = L!Add(lists["diff"], [language |-> language, n |-> n])]
    BY <1>2 DEF L!AddOne
  <2>2. PICK X : X = L!Add(lists["diff"], [language |-> language, n |-> n])
    OBVIOUS
  <2>3. lists' = [lists EXCEPT !["diff"] = X] /\ lists = [d \in {"diff"} |-> items]
    BY <2>1, <2>2 DEF SFDInv
  <2>4. lists' = [d \in {"diff"} |-> X]
    BY <2>3
  <2>5. QED
    BY <2>4 DEF items
<1>19. at' \in Nat \ {0} /\ which' \in {1, 2, 3} /\ (files \in FilePairs)'
  BY <1>1 DEF SFDInv
<1>20. QED
  BY <1>8, <1>10, <1>13, <1>14, <1>15, <1>16, <1>17, <1>18, <1>19, <1>21 DEF SFDInv

\* Once the loops are done the list is as DeltaOfFiles says.
LEMMA SFDInvDelta ==
  ASSUME SFDInv
  PROVE  DeltaOfFiles
<1>1. SUFFICES ASSUME which = 3 PROVE DeltaOfFiles
  BY DEF DeltaOfFiles
<1>. DEFINE names(f) == {files[f][n].language : n \in DOMAIN files[f]}
<1>2. \A f \in {1, 2} : \A n \in DOMAIN files[f] : Passed(f, n)
  BY <1>1 DEF Passed
<1>3. {items[n].language : n \in DOMAIN items} = names(1) \cup names(2)
  <2>1. ASSUME NEW n \in DOMAIN items PROVE items[n].language \in names(1) \cup names(2)
    <3>1. PICK f \in {1, 2} : \E h \in DOMAIN files[f] : items[n].language = files[f][h].language
      BY DEF SFDInv, ListedPassed
    <3>2. QED
      BY <3>1
  <2>2. ASSUME NEW f \in {1, 2}, NEW n \in DOMAIN files[f]
        PROVE  \E m \in DOMAIN items : items[m].language = files[f][n].language
    BY <1>2 DEF SFDInv, PassedListed, Listed
  <2>3. QED
    BY <2>1, <2>2
<1>4. ASSUME NEW m \in DOMAIN items
      PROVE  LET from == Parsed(1, items[m].language)
                 to == Parsed(2, items[m].language)
                 n == items[m].n
             IN  /\ n["code_added"] - n["code_removed"] = Gained(from.code, to.code)
                 /\ n["comments_added"] - n["comments_removed"]
                      = Gained(from.comments, to.comments)
                 /\ n["blanks_added"] - n["blanks_removed"] = to.blanks - from.blanks
                 /\ n["code_removed"] <= Len(from.code)
                 /\ n["comments_removed"] <= Len(from.comments)
                 /\ n["blanks_removed"] <= from.blanks
                 /\ from = to => n = L!Zero
  <2>1. PICK from, to, n : from = Parsed(1, items[m].language) /\ to = Parsed(2, items[m].language) /\ n = items[m].n
    OBVIOUS
  <2>2. ItemRight(n, items[m].language)
    BY <2>1 DEF SFDInv, ItemsRight
  <2>3. /\ n \in [L!Changes -> Nat]
        /\ Tells(from.code, to.code, n["code_added"], n["code_removed"])
        /\ Tells(from.comments, to.comments, n["comments_added"], n["comments_removed"])
        /\ n["blanks_added"] - n["blanks_removed"] = to.blanks - from.blanks
        /\ n["blanks_removed"] <= from.blanks
        /\ from.blanks = to.blanks => n["blanks_added"] = 0 /\ n["blanks_removed"] = 0
    BY <2>1, <2>2 DEF ItemRight, CodeRight
  <2>4. ASSUME from = to PROVE n = L!Zero
    <3>1. /\ n["code_added"] = 0 /\ n["code_removed"] = 0
          /\ n["comments_added"] = 0 /\ n["comments_removed"] = 0
          /\ n["blanks_added"] = 0 /\ n["blanks_removed"] = 0
      BY <2>3, <2>4 DEF Tells
    <3>2. \A f \in L!Changes : n[f] = 0
      BY <3>1 DEF L!Changes
    <3>3. QED
      BY <2>3, <3>2, ZeroIs
  <2>5. /\ n["code_added"] - n["code_removed"] = Gained(from.code, to.code)
        /\ n["comments_added"] - n["comments_removed"] = Gained(from.comments, to.comments)
        /\ n["code_removed"] <= Len(from.code)
        /\ n["comments_removed"] <= Len(from.comments)
    BY <2>3 DEF Tells
  <2>6. QED
    BY <2>1, <2>3, <2>4, <2>5
<1>5. \A m, n \in DOMAIN items :
        m < n => /\ items[m].language # items[n].language
                 /\ ComesBefore(items[m].language, items[n].language)
  BY DEF SFDInv, ListedOnce, ListedInOrder
<1>. HIDE DEF names
<1>6. QED
  BY <1>3, <1>4, <1>5 DEF DeltaOfFiles, items, names

\* The inductive invariant holds in every state.
LEMMA SFDInvAlways == SFDSpec => []SFDInv
<1>1. SFDInit => SFDInv
  BY SFDInvInit
<1>2. SFDInv /\ [SFDNext]_<<vars, sfdVars>> => SFDInv'
  <2>1. SUFFICES ASSUME SFDInv, [SFDNext]_<<vars, sfdVars>> PROVE SFDInv'
    OBVIOUS
  <2>2. CASE Skip
    BY <2>1, <2>2, SkipInv
  <2>3. CASE CompareCode
    BY <2>1, <2>3, CompareCodeInv
  <2>4. CASE Calc
    BY <2>1, <2>4, CalcInv
  <2>5. CASE CompareComments
    BY <2>1, <2>5, CompareCommentsInv
  <2>6. CASE AddDelta
    BY <2>1, <2>6, AddDeltaInv
  <2>7. CASE NextFile
    BY <2>1, <2>7, NextFileInv
  <2>8. CASE UNCHANGED <<vars, sfdVars>>
    <3>1. UNCHANGED vars /\ UNCHANGED <<files, which, at, part, delta, lists>>
      BY <2>8 DEF sfdVars, locVars
    <3>2. DiffInv'
      BY <2>1, <3>1, DiffInvStutters DEF SFDInv
    <3>3. text' = text
      BY <3>1 DEF vars, input
    <3>4. AtLanguage' = AtLanguage /\ Known' = Known /\ language' = language
      BY <3>1, PlaceKept
    <3>5. Parsed(1, language)' = Parsed(1, language) /\ Parsed(2, language)' = Parsed(2, language)
      BY <3>1, <3>4 DEF Parsed
    <3>6. (L!Zero)' = L!Zero
      BY DEF L!Zero, L!Fields, L!Changes
    <3>7. CodeRight(delta, language)' = CodeRight(delta, language) /\ RestZero(delta)' = RestZero(delta)
      BY <3>1, <3>4, <3>5 DEF CodeRight, RestZero
    <3>8. Comparing'
      BY <2>1, <3>1, <3>3, <3>4, <3>5, <3>6, <3>7 DEF SFDInv, Comparing
    <3>9. QED
      BY <2>1, <3>1, <3>2, <3>8, CallKeeps
  <2>9. QED
    BY <2>1, <2>2, <2>3, <2>4, <2>5, <2>6, <2>7, <2>8 DEF SFDNext
<1>3. QED
  BY <1>1, <1>2, PTL DEF SFDSpec

\* After each line of file 0 the candidates in klist are the k-candidates that
\* the comment in diff.c (395-401) defines, for every pair of files, hash and
\* list of languages.
THEOREM KCandidatesAlways == SFDSpec => []KCandidates
<1>1. SFDInv => KCandidates
  BY DiffInvHolds DEF SFDInv
<1>2. QED
  BY <1>1, SFDInvAlways, PTL

\* ohcount_calc_diff (diff.c) counts as added and removed the lines outside a
\* longest common subsequence of the hashed lines, whatever the call before left
\* in the globals.
THEOREM LeastChangeAlways == SFDSpec => []LeastChange
<1>1. SFDInv => LeastChange
  BY DiffInvHolds DEF SFDInv
<1>2. QED
  BY <1>1, SFDInvAlways, PTL

\* The list that ohcount_sourcefile_diff (sourcefile.c) returns has each language
\* of either file once, and what it says of one is the difference of its lines.
THEOREM DeltaOfFilesAlways == SFDSpec => []DeltaOfFiles
<1>1. SFDInv => DeltaOfFiles
  BY SFDInvDelta
<1>2. QED
  BY <1>1, SFDInvAlways, PTL
===============================================================================
