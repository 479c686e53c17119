--------------------------- MODULE DetectorProofs ---------------------------
(***************************************************************************)
(* Proofs about Detector, for every file and all tables: however many      *)
(* extensions "in" a name has, the language is that of the same contents   *)
(* under the name without them; what the disambiguators that read lines    *)
(* have kept is, whenever they take a line, what the lines before it say;  *)
(* and empty lines at the beginning or the end do not change an answer,    *)
(* with the exceptions that the property names.                            *)
(*                                                                         *)
(* String literals with a blank in them are kept out of sight (HIDE) where *)
(* numbers are compared.                                                   *)
(***************************************************************************)
EXTENDS Detector, TLAPS, NaturalsInduction, WellFoundedInduction, SequenceTheorems,
        FiniteSetTheorems

-----------------------------------------------------------------------------
(* Induction over the naturals, as statements about sets.                  *)

\* The library's theorem that < is well-founded, with its operator expanded.
LEMMA LessThanWellFounded ==
    IsWellFoundedOn({e \in Nat \X Nat : e[1] < e[2]}, Nat)
  BY NatLessThanWellFounded DEF OpToRel

\* A set of naturals that is not empty has a least element.
LEMMA LeastNat ==
  ASSUME NEW S \in SUBSET Nat, S # {}
  PROVE  \E n \in S : \A m \in S : n <= m
<1>. DEFINE R == {e \in Nat \X Nat : e[1] < e[2]}
<1>1. IsWellFoundedOn(R, Nat)
  BY LessThanWellFounded
<1>2. PICK n \in S : \A m \in S : <<m, n>> \notin R
  <2>. HIDE DEF R
  <2>. QED
    BY <1>1, WFMin
<1>3. ASSUME NEW m \in S PROVE n <= m
  <2>1. m \in Nat /\ n \in Nat
    OBVIOUS
  <2>2. ~(m < n)
    BY <1>2, <2>1
  <2>3. QED
    BY <2>1, <2>2
<1>4. QED
  BY <1>3

\* Induction, with the statement as a set.
LEMMA NatSet ==
  ASSUME NEW S, 0 \in S, \A n \in Nat : n \in S => n + 1 \in S
  PROVE  \A n \in Nat : n \in S
<1>. DEFINE T == {n \in Nat : n \notin S}
<1>1. SUFFICES ASSUME T # {} PROVE FALSE
  OBVIOUS
<1>2. PICK j \in T : \A m \in T : j <= m
  BY <1>1, LeastNat
<1>3. j # 0 /\ j - 1 \in Nat /\ (j - 1) + 1 = j
  BY <1>2
<1>4. j - 1 \in S
  BY <1>2, <1>3
<1>5. QED
  BY <1>2, <1>3, <1>4

-----------------------------------------------------------------------------
(* Places in a text.                                                       *)

\* Texts do not hold what At says behind them.  (The provers do not know of "nl"
\* that it is in STRING.)
Symbols == {"nl"} \cup (STRING \ {"end"})
Texts == Seq(Symbols)

LEMMA TextAt ==
  ASSUME NEW t \in Texts
  PROVE  /\ Len(t) \in Nat /\ DOMAIN t = 1 .. Len(t)
         /\ \A n \in 1 .. Len(t) : At(t, n) = t[n] /\ t[n] # "end"
         /\ \A n \in Int : n \notin 1 .. Len(t) => At(t, n) = "end"
  BY DEF Texts, Symbols, At

\* A text is what it is made of.
LEMMA SameText ==
  ASSUME NEW t \in Texts, NEW u \in Texts, Len(t) = Len(u),
         \A n \in 1 .. Len(t) : t[n] = u[n]
  PROVE  t = u
  BY SeqEqual DEF Texts

\* The place Skip finds is the first that does not hold one of the symbols.
LEMMA SkipIs ==
  ASSUME NEW t \in Texts, NEW n \in 1 .. Len(t) + 1, NEW S, "end" \notin S
  PROVE  /\ Skip(t, n, S) \in n .. Len(t) + 1
         /\ At(t, Skip(t, n, S)) \notin S
         /\ \A m \in n .. Skip(t, n, S) - 1 : t[m] \in S
<1>. DEFINE K == {m \in Nat : m \in n .. Len(t) + 1 /\ At(t, m) \notin S}
<1>1. Len(t) \in Nat /\ Len(t) + 1 \in K
  BY TextAt
<1>2. PICK m \in K : \A k \in K : m <= k
  <2>1. K \in SUBSET Nat /\ K # {}
    BY <1>1
  <2>. HIDE DEF K
  <2>. QED
    BY <2>1, LeastNat
<1>3. m \in n .. Len(t) + 1 /\ At(t, m) \notin S
  BY <1>2
<1>4. ASSUME NEW k \in n .. m - 1 PROVE t[k] \in S
  <2>1. k \in Nat /\ k \in 1 .. Len(t) /\ k \in n .. Len(t) + 1 /\ ~(m <= k)
    BY <1>1, <1>3
  <2>2. k \notin K
    BY <1>2, <2>1
  <2>3. At(t, k) \in S
    BY <2>1, <2>2
  <2>. QED
    BY <2>1, <2>3, TextAt
<1>. HIDE DEF K
<1>. QED
  BY <1>3, <1>4 DEF Skip

LEMMA SkipOnly ==
  ASSUME NEW t \in Texts, NEW n \in 1 .. Len(t) + 1, NEW S, "end" \notin S,
         NEW m \in n .. Len(t) + 1, At(t, m) \notin S, \A k \in n .. m - 1 : t[k] \in S
  PROVE  Skip(t, n, S) = m
<1>. DEFINE s == Skip(t, n, S)
<1>1. /\ s \in n .. Len(t) + 1
      /\ At(t, s) \notin S
      /\ \A k \in n .. s - 1 : t[k] \in S
  BY SkipIs
<1>. HIDE DEF s
<1>2. Len(t) \in Nat
  BY TextAt
<1>3. ~(s < m)
  <2>. SUFFICES ASSUME s < m PROVE FALSE
    OBVIOUS
  <2>1. s \in n .. m - 1 /\ s \in 1 .. Len(t)
    BY <1>1, <1>2
  <2>. QED
    BY <1>1, <2>1, TextAt
<1>4. ~(m < s)
  <2>. SUFFICES ASSUME m < s PROVE FALSE
    OBVIOUS
  <2>1. m \in n .. s - 1 /\ m \in 1 .. Len(t)
    BY <1>1, <1>2
  <2>. QED
    BY <1>1, <2>1, TextAt
<1>5. s = m
  BY <1>1, <1>2, <1>3, <1>4
<1>. QED
  BY <1>5 DEF s

\* The end of the line that begins at n, the place of its "nl" or behind the text.
EndOf(t, n, m) ==
    /\ m \in n .. Len(t) + 1
    /\ m = Len(t) + 1 \/ t[m] = "nl"
    /\ \A k \in n .. m - 1 : t[k] # "nl"

LEMMA EndExists ==
  ASSUME NEW t \in Texts, NEW n \in 1 .. Len(t) + 1
  PROVE  \E m \in n .. Len(t) + 1 : EndOf(t, n, m)
<1>. DEFINE K == {m \in Nat : m \in n .. Len(t) + 1 /\ (m = Len(t) + 1 \/ t[m] = "nl")}
<1>1. Len(t) \in Nat /\ Len(t) + 1 \in K
  BY TextAt
<1>2. PICK m \in K : \A k \in K : m <= k
  <2>1. K \in SUBSET Nat /\ K # {}
    BY <1>1
  <2>. HIDE DEF K
  <2>. QED
    BY <2>1, LeastNat
<1>3. ASSUME NEW k \in n .. m - 1 PROVE t[k] # "nl"
  <2>1. k \in Nat /\ k \in n .. Len(t) + 1 /\ ~(m <= k)
    BY <1>1, <1>2
  <2>2. k \notin K
    BY <1>2, <2>1
  <2>. QED
    BY <2>1, <2>2
<1>. QED
  BY <1>2, <1>3 DEF EndOf

LEMMA EndUnique ==
  ASSUME NEW t \in Texts, NEW n \in 1 .. Len(t) + 1, NEW m, NEW k,
         EndOf(t, n, m), EndOf(t, n, k)
  PROVE  m = k
<1>1. Len(t) \in Nat
  BY TextAt
<1>2. ~(m < k) /\ ~(k < m)
  BY <1>1 DEF EndOf
<1>. QED
  BY <1>1, <1>2 DEF EndOf

LEMMA LineAtIs ==
  ASSUME NEW t \in Texts, NEW n \in 1 .. Len(t) + 1, NEW m, EndOf(t, n, m)
  PROVE  /\ LineAt(t, n) = SubSeq(t, n, m - 1)
         /\ LineAt(t, n) \in Texts
         /\ Len(LineAt(t, n)) = m - n
         /\ \A k \in 1 .. m - n : LineAt(t, n)[k] = t[n + k - 1] /\ LineAt(t, n)[k] # "nl"
<1>. DEFINE Q(j) == /\ At(t, j) \in {"nl", "end"}
                    /\ \A between \in n .. j - 1 : t[between] # "nl"
            end == CHOOSE j \in n .. Len(t) + 1 : Q(j)
<1>1. Len(t) \in Nat /\ m \in n .. Len(t) + 1
  BY TextAt DEF EndOf
<1>2. ASSUME NEW j \in n .. Len(t) + 1 PROVE Q(j) <=> EndOf(t, n, j)
  <2>1. At(t, j) = (IF j = Len(t) + 1 THEN "end" ELSE t[j]) /\ (j # Len(t) + 1 => t[j] # "end")
    <3>1. j \in 1 .. Len(t) \/ (j = Len(t) + 1 /\ j \in Int /\ j \notin 1 .. Len(t))
      BY <1>1
    <3>. QED
      BY <3>1, <1>1, TextAt
  <2>. QED
    BY <2>1 DEF EndOf
<1>3. Q(m)
  BY <1>1, <1>2
<1>4. end \in n .. Len(t) + 1 /\ Q(end)
  <2>. HIDE DEF Q
  <2>. QED
    BY <1>1, <1>3
<1>5. end = m
  BY <1>2, <1>4, EndUnique
<1>6. LineAt(t, n) = SubSeq(t, n, end - 1)
  BY DEF LineAt
<1>. HIDE DEF Q, end
<1>7. LineAt(t, n) = SubSeq(t, n, m - 1)
  BY <1>5, <1>6
<1>8. ASSUME NEW k \in 1 .. m - n PROVE n + k - 1 \in 1 .. Len(t) /\ t[n + k - 1] # "nl"
  BY <1>1 DEF EndOf
<1>9. SubSeq(t, n, m - 1) = [k \in 1 .. m - n |-> t[n + k - 1]]
  <2>1. (m - 1) - n + 1 = m - n
    BY <1>1
  <2>2. SubSeq(t, n, m - 1) = [k \in 1 .. (m - 1) - n + 1 |-> t[n + k - 1]]
    BY <1>1 DEF Texts
  <2>. QED
    BY <2>1, <2>2
<1>10. SubSeq(t, n, m - 1) \in Texts /\ Len(SubSeq(t, n, m - 1)) = m - n
  <2>1. \A k \in 1 .. m - n : t[n + k - 1] \in Symbols
    BY <1>8 DEF Texts
  <2>2. m - n \in Nat
    BY <1>1
  <2>3. [k \in 1 .. m - n |-> t[n + k - 1]] \in Seq(Symbols)
    BY <2>1, <2>2, IsASeq
  <2>4. Len([k \in 1 .. m - n |-> t[n + k - 1]]) = m - n
    BY <2>2, LenProperties
  <2>. QED
    BY <1>9, <2>3, <2>4 DEF Texts
<1>. QED
  BY <1>7, <1>8, <1>9, <1>10

LEMMA LineText ==
  ASSUME NEW t \in Texts, NEW n \in 1 .. Len(t) + 1
  PROVE  LineAt(t, n) \in Texts /\ n + Len(LineAt(t, n)) \in n .. Len(t) + 1
<1>1. PICK m \in n .. Len(t) + 1 : EndOf(t, n, m)
  BY EndExists
<1>2. LineAt(t, n) \in Texts /\ Len(LineAt(t, n)) = m - n
  BY <1>1, LineAtIs
<1>. QED
  BY <1>2, TextAt

-----------------------------------------------------------------------------
(* Sums over finite sets, in whatever order the elements are taken.        *)

Rest(s) == s \ {CHOOSE x \in s : TRUE}

\* T holds the sums of h over the subsets of S.
Adds(T, h, S) ==
    T = [s \in SUBSET S |->
           IF s = {} THEN 0 ELSE h[CHOOSE x \in s : TRUE] + T[Rest(s)]]

LEMMA RestSmaller ==
  ASSUME NEW S, IsFiniteSet(S), NEW s \in SUBSET S, s # {}
  PROVE  /\ (CHOOSE x \in s : TRUE) \in s /\ Rest(s) \in SUBSET S
         /\ Cardinality(s) \in Nat \ {0} /\ Cardinality(Rest(s)) = Cardinality(s) - 1
<1>1. IsFiniteSet(s)
  BY FS_Subset
<1>2. (CHOOSE x \in s : TRUE) \in s
  OBVIOUS
<1>3. Cardinality(Rest(s)) = Cardinality(s) - 1
  BY <1>1, <1>2, FS_RemoveElement DEF Rest
<1>4. Cardinality(s) \in Nat \ {0}
  BY <1>1, FS_CardinalityType, FS_EmptySet
<1>. QED
  BY <1>2, <1>3, <1>4 DEF Rest

LEMMA AddsExist ==
  ASSUME NEW S, IsFiniteSet(S), NEW h \in [S -> Int]
  PROVE  \E T : Adds(T, h, S)
<1>. DEFINE D(k) == {s \in SUBSET S : Cardinality(s) <= k}
            G(T, k) == T = [s \in D(k) |->
                              IF s = {} THEN 0 ELSE h[CHOOSE x \in s : TRUE] + T[Rest(s)]]
            N == {k \in Nat : \E T : G(T, k)}
<1>c. \A s \in SUBSET S : Cardinality(s) \in Nat /\ IsFiniteSet(s)
  BY FS_Subset, FS_CardinalityType
<1>1. 0 \in N
  <2>. DEFINE T == [s \in D(0) |-> 0]
  <2>1. \A s \in D(0) : s = {}
    BY <1>c, FS_EmptySet
  <2>2. G(T, 0)
    BY <2>1
  <2>. HIDE DEF G
  <2>. QED
    BY <2>2
<1>2. ASSUME NEW k \in Nat, k \in N PROVE k + 1 \in N
  <2>1. PICK T : G(T, k)
    BY <1>2
  <2>. DEFINE U == [s \in D(k + 1) |->
                      IF Cardinality(s) = k + 1
                      THEN h[CHOOSE x \in s : TRUE] + T[Rest(s)] ELSE T[s]]
  <2>2. ASSUME NEW s \in D(k + 1)
        PROVE  U[s] = IF s = {} THEN 0 ELSE h[CHOOSE x \in s : TRUE] + U[Rest(s)]
    <3>0. Cardinality(s) \in Nat /\ s \in SUBSET S
      BY <1>c
    <3>1. CASE s = {}
      <4>1. Cardinality(s) = 0 /\ s \in D(k)
        BY <3>0, <3>1, FS_EmptySet
      <4>2. T[s] = 0
        BY <2>1, <3>1, <4>1
      <4>. QED
        BY <3>1, <4>1, <4>2
    <3>2. CASE s # {}
      <4>1. /\ Rest(s) \in SUBSET S /\ Cardinality(s) # 0
            /\ Cardinality(Rest(s)) = Cardinality(s) - 1
        BY <3>0, <3>2, RestSmaller
      <4>2. Rest(s) \in D(k) /\ Rest(s) \in D(k + 1) /\ Cardinality(Rest(s)) # k + 1
        BY <3>0, <4>1
      <4>3. U[Rest(s)] = T[Rest(s)]
        BY <4>2
      <4>4. CASE Cardinality(s) = k + 1
        BY <3>2, <4>3, <4>4
      <4>5. CASE Cardinality(s) # k + 1
        <5>1. s \in D(k)
          BY <3>0, <4>5
        <5>2. T[s] = h[CHOOSE x \in s : TRUE] + T[Rest(s)]
          BY <2>1, <3>2, <5>1
        <5>. QED
          BY <3>2, <4>3, <4>5, <5>2
      <4>. QED
        BY <4>4, <4>5
    <3>. QED
      BY <3>1, <3>2
  <2>3. G(U, k + 1)
    <3>1. U = [s \in D(k + 1) |-> U[s]]
      OBVIOUS
    <3>. HIDE DEF U
    <3>. QED
      BY <2>2, <3>1
  <2>. HIDE DEF G
  <2>. QED
    BY <2>3
<1>. HIDE DEF N
<1>3. Cardinality(S) \in N
  BY <1>1, <1>2, NatSet, FS_CardinalityType
<1>4. PICK T : G(T, Cardinality(S))
  BY <1>3 DEF N
<1>5. D(Cardinality(S)) = SUBSET S
  BY FS_Subset
<1>. QED
  BY <1>4, <1>5 DEF Adds

\* Any element may come first.
LEMMA AnyFirst ==
  ASSUME NEW S, IsFiniteSet(S), NEW h \in [S -> Int], NEW T, Adds(T, h, S)
  PROVE  /\ T[{}] = 0
         /\ \A s \in SUBSET S : T[s] \in Int /\ \A x \in s : T[s] = h[x] + T[s \ {x}]
<1>. DEFINE A(s) == T[s] \in Int /\ \A x \in s : T[s] = h[x] + T[s \ {x}]
            N == {k \in Nat : \A s \in SUBSET S : Cardinality(s) <= k => A(s)}
<1>c. \A s \in SUBSET S : Cardinality(s) \in Nat /\ IsFiniteSet(s)
  BY FS_Subset, FS_CardinalityType
<1>e. T[{}] = 0
  BY DEF Adds
<1>1. 0 \in N
  <2>1. ASSUME NEW s \in SUBSET S, Cardinality(s) <= 0 PROVE A(s)
    <3>1. s = {}
      BY <1>c, <2>1, FS_EmptySet
    <3>. QED
      BY <1>e, <3>1
  <2>. HIDE DEF A
  <2>. QED
    BY <2>1
<1>2. ASSUME NEW k \in Nat, k \in N PROVE k + 1 \in N
  <2>1. ASSUME NEW s \in SUBSET S, Cardinality(s) <= k PROVE A(s)
    <3>. HIDE DEF A
    <3>. QED
      BY <1>2, <2>1
  <2>2. ASSUME NEW s \in SUBSET S, Cardinality(s) <= k + 1, s # {} PROVE A(s)
    <3>. DEFINE y == CHOOSE x \in s : TRUE
    <3>1. /\ y \in s /\ Rest(s) \in SUBSET S /\ Rest(s) = s \ {y}
          /\ Cardinality(s) \in Nat \ {0} /\ Cardinality(Rest(s)) = Cardinality(s) - 1
      BY <2>2, RestSmaller DEF Rest
    <3>2. T[s] = h[y] + T[Rest(s)]
      BY <2>2 DEF Adds
    <3>. HIDE DEF y
    <3>3. T[Rest(s)] \in Int /\ h[y] \in Int
      <4>1. Cardinality(Rest(s)) <= k
        BY <2>2, <3>1
      <4>. QED
        BY <2>1, <3>1, <4>1
    <3>4. ASSUME NEW x \in s PROVE T[s] = h[x] + T[s \ {x}]
      <4>1. CASE x = y
        BY <3>1, <3>2, <4>1
      <4>2. CASE x # y
        <5>1. x \in Rest(s) /\ y \in s \ {x} /\ (s \ {x}) \ {y} = Rest(s) \ {x}
          BY <3>1, <4>2
        <5>2. /\ Cardinality(s \ {x}) = Cardinality(s) - 1
              /\ s \ {x} \in SUBSET S
          BY <1>c, FS_RemoveElement
        <5>3. T[Rest(s)] = h[x] + T[Rest(s) \ {x}]
          <6>1. Cardinality(Rest(s)) <= k
            BY <2>2, <3>1
          <6>. QED
            BY <2>1, <3>1, <5>1, <6>1
        <5>4. T[s \ {x}] = h[y] + T[(s \ {x}) \ {y}]
          <6>1. Cardinality(s \ {x}) <= k
            BY <2>2, <3>1, <5>2
          <6>. QED
            BY <2>1, <5>1, <5>2, <6>1
        <5>5. T[Rest(s) \ {x}] \in Int
          <6>1. /\ Cardinality(Rest(s) \ {x}) = Cardinality(Rest(s)) - 1
                /\ Rest(s) \ {x} \in SUBSET S
            BY <1>c, <3>1, <5>1, FS_RemoveElement
          <6>2. Cardinality(Rest(s) \ {x}) <= k
            BY <2>2, <3>1, <6>1
          <6>. QED
            BY <2>1, <6>1, <6>2
        <5>6. h[x] \in Int
          OBVIOUS
        <5>7. T[s \ {x}] = h[y] + T[Rest(s) \ {x}]
          BY <5>1, <5>4, Zenon
        <5>. QED
          <6>1. PICK a \in Int : a = T[Rest(s) \ {x}]
            BY <5>5
          <6>2. PICK b \in Int : b = h[x]
            BY <5>6
          <6>3. PICK c \in Int : c = h[y]
            BY <3>3
          <6>4. T[s] = c + T[Rest(s)] /\ T[Rest(s)] = b + a /\ T[s \ {x}] = c + a
            BY <3>2, <5>3, <5>7, <6>1, <6>2, <6>3, Zenon
          <6>5. T[s] = b + T[s \ {x}]
            <7>1. T[s] = c + (b + a)
              BY <6>4, Zenon
            <7>2. c + (b + a) = b + (c + a)
              OBVIOUS
            <7>. QED
              BY <6>4, <7>1, <7>2, Zenon
          <6>. QED
            BY <6>2, <6>5, Zenon
      <4>. QED
        BY <4>1, <4>2
    <3>5. T[s] \in Int
      BY <3>2, <3>3
    <3>. QED
      BY <3>4, <3>5
  <2>3. ASSUME NEW s \in SUBSET S, s = {} PROVE A(s)
    BY <1>e, <2>3
  <2>. HIDE DEF A
  <2>. QED
    BY <2>2, <2>3
<1>. HIDE DEF N
<1>3. Cardinality(S) \in N
  BY <1>1, <1>2, NatSet, FS_CardinalityType
<1>4. ASSUME NEW s \in SUBSET S PROVE A(s)
  <2>1. Cardinality(s) <= Cardinality(S)
    BY FS_Subset
  <2>. HIDE DEF A
  <2>. QED
    BY <1>3, <2>1 DEF N
<1>. QED
  BY <1>e, <1>4

\* f counts the elements of S.
Counts(f, k, S) ==
    /\ k \in Nat /\ f \in [1 .. k -> S]
    /\ \A i, j \in 1 .. k : f[i] = f[j] => i = j
    /\ \A x \in S : \E i \in 1 .. k : f[i] = x

LEMMA CountExists ==
  ASSUME NEW S, IsFiniteSet(S)
  PROVE  \E k, f : Counts(f, k, S)
<1>1. Cardinality(S) \in Nat /\ ExistsBijection(1 .. Cardinality(S), S)
  BY FS_CardinalityType
<1>2. PICK f : f \in Bijection(1 .. Cardinality(S), S)
  BY <1>1 DEF ExistsBijection
<1>3. Counts(f, Cardinality(S), S)
  BY <1>1, <1>2 DEF Counts, Bijection, Injection, Surjection, IsInjective
<1>. QED
  BY <1>3

Summed(T, h, S) == IsFiniteSet(S) /\ h \in [S -> Int] /\ Adds(T, h, S)

\* The same numbers, in A by h and in B by e.
Matches(h, A, e, B) ==
    \E k, f, g : /\ Counts(f, k, A) /\ Counts(g, k, B)
                 /\ \A i \in 1 .. k : h[f[i]] = e[g[i]]

\* Sums of the same numbers are the same.
LEMMA SameSums ==
  ASSUME NEW T, NEW h, NEW R, Summed(T, h, R), NEW U, NEW e, NEW S, Summed(U, e, S),
         NEW A \in SUBSET R, NEW B \in SUBSET S, Matches(h, A, e, B)
  PROVE  T[A] = U[B]
<1>0. PICK k, f, g : /\ Counts(f, k, A) /\ Counts(g, k, B)
                     /\ \A i \in 1 .. k : h[f[i]] = e[g[i]]
  BY DEF Matches
<1>. DEFINE F(n) == {f[i] : i \in 1 .. n}
            H(n) == {g[i] : i \in 1 .. n}
            N == {n \in Nat : n <= k => T[F(n)] = U[H(n)]}
<1>1. 0 \in N
  <2>1. 1 .. 0 = {}
    OBVIOUS
  <2>2. F(0) = {} /\ H(0) = {}
    BY <2>1
  <2>3. T[{}] = 0 /\ U[{}] = 0
    BY AnyFirst DEF Summed
  <2>. QED
    BY <2>2, <2>3
<1>2. ASSUME NEW n \in Nat, n \in N PROVE n + 1 \in N
  <2>. SUFFICES ASSUME n + 1 <= k PROVE T[F(n + 1)] = U[H(n + 1)]
    OBVIOUS
  <2>0. k \in Nat /\ n + 1 \in 1 .. k /\ 1 .. n \subseteq 1 .. k /\ n + 1 \notin 1 .. n
        /\ 1 .. n + 1 = (1 .. n) \cup {n + 1} /\ T[F(n)] = U[H(n)]
    BY <1>0, <1>2 DEF Counts
  <2>1. f[n + 1] \in F(n + 1) /\ F(n + 1) \in SUBSET R /\ F(n + 1) \ {f[n + 1]} = F(n)
    <3>1. \A i \in 1 .. n : f[i] # f[n + 1]
      BY <1>0, <2>0 DEF Counts
    <3>2. F(n + 1) = F(n) \cup {f[n + 1]}
      BY <2>0
    <3>3. \A i \in 1 .. k : f[i] \in R
      BY <1>0 DEF Counts
    <3>. QED
      BY <2>0, <3>1, <3>2, <3>3
  <2>2. g[n + 1] \in H(n + 1) /\ H(n + 1) \in SUBSET S /\ H(n + 1) \ {g[n + 1]} = H(n)
    <3>1. \A i \in 1 .. n : g[i] # g[n + 1]
      BY <1>0, <2>0 DEF Counts
    <3>2. H(n + 1) = H(n) \cup {g[n + 1]}
      BY <2>0
    <3>3. \A i \in 1 .. k : g[i] \in S
      BY <1>0 DEF Counts
    <3>. QED
      BY <2>0, <3>1, <3>2, <3>3
  <2>. HIDE DEF F, H
  <2>3. T[F(n + 1)] = h[f[n + 1]] + T[F(n)]
    BY <2>1, AnyFirst DEF Summed
  <2>4. U[H(n + 1)] = e[g[n + 1]] + U[H(n)]
    BY <2>2, AnyFirst DEF Summed
  <2>. QED
    BY <1>0, <2>0, <2>3, <2>4
<1>3. k \in Nat /\ F(k) = A /\ H(k) = B
  BY <1>0 DEF Counts
<1>. HIDE DEF N
<1>4. k \in N
  BY <1>1, <1>2, <1>3, NatSet
<1>. QED
  BY <1>3, <1>4 DEF N

\* What counts nothing may be left out.
LEMMA WithoutNothing ==
  ASSUME NEW S, IsFiniteSet(S), NEW h \in [S -> Int], NEW T, Adds(T, h, S),
         NEW A \in SUBSET S, \A x \in S \ A : h[x] = 0
  PROVE  T[S] = T[A]
<1>. DEFINE N == {n \in Nat : \A s \in SUBSET S :
                    A \subseteq s /\ Cardinality(s) <= n => T[s] = T[A]}
<1>c. \A s \in SUBSET S : Cardinality(s) \in Nat /\ IsFiniteSet(s)
  BY FS_Subset, FS_CardinalityType
<1>1. 0 \in N
  <2>1. ASSUME NEW s \in SUBSET S, A \subseteq s, Cardinality(s) <= 0 PROVE s = A
    BY <1>c, <2>1, FS_EmptySet
  <2>. QED
    BY <2>1
<1>2. ASSUME NEW n \in Nat, n \in N PROVE n + 1 \in N
  <2>1. ASSUME NEW s \in SUBSET S, A \subseteq s, Cardinality(s) <= n + 1, s # A
        PROVE  T[s] = T[A]
    <3>1. PICK x \in s : x \notin A
      BY <2>1
    <3>2. /\ T[s] = h[x] + T[s \ {x}] /\ T[s \ {x}] \in Int /\ s \ {x} \in SUBSET S
      BY AnyFirst
    <3>3. h[x] = 0
      BY <3>1
    <3>4. Cardinality(s \ {x}) <= n /\ A \subseteq s \ {x}
      BY <1>c, <2>1, <3>1, FS_RemoveElement
    <3>5. T[s \ {x}] = T[A]
      BY <1>2, <3>2, <3>4
    <3>. QED
      BY <3>2, <3>3, <3>5
  <2>. QED
    BY <2>1
<1>. HIDE DEF N
<1>3. Cardinality(S) \in N
  BY <1>1, <1>2, NatSet, FS_CardinalityType
<1>4. Cardinality(S) \in Nat
  BY <1>c
<1>. QED
  BY <1>3, <1>4 DEF N

-----------------------------------------------------------------------------
(* The lines of a text.                                                    *)

\* Where a line begins that is not empty.
Filled(t) == {n \in LineStarts(t) : t[n] # "nl"}

LEMMA LineStartsOf ==
  ASSUME NEW t \in Texts
  PROVE  /\ LineStarts(t) \in SUBSET (1 .. Len(t)) /\ IsFiniteSet(LineStarts(t))
         /\ Filled(t) \in SUBSET LineStarts(t) /\ IsFiniteSet(Filled(t))
         /\ \A n \in LineStarts(t) \ Filled(t) : n = 1 /\ t[1] = "nl"
<1>1. Len(t) \in Nat /\ DOMAIN t = 1 .. Len(t)
  BY TextAt
<1>2. LineStarts(t) \in SUBSET (1 .. Len(t)) /\ IsFiniteSet(1 .. Len(t))
  BY <1>1, FS_Interval DEF LineStarts
<1>3. IsFiniteSet(LineStarts(t))
  BY <1>2, FS_Subset
<1>4. Filled(t) \in SUBSET LineStarts(t)
  BY DEF Filled
<1>5. IsFiniteSet(Filled(t))
  BY <1>3, <1>4, FS_Subset
<1>6. ASSUME NEW n \in LineStarts(t) \ Filled(t) PROVE n = 1 /\ t[1] = "nl"
  BY <1>6 DEF LineStarts, Filled
<1>. QED
  BY <1>2, <1>3, <1>4, <1>5, <1>6

\* Lines are texts, and empty where they begin with the end of one.
LEMMA LinesAre ==
  ASSUME NEW t \in Texts, NEW n \in LineStarts(t)
  PROVE  /\ n \in 1 .. Len(t) /\ LineAt(t, n) \in Texts
         /\ n \in Filled(t) => LineAt(t, n) # <<>>
         /\ n \notin Filled(t) => LineAt(t, n) = <<>>
<1>1. n \in 1 .. Len(t) /\ Len(t) \in Nat
  BY LineStartsOf, TextAt
<1>2. PICK m \in n .. Len(t) + 1 : EndOf(t, n, m)
  BY <1>1, EndExists
<1>3. LineAt(t, n) \in Texts /\ Len(LineAt(t, n)) = m - n
  <2>1. n \in 1 .. Len(t) + 1
    BY <1>1
  <2>. QED
    BY <1>2, <2>1, LineAtIs
<1>4. n \in Filled(t) => m # n
  BY <1>1, <1>2 DEF Filled, EndOf
<1>5. n \notin Filled(t) => m = n
  <2>. SUFFICES ASSUME n \notin Filled(t), m # n PROVE FALSE
    OBVIOUS
  <2>1. t[n] = "nl" /\ n \in n .. m - 1
    BY <1>1 DEF Filled
  <2>. QED
    BY <1>2, <2>1 DEF EndOf
<1>6. LineAt(t, n) = <<>> <=> Len(LineAt(t, n)) = 0
  BY <1>3, EmptySeq DEF Texts
<1>. QED
  BY <1>1, <1>3, <1>4, <1>5, <1>6

\* Behind a line, and the ends of lines passed over there, begins the next.
LEMMA NextStart ==
  ASSUME NEW t \in Texts, NEW n \in LineStarts(t),
         NEW e, e = n + Len(LineAt(t, n)), NEW k, k = Skip(t, e, {"nl"})
  PROVE  /\ k \in 1 .. Len(t) + 1 /\ n < k
         /\ k <= Len(t) => k \in LineStarts(t)
         /\ {m \in LineStarts(t) : m < k} = {m \in LineStarts(t) : m < n} \cup {n}
<1>1. n \in 1 .. Len(t) /\ Len(t) \in Nat /\ DOMAIN t = 1 .. Len(t)
  BY LineStartsOf, TextAt
<1>2. n \in 1 .. Len(t) + 1
  BY <1>1
<1>3. PICK m \in n .. Len(t) + 1 : EndOf(t, n, m)
  BY <1>2, EndExists
<1>4. m = e
  <2>1. Len(LineAt(t, n)) = m - n
    BY <1>2, <1>3, LineAtIs
  <2>. QED
    BY <1>1, <1>3, <2>1
<1>5. /\ e \in n .. Len(t) + 1
      /\ e = Len(t) + 1 \/ t[e] = "nl"
      /\ \A j \in n .. e - 1 : t[j] # "nl"
  BY <1>3, <1>4 DEF EndOf
<1>6. /\ k \in e .. Len(t) + 1 /\ At(t, k) # "nl"
      /\ \A j \in e .. k - 1 : t[j] = "nl"
  <2>1. e \in 1 .. Len(t) + 1 /\ "end" \notin {"nl"}
    BY <1>1, <1>5
  <2>2. /\ Skip(t, e, {"nl"}) \in e .. Len(t) + 1 /\ At(t, Skip(t, e, {"nl"})) \notin {"nl"}
        /\ \A j \in e .. Skip(t, e, {"nl"}) - 1 : t[j] \in {"nl"}
    BY <2>1, SkipIs
  <2>. QED
    BY <2>2
<1>7. e <= Len(t) => k # e
  <2>. SUFFICES ASSUME e <= Len(t), k = e PROVE FALSE
    OBVIOUS
  <2>1. e \in 1 .. Len(t) /\ t[e] = "nl"
    BY <1>1, <1>5
  <2>. QED
    BY <1>6, <2>1, TextAt
<1>8. n < k
  BY <1>1, <1>5, <1>6, <1>7
<1>9. k <= Len(t) => k \in LineStarts(t)
  <2>. SUFFICES ASSUME k <= Len(t) PROVE k \in LineStarts(t)
    OBVIOUS
  <2>1. k \in 1 .. Len(t) /\ k - 1 \in e .. k - 1
    BY <1>1, <1>5, <1>6, <1>7
  <2>2. t[k] # "nl" /\ t[k - 1] = "nl"
    BY <1>6, <2>1, TextAt
  <2>. QED
    BY <1>1, <2>1, <2>2 DEF LineStarts
<1>10. ASSUME NEW j \in LineStarts(t), j < k, n < j PROVE FALSE
  <2>0. j \in 1 .. Len(t) /\ j # 1
    BY <1>1, <1>10, LineStartsOf
  <2>1. t[j - 1] = "nl" /\ t[j] # "nl"
    BY <1>10, <2>0 DEF LineStarts
  <2>2. j - 1 \in n .. e - 1 \/ j \in e .. k - 1
    BY <1>1, <1>5, <1>6, <1>10, <2>0
  <2>. QED
    BY <1>5, <1>6, <2>1, <2>2
<1>11. \A j \in LineStarts(t) : j \in Int
  BY LineStartsOf
<1>12. {j \in LineStarts(t) : j < k} = {j \in LineStarts(t) : j < n} \cup {n}
  <2>. SUFFICES ASSUME NEW j \in LineStarts(t) PROVE j < k <=> j < n \/ j = n
    OBVIOUS
  <2>1. j \in Int /\ n \in Int /\ k \in Int
    BY <1>1, <1>5, <1>6, <1>11
  <2>2. j < k => ~(n < j)
    BY <1>10
  <2>. QED
    BY <1>8, <2>1, <2>2
<1>. QED
  BY <1>1, <1>5, <1>6, <1>8, <1>9, <1>12

-----------------------------------------------------------------------------
(* What an empty line shows.                                               *)

LEMMA NothingShows ==
  ASSUME NEW e \in Texts, Len(e) = 0
  PROVE  /\ At(e, 1) = "end" /\ Skip(e, 1, {" "}) = 1 /\ Skip(e, 1, {"10", "0"}) = 1
         /\ ~HashComment(e) /\ ~IncludesCpp(e) /\ ~Octave(e)
         /\ ObjectiveC(e) = 0 /\ Matlab(e) = 0 /\ Limbo(e) = 0
         /\ Mathematica(e) = 0 /\ Forth(e) = 0 /\ FSharp(e) = 0
         /\ Smalltalk(e) = {} /\ ~Numbered(e) /\ \A b : ~Cpp(e, b)
<1>1. DOMAIN e = {} /\ At(e, 1) = "end" /\ Skip(e, 1, {" "}) = 1
  <2>1. "end" \notin {" "} /\ 1 \in 1 .. Len(e) + 1
    OBVIOUS
  <2>2. Skip(e, 1, {" "}) \in 1 .. Len(e) + 1
    BY <2>1, SkipIs
  <2>3. DOMAIN e = 1 .. 0 /\ At(e, 1) = "end"
    BY TextAt
  <2>4. 1 .. 0 = {}
    OBVIOUS
  <2>5. Skip(e, 1, {" "}) = 1
    <3>1. PICK s : s = Skip(e, 1, {" "})
      OBVIOUS
    <3>2. s \in 1 .. Len(e) + 1
      BY <2>2, <3>1
    <3>3. s = 1
      BY <3>2
    <3>. QED
      BY <3>1, <3>3
  <2>6. DOMAIN e = {}
    BY <2>3, <2>4
  <2>. QED
    BY <2>3, <2>5, <2>6
<1>n. Skip(e, 1, {"10", "0"}) = 1
  <2>1. "end" \notin {"10", "0"} /\ 1 \in 1 .. Len(e) + 1
    OBVIOUS
  <2>2. PICK s : s = Skip(e, 1, {"10", "0"})
    OBVIOUS
  <2>3. s \in 1 .. Len(e) + 1
    BY <2>1, <2>2, SkipIs
  <2>4. s = 1
    BY <2>3
  <2>. QED
    BY <2>2, <2>4
<1>0. /\ 1 \in 1 .. Len(e) + 2 /\ \A n \in 1 .. Len(e) + 2 : n > Len(e)
  OBVIOUS
<1>2. ~HashComment(e)
  BY <1>1 DEF HashComment
<1>3. ~IncludesCpp(e)
  BY <1>1 DEF IncludesCpp
<1>4. ObjectiveC(e) = 0
  BY <1>1 DEF ObjectiveC, One
<1>5. Matlab(e) = 0
  BY <1>1, <1>2 DEF Matlab, One
<1>6. Limbo(e) = 0
  <2>1. {n \in DOMAIN e : /\ e[n] = ":" /\ At(e, n + 1) = " "
                             /\ At(e, n + 2) = "module"
                             /\ At(e, n + 3) \notin Words} = {}
    BY <1>1
  <2>2. Limbo(e) = 0 + Cardinality({})
    BY <1>2, <2>1 DEF Limbo, One
  <2>. QED
    BY <2>2, FS_EmptySet
<1>7. ~Octave(e)
  <2>. DEFINE small == Words \ {"10", "0", "C"}
              Body(g, n) ==
                LET to == Skip(e, n, small \cup {"_"})
                IN  IF n > Len(e) THEN FALSE
                    ELSE IF n > 1 /\ e[n] \in small /\ e[n - 1] \notin Words
                    THEN \/ e[n] = "endwhile" /\ to = n + 1 /\ At(e, to) \notin Words
                         \/ g[to + 1]
                    ELSE g[n + 1]
              Rec(g) == g = [n \in 1 .. Len(e) + 2 |-> Body(g, n)]
              From == CHOOSE g : Rec(g)
  <2>1. \A g : \A n \in 1 .. Len(e) + 2 : Body(g, n) = FALSE
    <3>. SUFFICES ASSUME NEW g, NEW n \in 1 .. Len(e) + 2 PROVE Body(g, n) = FALSE
      OBVIOUS
    <3>. QED
      BY <1>0
  <2>2. Octave(e) <=> HashComment(e) \/ From[1]
    BY DEF Octave
  <2>. HIDE DEF Body
  <2>3. Rec([n \in 1 .. Len(e) + 2 |-> FALSE])
    BY <2>1
  <2>4. Rec(From)
    BY <2>3
  <2>5. From[1] = Body(From, 1)
    <3>. HIDE DEF From
    <3>. HIDE DEF Rec
    <3>1. From = [n \in 1 .. Len(e) + 2 |-> Body(From, n)]
      BY <2>4 DEF Rec
    <3>. QED
      BY <1>0, <3>1, Zenon
  <2>. HIDE DEF From, Rec
  <2>6. From[1] = FALSE
    BY <1>0, <2>1, <2>5, Zenon
  <2>. QED
    BY <1>2, <2>2, <2>6
<1>8. Mathematica(e) = 0
  <2>. DEFINE Body(g, n) ==
                LET to == IF At(e, n) = "&" THEN Skip(e, n + 1, {" "}) ELSE n
                IN  IF n > Len(e) THEN 0
                    ELSE One(to # n /\ At(e, to) \in {",", ")", "]"})
                         + One(\/ At(e, to) \in {"(*", "/.", "@@"}
                               \/ At(e, to) = "_" /\ At(e, to + 1) = "_")
                         + g[to + 1]
              Rec(g) == g = [n \in 1 .. Len(e) + 2 |-> Body(g, n)]
              From == CHOOSE g : Rec(g)
  <2>1. \A g : \A n \in 1 .. Len(e) + 2 : Body(g, n) = 0
    <3>. SUFFICES ASSUME NEW g, NEW n \in 1 .. Len(e) + 2 PROVE Body(g, n) = 0
      OBVIOUS
    <3>. QED
      BY <1>0
  <2>2. Mathematica(e) = From[1]
    BY DEF Mathematica
  <2>. HIDE DEF Body
  <2>3. Rec([n \in 1 .. Len(e) + 2 |-> 0])
    BY <2>1
  <2>4. Rec(From)
    BY <2>3
  <2>5. From[1] = Body(From, 1)
    <3>. HIDE DEF From
    <3>. HIDE DEF Rec
    <3>1. From = [n \in 1 .. Len(e) + 2 |-> Body(From, n)]
      BY <2>4 DEF Rec
    <3>. QED
      BY <1>0, <3>1, Zenon
  <2>. HIDE DEF From, Rec
  <2>6. From[1] = 0
    BY <1>0, <2>1, <2>5, Zenon
  <2>. QED
    BY <1>2, <2>2, <2>6
<1>9. Smalltalk(e) = {}
  <2>. DEFINE Body(g, n) ==
                LET next == Skip(e, n + 1, {" "})
                IN  IF n > Len(e) THEN {}
                    ELSE IF e[n] = ":"
                         THEN ({At(e, next)} \cap {"=", "["}) \cup g[next + 1]
                    ELSE IF e[n] = "]" /\ At(e, n + 1) = "."
                         THEN {"]"} \cup g[n + 1]
                    ELSE g[n + 1]
              Rec(g) == g = [n \in 1 .. Len(e) + 2 |-> Body(g, n)]
              From == CHOOSE g : Rec(g)
  <2>1. \A g : \A n \in 1 .. Len(e) + 2 : Body(g, n) = {}
    <3>. SUFFICES ASSUME NEW g, NEW n \in 1 .. Len(e) + 2 PROVE Body(g, n) = {}
      OBVIOUS
    <3>. QED
      BY <1>0
  <2>2. Smalltalk(e) = From[1]
    BY DEF Smalltalk
  <2>. HIDE DEF Body
  <2>3. Rec([n \in 1 .. Len(e) + 2 |-> {}])
    BY <2>1
  <2>4. Rec(From)
    BY <2>3
  <2>5. From[1] = Body(From, 1)
    <3>. HIDE DEF From
    <3>. HIDE DEF Rec
    <3>1. From = [n \in 1 .. Len(e) + 2 |-> Body(From, n)]
      BY <2>4 DEF Rec
    <3>. QED
      BY <1>0, <3>1, Zenon
  <2>. HIDE DEF From, Rec
  <2>6. From[1] = {}
    BY <1>0, <2>1, <2>5, Zenon
  <2>. QED
    BY <1>2, <2>2, <2>6
<1>10. Forth(e) = 0 /\ FSharp(e) = 0
  BY <1>1 DEF Forth, FSharp, One
<1>11. ~Numbered(e)
  <2>1. PICK n : n = Skip(e, 1, {"10", "0"})
    OBVIOUS
  <2>2. n = 1
    BY <1>n, <2>1, Zenon
  <2>3. ~(n > 1)
    BY <2>2
  <2>. QED
    BY <2>1, <2>3 DEF Numbered
<1>12. \A b : ~Cpp(e, b)
  BY <1>1, <1>3 DEF Cpp
<1>. QED
  BY <1>1, <1>n, <1>2, <1>3, <1>4, <1>5, <1>6, <1>7, <1>8, <1>9, <1>10, <1>11, <1>12

LEMMA EmptyLine ==
  /\ <<>> \in Texts /\ Len(<<>>) = 0
  /\ At(<<>>, 1) = "end" /\ Skip(<<>>, 1, {" "}) = 1 /\ Skip(<<>>, 1, {"10", "0"}) = 1
  /\ ~HashComment(<<>>) /\ ~IncludesCpp(<<>>) /\ ~Octave(<<>>)
  /\ ObjectiveC(<<>>) = 0 /\ Matlab(<<>>) = 0 /\ Limbo(<<>>) = 0
  /\ Mathematica(<<>>) = 0 /\ Forth(<<>>) = 0 /\ FSharp(<<>>) = 0
  /\ Smalltalk(<<>>) = {} /\ ~Numbered(<<>>) /\ \A b : ~Cpp(<<>>, b)
<1>1. <<>> \in Texts /\ Len(<<>>) = 0
  BY DEF Texts
<1>. QED
  BY <1>1, NothingShows

-----------------------------------------------------------------------------
(* The points of Mathematica are a number.                                 *)

\* What From of Mathematica is, if w is what stands at a place and nx where the
\* next is looked at.
Onward(F, L, w, nx) ==
    F = [n \in 1 .. L + 2 |-> IF n > L THEN 0 ELSE w[n] + F[nx[n]]]

Steps(L, w, nx) ==
    /\ L \in Nat /\ w \in [1 .. L -> Int]
    /\ nx \in [1 .. L -> Nat] /\ \A n \in 1 .. L : nx[n] \in n + 1 .. L + 2

LEMMA OnwardExists ==
  ASSUME NEW L, NEW w, NEW nx, Steps(L, w, nx)
  PROVE  \E F : Onward(F, L, w, nx)
<1>. DEFINE G(k, g) == g = [n \in L + 3 - k .. L + 2 |->
                              IF n > L THEN 0 ELSE w[n] + g[nx[n]]]
            S == {k \in Nat : k <= L + 2 => \E g : G(k, g)}
<1>0. L \in Nat
  BY DEF Steps
<1>1. 0 \in S
  <2>1. L + 3 - 0 .. L + 2 = {}
    BY <1>0
  <2>2. G(0, [n \in {} |-> 0])
    BY <2>1
  <2>. QED
    BY <2>2
<1>2. ASSUME NEW k \in Nat, k \in S PROVE k + 1 \in S
  <2>. SUFFICES ASSUME k + 1 <= L + 2 PROVE \E g : G(k + 1, g)
    OBVIOUS
  <2>1. PICK g : G(k, g)
    BY <1>0, <1>2
  <2>. DEFINE new == L + 3 - (k + 1)
              v == IF new > L THEN 0 ELSE w[new] + g[nx[new]]
              h == [n \in new .. L + 2 |-> IF n = new THEN v ELSE g[n]]
  <2>2. new \in 1 .. L + 2 /\ L + 3 - k = new + 1
    BY <1>0
  <2>3. \A n \in new .. L + 2 : n <= L => nx[n] \in n + 1 .. L + 2 /\ nx[n] \in Nat
    BY <2>2 DEF Steps
  <2>4. \A n \in new + 1 .. L + 2 : h[n] = g[n] /\ n # new
    BY <2>2
  <2>5. \A n \in new + 1 .. L + 2 : g[n] = IF n > L THEN 0 ELSE w[n] + g[nx[n]]
    BY <2>1, <2>2
  <2>6. ASSUME NEW n \in new .. L + 2
        PROVE  h[n] = IF n > L THEN 0 ELSE w[n] + h[nx[n]]
    <3>0. n <= L => nx[n] \in new + 1 .. L + 2
      BY <1>0, <2>2, <2>3
    <3>1. n <= L => h[nx[n]] = g[nx[n]]
      BY <2>4, <3>0
    <3>2. CASE n = new
      <4>1. new \in new .. L + 2
        BY <1>0, <2>2
      <4>2. h[new] = v
        BY <4>1
      <4>3. h[n] = v
        BY <3>2, <4>2
      <4>4. v = IF new > L THEN 0 ELSE w[new] + g[nx[new]]
        OBVIOUS
      <4>. HIDE DEF h, new, v
      <4>5. n <= L => v = w[n] + h[nx[n]]
        BY <1>0, <2>2, <3>1, <3>2, <4>4
      <4>6. n > L => v = 0
        BY <1>0, <2>2, <3>2, <4>4
      <4>. QED
        BY <1>0, <4>3, <4>5, <4>6
    <3>3. CASE n # new
      <4>1. n \in new + 1 .. L + 2
        BY <2>2, <3>3
      <4>2. h[n] = g[n]
        BY <2>4, <4>1
      <4>. QED
        BY <1>0, <2>2, <2>5, <3>1, <4>1, <4>2
    <3>. QED
      BY <3>2, <3>3
  <2>7. h = [n \in new .. L + 2 |-> IF n > L THEN 0 ELSE w[n] + h[nx[n]]]
    <3>. HIDE DEF v, new
    <3>1. h = [n \in new .. L + 2 |-> h[n]]
      OBVIOUS
    <3>. HIDE DEF h
    <3>. QED
      BY <2>6, <3>1
  <2>8. G(k + 1, h)
    BY <2>7
  <2>. QED
    BY <2>8
<1>3. \A k \in Nat : k \in S
  <2>. HIDE DEF S
  <2>. QED
    BY <1>1, <1>2, NatSet
<1>4. \E g : G(L + 2, g)
  <2>1. L + 2 \in Nat /\ L + 2 <= L + 2
    BY <1>0
  <2>2. L + 2 \in S
    BY <1>3, <2>1
  <2>. QED
    BY <2>1, <2>2
<1>5. L + 3 - (L + 2) = 1
  BY <1>0
<1>. QED
  BY <1>4, <1>5 DEF Onward

LEMMA OnwardInt ==
  ASSUME NEW L, NEW w, NEW nx, Steps(L, w, nx), NEW F, Onward(F, L, w, nx)
  PROVE  F[1] \in Int
<1>. DEFINE S == {k \in Nat : \A n \in 1 .. L + 2 : n + k > L => F[n] \in Int}
<1>0. L \in Nat /\ \A n \in 1 .. L + 2 : F[n] = IF n > L THEN 0 ELSE w[n] + F[nx[n]]
  BY DEF Steps, Onward
<1>1. 0 \in S
  BY <1>0
<1>2. ASSUME NEW k \in Nat, k \in S PROVE k + 1 \in S
  <2>. SUFFICES ASSUME NEW n \in 1 .. L + 2, n + (k + 1) > L PROVE F[n] \in Int
    OBVIOUS
  <2>1. CASE n > L
    BY <1>0, <2>1
  <2>2. CASE n <= L
    <3>1. w[n] \in Int /\ nx[n] \in n + 1 .. L + 2 /\ nx[n] \in Nat
      BY <1>0, <2>2 DEF Steps
    <3>2. nx[n] \in 1 .. L + 2 /\ nx[n] + k > L
      BY <1>0, <3>1
    <3>3. F[nx[n]] \in Int
      BY <1>2, <3>2
    <3>. QED
      BY <1>0, <2>2, <3>1, <3>3
  <2>. QED
    BY <1>0, <2>1, <2>2
<1>3. \A k \in Nat : k \in S
  <2>. HIDE DEF S
  <2>. QED
    BY <1>1, <1>2, NatSet
<1>4. L + 1 \in S /\ 1 \in 1 .. L + 2 /\ 1 + (L + 1) > L
  BY <1>0, <1>3
<1>. QED
  BY <1>4

LEMMA PointsAre ==
  ASSUME NEW row \in Texts
  PROVE  /\ ObjectiveC(row) \in Int /\ Matlab(row) \in Int
         /\ Limbo(row) \in Int /\ Mathematica(row) \in Int
         /\ Forth(row) \in Int /\ FSharp(row) \in Int
<1>0. \A c \in BOOLEAN : One(c) \in Int
  BY DEF One
<1>1. ObjectiveC(row) \in Int
  BY DEF ObjectiveC, One
<1>2. Matlab(row) \in Int
  BY DEF Matlab, One
<1>3. Limbo(row) \in Int
  <2>. DEFINE S == {n \in DOMAIN row : /\ row[n] = ":" /\ At(row, n + 1) = " "
                                        /\ At(row, n + 2) = "module"
                                        /\ At(row, n + 3) \notin Words}
  <2>1. IsFiniteSet(DOMAIN row)
    BY TextAt, FS_Interval
  <2>2. Cardinality(S) \in Nat
    BY <2>1, FS_Subset, FS_CardinalityType
  <2>3. Limbo(row) = One(HashComment(row)) + Cardinality(S)
    BY DEF Limbo
  <2>. HIDE DEF S
  <2>. QED
    BY <2>2, <2>3 DEF One
<1>4. Mathematica(row) \in Int
  <2>. DEFINE L == Len(row)
              to(n) == IF At(row, n) = "&" THEN Skip(row, n + 1, {" "}) ELSE n
              w == [n \in 1 .. L |->
                      One(to(n) # n /\ At(row, to(n)) \in {",", ")", "]"})
                      + One(\/ At(row, to(n)) \in {"(*", "/.", "@@"}
                            \/ At(row, to(n)) = "_" /\ At(row, to(n) + 1) = "_")]
              nx == [n \in 1 .. L |-> to(n) + 1]
              Rec(g) == g = [n \in 1 .. L + 2 |->
                     IF n > L THEN 0
                     ELSE One(to(n) # n /\ At(row, to(n)) \in {",", ")", "]"})
                          + One(\/ At(row, to(n)) \in {"(*", "/.", "@@"}
                                \/ At(row, to(n)) = "_" /\ At(row, to(n) + 1) = "_")
                          + g[to(n) + 1]]
  <2>1. L \in Nat
    BY TextAt
  <2>2. ASSUME NEW n \in 1 .. L PROVE to(n) \in n .. L + 1
    <3>1. n + 1 \in 1 .. Len(row) + 1 /\ "end" \notin {" "}
      BY <2>1
    <3>2. Skip(row, n + 1, {" "}) \in n + 1 .. Len(row) + 1
      BY <3>1, SkipIs
    <3>3. to(n) = n \/ to(n) = Skip(row, n + 1, {" "})
      OBVIOUS
    <3>. HIDE DEF to
    <3>4. CASE to(n) = n
      BY <2>1, <3>4
    <3>5. CASE to(n) = Skip(row, n + 1, {" "})
      <4>1. PICK s : s = Skip(row, n + 1, {" "})
        OBVIOUS
      <4>2. s \in n + 1 .. Len(row) + 1
        BY <3>2, <4>1
      <4>3. s \in n .. L + 1
        BY <2>1, <4>2
      <4>. QED
        BY <3>5, <4>1, <4>3
    <3>. QED
      BY <3>3, <3>4, <3>5
  <2>3. w \in [1 .. L -> Int]
    BY DEF One
  <2>4. nx \in [1 .. L -> Nat] /\ \A n \in 1 .. L : nx[n] \in n + 1 .. L + 2
    <3>. HIDE DEF to
    <3>. QED
      BY <2>1, <2>2
  <2>5. Steps(L, w, nx)
    <3>. HIDE DEF w, nx
    <3>. QED
      BY <2>1, <2>3, <2>4 DEF Steps
  <2>6. \A g : Onward(g, L, w, nx) <=> Rec(g)
    <3>. SUFFICES ASSUME NEW g PROVE Onward(g, L, w, nx) <=> Rec(g)
      OBVIOUS
    <3>1. \A n \in 1 .. L + 2 : n <= L => n \in 1 .. L
      BY <2>1
    <3>2. \A n \in 1 .. L :
            w[n] + g[nx[n]] = One(to(n) # n /\ At(row, to(n)) \in {",", ")", "]"})
                          + One(\/ At(row, to(n)) \in {"(*", "/.", "@@"}
                                \/ At(row, to(n)) = "_" /\ At(row, to(n) + 1) = "_")
                          + g[to(n) + 1]
      BY DEF One
    <3>. HIDE DEF to, w, nx
    <3>3. \A n \in 1 .. L + 2 :
            (IF n > L THEN 0 ELSE w[n] + g[nx[n]]) =
              IF n > L THEN 0
                     ELSE One(to(n) # n /\ At(row, to(n)) \in {",", ")", "]"})
                          + One(\/ At(row, to(n)) \in {"(*", "/.", "@@"}
                                \/ At(row, to(n)) = "_" /\ At(row, to(n) + 1) = "_")
                          + g[to(n) + 1]
      <4>1. \A n \in 1 .. L + 2 : n > L \/ n <= L
        BY <2>1
      <4>. QED
        BY <3>1, <3>2, <4>1, Zenon
    <3>. QED
      BY <3>3 DEF Onward
  <2>7. \E g : Onward(g, L, w, nx)
    BY <2>5, OnwardExists
  <2>. DEFINE From == CHOOSE g : Rec(g)
  <2>8. Mathematica(row) = From[1]
    BY DEF Mathematica
  <2>9. Rec(From)
    <3>. HIDE DEF Rec
    <3>. QED
      BY <2>6, <2>7
  <2>10. Onward(From, L, w, nx)
    <3>. HIDE DEF Rec, From, w, nx
    <3>. QED
      BY <2>6, <2>9
  <2>. QED
    <3>. HIDE DEF From, w, nx, Rec
    <3>. QED
      BY <2>5, <2>8, <2>10, OnwardInt
<1>5. Forth(row) \in Int /\ FSharp(row) \in Int
  BY DEF Forth, FSharp, One
<1>. QED
  BY <1>1, <1>2, <1>3, <1>4, <1>5

-----------------------------------------------------------------------------
(* What the lines of a text say together.                                  *)

LEMMA UpToIs ==
  ASSUME NEW t \in Texts, NEW most \in Nat
  PROVE  /\ UpTo(most, t) \in Texts
         /\ t = <<>> => UpTo(most, t) = <<>>
         /\ Len(t) <= most => UpTo(most, t) = t
<1>. DEFINE end == IF Len(t) < most THEN Len(t) ELSE most
<1>1. Len(t) \in Nat /\ UpTo(most, t) = SubSeq(t, 1, end)
  BY TextAt DEF UpTo
<1>2. end \in 0 .. Len(t)
  BY <1>1
<1>3. Len(t) <= most => end = Len(t)
  BY <1>1
<1>. HIDE DEF end
<1>4. SubSeq(t, 1, end) = [k \in 1 .. end |-> t[k]]
  <2>1. SubSeq(t, 1, end) = [k \in 1 .. end - 1 + 1 |-> t[1 + k - 1]]
    BY <1>1, <1>2 DEF Texts
  <2>2. end - 1 + 1 = end /\ \A k \in 1 .. end : 1 + k - 1 = k
    BY <1>1, <1>2
  <2>. QED
    BY <2>1, <2>2
<1>5. SubSeq(t, 1, end) \in Texts /\ Len(SubSeq(t, 1, end)) = end
  <2>1. \A k \in 1 .. end : t[k] \in Symbols
    BY <1>1, <1>2 DEF Texts
  <2>2. end \in Nat
    BY <1>1, <1>2
  <2>3. [k \in 1 .. end |-> t[k]] \in Seq(Symbols) /\ Len([k \in 1 .. end |-> t[k]]) = end
    BY <2>1, <2>2, IsASeq, LenProperties
  <2>. QED
    BY <1>4, <2>3 DEF Texts
<1>6. Len(t) <= most => SubSeq(t, 1, end) = t
  <2>. SUFFICES ASSUME Len(t) <= most PROVE SubSeq(t, 1, end) = t
    OBVIOUS
  <2>1. end = Len(t)
    BY <1>3
  <2>2. \A k \in 1 .. Len(t) : SubSeq(t, 1, end)[k] = t[k]
    BY <1>4, <2>1
  <2>3. Len(SubSeq(t, 1, end)) = Len(t)
    BY <1>5, <2>1
  <2>. QED
    BY <1>5, <2>2, <2>3, SameText
<1>7. t = <<>> => Len(t) <= most
  BY <1>1
<1>. QED
  BY <1>1, <1>5, <1>6, <1>7

\* What is looked at of a line is a text, and nothing of an empty line.
LEMMA TakenIs ==
  ASSUME NEW t \in Texts, NEW n \in LineStarts(t), NEW which
  PROVE  /\ Taken(which, t, n) \in Texts
         /\ n \notin Filled(t) => Taken(which, t, n) = <<>>
<1>1. LineAt(t, n) \in Texts /\ (n \notin Filled(t) => LineAt(t, n) = <<>>)
  BY LinesAre
<1>2. Buffer \in Nat
  BY DisambiguatorsAssumption
<1>3. /\ UpTo(Buffer, LineAt(t, n)) \in Texts
      /\ LineAt(t, n) = <<>> => UpTo(Buffer, LineAt(t, n)) = <<>>
  BY <1>1, <1>2, UpToIs
<1>. QED
  BY <1>1, <1>3 DEF Taken

Scores == {"objective_c", "matlab", "limbo", "mathematica", "forth", "fsharp"}

LEMMA PointsOfLine ==
  ASSUME NEW s \in Scores
  PROVE  /\ \A row \in Texts : Points(s, row) \in Int
         /\ Points(s, <<>>) = 0
<1>1. CASE s = "objective_c"
  BY <1>1, PointsAre, EmptyLine DEF Points
<1>2. CASE s = "matlab"
  BY <1>2, PointsAre, EmptyLine DEF Points
<1>3. CASE s = "limbo"
  BY <1>3, PointsAre, EmptyLine DEF Points
<1>4. CASE s = "mathematica"
  BY <1>4, PointsAre, EmptyLine DEF Points
<1>5. CASE s = "forth"
  BY <1>5, PointsAre, EmptyLine DEF Points
<1>6. CASE s = "fsharp"
  BY <1>6, PointsAre, EmptyLine DEF Points
<1>. QED
  BY <1>1, <1>2, <1>3, <1>4, <1>5, <1>6 DEF Scores

LEMMA FirstScoresAre ==
  ASSUME NEW which, NEW b
  PROVE  /\ DOMAIN FirstScores(which, b) \subseteq Scores
         /\ FirstScores(which, b) \in [DOMAIN FirstScores(which, b) -> Int]
<1>1. CASE which = "m"
  <2>1. FirstScores(which, b) =
          [objective_c |-> IF HeadersOnly(b) THEN 5 ELSE 0,
           matlab |-> 0, limbo |-> 0, mathematica |-> 0]
    BY <1>1 DEF FirstScores
  <2>. QED
    BY <2>1 DEF Scores
<1>2. CASE which = "fs"
  <2>1. FirstScores(which, b) = [forth |-> 0, fsharp |-> 0]
    BY <1>2 DEF FirstScores
  <2>. QED
    BY <2>1 DEF Scores
<1>3. CASE which \notin {"m", "fs"}
  <2>1. FirstScores(which, b) = [score \in {} |-> 0]
    BY <1>3 DEF FirstScores
  <2>. QED
    BY <2>1
<1>. QED
  BY <1>1, <1>2, <1>3

\* What the lines that begin at the places A are worth.
Worth(which, t, s, A) == [n \in A |-> Points(s, Taken(which, t, n))]

SumOf(which, t, s, A) == MapThenSumSet(LAMBDA n : Points(s, Taken(which, t, n)), A)

LEMMA WorthIs ==
  ASSUME NEW t \in Texts, NEW A \in SUBSET LineStarts(t), NEW s \in Scores, NEW which
  PROVE  IsFiniteSet(A) /\ Worth(which, t, s, A) \in [A -> Int]
<1>1. IsFiniteSet(A)
  BY LineStartsOf, FS_Subset
<1>2. \A n \in A : Points(s, Taken(which, t, n)) \in Int
  BY TakenIs, PointsOfLine
<1>. QED
  BY <1>1, <1>2 DEF Worth

LEMMA SumIs ==
  ASSUME NEW t \in Texts, NEW A \in SUBSET LineStarts(t), NEW s \in Scores, NEW which
  PROVE  \E T : Adds(T, Worth(which, t, s, A), A) /\ SumOf(which, t, s, A) = T[A]
<1>. DEFINE h == Worth(which, t, s, A)
            Rec(T) == T = [c \in SUBSET A |->
                        IF c = {} THEN 0
                        ELSE Points(s, Taken(which, t, CHOOSE x \in c : TRUE))
                             + T[c \ {CHOOSE x \in c : TRUE}]]
            iter == CHOOSE T : Rec(T)
<1>1. SumOf(which, t, s, A) = iter[A]
  BY DEF SumOf, MapThenSumSet, MapThenFoldSet
<1>2. \A n \in A : h[n] = Points(s, Taken(which, t, n))
  BY DEF Worth
<1>4. h \in [A -> Int] /\ IsFiniteSet(A)
  BY WorthIs
<1>. HIDE DEF h
<1>5. \A T : Adds(T, h, A) <=> Rec(T)
  <2>1. ASSUME NEW c \in SUBSET A, c # {}
        PROVE  h[CHOOSE x \in c : TRUE] = Points(s, Taken(which, t, CHOOSE x \in c : TRUE))
    <3>1. (CHOOSE x \in c : TRUE) \in c
      BY <2>1
    <3>. QED
      BY <1>2, <3>1
  <2>. SUFFICES ASSUME NEW T PROVE Adds(T, h, A) <=> Rec(T)
    OBVIOUS
  <2>2. \A c \in SUBSET A :
          (IF c = {} THEN 0 ELSE h[CHOOSE x \in c : TRUE] + T[Rest(c)])
          = IF c = {} THEN 0
            ELSE Points(s, Taken(which, t, CHOOSE x \in c : TRUE))
                 + T[c \ {CHOOSE x \in c : TRUE}]
    BY <2>1 DEF Rest
  <2>3. [c \in SUBSET A |->
           IF c = {} THEN 0 ELSE h[CHOOSE x \in c : TRUE] + T[Rest(c)]]
        = [c \in SUBSET A |->
             IF c = {} THEN 0
             ELSE Points(s, Taken(which, t, CHOOSE x \in c : TRUE))
                  + T[c \ {CHOOSE x \in c : TRUE}]]
    BY <2>2, Zenon
  <2>. QED
    BY <2>3 DEF Adds
<1>6. \E T : Adds(T, h, A)
  BY <1>4, AddsExist
<1>. HIDE DEF Rec
<1>7. Rec(iter)
  BY <1>5, <1>6
<1>. HIDE DEF iter
<1>8. Adds(iter, h, A)
  BY <1>5, <1>7
<1>. QED
  BY <1>1, <1>8 DEF h

LEMMA SumOfNone ==
  ASSUME NEW t \in Texts, NEW s \in Scores, NEW which
  PROVE  SumOf(which, t, s, {}) = 0
<1>1. {} \in SUBSET LineStarts(t)
  OBVIOUS
<1>2. PICK T : Adds(T, Worth(which, t, s, {}), {}) /\ SumOf(which, t, s, {}) = T[{}]
  BY <1>1, SumIs
<1>3. IsFiniteSet({}) /\ Worth(which, t, s, {}) \in [{} -> Int]
  BY <1>1, WorthIs
<1>. QED
  BY <1>2, <1>3, AnyFirst

LEMMA SumOfInt ==
  ASSUME NEW t \in Texts, NEW A \in SUBSET LineStarts(t), NEW s \in Scores, NEW which
  PROVE  SumOf(which, t, s, A) \in Int
<1>1. PICK T : Adds(T, Worth(which, t, s, A), A) /\ SumOf(which, t, s, A) = T[A]
  BY SumIs
<1>2. IsFiniteSet(A) /\ Worth(which, t, s, A) \in [A -> Int]
  BY WorthIs
<1>3. \A c \in SUBSET A : T[c] \in Int
  <2>. DEFINE h == Worth(which, t, s, A)
  <2>. HIDE DEF h
  <2>1. \A c \in SUBSET A : T[c] \in Int /\ \A x \in c : T[c] = h[x] + T[c \ {x}]
    BY <1>1, <1>2, AnyFirst DEF h
  <2>. QED
    BY <2>1
<1>. QED
  BY <1>1, <1>3

LEMMA SumOfNext ==
  ASSUME NEW t \in Texts, NEW A \in SUBSET LineStarts(t), NEW n \in LineStarts(t),
         n \notin A, NEW s \in Scores, NEW which
  PROVE  SumOf(which, t, s, A \cup {n})
           = SumOf(which, t, s, A) + Points(s, Taken(which, t, n))
<1>. DEFINE B == A \cup {n}
            h == Worth(which, t, s, B)
            e == Worth(which, t, s, A)
<1>1. B \in SUBSET LineStarts(t)
  OBVIOUS
<1>2. PICK T : Adds(T, h, B) /\ SumOf(which, t, s, B) = T[B]
  BY <1>1, SumIs
<1>3. PICK U : Adds(U, e, A) /\ SumOf(which, t, s, A) = U[A]
  BY SumIs
<1>4. Summed(T, h, B) /\ Summed(U, e, A)
  BY <1>1, <1>2, <1>3, WorthIs DEF Summed
<1>5. PICK k, f : Counts(f, k, A)
  BY <1>4, CountExists DEF Summed
<1>6. \A i \in 1 .. k : f[i] \in A
  BY <1>5 DEF Counts
<1>7. \A i \in 1 .. k : h[f[i]] = e[f[i]]
  BY <1>6 DEF Worth
<1>8. h[n] = Points(s, Taken(which, t, n))
  BY DEF Worth
<1>9. A \in SUBSET B /\ A \in SUBSET A /\ B \in SUBSET B /\ n \in B /\ B \ {n} = A
  OBVIOUS
<1>. HIDE DEF h, e, B
<1>10. Matches(h, A, e, A)
  BY <1>5, <1>7 DEF Matches
<1>11. T[A] = U[A]
  BY <1>4, <1>9, <1>10, SameSums
<1>12. T[B] = h[n] + T[A] /\ T[A] \in Int /\ h[n] \in Int
  <2>0. /\ T[{}] = 0
        /\ \A c \in SUBSET B : T[c] \in Int /\ \A x \in c : T[c] = h[x] + T[c \ {x}]
    <3>1. IsFiniteSet(B) /\ h \in [B -> Int] /\ Adds(T, h, B)
      BY <1>4 DEF Summed
    <3>. QED
      BY <3>1, AnyFirst
  <2>1. T[B] = h[n] + T[B \ {n}] /\ T[A] \in Int
    BY <1>9, <2>0
  <2>2. h[n] \in Int
    BY <1>4, <1>9 DEF Summed
  <2>. QED
    BY <1>9, <2>1, <2>2
<1>13. T[B] = T[A] + h[n]
  BY <1>12
<1>. QED
  BY <1>2, <1>3, <1>8, <1>11, <1>13 DEF B

LEMMA FlagsOfLine ==
  ASSUME NEW which
  PROVE  Flags(which, <<>>) = {}
<1>1. Smalltalk(<<>>) = {} /\ ~Octave(<<>>)
  BY EmptyLine
<1>. QED
  BY <1>1 DEF Flags

\* The scores after the lines that begin at the places A.
TotalOf(which, t, b, A) ==
    [s \in DOMAIN FirstScores(which, b) |-> FirstScores(which, b)[s] + SumOf(which, t, s, A)]

LEMMA ScoresAre ==
    \A which, t, A : ScoresOf(which, t, A) = TotalOf(which, t, beside, A)
  BY DEF ScoresOf, TotalOf, SumOf

LEMMA TotalOfNone ==
  ASSUME NEW t \in Texts, NEW which, NEW b
  PROVE  TotalOf(which, t, b, {}) = FirstScores(which, b)
<1>. DEFINE F == FirstScores(which, b)
<1>1. DOMAIN F \subseteq Scores /\ F \in [DOMAIN F -> Int]
  BY FirstScoresAre
<1>2. TotalOf(which, t, b, {}) = [s \in DOMAIN F |-> F[s] + SumOf(which, t, s, {})]
  BY DEF TotalOf
<1>. HIDE DEF F
<1>3. \A s \in DOMAIN F : SumOf(which, t, s, {}) = 0
  BY <1>1, SumOfNone
<1>4. \A s \in DOMAIN F : F[s] + SumOf(which, t, s, {}) = F[s]
  BY <1>1, <1>3
<1>5. [s \in DOMAIN F |-> F[s] + SumOf(which, t, s, {})] = F
  BY <1>1, <1>4
<1>. QED
  BY <1>2, <1>5 DEF F

LEMMA TotalOfNext ==
  ASSUME NEW t \in Texts, NEW A \in SUBSET LineStarts(t), NEW n \in LineStarts(t),
         n \notin A, NEW which, NEW b, NEW K, K = TotalOf(which, t, b, A)
  PROVE  TotalOf(which, t, b, A \cup {n})
           = [s \in DOMAIN K |-> K[s] + Points(s, Taken(which, t, n))]
<1>. DEFINE F == FirstScores(which, b)
<1>1. DOMAIN F \subseteq Scores /\ F \in [DOMAIN F -> Int]
  BY FirstScoresAre
<1>2. /\ K = [s \in DOMAIN F |-> F[s] + SumOf(which, t, s, A)]
      /\ TotalOf(which, t, b, A \cup {n})
           = [s \in DOMAIN F |-> F[s] + SumOf(which, t, s, A \cup {n})]
  BY DEF TotalOf
<1>. HIDE DEF F
<1>3. ASSUME NEW s \in DOMAIN F
      PROVE  F[s] + SumOf(which, t, s, A \cup {n}) = K[s] + Points(s, Taken(which, t, n))
  <2>1. s \in Scores /\ F[s] \in Int
    BY <1>1
  <2>2. SumOf(which, t, s, A \cup {n})
          = SumOf(which, t, s, A) + Points(s, Taken(which, t, n))
    BY <2>1, SumOfNext
  <2>3. Points(s, Taken(which, t, n)) \in Int
    BY <2>1, TakenIs, PointsOfLine
  <2>4. SumOf(which, t, s, A) \in Int
    BY <2>1, SumOfInt
  <2>5. K[s] = F[s] + SumOf(which, t, s, A)
    BY <1>2
  <2>. QED
    BY <2>1, <2>2, <2>3, <2>4, <2>5
<1>4. DOMAIN K = DOMAIN F
  BY <1>2
<1>5. [s \in DOMAIN F |-> F[s] + SumOf(which, t, s, A \cup {n})]
        = [s \in DOMAIN K |-> K[s] + Points(s, Taken(which, t, n))]
  BY <1>3, <1>4, Zenon
<1>. QED
  BY <1>2, <1>5

-----------------------------------------------------------------------------
(* What is answered after a line.                                          *)

\* A disambiguator has one language to answer with before the last line.
LEMMA OneAnswer ==
  ASSUME NEW which, NEW a, NEW c, NEW f, NEW g, NEW b, NEW e,
         AfterLine(which, a, f, b) # NULL, AfterLine(which, c, g, e) # NULL
  PROVE  AfterLine(which, a, f, b) = AfterLine(which, c, g, e)
  BY DEF AfterLine

LEMMA MoreFlags ==
  ASSUME NEW which, NEW a, NEW f, NEW g, f \subseteq g, NEW b,
         AfterLine(which, a, f, b) # NULL
  PROVE  AfterLine(which, a, g, b) # NULL
  BY DEF AfterLine

\* The byte in front of a line, should it be a letter, only hides a word.
LEMMA LetterBefore ==
  ASSUME NEW which, NEW a, NEW f, NEW b \in BOOLEAN, AfterLine(which, a, f, b) = NULL
  PROVE  AfterLine(which, a, f, TRUE) = NULL
<1>1. Cpp(a, TRUE) => Cpp(a, b)
  BY DEF Cpp, Alone
<1>. QED
  BY <1>1 DEF AfterLine

\* What answers after some line answers for the text.
LEMMA EarlyAnswer ==
  ASSUME NEW t, NEW A \in SUBSET LineStarts(t), NEW n \in LineStarts(t),
         NEW which, ~(which = "h" /\ Accompanied), NEW b,
         NEW a, a = AfterLine(which, Taken(which, t, n), FlagsOf(which, t, A \cup {n}), b),
         a # NULL
  PROVE  ByLines(which, t, b) = a
<1>. DEFINE S == LineStarts(t)
            B == AnswersOf(which, t, S, b)
            own == AfterLine(which, Taken(which, t, n), FlagsOf(which, t, S), b)
<1>1. FlagsOf(which, t, A \cup {n}) \subseteq FlagsOf(which, t, S)
  BY DEF FlagsOf
<1>2. own # NULL
  BY <1>1, MoreFlags
<1>3. own \in B
  BY <1>2 DEF AnswersOf
<1>4. ASSUME NEW x \in B PROVE x = a
  <2>1. PICK m \in S : x = AfterLine(which, Taken(which, t, m), FlagsOf(which, t, S), b)
    BY DEF AnswersOf
  <2>2. x # NULL
    BY DEF AnswersOf
  <2>. QED
    BY <2>1, <2>2, OneAnswer
<1>5. ByLines(which, t, b) = IF B # {} THEN CHOOSE x \in B : TRUE
                             ELSE AfterLines(which, ScoresOf(which, t, S),
                                             FlagsOf(which, t, S), beside)
  BY DEF ByLines
<1>. HIDE DEF B
<1>. QED
  BY <1>3, <1>4, <1>5

\* When none of some lines answers, and the next does not, none of them does.
LEMMA SilentNext ==
  ASSUME NEW t, NEW A, NEW n, NEW which, NEW b \in BOOLEAN,
         AnswersOf(which, t, A, TRUE) = {},
         AfterLine(which, Taken(which, t, n), FlagsOf(which, t, A \cup {n}), b) = NULL
  PROVE  AnswersOf(which, t, A \cup {n}, TRUE) = {}
<1>0. PICK F, G : F = FlagsOf(which, t, A) /\ G = FlagsOf(which, t, A \cup {n})
  OBVIOUS
<1>1. AfterLine(which, Taken(which, t, n), G, TRUE) = NULL
  BY <1>0, LetterBefore
<1>2. ASSUME NEW m \in A PROVE AfterLine(which, Taken(which, t, m), G, TRUE) = NULL
  <2>1. AfterLine(which, Taken(which, t, m), F, TRUE) = NULL
    BY <1>0 DEF AnswersOf
  <2>2. PICK c, a : c = Taken(which, t, m) /\ a = Taken(which, t, n)
    OBVIOUS
  <2>3. which # "st" => AfterLine(which, c, F, TRUE) = AfterLine(which, c, G, TRUE)
    BY DEF AfterLine
  <2>4. which = "st" => AfterLine(which, a, G, TRUE) = AfterLine(which, c, G, TRUE)
    BY DEF AfterLine
  <2>. QED
    BY <1>1, <2>1, <2>2, <2>3, <2>4
<1>. QED
  BY <1>0, <1>1, <1>2 DEF AnswersOf

-----------------------------------------------------------------------------
(* The stages.                                                             *)

\* What From[n] of ModeLine is made of.
Past(t, g, n) ==
    LET row == LineAt(t, n)
        next == Skip(t, n + Len(row), {"nl"})
    IN  IF At(row, 1) = "#!" /\ next <= Len(t) THEN g[next] ELSE row

LEMMA PastForward ==
  ASSUME NEW t \in Texts, NEW n \in 1 .. Len(t) + 1, NEW g, NEW h,
         \A m \in n + 1 .. Len(t) : g[m] = h[m]
  PROVE  Past(t, g, n) = Past(t, h, n)
<1>. DEFINE row == LineAt(t, n)
            next == Skip(t, n + Len(row), {"nl"})
<1>1. row \in Texts /\ n + Len(row) \in n .. Len(t) + 1
  BY LineText
<1>2. next \in n + Len(row) .. Len(t) + 1
  <2>1. n + Len(row) \in 1 .. Len(t) + 1
    BY <1>1, TextAt
  <2>. HIDE DEF row
  <2>. QED
    BY <2>1, SkipIs
<1>3. At(row, 1) = "#!" => Len(row) >= 1
  <2>1. 1 \notin 1 .. Len(row) => At(row, 1) = "end"
    BY <1>1, TextAt
  <2>. QED
    BY <1>1, <2>1, TextAt
<1>4. At(row, 1) = "#!" /\ next <= Len(t) => next \in n + 1 .. Len(t)
  BY <1>1, <1>2, <1>3, TextAt
<1>. QED
  BY <1>4 DEF Past

\* The functions From from some place on.
LEMMA PastExists ==
  ASSUME NEW t \in Texts
  PROVE  \A k \in 0 .. Len(t) + 1 :
           \E g \in [Len(t) + 2 - k .. Len(t) + 1 -> Texts] :
             \A n \in Len(t) + 2 - k .. Len(t) + 1 : g[n] = Past(t, g, n)
<1>. DEFINE L == Len(t) + 1
            G(k, g) == /\ g \in [L + 1 - k .. L -> Texts]
                       /\ \A n \in L + 1 - k .. L : g[n] = Past(t, g, n)
            S == {k \in Nat : k <= L => \E g : G(k, g)}
<1>1. Len(t) \in Nat
  BY TextAt
<1>2. 0 \in S
  <2>1. L + 1 - 0 .. L = {}
    BY <1>1
  <2>2. G(0, [n \in {} |-> <<>>])
    BY <2>1
  <2>. HIDE DEF G
  <2>. QED
    BY <2>2
<1>3. ASSUME NEW k \in Nat, k \in S PROVE k + 1 \in S
  <2>. SUFFICES ASSUME k + 1 <= L PROVE \E g : G(k + 1, g)
    OBVIOUS
  <2>1. PICK g : G(k, g)
    BY <1>1, <1>3
  <2>. DEFINE new == L - k
              h == [n \in new .. L |-> IF n = new THEN Past(t, g, new) ELSE g[n]]
  <2>2. new \in 1 .. L /\ L + 1 - (k + 1) = new /\ L + 1 - k = new + 1
    BY <1>1
  <2>3. ASSUME NEW n \in new .. L PROVE h[n] = Past(t, g, n)
    <3>1. CASE n = new
      BY <3>1
    <3>2. CASE n # new
      <4>1. n \in new + 1 .. L
        BY <1>1, <2>2, <3>2
      <4>2. g[n] = Past(t, g, n)
        BY <2>1, <2>2, <4>1
      <4>. QED
        BY <3>2, <4>2
    <3>. QED
      BY <3>1, <3>2
  <2>4. ASSUME NEW n \in new .. L PROVE Past(t, g, n) = Past(t, h, n)
    <3>1. \A m \in n + 1 .. Len(t) : g[m] = h[m]
      BY <1>1, <2>2
    <3>2. n \in 1 .. Len(t) + 1
      BY <1>1, <2>2
    <3>. HIDE DEF h
    <3>. QED
      BY <3>1, <3>2, PastForward
  <2>5. Past(t, g, new) \in Texts
    <3>. DEFINE row == LineAt(t, new)
                next == Skip(t, new + Len(row), {"nl"})
    <3>1. row \in Texts /\ new + Len(row) \in new .. Len(t) + 1
      BY <2>2, LineText
    <3>2. next \in new + Len(row) .. Len(t) + 1
      <4>1. new + Len(row) \in 1 .. Len(t) + 1
        BY <1>1, <2>2, <3>1
      <4>. HIDE DEF row
      <4>. QED
        BY <4>1, SkipIs
    <3>3. At(row, 1) = "#!" => Len(row) >= 1
      <4>1. 1 \notin 1 .. Len(row) => At(row, 1) = "end"
        BY <3>1, TextAt
      <4>. QED
        BY <3>1, <4>1, TextAt
    <3>4. At(row, 1) = "#!" /\ next <= Len(t) => next \in new + 1 .. L
      BY <1>1, <2>2, <3>1, <3>2, <3>3, TextAt
    <3>. HIDE DEF new
    <3>5. At(row, 1) = "#!" /\ next <= Len(t) => g[next] \in Texts
      BY <2>1, <2>2, <3>4
    <3>. QED
      BY <3>1, <3>5 DEF Past
  <2>6. h \in [new .. L -> Texts]
    <3>1. \A n \in new .. L : n # new => g[n] \in Texts
      BY <1>1, <2>1, <2>2
    <3>. QED
      BY <2>5, <3>1
  <2>7. G(k + 1, h)
    <3>. HIDE DEF h, new, L
    <3>. QED
      BY <2>2, <2>3, <2>4, <2>6
  <2>. HIDE DEF G
  <2>. QED
    BY <2>7
<1>. HIDE DEF S
<1>4. \A k \in Nat : k \in S
  BY <1>2, <1>3, NatSet
<1>5. ASSUME NEW k \in 0 .. L PROVE \E g : G(k, g)
  BY <1>1, <1>4 DEF S
<1>. QED
  BY <1>1, <1>5

LEMMA ModeLineText ==
  ASSUME text \in Texts
  PROVE  ModeLine \in Texts
<1>. DEFINE L == Len(text) + 1
            From == CHOOSE g : g = [n \in 1 .. L |-> Past(text, g, n)]
<1>1. L \in Nat /\ 1 \in 1 .. L
  BY TextAt
<1>2. PICK g \in [1 .. L -> Texts] : \A n \in 1 .. L : g[n] = Past(text, g, n)
  <2>1. L \in 0 .. L /\ Len(text) + 2 - L = 1
    BY <1>1, TextAt
  <2>. QED
    BY <2>1, PastExists
<1>3. g = [n \in 1 .. L |-> Past(text, g, n)]
  BY <1>2
<1>4. From = [n \in 1 .. L |-> Past(text, From, n)]
  BY <1>3
<1>. HIDE DEF From
<1>. DEFINE S == {k \in Nat : \A n \in 1 .. L : n + k >= L => From[n] = g[n]}
<1>5. ASSUME NEW n \in 1 .. L, \A m \in n + 1 .. L : From[m] = g[m] PROVE From[n] = g[n]
  <2>1. Past(text, From, n) = Past(text, g, n)
    <3>1. \A m \in n + 1 .. Len(text) : From[m] = g[m]
      BY <1>1, <1>5, TextAt
    <3>. QED
      BY <3>1, PastForward
  <2>. QED
    BY <1>2, <1>4, <2>1
<1>6. 0 \in S
  <2>1. ASSUME NEW n \in 1 .. L, n + 0 >= L PROVE From[n] = g[n]
    <3>1. n + 1 .. L = {}
      BY <1>1, <2>1
    <3>. QED
      BY <1>5, <3>1
  <2>. QED
    BY <2>1
<1>7. ASSUME NEW k \in Nat, k \in S PROVE k + 1 \in S
  <2>1. ASSUME NEW n \in 1 .. L, n + (k + 1) >= L PROVE From[n] = g[n]
    <3>1. ASSUME NEW m \in n + 1 .. L PROVE From[m] = g[m]
      <4>1. m \in 1 .. L /\ m + k >= L
        BY <1>1, <2>1, <3>1
      <4>. QED
        BY <1>7, <4>1
    <3>. QED
      BY <1>5, <3>1
  <2>. QED
    BY <2>1
<1>. HIDE DEF S
<1>8. L \in S
  BY <1>1, <1>6, <1>7, NatSet
<1>9. From[1] = g[1]
  BY <1>1, <1>8 DEF S
<1>10. From[1] \in Texts
  BY <1>1, <1>2, <1>9
<1>11. ModeLine = From[1]
  BY DEF ModeLine, From, Past
<1>. QED
  BY <1>10, <1>11

\* Only the extension says "in".
LEMMA ModeLineNeverIn ==
  ASSUME text \in Texts
  PROVE  AnswerByModeLine # "in"
<1>1. ASSUME NEW n PROVE Get(ByName, n) # "in"
  BY DetectorAssumption DEF Get, Ambiguous
<1>2. ASSUME NEW s \in DOMAIN ModeOf PROVE LookUpMode(ModeOf[s]) # "in"
  <2>1. Get(ByExtension, ModeOf[s]) # "in" /\ Get(ByExtension, Lower[ModeOf[s]]) # "in"
    BY DetectorAssumption DEF Get, Ambiguous
  <2>2. CASE Lower[ModeOf[s]] = "c"
    <3>1. ByName["c"] # "in"
      BY DetectorAssumption DEF Ambiguous
    <3>. QED
      BY <2>2, <3>1 DEF LookUpMode
  <2>3. CASE Lower[ModeOf[s]] # "c"
    BY <1>1, <2>1, <2>3 DEF LookUpMode, FoundOr
  <2>. QED
    BY <2>2, <2>3
<1>. DEFINE I == {i \in 1 .. Len(ModeLine) : ModeLine[i] \in DOMAIN ModeOf}
<1>3. ModeLine \in Texts
  BY ModeLineText
<1>4. I # {} => Min(I) \in I
  <2>. SUFFICES ASSUME I # {} PROVE Min(I) \in I
    OBVIOUS
  <2>1. I \in SUBSET Nat
    BY <1>3, TextAt
  <2>2. \E n \in I : \A m \in I : n <= m
    <3>. HIDE DEF I
    <3>. QED
      BY <2>1, LeastNat
  <2>. HIDE DEF I
  <2>. QED
    BY <2>2 DEF Min
<1>5. AnswerByModeLine = IF I = {} THEN NULL ELSE LookUpMode(ModeOf[ModeLine[Min(I)]])
  <2>1. I # {} => Min(I) # 0
    BY <1>4
  <2>. QED
    BY <2>1 DEF AnswerByModeLine, SelectInSeq
<1>6. NULL # "in"
  BY DetectorAssumption DEF Ambiguous
<1>. QED
  BY <1>2, <1>4, <1>5, <1>6

LEMMA MagicNeverIn ==
  ASSUME NEW words
  PROVE  MagicParse(words) # "in"
<1>1. ASSUME NEW n PROVE Get(ByName, n) # "in"
  BY DetectorAssumption DEF Get, Ambiguous
<1>2. NULL # "in"
  BY DetectorAssumption DEF Ambiguous
<1>. QED
  BY <1>1, <1>2 DEF MagicParse

\* An extension is "in", in either case, just if it says so.
LEMMA ExtensionIn ==
  ASSUME NEW n \in Seq(STRING) \ {<<>>}
  PROVE  /\ AnswerByExtension(n) = "in" => Len(n) > 1 /\ Lower[n[Len(n)]] = "in"
         /\ AnswerByExtension(n) # "in" => Len(n) = 1 \/ Lower[n[Len(n)]] # "in"
<1>. DEFINE e == Ext(n)
<1>1. Len(n) \in Nat \ {0}
  BY EmptySeq
<1>2. e = IF Len(n) > 1 THEN n[Len(n)] ELSE ""
  BY DEF Ext, Last
<1>. HIDE DEF e
<1>3. AnswerByExtension(n) = FoundOr(Get(ByExtension, e), Get(ByExtension, Lower[e]))
  BY DEF AnswerByExtension, e
<1>4. ASSUME NEW x PROVE Get(ByExtension, x) = "in" <=> x = "in"
  BY DetectorAssumption DEF Get, Ambiguous
<1>5. AnswerByExtension(n) = "in" => Lower[e] = "in"
  BY <1>3, <1>4, DetectorAssumption DEF FoundOr
<1>6. ASSUME Lower[e] = "in" PROVE AnswerByExtension(n) = "in"
  <2>1. CASE e = "in"
    BY <1>3, <1>4, <2>1, DetectorAssumption DEF FoundOr, Ambiguous
  <2>2. CASE e # "in"
    <3>1. e \notin DOMAIN ByExtension
      BY <1>6, <2>2, DetectorAssumption
    <3>2. Get(ByExtension, e) = NULL
      BY <3>1 DEF Get
    <3>3. Get(ByExtension, Lower[e]) = "in"
      BY <1>4, <1>6
    <3>. QED
      BY <1>3, <3>2, <3>3 DEF FoundOr
  <2>. QED
    BY <2>1, <2>2
<1>7. CASE Len(n) > 1
  <2>1. e = n[Len(n)]
    BY <1>2, <1>7
  <2>. QED
    BY <1>5, <1>6, <1>7, <2>1
<1>8. CASE ~(Len(n) > 1)
  <2>1. Len(n) = 1 /\ Lower[e] # "in"
    <3>0. Len(n) = 1
      <4>1. \A k \in Nat \ {0} : ~(k > 1) => k = 1
        OBVIOUS
      <4>. QED
        BY <1>1, <1>8, <4>1, Zenon
    <3>1. e = "" /\ Len(n) = 1
      BY <1>2, <1>8, <3>0, Zenon
    <3>2. Lower[e] = ""
      BY <3>1, DetectorAssumption
    <3>3. "" # "in"
      OBVIOUS
    <3>. QED
      BY <3>1, <3>2, <3>3
  <2>. QED
    BY <1>5, <2>1
<1>. QED
  BY <1>7, <1>8

\* Of the name only extensions "in" have been taken away.
NameInv ==
    /\ file.name \in Seq(STRING) \ {<<>>} /\ text \in Texts
    /\ Len(name) \in 1 .. Len(file.name)
    /\ name = SubSeq(file.name, 1, Len(name))
    /\ \A k \in Len(name) + 1 .. Len(file.name) : Lower[file.name[k]] = "in"

\* A stage is come to when those before it have said nothing.
SilentInv ==
    /\ pc \in {"modeline", "filename", "magic"} => AnswerByExtension(name) = NULL
    /\ pc \in {"filename", "magic"} => AnswerByModeLine = NULL
    /\ pc = "magic" => Get(ByFilename, name) = NULL

\* What the first stage says that says something.
Answer ==
    FoundOr(AnswerByExtension(name),
    FoundOr(AnswerByModeLine,
    FoundOr(Get(ByFilename, name), MagicParse(magic))))

\* What is looked into the contents for, be it on behalf of "b".
Asked(a) == a = Answer \/ (Answer = "b" /\ AtOnce("b", text) = "basic" /\ a = "basic")

AnswerInv ==
    /\ pc \in {"extension", "modeline", "filename", "magic", "resolve", "lines", "line",
              "next", "done"}
    /\ pc \in {"resolve", "lines", "line", "next"} =>
         /\ language # NULL /\ Asked(language)
         /\ language = "in" => AnswerByExtension(name) = "in"
    /\ pc = "done" /\ text # <<>> =>
         /\ AnswerByExtension(name) # "in"
         /\ IF Answer \in Ambiguous
            THEN \E before \in BOOLEAN : language = Disambiguate(Answer, text, before)
            ELSE language = Resolved(Answer)

\* The lines that begin above a place.
Above(t, n) == {k \in LineStarts(t) : k < n}

\* What is kept is what the lines that begin at the places A say, and it is not
\* enough to answer, even if no letter in front of a line hides a word.
Kept(A) ==
    /\ scores = TotalOf(language, text, beside, A)
    /\ flags = FlagsOf(language, text, A)
    /\ AnswersOf(language, text, A, TRUE) = {}

ReadingInv ==
    pc \in {"lines", "line", "next"} =>
      /\ language \in ReadByLines /\ ~(language = "h" /\ Accompanied)
      /\ pc = "lines" =>
           /\ p = pe /\ p \in 1 .. Len(text) + 1
           /\ p <= Len(text) => p \in LineStarts(text)
           /\ Kept(Above(text, p))
      /\ pc = "line" =>
           /\ p \in LineStarts(text) /\ line = Taken(language, text, p)
           /\ line_end = p + Len(LineAt(text, p))
           /\ Kept(Above(text, p))
      /\ pc = "next" =>
           \E n \in LineStarts(text) :
             /\ line_end = n + Len(LineAt(text, n))
             /\ Kept(Above(text, n) \cup {n})

DetectorInv == NameInv /\ SilentInv /\ AnswerInv /\ ReadingInv

LEMMA NullIsNone == NULL \notin Ambiguous /\ NULL # "in" /\ BINARY \notin Ambiguous
  BY DetectorAssumption DEF Ambiguous

LEMMA DetectorInit == Init => DetectorInv
<1>. SUFFICES ASSUME Init PROVE DetectorInv
  OBVIOUS
<1>g. PICK group \in Files :
        \E n \in group.names, t \in group.texts, others \in group.besides :
          file = [name |-> n, text |-> t, beside |-> others]
  BY DEF Init
<1>1. PICK n \in group.names, t \in group.texts, others \in group.besides :
        file = [name |-> n, text |-> t, beside |-> others]
  BY <1>g
<1>2. n \in Seq(STRING) \ {<<>>} /\ t \in Texts
  <2>1. t \in Seq(STRING \ {"end"})
    BY <1>1, DetectorAssumption
  <2>2. STRING \ {"end"} \subseteq Symbols
    BY DEF Symbols
  <2>3. t \in Texts
    BY <2>1, <2>2, SeqMonotonic DEF Texts
  <2>. QED
    BY <1>1, <2>3, DetectorAssumption
<1>3. Len(n) \in Nat \ {0} /\ SubSeq(n, 1, Len(n)) = n
  BY <1>2, EmptySeq, SubSeqFull
<1>4. file.name = n /\ text = t /\ name = n /\ pc = "extension"
  BY <1>1 DEF Init, text
<1>. QED
  BY <1>2, <1>3, <1>4 DEF DetectorInv, NameInv, SilentInv, AnswerInv, ReadingInv

\* Taking the last part of a name away that is "in".
LEMMA Shorter ==
  ASSUME NameInv, AnswerByExtension(name) = "in", file' = file, name' = Front(name)
  PROVE  NameInv'
<1>. DEFINE f == file.name
            L == Len(name)
<1>1. f \in Seq(STRING) \ {<<>>} /\ L \in 1 .. Len(f) /\ name = SubSeq(f, 1, L) /\ Len(f) \in Nat
  BY LenProperties DEF NameInv
<1>2. /\ name \in Seq(STRING)
      /\ \A i \in 1 .. L : name[i] = f[i]
  <2>1. \A i \in 1 .. L : f[i] \in STRING
    BY <1>1, ElementOfSeq
  <2>. HIDE DEF f, L
  <2>2. /\ SubSeq(f, 1, L) \in Seq(STRING)
        /\ \A i \in 1 .. L - 1 + 1 : SubSeq(f, 1, L)[i] = f[1 + i - 1]
    BY <1>1, <2>1, SubSeqProperties
  <2>. QED
    BY <1>1, <2>2
<1>3. L > 1 /\ Lower[name[L]] = "in"
  <2>1. name # <<>>
    BY <1>1, EmptySeq
  <2>. QED
    BY <1>2, <2>1, ExtensionIn
<1>4. name' = SubSeq(f, 1, L - 1) /\ Len(name') = L - 1
  <2>1. name' = SubSeq(SubSeq(f, 1, L), 1, L - 1)
    BY <1>1 DEF Front
  <2>2. SubSeq(SubSeq(f, 1, L), 1, L - 1) = SubSeq(f, 1, L - 1)
    <3>1. /\ 1 \in 1 .. Len(f) /\ L \in 1 .. Len(f) /\ 1 \in 1 .. L - 1 + 1
          /\ L - 1 \in 1 .. L - 1 + 1 /\ 1 + 1 - 1 = 1 /\ 1 + (L - 1) - 1 = L - 1
      BY <1>1, <1>3
    <3>. HIDE DEF f, L
    <3>. QED
      BY <1>1, <3>1, SubSeqOfSubSeq
  <2>3. Len(SubSeq(f, 1, L - 1)) = L - 1
    BY <1>1, <1>3
  <2>. QED
    BY <2>1, <2>2, <2>3
<1>5. ASSUME NEW k \in L .. Len(f) PROVE Lower[f[k]] = "in"
  <2>1. CASE k = L
    BY <1>1, <1>2, <1>3, <2>1
  <2>2. CASE k # L
    <3>1. k \in L + 1 .. Len(f)
      BY <1>1, <2>2
    <3>. QED
      BY <3>1 DEF NameInv
  <2>. QED
    BY <2>1, <2>2
<1>6. file'.name = f /\ text' = text
  BY DEF text
<1>7. L - 1 \in 1 .. Len(f) /\ (L - 1) + 1 = L
  BY <1>1, <1>3
<1>8. text' \in Texts
  BY <1>6 DEF NameInv
<1>. HIDE DEF L
<1>. QED
  BY <1>1, <1>4, <1>5, <1>6, <1>7, <1>8 DEF NameInv

LEMMA NameStays ==
  ASSUME NameInv, UNCHANGED <<file, name>>
  PROVE  NameInv'
  BY DEF NameInv, text

\* The answers of the stages but libmagic's are about the file and the name.
LEMMA AnswersStay ==
  ASSUME UNCHANGED <<file, name>>
  PROVE  /\ text' = text /\ beside' = beside
         /\ AnswerByExtension(name)' = AnswerByExtension(name)
         /\ AnswerByModeLine' = AnswerByModeLine
         /\ Get(ByFilename, name)' = Get(ByFilename, name)
         /\ Accompanied' = Accompanied
         /\ \A which, t, b : ByLines(which, t, b)' = ByLines(which, t, b)
         /\ \A which, t, b : Disambiguate(which, t, b)' = Disambiguate(which, t, b)
<1>1. text' = text /\ beside' = beside
  BY DEF text, beside
<1>2. ModeLine' = ModeLine
  BY <1>1 DEF ModeLine
<1>3. AnswerByModeLine' = AnswerByModeLine
  <2>. DEFINE I(row) == {i \in 1 .. Len(row) : row[i] \in DOMAIN ModeOf}
              A(row) == LET at == IF I(row) # {} THEN Min(I(row)) ELSE 0
                         IN  IF at = 0 THEN NULL ELSE LookUpMode(ModeOf[row[at]])
  <2>1. AnswerByModeLine = A(ModeLine)
    BY DEF AnswerByModeLine, SelectInSeq
  <2>2. AnswerByModeLine' = A(ModeLine')
    BY DEF AnswerByModeLine, SelectInSeq
  <2>. QED
    BY <1>2, <2>1, <2>2
<1>4. AnswerByExtension(name)' = AnswerByExtension(name)
  BY DEF AnswerByExtension, Ext, Last
<1>5. Get(ByFilename, name)' = Get(ByFilename, name)
  OBVIOUS
<1>6. Accompanied' = Accompanied
  BY <1>1 DEF Accompanied, Ext, Last, Title
<1>7. \A which, t, A : ScoresOf(which, t, A)' = ScoresOf(which, t, A)
  <2>1. \A which, t, A : ScoresOf(which, t, A) = TotalOf(which, t, beside, A)
    BY ScoresAre
  <2>2. (\A which, t, A : ScoresOf(which, t, A) = TotalOf(which, t, beside, A))'
    BY ScoresAre, PTL
  <2>. QED
    BY <1>1, <2>1, <2>2
<1>8. \A which, t, b : ByLines(which, t, b)' = ByLines(which, t, b)
  BY <1>1, <1>6, <1>7 DEF ByLines
<1>9. \A which, t, b : Disambiguate(which, t, b)' = Disambiguate(which, t, b)
  BY <1>8 DEF Disambiguate
<1>. QED
  BY <1>1, <1>3, <1>4, <1>5, <1>6, <1>7, <1>8, <1>9

\* Of the disambiguators that look at the contents as a whole only that of "b" goes
\* on as another, which reads lines.
LEMMA AtOnceReads ==
  ASSUME NEW which \in Ambiguous \ ({"in"} \cup ReadByLines), NEW t,
         AtOnce(which, t) \in ReadByLines
  PROVE  which = "b" /\ AtOnce(which, t) = "basic"
<1>. USE NullIsNone DEF AtOnce, ReadByLines, Ambiguous
<1>1. which # "aspx"
  BY DEF disambiguate_aspx
<1>2. which # "asx"
  BY DEF disambiguate_asx
<1>3. which # "cs"
  BY DEF disambiguate_cs
<1>4. which # "dat"
  BY DEF disambiguate_dat
<1>5. which # "def"
  BY DEF disambiguate_def
<1>6. which # "inc"
  BY DEF disambiguate_inc
<1>7. which # "mod"
  BY DEF disambiguate_mod
<1>8. which # "pl"
  BY DEF disambiguate_pl
<1>9. which # "pp"
  BY DEF disambiguate_pp
<1>10. which # "pro"
  BY DEF disambiguate_pro
<1>11. which # "r"
  BY DEF disambiguate_r
<1>12. which # "rs"
  BY DEF disambiguate_rs
<1>13. which = "b"
  BY <1>1, <1>2, <1>3, <1>4, <1>5, <1>6, <1>7, <1>8, <1>9, <1>10, <1>11, <1>12
<1>. QED
  BY <1>13

\* The lines are read on behalf of the answer.
LEMMA AskedAnswer ==
  ASSUME Asked(language), language \in ReadByLines
  PROVE  /\ Answer \in Ambiguous /\ AnswerByExtension(name) # "in"
         /\ \A b : Disambiguate(Answer, text, b) = ByLines(language, text, b)
<1>1. AnswerByExtension(name) = "in" => Answer = "in"
  BY NullIsNone DEF Answer, FoundOr
<1>2. Answer # "in" /\ Answer \in Ambiguous
  BY DEF Asked, ReadByLines, Ambiguous
<1>3. "b" \notin ReadByLines /\ "basic" \in ReadByLines
  BY DEF ReadByLines
<1>4. CASE language = Answer
  BY <1>1, <1>2, <1>4 DEF Disambiguate
<1>5. CASE Answer = "b" /\ AtOnce("b", text) = "basic" /\ language = "basic"
  BY <1>1, <1>2, <1>3, <1>5 DEF Disambiguate
<1>. QED
  BY <1>4, <1>5 DEF Asked

\* The lines have an answer.
LEMMA DoneStep ==
  ASSUME DetectorInv, UNCHANGED <<file, magic, name>>, Asked(language),
         language \in ReadByLines, pc' = "done",
         NEW b \in BOOLEAN, ByLines(language, text, b) = language'
  PROVE  DetectorInv'
<1>1. /\ Answer \in Ambiguous /\ AnswerByExtension(name) # "in"
      /\ \A c : Disambiguate(Answer, text, c) = ByLines(language, text, c)
  BY AskedAnswer
<1>2. Answer' = Answer
  BY AnswersStay DEF Answer
<1>3. language' = Disambiguate(Answer, text, b)
  BY <1>1
<1>4. AnswerInv'
  BY <1>1, <1>2, <1>3, AnswersStay DEF AnswerInv
<1>5. NameInv'
  BY NameStays DEF DetectorInv
<1>. QED
  BY <1>4, <1>5 DEF DetectorInv, SilentInv, ReadingInv

\* The lines go on.
LEMMA OnStep ==
  ASSUME DetectorInv, UNCHANGED <<file, magic, name, language>>,
         pc \in {"resolve", "lines", "line", "next"}, language \in ReadByLines,
         ~(language = "h" /\ Accompanied), pc' \in {"lines", "line", "next"}
  PROVE  /\ NameInv' /\ SilentInv' /\ AnswerInv'
         /\ (language \in ReadByLines /\ ~(language = "h" /\ Accompanied))'
         /\ text \in Texts /\ text' = text /\ beside' = beside
<1>1. NameInv' /\ text \in Texts
  BY NameStays DEF DetectorInv, NameInv
<1>2. Answer' = Answer
  BY AnswersStay DEF Answer
<1>3. Asked(language) /\ language # NULL /\ language # "in"
  BY DEF DetectorInv, AnswerInv, ReadByLines
<1>4. AnswerInv'
  BY <1>2, <1>3, AnswersStay DEF AnswerInv, Asked
<1>. QED
  BY <1>1, <1>4, AnswersStay DEF SilentInv

LEMMA BeginStep ==
  ASSUME DetectorInv, BeginLines
  PROVE  DetectorInv'
<1>1. /\ pc = "resolve" /\ language \in ReadByLines /\ ~(language = "h" /\ Accompanied)
      /\ p' = 1 /\ pe' = 1 /\ scores' = FirstScores(language, beside) /\ flags' = {}
      /\ pc' = "lines" /\ UNCHANGED <<file, magic, name, language>>
  BY DEF BeginLines
<1>2. /\ NameInv' /\ SilentInv' /\ AnswerInv'
      /\ (language \in ReadByLines /\ ~(language = "h" /\ Accompanied))'
      /\ text \in Texts /\ text' = text /\ beside' = beside
  BY <1>1, OnStep
<1>3. Len(text) \in Nat /\ DOMAIN text = 1 .. Len(text)
  BY <1>2, TextAt
<1>4. Above(text, 1) = {}
  <2>1. \A n \in LineStarts(text) : n \in 1 .. Len(text)
    BY <1>2, LineStartsOf
  <2>. QED
    BY <1>3, <2>1 DEF Above
<1>5. 1 <= Len(text) => 1 \in LineStarts(text)
  BY <1>3 DEF LineStarts
<1>6. TotalOf(language, text, beside, {}) = FirstScores(language, beside)
  BY <1>2, TotalOfNone
<1>7. FlagsOf(language, text, {}) = {} /\ AnswersOf(language, text, {}, TRUE) = {}
  BY DEF FlagsOf, AnswersOf
<1>8. Kept(Above(text, p))'
  BY <1>1, <1>2, <1>4, <1>6, <1>7 DEF Kept
<1>9. ReadingInv'
  BY <1>1, <1>2, <1>3, <1>5, <1>8 DEF ReadingInv
<1>. QED
  BY <1>2, <1>9 DEF DetectorInv

LEMMA TakeStep ==
  ASSUME DetectorInv, TakeLine
  PROVE  DetectorInv'
<1>1. /\ pc = "lines" /\ pe <= Len(text) /\ line' = Taken(language, text, p)
      /\ line_end' = pe + Len(LineAt(text, pe)) /\ pc' = "line"
      /\ UNCHANGED <<file, magic, name, language, p, scores, flags>>
  BY DEF TakeLine
<1>2. /\ language \in ReadByLines /\ ~(language = "h" /\ Accompanied)
      /\ p = pe /\ p \in LineStarts(text) /\ Kept(Above(text, p))
  BY <1>1 DEF DetectorInv, ReadingInv
<1>3. /\ NameInv' /\ SilentInv' /\ AnswerInv'
      /\ (language \in ReadByLines /\ ~(language = "h" /\ Accompanied))'
      /\ text \in Texts /\ text' = text /\ beside' = beside
  BY <1>1, <1>2, OnStep
<1>4. Kept(Above(text, p))'
  BY <1>1, <1>2, <1>3 DEF Kept
<1>5. ReadingInv'
  BY <1>1, <1>2, <1>3, <1>4 DEF ReadingInv
<1>. QED
  BY <1>3, <1>5 DEF DetectorInv

LEMMA LookStep ==
  ASSUME DetectorInv, LookAtLine
  PROVE  DetectorInv'
<1>1. /\ pc = "line" /\ UNCHANGED <<file, magic, name, line_end, line>>
      /\ scores' = [s \in DOMAIN scores |-> scores[s] + Points(s, line)]
      /\ flags' = flags \cup Flags(language, line)
  BY DEF LookAtLine
<1>2. PICK b \in BOOLEAN :
        LET answer == AfterLine(language, line, flags', b)
        IN  IF answer = NULL THEN pc' = "next" /\ UNCHANGED language
            ELSE pc' = "done" /\ language' = answer
  BY DEF LookAtLine
<1>3. /\ language \in ReadByLines /\ ~(language = "h" /\ Accompanied)
      /\ p \in LineStarts(text) /\ line = Taken(language, text, p)
      /\ line_end = p + Len(LineAt(text, p)) /\ Kept(Above(text, p)) /\ Asked(language)
  BY <1>1 DEF DetectorInv, ReadingInv, AnswerInv
<1>4. PICK n, A : n = p /\ A = Above(text, p)
  OBVIOUS
<1>5. text \in Texts /\ n \in LineStarts(text) /\ n \in Int
  BY <1>3, <1>4, LineStartsOf DEF DetectorInv, NameInv
<1>6. A \in SUBSET LineStarts(text) /\ n \notin A
  BY <1>4, <1>5 DEF Above
<1>7. flags' = FlagsOf(language, text, A \cup {n})
  <2>1. FlagsOf(language, text, A \cup {n})
          = FlagsOf(language, text, A) \cup Flags(language, Taken(language, text, n))
    BY DEF FlagsOf
  <2>. QED
    BY <1>1, <1>3, <1>4, <2>1 DEF Kept
<1>8. CASE AfterLine(language, line, flags', b) # NULL
  <2>1. pc' = "done" /\ language' = AfterLine(language, line, flags', b)
    BY <1>2, <1>8
  <2>2. ByLines(language, text, b) = language'
    <3>1. PICK which, t, a : /\ which = language /\ t = text
                             /\ a = AfterLine(which, Taken(which, t, n),
                                              FlagsOf(which, t, A \cup {n}), b)
      OBVIOUS
    <3>2. a = language' /\ a # NULL
      BY <1>3, <1>4, <1>7, <1>8, <2>1, <3>1
    <3>3. /\ A \in SUBSET LineStarts(t) /\ n \in LineStarts(t)
          /\ ~(which = "h" /\ Accompanied)
      BY <1>3, <1>5, <1>6, <3>1
    <3>4. ByLines(which, t, b) = a
      <4>1. A \in SUBSET LineStarts(t)
        BY <3>3
      <4>2. n \in LineStarts(t)
        BY <3>3
      <4>3. ~(which = "h" /\ Accompanied)
        BY <3>3
      <4>4. a = AfterLine(which, Taken(which, t, n), FlagsOf(which, t, A \cup {n}), b)
        BY <3>1
      <4>5. a # NULL
        BY <3>2
      <4>. QED
        BY <4>1, <4>2, <4>3, <4>4, <4>5, EarlyAnswer
    <3>. QED
      BY <3>1, <3>2, <3>4
  <2>. QED
    BY <1>1, <1>3, <2>1, <2>2, DoneStep
<1>9. CASE AfterLine(language, line, flags', b) = NULL
  <2>1. pc' = "next" /\ language' = language
    BY <1>2, <1>9
  <2>2. /\ NameInv' /\ SilentInv' /\ AnswerInv'
        /\ (language \in ReadByLines /\ ~(language = "h" /\ Accompanied))'
        /\ text \in Texts /\ text' = text /\ beside' = beside
    BY <1>1, <1>3, <2>1, OnStep
  <2>3. scores' = TotalOf(language, text, beside, A \cup {n})
    <3>1. scores = TotalOf(language, text, beside, A)
      BY <1>3, <1>4 DEF Kept
    <3>2. TotalOf(language, text, beside, A \cup {n})
            = [s \in DOMAIN scores |-> scores[s] + Points(s, Taken(language, text, n))]
      BY <1>5, <1>6, <3>1, TotalOfNext
    <3>. QED
      BY <1>1, <1>3, <1>4, <3>2
  <2>4. AnswersOf(language, text, A \cup {n}, TRUE) = {}
    <3>1. AnswersOf(language, text, A, TRUE) = {}
      BY <1>3, <1>4 DEF Kept
    <3>2. AfterLine(language, Taken(language, text, n),
                    FlagsOf(language, text, A \cup {n}), b) = NULL
      BY <1>3, <1>4, <1>7, <1>9
    <3>. QED
      BY <3>1, <3>2, SilentNext
  <2>5. Kept(A \cup {n})'
    BY <1>7, <2>1, <2>2, <2>3, <2>4 DEF Kept
  <2>6. (\E m \in LineStarts(text) :
           line_end = m + Len(LineAt(text, m)) /\ Kept(Above(text, m) \cup {m}))'
    <3>1. n \in LineStarts(text)' /\ line_end' = n + Len(LineAt(text', n))
          /\ A = Above(text', n)
      BY <1>1, <1>3, <1>4, <2>2
    <3>. QED
      BY <2>5, <3>1
  <2>7. ReadingInv'
    BY <2>1, <2>2, <2>6 DEF ReadingInv
  <2>. QED
    BY <2>2, <2>7 DEF DetectorInv
<1>. QED
  BY <1>8, <1>9

LEMMA NextLineStep ==
  ASSUME DetectorInv, NextLine
  PROVE  DetectorInv'
<1>1. /\ pc = "next" /\ pe' = Skip(text, line_end, {"nl"}) /\ p' = pe' /\ pc' = "lines"
      /\ UNCHANGED <<file, magic, name, language, scores, flags>>
  BY DEF NextLine
<1>2. language \in ReadByLines /\ ~(language = "h" /\ Accompanied)
  BY <1>1 DEF DetectorInv, ReadingInv
<1>3. PICK n \in LineStarts(text) :
        line_end = n + Len(LineAt(text, n)) /\ Kept(Above(text, n) \cup {n})
  BY <1>1 DEF DetectorInv, ReadingInv
<1>4. /\ NameInv' /\ SilentInv' /\ AnswerInv'
      /\ (language \in ReadByLines /\ ~(language = "h" /\ Accompanied))'
      /\ text \in Texts /\ text' = text /\ beside' = beside
  BY <1>1, <1>2, OnStep
<1>5. /\ p' \in 1 .. Len(text) + 1
      /\ n < p'
      /\ p' <= Len(text) => p' \in LineStarts(text)
      /\ {m \in LineStarts(text) : m < p'} = {m \in LineStarts(text) : m < n} \cup {n}
  <2>1. PICK t, e, k : t = text /\ e = line_end /\ k = p'
    OBVIOUS
  <2>2. t \in Texts /\ n \in LineStarts(t) /\ e = n + Len(LineAt(t, n)) /\ k = Skip(t, e, {"nl"})
    BY <1>1, <1>3, <1>4, <2>1
  <2>3. /\ k \in 1 .. Len(t) + 1 /\ n < k
        /\ k <= Len(t) => k \in LineStarts(t)
        /\ {m \in LineStarts(t) : m < k} = {m \in LineStarts(t) : m < n} \cup {n}
    BY <2>2, NextStart
  <2>. QED
    BY <2>1, <2>3
<1>6. Above(text', p') = Above(text, n) \cup {n}
  BY <1>4, <1>5 DEF Above
<1>7. Kept(Above(text, p))'
  BY <1>1, <1>3, <1>4, <1>6 DEF Kept
<1>8. ReadingInv'
  BY <1>1, <1>4, <1>5, <1>7 DEF ReadingInv
<1>. QED
  BY <1>4, <1>8 DEF DetectorInv

LEMMA EndStep ==
  ASSUME DetectorInv, EndLines
  PROVE  DetectorInv'
<1>1. /\ pc = "lines" /\ pe > Len(text) /\ pc' = "done"
      /\ language' = AfterLines(language, scores, flags, beside)
      /\ UNCHANGED <<file, magic, name>>
  BY DEF EndLines
<1>2. /\ language \in ReadByLines /\ ~(language = "h" /\ Accompanied)
      /\ p = pe /\ p \in 1 .. Len(text) + 1 /\ Kept(Above(text, p)) /\ Asked(language)
      /\ text \in Texts
  BY <1>1 DEF DetectorInv, ReadingInv, AnswerInv, NameInv
<1>3. Above(text, p) = LineStarts(text)
  <2>1. \A n \in LineStarts(text) : n \in 1 .. Len(text)
    BY <1>2, LineStartsOf
  <2>2. Len(text) \in Nat
    BY <1>2, TextAt
  <2>. QED
    BY <1>1, <1>2, <2>1, <2>2 DEF Above
<1>4. /\ scores = ScoresOf(language, text, LineStarts(text))
      /\ flags = FlagsOf(language, text, LineStarts(text))
      /\ AnswersOf(language, text, LineStarts(text), TRUE) = {}
  BY <1>2, <1>3, ScoresAre DEF Kept
<1>5. ByLines(language, text, TRUE) = language'
  BY <1>1, <1>2, <1>4 DEF ByLines
<1>. QED
  BY <1>1, <1>2, <1>5, DoneStep

LEMMA DetectorStep == DetectorInv /\ [Next]_vars => DetectorInv'
<1>. SUFFICES ASSUME DetectorInv, [Next]_vars PROVE DetectorInv'
  OBVIOUS
<1>. USE NullIsNone
<1>0. text \in Texts
  BY DEF DetectorInv, NameInv
<1>m. AnswerByModeLine # "in"
  BY <1>0, ModeLineNeverIn
<1>f. Get(ByFilename, name) # "in"
  BY DetectorAssumption DEF Get, Ambiguous
<1>1. CASE DetectByExtension
  <2>1. UNCHANGED <<file, name, magic>> /\ pc = "extension"
    BY <1>1 DEF DetectByExtension, Stage
  <2>2. NameInv'
    BY <2>1, NameStays DEF DetectorInv
  <2>3. /\ language' = AnswerByExtension(name)
        /\ pc' = IF AnswerByExtension(name) = NULL THEN "modeline" ELSE "resolve"
    BY <1>1 DEF DetectByExtension, Stage
  <2>4. SilentInv'
    BY <2>1, <2>3, AnswersStay DEF SilentInv
  <2>5. AnswerInv'
    BY <2>1, <2>3, AnswersStay DEF AnswerInv, Asked, Answer, FoundOr
  <2>r. ReadingInv'
    BY <2>3 DEF ReadingInv
  <2>. QED
    BY <2>2, <2>4, <2>5, <2>r DEF DetectorInv
<1>2. CASE DetectByModeLine
  <2>1. UNCHANGED <<file, name, magic>> /\ pc = "modeline"
    BY <1>2 DEF DetectByModeLine, Stage
  <2>2. NameInv'
    BY <2>1, NameStays DEF DetectorInv
  <2>3. /\ language' = AnswerByModeLine
        /\ pc' = IF AnswerByModeLine = NULL THEN "filename" ELSE "resolve"
    BY <1>2 DEF DetectByModeLine, Stage
  <2>4. AnswerByExtension(name) = NULL
    BY <2>1 DEF DetectorInv, SilentInv
  <2>5. SilentInv'
    BY <2>1, <2>3, <2>4, AnswersStay DEF SilentInv
  <2>6. AnswerInv'
    BY <1>m, <2>1, <2>3, <2>4, AnswersStay DEF AnswerInv, Asked, Answer, FoundOr
  <2>r. ReadingInv'
    BY <2>3 DEF ReadingInv
  <2>. QED
    BY <2>2, <2>5, <2>6, <2>r DEF DetectorInv
<1>3. CASE DetectByFilename
  <2>1. UNCHANGED <<file, name, magic>> /\ pc = "filename"
    BY <1>3 DEF DetectByFilename, Stage
  <2>2. NameInv'
    BY <2>1, NameStays DEF DetectorInv
  <2>3. /\ language' = Get(ByFilename, name)
        /\ pc' = IF Get(ByFilename, name) = NULL THEN "magic" ELSE "resolve"
    BY <1>3 DEF DetectByFilename, Stage
  <2>4. AnswerByExtension(name) = NULL /\ AnswerByModeLine = NULL
    BY <2>1 DEF DetectorInv, SilentInv
  <2>5. SilentInv'
    BY <2>1, <2>3, <2>4, AnswersStay DEF SilentInv
  <2>6. AnswerInv'
    BY <1>f, <2>1, <2>3, <2>4, AnswersStay DEF AnswerInv, Asked, Answer, FoundOr
  <2>r. ReadingInv'
    BY <2>3 DEF ReadingInv
  <2>. QED
    BY <2>2, <2>5, <2>6, <2>r DEF DetectorInv
<1>4. CASE DetectByMagic
  <2>. DEFINE said == IF text = <<>> THEN NULL ELSE MagicParse(magic')
  <2>1. UNCHANGED <<file, name>> /\ pc = "magic"
    BY <1>4 DEF DetectByMagic, Stage
  <2>2. NameInv'
    BY <2>1, NameStays DEF DetectorInv
  <2>3. language' = said /\ pc' = IF said = NULL THEN "done" ELSE "resolve"
    BY <1>4 DEF DetectByMagic, Stage
  <2>4. /\ AnswerByExtension(name) = NULL /\ AnswerByModeLine = NULL
        /\ Get(ByFilename, name) = NULL
    BY <2>1 DEF DetectorInv, SilentInv
  <2>5. SilentInv'
    BY <2>3 DEF SilentInv
  <2>6. Answer' = MagicParse(magic')
    BY <2>1, <2>4, AnswersStay DEF Answer, FoundOr
  <2>7. said # "in"
    BY MagicNeverIn
  <2>8. Resolved(NULL) = NULL
    BY DEF Resolved
  <2>9. AnswerInv'
    BY <2>1, <2>3, <2>4, <2>6, <2>7, <2>8, AnswersStay DEF AnswerInv, Asked
  <2>r. ReadingInv'
    BY <2>3 DEF ReadingInv
  <2>. QED
    BY <2>2, <2>5, <2>9, <2>r DEF DetectorInv
<1>5. CASE Undecorate
  <2>1. /\ file' = file /\ pc = "resolve" /\ language = "in"
        /\ text = <<>> => pc' = "done" /\ name' = name
        /\ text # <<>> => pc' = "extension" /\ name' = Front(name)
    BY <1>5 DEF Undecorate
  <2>2. AnswerByExtension(name) = "in"
    BY <2>1 DEF DetectorInv, AnswerInv
  <2>3. NameInv'
    BY <2>1, <2>2, Shorter, NameStays DEF DetectorInv
  <2>4. text' = text
    BY <2>1 DEF text
  <2>. QED
    BY <2>1, <2>3, <2>4 DEF DetectorInv, SilentInv, AnswerInv, ReadingInv
<1>6. CASE Resolve
  <2>1. /\ UNCHANGED <<file, magic, name>> /\ pc = "resolve"
        /\ language \notin {"in"} \cup ReadByLines
        /\ language' = IF language \in Ambiguous THEN AtOnce(language, text)
                       ELSE Resolved(language)
        /\ pc' = IF language' = "basic" THEN "resolve" ELSE "done"
    BY <1>6 DEF Resolve
  <2>2. NameInv'
    BY <2>1, NameStays DEF DetectorInv
  <2>3. language = Answer
    BY <2>1 DEF DetectorInv, AnswerInv, Asked, ReadByLines
  <2>4. AnswerByExtension(name) # "in"
    BY <2>1, <2>3 DEF Answer, FoundOr
  <2>5. text' = text /\ Answer' = Answer
    BY <2>1, AnswersStay DEF Answer
  <2>6. CASE language' = "basic"
    <3>1. language \in Ambiguous
      BY <2>1, <2>6 DEF Resolved, Ambiguous
    <3>2. Answer = "b" /\ AtOnce("b", text) = "basic"
      <4>1. PICK which, t : which = language /\ t = text
        OBVIOUS
      <4>2. which \in Ambiguous \ ({"in"} \cup ReadByLines)
        BY <2>1, <3>1, <4>1
      <4>3. AtOnce(which, t) = "basic" /\ "basic" \in ReadByLines
        BY <2>1, <2>6, <3>1, <4>1 DEF ReadByLines
      <4>4. which = "b" /\ AtOnce(which, t) = "basic"
        BY <4>2, <4>3, AtOnceReads
      <4>. QED
        BY <2>3, <4>1, <4>4
    <3>3. Asked(language)' /\ language' # NULL /\ language' # "in" /\ pc' = "resolve"
      BY <2>1, <2>5, <2>6, <3>2 DEF Asked, Ambiguous
    <3>4. AnswerInv'
      BY <3>3 DEF AnswerInv
    <3>. QED
      BY <2>2, <3>3, <3>4 DEF DetectorInv, SilentInv, ReadingInv
  <2>7. CASE language' # "basic"
    <3>1. IF Answer \in Ambiguous
          THEN \A b : Disambiguate(Answer, text, b) = language'
          ELSE language' = Resolved(Answer)
      <4>1. CASE Answer \in Ambiguous
        <5>1. AtOnce(Answer, text) \notin ReadByLines
          BY <2>1, <2>3, <2>7, <4>1, AtOnceReads
        <5>. QED
          BY <2>1, <2>3, <4>1, <5>1 DEF Disambiguate
      <4>2. CASE Answer \notin Ambiguous
        BY <2>1, <2>3, <4>2
      <4>. QED
        BY <4>1, <4>2
    <3>2. pc' = "done" /\ TRUE \in BOOLEAN
      BY <2>1, <2>7
    <3>3. AnswerInv'
      BY <2>1, <2>4, <2>5, <3>1, <3>2, AnswersStay DEF AnswerInv
    <3>. QED
      BY <2>2, <3>2, <3>3 DEF DetectorInv, SilentInv, ReadingInv
  <2>. QED
    BY <2>6, <2>7
<1>7. CASE ResolveHeader
  <2>1. /\ UNCHANGED <<file, magic, name>> /\ pc = "resolve" /\ language = "h" /\ Accompanied
        /\ language' = "objective_c" /\ pc' = "done"
    BY <1>7 DEF ResolveHeader
  <2>2. Asked(language) /\ language \in ReadByLines
    BY <2>1 DEF DetectorInv, AnswerInv, ReadByLines
  <2>3. ByLines(language, text, TRUE) = language'
    BY <2>1 DEF ByLines
  <2>. QED
    BY <2>1, <2>2, <2>3, DoneStep
<1>8. CASE BeginLines
  BY <1>8, BeginStep
<1>9. CASE TakeLine
  BY <1>9, TakeStep
<1>10. CASE LookAtLine
  BY <1>10, LookStep
<1>11. CASE NextLine
  BY <1>11, NextLineStep
<1>12. CASE EndLines
  BY <1>12, EndStep
<1>13. CASE UNCHANGED vars
  <2>1. UNCHANGED <<file, magic, name, language, pc, p, pe, line_end, line, scores, flags>>
    BY <1>13 DEF vars
  <2>2. NameInv'
    BY <2>1, NameStays DEF DetectorInv
  <2>3. SilentInv'
    BY <2>1, AnswersStay DEF DetectorInv, SilentInv
  <2>4. Answer' = Answer
    BY <2>1, AnswersStay DEF Answer
  <2>6. AnswerInv'
    BY <2>1, <2>4, AnswersStay DEF DetectorInv, AnswerInv, Asked
  <2>7. ReadingInv'
    BY <2>1, AnswersStay DEF DetectorInv, ReadingInv, Kept
  <2>. QED
    BY <2>2, <2>3, <2>6, <2>7 DEF DetectorInv
<1>. QED
  BY <1>1, <1>2, <1>3, <1>4, <1>5, <1>6, <1>7, <1>8, <1>9, <1>10, <1>11, <1>12, <1>13 DEF Next

LEMMA DetectorInvAlways == Spec => []DetectorInv
  BY DetectorInit, DetectorStep, PTL DEF Spec

\* The name that is left when no stage says "in" any more.
LEMMA NameIsStem ==
  ASSUME NameInv, AnswerByExtension(name) # "in"
  PROVE  name = Stem
<1>. DEFINE f == file.name
            L == Len(name)
            stays(k) == k = 1 \/ Lower[f[k]] # "in"
            Q(k) == stays(k) /\ \A after \in k + 1 .. Len(f) : ~stays(after)
<1>1. f \in Seq(STRING) \ {<<>>} /\ L \in 1 .. Len(f) /\ name = SubSeq(f, 1, L) /\ Len(f) \in Nat
  BY LenProperties DEF NameInv
<1>2. /\ name \in Seq(STRING) \ {<<>>}
      /\ \A i \in 1 .. L : name[i] = f[i]
  <2>1. \A i \in 1 .. L : f[i] \in STRING
    BY <1>1, ElementOfSeq
  <2>. HIDE DEF f
  <2>2. /\ SubSeq(f, 1, L) \in Seq(STRING)
        /\ \A i \in 1 .. L - 1 + 1 : SubSeq(f, 1, L)[i] = f[1 + i - 1]
    <3>. HIDE DEF L
    <3>. QED
      BY <1>1, <2>1, SubSeqProperties
  <2>3. name # <<>>
    BY <1>1, EmptySeq
  <2>. QED
    BY <1>1, <2>2, <2>3
<1>3. L = 1 \/ Lower[f[L]] # "in"
  <2>1. Len(name) = 1 \/ Lower[name[Len(name)]] # "in"
    BY <1>2, ExtensionIn
  <2>2. name[L] = f[L]
    BY <1>1, <1>2
  <2>. QED
    BY <2>1, <2>2
<1>4. Q(L)
  <2>1. \A after \in L + 1 .. Len(f) : Lower[f[after]] = "in" /\ after # 1
    BY <1>1 DEF NameInv
  <2>. QED
    BY <1>3, <2>1
<1>5. ASSUME NEW k \in 1 .. Len(f), Q(k) PROVE k = L
  <2>1. ~(k < L)
    <3>. SUFFICES ASSUME k < L PROVE FALSE
      OBVIOUS
    <3>1. L \in k + 1 .. Len(f)
      BY <1>1
    <3>. QED
      BY <1>4, <1>5, <3>1
  <2>2. ~(L < k)
    <3>. SUFFICES ASSUME L < k PROVE FALSE
      OBVIOUS
    <3>1. k \in L + 1 .. Len(f)
      BY <1>1
    <3>. QED
      BY <1>4, <1>5, <3>1
  <2>3. k \in Int /\ L \in Int
    BY <1>1
  <2>. HIDE DEF L
  <2>. QED
    BY <2>1, <2>2, <2>3
<1>6. DOMAIN f = 1 .. Len(f)
  BY <1>1, LenProperties
<1>7. (CHOOSE k \in DOMAIN f : Q(k)) = L
  <2>. HIDE DEF Q, L
  <2>. QED
    BY <1>1, <1>4, <1>5, <1>6
<1>8. Stem = SubSeq(f, 1, CHOOSE k \in DOMAIN f : Q(k))
  BY DEF Stem
<1>. QED
  BY <1>1, <1>7, <1>8

\* However many extensions "in" a file has, it is in the language the first stage
\* says that says anything of the same contents under the name without them.
THEOREM UndecoratedAlways == Spec => []UndecoratedAgrees
<1>1. DetectorInv => UndecoratedAgrees
  <2>. SUFFICES ASSUME DetectorInv, pc = "done", text # <<>> PROVE UndecoratedAgrees
    BY DEF UndecoratedAgrees
  <2>1. AnswerByExtension(name) # "in"
    BY DEF DetectorInv, AnswerInv
  <2>2. name = Stem
    BY <2>1, NameIsStem DEF DetectorInv
  <2>3. Answer = FoundOr(AnswerByExtension(Stem),
                 FoundOr(AnswerByModeLine,
                 FoundOr(Get(ByFilename, Stem), MagicParse(magic))))
    BY <2>2 DEF Answer
  <2>4. IF Answer \in Ambiguous
        THEN \E before \in BOOLEAN : language = Disambiguate(Answer, text, before)
        ELSE language = Resolved(Answer)
    BY DEF DetectorInv, AnswerInv
  <2>. QED
    BY <2>2, <2>3, <2>4 DEF UndecoratedAgrees
<1>. QED
  BY <1>1, DetectorInvAlways, PTL

\* However the disambiguators that read line by line go to and fro between the
\* contents and the copy of a line, what they keep is what the lines read say, each
\* of them once, and they answer as soon as these are enough.
THEOREM LinesSoFarAlways == Spec => []LinesSoFar
<1>1. DetectorInv => LinesSoFar
  <2>. SUFFICES ASSUME DetectorInv, pc = "lines" PROVE LinesSoFar
    BY DEF LinesSoFar
  <2>1. /\ p = pe /\ Kept(Above(text, p))
        /\ p <= Len(text) => p \in LineStarts(text)
    BY DEF DetectorInv, ReadingInv
  <2>2. ScoresOf(language, text, Above(text, p)) = TotalOf(language, text, beside, Above(text, p))
    BY ScoresAre
  <2>. QED
    BY <2>1, <2>2 DEF LinesSoFar, Kept, Above
<1>. QED
  BY <1>1, DetectorInvAlways, PTL

\* The same lines that are not empty, in any order.
Alike(t, u) ==
    \E k, f, g : /\ Counts(f, k, Filled(t)) /\ Counts(g, k, Filled(u))
                 /\ \A i \in 1 .. k : LineAt(u, g[i]) = LineAt(t, f[i])

LEMMA ConcatText ==
  ASSUME NEW t \in Texts, NEW u \in Texts
  PROVE  /\ t \o u \in Texts /\ Len(t \o u) = Len(t) + Len(u)
         /\ \A n \in 1 .. Len(t) : (t \o u)[n] = t[n]
         /\ \A n \in 1 .. Len(u) : (t \o u)[Len(t) + n] = u[n]
<1>1. /\ t \o u \in Texts /\ Len(t \o u) = Len(t) + Len(u)
      /\ \A i \in 1 .. Len(t) + Len(u) : (t \o u)[i] =
                  IF i <= Len(t) THEN t[i] ELSE u[i - Len(t)]
  BY ConcatProperties DEF Texts
<1>2. Len(t) \in Nat /\ Len(u) \in Nat
  BY TextAt
<1>3. ASSUME NEW n \in 1 .. Len(u) PROVE (t \o u)[Len(t) + n] = u[n]
  <2>1. /\ Len(t) + n \in 1 .. Len(t) + Len(u) /\ ~(Len(t) + n <= Len(t))
        /\ (Len(t) + n) - Len(t) = n
    BY <1>2
  <2>. QED
    BY <1>1, <2>1
<1>. QED
  BY <1>1, <1>2, <1>3

LEMMA NewLine == <<"nl">> \in Texts /\ Len(<<"nl">>) = 1 /\ <<"nl">>[1] = "nl"
<1>1. "nl" \in Symbols
  BY DEF Symbols
<1>2. <<"nl">> \in Texts
  BY <1>1 DEF Texts
<1>. QED
  BY <1>2

\* The symbols from n up to the end of the line at m are d places further in u.
Copied(t, n, m, u, d) ==
    /\ n + d \in 1 .. Len(u) + 1
    /\ \A k \in n .. m - 1 : k + d \in 1 .. Len(u) /\ u[k + d] = t[k]
    /\ m + d = Len(u) + 1 \/ (m + d \in 1 .. Len(u) /\ u[m + d] = "nl")

LEMMA SameLine ==
  ASSUME NEW t \in Texts, NEW n \in 1 .. Len(t) + 1, NEW m, EndOf(t, n, m),
         NEW u \in Texts, NEW d \in Int, Copied(t, n, m, u, d)
  PROVE  LineAt(u, n + d) = LineAt(t, n)
<1>. USE DEF Copied
<1>1. Len(t) \in Nat /\ Len(u) \in Nat /\ m \in n .. Len(t) + 1
  BY TextAt DEF EndOf
<1>2. EndOf(u, n + d, m + d)
  <2>1. ASSUME NEW j \in n + d .. m + d - 1 PROVE u[j] # "nl"
    <3>1. j - d \in n .. m - 1 /\ (j - d) + d = j
      BY <1>1
    <3>. QED
      BY <3>1 DEF EndOf
  <2>2. m + d \in n + d .. Len(u) + 1
    BY <1>1
  <2>. QED
    BY <2>1, <2>2 DEF EndOf
<1>3. /\ LineAt(t, n) \in Texts /\ Len(LineAt(t, n)) = m - n
      /\ \A k \in 1 .. m - n : LineAt(t, n)[k] = t[n + k - 1]
  BY LineAtIs
<1>4. /\ LineAt(u, n + d) \in Texts /\ Len(LineAt(u, n + d)) = (m + d) - (n + d)
      /\ \A k \in 1 .. (m + d) - (n + d) : LineAt(u, n + d)[k] = u[(n + d) + k - 1]
  BY <1>2, LineAtIs
<1>5. (m + d) - (n + d) = m - n
  BY <1>1
<1>6. ASSUME NEW k \in 1 .. m - n PROVE u[(n + d) + k - 1] = t[n + k - 1]
  <2>1. n + k - 1 \in n .. m - 1 /\ (n + k - 1) + d = (n + d) + k - 1
    BY <1>1
  <2>. QED
    BY <2>1
<1>7. \A k \in 1 .. m - n : LineAt(u, n + d)[k] = LineAt(t, n)[k]
  BY <1>3, <1>4, <1>5, <1>6
<1>. QED
  BY <1>3, <1>4, <1>5, <1>7, SameText

\* An end of a line more at the end.
LEMMA Trailing ==
  ASSUME NEW t \in Texts, t # <<>>, NEW u, u = t \o <<"nl">>
  PROVE  /\ u \in Texts /\ Len(u) = Len(t) + 1
         /\ \A n \in 1 .. Len(t) : u[n] = t[n]
         /\ u[Len(t) + 1] = "nl"
         /\ LineStarts(u) = LineStarts(t)
         /\ \A n \in LineStarts(t) : LineAt(u, n) = LineAt(t, n)
         /\ Alike(t, u)
<1>1. /\ u \in Texts /\ Len(u) = Len(t) + 1
      /\ \A n \in 1 .. Len(t) : u[n] = t[n]
      /\ u[Len(t) + 1] = "nl"
  BY ConcatText, NewLine
<1>2. Len(t) \in Nat \ {0} /\ DOMAIN t = 1 .. Len(t) /\ DOMAIN u = 1 .. Len(t) + 1
  BY <1>1, TextAt, EmptySeq DEF Texts
<1>3. LineStarts(u) = LineStarts(t)
  <2>1. ASSUME NEW n \in 1 .. Len(t) PROVE n \in LineStarts(u) <=> n \in LineStarts(t)
    <3>1. n # 1 => n - 1 \in 1 .. Len(t)
      BY <1>2
    <3>. QED
      BY <1>1, <1>2, <3>1 DEF LineStarts
  <2>2. Len(t) + 1 \notin LineStarts(u)
    BY <1>1, <1>2 DEF LineStarts
  <2>3. LineStarts(u) \subseteq 1 .. Len(t) + 1 /\ LineStarts(t) \subseteq 1 .. Len(t)
    BY <1>2 DEF LineStarts
  <2>. QED
    BY <1>2, <2>1, <2>2, <2>3
<1>4. ASSUME NEW n \in LineStarts(t) PROVE LineAt(u, n) = LineAt(t, n)
  <2>1. n \in 1 .. Len(t) + 1 /\ n + 0 \in 1 .. Len(u) + 1 /\ n + 0 = n
    BY <1>1, <1>2, LineStartsOf
  <2>2. PICK m \in n .. Len(t) + 1 : EndOf(t, n, m)
    BY <2>1, EndExists
  <2>3. \A k \in n .. m - 1 : k + 0 \in 1 .. Len(u) /\ u[k + 0] = t[k]
    <3>1. ASSUME NEW k \in n .. m - 1 PROVE k \in 1 .. Len(t) /\ k + 0 = k
      BY <1>2, <2>1, <2>2
    <3>. QED
      BY <1>1, <1>2, <3>1
  <2>4. m + 0 \in 1 .. Len(u) /\ u[m + 0] = "nl"
    <3>1. m \in 1 .. Len(t) + 1 /\ m + 0 = m
      BY <1>2, <2>1, <2>2
    <3>2. m # Len(t) + 1 => t[m] = "nl" /\ m \in 1 .. Len(t)
      BY <1>2, <2>2, <3>1 DEF EndOf
    <3>. QED
      BY <1>1, <3>1, <3>2
  <2>5. LineAt(u, n + 0) = LineAt(t, n)
    <3>1. Copied(t, n, m, u, 0)
      BY <2>1, <2>3, <2>4 DEF Copied
    <3>. QED
      BY <1>1, <2>1, <2>2, <3>1, SameLine
  <2>. QED
    BY <2>1, <2>5
<1>5. Filled(u) = Filled(t)
  BY <1>1, <1>3, LineStartsOf DEF Filled
<1>6. Alike(t, u)
  <2>1. PICK k, f : Counts(f, k, Filled(t))
    BY LineStartsOf, CountExists
  <2>2. \A i \in 1 .. k : f[i] \in LineStarts(t)
    BY <2>1, LineStartsOf DEF Counts
  <2>. QED
    BY <1>4, <1>5, <2>1, <2>2 DEF Alike
<1>. QED
  BY <1>1, <1>3, <1>4, <1>6

\* One at the beginning.
LEMMA Leading ==
  ASSUME NEW t \in Texts, NEW u, u = <<"nl">> \o t
  PROVE  /\ u \in Texts /\ Len(u) = Len(t) + 1
         /\ u[1] = "nl" /\ \A n \in 1 .. Len(t) : u[n + 1] = t[n]
         /\ Alike(t, u)
<1>1. /\ u \in Texts /\ Len(u) = Len(t) + 1
      /\ u[1] = "nl" /\ \A n \in 1 .. Len(t) : u[n + 1] = t[n]
  <2>1. /\ u \in Texts /\ Len(u) = 1 + Len(t) /\ u[1] = "nl"
        /\ \A n \in 1 .. Len(t) : u[1 + n] = t[n]
    BY ConcatText, NewLine
  <2>. QED
    BY <2>1, TextAt
<1>2. Len(t) \in Nat /\ DOMAIN t = 1 .. Len(t) /\ DOMAIN u = 1 .. Len(t) + 1
  BY <1>1, TextAt
<1>3. ASSUME NEW n \in 1 .. Len(t) PROVE n + 1 \in Filled(u) <=> n \in Filled(t)
  <2>1. n # 1 => n - 1 \in 1 .. Len(t) /\ (n - 1) + 1 = n
    BY <1>2
  <2>2. u[n + 1] = t[n] /\ u[(n + 1) - 1] = (IF n = 1 THEN "nl" ELSE t[n - 1])
    BY <1>1, <2>1
  <2>3. n + 1 \in 1 .. Len(t) + 1 /\ n + 1 # 1
    BY <1>2
  <2>. QED
    BY <1>2, <2>2, <2>3 DEF Filled, LineStarts
<1>4. ASSUME NEW n \in Filled(t) PROVE LineAt(u, n + 1) = LineAt(t, n)
  <2>1. n \in 1 .. Len(t) /\ n \in 1 .. Len(t) + 1 /\ n + 1 \in 1 .. Len(u) + 1
    BY <1>1, <1>2, LineStartsOf
  <2>2. PICK m \in n .. Len(t) + 1 : EndOf(t, n, m)
    BY <2>1, EndExists
  <2>3. \A k \in n .. m - 1 : k + 1 \in 1 .. Len(u) /\ u[k + 1] = t[k]
    <3>1. ASSUME NEW k \in n .. m - 1 PROVE k \in 1 .. Len(t) /\ k + 1 \in 1 .. Len(u)
      BY <1>1, <1>2, <2>1, <2>2
    <3>. QED
      BY <1>1, <3>1
  <2>4. m + 1 = Len(u) + 1 \/ (m + 1 \in 1 .. Len(u) /\ u[m + 1] = "nl")
    <3>1. m \in 1 .. Len(t) + 1
      BY <1>2, <2>1, <2>2
    <3>2. m # Len(t) + 1 => t[m] = "nl" /\ m \in 1 .. Len(t)
      BY <1>2, <2>2, <3>1 DEF EndOf
    <3>. QED
      BY <1>1, <1>2, <3>1, <3>2
  <2>. QED
    <3>1. Copied(t, n, m, u, 1)
      BY <2>1, <2>3, <2>4 DEF Copied
    <3>. QED
      BY <1>1, <2>1, <2>2, <3>1, SameLine
<1>5. PICK k, f : Counts(f, k, Filled(t))
  BY LineStartsOf, CountExists
<1>. DEFINE g == [i \in 1 .. k |-> f[i] + 1]
<1>6. \A i \in 1 .. k : f[i] \in Filled(t) /\ f[i] \in 1 .. Len(t)
  BY <1>5, LineStartsOf DEF Counts
<1>7. Counts(g, k, Filled(u))
  <2>1. \A i \in 1 .. k : g[i] \in Filled(u)
    BY <1>3, <1>6
  <2>2. \A i, j \in 1 .. k : g[i] = g[j] => i = j
    <3>1. \A i, j \in 1 .. k : g[i] = g[j] => f[i] = f[j]
      BY <1>6
    <3>. QED
      BY <1>5, <3>1 DEF Counts
  <2>3. ASSUME NEW x \in Filled(u) PROVE \E i \in 1 .. k : g[i] = x
    <3>1. x \in 1 .. Len(t) + 1 /\ x # 1
      BY <1>1, LineStartsOf DEF Filled
    <3>2. x - 1 \in 1 .. Len(t) /\ (x - 1) + 1 = x
      BY <1>2, <3>1
    <3>3. x - 1 \in Filled(t)
      BY <1>3, <3>2
    <3>4. PICK i \in 1 .. k : f[i] = x - 1
      BY <1>5, <3>3 DEF Counts
    <3>. QED
      BY <3>2, <3>4
  <2>4. k \in Nat
    BY <1>5 DEF Counts
  <2>. QED
    BY <2>1, <2>2, <2>3, <2>4 DEF Counts
<1>8. \A i \in 1 .. k : LineAt(u, g[i]) = LineAt(t, f[i])
  BY <1>4, <1>6
<1>. HIDE DEF g
<1>9. Alike(t, u)
  BY <1>5, <1>7, <1>8 DEF Alike
<1>. QED
  BY <1>1, <1>9

\* Texts with the same lines have the same scores, flags and answers.
LEMMA AlikeBack ==
  ASSUME NEW t, NEW u, Alike(t, u)
  PROVE  Alike(u, t)
<1>1. PICK k, f, g : /\ Counts(f, k, Filled(t)) /\ Counts(g, k, Filled(u))
                     /\ \A i \in 1 .. k : LineAt(u, g[i]) = LineAt(t, f[i])
  BY DEF Alike
<1>2. \A i \in 1 .. k : LineAt(t, f[i]) = LineAt(u, g[i])
  BY <1>1
<1>. QED
  BY <1>1, <1>2 DEF Alike

\* Each line of one that is not empty is one of the other.
LEMMA AlikeLine ==
  ASSUME NEW t \in Texts, NEW u, Alike(t, u), NEW n \in Filled(u), NEW which
  PROVE  \E m \in LineStarts(t) : Taken(which, u, n) = Taken(which, t, m)
<1>1. PICK k, f, g : /\ Counts(f, k, Filled(t)) /\ Counts(g, k, Filled(u))
                     /\ \A i \in 1 .. k : LineAt(u, g[i]) = LineAt(t, f[i])
  BY DEF Alike
<1>2. PICK i \in 1 .. k : g[i] = n
  BY <1>1 DEF Counts
<1>3. f[i] \in LineStarts(t)
  BY <1>1 DEF Counts, Filled
<1>4. LineAt(u, n) = LineAt(t, f[i])
  BY <1>1, <1>2
<1>5. Taken(which, u, n) = Taken(which, t, f[i])
  BY <1>4 DEF Taken
<1>. QED
  BY <1>3, <1>5

\* Empty lines add nothing.
LEMMA FilledSum ==
  ASSUME NEW t \in Texts, NEW s \in Scores, NEW which
  PROVE  \E T : /\ Summed(T, Worth(which, t, s, LineStarts(t)), LineStarts(t))
                /\ SumOf(which, t, s, LineStarts(t)) = T[Filled(t)]
<1>. DEFINE S == LineStarts(t)
            h == Worth(which, t, s, S)
<1>1. S \in SUBSET LineStarts(t) /\ Filled(t) \in SUBSET S
  BY DEF Filled
<1>2. PICK T : Adds(T, h, S) /\ SumOf(which, t, s, S) = T[S]
  BY <1>1, SumIs
<1>3. IsFiniteSet(S) /\ h \in [S -> Int]
  BY <1>1, WorthIs
<1>4. \A x \in S \ Filled(t) : h[x] = 0
  <2>1. \A x \in S \ Filled(t) : Taken(which, t, x) = <<>>
    BY TakenIs
  <2>. QED
    BY <2>1, PointsOfLine DEF Worth
<1>. HIDE DEF h, S
<1>5. T[S] = T[Filled(t)]
  BY <1>1, <1>2, <1>3, <1>4, WithoutNothing
<1>6. Summed(T, h, S)
  BY <1>2, <1>3 DEF Summed
<1>. QED
  BY <1>2, <1>5, <1>6 DEF h, S

LEMMA AlikeSums ==
  ASSUME NEW t \in Texts, NEW u \in Texts, Alike(t, u), NEW s \in Scores, NEW which
  PROVE  SumOf(which, u, s, LineStarts(u)) = SumOf(which, t, s, LineStarts(t))
<1>. DEFINE h == Worth(which, t, s, LineStarts(t))
            e == Worth(which, u, s, LineStarts(u))
<1>1. PICK T : Summed(T, h, LineStarts(t)) /\ SumOf(which, t, s, LineStarts(t)) = T[Filled(t)]
  BY FilledSum
<1>2. PICK U : Summed(U, e, LineStarts(u)) /\ SumOf(which, u, s, LineStarts(u)) = U[Filled(u)]
  BY FilledSum
<1>3. PICK k, f, g : /\ Counts(f, k, Filled(t)) /\ Counts(g, k, Filled(u))
                     /\ \A i \in 1 .. k : LineAt(u, g[i]) = LineAt(t, f[i])
  BY DEF Alike
<1>4. ASSUME NEW i \in 1 .. k PROVE h[f[i]] = e[g[i]]
  <2>1. f[i] \in LineStarts(t) /\ g[i] \in LineStarts(u)
    BY <1>3 DEF Counts, Filled
  <2>2. LineAt(u, g[i]) = LineAt(t, f[i])
    BY <1>3
  <2>3. Taken(which, u, g[i]) = Taken(which, t, f[i])
    BY <2>2 DEF Taken
  <2>. QED
    BY <2>1, <2>3 DEF Worth
<1>5. Filled(t) \in SUBSET LineStarts(t) /\ Filled(u) \in SUBSET LineStarts(u)
  BY DEF Filled
<1>. HIDE DEF h, e
<1>6. Matches(h, Filled(t), e, Filled(u))
  BY <1>3, <1>4 DEF Matches
<1>7. T[Filled(t)] = U[Filled(u)]
  BY <1>1, <1>2, <1>5, <1>6, SameSums
<1>. QED
  BY <1>1, <1>2, <1>7

LEMMA AlikeTotal ==
  ASSUME NEW t \in Texts, NEW u \in Texts, Alike(t, u), NEW which, NEW b
  PROVE  TotalOf(which, u, b, LineStarts(u)) = TotalOf(which, t, b, LineStarts(t))
<1>. DEFINE F == FirstScores(which, b)
<1>1. DOMAIN F \subseteq Scores
  BY FirstScoresAre
<1>2. \A s \in DOMAIN F : F[s] + SumOf(which, u, s, LineStarts(u))
                            = F[s] + SumOf(which, t, s, LineStarts(t))
  BY <1>1, AlikeSums
<1>3. /\ TotalOf(which, u, b, LineStarts(u))
           = [s \in DOMAIN F |-> F[s] + SumOf(which, u, s, LineStarts(u))]
      /\ TotalOf(which, t, b, LineStarts(t))
           = [s \in DOMAIN F |-> F[s] + SumOf(which, t, s, LineStarts(t))]
  BY DEF TotalOf
<1>. HIDE DEF F
<1>. QED
  BY <1>2, <1>3, Zenon

\* What a line flags is flagged by one that is not empty.
LEMMA FlaggedFilled ==
  ASSUME NEW t \in Texts, NEW which, NEW x \in FlagsOf(which, t, LineStarts(t))
  PROVE  \E n \in Filled(t) : x \in Flags(which, Taken(which, t, n))
<1>1. PICK n \in LineStarts(t) : x \in Flags(which, Taken(which, t, n))
  BY DEF FlagsOf
<1>2. n \in Filled(t)
  <2>. SUFFICES ASSUME n \notin Filled(t) PROVE FALSE
    OBVIOUS
  <2>1. Taken(which, t, n) = <<>>
    BY TakenIs
  <2>. QED
    BY <1>1, <2>1, FlagsOfLine
<1>. QED
  BY <1>1, <1>2

LEMMA AlikeFlags ==
  ASSUME NEW t \in Texts, NEW u \in Texts, Alike(t, u), NEW which
  PROVE  FlagsOf(which, u, LineStarts(u)) = FlagsOf(which, t, LineStarts(t))
<1>1. ASSUME NEW v \in Texts, NEW w \in Texts, Alike(v, w),
             NEW x \in FlagsOf(which, w, LineStarts(w))
      PROVE  x \in FlagsOf(which, v, LineStarts(v))
  <2>1. PICK n \in Filled(w) : x \in Flags(which, Taken(which, w, n))
    BY FlaggedFilled
  <2>2. PICK m \in LineStarts(v) : Taken(which, w, n) = Taken(which, v, m)
    BY <1>1, AlikeLine
  <2>. QED
    BY <2>1, <2>2 DEF FlagsOf
<1>2. Alike(u, t)
  BY AlikeBack
<1>3. /\ \A x \in FlagsOf(which, u, LineStarts(u)) : x \in FlagsOf(which, t, LineStarts(t))
      /\ \A x \in FlagsOf(which, t, LineStarts(t)) : x \in FlagsOf(which, u, LineStarts(u))
  BY <1>1, <1>2
<1>. QED
  BY <1>3

\* An answer after a line that is empty is one after a line that is not.
LEMMA AnsweredFilled ==
  ASSUME NEW t \in Texts, NEW which \in ReadByLines \ {"fortran"}, NEW b,
         NEW F, F = FlagsOf(which, t, LineStarts(t)),
         NEW n \in LineStarts(t), NEW a, a = AfterLine(which, Taken(which, t, n), F, b),
         a # NULL
  PROVE  \E m \in Filled(t) : a = AfterLine(which, Taken(which, t, m), F, b)
<1>1. CASE n \in Filled(t)
  BY <1>1
<1>2. CASE n \notin Filled(t) /\ which = "st"
  <2>1. {"=", "[", "]"} \subseteq F
    BY <1>2 DEF AfterLine
  <2>2. PICK m \in Filled(t) : "=" \in Flags(which, Taken(which, t, m))
    BY <2>1, FlaggedFilled
  <2>3. AfterLine(which, Taken(which, t, m), F, b) = a
    BY <1>2 DEF AfterLine
  <2>. QED
    BY <2>3
<1>3. CASE n \notin Filled(t) /\ which # "st"
  <2>1. Taken(which, t, n) = <<>>
    BY <1>3, TakenIs
  <2>2. AfterLine(which, <<>>, F, b) = NULL
    BY <1>3, EmptyLine DEF AfterLine, ReadByLines
  <2>. QED
    BY <2>1, <2>2
<1>. QED
  BY <1>1, <1>2, <1>3

LEMMA AlikeAnswers ==
  ASSUME NEW t \in Texts, NEW u \in Texts, Alike(t, u),
         NEW which \in ReadByLines \ {"fortran"}, NEW b
  PROVE  AnswersOf(which, u, LineStarts(u), b) = AnswersOf(which, t, LineStarts(t), b)
<1>1. ASSUME NEW v \in Texts, NEW w \in Texts, Alike(v, w),
             NEW a \in AnswersOf(which, w, LineStarts(w), b)
      PROVE  a \in AnswersOf(which, v, LineStarts(v), b)
  <2>1. PICK F : F = FlagsOf(which, w, LineStarts(w))
    OBVIOUS
  <2>2. F = FlagsOf(which, v, LineStarts(v))
    BY <1>1, <2>1, AlikeFlags
  <2>3. PICK n \in LineStarts(w) : a = AfterLine(which, Taken(which, w, n), F, b)
    BY <2>1 DEF AnswersOf
  <2>4. a # NULL
    BY DEF AnswersOf
  <2>5. PICK m \in Filled(w) : a = AfterLine(which, Taken(which, w, m), F, b)
    BY <2>1, <2>3, <2>4, AnsweredFilled
  <2>6. PICK l \in LineStarts(v) : Taken(which, w, m) = Taken(which, v, l)
    BY <1>1, AlikeLine
  <2>. QED
    BY <2>2, <2>4, <2>5, <2>6 DEF AnswersOf
<1>2. Alike(u, t)
  BY AlikeBack
<1>3. /\ \A a \in AnswersOf(which, u, LineStarts(u), b) :
           a \in AnswersOf(which, t, LineStarts(t), b)
      /\ \A a \in AnswersOf(which, t, LineStarts(t), b) :
           a \in AnswersOf(which, u, LineStarts(u), b)
  BY <1>1, <1>2
<1>. QED
  BY <1>3

AnyOf(S) == CHOOSE a \in S : TRUE

LEMMA ByLinesIs ==
  ASSUME NEW t, NEW which, NEW b, NEW S, S = LineStarts(t)
  PROVE  ByLines(which, t, b) =
           IF which = "h" /\ Accompanied THEN "objective_c"
           ELSE IF AnswersOf(which, t, S, b) # {} THEN AnyOf(AnswersOf(which, t, S, b))
           ELSE AfterLines(which, ScoresOf(which, t, S), FlagsOf(which, t, S), beside)
  BY DEF ByLines, AnyOf

LEMMA AlikeByLines ==
  ASSUME NEW t \in Texts, NEW u \in Texts, Alike(t, u),
         NEW which \in ReadByLines \ {"fortran"}, NEW b
  PROVE  ByLines(which, u, b) = ByLines(which, t, b)
<1>1. ScoresOf(which, u, LineStarts(u)) = ScoresOf(which, t, LineStarts(t))
  BY AlikeTotal, ScoresAre
<1>2. FlagsOf(which, u, LineStarts(u)) = FlagsOf(which, t, LineStarts(t))
  BY AlikeFlags
<1>3. AnswersOf(which, u, LineStarts(u), b) = AnswersOf(which, t, LineStarts(t), b)
  BY AlikeAnswers
<1>. QED
  BY <1>1, <1>2, <1>3, ByLinesIs

\* In Fortran empty lines count, but for one at the end.
LEMMA SameFortran ==
  ASSUME NEW t \in Texts, NEW u, LineStarts(u) = LineStarts(t),
         \A n \in LineStarts(t) : LineAt(u, n) = LineAt(t, n), NEW b
  PROVE  ByLines("fortran", u, b) = ByLines("fortran", t, b)
<1>. DEFINE which == "fortran"
            S == LineStarts(t)
<1>1. \A n \in S : Taken(which, u, n) = Taken(which, t, n)
  BY DEF Taken
<1>2. FlagsOf(which, u, S) = FlagsOf(which, t, S)
  BY <1>1 DEF FlagsOf
<1>3. AnswersOf(which, u, S, b) = AnswersOf(which, t, S, b)
  BY <1>1, <1>2 DEF AnswersOf
<1>4. \A s, f : AfterLines(which, s, f, beside) = "fortranfixed"
  BY DEF AfterLines
<1>. HIDE DEF which, S
<1>5. which = "fortran" /\ S = LineStarts(t) /\ S = LineStarts(u)
  BY DEF which, S
<1>6. ByLines(which, u, b) = ByLines(which, t, b)
  BY <1>3, <1>4, <1>5, ByLinesIs
<1>. QED
  BY <1>5, <1>6

-----------------------------------------------------------------------------
(* A text with an end of a line more, at the beginning or at the end.      *)

\* u is t, d places further on, and holds the ends of lines besides.
Around(t, u, d) ==
    /\ d \in {0, 1} /\ Len(u) = Len(t) + 1
    /\ \A n \in 1 .. Len(t) : u[n + d] = t[n]
    /\ \A k \in 1 .. Len(u) : k - d \notin 1 .. Len(t) => u[k] = "nl"

LEMMA TrailingAround ==
  ASSUME NEW t \in Texts, t # <<>>
  PROVE  Around(t, t \o <<"nl">>, 0)
<1>1. PICK u : u = t \o <<"nl">>
  OBVIOUS
<1>2. /\ Len(u) = Len(t) + 1 /\ \A n \in 1 .. Len(t) : u[n] = t[n]
      /\ u[Len(t) + 1] = "nl"
  BY <1>1, Trailing
<1>3. Len(t) \in Nat
  BY TextAt
<1>4. \A n \in 1 .. Len(t) : u[n + 0] = t[n]
  BY <1>2, <1>3
<1>5. \A k \in 1 .. Len(u) : k - 0 \notin 1 .. Len(t) => u[k] = "nl"
  BY <1>2, <1>3
<1>. QED
  BY <1>1, <1>2, <1>4, <1>5 DEF Around

LEMMA LeadingAround ==
  ASSUME NEW t \in Texts
  PROVE  Around(t, <<"nl">> \o t, 1)
<1>1. PICK u : u = <<"nl">> \o t
  OBVIOUS
<1>2. /\ Len(u) = Len(t) + 1 /\ \A n \in 1 .. Len(t) : u[n + 1] = t[n]
      /\ u[1] = "nl"
  BY <1>1, Leading
<1>3. Len(t) \in Nat
  BY TextAt
<1>4. \A k \in 1 .. Len(u) : k - 1 \notin 1 .. Len(t) => u[k] = "nl"
  BY <1>2, <1>3
<1>. QED
  BY <1>1, <1>2, <1>4 DEF Around

\* Whatever is looked for is there in both.
LEMMA AroundAt ==
  ASSUME NEW t \in Texts, NEW u \in Texts, NEW d, Around(t, u, d), NEW k \in Int,
         NEW w, w # "nl", w # "end"
  PROVE  At(u, k + d) = w <=> At(t, k) = w
<1>0. Len(t) \in Nat /\ d \in {0, 1} /\ Len(u) = Len(t) + 1
  BY TextAt DEF Around
<1>1. CASE k \in 1 .. Len(t)
  <2>1. k + d \in 1 .. Len(u)
    BY <1>0, <1>1
  <2>2. At(u, k + d) = u[k + d] /\ At(t, k) = t[k]
    BY <1>1, <2>1, TextAt
  <2>. QED
    BY <1>1, <2>2 DEF Around
<1>2. CASE k \notin 1 .. Len(t)
  <2>1. At(t, k) = "end"
    BY <1>2, TextAt
  <2>2. CASE k + d \in 1 .. Len(u)
    <3>1. (k + d) - d = k
      BY <1>0
    <3>2. u[k + d] = "nl"
      BY <1>2, <2>2, <3>1 DEF Around
    <3>3. At(u, k + d) = "nl"
      BY <2>2, <3>2, TextAt
    <3>. QED
      BY <2>1, <3>3
  <2>3. CASE k + d \notin 1 .. Len(u)
    <3>1. k + d \in Int
      BY <1>0
    <3>2. At(u, k + d) = "end"
      BY <2>3, <3>1, TextAt
    <3>. QED
      BY <2>1, <3>2
  <2>. QED
    BY <2>2, <2>3
<1>. QED
  BY <1>1, <1>2

LEMMA AroundSkip ==
  ASSUME NEW t \in Texts, NEW u \in Texts, NEW d, Around(t, u, d),
         NEW n \in 1 .. Len(t) + 1, NEW S, "nl" \notin S, "end" \notin S
  PROVE  Skip(u, n + d, S) = Skip(t, n, S) + d
<1>0. Len(t) \in Nat /\ d \in {0, 1} /\ Len(u) = Len(t) + 1
  BY TextAt DEF Around
<1>1. PICK m : m = Skip(t, n, S)
  OBVIOUS
<1>2. m \in n .. Len(t) + 1 /\ At(t, m) \notin S /\ \A k \in n .. m - 1 : t[k] \in S
  BY <1>1, SkipIs
<1>3. n + d \in 1 .. Len(u) + 1 /\ m + d \in n + d .. Len(u) + 1 /\ m \in Int
  BY <1>0, <1>2
<1>4. At(u, m + d) \notin S
  <2>. SUFFICES ASSUME NEW w \in S, At(u, m + d) = w PROVE FALSE
    OBVIOUS
  <2>0. w # "nl" /\ w # "end"
    OBVIOUS
  <2>1. At(t, m) = w
    <3>1. m \in Int
      BY <1>3
    <3>2. At(u, m + d) = w <=> At(t, m) = w
      BY <2>0, <3>1, AroundAt
    <3>. QED
      BY <3>2
  <2>. QED
    BY <1>2, <2>1
<1>5. ASSUME NEW k \in n + d .. (m + d) - 1 PROVE u[k] \in S
  <2>1. PICK j : j = k - d
    OBVIOUS
  <2>2. j \in n .. m - 1 /\ j \in 1 .. Len(t) /\ j + d = k
    BY <1>0, <1>2, <1>5, <2>1
  <2>. QED
    BY <1>2, <2>2 DEF Around
<1>6. Skip(u, n + d, S) = m + d
  BY <1>3, <1>4, <1>5, SkipOnly
<1>. QED
  BY <1>1, <1>6

LEMMA AroundFirst ==
  ASSUME NEW t \in Texts, NEW u \in Texts, NEW d, Around(t, u, d),
         NEW S, "nl" \in S, "end" \notin S
  PROVE  At(u, Skip(u, 1, S)) = At(t, Skip(t, 1, S))
<1>0. Len(t) \in Nat /\ d \in {0, 1} /\ Len(u) = Len(t) + 1
  BY TextAt DEF Around
<1>1. PICK m : m = Skip(t, 1, S)
  OBVIOUS
<1>2. 1 \in 1 .. Len(t) + 1 /\ 1 \in 1 .. Len(u) + 1
  BY <1>0
<1>3. m \in 1 .. Len(t) + 1 /\ At(t, m) \notin S /\ \A k \in 1 .. m - 1 : t[k] \in S
  BY <1>1, <1>2, SkipIs
<1>4. \A k \in 1 .. Len(u) : k < m + d => u[k] \in S
  <2>. SUFFICES ASSUME NEW k \in 1 .. Len(u), k < m + d PROVE u[k] \in S
    OBVIOUS
  <2>1. CASE k - d \in 1 .. Len(t)
    <3>1. PICK j : j = k - d
      OBVIOUS
    <3>2. j \in 1 .. m - 1 /\ j \in 1 .. Len(t) /\ j + d = k
      BY <1>0, <1>3, <2>1, <3>1
    <3>. QED
      BY <1>3, <3>2 DEF Around
  <2>2. CASE k - d \notin 1 .. Len(t)
    BY <2>2 DEF Around
  <2>. QED
    BY <2>1, <2>2
<1>5. CASE m \in 1 .. Len(t)
  <2>1. m + d \in 1 .. Len(u) /\ m + d \in 1 .. Len(u) + 1 /\ u[m + d] = t[m]
    BY <1>0, <1>5 DEF Around
  <2>2. At(u, m + d) = At(t, m)
    BY <1>5, <2>1, TextAt
  <2>3. \A k \in 1 .. (m + d) - 1 : u[k] \in S
    BY <1>0, <1>4, <1>5, <2>1
  <2>4. Skip(u, 1, S) = m + d
    BY <1>2, <1>3, <2>1, <2>2, <2>3, SkipOnly
  <2>. QED
    BY <1>1, <2>2, <2>4
<1>6. CASE m = Len(t) + 1
  <2>1. At(t, m) = "end"
    BY <1>0, <1>6, TextAt
  <2>2. PICK e : e = Len(u) + 1
    OBVIOUS
  <2>3. e \in 1 .. Len(u) + 1 /\ e \in Int /\ e \notin 1 .. Len(u)
    BY <1>0, <2>2
  <2>4. At(u, e) = "end"
    BY <2>3, TextAt
  <2>5. \A k \in 1 .. e - 1 : u[k] \in S
    <3>. SUFFICES ASSUME NEW k \in 1 .. Len(u) PROVE u[k] \in S
      BY <1>0, <2>2
    <3>1. CASE k - d \in 1 .. Len(t)
      BY <1>0, <1>4, <1>6, <3>1
    <3>2. CASE k - d \notin 1 .. Len(t)
      BY <3>2 DEF Around
    <3>. QED
      BY <3>1, <3>2
  <2>6. Skip(u, 1, S) = e
    BY <1>2, <2>3, <2>4, <2>5, SkipOnly
  <2>. QED
    BY <1>1, <2>1, <2>4, <2>6
<1>. QED
  BY <1>0, <1>3, <1>5, <1>6

LEMMA AroundByFirst ==
  ASSUME NEW t \in Texts, NEW u \in Texts, NEW d, Around(t, u, d)
  PROVE  /\ disambiguate_asx(u) = disambiguate_asx(t)
         /\ disambiguate_dat(u) = disambiguate_dat(t)
         /\ disambiguate_def(u) = disambiguate_def(t)
         /\ disambiguate_mod(u) = disambiguate_mod(t)
<1>. DEFINE S == {" ", "nl"}
<1>1. "nl" \in S /\ "end" \notin S
  OBVIOUS
<1>. HIDE DEF S
<1>2. At(u, Skip(u, 1, S)) = At(t, Skip(t, 1, S))
  BY <1>1, AroundFirst
<1>3. First(u) = First(t)
  BY <1>2 DEF First, S
<1>. QED
  BY <1>3 DEF disambiguate_asx, disambiguate_dat, disambiguate_def, disambiguate_mod

\* The first directive of a page, and what is in it.
LEMMA AroundAspx ==
  ASSUME NEW t \in Texts, NEW u \in Texts, NEW d, Around(t, u, d)
  PROVE  disambiguate_aspx(u) = disambiguate_aspx(t)
<1>. DEFINE open == "<%@"
            close == "%>"
            blanks == {" "}
            word == "page"
            basic == "language=\"vb\""
            ends(v, from, to) == v[to] = close /\ \A n \in from .. to - 1 : v[n] # close
            says(v, from, to) ==
              LET page == Skip(v, from + 1, blanks)
              IN  At(v, page) = word /\ \E n \in page .. to : v[n] = basic
            page(v) ==
              \E from \in DOMAIN v :
                /\ v[from] = open /\ \A n \in 1 .. from - 1 : v[n] # open
                /\ \E to \in from .. Len(v) :
                     /\ v[to] = close /\ \A n \in from .. to - 1 : v[n] # close
                     /\ says(v, from, to)
<1>1. \A v : disambiguate_aspx(v) = IF page(v) THEN "vb_aspx" ELSE "cs_aspx"
  BY DEF disambiguate_aspx
<1>2. /\ open \notin {"nl", "end"} /\ close \notin {"nl", "end"}
      /\ word \notin {"nl", "end"} /\ basic \notin {"nl", "end"}
      /\ "nl" \notin blanks /\ "end" \notin blanks
  OBVIOUS
<1>. HIDE DEF open, close, blanks, word, basic
<1>0. /\ Len(t) \in Nat /\ d \in {0, 1} /\ Len(u) = Len(t) + 1
      /\ DOMAIN t = 1 .. Len(t) /\ DOMAIN u = 1 .. Len(u)
  BY TextAt DEF Around
<1>3. \A n \in 1 .. Len(t) : n + d \in 1 .. Len(u) /\ u[n + d] = t[n]
  BY <1>0 DEF Around
<1>4. \A k \in 1 .. Len(u) : u[k] # "nl" => k - d \in 1 .. Len(t) /\ (k - d) + d = k
  BY <1>0 DEF Around
<1>5. ASSUME NEW from \in 1 .. Len(t), NEW to \in from .. Len(t)
      PROVE  says(u, from + d, to + d) <=> says(t, from, to)
  <2>1. PICK pts : pts = Skip(t, from + 1, blanks)
    OBVIOUS
  <2>2. from + 1 \in 1 .. Len(t) + 1 /\ (from + 1) + d = (from + d) + 1
    BY <1>0
  <2>3. pts \in from + 1 .. Len(t) + 1 /\ Skip(u, (from + d) + 1, blanks) = pts + d
    <3>1. pts \in from + 1 .. Len(t) + 1
      BY <1>2, <2>1, <2>2, SkipIs
    <3>2. Skip(u, (from + 1) + d, blanks) = pts + d
      BY <1>2, <2>1, <2>2, AroundSkip
    <3>. QED
      BY <2>2, <3>1, <3>2
  <2>4. At(u, pts + d) = word <=> At(t, pts) = word
    <3>1. pts \in Int
      BY <1>0, <2>2, <2>3
    <3>. QED
      BY <1>2, <3>1, AroundAt
  <2>5. (\E n \in pts + d .. to + d : u[n] = basic) <=> \E n \in pts .. to : t[n] = basic
    <3>1. ASSUME NEW n \in pts .. to, t[n] = basic
          PROVE  \E k \in pts + d .. to + d : u[k] = basic
      <4>1. n \in 1 .. Len(t) /\ n + d \in pts + d .. to + d
        BY <1>0, <2>2, <2>3
      <4>. QED
        BY <1>3, <3>1, <4>1
    <3>2. ASSUME NEW k \in pts + d .. to + d, u[k] = basic
          PROVE  \E n \in pts .. to : t[n] = basic
      <4>1. PICK n : n = k - d
        OBVIOUS
      <4>2. n \in pts .. to /\ n \in 1 .. Len(t) /\ n + d = k
        BY <1>0, <2>2, <2>3, <4>1
      <4>. QED
        BY <1>3, <3>2, <4>2
    <3>. QED
      BY <3>1, <3>2
  <2>. QED
    BY <2>1, <2>3, <2>4, <2>5
<1>. HIDE DEF says
<1>6. ASSUME page(t) PROVE page(u)
  <2>1. PICK from \in DOMAIN t :
           /\ t[from] = open /\ \A n \in 1 .. from - 1 : t[n] # open
           /\ \E to \in from .. Len(t) :
                /\ t[to] = close /\ \A n \in from .. to - 1 : t[n] # close
                /\ says(t, from, to)
    BY <1>6
  <2>2. PICK to \in from .. Len(t) :
           /\ t[to] = close /\ \A n \in from .. to - 1 : t[n] # close
           /\ says(t, from, to)
    BY <2>1
  <2>3. from \in 1 .. Len(t) /\ to \in 1 .. Len(t)
    BY <1>0, <2>1, <2>2
  <2>4. /\ from + d \in DOMAIN u /\ u[from + d] = open
        /\ to + d \in from + d .. Len(u) /\ u[to + d] = close
        /\ says(u, from + d, to + d)
    <3>1. from + d \in 1 .. Len(u) /\ to + d \in from + d .. Len(u)
      BY <1>0, <2>2, <2>3
    <3>. QED
      BY <1>0, <1>3, <1>5, <2>1, <2>2, <2>3, <3>1
  <2>5. \A k \in 1 .. (from + d) - 1 : u[k] # open
    <3>. SUFFICES ASSUME NEW k \in 1 .. (from + d) - 1, u[k] = open PROVE FALSE
      OBVIOUS
    <3>1. k \in 1 .. Len(u) /\ u[k] # "nl"
      BY <1>0, <1>2, <2>3
    <3>2. PICK n : n = k - d
      OBVIOUS
    <3>3. n \in 1 .. Len(t) /\ n + d = k
      BY <1>4, <3>1, <3>2
    <3>4. n \in 1 .. from - 1
      BY <1>0, <2>3, <3>3
    <3>. QED
      BY <1>3, <2>1, <3>3, <3>4
  <2>6. \A k \in from + d .. (to + d) - 1 : u[k] # close
    <3>. SUFFICES ASSUME NEW k \in from + d .. (to + d) - 1 PROVE u[k] # close
      OBVIOUS
    <3>1. PICK n : n = k - d
      OBVIOUS
    <3>2. n \in from .. to - 1 /\ n \in 1 .. Len(t) /\ n + d = k
      BY <1>0, <2>3, <3>1
    <3>. QED
      BY <1>3, <2>2, <3>2
  <2>. QED
    BY <2>4, <2>5, <2>6
<1>7. ASSUME page(u) PROVE page(t)
  <2>1. PICK k \in DOMAIN u :
           /\ u[k] = open /\ \A n \in 1 .. k - 1 : u[n] # open
           /\ \E l \in k .. Len(u) :
                /\ u[l] = close /\ \A n \in k .. l - 1 : u[n] # close
                /\ says(u, k, l)
    BY <1>7
  <2>2. PICK l \in k .. Len(u) :
           /\ u[l] = close /\ \A n \in k .. l - 1 : u[n] # close
           /\ says(u, k, l)
    BY <2>1
  <2>3. k \in 1 .. Len(u) /\ l \in 1 .. Len(u) /\ u[k] # "nl" /\ u[l] # "nl"
    BY <1>0, <1>2, <2>1, <2>2
  <2>4. PICK from, to : from = k - d /\ to = l - d
    OBVIOUS
  <2>5. /\ from \in 1 .. Len(t) /\ to \in 1 .. Len(t)
        /\ from + d = k /\ to + d = l
    BY <1>4, <2>3, <2>4
  <2>6. to \in from .. Len(t)
    BY <1>0, <2>2, <2>3, <2>5
  <2>7. t[from] = open /\ t[to] = close /\ says(t, from, to)
    BY <1>3, <1>5, <2>1, <2>2, <2>5, <2>6
  <2>8. \A n \in 1 .. from - 1 : t[n] # open
    <3>. SUFFICES ASSUME NEW n \in 1 .. from - 1 PROVE t[n] # open
      OBVIOUS
    <3>1. n \in 1 .. Len(t) /\ n + d \in 1 .. k - 1
      BY <1>0, <2>5
    <3>. QED
      BY <1>3, <2>1, <3>1
  <2>9. \A n \in from .. to - 1 : t[n] # close
    <3>. SUFFICES ASSUME NEW n \in from .. to - 1 PROVE t[n] # close
      OBVIOUS
    <3>1. n \in 1 .. Len(t) /\ n + d \in k .. l - 1
      BY <1>0, <2>5
    <3>. QED
      BY <1>3, <2>2, <3>1
  <2>. QED
    BY <1>0, <2>5, <2>6, <2>7, <2>8, <2>9
<1>. HIDE DEF page
<1>. QED
  BY <1>1, <1>6, <1>7

LEMMA AroundContains ==
  ASSUME NEW t \in Texts, NEW u \in Texts, NEW d, Around(t, u, d)
  PROVE  /\ disambiguate_cs(u) = disambiguate_cs(t)
         /\ disambiguate_inc(u) = disambiguate_inc(t)
         /\ disambiguate_pro(u) = disambiguate_pro(t)
<1>0. /\ Len(t) \in Nat /\ d \in {0, 1} /\ Len(u) = Len(t) + 1
      /\ \A n \in 1 .. Len(t) : u[n + d] = t[n]
      /\ \A k \in 1 .. Len(u) : k - d \notin 1 .. Len(t) => u[k] = "nl"
  BY TextAt DEF Around
<1>1. ASSUME NEW w, w # "nl" PROVE Contains(u, w) <=> Contains(t, w)
  <2>1. ASSUME NEW n \in 1 .. Len(t), t[n] = w PROVE \E k \in 1 .. Len(u) : u[k] = w
    <3>1. n + d \in 1 .. Len(u) /\ u[n + d] = w
      BY <1>0, <2>1
    <3>. QED
      BY <3>1
  <2>2. ASSUME NEW k \in 1 .. Len(u), u[k] = w PROVE \E n \in 1 .. Len(t) : t[n] = w
    <3>1. k - d \in 1 .. Len(t)
      BY <1>0, <1>1, <2>2
    <3>2. PICK n \in 1 .. Len(t) : n = k - d
      BY <3>1
    <3>3. n + d = k
      BY <1>0, <3>2
    <3>4. t[n] = w
      BY <1>0, <2>2, <3>3
    <3>. QED
      BY <3>4
  <2>. QED
    BY <2>1, <2>2 DEF Contains
<1>2. /\ Contains(u, "<?cs") <=> Contains(t, "<?cs")
      /\ Contains(u, "?php") <=> Contains(t, "?php")
      /\ Contains(u, "SOURCES +=") <=> Contains(t, "SOURCES +=")
  BY <1>1
<1>. QED
  BY <1>2 DEF disambiguate_cs, disambiguate_inc, disambiguate_pro

-----------------------------------------------------------------------------
(* The walk of Limbo through a text.                                       *)

\* The places from which one of the places in w is reached.
Reaching(P, L, w, nx) ==
    /\ P \subseteq 1 .. L + 2
    /\ \A n \in 1 .. L + 2 : n \in P <=> n <= L /\ (n \in w \/ nx[n] \in P)

LEMMA ReachingExists ==
  ASSUME NEW L \in Nat, NEW w, NEW nx, \A n \in 1 .. L : nx[n] \in n + 1 .. L + 2
  PROVE  \E P : Reaching(P, L, w, nx)
<1>. DEFINE G(k, P) == /\ P \subseteq L + 3 - k .. L + 2
                       /\ \A n \in L + 3 - k .. L + 2 :
                            n \in P <=> n <= L /\ (n \in w \/ nx[n] \in P)
            S == {k \in Nat : k <= L + 2 => \E P : G(k, P)}
<1>1. 0 \in S
  <2>1. L + 3 - 0 .. L + 2 = {}
    OBVIOUS
  <2>2. G(0, {})
    BY <2>1
  <2>. HIDE DEF G
  <2>. QED
    BY <2>2
<1>2. ASSUME NEW k \in Nat, k \in S PROVE k + 1 \in S
  <2>0. k <= L + 2 => \E P : G(k, P)
    BY <1>2
  <2>. SUFFICES ASSUME k + 1 <= L + 2 PROVE \E P : G(k + 1, P)
    <3>. HIDE DEF G
    <3>. QED
      OBVIOUS
  <2>1. PICK P : G(k, P)
    <3>. HIDE DEF G
    <3>. QED
      BY <2>0
  <2>2. PICK new \in 1 .. L + 2 : new = L + 2 - k
    OBVIOUS
  <2>3. L + 3 - k = new + 1 /\ L + 3 - (k + 1) = new
    BY <2>2
  <2>. DEFINE Q == {n \in new .. L + 2 :
                      IF n = new THEN new <= L /\ (new \in w \/ nx[new] \in P) ELSE n \in P}
  <2>4. ASSUME NEW n \in new .. L + 2
        PROVE  n \in Q <=> n <= L /\ (n \in w \/ nx[n] \in Q)
    <3>0. \A j \in new + 1 .. L + 2 : j \in Q <=> j \in P
      OBVIOUS
    <3>1. n <= L => nx[n] \in n + 1 .. L + 2
      BY <2>2
    <3>2. n <= L => (nx[n] \in Q <=> nx[n] \in P)
      <4>1. n <= L => nx[n] \in new + 1 .. L + 2
        BY <2>2, <3>1
      <4>. QED
        BY <3>0, <4>1
    <3>3. CASE n = new
      BY <3>2, <3>3
    <3>4. CASE n # new
      <4>1. n \in new + 1 .. L + 2
        BY <2>2, <3>4
      <4>2. n \in P <=> n <= L /\ (n \in w \/ nx[n] \in P)
        BY <2>1, <2>3, <4>1
      <4>3. n \in Q <=> n \in P
        BY <3>0, <4>1
      <4>. HIDE DEF Q
      <4>. QED
        BY <3>2, <4>2, <4>3
    <3>. QED
      BY <3>3, <3>4
  <2>5. Q \subseteq new .. L + 2
    OBVIOUS
  <2>. HIDE DEF Q
  <2>6. G(k + 1, Q)
    BY <2>3, <2>4, <2>5
  <2>. QED
    BY <2>6
<1>3. \A k \in Nat : k \in S
  <2>. HIDE DEF S
  <2>. QED
    BY <1>1, <1>2, NatSet
<1>4. PICK P : G(L + 2, P)
  <2>. HIDE DEF G
  <2>1. L + 2 \in S
    <3>. HIDE DEF S
    <3>. QED
      BY <1>3
  <2>. QED
    BY <2>1
<1>5. L + 3 - (L + 2) = 1
  OBVIOUS
<1>. QED
  BY <1>4, <1>5 DEF Reaching

Follows(t, n, s) == \E m \in n .. Len(t) : t[m] = s

Including(t, n) == At(t, n) = "include" /\ At(t, n + 1) = " "

Included(t, n) == IF Including(t, n) THEN Skip(t, n + 1, {" "}) ELSE n

\* Where Limbo shows, and where the walk goes on otherwise.
Shows(t) ==
    {n \in 1 .. Len(t) :
       \/ t[n] = "implement" /\ At(t, n + 1) = " "
       \/ /\ Including(t, n)
          /\ At(t, Included(t, n)) = "\"" /\ At(t, Included(t, n) + 1) = ";"
       \/ t[n] = "return" /\ Follows(t, n, ";")
       \/ t[n] = "case" /\ Follows(t, n, "{")}

GoesOn(t) == [n \in 1 .. Len(t) |-> Included(t, n) + 1]

LEMMA IncludedIs ==
  ASSUME NEW t \in Texts, NEW n \in 1 .. Len(t)
  PROVE  Included(t, n) \in n .. Len(t) + 1
<1>1. Len(t) \in Nat
  BY TextAt
<1>2. n + 1 \in 1 .. Len(t) + 1 /\ "end" \notin {" "}
  BY <1>1
<1>3. PICK s : s = Skip(t, n + 1, {" "})
  OBVIOUS
<1>4. s \in n + 1 .. Len(t) + 1
  BY <1>2, <1>3, SkipIs
<1>5. Included(t, n) = n \/ Included(t, n) = s
  BY <1>3 DEF Included
<1>. QED
  BY <1>1, <1>4, <1>5

LEMMA LimboIs ==
  ASSUME NEW t \in Texts
  PROVE  \E P : Reaching(P, Len(t), Shows(t), GoesOn(t)) /\ (IsLimbo(t) <=> 1 \in P)
<1>. DEFINE L == Len(t)
            Body(g, n) ==
              LET include == At(t, n) = "include" /\ At(t, n + 1) = " "
                  to == IF include THEN Skip(t, n + 1, {" "}) ELSE n
              IN  /\ n <= Len(t)
                  /\ \/ t[n] = "implement" /\ At(t, n + 1) = " "
                     \/ include /\ At(t, to) = "\"" /\ At(t, to + 1) = ";"
                     \/ t[n] = "return" /\ \E m \in n .. Len(t) : t[m] = ";"
                     \/ t[n] = "case" /\ \E m \in n .. Len(t) : t[m] = "{"
                     \/ g[to + 1]
            Rec(g) == g = [n \in 1 .. Len(t) + 2 |-> Body(g, n)]
            From == CHOOSE g : Rec(g)
<1>0. L \in Nat
  BY TextAt
<1>1. IsLimbo(t) <=> From[1]
  BY DEF IsLimbo
<1>2. ASSUME NEW g, NEW n \in 1 .. L + 2
      PROVE  Body(g, n) <=> n <= L /\ (n \in Shows(t) \/ g[GoesOn(t)[n]])
  <2>1. n <= L => n \in 1 .. L /\ GoesOn(t)[n] = Included(t, n) + 1
    BY <1>0 DEF GoesOn
  <2>. QED
    BY <2>1 DEF Shows, Follows, Including, Included
<1>3. \A g, n : Body(g, n) \in BOOLEAN
  OBVIOUS
<1>4. \A n \in 1 .. L : GoesOn(t)[n] \in n + 1 .. L + 2
  <2>. SUFFICES ASSUME NEW n \in 1 .. L PROVE GoesOn(t)[n] \in n + 1 .. L + 2
    OBVIOUS
  <2>1. GoesOn(t)[n] = Included(t, n) + 1
    BY DEF GoesOn
  <2>2. Included(t, n) \in n .. L + 1
    BY IncludedIs
  <2>. QED
    BY <1>0, <2>1, <2>2
<1>5. PICK P : Reaching(P, L, Shows(t), GoesOn(t))
  BY <1>0, <1>4, ReachingExists
<1>. HIDE DEF Body
<1>6. Rec([n \in 1 .. L + 2 |-> IF n \in P THEN TRUE ELSE FALSE])
  <2>. DEFINE g == [n \in 1 .. L + 2 |-> IF n \in P THEN TRUE ELSE FALSE]
  <2>1. ASSUME NEW n \in 1 .. L + 2
        PROVE  Body(g, n) = IF n \in P THEN TRUE ELSE FALSE
    <3>1. n <= L => GoesOn(t)[n] \in 1 .. L + 2
      BY <1>0, <1>4
    <3>2. n <= L => (g[GoesOn(t)[n]] <=> GoesOn(t)[n] \in P)
      BY <3>1
    <3>. HIDE DEF g
    <3>3. Body(g, n) <=> n <= L /\ (n \in Shows(t) \/ g[GoesOn(t)[n]])
      BY <1>2
    <3>4. n \in P <=> n <= L /\ (n \in Shows(t) \/ GoesOn(t)[n] \in P)
      BY <1>5 DEF Reaching
    <3>. QED
      BY <1>3, <3>2, <3>3, <3>4
  <2>. QED
    BY <2>1
<1>7. Rec(From)
  <2>. HIDE DEF Rec
  <2>. QED
    BY <1>6
<1>. HIDE DEF From
<1>8. \A n \in 1 .. L + 2 : From[n] = Body(From, n)
  <2>1. From = [n \in 1 .. L + 2 |-> Body(From, n)]
    BY <1>7
  <2>. QED
    BY <2>1, Zenon
<1>. HIDE DEF Rec
<1>9. \A n \in 1 .. L + 2 :
        From[n] <=> n <= L /\ (n \in Shows(t) \/ From[GoesOn(t)[n]])
  BY <1>2, <1>8
<1>. DEFINE Q == {n \in 1 .. L + 2 : From[n]}
<1>10. Reaching(Q, L, Shows(t), GoesOn(t))
  <2>1. \A n \in 1 .. L + 2 : n <= L => n \in 1 .. L /\ GoesOn(t)[n] \in 1 .. L + 2
    BY <1>0, <1>4
  <2>2. \A n \in 1 .. L + 2 : n \in Q <=> n <= L /\ (n \in Shows(t) \/ GoesOn(t)[n] \in Q)
    BY <1>9, <2>1
  <2>. QED
    BY <2>2 DEF Reaching
<1>11. IsLimbo(t) <=> 1 \in Q
  BY <1>0, <1>1
<1>. QED
  BY <1>10, <1>11

LEMMA AroundWalk ==
  ASSUME NEW t \in Texts, NEW u \in Texts, NEW d, Around(t, u, d), NEW n \in 1 .. Len(t)
  PROVE  /\ n + d \in 1 .. Len(u)
         /\ n + d \in Shows(u) <=> n \in Shows(t)
         /\ GoesOn(u)[n + d] = GoesOn(t)[n] + d
<1>. DEFINE blank == " "
            blanks == {" "}
            implement == "implement"
            include == "include"
            quotes == "\""
            stop == ";"
            return == "return"
            case == "case"
            brace == "{"
<1>2. /\ include \notin {"nl", "end"} /\ blank \notin {"nl", "end"}
      /\ "nl" \notin blanks /\ "end" \notin blanks
      /\ quotes \notin {"nl", "end"} /\ stop \notin {"nl", "end"}
      /\ brace \notin {"nl", "end"}
  OBVIOUS
<1>i. \A v, k : /\ Including(v, k) <=> At(v, k) = include /\ At(v, k + 1) = blank
                /\ Included(v, k) = IF Including(v, k) THEN Skip(v, k + 1, blanks) ELSE k
  BY DEF Including, Included
<1>s. \A v : \A k \in 1 .. Len(v) : k \in Shows(v) <=>
        \/ v[k] = implement /\ At(v, k + 1) = blank
        \/ /\ Including(v, k)
           /\ At(v, Included(v, k)) = quotes /\ At(v, Included(v, k) + 1) = stop
        \/ v[k] = return /\ Follows(v, k, stop)
        \/ v[k] = case /\ Follows(v, k, brace)
  BY DEF Shows
<1>. HIDE DEF blank, blanks, implement, include, quotes, stop, return, case, brace
<1>0. Len(t) \in Nat /\ d \in {0, 1} /\ Len(u) = Len(t) + 1
  BY TextAt DEF Around
<1>3. /\ \A m \in 1 .. Len(t) : m + d \in 1 .. Len(u) /\ u[m + d] = t[m]
      /\ \A k \in 1 .. Len(u) : u[k] # "nl" => k - d \in 1 .. Len(t) /\ (k - d) + d = k
  BY <1>0 DEF Around
<1>4. n + d \in 1 .. Len(u) /\ u[n + d] = t[n]
  BY <1>3
<1>5. ASSUME NEW s, s # "nl" PROVE Follows(u, n + d, s) <=> Follows(t, n, s)
  <2>1. ASSUME NEW m \in n .. Len(t), t[m] = s PROVE Follows(u, n + d, s)
    <3>1. m \in 1 .. Len(t) /\ m + d \in n + d .. Len(u)
      BY <1>0
    <3>. QED
      BY <1>3, <2>1, <3>1 DEF Follows
  <2>2. ASSUME NEW k \in n + d .. Len(u), u[k] = s PROVE Follows(t, n, s)
    <3>1. k \in 1 .. Len(u)
      BY <1>0
    <3>2. PICK m : m = k - d
      OBVIOUS
    <3>3. m \in 1 .. Len(t) /\ m + d = k
      BY <1>3, <1>5, <2>2, <3>1, <3>2
    <3>4. m \in n .. Len(t)
      BY <1>0, <3>3
    <3>5. t[m] = s
      BY <1>3, <2>2, <3>3
    <3>. QED
      BY <3>4, <3>5 DEF Follows
  <2>. QED
    BY <2>1, <2>2 DEF Follows
<1>6. ASSUME NEW k \in 1 .. Len(t) + 2, NEW w, w \notin {"nl", "end"}
      PROVE  At(u, k + d) = w <=> At(t, k) = w
  <2>1. k \in Int /\ w # "nl" /\ w # "end"
    BY <1>0, <1>6
  <2>. QED
    BY <2>1, AroundAt
<1>7. /\ n \in 1 .. Len(t) + 2 /\ n + 1 \in 1 .. Len(t) + 2 /\ n + 1 \in 1 .. Len(t) + 1
      /\ (n + d) + 1 = (n + 1) + d
  BY <1>0
<1>8. /\ At(u, (n + d) + 1) = blank <=> At(t, n + 1) = blank
      /\ Including(u, n + d) <=> Including(t, n)
  BY <1>2, <1>i, <1>6, <1>7
<1>9. PICK q : q = Included(t, n)
  OBVIOUS
<1>10. q \in n .. Len(t) + 1
  BY <1>9, IncludedIs
<1>11. Included(u, n + d) = q + d
  <2>1. Skip(u, (n + 1) + d, blanks) = Skip(t, n + 1, blanks) + d
    BY <1>2, <1>7, AroundSkip
  <2>. QED
    BY <1>i, <1>7, <1>8, <1>9, <2>1
<1>12. q \in 1 .. Len(t) + 2 /\ q + 1 \in 1 .. Len(t) + 2 /\ (q + d) + 1 = (q + 1) + d
  BY <1>0, <1>10
<1>13. /\ At(u, q + d) = quotes <=> At(t, q) = quotes
       /\ At(u, (q + d) + 1) = stop <=> At(t, q + 1) = stop
  BY <1>2, <1>6, <1>12
<1>14. /\ Follows(u, n + d, stop) <=> Follows(t, n, stop)
       /\ Follows(u, n + d, brace) <=> Follows(t, n, brace)
  BY <1>2, <1>5
<1>15. n + d \in Shows(u) <=> n \in Shows(t)
  BY <1>s, <1>4, <1>8, <1>9, <1>11, <1>13, <1>14
<1>16. GoesOn(u)[n + d] = (q + d) + 1 /\ GoesOn(t)[n] = q + 1
  BY <1>4, <1>9, <1>11 DEF GoesOn
<1>. QED
  BY <1>4, <1>12, <1>15, <1>16

LEMMA AroundLimbo ==
  ASSUME NEW t \in Texts, NEW u \in Texts, NEW d, Around(t, u, d)
  PROVE  IsLimbo(u) <=> IsLimbo(t)
<1>. DEFINE L == Len(t)
<1>0. L \in Nat /\ d \in {0, 1} /\ Len(u) = L + 1
  BY TextAt DEF Around
<1>1. PICK P : Reaching(P, L, Shows(t), GoesOn(t)) /\ (IsLimbo(t) <=> 1 \in P)
  BY LimboIs
<1>2. PICK Q : Reaching(Q, L + 1, Shows(u), GoesOn(u)) /\ (IsLimbo(u) <=> 1 \in Q)
  <2>1. \E Q : Reaching(Q, Len(u), Shows(u), GoesOn(u)) /\ (IsLimbo(u) <=> 1 \in Q)
    BY LimboIs
  <2>. QED
    BY <1>0, <2>1
<1>3. \A n \in 1 .. L + 2 : n \in P <=> n <= L /\ (n \in Shows(t) \/ GoesOn(t)[n] \in P)
  BY <1>1 DEF Reaching
<1>4. \A k \in 1 .. L + 3 : k \in Q <=> k <= L + 1 /\ (k \in Shows(u) \/ GoesOn(u)[k] \in Q)
  <2>1. (L + 1) + 2 = L + 3
    BY <1>0
  <2>. QED
    BY <1>2, <2>1 DEF Reaching
\* The end of a line that is added is passed over.
<1>5. ASSUME NEW k \in 1 .. L + 1, k - d \notin 1 .. L
      PROVE  k \in Q <=> k + 1 \in Q
  <2>1. k \in 1 .. Len(u) /\ u[k] = "nl"
    BY <1>0, <1>5 DEF Around
  <2>2. At(u, k) = "nl"
    BY <2>1, TextAt
  <2>3. ~Including(u, k)
    BY <2>2 DEF Including
  <2>4. k \notin Shows(u)
    BY <2>1, <2>3 DEF Shows
  <2>5. GoesOn(u)[k] = k + 1
    BY <2>1, <2>3 DEF GoesOn, Included
  <2>. QED
    BY <1>0, <1>4, <2>4, <2>5
<1>6. ASSUME NEW n \in 1 .. L + 2, n > L PROVE n \notin P /\ n + d \notin Q
  <2>1. n \notin P
    BY <1>0, <1>3, <1>6
  <2>2. n + d \in 1 .. L + 3
    BY <1>0
  <2>3. CASE n + d > L + 1
    BY <1>0, <1>4, <2>1, <2>2, <2>3
  <2>4. CASE n + d <= L + 1
    <3>1. PICK k \in 1 .. L + 1 : k = n + d
      BY <1>0, <2>2, <2>4
    <3>2. k - d \notin 1 .. L /\ k + 1 \in 1 .. L + 3 /\ ~(k + 1 <= L + 1)
      BY <1>0, <1>6, <3>1
    <3>3. k + 1 \notin Q
      BY <1>4, <3>2
    <3>. QED
      BY <1>5, <2>1, <3>1, <3>2, <3>3
  <2>. QED
    BY <1>0, <2>3, <2>4
<1>. DEFINE S == {j \in Nat : \A n \in 1 .. L + 2 : n + j > L => (n + d \in Q <=> n \in P)}
<1>7. 0 \in S
  BY <1>0, <1>6
<1>8. ASSUME NEW j \in Nat, j \in S PROVE j + 1 \in S
  <2>. SUFFICES ASSUME NEW n \in 1 .. L + 2, n + (j + 1) > L
                PROVE  n + d \in Q <=> n \in P
    OBVIOUS
  <2>1. CASE n > L
    BY <1>6, <2>1
  <2>2. CASE n <= L
    <3>1. n \in 1 .. Len(t)
      BY <1>0, <2>2
    <3>2. PICK m : m = GoesOn(t)[n]
      OBVIOUS
    <3>3. m \in n + 1 .. L + 2
      <4>1. m = Included(t, n) + 1
        BY <3>1, <3>2 DEF GoesOn
      <4>2. Included(t, n) \in n .. L + 1
        BY <3>1, IncludedIs
      <4>. QED
        BY <1>0, <4>1, <4>2
    <3>4. m \in 1 .. L + 2 /\ m + j > L
      BY <1>0, <3>3
    <3>5. m + d \in Q <=> m \in P
      BY <1>8, <3>4
    <3>6. /\ n + d \in Shows(u) <=> n \in Shows(t)
          /\ GoesOn(u)[n + d] = m + d
      BY <3>1, <3>2, AroundWalk
    <3>7. n + d \in 1 .. L + 3 /\ n + d <= L + 1
      BY <1>0, <2>2
    <3>8. n + d \in Q <=> n + d \in Shows(u) \/ m + d \in Q
      BY <1>4, <3>6, <3>7
    <3>9. n \in P <=> n \in Shows(t) \/ m \in P
      BY <1>3, <2>2, <3>2
    <3>. QED
      BY <3>5, <3>6, <3>8, <3>9
  <2>. QED
    BY <1>0, <2>1, <2>2
<1>9. L + 1 \in S
  <2>. HIDE DEF S
  <2>1. \A j \in Nat : j \in S
    BY <1>7, <1>8, NatSet
  <2>. QED
    BY <1>0, <2>1
<1>10. 1 + d \in Q <=> 1 \in P
  <2>1. 1 \in 1 .. L + 2 /\ 1 + (L + 1) > L
    BY <1>0
  <2>. QED
    BY <1>9, <2>1
<1>11. d = 1 => (1 \in Q <=> 1 + d \in Q)
  BY <1>0, <1>5
<1>. QED
  BY <1>0, <1>1, <1>2, <1>10, <1>11

LEMMA LeadingR ==
  ASSUME NEW t \in Texts, NEW u \in Texts, Around(t, u, 1)
  PROVE  disambiguate_r(u) = disambiguate_r(t)
<1>. DEFINE rebol(v) == \E n \in DOMAIN v : v[n] = "rebol" /\ n < Len(v)
<1>0. /\ Len(t) \in Nat /\ Len(u) = Len(t) + 1
      /\ DOMAIN t = 1 .. Len(t) /\ DOMAIN u = 1 .. Len(u)
      /\ \A n \in 1 .. Len(t) : u[n + 1] = t[n]
      /\ \A k \in 1 .. Len(u) : k - 1 \notin 1 .. Len(t) => u[k] = "nl"
  BY TextAt DEF Around
<1>1. ASSUME rebol(t) PROVE rebol(u)
  <2>1. PICK n \in 1 .. Len(t) : t[n] = "rebol" /\ n < Len(t)
    BY <1>0, <1>1
  <2>2. n + 1 \in 1 .. Len(u) /\ n + 1 < Len(u)
    BY <1>0, <2>1
  <2>. QED
    BY <1>0, <2>1, <2>2
<1>2. ASSUME rebol(u) PROVE rebol(t)
  <2>1. PICK k \in 1 .. Len(u) : u[k] = "rebol" /\ k < Len(u)
    BY <1>0, <1>2
  <2>2. u[k] # "nl"
    BY <2>1
  <2>3. PICK n : n = k - 1
    OBVIOUS
  <2>4. n \in 1 .. Len(t) /\ n + 1 = k /\ n < Len(t)
    BY <1>0, <2>1, <2>2, <2>3
  <2>. QED
    BY <1>0, <2>1, <2>4
<1>. QED
  BY <1>1, <1>2 DEF disambiguate_r

-----------------------------------------------------------------------------
(* The constructs of Puppet, whose parts may be lines apart.               *)

\* The same place in both texts, or a place behind all that t holds.
Meets(t, u, d, m, q) ==
    \/ m \in 1 .. Len(t) /\ q = m + d
    \/ m = Len(t) + 1 /\ q \in Len(t) + 1 + d .. Len(u) + 1

LEMMA MeetsSkip ==
  ASSUME NEW t \in Texts, NEW u \in Texts, NEW d, Around(t, u, d), NEW m, NEW q,
         Meets(t, u, d, m, q), NEW S, "end" \notin S
  PROVE  Meets(t, u, d, Skip(t, m, S), Skip(u, q, S))
<1>0. /\ Len(t) \in Nat /\ d \in {0, 1} /\ Len(u) = Len(t) + 1
      /\ \A n \in 1 .. Len(t) : u[n + d] = t[n]
  BY TextAt DEF Around
<1>1. m \in 1 .. Len(t) + 1 /\ q \in 1 .. Len(u) + 1 /\ q \in Int /\ m + d <= q
  BY <1>0 DEF Meets
<1>2. PICK r, s : r = Skip(t, m, S) /\ s = Skip(u, q, S)
  OBVIOUS
<1>3. /\ r \in m .. Len(t) + 1 /\ At(t, r) \notin S
      /\ \A k \in m .. r - 1 : t[k] \in S
  BY <1>1, <1>2, SkipIs
<1>4. /\ s \in q .. Len(u) + 1 /\ At(u, s) \notin S
      /\ \A k \in q .. s - 1 : u[k] \in S
  BY <1>1, <1>2, SkipIs
<1>5. CASE r \in 1 .. Len(t)
  <2>1. q = m + d
    BY <1>0, <1>1, <1>3, <1>5 DEF Meets
  <2>2. r + d \in q .. Len(u) + 1 /\ r + d \in 1 .. Len(u)
    BY <1>0, <1>1, <1>3, <1>5, <2>1
  <2>3. At(u, r + d) = At(t, r)
    BY <1>0, <1>5, <2>2, TextAt
  <2>4. ASSUME NEW k \in q .. (r + d) - 1 PROVE u[k] \in S
    <3>1. PICK j : j = k - d
      OBVIOUS
    <3>2. j \in m .. r - 1 /\ j \in 1 .. Len(t) /\ j + d = k
      BY <1>0, <1>1, <1>3, <1>5, <2>1, <2>4, <3>1
    <3>. QED
      BY <1>0, <1>3, <3>2
  <2>5. Skip(u, q, S) = r + d
    BY <1>1, <1>3, <2>2, <2>3, <2>4, SkipOnly
  <2>. QED
    BY <1>2, <1>5, <2>5 DEF Meets
<1>6. CASE r = Len(t) + 1
  <2>1. ~(s < Len(t) + 1 + d)
    <3>. SUFFICES ASSUME s < Len(t) + 1 + d PROVE FALSE
      OBVIOUS
    <3>1. PICK j : j = s - d
      OBVIOUS
    <3>2. j \in m .. r - 1 /\ j \in 1 .. Len(t) /\ j + d = s /\ s \in 1 .. Len(u)
      BY <1>0, <1>1, <1>3, <1>4, <1>6, <3>1
    <3>3. u[s] \in S
      BY <1>0, <1>3, <3>2
    <3>. QED
      BY <1>4, <3>2, <3>3, TextAt
  <2>2. s \in Len(t) + 1 + d .. Len(u) + 1
    BY <1>0, <1>1, <1>4, <2>1
  <2>. QED
    BY <1>2, <1>6, <2>2 DEF Meets
<1>. QED
  BY <1>0, <1>1, <1>3, <1>5, <1>6

LEMMA MeetsAt ==
  ASSUME NEW t \in Texts, NEW u \in Texts, NEW d, Around(t, u, d), NEW m, NEW q,
         Meets(t, u, d, m, q), NEW X, "nl" \notin X, "end" \notin X
  PROVE  /\ At(u, q) \in X <=> At(t, m) \in X
         /\ At(t, m) \in X => m \in 1 .. Len(t) /\ q = m + d
<1>0. /\ Len(t) \in Nat /\ d \in {0, 1} /\ Len(u) = Len(t) + 1
      /\ \A n \in 1 .. Len(t) : u[n + d] = t[n]
      /\ \A k \in 1 .. Len(u) : k - d \notin 1 .. Len(t) => u[k] = "nl"
  BY TextAt DEF Around
<1>1. CASE m \in 1 .. Len(t) /\ q = m + d
  <2>1. q \in 1 .. Len(u) /\ u[q] = t[m]
    BY <1>0, <1>1
  <2>. QED
    BY <1>1, <2>1, TextAt
<1>2. CASE m = Len(t) + 1 /\ q \in Len(t) + 1 + d .. Len(u) + 1
  <2>1. At(t, m) = "end"
    BY <1>0, <1>2, TextAt
  <2>2. At(u, q) \in {"nl", "end"}
    <3>1. CASE q \in 1 .. Len(u)
      <4>1. q - d \notin 1 .. Len(t)
        BY <1>0, <1>2
      <4>. QED
        BY <1>0, <3>1, <4>1, TextAt
    <3>2. CASE q \notin 1 .. Len(u)
      <4>1. q \in Int
        BY <1>0, <1>2
      <4>. QED
        BY <3>2, <4>1, TextAt
    <3>. QED
      BY <3>1, <3>2
  <2>. QED
    BY <2>1, <2>2
<1>. QED
  BY <1>1, <1>2 DEF Meets

\* What is behind a blank, or behind more of them.
Parted(t, n) == At(t, n + 1) \in Blanks
NextPart(t, n) == Skip(t, n + 1, Blanks)

LEMMA MeetsNext ==
  ASSUME NEW t \in Texts, NEW u \in Texts, NEW d, Around(t, u, d), NEW n \in 1 .. Len(t)
  PROVE  /\ Meets(t, u, d, NextPart(t, n), NextPart(u, n + d))
         /\ \A X : /\ "nl" \notin X /\ "end" \notin X
                   => (Parted(u, n + d) /\ At(u, NextPart(u, n + d)) \in X
                         <=> Parted(t, n) /\ At(t, NextPart(t, n)) \in X)
<1>0. Len(t) \in Nat /\ d \in {0, 1} /\ Len(u) = Len(t) + 1
  BY TextAt DEF Around
<1>1. Meets(t, u, d, n + 1, (n + d) + 1)
  BY <1>0 DEF Meets
<1>2. "end" \notin Blanks
  BY DEF Blanks
<1>3. Meets(t, u, d, NextPart(t, n), NextPart(u, n + d))
  BY <1>1, <1>2, MeetsSkip DEF NextPart
<1>4. n < Len(t) => (Parted(u, n + d) <=> Parted(t, n))
  <2>. SUFFICES ASSUME n < Len(t) PROVE Parted(u, n + d) <=> Parted(t, n)
    OBVIOUS
  <2>1. n + 1 \in 1 .. Len(t) /\ (n + d) + 1 \in 1 .. Len(u) /\ (n + 1) + d = (n + d) + 1
    BY <1>0
  <2>2. At(u, (n + d) + 1) = At(t, n + 1)
    BY <2>1, TextAt DEF Around
  <2>. QED
    BY <2>2 DEF Parted
<1>5. n = Len(t) => At(t, NextPart(t, n)) = "end"
  <2>. SUFFICES ASSUME n = Len(t) PROVE At(t, NextPart(t, n)) = "end"
    OBVIOUS
  <2>1. PICK s : s = Skip(t, n + 1, Blanks)
    OBVIOUS
  <2>2. n + 1 \in 1 .. Len(t) + 1
    BY <1>0
  <2>3. s \in n + 1 .. Len(t) + 1
    BY <1>2, <2>1, <2>2, SkipIs
  <2>4. s \in Int /\ s \notin 1 .. Len(t)
    BY <1>0, <2>3
  <2>. QED
    BY <2>1, <2>4, TextAt DEF NextPart
<1>6. ASSUME NEW X, "nl" \notin X, "end" \notin X
      PROVE  Parted(u, n + d) /\ At(u, NextPart(u, n + d)) \in X
               <=> Parted(t, n) /\ At(t, NextPart(t, n)) \in X
  <2>1. At(u, NextPart(u, n + d)) \in X <=> At(t, NextPart(t, n)) \in X
    BY <1>3, <1>6, MeetsAt
  <2>2. n < Len(t) \/ n = Len(t)
    BY <1>0
  <2>. QED
    BY <1>4, <1>5, <1>6, <2>1, <2>2
<1>. QED
  BY <1>3, <1>6

Called == Words \cup {":", "-"}
Behind(t, from) == Skip(t, Skip(t, from, Called), Blanks)
Named(t, from, next) == At(t, from) \in Called /\ At(t, Behind(t, from)) \in next

\* A class that inherits, as it goes on behind its name.
Inheriting(t, from) ==
    LET inherits == Behind(t, from)
    IN  /\ Named(t, from, {"inherits"})
        /\ Parted(t, inherits) /\ Named(t, NextPart(t, inherits), {"(", "{"})

\* A quote, and what may be in it.
Quoted(t, from) == At(t, from) = "\"" /\ At(t, from + 1) \in Called

LEMMA PuppetAtIs ==
  ASSUME NEW t, NEW n
  PROVE  PuppetAt(t, n) <=>
           /\ Parted(t, n)
           /\ LET from == NextPart(t, n)
              IN  \/ t[n] = "require" /\ At(t, from) = "=>"
                  \/ t[n] = "import" /\ At(t, from) = "\""
                  \/ t[n] = "include" /\ At(t, from) \in Called
                  \/ t[n] = "include" /\ Quoted(t, from)
                  \/ t[n] = "define" /\ Named(t, from, {"("})
                  \/ t[n] = "node" /\ Named(t, from, {"{"})
                  \/ t[n] = "class" /\ Named(t, from, {"(", "{"})
                  \/ t[n] = "class" /\ Inheriting(t, from)
  BY DEF PuppetAt, Parted, NextPart, Called, Behind, Named, Inheriting, Quoted

LEMMA CalledAre == "nl" \notin Called /\ "end" \notin Called
  BY DEF Called, Words

LEMMA MeetsBehind ==
  ASSUME NEW t \in Texts, NEW u \in Texts, NEW d, Around(t, u, d), NEW m, NEW q,
         Meets(t, u, d, m, q)
  PROVE  /\ Meets(t, u, d, Behind(t, m), Behind(u, q))
         /\ \A X : "nl" \notin X /\ "end" \notin X => (Named(u, q, X) <=> Named(t, m, X))
<1>1. "end" \notin Called /\ "end" \notin Blanks
  BY CalledAre DEF Blanks
<1>2. Meets(t, u, d, Skip(t, m, Called), Skip(u, q, Called))
  BY <1>1, MeetsSkip
<1>3. Meets(t, u, d, Behind(t, m), Behind(u, q))
  BY <1>1, <1>2, MeetsSkip DEF Behind
<1>4. At(u, q) \in Called <=> At(t, m) \in Called
  BY CalledAre, MeetsAt
<1>5. ASSUME NEW X, "nl" \notin X, "end" \notin X PROVE Named(u, q, X) <=> Named(t, m, X)
  <2>1. At(u, Behind(u, q)) \in X <=> At(t, Behind(t, m)) \in X
    BY <1>3, <1>5, MeetsAt
  <2>. QED
    BY <1>4, <2>1 DEF Named
<1>. QED
  BY <1>3, <1>5

LEMMA MeetsInheriting ==
  ASSUME NEW t \in Texts, NEW u \in Texts, NEW d, Around(t, u, d), NEW m, NEW q,
         Meets(t, u, d, m, q)
  PROVE  Inheriting(u, q) <=> Inheriting(t, m)
<1>. DEFINE word == {"inherits"}
            open == {"(", "{"}
<1>1. "nl" \notin word /\ "end" \notin word /\ "nl" \notin open /\ "end" \notin open
  OBVIOUS
<1>2. \A v, k : Inheriting(v, k) <=>
                  /\ Named(v, k, word)
                  /\ Parted(v, Behind(v, k)) /\ Named(v, NextPart(v, Behind(v, k)), open)
  BY DEF Inheriting
<1>. HIDE DEF word, open
<1>3. Named(u, q, word) <=> Named(t, m, word)
  BY <1>1, MeetsBehind
<1>4. PICK i, j : i = Behind(t, m) /\ j = Behind(u, q)
  OBVIOUS
<1>5. Meets(t, u, d, i, j)
  BY <1>4, MeetsBehind
<1>6. ASSUME Named(t, m, word)
      PROVE  Parted(u, j) /\ Named(u, NextPart(u, j), open)
               <=> Parted(t, i) /\ Named(t, NextPart(t, i), open)
  <2>1. At(t, i) \in word
    BY <1>4, <1>6 DEF Named
  <2>2. i \in 1 .. Len(t) /\ j = i + d
    BY <1>1, <1>5, <2>1, MeetsAt
  <2>3. Meets(t, u, d, NextPart(t, i), NextPart(u, j))
    BY <2>2, MeetsNext
  <2>4. Named(u, NextPart(u, j), open) <=> Named(t, NextPart(t, i), open)
    BY <1>1, <2>3, MeetsBehind
  <2>5. Parted(u, j) /\ At(u, NextPart(u, j)) \in Called
          <=> Parted(t, i) /\ At(t, NextPart(t, i)) \in Called
    BY <2>2, CalledAre, MeetsNext
  <2>6. /\ Named(u, NextPart(u, j), open) => At(u, NextPart(u, j)) \in Called
        /\ Named(t, NextPart(t, i), open) => At(t, NextPart(t, i)) \in Called
    BY DEF Named
  <2>. QED
    BY <2>4, <2>5, <2>6
<1>. QED
  BY <1>2, <1>3, <1>4, <1>6

LEMMA MeetsQuoted ==
  ASSUME NEW t \in Texts, NEW u \in Texts, NEW d, Around(t, u, d), NEW m, NEW q,
         Meets(t, u, d, m, q)
  PROVE  Quoted(u, q) <=> Quoted(t, m)
<1>. DEFINE quotes == {"\""}
<1>0. Len(t) \in Nat /\ d \in {0, 1} /\ Len(u) = Len(t) + 1
  BY TextAt DEF Around
<1>1. "nl" \notin quotes /\ "end" \notin quotes
  OBVIOUS
<1>2. \A v, k : Quoted(v, k) <=> At(v, k) \in quotes /\ At(v, k + 1) \in Called
  BY DEF Quoted
<1>. HIDE DEF quotes
<1>3. /\ At(u, q) \in quotes <=> At(t, m) \in quotes
      /\ At(t, m) \in quotes => m \in 1 .. Len(t) /\ q = m + d
  BY <1>1, MeetsAt
<1>4. ASSUME m \in 1 .. Len(t), q = m + d
      PROVE  At(u, q + 1) \in Called <=> At(t, m + 1) \in Called
  <2>1. Meets(t, u, d, m + 1, q + 1)
    BY <1>0, <1>4 DEF Meets
  <2>. QED
    BY <2>1, CalledAre, MeetsAt
<1>. QED
  BY <1>2, <1>3, <1>4

LEMMA AroundPuppetAt ==
  ASSUME NEW t \in Texts, NEW u \in Texts, NEW d, Around(t, u, d), NEW n \in 1 .. Len(t)
  PROVE  PuppetAt(u, n + d) <=> PuppetAt(t, n)
<1>. DEFINE arrow == {"=>"}
            quotes == {"\""}
            paren == {"("}
            brace == {"{"}
            open == {"(", "{"}
<1>1. /\ \A X \in {arrow, quotes, paren, brace, open} : "nl" \notin X /\ "end" \notin X
      /\ "nl" \notin Called /\ "end" \notin Called
  BY CalledAre
<1>2. \A v, k : PuppetAt(v, k) <=>
        /\ Parted(v, k)
        /\ \/ v[k] = "require" /\ At(v, NextPart(v, k)) \in arrow
           \/ v[k] = "import" /\ At(v, NextPart(v, k)) \in quotes
           \/ v[k] = "include" /\ At(v, NextPart(v, k)) \in Called
           \/ v[k] = "include" /\ Quoted(v, NextPart(v, k))
           \/ v[k] = "define" /\ Named(v, NextPart(v, k), paren)
           \/ v[k] = "node" /\ Named(v, NextPart(v, k), brace)
           \/ v[k] = "class" /\ Named(v, NextPart(v, k), open)
           \/ v[k] = "class" /\ Inheriting(v, NextPart(v, k))
  BY PuppetAtIs
<1>. HIDE DEF arrow, quotes, paren, brace, open
<1>3. PICK k, a, b : k = n + d /\ a = NextPart(t, n) /\ b = NextPart(u, k)
  OBVIOUS
<1>4. u[k] = t[n]
  BY <1>3 DEF Around
<1>5. /\ Meets(t, u, d, a, b)
      /\ \A X : /\ "nl" \notin X /\ "end" \notin X
                => (Parted(u, k) /\ At(u, b) \in X <=> Parted(t, n) /\ At(t, a) \in X)
  BY <1>3, MeetsNext
<1>6. /\ Parted(u, k) /\ At(u, b) \in arrow <=> Parted(t, n) /\ At(t, a) \in arrow
      /\ Parted(u, k) /\ At(u, b) \in quotes <=> Parted(t, n) /\ At(t, a) \in quotes
      /\ Parted(u, k) /\ At(u, b) \in Called <=> Parted(t, n) /\ At(t, a) \in Called
  BY <1>1, <1>5
<1>7. /\ Named(u, b, paren) <=> Named(t, a, paren)
      /\ Named(u, b, brace) <=> Named(t, a, brace)
      /\ Named(u, b, open) <=> Named(t, a, open)
  BY <1>1, <1>5, MeetsBehind
<1>8. Inheriting(u, b) <=> Inheriting(t, a)
  BY <1>5, MeetsInheriting
<1>9. /\ Quoted(u, b) <=> Quoted(t, a)
      /\ Quoted(u, b) => At(u, b) \in quotes
      /\ Quoted(t, a) => At(t, a) \in quotes
  <2>1. Quoted(u, b) <=> Quoted(t, a)
    BY <1>5, MeetsQuoted
  <2>2. \A v, k1 : Quoted(v, k1) => At(v, k1) \in {"\""}
    BY DEF Quoted
  <2>. QED
    BY <2>1, <2>2 DEF quotes
<1>10. /\ \A X : Named(u, b, X) => At(u, b) \in Called
       /\ \A X : Named(t, a, X) => At(t, a) \in Called
       /\ Inheriting(u, b) => At(u, b) \in Called
       /\ Inheriting(t, a) => At(t, a) \in Called
  BY DEF Named, Inheriting
<1>11. /\ Parted(u, k) /\ Quoted(u, b) <=> Parted(t, n) /\ Quoted(t, a)
       /\ Parted(u, k) /\ Named(u, b, paren) <=> Parted(t, n) /\ Named(t, a, paren)
       /\ Parted(u, k) /\ Named(u, b, brace) <=> Parted(t, n) /\ Named(t, a, brace)
       /\ Parted(u, k) /\ Named(u, b, open) <=> Parted(t, n) /\ Named(t, a, open)
       /\ Parted(u, k) /\ Inheriting(u, b) <=> Parted(t, n) /\ Inheriting(t, a)
  BY <1>6, <1>7, <1>8, <1>9, <1>10
<1>. QED
  BY <1>2, <1>3, <1>4, <1>6, <1>11

\* Before the place n there are only blanks on its line.
Foremost(t, n) ==
    \E row \in 1 .. n : /\ row = 1 \/ t[row - 1] = "nl"
                        /\ \A m \in row .. n - 1 : t[m] \in Blanks

LEMMA AroundPuppet ==
  ASSUME NEW t \in Texts, NEW u \in Texts, NEW d, Around(t, u, d)
  PROVE  Puppet(u) <=> Puppet(t)
<1>0. /\ Len(t) \in Nat /\ d \in {0, 1} /\ Len(u) = Len(t) + 1
      /\ DOMAIN t = 1 .. Len(t) /\ DOMAIN u = 1 .. Len(u)
      /\ \A n \in 1 .. Len(t) : n + d \in 1 .. Len(u) /\ u[n + d] = t[n]
      /\ \A k \in 1 .. Len(u) : k - d \notin 1 .. Len(t) => u[k] = "nl"
  BY TextAt DEF Around
<1>1. \A v : Puppet(v) <=> \E n \in DOMAIN v : Foremost(v, n) /\ PuppetAt(v, n)
  BY DEF Puppet, Foremost
<1>2. ASSUME NEW n \in 1 .. Len(t), Foremost(t, n) PROVE Foremost(u, n + d)
  <2>1. PICK row \in 1 .. n : /\ row = 1 \/ t[row - 1] = "nl"
                              /\ \A m \in row .. n - 1 : t[m] \in Blanks
    BY <1>2 DEF Foremost
  <2>2. row + d \in 1 .. n + d
    BY <1>0, <2>1
  <2>3. row + d = 1 \/ u[(row + d) - 1] = "nl"
    <3>1. CASE row = 1
      <4>1. d = 1 => 1 \in 1 .. Len(u) /\ 1 - d \notin 1 .. Len(t) /\ (row + d) - 1 = 1
        BY <1>0, <3>1
      <4>. QED
        BY <1>0, <3>1, <4>1
    <3>2. CASE row # 1
      <4>1. row - 1 \in 1 .. Len(t) /\ (row - 1) + d = (row + d) - 1
        BY <1>0, <2>1, <3>2
      <4>. QED
        BY <1>0, <2>1, <3>2, <4>1
    <3>. QED
      BY <3>1, <3>2
  <2>4. ASSUME NEW k \in row + d .. (n + d) - 1 PROVE u[k] \in Blanks
    <3>1. PICK m : m = k - d
      OBVIOUS
    <3>2. m \in row .. n - 1 /\ m \in 1 .. Len(t) /\ m + d = k
      BY <1>0, <2>1, <3>1
    <3>. QED
      BY <1>0, <2>1, <3>2
  <2>. QED
    BY <2>2, <2>3, <2>4 DEF Foremost
<1>3. ASSUME NEW n \in 1 .. Len(t), Foremost(u, n + d) PROVE Foremost(t, n)
  <2>1. PICK row \in 1 .. n + d : /\ row = 1 \/ u[row - 1] = "nl"
                                  /\ \A k \in row .. (n + d) - 1 : u[k] \in Blanks
    BY <1>3 DEF Foremost
  <2>2. PICK here : here = IF row - d < 1 THEN 1 ELSE row - d
    OBVIOUS
  <2>3. here \in 1 .. n /\ row <= here + d
    BY <1>0, <2>1, <2>2
  <2>4. here = 1 \/ t[here - 1] = "nl"
    <3>. SUFFICES ASSUME here # 1 PROVE t[here - 1] = "nl"
      OBVIOUS
    <3>1. here - 1 \in 1 .. Len(t) /\ (here - 1) + d = row - 1 /\ row # 1
      BY <1>0, <2>1, <2>2, <2>3
    <3>. QED
      BY <1>0, <2>1, <3>1
  <2>5. ASSUME NEW m \in here .. n - 1 PROVE t[m] \in Blanks
    <3>1. m \in 1 .. Len(t) /\ m + d \in row .. (n + d) - 1
      BY <1>0, <2>1, <2>3
    <3>. QED
      BY <1>0, <2>1, <3>1
  <2>. QED
    BY <2>3, <2>4, <2>5 DEF Foremost
<1>4. \A v, k : PuppetAt(v, k) => v[k] # "nl"
  BY PuppetAtIs
<1>5. ASSUME NEW k \in 1 .. Len(u), Foremost(u, k), PuppetAt(u, k)
      PROVE  \E n \in 1 .. Len(t) : Foremost(t, n) /\ PuppetAt(t, n)
  <2>1. k - d \in 1 .. Len(t)
    BY <1>0, <1>4, <1>5
  <2>2. PICK n \in 1 .. Len(t) : n = k - d
    BY <2>1
  <2>3. n + d = k
    BY <1>0, <2>2
  <2>. QED
    BY <1>3, <1>5, <2>3, AroundPuppetAt
<1>6. ASSUME NEW n \in 1 .. Len(t), Foremost(t, n), PuppetAt(t, n)
      PROVE  \E k \in 1 .. Len(u) : Foremost(u, k) /\ PuppetAt(u, k)
  <2>1. n + d \in 1 .. Len(u) /\ Foremost(u, n + d) /\ PuppetAt(u, n + d)
    BY <1>0, <1>2, <1>6, AroundPuppetAt
  <2>. QED
    BY <2>1
<1>. QED
  BY <1>0, <1>1, <1>5, <1>6

\* One at the end, behind all that is looked at.
LEMMA UpToTrailing ==
  ASSUME NEW t \in Texts, t # <<>>, NEW u, u = t \o <<"nl">>,
         NEW most \in Nat, most <= Len(t)
  PROVE  UpTo(most, u) = UpTo(most, t)
<1>1. /\ u \in Texts /\ Len(u) = Len(t) + 1
      /\ \A n \in 1 .. Len(t) : u[n] = t[n]
  BY Trailing
<1>2. Len(t) \in Nat
  BY TextAt
<1>3. UpTo(most, u) = SubSeq(u, 1, most) /\ UpTo(most, t) = SubSeq(t, 1, most)
  <2>1. (IF Len(u) < most THEN Len(u) ELSE most) = most
    BY <1>1, <1>2
  <2>2. (IF Len(t) < most THEN Len(t) ELSE most) = most
    BY <1>2
  <2>. QED
    BY <2>1, <2>2 DEF UpTo
<1>4. ASSUME NEW v \in Texts, most <= Len(v)
      PROVE  SubSeq(v, 1, most) = [k \in 1 .. most |-> v[k]]
  <2>1. SubSeq(v, 1, most) = [k \in 1 .. most - 1 + 1 |-> v[1 + k - 1]]
    BY <1>4 DEF Texts
  <2>2. most - 1 + 1 = most /\ \A k \in 1 .. most : 1 + k - 1 = k
    OBVIOUS
  <2>. QED
    BY <2>1, <2>2
<1>5. \A k \in 1 .. most : u[k] = t[k]
  BY <1>1, <1>2
<1>6. most <= Len(u)
  BY <1>1, <1>2
<1>7. SubSeq(u, 1, most) = SubSeq(t, 1, most)
  BY <1>1, <1>4, <1>5, <1>6
<1>. QED
  BY <1>3, <1>7

LEMMA AroundPp ==
  ASSUME NEW t \in Texts, t # <<>>, NEW u \in Texts, u # <<>>, NEW d, Around(t, u, d),
         Len(t) < PuppetWithin
  PROVE  disambiguate_pp(u) = disambiguate_pp(t)
<1>1. PuppetWithin \in Nat /\ Len(t) \in Nat /\ Len(u) = Len(t) + 1
  BY DisambiguatorsAssumption, TextAt DEF Around
<1>2. UpTo(PuppetWithin, u) = u
  BY <1>1, UpToIs
<1>3. UpTo(PuppetWithin, t) = t
  BY <1>1, UpToIs
<1>4. Puppet(u) <=> Puppet(t)
  BY AroundPuppet
<1>. QED
  BY <1>2, <1>3, <1>4 DEF disambiguate_pp

LEMMA TrailingPp ==
  ASSUME NEW t \in Texts, t # <<>>, NEW u, u = t \o <<"nl">>
  PROVE  disambiguate_pp(u) = disambiguate_pp(t)
<1>1. PuppetWithin \in Nat /\ Len(t) \in Nat /\ u \in Texts /\ Len(u) = Len(t) + 1
  BY DisambiguatorsAssumption, TextAt, Trailing
<1>2. u # <<>>
  BY <1>1
<1>3. CASE Len(t) < PuppetWithin
  <2>1. Around(t, u, 0)
    BY TrailingAround
  <2>. QED
    BY <1>1, <1>2, <1>3, <2>1, AroundPp
<1>4. CASE PuppetWithin <= Len(t)
  <2>1. UpTo(PuppetWithin, u) = UpTo(PuppetWithin, t)
    BY <1>1, <1>4, UpToTrailing
  <2>. QED
    BY <1>2, <2>1 DEF disambiguate_pp
<1>. QED
  BY <1>1, <1>3, <1>4

-----------------------------------------------------------------------------
(* The theorem about empty lines.                                          *)

\* Those that look at the contents as a whole.
Whole == {"aspx", "asx", "cs", "dat", "def", "inc", "mod", "pro"}

LEMMA AroundWhole ==
  ASSUME NEW t \in Texts, NEW u \in Texts, NEW d, Around(t, u, d), NEW which \in Whole
  PROVE  AtOnce(which, u) = AtOnce(which, t)
<1>1. CASE which = "aspx"
  BY <1>1, AroundAspx DEF AtOnce
<1>2. CASE which \in {"asx", "dat", "def", "mod"}
  BY <1>2, AroundByFirst DEF AtOnce
<1>3. CASE which \in {"cs", "inc", "pro"}
  BY <1>3, AroundContains DEF AtOnce
<1>. QED
  BY <1>1, <1>2, <1>3 DEF Whole

LEMMA DisambiguateIs ==
  ASSUME NEW which, NEW t, NEW b
  PROVE  /\ which \in ReadByLines => Disambiguate(which, t, b) = ByLines(which, t, b)
         /\ which \in (Ambiguous \ ({"in", "b"} \cup ReadByLines))
              => Disambiguate(which, t, b) = AtOnce(which, t)
         /\ Disambiguate("b", t, b) = IF IsLimbo(t) THEN "limbo" ELSE ByLines("basic", t, b)
<1>1. which \in ReadByLines => Disambiguate(which, t, b) = ByLines(which, t, b)
  BY DEF Disambiguate
<1>2. ASSUME which \in Ambiguous \ ({"in", "b"} \cup ReadByLines)
      PROVE  Disambiguate(which, t, b) = AtOnce(which, t)
  <2>1. which \in Ambiguous \ ({"in"} \cup ReadByLines) /\ which # "b"
    BY <1>2
  <2>2. AtOnce(which, t) \notin ReadByLines
    BY <2>1, AtOnceReads
  <2>. QED
    BY <1>2, <2>2 DEF Disambiguate
<1>3. Disambiguate("b", t, b) = IF IsLimbo(t) THEN "limbo" ELSE ByLines("basic", t, b)
  BY DEF Disambiguate, AtOnce, ReadByLines
<1>. QED
  BY <1>1, <1>2, <1>3

\* What all but a few answer with an end of a line more, wherever it is.
LEMMA AroundAnswers ==
  ASSUME NEW t \in Texts, NEW u \in Texts, NEW d, Around(t, u, d), Alike(t, u),
         NEW which \in Ambiguous \ {"in", "pl", "fortran", "pp", "r", "rs"}, NEW b
  PROVE  Disambiguate(which, u, b) = Disambiguate(which, t, b)
<1>1. CASE which \in Whole
  <2>1. AtOnce(which, u) = AtOnce(which, t)
    BY <1>1, AroundWhole
  <2>2. which \in Ambiguous \ ({"in", "b"} \cup ReadByLines)
    BY <1>1 DEF Whole, ReadByLines, Ambiguous
  <2>. QED
    BY <2>1, <2>2, DisambiguateIs
<1>2. CASE which \in ReadByLines
  <2>1. which \in ReadByLines \ {"fortran"}
    BY <1>2
  <2>2. ByLines(which, u, b) = ByLines(which, t, b)
    BY <2>1, AlikeByLines
  <2>. QED
    BY <1>2, <2>2, DisambiguateIs
<1>3. CASE which = "b"
  <2>1. "basic" \in ReadByLines \ {"fortran"}
    BY DEF ReadByLines
  <2>2. ByLines("basic", u, b) = ByLines("basic", t, b)
    BY <2>1, AlikeByLines
  <2>3. IsLimbo(u) <=> IsLimbo(t)
    BY AroundLimbo
  <2>. QED
    BY <1>3, <2>2, <2>3, DisambiguateIs
<1>4. which \in Whole \cup ReadByLines \cup {"b"}
  BY DEF Whole, ReadByLines, Ambiguous
<1>. QED
  BY <1>1, <1>2, <1>3, <1>4

LEMMA EmptyLinesNow == NameInv => EmptyLinesIrrelevant
<1>. SUFFICES ASSUME NameInv, language \in Ambiguous \ {"in", "pl"}, text # <<>>,
                     NEW before \in BOOLEAN
       PROVE  /\ language \notin {"r", "rs"} =>
                   Disambiguate(language, text \o <<"nl">>, before)
                     = Disambiguate(language, text, before)
              /\ language \notin {"fortran", "rs"}
                 /\ ~(language = "pp" /\ Len(text) >= PuppetWithin) =>
                   Disambiguate(language, <<"nl">> \o text, before)
                     = Disambiguate(language, text, before)
  BY DEF EmptyLinesIrrelevant
<1>1. PICK t : t = text
  OBVIOUS
<1>2. t \in Texts /\ t # <<>> /\ Len(t) \in Nat
  BY <1>1, TextAt DEF NameInv
<1>3. language \in (Ambiguous \ {"in", "pl", "fortran", "pp", "r", "rs"})
                   \cup {"fortran", "pp", "r", "rs"}
  OBVIOUS
<1>w. \A v, which : which \in {"pp", "r"} =>
        Disambiguate(which, v, before) = AtOnce(which, v)
  <2>1. \A which : which \in {"pp", "r"} =>
          which \in Ambiguous \ ({"in", "b"} \cup ReadByLines)
    BY DEF Ambiguous, ReadByLines
  <2>. QED
    BY <2>1, DisambiguateIs
<1>4. ASSUME language \notin {"r", "rs"}
      PROVE  Disambiguate(language, t \o <<"nl">>, before) = Disambiguate(language, t, before)
  <2>1. PICK u : u = t \o <<"nl">>
    OBVIOUS
  <2>2. /\ u \in Texts /\ LineStarts(u) = LineStarts(t)
        /\ \A n \in LineStarts(t) : LineAt(u, n) = LineAt(t, n)
        /\ Alike(t, u)
    BY <1>2, <2>1, Trailing
  <2>3. Around(t, u, 0)
    BY <1>2, <2>1, TrailingAround
  <2>4. CASE language \in Ambiguous \ {"in", "pl", "fortran", "pp", "r", "rs"}
    <3>1. Disambiguate(language, u, before) = Disambiguate(language, t, before)
      BY <1>2, <2>2, <2>3, <2>4, AroundAnswers
    <3>. QED
      BY <2>1, <3>1
  <2>5. CASE language = "fortran"
    <3>1. ByLines("fortran", u, before) = ByLines("fortran", t, before)
      BY <1>2, <2>2, SameFortran
    <3>2. "fortran" \in ReadByLines
      BY DEF ReadByLines
    <3>. QED
      BY <2>1, <2>5, <3>1, <3>2, DisambiguateIs
  <2>6. CASE language = "pp"
    <3>1. disambiguate_pp(u) = disambiguate_pp(t)
      BY <1>2, <2>1, TrailingPp
    <3>. QED
      BY <1>w, <2>1, <2>6, <3>1 DEF AtOnce
  <2>. QED
    BY <1>3, <1>4, <2>4, <2>5, <2>6
<1>5. ASSUME language \notin {"fortran", "rs"},
             ~(language = "pp" /\ Len(text) >= PuppetWithin)
      PROVE  Disambiguate(language, <<"nl">> \o t, before) = Disambiguate(language, t, before)
  <2>1. PICK u : u = <<"nl">> \o t
    OBVIOUS
  <2>2. u \in Texts /\ Len(u) = Len(t) + 1 /\ Alike(t, u)
    BY <1>2, <2>1, Leading
  <2>3. Around(t, u, 1)
    BY <1>2, <2>1, LeadingAround
  <2>4. CASE language \in Ambiguous \ {"in", "pl", "fortran", "pp", "r", "rs"}
    <3>1. Disambiguate(language, u, before) = Disambiguate(language, t, before)
      BY <1>2, <2>2, <2>3, <2>4, AroundAnswers
    <3>. QED
      BY <2>1, <3>1
  <2>5. CASE language = "r"
    <3>1. disambiguate_r(u) = disambiguate_r(t)
      BY <1>2, <2>2, <2>3, LeadingR
    <3>. QED
      BY <1>w, <2>1, <2>5, <3>1 DEF AtOnce
  <2>6. CASE language = "pp"
    <3>1. Len(t) < PuppetWithin /\ u # <<>>
      BY <1>1, <1>2, <1>5, <2>2, <2>6, DisambiguatorsAssumption
    <3>2. disambiguate_pp(u) = disambiguate_pp(t)
      BY <1>2, <2>2, <2>3, <3>1, AroundPp
    <3>. QED
      BY <1>w, <2>1, <2>6, <3>2 DEF AtOnce
  <2>. QED
    BY <1>3, <1>5, <2>4, <2>5, <2>6
<1>. QED
  BY <1>1, <1>4, <1>5

\* Empty lines at the beginning or the end of a file do not change the language
\* that its contents decide, but where EmptyLinesIrrelevant says they do: whatever
\* places, limits and counts the disambiguators of src/detector.c keep.
THEOREM EmptyLinesNeverMatter == Spec => []EmptyLinesIrrelevant
<1>1. DetectorInv => EmptyLinesIrrelevant
  BY EmptyLinesNow DEF DetectorInv
<1>. QED
  BY <1>1, DetectorInvAlways, PTL

=============================================================================
