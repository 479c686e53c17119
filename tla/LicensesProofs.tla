--------------------------- MODULE LicensesProofs ---------------------------
(***************************************************************************)
(* Proofs about Licenses: the elimination of contained matches computes    *)
(* the maximal matches, whatever the table, the text and the order, and    *)
(* the list made of them is specific and never empty for nothing.          *)
(***************************************************************************)
EXTENDS Licenses, WellFoundedInduction, TLAPS

\* The spans a licence entry can hold.
Held == Spans \cup {NoSpan}

\* Lying inside is a strict order on spans, and a dropped entry takes no part.
LEMMA InsideOrder ==
    /\ \A a \in Spans : ~Inside(a, a)
    /\ \A a, b \in Spans : ~(Inside(a, b) /\ Inside(b, a))
    /\ \A a, b, c \in Spans : Inside(a, b) /\ Inside(b, c) => Inside(a, c)
    /\ \A a \in Spans : ~Inside(a, NoSpan) /\ ~Inside(NoSpan, a)
  BY LicAssumption DEF Inside, Spans, NoSpan

LEMMA NoSpanNotSpan == NoSpan \notin Spans
  BY DEF NoSpan, Spans


\* The strengthening of MaximalSurvive that is inductive: besides being the
\* maximal ones among the first n licences, the survivors cover every match
\* among them, so that comparing the next match with survivors loses nothing.
Cover(n) ==
    \A l \in 1 .. n : Accepted(l) =>
      \E h \in 1 .. n : /\ potential[h] # NoSpan
                        /\ potential[h] = Found(l) \/ Inside(Found(l), potential[h])

Survivors(n) ==
    \A l \in 1 .. n :
      /\ potential[l] # NoSpan => Accepted(l) /\ potential[l] = Found(l)
      /\ \A h \in 1 .. n : ~Inside(potential[l], potential[h])
      /\ Accepted(l) /\ potential[l] = NoSpan =>
           \E h \in 1 .. n : Accepted(h) /\ Inside(Found(l), Found(h))

SiftInv ==
    /\ TypeOK
    /\ pc # "match" /\ comments # <<>> => j = NLic + 1
    /\ comments # <<>> => Cover(j - 1) /\ Survivors(j - 1)

LEMMA SiftType ==
  ASSUME NEW pot \in [Lic -> Held], NEW l \in Lic, NEW ans \in Answers
  PROVE  Sift(pot, l, ans) \in [Lic -> Held]
  BY LicAssumption DEF Sift, Answers, Held, Lic

LEMMA TypeStep == TypeOK /\ [Next]_vars => TypeOK'
<1>. SUFFICES ASSUME TypeOK, [Next]_vars PROVE TypeOK'
  OBVIOUS
<1>. USE LicAssumption DEF TypeOK
<1>1. CASE MatchLicense
  <2>1. comments[lang][j] \in Answers
    BY <1>1 DEF MatchLicense, Lic
  <2>2. potential' \in [Lic -> Spans \cup {NoSpan}]
    <3>1. j \in Lic /\ potential \in [Lic -> Held]
      BY <1>1 DEF MatchLicense, Held, Lic
    <3>2. Sift(potential, j, comments[lang][j]) \in [Lic -> Held]
      BY <2>1, <3>1, SiftType
    <3>3. QED
      BY <1>1, <3>2 DEF MatchLicense, Held
  <2>3. QED
    BY <1>1, <2>2 DEF MatchLicense
<1>2. CASE NextLanguage
  BY <1>2 DEF NextLanguage
<1>3. CASE AddLicense
  <2>1. i \in Lic
    BY <1>3 DEF AddLicense, Lic
  <2>2. list' \in Seq(Lic)
    BY <1>3, <2>1 DEF AddLicense
  <2>3. QED
    BY <1>3, <2>2 DEF AddLicense
<1>4. CASE Return
  BY <1>4 DEF Return
<1>5. CASE UNCHANGED vars
  BY <1>5 DEF vars
<1>6. QED
  BY <1>1, <1>2, <1>3, <1>4, <1>5 DEF Next

LEMMA TypeInit == Init => TypeOK
<1>. SUFFICES ASSUME Init PROVE TypeOK
  OBVIOUS
<1>1. PICK n \in 0 .. MaxLang : comments \in [1 .. n -> [Lic -> Answers]]
  BY DEF Init
<1>2. comments \in Seq([Lic -> Answers]) /\ Len(comments) = n
  BY <1>1, LicAssumption
<1>3. comments # <<>> => Len(comments) >= 1
  BY <1>2
<1>4. QED
  BY <1>2, <1>3, LicAssumption DEF Init, TypeOK, Lic

\* Every state of a run of the detector is well typed: in particular a
\* licence is looked for only while there is a language to look in.
THEOREM TypeCorrect == Spec => []TypeOK
  BY TypeInit, TypeStep, PTL DEF Spec

-----------------------------------------------------------------------------
\* One licence more: what the inner loop over k < j does to the survivors.
LEMMA SiftStep ==
  ASSUME TypeOK, MatchLicense, Cover(j - 1), Survivors(j - 1)
  PROVE  Cover(j - 1)' /\ Survivors(j - 1)'
<1>. DEFINE a == comments[lang][j]
            m == a.span
            old == potential
            new == potential'
            Acc(l) == Accepted(l)
            Fnd(l) == Found(l)
<1>1. /\ j \in Lic /\ 1 .. (j' - 1) = (1 .. j - 1) \cup {j}
      /\ j \notin 1 .. j - 1 /\ 1 .. j \subseteq Lic
  BY LicAssumption DEF TypeOK, MatchLicense, Lic
<1>2. /\ \A l \in Lic : comments[lang][l] \in Answers
      /\ comments' = comments /\ lang' = lang
  BY LicAssumption DEF TypeOK, MatchLicense, Lic
<1>3. \A l \in Lic : /\ Acc(l) => Fnd(l) \in Spans
                     /\ Accepted(l)' = Acc(l) /\ Found(l)' = Fnd(l)
  BY <1>2, NoSpanNotSpan DEF Accepted, Found, Answers
<1>4. old \in [Lic -> Held] /\ new = Sift(old, j, a)
  BY DEF TypeOK, Held, MatchLicense
\* The goal and the hypotheses with every prime resolved.
<1>5. /\ \A l \in 1 .. j - 1 : Acc(l) =>
           \E h \in 1 .. j - 1 : /\ old[h] # NoSpan
                                 /\ old[h] = Fnd(l) \/ Inside(Fnd(l), old[h])
      /\ \A l \in 1 .. j - 1 : old[l] # NoSpan => Acc(l) /\ old[l] = Fnd(l)
      /\ \A l, h \in 1 .. j - 1 : ~Inside(old[l], old[h])
      /\ \A l \in 1 .. j - 1 : Acc(l) /\ old[l] = NoSpan =>
           \E h \in 1 .. j - 1 : Acc(h) /\ Inside(Fnd(l), Fnd(h))
  BY DEF Cover, Survivors
<1>. DEFINE T == (1 .. j - 1) \cup {j}
            G1 == \A l \in T : Acc(l) =>
                    \E h \in T : /\ new[h] # NoSpan
                                 /\ new[h] = Fnd(l) \/ Inside(Fnd(l), new[h])
            G2 == \A l \in T : new[l] # NoSpan => Acc(l) /\ new[l] = Fnd(l)
            G3 == \A l, h \in T : ~Inside(new[l], new[h])
            G4 == \A l \in T : Acc(l) /\ new[l] = NoSpan =>
                    \E h \in T : Acc(h) /\ Inside(Fnd(l), Fnd(h))
<1>6. SUFFICES G1 /\ G2 /\ G3 /\ G4
  <2>1. T \subseteq Lic /\ 1 .. (j' - 1) = T
    BY <1>1
  <2>2. \A l \in T : Accepted(l)' = Acc(l) /\ Found(l)' = Fnd(l)
    BY <1>3, <2>1
  <2>. HIDE DEF T, Acc, Fnd
  <2>3. G1 => Cover(j - 1)'
    BY <2>1, <2>2 DEF Cover
  <2>4. G2 /\ G3 /\ G4 => Survivors(j - 1)'
    <3>1. SUFFICES ASSUME G2, G3, G4, NEW l \in T
                   PROVE  /\ new[l] # NoSpan => Accepted(l)' /\ new[l] = Found(l)'
                          /\ \A h \in T : ~Inside(new[l], new[h])
                          /\ Accepted(l)' /\ new[l] = NoSpan =>
                               \E h \in T : Accepted(h)' /\ Inside(Found(l)', Found(h)')
      BY <2>1 DEF Survivors, Inside
    <3>2. QED
      BY <2>2, <3>1
  <2>5. QED
    BY <2>3, <2>4
<1>7. CASE ~Acc(j)
  <2>1. new = [old EXCEPT ![j] = NoSpan]
    BY <1>4, <1>7 DEF Accepted, Sift
  <2>2. \A l \in 1 .. j - 1 : new[l] = old[l] /\ old[l] \in Spans \cup {NoSpan}
    BY <1>1, <1>4, <2>1 DEF Held
  <2>3. new[j] = NoSpan
    BY <1>1, <1>4, <2>1
  <2>4. \A l \in T : new[l] \in Spans \cup {NoSpan}
    BY <2>2, <2>3
  <2>5. ~Inside(NoSpan, NoSpan)
    BY DEF Inside, NoSpan
  <2>. HIDE DEF a, m, old, new, Acc, Fnd
  <2>6. G1
    BY <1>5, <1>7, <2>2
  <2>7. G2
    BY <1>5, <1>7, <2>2, <2>3
  <2>8. G3
    BY <1>5, <2>2, <2>3, <2>5, InsideOrder
  <2>9. G4
    BY <1>5, <1>7, <2>2, <2>3
  <2>10. QED
    BY <2>6, <2>7, <2>8, <2>9
<1>8. CASE Acc(j)
  <2>. DEFINE Lost == \E h \in 1 .. j - 1 : Inside(m, old[h])
  <2>1. new[j] = IF Lost THEN NoSpan ELSE m
    BY <1>1, <1>4, <1>8 DEF Accepted, Sift
  <2>2. \A k \in 1 .. j - 1 : /\ Inside(old[k], m) => new[k] = NoSpan
                              /\ ~Inside(old[k], m) => new[k] = old[k]
    BY <1>1, <1>4, <1>8 DEF Accepted, Sift
  <2>3. m \in Spans /\ Fnd(j) = m
    BY <1>1, <1>3, <1>8 DEF Found
  <2>4. \A k \in 1 .. j - 1 : old[k] \in Spans \/ old[k] = NoSpan
    BY <1>1, <1>4 DEF Held
  <2>5. \A l \in 1 .. j - 1 : Acc(l) => Fnd(l) \in Spans
    BY <1>1, <1>3
  <2>6. NoSpan \notin Spans /\ ~Inside(NoSpan, NoSpan)
    BY NoSpanNotSpan DEF Inside, NoSpan
  <2>. HIDE DEF a, m, old, new, Acc, Fnd
  \* A survivor that j does not contain stays; one that contains j is not
  \* contained in it.
  <2>7. \A h \in 1 .. j - 1 : Inside(m, old[h]) => new[h] = old[h] /\ old[h] \in Spans
    BY <2>2, <2>3, <2>4, InsideOrder
  <2>8. G1
    <3>1. ASSUME NEW l \in 1 .. j - 1, Acc(l)
          PROVE  \E h \in T : /\ new[h] # NoSpan
                              /\ new[h] = Fnd(l) \/ Inside(Fnd(l), new[h])
      <4>1. PICK h \in 1 .. j - 1 : /\ old[h] # NoSpan
                                    /\ old[h] = Fnd(l) \/ Inside(Fnd(l), old[h])
        BY <1>5, <3>1
      <4>2. CASE ~Inside(old[h], m)
        BY <2>2, <4>1, <4>2
      <4>3. CASE Inside(old[h], m) /\ ~Lost
        <5>1. new[j] = m /\ Inside(Fnd(l), m)
          BY <2>1, <2>3, <2>4, <2>5, <3>1, <4>1, <4>3, InsideOrder
        <5>2. QED
          BY <5>1, <2>3, <2>6
      <4>4. CASE Inside(old[h], m) /\ Lost
        <5>1. PICK g \in 1 .. j - 1 : Inside(m, old[g])
          BY <4>4
        <5>2. new[g] = old[g] /\ new[g] # NoSpan
          BY <5>1, <2>6, <2>7
        <5>3. Inside(Fnd(l), m)
          BY <2>3, <2>4, <2>5, <3>1, <4>1, <4>4, InsideOrder
        <5>4. Inside(Fnd(l), old[g])
          BY <5>1, <5>3, <2>3, <2>5, <2>7, <3>1, InsideOrder
        <5>5. QED
          BY <5>2, <5>4
      <4>5. QED
        BY <4>2, <4>3, <4>4
    <3>2. \E h \in T : /\ new[h] # NoSpan
                       /\ new[h] = Fnd(j) \/ Inside(Fnd(j), new[h])
      <4>1. CASE Lost
        BY <4>1, <2>3, <2>6, <2>7
      <4>2. CASE ~Lost
        BY <4>2, <2>1, <2>3, <2>6
      <4>3. QED
        BY <4>1, <4>2
    <3>3. QED
      BY <3>1, <3>2
  <2>9. G2
    BY <1>5, <1>8, <2>1, <2>2, <2>3
  <2>10. G3
    <3>1. \A l \in 1 .. j - 1 : ~Inside(new[l], new[j])
      BY <2>1, <2>2, <2>3, <2>4, <2>6, InsideOrder
    <3>2. \A l \in 1 .. j - 1 : ~Inside(new[j], new[l])
      BY <2>1, <2>2, <2>3, <2>4, <2>6, InsideOrder
    <3>3. \A l, h \in 1 .. j - 1 : ~Inside(new[l], new[h])
      BY <1>5, <2>2, <2>4, <2>6, InsideOrder
    <3>4. ~Inside(new[j], new[j])
      BY <2>1, <2>3, <2>6, InsideOrder
    <3>5. QED
      BY <3>1, <3>2, <3>3, <3>4
  <2>11. G4
    <3>1. ASSUME NEW l \in 1 .. j - 1, Acc(l), new[l] = NoSpan
          PROVE  \E h \in T : Acc(h) /\ Inside(Fnd(l), Fnd(h))
      BY <1>5, <1>8, <2>2, <2>3, <3>1
    <3>2. ASSUME new[j] = NoSpan
          PROVE  \E h \in T : Acc(h) /\ Inside(Fnd(j), Fnd(h))
      BY <1>5, <2>1, <2>3, <2>6, <2>7, <3>2
    <3>3. QED
      BY <3>1, <3>2
  <2>12. QED
    BY <2>8, <2>9, <2>10, <2>11
<1>9. QED
  BY <1>7, <1>8

\* The strengthened invariant holds in every reachable state.
LEMMA SiftInvariant == Spec => []SiftInv
<1>1. Init => SiftInv
  BY TypeInit, LicAssumption DEF Init, SiftInv, Cover, Survivors
<1>2. SiftInv /\ [Next]_vars => SiftInv'
  <2>. SUFFICES ASSUME SiftInv, [Next]_vars PROVE SiftInv'
    OBVIOUS
  <2>. USE LicAssumption DEF SiftInv
  <2>1. TypeOK /\ TypeOK'
    BY TypeStep
  <2>2. CASE MatchLicense
    <3>1. comments # <<>> /\ pc' = pc /\ pc = "match"
      BY <2>1, <2>2 DEF MatchLicense, TypeOK
    <3>2. QED
      BY <2>1, <2>2, <3>1, SiftStep
  <2>3. CASE NextLanguage
    <3>1. comments # <<>>
      BY <2>1, <2>3 DEF NextLanguage, TypeOK
    <3>2. CASE lang < Len(comments)
      <4>1. j' = 1 /\ pc' = "match"
        BY <2>3, <3>2 DEF NextLanguage
      <4>2. Cover(j - 1)' /\ Survivors(j - 1)'
        BY <4>1 DEF Cover, Survivors
      <4>3. QED
        BY <2>1, <4>1, <4>2
    <3>3. CASE ~(lang < Len(comments))
      <4>1. /\ j' = j /\ j = NLic + 1
            /\ UNCHANGED <<comments, lang, potential>>
        BY <2>1, <2>3, <3>3 DEF NextLanguage, TypeOK
      <4>2. Cover(j - 1)' /\ Survivors(j - 1)'
        BY <3>1, <4>1 DEF Cover, Survivors, Accepted, Found
      <4>3. QED
        BY <2>1, <4>1, <4>2
    <3>4. QED
      BY <3>2, <3>3
  <2>4. CASE AddLicense \/ Return \/ UNCHANGED vars
    <3>1. /\ UNCHANGED <<comments, lang, potential, j>>
          /\ pc # "match" <=> pc' # "match"
      BY <2>4 DEF AddLicense, Return, vars
    <3>2. comments # <<>> => Cover(j - 1)' /\ Survivors(j - 1)'
      BY <3>1 DEF Cover, Survivors, Accepted, Found
    <3>3. QED
      BY <2>1, <3>1, <3>2
  <2>5. QED
    BY <2>2, <2>3, <2>4 DEF Next
<1>3. QED
  BY <1>1, <1>2, PTL DEF Spec

LEMMA SurvivorsAreMaximal == SiftInv => MaximalSurvive
<1>. SUFFICES ASSUME SiftInv, comments # <<>>, NEW l \in Tried
              PROVE  potential[l] = IF /\ Accepted(l)
                                       /\ \A h \in Tried :
                                            Accepted(h) => ~Inside(Found(l), Found(h))
                                    THEN Found(l) ELSE NoSpan
  BY DEF MaximalSurvive
<1>1. Tried = 1 .. j - 1 /\ Tried \subseteq Lic
  BY LicAssumption DEF SiftInv, TypeOK, Tried, Lic
<1>2. Cover(j - 1) /\ Survivors(j - 1)
  BY DEF SiftInv
<1>3. \A h \in Tried : Accepted(h) => Found(h) \in Spans
  BY <1>1 DEF SiftInv, TypeOK, Accepted, Found, Answers
<1>4. CASE potential[l] = NoSpan
  BY <1>1, <1>2, <1>4 DEF Survivors
<1>5. CASE potential[l] # NoSpan
  <2>1. Accepted(l) /\ potential[l] = Found(l)
    BY <1>1, <1>2, <1>5 DEF Survivors
  <2>2. ASSUME NEW h \in Tried, Accepted(h), Inside(Found(l), Found(h))
        PROVE  FALSE
    <3>1. PICK g \in Tried : /\ potential[g] # NoSpan
                             /\ potential[g] = Found(h) \/ Inside(Found(h), potential[g])
      BY <1>1, <1>2, <2>2 DEF Cover
    <3>2. potential[g] \in Spans
      BY <1>1, <1>2, <1>3, <3>1 DEF Survivors
    <3>3. Inside(potential[l], potential[g])
      BY <1>3, <2>1, <2>2, <3>1, <3>2, InsideOrder
    <3>4. QED
      BY <1>1, <1>2, <3>3 DEF Survivors
  <2>3. QED
    BY <2>1, <2>2
<1>6. QED
  BY <1>4, <1>5

\* Whatever the table and the text, and in whatever order the licences are
\* tried, exactly the matches that lie inside no other match survive.
THEOREM MaximalSurviveAlways == Spec => []MaximalSurvive
  BY SiftInvariant, SurvivorsAreMaximal, PTL

-----------------------------------------------------------------------------
\* What the loop that builds the list has done when it is at licence i: the
\* list holds, in the order of the table, exactly the licences before i that
\* are potential and that no other potential licence overrides.
Reported(l) == potential[l].s > -1 /\ ~Overridden(l, potential)

ListInv ==
    /\ pc = "match" \/ comments = <<>> => list = <<>> /\ i = 1
    /\ pc = "done" /\ comments # <<>> => i = NLic + 1
    /\ \A a \in 1 .. Len(list) : list[a] < i /\ Reported(list[a])
    /\ \A a, b \in 1 .. Len(list) : a < b => list[a] < list[b]
    /\ pc # "match" => \A l \in 1 .. i - 1 :
                         Reported(l) => \E a \in 1 .. Len(list) : list[a] = l

LEMMA ListStep == TypeOK /\ ListInv /\ [Next]_vars => ListInv'
<1>. SUFFICES ASSUME TypeOK, ListInv, [Next]_vars PROVE ListInv'
  OBVIOUS
<1>. USE LicAssumption
<1>1. CASE MatchLicense
  <2>1. comments # <<>> /\ UNCHANGED <<comments, i, list, pc>> /\ pc = "match"
    BY <1>1 DEF MatchLicense, TypeOK
  <2>2. list = <<>> /\ i = 1
    BY <2>1 DEF ListInv
  <2>3. QED
    BY <2>1, <2>2 DEF ListInv
<1>2. CASE NextLanguage
  <2>1. /\ comments # <<>> /\ UNCHANGED <<comments, potential, i, list>>
        /\ pc' \in {"match", "list"} /\ pc = "match"
    BY <1>2 DEF NextLanguage, TypeOK
  <2>2. list = <<>> /\ i = 1
    BY <2>1 DEF ListInv
  <2>3. QED
    BY <2>1, <2>2 DEF ListInv
<1>3. CASE AddLicense
  <2>1. /\ comments # <<>> /\ pc = "list" /\ i \in Lic /\ i' = i + 1
        /\ UNCHANGED <<comments, potential, pc>>
        /\ list' = IF Reported(i) THEN Append(list, i) ELSE list
        /\ list \in Seq(Lic)
    BY <1>3 DEF AddLicense, TypeOK, Lic, Reported
  <2>2. \A l : Reported(l)' <=> Reported(l)
    BY <2>1 DEF Reported, Overridden
  <2>3. /\ \A a \in 1 .. Len(list) : list[a] \in Nat /\ list[a] < i /\ Reported(list[a])
        /\ \A a, b \in 1 .. Len(list) : a < b => list[a] < list[b]
        /\ \A l \in 1 .. i - 1 : Reported(l) => \E a \in 1 .. Len(list) : list[a] = l
    BY <2>1 DEF ListInv, Lic
  <2>4. CASE ~Reported(i)
    <3>1. list' = list
      BY <2>1, <2>4
    <3>2. \A a \in 1 .. Len(list) : list[a] < i + 1
      BY <2>1, <2>3 DEF Lic
    <3>3. \A l \in 1 .. i : Reported(l) => \E a \in 1 .. Len(list) : list[a] = l
      BY <2>1, <2>3, <2>4 DEF Lic
    <3>4. i' - 1 = i /\ pc' # "match" /\ pc' # "done" /\ comments' # <<>>
      BY <2>1 DEF Lic
    <3>. HIDE DEF Reported
    <3>5. QED
      BY <2>1, <2>2, <2>3, <3>1, <3>2, <3>3, <3>4 DEF ListInv
  <2>5. CASE Reported(i)
    <3>1. /\ list' = Append(list, i) /\ Len(list') = Len(list) + 1
          /\ \A a \in 1 .. Len(list) : list'[a] = list[a]
          /\ list'[Len(list) + 1] = i
          /\ Len(list) \in Nat
      BY <2>1, <2>5
    <3>2. \A a \in 1 .. Len(list') : list'[a] < i + 1 /\ Reported(list'[a])
      BY <2>1, <2>3, <2>5, <3>1 DEF Lic
    <3>3. \A a, b \in 1 .. Len(list') : a < b => list'[a] < list'[b]
      BY <2>1, <2>3, <3>1 DEF Lic
    <3>4. \A l \in 1 .. i : Reported(l) => \E a \in 1 .. Len(list') : list'[a] = l
      BY <2>1, <2>3, <3>1 DEF Lic
    <3>5. i' - 1 = i /\ pc' # "match" /\ pc' # "done" /\ comments' # <<>>
      BY <2>1 DEF Lic
    <3>6. QED
      BY <2>1, <2>2, <3>2, <3>3, <3>4, <3>5 DEF ListInv
  <2>6. QED
    BY <2>4, <2>5
<1>4. CASE Return
  <2>1. /\ UNCHANGED <<comments, potential, i, list>> /\ pc = "list" /\ pc' = "done"
        /\ i = NLic + 1 /\ comments # <<>>
    BY <1>4 DEF Return, TypeOK
  <2>2. QED
    BY <2>1 DEF ListInv, Reported, Overridden
<1>5. CASE UNCHANGED vars
  BY <1>5 DEF vars, ListInv, Reported, Overridden
<1>6. QED
  BY <1>1, <1>2, <1>3, <1>4, <1>5 DEF Next

LEMMA ListInvariant == Spec => [](TypeOK /\ ListInv)
<1>1. Init => ListInv
  BY DEF Init, ListInv
<1>2. QED
  BY <1>1, TypeInit, TypeStep, ListStep, PTL DEF Spec

LEMMA ListedAreSpecific == TypeOK /\ ListInv => ListIsSpecific
<1>. SUFFICES ASSUME TypeOK, ListInv PROVE ListIsSpecific
  OBVIOUS
<1>1. ASSUME NEW a \in 1 .. Len(list), NEW b \in 1 .. Len(list),
             <<list[a], list[b]>> \in Overrides
      PROVE  FALSE
  <2>1. potential[list[b]].s > -1 /\ ~Overridden(list[a], potential)
    BY DEF ListInv, Reported
  <2>2. list[b] \in Lic
    BY DEF TypeOK
  <2>3. QED
    BY <1>1, <2>1, <2>2 DEF Overridden
<1>2. QED
  BY <1>1 DEF ListIsSpecific, ListInv

\* Whatever the table and whichever pairs override, in every state of the
\* loop that builds it the list of ohcount_detect_license holds no licence
\* beside one that overrides it, and none twice.
THEOREM ListIsSpecificAlways == Spec => []ListIsSpecific
  BY ListInvariant, ListedAreSpecific, PTL

-----------------------------------------------------------------------------
\* The library's theorem that < is well-founded, with its operator expanded.
LEMMA LessThanWellFounded ==
    IsWellFoundedOn({p \in Nat \X Nat : p[1] < p[2]}, Nat)
  BY NatLessThanWellFounded DEF OpToRel

LEMMA LeastNatural ==
  ASSUME NEW S \in SUBSET Nat, S # {}
  PROVE  \E n \in S : \A k \in S : n <= k
<1>. DEFINE R == {p \in Nat \X Nat : p[1] < p[2]}
<1>1. IsWellFoundedOn(R, Nat)
  BY LessThanWellFounded
<1>2. PICK n \in S : \A k \in S : <<k, n>> \notin R
  <2>. HIDE DEF R
  <2>. QED
    BY <1>1, WFMin
<1>3. ASSUME NEW k \in S PROVE n <= k
  <2>1. k \in Nat /\ n \in Nat
    OBVIOUS
  <2>2. ~(k < n)
    BY <1>2, <2>1
  <2>3. QED
    BY <2>1, <2>2
<1>4. QED
  BY <1>3

\* Of the potential licences one of least rank is overridden by none.
LEMMA SomePotentialIsReported ==
  ASSUME TypeOK, NEW g \in Lic, potential[g].s > -1
  PROVE  \E l \in Lic : Reported(l)
<1>1. PICK rank \in [Lic -> Lic] : \A o \in Overrides : rank[o[2]] < rank[o[1]]
  BY OverridesAssumption
<1>. DEFINE S == {rank[l] : l \in {h \in Lic : potential[h].s > -1}}
<1>2. S \in SUBSET Nat /\ S # {}
  BY LicAssumption DEF Lic
<1>3. PICK n \in S : \A k \in S : n <= k
  <2>. HIDE DEF S
  <2>. QED
    BY <1>2, LeastNatural
<1>4. PICK l \in Lic : potential[l].s > -1 /\ rank[l] = n
  BY <1>3
<1>5. ASSUME NEW w \in Lic, <<l, w>> \in Overrides, potential[w].s > -1
      PROVE  FALSE
  <2>1. rank[w] < rank[l] /\ rank[w] \in S
    BY <1>1, <1>5
  <2>2. n <= rank[w]
    BY <1>3, <2>1
  <2>3. rank[w] \in Nat /\ rank[l] \in Nat
    <3>1. rank[w] \in Lic /\ rank[l] \in Lic
      BY <1>1
    <3>2. Lic \subseteq Nat
      BY LicAssumption DEF Lic
    <3>3. QED
      BY <3>1, <3>2
  <2>4. QED
    BY <1>4, <2>1, <2>2, <2>3
<1>6. QED
  BY <1>4, <1>5 DEF Reported, Overridden

LEMMA DoneReports == SiftInv /\ ListInv => SomethingReported
<1>. SUFFICES ASSUME SiftInv, ListInv, pc = "done", comments # <<>>,
                     NEW l \in Lic, Accepted(l)
              PROVE  list # <<>>
  BY DEF SomethingReported
<1>1. j = NLic + 1 /\ i = NLic + 1 /\ NLic \in Nat
  BY LicAssumption DEF SiftInv, ListInv
<1>2. PICK h \in Lic : potential[h] # NoSpan
  BY <1>1 DEF SiftInv, Cover, Lic
<1>3. potential[h] \in Spans
  BY <1>2 DEF SiftInv, TypeOK
<1>4. potential[h].s > -1
  BY <1>3, LicAssumption DEF Spans
<1>5. PICK r \in Lic : Reported(r)
  BY <1>4, SomePotentialIsReported DEF SiftInv
<1>6. \E a \in 1 .. Len(list) : list[a] = r
  BY <1>1, <1>5 DEF ListInv, Lic
<1>7. QED
  BY <1>6

\* Whatever the table, the text and the pairs that override one another, as
\* long as these go round no circle: when the language searched last mentions
\* a licence, some licence is reported.
THEOREM SomethingReportedAlways == Spec => []SomethingReported
  BY SiftInvariant, ListInvariant, DoneReports, PTL
=============================================================================
