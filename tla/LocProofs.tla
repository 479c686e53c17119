------------------------------ MODULE LocProofs ------------------------------
(***************************************************************************)
(* Proofs about Loc: a list of Loc keeps one item per language, what       *)
(* get_loc answers is everything that was put into the list, and the sums  *)
(* over a list of either kind are the sums of what was put into it.        *)
(*                                                                         *)
(* The model's sums are folds, which no prover unfolds by itself: the      *)
(* second half first shows that they are partial sums SumOf, about which   *)
(* one can argue item by item.                                             *)
(***************************************************************************)
EXTENDS Loc, TLAPS, NaturalsInduction, WellFoundedInduction, FiniteSetTheorems

Numbers == [Fields -> Nat]

LEMMA PlusType ==
  ASSUME NEW m \in Numbers, NEW n \in Numbers
  PROVE  Plus(m, n) \in Numbers /\ Gathered(m, n) = Plus(m, n)
  BY DEF Plus, Gathered, Numbers

\* Adding to one item of a list leaves a list.
LEMMA ExceptType ==
  ASSUME NEW list \in Seq(Items), NEW i, NEW n \in Numbers
  PROVE  [list EXCEPT ![i].n = Plus(@, n)] \in Seq(Items)
<1>. DEFINE new == [list EXCEPT ![i].n = Plus(@, n)]
<1>1. CASE i \in DOMAIN list
  <2>0. list[i] \in Items
    BY <1>1
  <2>1. list[i] \in Items /\ list[i].n \in Numbers
    BY <2>0 DEF Items, Numbers
  <2>2. [list[i] EXCEPT !.n = Plus(@, n)] \in Items
    BY <2>1, PlusType DEF Items, Numbers
  <2>3. new = [list EXCEPT ![i] = [list[i] EXCEPT !.n = Plus(@, n)]]
    BY <1>1
  <2>. QED
    BY <1>1, <2>2, <2>3
<1>2. CASE i \notin DOMAIN list
  <2>1. new = list
    BY <1>2
  <2>. QED
    BY <2>1
<1>. QED
  BY <1>1, <1>2

LEMMA AddType ==
  ASSUME NEW list \in Seq(Items), NEW item \in Items
  PROVE  Add(list, item) \in Seq(Items)
<1>1. item.n \in Numbers
  BY DEF Items, Numbers
<1>2. Append(list, item) \in Seq(Items)
  OBVIOUS
<1>. QED
  BY <1>1, <1>2, ExceptType DEF Add, AddLoc, AddLocDelta

LEMMA AmountsType == Amounts \subseteq Numbers /\ Zero \in Numbers
  BY LocAssumption DEF Amounts, Numbers, Fields, Zero

\* The type of the numbers depends on kind, which no step changes.
LEMMA KindKept ==
  ASSUME [Next]_vars
  PROVE  /\ kind' = kind
         /\ Fields' = Fields /\ Items' = Items /\ Zero' = Zero
         /\ Numbers' = Numbers
<1>1. kind' = kind
  BY DEF Next, vars, AddOne, AddList, NewCompact, NextItem, EndOfList
<1>2. Fields' = Fields
  BY <1>1 DEF Fields
<1>. QED
  BY <1>1, <1>2 DEF Items, Zero, Numbers

LEMMA TypeStep == TypeOK /\ [Next]_vars => TypeOK'
<1>. SUFFICES ASSUME TypeOK, [Next]_vars PROVE TypeOK'
  OBVIOUS
<1>0. /\ kind' = kind
      /\ Items' = Items
      /\ [Fields -> Nat]' = [Fields -> Nat]
  BY KindKept
<1>. USE LocAssumption
<1>. SUFFICES /\ kind \in Kinds
              /\ lists' \in [Lists -> Seq(Items)]
              /\ op' \in Ops \cup {NoOp}
              /\ added' \in [Lists -> [Languages -> Numbers]]
              /\ calls' \in 0 .. MaxCalls
  BY <1>0 DEF TypeOK, Numbers
<1>1. /\ kind \in Kinds
      /\ lists \in [Lists -> Seq(Items)]
      /\ op \in Ops \cup {NoOp}
      /\ added \in [Lists -> [Languages -> Numbers]]
      /\ calls \in 0 .. MaxCalls
  BY DEF TypeOK, Numbers
<1>2. ASSUME NEW k \in Lists, NEW l \in Languages, NEW n \in Amounts,
             AddOne(k, l, n)
      PROVE  /\ lists' \in [Lists -> Seq(Items)] /\ op' = op
             /\ added' \in [Lists -> [Languages -> Numbers]]
             /\ calls' \in 0 .. MaxCalls
  <2>. DEFINE item == [language |-> l, n |-> n]
  <2>1. item \in Items
    BY AmountsType DEF Items, Numbers
  <2>2. Add(lists[k], item) \in Seq(Items)
    BY <1>1, <2>1, AddType
  <2>3. Gathered(added[k][l], n) \in Numbers
    BY <1>1, AmountsType, PlusType
  <2>. QED
    BY <1>1, <1>2, <2>2, <2>3 DEF AddOne, Call
<1>3. ASSUME NEW k \in Lists, NEW s \in Lists, AddList(k, s)
      PROVE  /\ lists' = lists /\ op' \in Ops
             /\ added' \in [Lists -> [Languages -> Numbers]]
             /\ calls' \in 0 .. MaxCalls
  <2>1. [l \in Languages |-> Gathered(added[k][l], added[s][l])]
          \in [Languages -> Numbers]
    BY <1>1, PlusType
  <2>. QED
    BY <1>1, <1>3, <2>1 DEF AddList, Call, Ops
<1>4. ASSUME NEW k \in Lists, NEW s \in Lists, NewCompact(k, s)
      PROVE  /\ lists' \in [Lists -> Seq(Items)] /\ op' \in Ops
             /\ added' \in [Lists -> [Languages -> Numbers]]
             /\ calls' \in 0 .. MaxCalls
  <2>1. [l \in Languages |-> Counted(added[s][l])] \in [Languages -> Numbers]
    BY <1>1, AmountsType DEF Counted, Numbers
  <2>. QED
    BY <1>1, <1>4, <2>1 DEF NewCompact, Call, Ops
<1>5. CASE NextItem
  <2>1. op \in Ops /\ op.at \in DOMAIN lists[op.source]
    BY <1>1, <1>5 DEF NextItem, Ops
  <2>2. lists[op.source][op.at] \in Items
    BY <1>1, <2>1 DEF Ops
  <2>3. Add(lists[op.target], lists[op.source][op.at]) \in Seq(Items)
    BY <1>1, <2>1, <2>2, AddType DEF Ops
  <2>4. lists' \in [Lists -> Seq(Items)]
    BY <1>1, <1>5, <2>3 DEF NextItem
  <2>5. op' \in Ops
    BY <1>5, <2>1 DEF NextItem, Ops
  <2>. QED
    BY <1>1, <1>5, <2>4, <2>5 DEF NextItem
<1>6. CASE EndOfList
  BY <1>1, <1>6 DEF EndOfList
<1>7. CASE UNCHANGED vars
  BY <1>1, <1>7 DEF vars
<1>. QED
  BY <1>1, <1>2, <1>3, <1>4, <1>5, <1>6, <1>7 DEF Next

LEMMA TypeInit == Init => TypeOK
<1>1. Zero \in [Fields -> Nat]
  BY DEF Zero
<1>. QED
  BY <1>1, LocAssumption DEF Init, TypeOK

\* Every reachable state is well typed, whatever lists the client builds:
\* the numbers of a list of either kind stay natural numbers.
THEOREM TypeCorrect == Spec => []TypeOK
  BY TypeInit, TypeStep, PTL DEF Spec

----------------------------------------------------------------------------
\* No language has two items.
Distinct(list) ==
    \A i, h \in DOMAIN list : list[i].language = list[h].language => i = h

\* In such a list get_loc finds an item by its language, whatever its place.
LEMMA GetItem ==
  ASSUME NEW list \in Seq(Items), Distinct(list), NEW i \in DOMAIN list
  PROVE  /\ First(list, list[i].language) = i
         /\ Get(list, list[i].language) = list[i].n
<1>. DEFINE l == list[i].language
<1>1. At(list, l) = {i}
  BY DEF At, Distinct
<1>2. First(list, l) = i
  BY <1>1 DEF First
<1>. QED
  BY <1>1, <1>2 DEF Get

\* What add_loc does to a list without repeated languages: it stays one, and
\* get_loc answers as before for all languages but the one added to.
LEMMA AddLocGet ==
  ASSUME NEW list \in Seq(Items), Distinct(list), NEW item \in Items
  PROVE  LET new == AddLoc(list, item)
         IN  /\ Distinct(new)
             /\ \A l : l # item.language => Get(new, l) = Get(list, l)
             /\ Get(new, item.language) = Plus(Get(list, item.language), item.n)
<1>. DEFINE new == AddLoc(list, item)
            l0 == item.language
<1>0. item.n \in Numbers /\ new \in Seq(Items)
  <2>1. item.n \in Numbers
    BY DEF Items, Numbers
  <2>2. Append(list, item) \in Seq(Items)
    OBVIOUS
  <2>. QED
    BY <2>1, <2>2, ExceptType DEF AddLoc
<1>1. CASE At(list, l0) = {}
  <2>1. new = Append(list, item)
    BY <1>1 DEF AddLoc
  <2>2. /\ Len(new) = Len(list) + 1
        /\ \A i \in 1 .. Len(list) : new[i] = list[i]
        /\ new[Len(list) + 1] = item
        /\ DOMAIN new = 1 .. Len(list) + 1 /\ DOMAIN list = 1 .. Len(list)
    BY <2>1
  <2>3. \A i \in DOMAIN list : list[i].language # l0
    BY <1>1 DEF At
  <2>4. Distinct(new)
    BY <2>2, <2>3 DEF Distinct
  <2>5. ASSUME NEW l, l # l0
        PROVE  Get(new, l) = Get(list, l)
    <3>1. CASE At(list, l) = {}
      <4>1. At(new, l) = {}
        BY <2>2, <2>5, <3>1 DEF At
      <4>. QED
        BY <3>1, <4>1 DEF Get
    <3>2. CASE At(list, l) # {}
      <4>1. PICK i \in DOMAIN list : list[i].language = l
        BY <3>2 DEF At
      <4>2. i \in DOMAIN new /\ new[i] = list[i]
        BY <2>2
      <4>. QED
        BY <1>0, <2>4, <4>1, <4>2, GetItem
    <3>. QED
      BY <3>1, <3>2
  <2>6. Get(new, l0) = item.n
    <3>1. Len(list) + 1 \in DOMAIN new /\ new[Len(list) + 1].language = l0
      BY <2>2
    <3>. QED
      BY <1>0, <2>2, <2>4, <3>1, GetItem
  <2>7. Plus(Get(list, l0), item.n) = item.n
    <3>1. Get(list, l0) = Zero
      BY <1>1 DEF Get
    <3>2. Plus(Zero, item.n) = item.n
      BY <1>0 DEF Plus, Zero, Numbers
    <3>. QED
      BY <3>1, <3>2
  <2>. QED
    BY <2>4, <2>5, <2>6, <2>7
<1>2. CASE At(list, l0) # {}
  <2>1. PICK i \in DOMAIN list : list[i].language = l0
    BY <1>2 DEF At
  <2>2. First(list, l0) = i /\ Get(list, l0) = list[i].n
    BY <2>1, GetItem
  <2>3. new = [list EXCEPT ![i].n = Plus(@, item.n)]
    BY <1>2, <2>2 DEF AddLoc
  <2>4. list[i] \in Items
    BY <2>1
  <2>5. /\ DOMAIN new = DOMAIN list
        /\ \A h \in DOMAIN list : h # i => new[h] = list[h]
        /\ new[i] = [list[i] EXCEPT !.n = Plus(@, item.n)]
    BY <2>1, <2>3
  <2>6. new[i].language = l0 /\ new[i].n = Plus(list[i].n, item.n)
    BY <2>1, <2>4, <2>5 DEF Items
  <2>7. \A h \in DOMAIN list : new[h].language = list[h].language
    BY <2>1, <2>5, <2>6
  <2>8. Distinct(new)
    BY <2>5, <2>7 DEF Distinct
  <2>9. ASSUME NEW l, l # l0
        PROVE  Get(new, l) = Get(list, l)
    <3>1. CASE At(list, l) = {}
      <4>1. At(new, l) = {}
        BY <2>5, <2>7, <3>1 DEF At
      <4>. QED
        BY <3>1, <4>1 DEF Get
    <3>2. CASE At(list, l) # {}
      <4>1. PICK h \in DOMAIN list : list[h].language = l
        BY <3>2 DEF At
      <4>2. h \in DOMAIN new /\ new[h] = list[h]
        BY <2>1, <2>5, <2>9, <4>1
      <4>. QED
        BY <1>0, <2>8, <4>1, <4>2, GetItem
    <3>. QED
      BY <3>1, <3>2
  <2>10. Get(new, l0) = new[i].n
    <3>1. i \in DOMAIN new
      BY <2>1, <2>5
    <3>2. Get(new, new[i].language) = new[i].n
      BY <1>0, <2>8, <3>1, GetItem
    <3>. QED
      BY <2>6, <3>2
  <2>. QED
    BY <2>2, <2>6, <2>8, <2>9, <2>10
<1>. QED
  BY <1>1, <1>2

----------------------------------------------------------------------------
\* What the loop under way has still to add to its list for a language.
Rest(l) ==
    LET source == lists[op.source]
    IN  IF \E i \in At(source, l) :
             i >= op.at /\ ~(op.compact /\ NoLines(source[i].n))
        THEN Get(source, l) ELSE Zero

\* The inductive invariant.  Between operations a list holds what was put
\* into it; while a loop runs, its list lacks just what the loop has still
\* to add.  Without OneEntry the loop could meet a language again.
ListsDistinct == \A k \in Lists : Distinct(lists[k])

HeldNow ==
    \A k \in Lists, l \in Languages :
      IF op # NoOp /\ op.target = k
      THEN Plus(Get(lists[k], l), Rest(l)) = added[k][l]
      ELSE Get(lists[k], l) = added[k][l]

LocInv ==
    /\ TypeOK
    /\ op # NoOp => op.target # op.source
    /\ kind = "Loc" => ListsDistinct /\ HeldNow

LEMMA LocInvInit == Init => LocInv
<1>. SUFFICES ASSUME Init PROVE LocInv
  OBVIOUS
<1>1. TypeOK
  BY TypeInit
<1>2. \A k \in Lists : lists[k] = <<>>
  BY DEF Init
<1>3. ListsDistinct
  BY <1>2 DEF ListsDistinct, Distinct
<1>4. \A l : Get(<<>>, l) = Zero
  BY DEF Get, At
<1>5. HeldNow
  BY <1>2, <1>4 DEF HeldNow, Init
<1>. QED
  BY <1>1, <1>3, <1>5 DEF LocInv, Init

\* What get_loc answers are numbers.
LEMMA GetType ==
  ASSUME NEW list \in Seq(Items), Distinct(list), NEW l
  PROVE  Get(list, l) \in Numbers
<1>1. CASE At(list, l) = {}
  BY <1>1, AmountsType DEF Get
<1>2. CASE At(list, l) # {}
  <2>1. PICK i \in DOMAIN list : list[i].language = l
    BY <1>2 DEF At
  <2>2. list[i] \in Items
    BY <2>1
  <2>. QED
    BY <2>1, <2>2, GetItem DEF Items, Numbers
<1>. QED
  BY <1>1, <1>2

\* Nothing is lost where there is nothing to add.
LEMMA PlusZero ==
  ASSUME NEW m \in Numbers
  PROVE  Plus(m, Zero) = m /\ Plus(Zero, m) = m
  BY DEF Plus, Zero, Numbers

LEMMA PlusAssociative ==
  ASSUME NEW a \in Numbers, NEW b \in Numbers, NEW c \in Numbers
  PROVE  Plus(Plus(a, b), c) = Plus(a, Plus(b, c))
  BY DEF Plus, Numbers

\* A compact form has all the numbers that hold a line.
LEMMA CountedNumbers ==
  ASSUME NEW n \in Numbers
  PROVE  Counted(n) = IF NoLines(n) THEN Zero ELSE n
  BY DEF Counted, NoLines, Numbers, Zero

\* No step changes what get_loc answers about a list it leaves alone.
LEMMA GetKept ==
  ASSUME [Next]_vars, NEW k \in Lists, lists'[k] = lists[k], NEW l
  PROVE  Get(lists[k], l)' = Get(lists[k], l)
<1>1. Zero' = Zero
  BY KindKept
<1>2. At(lists[k], l)' = At(lists[k], l) /\ First(lists[k], l)' = First(lists[k], l)
  BY DEF At, First
<1>. QED
  BY <1>1, <1>2 DEF Get

\* A list operation that starts has everything of its source to add.
LEMMA RestAtStart ==
  ASSUME TypeOK, [Next]_vars, NEW s \in Lists, Distinct(lists[s]), NEW l,
         op'.source = s, op'.at = 1, lists'[s] = lists[s]
  PROVE  Rest(l)' = IF op'.compact THEN Counted(Get(lists[s], l))
                    ELSE Get(lists[s], l)
<1>0. lists[s] \in Seq(Items) /\ Zero' = Zero
  BY KindKept DEF TypeOK
<1>1. Rest(l)' = IF \E i \in At(lists[s], l) :
                       i >= 1 /\ ~(op'.compact /\ NoLines(lists[s][i].n))
                 THEN Get(lists[s], l) ELSE Zero
  <2>1. Get(lists[s], l)' = Get(lists[s], l)
    BY GetKept
  <2>2. Rest(l)' = IF \E i \in At(lists'[s], l) :
                       i >= 1 /\ ~(op'.compact /\ NoLines(lists'[s][i].n))
                   THEN Get(lists[s], l)' ELSE Zero'
    BY DEF Rest
  <2>. QED
    BY <1>0, <2>1, <2>2
<1>2. CASE At(lists[s], l) = {}
  <2>1. Get(lists[s], l) = Zero /\ Rest(l)' = Zero
    BY <1>1, <1>2 DEF Get
  <2>2. Counted(Zero) = Zero
    BY AmountsType, CountedNumbers
  <2>. QED
    BY <2>1, <2>2
<1>3. CASE At(lists[s], l) # {}
  <2>1. PICK i \in DOMAIN lists[s] : lists[s][i].language = l
    BY <1>3 DEF At
  <2>2. At(lists[s], l) = {i} /\ i >= 1
    BY <1>0, <2>1 DEF At, Distinct
  <2>3. Get(lists[s], l) = lists[s][i].n /\ lists[s][i].n \in Numbers
    BY <1>0, <2>1, GetItem, GetType
  <2>4. Counted(lists[s][i].n) = IF NoLines(lists[s][i].n) THEN Zero
                                 ELSE lists[s][i].n
    BY <2>3, CountedNumbers
  <2>. QED
    BY <1>1, <2>2, <2>3, <2>4
<1>. QED
  BY <1>2, <1>3

\* One iteration of a loop takes the item it adds, or passes over, out of
\* what it has still to add.
LEMMA RestAfterItem ==
  ASSUME LocInv, kind = "Loc", NextItem, NEW l
  PROVE  LET item == lists[op.source][op.at]
         IN  IF l = item.language
             THEN /\ Rest(l)' = Zero
                  /\ Rest(l) = IF op.compact /\ NoLines(item.n) THEN Zero ELSE item.n
             ELSE Rest(l)' = Rest(l)
<1>. DEFINE s == op.source
            item == lists[s][op.at]
<1>1. op \in Ops /\ op.at \in DOMAIN lists[s] /\ s \in Lists
  BY DEF LocInv, TypeOK, NextItem, Ops
<1>2. lists[s] \in Seq(Items) /\ Distinct(lists[s])
  BY <1>1 DEF LocInv, TypeOK, ListsDistinct
<1>3. lists'[s] = lists[s]
  BY <1>1 DEF LocInv, NextItem, TypeOK, Ops
<1>4. op'.source = s /\ op'.at = op.at + 1 /\ op'.compact = op.compact
  BY <1>1 DEF NextItem, Ops
<1>5. [Next]_vars
  BY DEF Next
<1>6. Get(lists[s], l)' = Get(lists[s], l) /\ Zero' = Zero
  <2>1. \A k \in Lists : lists'[k] = lists[k] => Get(lists[k], l)' = Get(lists[k], l)
    BY <1>5, GetKept
  <2>. QED
    BY <1>1, <1>3, <1>4, <1>5, <2>1, KindKept
<1>7. Rest(l)' = IF \E i \in At(lists[s], l) :
                       i >= op.at + 1 /\ ~(op.compact /\ NoLines(lists[s][i].n))
                 THEN Get(lists[s], l) ELSE Zero
  <2>1. Rest(l)' = IF \E i \in At(lists'[s], l) :
                       i >= op'.at /\ ~(op'.compact /\ NoLines(lists'[s][i].n))
                   THEN Get(lists[s], l)' ELSE Zero'
    BY <1>3, <1>4 DEF Rest
  <2>. QED
    BY <1>3, <1>4, <1>6, <2>1
<1>8. At(lists[s], l) \subseteq Nat /\ op.at \in Nat
  BY <1>1, <1>2 DEF At, Ops
<1>9. CASE l = item.language
  <2>1. At(lists[s], l) = {op.at}
    BY <1>1, <1>9 DEF At, LocInv, ListsDistinct, Distinct
  <2>2. Get(lists[s], l) = item.n
    BY <1>1, <1>2, <1>9, GetItem
  <2>. QED
    BY <1>7, <1>8, <1>9, <2>1, <2>2 DEF Rest
<1>10. CASE l # item.language
  <2>1. op.at \notin At(lists[s], l)
    BY <1>10 DEF At
  <2>2. \A i \in At(lists[s], l) : i >= op.at <=> i >= op.at + 1
    BY <1>8, <2>1
  <2>. QED
    BY <1>7, <1>10, <2>2 DEF Rest
<1>. QED
  BY <1>9, <1>10

LEMMA LocInvStep == LocInv /\ [Next]_vars => LocInv'
<1>. SUFFICES ASSUME LocInv, [Next]_vars PROVE LocInv'
  OBVIOUS
<1>1. TypeOK /\ TypeOK' /\ kind' = kind /\ Zero' = Zero
  BY TypeStep, KindKept DEF LocInv
<1>2. op' # NoOp => op'.target # op'.source
  <2>1. CASE op' = op
    BY <2>1 DEF LocInv
  <2>2. ASSUME NEW k \in Lists, NEW s \in Lists, AddList(k, s) \/ NewCompact(k, s)
        PROVE  op'.target # op'.source
    BY <2>2 DEF AddList, NewCompact
  <2>3. CASE NextItem
    <3>1. op \in Ops
      BY <1>1, <2>3 DEF NextItem, TypeOK
    <3>. QED
      BY <2>3, <3>1 DEF NextItem, LocInv, Ops
  <2>4. CASE EndOfList
    BY <2>4 DEF EndOfList
  <2>. QED
    BY <2>1, <2>2, <2>3, <2>4 DEF Next, AddOne, vars
<1>. SUFFICES ASSUME kind = "Loc" PROVE ListsDistinct' /\ HeldNow'
  BY <1>1, <1>2 DEF LocInv
<1>3. ListsDistinct /\ HeldNow
  BY DEF LocInv
<1>4. \A k \in Lists : lists[k] \in Seq(Items) /\ Distinct(lists[k])
  BY <1>1, <1>3 DEF TypeOK, ListsDistinct
<1>5. \A k \in Lists, l \in Languages : added[k][l] \in Numbers
  BY <1>1 DEF TypeOK, Numbers
<1>6. ASSUME NEW k \in Lists, NEW l \in Languages, NEW n \in Amounts,
             AddOne(k, l, n)
      PROVE  ListsDistinct' /\ HeldNow'
  <2>. DEFINE item == [language |-> l, n |-> n]
  <2>1. item \in Items /\ n \in Numbers
    BY AmountsType DEF Items, Numbers
  <2>2. /\ lists' = [lists EXCEPT ![k] = AddLoc(@, item)]
        /\ lists \in [Lists -> Seq(Items)] /\ op = NoOp /\ op' = NoOp
    BY <1>1, <1>6 DEF AddOne, Add, Call, TypeOK
  <2>3. /\ Distinct(AddLoc(lists[k], item))
        /\ \A m : m # l => Get(AddLoc(lists[k], item), m) = Get(lists[k], m)
        /\ Get(AddLoc(lists[k], item), l) = Plus(Get(lists[k], l), n)
    BY <1>4, <2>1, AddLocGet
  <2>4. ListsDistinct'
    BY <1>4, <2>2, <2>3 DEF ListsDistinct
  <2>5. ASSUME NEW h \in Lists, NEW m \in Languages
        PROVE  Get(lists[h], m)' = added'[h][m]
    <3>1. Get(lists[h], m)' = Get(lists'[h], m)
      <4>1. At(lists[h], m)' = At(lists'[h], m) /\ First(lists[h], m)' = First(lists'[h], m)
        BY DEF At, First
      <4>. QED
        BY <1>1, <4>1 DEF Get
    <3>2. Get(lists[h], m) = added[h][m]
      BY <1>3, <2>2 DEF HeldNow
    <3>3. added'[h][m] = IF h = k /\ m = l THEN Plus(added[k][l], n) ELSE added[h][m]
      <4>1. Gathered(added[k][l], n) = Plus(added[k][l], n)
        BY <1>5, <2>1, PlusType
      <4>. QED
        BY <1>1, <1>6, <4>1 DEF AddOne, TypeOK
    <3>4. Get(lists'[h], m) = IF h = k /\ m = l THEN Plus(Get(lists[k], l), n)
                              ELSE Get(lists[h], m)
      BY <2>2, <2>3
    <3>. QED
      BY <3>1, <3>2, <3>3, <3>4
  <2>. QED
    BY <2>2, <2>4, <2>5 DEF HeldNow
<1>7. ASSUME NEW k \in Lists, NEW s \in Lists, AddList(k, s)
      PROVE  ListsDistinct' /\ HeldNow'
  <2>1. /\ lists' = lists /\ op = NoOp /\ k # s
        /\ op' = [target |-> k, source |-> s, at |-> 1, compact |-> FALSE]
    BY <1>7 DEF AddList, Call
  <2>2. op' # NoOp
    BY <1>1, <2>1 DEF NoOp, AddList
  <2>3. ListsDistinct'
    BY <1>3, <2>1 DEF ListsDistinct
  <2>4. ASSUME NEW h \in Lists, NEW m \in Languages
        PROVE  IF h = k THEN Plus(Get(lists[h], m)', Rest(m)') = added'[h][m]
               ELSE Get(lists[h], m)' = added'[h][m]
    <3>1. Get(lists[h], m)' = Get(lists[h], m)
      BY <2>1, GetKept
    <3>2. Get(lists[h], m) = added[h][m] /\ Get(lists[s], m) = added[s][m]
      BY <1>3, <2>1 DEF HeldNow
    <3>3. Rest(m)' = Get(lists[s], m)
      BY <1>1, <1>4, <2>1, RestAtStart
    <3>4. added'[h][m] = IF h = k THEN Plus(added[k][m], added[s][m]) ELSE added[h][m]
      <4>1. Gathered(added[k][m], added[s][m]) = Plus(added[k][m], added[s][m])
        BY <1>5, PlusType
      <4>. QED
        BY <1>1, <1>7, <4>1 DEF AddList, TypeOK
    <3>. QED
      BY <3>1, <3>2, <3>3, <3>4
  <2>. QED
    BY <2>1, <2>2, <2>3, <2>4 DEF HeldNow
<1>8. ASSUME NEW k \in Lists, NEW s \in Lists, NewCompact(k, s)
      PROVE  ListsDistinct' /\ HeldNow'
  <2>1. /\ lists' = [lists EXCEPT ![k] = <<>>] /\ op = NoOp /\ k # s
        /\ op' = [target |-> k, source |-> s, at |-> 1, compact |-> TRUE]
        /\ lists \in [Lists -> Seq(Items)]
    BY <1>1, <1>8 DEF NewCompact, Call, TypeOK
  <2>2. op' # NoOp
    BY <2>1 DEF NoOp
  <2>3. ListsDistinct'
    <3>1. Distinct(<<>>)
      BY DEF Distinct
    <3>. QED
      BY <1>4, <2>1, <3>1 DEF ListsDistinct
  <2>4. ASSUME NEW h \in Lists, NEW m \in Languages
        PROVE  IF h = k THEN Plus(Get(lists[h], m)', Rest(m)') = added'[h][m]
               ELSE Get(lists[h], m)' = added'[h][m]
    <3>1. CASE h = k
      <4>1. Get(lists[k], m)' = Zero
        <5>1. lists'[k] = <<>>
          BY <2>1
        <5>2. At(lists[k], m)' = {}
          BY <5>1 DEF At
        <5>. QED
          BY <1>1, <5>2 DEF Get
      <4>2. Rest(m)' = Counted(Get(lists[s], m))
        BY <1>1, <1>4, <2>1, RestAtStart
      <4>3. Get(lists[s], m) = added[s][m]
        BY <1>3, <2>1 DEF HeldNow
      <4>4. added'[k][m] = Counted(added[s][m])
        BY <1>1, <1>8 DEF NewCompact, TypeOK
      <4>5. Counted(added[s][m]) \in Numbers
        BY <1>5, CountedNumbers, AmountsType
      <4>. QED
        BY <3>1, <4>1, <4>2, <4>3, <4>4, <4>5, PlusZero
    <3>2. CASE h # k
      <4>1. lists'[h] = lists[h]
        BY <2>1, <3>2
      <4>2. Get(lists[h], m)' = Get(lists[h], m)
        BY <4>1, GetKept
      <4>3. added'[h][m] = added[h][m]
        BY <1>1, <1>8, <3>2 DEF NewCompact, TypeOK
      <4>. QED
        BY <1>3, <2>1, <3>2, <4>2, <4>3 DEF HeldNow
    <3>. QED
      BY <3>1, <3>2
  <2>. QED
    BY <2>1, <2>2, <2>3, <2>4 DEF HeldNow
<1>9. CASE NextItem
  <2>. DEFINE t == op.target
              s == op.source
              item == lists[s][op.at]
              skip == op.compact /\ NoLines(item.n)
  <2>1. /\ op \in Ops /\ t \in Lists /\ s \in Lists /\ t # s
        /\ op.at \in DOMAIN lists[s]
        /\ lists \in [Lists -> Seq(Items)] /\ added' = added
    BY <1>1, <1>9 DEF NextItem, TypeOK, Ops, LocInv
  <2>2. op' # NoOp /\ op # NoOp /\ op'.target = t
    <3>1. op' \in Ops /\ op'.target = op.target
      BY <1>9, <2>1 DEF NextItem, Ops
    <3>2. DOMAIN op' = {"target", "source", "at", "compact"} /\ DOMAIN NoOp = {"target"}
      BY <3>1 DEF Ops, NoOp
    <3>. QED
      BY <1>9, <3>1, <3>2 DEF NextItem
  <2>3. item \in Items /\ item.n \in Numbers /\ item.language \in Languages
    <3>1. item \in Items
      BY <2>1
    <3>. QED
      BY <3>1 DEF Items, Numbers
  <2>4. lists' = IF skip THEN lists ELSE [lists EXCEPT ![t] = AddLoc(@, item)]
    BY <1>9 DEF NextItem, Add
  <2>5. /\ Distinct(AddLoc(lists[t], item))
        /\ \A m : m # item.language =>
             Get(AddLoc(lists[t], item), m) = Get(lists[t], m)
        /\ Get(AddLoc(lists[t], item), item.language)
             = Plus(Get(lists[t], item.language), item.n)
    BY <1>4, <2>1, <2>3, AddLocGet
  <2>6. ListsDistinct'
    BY <1>4, <2>1, <2>4, <2>5 DEF ListsDistinct
  <2>7. ASSUME NEW h \in Lists, h # t, NEW m \in Languages
        PROVE  Get(lists[h], m)' = added'[h][m]
    <3>1. lists'[h] = lists[h]
      BY <2>1, <2>4, <2>7
    <3>2. Get(lists[h], m)' = Get(lists[h], m)
      BY <3>1, GetKept
    <3>. QED
      BY <1>3, <2>1, <2>7, <3>2 DEF HeldNow
  <2>8. ASSUME NEW m \in Languages
        PROVE  Plus(Get(lists[t], m)', Rest(m)') = added'[t][m]
    <3>1. Plus(Get(lists[t], m), Rest(m)) = added[t][m]
      BY <1>3, <2>1, <2>2 DEF HeldNow
    <3>2. Get(lists[t], m)' = Get(lists'[t], m)
      <4>1. t' = t
        BY <2>2
      <4>2. /\ At(lists[t], m)' = At(lists'[t], m)
            /\ First(lists[t], m)' = First(lists'[t], m)
        BY <4>1 DEF At, First
      <4>. QED
        BY <1>1, <4>2, <4>1 DEF Get
    <3>3. Get(lists'[t], m) = IF skip \/ m # item.language THEN Get(lists[t], m)
                              ELSE Plus(Get(lists[t], m), item.n)
      BY <2>1, <2>4, <2>5
    <3>4. IF m = item.language
          THEN Rest(m)' = Zero /\ Rest(m) = IF skip THEN Zero ELSE item.n
          ELSE Rest(m)' = Rest(m)
      BY <1>9, RestAfterItem
    <3>5. Get(lists[t], m) \in Numbers
      BY <1>4, <2>1, GetType
    <3>6. Plus(Plus(Get(lists[t], m), item.n), Zero) = Plus(Get(lists[t], m), item.n)
      BY <2>3, <3>5, PlusType, PlusZero
    <3>. QED
      BY <2>1, <3>1, <3>2, <3>3, <3>4, <3>6
  <2>. QED
    BY <2>2, <2>6, <2>7, <2>8 DEF HeldNow
<1>10. CASE EndOfList
  <2>1. op \in Ops /\ op' = NoOp /\ lists' = lists /\ added' = added /\ op # NoOp
    BY <1>1, <1>10 DEF EndOfList, TypeOK
  <2>2. ListsDistinct'
    BY <1>3, <2>1 DEF ListsDistinct
  <2>3. ASSUME NEW m PROVE Rest(m) = Zero
    <3>1. lists[op.source] \in Seq(Items) /\ op.at \in Nat
      BY <1>4, <2>1 DEF Ops
    <3>2. \A i \in At(lists[op.source], m) : ~(i >= op.at)
      BY <1>10, <3>1 DEF At, EndOfList
    <3>. QED
      BY <3>2 DEF Rest
  <2>4. ASSUME NEW h \in Lists, NEW m \in Languages
        PROVE  Get(lists[h], m)' = added'[h][m]
    <3>1. Get(lists[h], m)' = Get(lists[h], m)
      BY <2>1, GetKept
    <3>2. Plus(Get(lists[h], m), Zero) = Get(lists[h], m)
      BY <1>4, GetType, PlusZero
    <3>3. Rest(m) = Zero
      BY <2>3
    <3>. QED
      BY <1>3, <2>1, <3>1, <3>2, <3>3 DEF HeldNow
  <2>. QED
    BY <2>1, <2>2, <2>4 DEF HeldNow
<1>11. CASE UNCHANGED vars
  <2>1. lists' = lists /\ added' = added /\ op' = op
    BY <1>11 DEF vars
  <2>2. \A h \in Lists : \A m : Get(lists[h], m)' = Get(lists[h], m)
    BY <2>1, GetKept
  <2>3. \A m \in Languages : op # NoOp => Rest(m)' = Rest(m)
    <3>1. \A m : At(lists[op.source], m)' = At(lists[op.source], m)
      BY <2>1 DEF At
    <3>2. ASSUME op # NoOp, NEW m PROVE Get(lists[op.source], m)' = Get(lists[op.source], m)
      <4>1. op.source \in Lists
        BY <1>1, <3>2 DEF TypeOK, Ops
      <4>. QED
        BY <2>1, <2>2, <4>1
    <3>. QED
      BY <1>1, <2>1, <3>1, <3>2 DEF Rest
  <2>4. ListsDistinct'
    BY <1>3, <2>1 DEF ListsDistinct
  <2>. QED
    BY <1>3, <2>1, <2>2, <2>3, <2>4 DEF HeldNow
<1>. QED
  BY <1>6, <1>7, <1>8, <1>9, <1>10, <1>11 DEF Next

LEMMA LocInvAlways == Spec => []LocInv
  BY LocInvInit, LocInvStep, PTL DEF Spec

\* Whatever counts, lists and compact forms a client puts into a list of
\* Loc, and in whatever order, no language gets a second item.
THEOREM OneEntryAlways == Spec => []OneEntry
<1>1. LocInv => OneEntry
  BY DEF LocInv, ListsDistinct, Distinct, OneEntry
<1>. QED
  BY <1>1, LocInvAlways, PTL

\* Between operations get_loc answers, for every language, exactly what was
\* put into the list for it.
THEOREM LocsCompleteAlways == Spec => []LocsComplete
<1>1. LocInv => LocsComplete
  BY DEF LocInv, HeldNow, LocsComplete
<1>. QED
  BY <1>1, LocInvAlways, PTL

-----------------------------------------------------------------------------
(* Sums over sequences.                                                    *)

\* The library's theorem that < is well-founded, with its operator expanded.
LEMMA LessThanWellFounded ==
    IsWellFoundedOn({e \in Nat \X Nat : e[1] < e[2]}, Nat)
  BY NatLessThanWellFounded DEF OpToRel

LEMMA LeastNat ==
  ASSUME NEW S \in SUBSET Nat, S # {}
  PROVE  \E n \in S : \A k \in S : n <= k
<1>. DEFINE R == {e \in Nat \X Nat : e[1] < e[2]}
<1>1. IsWellFoundedOn(R, Nat)
  BY LessThanWellFounded
<1>2. PICK n \in S : \A k \in S : <<k, n>> \notin R
  <2>. HIDE DEF R
  <2>. QED
    BY <1>1, WFMin
<1>3. ASSUME NEW k \in S PROVE n <= k
  <2>1. k \in Nat /\ n \in Nat
    OBVIOUS
  <2>2. ~(k < n)
    BY <1>2, <2>1
  <2>3. QED
    BY <2>1, <2>2
<1>4. QED
  BY <1>3

\* Induction, as a statement about sets.
LEMMA NatSet ==
  ASSUME NEW S, 0 \in S, \A n \in Nat : n \in S => n + 1 \in S
  PROVE  \A n \in Nat : n \in S
<1>. DEFINE T == {n \in Nat : n \notin S}
<1>1. SUFFICES ASSUME T # {} PROVE FALSE
  OBVIOUS
<1>2. PICK k \in T : \A j \in T : k <= j
  BY <1>1, LeastNat
<1>3. k # 0 /\ k - 1 \in Nat /\ (k - 1) + 1 = k
  BY <1>2
<1>4. k - 1 \in S
  BY <1>2, <1>3
<1>5. QED
  BY <1>2, <1>3, <1>4

\* The sums of the first numbers of a sequence.
Part(t, g, n) == t = [i \in 0 .. n |-> IF i = 0 THEN 0 ELSE t[i - 1] + g[i]]
SumOf(g) == LET s[n \in Nat] == IF n = 0 THEN 0 ELSE s[n - 1] + g[n] IN s

LEMMA PartExists ==
  ASSUME NEW g
  PROVE  \A n \in Nat : \E t : Part(t, g, n)
<1>. DEFINE S == {n \in Nat : \E t : Part(t, g, n)}
<1>1. 0 \in S
  <2>. DEFINE t == [i \in 0 .. 0 |-> 0]
  <2>1. t = [i \in 0 .. 0 |-> IF i = 0 THEN 0 ELSE t[i - 1] + g[i]]
    OBVIOUS
  <2>2. QED
    BY <2>1 DEF Part
<1>2. ASSUME NEW n \in Nat, n \in S PROVE n + 1 \in S
  <2>1. PICK u : Part(u, g, n)
    BY <1>2
  <2>. DEFINE k == n + 1
              t == [i \in 0 .. k |-> IF i = k THEN u[n] + g[k] ELSE u[i]]
  <2>2. ASSUME NEW i \in 0 .. k
        PROVE  t[i] = IF i = 0 THEN 0 ELSE t[i - 1] + g[i]
    <3>1. CASE i = k
      <4>1. i - 1 = n /\ n \in 0 .. k /\ n # k /\ i # 0
        BY <3>1
      <4>2. QED
        BY <3>1, <4>1
    <3>2. CASE i # k
      <4>1. i \in 0 .. n /\ (i # 0 => i - 1 \in 0 .. n /\ i - 1 # k)
        BY <3>2
      <4>2. t[i] = u[i] /\ (i # 0 => t[i - 1] = u[i - 1])
        BY <3>2, <4>1
      <4>3. u[i] = IF i = 0 THEN 0 ELSE u[i - 1] + g[i]
        BY <2>1, <4>1 DEF Part
      <4>4. QED
        BY <4>2, <4>3
    <3>3. QED
      BY <3>1, <3>2
  <2>3. t = [i \in 0 .. k |-> IF i = 0 THEN 0 ELSE t[i - 1] + g[i]]
    BY <2>2
  <2>. HIDE DEF t
  <2>4. QED
    BY <2>3 DEF Part
<1>. HIDE DEF S
<1>3. \A n \in Nat : n \in S
  BY <1>1, <1>2, NatSet
<1>4. QED
  BY <1>3 DEF S

LEMMA PartsAgree ==
  ASSUME NEW g, NEW n \in Nat, NEW m \in Nat, NEW t, NEW u, Part(t, g, n), Part(u, g, m)
  PROVE  \A i \in 0 .. n : i <= m => t[i] = u[i]
<1>. DEFINE S == {i \in Nat : i <= n /\ i <= m => t[i] = u[i]}
<1>1. 0 \in S
  BY DEF Part
<1>2. ASSUME NEW i \in Nat, i \in S PROVE i + 1 \in S
  <2>1. SUFFICES ASSUME i + 1 <= n, i + 1 <= m PROVE t[i + 1] = u[i + 1]
    OBVIOUS
  <2>2. /\ i + 1 \in 0 .. n /\ i + 1 \in 0 .. m /\ i + 1 # 0 /\ (i + 1) - 1 = i
        /\ t[i] = u[i]
    BY <1>2, <2>1
  <2>3. t[i + 1] = t[i] + g[i + 1] /\ u[i + 1] = u[i] + g[i + 1]
    BY <2>2 DEF Part
  <2>4. QED
    BY <2>2, <2>3
<1>. HIDE DEF S
<1>3. \A i \in Nat : i \in S
  BY <1>1, <1>2, NatSet
<1>4. QED
  BY <1>3 DEF S

\* The next number is added to the sum.
LEMMA SumNext ==
  ASSUME NEW g
  PROVE  /\ SumOf(g)[0] = 0
         /\ \A n \in Nat : SumOf(g)[n + 1] = SumOf(g)[n] + g[n + 1]
<1>. DEFINE P(n) == CHOOSE t : Part(t, g, n)
            s == [n \in Nat |-> P(n)[n]]
<1>1. \A n \in Nat : Part(P(n), g, n)
  BY PartExists
<1>2. ASSUME NEW n \in Nat PROVE s[n] = IF n = 0 THEN 0 ELSE s[n - 1] + g[n]
  <2>1. n = 0 => s[n] = 0
    <3>. HIDE DEF P
    <3>1. Part(P(0), g, 0)
      BY <1>1
    <3>2. P(0)[0] = 0
      BY <3>1 DEF Part
    <3>3. QED
      BY <3>2
  <2>2. ASSUME n # 0 PROVE s[n] = s[n - 1] + g[n]
    <3>. DEFINE m == n - 1
    <3>1. m \in Nat /\ m \in 0 .. n /\ n \in 0 .. n /\ m \in 0 .. m /\ m <= n
      BY <2>2
    <3>. HIDE DEF P
    <3>2. P(n)[n] = P(n)[m] + g[n]
      BY <1>1, <2>2, <3>1 DEF Part
    <3>3. P(m)[m] = P(n)[m]
      BY <1>1, <3>1, PartsAgree
    <3>4. QED
      BY <3>1, <3>2, <3>3
  <2>. HIDE DEF s
  <2>3. QED
    BY <2>1, <2>2
<1>. HIDE DEF P
<1>3. s = [n \in Nat |-> IF n = 0 THEN 0 ELSE s[n - 1] + g[n]]
  BY <1>2
<1>. HIDE DEF s
<1>4. SumOf(g) = [n \in Nat |-> IF n = 0 THEN 0 ELSE SumOf(g)[n - 1] + g[n]]
  BY <1>3 DEF SumOf
<1>5. SumOf(g)[0] = 0
  BY <1>4
<1>6. ASSUME NEW n \in Nat PROVE SumOf(g)[n + 1] = SumOf(g)[n] + g[n + 1]
  <2>1. n + 1 \in Nat /\ n + 1 # 0 /\ (n + 1) - 1 = n
    OBVIOUS
  <2>2. SumOf(g)[n + 1] = SumOf(g)[(n + 1) - 1] + g[n + 1]
    BY <1>4, <2>1
  <2>3. QED
    BY <2>1, <2>2
<1>7. QED
  BY <1>5, <1>6

\* Sums of what are sums term by term, and of the terms d apart at one place j.
LEMMA SumType ==
  ASSUME NEW g, NEW m \in Nat, \A i \in 1 .. m : g[i] \in Int
  PROVE  SumOf(g)[m] \in Int
<1>. DEFINE S == {n \in Nat : n <= m => SumOf(g)[n] \in Int}
<1>1. 0 \in S
  BY SumNext
<1>2. ASSUME NEW n \in Nat, n \in S PROVE n + 1 \in S
  <2>1. n + 1 <= m => g[n + 1] \in Int
    OBVIOUS
  <2>2. SumOf(g)[n + 1] = SumOf(g)[n] + g[n + 1]
    BY SumNext
  <2>3. QED
    BY <1>2, <2>1, <2>2
<1>. HIDE DEF S
<1>3. \A n \in Nat : n \in S
  BY <1>1, <1>2, NatSet
<1>4. QED
  BY <1>3 DEF S

LEMMA SumZero ==
  ASSUME NEW g, NEW m \in Nat, \A i \in 1 .. m : g[i] = 0
  PROVE  SumOf(g)[m] = 0
<1>. DEFINE S == {n \in Nat : n <= m => SumOf(g)[n] = 0}
<1>1. 0 \in S
  BY SumNext
<1>2. ASSUME NEW n \in Nat, n \in S PROVE n + 1 \in S
  <2>1. n + 1 <= m => g[n + 1] = 0
    OBVIOUS
  <2>2. SumOf(g)[n + 1] = SumOf(g)[n] + g[n + 1]
    BY SumNext
  <2>3. QED
    BY <1>2, <2>1, <2>2
<1>. HIDE DEF S
<1>3. \A n \in Nat : n \in S
  BY <1>1, <1>2, NatSet
<1>4. QED
  BY <1>3 DEF S

LEMMA SumPlus ==
  ASSUME NEW f, NEW g, NEW h, NEW m \in Nat,
         \A i \in 1 .. m : g[i] \in Int, \A i \in 1 .. m : h[i] \in Int,
         \A i \in 1 .. m : f[i] = g[i] + h[i]
  PROVE  SumOf(f)[m] = SumOf(g)[m] + SumOf(h)[m]
<1>. DEFINE S == {n \in Nat : n <= m => SumOf(f)[n] = SumOf(g)[n] + SumOf(h)[n]}
<1>1. 0 \in S
  BY SumNext
<1>2. ASSUME NEW n \in Nat, n \in S PROVE n + 1 \in S
  <2>. SUFFICES ASSUME n + 1 <= m
                PROVE  SumOf(f)[n + 1] = SumOf(g)[n + 1] + SumOf(h)[n + 1]
    OBVIOUS
  <2>1. g[n + 1] \in Int /\ h[n + 1] \in Int /\ f[n + 1] = g[n + 1] + h[n + 1]
    OBVIOUS
  <2>2. /\ SumOf(f)[n + 1] = SumOf(f)[n] + f[n + 1]
        /\ SumOf(g)[n + 1] = SumOf(g)[n] + g[n + 1]
        /\ SumOf(h)[n + 1] = SumOf(h)[n] + h[n + 1]
    BY SumNext
  <2>3. SumOf(g)[n] \in Int /\ SumOf(h)[n] \in Int
    <3>1. \A i \in 1 .. n : g[i] \in Int
      OBVIOUS
    <3>2. \A i \in 1 .. n : h[i] \in Int
      OBVIOUS
    <3>3. QED
      BY <3>1, <3>2, SumType
  <2>4. SumOf(f)[n] = SumOf(g)[n] + SumOf(h)[n]
    BY <1>2
  <2>5. QED
    BY <2>1, <2>2, <2>3, <2>4
<1>. HIDE DEF S
<1>3. \A n \in Nat : n \in S
  BY <1>1, <1>2, NatSet
<1>4. QED
  BY <1>3 DEF S

LEMMA SumSame ==
  ASSUME NEW g, NEW h, NEW m \in Nat, \A i \in 1 .. m : h[i] = g[i]
  PROVE  SumOf(h)[m] = SumOf(g)[m]
<1>. DEFINE S == {n \in Nat : n <= m => SumOf(h)[n] = SumOf(g)[n]}
<1>1. 0 \in S
  BY SumNext
<1>2. ASSUME NEW n \in Nat, n \in S PROVE n + 1 \in S
  <2>1. n + 1 <= m => h[n + 1] = g[n + 1] /\ n <= m
    OBVIOUS
  <2>2. SumOf(g)[n + 1] = SumOf(g)[n] + g[n + 1] /\ SumOf(h)[n + 1] = SumOf(h)[n] + h[n + 1]
    BY SumNext
  <2>3. QED
    BY <1>2, <2>1, <2>2
<1>. HIDE DEF S
<1>3. \A n \in Nat : n \in S
  BY <1>1, <1>2, NatSet
<1>4. QED
  BY <1>3 DEF S

LEMMA SumApart ==
  ASSUME NEW g, NEW h, NEW m \in Nat, NEW j \in 1 .. m, NEW d \in Int,
         \A i \in 1 .. m : g[i] \in Int, h[j] = g[j] + d,
         \A i \in 1 .. m : i # j => h[i] = g[i]
  PROVE  SumOf(h)[m] = SumOf(g)[m] + d
<1>. DEFINE S == {n \in Nat : n <= m =>
                    SumOf(h)[n] = SumOf(g)[n] + (IF n < j THEN 0 ELSE d)}
<1>1. 0 \in S
  BY SumNext
<1>2. ASSUME NEW n \in Nat, n \in S PROVE n + 1 \in S
  <2>. SUFFICES ASSUME n + 1 <= m
                PROVE  SumOf(h)[n + 1] = SumOf(g)[n + 1] + (IF n + 1 < j THEN 0 ELSE d)
    OBVIOUS
  <2>1. g[n + 1] \in Int /\ h[n + 1] = IF n + 1 = j THEN g[n + 1] + d ELSE g[n + 1]
    OBVIOUS
  <2>2. SumOf(g)[n + 1] = SumOf(g)[n] + g[n + 1] /\ SumOf(h)[n + 1] = SumOf(h)[n] + h[n + 1]
    BY SumNext
  <2>3. SumOf(g)[n] \in Int
    <3>1. \A i \in 1 .. n : g[i] \in Int
      OBVIOUS
    <3>2. QED
      BY <3>1, SumType
  <2>4. SumOf(h)[n] = SumOf(g)[n] + (IF n < j THEN 0 ELSE d)
    BY <1>2
  <2>5. QED
    BY <2>1, <2>2, <2>3, <2>4
<1>. HIDE DEF S
<1>3. \A n \in Nat : n \in S
  BY <1>1, <1>2, NatSet
<1>4. QED
  BY <1>3 DEF S

-----------------------------------------------------------------------------
(* FoldLeft of a sum is such a sum.                                        *)

Greatest(s) == CHOOSE x \in s : \A y \in s : x >= y

LEMMA GreatestIn ==
  ASSUME NEW n \in Nat, NEW s \in SUBSET (1 .. n), s # {}
  PROVE  Greatest(s) \in s
<1>. DEFINE B == {b \in Nat : \A y \in s : b >= y}
<1>1. n \in B
  OBVIOUS
<1>2. PICK b \in B : \A c \in B : b <= c
  <2>1. B \in SUBSET Nat /\ B # {}
    BY <1>1
  <2>. HIDE DEF B
  <2>. QED
    BY <2>1, LeastNat
<1>3. b \in s
  <2>. SUFFICES ASSUME b \notin s PROVE FALSE
    OBVIOUS
  <2>1. PICK y \in s : TRUE
    OBVIOUS
  <2>2. b # 0
    BY <1>2
  <2>3. \A z \in s : b - 1 >= z
    BY <1>2
  <2>4. b - 1 \in B
    BY <1>2, <2>2, <2>3
  <2>5. QED
    BY <1>2, <2>4
<1>4. \A y \in s : b >= y
  BY <1>2
<1>5. QED
  BY <1>3, <1>4 DEF Greatest

LEMMA GreatestOf ==
  ASSUME NEW n \in Nat, n # 0
  PROVE  Greatest(1 .. n) = n
<1>1. \A x \in 1 .. n : (\A y \in 1 .. n : x >= y) => x = n
  OBVIOUS
<1>2. n \in 1 .. n /\ \A y \in 1 .. n : n >= y
  OBVIOUS
<1>3. QED
  BY <1>1, <1>2 DEF Greatest

Folds(t, g, n) ==
    t = [s \in SUBSET (1 .. n) |->
           IF s = {} THEN 0 ELSE t[s \ {Greatest(s)}] + g[Greatest(s)]]

LEMMA FoldExists ==
  ASSUME NEW n \in Nat, NEW g, \A i \in 1 .. n : g[i] \in Int
  PROVE  \E t : Folds(t, g, n)
<1>. DEFINE Of(s) == [i \in 1 .. n |-> IF i \in s THEN g[i] ELSE 0]
            t == [s \in SUBSET (1 .. n) |-> SumOf(Of(s))[n]]
<1>1. ASSUME NEW s \in SUBSET (1 .. n)
      PROVE  t[s] = IF s = {} THEN 0 ELSE t[s \ {Greatest(s)}] + g[Greatest(s)]
  <2>1. CASE s = {}
    <3>1. PICK a : a = Of(s)
      OBVIOUS
    <3>2. \A i \in 1 .. n : a[i] = 0
      BY <2>1, <3>1
    <3>3. SumOf(a)[n] = 0
      BY <3>2, SumZero
    <3>. HIDE DEF Of
    <3>4. QED
      BY <2>1, <3>1, <3>3
  <2>2. CASE s # {}
    <3>. DEFINE j == Greatest(s)
                r == s \ {j}
    <3>1. j \in s /\ j \in 1 .. n /\ r \in SUBSET (1 .. n) /\ g[j] \in Int
      BY <2>2, GreatestIn
    <3>. HIDE DEF j
    <3>2. \A i \in 1 .. n : /\ Of(r)[i] \in Int
                            /\ Of(s)[i] = IF i = j THEN Of(r)[i] + g[j] ELSE Of(r)[i]
      BY <3>1
    <3>3. SumOf(Of(s))[n] = SumOf(Of(r))[n] + g[j]
      <4>1. PICK a, b, i, d : a = Of(r) /\ b = Of(s) /\ i = j /\ d = g[j]
        OBVIOUS
      <4>. HIDE DEF Of, r, j
      <4>2. /\ i \in 1 .. n /\ d \in Int
            /\ \A h \in 1 .. n : a[h] \in Int
            /\ b[i] = a[i] + d
            /\ \A h \in 1 .. n : h # i => b[h] = a[h]
        BY <3>1, <3>2, <4>1
      <4>3. SumOf(b)[n] = SumOf(a)[n] + d
        BY <4>2, SumApart
      <4>4. QED
        BY <4>1, <4>3
    <3>. HIDE DEF Of, r
    <3>4. QED
      BY <2>2, <3>1, <3>3 DEF j, r
  <2>3. QED
    BY <2>1, <2>2
<1>2. t = [s \in SUBSET (1 .. n) |->
             IF s = {} THEN 0 ELSE t[s \ {Greatest(s)}] + g[Greatest(s)]]
  <2>. HIDE DEF Of
  <2>. QED
    BY <1>1
<1>. HIDE DEF t
<1>3. QED
  BY <1>2 DEF Folds

LEMMA FoldIsSum ==
  ASSUME NEW n \in Nat, NEW g, NEW t, Folds(t, g, n)
  PROVE  t[1 .. n] = SumOf(g)[n]
<1>. DEFINE S == {k \in Nat : k <= n => t[1 .. k] = SumOf(g)[k]}
<1>1. 0 \in S
  <2>1. 1 .. 0 = {} /\ {} \in SUBSET (1 .. n)
    OBVIOUS
  <2>2. t[1 .. 0] = 0
    BY <2>1 DEF Folds
  <2>3. QED
    BY <2>2, SumNext
<1>2. ASSUME NEW k \in Nat, k \in S PROVE k + 1 \in S
  <2>. SUFFICES ASSUME k + 1 <= n PROVE t[1 .. k + 1] = SumOf(g)[k + 1]
    OBVIOUS
  <2>1. /\ 1 .. k + 1 \in SUBSET (1 .. n) /\ 1 .. k + 1 # {}
        /\ (1 .. k + 1) \ {k + 1} = 1 .. k
    <3>1. k + 1 \in 1 .. k + 1
      OBVIOUS
    <3>2. \A i : i \in 1 .. k <=> i \in 1 .. k + 1 /\ i # k + 1
      OBVIOUS
    <3>3. QED
      BY <3>1, <3>2
  <2>2. Greatest(1 .. k + 1) = k + 1
    BY GreatestOf
  <2>3. t[1 .. k + 1] = t[1 .. k] + g[k + 1]
    BY <2>1, <2>2 DEF Folds
  <2>4. t[1 .. k] = SumOf(g)[k]
    BY <1>2
  <2>5. QED
    BY <2>3, <2>4, SumNext
<1>. HIDE DEF S
<1>3. \A k \in Nat : k \in S
  BY <1>1, <1>2, NatSet
<1>4. QED
  BY <1>3 DEF S

-----------------------------------------------------------------------------
(* The sums over a list.                                                   *)

Terms(list, f) == [i \in 1 .. Len(list) |-> list[i].n[f]]

LEMMA ItemNumbers ==
  ASSUME NEW list \in Seq(Items), NEW i \in 1 .. Len(list)
  PROVE  /\ list[i] \in Items /\ list[i].n \in Numbers
         /\ \A f \in Fields : list[i].n[f] \in Nat
<1>1. list[i] \in Items
  OBVIOUS
<1>2. list[i].n \in Numbers
  BY <1>1 DEF Items, Numbers
<1>3. QED
  BY <1>1, <1>2 DEF Numbers

LEMMA TotalIsSum ==
  ASSUME NEW list \in Seq(Items), NEW f \in Fields
  PROVE  /\ Total(list, f) = SumOf(Terms(list, f))[Len(list)]
         /\ \A i \in 1 .. Len(list) : Terms(list, f)[i] = list[i].n[f] /\ Terms(list, f)[i] \in Int
         /\ Total(list, f) \in Int
<1>. DEFINE n == Len(list)
            g == Terms(list, f)
            T == CHOOSE t : t = [s \in SUBSET DOMAIN list |->
                   IF s = {} THEN 0 ELSE t[s \ {Greatest(s)}] + list[Greatest(s)].n[f]]
<1>1. n \in Nat /\ DOMAIN list = 1 .. n
  OBVIOUS
<1>2. \A i \in 1 .. n : g[i] = list[i].n[f] /\ g[i] \in Int
  BY ItemNumbers DEF Terms
<1>3. Total(list, f) = T[DOMAIN list]
  BY DEF Total, FoldLeft, MapThenFoldSet, Max, Greatest
<1>. HIDE DEF n, g
<1>4. PICK u : Folds(u, g, n)
  BY <1>1, <1>2, FoldExists
<1>5. \A s \in SUBSET (1 .. n) : s # {} => g[Greatest(s)] = list[Greatest(s)].n[f]
  <2>1. \A s \in SUBSET (1 .. n) : s # {} => Greatest(s) \in 1 .. n
    BY <1>1, GreatestIn
  <2>2. QED
    BY <1>2, <2>1
<1>6. u = [s \in SUBSET DOMAIN list |->
             IF s = {} THEN 0 ELSE u[s \ {Greatest(s)}] + list[Greatest(s)].n[f]]
  BY <1>1, <1>4, <1>5 DEF Folds
<1>7. T = [s \in SUBSET DOMAIN list |->
             IF s = {} THEN 0 ELSE T[s \ {Greatest(s)}] + list[Greatest(s)].n[f]]
  BY <1>6
<1>. HIDE DEF T
<1>8. Folds(T, g, n)
  BY <1>1, <1>5, <1>7 DEF Folds
<1>9. T[1 .. n] = SumOf(g)[n]
  BY <1>1, <1>8, FoldIsSum
<1>10. SumOf(g)[n] \in Int
  BY <1>1, <1>2, SumType
<1>11. QED
  BY <1>1, <1>2, <1>3, <1>9, <1>10 DEF n, g

LEMMA TotalAppend ==
  ASSUME NEW list \in Seq(Items), NEW item \in Items, NEW f \in Fields
  PROVE  Total(Append(list, item), f) = Total(list, f) + item.n[f]
<1>. DEFINE new == Append(list, item)
            n == Len(list)
            g == Terms(list, f)
            h == Terms(new, f)
<1>1. /\ new \in Seq(Items) /\ Len(new) = n + 1 /\ n \in Nat
      /\ new[n + 1] = item /\ \A i \in 1 .. n : new[i] = list[i]
  OBVIOUS
<1>2. /\ Total(list, f) = SumOf(g)[n] /\ Total(new, f) = SumOf(h)[n + 1]
      /\ \A i \in 1 .. n : g[i] = list[i].n[f]
      /\ \A i \in 1 .. n + 1 : h[i] = new[i].n[f]
  BY <1>1, TotalIsSum
<1>. HIDE DEF new, n, g, h
<1>3. SumOf(h)[n] = SumOf(g)[n]
  <2>1. \A i \in 1 .. n : h[i] = g[i]
    BY <1>1, <1>2
  <2>2. QED
    BY <1>1, <2>1, SumSame
<1>4. SumOf(h)[n + 1] = SumOf(h)[n] + item.n[f]
  BY <1>1, <1>2, SumNext
<1>5. QED
  BY <1>2, <1>3, <1>4 DEF new

LEMMA TotalPlus ==
  ASSUME NEW list \in Seq(Items), NEW j \in DOMAIN list, NEW m \in Numbers, NEW f \in Fields
  PROVE  Total([list EXCEPT ![j].n = Plus(@, m)], f) = Total(list, f) + m[f]
<1>. DEFINE new == [list EXCEPT ![j].n = Plus(@, m)]
            n == Len(list)
            g == Terms(list, f)
            h == Terms(new, f)
<1>1. new \in Seq(Items)
  BY ExceptType
<1>2. /\ Len(new) = n /\ n \in Nat /\ j \in 1 .. n
      /\ new[j] = [list[j] EXCEPT !.n = Plus(@, m)]
      /\ \A i \in 1 .. n : i # j => new[i] = list[i]
  OBVIOUS
<1>3. list[j] \in Items /\ list[j].n \in Numbers
  BY <1>2, ItemNumbers
<1>4. new[j].n = Plus(list[j].n, m)
  BY <1>2, <1>3 DEF Items
<1>5. Plus(list[j].n, m)[f] = list[j].n[f] + m[f] /\ m[f] \in Int
  BY <1>3 DEF Plus, Numbers
<1>6. /\ Total(list, f) = SumOf(g)[n] /\ Total(new, f) = SumOf(h)[n]
      /\ \A i \in 1 .. n : g[i] = list[i].n[f] /\ g[i] \in Int
      /\ \A i \in 1 .. n : h[i] = new[i].n[f]
  <2>. HIDE DEF new
  <2>. QED
    BY <1>1, <1>2, TotalIsSum
<1>7. SumOf(h)[n] = SumOf(g)[n] + m[f]
  <2>1. PICK d \in Int : d = m[f]
    BY <1>5
  <2>. HIDE DEF new, n, g, h
  <2>0. \A i \in 1 .. n : g[i] \in Int
    BY <1>6
  <2>2. h[j] = g[j] + d
    <3>1. h[j] = new[j].n[f] /\ g[j] = list[j].n[f]
      BY <1>2, <1>6
    <3>2. new[j].n[f] = list[j].n[f] + d
      BY <1>4, <1>5, <2>1
    <3>3. QED
      BY <3>1, <3>2
  <2>4. \A i \in 1 .. n : i # j => h[i] = g[i]
    BY <1>2, <1>6
  <2>3. SumOf(h)[n] = SumOf(g)[n] + d
    <3>1. PICK a, b, i, k : a = g /\ b = h /\ i = j /\ k = n
      OBVIOUS
    <3>2. /\ k \in Nat /\ i \in 1 .. k /\ b[i] = a[i] + d
          /\ \A x \in 1 .. k : a[x] \in Int
          /\ \A x \in 1 .. k : x # i => b[x] = a[x]
      BY <1>2, <2>0, <2>2, <2>4, <3>1
    <3>3. SumOf(b)[k] = SumOf(a)[k] + d
      BY <3>2, SumApart
    <3>4. QED
      BY <3>1, <3>3
  <2>5. QED
    BY <2>1, <2>3
<1>. HIDE DEF new, n, g, h
<1>8. QED
  BY <1>6, <1>7 DEF new

\* The first item of a language is an item.
LEMMA FirstIn ==
  ASSUME NEW list \in Seq(Items), NEW l, At(list, l) # {}
  PROVE  First(list, l) \in DOMAIN list
<1>1. At(list, l) \in SUBSET Nat
  BY DEF At
<1>2. \E i \in At(list, l) : \A h \in At(list, l) : i <= h
  BY <1>1, LeastNat
<1>3. First(list, l) \in At(list, l)
  BY <1>2 DEF First
<1>4. QED
  BY <1>3 DEF At

\* Whichever item it is added to, no number is lost.
LEMMA AddTotal ==
  ASSUME NEW list \in Seq(Items), NEW item \in Items, NEW f \in Fields
  PROVE  Total(Add(list, item), f) = Total(list, f) + item.n[f]
<1>1. item.n \in Numbers
  BY DEF Items, Numbers
<1>2. \A j \in DOMAIN list :
        Total([list EXCEPT ![j].n = Plus(@, item.n)], f) = Total(list, f) + item.n[f]
  BY <1>1, TotalPlus
<1>3. Total(Append(list, item), f) = Total(list, f) + item.n[f]
  BY TotalAppend
<1>4. list # <<>> => 1 \in DOMAIN list
  OBVIOUS
<1>5. QED
  BY <1>2, <1>3, <1>4, FirstIn DEF Add, AddLoc, AddLocDelta

-----------------------------------------------------------------------------
(* The sums over the languages.                                            *)

Tags == SetToSeq(Languages)
Tagged(h) == [i \in 1 .. Len(Tags) |-> h[Tags[i]]]
LangSum(h) == SumOf(Tagged(h))[Len(Tags)]

LEMMA TagsList ==
    /\ Tags \in Seq(Languages) /\ Len(Tags) \in Nat /\ DOMAIN Tags = 1 .. Len(Tags)
    /\ \A i \in 1 .. Len(Tags) : Tags[i] \in Languages
    /\ \A l \in Languages : \E i \in 1 .. Len(Tags) :
         Tags[i] = l /\ \A j \in 1 .. Len(Tags) : Tags[j] = l => j = i
<1>. DEFINE n == Cardinality(Languages)
<1>1. n \in Nat /\ ExistsBijection(1 .. n, Languages)
  BY LocAssumption, FS_CardinalityType
<1>2. \E t \in [1 .. n -> Languages] : IsInjective(t)
  BY <1>1 DEF ExistsBijection, Bijection, Injection, IsInjective
<1>3. Tags \in [1 .. n -> Languages] /\ IsInjective(Tags)
  BY <1>2 DEF Tags, SetToSeq
<1>4. Tags \in Seq(Languages) /\ Len(Tags) = n
  BY <1>1, <1>3
<1>5. Tags \in Surjection(1 .. n, Languages)
  <2>1. Tags \in Injection(1 .. n, Languages)
    BY <1>3 DEF Injection, IsInjective
  <2>2. Cardinality(1 .. n) = n
    BY <1>1, FS_Interval
  <2>3. QED
    BY <1>1, <2>1, <2>2, LocAssumption, FS_Injection
<1>6. \A l \in Languages : \E i \in 1 .. n : Tags[i] = l
  BY <1>5 DEF Surjection
<1>7. \A i, j \in 1 .. n : Tags[i] = Tags[j] => i = j
  BY <1>3 DEF IsInjective
<1>8. QED
  BY <1>1, <1>3, <1>4, <1>6, <1>7

LEMMA LangSame ==
  ASSUME NEW g, NEW h, \A l \in Languages : h[l] = g[l]
  PROVE  LangSum(h) = LangSum(g)
<1>1. PICK a, b, n : a = Tagged(g) /\ b = Tagged(h) /\ n = Len(Tags)
  OBVIOUS
<1>2. n \in Nat /\ \A i \in 1 .. n : b[i] = a[i]
  BY <1>1, TagsList DEF Tagged
<1>3. SumOf(b)[n] = SumOf(a)[n]
  BY <1>2, SumSame
<1>4. QED
  BY <1>1, <1>3 DEF LangSum

LEMMA LangZero ==
  ASSUME NEW h, \A l \in Languages : h[l] = 0
  PROVE  LangSum(h) = 0
<1>1. \A i \in 1 .. Len(Tags) : Tagged(h)[i] = 0
  BY TagsList DEF Tagged
<1>2. PICK g, n : g = Tagged(h) /\ n = Len(Tags)
  OBVIOUS
<1>3. n \in Nat /\ \A i \in 1 .. n : g[i] = 0
  BY <1>1, <1>2, TagsList
<1>4. SumOf(g)[n] = 0
  BY <1>3, SumZero
<1>5. QED
  BY <1>2, <1>4 DEF LangSum

LEMMA LangPlus ==
  ASSUME NEW f, NEW g, NEW h,
         \A l \in Languages : g[l] \in Int, \A l \in Languages : h[l] \in Int,
         \A l \in Languages : f[l] = g[l] + h[l]
  PROVE  LangSum(f) = LangSum(g) + LangSum(h)
<1>1. PICK a, b, c, n : /\ a = Tagged(f) /\ b = Tagged(g) /\ c = Tagged(h)
                        /\ n = Len(Tags)
  OBVIOUS
<1>2. /\ n \in Nat /\ \A i \in 1 .. n : Tags[i] \in Languages
      /\ \A i \in 1 .. n : a[i] = f[Tags[i]] /\ b[i] = g[Tags[i]] /\ c[i] = h[Tags[i]]
  BY <1>1, TagsList DEF Tagged
<1>3. \A i \in 1 .. n : b[i] \in Int
  BY <1>2
<1>4. \A i \in 1 .. n : c[i] \in Int
  BY <1>2
<1>5. \A i \in 1 .. n : a[i] = b[i] + c[i]
  BY <1>2
<1>6. SumOf(a)[n] = SumOf(b)[n] + SumOf(c)[n]
  BY <1>2, <1>3, <1>4, <1>5, SumPlus
<1>7. QED
  BY <1>1, <1>6 DEF LangSum

LEMMA LangApart ==
  ASSUME NEW g, NEW h, NEW l0 \in Languages, NEW d \in Int,
         \A l \in Languages : g[l] \in Int, h[l0] = g[l0] + d,
         \A l \in Languages : l # l0 => h[l] = g[l]
  PROVE  LangSum(h) = LangSum(g) + d
<1>1. PICK a, b, n : a = Tagged(g) /\ b = Tagged(h) /\ n = Len(Tags)
  OBVIOUS
<1>2. PICK j \in 1 .. n : /\ Tags[j] = l0
                          /\ \A i \in 1 .. n : Tags[i] = l0 => i = j
  BY <1>1, TagsList
<1>3. n \in Nat /\ \A i \in 1 .. n : Tags[i] \in Languages /\ a[i] = g[Tags[i]] /\ b[i] = h[Tags[i]]
  BY <1>1, TagsList DEF Tagged
<1>4. \A i \in 1 .. n : a[i] \in Int
  BY <1>3
<1>5. b[j] = a[j] + d
  BY <1>2, <1>3
<1>6. \A i \in 1 .. n : i # j => b[i] = a[i]
  BY <1>2, <1>3
<1>7. SumOf(b)[n] = SumOf(a)[n] + d
  BY <1>3, <1>4, <1>5, <1>6, SumApart
<1>8. QED
  BY <1>1, <1>7 DEF LangSum

OfField(m, f) == [l \in Languages |-> m[l][f]]

\* The sum over the items of a list without repeated languages is the sum over
\* the languages of what get_loc answers.
LEMMA DistinctTotal ==
  ASSUME NEW f \in Fields
  PROVE  \A list \in Seq(Items) : Distinct(list) =>
           Total(list, f) = LangSum([l \in Languages |-> Get(list, l)[f]])
<1>. DEFINE Asked(list) == [l \in Languages |-> Get(list, l)[f]]
            Right(list) == Total(list, f) = LangSum(Asked(list))
            S == {n \in Nat : \A list \in Seq(Items) :
                    Len(list) = n /\ Distinct(list) => Right(list)}
<1>1. 0 \in S
  <2>. SUFFICES ASSUME NEW list \in Seq(Items), Len(list) = 0 PROVE Right(list)
    OBVIOUS
  <2>1. \A l \in Languages : Asked(list)[l] = 0
    BY DEF Get, At, Zero
  <2>2. Total(list, f) = 0
    BY TotalIsSum, SumNext
  <2>. HIDE DEF Asked
  <2>3. QED
    BY <2>1, <2>2, LangZero
<1>2. ASSUME NEW n \in Nat, n \in S PROVE n + 1 \in S
  <2>. SUFFICES ASSUME NEW list \in Seq(Items), Len(list) = n + 1, Distinct(list)
                PROVE  Right(list)
    OBVIOUS
  <2>. DEFINE front == [i \in 1 .. n |-> list[i]]
              item == list[n + 1]
              l0 == item.language
  <2>1. /\ item \in Items /\ front \in Seq(Items) /\ Len(front) = n
        /\ DOMAIN front = 1 .. n /\ \A i \in 1 .. n : front[i] = list[i]
    OBVIOUS
  <2>2. list = Append(front, item)
    OBVIOUS
  <2>3. DOMAIN list = 1 .. n + 1
    OBVIOUS
  <2>4. Distinct(front)
    BY <2>1, <2>3 DEF Distinct
  <2>5. At(front, l0) = {}
    <3>1. \A i \in 1 .. n : i \in 1 .. n + 1 /\ i # n + 1 /\ n + 1 \in 1 .. n + 1
      OBVIOUS
    <3>2. \A i \in 1 .. n : front[i].language # l0
      BY <2>1, <2>3, <3>1 DEF Distinct
    <3>3. QED
      BY <2>1, <3>2 DEF At
  <2>. HIDE DEF front, item
  <2>6. list = AddLoc(front, item)
    BY <2>2, <2>5 DEF AddLoc
  <2>7. /\ \A l : l # l0 => Get(list, l) = Get(front, l)
        /\ Get(list, l0) = Plus(Get(front, l0), item.n)
    BY <2>1, <2>4, <2>6, AddLocGet
  <2>8. item.n \in Numbers /\ l0 \in Languages /\ \A l : Get(front, l) \in Numbers
    BY <2>1, <2>4, GetType DEF Items, Numbers
  <2>9. PICK d \in Int : d = item.n[f]
    BY <2>8 DEF Numbers
  <2>10. /\ \A l \in Languages : Asked(front)[l] \in Int
         /\ \A l \in Languages : l # l0 => Asked(list)[l] = Asked(front)[l]
    BY <2>7, <2>8 DEF Numbers
  <2>11. Asked(list)[l0] = Asked(front)[l0] + d
    <3>1. Plus(Get(front, l0), item.n)[f] = Get(front, l0)[f] + d
      BY <2>8, <2>9 DEF Plus, Numbers
    <3>2. QED
      BY <2>7, <2>8, <3>1
  <2>12. Total(list, f) = Total(front, f) + d
    BY <2>1, <2>2, <2>9, TotalAppend
  <2>13. Right(front)
    BY <1>2, <2>1, <2>4
  <2>14. LangSum(Asked(list)) = LangSum(Asked(front)) + d
    <3>1. PICK a, b : a = Asked(front) /\ b = Asked(list)
      OBVIOUS
    <3>. HIDE DEF Asked, l0
    <3>2. LangSum(b) = LangSum(a) + d
      BY <2>8, <2>10, <2>11, <3>1, LangApart
    <3>3. QED
      BY <3>1, <3>2
  <2>. HIDE DEF Asked
  <2>15. QED
    BY <2>12, <2>13, <2>14
<1>3. \A n \in Nat : n \in S
  <2>. HIDE DEF S
  <2>. QED
    BY <1>1, <1>2, NatSet
<1>4. \A list \in Seq(Items) : Len(list) \in Nat
  OBVIOUS
<1>5. QED
  BY <1>3, <1>4

\* The sum of the net changes of the items is the net change of the sums.
NetTerms(list) == [i \in 1 .. Len(list) |-> Net(list[i].n)]

LEMMA NetType ==
  ASSUME NEW m, \A f \in Changes : m[f] \in Nat
  PROVE  Net(m) \in Int
<1>1. /\ m["code_added"] \in Int /\ m["code_removed"] \in Int
      /\ m["comments_added"] \in Int /\ m["comments_removed"] \in Int
      /\ m["blanks_added"] \in Int /\ m["blanks_removed"] \in Int
  BY DEF Changes
<1>2. QED
  BY <1>1 DEF Net

LEMMA NetIsSum ==
  ASSUME kind = "LocDelta", NEW list \in Seq(Items)
  PROVE  /\ NetTotal(list) = SumOf(NetTerms(list))[Len(list)]
         /\ \A i \in 1 .. Len(list) : NetTerms(list)[i] = Net(list[i].n)
<1>. DEFINE n == Len(list)
            g == NetTerms(list)
            T == CHOOSE t : t = [s \in SUBSET DOMAIN list |->
                   IF s = {} THEN 0 ELSE t[s \ {Greatest(s)}] + Net(list[Greatest(s)].n)]
<1>1. n \in Nat /\ DOMAIN list = 1 .. n
  OBVIOUS
<1>2. \A i \in 1 .. n : g[i] = Net(list[i].n) /\ g[i] \in Int
  <2>1. \A i \in 1 .. n : \A f \in Changes : list[i].n[f] \in Nat
    BY ItemNumbers DEF Fields
  <2>2. \A i \in 1 .. n : Net(list[i].n) \in Int
    BY <2>1, NetType
  <2>3. QED
    BY <2>2 DEF NetTerms
<1>3. NetTotal(list) = T[DOMAIN list]
  BY DEF NetTotal, FoldLeft, MapThenFoldSet, Max, Greatest
<1>. HIDE DEF n, g
<1>4. PICK u : Folds(u, g, n)
  BY <1>1, <1>2, FoldExists
<1>5. \A s \in SUBSET (1 .. n) : s # {} => g[Greatest(s)] = Net(list[Greatest(s)].n)
  <2>1. \A s \in SUBSET (1 .. n) : s # {} => Greatest(s) \in 1 .. n
    BY <1>1, GreatestIn
  <2>2. QED
    BY <1>2, <2>1
<1>6. u = [s \in SUBSET DOMAIN list |->
             IF s = {} THEN 0 ELSE u[s \ {Greatest(s)}] + Net(list[Greatest(s)].n)]
  BY <1>1, <1>4, <1>5 DEF Folds
<1>7. T = [s \in SUBSET DOMAIN list |->
             IF s = {} THEN 0 ELSE T[s \ {Greatest(s)}] + Net(list[Greatest(s)].n)]
  BY <1>6
<1>. HIDE DEF T
<1>8. Folds(T, g, n)
  BY <1>1, <1>5, <1>7 DEF Folds
<1>9. T[1 .. n] = SumOf(g)[n]
  BY <1>1, <1>8, FoldIsSum
<1>10. QED
  BY <1>1, <1>2, <1>3, <1>9 DEF n, g

LEMMA NetOfTotals ==
  ASSUME kind = "LocDelta", NEW list \in Seq(Items)
  PROVE  NetTotal(list) = Net([f \in Changes |-> Total(list, f)])
<1>. DEFINE n == Len(list)
<1>1. PICK t, a, b, c, d, e, h :
        /\ t = NetTerms(list)
        /\ a = Terms(list, "code_added") /\ b = Terms(list, "code_removed")
        /\ c = Terms(list, "comments_added") /\ d = Terms(list, "comments_removed")
        /\ e = Terms(list, "blanks_added") /\ h = Terms(list, "blanks_removed")
  OBVIOUS
<1>. DEFINE S == {k \in Nat : k <= n =>
               SumOf(t)[k] = (SumOf(a)[k] - SumOf(b)[k]) + (SumOf(c)[k] - SumOf(d)[k])
                             + (SumOf(e)[k] - SumOf(h)[k])}
<1>2. Fields = Changes /\ n \in Nat
  BY DEF Fields
<1>3. \A i \in 1 .. n :
        /\ a[i] = list[i].n["code_added"] /\ b[i] = list[i].n["code_removed"]
        /\ c[i] = list[i].n["comments_added"] /\ d[i] = list[i].n["comments_removed"]
        /\ e[i] = list[i].n["blanks_added"] /\ h[i] = list[i].n["blanks_removed"]
  BY <1>1 DEF Terms
<1>4. \A i \in 1 .. n : /\ a[i] \in Int /\ b[i] \in Int /\ c[i] \in Int
                        /\ d[i] \in Int /\ e[i] \in Int /\ h[i] \in Int
  <2>1. \A i \in 1 .. n : \A f \in Changes : list[i].n[f] \in Int
    BY <1>2, ItemNumbers
  <2>2. QED
    BY <1>3, <2>1 DEF Changes
<1>5. \A i \in 1 .. n : t[i] = (a[i] - b[i]) + (c[i] - d[i]) + (e[i] - h[i])
  BY <1>1, <1>3, NetIsSum DEF Net
<1>6. 0 \in S
  <2>1. /\ SumOf(t)[0] = 0 /\ SumOf(a)[0] = 0 /\ SumOf(b)[0] = 0 /\ SumOf(c)[0] = 0
        /\ SumOf(d)[0] = 0 /\ SumOf(e)[0] = 0 /\ SumOf(h)[0] = 0
    BY SumNext
  <2>2. QED
    BY <2>1
<1>7. ASSUME NEW k \in Nat, k \in S PROVE k + 1 \in S
  <2>. SUFFICES ASSUME k + 1 <= n
       PROVE SumOf(t)[k + 1] = (SumOf(a)[k + 1] - SumOf(b)[k + 1])
               + (SumOf(c)[k + 1] - SumOf(d)[k + 1]) + (SumOf(e)[k + 1] - SumOf(h)[k + 1])
    OBVIOUS
  <2>1. k + 1 \in 1 .. n
    BY <1>2
  <2>2. \A g : SumOf(g)[k + 1] = SumOf(g)[k] + g[k + 1]
    BY SumNext
  <2>3. ASSUME NEW g, \A i \in 1 .. n : g[i] \in Int PROVE SumOf(g)[k] \in Int
    <3>1. \A i \in 1 .. k : g[i] \in Int
      BY <1>2, <2>3
    <3>2. QED
      BY <3>1, SumType
  <2>4. /\ SumOf(a)[k] \in Int /\ SumOf(b)[k] \in Int /\ SumOf(c)[k] \in Int
        /\ SumOf(d)[k] \in Int /\ SumOf(e)[k] \in Int /\ SumOf(h)[k] \in Int
    BY <1>4, <2>3
  <2>5. SumOf(t)[k] = (SumOf(a)[k] - SumOf(b)[k]) + (SumOf(c)[k] - SumOf(d)[k])
                      + (SumOf(e)[k] - SumOf(h)[k])
    BY <1>7, <1>2
  <2>6. t[k + 1] = (a[k + 1] - b[k + 1]) + (c[k + 1] - d[k + 1]) + (e[k + 1] - h[k + 1])
    BY <1>5, <2>1
  <2>7. /\ a[k + 1] \in Int /\ b[k + 1] \in Int /\ c[k + 1] \in Int
        /\ d[k + 1] \in Int /\ e[k + 1] \in Int /\ h[k + 1] \in Int
    BY <1>4, <2>1
  <2>8. SumOf(t)[k + 1] = SumOf(t)[k] + t[k + 1]
    BY <2>2
  <2>9. ASSUME NEW p, NEW q, SumOf(p)[k] \in Int, SumOf(q)[k] \in Int,
               p[k + 1] \in Int, q[k + 1] \in Int
        PROVE  SumOf(p)[k + 1] - SumOf(q)[k + 1]
                 = (SumOf(p)[k] - SumOf(q)[k]) + (p[k + 1] - q[k + 1])
    BY <2>2, <2>9
  <2>10. ASSUME NEW p, NEW q, SumOf(p)[k] \in Int, SumOf(q)[k] \in Int,
                p[k + 1] \in Int, q[k + 1] \in Int
         PROVE  SumOf(p)[k] - SumOf(q)[k] \in Int /\ p[k + 1] - q[k + 1] \in Int
    BY <2>10
  <2>11. PICK x, y, z, u, v, w :
           /\ x = SumOf(a)[k] - SumOf(b)[k] /\ u = a[k + 1] - b[k + 1]
           /\ y = SumOf(c)[k] - SumOf(d)[k] /\ v = c[k + 1] - d[k + 1]
           /\ z = SumOf(e)[k] - SumOf(h)[k] /\ w = e[k + 1] - h[k + 1]
    OBVIOUS
  <2>12. x \in Int /\ u \in Int /\ SumOf(a)[k + 1] - SumOf(b)[k + 1] = x + u
    BY <2>4, <2>7, <2>9, <2>10, <2>11
  <2>13. y \in Int /\ v \in Int /\ SumOf(c)[k + 1] - SumOf(d)[k + 1] = y + v
    BY <2>4, <2>7, <2>9, <2>10, <2>11
  <2>14. z \in Int /\ w \in Int /\ SumOf(e)[k + 1] - SumOf(h)[k + 1] = z + w
    BY <2>4, <2>7, <2>9, <2>10, <2>11
  <2>15. SumOf(t)[k] = x + y + z /\ t[k + 1] = u + v + w
    BY <2>5, <2>6, <2>11
  <2>16. SumOf(t)[k + 1] = (x + u) + (y + v) + (z + w)
    BY <2>8, <2>12, <2>13, <2>14, <2>15
  <2>17. QED
    BY <2>12, <2>13, <2>14, <2>16
<1>. HIDE DEF S
<1>8. \A k \in Nat : k \in S
  BY <1>6, <1>7, NatSet
<1>9. SumOf(t)[n] = (SumOf(a)[n] - SumOf(b)[n]) + (SumOf(c)[n] - SumOf(d)[n])
                    + (SumOf(e)[n] - SumOf(h)[n])
  BY <1>2, <1>8 DEF S
<1>10. /\ Total(list, "code_added") = SumOf(a)[n] /\ Total(list, "code_removed") = SumOf(b)[n]
       /\ Total(list, "comments_added") = SumOf(c)[n]
       /\ Total(list, "comments_removed") = SumOf(d)[n]
       /\ Total(list, "blanks_added") = SumOf(e)[n] /\ Total(list, "blanks_removed") = SumOf(h)[n]
  BY <1>1, <1>2, TotalIsSum DEF Changes
<1>11. NetTotal(list) = SumOf(t)[n]
  BY <1>1, NetIsSum
<1>12. PICK m : m = [f \in Changes |-> Total(list, f)]
  OBVIOUS
<1>13. /\ m["code_added"] = SumOf(a)[n] /\ m["code_removed"] = SumOf(b)[n]
       /\ m["comments_added"] = SumOf(c)[n] /\ m["comments_removed"] = SumOf(d)[n]
       /\ m["blanks_added"] = SumOf(e)[n] /\ m["blanks_removed"] = SumOf(h)[n]
  <2>1. \A f \in Changes : m[f] = Total(list, f)
    BY <1>12
  <2>2. /\ "code_added" \in Changes /\ "code_removed" \in Changes
        /\ "comments_added" \in Changes /\ "comments_removed" \in Changes
        /\ "blanks_added" \in Changes /\ "blanks_removed" \in Changes
    BY DEF Changes
  <2>3. QED
    BY <1>10, <2>1, <2>2
<1>14. NetTotal(list) = Net(m)
  BY <1>9, <1>11, <1>13 DEF Net
<1>15. QED
  BY <1>12, <1>14

-----------------------------------------------------------------------------
\* What was put into a list, of one number, over all languages; and what the
\* loop under way has still to read of it.
Put(k, f) == LangSum(OfField(added[k], f))
Unread(f) ==
    Total(lists[op.source], f) - SumOf(Terms(lists[op.source], f))[op.at - 1]

LEMMA NumbersOfField ==
  ASSUME NEW m \in [Languages -> Numbers], NEW f \in Fields
  PROVE  \A l \in Languages : OfField(m, f)[l] = m[l][f] /\ m[l][f] \in Nat
<1>1. \A l \in Languages : m[l] \in Numbers
  OBVIOUS
<1>2. QED
  BY <1>1 DEF OfField, Numbers

LEMMA PutOne ==
  ASSUME NEW m \in [Languages -> Numbers], NEW l \in Languages, NEW n \in Numbers,
         NEW f \in Fields
  PROVE  LangSum(OfField([m EXCEPT ![l] = Gathered(@, n)], f))
           = LangSum(OfField(m, f)) + n[f]
<1>1. PICK new : new = [m EXCEPT ![l] = Gathered(@, n)]
  OBVIOUS
<1>2. m[l] \in Numbers /\ Gathered(m[l], n) \in Numbers
  BY PlusType
<1>3. /\ new \in [Languages -> Numbers] /\ new[l] = Gathered(m[l], n)
      /\ \A h \in Languages : h # l => new[h] = m[h]
  BY <1>1, <1>2
<1>4. Gathered(m[l], n)[f] = m[l][f] + n[f] /\ n[f] \in Int
  BY <1>2 DEF Gathered, Numbers
<1>5. PICK a, b, d : a = OfField(m, f) /\ b = OfField(new, f) /\ d = n[f]
  OBVIOUS
<1>6. /\ \A h \in Languages : a[h] = m[h][f] /\ m[h][f] \in Nat
      /\ \A h \in Languages : b[h] = new[h][f]
  BY <1>3, <1>5, NumbersOfField
<1>7. \A h \in Languages : a[h] \in Int
  BY <1>6
<1>8. b[l] = a[l] + d /\ d \in Int
  BY <1>3, <1>4, <1>5, <1>6
<1>9. \A h \in Languages : h # l => b[h] = a[h]
  BY <1>3, <1>6
<1>10. LangSum(b) = LangSum(a) + d
  BY <1>7, <1>8, <1>9, LangApart
<1>11. QED
  BY <1>1, <1>5, <1>10

LEMMA PutAll ==
  ASSUME NEW m \in [Languages -> Numbers], NEW p \in [Languages -> Numbers],
         NEW f \in Fields
  PROVE  LangSum(OfField([l \in Languages |-> Gathered(m[l], p[l])], f))
           = LangSum(OfField(m, f)) + LangSum(OfField(p, f))
<1>1. PICK new : new = [l \in Languages |-> Gathered(m[l], p[l])]
  OBVIOUS
<1>2. \A l \in Languages : m[l] \in Numbers /\ p[l] \in Numbers
  OBVIOUS
<1>3. \A l \in Languages : new[l] \in Numbers /\ new[l][f] = m[l][f] + p[l][f]
  BY <1>1, <1>2 DEF Gathered, Numbers
<1>4. PICK a, b, c : a = OfField(new, f) /\ b = OfField(m, f) /\ c = OfField(p, f)
  OBVIOUS
<1>5. \A l \in Languages : a[l] = new[l][f]
  BY <1>4 DEF OfField
<1>6. \A l \in Languages : /\ b[l] = m[l][f] /\ m[l][f] \in Nat
                           /\ c[l] = p[l][f] /\ p[l][f] \in Nat
  BY <1>4, NumbersOfField
<1>7. \A l \in Languages : b[l] \in Int
  BY <1>6
<1>8. \A l \in Languages : c[l] \in Int
  BY <1>6
<1>9. \A l \in Languages : a[l] = b[l] + c[l]
  BY <1>3, <1>5, <1>6
<1>10. LangSum(a) = LangSum(b) + LangSum(c)
  BY <1>7, <1>8, <1>9, LangPlus
<1>11. QED
  BY <1>1, <1>4, <1>10

\* A LocDelta that is not changed has nothing but zeroes, so that leaving it
\* out of a compact form leaves no number out.
LEMMA Unchanged ==
  ASSUME kind = "LocDelta", NEW n \in Numbers
  PROVE  /\ Counted(n) = n
         /\ NoLines(n) => \A f \in Fields : n[f] = 0
<1>1. Fields = Changes /\ "filecount" \notin Changes
  BY DEF Fields, Changes
<1>2. DOMAIN n = Changes
  BY <1>1 DEF Numbers
<1>3. NoLines(n) => \A f \in Changes : n[f] = 0
  BY <1>1, <1>2 DEF NoLines
<1>4. NoLines(n) => n = Zero
  BY <1>1, <1>2, <1>3 DEF Zero, Numbers
<1>5. Counted(n) = IF NoLines(n) THEN Zero ELSE n
  BY CountedNumbers
<1>6. QED
  BY <1>1, <1>3, <1>4, <1>5

LEMMA PutCompact ==
  ASSUME kind = "LocDelta", NEW p \in [Languages -> Numbers], NEW f \in Fields
  PROVE  LangSum(OfField([l \in Languages |-> Counted(p[l])], f))
           = LangSum(OfField(p, f))
<1>1. \A l \in Languages : p[l] \in Numbers
  OBVIOUS
<1>2. \A l \in Languages : Counted(p[l]) = p[l]
  BY <1>1, Unchanged
<1>3. [l \in Languages |-> Counted(p[l])] = p
  BY <1>2
<1>4. QED
  BY <1>3

LEMMA AddedIsPut ==
  ASSUME TypeOK, NEW k \in Lists, NEW f \in Fields
  PROVE  AddedTotal(k, f) = Put(k, f)
<1>. DEFINE n == Len(Tags)
            g == Tagged(OfField(added[k], f))
            T == CHOOSE t : t = [s \in SUBSET DOMAIN Tags |->
                   IF s = {} THEN 0 ELSE t[s \ {Greatest(s)}] + added[k][Tags[Greatest(s)]][f]]
<1>1. n \in Nat /\ DOMAIN Tags = 1 .. n
  BY TagsList
<1>2. \A i \in 1 .. n : g[i] = added[k][Tags[i]][f] /\ g[i] \in Int
  <2>1. added[k] \in [Languages -> Numbers]
    BY DEF TypeOK, Numbers
  <2>2. \A l \in Languages : OfField(added[k], f)[l] = added[k][l][f] /\ added[k][l][f] \in Nat
    BY <2>1, NumbersOfField
  <2>3. QED
    BY <2>2, TagsList DEF Tagged
<1>3. AddedTotal(k, f) = T[DOMAIN Tags]
  BY DEF AddedTotal, Tags, FoldLeft, MapThenFoldSet, Max, Greatest
<1>. HIDE DEF n, g
<1>4. PICK u : Folds(u, g, n)
  BY <1>1, <1>2, FoldExists
<1>5. \A s \in SUBSET (1 .. n) : s # {} => g[Greatest(s)] = added[k][Tags[Greatest(s)]][f]
  <2>1. \A s \in SUBSET (1 .. n) : s # {} => Greatest(s) \in 1 .. n
    BY <1>1, GreatestIn
  <2>2. QED
    BY <1>2, <2>1
<1>6. u = [s \in SUBSET DOMAIN Tags |->
             IF s = {} THEN 0 ELSE u[s \ {Greatest(s)}] + added[k][Tags[Greatest(s)]][f]]
  BY <1>1, <1>4, <1>5 DEF Folds
<1>7. T = [s \in SUBSET DOMAIN Tags |->
             IF s = {} THEN 0 ELSE T[s \ {Greatest(s)}] + added[k][Tags[Greatest(s)]][f]]
  BY <1>6
<1>. HIDE DEF T
<1>8. Folds(T, g, n)
  BY <1>1, <1>5, <1>7 DEF Folds
<1>9. T[1 .. n] = SumOf(g)[n]
  BY <1>1, <1>8, FoldIsSum
<1>10. QED
  BY <1>1, <1>3, <1>9 DEF n, g, LangSum, Put

-----------------------------------------------------------------------------
\* The inductive invariant of the lists of LocDelta: no item need be found
\* again, so it is about the sums alone.
SumsNow ==
    \A k \in Lists, f \in Fields :
      IF op # NoOp /\ op.target = k
      THEN Total(lists[k], f) + Unread(f) = Put(k, f)
      ELSE Total(lists[k], f) = Put(k, f)

InSource == op # NoOp => op.at <= Len(lists[op.source]) + 1

SumInv == LocInv /\ InSource /\ (kind = "LocDelta" => SumsNow)

LEMMA NothingYet ==
  ASSUME NEW f \in Fields
  PROVE  Total(<<>>, f) = 0
<1>1. <<>> \in Seq(Items) /\ Len(<<>>) = 0
  OBVIOUS
<1>2. QED
  BY <1>1, TotalIsSum, SumNext

LEMMA SumInvInit == Init => SumInv
<1>. SUFFICES ASSUME Init PROVE SumInv
  OBVIOUS
<1>1. ASSUME NEW k \in Lists, NEW f \in Fields PROVE Total(lists[k], f) = Put(k, f)
  <2>1. Total(lists[k], f) = 0
    BY NothingYet DEF Init
  <2>2. \A l \in Languages : OfField(added[k], f)[l] = 0
    BY DEF Init, OfField, Zero
  <2>3. QED
    BY <2>1, <2>2, LangZero DEF Put
<1>2. QED
  BY <1>1, LocInvInit DEF SumInv, InSource, SumsNow, Init

\* The sum of the items before a place of a list is a number.
LEMMA ReadType ==
  ASSUME NEW list \in Seq(Items), NEW f \in Fields, NEW i \in Nat, i <= Len(list)
  PROVE  SumOf(Terms(list, f))[i] \in Int
<1>1. PICK g : g = Terms(list, f)
  OBVIOUS
<1>2. \A h \in 1 .. i : g[h] \in Int
  BY <1>1, TotalIsSum
<1>3. SumOf(g)[i] \in Int
  BY <1>2, SumType
<1>4. QED
  BY <1>1, <1>3

\* The loop has the whole of its source to read when it starts, and nothing
\* at the end; an iteration takes the item at its place out of the rest.
LEMMA UnreadStart ==
  ASSUME NEW list \in Seq(Items), NEW f \in Fields
  PROVE  Total(list, f) - SumOf(Terms(list, f))[1 - 1] = Total(list, f)
<1>1. 1 - 1 = 0 /\ SumOf(Terms(list, f))[0] = 0
  BY SumNext
<1>2. Total(list, f) \in Int
  BY TotalIsSum
<1>3. QED
  BY <1>1, <1>2

LEMMA UnreadEnd ==
  ASSUME NEW list \in Seq(Items), NEW f \in Fields
  PROVE  Total(list, f) - SumOf(Terms(list, f))[Len(list)] = 0
  BY TotalIsSum

LEMMA UnreadNext ==
  ASSUME NEW list \in Seq(Items), NEW f \in Fields, NEW i \in 1 .. Len(list)
  PROVE  /\ SumOf(Terms(list, f))[(i + 1) - 1]
              = SumOf(Terms(list, f))[i - 1] + list[i].n[f]
         /\ SumOf(Terms(list, f))[i - 1] \in Int /\ list[i].n[f] \in Int
<1>1. PICK g : g = Terms(list, f)
  OBVIOUS
<1>2. i - 1 \in Nat /\ (i - 1) + 1 = i /\ (i + 1) - 1 = i /\ i - 1 <= Len(list)
  OBVIOUS
<1>3. SumOf(g)[i] = SumOf(g)[i - 1] + g[i]
  BY <1>2, SumNext
<1>4. g[i] = list[i].n[f] /\ g[i] \in Int
  BY <1>1, TotalIsSum
<1>5. SumOf(g)[i - 1] \in Int
  BY <1>1, <1>2, ReadType
<1>6. QED
  BY <1>1, <1>2, <1>3, <1>4, <1>5

LEMMA InSourceStep == SumInv /\ [Next]_vars => InSource'
<1>. SUFFICES ASSUME SumInv, [Next]_vars, op' # NoOp
              PROVE  op'.at <= Len(lists'[op'.source]) + 1
  BY DEF InSource
<1>1. TypeOK /\ TypeOK'
  BY TypeStep DEF SumInv, LocInv
<1>2. CASE op' = op /\ lists' = lists
  BY <1>2 DEF SumInv, InSource
<1>3. ASSUME NEW k \in Lists, NEW s \in Lists, AddList(k, s) \/ NewCompact(k, s)
      PROVE  op'.at <= Len(lists'[op'.source]) + 1
  <2>1. op'.at = 1 /\ op'.source = s
    BY <1>3 DEF AddList, NewCompact
  <2>2. lists'[s] \in Seq(Items')
    BY <1>1 DEF TypeOK
  <2>3. Len(lists'[s]) \in Nat
    BY <2>2
  <2>4. QED
    BY <2>1, <2>3
<1>4. CASE NextItem
  <2>1. op \in Ops /\ op.target \in Lists /\ op.source \in Lists /\ op.at \in Nat
    BY <1>1, <1>4 DEF NextItem, TypeOK, Ops
  <2>2. op.target # op.source
    BY <1>4 DEF NextItem, SumInv, LocInv
  <2>3. lists'[op.source] = lists[op.source]
    BY <1>1, <1>4, <2>1, <2>2 DEF NextItem, TypeOK
  <2>4. op'.source = op.source /\ op'.at = op.at + 1 /\ op.at <= Len(lists[op.source])
    BY <1>4, <2>1 DEF NextItem, Ops
  <2>5. Len(lists[op.source]) \in Nat
    <3>1. lists[op.source] \in Seq(Items)
      BY <1>1, <2>1 DEF TypeOK
    <3>2. QED
      BY <3>1
  <2>6. QED
    BY <2>1, <2>3, <2>4, <2>5
<1>5. QED
  BY <1>2, <1>3, <1>4 DEF Next, AddOne, Call, EndOfList, vars

\* A step leaves the sums of the lists it leaves alone.
LEMMA SumsStep == SumInv /\ [Next]_vars /\ kind = "LocDelta" => SumsNow'
<1>. SUFFICES ASSUME SumInv, [Next]_vars, kind = "LocDelta" PROVE SumsNow'
  OBVIOUS
<1>1. TypeOK /\ TypeOK' /\ kind' = kind /\ Fields' = Fields /\ SumsNow
  BY TypeStep, KindKept DEF SumInv, LocInv
<1>2. /\ lists \in [Lists -> Seq(Items)]
      /\ added \in [Lists -> [Languages -> Numbers]]
      /\ op # NoOp => op \in Ops /\ op.target # op.source
  BY <1>1 DEF TypeOK, Numbers, SumInv, LocInv
<1>. SUFFICES ASSUME NEW h \in Lists, NEW f \in Fields
       PROVE  IF op' # NoOp /\ op'.target = h
              THEN Total(lists'[h], f) + Unread(f)' = LangSum(OfField(added'[h], f))
              ELSE Total(lists'[h], f) = LangSum(OfField(added'[h], f))
  BY <1>1 DEF SumsNow, Put
<1>3. Unread(f)' = Total(lists'[op'.source], f)
                   - SumOf(Terms(lists'[op'.source], f))[op'.at - 1]
  BY DEF Unread
<1>4. \A k \in Lists : Total(lists[k], f) \in Int
  BY <1>2, TotalIsSum
<1>5. ASSUME NEW k \in Lists, NEW l \in Languages, NEW n \in Amounts, AddOne(k, l, n)
      PROVE  op' = NoOp /\ Total(lists'[h], f) = LangSum(OfField(added'[h], f))
  <2>. DEFINE item == [language |-> l, n |-> n]
  <2>1. op = NoOp /\ op' = NoOp
    BY <1>5 DEF AddOne, Call
  <2>2. Total(lists[h], f) = LangSum(OfField(added[h], f))
    BY <1>1, <2>1 DEF SumsNow, Put
  <2>3. CASE h # k
    <3>1. lists'[h] = lists[h] /\ added'[h] = added[h]
      BY <1>2, <1>5, <2>3 DEF AddOne
    <3>2. QED
      BY <2>1, <2>2, <3>1
  <2>4. CASE h = k
    <3>1. item \in Items /\ item.n = n /\ n \in Numbers
      BY AmountsType DEF Items, Numbers
    <3>2. lists'[k] = Add(lists[k], item)
      BY <1>2, <1>5 DEF AddOne
    <3>3. added'[k] = [added[k] EXCEPT ![l] = Gathered(@, n)]
      BY <1>2, <1>5 DEF AddOne
    <3>. HIDE DEF item
    <3>4. Total(lists'[k], f) = Total(lists[k], f) + n[f]
      BY <1>2, <3>1, <3>2, AddTotal
    <3>5. LangSum(OfField(added'[k], f)) = LangSum(OfField(added[k], f)) + n[f]
      <4>1. added[k] \in [Languages -> Numbers]
        BY <1>2
      <4>2. QED
        BY <3>1, <3>3, <4>1, PutOne
    <3>6. QED
      BY <2>1, <2>2, <2>4, <3>4, <3>5
  <2>5. QED
    BY <2>3, <2>4
<1>6. ASSUME NEW k \in Lists, NEW s \in Lists, AddList(k, s)
      PROVE  /\ op' # NoOp /\ op'.target = k
             /\ h = k => Total(lists'[h], f) + Unread(f)' = LangSum(OfField(added'[h], f))
             /\ h # k => Total(lists'[h], f) = LangSum(OfField(added'[h], f))
  <2>1. /\ op = NoOp /\ lists' = lists /\ k # s
        /\ op' = [target |-> k, source |-> s, at |-> 1, compact |-> FALSE]
    BY <1>6 DEF AddList, Call
  <2>2. op' # NoOp /\ op'.target = k /\ op'.source = s /\ op'.at = 1
    BY <2>1 DEF NoOp
  <2>3. \A g \in Lists : Total(lists[g], f) = LangSum(OfField(added[g], f))
    BY <1>1, <2>1 DEF SumsNow, Put
  <2>4. Unread(f)' = Total(lists[s], f)
    BY <1>2, <1>3, <2>1, <2>2, UnreadStart
  <2>5. CASE h # k
    <3>1. added'[h] = added[h]
      BY <1>2, <1>6, <2>5 DEF AddList
    <3>2. QED
      BY <2>1, <2>2, <2>3, <2>5, <3>1
  <2>6. CASE h = k
    <3>1. added'[k] = [l \in Languages |-> Gathered(added[k][l], added[s][l])]
      BY <1>2, <1>6 DEF AddList
    <3>2. added[k] \in [Languages -> Numbers] /\ added[s] \in [Languages -> Numbers]
      BY <1>2
    <3>3. LangSum(OfField(added'[k], f))
            = LangSum(OfField(added[k], f)) + LangSum(OfField(added[s], f))
      BY <3>1, <3>2, PutAll
    <3>4. QED
      BY <2>1, <2>2, <2>3, <2>4, <2>6, <3>3
  <2>7. QED
    BY <2>2, <2>5, <2>6
<1>7. ASSUME NEW k \in Lists, NEW s \in Lists, NewCompact(k, s)
      PROVE  /\ op' # NoOp /\ op'.target = k
             /\ h = k => Total(lists'[h], f) + Unread(f)' = LangSum(OfField(added'[h], f))
             /\ h # k => Total(lists'[h], f) = LangSum(OfField(added'[h], f))
  <2>1. /\ op = NoOp /\ lists' = [lists EXCEPT ![k] = <<>>] /\ k # s
        /\ op' = [target |-> k, source |-> s, at |-> 1, compact |-> TRUE]
    BY <1>7 DEF NewCompact, Call
  <2>2. op' # NoOp /\ op'.target = k /\ op'.source = s /\ op'.at = 1
    BY <2>1 DEF NoOp
  <2>3. \A g \in Lists : Total(lists[g], f) = LangSum(OfField(added[g], f))
    BY <1>1, <2>1 DEF SumsNow, Put
  <2>4. lists'[s] = lists[s] /\ lists'[k] = <<>>
    BY <1>2, <2>1
  <2>5. Unread(f)' = Total(lists[s], f)
    BY <1>2, <1>3, <2>2, <2>4, UnreadStart
  <2>6. CASE h # k
    <3>1. lists'[h] = lists[h] /\ added'[h] = added[h]
      BY <1>2, <1>7, <2>1, <2>6 DEF NewCompact
    <3>2. QED
      BY <2>2, <2>3, <2>6, <3>1
  <2>7. CASE h = k
    <3>1. added'[k] = [l \in Languages |-> Counted(added[s][l])]
      BY <1>2, <1>7 DEF NewCompact
    <3>2. added[s] \in [Languages -> Numbers]
      BY <1>2
    <3>3. LangSum(OfField(added'[k], f)) = LangSum(OfField(added[s], f))
      BY <3>1, <3>2, PutCompact
    <3>4. Total(<<>>, f) = 0
      BY NothingYet
    <3>5. 0 + Total(lists[s], f) = Total(lists[s], f)
      BY <1>4
    <3>6. QED
      BY <2>2, <2>3, <2>4, <2>5, <2>7, <3>3, <3>4, <3>5
  <2>8. QED
    BY <2>2, <2>6, <2>7
<1>8. CASE NextItem
  <2>. DEFINE t == op.target
              s == op.source
              item == lists[s][op.at]
              skip == op.compact /\ NoLines(item.n)
  <2>1. /\ op \in Ops /\ op # NoOp /\ t \in Lists /\ s \in Lists /\ t # s
        /\ op.at \in 1 .. Len(lists[s]) /\ added' = added
    BY <1>2, <1>8 DEF NextItem, Ops
  <2>2. op' # NoOp /\ op'.target = t /\ op'.source = s /\ op'.at = op.at + 1
    <3>1. op' = [op EXCEPT !.at = @ + 1]
      BY <1>8 DEF NextItem
    <3>2. DOMAIN op' = {"target", "source", "at", "compact"} /\ DOMAIN NoOp = {"target"}
      BY <2>1, <3>1 DEF Ops, NoOp
    <3>3. QED
      BY <2>1, <3>1, <3>2 DEF Ops
  <2>3. lists[s] \in Seq(Items) /\ lists[t] \in Seq(Items)
    BY <1>2, <2>1
  <2>4. item \in Items /\ item.n \in Numbers
    BY <2>1, <2>3, ItemNumbers
  <2>5. lists' = IF skip THEN lists ELSE [lists EXCEPT ![t] = Add(@, item)]
    BY <1>8 DEF NextItem
  <2>6. lists'[s] = lists[s] /\ \A g \in Lists : g # t => lists'[g] = lists[g]
    BY <1>2, <2>1, <2>5
  <2>7. Total(lists'[t], f) = Total(lists[t], f) + item.n[f]
    <3>1. CASE skip
      <4>1. item.n[f] = 0 /\ lists'[t] = lists[t]
        BY <2>4, <2>5, <3>1, Unchanged
      <4>2. QED
        BY <1>4, <2>1, <4>1
    <3>2. CASE ~skip
      <4>1. lists'[t] = Add(lists[t], item)
        BY <1>2, <2>1, <2>5, <3>2
      <4>2. QED
        BY <2>3, <2>4, <4>1, AddTotal
    <3>3. QED
      BY <3>1, <3>2
  <2>8. PICK a : a = SumOf(Terms(lists[s], f))[op.at - 1]
    OBVIOUS
  <2>9. /\ SumOf(Terms(lists[s], f))[(op.at + 1) - 1] = a + item.n[f]
        /\ a \in Int /\ item.n[f] \in Int
    BY <2>1, <2>3, <2>8, UnreadNext
  <2>10. Unread(f)' = Total(lists[s], f) - (a + item.n[f])
    BY <1>3, <2>2, <2>6, <2>9
  <2>11. Unread(f) = Total(lists[s], f) - a
    BY <2>8 DEF Unread
  <2>12. Total(lists[t], f) \in Int /\ Total(lists[s], f) \in Int
    BY <1>4, <2>1
  <2>13. Total(lists'[t], f) + Unread(f)' = Total(lists[t], f) + Unread(f)
    <3>. HIDE DEF item, t, s
    <3>1. QED
      BY <2>7, <2>9, <2>10, <2>11, <2>12
  <2>14. Total(lists[t], f) + Unread(f) = LangSum(OfField(added[t], f))
    BY <1>1, <2>1 DEF SumsNow, Put
  <2>15. h # t => Total(lists[h], f) = LangSum(OfField(added[h], f))
    BY <1>1 DEF SumsNow, Put
  <2>. HIDE DEF t, s
  <2>16. QED
    BY <2>1, <2>2, <2>6, <2>13, <2>14, <2>15
<1>9. CASE EndOfList
  <2>1. op # NoOp /\ op' = NoOp /\ lists' = lists /\ added' = added
    BY <1>9 DEF EndOfList
  <2>2. op \in Ops /\ op.source \in Lists /\ op.at \in Nat \ {0}
    BY <1>2, <2>1 DEF Ops
  <2>3. lists[op.source] \in Seq(Items) /\ Len(lists[op.source]) \in Nat
    BY <1>2, <2>2
  <2>4. op.at - 1 = Len(lists[op.source])
    BY <1>9, <2>1, <2>2, <2>3 DEF EndOfList, SumInv, InSource
  <2>5. Unread(f) = 0
    BY <2>3, <2>4, UnreadEnd DEF Unread
  <2>6. Total(lists[h], f) + 0 = Total(lists[h], f)
    BY <1>4
  <2>7. Total(lists[h], f) = LangSum(OfField(added[h], f))
    BY <1>1, <2>5, <2>6 DEF SumsNow, Put
  <2>8. QED
    BY <2>1, <2>7
<1>10. CASE UNCHANGED vars
  <2>1. lists' = lists /\ added' = added /\ op' = op
    BY <1>10 DEF vars
  <2>2. Unread(f)' = Unread(f)
    BY <1>3, <2>1 DEF Unread
  <2>3. QED
    BY <1>1, <2>1, <2>2 DEF SumsNow, Put
<1>11. QED
  BY <1>5, <1>6, <1>7, <1>8, <1>9, <1>10 DEF Next

LEMMA SumInvStep == SumInv /\ [Next]_vars => SumInv'
<1>1. [Next]_vars => kind' = kind
  BY KindKept
<1>2. QED
  BY <1>1, LocInvStep, InSourceStep, SumsStep DEF SumInv

LEMMA SumInvAlways == Spec => []SumInv
  BY SumInvInit, SumInvStep, PTL DEF Spec

LEMMA SumsFromInv == SumInv => TotalsConserved
<1>. SUFFICES ASSUME SumInv, op = NoOp, NEW k \in Lists
              PROVE  /\ \A f \in Fields : Total(lists[k], f) = AddedTotal(k, f)
                     /\ kind = "LocDelta" =>
                          NetTotal(lists[k]) = Net([f \in Changes |-> AddedTotal(k, f)])
  BY DEF TotalsConserved
<1>1. TypeOK /\ lists[k] \in Seq(Items) /\ added[k] \in [Languages -> Numbers]
  BY DEF SumInv, LocInv, TypeOK, Numbers
<1>2. \A f \in Fields : AddedTotal(k, f) = Put(k, f)
  BY <1>1, AddedIsPut
<1>3. ASSUME NEW f \in Fields PROVE Total(lists[k], f) = Put(k, f)
  <2>1. CASE kind = "LocDelta"
    BY <2>1 DEF SumInv, SumsNow
  <2>2. CASE kind = "Loc"
    <3>1. Distinct(lists[k]) /\ \A l \in Languages : Get(lists[k], l) = added[k][l]
      BY <2>2 DEF SumInv, LocInv, ListsDistinct, HeldNow
    <3>2. PICK a : a = [l \in Languages |-> Get(lists[k], l)[f]]
      OBVIOUS
    <3>3. Total(lists[k], f) = LangSum(a)
      BY <1>1, <3>1, <3>2, DistinctTotal
    <3>4. PICK b : b = OfField(added[k], f)
      OBVIOUS
    <3>5. \A l \in Languages : b[l] = a[l]
      BY <3>1, <3>2, <3>4 DEF OfField
    <3>6. LangSum(b) = LangSum(a)
      BY <3>5, LangSame
    <3>7. QED
      BY <3>3, <3>4, <3>6 DEF Put
  <2>3. QED
    BY <1>1, <2>1, <2>2 DEF TypeOK, Kinds
<1>4. ASSUME kind = "LocDelta"
      PROVE  NetTotal(lists[k]) = Net([f \in Changes |-> AddedTotal(k, f)])
  <2>1. \A f \in Changes : AddedTotal(k, f) = Total(lists[k], f)
    BY <1>2, <1>3, <1>4 DEF Fields
  <2>2. [f \in Changes |-> AddedTotal(k, f)] = [f \in Changes |-> Total(lists[k], f)]
    BY <2>1
  <2>3. QED
    BY <1>1, <1>4, <2>2, NetOfTotals
<1>5. QED
  BY <1>2, <1>3, <1>4

\* Whatever counts, lists and compact forms a client puts into lists of
\* either kind, and in whatever order, the sums ohcount prints for a whole
\* list (ohcount_loc_list_code and the others, and the net changes of a list
\* of LocDelta) are between operations the sums over the languages of
\* everything put into it: the items a list of LocDelta repeats are counted
\* once each, and a compact form loses no line.
THEOREM TotalsConservedAlways == Spec => []TotalsConserved
  BY SumsFromInv, SumInvAlways, PTL
=============================================================================
