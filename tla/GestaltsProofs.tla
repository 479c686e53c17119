---------------------------- MODULE GestaltsProofs ----------------------------
(***************************************************************************)
(* Proofs about Gestalts: whatever the definitions and the files, each     *)
(* definition gives its gestalt at most once, and when calc_gestalts is    *)
(* done there is none left that would give one.  If what a definition      *)
(* denies is decided before it is asked, all that was found holds then.    *)
(***************************************************************************)
EXTENDS Gestalts, TLAPS, FiniteSetTheorems

Places == DOMAIN Definitions
Names == {Definitions[i].gestalt : i \in Places}

\* Facts are gathered from files before the first round.
GatherInv == files \in Seq(Sources) /\ Counted(hits) /\ Counted(lines)

\* Before the first round nothing is asked or found; a round that gave nothing
\* so far has asked only definitions that still give nothing.
RoundInv ==
    /\ left \subseteq Places /\ rest \subseteq left /\ yank \subseteq left \ rest
    /\ found \in Seq(Names) /\ before \in 0 .. Len(found)
    /\ step \in {"process", "ask", "done"}
    /\ step = "process" => /\ left = Places /\ rest = left /\ yank = {}
                            /\ found = <<>> /\ before = 0
    /\ step = "done" => rest = left /\ yank = {}
    /\ step = "ask" /\ Len(found) = before =>
         yank = {} /\ \A i \in left \ rest : ~Triggers(Facts, Definitions[i])

LEMMA RoundInit == GInit => RoundInv
  BY DEF GInit, RoundInv, Places

LEMMA AskRound == RoundInv /\ Ask => RoundInv'
<1>. SUFFICES ASSUME RoundInv, Ask PROVE RoundInv'
  OBVIOUS
<1>. USE DEF RoundInv
<1>1. PICK i \in rest :
        /\ IF Triggers(Facts, Definitions[i])
           THEN yank' = yank \cup {i} /\ found' = Append(found, Definitions[i].gestalt)
           ELSE UNCHANGED <<yank, found>>
        /\ rest' = rest \ {i}
  BY DEF Ask
<1>2. UNCHANGED <<hits, lines, left, before, step>> /\ step = "ask"
  BY DEF Ask
<1>3. CASE Triggers(Facts, Definitions[i])
  <2>1. Definitions[i].gestalt \in Names
    BY DEF Names, Places
  <2>2. found' \in Seq(Names) /\ Len(found') = Len(found) + 1
    BY <1>1, <1>3, <2>1
  <2>. QED
    BY <1>1, <1>2, <1>3, <2>2
<1>4. CASE ~Triggers(Facts, Definitions[i])
  <2>1. UNCHANGED <<yank, found>> /\ Facts' = Facts
    BY <1>1, <1>2, <1>4 DEF Facts
  <2>2. \A k \in left \ rest' : k # i => k \in left \ rest
    BY <1>1
  <2>3. Len(found') = before' =>
          yank' = {} /\ \A k \in left' \ rest' : ~Triggers(Facts', Definitions[k])
    BY <1>1, <1>2, <1>4, <2>1, <2>2
  <2>4. Len(found') = before' =>
          yank' = {} /\ \A k \in left' \ rest' : ~Triggers(Facts, Definitions[k])'
    BY <2>3
  <2>. QED
    BY <1>1, <1>2, <2>1, <2>4
<1>. QED
  BY <1>3, <1>4
LEMMA RoundStep == RoundInv /\ [GNext]_gVars => RoundInv'
<1>. SUFFICES ASSUME RoundInv, [GNext]_gVars PROVE RoundInv'
  OBVIOUS
<1>1. CASE ProcessSourceFile
  BY <1>1 DEF ProcessSourceFile, RoundInv
<1>2. CASE StartCalc
  BY <1>2 DEF StartCalc, RoundInv
<1>3. CASE Ask
  BY <1>3, AskRound
<1>4. CASE EndOfRound
  <2>1. left' \subseteq left /\ rest' = left' /\ yank' = {} /\ found' = found
    BY <1>4 DEF EndOfRound
  <2>. QED
    BY <1>4, <2>1 DEF EndOfRound, RoundInv
<1>5. CASE UNCHANGED gVars
  <2>1. Facts' = Facts
    BY <1>5 DEF gVars, Facts
  <2>2. step' = "ask" /\ Len(found') = before' =>
          yank' = {} /\ \A i \in left' \ rest' : ~Triggers(Facts, Definitions[i])'
    BY <1>5, <2>1 DEF gVars, RoundInv
  <2>. QED
    BY <1>5, <2>2 DEF gVars, RoundInv
<1>. QED
  BY <1>1, <1>2, <1>3, <1>4, <1>5 DEF GNext

\* When the last round gave nothing, every definition left was asked in it.
LEMMA ClosedInit == GInit => Closed
  BY DEF GInit, Closed

LEMMA ClosedStep == RoundInv /\ Closed /\ [GNext]_gVars => Closed'
<1>. SUFFICES ASSUME RoundInv, Closed, [GNext]_gVars, step' = "done",
                     NEW i \in left'
              PROVE  ~Triggers(Facts, Definitions[i])'
  BY DEF Closed
<1>1. CASE EndOfRound
  <2>1. Len(found) = before /\ step = "ask" /\ rest = {} /\ left' = left \ yank
    BY <1>1 DEF EndOfRound, RoundInv
  <2>2. ~Triggers(Facts, Definitions[i])
    BY <2>1 DEF RoundInv
  <2>3. Facts' = Facts
    BY <1>1 DEF EndOfRound, Facts
  <2>. QED
    BY <2>2, <2>3
<1>2. CASE UNCHANGED gVars
  <2>1. Facts' = Facts /\ left' = left /\ step = "done"
    BY <1>2 DEF gVars, Facts
  <2>. QED
    BY <2>1 DEF Closed
<1>3. ~ProcessSourceFile /\ ~StartCalc /\ ~Ask
  BY DEF ProcessSourceFile, StartCalc, Ask
<1>. QED
  BY <1>1, <1>2, <1>3 DEF GNext

LEMMA RoundAlways == GSpec => []RoundInv
  BY RoundInit, RoundStep, PTL DEF GSpec

\* What calc_gestalts stops at is a fixed point, for any definitions whatever.
THEOREM ClosedAlways == GSpec => []Closed
  BY RoundAlways, ClosedInit, ClosedStep, PTL DEF GSpec

\* Counting.  A definition that gave its gestalt is in yank until the round
\* ends, and then no longer in left.
LEMMA FoundInit == GInit => FoundOnce
<1>. SUFFICES ASSUME GInit PROVE FoundOnce
  OBVIOUS
<1>1. left \ yank = 1 .. Len(Definitions) /\ found = <<>>
  BY DefinitionsAssumption DEF GInit
<1>2. Cardinality(1 .. Len(Definitions)) = Len(Definitions)
  <2>. DEFINE n == Len(Definitions)
  <2>1. n \in Nat
    BY DefinitionsAssumption
  <2>2. Cardinality(1 .. n) = IF 1 > n THEN 0 ELSE n - 1 + 1
    BY <2>1, FS_Interval
  <2>. QED
    BY <2>1, <2>2
<1>3. Len(found) = 0
  BY <1>1
<1>4. Cardinality(left \ yank) = Len(Definitions)
  BY <1>1, <1>2
<1>. QED
  BY <1>3, <1>4, DefinitionsAssumption DEF FoundOnce

LEMMA FoundStep == RoundInv /\ FoundOnce /\ [GNext]_gVars => FoundOnce'
<1>. SUFFICES ASSUME RoundInv, FoundOnce, [GNext]_gVars PROVE FoundOnce'
  OBVIOUS
<1>1. IsFiniteSet(left \ yank)
  <2>1. IsFiniteSet(Places)
    BY DefinitionsAssumption, FS_Interval DEF Places
  <2>. QED
    BY <2>1, FS_Subset DEF RoundInv
<1>2. Cardinality(left \ yank) \in Nat
  BY <1>1, FS_CardinalityType
<1>3. CASE Ask
  <2>1. PICK i \in rest :
          IF Triggers(Facts, Definitions[i])
          THEN yank' = yank \cup {i} /\ found' = Append(found, Definitions[i].gestalt)
          ELSE UNCHANGED <<yank, found>>
    BY <1>3 DEF Ask
  <2>2. left' = left
    BY <1>3 DEF Ask
  <2>3. CASE Triggers(Facts, Definitions[i])
    <3>1. Len(found') = Len(found) + 1
      BY <2>1, <2>3 DEF RoundInv
    <3>2. left' \ yank' = (left \ yank) \ {i} /\ i \in left \ yank
      BY <2>1, <2>2, <2>3 DEF RoundInv
    <3>3. Cardinality(left' \ yank') = Cardinality(left \ yank) - 1
      BY <1>1, <3>2, FS_RemoveElement
    <3>. QED
      BY <1>2, <3>1, <3>3 DEF FoundOnce, RoundInv
  <2>4. CASE ~Triggers(Facts, Definitions[i])
    BY <2>1, <2>2, <2>4 DEF FoundOnce
  <2>. QED
    BY <2>3, <2>4
<1>4. CASE EndOfRound
  <2>1. left' \ yank' = left \ yank /\ found' = found
    BY <1>4 DEF EndOfRound
  <2>. QED
    BY <2>1 DEF FoundOnce
<1>5. ProcessSourceFile \/ StartCalc \/ UNCHANGED gVars
        => UNCHANGED <<left, yank, found>>
  BY DEF ProcessSourceFile, StartCalc, gVars
<1>. QED
  BY <1>3, <1>4, <1>5 DEF GNext, FoundOnce

\* However many rounds there are, no definition gives its gestalt twice.
THEOREM FoundOnceAlways == GSpec => []FoundOnce
  BY RoundAlways, FoundInit, FoundStep, PTL DEF GSpec

-----------------------------------------------------------------------------
(* What is found still holds, if the definitions are in order.             *)

\* Two states of the engine say the same of a gestalt.
Agree(a, b, g) == HasGestalt(a, g) <=> HasGestalt(b, g)
SameCounts(a, b) == a.hits = b.hits /\ a.lines = b.lines
Grows(a, b) == SameCounts(a, b) /\ \A g : HasGestalt(a, g) => HasGestalt(b, g)

\* A rule depends on the counts and on the gestalts it asks for.
LEMMA SimpleSame ==
  ASSUME NEW a, NEW b, SameCounts(a, b), NEW r, \A g : SimpleAsks(r, g) => Agree(a, b, g)
  PROVE  Simple(a, r) <=> Simple(b, r)
<1>1. CASE r.op = "file"
  BY <1>1 DEF Simple, SameCounts
<1>2. CASE r.op = "language"
  BY <1>2 DEF Simple, SameCounts, Includes
<1>3. CASE r.op = "gestalt"
  BY <1>3 DEF Simple, SimpleAsks, Agree
<1>. QED
  BY <1>1, <1>2, <1>3 DEF Simple

LEMMA NestedSame ==
  ASSUME NEW a, NEW b, SameCounts(a, b), NEW r, \A g : NestedAsks(r, g) => Agree(a, b, g)
  PROVE  Nested(a, r) <=> Nested(b, r)
<1>1. \A q : (\A g : SimpleAsks(q, g) => Agree(a, b, g)) => (Simple(a, q) <=> Simple(b, q))
  BY SimpleSame
<1>2. CASE r.op \in {"or", "and"}
  <2>1. \A i \in DOMAIN r.rules : Simple(a, r.rules[i]) <=> Simple(b, r.rules[i])
    BY <1>1, <1>2 DEF NestedAsks, LogicalAsks
  <2>. QED
    BY <1>2, <2>1 DEF Nested, Logical
<1>3. CASE r.op = "not"
  <2>1. Simple(a, r.rules[1]) <=> Simple(b, r.rules[1])
    BY <1>1, <1>3 DEF NestedAsks, LogicalAsks
  <2>. QED
    BY <1>3, <2>1 DEF Nested, Logical
<1>4. CASE r.op \notin {"or", "and", "not"}
  <2>1. Simple(a, r) <=> Simple(b, r)
    BY <1>1, <1>4 DEF NestedAsks, LogicalAsks
  <2>. QED
    BY <1>4, <2>1 DEF Nested, Logical
<1>. QED
  BY <1>2, <1>3, <1>4

LEMMA TwiceNestedSame ==
  ASSUME NEW a, NEW b, SameCounts(a, b), NEW r,
         \A g : TwiceNestedAsks(r, g) => Agree(a, b, g)
  PROVE  TwiceNested(a, r) <=> TwiceNested(b, r)
<1>1. \A q : (\A g : NestedAsks(q, g) => Agree(a, b, g)) => (Nested(a, q) <=> Nested(b, q))
  BY NestedSame
<1>2. CASE r.op \in {"or", "and"}
  <2>1. \A i \in DOMAIN r.rules : Nested(a, r.rules[i]) <=> Nested(b, r.rules[i])
    BY <1>1, <1>2 DEF TwiceNestedAsks, LogicalAsks
  <2>. QED
    BY <1>2, <2>1 DEF TwiceNested, Logical
<1>3. CASE r.op = "not"
  <2>1. Nested(a, r.rules[1]) <=> Nested(b, r.rules[1])
    BY <1>1, <1>3 DEF TwiceNestedAsks, LogicalAsks
  <2>. QED
    BY <1>3, <2>1 DEF TwiceNested, Logical
<1>4. CASE r.op \notin {"or", "and", "not"}
  <2>1. Simple(a, r) <=> Simple(b, r)
    BY <1>4, SimpleSame DEF TwiceNestedAsks, LogicalAsks
  <2>. QED
    BY <1>4, <2>1 DEF TwiceNested, Logical
<1>. QED
  BY <1>2, <1>3, <1>4

LEMMA TriggersSame ==
  ASSUME NEW a, NEW b, SameCounts(a, b), NEW d, \A g : Asks(d, g) => Agree(a, b, g)
  PROVE  Triggers(a, d) <=> Triggers(b, d)
<1>. DEFINE r == d.rule
<1>1. \A q : (\A g : TwiceNestedAsks(q, g) => Agree(a, b, g))
               => (TwiceNested(a, q) <=> TwiceNested(b, q))
  BY TwiceNestedSame
<1>2. CASE r.op \in {"or", "and"}
  <2>1. \A i \in DOMAIN r.rules : TwiceNested(a, r.rules[i]) <=> TwiceNested(b, r.rules[i])
    BY <1>1, <1>2 DEF Asks, LogicalAsks
  <2>. QED
    BY <1>2, <2>1 DEF Triggers, Logical
<1>3. CASE r.op = "not"
  <2>1. TwiceNested(a, r.rules[1]) <=> TwiceNested(b, r.rules[1])
    BY <1>1, <1>3 DEF Asks, LogicalAsks
  <2>. QED
    BY <1>3, <2>1 DEF Triggers, Logical
<1>4. CASE r.op \notin {"or", "and", "not"}
  <2>1. Simple(a, r) <=> Simple(b, r)
    BY <1>4, SimpleSame DEF Asks, LogicalAsks
  <2>. QED
    BY <1>4, <2>1 DEF Triggers, Logical
<1>. QED
  BY <1>2, <1>3, <1>4

\* When more is found, a rule that held still does, if it denies nothing of it.
LEMMA SimpleGrows ==
  ASSUME NEW a, NEW b, Grows(a, b), NEW r, Simple(a, r)
  PROVE  Simple(b, r)
<1>1. CASE r.op = "file"
  BY <1>1 DEF Simple, Grows, SameCounts
<1>2. CASE r.op = "language"
  BY <1>2 DEF Simple, Grows, SameCounts, Includes
<1>3. CASE r.op = "gestalt"
  BY <1>3 DEF Simple, Grows
<1>. QED
  BY <1>1, <1>2, <1>3 DEF Simple

LEMMA NestedGrows ==
  ASSUME NEW a, NEW b, Grows(a, b), NEW r, \A g : NestedDenies(r, g) => Agree(a, b, g),
         Nested(a, r)
  PROVE  Nested(b, r)
<1>1. \A q : Simple(a, q) => Simple(b, q)
  BY SimpleGrows
<1>2. CASE r.op \in {"or", "and"}
  BY <1>1, <1>2 DEF Nested, Logical
<1>3. CASE r.op = "not"
  <2>1. \A g : SimpleAsks(r.rules[1], g) => Agree(a, b, g)
    BY <1>3 DEF NestedDenies, LogicalDenies
  <2>2. Simple(a, r.rules[1]) <=> Simple(b, r.rules[1])
    BY <2>1, SimpleSame DEF Grows
  <2>. QED
    BY <1>3, <2>2 DEF Nested, Logical
<1>4. CASE r.op \notin {"or", "and", "not"}
  BY <1>1, <1>4 DEF Nested, Logical
<1>. QED
  BY <1>2, <1>3, <1>4

LEMMA TwiceNestedGrows ==
  ASSUME NEW a, NEW b, Grows(a, b), NEW r,
         \A g : TwiceNestedDenies(r, g) => Agree(a, b, g), TwiceNested(a, r)
  PROVE  TwiceNested(b, r)
<1>1. \A q : (\A g : NestedDenies(q, g) => Agree(a, b, g)) => (Nested(a, q) => Nested(b, q))
  BY NestedGrows
<1>2. CASE r.op \in {"or", "and"}
  <2>1. \A i \in DOMAIN r.rules : Nested(a, r.rules[i]) => Nested(b, r.rules[i])
    BY <1>1, <1>2 DEF TwiceNestedDenies, LogicalDenies
  <2>. QED
    BY <1>2, <2>1 DEF TwiceNested, Logical
<1>3. CASE r.op = "not"
  <2>1. \A g : NestedAsks(r.rules[1], g) => Agree(a, b, g)
    BY <1>3 DEF TwiceNestedDenies, LogicalDenies
  <2>2. Nested(a, r.rules[1]) <=> Nested(b, r.rules[1])
    BY <2>1, NestedSame DEF Grows
  <2>. QED
    BY <1>3, <2>2 DEF TwiceNested, Logical
<1>4. CASE r.op \notin {"or", "and", "not"}
  BY <1>4, SimpleGrows DEF TwiceNested, Logical
<1>. QED
  BY <1>2, <1>3, <1>4

LEMMA TriggersGrows ==
  ASSUME NEW a, NEW b, Grows(a, b), NEW d, \A g : Denies(d, g) => Agree(a, b, g),
         Triggers(a, d)
  PROVE  Triggers(b, d)
<1>. DEFINE r == d.rule
<1>1. \A q : (\A g : TwiceNestedDenies(q, g) => Agree(a, b, g))
               => (TwiceNested(a, q) => TwiceNested(b, q))
  BY TwiceNestedGrows
<1>2. CASE r.op \in {"or", "and"}
  <2>1. \A i \in DOMAIN r.rules : TwiceNested(a, r.rules[i]) => TwiceNested(b, r.rules[i])
    BY <1>1, <1>2 DEF Denies, LogicalDenies
  <2>. QED
    BY <1>2, <2>1 DEF Triggers, Logical
<1>3. CASE r.op = "not"
  <2>1. \A g : TwiceNestedAsks(r.rules[1], g) => Agree(a, b, g)
    BY <1>3 DEF Denies, LogicalDenies
  <2>2. TwiceNested(a, r.rules[1]) <=> TwiceNested(b, r.rules[1])
    BY <2>1, TwiceNestedSame DEF Grows
  <2>. QED
    BY <1>3, <2>2 DEF Triggers, Logical
<1>4. CASE r.op \notin {"or", "and", "not"}
  BY <1>4, SimpleGrows DEF Triggers, Logical
<1>. QED
  BY <1>2, <1>3, <1>4

\* Once a definition of S has been asked it gives nothing any more.  All have
\* been asked after the first round, in which what was asked is what comes
\* first.
Gives(i) == Triggers(Facts, Definitions[i])
FirstRound(S) ==
    /\ left = Places /\ \A i \in Places \ rest, k \in rest : i < k
    /\ \A i \in S \ rest : i \notin yank => ~Gives(i)
LaterRounds(S) == \A i \in S : i \in left \ yank => ~Gives(i)
DecidedInv(S) == FirstRound(S) \/ LaterRounds(S)

\* What gave its gestalt, in this round or before it, would still give it.
HoldsInv == \A i \in Places : i \notin left \ yank => Gives(i)

OrderInv(S) == RoundInv /\ DecidedInv(S) /\ HoldsInv

LEMMA OrderInit ==
  ASSUME NEW S, Ordered(S), GInit
  PROVE  OrderInv(S)
<1>1. FirstRound(S)
  BY DEF GInit, FirstRound, Ordered, Places
<1>2. HoldsInv
  BY DEF GInit, HoldsInv, Places
<1>. QED
  BY <1>1, <1>2, RoundInit DEF OrderInv, DecidedInv

\* A definition that gives its gestalt now decides nothing for those of S that
\* were asked, nor is it denied by one that was.
LEMMA NothingDecided ==
  ASSUME NEW S, Ordered(S), OrderInv(S), NEW k \in rest, \A j \in rest : k <= j, Gives(k),
         NEW i \in Places,
         \/ i \notin left \ yank
         \/ i \in S /\ (i \notin rest \/ ~FirstRound(S)),
         Denies(Definitions[i], Definitions[k].gestalt)
           \/ (i \in S /\ Asks(Definitions[i], Definitions[k].gestalt))
  PROVE  FALSE
<1>1. k \in Places /\ k \in left \ yank /\ i \in Nat /\ k \in Nat
  BY DefinitionsAssumption DEF OrderInv, RoundInv, Places
<1>2. k \in S /\ k < i
  BY <1>1 DEF Ordered, Places
<1>3. CASE FirstRound(S)
  <2>1. i \notin rest
    BY <1>1, <1>3 DEF OrderInv, RoundInv
  <2>2. i < k
    BY <1>3, <2>1 DEF FirstRound
  <2>. QED
    BY <1>1, <1>2, <2>2
<1>4. CASE LaterRounds(S)
  BY <1>1, <1>2, <1>4 DEF LaterRounds
<1>. QED
  BY <1>3, <1>4 DEF OrderInv, DecidedInv

LEMMA OrderAsk ==
  ASSUME NEW S, Ordered(S), OrderInv(S), Ask
  PROVE  OrderInv(S)'
<1>0. RoundInv /\ RoundInv' /\ S \subseteq Places
  BY AskRound DEF OrderInv, Ordered, Places
<1>1. PICK k \in rest :
        /\ \A j \in rest : k <= j
        /\ IF Gives(k)
           THEN yank' = yank \cup {k} /\ found' = Append(found, Definitions[k].gestalt)
           ELSE UNCHANGED <<yank, found>>
        /\ rest' = rest \ {k}
  BY DEF Ask, Gives
<1>2. UNCHANGED <<hits, lines, left>>
  BY DEF Ask
<1>3. k \in Places /\ k \in left \ yank /\ k \in Nat /\ \A i \in Places : i \in Nat
  BY <1>0, <1>1, DefinitionsAssumption DEF RoundInv, Places
<1>4. PICK g : g = Definitions[k].gestalt
  OBVIOUS
<1>5. PICK a, b : a = Facts /\ b = Facts'
  OBVIOUS
<1>6. \A h : HasGestalt(b, h) <=> HasGestalt(a, h) \/ (Gives(k) /\ h = g)
  <2>1. CASE Gives(k)
    <3>1. g \in Names
      BY <1>3, <1>4 DEF Names
    <3>2. found \in Seq(Names) /\ found' = Append(found, g)
      BY <1>0, <1>1, <1>4, <2>1 DEF RoundInv
    <3>3. /\ DOMAIN found = 1 .. Len(found) /\ DOMAIN found' = 1 .. Len(found) + 1
          /\ Len(found) \in Nat /\ found'[Len(found) + 1] = g
          /\ \A i \in 1 .. Len(found) : found'[i] = found[i]
      BY <3>1, <3>2
    <3>4. a.found = found /\ b.found = found'
      BY <1>5 DEF Facts
    <3>. QED
      BY <2>1, <3>3, <3>4 DEF HasGestalt
  <2>2. CASE ~Gives(k)
    <3>1. a.found = b.found
      BY <1>1, <1>5, <2>2 DEF Facts
    <3>. QED
      BY <2>2, <3>1 DEF HasGestalt
  <2>. QED
    BY <2>1, <2>2
<1>7. Grows(a, b)
  BY <1>2, <1>5, <1>6 DEF Grows, SameCounts, Facts
\* Those of S that were asked: nothing they ask for is new.
<1>8. ASSUME NEW i \in S, i \notin rest \/ ~FirstRound(S)
      PROVE  Gives(i)' <=> Gives(i)
  <2>1. ASSUME NEW h, Asks(Definitions[i], h) PROVE Agree(a, b, h)
    <3>1. ~(Gives(k) /\ h = g)
      BY <1>0, <1>1, <1>4, <1>8, <2>1, NothingDecided
    <3>. QED
      BY <1>6, <3>1 DEF Agree
  <2>2. Triggers(a, Definitions[i]) <=> Triggers(b, Definitions[i])
    BY <1>7, <2>1, TriggersSame DEF Grows
  <2>. QED
    BY <1>5, <2>2 DEF Gives
<1>9. ASSUME NEW i \in Places, i \notin left \ yank
      PROVE  Gives(i)'
  <2>1. ASSUME NEW h, Denies(Definitions[i], h) PROVE Agree(a, b, h)
    <3>1. ~(Gives(k) /\ h = g)
      BY <1>1, <1>4, <1>9, <2>1, NothingDecided
    <3>. QED
      BY <1>6, <3>1 DEF Agree
  <2>2. Triggers(a, Definitions[i])
    BY <1>5, <1>9 DEF OrderInv, HoldsInv, Gives
  <2>3. Triggers(b, Definitions[i])
    BY <1>7, <2>1, <2>2, TriggersGrows
  <2>. QED
    BY <1>5, <2>3 DEF Gives
\* The definition asked: if it did not give its gestalt nothing has changed; if
\* it did, it does not deny it.
<1>10. Gives(k) => Gives(k)'
  <2>. SUFFICES ASSUME Gives(k) PROVE Gives(k)'
    OBVIOUS
  <2>1. ASSUME NEW h, Denies(Definitions[k], h) PROVE Agree(a, b, h)
    <3>1. h # g
      BY <1>3, <1>4, <2>1 DEF Ordered, Places
    <3>. QED
      BY <1>6, <3>1 DEF Agree
  <2>2. Triggers(b, Definitions[k])
    BY <1>5, <1>7, <2>1, TriggersGrows DEF Gives
  <2>. QED
    BY <1>5, <2>2 DEF Gives
<1>11. ~Gives(k) => ~Gives(k)'
  <2>1. ~Gives(k) => a = b
    BY <1>1, <1>2, <1>5 DEF Facts
  <2>. QED
    BY <1>5, <2>1 DEF Gives
<1>12. HoldsInv'
  <2>1. ASSUME NEW i \in Places, i \notin left' \ yank' PROVE Gives(i)'
    <3>1. i \notin left \ yank \/ (i = k /\ Gives(k))
      BY <1>1, <1>2, <2>1
    <3>. QED
      BY <1>9, <1>10, <3>1
  <2>. QED
    BY <2>1 DEF HoldsInv, Places
<1>13. CASE FirstRound(S)
  <2>1. left' = Places /\ \A i \in Places \ rest', j \in rest' : i < j
    <3>1. \A i \in Places \ rest', j \in rest' : (i = k \/ i \in Places \ rest) /\ j \in rest /\ j # k
      BY <1>1
    <3>2. \A j \in rest : j \in Nat
      BY <1>0, <1>3 DEF RoundInv
    <3>3. \A j \in rest : j # k => k < j
      BY <1>1, <1>3, <3>2
    <3>. QED
      BY <1>2, <1>13, <3>1, <3>3 DEF FirstRound
  <2>2. ASSUME NEW i \in S \ rest', i \notin yank' PROVE ~Gives(i)'
    <3>1. CASE i = k
      BY <1>1, <1>11, <2>2, <3>1
    <3>2. CASE i # k
      <4>1. i \in S \ rest /\ i \notin yank
        BY <1>1, <2>2, <3>2
      <4>2. ~Gives(i)
        BY <1>13, <4>1 DEF FirstRound
      <4>. QED
        BY <1>8, <4>1, <4>2
    <3>. QED
      BY <3>1, <3>2
  <2>3. FirstRound(S)'
    BY <2>1, <2>2 DEF FirstRound, Places
  <2>. QED
    BY <1>0, <1>12, <2>3 DEF OrderInv, DecidedInv
<1>14. CASE ~FirstRound(S)
  <2>1. LaterRounds(S)
    BY <1>14 DEF OrderInv, DecidedInv
  <2>2. ASSUME NEW i \in S, i \in left' \ yank' PROVE ~Gives(i)'
    <3>1. i \in left \ yank
      BY <1>1, <1>2, <2>2
    <3>2. ~Gives(i)
      BY <2>1, <3>1 DEF LaterRounds
    <3>. QED
      BY <1>8, <1>14, <3>2
  <2>3. LaterRounds(S)'
    BY <2>2 DEF LaterRounds
  <2>. QED
    BY <1>0, <1>12, <2>3 DEF OrderInv, DecidedInv
<1>. QED
  BY <1>13, <1>14

LEMMA OrderStep ==
  ASSUME NEW S, Ordered(S), OrderInv(S), [GNext]_gVars
  PROVE  OrderInv(S)'
<1>0. RoundInv' /\ S \subseteq Places
  BY RoundStep DEF OrderInv, Ordered, Places
<1>1. CASE ProcessSourceFile \/ StartCalc
  <2>1. UNCHANGED <<left, rest, yank>> /\ step = "process"
    BY <1>1 DEF ProcessSourceFile, StartCalc
  <2>2. left = Places /\ rest = left /\ yank = {}
    BY <2>1 DEF OrderInv, RoundInv
  <2>3. FirstRound(S)'
    BY <1>0, <2>1, <2>2 DEF FirstRound, Places
  <2>4. HoldsInv'
    BY <2>1, <2>2 DEF HoldsInv, Places
  <2>. QED
    BY <1>0, <2>3, <2>4 DEF OrderInv, DecidedInv
<1>2. CASE Ask
  BY <1>2, OrderAsk
<1>3. CASE EndOfRound
  <2>1. left' = left \ yank /\ rest = {} /\ yank' = {} /\ Facts' = Facts
    BY <1>3 DEF EndOfRound, Facts
  <2>2. \A i : Gives(i)' <=> Gives(i)
    BY <2>1 DEF Gives
  <2>3. \A i \in S : i \in left \ yank => ~Gives(i)
    BY <2>1 DEF OrderInv, DecidedInv, FirstRound, LaterRounds
  <2>4. LaterRounds(S)'
    BY <2>1, <2>2, <2>3 DEF LaterRounds
  <2>5. HoldsInv'
    BY <2>1, <2>2 DEF OrderInv, HoldsInv, Places
  <2>. QED
    BY <1>0, <2>4, <2>5 DEF OrderInv, DecidedInv
<1>4. CASE UNCHANGED gVars
  <2>1. UNCHANGED <<left, rest, yank>> /\ Facts' = Facts
    BY <1>4 DEF gVars, Facts
  <2>2. \A i : Gives(i)' <=> Gives(i)
    BY <2>1 DEF Gives
  <2>3. DecidedInv(S)'
    BY <2>1, <2>2 DEF OrderInv, DecidedInv, FirstRound, LaterRounds, Places
  <2>4. HoldsInv'
    BY <2>1, <2>2 DEF OrderInv, HoldsInv, Places
  <2>. QED
    BY <1>0, <2>3, <2>4 DEF OrderInv
<1>. QED
  BY <1>1, <1>2, <1>3, <1>4 DEF GNext

\* What was found still holds at the end, whatever the files are, if what a
\* definition denies is decided before it is asked, as java_definitions.rb:81
\* demands with "do not reorder": ejb3.0 denies ejb3.1.
THEOREM SupportedIfOrdered ==
  ASSUME NEW S, Ordered(S)
  PROVE  GSpec => []Supported
<1>1. GInit => OrderInv(S)
  BY OrderInit
<1>2. OrderInv(S) /\ [GNext]_gVars => OrderInv(S)'
  BY OrderStep
<1>3. OrderInv(S) => Supported
  BY DEF OrderInv, RoundInv, HoldsInv, Gives, Supported, Places
<1>. QED
  BY <1>1, <1>2, <1>3, PTL DEF GSpec

\* Sums of counts are counts.
LEMMA MergedCounted ==
  ASSUME NEW m, NEW n, Counted(m), Counted(n)
  PROVE  Counted(Merged(m, n))
  BY DEF Counted, Merged, At

LEMMA GatherInit == GInit => GatherInv
<1>1. <<>> \in [{} -> Nat] /\ DOMAIN <<>> = {}
  OBVIOUS
<1>. QED
  BY <1>1, FilesAssumption DEF GInit, GatherInv, Counted

LEMMA GatherStep == GatherInv /\ [GNext]_gVars => GatherInv'
<1>. SUFFICES ASSUME GatherInv, [GNext]_gVars PROVE GatherInv'
  OBVIOUS
<1>1. CASE ProcessSourceFile
  <2>1. Head(files) \in Sources /\ files' \in Seq(Sources)
    BY <1>1 DEF ProcessSourceFile, GatherInv
  <2>2. Counted(Head(files).hits) /\ Counted(Head(files).lines)
    BY <2>1, FilesAssumption
  <2>3. Counted(hits') /\ Counted(lines')
    BY <1>1, <2>2, MergedCounted DEF ProcessSourceFile, GatherInv
  <2>. QED
    BY <2>1, <2>3 DEF GatherInv
<1>2. StartCalc \/ Ask \/ EndOfRound \/ UNCHANGED gVars
        => UNCHANGED <<files, hits, lines>>
  BY DEF StartCalc, Ask, EndOfRound, gVars
<1>. QED
  BY <1>1, <1>2 DEF GNext, GatherInv, Counted

\* Every reachable state of the engine is well typed.
THEOREM GTypeCorrect == GSpec => []GTypeOK
<1>1. GatherInv /\ RoundInv => GTypeOK
  BY DEF GatherInv, RoundInv, GTypeOK, Places, Names
<1>2. GSpec => []GatherInv
  BY GatherInit, GatherStep, PTL DEF GSpec
<1>. QED
  BY <1>1, <1>2, RoundAlways, PTL
=============================================================================
