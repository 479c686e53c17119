------------------------------- MODULE Gestalts -------------------------------
(***************************************************************************)
(* The gestalt engine (ruby/gestalt): what platforms and tools a list of   *)
(* files is made for.  The engine first counts, file after file, what the  *)
(* file rules match and the lines of code of each language; calc_gestalts  *)
(* then asks the definitions one after another, in rounds, because the     *)
(* rule of one may ask for the gestalt of another.                         *)
(*                                                                         *)
(* What a file rule matches (names, headers, imports, keywords) is named   *)
(* and left to the instance, which says how often a file matches it.  A    *)
(* trigger's name and count are left out: no definition but those with     *)
(* find_filenames, all inside _and, would give other than its own name.    *)
(***************************************************************************)
EXTENDS Integers, Sequences, FiniteSets, FiniteSetsExt

CONSTANTS
    Definitions, \* the definitions, in the order of all_definitions
    Sources,     \* files: what rules match in them, and their lines of code
    FileLists,   \* the lists of files analyze_gestalt may be given
    Unweighed    \* the languages of category markup, and those of no name

ASSUME DefinitionsAssumption ==
    Len(Definitions) \in Nat /\ DOMAIN Definitions = 1 .. Len(Definitions)
Counted(m) == DOMAIN m \subseteq STRING /\ \A x \in DOMAIN m : m[x] \in Nat
ASSUME FilesAssumption ==
    /\ \A f \in Sources : Counted(f.hits) /\ Counted(f.lines)
    /\ \A list \in FileLists : list \in Seq(Sources)

VARIABLES
    files,    \* the files the engine is still to process
    hits,     \* how often each file rule matched
    lines,    \* the lines of code of each language seen
    left,     \* @definitions, by their places in Definitions
    rest,     \* those still to be asked in this round
    yank,     \* those that gave a gestalt in this round
    found,    \* @gestalts
    before,   \* gestalt_count
    step      \* what is done next

gVars == <<files, hits, lines, left, rest, yank, found, before, step>>

At(counts, x) == IF x \in DOMAIN counts THEN counts[x] ELSE 0
Merged(m, n) == [x \in DOMAIN m \cup DOMAIN n |-> At(m, x) + At(n, x)]

\* What rules ask: the matches and lines counted, and what was found so far.
Facts == [hits |-> hits, lines |-> lines, found |-> found]

\* LanguageFacts#includes_language?.  Dividing by a total of zero gives
\* infinity, or what no number is at most.
Weight(l) == MapThenSumSet(LAMBDA k : l[k], DOMAIN l \ Unweighed)
Includes(known, l, percent) ==
    LET weight == Weight(known.lines)
    IN  /\ l \in DOMAIN known.lines
        /\ IF weight = 0 THEN known.lines[l] > 0
           ELSE 100 * known.lines[l] >= percent * weight

HasGestalt(known, gestalt) ==
    \E i \in DOMAIN known.found : known.found[i] = gestalt

\* FileRule#triggered?, LanguageRule#triggers, GestaltRule#triggers
Simple(known, rule) ==
    CASE rule.op = "file" -> At(known.hits, rule.id) >= rule.min
      [] rule.op = "language" -> Includes(known, rule.language, rule.percent)
      [] rule.op = "gestalt" -> HasGestalt(known, rule.gestalt)
      [] OTHER -> FALSE

\* OrRule, AndRule and NotRule over rules of a smaller depth.
Logical(Sub(_, _), known, rule) ==
    CASE rule.op = "or" -> \E i \in DOMAIN rule.rules : Sub(known, rule.rules[i])
      [] rule.op = "and" -> \A i \in DOMAIN rule.rules : Sub(known, rule.rules[i])
      [] rule.op = "not" -> ~Sub(known, rule.rules[1])
      [] OTHER -> Simple(known, rule)
Nested(known, rule) == Logical(Simple, known, rule)
TwiceNested(known, rule) == Logical(Nested, known, rule)

\* Definition#gestalts is not empty: no rule is nested deeper.
Triggers(known, definition) == Logical(TwiceNested, known, definition.rule)

GInit ==
    /\ files \in FileLists
    /\ hits = <<>> /\ lines = <<>>
    /\ left = DOMAIN Definitions /\ rest = left /\ yank = {}
    /\ found = <<>> /\ before = 0
    /\ step = "process"

\* GestaltEngine#process_source_file
ProcessSourceFile ==
    /\ step = "process" /\ files # <<>>
    /\ hits' = Merged(hits, Head(files).hits)
    /\ lines' = Merged(lines, Head(files).lines)
    /\ files' = Tail(files)
    /\ UNCHANGED <<left, rest, yank, found, before, step>>

StartCalc ==
    /\ step = "process" /\ files = <<>>
    /\ step' = "ask"
    /\ UNCHANGED <<files, hits, lines, left, rest, yank, found, before>>

\* The next definition of a round is asked.
Ask ==
    /\ step = "ask"
    /\ \E i \in rest :
         /\ \A k \in rest : i <= k
         /\ IF Triggers(Facts, Definitions[i])
            THEN yank' = yank \cup {i} /\ found' = Append(found, Definitions[i].gestalt)
            ELSE UNCHANGED <<yank, found>>
         /\ rest' = rest \ {i}
    /\ UNCHANGED <<files, hits, lines, left, before, step>>

\* EndOfRound, were gestalt_count set before it is compared.
EndOfFirstRound ==
    /\ step = "ask" /\ rest = {}
    /\ step' = "done" /\ before' = Len(found)
    /\ left' = left \ yank /\ rest' = left' /\ yank' = {}
    /\ UNCHANGED <<files, hits, lines, found>>

\* EndOfRound, were gestalt_count never set.
EndOfRoundForgets ==
    /\ step = "ask" /\ rest = {}
    /\ step' = IF before = Len(found) THEN "done" ELSE "ask"
    /\ left' = left \ yank /\ rest' = left' /\ yank' = {}
    /\ UNCHANGED <<files, hits, lines, found, before>>

\* The end of a round: it was the last if it gave nothing new.
EndOfRound ==
    /\ step = "ask" /\ rest = {}
    /\ step' = IF before = Len(found) THEN "done" ELSE "ask"
    /\ before' = Len(found)
    /\ left' = left \ yank /\ rest' = left' /\ yank' = {}
    /\ UNCHANGED <<files, hits, lines, found>>

GNext == ProcessSourceFile \/ StartCalc \/ Ask \/ EndOfRound

\* One process runs to its end.
GSpec == GInit /\ [][GNext]_gVars /\ WF_gVars(GNext)
-----------------------------------------------------------------------------
\* Types, and what is bound to what: each definition not left gave one gestalt.
GTypeOK ==
    /\ files \in Seq(Sources) /\ Counted(hits) /\ Counted(lines)
    /\ left \subseteq DOMAIN Definitions
    /\ rest \subseteq left /\ yank \subseteq left \ rest
    /\ found \in Seq({Definitions[i].gestalt : i \in DOMAIN Definitions})
    /\ before \in 0 .. Len(found)
    /\ step \in {"process", "ask", "done"}

\* A definition gives its gestalt at most once, however many rounds there are,
\* and what gave one is not asked again.
FoundOnce ==
    Len(found) + Cardinality(left \ yank) = Len(Definitions)

\* "break when no new gestalts have been detected" (gestalt_engine.rb:48): at
\* the end no definition is left that would still give one, though in the last
\* round but one any of those before it may have changed what it asks for.
Closed ==
    step = "done" => \A i \in left : ~Triggers(Facts, Definitions[i])

\* Every gestalt found still holds when all are known.  A rule with _not may be
\* asked before what it denies is found; "senstive to their order -- do not
\* reorder!" (java_definitions.rb:81).
Supported ==
    step = "done" => \A i \in DOMAIN Definitions \ left : Triggers(Facts, Definitions[i])

\* A rule asks for a gestalt, and it asks for it under a _not.
SimpleAsks(rule, g) == rule.op = "gestalt" /\ rule.gestalt = g
LogicalAsks(Sub(_, _), rule, g) ==
    CASE rule.op \in {"or", "and"} -> \E i \in DOMAIN rule.rules : Sub(rule.rules[i], g)
      [] rule.op = "not" -> Sub(rule.rules[1], g)
      [] OTHER -> SimpleAsks(rule, g)
NestedAsks(rule, g) == LogicalAsks(SimpleAsks, rule, g)
TwiceNestedAsks(rule, g) == LogicalAsks(NestedAsks, rule, g)
Asks(definition, g) == LogicalAsks(TwiceNestedAsks, definition.rule, g)

SimpleDenies(rule, g) == FALSE
LogicalDenies(Sub(_, _), SubAsks(_, _), rule, g) ==
    CASE rule.op \in {"or", "and"} -> \E i \in DOMAIN rule.rules : Sub(rule.rules[i], g)
      [] rule.op = "not" -> SubAsks(rule.rules[1], g)
      [] OTHER -> FALSE
NestedDenies(rule, g) == LogicalDenies(SimpleDenies, SimpleAsks, rule, g)
TwiceNestedDenies(rule, g) == LogicalDenies(NestedDenies, NestedAsks, rule, g)
Denies(definition, g) ==
    LogicalDenies(TwiceNestedDenies, TwiceNestedAsks, definition.rule, g)

\* The order "do not reorder" is about: what a definition denies is decided by
\* definitions asked before it, S, and what these ask for by others of them.
Ordered(S) ==
    /\ S \subseteq DOMAIN Definitions
    /\ \A i, j \in DOMAIN Definitions :
         LET g == Definitions[j].gestalt
         IN  Denies(Definitions[i], g) \/ (i \in S /\ Asks(Definitions[i], g))
               => j \in S /\ j < i

\* calc_gestalts comes to an end: some round gives nothing new.
GTerminates == <>(step = "done")
=============================================================================
