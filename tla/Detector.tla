------------------------------ MODULE Detector ------------------------------
(***************************************************************************)
(* ohcount_detect_language (src/detector.c): the language of a file by its *)
(* extension, then by an Emacs mode line, then by its name, then by what   *)
(* libmagic says of it.  The first that answers decides; where its answer  *)
(* stands for several languages, Disambiguators looks into the contents:   *)
(* at once, or line by line, with what it finds kept from line to line.    *)
(* The extension "in" makes a second SourceFile of the same contents under *)
(* the name without it, and asks that one for its language.                *)
(*                                                                         *)
(* A name is the sequence of its parts between the dots.  Mode lines are   *)
(* symbols of the text.                                                    *)
(***************************************************************************)
EXTENDS Disambiguators

CONSTANTS
    Files,      \* groups of files: [names, texts, besides |-> ...]
    Magic,      \* what libmagic may say, as sequences of words
    Languages,
    ByExtension, ByName, ByFilename,  \* the tables of src/hash
    ModeOf,     \* the mode a symbol is the mode line of
    Lower       \* the extensions and modes in small letters

Ambiguous == {"aspx", "asx", "b", "basic", "cs", "dat", "def", "fortran", "fs",
              "h", "in", "inc", "m", "mod", "pl", "pp", "pro", "r", "rs", "st"}

\* Those whose disambiguator reads lines.
ReadByLines == {"basic", "fortran", "fs", "h", "m", "st"}

Get(table, key) == IF key \in DOMAIN table THEN table[key] ELSE NULL

\* "in" is in the table in small letters only, and a mode line does not say it: the
\* name would lose its last three letters, whatever they are.  Nor does libmagic
\* begin with "script" and then name no language: the word before it would be
\* looked for.
ASSUME DetectorAssumption ==
    /\ \A group \in Files : /\ group.names \subseteq Seq(STRING) \ {<<>>}
                            /\ group.texts \subseteq Seq(STRING \ {"end"})
    /\ Languages \cap Ambiguous = {}
    /\ NULL \notin Languages \cup Ambiguous /\ BINARY \notin Languages \cup Ambiguous
    /\ Lower["in"] = "in" /\ Lower[""] = "" /\ "in" \in DOMAIN ByExtension
    /\ \A e \in DOMAIN ByExtension :
         /\ ByExtension[e] \in Languages \cup Ambiguous \cup {BINARY}
         /\ ByExtension[e] = "in" <=> e = "in"
         /\ Lower[e] = "in" => e = "in"
    /\ "c" \in DOMAIN ByName
    /\ \A n \in DOMAIN ByName : ByName[n] \in Languages
    /\ \A n \in DOMAIN ByFilename : ByFilename[n] \in Languages
    /\ \A s \in DOMAIN ModeOf : Lower[ModeOf[s]] # "in" /\ ModeOf[s] # "in"
    /\ \A words \in Magic :
         /\ words \in Seq(STRING)
         /\ IsPrefix(<<"script">>, words) =>
              \E n \in 1 .. Len(words) - 1 :
                words[n] = "for" /\ words[n + 1] \in DOMAIN ByName

VARIABLES
    file,       \* the file asked about
    magic,      \* what libmagic has said of it
    name,       \* the name of the SourceFile under way
    language,
    pc,
    p, pe,      \* places in the contents, or 0 for some place in the copy of a line
    line_end,
    line,       \* the copy
    scores, flags

reading == <<p, pe, line_end, line, scores, flags>>

vars == <<file, magic, name, language, pc, p, pe, line_end, line, scores, flags>>

\* The text is what ohcount_sourcefile_get_contents gives, <<>> for none.
text == file.text
beside == file.beside

Ext(n) == IF Len(n) > 1 THEN Last(n) ELSE ""

FoundOr(found, otherwise) == IF found # NULL THEN found ELSE otherwise

Init ==
    /\ \E group \in Files :
         \E n \in group.names, t \in group.texts, others \in group.besides :
           file = [name |-> n, text |-> t, beside |-> others]
    /\ magic = <<>>
    /\ name = file.name
    /\ language = NULL
    /\ pc = "extension"
    /\ p = 1 /\ pe = 1 /\ line_end = 1 /\ line = <<>>
    /\ scores = <<>> /\ flags = {}

\* The answer of a stage, or the next stage.
Stage(here, answer, next) ==
    /\ pc = here
    /\ language' = answer
    /\ pc' = IF answer = NULL THEN next ELSE "resolve"
    /\ UNCHANGED <<file, name>> /\ UNCHANGED reading

AnswerByExtension(n) ==
    FoundOr(Get(ByExtension, Ext(n)), Get(ByExtension, Lower[Ext(n)]))

DetectByExtension ==
    Stage("extension", AnswerByExtension(name), "modeline") /\ UNCHANGED magic

\* Where the line begins that may be a mode line: behind all lines that begin
\* with "#!"; if there is no other line it is the last of these.
ModeLine ==
    LET From[n \in 1 .. Len(text) + 1] ==
          LET here == LineAt(text, n)
              next == Skip(text, n + Len(here), {"nl"})
          IN  IF At(here, 1) = "#!" /\ next <= Len(text) THEN From[next] ELSE here
    IN  From[1]

\* "c" in either case is always C.  Else the mode is looked up as a language
\* and as an extension, as it is written and in small letters.
LookUpMode(mode) ==
    IF Lower[mode] = "c" THEN ByName["c"]
    ELSE FoundOr(Get(ByName, mode),
         FoundOr(Get(ByExtension, mode),
         FoundOr(Get(ByName, Lower[mode]), Get(ByExtension, Lower[mode]))))

\* The first mode of that line.
AnswerByModeLine ==
    LET at == SelectInSeq(ModeLine, LAMBDA s : s \in DOMAIN ModeOf)
    IN  IF at = 0 THEN NULL ELSE LookUpMode(ModeOf[ModeLine[at]])

DetectByModeLine ==
    Stage("modeline", AnswerByModeLine, "filename") /\ UNCHANGED magic

DetectByFilename ==
    Stage("filename", Get(ByFilename, name), "magic") /\ UNCHANGED magic

\* magic_parse: the word behind "for", or the word before "script" that is no
\* switch; "xml" says so itself.
MagicParse(words) ==
    LET behind(word) == words[SelectInSeq(words, LAMBDA w : w = word) + 1]
        script == SelectInSeq(words, LAMBDA w : w = "script")
        before == SelectLastInSubSeq(words, 1, script - 1, LAMBDA w : w # "-w")
        named == IF script = 1 /\ Contains(words, "for")
                 THEN Get(ByName, behind("for")) ELSE NULL
    IN  IF named # NULL THEN named
        ELSE IF script > 0 THEN Get(ByName, words[before])
        ELSE IF Contains(words, "xml") THEN "xml" ELSE NULL

\* Without contents libmagic is not asked, or finds the file of the diskpath
\* empty.
DetectByMagic ==
    /\ magic' \in Magic
    /\ Stage("magic", IF text = <<>> THEN NULL ELSE MagicParse(magic'), "done")

\* Undecorate, were the new extension not looked up.
UndecorateLater ==
    /\ pc = "resolve" /\ language = "in"
    /\ language' = NULL
    /\ IF text = <<>> THEN pc' = "done" /\ UNCHANGED name
       ELSE pc' = "modeline" /\ name' = Front(name)
    /\ UNCHANGED <<file, magic>> /\ UNCHANGED reading

\* disambiguate_in: the SourceFile without the extension begins anew.
Undecorate ==
    /\ pc = "resolve" /\ language = "in"
    /\ language' = NULL
    /\ IF text = <<>> THEN pc' = "done" /\ UNCHANGED name
       ELSE pc' = "extension" /\ name' = Front(name)
    /\ UNCHANGED <<file, magic>> /\ UNCHANGED reading

\* The last two parts of the name, as the files beside it are given.
Title == IF Len(name) > 1 THEN <<name[Len(name) - 1], Ext(name)>> ELSE <<name[1], "">>

\* A header with its .m beside it.
Accompanied == Ext(name) = "h" /\ <<Title[1], "m">> \in beside

\* The disambiguators that look at the contents as a whole; that of "b" goes on
\* as disambiguate_basic.
AtOnce(which, t) ==
    CASE which = "aspx" -> disambiguate_aspx(t)
      [] which = "asx" -> disambiguate_asx(t)
      [] which = "b" -> IF IsLimbo(t) THEN "limbo" ELSE "basic"
      [] which = "cs" -> disambiguate_cs(t)
      [] which = "dat" -> disambiguate_dat(t)
      [] which = "def" -> disambiguate_def(t)
      [] which = "inc" -> disambiguate_inc(t)
      [] which = "mod" -> disambiguate_mod(t)
      [] which = "pl" -> disambiguate_pl(t)
      [] which = "pp" -> disambiguate_pp(t)
      [] which = "pro" -> disambiguate_pro(t)
      [] which = "r" -> disambiguate_r(t)
      [] which = "rs" -> disambiguate_rs(t)

\* A language that needs no looking into the contents.
Resolved(answer) == IF answer = BINARY THEN NULL ELSE answer

\* What a disambiguator answers is not looked at again.
Resolve ==
    /\ pc = "resolve" /\ language \notin {"in"} \cup ReadByLines
    /\ language' = IF language \in Ambiguous THEN AtOnce(language, text)
                   ELSE Resolved(language)
    /\ pc' = IF language' = "basic" THEN "resolve" ELSE "done"
    /\ UNCHANGED <<file, magic, name>> /\ UNCHANGED reading

\* disambiguate_h looks at the files beside first.
ResolveHeader ==
    /\ pc = "resolve" /\ language = "h" /\ Accompanied
    /\ language' = "objective_c" /\ pc' = "done"
    /\ UNCHANGED <<file, magic, name>> /\ UNCHANGED reading

BeginLines ==
    /\ pc = "resolve" /\ language \in ReadByLines /\ ~(language = "h" /\ Accompanied)
    /\ p' = 1 /\ pe' = 1
    /\ scores' = FirstScores(language, beside) /\ flags' = {}
    /\ pc' = "lines"
    /\ UNCHANGED <<file, magic, name, language, line_end, line>>

\* A line is copied, as much of it as there is room for.  disambiguate_fs and
\* disambiguate_fortran read it where it is; what is pe here is their p.
Taken(which, t, n) ==
    IF which \in {"fs", "fortran"} THEN LineAt(t, n) ELSE UpTo(Buffer, LineAt(t, n))

TakeLine ==
    /\ pc = "lines" /\ pe <= Len(text)
    /\ line' = Taken(language, text, p)
    /\ pe' = pe + Len(LineAt(text, pe)) /\ line_end' = pe'
    /\ pc' = "line"
    /\ UNCHANGED <<file, magic, name, language, p, scores, flags>>

\* The line is looked at, with p and pe in its copy.
LookAtLine ==
    /\ pc = "line"
    /\ p' = 0 /\ pe' = 0
    /\ scores' = [s \in DOMAIN scores |-> scores[s] + Points(s, line)]
    /\ flags' = flags \cup Flags(language, line)
    /\ \E before \in BOOLEAN :
         LET answer == AfterLine(language, line, flags', before)
         IN  IF answer = NULL THEN pc' = "next" /\ UNCHANGED language
             ELSE pc' = "done" /\ language' = answer
    /\ UNCHANGED <<file, magic, name, line_end, line>>

\* NextLine, were pe not taken back to the end of the line.
NextLineFromCopy ==
    /\ pc = "next"
    /\ pe' = Skip(text, pe, {"nl"}) /\ p' = pe'
    /\ pc' = "lines"
    /\ UNCHANGED <<file, magic, name, language, line_end, line, scores, flags>>

NextLine ==
    /\ pc = "next"
    /\ pe' = Skip(text, line_end, {"nl"}) /\ p' = pe'
    /\ pc' = "lines"
    /\ UNCHANGED <<file, magic, name, language, line_end, line, scores, flags>>

EndLines ==
    /\ pc = "lines" /\ pe > Len(text)
    /\ language' = AfterLines(language, scores, flags, beside)
    /\ pc' = "done"
    /\ UNCHANGED <<file, magic, name>> /\ UNCHANGED reading

Next ==
    \/ DetectByExtension \/ DetectByModeLine \/ DetectByFilename \/ DetectByMagic
    \/ Undecorate \/ Resolve \/ ResolveHeader
    \/ BeginLines \/ TakeLine \/ LookAtLine \/ NextLine \/ EndLines

Spec == Init /\ [][Next]_vars /\ WF_vars(Next)
----------------------------------------------------------------------------
(* The same, said of all lines of a text together.                         *)

\* The scores after the lines that begin at these places.
ScoresOf(which, t, starts) ==
    [s \in DOMAIN FirstScores(which, beside) |->
       FirstScores(which, beside)[s]
       + MapThenSumSet(LAMBDA n : Points(s, Taken(which, t, n)), starts)]

FlagsOf(which, t, starts) == UNION {Flags(which, Taken(which, t, n)) : n \in starts}

\* What one of these lines answers by itself.
AnswersOf(which, t, starts, before) ==
    {AfterLine(which, Taken(which, t, n), FlagsOf(which, t, starts), before) : n \in starts}
    \ {NULL}

ByLines(which, t, before) ==
    LET starts == LineStarts(t)
        answers == AnswersOf(which, t, starts, before)
    IN  IF which = "h" /\ Accompanied THEN "objective_c"
        ELSE IF answers # {} THEN CHOOSE a \in answers : TRUE
        ELSE AfterLines(which, ScoresOf(which, t, starts), FlagsOf(which, t, starts),
                        beside)

Disambiguate(which, t, before) ==
    LET found == IF which \in ReadByLines THEN which ELSE AtOnce(which, t)
    IN  IF found \in ReadByLines THEN ByLines(found, t, before) ELSE found

\* The name without its extensions "in", in either case.
Stem ==
    LET stays(k) == k = 1 \/ Lower[file.name[k]] # "in"
        last == CHOOSE k \in DOMAIN file.name :
                  stays(k) /\ \A after \in k + 1 .. Len(file.name) : ~stays(after)
    IN  SubSeq(file.name, 1, last)

\* However many extensions "in" a file has, its language is that of the same
\* contents under the name without them: by that name's extension, else by the
\* mode line, that name and libmagic, and with the files beside it (the comment
\* at detector.c:655-658).  Only a file without contents is in no language.
UndecoratedAgrees ==
    pc = "done" /\ text # <<>> =>
      LET answer == FoundOr(AnswerByExtension(Stem),
                    FoundOr(AnswerByModeLine,
                    FoundOr(Get(ByFilename, Stem), MagicParse(magic))))
      IN  /\ name = Stem
          /\ IF answer \in Ambiguous
             THEN \E before \in BOOLEAN : language = Disambiguate(answer, text, before)
             ELSE language = Resolved(answer)

\* The disambiguators that read line by line keep scores and flags from one
\* line to the next, while p and pe are places in the contents and in the copy
\* of a line by turns: whenever they are about to take a line, what they have
\* kept is what the lines up to there say together, each of them once, and none
\* of these was enough to answer.
LinesSoFar ==
    pc = "lines" =>
      LET read == {n \in LineStarts(text) : n < p}
      IN  /\ p = pe /\ (p <= Len(text) => p \in LineStarts(text))
          /\ scores = ScoresOf(language, text, read)
          /\ flags = FlagsOf(language, text, read)
          /\ \E before \in BOOLEAN : AnswersOf(language, text, read, before) = {}

\* Empty lines at the beginning or the end do not matter.  They do for "pl",
\* where "#!" has to come first and ":-" at the end of a line counts; for
\* "fortran" at the beginning, for "r" at the end, for "rs" at both; and before
\* a text for "pp" that is not searched to its end.
EmptyLinesIrrelevant ==
    pc = "resolve" /\ language \in Ambiguous \ {"in", "pl"} /\ text # <<>> =>
      \A before \in BOOLEAN :
        LET answer == Disambiguate(language, text, before)
        IN  /\ language \notin {"r", "rs"} =>
                 Disambiguate(language, text \o <<"nl">>, before) = answer
            /\ language \notin {"fortran", "rs"}
               /\ ~(language = "pp" /\ Len(text) >= PuppetWithin) =>
                 Disambiguate(language, <<"nl">> \o text, before) = answer
=============================================================================
