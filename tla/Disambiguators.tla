--------------------------- MODULE Disambiguators ---------------------------
(***************************************************************************)
(* The disambiguate_X functions of src/detector.c: which of the languages  *)
(* that share an extension a text is in.  A text is a sequence of symbols, *)
(* the words and marks these functions look for; other words are "x".      *)
(* There is one blank, " ", and one end of a line, "nl".  A file without   *)
(* contents has the text <<>>.  Where the functions count bytes, the model *)
(* counts symbols.                                                         *)
(*                                                                         *)
(* Of the functions that read a text line by line this module has what one *)
(* line says, and what is answered after the last; Detector has their loop.*)
(***************************************************************************)
EXTENDS Integers, Sequences, FiniteSets, FiniteSetsExt, SequencesExt

CONSTANTS
    NULL, BINARY,
    Label,          \* the last column of a Fortran label: 5
    Width,          \* the last column of a Fortran statement: 72
    Buffer,         \* as much of a line as is copied: 81
    ShebangWithin,  \* where the shebang of Perl is looked for: 100
    PuppetWithin    \* where constructs of Puppet are looked for: 10000

ASSUME DisambiguatorsAssumption ==
    /\ Label \in Nat \ {0} /\ Width \in Nat
    /\ Buffer \in Nat /\ ShebangWithin \in Nat /\ PuppetWithin \in Nat
    /\ NULL # BINARY

\* The symbols that begin or end with a letter or a digit.
Words == {"x", "10", "0", "class", "include", "implement", "return", "case",
          "endwhile", "function", "module", "C", "require", "define", "inherits",
          "node", "import"}

One(condition) == IF condition THEN 1 ELSE 0

At(t, n) == IF n \in DOMAIN t THEN t[n] ELSE "end"

\* The first place from n on that does not hold one of the symbols S.
Skip(t, n, S) ==
    CHOOSE m \in n .. Len(t) + 1 :
      At(t, m) \notin S /\ \A between \in n .. m - 1 : t[between] \in S

\* The functions that read lines pass over any number of line ends after each.
LineStarts(t) ==
    {n \in DOMAIN t : n = 1 \/ (t[n - 1] = "nl" /\ t[n] # "nl")}

LineAt(t, n) ==
    LET end == CHOOSE m \in n .. Len(t) + 1 :
                 /\ At(t, m) \in {"nl", "end"}
                 /\ \A between \in n .. m - 1 : t[between] # "nl"
    IN  SubSeq(t, n, end - 1)

\* A word stands alone at n; before says whether the byte in front of the
\* line is a letter or a digit.
Alone(line, n, before) ==
    /\ IF n = 1 THEN ~before ELSE line[n - 1] \notin Words \cup {"_"}
    /\ At(line, n + 1) \notin Words \cup {"_"}
-----------------------------------------------------------------------------
(* By the first symbol.                                                    *)

\* First, were line ends not passed over.
FirstOnLine(t) == At(t, Skip(t, 1, {" "}))

First(t) == At(t, Skip(t, 1, {" ", "nl"}))

disambiguate_asx(t) == IF First(t) \in {"<", "bom", "nul"} THEN NULL ELSE "assembler"

disambiguate_dat(t) ==
    CASE First(t) \in {"/*", "#", "data", "param", "set"} -> "ampl"
      [] First(t) \in {"/", "end"} -> NULL
      [] OTHER -> BINARY

disambiguate_def(t) == IF First(t) \in {"(*", "DEFINITION"} THEN "modula2" ELSE NULL

\* "I" and "M" are other words that begin so.
disambiguate_mod(t) ==
    CASE First(t) \in {"(*", "IMPLEMENTATION", "MODULE"} -> "modula2"
      [] First(t) \in {"(", "I", "M", "end"} -> NULL
      [] OTHER -> "ampl"
-----------------------------------------------------------------------------
(* By what occurs anywhere.                                                *)

\* Only the first directive is looked at: afterwards the loop goes on in the
\* copy it was made of.
disambiguate_aspx(t) ==
    IF \E from \in DOMAIN t :
         /\ t[from] = "<%@" /\ \A n \in 1 .. from - 1 : t[n] # "<%@"
         /\ \E to \in from .. Len(t) :
              /\ t[to] = "%>" /\ \A n \in from .. to - 1 : t[n] # "%>"
              /\ LET page == Skip(t, from + 1, {" "})
                 IN  /\ At(t, page) = "page"
                     /\ \E n \in page .. to : t[n] = "language=\"vb\""
    THEN "vb_aspx" ELSE "cs_aspx"

disambiguate_cs(t) == IF Contains(t, "<?cs") THEN "clearsilver_template" ELSE "csharp"

\* The contents end with the first byte 0, so there is none to find.
disambiguate_inc(t) == IF Contains(t, "?php") THEN "php" ELSE NULL

disambiguate_pro(t) == IF Contains(t, "SOURCES +=") THEN "make" ELSE "idl_pvwave"

Blanks == {" ", "nl"}

\* What a text of at most that many symbols may be, in its beginning.
UpTo(most, t) == SubSeq(t, 1, IF Len(t) < most THEN Len(t) ELSE most)

\* The two expressions, from the first word of a line on; "require" stands for
\* ensure, content, notify and source too.  Between the parts of a construct
\* there may be any number of blanks and line ends.  Quotes around the name of a
\* node are left out.
PuppetAt(t, n) ==
    LET called == Words \cup {":", "-"}
        behind(from) == Skip(t, Skip(t, from, called), Blanks)
        named(from, next) == At(t, from) \in called /\ At(t, behind(from)) \in next
        argument == Skip(t, n + 1, Blanks)
        inherits == behind(argument)
        parent == Skip(t, inherits + 1, Blanks)
    IN  /\ At(t, n + 1) \in Blanks
        /\ \/ t[n] = "require" /\ At(t, argument) = "=>"
           \/ t[n] = "import" /\ At(t, argument) = "\""
           \/ t[n] = "include" /\ At(t, argument) \in called
           \/ /\ t[n] = "include" /\ At(t, argument) = "\""
              /\ At(t, argument + 1) \in called
           \/ t[n] = "define" /\ named(argument, {"("})
           \/ t[n] = "node" /\ named(argument, {"{"})
           \/ t[n] = "class" /\ named(argument, {"(", "{"})
           \/ /\ t[n] = "class" /\ named(argument, {"inherits"})
              /\ At(t, inherits + 1) \in Blanks /\ named(parent, {"(", "{"})

Puppet(t) ==
    \E n \in DOMAIN t :
      /\ \E line \in 1 .. n : /\ line = 1 \/ t[line - 1] = "nl"
                              /\ \A m \in line .. n - 1 : t[m] \in Blanks
      /\ PuppetAt(t, n)

disambiguate_pp(t) ==
    IF t = <<>> THEN NULL
    ELSE IF Puppet(UpTo(PuppetWithin, t)) THEN "puppet" ELSE "pascal"

\* A rule of Prolog ends a line or has a blank behind it.
disambiguate_pl(t) ==
    LET start == UpTo(ShebangWithin, t)
        shebang == /\ At(start, 1) = "#!"
                   /\ \E n \in DOMAIN start :
                        start[n] = "perl" /\ \A before \in 1 .. n : start[before] # "nl"
        rule == \E n \in DOMAIN t : t[n] = ":-" /\ At(t, n + 1) \in Blanks
    IN  CASE t = <<>> -> NULL
          [] rule /\ ~shebang -> "prolog"
          [] OTHER -> "perl"

\* "return" stands for break and continue too, "case" for pick.  The closing
\* quote of an include is looked for from the opening one on.  Whatever is
\* behind the blanks of an include is not looked at again.
IsLimbo(t) ==
    LET follows(n, s) == \E m \in n .. Len(t) : t[m] = s
        From[n \in 1 .. Len(t) + 2] ==
          LET include == At(t, n) = "include" /\ At(t, n + 1) = " "
              to == IF include THEN Skip(t, n + 1, {" "}) ELSE n
          IN  /\ n <= Len(t)
              /\ \/ t[n] = "implement" /\ At(t, n + 1) = " "
                 \/ include /\ At(t, to) = "\"" /\ At(t, to + 1) = ";"
                 \/ t[n] = "return" /\ follows(n, ";")
                 \/ t[n] = "case" /\ follows(n, "{")
                 \/ From[to + 1]
    IN  From[1]

\* The loops of these two stop one byte early.
disambiguate_r(t) ==
    IF \E n \in DOMAIN t : t[n] = "rebol" /\ n < Len(t) THEN "rebol" ELSE "R"

disambiguate_rs(t) ==
    IF \/ At(t, 1) = "#pragma version"
       \/ \E n \in DOMAIN t :
            /\ t[n] = "nl" /\ At(t, n + 1) = "#pragma version"
            /\ n + 1 < Len(t)
    THEN NULL ELSE "rust"
-----------------------------------------------------------------------------
(* What a line says.                                                       *)

\* A line with a number: ^\d+\s+\w
Numbered(line) ==
    LET n == Skip(line, 1, {"10", "0"})
    IN  /\ n > 1 /\ At(line, n) = " "
        /\ At(line, Skip(line, n, {" "})) \in Words

Forth(line) == One(At(line, Skip(line, 1, {" "})) \in {"\\ ", ": "})

FSharp(line) == One(At(line, Skip(line, 1, {" "})) \in {"|", "let ", "type ", "//"})

\* What a line must not have if it is in fixed format.  After a quote the scan
\* goes on at the closing one; the end of the line is looked at like any
\* other symbol.
Opposes(line) ==
    LET Scan[n \in 1 .. Len(line) + 1, i \in 1 .. Label + Len(line) + 1,
             blank \in BOOLEAN] ==
          IF n > Len(line) THEN FALSE
          ELSE LET s == At(line, n + 1)
                   labelled == i + 1 <= Label
                   nowBlank == IF labelled THEN blank /\ s = " " ELSE blank
                   to == IF s \in {"\"", "'"}
                         THEN Skip(line, n + 2, ToSet(line) \ {s}) ELSE n + 1
               IN  \/ labelled /\ s \notin {"10", "0", " ", "!"}
                   \/ i + 1 = Label + 1 /\ ~nowBlank /\ s \notin {" ", "0"}
                   \/ s = "&" /\ i + 1 > Label + 1 /\ i + 1 <= Width
                   \/ /\ s # "!" \/ i + 1 = Label + 1
                      /\ Scan[to, i + to - n, nowBlank]
    IN  IF At(line, 1) \in {" ", "tab", "10", "0"}
        THEN Scan[1, IF At(line, 1) = "tab" THEN Label ELSE 1,
                  At(line, 1) \in {" ", "tab"}]
        ELSE At(line, 1) \notin {"C", "*", "!"}

\* A C++ header, by its name or by its extension.
IncludesCpp(line) ==
    LET n == Skip(line, 2, {" "})
    IN  /\ At(line, 1) = "#" /\ At(line, n) = "include" /\ At(line, n + 1) = " "
        /\ At(line, Skip(line, n + 1, {" "})) \in {"<iostream>", "\"x.hpp\""}

\* "class" stands for namespace, template and typename too.  For the first
\* word of a line the byte in front of the buffer is read, which is undefined.
Cpp(line, before) ==
    \/ IncludesCpp(line)
    \/ \E n \in DOMAIN line : line[n] = "class" /\ Alone(line, n, before)

\* What one line shows of Smalltalk.
Smalltalk(line) ==
    LET From[n \in 1 .. Len(line) + 2] ==
          LET next == Skip(line, n + 1, {" "})
          IN  IF n > Len(line) THEN {}
              ELSE IF line[n] = ":"
                   THEN ({At(line, next)} \cap {"=", "["}) \cup From[next + 1]
              ELSE IF line[n] = "]" /\ At(line, n + 1) = "."
                   THEN {"]"} \cup From[n + 1]
              ELSE From[n + 1]
    IN  From[1]

\* '#' and a blank begin a comment of Limbo or of Octave.
HashComment(line) ==
    LET n == Skip(line, 1, {" "})
    IN  At(line, n) = "#" /\ At(line, Skip(line, n, {"#"})) = " "

ObjectiveC(line) ==
    One(At(line, Skip(line, 1, {" "})) \in
          {"#import", "//", "/*", "+", "-", "@interface"})

\* The function's parenthesis.
Matlab(line) ==
    LET n == Skip(line, 1, {" "})
    IN  One(\/ At(line, n) = "%" \/ HashComment(line)
            \/ /\ At(line, n) = "function"
               /\ At(line, Skip(line, n + 1, {" "})) = "(")

\* An include never counts: its closing quote is looked for from the opening
\* one on, which ".m" does not precede.
Limbo(line) ==
    One(HashComment(line))
    + Cardinality({n \in DOMAIN line : /\ line[n] = ":" /\ At(line, n + 1) = " "
                                       /\ At(line, n + 2) = "module"
                                       /\ At(line, n + 3) \notin Words})

Mathematica(line) ==
    LET From[n \in 1 .. Len(line) + 2] ==
          LET to == IF At(line, n) = "&" THEN Skip(line, n + 1, {" "}) ELSE n
          IN  IF n > Len(line) THEN 0
              ELSE One(to # n /\ At(line, to) \in {",", ")", "]"})
                   + One(\/ At(line, to) \in {"(*", "/.", "@@"}
                         \/ At(line, to) = "_" /\ At(line, to + 1) = "_")
                   + From[to + 1]
    IN  From[1]

\* A word at the beginning of a line is passed over; others reach to the last
\* small letter or underscore.
Octave(line) ==
    LET small == Words \ {"10", "0", "C"}
        From[n \in 1 .. Len(line) + 2] ==
          LET to == Skip(line, n, small \cup {"_"})
          IN  IF n > Len(line) THEN FALSE
              ELSE IF n > 1 /\ line[n] \in small /\ line[n - 1] \notin Words
              THEN \/ line[n] = "endwhile" /\ to = n + 1 /\ At(line, to) \notin Words
                   \/ From[to + 1]
              ELSE From[n + 1]
    IN  HashComment(line) \/ From[1]

-----------------------------------------------------------------------------
(* The functions that read lines: before the first, after each, and after  *)
(* the last.  The files beside are pairs of a name and its extension.      *)

\* The branches for .cc and .h are taken for names that have nothing else.
HeadersOnly(beside) ==
    /\ <<"", "h">> \in beside
    /\ \A f \in beside : /\ f[2] \notin {"cpp", "c++", "cxx"}
                         /\ f \notin {<<"", "cc">>, <<"", "c">>, <<"", "C">>}

\* The scores they keep, as they begin.
FirstScores(which, beside) ==
    CASE which = "m" -> [objective_c |-> IF HeadersOnly(beside) THEN 5 ELSE 0,
                         matlab |-> 0, limbo |-> 0, mathematica |-> 0]
      [] which = "fs" -> [forth |-> 0, fsharp |-> 0]
      [] OTHER -> [score \in {} |-> 0]

\* What a line adds to a score.
Points(score, line) ==
    CASE score = "objective_c" -> ObjectiveC(line)
      [] score = "matlab" -> Matlab(line)
      [] score = "limbo" -> Limbo(line)
      [] score = "mathematica" -> Mathematica(line)
      [] score = "forth" -> Forth(line)
      [] score = "fsharp" -> FSharp(line)

\* The flags a line sets.
Flags(which, line) ==
    CASE which = "st" -> Smalltalk(line)
      [] which = "m" /\ Octave(line) -> {"octave"}
      [] OTHER -> {}

\* What is answered after a line, or NULL to go on.
AfterLine(which, line, flags, before) ==
    CASE which = "basic" /\ Numbered(line) -> "classic_basic"
      [] which = "fortran" /\ Opposes(line) -> "fortranfree"
      [] which = "h" /\ Cpp(line, before) -> "cpp"
      [] which = "st" /\ {"=", "[", "]"} \subseteq flags -> "smalltalk"
      [] OTHER -> NULL

Weighed(s, flags) ==
    IF s.limbo > s.objective_c /\ s.limbo > s.matlab /\ s.limbo > s.mathematica THEN "limbo"
    ELSE IF s.objective_c > s.matlab /\ s.objective_c > s.mathematica THEN "objective_c"
    ELSE IF s.mathematica > s.matlab THEN "mathematica"
    ELSE IF "octave" \in flags THEN "octave" ELSE "matlab"

AfterLines(which, scores, flags, beside) ==
    CASE which = "basic" ->
           IF \E f \in beside : f[2] \in {"frm", "frx", "vba", "vbp", "vbs"}
           THEN "visualbasic" ELSE "structured_basic"
      [] which = "fortran" -> "fortranfixed"
      [] which = "fs" -> IF scores.forth > scores.fsharp THEN "forth"
                         ELSE IF scores.forth < scores.fsharp THEN "fsharp" ELSE NULL
      [] which = "h" -> "c"
      [] which = "m" -> Weighed(scores, flags)
      [] which = "st" -> NULL
=============================================================================
