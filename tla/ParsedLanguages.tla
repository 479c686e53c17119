--------------------------- MODULE ParsedLanguages ---------------------------
(***************************************************************************)
(* What a SourceFile gathers from one run of its parser (src/sourcefile.c, *)
(* parser_callback, and src/parsed_language.c): for each language reported *)
(* a buffer of code and one of comments, each five bytes longer than the   *)
(* file, and the counts of lines.                                          *)
(*                                                                         *)
(* The parser is outside this module: it reports any spans of the text, in *)
(* any language.  LineCounter says which: spans in the order of the text   *)
(* (InOrder) where the scanner delays the callbacks of unfinished regions, *)
(* and spans that come again (CountedOnce fails) where it does not.        *)
(*                                                                         *)
(* A buffer is how many bytes were copied into it.                         *)
(***************************************************************************)
EXTENDS Integers

CONSTANTS
    Languages,  \* the languages a parser may report
    Spans,      \* <<start, end>>: the spans it may report
    Indents,    \* how many spaces and tabs a span may begin with
    MaxReports  \* bound on the reports of one run

ASSUME PLAssumption ==
    /\ Spans \subseteq Nat \X Nat
    /\ \A span \in Spans : span[1] <= span[2]
    /\ Indents \subseteq Nat
    /\ MaxReports \in Nat
    /\ "null" \notin Languages

VARIABLES
    parsed,  \* parsed_language_list: NULL, or by language what is gathered
    len,     \* the size of the text the parser runs over
    told,    \* history: how often the parser reported each kind of line
    seen     \* history: the reports so far, the last one's end, and whether
             \* all came in the order of the text and apart

plvars == <<parsed, len, told, seen>>

NULL == [null |-> TRUE]

Entities == {"lcode", "lcomment", "lblank"}
Gathered == [code : Nat, comments : Nat,
             code_count : Nat, comments_count : Nat, blanks_count : Nat]

\* ohcount_parsed_language_new
NewLanguage == [code |-> 0, comments |-> 0,
                code_count |-> 0, comments_count |-> 0, blanks_count |-> 0]

\* Fits, were the terminating byte forgotten.
FitsWithoutEnd(at, length) == at + length <= len + 5

\* Fits, were the five spare bytes forgotten.
FitsWithoutSpare(at, length) == at + length < len

\* code_p + length < code + buffer_size + 5
Fits(at, length) == at + length < len + 5

\* ohcount_parsed_language_add_code, _add_comment and blanks_count++
Noted(pl, entity, length) ==
    CASE entity = "lcode" ->
           IF Fits(pl.code, length)
           THEN [pl EXCEPT !.code = @ + length, !.code_count = @ + 1] ELSE pl
      [] entity = "lcomment" ->
           IF Fits(pl.comments, length)
           THEN [pl EXCEPT !.comments = @ + length, !.comments_count = @ + 1]
           ELSE pl
      [] OTHER -> [pl EXCEPT !.blanks_count = @ + 1]

NothingTold == [r \in Languages \X Entities |-> 0]
NothingSeen == [reports |-> 0, end |-> 0, ordered |-> TRUE]

Init ==
    /\ parsed = NULL
    /\ len = 0
    /\ told = NothingTold
    /\ seen = NothingSeen

\* A list is made, and the parser is to run over a text of n bytes.
NewList ==
    /\ parsed = NULL
    /\ parsed' = [l \in {} |-> NewLanguage]
    /\ UNCHANGED <<len, told, seen>>

RunOver(n) ==
    /\ parsed # NULL /\ seen.reports = 0
    /\ len' = n
    /\ UNCHANGED <<parsed, told, seen>>

\* parser_callback: what is copied of the span is what follows its leading
\* spaces and tabs.  They end within the span: a line that is reported has
\* something else on it, or its newline.
Report(language, entity, span, spaces) ==
    /\ parsed # NULL
    /\ seen.reports < MaxReports
    /\ span[2] <= len /\ spaces <= span[2] - span[1]
    /\ LET pl == IF language \in DOMAIN parsed THEN parsed[language]
                 ELSE NewLanguage
       IN  parsed' = [l \in DOMAIN parsed \cup {language} |->
                        IF l = language
                        THEN Noted(pl, entity, span[2] - span[1] - spaces)
                        ELSE parsed[l]]
    /\ told' = [told EXCEPT ![<<language, entity>>] = @ + 1]
    /\ seen' = [reports |-> seen.reports + 1, end |-> span[2],
                ordered |-> seen.ordered /\ seen.end <= span[1]]
    /\ UNCHANGED len

NextReport ==
    \E l \in Languages, e \in Entities, span \in Spans, spaces \in Indents :
      Report(l, e, span, spaces)

Next == NewList \/ (len' \in Nat /\ RunOver(len')) \/ NextReport

Spec == Init /\ [][Next]_plvars
----------------------------------------------------------------------------
\* Every variable has its type.
PLTypeOK ==
    /\ parsed = NULL \/ \E ls \in SUBSET Languages : parsed \in [ls -> Gathered]
    /\ len \in Nat
    /\ told \in [Languages \X Entities -> Nat]
    /\ seen \in [reports : 0 .. MaxReports, end : Nat, ordered : BOOLEAN]

\* Whatever spans a parser reports, and however often the same ones, each
\* buffer of buffer_size + 5 bytes holds what was copied into it and the
\* zero byte behind it.
NoOverrun ==
    parsed # NULL =>
      \A l \in DOMAIN parsed : parsed[l].code < len + 5
                               /\ parsed[l].comments < len + 5

\* A parser that reports in the order of the text, each place once, has every
\* one of its lines counted: the check that keeps the buffers from overrunning
\* never turns one of them away.
AllCounted ==
    parsed # NULL /\ seen.ordered =>
      \A l \in Languages :
        IF l \in DOMAIN parsed
        THEN /\ parsed[l].code_count = told[<<l, "lcode">>]
             /\ parsed[l].comments_count = told[<<l, "lcomment">>]
             /\ parsed[l].blanks_count = told[<<l, "lblank">>]
        ELSE \A e \in Entities : told[<<l, e>>] = 0
=============================================================================
