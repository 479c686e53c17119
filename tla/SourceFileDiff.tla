---------------------------- MODULE SourceFileDiff ----------------------------
(***************************************************************************)
(* ohcount_sourcefile_diff (src/sourcefile.c): what changed between two    *)
(* parsed files, language by language.  It calls ohcount_calc_diff (Diff)  *)
(* for the code and for the comments of each language, on the same globals *)
(* every time, and adds each LocDelta to a list (Loc).                     *)
(***************************************************************************)
EXTENDS Diff

CONSTANTS
    Languages,
    FilePairs   \* the pairs of files, each the sequence of its parsed languages

\* A parsed language: its code and its comments line by line, its blank lines.
LanguageParts == [language : Languages, code : Seq(Lines \cup {Empty}),
                    comments : Seq(Lines \cup {Empty}), blanks : Nat]

\* The parser's callback has one entry for each language of a file.
ASSUME FilePairsAssumption ==
    \A pair \in FilePairs : \A f \in {1, 2} :
      /\ pair[f] \in Seq(LanguageParts)
      /\ \A m, n \in DOMAIN pair[f] :
           m < n => pair[f][m].language # pair[f][n].language

VARIABLES
    files,      \* <<from, to>>
    which,      \* the file whose languages are gone through, 3 for none
    at,         \* and the place of the one it has come to
    part,       \* what of it is compared: nothing yet, the code, the comments
    delta,      \* its LocDelta so far
    lists, op, put, calls \* the list of LocDelta, with Loc's history

locVars == <<lists, op, put, calls>>
sfdVars == <<files, which, at, part, delta, locVars>>

Numbers == [{"code_added", "code_removed", "comments_added", "comments_removed",
             "blanks_added", "blanks_removed"} -> Nat]
L == INSTANCE Loc WITH kind <- "LocDelta", Lists <- {"diff"}, added <- put,
                       LocAmounts <- {}, DeltaAmounts <- Numbers, MaxCalls <- 100

SFDInit ==
    /\ Unused /\ text = << <<>>, <<>> >> /\ pc = "done"
    /\ files \in FilePairs
    /\ which = 1 /\ at = 1 /\ part = "none" /\ delta = L!Zero
    /\ lists = [d \in {"diff"} |-> <<>>] /\ op = L!NoOp
    /\ put = [d \in {"diff"} |-> [l \in Languages |-> L!Zero]] /\ calls = 0

AtLanguage == which < 3 /\ at <= Len(files[which])
language == files[which][at].language

\* calc_loc_delta looks the language up in both files; where it is missing
\* it takes a ParsedLanguage with nothing in it.
Blank == [code |-> <<>>, comments |-> <<>>, blanks |-> 0]
Parsed(f, l) ==
    LET places == {n \in DOMAIN files[f] : files[f][n].language = l}
    IN  IF places = {} THEN Blank ELSE files[f][CHOOSE n \in places : TRUE]

\* The second loop passes over what the list has an item for.
Known == \E n \in DOMAIN lists["diff"] : lists["diff"][n].language = language

Skip ==
    /\ AtLanguage /\ which = 2 /\ part = "none" /\ Known
    /\ at' = at + 1
    /\ UNCHANGED <<vars, files, which, part, delta, locVars>>

\* CompareCode, were the second loop to take every language.
CompareCodeAgain ==
    /\ AtLanguage /\ part = "none"
    /\ CalcDiff(Parsed(1, language).code, Parsed(2, language).code)
    /\ delta' = L!Zero
    /\ part' = "code"
    /\ UNCHANGED <<files, which, at, locVars>>

CompareCode ==
    /\ AtLanguage /\ part = "none" /\ (which = 1 \/ ~Known)
    /\ CalcDiff(Parsed(1, language).code, Parsed(2, language).code)
    /\ delta' = L!Zero
    /\ part' = "code"
    /\ UNCHANGED <<files, which, at, locVars>>

\* The call under way goes on.
Calc == Next /\ UNCHANGED sfdVars

CompareComments ==
    /\ part = "code"
    /\ CalcDiff(Parsed(1, language).comments, Parsed(2, language).comments)
    /\ delta' = [delta EXCEPT !["code_added"] = added, !["code_removed"] = removed]
    /\ part' = "comments"
    /\ UNCHANGED <<files, which, at, locVars>>

\* The comments are compared: the blank lines are only counted.
AddDelta ==
    /\ part = "comments" /\ pc = "done"
    /\ LET from == Parsed(1, language).blanks
           to == Parsed(2, language).blanks
           fewer == from > to
           n == [delta EXCEPT
                   !["comments_added"] = added, !["comments_removed"] = removed,
                   !["blanks_removed"] = IF fewer THEN from - to ELSE 0,
                   !["blanks_added"] = IF fewer THEN 0 ELSE to - from]
       IN  L!AddOne("diff", language, n) /\ delta' = n
    /\ part' = "none" /\ at' = at + 1
    /\ UNCHANGED <<vars, files, which>>

NextFile ==
    /\ which < 3 /\ at > Len(files[which])
    /\ which' = which + 1 /\ at' = 1
    /\ UNCHANGED <<vars, files, part, delta, locVars>>

SFDNext == Skip \/ CompareCode \/ Calc \/ CompareComments \/ AddDelta \/ NextFile
SFDSpec == SFDInit /\ [][SFDNext]_<<vars, sfdVars>> /\ WF_<<vars, sfdVars>>(SFDNext)
-----------------------------------------------------------------------------
\* The lines calc_diff looks at: the program diff also at the empty ones.
Seen(s, t) ==
    IF Len(s) >= Large \/ Len(t) >= Large THEN Len(s)
    ELSE Len(Hashes(s))
Gained(s, t) == Seen(t, s) - Seen(s, t)

\* The languages of the first file come before those of the second: wherever the
\* later is, the earlier has been.
ComesBefore(earlier, later) ==
    \A g \in {1, 2} : \A n \in DOMAIN files[g] :
      files[g][n].language = later =>
        \E f \in {1, 2} : \E m \in DOMAIN files[f] :
          files[f][m].language = earlier /\ (f < g \/ (f = g /\ m < n))

\* The list has one item for each language of either file, in the order in
\* which they first come, though adding a language that is not the head's would
\* add it again (loc.c:261) and both files may have it; and what an item says
\* was added, less what it says was removed, is what the language's code,
\* comments and blank lines have more of, neither more than there is.
DeltaOfFiles ==
    which = 3 =>
      LET items == lists["diff"]
          names(f) == {files[f][n].language : n \in DOMAIN files[f]}
      IN  /\ {items[n].language : n \in DOMAIN items} = names(1) \cup names(2)
          /\ \A m, n \in DOMAIN items :
               m < n => /\ items[m].language # items[n].language
                        /\ ComesBefore(items[m].language, items[n].language)
          /\ \A m \in DOMAIN items :
               LET from == Parsed(1, items[m].language)
                   to == Parsed(2, items[m].language)
                   n == items[m].n
               IN  /\ n["code_added"] - n["code_removed"] = Gained(from.code, to.code)
                   /\ n["comments_added"] - n["comments_removed"]
                        = Gained(from.comments, to.comments)
                   /\ n["blanks_added"] - n["blanks_removed"] = to.blanks - from.blanks
                   /\ n["code_removed"] <= Len(from.code)
                   /\ n["comments_removed"] <= Len(from.comments)
                   /\ n["blanks_removed"] <= from.blanks
                   /\ from = to => n = L!Zero
=============================================================================
