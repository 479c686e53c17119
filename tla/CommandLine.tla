----------------------------- MODULE CommandLine -----------------------------
(***************************************************************************)
(* The program ohcount (src/ohcount.c): main lists the files (FileLists)   *)
(* and then gives the list to one command.  summary and individual ask     *)
(* each file for its list of Loc; summary adds them up with the operations *)
(* of Loc, a client of which it is.  A file is read when the command comes *)
(* to it: other programs may have changed it since it was listed.          *)
(*                                                                         *)
(* The lists of Loc are those of the files, by their places in the list,   *)
(* and list 0, the sum.  What a file says when it is read is a constant.   *)
(***************************************************************************)
EXTENDS FileLists, FiniteSetsExt

CONSTANTS
    Alphabet, \* the languages, in the order of strcmp
    Has,      \* the counts of each file by language, in the order of its lines
    Answers,  \* the lines each of the other commands prints for a file
    MaxListed \* bound on the files listed

Languages == ToSet(Alphabet)
Place(l) == CHOOSE i \in DOMAIN Alphabet : Alphabet[i] = l

VARIABLES
    command,  \* NULL while main lists files
    ended,    \* whether main has returned
    file,     \* the place of the file the command is at
    item,     \* how many of its languages have been counted
    lists, op, added, calls, \* the lists of Loc
    rows,     \* the items of a list, as sort_loc_list_... leaves them
    out,      \* what was printed: the rows, and for which file
    read      \* history: what each file said when it was read

locVars == <<lists, op, added, calls>>
clVars == <<command, ended, file, item, locVars, rows, out, read>>

NULL == "none"
EachFile == DOMAIN Answers
Commands == {"summary", "individual", "help"} \cup EachFile
Sum == 0

\* No behaviour makes as many calls as MaxCalls allows.
L == INSTANCE Loc WITH
       kind <- "Loc", Lists <- 0 .. MaxListed, DeltaAmounts <- {}, MaxCalls <- 1000,
       LocAmounts <- UNION {{Has[p][i].n : i \in DOMAIN Has[p]} : p \in DOMAIN Has}

ASSUME CommandLineAssumption ==
    /\ Alphabet \in Seq(STRING)
    /\ Has \in [Paths -> Seq([language : Languages, n : [L!LocFields -> Nat]])]
    /\ \A p \in Paths : \A i, h \in DOMAIN Has[p] :
         Has[p][i].language = Has[p][h].language => i = h
    /\ MaxListed \in Nat
    /\ EachFile \cap {NULL, "summary", "individual", "help"} = {}

CLInit ==
    /\ ListInit
    /\ command = NULL /\ ended = FALSE /\ file = 1 /\ item = 0
    /\ lists = [k \in 0 .. MaxListed |-> <<>>] /\ op = L!NoOp
    /\ added = [k \in 0 .. MaxListed |-> [l \in Languages |-> L!Zero]] /\ calls = 0
    /\ rows = <<>> /\ out = <<>> /\ read = <<>>

\* main comes to the switch.
Start ==
    /\ step = "listed" /\ command = NULL
    /\ Len(list) <= MaxListed
    /\ command' \in Commands
    /\ UNCHANGED <<listVars, ended, file, item, locVars, rows, out, read>>

\* What is in the file now: another program may have taken it away.
Contents(p) == IF tree[Real(p)] = "file" THEN Has[Real(p)] ELSE <<>>

Counting == command \in {"summary", "individual"}

\* ohcount_sourcefile_get_loc_list: the file is parsed,
ParseFile ==
    /\ Counting /\ file <= Len(list) /\ Len(read) < file
    /\ read' = Append(read, Contents(list[file].path))
    /\ UNCHANGED <<listVars, command, ended, file, item, locVars, rows, out>>

\* and each of its languages gives a Loc.
CountLanguage ==
    /\ Counting /\ file <= Len(list) /\ Len(read) = file /\ item < Len(read[file])
    /\ L!AddOne(file, read[file][item + 1].language, read[file][item + 1].n)
    /\ item' = item + 1
    /\ UNCHANGED <<listVars, command, ended, file, rows, out, read>>

Counted == file <= Len(list) /\ Len(read) = file /\ item = Len(read[file])
NextFile == file' = file + 1 /\ item' = 0

\* AnalyzeFile, were the items of a file's list only hung behind the sum's.
AppendFile ==
    /\ command = "summary" /\ Counted /\ op = L!NoOp
    /\ lists' = [lists EXCEPT ![Sum] = @ \o lists[file]]
    /\ NextFile
    /\ UNCHANGED <<listVars, command, ended, op, added, calls, rows, out, read>>

\* ohcount_sourcefile_list_analyze_languages: ohcount_loc_list_add_loc_list.
AnalyzeFile ==
    /\ command = "summary" /\ Counted /\ op = L!NoOp
    /\ L!AddList(Sum, file)
    /\ UNCHANGED <<listVars, command, ended, file, item, rows, out, read>>
AnalyzeItem ==
    /\ L!NextItem
    /\ UNCHANGED <<listVars, command, ended, file, item, rows, out, read>>
FileAnalyzed ==
    /\ L!EndOfList
    /\ NextFile
    /\ UNCHANGED <<listVars, command, ended, rows, out, read>>

Swapped(s, i, j) == [s EXCEPT ![i] = s[j], ![j] = s[i]]

\* The place, from i on, of the first row no other is ahead of.
Foremost(s, i, Ahead(_, _)) ==
    CHOOSE j \in i .. Len(s) :
        /\ \A h \in i .. Len(s) : ~Ahead(s[h], s[j])
        /\ \A h \in i .. j - 1 : Ahead(s[j], s[h])

\* sort_loc_list_by_language, sort_loc_list_by_code
SelectionSort(s, Ahead(_, _)) ==
    FoldLeft(LAMBDA r, i : Swapped(r, i, Foremost(r, i, Ahead)),
             s, [i \in DOMAIN s |-> i])
MoreCode(m, n) == m.n["code"] > n.n["code"]
Earlier(m, n) == Place(m.language) < Place(n.language)

Printed(p, s) == [i \in DOMAIN s |-> [path |-> p, row |-> s[i]]]
TotalRow == [language |-> "Total", n |-> [f \in L!LocFields |-> L!Total(lists[Sum], f)]]

\* summary, once all files are analyzed.
PrintSummary ==
    /\ command = "summary" /\ file > Len(list) /\ ~ended
    /\ rows' = SelectionSort(lists[Sum], MoreCode)
    /\ out' = Printed(<<>>, Append(rows', TotalRow))
    /\ ended' = TRUE
    /\ UNCHANGED <<listVars, command, file, item, locVars, read>>

\* PrintFile, were the rows sorted like those of the summary.
PrintFileByCode ==
    /\ command = "individual" /\ Counted
    /\ rows' = SelectionSort(lists[file], MoreCode)
    /\ out' = out \o Printed(list[file].path, rows')
    /\ NextFile
    /\ UNCHANGED <<listVars, command, ended, locVars, read>>

\* individual, for one file.
PrintFile ==
    /\ command = "individual" /\ Counted
    /\ rows' = SelectionSort(lists[file], Earlier)
    /\ out' = out \o Printed(list[file].path, rows')
    /\ NextFile
    /\ UNCHANGED <<listVars, command, ended, locVars, read>>

\* detect, annotate, licenses and raw_entities print what a file answers.  Of
\* a file that is gone the name may still tell the language.
Answer(p) ==
    IF tree[Real(p)] = "file" THEN {Answers[command][Real(p)]}
    ELSE IF command = "detect" THEN {Answers[command][Real(p)], <<"(null)">>}
    ELSE {<<>>}
PrintAnswer ==
    /\ command \in EachFile /\ file <= Len(list)
    /\ \E a \in Answer(list[file].path) : out' = out \o Printed(list[file].path, a)
    /\ NextFile
    /\ UNCHANGED <<listVars, command, ended, locVars, rows, read>>

\* End, were help among the commands that go through the files.
EndOfFiles ==
    /\ ~ended
    /\ command \in EachFile \cup {"individual", "help"} /\ file > Len(list)
    /\ ended' = TRUE
    /\ UNCHANGED <<listVars, command, file, item, locVars, rows, out, read>>

End ==
    /\ ~ended
    /\ \/ command = "help"
       \/ command \in EachFile \cup {"individual"} /\ file > Len(list)
    /\ ended' = TRUE
    /\ UNCHANGED <<listVars, command, file, item, locVars, rows, out, read>>

CLStep ==
    \/ ListStep /\ UNCHANGED clVars
    \/ Start \/ ParseFile \/ CountLanguage \/ AnalyzeFile \/ AnalyzeItem
    \/ FileAnalyzed \/ PrintSummary \/ PrintFile \/ PrintAnswer \/ End
CLNext ==
    \/ CLStep
    \/ (\E p \in Paths, kind \in Kinds : Change(p, kind)) /\ UNCHANGED clVars

CLSpec == CLInit /\ [][CLNext]_<<listVars, clVars>>
                 /\ WF_<<listVars, clVars>>(CLStep)
-----------------------------------------------------------------------------
\* What the files said of a language, all taken together, and how many said it.
SaidOf(l) == {o \in (DOMAIN read) \X (1 .. Len(Alphabet)) :
                 o[2] \in DOMAIN read[o[1]] /\ read[o[1]][o[2]].language = l}
SumOf(l) == [f \in L!LocFields |->
               MapThenSumSet(LAMBDA o : read[o[1]][o[2]].n[f], SaidOf(l))]

\* The summary: for each language that any file had when it was read, one row
\* with all the files' counts of it, and the row with more code is never behind
\* the one with less; the last row has the sums of the others.
SummaryOfFiles ==
    ended /\ command = "summary" =>
      LET counted == Front(out)
      IN  /\ Len(read) = Len(list)
          /\ {o.row : o \in ToSet(counted)} =
               {[language |-> l, n |-> SumOf(l)] :
                  l \in {m \in Languages : SaidOf(m) # {}}}
          /\ IsInjective(counted)
          /\ \A i, j \in DOMAIN counted :
               i < j => ~MoreCode(counted[j].row, counted[i].row)
          /\ \A f \in L!LocFields :
               Last(out).row.n[f] = FoldLeft(LAMBDA sum, o : sum + o.row.n[f], 0, counted)

\* individual: file after file in the order of the list, and within a file
\* language after language, what the file said when it was read.
RowsOfFiles ==
    ended /\ command = "individual" =>
      /\ Len(read) = Len(list)
      /\ \E bound \in [0 .. Len(list) -> 0 .. Len(out)] :
           /\ bound[0] = 0 /\ bound[Len(list)] = Len(out)
           /\ \A k \in DOMAIN list :
                LET mine == SubSeq(out, bound[k - 1] + 1, bound[k])
                IN  /\ Len(mine) = Len(read[k])
                    /\ {o.row : o \in ToSet(mine)} = ToSet(read[k])
                    /\ \A o \in ToSet(mine) : o.path = list[k].path
                    /\ \A i, j \in DOMAIN mine :
                         i < j => Earlier(mine[i].row, mine[j].row)

\* summary is a client of Loc and of nothing behind it: whatever it does with
\* its lists is a step of Loc, so what holds of every client's lists
\* (OneEntry, LocsComplete, TotalsConserved) holds of the ones it prints.
ClientOfLoc == L!Spec

\* Every command ends.
Ends == <>ended
=============================================================================
