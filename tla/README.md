# A verification project for ohcount

ohcount reads source files, decides in which language each one is written,
splits it line by line into code, comments and blanks (several languages in one
file where they are embedded in each other), and answers from that: line
counts, licences mentioned in comments, lines added and removed between two
revisions, and, in its Ruby layer, the platforms and tools a code base uses
("gestalts"). The program is sequential C with lazily filled caches, global
state shared by all scanners, and the file system as its environment.

Paths below are those of the repository.

## Inventory

| Component | Source | State | Operations | What makes it correct |
|---|---|---|---|---|
| Source file | `src/sourcefile.c`, `src/structs.h` | path, name, `contents`, `size`, cached language, parsed languages, licences, line counts | set/get contents, size, language, parse, lists, diff, free | every cached answer is an answer about the file; contents and size agree; a parser is never given a size without the bytes |
| Parser driver | `src/parser.c`, `src/sourcefile.c:120-210`, `src/parsed_language.c` | per-language `code` and `comments` buffers, counts | `ohcount_parse`, `parser_callback` | buffers are not overrun, a line is copied and counted or neither |
| Line counter | `src/parser_macros.h`, `src/parsers/common.rl`, `src/parsers/*.rl` | scanner position, entity, line flags, queue of delayed callbacks, stack of embedded languages | scan one token, commit a line, queue and replay callbacks | every line is reported once, with the status of the first non-blank thing on it |
| Line counts | `src/loc.c` | lists of `Loc` and `LocDelta` by language | add, merge, totals, compact | one entry per language, sums conserved |
| Diff | `src/diff.c`, `ohcount_sourcefile_calc_loc_delta` | global arrays of hashed lines, candidate chains | `ohcount_calc_diff` | counts of added and removed lines are those of a longest common subsequence |
| Licences | `src/licenses.c` | matches per table entry | `ohcount_detect_license` | maximal matches survive, the overriding licence replaces the overridden one |
| Language detection | `src/detector.c`, `src/hash/*.gperf` | none kept | by extension, mode line, file name, libmagic, disambiguators | terminates, deterministic, a binary file is never parsed |
| Embedded languages | `src/parsers/html.rl`, `jsp.rl`, `phphtml.rl` ..., `src/parser_macros.h:202-302` | Ragel's stack, `seen` | entry, outry, end of line, comments and strings of a page | a line is reported once, in the language that is on it; every call returns |
| File lists | `src/sourcefile.c:346-421` | linked list of files | add file, add directory, analyze | every regular file below a directory once, no symbolic links followed |
| Command line | `src/ohcount.c` | the command, lists of `Loc` | list the arguments, sort and print | rows and totals are those of what the files said |
| Gestalt engine | `ruby/gestalt/*.rb` | definitions left, gestalts found, counts | process a list of files, calculate to a fixed point | terminates, and what was found holds at the end |
| Bindings | `ruby/ohcount.i`, `python/*` | none | wrappers | generated glue |
| Fuzz harnesses, build scripts, hashes | `fuzz/`, `build`, `src/hash/` | none | | generated or tooling |

How they meet: the command line (or the bindings) makes a list of files and
asks each for its line counts, its language or its licences. A source file asks
the detector for its language, the detector looks into the source file's
contents, and `ohcount_parse` gives the contents to one of the scanners, which
calls back with spans of text. The callback files them by language; licences and
line counts are made from what was filed, and the diff of two files from the code
and comments filed for each. There are no threads. What makes the code hard is
the order in which its operations may come: Ragel runs actions before it knows
whether they were right and goes back; the scanner's state is global and outlives
a file; a source file keeps what it found while the file on the disk changes;
the scanners of a page call one another in the middle of a line; a directory
changes while it is walked; lists are merged into lists.

## Modules

One module per component, a module `MC...` with a small instance where the
constants need definitions, and a module `...Proofs` with its theorems. Who uses
whom:

| Module | Composed of |
|---|---|
| Licenses, Detector (over Disambiguators), Loc | |
| LineCounter, with the grammars of Grammars | |
| Embedded | extends LineCounter; Grammars has its hosts |
| SourceFile | extends ParsedLanguages and implements it |
| SourceFileDiff | extends Diff; its list is an instance of Loc |
| CommandLine | extends FileLists; its lists are an instance of Loc, which it implements |
| Gestalts | its definitions are those of GestaltDefinitions |

**Licenses** models `ohcount_detect_license`: one action per iteration of the
loop over `license_map` for the language at hand, one for going to the next
language, one per iteration of the loop that builds the list. A licence is its
index in the table. What an expression finds is any span, or none.

**LineCounter** models the machine every scanner is made of: the macros of
`parser_macros.h` (`ls`, `code`, `comment`, `std_newline`,
`std_internal_newline`, `process_last_line`, `dequeue`) and the actions of
`common.rl` (`enqueue`, `commit`) as operators on the record `count` of the
line-counting globals, and Ragel's scanner as actions: one token outside a
region (`Spaces`, `Newline`, `AnyChar`), opening a region, reading one symbol in
it, closing it, going back when it cannot end (`Backtrack`), the end of the text
and the next file of the process. **Grammars** gives 70 of the `X_line` machines
as sets of regions: delimiters, which action each part runs, whether newlines in
it are noticed, whether it nests, escapes, enqueues and commits.

The abstraction: a text is a sequence of symbols, one for each delimiter however
many characters it has, so a position inside a delimiter is rounded to it, and
delimiters do not overlap. To see that this does not change what is reported, the
model's reports were compared with those of the compiled scanners on all short
texts of each grammar's symbols.

**Embedded** adds what the scanners of pages do: an entry (`Enter`, with `saw`,
`fcall` and `check_blank_entry`, which may take the rest of the line with it), an
outry (`Outry`, `p = ts; fret`, after which the host reads on from the outry's
second character), `emb_newline` (`EndLine`), and the machines of their own that
pages read their comments and strings with (`OpenPage`, `ReadPage`, `ClosePage`,
`EnterFromPage`, `StopInPage`). These are no tokens: Ragel's `ts`, which only the
start of a scanner clears, stays that of the delimiter or the outry in front of
them, there is no going back, and what they cannot go on with stops the scanner.
The hosts are html, mxml, metapost with tex, jsp, rhtml, clearsilver in html,
php in html, and the two kinds of aspx; an entry or an outry is one symbol. Its
variables `langs` and `by` are history: the language of each report, and the
languages each symbol was read in.

**Loc** models `loc.c`: lists of `Loc` and of `LocDelta`, adding a count, adding
a list to a list (one action per item, so that an invariant sees the list in
between), compact forms, look-up by language and sums.

**ParsedLanguages** models `parser_callback` and the buffers of
`parsed_language.c` for a parser that may report any spans in any languages.
**SourceFile** extends it with the rest of a `SourceFile`: an operation is a
series of steps (`pc`): the language, the detector's looks into the contents,
libmagic's look at the disk, the parser and its buffer, the reports, freeing the
contents, the answer. Between any two of them another program may write the file
(`WriteDisk`). `disk` is what lies where the contents are read from; the
variables `detectedIn`, `parsedFrom`, `replaced`, `told` and `seen` are history
that only properties read.

**Diff** models `ohcount_calc_diff`: dropping empty lines and hashing
(`Prepare`), `Prune`, a step for each turn of both loops of `stone`, `Unravel`, a
step for each turn of the loop of `output`. Shell sort and the merging of classes
are modelled by what they are for, the list of a line's mates in the other file.
For large buffers the answer of the external program `diff` is any that some
common subsequence explains. **SourceFileDiff** is `ohcount_sourcefile_diff`: its
two loops over the languages of the files, `calc_loc_delta` with a call of Diff
for the code and one for the comments, on the globals the call before left, and
the list of `LocDelta` they are added to with Loc's own operation.

**Detector** models `ohcount_detect_language` and `disambiguate_in`: an action
for each stage (extension, mode line, file name, libmagic), one for looking into
the contents, one for beginning anew with the name without `.in`. The six
disambiguators that read line by line (basic, fortran, fs, h, m, st) are a loop of
steps, with the code's variables: `TakeLine` copies a line, `LookAtLine` leaves `p`
and `pe` in the copy (0) and adds to the scores and flags or answers, `NextLine`
takes `pe` back to `line_end` and past the line ends, `EndLines` weighs what was
kept. The tables of `src/hash` are constants, and libmagic may say anything of a
given set. **Disambiguators** has what a line says, and those of the nineteen other
`disambiguate_X` functions that look at the whole text, as operators on texts of
symbols: the words and marks a function looks for, one blank, one end of a line.
Where several words are treated alike (`class`, `namespace`, `template`,
`typename`) one stands for them. The expressions of `disambiguate_pp` match across
lines, since `\s` stands for a line's end too, so `Puppet` goes from part to part of
a construct (`PuppetAt`). How far the code looks is a constant, counted in symbols
where the code counts bytes: 81 of a line (`Buffer`; fs and fortran read the line
where it is), 100 for the shebang of Perl (`ShebangWithin`), 10000 for constructs of
Puppet (`PuppetWithin`). With the code's limits, the answers were compared with
those of the compiled functions for some 95000 texts built of their symbols, without
a difference. Left out are quotes around the name of a Puppet node, and that the 0
behind a full buffer is written one byte past it.

**FileLists** models the arguments of `main` and the walk of
`ohcount_sourcefile_list_add_directory`: `opendir`, `readdir`, `lstat` and the
call of itself are steps of their own, and between them another program may add
to the tree, take away from it, or put a link where a directory was (`Change`).
What `readdir` says of an entry that came or went since `opendir` is open, and so
is what `st` holds where `lstat` failed. **CommandLine** goes on from the list:
`main` gives it to one command, which reads each file when it comes to it, adds
its languages to a list of Loc (`CountLanguage`), that list to the sum
(`AnalyzeFile` and Loc's loop), and sorts and prints.

**Gestalts** models `GestaltEngine`: counting file after file, then asking one
definition after another, round after round. A definition is data:
**GestaltDefinitions** has all of them, in the order in which `gestalt.rb`
requires their files, with what their file rules look for named and left to the
instance. File rules any of which is enough are one. The names and counts a
trigger may carry are left out: no definition gives any but its own (those with
`find_filenames` have it inside `_and`, which drops them).

## Runs

| Run | Instance | What it shows |
|---|---|---|
| `licenses` | 3 licences with a chain of overrides, 2 languages, all spans of a text of 2 characters | `MaximalSurvive`: in each language a match inside another is dropped whichever of them comes first in the table, and nothing else is. `ListIsSpecific`, `SomethingReported`: overriding leaves the most specific licence of a chain, never nothing |
| `licenses_file` | two licences, two languages | violation of `AnyLanguageReported`: the matches of a language are reset when the next is searched (finding) |
| `lines` | 69 scanners, all texts of up to 3 symbols, 4 for one region, 5 and 6 for five of them; for Ruby a second file in the same process | `ReportsInText` for all of them, `NoLineLost` for those that enqueue all of the lines that end in regions or none, `ConformingLines` (lines as `parser.h` promises) for those whose actions leave no part of a region out and call none what it is not, `InOrder` for those that enqueue, `OwnReports`: the globals of the first file never show in the reports of the second; `Terminates` |
| `lines_lost` | PHP | violation of `EveryLineReported`: the lines of a block comment behind a quote that never ends are lost (finding) |
| `embedded` | nine hosts and the ten languages they embed, all texts of up to 3 of the symbols of both, up to 4 of those of its entries and outries with one comment or string of the host or the embedded language, up to 5 for jsp; a second file behind a jsp page | `StackBounded`; `EmbReportsInText`: reports are of parts of the text; `EmbNoLineLost`: every line is reported, in pages that enqueue none; `LanguageOnLine`: in a language that is on it, none seen on an earlier line; `LineInItsLanguage`: in jsp, rhtml and cshtml, outside of strings and the page's comments, a line is reported in the language of what is on it, one with nothing but entries and outries in the host's; `EmbTerminates` |
| `loc` | 3 languages, two lists, 5 operations, both kinds of list | `OneEntry`, `LocsComplete`, `TotalsConserved` |
| `loc_delta` | the same | violation of `DeltasComplete`: the second language of a list is added twice (finding) |
| `sourcefile` | a file that is missing, empty, or one of two versions in two languages; two reports | `NoOverrun`, `AllCounted`, `ParserGivenTheFile`, `SizeAgrees`, `OneVersion`, `AnswersAgree`, for every order of operations and writes |
| `diff` | all pairs of buffers of up to 4 lines of three kinds or 5 of two, empty lines among up to 3, one large buffer, each as the code of a language whose comments are compared next; all pairs of files with up to two languages in either order | `KCandidates`: what the comment in `diff.c` says about candidates, after every line; `LeastChange`: the counts are those of a longest common subsequence; `DeltaOfFiles`: each language of either file has one item, in the order in which they first come, whose numbers make up the difference of its code, comments and blanks; `Terminates` |
| `detector` | for each shared extension all short texts of what its disambiguator looks for, as `foo.e` and `foo.e.IN.in`; beginnings of files with `#!`, mode lines and answers of libmagic | `UndecoratedAgrees`: with any number of `.in` the language is that of the plain name; `LinesSoFar`: before every line, the scores, flags and places that are kept from line to line are those of the lines read, each once; `EmptyLinesIrrelevant`: empty lines at the ends change no answer, except where the property says so |
| `gestalts` | all definitions, every list of up to three of eleven kinds of files | `Closed`: at the end no definition left would give a gestalt; `Supported`: every gestalt found holds when all are known, though one rule has `_not`; `GTerminates` |
| `commandline` | a tree with a hidden file, a hidden directory, a directory in a directory and a link; four argument lists; one change by another program anywhere in between; three languages | `StayedListedOnce`: files left alone are listed once for each argument they are under, whatever becomes of their neighbours; `ListedRightly`: nothing but files is listed, and no link is followed; `SummaryOfFiles`, `RowsOfFiles`: what is printed is what the files said when they were read, sorted and summed; `ClientOfLoc`: summary is a client of Loc; `Ends` |

Type invariants are not among the runs' properties: those of Licenses,
LineCounter, Loc, SourceFile, Gestalts and FileLists are proved instead.

Why the bounds are enough. A scanner keeps of the text behind it one region, two
flags, a line start, a copy of these and a queue: three symbols open a region,
go on in it and end the text inside or outside it, and the longer texts of
`lines` add what one region can do across two lines and with escapes and nesting.
Only Ruby's scanner, of those in the run, can leave a queue behind that its next
file might see before filling its own. In `embedded` a line with an entry, what
is in it, an outry and a newline takes four symbols; a fifth, for the host that
has everything the documentation asks of one, is what is in front of it or on the
next line. Three languages in a list are one more than its
head and its tail. Two reports of the whole of a five-byte text are what it takes
to reach the last spare byte of a buffer, and two versions and an empty file are
one more than the operations can mix up. Two lines with two mates each are what
makes Stone's algorithm replace candidates it still needs; five lines hold that
behind a common beginning. Two languages in two files are in both, or in one, and
in the first or the second place of a list, which is all its head and the second
loop of the diff tell apart.
In `detector`, column 2 and 4 stand for 5 and 72 (`Label`, `Width`), so that a
label field, a statement and what is behind it fit in six symbols; buffers hold 5,
Perl's shebang is looked for in 3 and Puppet in 7 (`Buffer`, `ShebangWithin`,
`PuppetWithin`), and there are longer lines and texts; a line of one
or two marks before and behind another is what it takes to mix up flags and
places. In `gestalts` the definitions are all there, and the longest chain among
them, from java's share over `ejb3.1` to `ejb3+` and what denies `ejb3.0`, is
two kinds of files; a third changes the shares or adds another platform. In
`commandline` a single change between any two steps is every race of the walk
with one other program; the languages of the two files overlap in one, so that a
sum has a language of one file, of the other, and of both, and sorting takes two
swaps.

Deadlock is not checked: each of these programs ends, or waits for a call.

Fairness. `LineCounter`, `Embedded`, `Diff`, `SourceFileDiff`, `Detector` and
`Gestalts` assume weak fairness of their next-state relation and nothing else: the
code is sequential and does not wait, so a step that can be taken is taken.
`FileLists` and `CommandLine` assume it of the program's own steps (`ListStep`,
`CLStep`) and not of `Change`, the other programs' steps, which never need come.
The other modules have no liveness property.

## Refinement

`SourceFileProofs!ParsesAsSpecified`: SourceFile implements ParsedLanguages, so
the theorems about buffers hold for the parse of any source file.
`CommandLine!ClientOfLoc`: CommandLine implements Loc, by the instance `L` that
maps Loc's lists to the files' lists and, as list 0, the sum; the run checks it
and `SummaryIsClient` proves it, so what is shown of Loc's lists (`OneEntry`,
`LocsComplete`, `TotalsConserved`) holds of the lists the program prints.
`SourceFileDiff` likewise takes its list's step from an instance of Loc.

## Proofs

TLAPS proves for every value of the constants:

- `LicensesProofs`: `TypeCorrect`; `MaximalSurviveAlways`. Elimination compares a
  match only with those that survived so far, so the property is not inductive.
  `SiftInv` adds that a licence dropped so far lies inside one that survives, by
  which a later match inside the dropped one is inside the survivor too.
  `ListIsSpecificAlways`, with what the list's loop has done so far;
  `SomethingReportedAlways`: as the overrides of the table have no circle
  (`OverridesAssumption`), among the licences found there is one of least rank, which
  nothing overrides.
- `EmbeddedProofs`, of LineCounter: `TypeCorrect`; `QueuedInOrder`, the reports of scanners
  that enqueue come in the order of the text, each place once. The invariant says
  where the queue's spans and the line under way lie: behind the last report, and
  in front of the position the scanner may go back to. `ReportsAlwaysInText` and
  `ReportsAlwaysOwn`, for scanners of every kind: `TextInv` says of the queue,
  while it is in use, what the properties say of the reports, and that the line
  under way and its copy begin in the text; where the text ends they need not,
  but then the line is empty and is not reported. `NoLineEverLost`: where a scanner
  commits what it enqueues and enqueues all or none of the lines that end in regions
  (`Recoverable`; `lines_lost` shows the need), no newline is left out of the reports.
  `AccountInv` accounts for each newline in front of the position, as reported, in
  the queue, in the line under way, or just being left, and, since a region may turn
  out not to end, for those in front of its beginning without the region's queue and
  line. They assume of the grammar that the opening delimiter of a region that may
  hold newlines marks its line, that a newline read like any other symbol does so
  too and is in no line comment (`ScannersAssumption`).
  `ConformingLinesAlways`: a conforming scanner (`Conforms`) reports the lines of a
  well-formed text as what they are, each once. `ReadInv` runs the scanner beside
  `Reading`, the recursive reading of the text that counts nothing: where the
  scanner is and what it is in is what the reading says (`Idle`, `Inside`); each
  newline read so far is reported or in the queue, once, as what its line is
  (`Tally`); and the globals say of the line under way what was read of it
  (`Match`), except that in a region the mark may still be to come (`Flags`,
  `Pend`): at the close of a string whose opening marks nothing, or at the symbol
  after a backslash. A newline whose leaving action is due belongs to the symbols in front
  of it. What the reading says is shown from what it says one symbol earlier, with
  least elements of sets of naturals for induction. `DelimitersAssumption` says that
  no two regions of a scanner begin alike, that a delimiter is no blank and no
  newline, and that a line comment's opening marks its line; the run evaluates it for
  all 69 scanners.
- `EmbeddedProofs`, of Embedded: `StackAlwaysBounded`. That the stack is no longer than one
  is not inductive: a return must go to a scanner that may call again. `StackInv`
  adds that what is on it is a host; that hosts do not embed hosts, that a page
  has no regions beside its comments and strings, and that its languages commit only
  what they enqueue (limbo's scanner alone does not), is `HostsAssumption`.
  `PageReportsInText`, `NoPageLineLost` and `PageLanguageOnLine`, for hosts all of
  whose outries run `code` (`AllCoded`: all but phtml, whose premature outry is
  described below). What is shown of LineCounter's actions holds of them in a page too; `PageInv` adds that in a comment or string of the page, where `ts` is
  that of an earlier token, the line has begun, so that nothing takes that for its
  beginning. It is
  an outry's `code` that makes this so when an entry in a comment is returned from
  to a new line. `PlainInv` is the account of newlines again, with those whose
  leaving action a call, a return or the end of a page's comment must run. `HistInv`
  relates the history of what was read in which language to what will be reported:
  what is enqueued, and the newline being left, were read in the language that
  reports them, `seen` was read on the line under way, and a scanner that goes back
  reports nothing, since its line then begins behind the place it goes back to.
  `PageLineInItsLanguage` is the other direction: what is on a line shows in its
  language. `check_blank_outry` asks the line's two flags for that, and `TellInv` is
  about them: in an embedded language they are set if and only if something of it
  was read on the line (`FlagsTell`); in the host `seen` says so (`HostSays`); and the
  newlines of a region, those enqueued and the one being left, end lines that its
  language is right for (`RegionTells`). Going back to what the line was before a region is where
  it is close: the flags go back too, and of the opening delimiter only what the
  scanner reads again sets them. So every region must mark what it ends with, and
  one that is left at a newline must open with more than one character or end there
  (`Telling`). Without that the property is false, beyond the run's bounds: the
  attempt at a proof found the text in "In pages" below. Of the hosts' regions
  outside strings only ruby's backquote is not `Telling`.
- `LocProofs`: `TypeCorrect`, `OneEntryAlways`, `LocsCompleteAlways` for lists of
  `Loc`. While a list is added item by item, what a list holds and what is put
  into it differ by what the loop has still to add (`HeldNow`, with `Rest`).
  `TotalsConservedAlways`, for lists of both kinds: the sums are folds, which the
  proof replaces by partial sums (`SumOf`, existence and uniqueness by least
  counterexamples in place of induction) and compares item by item with sums over
  the languages. A list of `LocDelta` may repeat a language, so there the invariant
  is about sums alone (`SumsNow`): a list's sum and that of what the loop has still
  to read make up what was put into it. For lists of `Loc` a compact form drops an
  item's files with it, and `LocsComplete` is needed. The languages are assumed
  to be finitely many.
- `SourceFileProofs`, about ParsedLanguages: `BuffersHold` and
  `NoLineTurnedAway`. Reports in order leave no buffer fuller than the end of the
  last of them (`FilledUpTo`), so the next always fits. About SourceFile:
  `ParsesAsSpecified`, it implements ParsedLanguages; `SFTypeCorrect`,
  `GivenTheFile`, `SizeAlwaysAgrees`, `SameVersionAlways`, `AnswersAlwaysAgree`.
  `SFInv` adds where an operation can be and what it has found by then
  (`Control`), that until the parse is done the contents are those the language
  was detected in (`SameVersion`), and that nothing is answered before
  (`NoneEarly`).
- `GestaltsProofs`, for any definitions and files: `GTypeCorrect`; `FoundOnceAlways`,
  from which the number of rounds is at most one more than that of definitions;
  `ClosedAlways`, by `RoundInv`, that in a round that has given nothing so far all
  that were asked give nothing still; `SupportedIfOrdered`, for definitions with
  or without not rules, that everything found holds at the end, from one
  hypothesis, `Ordered(S)`: whatever a definition denies is given, if at all, by
  definitions of `S` asked before it, and whatever those ask for by others of `S`
  asked before them. Then by `DecidedInv` all of `S` is decided after its turn in
  the first round, so nothing found later is denied by what was found before
  (`NothingDecided`, `TriggersGrows`, `HoldsInv`). It is what java_definitions.rb:81
  means by "do not reorder": the code's definitions satisfy it, with `java` and
  `ejb3.1` for `S`, and no longer do when those of EJB change places, which the
  run checks with `EjbIsOrdered`.
- `CommandLineProofs`, of the walk alone, for any tree, arguments and changes:
  `ListTypeCorrect`,
  `ListedRightlyAlways`. `RightInv` adds that whatever is a file now is known to
  have been one, and that none of the directories being walked was come to by a
  link. `StayedListedOnceAlways`: by `StayInv`, a file that has stayed one, under
  directories that have, is listed as often as arguments begun so far are above it,
  less one where it is still due; and it is due in exactly one place, the entries
  still unread of one directory under way or the entry being looked at. They assume
  that entries of a tree are in directories of it, and that what is between two
  paths is a path (`FileListsAssumption`).
  Of the program: `ProgramListsRightly` and `ProgramListsOnce` (the program's
  walk is that of FileLists) and `SummaryIsClient`, the refinement above; its invariant says that
  the list is done, and no longer than there are lists of Loc, when a command
  has it. What summary and individual say needs more. `CountingInv`: of the file a
  command is at the first languages are in its list of Loc, one for each item, the
  lists of those behind are empty, and an operation on lists under way is one that
  adds the file's list to the sum. `RowsOfFilesAlways`: the rows of the files before
  the current one are a division of the output (`Divided`). `SummaryOfFilesAlways`:
  what was put into the sum for a language is what the files before the current
  one said of it (`Summed`), and the sum has a row for just the languages it met
  (`RowsMet`); that the rows have the numbers put in is what `LocProofs` proves of every
  client of Loc, and SameSpec says that this is one (`HeldAlways`). `SumOf` adds in
  whatever order CHOOSE takes the files, so `SumOfFiles` shows that it is the sum
  from the first file to the last (`TakenIsSum`); `SameRows`, that the totals do not
  depend on the order of the rows. That the rows printed are those of the list
  is a lemma about the selection sort (`SortedByLanguage`, `SortedByCode`): of rows
  with a language each it makes the same rows, in order. The sort is a
  fold, which `StepsExist` and `OverExists` give a value for each number of steps, by
  induction over a set of naturals. `CommandLineAssumption` says that the alphabet is a
  sequence of names, that a file has each language once (`parsed_language_list` has:
  parser_callback, sourcefile.c:153, looks a language up before it adds one), and that the
  switches of main are different.
- `DiffProofs`, for files of any lines and length, and any hash: `KCandidatesAlways`,
  `LeastChangeAlways`, `DeltaOfFilesAlways`. `Best` is the table of the lengths of the
  longest common subsequences of all beginnings, which `Longest` is shown to be found
  in (`LongestIs`); that a recursive function has a value at all is shown by least
  elements. That the common beginning and end belong to a longest subsequence
  (`PrunedLongest`) leaves the middle. What the comment in diff.c says of klist after a line
  is not inductive: within a line klist stands for a row that is the new one up to the
  mates tried, and from there on the old one or what the mates tried made of it
  (`Merged`). `Thresholds` says that the candidates end where that row grows, so the
  binary search finds a mate's length; `Replaced` what `oldc` and `oldl` are for: where
  this line has replaced a candidate, the one that was there before is what the next
  mate is chained to, and mates in front of `oldc` need no look. `Candidates` says that
  a candidate is one longer than the one it is chained to, and further on in both
  files. So the chain of the last one is a longest common subsequence (`Linked`), and
  the match vector has one match for each of its lines, in order (`Vector`). In output,
  by `Matched`, added and removed are the lines up to the place it has come to that
  have no match, though it overwrites the match in front of that place. `DiffInv` puts
  the phases together, and says what a call may take for granted of the globals:
  nothing but that no mates are left. `SFDInv` adds what the loops over
  the languages have listed: the languages passed, each once, in order and with the
  right numbers (`PassedListed`, `ListedPassed`, `ListedInOrder`, `ItemsRight`). `FilePairsAssumption` says
  that a file has each language once, as `parser_callback` makes them.
- `DetectorProofs`: `UndecoratedAlways`, `LinesSoFarAlways`,
  `EmptyLinesNeverMatter`. `DetectorInv` says that of the name only
  extensions `in` have been taken (`NameInv`), that a stage is come to when those
  before it have said nothing of the name as it now is (`SilentInv`), and that what
  is resolved is what the first of them said (`AnswerInv`). What only the
  extension can say is `in`: that the mode line cannot, whose place is found by a
  recursive function, needs that the function has a value (`PastExists`). Of the tables
  `DetectorAssumption` says that the extension `in` stands in them in small letters
  only and gives `in`, and no mode does. `ReadingInv` is about the loop over the lines: what
  is kept before a line is what the lines behind it say (`LinesSoFar`, as the property
  states it); while `p` and `pe` are in the copy, `line_end` alone tells where in the
  text this line ends; and when it has been looked at, its own points and flags are
  added. From there the next line is the only one between that end and the place
  `NextLine` goes to (`NextStart`), so the sums grow by just that line (`SumOfNext`); that
  they do is taken from the definition of the fold, which adds in an order that
  nothing is known of (`Adds`, `AnyFirst`). An answer given early is the
  one that all lines give together (`EarlyAnswer`), since flags only grow (`MoreFlags`). `EmptyLinesNeverMatter`
  is for texts of any length, and any limits: the run shows it for a few symbols. With an
  empty line more, a text is `Alike`: each line that is not empty is there at a place of
  its own in the other, so the sums, the flags and the answers are those of the same
  lines (`AlikeTotal`, `AlikeFlags`, `AlikeAnswers`). Those that look at what is around a
  place, on another line perhaps (aspx, b, asx, dat, def, mod, pp, r), are compared place
  by place (`Around`): going from part to part of a construct of Puppet leads to the
  same places in both texts, or behind all there is in one (`Meets`), and Limbo's walk,
  which skips symbols, has a value and steps onto the same words (`ReachingExists`,
  `AroundWalk`). An empty line behind a text is looked at last, so the limit of pp does
  not matter there (`TrailingPp`); in front of it, it does.

The assumptions on constants say what kind of thing each is; those that say more
are named above; that 0 is the name of no language is `NoLanguageAssumption`. Of the
invariants and action properties of the runs that pass, all are proved. Only checked,
not proved, is what needs fairness: liveness and ENABLED are out of the prover's reach.

## Where the code and its words part

Three runs are expected to find a violation; `PROJECT.json` quotes the words
against which the code is held. Seen on the way, without a run of their own:

In the scanners

- The block comment of C and of most languages is not enqueued (`c.rl:57`): if it
  never ends, its lines are reported while it is read and again after Ragel went
  back, where `parser_macros.h:60-63` says that what may not end is enqueued.
- Leaving the queue (`parser_macros.h:107`) puts the line back to what it was in
  front of the opening delimiter. In Ruby, a quote that is not closed and ends its
  line is forgotten that way and belongs to no report, where `parser.h:174-179`
  says that enqueueing "will eliminate the potential for any counting errors".
- A closing quote runs no action (`css.rl:67`): a line with nothing else is
  blank, where `parser.h:98-99` makes it code. So for css, factor, forth,
  fortranfree, grace, jam, shell, smalltalk, sql, tcl and others;
  `ConformingLines` leaves them out. In php spaces in a string
  count as code; pascal's `(* *)` and puppet mark the inside of comments as code.
- A raw newline inside a string is not noticed by the scanners of c, d, fsharp,
  glsl, golang, groovy, modula3, rust, unrealscript: two lines are counted as one.
- A vertical tab outside regions is no token and stops a scanner (java and
  others): the rest of the file is not counted.

In pages

- A last line that no newline ends is always the host's, whatever is on it. Of
  several entries on a line the last alone decides.
- A line of ruby with nothing on it but a backquote whose string never ends has no
  mark when its outry comes (`<%`, a backquote and `%>`, and more lines of the page):
  the string's first newline leaves ruby's queue, and going back then reports an
  internal newline again in place of a mark for the backquote (`RestOfDelimiter`). So
  `check_blank_outry` takes the line for blank, and it is the host's.
  `LineInItsLanguage` is stated for texts without such regions (`Straight`).
- The local variable `seen` of jsp and phtml shadows the global one.
- `html`, `mxml` and `metapost_with_tex` end lines with `std_newline`, though
  `parser.h:215-216` says `emb_newline`; a line of an embedded language that goes
  on in the host is the host's.
- The outry `%>` of the aspx pages does not run `check_blank_outry`.
- phtml's `phtml_php_outry ${ p = ts; fret; }` leaves PHP with the first `?`,
  before the outry is whole and before its check: `$a ? $b : $c` ends PHP, and
  the second line of `<?php`, `?>` is counted as PHP, where `parser.h:226-228` and
  `240-244` want it to be the host's. As nothing marks that `?`, a newline right
  behind it, in a comment or string of the page, reports a line whose `line_start`
  is still NULL (`'`, `<?php`, newline, `?`, newline); `EmbReportsInText` leaves
  phtml out for that.
- Pages lose lines their php and ruby enqueue: a newline read in a quote that never
  ends (`<?php '/*`, and a comment of two lines), or in the page's own text behind a
  `%>` that was in such a quote (`'<%'%>`). `EmbNoLineLost` leaves pages out that embed
  a language which enqueues.
- A newline in a string of C# that an entry follows on the line (`<%'`, `'%><%`) is in
  no report: `saw` takes what was noted for the line. `Notices` leaves those out.
- A comment of jsp's Java that never ends is read over the page's `%>` and the rest of
  the file: its lines are reported as java, and again as html after going back.
- A `-` in a page's comment that does not begin its end stops the scanner. A
  blank line is lost where the text ends right behind a newline in a page's comment
  or string.

In source files, lists and diffs

- Contents set in memory are lost after a parse; later calls read the disk. A
  client's own parse after that runs over a new version with the old language.
- With a diskpath, libmagic judges the file on the disk while the parse is of the
  contents (`GetLanguageByMagic`): `OneVersion` cannot hold there.
- Adding a list of `LocDelta` to itself would not end.
- Lines are compared by their hashes alone; the comment at `diff.c:414-419` speaks of
  a check of the matches against the lines that is not there. Two different lines with
  one hash are one line to the code, and to `Hashes`.
- A line that hashes to 0 collides with the marks of `equiv`; `DiffAssumption`
  leaves it out.
- The program `diff`, asked for large buffers, sees empty lines the built-in
  comparison skips.
- Where `lstat` fails the walk looks at an uninitialized `st` and may list or walk
  what is gone (`Lstat`).
- `detect` prints every file, with `(null)` where there is no language; its help
  says "each source code file found". `help` walks the tree before it prints. In
  the row Total a file with two languages counts as two files, and a file given
  twice counts twice.

In the detector

- `disambiguate_aspx` looks at the first directive only, where its comment gives
  an expression for any. `disambiguate_b` and `disambiguate_m` look for the
  closing quote of an include from the opening one on, so the expressions in their
  comments never match. Whatever stands behind the blanks of an include that does
  not match is skipped by the next step of `disambiguate_b`, so a `return` there is
  not seen.
- `disambiguate_pp` reads 10000 bytes: a construct behind them is not found, and an
  empty line at the beginning may push the only one there.
- `disambiguate_r` and `disambiguate_rs` do not see a match that ends with the
  contents. In `disambiguate_fortran` an empty line at the beginning, or one
  shorter than the label field, makes a file free format.
- `disambiguate_h`: whether `class` at the beginning of a line counts depends on
  the byte in front of the buffer. `disambiguate_m` counts `.h` and `.cc` only for
  files that have no other name, and sees no Octave keyword at the beginning of a
  line.
- `disambiguate_in` is meant "only if the filename has an extension prior to the
  .in", but its condition holds for every name.
- `disambiguate_dat` answers `BINARY`, which nobody turns into no language; the
  tests expect it so (`test/unit/detector_test.h`).

In the gestalt engine

- `Base.find_gestalts` and `process(SourceFileList)` call
  `process_source_file_list`, which is not there. `gestalt_facts.rb` is dead code.
- The percentages of languages are kept from the first question on: a file
  processed after `calc_gestalts` would not change them. No caller does so.
- A code base of markup alone has a total of 0, and each of its languages is
  infinitely much of it: `flex` is found. One with no lines at all has NaN, of
  which nothing is found.
- `openesb` is defined twice, and found twice.

## Not modelled, and what is left

- Scanners whose tokens depend on where they stand or on what was opened:
  autoconf, bfpp, blitzmax, boo, brainfuck, chaiscript, classic_basic,
  coffeescript, coq, dcl, dylan, elm, fortranfixed, haml, haskell, julia, kotlin,
  lisp, lua, mathematica, matlab, modelica, modula2, nix, oberon, octave, perl,
  postscript, powershell, rebol, stratego, vhdl, vim; coffeescript, haml and nix
  among them embed others. Of javascript the regular expressions. They run on the
  machine that is modelled; what is missing is a form for their tokens in Grammars.
- The entity machines (`count` = 0), the formatting of what is printed, freeing
  except where a field is used after it. Counts are unbounded. What is no file and
  no directory (a FIFO, a device) says nothing in the model.
- Pure tables (`hash/`), bindings, logging and the fuzz harnesses have no
  behaviour of their own.
- A theorem that would come next: that Detector refines the constant `Answer` of SourceFile.
