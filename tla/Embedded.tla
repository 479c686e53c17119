------------------------------- MODULE Embedded -------------------------------
(***************************************************************************)
(* The scanners that embed others (html, jsp, phtml, ...): LineCounter     *)
(* with the stack of Ragel's fcall and fret, the macros saw, emb_newline,  *)
(* emb_internal_newline and check_blank_entry, the action                  *)
(* check_blank_outry, and the machines pages have for their comments and   *)
(* strings.                                                                *)
(*                                                                         *)
(* lang is the language whose scanner runs; the host is the language of    *)
(* the file.  An entry or outry is one symbol.  Ragel goes back from an    *)
(* outry to its second character, which the host then reads.  Spaces and   *)
(* newlines inside entries and outries are left out.                       *)
(***************************************************************************)
EXTENDS LineCounter

CONSTANT Hosts \* of each host: its entries and whether it is a page (see Grammars)

EntryType ==
    [open : STRING, lang : DOMAIN Scanners \ DOMAIN Hosts,
     outries : SUBSET STRING, checked : SUBSET STRING, coded : SUBSET STRING,
     alone : SUBSET STRING, inside : BOOLEAN, own : BOOLEAN]
\* The comments and strings of a page are no regions, and no host has to do
\* with limbo, whose scanner alone commits what it has not enqueued.
ASSUME HostsAssumption ==
    /\ DOMAIN Hosts \subseteq DOMAIN Scanners
    /\ \A h \in DOMAIN Hosts :
        /\ Hosts[h].entries \subseteq EntryType
        /\ \A e \in Hosts[h].entries : "nl" \notin {e.open} \cup e.outries
        /\ Hosts[h].page \in BOOLEAN
        /\ Hosts[h].page => Scanners[h] = {}
        /\ \A l \in {h} \cup {e.lang : e \in Hosts[h].entries} :
              \A r \in Scanners[l] : r.commit => r.enqueue

VARIABLES
    stack, \* Ragel's stack: the hosts to return to
    seen,  \* the embedded language seen on the line, or NoLanguage
    page,  \* the comment or string of a page that the host is in
    langs, \* the languages of the reports in count.out
    by     \* history: the languages each symbol was last read in

embVars == <<stack, seen, page, langs, by>>
allVars == <<vars, embVars>>

NoLanguage == "none"
\* seen is the name of a language, or 0.
ASSUME NoLanguageAssumption == NoLanguage \notin DOMAIN Scanners

\* open is the delimiter of the comment or string.  tagged: a '<' was read in
\* it, from which on '<' !'%' matches whatever else does not.
NoPage == [open |-> "none", tagged |-> FALSE, escaped |-> FALSE, leaving |-> FALSE]

Host == IF stack = <<>> THEN lang ELSE stack[Len(stack)]
Entries == Hosts[Host].entries
Embedding == lang \notin DOMAIN Hosts
InHost == pc = "scan" /\ ~Embedding

\* The line scanner of the host, or an embedded one.
Scanning == pc = "scan" /\ (Embedding \/ page = NoPage)

PageOpeners == IF Hosts[Host].page THEN {"<!--", "'", "\""} ELSE {}
Outries == UNION {e.outries : e \in {f \in Entries : f.lang = lang}}

\* The symbols that make another machine go on.
Switches ==
    IF Embedding THEN Outries ELSE {e.open : e \in Entries} \cup PageOpeners

\* History: what was read in this step was read in the languages ls, and what
\* was reported was reported in language l.
Recorded(ls, l) ==
    /\ by' = [i \in DOMAIN by |-> IF p < i /\ i <= p' THEN ls ELSE by[i]]
    /\ langs' = langs \o [n \in 1 .. Len(count'.out) - Len(count.out) |-> l]

EmbInit ==
    /\ Init /\ lang \in DOMAIN Hosts
    /\ stack = <<>> /\ seen = NoLanguage /\ page = NoPage
    /\ langs = <<>> /\ by = [i \in 1 .. pe |-> {}]

\* A token or a symbol that is read as in a scanner on its own.
Scan ==
    /\ Scanning
    /\ region = NoRegion /\ p < pe => At(p) \notin Switches
    /\ \/ Spaces \/ AnyChar \/ OpenRegion \/ ReadRegion
       \/ CloseRegion \/ EndLineComment \/ Backtrack
    /\ Recorded({lang}, lang)
    /\ UNCHANGED <<stack, seen, page>>

\* The language emb_newline and emb_internal_newline report in.
SeenOr(l) == IF seen # NoLanguage THEN seen ELSE l

\* EndLine, were seen never reset.
EndLineKeepsSeen ==
    /\ Scanning /\ Newline
    /\ Recorded({lang}, IF ~Embedding /\ Hosts[Host].page THEN SeenOr(lang) ELSE lang)
    /\ UNCHANGED <<stack, seen, page>>

\* The embedded languages, and hosts like html, end lines with std_newline.
EndLine ==
    /\ Scanning /\ Newline
    /\ IF ~Embedding /\ Hosts[Host].page
       THEN Recorded({lang}, SeenOr(lang)) /\ seen' = NoLanguage
       ELSE Recorded({lang}, lang) /\ UNCHANGED seen
    /\ UNCHANGED <<stack, page>>

\* saw: the line so far counts for nothing.
Saw(c) == [c EXCEPT !.line.code = FALSE, !.line.comment = FALSE]

\* Call, were it a jump.
CallKeepsStack(e) == stack' = stack /\ lang' = e.lang /\ seen' = e.lang

\* Ragel's fcall, and seen of the macro saw.
Call(e) == stack' = Append(stack, lang) /\ lang' = e.lang /\ seen' = e.lang

\* is_blank_entry: the newline at from, if only blanks are in front of it.
NewlineBehind(from) ==
    {n \in from .. pe - 1 : /\ At(n) = "nl"
                            /\ \A i \in from .. n - 1 : At(i) = "ws"}

\* check_blank_entry, were the line not ended.
CheckBlankEntryKeepsLine(c, n) == Code(c, p)
\* check_blank_entry, where the rest of the line up to the newline n is blank.
CheckBlankEntry(c, n) == StdNewline(Code(c, p), p, n + 1)

\* An entry; a line that ends with it is the host's.
Enter ==
    /\ InHost /\ Scanning /\ Outside /\ p < pe
    /\ \E e \in Entries :
         /\ At(p) = e.open
         /\ Call(e)
         /\ \/ /\ NewlineBehind(p + 1) = {}
               /\ count' = Saw(Code(count, p)) /\ p' = p + 1
            \/ \E n \in NewlineBehind(p + 1) :
                 count' = Saw(CheckBlankEntry(count, n)) /\ p' = n + 1
         /\ Recorded({lang, e.lang}, IF e.own THEN e.lang ELSE lang)
    /\ ts' = p
    /\ UNCHANGED <<text, file, pc, region, escaped, nest, leaving, entity, page>>

\* What a character makes of a line in the host's present machine.
HostMark(c, from) ==
    CASE page = NoPage -> Code(Dequeue(c), from)
      [] page.open = "<!--" -> Comment(c, from)
      [] page.open \in {"'", "\""} -> Code(c, from)
\* In the comments and strings of pages ts stays that of the last token, the
\* delimiter that began them or an outry.
PageMark(c) == HostMark(c, ts)

\* check_blank_outry, were a comment on the line nothing.
BlankOutryIgnoresComments == ~count.line.code
\* check_blank_outry
BlankOutry == ~count.line.code /\ ~count.line.comment

\* An outry: p = ts; fret.  The host goes on with its second character.
Outry ==
    /\ Embedding /\ Outside /\ p < pe
    /\ \E e \in Entries :
         /\ e.lang = lang /\ At(p) \in e.outries
         /\ seen' = IF At(p) \in e.checked /\ BlankOutry THEN NoLanguage ELSE seen
         /\ LET c == IF At(p) \in e.coded THEN Code(count, p) ELSE count
            IN  count' = IF At(p) \in e.alone THEN c ELSE HostMark(c, p)
    /\ lang' = Host /\ stack' = SubSeq(stack, 1, Len(stack) - 1)
    /\ ts' = p /\ p' = p + 1
    /\ Recorded({lang, Host}, lang)
    /\ UNCHANGED <<text, file, pc, region, escaped, nest, leaving, entity, page>>

-----------------------------------------------------------------------------
(* The comments and strings of pages, which are no tokens: there is no     *)
(* going back, and what they cannot go on with stops the scanner.          *)

OpenPage ==
    /\ InHost /\ Scanning /\ Outside /\ p < pe /\ At(p) \in PageOpeners
    /\ page' = [NoPage EXCEPT !.open = At(p)]
    /\ count' = IF At(p) = "<!--" THEN Comment(count, p) ELSE Code(count, p)
    /\ ts' = p /\ p' = p + 1
    /\ Recorded({lang}, lang)
    /\ UNCHANGED <<lang, text, file, pc, region, escaped, nest, leaving,
                   entity, stack, seen>>

InPage == InHost /\ page # NoPage
PageClose == IF page.open = "<!--" THEN "-->" ELSE page.open

\* emb_internal_newline, the leaving action of a newline.
PageLeave(c) == IF page.leaving THEN InternalNewline(c, p) ELSE c
SeenLeft == IF page.leaving THEN NoLanguage ELSE seen

\* '<' and what begins with it; a backslash in front of it makes it a
\* character like others, unless a tag was read already.
Tags == {"<", "<!--", "</style>", "</script>"} \cup {e.open : e \in Entries}
Escaped == page.escaped /\ ~page.tagged

PageStep(c, next) ==
    /\ count' = c /\ page' = next /\ p' = p + 1
    /\ UNCHANGED <<text, file, pc, ts, region, escaped, nest, leaving, entity>>

\* After an escape, and of a tag all but the '<', are marked.
ReadPage ==
    LET s == At(p)
        string == page.open # "<!--"
        mark == \/ page.escaped
                \/ /\ s \notin {"nl", "ws", "<"}
                   /\ s = "bs" => ~string
                   /\ s = "-" => string
    IN  /\ InPage /\ p < pe
        /\ s # PageClose \/ Escaped
        /\ s \notin {e.open : e \in {f \in Entries : f.inside}} \/ Escaped
        /\ ~page.tagged => s # "-" \/ string
        /\ s = "nl" => ~Escaped
        /\ PageStep(IF mark /\ s # "nl" THEN PageMark(PageLeave(count))
                    ELSE PageLeave(count),
                    [page EXCEPT !.tagged = @ \/ (s \in Tags /\ ~Escaped),
                                 !.escaped = (s = "bs" /\ string /\ ~Escaped),
                                 !.leaving = (s = "nl")])
        /\ seen' = SeenLeft
        /\ Recorded({lang}, SeenOr(lang))
        /\ UNCHANGED <<lang, stack>>

ClosePage ==
    /\ InPage /\ p < pe /\ At(p) = PageClose /\ ~Escaped
    /\ PageStep(IF page.open = "<!--" \/ page.escaped
                THEN PageMark(PageLeave(count)) ELSE PageLeave(count), NoPage)
    /\ seen' = SeenLeft
    /\ Recorded({lang}, SeenOr(lang))
    /\ UNCHANGED <<lang, stack>>

\* An entry inside, which is not checked for being blank.
EnterFromPage ==
    /\ InPage /\ p < pe /\ ~Escaped
    /\ \E e \in Entries :
         /\ e.inside /\ At(p) = e.open
         /\ Call(e)
         /\ PageStep(Saw(PageMark(PageLeave(count))),
                     [page EXCEPT !.tagged = TRUE, !.escaped = FALSE,
                                  !.leaving = FALSE])
         /\ Recorded({lang, e.lang}, SeenOr(lang))

\* A '-' that does not begin the end of the comment, or a newline behind a
\* backslash: the scanner stops, and the rest of the file is not read.
StopInPage ==
    /\ InPage /\ p < pe
    /\ \/ At(p) = "-" /\ page.open = "<!--" /\ ~page.tagged
       \/ At(p) = "nl" /\ Escaped
    /\ count' = LastLine(PageLeave(count))
    /\ pc' = "parsed"
    /\ langs' = langs \o [n \in 1 .. Len(count'.out) - Len(count.out) |->
                            IF page.leaving /\ n = 1 THEN SeenOr(lang) ELSE lang]
    /\ seen' = SeenLeft
    /\ UNCHANGED <<lang, text, file, p, ts, region, escaped, nest, leaving,
                   entity, stack, page, by>>

-----------------------------------------------------------------------------

\* process_last_line reports in the host's language, wherever the text ends.
EmbEndOfText ==
    /\ Scanning \/ p = pe
    /\ EndOfText
    /\ Recorded({}, Host)
    /\ UNCHANGED <<stack, seen, page>>

\* The next file: init resets seen, Ragel its state and stack.
EmbNextFile ==
    /\ NextFile /\ lang' \in DOMAIN Hosts
    /\ stack' = <<>> /\ seen' = NoLanguage /\ page' = NoPage
    /\ langs' = <<>> /\ by' = [i \in 1 .. Len(text') |-> {}]

EmbNext ==
    \/ Scan \/ EndLine \/ Enter \/ Outry
    \/ OpenPage \/ ReadPage \/ ClosePage \/ EnterFromPage \/ StopInPage
    \/ EmbEndOfText \/ EmbNextFile

EmbSpec == EmbInit /\ [][EmbNext]_allVars /\ WF_allVars(EmbNext)

-----------------------------------------------------------------------------
(* Properties.                                                             *)

\* What calls returns: of the five places of Ragel's stack, which nothing
\* checks, one is used, and only while an embedded language is read.
StackBounded == Len(stack) = IF Embedding THEN 1 ELSE 0

\* A line that a newline ends is reported in a language that something on it
\* was read in: what was seen on an earlier line, or in an earlier file, is
\* forgotten.  (A last line that no newline ends is always the host's.  Going
\* back, a scanner may later read the line again and in another language, and
\* report it again.)
Ended == {k \in Lines : count.out[k].e <= p /\ text[count.out[k].e] = "nl"}
OnLine(k) ==
    LET e == count.out[k].e
    IN  \E i \in LineOf(e) \cup (count.out[k].s + 1 .. e) :
            i > 0 /\ langs[k] \in by[i]
LanguageOnLine ==
    [][\A k \in Ended' : k > Len(count.out) => OnLine(k)']_allVars

\* What was read in a region marks the line it ends on, and what is gone back to
\* marks the line again: a closing quote that marks nothing would leave the last
\* line of a string without a mark, and so would an opening one of one character
\* that is left from inside (see RestOfDelimiter).
Telling(r) ==
    /\ r.mark # "none" \/ r.last # "none"
    /\ r.enqueue => r.commit /\ r.close # "eol"
    /\ r.newline # {} => \/ r.close = "eol" /\ r.inner # "none" /\ r.blank = "none"
                         \/ r.close # "eol" /\ r.last # "none" /\ r.long
Untold == {r \in UNION {Scanners[e.lang] : e \in Entries} : ~Telling(r)}

\* A page whose entries and outries are all as src/parser.h:207-244 wants them,
\* and a text without comments and strings of the page and without regions that
\* are not telling.
Straight ==
    /\ Hosts[Host].page
    /\ \A e \in Entries : e.outries = e.checked /\ ~e.own
    /\ \A i \in 1 .. pe : text[i] \notin PageOpeners \cup {r.open : r \in Untold}

\* The entries and outries on a line, the languages of what else is on it, and
\* whether nothing but the host is in front of any entry.
Doors(line) ==
    {i \in line : text[i] # "nl" /\ Host \in by[i] /\ by[i] # {Host}}
Own(line) ==
    UNION {by[i] : i \in {n \in line \ Doors(line) : text[n] \notin {"ws", "nl"}}}
OneEntry(line) ==
    \A i \in Doors(line), n \in line :
        text[i] \in {e.open : e \in Entries} /\ n < i => by[n] = {Host}

\* There, a line is counted as one of a language that something on it is in,
\* and as one of the host if it only has entries or outries on it.  If there are
\* several entries on a line, the last one alone decides.
InItsLanguage(line, l) ==
    OneEntry(line) =>
        IF Own(line) = {} THEN Doors(line) # {} => l = Host ELSE l \in Own(line)
LineInItsLanguage ==
    [][Straight => \A k \in Ended' : k > Len(count.out) =>
         InItsLanguage(LineOf(count.out[k].e), langs[k])']_allVars

\* Where what goes back is code of the host, every report is of a part of the
\* text: no line is reported while line_start is NULL.
EmbReportsInText ==
    (\A e \in Entries : e.outries = e.coded) =>
        \A k \in Lines :
            LET line == count.out[k]
            IN  0 <= line.s /\ line.s < line.e /\ line.e <= pe

\* In a page none of whose languages enqueues lines, no newline is left out of
\* the reports if it was read in a language that notices every newline, unless
\* the text ends right behind it in a comment or string of the page.
Languages == {Host} \cup {e.lang : e \in Entries}
Notices(l) == \A r \in Scanners[l] : "raw" \notin r.newline
EmbNoLineLost ==
    pc = "parsed" /\ ~page.leaving
        /\ (\A l \in Languages : \A r \in Scanners[l] : ~r.enqueue) =>
    \A i \in 0 .. p - 1 :
        At(i) = "nl" /\ (\A l \in by[i + 1] : Notices(l)) =>
            \E k \in Lines : Covers(k, i)

\* Every file is read to its end or to where a comment stops the scanner,
\* however often scanners go back, call and return.
EmbTerminates == <>(pc = "parsed" /\ file = NFiles)
=============================================================================
