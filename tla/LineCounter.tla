----------------------------- MODULE LineCounter -----------------------------
(***************************************************************************)
(* The line counting machine that every parser shares: the macros of       *)
(* src/parser_macros.h, the actions of src/parsers/common.rl, and the      *)
(* Ragel scanner "X_line" that a parsers/X.rl builds from them.            *)
(*                                                                         *)
(* A text is a sequence of symbols: "nl" (a newline of any form), "ws" (a  *)
(* space or tab), "bs" (a backslash), "vt" (what no token matches: a       *)
(* vertical tab, which is neither ws nor ^space, or a carriage return that *)
(* ends the text), "x" (any other character), and one symbol for each      *)
(* delimiter of the grammar, however many characters it has.               *)
(*                                                                         *)
(* A scanner is given by its comments and strings (regions), see module     *)
(* Grammars.  Ragel runs the actions embedded in a region while it reads    *)
(* it, before it knows whether the region ever ends.  If it does not, the   *)
(* scanner goes back to the character after the first one of the region's   *)
(* opening delimiter, which then was ordinary code.  No delimiter occurs    *)
(* inside or across others, and a position inside one is that of the        *)
(* delimiter.                                                              *)
(***************************************************************************)
EXTENDS Integers, Sequences, FiniteSets

CONSTANTS
    Scanners, \* the regions of each language's scanner
    Texts,    \* the texts that a file in each language may have
    LaterTexts, \* those of them that a file after the first may have
    NFiles    \* how many files one process parses, one after another

Marks == {"none", "code", "comment"}
RegionType ==
    [open : STRING, close : STRING, mark : Marks, inner : Marks,
     blank : Marks, last : Marks, without : SUBSET STRING, nested : BOOLEAN,
     newline : SUBSET {"internal", "escaped", "raw"}, pair : BOOLEAN,
     long : BOOLEAN, enqueue : BOOLEAN, commit : BOOLEAN]

\* The opening delimiter of a region that may end a line marks the line, and
\* so does a newline that is read like any other symbol, which none is in a
\* comment up to the end of the line.
ASSUME ScannersAssumption ==
    \A l \in DOMAIN Scanners : \A r \in Scanners[l] :
        /\ r \in RegionType /\ r.open # "nl"
        /\ r.newline # {} => r.mark # "none"
        /\ "raw" \in r.newline => r.inner # "none" /\ r.close # "eol"
\* No two regions begin alike, no delimiter is a blank or a newline, what
\* newlines a region can contain is in newline alone, and the opening delimiter
\* of a line comment marks its line.
ASSUME DelimitersAssumption ==
    \A l \in DOMAIN Scanners : \A r, q \in Scanners[l] :
        /\ r.open = q.open => r = q
        /\ {"ws", "nl"} \cap {r.open, r.close} = {} /\ "nl" \notin r.without
        /\ r.close = "eol" => r.mark # "none" /\ ~r.pair
ASSUME TextsAssumption ==
    \A l \in DOMAIN Scanners :
        /\ \A t \in Texts[l] :
              t \in Seq(STRING) /\ \A i \in DOMAIN t : t[i] # "eol"
        /\ LaterTexts[l] \subseteq Texts[l]
ASSUME NFilesAssumption == NFiles \in Nat \ {0}

VARIABLES
    lang,    \* the language and
    text,    \* the text of the file being parsed
    file,    \* how many files the process has begun
    pc,
    p, ts,   \* Ragel's position and token start, from 0 as cint counts
    region,  \* the region being read, or NoRegion
    escaped, \* the last symbol was a backslash that may escape this one
    nest,    \* nest_count: open comments inside a nested comment
    leaving, \* an internal newline was read: its leaving action is due
    entity,  \* as set by the embedded actions
    count    \* the line counting globals, see CountInit

vars == <<lang, text, file, pc, p, ts, region, escaped, nest, leaving, entity,
          count>>

NULL == -1
NoRegion == [open |-> "none"]

Grammar == Scanners[lang]
pe == Len(text)
At(i) == text[i + 1]

-----------------------------------------------------------------------------
(* The line counting globals: line_start, line_contains_code and           *)
(* whole_line_comment (line), their backups last_* (last), inqueue, the    *)
(* callback queue, and the callbacks called so far (out).                  *)

NoLine == [start |-> NULL, code |-> FALSE, comment |-> FALSE]

CountInit == [line |-> NoLine, last |-> NoLine, inqueue |-> FALSE,
              queue |-> <<>>, out |-> <<>>]

\* The init macro: it resets neither the queue nor the backups.
StartFile(c) == [c EXCEPT !.line = NoLine, !.inqueue = FALSE, !.out = <<>>]

\* The entity a line is reported as.
Kind(line) == IF line.code THEN "lcode"
              ELSE IF line.comment THEN "lcomment" ELSE "lblank"

Callback(kind, s, e) == [kind |-> kind, s |-> s, e |-> e, file |-> file]

Dequeue(c) ==
    IF c.inqueue THEN [c EXCEPT !.inqueue = FALSE, !.line = c.last] ELSE c

\* The actions ls, code and comment for a token that starts at from.
Ls(c, from) == [c EXCEPT !.line.start = IF @ = NULL THEN from ELSE @]
Code(c, from) ==
    [(IF c.line.code THEN c ELSE Ls(c, from)) EXCEPT !.line.code = TRUE]
Comment(c, from) ==
    IF c.line.code THEN c ELSE [Ls(c, from) EXCEPT !.line.comment = TRUE]

Mark(c, m, from) == CASE m = "code" -> Code(c, from)
                      [] m = "comment" -> Comment(c, from)
                      [] m = "none" -> c

EnqueueKeepsQueue(c) == [c EXCEPT !.inqueue = TRUE, !.last = c.line]
EnqueueNothing(c) == [c EXCEPT !.queue = <<>>, !.last = c.line]
\* The actions enqueue and commit.
Enqueue(c) ==
    [c EXCEPT !.inqueue = TRUE, !.queue = <<>>, !.last = c.line]
CommitDropsQueue(c) == [c EXCEPT !.queue = <<>>, !.inqueue = FALSE]

Commit(c) ==
    IF c.inqueue
    THEN [c EXCEPT !.out = @ \o c.queue, !.queue = <<>>, !.inqueue = FALSE]
    ELSE c

InternalNewlineForgetsStart(c, at) ==
    LET item == Callback(Kind(c.line), c.line.start, at)
    IN  IF at <= c.line.start THEN c
        ELSE [c EXCEPT !.line = NoLine, !.out = Append(@, item)]

InternalNewlineKeepsStatus(c, at) ==
    LET item == Callback(Kind(c.line), c.line.start, at)
        d == IF at <= c.line.start THEN c
             ELSE IF c.inqueue THEN [c EXCEPT !.queue = Append(@, item)]
             ELSE [c EXCEPT !.out = Append(@, item)]
    IN  [d EXCEPT !.line.start = at]

\* std_internal_newline, where at is the position p points to.
InternalNewline(c, at) ==
    LET item == Callback(Kind(c.line), c.line.start, at)
        d == IF at <= c.line.start THEN c
             ELSE IF c.inqueue THEN [c EXCEPT !.queue = Append(@, item)]
             ELSE [c EXCEPT !.out = Append(@, item)]
    IN  [d EXCEPT !.line = [NoLine EXCEPT !.start = at]]

StdNewlineExclusive(c, from, te) ==
    LET line == Dequeue(c).line
        s == IF Kind(line) = "lblank" THEN from ELSE line.start
    IN  [Dequeue(c) EXCEPT
            !.line = NoLine,
            !.out = IF te > line.start
                    THEN Append(@, Callback(Kind(line), s, te - 1)) ELSE @]

\* std_newline: a blank line is reported from the newline token on.
StdNewline(c, from, te) ==
    LET line == Dequeue(c).line
        s == IF Kind(line) = "lblank" THEN from ELSE line.start
    IN  [Dequeue(c) EXCEPT
            !.line = NoLine,
            !.out = IF te > line.start
                    THEN Append(@, Callback(Kind(line), s, te)) ELSE @]

\* process_last_line: it does not dequeue.
LastLine(c) ==
    IF Kind(c.line) = "lblank" THEN c
    ELSE [c EXCEPT !.out =
            Append(@, Callback(Kind(c.line), c.line.start, pe))]

-----------------------------------------------------------------------------
(* The scanner.  Each action is a token, or one symbol of a region.        *)

Init ==
    /\ lang \in DOMAIN Scanners /\ text \in Texts[lang]
    /\ file = 1 /\ pc = "scan"
    /\ p = 0 /\ ts = 0
    /\ region = NoRegion /\ escaped = FALSE /\ nest = 0 /\ leaving = FALSE
    /\ entity = "none"
    /\ count = CountInit

Outside == pc = "scan" /\ region = NoRegion
Within == pc = "scan" /\ region # NoRegion
Openers == {r.open : r \in Grammar}

Token(e, te, c) ==
    /\ ts' = p /\ p' = te /\ entity' = e /\ count' = c
    /\ UNCHANGED <<lang, text, file, pc, region, escaped, nest, leaving>>

\* spaces: the longest run of blanks is one token; its action is ls.
Spaces ==
    /\ Outside /\ p < pe /\ At(p) = "ws"
    /\ \E te \in p + 1 .. pe :
         /\ \A i \in p .. te - 1 : At(i) = "ws"
         /\ te < pe => At(te) # "ws"
         /\ Token("space", te, Ls(Dequeue(count), p))

Newline ==
    /\ Outside /\ p < pe /\ At(p) = "nl"
    /\ Token("newline", p + 1, StdNewline(count, p, p + 1))

\* ^space: one character of code.
AnyChar ==
    /\ Outside /\ p < pe
    /\ At(p) \notin {"ws", "nl", "vt"} \cup Openers
    /\ Token("any", p + 1, Code(Dequeue(count), p))

\* An opening delimiter: ^space has matched its first character, and the
\* actions of the region begin.
OpenRegion ==
    /\ Outside /\ p < pe
    /\ \E r \in Grammar :
         /\ At(p) = r.open
         /\ region' = r
         /\ count' = Mark(IF r.enqueue THEN Enqueue(count) ELSE count,
                          r.mark, p)
    /\ ts' = p /\ p' = p + 1 /\ entity' = "any" /\ nest' = 0
    /\ UNCHANGED <<lang, text, file, pc, escaped, leaving>>

\* What symbol s is to region r, when the symbol before it was (esc) or was
\* not a backslash, and n inner comments are open: "stop" is one the region
\* cannot go on with.
NewlineRole(r, esc) ==
    IF esc /\ "escaped" \in r.newline THEN "newline"
    ELSE IF esc /\ r.pair THEN "stop"
    ELSE IF "internal" \in r.newline THEN "newline"
    ELSE IF "raw" \in r.newline THEN "inner" ELSE "stop"

Role(r, esc, n, s) ==
    CASE s = "nl" -> NewlineRole(r, esc)
      [] s \in r.without -> "stop"
      [] esc /\ r.pair /\ s \notin {"nl"} \cup r.without -> "inner"
      [] ~(esc /\ r.pair) /\ s \notin {"nl"} \cup r.without ->
           CASE s = r.close /\ n = 0 -> "close"
             [] s = r.close /\ n > 0 -> "unnest"
             [] s = r.open /\ r.nested -> "nest"
             [] s = "bs" /\ r.pair -> "escape"
             [] s = "ws" -> "blank"
             [] OTHER -> "inner"

RoleHere == IF p = pe THEN "stop" ELSE Role(region, escaped, nest, At(p))

\* The leaving action of an internal newline runs with the symbol after it.
Leave(c) == IF leaving THEN InternalNewline(c, p) ELSE c
EntityLeft == IF leaving THEN "internal" ELSE entity

\* One symbol of a region that goes on.
ReadRegion ==
    /\ Within /\ RoleHere \notin {"stop", "close"}
    /\ count' = Mark(Leave(count),
                      CASE RoleHere \in {"inner", "nest", "unnest"} -> region.inner
                        [] RoleHere = "blank" -> region.blank
                        [] RoleHere \in {"escape", "newline"} -> "none", ts)
    /\ escaped' = \/ RoleHere = "escape"
                  \/ At(p) = "bs" /\ ~region.pair /\ "escaped" \in region.newline
    /\ nest' = CASE RoleHere = "nest" -> nest + 1
                 [] RoleHere = "unnest" -> nest - 1
                 [] OTHER -> nest
    /\ leaving' = (RoleHere = "newline")
    /\ entity' = EntityLeft
    /\ p' = p + 1
    /\ UNCHANGED <<lang, text, file, pc, ts, region>>

LeaveRegion(next, c) ==
    /\ p' = next /\ count' = c
    /\ region' = NoRegion /\ escaped' = FALSE /\ leaving' = FALSE
    /\ UNCHANGED <<lang, text, file, pc, ts, nest>>

CloseRegion ==
    /\ Within /\ RoleHere = "close"
    /\ LET c == IF region.commit THEN Commit(Leave(count)) ELSE Leave(count)
       IN  LeaveRegion(p + 1, Mark(c, region.last, ts))
    /\ entity' = EntityLeft

\* A line comment ends in front of the newline.
EndLineComment ==
    /\ Within /\ region.close = "eol" /\ RoleHere = "stop"
    /\ LeaveRegion(p, Leave(count))
    /\ entity' = EntityLeft

\* What is left of an opening delimiter of several characters is code.
RestOfDelimiter(c) == IF region.long THEN Code(Dequeue(c), ts) ELSE c

BacktrackToStart ==
    /\ Within /\ region.close # "eol" /\ RoleHere = "stop"
    /\ LeaveRegion(ts, Code(Dequeue(count), ts))
    /\ UNCHANGED entity

\* The region does not end: back to the character after its first, running
\* the action of ^space for whatever entity now is.
Backtrack ==
    /\ Within /\ region.close # "eol" /\ RoleHere = "stop"
    /\ LeaveRegion(ts + 1, IF entity = "internal"
                           THEN RestOfDelimiter(InternalNewline(count, ts))
                           ELSE Code(Dequeue(count), ts))
    /\ UNCHANGED entity

\* The text is used up, or no token matches and Ragel stops in its error
\* state; then comes process_last_line.
EndOfText ==
    /\ Outside /\ (p < pe => At(p) = "vt")
    /\ count' = LastLine(count)
    /\ pc' = "parsed"
    /\ UNCHANGED <<lang, text, file, p, ts, region, escaped, nest, leaving, entity>>

\* The next file of the same process: the globals are what was left of them.
NextFile ==
    /\ pc = "parsed" /\ file < NFiles
    /\ lang' \in DOMAIN Scanners /\ text' \in LaterTexts[lang']
    /\ file' = file + 1 /\ pc' = "scan"
    /\ p' = 0 /\ entity' = "none"
    /\ count' = StartFile(count)
    /\ UNCHANGED <<ts, region, escaped, nest, leaving>>

Next ==
    \/ Spaces \/ Newline \/ AnyChar
    \/ OpenRegion \/ ReadRegion \/ CloseRegion \/ EndLineComment \/ Backtrack
    \/ EndOfText \/ NextFile

Spec == Init /\ [][Next]_vars /\ WF_vars(Next)

-----------------------------------------------------------------------------
(* What a text says, read without counting: the delimiters alone decide    *)
(* where the comments and strings are.                                     *)

Unread == [region |-> NoRegion, escaped |-> FALSE, nest |-> 0, ok |-> TRUE]

\* One more symbol s of a text; ~ok once a region turned out not to end.
Read(st, s) ==
    LET r == st.region
        role == Role(r, st.escaped, st.nest, s)
        opened == {g \in Grammar : g.open = s}
    IN  CASE r # NoRegion /\ role = "stop" /\ r.close # "eol" ->
                [st EXCEPT !.ok = FALSE]
          [] r # NoRegion /\ role = "close" ->
                [Unread EXCEPT !.ok = st.ok]
          [] r # NoRegion /\ role \notin {"stop", "close"} ->
                [st EXCEPT
                    !.escaped = \/ role = "escape"
                                \/ s = "bs" /\ ~r.pair /\ "escaped" \in r.newline,
                    !.nest = CASE role = "nest" -> @ + 1
                               [] role = "unnest" -> @ - 1
                               [] OTHER -> @]
          [] OTHER ->
                [Unread EXCEPT
                    !.ok = st.ok,
                    !.region = IF opened = {} THEN NoRegion
                               ELSE CHOOSE g \in opened : TRUE]

\* The state after i symbols.
Reading ==
    LET f[i \in 0 .. pe] == IF i = 0 THEN Unread ELSE Read(f[i - 1], text[i])
    IN  f

IsComment(r) == r # NoRegion /\ r.mark = "comment"

\* The kinds of the symbols i of a line, of which "ws" and "nl" have none.
Says(f, i) ==
    CASE text[i] \in {"ws", "nl"} -> {}
      [] text[i] \notin {"ws", "nl"} ->
           IF \/ IsComment(f[i].region)
              \/ /\ IsComment(f[i - 1].region) /\ f[i].region = NoRegion
                 /\ f[i - 1].region.close # "eol"
           THEN {"comment"} ELSE {"code"}

LineEnds == {i \in 1 .. pe : text[i] = "nl" \/ i = pe}
LineOf(e) == {i \in 1 .. e : \A k \in i .. e - 1 : text[k] # "nl"}

\* A line is code if anything on it is, else a comment if anything on it is,
\* else blank.
Promise(f, e) ==
    LET said == UNION {Says(f, i) : i \in LineOf(e)}
    IN  Kind([code |-> "code" \in said, comment |-> "comment" \in said])

\* What the parser promises for the text, as kinds by line end: a blank last
\* line without a newline is not a line.
Promised ==
    LET f == Reading
        ends == {e \in LineEnds : text[e] = "nl" \/ Promise(f, e) # "lblank"}
    IN  {<<e, Promise(f, e)>> : e \in ends}

\* Every comment and string ends, and every symbol is one that a token matches.
WellFormed ==
    LET last == Reading[pe]
    IN  /\ last.ok
        /\ last.region = NoRegion \/ last.region.close = "eol"
        /\ \A i \in 1 .. pe : text[i] # "vt"

-----------------------------------------------------------------------------
(* Properties.                                                             *)

CallbackType ==
    [kind : {"lcode", "lcomment", "lblank"}, s : Nat, e : Nat,
     file : 1 .. NFiles]
LineType == [start : Nat \cup {NULL}, code : BOOLEAN, comment : BOOLEAN]

\* Types.  No callback is made with the NULL that line_start can be.
TypeOK ==
    /\ lang \in DOMAIN Scanners /\ text \in Seq(STRING)
    /\ file \in 1 .. NFiles /\ pc \in {"scan", "parsed"}
    /\ p \in 0 .. pe /\ ts \in Nat
    /\ region = NoRegion \/ region \in Grammar
    /\ escaped \in BOOLEAN /\ nest \in Int /\ leaving \in BOOLEAN
    /\ entity \in {"none", "space", "any", "newline", "internal"}
    /\ count \in [line : LineType, last : LineType, inqueue : BOOLEAN,
                  queue : Seq(CallbackType), out : Seq(CallbackType)]

Lines == DOMAIN count.out
Covers(line, i) == count.out[line].s <= i /\ i < count.out[line].e

\* A report is of a non-empty part of the text.
ReportsInText ==
    \A i \in Lines : count.out[i].s < count.out[i].e /\ count.out[i].e <= pe

\* Each line of a well-formed text is reported once, as what it is
\* (the comment in src/parser.h:94-101).
LinesAsPromised ==
    pc = "parsed" /\ WellFormed =>
        /\ {<<count.out[i].e, count.out[i].kind>> : i \in Lines} = Promised
        /\ Len(count.out) = Cardinality(Promised)

\* That is so of a scanner that notices every newline, that commits what it
\* enqueues, whose regions mark their lines as nothing but what they are, and in
\* whose regions of several lines everything, the closing delimiter too, does.
Sort(r) == IF r.mark = "comment" THEN "comment" ELSE "code"
Conforms ==
    \A r \in Grammar :
        /\ "raw" \notin r.newline /\ (r.pair => "escaped" \notin r.newline)
        /\ r.enqueue => r.commit /\ r.close # "eol"
        /\ {r.mark, r.inner, r.blank, r.last} \subseteq {"none", Sort(r)}
        /\ r.mark = "none" => r.last = "code"
        /\ r.newline # {} => r.inner = r.mark /\ r.blank = "none"
        /\ r.newline # {} /\ r.close # "eol" => r.last = r.mark
ConformingLines == Conforms => LinesAsPromised

\* Whatever the text, no newline is left out of the reports (the comment in
\* src/parser.h:94-101: the callback "will be called for each line parsed").
EveryLineReported ==
    pc = "parsed" =>
        \A i \in 0 .. p - 1 : At(i) = "nl" => \E k \in Lines : Covers(k, i)

\* That is so of a scanner that commits what it enqueues and that, if it
\* enqueues lines, enqueues all of those that end inside regions: a comment or
\* a string that does not end takes no line with it.
Queues == \E r \in Grammar : r.enqueue /\ r.newline # {}
Recoverable ==
    /\ \A r \in Grammar : r.enqueue => r.commit /\ r.close # "eol"
    /\ Queues => \A r \in Grammar :
                   r.newline # {} => r.enqueue /\ "raw" \notin r.newline
NoLineLost == Recoverable => EveryLineReported

\* Where whatever may contain a newline is enqueued until it ends, and nothing
\* else is committed, reports follow each other: no line, or part of one, is
\* counted twice.
Enqueues ==
    \A r \in Grammar :
        /\ r.newline # {} /\ r.close # "eol" => r.enqueue /\ r.commit
        /\ r.commit => r.enqueue
InOrder ==
    Enqueues =>
        \A i, k \in Lines : i < k => count.out[i].e <= count.out[k].s

\* A report, replayed from the queue or not, is about the file being parsed,
\* though the queue outlives the parser that filled it.
OwnReports == \A i \in Lines : count.out[i].file = file

\* Going back to read a region again ends, for every file.
Terminates == <>(pc = "parsed" /\ file = NFiles)

=============================================================================
