-------------------------- MODULE SourceFileProofs --------------------------
(***************************************************************************)
(* Proofs about ParsedLanguages (the buffers and counts of a parse) and    *)
(* SourceFile (what is kept of a file that changes on the disk).           *)
(***************************************************************************)
EXTENDS SourceFile, TLAPS

\* Reports in the order of the text leave each buffer no fuller than the text
\* is long up to the last of them, so that the next line always fits.
FilledUpTo(n) ==
    \A l \in DOMAIN parsed : parsed[l].code <= n /\ parsed[l].comments <= n

Started == seen.reports = 0 => parsed = NULL \/ DOMAIN parsed = {}

ToldOnlyIfSeen ==
    seen.reports = 0 => \A r \in Languages \X Entities : told[r] = 0

PLInv ==
    /\ PLTypeOK
    /\ NoOverrun
    /\ AllCounted
    /\ Started
    /\ ToldOnlyIfSeen
    /\ seen.reports = 0 => seen.end = 0
    /\ seen.reports > 0 => seen.end <= len
    /\ parsed = NULL => seen.reports = 0
    /\ parsed # NULL /\ seen.ordered => FilledUpTo(seen.end)

LEMMA NotedType ==
  ASSUME NEW pl \in Gathered, NEW e \in Entities, NEW n \in Nat
  PROVE  Noted(pl, e, n) \in Gathered
<1>1. CASE e = "lcode"
  <2>1. pl.code + n \in Nat /\ pl.code_count + 1 \in Nat
    BY DEF Gathered
  <2>2. [pl EXCEPT !.code = @ + n, !.code_count = @ + 1] \in Gathered
    BY <2>1 DEF Gathered
  <2>. QED
    BY <1>1, <2>2 DEF Noted
<1>2. CASE e = "lcomment"
  <2>1. pl.comments + n \in Nat /\ pl.comments_count + 1 \in Nat
    BY DEF Gathered
  <2>2. [pl EXCEPT !.comments = @ + n, !.comments_count = @ + 1] \in Gathered
    BY <2>1 DEF Gathered
  <2>. QED
    BY <1>2, <2>2 DEF Noted
<1>3. CASE e = "lblank"
  <2>1. [pl EXCEPT !.blanks_count = @ + 1] \in Gathered
    BY DEF Gathered
  <2>. QED
    BY <1>3, <2>1 DEF Noted
<1>. QED
  BY <1>1, <1>2, <1>3 DEF Entities

LEMMA NewLanguageType == NewLanguage \in Gathered
  BY DEF NewLanguage, Gathered

\* NULL is no list.
LEMMA NotNull ==
  ASSUME NEW ls \in SUBSET Languages, NEW p, DOMAIN p = ls
  PROVE  p # NULL
<1>1. DOMAIN NULL = {"null"}
  BY DEF NULL
<1>. QED
  BY <1>1, PLAssumption

\* What a report does to the language it is about.
LEMMA NotedCounts ==
  ASSUME NEW pl \in Gathered, NEW e \in Entities, NEW n \in Nat, len \in Nat,
         pl.code < len + 5, pl.comments < len + 5
  PROVE  LET new == Noted(pl, e, n)
         IN  /\ new.code < len + 5 /\ new.comments < len + 5
             /\ new.code <= pl.code + n /\ new.comments <= pl.comments + n
             /\ pl.code + n <= len /\ pl.comments + n <= len =>
                  /\ new.code_count = pl.code_count + (IF e = "lcode" THEN 1 ELSE 0)
                  /\ new.comments_count
                       = pl.comments_count + (IF e = "lcomment" THEN 1 ELSE 0)
                  /\ new.blanks_count = pl.blanks_count + (IF e = "lblank" THEN 1 ELSE 0)
<1>1. CASE e = "lcode"
  BY <1>1 DEF Noted, Gathered, Fits
<1>2. CASE e = "lcomment"
  BY <1>2 DEF Noted, Gathered, Fits
<1>3. CASE e = "lblank"
  BY <1>3 DEF Noted, Gathered, Fits
<1>. QED
  BY <1>1, <1>2, <1>3 DEF Entities

LEMMA PLInvInit == Init => PLInv
<1>. SUFFICES ASSUME Init PROVE PLInv
  OBVIOUS
<1>. USE PLAssumption DEF Init
<1>1. PLTypeOK
  BY DEF PLTypeOK, NothingTold, NothingSeen
<1>. QED
  BY <1>1 DEF PLInv, NoOverrun, AllCounted, Started, ToldOnlyIfSeen,
               NothingSeen, NothingTold

\* The invariant through one report.
LEMMA ReportKeepsPLInv ==
  ASSUME PLInv, NEW l \in Languages, NEW e \in Entities, NEW span \in Spans,
         NEW spaces \in Indents, Report(l, e, span, spaces)
  PROVE  PLInv'
<1>. DEFINE old == IF l \in DOMAIN parsed THEN parsed[l] ELSE NewLanguage
            n == span[2] - span[1] - spaces
            new == Noted(old, e, n)
<1>1. /\ span[1] \in Nat /\ span[2] \in Nat /\ span[1] <= span[2]
      /\ spaces \in Nat /\ n \in Nat /\ span[1] + n <= span[2]
  BY PLAssumption DEF Report
<1>2. PICK ls \in SUBSET Languages : parsed \in [ls -> Gathered]
  BY DEF PLInv, PLTypeOK, Report
<1>3. /\ parsed # NULL /\ len \in Nat /\ len' = len
      /\ seen.reports \in 0 .. MaxReports /\ seen.end \in Nat
      /\ seen.ordered \in BOOLEAN /\ seen.reports < MaxReports
      /\ span[2] <= len /\ spaces <= span[2] - span[1]
  BY DEF PLInv, PLTypeOK, Report
<1>4. old \in Gathered /\ old.code < len + 5 /\ old.comments < len + 5
  <2>1. CASE l \in DOMAIN parsed
    BY <1>2, <1>3, <2>1 DEF PLInv, NoOverrun
  <2>2. CASE l \notin DOMAIN parsed
    BY <1>3, <2>2, NewLanguageType DEF NewLanguage
  <2>. QED
    BY <2>1, <2>2
<1>5. new \in Gathered
  BY <1>1, <1>4, NotedType
<1>6. parsed' = [m \in ls \cup {l} |-> IF m = l THEN new ELSE parsed[m]]
  BY <1>2 DEF Report
<1>7. /\ parsed' \in [ls \cup {l} -> Gathered]
      /\ parsed'[l] = new
      /\ \A m \in ls : m # l => parsed'[m] = parsed[m]
      /\ DOMAIN parsed' = ls \cup {l} /\ DOMAIN parsed = ls
  BY <1>2, <1>5, <1>6
<1>8. parsed' # NULL
  BY <1>7, NotNull
<1>9. /\ seen' = [reports |-> seen.reports + 1, end |-> span[2],
                  ordered |-> seen.ordered /\ seen.end <= span[1]]
      /\ seen' \in [reports : 0 .. MaxReports, end : Nat, ordered : BOOLEAN]
      /\ seen'.reports > 0
  BY <1>1, <1>3, PLAssumption DEF Report
<1>10. /\ told' = [told EXCEPT ![<<l, e>>] = @ + 1]
       /\ told \in [Languages \X Entities -> Nat]
       /\ told' \in [Languages \X Entities -> Nat]
  BY DEF Report, PLInv, PLTypeOK
<1>11. PLTypeOK'
  BY <1>3, <1>7, <1>9, <1>10 DEF PLTypeOK
<1>12. /\ new.code < len + 5 /\ new.comments < len + 5
       /\ new.code <= old.code + n /\ new.comments <= old.comments + n
       /\ old.code + n <= len /\ old.comments + n <= len =>
            /\ new.code_count = old.code_count + (IF e = "lcode" THEN 1 ELSE 0)
            /\ new.comments_count
                 = old.comments_count + (IF e = "lcomment" THEN 1 ELSE 0)
            /\ new.blanks_count = old.blanks_count + (IF e = "lblank" THEN 1 ELSE 0)
  BY <1>1, <1>3, <1>4, NotedCounts
<1>13. NoOverrun'
  BY <1>2, <1>3, <1>7, <1>12 DEF PLInv, NoOverrun
<1>14. ASSUME seen'.ordered
       PROVE  /\ seen.ordered /\ seen.end <= span[1] /\ FilledUpTo(seen.end)
              /\ old.code <= seen.end /\ old.comments <= seen.end
  <2>1. seen.ordered /\ seen.end <= span[1]
    BY <1>9, <1>14
  <2>2. FilledUpTo(seen.end)
    BY <1>3, <2>1 DEF PLInv
  <2>3. old.code <= seen.end /\ old.comments <= seen.end
    BY <1>3, <2>2 DEF FilledUpTo, NewLanguage
  <2>. QED
    BY <2>1, <2>2, <2>3
<1>15. seen'.ordered => FilledUpTo(seen.end)'
  <2>. SUFFICES ASSUME seen'.ordered
                PROVE  \A m \in DOMAIN parsed' :
                         parsed'[m].code <= span[2] /\ parsed'[m].comments <= span[2]
    BY <1>9 DEF FilledUpTo
  <2>1. new.code <= span[2] /\ new.comments <= span[2]
    BY <1>1, <1>3, <1>4, <1>5, <1>12, <1>14 DEF Gathered
  <2>2. ASSUME NEW m \in ls, m # l
        PROVE  parsed[m].code <= span[2] /\ parsed[m].comments <= span[2]
    <3>1. parsed[m] \in Gathered
      BY <1>2
    <3>. QED
      BY <1>1, <1>3, <1>7, <1>14, <3>1 DEF FilledUpTo, Gathered
  <2>. QED
    BY <1>7, <2>1, <2>2
<1>16. AllCounted'
  <2>. SUFFICES ASSUME seen'.ordered, NEW m \in Languages
                PROVE  IF m \in DOMAIN parsed'
                       THEN /\ parsed'[m].code_count = told'[<<m, "lcode">>]
                            /\ parsed'[m].comments_count = told'[<<m, "lcomment">>]
                            /\ parsed'[m].blanks_count = told'[<<m, "lblank">>]
                       ELSE \A f \in Entities : told'[<<m, f>>] = 0
    BY DEF AllCounted
  <2>1. IF m \in DOMAIN parsed
        THEN /\ parsed[m].code_count = told[<<m, "lcode">>]
             /\ parsed[m].comments_count = told[<<m, "lcomment">>]
             /\ parsed[m].blanks_count = told[<<m, "lblank">>]
        ELSE \A f \in Entities : told[<<m, f>>] = 0
    BY <1>3, <1>14 DEF PLInv, AllCounted
  <2>2. \A f \in Entities :
          told'[<<m, f>>] = IF m = l /\ f = e THEN told[<<m, f>>] + 1 ELSE told[<<m, f>>]
    BY <1>10
  <2>3. {"lcode", "lcomment", "lblank"} \subseteq Entities
    BY DEF Entities
  <2>4. CASE m # l
    BY <1>7, <2>1, <2>2, <2>3, <2>4
  <2>5. CASE m = l
    <3>1. old.code + n <= len /\ old.comments + n <= len
      BY <1>1, <1>3, <1>4, <1>14 DEF Gathered
    <3>2. /\ new.code_count = old.code_count + (IF e = "lcode" THEN 1 ELSE 0)
          /\ new.comments_count = old.comments_count + (IF e = "lcomment" THEN 1 ELSE 0)
          /\ new.blanks_count = old.blanks_count + (IF e = "lblank" THEN 1 ELSE 0)
      BY <1>12, <3>1
    <3>3. /\ old.code_count = told[<<l, "lcode">>]
          /\ old.comments_count = told[<<l, "lcomment">>]
          /\ old.blanks_count = told[<<l, "lblank">>]
      BY <2>1, <2>3, <2>5 DEF NewLanguage
    <3>4. told[<<l, "lcode">>] \in Nat /\ told[<<l, "lcomment">>] \in Nat
          /\ told[<<l, "lblank">>] \in Nat
      BY <1>10, <2>3
    <3>. QED
      BY <1>7, <2>2, <2>3, <2>5, <3>2, <3>3, <3>4
  <2>. QED
    BY <2>4, <2>5
<1>17. Started' /\ ToldOnlyIfSeen' /\ seen'.end <= len'
  BY <1>3, <1>9 DEF Started, ToldOnlyIfSeen
<1>. QED
  BY <1>8, <1>9, <1>11, <1>13, <1>15, <1>16, <1>17 DEF PLInv

LEMMA PLInvStep == PLInv /\ [Next]_plvars => PLInv'
<1>. SUFFICES ASSUME PLInv, [Next]_plvars PROVE PLInv'
  OBVIOUS
<1>1. CASE NewList
  <2>1. /\ parsed = NULL /\ parsed' = [l \in {} |-> NewLanguage]
        /\ len' = len /\ told' = told /\ seen' = seen /\ seen.reports = 0
    BY <1>1 DEF NewList, PLInv
  <2>2. DOMAIN parsed' = {} /\ parsed' \in [{} -> Gathered]
    BY <2>1
  <2>3. parsed' # NULL
    BY <2>2, NotNull
  <2>4. PLTypeOK'
    BY <2>1, <2>2 DEF PLInv, PLTypeOK
  <2>5. \A r \in Languages \X Entities : told[r] = 0
    BY <2>1 DEF PLInv, ToldOnlyIfSeen
  <2>. QED
    BY <2>1, <2>2, <2>3, <2>4, <2>5
       DEF PLInv, NoOverrun, AllCounted, Started, FilledUpTo, ToldOnlyIfSeen
<1>2. CASE len' \in Nat /\ RunOver(len')
  <2>1. /\ parsed # NULL /\ seen.reports = 0
        /\ parsed' = parsed /\ told' = told /\ seen' = seen
    BY <1>2 DEF RunOver
  <2>2. DOMAIN parsed = {}
    BY <2>1 DEF PLInv, Started
  <2>3. PLTypeOK'
    BY <1>2, <2>1 DEF PLInv, PLTypeOK
  <2>4. NoOverrun'
    BY <2>1, <2>2 DEF NoOverrun
  <2>5. AllCounted'
    BY <2>1 DEF PLInv, AllCounted
  <2>6. Started' /\ ToldOnlyIfSeen'
    BY <2>1 DEF PLInv, Started, ToldOnlyIfSeen
  <2>7. FilledUpTo(seen.end)'
    BY <2>1, <2>2 DEF FilledUpTo
  <2>. QED
    BY <2>1, <2>3, <2>4, <2>5, <2>6, <2>7 DEF PLInv
<1>3. CASE NextReport
  BY <1>3, ReportKeepsPLInv DEF NextReport
<1>4. CASE UNCHANGED plvars
  BY <1>4 DEF plvars, PLInv, PLTypeOK, NoOverrun, AllCounted, Started,
              FilledUpTo, ToldOnlyIfSeen
<1>. QED
  BY <1>1, <1>2, <1>3, <1>4 DEF Next

LEMMA PLInvAlways == Spec => []PLInv
  BY PLInvInit, PLInvStep, PTL DEF Spec

\* For a text of any size and any reports in any order, parser_callback
\* writes only into the buffers ohcount_parsed_language_new made.
THEOREM BuffersHold == Spec => []NoOverrun
  BY PLInvAlways, PTL DEF PLInv

\* A parser that reports in the order of the text never loses a line to the
\* check that guards the buffers (parsed_language.c:28 and :39).
THEOREM NoLineTurnedAway == Spec => []AllCounted
  BY PLInvAlways, PTL DEF PLInv

----------------------------------------------------------------------------
Lists == {"parse", "licenses", "locs"}

\* The parse whose result the SourceFile keeps is under way, or done.
Parsing ==
    goal \in Lists /\ pc \in {"language", "magic", "contents", "reports", "parsed"}
Finished == parsed # NULL /\ ~Parsing

\* Where an operation may be, and what it has found by then.
Control ==
    /\ pc = "idle" <=> goal = "none"
    /\ Parsing => parsed # NULL
    /\ pc = "answer" /\ goal \in Lists => parsed # NULL
    /\ pc \in {"contents", "reports", "parsed"}
         => language # NULL /\ goal # "language"
    /\ pc = "reports" => buffer # NULL
    /\ pc = "magic" => language = NULL
    /\ Parsing /\ pc \in {"language", "magic", "contents"} => seen.reports = 0
    /\ Finished => language # NULL

\* Until the parse is done the contents stay what the language was detected
\* in; what it then freed were those.
SameVersion ==
    /\ language = NULL => detectedIn = NULL
    /\ detectedIn # NULL /\ ~replaced =>
         IF Finished THEN parsedFrom = detectedIn ELSE contents = detectedIn

\* Nothing is answered before the parse is done.
NoneEarly == ~Finished => parsedFrom = NULL /\ licenses = NULL /\ locs = NULL

\* The inductive invariant.
SFInv ==
    /\ PLInv /\ SFTypeOK
    /\ Control
    /\ ParserGivenTheFile /\ SizeAgrees
    /\ SameVersion
    /\ NoneEarly /\ AnswersAgree

LEMMA SFInvInit == SFInit => SFInv
<1>. SUFFICES ASSUME SFInit PROVE SFInv
  OBVIOUS
<1>1. PLInv /\ parsed = NULL
  BY PLInvInit DEF SFInit, Init
<1>2. SFTypeOK
  BY <1>1 DEF SFInit, SFTypeOK, PLInv, Goals
<1>. QED
  BY <1>1, <1>2 DEF SFInit, SFInv, Control, Parsing, Finished, Lists,
       ParserGivenTheFile, SizeAgrees, SameVersion, NoneEarly, AnswersAgree

\* After get_contents the size is that of the contents, or 0 for none, and
\* contents that were there stay.
LEMMA ReadEffect ==
  ASSUME SFInv, Read
  PROVE  /\ contents' \in Versions \cup {NULL} /\ size' \in Nat
         /\ size' = SizeOf(contents')
         /\ contents # NULL => contents' = contents /\ size' = size
<1>. USE SourceFileAssumption
<1>1. disk \in Versions \cup {NULL} /\ contents \in Versions \cup {NULL}
  BY DEF SFInv, SFTypeOK
<1>2. CASE contents # NULL
  <2>1. contents' = contents /\ size' = size
    BY <1>2 DEF Read, file
  <2>2. size = Size[contents] /\ contents \in Versions
    BY <1>1, <1>2 DEF SFInv, SizeAgrees
  <2>. QED
    BY <1>2, <2>1, <2>2 DEF SizeOf
<1>3. CASE contents = NULL /\ (disk = NULL \/ Size[disk] = 0)
  BY <1>3 DEF Read, SizeOf
<1>4. CASE contents = NULL /\ disk # NULL /\ Size[disk] # 0
  BY <1>1, <1>4 DEF Read, SizeOf
<1>. QED
  BY <1>2, <1>3, <1>4

\* The SourceFile makes only steps that ParsedLanguages has.
LEMMA Refinement == SFInv /\ [SFNext]_vars => [Next]_plvars
<1>. SUFFICES ASSUME SFInv, [SFNext]_vars PROVE [Next]_plvars
  OBVIOUS
<1>1. ASSUME NEW g \in Goals, Begin(g) PROVE [Next]_plvars
  BY <1>1 DEF Begin, Next
<1>2. CASE GiveBuffer
  <2>1. size' \in Nat
    BY <1>2, ReadEffect DEF GiveBuffer
  <2>2. UNCHANGED plvars \/ RunOver(size')
    BY <1>2 DEF GiveBuffer
  <2>3. RunOver(size') => len' = size'
    BY DEF RunOver
  <2>. QED
    BY <2>1, <2>2, <2>3 DEF Next
<1>3. CASE ParserReports
  BY <1>3 DEF ParserReports, Next
<1>4. CASE UNCHANGED plvars
  BY <1>4
<1>. QED
  BY <1>1, <1>2, <1>3, <1>4
     DEF SFNext, WriteDisk, SetDiskpath, SetContents, SetLanguage, GetContents,
         GetContentsSize, DetectorReads, GetLanguage, AskMagic, GetLanguageByMagic, GetParser, ParserEnds,
         FreeContents, Return, vars

LEMMA SFInvStep == SFInv /\ [SFNext]_vars => SFInv'
<1>. SUFFICES ASSUME SFInv, [SFNext]_vars PROVE SFInv'
  OBVIOUS
<1>1. PLInv'
  BY Refinement, PLInvStep DEF SFInv
<1>2. PLTypeOK'
  BY <1>1 DEF PLInv
<1>. USE SourceFileAssumption
     DEF file, caches, history, plvars, SFInv, Control, Parsing, Finished, Lists,
         ParserGivenTheFile, SizeAgrees, SameVersion, NoneEarly, AnswersAgree
<1>3. ASSUME NEW v \in Versions \cup {NULL}, WriteDisk(v) PROVE SFInv'
  BY <1>1, <1>2, <1>3 DEF WriteDisk, SFTypeOK
<1>4. ASSUME NEW v \in Versions, SetContents(v) PROVE SFInv'
  BY <1>1, <1>2, <1>4 DEF SetContents, SFTypeOK
<1>5. ASSUME NEW l \in Languages, SetLanguage(l) PROVE SFInv'
  BY <1>1, <1>2, <1>5 DEF SetLanguage, SFTypeOK
<1>6. CASE GetContents
  BY <1>1, <1>2, <1>6, ReadEffect DEF GetContents, SFTypeOK, SizeOf
<1>7. ASSUME NEW g \in Goals \ {"none"}, Begin(g) PROVE SFInv'
  <2>1. SFTypeOK'
    BY <1>2, <1>7 DEF Begin, SFTypeOK, Goals
  <2>2. CASE g \in Lists /\ parsed # NULL
    <3>1. /\ goal' = g /\ pc' = "answer" /\ pc = "idle"
          /\ UNCHANGED <<disk, diskpath, file, caches, buffer, history, plvars>>
      BY <1>7, <2>2 DEF Begin
    <3>. QED
      BY <1>1, <2>1, <2>2, <3>1 DEF Goals
  <2>3. CASE g \in Lists /\ parsed = NULL
    <3>1. /\ goal' = g /\ pc' = "language" /\ pc = "idle"
          /\ parsed' = [l \in {} |-> NewLanguage] /\ seen' = seen
          /\ UNCHANGED <<disk, diskpath, file, caches, buffer, history>>
      BY <1>7, <2>3 DEF Begin, NewList
    <3>2. parsed' # NULL
      <4>1. DOMAIN parsed' = {}
        BY <3>1
      <4>. QED
        BY <4>1, NotNull
    <3>3. seen.reports = 0
      BY <2>3 DEF PLInv
    <3>4. ~Finished /\ ~Finished'
      BY <2>3, <3>1
    <3>. QED
      BY <1>1, <2>1, <2>3, <3>1, <3>2, <3>3, <3>4
  <2>4. CASE g \notin Lists
    <3>1. /\ goal' = g /\ pc' = "language" /\ pc = "idle"
          /\ UNCHANGED <<disk, diskpath, file, caches, buffer, history, plvars>>
      BY <1>7, <2>4 DEF Begin
    <3>. QED
      BY <1>1, <2>1, <2>4, <3>1 DEF Goals
  <2>. QED
    BY <2>2, <2>3, <2>4
<1>8. CASE DetectorReads
  BY <1>1, <1>2, <1>8, ReadEffect DEF DetectorReads, SFTypeOK, SizeOf
<1>9. CASE GetLanguage
  BY <1>1, <1>2, <1>9 DEF GetLanguage, SFTypeOK
<1>10. CASE GetParser
  BY <1>1, <1>2, <1>10 DEF GetParser, SFTypeOK
<1>11. CASE GiveBuffer
  <2>1. /\ pc = "contents" /\ pc' = "reports" /\ goal' = goal
        /\ buffer' = [bytes |-> contents', len |-> size']
        /\ UNCHANGED <<disk, diskpath, caches, history, parsed, told, seen>>
    BY <1>11 DEF GiveBuffer, RunOver
  <2>2. /\ contents' \in Versions \cup {NULL} /\ size' \in Nat
        /\ size' = SizeOf(contents')
        /\ contents # NULL => contents' = contents /\ size' = size
    BY <1>11, ReadEffect DEF GiveBuffer
  <2>3. SFTypeOK'
    BY <1>2, <2>1, <2>2 DEF SFTypeOK
  <2>4. ParserGivenTheFile' /\ buffer' # NULL
    <3>1. buffer'.len = size' /\ buffer'.bytes = contents'
      BY <2>1
    <3>2. buffer' # NULL
      <4>1. DOMAIN buffer' = {"bytes", "len"} /\ DOMAIN NULL = {"null"}
        BY <2>1 DEF NULL
      <4>. QED
        BY <4>1
    <3>. QED
      BY <2>2, <3>1, <3>2 DEF SizeOf
  <2>5. SizeAgrees'
    BY <2>1, <2>2 DEF SizeOf
  <2>6. Control' /\ NoneEarly' /\ AnswersAgree'
    BY <2>1, <2>4
  <2>7. SameVersion'
    BY <2>1, <2>2
  <2>. QED
    BY <1>1, <2>3, <2>4, <2>5, <2>6, <2>7
<1>12. CASE ParserReports
  <2>1. /\ pc = "reports" /\ goal # "callback"
        /\ UNCHANGED <<disk, diskpath, file, caches, pc, goal, buffer, history>>
    BY <1>12 DEF ParserReports
  <2>2. parsed # NULL /\ len' = len
    BY <1>12 DEF ParserReports, NextReport, Report
  <2>3. goal \in Lists
    BY <2>1 DEF SFTypeOK, Goals
  <2>4. parsed' # NULL
    <3>1. seen.reports \in Nat /\ seen'.reports = seen.reports + 1
      BY <1>12 DEF ParserReports, NextReport, Report, PLInv, PLTypeOK
    <3>. QED
      BY <1>1, <3>1 DEF PLInv
  <2>5. SFTypeOK'
    BY <1>2, <2>1 DEF SFTypeOK
  <2>. QED
    BY <1>1, <2>1, <2>2, <2>3, <2>4, <2>5
<1>13. CASE ParserEnds
  BY <1>1, <1>2, <1>13 DEF ParserEnds, SFTypeOK
<1>14. CASE FreeContents
  <2>1. /\ pc = "parsed" /\ pc' = "answer" /\ goal' = goal /\ buffer' = NULL
        /\ UNCHANGED <<disk, diskpath, size, caches, detectedIn, replaced, plvars>>
    BY <1>14 DEF FreeContents
  <2>2. SFTypeOK'
    BY <1>2, <1>14 DEF FreeContents, SFTypeOK
  <2>3. CASE goal = "callback"
    <3>1. UNCHANGED <<contents, parsedFrom>>
      BY <1>14, <2>3 DEF FreeContents
    <3>. QED
      BY <1>1, <2>1, <2>2, <2>3, <3>1
  <2>4. CASE goal # "callback"
    <3>1. contents' = NULL /\ parsedFrom' = contents
      BY <1>14, <2>4 DEF FreeContents
    <3>2. goal \in Lists /\ parsed # NULL
      BY <2>1, <2>4 DEF SFTypeOK, Goals
    <3>3. parsedFrom = NULL /\ licenses = NULL /\ locs = NULL
      BY <2>1, <3>2
    <3>4. size \in {-1, 0, SizeOf(contents)}
      BY <3>3 DEF SizeOf
    <3>5. parsed' # NULL /\ goal' \in Lists /\ pc' = "answer" /\ Finished'
      BY <2>1, <3>2
    <3>6. SameVersion'
      BY <2>1, <3>1, <3>2, <3>5
    <3>. QED
      BY <1>1, <2>1, <2>2, <3>1, <3>2, <3>3, <3>4, <3>5, <3>6
  <2>. QED
    BY <2>3, <2>4
<1>15. CASE Return
  <2>1. /\ pc = "answer" /\ pc' = "idle" /\ goal' = "none"
        /\ UNCHANGED <<disk, diskpath, file, language, buffer, history, plvars>>
        /\ licenses' = IF goal = "licenses" THEN [of |-> parsedFrom] ELSE licenses
        /\ locs' = IF goal = "locs"
                   THEN [l \in DOMAIN parsed |-> LineCounts(parsed[l])] ELSE locs
    BY <1>15 DEF Return
  <2>2. goal \in Lists => parsed # NULL
    BY <2>1
  <2>3. ASSUME goal = "locs"
        PROVE  \E ls \in SUBSET Languages :
                 locs' \in [ls -> [code : Nat, comments : Nat, blanks : Nat]]
    <3>1. PICK ls \in SUBSET Languages : parsed \in [ls -> Gathered]
      BY <2>2, <2>3 DEF PLInv, PLTypeOK
    <3>2. \A l \in ls :
            LineCounts(parsed[l]) \in [code : Nat, comments : Nat, blanks : Nat]
      BY <3>1 DEF LineCounts, Gathered
    <3>. QED
      BY <2>1, <2>3, <3>1, <3>2
  <2>4. SFTypeOK'
    BY <1>2, <2>1, <2>3 DEF SFTypeOK, Goals
  <2>5. AnswersAgree'
    BY <2>1, <2>2
  <2>6. Control' /\ ParserGivenTheFile' /\ SizeAgrees' /\ SameVersion' /\ NoneEarly'
    BY <2>1, <2>2 DEF SizeOf
  <2>. QED
    BY <1>1, <2>4, <2>5, <2>6
<1>16. CASE AskMagic
  BY <1>1, <1>2, <1>16, ReadEffect DEF AskMagic, SFTypeOK, SizeOf
<1>17. CASE GetLanguageByMagic
  BY <1>1, <1>2, <1>17 DEF GetLanguageByMagic, SFTypeOK
<1>18. CASE UNCHANGED vars
  BY <1>1, <1>2, <1>18 DEF vars, SFTypeOK
<1>19. ASSUME NEW v \in Versions \cup {NULL}, SetDiskpath(v) PROVE SFInv'
  BY <1>1, <1>2, <1>19 DEF SetDiskpath, SFTypeOK
<1>. QED
  BY <1>3, <1>4, <1>5, <1>6, <1>7, <1>8, <1>9, <1>10, <1>11, <1>12, <1>13, <1>14, <1>15, <1>16, <1>17, <1>18, <1>19
     DEF SFNext, GetContentsSize

LEMMA SFInvAlways == SFSpec => []SFInv
  BY SFInvInit, SFInvStep, PTL DEF SFSpec

\* The operations of a SourceFile, in any order, run its parser as
\* ParsedLanguages says a parser is run: over one text, into one list.
THEOREM ParsesAsSpecified == SFSpec => Spec
<1>1. SFInit => Init
  BY DEF SFInit
<1>. QED
  BY <1>1, Refinement, SFInvAlways, PTL DEF SFSpec, Spec

\* Whatever is called, every cached answer and buffer has its type.
THEOREM SFTypeCorrect == SFSpec => []SFTypeOK
  BY SFInvAlways, PTL DEF SFInv

\* A parser has the bytes and the length of one version of the file,
\* whenever the disk changes and whatever was freed before.
THEOREM GivenTheFile == SFSpec => []ParserGivenTheFile
  BY SFInvAlways, PTL DEF SFInv

\* The size kept in a SourceFile is never that of other contents.
THEOREM SizeAlwaysAgrees == SFSpec => []SizeAgrees
  BY SFInvAlways, PTL DEF SFInv

\* The lines of a file are those of the version its language was found in.
THEOREM SameVersionAlways == SFSpec => []OneVersion
<1>1. SFInv => OneVersion
  BY DEF SFInv, SameVersion, NoneEarly, OneVersion
<1>. QED
  BY <1>1, SFInvAlways, PTL

\* No later call changes the lines the answers were made of.
THEOREM AnswersAlwaysAgree == SFSpec => []AnswersAgree
  BY SFInvAlways, PTL DEF SFInv
=============================================================================
