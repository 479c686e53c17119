----------------------------- MODULE SourceFile -----------------------------
(***************************************************************************)
(* One SourceFile (src/sourcefile.c) and its parse (src/parser.c).         *)
(*                                                                         *)
(* Everything a SourceFile answers is found when it is first asked for and *)
(* kept: the contents and their size, the language, the lines by language, *)
(* the licences, the line counts.  The contents are the exception, they    *)
(* are freed after the parse and read again if they are asked for again.   *)
(* The file lies on a disk that other programs write to, so each read may  *)
(* meet another version of it; clients call the operations in any order.   *)
(*                                                                         *)
(* A version of the file is a model value.  What the detector answers for  *)
(* a version (or for no file) is a constant, and so is what the licence    *)
(* detector finds: Detector and Licenses model how.  ParsedLanguages says  *)
(* what the parser's callbacks do.                                         *)
(***************************************************************************)
EXTENDS ParsedLanguages

CONSTANTS
    Versions,   \* what the file may contain
    Size,       \* how many bytes each version has
    Parsers,    \* the languages that have a parser
    Answer,     \* what the detector says of each version, or of no contents
    NoLanguage

ASSUME SourceFileAssumption ==
    /\ Size \in [Versions -> Nat]
    /\ Parsers \subseteq Languages
    /\ NULL \notin Versions /\ NULL \notin Languages /\ NoLanguage # NULL
    /\ Answer \in [Versions \cup {NULL} -> Languages \cup {NoLanguage}]

VARIABLES
    disk,      \* what lies where the contents are read from, NULL for no file
    diskpath,  \* whether that place is named apart from the file's path
    contents, size,
    language,  \* NULL while language_detected is 0
    licenses, locs,
    pc,        \* where the operation under way is
    goal,      \* which operation that is
    buffer,    \* the bytes and the length the parser was given
    detectedIn,\* history: the contents the language was detected in
    parsedFrom,\* history: the contents the parse was of
    replaced   \* history: whether set_contents came after the detection

file == <<contents, size>>
caches == <<language, licenses, locs>>
history == <<detectedIn, parsedFrom, replaced>>
vars == <<disk, diskpath, file, caches, pc, goal, buffer, history, plvars>>

Goals == {"none", "language", "callback", "parse", "licenses", "locs"}

\* Read, were the contents read at every call.
ReadAlways ==
    IF disk = NULL \/ Size[disk] = 0
    THEN contents' = NULL /\ size' = 0
    ELSE contents' = disk /\ size' = Size[disk]

\* ohcount_sourcefile_get_contents.  An empty file gives no contents: fread
\* does not return 1 of an item of 0 bytes.
Read ==
    IF contents # NULL THEN UNCHANGED file
    ELSE IF disk = NULL \/ Size[disk] = 0
         THEN contents' = NULL /\ size' = 0
         ELSE contents' = disk /\ size' = Size[disk]

SFInit ==
    /\ Init
    /\ disk \in Versions \cup {NULL} /\ diskpath = FALSE
    /\ contents = NULL /\ size = -1
    /\ language = NULL /\ licenses = NULL /\ locs = NULL
    /\ pc = "idle" /\ goal = "none" /\ buffer = NULL
    /\ detectedIn = NULL /\ parsedFrom = NULL /\ replaced = FALSE

\* Other programs write, create and remove the file.
WriteDisk(version) ==
    /\ disk' = version
    /\ UNCHANGED <<diskpath, file, caches, pc, goal, buffer, history, plvars>>

\* From now on the contents are read from another path.
SetDiskpath(version) ==
    /\ pc = "idle"
    /\ disk' = version /\ diskpath' = TRUE
    /\ UNCHANGED <<file, caches, pc, goal, buffer, history, plvars>>

\* SetContents, were the size left as it was.
SetContentsOnly(version) ==
    /\ pc = "idle"
    /\ contents' = version
    /\ replaced' = (replaced \/ language # NULL)
    /\ UNCHANGED <<disk, diskpath, size, caches, pc, goal, buffer, detectedIn,
                   parsedFrom, plvars>>

SetContents(version) ==
    /\ pc = "idle"
    /\ contents' = version /\ size' = Size[version]
    /\ replaced' = (replaced \/ language # NULL)
    /\ UNCHANGED <<disk, diskpath, caches, pc, goal, buffer, detectedIn,
                   parsedFrom, plvars>>

\* A name that is no language's leaves everything as it was.
SetLanguage(l) ==
    /\ pc = "idle"
    /\ language' = l
    /\ detectedIn' = NULL
    /\ UNCHANGED <<disk, diskpath, file, licenses, locs, pc, goal, buffer,
                   parsedFrom, replaced, plvars>>

GetContents ==
    /\ pc = "idle"
    /\ Read
    /\ UNCHANGED <<disk, diskpath, caches, pc, goal, buffer, history, plvars>>

GetContentsSize == size < 0 /\ GetContents

\* Begin, were a file parsed at every call of parse.
BeginAnew(g) ==
    /\ pc = "idle" /\ g \in {"parse", "locs"}
    /\ goal' = g /\ pc' = "language"
    /\ parsed' = [l \in {} |-> NewLanguage]
    /\ told' = NothingTold /\ seen' = NothingSeen
    /\ UNCHANGED <<disk, diskpath, file, caches, buffer, history, len>>

\* Starts an operation that needs the language, unless what it is to find
\* is there already.
Begin(g) ==
    /\ pc = "idle"
    /\ CASE g = "language" -> language = NULL
         [] g = "parse" -> parsed = NULL
         [] g = "licenses" -> licenses = NULL
         [] g = "locs" -> locs = NULL
         [] OTHER -> TRUE
    /\ goal' = g
    /\ IF g \in {"parse", "licenses", "locs"} /\ parsed # NULL
       THEN pc' = "answer" /\ UNCHANGED plvars
       ELSE /\ pc' = "language"
            /\ IF g \in {"parse", "licenses", "locs"} THEN NewList
               ELSE UNCHANGED plvars
    /\ UNCHANGED <<disk, diskpath, file, caches, buffer, history>>

\* ohcount_detect_language looks into the contents any number of times.
DetectorReads ==
    /\ pc = "language" /\ language = NULL
    /\ Read
    /\ UNCHANGED <<disk, diskpath, caches, pc, goal, buffer, history, plvars>>

GetLanguage ==
    /\ pc = "language" /\ language = NULL
    /\ language' = Answer[contents]
    /\ detectedIn' = contents
    /\ UNCHANGED <<disk, diskpath, file, licenses, locs, pc, goal, buffer,
                   parsedFrom, replaced, plvars>>

\* What neither the extension, nor a mode line, nor the name decide libmagic
\* does.  The search for a mode line has read the contents by then; where a
\* diskpath is set libmagic opens that file, which may be another by then.
AskMagic ==
    /\ pc = "language" /\ language = NULL /\ diskpath
    /\ Read
    /\ pc' = "magic"
    /\ UNCHANGED <<disk, diskpath, caches, goal, buffer, history, plvars>>

GetLanguageByMagic ==
    /\ pc = "magic"
    /\ language' = Answer[disk]
    /\ pc' = "language"
    /\ UNCHANGED <<disk, diskpath, file, licenses, locs, goal, buffer, history,
                   plvars>>

\* ohcount_parse has the language: without one, or without a parser for it,
\* nothing is read.
GetParser ==
    /\ pc = "language" /\ language # NULL
    /\ pc' = IF goal = "language" THEN "answer"
             ELSE IF language \in Parsers THEN "contents" ELSE "parsed"
    /\ UNCHANGED <<disk, diskpath, file, caches, goal, buffer, history, plvars>>

\* GiveBuffer, were the size asked for before the contents.
GiveSizeFirst ==
    /\ pc = "contents"
    /\ Read
    /\ buffer' = [bytes |-> contents', len |-> IF size < 0 THEN size' ELSE size]
    /\ pc' = "reports"
    /\ IF goal = "callback" THEN UNCHANGED plvars ELSE RunOver(buffer'.len)
    /\ UNCHANGED <<disk, diskpath, caches, goal, history>>

\* The buffer and its length are asked for, and the parser starts.
GiveBuffer ==
    /\ pc = "contents"
    /\ Read
    /\ buffer' = [bytes |-> contents', len |-> size']
    /\ pc' = "reports"
    /\ IF goal = "callback" THEN UNCHANGED plvars ELSE RunOver(size')
    /\ UNCHANGED <<disk, diskpath, caches, goal, history>>

\* The parser calls parser_callback.  What the callback of a client does with
\* its own data is not the SourceFile's.
ParserReports ==
    /\ pc = "reports" /\ goal # "callback"
    /\ NextReport
    /\ UNCHANGED <<disk, diskpath, file, caches, pc, goal, buffer, history>>

ParserEnds ==
    /\ pc = "reports"
    /\ pc' = "parsed"
    /\ UNCHANGED <<disk, diskpath, file, caches, goal, buffer, history, plvars>>

\* After its own parse a SourceFile frees the contents, not their size.
FreeContents ==
    /\ pc = "parsed"
    /\ IF goal = "callback" THEN UNCHANGED <<contents, parsedFrom>>
       ELSE /\ contents' = NULL
            /\ parsedFrom' = contents
    /\ pc' = "answer"
    /\ buffer' = NULL
    /\ UNCHANGED <<disk, diskpath, size, caches, goal, detectedIn, replaced, plvars>>

LineCounts(pl) == [code |-> pl.code_count, comments |-> pl.comments_count,
                   blanks |-> pl.blanks_count]

\* The licences or the line counts are made from the parsed languages; no
\* language comes twice, so add_loc only ever appends.
Return ==
    /\ pc = "answer"
    /\ IF goal = "licenses" THEN licenses' = [of |-> parsedFrom]
       ELSE UNCHANGED licenses
    /\ IF goal = "locs"
       THEN locs' = [l \in DOMAIN parsed |-> LineCounts(parsed[l])]
       ELSE UNCHANGED locs
    /\ pc' = "idle" /\ goal' = "none"
    /\ UNCHANGED <<disk, diskpath, file, language, buffer, history, plvars>>

SFNext ==
    \/ \E v \in Versions \cup {NULL} : WriteDisk(v) \/ SetDiskpath(v)
    \/ \E v \in Versions : SetContents(v)
    \/ \E l \in Languages : SetLanguage(l)
    \/ GetContents \/ GetContentsSize
    \/ \E g \in Goals \ {"none"} : Begin(g)
    \/ DetectorReads \/ GetLanguage \/ AskMagic \/ GetLanguageByMagic
    \/ GetParser
    \/ GiveBuffer \/ ParserReports \/ ParserEnds
    \/ FreeContents \/ Return

SizeOf(v) == IF v = NULL THEN 0 ELSE Size[v]

SFSpec == SFInit /\ [][SFNext]_vars
----------------------------------------------------------------------------
\* Every variable has its type.
SFTypeOK ==
    /\ PLTypeOK
    /\ disk \in Versions \cup {NULL} /\ diskpath \in BOOLEAN
    /\ contents \in Versions \cup {NULL} /\ size \in Nat \cup {-1}
    /\ language \in Languages \cup {NoLanguage, NULL}
    /\ licenses \in [of : Versions \cup {NULL}] \cup {NULL}
    /\ locs = NULL \/ \E ls \in SUBSET Languages :
                        locs \in [ls -> [code : Nat, comments : Nat, blanks : Nat]]
    /\ pc \in {"idle", "language", "magic", "contents", "reports", "parsed", "answer"}
    /\ goal \in Goals
    /\ buffer \in [bytes : Versions \cup {NULL}, len : Nat] \cup {NULL}
    /\ detectedIn \in Versions \cup {NULL} /\ parsedFrom \in Versions \cup {NULL}
    /\ replaced \in BOOLEAN

\* While a parser runs it has the bytes of one version of the file and that
\* version's length, and they are still those that parser_callback takes from
\* the SourceFile ("field is guaranteed to exist", sourcefile.c:149-150),
\* whatever the disk does and whatever was asked and freed before.
ParserGivenTheFile ==
    pc = "reports" => /\ buffer.len = SizeOf(buffer.bytes)
                      /\ contents = buffer.bytes /\ size = buffer.len

\* The size is that of the contents; where there are none, of the version
\* that was parsed, or 0 if there was no file the last time one was looked for.
SizeAgrees ==
    \/ contents # NULL /\ size = Size[contents]
    \/ contents = NULL /\ size \in {-1, 0, SizeOf(parsedFrom)}

\* A language that was detected by looking into the file, and lines by
\* language, come from the same version of it, though the disk may change
\* between detection and parse; only set_contents in between can part them.  (What
\* libmagic found in the file of a diskpath was not detected in the contents:
\* there the two may differ.)
OneVersion ==
    detectedIn # NULL /\ parsedFrom # NULL /\ ~replaced
      => detectedIn = parsedFrom

\* What is once answered of a file agrees with what is answered later: the
\* line counts and the licences are those of the parsed languages, which no
\* later call changes, although the contents may be read again by then.
AnswersAgree ==
    /\ locs # NULL => parsed # NULL
                      /\ locs = [l \in DOMAIN parsed |-> LineCounts(parsed[l])]
    /\ licenses # NULL => licenses.of = parsedFrom
=============================================================================
