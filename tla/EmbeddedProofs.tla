---------------------------- MODULE EmbeddedProofs ----------------------------
(***************************************************************************)
(* Proofs about Embedded: Ragel's stack is never more than one place deep, *)
(* for every grammar whose embedded languages embed nothing themselves;    *)
(* and, for every host all of whose outries go back to code of the host,   *)
(* every report is of a part of the text, a line that a newline ends is    *)
(* reported in a language of that line, no line is lost in a page that     *)
(* enqueues none, and a line of a straight page is counted in the language *)
(* of what is on it, or in the host's if only entries or outries are.      *)
(***************************************************************************)
EXTENDS Embedded, TLAPS, SequenceTheorems, FiniteSetTheorems,
        WellFoundedInduction

-----------------------------------------------------------------------------
(* The inductive strengthening of TypeOK.                                  *)

\* A line that is code or a comment begins somewhere.
Started(line) == line.code \/ line.comment => line.start # NULL

CountType ==
    [line : LineType, last : LineType, inqueue : BOOLEAN,
     queue : Seq(CallbackType), out : Seq(CallbackType)]
Sound(c) == c \in CountType /\ Started(c.line) /\ Started(c.last)

\* The region being read began before p, and an internal newline was read only
\* in one that can contain it, which then began its line.
ReadingInv ==
    /\ region = NoRegion => ~escaped /\ ~leaving
    /\ pc = "parsed" => region = NoRegion
    /\ Within =>
         /\ ts < p
         /\ leaving \/ entity = "internal" => region.newline # {}
         /\ region.mark # "none" => count.line.start # NULL

TypeInv == TypeOK /\ Sound(count) /\ ReadingInv

-----------------------------------------------------------------------------
(* The inductive strengthening of InOrder.                                 *)

Ordered(s) == \A i, k \in 1 .. Len(s) : i < k => s[i].e <= s[k].s
Before(s, x) == \A i \in 1 .. Len(s) : s[i].e <= x
Follows(s, q) ==
    \A i \in 1 .. Len(s), k \in 1 .. Len(q) : s[i].e <= q[k].s

\* A line begins at the latest at x, and not before the end of a report.
Fits(line, s, x) ==
    line.start # NULL => line.start <= x /\ Before(s, line.start)

\* Between tokens: nothing was reported beyond x, and neither the line nor the
\* one it may be set back to was.
Settled(c, x) ==
    /\ Ordered(c.out) /\ Before(c.out, x)
    /\ Fits(c.line, c.out, x)
    /\ c.inqueue => Fits(c.last, c.out, x)

\* What is enqueued begins after what was reported and ends before the line.
Queueing(c, x) ==
    /\ c.inqueue /\ Ordered(c.queue) /\ Follows(c.out, c.queue)
    /\ Before(c.queue, x) /\ Fits(c.line, c.queue, x)
    /\ c.line.start = NULL => c.queue = <<>>

\* Inside a region, which can be left for the character after ts if it is not a
\* line comment: then nothing beyond ts was reported.
InRegion(c, x) ==
    /\ Settled(c, x)
    /\ c.inqueue => Fits(c.last, c.out, ts)
    /\ region.close # "eol" \/ c.line.start = NULL => Before(c.out, ts)
    /\ region.close # "eol" /\ ~region.enqueue => Fits(c.line, c.out, ts)
    /\ region.enqueue => Queueing(c, x)

OrderInv ==
    /\ Ordered(count.out)
    /\ Outside => Settled(count, p)
    /\ Within => InRegion(count, p)

QueuedInv == Enqueues => OrderInv

-----------------------------------------------------------------------------
(* The macros and actions keep the counting globals sound.                 *)

LEMMA CallbackTyped ==
  ASSUME NEW line \in LineType, NEW s \in Nat, NEW e \in Nat, file \in 1 .. NFiles
  PROVE  Callback(Kind(line), s, e) \in CallbackType
  BY DEF Callback, Kind, CallbackType

LEMMA NoLineTyped == NoLine \in LineType /\ Started(NoLine)
  BY DEF NoLine, LineType, Started, NULL

LEMMA LsSound ==
  ASSUME NEW c, Sound(c), NEW from \in Nat
  PROVE  Sound(Ls(c, from)) /\ Ls(c, from).line.start # NULL
  BY DEF Sound, CountType, LineType, Started, Ls, NULL

LEMMA DequeueSound ==
  ASSUME NEW c, Sound(c)
  PROVE  Sound(Dequeue(c)) /\ ~Dequeue(c).inqueue
  BY DEF Sound, CountType, LineType, Started, Dequeue

LEMMA CodeSound ==
  ASSUME NEW c, Sound(c), NEW from \in Nat
  PROVE  Sound(Code(c, from)) /\ Code(c, from).line.start # NULL
<1>. DEFINE d == IF c.line.code THEN c ELSE Ls(c, from)
<1>1. Sound(d) /\ d.line.start # NULL
  BY LsSound DEF Sound, Started
<1>2. Code(c, from) = [d EXCEPT !.line.code = TRUE]
  BY DEF Code
<1>. HIDE DEF d
<1>3. [d EXCEPT !.line.code = TRUE] \in CountType
  BY <1>1 DEF Sound, CountType, LineType
<1>4. /\ [d EXCEPT !.line.code = TRUE].line.start = d.line.start
      /\ [d EXCEPT !.line.code = TRUE].last = d.last
  BY <1>1 DEF Sound, CountType, LineType
<1>5. QED
  BY <1>1, <1>2, <1>3, <1>4 DEF Sound, Started

LEMMA CommentSound ==
  ASSUME NEW c, Sound(c), NEW from \in Nat
  PROVE  Sound(Comment(c, from)) /\ Comment(c, from).line.start # NULL
<1>. DEFINE d == Ls(c, from)
<1>1. Sound(d) /\ d.line.start # NULL
  BY LsSound
<1>2. Comment(c, from) = IF c.line.code THEN c ELSE [d EXCEPT !.line.comment = TRUE]
  BY DEF Comment
<1>3. CASE c.line.code
  BY <1>2, <1>3 DEF Sound, Started
<1>4. CASE ~c.line.code
  <2>. HIDE DEF d
  <2>1. [d EXCEPT !.line.comment = TRUE] \in CountType
    BY <1>1 DEF Sound, CountType, LineType
  <2>2. /\ [d EXCEPT !.line.comment = TRUE].line.start = d.line.start
        /\ [d EXCEPT !.line.comment = TRUE].last = d.last
    BY <1>1 DEF Sound, CountType, LineType
  <2>3. QED
    BY <1>1, <1>2, <1>4, <2>1, <2>2 DEF Sound, Started
<1>5. QED
  BY <1>3, <1>4

LEMMA MarkSound ==
  ASSUME NEW c, Sound(c), NEW m \in Marks, NEW from \in Nat
  PROVE  /\ Sound(Mark(c, m, from))
         /\ m # "none" \/ c.line.start # NULL => Mark(c, m, from).line.start # NULL
<1>1. CASE m = "code"
  BY <1>1, CodeSound DEF Mark
<1>2. CASE m = "comment"
  BY <1>2, CommentSound DEF Mark
<1>3. CASE m = "none"
  BY <1>3 DEF Mark
<1>4. QED
  BY <1>1, <1>2, <1>3 DEF Marks

LEMMA EnqueueSound ==
  ASSUME NEW c, Sound(c)
  PROVE  Sound(Enqueue(c)) /\ Enqueue(c).line = c.line
<1>1. <<>> \in Seq(CallbackType)
  OBVIOUS
<1>2. Enqueue(c) \in CountType
  BY <1>1 DEF Enqueue, Sound, CountType
<1>3. Enqueue(c).line = c.line /\ Enqueue(c).last = c.line
  BY DEF Enqueue, Sound, CountType
<1>4. QED
  BY <1>2, <1>3 DEF Sound

LEMMA CommitSound ==
  ASSUME NEW c, Sound(c)
  PROVE  Sound(Commit(c)) /\ Commit(c).line = c.line
<1>1. c.out \o c.queue \in Seq(CallbackType)
  BY ConcatProperties DEF Sound, CountType
<1>2. <<>> \in Seq(CallbackType)
  OBVIOUS
<1>3. Commit(c) \in CountType
  BY <1>1, <1>2 DEF Commit, Sound, CountType
<1>4. Commit(c).line = c.line /\ Commit(c).last = c.last
  BY DEF Commit, Sound, CountType
<1>5. QED
  BY <1>3, <1>4 DEF Sound

LEMMA InternalNewlineSound ==
  ASSUME NEW c, Sound(c), c.line.start # NULL, NEW at \in Nat, file \in 1 .. NFiles
  PROVE  /\ Sound(InternalNewline(c, at))
         /\ InternalNewline(c, at).line.start # NULL
<1>. DEFINE item == Callback(Kind(c.line), c.line.start, at)
<1>1. item \in CallbackType
  BY CallbackTyped DEF Sound, CountType, LineType, NULL
<1>2. /\ Append(c.queue, item) \in Seq(CallbackType)
      /\ Append(c.out, item) \in Seq(CallbackType)
  BY <1>1, AppendProperties DEF Sound, CountType
<1>. DEFINE line == [NoLine EXCEPT !.start = at]
            d == IF at <= c.line.start THEN c
                 ELSE IF c.inqueue THEN [c EXCEPT !.queue = Append(@, item)]
                 ELSE [c EXCEPT !.out = Append(@, item)]
<1>3. line \in LineType /\ line.start = at /\ Started(line)
  BY DEF NoLine, LineType, Started, NULL
<1>4. InternalNewline(c, at) = [d EXCEPT !.line = line]
  BY DEF InternalNewline
<1>. HIDE DEF item, line
<1>5. d \in CountType /\ d.last = c.last
  BY <1>2 DEF Sound, CountType
<1>. HIDE DEF d
<1>6. /\ [d EXCEPT !.line = line] \in CountType
      /\ [d EXCEPT !.line = line].line = line
      /\ [d EXCEPT !.line = line].last = c.last
  BY <1>3, <1>5 DEF CountType
<1>7. QED
  BY <1>3, <1>4, <1>6 DEF Sound, NULL

LEMMA StdNewlineSound ==
  ASSUME NEW c, Sound(c), NEW from \in Nat, NEW te \in Nat, file \in 1 .. NFiles
  PROVE  Sound(StdNewline(c, from, te))
<1>. DEFINE d == Dequeue(c)
            s == IF Kind(d.line) = "lblank" THEN from ELSE d.line.start
            item == Callback(Kind(d.line), s, te)
<1>1. Sound(d)
  BY DequeueSound
<1>2. s \in Nat
  BY <1>1 DEF Sound, CountType, LineType, Started, Kind, NULL
<1>3. item \in CallbackType
  BY <1>1, <1>2, CallbackTyped DEF Sound, CountType
<1>4. Append(d.out, item) \in Seq(CallbackType)
  BY <1>1, <1>3, AppendProperties DEF Sound, CountType
<1>. HIDE DEF item
<1>5. StdNewline(c, from, te) =
        [d EXCEPT !.line = NoLine,
                  !.out = IF te > d.line.start THEN Append(d.out, item) ELSE d.out]
  BY <1>1 DEF StdNewline, item, Sound, CountType
<1>. DEFINE out == IF te > d.line.start THEN Append(d.out, item) ELSE d.out
            e == [d EXCEPT !.line = NoLine, !.out = out]
<1>6. out \in Seq(CallbackType)
  BY <1>1, <1>4 DEF Sound, CountType
<1>. HIDE DEF d, out
<1>7. e \in CountType /\ e.line = NoLine /\ e.last = d.last
  BY <1>1, <1>6, NoLineTyped DEF Sound, CountType
<1>8. QED
  BY <1>1, <1>5, <1>7, NoLineTyped DEF Sound, out

LEMMA LastLineSound ==
  ASSUME NEW c, Sound(c), pe \in Nat, file \in 1 .. NFiles
  PROVE  Sound(LastLine(c))
<1>. DEFINE item == Callback(Kind(c.line), c.line.start, pe)
<1>1. CASE Kind(c.line) = "lblank"
  BY <1>1 DEF LastLine
<1>2. CASE Kind(c.line) # "lblank"
  <2>1. c.line.start \in Nat
    BY <1>2 DEF Kind, Sound, CountType, LineType, Started, NULL
  <2>2. item \in CallbackType
    BY <2>1, CallbackTyped DEF Sound, CountType
  <2>3. Append(c.out, item) \in Seq(CallbackType)
    BY <2>2, AppendProperties DEF Sound, CountType
  <2>. HIDE DEF item
  <2>4. QED
    BY <1>2, <2>3 DEF LastLine, item, Sound, CountType
<1>3. QED
  BY <1>1, <1>2

LEMMA StartFileSound ==
  ASSUME NEW c, Sound(c)
  PROVE  Sound(StartFile(c)) /\ StartFile(c).out = <<>>
<1>1. <<>> \in Seq(CallbackType)
  OBVIOUS
<1>2. StartFile(c) \in CountType
  BY <1>1, NoLineTyped DEF StartFile, Sound, CountType
<1>3. /\ StartFile(c).line = NoLine /\ StartFile(c).last = c.last
      /\ StartFile(c).out = <<>>
  BY DEF StartFile, Sound, CountType
<1>4. QED
  BY <1>2, <1>3, NoLineTyped DEF Sound

-----------------------------------------------------------------------------
(* Each action keeps TypeInv.                                              *)

LEMMA RoleTyped ==
  ASSUME NEW r \in RegionType, NEW esc \in BOOLEAN, NEW n, NEW s
  PROVE  /\ Role(r, esc, n, s) \in {"newline", "stop", "inner", "close", "unnest",
                                    "nest", "escape", "blank"}
         /\ Role(r, esc, n, s) = "newline" => r.newline # {}
<1>1. /\ NewlineRole(r, esc) \in {"newline", "stop", "inner"}
      /\ NewlineRole(r, esc) = "newline" => r.newline # {}
  BY DEF NewlineRole
<1>2. CASE s = "nl"
  BY <1>1, <1>2 DEF Role, RegionType
<1>3. CASE s # "nl"
  BY <1>3 DEF Role, RegionType
<1>4. QED
  BY <1>2, <1>3

LEMMA RegionTyped ==
  ASSUME lang \in DOMAIN Scanners, NEW r \in Grammar
  PROVE  r \in RegionType /\ r # NoRegion /\ (r.newline # {} => r.mark # "none")
<1>1. r \in RegionType /\ (r.newline # {} => r.mark # "none")
  BY ScannersAssumption DEF Grammar
<1>2. "close" \in DOMAIN r /\ "close" \notin DOMAIN NoRegion
  BY <1>1 DEF RegionType, NoRegion
<1>3. QED
  BY <1>1, <1>2

LEMMA TypeInit == Init => TypeInv
<1>. SUFFICES ASSUME Init PROVE TypeInv
  OBVIOUS
<1>1. text \in Seq(STRING)
  BY TextsAssumption DEF Init
<1>2. pe \in Nat
  BY <1>1 DEF pe
<1>3. <<>> \in Seq(CallbackType)
  OBVIOUS
<1>4. Sound(count)
  BY <1>3, NoLineTyped DEF Init, CountInit, Sound, CountType
<1>5. TypeOK
  <2>1. count \in CountType
    BY <1>4 DEF Sound
  <2>2. /\ lang \in DOMAIN Scanners /\ region = NoRegion
        /\ escaped = FALSE /\ leaving = FALSE /\ pc = "scan" /\ entity = "none"
        /\ file = 1 /\ p = 0 /\ ts = 0 /\ nest = 0
    BY DEF Init
  <2>3. file \in 1 .. NFiles /\ p \in 0 .. pe /\ ts \in Nat /\ nest \in Int
    BY <1>2, <2>2, NFilesAssumption
  <2>4. QED
    BY <1>1, <2>1, <2>2, <2>3 DEF TypeOK, CountType
<1>6. ReadingInv
  BY Zenon DEF Init, ReadingInv, Within
<1>7. QED
  BY <1>4, <1>5, <1>6 DEF TypeInv

\* What every action between two tokens of the same text leaves to show.
LEMMA TokenStep ==
  ASSUME TypeInv, Outside, NEW e \in {"space", "any", "newline"},
         NEW te \in p + 1 .. pe, NEW c, Sound(c), Token(e, te, c)
  PROVE  TypeInv'
<1>1. /\ UNCHANGED <<lang, text, file, pc, region, escaped, nest, leaving>>
      /\ ts' = p /\ p' = te /\ entity' = e /\ count' = c
  BY DEF Token
<1>2. p' \in 0 .. pe' /\ ts' \in Nat
  BY <1>1 DEF TypeInv, TypeOK, pe
<1>3. count' \in CountType
  BY <1>1 DEF Sound
<1>4. TypeOK'
  BY <1>1, <1>2, <1>3 DEF TypeInv, TypeOK, CountType, Grammar
<1>5. ReadingInv'
  BY <1>1 DEF TypeInv, ReadingInv, Outside, Within
<1>6. QED
  BY <1>1, <1>4, <1>5 DEF TypeInv

LEMMA LeaveSound ==
  ASSUME TypeInv, Within, p \in 0 .. pe
  PROVE  Sound(Leave(count)) /\ EntityLeft \in {"none", "space", "any", "newline", "internal"}
         /\ (region.mark # "none" => Leave(count).line.start # NULL)
<1>1. leaving => count.line.start # NULL
  BY RegionTyped DEF TypeInv, TypeOK, ReadingInv, Within
<1>2. p \in Nat
  BY DEF TypeInv, TypeOK, pe
<1>3. CASE leaving
  BY <1>1, <1>2, <1>3, InternalNewlineSound DEF Leave, EntityLeft, TypeInv, TypeOK
<1>4. CASE ~leaving
  BY <1>4 DEF Leave, EntityLeft, TypeInv, TypeOK, ReadingInv
<1>5. QED
  BY <1>3, <1>4

LEMMA SpacesType == TypeInv /\ Spaces => TypeInv'
<1>. SUFFICES ASSUME TypeInv, Spaces PROVE TypeInv'
  OBVIOUS
<1>1. PICK te \in p + 1 .. pe : Token("space", te, Ls(Dequeue(count), p))
  BY DEF Spaces
<1>2. p \in Nat /\ Sound(count) /\ Outside
  BY DEF TypeInv, TypeOK, pe, Spaces
<1>3. QED
  BY <1>1, <1>2, DequeueSound, LsSound, TokenStep

LEMMA NewlineType == TypeInv /\ Newline => TypeInv'
<1>. SUFFICES ASSUME TypeInv, Newline PROVE TypeInv'
  OBVIOUS
<1>1. /\ p \in Nat /\ p + 1 \in p + 1 .. pe /\ Sound(count) /\ Outside
      /\ file \in 1 .. NFiles
  BY DEF TypeInv, TypeOK, pe, Newline
<1>2. Sound(StdNewline(count, p, p + 1))
  BY <1>1, StdNewlineSound
<1>3. QED
  BY <1>1, <1>2, TokenStep DEF Newline

LEMMA AnyCharType == TypeInv /\ AnyChar => TypeInv'
<1>. SUFFICES ASSUME TypeInv, AnyChar PROVE TypeInv'
  OBVIOUS
<1>1. p \in Nat /\ p + 1 \in p + 1 .. pe /\ Sound(count) /\ Outside
  BY DEF TypeInv, TypeOK, pe, AnyChar
<1>2. QED
  BY <1>1, DequeueSound, CodeSound, TokenStep DEF AnyChar

LEMMA OpenRegionType == TypeInv /\ OpenRegion => TypeInv'
<1>. SUFFICES ASSUME TypeInv, OpenRegion PROVE TypeInv'
  OBVIOUS
<1>1. /\ UNCHANGED <<lang, text, file, pc, escaped, leaving>>
      /\ ts' = p /\ p' = p + 1 /\ entity' = "any" /\ nest' = 0
      /\ pc = "scan" /\ region = NoRegion /\ p \in Nat /\ p < pe
  BY DEF OpenRegion, Outside, TypeInv, TypeOK, pe
<1>2. PICK r \in Grammar :
        /\ region' = r
        /\ count' = Mark(IF r.enqueue THEN Enqueue(count) ELSE count, r.mark, p)
  BY DEF OpenRegion
<1>3. r \in RegionType /\ r # NoRegion /\ r.mark \in Marks
  BY RegionTyped DEF TypeInv, TypeOK, RegionType
<1>. DEFINE c == IF r.enqueue THEN Enqueue(count) ELSE count
<1>4. Sound(c)
  BY EnqueueSound DEF TypeInv
<1>. HIDE DEF c
<1>5. Sound(count') /\ (r.mark # "none" => count'.line.start # NULL)
  BY <1>1, <1>2, <1>3, <1>4, MarkSound DEF c
<1>6. p' \in 0 .. pe' /\ ts' \in Nat
  BY <1>1 DEF TypeInv, TypeOK, pe
<1>7. TypeOK'
  BY <1>1, <1>2, <1>5, <1>6 DEF TypeInv, TypeOK, Sound, CountType, Grammar
<1>8. ReadingInv'
  BY <1>1, <1>2, <1>3, <1>5 DEF TypeInv, ReadingInv, Within
<1>9. QED
  BY <1>5, <1>7, <1>8 DEF TypeInv

LEMMA ReadRegionType == TypeInv /\ ReadRegion => TypeInv'
<1>. SUFFICES ASSUME TypeInv, ReadRegion PROVE TypeInv'
  OBVIOUS
<1>1. /\ UNCHANGED <<lang, text, file, pc, ts, region>>
      /\ p' = p + 1 /\ entity' = EntityLeft /\ leaving' = (RoleHere = "newline")
      /\ Within /\ RoleHere \notin {"stop", "close"}
  BY DEF ReadRegion
<1>2. /\ region \in RegionType /\ region # NoRegion
      /\ (region.newline # {} => region.mark # "none")
  BY <1>1, RegionTyped DEF TypeInv, TypeOK, Within
<1>3. p # pe /\ p \in 0 .. pe /\ pe \in Nat
  BY <1>1 DEF RoleHere, TypeInv, TypeOK, pe
<1>4. /\ RoleHere \in {"newline", "inner", "unnest", "nest", "escape", "blank"}
      /\ RoleHere = "newline" => region.newline # {}
  BY <1>1, <1>2, <1>3, RoleTyped DEF RoleHere, TypeInv, TypeOK
<1>. DEFINE m == CASE RoleHere \in {"inner", "nest", "unnest"} -> region.inner
                   [] RoleHere = "blank" -> region.blank
                   [] RoleHere \in {"escape", "newline"} -> "none"
<1>5. m \in Marks
  BY <1>2, <1>4 DEF RegionType, Marks
<1>6. count' = Mark(Leave(count), m, ts)
  BY DEF ReadRegion
<1>. HIDE DEF m
<1>7. /\ Sound(Leave(count))
      /\ EntityLeft \in {"none", "space", "any", "newline", "internal"}
      /\ region.mark # "none" => Leave(count).line.start # NULL
  BY <1>1, <1>3, LeaveSound
<1>8. Sound(count') /\ (region.mark # "none" => count'.line.start # NULL)
  BY <1>5, <1>6, <1>7, MarkSound DEF TypeInv, TypeOK
<1>9. escaped' \in BOOLEAN /\ nest' \in Int /\ leaving' \in BOOLEAN
  BY <1>4 DEF ReadRegion, TypeInv, TypeOK
<1>10. p' \in 0 .. pe'
  BY <1>1, <1>3 DEF pe
<1>11. TypeOK'
  BY <1>1, <1>7, <1>8, <1>9, <1>10 DEF TypeInv, TypeOK, Sound, CountType, Grammar
<1>12. ReadingInv'
  <2>1. ts' < p' /\ pc' = "scan" /\ region' # NoRegion
    BY <1>1, <1>2, <1>3 DEF TypeInv, TypeOK, ReadingInv, Within
  <2>2. ASSUME leaving' \/ entity' = "internal"
        PROVE  region.newline # {}
    <3>1. CASE leaving'
      BY <1>1, <1>4, <3>1
    <3>2. CASE entity' = "internal"
      BY <1>1, <3>2 DEF EntityLeft, TypeInv, ReadingInv
    <3>3. QED
      BY <2>2, <3>1, <3>2
  <2>3. QED
    BY <1>1, <1>8, <2>1, <2>2 DEF ReadingInv
<1>13. QED
  BY <1>8, <1>11, <1>12 DEF TypeInv

\* Leaving a region for position next.
LEMMA LeaveRegionStep ==
  ASSUME TypeInv, Within, NEW next \in 0 .. pe, NEW c, Sound(c),
         LeaveRegion(next, c),
         entity' \in {"none", "space", "any", "newline", "internal"}
  PROVE  TypeInv'
<1>1. /\ p' = next /\ count' = c /\ region' = NoRegion
      /\ escaped' = FALSE /\ leaving' = FALSE
      /\ UNCHANGED <<lang, text, file, pc, ts, nest>> /\ pc = "scan"
  BY DEF LeaveRegion, Within
<1>2. p' \in 0 .. pe'
  BY <1>1 DEF pe
<1>3. TypeOK'
  BY <1>1, <1>2 DEF TypeInv, TypeOK, Sound, CountType
<1>4. ReadingInv'
  BY <1>1 DEF ReadingInv, Within
<1>5. QED
  BY <1>1, <1>3, <1>4 DEF TypeInv

LEMMA CloseRegionType == TypeInv /\ CloseRegion => TypeInv'
<1>. SUFFICES ASSUME TypeInv, CloseRegion PROVE TypeInv'
  OBVIOUS
<1>. DEFINE c == IF region.commit THEN Commit(Leave(count)) ELSE Leave(count)
<1>1. /\ Within /\ RoleHere = "close" /\ entity' = EntityLeft
      /\ LeaveRegion(p + 1, Mark(c, region.last, ts))
  BY DEF CloseRegion
<1>2. p + 1 \in 0 .. pe /\ p \in 0 .. pe /\ ts \in Nat
  BY <1>1 DEF RoleHere, TypeInv, TypeOK, pe
<1>3. region.last \in Marks
  BY <1>1, RegionTyped DEF TypeInv, TypeOK, Within, RegionType
<1>4. Sound(c)
  BY <1>1, <1>2, LeaveSound, CommitSound
<1>. HIDE DEF c
<1>5. Sound(Mark(c, region.last, ts))
  BY <1>2, <1>3, <1>4, MarkSound
<1>6. QED
  BY <1>1, <1>2, <1>5, LeaveSound, LeaveRegionStep

LEMMA EndLineCommentType == TypeInv /\ EndLineComment => TypeInv'
<1>. SUFFICES ASSUME TypeInv, EndLineComment PROVE TypeInv'
  OBVIOUS
<1>1. Within /\ p \in 0 .. pe /\ entity' = EntityLeft /\ LeaveRegion(p, Leave(count))
  BY DEF EndLineComment, TypeInv, TypeOK
<1>2. QED
  BY <1>1, LeaveSound, LeaveRegionStep

LEMMA BacktrackType == TypeInv /\ Backtrack => TypeInv'
<1>. SUFFICES ASSUME TypeInv, Backtrack PROVE TypeInv'
  OBVIOUS
<1>. DEFINE c == IF entity = "internal"
                 THEN RestOfDelimiter(InternalNewline(count, ts))
                 ELSE Code(Dequeue(count), ts)
<1>1. Within /\ LeaveRegion(ts + 1, c) /\ entity' = entity
  BY DEF Backtrack
<1>2. ts \in Nat /\ ts + 1 \in 0 .. pe
  BY <1>1 DEF TypeInv, TypeOK, ReadingInv, pe
<1>3. Sound(c)
  <2>1. CASE entity = "internal"
    <3>1. count.line.start # NULL
      BY <1>1, <2>1, RegionTyped DEF TypeInv, TypeOK, ReadingInv, Within
    <3>2. Sound(InternalNewline(count, ts))
      BY <1>2, <3>1, InternalNewlineSound DEF TypeInv, TypeOK
    <3>3. QED
      BY <1>2, <2>1, <3>2, DequeueSound, CodeSound DEF RestOfDelimiter
  <2>2. CASE entity # "internal"
    BY <1>2, <2>2, DequeueSound, CodeSound DEF TypeInv
  <2>3. QED
    BY <2>1, <2>2
<1>. HIDE DEF c
<1>4. QED
  BY <1>1, <1>2, <1>3, LeaveRegionStep DEF TypeInv, TypeOK

LEMMA EndOfTextType == TypeInv /\ EndOfText => TypeInv'
<1>. SUFFICES ASSUME TypeInv, EndOfText PROVE TypeInv'
  OBVIOUS
<1>1. /\ count' = LastLine(count) /\ pc' = "parsed" /\ region = NoRegion
      /\ UNCHANGED <<lang, text, file, p, ts, region, escaped, nest, leaving, entity>>
  BY DEF EndOfText, Outside
<1>2. Sound(count')
  BY <1>1, LastLineSound DEF TypeInv, TypeOK, pe
<1>3. TypeOK'
  BY <1>1, <1>2 DEF TypeInv, TypeOK, Sound, CountType, Grammar, pe
<1>4. ReadingInv'
  BY <1>1 DEF TypeInv, ReadingInv, Within
<1>5. QED
  BY <1>2, <1>3, <1>4 DEF TypeInv

LEMMA NextFileType == TypeInv /\ NextFile => TypeInv'
<1>. SUFFICES ASSUME TypeInv, NextFile PROVE TypeInv'
  OBVIOUS
<1>1. /\ lang' \in DOMAIN Scanners /\ text' \in Texts[lang']
      /\ file' = file + 1 /\ file < NFiles /\ pc' = "scan"
      /\ p' = 0 /\ entity' = "none" /\ count' = StartFile(count)
      /\ UNCHANGED <<ts, region, escaped, nest, leaving>> /\ region = NoRegion
  BY TextsAssumption DEF NextFile, TypeInv, ReadingInv
<1>2. text' \in Seq(STRING) /\ pe' \in Nat
  BY <1>1, TextsAssumption DEF pe
<1>3. file' \in 1 .. NFiles
  BY <1>1, NFilesAssumption DEF TypeInv, TypeOK
<1>4. Sound(count') /\ count' \in CountType
  BY <1>1, StartFileSound DEF TypeInv, Sound
<1>5. TypeOK'
  BY <1>1, <1>2, <1>3, <1>4 DEF TypeInv, TypeOK, CountType
<1>6. ReadingInv'
  BY <1>1 DEF TypeInv, ReadingInv, Within
<1>7. Sound(count)'
  BY <1>4 DEF Sound
<1>8. QED
  BY <1>5, <1>6, <1>7 DEF TypeInv

LEMMA TypeStep == TypeInv /\ [Next]_vars => TypeInv'
<1>1. TypeInv /\ UNCHANGED vars => TypeInv'
  BY DEF vars, TypeInv, TypeOK, Sound, CountType, Started, ReadingInv, Within, Grammar, pe
<1>2. QED
  BY <1>1, SpacesType, NewlineType, AnyCharType, OpenRegionType, ReadRegionType,
     CloseRegionType, EndLineCommentType, BacktrackType, EndOfTextType, NextFileType
     DEF Next

\* Every reachable state is well typed, whatever the scanner and the text: no
\* callback is made for a line whose line_start is still NULL.
THEOREM TypeCorrect == Spec => []TypeOK
<1>1. TypeInv => TypeOK
  BY DEF TypeInv
<1>2. QED
  BY <1>1, TypeInit, TypeStep, PTL DEF Spec

-----------------------------------------------------------------------------
(* Reports in order.                                                       *)

LEMMA BeforeMore ==
  ASSUME NEW s \in Seq(CallbackType), NEW x \in Nat, NEW y \in Nat, x <= y, Before(s, x)
  PROVE  Before(s, y)
<1>. SUFFICES ASSUME NEW i \in 1 .. Len(s) PROVE s[i].e <= y
  BY DEF Before
<1>1. s[i] \in CallbackType /\ s[i].e <= x
  BY ElementOfSeq DEF Before
<1>2. s[i].e \in Nat
  BY <1>1 DEF CallbackType
<1>3. QED
  BY <1>1, <1>2

LEMMA AppendOrder ==
  ASSUME NEW s \in Seq(CallbackType), NEW item \in CallbackType
  PROVE  /\ Append(s, item) \in Seq(CallbackType)
         /\ Ordered(s) /\ Before(s, item.s) => Ordered(Append(s, item))
         /\ \A x \in Nat : Before(s, x) /\ item.e <= x => Before(Append(s, item), x)
         /\ \A o \in Seq(CallbackType) :
              Follows(o, s) /\ Before(o, item.s) => Follows(o, Append(s, item))
<1>1. /\ Append(s, item) \in Seq(CallbackType) /\ Len(s) \in Nat
      /\ Len(Append(s, item)) = Len(s) + 1
      /\ \A i \in 1 .. Len(s) : Append(s, item)[i] = s[i]
      /\ Append(s, item)[Len(s) + 1] = item
  BY AppendProperties
<1>2. \A i \in 1 .. Len(s) + 1 : i \in 1 .. Len(s) \/ i = Len(s) + 1
  BY <1>1
<1>3. Ordered(s) /\ Before(s, item.s) => Ordered(Append(s, item))
  BY <1>1, <1>2 DEF Ordered, Before
<1>4. \A x \in Nat : Before(s, x) /\ item.e <= x => Before(Append(s, item), x)
  BY <1>1, <1>2 DEF Before
<1>5. \A o \in Seq(CallbackType) :
        Follows(o, s) /\ Before(o, item.s) => Follows(o, Append(s, item))
  BY <1>1, <1>2 DEF Follows, Before
<1>6. QED
  BY <1>1, <1>3, <1>4, <1>5

LEMMA ConcatOrder ==
  ASSUME NEW o \in Seq(CallbackType), NEW q \in Seq(CallbackType)
  PROVE  /\ o \o q \in Seq(CallbackType)
         /\ Ordered(o) /\ Ordered(q) /\ Follows(o, q) => Ordered(o \o q)
         /\ \A x \in Nat : Before(o, x) /\ Before(q, x) => Before(o \o q, x)
<1>. DEFINE n == Len(o)
            k == Len(q)
<1>1. /\ o \o q \in Seq(CallbackType) /\ n \in Nat /\ k \in Nat
      /\ Len(o \o q) = n + k
      /\ \A i \in 1 .. n : (o \o q)[i] = o[i]
      /\ \A i \in n + 1 .. n + k : (o \o q)[i] = q[i - n] /\ i - n \in 1 .. k
  BY ConcatProperties, LenProperties
<1>. HIDE DEF n, k
<1>2. \A i \in 1 .. n + k : i \in 1 .. n \/ i \in n + 1 .. n + k
  BY <1>1
<1>3. ASSUME Ordered(o), Ordered(q), Follows(o, q)
      PROVE  Ordered(o \o q)
  <2>1. SUFFICES ASSUME NEW i \in 1 .. n + k, NEW j \in 1 .. n + k, i < j
                 PROVE  (o \o q)[i].e <= (o \o q)[j].s
    BY <1>1 DEF Ordered
  <2>2. CASE i \in 1 .. n /\ j \in 1 .. n
    BY <1>1, <1>3, <2>1, <2>2 DEF Ordered, n
  <2>3. CASE i \in 1 .. n /\ j \in n + 1 .. n + k
    BY <1>1, <1>3, <2>3 DEF Follows, n, k
  <2>4. CASE i \in n + 1 .. n + k /\ j \in n + 1 .. n + k
    <3>1. i - n \in 1 .. k /\ j - n \in 1 .. k /\ i - n < j - n
      BY <1>1, <2>1, <2>4
    <3>2. QED
      BY <1>1, <1>3, <2>4, <3>1 DEF Ordered, k
  <2>5. CASE i \in n + 1 .. n + k /\ j \in 1 .. n
    BY <1>1, <2>1, <2>5
  <2>6. QED
    BY <1>2, <2>2, <2>3, <2>4, <2>5
<1>4. \A x \in Nat : Before(o, x) /\ Before(q, x) => Before(o \o q, x)
  BY <1>1, <1>2 DEF Before, n, k
<1>5. QED
  BY <1>1, <1>3, <1>4

LEMMA EmptyOrder ==
  /\ <<>> \in Seq(CallbackType) /\ Ordered(<<>>)
  /\ \A x : Before(<<>>, x)
  /\ \A o : Follows(o, <<>>)
  BY DEF Ordered, Before, Follows

-----------------------------------------------------------------------------
(* What the macros and actions do to the parts of the counting globals.    *)

\* d is c, where the line may now begin at from if it had not begun.
Begins(c, d, from) ==
    /\ d.out = c.out /\ d.queue = c.queue
    /\ d.last = c.last /\ d.inqueue = c.inqueue
    /\ \/ d.line.start = c.line.start
       \/ c.line.start = NULL /\ d.line.start = from

LEMMA LsBegins ==
  ASSUME NEW c, Sound(c), NEW from \in Nat
  PROVE  Begins(c, Ls(c, from), from)
  BY DEF Sound, CountType, LineType, Begins, Ls

LEMMA CodeBegins ==
  ASSUME NEW c, Sound(c), NEW from \in Nat
  PROVE  Begins(c, Code(c, from), from)
<1>. DEFINE d == IF c.line.code THEN c ELSE Ls(c, from)
<1>1. Sound(d) /\ Begins(c, d, from)
  BY LsSound, LsBegins DEF Begins
<1>2. Code(c, from) = [d EXCEPT !.line.code = TRUE]
  BY DEF Code
<1>. HIDE DEF d
<1>3. QED
  BY <1>1, <1>2 DEF Begins, Sound, CountType, LineType

LEMMA CommentBegins ==
  ASSUME NEW c, Sound(c), NEW from \in Nat
  PROVE  Begins(c, Comment(c, from), from)
<1>. DEFINE d == Ls(c, from)
<1>1. Sound(d) /\ Begins(c, d, from) /\ Begins(c, c, from)
  BY LsSound, LsBegins DEF Begins
<1>2. Comment(c, from) = IF c.line.code THEN c ELSE [d EXCEPT !.line.comment = TRUE]
  BY DEF Comment
<1>. HIDE DEF d
<1>3. Begins(c, [d EXCEPT !.line.comment = TRUE], from)
  BY <1>1 DEF Begins, Sound, CountType, LineType
<1>4. QED
  BY <1>1, <1>2, <1>3

LEMMA MarkBegins ==
  ASSUME NEW c, Sound(c), NEW m \in Marks, NEW from \in Nat
  PROVE  Begins(c, Mark(c, m, from), from)
<1>1. CASE m = "code"
  BY <1>1, CodeBegins DEF Mark
<1>2. CASE m = "comment"
  BY <1>2, CommentBegins DEF Mark
<1>3. CASE m = "none"
  BY <1>3 DEF Mark, Begins
<1>4. QED
  BY <1>1, <1>2, <1>3 DEF Marks

LEMMA DequeueParts ==
  ASSUME NEW c, Sound(c)
  PROVE  /\ Dequeue(c).out = c.out /\ ~Dequeue(c).inqueue
         /\ Dequeue(c).line = IF c.inqueue THEN c.last ELSE c.line
  BY DEF Sound, CountType, Dequeue

LEMMA EnqueueParts ==
  ASSUME NEW c, Sound(c)
  PROVE  /\ Enqueue(c).out = c.out /\ Enqueue(c).queue = <<>>
         /\ Enqueue(c).line = c.line /\ Enqueue(c).last = c.line
         /\ Enqueue(c).inqueue
  BY DEF Sound, CountType, Enqueue

LEMMA CommitParts ==
  ASSUME NEW c, Sound(c), c.inqueue
  PROVE  /\ Commit(c).out = c.out \o c.queue
         /\ Commit(c).line = c.line /\ ~Commit(c).inqueue
  BY DEF Sound, CountType, Commit

LEMMA InternalNewlineParts ==
  ASSUME NEW c, Sound(c), c.line.start # NULL, NEW at \in Nat, file \in 1 .. NFiles
  PROVE  LET d == InternalNewline(c, at)
         IN  /\ d.line.start = at /\ d.last = c.last /\ d.inqueue = c.inqueue
             /\ c.inqueue => d.out = c.out
             /\ ~c.inqueue => d.queue = c.queue
             /\ \E item \in CallbackType :
                  /\ item.s = c.line.start /\ item.e = at
                  /\ d.out = c.out \/ d.out = Append(c.out, item)
                  /\ d.queue = c.queue \/ d.queue = Append(c.queue, item)
<1>. DEFINE item == Callback(Kind(c.line), c.line.start, at)
            line == [NoLine EXCEPT !.start = at]
            d == IF at <= c.line.start THEN c
                 ELSE IF c.inqueue THEN [c EXCEPT !.queue = Append(@, item)]
                 ELSE [c EXCEPT !.out = Append(@, item)]
<1>1. item \in CallbackType /\ item.s = c.line.start /\ item.e = at
  BY CallbackTyped DEF Sound, CountType, LineType, NULL, Callback
<1>2. /\ Append(c.queue, item) \in Seq(CallbackType)
      /\ Append(c.out, item) \in Seq(CallbackType)
  BY <1>1, AppendProperties DEF Sound, CountType
<1>3. line \in LineType /\ line.start = at
  BY DEF NoLine, LineType
<1>4. InternalNewline(c, at) = [d EXCEPT !.line = line]
  BY DEF InternalNewline
<1>. HIDE DEF item, line
<1>5. /\ d \in CountType /\ d.last = c.last /\ d.inqueue = c.inqueue
      /\ c.inqueue => d.out = c.out
      /\ ~c.inqueue => d.queue = c.queue
      /\ d.out = c.out \/ d.out = Append(c.out, item)
      /\ d.queue = c.queue \/ d.queue = Append(c.queue, item)
  BY <1>2 DEF Sound, CountType
<1>. HIDE DEF d
<1>6. LET e == [d EXCEPT !.line = line]
      IN  /\ e.line = line /\ e.last = d.last /\ e.inqueue = d.inqueue
          /\ e.out = d.out /\ e.queue = d.queue
  BY <1>3, <1>5 DEF CountType
<1>7. QED
  BY <1>1, <1>3, <1>4, <1>5, <1>6

-----------------------------------------------------------------------------
(* Between tokens.                                                         *)

LEMMA SoundParts ==
  ASSUME NEW c, Sound(c)
  PROVE  /\ c.out \in Seq(CallbackType) /\ c.queue \in Seq(CallbackType)
         /\ c.line.start # NULL => c.line.start \in Nat
         /\ c.last.start # NULL => c.last.start \in Nat
         /\ c.inqueue \in BOOLEAN
  BY DEF Sound, CountType, LineType

LEMMA SettledMore ==
  ASSUME NEW c, Sound(c), NEW x \in Nat, NEW y \in Nat, x <= y, Settled(c, x)
  PROVE  Settled(c, y)
  BY SoundParts, BeforeMore DEF Settled, Fits

LEMMA DequeueSettled ==
  ASSUME NEW c, Sound(c), NEW x \in Nat, Settled(c, x)
  PROVE  Settled(Dequeue(c), x)
  BY DequeueParts DEF Settled

LEMMA BeginsSettled ==
  ASSUME NEW c, Sound(c), NEW d, NEW x \in Nat, NEW from \in Nat, from <= x,
         Settled(c, x), Begins(c, d, from), c.line.start = NULL => Before(c.out, from)
  PROVE  Settled(d, x)
  BY SoundParts DEF Settled, Fits, Begins

\* A token that ends at te leaves the scanner outside.
LEMMA TokenOrder ==
  ASSUME TypeInv, Outside, NEW e \in {"space", "any", "newline"},
         NEW te \in p + 1 .. pe, NEW c, Token(e, te, c), Settled(c, te)
  PROVE  OrderInv'
  BY DEF OrderInv, Token, Outside, Within, Settled, Fits, Before, Ordered

LEMMA SpacesOrder == TypeInv /\ OrderInv /\ Spaces => OrderInv'
<1>. SUFFICES ASSUME TypeInv, OrderInv, Spaces PROVE OrderInv'
  OBVIOUS
<1>1. PICK te \in p + 1 .. pe : Token("space", te, Ls(Dequeue(count), p))
  BY DEF Spaces
<1>2. /\ p \in Nat /\ te \in Nat /\ p <= te
      /\ Sound(count) /\ Outside /\ Settled(count, p)
  BY DEF TypeInv, TypeOK, pe, Spaces, OrderInv
<1>. DEFINE c == Dequeue(count)
            d == Ls(c, p)
<1>3. Sound(c) /\ Settled(c, p) /\ Sound(d) /\ Begins(c, d, p)
  BY <1>2, DequeueSound, DequeueSettled, LsSound, LsBegins
<1>. HIDE DEF c, d
<1>4. Settled(d, p)
  BY <1>2, <1>3, BeginsSettled DEF Settled
<1>5. Settled(d, te)
  BY <1>2, <1>3, <1>4, SettledMore
<1>6. QED
  BY <1>1, <1>2, <1>5, TokenOrder DEF c, d

LEMMA AnyCharOrder == TypeInv /\ OrderInv /\ AnyChar => OrderInv'
<1>. SUFFICES ASSUME TypeInv, OrderInv, AnyChar PROVE OrderInv'
  OBVIOUS
<1>. DEFINE c == Dequeue(count)
            d == Code(c, p)
<1>1. Token("any", p + 1, d)
  BY DEF AnyChar
<1>2. /\ p \in Nat /\ p + 1 \in Nat /\ p + 1 \in p + 1 .. pe /\ p <= p + 1
      /\ Sound(count) /\ Outside /\ Settled(count, p)
  BY DEF TypeInv, TypeOK, pe, AnyChar, OrderInv
<1>3. Sound(c) /\ Settled(c, p) /\ Sound(d) /\ Begins(c, d, p)
  BY <1>2, DequeueSound, DequeueSettled, CodeSound, CodeBegins
<1>. HIDE DEF c, d
<1>4. Settled(d, p)
  BY <1>2, <1>3, BeginsSettled DEF Settled
<1>5. Settled(d, p + 1)
  BY <1>2, <1>3, <1>4, SettledMore
<1>6. QED
  BY <1>1, <1>2, <1>5, TokenOrder

LEMMA StdNewlineSettled ==
  ASSUME NEW c, Sound(c), NEW x \in Nat, Settled(c, x), file \in 1 .. NFiles
  PROVE  Settled(StdNewline(c, x, x + 1), x + 1)
<1>. DEFINE d == Dequeue(c)
            s == IF Kind(d.line) = "lblank" THEN x ELSE d.line.start
            item == Callback(Kind(d.line), s, x + 1)
            out == IF x + 1 > d.line.start THEN Append(d.out, item) ELSE d.out
            e == [d EXCEPT !.line = NoLine, !.out = out]
<1>1. Sound(d) /\ Settled(d, x) /\ ~d.inqueue
  BY DequeueSound, DequeueSettled
<1>2. /\ s \in Nat /\ Before(d.out, s)
      /\ item \in CallbackType /\ item.s = s /\ item.e = x + 1
  <2>1. CASE Kind(d.line) = "lblank"
    BY <1>1, <2>1, CallbackTyped DEF Settled, Sound, CountType, Callback
  <2>2. CASE Kind(d.line) # "lblank"
    <3>1. d.line.start # NULL
      BY <1>1, <2>2 DEF Sound, Started, Kind
    <3>2. s \in Nat /\ Before(d.out, s)
      BY <1>1, <2>2, <3>1, SoundParts DEF Settled, Fits
    <3>3. QED
      BY <1>1, <2>2, <3>2, CallbackTyped DEF Sound, CountType, Callback
  <2>3. QED
    BY <2>1, <2>2
<1>. HIDE DEF item, s
<1>3. d.out \in Seq(CallbackType) /\ x + 1 \in Nat /\ Before(d.out, x + 1) /\ Ordered(d.out)
  BY <1>1, SoundParts, BeforeMore DEF Settled
<1>4. out \in Seq(CallbackType) /\ Ordered(out) /\ Before(out, x + 1)
  BY <1>2, <1>3, AppendOrder
<1>5. StdNewline(c, x, x + 1) = e
  BY DEF StdNewline, item, s
<1>. HIDE DEF d, out
<1>6. e.out = out /\ e.line.start = NULL /\ ~e.inqueue
  BY <1>1 DEF Sound, CountType, NoLine
<1>. HIDE DEF e
<1>7. Settled(e, x + 1)
  BY <1>4, <1>6 DEF Settled, Fits
<1>8. QED
  BY <1>5, <1>7

LEMMA NewlineOrder == TypeInv /\ OrderInv /\ Newline => OrderInv'
<1>. SUFFICES ASSUME TypeInv, OrderInv, Newline PROVE OrderInv'
  OBVIOUS
<1>1. /\ p \in Nat /\ p + 1 \in p + 1 .. pe /\ file \in 1 .. NFiles
      /\ Sound(count) /\ Outside /\ Settled(count, p)
  BY DEF TypeInv, TypeOK, pe, Newline, OrderInv
<1>2. Settled(StdNewline(count, p, p + 1), p + 1)
  BY <1>1, StdNewlineSettled
<1>3. QED
  BY <1>1, <1>2, TokenOrder DEF Newline

-----------------------------------------------------------------------------
(* Inside a region.                                                        *)

LEMMA OpenRegionOrder == TypeInv /\ OrderInv /\ OpenRegion => OrderInv'
<1>. SUFFICES ASSUME TypeInv, OrderInv, OpenRegion PROVE OrderInv'
  OBVIOUS
<1>1. /\ ts' = p /\ p' = p + 1 /\ Outside /\ pc' = pc
      /\ p \in Nat /\ p + 1 \in Nat /\ p <= p + 1
      /\ Sound(count) /\ Settled(count, p)
  BY DEF OpenRegion, Outside, TypeInv, TypeOK, pe, OrderInv
<1>2. PICK r \in Grammar :
        /\ region' = r
        /\ count' = Mark(IF r.enqueue THEN Enqueue(count) ELSE count, r.mark, p)
  BY DEF OpenRegion
<1>3. r \in RegionType /\ r # NoRegion /\ r.mark \in Marks
  BY RegionTyped DEF TypeInv, TypeOK, RegionType
<1>. DEFINE c == IF r.enqueue THEN Enqueue(count) ELSE count
            d == Mark(c, r.mark, p)
<1>4. /\ Sound(c) /\ Settled(c, p)
      /\ r.enqueue => c.queue = <<>> /\ c.inqueue
  BY <1>1, EnqueueSound, EnqueueParts DEF Settled
<1>5. count' = d
  BY <1>2
<1>. HIDE DEF c
<1>6. Sound(d) /\ Begins(c, d, p)
  BY <1>1, <1>3, <1>4, MarkSound, MarkBegins
<1>. HIDE DEF d
<1>7. Settled(d, p)
  BY <1>1, <1>4, <1>6, BeginsSettled DEF Settled
<1>8. Settled(d, p + 1)
  BY <1>1, <1>6, <1>7, SettledMore
<1>9. r.enqueue => Queueing(d, p + 1)
  BY <1>4, <1>6, <1>8, EmptyOrder DEF Queueing, Begins, Settled, Fits
<1>10. InRegion(count, p)'
  <2>1. Settled(count', p') /\ (region'.enqueue => Queueing(count', p'))
    BY <1>1, <1>2, <1>5, <1>8, <1>9
  <2>2. /\ count'.inqueue => Fits(count'.last, count'.out, ts')
        /\ Before(count'.out, ts') /\ Fits(count'.line, count'.out, ts')
    BY <1>1, <1>5, <1>7 DEF Settled
  <2>3. QED
    BY <2>1, <2>2 DEF InRegion, Settled, Queueing, Fits, Before, Follows, Ordered
<1>11. QED
  BY <1>1, <1>2, <1>3, <1>10 DEF OrderInv, Outside, Within, InRegion, Settled

LEMMA InRegionMore ==
  ASSUME TypeInv, NEW c, Sound(c), NEW x \in Nat, NEW y \in Nat, x <= y, InRegion(c, x)
  PROVE  InRegion(c, y)
<1>1. Queueing(c, x) => Queueing(c, y)
  BY SoundParts, BeforeMore DEF Queueing, Fits
<1>2. QED
  BY <1>1, SettledMore DEF InRegion

LEMMA BeginsInRegion ==
  ASSUME TypeInv, NEW c, Sound(c), NEW d, NEW x \in Nat, ts <= x, InRegion(c, x),
         Begins(c, d, ts)
  PROVE  InRegion(d, x)
<1>1. ts \in Nat
  BY DEF TypeInv, TypeOK
<1>2. Settled(d, x)
  BY <1>1, BeginsSettled DEF InRegion
<1>3. /\ d.inqueue => Fits(d.last, d.out, ts)
      /\ region.close # "eol" \/ d.line.start = NULL => Before(d.out, ts)
  BY DEF InRegion, Begins
<1>4. region.close # "eol" /\ ~region.enqueue => Fits(d.line, d.out, ts)
  BY <1>1 DEF InRegion, Begins, Fits
<1>5. region.enqueue => Queueing(d, x)
  BY <1>1, EmptyOrder DEF InRegion, Begins, Queueing, Fits
<1>6. QED
  BY <1>2, <1>3, <1>4, <1>5 DEF InRegion

\* A region other than a line comment that holds a newline has enqueued.
LEMMA NewlineEnqueued ==
  ASSUME TypeInv, Within, Enqueues, OrderInv, region.newline # {}, region.close # "eol"
  PROVE  region.enqueue /\ count.inqueue
  BY DEF TypeInv, TypeOK, Within, Enqueues, OrderInv, InRegion, Queueing

LEMMA LeaveOrder ==
  ASSUME TypeInv, OrderInv, Within, Enqueues
  PROVE  InRegion(Leave(count), p)
<1>1. CASE ~leaving
  BY <1>1 DEF Leave, OrderInv
<1>2. CASE leaving
  <2>. DEFINE d == InternalNewline(count, p)
  <2>1. /\ p \in Nat /\ ts \in Nat /\ ts <= p /\ file \in 1 .. NFiles
        /\ InRegion(count, p) /\ Sound(count)
        /\ region.newline # {} /\ count.line.start # NULL
        /\ region.enqueue \in BOOLEAN
    BY <1>2, RegionTyped DEF TypeInv, TypeOK, ReadingInv, Within, OrderInv, pe, RegionType
  <2>2. PICK item \in CallbackType :
          /\ item.s = count.line.start /\ item.e = p
          /\ d.out = count.out \/ d.out = Append(count.out, item)
          /\ d.queue = count.queue \/ d.queue = Append(count.queue, item)
    BY <2>1, InternalNewlineParts
  <2>3. /\ d.line.start = p /\ d.last = count.last /\ d.inqueue = count.inqueue
        /\ count.inqueue => d.out = count.out
        /\ ~count.inqueue => d.queue = count.queue
        /\ Sound(d)
    BY <2>1, InternalNewlineParts, InternalNewlineSound
  <2>4. Leave(count) = d
    BY <1>2 DEF Leave
  <2>. HIDE DEF d
  <2>5. /\ count.out \in Seq(CallbackType) /\ count.queue \in Seq(CallbackType)
        /\ Ordered(count.out) /\ Before(count.out, p) /\ Before(count.out, item.s)
    BY <2>1, <2>2, SoundParts DEF InRegion, Settled, Fits
  <2>6. Ordered(d.out) /\ Before(d.out, p)
    <3>1. /\ Ordered(Append(count.out, item)) /\ Before(Append(count.out, item), p)
      BY <2>1, <2>2, <2>5, AppendOrder
    <3>2. QED
      BY <2>2, <2>5, <3>1
  <2>7. d.line.start # NULL
    BY <2>1, <2>3 DEF NULL
  <2>8. Settled(d, p) /\ (d.inqueue => Fits(d.last, d.out, ts))
    BY <2>1, <2>3, <2>6 DEF Settled, Fits, InRegion
  <2>9. region.close # "eol" => region.enqueue /\ Before(d.out, ts)
    BY <2>1, <2>3, NewlineEnqueued DEF InRegion
  <2>10. ASSUME region.enqueue PROVE Queueing(d, p)
    <3>1. Queueing(count, p) /\ d.out = count.out
      BY <2>1, <2>3, <2>10 DEF InRegion, Queueing
    <3>2. Before(count.queue, item.s)
      BY <2>1, <2>2, <3>1 DEF Queueing, Fits
    <3>3. Ordered(d.queue) /\ Before(d.queue, p) /\ Follows(d.out, d.queue)
      <4>1. /\ Ordered(count.queue) /\ Before(count.queue, p)
            /\ Follows(count.out, count.queue)
        BY <3>1 DEF Queueing
      <4>. DEFINE longer == Append(count.queue, item)
      <4>2. Ordered(longer) /\ Before(longer, p) /\ Follows(count.out, longer)
        BY <2>1, <2>2, <2>5, <3>2, <4>1, AppendOrder
      <4>. HIDE DEF longer
      <4>3. d.queue = count.queue \/ d.queue = longer
        BY <2>2 DEF longer
      <4>4. QED
        BY <3>1, <4>1, <4>2, <4>3
    <3>4. QED
      BY <2>3, <2>7, <3>1, <3>3, <2>1 DEF Queueing, Fits
  <2>11. QED
    BY <2>4, <2>7, <2>8, <2>9, <2>10 DEF InRegion
<1>3. QED
  BY <1>1, <1>2 DEF TypeInv, TypeOK

LEMMA ReadRegionOrder == TypeInv /\ OrderInv /\ Enqueues /\ ReadRegion => OrderInv'
<1>. SUFFICES ASSUME TypeInv, OrderInv, Enqueues, ReadRegion PROVE OrderInv'
  OBVIOUS
<1>1. /\ UNCHANGED <<pc, ts, region>> /\ p' = p + 1
      /\ Within /\ RoleHere \notin {"stop", "close"}
  BY DEF ReadRegion
<1>2. /\ p \in 0 .. pe /\ p \in Nat /\ p + 1 \in Nat /\ p # pe
      /\ ts \in Nat /\ ts <= p /\ p <= p + 1 /\ ts <= p + 1
  BY <1>1 DEF RoleHere, TypeInv, TypeOK, ReadingInv, pe
<1>3. RoleHere \in {"newline", "inner", "unnest", "nest", "escape", "blank"}
  BY <1>1, <1>2, RegionTyped, RoleTyped DEF RoleHere, TypeInv, TypeOK, Within
<1>. DEFINE m == CASE RoleHere \in {"inner", "nest", "unnest"} -> region.inner
                   [] RoleHere = "blank" -> region.blank
                   [] RoleHere \in {"escape", "newline"} -> "none"
            c == Leave(count)
            d == Mark(c, m, ts)
<1>4. m \in Marks
  BY <1>1, <1>3, RegionTyped DEF RegionType, Marks, TypeInv, TypeOK, Within
<1>5. count' = d
  BY DEF ReadRegion
<1>. HIDE DEF m
<1>6. Sound(c) /\ InRegion(c, p)
  BY <1>1, <1>2, LeaveSound, LeaveOrder
<1>. HIDE DEF c
<1>7. Sound(d) /\ Begins(c, d, ts)
  BY <1>2, <1>4, <1>6, MarkSound, MarkBegins
<1>. HIDE DEF d
<1>8. InRegion(d, p)
  BY <1>2, <1>6, <1>7, BeginsInRegion
<1>9. InRegion(d, p + 1)
  BY <1>2, <1>7, <1>8, InRegionMore
<1>10. InRegion(count, p)'
  BY <1>1, <1>5, <1>9
     DEF InRegion, Settled, Queueing, Fits, Before, Follows, Ordered
<1>11. QED
  BY <1>1, <1>10 DEF OrderInv, Within, Outside, InRegion, Settled

\* A region is left for next, and what was reported is settled there.
LEMMA LeaveRegionOrder ==
  ASSUME TypeInv, Within, NEW next \in Nat, NEW c, Settled(c, next), LeaveRegion(next, c)
  PROVE  OrderInv'
  BY DEF LeaveRegion, OrderInv, Outside, Within, Settled, Fits, Before, Ordered

\* commit reports the queue, which follows everything reported before.
LEMMA CommitSettled ==
  ASSUME TypeInv, NEW c, Sound(c), region.enqueue, NEW x \in Nat, InRegion(c, x),
         c.line.start = NULL => Before(c.out, ts)
  PROVE  /\ Settled(Commit(c), x)
         /\ Commit(c).line.start = NULL => Before(Commit(c).out, ts)
<1>1. /\ Queueing(c, x) /\ Settled(c, x) /\ c.inqueue /\ ts \in Nat
  BY DEF InRegion, Queueing, TypeInv, TypeOK
<1>2. /\ c.out \in Seq(CallbackType) /\ c.queue \in Seq(CallbackType)
      /\ c.line.start # NULL => c.line.start \in Nat
  BY SoundParts
<1>. DEFINE out == c.out \o c.queue
<1>3. /\ Commit(c).out = out /\ Commit(c).line = c.line /\ ~Commit(c).inqueue
  BY <1>1, CommitParts
<1>4. Ordered(out) /\ Before(out, x)
  BY <1>1, <1>2, ConcatOrder DEF Queueing, Settled
<1>5. c.line.start # NULL => c.line.start <= x /\ Before(out, c.line.start)
  BY <1>1, <1>2, ConcatOrder DEF Queueing, Settled, Fits
<1>6. c.line.start = NULL => Before(out, ts)
  BY <1>1, <1>2, EmptyOrder, ConcatOrder DEF Queueing
<1>. HIDE DEF out
<1>7. QED
  BY <1>3, <1>4, <1>5, <1>6 DEF Settled, Fits

LEMMA CloseRegionOrder == TypeInv /\ OrderInv /\ Enqueues /\ CloseRegion => OrderInv'
<1>. SUFFICES ASSUME TypeInv, OrderInv, Enqueues, CloseRegion PROVE OrderInv'
  OBVIOUS
<1>. DEFINE c == Leave(count)
            d == IF region.commit THEN Commit(c) ELSE c
            e == Mark(d, region.last, ts)
<1>1. Within /\ RoleHere = "close" /\ LeaveRegion(p + 1, e)
  BY DEF CloseRegion
<1>2. /\ p \in 0 .. pe /\ p \in Nat /\ p + 1 \in Nat /\ p <= p + 1
      /\ ts \in Nat /\ ts <= p
  BY <1>1 DEF TypeInv, TypeOK, ReadingInv, pe
<1>3. region.last \in Marks /\ (region.commit => region.enqueue)
  BY <1>1, RegionTyped DEF TypeInv, TypeOK, Within, RegionType, Enqueues
<1>4. Sound(c) /\ InRegion(c, p) /\ (c.line.start = NULL => Before(c.out, ts))
  BY <1>1, <1>2, LeaveSound, LeaveOrder DEF InRegion
<1>. HIDE DEF c
<1>5. Sound(d) /\ Settled(d, p) /\ (d.line.start = NULL => Before(d.out, ts))
  BY <1>2, <1>3, <1>4, CommitSound, CommitSettled DEF InRegion
<1>. HIDE DEF d
<1>6. Sound(e) /\ Begins(d, e, ts)
  BY <1>2, <1>3, <1>5, MarkSound, MarkBegins
<1>. HIDE DEF e
<1>7. Settled(e, p)
  BY <1>2, <1>5, <1>6, BeginsSettled
<1>8. Settled(e, p + 1)
  BY <1>2, <1>6, <1>7, SettledMore
<1>9. QED
  BY <1>1, <1>2, <1>8, LeaveRegionOrder

LEMMA EndLineCommentOrder ==
  TypeInv /\ OrderInv /\ Enqueues /\ EndLineComment => OrderInv'
<1>. SUFFICES ASSUME TypeInv, OrderInv, Enqueues, EndLineComment PROVE OrderInv'
  OBVIOUS
<1>1. Within /\ LeaveRegion(p, Leave(count)) /\ p \in Nat
  BY DEF EndLineComment, TypeInv, TypeOK, pe
<1>2. Settled(Leave(count), p)
  BY <1>1, LeaveOrder DEF InRegion
<1>3. QED
  BY <1>1, <1>2, LeaveRegionOrder

LEMMA BacktrackOrder == TypeInv /\ OrderInv /\ Enqueues /\ Backtrack => OrderInv'
<1>. SUFFICES ASSUME TypeInv, OrderInv, Enqueues, Backtrack PROVE OrderInv'
  OBVIOUS
<1>. DEFINE i == InternalNewline(count, ts)
            c == IF entity = "internal" THEN RestOfDelimiter(i)
                 ELSE Code(Dequeue(count), ts)
<1>1. Within /\ LeaveRegion(ts + 1, c) /\ region.close # "eol"
  BY DEF Backtrack
<1>2. /\ ts \in Nat /\ ts + 1 \in Nat /\ ts <= ts + 1 /\ file \in 1 .. NFiles
      /\ Sound(count) /\ InRegion(count, p) /\ region.enqueue \in BOOLEAN
  BY <1>1, RegionTyped DEF TypeInv, TypeOK, OrderInv, Within, RegionType
<1>3. /\ Ordered(count.out) /\ Before(count.out, ts)
      /\ count.inqueue => Fits(count.last, count.out, ts)
      /\ ~count.inqueue => Fits(count.line, count.out, ts)
  BY <1>1, <1>2 DEF InRegion, Settled, Queueing
\* What code does once the token is given up.
<1>4. ASSUME NEW d, Sound(d), Settled(d, ts)
      PROVE  Sound(Code(Dequeue(d), ts)) /\ Settled(Code(Dequeue(d), ts), ts)
  <2>1. Sound(Dequeue(d)) /\ Settled(Dequeue(d), ts)
    BY <1>2, <1>4, DequeueSound, DequeueSettled
  <2>2. /\ Sound(Code(Dequeue(d), ts))
        /\ Begins(Dequeue(d), Code(Dequeue(d), ts), ts)
    BY <1>2, <2>1, CodeSound, CodeBegins
  <2>3. QED
    BY <1>2, <2>1, <2>2, BeginsSettled DEF Settled
<1>5. Sound(c) /\ Settled(c, ts)
  <2>1. CASE entity = "internal"
    <3>1. region.newline # {} /\ count.line.start # NULL
      BY <1>1, <2>1, RegionTyped DEF TypeInv, TypeOK, ReadingInv, Within
    <3>2. count.inqueue
      BY <1>1, <3>1, NewlineEnqueued
    <3>3. /\ i.line.start = ts /\ i.last = count.last /\ i.out = count.out
          /\ i.inqueue = count.inqueue /\ Sound(i)
      BY <1>2, <3>1, <3>2, InternalNewlineParts, InternalNewlineSound
    <3>. HIDE DEF i
    <3>4. Settled(i, ts)
      BY <1>2, <1>3, <3>2, <3>3 DEF Settled, Fits
    <3>5. c = IF region.long THEN Code(Dequeue(i), ts) ELSE i
      BY <2>1 DEF RestOfDelimiter
    <3>6. QED
      BY <1>4, <3>3, <3>4, <3>5
  <2>2. CASE entity # "internal"
    <3>1. Sound(Dequeue(count)) /\ Settled(Dequeue(count), ts)
      BY <1>2, <1>3, DequeueSound, DequeueParts DEF Settled
    <3>2. /\ Sound(Code(Dequeue(count), ts))
          /\ Begins(Dequeue(count), Code(Dequeue(count), ts), ts)
      BY <1>2, <3>1, CodeSound, CodeBegins
    <3>3. QED
      BY <1>2, <2>2, <3>1, <3>2, BeginsSettled DEF Settled
  <2>3. QED
    BY <2>1, <2>2
<1>. HIDE DEF c
<1>6. Settled(c, ts + 1)
  BY <1>2, <1>5, SettledMore
<1>7. QED
  BY <1>1, <1>2, <1>6, LeaveRegionOrder

-----------------------------------------------------------------------------
(* Between files, and the theorem.                                         *)

LEMMA EndOfTextOrder == TypeInv /\ OrderInv /\ EndOfText => OrderInv'
<1>. SUFFICES ASSUME TypeInv, OrderInv, EndOfText PROVE OrderInv'
  OBVIOUS
<1>1. /\ count' = LastLine(count) /\ pc' = "parsed"
      /\ Sound(count) /\ Settled(count, p) /\ pe \in Nat /\ file \in 1 .. NFiles
  BY DEF EndOfText, OrderInv, TypeInv, TypeOK, pe
<1>. DEFINE item == Callback(Kind(count.line), count.line.start, pe)
<1>2. Ordered(LastLine(count).out)
  <2>1. CASE Kind(count.line) = "lblank"
    BY <1>1, <2>1 DEF LastLine, Settled
  <2>2. CASE Kind(count.line) # "lblank"
    <3>1. count.line.start # NULL
      BY <1>1, <2>2 DEF Sound, Started, Kind
    <3>2. /\ item \in CallbackType /\ item.s = count.line.start
          /\ count.out \in Seq(CallbackType)
      BY <1>1, <3>1, SoundParts, CallbackTyped DEF Sound, CountType, Callback
    <3>3. Before(count.out, item.s) /\ Ordered(count.out)
      BY <1>1, <3>1, <3>2 DEF Settled, Fits
    <3>. HIDE DEF item
    <3>4. Ordered(Append(count.out, item))
      BY <3>2, <3>3, AppendOrder
    <3>5. LastLine(count).out = Append(count.out, item)
      BY <1>1, <2>2 DEF LastLine, item, Sound, CountType
    <3>6. QED
      BY <3>4, <3>5
  <2>3. QED
    BY <2>1, <2>2
<1>3. QED
  BY <1>1, <1>2 DEF OrderInv, Outside, Within, Ordered

LEMMA NextFileOrder == TypeInv /\ NextFile => OrderInv'
<1>. SUFFICES ASSUME TypeInv, NextFile PROVE OrderInv'
  OBVIOUS
<1>1. /\ count' = StartFile(count) /\ p' = 0 /\ region' = NoRegion
      /\ Sound(count)
  BY DEF NextFile, TypeInv, ReadingInv
<1>2. /\ count'.out = <<>> /\ count'.line = NoLine /\ ~count'.inqueue
  BY <1>1 DEF StartFile, Sound, CountType
<1>3. OrderInv'
  BY <1>1, <1>2, EmptyOrder
     DEF OrderInv, Outside, Within, Settled, Fits, NoLine, Ordered, Before
<1>4. QED
  BY <1>3

LEMMA OrderInit == Init => QueuedInv
<1>. SUFFICES ASSUME Init PROVE OrderInv
  BY DEF QueuedInv
<1>1. /\ count.out = <<>> /\ count.line = NoLine /\ ~count.inqueue
      /\ region = NoRegion
  BY DEF Init, CountInit
<1>2. QED
  BY <1>1, EmptyOrder DEF OrderInv, Outside, Within, Settled, Fits, NoLine

LEMMA OrderStep == TypeInv /\ QueuedInv /\ [Next]_vars => QueuedInv'
<1>. SUFFICES ASSUME TypeInv, QueuedInv, [Next]_vars, Enqueues'
              PROVE  OrderInv'
  BY DEF QueuedInv
<1>1. CASE NextFile
  BY <1>1, NextFileOrder
<1>2. CASE ~NextFile
  <2>1. lang' = lang
    BY <1>2 DEF Next, vars, Spaces, Newline, AnyChar, Token, OpenRegion, ReadRegion,
       CloseRegion, EndLineComment, Backtrack, LeaveRegion, EndOfText
  <2>2. Enqueues /\ OrderInv
    BY <2>1 DEF Enqueues, Grammar, QueuedInv
  <2>3. CASE UNCHANGED vars
    BY <2>2, <2>3 DEF vars, OrderInv, Outside, Within, InRegion, Settled, Queueing,
       Fits, Before, Follows, Ordered
  <2>4. QED
    BY <1>2, <2>2, <2>3, SpacesOrder, NewlineOrder, AnyCharOrder, OpenRegionOrder,
       ReadRegionOrder, CloseRegionOrder, EndLineCommentOrder, BacktrackOrder,
       EndOfTextOrder DEF Next
<1>3. QED
  BY <1>1, <1>2

\* Whatever the text: if a scanner enqueues every comment and string that may
\* contain a newline, no two reports overlap, so an unfinished one makes no
\* line count twice.
THEOREM QueuedInOrder == Spec => []InOrder
<1>1. TypeInv /\ QueuedInv => InOrder
  <2>. SUFFICES ASSUME TypeInv, OrderInv
                PROVE  \A i, k \in Lines : i < k => count.out[i].e <= count.out[k].s
    BY DEF InOrder, QueuedInv
  <2>1. Lines = 1 .. Len(count.out)
    BY SoundParts, LenProperties DEF Lines, TypeInv
  <2>2. QED
    BY <2>1 DEF OrderInv, Ordered
<1>2. QED
  BY <1>1, TypeInit, TypeStep, OrderInit, OrderStep, PTL DEF Spec

-----------------------------------------------------------------------------
(* Reports of the text and of the file that is parsed.                     *)

OfText(s) == \A i \in 1 .. Len(s) : s[i].s < s[i].e /\ s[i].e <= pe /\ s[i].file = file

\* What is reported, or will be once it is committed, is of the text; the line
\* that is set back to begins in it.
OfTextBut(c) ==
    /\ OfText(c.out)
    /\ c.inqueue => OfText(c.queue) /\ c.last.start < pe

\* Where there is more to read the line begins in the text, too.  At its end it
\* may begin there, but then it is empty.
Reporting(c) == OfTextBut(c) /\ c.line.start < pe

TextInv ==
    /\ OfText(count.out)
    /\ pc = "scan" =>
         /\ OfTextBut(count)
         /\ \/ count.line.start < pe
            \/ p = pe /\ region = NoRegion /\ Kind(count.line) = "lblank"

LEMMA AppendOfText ==
  ASSUME NEW s \in Seq(CallbackType), OfText(s), NEW item \in CallbackType,
         item.s < item.e, item.e <= pe, item.file = file
  PROVE  OfText(Append(s, item))
<1>1. /\ Len(s) \in Nat /\ Len(Append(s, item)) = Len(s) + 1
      /\ \A i \in 1 .. Len(s) : Append(s, item)[i] = s[i]
      /\ Append(s, item)[Len(s) + 1] = item
  BY AppendProperties
<1>2. \A i \in 1 .. Len(s) + 1 : i \in 1 .. Len(s) \/ i = Len(s) + 1
  BY <1>1
<1>3. QED
  BY <1>1, <1>2 DEF OfText

LEMMA ConcatOfText ==
  ASSUME NEW s \in Seq(CallbackType), OfText(s), NEW q \in Seq(CallbackType), OfText(q)
  PROVE  OfText(s \o q)
<1>. DEFINE n == Len(s)
            k == Len(q)
<1>1. /\ n \in Nat /\ k \in Nat /\ Len(s \o q) = n + k
      /\ \A i \in 1 .. n : (s \o q)[i] = s[i]
      /\ \A i \in n + 1 .. n + k : (s \o q)[i] = q[i - n] /\ i - n \in 1 .. k
  BY ConcatProperties, LenProperties
<1>. HIDE DEF n, k
<1>2. \A i \in 1 .. n + k : i \in 1 .. n \/ i \in n + 1 .. n + k
  BY <1>1
<1>3. \A i \in 1 .. n : s[i].s < s[i].e /\ s[i].e <= pe /\ s[i].file = file
  BY DEF OfText, n
<1>4. \A i \in 1 .. k : q[i].s < q[i].e /\ q[i].e <= pe /\ q[i].file = file
  BY DEF OfText, k
<1>5. QED
  BY <1>1, <1>2, <1>3, <1>4 DEF OfText

LEMMA BeginsReporting ==
  ASSUME NEW c, Sound(c), Reporting(c), NEW from \in Nat, from < pe,
         NEW d, Begins(c, d, from)
  PROVE  Reporting(d)
  BY DEF Begins, Reporting, OfTextBut, NULL

LEMMA DequeueReporting ==
  ASSUME NEW c, Sound(c), Reporting(c)
  PROVE  Reporting(Dequeue(c))
  BY DequeueParts DEF Reporting, OfTextBut

LEMMA EnqueueReporting ==
  ASSUME NEW c, Sound(c), Reporting(c)
  PROVE  Reporting(Enqueue(c))
<1>1. OfText(<<>>)
  BY DEF OfText
<1>2. QED
  BY <1>1, EnqueueParts DEF Reporting, OfTextBut

LEMMA CommitReporting ==
  ASSUME NEW c, Sound(c), Reporting(c)
  PROVE  Reporting(Commit(c))
<1>1. CASE c.inqueue
  BY <1>1, CommitParts, ConcatOfText, SoundParts DEF Reporting, OfTextBut
<1>2. CASE ~c.inqueue
  BY <1>2 DEF Commit
<1>3. QED
  BY <1>1, <1>2

LEMMA InternalNewlineReporting ==
  ASSUME NEW c, Sound(c), Reporting(c), c.line.start # NULL,
         NEW at \in Nat, at <= pe, file \in 1 .. NFiles
  PROVE  LET d == InternalNewline(c, at)
         IN  OfTextBut(d) /\ d.line.start = at /\ Kind(d.line) = "lblank"
<1>. DEFINE item == Callback(Kind(c.line), c.line.start, at)
            line == [NoLine EXCEPT !.start = at]
            d == IF at <= c.line.start THEN c
                 ELSE IF c.inqueue THEN [c EXCEPT !.queue = Append(@, item)]
                 ELSE [c EXCEPT !.out = Append(@, item)]
<1>1. /\ item \in CallbackType /\ item.s = c.line.start /\ item.e = at
      /\ item.file = file /\ c.line.start \in Nat
  BY CallbackTyped DEF Sound, CountType, LineType, NULL, Callback
<1>2. c.out \in Seq(CallbackType) /\ c.queue \in Seq(CallbackType)
  BY SoundParts
<1>3. at > c.line.start =>
        /\ OfText(c.out) => OfText(Append(c.out, item))
        /\ OfText(c.queue) => OfText(Append(c.queue, item))
  <2>. HIDE DEF item
  <2>. QED
    BY <1>1, <1>2, AppendOfText
<1>4. /\ Append(c.queue, item) \in Seq(CallbackType)
      /\ Append(c.out, item) \in Seq(CallbackType)
  BY <1>1, <1>2, AppendProperties
<1>5. line \in LineType /\ line.start = at /\ Kind(line) = "lblank"
  BY DEF NoLine, LineType, Kind
<1>6. InternalNewline(c, at) = [d EXCEPT !.line = line]
  BY DEF InternalNewline
<1>. HIDE DEF item, line
<1>7. d \in CountType /\ OfTextBut(d)
  <2>1. CASE at <= c.line.start
    BY <2>1 DEF Sound, Reporting
  <2>2. CASE at > c.line.start /\ c.inqueue
    <3>1. d = [c EXCEPT !.queue = Append(c.queue, item)]
      BY <1>1, <2>2
    <3>2. d \in CountType /\ d.out = c.out /\ d.queue = Append(c.queue, item)
          /\ d.inqueue = c.inqueue /\ d.last = c.last
      BY <1>4, <3>1 DEF Sound, CountType
    <3>. QED
      BY <1>3, <2>2, <3>2 DEF Reporting, OfTextBut
  <2>3. CASE at > c.line.start /\ ~c.inqueue
    <3>1. d = [c EXCEPT !.out = Append(c.out, item)]
      BY <1>1, <2>3
    <3>2. d \in CountType /\ d.out = Append(c.out, item) /\ ~d.inqueue
      BY <1>4, <2>3, <3>1 DEF Sound, CountType
    <3>. QED
      BY <1>3, <2>3, <3>2 DEF Reporting, OfTextBut
  <2>4. QED
    BY <1>1, <2>1, <2>2, <2>3
<1>. HIDE DEF d
<1>8. LET e == [d EXCEPT !.line = line]
      IN  /\ e.line = line /\ e.last = d.last /\ e.inqueue = d.inqueue
          /\ e.out = d.out /\ e.queue = d.queue
  BY <1>5, <1>7 DEF CountType
<1>9. QED
  BY <1>5, <1>6, <1>7, <1>8 DEF OfTextBut

LEMMA StdNewlineReporting ==
  ASSUME NEW c, Sound(c), Reporting(c), NEW from \in Nat, NEW te \in Nat,
         from < te, te <= pe, file \in 1 .. NFiles, pe \in Nat
  PROVE  Reporting(StdNewline(c, from, te))
<1>. DEFINE d == Dequeue(c)
            s == IF Kind(d.line) = "lblank" THEN from ELSE d.line.start
            item == Callback(Kind(d.line), s, te)
            out == IF te > d.line.start THEN Append(d.out, item) ELSE d.out
<1>1. Sound(d) /\ Reporting(d) /\ ~d.inqueue
  BY DequeueSound, DequeueReporting
<1>2. s \in Nat /\ (te > d.line.start => s < te)
  BY <1>1 DEF Sound, CountType, LineType, Started, Kind, NULL
<1>3. item \in CallbackType /\ item.s = s /\ item.e = te /\ item.file = file
  BY <1>1, <1>2, CallbackTyped DEF Sound, CountType, Callback
<1>4. d.out \in Seq(CallbackType)
  BY <1>1, SoundParts
<1>. HIDE DEF item, s
<1>5. OfText(out)
  BY <1>1, <1>2, <1>3, <1>4, AppendOfText DEF Reporting, OfTextBut
<1>6. StdNewline(c, from, te) = [d EXCEPT !.line = NoLine, !.out = out]
  BY <1>1 DEF StdNewline, item, s, Sound, CountType
<1>. HIDE DEF d, out
<1>7. LET e == [d EXCEPT !.line = NoLine, !.out = out]
      IN  e.line = NoLine /\ e.out = out /\ e.inqueue = d.inqueue
  BY <1>1 DEF Sound, CountType
<1>8. QED
  BY <1>1, <1>5, <1>6, <1>7 DEF Reporting, OfTextBut, NoLine, NULL

LEMMA LastLineOfText ==
  ASSUME NEW c, Sound(c), OfText(c.out), file \in 1 .. NFiles, pe \in Nat,
         c.line.start < pe \/ Kind(c.line) = "lblank"
  PROVE  OfText(LastLine(c).out)
<1>. DEFINE item == Callback(Kind(c.line), c.line.start, pe)
<1>1. CASE Kind(c.line) = "lblank"
  BY <1>1 DEF LastLine
<1>2. CASE Kind(c.line) # "lblank"
  <2>1. c.line.start \in Nat /\ c.line.start < pe
    BY <1>2 DEF Kind, Sound, CountType, LineType, Started, NULL
  <2>2. item \in CallbackType /\ item.s < item.e /\ item.e = pe /\ item.file = file
    BY <2>1, CallbackTyped DEF Sound, CountType, Callback
  <2>3. c.out \in Seq(CallbackType)
    BY SoundParts
  <2>4. LastLine(c).out = Append(c.out, item)
    BY <1>2 DEF LastLine, Sound, CountType
  <2>. HIDE DEF item
  <2>5. QED
    BY <2>2, <2>3, <2>4, AppendOfText
<1>3. QED
  BY <1>1, <1>2

\* A step that leaves the text and the scanner on it in a reporting state.
LEMMA ReportingStep ==
  ASSUME UNCHANGED <<text, file>>, Reporting(count')
  PROVE  TextInv'
  BY DEF TextInv, Reporting, OfTextBut, OfText, pe

LEMMA MoreToRead ==
  ASSUME TypeInv, TextInv, pc = "scan", p < pe \/ region # NoRegion
  PROVE  /\ Reporting(count) /\ Sound(count) /\ p \in Nat /\ ts \in Nat /\ pe \in Nat
         /\ file \in 1 .. NFiles
  BY DEF TypeInv, TypeOK, TextInv, Reporting, pe

LEMMA TokenText == TypeInv /\ TextInv /\ (Spaces \/ Newline \/ AnyChar) => TextInv'
<1>. SUFFICES ASSUME TypeInv, TextInv, Spaces \/ Newline \/ AnyChar PROVE TextInv'
  OBVIOUS
<1>1. /\ pc = "scan" /\ p < pe /\ UNCHANGED <<text, file>>
  BY DEF Spaces, Newline, AnyChar, Token, Outside
<1>2. /\ Reporting(count) /\ Sound(count) /\ p \in Nat /\ pe \in Nat /\ file \in 1 .. NFiles
  BY <1>1, MoreToRead
<1>3. Sound(Dequeue(count)) /\ Reporting(Dequeue(count))
  BY <1>2, DequeueSound, DequeueReporting
<1>4. Reporting(Ls(Dequeue(count), p)) /\ Reporting(Code(Dequeue(count), p))
  BY <1>1, <1>2, <1>3, LsBegins, CodeBegins, BeginsReporting
<1>5. Reporting(StdNewline(count, p, p + 1))
  BY <1>1, <1>2, StdNewlineReporting
<1>6. Reporting(count')
  BY <1>4, <1>5 DEF Spaces, Newline, AnyChar, Token
<1>7. QED
  BY <1>1, <1>6, ReportingStep

LEMMA OpenRegionText == TypeInv /\ TextInv /\ OpenRegion => TextInv'
<1>. SUFFICES ASSUME TypeInv, TextInv, OpenRegion PROVE TextInv'
  OBVIOUS
<1>1. pc = "scan" /\ p < pe /\ UNCHANGED <<text, file>>
  BY DEF OpenRegion, Outside
<1>2. Reporting(count) /\ Sound(count) /\ p \in Nat
  BY <1>1, MoreToRead
<1>3. PICK r \in Grammar :
        count' = Mark(IF r.enqueue THEN Enqueue(count) ELSE count, r.mark, p)
  BY DEF OpenRegion
<1>4. r.mark \in Marks
  BY RegionTyped DEF TypeInv, TypeOK, RegionType
<1>. DEFINE c == IF r.enqueue THEN Enqueue(count) ELSE count
<1>5. Sound(c) /\ Reporting(c)
  BY <1>2, EnqueueSound, EnqueueReporting
<1>. HIDE DEF c
<1>6. Begins(c, Mark(c, r.mark, p), p)
  BY <1>2, <1>4, <1>5, MarkBegins
<1>7. Reporting(count')
  BY <1>1, <1>2, <1>3, <1>5, <1>6, BeginsReporting DEF c
<1>8. QED
  BY <1>1, <1>7, ReportingStep

\* The leaving action of a newline, where the region goes on or ends.
LEMMA LeaveText ==
  ASSUME TypeInv, TextInv, Within
  PROVE  /\ Sound(Leave(count)) /\ OfTextBut(Leave(count))
         /\ p < pe => Reporting(Leave(count))
         /\ p = pe /\ leaving => Kind(Leave(count).line) = "lblank"
         /\ ~leaving => Reporting(Leave(count))
<1>1. /\ Reporting(count) /\ Sound(count) /\ p \in Nat /\ pe \in Nat /\ p <= pe
      /\ file \in 1 .. NFiles /\ p \in 0 .. pe
  BY MoreToRead DEF Within, TypeInv, TypeOK, pe
<1>2. Sound(Leave(count))
  BY <1>1, LeaveSound
<1>3. CASE leaving
  <2>1. count.line.start # NULL
    BY <1>3, RegionTyped DEF TypeInv, TypeOK, ReadingInv, Within
  <2>. DEFINE d == InternalNewline(count, p)
  <2>2. OfTextBut(d) /\ d.line.start = p /\ Kind(d.line) = "lblank"
    BY <1>1, <2>1, InternalNewlineReporting
  <2>3. Leave(count) = d
    BY <1>3 DEF Leave
  <2>. HIDE DEF d
  <2>4. QED
    BY <1>1, <1>2, <1>3, <2>2, <2>3 DEF Reporting
<1>4. CASE ~leaving
  BY <1>1, <1>2, <1>4 DEF Leave, Reporting
<1>5. QED
  BY <1>3, <1>4

LEMMA ReadRegionText == TypeInv /\ TextInv /\ ReadRegion => TextInv'
<1>. SUFFICES ASSUME TypeInv, TextInv, ReadRegion PROVE TextInv'
  OBVIOUS
<1>1. /\ Within /\ UNCHANGED <<text, file>> /\ p < pe /\ ts < p
      /\ p \in Nat /\ pe \in Nat /\ ts \in Nat
  BY DEF ReadRegion, RoleHere, TypeInv, TypeOK, ReadingInv, pe
<1>2. Sound(Leave(count)) /\ Reporting(Leave(count))
  BY <1>1, LeaveText
<1>. DEFINE m == CASE RoleHere \in {"inner", "nest", "unnest"} -> region.inner
                   [] RoleHere = "blank" -> region.blank
                   [] RoleHere \in {"escape", "newline"} -> "none"
<1>3. count' = Mark(Leave(count), m, ts)
  BY DEF ReadRegion
<1>4. m \in Marks
  <2>1. region \in RegionType
    BY <1>1, RegionTyped DEF TypeInv, TypeOK, Within
  <2>2. RoleHere \in {"newline", "inner", "unnest", "nest", "escape", "blank"}
    BY <1>1, <2>1, RoleTyped DEF RoleHere, TypeInv, TypeOK, ReadRegion
  <2>3. QED
    BY <2>1, <2>2 DEF RegionType, Marks
<1>. HIDE DEF m
<1>5. Begins(Leave(count), Mark(Leave(count), m, ts), ts)
  BY <1>1, <1>2, <1>4, MarkBegins
<1>6. Reporting(count')
  BY <1>1, <1>2, <1>3, <1>5, BeginsReporting
<1>7. QED
  BY <1>1, <1>6, ReportingStep

LEMMA CloseRegionText == TypeInv /\ TextInv /\ CloseRegion => TextInv'
<1>. SUFFICES ASSUME TypeInv, TextInv, CloseRegion PROVE TextInv'
  OBVIOUS
<1>. DEFINE c == IF region.commit THEN Commit(Leave(count)) ELSE Leave(count)
<1>1. /\ Within /\ UNCHANGED <<text, file>> /\ p < pe /\ ts < p
      /\ p \in Nat /\ pe \in Nat /\ ts \in Nat
      /\ count' = Mark(c, region.last, ts)
  BY DEF CloseRegion, LeaveRegion, RoleHere, TypeInv, TypeOK, ReadingInv, pe
<1>2. Sound(Leave(count)) /\ Reporting(Leave(count))
  BY <1>1, LeaveText
<1>3. Sound(c) /\ Reporting(c)
  BY <1>2, CommitSound, CommitReporting
<1>4. region.last \in Marks
  BY <1>1, RegionTyped DEF TypeInv, TypeOK, Within, RegionType
<1>. HIDE DEF c
<1>5. Begins(c, Mark(c, region.last, ts), ts)
  BY <1>1, <1>3, <1>4, MarkBegins
<1>6. Reporting(count')
  BY <1>1, <1>3, <1>5, BeginsReporting
<1>7. QED
  BY <1>1, <1>6, ReportingStep

\* A line comment may end the text behind an escaped newline.
LEMMA EndLineCommentText == TypeInv /\ TextInv /\ EndLineComment => TextInv'
<1>. SUFFICES ASSUME TypeInv, TextInv, EndLineComment PROVE TextInv'
  OBVIOUS
<1>1. /\ Within /\ UNCHANGED <<text, file, pc>> /\ count' = Leave(count)
      /\ p' = p /\ region' = NoRegion /\ p \in Nat /\ pe \in Nat /\ p <= pe
  BY DEF EndLineComment, LeaveRegion, TypeInv, TypeOK, pe
<1>2. CASE p < pe \/ ~leaving
  BY <1>1, <1>2, LeaveText, ReportingStep
<1>3. CASE p = pe /\ leaving
  <2>1. OfTextBut(count') /\ Kind(count'.line) = "lblank" /\ p' = pe'
    BY <1>1, <1>3, LeaveText DEF pe
  <2>2. QED
    BY <1>1, <2>1 DEF TextInv, OfTextBut, OfText, pe, Kind
<1>4. QED
  BY <1>1, <1>2, <1>3

LEMMA BacktrackText == TypeInv /\ TextInv /\ Backtrack => TextInv'
<1>. SUFFICES ASSUME TypeInv, TextInv, Backtrack PROVE TextInv'
  OBVIOUS
<1>. DEFINE c == IF entity = "internal"
                 THEN RestOfDelimiter(InternalNewline(count, ts))
                 ELSE Code(Dequeue(count), ts)
<1>1. /\ Within /\ UNCHANGED <<text, file>> /\ count' = c /\ ts < pe
      /\ ts \in Nat /\ pe \in Nat
  BY DEF Backtrack, LeaveRegion, TypeInv, TypeOK, ReadingInv, pe
<1>2. Reporting(count) /\ Sound(count) /\ file \in 1 .. NFiles
  BY <1>1, MoreToRead DEF Within
<1>3. CASE entity = "internal"
  <2>. DEFINE d == InternalNewline(count, ts)
  <2>1. count.line.start # NULL
    BY <1>1, <1>3, RegionTyped DEF TypeInv, TypeOK, ReadingInv, Within
  <2>2. Sound(d) /\ OfTextBut(d) /\ d.line.start = ts
    BY <1>1, <1>2, <2>1, InternalNewlineSound, InternalNewlineReporting
  <2>. HIDE DEF d
  <2>3. Sound(d) /\ Reporting(d)
    BY <1>1, <2>2 DEF Reporting
  <2>4. Reporting(Code(Dequeue(d), ts))
    BY <1>1, <2>3, DequeueSound, DequeueReporting, CodeBegins, BeginsReporting
  <2>5. c = IF region.long THEN Code(Dequeue(d), ts) ELSE d
    BY <1>3 DEF RestOfDelimiter, d
  <2>6. QED
    BY <1>1, <2>3, <2>4, <2>5, ReportingStep
<1>4. CASE entity # "internal"
  <2>1. Reporting(Code(Dequeue(count), ts))
    BY <1>1, <1>2, DequeueSound, DequeueReporting, CodeBegins, BeginsReporting
  <2>2. QED
    BY <1>1, <1>4, <2>1, ReportingStep
<1>5. QED
  BY <1>3, <1>4

LEMMA EndOfTextText == TypeInv /\ TextInv /\ EndOfText => TextInv'
<1>. SUFFICES ASSUME TypeInv, TextInv, EndOfText PROVE TextInv'
  OBVIOUS
<1>1. /\ pc = "scan" /\ UNCHANGED <<text, file>> /\ count' = LastLine(count)
      /\ pc' = "parsed"
  BY DEF EndOfText, Outside
<1>2. Sound(count) /\ file \in 1 .. NFiles /\ pe \in Nat
  BY DEF TypeInv, TypeOK, pe
<1>3. OfText(LastLine(count).out)
  BY <1>1, <1>2, LastLineOfText DEF TextInv
<1>4. QED
  BY <1>1, <1>3 DEF TextInv, OfText, pe

LEMMA NextFileText == TypeInv /\ TextInv /\ NextFile => TextInv'
<1>. SUFFICES ASSUME TypeInv, TextInv, NextFile PROVE TextInv'
  OBVIOUS
<1>1. count' = StartFile(count) /\ Sound(count)
  BY DEF NextFile, TypeInv
<1>2. count'.out = <<>> /\ count'.line = NoLine /\ ~count'.inqueue
  BY <1>1 DEF StartFile, Sound, CountType
<1>3. pe' \in Nat
  BY TextsAssumption DEF NextFile, pe
<1>4. QED
  BY <1>2, <1>3 DEF TextInv, OfTextBut, OfText, NoLine, NULL

LEMMA TextInit == Init => TextInv
<1>. SUFFICES ASSUME Init PROVE TextInv
  OBVIOUS
<1>1. count.out = <<>> /\ count.line = NoLine /\ ~count.inqueue
  BY DEF Init, CountInit
<1>2. pe \in Nat
  BY TextsAssumption DEF Init, pe
<1>3. QED
  BY <1>1, <1>2 DEF TextInv, OfTextBut, OfText, NoLine, NULL

LEMMA TextStep == TypeInv /\ TextInv /\ [Next]_vars => TextInv'
<1>1. TextInv /\ UNCHANGED vars => TextInv'
  BY DEF vars, TextInv, OfTextBut, OfText, Kind, pe
<1>2. QED
  BY <1>1, TokenText, OpenRegionText, ReadRegionText, CloseRegionText,
     EndLineCommentText, BacktrackText, EndOfTextText, NextFileText DEF Next

LEMMA TextAlways == Spec => []TextInv
<1>1. Spec => []TypeInv
  BY TypeInit, TypeStep, PTL DEF Spec
<1>2. QED
  BY <1>1, TextInit, TextStep, PTL DEF Spec

\* Whatever the scanner and the text, also where regions are given up and read
\* again, each report is of a part of the text that is not empty.
THEOREM ReportsAlwaysInText == Spec => []ReportsInText
<1>1. TypeInv /\ TextInv => ReportsInText
  BY SoundParts, LenProperties DEF TypeInv, TextInv, OfText, ReportsInText, Lines
<1>2. Spec => []TypeInv
  BY TypeInit, TypeStep, PTL DEF Spec
<1>3. QED
  BY <1>1, <1>2, TextAlways, PTL

\* What one file leaves in the queue is never reported of another.
THEOREM ReportsAlwaysOwn == Spec => []OwnReports
<1>1. TypeInv /\ TextInv => OwnReports
  BY SoundParts, LenProperties DEF TypeInv, TextInv, OfText, OwnReports, Lines
<1>2. Spec => []TypeInv
  BY TypeInit, TypeStep, PTL DEF Spec
<1>3. QED
  BY <1>1, <1>2, TextAlways, PTL

-----------------------------------------------------------------------------
(* No line is lost.                                                        *)

\* Place i is in one of the reports of s.
Told(s, i) == \E k \in 1 .. Len(s) : s[k].s <= i /\ i < s[k].e

\* Place i is in the line under way, which has something to report.
Pending(line, i) == line.start # NULL /\ line.start <= i /\ Kind(line) # "lblank"
StartsBy(line, x) == line.start # NULL => line.start <= x

\* The line as dequeue would leave it.
Kept(c) == IF c.inqueue THEN c.last ELSE c.line

\* Between tokens: every newline in front of x is reported or, where no line
\* is ever enqueued, is in the line under way, for it was not noticed as one.
Accounted(c, x) ==
    /\ \A i \in 0 .. x - 1 : At(i) = "nl" =>
         Told(c.out, i) \/ (~Queues /\ Pending(c.line, i))
    /\ StartsBy(c.line, x)
    /\ c.inqueue => Queues /\ StartsBy(c.last, x)

\* In region r, begun at t, where e is the entity and left says that a newline
\* is being left: so are those in front of t, also when the line is put back to
\* what it was there; and those in front of x may wait in the queue.
AccountedIn(c, x, r, t, e, left) ==
    /\ At(t) # "nl"
    /\ \A i \in 0 .. t - 1 : At(i) = "nl" =>
         Told(c.out, i) \/ (~Queues /\ e # "internal" /\ Pending(Kept(c), i))
    /\ \A i \in 0 .. x - 1 : At(i) = "nl" =>
         \/ Told(c.out, i)
         \/ r.enqueue /\ Told(c.queue, i)
         \/ ~Queues /\ Pending(c.line, i)
         \/ left /\ i = x - 1
    /\ StartsBy(c.line, x)
    /\ e # "internal" => StartsBy(c.line, t)
    /\ c.inqueue => StartsBy(c.last, t) /\ (r.enqueue \/ Queues)
    /\ r.enqueue => c.inqueue

AccountInv ==
    /\ Outside => Accounted(count, p)
    /\ Within => AccountedIn(count, p, region, ts, entity, leaving)
                 /\ StartsBy(count.line, p - 1)
    /\ pc = "parsed" => \A i \in 0 .. p - 1 : At(i) = "nl" => Told(count.out, i)

KeptInv == Recoverable => AccountInv

LEMMA AppendTells ==
  ASSUME NEW s \in Seq(CallbackType), NEW item \in CallbackType
  PROVE  /\ \A i : Told(s, i) => Told(Append(s, item), i)
         /\ \A i : item.s <= i /\ i < item.e => Told(Append(s, item), i)
<1>1. /\ Len(s) \in Nat /\ Len(Append(s, item)) = Len(s) + 1
      /\ \A k \in 1 .. Len(s) : Append(s, item)[k] = s[k]
      /\ Append(s, item)[Len(s) + 1] = item
  BY AppendProperties
<1>2. \A k \in 1 .. Len(s) : k \in 1 .. Len(Append(s, item))
  BY <1>1
<1>3. Len(s) + 1 \in 1 .. Len(Append(s, item))
  BY <1>1
<1>4. QED
  BY <1>1, <1>2, <1>3 DEF Told

LEMMA ConcatTells ==
  ASSUME NEW o \in Seq(CallbackType), NEW q \in Seq(CallbackType), NEW i,
         Told(o, i) \/ Told(q, i)
  PROVE  Told(o \o q, i)
<1>. DEFINE n == Len(o)
            m == Len(q)
<1>1. /\ n \in Nat /\ m \in Nat /\ Len(o \o q) = n + m
      /\ \A k \in 1 .. n : (o \o q)[k] = o[k]
      /\ \A k \in n + 1 .. n + m : (o \o q)[k] = q[k - n]
  BY ConcatProperties, LenProperties
<1>. HIDE DEF n, m
<1>2. \A k \in 1 .. n : k \in 1 .. n + m
  BY <1>1
<1>3. \A k \in 1 .. m : k + n \in n + 1 .. n + m /\ k + n \in 1 .. n + m /\ (k + n) - n = k
  BY <1>1
<1>4. CASE Told(o, i)
  BY <1>1, <1>2, <1>4 DEF Told, n
<1>5. CASE Told(q, i)
  <2>1. PICK k \in 1 .. m : q[k].s <= i /\ i < q[k].e
    BY <1>5 DEF Told, m
  <2>2. (o \o q)[k + n] = q[k]
    BY <1>1, <1>3
  <2>3. QED
    BY <1>1, <1>3, <2>1, <2>2 DEF Told
<1>6. QED
  BY <1>4, <1>5

\* A line that has something to report keeps it, and a mark gives it some.
LEMMA MarkSays ==
  ASSUME NEW c, Sound(c), NEW m \in Marks, NEW from \in Nat
  PROVE  m # "none" \/ Kind(c.line) # "lblank" => Kind(Mark(c, m, from).line) # "lblank"
<1>1. \A d : Sound(d) => /\ Kind([d EXCEPT !.line.code = TRUE].line) = "lcode"
                         /\ Kind([d EXCEPT !.line.comment = TRUE].line) # "lblank"
  BY DEF Sound, CountType, LineType, Kind
<1>2. Sound(Ls(c, from))
  BY LsSound
<1>3. Kind(Code(c, from).line) = "lcode"
  BY <1>1, <1>2 DEF Code
<1>4. Kind(Comment(c, from).line) # "lblank"
  BY <1>1, <1>2 DEF Comment, Kind
<1>5. QED
  BY <1>3, <1>4 DEF Mark, Marks

LEMMA LsSays ==
  ASSUME NEW c, Sound(c), NEW from \in Nat
  PROVE  Kind(Ls(c, from).line) = Kind(c.line)
  BY DEF Ls, Kind, Sound, CountType, LineType

LEMMA SaysStarted ==
  ASSUME NEW line \in LineType, Started(line), Kind(line) # "lblank"
  PROVE  line.start # NULL
  BY DEF Started, Kind

LEMMA InternalNewlineTells ==
  ASSUME NEW c, Sound(c), c.line.start # NULL, NEW at \in Nat, file \in 1 .. NFiles
  PROVE  LET d == InternalNewline(c, at)
         IN  /\ \A i : Told(c.out, i) => Told(d.out, i)
             /\ \A i : Told(c.queue, i) => Told(d.queue, i)
             /\ \A i \in Nat : c.line.start <= i /\ i < at =>
                  Told(IF c.inqueue THEN d.queue ELSE d.out, i)
<1>. DEFINE item == Callback(Kind(c.line), c.line.start, at)
            line == [NoLine EXCEPT !.start = at]
            d == IF at <= c.line.start THEN c
                 ELSE IF c.inqueue THEN [c EXCEPT !.queue = Append(@, item)]
                 ELSE [c EXCEPT !.out = Append(@, item)]
<1>1. item \in CallbackType /\ item.s = c.line.start /\ item.e = at
  BY CallbackTyped DEF Sound, CountType, LineType, NULL, Callback
<1>2. /\ Append(c.queue, item) \in Seq(CallbackType)
      /\ Append(c.out, item) \in Seq(CallbackType)
      /\ c.queue \in Seq(CallbackType) /\ c.out \in Seq(CallbackType)
      /\ c.line.start \in Nat
  BY <1>1, AppendProperties, SoundParts
<1>3. InternalNewline(c, at) = [d EXCEPT !.line = line]
  BY DEF InternalNewline
<1>. HIDE DEF item, line
<1>4. /\ d \in CountType
      /\ d.out = IF at <= c.line.start \/ c.inqueue THEN c.out ELSE Append(c.out, item)
      /\ d.queue = IF at <= c.line.start \/ ~c.inqueue THEN c.queue
                   ELSE Append(c.queue, item)
  BY <1>2 DEF Sound, CountType
<1>. HIDE DEF d
<1>5. /\ [d EXCEPT !.line = line].out = d.out
      /\ [d EXCEPT !.line = line].queue = d.queue
  BY <1>4 DEF CountType
<1>6. /\ \A i : Told(c.out, i) => Told(d.out, i)
      /\ \A i : Told(c.queue, i) => Told(d.queue, i)
  BY <1>1, <1>2, <1>4, AppendTells
<1>7. \A i \in Nat : c.line.start <= i /\ i < at =>
        Told(IF c.inqueue THEN d.queue ELSE d.out, i)
  <2>. SUFFICES ASSUME NEW i \in Nat, c.line.start <= i, i < at
                PROVE  Told(IF c.inqueue THEN d.queue ELSE d.out, i)
    OBVIOUS
  <2>1. ~(at <= c.line.start)
    BY <1>2
  <2>2. item.s <= i /\ i < item.e
    BY <1>1
  <2>3. QED
    BY <1>1, <1>2, <1>4, <2>1, <2>2, AppendTells
<1>8. QED
  BY <1>3, <1>5, <1>6, <1>7

-----------------------------------------------------------------------------
(* Each action keeps account of the newlines.                              *)

LEMMA DequeueAccounted ==
  ASSUME NEW c, Sound(c), NEW x, Accounted(c, x)
  PROVE  Accounted(Dequeue(c), x)
  BY DequeueParts DEF Accounted

\* What an action marks stays what it has to report.
SaysOn(c, d) == Kind(c.line) # "lblank" => Kind(d.line) # "lblank"

LEMMA BeginsAccounted ==
  ASSUME NEW c, Sound(c), NEW x \in Nat, Accounted(c, x), NEW from \in Nat, from <= x,
         NEW d, Begins(c, d, from), SaysOn(c, d)
  PROVE  Accounted(d, x)
  BY SoundParts DEF Accounted, Begins, SaysOn, StartsBy, Pending

LEMMA AccountedMore ==
  ASSUME NEW c, Sound(c), NEW x \in Nat, NEW y \in Nat, x <= y, Accounted(c, x),
         \A i \in x .. y - 1 : At(i) # "nl"
  PROVE  Accounted(c, y)
<1>1. \A i \in 0 .. y - 1 : i \in 0 .. x - 1 \/ i \in x .. y - 1
  OBVIOUS
<1>2. QED
  BY <1>1, SoundParts DEF Accounted, StartsBy

LEMMA OutsideAccount ==
  ASSUME UNCHANGED <<text, lang>>, pc' = "scan", region' = NoRegion,
         Accounted(count', p')
  PROVE  AccountInv'
  BY DEF AccountInv, Outside, Within, Accounted, StartsBy, Told, Pending, Kind, At,
     Queues, Grammar

LEMMA WithinAccount ==
  ASSUME UNCHANGED <<text, lang>>, pc' = "scan", region' # NoRegion,
         AccountedIn(count', p', region', ts', entity', leaving'),
         StartsBy(count'.line, p' - 1)
  PROVE  AccountInv'
  BY DEF AccountInv, Outside, Within, AccountedIn, Accounted, StartsBy, Told, Pending,
     Kept, Kind, At, Queues, Grammar

LEMMA SpacesAccount == TypeInv /\ AccountInv /\ Spaces => AccountInv'
<1>. SUFFICES ASSUME TypeInv, AccountInv, Spaces PROVE AccountInv'
  OBVIOUS
<1>. DEFINE c == Dequeue(count)
            d == Ls(c, p)
<1>1. PICK te \in p + 1 .. pe :
        (\A i \in p .. te - 1 : At(i) = "ws") /\ Token("space", te, d)
  BY DEF Spaces
<1>2. p \in Nat /\ te \in Nat /\ p <= te /\ Sound(count) /\ Accounted(count, p)
  BY <1>1 DEF TypeInv, TypeOK, pe, Spaces, AccountInv
<1>3. Sound(c) /\ Accounted(c, p)
  BY <1>2, DequeueSound, DequeueAccounted
<1>4. Sound(d) /\ Begins(c, d, p) /\ SaysOn(c, d)
  BY <1>2, <1>3, LsSound, LsBegins, LsSays DEF SaysOn
<1>. HIDE DEF c, d
<1>5. Accounted(d, p)
  BY <1>2, <1>3, <1>4, BeginsAccounted
<1>6. Accounted(d, te)
  BY <1>1, <1>2, <1>4, <1>5, AccountedMore
<1>7. QED
  BY <1>1, <1>6, OutsideAccount DEF Token, Spaces, Outside

LEMMA AnyCharAccount == TypeInv /\ AccountInv /\ AnyChar => AccountInv'
<1>. SUFFICES ASSUME TypeInv, AccountInv, AnyChar PROVE AccountInv'
  OBVIOUS
<1>. DEFINE c == Dequeue(count)
            d == Code(c, p)
<1>1. Token("any", p + 1, d)
  BY DEF AnyChar
<1>2. p \in Nat /\ Sound(count) /\ Accounted(count, p) /\ At(p) # "nl"
  BY DEF TypeInv, TypeOK, pe, AnyChar, AccountInv
<1>3. Sound(c) /\ Accounted(c, p)
  BY <1>2, DequeueSound, DequeueAccounted
<1>4. Sound(d) /\ Begins(c, d, p) /\ SaysOn(c, d)
  BY <1>2, <1>3, CodeSound, CodeBegins, MarkSays DEF SaysOn, Mark, Marks
<1>. HIDE DEF c, d
<1>5. Accounted(d, p)
  BY <1>2, <1>3, <1>4, BeginsAccounted
<1>6. Accounted(d, p + 1)
  BY <1>2, <1>4, <1>5, AccountedMore
<1>7. QED
  BY <1>1, <1>6, OutsideAccount DEF Token, AnyChar, Outside

\* A newline is reported with everything the line it ends has to report.
LEMMA StdNewlineAccounted ==
  ASSUME NEW c, Sound(c), NEW x \in Nat, Accounted(c, x), file \in 1 .. NFiles
  PROVE  Accounted(StdNewline(c, x, x + 1), x + 1)
<1>. DEFINE d == Dequeue(c)
            s == IF Kind(d.line) = "lblank" THEN x ELSE d.line.start
            item == Callback(Kind(d.line), s, x + 1)
            e == [d EXCEPT !.line = NoLine, !.out = Append(d.out, item)]
<1>1. Sound(d) /\ Accounted(d, x) /\ ~d.inqueue
  BY DequeueSound, DequeueAccounted, DequeueParts
<1>2. d.line \in LineType /\ Started(d.line) /\ d.out \in Seq(CallbackType)
  BY <1>1, SoundParts DEF Sound, CountType
<1>3. s \in Nat /\ s <= x /\ x + 1 > d.line.start
  BY <1>1, <1>2, SaysStarted DEF Accounted, StartsBy, LineType, NULL
<1>4. item \in CallbackType /\ item.s = s /\ item.e = x + 1
  BY <1>2, <1>3, CallbackTyped DEF Callback
<1>5. Append(d.out, item) \in Seq(CallbackType)
  BY <1>2, <1>4, AppendProperties
<1>6. StdNewline(c, x, x + 1) = e
  BY <1>1, <1>3 DEF StdNewline, Sound, CountType
<1>7. s = IF Kind(d.line) = "lblank" THEN x ELSE d.line.start
  OBVIOUS
<1>. HIDE DEF d, s, item
<1>8. e.line = NoLine /\ e.out = Append(d.out, item) /\ ~e.inqueue
  BY <1>1 DEF Sound, CountType
<1>9. \A i \in 0 .. x : At(i) = "nl" => Told(e.out, i)
  <2>. SUFFICES ASSUME NEW i \in 0 .. x, At(i) = "nl", ~Told(d.out, i)
                PROVE  item.s <= i /\ i < item.e
    BY <1>2, <1>4, <1>8, AppendTells
  <2>1. i = x \/ Pending(d.line, i)
    BY <1>1 DEF Accounted
  <2>2. QED
    BY <1>3, <1>4, <1>7, <2>1 DEF Pending
<1>. HIDE DEF e
<1>10. (x + 1) - 1 = x /\ NoLine.start = NULL
  BY DEF NoLine
<1>11. QED
  BY <1>6, <1>8, <1>9, <1>10 DEF Accounted, StartsBy

LEMMA NewlineAccount == TypeInv /\ AccountInv /\ Newline => AccountInv'
<1>. SUFFICES ASSUME TypeInv, AccountInv, Newline PROVE AccountInv'
  OBVIOUS
<1>1. /\ p \in Nat /\ file \in 1 .. NFiles /\ Sound(count) /\ Accounted(count, p)
      /\ Token("newline", p + 1, StdNewline(count, p, p + 1))
  BY DEF TypeInv, TypeOK, pe, Newline, AccountInv
<1>2. Accounted(StdNewline(count, p, p + 1), p + 1)
  BY <1>1, StdNewlineAccounted
<1>3. QED
  BY <1>1, <1>2, OutsideAccount DEF Token, Newline, Outside

LEMMA OpenRegionAccount ==
  TypeInv /\ AccountInv /\ OpenRegion => AccountInv'
<1>. SUFFICES ASSUME TypeInv, AccountInv, OpenRegion PROVE AccountInv'
  OBVIOUS
<1>1. /\ ts' = p /\ p' = p + 1 /\ pc' = "scan" /\ entity' = "any" /\ leaving' = FALSE
      /\ UNCHANGED <<text, lang>> /\ p \in Nat
      /\ Sound(count) /\ Accounted(count, p)
  BY DEF OpenRegion, Outside, TypeInv, TypeOK, ReadingInv, pe, AccountInv
<1>2. PICK r \in Grammar :
        /\ At(p) = r.open
        /\ region' = r
        /\ count' = Mark(IF r.enqueue THEN Enqueue(count) ELSE count, r.mark, p)
  BY DEF OpenRegion
<1>3. r \in RegionType /\ r # NoRegion /\ r.mark \in Marks /\ At(p) # "nl"
  BY <1>2, RegionTyped, ScannersAssumption DEF TypeInv, TypeOK, RegionType, Grammar
<1>. DEFINE c == IF r.enqueue THEN Enqueue(count) ELSE count
            d == Mark(c, r.mark, p)
<1>4. /\ Sound(c) /\ c.out = count.out /\ c.line = count.line
      /\ r.enqueue => c.inqueue /\ c.last = count.line
      /\ ~r.enqueue => c = count
  BY <1>1, EnqueueSound, EnqueueParts
<1>. HIDE DEF c
<1>5. Sound(d) /\ Begins(c, d, p) /\ SaysOn(c, d)
  BY <1>1, <1>3, <1>4, MarkSound, MarkBegins, MarkSays DEF SaysOn
<1>6. count' = d
  BY <1>2 DEF c
<1>. HIDE DEF d
<1>7. \A i : ~Queues /\ Pending(count.line, i) => Pending(d.line, i) /\ Pending(Kept(d), i)
  BY <1>1, <1>4, <1>5 DEF Accounted, Begins, SaysOn, Pending, Kept
<1>8. \A i \in 0 .. (p + 1) - 1 : i \in 0 .. p - 1 \/ i = p
  BY <1>1
<1>9. StartsBy(d.line, p) /\ (d.inqueue => StartsBy(d.last, p))
  BY <1>1, <1>4, <1>5 DEF Accounted, Begins, StartsBy
<1>10. AccountedIn(d, p + 1, r, p, "any", FALSE)
  <2>1. \A i \in 0 .. p - 1 : At(i) = "nl" => Told(d.out, i) \/ (~Queues /\ Pending(count.line, i))
    BY <1>1, <1>4, <1>5 DEF Accounted, Begins
  <2>2. StartsBy(d.line, p + 1)
    BY <1>1, <1>5, <1>9, SoundParts DEF StartsBy
  <2>3. (d.inqueue => r.enqueue \/ Queues) /\ (r.enqueue => d.inqueue)
    BY <1>1, <1>4, <1>5 DEF Accounted, Begins
  <2>4. QED
    BY <1>3, <1>7, <1>8, <1>9, <2>1, <2>2, <2>3 DEF AccountedIn
<1>11. p' - 1 = p
  BY <1>1
<1>12. QED
  BY <1>1, <1>2, <1>3, <1>6, <1>9, <1>10, <1>11, WithinAccount

\* The leaving action of a newline accounts for it.
LEMMA LeaveAccounted ==
  ASSUME TypeInv, AccountInv, Recoverable, Within
  PROVE  AccountedIn(Leave(count), p, region, ts, EntityLeft, FALSE)
<1>1. /\ AccountedIn(count, p, region, ts, entity, leaving)
      /\ StartsBy(count.line, p - 1)
      /\ Sound(count) /\ p \in Nat /\ ts \in Nat /\ ts < p /\ file \in 1 .. NFiles
      /\ leaving \in BOOLEAN
  BY DEF AccountInv, TypeInv, TypeOK, ReadingInv, pe
<1>2. CASE ~leaving
  BY <1>1, <1>2 DEF Leave, EntityLeft
<1>3. CASE leaving
  <2>. DEFINE d == InternalNewline(count, p)
  <2>1. /\ region.newline # {} /\ count.line.start # NULL /\ region \in Grammar
    BY <1>3, RegionTyped DEF TypeInv, TypeOK, ReadingInv, Within
  <2>2. Queues <=> region.enqueue
    BY <2>1 DEF Recoverable, Queues
  <2>3. count.inqueue <=> region.enqueue
    BY <1>1, <2>2 DEF AccountedIn
  <2>4. /\ d.line.start = p /\ d.last = count.last /\ d.inqueue = count.inqueue
        /\ count.inqueue => d.out = count.out
        /\ \A i : Told(count.out, i) => Told(d.out, i)
        /\ \A i : Told(count.queue, i) => Told(d.queue, i)
        /\ \A i \in Nat : count.line.start <= i /\ i < p =>
             Told(IF count.inqueue THEN d.queue ELSE d.out, i)
    BY <1>1, <2>1, InternalNewlineParts, InternalNewlineTells
  <2>5. count.line.start \in Nat /\ count.line.start <= p - 1
    BY <1>1, <2>1, SoundParts DEF StartsBy
  <2>. HIDE DEF d
  <2>6. \A i \in 0 .. ts - 1 : At(i) = "nl" => Told(d.out, i)
    <3>. SUFFICES ASSUME NEW i \in 0 .. ts - 1, At(i) = "nl", ~Told(count.out, i)
                  PROVE  Told(d.out, i)
      BY <2>4
    <3>1. ~Queues /\ entity # "internal" /\ Pending(Kept(count), i)
      BY <1>1 DEF AccountedIn
    <3>2. ~count.inqueue /\ count.line.start <= i
      BY <2>2, <2>3, <3>1 DEF Pending, Kept
    <3>3. i \in Nat /\ i < p
      BY <1>1
    <3>4. QED
      BY <2>4, <3>2, <3>3
  <2>7. \A i \in 0 .. p - 1 : At(i) = "nl" =>
          Told(d.out, i) \/ (region.enqueue /\ Told(d.queue, i))
    <3>. SUFFICES ASSUME NEW i \in 0 .. p - 1, At(i) = "nl", ~Told(count.out, i),
                         ~(region.enqueue /\ Told(count.queue, i))
                  PROVE  Told(d.out, i) \/ (region.enqueue /\ Told(d.queue, i))
      BY <2>4
    <3>1. Pending(count.line, i) \/ i = p - 1
      BY <1>1 DEF AccountedIn
    <3>2. i \in Nat /\ i < p /\ count.line.start <= i
      BY <1>1, <2>5, <3>1 DEF Pending
    <3>3. QED
      BY <2>3, <2>4, <3>2
  <2>8. Leave(count) = d /\ EntityLeft = "internal"
    BY <1>3 DEF Leave, EntityLeft, d
  <2>9. /\ At(ts) # "nl" /\ StartsBy(d.line, p)
        /\ d.inqueue => StartsBy(d.last, ts) /\ region.enqueue
        /\ region.enqueue => d.inqueue
    BY <1>1, <2>3, <2>4 DEF AccountedIn, StartsBy
  <2>10. QED
    BY <2>6, <2>7, <2>8, <2>9 DEF AccountedIn
<1>4. QED
  BY <1>1, <1>2, <1>3

\* What a region's symbols are, as far as newlines go.
LEMMA NewlineRoles ==
  ASSUME NEW r \in RegionType, NEW esc, NEW n
  PROVE  Role(r, esc, n, "nl") \in {"newline", "stop"}
         \/ (Role(r, esc, n, "nl") = "inner" /\ "raw" \in r.newline)
  BY DEF Role, NewlineRole

LEMMA ReadRegionAccount ==
  TypeInv /\ AccountInv /\ Recoverable /\ ReadRegion => AccountInv'
<1>. SUFFICES ASSUME TypeInv, AccountInv, Recoverable, ReadRegion PROVE AccountInv'
  OBVIOUS
<1>1. /\ Within /\ UNCHANGED <<text, lang, pc, region, ts>> /\ p' = p + 1
      /\ leaving' = (RoleHere = "newline") /\ entity' = EntityLeft
      /\ RoleHere \notin {"stop", "close"}
  BY DEF ReadRegion
<1>2. /\ p \in Nat /\ ts \in Nat /\ ts < p /\ region \in Grammar /\ region \in RegionType
      /\ p \in 0 .. pe /\ RoleHere = Role(region, escaped, nest, At(p))
      /\ escaped \in BOOLEAN
  BY <1>1, RegionTyped DEF TypeInv, TypeOK, ReadingInv, Within, pe, RoleHere
<1>. DEFINE m == CASE RoleHere \in {"inner", "nest", "unnest"} -> region.inner
                   [] RoleHere = "blank" -> region.blank
                   [] RoleHere \in {"escape", "newline"} -> "none"
            c == Leave(count)
            d == Mark(c, m, ts)
<1>3. count' = d
  BY DEF ReadRegion
<1>4. m \in Marks
  <2>1. RoleHere \in {"newline", "inner", "unnest", "nest", "escape", "blank"}
    BY <1>1, <1>2, RoleTyped
  <2>2. QED
    BY <1>2, <2>1 DEF RegionType, Marks
<1>5. RoleHere = "inner" => m = region.inner
  OBVIOUS
<1>6. Sound(c) /\ AccountedIn(c, p, region, ts, EntityLeft, FALSE)
  BY <1>1, <1>2, LeaveSound, LeaveAccounted
<1>. HIDE DEF m, c
<1>7. /\ Sound(d) /\ Begins(c, d, ts) /\ SaysOn(c, d)
      /\ m # "none" => Kind(d.line) # "lblank"
  BY <1>2, <1>4, <1>6, MarkSound, MarkBegins, MarkSays DEF SaysOn
<1>. HIDE DEF d
<1>8. StartsBy(d.line, p) /\ (EntityLeft # "internal" => StartsBy(d.line, ts))
  BY <1>2, <1>6, <1>7 DEF AccountedIn, Begins, StartsBy
<1>9. \A i : /\ Pending(c.line, i) => Pending(d.line, i)
             /\ Pending(Kept(c), i) => Pending(Kept(d), i)
  BY <1>7 DEF Begins, SaysOn, Pending, Kept
<1>10. At(p) = "nl" => RoleHere = "newline" \/ (~Queues /\ Pending(d.line, p))
  <2>. SUFFICES ASSUME At(p) = "nl", RoleHere # "newline"
                PROVE  ~Queues /\ Pending(d.line, p)
    OBVIOUS
  <2>1. RoleHere = "inner" /\ "raw" \in region.newline
    BY <1>1, <1>2, NewlineRoles
  <2>2. ~Queues
    BY <1>2, <2>1 DEF Recoverable
  <2>3. m # "none"
    BY <1>2, <1>5, <2>1, ScannersAssumption DEF Grammar, TypeInv, TypeOK
  <2>4. Kind(d.line) # "lblank" /\ d.line.start # NULL
    BY <1>7, <2>3, SaysStarted DEF Sound, CountType
  <2>5. QED
    BY <1>8, <2>2, <2>4 DEF Pending, StartsBy
<1>11. AccountedIn(d, p + 1, region, ts, EntityLeft, RoleHere = "newline")
  <2>1. \A i \in 0 .. (p + 1) - 1 : i \in 0 .. p - 1 \/ (i = p /\ i = (p + 1) - 1)
    BY <1>2
  <2>2. StartsBy(d.line, p + 1)
    BY <1>2, <1>7, <1>8, SoundParts DEF StartsBy
  <2>3. \A i \in 0 .. p - 1 : At(i) = "nl" =>
          \/ Told(d.out, i)
          \/ region.enqueue /\ Told(d.queue, i)
          \/ ~Queues /\ Pending(d.line, i)
    BY <1>6, <1>7, <1>9 DEF AccountedIn, Begins
  <2>4. \A i \in 0 .. (p + 1) - 1 : At(i) = "nl" =>
          \/ Told(d.out, i)
          \/ region.enqueue /\ Told(d.queue, i)
          \/ ~Queues /\ Pending(d.line, i)
          \/ RoleHere = "newline" /\ i = (p + 1) - 1
    BY <1>10, <2>1, <2>3
  <2>5. \A i \in 0 .. ts - 1 : At(i) = "nl" =>
          Told(d.out, i) \/ (~Queues /\ EntityLeft # "internal" /\ Pending(Kept(d), i))
    BY <1>6, <1>7, <1>9 DEF AccountedIn, Begins
  <2>6. /\ At(ts) # "nl"
        /\ d.inqueue => StartsBy(d.last, ts) /\ (region.enqueue \/ Queues)
        /\ region.enqueue => d.inqueue
    BY <1>6, <1>7 DEF AccountedIn, Begins
  <2>7. QED
    BY <1>8, <2>2, <2>4, <2>5, <2>6 DEF AccountedIn
<1>12. p' - 1 = p
  BY <1>1, <1>2
<1>13. pc' = "scan" /\ region' # NoRegion
  BY <1>1 DEF Within
<1>14. AccountedIn(count', p', region', ts', entity', leaving')
  BY <1>1, <1>3, <1>11
<1>15. QED
  BY <1>1, <1>3, <1>8, <1>12, <1>13, <1>14, WithinAccount

LEMMA CloseRegionAccount ==
  TypeInv /\ AccountInv /\ Recoverable /\ CloseRegion => AccountInv'
<1>. SUFFICES ASSUME TypeInv, AccountInv, Recoverable, CloseRegion PROVE AccountInv'
  OBVIOUS
<1>. DEFINE c == Leave(count)
            d == IF region.commit THEN Commit(c) ELSE c
            e == Mark(d, region.last, ts)
<1>1. Within /\ RoleHere = "close" /\ LeaveRegion(p + 1, e)
  BY DEF CloseRegion
<1>2. /\ p \in Nat /\ p \in 0 .. pe /\ ts \in Nat /\ ts < p /\ ts <= p
      /\ region \in Grammar /\ region \in RegionType
      /\ RoleHere = Role(region, escaped, nest, At(p))
      /\ region.last \in Marks
  BY <1>1, RegionTyped DEF TypeInv, TypeOK, ReadingInv, Within, pe, RoleHere, RegionType
<1>3. At(p) # "nl"
  BY <1>1, <1>2, NewlineRoles
<1>4. Sound(c) /\ AccountedIn(c, p, region, ts, EntityLeft, FALSE)
  BY <1>1, <1>2, LeaveSound, LeaveAccounted
<1>. HIDE DEF c
<1>5. /\ Sound(d) /\ d.line = c.line
      /\ region.enqueue => region.commit /\ c.inqueue
  BY <1>2, <1>4, CommitSound DEF AccountedIn, Recoverable
<1>6. Accounted(d, p)
  <2>1. CASE region.commit /\ c.inqueue
    <3>1. d.out = c.out \o c.queue /\ ~d.inqueue
      BY <1>4, <2>1, CommitParts
    <3>2. \A i : Told(c.out, i) \/ Told(c.queue, i) => Told(d.out, i)
      BY <1>4, <3>1, ConcatTells, SoundParts
    <3>. HIDE DEF d
    <3>3. QED
      BY <1>4, <1>5, <3>1, <3>2 DEF Accounted, AccountedIn
  <2>2. CASE ~(region.commit /\ c.inqueue)
    <3>1. d = c /\ ~region.enqueue
      BY <1>5, <2>2 DEF Commit
    <3>2. c.inqueue => Queues /\ StartsBy(c.last, p)
      BY <1>2, <1>4, <3>1, SoundParts DEF AccountedIn, StartsBy
    <3>3. QED
      BY <1>4, <3>1, <3>2 DEF Accounted, AccountedIn
  <2>3. QED
    BY <2>1, <2>2
<1>. HIDE DEF d
<1>7. Sound(e) /\ Begins(d, e, ts) /\ SaysOn(d, e)
  BY <1>2, <1>5, MarkSound, MarkBegins, MarkSays DEF SaysOn
<1>. HIDE DEF e
<1>8. Accounted(e, p)
  BY <1>2, <1>5, <1>6, <1>7, BeginsAccounted
<1>9. Accounted(e, p + 1)
  BY <1>2, <1>3, <1>7, <1>8, AccountedMore
<1>10. QED
  BY <1>1, <1>9, OutsideAccount DEF LeaveRegion, Within

LEMMA EndLineCommentAccount ==
  TypeInv /\ AccountInv /\ Recoverable /\ EndLineComment => AccountInv'
<1>. SUFFICES ASSUME TypeInv, AccountInv, Recoverable, EndLineComment PROVE AccountInv'
  OBVIOUS
<1>. DEFINE c == Leave(count)
<1>1. Within /\ region.close = "eol" /\ LeaveRegion(p, c)
  BY DEF EndLineComment
<1>2. /\ p \in Nat /\ p \in 0 .. pe /\ ts \in Nat /\ ts <= p /\ ~region.enqueue
  BY <1>1 DEF TypeInv, TypeOK, ReadingInv, Within, pe, Recoverable
<1>3. Sound(c) /\ AccountedIn(c, p, region, ts, EntityLeft, FALSE)
  BY <1>1, <1>2, LeaveSound, LeaveAccounted
<1>. HIDE DEF c
<1>4. c.inqueue => Queues /\ StartsBy(c.last, p)
  BY <1>2, <1>3, SoundParts DEF AccountedIn, StartsBy
<1>5. Accounted(c, p)
  BY <1>2, <1>3, <1>4 DEF Accounted, AccountedIn
<1>6. QED
  BY <1>1, <1>5, OutsideAccount DEF LeaveRegion, Within

\* Where the scanner goes back, what is in front of the region was reported or
\* is in the line that is put back to it.
LEMMA BacktrackAccount ==
  TypeInv /\ AccountInv /\ Recoverable /\ Backtrack => AccountInv'
<1>. SUFFICES ASSUME TypeInv, AccountInv, Recoverable, Backtrack PROVE AccountInv'
  OBVIOUS
<1>1. /\ Within /\ region.close # "eol"
      /\ LeaveRegion(ts + 1, IF entity = "internal"
                             THEN RestOfDelimiter(InternalNewline(count, ts))
                             ELSE Code(Dequeue(count), ts))
  BY DEF Backtrack
<1>2. /\ Sound(count) /\ ts \in Nat /\ file \in 1 .. NFiles /\ region \in Grammar
      /\ AccountedIn(count, p, region, ts, entity, leaving)
  BY <1>1 DEF TypeInv, TypeOK, Within, AccountInv
<1>3. At(ts) # "nl" /\ ts + 1 \in Nat /\ ts <= ts + 1
      /\ \A i \in ts .. (ts + 1) - 1 : i = ts
  BY <1>2 DEF AccountedIn
<1>4. ASSUME NEW c, Sound(c), Accounted(c, ts)
      PROVE  Accounted(c, ts + 1) /\ Accounted(Code(Dequeue(c), ts), ts + 1)
  <2>. DEFINE d == Dequeue(c)
              e == Code(d, ts)
  <2>1. Sound(d) /\ Accounted(d, ts)
    BY <1>4, DequeueSound, DequeueAccounted
  <2>2. Sound(e) /\ Begins(d, e, ts) /\ SaysOn(d, e)
    BY <1>2, <2>1, CodeSound, CodeBegins, MarkSays DEF SaysOn, Mark, Marks
  <2>. HIDE DEF d, e
  <2>3. Accounted(e, ts)
    BY <1>2, <2>1, <2>2, BeginsAccounted
  <2>4. Accounted(c, ts + 1) /\ Accounted(e, ts + 1)
    BY <1>2, <1>3, <1>4, <2>2, <2>3, AccountedMore
  <2>5. QED
    BY <2>4 DEF d, e
<1>5. CASE entity = "internal"
  <2>. DEFINE c == InternalNewline(count, ts)
  <2>1. region.newline # {} /\ count.line.start # NULL
    BY <1>1, <1>5, RegionTyped DEF TypeInv, TypeOK, ReadingInv, Within
  <2>2. Sound(c)
    BY <1>2, <2>1, InternalNewlineSound
  <2>3. /\ c.line.start = ts /\ c.last = count.last /\ c.inqueue = count.inqueue
        /\ \A i : Told(count.out, i) => Told(c.out, i)
    BY <1>2, <2>1, InternalNewlineParts, InternalNewlineTells
  <2>. HIDE DEF c
  <2>4. count.inqueue => Queues /\ StartsBy(count.last, ts)
    BY <1>2, <2>1 DEF AccountedIn, Queues
  <2>5. Accounted(c, ts)
    BY <1>2, <1>5, <2>3, <2>4 DEF Accounted, AccountedIn, StartsBy
  <2>6. Accounted(RestOfDelimiter(c), ts + 1)
    BY <1>4, <2>2, <2>5 DEF RestOfDelimiter
  <2>7. QED
    BY <1>1, <1>5, <2>6, OutsideAccount DEF LeaveRegion, Within, c
<1>6. CASE entity # "internal"
  <2>. DEFINE c == Dequeue(count)
  <2>1. Sound(c) /\ c.out = count.out /\ ~c.inqueue /\ c.line = Kept(count)
    BY <1>2, DequeueSound, DequeueParts DEF Kept
  <2>2. Dequeue(c) = c
    BY <2>1 DEF Dequeue
  <2>. HIDE DEF c
  <2>3. StartsBy(Kept(count), ts)
    BY <1>2, <1>6 DEF AccountedIn, Kept
  <2>4. Accounted(c, ts)
    BY <1>2, <2>1, <2>3 DEF Accounted, AccountedIn
  <2>5. Accounted(Code(c, ts), ts + 1)
    BY <1>4, <2>1, <2>2, <2>4
  <2>6. QED
    BY <1>1, <1>6, <2>5, OutsideAccount DEF LeaveRegion, Within, c
<1>7. QED
  BY <1>5, <1>6

LEMMA EndOfTextAccount == TypeInv /\ AccountInv /\ EndOfText => AccountInv'
<1>. SUFFICES ASSUME TypeInv, AccountInv, EndOfText PROVE AccountInv'
  OBVIOUS
<1>1. /\ count' = LastLine(count) /\ pc' = "parsed" /\ p' = p /\ text' = text
      /\ Sound(count) /\ Accounted(count, p) /\ pe \in Nat /\ p \in 0 .. pe
      /\ file \in 1 .. NFiles
  BY DEF EndOfText, AccountInv, TypeInv, TypeOK, pe
<1>2. \A i \in 0 .. p - 1 : At(i) = "nl" => Told(LastLine(count).out, i)
  <2>1. CASE Kind(count.line) = "lblank"
    BY <1>1, <2>1 DEF LastLine, Accounted, Pending
  <2>2. CASE Kind(count.line) # "lblank"
    <3>. DEFINE item == Callback(Kind(count.line), count.line.start, pe)
    <3>1. count.line.start \in Nat
      BY <1>1, <2>2, SaysStarted, SoundParts DEF Sound, CountType
    <3>2. item \in CallbackType /\ item.s = count.line.start /\ item.e = pe
      BY <1>1, <3>1, CallbackTyped DEF Sound, CountType, Callback
    <3>3. LastLine(count).out = Append(count.out, item)
      BY <1>1, <2>2 DEF LastLine, Sound, CountType
    <3>. HIDE DEF item
    <3>4. SUFFICES ASSUME NEW i \in 0 .. p - 1, At(i) = "nl", ~Told(count.out, i)
                   PROVE  item.s <= i /\ i < item.e
      BY <1>1, <3>2, <3>3, AppendTells, SoundParts
    <3>5. count.line.start <= i
      BY <1>1, <3>4 DEF Accounted, Pending
    <3>6. QED
      BY <1>1, <3>2, <3>4, <3>5
  <2>3. QED
    BY <2>1, <2>2
<1>3. QED
  BY <1>1, <1>2 DEF AccountInv, Outside, Within, Told, At

LEMMA NextFileAccount == TypeInv /\ NextFile => AccountInv'
<1>. SUFFICES ASSUME TypeInv, NextFile PROVE AccountInv'
  OBVIOUS
<1>1. p' = 0 /\ pc' = "scan" /\ region' = NoRegion /\ count' = StartFile(count)
  BY DEF NextFile, TypeInv, ReadingInv
<1>2. count'.line = NoLine /\ ~count'.inqueue
  BY <1>1 DEF StartFile, TypeInv, Sound, CountType
<1>3. QED
  BY <1>1, <1>2 DEF AccountInv, Outside, Within, Accounted, StartsBy, NoLine

LEMMA AccountInit == Init => KeptInv
<1>. SUFFICES ASSUME Init PROVE AccountInv
  BY DEF KeptInv
<1>1. p = 0 /\ pc = "scan" /\ region = NoRegion /\ count.line = NoLine /\ ~count.inqueue
  BY DEF Init, CountInit
<1>2. QED
  BY <1>1 DEF AccountInv, Outside, Within, Accounted, StartsBy, NoLine

LEMMA AccountStep == TypeInv /\ KeptInv /\ [Next]_vars => KeptInv'
<1>. SUFFICES ASSUME TypeInv, KeptInv, [Next]_vars, Recoverable'
              PROVE  AccountInv'
  BY DEF KeptInv
<1>1. CASE NextFile
  BY <1>1, NextFileAccount
<1>2. CASE ~NextFile
  <2>1. lang' = lang
    BY <1>2 DEF Next, vars, Spaces, Newline, AnyChar, Token, OpenRegion, ReadRegion,
       CloseRegion, EndLineComment, Backtrack, LeaveRegion, EndOfText
  <2>2. Recoverable /\ AccountInv
    BY <2>1 DEF Recoverable, Queues, Grammar, KeptInv
  <2>3. CASE UNCHANGED vars
    BY <2>2, <2>3 DEF vars, AccountInv, Outside, Within, Accounted, AccountedIn,
       StartsBy, Told, Pending, Kept, Kind, At, Queues, Grammar
  <2>4. QED
    BY <1>2, <2>2, <2>3, SpacesAccount, NewlineAccount, AnyCharAccount,
       OpenRegionAccount, ReadRegionAccount, CloseRegionAccount, EndLineCommentAccount,
       BacktrackAccount, EndOfTextAccount DEF Next
<1>3. QED
  BY <1>1, <1>2

\* Whatever the text: a scanner that commits what it enqueues, and enqueues all
\* lines that end inside its regions or none, reports every newline it passes,
\* however often it goes back.
THEOREM NoLineEverLost == Spec => []NoLineLost
<1>1. TypeInv /\ KeptInv => NoLineLost
  <2>. SUFFICES ASSUME TypeInv, AccountInv PROVE EveryLineReported
    BY DEF NoLineLost, KeptInv
  <2>1. Lines = 1 .. Len(count.out)
    BY SoundParts, LenProperties DEF Lines, TypeInv
  <2>2. QED
    BY <2>1 DEF EveryLineReported, AccountInv, Told, Covers
<1>2. QED
  BY <1>1, TypeInit, TypeStep, AccountInit, AccountStep, PTL DEF Spec

-----------------------------------------------------------------------------
(* What the parser promises, ConformingLines: the machine is where a plain *)
(* reading of the text is, has reported the lines that the reading ended,  *)
(* and what its globals say of the line under way is what was read of it.  *)

\* The library's theorem that < is well-founded, with its operator expanded.
LEMMA LessThanWellFounded ==
    IsWellFoundedOn({e \in Nat \X Nat : e[1] < e[2]}, Nat)
  BY NatLessThanWellFounded DEF OpToRel

LEMMA LeastNat ==
  ASSUME NEW S \in SUBSET Nat, S # {}
  PROVE  \E n \in S : \A k \in S : n <= k
<1>. DEFINE R == {e \in Nat \X Nat : e[1] < e[2]}
<1>1. IsWellFoundedOn(R, Nat)
  BY LessThanWellFounded
<1>2. PICK n \in S : \A k \in S : <<k, n>> \notin R
  <2>. HIDE DEF R
  <2>. QED
    BY <1>1, WFMin
<1>3. ASSUME NEW k \in S PROVE n <= k
  <2>1. k \in Nat /\ n \in Nat
    OBVIOUS
  <2>2. ~(k < n)
    BY <1>2, <2>1
  <2>3. QED
    BY <2>1, <2>2
<1>4. QED
  BY <1>3

\* f says what a text is up to its first n symbols.
ReadsTo(f, n) ==
    f = [i \in 0 .. n |-> IF i = 0 THEN Unread ELSE Read(f[i - 1], text[i])]

LEMMA ReadingExists ==
  ASSUME NEW n \in Nat
  PROVE  \E f : ReadsTo(f, n)
<1>. DEFINE S == {k \in Nat : ~\E f : ReadsTo(f, k)}
<1>1. ASSUME S # {} PROVE FALSE
  <2>1. PICK k \in S : \A j \in S : k <= j
    BY <1>1, LeastNat
  <2>2. CASE k = 0
    <3>. DEFINE f == [i \in 0 .. 0 |-> Unread]
    <3>1. f = [i \in 0 .. 0 |-> IF i = 0 THEN Unread ELSE Read(f[i - 1], text[i])]
      OBVIOUS
    <3>2. QED
      BY <2>2, <3>1 DEF ReadsTo
  <2>3. CASE k # 0
    <3>1. k - 1 \in Nat /\ k - 1 \notin S
      BY <2>1, <2>3
    <3>2. PICK g : ReadsTo(g, k - 1)
      BY <3>1
    <3>. DEFINE f == [i \in 0 .. k |-> IF i = k THEN Read(g[k - 1], text[k]) ELSE g[i]]
    <3>3. ASSUME NEW i \in 0 .. k
          PROVE  f[i] = IF i = 0 THEN Unread ELSE Read(f[i - 1], text[i])
      <4>1. CASE i = k
        BY <2>1, <2>3, <3>1, <4>1
      <4>2. CASE i # k
        <5>1. i \in 0 .. k - 1 /\ (i # 0 => i - 1 \in 0 .. k - 1 /\ i - 1 # k)
          BY <2>1, <4>2
        <5>2. f[i] = g[i] /\ (i # 0 => f[i - 1] = g[i - 1])
          BY <4>2, <5>1
        <5>3. g[i] = IF i = 0 THEN Unread ELSE Read(g[i - 1], text[i])
          BY <3>2, <5>1 DEF ReadsTo
        <5>4. QED
          BY <5>2, <5>3
      <4>3. QED
        BY <4>1, <4>2
    <3>4. f = [i \in 0 .. k |-> IF i = 0 THEN Unread ELSE Read(f[i - 1], text[i])]
      BY <3>3
    <3>5. QED
      BY <2>1, <3>4 DEF ReadsTo
  <2>4. QED
    BY <2>2, <2>3
<1>2. QED
  BY <1>1

LEMMA ReadingReads == pe \in Nat => ReadsTo(Reading, pe)
  BY ReadingExists DEF ReadsTo, Reading

LEMMA ReadingReadsNext == (pe \in Nat => ReadsTo(Reading, pe))'
  BY ReadingReads, PTL

\* Two readings of a text agree.
LEMMA ReadsToUnique ==
  ASSUME NEW n \in Nat, NEW f, NEW g, ReadsTo(f, n), ReadsTo(g, n)
  PROVE  f = g
<1>. DEFINE S == {i \in 0 .. n : f[i] # g[i]}
<1>1. S = {}
  <2>1. SUFFICES ASSUME S # {} PROVE FALSE
    OBVIOUS
  <2>2. PICK k \in S : \A j \in S : k <= j
    <3>1. S \in SUBSET Nat
      OBVIOUS
    <3>. HIDE DEF S
    <3>. QED
      BY <2>1, <3>1, LeastNat
  <2>3. /\ f[k] = IF k = 0 THEN Unread ELSE Read(f[k - 1], text[k])
        /\ g[k] = IF k = 0 THEN Unread ELSE Read(g[k - 1], text[k])
    BY <2>2 DEF ReadsTo
  <2>4. k # 0 => k - 1 \in 0 .. n /\ k - 1 \notin S
    BY <2>2
  <2>5. QED
    BY <2>2, <2>3, <2>4
<1>2. \A i \in 0 .. n : f[i] = g[i]
  BY <1>1
<1>3. f = [i \in 0 .. n |-> f[i]] /\ g = [i \in 0 .. n |-> g[i]]
  BY DEF ReadsTo
<1>4. QED
  BY <1>2, <1>3

LEMMA ReadingStays ==
  ASSUME UNCHANGED <<lang, text>>, pe \in Nat
  PROVE  Reading' = Reading
<1>1. pe' = pe /\ text' = text
  BY DEF pe
<1>2. \A st, s : Read(st, s)' = Read(st, s)
  BY DEF Read, Grammar
<1>3. ReadsTo(Reading, pe) /\ ReadsTo(Reading', pe)
  BY <1>1, <1>2, ReadingReads, ReadingReadsNext DEF ReadsTo
<1>4. QED
  BY <1>3, ReadsToUnique

ReadState ==
    [region : Grammar \cup {NoRegion}, escaped : BOOLEAN, nest : Int, ok : BOOLEAN]

LEMMA UnreadWith ==
  ASSUME NEW g, NEW b \in BOOLEAN
  PROVE  LET x == [Unread EXCEPT !.ok = b]
             y == [Unread EXCEPT !.ok = b, !.region = g]
         IN  /\ x.region = NoRegion /\ x.escaped = FALSE /\ x.nest = 0 /\ x.ok = b
             /\ y.region = g /\ y.escaped = FALSE /\ y.nest = 0 /\ y.ok = b
             /\ g \in Grammar \cup {NoRegion} => x \in ReadState /\ y \in ReadState
<1>. DEFINE x == [Unread EXCEPT !.ok = b]
            y == [Unread EXCEPT !.ok = b, !.region = g]
<1>1. x.region = NoRegion /\ x.escaped = FALSE /\ x.nest = 0
  BY DEF Unread
<1>2. x.ok = b /\ y.ok = b
  BY DEF Unread
<1>3. y.region = g /\ y.escaped = FALSE /\ y.nest = 0
  BY DEF Unread
<1>4. ASSUME g \in Grammar \cup {NoRegion} PROVE x \in ReadState /\ y \in ReadState
  <2>1. Unread \in ReadState
    BY DEF Unread, ReadState
  <2>2. QED
    BY <1>4, <2>1 DEF ReadState
<1>. HIDE DEF x, y
<1>5. QED
  BY <1>1, <1>2, <1>3, <1>4 DEF x, y

LEMMA ReadTyped ==
  ASSUME lang \in DOMAIN Scanners, NEW st \in ReadState, NEW s
  PROVE  Read(st, s) \in ReadState /\ (~st.ok => ~Read(st, s).ok)
<1>. DEFINE r == st.region
            role == Role(r, st.escaped, st.nest, s)
            opened == {g \in Grammar : g.open = s}
            g == IF opened = {} THEN NoRegion ELSE CHOOSE h \in opened : TRUE
            e == role = "escape" \/ (s = "bs" /\ ~r.pair /\ "escaped" \in r.newline)
            n == CASE role = "nest" -> st.nest + 1
                   [] role = "unnest" -> st.nest - 1
                   [] OTHER -> st.nest
<1>1. Read(st, s) =
        CASE r # NoRegion /\ role = "stop" /\ r.close # "eol" -> [st EXCEPT !.ok = FALSE]
          [] r # NoRegion /\ role = "close" -> [Unread EXCEPT !.ok = st.ok]
          [] r # NoRegion /\ role \notin {"stop", "close"} ->
                [st EXCEPT !.escaped = e, !.nest = n]
          [] OTHER -> [Unread EXCEPT !.ok = st.ok, !.region = g]
  BY DEF Read
<1>2. g \in Grammar \cup {NoRegion}
  OBVIOUS
<1>3. e \in BOOLEAN /\ n \in Int
  BY DEF ReadState
<1>4. Unread \in ReadState
  BY DEF Unread, ReadState
<1>. HIDE DEF g, e, n
<1>5. /\ [st EXCEPT !.ok = FALSE] \in ReadState /\ ~[st EXCEPT !.ok = FALSE].ok
      /\ [st EXCEPT !.escaped = e, !.nest = n] \in ReadState
      /\ [st EXCEPT !.escaped = e, !.nest = n].ok = st.ok
  BY <1>3 DEF ReadState
<1>6. /\ [Unread EXCEPT !.ok = st.ok] \in ReadState
      /\ [Unread EXCEPT !.ok = st.ok].ok = st.ok
      /\ [Unread EXCEPT !.ok = st.ok, !.region = g] \in ReadState
      /\ [Unread EXCEPT !.ok = st.ok, !.region = g].ok = st.ok
  <2>1. st.ok \in BOOLEAN
    BY DEF ReadState
  <2>2. PICK b \in BOOLEAN : b = st.ok
    BY <2>1
  <2>3. QED
    BY <1>2, <2>2, UnreadWith
<1>. HIDE DEF r, role
<1>7. QED
  BY <1>1, <1>5, <1>6

LEMMA ReadingTyped ==
  ASSUME TypeOK
  PROVE  \A i \in 0 .. pe : Reading[i] \in ReadState
<1>. DEFINE f == Reading
            S == {i \in 0 .. pe : f[i] \notin ReadState}
<1>1. pe \in Nat /\ ReadsTo(f, pe)
  BY ReadingReads DEF TypeOK, pe
<1>. HIDE DEF f
<1>2. SUFFICES ASSUME S # {} PROVE FALSE
  BY DEF f
<1>3. PICK k \in S : \A j \in S : k <= j
  <2>1. S \in SUBSET Nat
    OBVIOUS
  <2>. HIDE DEF S
  <2>. QED
    BY <1>2, <2>1, LeastNat
<1>4. f[k] = IF k = 0 THEN Unread ELSE Read(f[k - 1], text[k])
  BY <1>1, <1>3 DEF ReadsTo
<1>5. k # 0 => k - 1 \in 0 .. pe /\ k - 1 \notin S
  BY <1>1, <1>3
<1>6. Unread \in ReadState
  BY DEF Unread, ReadState
<1>7. QED
  BY <1>3, <1>4, <1>5, <1>6, ReadTyped DEF TypeOK

\* Of a text that is well formed up to its end, every beginning is.
LEMMA ReadingOk ==
  ASSUME TypeOK, WellFormed
  PROVE  \A i \in 0 .. pe : Reading[i].ok
<1>. DEFINE f == Reading
<1>1. pe \in Nat /\ ReadsTo(f, pe) /\ f[pe].ok /\ \A i \in 0 .. pe : f[i] \in ReadState
  BY ReadingReads, ReadingTyped DEF TypeOK, pe, WellFormed
<1>. HIDE DEF f
<1>2. SUFFICES ASSUME NEW i \in 0 .. pe, ~f[i].ok PROVE FALSE
  BY DEF f
<1>. DEFINE S == {j \in i .. pe : f[j].ok}
<1>3. PICK k \in S : \A j \in S : k <= j
  <2>1. S \in SUBSET Nat /\ pe \in S
    BY <1>1
  <2>. HIDE DEF S
  <2>. QED
    BY <2>1, LeastNat
<1>4. k \in 1 .. pe /\ k - 1 \in i .. pe /\ k - 1 \notin S
  BY <1>1, <1>2, <1>3
<1>5. f[k] = Read(f[k - 1], text[k])
  BY <1>1, <1>4 DEF ReadsTo
<1>6. k - 1 \in 0 .. pe /\ ~f[k - 1].ok
  BY <1>4
<1>7. QED
  BY <1>1, <1>3, <1>5, <1>6, ReadTyped DEF TypeOK

\* Between tokens: no region is being read, or a line comment that ends here.
Idle(f, i) ==
    \/ f[i].region = NoRegion
    \/ /\ f[i].region.close = "eol"
       /\ i < pe => Role(f[i].region, f[i].escaped, f[i].nest, text[i + 1]) = "stop"

\* In region r.
Inside(f, i, r, e, n) ==
    f[i].region = r /\ f[i].escaped = e /\ f[i].nest = n /\ f[i].ok = TRUE

LEMMA IdleNext ==
  ASSUME TypeOK, WellFormed, NEW i \in 0 .. pe - 1, Idle(Reading, i)
  PROVE  /\ \A g \in Grammar : g.open = text[i + 1] => Inside(Reading, i + 1, g, FALSE, 0)
         /\ (\A g \in Grammar : g.open # text[i + 1]) => Inside(Reading, i + 1, NoRegion, FALSE, 0)
<1>. DEFINE st == Reading[i]
            s == text[i + 1]
            r == st.region
            role == Role(r, st.escaped, st.nest, s)
            opened == {g \in Grammar : g.open = s}
            g == IF opened = {} THEN NoRegion ELSE CHOOSE h \in opened : TRUE
            e == role = "escape" \/ (s = "bs" /\ ~r.pair /\ "escaped" \in r.newline)
            n == CASE role = "nest" -> st.nest + 1
                   [] role = "unnest" -> st.nest - 1
                   [] OTHER -> st.nest
<1>1. pe \in Nat /\ i + 1 \in 0 .. pe /\ i + 1 # 0 /\ i + 1 - 1 = i
  BY DEF TypeOK, pe
<1>2. Reading[i + 1] = Read(st, s)
  BY <1>1, ReadingReads DEF ReadsTo
<1>3. st.ok = TRUE
  BY <1>1, ReadingOk, ReadingTyped DEF ReadState
<1>4. Read(st, s) =
        CASE r # NoRegion /\ role = "stop" /\ r.close # "eol" -> [st EXCEPT !.ok = FALSE]
          [] r # NoRegion /\ role = "close" -> [Unread EXCEPT !.ok = st.ok]
          [] r # NoRegion /\ role \notin {"stop", "close"} ->
                [st EXCEPT !.escaped = e, !.nest = n]
          [] OTHER -> [Unread EXCEPT !.ok = st.ok, !.region = g]
  BY DEF Read
<1>5. r = NoRegion \/ (r.close = "eol" /\ role = "stop")
  BY <1>1 DEF Idle
<1>. HIDE DEF r, role, g, e, n
<1>. DEFINE y == [Unread EXCEPT !.ok = TRUE, !.region = g]
<1>6. Read(st, s) = y
  BY <1>3, <1>4, <1>5
<1>11. y.region = g /\ y.escaped = FALSE /\ y.nest = 0 /\ y.ok = TRUE
  BY UnreadWith
<1>. HIDE DEF y
<1>7. Inside(Reading, i + 1, g, FALSE, 0)
  BY <1>2, <1>6, <1>11 DEF Inside
<1>8. ASSUME NEW h \in Grammar, h.open = s PROVE g = h
  <2>1. \A h1 \in Grammar : h1.open = s => h1 = h
    BY <1>8, DelimitersAssumption DEF Grammar, TypeOK
  <2>2. opened # {} /\ (CHOOSE h1 \in opened : TRUE) \in opened
    BY <1>8
  <2>3. QED
    BY <2>1, <2>2 DEF g
<1>9. (\A h \in Grammar : h.open # s) => g = NoRegion
  BY DEF g
<1>10. QED
  BY <1>7, <1>8, <1>9

LEMMA InsideNext ==
  ASSUME TypeOK, WellFormed, NEW i \in 0 .. pe - 1, NEW r \in Grammar,
         NEW e \in BOOLEAN, NEW n \in Int, Inside(Reading, i, r, e, n)
  PROVE  LET s == text[i + 1]
             role == Role(r, e, n, s)
         IN  /\ role = "close" => Inside(Reading, i + 1, NoRegion, FALSE, 0)
             /\ role \notin {"stop", "close"} =>
                  Inside(Reading, i + 1, r,
                         role = "escape" \/ (s = "bs" /\ ~r.pair /\ "escaped" \in r.newline),
                         CASE role = "nest" -> n + 1
                           [] role = "unnest" -> n - 1
                           [] OTHER -> n)
             /\ role = "stop" => r.close = "eol"
<1>. DEFINE st == Reading[i]
            s == text[i + 1]
            role == Role(r, e, n, s)
            e1 == role = "escape" \/ (s = "bs" /\ ~r.pair /\ "escaped" \in r.newline)
            n1 == CASE role = "nest" -> n + 1
                   [] role = "unnest" -> n - 1
                   [] OTHER -> n
<1>1. pe \in Nat /\ i + 1 \in 0 .. pe /\ i + 1 # 0 /\ i + 1 - 1 = i
  BY DEF TypeOK, pe
<1>2. Reading[i + 1] = Read(st, s)
  BY <1>1, ReadingReads DEF ReadsTo
<1>3. Reading[i + 1].ok
  BY <1>1, ReadingOk
<1>4. r # NoRegion
  BY RegionTyped DEF TypeOK
<1>5. st \in ReadState
  BY <1>1, ReadingTyped
<1>11. st.region = r /\ st.escaped = e /\ st.nest = n /\ st.ok = TRUE
  BY DEF Inside
<1>. HIDE DEF st
<1>6. /\ role = "stop" /\ r.close # "eol" => Read(st, s) = [st EXCEPT !.ok = FALSE]
      /\ role = "close" => Read(st, s) = [Unread EXCEPT !.ok = TRUE]
      /\ role \notin {"stop", "close"} =>
            Read(st, s) = [st EXCEPT !.escaped = e1, !.nest = n1]
  BY <1>4, <1>11 DEF Read
<1>. HIDE DEF role, e1, n1
<1>7. role = "stop" => r.close = "eol"
  BY <1>2, <1>3, <1>5, <1>6 DEF ReadState
<1>8. role = "close" => Inside(Reading, i + 1, NoRegion, FALSE, 0)
  <2>. DEFINE x == [Unread EXCEPT !.ok = TRUE]
  <2>1. x.region = NoRegion /\ x.escaped = FALSE /\ x.nest = 0 /\ x.ok = TRUE
    BY UnreadWith
  <2>2. role = "close" => Read(st, s) = x
    BY <1>6
  <2>. HIDE DEF x
  <2>3. QED
    BY <1>2, <2>1, <2>2 DEF Inside
<1>9. role \notin {"stop", "close"} => Inside(Reading, i + 1, r, e1, n1)
  BY <1>2, <1>5, <1>6, <1>11 DEF Inside, ReadState
<1>10. QED
  BY <1>7, <1>8, <1>9 DEF role, e1, n1

-----------------------------------------------------------------------------
(* What a text says of the line under way, and which newlines it has.      *)

\* The symbols since the last newline in the first q, and what they say.
InLine(q) == {i \in 1 .. q : \A k \in i .. q : text[k] # "nl"}
Sofar(f, q) == UNION {Says(f, i) : i \in InLine(q)}
Said(f, e) == UNION {Says(f, i) : i \in LineOf(e)}

LEMMA SofarNext ==
  ASSUME NEW f, NEW q \in Nat
  PROVE  /\ text[q + 1] = "nl" => Sofar(f, q + 1) = {} /\ Said(f, q + 1) = Sofar(f, q)
         /\ text[q + 1] # "nl" => /\ Sofar(f, q + 1) = Sofar(f, q) \cup Says(f, q + 1)
                                  /\ Said(f, q + 1) = Sofar(f, q + 1)
<1>1. LineOf(q + 1) = InLine(q) \cup {q + 1}
  <2>1. q + 1 \in LineOf(q + 1)
    BY DEF LineOf
  <2>2. \A i : i \in 1 .. q => i .. q = i .. q + 1 - 1 /\ i \in 1 .. q + 1
    OBVIOUS
  <2>3. \A i : i \in 1 .. q + 1 => i \in 1 .. q \/ i = q + 1
    OBVIOUS
  <2>4. QED
    BY <2>1, <2>2, <2>3 DEF LineOf, InLine
<1>2. text[q + 1] = "nl" => InLine(q + 1) = {}
  <2>1. \A i \in 1 .. q + 1 : q + 1 \in i .. q + 1
    OBVIOUS
  <2>2. QED
    BY <2>1 DEF InLine
<1>3. text[q + 1] # "nl" => InLine(q + 1) = InLine(q) \cup {q + 1}
  <2>. SUFFICES ASSUME text[q + 1] # "nl", NEW i
                PROVE  i \in InLine(q + 1) <=> i \in InLine(q) \cup {q + 1}
    OBVIOUS
  <2>1. i \in 1 .. q + 1 <=> i \in 1 .. q \/ i = q + 1
    OBVIOUS
  <2>2. ASSUME NEW k, i \in 1 .. q + 1
        PROVE  k \in i .. q + 1 <=> k \in i .. q \/ k = q + 1
    BY <2>2
  <2>3. i = q + 1 => i .. q = {}
    OBVIOUS
  <2>4. QED
    BY <2>1, <2>2, <2>3 DEF InLine
<1>4. text[q + 1] = "nl" => Says(f, q + 1) = {}
  BY DEF Says
<1>5. Said(f, q + 1) = Sofar(f, q) \cup Says(f, q + 1)
  BY <1>1 DEF Said, Sofar
<1>6. QED
  BY <1>2, <1>3, <1>4, <1>5 DEF Sofar

\* The line is reported as what S says.
Match(line, S) ==
    /\ line.code <=> "code" \in S
    /\ "code" \notin S => (line.comment <=> "comment" \in S)

LEMMA KindOfMatch ==
  ASSUME NEW f, NEW e, NEW line \in LineType, Match(line, Said(f, e))
  PROVE  Kind(line) = Promise(f, e)
<1>. DEFINE S == Said(f, e)
<1>1. Promise(f, e) = IF "code" \in S THEN "lcode"
                      ELSE IF "comment" \in S THEN "lcomment" ELSE "lblank"
  BY DEF Promise, Kind, Said
<1>. HIDE DEF S
<1>2. QED
  BY <1>1 DEF Match, Kind, LineType, S

-----------------------------------------------------------------------------
(* What is reported and what is in the queue.                              *)

KindsIn(s) == {<<s[i].e, s[i].kind>> : i \in 1 .. Len(s)}
KindsOf(c) == KindsIn(c.out) \cup (IF c.inqueue THEN KindsIn(c.queue) ELSE {})
CallsOf(c) == Len(c.out) + (IF c.inqueue THEN Len(c.queue) ELSE 0)

LEMMA KindsAppend ==
  ASSUME NEW s \in Seq(CallbackType), NEW item
  PROVE  /\ KindsIn(Append(s, item)) = KindsIn(s) \cup {<<item.e, item.kind>>}
         /\ Len(Append(s, item)) = Len(s) + 1
<1>. DEFINE t == Append(s, item)
            n == Len(s)
<1>1. /\ n \in Nat /\ Len(t) = n + 1 /\ t[n + 1] = item
      /\ \A k \in 1 .. n : t[k] = s[k]
  OBVIOUS
<1>2. 1 .. n + 1 = (1 .. n) \cup {n + 1}
  BY <1>1
<1>. HIDE DEF t, n
<1>3. KindsIn(t) = {<<t[i].e, t[i].kind>> : i \in 1 .. n} \cup {<<t[n + 1].e, t[n + 1].kind>>}
  BY <1>1, <1>2 DEF KindsIn
<1>4. {<<t[i].e, t[i].kind>> : i \in 1 .. n} = {<<s[i].e, s[i].kind>> : i \in 1 .. n}
  BY <1>1
<1>5. QED
  BY <1>1, <1>3, <1>4 DEF KindsIn, t, n

LEMMA KindsConcat ==
  ASSUME NEW s \in Seq(CallbackType), NEW q \in Seq(CallbackType)
  PROVE  /\ KindsIn(s \o q) = KindsIn(s) \cup KindsIn(q)
         /\ Len(s \o q) = Len(s) + Len(q)
<1>. DEFINE t == s \o q
            n == Len(s)
            m == Len(q)
<1>1. /\ n \in Nat /\ m \in Nat /\ Len(t) = n + m
      /\ \A k \in 1 .. n : t[k] = s[k]
      /\ \A k \in n + 1 .. n + m : t[k] = q[k - n]
  BY ConcatProperties, LenProperties
<1>. HIDE DEF t, n, m
<1>2. \A k : k \in 1 .. n + m <=> k \in 1 .. n \/ k \in n + 1 .. n + m
  BY <1>1
<1>3. KindsIn(t) = {<<t[i].e, t[i].kind>> : i \in 1 .. n}
                     \cup {<<t[i].e, t[i].kind>> : i \in n + 1 .. n + m}
  BY <1>1, <1>2 DEF KindsIn
<1>4. {<<t[i].e, t[i].kind>> : i \in 1 .. n} = KindsIn(s)
  BY <1>1 DEF KindsIn, n
<1>5. {<<t[i].e, t[i].kind>> : i \in n + 1 .. n + m} = KindsIn(q)
  <2>1. \A k \in 1 .. m : k + n \in n + 1 .. n + m /\ (k + n) - n = k
    BY <1>1
  <2>2. \A k \in n + 1 .. n + m : k - n \in 1 .. m
    BY <1>1
  <2>3. \A k \in 1 .. m : t[k + n] = q[k]
    BY <1>1, <2>1
  <2>4. QED
    BY <1>1, <2>1, <2>2, <2>3 DEF KindsIn, m
<1>6. QED
  BY <1>1, <1>3, <1>4, <1>5 DEF t, n, m

LEMMA KindsEmpty == KindsIn(<<>>) = {} /\ Len(<<>>) = 0
  BY DEF KindsIn

\* Until x, every newline is reported or in the queue, once, as what its line is.
Ends(q) == {e \in 1 .. q : text[e] = "nl"}
Tally(f, c, q) ==
    /\ KindsOf(c) = {<<e, Promise(f, e)>> : e \in Ends(q)}
    /\ CallsOf(c) = Cardinality(Ends(q))

LEMMA TallyMore ==
  ASSUME NEW f, NEW q \in Nat, NEW c, Tally(f, c, q), NEW d
  PROVE  /\ /\ text[q + 1] = "nl"
            /\ KindsOf(d) = KindsOf(c) \cup {<<q + 1, Promise(f, q + 1)>>}
            /\ CallsOf(d) = CallsOf(c) + 1
            => Tally(f, d, q + 1)
         /\ /\ text[q + 1] # "nl"
            /\ KindsOf(d) = KindsOf(c) /\ CallsOf(d) = CallsOf(c)
            => Tally(f, d, q + 1)
<1>1. \A e : e \in 1 .. q + 1 <=> e \in 1 .. q \/ e = q + 1
  OBVIOUS
<1>2. CASE text[q + 1] = "nl"
  <2>1. Ends(q + 1) = Ends(q) \cup {q + 1} /\ q + 1 \notin Ends(q)
    BY <1>1, <1>2 DEF Ends
  <2>2. IsFiniteSet(Ends(q))
    <3>1. Ends(q) \subseteq 1 .. q
      BY DEF Ends
    <3>2. QED
      BY <3>1, FS_Interval, FS_Subset
  <2>3. Cardinality(Ends(q + 1)) = Cardinality(Ends(q)) + 1
    BY <2>1, <2>2, FS_AddElement
  <2>4. QED
    BY <1>2, <2>1, <2>3 DEF Tally
<1>3. CASE text[q + 1] # "nl"
  <2>1. Ends(q + 1) = Ends(q)
    BY <1>1, <1>3 DEF Ends
  <2>2. QED
    BY <1>3, <2>1 DEF Tally
<1>4. QED
  BY <1>2, <1>3

-----------------------------------------------------------------------------
(* What the macros and actions do to both.                                 *)

LEMMA BeginsKinds ==
  ASSUME NEW c, NEW d, NEW from, Begins(c, d, from)
  PROVE  KindsOf(d) = KindsOf(c) /\ CallsOf(d) = CallsOf(c) /\ d.inqueue = c.inqueue
  BY DEF Begins, KindsOf, CallsOf

LEMMA EnqueueKinds ==
  ASSUME NEW c, Sound(c), ~c.inqueue
  PROVE  /\ KindsOf(Enqueue(c)) = KindsOf(c) /\ CallsOf(Enqueue(c)) = CallsOf(c)
         /\ Enqueue(c).line = c.line /\ Enqueue(c).inqueue
<1>1. Len(c.out) \in Nat
  BY SoundParts
<1>2. QED
  BY <1>1, EnqueueParts, KindsEmpty DEF KindsOf, CallsOf

LEMMA CommitKinds ==
  ASSUME NEW c, Sound(c)
  PROVE  /\ KindsOf(Commit(c)) = KindsOf(c) /\ CallsOf(Commit(c)) = CallsOf(c)
         /\ Commit(c).line = c.line /\ ~Commit(c).inqueue
<1>1. CASE c.inqueue
  <2>1. Len(c.out) \in Nat /\ Len(c.queue) \in Nat
    BY SoundParts
  <2>2. Commit(c).out = c.out \o c.queue /\ Commit(c).line = c.line /\ ~Commit(c).inqueue
    BY <1>1, CommitParts
  <2>3. KindsIn(c.out \o c.queue) = KindsIn(c.out) \cup KindsIn(c.queue)
        /\ Len(c.out \o c.queue) = Len(c.out) + Len(c.queue)
    BY SoundParts, KindsConcat
  <2>4. QED
    BY <1>1, <2>1, <2>2, <2>3 DEF KindsOf, CallsOf
<1>2. CASE ~c.inqueue
  BY <1>2 DEF Commit
<1>3. QED
  BY <1>1, <1>2

LEMMA DequeueNothing ==
  ASSUME NEW c, ~c.inqueue
  PROVE  Dequeue(c) = c
  BY DEF Dequeue

LEMMA InternalNewlineKinds ==
  ASSUME NEW c, Sound(c), c.line.start # NULL, NEW at \in Nat, c.line.start < at
  PROVE  LET d == InternalNewline(c, at)
         IN  /\ KindsOf(d) = KindsOf(c) \cup {<<at, Kind(c.line)>>}
             /\ CallsOf(d) = CallsOf(c) + 1
             /\ d.inqueue = c.inqueue /\ d.line.start = at
             /\ Match(d.line, {})
<1>. DEFINE item == Callback(Kind(c.line), c.line.start, at)
            line == [NoLine EXCEPT !.start = at]
            d == IF at <= c.line.start THEN c
                 ELSE IF c.inqueue THEN [c EXCEPT !.queue = Append(@, item)]
                 ELSE [c EXCEPT !.out = Append(@, item)]
            e == [d EXCEPT !.line = line]
<1>1. item.e = at /\ item.kind = Kind(c.line)
  BY DEF Callback
<1>2. /\ c.queue \in Seq(CallbackType) /\ c.out \in Seq(CallbackType)
      /\ ~(at <= c.line.start) /\ Len(c.queue) \in Nat /\ Len(c.out) \in Nat
  BY SoundParts
<1>3. line.start = at /\ ~line.code /\ ~line.comment
  BY DEF NoLine
<1>4. InternalNewline(c, at) = e
  BY DEF InternalNewline
<1>. HIDE DEF item, line
<1>5. /\ e.out = (IF c.inqueue THEN c.out ELSE Append(c.out, item))
      /\ c.inqueue => e.queue = Append(c.queue, item)
      /\ e.inqueue = c.inqueue /\ e.line = line
  BY <1>2 DEF Sound, CountType
<1>. HIDE DEF d, e
<1>6. /\ KindsIn(Append(c.out, item)) = KindsIn(c.out) \cup {<<at, Kind(c.line)>>}
      /\ KindsIn(Append(c.queue, item)) = KindsIn(c.queue) \cup {<<at, Kind(c.line)>>}
      /\ Len(Append(c.out, item)) = Len(c.out) + 1
      /\ Len(Append(c.queue, item)) = Len(c.queue) + 1
  BY <1>1, <1>2, KindsAppend
<1>7. KindsOf(e) = KindsOf(c) \cup {<<at, Kind(c.line)>>}
  BY <1>5, <1>6 DEF KindsOf
<1>8. CallsOf(e) = CallsOf(c) + 1
  <2>1. CASE c.inqueue
    <3>1. e.inqueue /\ Len(e.out) = Len(c.out) /\ Len(e.queue) = Len(c.queue) + 1
      BY <1>5, <1>6, <2>1
    <3>2. CallsOf(e) = Len(e.out) + Len(e.queue) /\ CallsOf(c) = Len(c.out) + Len(c.queue)
      BY <2>1, <3>1 DEF CallsOf
    <3>3. \A a, b \in Nat : a + (b + 1) = (a + b) + 1
      OBVIOUS
    <3>. QED
      BY <1>2, <3>1, <3>2, <3>3, Zenon
  <2>2. CASE ~c.inqueue
    <3>1. ~e.inqueue /\ Len(e.out) = Len(c.out) + 1
      BY <1>5, <1>6, <2>2
    <3>2. CallsOf(e) = Len(e.out) + 0 /\ CallsOf(c) = Len(c.out) + 0
      BY <2>2, <3>1 DEF CallsOf
    <3>. QED
      BY <1>2, <3>1, <3>2
  <2>3. QED
    BY <2>1, <2>2
<1>9. Match(line, {})
  BY <1>3 DEF Match
<1>10. QED
  BY <1>3, <1>4, <1>5, <1>7, <1>8, <1>9

LEMMA StdNewlineKinds ==
  ASSUME NEW c, Sound(c), ~c.inqueue, NEW from \in Nat, NEW te \in Nat, c.line.start < te
  PROVE  LET d == StdNewline(c, from, te)
         IN  /\ KindsOf(d) = KindsOf(c) \cup {<<te, Kind(c.line)>>}
             /\ CallsOf(d) = CallsOf(c) + 1
             /\ ~d.inqueue /\ d.line = NoLine
             /\ Match(d.line, {})
<1>. DEFINE s == IF Kind(c.line) = "lblank" THEN from ELSE c.line.start
            item == Callback(Kind(c.line), s, te)
            d == [c EXCEPT !.line = NoLine, !.out = Append(@, item)]
<1>1. item.e = te /\ item.kind = Kind(c.line)
  BY DEF Callback
<1>2. c.out \in Seq(CallbackType) /\ Len(c.out) \in Nat /\ te > c.line.start
  BY SoundParts DEF Sound, CountType, LineType, NULL
<1>3. Dequeue(c) = c
  BY DequeueNothing
<1>. HIDE DEF item
<1>4. StdNewline(c, from, te) = d
  BY <1>2, <1>3 DEF StdNewline, item
<1>5. d.out = Append(c.out, item) /\ d.line = NoLine /\ d.inqueue = c.inqueue
  BY DEF Sound, CountType
<1>. HIDE DEF d
<1>6. /\ KindsIn(Append(c.out, item)) = KindsIn(c.out) \cup {<<te, Kind(c.line)>>}
      /\ Len(Append(c.out, item)) = Len(c.out) + 1
  BY <1>1, <1>2, KindsAppend
<1>7. /\ KindsOf(d) = KindsOf(c) \cup {<<te, Kind(c.line)>>}
      /\ CallsOf(d) = CallsOf(c) + 1
  BY <1>2, <1>5, <1>6 DEF KindsOf, CallsOf
<1>8. Match(NoLine, {})
  BY DEF Match, NoLine
<1>9. QED
  BY <1>4, <1>5, <1>7, <1>8

\* A mark of kind m on a line of which S says m.
LEMMA MarkMatches ==
  ASSUME NEW c, Sound(c), NEW m \in {"code", "comment"}, NEW S, NEW from \in Nat,
         m \in S, Match(c.line, S) \/ Match(c.line, S \ {m})
  PROVE  Match(Mark(c, m, from).line, S)
<1>1. Sound(Ls(c, from)) /\ Ls(c, from).line.code = c.line.code
      /\ Ls(c, from).line.comment = c.line.comment
  BY LsSound DEF Ls, Sound, CountType, LineType
<1>2. CASE m = "code"
  <2>. DEFINE d == IF c.line.code THEN c ELSE Ls(c, from)
  <2>1. Sound(d)
    BY <1>1
  <2>. HIDE DEF d
  <2>2. [d EXCEPT !.line.code = TRUE].line.code
    BY <2>1 DEF Sound, CountType, LineType
  <2>3. Mark(c, m, from).line.code
    BY <1>2, <2>2 DEF Mark, Code, d
  <2>4. QED
    BY <1>2, <2>3 DEF Match
<1>3. CASE m = "comment" /\ c.line.code
  BY <1>3 DEF Match, Mark, Comment
<1>4. CASE m = "comment" /\ ~c.line.code
  <2>. DEFINE d == Ls(c, from)
           e == [d EXCEPT !.line.comment = TRUE]
  <2>. HIDE DEF d
  <2>1. e.line.comment /\ ~e.line.code
    BY <1>1, <1>4 DEF Sound, CountType, LineType, d
  <2>. HIDE DEF e
  <2>2. Mark(c, m, from) = e
    BY <1>4 DEF Mark, Comment, d, e
  <2>3. "code" \notin S
    BY <1>4 DEF Match
  <2>4. QED
    BY <1>4, <2>1, <2>2, <2>3 DEF Match
<1>5. QED
  BY <1>2, <1>3, <1>4

-----------------------------------------------------------------------------
(* The invariant.                                                          *)

\* In region r, what marks the line is still to come: a backslash marks none
\* of it until the symbol after it has been read.
Pend(r, esc) == r.mark = "none" \/ (esc /\ r.pair /\ r.newline # {})
Flags(line, S, r, esc) ==
    /\ Match(line, S) \/ (Pend(r, esc) /\ Match(line, S \ {Sort(r)}))
    /\ Pend(r, esc) \/ r.newline = {} => Sort(r) \in S

OutsideReads(f, c, x) ==
    /\ Idle(f, x)
    /\ ~c.inqueue /\ c.line.start <= x
    /\ Tally(f, c, x) /\ Match(c.line, Sofar(f, x))

WithinReads(f, c, x, r, esc, n, left) ==
    /\ Inside(f, x, r, esc, n)
    /\ c.inqueue <=> r.enqueue
    /\ c.line.start < x
    /\ left => /\ text[x] = "nl" /\ ~esc /\ r.newline # {}
               /\ Tally(f, c, x - 1) /\ Match(c.line, Sofar(f, x - 1))
    /\ ~left => Tally(f, c, x) /\ Flags(c.line, Sofar(f, x), r, esc)

ParsedReads(c) ==
    /\ {<<c.out[i].e, c.out[i].kind>> : i \in DOMAIN c.out} = Promised
    /\ Len(c.out) = Cardinality(Promised)

ReadInv ==
    /\ Outside => OutsideReads(Reading, count, p)
    /\ Within => WithinReads(Reading, count, p, region, escaped, nest, leaving)
    /\ pc = "parsed" => ParsedReads(count)

ConformInv == text \in Texts[lang] /\ (Conforms /\ WellFormed => ReadInv)

\* Nothing that is said of a text changes while it is read.
LEMMA TextStays ==
  ASSUME UNCHANGED <<lang, text>>, pe \in Nat
  PROVE  /\ Reading' = Reading
         /\ Conforms' = Conforms /\ WellFormed' = WellFormed
         /\ \A f, c, x : OutsideReads(f, c, x)' <=> OutsideReads(f, c, x)
         /\ \A f, c, x, r, esc, n, left :
              WithinReads(f, c, x, r, esc, n, left)' <=> WithinReads(f, c, x, r, esc, n, left)
         /\ \A c : ParsedReads(c)' <=> ParsedReads(c)
<1>1. Reading' = Reading /\ pe' = pe
  BY ReadingStays DEF pe
<1>2. Conforms' = Conforms
  BY DEF Conforms, Grammar
<1>3. WellFormed' = WellFormed
  BY <1>1 DEF WellFormed
<1>4. \A f, i : Says(f, i)' = Says(f, i)
  BY DEF Says
<1>5. \A q : InLine(q)' = InLine(q) /\ LineOf(q)' = LineOf(q) /\ Ends(q)' = Ends(q)
  BY DEF InLine, LineOf, Ends
<1>6. \A f, q : Sofar(f, q)' = Sofar(f, q) /\ Promise(f, q)' = Promise(f, q)
  BY <1>4, <1>5 DEF Sofar, Promise
<1>7. \A f, c, q : Tally(f, c, q)' <=> Tally(f, c, q)
  BY <1>5, <1>6 DEF Tally
<1>8. \A f, i : Idle(f, i)' <=> Idle(f, i)
  BY <1>1 DEF Idle
<1>9. Promised' = Promised
  <2>1. LineEnds' = LineEnds
    BY <1>1 DEF LineEnds
  <2>2. QED
    BY <1>1, <1>6, <2>1 DEF Promised
<1>10. \A f, c, x : OutsideReads(f, c, x)' <=> OutsideReads(f, c, x)
  BY <1>6, <1>7, <1>8 DEF OutsideReads
<1>11. \A f, c, x, r, esc, n, left :
         WithinReads(f, c, x, r, esc, n, left)' <=> WithinReads(f, c, x, r, esc, n, left)
  BY <1>6, <1>7 DEF WithinReads
<1>12. \A c : ParsedReads(c)' <=> ParsedReads(c)
  BY <1>9 DEF ParsedReads
<1>13. QED
  BY <1>1, <1>2, <1>3, <1>10, <1>11, <1>12

LEMMA StepOutside ==
  ASSUME TypeInv, ConformInv, UNCHANGED <<lang, text>>, pc' = "scan", region' = NoRegion,
         Conforms /\ WellFormed => OutsideReads(Reading, count', p')
  PROVE  ConformInv'
<1>1. pe \in Nat
  BY DEF TypeInv, TypeOK, pe
<1>2. QED
  BY <1>1, TextStays DEF ConformInv, ReadInv, Outside, Within

LEMMA StepWithin ==
  ASSUME TypeInv, ConformInv, UNCHANGED <<lang, text>>, pc' = "scan", region' # NoRegion,
         Conforms /\ WellFormed =>
             WithinReads(Reading, count', p', region', escaped', nest', leaving')
  PROVE  ConformInv'
<1>1. pe \in Nat
  BY DEF TypeInv, TypeOK, pe
<1>2. QED
  BY <1>1, TextStays DEF ConformInv, ReadInv, Outside, Within

-----------------------------------------------------------------------------
(* Each action between tokens keeps it.                                    *)

LEMMA BeginReads ==
  ASSUME TypeOK, count.out = <<>>, ~count.inqueue, count.line = NoLine
  PROVE  OutsideReads(Reading, count, 0)
<1>1. pe \in Nat
  BY DEF TypeOK, pe
<1>2. Reading[0] = Unread
  BY <1>1, ReadingReads DEF ReadsTo
<1>3. Idle(Reading, 0)
  BY <1>2 DEF Idle, Unread
<1>4. Ends(0) = {} /\ InLine(0) = {}
  BY DEF Ends, InLine
<1>5. Tally(Reading, count, 0)
  <2>1. KindsOf(count) = {} /\ CallsOf(count) = 0
    BY KindsEmpty DEF KindsOf, CallsOf
  <2>2. Cardinality(Ends(0)) = 0
    BY <1>4, FS_EmptySet
  <2>3. {<<e, Promise(Reading, e)>> : e \in Ends(0)} = {}
    BY <1>4
  <2>4. QED
    BY <2>1, <2>2, <2>3 DEF Tally
<1>6. Match(count.line, Sofar(Reading, 0)) /\ count.line.start <= 0
  BY <1>4 DEF Match, Sofar, NoLine, NULL
<1>7. QED
  BY <1>3, <1>5, <1>6 DEF OutsideReads

\* What the actions between tokens find.
LEMMA OutsideFacts ==
  ASSUME TypeInv, ConformInv, Outside, Conforms, WellFormed
  PROVE  /\ OutsideReads(Reading, count, p)
         /\ TypeOK /\ Sound(count) /\ p \in Nat /\ pe \in Nat /\ ~count.inqueue
         /\ p < pe => p \in 0 .. pe - 1
         /\ Dequeue(count) = count /\ ~escaped /\ ~leaving
  BY DequeueNothing DEF ConformInv, ReadInv, OutsideReads, TypeInv, TypeOK, pe, ReadingInv, Outside

LEMMA NotOpened ==
  ASSUME TypeOK, NEW s \in {"ws", "nl"}, NEW g \in Grammar
  PROVE  g.open # s /\ g.close # s
  BY DelimitersAssumption DEF TypeOK, Grammar

LEMMA SpacesConform == TypeInv /\ ConformInv /\ Spaces => ConformInv'
<1>. SUFFICES ASSUME TypeInv, ConformInv, Spaces, Conforms, WellFormed
              PROVE  OutsideReads(Reading, count', p')
  BY StepOutside DEF Spaces, Token, Outside
<1>. DEFINE d == Ls(count, p)
            f == Reading
<1>1. /\ OutsideReads(f, count, p)
      /\ TypeOK /\ Sound(count) /\ p \in Nat /\ pe \in Nat /\ ~count.inqueue
      /\ Dequeue(count) = count
  BY OutsideFacts DEF Spaces
<1>2. PICK te \in p + 1 .. pe :
        (\A i \in p .. te - 1 : At(i) = "ws") /\ Token("space", te, d)
  BY <1>1 DEF Spaces
<1>3. /\ count' = d /\ p' = te
  BY <1>2 DEF Token
<1>4. /\ KindsOf(d) = KindsOf(count) /\ CallsOf(d) = CallsOf(count)
      /\ ~d.inqueue /\ d.line.start <= p
  BY <1>1, LsBegins, BeginsKinds DEF Begins, OutsideReads
<1>5. d.line.code = count.line.code /\ d.line.comment = count.line.comment
  BY <1>1 DEF Ls, Sound, CountType, LineType
<1>. HIDE DEF d, f
<1>. DEFINE Good(q) == Idle(f, q) /\ Tally(f, d, q) /\ Sofar(f, q) = Sofar(f, p)
            S == {q \in p .. te : ~Good(q)}
<1>6. S = {}
  <2>1. SUFFICES ASSUME S # {} PROVE FALSE
    OBVIOUS
  <2>2. PICK q \in S : \A j \in S : q <= j
    <3>1. S \in SUBSET Nat
      BY <1>1
    <3>. HIDE DEF S
    <3>. QED
      BY <2>1, <3>1, LeastNat
  <2>3. Good(p)
    BY <1>1, <1>4 DEF OutsideReads, Tally
  <2>. DEFINE n == q - 1
  <2>4. n \in 0 .. pe - 1 /\ n \in Nat /\ n \in p .. te /\ n \in p .. te - 1 /\ n + 1 = q
    BY <1>1, <1>2, <2>2, <2>3
  <2>5. Good(n) /\ text[n + 1] = "ws"
    BY <1>2, <2>2, <2>4 DEF At
  <2>. HIDE DEF n
  <2>6. Inside(f, n + 1, NoRegion, FALSE, 0)
    BY <1>1, <2>4, <2>5, NotOpened, IdleNext DEF f
  <2>7. Idle(f, n + 1)
    BY <2>6 DEF Idle, Inside
  <2>8. Says(f, n + 1) = {}
    BY <2>5 DEF Says
  <2>9. Sofar(f, n + 1) = Sofar(f, p)
    <3>1. text[n + 1] # "nl"
      BY <2>5
    <3>2. Sofar(f, n + 1) = Sofar(f, n) \cup Says(f, n + 1)
      BY <2>4, <3>1, SofarNext
    <3>3. Sofar(f, n) = Sofar(f, p)
      BY <2>5
    <3>4. QED
      BY <2>8, <3>2, <3>3
  <2>10. Tally(f, d, n + 1)
    BY <2>4, <2>5, TallyMore
  <2>11. QED
    BY <2>2, <2>4, <2>7, <2>9, <2>10
<1>7. Good(te)
  BY <1>1, <1>2, <1>6
<1>8. Match(d.line, Sofar(f, te)) /\ d.line.start <= te
  <2>1. Match(count.line, Sofar(f, p))
    BY <1>1 DEF OutsideReads
  <2>2. d.line.start \in Int
    <3>1. Sound(d)
      BY <1>1, LsSound DEF d
    <3>2. QED
      BY <3>1 DEF Sound, CountType, LineType, NULL
  <2>3. p <= te /\ te \in Nat
    BY <1>1, <1>2
  <2>4. Match(d.line, Sofar(f, te))
    BY <1>5, <1>7, <2>1 DEF Match
  <2>5. d.line.start <= te
    BY <1>1, <1>4, <2>2, <2>3
  <2>6. QED
    BY <2>4, <2>5
<1>9. QED
  BY <1>3, <1>4, <1>7, <1>8 DEF OutsideReads, f

LEMMA NewlineConform == TypeInv /\ ConformInv /\ Newline => ConformInv'
<1>. SUFFICES ASSUME TypeInv, ConformInv, Newline, Conforms, WellFormed
              PROVE  OutsideReads(Reading, count', p')
  BY StepOutside DEF Newline, Token, Outside
<1>. DEFINE d == StdNewline(count, p, p + 1)
            f == Reading
<1>1. /\ OutsideReads(f, count, p) /\ p \in 0 .. pe - 1
      /\ TypeOK /\ Sound(count) /\ p \in Nat /\ ~count.inqueue
      /\ count' = d /\ p' = p + 1 /\ text[p + 1] = "nl"
  BY OutsideFacts DEF Newline, Token, At
<1>. HIDE DEF f
<1>2. count.line \in LineType /\ count.line.start < p + 1
  BY <1>1 DEF OutsideReads, Sound, CountType, LineType, NULL
<1>3. /\ KindsOf(d) = KindsOf(count) \cup {<<p + 1, Kind(count.line)>>}
      /\ CallsOf(d) = CallsOf(count) + 1
      /\ ~d.inqueue /\ d.line = NoLine
      /\ Match(d.line, {})
  BY <1>1, <1>2, StdNewlineKinds
<1>4. Sofar(f, p + 1) = {} /\ Said(f, p + 1) = Sofar(f, p)
  BY <1>1, SofarNext
<1>5. Kind(count.line) = Promise(f, p + 1)
  BY <1>1, <1>2, <1>4, KindOfMatch DEF OutsideReads
<1>6. Tally(f, d, p + 1)
  BY <1>1, <1>3, <1>5, TallyMore DEF OutsideReads
<1>7. Inside(f, p + 1, NoRegion, FALSE, 0)
  BY <1>1, NotOpened, IdleNext DEF f, OutsideReads
<1>8. Idle(f, p + 1)
  BY <1>7 DEF Idle, Inside
<1>9. d.line.start <= p + 1
  BY <1>1, <1>3 DEF NoLine, NULL
<1>10. QED
  BY <1>1, <1>3, <1>4, <1>6, <1>8, <1>9 DEF OutsideReads, f

LEMMA AnyCharConform == TypeInv /\ ConformInv /\ AnyChar => ConformInv'
<1>. SUFFICES ASSUME TypeInv, ConformInv, AnyChar, Conforms, WellFormed
              PROVE  OutsideReads(Reading, count', p')
  BY StepOutside DEF AnyChar, Token, Outside
<1>. DEFINE d == Code(count, p)
            f == Reading
            S == Sofar(f, p + 1)
<1>1. /\ OutsideReads(f, count, p) /\ p \in 0 .. pe - 1
      /\ TypeOK /\ Sound(count) /\ p \in Nat /\ ~count.inqueue
      /\ count' = d /\ p' = p + 1
      /\ text[p + 1] \notin {"ws", "nl"} \cup Openers
  BY OutsideFacts DEF AnyChar, Token, At
<1>. HIDE DEF f
<1>2. Inside(f, p + 1, NoRegion, FALSE, 0)
  BY <1>1, IdleNext DEF f, OutsideReads, Openers
<1>3. Idle(f, p + 1)
  BY <1>2 DEF Idle, Inside
<1>4. Says(f, p + 1) = {"code"}
  <2>1. f[p + 1].region = NoRegion
    BY <1>2 DEF Inside
  <2>2. f[p].region = NoRegion \/ f[p].region.close = "eol"
    BY <1>1 DEF OutsideReads, Idle
  <2>3. p + 1 - 1 = p
    BY <1>1
  <2>4. QED
    BY <1>1, <2>1, <2>2, <2>3 DEF Says, IsComment
<1>5. S = Sofar(f, p) \cup {"code"}
  BY <1>1, <1>4, SofarNext
<1>. HIDE DEF S
<1>6. Match(count.line, S) \/ Match(count.line, S \ {"code"})
  <2>1. S = Sofar(f, p) \/ S \ {"code"} = Sofar(f, p)
    BY <1>5
  <2>2. QED
    BY <1>1, <2>1 DEF OutsideReads
<1>7. Match(d.line, S)
  <2>1. Mark(count, "code", p) = d
    BY DEF Mark
  <2>2. QED
    BY <1>1, <1>5, <1>6, <2>1, MarkMatches
<1>8. /\ KindsOf(d) = KindsOf(count) /\ CallsOf(d) = CallsOf(count)
      /\ ~d.inqueue /\ d.line.start <= p + 1
  <2>1. Begins(count, d, p) /\ count.line.start \in Int /\ count.line.start <= p
    BY <1>1, CodeBegins DEF OutsideReads, Sound, CountType, LineType, NULL
  <2>. HIDE DEF d
  <2>2. d.line.start <= p + 1
    BY <1>1, <2>1 DEF Begins
  <2>3. QED
    BY <1>1, <2>1, <2>2, BeginsKinds
<1>9. Tally(f, d, p + 1)
  BY <1>1, <1>8, TallyMore DEF OutsideReads
<1>10. QED
  BY <1>1, <1>3, <1>7, <1>8, <1>9 DEF OutsideReads, S, f

-----------------------------------------------------------------------------
(* Each action in a region keeps it.                                       *)

LEMMA ConformingRegion ==
  ASSUME TypeOK, Conforms, NEW r \in Grammar
  PROVE  /\ r \in RegionType /\ r # NoRegion
         /\ Sort(r) \in {"code", "comment"}
         /\ {r.mark, r.inner, r.blank, r.last} \subseteq {"none", Sort(r)}
         /\ "raw" \notin r.newline /\ (r.pair => "escaped" \notin r.newline)
         /\ r.enqueue => r.commit /\ r.close # "eol"
         /\ r.mark = "none" => r.last = Sort(r)
         /\ r.newline # {} => r.mark = Sort(r) /\ r.inner = Sort(r) /\ r.blank = "none"
         /\ r.newline # {} /\ r.close # "eol" => r.last = Sort(r)
         /\ r.close = "eol" => r.mark # "none" /\ ~r.pair
         /\ {"ws", "nl"} \cap {r.open, r.close} = {} /\ "nl" \notin r.without
<1>1. r \in RegionType /\ r # NoRegion /\ (r.newline # {} => r.mark # "none")
  BY RegionTyped DEF TypeOK
<1>2. /\ {"ws", "nl"} \cap {r.open, r.close} = {} /\ "nl" \notin r.without
      /\ r.close = "eol" => r.mark # "none" /\ ~r.pair
  BY DelimitersAssumption DEF TypeOK, Grammar
<1>3. /\ "raw" \notin r.newline /\ (r.pair => "escaped" \notin r.newline)
      /\ r.enqueue => r.commit /\ r.close # "eol"
      /\ {r.mark, r.inner, r.blank, r.last} \subseteq {"none", Sort(r)}
      /\ r.mark = "none" => r.last = "code"
      /\ r.newline # {} => r.inner = r.mark /\ r.blank = "none"
      /\ r.newline # {} /\ r.close # "eol" => r.last = r.mark
  BY DEF Conforms
<1>4. Sort(r) \in {"code", "comment"} /\ (r.mark = "none" => Sort(r) = "code")
  BY DEF Sort
<1>5. r.newline # {} => r.mark = Sort(r)
  BY <1>1, <1>3
<1>6. QED
  BY <1>1, <1>2, <1>3, <1>4, <1>5

LEMMA RegionSays ==
  ASSUME NEW f, NEW q \in Nat, NEW r, r # NoRegion, text[q + 1] \notin {"ws", "nl"},
         \/ f[q + 1].region = r
         \/ f[q].region = r /\ f[q + 1].region = NoRegion /\ r.close # "eol"
  PROVE  Says(f, q + 1) = {Sort(r)}
<1>1. q + 1 - 1 = q
  OBVIOUS
<1>2. QED
  BY <1>1 DEF Says, IsComment, Sort

\* What a symbol adds to what is said, and what Match makes of it.
LEMMA MatchMore ==
  ASSUME NEW line, NEW K, NEW S, NEW T, T = S \/ T = S \cup {K},
         Match(line, S) \/ Match(line, S \ {K})
  PROVE  Match(line, T) \/ Match(line, T \ {K})
<1>1. CASE T = S
  BY <1>1
<1>2. CASE T = S \cup {K} /\ K \in S
  <2>1. T = S
    BY <1>2
  <2>2. QED
    BY <2>1
<1>3. CASE T = S \cup {K} /\ K \notin S
  <2>1. T \ {K} = S /\ S \ {K} = S
    BY <1>3
  <2>2. QED
    BY <2>1
<1>4. QED
  BY <1>1, <1>2, <1>3

\* Roles of symbols that are no newlines.
LEMMA SymbolRoles ==
  ASSUME NEW r \in RegionType, NEW esc \in BOOLEAN, NEW n, NEW s, s # "nl",
         {"ws", "nl"} \cap {r.open, r.close} = {},
         Role(r, esc, n, s) \notin {"stop", "close"}
  PROVE  LET role == Role(r, esc, n, s)
         IN  /\ role \in {"inner", "unnest", "nest", "escape", "blank"}
             /\ role = "blank" => s = "ws" /\ ~(esc /\ r.pair)
             /\ role = "escape" => s = "bs" /\ r.pair /\ ~(esc /\ r.pair)
             /\ s = "ws" => role = "blank" \/ (esc /\ r.pair)
  BY DEF Role, RegionType

LEMMA FlagsStep ==
  ASSUME TypeOK, Conforms, NEW r \in Grammar, NEW esc \in BOOLEAN, NEW n, NEW s, s # "nl",
         Role(r, esc, n, s) \notin {"stop", "close"},
         NEW c, Sound(c), NEW from \in Nat, NEW S, Flags(c.line, S, r, esc),
         NEW role, role = Role(r, esc, n, s),
         NEW m, role \in {"inner", "nest", "unnest"} => m = r.inner,
         role = "blank" => m = r.blank, role = "escape" => m = "none",
         NEW esc1 \in BOOLEAN,
         esc1 <=> role = "escape" \/ (s = "bs" /\ ~r.pair /\ "escaped" \in r.newline)
  PROVE  Flags(Mark(c, m, from).line, S \cup (IF s = "ws" THEN {} ELSE {Sort(r)}), r, esc1)
<1>. DEFINE K == Sort(r)
            S1 == S \cup (IF s = "ws" THEN {} ELSE {K})
            d == Mark(c, m, from)
<1>1. /\ K \in {"code", "comment"} /\ r \in RegionType
      /\ r.inner \in {"none", K} /\ r.blank \in {"none", K}
      /\ r.newline # {} => r.mark = K /\ r.inner = K /\ r.blank = "none"
      /\ {"ws", "nl"} \cap {r.open, r.close} = {}
  BY ConformingRegion
<1>2. /\ role \in {"inner", "unnest", "nest", "escape", "blank"}
      /\ role = "blank" => s = "ws" /\ ~(esc /\ r.pair)
      /\ role = "escape" => s = "bs" /\ r.pair /\ ~(esc /\ r.pair)
      /\ s = "ws" => role = "blank" \/ (esc /\ r.pair)
  BY <1>1, SymbolRoles
<1>. HIDE DEF K
<1>3. m \in {"none", K} /\ (r.newline # {} => (m = K <=> role \in {"inner", "nest", "unnest"}))
  BY <1>1, <1>2
<1>4. /\ Match(c.line, S) \/ (Pend(r, esc) /\ Match(c.line, S \ {K}))
      /\ Pend(r, esc) \/ r.newline = {} => K \in S
  BY DEF Flags, K
<1>5. S1 = S \/ S1 = S \cup {K}
  OBVIOUS
<1>6. Match(c.line, S1) \/ Match(c.line, S1 \ {K})
  <2>. HIDE DEF S1
  <2>1. QED
    BY <1>4, <1>5, MatchMore
<1>7. m = "none" => d = c
  BY DEF Mark
<1>8. m = K /\ K \in S1 => Match(d.line, S1)
  <2>. HIDE DEF S1
  <2>1. QED
    BY <1>1, <1>6, MarkMatches
<1>9. CASE r.newline = {}
  <2>1. K \in S /\ S1 = S /\ (Pend(r, esc) <=> Pend(r, esc1))
    BY <1>4, <1>9 DEF Pend
  <2>2. Match(d.line, S) \/ (Pend(r, esc) /\ Match(d.line, S \ {K}))
    BY <1>3, <1>4, <1>7, <1>8, <2>1
  <2>. HIDE DEF d, S1
  <2>3. QED
    BY <2>1, <2>2 DEF Flags, K, d, S1
<1>10. CASE r.newline # {} /\ role \in {"inner", "nest", "unnest"}
  <2>1. K \in S1
    BY <1>1, <1>2, <1>4, <1>10 DEF Pend
  <2>2. Match(d.line, S1)
    BY <1>3, <1>8, <1>10, <2>1
  <2>. HIDE DEF d, S1
  <2>3. QED
    BY <2>1, <2>2 DEF Flags, K, d, S1
<1>11. CASE r.newline # {} /\ role = "blank"
  <2>1. S1 = S /\ d = c /\ ~Pend(r, esc) /\ ~esc1
    BY <1>1, <1>2, <1>3, <1>7, <1>11 DEF Pend
  <2>2. Match(d.line, S1)
    BY <1>4, <2>1
  <2>3. Flags(d.line, S1, r, esc1)
    <3>. HIDE DEF d, S1
    <3>. QED
      BY <1>11, <2>1, <2>2, <1>1 DEF Flags, Pend
  <2>. HIDE DEF d, S1
  <2>4. QED
    BY <2>3 DEF d, S1, K
<1>12. CASE r.newline # {} /\ role = "escape"
  <2>1. S1 = S \cup {K} /\ d = c /\ Pend(r, esc1)
    BY <1>1, <1>2, <1>7, <1>12 DEF Pend
  <2>2. Flags(d.line, S1, r, esc1)
    <3>. HIDE DEF d, S1
    <3>. QED
      BY <1>6, <2>1 DEF Flags, K
  <2>. HIDE DEF d, S1
  <2>3. QED
    BY <2>2 DEF d, S1, K
<1>13. QED
  BY <1>2, <1>9, <1>10, <1>11, <1>12

LEMMA OpenRegionConform == TypeInv /\ ConformInv /\ OpenRegion => ConformInv'
<1>. SUFFICES ASSUME TypeInv, ConformInv, OpenRegion PROVE ConformInv'
  OBVIOUS
<1>1. PICK r \in Grammar :
        /\ At(p) = r.open /\ region' = r
        /\ count' = Mark(IF r.enqueue THEN Enqueue(count) ELSE count, r.mark, p)
  BY DEF OpenRegion
<1>2. /\ UNCHANGED <<lang, text, file, pc, escaped, leaving>> /\ Outside
      /\ p' = p + 1 /\ nest' = 0 /\ p < pe /\ TypeOK
  BY DEF OpenRegion, TypeInv
<1>3. r \in RegionType /\ r # NoRegion
  BY <1>2, RegionTyped DEF TypeOK
<1>4. ASSUME Conforms, WellFormed
      PROVE  WithinReads(Reading, count', p', r, escaped', nest', leaving')
  <2>. DEFINE f == Reading
              K == Sort(r)
              c == IF r.enqueue THEN Enqueue(count) ELSE count
              d == Mark(c, r.mark, p)
              S == Sofar(f, p)
              T == Sofar(f, p + 1)
  <2>1. /\ OutsideReads(f, count, p) /\ Sound(count) /\ p \in Nat /\ p \in 0 .. pe - 1
        /\ ~count.inqueue /\ ~escaped /\ ~leaving
    BY <1>2, <1>4, OutsideFacts
  <2>2. /\ K \in {"code", "comment"} /\ r.mark \in {"none", K} /\ r.mark \in Marks
        /\ text[p + 1] \notin {"ws", "nl"} /\ r.enqueue \in BOOLEAN
    BY <1>1, <1>2, <1>3, <1>4, ConformingRegion DEF At, RegionType
  <2>3. Inside(f, p + 1, r, FALSE, 0)
    BY <1>1, <1>2, <1>4, <2>1, IdleNext DEF OutsideReads, At
  <2>. HIDE DEF f, K
  <2>4. Says(f, p + 1) = {K}
    BY <1>3, <2>1, <2>2, <2>3, RegionSays DEF Inside, K
  <2>5. T = S \cup {K}
    BY <2>1, <2>2, <2>4, SofarNext
  <2>6. /\ Sound(c) /\ c.line = count.line /\ (c.inqueue <=> r.enqueue)
        /\ KindsOf(c) = KindsOf(count) /\ CallsOf(c) = CallsOf(count)
    BY <2>1, EnqueueSound, EnqueueKinds
  <2>. HIDE DEF c
  <2>7. /\ KindsOf(d) = KindsOf(c) /\ CallsOf(d) = CallsOf(c)
        /\ d.inqueue = c.inqueue /\ d.line.start < p + 1
    <3>1. Begins(c, d, p) /\ c.line.start \in Int /\ c.line.start <= p
      BY <2>1, <2>2, <2>6, MarkBegins DEF OutsideReads, Sound, CountType, LineType, NULL
    <3>. HIDE DEF d
    <3>2. d.line.start < p + 1
      BY <2>1, <3>1 DEF Begins
    <3>3. QED
      BY <3>1, <3>2, BeginsKinds
  <2>8. Tally(f, d, p + 1)
    BY <2>1, <2>2, <2>6, <2>7, TallyMore DEF OutsideReads
  <2>9. Flags(d.line, T, r, FALSE)
    <3>1. Match(c.line, T) \/ Match(c.line, T \ {K})
      <4>1. Match(c.line, S)
        BY <2>1, <2>6 DEF OutsideReads
      <4>. HIDE DEF S, T
      <4>2. QED
        BY <2>5, <4>1, MatchMore
    <3>2. K \in T
      BY <2>5
    <3>. HIDE DEF T
    <3>3. CASE r.mark = K
      <4>1. Match(d.line, T)
        BY <2>1, <2>2, <2>6, <3>1, <3>2, <3>3, MarkMatches
      <4>2. QED
        BY <3>2, <4>1 DEF Flags, K
    <3>4. CASE r.mark = "none"
      <4>1. d = c /\ Pend(r, FALSE)
        BY <3>4 DEF Mark, Pend
      <4>2. QED
        BY <3>1, <3>2, <4>1 DEF Flags, K
    <3>5. QED
      BY <2>2, <3>3, <3>4
  <2>10. WithinReads(f, d, p + 1, r, FALSE, 0, FALSE)
    <3>. HIDE DEF d, T
    <3>. QED
      BY <2>3, <2>6, <2>7, <2>8, <2>9 DEF WithinReads, T
  <2>11. count' = d
    BY <1>1 DEF c
  <2>12. escaped' = FALSE /\ leaving' = FALSE
    BY <1>2, <2>1 DEF TypeOK
  <2>. HIDE DEF d
  <2>13. QED
    BY <1>2, <2>10, <2>11, <2>12 DEF f
<1>5. QED
  BY <1>1, <1>2, <1>3, <1>4, StepWithin DEF Outside

\* When a symbol follows, an internal newline has been reported.
LEMMA LeaveReads ==
  ASSUME TypeInv, ConformInv, Within, Conforms, WellFormed
  PROVE  LET c == Leave(count)
         IN  /\ Sound(c) /\ (c.inqueue <=> region.enqueue)
             /\ c.line.start \in Int /\ c.line.start <= p
             /\ Tally(Reading, c, p)
             /\ Flags(c.line, Sofar(Reading, p), region, escaped)
<1>. DEFINE f == Reading
            c == Leave(count)
<1>1. /\ WithinReads(f, count, p, region, escaped, nest, leaving)
      /\ TypeOK /\ Sound(count) /\ p \in Nat /\ ts \in Nat /\ ts < p
      /\ region \in Grammar /\ region # NoRegion /\ leaving \in BOOLEAN
      /\ region.mark # "none" => count.line.start # NULL
      /\ region.newline # {} => region.mark # "none"
      /\ count.line \in LineType
  BY RegionTyped DEF ConformInv, ReadInv, TypeInv, TypeOK, pe, ReadingInv, Within, Sound, CountType
<1>. HIDE DEF f
<1>2. Sound(c)
  BY LeaveSound DEF TypeInv, TypeOK
<1>3. c.line.start \in Int
  BY <1>2 DEF Sound, CountType, LineType, NULL
<1>4. CASE ~leaving
  <2>1. c = count
    BY <1>4 DEF Leave
  <2>2. count.line.start \in Int /\ count.line.start < p
    BY <1>1, <1>3, <2>1 DEF WithinReads
  <2>3. c.line.start <= p
    BY <1>1, <2>1, <2>2
  <2>4. QED
    BY <1>1, <1>2, <1>3, <1>4, <2>1, <2>3 DEF WithinReads, f
<1>5. CASE leaving
  <2>. DEFINE q == p - 1
  <2>1. q \in Nat /\ q + 1 = p
    BY <1>1
  <2>2. /\ text[q + 1] = "nl" /\ ~escaped /\ region.newline # {}
        /\ Tally(f, count, q) /\ Match(count.line, Sofar(f, q))
    BY <1>1, <1>5, <2>1 DEF WithinReads
  <2>3. c = InternalNewline(count, p)
    BY <1>5 DEF Leave
  <2>4. count.line.start # NULL /\ count.line.start < p
    BY <1>1, <2>2 DEF WithinReads
  <2>5. /\ KindsOf(c) = KindsOf(count) \cup {<<p, Kind(count.line)>>}
        /\ CallsOf(c) = CallsOf(count) + 1
        /\ c.inqueue = count.inqueue /\ c.line.start = p
        /\ Match(c.line, {})
    BY <1>1, <2>3, <2>4, InternalNewlineKinds
  <2>. HIDE DEF q, c
  <2>6. Sofar(f, p) = {} /\ Said(f, p) = Sofar(f, q)
    BY <2>1, <2>2, SofarNext
  <2>7. Kind(count.line) = Promise(f, p)
    BY <1>1, <2>2, <2>6, KindOfMatch
  <2>8. Tally(f, c, p)
    BY <2>1, <2>2, <2>5, <2>7, TallyMore
  <2>9. Flags(c.line, Sofar(f, p), region, escaped)
    BY <1>1, <2>2, <2>5, <2>6 DEF Flags, Pend
  <2>10. c.line.start <= p
    BY <1>1, <2>5
  <2>11. QED
    BY <1>1, <1>2, <1>3, <2>5, <2>8, <2>9, <2>10 DEF WithinReads, f, c
<1>6. QED
  BY <1>1, <1>4, <1>5

\* What an action in a region finds when there is a symbol to read.
LEMMA WithinFacts ==
  ASSUME TypeInv, ConformInv, Within, Conforms, WellFormed
  PROVE  /\ Inside(Reading, p, region, escaped, nest)
         /\ TypeOK /\ p \in Nat /\ pe \in Nat /\ p <= pe /\ ts \in Nat /\ ts < p
         /\ region \in Grammar /\ region # NoRegion
         /\ escaped \in BOOLEAN /\ nest \in Int
         /\ p # pe => /\ p \in 0 .. pe - 1
                      /\ RoleHere = Role(region, escaped, nest, text[p + 1])
  BY DEF ConformInv, ReadInv, TypeInv, TypeOK, pe, ReadingInv, Within, WithinReads,
     RoleHere, At

LEMMA NewlineReads ==
  ASSUME NEW f, NEW c, NEW x \in Nat, NEW r, NEW n, Inside(f, x + 1, r, FALSE, n),
         c.inqueue <=> r.enqueue, c.line.start < x + 1,
         text[x + 1] = "nl", r.newline # {}, Tally(f, c, x), Match(c.line, Sofar(f, x))
  PROVE  WithinReads(f, c, x + 1, r, FALSE, n, TRUE)
<1>1. (x + 1) - 1 = x
  OBVIOUS
<1>2. QED
  BY <1>1 DEF WithinReads

LEMMA ReadRegionConform == TypeInv /\ ConformInv /\ ReadRegion => ConformInv'
<1>. SUFFICES ASSUME TypeInv, ConformInv, ReadRegion PROVE ConformInv'
  OBVIOUS
<1>1. /\ UNCHANGED <<lang, text, file, pc, ts, region>>
      /\ p' = p + 1 /\ leaving' = (RoleHere = "newline")
      /\ Within /\ RoleHere \notin {"stop", "close"}
      /\ escaped' = \/ RoleHere = "escape"
                    \/ At(p) = "bs" /\ ~region.pair /\ "escaped" \in region.newline
      /\ nest' = CASE RoleHere = "nest" -> nest + 1
                   [] RoleHere = "unnest" -> nest - 1
                   [] OTHER -> nest
  BY DEF ReadRegion
<1>2. SUFFICES ASSUME Conforms, WellFormed
               PROVE  WithinReads(Reading, count', p', region, escaped', nest', leaving')
  BY <1>1, StepWithin DEF Within
<1>. DEFINE f == Reading
            r == region
            s == text[p + 1]
            K == Sort(r)
            c == Leave(count)
            m == CASE RoleHere \in {"inner", "nest", "unnest"} -> r.inner
                   [] RoleHere = "blank" -> r.blank
                   [] RoleHere \in {"escape", "newline"} -> "none"
            d == Mark(c, m, ts)
            S == Sofar(f, p)
            T == Sofar(f, p + 1)
<1>3. /\ Inside(f, p, r, escaped, nest)
      /\ TypeOK /\ p \in Nat /\ pe \in Nat /\ p <= pe /\ ts \in Nat /\ ts < p
      /\ r \in Grammar /\ r # NoRegion /\ escaped \in BOOLEAN /\ nest \in Int
      /\ p # pe => /\ p \in 0 .. pe - 1
                   /\ RoleHere = Role(r, escaped, nest, s)
  BY <1>1, <1>2, WithinFacts
<1>4. p # pe
  BY <1>1 DEF RoleHere
<1>5. Inside(f, p + 1, r, escaped', nest')
  BY <1>1, <1>2, <1>3, <1>4, InsideNext DEF At
<1>6. /\ Sound(c) /\ (c.inqueue <=> r.enqueue) /\ c.line.start \in Int /\ c.line.start <= p
      /\ Tally(f, c, p) /\ Flags(c.line, S, r, escaped)
  BY <1>1, <1>2, LeaveReads
<1>7. count' = d
  BY DEF ReadRegion
<1>. HIDE DEF f, c
<1>8. CASE s = "nl"
  <2>1. /\ RoleHere = NewlineRole(r, escaped)
        /\ "raw" \notin r.newline /\ (r.pair => "escaped" \notin r.newline)
        /\ r.newline # {} => r.mark = K /\ K \in {"code", "comment"}
    <3>1. /\ "raw" \notin r.newline /\ (r.pair => "escaped" \notin r.newline)
          /\ r.newline # {} => r.mark = K /\ K \in {"code", "comment"}
          /\ "nl" \notin r.without
      BY <1>2, <1>3, ConformingRegion
    <3>2. RoleHere = Role(r, escaped, nest, "nl")
      BY <1>3, <1>4, <1>8
    <3>3. Role(r, escaped, nest, "nl") = NewlineRole(r, escaped)
      BY <3>1 DEF Role
    <3>4. QED
      BY <3>1, <3>2, <3>3
  <2>2. RoleHere = "newline" /\ r.newline # {} /\ ~(escaped /\ r.pair)
    BY <1>1, <2>1 DEF NewlineRole
  <2>3. /\ d = c /\ ~Pend(r, escaped)
        /\ leaving' = TRUE /\ escaped' = FALSE
    BY <1>1, <1>8, <2>1, <2>2 DEF Mark, Pend, At
  <2>4. Match(c.line, S)
    BY <1>6, <2>3 DEF Flags
  <2>5. c.line.start < p + 1 /\ p + 1 - 1 = p
    BY <1>3, <1>6
  <2>6. WithinReads(f, c, p + 1, r, FALSE, nest', TRUE)
    <3>1. Inside(f, p + 1, r, FALSE, nest')
      BY <1>5, <2>3
    <3>. HIDE DEF r, s, S
    <3>. QED
      BY <1>3, <1>6, <1>8, <2>2, <2>4, <2>5, <3>1, NewlineReads DEF s, S
  <2>. HIDE DEF d
  <2>7. QED
    BY <1>1, <1>7, <2>3, <2>6 DEF f
<1>9. CASE s # "nl"
  <2>1. Says(f, p + 1) = IF s = "ws" THEN {} ELSE {K}
    <3>1. CASE s = "ws"
      BY <3>1 DEF Says
    <3>2. CASE s # "ws"
      BY <1>3, <1>5, <1>9, <3>2, RegionSays DEF Inside
    <3>3. QED
      BY <3>1, <3>2
  <2>2. T = S \cup (IF s = "ws" THEN {} ELSE {K})
    BY <1>3, <1>9, <2>1, SofarNext
  <2>3. Flags(d.line, T, r, escaped')
    <3>1. /\ escaped' <=> RoleHere = "escape" \/ (s = "bs" /\ ~r.pair /\ "escaped" \in r.newline)
          /\ escaped' \in BOOLEAN
      BY <1>1 DEF At
    <3>2. RoleHere = Role(r, escaped, nest, s)
      BY <1>3, <1>4
    <3>3. Flags(d.line, S \cup (IF s = "ws" THEN {} ELSE {K}), r, escaped')
      <4>1. Role(r, escaped, nest, s) \notin {"stop", "close"}
        BY <1>1, <3>2
      <4>2. m = CASE RoleHere \in {"inner", "nest", "unnest"} -> r.inner
                  [] RoleHere = "blank" -> r.blank
                  [] RoleHere \in {"escape", "newline"} -> "none"
        OBVIOUS
      <4>3. /\ TypeOK /\ Conforms /\ r \in Grammar /\ escaped \in BOOLEAN /\ s # "nl"
            /\ Sound(c) /\ ts \in Nat /\ Flags(c.line, S, r, escaped)
            /\ escaped' \in BOOLEAN
        BY <1>2, <1>3, <1>6, <1>9, <3>1
      <4>. HIDE DEF S, s, m, c, r
      <4>4. PICK b \in BOOLEAN : b = escaped'
        BY <4>3
      <4>5. PICK role : role = RoleHere
        OBVIOUS
      <4>6. b <=> role = "escape" \/ (s = "bs" /\ ~r.pair /\ "escaped" \in r.newline)
        BY <3>1, <4>4, <4>5
      <4>7. /\ role \in {"inner", "nest", "unnest"} => m = r.inner
            /\ role = "blank" => m = r.blank
            /\ role = "escape" => m = "none"
        BY <4>2, <4>5
      <4>8. role = Role(r, escaped, nest, s)
        BY <3>2, <4>5
      <4>9. Flags(Mark(c, m, ts).line, S \cup (IF s = "ws" THEN {} ELSE {Sort(r)}), r, b)
        BY <4>1, <4>3, <4>6, <4>7, <4>8, FlagsStep
      <4>10. Flags(Mark(c, m, ts).line, S \cup (IF s = "ws" THEN {} ELSE {Sort(r)}), r, escaped')
        BY <4>4, <4>9
      <4>. QED
        BY <4>10 DEF K
    <3>. HIDE DEF d, T
    <3>4. QED
      BY <2>2, <3>3
  <2>4. m \in Marks /\ RoleHere # "newline"
    <3>1. RoleHere \in {"inner", "unnest", "nest", "escape", "blank"}
      BY <1>1, <1>2, <1>3, <1>4, <1>9, ConformingRegion, SymbolRoles
    <3>2. r.inner \in Marks /\ r.blank \in Marks
      BY <1>2, <1>3, ConformingRegion DEF RegionType
    <3>3. QED
      BY <3>1, <3>2 DEF Marks
  <2>5. Begins(c, d, ts)
    BY <1>3, <1>6, <2>4, MarkBegins
  <2>. HIDE DEF d, m, s, r
  <2>6. /\ KindsOf(d) = KindsOf(c) /\ CallsOf(d) = CallsOf(c) /\ d.inqueue = c.inqueue
        /\ d.line.start < p + 1
    <3>1. d.line.start < p + 1
      BY <1>3, <1>6, <2>5 DEF Begins
    <3>2. QED
      BY <2>5, <3>1, BeginsKinds
  <2>7. Tally(f, d, p + 1)
    BY <1>3, <1>6, <1>9, <2>6, TallyMore DEF s
  <2>8. WithinReads(f, d, p + 1, r, escaped', nest', FALSE)
    BY <1>5, <1>6, <2>3, <2>6, <2>7 DEF WithinReads
  <2>9. QED
    BY <1>1, <1>7, <2>4, <2>8 DEF f, r
<1>10. QED
  BY <1>8, <1>9

\* The roles of a closing delimiter.
LEMMA ClosingRole ==
  ASSUME NEW r, NEW esc, NEW n, NEW s, Role(r, esc, n, s) = "close"
  PROVE  s = r.close /\ s # "nl"
  BY DEF Role, NewlineRole

LEMMA CloseRegionConform == TypeInv /\ ConformInv /\ CloseRegion => ConformInv'
<1>. SUFFICES ASSUME TypeInv, ConformInv, CloseRegion, Conforms, WellFormed
              PROVE  OutsideReads(Reading, count', p')
  BY StepOutside DEF CloseRegion, LeaveRegion, Within
<1>. DEFINE f == Reading
            r == region
            s == text[p + 1]
            K == Sort(r)
            c0 == Leave(count)
            c == IF r.commit THEN Commit(c0) ELSE c0
            d == Mark(c, r.last, ts)
            S == Sofar(f, p)
            T == Sofar(f, p + 1)
<1>1. Within /\ RoleHere = "close" /\ p' = p + 1 /\ count' = d
  BY DEF CloseRegion, LeaveRegion
<1>2. /\ Inside(f, p, r, escaped, nest)
      /\ TypeOK /\ p \in Nat /\ pe \in Nat /\ p <= pe /\ ts \in Nat /\ ts < p
      /\ r \in Grammar /\ r # NoRegion /\ escaped \in BOOLEAN /\ nest \in Int
      /\ p # pe => /\ p \in 0 .. pe - 1
                   /\ RoleHere = Role(r, escaped, nest, s)
  BY <1>1, WithinFacts
<1>3. p # pe
  BY <1>1 DEF RoleHere
<1>4. Inside(f, p + 1, NoRegion, FALSE, 0)
  BY <1>1, <1>2, <1>3, InsideNext
<1>5. /\ Sound(c0) /\ (c0.inqueue <=> r.enqueue) /\ c0.line.start \in Int /\ c0.line.start <= p
      /\ Tally(f, c0, p) /\ Flags(c0.line, S, r, escaped)
  BY <1>1, LeaveReads
<1>6. s = r.close /\ s \notin {"ws", "nl", "eol"}
  <2>1. s = r.close /\ s # "nl"
    BY <1>1, <1>2, <1>3, ClosingRole
  <2>2. s # "ws"
    BY <1>2, <2>1, NotOpened
  <2>3. s # "eol"
    <3>1. \A i \in DOMAIN text : text[i] # "eol"
      BY <1>2, TextsAssumption DEF ConformInv, TypeOK
    <3>2. p + 1 \in DOMAIN text
      BY <1>2, <1>3 DEF TypeOK, pe
    <3>3. QED
      BY <3>1, <3>2
  <2>4. QED
    BY <2>1, <2>2, <2>3
<1>7. /\ K \in {"code", "comment"} /\ r.last \in {"none", K} /\ r.last \in Marks
      /\ r.enqueue => r.commit
      /\ r.mark = "none" => r.last = K
      /\ r.newline # {} => r.last = K
  <2>1. r \in RegionType
    BY <1>2, ConformingRegion
  <2>2. r.last \in Marks
    BY <2>1 DEF RegionType
  <2>3. QED
    BY <1>2, <1>6, <2>2, ConformingRegion
<1>. HIDE DEF f, c0
<1>8. Says(f, p + 1) = {K}
  BY <1>2, <1>4, <1>6, RegionSays DEF Inside
<1>9. T = S \cup {K}
  BY <1>2, <1>6, <1>8, SofarNext
<1>10. /\ Sound(c) /\ ~c.inqueue /\ c.line = c0.line
       /\ KindsOf(c) = KindsOf(c0) /\ CallsOf(c) = CallsOf(c0)
  <2>1. CASE r.commit
    BY <1>5, <2>1, CommitSound, CommitKinds
  <2>2. CASE ~r.commit
    BY <1>5, <1>7, <2>2
  <2>3. QED
    BY <2>1, <2>2
<1>. HIDE DEF c
<1>11. Match(c.line, T) \/ Match(c.line, T \ {K})
  <2>1. Match(c.line, S) \/ Match(c.line, S \ {K})
    BY <1>5, <1>10 DEF Flags
  <2>. HIDE DEF S, T, K
  <2>2. QED
    BY <1>9, <2>1, MatchMore
<1>12. Match(d.line, T)
  <2>1. CASE r.last = K
    <3>1. K \in T
      BY <1>9
    <3>. HIDE DEF T
    <3>2. QED
      BY <1>2, <1>7, <1>10, <1>11, <2>1, <3>1, MarkMatches
  <2>2. CASE r.last = "none"
    <3>1. ~Pend(r, escaped) /\ r.newline = {}
      BY <1>7, <2>2 DEF Pend
    <3>2. Match(c.line, S) /\ K \in S
      BY <1>5, <1>10, <3>1 DEF Flags
    <3>3. T = S
      BY <1>9, <3>2
    <3>4. d = c
      BY <2>2 DEF Mark
    <3>5. QED
      BY <3>2, <3>3, <3>4
  <2>3. QED
    BY <1>7, <2>1, <2>2
<1>13. /\ KindsOf(d) = KindsOf(c) /\ CallsOf(d) = CallsOf(c)
       /\ ~d.inqueue /\ d.line.start <= p + 1
  <2>1. Begins(c, d, ts)
    BY <1>2, <1>7, <1>10, MarkBegins
  <2>. HIDE DEF d
  <2>2. d.line.start <= p + 1
    BY <1>2, <1>5, <1>10, <2>1 DEF Begins
  <2>3. QED
    BY <1>10, <2>1, <2>2, BeginsKinds
<1>14. Tally(f, d, p + 1)
  <2>1. KindsOf(d) = KindsOf(c0) /\ CallsOf(d) = CallsOf(c0)
    BY <1>10, <1>13
  <2>. HIDE DEF d
  <2>2. QED
    BY <1>2, <1>5, <1>6, <2>1, TallyMore
<1>15. Idle(f, p + 1)
  BY <1>4 DEF Idle, Inside
<1>. HIDE DEF d, T
<1>16. QED
  BY <1>1, <1>12, <1>13, <1>14, <1>15 DEF OutsideReads, f, T

LEMMA EndLineCommentConform == TypeInv /\ ConformInv /\ EndLineComment => ConformInv'
<1>. SUFFICES ASSUME TypeInv, ConformInv, EndLineComment, Conforms, WellFormed
              PROVE  OutsideReads(Reading, count', p')
  BY StepOutside DEF EndLineComment, LeaveRegion, Within
<1>. DEFINE f == Reading
            c == Leave(count)
<1>1. Within /\ RoleHere = "stop" /\ region.close = "eol" /\ p' = p /\ count' = c
  BY DEF EndLineComment, LeaveRegion
<1>2. /\ Inside(f, p, region, escaped, nest) /\ TypeOK /\ region \in Grammar
      /\ p \in Nat /\ pe \in Nat
      /\ p # pe => RoleHere = Role(region, escaped, nest, text[p + 1])
  BY <1>1, WithinFacts
<1>3. /\ c.inqueue <=> region.enqueue
      /\ c.line.start <= p /\ Tally(f, c, p)
      /\ Flags(c.line, Sofar(f, p), region, escaped)
  BY <1>1, LeaveReads
<1>4. ~region.enqueue /\ region.mark # "none" /\ ~region.pair
  BY <1>1, <1>2, ConformingRegion
<1>. HIDE DEF f, c
<1>5. Match(c.line, Sofar(f, p))
  BY <1>3, <1>4 DEF Flags, Pend
<1>6. Idle(f, p)
  BY <1>1, <1>2 DEF Idle, Inside
<1>7. QED
  BY <1>1, <1>3, <1>4, <1>5, <1>6 DEF OutsideReads, f

\* A region of a well-formed text is never left unread.
LEMMA BacktrackConform == TypeInv /\ ConformInv /\ Backtrack => ConformInv'
<1>. SUFFICES ASSUME TypeInv, ConformInv, Backtrack, Conforms, WellFormed
              PROVE  FALSE
  BY StepOutside DEF Backtrack, LeaveRegion, Within
<1>. DEFINE f == Reading
<1>1. Within /\ RoleHere = "stop" /\ region.close # "eol"
  BY DEF Backtrack
<1>2. /\ Inside(f, p, region, escaped, nest) /\ TypeOK
      /\ region \in Grammar /\ region # NoRegion
      /\ escaped \in BOOLEAN /\ nest \in Int
      /\ p # pe => /\ p \in 0 .. pe - 1
                   /\ RoleHere = Role(region, escaped, nest, text[p + 1])
  BY <1>1, WithinFacts
<1>3. CASE p = pe
  BY <1>1, <1>2, <1>3 DEF WellFormed, Inside
<1>4. CASE p # pe
  BY <1>1, <1>2, <1>4, InsideNext
<1>5. QED
  BY <1>3, <1>4

-----------------------------------------------------------------------------
(* The end of a text, and the next one.                                    *)

LEMMA PromisesCount ==
  ASSUME NEW f, NEW S, IsFiniteSet(S)
  PROVE  Cardinality({<<e, Promise(f, e)>> : e \in S}) = Cardinality(S)
<1>. DEFINE T == {<<e, Promise(f, e)>> : e \in S}
            g == [e \in S |-> <<e, Promise(f, e)>>]
<1>1. g \in [S -> T]
  OBVIOUS
<1>2. \A t \in T : \E e \in S : g[e] = t
  OBVIOUS
<1>3. \A a, b \in S : g[a] = g[b] => a = b
  OBVIOUS
<1>. HIDE DEF T, g
<1>4. ExistsBijection(S, T)
  BY <1>1, <1>2, <1>3 DEF ExistsBijection, Bijection, Injection, Surjection, IsInjective
<1>5. QED
  BY <1>4, FS_Bijection DEF T

\* The line ends that are promised a report, and what is said of the last line.
LEMMA PromisedEnds ==
  ASSUME NEW f, pe \in Nat, NEW line \in LineType, Match(line, Sofar(f, pe))
  PROVE  LET ends == {e \in LineEnds : text[e] = "nl" \/ Promise(f, e) # "lblank"}
         IN  /\ Kind(line) = "lblank" => ends = Ends(pe)
             /\ Kind(line) # "lblank" => /\ ends = Ends(pe) \cup {pe} /\ pe \notin Ends(pe)
                                         /\ Promise(f, pe) = Kind(line)
<1>. DEFINE ends == {e \in LineEnds : text[e] = "nl" \/ Promise(f, e) # "lblank"}
<1>1. \A e : e \in Ends(pe) <=> e \in 1 .. pe /\ text[e] = "nl"
  BY DEF Ends
<1>2. \A e : e \in LineEnds <=> e \in 1 .. pe /\ (text[e] = "nl" \/ e = pe)
  BY DEF LineEnds
<1>3. Sofar(f, pe) = {} => Kind(line) = "lblank"
  BY DEF Match, Kind
<1>4. CASE pe = 0
  <2>1. Sofar(f, pe) = {}
    BY <1>4 DEF Sofar, InLine
  <2>2. \A e : e \notin ends /\ e \notin Ends(pe)
    BY <1>1, <1>2, <1>4
  <2>3. ends = Ends(pe)
    BY <2>2
  <2>4. QED
    BY <1>3, <2>1, <2>3
<1>5. CASE pe # 0 /\ text[pe] = "nl"
  <2>1. pe - 1 \in Nat /\ (pe - 1) + 1 = pe
    BY <1>5
  <2>2. Sofar(f, pe) = {}
    BY <1>5, <2>1, SofarNext
  <2>3. ends = Ends(pe)
    BY <1>1, <1>2, <1>5
  <2>4. QED
    BY <1>3, <2>2, <2>3
<1>6. CASE pe # 0 /\ text[pe] # "nl"
  <2>1. pe - 1 \in Nat /\ (pe - 1) + 1 = pe
    BY <1>6
  <2>2. Said(f, pe) = Sofar(f, pe)
    BY <1>6, <2>1, SofarNext
  <2>3. Promise(f, pe) = Kind(line)
    BY <2>2, KindOfMatch
  <2>4. pe \in LineEnds /\ pe \notin Ends(pe)
    BY <1>1, <1>2, <1>6
  <2>5. \A e : e \in Ends(pe) => e \in ends
    BY <1>1, <1>2
  <2>6. \A e : e \in ends => e \in Ends(pe) \/ (e = pe /\ Promise(f, e) # "lblank")
    BY <1>1, <1>2
  <2>7. Kind(line) = "lblank" => ends = Ends(pe)
    BY <2>3, <2>5, <2>6
  <2>8. Kind(line) # "lblank" => ends = Ends(pe) \cup {pe}
    BY <2>3, <2>4, <2>5, <2>6
  <2>. HIDE DEF ends
  <2>9. QED
    BY <2>3, <2>4, <2>7, <2>8 DEF ends
<1>7. QED
  BY <1>4, <1>5, <1>6

LEMMA EndOfTextReads ==
  ASSUME TypeInv, ConformInv, Outside, p < pe => At(p) = "vt", Conforms, WellFormed
  PROVE  ParsedReads(LastLine(count))
<1>. DEFINE f == Reading
            c == count
            d == LastLine(c)
            item == Callback(Kind(c.line), c.line.start, pe)
            ends == {e \in LineEnds : text[e] = "nl" \/ Promise(f, e) # "lblank"}
<1>1. /\ OutsideReads(f, c, p) /\ TypeOK /\ Sound(c) /\ pe \in Nat /\ ~c.inqueue
      /\ p \in 0 .. pe
  BY OutsideFacts DEF TypeOK
<1>2. p = pe
  <2>1. \A i \in 1 .. pe : text[i] # "vt"
    BY DEF WellFormed
  <2>2. p < pe => p + 1 \in 1 .. pe
    BY <1>1
  <2>3. QED
    BY <1>1, <2>1, <2>2 DEF At
<1>3. Tally(f, c, pe) /\ Match(c.line, Sofar(f, pe)) /\ c.line \in LineType
  BY <1>1, <1>2 DEF OutsideReads, Sound, CountType
<1>4. Promised = {<<e, Promise(f, e)>> : e \in ends}
  BY DEF Promised
<1>. HIDE DEF f
<1>5. /\ Kind(c.line) = "lblank" => ends = Ends(pe)
      /\ Kind(c.line) # "lblank" => /\ ends = Ends(pe) \cup {pe} /\ pe \notin Ends(pe)
                                    /\ Promise(f, pe) = Kind(c.line)
  BY <1>1, <1>3, PromisedEnds
<1>6. /\ KindsIn(c.out) = {<<e, Promise(f, e)>> : e \in Ends(pe)}
      /\ Len(c.out) = Cardinality(Ends(pe)) /\ Len(c.out) \in Nat
      /\ c.out \in Seq(CallbackType)
  BY <1>1, <1>3, SoundParts DEF Tally, KindsOf, CallsOf
<1>7. IsFiniteSet(Ends(pe))
  <2>1. Ends(pe) \subseteq 1 .. pe
    BY DEF Ends
  <2>2. QED
    BY <1>1, <2>1, FS_Interval, FS_Subset
<1>. HIDE DEF ends
<1>8. KindsIn(d.out) = Promised /\ Len(d.out) = Cardinality(ends) /\ IsFiniteSet(ends)
  <2>1. CASE Kind(c.line) = "lblank"
    <3>1. d = c /\ ends = Ends(pe)
      BY <1>5, <2>1 DEF LastLine
    <3>2. QED
      BY <1>4, <1>6, <1>7, <3>1
  <2>2. CASE Kind(c.line) # "lblank"
    <3>1. d.out = Append(c.out, item)
      BY <1>1, <2>2 DEF LastLine, Sound, CountType
    <3>2. item.e = pe /\ item.kind = Promise(f, pe)
      BY <1>5, <2>2 DEF Callback
    <3>. HIDE DEF item, d
    <3>3. /\ KindsIn(d.out) = KindsIn(c.out) \cup {<<pe, Promise(f, pe)>>}
          /\ Len(d.out) = Len(c.out) + 1
      BY <1>6, <3>1, <3>2, KindsAppend
    <3>4. IsFiniteSet(ends) /\ Cardinality(ends) = Cardinality(Ends(pe)) + 1
      BY <1>5, <1>7, <2>2, FS_AddElement
    <3>5. Promised = {<<e, Promise(f, e)>> : e \in Ends(pe)} \cup {<<pe, Promise(f, pe)>>}
      BY <1>4, <1>5, <2>2
    <3>6. QED
      BY <1>6, <3>3, <3>4, <3>5
  <2>3. QED
    BY <2>1, <2>2
<1>9. Cardinality(Promised) = Cardinality(ends)
  <2>1. Cardinality({<<e, Promise(f, e)>> : e \in ends}) = Cardinality(ends)
    BY <1>8, PromisesCount
  <2>2. QED
    BY <1>4, <2>1, Zenon
<1>10. DOMAIN d.out = 1 .. Len(d.out)
  <2>1. file \in 1 .. NFiles
    BY <1>1 DEF TypeOK
  <2>2. Sound(d)
    BY <1>1, <2>1, LastLineSound
  <2>. HIDE DEF d
  <2>3. QED
    BY <2>2 DEF Sound, CountType
<1>. HIDE DEF d
<1>11. QED
  BY <1>8, <1>9, <1>10 DEF ParsedReads, KindsIn, d

LEMMA EndOfTextConform == TypeInv /\ ConformInv /\ EndOfText => ConformInv'
<1>. SUFFICES ASSUME TypeInv, ConformInv, EndOfText PROVE ConformInv'
  OBVIOUS
<1>1. /\ UNCHANGED <<lang, text>> /\ pc' = "parsed" /\ count' = LastLine(count)
      /\ Outside /\ (p < pe => At(p) = "vt") /\ pe \in Nat
  BY DEF EndOfText, TypeInv, TypeOK, pe
<1>2. Conforms /\ WellFormed => ParsedReads(count')
  BY <1>1, EndOfTextReads
<1>3. Conforms' /\ WellFormed' => ParsedReads(count)'
  BY <1>1, <1>2, TextStays
<1>4. QED
  BY <1>1, <1>3 DEF ConformInv, ReadInv, Outside, Within

LEMMA BeginReadsNext ==
  (/\ TypeOK /\ count.out = <<>> /\ ~count.inqueue /\ count.line = NoLine
   => OutsideReads(Reading, count, 0))'
<1>1. TypeOK /\ count.out = <<>> /\ ~count.inqueue /\ count.line = NoLine
        => OutsideReads(Reading, count, 0)
  BY BeginReads
<1>2. QED
  BY <1>1, PTL

LEMMA NextFileConform == TypeInv /\ TypeInv' /\ NextFile => ConformInv'
<1>. SUFFICES ASSUME TypeInv, TypeInv', NextFile PROVE ConformInv'
  OBVIOUS
<1>1. /\ TypeOK' /\ pc' = "scan" /\ p' = 0 /\ region' = NoRegion
      /\ text' \in Texts[lang']
  BY TextsAssumption DEF NextFile, TypeInv, ReadingInv
<1>2. count'.out = <<>> /\ ~count'.inqueue /\ count'.line = NoLine
  BY DEF NextFile, StartFile, TypeInv, Sound, CountType
<1>3. OutsideReads(Reading, count, 0)'
  BY <1>1, <1>2, BeginReadsNext
<1>4. OutsideReads(Reading, count, p)'
  BY <1>1, <1>3
<1>5. QED
  BY <1>1, <1>4 DEF ConformInv, ReadInv, Outside, Within

LEMMA ConformInit == Init => ConformInv
<1>. SUFFICES ASSUME Init PROVE ConformInv
  OBVIOUS
<1>1. TypeOK
  BY TypeInit DEF TypeInv
<1>2. count.out = <<>> /\ ~count.inqueue /\ count.line = NoLine /\ p = 0
  BY DEF Init, CountInit
<1>3. OutsideReads(Reading, count, p)
  BY <1>1, <1>2, BeginReads
<1>4. QED
  BY <1>3 DEF Init, ConformInv, ReadInv, Outside, Within

LEMMA ConformStays == TypeInv /\ ConformInv /\ UNCHANGED vars => ConformInv'
<1>. SUFFICES ASSUME TypeInv, ConformInv, UNCHANGED vars PROVE ConformInv'
  OBVIOUS
<1>1. pe \in Nat /\ UNCHANGED <<lang, text>>
      /\ UNCHANGED <<pc, p, region, escaped, nest, leaving, count>>
  BY DEF TypeInv, TypeOK, pe, vars
<1>2. (Outside' <=> Outside) /\ (Within' <=> Within)
  BY <1>1 DEF Outside, Within
<1>3. QED
  BY <1>1, <1>2, TextStays DEF ConformInv, ReadInv

LEMMA ConformStep == TypeInv /\ ConformInv /\ [Next]_vars => ConformInv'
<1>1. TypeInv /\ [Next]_vars => TypeInv'
  BY TypeStep
<1>2. QED
  BY <1>1, SpacesConform, NewlineConform, AnyCharConform, OpenRegionConform,
     ReadRegionConform, CloseRegionConform, EndLineCommentConform,
     BacktrackConform, EndOfTextConform, NextFileConform, ConformStays
     DEF Next

\* Each line of a well-formed text in a conforming language is reported once,
\* as what it is (the comment in src/parser.h:94-101), whatever the language's
\* scanner, the text, and the texts that the same process parsed before.
THEOREM ConformingLinesAlways == Spec => []ConformingLines
<1>1. TypeInv /\ ConformInv => ConformingLines
  BY DEF ConformInv, ReadInv, ParsedReads, ConformingLines, LinesAsPromised, Lines
<1>2. Spec => [](TypeInv /\ ConformInv)
  BY TypeInit, TypeStep, ConformInit, ConformStep, PTL DEF Spec
<1>3. QED
  BY <1>1, <1>2, PTL
-----------------------------------------------------------------------------
(* The stack, and what the parsers of two languages report.                *)

\* The inductive form: what is on the stack is the host to return to, so that
\* a scanner that fret goes back to may call again.
StackInv ==
    IF Embedding THEN \E h \in DOMAIN Hosts : stack = <<h>> ELSE stack = <<>>

LEMMA EntryLanguage ==
  ASSUME NEW h \in DOMAIN Hosts, NEW e \in Hosts[h].entries
  PROVE  e.lang \notin DOMAIN Hosts
  BY HostsAssumption DEF EntryType

\* A call from a host, and a return.
LEMMA CallStack ==
  ASSUME StackInv, InHost, NEW e \in Entries, Call(e)
  PROVE  StackInv'
<1>1. stack = <<>> /\ lang \in DOMAIN Hosts /\ Host = lang
  BY DEF StackInv, InHost, Embedding, Host
<1>2. e.lang \notin DOMAIN Hosts
  BY <1>1, EntryLanguage DEF Entries
<1>3. stack' = <<lang>> /\ lang' = e.lang
  BY <1>1 DEF Call
<1>. QED
  BY <1>1, <1>2, <1>3 DEF StackInv, Embedding

LEMMA OutryStack == StackInv /\ Outry => StackInv'
<1>. SUFFICES ASSUME StackInv, Outry PROVE StackInv'
  OBVIOUS
<1>1. PICK h \in DOMAIN Hosts : stack = <<h>>
  BY DEF StackInv, Outry
<1>2. Host = h /\ SubSeq(stack, 1, Len(stack) - 1) = <<>>
  BY <1>1 DEF Host
<1>3. lang' = h /\ stack' = <<>>
  BY <1>2 DEF Outry
<1>. QED
  BY <1>3 DEF StackInv, Embedding

LEMMA StackInit == EmbInit => StackInv
  BY DEF EmbInit, StackInv, Embedding

LEMMA StackStep == StackInv /\ [EmbNext]_allVars => StackInv'
<1>. SUFFICES ASSUME StackInv, [EmbNext]_allVars PROVE StackInv'
  OBVIOUS
<1>1. CASE Enter
  BY <1>1, CallStack DEF Enter
<1>2. CASE EnterFromPage
  BY <1>2, CallStack DEF EnterFromPage, InPage
<1>3. CASE Outry
  BY <1>3, OutryStack
<1>4. CASE EmbNextFile
  BY <1>4 DEF EmbNextFile, StackInv, Embedding
<1>5. CASE Scan
  <2>1. UNCHANGED <<lang, stack>>
    BY <1>5 DEF Scan, Spaces, AnyChar, Token, OpenRegion, ReadRegion, CloseRegion,
                EndLineComment, Backtrack, LeaveRegion
  <2>. QED
    BY <2>1 DEF StackInv, Embedding
<1>6. CASE EndLine \/ EmbEndOfText
  <2>1. UNCHANGED <<lang, stack>>
    BY <1>6 DEF EndLine, Newline, Token, EmbEndOfText, EndOfText
  <2>. QED
    BY <2>1 DEF StackInv, Embedding
<1>7. CASE OpenPage \/ ReadPage \/ ClosePage \/ StopInPage
  <2>1. UNCHANGED <<lang, stack>>
    BY <1>7 DEF OpenPage, ReadPage, ClosePage, StopInPage
  <2>. QED
    BY <2>1 DEF StackInv, Embedding
<1>8. CASE UNCHANGED allVars
  BY <1>8 DEF allVars, embVars, vars, StackInv, Embedding
<1>. QED
  BY <1>1, <1>2, <1>3, <1>4, <1>5, <1>6, <1>7, <1>8 DEF EmbNext

\* Of the five places Ragel gives the stack, and nothing checks, one is used:
\* in every text and file after file, each fret returns what an fcall left.
THEOREM StackAlwaysBounded == EmbSpec => []StackBounded
<1>1. StackInv => StackBounded
  BY DEF StackInv, StackBounded
<1>. QED
  BY <1>1, StackInit, StackStep, PTL DEF EmbSpec

-----------------------------------------------------------------------------
(* Types, and where reports lie.                                           *)

\* What goes back to the host is code of the host, in all hosts.
AllCoded == \A h \in DOMAIN Hosts : \A e \in Hosts[h].entries : e.outries = e.coded

PageType ==
    [open : {"none", "<!--", "'", "\""}, tagged : BOOLEAN, escaped : BOOLEAN,
     leaving : BOOLEAN]

\* A page's comments and strings are the host's alone, and lie on a line that
\* has begun: Ragel's ts is that of an earlier token there and should begin none.
PageInv ==
    /\ page \in PageType
    /\ page # NoPage => page.open \in {"<!--", "'", "\""}
    /\ Embedding => ~page.leaving
    /\ ~Embedding /\ page # NoPage => region = NoRegion
    /\ InPage => count.line.start # NULL

\* All of the above.
EmbInv == TypeInv /\ TextInv /\ StackInv /\ PageInv

LEMMA NoPageType == NoPage \in PageType
  BY DEF NoPage, PageType

\* Where a line has begun, it does not matter where a mark is from.
LEMMA MarkFromAnywhere ==
  ASSUME NEW c, c.line.start # NULL, NEW from
  PROVE  Code(c, from) = Code(c, 0) /\ Comment(c, from) = Comment(c, 0)
<1>1. Ls(c, from) = Ls(c, 0)
  BY DEF Ls
<1>2. QED
  BY <1>1 DEF Code, Comment

LEMMA HostMarkSound ==
  ASSUME NEW c, Sound(c), PageInv, NEW from \in Nat,
         page # NoPage => c.line.start # NULL
  PROVE  /\ Sound(HostMark(c, from)) /\ HostMark(c, from).line.start # NULL
         /\ pe \in Nat /\ Reporting(c) /\ from < pe => Reporting(HostMark(c, from))
<1>1. CASE page = NoPage
  <2>. DEFINE d == Dequeue(c)
  <2>1. HostMark(c, from) = Code(d, from)
    BY <1>1 DEF HostMark, NoPage
  <2>2. Sound(d) /\ (Reporting(c) => Reporting(d))
    BY DequeueSound, DequeueReporting
  <2>. HIDE DEF d
  <2>3. Sound(Code(d, from)) /\ Code(d, from).line.start # NULL /\ Begins(d, Code(d, from), from)
    BY <2>1, <2>2, CodeSound, CodeBegins
  <2>4. QED
    BY <2>1, <2>2, <2>3, BeginsReporting
<1>2. CASE page # NoPage
  <2>1. c.line.start # NULL /\ page.open \in {"<!--", "'", "\""}
    BY <1>2 DEF PageInv
  <2>2. HostMark(c, from) \in {Code(c, 0), Comment(c, 0)}
    <3>1. page.open = "<!--" => HostMark(c, from) = Comment(c, from)
      BY <1>2 DEF HostMark
    <3>2. page.open \in {"'", "\""} => HostMark(c, from) = Code(c, from)
      BY <1>2 DEF HostMark
    <3>3. QED
      BY <2>1, <3>1, <3>2, MarkFromAnywhere
  <2>3. /\ Sound(Code(c, 0)) /\ Code(c, 0).line.start # NULL /\ Begins(c, Code(c, 0), 0)
        /\ Sound(Comment(c, 0)) /\ Comment(c, 0).line.start # NULL
        /\ Begins(c, Comment(c, 0), 0)
    BY CodeSound, CodeBegins, CommentSound, CommentBegins
  <2>4. ASSUME NEW d, Begins(c, d, 0), Reporting(c)
        PROVE  Reporting(d)
    BY <2>1, <2>4 DEF Begins, Reporting, OfTextBut
  <2>5. QED
    BY <2>2, <2>3, <2>4
<1>3. QED
  BY <1>1, <1>2

LEMMA SawSound ==
  ASSUME NEW c, Sound(c)
  PROVE  /\ Sound(Saw(c)) /\ Saw(c).line.start = c.line.start
         /\ Saw(c).out = c.out /\ Saw(c).queue = c.queue
         /\ Saw(c).inqueue = c.inqueue /\ Saw(c).last = c.last
         /\ Reporting(c) => Reporting(Saw(c))
<1>1. /\ Saw(c) \in CountType /\ Saw(c).line.start = c.line.start
      /\ Saw(c).out = c.out /\ Saw(c).queue = c.queue
      /\ Saw(c).inqueue = c.inqueue /\ Saw(c).last = c.last
      /\ ~Saw(c).line.code /\ ~Saw(c).line.comment
  BY DEF Saw, Sound, CountType, LineType
<1>. HIDE DEF Saw
<1>2. QED
  BY <1>1 DEF Sound, Started, Reporting, OfTextBut

\* What every step of the host's that does not read a region leaves to show.
LEMMA HostStep ==
  ASSUME TypeInv, TextInv, pc = "scan", region = NoRegion,
         UNCHANGED <<text, file, pc, region, escaped, nest, leaving, entity>>,
         p' \in 0 .. pe, ts' \in Nat, lang' \in DOMAIN Scanners,
         Sound(count'), Reporting(count')
  PROVE  TypeInv' /\ TextInv'
<1>1. TypeOK'
  BY DEF TypeInv, TypeOK, pe, Sound, CountType, Grammar
<1>2. Sound(count)' /\ ReadingInv'
  BY DEF TypeInv, ReadingInv, Within, Sound, CountType, Started
<1>3. QED
  BY <1>1, <1>2, ReportingStep DEF TypeInv

-----------------------------------------------------------------------------
(* Each action keeps EmbInv.                                               *)

LEMMA ScanKeeps ==
  ASSUME EmbInv, Scan \/ EndLine
  PROVE  TypeInv' /\ TextInv' /\ PageInv'
<1>1. TypeInv' /\ TextInv'
  BY SpacesType, NewlineType, AnyCharType, OpenRegionType, ReadRegionType, CloseRegionType,
     EndLineCommentType, BacktrackType, TokenText, OpenRegionText, ReadRegionText,
     CloseRegionText, EndLineCommentText, BacktrackText DEF EmbInv, Scan, EndLine
<1>2. Scanning /\ UNCHANGED <<page, pc, lang>>
  BY DEF Scan, EndLine, Spaces, Newline, AnyChar, Token, OpenRegion, ReadRegion,
         CloseRegion, EndLineComment, Backtrack, LeaveRegion
<1>3. QED
  BY <1>1, <1>2 DEF EmbInv, PageInv, InPage, InHost, Scanning, Embedding

LEMMA InHostParts ==
  ASSUME EmbInv, InHost
  PROVE  /\ Host = lang /\ lang \in DOMAIN Hosts /\ lang \in DOMAIN Scanners
         /\ pc = "scan" /\ Sound(count) /\ p \in Nat /\ pe \in Nat /\ p <= pe
         /\ file \in 1 .. NFiles /\ ~Embedding
<1>1. stack = <<>> /\ lang \in DOMAIN Hosts
  BY DEF EmbInv, StackInv, InHost, Embedding
<1>2. QED
  BY <1>1, HostsAssumption
     DEF InHost, Host, EmbInv, TypeInv, TypeOK, pe, Embedding

LEMMA EntryParts ==
  ASSUME NEW h \in DOMAIN Hosts, NEW e \in Hosts[h].entries
  PROVE  e.lang \in DOMAIN Scanners \ DOMAIN Hosts
  BY HostsAssumption DEF EntryType

LEMMA EnterKeeps ==
  ASSUME EmbInv, Enter
  PROVE  TypeInv' /\ TextInv' /\ PageInv'
<1>1. /\ InHost /\ page = NoPage /\ region = NoRegion /\ p < pe /\ ts' = p
      /\ UNCHANGED <<text, file, pc, region, escaped, nest, leaving, entity, page>>
  BY DEF Enter, Scanning, Outside, InHost
<1>2. /\ Host = lang /\ lang \in DOMAIN Hosts /\ pc = "scan" /\ Sound(count)
      /\ p \in Nat /\ pe \in Nat /\ file \in 1 .. NFiles /\ Reporting(count)
  BY <1>1, InHostParts, MoreToRead DEF EmbInv
<1>. DEFINE c == Code(count, p)
<1>3. Sound(c) /\ Reporting(c)
  BY <1>1, <1>2, CodeSound, CodeBegins, BeginsReporting
<1>. HIDE DEF c
<1>4. PICK e \in Entries :
         /\ lang' = e.lang
         /\ \/ count' = Saw(c) /\ p' = p + 1
            \/ \E n \in NewlineBehind(p + 1) :
                 count' = Saw(StdNewline(c, p, n + 1)) /\ p' = n + 1
  BY DEF Enter, Call, c, CheckBlankEntry
<1>5. e.lang \in DOMAIN Scanners \ DOMAIN Hosts
  BY <1>2, EntryParts DEF Entries
<1>6. p' \in 0 .. pe /\ Sound(count') /\ Reporting(count')
  <2>1. CASE count' = Saw(c) /\ p' = p + 1
    BY <1>1, <1>2, <1>3, <2>1, SawSound
  <2>2. CASE \E n \in NewlineBehind(p + 1) :
                 count' = Saw(StdNewline(c, p, n + 1)) /\ p' = n + 1
    <3>1. PICK n \in p + 1 .. pe - 1 : count' = Saw(StdNewline(c, p, n + 1)) /\ p' = n + 1
      BY <2>2 DEF NewlineBehind
    <3>2. n + 1 \in Nat /\ p < n + 1 /\ n + 1 <= pe /\ n + 1 \in 0 .. pe
      BY <1>2
    <3>3. Sound(StdNewline(c, p, n + 1)) /\ Reporting(StdNewline(c, p, n + 1))
      BY <1>2, <1>3, <3>2, StdNewlineSound, StdNewlineReporting
    <3>4. QED
      BY <3>1, <3>2, <3>3, SawSound
  <2>3. QED
    BY <1>4, <2>1, <2>2
<1>7. TypeInv' /\ TextInv'
  BY <1>1, <1>2, <1>4, <1>5, <1>6, HostStep DEF EmbInv
<1>8. PageInv'
  BY <1>1, <1>4, <1>5, NoPageType DEF PageInv, InPage, NoPage
<1>9. QED
  BY <1>7, <1>8

LEMMA OutryKeeps ==
  ASSUME AllCoded, EmbInv, Outry
  PROVE  TypeInv' /\ TextInv' /\ PageInv'
<1>1. /\ Embedding /\ pc = "scan" /\ region = NoRegion /\ p < pe /\ lang' = Host
      /\ ts' = p /\ p' = p + 1
      /\ UNCHANGED <<text, file, pc, region, escaped, nest, leaving, entity, page>>
  BY DEF Outry, Outside
<1>2. /\ Sound(count) /\ p \in Nat /\ pe \in Nat /\ Reporting(count) /\ PageInv
  BY <1>1, MoreToRead DEF EmbInv
<1>3. Host \in DOMAIN Hosts
  BY <1>1 DEF EmbInv, StackInv, Host
<1>. DEFINE c == Code(count, p)
<1>4. PICK e \in Entries :
         /\ At(p) \in e.outries
         /\ count' = IF At(p) \in e.alone
                     THEN IF At(p) \in e.coded THEN c ELSE count
                     ELSE HostMark(IF At(p) \in e.coded THEN c ELSE count, p)
  BY DEF Outry
<1>5. Sound(c) /\ c.line.start # NULL /\ Reporting(c)
  BY <1>1, <1>2, CodeSound, CodeBegins, BeginsReporting
<1>. HIDE DEF c
<1>6. At(p) \in e.coded
  BY <1>3, <1>4 DEF AllCoded, Entries
<1>7. /\ Sound(HostMark(c, p)) /\ HostMark(c, p).line.start # NULL
      /\ Reporting(HostMark(c, p))
  BY <1>1, <1>2, <1>5, HostMarkSound
<1>8. Sound(count') /\ Reporting(count') /\ count'.line.start # NULL
  BY <1>4, <1>5, <1>6, <1>7
<1>9. TypeInv' /\ TextInv'
  BY <1>1, <1>2, <1>3, <1>8, HostStep, HostsAssumption DEF EmbInv
<1>10. PageInv'
  BY <1>1, <1>2, <1>3, <1>8 DEF PageInv, Embedding
<1>11. QED
  BY <1>9, <1>10

LEMMA OpenPageKeeps ==
  ASSUME EmbInv, OpenPage
  PROVE  TypeInv' /\ TextInv' /\ PageInv'
<1>1. /\ InHost /\ page = NoPage /\ region = NoRegion /\ p < pe /\ ts' = p /\ p' = p + 1
      /\ At(p) \in {"<!--", "'", "\""} /\ page' = [NoPage EXCEPT !.open = At(p)]
      /\ count' \in {Comment(count, p), Code(count, p)}
      /\ UNCHANGED <<lang, text, file, pc, region, escaped, nest, leaving, entity>>
  BY DEF OpenPage, Scanning, Outside, InHost, PageOpeners
<1>2. /\ lang \in DOMAIN Scanners /\ pc = "scan" /\ Sound(count)
      /\ p \in Nat /\ pe \in Nat /\ Reporting(count) /\ ~Embedding
  BY <1>1, InHostParts, MoreToRead DEF EmbInv
<1>3. Sound(count') /\ Reporting(count') /\ count'.line.start # NULL
  BY <1>1, <1>2, CodeSound, CodeBegins, CommentSound, CommentBegins, BeginsReporting
<1>4. TypeInv' /\ TextInv'
  <2>1. p' = p + 1 /\ p < pe /\ ts' = p /\ lang' = lang
    BY <1>1
  <2>2. p' \in 0 .. pe /\ ts' \in Nat /\ lang' \in DOMAIN Scanners
    BY <1>2, <2>1
  <2>3. QED
    BY <1>1, <1>2, <1>3, <2>2, HostStep DEF EmbInv
<1>5. PageInv'
  BY <1>1, <1>2, <1>3 DEF PageInv, PageType, NoPage, Embedding
<1>6. QED
  BY <1>4, <1>5

\* emb_internal_newline in a page.
LEMMA PageLeaveSound ==
  ASSUME EmbInv, InPage
  PROVE  /\ Sound(PageLeave(count)) /\ PageLeave(count).line.start # NULL
         /\ p < pe => Reporting(PageLeave(count))
<1>1. /\ pc = "scan" /\ Sound(count) /\ p \in Nat /\ pe \in Nat /\ p <= pe
      /\ file \in 1 .. NFiles /\ count.line.start # NULL
      /\ p < pe => Reporting(count)
  BY InHostParts, MoreToRead DEF EmbInv, InPage, PageInv
<1>2. CASE ~page.leaving
  BY <1>1, <1>2 DEF PageLeave
<1>3. CASE page.leaving
  <2>1. PageLeave(count) = InternalNewline(count, p)
    BY <1>3 DEF PageLeave
  <2>2. Sound(InternalNewline(count, p)) /\ InternalNewline(count, p).line.start # NULL
    BY <1>1, InternalNewlineSound
  <2>3. ASSUME p < pe PROVE Reporting(InternalNewline(count, p))
    <3>1. OfTextBut(InternalNewline(count, p)) /\ InternalNewline(count, p).line.start = p
      BY <1>1, <2>3, InternalNewlineReporting
    <3>2. QED
      BY <2>3, <3>1 DEF Reporting
  <2>4. QED
    BY <2>1, <2>2, <2>3
<1>4. QED
  BY <1>2, <1>3

LEMMA PageMarkSound ==
  ASSUME EmbInv, InPage
  PROVE  LET c == PageMark(PageLeave(count))
         IN  /\ Sound(c) /\ c.line.start # NULL
             /\ p < pe => Reporting(c)
<1>1. page # NoPage /\ PageInv /\ ts \in Nat
  BY DEF InPage, EmbInv, TypeInv, TypeOK
<1>. DEFINE d == PageLeave(count)
<1>2. /\ Sound(d) /\ d.line.start # NULL
      /\ p < pe => Reporting(d)
  BY <1>1, PageLeaveSound
<1>. HIDE DEF d
<1>3. page.open \in {"<!--", "'", "\""}
  BY <1>1 DEF PageInv
<1>4. PageMark(d) \in {Code(d, 0), Comment(d, 0)}
  <2>1. page.open = "<!--" => PageMark(d) = Comment(d, ts)
    BY <1>1 DEF PageMark, HostMark
  <2>2. page.open \in {"'", "\""} => PageMark(d) = Code(d, ts)
    BY <1>1 DEF PageMark, HostMark
  <2>3. QED
    BY <1>2, <1>3, <2>1, <2>2, MarkFromAnywhere
<1>5. Sound(PageMark(d)) /\ PageMark(d).line.start # NULL
  BY <1>1, <1>2, HostMarkSound DEF PageMark
<1>6. ASSUME NEW c, Begins(d, c, 0), Reporting(d)
      PROVE  Reporting(c)
  BY <1>2, <1>6 DEF Begins, Reporting, OfTextBut
<1>7. Begins(d, Code(d, 0), 0) /\ Begins(d, Comment(d, 0), 0)
  BY <1>2, CodeBegins, CommentBegins
<1>8. p < pe => Reporting(PageMark(d))
  BY <1>2, <1>4, <1>6, <1>7
<1>9. QED
  BY <1>5, <1>8 DEF d

\* A step that reads a symbol in a page.
LEMMA PageStepKeeps ==
  ASSUME EmbInv, InPage, p < pe, NEW c, NEW next, PageStep(c, next),
         Sound(c), Reporting(c), c.line.start # NULL, lang' \in DOMAIN Scanners
  PROVE  TypeInv' /\ TextInv' /\ region' = NoRegion
<1>1. /\ pc = "scan" /\ region = NoRegion /\ p \in Nat /\ pe \in Nat /\ ts \in Nat
  BY InHostParts DEF EmbInv, InPage, InHost, PageInv, TypeInv, TypeOK
<1>2. p' \in 0 .. pe /\ ts' \in Nat /\ count' = c
      /\ UNCHANGED <<text, file, pc, region, escaped, nest, leaving, entity>>
  BY <1>1 DEF PageStep
<1>3. QED
  BY <1>1, <1>2, HostStep DEF EmbInv

LEMMA ReadPageKeeps ==
  ASSUME EmbInv, ReadPage \/ ClosePage
  PROVE  TypeInv' /\ TextInv' /\ PageInv'
<1>. DEFINE c == PageLeave(count)
            d == PageMark(c)
<1>1. InPage /\ p < pe /\ UNCHANGED lang
  BY DEF ReadPage, ClosePage
<1>2. PICK next :
        /\ PageStep(c, next) \/ PageStep(d, next)
        /\ \/ next = NoPage
           \/ \E t \in BOOLEAN, x \in BOOLEAN, l \in BOOLEAN :
                next = [page EXCEPT !.tagged = t, !.escaped = x, !.leaving = l]
  <2>1. CASE ClosePage
    BY <2>1 DEF ClosePage
  <2>2. CASE ReadPage
    <3>. DEFINE s == At(p)
                string == page.open # "<!--"
                t == page.tagged \/ (s \in Tags /\ ~Escaped)
                x == s = "bs" /\ string /\ ~Escaped
                l == s = "nl"
                next == [page EXCEPT !.tagged = t, !.escaped = x, !.leaving = l]
    <3>1. t \in BOOLEAN /\ x \in BOOLEAN /\ l \in BOOLEAN
      OBVIOUS
    <3>2. PageStep(c, next) \/ PageStep(d, next)
      BY <2>2 DEF ReadPage
    <3>. HIDE DEF t, x, l
    <3>3. QED
      BY <3>1, <3>2
  <2>3. QED
    BY <2>1, <2>2
<1>3. /\ Sound(c) /\ Reporting(c) /\ c.line.start # NULL
      /\ Sound(d) /\ Reporting(d) /\ d.line.start # NULL
  BY <1>1, PageLeaveSound, PageMarkSound
<1>. HIDE DEF c, d
<1>4. lang \in DOMAIN Scanners /\ lang' = lang /\ ~Embedding /\ PageInv /\ page # NoPage
  BY <1>1, InHostParts DEF InPage, EmbInv
<1>5. TypeInv' /\ TextInv' /\ region' = NoRegion
  BY <1>1, <1>2, <1>3, <1>4, PageStepKeeps
<1>6. page' = next /\ count'.line.start # NULL /\ pc' = "scan"
  BY <1>1, <1>2, <1>3 DEF PageStep, InPage, InHost
<1>7. next \in PageType /\ (next # NoPage => next.open \in {"<!--", "'", "\""})
  BY <1>2, <1>4, NoPageType DEF PageInv, PageType
<1>8. PageInv'
  BY <1>4, <1>5, <1>6, <1>7 DEF PageInv, Embedding
<1>9. QED
  BY <1>5, <1>8

LEMMA EnterFromPageKeeps ==
  ASSUME EmbInv, EnterFromPage
  PROVE  TypeInv' /\ TextInv' /\ PageInv'
<1>. DEFINE c == PageMark(PageLeave(count))
            next == [page EXCEPT !.tagged = TRUE, !.escaped = FALSE, !.leaving = FALSE]
<1>1. PICK e \in Entries : lang' = e.lang /\ InPage /\ p < pe /\ PageStep(Saw(c), next)
  BY DEF EnterFromPage, Call
<1>2. Sound(c) /\ Reporting(c) /\ c.line.start # NULL
  BY <1>1, PageMarkSound
<1>. HIDE DEF c
<1>3. Sound(Saw(c)) /\ Reporting(Saw(c)) /\ Saw(c).line.start # NULL
  BY <1>2, SawSound
<1>4. lang' \in DOMAIN Scanners \ DOMAIN Hosts /\ PageInv /\ page # NoPage
  BY <1>1, InHostParts, EntryParts DEF InPage, Entries, EmbInv
<1>5. TypeInv' /\ TextInv'
  BY <1>1, <1>3, <1>4, PageStepKeeps
<1>6. page' = next
  BY <1>1 DEF PageStep
<1>7. PageInv'
  BY <1>4, <1>6 DEF PageInv, PageType, Embedding, InPage, InHost
<1>8. QED
  BY <1>5, <1>7

LEMMA StopInPageKeeps ==
  ASSUME EmbInv, StopInPage
  PROVE  TypeInv' /\ TextInv' /\ PageInv'
<1>. DEFINE c == PageLeave(count)
<1>1. /\ InPage /\ p < pe /\ count' = LastLine(c) /\ pc' = "parsed"
      /\ UNCHANGED <<lang, text, file, p, ts, region, escaped, nest, leaving, entity, page>>
  BY DEF StopInPage
<1>2. Sound(c) /\ Reporting(c)
  BY <1>1, PageLeaveSound
<1>. HIDE DEF c
<1>3. /\ pe \in Nat /\ file \in 1 .. NFiles /\ ~Embedding /\ region = NoRegion
      /\ TypeInv /\ PageInv /\ lang \in DOMAIN Scanners
  BY <1>1, InHostParts DEF EmbInv, PageInv, InPage
<1>4. Sound(count') /\ OfText(count'.out)
  BY <1>1, <1>2, <1>3, LastLineSound, LastLineOfText DEF Reporting, OfTextBut
<1>5. TypeOK'
  BY <1>1, <1>3, <1>4 DEF TypeInv, TypeOK, Sound, CountType, Grammar, pe
<1>6. ReadingInv'
  BY <1>1, <1>3 DEF TypeInv, ReadingInv, Within
<1>7. TextInv'
  BY <1>1, <1>4 DEF TextInv, OfText, pe
<1>8. PageInv'
  BY <1>1, <1>3 DEF PageInv, InPage, InHost, Embedding
<1>9. QED
  BY <1>4, <1>5, <1>6, <1>7, <1>8 DEF TypeInv

LEMMA EmbEndKeeps ==
  ASSUME EmbInv, EmbEndOfText \/ EmbNextFile
  PROVE  TypeInv' /\ TextInv' /\ PageInv'
<1>1. TypeInv' /\ TextInv'
  BY EndOfTextType, EndOfTextText, NextFileType, NextFileText
     DEF EmbEndOfText, EmbNextFile, EmbInv
<1>2. CASE EmbEndOfText
  <2>1. UNCHANGED <<page, lang, region>> /\ pc' = "parsed"
    BY <1>2 DEF EmbEndOfText, EndOfText
  <2>2. QED
    BY <1>1, <2>1 DEF EmbInv, PageInv, InPage, InHost, Embedding
<1>3. CASE EmbNextFile
  <2>1. page' = NoPage /\ NoPage.leaving = FALSE
    BY <1>3 DEF EmbNextFile, NoPage
  <2>2. QED
    BY <1>1, <2>1, NoPageType DEF PageInv, InPage
<1>4. QED
  BY <1>1, <1>2, <1>3

LEMMA EmbInvInit == EmbInit => EmbInv
<1>. SUFFICES ASSUME EmbInit PROVE EmbInv
  OBVIOUS
<1>1. TypeInv /\ TextInv /\ StackInv
  BY TypeInit, TextInit, StackInit DEF EmbInit
<1>2. PageInv
  BY NoPageType DEF EmbInit, PageInv, NoPage, InPage, Embedding
<1>3. QED
  BY <1>1, <1>2 DEF EmbInv

LEMMA EmbInvStep == AllCoded /\ EmbInv /\ [EmbNext]_allVars => EmbInv'
<1>. SUFFICES ASSUME AllCoded, EmbInv, [EmbNext]_allVars PROVE EmbInv'
  OBVIOUS
<1>1. StackInv'
  BY StackStep DEF EmbInv
<1>2. CASE UNCHANGED allVars
  <2>1. UNCHANGED vars /\ UNCHANGED <<page, stack>>
    BY <1>2 DEF allVars, embVars
  <2>2. TypeInv' /\ TextInv'
    BY <2>1, TypeStep, TextStep DEF EmbInv
  <2>3. PageInv'
    BY <2>1 DEF vars, EmbInv, PageInv, InPage, InHost, Embedding
  <2>4. QED
    BY <1>1, <2>2, <2>3 DEF EmbInv
<1>3. CASE EmbNext
  <2>1. TypeInv' /\ TextInv' /\ PageInv'
    BY <1>3, ScanKeeps, EnterKeeps, OutryKeeps, OpenPageKeeps, ReadPageKeeps,
       EnterFromPageKeeps, StopInPageKeeps, EmbEndKeeps DEF EmbNext
  <2>2. QED
    BY <1>1, <2>1 DEF EmbInv
<1>4. QED
  BY <1>2, <1>3

LEMMA EmbInvAlways == ASSUME AllCoded PROVE EmbSpec => []EmbInv
<1>1. EmbInit => EmbInv
  BY EmbInvInit
<1>2. EmbInv /\ [EmbNext]_allVars => EmbInv'
  BY EmbInvStep
<1>3. QED
  BY <1>1, <1>2, PTL DEF EmbSpec

\* In pages with hosts all of whose outries are code of the host, no report has
\* a start that was NULL, an end outside of the text, or nothing in between,
\* wherever scanners go back, call and return.
THEOREM PageReportsInText == ASSUME AllCoded PROVE EmbSpec => []EmbReportsInText
<1>1. EmbInv => EmbReportsInText
  <2>. SUFFICES ASSUME TypeInv, TextInv
                PROVE  \A k \in Lines : LET line == count.out[k]
                         IN 0 <= line.s /\ line.s < line.e /\ line.e <= pe
    BY DEF EmbInv, EmbReportsInText
  <2>1. count.out \in Seq(CallbackType) /\ Lines = 1 .. Len(count.out)
    BY SoundParts, LenProperties DEF TypeInv, Lines
  <2>2. \A k \in Lines : count.out[k].s \in Nat
    <3>1. \A k \in Lines : count.out[k] \in CallbackType
      BY <2>1, ElementOfSeq
    <3>2. QED
      BY <3>1 DEF CallbackType
  <2>3. QED
    BY <2>1, <2>2 DEF TextInv, OfText
<1>2. QED
  BY <1>1, EmbInvAlways, PTL

-----------------------------------------------------------------------------
(* The host of a page, and what is read in which language.                 *)

\* The languages are the host's, and the history is one of the whole text.
LangInv == lang \in Languages /\ DOMAIN by = 1 .. pe

\* An action other than the next file.
EmbAct == EmbNext /\ ~EmbNextFile

LEMMA SameStack ==
  ASSUME Scan \/ EndLine \/ OpenPage \/ ReadPage \/ ClosePage \/ StopInPage \/ EmbEndOfText
  PROVE  UNCHANGED <<lang, stack, text, file>>
  BY DEF Scan, EndLine, Spaces, Newline, AnyChar, Token, OpenRegion, ReadRegion, CloseRegion,
         EndLineComment, Backtrack, LeaveRegion, OpenPage, ReadPage, ClosePage, PageStep,
         StopInPage, EmbEndOfText, EndOfText

LEMMA HostKept ==
  ASSUME EmbInv, EmbAct
  PROVE  Host' = Host /\ UNCHANGED <<text, file>> /\ (lang \in Languages => lang' \in Languages)
<1>1. CASE Enter \/ EnterFromPage
  <2>1. PICK e \in Entries : Call(e)
    BY <1>1 DEF Enter, EnterFromPage
  <2>2. InHost /\ UNCHANGED <<text, file>>
    BY <1>1 DEF Enter, EnterFromPage, InPage, PageStep
  <2>3. stack = <<>> /\ Host = lang
    BY <2>2, InHostParts DEF EmbInv, StackInv, InHost
  <2>4. stack' = <<lang>> /\ lang' = e.lang
    BY <2>1, <2>3 DEF Call
  <2>5. Host' = Host
    BY <2>3, <2>4 DEF Host
  <2>6. QED
    BY <2>1, <2>2, <2>4, <2>5 DEF Languages, Entries
<1>2. CASE Outry
  <2>1. PICK h \in DOMAIN Hosts : stack = <<h>>
    BY <1>2 DEF Outry, EmbInv, StackInv
  <2>2. Host = h /\ SubSeq(stack, 1, Len(stack) - 1) = <<>>
    BY <2>1 DEF Host
  <2>3. lang' = Host /\ stack' = <<>> /\ UNCHANGED <<text, file>>
    BY <1>2, <2>2 DEF Outry
  <2>4. QED
    BY <2>2, <2>3 DEF Host, Languages, Entries
<1>3. CASE Scan \/ EndLine \/ OpenPage \/ ReadPage \/ ClosePage \/ StopInPage \/ EmbEndOfText
  BY <1>3, SameStack DEF Host, Languages, Entries
<1>4. QED
  BY <1>1, <1>2, <1>3 DEF EmbAct, EmbNext

\* What is read in a step is read in the languages ls.
ReadIn(ls) == by' = [i \in DOMAIN by |-> IF p < i /\ i <= p' THEN ls ELSE by[i]]

LEMMA LangInit == EmbInit => LangInv
<1>. SUFFICES ASSUME EmbInit PROVE LangInv
  OBVIOUS
<1>1. Host = lang /\ DOMAIN by = 1 .. pe
  BY DEF EmbInit, Host
<1>2. QED
  BY <1>1 DEF LangInv, Languages

LEMMA LangStep == EmbInv /\ LangInv /\ [EmbNext]_allVars => LangInv'
<1>. SUFFICES ASSUME EmbInv, LangInv, [EmbNext]_allVars PROVE LangInv'
  OBVIOUS
<1>1. CASE EmbNextFile
  BY <1>1 DEF EmbNextFile, LangInv, Languages, Host, pe
<1>2. CASE EmbAct
  <2>1. UNCHANGED text /\ lang' \in Languages
    BY <1>2, HostKept DEF LangInv
  <2>2. Languages' = Languages
    BY <1>2, HostKept DEF Languages, Entries
  <2>3. UNCHANGED by \/ \E ls : ReadIn(ls)
    BY <1>2 DEF EmbAct, EmbNext, Scan, EndLine, Enter, Outry, OpenPage, ReadPage, ClosePage,
                EnterFromPage, StopInPage, EmbEndOfText, Recorded, ReadIn
  <2>4. DOMAIN by' = DOMAIN by
    BY <2>3 DEF ReadIn
  <2>5. QED
    BY <2>1, <2>2, <2>4 DEF LangInv, pe
<1>3. CASE UNCHANGED allVars
  BY <1>3 DEF allVars, embVars, vars, LangInv, Languages, Entries, Host, pe
<1>4. QED
  BY <1>1, <1>2, <1>3 DEF EmbAct

-----------------------------------------------------------------------------
(* In a page that enqueues nothing no line is lost.                        *)

\* No language of the page enqueues lines.
Plain == \A l \in Languages : \A r \in Scanners[l] : ~r.enqueue

\* A newline that every language it was read in notices must be reported.
Owed(i) == At(i) = "nl" /\ \A l \in by[i + 1] : Notices(l)

\* A newline is being left.
Leaving == leaving \/ page.leaving

\* What is owed in front of p was reported, but for a newline being left, whose
\* line has begun; so was what is in front of the place to go back to.
PageAccount ==
    /\ ~count.inqueue
    /\ \A i \in 0 .. p - 1 :
         Owed(i) => Told(count.out, i) \/ (Leaving /\ i = p - 1)
    /\ pc = "scan" => StartsBy(count.line, p)
    /\ InPage \/ Within => StartsBy(count.line, p - 1)
    /\ Within => /\ At(ts) # "nl"
                 /\ entity # "internal" => StartsBy(count.line, ts)

PlainInv == LangInv /\ (Plain => PageAccount)

\* Lines that a step does not end keep the reports and begin by x.
Keeps(c, d, x) ==
    /\ Sound(d) /\ ~d.inqueue
    /\ \A i : Told(c.out, i) => Told(d.out, i)
    /\ StartsBy(d.line, x)

\* What a step reads and reports is accounted for.
LEMMA AccountRead ==
  ASSUME LangInv, p \in Nat, pe \in Nat, NEW q \in 0 .. pe, p' = q, UNCHANGED text,
         NEW ls, ReadIn(ls), NEW l \in BOOLEAN, NEW o,
         \A i \in 0 .. p - 1 : i < q /\ Owed(i) => Told(o, i),
         \A i \in p .. q - 1 :
           At(i) = "nl" /\ (\A m \in ls : Notices(m)) => Told(o, i) \/ (l /\ i = q - 1)
  PROVE  \A i \in 0 .. q - 1 : Owed(i)' => Told(o, i) \/ (l /\ i = q - 1)
<1>. SUFFICES ASSUME NEW i \in 0 .. q - 1, Owed(i)'
              PROVE  Told(o, i) \/ (l /\ i = q - 1)
  OBVIOUS
<1>1. i + 1 \in DOMAIN by /\ i \in Nat
  BY DEF LangInv
<1>2. At(i)' = At(i)
  BY DEF At
<1>3. by'[i + 1] = IF p < i + 1 /\ i + 1 <= q THEN ls ELSE by[i + 1]
  BY <1>1 DEF ReadIn
<1>4. CASE i < p
  <2>1. by'[i + 1] = by[i + 1]
    BY <1>1, <1>3, <1>4
  <2>2. Owed(i)
    BY <1>2, <2>1 DEF Owed
  <2>3. QED
    BY <1>4, <2>2
<1>5. CASE i >= p
  <2>1. by'[i + 1] = ls /\ i \in p .. q - 1
    BY <1>1, <1>3, <1>5
  <2>2. At(i) = "nl" /\ \A m \in ls : Notices(m)
    BY <1>2, <2>1 DEF Owed
  <2>3. QED
    BY <2>1, <2>2
<1>6. QED
  BY <1>1, <1>4, <1>5

LEMMA BeginsKeeps ==
  ASSUME NEW c, Sound(c), ~c.inqueue, NEW x \in Nat, StartsBy(c.line, x),
         NEW from \in Nat, from <= x, NEW d, Sound(d), Begins(c, d, from)
  PROVE  Keeps(c, d, x)
  BY DEF Keeps, Begins, StartsBy

\* The leaving action of a newline reports what was owed of it.
LEMMA NewlineKeeps ==
  ASSUME EmbInv, pc = "scan", ~count.inqueue, count.line.start # NULL,
         p > 0, StartsBy(count.line, p - 1)
  PROVE  /\ Keeps(count, InternalNewline(count, p), p)
         /\ Told(InternalNewline(count, p).out, p - 1)
<1>. DEFINE d == InternalNewline(count, p)
<1>1. Sound(count) /\ p \in Nat /\ file \in 1 .. NFiles /\ count.line.start \in Nat
  BY SoundParts DEF EmbInv, TypeInv, TypeOK, pe
<1>2. Sound(d) /\ d.line.start = p /\ d.inqueue = count.inqueue
  BY <1>1, InternalNewlineSound, InternalNewlineParts
<1>3. /\ \A i : Told(count.out, i) => Told(d.out, i)
      /\ \A i \in Nat : count.line.start <= i /\ i < p =>
           Told(IF count.inqueue THEN d.queue ELSE d.out, i)
  BY <1>1, InternalNewlineTells
<1>. HIDE DEF d
<1>4. p - 1 \in Nat /\ count.line.start <= p - 1 /\ p - 1 < p
  BY <1>1 DEF StartsBy
<1>5. QED
  BY <1>1, <1>2, <1>3, <1>4 DEF Keeps, StartsBy, d

LEMMA LeaveKeeps ==
  ASSUME EmbInv, PageAccount, Within, Embedding \/ page = NoPage
  PROVE  /\ Keeps(count, Leave(count), p)
         /\ \A i \in 0 .. p - 1 : Owed(i) => Told(Leave(count).out, i)
         /\ EntityLeft # "internal" => StartsBy(Leave(count).line, ts)
<1>1. /\ pc = "scan" /\ p \in Nat /\ p > 0 /\ Sound(count) /\ ts \in Nat
      /\ StartsBy(count.line, p - 1) /\ StartsBy(count.line, p)
  BY DEF Within, EmbInv, TypeInv, TypeOK, ReadingInv, pe, PageAccount
<1>2. ~page.leaving /\ leaving \in BOOLEAN
  <2>1. page = NoPage => ~page.leaving
    BY DEF NoPage
  <2>2. leaving \in BOOLEAN /\ PageInv
    BY DEF EmbInv, TypeInv, TypeOK
  <2>3. QED
    BY <2>1, <2>2 DEF PageInv
<1>3. CASE ~leaving
  BY <1>1, <1>2, <1>3 DEF Leave, EntityLeft, PageAccount, Leaving, Keeps
<1>4. CASE leaving
  <2>1. count.line.start # NULL
    BY <1>4, RegionTyped DEF EmbInv, TypeInv, TypeOK, ReadingInv, Within
  <2>2. /\ Keeps(count, InternalNewline(count, p), p)
        /\ Told(InternalNewline(count, p).out, p - 1)
    BY <1>1, <2>1, NewlineKeeps DEF PageAccount
  <2>3. Leave(count) = InternalNewline(count, p) /\ EntityLeft = "internal"
    BY <1>4 DEF Leave, EntityLeft
  <2>4. QED
    BY <2>2, <2>3 DEF PageAccount, Keeps
<1>5. QED
  BY <1>2, <1>3, <1>4

LEMMA PageLeaveKeeps ==
  ASSUME EmbInv, PageAccount, InPage, p < pe
  PROVE  /\ Keeps(count, PageLeave(count), p)
         /\ \A i \in 0 .. p - 1 : Owed(i) => Told(PageLeave(count).out, i)
<1>1. /\ pc = "scan" /\ p \in Nat /\ Sound(count)
      /\ count.line.start # NULL /\ ~leaving
  <2>1. region = NoRegion /\ count.line.start # NULL /\ pc = "scan"
    BY DEF InPage, InHost, EmbInv, PageInv
  <2>2. ~leaving
    BY <2>1 DEF EmbInv, TypeInv, ReadingInv
  <2>3. p \in Nat /\ Sound(count)
    BY DEF EmbInv, TypeInv, TypeOK, pe
  <2>4. QED
    BY <2>1, <2>2, <2>3
<1>2. p > 0 /\ StartsBy(count.line, p - 1) /\ StartsBy(count.line, p)
  BY <1>1, SoundParts DEF PageAccount, StartsBy
<1>3. CASE ~page.leaving
  BY <1>1, <1>2, <1>3 DEF PageLeave, PageAccount, Leaving, Keeps
<1>4. CASE page.leaving
  <2>1. /\ Keeps(count, InternalNewline(count, p), p)
        /\ Told(InternalNewline(count, p).out, p - 1)
    BY <1>1, <1>2, NewlineKeeps DEF PageAccount
  <2>2. PageLeave(count) = InternalNewline(count, p)
    BY <1>4 DEF PageLeave
  <2>3. QED
    BY <2>1, <2>2 DEF PageAccount, Keeps
<1>5. QED
  BY <1>3, <1>4

LEMMA PageMarkKeeps ==
  ASSUME EmbInv, InPage, NEW c, Sound(c), ~c.inqueue, c.line.start # NULL,
         NEW x \in Nat, StartsBy(c.line, x)
  PROVE  Keeps(c, PageMark(c), x) /\ PageMark(c).out = c.out
<1>1. page # NoPage /\ page.open \in {"<!--", "'", "\""}
  BY DEF InPage, EmbInv, PageInv
<1>2. PageMark(c) \in {Code(c, 0), Comment(c, 0)}
  <2>1. page.open = "<!--" => PageMark(c) = Comment(c, ts)
    BY <1>1 DEF PageMark, HostMark
  <2>2. page.open \in {"'", "\""} => PageMark(c) = Code(c, ts)
    BY <1>1 DEF PageMark, HostMark
  <2>3. QED
    BY <1>1, <2>1, <2>2, MarkFromAnywhere
<1>3. /\ Sound(Code(c, 0)) /\ Begins(c, Code(c, 0), 0)
      /\ Sound(Comment(c, 0)) /\ Begins(c, Comment(c, 0), 0)
  BY CodeSound, CodeBegins, CommentSound, CommentBegins
<1>4. QED
  BY <1>2, <1>3, BeginsKeeps DEF Begins

-----------------------------------------------------------------------------
(* The actions of the scanner of one language.                             *)

\* What a token from p to q that holds no newline leaves to show.
LEMMA PlainToken ==
  ASSUME EmbInv, LangInv, PageAccount, Outside, Embedding \/ page = NoPage,
         NEW q \in p + 1 .. pe, NEW ls, ReadIn(ls), NEW c, p' = q, count' = c,
         UNCHANGED <<text, pc, region, leaving, page>>, page' = NoPage \/ lang' = lang,
         Keeps(count, c, q), \A i \in p .. q - 1 : At(i) = "nl" => Told(c.out, i)
  PROVE  PageAccount'
<1>1. /\ p \in Nat /\ pe \in Nat /\ q \in 0 .. pe /\ ~Leaving /\ region = NoRegion
      /\ pc = "scan"
  <2>1. page = NoPage => ~page.leaving
    BY DEF NoPage
  <2>2. Embedding => ~page.leaving
    BY DEF EmbInv, PageInv
  <2>3. ~leaving /\ region = NoRegion /\ pc = "scan"
    BY DEF EmbInv, TypeInv, ReadingInv, Outside
  <2>4. p \in Nat /\ pe \in Nat /\ p \in 0 .. pe
    BY DEF EmbInv, TypeInv, TypeOK, pe
  <2>5. QED
    BY <2>1, <2>2, <2>3, <2>4 DEF Leaving
<1>2. \A i \in 0 .. p - 1 : Owed(i) => Told(c.out, i)
  BY <1>1 DEF PageAccount, Keeps
<1>3. \A i \in 0 .. q - 1 : Owed(i)' => Told(c.out, i)
  BY <1>1, <1>2, AccountRead
<1>4. ~InPage' /\ ~Within'
  BY <1>1 DEF InPage, InHost, Within, Embedding
<1>5. QED
  BY <1>3, <1>4 DEF PageAccount, Keeps

LEMMA StdNewlineKeeps ==
  ASSUME NEW c, Sound(c), ~c.inqueue, NEW x \in Nat, StartsBy(c.line, x),
         NEW y \in Nat, x < y, file \in 1 .. NFiles
  PROVE  /\ Keeps(c, StdNewline(c, x, y), y)
         /\ \A i \in x .. y - 1 : Told(StdNewline(c, x, y).out, i)
<1>. DEFINE s == IF Kind(c.line) = "lblank" THEN x ELSE c.line.start
            item == Callback(Kind(c.line), s, y)
            d == [c EXCEPT !.line = NoLine, !.out = Append(c.out, item)]
<1>1. c.line \in LineType /\ Started(c.line) /\ c.out \in Seq(CallbackType)
  BY SoundParts DEF Sound, CountType
<1>2. s \in Nat /\ s <= x /\ y > c.line.start
  BY <1>1, SaysStarted DEF StartsBy, LineType, NULL
<1>3. item \in CallbackType /\ item.s = s /\ item.e = y
  BY <1>1, <1>2, CallbackTyped DEF Callback
<1>4. StdNewline(c, x, y) = d
  BY <1>2 DEF StdNewline, Dequeue, Sound, CountType
<1>. HIDE DEF s, item
<1>5. d.line = NoLine /\ d.out = Append(c.out, item) /\ ~d.inqueue
  BY DEF Sound, CountType
<1>6. /\ \A i : Told(c.out, i) => Told(d.out, i)
      /\ \A i \in x .. y - 1 : Told(d.out, i)
  BY <1>1, <1>2, <1>3, <1>5, AppendTells
<1>. HIDE DEF d
<1>7. Sound(StdNewline(c, x, y))
  BY StdNewlineSound
<1>8. QED
  BY <1>4, <1>5, <1>6, <1>7 DEF Keeps, StartsBy, NoLine

LEMMA SawKeeps ==
  ASSUME NEW c, NEW d, NEW x, Keeps(c, d, x)
  PROVE  Keeps(c, Saw(d), x) /\ Saw(d).out = d.out
  BY SawSound DEF Keeps, StartsBy

LEMMA DequeueIdle ==
  ASSUME NEW c, ~c.inqueue
  PROVE  Dequeue(c) = c /\ Commit(c) = c
  BY DEF Dequeue, Commit

\* What PageAccount and EmbInv say between tokens.
LEMMA BetweenTokens ==
  ASSUME EmbInv, PageAccount, pc = "scan"
  PROVE  /\ Sound(count) /\ ~count.inqueue /\ StartsBy(count.line, p)
         /\ p \in Nat /\ pe \in Nat /\ p \in 0 .. pe /\ file \in 1 .. NFiles
         /\ \A q \in p .. pe : StartsBy(count.line, q)
<1>1. /\ Sound(count) /\ ~count.inqueue /\ StartsBy(count.line, p)
      /\ p \in Nat /\ pe \in Nat /\ p \in 0 .. pe /\ file \in 1 .. NFiles
  BY DEF EmbInv, TypeInv, TypeOK, pe, PageAccount
<1>2. QED
  BY <1>1, SoundParts DEF StartsBy

\* A step that marks what it reads, which holds no newline.
LEMMA MarkedKeeps ==
  ASSUME NEW c, Sound(c), ~c.inqueue, NEW x \in Nat, StartsBy(c.line, x)
  PROVE  /\ Keeps(c, Code(c, x), x) /\ Keeps(c, Comment(c, x), x)
         /\ Keeps(c, Ls(c, x), x)
<1>1. /\ Sound(Code(c, x)) /\ Begins(c, Code(c, x), x)
      /\ Sound(Comment(c, x)) /\ Begins(c, Comment(c, x), x)
      /\ Sound(Ls(c, x)) /\ Begins(c, Ls(c, x), x)
  BY CodeSound, CodeBegins, CommentSound, CommentBegins, LsSound, LsBegins
<1>2. QED
  BY <1>1, BeginsKeeps

LEMMA KeepsMore ==
  ASSUME NEW c, NEW d, NEW x \in Nat, Keeps(c, d, x), NEW y \in Nat, x <= y
  PROVE  Keeps(c, d, y)
  BY SoundParts DEF Keeps, StartsBy

LEMMA KeepsTwice ==
  ASSUME NEW c, NEW d, NEW e, NEW x, NEW y, Keeps(c, d, x), Keeps(d, e, y)
  PROVE  Keeps(c, e, y)
  BY DEF Keeps

LEMMA TokenAccount ==
  ASSUME EmbInv, LangInv, PageAccount, Spaces \/ Newline \/ AnyChar, Scanning,
         NEW ls, ReadIn(ls), UNCHANGED page
  PROVE  PageAccount'
<1>1. /\ Outside /\ p < pe /\ (Embedding \/ page = NoPage)
      /\ UNCHANGED <<text, pc, region, leaving, page, lang>>
  BY DEF Spaces, Newline, AnyChar, Token, Scanning
<1>2. /\ Sound(count) /\ ~count.inqueue /\ StartsBy(count.line, p) /\ p \in Nat /\ pe \in Nat
      /\ file \in 1 .. NFiles /\ Dequeue(count) = count
  BY <1>1, BetweenTokens, DequeueIdle DEF Outside
<1>3. p + 1 \in p + 1 .. pe /\ p + 1 \in Nat
  BY <1>1, <1>2
<1>4. PICK q \in p + 1 .. pe, d \in {count'} :
        /\ p' = q /\ count' = d
        /\ Keeps(count, d, q)
        /\ \A i \in p .. q - 1 : At(i) = "nl" => Told(d.out, i)
  <2>1. CASE Spaces
    <3>1. PICK q \in p + 1 .. pe : /\ \A i \in p .. q - 1 : At(i) = "ws"
                                   /\ p' = q /\ count' = Ls(count, p)
      BY <1>2, <2>1 DEF Spaces, Token
    <3>2. Keeps(count, Ls(count, p), p) /\ q \in Nat /\ p <= q
      BY <1>2, MarkedKeeps
    <3>3. Keeps(count, Ls(count, p), q)
      BY <1>2, <3>2, KeepsMore
    <3>4. QED
      BY <3>1, <3>3
  <2>2. CASE Newline
    <3>1. p' = p + 1 /\ count' = StdNewline(count, p, p + 1)
      BY <2>2 DEF Newline, Token
    <3>2. QED
      BY <1>2, <1>3, <3>1, StdNewlineKeeps
  <2>3. CASE AnyChar
    <3>1. p' = p + 1 /\ count' = Code(count, p) /\ At(p) # "nl"
      BY <1>2, <2>3 DEF AnyChar, Token
    <3>2. Keeps(count, Code(count, p), p + 1)
      BY <1>2, <1>3, MarkedKeeps, KeepsMore
    <3>3. \A i \in p .. (p + 1) - 1 : i = p
      BY <1>2
    <3>4. QED
      BY <1>3, <3>1, <3>2, <3>3
  <2>4. QED
    BY <2>1, <2>2, <2>3
<1>5. QED
  BY <1>1, <1>4, PlainToken

LEMMA OpenRegionPlain ==
  ASSUME EmbInv, LangInv, PageAccount, Plain, OpenRegion, Scanning, ReadIn({lang}),
         UNCHANGED page
  PROVE  PageAccount'
<1>1. /\ Outside /\ p < pe /\ UNCHANGED <<text, pc, leaving, page, lang>>
      /\ ts' = p /\ p' = p + 1 /\ entity' = "any" /\ (Embedding \/ page = NoPage)
  BY DEF OpenRegion, Scanning
<1>2. /\ Sound(count) /\ ~count.inqueue /\ StartsBy(count.line, p) /\ p \in Nat /\ pe \in Nat
      /\ pc = "scan" /\ region = NoRegion
  BY <1>1, BetweenTokens DEF Outside
<1>3. PICK r \in Grammar :
        /\ At(p) = r.open /\ region' = r
        /\ count' = Mark(IF r.enqueue THEN Enqueue(count) ELSE count, r.mark, p)
  BY DEF OpenRegion
<1>. DEFINE d == Mark(count, r.mark, p)
<1>4. r \in RegionType /\ r.mark \in Marks /\ r.open # "nl"
  BY ScannersAssumption DEF EmbInv, TypeInv, TypeOK, Grammar, RegionType
<1>5. ~r.enqueue
  BY DEF Plain, LangInv, Grammar
<1>6. count' = d
  BY <1>3, <1>5
<1>7. Keeps(count, d, p)
  BY <1>2, <1>4, MarkSound, MarkBegins, BeginsKeeps
<1>. HIDE DEF d
<1>8. p + 1 \in Nat /\ p + 1 \in 0 .. pe /\ p <= p + 1 /\ (p + 1) - 1 = p
  BY <1>1, <1>2
<1>9. Keeps(count, d, p + 1)
  BY <1>2, <1>7, <1>8, KeepsMore
<1>10. ~Leaving /\ ~Leaving'
  <2>1. page = NoPage => ~page.leaving
    BY DEF NoPage
  <2>2. Embedding => ~page.leaving
    BY DEF EmbInv, PageInv
  <2>3. ~leaving
    BY <1>2 DEF EmbInv, TypeInv, ReadingInv
  <2>4. QED
    BY <1>1, <2>1, <2>2, <2>3 DEF Leaving
<1>11. \A i \in 0 .. p - 1 : i < p + 1 /\ Owed(i) => Told(d.out, i)
  BY <1>7, <1>10 DEF Keeps, PageAccount
<1>12. \A i \in p .. (p + 1) - 1 : At(i) # "nl"
  BY <1>2, <1>3, <1>4
<1>13. \A i \in 0 .. (p + 1) - 1 : Owed(i)' => Told(d.out, i)
  BY <1>1, <1>2, <1>8, <1>11, <1>12, AccountRead
<1>14. At(ts)' # "nl"
  BY <1>1, <1>3, <1>4 DEF At
<1>15. QED
  BY <1>1, <1>6, <1>7, <1>8, <1>9, <1>13, <1>14 DEF PageAccount, Keeps

LEMMA ReadRegionPlain ==
  ASSUME EmbInv, LangInv, PageAccount, Plain, ReadRegion, Scanning, ReadIn({lang}),
         UNCHANGED page
  PROVE  PageAccount'
<1>. DEFINE c == Leave(count)
<1>1. /\ Within /\ RoleHere \notin {"stop", "close"} /\ p' = p + 1
      /\ UNCHANGED <<lang, text, file, pc, ts, region, page>>
      /\ entity' = EntityLeft /\ leaving' = (RoleHere = "newline")
      /\ Embedding \/ page = NoPage
  BY DEF ReadRegion, Scanning
<1>2. /\ region \in RegionType /\ p \in Nat /\ pe \in Nat /\ p \in 0 .. pe /\ p # pe
      /\ ts \in Nat /\ ts < p /\ pc = "scan"
  BY <1>1, RegionTyped DEF EmbInv, TypeInv, TypeOK, Within, RoleHere, pe, ReadingInv
<1>3. PICK m \in Marks : count' = Mark(c, m, ts)
  <2>1. region.inner \in Marks /\ region.blank \in Marks /\ "none" \in Marks
    BY <1>2 DEF RegionType, Marks
  <2>2. RoleHere \in {"newline", "inner", "unnest", "nest", "escape", "blank"}
    BY <1>1, <1>2, RoleTyped DEF RoleHere, EmbInv, TypeInv, TypeOK
  <2>3. QED
    BY <2>1, <2>2 DEF ReadRegion
<1>4. /\ Keeps(count, c, p)
      /\ \A i \in 0 .. p - 1 : Owed(i) => Told(c.out, i)
      /\ EntityLeft # "internal" => StartsBy(c.line, ts)
  BY <1>1, LeaveKeeps
<1>. DEFINE d == Mark(c, m, ts)
<1>5. Sound(d) /\ Begins(c, d, ts) /\ c.inqueue \in BOOLEAN
  BY <1>2, <1>4, MarkSound, MarkBegins, SoundParts DEF Keeps
<1>. HIDE DEF c, d
<1>6. Keeps(c, d, p) /\ d.out = c.out
  BY <1>2, <1>4, <1>5, BeginsKeeps DEF Keeps, Begins
<1>7. EntityLeft # "internal" => StartsBy(d.line, ts)
  BY <1>2, <1>4, <1>5 DEF Begins, StartsBy
<1>8. p + 1 \in Nat /\ p + 1 \in 0 .. pe /\ p <= p + 1 /\ (p + 1) - 1 = p
  BY <1>2
<1>9. StartsBy(d.line, p) /\ StartsBy(d.line, p + 1) /\ ~d.inqueue
  BY <1>2, <1>6, <1>8, KeepsMore DEF Keeps
<1>10. At(p) = "nl" /\ Notices(lang) => leaving'
  <2>1. region \in Scanners[lang]
    BY <1>1 DEF EmbInv, TypeInv, TypeOK, Within, Grammar
  <2>2. Notices(lang) => "raw" \notin region.newline
    BY <2>1 DEF Notices
  <2>3. RoleHere = Role(region, escaped, nest, At(p))
    BY <1>2 DEF RoleHere
  <2>4. QED
    BY <1>1, <1>2, <2>2, <2>3, NewlineRoles
<1>11. \A i \in 0 .. (p + 1) - 1 : Owed(i)' => Told(d.out, i) \/ (leaving' /\ i = (p + 1) - 1)
  <2>. DEFINE q == p + 1
  <2>1. PICK l \in BOOLEAN : leaving' = l
    BY <1>1
  <2>2. \A i \in 0 .. p - 1 : i < q /\ Owed(i) => Told(d.out, i)
    BY <1>4, <1>6
  <2>3. \A i \in p .. q - 1 :
          At(i) = "nl" /\ (\A g \in {lang} : Notices(g)) => Told(d.out, i) \/ (l /\ i = q - 1)
    <3>1. \A i \in p .. q - 1 : i = p
      BY <1>2
    <3>2. q - 1 = p
      BY <1>2
    <3>3. QED
      BY <1>10, <2>1, <3>1, <3>2
  <2>4. q \in 0 .. pe /\ p' = q
    BY <1>1, <1>8
  <2>. HIDE DEF q
  <2>5. \A i \in 0 .. q - 1 : Owed(i)' => Told(d.out, i) \/ (l /\ i = q - 1)
    BY <1>1, <1>2, <2>2, <2>3, <2>4, AccountRead
  <2>6. QED
    BY <2>1, <2>5 DEF q
<1>12. At(ts)' # "nl" /\ (entity' # "internal" => StartsBy(d.line, ts'))
  BY <1>1, <1>7 DEF PageAccount, At
<1>13. count' = d
  BY <1>3 DEF d
<1>14. QED
  BY <1>13, <1>1, <1>8, <1>9, <1>11, <1>12 DEF PageAccount, Leaving

\* What a step that ends a region leaves to show.
LEMMA RegionLeft ==
  ASSUME EmbInv, LangInv, PageAccount, Within, Embedding \/ page = NoPage, ReadIn({lang}),
         NEW q \in 0 .. pe, NEW d, p' = q, count' = d, UNCHANGED <<lang, text, pc, page>>,
         ~leaving', region' = NoRegion, Keeps(count, d, q),
         \A i \in 0 .. p - 1 : i < q /\ Owed(i) => Told(d.out, i),
         \A i \in p .. q - 1 : At(i) # "nl"
  PROVE  PageAccount'
<1>1. p \in Nat /\ pe \in Nat /\ pc = "scan"
  BY DEF EmbInv, TypeInv, TypeOK, pe, Within
<1>2. \A i \in 0 .. q - 1 : Owed(i)' => Told(d.out, i)
  BY <1>1, AccountRead
<1>3. ~InPage' /\ ~Within'
  BY DEF InPage, InHost, Within, Embedding
<1>4. QED
  BY <1>2, <1>3 DEF PageAccount, Keeps

LEMMA RegionParts ==
  ASSUME EmbInv, PageAccount, Within
  PROVE  /\ region \in RegionType /\ p \in Nat /\ pe \in Nat /\ p \in 0 .. pe
         /\ ts \in Nat /\ ts < p /\ pc = "scan" /\ file \in 1 .. NFiles
         /\ Sound(count) /\ ~count.inqueue /\ At(ts) # "nl"
         /\ region.newline # {} => count.line.start # NULL
<1>1. region \in RegionType /\ (region.newline # {} => region.mark # "none")
  BY RegionTyped DEF EmbInv, TypeInv, TypeOK, Within
<1>2. QED
  BY <1>1 DEF EmbInv, TypeInv, TypeOK, Within, pe, ReadingInv, PageAccount

LEMMA CloseRegionPlain ==
  ASSUME EmbInv, LangInv, PageAccount, CloseRegion, Scanning, ReadIn({lang}), UNCHANGED page
  PROVE  PageAccount'
<1>. DEFINE c == Leave(count)
            d == Mark(c, region.last, ts)
<1>1. /\ Within /\ RoleHere = "close" /\ p' = p + 1 /\ ~leaving' /\ region' = NoRegion
      /\ UNCHANGED <<lang, text, pc, page>> /\ (Embedding \/ page = NoPage)
  BY DEF CloseRegion, Scanning, LeaveRegion
<1>2. /\ region \in RegionType /\ p \in Nat /\ pe \in Nat /\ p \in 0 .. pe
      /\ ts \in Nat /\ ts < p /\ region.last \in Marks
  BY <1>1, RegionParts DEF RegionType
<1>3. p # pe /\ At(p) # "nl"
  <2>1. Role(region, escaped, nest, At(p)) = "close" /\ p # pe
    BY <1>1 DEF RoleHere
  <2>2. QED
    BY <1>2, <2>1, NewlineRoles
<1>4. /\ Keeps(count, c, p)
      /\ \A i \in 0 .. p - 1 : Owed(i) => Told(c.out, i)
  BY <1>1, LeaveKeeps
<1>5. count' = d
  <2>1. Commit(c) = c
    BY <1>4, DequeueIdle DEF Keeps
  <2>2. QED
    BY <2>1 DEF CloseRegion, LeaveRegion
<1>. HIDE DEF c
<1>6. Sound(d) /\ Begins(c, d, ts)
  BY <1>2, <1>4, MarkSound, MarkBegins DEF Keeps
<1>. HIDE DEF d
<1>7. Keeps(c, d, p) /\ d.out = c.out
  BY <1>2, <1>4, <1>6, BeginsKeeps DEF Keeps, Begins
<1>8. p + 1 \in Nat /\ p + 1 \in 0 .. pe /\ p <= p + 1 /\ \A i \in p .. (p + 1) - 1 : i = p
  BY <1>2, <1>3
<1>9. Keeps(count, d, p + 1)
  BY <1>2, <1>4, <1>7, <1>8, KeepsTwice, KeepsMore
<1>10. QED
  BY <1>1, <1>3, <1>4, <1>5, <1>7, <1>8, <1>9, RegionLeft

LEMMA EndLineCommentPlain ==
  ASSUME EmbInv, LangInv, PageAccount, EndLineComment, Scanning, ReadIn({lang}),
         UNCHANGED page
  PROVE  PageAccount'
<1>. DEFINE c == Leave(count)
<1>1. /\ Within /\ p' = p /\ ~leaving' /\ region' = NoRegion /\ count' = c
      /\ UNCHANGED <<lang, text, pc, page>> /\ (Embedding \/ page = NoPage)
  BY DEF EndLineComment, Scanning, LeaveRegion
<1>2. p \in Nat /\ pe \in Nat /\ p \in 0 .. pe
  BY <1>1, RegionParts
<1>3. /\ Keeps(count, c, p)
      /\ \A i \in 0 .. p - 1 : Owed(i) => Told(c.out, i)
  BY <1>1, LeaveKeeps
<1>. HIDE DEF c
<1>4. \A i \in p .. p - 1 : FALSE
  BY <1>2
<1>5. QED
  BY <1>1, <1>2, <1>3, <1>4, RegionLeft

LEMMA BacktrackPlain ==
  ASSUME EmbInv, LangInv, PageAccount, Backtrack, Scanning, ReadIn({lang}), UNCHANGED page
  PROVE  PageAccount'
<1>1. /\ Within /\ p' = ts + 1 /\ ~leaving' /\ region' = NoRegion
      /\ count' = IF entity = "internal"
                  THEN RestOfDelimiter(InternalNewline(count, ts))
                  ELSE Code(Dequeue(count), ts)
      /\ UNCHANGED <<lang, text, pc, page>> /\ (Embedding \/ page = NoPage)
  BY DEF Backtrack, Scanning, LeaveRegion
<1>2. /\ p \in Nat /\ pe \in Nat /\ p \in 0 .. pe /\ ts \in Nat /\ ts < p
      /\ Sound(count) /\ ~count.inqueue /\ At(ts) # "nl" /\ file \in 1 .. NFiles
      /\ Dequeue(count) = count
  BY <1>1, RegionParts, DequeueIdle
<1>3. PICK d : count' = d /\ Keeps(count, d, ts)
  <2>1. CASE entity = "internal"
    <3>. DEFINE c == InternalNewline(count, ts)
    <3>1. count.line.start # NULL
      BY <1>1, <2>1, RegionParts DEF EmbInv, TypeInv, ReadingInv
    <3>2. Sound(c) /\ c.line.start = ts /\ c.inqueue = count.inqueue
          /\ \A i : Told(count.out, i) => Told(c.out, i)
      BY <1>2, <3>1, InternalNewlineSound, InternalNewlineParts, InternalNewlineTells
    <3>. HIDE DEF c
    <3>3. Keeps(count, c, ts) /\ Dequeue(c) = c
      BY <1>2, <3>2, DequeueIdle DEF Keeps, StartsBy
    <3>4. Keeps(count, Code(c, ts), ts)
      BY <1>2, <3>3, MarkedKeeps, KeepsTwice DEF Keeps
    <3>5. RestOfDelimiter(c) \in {c, Code(c, ts)}
      BY <3>3 DEF RestOfDelimiter
    <3>6. Keeps(count, RestOfDelimiter(c), ts)
      BY <3>3, <3>4, <3>5
    <3>7. QED
      BY <1>1, <2>1, <3>6 DEF c
  <2>2. CASE entity # "internal"
    <3>1. StartsBy(count.line, ts)
      BY <1>1, <2>2 DEF PageAccount
    <3>2. Keeps(count, Code(count, ts), ts)
      BY <1>2, <3>1, MarkedKeeps
    <3>3. QED
      BY <1>1, <1>2, <2>2, <3>2
  <2>3. QED
    BY <2>1, <2>2
<1>4. ts + 1 \in Nat /\ ts + 1 \in 0 .. pe /\ ts <= ts + 1 /\ ts + 1 <= p
  BY <1>2
<1>5. Keeps(count, d, ts + 1)
  BY <1>2, <1>3, <1>4, KeepsMore
<1>6. \A i \in p .. (ts + 1) - 1 : FALSE
  BY <1>2, <1>4
<1>7. \A i \in 0 .. p - 1 : i < ts + 1 /\ Owed(i) => Told(d.out, i)
  <2>. SUFFICES ASSUME NEW i \in 0 .. p - 1, i < ts + 1, Owed(i)
                PROVE  Told(count.out, i)
    BY <1>3 DEF Keeps
  <2>1. i # ts
    BY <1>2 DEF Owed
  <2>2. i # p - 1
    BY <1>2, <2>1
  <2>3. QED
    BY <2>2 DEF PageAccount
<1>8. QED
  BY <1>1, <1>3, <1>4, <1>5, <1>6, <1>7, RegionLeft

LEMMA ScanPlain ==
  ASSUME EmbInv, LangInv, PageAccount, Plain, Scan \/ EndLine
  PROVE  PageAccount'
<1>1. Scanning /\ UNCHANGED page /\ ReadIn({lang})
  BY DEF Scan, EndLine, Recorded, ReadIn
<1>2. \/ Spaces \/ Newline \/ AnyChar \/ OpenRegion \/ ReadRegion
      \/ CloseRegion \/ EndLineComment \/ Backtrack
  BY DEF Scan, EndLine
<1>3. QED
  BY <1>1, <1>2, TokenAccount, OpenRegionPlain, ReadRegionPlain, CloseRegionPlain,
     EndLineCommentPlain, BacktrackPlain

-----------------------------------------------------------------------------
(* Entries and outries.                                                    *)

LEMMA NoNewlineDoor ==
  ASSUME Host \in DOMAIN Hosts, NEW e \in Entries
  PROVE  e.open # "nl" /\ "nl" \notin e.outries
  BY HostsAssumption DEF Entries

LEMMA EnterPlain ==
  ASSUME EmbInv, LangInv, PageAccount, Enter
  PROVE  PageAccount'
<1>1. /\ InHost /\ page = NoPage /\ Outside /\ p < pe
      /\ UNCHANGED <<text, pc, region, leaving, page>>
  BY DEF Enter, Scanning, InHost
<1>2. /\ Sound(count) /\ ~count.inqueue /\ StartsBy(count.line, p) /\ p \in Nat /\ pe \in Nat
      /\ file \in 1 .. NFiles /\ Host \in DOMAIN Hosts
  BY <1>1, BetweenTokens, InHostParts DEF Outside
<1>. DEFINE c == Code(count, p)
<1>3. Keeps(count, c, p)
  BY <1>2, MarkedKeeps
<1>4. PICK e \in Entries :
         /\ At(p) = e.open /\ ReadIn({lang, e.lang})
         /\ \/ count' = Saw(c) /\ p' = p + 1
            \/ \E n \in NewlineBehind(p + 1) :
                 count' = Saw(StdNewline(c, p, n + 1)) /\ p' = n + 1
  BY DEF Enter, c, CheckBlankEntry, Recorded, ReadIn
<1>. HIDE DEF c
<1>5. PICK q \in p + 1 .. pe, d \in {count'} :
        /\ p' = q /\ count' = d /\ Keeps(count, d, q)
        /\ \A i \in p .. q - 1 : At(i) = "nl" => Told(d.out, i)
  <2>1. CASE count' = Saw(c) /\ p' = p + 1
    <3>1. Keeps(count, Saw(c), p)
      BY <1>3, SawKeeps
    <3>2. p + 1 \in Nat /\ p + 1 \in p + 1 .. pe /\ p <= p + 1
          /\ \A i \in p .. (p + 1) - 1 : i = p
      BY <1>1, <1>2
    <3>3. Keeps(count, Saw(c), p + 1)
      BY <1>2, <3>1, <3>2, KeepsMore
    <3>4. At(p) # "nl"
      BY <1>2, <1>4, NoNewlineDoor
    <3>5. QED
      BY <2>1, <3>2, <3>3, <3>4
  <2>2. CASE \E n \in NewlineBehind(p + 1) :
                 count' = Saw(StdNewline(c, p, n + 1)) /\ p' = n + 1
    <3>1. PICK n \in p + 1 .. pe - 1 : count' = Saw(StdNewline(c, p, n + 1)) /\ p' = n + 1
      BY <2>2 DEF NewlineBehind
    <3>2. n + 1 \in Nat /\ p < n + 1 /\ n + 1 \in p + 1 .. pe
      BY <1>2
    <3>. DEFINE d == StdNewline(c, p, n + 1)
    <3>3. Keeps(c, d, n + 1) /\ \A i \in p .. (n + 1) - 1 : Told(d.out, i)
      BY <1>2, <1>3, <3>2, StdNewlineKeeps DEF Keeps
    <3>. HIDE DEF d
    <3>4. Keeps(count, Saw(d), n + 1) /\ Saw(d).out = d.out
      BY <1>3, <3>3, KeepsTwice, SawKeeps
    <3>5. QED
      BY <3>1, <3>2, <3>3, <3>4 DEF d
  <2>3. QED
    BY <1>4, <2>1, <2>2
<1>6. page' = NoPage
  BY <1>1
<1>7. QED
  BY <1>1, <1>4, <1>5, <1>6, PlainToken

\* What a step from p to p + 1 in or into a page leaves to show.
LEMMA PageRead ==
  ASSUME EmbInv, LangInv, PageAccount, pc = "scan", region = NoRegion, p < pe,
         NEW ls, ReadIn(ls), NEW d, count' = d, p' = p + 1,
         UNCHANGED <<text, pc, region, leaving>>, NEW l \in BOOLEAN, page'.leaving = l,
         Keeps(count, d, p), \A i \in 0 .. p - 1 : Owed(i) => Told(d.out, i),
         At(p) = "nl" => l
  PROVE  PageAccount'
<1>1. /\ p \in Nat /\ pe \in Nat /\ p + 1 \in Nat /\ p + 1 \in 0 .. pe /\ p <= p + 1
      /\ (p + 1) - 1 = p /\ \A i \in p .. (p + 1) - 1 : i = p
  BY BetweenTokens
<1>2. ~leaving
  BY DEF EmbInv, TypeInv, ReadingInv
<1>3. \A i \in 0 .. (p + 1) - 1 : Owed(i)' => Told(d.out, i) \/ (l /\ i = (p + 1) - 1)
  <2>1. \A i \in p .. (p + 1) - 1 :
          At(i) = "nl" /\ (\A m \in ls : Notices(m)) => Told(d.out, i) \/ (l /\ i = (p + 1) - 1)
    BY <1>1
  <2>2. QED
    BY <1>1, <2>1, AccountRead
<1>4. Keeps(count, d, p + 1)
  BY <1>1, KeepsMore
<1>5. ~Within'
  BY DEF Within
<1>6. Leaving' = l
  BY <1>2 DEF Leaving
<1>7. QED
  BY <1>1, <1>3, <1>4, <1>5, <1>6 DEF PageAccount, Keeps

LEMMA NotLeaving ==
  ASSUME EmbInv, region = NoRegion, Embedding \/ page = NoPage
  PROVE  ~leaving /\ ~page.leaving
<1>1. page = NoPage => ~page.leaving
  BY DEF NoPage
<1>2. Embedding => ~page.leaving
  BY DEF EmbInv, PageInv
<1>3. ~leaving
  BY DEF EmbInv, TypeInv, ReadingInv
<1>4. QED
  BY <1>1, <1>2, <1>3

LEMMA HostMarkKeeps ==
  ASSUME EmbInv, NEW c, Sound(c), ~c.inqueue, NEW x \in Nat, StartsBy(c.line, x),
         page # NoPage => c.line.start # NULL
  PROVE  Keeps(c, HostMark(c, x), x)
<1>1. Dequeue(c) = c
  BY DequeueIdle
<1>2. page # NoPage => page.open \in {"<!--", "'", "\""}
  BY DEF EmbInv, PageInv
<1>3. Keeps(c, Code(c, x), x)
  BY MarkedKeeps
<1>4. CASE page = NoPage
  BY <1>1, <1>3, <1>4 DEF HostMark, NoPage
<1>5. CASE page # NoPage
  <2>1. Code(c, x) = Code(c, 0) /\ Comment(c, x) = Comment(c, 0)
    BY <1>5, MarkFromAnywhere
  <2>2. /\ Sound(Code(c, 0)) /\ Begins(c, Code(c, 0), 0)
        /\ Sound(Comment(c, 0)) /\ Begins(c, Comment(c, 0), 0)
    BY CodeSound, CodeBegins, CommentSound, CommentBegins
  <2>3. Keeps(c, Code(c, x), x) /\ Keeps(c, Comment(c, x), x)
    BY <2>1, <2>2, BeginsKeeps
  <2>4. CASE page.open = "<!--"
    BY <1>5, <2>3, <2>4 DEF HostMark
  <2>5. CASE page.open \in {"'", "\""}
    BY <1>5, <2>3, <2>5 DEF HostMark
  <2>6. QED
    BY <1>2, <1>5, <2>4, <2>5
<1>6. QED
  BY <1>4, <1>5

LEMMA OutryPlain ==
  ASSUME AllCoded, EmbInv, LangInv, PageAccount, Outry
  PROVE  PageAccount'
<1>. DEFINE c == Code(count, p)
            d == HostMark(c, p)
<1>1. /\ Embedding /\ Outside /\ pc = "scan" /\ region = NoRegion /\ p < pe /\ p' = p + 1
      /\ ReadIn({lang, Host}) /\ UNCHANGED <<text, pc, region, leaving, page>>
  BY DEF Outry, Outside, Recorded, ReadIn
<1>2. /\ Sound(count) /\ ~count.inqueue /\ StartsBy(count.line, p) /\ p \in Nat
  BY <1>1, BetweenTokens
<1>3. Host \in DOMAIN Hosts
  BY <1>1 DEF EmbInv, StackInv, Host
<1>4. PICK e \in Entries :
         /\ At(p) \in e.outries
         /\ count' = IF At(p) \in e.alone
                     THEN IF At(p) \in e.coded THEN c ELSE count
                     ELSE HostMark(IF At(p) \in e.coded THEN c ELSE count, p)
  BY DEF Outry
<1>5. At(p) # "nl" /\ At(p) \in e.coded
  BY <1>3, <1>4, NoNewlineDoor DEF AllCoded, Entries
<1>6. Keeps(count, c, p) /\ c.line.start # NULL
  BY <1>2, MarkedKeeps, CodeSound
<1>7. count' \in {c, d}
  BY <1>4, <1>5
<1>. HIDE DEF c
<1>8. Keeps(c, d, p)
  BY <1>2, <1>6, HostMarkKeeps DEF Keeps
<1>. HIDE DEF d
<1>9. Keeps(count, d, p)
  BY <1>6, <1>8, KeepsTwice
<1>10. PICK g : count' = g /\ Keeps(count, g, p)
  BY <1>6, <1>7, <1>9
<1>11. ~leaving /\ ~page.leaving
  BY <1>1, NotLeaving
<1>12. \A i \in 0 .. p - 1 : Owed(i) => Told(g.out, i)
  BY <1>10, <1>11 DEF PageAccount, Leaving, Keeps
<1>13. page'.leaving = FALSE
  BY <1>1, <1>11, NoPageType DEF EmbInv, PageInv, PageType
<1>14. QED
  BY <1>1, <1>5, <1>10, <1>12, <1>13, PageRead

-----------------------------------------------------------------------------
(* The comments and strings of pages.                                      *)

LEMMA OpenPagePlain ==
  ASSUME EmbInv, LangInv, PageAccount, OpenPage
  PROVE  PageAccount'
<1>1. /\ pc = "scan" /\ region = NoRegion /\ page = NoPage /\ p < pe /\ p' = p + 1
      /\ At(p) # "nl" /\ page' = [NoPage EXCEPT !.open = At(p)]
      /\ count' \in {Code(count, p), Comment(count, p)}
      /\ ReadIn({lang}) /\ UNCHANGED <<text, pc, region, leaving>>
  BY DEF OpenPage, InHost, Scanning, Outside, PageOpeners, Recorded, ReadIn
<1>2. /\ Sound(count) /\ ~count.inqueue /\ StartsBy(count.line, p) /\ p \in Nat
  BY <1>1, BetweenTokens
<1>3. PICK d : count' = d /\ Keeps(count, d, p)
  BY <1>1, <1>2, MarkedKeeps
<1>4. ~leaving /\ ~page.leaving
  BY <1>1, NotLeaving
<1>5. \A i \in 0 .. p - 1 : Owed(i) => Told(d.out, i)
  BY <1>3, <1>4 DEF PageAccount, Leaving, Keeps
<1>6. page'.leaving = FALSE
  BY <1>1 DEF NoPage
<1>7. QED
  BY <1>1, <1>3, <1>5, <1>6, PageRead

\* What a symbol of a page leaves of the counting globals.
LEMMA PageCount ==
  ASSUME EmbInv, PageAccount, InPage, p < pe,
         NEW d \in {PageLeave(count), PageMark(PageLeave(count)),
                    Saw(PageMark(PageLeave(count)))}
  PROVE  /\ Keeps(count, d, p)
         /\ \A i \in 0 .. p - 1 : Owed(i) => Told(d.out, i)
<1>. DEFINE c == PageLeave(count)
            m == PageMark(c)
<1>1. /\ Keeps(count, c, p) /\ c.line.start # NULL
      /\ \A i \in 0 .. p - 1 : Owed(i) => Told(c.out, i)
  BY PageLeaveKeeps, PageLeaveSound
<1>2. p \in Nat
  BY InHostParts DEF InPage
<1>. HIDE DEF c
<1>3. Keeps(c, m, p) /\ m.out = c.out
  BY <1>1, <1>2, PageMarkKeeps DEF Keeps
<1>. HIDE DEF m
<1>4. Keeps(count, m, p)
  BY <1>1, <1>3, KeepsTwice
<1>5. Keeps(count, Saw(m), p) /\ Saw(m).out = m.out
  BY <1>4, SawKeeps
<1>6. d \in {c, m, Saw(m)}
  BY DEF c, m
<1>7. QED
  BY <1>1, <1>3, <1>4, <1>5, <1>6

LEMMA PageStepPlain ==
  ASSUME EmbInv, LangInv, PageAccount, InPage, p < pe, NEW next,
         NEW d \in {PageLeave(count), PageMark(PageLeave(count)),
                    Saw(PageMark(PageLeave(count)))},
         PageStep(d, next), NEW ls, ReadIn(ls), NEW l \in BOOLEAN, next.leaving = l,
         At(p) = "nl" => l
  PROVE  PageAccount'
<1>1. /\ count' = d /\ page' = next /\ p' = p + 1 /\ pc = "scan"
      /\ UNCHANGED <<text, pc, region, leaving>>
  BY DEF PageStep, InPage, InHost
<1>2. region = NoRegion
  BY DEF EmbInv, PageInv, InPage, InHost
<1>3. /\ Keeps(count, d, p)
      /\ \A i \in 0 .. p - 1 : Owed(i) => Told(d.out, i)
  BY PageCount
<1>4. page'.leaving = l
  BY <1>1
<1>5. QED
  BY <1>1, <1>2, <1>3, <1>4, PageRead

LEMMA ReadPagePlain ==
  ASSUME EmbInv, LangInv, PageAccount, ReadPage \/ ClosePage \/ EnterFromPage
  PROVE  PageAccount'
<1>1. InPage /\ p < pe /\ page \in PageType
  BY DEF ReadPage, ClosePage, EnterFromPage, EmbInv, PageInv
<1>2. CASE ReadPage
  <2>. DEFINE s == At(p)
              string == page.open # "<!--"
              t == page.tagged \/ (s \in Tags /\ ~Escaped)
              x == s = "bs" /\ string /\ ~Escaped
              l == s = "nl"
              next == [page EXCEPT !.tagged = t, !.escaped = x, !.leaving = l]
  <2>1. l \in BOOLEAN /\ ReadIn({lang})
    BY <1>2 DEF ReadPage, Recorded, ReadIn
  <2>2. PICK d \in {PageLeave(count), PageMark(PageLeave(count))} : PageStep(d, next)
    BY <1>2 DEF ReadPage
  <2>. HIDE DEF t, x
  <2>3. next.leaving = l
    BY <1>1 DEF PageType
  <2>. HIDE DEF next
  <2>4. QED
    BY <1>1, <2>1, <2>2, <2>3, PageStepPlain
<1>3. CASE ClosePage
  <2>1. ReadIn({lang}) /\ At(p) = PageClose
    BY <1>3 DEF ClosePage, Recorded, ReadIn
  <2>2. PICK d \in {PageLeave(count), PageMark(PageLeave(count))} : PageStep(d, NoPage)
    BY <1>3 DEF ClosePage
  <2>3. At(p) # "nl"
    BY <1>1, <2>1 DEF PageClose, EmbInv, PageInv, InPage
  <2>4. NoPage.leaving = FALSE
    BY DEF NoPage
  <2>5. QED
    BY <1>1, <2>1, <2>2, <2>3, <2>4, PageStepPlain
<1>4. CASE EnterFromPage
  <2>. DEFINE next == [page EXCEPT !.tagged = TRUE, !.escaped = FALSE, !.leaving = FALSE]
  <2>1. PICK e \in Entries :
           /\ At(p) = e.open /\ ReadIn({lang, e.lang})
           /\ PageStep(Saw(PageMark(PageLeave(count))), next)
    BY <1>4 DEF EnterFromPage, Recorded, ReadIn
  <2>2. At(p) # "nl"
    BY <1>1, <2>1, InHostParts, NoNewlineDoor DEF InPage
  <2>3. next.leaving = FALSE
    BY <1>1 DEF PageType
  <2>. HIDE DEF next
  <2>4. QED
    BY <1>1, <2>1, <2>2, <2>3, PageStepPlain
<1>5. QED
  BY <1>2, <1>3, <1>4

-----------------------------------------------------------------------------
(* The ends of files.                                                      *)

LEMMA LastLineTells ==
  ASSUME NEW c, Sound(c), pe \in Nat, file \in 1 .. NFiles
  PROVE  /\ \A i : Told(c.out, i) => Told(LastLine(c).out, i)
         /\ LastLine(c).inqueue = c.inqueue
<1>. DEFINE item == Callback(Kind(c.line), c.line.start, pe)
<1>1. CASE Kind(c.line) = "lblank"
  BY <1>1 DEF LastLine
<1>2. CASE Kind(c.line) # "lblank"
  <2>1. c.line.start \in Nat
    BY <1>2, SaysStarted, SoundParts DEF Sound, CountType
  <2>2. item \in CallbackType
    BY <2>1, CallbackTyped DEF Sound, CountType
  <2>3. LastLine(c).out = Append(c.out, item) /\ LastLine(c).inqueue = c.inqueue
    BY <1>2 DEF LastLine, Sound, CountType
  <2>. HIDE DEF item
  <2>4. QED
    BY <2>2, <2>3, AppendTells, SoundParts
<1>3. QED
  BY <1>1, <1>2

LEMMA StopInPagePlain ==
  ASSUME EmbInv, LangInv, PageAccount, StopInPage
  PROVE  PageAccount'
<1>. DEFINE c == PageLeave(count)
            d == LastLine(c)
<1>1. /\ InPage /\ p < pe /\ count' = d /\ pc' = "parsed"
      /\ UNCHANGED <<text, p, by>>
  BY DEF StopInPage
<1>2. /\ Keeps(count, c, p) /\ pe \in Nat /\ file \in 1 .. NFiles
      /\ \A i \in 0 .. p - 1 : Owed(i) => Told(c.out, i)
  BY <1>1, PageLeaveKeeps, InHostParts DEF InPage
<1>. HIDE DEF c
<1>3. ~d.inqueue /\ \A i \in 0 .. p - 1 : Owed(i) => Told(d.out, i)
  BY <1>2, LastLineTells DEF Keeps
<1>. HIDE DEF d
<1>4. \A i : Owed(i)' <=> Owed(i)
  BY <1>1 DEF Owed, At
<1>5. QED
  BY <1>1, <1>3, <1>4 DEF PageAccount, InPage, InHost, Within

LEMMA EndPlain ==
  ASSUME EmbInv, LangInv, PageAccount, EmbEndOfText
  PROVE  PageAccount'
<1>. DEFINE d == LastLine(count)
<1>1. /\ count' = d /\ pc' = "parsed" /\ UNCHANGED <<text, p, page, leaving>>
      /\ by' = [i \in DOMAIN by |-> IF p < i /\ i <= p' THEN {} ELSE by[i]]
  BY DEF EmbEndOfText, EndOfText, Recorded
<1>2. ~d.inqueue /\ \A i : Told(count.out, i) => Told(d.out, i)
  BY LastLineTells DEF EmbInv, TypeInv, TypeOK, pe, PageAccount
<1>. HIDE DEF d
<1>3. \A i \in 0 .. p - 1 : by'[i + 1] = by[i + 1]
  BY <1>1 DEF EmbInv, TypeInv, TypeOK, pe, LangInv
<1>4. \A i \in 0 .. p - 1 : Owed(i)' => Owed(i)
  BY <1>1, <1>3 DEF Owed, At
<1>5. QED
  BY <1>1, <1>2, <1>4 DEF PageAccount, Leaving, InPage, InHost, Within

LEMMA StartPlain ==
  ASSUME EmbInv, EmbNextFile
  PROVE  PageAccount'
<1>1. /\ p' = 0 /\ count' = StartFile(count) /\ page' = NoPage /\ region' = NoRegion
  BY DEF EmbNextFile, NextFile, EmbInv, TypeInv, ReadingInv
<1>2. /\ StartFile(count).line.start = NULL /\ StartFile(count).inqueue = FALSE
  BY DEF StartFile, NoLine, EmbInv, TypeInv, Sound, CountType
<1>3. \A i \in 0 .. 0 - 1 : FALSE
  OBVIOUS
<1>4. QED
  BY <1>1, <1>2, <1>3 DEF PageAccount, StartsBy, InPage, Within

LEMMA PlainInit == EmbInit => PlainInv
<1>. SUFFICES ASSUME EmbInit PROVE PlainInv
  OBVIOUS
<1>1. /\ p = 0 /\ count.line.start = NULL /\ count.inqueue = FALSE /\ page = NoPage
      /\ region = NoRegion
  BY DEF EmbInit, Init, CountInit, NoLine
<1>2. \A i \in 0 .. 0 - 1 : FALSE
  OBVIOUS
<1>3. PageAccount
  BY <1>1, <1>2 DEF PageAccount, StartsBy, InPage, Within
<1>4. QED
  BY <1>3, LangInit DEF PlainInv

LEMMA PlainStep == AllCoded /\ EmbInv /\ PlainInv /\ [EmbNext]_allVars => PlainInv'
<1>. SUFFICES ASSUME AllCoded, EmbInv, PlainInv, [EmbNext]_allVars PROVE PlainInv'
  OBVIOUS
<1>1. LangInv' /\ LangInv
  BY LangStep DEF PlainInv
<1>2. CASE EmbNextFile
  BY <1>1, <1>2, StartPlain DEF PlainInv
<1>3. CASE EmbAct
  <2>1. Plain' => Plain
    BY <1>3, HostKept DEF Plain, Languages, Entries
  <2>2. SUFFICES ASSUME Plain, PageAccount PROVE PageAccount'
    BY <1>1, <2>1 DEF PlainInv
  <2>3. QED
    BY <1>1, <1>3, <2>2, ScanPlain, EnterPlain, OutryPlain, OpenPagePlain, ReadPagePlain,
       StopInPagePlain, EndPlain DEF EmbAct, EmbNext
<1>4. CASE UNCHANGED allVars
  BY <1>4, <1>1 DEF allVars, embVars, vars, PlainInv, Plain, Languages, Entries, Host,
     PageAccount, Leaving, Owed, At, InPage, InHost, Embedding, Within, Told, StartsBy
<1>5. QED
  BY <1>2, <1>3, <1>4 DEF EmbAct

\* In pages that enqueue nothing and all of whose outries are code of the
\* host, no newline that its languages notice is left out of the reports: not
\* one that an entry ends its line with, one in a comment, a string or a region
\* that scanners go back from, nor one whose leaving action a call, a return or
\* the end of a comment or string of the page runs.
THEOREM NoPageLineLost == ASSUME AllCoded PROVE EmbSpec => []EmbNoLineLost
<1>1. EmbInit => PlainInv
  BY PlainInit
<1>2. AllCoded /\ EmbInv /\ PlainInv /\ [EmbNext]_allVars => PlainInv'
  BY PlainStep
<1>3. EmbInv /\ PlainInv => EmbNoLineLost
  <2>. SUFFICES ASSUME EmbInv, PlainInv, pc = "parsed", ~page.leaving, Plain,
                       NEW i \in 0 .. p - 1, Owed(i)
                PROVE  \E k \in Lines : Covers(k, i)
    BY DEF EmbNoLineLost, Plain, Owed
  <2>1. ~leaving
    BY DEF EmbInv, TypeInv, ReadingInv
  <2>2. Told(count.out, i)
    BY <2>1 DEF PlainInv, PageAccount, Leaving
  <2>3. Lines = 1 .. Len(count.out)
    BY SoundParts, LenProperties DEF EmbInv, TypeInv, Lines
  <2>4. QED
    BY <2>2, <2>3 DEF Told, Covers
<1>4. QED
  BY <1>1, <1>2, <1>3, EmbInvAlways, PTL DEF EmbSpec

-----------------------------------------------------------------------------
(* What is reported in a step, and where it ends.                          *)

\* t is s with more reports, which end at places of E.
Adds(s, t, E) ==
    /\ Len(s) <= Len(t)
    /\ \A k \in 1 .. Len(s) : t[k] = s[k]
    /\ \A k \in Len(s) + 1 .. Len(t) : t[k].e \in E

LEMMA AddsNone ==
  ASSUME NEW s \in Seq(CallbackType), NEW E
  PROVE  Adds(s, s, E)
<1>1. Len(s) \in Nat
  BY LenProperties
<1>2. \A k \in Len(s) + 1 .. Len(s) : FALSE
  BY <1>1
<1>3. QED
  BY <1>1, <1>2 DEF Adds

LEMMA AddsAppend ==
  ASSUME NEW s \in Seq(CallbackType), NEW item \in CallbackType, NEW E, item.e \in E
  PROVE  Adds(s, Append(s, item), E)
<1>1. /\ Len(s) \in Nat /\ Len(Append(s, item)) = Len(s) + 1
      /\ \A k \in 1 .. Len(s) : Append(s, item)[k] = s[k]
      /\ Append(s, item)[Len(s) + 1] = item
  BY AppendProperties
<1>2. \A k \in Len(s) + 1 .. Len(s) + 1 : k = Len(s) + 1
  BY <1>1
<1>3. QED
  BY <1>1, <1>2 DEF Adds

LEMMA AddsConcat ==
  ASSUME NEW s \in Seq(CallbackType), NEW q \in Seq(CallbackType), NEW E,
         \A k \in 1 .. Len(q) : q[k].e \in E
  PROVE  Adds(s, s \o q, E)
<1>. DEFINE n == Len(s)
            m == Len(q)
<1>1. /\ n \in Nat /\ m \in Nat /\ Len(s \o q) = n + m
      /\ \A k \in 1 .. n : (s \o q)[k] = s[k]
      /\ \A k \in n + 1 .. n + m : (s \o q)[k] = q[k - n]
  BY ConcatProperties, LenProperties
<1>. HIDE DEF n, m
<1>2. \A k \in n + 1 .. n + m : k - n \in 1 .. m
  BY <1>1
<1>3. \A k \in n + 1 .. n + m : (s \o q)[k].e \in E
  BY <1>1, <1>2 DEF m
<1>4. QED
  BY <1>1, <1>3 DEF Adds, n

LEMMA AddsTwice ==
  ASSUME NEW s \in Seq(CallbackType), NEW t \in Seq(CallbackType),
         NEW u \in Seq(CallbackType), NEW E, Adds(s, t, E), Adds(t, u, E)
  PROVE  Adds(s, u, E)
<1>1. Len(s) \in Nat /\ Len(t) \in Nat /\ Len(u) \in Nat
  BY LenProperties
<1>2. \A k \in Len(s) + 1 .. Len(u) : k \in Len(s) + 1 .. Len(t) \/ k \in Len(t) + 1 .. Len(u)
  BY <1>1
<1>3. \A k \in Len(s) + 1 .. Len(t) : k \in 1 .. Len(t)
  BY <1>1
<1>4. \A k \in 1 .. Len(s) : k \in 1 .. Len(t)
  BY <1>1 DEF Adds
<1>5. QED
  BY <1>1, <1>2, <1>3, <1>4 DEF Adds

\* The macros: what they report ends where they say, and so does what they
\* enqueue.
LEMMA InternalNewlineAdds ==
  ASSUME NEW c, Sound(c), c.line.start # NULL, NEW at \in Nat, file \in 1 .. NFiles
  PROVE  LET d == InternalNewline(c, at)
         IN  /\ Adds(c.out, d.out, {at}) /\ Adds(c.queue, d.queue, {at})
             /\ at <= c.line.start => d.out = c.out /\ d.queue = c.queue
             /\ Kind(d.line) = "lblank"
<1>. DEFINE item == Callback(Kind(c.line), c.line.start, at)
            line == [NoLine EXCEPT !.start = at]
            d == IF at <= c.line.start THEN c
                 ELSE IF c.inqueue THEN [c EXCEPT !.queue = Append(@, item)]
                 ELSE [c EXCEPT !.out = Append(@, item)]
<1>1. item \in CallbackType /\ item.e = at
  BY CallbackTyped DEF Sound, CountType, LineType, NULL, Callback
<1>2. /\ Append(c.queue, item) \in Seq(CallbackType)
      /\ Append(c.out, item) \in Seq(CallbackType)
      /\ c.queue \in Seq(CallbackType) /\ c.out \in Seq(CallbackType)
  BY <1>1, AppendProperties, SoundParts
<1>3. InternalNewline(c, at) = [d EXCEPT !.line = line] /\ Kind(line) = "lblank"
  BY DEF InternalNewline, NoLine, Kind
<1>. HIDE DEF item, line
<1>4. /\ d \in CountType
      /\ d.out = IF at <= c.line.start \/ c.inqueue THEN c.out ELSE Append(c.out, item)
      /\ d.queue = IF at <= c.line.start \/ ~c.inqueue THEN c.queue
                   ELSE Append(c.queue, item)
  BY <1>2 DEF Sound, CountType
<1>. HIDE DEF d
<1>5. /\ [d EXCEPT !.line = line].out = d.out
      /\ [d EXCEPT !.line = line].queue = d.queue
      /\ [d EXCEPT !.line = line].line = line
  BY <1>4 DEF CountType
<1>6. /\ Adds(c.out, Append(c.out, item), {at}) /\ Adds(c.out, c.out, {at})
      /\ Adds(c.queue, Append(c.queue, item), {at}) /\ Adds(c.queue, c.queue, {at})
  BY <1>1, <1>2, AddsAppend, AddsNone
<1>7. QED
  BY <1>3, <1>4, <1>5, <1>6

LEMMA StdNewlineAdds ==
  ASSUME NEW c, Sound(c), NEW from \in Nat, NEW te \in Nat, file \in 1 .. NFiles
  PROVE  /\ Adds(c.out, StdNewline(c, from, te).out, {te})
         /\ StdNewline(c, from, te).line = NoLine
<1>. DEFINE d == Dequeue(c)
            s == IF Kind(d.line) = "lblank" THEN from ELSE d.line.start
            item == Callback(Kind(d.line), s, te)
            out == IF te > d.line.start THEN Append(d.out, item) ELSE d.out
<1>1. Sound(d) /\ d.out = c.out
  BY DequeueSound, DequeueParts
<1>2. s \in Nat
  BY <1>1 DEF Sound, CountType, LineType, Started, Kind, NULL
<1>3. item \in CallbackType /\ item.e = te
  BY <1>1, <1>2, CallbackTyped DEF Sound, CountType, Callback
<1>4. StdNewline(c, from, te) = [d EXCEPT !.line = NoLine, !.out = out]
  BY DEF StdNewline
<1>. HIDE DEF item
<1>5. Adds(d.out, out, {te})
  BY <1>1, <1>3, AddsAppend, AddsNone, SoundParts
<1>. HIDE DEF d, out
<1>6. [d EXCEPT !.line = NoLine, !.out = out].out = out
      /\ [d EXCEPT !.line = NoLine, !.out = out].line = NoLine
  BY <1>1 DEF Sound, CountType
<1>7. QED
  BY <1>1, <1>4, <1>5, <1>6

LEMMA CommitAdds ==
  ASSUME NEW c, Sound(c), NEW E, c.inqueue => \A k \in 1 .. Len(c.queue) : c.queue[k].e \in E
  PROVE  Adds(c.out, Commit(c).out, E)
<1>1. c.out \in Seq(CallbackType) /\ c.queue \in Seq(CallbackType) /\ c.inqueue \in BOOLEAN
  BY SoundParts
<1>2. CASE c.inqueue
  <2>1. Commit(c).out = c.out \o c.queue
    BY <1>2 DEF Commit, Sound, CountType
  <2>2. QED
    BY <1>1, <1>2, <2>1, AddsConcat
<1>3. CASE ~c.inqueue
  BY <1>1, <1>3, AddsNone DEF Commit
<1>4. QED
  BY <1>2, <1>3

LEMMA LastLineAdds ==
  ASSUME NEW c, Sound(c), pe \in Nat, file \in 1 .. NFiles
  PROVE  /\ Adds(c.out, LastLine(c).out, {pe})
         /\ Kind(c.line) = "lblank" => LastLine(c).out = c.out
<1>. DEFINE item == Callback(Kind(c.line), c.line.start, pe)
<1>1. CASE Kind(c.line) = "lblank"
  BY <1>1, AddsNone, SoundParts DEF LastLine
<1>2. CASE Kind(c.line) # "lblank"
  <2>1. c.line.start \in Nat
    BY <1>2, SaysStarted, SoundParts DEF Sound, CountType
  <2>2. item \in CallbackType /\ item.e = pe
    BY <2>1, CallbackTyped DEF Sound, CountType, Callback
  <2>3. LastLine(c).out = Append(c.out, item)
    BY <1>2 DEF LastLine, Sound, CountType
  <2>. HIDE DEF item
  <2>4. QED
    BY <1>2, <2>2, <2>3, AddsAppend, SoundParts
<1>3. QED
  BY <1>1, <1>2

-----------------------------------------------------------------------------
(* In which language a line is reported.                                   *)

LangType == DOMAIN Scanners \cup {NoLanguage}
LangsInv == langs \in Seq(LangType) /\ Len(langs) = Len(count.out)

\* What a step reports of lines that newlines end.
ReportsOnLine == \A k \in Ended' : k > Len(count.out) => OnLine(k)'

LEMMA ConstantSeq ==
  ASSUME NEW m \in Nat, NEW S, NEW x \in S
  PROVE  LET q == [n \in 1 .. m |-> x]
         IN  q \in Seq(S) /\ Len(q) = m
<1>. DEFINE q == [n \in 1 .. m |-> x]
<1>1. q \in [1 .. m -> S]
  OBVIOUS
<1>2. q \in Seq(S)
  BY <1>1, SeqDef
<1>3. DOMAIN q = 1 .. Len(q) /\ DOMAIN q = 1 .. m /\ Len(q) \in Nat
  BY <1>2, LenProperties
<1>. HIDE DEF q
<1>4. Len(q) = m
  <2>. DEFINE k == Len(q)
  <2>1. k \in Nat /\ 1 .. k = 1 .. m
    BY <1>3
  <2>. HIDE DEF k
  <2>2. k = m
    BY <2>1
  <2>3. QED
    BY <2>2 DEF k
<1>5. QED
  BY <1>2, <1>4 DEF q

\* What a step reports is recorded with the language it is reported in.
LEMMA NewLangs ==
  ASSUME LangsInv, Sound(count), NEW d, count' = d, Sound(d),
         NEW ls, NEW l \in LangType, Recorded(ls, l), NEW E, Adds(count.out, d.out, E)
  PROVE  LangsInv' /\ \A k \in Len(count.out) + 1 .. Len(d.out) : langs'[k] = l
<1>. DEFINE n == Len(count.out)
            m == Len(d.out) - n
            new == [x \in 1 .. m |-> l]
<1>1. n \in Nat /\ Len(d.out) \in Nat /\ m \in Nat
  BY SoundParts, LenProperties DEF Adds
<1>2. new \in Seq(LangType) /\ Len(new) = m
  BY <1>1, ConstantSeq
<1>3. langs' = langs \o new
  BY DEF Recorded
<1>4. /\ langs' \in Seq(LangType) /\ Len(langs') = n + m
      /\ \A k \in n + 1 .. n + m : langs'[k] = new[k - n]
  <2>. HIDE DEF new, n, m
  <2>1. langs \in Seq(LangType) /\ Len(langs) = n
    BY DEF LangsInv, n
  <2>2. QED
    BY <1>2, <1>3, <2>1, ConcatProperties
<1>5. \A k \in n + 1 .. n + m : new[k - n] = l
  <2>. SUFFICES ASSUME NEW k \in n + 1 .. n + m PROVE new[k - n] = l
    OBVIOUS
  <2>. HIDE DEF n, m
  <2>1. k - n \in 1 .. m
    BY <1>1
  <2>2. QED
    BY <2>1
<1>6. n + m = Len(d.out)
  BY <1>1
<1>. HIDE DEF m, new, n
<1>7. QED
  BY <1>4, <1>5, <1>6 DEF LangsInv, n

LEMMA NewOnLine ==
  ASSUME LangsInv, LangInv, pe \in Nat, p \in Nat, NEW q \in 0 .. pe, p' = q,
         UNCHANGED text, Sound(count), NEW d, count' = d, Sound(d),
         NEW ls, NEW l \in LangType, Recorded(ls, l), NEW E, Adds(count.out, d.out, E),
         \A e \in E : e \in Nat /\ e <= q /\ text[e] = "nl" =>
             \E i \in LineOf(e) : l \in (IF p < i /\ i <= q THEN ls ELSE by[i])
  PROVE  LangsInv' /\ ReportsOnLine
<1>. DEFINE n == Len(count.out)
<1>1. n \in Nat /\ Len(d.out) \in Nat /\ DOMAIN d.out = 1 .. Len(d.out)
  BY SoundParts, LenProperties
<1>2. LangsInv' /\ \A k \in n + 1 .. Len(d.out) : langs'[k] = l
  BY NewLangs
<1>. HIDE DEF n
<1>3. ASSUME NEW k \in Ended', k > n
      PROVE  OnLine(k)'
  <2>. DEFINE e == d.out[k].e
  <2>1. k \in 1 .. Len(d.out) /\ e <= q /\ text[e] = "nl"
    BY <1>1, <1>3 DEF Ended, Lines
  <2>2. k \in n + 1 .. Len(d.out)
    BY <1>1, <1>3, <2>1
  <2>3. e \in E
    BY <2>2 DEF Adds, n
  <2>4. d.out[k] \in CallbackType
    BY <2>1, ElementOfSeq, SoundParts
  <2>5. e \in Nat
    BY <2>4 DEF CallbackType
  <2>6. PICK i \in LineOf(e) : l \in (IF p < i /\ i <= q THEN ls ELSE by[i])
    BY <2>1, <2>3, <2>5
  <2>7. i \in 1 .. e /\ i > 0 /\ i \in 1 .. pe
    BY <2>1, <2>5, <2>6 DEF LineOf
  <2>8. l \in by'[i]
    BY <2>6, <2>7 DEF Recorded, LangInv
  <2>9. langs'[k] = l
    BY <1>2, <2>2
  <2>10. count'.out[k].e = e /\ text' = text
    OBVIOUS
  <2>11. \A x \in i .. e - 1 : text[x] # "nl"
    BY <2>6 DEF LineOf
  <2>. HIDE DEF e
  <2>12. i \in {j \in 1 .. count'.out[k].e :
                \A x \in j .. count'.out[k].e - 1 : text'[x] # "nl"}
    BY <2>7, <2>10, <2>11
  <2>13. QED
    BY <2>7, <2>8, <2>9, <2>12 DEF OnLine, LineOf
<1>4. QED
  BY <1>2, <1>3 DEF ReportsOnLine, n

LEMMA OwnLine ==
  ASSUME NEW e \in Nat, e > 0
  PROVE  e \in LineOf(e)
  BY DEF LineOf

\* A line goes on with what is no newline.
LEMMA OnLineMore ==
  ASSUME NEW e \in Nat, NEW i \in LineOf(e), NEW f \in Nat, e <= f,
         \A k \in e .. f - 1 : text[k] # "nl"
  PROVE  i \in LineOf(f)
<1>1. i \in 1 .. e /\ \A k \in i .. e - 1 : text[k] # "nl"
  BY DEF LineOf
<1>2. \A k \in i .. f - 1 : k \in i .. e - 1 \/ k \in e .. f - 1
  BY <1>1
<1>3. i \in 1 .. f
  BY <1>1
<1>4. QED
  BY <1>1, <1>2, <1>3 DEF LineOf

LEMMA AddsMore ==
  ASSUME NEW s, NEW t, NEW E, Adds(s, t, E), NEW F, E \subseteq F
  PROVE  Adds(s, t, F)
  BY DEF Adds

\* The places up to p that were last read in lang.
PlacesRead == {e \in 1 .. p : lang \in by[e]}

\* A region that a newline was read in as any other symbol notices none; what
\* was enqueued since it began was read in lang; and the line begins behind its
\* start once a newline was noticed in it.
RegionHist ==
    Within =>
        /\ At(ts) # "nl"
        /\ entity = "internal" => count.line.start > ts
        /\ text[p] = "nl" /\ ~leaving => "raw" \in region.newline
        /\ region.enqueue => count.inqueue /\ Adds(<<>>, count.queue, PlacesRead)

\* A newline is left in the language it was read in.
LeaveHist == pc = "scan" /\ (leaving \/ page.leaving) => p \in PlacesRead

PageLine == InPage => p > 0 /\ (page.leaving <=> text[p] = "nl")
PageHist == PageLine /\ (page # NoPage => Hosts[Host].page)

\* Behind a newline nothing is on the line.
BlankHist ==
    Outside /\ p > 0 /\ text[p] = "nl" /\ ~page.leaving => Kind(count.line) = "lblank"

\* What was seen in a page was read on the line.
SeenOnLine == p > 0 /\ \E i \in LineOf(p) : seen \in by[i]
SeenHist ==
    /\ seen \in LangType
    /\ Embedding => seen = lang
    /\ InHost /\ Hosts[Host].page /\ seen # NoLanguage =>
         SeenOnLine /\ (page.leaving \/ text[p] # "nl")

ReadHist == RegionHist /\ LeaveHist /\ PageLine /\ BlankHist
HistInv == LangsInv /\ RegionHist /\ LeaveHist /\ PageHist /\ BlankHist /\ SeenHist

\* What all of the invariants say of a step that is no end.
LEMMA HereParts ==
  ASSUME EmbInv
  PROVE  /\ p \in Nat /\ pe \in Nat /\ p <= pe /\ p \in 0 .. pe /\ Sound(count)
         /\ file \in 1 .. NFiles /\ lang \in DOMAIN Scanners /\ lang \in LangType
         /\ count.out \in Seq(CallbackType)
<1>1. /\ p \in Nat /\ pe \in Nat /\ p <= pe /\ p \in 0 .. pe /\ Sound(count)
      /\ file \in 1 .. NFiles /\ lang \in DOMAIN Scanners
  BY DEF EmbInv, TypeInv, TypeOK, pe
<1>2. QED
  BY <1>1, SoundParts DEF LangType

LEMMA ReadKept ==
  ASSUME LangInv, p \in Nat, pe \in Nat, p <= pe, NEW q \in 0 .. pe, p' = q, NEW ls, ReadIn(ls)
  PROVE  /\ \A i \in 1 .. p : by'[i] = by[i]
         /\ \A i \in p + 1 .. q : by'[i] = ls
<1>1. \A i \in 1 .. p : i \in DOMAIN by /\ ~(p < i)
  BY DEF LangInv
<1>2. \A i \in p + 1 .. q : i \in DOMAIN by /\ p < i /\ i <= q
  BY DEF LangInv
<1>3. QED
  BY <1>1, <1>2 DEF ReadIn

\* What is reported where lang was read is reported in lang.
LEMMA NewAtPlaces ==
  ASSUME EmbInv, LangInv, LangsInv, NEW q \in 0 .. pe, p' = q, UNCHANGED text,
         NEW d, count' = d, Sound(d), NEW ls, Recorded(ls, lang),
         Adds(count.out, d.out, PlacesRead)
  PROVE  LangsInv' /\ ReportsOnLine
<1>1. p \in Nat /\ pe \in Nat /\ Sound(count) /\ lang \in LangType
  BY HereParts
<1>2. ASSUME NEW e \in PlacesRead, e \in Nat, e <= q, text[e] = "nl"
      PROVE  \E i \in LineOf(e) : lang \in (IF p < i /\ i <= q THEN ls ELSE by[i])
  <2>1. e > 0 /\ ~(p < e) /\ lang \in by[e]
    BY <1>1, <1>2 DEF PlacesRead
  <2>2. e \in LineOf(e)
    BY <1>2, <2>1, OwnLine
  <2>3. QED
    BY <2>1, <2>2
<1>3. \A e \in PlacesRead : e \in Nat
  BY <1>1 DEF PlacesRead
<1>4. QED
  BY <1>1, <1>2, <1>3, NewOnLine

\* Nothing is reported.
LEMMA NoneNew ==
  ASSUME EmbInv, LangInv, LangsInv, NEW q \in 0 .. pe, p' = q, UNCHANGED text,
         NEW d, count' = d, Sound(d), NEW ls, NEW l \in LangType, Recorded(ls, l),
         d.out = count.out
  PROVE  LangsInv' /\ ReportsOnLine
<1>1. p \in Nat /\ pe \in Nat /\ Sound(count) /\ Adds(count.out, d.out, {})
  BY HereParts, AddsNone
<1>2. QED
  BY <1>1, NewOnLine

\* What a step that reads a character last leaves to show.
LEMMA CharRead ==
  ASSUME region' = NoRegion, ~leaving', ~page'.leaving, p' > 0, text'[p'] # "nl"
  PROVE  ReadHist'
  BY DEF ReadHist, RegionHist, LeaveHist, PageLine, BlankHist, Within

\* A step that ends a line.
LEMMA LineEnded ==
  ASSUME region' = NoRegion, ~leaving', ~page'.leaving, Kind(count'.line) = "lblank",
         ~InPage'
  PROVE  ReadHist'
  BY DEF ReadHist, RegionHist, LeaveHist, PageLine, BlankHist, Within

\* A line goes on to q.
LEMMA SeenMore ==
  ASSUME EmbInv, LangInv, SeenOnLine, text[p] # "nl", NEW q \in p + 1 .. pe, p' = q,
         NEW ls, ReadIn(ls), \A k \in p + 1 .. q - 1 : text[k] # "nl",
         UNCHANGED <<text, seen>>
  PROVE  SeenOnLine'
<1>1. p \in Nat /\ pe \in Nat /\ p <= pe /\ p \in 0 .. pe
  BY HereParts
<1>2. PICK i \in LineOf(p) : seen \in by[i]
  BY DEF SeenOnLine
<1>3. q \in Nat /\ p <= q /\ q \in 0 .. pe /\ \A k \in p .. q - 1 : k = p \/ k \in p + 1 .. q - 1
  BY <1>1
<1>4. i \in LineOf(q)
  BY <1>1, <1>2, <1>3, OnLineMore
<1>5. by'[i] = by[i]
  <2>1. i \in 1 .. p
    BY <1>2 DEF LineOf
  <2>2. QED
    BY <1>1, <1>3, <2>1, ReadKept
<1>6. i \in LineOf(q)'
  BY <1>4 DEF LineOf
<1>7. q > 0
  BY <1>1
<1>8. p' = q
  OBVIOUS
<1>9. \E j \in LineOf(q)' : seen' \in by'[j]
  BY <1>2, <1>5, <1>6
<1>10. QED
  BY <1>7, <1>8, <1>9 DEF SeenOnLine, LineOf

-----------------------------------------------------------------------------
(* The scanner of one language.                                            *)

LEMMA NoPageRegion ==
  ASSUME EmbInv, ~Embedding, Hosts[Host].page
  PROVE  Grammar = {} /\ ~Within
<1>1. stack = <<>> /\ lang \in DOMAIN Hosts /\ Host = lang
  BY DEF EmbInv, StackInv, Embedding, Host
<1>2. Grammar = {}
  BY <1>1, HostsAssumption DEF Grammar
<1>3. QED
  BY <1>2 DEF Within, EmbInv, TypeInv, TypeOK

\* What a token or the symbol of a region changes of what was seen.
LEMMA ScanSeen ==
  ASSUME EmbInv, LangInv, HistInv, Scan
  PROVE  SeenHist' /\ (page # NoPage => Hosts[Host].page)'
<1>1. Scanning /\ UNCHANGED <<lang, text, stack, seen, page>> /\ ReadIn({lang})
  BY SameStack DEF Scan, Recorded, ReadIn
<1>2. (page # NoPage => Hosts[Host].page)'
  BY <1>1 DEF HistInv, PageHist, Host
<1>3. CASE Embedding
  BY <1>1, <1>2, <1>3 DEF HistInv, SeenHist, Embedding, InHost, LangType
<1>4. CASE ~Embedding /\ (Hosts[Host].page => seen = NoLanguage)
  BY <1>1, <1>2, <1>4 DEF HistInv, SeenHist, Embedding, Host, LangType
<1>5. CASE ~Embedding /\ Hosts[Host].page /\ seen # NoLanguage
  <2>1. page = NoPage /\ ~page.leaving /\ pc = "scan"
    BY <1>1, <1>5 DEF Scanning, NoPage
  <2>2. SeenOnLine /\ text[p] # "nl"
    BY <1>5, <2>1 DEF HistInv, SeenHist, InHost
  <2>3. p \in Nat /\ pe \in Nat
    BY HereParts
  <2>4. Spaces \/ AnyChar
    <3>1. Grammar = {} /\ ~Within
      BY <1>5, NoPageRegion
    <3>2. QED
      BY <3>1 DEF Scan, OpenRegion, ReadRegion, CloseRegion, EndLineComment, Backtrack
  <2>5. PICK q \in p + 1 .. pe : p' = q /\ \A k \in p + 1 .. q : text[k] # "nl"
    <3>1. CASE Spaces
      <4>1. PICK q \in p + 1 .. pe : p' = q /\ \A i \in p .. q - 1 : At(i) = "ws"
        BY <3>1 DEF Spaces, Token
      <4>2. \A k \in p + 1 .. q : k - 1 \in p .. q - 1 /\ (k - 1) + 1 = k
        BY <2>3
      <4>3. QED
        BY <4>1, <4>2 DEF At
    <3>2. CASE AnyChar
      <4>1. p' = p + 1 /\ text[p + 1] # "nl" /\ p < pe
        BY <3>2 DEF AnyChar, Token, At
      <4>2. p + 1 \in p + 1 .. pe /\ \A k \in p + 1 .. p + 1 : k = p + 1
        BY <2>3, <4>1
      <4>3. QED
        BY <4>1, <4>2
    <3>3. QED
      BY <2>4, <3>1, <3>2
  <2>6. \A k \in p + 1 .. q - 1 : k \in p + 1 .. q
    BY <2>3
  <2>7. SeenOnLine'
    BY <1>1, <2>2, <2>5, <2>6, SeenMore
  <2>8. text'[p'] # "nl"
    BY <1>1, <2>3, <2>5
  <2>9. QED
    BY <1>1, <1>2, <1>5, <2>7, <2>8 DEF HistInv, SeenHist, Embedding
<1>6. QED
  BY <1>2, <1>3, <1>4, <1>5

LEMMA TokenHist ==
  ASSUME EmbInv, LangInv, HistInv, Scan, Spaces \/ AnyChar
  PROVE  ReadHist' /\ LangsInv' /\ ReportsOnLine
<1>1. Outside /\ Scanning /\ UNCHANGED <<text, page, region, leaving>> /\ Recorded({lang}, lang)
  BY DEF Scan, Spaces, AnyChar, Token
<1>2. p \in Nat /\ pe \in Nat /\ Sound(count) /\ lang \in LangType
  BY HereParts
<1>3. ~leaving /\ ~page.leaving /\ region = NoRegion
  BY <1>1, NotLeaving DEF Outside, Scanning
<1>4. Sound(count')
  BY ScanKeeps DEF TypeInv
<1>5. PICK q \in p + 1 .. pe : p' = q /\ text[q] # "nl"
  <2>1. CASE Spaces
    <3>1. PICK q \in p + 1 .. pe : p' = q /\ \A i \in p .. q - 1 : At(i) = "ws"
      BY <2>1 DEF Spaces, Token
    <3>2. q - 1 \in p .. q - 1 /\ (q - 1) + 1 = q
      BY <1>2
    <3>3. At(q - 1) = "ws"
      BY <3>1, <3>2
    <3>4. QED
      BY <3>1, <3>2, <3>3 DEF At
  <2>2. CASE AnyChar
    <3>1. p' = p + 1 /\ text[p + 1] # "nl" /\ p < pe
      BY <2>2 DEF AnyChar, Token, At
    <3>2. p + 1 \in p + 1 .. pe
      BY <1>2, <3>1
    <3>3. QED
      BY <3>1, <3>2
  <2>3. QED
    BY <2>1, <2>2
<1>6. count'.out = count.out
  <2>. DEFINE c == Dequeue(count)
  <2>1. count' \in {Ls(c, p), Code(c, p)}
    BY DEF Spaces, AnyChar, Token
  <2>2. Sound(c) /\ c.out = count.out
    BY <1>2, DequeueSound, DequeueParts
  <2>. HIDE DEF c
  <2>3. Ls(c, p).out = c.out /\ Code(c, p).out = c.out
    BY <1>2, <2>2, LsBegins, CodeBegins DEF Begins
  <2>4. QED
    BY <2>1, <2>2, <2>3
<1>7. q \in 0 .. pe /\ q > 0
  BY <1>2
<1>8. LangsInv' /\ ReportsOnLine
  BY <1>1, <1>2, <1>4, <1>5, <1>6, <1>7, NoneNew DEF HistInv
<1>9. ReadHist'
  BY <1>1, <1>3, <1>5, <1>7, CharRead
<1>10. QED
  BY <1>8, <1>9

LEMMA EmptyTyped == <<>> \in Seq(CallbackType)
  OBVIOUS

LEMMA PlacesMore ==
  ASSUME EmbInv, LangInv, NEW q \in 0 .. pe, p' = q, p <= q, NEW ls, ReadIn(ls),
         UNCHANGED lang
  PROVE  PlacesRead \subseteq PlacesRead'
<1>1. p \in Nat /\ pe \in Nat /\ p <= pe
  BY HereParts
<1>2. \A i \in 1 .. p : by'[i] = by[i] /\ i \in 1 .. q
  BY <1>1, ReadKept
<1>3. QED
  BY <1>2 DEF PlacesRead

LEMMA OpenRegionHist ==
  ASSUME EmbInv, LangInv, HistInv, Scan, OpenRegion
  PROVE  ReadHist' /\ LangsInv' /\ ReportsOnLine
<1>1. /\ Outside /\ Scanning /\ UNCHANGED <<lang, text, pc, page, leaving>>
      /\ Recorded({lang}, lang) /\ p < pe /\ ts' = p /\ p' = p + 1 /\ entity' = "any"
  BY DEF Scan, OpenRegion
<1>2. p \in Nat /\ pe \in Nat /\ Sound(count) /\ lang \in LangType /\ lang \in DOMAIN Scanners
  BY HereParts
<1>3. ~leaving /\ ~page.leaving /\ (Embedding \/ page = NoPage)
  BY <1>1, NotLeaving DEF Outside, Scanning
<1>4. PICK r \in Grammar :
        /\ At(p) = r.open /\ region' = r
        /\ count' = Mark(IF r.enqueue THEN Enqueue(count) ELSE count, r.mark, p)
  BY DEF OpenRegion
<1>5. r \in RegionType /\ r.mark \in Marks /\ r.open # "nl" /\ r.enqueue \in BOOLEAN
  BY <1>2, ScannersAssumption DEF Grammar, RegionType
<1>. DEFINE c == IF r.enqueue THEN Enqueue(count) ELSE count
            d == Mark(c, r.mark, p)
<1>6. /\ Sound(c) /\ c.out = count.out
      /\ r.enqueue => c.inqueue /\ c.queue = <<>>
  BY <1>2, EnqueueSound, EnqueueParts
<1>. HIDE DEF c
<1>7. Begins(c, d, p) /\ Sound(d) /\ count' = d
  BY <1>2, <1>4, <1>5, <1>6, MarkBegins, MarkSound DEF c
<1>. HIDE DEF d
<1>8. d.out = count.out /\ (r.enqueue => d.inqueue /\ d.queue = <<>>)
  BY <1>6, <1>7 DEF Begins
<1>9. p + 1 \in 0 .. pe /\ p + 1 > 0
  BY <1>1, <1>2
<1>10. LangsInv' /\ ReportsOnLine
  BY <1>1, <1>2, <1>7, <1>8, <1>9, NoneNew DEF HistInv
<1>11. At(ts)' # "nl" /\ text'[p'] # "nl"
  BY <1>1, <1>4, <1>5 DEF At
<1>12. Adds(<<>>, <<>>, PlacesRead')
  BY EmptyTyped, AddsNone
<1>13. RegionHist'
  BY <1>1, <1>4, <1>7, <1>8, <1>11, <1>12 DEF RegionHist
<1>14. LeaveHist' /\ PageLine' /\ BlankHist'
  BY <1>1, <1>3, <1>11 DEF LeaveHist, PageLine, BlankHist, InPage, InHost, Embedding
<1>15. QED
  BY <1>10, <1>13, <1>14 DEF ReadHist

\* The leaving action of a region's newline reports or enqueues the line in the
\* language it was read in.
LEMMA LeaveAdds ==
  ASSUME EmbInv, LangInv, HistInv, Within
  PROVE  LET c == Leave(count)
         IN  /\ Sound(c) /\ c.inqueue = count.inqueue
             /\ Adds(count.out, c.out, PlacesRead) /\ Adds(count.queue, c.queue, PlacesRead)
             /\ EntityLeft = "internal" => c.line.start > ts
             /\ leaving => Kind(c.line) = "lblank"
<1>1. /\ p \in Nat /\ Sound(count) /\ file \in 1 .. NFiles /\ pc = "scan"
      /\ p \in 0 .. pe /\ ts < p
  BY HereParts DEF Within, EmbInv, TypeInv, ReadingInv
<1>2. CASE ~leaving
  <2>1. Leave(count) = count /\ EntityLeft = entity
    BY <1>2 DEF Leave, EntityLeft
  <2>2. Adds(count.out, count.out, PlacesRead) /\ Adds(count.queue, count.queue, PlacesRead)
    BY <1>1, AddsNone, SoundParts
  <2>3. QED
    BY <1>1, <1>2, <2>1, <2>2 DEF HistInv, RegionHist
<1>3. CASE leaving
  <2>. DEFINE c == InternalNewline(count, p)
  <2>1. Leave(count) = c
    BY <1>3 DEF Leave
  <2>2. count.line.start # NULL
    BY <1>3, RegionTyped DEF EmbInv, TypeInv, TypeOK, ReadingInv, Within
  <2>3. {p} \subseteq PlacesRead
    BY <1>1, <1>3 DEF HistInv, LeaveHist
  <2>4. /\ Adds(count.out, c.out, {p}) /\ Adds(count.queue, c.queue, {p})
        /\ Kind(c.line) = "lblank"
    BY <1>1, <2>2, InternalNewlineAdds
  <2>5. Sound(c) /\ c.inqueue = count.inqueue /\ c.line.start = p
    BY <1>1, <2>2, InternalNewlineSound, InternalNewlineParts
  <2>. HIDE DEF c
  <2>6. Adds(count.out, c.out, PlacesRead) /\ Adds(count.queue, c.queue, PlacesRead)
    BY <2>3, <2>4, AddsMore
  <2>7. QED
    BY <1>1, <2>1, <2>4, <2>5, <2>6
<1>4. leaving \in BOOLEAN
  BY DEF EmbInv, TypeInv, TypeOK
<1>5. QED
  BY <1>2, <1>3, <1>4

LEMMA ReadRegionHist ==
  ASSUME EmbInv, LangInv, HistInv, Scan, ReadRegion
  PROVE  ReadHist' /\ LangsInv' /\ ReportsOnLine
<1>. DEFINE c == Leave(count)
<1>1. /\ Within /\ RoleHere \notin {"stop", "close"} /\ p' = p + 1
      /\ UNCHANGED <<lang, text, file, pc, ts, region, page>>
      /\ entity' = EntityLeft /\ leaving' = (RoleHere = "newline")
      /\ Embedding \/ page = NoPage
      /\ Recorded({lang}, lang) /\ ReadIn({lang})
  BY DEF ReadRegion, Scan, Scanning, Recorded, ReadIn
<1>2. /\ region \in RegionType /\ p \in Nat /\ pe \in Nat /\ p \in 0 .. pe /\ p # pe
      /\ ts \in Nat /\ ts < p /\ pc = "scan"
  BY <1>1, RegionTyped DEF EmbInv, TypeInv, TypeOK, Within, RoleHere, pe, ReadingInv
<1>3. PICK m \in Marks : count' = Mark(c, m, ts)
  <2>1. region.inner \in Marks /\ region.blank \in Marks /\ "none" \in Marks
    BY <1>2 DEF RegionType, Marks
  <2>2. RoleHere \in {"newline", "inner", "unnest", "nest", "escape", "blank"}
    BY <1>1, <1>2, RoleTyped DEF RoleHere, EmbInv, TypeInv, TypeOK
  <2>3. QED
    BY <2>1, <2>2 DEF ReadRegion
<1>4. /\ Sound(c) /\ c.inqueue = count.inqueue
      /\ Adds(count.out, c.out, PlacesRead) /\ Adds(count.queue, c.queue, PlacesRead)
      /\ EntityLeft = "internal" => c.line.start > ts
  BY <1>1, LeaveAdds
<1>. DEFINE d == Mark(c, m, ts)
<1>. HIDE DEF c
<1>5. Begins(c, d, ts) /\ Sound(d) /\ count' = d
  BY <1>2, <1>3, <1>4, MarkBegins, MarkSound
<1>. HIDE DEF d
<1>6. d.out = c.out /\ d.queue = c.queue /\ d.inqueue = c.inqueue
  BY <1>5 DEF Begins
<1>7. EntityLeft = "internal" => d.line.start > ts
  <2>1. ts > NULL
    BY <1>2 DEF NULL
  <2>2. c.line.start # NULL => d.line.start = c.line.start
    BY <1>5 DEF Begins
  <2>3. EntityLeft = "internal" => c.line.start # NULL
    BY <1>2, <1>4 DEF NULL
  <2>4. QED
    BY <1>4, <2>2, <2>3
<1>8. p + 1 \in 0 .. pe /\ p + 1 > 0 /\ p <= p + 1
  BY <1>2
<1>9. LangsInv' /\ ReportsOnLine
  BY <1>1, <1>4, <1>5, <1>6, <1>8, NewAtPlaces DEF HistInv
<1>10. PlacesRead \subseteq PlacesRead'
  BY <1>1, <1>8, PlacesMore
<1>11. region.enqueue => d.inqueue /\ Adds(<<>>, d.queue, PlacesRead')
  <2>. SUFFICES ASSUME region.enqueue PROVE d.inqueue /\ Adds(<<>>, d.queue, PlacesRead')
    OBVIOUS
  <2>1. count.inqueue /\ Adds(<<>>, count.queue, PlacesRead)
    BY <1>1 DEF HistInv, RegionHist
  <2>2. count.queue \in Seq(CallbackType) /\ c.queue \in Seq(CallbackType)
    BY <1>4, HereParts, SoundParts
  <2>3. Adds(<<>>, c.queue, PlacesRead)
    BY <1>4, <2>1, <2>2, EmptyTyped, AddsTwice
  <2>4. QED
    BY <1>4, <1>6, <1>10, <2>1, <2>3, AddsMore
<1>12. text[p + 1] = "nl" /\ ~leaving' => "raw" \in region.newline
  <2>1. RoleHere = Role(region, escaped, nest, text[p + 1])
    BY <1>2 DEF RoleHere, At
  <2>2. QED
    BY <1>1, <1>2, <2>1, NewlineRoles
<1>13. At(ts)' # "nl"
  BY <1>1 DEF At, HistInv, RegionHist
<1>14. RegionHist'
  BY <1>1, <1>5, <1>7, <1>11, <1>12, <1>13 DEF RegionHist
<1>15. p + 1 \in PlacesRead'
  <2>1. p + 1 \in p + 1 .. p + 1 /\ p + 1 \in 1 .. p + 1 /\ p <= pe
    BY <1>2
  <2>2. by'[p + 1] = {lang}
    BY <1>1, <1>2, <1>8, <2>1, ReadKept
  <2>3. QED
    BY <1>1, <2>1, <2>2 DEF PlacesRead
<1>16. LeaveHist' /\ PageLine' /\ BlankHist'
  <2>1. ~InPage' /\ ~Outside'
    BY <1>1 DEF InPage, InHost, Embedding, Within, Outside
  <2>2. QED
    BY <1>1, <1>15, <2>1 DEF LeaveHist, PageLine, BlankHist
<1>17. QED
  BY <1>9, <1>14, <1>16 DEF ReadHist

LEMMA CloseRegionHist ==
  ASSUME EmbInv, LangInv, HistInv, Scan, CloseRegion
  PROVE  ReadHist' /\ LangsInv' /\ ReportsOnLine
<1>. DEFINE c == Leave(count)
            b == IF region.commit THEN Commit(c) ELSE c
            d == Mark(b, region.last, ts)
<1>1. /\ Within /\ RoleHere = "close" /\ p' = p + 1 /\ leaving' = FALSE /\ region' = NoRegion
      /\ UNCHANGED <<lang, text, page>> /\ (Embedding \/ page = NoPage)
      /\ count' = d /\ Recorded({lang}, lang)
  BY DEF CloseRegion, Scan, Scanning, LeaveRegion
<1>2. /\ region \in RegionType /\ region \in Grammar /\ lang \in DOMAIN Scanners
      /\ p \in Nat /\ pe \in Nat /\ p \in 0 .. pe /\ ts \in Nat /\ region.last \in Marks
      /\ region.commit \in BOOLEAN
  BY <1>1, RegionTyped DEF EmbInv, TypeInv, TypeOK, Within, pe, RegionType
<1>3. p # pe /\ At(p) # "nl"
  <2>1. Role(region, escaped, nest, At(p)) = "close" /\ p # pe
    BY <1>1 DEF RoleHere
  <2>2. QED
    BY <1>2, <2>1, NewlineRoles
<1>4. /\ Sound(c) /\ c.inqueue = count.inqueue
      /\ Adds(count.out, c.out, PlacesRead) /\ Adds(count.queue, c.queue, PlacesRead)
  BY <1>1, LeaveAdds
<1>. HIDE DEF c
<1>5. Sound(b) /\ Adds(count.out, b.out, PlacesRead)
  <2>1. CASE ~region.commit
    BY <1>4, <2>1
  <2>2. CASE region.commit
    <3>1. region.enqueue
      <4>1. Host \in DOMAIN Hosts
        BY DEF EmbInv, StackInv, Host, Embedding
      <4>2. QED
        BY <1>2, <2>2, <4>1, HostsAssumption DEF LangInv, Languages, Entries, Grammar
    <3>2. Adds(<<>>, count.queue, PlacesRead)
      BY <1>1, <3>1 DEF HistInv, RegionHist
    <3>3. count.queue \in Seq(CallbackType) /\ c.queue \in Seq(CallbackType)
          /\ count.out \in Seq(CallbackType) /\ c.out \in Seq(CallbackType)
      BY <1>4, HereParts, SoundParts
    <3>4. Adds(<<>>, c.queue, PlacesRead)
      BY <1>4, <3>2, <3>3, EmptyTyped, AddsTwice
    <3>5. \A k \in 1 .. Len(c.queue) : c.queue[k].e \in PlacesRead
      BY <3>4 DEF Adds
    <3>6. Adds(c.out, Commit(c).out, PlacesRead) /\ Sound(Commit(c))
      BY <1>4, <3>5, CommitAdds, CommitSound
    <3>7. Commit(c).out \in Seq(CallbackType)
      BY <3>6, SoundParts
    <3>8. QED
      BY <1>4, <2>2, <3>3, <3>6, <3>7, AddsTwice
  <2>3. QED
    BY <2>1, <2>2
<1>. HIDE DEF b
<1>6. Begins(b, d, ts) /\ Sound(d)
  BY <1>2, <1>5, MarkBegins, MarkSound
<1>. HIDE DEF d
<1>7. p + 1 \in 0 .. pe /\ p + 1 > 0
  BY <1>2, <1>3
<1>8. Adds(count.out, d.out, PlacesRead)
  BY <1>5, <1>6 DEF Begins
<1>9. LangsInv' /\ ReportsOnLine
  BY <1>1, <1>6, <1>7, <1>8, NewAtPlaces DEF HistInv
<1>10. ~page.leaving
  <2>1. page = NoPage => ~page.leaving
    BY DEF NoPage
  <2>2. Embedding => ~page.leaving
    BY DEF EmbInv, PageInv
  <2>3. QED
    BY <1>1, <2>1, <2>2
<1>11. ReadHist'
  BY <1>1, <1>3, <1>7, <1>10, CharRead DEF At
<1>12. QED
  BY <1>9, <1>11

LEMMA EndLineCommentHist ==
  ASSUME EmbInv, LangInv, HistInv, Scan, EndLineComment
  PROVE  ReadHist' /\ LangsInv' /\ ReportsOnLine
<1>. DEFINE c == Leave(count)
<1>1. /\ Within /\ region.close = "eol" /\ p' = p /\ leaving' = FALSE /\ region' = NoRegion
      /\ UNCHANGED <<lang, text, pc, page>> /\ (Embedding \/ page = NoPage)
      /\ count' = c /\ Recorded({lang}, lang)
  BY DEF EndLineComment, Scan, Scanning, LeaveRegion
<1>2. Sound(c) /\ Adds(count.out, c.out, PlacesRead) /\ (leaving => Kind(c.line) = "lblank")
  BY <1>1, LeaveAdds
<1>. HIDE DEF c
<1>3. p \in 0 .. pe
  BY HereParts
<1>4. LangsInv' /\ ReportsOnLine
  BY <1>1, <1>2, <1>3, NewAtPlaces DEF HistInv
<1>5. text[p] = "nl" => leaving
  <2>1. region \in Scanners[lang] /\ lang \in DOMAIN Scanners
    BY <1>1 DEF Within, EmbInv, TypeInv, TypeOK, Grammar
  <2>2. "raw" \notin region.newline
    BY <1>1, <2>1, ScannersAssumption
  <2>3. QED
    BY <1>1, <2>2 DEF HistInv, RegionHist
<1>6. ~page'.leaving
  <2>1. page = NoPage => ~page.leaving
    BY DEF NoPage
  <2>2. Embedding => ~page.leaving
    BY DEF EmbInv, PageInv
  <2>3. QED
    BY <1>1, <2>1, <2>2
<1>7. ~InPage'
  BY <1>1 DEF InPage, InHost, Embedding
<1>8. ReadHist'
  BY <1>1, <1>2, <1>5, <1>6, <1>7
     DEF ReadHist, RegionHist, LeaveHist, PageLine, BlankHist, Within
<1>9. QED
  BY <1>4, <1>8

\* Going back reports nothing: the line begins behind where it goes back to.
LEMMA BacktrackOut ==
  ASSUME EmbInv, LangInv, HistInv, Backtrack
  PROVE  count'.out = count.out
<1>1. /\ Within
      /\ count' = IF entity = "internal"
                  THEN RestOfDelimiter(InternalNewline(count, ts))
                  ELSE Code(Dequeue(count), ts)
  BY DEF Backtrack, LeaveRegion
<1>2. ts \in Nat /\ Sound(count) /\ file \in 1 .. NFiles
  BY <1>1, HereParts DEF EmbInv, TypeInv, TypeOK
<1>3. entity = "internal" => count.line.start > ts
  BY <1>1 DEF HistInv, RegionHist
<1>4. CASE entity = "internal"
  <2>. DEFINE c == InternalNewline(count, ts)
  <2>1. count.line.start # NULL /\ ts <= count.line.start
    <3>1. count.line.start > ts /\ (count.line.start # NULL => count.line.start \in Nat)
      BY <1>2, <1>3, <1>4, SoundParts
    <3>2. QED
      BY <1>2, <3>1 DEF NULL
  <2>2. c.out = count.out /\ Sound(c)
    BY <1>2, <2>1, InternalNewlineAdds, InternalNewlineSound
  <2>. HIDE DEF c
  <2>3. Code(Dequeue(c), ts).out = c.out
    BY <1>2, <2>2, DequeueSound, DequeueParts, CodeBegins DEF Begins
  <2>4. RestOfDelimiter(c).out = c.out
    BY <2>3 DEF RestOfDelimiter
  <2>5. QED
    BY <1>1, <1>4, <2>2, <2>4 DEF c
<1>5. CASE entity # "internal"
  <2>1. Code(Dequeue(count), ts).out = count.out
    BY <1>2, DequeueSound, DequeueParts, CodeBegins DEF Begins
  <2>2. QED
    BY <1>1, <1>5, <2>1
<1>6. QED
  BY <1>4, <1>5

LEMMA BacktrackHist ==
  ASSUME EmbInv, LangInv, HistInv, Scan, Backtrack
  PROVE  ReadHist' /\ LangsInv' /\ ReportsOnLine
<1>1. /\ Within /\ p' = ts + 1 /\ leaving' = FALSE /\ region' = NoRegion
      /\ UNCHANGED <<lang, text, pc, page>> /\ (Embedding \/ page = NoPage)
      /\ Recorded({lang}, lang)
  BY DEF Backtrack, Scan, Scanning, LeaveRegion
<1>2. /\ p \in Nat /\ pe \in Nat /\ p \in 0 .. pe /\ ts \in Nat /\ ts < p
      /\ Sound(count) /\ lang \in LangType
  BY <1>1, HereParts DEF EmbInv, TypeInv, TypeOK, ReadingInv
<1>3. At(ts) # "nl"
  BY <1>1 DEF HistInv, RegionHist
<1>4. PICK d \in {count'} : count' = d /\ d.out = count.out
  BY BacktrackOut
<1>5. Sound(d)
  BY <1>4, ScanKeeps DEF TypeInv
<1>6. ts + 1 \in 0 .. pe /\ ts + 1 > 0
  BY <1>2
<1>7. LangsInv' /\ ReportsOnLine
  BY <1>1, <1>2, <1>4, <1>5, <1>6, NoneNew DEF HistInv
<1>8. ~page'.leaving
  <2>1. page = NoPage => ~page.leaving
    BY DEF NoPage
  <2>2. Embedding => ~page.leaving
    BY DEF EmbInv, PageInv
  <2>3. QED
    BY <1>1, <2>1, <2>2
<1>9. ReadHist'
  BY <1>1, <1>3, <1>6, <1>8, CharRead DEF At
<1>10. QED
  BY <1>7, <1>9

LEMMA ScanHist ==
  ASSUME EmbInv, LangInv, HistInv, Scan
  PROVE  HistInv' /\ ReportsOnLine
<1>1. ReadHist' /\ LangsInv' /\ ReportsOnLine
  BY TokenHist, OpenRegionHist, ReadRegionHist, CloseRegionHist, EndLineCommentHist,
     BacktrackHist DEF Scan
<1>2. SeenHist' /\ (page # NoPage => Hosts[Host].page)'
  BY ScanSeen
<1>3. QED
  BY <1>1, <1>2 DEF HistInv, ReadHist, PageHist

\* emb_newline, and std_newline where the host is no page.
LEMMA EndLineHist ==
  ASSUME EmbInv, LangInv, HistInv, EndLine
  PROVE  HistInv' /\ ReportsOnLine
<1>. DEFINE d == StdNewline(count, p, p + 1)
            paged == ~Embedding /\ Hosts[Host].page
            l == IF paged THEN SeenOr(lang) ELSE lang
<1>1. /\ Outside /\ Scanning /\ p < pe /\ At(p) = "nl" /\ p' = p + 1 /\ count' = d
      /\ UNCHANGED <<lang, text, stack, page, region, leaving, pc>>
      /\ Recorded({lang}, l) /\ ReadIn({lang})
      /\ seen' = IF paged THEN NoLanguage ELSE seen
  BY DEF EndLine, Newline, Token, Recorded, ReadIn
<1>2. /\ p \in Nat /\ pe \in Nat /\ p \in 0 .. pe /\ Sound(count) /\ file \in 1 .. NFiles
      /\ lang \in LangType
  BY HereParts
<1>3. ~leaving /\ ~page.leaving /\ region = NoRegion /\ (Embedding \/ page = NoPage)
  BY <1>1, NotLeaving DEF Outside, Scanning
<1>4. p + 1 \in Nat /\ p + 1 \in 0 .. pe /\ p <= p + 1 /\ p + 1 > 0 /\ ~(p + 1 <= p)
      /\ \A k \in p .. (p + 1) - 1 : k = p
  BY <1>1, <1>2
<1>5. Sound(d) /\ Adds(count.out, d.out, {p + 1}) /\ Kind(d.line) = "lblank"
  <2>1. Sound(d) /\ Adds(count.out, d.out, {p + 1}) /\ d.line = NoLine
    BY <1>2, <1>4, StdNewlineAdds, StdNewlineSound
  <2>. HIDE DEF d
  <2>2. QED
    BY <2>1 DEF Kind, NoLine
<1>. HIDE DEF d
<1>6. l \in LangType
  BY <1>2 DEF HistInv, SeenHist, SeenOr
<1>7. \E i \in LineOf(p + 1) : l \in (IF p < i /\ i <= p + 1 THEN {lang} ELSE by[i])
  <2>1. CASE l = lang
    <3>1. p + 1 \in LineOf(p + 1)
      BY <1>4, OwnLine
    <3>2. QED
      BY <1>2, <1>4, <2>1, <3>1
  <2>2. CASE l # lang
    <3>1. paged /\ l = seen /\ seen # NoLanguage
      BY <2>2 DEF SeenOr
    <3>2. SeenOnLine /\ text[p] # "nl"
      BY <1>1, <1>3, <3>1 DEF HistInv, SeenHist, InHost, Scanning
    <3>3. PICK i \in LineOf(p) : seen \in by[i]
      BY <3>2 DEF SeenOnLine
    <3>4. i \in LineOf(p + 1)
      BY <1>2, <1>4, <3>2, <3>3, OnLineMore
    <3>5. i \in 1 .. p
      BY <3>3 DEF LineOf
    <3>6. ~(p < i)
      BY <1>2, <3>5
    <3>7. QED
      BY <3>1, <3>3, <3>4, <3>6
  <2>3. QED
    BY <2>1, <2>2
<1>. HIDE DEF l
<1>8. LangsInv' /\ ReportsOnLine
  BY <1>1, <1>2, <1>4, <1>5, <1>6, <1>7, NewOnLine DEF HistInv
<1>9. ~InPage'
  BY <1>1, <1>3 DEF InPage, InHost, Embedding
<1>10. ReadHist'
  BY <1>1, <1>3, <1>5, <1>9, LineEnded
<1>11. SeenHist' /\ (page # NoPage => Hosts[Host].page)'
  <2>1. (page # NoPage => Hosts[Host].page)' /\ Host' = Host
    BY <1>1 DEF HistInv, PageHist, Host
  <2>2. seen' \in LangType
    BY <1>1 DEF HistInv, SeenHist, LangType
  <2>3. CASE Embedding
    BY <1>1, <2>1, <2>2, <2>3 DEF HistInv, SeenHist, Embedding, InHost, LangType
  <2>4. CASE ~Embedding
    BY <1>1, <2>1, <2>2, <2>4 DEF HistInv, SeenHist, Embedding, LangType
  <2>5. QED
    BY <2>3, <2>4
<1>12. QED
  BY <1>8, <1>10, <1>11 DEF HistInv, ReadHist, PageHist

-----------------------------------------------------------------------------

\* Marks report nothing, from wherever.
LEMMA MarkedOut ==
  ASSUME NEW c, Sound(c), NEW from
  PROVE  Code(c, from).out = c.out /\ Comment(c, from).out = c.out
<1>1. Ls(c, from).out = c.out /\ DOMAIN Ls(c, from) = DOMAIN c
  BY DEF Ls, Sound, CountType
<1>2. [Ls(c, from) EXCEPT !.line.comment = TRUE].out = c.out
      /\ [Ls(c, from) EXCEPT !.line.code = TRUE].out = c.out
      /\ [c EXCEPT !.line.code = TRUE].out = c.out
  BY <1>1 DEF Sound, CountType
<1>3. QED
  BY <1>2 DEF Code, Comment

LEMMA HostMarkOut ==
  ASSUME PageInv, NEW c, Sound(c), NEW from
  PROVE  HostMark(c, from).out = c.out
<1>1. CASE page = NoPage
  BY <1>1, MarkedOut, DequeueSound, DequeueParts DEF HostMark
<1>2. CASE page # NoPage
  <2>1. page.open \in {"<!--", "'", "\""}
    BY <1>2 DEF PageInv
  <2>2. CASE page.open = "<!--"
    BY <1>2, <2>2, MarkedOut DEF HostMark
  <2>3. CASE page.open \in {"'", "\""}
    BY <1>2, <2>3, MarkedOut DEF HostMark
  <2>4. QED
    BY <2>1, <2>2, <2>3
<1>3. QED
  BY <1>1, <1>2

LEMMA SawBlank ==
  ASSUME NEW c, Sound(c)
  PROVE  Kind(Saw(c).line) = "lblank"
  BY DEF Saw, Kind, Sound, CountType, LineType

\* What a call leaves to show.
LEMMA CallHist ==
  ASSUME EmbInv, HistInv, InHost, NEW e \in Entries, Call(e), page' # NoPage => page # NoPage,
         ReadHist', LangsInv', Host' = Host
  PROVE  HistInv'
<1>1. e.lang \in DOMAIN Scanners \ DOMAIN Hosts
  BY InHostParts, EntryParts DEF Entries
<1>2. lang' = e.lang /\ seen' = e.lang
  BY DEF Call
<1>3. SeenHist'
  BY <1>1, <1>2 DEF SeenHist, Embedding, InHost, LangType
<1>4. (page # NoPage => Hosts[Host].page)'
  BY DEF HistInv, PageHist
<1>5. QED
  BY <1>3, <1>4 DEF HistInv, ReadHist, PageHist

LEMMA EnterHist ==
  ASSUME EmbInv, LangInv, HistInv, Enter
  PROVE  HistInv' /\ ReportsOnLine
<1>1. /\ InHost /\ page = NoPage /\ Outside /\ p < pe /\ region = NoRegion
      /\ UNCHANGED <<text, pc, region, leaving, page>>
  BY DEF Enter, Scanning, InHost, Outside
<1>2. /\ Sound(count) /\ p \in Nat /\ pe \in Nat /\ file \in 1 .. NFiles
      /\ Host \in DOMAIN Hosts /\ lang \in LangType
  BY <1>1, InHostParts, HereParts
<1>3. ~leaving /\ ~page.leaving
  BY <1>1, NotLeaving
<1>. DEFINE c == Code(count, p)
<1>4. PICK e \in Entries :
         /\ At(p) = e.open /\ Call(e)
         /\ Recorded({lang, e.lang}, IF e.own THEN e.lang ELSE lang)
         /\ \/ NewlineBehind(p + 1) = {} /\ count' = Saw(c) /\ p' = p + 1
            \/ \E n \in NewlineBehind(p + 1) :
                 count' = Saw(StdNewline(c, p, n + 1)) /\ p' = n + 1
  BY DEF Enter, c, CheckBlankEntry
<1>5. Sound(c) /\ c.out = count.out
  BY <1>2, CodeSound, MarkedOut
<1>. HIDE DEF c
<1>. DEFINE l == IF e.own THEN e.lang ELSE lang
<1>6. l \in LangType /\ l \in {lang, e.lang}
  <2>1. e.lang \in DOMAIN Scanners
    BY <1>2, EntryParts DEF Entries
  <2>2. QED
    BY <1>2, <2>1 DEF LangType
<1>7. lang' = e.lang /\ ~InPage'
  <2>1. lang' = e.lang /\ lang' \notin DOMAIN Hosts
    BY <1>2, <1>4, EntryParts DEF Call, Entries
  <2>2. QED
    BY <2>1 DEF InPage, InHost, Embedding
<1>8. Recorded({lang, e.lang}, l)
  BY <1>4
<1>. HIDE DEF l
<1>9. ReadHist' /\ LangsInv' /\ ReportsOnLine
  <2>1. CASE count' = Saw(c) /\ p' = p + 1
    <3>1. p + 1 \in 0 .. pe /\ p + 1 > 0
      BY <1>1, <1>2
    <3>2. Sound(Saw(c)) /\ Saw(c).out = count.out
      BY <1>5, SawSound
    <3>3. LangsInv' /\ ReportsOnLine
      BY <1>1, <1>6, <1>8, <2>1, <3>1, <3>2, NoneNew DEF HistInv
    <3>4. text[p + 1] # "nl"
      BY <1>2, <1>4, NoNewlineDoor DEF At
    <3>5. ReadHist'
      BY <1>1, <1>3, <2>1, <3>1, <3>4, CharRead
    <3>6. QED
      BY <3>3, <3>5
  <2>2. CASE \E n \in NewlineBehind(p + 1) :
                 count' = Saw(StdNewline(c, p, n + 1)) /\ p' = n + 1
    <3>1. PICK n \in p + 1 .. pe - 1 : count' = Saw(StdNewline(c, p, n + 1)) /\ p' = n + 1
      BY <2>2 DEF NewlineBehind
    <3>2. n + 1 \in Nat /\ n + 1 \in 0 .. pe /\ n + 1 > 0 /\ p < n + 1 /\ n + 1 <= n + 1
      BY <1>2
    <3>. DEFINE d == StdNewline(c, p, n + 1)
    <3>3. Sound(d) /\ Adds(count.out, d.out, {n + 1})
      BY <1>2, <1>5, <3>2, StdNewlineSound, StdNewlineAdds
    <3>. HIDE DEF d
    <3>4. /\ Sound(Saw(d)) /\ Adds(count.out, Saw(d).out, {n + 1})
          /\ Kind(Saw(d).line) = "lblank"
      BY <3>3, SawSound, SawBlank
    <3>5. n + 1 \in LineOf(n + 1)
      BY <3>2, OwnLine
    <3>6. count' = Saw(d) /\ p' = n + 1
      BY <3>1 DEF d
    <3>7. LangsInv' /\ ReportsOnLine
      BY <1>1, <1>2, <1>6, <1>8, <3>2, <3>4, <3>5, <3>6, NewOnLine DEF HistInv
    <3>8. ReadHist'
      BY <1>1, <1>3, <1>7, <3>4, <3>6, LineEnded
    <3>9. QED
      BY <3>7, <3>8
  <2>3. QED
    BY <1>4, <2>1, <2>2
<1>10. Host' = Host
  BY HostKept DEF EmbAct, EmbNext, Enter, EmbNextFile, NextFile, InHost
<1>11. QED
  BY <1>1, <1>4, <1>9, <1>10, CallHist

LEMMA OutryHist ==
  ASSUME AllCoded, EmbInv, LangInv, HistInv, Outry
  PROVE  HistInv' /\ ReportsOnLine
<1>. DEFINE c == Code(count, p)
<1>1. /\ Embedding /\ Outside /\ pc = "scan" /\ region = NoRegion /\ p < pe /\ p' = p + 1
      /\ Recorded({lang, Host}, lang) /\ ReadIn({lang, Host}) /\ lang' = Host
      /\ UNCHANGED <<text, pc, region, leaving, page>>
  BY DEF Outry, Outside, Recorded, ReadIn
<1>2. Sound(count) /\ p \in Nat /\ pe \in Nat /\ p \in 0 .. pe /\ lang \in LangType
  BY HereParts
<1>3. Host \in DOMAIN Hosts /\ PageInv
  BY <1>1 DEF EmbInv, StackInv, Host
<1>4. PICK e \in Entries :
         /\ At(p) \in e.outries
         /\ seen' \in {NoLanguage, seen}
         /\ count' = IF At(p) \in e.alone
                     THEN IF At(p) \in e.coded THEN c ELSE count
                     ELSE HostMark(IF At(p) \in e.coded THEN c ELSE count, p)
  BY DEF Outry
<1>5. Sound(c) /\ c.out = count.out
  BY <1>2, CodeSound, MarkedOut
<1>. HIDE DEF c
<1>6. HostMark(c, p).out = count.out /\ HostMark(count, p).out = count.out
  BY <1>2, <1>3, <1>5, HostMarkOut
<1>7. Sound(count')
  BY OutryKeeps DEF TypeInv
<1>8. PICK d \in {count'} : count' = d /\ d.out = count.out
  BY <1>4, <1>5, <1>6
<1>9. p + 1 \in Nat /\ p + 1 \in 0 .. pe /\ p + 1 > 0 /\ p + 1 \in p + 1 .. p + 1 /\ p <= pe
  BY <1>1, <1>2
<1>10. LangsInv' /\ ReportsOnLine
  BY <1>1, <1>2, <1>7, <1>8, <1>9, NoneNew DEF HistInv
<1>11. ~leaving /\ ~page.leaving /\ text[p + 1] # "nl"
  BY <1>1, <1>3, <1>4, NotLeaving, NoNewlineDoor DEF At
<1>12. ReadHist'
  BY <1>1, <1>9, <1>11, CharRead
<1>13. Host' = Host
  BY <1>1, HostKept DEF EmbAct, EmbNext, EmbNextFile, NextFile
<1>14. SeenHist'
  <2>1. seen' \in LangType /\ (seen' # NoLanguage => seen' = lang)
    BY <1>1, <1>4 DEF HistInv, SeenHist, LangType
  <2>2. ~Embedding'
    BY <1>1, <1>3 DEF Embedding
  <2>3. seen' # NoLanguage => SeenOnLine'
    <3>1. by'[p + 1] = {lang, Host}
      BY <1>1, <1>2, <1>9, ReadKept
    <3>2. PICK q \in {p + 1} : p' = q /\ q > 0 /\ q \in Nat /\ by'[q] = {lang, Host}
      BY <1>1, <1>9, <3>1
    <3>3. q \in LineOf(q)'
      BY <3>2 DEF LineOf
    <3>4. seen' # NoLanguage => \E j \in LineOf(q)' : seen' \in by'[j]
      BY <2>1, <3>2, <3>3
    <3>5. QED
      BY <3>2, <3>4 DEF SeenOnLine, LineOf
  <2>4. QED
    BY <1>1, <1>11, <2>1, <2>2, <2>3 DEF SeenHist, LangType
<1>15. (page # NoPage => Hosts[Host].page)'
  BY <1>1, <1>13 DEF HistInv, PageHist
<1>16. QED
  BY <1>10, <1>12, <1>14, <1>15 DEF HistInv, ReadHist, PageHist

\* What was seen stays so while the line goes on with p.
LEMMA SeenStays ==
  ASSUME EmbInv, LangInv, HistInv, InHost, ~page.leaving,
         Hosts[Host].page, text[p] # "nl" \/ seen = NoLanguage,
         p < pe, p' = p + 1, NEW ls, ReadIn(ls),
         UNCHANGED <<text, seen, lang, stack>>, page'.leaving \/ At(p) # "nl"
  PROVE  SeenHist'
<1>1. p \in Nat /\ pe \in Nat
  BY HereParts
<1>2. seen' \in LangType /\ ~Embedding'
  BY DEF HistInv, SeenHist, LangType, InHost, Embedding
<1>3. CASE seen = NoLanguage
  BY <1>2, <1>3 DEF SeenHist
<1>4. CASE seen # NoLanguage
  <2>1. SeenOnLine
    BY <1>4 DEF HistInv, SeenHist
  <2>2. p + 1 \in p + 1 .. pe /\ \A k \in p + 1 .. (p + 1) - 1 : FALSE
    BY <1>1
  <2>3. SeenOnLine'
    BY <1>4, <2>1, <2>2, SeenMore
  <2>4. page'.leaving \/ text'[p'] # "nl"
    BY DEF At
  <2>5. QED
    BY <1>2, <2>3, <2>4 DEF SeenHist
<1>5. QED
  BY <1>3, <1>4

LEMMA OpenPageHist ==
  ASSUME EmbInv, LangInv, HistInv, OpenPage
  PROVE  HistInv' /\ ReportsOnLine
<1>1. /\ InHost /\ pc = "scan" /\ region = NoRegion /\ page = NoPage /\ p < pe /\ p' = p + 1
      /\ At(p) # "nl" /\ Hosts[Host].page
      /\ page' = [NoPage EXCEPT !.open = At(p)]
      /\ count' \in {Code(count, p), Comment(count, p)}
      /\ Recorded({lang}, lang) /\ ReadIn({lang})
      /\ UNCHANGED <<lang, text, pc, region, leaving, stack, seen>>
  BY DEF OpenPage, InHost, Scanning, Outside, PageOpeners, Recorded, ReadIn
<1>2. Sound(count) /\ p \in Nat /\ pe \in Nat /\ p \in 0 .. pe /\ lang \in LangType
  BY HereParts
<1>3. PICK d \in {count'} : count' = d /\ d.out = count.out /\ Sound(d)
  BY <1>1, <1>2, MarkedOut, OpenPageKeeps DEF TypeInv
<1>4. p + 1 \in 0 .. pe /\ p + 1 > 0
  BY <1>1, <1>2
<1>5. LangsInv' /\ ReportsOnLine
  BY <1>1, <1>2, <1>3, <1>4, NoneNew DEF HistInv
<1>6. ~leaving /\ ~page.leaving /\ page'.leaving = FALSE
  BY <1>1, NotLeaving DEF NoPage
<1>7. ReadHist'
  BY <1>1, <1>4, <1>6, CharRead DEF At
<1>8. SeenHist'
  <2>1. text[p] # "nl" \/ seen = NoLanguage
    BY <1>1, <1>6 DEF HistInv, SeenHist
  <2>2. QED
    BY <1>1, <1>6, <2>1, SeenStays
<1>9. (page # NoPage => Hosts[Host].page)'
  BY <1>1 DEF Host
<1>10. QED
  BY <1>5, <1>7, <1>8, <1>9 DEF HistInv, ReadHist, PageHist

-----------------------------------------------------------------------------
(* The comments and strings of pages.                                      *)

\* emb_internal_newline reports at most one line, in a language on it.
LEMMA PageLeaveAdds ==
  ASSUME EmbInv, LangInv, HistInv, InPage
  PROVE  LET c == PageLeave(count)
         IN  /\ Sound(c) /\ Len(c.out) <= Len(count.out) + 1
             /\ Adds(count.out, c.out, IF page.leaving THEN {p} ELSE {})
<1>1. /\ p \in Nat /\ Sound(count) /\ file \in 1 .. NFiles /\ count.line.start # NULL
  BY HereParts DEF InPage, EmbInv, PageInv
<1>2. Sound(PageLeave(count))
  BY PageLeaveSound
<1>3. count.out \in Seq(CallbackType) /\ Len(count.out) \in Nat
  BY <1>1, SoundParts, LenProperties
<1>4. CASE ~page.leaving
  BY <1>2, <1>3, <1>4, AddsNone DEF PageLeave
<1>5. CASE page.leaving
  <2>. DEFINE c == InternalNewline(count, p)
  <2>1. PageLeave(count) = c
    BY <1>5 DEF PageLeave
  <2>2. Adds(count.out, c.out, {p})
    BY <1>1, InternalNewlineAdds
  <2>3. PICK item \in CallbackType : c.out = count.out \/ c.out = Append(count.out, item)
    BY <1>1, InternalNewlineParts
  <2>. HIDE DEF c
  <2>4. Len(c.out) <= Len(count.out) + 1
    BY <1>3, <2>3, AppendProperties
  <2>5. QED
    BY <1>2, <1>5, <2>1, <2>2, <2>4
<1>6. QED
  BY <1>4, <1>5

\* What was seen or the host's language is one of the line being left.
LEMMA LeftLanguage ==
  ASSUME EmbInv, LangInv, HistInv, InPage
  PROVE  /\ SeenOr(lang) \in LangType
         /\ page.leaving => p > 0 /\ \E i \in LineOf(p) : i <= p /\ SeenOr(lang) \in by[i]
<1>1. p \in Nat /\ lang \in LangType /\ pc = "scan" /\ InHost /\ Hosts[Host].page
  BY HereParts DEF InPage, InHost, HistInv, PageHist
<1>2. SeenOr(lang) \in LangType
  BY <1>1 DEF SeenOr, HistInv, SeenHist
<1>3. ASSUME page.leaving
      PROVE  p > 0 /\ \E i \in LineOf(p) : i <= p /\ SeenOr(lang) \in by[i]
  <2>1. p \in 1 .. p /\ lang \in by[p]
    BY <1>1, <1>3 DEF HistInv, LeaveHist, PlacesRead
  <2>2. p > 0 /\ p \in LineOf(p) /\ p <= p
    BY <1>1, <2>1, OwnLine
  <2>3. CASE seen = NoLanguage
    BY <2>1, <2>2, <2>3 DEF SeenOr
  <2>4. CASE seen # NoLanguage
    <3>1. PICK i \in LineOf(p) : seen \in by[i]
      BY <1>1, <2>4 DEF HistInv, SeenHist, SeenOnLine
    <3>2. i \in 1 .. p
      BY DEF LineOf
    <3>3. i <= p
      BY <1>1, <3>2
    <3>4. QED
      BY <2>2, <2>4, <3>1, <3>3 DEF SeenOr
  <2>5. QED
    BY <2>3, <2>4
<1>4. QED
  BY <1>2, <1>3

LEMMA PageNew ==
  ASSUME EmbInv, LangInv, HistInv, InPage, p < pe, p' = p + 1, UNCHANGED text,
         NEW d, count' = d, Sound(d), d.out = PageLeave(count).out,
         NEW ls, Recorded(ls, SeenOr(lang))
  PROVE  LangsInv' /\ ReportsOnLine
<1>. DEFINE E == IF page.leaving THEN {p} ELSE {}
            l == SeenOr(lang)
<1>1. p \in Nat /\ pe \in Nat /\ Sound(count) /\ p + 1 \in 0 .. pe
  BY HereParts
<1>2. Adds(count.out, d.out, E)
  BY PageLeaveAdds
<1>3. l \in LangType /\ (page.leaving => \E i \in LineOf(p) : i <= p /\ l \in by[i])
  BY LeftLanguage
<1>. HIDE DEF l
<1>4. ASSUME NEW e \in E
      PROVE  \E i \in LineOf(e) : l \in (IF p < i /\ i <= p + 1 THEN ls ELSE by[i])
  <2>1. e = p /\ page.leaving
    BY <1>4
  <2>2. PICK i \in LineOf(e) : i <= p /\ l \in by[i]
    BY <1>3, <2>1
  <2>3. i \in 1 .. p
    BY <2>1, <2>2 DEF LineOf
  <2>4. ~(p < i)
    BY <1>1, <2>3
  <2>5. QED
    BY <2>2, <2>4
<1>. HIDE DEF E
<1>5. Recorded(ls, l)
  BY DEF l
<1>6. QED
  BY <1>1, <1>2, <1>3, <1>4, <1>5, NewOnLine DEF HistInv

LEMMA ReadPageHist ==
  ASSUME EmbInv, LangInv, HistInv, ReadPage \/ ClosePage
  PROVE  HistInv' /\ ReportsOnLine
<1>. DEFINE c == PageLeave(count)
<1>1. /\ InPage /\ p < pe /\ p' = p + 1 /\ seen' = SeenLeft
      /\ Recorded({lang}, SeenOr(lang)) /\ ReadIn({lang})
      /\ UNCHANGED <<lang, text, pc, region, leaving, stack>>
      /\ count' \in {c, PageMark(c)}
  BY DEF ReadPage, ClosePage, PageStep, Recorded, ReadIn
<1>2. /\ p \in Nat /\ pe \in Nat /\ p \in 0 .. pe /\ pc = "scan" /\ InHost /\ page # NoPage
      /\ PageInv /\ page \in PageType
  BY <1>1, HereParts DEF InPage, InHost, EmbInv, PageInv
<1>3. region = NoRegion /\ ~leaving
  BY <1>2 DEF PageInv, InHost, EmbInv, TypeInv, ReadingInv
<1>4. Sound(c) /\ PageMark(c).out = c.out
  BY <1>1, <1>2, PageLeaveAdds, HostMarkOut DEF PageMark
<1>5. Sound(count')
  BY ReadPageKeeps DEF TypeInv
<1>. HIDE DEF c
<1>6. PICK d \in {count'} : count' = d /\ d.out = c.out
  BY <1>1, <1>4
<1>7. LangsInv' /\ ReportsOnLine
  BY <1>1, <1>5, <1>6, PageNew DEF c
<1>8. p + 1 \in Nat /\ p + 1 > 0 /\ p + 1 \in 0 .. pe /\ p + 1 \in p + 1 .. p + 1
      /\ p + 1 \in 1 .. p + 1 /\ p <= pe
  BY <1>1, <1>2
<1>9. \/ ~page'.leaving /\ At(p) # "nl"
      \/ page'.leaving /\ At(p) = "nl"
  <2>1. CASE ReadPage
    <3>. DEFINE t == page.tagged \/ (At(p) \in Tags /\ ~Escaped)
                x == At(p) = "bs" /\ page.open # "<!--" /\ ~Escaped
                next == [page EXCEPT !.tagged = t, !.escaped = x, !.leaving = (At(p) = "nl")]
    <3>1. page' = next
      BY <2>1 DEF ReadPage, PageStep
    <3>. HIDE DEF t, x
    <3>2. next.leaving = (At(p) = "nl")
      BY <1>2 DEF PageType
    <3>3. QED
      BY <3>1, <3>2
  <2>2. CASE ClosePage
    <3>1. page' = NoPage /\ At(p) = PageClose
      BY <2>2 DEF ClosePage, PageStep
    <3>2. QED
      BY <1>2, <3>1 DEF PageClose, PageInv, NoPage
  <2>3. QED
    BY <2>1, <2>2
<1>10. ReadHist'
  <2>1. CASE ~page'.leaving /\ At(p) # "nl"
    BY <1>1, <1>3, <1>8, <2>1, CharRead DEF At
  <2>2. CASE page'.leaving /\ At(p) = "nl"
    <3>1. by'[p + 1] = {lang}
      BY <1>1, <1>2, <1>8, ReadKept
    <3>2. p + 1 \in PlacesRead'
      BY <1>1, <1>8, <3>1 DEF PlacesRead
    <3>3. text'[p'] = "nl"
      BY <1>1, <2>2 DEF At
    <3>4. QED
      BY <1>1, <1>3, <1>8, <2>2, <3>2, <3>3
         DEF ReadHist, RegionHist, LeaveHist, PageLine, BlankHist, Within
  <2>3. QED
    BY <1>9, <2>1, <2>2
<1>11. (page # NoPage => Hosts[Host].page)'
  BY <1>1, <1>2 DEF HistInv, PageHist, Host
<1>12. SeenHist'
  <2>1. CASE page.leaving
    BY <1>1, <1>2, <2>1 DEF SeenLeft, SeenHist, LangType, InHost, Embedding
  <2>2. CASE ~page.leaving
    <3>1. UNCHANGED seen
      BY <1>1, <2>2 DEF SeenLeft
    <3>2. text[p] # "nl" /\ Hosts[Host].page
      BY <1>1, <1>2, <2>2 DEF HistInv, PageHist, PageLine
    <3>3. QED
      BY <1>1, <1>2, <1>9, <2>2, <3>1, <3>2, SeenStays
  <2>3. QED
    BY <2>1, <2>2
<1>13. QED
  BY <1>7, <1>10, <1>11, <1>12 DEF HistInv, ReadHist, PageHist

LEMMA EnterFromPageHist ==
  ASSUME EmbInv, LangInv, HistInv, EnterFromPage
  PROVE  HistInv' /\ ReportsOnLine
<1>. DEFINE c == PageLeave(count)
            d == Saw(PageMark(c))
<1>1. PICK e \in Entries :
        /\ InPage /\ p < pe /\ p' = p + 1 /\ At(p) = e.open /\ Call(e)
        /\ Recorded({lang, e.lang}, SeenOr(lang)) /\ count' = d
        /\ page' = [page EXCEPT !.tagged = TRUE, !.escaped = FALSE, !.leaving = FALSE]
        /\ UNCHANGED <<text, pc, region, leaving>>
  BY DEF EnterFromPage, PageStep
<1>2. /\ p \in Nat /\ pe \in Nat /\ InHost /\ page # NoPage /\ Host \in DOMAIN Hosts
      /\ PageInv /\ page \in PageType
  BY <1>1, HereParts, InHostParts DEF InPage, EmbInv, PageInv
<1>3. region = NoRegion /\ ~leaving
  BY <1>2 DEF PageInv, InHost, EmbInv, TypeInv, ReadingInv
<1>4. Sound(d) /\ d.out = c.out
  <2>1. Sound(c) /\ PageMark(c).out = c.out /\ Sound(PageMark(c))
    BY <1>1, <1>2, PageLeaveAdds, HostMarkOut, PageMarkSound DEF PageMark
  <2>2. QED
    BY <2>1, SawSound
<1>. HIDE DEF d
<1>5. LangsInv' /\ ReportsOnLine
  BY <1>1, <1>4, PageNew
<1>6. text[p + 1] # "nl"
  BY <1>1, <1>2, NoNewlineDoor DEF At
<1>7. page'.leaving = FALSE /\ p + 1 > 0
  <2>. DEFINE next == [page EXCEPT !.tagged = TRUE, !.escaped = FALSE, !.leaving = FALSE]
  <2>1. page' = next
    BY <1>1
  <2>2. next.leaving = FALSE
    BY <1>2 DEF PageType
  <2>3. QED
    BY <1>2, <2>1, <2>2
<1>8. ReadHist'
  BY <1>1, <1>3, <1>6, <1>7, CharRead
<1>9. Host' = Host
  BY <1>2, HostKept DEF EmbAct, EmbNext, EmbNextFile, NextFile, InHost
<1>10. QED
  BY <1>1, <1>2, <1>5, <1>8, <1>9, CallHist

\* Only the line being left ends with a newline when the scanner stops.
LEMMA StopInPageHist ==
  ASSUME EmbInv, LangInv, HistInv, StopInPage
  PROVE  HistInv' /\ ReportsOnLine
<1>. DEFINE c == PageLeave(count)
            d == LastLine(c)
            n == Len(count.out)
            m == Len(d.out) - n
            new == [x \in 1 .. m |-> IF page.leaving /\ x = 1 THEN SeenOr(lang) ELSE lang]
<1>1. /\ InPage /\ p < pe /\ count' = d /\ pc' = "parsed" /\ seen' = SeenLeft
      /\ UNCHANGED <<lang, text, file, p, region, stack, page, by>>
      /\ langs' = langs \o new
  BY DEF StopInPage
<1>2. /\ p \in Nat /\ pe \in Nat /\ lang \in LangType /\ file \in 1 .. NFiles /\ ~Embedding
      /\ count.out \in Seq(CallbackType) /\ n \in Nat
  BY <1>1, HereParts, LenProperties DEF InPage, InHost
<1>3. /\ Sound(c) /\ Len(c.out) <= n + 1
      /\ Adds(count.out, c.out, IF page.leaving THEN {p} ELSE {})
  BY <1>1, PageLeaveAdds
<1>. HIDE DEF c
<1>4. Sound(d) /\ Adds(c.out, d.out, {pe})
  BY <1>2, <1>3, LastLineAdds, LastLineSound
<1>. HIDE DEF d
<1>5. /\ c.out \in Seq(CallbackType) /\ d.out \in Seq(CallbackType)
      /\ Len(c.out) \in Nat /\ Len(d.out) \in Nat
  BY <1>3, <1>4, SoundParts, LenProperties
<1>6. m \in Nat /\ n + m = Len(d.out) /\ n <= Len(c.out)
  BY <1>2, <1>3, <1>4, <1>5 DEF Adds
<1>7. SeenOr(lang) \in LangType
  BY <1>1, LeftLanguage
<1>. HIDE DEF m, n
<1>8. new \in Seq(LangType) /\ Len(new) = m
  <2>1. new \in [1 .. m -> LangType]
    BY <1>2, <1>7
  <2>2. new \in Seq(LangType)
    BY <1>6, <2>1, SeqDef
  <2>3. DOMAIN new = 1 .. Len(new) /\ DOMAIN new = 1 .. m /\ Len(new) \in Nat
    BY <2>1, <2>2, LenProperties
  <2>. DEFINE k == Len(new)
  <2>4. k \in Nat /\ 1 .. k = 1 .. m
    BY <2>3
  <2>. HIDE DEF k
  <2>5. k = m
    BY <1>6, <2>4
  <2>6. QED
    BY <2>2, <2>5 DEF k
<1>9. /\ langs' \in Seq(LangType) /\ Len(langs') = n + m
      /\ \A k \in n + 1 .. n + m : langs'[k] = new[k - n]
  <2>. HIDE DEF new
  <2>1. langs \in Seq(LangType) /\ Len(langs) = n
    BY DEF HistInv, LangsInv, n
  <2>2. QED
    BY <1>1, <1>8, <2>1, ConcatProperties
<1>10. LangsInv'
  BY <1>1, <1>6, <1>9 DEF LangsInv, LangType
<1>11. ASSUME NEW k \in Ended', k > n
       PROVE  OnLine(k)'
  <2>. DEFINE e == d.out[k].e
  <2>1. k \in DOMAIN d.out /\ DOMAIN d.out = 1 .. Len(d.out) /\ e <= p /\ text[e] = "nl"
    BY <1>1, <1>5, <1>11, LenProperties DEF Ended, Lines
  <2>2. k \in n + 1 .. Len(d.out) /\ k \in n + 1 .. n + m
    BY <1>2, <1>6, <1>11, <2>1
  <2>3. k \in Len(c.out) + 1 .. Len(d.out) => e = pe
    BY <1>4 DEF Adds
  <2>4. k \in n + 1 .. Len(c.out)
    BY <1>1, <1>2, <1>5, <1>6, <2>1, <2>2, <2>3
  <2>5. k \in 1 .. Len(c.out)
    BY <1>2, <1>5, <2>4
  <2>6. d.out[k] = c.out[k]
    BY <1>4, <2>5 DEF Adds
  <2>7. c.out[k].e \in (IF page.leaving THEN {p} ELSE {})
    BY <1>3, <2>4 DEF Adds, n
  <2>8. page.leaving /\ e = p
    BY <2>6, <2>7
  <2>9. k - n = 1 /\ k - n \in 1 .. m
    BY <1>2, <1>3, <1>5, <1>6, <2>2, <2>4
  <2>10. langs'[k] = SeenOr(lang)
    BY <1>9, <2>2, <2>8, <2>9
  <2>11. PICK i \in LineOf(p) : i <= p /\ SeenOr(lang) \in by[i]
    BY <1>1, <2>8, LeftLanguage
  <2>12. i \in 1 .. p /\ i > 0 /\ \A x \in i .. p - 1 : text[x] # "nl"
    BY <1>2, <2>11 DEF LineOf
  <2>13. count'.out[k].e = p /\ text' = text
    BY <1>1, <2>8
  <2>. HIDE DEF e
  <2>14. i \in {j \in 1 .. count'.out[k].e :
                 \A x \in j .. count'.out[k].e - 1 : text'[x] # "nl"}
    BY <2>12, <2>13
  <2>15. QED
    BY <1>1, <2>10, <2>11, <2>12, <2>14 DEF OnLine, LineOf
<1>12. ReportsOnLine
  BY <1>11 DEF ReportsOnLine, n
<1>13. ReadHist'
  BY <1>1 DEF ReadHist, RegionHist, LeaveHist, PageLine, BlankHist, Within, Outside,
              InPage, InHost
<1>14. SeenHist' /\ (page # NoPage => Hosts[Host].page)'
  <2>1. seen' \in LangType
    BY <1>1 DEF HistInv, SeenHist, SeenLeft, LangType
  <2>2. SeenHist'
    BY <1>1, <1>2, <2>1 DEF SeenHist, Embedding, InHost, LangType
  <2>3. QED
    BY <1>1, <2>2 DEF HistInv, PageHist, Host
<1>15. QED
  BY <1>10, <1>12, <1>13, <1>14 DEF HistInv, ReadHist, PageHist

LEMMA EmbEndOfTextHist ==
  ASSUME EmbInv, LangInv, HistInv, EmbEndOfText
  PROVE  HistInv' /\ ReportsOnLine
<1>. DEFINE d == LastLine(count)
<1>1. /\ Outside /\ count' = d /\ pc' = "parsed" /\ Recorded({}, Host)
      /\ UNCHANGED <<lang, text, file, p, region, stack, seen, page>>
  BY DEF EmbEndOfText, EndOfText
<1>2. /\ p \in Nat /\ pe \in Nat /\ p \in 0 .. pe /\ Sound(count) /\ file \in 1 .. NFiles
      /\ lang \in LangType /\ pc = "scan"
  BY <1>1, HereParts DEF Outside
<1>3. /\ Sound(d) /\ Adds(count.out, d.out, {pe})
      /\ Kind(count.line) = "lblank" => d.out = count.out
  BY <1>2, LastLineAdds, LastLineSound
<1>. HIDE DEF d
<1>4. Host \in LangType
  <2>1. CASE Embedding
    BY <2>1, HostsAssumption DEF EmbInv, StackInv, Host, LangType
  <2>2. CASE ~Embedding
    BY <1>2, <2>2 DEF EmbInv, StackInv, Host
  <2>3. QED
    BY <2>1, <2>2
<1>5. LangsInv' /\ ReportsOnLine
  <2>1. CASE Kind(count.line) = "lblank"
    BY <1>1, <1>2, <1>3, <1>4, <2>1, NoneNew DEF HistInv
  <2>2. CASE Kind(count.line) # "lblank"
    <3>1. pe > 0
      <4>1. count.line.start \in Nat
        BY <1>2, <2>2, SaysStarted, SoundParts DEF Sound, CountType
      <4>2. count.line.start < pe
        BY <1>2, <2>2 DEF EmbInv, TextInv
      <4>3. QED
        BY <1>2, <4>1, <4>2
    <3>2. ASSUME pe <= p, text[pe] = "nl"
          PROVE  \E i \in LineOf(pe) : Host \in (IF p < i /\ i <= p THEN {} ELSE by[i])
      <4>1. pe = p
        BY <1>2, <3>2
      <4>2. page.leaving
        BY <1>1, <2>2, <3>1, <3>2, <4>1 DEF HistInv, BlankHist
      <4>3. Host = lang
        BY <4>2 DEF EmbInv, PageInv, StackInv, Host
      <4>4. lang \in by[p]
        BY <1>2, <4>2 DEF HistInv, LeaveHist, PlacesRead
      <4>5. p \in LineOf(p) /\ ~(p < p)
        BY <1>2, <3>1, <4>1, OwnLine
      <4>6. QED
        BY <4>1, <4>3, <4>4, <4>5
    <3>3. QED
      BY <1>1, <1>2, <1>3, <1>4, <3>2, NewOnLine DEF HistInv
  <2>3. QED
    BY <2>1, <2>2
<1>6. ReadHist'
  BY <1>1 DEF ReadHist, RegionHist, LeaveHist, PageLine, BlankHist, Within, Outside,
              InPage, InHost
<1>7. SeenHist' /\ (page # NoPage => Hosts[Host].page)'
  BY <1>1 DEF HistInv, SeenHist, PageHist, Host, Embedding, InHost, LangType
<1>8. QED
  BY <1>5, <1>6, <1>7 DEF HistInv, ReadHist, PageHist

-----------------------------------------------------------------------------

LEMMA EmptyLangs == <<>> \in Seq(LangType) /\ Len(<<>>) = 0
  OBVIOUS

LEMMA HistInit == EmbInit => HistInv
<1>. SUFFICES ASSUME EmbInit PROVE HistInv
  OBVIOUS
<1>1. /\ langs = <<>> /\ count.out = <<>> /\ region = NoRegion /\ ~leaving /\ page = NoPage
      /\ p = 0 /\ seen = NoLanguage /\ ~Embedding
  BY DEF EmbInit, Init, CountInit, Embedding
<1>2. NoPage.leaving = FALSE /\ NoLanguage \in LangType
  BY DEF NoPage, LangType
<1>3. QED
  BY <1>1, <1>2, EmptyLangs DEF HistInv, LangsInv, RegionHist, LeaveHist, PageHist, PageLine,
     BlankHist, SeenHist, Within, InPage

LEMMA NextFileHist ==
  ASSUME EmbInv, HistInv, EmbNextFile
  PROVE  HistInv' /\ ReportsOnLine
<1>1. /\ langs' = <<>> /\ count' = StartFile(count) /\ page' = NoPage /\ p' = 0
      /\ seen' = NoLanguage /\ lang' \in DOMAIN Hosts /\ pc = "parsed"
      /\ UNCHANGED <<region, leaving>>
  BY DEF EmbNextFile, NextFile
<1>2. count'.out = <<>>
  BY <1>1 DEF StartFile, EmbInv, TypeInv, Sound, CountType
<1>3. region' = NoRegion /\ ~leaving'
  BY <1>1 DEF EmbInv, TypeInv, ReadingInv
<1>4. NoPage.leaving = FALSE /\ NoLanguage \in LangType
  BY DEF NoPage, LangType
<1>5. HistInv'
  BY <1>1, <1>2, <1>3, <1>4, EmptyLangs DEF HistInv, LangsInv, RegionHist, LeaveHist,
     PageHist, PageLine, BlankHist, SeenHist, Within, InPage, Embedding, LangType
<1>6. Ended' = {}
  BY <1>2 DEF Ended, Lines
<1>7. QED
  BY <1>5, <1>6 DEF ReportsOnLine

LEMMA HistStep ==
  ASSUME AllCoded, EmbInv, LangInv, HistInv, EmbNext
  PROVE  HistInv' /\ ReportsOnLine
  BY ScanHist, EndLineHist, EnterHist, OutryHist, OpenPageHist, ReadPageHist,
     EnterFromPageHist, StopInPageHist, EmbEndOfTextHist, NextFileHist DEF EmbNext

LEMMA HistSame ==
  ASSUME HistInv, UNCHANGED allVars
  PROVE  HistInv'
  BY DEF allVars, embVars, vars, HistInv, LangsInv, LangType, RegionHist, LeaveHist, PageHist,
     PageLine, BlankHist, SeenHist, SeenOnLine, LineOf, PlacesRead, Within, Outside, InPage,
     InHost, Embedding, Host, At

\* In pages with hosts all of whose outries are code of the host, a line that a
\* newline ends is reported in a language that something on it was read in: what
\* emb_newline and emb_internal_newline report was seen on that line or is the
\* language of the newline, whoever calls, returns or goes back, and what was
\* seen on an earlier line or in an earlier file is forgotten.
THEOREM PageLanguageOnLine == ASSUME AllCoded PROVE EmbSpec => LanguageOnLine
<1>1. EmbInit => LangInv /\ HistInv
  BY LangInit, HistInit
<1>2. EmbInv /\ LangInv /\ HistInv /\ [EmbNext]_allVars => LangInv' /\ HistInv'
  BY LangStep, HistStep, HistSame
<1>3. EmbInv /\ LangInv /\ HistInv /\ [EmbNext]_allVars =>
        [\A k \in Ended' : k > Len(count.out) => OnLine(k)']_allVars
  BY HistStep DEF ReportsOnLine
<1>4. QED
  BY <1>1, <1>2, <1>3, EmbInvAlways, PTL DEF EmbSpec, LanguageOnLine

-----------------------------------------------------------------------------
(* Entries, outries and what else is on a line, of any history b of any    *)
(* text t of a host h whose entries have the delimiters o.                 *)

DoorsIn(b, t, h, S) == {i \in S : t[i] # "nl" /\ h \in b[i] /\ b[i] # {h}}
SaidIn(b, t, h, S) == {i \in S \ DoorsIn(b, t, h, S) : t[i] \notin {"ws", "nl"}}
OwnIn(b, t, h, S) == UNION {b[i] : i \in SaidIn(b, t, h, S)}
OneIn(b, t, h, o, S) ==
    \A i \in DoorsIn(b, t, h, S), n \in S : t[i] \in o /\ n < i => b[n] = {h}
RightIn(b, t, h, o, S, l) ==
    OneIn(b, t, h, o, S) =>
        IF OwnIn(b, t, h, S) = {} THEN DoorsIn(b, t, h, S) # {} => l = h
        ELSE l \in OwnIn(b, t, h, S)

LEMMA AlikeLine ==
  ASSUME NEW b, NEW c, NEW t, NEW h, NEW o, NEW S, \A i \in S : c[i] = b[i]
  PROVE  /\ DoorsIn(c, t, h, S) = DoorsIn(b, t, h, S)
         /\ OwnIn(c, t, h, S) = OwnIn(b, t, h, S)
         /\ OneIn(c, t, h, o, S) <=> OneIn(b, t, h, o, S)
<1>1. DoorsIn(c, t, h, S) = DoorsIn(b, t, h, S)
  BY DEF DoorsIn
<1>2. SaidIn(c, t, h, S) = SaidIn(b, t, h, S) /\ SaidIn(b, t, h, S) \subseteq S
  BY <1>1 DEF SaidIn
<1>3. {c[i] : i \in SaidIn(c, t, h, S)} = {b[i] : i \in SaidIn(b, t, h, S)}
  BY <1>2
<1>4. OwnIn(c, t, h, S) = OwnIn(b, t, h, S)
  BY <1>3 DEF OwnIn
<1>5. OneIn(c, t, h, o, S) <=> OneIn(b, t, h, o, S)
  BY <1>1 DEF OneIn
<1>6. QED
  BY <1>1, <1>4, <1>5

\* The line goes on with places W, all of them blanks or newlines.
LEMMA BlankMore ==
  ASSUME NEW b, NEW t, NEW h, NEW o, NEW l, NEW S, NEW W,
         \A i \in W : t[i] = "nl" \/ (t[i] = "ws" /\ b[i] = {l})
  PROVE  /\ DoorsIn(b, t, h, S \cup W) = DoorsIn(b, t, h, S)
         /\ OwnIn(b, t, h, S \cup W) = OwnIn(b, t, h, S)
         /\ OneIn(b, t, h, o, S \cup W) => OneIn(b, t, h, o, S)
<1>1. \A i \in W : ~(t[i] # "nl" /\ h \in b[i] /\ b[i] # {h})
  OBVIOUS
<1>2. DoorsIn(b, t, h, S \cup W) = DoorsIn(b, t, h, S)
  BY <1>1 DEF DoorsIn
<1>3. SaidIn(b, t, h, S \cup W) = SaidIn(b, t, h, S)
  BY <1>2 DEF SaidIn
<1>4. OwnIn(b, t, h, S \cup W) = OwnIn(b, t, h, S)
  BY <1>3 DEF OwnIn
<1>5. OneIn(b, t, h, o, S \cup W) => OneIn(b, t, h, o, S)
  BY <1>2 DEF OneIn
<1>6. QED
  BY <1>2, <1>4, <1>5

\* The line goes on with something that is read in l.
LEMMA SaidMore ==
  ASSUME NEW b, NEW t, NEW h, NEW o, NEW l, NEW S, NEW i,
         t[i] \notin {"ws", "nl"}, b[i] = {l}
  PROVE  /\ DoorsIn(b, t, h, S \cup {i}) = DoorsIn(b, t, h, S)
         /\ \A y : y \in OwnIn(b, t, h, S \cup {i}) <=> y \in OwnIn(b, t, h, S) \/ y = l
         /\ OneIn(b, t, h, o, S \cup {i}) => OneIn(b, t, h, o, S)
<1>1. ~(t[i] # "nl" /\ h \in b[i] /\ b[i] # {h})
  OBVIOUS
<1>2. DoorsIn(b, t, h, S \cup {i}) = DoorsIn(b, t, h, S)
  BY <1>1 DEF DoorsIn
<1>3. i \notin DoorsIn(b, t, h, S)
  BY <1>1 DEF DoorsIn
<1>4. SaidIn(b, t, h, S \cup {i}) = SaidIn(b, t, h, S) \cup {i}
  BY <1>2, <1>3 DEF SaidIn
<1>5. ASSUME NEW y
      PROVE  y \in OwnIn(b, t, h, S \cup {i}) <=> y \in OwnIn(b, t, h, S) \/ y = l
  BY <1>4 DEF OwnIn
<1>6. OneIn(b, t, h, o, S \cup {i}) => OneIn(b, t, h, o, S)
  BY <1>2 DEF OneIn
<1>7. QED
  BY <1>2, <1>5, <1>6

\* The line goes on with entries or outries.
LEMMA DoorsMore ==
  ASSUME NEW b, NEW t, NEW h, NEW o, NEW l, l # h, NEW S, NEW W, S \cap W = {},
         \A i \in W : t[i] # "nl" /\ b[i] = {h, l}
  PROVE  /\ W \subseteq DoorsIn(b, t, h, S \cup W)
         /\ OwnIn(b, t, h, S \cup W) = OwnIn(b, t, h, S)
         /\ OneIn(b, t, h, o, S \cup W) => OneIn(b, t, h, o, S)
<1>1. \A i \in W : t[i] # "nl" /\ h \in b[i] /\ b[i] # {h}
  OBVIOUS
<1>2. DoorsIn(b, t, h, S \cup W) = DoorsIn(b, t, h, S) \cup W
  BY <1>1 DEF DoorsIn
<1>3. DoorsIn(b, t, h, S) \subseteq S
  BY DEF DoorsIn
<1>4. SaidIn(b, t, h, S \cup W) = SaidIn(b, t, h, S)
  BY <1>2, <1>3 DEF SaidIn
<1>5. OwnIn(b, t, h, S \cup W) = OwnIn(b, t, h, S)
  BY <1>4 DEF OwnIn
<1>6. OneIn(b, t, h, o, S \cup W) => OneIn(b, t, h, o, S)
  BY <1>2 DEF OneIn
<1>7. QED
  BY <1>2, <1>5, <1>6

\* Where everything is the host's, nothing else is said.
LEMMA HostOnly ==
  ASSUME NEW b, NEW t, NEW h, NEW S, \A n \in S : b[n] = {h}
  PROVE  OwnIn(b, t, h, S) \subseteq {h}
<1>1. SaidIn(b, t, h, S) \subseteq S
  BY DEF SaidIn
<1>2. QED
  BY <1>1 DEF OwnIn

\* The symbols since the last newline in the first q of t.
LineIn(t, q) == {i \in 1 .. q : \A k \in i .. q : t[k] # "nl"}

LEMMA LineMore ==
  ASSUME NEW t, NEW q \in Nat, NEW x \in Nat, q <= x, \A k \in q + 1 .. x : t[k] # "nl"
  PROVE  LineIn(t, x) = LineIn(t, q) \cup (q + 1 .. x)
<1>. SUFFICES ASSUME NEW i PROVE i \in LineIn(t, x) <=> i \in LineIn(t, q) \cup (q + 1 .. x)
  OBVIOUS
<1>1. CASE i \notin 1 .. x
  BY <1>1 DEF LineIn
<1>2. CASE i \in q + 1 .. x
  <2>1. \A k \in i .. x : k \in q + 1 .. x
    BY <1>2
  <2>2. QED
    BY <1>2, <2>1 DEF LineIn
<1>3. CASE i \in 1 .. q
  <2>1. \A k \in i .. x : k \in i .. q \/ k \in q + 1 .. x
    BY <1>3
  <2>2. \A k \in i .. q : k \in i .. x
    BY <1>3
  <2>3. i \in 1 .. x /\ i \notin q + 1 .. x
    BY <1>3
  <2>4. QED
    BY <1>3, <2>1, <2>2, <2>3 DEF LineIn
<1>4. QED
  BY <1>1, <1>2, <1>3

LEMMA LineBegins ==
  ASSUME NEW t, NEW q \in Nat, q = 0 \/ t[q] = "nl"
  PROVE  LineIn(t, q) = {}
<1>. SUFFICES ASSUME NEW i \in LineIn(t, q) PROVE FALSE
  OBVIOUS
<1>1. i \in 1 .. q /\ \A k \in i .. q : t[k] # "nl"
  BY DEF LineIn
<1>2. q \in i .. q /\ q # 0
  BY <1>1
<1>3. QED
  BY <1>1, <1>2

\* Nothing is on an empty line.
LEMMA NothingIn ==
  ASSUME NEW b, NEW t, NEW h
  PROVE  DoorsIn(b, t, h, {}) = {} /\ OwnIn(b, t, h, {}) = {}
<1>1. DoorsIn(b, t, h, {}) = {} /\ SaidIn(b, t, h, {}) = {}
  BY DEF DoorsIn, SaidIn
<1>2. QED
  BY <1>1 DEF OwnIn

\* A line that a newline ends.
LineAt(t, e) == {i \in 1 .. e : \A k \in i .. e - 1 : t[k] # "nl"}

LEMMA EndedLine ==
  ASSUME NEW t, NEW q \in Nat
  PROVE  LineAt(t, q + 1) = LineIn(t, q) \cup {q + 1}
<1>. SUFFICES ASSUME NEW i PROVE i \in LineAt(t, q + 1) <=> i \in LineIn(t, q) \cup {q + 1}
  OBVIOUS
<1>1. (q + 1) - 1 = q /\ (i \in 1 .. q + 1 <=> i \in 1 .. q \/ i = q + 1)
  OBVIOUS
<1>2. i = q + 1 => i .. q = {}
  OBVIOUS
<1>3. i \in 1 .. q => i # q + 1
  OBVIOUS
<1>4. QED
  BY <1>1, <1>2, <1>3 DEF LineAt, LineIn

LEMMA RightEnded ==
  ASSUME NEW b, NEW t, NEW h, NEW o, NEW l, NEW q \in Nat, t[q + 1] = "nl",
         RightIn(b, t, h, o, LineIn(t, q), l)
  PROVE  RightIn(b, t, h, o, LineAt(t, q + 1), l)
<1>. DEFINE S == LineIn(t, q)
<1>1. LineAt(t, q + 1) = S \cup {q + 1}
  BY EndedLine
<1>. HIDE DEF S
<1>2. /\ DoorsIn(b, t, h, S \cup {q + 1}) = DoorsIn(b, t, h, S)
      /\ OwnIn(b, t, h, S \cup {q + 1}) = OwnIn(b, t, h, S)
      /\ OneIn(b, t, h, o, S \cup {q + 1}) => OneIn(b, t, h, o, S)
  <2>1. \A i \in {q + 1} : t[i] = "nl"
    OBVIOUS
  <2>2. QED
    BY <2>1, BlankMore
<1>3. RightIn(b, t, h, o, S, l)
  BY DEF S
<1>4. QED
  BY <1>1, <1>2, <1>3 DEF RightIn

\* A line that is read alike is right alike.
LEMMA RightAlike ==
  ASSUME NEW b, NEW c, NEW t, NEW h, NEW o, NEW l, NEW S, \A i \in S : c[i] = b[i],
         RightIn(b, t, h, o, S, l)
  PROVE  RightIn(c, t, h, o, S, l)
  BY AlikeLine DEF RightIn


-----------------------------------------------------------------------------
(* A line that goes on from its first q symbols, and what the scanners     *)
(* know of it.                                                             *)

LEMMA LineKept ==
  ASSUME NEW b, NEW c, NEW t, NEW h, NEW o, NEW q \in Nat, \A i \in 1 .. q : c[i] = b[i]
  PROVE  /\ DoorsIn(c, t, h, LineIn(t, q)) = DoorsIn(b, t, h, LineIn(t, q))
         /\ OwnIn(c, t, h, LineIn(t, q)) = OwnIn(b, t, h, LineIn(t, q))
         /\ OneIn(c, t, h, o, LineIn(t, q)) <=> OneIn(b, t, h, o, LineIn(t, q))
<1>1. \A i \in LineIn(t, q) : c[i] = b[i]
  BY DEF LineIn
<1>2. QED
  BY <1>1, AlikeLine

LEMMA LineBlank ==
  ASSUME NEW b, NEW c, NEW t, NEW h, NEW o, NEW l, NEW q \in Nat, NEW x \in Nat, q <= x,
         \A i \in 1 .. q : c[i] = b[i], \A i \in q + 1 .. x : t[i] = "ws" /\ c[i] = {l}
  PROVE  /\ DoorsIn(c, t, h, LineIn(t, x)) = DoorsIn(b, t, h, LineIn(t, q))
         /\ OwnIn(c, t, h, LineIn(t, x)) = OwnIn(b, t, h, LineIn(t, q))
         /\ OneIn(c, t, h, o, LineIn(t, x)) => OneIn(b, t, h, o, LineIn(t, q))
<1>. DEFINE S == LineIn(t, q)
            W == q + 1 .. x
<1>1. LineIn(t, x) = S \cup W
  BY LineMore
<1>2. \A i \in W : t[i] = "nl" \/ (t[i] = "ws" /\ c[i] = {l})
  OBVIOUS
<1>3. /\ DoorsIn(c, t, h, S) = DoorsIn(b, t, h, S) /\ OwnIn(c, t, h, S) = OwnIn(b, t, h, S)
      /\ OneIn(c, t, h, o, S) <=> OneIn(b, t, h, o, S)
  BY LineKept
<1>. HIDE DEF S, W
<1>4. /\ DoorsIn(c, t, h, S \cup W) = DoorsIn(c, t, h, S)
      /\ OwnIn(c, t, h, S \cup W) = OwnIn(c, t, h, S)
      /\ OneIn(c, t, h, o, S \cup W) => OneIn(c, t, h, o, S)
  BY <1>2, BlankMore
<1>5. QED
  BY <1>1, <1>3, <1>4 DEF S

LEMMA LineSaid ==
  ASSUME NEW b, NEW c, NEW t, NEW h, NEW o, NEW l, NEW q \in Nat,
         \A i \in 1 .. q : c[i] = b[i], t[q + 1] \notin {"ws", "nl"}, c[q + 1] = {l}
  PROVE  /\ \A y : y \in OwnIn(c, t, h, LineIn(t, q + 1)) <=>
                     y \in OwnIn(b, t, h, LineIn(t, q)) \/ y = l
         /\ OneIn(c, t, h, o, LineIn(t, q + 1)) => OneIn(b, t, h, o, LineIn(t, q))
<1>. DEFINE S == LineIn(t, q)
<1>1. LineIn(t, q + 1) = S \cup {q + 1}
  <2>1. PICK x \in Nat : x = q + 1
    OBVIOUS
  <2>2. q + 1 .. x = {x} /\ q <= x
    BY <2>1
  <2>3. \A k \in q + 1 .. x : t[k] # "nl"
    BY <2>1, <2>2
  <2>4. LineIn(t, x) = S \cup (q + 1 .. x)
    BY <2>2, <2>3, LineMore
  <2>. HIDE DEF S
  <2>5. QED
    BY <2>1, <2>2, <2>4
<1>2. /\ OwnIn(c, t, h, S) = OwnIn(b, t, h, S)
      /\ OneIn(c, t, h, o, S) <=> OneIn(b, t, h, o, S)
  BY LineKept
<1>. HIDE DEF S
<1>3. /\ \A y : y \in OwnIn(c, t, h, S \cup {q + 1}) <=> y \in OwnIn(c, t, h, S) \/ y = l
      /\ OneIn(c, t, h, o, S \cup {q + 1}) => OneIn(c, t, h, o, S)
  BY SaidMore
<1>4. QED
  BY <1>1, <1>2, <1>3 DEF S

LEMMA LineDoors ==
  ASSUME NEW b, NEW c, NEW t, NEW h, NEW o, NEW l, l # h, NEW q \in Nat, NEW x \in Nat,
         q < x, \A i \in 1 .. q : c[i] = b[i],
         \A i \in q + 1 .. x : t[i] # "nl" /\ c[i] = {h, l}
  PROVE  /\ q + 1 \in DoorsIn(c, t, h, LineIn(t, x))
         /\ OwnIn(c, t, h, LineIn(t, x)) = OwnIn(b, t, h, LineIn(t, q))
         /\ OneIn(c, t, h, o, LineIn(t, x)) => OneIn(b, t, h, o, LineIn(t, q))
<1>. DEFINE S == LineIn(t, q)
            W == q + 1 .. x
<1>1. LineIn(t, x) = S \cup W
  BY LineMore
<1>2. S \cap W = {} /\ q + 1 \in W
  BY DEF LineIn
<1>3. /\ OwnIn(c, t, h, S) = OwnIn(b, t, h, S)
      /\ OneIn(c, t, h, o, S) <=> OneIn(b, t, h, o, S)
  BY LineKept
<1>4. \A i \in W : t[i] # "nl" /\ c[i] = {h, l}
  OBVIOUS
<1>. HIDE DEF S, W
<1>5. /\ W \subseteq DoorsIn(c, t, h, S \cup W)
      /\ OwnIn(c, t, h, S \cup W) = OwnIn(c, t, h, S)
      /\ OneIn(c, t, h, o, S \cup W) => OneIn(c, t, h, o, S)
  BY <1>2, <1>4, DoorsMore
<1>6. QED
  BY <1>1, <1>2, <1>3, <1>5 DEF S

\* If what the line goes on with is an entry, and all entries on the line have
\* nothing but the host in front of them, the line says nothing else.
LEMMA EntryHostOnly ==
  ASSUME NEW c, NEW t, NEW h, NEW o, NEW q \in Nat, NEW x \in Nat, q < x, t[q + 1] \in o,
         q + 1 \in DoorsIn(c, t, h, LineIn(t, x)), OneIn(c, t, h, o, LineIn(t, x)),
         LineIn(t, q) \subseteq LineIn(t, x)
  PROVE  OwnIn(c, t, h, LineIn(t, q)) \subseteq {h}
<1>1. \A n \in LineIn(t, q) : n < q + 1
  BY DEF LineIn
<1>2. \A n \in LineIn(t, q) : c[n] = {h}
  BY <1>1 DEF OneIn
<1>3. QED
  BY <1>2, HostOnly

LEMMA LineNew ==
  ASSUME NEW b, NEW t, NEW h, NEW q \in Nat, q = 0 \/ t[q] = "nl"
  PROVE  DoorsIn(b, t, h, LineIn(t, q)) = {} /\ OwnIn(b, t, h, LineIn(t, q)) = {}
  BY LineBegins, NothingIn

\* Nothing but blanks is between q and the next newline.
BlankTo(t, q) ==
    \E n \in q + 1 .. Len(t) : t[n] = "nl" /\ \A i \in q + 1 .. n - 1 : t[i] = "ws"

LEMMA BlankOn ==
  ASSUME NEW t, Len(t) \in Nat, NEW q \in Nat, NEW x \in Nat, q <= x, BlankTo(t, x),
         \A i \in q + 1 .. x : t[i] = "ws"
  PROVE  BlankTo(t, q)
<1>1. PICK n \in x + 1 .. Len(t) : t[n] = "nl" /\ \A i \in x + 1 .. n - 1 : t[i] = "ws"
  BY DEF BlankTo
<1>2. n \in q + 1 .. Len(t)
  BY <1>1
<1>3. \A i \in q + 1 .. n - 1 : i \in q + 1 .. x \/ i \in x + 1 .. n - 1
  BY <1>1
<1>4. QED
  BY <1>1, <1>2, <1>3 DEF BlankTo

\* What the scanner of the embedded language l has in front of it.
EmbSaysIn(b, t, h, o, l, q) ==
    OneIn(b, t, h, o, LineIn(t, q)) =>
        \/ l \in OwnIn(b, t, h, LineIn(t, q))
        \/ OwnIn(b, t, h, LineIn(t, q)) = {} /\ DoorsIn(b, t, h, LineIn(t, q)) = {}
        \/ OwnIn(b, t, h, LineIn(t, q)) \subseteq {h} /\ ~BlankTo(t, q)

\* What the host's scanner knows once it saw the language s.
HostSaysIn(b, t, h, o, s, q) ==
    OneIn(b, t, h, o, LineIn(t, q)) =>
        IF s = NoLanguage THEN OwnIn(b, t, h, LineIn(t, q)) \subseteq {h}
        ELSE s \in OwnIn(b, t, h, LineIn(t, q))

\* The flags tell whether something on the line is in the language l.
FlagsIn(b, t, h, o, l, q, line) ==
    OneIn(b, t, h, o, LineIn(t, q)) =>
        (Kind(line) # "lblank" <=> l \in OwnIn(b, t, h, LineIn(t, q)))

LEMMA EmbBlank ==
  ASSUME NEW b, NEW c, NEW t, NEW h, NEW o, NEW l, NEW q \in Nat, NEW x \in Nat, q <= x,
         Len(t) \in Nat, \A i \in 1 .. q : c[i] = b[i],
         \A i \in q + 1 .. x : t[i] = "ws" /\ c[i] = {l}, EmbSaysIn(b, t, h, o, l, q)
  PROVE  EmbSaysIn(c, t, h, o, l, x)
<1>1. /\ DoorsIn(c, t, h, LineIn(t, x)) = DoorsIn(b, t, h, LineIn(t, q))
      /\ OwnIn(c, t, h, LineIn(t, x)) = OwnIn(b, t, h, LineIn(t, q))
      /\ OneIn(c, t, h, o, LineIn(t, x)) => OneIn(b, t, h, o, LineIn(t, q))
  BY LineBlank
<1>2. BlankTo(t, x) => BlankTo(t, q)
  BY BlankOn
<1>3. QED
  BY <1>1, <1>2 DEF EmbSaysIn

LEMMA EmbKept ==
  ASSUME NEW b, NEW c, NEW t, NEW h, NEW o, NEW l, NEW q \in Nat,
         \A i \in 1 .. q : c[i] = b[i], EmbSaysIn(b, t, h, o, l, q)
  PROVE  EmbSaysIn(c, t, h, o, l, q)
  BY LineKept DEF EmbSaysIn

LEMMA EmbNew ==
  ASSUME NEW b, NEW t, NEW h, NEW o, NEW l, NEW q \in Nat, q = 0 \/ t[q] = "nl"
  PROVE  EmbSaysIn(b, t, h, o, l, q)
  BY LineNew DEF EmbSaysIn

\* A line that ends in l, or in the host.
LEMMA EmbRight ==
  ASSUME NEW b, NEW t, NEW h, NEW o, NEW l, NEW q \in Nat, Len(t) \in Nat, q < Len(t),
         t[q + 1] = "nl", EmbSaysIn(b, t, h, o, l, q)
  PROVE  RightIn(b, t, h, o, LineIn(t, q), l)
<1>1. q + 1 \in q + 1 .. Len(t) /\ q + 1 .. (q + 1) - 1 = {}
  OBVIOUS
<1>2. BlankTo(t, q)
  BY <1>1 DEF BlankTo
<1>3. QED
  BY <1>2 DEF EmbSaysIn, RightIn

LEMMA HostRight ==
  ASSUME NEW b, NEW t, NEW h, NEW o, NEW s, NEW q \in Nat, HostSaysIn(b, t, h, o, s, q),
         NEW l, l = IF s # NoLanguage THEN s ELSE h
  PROVE  RightIn(b, t, h, o, LineIn(t, q), l)
<1>. DEFINE own == OwnIn(b, t, h, LineIn(t, q))
<1>. HIDE DEF own
<1>1. OneIn(b, t, h, o, LineIn(t, q)) => IF s = NoLanguage THEN own \subseteq {h} ELSE s \in own
  BY DEF HostSaysIn, own
<1>2. own \subseteq {h} /\ own # {} => h \in own
  OBVIOUS
<1>3. QED
  BY <1>1, <1>2 DEF RightIn, own

LEMMA RightLine ==
  ASSUME NEW b, NEW c, NEW t, NEW h, NEW o, NEW l, NEW q \in Nat, t[q + 1] = "nl",
         \A i \in 1 .. q : c[i] = b[i], RightIn(b, t, h, o, LineIn(t, q), l)
  PROVE  RightIn(c, t, h, o, LineAt(t, q + 1), l)
<1>1. \A i \in LineIn(t, q) : c[i] = b[i]
  BY DEF LineIn
<1>2. RightIn(c, t, h, o, LineIn(t, q), l)
  BY <1>1, RightAlike
<1>3. QED
  BY <1>2, RightEnded


-----------------------------------------------------------------------------
(* In a straight page, what the scanners know of the line they are on.     *)

Openings == {e.open : e \in Entries}

\* The places up to p where a line that ends there is right if it is lang's.
RightPlaces ==
    {e \in 1 .. p : text[e] = "nl" =>
                      RightIn(by, text, Host, Openings, LineAt(text, e), lang)}

EmbSays == EmbSaysIn(by, text, Host, Openings, lang, p)
HostSays == HostSaysIn(by, text, Host, Openings, seen, p)
FlagsTell == FlagsIn(by, text, Host, Openings, lang, p, count.line)

\* In a region what is enqueued is right, and so is the line that is due.  Only
\* of a region that ends with the line the flags have to tell.
RegionTells ==
    /\ Telling(region)
    /\ by[ts + 1] = {lang} /\ At(ts) \notin {"ws", "nl"}
    /\ region.enqueue => Adds(<<>>, count.queue, RightPlaces)
    /\ ~region.enqueue => ~count.inqueue
    /\ leaving => text[p] = "nl" /\ p \in RightPlaces
    /\ region.newline = {} =>
         /\ lang \in OwnIn(by, text, Host, LineIn(text, p))
         /\ region.mark # "none" => Kind(count.line) # "lblank"
    /\ region.newline # {} /\ region.close = "eol" /\ ~leaving => FlagsTell

Tells ==
    /\ page = NoPage
    /\ IF Embedding THEN EmbSays ELSE HostSays
    /\ Within => Embedding /\ RegionTells
    /\ Outside => ~count.inqueue /\ (Embedding => FlagsTell)

NoEol == \A i \in 1 .. pe : text[i] # "eol"
TellInv == NoEol /\ (Straight => Tells)

\* What a step reports of lines that newlines end.
ReportsRight ==
    \A k \in Ended' : k > Len(count.out) =>
        RightIn(by', text', Host', Openings', LineAt(text', count'.out[k].e), langs'[k])

LEMMA StraightParts ==
  ASSUME EmbInv, LangInv, Straight
  PROVE  /\ Host \in DOMAIN Hosts /\ Hosts[Host].page
         /\ \A e \in Entries : /\ e.outries = e.checked /\ ~e.own /\ e.lang # Host
                               /\ e.lang \in DOMAIN Scanners \ DOMAIN Hosts
         /\ \A i \in 1 .. pe : text[i] \notin PageOpeners
         /\ Embedding => lang # Host
         /\ Embedding => \A r \in Grammar, i \in 1 .. pe : text[i] = r.open => Telling(r)
         /\ ~Embedding => lang = Host /\ Grammar = {}
<1>1. Host \in DOMAIN Hosts /\ (~Embedding => lang = Host)
  BY DEF EmbInv, StackInv, Embedding, Host
<1>2. Hosts[Host].page /\ \A e \in Entries : e.outries = e.checked /\ ~e.own
  BY DEF Straight
<1>3. \A e \in Entries : e.lang \in DOMAIN Scanners \ DOMAIN Hosts /\ e.lang # Host
  BY <1>1, EntryParts DEF Entries
<1>4. \A i \in 1 .. pe : text[i] \notin PageOpeners \cup {r.open : r \in Untold}
  BY DEF Straight
<1>5. ASSUME Embedding
      PROVE  lang # Host /\ \A r \in Grammar, i \in 1 .. pe : text[i] = r.open => Telling(r)
  <2>1. lang # Host
    BY <1>1, <1>5 DEF Embedding
  <2>2. PICK e \in Entries : e.lang = lang
    BY <2>1 DEF LangInv, Languages
  <2>3. \A r \in Grammar : r \in UNION {Scanners[f.lang] : f \in Entries}
    BY <2>2 DEF Grammar
  <2>4. \A r \in Grammar : ~Telling(r) => r \in Untold
    BY <2>3 DEF Untold
  <2>5. QED
    BY <1>4, <2>1, <2>4
<1>6. ~Embedding => Grammar = {}
  BY <1>2, NoPageRegion
<1>7. QED
  BY <1>1, <1>2, <1>3, <1>4, <1>5, <1>6

\* The file stays what it is, and so does what makes it straight.
LEMMA SameFile ==
  ASSUME EmbInv, EmbAct
  PROVE  /\ Host' = Host /\ text' = text /\ pe' = pe /\ Openings' = Openings
         /\ Straight' <=> Straight
<1>1. Host' = Host /\ text' = text
  BY HostKept
<1>2. pe' = pe /\ Entries' = Entries
  BY <1>1 DEF pe, Entries
<1>3. Openings' = Openings /\ Untold' = Untold /\ PageOpeners' = PageOpeners
  BY <1>1, <1>2 DEF Openings, Untold, PageOpeners
<1>4. Straight' <=> Straight
  BY <1>1, <1>2, <1>3 DEF Straight
<1>5. QED
  BY <1>1, <1>2, <1>3, <1>4

\* What a step reports at places where it is right.
LEMMA NewRight ==
  ASSUME EmbInv, EmbInv', LangInv, LangsInv, EmbAct,
         NEW ls, NEW l \in LangType, Recorded(ls, l), NEW E, Adds(count.out, count'.out, E),
         \A e \in E : e \in Nat /\ e <= p' /\ text[e] = "nl" =>
             RightIn(by', text, Host, Openings, LineAt(text, e), l)
  PROVE  ReportsRight
<1>. DEFINE n == Len(count.out)
<1>1. Sound(count) /\ Sound(count')
  BY HereParts DEF EmbInv, TypeInv
<1>2. PICK d \in {count'} : count' = d
  OBVIOUS
<1>3. n \in Nat /\ Len(d.out) \in Nat /\ DOMAIN d.out = 1 .. Len(d.out)
  BY <1>1, <1>2, SoundParts, LenProperties
<1>4. \A k \in n + 1 .. Len(d.out) : langs'[k] = l
  BY <1>1, <1>2, NewLangs
<1>5. Host' = Host /\ text' = text /\ Openings' = Openings
  BY SameFile
<1>. HIDE DEF n
<1>6. ASSUME NEW k \in Ended', k > n
      PROVE  RightIn(by', text', Host', Openings', LineAt(text', count'.out[k].e), langs'[k])
  <2>1. k \in 1 .. Len(d.out) /\ d.out[k].e <= p' /\ text[d.out[k].e] = "nl"
    BY <1>2, <1>3, <1>5, <1>6 DEF Ended, Lines
  <2>2. k \in n + 1 .. Len(d.out)
    BY <1>3, <1>6, <2>1
  <2>3. d.out[k].e \in E
    BY <1>2, <2>2 DEF Adds, n
  <2>4. d.out[k] \in CallbackType
    BY <1>1, <1>2, <2>1, ElementOfSeq, SoundParts
  <2>5. d.out[k].e \in Nat
    BY <2>4 DEF CallbackType
  <2>6. RightIn(by', text, Host, Openings, LineAt(text, d.out[k].e), l)
    BY <2>1, <2>3, <2>5
  <2>7. langs'[k] = l
    BY <1>4, <2>2
  <2>8. QED
    BY <1>2, <1>5, <2>6, <2>7
<1>7. QED
  BY <1>6 DEF ReportsRight, n

\* A step that reports nothing.
LEMMA NoneRight ==
  ASSUME EmbInv, count'.out = count.out
  PROVE  ReportsRight
<1>1. count.out \in Seq(CallbackType)
  BY HereParts
<1>2. Len(count.out) \in Nat /\ DOMAIN count.out = 1 .. Len(count.out)
  BY <1>1, LenProperties
<1>3. \A k \in Ended' : k \in 1 .. Len(count.out)
  BY <1>2 DEF Ended, Lines
<1>4. \A k \in Ended' : ~(k > Len(count.out))
  BY <1>2, <1>3
<1>5. QED
  BY <1>4 DEF ReportsRight

\* What is reported in lang at right places, while at most what is behind p is
\* read.
LEMMA PlacesRight ==
  ASSUME EmbInv, EmbInv', LangInv, LangsInv, EmbAct, NEW ls, Recorded(ls, lang),
         Adds(count.out, count'.out, RightPlaces)
  PROVE  ReportsRight
<1>1. /\ p \in Nat /\ pe \in Nat /\ p <= pe /\ lang \in LangType
      /\ ReadIn(ls)
  BY HereParts DEF Recorded, ReadIn
<1>2. \A i \in 1 .. p : by'[i] = by[i]
  BY <1>1 DEF ReadIn, LangInv
<1>3. ASSUME NEW e \in RightPlaces, text[e] = "nl"
      PROVE  RightIn(by', text, Host, Openings, LineAt(text, e), lang)
  <2>1. e \in 1 .. p /\ RightIn(by, text, Host, Openings, LineAt(text, e), lang)
    BY <1>3 DEF RightPlaces
  <2>2. \A i \in LineAt(text, e) : by'[i] = by[i]
    BY <1>1, <1>2, <2>1 DEF LineAt
  <2>3. QED
    BY <2>1, <2>2, RightAlike
<1>4. QED
  BY <1>1, <1>3, NewRight

\* Right places stay right.
LEMMA RightMore ==
  ASSUME EmbInv, LangInv, EmbAct, NEW ls, ReadIn(ls), p <= p', p' \in Nat, UNCHANGED lang
  PROVE  RightPlaces \subseteq RightPlaces'
<1>1. p \in Nat /\ pe \in Nat /\ p <= pe
  BY HereParts
<1>2. \A i \in 1 .. p : by'[i] = by[i]
  BY <1>1 DEF ReadIn, LangInv
<1>3. Host' = Host /\ text' = text /\ Openings' = Openings
  BY SameFile
<1>4. ASSUME NEW e \in RightPlaces
      PROVE  e \in RightPlaces'
  <2>1. e \in 1 .. p /\ e \in 1 .. p'
    BY <1>1, <1>4 DEF RightPlaces
  <2>2. \A i \in LineAt(text, e) : by'[i] = by[i]
    BY <1>1, <1>2, <2>1 DEF LineAt
  <2>3. text[e] = "nl" => RightIn(by', text, Host, Openings, LineAt(text, e), lang)
    BY <2>2, RightAlike DEF RightPlaces
  <2>4. QED
    BY <1>3, <2>1, <2>3 DEF RightPlaces
<1>5. QED
  BY <1>4


\* What a character and the end of a line make of the line and the queue.
LEMMA CharCounts ==
  ASSUME NEW c, Sound(c), NEW from \in Nat
  PROVE  LET d == Code(Dequeue(c), from)
         IN  d.out = c.out /\ ~d.inqueue /\ Kind(d.line) # "lblank"
<1>. DEFINE e == Dequeue(c)
<1>1. Sound(e) /\ e.out = c.out /\ ~e.inqueue
  BY DequeueSound, DequeueParts
<1>. HIDE DEF e
<1>2. Begins(e, Code(e, from), from) /\ Kind(Mark(e, "code", from).line) # "lblank"
  BY <1>1, CodeBegins, MarkSays DEF Marks
<1>3. Mark(e, "code", from) = Code(e, from)
  BY DEF Mark
<1>4. QED
  BY <1>1, <1>2, <1>3 DEF Begins, e

LEMMA StdNewlineIdle ==
  ASSUME NEW c, Sound(c), NEW from, NEW te
  PROVE  ~StdNewline(c, from, te).inqueue
<1>. DEFINE d == Dequeue(c)
            s == IF Kind(d.line) = "lblank" THEN from ELSE d.line.start
            out == IF te > d.line.start
                   THEN Append(d.out, Callback(Kind(d.line), s, te)) ELSE d.out
<1>1. Sound(d) /\ ~d.inqueue
  BY DequeueSound, DequeueParts
<1>2. StdNewline(c, from, te) = [d EXCEPT !.line = NoLine, !.out = out]
  BY DEF StdNewline
<1>. HIDE DEF d, out
<1>3. QED
  BY <1>1, <1>2 DEF Sound, CountType

LEMMA CloseSymbol ==
  ASSUME NEW r, NEW esc, NEW n, NEW s, s # "nl", Role(r, esc, n, s) = "close"
  PROVE  s = r.close
  BY DEF Role


-----------------------------------------------------------------------------
(* Each action keeps what the scanners know.                               *)

\* What every step that reads in the languages ls leaves.
LEMMA ReadParts ==
  ASSUME EmbInv, EmbInv', LangInv, EmbAct, NEW ls, ReadIn(ls)
  PROVE  /\ p \in Nat /\ pe \in Nat /\ p <= pe /\ Len(text) = pe /\ Len(text) \in Nat
         /\ p' \in Nat /\ p' <= pe /\ Sound(count) /\ Sound(count') /\ file \in 1 .. NFiles
         /\ \A i \in 1 .. p : by'[i] = by[i]
         /\ \A i \in p + 1 .. p' : by'[i] = ls
<1>1. /\ p \in Nat /\ pe \in Nat /\ p <= pe /\ Len(text) = pe /\ Sound(count)
      /\ file \in 1 .. NFiles
  BY HereParts DEF pe
<1>2. p' \in 0 .. pe' /\ Sound(count') /\ pe' = pe
  BY SameFile DEF EmbInv, TypeInv, TypeOK
<1>3. p' \in Nat /\ p' <= pe
  BY <1>1, <1>2
<1>4. /\ \A i \in 1 .. p : by'[i] = by[i]
      /\ \A i \in p + 1 .. p' : by'[i] = ls
  BY <1>1, <1>3 DEF ReadIn, LangInv
<1>5. QED
  BY <1>1, <1>2, <1>3, <1>4

\* What a step that ends between tokens has to show.
LEMMA TellsOutside ==
  ASSUME EmbInv, EmbAct, page' = NoPage, region' = NoRegion, ~count'.inqueue, NEW q, p' = q,
         Embedding' => /\ EmbSaysIn(by', text, Host, Openings, lang', q)
                       /\ FlagsIn(by', text, Host, Openings, lang', q, count'.line),
         ~Embedding' => HostSaysIn(by', text, Host, Openings, seen', q)
  PROVE  Tells'
<1>1. Host' = Host /\ text' = text /\ Openings' = Openings
  BY SameFile
<1>2. Embedding' => EmbSays' /\ FlagsTell'
  BY <1>1 DEF EmbSays, FlagsTell
<1>3. ~Embedding' => HostSays'
  BY <1>1 DEF HostSays
<1>4. QED
  BY <1>2, <1>3 DEF Tells, Within

LEMMA SpacesTell ==
  ASSUME EmbInv, EmbInv', LangInv, EmbAct, Straight, Tells, Scan, Spaces
  PROVE  Tells' /\ ReportsRight
<1>1. /\ Outside /\ UNCHANGED <<lang, text, seen, page>> /\ region' = NoRegion
      /\ ReadIn({lang})
  BY DEF Scan, Spaces, Token, Outside, Recorded, ReadIn
<1>2. /\ p \in Nat /\ pe \in Nat /\ p <= pe /\ Len(text) \in Nat /\ Sound(count)
      /\ \A i \in 1 .. p : by'[i] = by[i]
      /\ \A i \in p + 1 .. p' : by'[i] = {lang}
  BY <1>1, ReadParts
<1>3. PICK q \in p + 1 .. pe : /\ p' = q /\ count' = Ls(Dequeue(count), p)
                               /\ \A i \in p .. q - 1 : At(i) = "ws"
  BY DEF Spaces, Token
<1>4. q \in Nat /\ p <= q /\ \A i \in p + 1 .. q : text[i] = "ws" /\ by'[i] = {lang}
  <2>1. \A i \in p + 1 .. q : i - 1 \in p .. q - 1 /\ (i - 1) + 1 = i
    BY <1>2
  <2>2. \A i \in p + 1 .. q : text[i] = "ws"
    BY <1>3, <2>1 DEF At
  <2>3. q \in Nat /\ p <= q
    BY <1>2
  <2>4. QED
    BY <1>2, <1>3, <2>2, <2>3
<1>5. /\ count'.out = count.out /\ ~count'.inqueue
      /\ Kind(count'.line) = Kind(count.line)
  <2>1. ~count.inqueue
    BY <1>1 DEF Tells
  <2>2. Dequeue(count) = count
    BY <2>1, DequeueIdle
  <2>3. QED
    BY <1>2, <1>3, <2>1, <2>2, LsBegins, LsSays DEF Begins
<1>6. /\ DoorsIn(by', text, Host, LineIn(text, q)) = DoorsIn(by, text, Host, LineIn(text, p))
      /\ OwnIn(by', text, Host, LineIn(text, q)) = OwnIn(by, text, Host, LineIn(text, p))
      /\ OneIn(by', text, Host, Openings, LineIn(text, q)) =>
             OneIn(by, text, Host, Openings, LineIn(text, p))
  <2>1. \A i \in 1 .. p : by'[i] = by[i]
    BY <1>2
  <2>2. \A i \in p + 1 .. q : text[i] = "ws" /\ by'[i] = {lang}
    BY <1>4
  <2>3. p \in Nat /\ q \in Nat /\ p <= q
    BY <1>2, <1>4
  <2>4. QED
    BY <2>1, <2>2, <2>3, LineBlank
<1>7. Embedding' => /\ EmbSaysIn(by', text, Host, Openings, lang', q)
                    /\ FlagsIn(by', text, Host, Openings, lang', q, count'.line)
  <2>. SUFFICES ASSUME Embedding
                PROVE  /\ EmbSaysIn(by', text, Host, Openings, lang, q)
                       /\ FlagsIn(by', text, Host, Openings, lang, q, count'.line)
    BY <1>1 DEF Embedding
  <2>1. EmbSaysIn(by', text, Host, Openings, lang, q)
    BY <1>2, <1>4, EmbBlank DEF Tells, EmbSays
  <2>2. FlagsIn(by, text, Host, Openings, lang, p, count.line)
    BY <1>1 DEF Tells, FlagsTell
  <2>3. QED
    BY <1>5, <1>6, <2>1, <2>2 DEF FlagsIn
<1>8. ~Embedding' => HostSaysIn(by', text, Host, Openings, seen', q)
  BY <1>1, <1>6 DEF Tells, HostSays, HostSaysIn, Embedding
<1>9. page' = NoPage
  BY <1>1 DEF Tells
<1>10. Tells'
  BY <1>1, <1>3, <1>5, <1>7, <1>8, <1>9, TellsOutside
<1>11. QED
  BY <1>5, <1>10, NoneRight

LEMMA AnyCharTell ==
  ASSUME EmbInv, EmbInv', LangInv, EmbAct, Straight, Tells, Scan, AnyChar
  PROVE  Tells' /\ ReportsRight
<1>1. /\ Outside /\ UNCHANGED <<lang, text, seen, page>> /\ region' = NoRegion
      /\ ReadIn({lang}) /\ p' = p + 1 /\ p < pe /\ text[p + 1] \notin {"ws", "nl"}
      /\ count' = Code(Dequeue(count), p)
  BY DEF Scan, AnyChar, Token, Outside, Recorded, ReadIn, At
<1>2. /\ p \in Nat /\ Len(text) \in Nat /\ Sound(count)
      /\ \A i \in 1 .. p : by'[i] = by[i]
      /\ \A i \in p + 1 .. p' : by'[i] = {lang}
  BY <1>1, ReadParts
<1>3. by'[p + 1] = {lang}
  <2>1. p + 1 \in p + 1 .. p'
    BY <1>1, <1>2
  <2>2. QED
    BY <1>2, <2>1
<1>4. /\ \A y : y \in OwnIn(by', text, Host, LineIn(text, p + 1)) <=>
                  y \in OwnIn(by, text, Host, LineIn(text, p)) \/ y = lang
      /\ OneIn(by', text, Host, Openings, LineIn(text, p + 1)) =>
             OneIn(by, text, Host, Openings, LineIn(text, p))
  BY <1>1, <1>2, <1>3, LineSaid
<1>5. /\ count'.out = count.out /\ ~count'.inqueue /\ Kind(count'.line) # "lblank"
  BY <1>1, <1>2, CharCounts
<1>6. Embedding' => /\ EmbSaysIn(by', text, Host, Openings, lang', p + 1)
                    /\ FlagsIn(by', text, Host, Openings, lang', p + 1, count'.line)
  BY <1>1, <1>4, <1>5 DEF EmbSaysIn, FlagsIn
<1>7. ~Embedding' => HostSaysIn(by', text, Host, Openings, seen', p + 1)
  <2>. SUFFICES ASSUME ~Embedding PROVE HostSaysIn(by', text, Host, Openings, seen, p + 1)
    BY <1>1 DEF Embedding
  <2>1. lang = Host /\ HostSaysIn(by, text, Host, Openings, seen, p)
    BY StraightParts DEF Tells, HostSays
  <2>2. QED
    BY <1>4, <2>1 DEF HostSaysIn
<1>8. page' = NoPage
  BY <1>1 DEF Tells
<1>9. Tells'
  BY <1>1, <1>5, <1>6, <1>7, <1>8, TellsOutside
<1>10. QED
  BY <1>5, <1>9, NoneRight

LEMMA EndLineTell ==
  ASSUME EmbInv, EmbInv', LangInv, HistInv, EmbAct, Straight, Tells, EndLine
  PROVE  Tells' /\ ReportsRight
<1>. DEFINE d == StdNewline(count, p, p + 1)
            l == IF Embedding THEN lang ELSE SeenOr(lang)
<1>1. Hosts[Host].page
  BY StraightParts
<1>2. /\ Outside /\ UNCHANGED <<lang, text, page>> /\ region' = NoRegion
      /\ ReadIn({lang}) /\ p' = p + 1 /\ p < pe /\ text[p + 1] = "nl"
      /\ count' = d /\ Recorded({lang}, l)
      /\ ~Embedding => seen' = NoLanguage
  BY <1>1 DEF EndLine, Newline, Token, Outside, Recorded, ReadIn, At
<1>3. /\ p \in Nat /\ Len(text) = pe /\ Len(text) \in Nat /\ Sound(count)
      /\ file \in 1 .. NFiles /\ p + 1 \in Nat
      /\ \A i \in 1 .. p : by'[i] = by[i]
  BY <1>2, ReadParts
<1>4. Adds(count.out, d.out, {p + 1}) /\ Kind(d.line) = "lblank" /\ ~d.inqueue
  <2>1. Adds(count.out, d.out, {p + 1}) /\ d.line = NoLine
    BY <1>3, StdNewlineAdds
  <2>2. ~d.inqueue
    BY <1>3, StdNewlineIdle
  <2>. HIDE DEF d
  <2>3. QED
    BY <2>1, <2>2 DEF Kind, NoLine
<1>. HIDE DEF d
<1>5. /\ EmbSaysIn(by', text, Host, Openings, lang, p + 1)
      /\ OwnIn(by', text, Host, LineIn(text, p + 1)) = {}
  BY <1>2, <1>3, EmbNew, LineNew
<1>6. Embedding' => /\ EmbSaysIn(by', text, Host, Openings, lang', p + 1)
                    /\ FlagsIn(by', text, Host, Openings, lang', p + 1, count'.line)
  BY <1>2, <1>4, <1>5 DEF FlagsIn
<1>7. ~Embedding' => HostSaysIn(by', text, Host, Openings, seen', p + 1)
  BY <1>2, <1>5 DEF HostSaysIn, Embedding
<1>8. page' = NoPage
  BY <1>2 DEF Tells
<1>9. Tells'
  BY <1>2, <1>4, <1>6, <1>7, <1>8, TellsOutside
<1>10. RightIn(by, text, Host, Openings, LineIn(text, p), l)
  <2>1. CASE Embedding
    BY <1>2, <1>3, <2>1, EmbRight DEF Tells, EmbSays
  <2>2. CASE ~Embedding
    <3>1. lang = Host /\ HostSaysIn(by, text, Host, Openings, seen, p)
      BY <2>2, StraightParts DEF Tells, HostSays
    <3>2. l = IF seen # NoLanguage THEN seen ELSE Host
      BY <2>2, <3>1 DEF SeenOr
    <3>3. QED
      BY <1>3, <3>1, <3>2, HostRight
  <2>3. QED
    BY <2>1, <2>2
<1>11. l \in LangType
  BY HereParts DEF HistInv, SeenHist, SeenOr
<1>. HIDE DEF l
<1>12. RightIn(by', text, Host, Openings, LineAt(text, p + 1), l)
  BY <1>2, <1>3, <1>10, RightLine
<1>13. ReportsRight
  BY <1>2, <1>4, <1>11, <1>12, NewRight DEF HistInv
<1>14. QED
  BY <1>9, <1>13


\* The leaving action of a region's newline reports or enqueues the right line.
LEMMA LeaveTells ==
  ASSUME EmbInv, LangInv, HistInv, Within, RegionTells
  PROVE  LET c == Leave(count)
         IN  /\ Sound(c) /\ c.inqueue = count.inqueue
             /\ Adds(count.out, c.out, RightPlaces) /\ Adds(count.queue, c.queue, RightPlaces)
             /\ leaving => Kind(c.line) = "lblank"
             /\ ~leaving => c = count
<1>1. /\ Sound(Leave(count)) /\ Leave(count).inqueue = count.inqueue
      /\ leaving => Kind(Leave(count).line) = "lblank"
  BY LeaveAdds
<1>2. p \in Nat /\ Sound(count) /\ file \in 1 .. NFiles
  BY HereParts
<1>3. CASE ~leaving
  <2>1. Leave(count) = count
    BY <1>3 DEF Leave
  <2>2. /\ Adds(count.out, count.out, RightPlaces)
        /\ Adds(count.queue, count.queue, RightPlaces)
    BY <1>2, AddsNone, SoundParts
  <2>3. QED
    BY <1>1, <1>3, <2>1, <2>2
<1>4. CASE leaving
  <2>. DEFINE c == InternalNewline(count, p)
  <2>1. Leave(count) = c
    BY <1>4 DEF Leave
  <2>2. count.line.start # NULL
    BY <1>4, RegionTyped DEF EmbInv, TypeInv, TypeOK, ReadingInv, Within
  <2>3. {p} \subseteq RightPlaces
    BY <1>4 DEF RegionTells
  <2>4. Adds(count.out, c.out, {p}) /\ Adds(count.queue, c.queue, {p})
    BY <1>2, <2>2, InternalNewlineAdds
  <2>. HIDE DEF c
  <2>5. Adds(count.out, c.out, RightPlaces) /\ Adds(count.queue, c.queue, RightPlaces)
    BY <2>3, <2>4, AddsMore
  <2>6. QED
    BY <1>1, <1>4, <2>1, <2>5
<1>5. QED
  BY <1>3, <1>4

\* The beginning of a region is something of its language.
LEMMA OpenRegionTell ==
  ASSUME EmbInv, EmbInv', LangInv, EmbAct, Straight, Tells, Scan, OpenRegion
  PROVE  Tells' /\ ReportsRight
<1>1. /\ Outside /\ region = NoRegion /\ UNCHANGED <<lang, text, page, leaving>>
      /\ ReadIn({lang}) /\ p < pe /\ ts' = p /\ p' = p + 1
  BY DEF Scan, OpenRegion, Recorded, ReadIn, Outside
<1>2. PICK r \in Grammar :
        /\ At(p) = r.open /\ region' = r
        /\ count' = Mark(IF r.enqueue THEN Enqueue(count) ELSE count, r.mark, p)
  BY DEF OpenRegion
<1>3. Embedding /\ lang \in DOMAIN Scanners
  BY <1>2, StraightParts, HereParts
<1>4. /\ p \in Nat /\ pe \in Nat /\ Len(text) \in Nat /\ Sound(count)
      /\ \A i \in 1 .. p : by'[i] = by[i]
      /\ \A i \in p + 1 .. p' : by'[i] = {lang}
  BY <1>1, ReadParts
<1>5. /\ r \in RegionType /\ r.mark \in Marks /\ r.enqueue \in BOOLEAN /\ r # NoRegion
      /\ r.newline # {} => r.mark # "none"
      /\ r.open \notin {"ws", "nl"}
  BY <1>3, RegionTyped, DelimitersAssumption DEF Grammar, RegionType
<1>6. p + 1 \in 1 .. pe /\ p + 1 \in p + 1 .. p' /\ text[p + 1] = r.open
  BY <1>1, <1>2, <1>4 DEF At
<1>7. Telling(r) /\ by'[p + 1] = {lang} /\ text[p + 1] \notin {"ws", "nl"}
  BY <1>3, <1>4, <1>5, <1>6, StraightParts
<1>8. /\ \A y : y \in OwnIn(by', text, Host, LineIn(text, p + 1)) <=>
                  y \in OwnIn(by, text, Host, LineIn(text, p)) \/ y = lang
      /\ OneIn(by', text, Host, Openings, LineIn(text, p + 1)) =>
             OneIn(by, text, Host, Openings, LineIn(text, p))
  BY <1>4, <1>7, LineSaid
<1>. DEFINE c == IF r.enqueue THEN Enqueue(count) ELSE count
            d == Mark(c, r.mark, p)
<1>9. ~count.inqueue /\ ~leaving
  BY <1>1, <1>3, NotLeaving DEF Tells
<1>10. /\ Sound(c) /\ c.out = count.out
       /\ r.enqueue => c.queue = <<>>
       /\ ~r.enqueue => ~c.inqueue
  BY <1>4, <1>9, EnqueueSound, EnqueueParts
<1>11. count' = d
  BY <1>2
<1>. HIDE DEF c
<1>12. Begins(c, d, p) /\ (r.mark # "none" => Kind(d.line) # "lblank")
  BY <1>4, <1>5, <1>10, MarkBegins, MarkSays
<1>. HIDE DEF d
<1>13. /\ count'.out = count.out
       /\ r.enqueue => count'.queue = <<>>
       /\ ~r.enqueue => ~count'.inqueue
       /\ r.mark # "none" => Kind(count'.line) # "lblank"
  BY <1>10, <1>11, <1>12 DEF Begins
<1>14. Host' = Host /\ text' = text /\ Openings' = Openings
  BY SameFile
<1>15. r.newline # {} => FlagsTell'
  BY <1>1, <1>5, <1>8, <1>13, <1>14 DEF FlagsTell, FlagsIn
<1>16. Adds(<<>>, <<>>, RightPlaces')
  BY EmptyTyped, AddsNone
<1>17. lang' \in OwnIn(by', text', Host', LineIn(text', p'))
  BY <1>1, <1>8, <1>14
<1>18. by'[ts' + 1] = {lang'} /\ At(ts)' \notin {"ws", "nl"}
  BY <1>1, <1>7, <1>14 DEF At
<1>19. RegionTells'
  BY <1>1, <1>2, <1>7, <1>9, <1>13, <1>15, <1>16, <1>17, <1>18 DEF RegionTells
<1>20. EmbSays' /\ Embedding' /\ page' = NoPage /\ ~Outside'
  BY <1>1, <1>2, <1>3, <1>5, <1>17 DEF EmbSays, EmbSaysIn, Embedding, Tells, Outside
<1>21. Tells'
  BY <1>19, <1>20 DEF Tells
<1>22. QED
  BY <1>13, <1>21, NoneRight

\* A line comment ends in front of its newline.
LEMMA EndLineCommentTell ==
  ASSUME EmbInv, EmbInv', LangInv, HistInv, EmbAct, Straight, Tells, Scan, EndLineComment
  PROVE  Tells' /\ ReportsRight
<1>. DEFINE c == Leave(count)
<1>1. /\ Within /\ region.close = "eol" /\ p' = p /\ region' = NoRegion
      /\ UNCHANGED <<lang, text, page>> /\ count' = c /\ Recorded({lang}, lang)
      /\ ReadIn({lang})
  BY DEF EndLineComment, Scan, LeaveRegion, Recorded, ReadIn
<1>2. Embedding /\ RegionTells /\ page' = NoPage
  BY <1>1 DEF Tells
<1>3. /\ c.inqueue = count.inqueue /\ Adds(count.out, c.out, RightPlaces)
      /\ leaving => Kind(c.line) = "lblank"
      /\ ~leaving => c = count
  BY <1>1, <1>2, LeaveTells
<1>. HIDE DEF c
<1>4. /\ region \in Grammar /\ region \in RegionType /\ lang \in DOMAIN Scanners
      /\ leaving \in BOOLEAN /\ region.mark # "none"
      /\ leaving => region.newline # {}
  <2>1. region \in Grammar /\ lang \in DOMAIN Scanners /\ leaving \in BOOLEAN
        /\ (leaving => region.newline # {})
    BY <1>1 DEF Within, EmbInv, TypeInv, TypeOK, ReadingInv
  <2>2. QED
    BY <1>1, <2>1, RegionTyped, DelimitersAssumption DEF Grammar
<1>5. ~c.inqueue
  <2>1. ~region.enqueue
    BY <1>1, <1>2 DEF RegionTells, Telling
  <2>2. QED
    BY <1>2, <1>3, <2>1 DEF RegionTells
<1>6. p \in Nat /\ \A i \in 1 .. p : by'[i] = by[i]
  BY <1>1, ReadParts
<1>7. /\ OwnIn(by', text, Host, LineIn(text, p)) = OwnIn(by, text, Host, LineIn(text, p))
      /\ OneIn(by', text, Host, Openings, LineIn(text, p)) <=>
             OneIn(by, text, Host, Openings, LineIn(text, p))
  BY <1>6, LineKept
<1>8. EmbSaysIn(by', text, Host, Openings, lang, p)
  BY <1>2, <1>6, EmbKept DEF Tells, EmbSays
<1>9. FlagsIn(by', text, Host, Openings, lang, p, c.line)
  <2>1. CASE leaving
    <3>1. OwnIn(by, text, Host, LineIn(text, p)) = {}
      BY <1>2, <1>6, <2>1, LineNew DEF RegionTells
    <3>2. QED
      BY <1>3, <1>7, <2>1, <3>1 DEF FlagsIn
  <2>2. CASE ~leaving /\ region.newline = {}
    BY <1>2, <1>3, <1>4, <1>7, <2>2 DEF RegionTells, FlagsIn
  <2>3. CASE ~leaving /\ region.newline # {}
    <3>1. FlagsIn(by, text, Host, Openings, lang, p, count.line)
      BY <1>1, <1>2, <2>3 DEF RegionTells, FlagsTell
    <3>2. QED
      BY <1>3, <1>7, <2>3, <3>1 DEF FlagsIn
  <2>4. QED
    BY <1>4, <2>1, <2>2, <2>3
<1>10. ~Embedding' => HostSaysIn(by', text, Host, Openings, seen', p)
  BY <1>1, <1>2 DEF Embedding
<1>11. Tells'
  BY <1>1, <1>2, <1>5, <1>8, <1>9, <1>10, TellsOutside
<1>12. ReportsRight
  BY <1>1, <1>3, PlacesRight DEF HistInv
<1>13. QED
  BY <1>11, <1>12


\* One symbol of a region: only a newline of it ends the line.
LEMMA ReadRegionTell ==
  ASSUME EmbInv, EmbInv', LangInv, HistInv, EmbAct, Straight, Tells, Scan, ReadRegion
  PROVE  Tells' /\ ReportsRight
<1>. DEFINE c == Leave(count)
<1>1. /\ Within /\ RoleHere \notin {"stop", "close"} /\ p' = p + 1
      /\ UNCHANGED <<lang, text, pc, ts, region, page>>
      /\ leaving' = (RoleHere = "newline") /\ Recorded({lang}, lang) /\ ReadIn({lang})
  BY DEF ReadRegion, Scan, Recorded, ReadIn
<1>2. Embedding /\ RegionTells /\ page' = NoPage
  BY <1>1 DEF Tells
<1>3. /\ region \in RegionType /\ region \in Grammar /\ lang \in DOMAIN Scanners
      /\ p # pe /\ ts \in Nat /\ ts < p /\ escaped \in BOOLEAN /\ leaving \in BOOLEAN
      /\ leaving => region.newline # {}
  BY <1>1, RegionTyped DEF EmbInv, TypeInv, TypeOK, Within, RoleHere, ReadingInv
<1>4. RoleHere = Role(region, escaped, nest, text[p + 1])
  BY <1>3 DEF RoleHere, At
<1>5. /\ p \in Nat /\ pe \in Nat /\ p <= pe /\ Len(text) = pe /\ Len(text) \in Nat
      /\ Sound(count) /\ p' \in Nat
      /\ \A i \in 1 .. p : by'[i] = by[i]
      /\ \A i \in p + 1 .. p' : by'[i] = {lang}
  BY <1>1, ReadParts
<1>6. by'[p + 1] = {lang} /\ p < Len(text) /\ p + 1 \in Nat /\ p <= p + 1
  <2>1. p + 1 \in p + 1 .. p'
    BY <1>1, <1>5
  <2>2. QED
    BY <1>3, <1>5, <2>1
<1>7. /\ Sound(c) /\ c.inqueue = count.inqueue
      /\ Adds(count.out, c.out, RightPlaces) /\ Adds(count.queue, c.queue, RightPlaces)
      /\ leaving => Kind(c.line) = "lblank"
      /\ ~leaving => c = count
  BY <1>1, <1>2, LeaveTells
<1>. HIDE DEF c
<1>8. PICK m \in Marks : /\ count' = Mark(c, m, ts)
                         /\ RoleHere \in {"inner", "nest", "unnest"} => m = region.inner
                         /\ RoleHere = "blank" => m = region.blank
  <2>1. region.inner \in Marks /\ region.blank \in Marks /\ "none" \in Marks
    BY <1>3 DEF RegionType, Marks
  <2>2. RoleHere \in {"newline", "inner", "unnest", "nest", "escape", "blank"}
    BY <1>1, <1>3, <1>4, RoleTyped
  <2>3. QED
    BY <2>1, <2>2 DEF ReadRegion, c
<1>9. /\ count'.out = c.out /\ count'.queue = c.queue /\ count'.inqueue = c.inqueue
      /\ m # "none" \/ Kind(c.line) # "lblank" => Kind(count'.line) # "lblank"
      /\ m = "none" => count' = c
  BY <1>3, <1>7, <1>8, MarkBegins, MarkSays DEF Begins, Mark
<1>10. Host' = Host /\ text' = text /\ Openings' = Openings
  BY SameFile
<1>11. by'[ts' + 1] = {lang'} /\ At(ts)' \notin {"ws", "nl"}
  <2>1. ts + 1 \in 1 .. p
    BY <1>3, <1>5
  <2>2. QED
    BY <1>1, <1>2, <1>5, <1>10, <2>1 DEF RegionTells, At
<1>12. RightPlaces \subseteq RightPlaces'
  BY <1>1, <1>5, <1>6, RightMore
<1>13. /\ region.enqueue => Adds(<<>>, count'.queue, RightPlaces')
       /\ ~region.enqueue => ~count'.inqueue
  <2>1. count.queue \in Seq(CallbackType) /\ c.queue \in Seq(CallbackType)
    BY <1>5, <1>7, SoundParts
  <2>2. region.enqueue => Adds(<<>>, c.queue, RightPlaces)
    BY <1>2, <1>7, <2>1, EmptyTyped, AddsTwice DEF RegionTells
  <2>3. QED
    BY <1>2, <1>7, <1>9, <1>12, <2>2, AddsMore DEF RegionTells
<1>14. ReportsRight
  BY <1>1, <1>7, <1>9, PlacesRight DEF HistInv
<1>15. EmbSaysIn(by, text, Host, Openings, lang, p)
  BY <1>2 DEF Tells, EmbSays
<1>16. CASE text[p + 1] = "nl"
  <2>1. region.newline # {} /\ (leaving' \/ region.close # "eol")
    <3>1. RoleHere = Role(region, escaped, nest, "nl")
      BY <1>4, <1>16
    <3>2. RoleHere = "newline" \/ "raw" \in region.newline
      BY <1>1, <1>3, <3>1, NewlineRoles
    <3>3. RoleHere = "newline" => region.newline # {}
      BY <1>3, <3>1, RoleTyped
    <3>4. "raw" \in region.newline => region.close # "eol"
      BY <1>3, ScannersAssumption DEF Grammar
    <3>5. QED
      BY <1>1, <3>2, <3>3, <3>4
  <2>2. EmbSaysIn(by', text, Host, Openings, lang, p + 1)
    BY <1>6, <1>16, EmbNew
  <2>3. RightIn(by, text, Host, Openings, LineIn(text, p), lang)
    BY <1>5, <1>6, <1>15, <1>16, EmbRight
  <2>4. RightIn(by', text, Host, Openings, LineAt(text, p + 1), lang)
    BY <1>5, <1>16, <2>3, RightLine
  <2>5. p + 1 \in 1 .. p + 1
    BY <1>5
  <2>6. p' \in RightPlaces' /\ text'[p'] = "nl"
    BY <1>1, <1>10, <1>16, <2>4, <2>5 DEF RightPlaces
  <2>7. RegionTells'
    BY <1>1, <1>2, <1>11, <1>13, <2>1, <2>6 DEF RegionTells
  <2>8. EmbSays'
    BY <1>1, <1>10, <2>2 DEF EmbSays
  <2>9. QED
    BY <1>1, <1>2, <1>14, <2>7, <2>8 DEF Tells, Within, Outside, Embedding
<1>17. CASE text[p + 1] # "nl"
  <2>1. {"ws", "nl"} \cap {region.open, region.close} = {}
    BY <1>3, DelimitersAssumption DEF Grammar
  <2>2. /\ RoleHere \in {"inner", "unnest", "nest", "escape", "blank"}
        /\ RoleHere = "blank" => text[p + 1] = "ws"
        /\ RoleHere = "escape" => region.pair
        /\ text[p + 1] = "ws" => RoleHere = "blank" \/ region.pair
    BY <1>1, <1>3, <1>4, <1>17, <2>1, SymbolRoles
  <2>3. ~leaving'
    BY <1>1, <2>2
  <2>4. /\ \A y : y \in OwnIn(by', text, Host, LineIn(text, p + 1)) <=>
                    \/ y \in OwnIn(by, text, Host, LineIn(text, p))
                    \/ y = lang /\ text[p + 1] # "ws"
        /\ OneIn(by', text, Host, Openings, LineIn(text, p + 1)) =>
               OneIn(by, text, Host, Openings, LineIn(text, p))
        /\ EmbSaysIn(by', text, Host, Openings, lang, p + 1)
    <3>1. CASE text[p + 1] = "ws"
      <4>1. \A i \in p + 1 .. p + 1 : text[i] = "ws" /\ by'[i] = {lang}
        <5>1. \A i \in p + 1 .. p + 1 : i = p + 1
          BY <1>5
        <5>2. QED
          BY <1>6, <3>1, <5>1
      <4>2. /\ DoorsIn(by', text, Host, LineIn(text, p + 1)) =
                   DoorsIn(by, text, Host, LineIn(text, p))
            /\ OwnIn(by', text, Host, LineIn(text, p + 1)) =
                   OwnIn(by, text, Host, LineIn(text, p))
            /\ OneIn(by', text, Host, Openings, LineIn(text, p + 1)) =>
                   OneIn(by, text, Host, Openings, LineIn(text, p))
        BY <1>5, <1>6, <4>1, LineBlank
      <4>3. EmbSaysIn(by', text, Host, Openings, lang, p + 1)
        BY <1>5, <1>6, <1>15, <4>1, EmbBlank
      <4>4. QED
        BY <3>1, <4>2, <4>3
    <3>2. CASE text[p + 1] # "ws"
      <4>1. /\ \A y : y \in OwnIn(by', text, Host, LineIn(text, p + 1)) <=>
                        y \in OwnIn(by, text, Host, LineIn(text, p)) \/ y = lang
            /\ OneIn(by', text, Host, Openings, LineIn(text, p + 1)) =>
                   OneIn(by, text, Host, Openings, LineIn(text, p))
        BY <1>5, <1>6, <1>17, <3>2, LineSaid
      <4>2. EmbSaysIn(by', text, Host, Openings, lang, p + 1)
        BY <4>1 DEF EmbSaysIn
      <4>3. QED
        BY <3>2, <4>1, <4>2
    <3>3. QED
      BY <3>1, <3>2
  <2>5. region.newline = {} =>
          /\ lang \in OwnIn(by', text, Host, LineIn(text, p + 1))
          /\ region.mark # "none" => Kind(count'.line) # "lblank"
    BY <1>2, <1>3, <1>7, <1>9, <2>4 DEF RegionTells
  <2>6. ASSUME region.newline # {}, region.close = "eol"
        PROVE  FlagsIn(by', text, Host, Openings, lang, p + 1, count'.line)
    <3>1. region.inner # "none" /\ region.blank = "none" /\ ~region.pair
      BY <1>2, <1>3, <2>6, DelimitersAssumption DEF RegionTells, Telling, Grammar
    <3>2. /\ text[p + 1] = "ws" => count' = c
          /\ text[p + 1] # "ws" => Kind(count'.line) # "lblank"
      BY <1>8, <1>9, <2>2, <3>1
    <3>3. OneIn(by, text, Host, Openings, LineIn(text, p)) =>
            (Kind(c.line) # "lblank" <=> lang \in OwnIn(by, text, Host, LineIn(text, p)))
      <4>1. CASE leaving
        <5>1. OwnIn(by, text, Host, LineIn(text, p)) = {}
          BY <1>2, <1>5, <4>1, LineNew DEF RegionTells
        <5>2. QED
          BY <1>7, <4>1, <5>1
      <4>2. CASE ~leaving
        BY <1>2, <1>7, <2>6, <4>2 DEF RegionTells, FlagsTell, FlagsIn
      <4>3. QED
        BY <1>3, <4>1, <4>2
    <3>4. QED
      BY <2>4, <3>2, <3>3 DEF FlagsIn
  <2>7. RegionTells'
    <3>1. region'.newline # {} /\ region'.close = "eol" => FlagsTell'
      BY <1>1, <1>10, <2>6 DEF FlagsTell
    <3>2. region'.newline = {} =>
            /\ lang' \in OwnIn(by', text', Host', LineIn(text', p'))
            /\ region'.mark # "none" => Kind(count'.line) # "lblank"
      BY <1>1, <1>10, <2>5
    <3>3. QED
      BY <1>1, <1>2, <1>11, <1>13, <2>3, <3>1, <3>2 DEF RegionTells
  <2>8. EmbSays'
    BY <1>1, <1>10, <2>4 DEF EmbSays
  <2>9. QED
    BY <1>1, <1>2, <1>14, <2>7, <2>8 DEF Tells, Within, Outside, Embedding
<1>18. QED
  BY <1>16, <1>17

\* The end of a region marks the line it is on, where the line is not marked.
LEMMA CloseRegionTell ==
  ASSUME EmbInv, EmbInv', LangInv, HistInv, EmbAct, NoEol, Straight, Tells,
         Scan, CloseRegion
  PROVE  Tells' /\ ReportsRight
<1>. DEFINE c == Leave(count)
            b == IF region.commit THEN Commit(c) ELSE c
            d == Mark(b, region.last, ts)
<1>1. /\ Within /\ RoleHere = "close" /\ p' = p + 1 /\ region' = NoRegion
      /\ UNCHANGED <<lang, text, page>> /\ count' = d
      /\ Recorded({lang}, lang) /\ ReadIn({lang})
  BY DEF CloseRegion, Scan, LeaveRegion, Recorded, ReadIn
<1>2. Embedding /\ RegionTells /\ page' = NoPage
  BY <1>1 DEF Tells
<1>3. /\ region \in RegionType /\ region \in Grammar /\ lang \in DOMAIN Scanners
      /\ p # pe /\ ts \in Nat /\ region.last \in Marks
      /\ leaving \in BOOLEAN /\ region.commit \in BOOLEAN
      /\ leaving => region.newline # {}
  BY <1>1, RegionTyped DEF EmbInv, TypeInv, TypeOK, Within, RoleHere, ReadingInv, RegionType
<1>4. /\ p \in Nat /\ pe \in Nat /\ p <= pe /\ Sound(count)
      /\ \A i \in 1 .. p : by'[i] = by[i]
      /\ \A i \in p + 1 .. p' : by'[i] = {lang}
  BY <1>1, ReadParts
<1>5. by'[p + 1] = {lang} /\ p + 1 \in 1 .. pe
  <2>1. p + 1 \in p + 1 .. p' /\ p + 1 \in 1 .. pe
    BY <1>1, <1>3, <1>4
  <2>2. QED
    BY <1>4, <2>1
<1>6. text[p + 1] \notin {"ws", "nl"} /\ region.close # "eol"
  <2>1. Role(region, escaped, nest, text[p + 1]) = "close"
    BY <1>1, <1>3 DEF RoleHere, At
  <2>2. text[p + 1] # "nl"
    BY <1>3, <2>1, NewlineRoles
  <2>3. text[p + 1] = region.close
    BY <2>1, <2>2, CloseSymbol
  <2>4. {"ws", "nl"} \cap {region.open, region.close} = {}
    BY <1>3, DelimitersAssumption DEF Grammar
  <2>5. QED
    BY <1>5, <2>2, <2>3, <2>4 DEF NoEol
<1>7. /\ Sound(c) /\ c.inqueue = count.inqueue
      /\ Adds(count.out, c.out, RightPlaces) /\ Adds(count.queue, c.queue, RightPlaces)
      /\ ~leaving => c = count
  BY <1>1, <1>2, LeaveTells
<1>. HIDE DEF c
<1>8. Sound(b) /\ Adds(count.out, b.out, RightPlaces) /\ ~b.inqueue /\ b.line = c.line
  <2>1. CASE ~region.commit
    BY <1>2, <1>7, <2>1 DEF RegionTells, Telling
  <2>2. CASE region.commit
    <3>1. count.queue \in Seq(CallbackType) /\ c.queue \in Seq(CallbackType)
          /\ count.out \in Seq(CallbackType) /\ c.out \in Seq(CallbackType)
      BY <1>4, <1>7, SoundParts
    <3>2. c.inqueue => Adds(<<>>, c.queue, RightPlaces)
      BY <1>2, <1>7, <3>1, EmptyTyped, AddsTwice DEF RegionTells
    <3>3. c.inqueue => \A k \in 1 .. Len(c.queue) : c.queue[k].e \in RightPlaces
      BY <3>2 DEF Adds
    <3>4. Adds(c.out, Commit(c).out, RightPlaces) /\ Sound(Commit(c))
      BY <1>7, <3>3, CommitAdds, CommitSound
    <3>5. Commit(c).out \in Seq(CallbackType)
      BY <3>4, SoundParts
    <3>6. ~Commit(c).inqueue /\ Commit(c).line = c.line
      BY <1>7, CommitParts, DequeueIdle
    <3>7. Adds(count.out, Commit(c).out, RightPlaces)
      BY <1>7, <3>1, <3>4, <3>5, AddsTwice
    <3>8. QED
      BY <2>2, <3>4, <3>6, <3>7
  <2>3. QED
    BY <1>3, <2>1, <2>2
<1>. HIDE DEF b
<1>9. /\ Begins(b, d, ts)
      /\ region.last # "none" \/ Kind(b.line) # "lblank" => Kind(d.line) # "lblank"
  BY <1>3, <1>8, MarkBegins, MarkSays
<1>. HIDE DEF d
<1>10. ~count'.inqueue /\ Adds(count.out, count'.out, RightPlaces)
  BY <1>1, <1>8, <1>9 DEF Begins
<1>11. Kind(count'.line) # "lblank"
  <2>1. CASE region.last # "none"
    BY <1>1, <1>9, <2>1
  <2>2. CASE region.last = "none"
    <3>1. region.mark # "none" /\ region.newline = {}
      BY <1>2, <1>6, <2>2 DEF RegionTells, Telling
    <3>2. Kind(c.line) # "lblank"
      BY <1>2, <1>3, <1>7, <3>1 DEF RegionTells
    <3>3. QED
      BY <1>1, <1>8, <1>9, <3>2
  <2>3. QED
    BY <2>1, <2>2
<1>12. /\ \A y : y \in OwnIn(by', text, Host, LineIn(text, p + 1)) <=>
                   y \in OwnIn(by, text, Host, LineIn(text, p)) \/ y = lang
       /\ OneIn(by', text, Host, Openings, LineIn(text, p + 1)) =>
              OneIn(by, text, Host, Openings, LineIn(text, p))
  BY <1>4, <1>5, <1>6, LineSaid
<1>13. /\ EmbSaysIn(by', text, Host, Openings, lang, p + 1)
       /\ FlagsIn(by', text, Host, Openings, lang, p + 1, count'.line)
  BY <1>11, <1>12 DEF EmbSaysIn, FlagsIn
<1>14. ~Embedding' => HostSaysIn(by', text, Host, Openings, seen', p + 1)
  BY <1>1, <1>2 DEF Embedding
<1>15. Tells'
  BY <1>1, <1>2, <1>10, <1>13, <1>14, TellsOutside
<1>16. ReportsRight
  BY <1>1, <1>10, PlacesRight DEF HistInv
<1>17. QED
  BY <1>15, <1>16

\* Going back marks the line that the region began on.
LEMMA BacktrackTell ==
  ASSUME EmbInv, EmbInv', LangInv, HistInv, EmbAct, Straight, Tells, Scan, Backtrack
  PROVE  Tells' /\ ReportsRight
<1>1. /\ Within /\ region.close # "eol" /\ p' = ts + 1 /\ region' = NoRegion
      /\ UNCHANGED <<lang, text, page>> /\ ReadIn({lang})
      /\ count' = IF entity = "internal"
                  THEN RestOfDelimiter(InternalNewline(count, ts))
                  ELSE Code(Dequeue(count), ts)
  BY DEF Backtrack, Scan, LeaveRegion, Recorded, ReadIn
<1>2. Embedding /\ RegionTells /\ page' = NoPage
  BY <1>1 DEF Tells
<1>3. /\ ts \in Nat /\ ts < p /\ (entity = "internal" => region.newline # {})
      /\ entity = "internal" => count.line.start > ts
  BY <1>1 DEF EmbInv, TypeInv, TypeOK, ReadingInv, HistInv, RegionHist
<1>4. /\ p \in Nat /\ Sound(count) /\ file \in 1 .. NFiles
      /\ \A i \in 1 .. p : by'[i] = by[i]
  BY <1>1, ReadParts
<1>5. ~count'.inqueue /\ Kind(count'.line) # "lblank"
  <2>1. CASE entity = "internal"
    <3>. DEFINE c == InternalNewline(count, ts)
    <3>1. region.long
      BY <1>1, <1>2, <1>3, <2>1 DEF RegionTells, Telling
    <3>2. count.line.start # NULL
      BY <1>3, <2>1 DEF NULL
    <3>3. Sound(c)
      BY <1>3, <1>4, <3>2, InternalNewlineSound
    <3>. HIDE DEF c
    <3>4. RestOfDelimiter(c) = Code(Dequeue(c), ts)
      BY <3>1 DEF RestOfDelimiter
    <3>5. QED
      BY <1>1, <1>3, <2>1, <3>3, <3>4, CharCounts DEF c
  <2>2. CASE entity # "internal"
    BY <1>1, <1>3, <1>4, <2>2, CharCounts
  <2>3. QED
    BY <2>1, <2>2
<1>6. text[ts + 1] \notin {"ws", "nl"} /\ by'[ts + 1] = {lang}
  <2>1. ts + 1 \in 1 .. p
    BY <1>3, <1>4
  <2>2. QED
    BY <1>2, <1>4, <2>1 DEF RegionTells, At
<1>7. \A i \in 1 .. ts : by'[i] = by[i]
  <2>1. \A i \in 1 .. ts : i \in 1 .. p
    BY <1>3, <1>4
  <2>2. QED
    BY <1>4, <2>1
<1>8. /\ \A y : y \in OwnIn(by', text, Host, LineIn(text, ts + 1)) <=>
                  y \in OwnIn(by, text, Host, LineIn(text, ts)) \/ y = lang
      /\ OneIn(by', text, Host, Openings, LineIn(text, ts + 1)) =>
             OneIn(by, text, Host, Openings, LineIn(text, ts))
  BY <1>3, <1>6, <1>7, LineSaid
<1>9. /\ EmbSaysIn(by', text, Host, Openings, lang, ts + 1)
      /\ FlagsIn(by', text, Host, Openings, lang, ts + 1, count'.line)
  BY <1>5, <1>8 DEF EmbSaysIn, FlagsIn
<1>10. ~Embedding' => HostSaysIn(by', text, Host, Openings, seen', ts + 1)
  BY <1>1, <1>2 DEF Embedding
<1>11. Tells'
  BY <1>1, <1>2, <1>5, <1>9, <1>10, TellsOutside
<1>12. QED
  BY <1>11, BacktrackOut, NoneRight


-----------------------------------------------------------------------------

\* A line that goes on with an entry says nothing but what the host says.
LEMMA EntryLine ==
  ASSUME NEW b, NEW c, NEW t, NEW h, NEW o, NEW l, l # h, NEW q \in Nat, NEW x \in Nat,
         q < x, \A i \in 1 .. q : c[i] = b[i],
         \A i \in q + 1 .. x : t[i] # "nl" /\ c[i] = {h, l},
         t[q + 1] \in o, OneIn(c, t, h, o, LineIn(t, x))
  PROVE  OwnIn(c, t, h, LineIn(t, x)) \subseteq {h}
<1>1. /\ q + 1 \in DoorsIn(c, t, h, LineIn(t, x))
      /\ OwnIn(c, t, h, LineIn(t, x)) = OwnIn(b, t, h, LineIn(t, q))
      /\ OneIn(c, t, h, o, LineIn(t, x)) => OneIn(b, t, h, o, LineIn(t, q))
  <2>1. l # h /\ q \in Nat /\ x \in Nat /\ q < x
    OBVIOUS
  <2>2. \A i \in 1 .. q : c[i] = b[i]
    OBVIOUS
  <2>3. \A i \in q + 1 .. x : t[i] # "nl" /\ c[i] = {h, l}
    OBVIOUS
  <2>4. QED
    BY ONLY <2>1, <2>2, <2>3, LineDoors
<1>2. /\ DoorsIn(c, t, h, LineIn(t, q)) = DoorsIn(b, t, h, LineIn(t, q))
      /\ OwnIn(c, t, h, LineIn(t, q)) = OwnIn(b, t, h, LineIn(t, q))
      /\ OneIn(c, t, h, o, LineIn(t, q)) <=> OneIn(b, t, h, o, LineIn(t, q))
  BY LineKept
<1>3. LineIn(t, x) = LineIn(t, q) \cup (q + 1 .. x)
  BY LineMore
<1>4. LineIn(t, q) \subseteq LineIn(t, x)
  BY <1>3
<1>5. OwnIn(c, t, h, LineIn(t, q)) \subseteq {h}
  BY <1>1, <1>4, EntryHostOnly
<1>6. QED
  BY <1>1, <1>2, <1>5

LEMMA BlankBehind ==
  ASSUME pe \in Nat, Len(text) = pe, NEW q \in Nat, BlankTo(text, q)
  PROVE  NewlineBehind(q) # {}
<1>1. PICK n \in q + 1 .. pe : text[n] = "nl" /\ \A i \in q + 1 .. n - 1 : text[i] = "ws"
  BY DEF BlankTo
<1>2. n - 1 \in q .. pe - 1 /\ (n - 1) + 1 = n
  BY <1>1
<1>3. \A i \in q .. (n - 1) - 1 : i + 1 \in q + 1 .. n - 1
  BY <1>1
<1>4. At(n - 1) = "nl" /\ \A i \in q .. (n - 1) - 1 : At(i) = "ws"
  BY <1>1, <1>2, <1>3 DEF At
<1>5. n - 1 \in NewlineBehind(q)
  BY <1>2, <1>4 DEF NewlineBehind
<1>6. QED
  BY <1>5

\* An entry, and a line that ends with it.
LEMMA EnterTell ==
  ASSUME EmbInv, EmbInv', LangInv, HistInv, EmbAct, Straight, Tells, Enter
  PROVE  Tells' /\ ReportsRight
<1>. DEFINE c == Code(count, p)
<1>1. /\ InHost /\ Outside /\ p < pe /\ region' = NoRegion /\ UNCHANGED <<text, page>>
  BY DEF Enter, Outside
<1>2. PICK e \in Entries :
         /\ At(p) = e.open /\ Call(e)
         /\ Recorded({lang, e.lang}, IF e.own THEN e.lang ELSE lang)
         /\ \/ NewlineBehind(p + 1) = {} /\ count' = Saw(c) /\ p' = p + 1
            \/ \E n \in NewlineBehind(p + 1) :
                 count' = Saw(StdNewline(c, p, n + 1)) /\ p' = n + 1
  BY DEF Enter, CheckBlankEntry
<1>3. /\ Host = lang /\ Host \in DOMAIN Hosts /\ e.lang # Host /\ ~e.own
      /\ e.lang \notin DOMAIN Hosts /\ lang \in LangType
  BY <1>1, InHostParts, StraightParts, HereParts
<1>4. lang' = e.lang /\ Recorded({Host, e.lang}, Host) /\ ReadIn({Host, e.lang})
  BY <1>2, <1>3 DEF Call, Recorded, ReadIn
<1>5. /\ p \in Nat /\ pe \in Nat /\ Len(text) = pe /\ Len(text) \in Nat /\ Sound(count)
      /\ file \in 1 .. NFiles /\ p + 1 \in Nat /\ p < p + 1
      /\ \A i \in 1 .. p : by'[i] = by[i]
      /\ \A i \in p + 1 .. p' : by'[i] = {Host, e.lang}
  BY <1>4, ReadParts
<1>6. text[p + 1] = e.open /\ text[p + 1] \in Openings /\ text[p + 1] # "nl"
  BY <1>2, <1>3, NoNewlineDoor DEF At, Openings
<1>7. Sound(c) /\ c.out = count.out /\ ~c.inqueue
  BY <1>1, <1>5, CodeSound, CodeBegins DEF Begins, Tells
<1>. HIDE DEF c
<1>8. Embedding' /\ page' = NoPage
  BY <1>1, <1>3, <1>4 DEF Embedding, Tells
<1>9. CASE NewlineBehind(p + 1) = {} /\ count' = Saw(c) /\ p' = p + 1
  <2>1. \A i \in p + 1 .. p + 1 : text[i] # "nl" /\ by'[i] = {Host, e.lang}
    <3>1. \A i \in p + 1 .. p + 1 : i = p + 1
      BY <1>5
    <3>2. QED
      BY <1>5, <1>6, <1>9, <3>1
  <2>2. OneIn(by', text, Host, Openings, LineIn(text, p + 1)) =>
          OwnIn(by', text, Host, LineIn(text, p + 1)) \subseteq {Host}
    <3>1. SUFFICES ASSUME OneIn(by', text, Host, Openings, LineIn(text, p + 1))
                   PROVE  OwnIn(by', text, Host, LineIn(text, p + 1)) \subseteq {Host}
      OBVIOUS
    <3>2. PICK x \in Nat : x = p + 1
      BY <1>5
    <3>3. e.lang # Host /\ p \in Nat /\ p < x /\ text[p + 1] \in Openings
      BY <1>3, <1>5, <1>6, <3>2
    <3>4. \A i \in 1 .. p : by'[i] = by[i]
      BY <1>5
    <3>5. \A i \in p + 1 .. x : text[i] # "nl" /\ by'[i] = {Host, e.lang}
      BY <2>1, <3>2
    <3>6. OneIn(by', text, Host, Openings, LineIn(text, x))
      BY <3>1, <3>2
    <3>7. OwnIn(by', text, Host, LineIn(text, x)) \subseteq {Host}
      BY ONLY <3>3, <3>4, <3>5, <3>6, EntryLine
    <3>8. QED
      BY <3>2, <3>7
  <2>3. ~BlankTo(text, p + 1)
    BY <1>5, <1>9, BlankBehind
  <2>4. Kind(count'.line) = "lblank" /\ ~count'.inqueue /\ count'.out = count.out
    BY <1>7, <1>9, SawSound, SawBlank
  <2>5. /\ EmbSaysIn(by', text, Host, Openings, lang', p + 1)
        /\ FlagsIn(by', text, Host, Openings, lang', p + 1, count'.line)
    BY <1>3, <1>4, <2>2, <2>3, <2>4 DEF EmbSaysIn, FlagsIn
  <2>6. Tells'
    BY <1>1, <1>8, <1>9, <2>4, <2>5, TellsOutside
  <2>7. QED
    BY <2>4, <2>6, NoneRight
<1>10. CASE \E n \in NewlineBehind(p + 1) :
                 count' = Saw(StdNewline(c, p, n + 1)) /\ p' = n + 1
  <2>1. PICK n \in NewlineBehind(p + 1) :
                 count' = Saw(StdNewline(c, p, n + 1)) /\ p' = n + 1
    BY <1>10
  <2>2. /\ n \in p + 1 .. pe - 1 /\ n \in Nat /\ p < n /\ n + 1 \in Nat /\ text[n + 1] = "nl"
        /\ \A i \in p + 1 .. n - 1 : text[i + 1] = "ws"
    BY <1>5 DEF NewlineBehind, At
  <2>3. \A i \in p + 1 .. n : text[i] # "nl" /\ by'[i] = {Host, e.lang}
    <3>1. \A i \in p + 1 .. n : /\ i \in p + 1 .. p'
                                /\ i = p + 1 \/ (i - 1 \in p + 1 .. n - 1 /\ (i - 1) + 1 = i)
      BY <1>5, <2>1, <2>2
    <3>2. \A i \in p + 1 .. n : i = p + 1 \/ text[i] = "ws"
      BY <2>2, <3>1
    <3>3. QED
      BY <1>5, <1>6, <3>1, <3>2
  <2>4. OneIn(by', text, Host, Openings, LineIn(text, n)) =>
          OwnIn(by', text, Host, LineIn(text, n)) \subseteq {Host}
    <3>1. SUFFICES ASSUME OneIn(by', text, Host, Openings, LineIn(text, n))
                   PROVE  OwnIn(by', text, Host, LineIn(text, n)) \subseteq {Host}
      OBVIOUS
    <3>2. e.lang # Host /\ p \in Nat /\ n \in Nat /\ p < n /\ text[p + 1] \in Openings
      BY <1>3, <1>5, <1>6, <2>2
    <3>3. \A i \in 1 .. p : by'[i] = by[i]
      BY <1>5
    <3>4. QED
      BY ONLY <2>3, <3>1, <3>2, <3>3, EntryLine
  <2>5. RightIn(by', text, Host, Openings, LineIn(text, n), Host)
    <3>. DEFINE own == OwnIn(by', text, Host, LineIn(text, n))
    <3>. HIDE DEF own
    <3>1. own \subseteq {Host} /\ own # {} => Host \in own
      OBVIOUS
    <3>2. QED
      BY <2>4, <3>1 DEF RightIn, own
  <2>6. RightIn(by', text, Host, Openings, LineAt(text, n + 1), Host)
    BY <2>2, <2>5, RightLine
  <2>. DEFINE d == StdNewline(c, p, n + 1)
  <2>7. Sound(d) /\ Adds(count.out, d.out, {n + 1}) /\ ~d.inqueue
    BY <1>5, <1>7, <2>2, StdNewlineSound, StdNewlineAdds, StdNewlineIdle
  <2>8. count' = Saw(d)
    BY <2>1
  <2>. HIDE DEF d
  <2>9. /\ Adds(count.out, count'.out, {n + 1}) /\ ~count'.inqueue
        /\ Kind(count'.line) = "lblank"
    BY <2>7, <2>8, SawSound, SawBlank
  <2>10. /\ EmbSaysIn(by', text, Host, Openings, lang', n + 1)
         /\ OwnIn(by', text, Host, LineIn(text, n + 1)) = {}
    BY <2>2, EmbNew, LineNew
  <2>11. FlagsIn(by', text, Host, Openings, lang', n + 1, count'.line)
    BY <2>9, <2>10 DEF FlagsIn
  <2>12. Tells'
    BY <1>1, <1>8, <2>1, <2>9, <2>10, <2>11, TellsOutside
  <2>13. ReportsRight
    BY <1>3, <1>4, <2>6, <2>9, NewRight DEF HistInv
  <2>14. QED
    BY <2>12, <2>13
<1>11. QED
  BY <1>2, <1>9, <1>10

LEMMA HostMarkCounts ==
  ASSUME page = NoPage, NEW c, Sound(c), NEW from \in Nat
  PROVE  HostMark(c, from).out = c.out /\ ~HostMark(c, from).inqueue
<1>. DEFINE d == Dequeue(c)
<1>1. HostMark(c, from) = Code(d, from)
  BY DEF HostMark, NoPage
<1>2. QED
  BY <1>1, CharCounts

\* check_blank_outry forgets what was seen if nothing of it is on the line.
LEMMA OutryTell ==
  ASSUME EmbInv, EmbInv', LangInv, HistInv, EmbAct, Straight, Tells, Outry
  PROVE  Tells' /\ ReportsRight
<1>. DEFINE c == Code(count, p)
<1>1. /\ Embedding /\ Outside /\ p < pe /\ p' = p + 1 /\ region' = NoRegion
      /\ lang' = Host /\ UNCHANGED <<text, page>> /\ ReadIn({lang, Host})
  BY DEF Outry, Outside, Recorded, ReadIn
<1>2. PICK e \in Entries :
         /\ At(p) \in e.outries
         /\ seen' = IF At(p) \in e.checked /\ BlankOutry THEN NoLanguage ELSE seen
         /\ count' = IF At(p) \in e.alone
                     THEN IF At(p) \in e.coded THEN c ELSE count
                     ELSE HostMark(IF At(p) \in e.coded THEN c ELSE count, p)
  BY DEF Outry
<1>3. /\ Host \in DOMAIN Hosts /\ lang # Host /\ e.outries = e.checked
      /\ seen = lang /\ lang # NoLanguage /\ page = NoPage
  BY <1>1, StraightParts, HereParts, NoLanguageAssumption DEF HistInv, SeenHist, Tells
<1>4. seen' = IF Kind(count.line) = "lblank" THEN NoLanguage ELSE lang
  <2>1. BlankOutry <=> Kind(count.line) = "lblank"
    BY DEF BlankOutry, Kind
  <2>2. QED
    BY <1>2, <1>3, <2>1
<1>5. /\ p \in Nat /\ pe \in Nat /\ Sound(count) /\ p + 1 \in Nat /\ p < p + 1
      /\ \A i \in 1 .. p : by'[i] = by[i]
      /\ \A i \in p + 1 .. p' : by'[i] = {lang, Host}
  BY <1>1, ReadParts
<1>6. \A i \in p + 1 .. p + 1 : text[i] # "nl" /\ by'[i] = {Host, lang}
  <2>1. \A i \in p + 1 .. p + 1 : i = p + 1
    BY <1>5
  <2>2. text[p + 1] # "nl"
    BY <1>2, <1>3, NoNewlineDoor DEF At
  <2>3. QED
    BY <1>1, <1>5, <2>1, <2>2
<1>7. /\ p + 1 \in DoorsIn(by', text, Host, LineIn(text, p + 1))
      /\ OwnIn(by', text, Host, LineIn(text, p + 1)) = OwnIn(by, text, Host, LineIn(text, p))
      /\ OneIn(by', text, Host, Openings, LineIn(text, p + 1)) =>
             OneIn(by, text, Host, Openings, LineIn(text, p))
  BY <1>3, <1>5, <1>6, LineDoors
<1>8. HostSaysIn(by', text, Host, Openings, seen', p + 1)
  <2>1. /\ EmbSaysIn(by, text, Host, Openings, lang, p)
        /\ FlagsIn(by, text, Host, Openings, lang, p, count.line)
    BY <1>1 DEF Tells, EmbSays, FlagsTell
  <2>2. OneIn(by, text, Host, Openings, LineIn(text, p)) =>
          \/ lang \in OwnIn(by, text, Host, LineIn(text, p)) /\ Kind(count.line) # "lblank"
          \/ /\ Kind(count.line) = "lblank"
             /\ OwnIn(by, text, Host, LineIn(text, p)) \subseteq {Host}
    BY <2>1 DEF EmbSaysIn, FlagsIn
  <2>3. QED
    BY <1>3, <1>4, <1>7, <2>2 DEF HostSaysIn
<1>9. Sound(c) /\ c.out = count.out /\ ~c.inqueue /\ ~count.inqueue
  BY <1>1, <1>5, CodeSound, CodeBegins DEF Begins, Tells
<1>. HIDE DEF c
<1>10. ~count'.inqueue /\ count'.out = count.out
  <2>. DEFINE k == HostMark(c, p)
              d == HostMark(count, p)
  <2>1. page = NoPage
    BY <1>3
  <2>2. k.out = c.out /\ ~k.inqueue
    BY <1>5, <1>9, <2>1, HostMarkCounts
  <2>3. d.out = count.out /\ ~d.inqueue
    BY <1>5, <1>9, <2>1, HostMarkCounts
  <2>4. count' \in {c, count, k, d}
    BY <1>2
  <2>. HIDE DEF k, d
  <2>5. QED
    BY <1>9, <2>2, <2>3, <2>4
<1>11. ~Embedding' /\ page' = NoPage
  BY <1>1, <1>3 DEF Embedding
<1>12. Tells'
  BY <1>1, <1>8, <1>10, <1>11, TellsOutside
<1>13. QED
  BY <1>10, <1>12, NoneRight

\* process_last_line reports no line that a newline ends.
LEMMA EmbEndTell ==
  ASSUME EmbInv, EmbInv', LangInv, HistInv, EmbAct, Straight, Tells, EmbEndOfText
  PROVE  Tells' /\ ReportsRight
<1>1. /\ Outside /\ count' = LastLine(count) /\ pc' = "parsed" /\ Recorded({}, Host)
      /\ ReadIn({}) /\ UNCHANGED <<lang, text, p, seen, page>>
  BY DEF EmbEndOfText, EndOfText, Recorded, ReadIn
<1>2. /\ p \in Nat /\ pe \in Nat /\ p <= pe /\ Sound(count) /\ file \in 1 .. NFiles
      /\ \A i \in 1 .. p : by'[i] = by[i]
  BY <1>1, ReadParts
<1>3. Host' = Host /\ Openings' = Openings
  BY SameFile
<1>4. /\ Adds(count.out, count'.out, {pe})
      /\ Kind(count.line) = "lblank" => count'.out = count.out
  BY <1>1, <1>2, LastLineAdds
<1>5. ReportsRight
  <2>1. CASE Kind(count.line) = "lblank"
    BY <1>4, <2>1, NoneRight
  <2>2. CASE Kind(count.line) # "lblank"
    <3>1. pe > 0
      <4>1. count.line.start \in Nat
        BY <1>2, <2>2, SaysStarted, SoundParts DEF Sound, CountType
      <4>2. count.line.start < pe
        BY <1>1, <2>2 DEF EmbInv, TextInv, Outside
      <4>3. QED
        BY <1>2, <4>1, <4>2
    <3>2. ~(pe <= p' /\ text[pe] = "nl")
      <4>1. ~page.leaving
        BY <1>1 DEF Tells, NoPage
      <4>2. ~(p > 0 /\ text[p] = "nl")
        BY <1>1, <2>2, <4>1 DEF HistInv, BlankHist
      <4>3. pe <= p' => pe = p
        BY <1>1, <1>2
      <4>4. QED
        BY <3>1, <4>2, <4>3
    <3>3. Host \in LangType
      BY StraightParts, HostsAssumption DEF LangType
    <3>4. QED
      BY <1>1, <1>4, <3>2, <3>3, NewRight DEF HistInv
  <2>3. QED
    BY <2>1, <2>2
<1>6. CASE Embedding
  <2>1. EmbSaysIn(by', text, Host, Openings, lang, p)
    BY <1>2, <1>6, EmbKept DEF Tells, EmbSays
  <2>2. EmbSays' /\ Embedding'
    BY <1>1, <1>3, <1>6, <2>1 DEF EmbSays, Embedding
  <2>3. QED
    BY <1>1, <1>5, <2>2 DEF Tells, Within, Outside
<1>7. CASE ~Embedding
  <2>1. HostSaysIn(by, text, Host, Openings, seen, p)
    BY <1>7 DEF Tells, HostSays
  <2>2. HostSaysIn(by', text, Host, Openings, seen, p)
    BY <1>2, <2>1, LineKept DEF HostSaysIn
  <2>3. HostSays' /\ ~Embedding'
    BY <1>1, <1>3, <1>7, <2>2 DEF HostSays, Embedding
  <2>4. QED
    BY <1>1, <1>5, <2>3 DEF Tells, Within, Outside
<1>8. QED
  BY <1>6, <1>7

\* In a straight page no comment or string of the page begins.
LEMMA NoPageTell ==
  ASSUME EmbInv, LangInv, Straight, Tells
  PROVE  ~(OpenPage \/ ReadPage \/ ClosePage \/ EnterFromPage \/ StopInPage)
<1>1. ~OpenPage
  <2>. SUFFICES ASSUME OpenPage PROVE FALSE
    OBVIOUS
  <2>1. p < pe /\ text[p + 1] \in PageOpeners
    BY DEF OpenPage, At
  <2>2. p + 1 \in 1 .. pe
    BY <2>1, HereParts
  <2>3. QED
    BY <2>1, <2>2, StraightParts
<1>2. ~InPage
  BY DEF InPage, Tells
<1>3. QED
  BY <1>1, <1>2 DEF ReadPage, ClosePage, EnterFromPage, StopInPage

LEMMA TellAct ==
  ASSUME EmbInv, EmbInv', LangInv, HistInv, NoEol, Straight, Tells, EmbAct
  PROVE  Tells' /\ ReportsRight
  BY SpacesTell, AnyCharTell, OpenRegionTell, ReadRegionTell, CloseRegionTell,
     EndLineCommentTell, BacktrackTell, EndLineTell, EnterTell, OutryTell, EmbEndTell,
     NoPageTell DEF EmbAct, EmbNext, Scan

LEMMA NewFileTells ==
  ASSUME page = NoPage, p = 0, lang \in DOMAIN Hosts, seen = NoLanguage, region = NoRegion,
         ~count.inqueue
  PROVE  Tells
<1>1. OwnIn(by, text, Host, LineIn(text, p)) = {}
  BY LineNew
<1>2. HostSays
  BY <1>1 DEF HostSays, HostSaysIn
<1>3. QED
  BY <1>2 DEF Tells, Embedding, Within

LEMMA NewFileTellsNext ==
  ASSUME page' = NoPage, p' = 0, lang' \in DOMAIN Hosts, seen' = NoLanguage,
         region' = NoRegion, ~count'.inqueue
  PROVE  Tells'
<1>1. OwnIn(by', text', Host', LineIn(text', p')) = {}
  BY LineNew
<1>2. HostSays'
  BY <1>1 DEF HostSays, HostSaysIn
<1>3. QED
  BY <1>2 DEF Tells, Embedding, Within

LEMMA TextNoEol ==
  ASSUME NEW l \in DOMAIN Scanners, NEW t \in Texts[l]
  PROVE  \A i \in 1 .. Len(t) : t[i] # "eol"
<1>1. t \in Seq(STRING) /\ \A i \in DOMAIN t : t[i] # "eol"
  BY TextsAssumption
<1>2. DOMAIN t = 1 .. Len(t)
  BY <1>1, LenProperties
<1>3. QED
  BY <1>1, <1>2

LEMMA TellInit == EmbInit => TellInv
<1>. SUFFICES ASSUME EmbInit PROVE TellInv
  OBVIOUS
<1>1. /\ page = NoPage /\ p = 0 /\ lang \in DOMAIN Hosts /\ seen = NoLanguage
      /\ region = NoRegion /\ ~count.inqueue
      /\ lang \in DOMAIN Scanners /\ text \in Texts[lang]
  BY DEF EmbInit, Init, CountInit
<1>2. NoEol
  BY <1>1, TextNoEol DEF NoEol, pe
<1>3. QED
  BY <1>1, <1>2, NewFileTells DEF TellInv

LEMMA NextFileTell ==
  ASSUME EmbInv, EmbNextFile
  PROVE  TellInv' /\ ReportsRight
<1>1. /\ page' = NoPage /\ p' = 0 /\ lang' \in DOMAIN Hosts /\ seen' = NoLanguage
      /\ count' = StartFile(count) /\ pc = "parsed" /\ UNCHANGED region
      /\ lang' \in DOMAIN Scanners /\ text' \in LaterTexts[lang']
  BY DEF EmbNextFile, NextFile
<1>2. count'.out = <<>> /\ ~count'.inqueue
  BY <1>1 DEF StartFile, EmbInv, TypeInv, Sound, CountType
<1>3. region' = NoRegion
  BY <1>1 DEF EmbInv, TypeInv, ReadingInv
<1>4. text' \in Texts[lang']
  BY <1>1, TextsAssumption
<1>5. NoEol'
  BY <1>1, <1>4, TextNoEol DEF NoEol, pe
<1>6. Ended' = {}
  BY <1>2 DEF Ended, Lines
<1>7. Tells'
  BY <1>1, <1>2, <1>3, NewFileTellsNext
<1>8. QED
  BY <1>5, <1>6, <1>7 DEF TellInv, ReportsRight

LEMMA TellStep ==
  ASSUME EmbInv, EmbInv', LangInv, HistInv, TellInv, EmbNext
  PROVE  TellInv' /\ (Straight => ReportsRight)
<1>1. CASE EmbNextFile
  BY <1>1, NextFileTell
<1>2. CASE EmbAct
  <2>1. (Straight' <=> Straight) /\ text' = text /\ pe' = pe
    BY <1>2, SameFile
  <2>2. NoEol'
    BY <2>1 DEF TellInv, NoEol
  <2>3. QED
    BY <1>2, <2>1, <2>2, TellAct DEF TellInv
<1>3. QED
  BY <1>1, <1>2 DEF EmbAct

LEMMA TellSame ==
  ASSUME TellInv, UNCHANGED allVars
  PROVE  TellInv'
  BY DEF allVars, embVars, vars, TellInv, NoEol, Straight, Tells, EmbSays, HostSays,
     FlagsTell, RegionTells, RightPlaces, Openings, Untold, PageOpeners, Entries, Host,
     Embedding, Within, Outside, At, pe

\* What is reported rightly is reported as stated.
LEMMA RightStated ==
  ASSUME ReportsRight
  PROVE  \A k \in Ended' : k > Len(count.out) =>
           InItsLanguage(LineOf(count.out[k].e), langs[k])'
  BY DEF ReportsRight, RightIn, OneIn, OwnIn, SaidIn, DoorsIn, LineAt, Openings,
         InItsLanguage, OneEntry, Own, Doors, LineOf

\* In straight pages with hosts all of whose outries are code of the host, a line
\* that a newline ends is counted in a language that something on it is in, and
\* in the host's if it has nothing but entries or outries on it: the line's flags,
\* which check_blank_outry asks, tell whether anything of the embedded language
\* is on it, whatever regions were left on it or gone back from.
THEOREM PageLineInItsLanguage == ASSUME AllCoded PROVE EmbSpec => LineInItsLanguage
<1>1. EmbInit => LangInv /\ HistInv /\ TellInv
  BY LangInit, HistInit, TellInit
<1>2. EmbInv /\ LangInv /\ HistInv /\ [EmbNext]_allVars => LangInv' /\ HistInv'
  BY LangStep, HistStep, HistSame
<1>3. EmbInv /\ EmbInv' /\ LangInv /\ HistInv /\ TellInv /\ [EmbNext]_allVars => TellInv'
  BY TellStep, TellSame
<1>4. EmbInv /\ EmbInv' /\ LangInv /\ HistInv /\ TellInv /\ [EmbNext]_allVars =>
        [Straight => \A k \in Ended' : k > Len(count.out) =>
           InItsLanguage(LineOf(count.out[k].e), langs[k])']_allVars
  BY TellStep, RightStated
<1>5. QED
  BY <1>1, <1>2, <1>3, <1>4, EmbInvAlways, PTL DEF EmbSpec, LineInItsLanguage

=============================================================================
