-------------------------------- MODULE Diff --------------------------------
(***************************************************************************)
(* ohcount_calc_diff (src/diff.c): how many lines were added and removed   *)
(* between two buffers.  Lines are compared by their hashes only.  Past a  *)
(* common beginning and end (prune), Stone's algorithm finds a longest     *)
(* common subsequence: klist[k] is a candidate <<x, y>> that ends a common *)
(* subsequence of length k, chained through pred to the one before it.     *)
(*                                                                         *)
(* Sorting the lines by hash (sort, equiv, unsort) serves to find for each *)
(* line of file 0 its mates, the equal lines of file 1: Mates says which.  *)
(* Each turn of a loop of stone and of output is a step.                   *)
(***************************************************************************)
EXTENDS Integers, Sequences, SequencesExt

CONSTANTS
    Lines,      \* the lines that are not empty
    Empty,      \* the empty line
    Hash,       \* what hash makes of a line
    Buffers,    \* the buffers to compare, as sequences of lines
    Large       \* so many lines have more than USE_DISK_IF_LARGER bytes

\* A line that hashes to 0, the value equiv marks lines without mates and the
\* end of the classes with, is left out.
ASSUME DiffAssumption ==
    /\ Empty \notin Lines
    /\ Hash \in [Lines -> Int \ {0}]
    /\ Buffers \subseteq Seq(Lines \cup {Empty})
    /\ Large \in Nat

VARIABLES
    text,       \* <<from, to>>: the buffers, line by line
    file,       \* the hashes of their lines
    pref, suff,
    i,          \* the line of file 0 stone has come to
    mates,      \* those of its mates that are still to be tried
    clist,      \* the candidates made, klist: the best of each length
    klist,
    oldc, oldl,
    J,          \* the match vector
    added, removed,
    pc

input == <<text, file, pref, suff>>
search == <<i, mates, clist, klist, oldc, oldl>>
result == <<J, added, removed>>
vars == <<input, search, result, pc>>

len(f) == Len(file[f])
slen(f) == len(f) - pref - suff
y(c) == clist[c].y
k == Len(klist) - 1

\* klist[1 + n] is the candidate of length n: C's klist[n].
Klist(n) == klist[n + 1]

\* Nothing was compared yet: the globals are what they are at first.
Unused ==
    /\ file = << <<>>, <<>> >> /\ pref = 0 /\ suff = 0
    /\ i = 0 /\ mates = {} /\ clist = <<>> /\ klist = <<>>
    /\ oldc = 1 /\ oldl = 0
    /\ J = [n \in {} |-> 0] /\ added = 0 /\ removed = 0

Init ==
    /\ text \in Buffers \X Buffers /\ Unused
    /\ pc = "prepare"

\* A call finds the globals as the call before it left them.
CalcDiff(from, to) ==
    /\ pc = "done"
    /\ text' = <<from, to>> /\ pc' = "prepare"
    /\ added' = 0 /\ removed' = 0
    /\ UNCHANGED <<file, pref, suff, search, J>>

\* prepare: strtok passes over empty lines.
Hashes(buf) ==
    LET Of[n \in 0 .. Len(buf)] ==
          IF n = 0 THEN <<>>
          ELSE IF buf[n] = Empty THEN Of[n - 1]
          ELSE Append(Of[n - 1], Hash[buf[n]])
    IN  Of[Len(buf)]

Prepare ==
    /\ pc = "prepare"
    /\ Len(text[1]) < Large /\ Len(text[2]) < Large
    /\ file' = <<Hashes(text[1]), Hashes(text[2])>>
    /\ pc' = "prune"
    /\ UNCHANGED <<text, pref, suff, search, result>>

\* The length of a longest common subsequence.
Longest(s, t) ==
    LET L[p \in (0 .. Len(s)) \X (0 .. Len(t))] ==
          LET fewer == <<p[1] - 1, p[2] - 1>>
              above == <<p[1] - 1, p[2]>>
              left == <<p[1], p[2] - 1>>
          IN  IF p[1] = 0 \/ p[2] = 0 THEN 0
              ELSE IF s[p[1]] = t[p[2]] THEN L[fewer] + 1
              ELSE IF L[above] >= L[left] THEN L[above] ELSE L[left]
    IN  L[<<Len(s), Len(t)>>]

\* For large buffers the program diff is asked, which compares all lines, the
\* empty ones too, and need not find a longest subsequence of different files.
CalcWithDisk ==
    /\ pc = "prepare"
    /\ Len(text[1]) >= Large \/ Len(text[2]) >= Large
    /\ \E common \in 0 .. Longest(text[1], text[2]) :
         /\ text[1] = text[2] => common = Len(text[1])
         /\ added' = Len(text[2]) - common
         /\ removed' = Len(text[1]) - common
    /\ pc' = "done"
    /\ UNCHANGED <<input, search, J>>

\* How many elements s and t have in common at their beginning.
CommonStart(s, t) ==
    CHOOSE n \in 0 .. Len(s) :
      /\ n <= Len(t) /\ \A m \in 1 .. n : s[m] = t[m]
      /\ n < Len(s) /\ n < Len(t) => s[n + 1] # t[n + 1]

\* prune, were the suffix looked for in the whole files.
PruneOverlapping ==
    /\ pc = "prune"
    /\ pref' = CommonStart(file[1], file[2])
    /\ suff' = CommonStart(Reverse(file[1]), Reverse(file[2]))
    /\ pc' = "stone"
    /\ i' = 0 /\ clist' = <<[x |-> 0, y |-> 0, pred |-> 1]>> /\ klist' = <<1>>
    /\ UNCHANGED <<text, file, mates, oldc, oldl, result>>

\* prune; stone begins with the candidate <<0, 0>> of length 0.
Prune ==
    /\ pc = "prune"
    /\ pref' = CommonStart(file[1], file[2])
    /\ suff' = LET rest(f) == SubSeq(file[f], pref' + 1, len(f))
               IN  CommonStart(Reverse(rest(1)), Reverse(rest(2)))
    /\ pc' = "stone"
    /\ i' = 0 /\ clist' = <<[x |-> 0, y |-> 0, pred |-> 1]>> /\ klist' = <<1>>
    /\ UNCHANGED <<text, file, mates, oldc, oldl, result>>

\* sort, equiv, unsort: the lines of file 1 equal to line n of file 0.
Mates(n) == {m \in 1 .. slen(2) : file[2][pref + m] = file[1][pref + n]}

\* The loop over the lines of file 0.
StoneLine ==
    /\ pc = "stone" /\ mates = {} /\ i < slen(1)
    /\ i' = i + 1
    /\ mates' = Mates(i + 1)
    /\ oldl' = 0 /\ oldc' = Klist(0)
    /\ UNCHANGED <<input, clist, klist, result, pc>>

\* search: a binary search for the candidate whose place in klist one that
\* ends at line at of file 1 takes.
Search(at) ==
    LET Between[r \in {s \in (0 .. k) \X (1 .. k + 1) : s[1] < s[2]}] ==
          LET l == (r[1] + r[2]) \div 2
          IN  IF l = r[1] THEN l + 1
              ELSE IF y(Klist(l)) > at THEN Between[<<r[1], l>>]
              ELSE IF y(Klist(l)) < at THEN Between[<<l, r[2]>>]
              ELSE l
    IN  IF y(Klist(k)) < at THEN k + 1 ELSE Between[<<0, k + 1>>]

\* newcand, and its place in klist.
Candidate(l, at, pred) ==
    /\ clist' = Append(clist, [x |-> i, y |-> at, pred |-> pred])
    /\ klist' = IF l > k THEN Append(klist, Len(clist'))
                ELSE [klist EXCEPT ![l + 1] = Len(clist')]

\* Predecessor, were the replaced candidate forgotten.
PredecessorNow(l) == Klist(l - 1)

\* The candidate to chain to is that of the length before, as it was before
\* this line of file 0 replaced it.
Predecessor(l) == IF l # oldl + 1 THEN Klist(l - 1) ELSE oldc

\* Better, were a candidate replaced by one that ends at the same line.
NotWorse(l, at) == IF l > k THEN TRUE ELSE at <= y(Klist(l))

Better(l, at) == IF l > k THEN TRUE ELSE at < y(Klist(l))

\* The loop over the mates of that line; once klist has grown it is left.
StoneMate ==
    /\ pc = "stone" /\ mates # {}
    /\ LET at == Min(mates)
           l == Search(at)
       IN  \/ /\ at <= y(oldc)
              /\ UNCHANGED <<clist, klist, oldc, oldl>>
              /\ mates' = mates \ {at}
           \/ /\ at > y(oldc) /\ ~Better(l, at)
              /\ oldc' = Predecessor(l)
              /\ UNCHANGED <<clist, klist, oldl>>
              /\ mates' = mates \ {at}
           \/ /\ at > y(oldc) /\ Better(l, at)
              /\ Candidate(l, at, Predecessor(l))
              /\ IF l <= k
                 THEN oldc' = Klist(l) /\ oldl' = l /\ mates' = mates \ {at}
                 ELSE oldc' = Predecessor(l) /\ UNCHANGED oldl /\ mates' = {}
    /\ UNCHANGED <<input, i, result, pc>>

\* The chain of candidates that ends with c, without <<0, 0>>.
Chain(c) ==
    LET From[d \in DOMAIN clist] ==
          IF y(d) = 0 THEN {} ELSE {clist[d]} \cup From[clist[d].pred]
    IN  From[c]

\* unravel, and the ends output gives J.
Unravel ==
    /\ pc = "stone" /\ mates = {} /\ i = slen(1)
    /\ J' = [n \in 0 .. len(1) + 1 |->
               IF n = len(1) + 1 THEN len(2) + 1
               ELSE IF n <= pref THEN n
               ELSE IF n > len(1) - suff THEN n + len(2) - len(1)
               ELSE LET here == {c \in Chain(Klist(k)) : c.x + pref = n}
                    IN  IF here = {} THEN 0
                        ELSE (CHOOSE c \in here : TRUE).y + pref]
    /\ i' = 1
    /\ pc' = "output"
    /\ UNCHANGED <<input, mates, clist, klist, oldc, oldl, added, removed>>

\* The first line of file 0 from start on whose match is not the next line of
\* file 1, and the last one from there on without a match.
FirstChanged(start) ==
    LET goesOn(n) == n <= len(1) /\ J[n] = J[n - 1] + 1
    IN  CHOOSE n \in start .. len(1) + 1 :
          ~goesOn(n) /\ \A m \in start .. n - 1 : goesOn(m)

LastUnmatched(i0) ==
    LET unmatched(n) == n <= len(1) /\ J[n] = 0
    IN  CHOOSE n \in i0 - 1 .. len(1) :
          ~unmatched(n + 1) /\ \A m \in i0 .. n : unmatched(m)

\* change: lines a to b of file 0 became lines c to d of file 1.
Change(a, b, c, d) ==
    /\ removed' = removed + (IF a <= b THEN b - a + 1 ELSE 0)
    /\ added' = added + (IF c <= d THEN d - c + 1 ELSE 0)

\* output: passes over matched lines, and counts those up to the next match.
Output ==
    /\ pc = "output" /\ i <= len(1)
    /\ LET i0 == FirstChanged(i)
           i1 == LastUnmatched(i0)
           j1 == J[i1 + 1] - 1
       IN  /\ Change(i0, i1, J[i0 - 1] + 1, j1)
           /\ J' = [J EXCEPT ![i1] = j1]
           /\ i' = i1 + 1
    /\ UNCHANGED <<input, mates, clist, klist, oldc, oldl, pc>>

Return ==
    /\ pc = "output" /\ i > len(1)
    /\ IF len(1) = 0 THEN Change(1, 0, 1, len(2))
       ELSE UNCHANGED <<added, removed>>
    /\ pc' = "done"
    /\ UNCHANGED <<input, search, J>>

Next ==
    \/ Prepare \/ CalcWithDisk \/ Prune
    \/ StoneLine \/ StoneMate
    \/ Unravel \/ Output \/ Return

Spec == Init /\ [][Next]_vars /\ WF_vars(Next)
----------------------------------------------------------------------------
\* The length of a longest common subsequence of the first m and n lines
\* behind the common beginning.
LongestTo(m, n) == Longest(SubSeq(file[1], pref + 1, pref + m),
                           SubSeq(file[2], pref + 1, pref + n))

\* "At step i a k-candidate is a matched pair of lines x,y such that there is
\* a common subsequence of length k between the first i lines of file0 and the
\* first y lines of file1, but there is no such subsequence for any smaller y
\* [...] x is the earliest possible mate to y that occurs in such a
\* subsequence" (diff.c:395-401).
KCandidates ==
    pc = "stone" /\ mates = {} =>
      /\ LongestTo(i, slen(2)) = k
      /\ \A n \in 1 .. k :
           LET c == clist[Klist(n)]
           IN  /\ LongestTo(i, c.y) = n /\ LongestTo(i, c.y - 1) = n - 1
               /\ file[1][pref + c.x] = file[2][pref + c.y]
               /\ \A x \in 1 .. c.x - 1 :
                    file[1][pref + x] = file[2][pref + c.y] => LongestTo(x, c.y) < n

\* The answer is the least there is to add and to remove: the lines outside a
\* longest common subsequence of the whole files, the common beginning and end
\* included.
LeastChange ==
    pc = "done" /\ Len(text[1]) < Large /\ Len(text[2]) < Large =>
      LET common == Longest(file[1], file[2])
      IN  added = len(2) - common /\ removed = len(1) - common

\* Every call comes to an end, whatever the call before it left behind.
Terminates == pc = "prepare" ~> pc = "done"
=============================================================================
