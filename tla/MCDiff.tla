------------------------------- MODULE MCDiff -------------------------------
(***************************************************************************)
(* Small instances of SourceFileDiff for TLC.                              *)
(***************************************************************************)
EXTENDS SourceFileDiff

CONSTANTS one, two, three, empty, java, ruby

\* All different, and on both sides of the 0 that equiv marks with.
Hashed == [line \in {one, two, three} |->
             IF line = one THEN -1 ELSE IF line = two THEN 1 ELSE 2]

\* Up to four lines of three kinds or five of two, empty ones among fewer, and
\* a large one.
Few == BoundedSeq({one, two, three}, 4) \cup BoundedSeq({one, two}, 5)
         \cup BoundedSeq({one, two, empty}, 3) \cup {<<one, empty, two, three, one, two>>}

Part(l, code, comments, blanks) ==
    [language |-> l, code |-> code, comments |-> comments, blanks |-> blanks]

\* One language, with any code: every call of calc_diff on few lines, followed
\* by one for comments that finds what that one left.
OneLanguage ==
    {<< <<Part(l, s, <<two>>, 0)>>, <<Part(l, t, <<one, two>>, 0)>> >> :
        l \in {CHOOSE l \in Languages : TRUE}, s, t \in Few}

\* Files with up to two languages, in either order.
Parts(l) == {Part(l, <<one>>, <<>>, 1), Part(l, <<two, one>>, <<one>>, 0),
             Part(l, <<>>, <<two>>, 2)}
SmallFiles ==
    {<<>>} \cup {<<p>> : p \in UNION {Parts(l) : l \in Languages}}
      \cup UNION {{<<p, q>> : p \in Parts(m[1]), q \in Parts(m[2])} :
                    m \in {n \in Languages \X Languages : n[1] # n[2]}}

Pairs == OneLanguage \cup (SmallFiles \X SmallFiles)
=============================================================================
