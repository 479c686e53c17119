---------------------------- MODULE MCCommandLine ----------------------------
(***************************************************************************)
(* A directory d with a file a, a directory s with a file b, a hidden      *)
(* directory h with a file c, and a link l.  a and b have a language in    *)
(* common, in another place of their lists; sorting what they come to      *)
(* takes two swaps.                                                        *)
(***************************************************************************)
EXTENDS CommandLine

d == <<"d">>
a == <<"d", ".a">>
s == <<"d", "s">>
b == <<"d", "s", "b">>
h == <<"d", ".h">>
c == <<"d", ".h", "c">>
l == <<"d", "l">>
DPaths == {d, a, s, b, h, c, l}
DHidden == {a, h}
ToS == [p \in DPaths |-> s]
DTree == [p \in DPaths |-> IF p \in {a, b, c} THEN "file"
                           ELSE IF p = l THEN "link" ELSE "dir"]
DTrees == {DTree}
DArgs == {<<>>, <<a, d>>, <<l>>, <<h, s>>}

Count(language, code, comments, blanks) ==
    [language |-> language,
     n |-> [code |-> code, comments |-> comments, blanks |-> blanks, filecount |-> 1]]
Names == <<"css", "html", "js">>
DHas == [p \in DPaths |->
           CASE p = a -> <<Count("html", 3, 0, 1), Count("js", 1, 2, 0)>>
             [] p = b -> <<Count("js", 4, 1, 1), Count("css", 4, 1, 2)>>
             [] OTHER -> <<>>]
DAnswers == [detect |-> [p \in DPaths |-> IF p = c THEN <<"(null)">> ELSE <<"html">>],
             annotate |-> [p \in DPaths |-> IF p = c THEN <<>> ELSE <<"code", "blank">>]]
=============================================================================
