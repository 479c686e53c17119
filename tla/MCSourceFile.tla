---------------------------- MODULE MCSourceFile ----------------------------
(***************************************************************************)
(* A small instance of SourceFile for TLC: a file that is now empty, now   *)
(* one of two versions in two languages.                                   *)
(***************************************************************************)
EXTENDS SourceFile

CONSTANTS empty, short, long, c, ruby

Sizes == [v \in {empty, short, long} |->
            IF v = empty THEN 0 ELSE IF v = short THEN 2 ELSE 5]

\* The whole of the longer version, its halves, and an empty span.
TwoHalves == {<<0, 5>>, <<0, 2>>, <<2, 5>>}

\* The extension is shared by two languages: the contents decide.
ByContents == [v \in {empty, short, long, NULL} |->
                 IF v = long THEN ruby
                 ELSE IF v = NULL THEN NoLanguage ELSE c]
=============================================================================
