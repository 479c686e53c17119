-------------------------------- MODULE MCLoc --------------------------------
(***************************************************************************)
(* Small instances of Loc for TLC: counts that differ in every number that *)
(* the operations look at, and files without lines.                        *)
(***************************************************************************)
EXTENDS Loc, TLC

LocAmount(code, comments, blanks) ==
    [code |-> code, comments |-> comments, blanks |-> blanks, filecount |-> 1]
SmallLocs == {LocAmount(1, 0, 0), LocAmount(0, 0, 1), LocAmount(0, 0, 0)}

NoChange == [f \in Changes |-> 0]
SmallDeltas == {[NoChange EXCEPT !["code_added"] = 1, !["code_removed"] = 1],
                [NoChange EXCEPT !["blanks_removed"] = 2],
                NoChange}

\* Neither languages nor lists are ordered anywhere.
Symmetry == Permutations(Languages) \cup Permutations(Lists)
=============================================================================
