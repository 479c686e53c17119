--------------------------------- MODULE Loc ---------------------------------
(***************************************************************************)
(* Line counts by language (src/loc.c): the lists of Loc, which hold the   *)
(* lines of one or more files, and the lists of LocDelta, which hold the   *)
(* lines added and removed between two revisions.                          *)
(*                                                                         *)
(* A client adds single counts to its lists, adds whole lists to others    *)
(* (as ohcount_sourcefile_list_analyze_languages does, file after file)    *)
(* and replaces a list by the compact form of another.  The two kinds of   *)
(* list have the same operations, written twice in the code; a behaviour   *)
(* uses one kind throughout.  A list is the sequence of its items, each a  *)
(* language and the numbers n counted for it.                              *)
(***************************************************************************)
EXTENDS Integers, Sequences, SequencesExt

CONSTANTS
    Languages,   \* the languages counts come in
    Lists,       \* the lists the client holds
    LocAmounts,  \* the numbers a Loc given to add_loc may have
    DeltaAmounts,\* the numbers a LocDelta given to add_loc_delta may have
    MaxCalls     \* bound on the operations the client starts

LocFields == {"code", "comments", "blanks", "filecount"}
Changes == {"code_added", "comments_added", "blanks_added",
            "code_removed", "comments_removed", "blanks_removed"}

ASSUME LocAssumption ==
    /\ LocAmounts \subseteq [LocFields -> Nat]
    /\ DeltaAmounts \subseteq [Changes -> Nat]
    /\ MaxCalls \in Nat
    /\ IsFiniteSet(Languages)

VARIABLES
    kind,   \* which of the two kinds of list this behaviour uses
    lists,  \* the items of each list, from head to tail
    op,     \* the list operation under way
    added,  \* history: the lines that were put into each list
    calls   \* the operations started so far

vars == <<kind, lists, op, added, calls>>

Kinds == {"Loc", "LocDelta"}
Fields == IF kind = "Loc" THEN LocFields ELSE Changes
Amounts == IF kind = "Loc" THEN LocAmounts ELSE DeltaAmounts

Items == [language : Languages, n : [Fields -> Nat]]
Zero == [f \in Fields |-> 0]

\* Plus, were filecount forgotten.
PlusLinesOnly(m, n) ==
    [f \in DOMAIN m |-> IF f = "filecount" THEN m[f] ELSE m[f] + n[f]]

\* ohcount_loc_add_loc, ohcount_loc_delta_add_loc_delta
Plus(m, n) == [f \in DOMAIN m |-> m[f] + n[f]]

\* The positions of a language in a list, and the first of them.
At(list, l) == {i \in DOMAIN list : list[i].language = l}
First(list, l) == CHOOSE i \in At(list, l) : \A h \in At(list, l) : i <= h

\* AddLoc, were only the head looked at.
AddToHead(list, item) ==
    IF list = <<>> \/ list[1].language # item.language
    THEN Append(list, item)
    ELSE [list EXCEPT ![1].n = Plus(@, item.n)]

\* ohcount_loc_list_add_loc
AddLoc(list, loc) ==
    IF At(list, loc.language) = {}
    THEN Append(list, loc)
    ELSE [list EXCEPT ![First(list, loc.language)].n = Plus(@, loc.n)]

\* ohcount_loc_delta_list_add_loc_delta: what the loop compares on every item
\* is list->delta, the delta of the head, so it stops at the head or nowhere.
AddLocDelta(list, delta) ==
    IF list # <<>> /\ list[1].language = delta.language
    THEN [list EXCEPT ![1].n = Plus(@, delta.n)]
    ELSE Append(list, delta)

Add(list, item) ==
    IF kind = "Loc" THEN AddLoc(list, item) ELSE AddLocDelta(list, item)

\* NoLines, were the blank lines forgotten.
NoCodeOrComments(n) == \A f \in {"code", "comments"} \cap DOMAIN n : n[f] = 0

\* ohcount_loc_total is zero, or ohcount_loc_delta_is_changed is false.
NoLines(n) == \A f \in DOMAIN n \ {"filecount"} : n[f] = 0

\* ohcount_loc_list_get_loc and ohcount_loc_delta_list_get_loc_delta: the
\* numbers of the item found, none if there is no item.
Get(list, l) ==
    IF At(list, l) = {} THEN Zero ELSE list[First(list, l)].n

\* ohcount_loc_list_code and the other sums over the items of a list.
Total(list, f) == FoldLeft(LAMBDA sum, item : sum + item.n[f], 0, list)

\* ohcount_loc_delta_net_total of one item, and the sum over a list.
Net(n) == (n["code_added"] - n["code_removed"])
          + (n["comments_added"] - n["comments_removed"])
          + (n["blanks_added"] - n["blanks_removed"])
NetTotal(list) == FoldLeft(LAMBDA sum, item : sum + Net(item.n), 0, list)

\* History: the numbers put into a list, and what its compact form is to
\* have of them ("excluding all Locs with no counted lines", loc.h:116).
Gathered(m, n) == [f \in DOMAIN m |-> m[f] + n[f]]
Counted(n) == IF \E f \in DOMAIN n : f # "filecount" /\ n[f] > 0 THEN n
              ELSE [f \in DOMAIN n |-> 0]

NoOp == [target |-> "none"]
Ops == [target : Lists, source : Lists, at : Nat \ {0}, compact : BOOLEAN]

Init ==
    /\ kind \in Kinds
    /\ lists = [k \in Lists |-> <<>>]
    /\ op = NoOp
    /\ added = [k \in Lists |-> [l \in Languages |-> Zero]]
    /\ calls = 0

Call == op = NoOp /\ calls < MaxCalls /\ calls' = calls + 1

\* The client adds one count to a list.
AddOne(k, l, n) ==
    /\ Call
    /\ lists' = [lists EXCEPT ![k] = Add(@, [language |-> l, n |-> n])]
    /\ added' = [added EXCEPT ![k][l] = Gathered(@, n)]
    /\ UNCHANGED <<kind, op>>

\* ..._add_..._list(k, s) starts: every item of s is to be added to k.
AddList(k, s) ==
    /\ Call /\ k # s
    /\ op' = [target |-> k, source |-> s, at |-> 1, compact |-> FALSE]
    /\ added' = [added EXCEPT ![k] =
                   [l \in Languages |-> Gathered(added[k][l], added[s][l])]]
    /\ UNCHANGED <<kind, lists>>

\* ..._list_new_compact(s) starts; the client forgets its old list k.
NewCompact(k, s) ==
    /\ Call /\ k # s
    /\ lists' = [lists EXCEPT ![k] = <<>>]
    /\ op' = [target |-> k, source |-> s, at |-> 1, compact |-> TRUE]
    /\ added' = [added EXCEPT ![k] =
                   [l \in Languages |-> Counted(added[s][l])]]
    /\ UNCHANGED kind

\* One iteration of the loop of either operation.
NextItem ==
    /\ op # NoOp /\ op.at <= Len(lists[op.source])
    /\ LET item == lists[op.source][op.at]
       IN  lists' = IF op.compact /\ NoLines(item.n) THEN lists
                    ELSE [lists EXCEPT ![op.target] = Add(@, item)]
    /\ op' = [op EXCEPT !.at = @ + 1]
    /\ UNCHANGED <<kind, added, calls>>

EndOfList ==
    /\ op # NoOp /\ op.at > Len(lists[op.source])
    /\ op' = NoOp
    /\ UNCHANGED <<kind, lists, added, calls>>

Next ==
    \/ \E k \in Lists, l \in Languages, n \in Amounts : AddOne(k, l, n)
    \/ \E k, s \in Lists : AddList(k, s) \/ NewCompact(k, s)
    \/ NextItem
    \/ EndOfList

Spec == Init /\ [][Next]_vars
----------------------------------------------------------------------------
\* Every variable has its type.
TypeOK ==
    /\ kind \in Kinds
    /\ lists \in [Lists -> Seq(Items)]
    /\ op \in Ops \cup {NoOp}
    /\ added \in [Lists -> [Languages -> [Fields -> Nat]]]
    /\ calls \in 0 .. MaxCalls

\* A list of Loc has one item for a language, whatever was added and in
\* whatever order: the sums the command line prints per language are rows.
OneEntry ==
    kind = "Loc" =>
      \A k \in Lists : \A i, h \in DOMAIN lists[k] :
        lists[k][i].language = lists[k][h].language => i = h

\* Between operations, what get_loc answers for a language is all that was
\* put into the list for it, through single counts, other lists and compact
\* forms; a language whose lines are all zero may be left out of a compact
\* form, with its files.
LocsComplete ==
    kind = "Loc" /\ op = NoOp =>
      \A k \in Lists, l \in Languages : Get(lists[k], l) = added[k][l]

\* The same of the lists of LocDelta: "Returns a LocDelta from a given
\* LocDeltaList and language" (loc.h:280), of a list that "Tracks changes
\* [...] for multiple languages" with one item "for a single language".
DeltasComplete ==
    kind = "LocDelta" /\ op = NoOp =>
      \A k \in Lists, l \in Languages : Get(lists[k], l) = added[k][l]

\* The sum of a number over the languages, of what was put into a list.
AddedTotal(k, f) ==
    LET ls == SetToSeq(Languages)
    IN  FoldLeft(LAMBDA sum, l : sum + added[k][l][f], 0, ls)

\* The sums over a whole list are those of everything put into it, for both
\* kinds: the items a list of LocDelta repeats are counted once each, and
\* a compact form loses no line.
TotalsConserved ==
    op = NoOp => \A k \in Lists :
      /\ \A f \in Fields : Total(lists[k], f) = AddedTotal(k, f)
      /\ kind = "LocDelta" =>
           NetTotal(lists[k]) = Net([f \in Changes |-> AddedTotal(k, f)])
=============================================================================
