------------------------------ MODULE Licenses ------------------------------
(***************************************************************************)
(* Licence detection (src/licenses.c, ohcount_detect_license).             *)
(*                                                                         *)
(* For each language of the parsed file the detector runs every licence    *)
(* expression of license_map, in the table's order, over that language's   *)
(* comment text.  A match that lies inside another licence's match is      *)
(* dropped, then some licences override less specific ones, and what is    *)
(* left becomes the licence list.                                          *)
(*                                                                         *)
(* A licence is its index in license_map.  The regular expressions are     *)
(* data: what pcre2_match answers for licence l on the comments of         *)
(* language p is comments[p][l], any span of the text or no match, and     *)
(* whether exclude_re matches inside the span.                             *)
(***************************************************************************)
EXTENDS Integers, Sequences

CONSTANTS
    NLic,       \* license_map_length
    MaxLang,    \* bound on the languages of one file
    MaxPos,     \* bound on positions in a comment text
    Overrides   \* <<l, with>>: the pairs given to OVERRIDE_LICENSE

Lic == 1 .. NLic

ASSUME LicAssumption ==
    /\ NLic \in Nat /\ MaxLang \in Nat /\ MaxPos \in Nat
    /\ Overrides \subseteq Lic \X Lic

\* The OVERRIDE_LICENSE lines go round no circle: no licence is overridden,
\* through others, by itself.
ASSUME OverridesAssumption ==
    \E rank \in [Lic -> Lic] : \A o \in Overrides : rank[o[2]] < rank[o[1]]

VARIABLES
    comments,  \* what the expressions answer on each language's comments
    lang,      \* iter_language
    j,         \* the licence the inner loop is at
    potential, \* potential_licenses_s and potential_licenses_e, as spans
    i,         \* the licence the loop that builds the list is at
    list,      \* the LicenseList
    pc

vars == <<comments, lang, j, potential, i, list, pc>>

\* A span of the stripped comment text: a licence text is never empty.
Spans == {sp \in [s : 0 .. MaxPos, e : 0 .. MaxPos] : sp.s < sp.e}
NoSpan == [s |-> -1, e |-> -1]

\* The answer for one licence: where it matches, if it does, and whether
\* what it matched also matches exclude_re.
Answers == [span : Spans, excluded : BOOLEAN]
             \cup {[span |-> NoSpan, excluded |-> FALSE]}

\* Inside, were equal matches to count as contained in each other.
InsideOrEqual(in, out) == out.s <= in.s /\ out.e >= in.e

\* The two conditions under which one match counts as lying inside another.
Inside(in, out) ==
    \/ out.s < in.s /\ out.e >= in.e
    \/ out.s <= in.s /\ out.e > in.e

\* Sift, were a match compared only with the longer ones before it.
SiftKeepsEarlier(pot, l, ans) ==
    [pot EXCEPT ![l] =
        IF \/ ans.span = NoSpan \/ ans.excluded
           \/ \E h \in 1 .. l - 1 : Inside(ans.span, pot[h])
        THEN NoSpan ELSE ans.span]

\* One iteration of the loop over license_map: potential after licence l.
Sift(pot, l, ans) ==
    IF ans.span = NoSpan \/ ans.excluded
    THEN [pot EXCEPT ![l] = NoSpan]
    ELSE [k \in Lic |->
            IF k = l
            THEN IF \E h \in 1 .. l - 1 : Inside(ans.span, pot[h])
                 THEN NoSpan ELSE ans.span
            ELSE IF k < l /\ Inside(pot[k], ans.span)
                 THEN NoSpan ELSE pot[k]]

\* Overridden, were only the rest of the table searched for the overrider.
OverriddenByLater(l, pot) ==
    \E w \in l + 1 .. NLic : <<l, w>> \in Overrides /\ pot[w].s > -1

\* Some OVERRIDE_LICENSE line names l and a licence that is still potential.
Overridden(l, pot) == \E w \in Lic : <<l, w>> \in Overrides /\ pot[w].s > -1

Init ==
    /\ comments \in UNION {[1 .. n -> [Lic -> Answers]] : n \in 0 .. MaxLang}
    /\ lang = 1
    /\ j = 1
    /\ potential = [l \in Lic |-> NoSpan]
    /\ i = 1
    /\ list = <<>>
    \* With no parsed language the arrays are never read.
    /\ pc = IF comments = <<>> THEN "done" ELSE "match"

MatchLicense ==
    /\ pc = "match" /\ j <= NLic
    /\ potential' = Sift(potential, j, comments[lang][j])
    /\ j' = j + 1
    /\ UNCHANGED <<comments, lang, i, list, pc>>

\* iter_language = iter_language->next
NextLanguage ==
    /\ pc = "match" /\ j > NLic
    /\ IF lang < Len(comments)
       THEN lang' = lang + 1 /\ j' = 1 /\ pc' = pc
       ELSE pc' = "list" /\ UNCHANGED <<lang, j>>
    /\ UNCHANGED <<comments, potential, i, list>>

AddLicense ==
    /\ pc = "list" /\ i <= NLic
    /\ list' = IF potential[i].s > -1 /\ ~Overridden(i, potential)
               THEN Append(list, i) ELSE list
    /\ i' = i + 1
    /\ UNCHANGED <<comments, lang, j, potential, pc>>

Return ==
    /\ pc = "list" /\ i > NLic
    /\ pc' = "done"
    /\ UNCHANGED <<comments, lang, j, potential, i, list>>

Next == MatchLicense \/ NextLanguage \/ AddLicense \/ Return

Spec == Init /\ [][Next]_vars

-----------------------------------------------------------------------------
TypeOK ==
    /\ comments \in Seq([Lic -> Answers])
    /\ lang \in Nat \ {0}
    /\ IF comments = <<>> THEN pc = "done" ELSE lang <= Len(comments)
    /\ j \in 1 .. NLic + 1
    /\ potential \in [Lic -> Spans \cup {NoSpan}]
    /\ i \in 1 .. NLic + 1
    /\ list \in Seq(Lic)
    /\ pc \in {"match", "list", "done"}

\* Licence l really is in the comments of the language being searched.
Accepted(l) ==
    /\ comments[lang][l].span # NoSpan
    /\ ~comments[lang][l].excluded
Found(l) == comments[lang][l].span

\* The licences of the current language handled so far.
Tried == IF pc = "match" THEN 1 .. j - 1 ELSE Lic

\* The order of license_map does not matter to which matches survive: of the
\* licences tried, exactly those whose match lies inside no other match are
\* still potential, although each one was compared only with what had
\* survived when its turn came.
MaximalSurvive ==
    comments # <<>> =>
      \A l \in Tried :
        potential[l] = IF /\ Accepted(l)
                          /\ \A h \in Tried :
                               Accepted(h) => ~Inside(Found(l), Found(h))
                       THEN Found(l) ELSE NoSpan

\* A finished list never names a licence beside the more specific one that
\* overrides it, and names each licence once, in the order of license_map.
ListIsSpecific ==
    /\ \A a, b \in 1 .. Len(list) : <<list[a], list[b]>> \notin Overrides
    /\ \A a, b \in 1 .. Len(list) : a < b => list[a] < list[b]

\* Containment and overriding together never lose everything: when the
\* language searched last mentions a licence, some licence is reported.
SomethingReported ==
    (pc = "done" /\ comments # <<>> /\ \E l \in Lic : Accepted(l))
        => list # <<>>

\* licenses.h: the detector "searches comment text in source files for any
\* mention of known licenses", of a given file, so a licence that is mentioned
\* in the comments of any of its languages leads to some licence in the list.
AnyLanguageReported ==
    (pc = "done"
       /\ \E p \in DOMAIN comments, l \in Lic :
            comments[p][l].span # NoSpan /\ ~comments[p][l].excluded)
        => list # <<>>
=============================================================================
