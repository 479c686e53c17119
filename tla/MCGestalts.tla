------------------------------ MODULE MCGestalts ------------------------------
(***************************************************************************)
(* The engine with all of its definitions, on every list of up to MaxFiles *)
(* of the files below, those chosen for definitions that depend on others, *)
(* on shares of languages, on numbers of matches and on what is not found. *)
(***************************************************************************)
EXTENDS Gestalts, GestaltDefinitions, TLC

CONSTANT MaxFiles

Code(language, n, ids) ==
    [lines |-> (language :> n), hits |-> [id \in ids |-> 1]]

Kinds ==
 << Code("java", 3, {"ejb3+"}),
    Code("java", 1, {"ejb3.1", "ejb3+"}),
    Code("java", 1, {"jasper_reports_java", "openesb", "flash_import"}),
    Code("mxml", 2, {}),                    \* markup has no weight
    Code("autoconf", 0, {}),                \* no line of code at all
    Code("ruby", 6, {"rails"}),
    Code("javascript", 1, {"dojo"}),
    Code("assembler", 5, {"arm_neon", "nbtk"}),
    Code("cpp", 1, {"msdos", "win32_keywords"}),
    Code("php", 1, {"drupal_name", "asp_net"}),
    Code("xml", 4, {"wpf", "glassfish"}) >>

KindSet == {Kinds[i] : i \in DOMAIN Kinds}

\* The order of the files changes no sum: one order of each list.
Chosen(s) == [i \in DOMAIN s |-> Kinds[s[i]]]
SmallLists ==
    UNION { {Chosen(s) : s \in {t \in [1 .. n -> DOMAIN Kinds] :
                \A i, j \in 1 .. n : i < j => t[i] <= t[j]}} : n \in 0 .. MaxFiles }
Markup == {"mxml", "xml"}

\* What ejb3.0 denies is decided by these two, asked before it, unless someone
\* reorders Ejb: the hypothesis of the theorem SupportedIfOrdered.
Deciding == {i \in DOMAIN Definitions : Definitions[i].gestalt \in {"java", "ejb3.1"}}
ASSUME EjbIsOrdered == Ejb = <<Ejb31, EjbPlus, Ejb30>> <=> Ordered(Deciding)
=============================================================================
