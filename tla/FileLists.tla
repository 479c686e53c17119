------------------------------ MODULE FileLists ------------------------------
(***************************************************************************)
(* The list of files a command works on: the arguments of main             *)
(* (src/ohcount.c), and the walk of                                        *)
(* ohcount_sourcefile_list_add_directory (src/sourcefile.c) through the    *)
(* directories among them.                                                 *)
(*                                                                         *)
(* Other programs change the tree meanwhile: between readdir, lstat and    *)
(* opendir an entry may go, come, or become something else.  A path is the *)
(* sequence of the names on it.  readdir gives the entries in any order;   *)
(* one that came or went since opendir it may give or not.  "." and ".."   *)
(* are hidden directories and left out.                                    *)
(***************************************************************************)
EXTENDS Integers, Sequences, FiniteSets, SequencesExt

CONSTANTS
    Paths,      \* the paths of the tree
    Hidden,     \* those whose last name begins with a dot
    LinkTo,     \* where a link at a path leads
    Trees,      \* what there may be at each path at first
    ArgLists,   \* the paths on the command line
    Cwd,        \* the directory "."
    MaxChanges  \* bound on the changes other programs make

Kinds == {"none", "file", "dir", "link", "other"}

\* What is between two paths is one, and entries are in directories.
ASSUME FileListsAssumption ==
    /\ \A p \in Paths : p \in Seq(STRING) /\ p # <<>>
    /\ \A p, q \in Paths : IsStrictPrefix(p, q) =>
          /\ \A n \in Len(p) .. Len(q) : SubSeq(q, 1, n) \in Paths
          /\ \A t \in Trees : t[q] # "none" => t[p] = "dir"
    /\ Hidden \subseteq Paths /\ Cwd \in Paths
    /\ LinkTo \in [Paths -> Paths]
    /\ Trees \subseteq [Paths -> Kinds]
    /\ \A t \in Trees : t[Cwd] = "dir"
    /\ \A a \in ArgLists : a \in Seq(Paths)
    /\ MaxChanges \in Nat

VARIABLES
    tree,    \* what is at each path
    args, arg, \* the command line, and the argument main is at
    step,    \* what is called next
    entry,   \* the path it is called with
    frames,  \* the calls of add_directory under way, the innermost last
    list,    \* the files listed
    bad,     \* history: the arguments that were bad,
    unknown, \* the paths lstat failed for,
    stayed,  \* the paths nothing was changed at,
    wasFile, \* the paths that ever were a file, and
    changes  \* the changes so far

listVars == <<tree, args, arg, step, entry, frames, list, bad, unknown, stayed,
              wasFile, changes>>

Below(p) == {q \in Paths : IsStrictPrefix(p, q)}
Entries(dir) == {q \in Below(dir) : Front(q) = dir /\ tree[q] # "none"}

\* Links lead to what is no link.
Real(p) == IF tree[p] = "link" THEN LinkTo[p] ELSE p
IsDir(p) == tree[Real(p)] = "dir"

Top == frames[Len(frames)]
Linked == frames # <<>> /\ Top.linked

ListInit ==
    /\ tree \in Trees /\ args \in ArgLists
    /\ arg = 1
    /\ step = (IF args = <<>> THEN "opendir" ELSE "arg") /\ entry = Cwd
    /\ frames = <<>> /\ list = <<>> /\ bad = {} /\ unknown = {}
    /\ stayed = Paths /\ wasFile = {p \in Paths : tree[p] = "file"} /\ changes = 0

\* Another program removes, makes or replaces what is at a path.  While a
\* directory is read it is not replaced.
Change(p, kind) ==
    /\ changes < MaxChanges /\ kind # tree[p]
    /\ kind # "none" => /\ \A q \in Paths : p \in Below(q) /\ Front(p) = q =>
                               tree[q] = "dir"
                        /\ \A i \in DOMAIN frames : frames[i].dir # p
    /\ tree' = [q \in Paths |-> IF q = p THEN kind
                                ELSE IF q \in Below(p) THEN "none" ELSE tree[q]]
    /\ stayed' = stayed \ (Below(p) \cup {p})
    /\ wasFile' = IF kind = "file" THEN wasFile \cup {p} ELSE wasFile
    /\ changes' = changes + 1
    /\ UNCHANGED <<args, arg, step, entry, frames, list, bad, unknown>>

Goes(s) == step' = s /\ UNCHANGED <<tree, args, stayed, wasFile, changes>>

\* main: opendir(argv[i]) tells directories from files.
OpenArg ==
    /\ step = "arg" /\ arg <= Len(args)
    /\ entry' = args[arg]
    /\ Goes(IF IsDir(args[arg]) THEN "opendir" ELSE "fopen")
    /\ UNCHANGED <<arg, frames, list, bad, unknown>>

Listed(p) == [path |-> Real(p), linked |-> Linked \/ tree[p] = "link"]

\* fopen, which succeeds for whatever there is.
FopenArg ==
    /\ step = "fopen"
    /\ IF tree[Real(entry)] = "none"
       THEN bad' = bad \cup {arg} /\ UNCHANGED list
       ELSE list' = Append(list, Listed(entry)) /\ UNCHANGED bad
    /\ arg' = arg + 1
    /\ Goes("arg")
    /\ UNCHANGED <<entry, frames, unknown>>

\* A call of add_directory returns.
Returns(rest) ==
    /\ frames' = rest
    /\ arg' = IF rest = <<>> THEN arg + 1 ELSE arg
    /\ Goes(IF rest = <<>> THEN "arg" ELSE "readdir")
    /\ UNCHANGED <<entry, list, bad, unknown>>

\* add_directory opens a directory that was one a moment ago.
Opendir ==
    /\ step = "opendir" /\ IsDir(entry)
    /\ frames' = Append(frames, [dir |-> Real(entry), given |-> {},
                                 names |-> Entries(Real(entry)),
                                 linked |-> Linked \/ tree[entry] = "link"])
    /\ Goes("readdir")
    /\ UNCHANGED <<arg, entry, list, bad, unknown>>

\* OpendirFails, were the whole walk given up.
OpendirGivesUp == step = "opendir" /\ ~IsDir(entry) /\ Returns(<<>>)

OpendirFails == step = "opendir" /\ ~IsDir(entry) /\ Returns(frames)

Readdir ==
    /\ step = "readdir"
    /\ \E q \in (Top.names \cup Entries(Top.dir)) \ Top.given :
         /\ entry' = q
         /\ frames' = [frames EXCEPT ![Len(frames)].given = @ \cup {q}]
    /\ Goes("lstat")
    /\ UNCHANGED <<arg, list, bad, unknown>>

EndOfDirectory ==
    /\ step = "readdir" /\ Top.names \cap stayed \subseteq Top.given
    /\ Returns(Front(frames))

\* What stat would say: it follows links.
Stat(p) == IF tree[p] = "none" THEN Kinds \ {"none"} ELSE {tree[Real(p)]}
\* What st says after lstat: where lstat fails, st is not initialized.
Lstat(p) == IF tree[p] = "none" THEN Kinds \ {"none"} ELSE {tree[p]}

ListEntry ==
    /\ step = "lstat"
    /\ \E kind \in Lstat(entry) :
         /\ list' = IF kind = "file"
                    THEN Append(list, [path |-> entry, linked |-> Linked])
                    ELSE list
         /\ Goes(IF kind = "dir" /\ entry \notin Hidden
                 THEN "opendir" ELSE "readdir")
    /\ unknown' = IF tree[entry] = "none" THEN unknown \cup {entry} ELSE unknown
    /\ UNCHANGED <<arg, entry, frames, bad>>

EndOfArgs ==
    /\ step = "arg" /\ arg > Len(args)
    /\ Goes("listed")
    /\ UNCHANGED <<arg, entry, frames, list, bad, unknown>>

ListStep ==
    \/ OpenArg \/ FopenArg \/ Opendir \/ OpendirFails \/ Readdir
    \/ EndOfDirectory \/ ListEntry \/ EndOfArgs
ListNext == ListStep \/ \E p \in Paths, kind \in Kinds : Change(p, kind)

ListSpec == ListInit /\ [][ListNext]_listVars /\ WF_listVars(ListStep)
-----------------------------------------------------------------------------
FrameType ==
    [dir : Paths, given : SUBSET Paths, names : SUBSET Paths, linked : BOOLEAN]
ListedType == [path : Paths, linked : BOOLEAN]

\* The types of the variables.
ListTypeOK ==
    /\ tree \in [Paths -> Kinds] /\ args \in Seq(Paths) /\ arg \in Nat \ {0}
    /\ step \in {"arg", "fopen", "opendir", "readdir", "lstat", "listed"}
    /\ entry \in Paths
    /\ frames \in Seq(FrameType) /\ list \in Seq(ListedType)
    /\ bad \subseteq DOMAIN args /\ unknown \subseteq Paths
    /\ stayed \subseteq Paths /\ wasFile \subseteq Paths
    /\ changes \in 0 .. MaxChanges

\* The arguments whose walk comes to a path: nothing between them is hidden.
Roots == IF args = <<>> THEN <<Cwd>> ELSE args
Reaches(root, p) ==
    \/ p = root
    \/ /\ p \in Below(root)
       /\ \A q \in Below(root) : p \in Below(q) => q \notin Hidden

\* Whatever other programs do elsewhere, a file that they leave alone is listed
\* once for each argument that it is under: an entry that goes or is replaced
\* between readdir, lstat and opendir costs no other file its place.
StayedListedOnce ==
    step = "listed" =>
        \A p \in {q \in stayed : tree[q] = "file"} :
            Cardinality({i \in DOMAIN list : list[i].path = p /\ ~list[i].linked})
              = Cardinality({i \in DOMAIN Roots : Reaches(Roots[i], p)})

\* What is listed was a file at some time, is an argument or where an argument
\* leads, or is something lstat failed for.
ListedWereFiles ==
    \A i \in DOMAIN list :
        list[i].path \in wasFile \cup unknown \cup ToSet(args)
                        \cup {LinkTo[p] : p \in ToSet(args)}

\* Links are followed where they are arguments, and nowhere else unless one
\* takes a directory's place between lstat and opendir: the walk comes to no
\* file twice, and no link can make it endless.
NoLinkFollowed ==
    changes = 0 /\ (\A p \in ToSet(Roots) : tree[p] # "link")
        => \A i \in DOMAIN list : ~list[i].linked

\* The walk lists files only, and lists them under no other name than their own.
ListedRightly == ListedWereFiles /\ NoLinkFollowed
=============================================================================
