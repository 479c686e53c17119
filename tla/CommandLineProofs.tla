-------------------------- MODULE CommandLineProofs --------------------------
(***************************************************************************)
(* Proofs about FileLists and CommandLine.  First the walk alone: whatever *)
(* the tree, the arguments and the other programs, it lists files only,    *)
(* follows no link on its own and forgets nothing.  Then the whole         *)
(* program: it lists files as FileLists says and handles its lists of Loc  *)
(* as Loc lets its clients; individual prints for each file, sorted, what  *)
(* the file said, and summary the sums of what the files said.             *)
(***************************************************************************)
EXTENDS CommandLine, TLAPS, SequenceTheorems, FiniteSetTheorems, NaturalsInduction, WellFoundedInduction

-----------------------------------------------------------------------------
(* The walk.                                                               *)

\* Types, and what the steps take for granted: a directory is read only while
\* one is open, and an argument is opened only while there is one.
WalkInv ==
    /\ ListTypeOK
    /\ step \in {"readdir", "lstat"} => frames # <<>>
    /\ step \in {"arg", "fopen"} => frames = <<>>
    /\ step = "fopen" => arg \in DOMAIN args /\ entry = args[arg]

LEMMA RealPath ==
  ASSUME ListTypeOK, NEW p \in Paths
  PROVE  Real(p) \in Paths
  BY FileListsAssumption DEF Real

LEMMA EntriesPaths == \A dir : Entries(dir) \subseteq Paths
  BY DEF Entries, Below

LEMMA TopFrame ==
  ASSUME ListTypeOK
  PROVE  /\ frames # <<>> => Top \in FrameType /\ Len(frames) \in DOMAIN frames
         /\ Linked \in BOOLEAN
<1>1. CASE frames # <<>>
  <2>1. Len(frames) \in 1 .. Len(frames) /\ DOMAIN frames = 1 .. Len(frames)
    BY <1>1 DEF ListTypeOK
  <2>2. Top \in FrameType
    BY <2>1 DEF ListTypeOK, Top
  <2>. QED
    BY <1>1, <2>1, <2>2 DEF Linked, FrameType
<1>. QED
  BY <1>1 DEF Linked

LEMMA ReturnsWalk ==
  ASSUME WalkInv, NEW rest \in Seq(FrameType), Returns(rest)
  PROVE  WalkInv'
  BY DEF WalkInv, ListTypeOK, Returns, Goes

LEMMA WalkInit == ListInit => WalkInv
<1>. SUFFICES ASSUME ListInit PROVE WalkInv
  OBVIOUS
<1>1. args \in Seq(Paths) /\ tree \in [Paths -> Kinds] /\ Cwd \in Paths
  BY FileListsAssumption DEF ListInit
<1>. QED
  BY <1>1, FileListsAssumption DEF ListInit, WalkInv, ListTypeOK

LEMMA FrontFrames ==
  ASSUME ListTypeOK, frames # <<>>
  PROVE  Front(frames) \in Seq(FrameType)
  BY DEF ListTypeOK, Front

LEMMA WalkStep == WalkInv /\ [ListNext]_listVars => WalkInv'
<1>. SUFFICES ASSUME WalkInv, [ListNext]_listVars PROVE WalkInv'
  OBVIOUS
<1>. USE DEF Goes
<1>1. CASE OpenArg
  <2>1. arg \in DOMAIN args /\ args[arg] \in Paths
    BY <1>1 DEF OpenArg, WalkInv, ListTypeOK
  <2>. QED
    BY <1>1, <2>1 DEF OpenArg, WalkInv, ListTypeOK
<1>2. CASE FopenArg
  <2>1. Listed(entry) \in ListedType
    BY RealPath, TopFrame DEF Listed, ListedType, WalkInv, ListTypeOK
  <2>2. arg \in DOMAIN args
    BY <1>2 DEF FopenArg, WalkInv
  <2>3. bad' \subseteq DOMAIN args
    BY <1>2, <2>2 DEF FopenArg, WalkInv, ListTypeOK
  <2>4. list' = list \/ list' = Append(list, Listed(entry))
    BY <1>2 DEF FopenArg
  <2>5. list' \in Seq(ListedType)
    <3>1. list \in Seq(ListedType)
      BY DEF WalkInv, ListTypeOK
    <3>. QED
      BY <2>1, <2>4, <3>1, AppendProperties
  <2>. QED
    BY <1>2, <2>3, <2>5 DEF FopenArg, WalkInv, ListTypeOK
<1>3. CASE Opendir
  <2>. DEFINE f == [dir |-> Real(entry), given |-> {},
                    names |-> Entries(Real(entry)),
                    linked |-> Linked \/ tree[entry] = "link"]
  <2>1. f \in FrameType
    BY RealPath, TopFrame, EntriesPaths DEF FrameType, WalkInv, ListTypeOK
  <2>2. frames' = Append(frames, f)
    BY <1>3 DEF Opendir
  <2>3. frames' \in Seq(FrameType) /\ frames' # <<>>
    BY <2>1, <2>2 DEF WalkInv, ListTypeOK
  <2>. QED
    BY <1>3, <2>3 DEF Opendir, WalkInv, ListTypeOK
<1>4. CASE OpendirFails
  BY <1>4, ReturnsWalk DEF OpendirFails, WalkInv, ListTypeOK
<1>5. CASE Readdir
  <2>1. frames # <<>> /\ Top \in FrameType /\ Len(frames) \in DOMAIN frames
    BY <1>5, TopFrame DEF Readdir, WalkInv
  <2>2. PICK q \in (Top.names \cup Entries(Top.dir)) \ Top.given :
          /\ entry' = q
          /\ frames' = [frames EXCEPT ![Len(frames)].given = @ \cup {q}]
    BY <1>5 DEF Readdir
  <2>3. q \in Paths
    BY <2>1, EntriesPaths DEF FrameType
  <2>4. frames' = [frames EXCEPT ![Len(frames)] = [Top EXCEPT !.given = @ \cup {q}]]
    BY <2>1, <2>2 DEF Top
  <2>5. [Top EXCEPT !.given = @ \cup {q}] \in FrameType
    BY <2>1, <2>3 DEF FrameType
  <2>6. frames' \in Seq(FrameType) /\ Len(frames') = Len(frames)
    <3>1. frames \in Seq(FrameType)
      BY DEF WalkInv, ListTypeOK
    <3>2. Len(frames) \in 1 .. Len(frames)
      BY <2>1, <3>1
    <3>. QED
      BY <2>4, <2>5, <3>1, <3>2, ExceptSeq
  <2>. QED
    BY <1>5, <2>2, <2>3, <2>6 DEF Readdir, WalkInv, ListTypeOK
<1>6. CASE EndOfDirectory
  BY <1>6, ReturnsWalk, FrontFrames DEF EndOfDirectory, WalkInv
<1>7. CASE ListEntry
  <2>1. [path |-> entry, linked |-> Linked] \in ListedType
    BY TopFrame DEF ListedType, WalkInv, ListTypeOK
  <2>. QED
    BY <1>7, <2>1 DEF ListEntry, WalkInv, ListTypeOK
<1>8. CASE EndOfArgs
  BY <1>8 DEF EndOfArgs, WalkInv, ListTypeOK
<1>9. ASSUME NEW p \in Paths, NEW kind \in Kinds, Change(p, kind) PROVE WalkInv'
  BY <1>9, FileListsAssumption DEF Change, WalkInv, ListTypeOK, Kinds, Below
<1>10. CASE UNCHANGED listVars
  BY <1>10 DEF listVars, WalkInv, ListTypeOK
<1>. QED
  BY <1>1, <1>2, <1>3, <1>4, <1>5, <1>6, <1>7, <1>8, <1>9, <1>10 DEF ListNext, ListStep
LEMMA WalkAlways == ListSpec => []WalkInv
  BY WalkInit, WalkStep, PTL DEF ListSpec

\* Every reachable state of the walk is well typed.
THEOREM ListTypeCorrect == ListSpec => []ListTypeOK
<1>1. WalkInv => ListTypeOK
  BY DEF WalkInv
<1>. QED
  BY <1>1, WalkAlways, PTL

-----------------------------------------------------------------------------
\* What may be listed, as of now: it only grows.
Rightful == wasFile \cup unknown \cup ToSet(args) \cup {LinkTo[p] : p \in ToSet(args)}

\* As long as no other program changed anything and no root is a link, the walk
\* is in no directory that a link led to, and about to enter none.
Unlinked ==
    changes = 0 /\ (\A p \in ToSet(Roots) : tree[p] # "link") =>
        /\ \A i \in DOMAIN list : ~list[i].linked
        /\ \A i \in DOMAIN frames : ~frames[i].linked
        /\ step = "opendir" => tree[entry] # "link"

RightInv ==
    /\ \A p \in Paths : tree[p] = "file" => p \in wasFile
    /\ \A i \in DOMAIN list : list[i].path \in Rightful
    /\ Unlinked

LEMMA RightInit == ListInit => RightInv
<1>. SUFFICES ASSUME ListInit PROVE RightInv
  OBVIOUS
<1>1. list = <<>> /\ frames = <<>> /\ DOMAIN list = {} /\ DOMAIN frames = {}
  BY DEF ListInit
<1>2. step = "opendir" => entry \in ToSet(Roots)
  BY DEF ListInit, Roots, ToSet
<1>. QED
  BY <1>1, <1>2 DEF ListInit, RightInv, Unlinked

\* An argument that is opened is one of the roots.
LEMMA ArgIsRoot ==
  ASSUME args # <<>>, NEW i \in DOMAIN args
  PROVE  args[i] \in ToSet(args) /\ args[i] \in ToSet(Roots)
  BY DEF ToSet, Roots

LEMMA AppendedListed ==
  ASSUME NEW s \in Seq(ListedType), NEW x \in ListedType,
         NEW t, t = Append(s, x)
  PROVE  \A i \in DOMAIN t : t[i] = x \/ (i \in DOMAIN s /\ t[i] = s[i])
  OBVIOUS

LEMMA AppendedFrame ==
  ASSUME NEW s \in Seq(FrameType), NEW x \in FrameType,
         NEW t, t = Append(s, x)
  PROVE  \A i \in DOMAIN t : t[i] = x \/ (i \in DOMAIN s /\ t[i] = s[i])
  OBVIOUS

LEMMA RightGrows ==
  ASSUME ListTypeOK, UNCHANGED args, wasFile \subseteq wasFile', unknown \subseteq unknown'
  PROVE  Rightful \subseteq Rightful'
  BY DEF Rightful

\* A return leaves what was listed, and frames that were there before.
LEMMA ReturnsRight ==
  ASSUME WalkInv, RightInv, NEW rest, Returns(rest),
         \A i \in DOMAIN rest : i \in DOMAIN frames /\ rest[i] = frames[i]
  PROVE  RightInv'
<1>1. UNCHANGED <<tree, args, wasFile, unknown, list, changes>>
  BY DEF Returns, Goes
<1>2. Rightful' = Rightful /\ Roots' = Roots
  BY <1>1 DEF Rightful, Roots
<1>3. step' # "opendir" /\ frames' = rest
  BY DEF Returns, Goes
<1>4. Unlinked'
  BY <1>1, <1>2, <1>3 DEF RightInv, Unlinked
<1>. QED
  BY <1>1, <1>2, <1>4 DEF RightInv
LEMMA RightStep == WalkInv /\ RightInv /\ [ListNext]_listVars => RightInv'
<1>. SUFFICES ASSUME WalkInv, RightInv, [ListNext]_listVars PROVE RightInv'
  OBVIOUS
<1>. USE DEF Goes
<1>0. list \in Seq(ListedType) /\ frames \in Seq(FrameType) /\ entry \in Paths
      /\ tree \in [Paths -> Kinds] /\ changes \in Nat
  BY FileListsAssumption DEF WalkInv, ListTypeOK
<1>1. CASE OpenArg
  <2>1. UNCHANGED <<tree, args, wasFile, unknown, list, frames, changes>>
    BY <1>1 DEF OpenArg
  <2>2. Rightful' = Rightful /\ Roots' = Roots
    BY <2>1 DEF Rightful, Roots
  <2>3. entry' \in ToSet(Roots)
    <3>1. arg \in DOMAIN args /\ args # <<>> /\ entry' = args[arg]
      BY <1>1 DEF OpenArg, WalkInv, ListTypeOK
    <3>. QED
      BY <3>1, ArgIsRoot
  <2>4. Unlinked'
    BY <2>1, <2>2, <2>3 DEF RightInv, Unlinked
  <2>. QED
    BY <2>1, <2>2, <2>4 DEF RightInv
<1>2. CASE FopenArg
  <2>1. UNCHANGED <<tree, args, wasFile, unknown, frames, changes>> /\ step' = "arg"
    BY <1>2 DEF FopenArg
  <2>2. Rightful' = Rightful /\ Roots' = Roots
    BY <2>1 DEF Rightful, Roots
  <2>3. entry \in ToSet(args) /\ entry \in ToSet(Roots)
    <3>1. arg \in DOMAIN args /\ args # <<>> /\ entry = args[arg]
      BY <1>2 DEF FopenArg, WalkInv, ListTypeOK
    <3>. QED
      BY <3>1, ArgIsRoot
  <2>4. Listed(entry).path \in Rightful
    BY <2>3 DEF Listed, Real, Rightful
  <2>5. frames = <<>>
    BY <1>2 DEF FopenArg, WalkInv
  <2>6. tree[entry] # "link" => ~Listed(entry).linked
    BY <2>5 DEF Listed, Linked
  <2>7. Listed(entry) \in ListedType
    BY <1>0, <2>5, RealPath DEF Listed, Linked, ListedType, WalkInv
  <2>8. list' = list \/ list' = Append(list, Listed(entry))
    BY <1>2 DEF FopenArg
  <2>9. \A i \in DOMAIN list' :
          list'[i] = Listed(entry) \/ (i \in DOMAIN list /\ list'[i] = list[i])
    BY <1>0, <2>7, <2>8, AppendedListed
  <2>10. Unlinked'
    BY <2>1, <2>2, <2>3, <2>6, <2>9 DEF RightInv, Unlinked
  <2>. QED
    BY <2>1, <2>2, <2>4, <2>9, <2>10 DEF RightInv
<1>3. CASE Opendir
  <2>. DEFINE f == [dir |-> Real(entry), given |-> {},
                    names |-> Entries(Real(entry)),
                    linked |-> Linked \/ tree[entry] = "link"]
  <2>1. UNCHANGED <<tree, args, wasFile, unknown, list, changes>>
    BY <1>3 DEF Opendir
  <2>2. Rightful' = Rightful /\ Roots' = Roots
    BY <2>1 DEF Rightful, Roots
  <2>3. f \in FrameType
    BY <1>0, RealPath, TopFrame, EntriesPaths DEF FrameType, WalkInv
  <2>4. frames' = Append(frames, f) /\ step = "opendir" /\ step' = "readdir"
    BY <1>3 DEF Opendir
  <2>5. \A i \in DOMAIN frames' :
          frames'[i] = f \/ (i \in DOMAIN frames /\ frames'[i] = frames[i])
    BY <1>0, <2>3, <2>4, AppendedFrame
  <2>6. (\A i \in DOMAIN frames : ~frames[i].linked) => ~Linked
    BY TopFrame DEF Linked, Top, WalkInv
  <2>7. f.linked = (Linked \/ tree[entry] = "link")
    OBVIOUS
  <2>. HIDE DEF f
  <2>8. Unlinked'
    BY <2>1, <2>2, <2>4, <2>5, <2>6, <2>7 DEF RightInv, Unlinked
  <2>. QED
    BY <2>1, <2>2, <2>8 DEF RightInv
<1>4. CASE OpendirFails
  BY <1>4, ReturnsRight DEF OpendirFails
<1>5. CASE Readdir
  <2>1. UNCHANGED <<tree, args, wasFile, unknown, list, changes>> /\ step' = "lstat"
    BY <1>5 DEF Readdir
  <2>2. Rightful' = Rightful /\ Roots' = Roots
    BY <2>1 DEF Rightful, Roots
  <2>3. PICK q : frames' = [frames EXCEPT ![Len(frames)].given = @ \cup {q}]
    BY <1>5 DEF Readdir
  <2>4. \A i \in DOMAIN frames' : i \in DOMAIN frames /\ frames'[i].linked = frames[i].linked
    <3>1. \A i \in DOMAIN frames : frames[i] \in FrameType
      BY <1>0
    <3>. QED
      BY <2>3, <3>1 DEF FrameType
  <2>5. Unlinked'
    BY <2>1, <2>2, <2>4 DEF RightInv, Unlinked
  <2>. QED
    BY <2>1, <2>2, <2>5 DEF RightInv
<1>6. CASE EndOfDirectory
  <2>1. \A i \in DOMAIN Front(frames) : i \in DOMAIN frames /\ Front(frames)[i] = frames[i]
    BY <1>0, <1>6 DEF Front, EndOfDirectory, WalkInv
  <2>. QED
    BY <1>6, <2>1, ReturnsRight DEF EndOfDirectory
<1>7. CASE ListEntry
  <2>1. UNCHANGED <<tree, args, wasFile, frames, entry, changes>>
    BY <1>7 DEF ListEntry
  <2>2. Roots' = Roots /\ Rightful \subseteq Rightful'
    BY <1>7, <2>1 DEF ListEntry, Rightful, Roots
  <2>. DEFINE x == [path |-> entry, linked |-> Linked]
  <2>3. PICK kind \in Lstat(entry) :
          /\ list' = IF kind = "file" THEN Append(list, x) ELSE list
          /\ step' = IF kind = "dir" /\ entry \notin Hidden THEN "opendir" ELSE "readdir"
    BY <1>7 DEF ListEntry
  <2>4. tree[entry] # "none" => kind = tree[entry]
    BY DEF Lstat
  <2>5. x \in ListedType
    BY <1>0, TopFrame DEF ListedType, WalkInv
  <2>6. \A i \in DOMAIN list' :
          (kind = "file" /\ list'[i] = x) \/ (i \in DOMAIN list /\ list'[i] = list[i])
    BY <1>0, <2>3, <2>5, AppendedListed
  <2>7. kind = "file" => entry \in Rightful'
    BY <1>0, <1>7, <2>4 DEF ListEntry, RightInv, Rightful
  <2>8. (\A i \in DOMAIN frames : ~frames[i].linked) => ~Linked
    BY TopFrame DEF Linked, Top, WalkInv
  <2>9. step' = "opendir" => tree[entry] # "link"
    BY <2>3, <2>4
  <2>10. Unlinked'
    BY <2>1, <2>2, <2>6, <2>8, <2>9 DEF RightInv, Unlinked
  <2>11. \A i \in DOMAIN list' : list'[i].path \in Rightful'
    BY <2>2, <2>6, <2>7 DEF RightInv
  <2>. QED
    BY <2>1, <2>10, <2>11 DEF RightInv
<1>8. CASE EndOfArgs \/ UNCHANGED listVars
  <2>1. UNCHANGED <<tree, args, wasFile, unknown, list, frames, entry, changes>>
        /\ (step' = "opendir" => step = "opendir")
    BY <1>8 DEF EndOfArgs, listVars
  <2>2. Rightful' = Rightful /\ Roots' = Roots
    BY <2>1 DEF Rightful, Roots
  <2>. QED
    BY <2>1, <2>2 DEF RightInv, Unlinked
<1>9. ASSUME NEW p \in Paths, NEW kind \in Kinds, Change(p, kind) PROVE RightInv'
  <2>1. UNCHANGED <<args, unknown, list>> /\ changes' = changes + 1
    BY <1>9 DEF Change
  <2>2. Rightful \subseteq Rightful'
    BY <1>9, <2>1 DEF Change, Rightful
  <2>3. \A q \in Paths : tree'[q] = "file" => q \in wasFile'
    BY <1>9 DEF Change, RightInv
  <2>4. changes' # 0
    BY <1>0, <2>1
  <2>. QED
    BY <2>1, <2>2, <2>3, <2>4 DEF RightInv, Unlinked
<1>. QED
  BY <1>1, <1>2, <1>3, <1>4, <1>5, <1>6, <1>7, <1>8, <1>9 DEF ListNext, ListStep

\* Whatever is put in a directory's place or taken away while it is walked,
\* nothing but files is listed, and nothing under the name of a link in between.
THEOREM ListedRightlyAlways == ListSpec => []ListedRightly
<1>1. RightInv => ListedRightly
  BY DEF RightInv, Unlinked, Rightful, ListedRightly, ListedWereFiles, NoLinkFollowed
<1>. QED
  BY <1>1, WalkAlways, RightInit, RightStep, PTL DEF ListSpec

-----------------------------------------------------------------------------
(* A file left alone is listed once for each argument it is under.         *)

Steady(p) == p \in stayed /\ tree[p] = "file"

\* The entry of dir, a directory above p, that is p or above it.
Toward(dir, p) == SubSeq(p, 1, Len(dir) + 1)

\* A directory under way still has to come to p.
DueIn(f, p) ==
    /\ ~f.linked /\ p # f.dir /\ Reaches(f.dir, p)
    /\ Toward(f.dir, p) \notin f.given

\* What is looked at now is p, or leads to it.
DueHere(p) ==
    /\ step \in {"fopen", "opendir", "lstat"} /\ ~Linked
    /\ Reaches(entry, p)
    /\ step = "lstat" => entry = p \/ entry \notin Hidden

Due(p) == (\E i \in DOMAIN frames : DueIn(frames[i], p)) \/ DueHere(p)

\* The arguments main has begun with.
Begun == IF step \in {"arg", "listed"} THEN arg - 1 ELSE arg
ListedAs(p) == {i \in DOMAIN list : list[i].path = p /\ ~list[i].linked}
BegunAbove(p) == {i \in DOMAIN Roots : i <= Begun /\ Reaches(Roots[i], p)}

OnceInv ==
    \A p \in Paths : Steady(p) =>
        Cardinality(ListedAs(p)) + (IF Due(p) THEN 1 ELSE 0)
            = Cardinality(BegunAbove(p))

\* Entries are in directories; what was changed anywhere above a path was at it.
TreeInv ==
    \A p \in Paths : \A q \in Below(p) :
        /\ tree[q] # "none" => tree[p] = "dir"
        /\ q \in stayed => p \in stayed

\* readdir will give the entries that stay; the directories under way that no
\* link led to are each below the ones before, and have been given by them.
FramesInv ==
    \A i \in DOMAIN frames :
        /\ \A q \in frames[i].names : q \in Below(frames[i].dir) /\ Front(q) = frames[i].dir
        /\ Entries(frames[i].dir) \cap stayed \subseteq frames[i].names
        /\ \A k \in DOMAIN frames : k < i /\ ~frames[i].linked =>
              /\ frames[i].dir \in Below(frames[k].dir)
              /\ Toward(frames[k].dir, frames[i].dir) \in frames[k].given

\* The entry looked at was given by the innermost directory; one that is to be
\* opened as a directory, or as a file, is not otherwise while it stays.
EntryInv ==
    /\ step \in {"lstat", "opendir"} /\ frames # <<>> =>
          entry \in Below(Top.dir) /\ Front(entry) = Top.dir /\ entry \in Top.given
    /\ step = "opendir" => ~Steady(entry)
    /\ step = "fopen" => \A p \in Below(entry) : ~Steady(p)

\* No argument is left out, and no walk of one is given up.
ArgsInv ==
    /\ args = <<>> /\ step \in {"arg", "listed"} => arg > 1
    /\ step = "listed" => arg > Len(args) /\ frames = <<>>

StayInv == TreeInv /\ FramesInv /\ EntryInv /\ ArgsInv /\ OnceInv

-----------------------------------------------------------------------------
(* Paths.                                                                  *)

LEMMA BelowFacts ==
  ASSUME NEW dir \in Paths, NEW p \in Below(dir)
  PROVE  /\ p \in Paths /\ dir \in Seq(STRING) /\ p \in Seq(STRING)
         /\ Len(dir) \in Nat /\ Len(p) \in Nat /\ 0 < Len(dir) /\ Len(dir) < Len(p)
         /\ \A i \in 1 .. Len(dir) : p[i] = dir[i]
         /\ p # dir
<1>1. /\ p \in Paths /\ dir \in Seq(STRING) /\ p \in Seq(STRING) /\ dir # <<>> /\ p # dir
  BY FileListsAssumption DEF Below, IsStrictPrefix
<1>2. Len(dir) <= Len(p) /\ SubSeq(dir, 1, Len(dir)) = SubSeq(p, 1, Len(dir))
  BY DEF Below, IsStrictPrefix, IsPrefix
<1>3. \A i \in 1 .. Len(dir) : p[i] = dir[i]
  <2>. SUFFICES ASSUME NEW i \in 1 .. Len(dir) PROVE p[i] = dir[i]
    OBVIOUS
  <2>1. SubSeq(dir, 1, Len(dir))[i] = dir[i] /\ SubSeq(p, 1, Len(dir))[i] = p[i]
    BY <1>1, <1>2
  <2>2. QED
    BY <1>2, <2>1
<1>4. Len(dir) # Len(p)
  BY <1>1, <1>3
<1>5. QED
  BY <1>1, <1>2, <1>3, <1>4

LEMMA BelowIntro ==
  ASSUME NEW dir \in Paths, NEW p \in Paths, Len(dir) < Len(p),
         \A i \in 1 .. Len(dir) : p[i] = dir[i]
  PROVE  p \in Below(dir)
<1>1. dir \in Seq(STRING) /\ p \in Seq(STRING)
  BY FileListsAssumption
<1>2. SubSeq(dir, 1, Len(dir)) = SubSeq(p, 1, Len(dir))
  BY <1>1
<1>3. QED
  BY <1>1, <1>2 DEF Below, IsStrictPrefix, IsPrefix

LEMMA BelowBelow ==
  ASSUME NEW dir \in Paths, NEW q \in Below(dir), NEW p \in Below(q)
  PROVE  p \in Below(dir)
<1>1. q \in Paths /\ p \in Paths /\ Len(dir) < Len(p) /\ \A i \in 1 .. Len(dir) : p[i] = dir[i]
  BY BelowFacts
<1>2. QED
  BY <1>1, BelowIntro

\* The entry of a directory that a path is at or below.
LEMMA TowardEntry ==
  ASSUME NEW dir \in Paths, NEW p \in Below(dir)
  PROVE  /\ Toward(dir, p) \in Below(dir) /\ Front(Toward(dir, p)) = dir
         /\ Toward(dir, p) = p \/ p \in Below(Toward(dir, p))
<1>. DEFINE n == Len(dir) + 1
            c == SubSeq(p, 1, n)
<1>1. /\ p \in Paths /\ dir \in Seq(STRING) /\ p \in Seq(STRING) /\ n \in Len(dir) .. Len(p)
      /\ n \in Nat /\ 1 <= n /\ n <= Len(p) /\ Len(dir) \in Nat /\ Len(p) \in Nat
      /\ \A i \in 1 .. Len(dir) : p[i] = dir[i]
  BY BelowFacts
<1>2. IsStrictPrefix(dir, p)
  BY DEF Below
<1>3. c \in Paths
  BY <1>1, <1>2, FileListsAssumption
<1>4. c \in Seq(STRING) /\ Len(c) = n /\ \A i \in 1 .. n : c[i] = p[i]
  BY <1>1
<1>. HIDE DEF c
<1>5. c \in Below(dir)
  BY <1>1, <1>3, <1>4, BelowIntro
<1>6. SubSeq(c, 1, Len(c) - 1) = dir
  BY <1>1, <1>4
<1>7. c = p \/ p \in Below(c)
  <2>1. CASE n = Len(p)
    BY <1>1, <1>4, <2>1
  <2>2. CASE n < Len(p)
    BY <1>1, <1>3, <1>4, <2>2, BelowIntro
  <2>3. QED
    BY <1>1, <2>1, <2>2
<1>8. QED
  BY <1>5, <1>6, <1>7 DEF Toward, Front, c

\* Only one entry of a directory is a path, or above it.
LEMMA OnlyToward ==
  ASSUME NEW dir \in Paths, NEW q \in Below(dir), Front(q) = dir,
         NEW p \in Paths, p = q \/ p \in Below(q)
  PROVE  p \in Below(dir) /\ Toward(dir, p) = q
<1>1. /\ q \in Seq(STRING) /\ Len(q) \in Nat /\ Len(dir) \in Nat /\ Len(dir) < Len(q)
      /\ dir \in Seq(STRING) /\ p \in Seq(STRING) /\ q \in Paths
  BY BelowFacts, FileListsAssumption
<1>2. Len(q) = Len(dir) + 1
  <2>1. Len(SubSeq(q, 1, Len(q) - 1)) = Len(q) - 1
    BY <1>1, BelowFacts
  <2>2. SubSeq(q, 1, Len(q) - 1) = dir
    BY DEF Front
  <2>3. Len(dir) = Len(q) - 1
    BY <2>1, <2>2, Zenon
  <2>4. QED
    BY <1>1, <2>3
<1>3. p \in Below(dir)
  BY BelowBelow
<1>4. Len(q) <= Len(p) /\ \A i \in 1 .. Len(q) : p[i] = q[i]
  BY <1>1, BelowFacts
<1>5. SubSeq(p, 1, Len(q)) = q
  BY <1>1, <1>4
<1>6. QED
  BY <1>2, <1>3, <1>5 DEF Toward

LEMMA TowardDeeper ==
  ASSUME NEW dir \in Paths, NEW q \in Below(dir), NEW p \in Paths, p = q \/ p \in Below(q)
  PROVE  Toward(dir, p) = Toward(dir, q)
<1>1. /\ q \in Seq(STRING) /\ Len(q) \in Nat /\ Len(dir) \in Nat /\ Len(dir) + 1 <= Len(q)
      /\ p \in Seq(STRING) /\ q \in Paths
  BY BelowFacts, FileListsAssumption
<1>2. Len(q) <= Len(p) /\ Len(p) \in Nat /\ \A i \in 1 .. Len(q) : p[i] = q[i]
  BY <1>1, BelowFacts
<1>3. SubSeq(p, 1, Len(dir) + 1) = SubSeq(q, 1, Len(dir) + 1)
  BY <1>1, <1>2
<1>4. QED
  BY <1>3 DEF Toward

\* Two paths above a third: one of them is above the other.
LEMMA AboveOrdered ==
  ASSUME NEW q \in Paths, NEW r \in Paths, NEW p \in Below(r), p = q \/ p \in Below(q),
         Len(q) <= Len(r)
  PROVE  r = q \/ r \in Below(q)
<1>1. /\ q \in Seq(STRING) /\ r \in Seq(STRING) /\ p \in Seq(STRING) /\ p \in Paths
      /\ Len(q) \in Nat /\ Len(r) \in Nat /\ Len(p) \in Nat
      /\ \A i \in 1 .. Len(r) : p[i] = r[i]
  BY BelowFacts, FileListsAssumption
<1>2. \A i \in 1 .. Len(q) : p[i] = q[i]
  BY <1>1, BelowFacts
<1>3. \A i \in 1 .. Len(q) : r[i] = q[i]
  BY <1>1, <1>2
<1>4. CASE Len(q) = Len(r)
  BY <1>1, <1>3, <1>4
<1>5. CASE Len(q) < Len(r)
  BY <1>3, <1>5, BelowIntro
<1>6. QED
  BY <1>1, <1>4, <1>5

\* A walk of a directory comes to its entries, and behind those that are not
\* hidden to what a walk of them comes to.
LEMMA ReachesEntry ==
  ASSUME NEW dir \in Paths, NEW q \in Below(dir), Front(q) = dir
  PROVE  /\ Reaches(dir, q)
         /\ \A p \in Below(q) : Reaches(dir, p) <=> q \notin Hidden /\ Reaches(q, p)
<1>1. q \in Paths /\ Len(q) \in Nat /\ Len(dir) \in Nat /\ q \in Seq(STRING)
  BY BelowFacts
<1>2. Len(q) = Len(dir) + 1
  <2>1. Len(SubSeq(q, 1, Len(q) - 1)) = Len(q) - 1
    BY <1>1, BelowFacts
  <2>2. SubSeq(q, 1, Len(q) - 1) = dir
    BY DEF Front
  <2>3. Len(dir) = Len(q) - 1
    BY <2>1, <2>2, Zenon
  <2>4. QED
    BY <1>1, <2>3
<1>3. \A r \in Below(dir) : q \notin Below(r)
  <2>. SUFFICES ASSUME NEW r \in Below(dir), q \in Below(r) PROVE FALSE
    OBVIOUS
  <2>1. r \in Paths /\ Len(dir) < Len(r) /\ Len(r) \in Nat
    BY BelowFacts
  <2>2. Len(r) < Len(q)
    BY <2>1, BelowFacts
  <2>3. QED
    BY <1>1, <1>2, <2>1, <2>2
<1>4. ASSUME NEW p \in Below(q)
      PROVE  Reaches(dir, p) <=> q \notin Hidden /\ Reaches(q, p)
  <2>1. p \in Below(dir) /\ p # q /\ p # dir /\ p \in Paths
    <3>1. p \in Below(dir)
      BY BelowBelow
    <3>2. QED
      BY <1>1, <3>1, BelowFacts
  <2>2. \A r \in Below(dir) : p \in Below(r) => r = q \/ r \in Below(q)
    <3>. SUFFICES ASSUME NEW r \in Below(dir), p \in Below(r) PROVE r = q \/ r \in Below(q)
      OBVIOUS
    <3>1. r \in Paths /\ Len(dir) < Len(r) /\ Len(r) \in Nat
      BY BelowFacts
    <3>2. Len(q) <= Len(r)
      BY <1>1, <1>2, <3>1
    <3>3. QED
      BY <1>1, <3>1, <3>2, AboveOrdered
  <2>3. \A r \in Below(q) : r \in Below(dir)
    BY BelowBelow
  <2>4. QED
    BY <2>1, <2>2, <2>3 DEF Reaches
<1>5. QED
  BY <1>3, <1>4 DEF Reaches

-----------------------------------------------------------------------------
(* Each action keeps what is due.                                          *)

LEMMA FrameTyped ==
  ASSUME ListTypeOK
  PROVE  /\ DOMAIN frames = 1 .. Len(frames) /\ Len(frames) \in Nat
         /\ \A i \in DOMAIN frames : frames[i] \in FrameType /\ frames[i].dir \in Paths
         /\ \A i \in DOMAIN frames : frames[i] = Top \/ i < Len(frames)
         /\ frames # <<>> => Len(frames) \in DOMAIN frames
<1>1. frames \in Seq(FrameType) /\ DOMAIN frames = 1 .. Len(frames) /\ Len(frames) \in Nat
  BY DEF ListTypeOK
<1>2. \A i \in DOMAIN frames : frames[i] \in FrameType
  BY <1>1
<1>3. \A i \in DOMAIN frames : i = Len(frames) \/ i < Len(frames)
  BY <1>1
<1>4. frames # <<>> => Len(frames) \in DOMAIN frames
  BY <1>1
<1>5. QED
  BY <1>1, <1>2, <1>3, <1>4 DEF FrameType, Top

LEMMA SameTree ==
  ASSUME TreeInv, UNCHANGED <<tree, stayed>>
  PROVE  TreeInv' /\ \A p : Steady(p)' <=> Steady(p)
  BY DEF TreeInv, Steady

LEMMA BegunFinite ==
  ASSUME ListTypeOK, NEW p
  PROVE  IsFiniteSet(BegunAbove(p)) /\ IsFiniteSet(ListedAs(p))
<1>1. Roots \in Seq(Paths) /\ list \in Seq(ListedType)
  BY FileListsAssumption DEF ListTypeOK, Roots
<1>2. DOMAIN Roots = 1 .. Len(Roots) /\ DOMAIN list = 1 .. Len(list)
      /\ Len(Roots) \in Nat /\ Len(list) \in Nat
  BY <1>1
<1>3. IsFiniteSet(1 .. Len(Roots)) /\ IsFiniteSet(1 .. Len(list))
  BY <1>2, FS_Interval
<1>4. BegunAbove(p) \subseteq 1 .. Len(Roots) /\ ListedAs(p) \subseteq 1 .. Len(list)
  BY <1>2 DEF BegunAbove, ListedAs
<1>5. QED
  BY <1>3, <1>4, FS_Subset

\* A step that leaves of each file that stays what is due.
LEMMA OnceKept ==
  ASSUME OnceInv, TreeInv, UNCHANGED <<tree, stayed>>,
         \A p \in Paths : Steady(p) =>
           /\ Due(p)' <=> Due(p)
           /\ ListedAs(p)' = ListedAs(p)
           /\ BegunAbove(p)' = BegunAbove(p)
  PROVE  OnceInv'
<1>. SUFFICES ASSUME NEW p \in Paths, Steady(p)'
              PROVE  Cardinality(ListedAs(p)') + (IF Due(p)' THEN 1 ELSE 0)
                        = Cardinality(BegunAbove(p)')
  BY DEF OnceInv
<1>1. Steady(p)
  BY SameTree
<1>2. (Due(p)' <=> Due(p)) /\ ListedAs(p)' = ListedAs(p) /\ BegunAbove(p)' = BegunAbove(p)
  BY <1>1
<1>3. QED
  BY <1>1, <1>2 DEF OnceInv

\* A step that lists a file that stays, which was due.
LEMMA OnceListed ==
  ASSUME ListTypeOK, OnceInv, NEW p \in Paths, Steady(p), Due(p), NEW x,
         x.path = p, ~x.linked, list' = Append(list, x),
         BegunAbove(p)' = BegunAbove(p)
  PROVE  Cardinality(ListedAs(p)') = Cardinality(BegunAbove(p)')
<1>1. list \in Seq(ListedType) /\ Len(list) \in Nat /\ DOMAIN list = 1 .. Len(list)
  BY DEF ListTypeOK
<1>2. /\ DOMAIN list' = 1 .. Len(list) + 1 /\ list'[Len(list) + 1] = x
      /\ \A i \in 1 .. Len(list) : list'[i] = list[i]
  BY <1>1
<1>3. ListedAs(p)' = ListedAs(p) \cup {Len(list) + 1} /\ Len(list) + 1 \notin ListedAs(p)
  <2>1. \A i \in 1 .. Len(list) + 1 : i \in 1 .. Len(list) \/ i = Len(list) + 1
    BY <1>1
  <2>2. Len(list) + 1 \notin 1 .. Len(list) /\ Len(list) + 1 \in 1 .. Len(list) + 1
        /\ 1 .. Len(list) \subseteq 1 .. Len(list) + 1
    BY <1>1
  <2>3. ListedAs(p)' = {i \in 1 .. Len(list) + 1 : list'[i].path = p /\ ~list'[i].linked}
    BY <1>2 DEF ListedAs
  <2>4. ListedAs(p) = {i \in 1 .. Len(list) : list[i].path = p /\ ~list[i].linked}
    BY <1>1 DEF ListedAs
  <2>5. QED
    BY <1>2, <2>1, <2>2, <2>3, <2>4
<1>4. Cardinality(ListedAs(p)') = Cardinality(ListedAs(p)) + 1
  BY <1>3, BegunFinite, FS_AddElement
<1>5. QED
  BY <1>4 DEF OnceInv

\* What is listed under another name, or behind a link, is not p.
LEMMA OtherListed ==
  ASSUME ListTypeOK, NEW p, NEW x, x.path = p => x.linked,
         list' = list \/ list' = Append(list, x)
  PROVE  ListedAs(p)' = ListedAs(p)
<1>1. list \in Seq(ListedType) /\ Len(list) \in Nat /\ DOMAIN list = 1 .. Len(list)
  BY DEF ListTypeOK
<1>2. CASE list' = list
  BY <1>2 DEF ListedAs
<1>3. CASE list' = Append(list, x)
  <2>1. /\ DOMAIN list' = 1 .. Len(list) + 1 /\ list'[Len(list) + 1] = x
        /\ \A i \in 1 .. Len(list) : list'[i] = list[i]
    BY <1>1, <1>3
  <2>2. \A i \in 1 .. Len(list) + 1 : i \in 1 .. Len(list) \/ i = Len(list) + 1
    BY <1>1
  <2>3. 1 .. Len(list) \subseteq 1 .. Len(list) + 1
    BY <1>1
  <2>4. ListedAs(p)' = {i \in 1 .. Len(list) + 1 : list'[i].path = p /\ ~list'[i].linked}
    BY <2>1 DEF ListedAs
  <2>5. ListedAs(p) = {i \in 1 .. Len(list) : list[i].path = p /\ ~list[i].linked}
    BY <1>1 DEF ListedAs
  <2>6. QED
    BY <2>1, <2>2, <2>3, <2>4, <2>5
<1>4. QED
  BY <1>2, <1>3

LEMMA StayInit == ListInit => StayInv
<1>. SUFFICES ASSUME ListInit PROVE StayInv
  OBVIOUS
<1>1. /\ tree \in Trees /\ args \in Seq(Paths) /\ arg = 1 /\ entry = Cwd /\ frames = <<>>
      /\ step = (IF args = <<>> THEN "opendir" ELSE "arg") /\ list = <<>> /\ stayed = Paths
      /\ tree[Cwd] = "dir" /\ Cwd \in Paths
  BY FileListsAssumption DEF ListInit
<1>2. TreeInv
  <2>. SUFFICES ASSUME NEW p \in Paths, NEW q \in Below(p)
                PROVE  (tree[q] # "none" => tree[p] = "dir") /\ p \in stayed
    BY DEF TreeInv
  <2>1. q \in Paths /\ IsStrictPrefix(p, q)
    BY DEF Below
  <2>2. QED
    BY <1>1, <2>1, FileListsAssumption
<1>3. FramesInv /\ EntryInv /\ ArgsInv
  BY <1>1 DEF FramesInv, EntryInv, ArgsInv, Steady
<1>4. ASSUME NEW p \in Paths
      PROVE  Cardinality(ListedAs(p)) + (IF Due(p) THEN 1 ELSE 0) = Cardinality(BegunAbove(p))
  <2>1. ListedAs(p) = {} /\ Cardinality(ListedAs(p)) = 0
    BY <1>1, FS_EmptySet DEF ListedAs
  <2>2. CASE args = <<>>
    <3>1. Due(p) <=> Reaches(Cwd, p)
      BY <1>1, <2>2 DEF Due, DueHere, Linked
    <3>2. Roots = <<Cwd>> /\ DOMAIN Roots = {1} /\ Roots[1] = Cwd /\ Begun = 1
      BY <1>1, <2>2 DEF Roots, Begun
    <3>3. BegunAbove(p) = IF Reaches(Cwd, p) THEN {1} ELSE {}
      BY <3>2 DEF BegunAbove
    <3>4. Cardinality({1}) = 1 /\ Cardinality({}) = 0
      BY FS_EmptySet, FS_Singleton
    <3>5. CASE Reaches(Cwd, p)
      BY <2>1, <3>1, <3>3, <3>4, <3>5
    <3>6. CASE ~Reaches(Cwd, p)
      BY <2>1, <3>1, <3>3, <3>4, <3>6
    <3>7. QED
      BY <3>5, <3>6
  <2>3. CASE args # <<>>
    <3>1. ~Due(p)
      BY <1>1, <2>3 DEF Due, DueHere
    <3>2. Roots = args /\ Begun = 0
      BY <1>1, <2>3 DEF Roots, Begun
    <3>3. \A i \in DOMAIN Roots : ~(i <= Begun)
      BY <1>1, <3>2
    <3>4. BegunAbove(p) = {}
      BY <3>3 DEF BegunAbove
    <3>5. QED
      BY <2>1, <3>1, <3>4
  <2>4. QED
    BY <2>2, <2>3
<1>5. QED
  BY <1>2, <1>3, <1>4 DEF StayInv, OnceInv


LEMMA OpenArgStays == ASSUME WalkInv, StayInv, OpenArg PROVE StayInv'
<1>1. /\ step = "arg" /\ arg \in DOMAIN args /\ arg \in Nat /\ args[arg] \in Paths /\ args # <<>>
      /\ frames = <<>> /\ UNCHANGED <<tree, args, stayed, arg, frames, list>>
      /\ entry' = args[arg]
      /\ step' = IF IsDir(args[arg]) THEN "opendir" ELSE "fopen"
  BY DEF OpenArg, Goes, WalkInv, ListTypeOK
<1>2. TreeInv' /\ \A p : Steady(p)' <=> Steady(p)
  BY <1>1, SameTree DEF StayInv
<1>3. FramesInv' /\ ArgsInv'
  BY <1>1 DEF FramesInv, ArgsInv
<1>4. EntryInv'
  <2>1. step' = "opendir" => ~Steady(entry')
    BY <1>1 DEF IsDir, Real, Steady
  <2>2. step' = "fopen" => \A p \in Below(entry') : ~Steady(p)
    BY <1>1 DEF IsDir, Real, Steady, StayInv, TreeInv
  <2>3. QED
    BY <1>1, <1>2, <2>1, <2>2 DEF EntryInv, Steady
<1>5. ASSUME NEW p \in Paths, Steady(p)
      PROVE  Cardinality(ListedAs(p)') + (IF Due(p)' THEN 1 ELSE 0) = Cardinality(BegunAbove(p)')
  <2>1. ListedAs(p)' = ListedAs(p)
    BY <1>1 DEF ListedAs
  <2>2. ~Due(p) /\ (Due(p)' <=> Reaches(args[arg], p))
    BY <1>1 DEF Due, DueHere, Linked, Reaches
  <2>3. Roots = args /\ Roots' = args /\ Begun = arg - 1 /\ Begun' = arg
    BY <1>1 DEF Roots, Begun
  <2>4. \A i \in DOMAIN args : i <= arg <=> i <= arg - 1 \/ i = arg
    BY <1>1 DEF WalkInv, ListTypeOK
  <2>5. BegunAbove(p)' = {i \in DOMAIN args : i <= arg /\ Reaches(args[i], p)}
    BY <2>3 DEF BegunAbove, Reaches
  <2>6. BegunAbove(p) = {i \in DOMAIN args : i <= arg - 1 /\ Reaches(args[i], p)}
    BY <2>3 DEF BegunAbove
  <2>7. arg \notin BegunAbove(p)
    BY <1>1, <2>6
  <2>8. CASE Reaches(args[arg], p)
    <3>1. BegunAbove(p)' = BegunAbove(p) \cup {arg}
      BY <1>1, <2>4, <2>5, <2>6, <2>8
    <3>2. Cardinality(BegunAbove(p)') = Cardinality(BegunAbove(p)) + 1
      BY <2>7, <3>1, BegunFinite, FS_AddElement DEF WalkInv
    <3>3. Cardinality(ListedAs(p)) + 0 = Cardinality(BegunAbove(p))
      BY <1>5, <2>2 DEF StayInv, OnceInv
    <3>4. Cardinality(ListedAs(p)) \in Nat
      BY BegunFinite, FS_CardinalityType DEF WalkInv
    <3>5. QED
      BY <2>1, <2>2, <2>8, <3>2, <3>3, <3>4
  <2>9. CASE ~Reaches(args[arg], p)
    <3>1. BegunAbove(p)' = BegunAbove(p)
      BY <1>1, <2>4, <2>5, <2>6, <2>9
    <3>2. QED
      BY <1>5, <2>1, <2>2, <2>9, <3>1 DEF StayInv, OnceInv
  <2>10. QED
    BY <2>8, <2>9
<1>6. OnceInv'
  BY <1>1, <1>2, <1>5 DEF OnceInv
<1>7. QED
  BY <1>2, <1>3, <1>4, <1>6 DEF StayInv

LEMMA FopenArgStays == ASSUME WalkInv, StayInv, FopenArg PROVE StayInv'
<1>. DEFINE x == Listed(entry)
<1>1. /\ step = "fopen" /\ arg \in Nat /\ arg > 0 /\ arg \in DOMAIN args /\ entry \in Paths
      /\ frames = <<>> /\ UNCHANGED <<tree, args, stayed, frames>>
      /\ arg' = arg + 1 /\ step' = "arg"
      /\ list' = IF tree[Real(entry)] = "none" THEN list ELSE Append(list, x)
  BY DEF FopenArg, Goes, WalkInv, ListTypeOK
<1>2. TreeInv' /\ \A p : Steady(p)' <=> Steady(p)
  BY <1>1, SameTree DEF StayInv
<1>3. FramesInv' /\ ArgsInv' /\ EntryInv'
  BY <1>1 DEF FramesInv, ArgsInv, EntryInv
<1>4. x.path = Real(entry) /\ (x.linked <=> tree[entry] = "link")
  BY <1>1 DEF Listed, Linked
<1>. HIDE DEF x
<1>5. Roots' = Roots /\ Begun' = Begun
  BY <1>1 DEF Roots, Begun
<1>6. ASSUME NEW p \in Paths, Steady(p)
      PROVE  Cardinality(ListedAs(p)') + (IF Due(p)' THEN 1 ELSE 0) = Cardinality(BegunAbove(p)')
  <2>1. BegunAbove(p)' = BegunAbove(p) /\ ~Due(p)'
    BY <1>1, <1>5 DEF BegunAbove, Reaches, Due, DueHere
  <2>2. Due(p) <=> p = entry
    <3>1. p \notin Below(entry)
      BY <1>1, <1>6 DEF StayInv, EntryInv
    <3>2. QED
      BY <1>1, <3>1 DEF Due, DueHere, Linked, Reaches
  <2>3. Cardinality(ListedAs(p)') \in Nat
    <3>1. ListTypeOK'
      BY WalkStep DEF WalkInv, ListNext, ListStep
    <3>2. IsFiniteSet(ListedAs(p)')
      <4>1. list' \in Seq(ListedType)
        BY <3>1 DEF ListTypeOK
      <4>2. DOMAIN list' = 1 .. Len(list') /\ Len(list') \in Nat
        BY <4>1
      <4>3. IsFiniteSet(1 .. Len(list')) /\ ListedAs(p)' \subseteq 1 .. Len(list')
        BY <4>2, FS_Interval DEF ListedAs
      <4>4. QED
        BY <4>3, FS_Subset
    <3>3. QED
      BY <3>2, FS_CardinalityType
  <2>4. CASE p = entry
    <3>1. Real(entry) = p /\ tree[p] = "file" /\ ~x.linked /\ x.path = p
      BY <1>4, <1>6, <2>4 DEF Real, Steady
    <3>2. list' = Append(list, x)
      BY <1>1, <3>1
    <3>3. Cardinality(ListedAs(p)') = Cardinality(BegunAbove(p)')
      BY <1>6, <2>1, <2>2, <2>4, <3>1, <3>2, OnceListed DEF StayInv, WalkInv
    <3>4. QED
      BY <2>1, <2>3, <3>3
  <2>5. CASE p # entry
    <3>1. x.path = p => x.linked
      BY <1>4, <2>5 DEF Real
    <3>2. ListedAs(p)' = ListedAs(p)
      BY <1>1, <3>1, OtherListed DEF WalkInv
    <3>3. QED
      BY <1>6, <2>1, <2>2, <2>5, <3>2 DEF StayInv, OnceInv
  <2>6. QED
    BY <2>4, <2>5
<1>7. OnceInv'
  BY <1>1, <1>2, <1>6 DEF OnceInv
<1>8. QED
  BY <1>2, <1>3, <1>7 DEF StayInv


\* A file that stays, below something: that is a directory, and stays one.
LEMMA AboveSteady ==
  ASSUME StayInv, NEW dir \in Paths, NEW p \in Below(dir), Steady(p)
  PROVE  tree[dir] = "dir" /\ dir \in stayed /\ IsDir(dir)
  BY DEF StayInv, TreeInv, Steady, IsDir, Real

LEMMA ReachesBelow ==
  ASSUME NEW dir, NEW p, Reaches(dir, p), p # dir
  PROVE  p \in Below(dir)
  BY DEF Reaches

\* The directories above the one that is read have been left for it.
LEMMA GivenAbove ==
  ASSUME WalkInv, FramesInv, EntryInv, frames # <<>>, ~Linked,
         step \in {"lstat", "opendir"}, NEW i \in DOMAIN frames
  PROVE  entry \in Below(frames[i].dir) /\ Toward(frames[i].dir, entry) \in frames[i].given
<1>1. /\ Len(frames) \in DOMAIN frames /\ Top = frames[Len(frames)] /\ ~Top.linked
      /\ Top.dir \in Paths /\ frames[i].dir \in Paths
      /\ i = Len(frames) \/ i < Len(frames)
  <2>1. i = Len(frames) \/ i < Len(frames)
    BY DEF WalkInv, ListTypeOK
  <2>2. QED
    BY <2>1, FrameTyped DEF WalkInv, Linked, Top
<1>2. entry \in Below(Top.dir) /\ Front(entry) = Top.dir /\ entry \in Top.given /\ entry \in Paths
  BY DEF EntryInv, Below
<1>3. CASE i = Len(frames)
  <2>1. Toward(Top.dir, entry) = entry
    BY <1>1, <1>2, OnlyToward
  <2>2. QED
    BY <1>1, <1>2, <1>3, <2>1
<1>4. CASE i < Len(frames)
  <2>1. /\ Top.dir \in Below(frames[i].dir)
        /\ Toward(frames[i].dir, Top.dir) \in frames[i].given
    BY <1>1, <1>4 DEF FramesInv
  <2>2. QED
    BY <1>1, <1>2, <2>1, TowardDeeper, BelowBelow
<1>5. QED
  BY <1>1, <1>3, <1>4

\* A path that is looked at, or led to, is due nowhere else.
LEMMA NotDueAbove ==
  ASSUME WalkInv, FramesInv, EntryInv, frames # <<>>, ~Linked,
         step \in {"lstat", "opendir"}, NEW p \in Paths, p = entry \/ p \in Below(entry)
  PROVE  \A i \in DOMAIN frames : ~DueIn(frames[i], p)
<1>. SUFFICES ASSUME NEW i \in DOMAIN frames PROVE ~DueIn(frames[i], p)
  OBVIOUS
<1>1. entry \in Below(frames[i].dir) /\ Toward(frames[i].dir, entry) \in frames[i].given
  BY GivenAbove
<1>2. frames[i].dir \in Paths
  BY FrameTyped DEF WalkInv
<1>3. Toward(frames[i].dir, p) = Toward(frames[i].dir, entry)
  BY <1>1, <1>2, TowardDeeper
<1>4. QED
  BY <1>1, <1>3 DEF DueIn

LEMMA OpendirStays == ASSUME WalkInv, StayInv, Opendir PROVE StayInv'
<1>. DEFINE f == [dir |-> Real(entry), given |-> {},
                  names |-> Entries(Real(entry)),
                  linked |-> Linked \/ tree[entry] = "link"]
            n == Len(frames)
<1>1. /\ step = "opendir" /\ step' = "readdir" /\ IsDir(entry) /\ entry \in Paths
      /\ UNCHANGED <<tree, args, stayed, arg, entry, list>>
      /\ frames' = Append(frames, f)
  BY DEF Opendir, Goes, WalkInv, ListTypeOK
<1>2. /\ f.dir = Real(entry) /\ f.given = {} /\ f.names = Entries(f.dir)
      /\ (f.linked <=> Linked \/ tree[entry] = "link")
  OBVIOUS
<1>. HIDE DEF f
<1>3. TreeInv' /\ \A p : Steady(p)' <=> Steady(p)
  BY <1>1, SameTree DEF StayInv
<1>4. /\ DOMAIN frames = 1 .. n /\ n \in Nat /\ frames \in Seq(FrameType)
      /\ DOMAIN frames' = 1 .. n + 1 /\ frames'[n + 1] = f
      /\ \A i \in 1 .. n : frames'[i] = frames[i]
  <2>1. frames \in Seq(FrameType)
    BY DEF WalkInv, ListTypeOK
  <2>2. QED
    BY <1>1, <2>1
<1>5. \A i \in 1 .. n + 1 : i \in 1 .. n \/ i = n + 1
  BY <1>4
<1>6. ~f.linked => /\ f.dir = entry
                   /\ \A k \in 1 .. n : /\ f.dir \in Below(frames[k].dir)
                                        /\ Toward(frames[k].dir, f.dir) \in frames[k].given
  <2>. SUFFICES ASSUME ~f.linked
                PROVE  /\ f.dir = entry
                       /\ \A k \in 1 .. n : /\ entry \in Below(frames[k].dir)
                                            /\ Toward(frames[k].dir, entry) \in frames[k].given
    OBVIOUS
  <2>1. ~Linked /\ f.dir = entry
    BY <1>2 DEF Real
  <2>2. \A k \in 1 .. n : frames # <<>>
    BY <1>4
  <2>3. QED
    BY <1>1, <1>4, <2>1, <2>2, GivenAbove DEF StayInv
<1>7. FramesInv'
  <2>. SUFFICES ASSUME NEW i \in 1 .. n + 1
                PROVE  /\ \A q \in frames'[i].names :
                             q \in Below(frames'[i].dir) /\ Front(q) = frames'[i].dir
                       /\ Entries(frames'[i].dir) \cap stayed \subseteq frames'[i].names
                       /\ \A k \in 1 .. n + 1 : k < i /\ ~frames'[i].linked =>
                             /\ frames'[i].dir \in Below(frames'[k].dir)
                             /\ Toward(frames'[k].dir, frames'[i].dir) \in frames'[k].given
    BY <1>1, <1>4 DEF FramesInv, Entries, Below, Toward
  <2>1. \A k \in 1 .. n + 1 : k < i => k \in 1 .. n
    BY <1>4
  <2>2. CASE i \in 1 .. n
    BY <1>4, <2>1, <2>2 DEF StayInv, FramesInv
  <2>3. CASE i = n + 1
    BY <1>2, <1>4, <1>6, <2>1, <2>3 DEF Entries
  <2>4. QED
    BY <1>5, <2>2, <2>3
<1>8. EntryInv' /\ ArgsInv'
  BY <1>1 DEF EntryInv, ArgsInv
<1>9. Begun' = Begun /\ Roots' = Roots
  BY <1>1 DEF Begun, Roots
<1>10. ASSUME NEW p \in Paths, Steady(p)
       PROVE  (Due(p)' <=> Due(p)) /\ ListedAs(p)' = ListedAs(p) /\ BegunAbove(p)' = BegunAbove(p)
  <2>1. ListedAs(p)' = ListedAs(p) /\ BegunAbove(p)' = BegunAbove(p)
    BY <1>1, <1>9 DEF ListedAs, BegunAbove, Reaches
  <2>2. p # entry
    BY <1>1, <1>10 DEF StayInv, EntryInv
  <2>3. Reaches(entry, p) => tree[entry] # "link" /\ Real(entry) = entry
    BY <1>1, <1>10, <2>2, ReachesBelow, AboveSteady DEF Real
  <2>4. DueHere(p) <=> DueIn(f, p)
    BY <1>1, <1>2, <1>6, <2>2, <2>3 DEF DueHere, DueIn
  <2>5. ~DueHere(p)'
    BY <1>1 DEF DueHere
  <2>6. (\E i \in DOMAIN frames' : DueIn(frames'[i], p))
          <=> (\E i \in DOMAIN frames : DueIn(frames[i], p)) \/ DueIn(f, p)
    <3>1. n + 1 \in 1 .. n + 1 /\ 1 .. n \subseteq 1 .. n + 1
      BY <1>4
    <3>2. QED
      BY <1>4, <1>5, <3>1
  <2>7. Due(p)' <=> \E i \in DOMAIN frames' : DueIn(frames'[i], p)
    BY <2>5 DEF Due, DueIn, Reaches, Toward
  <2>8. QED
    BY <2>1, <2>4, <2>6, <2>7 DEF Due
<1>11. OnceInv'
  BY <1>1, <1>10, OnceKept DEF StayInv
<1>12. QED
  BY <1>3, <1>7, <1>8, <1>11 DEF StayInv

\* A call returns that no file that stays was due in.
LEMMA ReturnsStays ==
  ASSUME WalkInv, StayInv, NEW rest \in Seq(FrameType), Returns(rest),
         step \in {"opendir", "readdir"},
         DOMAIN rest \subseteq DOMAIN frames, \A i \in DOMAIN rest : rest[i] = frames[i],
         \A p \in Paths : Steady(p) =>
             /\ ~DueHere(p)
             /\ \A i \in DOMAIN frames \ DOMAIN rest : ~DueIn(frames[i], p)
  PROVE  StayInv'
<1>1. /\ UNCHANGED <<tree, args, stayed, entry, list>> /\ frames' = rest
      /\ arg' = IF rest = <<>> THEN arg + 1 ELSE arg
      /\ step' = IF rest = <<>> THEN "arg" ELSE "readdir"
      /\ arg \in Nat \ {0}
  BY DEF Returns, Goes, WalkInv, ListTypeOK
<1>2. TreeInv' /\ \A p : Steady(p)' <=> Steady(p)
  BY <1>1, SameTree DEF StayInv
<1>3. FramesInv'
  <2>1. FramesInv
    BY DEF StayInv
  <2>2. QED
    BY <1>1, <2>1 DEF FramesInv, Entries, Below, Toward
<1>4. EntryInv' /\ ArgsInv'
  BY <1>1 DEF EntryInv, ArgsInv
<1>5. Begun' = Begun /\ Roots' = Roots
  BY <1>1 DEF Begun, Roots
<1>6. ASSUME NEW p \in Paths, Steady(p)
      PROVE  (Due(p)' <=> Due(p)) /\ ListedAs(p)' = ListedAs(p) /\ BegunAbove(p)' = BegunAbove(p)
  <2>1. ListedAs(p)' = ListedAs(p) /\ BegunAbove(p)' = BegunAbove(p)
    BY <1>1, <1>5 DEF ListedAs, BegunAbove, Reaches
  <2>2. ~DueHere(p) /\ ~DueHere(p)'
    BY <1>1, <1>6 DEF DueHere
  <2>3. (\E i \in DOMAIN rest : DueIn(rest[i], p)) <=> (\E i \in DOMAIN frames : DueIn(frames[i], p))
    BY <1>6
  <2>4. Due(p)' <=> \E i \in DOMAIN rest : DueIn(rest[i], p)
    BY <1>1, <2>2 DEF Due, DueIn, Reaches, Toward
  <2>5. QED
    BY <2>1, <2>2, <2>3, <2>4 DEF Due
<1>7. OnceInv'
  BY <1>1, <1>6, OnceKept DEF StayInv
<1>8. QED
  BY <1>2, <1>3, <1>4, <1>7 DEF StayInv

LEMMA OpendirFailsStays == ASSUME WalkInv, StayInv, OpendirFails PROVE StayInv'
<1>1. step = "opendir" /\ ~IsDir(entry) /\ Returns(frames) /\ frames \in Seq(FrameType)
      /\ entry \in Paths
  BY DEF OpendirFails, WalkInv, ListTypeOK
<1>2. ASSUME NEW p \in Paths, Steady(p) PROVE ~DueHere(p)
  <2>1. p # entry
    BY <1>1, <1>2 DEF StayInv, EntryInv
  <2>2. p \notin Below(entry)
    BY <1>1, <1>2, AboveSteady
  <2>3. QED
    BY <2>1, <2>2, ReachesBelow DEF DueHere
<1>3. QED
  BY <1>1, <1>2, ReturnsStays

LEMMA EndOfDirectoryStays == ASSUME WalkInv, StayInv, EndOfDirectory PROVE StayInv'
<1>1. /\ step = "readdir" /\ frames # <<>> /\ Returns(Front(frames))
      /\ Top.names \cap stayed \subseteq Top.given
  BY DEF EndOfDirectory, WalkInv
<1>. DEFINE n == Len(frames)
<1>2. /\ n \in DOMAIN frames /\ Top = frames[n] /\ DOMAIN frames = 1 .. n /\ n \in Nat
      /\ Top.dir \in Paths /\ Front(frames) \in Seq(FrameType)
  BY <1>1, FrameTyped, FrontFrames DEF WalkInv, Top
<1>3. /\ DOMAIN Front(frames) = 1 .. n - 1
      /\ \A i \in 1 .. n - 1 : Front(frames)[i] = frames[i]
  BY <1>1, <1>2 DEF Front, WalkInv, ListTypeOK
<1>4. 1 .. n - 1 \subseteq 1 .. n /\ (1 .. n) \ (1 .. n - 1) = {n}
  BY <1>1, <1>2
<1>5. ASSUME NEW p \in Paths, Steady(p) PROVE ~DueIn(Top, p)
  <2>. SUFFICES ASSUME Reaches(Top.dir, p), p # Top.dir
                PROVE  Toward(Top.dir, p) \in Top.given
    BY DEF DueIn
  <2>1. p \in Below(Top.dir)
    BY ReachesBelow
  <2>. DEFINE q == Toward(Top.dir, p)
  <2>2. q \in Below(Top.dir) /\ Front(q) = Top.dir /\ (q = p \/ p \in Below(q)) /\ q \in Paths
    BY <1>2, <2>1, TowardEntry DEF Below
  <2>. HIDE DEF q
  <2>3. tree[q] # "none" /\ q \in stayed
    BY <1>5, <2>2, AboveSteady DEF Steady
  <2>4. q \in Entries(Top.dir)
    BY <2>2, <2>3 DEF Entries
  <2>5. q \in Top.given
    BY <1>1, <1>2, <2>3, <2>4 DEF StayInv, FramesInv
  <2>6. QED
    BY <2>5 DEF q
<1>6. \A p : ~DueHere(p)
  BY <1>1 DEF DueHere
<1>7. QED
  BY <1>1, <1>2, <1>3, <1>4, <1>5, <1>6, ReturnsStays


LEMMA ReaddirStays == ASSUME WalkInv, StayInv, Readdir PROVE StayInv'
<1>1. /\ step = "readdir" /\ step' = "lstat" /\ frames # <<>>
      /\ UNCHANGED <<tree, args, stayed, arg, list>>
  BY DEF Readdir, Goes, WalkInv
<1>2. PICK q \in (Top.names \cup Entries(Top.dir)) \ Top.given :
        /\ entry' = q
        /\ frames' = [frames EXCEPT ![Len(frames)].given = @ \cup {q}]
  BY DEF Readdir
<1>. DEFINE n == Len(frames)
            g == [Top EXCEPT !.given = @ \cup {q}]
<1>3. /\ n \in DOMAIN frames /\ Top = frames[n] /\ DOMAIN frames = 1 .. n /\ n \in Nat
      /\ Top.dir \in Paths /\ Top \in FrameType
      /\ \A i \in 1 .. n : i = n \/ i < n
  <2>1. \A i \in 1 .. n : i = n \/ i < n
    BY DEF WalkInv, ListTypeOK
  <2>2. QED
    BY <1>1, <2>1, FrameTyped DEF WalkInv, Top
<1>4. /\ g.dir = Top.dir /\ g.names = Top.names /\ g.linked = Top.linked
      /\ g.given = Top.given \cup {q}
  BY <1>3 DEF FrameType
<1>5. /\ frames' = [frames EXCEPT ![n] = g]
      /\ DOMAIN frames' = DOMAIN frames /\ frames'[n] = g
      /\ \A i \in 1 .. n : i < n => frames'[i] = frames[i]
  BY <1>2, <1>3
<1>. HIDE DEF g
<1>6. DOMAIN frames' = 1 .. n /\ frames' # <<>> /\ ~(n < n)
  <2>1. DOMAIN frames' = 1 .. n /\ n \in 1 .. n /\ n \in Nat
    BY <1>3, <1>5
  <2>2. frames' # <<>> /\ ~(n < n)
    BY <2>1
  <2>3. QED
    BY <2>1, <2>2
<1>7. /\ q \in Below(Top.dir) /\ Front(q) = Top.dir /\ q \notin Top.given /\ q \in Paths
  BY <1>2, <1>3 DEF Entries, StayInv, FramesInv, Below
<1>8. TreeInv' /\ \A p : Steady(p)' <=> Steady(p)
  BY <1>1, SameTree DEF StayInv
<1>9. \A i \in 1 .. n : /\ frames'[i].dir = frames[i].dir /\ frames'[i].names = frames[i].names
                        /\ frames'[i].linked = frames[i].linked
                        /\ frames[i].given \subseteq frames'[i].given
  BY <1>3, <1>4, <1>5
<1>10. FramesInv'
  <2>. SUFFICES ASSUME NEW i \in 1 .. n
                PROVE  /\ \A r \in frames'[i].names :
                             r \in Below(frames'[i].dir) /\ Front(r) = frames'[i].dir
                       /\ Entries(frames'[i].dir) \cap stayed \subseteq frames'[i].names
                       /\ \A k \in 1 .. n : k < i /\ ~frames'[i].linked =>
                             /\ frames'[i].dir \in Below(frames'[k].dir)
                             /\ Toward(frames'[k].dir, frames'[i].dir) \in frames'[k].given
    BY <1>1, <1>6 DEF FramesInv, Entries, Below, Toward
  <2>1. /\ \A r \in frames[i].names : r \in Below(frames[i].dir) /\ Front(r) = frames[i].dir
        /\ Entries(frames[i].dir) \cap stayed \subseteq frames[i].names
        /\ \A k \in 1 .. n : k < i /\ ~frames[i].linked =>
              /\ frames[i].dir \in Below(frames[k].dir)
              /\ Toward(frames[k].dir, frames[i].dir) \in frames[k].given
    BY <1>3 DEF StayInv, FramesInv
  <2>2. QED
    BY <1>9, <2>1
<1>11. n' = n /\ Top' = g /\ (Linked' <=> Linked)
  <2>1. n' = n
    BY <1>2, <1>5 DEF WalkInv, ListTypeOK
  <2>2. Top' = g
    BY <1>5, <2>1 DEF Top
  <2>3. QED
    BY <1>1, <1>4, <1>6, <2>2 DEF Linked
<1>12. EntryInv' /\ ArgsInv'
  <2>1. q \in Below(g.dir) /\ Front(q) = g.dir /\ q \in g.given
    BY <1>4, <1>7
  <2>2. QED
    BY <1>1, <1>2, <1>11, <2>1 DEF EntryInv, ArgsInv, Below
<1>13. Begun' = Begun /\ Roots' = Roots
  BY <1>1 DEF Begun, Roots
<1>14. ASSUME NEW p \in Paths, Steady(p)
       PROVE  (Due(p)' <=> Due(p)) /\ ListedAs(p)' = ListedAs(p) /\ BegunAbove(p)' = BegunAbove(p)
  <2>1. ListedAs(p)' = ListedAs(p) /\ BegunAbove(p)' = BegunAbove(p)
    BY <1>1, <1>13 DEF ListedAs, BegunAbove, Reaches
  <2>. DEFINE here == ~Linked /\ Reaches(q, p) /\ (q = p \/ q \notin Hidden)
  <2>2. DueHere(p)' <=> here
    BY <1>1, <1>2, <1>11 DEF DueHere, Reaches, Below
  <2>3. ~DueHere(p)
    BY <1>1 DEF DueHere
  <2>4. Linked <=> Top.linked
    BY <1>1 DEF Linked
  <2>5. DueIn(Top, p) <=> DueIn(g, p) \/ here
    <3>1. CASE p = q \/ p \in Below(q)
      <4>1. p \in Below(Top.dir) /\ Toward(Top.dir, p) = q /\ p # Top.dir
        BY <1>3, <1>7, <3>1, OnlyToward, BelowFacts
      <4>2. ~DueIn(g, p)
        BY <1>4, <4>1 DEF DueIn
      <4>3. DueIn(Top, p) <=> ~Linked /\ Reaches(Top.dir, p)
        BY <1>7, <2>4, <4>1 DEF DueIn
      <4>4. p # q => p \in Below(q)
        BY <3>1
      <4>5. Reaches(q, q)
        BY DEF Reaches
      <4>6. QED
        BY <1>3, <1>7, <4>2, <4>3, <4>4, <4>5, ReachesEntry
    <3>2. CASE ~(p = q \/ p \in Below(q))
      <4>1. ~here
        BY <3>2 DEF Reaches
      <4>2. p \in Below(Top.dir) => Toward(Top.dir, p) # q
        BY <1>3, <3>2, TowardEntry
      <4>3. Reaches(Top.dir, p) /\ p # Top.dir => p \in Below(Top.dir)
        BY ReachesBelow
      <4>4. QED
        BY <1>4, <4>1, <4>2, <4>3 DEF DueIn
    <3>3. QED
      BY <3>1, <3>2
  <2>. HIDE DEF here
  <2>6. (\E i \in DOMAIN frames' : DueIn(frames'[i], p))
          <=> (\E i \in 1 .. n : i < n /\ DueIn(frames[i], p)) \/ DueIn(g, p)
    <3>1. n \in 1 .. n
      BY <1>3
    <3>2. QED
      BY <1>3, <1>5, <1>6, <3>1
  <2>7. (\E i \in DOMAIN frames : DueIn(frames[i], p))
          <=> (\E i \in 1 .. n : i < n /\ DueIn(frames[i], p)) \/ DueIn(Top, p)
    BY <1>3
  <2>8. Due(p)' <=> (\E i \in DOMAIN frames' : DueIn(frames'[i], p)) \/ here
    BY <2>2 DEF Due, DueIn, Reaches, Toward
  <2>9. QED
    BY <2>1, <2>3, <2>5, <2>6, <2>7, <2>8 DEF Due
<1>15. OnceInv'
  BY <1>1, <1>14, OnceKept DEF StayInv
<1>16. QED
  BY <1>8, <1>10, <1>12, <1>15 DEF StayInv

LEMMA ListEntryStays == ASSUME WalkInv, StayInv, ListEntry PROVE StayInv'
<1>. DEFINE x == [path |-> entry, linked |-> Linked]
<1>1. /\ step = "lstat" /\ frames # <<>> /\ entry \in Paths
      /\ UNCHANGED <<tree, args, stayed, arg, entry, frames>>
  BY DEF ListEntry, Goes, WalkInv, ListTypeOK
<1>2. PICK kind \in Lstat(entry) :
        /\ list' = IF kind = "file" THEN Append(list, x) ELSE list
        /\ step' = IF kind = "dir" /\ entry \notin Hidden THEN "opendir" ELSE "readdir"
  BY DEF ListEntry, Goes
<1>3. x.path = entry /\ (x.linked <=> Linked)
  OBVIOUS
<1>. HIDE DEF x
<1>4. tree[entry] # "none" => kind = tree[entry]
  BY DEF Lstat
<1>5. TreeInv' /\ \A p : Steady(p)' <=> Steady(p)
  BY <1>1, SameTree DEF StayInv
<1>6. FramesInv'
  BY <1>1 DEF StayInv, FramesInv, Entries, Below, Toward
<1>7. EntryInv' /\ ArgsInv'
  <2>1. step' = "opendir" => ~Steady(entry)
    BY <1>2, <1>4 DEF Steady
  <2>2. entry \in Below(Top.dir) /\ Front(entry) = Top.dir /\ entry \in Top.given
    BY <1>1 DEF StayInv, EntryInv
  <2>3. QED
    BY <1>1, <1>2, <1>5, <2>1, <2>2 DEF EntryInv, ArgsInv, Top, Below, Steady
<1>8. Begun' = Begun /\ Roots' = Roots /\ (Linked' <=> Linked)
  BY <1>1, <1>2 DEF Begun, Roots, Linked, Top
<1>9. ASSUME NEW p \in Paths, Steady(p)
      PROVE  Cardinality(ListedAs(p)') + (IF Due(p)' THEN 1 ELSE 0) = Cardinality(BegunAbove(p)')
  <2>1. BegunAbove(p)' = BegunAbove(p)
    BY <1>8 DEF BegunAbove, Reaches, Below
  <2>2. DueHere(p)' <=> step' = "opendir" /\ ~Linked /\ Reaches(entry, p)
    BY <1>1, <1>2, <1>8 DEF DueHere, Reaches, Below
  <2>3. Due(p)' <=> (\E i \in DOMAIN frames : DueIn(frames[i], p)) \/ DueHere(p)'
    BY <1>1 DEF Due, DueIn, Reaches, Toward, Below
  <2>4. DueHere(p) <=> ~Linked /\ Reaches(entry, p) /\ (entry = p \/ entry \notin Hidden)
    BY <1>1 DEF DueHere
  <2>5. CASE p = entry /\ ~Linked
    <3>1. kind = "file" /\ Reaches(entry, p)
      BY <1>4, <1>9, <2>5 DEF Steady, Reaches
    <3>2. Due(p)
      BY <2>4, <2>5, <3>1 DEF Due
    <3>3. ~Due(p)'
      <4>1. \A i \in DOMAIN frames : ~DueIn(frames[i], p)
        BY <1>1, <2>5, NotDueAbove DEF StayInv
      <4>2. step' # "opendir"
        BY <1>2, <3>1
      <4>3. QED
        BY <2>2, <2>3, <4>1, <4>2
    <3>4. list' = Append(list, x)
      BY <1>2, <3>1
    <3>5. Cardinality(ListedAs(p)') = Cardinality(BegunAbove(p)')
      BY <1>3, <1>9, <2>1, <2>5, <3>2, <3>4, OnceListed DEF StayInv, WalkInv
    <3>6. Cardinality(BegunAbove(p)) \in Nat
      BY BegunFinite, FS_CardinalityType DEF WalkInv
    <3>7. QED
      BY <2>1, <3>3, <3>5, <3>6
  <2>6. CASE ~(p = entry /\ ~Linked)
    <3>1. ListedAs(p)' = ListedAs(p)
      BY <1>2, <1>3, <2>6, OtherListed DEF WalkInv
    <3>2. DueHere(p)' <=> DueHere(p)
      <4>1. CASE Linked
        BY <2>2, <2>4, <4>1
      <4>2. CASE ~Linked /\ p # entry
        <5>1. Reaches(entry, p) => tree[entry] = "dir"
          BY <1>1, <1>9, <4>2, ReachesBelow, AboveSteady
        <5>2. Reaches(entry, p) => (step' = "opendir" <=> entry \notin Hidden)
          BY <1>2, <1>4, <5>1
        <5>3. QED
          BY <2>2, <2>4, <4>2, <5>2
      <4>3. QED
        BY <2>6, <4>1, <4>2
    <3>3. Due(p)' <=> Due(p)
      BY <2>3, <3>2 DEF Due
    <3>4. QED
      BY <1>9, <2>1, <3>1, <3>3 DEF StayInv, OnceInv
  <2>7. QED
    BY <2>5, <2>6
<1>10. OnceInv'
  BY <1>1, <1>5, <1>9 DEF OnceInv
<1>11. QED
  BY <1>5, <1>6, <1>7, <1>10 DEF StayInv

LEMMA EndOfArgsStays == ASSUME WalkInv, StayInv, EndOfArgs PROVE StayInv'
<1>1. /\ step = "arg" /\ step' = "listed" /\ frames = <<>> /\ arg > Len(args)
      /\ UNCHANGED <<tree, args, stayed, arg, entry, frames, list>>
  BY DEF EndOfArgs, Goes, WalkInv
<1>2. TreeInv' /\ \A p : Steady(p)' <=> Steady(p)
  BY <1>1, SameTree DEF StayInv
<1>3. FramesInv' /\ EntryInv' /\ ArgsInv'
  BY <1>1 DEF StayInv, FramesInv, EntryInv, ArgsInv
<1>4. Begun' = Begun /\ Roots' = Roots
  BY <1>1 DEF Begun, Roots
<1>5. \A p \in Paths : /\ ~Due(p) /\ ~Due(p)'
                       /\ ListedAs(p)' = ListedAs(p) /\ BegunAbove(p)' = BegunAbove(p)
  BY <1>1, <1>4 DEF Due, DueHere, ListedAs, BegunAbove, Reaches, Below
<1>6. OnceInv'
  BY <1>1, <1>5, OnceKept DEF StayInv
<1>7. QED
  BY <1>2, <1>3, <1>6 DEF StayInv

\* What another program changes are paths that no longer stay.
LEMMA ChangeStays ==
  ASSUME WalkInv, StayInv, NEW c \in Paths, NEW kind \in Kinds, Change(c, kind)
  PROVE  StayInv'
<1>1. /\ kind # "none" => \A q \in Paths : c \in Below(q) /\ Front(c) = q => tree[q] = "dir"
      /\ \A q \in Paths : tree'[q] = IF q = c THEN kind
                                     ELSE IF q \in Below(c) THEN "none" ELSE tree[q]
      /\ stayed' = stayed \ (Below(c) \cup {c})
      /\ UNCHANGED <<args, arg, step, entry, frames, list>>
  BY DEF Change
<1>2. \A q \in Paths : q \in stayed' => q \in stayed /\ q # c /\ q \notin Below(c) /\ tree'[q] = tree[q]
  BY <1>1
<1>3. \A q \in Paths : Steady(q)' => Steady(q)
  BY <1>2 DEF Steady
<1>4. ASSUME NEW p \in Paths, NEW q \in Below(p)
      PROVE  (tree'[q] # "none" => tree'[p] = "dir") /\ (q \in stayed' => p \in stayed')
  <2>1. q \in Paths
    BY DEF Below
  <2>2. p \in Below(c) => q \in Below(c)
    BY BelowBelow
  <2>3. (tree[q] # "none" => tree[p] = "dir") /\ (q \in stayed => p \in stayed)
    BY DEF StayInv, TreeInv
  <2>4. p = c => q \in Below(c)
    OBVIOUS
  <2>5. q \in Below(c) => q # c
    BY BelowFacts
  <2>6. CASE q = c
    <3>1. p # c /\ p \notin Below(c)
      BY <2>2, <2>5, <2>6
    <3>2. tree'[p] = tree[p]
      BY <1>1, <3>1
    <3>3. kind # "none" => tree[p] = "dir"
      <4>. SUFFICES ASSUME kind # "none" PROVE tree[p] = "dir"
        OBVIOUS
      <4>. DEFINE m == Len(c) - 1
                  r == SubSeq(c, 1, m)
      <4>1. /\ p \in Seq(STRING) /\ c \in Seq(STRING) /\ Len(p) \in Nat /\ Len(c) \in Nat
            /\ 0 < Len(p) /\ Len(p) < Len(c) /\ \A i \in 1 .. Len(p) : c[i] = p[i]
        BY <2>6, BelowFacts
      <4>2. m \in Len(p) .. Len(c) /\ m \in Nat /\ m < Len(c)
        BY <4>1
      <4>3. IsStrictPrefix(p, c)
        BY <2>6 DEF Below
      <4>4. r \in Paths
        BY <4>2, <4>3, FileListsAssumption
      <4>5. Len(r) = m /\ r \in Seq(STRING) /\ \A i \in 1 .. m : r[i] = c[i]
        BY <4>1, <4>2
      <4>6. Front(c) = r
        BY DEF Front
      <4>. HIDE DEF r
      <4>7. c \in Below(r)
        BY <4>2, <4>4, <4>5, BelowIntro
      <4>8. tree[r] = "dir"
        BY <1>1, <4>4, <4>6, <4>7
      <4>9. r = p \/ r \in Below(p)
        BY <2>6, <4>2, <4>4, <4>5, <4>7, AboveOrdered
      <4>10. QED
        BY <4>8, <4>9 DEF StayInv, TreeInv
    <3>4. QED
      BY <1>1, <2>6, <3>2, <3>3
  <2>7. CASE q \in Below(c)
    BY <1>1, <2>1, <2>5, <2>7
  <2>8. CASE q # c /\ q \notin Below(c)
    BY <1>1, <2>1, <2>2, <2>3, <2>4, <2>8
  <2>9. QED
    BY <2>6, <2>7, <2>8
<1>5. TreeInv'
  BY <1>4 DEF TreeInv, Below
<1>6. \A dir : Entries(dir)' \cap stayed' \subseteq Entries(dir) \cap stayed
  BY <1>2 DEF Entries, Below
<1>7. FramesInv'
  <2>1. FramesInv
    BY DEF StayInv
  <2>2. QED
    BY <1>1, <1>6, <2>1 DEF FramesInv, Below, Toward, Entries
<1>8. EntryInv' /\ ArgsInv'
  <2>1. EntryInv /\ ArgsInv /\ entry \in Paths
    BY DEF StayInv, WalkInv, ListTypeOK
  <2>2. \A p \in Below(entry) : p \in Paths
    BY DEF Below
  <2>3. QED
    BY <1>1, <1>3, <2>1, <2>2 DEF EntryInv, ArgsInv, Top, Below
<1>9. \A p \in Paths : /\ Due(p)' <=> Due(p)
                       /\ ListedAs(p)' = ListedAs(p) /\ BegunAbove(p)' = BegunAbove(p)
  <2>1. Begun' = Begun /\ Roots' = Roots
    BY <1>1 DEF Begun, Roots
  <2>2. QED
    BY <1>1, <2>1 DEF Due, DueIn, DueHere, Linked, Top, Toward, ListedAs, BegunAbove, Reaches, Below
<1>10. OnceInv'
  BY <1>3, <1>9 DEF StayInv, OnceInv
<1>11. QED
  BY <1>5, <1>7, <1>8, <1>10 DEF StayInv

LEMMA StayStep == WalkInv /\ StayInv /\ [ListNext]_listVars => StayInv'
<1>. SUFFICES ASSUME WalkInv, StayInv, [ListNext]_listVars PROVE StayInv'
  OBVIOUS
<1>1. CASE ListStep
  BY <1>1, OpenArgStays, FopenArgStays, OpendirStays, OpendirFailsStays, ReaddirStays,
     EndOfDirectoryStays, ListEntryStays, EndOfArgsStays DEF ListStep
<1>2. CASE \E p \in Paths, kind \in Kinds : Change(p, kind)
  BY <1>2, ChangeStays
<1>3. CASE UNCHANGED listVars
  BY <1>3 DEF listVars, StayInv, TreeInv, FramesInv, EntryInv, ArgsInv, OnceInv, Steady, Due,
              DueIn, DueHere, Linked, Top, Toward, ListedAs, BegunAbove, Begun, Roots, Reaches,
              Entries, Below
<1>4. QED
  BY <1>1, <1>2, <1>3 DEF ListNext

\* Once the list is done nothing is due, and main has begun with all arguments.
LEMMA StayedOnce == WalkInv /\ StayInv => StayedListedOnce
<1>. SUFFICES ASSUME WalkInv, StayInv, step = "listed",
                     NEW p \in {q \in stayed : tree[q] = "file"}
              PROVE  Cardinality({i \in DOMAIN list : list[i].path = p /\ ~list[i].linked})
                       = Cardinality({i \in DOMAIN Roots : Reaches(Roots[i], p)})
  BY DEF StayedListedOnce
<1>1. p \in Paths /\ Steady(p)
  BY DEF Steady, WalkInv, ListTypeOK
<1>2. /\ frames = <<>> /\ arg > Len(args) /\ (args = <<>> => arg > 1)
      /\ args \in Seq(Paths) /\ arg \in Nat
  BY DEF StayInv, ArgsInv, WalkInv, ListTypeOK
<1>3. ~Due(p)
  BY <1>2 DEF Due, DueHere
<1>4. \A i \in DOMAIN Roots : i <= Begun
  BY <1>2 DEF Roots, Begun
<1>5. BegunAbove(p) = {i \in DOMAIN Roots : Reaches(Roots[i], p)}
  BY <1>4 DEF BegunAbove
<1>6. IsFiniteSet(ListedAs(p)) /\ Cardinality(ListedAs(p)) \in Nat
  BY BegunFinite, FS_CardinalityType DEF WalkInv
<1>7. Cardinality(ListedAs(p)) = Cardinality(BegunAbove(p))
  BY <1>1, <1>3, <1>6 DEF StayInv, OnceInv
<1>8. QED
  BY <1>5, <1>7 DEF ListedAs

\* Whatever other programs remove, make and replace while the walk is under way,
\* even between readdir, lstat and opendir, a file that they leave alone is listed
\* once for each argument it is under.
THEOREM StayedListedOnceAlways == ListSpec => []StayedListedOnce
  BY WalkAlways, StayInit, StayStep, StayedOnce, PTL DEF ListSpec

-----------------------------------------------------------------------------
(* The whole program.                                                      *)

clAll == <<listVars, clVars>>

\* Whatever main does beside it, the walk does steps of FileLists, or none.
LEMMA WalkRefined == [CLNext]_clAll => [ListNext]_listVars
<1>. SUFFICES ASSUME [CLNext]_clAll PROVE [ListNext]_listVars
  OBVIOUS
<1>1. CASE ListStep
  BY <1>1 DEF ListNext
<1>2. CASE \E p \in Paths, k \in Kinds : Change(p, k)
  BY <1>2 DEF ListNext
<1>3. CASE UNCHANGED listVars
  BY <1>3
<1>4. ListStep \/ (\E p \in Paths, k \in Kinds : Change(p, k)) \/ UNCHANGED listVars
  BY DEF CLNext, CLStep, clAll, Start, ParseFile, CountLanguage, AnalyzeFile,
         AnalyzeItem, FileAnalyzed, PrintSummary, PrintFile, PrintAnswer, End
<1>. QED
  BY <1>1, <1>2, <1>3, <1>4

LEMMA CLWalkAlways == CLSpec => []WalkInv
<1>1. CLInit => WalkInv
  BY WalkInit DEF CLInit
<1>2. WalkInv /\ [CLNext]_clAll => WalkInv'
  BY WalkRefined, WalkStep
<1>. QED
  BY <1>1, <1>2, PTL DEF CLSpec, clAll

\* The program lists files only, and follows no link on its own.
THEOREM ProgramListsRightly == CLSpec => []ListedRightly
<1>1. CLInit => RightInv
  BY RightInit DEF CLInit
<1>2. WalkInv /\ RightInv /\ [CLNext]_clAll => RightInv'
  BY WalkRefined, RightStep
<1>3. RightInv => ListedRightly
  BY DEF RightInv, Unlinked, Rightful, ListedRightly, ListedWereFiles, NoLinkFollowed
<1>. QED
  BY <1>1, <1>2, <1>3, CLWalkAlways, PTL DEF CLSpec, clAll

\* The program lists the files that are left alone once for each argument above
\* them, whatever else happens in the tree meanwhile.
THEOREM ProgramListsOnce == CLSpec => []StayedListedOnce
<1>1. CLInit => StayInv
  BY StayInit DEF CLInit
<1>2. WalkInv /\ StayInv /\ [CLNext]_clAll => StayInv'
  BY WalkRefined, StayStep
<1>. QED
  BY <1>1, <1>2, StayedOnce, CLWalkAlways, PTL DEF CLSpec, clAll

-----------------------------------------------------------------------------
\* What a file may say, and the numbers a Loc can have.
Said == {Has[p] : p \in Paths} \cup {<<>>}
Numbers == UNION {{Has[p][i].n : i \in DOMAIN Has[p]} : p \in DOMAIN Has}

\* The list is done, and short enough, once there is a command.
ReadInv ==
    /\ file \in Nat \ {0} /\ item \in Nat
    /\ read \in Seq(Said)
    /\ command # NULL => step = "listed" /\ Len(list) <= MaxListed

LEMMA ReadInit == CLInit => ReadInv
  BY DEF CLInit, ReadInv, NULL

LEMMA ListDone ==
  ASSUME ListStep
  PROVE  step # "listed"
  BY DEF ListStep, OpenArg, FopenArg, Opendir, OpendirFails, Readdir,
         EndOfDirectory, ListEntry, EndOfArgs

LEMMA ContentsSaid ==
  ASSUME ListTypeOK, NEW k \in DOMAIN list
  PROVE  Contents(list[k].path) \in Said
<1>1. list \in Seq(ListedType)
  BY DEF ListTypeOK
<1>2. list[k] \in ListedType
  BY <1>1
<1>. QED
  BY <1>2, RealPath DEF Contents, Said, ListedType

LEMMA ReadStep == WalkInv /\ ReadInv /\ [CLNext]_clAll => ReadInv'
<1>. SUFFICES ASSUME WalkInv, ReadInv, [CLNext]_clAll PROVE ReadInv'
  OBVIOUS
<1>1. CASE ListStep /\ UNCHANGED clVars
  BY <1>1, ListDone DEF ReadInv, clVars
<1>2. CASE (\E p \in Paths, k \in Kinds : Change(p, k)) /\ UNCHANGED clVars
  <2>1. UNCHANGED <<step, list>>
    BY <1>2 DEF Change
  <2>. QED
    BY <1>2, <2>1 DEF ReadInv, clVars
<1>3. CASE Start
  BY <1>3 DEF Start, ReadInv, listVars
<1>4. CASE ParseFile
  <2>1. file \in DOMAIN list
    BY <1>4 DEF ParseFile, ReadInv, WalkInv, ListTypeOK
  <2>2. Contents(list[file].path) \in Said
    BY <2>1, ContentsSaid DEF WalkInv
  <2>3. read' \in Seq(Said)
    BY <1>4, <2>2 DEF ParseFile, ReadInv
  <2>. QED
    BY <1>4, <2>3 DEF ParseFile, ReadInv, listVars
<1>5. CASE CountLanguage
  BY <1>5 DEF CountLanguage, ReadInv, listVars
<1>6. CASE AnalyzeFile \/ AnalyzeItem \/ PrintSummary \/ End
  BY <1>6 DEF AnalyzeFile, AnalyzeItem, PrintSummary, End, ReadInv, listVars
<1>7. CASE FileAnalyzed \/ PrintFile \/ PrintAnswer
  BY <1>7 DEF FileAnalyzed, PrintFile, PrintAnswer, NextFile, ReadInv, listVars
<1>8. CASE UNCHANGED clAll
  BY <1>8 DEF clAll, clVars, listVars, ReadInv
<1>. QED
  BY <1>1, <1>2, <1>3, <1>4, <1>5, <1>6, <1>7, <1>8 DEF CLNext, CLStep
LEMMA ReadAlways == CLSpec => []ReadInv
  BY ReadInit, ReadStep, CLWalkAlways, PTL DEF CLSpec, clAll

\* What a file says is what Loc takes.
LEMMA SaidNumbers ==
  ASSUME NEW s \in Said, NEW i \in DOMAIN s
  PROVE  s[i].language \in Languages /\ s[i].n \in Numbers
<1>1. s # <<>>
  OBVIOUS
<1>2. PICK p \in Paths : s = Has[p]
  BY <1>1 DEF Said
<1>3. s \in Seq([language : Languages, n : [L!LocFields -> Nat]]) /\ DOMAIN Has = Paths
  BY <1>2, CommandLineAssumption
<1>4. s[i] \in [language : Languages, n : [L!LocFields -> Nat]]
  <2>. DEFINE T == [language : Languages, n : [L!LocFields -> Nat]]
  <2>1. s \in Seq(T)
    BY <1>3
  <2>. HIDE DEF T
  <2>2. s[i] \in T
    BY <2>1
  <2>. QED
    BY <2>2 DEF T
<1>5. s[i].language \in Languages
  BY <1>4
<1>6. s[i].n \in Numbers
  BY <1>2, <1>3 DEF Numbers
<1>. QED
  BY <1>5, <1>6

LEMMA LocInit == CLInit => L!Init
  BY DEF CLInit, L!Init, L!Kinds, Languages

LEMMA LocStep == ReadInv /\ [CLNext]_clAll => [L!Next]_(L!vars)
<1>. SUFFICES ASSUME ReadInv, [CLNext]_clAll PROVE [L!Next]_(L!vars)
  OBVIOUS
<1>1. CASE CountLanguage
  <2>. DEFINE s == read[file]
              l == s[item + 1].language
              n == s[item + 1].n
  <2>1. file \in 0 .. MaxListed
    BY <1>1, CommandLineAssumption DEF CountLanguage, Counting, ReadInv, NULL
  <2>2. s \in Said /\ item + 1 \in DOMAIN s
    <3>1. file \in DOMAIN read
      BY <1>1 DEF CountLanguage, ReadInv
    <3>2. s \in Said
      BY <3>1 DEF ReadInv
    <3>3. DOMAIN s = 1 .. Len(s) /\ Len(s) \in Nat
      BY <3>2, CommandLineAssumption DEF Said
    <3>. QED
      BY <1>1, <3>2, <3>3 DEF CountLanguage, ReadInv
  <2>3. l \in Languages /\ n \in Numbers
    BY <2>2, SaidNumbers
  <2>4. L!AddOne(file, l, n)
    BY <1>1 DEF CountLanguage
  <2>. QED
    BY <2>1, <2>3, <2>4 DEF L!Next, L!Amounts, Numbers
<1>2. CASE AnalyzeFile
  <2>1. file \in 0 .. MaxListed /\ Sum \in 0 .. MaxListed
    BY <1>2, CommandLineAssumption DEF AnalyzeFile, Counted, ReadInv, NULL, Sum
  <2>. QED
    BY <1>2, <2>1 DEF AnalyzeFile, L!Next
<1>3. CASE AnalyzeItem \/ FileAnalyzed
  BY <1>3 DEF AnalyzeItem, FileAnalyzed, L!Next
<1>4. CASE UNCHANGED <<locVars>>
  BY <1>4 DEF locVars, L!vars
<1>5. ~CountLanguage /\ ~AnalyzeFile /\ ~AnalyzeItem /\ ~FileAnalyzed => UNCHANGED locVars
  BY DEF CLNext, CLStep, clAll, clVars, Start, ParseFile, PrintSummary, PrintFile,
         PrintAnswer, End
<1>. QED
  BY <1>1, <1>2, <1>3, <1>4, <1>5

\* summary and individual do nothing to their lists that Loc does not offer.
THEOREM SummaryIsClient == CLSpec => ClientOfLoc
  BY ReadAlways, LocInit, LocStep, PTL DEF CLSpec, clAll, ClientOfLoc, L!Spec
-----------------------------------------------------------------------------
(* Induction over the naturals, and what the folds of sequences are.       *)

\* The library's theorem that < is well-founded, with its operator expanded.
LEMMA LessThanWellFounded ==
    IsWellFoundedOn({e \in Nat \X Nat : e[1] < e[2]}, Nat)
  BY NatLessThanWellFounded DEF OpToRel

LEMMA LeastNat ==
  ASSUME NEW S \in SUBSET Nat, S # {}
  PROVE  \E n \in S : \A k \in S : n <= k
<1>. DEFINE R == {e \in Nat \X Nat : e[1] < e[2]}
<1>1. IsWellFoundedOn(R, Nat)
  BY LessThanWellFounded
<1>2. PICK n \in S : \A k \in S : <<k, n>> \notin R
  <2>. HIDE DEF R
  <2>. QED
    BY <1>1, WFMin
<1>3. ASSUME NEW k \in S PROVE n <= k
  <2>1. k \in Nat /\ n \in Nat
    OBVIOUS
  <2>2. ~(k < n)
    BY <1>2, <2>1
  <2>3. QED
    BY <2>1, <2>2
<1>4. QED
  BY <1>3

\* Induction, as a statement about sets.
LEMMA NatSet ==
  ASSUME NEW S, 0 \in S, \A n \in Nat : n \in S => n + 1 \in S
  PROVE  \A n \in Nat : n \in S
<1>. DEFINE T == {n \in Nat : n \notin S}
<1>1. SUFFICES ASSUME T # {} PROVE FALSE
  OBVIOUS
<1>2. PICK k \in T : \A j \in T : k <= j
  BY <1>1, LeastNat
<1>3. k # 0 /\ k - 1 \in Nat /\ (k - 1) + 1 = k
  BY <1>2
<1>4. k - 1 \in S
  BY <1>2, <1>3
<1>5. QED
  BY <1>2, <1>3, <1>4

Greatest(s) == CHOOSE x \in s : \A y \in s : x >= y

LEMMA GreatestIn ==
  ASSUME NEW n \in Nat, NEW s \in SUBSET (1 .. n), s # {}
  PROVE  Greatest(s) \in s /\ \A y \in s : Greatest(s) >= y
<1>. DEFINE B == {b \in Nat : \A y \in s : b >= y}
<1>1. n \in B
  OBVIOUS
<1>2. PICK b \in B : \A c \in B : b <= c
  <2>1. B \in SUBSET Nat /\ B # {}
    BY <1>1
  <2>. HIDE DEF B
  <2>. QED
    BY <2>1, LeastNat
<1>3. b \in s
  <2>. SUFFICES ASSUME b \notin s PROVE FALSE
    OBVIOUS
  <2>1. PICK y \in s : TRUE
    OBVIOUS
  <2>2. b # 0
    BY <1>2
  <2>3. \A z \in s : b - 1 >= z
    BY <1>2
  <2>4. b - 1 \in B
    BY <1>2, <2>2, <2>3
  <2>5. QED
    BY <1>2, <2>4
<1>4. \A y \in s : b >= y
  BY <1>2
<1>5. QED
  BY <1>3, <1>4 DEF Greatest

LEMMA GreatestOf ==
  ASSUME NEW n \in Nat, n # 0
  PROVE  Greatest(1 .. n) = n
<1>1. \A x \in 1 .. n : (\A y \in 1 .. n : x >= y) => x = n
  OBVIOUS
<1>2. n \in 1 .. n /\ \A y \in 1 .. n : n >= y
  OBVIOUS
<1>3. QED
  BY <1>1, <1>2 DEF Greatest

\* What FoldLeft takes over the numbers 1 .. n, each step G of the value so far
\* and the number, begun with b.
Steps(t, G, b, n) ==
    t = [s \in SUBSET (1 .. n) |->
           IF s = {} THEN b ELSE G[t[s \ {Greatest(s)}]][Greatest(s)]]

\* The values over the numbers of a set, from the first number to the last.
Over(c, s, G, b, n) ==
    /\ c[0] = b
    /\ \A k \in 1 .. n : c[k] = IF k \in s THEN G[c[k - 1]][k] ELSE c[k - 1]

LEMMA OverExists ==
  ASSUME NEW n \in Nat, NEW A, NEW b \in A, NEW G \in [A -> [1 .. n -> A]], NEW s
  PROVE  \E c \in [0 .. n -> A] : Over(c, s, G, b, n)
<1>. DEFINE S == {m \in Nat : m <= n => \E c \in [0 .. m -> A] : Over(c, s, G, b, m)}
<1>1. 0 \in S
  <2>1. [i \in 0 .. 0 |-> b] \in [0 .. 0 -> A]
    OBVIOUS
  <2>2. Over([i \in 0 .. 0 |-> b], s, G, b, 0)
    BY DEF Over
  <2>3. QED
    BY <2>1, <2>2
<1>2. ASSUME NEW m \in Nat, m \in S PROVE m + 1 \in S
  <2>. SUFFICES ASSUME m + 1 <= n
                PROVE  \E c \in [0 .. m + 1 -> A] : Over(c, s, G, b, m + 1)
    OBVIOUS
  <2>1. PICK c \in [0 .. m -> A] : Over(c, s, G, b, m)
    BY <1>2
  <2>2. PICK k : k = m + 1
    OBVIOUS
  <2>3. k \in 1 .. n /\ k \in Nat /\ k - 1 = m /\ m \in 0 .. m /\ k # 0
    BY <2>2
  <2>4. PICK v \in A : v = IF k \in s THEN G[c[m]][k] ELSE c[m]
    <3>1. c[m] \in A
      BY <2>3
    <3>2. G[c[m]][k] \in A
      BY <2>3, <3>1
    <3>3. QED
      BY <3>1, <3>2
  <2>. DEFINE d == [i \in 0 .. k |-> IF i = k THEN v ELSE c[i]]
  <2>5. \A i \in 0 .. k : i # k => i \in 0 .. m
    BY <2>2
  <2>6. d \in [0 .. k -> A]
    BY <2>5
  <2>7. d[0] = b
    BY <2>1, <2>3 DEF Over
  <2>8. ASSUME NEW i \in 1 .. k
        PROVE  d[i] = IF i \in s THEN G[d[i - 1]][i] ELSE d[i - 1]
    <3>1. CASE i = k
      <4>1. d[k - 1] = c[m] /\ d[k] = v
        BY <2>3
      <4>2. QED
        BY <2>3, <2>4, <3>1, <4>1
    <3>2. CASE i # k
      <4>1. i \in 1 .. m /\ i \in 0 .. k /\ i - 1 \in 0 .. k /\ i - 1 # k
        BY <2>2, <3>2
      <4>2. d[i] = c[i] /\ d[i - 1] = c[i - 1]
        BY <3>2, <4>1
      <4>3. c[i] = IF i \in s THEN G[c[i - 1]][i] ELSE c[i - 1]
        BY <2>1, <4>1 DEF Over
      <4>4. QED
        BY <4>2, <4>3
    <3>3. QED
      BY <3>1, <3>2
  <2>. HIDE DEF d
  <2>9. Over(d, s, G, b, k)
    BY <2>7, <2>8 DEF Over
  <2>10. QED
    BY <2>2, <2>6, <2>9
<1>. HIDE DEF S
<1>3. \A m \in Nat : m \in S
  BY <1>1, <1>2, NatSet
<1>4. QED
  BY <1>3 DEF S

\* The values over nothing are what they begin with.
LEMMA OverNothing ==
  ASSUME NEW n \in Nat, NEW G, NEW b, NEW c, Over(c, {}, G, b, n)
  PROVE  c[n] = b
<1>. DEFINE S == {k \in Nat : k <= n => c[k] = b}
<1>1. 0 \in S
  BY DEF Over
<1>2. ASSUME NEW k \in Nat, k \in S PROVE k + 1 \in S
  <2>1. k + 1 <= n => k + 1 \in 1 .. n /\ (k + 1) - 1 = k
    OBVIOUS
  <2>2. k + 1 <= n => c[k + 1] = c[k]
    BY <2>1 DEF Over
  <2>3. QED
    BY <1>2, <2>2
<1>. HIDE DEF S
<1>3. \A k \in Nat : k \in S
  BY <1>1, <1>2, NatSet
<1>4. QED
  BY <1>3 DEF S

LEMMA StepsExist ==
  ASSUME NEW n \in Nat, NEW A, NEW b \in A, NEW G \in [A -> [1 .. n -> A]]
  PROVE  \E t \in [SUBSET (1 .. n) -> A] : Steps(t, G, b, n)
<1>. DEFINE c(s) == CHOOSE c \in [0 .. n -> A] : Over(c, s, G, b, n)
            t == [s \in SUBSET (1 .. n) |-> c(s)[n]]
<1>1. \A s : c(s) \in [0 .. n -> A] /\ Over(c(s), s, G, b, n)
  BY OverExists
<1>. HIDE DEF c
<1>2. t \in [SUBSET (1 .. n) -> A]
  <2>1. n \in 0 .. n
    OBVIOUS
  <2>2. QED
    BY <1>1, <2>1
<1>3. ASSUME NEW s \in SUBSET (1 .. n)
      PROVE  t[s] = IF s = {} THEN b ELSE G[t[s \ {Greatest(s)}]][Greatest(s)]
  <2>1. CASE s = {}
    <3>1. c({})[n] = b
      BY <1>1, OverNothing
    <3>2. QED
      BY <2>1, <3>1
  <2>2. CASE s # {}
    <3>1. PICK j : j = Greatest(s)
      OBVIOUS
    <3>2. j \in s /\ j \in 1 .. n /\ \A i \in s : j >= i
      BY <2>2, <3>1, GreatestIn
    <3>3. PICK r \in SUBSET (1 .. n) : r = s \ {j}
      OBVIOUS
    <3>4. PICK d, e : d = c(s) /\ e = c(r)
      OBVIOUS
    <3>5. Over(d, s, G, b, n) /\ Over(e, r, G, b, n)
      BY <1>1, <3>4
    <3>6. PICK v : v = G[e[j - 1]][j]
      OBVIOUS
    <3>. DEFINE S == {k \in Nat : k <= n => /\ k < j => d[k] = e[k]
                                            /\ k >= j => e[k] = e[j - 1] /\ d[k] = v}
    <3>7. 0 \in S
      BY <3>2, <3>5 DEF Over
    <3>8. ASSUME NEW k \in Nat, k \in S PROVE k + 1 \in S
      <4>. SUFFICES ASSUME k + 1 <= n
           PROVE  /\ k + 1 < j => d[k + 1] = e[k + 1]
                  /\ k + 1 >= j => e[k + 1] = e[j - 1] /\ d[k + 1] = v
        OBVIOUS
      <4>1. k + 1 \in 1 .. n /\ (k + 1) - 1 = k
        OBVIOUS
      <4>2. /\ d[k + 1] = IF k + 1 \in s THEN G[d[k]][k + 1] ELSE d[k]
            /\ e[k + 1] = IF k + 1 \in r THEN G[e[k]][k + 1] ELSE e[k]
        <5>1. \A i \in 1 .. n : /\ d[i] = IF i \in s THEN G[d[i - 1]][i] ELSE d[i - 1]
                                /\ e[i] = IF i \in r THEN G[e[i - 1]][i] ELSE e[i - 1]
          BY <3>5 DEF Over
        <5>2. QED
          BY <4>1, <5>1
      <4>3. CASE k + 1 < j
        <5>1. k + 1 \in s <=> k + 1 \in r
          BY <3>3, <4>3
        <5>2. d[k] = e[k]
          BY <3>2, <3>8, <4>3
        <5>3. QED
          BY <3>2, <4>2, <4>3, <5>1, <5>2
      <4>4. CASE k + 1 = j
        <5>1. k = j - 1 /\ k < j
          BY <3>2, <4>4
        <5>2. j \in s /\ j \notin r
          BY <3>2, <3>3
        <5>3. d[k] = e[k]
          BY <3>8, <5>1
        <5>4. d[j] = G[e[j - 1]][j] /\ e[j] = e[j - 1]
          BY <4>2, <4>4, <5>1, <5>2, <5>3
        <5>5. QED
          BY <3>2, <3>6, <4>4, <5>4
      <4>5. CASE k + 1 > j
        <5>1. k >= j /\ k + 1 \notin s /\ k + 1 \notin r
          BY <3>2, <3>3, <4>5
        <5>2. QED
          BY <3>2, <3>8, <4>2, <4>5, <5>1
      <4>6. QED
        BY <3>2, <4>3, <4>4, <4>5
    <3>9. \A k \in Nat : k \in S
      <4>. HIDE DEF S
      <4>. QED
        BY <3>7, <3>8, NatSet
    <3>10. d[n] = G[e[n]][j]
      BY <3>2, <3>6, <3>9
    <3>11. QED
      BY <2>2, <3>1, <3>3, <3>4, <3>10
  <2>3. QED
    BY <2>1, <2>2
<1>4. t = [s \in SUBSET (1 .. n) |->
             IF s = {} THEN b ELSE G[t[s \ {Greatest(s)}]][Greatest(s)]]
  BY <1>3
<1>. HIDE DEF t
<1>5. QED
  BY <1>2, <1>4 DEF Steps
-----------------------------------------------------------------------------
(* The selection sorts.                                                    *)

RowType == [language : Languages, n : [L!LocFields -> Nat]]
OneEach(s) == \A i, h \in DOMAIN s : s[i].language = s[h].language => i = h

\* From i on there is a first place no other has a smaller key than.
LEMMA FirstSmallest ==
  ASSUME NEW n \in Nat, NEW i \in 1 .. n, NEW key, \A h \in 1 .. n : key[h] \in Int
  PROVE  \E j \in i .. n : /\ \A h \in i .. n : ~(key[h] < key[j])
                           /\ \A h \in i .. j - 1 : key[j] < key[h]
<1>. DEFINE Found(m) == \E j \in i .. m : /\ \A h \in i .. m : ~(key[h] < key[j])
                                          /\ \A h \in i .. j - 1 : key[j] < key[h]
            S == {d \in Nat : i + d <= n => Found(i + d)}
<1>1. 0 \in S
  <2>1. i + 0 = i /\ i .. i = {i} /\ i .. i - 1 = {}
    OBVIOUS
  <2>2. ~(key[i] < key[i])
    OBVIOUS
  <2>3. Found(i)
    BY <2>1, <2>2
  <2>4. QED
    BY <2>1, <2>3
<1>2. ASSUME NEW d \in Nat, d \in S PROVE d + 1 \in S
  <2>. SUFFICES ASSUME i + (d + 1) <= n PROVE Found(i + (d + 1))
    OBVIOUS
  <2>1. PICK m \in 1 .. n : m = i + d /\ m + 1 = i + (d + 1) /\ m + 1 \in 1 .. n /\ i <= m
    OBVIOUS
  <2>2. PICK j \in i .. m : /\ \A h \in i .. m : ~(key[h] < key[j])
                            /\ \A h \in i .. j - 1 : key[j] < key[h]
    BY <1>2, <2>1
  <2>3. \A h \in i .. m + 1 : h \in 1 .. n /\ (h \in i .. m \/ h = m + 1)
    BY <2>1
  <2>4. key[j] \in Int /\ key[m + 1] \in Int /\ \A h \in i .. m + 1 : key[h] \in Int
    BY <2>1, <2>3
  <2>5. CASE key[m + 1] < key[j]
    <3>1. \A h \in i .. m : key[m + 1] < key[h]
      BY <2>2, <2>3, <2>4, <2>5
    <3>2. \A h \in i .. m + 1 : ~(key[h] < key[m + 1])
      BY <2>3, <2>4, <3>1
    <3>3. m + 1 \in i .. m + 1 /\ (m + 1) - 1 = m
      BY <2>1
    <3>4. QED
      BY <2>1, <3>1, <3>2, <3>3
  <2>6. CASE ~(key[m + 1] < key[j])
    <3>1. \A h \in i .. m + 1 : ~(key[h] < key[j])
      BY <2>2, <2>3, <2>6
    <3>2. j \in i .. m + 1
      BY <2>1
    <3>3. QED
      BY <2>1, <2>2, <3>1, <3>2
  <2>7. QED
    BY <2>5, <2>6
<1>. HIDE DEF S
<1>3. \A d \in Nat : d \in S
  BY <1>1, <1>2, NatSet
<1>4. PICK d \in Nat : i + d = n
  <2>1. n - i \in Nat /\ i + (n - i) = n
    OBVIOUS
  <2>2. QED
    BY <2>1
<1>5. Found(n)
  BY <1>3, <1>4 DEF S
<1>6. QED
  BY <1>5

\* The place of a language, different for different languages.
LEMMA PlaceType ==
  ASSUME NEW l \in Languages
  PROVE  Place(l) \in Nat /\ Alphabet[Place(l)] = l
<1>1. \E i \in DOMAIN Alphabet : Alphabet[i] = l
  BY DEF Languages, ToSet
<1>2. Place(l) \in DOMAIN Alphabet /\ Alphabet[Place(l)] = l
  BY <1>1 DEF Place
<1>3. DOMAIN Alphabet \subseteq Nat
  BY CommandLineAssumption
<1>4. QED
  BY <1>2, <1>3

\* Swapping two rows keeps the rows.
LEMMA SwappedRows ==
  ASSUME NEW n \in Nat, NEW r \in [1 .. n -> RowType], NEW i \in 1 .. n, NEW j \in 1 .. n
  PROVE  /\ Swapped(r, i, j) \in [1 .. n -> RowType]
         /\ ToSet(Swapped(r, i, j)) = ToSet(r)
         /\ OneEach(r) => OneEach(Swapped(r, i, j))
         /\ \A h \in 1 .. n : Swapped(r, i, j)[h] = IF h = j THEN r[i]
                                                  ELSE IF h = i THEN r[j] ELSE r[h]
<1>1. PICK u : u = Swapped(r, i, j)
  OBVIOUS
<1>2. u \in [1 .. n -> RowType]
  BY <1>1 DEF Swapped
<1>3. \A h \in 1 .. n : u[h] = IF h = j THEN r[i] ELSE IF h = i THEN r[j] ELSE r[h]
  BY <1>1 DEF Swapped
<1>4. DOMAIN u = 1 .. n /\ DOMAIN r = 1 .. n
  BY <1>2
<1>5. ToSet(u) = ToSet(r)
  <2>1. ASSUME NEW x \in ToSet(u) PROVE x \in ToSet(r)
    BY <1>3, <1>4, <2>1 DEF ToSet
  <2>2. ASSUME NEW x \in ToSet(r) PROVE x \in ToSet(u)
    <3>1. PICK h \in 1 .. n : x = r[h]
      BY <1>4, <2>2 DEF ToSet
    <3>2. \E g \in 1 .. n : u[g] = r[h]
      BY <1>3
    <3>3. QED
      BY <1>4, <3>1, <3>2 DEF ToSet
  <2>3. QED
    BY <2>1, <2>2
<1>6. OneEach(r) => OneEach(u)
  BY <1>3, <1>4 DEF OneEach
<1>7. QED
  BY <1>1, <1>2, <1>3, <1>5, <1>6

\* Once k rows are in their places, by the numbers K gives the rows.
SortedTo(K, r, k, n) ==
    \A i, j \in 1 .. n : i <= k /\ i < j => K[r[i]] <= K[r[j]]

\* The first of the rows from k + 1 on, by those numbers, goes to place k + 1.
LEMMA SortedNext ==
  ASSUME NEW K, \A m \in RowType : K[m] \in Int, NEW n \in Nat, NEW r \in [1 .. n -> RowType],
         NEW k \in Nat, k + 1 <= n, SortedTo(K, r, k, n),
         NEW j \in k + 1 .. n, \A h \in k + 1 .. n : ~(K[r[h]] < K[r[j]])
  PROVE  SortedTo(K, Swapped(r, k + 1, j), k + 1, n)
<1>1. PICK i \in 1 .. n : i = k + 1
  OBVIOUS
<1>2. j \in i .. n /\ j \in 1 .. n
  BY <1>1
<1>3. \A h \in 1 .. n : r[h] \in RowType /\ K[r[h]] \in Int
  OBVIOUS
<1>4. \A h \in i .. n : h \in 1 .. n /\ K[r[j]] <= K[r[h]]
  BY <1>1, <1>2, <1>3
<1>5. PICK u : u = Swapped(r, i, j)
  OBVIOUS
<1>6. \A h \in 1 .. n : u[h] = IF h = j THEN r[i] ELSE IF h = i THEN r[j] ELSE r[h]
  <2>1. \A h \in 1 .. n : Swapped(r, i, j)[h] =
          IF h = j THEN r[i] ELSE IF h = i THEN r[j] ELSE r[h]
    BY <1>2, SwappedRows
  <2>2. QED
    BY <1>5, <2>1
<1>7. ASSUME NEW a \in 1 .. n, NEW c \in 1 .. n, a <= i, a < c PROVE K[u[a]] <= K[u[c]]
  <2>1. CASE a < i
    <3>1. a <= k /\ u[a] = r[a]
      BY <1>1, <1>2, <1>6, <2>1
    <3>2. \A h \in 1 .. n : a < h => K[r[a]] <= K[r[h]]
      BY <3>1 DEF SortedTo
    <3>3. a < i /\ a < j
      BY <1>2, <2>1
    <3>4. u[c] = r[c] \/ u[c] = r[i] \/ u[c] = r[j]
      BY <1>6
    <3>5. QED
      BY <1>2, <1>7, <3>1, <3>2, <3>3, <3>4
  <2>2. CASE a = i
    <3>1. u[i] = r[j]
      BY <1>2, <1>6
    <3>2. \E h \in i .. n : u[c] = r[h]
      BY <1>2, <1>6, <1>7, <2>2
    <3>3. QED
      BY <1>4, <2>2, <3>1, <3>2
  <2>3. QED
    BY <1>7, <2>1, <2>2
<1>8. SortedTo(K, u, i, n)
  BY <1>7 DEF SortedTo
<1>9. QED
  BY <1>1, <1>5, <1>8

\* The steps of a selection sort by those numbers.
Selected(K, c, n) ==
    \A k \in Nat : k + 1 <= n /\ c[k] \in [1 .. n -> RowType] =>
      \E j \in k + 1 .. n : /\ c[k + 1] = Swapped(c[k], k + 1, j)
                            /\ \A h \in k + 1 .. n : ~(K[c[k][h]] < K[c[k][j]])

\* n such steps sort the rows.
LEMMA SortedSteps ==
  ASSUME NEW K, \A m \in RowType : K[m] \in Int, NEW n \in Nat, NEW s \in [1 .. n -> RowType],
         OneEach(s), NEW c, c[0] = s, Selected(K, c, n)
  PROVE  /\ c[n] \in Seq(RowType) /\ Len(c[n]) = n /\ ToSet(c[n]) = ToSet(s)
         /\ OneEach(c[n]) /\ SortedTo(K, c[n], n, n)
<1>. DEFINE A == [1 .. n -> RowType]
            Right(r, k) == /\ r \in A /\ ToSet(r) = ToSet(s) /\ OneEach(r)
                           /\ SortedTo(K, r, k, n)
            S == {k \in Nat : k <= n => Right(c[k], k)}
<1>1. 0 \in S
  <2>1. SortedTo(K, s, 0, n)
    BY DEF SortedTo
  <2>2. QED
    BY <2>1
<1>2. ASSUME NEW k \in Nat, k \in S PROVE k + 1 \in S
  <2>. SUFFICES ASSUME k + 1 <= n PROVE Right(c[k + 1], k + 1)
    OBVIOUS
  <2>1. PICK r : r = c[k]
    OBVIOUS
  <2>2. r \in [1 .. n -> RowType] /\ ToSet(r) = ToSet(s) /\ OneEach(r) /\ SortedTo(K, r, k, n)
    BY <1>2, <2>1
  <2>3. PICK j \in k + 1 .. n : /\ c[k + 1] = Swapped(r, k + 1, j)
                                /\ \A h \in k + 1 .. n : ~(K[r[h]] < K[r[j]])
    BY <2>1, <2>2 DEF Selected
  <2>4. PICK i \in 1 .. n : i = k + 1 /\ j \in 1 .. n
    OBVIOUS
  <2>5. SortedTo(K, Swapped(r, k + 1, j), k + 1, n)
    BY <2>2, <2>3, SortedNext
  <2>6. /\ Swapped(r, i, j) \in [1 .. n -> RowType]
        /\ ToSet(Swapped(r, i, j)) = ToSet(r) /\ OneEach(Swapped(r, i, j))
    BY <2>2, <2>4, SwappedRows
  <2>7. c[k + 1] = Swapped(r, i, j) /\ SortedTo(K, Swapped(r, i, j), k + 1, n)
    BY <2>3, <2>4, <2>5
  <2>8. QED
    BY <2>2, <2>6, <2>7
<1>3. Right(c[n], n)
  <2>. HIDE DEF S
  <2>1. \A k \in Nat : k \in S
    BY <1>1, <1>2, NatSet
  <2>2. QED
    BY <2>1 DEF S
<1>4. QED
  BY <1>3

\* The numbers by which the two lists are sorted.
ByLanguage == [m \in RowType |-> Place(m.language)]
ByCode == [m \in RowType |-> -m.n["code"]]

LEMMA ByLanguageType ==
    /\ ByLanguage \in [RowType -> Int]
    /\ \A m, n \in RowType : Earlier(m, n) <=> ByLanguage[m] < ByLanguage[n]
    /\ \A m, n \in RowType : ByLanguage[m] = ByLanguage[n] => m.language = n.language
<1>1. ASSUME NEW m \in RowType
      PROVE  /\ m.language \in Languages /\ ByLanguage[m] = Place(m.language)
             /\ ByLanguage[m] \in Int /\ Alphabet[ByLanguage[m]] = m.language
  <2>1. m.language \in Languages
    BY DEF RowType
  <2>2. ByLanguage[m] = Place(m.language)
    BY DEF ByLanguage
  <2>3. QED
    BY <2>1, <2>2, PlaceType
<1>2. ByLanguage \in [RowType -> Int]
  BY <1>1 DEF ByLanguage
<1>3. QED
  BY <1>1, <1>2 DEF Earlier

LEMMA ByCodeType ==
    /\ ByCode \in [RowType -> Int]
    /\ \A m, n \in RowType : MoreCode(m, n) <=> ByCode[m] < ByCode[n]
<1>1. ASSUME NEW m \in RowType
      PROVE  m.n["code"] \in Nat /\ ByCode[m] = -m.n["code"] /\ ByCode[m] \in Int
  <2>1. m.n \in [L!LocFields -> Nat] /\ "code" \in L!LocFields
    BY DEF RowType, L!LocFields
  <2>2. m.n["code"] \in Nat
    BY <2>1
  <2>3. QED
    BY <2>2 DEF ByCode
<1>2. ByCode \in [RowType -> Int]
  BY <1>1 DEF ByCode
<1>3. QED
  BY <1>1, <1>2 DEF MoreCode

LEMMA EarlierFound ==
  ASSUME NEW n \in Nat, NEW r \in [1 .. n -> RowType], NEW i \in 1 .. n
  PROVE  /\ Len(r) = n /\ Foremost(r, i, Earlier) \in i .. n
         /\ \A h \in i .. n : ~(ByLanguage[r[h]] < ByLanguage[r[Foremost(r, i, Earlier)]])
<1>1. Len(r) = n
  OBVIOUS
<1>2. PICK key : key = [h \in 1 .. n |-> ByLanguage[r[h]]]
  OBVIOUS
<1>3. \A h \in 1 .. n : r[h] \in RowType /\ key[h] = ByLanguage[r[h]] /\ key[h] \in Int
  BY <1>2, ByLanguageType
<1>4. PICK j \in i .. n : /\ \A h \in i .. n : ~(key[h] < key[j])
                          /\ \A h \in i .. j - 1 : key[j] < key[h]
  BY <1>3, FirstSmallest
<1>5. \A g \in 1 .. n, h \in 1 .. n : Earlier(r[g], r[h]) <=> key[g] < key[h]
  BY <1>3, ByLanguageType
<1>6. j \in 1 .. n /\ (\A h \in i .. n : h \in 1 .. n) /\ \A h \in i .. j - 1 : h \in 1 .. n
  OBVIOUS
<1>7. /\ \A h \in i .. n : ~Earlier(r[h], r[j])
      /\ \A h \in i .. j - 1 : Earlier(r[j], r[h])
  BY <1>4, <1>5, <1>6
<1>8. PICK f : f = Foremost(r, i, Earlier)
  OBVIOUS
<1>9. f \in i .. n /\ \A h \in i .. n : ~Earlier(r[h], r[f])
  BY <1>1, <1>7, <1>8 DEF Foremost
<1>10. \A h \in i .. n : ~(key[h] < key[f])
  BY <1>5, <1>9
<1>11. QED
  BY <1>1, <1>3, <1>8, <1>9, <1>10

LEMMA EarlierSteps ==
  ASSUME NEW s \in Seq(RowType)
  PROVE  \E c : /\ c[0] = s /\ c[Len(s)] = SelectionSort(s, Earlier)
                /\ \A k \in Nat : k + 1 <= Len(s) =>
                     c[k + 1] = Swapped(c[k], k + 1, Foremost(c[k], k + 1, Earlier))
<1>. DEFINE n == Len(s)
            A == [1 .. n -> RowType]
            G == [r \in A |-> [i \in 1 .. n |-> Swapped(r, i, Foremost(r, i, Earlier))]]
            q == [i \in DOMAIN s |-> i]
            T == CHOOSE t : t = [S \in SUBSET DOMAIN q |->
                   IF S = {} THEN s
                   ELSE Swapped(t[S \ {Greatest(S)}], q[Greatest(S)],
                                Foremost(t[S \ {Greatest(S)}], q[Greatest(S)], Earlier))]
            c == [k \in 0 .. n |-> T[1 .. k]]
<1>1. /\ n \in Nat /\ DOMAIN s = 1 .. n /\ s \in A /\ DOMAIN q = 1 .. n
      /\ \A i \in 1 .. n : q[i] = i
  OBVIOUS
<1>2. SelectionSort(s, Earlier) = T[DOMAIN q]
  BY DEF SelectionSort, FoldLeft, MapThenFoldSet, Max, Greatest
<1>3. \A r \in A, i \in 1 .. n :
        /\ Swapped(r, i, Foremost(r, i, Earlier)) \in A
        /\ G[r][i] = Swapped(r, i, Foremost(r, i, Earlier))
  <2>1. \A r \in A, i \in 1 .. n : Foremost(r, i, Earlier) \in 1 .. n
    <3>. SUFFICES ASSUME NEW r \in A, NEW i \in 1 .. n
                  PROVE  Foremost(r, i, Earlier) \in 1 .. n
      OBVIOUS
    <3>1. Foremost(r, i, Earlier) \in i .. n
      BY <1>1, EarlierFound
    <3>2. QED
      BY <1>1, <3>1
  <2>2. QED
    BY <1>1, <2>1, SwappedRows
<1>4. G \in [A -> [1 .. n -> A]]
  BY <1>3
<1>. HIDE DEF G, A, n, q
<1>5. PICK u \in [SUBSET (1 .. n) -> A] : Steps(u, G, s, n)
  BY <1>1, <1>4, StepsExist
<1>6. u = [S \in SUBSET DOMAIN q |->
             IF S = {} THEN s
             ELSE Swapped(u[S \ {Greatest(S)}], q[Greatest(S)],
                          Foremost(u[S \ {Greatest(S)}], q[Greatest(S)], Earlier))]
  <2>1. ASSUME NEW S \in SUBSET (1 .. n), S # {}
        PROVE  /\ u[S \ {Greatest(S)}] \in A
               /\ Greatest(S) \in 1 .. n
    <3>1. Greatest(S) \in 1 .. n
      BY <1>1, <2>1, GreatestIn
    <3>2. S \ {Greatest(S)} \in SUBSET (1 .. n)
      OBVIOUS
    <3>3. QED
      BY <3>1, <3>2
  <2>2. u = [S \in SUBSET (1 .. n) |->
               IF S = {} THEN s ELSE G[u[S \ {Greatest(S)}]][Greatest(S)]]
    BY <1>5 DEF Steps
  <2>3. ASSUME NEW S \in SUBSET (1 .. n)
        PROVE  u[S] = IF S = {} THEN s
             ELSE Swapped(u[S \ {Greatest(S)}], q[Greatest(S)],
                          Foremost(u[S \ {Greatest(S)}], q[Greatest(S)], Earlier))
    BY <1>1, <1>3, <2>1, <2>2
  <2>4. QED
    BY <1>1, <2>2, <2>3
<1>7. T = [S \in SUBSET DOMAIN q |->
             IF S = {} THEN s
             ELSE Swapped(T[S \ {Greatest(S)}], q[Greatest(S)],
                          Foremost(T[S \ {Greatest(S)}], q[Greatest(S)], Earlier))]
  BY <1>6
<1>. HIDE DEF T
<1>8. \A k \in 0 .. n : c[k] = T[1 .. k]
  OBVIOUS
<1>9. c[0] = s
  <2>1. 1 .. 0 = {} /\ {} \in SUBSET (1 .. n) /\ 0 \in 0 .. n
    BY <1>1
  <2>2. QED
    BY <1>1, <1>7, <1>8, <2>1
<1>. HIDE DEF c
<1>10. ASSUME NEW k \in Nat, k + 1 <= n
       PROVE  c[k + 1] = Swapped(c[k], k + 1, Foremost(c[k], k + 1, Earlier))
  <2>1. PICK S, i : S = 1 .. k + 1 /\ i = k + 1
    OBVIOUS
  <2>2. S \in SUBSET (1 .. n) /\ S # {} /\ i \in 1 .. n /\ S \ {i} = 1 .. k
    <3>1. i \in S /\ i \in 1 .. n
      BY <1>1, <1>10, <2>1
    <3>2. \A h : h \in 1 .. k <=> h \in 1 .. k + 1 /\ h # k + 1
      OBVIOUS
    <3>3. \A h \in 1 .. k + 1 : h \in 1 .. n
      BY <1>1, <1>10
    <3>4. QED
      BY <2>1, <3>1, <3>2, <3>3
  <2>3. Greatest(S) = i
    BY <2>1, GreatestOf
  <2>4. q[i] = i
    BY <1>1, <2>2
  <2>5. T[S] = Swapped(T[S \ {i}], i, Foremost(T[S \ {i}], i, Earlier))
    <3>1. T[S] = Swapped(T[S \ {Greatest(S)}], q[Greatest(S)],
                         Foremost(T[S \ {Greatest(S)}], q[Greatest(S)], Earlier))
      BY <1>1, <1>7, <2>2
    <3>2. QED
      BY <2>3, <2>4, <3>1
  <2>6. c[i] = T[S] /\ c[k] = T[S \ {i}]
    <3>1. k \in 0 .. n /\ i \in 0 .. n
      BY <1>1, <1>10, <2>1
    <3>2. QED
      BY <1>8, <2>1, <2>2, <3>1
  <2>7. c[i] = Swapped(c[k], i, Foremost(c[k], i, Earlier))
    BY <2>5, <2>6
  <2>8. QED
    BY <2>1, <2>7
<1>11. c[n] = SelectionSort(s, Earlier)
  BY <1>1, <1>2, <1>8
<1>12. QED
  BY <1>9, <1>10, <1>11 DEF n

\* The rows of a list that has each language once, sorted: the same rows, one
\* language after the other,
LEMMA SortedByLanguage ==
  ASSUME NEW s \in Seq(RowType), OneEach(s)
  PROVE  LET r == SelectionSort(s, Earlier)
         IN  /\ r \in Seq(RowType) /\ Len(r) = Len(s) /\ ToSet(r) = ToSet(s)
             /\ OneEach(r)
             /\ \A i, j \in DOMAIN r : i < j => Earlier(r[i], r[j])
<1>1. PICK n \in Nat : n = Len(s) /\ s \in [1 .. n -> RowType]
  OBVIOUS
<1>2. PICK c : /\ c[0] = s /\ c[n] = SelectionSort(s, Earlier)
               /\ \A k \in Nat : k + 1 <= n =>
                    c[k + 1] = Swapped(c[k], k + 1, Foremost(c[k], k + 1, Earlier))
  BY <1>1, EarlierSteps
<1>3. ASSUME NEW k \in Nat, k + 1 <= n, c[k] \in [1 .. n -> RowType]
      PROVE  \E j \in k + 1 .. n : /\ c[k + 1] = Swapped(c[k], k + 1, j)
                                   /\ \A h \in k + 1 .. n : ~(ByLanguage[c[k][h]] < ByLanguage[c[k][j]])
  <2>1. PICK i \in 1 .. n : i = k + 1
    BY <1>3
  <2>2. PICK r : r = c[k]
    OBVIOUS
  <2>3. PICK j : j = Foremost(r, i, Earlier)
    OBVIOUS
  <2>4. /\ Foremost(r, i, Earlier) \in i .. n
        /\ \A h \in i .. n : ~(ByLanguage[r[h]] < ByLanguage[r[Foremost(r, i, Earlier)]])
    BY <1>3, <2>2, EarlierFound
  <2>5. j \in i .. n /\ \A h \in i .. n : ~(ByLanguage[r[h]] < ByLanguage[r[j]])
    BY <2>3, <2>4
  <2>6. c[k + 1] = Swapped(r, i, j)
    BY <1>2, <1>3, <2>1, <2>2, <2>3
  <2>7. QED
    BY <2>1, <2>2, <2>5, <2>6
<1>4. PICK r : r = SelectionSort(s, Earlier)
  OBVIOUS
<1>5. ByLanguage \in [RowType -> Int]
  BY ByLanguageType
<1>6. /\ c[n] \in Seq(RowType) /\ Len(c[n]) = n /\ ToSet(c[n]) = ToSet(s)
      /\ OneEach(c[n]) /\ SortedTo(ByLanguage, c[n], n, n)
  <2>1. Selected(ByLanguage, c, n)
    BY <1>3 DEF Selected
  <2>2. \A m \in RowType : ByLanguage[m] \in Int
    BY <1>5
  <2>3. QED
    BY <1>1, <1>2, <2>1, <2>2, SortedSteps
<1>7. /\ r \in Seq(RowType) /\ Len(r) = n /\ ToSet(r) = ToSet(s)
      /\ OneEach(r) /\ SortedTo(ByLanguage, r, n, n)
  BY <1>2, <1>4, <1>6
<1>8. ASSUME NEW i \in DOMAIN r, NEW j \in DOMAIN r, i < j
      PROVE  Earlier(r[i], r[j])
  <2>1. i \in 1 .. n /\ j \in 1 .. n /\ r[i] \in RowType /\ r[j] \in RowType
    BY <1>7
  <2>2. ByLanguage[r[i]] <= ByLanguage[r[j]]
    BY <1>7, <1>8, <2>1 DEF SortedTo
  <2>3. r[i].language # r[j].language
    BY <1>7, <1>8 DEF OneEach
  <2>4. /\ ByLanguage[r[i]] # ByLanguage[r[j]]
        /\ ByLanguage[r[i]] \in Int /\ ByLanguage[r[j]] \in Int
    BY <1>5, <2>1, <2>3, ByLanguageType
  <2>5. QED
    BY <2>1, <2>2, <2>4, ByLanguageType
<1>9. QED
  BY <1>1, <1>4, <1>7, <1>8

LEMMA MoreCodeFound ==
  ASSUME NEW n \in Nat, NEW r \in [1 .. n -> RowType], NEW i \in 1 .. n
  PROVE  /\ Len(r) = n /\ Foremost(r, i, MoreCode) \in i .. n
         /\ \A h \in i .. n : ~(ByCode[r[h]] < ByCode[r[Foremost(r, i, MoreCode)]])
<1>1. Len(r) = n
  OBVIOUS
<1>2. PICK key : key = [h \in 1 .. n |-> ByCode[r[h]]]
  OBVIOUS
<1>3. \A h \in 1 .. n : r[h] \in RowType /\ key[h] = ByCode[r[h]] /\ key[h] \in Int
  BY <1>2, ByCodeType
<1>4. PICK j \in i .. n : /\ \A h \in i .. n : ~(key[h] < key[j])
                          /\ \A h \in i .. j - 1 : key[j] < key[h]
  BY <1>3, FirstSmallest
<1>5. \A g \in 1 .. n, h \in 1 .. n : MoreCode(r[g], r[h]) <=> key[g] < key[h]
  BY <1>3, ByCodeType
<1>6. j \in 1 .. n /\ (\A h \in i .. n : h \in 1 .. n) /\ \A h \in i .. j - 1 : h \in 1 .. n
  OBVIOUS
<1>7. /\ \A h \in i .. n : ~MoreCode(r[h], r[j])
      /\ \A h \in i .. j - 1 : MoreCode(r[j], r[h])
  BY <1>4, <1>5, <1>6
<1>8. PICK f : f = Foremost(r, i, MoreCode)
  OBVIOUS
<1>9. f \in i .. n /\ \A h \in i .. n : ~MoreCode(r[h], r[f])
  BY <1>1, <1>7, <1>8 DEF Foremost
<1>10. \A h \in i .. n : ~(key[h] < key[f])
  BY <1>5, <1>9
<1>11. QED
  BY <1>1, <1>3, <1>8, <1>9, <1>10

LEMMA MoreCodeSteps ==
  ASSUME NEW s \in Seq(RowType)
  PROVE  \E c : /\ c[0] = s /\ c[Len(s)] = SelectionSort(s, MoreCode)
                /\ \A k \in Nat : k + 1 <= Len(s) =>
                     c[k + 1] = Swapped(c[k], k + 1, Foremost(c[k], k + 1, MoreCode))
<1>. DEFINE n == Len(s)
            A == [1 .. n -> RowType]
            G == [r \in A |-> [i \in 1 .. n |-> Swapped(r, i, Foremost(r, i, MoreCode))]]
            q == [i \in DOMAIN s |-> i]
            T == CHOOSE t : t = [S \in SUBSET DOMAIN q |->
                   IF S = {} THEN s
                   ELSE Swapped(t[S \ {Greatest(S)}], q[Greatest(S)],
                                Foremost(t[S \ {Greatest(S)}], q[Greatest(S)], MoreCode))]
            c == [k \in 0 .. n |-> T[1 .. k]]
<1>1. /\ n \in Nat /\ DOMAIN s = 1 .. n /\ s \in A /\ DOMAIN q = 1 .. n
      /\ \A i \in 1 .. n : q[i] = i
  OBVIOUS
<1>2. SelectionSort(s, MoreCode) = T[DOMAIN q]
  BY DEF SelectionSort, FoldLeft, MapThenFoldSet, Max, Greatest
<1>3. \A r \in A, i \in 1 .. n :
        /\ Swapped(r, i, Foremost(r, i, MoreCode)) \in A
        /\ G[r][i] = Swapped(r, i, Foremost(r, i, MoreCode))
  <2>1. \A r \in A, i \in 1 .. n : Foremost(r, i, MoreCode) \in 1 .. n
    <3>. SUFFICES ASSUME NEW r \in A, NEW i \in 1 .. n
                  PROVE  Foremost(r, i, MoreCode) \in 1 .. n
      OBVIOUS
    <3>1. Foremost(r, i, MoreCode) \in i .. n
      BY <1>1, MoreCodeFound
    <3>2. QED
      BY <1>1, <3>1
  <2>2. QED
    BY <1>1, <2>1, SwappedRows
<1>4. G \in [A -> [1 .. n -> A]]
  BY <1>3
<1>. HIDE DEF G, A, n, q
<1>5. PICK u \in [SUBSET (1 .. n) -> A] : Steps(u, G, s, n)
  BY <1>1, <1>4, StepsExist
<1>6. u = [S \in SUBSET DOMAIN q |->
             IF S = {} THEN s
             ELSE Swapped(u[S \ {Greatest(S)}], q[Greatest(S)],
                          Foremost(u[S \ {Greatest(S)}], q[Greatest(S)], MoreCode))]
  <2>1. ASSUME NEW S \in SUBSET (1 .. n), S # {}
        PROVE  /\ u[S \ {Greatest(S)}] \in A
               /\ Greatest(S) \in 1 .. n
    <3>1. Greatest(S) \in 1 .. n
      BY <1>1, <2>1, GreatestIn
    <3>2. S \ {Greatest(S)} \in SUBSET (1 .. n)
      OBVIOUS
    <3>3. QED
      BY <3>1, <3>2
  <2>2. u = [S \in SUBSET (1 .. n) |->
               IF S = {} THEN s ELSE G[u[S \ {Greatest(S)}]][Greatest(S)]]
    BY <1>5 DEF Steps
  <2>3. ASSUME NEW S \in SUBSET (1 .. n)
        PROVE  u[S] = IF S = {} THEN s
             ELSE Swapped(u[S \ {Greatest(S)}], q[Greatest(S)],
                          Foremost(u[S \ {Greatest(S)}], q[Greatest(S)], MoreCode))
    BY <1>1, <1>3, <2>1, <2>2
  <2>4. QED
    BY <1>1, <2>2, <2>3
<1>7. T = [S \in SUBSET DOMAIN q |->
             IF S = {} THEN s
             ELSE Swapped(T[S \ {Greatest(S)}], q[Greatest(S)],
                          Foremost(T[S \ {Greatest(S)}], q[Greatest(S)], MoreCode))]
  BY <1>6
<1>. HIDE DEF T
<1>8. \A k \in 0 .. n : c[k] = T[1 .. k]
  OBVIOUS
<1>9. c[0] = s
  <2>1. 1 .. 0 = {} /\ {} \in SUBSET (1 .. n) /\ 0 \in 0 .. n
    BY <1>1
  <2>2. QED
    BY <1>1, <1>7, <1>8, <2>1
<1>. HIDE DEF c
<1>10. ASSUME NEW k \in Nat, k + 1 <= n
       PROVE  c[k + 1] = Swapped(c[k], k + 1, Foremost(c[k], k + 1, MoreCode))
  <2>1. PICK S, i : S = 1 .. k + 1 /\ i = k + 1
    OBVIOUS
  <2>2. S \in SUBSET (1 .. n) /\ S # {} /\ i \in 1 .. n /\ S \ {i} = 1 .. k
    <3>1. i \in S /\ i \in 1 .. n
      BY <1>1, <1>10, <2>1
    <3>2. \A h : h \in 1 .. k <=> h \in 1 .. k + 1 /\ h # k + 1
      OBVIOUS
    <3>3. \A h \in 1 .. k + 1 : h \in 1 .. n
      BY <1>1, <1>10
    <3>4. QED
      BY <2>1, <3>1, <3>2, <3>3
  <2>3. Greatest(S) = i
    BY <2>1, GreatestOf
  <2>4. q[i] = i
    BY <1>1, <2>2
  <2>5. T[S] = Swapped(T[S \ {i}], i, Foremost(T[S \ {i}], i, MoreCode))
    <3>1. T[S] = Swapped(T[S \ {Greatest(S)}], q[Greatest(S)],
                         Foremost(T[S \ {Greatest(S)}], q[Greatest(S)], MoreCode))
      BY <1>1, <1>7, <2>2
    <3>2. QED
      BY <2>3, <2>4, <3>1
  <2>6. c[i] = T[S] /\ c[k] = T[S \ {i}]
    <3>1. k \in 0 .. n /\ i \in 0 .. n
      BY <1>1, <1>10, <2>1
    <3>2. QED
      BY <1>8, <2>1, <2>2, <3>1
  <2>7. c[i] = Swapped(c[k], i, Foremost(c[k], i, MoreCode))
    BY <2>5, <2>6
  <2>8. QED
    BY <2>1, <2>7
<1>11. c[n] = SelectionSort(s, MoreCode)
  BY <1>1, <1>2, <1>8
<1>12. QED
  BY <1>9, <1>10, <1>11 DEF n

\* or none behind one with less code.
LEMMA SortedByCode ==
  ASSUME NEW s \in Seq(RowType), OneEach(s)
  PROVE  LET r == SelectionSort(s, MoreCode)
         IN  /\ r \in Seq(RowType) /\ Len(r) = Len(s) /\ ToSet(r) = ToSet(s)
             /\ OneEach(r)
             /\ \A i, j \in DOMAIN r : i < j => ~MoreCode(r[j], r[i])
<1>1. PICK n \in Nat : n = Len(s) /\ s \in [1 .. n -> RowType]
  OBVIOUS
<1>2. PICK c : /\ c[0] = s /\ c[n] = SelectionSort(s, MoreCode)
               /\ \A k \in Nat : k + 1 <= n =>
                    c[k + 1] = Swapped(c[k], k + 1, Foremost(c[k], k + 1, MoreCode))
  BY <1>1, MoreCodeSteps
<1>3. ASSUME NEW k \in Nat, k + 1 <= n, c[k] \in [1 .. n -> RowType]
      PROVE  \E j \in k + 1 .. n : /\ c[k + 1] = Swapped(c[k], k + 1, j)
                                   /\ \A h \in k + 1 .. n : ~(ByCode[c[k][h]] < ByCode[c[k][j]])
  <2>1. PICK i \in 1 .. n : i = k + 1
    BY <1>3
  <2>2. PICK r : r = c[k]
    OBVIOUS
  <2>3. PICK j : j = Foremost(r, i, MoreCode)
    OBVIOUS
  <2>4. /\ Foremost(r, i, MoreCode) \in i .. n
        /\ \A h \in i .. n : ~(ByCode[r[h]] < ByCode[r[Foremost(r, i, MoreCode)]])
    BY <1>3, <2>2, MoreCodeFound
  <2>5. j \in i .. n /\ \A h \in i .. n : ~(ByCode[r[h]] < ByCode[r[j]])
    BY <2>3, <2>4
  <2>6. c[k + 1] = Swapped(r, i, j)
    BY <1>2, <1>3, <2>1, <2>2, <2>3
  <2>7. QED
    BY <2>1, <2>2, <2>5, <2>6
<1>4. PICK r : r = SelectionSort(s, MoreCode)
  OBVIOUS
<1>5. ByCode \in [RowType -> Int]
  BY ByCodeType
<1>6. /\ c[n] \in Seq(RowType) /\ Len(c[n]) = n /\ ToSet(c[n]) = ToSet(s)
      /\ OneEach(c[n]) /\ SortedTo(ByCode, c[n], n, n)
  <2>1. Selected(ByCode, c, n)
    BY <1>3 DEF Selected
  <2>2. \A m \in RowType : ByCode[m] \in Int
    BY <1>5
  <2>3. QED
    BY <1>1, <1>2, <2>1, <2>2, SortedSteps
<1>7. /\ r \in Seq(RowType) /\ Len(r) = n /\ ToSet(r) = ToSet(s)
      /\ OneEach(r) /\ SortedTo(ByCode, r, n, n)
  BY <1>2, <1>4, <1>6
<1>8. ASSUME NEW i \in DOMAIN r, NEW j \in DOMAIN r, i < j
      PROVE  ~MoreCode(r[j], r[i])
  <2>1. i \in 1 .. n /\ j \in 1 .. n /\ r[i] \in RowType /\ r[j] \in RowType
    BY <1>7
  <2>2. ByCode[r[i]] <= ByCode[r[j]]
    BY <1>7, <1>8, <2>1 DEF SortedTo
  <2>3. ByCode[r[i]] \in Int /\ ByCode[r[j]] \in Int
    BY <1>5, <2>1
  <2>4. ~(ByCode[r[j]] < ByCode[r[i]])
    BY <2>2, <2>3
  <2>5. QED
    BY <2>1, <2>4, ByCodeType
<1>9. QED
  BY <1>1, <1>4, <1>7, <1>8
LEMMA SaidRows ==
  ASSUME NEW s \in Said
  PROVE  s \in Seq(RowType) /\ OneEach(s)
<1>1. CASE s = <<>>
  BY <1>1 DEF OneEach
<1>2. CASE s # <<>>
  <2>1. PICK p \in Paths : s = Has[p]
    BY <1>2 DEF Said
  <2>2. QED
    BY <2>1, CommandLineAssumption DEF RowType, OneEach
<1>3. QED
  BY <1>1, <1>2

\* One more item of a sequence.
LEMMA OneMore ==
  ASSUME NEW S, NEW s \in Seq(S), NEW i \in Nat, i < Len(s)
  PROVE  /\ Append(SubSeq(s, 1, i), s[i + 1]) = SubSeq(s, 1, i + 1)
         /\ Len(SubSeq(s, 1, i)) = i /\ SubSeq(s, 1, i) \in Seq(S)
         /\ \A h \in 1 .. i : SubSeq(s, 1, i)[h] = s[h]
<1>1. PICK t, u, k : t = SubSeq(s, 1, i) /\ u = SubSeq(s, 1, k) /\ k = i + 1
  OBVIOUS
<1>2. \A h \in 1 .. k : s[h] \in S
  BY <1>1
<1>3. /\ t \in Seq(S) /\ Len(t) = i /\ \A h \in 1 .. i : t[h] = s[h]
  <2>1. \A h \in 1 .. i : s[h] \in S
    BY <1>1, <1>2
  <2>2. /\ SubSeq(s, 1, i) \in Seq(S)
        /\ Len(SubSeq(s, 1, i)) = IF 1 <= i THEN i - 1 + 1 ELSE 0
        /\ \A h \in 1 .. i - 1 + 1 : SubSeq(s, 1, i)[h] = s[1 + h - 1]
    BY <2>1, SubSeqProperties
  <2>3. QED
    BY <1>1, <2>2
<1>4. /\ u \in Seq(S) /\ Len(u) = k /\ \A h \in 1 .. k : u[h] = s[h]
  <2>1. k \in Nat /\ 1 <= k
    BY <1>1
  <2>2. /\ SubSeq(s, 1, k) \in Seq(S)
        /\ Len(SubSeq(s, 1, k)) = IF 1 <= k THEN k - 1 + 1 ELSE 0
        /\ \A h \in 1 .. k - 1 + 1 : SubSeq(s, 1, k)[h] = s[1 + h - 1]
    BY <1>2, <2>1, SubSeqProperties
  <2>3. QED
    BY <1>1, <2>1, <2>2
<1>5. Append(t, s[k]) = u
  <2>1. s[k] \in S
    BY <1>1, <1>2
  <2>2. Append(t, s[k]) \in Seq(S) /\ Len(Append(t, s[k])) = k
    BY <1>1, <1>3, <2>1
  <2>3. \A h \in 1 .. k : Append(t, s[k])[h] = u[h]
    BY <1>1, <1>3, <1>4, <2>1
  <2>4. QED
    BY <1>4, <2>2, <2>3
<1>6. QED
  BY <1>1, <1>3, <1>5

\* What a file said when it was read: one row for a language.
LEMMA ReadRows ==
  ASSUME ReadInv, NEW k \in DOMAIN read
  PROVE  read[k] \in Seq(RowType) /\ OneEach(read[k])
<1>1. read[k] \in Said
  BY DEF ReadInv
<1>2. QED
  BY <1>1, SaidRows
-----------------------------------------------------------------------------
(* How far a command is that goes through the files and counts.            *)

\* No command yet.
Fresh ==
    /\ file = 1 /\ item = 0 /\ read = <<>> /\ out = <<>> /\ ended = FALSE
    /\ op = L!NoOp
    /\ \A k \in 0 .. MaxListed : lists[k] = <<>>

\* Of the file it is at the first languages are counted, and none of those
\* behind it.
FileByFile ==
    /\ file <= Len(list) + 1 /\ Len(read) <= Len(list)
    /\ Len(read) \in {file - 1, file}
    /\ Len(read) = file - 1 => item = 0
    /\ Len(read) = file => /\ item <= Len(read[file])
                           /\ lists[file] = SubSeq(read[file], 1, item)
    /\ \A k \in 1 .. MaxListed : k > Len(read) => lists[k] = <<>>
    /\ ended => file > Len(list)

\* summary adds the list of the file it is at to the sum.
AddsFile ==
    /\ command = "summary" /\ Counted
    /\ op.target = Sum /\ op.source = file /\ ~op.compact /\ op.at \in Nat \ {0}

CountingInv ==
    /\ DOMAIN lists = 0 .. MaxListed
    /\ command = NULL => Fresh
    /\ Counting => FileByFile
    /\ op # L!NoOp => AddsFile

LEMMA CountingInit == CLInit => CountingInv
<1>. SUFFICES ASSUME CLInit PROVE CountingInv
  OBVIOUS
<1>1. command = NULL /\ ~Counting
  BY DEF CLInit, NULL, Counting
<1>2. Fresh /\ DOMAIN lists = 0 .. MaxListed /\ op = L!NoOp
  BY DEF CLInit, Fresh
<1>3. QED
  BY <1>1, <1>2 DEF CountingInv

LEMMA CountingStart == ReadInv /\ CountingInv /\ Start => CountingInv'
<1>. SUFFICES ASSUME ReadInv, CountingInv, Start PROVE CountingInv'
  OBVIOUS
<1>1. /\ command' # NULL /\ Fresh /\ DOMAIN lists' = 0 .. MaxListed
  BY CommandLineAssumption DEF Start, CountingInv, locVars, NULL, Commands
<1>2. /\ file' = 1 /\ item' = 0 /\ read' = <<>> /\ op' = L!NoOp
      /\ ended' = FALSE /\ lists' = lists /\ list' = list
  BY <1>1 DEF Fresh, Start, locVars, listVars
<1>3. Len(list') \in Nat
  BY <1>2 DEF ReadInv, Start
<1>4. FileByFile'
  <2>1. \A k \in 1 .. MaxListed : lists'[k] = <<>>
    BY <1>1, <1>2, CommandLineAssumption DEF Fresh
  <2>2. Len(read') = 0
    BY <1>2
  <2>3. QED
    BY <1>2, <1>3, <2>1, <2>2 DEF FileByFile
<1>5. QED
  BY <1>1, <1>2, <1>4 DEF CountingInv

\* Now the command knows what the file says.
LEMMA FileRead ==
  ASSUME WalkInv, ReadInv, CountingInv, ParseFile
  PROVE  /\ Len(read) = file - 1 /\ Len(read') = file /\ read'[file] \in Said
         /\ \A k \in 1 .. file - 1 : read'[k] = read[k]
<1>1. FileByFile /\ file <= Len(list) /\ Len(read) < file
  BY DEF ParseFile, CountingInv
<1>2. PICK c : c = Contents(list[file].path)
  OBVIOUS
<1>3. c \in Said
  <2>1. file \in DOMAIN list
    BY <1>1 DEF ReadInv, WalkInv, ListTypeOK
  <2>2. QED
    BY <1>2, <2>1, ContentsSaid DEF WalkInv
<1>4. Len(read) = file - 1 /\ file \in Nat \ {0}
  BY <1>1 DEF FileByFile, ReadInv
<1>5. read \in Seq(Said) /\ read' = Append(read, c)
  BY <1>2 DEF ParseFile, ReadInv
<1>6. PICK r : r = Append(read, c)
  OBVIOUS
<1>7. Len(r) = Len(read) + 1 /\ r[Len(read) + 1] = c
  BY <1>3, <1>5, <1>6
<1>8. \A k \in 1 .. Len(read) : r[k] = read[k]
  BY <1>3, <1>5, <1>6
<1>9. Len(read) + 1 = file
  BY <1>4
<1>10. QED
  BY <1>3, <1>4, <1>5, <1>6, <1>7, <1>8, <1>9

LEMMA CountingParse == WalkInv /\ ReadInv /\ CountingInv /\ ParseFile => CountingInv'
<1>. SUFFICES ASSUME WalkInv, ReadInv, CountingInv, ParseFile PROVE CountingInv'
  OBVIOUS
<1>1. /\ command' = command /\ command \in {"summary", "individual"}
      /\ lists' = lists /\ list' = list
      /\ op' = op /\ file' = file /\ item' = item /\ ended' = ended
      /\ file <= Len(list) /\ Len(read) < file /\ command' # NULL
  BY DEF ParseFile, locVars, listVars, Counting, NULL
<1>2. FileByFile /\ DOMAIN lists' = 0 .. MaxListed
  BY <1>1 DEF CountingInv, Counting
<1>3. PICK c \in Said : c = read'[file]
  BY FileRead
<1>4. /\ Len(read) = file - 1 /\ Len(read') = file /\ file \in Nat \ {0} /\ item = 0
  BY <1>2, FileRead DEF ReadInv, FileByFile
<1>5. item' <= Len(read'[file']) /\ lists'[file'] = SubSeq(read'[file'], 1, item')
  <2>1. c \in Seq(RowType)
    BY <1>3, SaidRows
  <2>2. Len(c) \in Nat
    BY <2>1
  <2>3. file \in 1 .. MaxListed /\ file > Len(read)
    BY <1>1, <1>4, CommandLineAssumption DEF ReadInv
  <2>4. lists[file] = <<>>
    BY <1>2, <2>3 DEF FileByFile
  <2>5. SubSeq(c, 1, 0) = <<>>
    BY <2>1, SubSeqEmpty
  <2>6. QED
    BY <1>1, <1>3, <1>4, <2>2, <2>4, <2>5
<1>6. \A k \in 1 .. MaxListed : k > Len(read)' => lists'[k] = <<>>
  <2>1. \A k \in 1 .. MaxListed : k > file => k > Len(read)
    BY <1>4
  <2>2. QED
    BY <1>1, <1>2, <1>4, <2>1 DEF FileByFile
<1>7. /\ file' <= Len(list') + 1 /\ Len(read') <= Len(list')
      /\ Len(read') \in {file' - 1, file'} /\ Len(read') # file' - 1
      /\ ended' => file' > Len(list')
  BY <1>1, <1>2, <1>4 DEF FileByFile
<1>8. FileByFile'
  BY <1>5, <1>6, <1>7 DEF FileByFile
<1>9. op' = L!NoOp
  BY <1>1, <1>4 DEF CountingInv, AddsFile, Counted
<1>10. QED
  BY <1>1, <1>2, <1>8, <1>9 DEF CountingInv

\* The next language of a file is none of those counted before it.
LEMMA CountingCount == ReadInv /\ CountingInv /\ CountLanguage => CountingInv'
<1>. SUFFICES ASSUME ReadInv, CountingInv, CountLanguage PROVE CountingInv'
  OBVIOUS
<1>1. /\ command' = command /\ command \in {"summary", "individual"}
      /\ list' = list /\ read' = read
      /\ file' = file /\ item' = item + 1 /\ ended' = ended
      /\ file <= Len(list) /\ Len(read) = file /\ item < Len(read[file])
      /\ command # NULL /\ command' # NULL
  BY DEF CountLanguage, listVars, Counting, NULL
<1>2. PICK s, l, n : s = read[file] /\ l = s[item + 1].language /\ n = s[item + 1].n
  OBVIOUS
<1>3. /\ op' = op /\ op = L!NoOp
      /\ lists' = [lists EXCEPT ![file] = L!AddLoc(lists[file], [language |-> l, n |-> n])]
  BY <1>2 DEF CountLanguage, L!AddOne, L!Add, L!Call
<1>4. DOMAIN lists' = 0 .. MaxListed /\ FileByFile
  BY <1>1, <1>3 DEF CountingInv, Counting
<1>5. /\ file \in Nat \ {0} /\ item \in Nat /\ file \in DOMAIN read
      /\ file \in 1 .. MaxListed
  BY <1>1, CommandLineAssumption DEF ReadInv
<1>6. s \in Seq(RowType) /\ OneEach(s)
  BY <1>2, <1>5, ReadRows
<1>7. PICK t, k : t = SubSeq(s, 1, item) /\ k = item + 1
  OBVIOUS
<1>8. lists[file] = t
  BY <1>1, <1>2, <1>4, <1>7 DEF FileByFile
<1>9. /\ Append(t, s[k]) = SubSeq(s, 1, k) /\ Len(t) = item /\ t \in Seq(RowType)
      /\ \A h \in 1 .. item : t[h] = s[h]
  BY <1>1, <1>2, <1>5, <1>6, <1>7, OneMore
<1>10. k \in 1 .. Len(s) /\ DOMAIN s = 1 .. Len(s)
  BY <1>1, <1>2, <1>5, <1>6, <1>7
<1>11. [language |-> l, n |-> n] = s[k]
  <2>1. s[k] \in RowType
    BY <1>6, <1>10
  <2>2. l = s[k].language /\ n = s[k].n
    BY <1>2, <1>7
  <2>3. QED
    BY <2>1, <2>2 DEF RowType
<1>12. L!At(t, l) = {}
  <2>1. SUFFICES ASSUME NEW h \in DOMAIN t, t[h].language = l PROVE FALSE
    BY DEF L!At
  <2>2. h \in 1 .. item /\ h \in DOMAIN s /\ h # k /\ k \in DOMAIN s
    BY <1>1, <1>2, <1>5, <1>7, <1>9, <1>10
  <2>3. s[h].language = s[k].language
    BY <1>2, <1>7, <1>9, <2>1, <2>2
  <2>4. QED
    BY <1>6, <2>2, <2>3 DEF OneEach
<1>13. L!AddLoc(t, [language |-> l, n |-> n]) = Append(t, s[k])
  <2>1. PICK loc : loc = [language |-> l, n |-> n]
    OBVIOUS
  <2>2. loc.language = l
    BY <2>1
  <2>3. L!AddLoc(t, loc) = Append(t, loc)
    BY <1>12, <2>2 DEF L!AddLoc
  <2>4. QED
    BY <1>11, <2>1, <2>3
<1>14. lists'[file] = SubSeq(s, 1, k)
  BY <1>3, <1>4, <1>5, <1>8, <1>9, <1>13
<1>15. \A h \in 1 .. MaxListed : h > file => lists'[h] = <<>>
  BY <1>1, <1>3, <1>4, <1>5 DEF FileByFile
<1>16. item' <= Len(read'[file']) /\ lists'[file'] = SubSeq(read'[file'], 1, item')
  BY <1>1, <1>2, <1>7, <1>10, <1>14
<1>17. /\ file' <= Len(list') + 1 /\ Len(read') <= Len(list')
       /\ Len(read') \in {file' - 1, file'} /\ Len(read') # file' - 1
       /\ ended' => file' > Len(list')
  BY <1>1, <1>4, <1>5 DEF FileByFile
<1>18. \A h \in 1 .. MaxListed : h > Len(read)' => lists'[h] = <<>>
  BY <1>1, <1>15
<1>19. FileByFile'
  BY <1>16, <1>17, <1>18 DEF FileByFile
<1>20. QED
  BY <1>1, <1>3, <1>4, <1>19 DEF CountingInv

\* The command goes to the next file.
LEMMA CountingNext ==
  ASSUME ReadInv, CountingInv, Counting, Counted, NextFile,
         command' = command, read' = read, list' = list, lists' = lists,
         ended' = ended, op' = L!NoOp
  PROVE  CountingInv'
<1>1. /\ file <= Len(list) /\ Len(read) = file /\ file' = file + 1 /\ item' = 0
      /\ command # NULL /\ file \in Nat \ {0} /\ FileByFile /\ DOMAIN lists = 0 .. MaxListed
  BY DEF Counted, NextFile, Counting, NULL, ReadInv, CountingInv
<1>2. Len(list) \in Nat
  BY DEF ReadInv, Counting, NULL
<1>3. file' <= Len(list') + 1 /\ Len(read') <= Len(list')
  BY <1>1, <1>2
<1>4. Len(read') = file' - 1 /\ Len(read') # file'
  BY <1>1
<1>5. ~ended'
  BY <1>1, <1>2 DEF FileByFile
<1>6. \A k \in 1 .. MaxListed : k > Len(read)' => lists'[k] = <<>>
  BY <1>1 DEF FileByFile
<1>7. FileByFile'
  BY <1>1, <1>3, <1>4, <1>5, <1>6 DEF FileByFile
<1>8. QED
  BY <1>1, <1>7 DEF CountingInv

\* An item of the file's list is added to that of the sum.
LEMMA ItemOfFile ==
  ASSUME CountingInv, AnalyzeItem
  PROVE  /\ AddsFile /\ op.at <= Len(lists[file])
         /\ lists' = [lists EXCEPT ![Sum] = L!AddLoc(lists[Sum], lists[file][op.at])]
         /\ op' = [op EXCEPT !.at = op.at + 1]
<1>1. op # L!NoOp /\ op.at <= Len(lists[op.source])
  BY DEF AnalyzeItem, L!NextItem
<1>2. AddsFile
  BY <1>1 DEF CountingInv
<1>3. PICK x : x = lists[file][op.at]
  OBVIOUS
<1>4. lists' = [lists EXCEPT ![Sum] = L!Add(lists[Sum], x)]
  BY <1>2, <1>3 DEF AnalyzeItem, L!NextItem, AddsFile
<1>5. QED
  BY <1>1, <1>2, <1>3, <1>4 DEF AnalyzeItem, L!NextItem, AddsFile, L!Add

LEMMA CountingItem == ReadInv /\ CountingInv /\ AnalyzeItem => CountingInv'
<1>. SUFFICES ASSUME ReadInv, CountingInv, AnalyzeItem PROVE CountingInv'
  OBVIOUS
<1>1. /\ command' = command /\ list' = list /\ read' = read
      /\ file' = file /\ item' = item /\ ended' = ended
  BY DEF AnalyzeItem, listVars
<1>2. /\ AddsFile /\ op' = [op EXCEPT !.at = op.at + 1]
      /\ DOMAIN lists' = 0 .. MaxListed
      /\ \A k \in 1 .. MaxListed : lists'[k] = lists[k]
  <2>1. PICK x : x = L!AddLoc(lists[Sum], lists[file][op.at])
    OBVIOUS
  <2>2. lists' = [lists EXCEPT ![Sum] = x]
    BY <2>1, ItemOfFile
  <2>3. DOMAIN lists = 0 .. MaxListed /\ \A k \in 1 .. MaxListed : k \in DOMAIN lists /\ k # Sum
    BY CommandLineAssumption DEF CountingInv, Sum
  <2>4. AddsFile /\ op' = [op EXCEPT !.at = op.at + 1]
    BY ItemOfFile
  <2>5. QED
    BY <2>2, <2>3, <2>4
<1>3. op.target = Sum /\ op.source = file /\ ~op.compact /\ op.at \in Nat \ {0}
      /\ Counted /\ command = "summary"
  BY <1>2 DEF AddsFile
<1>4. op'.target = Sum /\ op'.source = file /\ ~op'.compact /\ op'.at \in Nat \ {0}
  BY <1>2, <1>3
<1>5. FileByFile /\ command # NULL
  BY <1>3 DEF CountingInv, Counting, NULL
<1>6. file \in 1 .. MaxListed
  BY <1>3, <1>5, CommandLineAssumption DEF Counted, ReadInv
<1>7. /\ FileByFile' /\ Counted'
  <2>1. lists'[file'] = lists[file] /\ read'[file'] = read[file]
    BY <1>1, <1>2, <1>6
  <2>2. \A k \in 1 .. MaxListed : k > Len(read)' => lists'[k] = <<>>
    BY <1>1, <1>2, <1>5 DEF FileByFile
  <2>3. QED
    BY <1>1, <1>3, <1>5, <2>1, <2>2 DEF FileByFile, Counted
<1>8. AddsFile'
  BY <1>1, <1>3, <1>4, <1>7 DEF AddsFile
<1>9. QED
  BY <1>1, <1>2, <1>5, <1>7, <1>8 DEF CountingInv

\* Nothing a command counts changes.
LEMMA CountingStays ==
  ASSUME CountingInv, command # NULL, command' = command, list' = list, read' = read,
         lists' = lists, file' = file, item' = item, op' = op,
         ended' = ended \/ (Counting => file > Len(list))
  PROVE  CountingInv'
<1>1. DOMAIN lists' = 0 .. MaxListed /\ command' # NULL
  BY DEF CountingInv, NULL
<1>2. lists'[file'] = lists[file] /\ read'[file'] = read[file]
  OBVIOUS
<1>3. ASSUME Counting PROVE FileByFile'
  <2>1. FileByFile
    BY <1>3 DEF CountingInv
  <2>2. ended' => file' > Len(list')
    BY <1>3, <2>1 DEF FileByFile
  <2>3. QED
    BY <1>2, <2>1, <2>2 DEF FileByFile
<1>4. ASSUME op' # L!NoOp PROVE AddsFile'
  <2>1. AddsFile
    BY <1>4 DEF CountingInv
  <2>2. QED
    BY <1>2, <2>1 DEF AddsFile, Counted
<1>5. QED
  BY <1>1, <1>3, <1>4 DEF CountingInv, Counting

LEMMA CountingStep == WalkInv /\ ReadInv /\ CountingInv /\ [CLNext]_clAll => CountingInv'
<1>. SUFFICES ASSUME WalkInv, ReadInv, CountingInv, [CLNext]_clAll PROVE CountingInv'
  OBVIOUS
<1>0. ASSUME UNCHANGED clVars, command = NULL \/ UNCHANGED list PROVE CountingInv'
  <2>1. /\ command' = command /\ out' = out /\ lists' = lists /\ read' = read
        /\ file' = file /\ item' = item /\ op' = op /\ ended' = ended
    BY <1>0 DEF clVars, locVars
  <2>2. CASE command = NULL
    <3>1. Fresh' /\ op' = L!NoOp /\ ~Counting'
      BY <2>1, <2>2 DEF CountingInv, Fresh, NULL, Counting
    <3>2. QED
      BY <2>1, <3>1 DEF CountingInv
  <2>3. CASE command # NULL
    BY <1>0, <2>1, <2>3, CountingStays
  <2>4. QED
    BY <2>2, <2>3
<1>1. CASE ListStep /\ UNCHANGED clVars
  <2>1. command = NULL
    BY <1>1, ListDone DEF ReadInv
  <2>2. QED
    BY <1>0, <1>1, <2>1
<1>2. CASE (\E p \in Paths, k \in Kinds : Change(p, k)) /\ UNCHANGED clVars
  <2>1. UNCHANGED list
    BY <1>2 DEF Change
  <2>2. QED
    BY <1>0, <1>2, <2>1
<1>3. CASE Start
  BY <1>3, CountingStart
<1>4. CASE ParseFile
  BY <1>4, CountingParse
<1>5. CASE CountLanguage
  BY <1>5, CountingCount
<1>6. CASE AnalyzeFile
  <2>1. /\ command = "summary" /\ Counted
        /\ op' = [target |-> Sum, source |-> file, at |-> 1, compact |-> FALSE]
        /\ command' = command /\ lists' = lists /\ list' = list /\ read' = read
        /\ file' = file /\ item' = item /\ ended' = ended
    BY <1>6 DEF AnalyzeFile, L!AddList, listVars
  <2>2. FileByFile /\ DOMAIN lists' = 0 .. MaxListed /\ command # NULL
    BY <2>1 DEF CountingInv, Counting, NULL
  <2>3. lists'[file'] = lists[file] /\ read'[file'] = read[file]
    BY <2>1
  <2>4. FileByFile'
    BY <2>1, <2>2, <2>3 DEF FileByFile
  <2>5. AddsFile'
    BY <2>1, <2>3 DEF AddsFile, Counted
  <2>6. QED
    BY <2>1, <2>2, <2>4, <2>5 DEF CountingInv
<1>7. CASE AnalyzeItem
  BY <1>7, CountingItem
<1>8. CASE FileAnalyzed
  <2>1. /\ AddsFile /\ NextFile /\ command' = command /\ read' = read /\ list' = list
        /\ lists' = lists /\ ended' = ended /\ op' = L!NoOp
    BY <1>8 DEF FileAnalyzed, L!EndOfList, CountingInv, listVars
  <2>2. QED
    BY <2>1, CountingNext DEF AddsFile, Counting
<1>9. CASE PrintSummary
  <2>1. /\ command = "summary" /\ file > Len(list) /\ command # NULL
        /\ command' = command /\ lists' = lists /\ list' = list /\ read' = read
        /\ file' = file /\ item' = item /\ op' = op
    BY <1>9 DEF PrintSummary, locVars, listVars, NULL
  <2>2. QED
    BY <2>1, CountingStays
<1>10. CASE PrintFile
  <2>1. /\ command = "individual" /\ Counted /\ NextFile /\ op' = op
        /\ command' = command /\ read' = read /\ list' = list /\ lists' = lists
        /\ ended' = ended
    BY <1>10 DEF PrintFile, locVars, listVars
  <2>2. op = L!NoOp
    BY <2>1 DEF CountingInv, AddsFile
  <2>3. QED
    BY <2>1, <2>2, CountingNext DEF Counting
<1>11. CASE PrintAnswer
  <2>1. /\ command \in EachFile /\ command' = command /\ lists' = lists /\ op' = op
    BY <1>11 DEF PrintAnswer, locVars
  <2>2. command \notin {NULL, "summary", "individual"}
    BY <2>1, CommandLineAssumption
  <2>3. QED
    BY <2>1, <2>2 DEF CountingInv, Counting, AddsFile
<1>12. CASE End
  <2>1. /\ command' = command /\ command # NULL /\ command # "summary" /\ lists' = lists
        /\ read' = read /\ list' = list /\ file' = file /\ item' = item /\ op' = op
        /\ command = "individual" => file > Len(list)
    BY <1>12, CommandLineAssumption DEF End, locVars, listVars, NULL
  <2>2. QED
    BY <2>1, CountingStays DEF Counting
<1>13. CASE UNCHANGED clAll
  BY <1>0, <1>13 DEF clAll, listVars
<1>14. QED
  BY <1>1, <1>2, <1>3, <1>4, <1>5, <1>6, <1>7, <1>8, <1>9, <1>10, <1>11, <1>12, <1>13
     DEF CLNext, CLStep

LEMMA CountingAlways == CLSpec => []CountingInv
  BY CountingInit, CountingStep, CLWalkAlways, ReadAlways, PTL DEF CLSpec, clAll
-----------------------------------------------------------------------------
(* The rows individual prints.                                             *)

OutType == [path : Paths, row : RowType]

\* The rows of a file: printed in one piece, from behind place begin to place end.
Mine(k, begin, end) ==
    LET mine == SubSeq(out, begin + 1, end)
    IN  /\ Len(mine) = Len(read[k])
        /\ {o.row : o \in ToSet(mine)} = ToSet(read[k])
        /\ \A o \in ToSet(mine) : o.path = list[k].path
        /\ \A i, j \in DOMAIN mine : i < j => Earlier(mine[i].row, mine[j].row)

\* What was printed is divided among the first m files.
Divided(m) ==
    \E bound \in [0 .. m -> 0 .. Len(out)] :
      /\ bound[0] = 0 /\ bound[m] = Len(out)
      /\ \A k \in 1 .. m : Mine(k, bound[k - 1], bound[k])

\* What is printed behind a part of a sequence leaves the part as it is.
LEMMA PartKept ==
  ASSUME NEW S, NEW s \in Seq(S), NEW t \in Seq(S),
         NEW a \in 0 .. Len(s), NEW b \in 0 .. Len(s)
  PROVE  SubSeq(s \o t, a + 1, b) = SubSeq(s, a + 1, b)
<1>1. CASE a < b
  <2>1. a + 1 \in 1 .. Len(s) /\ b \in 1 .. Len(s)
    BY <1>1
  <2>2. QED
    BY <2>1, SubSeqOfConcat1
<1>2. CASE ~(a < b)
  <2>1. b < a + 1 /\ a + 1 \in Int /\ b \in Int
    BY <1>2
  <2>2. QED
    BY <2>1, SubSeqEmpty
<1>3. QED
  BY <1>1, <1>2

LEMMA PartAdded ==
  ASSUME NEW S, NEW s \in Seq(S), NEW t \in Seq(S)
  PROVE  SubSeq(s \o t, Len(s) + 1, Len(s \o t)) = t
<1>1. PICK u, m, n : u = s \o t /\ m = Len(s) + 1 /\ n = Len(u)
  OBVIOUS
<1>2. /\ u \in Seq(S) /\ n = Len(s) + Len(t) /\ m \in Int /\ n \in Int
      /\ Len(s) \in Nat /\ Len(t) \in Nat
      /\ \A i \in 1 .. Len(t) : u[Len(s) + i] = t[i]
  BY <1>1
<1>3. \A i \in m .. n : u[i] \in S
  BY <1>1, <1>2
<1>4. /\ SubSeq(u, m, n) \in Seq(S)
      /\ Len(SubSeq(u, m, n)) = IF m <= n THEN n - m + 1 ELSE 0
      /\ \A i \in 1 .. n - m + 1 : SubSeq(u, m, n)[i] = u[m + i - 1]
  BY <1>2, <1>3, SubSeqProperties
<1>5. Len(SubSeq(u, m, n)) = Len(t)
  BY <1>1, <1>2, <1>4
<1>6. \A i \in 1 .. Len(t) : SubSeq(u, m, n)[i] = t[i]
  <2>1. \A i \in 1 .. Len(t) : i \in 1 .. n - m + 1 /\ m + i - 1 = Len(s) + i
    BY <1>1, <1>2
  <2>2. QED
    BY <1>2, <1>4, <2>1
<1>7. SubSeq(u, m, n) = t
  <2>1. PICK w : w = SubSeq(u, m, n)
    OBVIOUS
  <2>2. w \in Seq(S) /\ Len(w) = Len(t)
    BY <1>4, <1>5, <2>1
  <2>3. \A i \in 1 .. Len(t) : w[i] = t[i]
    BY <1>6, <2>1
  <2>4. w = t
    BY <2>2, <2>3
  <2>5. QED
    BY <2>1, <2>4
<1>8. QED
  BY <1>1, <1>7

\* The division stays as it is when what was printed does.
LEMMA DividedSame ==
  ASSUME NEW m \in Nat, Divided(m), out' = out,
         \A k \in 1 .. m : read'[k] = read[k] /\ list'[k] = list[k]
  PROVE  Divided(m)'
<1>1. PICK bound \in [0 .. m -> 0 .. Len(out)] :
        /\ bound[0] = 0 /\ bound[m] = Len(out)
        /\ \A k \in 1 .. m : Mine(k, bound[k - 1], bound[k])
  BY DEF Divided
<1>2. ASSUME NEW k \in 1 .. m PROVE Mine(k, bound[k - 1], bound[k])'
  <2>1. PICK b, e : b = bound[k - 1] /\ e = bound[k]
    OBVIOUS
  <2>2. Mine(k, b, e) /\ read'[k] = read[k] /\ list'[k] = list[k]
    BY <1>1, <2>1
  <2>3. Mine(k, b, e)'
    BY <2>2 DEF Mine
  <2>4. QED
    BY <2>1, <2>3
<1>3. QED
  BY <1>1, <1>2 DEF Divided

\* A file's rows, sorted and printed behind the others, are its own.
LEMMA DividedMore ==
  ASSUME NEW m \in Nat, Divided(m), out \in Seq(OutType),
         NEW r \in Seq(RowType), NEW p \in Paths,
         out' = out \o Printed(p, r),
         Len(r) = Len(read[m + 1]), ToSet(r) = ToSet(read[m + 1]),
         \A i, j \in DOMAIN r : i < j => Earlier(r[i], r[j]),
         list[m + 1].path = p, read' = read, list' = list
  PROVE  Divided(m + 1)' /\ out' \in Seq(OutType)
<1>1. PICK t, n : t = Printed(p, r) /\ n = m + 1
  OBVIOUS
<1>2. /\ t \in Seq(OutType) /\ Len(t) = Len(r) /\ DOMAIN t = DOMAIN r
      /\ \A i \in DOMAIN r : t[i] = [path |-> p, row |-> r[i]]
  <2>1. /\ DOMAIN r = 1 .. Len(r) /\ Len(r) \in Nat
        /\ \A i \in DOMAIN r : r[i] \in RowType
    OBVIOUS
  <2>2. /\ t = [i \in DOMAIN r |-> [path |-> p, row |-> r[i]]]
    BY <1>1 DEF Printed
  <2>3. \A i \in DOMAIN r : [path |-> p, row |-> r[i]] \in OutType
    BY <2>1 DEF OutType
  <2>4. t \in [1 .. Len(r) -> OutType]
    BY <2>1, <2>2, <2>3
  <2>5. t \in Seq(OutType)
    <3>1. PICK N \in Nat : N = Len(r)
      BY <2>1
    <3>2. t \in [1 .. N -> OutType]
      BY <2>4, <3>1
    <3>3. QED
      BY <3>2
  <2>6. Len(t) = Len(r)
    BY <2>1, <2>4, <2>5
  <2>7. QED
    BY <2>2, <2>5, <2>6
<1>3. PICK bound \in [0 .. m -> 0 .. Len(out)] :
        /\ bound[0] = 0 /\ bound[m] = Len(out)
        /\ \A k \in 1 .. m : Mine(k, bound[k - 1], bound[k])
  BY DEF Divided
<1>4. PICK u : u = out \o t /\ u = out'
  BY <1>1
<1>5. u \in Seq(OutType) /\ Len(u) = Len(out) + Len(t) /\ Len(out) \in Nat /\ Len(t) \in Nat
  <2>1. t \in Seq(OutType)
    BY <1>2
  <2>2. out \o t \in Seq(OutType) /\ Len(out \o t) = Len(out) + Len(t)
    BY <2>1
  <2>3. Len(out) \in Nat /\ Len(t) \in Nat
    BY <2>1
  <2>4. QED
    BY <1>4, <2>2, <2>3
<1>6. PICK more : more = [k \in 0 .. n |-> IF k = n THEN Len(u) ELSE bound[k]]
  OBVIOUS
<1>7. more \in [0 .. n -> 0 .. Len(u)]
  <2>1. \A k \in 0 .. n : k # n => bound[k] \in 0 .. Len(out)
    BY <1>1, <1>3
  <2>2. 0 .. Len(out) \subseteq 0 .. Len(u) /\ Len(u) \in 0 .. Len(u)
    BY <1>5
  <2>3. QED
    BY <1>6, <2>1, <2>2
<1>8. more[0] = 0 /\ more[n] = Len(u) /\ more[m] = Len(out) /\ n \in Nat
  BY <1>1, <1>3, <1>6
<1>9. ASSUME NEW k \in 1 .. m PROVE Mine(k, more[k - 1], more[k])'
  <2>1. PICK b, e : b = bound[k - 1] /\ e = bound[k]
    OBVIOUS
  <2>2. more[k - 1] = b /\ more[k] = e /\ b \in 0 .. Len(out) /\ e \in 0 .. Len(out)
    BY <1>1, <1>3, <1>6, <2>1
  <2>3. Mine(k, b, e)
    BY <1>3, <2>1
  <2>4. SubSeq(u, b + 1, e) = SubSeq(out, b + 1, e)
    BY <1>2, <1>4, <2>2, PartKept
  <2>5. SubSeq(out', b + 1, e) = SubSeq(out, b + 1, e)
    BY <1>4, <2>4
  <2>6. Mine(k, b, e)'
    BY <2>3, <2>5 DEF Mine
  <2>7. QED
    BY <2>2, <2>6
<1>10. Mine(n, more[m], more[n])'
  <2>1. PICK b, e : b = Len(out) /\ e = Len(u)
    OBVIOUS
  <2>2. SubSeq(u, b + 1, e) = t
    BY <1>2, <1>4, <2>1, PartAdded
  <2>3. SubSeq(out', b + 1, e) = t
    BY <1>4, <2>2
  <2>4. Len(t) = Len(read'[n])
    BY <1>1, <1>2
  <2>5. {o.row : o \in ToSet(t)} = ToSet(read'[n])
    <3>1. {o.row : o \in ToSet(t)} = ToSet(r)
      <4>1. \A i \in DOMAIN r : t[i].row = r[i]
        BY <1>2
      <4>2. ToSet(r) = {r[i] : i \in DOMAIN r} /\ ToSet(t) = {t[i] : i \in DOMAIN r}
        BY <1>2 DEF ToSet
      <4>3. {o.row : o \in {t[i] : i \in DOMAIN r}} = {r[i] : i \in DOMAIN r}
        BY <4>1
      <4>4. QED
        BY <4>2, <4>3
    <3>2. QED
      BY <1>1, <3>1
  <2>6. \A o \in ToSet(t) : o.path = list'[n].path
    <3>1. list'[n].path = p
      BY <1>1
    <3>2. QED
      BY <1>2, <3>1 DEF ToSet
  <2>7. \A i, j \in DOMAIN t : i < j => Earlier(t[i].row, t[j].row)
    <3>1. SUFFICES ASSUME NEW i \in DOMAIN t, NEW j \in DOMAIN t, i < j
                   PROVE  Earlier(t[i].row, t[j].row)
      OBVIOUS
    <3>2. t[i].row = r[i] /\ t[j].row = r[j]
      BY <1>2
    <3>3. Earlier(r[i], r[j])
      BY <1>2, <3>1
    <3>4. QED
      BY <3>2, <3>3
  <2>8. Mine(n, b, e)'
    BY <2>3, <2>4, <2>5, <2>6, <2>7 DEF Mine
  <2>9. QED
    BY <1>8, <2>1, <2>8
<1>11. \A k \in 1 .. n : Mine(k, more[k - 1], more[k])'
  <2>1. n - 1 = m
    BY <1>1
  <2>2. \A k \in 1 .. n : k \in 1 .. m \/ k = n
    BY <1>1
  <2>3. QED
    BY <1>9, <1>10, <2>1, <2>2
<1>12. Divided(n)'
  BY <1>4, <1>7, <1>8, <1>11 DEF Divided
<1>13. QED
  BY <1>1, <1>4, <1>5, <1>12

\* individual: the files before this one are printed.
RowsInv == command = "individual" => out \in Seq(OutType) /\ Divided(file - 1)

LEMMA RowsInit == CLInit => RowsInv
  BY DEF CLInit, RowsInv, NULL

\* Nothing is printed at first.
LEMMA RowsStart == CountingInv /\ Start => RowsInv'
<1>. SUFFICES ASSUME CountingInv, Start PROVE RowsInv'
  OBVIOUS
<1>1. file' = 1 /\ out' = <<>>
  BY DEF Start, CountingInv, Fresh
<1>2. Divided(0)'
  <2>1. PICK bound : bound = [k \in 0 .. 0 |-> 0]
    OBVIOUS
  <2>2. Len(out') = 0
    BY <1>1
  <2>3. /\ bound \in [0 .. 0 -> 0 .. Len(out')]
        /\ bound[0] = 0 /\ bound[0] = Len(out')
    BY <2>1, <2>2
  <2>4. QED
    BY <2>3 DEF Divided
<1>3. Divided(file - 1)'
  <2>1. file' - 1 = 0
    BY <1>1
  <2>2. QED
    BY <1>2, <2>1 DEF Divided
<1>4. QED
  BY <1>1, <1>3 DEF RowsInv

\* All languages of the file are counted: its list is what it said.
LEMMA FileCounted ==
  ASSUME ReadInv, CountingInv, Counting, Counted
  PROVE  /\ file \in DOMAIN read /\ file \in 1 .. MaxListed
         /\ lists[file] = read[file]
         /\ read[file] \in Seq(RowType) /\ OneEach(read[file])
<1>1. /\ file <= Len(list) /\ Len(read) = file /\ item = Len(read[file])
      /\ FileByFile
  BY DEF Counted, CountingInv
<1>2. file \in Nat \ {0} /\ file \in DOMAIN read /\ file \in 1 .. MaxListed
  BY <1>1, CommandLineAssumption DEF ReadInv, Counting, NULL
<1>3. PICK s : s = read[file]
  OBVIOUS
<1>4. s \in Seq(RowType) /\ OneEach(s)
  BY <1>2, <1>3, ReadRows
<1>5. SubSeq(s, 1, Len(s)) = s
  BY <1>4, SubSeqFull
<1>6. lists[file] = SubSeq(s, 1, Len(s))
  BY <1>1, <1>3 DEF FileByFile
<1>7. QED
  BY <1>2, <1>3, <1>4, <1>5, <1>6

LEMMA RowsPrint == WalkInv /\ ReadInv /\ CountingInv /\ RowsInv /\ PrintFile => RowsInv'
<1>. SUFFICES ASSUME WalkInv, ReadInv, CountingInv, RowsInv, PrintFile PROVE RowsInv'
  OBVIOUS
<1>1. /\ command = "individual" /\ Counting /\ Counted
      /\ read' = read /\ list' = list /\ file' = file + 1
  BY DEF PrintFile, Counting, NextFile, listVars
<1>2. out \in Seq(OutType) /\ Divided(file - 1)
  BY <1>1 DEF RowsInv
<1>3. PICK s : s = read[file]
  OBVIOUS
<1>4. /\ lists[file] = s /\ s \in Seq(RowType) /\ OneEach(s)
      /\ file \in Nat \ {0} /\ file \in DOMAIN list
  BY <1>1, <1>3, FileCounted DEF ReadInv, WalkInv, ListTypeOK, Counted
<1>5. PICK r : r = SelectionSort(s, Earlier)
  OBVIOUS
<1>6. /\ r \in Seq(RowType) /\ Len(r) = Len(s) /\ ToSet(r) = ToSet(s)
      /\ \A i, j \in DOMAIN r : i < j => Earlier(r[i], r[j])
  BY <1>4, <1>5, SortedByLanguage
<1>7. PICK p \in Paths : p = list[file].path
  <2>1. list \in Seq(ListedType)
    BY DEF WalkInv, ListTypeOK
  <2>2. list[file] \in ListedType
    BY <1>4, <2>1
  <2>3. QED
    BY <2>2 DEF ListedType
<1>8. out' = out \o Printed(p, r)
  <2>1. rows' = r
    BY <1>4, <1>5 DEF PrintFile
  <2>2. QED
    BY <1>7, <2>1 DEF PrintFile
<1>9. PICK m \in Nat : m = file - 1 /\ m + 1 = file
  BY <1>4
<1>10. Divided(m + 1)' /\ out' \in Seq(OutType)
  <2>1. Divided(m)
    BY <1>2, <1>9
  <2>2. Len(r) = Len(read[m + 1]) /\ ToSet(r) = ToSet(read[m + 1])
    BY <1>3, <1>6, <1>9
  <2>3. list[m + 1].path = p
    BY <1>7, <1>9
  <2>4. QED
    BY <1>1, <1>2, <1>6, <1>8, <2>1, <2>2, <2>3, DividedMore
<1>11. Divided(file - 1)'
  <2>1. file' - 1 = m + 1
    BY <1>1, <1>9
  <2>2. QED
    BY <1>10, <2>1 DEF Divided
<1>12. QED
  BY <1>10, <1>11 DEF RowsInv

\* A step that prints nothing and leaves the file to be printed.
LEMMA RowsStay ==
  ASSUME ReadInv, RowsInv, command' = command, out' = out, list' = list, file' = file,
         \A k \in 1 .. file - 1 : read'[k] = read[k]
  PROVE  RowsInv'
<1>. SUFFICES ASSUME command = "individual" PROVE out' \in Seq(OutType) /\ Divided(file - 1)'
  BY DEF RowsInv
<1>1. PICK m \in Nat : m = file - 1
  BY DEF ReadInv
<1>2. Divided(m) /\ out \in Seq(OutType)
  BY <1>1 DEF RowsInv
<1>3. Divided(m)'
  BY <1>1, <1>2, DividedSame
<1>4. m = file' - 1
  BY <1>1
<1>5. QED
  BY <1>2, <1>3, <1>4 DEF Divided

LEMMA RowsStep ==
    WalkInv /\ ReadInv /\ CountingInv /\ RowsInv /\ [CLNext]_clAll => RowsInv'
<1>. SUFFICES ASSUME WalkInv, ReadInv, CountingInv, RowsInv, [CLNext]_clAll PROVE RowsInv'
  OBVIOUS
<1>0. ASSUME UNCHANGED clVars, command = NULL \/ UNCHANGED list PROVE RowsInv'
  <2>1. command' = command /\ out' = out /\ read' = read /\ file' = file
    BY <1>0 DEF clVars
  <2>2. CASE command = NULL
    BY <2>1, <2>2 DEF RowsInv, NULL
  <2>3. CASE UNCHANGED list
    BY <2>1, <2>3, RowsStay
  <2>4. QED
    BY <1>0, <2>2, <2>3
<1>1. CASE ListStep /\ UNCHANGED clVars
  <2>1. command = NULL
    BY <1>1, ListDone DEF ReadInv
  <2>2. QED
    BY <1>0, <1>1, <2>1
<1>2. CASE (\E p \in Paths, k \in Kinds : Change(p, k)) /\ UNCHANGED clVars
  <2>1. UNCHANGED list
    BY <1>2 DEF Change
  <2>2. QED
    BY <1>0, <1>2, <2>1
<1>3. CASE Start
  BY <1>3, RowsStart
<1>4. CASE ParseFile
  <2>1. command' = command /\ out' = out /\ list' = list /\ file' = file
    BY <1>4 DEF ParseFile, listVars
  <2>2. QED
    BY <1>4, <2>1, FileRead, RowsStay
<1>5. CASE CountLanguage
  <2>1. command' = command /\ out' = out /\ list' = list /\ file' = file /\ read' = read
    BY <1>5 DEF CountLanguage, listVars
  <2>2. QED
    BY <2>1, RowsStay
<1>6. CASE AnalyzeFile \/ PrintSummary
  <2>1. command = "summary" /\ command' = command
    BY <1>6 DEF AnalyzeFile, PrintSummary
  <2>2. QED
    BY <2>1 DEF RowsInv
<1>7. CASE AnalyzeItem \/ FileAnalyzed
  <2>1. op # L!NoOp /\ command' = command
    BY <1>7 DEF AnalyzeItem, FileAnalyzed, L!NextItem, L!EndOfList
  <2>2. command = "summary"
    BY <2>1 DEF CountingInv, AddsFile
  <2>3. QED
    BY <2>1, <2>2 DEF RowsInv
<1>8. CASE PrintFile
  BY <1>8, RowsPrint
<1>9. CASE PrintAnswer
  <2>1. command \in EachFile /\ command' = command
    BY <1>9 DEF PrintAnswer
  <2>2. command # "individual"
    BY <2>1, CommandLineAssumption
  <2>3. QED
    BY <2>1, <2>2 DEF RowsInv
<1>10. CASE End
  <2>1. command' = command /\ out' = out /\ list' = list /\ file' = file /\ read' = read
    BY <1>10 DEF End, listVars
  <2>2. QED
    BY <2>1, RowsStay
<1>11. CASE UNCHANGED clAll
  BY <1>0, <1>11 DEF clAll, listVars
<1>12. QED
  BY <1>1, <1>2, <1>3, <1>4, <1>5, <1>6, <1>7, <1>8, <1>9, <1>10, <1>11
     DEF CLNext, CLStep

LEMMA AllRows == WalkInv /\ ReadInv /\ CountingInv /\ RowsInv => RowsOfFiles
<1>. SUFFICES ASSUME WalkInv, ReadInv, CountingInv, RowsInv, ended, command = "individual"
              PROVE  RowsOfFiles
  BY DEF RowsOfFiles
<1>1. FileByFile /\ Divided(file - 1)
  BY DEF RowsInv, CountingInv, Counting
<1>2. list \in Seq(ListedType) /\ file \in Nat \ {0} /\ Len(read) \in Nat
  BY DEF WalkInv, ListTypeOK, ReadInv
<1>3. PICK n : n = Len(list)
  OBVIOUS
<1>4. file - 1 = n /\ Len(read) = n /\ n \in Nat /\ DOMAIN list = 1 .. n
  BY <1>1, <1>2, <1>3 DEF FileByFile
<1>5. Divided(n)
  BY <1>1, <1>4
<1>6. PICK bound \in [0 .. n -> 0 .. Len(out)] :
        /\ bound[0] = 0 /\ bound[n] = Len(out)
        /\ \A k \in 1 .. n : Mine(k, bound[k - 1], bound[k])
  BY <1>5 DEF Divided
<1>7. \A k \in DOMAIN list :
        LET mine == SubSeq(out, bound[k - 1] + 1, bound[k])
        IN  /\ Len(mine) = Len(read[k])
            /\ {o.row : o \in ToSet(mine)} = ToSet(read[k])
            /\ \A o \in ToSet(mine) : o.path = list[k].path
            /\ \A i, j \in DOMAIN mine :
                 i < j => Earlier(mine[i].row, mine[j].row)
  BY <1>4, <1>6 DEF Mine
<1>8. QED
  BY <1>3, <1>4, <1>6, <1>7 DEF RowsOfFiles

\* When individual (ohcount.c) is done, it has printed file after file in the
\* order of the list, and for each the rows of what the file said when it was
\* read: none lost, none twice, and language after language, for every list of
\* files and whatever other programs do to the tree meanwhile.
THEOREM RowsOfFilesAlways == CLSpec => []RowsOfFiles
  BY RowsInit, RowsStep, AllRows, CLWalkAlways, ReadAlways, CountingAlways, PTL
     DEF CLSpec, clAll
-----------------------------------------------------------------------------
(* What LocProofs says of every client of Loc, said of this one.           *)

LP == INSTANCE LocProofs WITH
        kind <- "Loc", Lists <- 0 .. MaxListed, DeltaAmounts <- {}, MaxCalls <- 1000,
        LocAmounts <- UNION {{Has[p][i].n : i \in DOMAIN Has[p]} : p \in DOMAIN Has}

LEMMA LanguagesFinite == IsFiniteSet(Languages)
<1>1. PICK n \in Nat : DOMAIN Alphabet = 1 .. n
  <2>1. Alphabet \in Seq(STRING)
    BY CommandLineAssumption
  <2>2. QED
    BY <2>1
<1>2. IsFiniteSet(1 .. n)
  BY FS_Interval
<1>3. Languages = {Alphabet[i] : i \in 1 .. n}
  BY <1>1 DEF Languages, ToSet
<1>4. PICK f : f = [i \in 1 .. n |-> Alphabet[i]]
  OBVIOUS
<1>5. f \in Surjection(1 .. n, Languages)
  BY <1>3, <1>4 DEF Surjection
<1>6. QED
  BY <1>2, <1>5, FS_Surjection

LEMMA LocAssumed == LP!LocAssumption
<1>1. UNION {{Has[p][i].n : i \in DOMAIN Has[p]} : p \in DOMAIN Has}
        \subseteq [L!LocFields -> Nat]
  <2>. SUFFICES ASSUME NEW p \in DOMAIN Has, NEW i \in DOMAIN Has[p]
                PROVE  Has[p][i].n \in [L!LocFields -> Nat]
    OBVIOUS
  <2>1. Has[p] \in Seq(RowType)
    BY CommandLineAssumption DEF RowType
  <2>2. Has[p][i] \in RowType
    BY <2>1
  <2>3. QED
    BY <2>2 DEF RowType
<1>2. LP!LocFields = L!LocFields
  BY DEF LP!LocFields, L!LocFields
<1>3. 1000 \in Nat /\ {} \subseteq [LP!Changes -> Nat]
  OBVIOUS
<1>4. LP!IsFiniteSet(Languages)
  BY LanguagesFinite DEF LP!IsFiniteSet, IsFiniteSet
<1>5. QED
  BY <1>1, <1>2, <1>3, <1>4

LEMMA SameItems == LP!Items = RowType /\ LP!Fields = L!LocFields /\ LP!NoOp = L!NoOp
  BY DEF LP!Items, RowType, LP!Fields, LP!LocFields, L!LocFields, LP!NoOp, L!NoOp

\* The lists of Loc have one row for a language, and between operations the row
\* holds all that was added.
Held ==
    /\ lists \in [0 .. MaxListed -> Seq(RowType)]
    /\ added \in [0 .. MaxListed -> [Languages -> [L!LocFields -> Nat]]]
    /\ op \in LP!Ops \cup {L!NoOp}
    /\ \A k \in 0 .. MaxListed : OneEach(lists[k])
    /\ op = L!NoOp => \A k \in 0 .. MaxListed, l \in Languages :
                        LP!Get(lists[k], l) = added[k][l]

\* Both instances of Loc are the same module.
LEMMA SameAdd == \A s, x : L!Add(s, x) = LP!Add(s, x)
<1>1. \A s, x : L!AddLoc(s, x) = LP!AddLoc(s, x)
  BY DEF L!AddLoc, LP!AddLoc, L!At, LP!At, L!First, LP!First, L!Plus, LP!Plus
<1>2. QED
  BY <1>1 DEF L!Add, LP!Add

LEMMA SameNext == L!Next => LP!Next
<1>1. \A k, l, n : L!AddOne(k, l, n) => LP!AddOne(k, l, n)
  BY SameAdd DEF L!AddOne, LP!AddOne, L!Call, LP!Call, L!NoOp, LP!NoOp,
                 L!Gathered, LP!Gathered
<1>2. \A k, s : L!AddList(k, s) => LP!AddList(k, s)
  BY DEF L!AddList, LP!AddList, L!Call, LP!Call, L!NoOp, LP!NoOp, L!Gathered, LP!Gathered
<1>3. \A k, s : L!NewCompact(k, s) => LP!NewCompact(k, s)
  BY DEF L!NewCompact, LP!NewCompact, L!Call, LP!Call, L!NoOp, LP!NoOp, L!Counted, LP!Counted
<1>4. L!NextItem => LP!NextItem
  BY SameAdd DEF L!NextItem, LP!NextItem, L!NoOp, LP!NoOp, L!NoLines, LP!NoLines
<1>5. L!EndOfList => LP!EndOfList
  BY DEF L!EndOfList, LP!EndOfList, L!NoOp, LP!NoOp
<1>6. L!Amounts = LP!Amounts
  BY DEF L!Amounts, LP!Amounts
<1>7. QED
  BY <1>1, <1>2, <1>3, <1>4, <1>5, <1>6 DEF L!Next, LP!Next

LEMMA SameSpec == ClientOfLoc => LP!Spec
<1>1. L!Init => LP!Init
  BY DEF L!Init, LP!Init, L!Kinds, LP!Kinds, L!NoOp, LP!NoOp, L!Zero, LP!Zero,
         L!Fields, LP!Fields, L!LocFields, LP!LocFields
<1>2. L!vars = LP!vars
  BY DEF L!vars, LP!vars
<1>3. [L!Next]_(L!vars) => [LP!Next]_(LP!vars)
  BY <1>2, SameNext DEF L!vars, LP!vars
<1>4. QED
  BY <1>1, <1>3, PTL DEF ClientOfLoc, L!Spec, LP!Spec

LEMMA HeldAlways == CLSpec => []Held
<1>1. LP!TypeOK /\ LP!OneEntry /\ LP!LocsComplete => Held
  <2>. SUFFICES ASSUME LP!TypeOK, LP!OneEntry, LP!LocsComplete PROVE Held
    OBVIOUS
  <2>1. /\ lists \in [0 .. MaxListed -> Seq(RowType)]
        /\ added \in [0 .. MaxListed -> [Languages -> [L!LocFields -> Nat]]]
        /\ op \in LP!Ops \cup {L!NoOp}
    BY SameItems DEF LP!TypeOK
  <2>2. \A k \in 0 .. MaxListed : OneEach(lists[k])
    BY DEF LP!OneEntry, OneEach
  <2>3. op = L!NoOp => \A k \in 0 .. MaxListed, l \in Languages :
                         LP!Get(lists[k], l) = added[k][l]
    BY SameItems DEF LP!LocsComplete
  <2>4. QED
    BY <2>1, <2>2, <2>3 DEF Held
<1>2. LP!Spec => []LP!TypeOK
  BY LocAssumed, LP!TypeCorrect
<1>3. LP!Spec => []LP!OneEntry
  BY LocAssumed, LP!OneEntryAlways
<1>4. LP!Spec => []LP!LocsComplete
  BY LocAssumed, LP!LocsCompleteAlways
<1>5. QED
  BY <1>1, <1>2, <1>3, <1>4, SummaryIsClient, SameSpec, PTL
-----------------------------------------------------------------------------
(* Sums over sets, taken in whatever order CHOOSE takes them.              *)

\* What LocProofs says about sums, for use here.
LEMMA Apart ==
    \A g, h : \A m \in Nat : \A j \in 1 .. m : \A d \in Int :
       (\A i \in 1 .. m : g[i] \in Int) =>
         (h[j] = g[j] + d =>
           ((\A i \in 1 .. m : i # j => h[i] = g[i]) =>
              LP!SumOf(h)[m] = LP!SumOf(g)[m] + d))
  BY LocAssumed, LP!SumApart

LEMMA Same ==
    \A g, h : \A m \in Nat :
       (\A i \in 1 .. m : h[i] = g[i]) => LP!SumOf(h)[m] = LP!SumOf(g)[m]
  BY LocAssumed, LP!SumSame

LEMMA SumStep ==
    \A g : /\ LP!SumOf(g)[0] = 0
           /\ \A n \in Nat : LP!SumOf(g)[n + 1] = LP!SumOf(g)[n] + g[n + 1]
  BY LocAssumed, LP!SumNext

\* The numbers v of the places in a set.
Placed(v, s) == [k \in DOMAIN v |-> IF k \in s THEN v[k] ELSE 0]

LEMMA PlacedNone ==
  ASSUME NEW n \in Nat, NEW v \in [1 .. n -> Int]
  PROVE  LP!SumOf(Placed(v, {}))[n] = 0
<1>1. \A i \in 1 .. n : Placed(v, {})[i] = 0
  BY DEF Placed
<1>2. PICK g : g = Placed(v, {})
  OBVIOUS
<1>3. LP!SumOf(g)[n] = 0
  BY <1>1, <1>2, LocAssumed, LP!SumZero
<1>4. QED
  BY <1>2, <1>3

LEMMA PlacedLess ==
  ASSUME NEW n \in Nat, NEW v \in [1 .. n -> Int], NEW s, NEW j \in 1 .. n, j \in s
  PROVE  LP!SumOf(Placed(v, s))[n] = LP!SumOf(Placed(v, s \ {j}))[n] + v[j]
<1>1. PICK g, h, d : g = Placed(v, s \ {j}) /\ h = Placed(v, s) /\ d = v[j]
  OBVIOUS
<1>2. d \in Int
  BY <1>1
<1>3. \A i \in 1 .. n : g[i] \in Int
  BY <1>1 DEF Placed
<1>4. h[j] = g[j] + d
  BY <1>1, <1>2 DEF Placed
<1>5. \A i \in 1 .. n : i # j => h[i] = g[i]
  BY <1>1 DEF Placed
<1>6. LP!SumOf(h)[n] = LP!SumOf(g)[n] + d
  BY <1>2, <1>3, <1>4, <1>5, Apart
<1>7. QED
  BY <1>1, <1>6

LEMMA PlacedInt ==
  ASSUME NEW n \in Nat, NEW v \in [1 .. n -> Int], NEW s
  PROVE  LP!SumOf(Placed(v, s))[n] \in Int
<1>1. PICK g : g = Placed(v, s)
  OBVIOUS
<1>2. \A i \in 1 .. n : g[i] \in Int
  BY <1>1 DEF Placed
<1>3. LP!SumOf(g)[n] \in Int
  BY <1>2, LocAssumed, LP!SumType
<1>4. QED
  BY <1>1, <1>3

\* What MapThenSumSet takes over the subsets of S: a number for each element,
\* in the order of CHOOSE.
Chosen(s) == CHOOSE x \in s : TRUE
Taken(t, g, S) ==
    t = [s \in SUBSET S |-> IF s = {} THEN 0 ELSE g[Chosen(s)] + t[s \ {Chosen(s)}]]

Places(at, s) == {at[o] : o \in s}

\* Such a sum is that of the places, if each element has a place of its own.
LEMMA TakenExists ==
  ASSUME NEW n \in Nat, NEW v \in [1 .. n -> Int], NEW S, NEW at \in [S -> 1 .. n],
         \A o, p \in S : at[o] = at[p] => o = p,
         NEW g, \A o \in S : g[o] = v[at[o]]
  PROVE  \E t : Taken(t, g, S)
<1>. DEFINE W(s) == LP!SumOf(Placed(v, Places(at, s)))[n]
            t == [s \in SUBSET S |-> W(s)]
<1>1. ASSUME NEW s \in SUBSET S
      PROVE  t[s] = IF s = {} THEN 0 ELSE g[Chosen(s)] + t[s \ {Chosen(s)}]
  <2>1. CASE s = {}
    <3>1. Places(at, {}) = {}
      BY DEF Places
    <3>2. QED
      BY <2>1, <3>1, PlacedNone
  <2>2. CASE s # {}
    <3>1. PICK x : x = Chosen(s)
      OBVIOUS
    <3>2. x \in s /\ x \in S /\ at[x] \in 1 .. n
      BY <2>2, <3>1 DEF Chosen
    <3>3. Places(at, s \ {x}) = Places(at, s) \ {at[x]} /\ at[x] \in Places(at, s)
      BY <3>2 DEF Places
    <3>4. PICK j \in 1 .. n : j = at[x]
      BY <3>2
    <3>5. W(s) = W(s \ {x}) + v[j]
      <4>1. PICK u : u = Places(at, s)
        OBVIOUS
      <4>2. LP!SumOf(Placed(v, u))[n] = LP!SumOf(Placed(v, u \ {j}))[n] + v[j]
        BY <3>3, <3>4, <4>1, PlacedLess
      <4>3. QED
        BY <3>3, <3>4, <4>1, <4>2
    <3>6. W(s \ {x}) \in Int /\ v[j] \in Int /\ g[x] = v[j]
      BY <3>2, <3>4, PlacedInt
    <3>. HIDE DEF W
    <3>7. W(s) = g[x] + W(s \ {x})
      BY <3>5, <3>6
    <3>8. s \ {x} \in SUBSET S
      OBVIOUS
    <3>9. QED
      BY <2>2, <3>1, <3>7, <3>8
  <2>3. QED
    BY <2>1, <2>2
<1>2. t = [s \in SUBSET S |-> IF s = {} THEN 0 ELSE g[Chosen(s)] + t[s \ {Chosen(s)}]]
  <2>. HIDE DEF W
  <2>. QED
    BY <1>1
<1>. HIDE DEF t
<1>3. QED
  BY <1>2 DEF Taken

LEMMA TakenIsSum ==
  ASSUME NEW n \in Nat, NEW v \in [1 .. n -> Int], NEW S, NEW at \in [S -> 1 .. n],
         \A o, p \in S : at[o] = at[p] => o = p, IsFiniteSet(S),
         NEW g, \A o \in S : g[o] = v[at[o]], NEW t, Taken(t, g, S)
  PROVE  t[S] = LP!SumOf(Placed(v, Places(at, S)))[n]
<1>. DEFINE W(s) == LP!SumOf(Placed(v, Places(at, s)))[n]
            C == {k \in Nat : \A s \in SUBSET S : Cardinality(s) = k => t[s] = W(s)}
<1>1. 0 \in C
  <2>. SUFFICES ASSUME NEW s \in SUBSET S, Cardinality(s) = 0 PROVE t[s] = W(s)
    OBVIOUS
  <2>1. s = {}
    BY FS_Subset, FS_EmptySet
  <2>2. t[s] = 0
    BY <2>1 DEF Taken
  <2>3. Places(at, {}) = {}
    BY DEF Places
  <2>4. QED
    BY <2>1, <2>2, <2>3, PlacedNone
<1>2. ASSUME NEW k \in Nat, k \in C PROVE k + 1 \in C
  <2>. SUFFICES ASSUME NEW s \in SUBSET S, Cardinality(s) = k + 1 PROVE t[s] = W(s)
    OBVIOUS
  <2>1. s # {} /\ IsFiniteSet(s)
    BY FS_Subset, FS_EmptySet
  <2>2. PICK x : x = Chosen(s)
    OBVIOUS
  <2>3. x \in s /\ x \in S /\ at[x] \in 1 .. n
    BY <2>1, <2>2 DEF Chosen
  <2>4. t[s] = g[x] + t[s \ {x}]
    BY <2>1, <2>2 DEF Taken
  <2>5. Cardinality(s \ {x}) = k
    <3>1. Cardinality(s \ {x}) = Cardinality(s) - 1
      BY <2>1, <2>3, FS_RemoveElement
    <3>2. QED
      BY <3>1
  <2>6. s \ {x} \in SUBSET S
    OBVIOUS
  <2>7. t[s \ {x}] = W(s \ {x})
    BY <1>2, <2>5, <2>6
  <2>8. Places(at, s \ {x}) = Places(at, s) \ {at[x]} /\ at[x] \in Places(at, s)
    BY <2>3 DEF Places
  <2>9. PICK j \in 1 .. n : j = at[x]
    BY <2>3
  <2>10. W(s) = W(s \ {x}) + v[j]
    <3>1. PICK u : u = Places(at, s)
      OBVIOUS
    <3>2. LP!SumOf(Placed(v, u))[n] = LP!SumOf(Placed(v, u \ {j}))[n] + v[j]
      BY <2>8, <2>9, <3>1, PlacedLess
    <3>3. QED
      BY <2>8, <2>9, <3>1, <3>2
  <2>11. W(s \ {x}) \in Int /\ v[j] \in Int /\ g[x] = v[j]
    BY <2>3, <2>9, PlacedInt
  <2>. HIDE DEF W
  <2>12. QED
    BY <2>4, <2>7, <2>10, <2>11
<1>3. t[S] = W(S)
  <2>. HIDE DEF C
  <2>1. \A k \in Nat : k \in C
    BY <1>1, <1>2, NatSet
  <2>2. Cardinality(S) \in Nat /\ S \in SUBSET S
    BY FS_CardinalityType
  <2>3. QED
    BY <2>1, <2>2 DEF C
<1>4. QED
  BY <1>3
-----------------------------------------------------------------------------
(* What the files said of a language.                                      *)

HasLanguage(s, l) == \E i \in DOMAIN s : s[i].language = l

\* The number f of language l in each of the files read, 0 in those without it.
Got(l, f) == [k \in 1 .. Len(read) |-> LP!Get(read[k], l)[f]]

\* What get_loc answers of a list with each language once.
LEMMA GetOnce ==
  ASSUME NEW s \in Seq(RowType), OneEach(s), NEW l \in Languages
  PROVE  /\ \A i \in DOMAIN s : s[i].language = l => LP!Get(s, l) = s[i].n
         /\ ~HasLanguage(s, l) => LP!Get(s, l) = [f \in L!LocFields |-> 0]
         /\ LP!Get(s, l) \in [L!LocFields -> Nat]
<1>1. s \in Seq(LP!Items) /\ LP!Distinct(s)
  BY SameItems DEF OneEach, LP!Distinct
<1>2. \A i \in DOMAIN s : LP!Get(s, s[i].language) = s[i].n
  BY <1>1, LocAssumed, LP!GetItem
<1>3. ~HasLanguage(s, l) => LP!Get(s, l) = [f \in L!LocFields |-> 0]
  <2>1. LP!Zero = [f \in L!LocFields |-> 0]
    BY SameItems DEF LP!Zero
  <2>2. ~HasLanguage(s, l) => LP!At(s, l) = {}
    BY DEF HasLanguage, LP!At
  <2>3. QED
    BY <2>1, <2>2 DEF LP!Get
<1>4. \A i \in DOMAIN s : s[i].n \in [L!LocFields -> Nat]
  <2>1. \A i \in DOMAIN s : s[i] \in RowType
    OBVIOUS
  <2>2. QED
    BY <2>1 DEF RowType
<1>5. LP!Get(s, l) \in [L!LocFields -> Nat]
  BY <1>2, <1>3, <1>4 DEF HasLanguage
<1>6. QED
  BY <1>2, <1>3, <1>5

\* No file has more languages than there are.
LEMMA LanguagesOfFile ==
  ASSUME NEW s \in Seq(RowType), OneEach(s)
  PROVE  Len(s) <= Len(Alphabet)
<1>1. PICK m \in Nat, n \in Nat : m = Len(s) /\ n = Len(Alphabet) /\ DOMAIN Alphabet = 1 .. n
  <2>1. Alphabet \in Seq(STRING)
    BY CommandLineAssumption
  <2>2. QED
    BY <2>1
<1>2. SUFFICES ASSUME n < m PROVE FALSE
  BY <1>1
<1>3. \A i \in 1 .. m : s[i].language \in Languages
  <2>1. \A i \in 1 .. m : s[i] \in RowType
    BY <1>1
  <2>2. QED
    BY <2>1 DEF RowType
<1>4. \A i \in 1 .. m : Place(s[i].language) \in 1 .. n /\ Alphabet[Place(s[i].language)] = s[i].language
  <2>1. \A l \in Languages : \E i \in DOMAIN Alphabet : Alphabet[i] = l
    BY DEF Languages, ToSet
  <2>2. QED
    BY <1>1, <1>3, <2>1 DEF Place
<1>5. PICK p : p = [i \in 1 .. m |-> Place(s[i].language)]
  OBVIOUS
<1>6. p \in [1 .. m -> 1 .. n]
  BY <1>4, <1>5
<1>7. /\ IsFiniteSet(1 .. m) /\ IsFiniteSet(1 .. n)
      /\ Cardinality(1 .. n) = n /\ Cardinality(1 .. m) = m
  BY FS_Interval
<1>8. \E i, j \in 1 .. m : i # j /\ p[i] = p[j]
  BY <1>2, <1>6, <1>7, FS_PigeonHole
<1>9. PICK i \in 1 .. m, j \in 1 .. m : i # j /\ p[i] = p[j]
  BY <1>8
<1>10. s[i].language = s[j].language
  BY <1>4, <1>5, <1>9
<1>11. QED
  BY <1>1, <1>9, <1>10 DEF OneEach

LEMMA SaidWhere ==
  ASSUME ReadInv, NEW l \in Languages
  PROVE  /\ \A o \in SaidOf(l) :
              /\ o[1] \in 1 .. Len(read) /\ o[2] \in DOMAIN read[o[1]]
              /\ read[o[1]][o[2]].language = l /\ o = <<o[1], o[2]>>
         /\ \A k \in 1 .. Len(read) : \A i \in DOMAIN read[k] :
              read[k][i].language = l => <<k, i>> \in SaidOf(l)
         /\ SaidOf(l) # {} <=> \E k \in 1 .. Len(read) : HasLanguage(read[k], l)
         /\ IsFiniteSet(SaidOf(l))
<1>1. PICK n \in Nat : n = Len(read) /\ DOMAIN read = 1 .. n
  BY DEF ReadInv
<1>2. \A o \in SaidOf(l) :
        /\ o[1] \in 1 .. n /\ o[2] \in DOMAIN read[o[1]]
        /\ read[o[1]][o[2]].language = l /\ o = <<o[1], o[2]>>
  BY <1>1 DEF SaidOf
<1>3. ASSUME NEW k \in 1 .. n, NEW i \in DOMAIN read[k], read[k][i].language = l
      PROVE  <<k, i>> \in SaidOf(l)
  <2>1. read[k] \in Seq(RowType) /\ OneEach(read[k])
    BY <1>1, ReadRows
  <2>2. Len(read[k]) <= Len(Alphabet) /\ Len(Alphabet) \in Nat
    BY <2>1, LanguagesOfFile, CommandLineAssumption
  <2>3. i \in 1 .. Len(Alphabet)
    BY <2>1, <2>2
  <2>4. QED
    BY <1>1, <1>3, <2>3 DEF SaidOf
<1>4. SaidOf(l) # {} <=> \E k \in 1 .. n : HasLanguage(read[k], l)
  BY <1>2, <1>3 DEF HasLanguage
<1>5. IsFiniteSet(SaidOf(l))
  <2>1. PICK m \in Nat : m = Len(Alphabet)
    BY CommandLineAssumption
  <2>2. IsFiniteSet(1 .. n) /\ IsFiniteSet(1 .. m)
    BY FS_Interval
  <2>3. IsFiniteSet((1 .. n) \X (1 .. m))
    BY <2>2, FS_Product
  <2>4. SaidOf(l) \subseteq (1 .. n) \X (1 .. m)
    BY <1>1, <2>1 DEF SaidOf
  <2>5. QED
    BY <2>3, <2>4, FS_Subset
<1>6. QED
  BY <1>1, <1>2, <1>3, <1>4, <1>5

LEMMA GotType ==
  ASSUME ReadInv, NEW l \in Languages, NEW f \in L!LocFields
  PROVE  /\ Len(read) \in Nat /\ Got(l, f) \in [1 .. Len(read) -> Int]
         /\ \A k \in 1 .. Len(read) : Got(l, f)[k] = LP!Get(read[k], l)[f]
<1>1. PICK n \in Nat : n = Len(read) /\ DOMAIN read = 1 .. n
  BY DEF ReadInv
<1>2. ASSUME NEW k \in 1 .. n PROVE LP!Get(read[k], l)[f] \in Int
  <2>1. read[k] \in Seq(RowType) /\ OneEach(read[k])
    BY <1>1, ReadRows
  <2>2. LP!Get(read[k], l) \in [L!LocFields -> Nat]
    BY <2>1, GetOnce
  <2>3. QED
    BY <2>2
<1>3. QED
  BY <1>1, <1>2 DEF Got

\* The sum the specification takes over a set is that over the files.
LEMMA SumOfFiles ==
  ASSUME ReadInv, NEW l \in Languages, NEW f \in L!LocFields
  PROVE  SumOf(l)[f] = LP!SumOf(Got(l, f))[Len(read)]
<1>. DEFINE S == SaidOf(l)
            T == CHOOSE t : t = [s \in SUBSET S |->
                   IF s = {} THEN 0
                   ELSE read[Chosen(s)[1]][Chosen(s)[2]].n[f] + t[s \ {Chosen(s)}]]
            at == [o \in S |-> o[1]]
            g == [o \in S |-> read[o[1]][o[2]].n[f]]
<1>1. SumOf(l)[f] = T[S]
  BY DEF SumOf, MapThenSumSet, MapThenFoldSet, Chosen
<1>2. PICK n, v : n = Len(read) /\ v = Got(l, f)
  OBVIOUS
<1>3. n \in Nat /\ v \in [1 .. n -> Int] /\ \A k \in 1 .. n : v[k] = LP!Get(read[k], l)[f]
  BY <1>2, GotType
<1>4. \A k \in 1 .. n : read[k] \in Seq(RowType) /\ OneEach(read[k])
  <2>1. \A k \in 1 .. n : k \in DOMAIN read
    BY <1>2 DEF ReadInv
  <2>2. QED
    BY <2>1, ReadRows
<1>5. /\ \A o \in S : /\ o[1] \in 1 .. n /\ o[2] \in DOMAIN read[o[1]]
                      /\ read[o[1]][o[2]].language = l /\ o = <<o[1], o[2]>>
      /\ \A k \in 1 .. n : \A i \in DOMAIN read[k] :
           read[k][i].language = l => <<k, i>> \in S
      /\ IsFiniteSet(S)
  BY <1>2, SaidWhere
<1>. HIDE DEF S
<1>6. at \in [S -> 1 .. n] /\ \A o \in S : at[o] = o[1]
  BY <1>5
<1>7. \A o, p \in S : at[o] = at[p] => o = p
  <2>. SUFFICES ASSUME NEW o \in S, NEW p \in S, o[1] = p[1] PROVE o = p
    BY <1>6
  <2>1. OneEach(read[o[1]])
    BY <1>4, <1>5
  <2>2. o[2] = p[2]
    BY <1>5, <2>1 DEF OneEach
  <2>3. QED
    BY <1>5, <2>2
<1>8. ASSUME NEW o \in S PROVE g[o] = v[at[o]] /\ g[o] = read[o[1]][o[2]].n[f]
  <2>1. PICK k, i : k = o[1] /\ i = o[2] /\ k \in 1 .. n
    BY <1>5
  <2>2. LP!Get(read[k], l) = read[k][i].n
    BY <1>4, <1>5, <2>1, GetOnce
  <2>3. QED
    BY <1>3, <1>6, <2>1, <2>2
<1>. HIDE DEF at, g
<1>9. PICK u : Taken(u, g, S)
  BY <1>3, <1>6, <1>7, <1>8, TakenExists
<1>10. \A s \in SUBSET S : s # {} => g[Chosen(s)] = read[Chosen(s)[1]][Chosen(s)[2]].n[f]
  <2>1. \A s \in SUBSET S : s # {} => Chosen(s) \in S
    BY DEF Chosen
  <2>2. QED
    BY <1>8, <2>1
<1>11. u = [s \in SUBSET S |-> IF s = {} THEN 0
              ELSE read[Chosen(s)[1]][Chosen(s)[2]].n[f] + u[s \ {Chosen(s)}]]
  BY <1>9, <1>10 DEF Taken
<1>12. T = [s \in SUBSET S |-> IF s = {} THEN 0
              ELSE read[Chosen(s)[1]][Chosen(s)[2]].n[f] + T[s \ {Chosen(s)}]]
  BY <1>11
<1>. HIDE DEF T
<1>13. Taken(T, g, S)
  BY <1>10, <1>12 DEF Taken
<1>14. T[S] = LP!SumOf(Placed(v, Places(at, S)))[n]
  <2>1. PICK E, p, h, t : E = S /\ p = at /\ h = g /\ t = T
    OBVIOUS
  <2>2. p \in [E -> 1 .. n] /\ (\A a, b \in E : p[a] = p[b] => a = b)
    BY <1>6, <1>7, <2>1
  <2>3. IsFiniteSet(E)
    BY <1>5, <2>1
  <2>4. n \in Nat /\ v \in [1 .. n -> Int]
    BY <1>3
  <2>5. \A o \in E : h[o] = v[p[o]]
    BY <1>8, <2>1
  <2>6. Taken(t, h, E)
    BY <1>13, <2>1
  <2>7. t[E] = LP!SumOf(Placed(v, Places(p, E)))[n]
    BY <2>2, <2>3, <2>4, <2>5, <2>6, TakenIsSum
  <2>8. QED
    BY <2>1, <2>7
<1>15. ASSUME NEW k \in 1 .. n PROVE Placed(v, Places(at, S))[k] = v[k]
  <2>1. CASE k \in Places(at, S)
    BY <1>3, <2>1 DEF Placed
  <2>2. CASE k \notin Places(at, S)
    <3>1. \A i \in DOMAIN read[k] : read[k][i].language # l
      <4>. SUFFICES ASSUME NEW i \in DOMAIN read[k], read[k][i].language = l PROVE FALSE
        OBVIOUS
      <4>1. <<k, i>> \in S
        BY <1>5
      <4>2. at[<<k, i>>] = k
        BY <1>6, <4>1
      <4>3. QED
        BY <2>2, <4>1, <4>2 DEF Places
    <3>2. LP!Get(read[k], l) = [x \in L!LocFields |-> 0]
      BY <1>4, <3>1, GetOnce DEF HasLanguage
    <3>3. v[k] = 0
      BY <1>3, <3>2
    <3>4. QED
      BY <1>3, <2>2, <3>3 DEF Placed
  <2>3. QED
    BY <2>1, <2>2
<1>16. LP!SumOf(Placed(v, Places(at, S)))[n] = LP!SumOf(v)[n]
  <2>1. PICK w : w = Placed(v, Places(at, S))
    OBVIOUS
  <2>2. \A k \in 1 .. n : w[k] = v[k]
    BY <1>15, <2>1
  <2>3. LP!SumOf(w)[n] = LP!SumOf(v)[n]
    BY <1>3, <2>2, Same
  <2>4. QED
    BY <2>1, <2>3
<1>17. QED
  BY <1>1, <1>2, <1>14, <1>16
-----------------------------------------------------------------------------
(* What summary prints.                                                    *)

LEMMA SameTotal == \A s, f : L!Total(s, f) = LP!Total(s, f)
  BY DEF L!Total, LP!Total, L!FoldLeft, LP!FoldLeft, L!MapThenFoldSet, LP!MapThenFoldSet,
         L!Max, LP!Max

\* Two lists with the same rows, one for a language, have the same sums.
LEMMA SameRows ==
  ASSUME NEW s \in Seq(RowType), OneEach(s), NEW r \in Seq(RowType), OneEach(r),
         ToSet(r) = ToSet(s), NEW f \in L!LocFields
  PROVE  LP!Total(r, f) = LP!Total(s, f)
<1>1. ASSUME NEW l \in Languages PROVE LP!Get(r, l) = LP!Get(s, l)
  <2>1. CASE HasLanguage(s, l)
    <3>1. PICK i \in DOMAIN s : s[i].language = l
      BY <2>1 DEF HasLanguage
    <3>2. PICK j \in DOMAIN r : r[j] = s[i]
      <4>1. s[i] \in ToSet(r)
        BY <3>1 DEF ToSet
      <4>2. QED
        BY <4>1 DEF ToSet
    <3>3. LP!Get(s, l) = s[i].n
      BY <3>1, GetOnce
    <3>4. LP!Get(r, l) = r[j].n
      BY <3>1, <3>2, GetOnce
    <3>5. QED
      BY <3>2, <3>3, <3>4
  <2>2. CASE ~HasLanguage(s, l)
    <3>1. ~HasLanguage(r, l)
      <4>1. SUFFICES ASSUME NEW j \in DOMAIN r, r[j].language = l PROVE FALSE
        BY DEF HasLanguage
      <4>2. r[j] \in ToSet(s)
        BY DEF ToSet
      <4>3. PICK i \in DOMAIN s : s[i] = r[j]
        BY <4>2 DEF ToSet
      <4>4. QED
        BY <2>2, <4>1, <4>3 DEF HasLanguage
    <3>2. LP!Get(r, l) = [x \in L!LocFields |-> 0]
      BY <3>1, GetOnce
    <3>3. LP!Get(s, l) = [x \in L!LocFields |-> 0]
      BY <2>2, GetOnce
    <3>4. QED
      BY <3>2, <3>3
  <2>3. QED
    BY <2>1, <2>2
<1>2. /\ s \in Seq(LP!Items) /\ LP!Distinct(s) /\ r \in Seq(LP!Items) /\ LP!Distinct(r)
      /\ f \in LP!Fields
  BY SameItems DEF OneEach, LP!Distinct
<1>3. PICK g, h : g = [l \in Languages |-> LP!Get(r, l)[f]] /\ h = [l \in Languages |-> LP!Get(s, l)[f]]
  OBVIOUS
<1>4. LP!Total(r, f) = LP!LangSum(g) /\ LP!Total(s, f) = LP!LangSum(h)
  <2>1. \A t \in Seq(LP!Items) : LP!Distinct(t) =>
          LP!Total(t, f) = LP!LangSum([l \in Languages |-> LP!Get(t, l)[f]])
    BY <1>2, LocAssumed, LP!DistinctTotal
  <2>2. LP!Total(r, f) = LP!LangSum([l \in Languages |-> LP!Get(r, l)[f]])
    BY <1>2, <2>1
  <2>3. LP!Total(s, f) = LP!LangSum([l \in Languages |-> LP!Get(s, l)[f]])
    BY <1>2, <2>1
  <2>4. QED
    BY <1>3, <2>2, <2>3
<1>5. \A l \in Languages : h[l] = g[l]
  BY <1>1, <1>3
<1>6. LP!LangSum(h) = LP!LangSum(g)
  BY <1>5, LocAssumed, LP!LangSame
<1>7. QED
  BY <1>4, <1>6

\* The sum taken over printed rows is that of the rows.
LEMMA PrintedTotal ==
  ASSUME NEW r \in Seq(RowType), NEW f \in L!LocFields, NEW c, DOMAIN c = DOMAIN r,
         \A i \in DOMAIN r : c[i].row = r[i]
  PROVE  FoldLeft(LAMBDA sum, o : sum + o.row.n[f], 0, c) = LP!Total(r, f)
<1>. DEFINE T == CHOOSE t : t = [s \in SUBSET DOMAIN c |->
                   IF s = {} THEN 0 ELSE t[s \ {Greatest(s)}] + c[Greatest(s)].row.n[f]]
<1>1. FoldLeft(LAMBDA sum, o : sum + o.row.n[f], 0, c) = T[DOMAIN c]
  BY DEF FoldLeft, MapThenFoldSet, Max, Greatest
<1>2. PICK n, g : n = Len(r) /\ g = LP!Terms(r, f)
  OBVIOUS
<1>3. n \in Nat /\ DOMAIN c = 1 .. n
  BY <1>2
<1>4. /\ LP!Total(r, f) = LP!SumOf(g)[n]
      /\ \A i \in 1 .. n : g[i] = r[i].n[f] /\ g[i] \in Int
  <2>1. r \in Seq(LP!Items) /\ f \in LP!Fields
    BY SameItems
  <2>2. QED
    BY <1>2, <2>1, LocAssumed, LP!TotalIsSum
<1>5. PICK u : LP!Folds(u, g, n)
  BY <1>3, <1>4, LocAssumed, LP!FoldExists
<1>6. \A s \in SUBSET (1 .. n) : s # {} => g[Greatest(s)] = c[Greatest(s)].row.n[f]
  <2>1. \A s \in SUBSET (1 .. n) : s # {} => Greatest(s) \in 1 .. n
    BY <1>3, GreatestIn
  <2>2. \A i \in 1 .. n : c[i].row = r[i]
    BY <1>3
  <2>3. QED
    BY <1>4, <2>1, <2>2
<1>7. \A s : LP!Greatest(s) = Greatest(s)
  BY DEF LP!Greatest, Greatest
<1>8. u = [s \in SUBSET DOMAIN c |->
             IF s = {} THEN 0 ELSE u[s \ {Greatest(s)}] + c[Greatest(s)].row.n[f]]
  BY <1>3, <1>5, <1>6, <1>7 DEF LP!Folds
<1>9. T = [s \in SUBSET DOMAIN c |->
             IF s = {} THEN 0 ELSE T[s \ {Greatest(s)}] + c[Greatest(s)].row.n[f]]
  BY <1>8
<1>. HIDE DEF T
<1>10. LP!Folds(T, g, n)
  BY <1>3, <1>6, <1>7, <1>9 DEF LP!Folds
<1>11. T[1 .. n] = LP!SumOf(g)[n]
  BY <1>3, <1>10, LocAssumed, LP!FoldIsSum
<1>12. QED
  BY <1>1, <1>3, <1>4, <1>11

\* The rows behind which the last one is printed.
LEMMA PrintedRows ==
  ASSUME NEW r \in Seq(RowType), NEW x
  PROVE  LET q == Printed(<<>>, Append(r, x))
         IN  /\ DOMAIN Front(q) = DOMAIN r
             /\ \A i \in DOMAIN r : Front(q)[i] = [path |-> <<>>, row |-> r[i]]
             /\ Last(q).row = x
<1>. DEFINE Q == RowType \cup {x}
            P == [path : {<<>>}, row : Q]
<1>1. PICK a, n : a = Append(r, x) /\ n = Len(r)
  OBVIOUS
<1>2. /\ n \in Nat /\ DOMAIN r = 1 .. n /\ DOMAIN a = 1 .. n + 1
      /\ a[n + 1] = x /\ \A i \in 1 .. n : a[i] = r[i]
  BY <1>1
<1>3. PICK q : q = Printed(<<>>, a)
  OBVIOUS
<1>4. DOMAIN q = 1 .. n + 1 /\ \A i \in 1 .. n + 1 : q[i] = [path |-> <<>>, row |-> a[i]]
  BY <1>2, <1>3 DEF Printed
<1>5. q \in Seq(P) /\ Len(q) = n + 1
  <2>1. \A i \in 1 .. n + 1 : a[i] \in Q
    <3>1. \A i \in 1 .. n : r[i] \in RowType
      BY <1>2
    <3>2. \A i \in 1 .. n + 1 : i \in 1 .. n \/ i = n + 1
      BY <1>2
    <3>3. QED
      BY <1>2, <3>1, <3>2
  <2>2. \A i \in 1 .. n + 1 : q[i] \in P
    BY <1>4, <2>1
  <2>3. q = [i \in 1 .. n + 1 |-> q[i]]
    BY <1>2, <1>3 DEF Printed
  <2>4. PICK m \in Nat : m = n + 1
    BY <1>2
  <2>. HIDE DEF P
  <2>5. q \in [1 .. m -> P]
    BY <2>2, <2>3, <2>4
  <2>6. q \in Seq(P) /\ Len(q) = m
    BY <2>5
  <2>7. QED
    BY <2>4, <2>6
<1>6. PICK t : t = Front(q) /\ t = SubSeq(q, 1, n)
  <2>1. Len(q) - 1 = n
    BY <1>2, <1>5
  <2>2. QED
    BY <2>1 DEF Front
<1>7. t \in Seq(P) /\ Len(t) = n /\ \A i \in 1 .. n : t[i] = q[i]
  <2>. HIDE DEF P
  <2>1. \A i \in 1 .. n : q[i] \in P
    BY <1>2, <1>5
  <2>2. /\ SubSeq(q, 1, n) \in Seq(P)
        /\ Len(SubSeq(q, 1, n)) = IF 1 <= n THEN n - 1 + 1 ELSE 0
        /\ \A i \in 1 .. n - 1 + 1 : SubSeq(q, 1, n)[i] = q[1 + i - 1]
    BY <1>2, <2>1, SubSeqProperties
  <2>3. n - 1 + 1 = n /\ \A i \in 1 .. n : 1 + i - 1 = i
    BY <1>2
  <2>4. QED
    BY <1>2, <1>6, <2>2, <2>3
<1>8. DOMAIN t = 1 .. n
  BY <1>7
<1>9. \A i \in 1 .. n : t[i] = [path |-> <<>>, row |-> r[i]]
  BY <1>2, <1>4, <1>7
<1>10. Last(q).row = x
  BY <1>2, <1>4, <1>5 DEF Last
<1>11. QED
  BY <1>1, <1>2, <1>3, <1>6, <1>8, <1>9, <1>10

\* summary: the files of which the sum has everything or, while AnalyzeFile
\* goes through the last one's list, is promised everything; the rows the sum
\* has are those of the languages that it met.
Whole == IF op = L!NoOp THEN file - 1 ELSE file
Met(l) ==
    \/ \E k \in 1 .. file - 1 : HasLanguage(read[k], l)
    \/ op # L!NoOp /\ \E i \in DOMAIN lists[file] : i < op.at /\ lists[file][i].language = l

Summed ==
    \A l \in Languages, f \in L!LocFields : added[Sum][l][f] = LP!SumOf(Got(l, f))[Whole]
RowsMet == \A l \in Languages : HasLanguage(lists[Sum], l) <=> Met(l)

\* The sum's rows were printed, sorted, and the line with their sums.
SumShown ==
    \E s, r, x : /\ s = lists[Sum] /\ r = SelectionSort(s, MoreCode)
                 /\ \A f \in L!LocFields : x.n[f] = L!Total(s, f)
                 /\ out = Printed(<<>>, Append(r, x))

SummaryInv == command = "summary" => Summed /\ RowsMet /\ (ended => SumShown)

\* One row of the sum is all that the files said of its language.
LEMMA SumRows ==
  ASSUME ReadInv, CountingInv, Held, command = "summary", file > Len(list), Summed, RowsMet
  PROVE  /\ Len(read) = Len(list)
         /\ ToSet(lists[Sum]) = {[language |-> l, n |-> SumOf(l)] :
                                   l \in {m \in Languages : SaidOf(m) # {}}}
<1>1. FileByFile /\ file \in Nat \ {0} /\ Len(read) \in Nat /\ Len(list) \in Nat
  BY DEF CountingInv, Counting, ReadInv, NULL
<1>2. Len(read) = file - 1 /\ Len(read) = Len(list)
  BY <1>1 DEF FileByFile
<1>3. op = L!NoOp
  BY <1>1 DEF CountingInv, AddsFile, Counted
<1>4. PICK s, n : s = lists[Sum] /\ n = Len(read) /\ n = file - 1 /\ n \in Nat
  BY <1>1, <1>2
<1>5. s \in Seq(RowType) /\ OneEach(s)
  BY <1>4, CommandLineAssumption DEF Held, Sum
<1>6. ASSUME NEW l \in Languages PROVE HasLanguage(s, l) <=> SaidOf(l) # {}
  <2>1. HasLanguage(s, l) <=> \E k \in 1 .. file - 1 : HasLanguage(read[k], l)
    BY <1>3, <1>4 DEF RowsMet, Met
  <2>2. SaidOf(l) # {} <=> \E k \in 1 .. n : HasLanguage(read[k], l)
    BY <1>4, SaidWhere
  <2>3. QED
    BY <1>4, <2>1, <2>2
<1>7. ASSUME NEW l \in Languages PROVE LP!Get(s, l) = SumOf(l)
  <2>1. LP!Get(s, l) = added[Sum][l]
    BY <1>3, <1>4, CommandLineAssumption DEF Held, Sum
  <2>2. LP!Get(s, l) \in [L!LocFields -> Nat]
    BY <1>5, GetOnce
  <2>3. ASSUME NEW f \in L!LocFields PROVE LP!Get(s, l)[f] = SumOf(l)[f]
    <3>1. added[Sum][l][f] = LP!SumOf(Got(l, f))[n]
      BY <1>3, <1>4 DEF Summed, Whole
    <3>2. SumOf(l)[f] = LP!SumOf(Got(l, f))[n]
      BY <1>4, SumOfFiles
    <3>3. QED
      BY <2>1, <3>1, <3>2
  <2>4. PICK a, b : a = LP!Get(s, l) /\ b = SumOf(l)
    OBVIOUS
  <2>5. b = [f \in L!LocFields |-> b[f]]
    BY <2>4 DEF SumOf
  <2>6. a = [f \in L!LocFields |-> a[f]]
    BY <2>2, <2>4
  <2>7. \A f \in L!LocFields : a[f] = b[f]
    BY <2>3, <2>4
  <2>8. QED
    BY <2>4, <2>5, <2>6, <2>7
<1>8. \A i \in DOMAIN s : /\ s[i].language \in Languages
                          /\ s[i] = [language |-> s[i].language, n |-> s[i].n]
  <2>1. \A i \in DOMAIN s : s[i] \in RowType
    BY <1>5
  <2>2. QED
    BY <2>1 DEF RowType
<1>9. \A i \in DOMAIN s : s[i] = [language |-> s[i].language, n |-> SumOf(s[i].language)]
  <2>1. SUFFICES ASSUME NEW i \in DOMAIN s
                 PROVE  s[i] = [language |-> s[i].language, n |-> SumOf(s[i].language)]
    OBVIOUS
  <2>2. s[i].n = LP!Get(s, s[i].language)
    BY <1>5, <1>8, GetOnce
  <2>3. s[i].n = SumOf(s[i].language)
    BY <1>7, <1>8, <2>2
  <2>4. QED
    BY <1>8, <2>3
<1>10. ASSUME NEW l \in Languages, SaidOf(l) # {}
       PROVE  [language |-> l, n |-> SumOf(l)] \in ToSet(s)
  <2>1. PICK i \in DOMAIN s : s[i].language = l
    BY <1>6, <1>10 DEF HasLanguage
  <2>2. s[i] = [language |-> l, n |-> SumOf(l)]
    BY <1>9, <2>1
  <2>3. QED
    BY <2>2 DEF ToSet
<1>11. ASSUME NEW i \in DOMAIN s PROVE SaidOf(s[i].language) # {}
  BY <1>6, <1>8 DEF HasLanguage
<1>12. ToSet(s) = {s[i] : i \in DOMAIN s}
  BY DEF ToSet
<1>13. ToSet(s) = {[language |-> l, n |-> SumOf(l)] :
                     l \in {m \in Languages : SaidOf(m) # {}}}
  BY <1>8, <1>9, <1>10, <1>11, <1>12
<1>14. QED
  BY <1>2, <1>4, <1>13

LEMMA AllSummed == ReadInv /\ CountingInv /\ Held /\ SummaryInv => SummaryOfFiles
<1>. SUFFICES ASSUME ReadInv, CountingInv, Held, SummaryInv, ended, command = "summary"
              PROVE  SummaryOfFiles
  BY DEF SummaryOfFiles
<1>1. Summed /\ RowsMet /\ SumShown
  BY DEF SummaryInv
<1>2. file > Len(list)
  BY DEF CountingInv, Counting, FileByFile
<1>3. PICK s, r, x : /\ s = lists[Sum] /\ r = SelectionSort(s, MoreCode)
                     /\ \A f \in L!LocFields : x.n[f] = L!Total(s, f)
                     /\ out = Printed(<<>>, Append(r, x))
  BY <1>1 DEF SumShown
<1>4. s \in Seq(RowType) /\ OneEach(s)
  BY <1>3, CommandLineAssumption DEF Held, Sum
<1>5. /\ r \in Seq(RowType) /\ Len(r) = Len(s) /\ ToSet(r) = ToSet(s) /\ OneEach(r)
      /\ \A i, j \in DOMAIN r : i < j => ~MoreCode(r[j], r[i])
  BY <1>3, <1>4, SortedByCode
<1>. DEFINE c == Front(out)
<1>6. /\ DOMAIN c = DOMAIN r /\ Last(out).row = x
      /\ \A i \in DOMAIN r : c[i] = [path |-> <<>>, row |-> r[i]]
  BY <1>3, <1>5, PrintedRows
<1>. HIDE DEF c
<1>7. \A i \in DOMAIN r : c[i].row = r[i]
  BY <1>6
<1>8. {o.row : o \in ToSet(c)} = ToSet(r)
  <2>1. ToSet(r) = {r[i] : i \in DOMAIN r} /\ ToSet(c) = {c[i] : i \in DOMAIN r}
    BY <1>6 DEF ToSet
  <2>2. {o.row : o \in {c[i] : i \in DOMAIN r}} = {r[i] : i \in DOMAIN r}
    BY <1>7
  <2>3. QED
    BY <2>1, <2>2
<1>9. IsInjective(c)
  BY <1>5, <1>6, <1>7 DEF IsInjective, OneEach
<1>10. \A i, j \in DOMAIN c : i < j => ~MoreCode(c[j].row, c[i].row)
  <2>1. SUFFICES ASSUME NEW i \in DOMAIN c, NEW j \in DOMAIN c, i < j
                 PROVE  ~MoreCode(c[j].row, c[i].row)
    OBVIOUS
  <2>2. c[i].row = r[i] /\ c[j].row = r[j] /\ ~MoreCode(r[j], r[i])
    BY <1>5, <1>6, <1>7, <2>1
  <2>3. QED
    BY <2>2
<1>11. \A f \in L!LocFields :
         Last(out).row.n[f] = FoldLeft(LAMBDA sum, o : sum + o.row.n[f], 0, c)
  <2>1. SUFFICES ASSUME NEW f \in L!LocFields
                 PROVE  x.n[f] = FoldLeft(LAMBDA sum, o : sum + o.row.n[f], 0, c)
    BY <1>6
  <2>2. FoldLeft(LAMBDA sum, o : sum + o.row.n[f], 0, c) = LP!Total(r, f)
    BY <1>5, <1>6, <1>7, PrintedTotal
  <2>3. LP!Total(r, f) = LP!Total(s, f)
    BY <1>4, <1>5, SameRows
  <2>4. x.n[f] = L!Total(s, f)
    BY <1>3
  <2>5. QED
    BY <2>2, <2>3, <2>4, SameTotal
<1>12. /\ Len(read) = Len(list)
       /\ ToSet(s) = {[language |-> l, n |-> SumOf(l)] :
                        l \in {m \in Languages : SaidOf(m) # {}}}
  BY <1>1, <1>2, <1>3, SumRows
<1>13. {o.row : o \in ToSet(c)} = {[language |-> l, n |-> SumOf(l)] :
                                     l \in {m \in Languages : SaidOf(m) # {}}}
  BY <1>5, <1>8, <1>12
<1>14. QED
  BY <1>9, <1>10, <1>11, <1>12, <1>13 DEF SummaryOfFiles, c

LEMMA SummaryInit == CLInit => SummaryInv
  BY DEF CLInit, SummaryInv, NULL

LEMMA SummaryStart == CountingInv /\ Held /\ Start => SummaryInv'
<1>. SUFFICES ASSUME CountingInv, Held, Start PROVE SummaryInv'
  OBVIOUS
<1>1. /\ Fresh /\ file' = file /\ op' = op /\ read' = read /\ lists' = lists
      /\ added' = added /\ ended' = ended
  BY DEF Start, CountingInv, locVars
<1>2. /\ file = 1 /\ op = L!NoOp /\ ~ended /\ lists[Sum] = <<>>
      /\ Sum \in 0 .. MaxListed
  BY <1>1, CommandLineAssumption DEF Fresh, Sum
<1>3. ASSUME NEW l \in Languages, NEW f \in L!LocFields
      PROVE  added'[Sum][l][f] = LP!SumOf(Got(l, f)')[Whole']
  <2>1. LP!Get(lists[Sum], l) = added[Sum][l]
    BY <1>2 DEF Held
  <2>2. ~HasLanguage(<<>>, l)
    BY DEF HasLanguage
  <2>3. <<>> \in Seq(RowType) /\ OneEach(<<>>)
    BY DEF OneEach
  <2>4. LP!Get(<<>>, l) = [x \in L!LocFields |-> 0]
    BY <2>2, <2>3, GetOnce
  <2>5. Whole' = 0
    BY <1>1, <1>2 DEF Whole
  <2>6. LP!SumOf(Got(l, f)')[0] = 0
    BY SumStep
  <2>7. QED
    BY <1>1, <1>2, <2>1, <2>4, <2>5, <2>6
<1>4. RowsMet'
  <2>1. SUFFICES ASSUME NEW l \in Languages
                 PROVE  ~HasLanguage(lists'[Sum], l) /\ ~Met(l)'
    BY DEF RowsMet
  <2>2. QED
    BY <1>1, <1>2 DEF Met, HasLanguage
<1>5. Summed'
  BY <1>3 DEF Summed
<1>6. QED
  BY <1>1, <1>2, <1>4, <1>5 DEF SummaryInv

\* What the sum has of the files stays.
LEMMA SummedStays ==
  ASSUME Summed, NEW m \in Nat, Whole = m, Whole' = m,
         Len(read) \in Nat, Len(read') \in Nat, m <= Len(read), m <= Len(read'),
         \A k \in 1 .. m : read'[k] = read[k], added'[Sum] = added[Sum]
  PROVE  Summed'
<1>1. SUFFICES ASSUME NEW l \in Languages, NEW f \in L!LocFields
               PROVE  added'[Sum][l][f] = LP!SumOf(Got(l, f)')[m]
  BY DEF Summed
<1>2. PICK g, h : g = Got(l, f) /\ h = Got(l, f)'
  OBVIOUS
<1>3. \A k \in 1 .. m : h[k] = g[k]
  <2>1. SUFFICES ASSUME NEW k \in 1 .. m PROVE h[k] = g[k]
    OBVIOUS
  <2>2. k \in 1 .. Len(read) /\ k \in 1 .. Len(read') /\ read'[k] = read[k]
    OBVIOUS
  <2>3. g[k] = LP!Get(read[k], l)[f] /\ h[k] = LP!Get(read'[k], l)[f]
    BY <1>2, <2>2 DEF Got
  <2>4. QED
    BY <2>2, <2>3
<1>4. LP!SumOf(h)[m] = LP!SumOf(g)[m]
  BY <1>3, Same
<1>5. added[Sum][l][f] = LP!SumOf(g)[m]
  BY <1>2 DEF Summed
<1>6. QED
  BY <1>2, <1>4, <1>5

LEMMA SummaryParse ==
    WalkInv /\ ReadInv /\ CountingInv /\ SummaryInv /\ ParseFile => SummaryInv'
<1>. SUFFICES ASSUME WalkInv, ReadInv, CountingInv, SummaryInv, ParseFile,
                     command = "summary"
              PROVE  SummaryInv'
  BY DEF ParseFile, SummaryInv
<1>1. /\ command' = command /\ file' = file /\ op' = op /\ lists' = lists
      /\ added' = added /\ ended' = ended /\ file <= Len(list)
  BY DEF ParseFile, locVars
<1>2. /\ Len(read) = file - 1 /\ Len(read') = file /\ file \in Nat \ {0}
      /\ \A k \in 1 .. file - 1 : read'[k] = read[k]
  BY FileRead DEF ReadInv
<1>3. op = L!NoOp
  BY <1>2 DEF CountingInv, AddsFile, Counted
<1>4. Summed /\ RowsMet /\ ~ended
  <2>1. FileByFile /\ Len(list) \in Nat
    BY DEF CountingInv, Counting, ReadInv, NULL
  <2>2. QED
    BY <1>1, <1>2, <2>1 DEF SummaryInv, FileByFile
<1>5. PICK m \in Nat : m = file - 1
  BY <1>2
<1>6. Whole = m /\ Whole' = m
  BY <1>1, <1>3, <1>5 DEF Whole
<1>7. Summed'
  <2>1. m <= Len(read) /\ m <= Len(read') /\ Len(read) \in Nat /\ Len(read') \in Nat
    BY <1>2, <1>5
  <2>2. \A k \in 1 .. m : read'[k] = read[k]
    BY <1>2, <1>5
  <2>3. QED
    BY <1>1, <1>4, <1>6, <2>1, <2>2, SummedStays
<1>8. RowsMet'
  <2>1. ASSUME NEW l \in Languages PROVE Met(l)' <=> Met(l)
    BY <1>1, <1>2, <1>3 DEF Met
  <2>2. QED
    BY <1>1, <1>4, <2>1 DEF RowsMet
<1>9. QED
  BY <1>1, <1>4, <1>7, <1>8 DEF SummaryInv

\* Nothing the sum is about changes.
LEMMA SummaryStays ==
  ASSUME ReadInv, CountingInv, SummaryInv, command' = command, file' = file, op' = op,
         read' = read, lists' = lists, added' = added,
         (ended' = ended /\ out' = out) \/ SumShown'
  PROVE  SummaryInv'
<1>. SUFFICES ASSUME command = "summary" PROVE SummaryInv'
  BY DEF SummaryInv
<1>1. Summed /\ RowsMet /\ (ended => SumShown)
  BY DEF SummaryInv
<1>2. Whole' = Whole /\ (\A l, f : Got(l, f)' = Got(l, f)) /\ (\A l : Met(l)' <=> Met(l))
  BY DEF Whole, Got, Met
<1>3. Summed'
  BY <1>1, <1>2 DEF Summed
<1>4. RowsMet'
  BY <1>1, <1>2 DEF RowsMet
<1>5. ended' => SumShown'
  <2>1. CASE ended' = ended /\ out' = out
    <3>. SUFFICES ASSUME ended PROVE SumShown'
      BY <2>1
    <3>1. PICK s, r, x : /\ s = lists[Sum] /\ r = SelectionSort(s, MoreCode)
                         /\ \A f \in L!LocFields : x.n[f] = L!Total(s, f)
                         /\ out = Printed(<<>>, Append(r, x))
      BY <1>1 DEF SumShown
    <3>2. s = lists'[Sum] /\ out' = Printed(<<>>, Append(r, x))
      BY <2>1, <3>1
    <3>3. QED
      BY <3>1, <3>2 DEF SumShown
  <2>2. QED
    BY <2>1
<1>6. QED
  BY <1>3, <1>4, <1>5 DEF SummaryInv

\* The counts of a file are not those of the sum.
LEMMA SummaryCount ==
    ReadInv /\ CountingInv /\ Held /\ SummaryInv /\ CountLanguage => SummaryInv'
<1>. SUFFICES ASSUME ReadInv, CountingInv, Held, SummaryInv, CountLanguage,
                     command = "summary"
              PROVE  SummaryInv'
  BY DEF CountLanguage, SummaryInv
<1>1. /\ command' = command /\ file' = file /\ read' = read
      /\ ended' = ended /\ file <= Len(list) /\ Len(read) = file
  BY DEF CountLanguage
<1>2. file \in Nat \ {0} /\ file # Sum /\ Sum \in 0 .. MaxListed
  BY CommandLineAssumption DEF ReadInv, Sum
<1>3. op' = op /\ op = L!NoOp /\ lists'[Sum] = lists[Sum] /\ added'[Sum] = added[Sum]
  <2>1. PICK l, n, x, y :
          /\ L!AddOne(file, l, n)
          /\ x = L!Add(lists[file], [language |-> l, n |-> n])
          /\ y = L!Gathered(added[file][l], n)
    BY DEF CountLanguage
  <2>2. /\ op' = op /\ op = L!NoOp /\ lists' = [lists EXCEPT ![file] = x]
        /\ added' = [added EXCEPT ![file][l] = y]
    BY <2>1 DEF L!AddOne, L!Call
  <2>3. Sum \in DOMAIN lists /\ Sum \in DOMAIN added
    BY <1>2 DEF Held
  <2>4. QED
    BY <1>2, <2>2, <2>3
<1>4. Summed /\ RowsMet /\ ~ended
  <2>1. FileByFile /\ Len(list) \in Nat
    BY DEF CountingInv, Counting, ReadInv, NULL
  <2>2. QED
    BY <1>1, <1>2, <2>1 DEF SummaryInv, FileByFile
<1>5. Whole' = Whole /\ (\A l, f : Got(l, f)' = Got(l, f)) /\ (\A l : Met(l)' <=> Met(l))
  BY <1>1, <1>3 DEF Whole, Got, Met
<1>6. Summed'
  BY <1>3, <1>4, <1>5 DEF Summed
<1>7. RowsMet'
  BY <1>3, <1>4, <1>5 DEF RowsMet
<1>8. QED
  BY <1>1, <1>4, <1>6, <1>7 DEF SummaryInv

\* The sum is promised what the file said, which its list now has.
LEMMA SummaryAnalyze ==
    ReadInv /\ CountingInv /\ Held /\ SummaryInv /\ AnalyzeFile => SummaryInv'
<1>. SUFFICES ASSUME ReadInv, CountingInv, Held, SummaryInv, AnalyzeFile PROVE SummaryInv'
  OBVIOUS
<1>1. /\ command = "summary" /\ Counting /\ Counted /\ op = L!NoOp
      /\ command' = command /\ file' = file /\ read' = read /\ lists' = lists
      /\ ended' = ended
      /\ op' = [target |-> Sum, source |-> file, at |-> 1, compact |-> FALSE]
      /\ added' = [added EXCEPT ![Sum] =
                     [l \in Languages |-> L!Gathered(added[Sum][l], added[file][l])]]
  BY DEF AnalyzeFile, L!AddList, Counting
<1>2. op' # L!NoOp /\ op'.at = 1
  <2>1. "at" \in DOMAIN op' /\ "at" \notin DOMAIN L!NoOp
    BY <1>1 DEF L!NoOp
  <2>2. QED
    BY <1>1, <2>1
<1>3. /\ file \in DOMAIN read /\ file \in 1 .. MaxListed /\ lists[file] = read[file]
      /\ Sum \in 0 .. MaxListed /\ file \in 0 .. MaxListed /\ file \in Nat \ {0}
  BY <1>1, FileCounted, CommandLineAssumption DEF Sum, ReadInv
<1>4. Summed /\ RowsMet /\ ~ended
  <2>1. FileByFile /\ file <= Len(list) /\ Len(list) \in Nat
    BY <1>1 DEF CountingInv, Counted, ReadInv, Counting, NULL
  <2>2. QED
    BY <1>1, <1>3, <2>1 DEF SummaryInv, FileByFile
<1>5. ASSUME NEW l \in Languages, NEW f \in L!LocFields
      PROVE  added'[Sum][l][f] = LP!SumOf(Got(l, f)')[Whole']
  <2>1. PICK g, m : g = Got(l, f) /\ m = file - 1 /\ m + 1 = file /\ m \in Nat
    BY <1>3
  <2>2. Got(l, f)' = g /\ Whole = m /\ Whole' = m + 1
    BY <1>1, <1>2, <2>1 DEF Got, Whole
  <2>3. added[Sum][l][f] = LP!SumOf(g)[m]
    BY <1>4, <2>1, <2>2 DEF Summed
  <2>4. added[file][l][f] = g[m + 1]
    <3>1. LP!Get(lists[file], l) = added[file][l]
      BY <1>1, <1>3 DEF Held
    <3>2. Got(l, f)[file] = LP!Get(read[file], l)[f]
      BY <1>3, GotType DEF ReadInv
    <3>3. QED
      BY <1>3, <2>1, <3>1, <3>2
  <2>5. added'[Sum][l][f] = added[Sum][l][f] + added[file][l][f]
    <3>1. /\ DOMAIN added = 0 .. MaxListed
          /\ added[Sum][l] \in [L!LocFields -> Nat]
      BY <1>3 DEF Held
    <3>2. added'[Sum] = [k \in Languages |-> L!Gathered(added[Sum][k], added[file][k])]
      BY <1>1, <1>3, <3>1
    <3>3. added'[Sum][l] = L!Gathered(added[Sum][l], added[file][l])
      BY <3>2
    <3>4. QED
      BY <3>1, <3>3 DEF L!Gathered
  <2>6. LP!SumOf(g)[m + 1] = LP!SumOf(g)[m] + g[m + 1]
    BY <2>1, SumStep
  <2>7. QED
    BY <2>2, <2>3, <2>4, <2>5, <2>6
<1>6. RowsMet'
  <2>1. ASSUME NEW l \in Languages PROVE Met(l)' <=> Met(l)
    <3>1. \A i \in DOMAIN lists[file] : ~(i < 1)
      BY <1>1, <1>3, FileCounted
    <3>2. QED
      BY <1>1, <1>2, <3>1 DEF Met
  <2>2. QED
    BY <1>1, <1>4, <2>1 DEF RowsMet
<1>7. Summed'
  BY <1>5 DEF Summed
<1>8. QED
  BY <1>1, <1>4, <1>6, <1>7 DEF SummaryInv

\* add_loc gives the list the language, and takes none away.
LEMMA LanguageAdded ==
  ASSUME NEW s \in Seq(RowType), NEW x \in RowType, NEW l
  PROVE  HasLanguage(L!AddLoc(s, x), l) <=> HasLanguage(s, l) \/ x.language = l
<1>1. CASE L!At(s, x.language) = {}
  <2>1. PICK t : t = L!AddLoc(s, x)
    OBVIOUS
  <2>2. t = Append(s, x)
    BY <1>1, <2>1 DEF L!AddLoc
  <2>3. /\ DOMAIN t = 1 .. Len(s) + 1 /\ DOMAIN s = 1 .. Len(s) /\ Len(s) \in Nat
        /\ t[Len(s) + 1] = x /\ \A i \in 1 .. Len(s) : t[i] = s[i]
    BY <2>2
  <2>4. \A i : i \in DOMAIN t <=> i \in DOMAIN s \/ i = Len(s) + 1
    BY <2>3
  <2>5. HasLanguage(t, l) <=> HasLanguage(s, l) \/ x.language = l
    BY <2>3, <2>4 DEF HasLanguage
  <2>6. QED
    BY <2>1, <2>5
<1>2. CASE L!At(s, x.language) # {}
  <2>1. PICK t, i, n : t = L!AddLoc(s, x) /\ i = L!First(s, x.language)
                       /\ n = L!Plus(s[i].n, x.n)
    OBVIOUS
  <2>2. i \in DOMAIN s /\ s[i].language = x.language
    <3>1. PICK a : a = L!At(s, x.language)
      OBVIOUS
    <3>2. a \in SUBSET Nat /\ a # {}
      BY <1>2, <3>1 DEF L!At
    <3>3. \E h \in a : \A k \in a : h <= k
      BY <3>2, LeastNat
    <3>4. i \in a
      BY <2>1, <3>1, <3>3 DEF L!First
    <3>5. QED
      BY <3>1, <3>4 DEF L!At
  <2>3. t = [s EXCEPT ![i].n = n]
    BY <1>2, <2>1, <2>2 DEF L!AddLoc
  <2>4. DOMAIN t = DOMAIN s /\ \A h \in DOMAIN s : t[h].language = s[h].language
    <3>1. \A h \in DOMAIN s : s[h] \in RowType
      OBVIOUS
    <3>2. QED
      BY <2>2, <2>3, <3>1 DEF RowType
  <2>5. HasLanguage(t, l) <=> HasLanguage(s, l) \/ x.language = l
    BY <2>2, <2>4 DEF HasLanguage
  <2>6. QED
    BY <2>1, <2>5
<1>3. QED
  BY <1>1, <1>2

\* Each item of the file's list gives the sum its language.
LEMMA SummaryItem ==
    ReadInv /\ CountingInv /\ Held /\ SummaryInv /\ AnalyzeItem => SummaryInv'
<1>. SUFFICES ASSUME ReadInv, CountingInv, Held, SummaryInv, AnalyzeItem PROVE SummaryInv'
  OBVIOUS
<1>1. /\ command' = command /\ file' = file /\ read' = read /\ ended' = ended
      /\ added' = added /\ op # L!NoOp
  BY DEF AnalyzeItem, L!NextItem
<1>2. PICK x : x = lists[file][op.at]
  OBVIOUS
<1>3. /\ AddsFile /\ op.at <= Len(lists[file]) /\ op' = [op EXCEPT !.at = op.at + 1]
      /\ lists' = [lists EXCEPT ![Sum] = L!AddLoc(lists[Sum], x)]
  BY <1>2, ItemOfFile
<1>4. /\ command = "summary" /\ Counting /\ Counted /\ op.at \in Nat \ {0}
  BY <1>3 DEF AddsFile, Counting
<1>5. op' # L!NoOp /\ op'.at = op.at + 1
  <2>1. "at" \in DOMAIN op /\ "at" \notin DOMAIN L!NoOp
    BY <1>1 DEF Held, LP!Ops, L!NoOp
  <2>2. "at" \in DOMAIN op'
    BY <1>3, <2>1
  <2>3. QED
    BY <1>3, <2>1, <2>2
<1>6. PICK s, t, k : s = lists[Sum] /\ t = lists[file] /\ k = op.at
  OBVIOUS
<1>7. /\ file \in Nat \ {0} /\ file \in 1 .. MaxListed /\ file # Sum
      /\ Sum \in 0 .. MaxListed /\ file \in 0 .. MaxListed
  BY <1>4, FileCounted, CommandLineAssumption DEF Sum, ReadInv
<1>8. s \in Seq(RowType) /\ t \in Seq(RowType) /\ DOMAIN lists = 0 .. MaxListed
  BY <1>6, <1>7 DEF Held
<1>9. k \in DOMAIN t /\ t[k] = x /\ x \in RowType /\ k \in Nat
  BY <1>2, <1>3, <1>4, <1>6, <1>8
<1>10. lists'[Sum] = L!AddLoc(s, x) /\ lists'[file] = t
  <2>1. PICK y : y = L!AddLoc(s, x)
    OBVIOUS
  <2>2. lists' = [lists EXCEPT ![Sum] = y]
    BY <1>3, <1>6, <2>1
  <2>3. QED
    BY <1>6, <1>7, <1>8, <2>1, <2>2
<1>11. Summed /\ RowsMet /\ ~ended
  <2>1. FileByFile /\ file <= Len(list) /\ Len(list) \in Nat
    BY <1>4 DEF CountingInv, Counted, ReadInv, Counting, NULL
  <2>2. QED
    BY <1>4, <1>7, <2>1 DEF SummaryInv, FileByFile
<1>12. Summed'
  <2>1. Whole' = Whole /\ (\A l, f : Got(l, f)' = Got(l, f))
    BY <1>1, <1>5 DEF Whole, Got
  <2>2. QED
    BY <1>1, <1>11, <2>1 DEF Summed
<1>13. ASSUME NEW l \in Languages PROVE HasLanguage(lists'[Sum], l) <=> Met(l)'
  <2>1. HasLanguage(lists'[Sum], l) <=> HasLanguage(s, l) \/ x.language = l
    BY <1>8, <1>9, <1>10, LanguageAdded
  <2>2. HasLanguage(s, l) <=> Met(l)
    BY <1>6, <1>11 DEF RowsMet
  <2>3. Met(l) <=> \/ \E m \in 1 .. file - 1 : HasLanguage(read[m], l)
                   \/ \E i \in DOMAIN t : i < k /\ t[i].language = l
    BY <1>1, <1>6 DEF Met
  <2>4. Met(l)' <=> \/ \E m \in 1 .. file - 1 : HasLanguage(read[m], l)
                    \/ \E i \in DOMAIN t : i < k + 1 /\ t[i].language = l
    BY <1>1, <1>5, <1>6, <1>10 DEF Met
  <2>5. \A i \in DOMAIN t : i < k + 1 <=> i < k \/ i = k
    BY <1>8, <1>9
  <2>6. (\E i \in DOMAIN t : i < k + 1 /\ t[i].language = l)
          <=> (\E i \in DOMAIN t : i < k /\ t[i].language = l) \/ x.language = l
    BY <1>9, <2>5
  <2>7. QED
    BY <2>1, <2>2, <2>3, <2>4, <2>6
<1>14. RowsMet'
  BY <1>13 DEF RowsMet
<1>15. QED
  BY <1>1, <1>11, <1>12, <1>14 DEF SummaryInv

\* When the whole list has been gone through the file is behind.
LEMMA SummaryAnalyzed ==
    ReadInv /\ CountingInv /\ Held /\ SummaryInv /\ FileAnalyzed => SummaryInv'
<1>. SUFFICES ASSUME ReadInv, CountingInv, Held, SummaryInv, FileAnalyzed PROVE SummaryInv'
  OBVIOUS
<1>1. /\ command' = command /\ file' = file + 1 /\ read' = read /\ ended' = ended
      /\ added' = added /\ lists' = lists /\ op # L!NoOp /\ op' = L!NoOp
      /\ op.at > Len(lists[op.source])
  BY DEF FileAnalyzed, L!EndOfList, NextFile
<1>2. AddsFile
  BY <1>1 DEF CountingInv
<1>3. /\ command = "summary" /\ Counting /\ Counted /\ op.source = file
      /\ op.at \in Nat \ {0}
  BY <1>2 DEF AddsFile, Counting
<1>4. /\ file \in Nat \ {0} /\ file \in DOMAIN read /\ lists[file] = read[file]
      /\ read[file] \in Seq(RowType) /\ Len(read) = file
  BY <1>3, FileCounted DEF ReadInv, Counted
<1>5. Summed /\ RowsMet /\ ~ended
  <2>1. FileByFile /\ file <= Len(list) /\ Len(list) \in Nat
    BY <1>3 DEF CountingInv, Counted, ReadInv, Counting, NULL
  <2>2. QED
    BY <1>3, <1>4, <2>1 DEF SummaryInv, FileByFile
<1>6. Summed'
  <2>1. Whole = file /\ Whole' = file
    BY <1>1, <1>4 DEF Whole
  <2>2. Whole' = Whole /\ (\A l, f : Got(l, f)' = Got(l, f))
    BY <1>1, <2>1 DEF Got
  <2>3. QED
    BY <1>1, <1>5, <2>2 DEF Summed
<1>7. ASSUME NEW l \in Languages PROVE Met(l)' <=> Met(l)
  <2>1. PICK t : t = read[file]
    OBVIOUS
  <2>2. (\E i \in DOMAIN t : i < op.at /\ t[i].language = l) <=> HasLanguage(t, l)
    <3>1. \A i \in DOMAIN t : i < op.at
      BY <1>1, <1>3, <1>4, <2>1
    <3>2. QED
      BY <3>1 DEF HasLanguage
  <2>3. Met(l) <=> (\E m \in 1 .. file - 1 : HasLanguage(read[m], l)) \/ HasLanguage(t, l)
    BY <1>1, <1>4, <2>1, <2>2 DEF Met
  <2>4. Met(l)' <=> \E m \in 1 .. file : HasLanguage(read[m], l)
    <3>1. file' - 1 = file
      BY <1>1, <1>4
    <3>2. QED
      BY <1>1, <3>1 DEF Met
  <2>5. \A m : m \in 1 .. file <=> m \in 1 .. file - 1 \/ m = file
    BY <1>4
  <2>6. QED
    BY <2>1, <2>3, <2>4, <2>5
<1>8. RowsMet'
  BY <1>1, <1>5, <1>7 DEF RowsMet
<1>9. QED
  BY <1>1, <1>5, <1>6, <1>8 DEF SummaryInv

LEMMA SummaryPrint ==
    ReadInv /\ CountingInv /\ SummaryInv /\ PrintSummary => SummaryInv'
<1>. SUFFICES ASSUME ReadInv, CountingInv, SummaryInv, PrintSummary PROVE SummaryInv'
  OBVIOUS
<1>1. /\ command' = command /\ file' = file /\ op' = op /\ read' = read
      /\ lists' = lists /\ added' = added
  BY DEF PrintSummary, locVars
<1>2. PICK s, r, x : s = lists[Sum] /\ r = SelectionSort(s, MoreCode) /\ x = TotalRow
  OBVIOUS
<1>3. rows' = r
  BY <1>2 DEF PrintSummary
<1>4. out' = Printed(<<>>, Append(rows', x))
  BY <1>2 DEF PrintSummary
<1>5. \A f \in L!LocFields : x.n[f] = L!Total(s, f)
  BY <1>2 DEF TotalRow
<1>6. s = lists'[Sum] /\ out' = Printed(<<>>, Append(r, x))
  BY <1>1, <1>2, <1>3, <1>4
<1>7. SumShown'
  BY <1>2, <1>5, <1>6 DEF SumShown
<1>8. QED
  BY <1>1, <1>7, SummaryStays

LEMMA SummaryStep ==
    WalkInv /\ ReadInv /\ CountingInv /\ Held /\ SummaryInv /\ [CLNext]_clAll => SummaryInv'
<1>. SUFFICES ASSUME WalkInv, ReadInv, CountingInv, Held, SummaryInv, [CLNext]_clAll
              PROVE  SummaryInv'
  OBVIOUS
<1>0. ASSUME UNCHANGED clVars PROVE SummaryInv'
  BY <1>0, SummaryStays DEF clVars, locVars
<1>1. CASE ListStep /\ UNCHANGED clVars
  BY <1>0, <1>1
<1>2. CASE (\E p \in Paths, k \in Kinds : Change(p, k)) /\ UNCHANGED clVars
  BY <1>0, <1>2
<1>3. CASE Start
  BY <1>3, SummaryStart
<1>4. CASE ParseFile
  BY <1>4, SummaryParse
<1>5. CASE CountLanguage
  BY <1>5, SummaryCount
<1>6. CASE AnalyzeFile
  BY <1>6, SummaryAnalyze
<1>7. CASE AnalyzeItem
  BY <1>7, SummaryItem
<1>8. CASE FileAnalyzed
  BY <1>8, SummaryAnalyzed
<1>9. CASE PrintSummary
  BY <1>9, SummaryPrint
<1>10. CASE PrintFile
  BY <1>10 DEF PrintFile, SummaryInv
<1>11. CASE PrintAnswer
  <2>1. command \in EachFile /\ command' = command
    BY <1>11 DEF PrintAnswer
  <2>2. command # "summary"
    BY <2>1, CommandLineAssumption
  <2>3. QED
    BY <2>1, <2>2 DEF SummaryInv
<1>12. CASE End
  <2>1. command # "summary" /\ command' = command
    BY <1>12, CommandLineAssumption DEF End
  <2>2. QED
    BY <2>1 DEF SummaryInv
<1>13. CASE UNCHANGED clAll
  BY <1>0, <1>13 DEF clAll
<1>14. QED
  BY <1>1, <1>2, <1>3, <1>4, <1>5, <1>6, <1>7, <1>8, <1>9, <1>10, <1>11, <1>12, <1>13
     DEF CLNext, CLStep

\* When summary (ohcount.c) is done, it has printed one row for each language
\* that any of the files had when it was read, with all the files' counts of
\* it, sorted by code, and the sums of the rows, for every list of files and
\* whatever other programs do to the tree meanwhile.
THEOREM SummaryOfFilesAlways == CLSpec => []SummaryOfFiles
  BY SummaryInit, SummaryStep, AllSummed, CLWalkAlways, ReadAlways, CountingAlways,
     HeldAlways, PTL DEF CLSpec, clAll
=============================================================================
