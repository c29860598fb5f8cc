----------------------------- MODULE ModuleMap -----------------------------
(***************************************************************************)
(* repodna_architecture::modules::infer_modules: the modules of a          *)
(* repository, from the directories of its code files and the packages     *)
(* that are declared. A directory is the sequence of its names; a file is  *)
(* an index into the sequence of the directories of the files.             *)
(***************************************************************************)
EXTENDS Naturals, FiniteSets, Sequences, SequencesExt

CONSTANTS
  GroupingDirs,      \* GROUPING_DIRS
  SourceRoots,       \* SOURCE_ROOTS
  MaxSourceDepth,    \* MAX_SOURCE_DEPTH
  DominantMinFiles,  \* DOMINANT_MIN_FILES
  SplitPasses        \* SPLIT_PASSES

Within(dir, base) == IsPrefix(base, dir)
Child(dir, base) == dir[Len(base) + 1]
Direct(dirs, base, files) == {f \in files : dirs[f] = base}
Children(dirs, base, files) == {Child(dirs[f], base) : f \in files \ Direct(dirs, base, files)}
Below(dirs, base, files, child) ==
  {f \in files \ Direct(dirs, base, files) : Child(dirs[f], base) = child}

(* A module under construction. *)
Draft(kind, path, package, files) ==
  [kind |-> kind, path |-> path, package |-> package, files |-> files]
NoPackage == <<>>
Directory(path, files) ==
  Draft(IF path = <<>> THEN "root" ELSE "directory", path, NoPackage, files)
DirectFiles(dirs, path, files) ==
  IF Direct(dirs, path, files) = {} THEN {}
  ELSE {Directory(path, Direct(dirs, path, files))}

-----------------------------------------------------------------------------
(* Down while every file is below one single child.                        *)
RECURSIVE Collapse(_, _, _)
Collapse(dirs, base, files) ==
  LET children == Children(dirs, base, files) IN
  IF Direct(dirs, base, files) = {} /\ Cardinality(children) = 1
  THEN Collapse(dirs, Append(base, CHOOSE c \in children : TRUE), files)
  ELSE base

IsSourceRoot(base, child) ==
  \/ child \in SourceRoots
  \/ base # <<>> /\ Last(base) = "src" /\ child \in {"main", "test"}

Grouped_NoDirect(dirs, path, files) ==
  {Directory(Append(path, c), Below(dirs, path, files, c)) : c \in Children(dirs, path, files)}
Grouped(dirs, path, files) ==
  DirectFiles(dirs, path, files) \cup
  {Directory(Append(path, c), Below(dirs, path, files, c)) : c \in Children(dirs, path, files)}

RECURSIVE Partition(_, _, _, _)
Partition(dirs, from, files, depth) ==
  LET base == Collapse(dirs, from, files)
      Module(child) ==
        LET path == Append(base, child)
            members == Below(dirs, base, files, child)
        IN IF IsSourceRoot(base, child) /\ depth < MaxSourceDepth
           THEN Partition(dirs, path, members, depth + 1)
           ELSE IF child \in GroupingDirs
           THEN Grouped(dirs, path, members)
           ELSE {Directory(path, members)}
  IN DirectFiles(dirs, base, files)
       \cup UNION {Module(c) : c \in Children(dirs, base, files)}

-----------------------------------------------------------------------------
(* One pass: modules with at least half of the files are split.            *)
Dominant(draft, total) ==
  Cardinality(draft.files) >= DominantMinFiles /\ Cardinality(draft.files) * 2 >= total

(* The package's own directory keeps its identity. *)
Identified(draft, part) ==
  IF draft.kind = "package" /\ part.path = draft.path
  THEN [part EXCEPT !.kind = "package", !.package = draft.package] ELSE part

SplitPass(dirs, drafts) ==
  LET Split(draft) ==
        LET parts == Partition(dirs, draft.path, draft.files, 0) IN
        IF Dominant(draft, Len(dirs)) /\ Cardinality(parts) >= 2
        THEN {Identified(draft, part) : part \in parts} ELSE {draft}
  IN UNION {Split(draft) : draft \in drafts}

(* A file belongs to the deepest package that contains it; one at the root *)
(* of the repository contains everything and does not count.               *)
Owner(dir, packages) ==
  LET owners == {p \in packages : p # <<>> /\ Within(dir, p)} IN
  IF owners = {} THEN NoPackage
  ELSE CHOOSE p \in owners : \A q \in owners : Len(q) <= Len(p)

(* Drafts before the merge of those with equal directories. *)
Drafts(dirs, packages) ==
  LET files == DOMAIN dirs
      owner == [f \in files |-> Owner(dirs[f], packages)]
      owned == {owner[f] : f \in files} \ {NoPackage}
      unpackaged == {f \in files : owner[f] = NoPackage}
      first == {Draft("package", p, p, {f \in files : owner[f] = p}) : p \in owned}
               \cup IF unpackaged = {} THEN {} ELSE Partition(dirs, <<>>, unpackaged, 0)
      Pass(drafts, i) == SplitPass(dirs, drafts)
  IN FoldLeft(Pass, first, [i \in 1..SplitPasses |-> i])

(* One module for each directory; it is a package if one of its drafts is. *)
Merge(drafts) ==
  LET At(path) == {d \in drafts : d.path = path}
      Merged(path) ==
        LET some == IF \E d \in At(path) : d.kind = "package"
                    THEN CHOOSE d \in At(path) : d.kind = "package"
                    ELSE CHOOSE d \in At(path) : TRUE
        IN [some EXCEPT !.files = UNION {d.files : d \in At(path)}]
  IN {Merged(d.path) : d \in drafts}

InferModules(dirs, packages) == Merge(Drafts(dirs, packages))

-----------------------------------------------------------------------------
(* Display names of the modules that have no package: as few names at the  *)
(* end of their directory as tell them apart.                              *)
RECURSIVE Extend(_, _)
Extend(modules, count) ==
  LET Name(m) == IF m.kind = "directory"
                 THEN SubSeq(m.path, Len(m.path) - count[m] + 1, Len(m.path))
                 ELSE IF m.kind = "root" THEN <<"(root)">> ELSE <<Last(m.package)>>
      short == {m \in modules : /\ m.kind = "directory" /\ count[m] < Len(m.path)
                                /\ \E n \in modules \ {m} : Name(n) = Name(m)}
  IN IF short = {} THEN [m \in modules |-> Name(m)]
     ELSE Extend(modules, [m \in modules |-> IF m \in short THEN count[m] + 1 ELSE count[m]])

AssignNames(modules) == Extend(modules, [m \in modules |-> 1])

(* repodna_report::ci::module_for_path: who looks up the owner of a file   *)
(* later, in an artifact; the root module owns what is directly in it.     *)
ModuleForPath(modules, dir) ==
  LET owners == {m \in modules : IF m.path = <<>> THEN dir = <<>> ELSE Within(dir, m.path)}
  IN CHOOSE m \in owners : \A n \in owners : Len(n.path) <= Len(m.path)

(* ModuleMap::index_containing *)
IndexContaining(modules, dir) ==
  LET owners == {m \in modules : Within(dir, m.path)}
  IN CHOOSE m \in owners : \A n \in owners : Len(n.path) <= Len(m.path)

-----------------------------------------------------------------------------
(* The drafts never share a directory or a file: the merge of drafts with  *)
(* the same directory is, as its comment says, "defensive; normally        *)
(* impossible" (modules.rs:311), and no file is lost by splitting.         *)
DraftsAreDisjoint(dirs, packages) ==
  LET drafts == Drafts(dirs, packages) IN
  /\ UNION {d.files : d \in drafts} = DOMAIN dirs
  /\ \A d, e \in drafts : d # e => d.path # e.path /\ d.files \cap e.files = {}

(* Every file is in the module whose directory is the longest prefix of    *)
(* its own. Whoever has only the list of modules relies on this to find    *)
(* the module of a file: index_containing, and the report for CI.          *)
FilesAreInDeepestModule(dirs, packages) ==
  LET modules == InferModules(dirs, packages) IN
  \A m \in modules : \A f \in m.files :
    IndexContaining(modules, dirs[f]) = m /\ ModuleForPath(modules, dirs[f]) = m

(* A package that has files keeps them: the modules below its directory    *)
(* hold its files and no others, but those of packages inside it, and if   *)
(* it has files directly in it, its own module is still a package.         *)
PackagesKeepFiles(dirs, packages) ==
  LET modules == InferModules(dirs, packages) IN
  \A f \in DOMAIN dirs :
    LET owner == Owner(dirs[f], packages)
        m == CHOOSE m \in modules : f \in m.files
    IN IF owner = NoPackage THEN m.kind # "package"
       ELSE /\ Within(m.path, owner)
            /\ dirs[f] = owner => m.kind = "package" /\ m.package = owner

(* No two modules that are named after their directories share a name.     *)
NamesTellApart(dirs, packages) ==
  LET modules == InferModules(dirs, packages)
      name == AssignNames(modules)
  IN \A m, n \in modules :
       m # n /\ name[m] = name[n] => m.kind = "package" \/ n.kind = "package"
=============================================================================
