----------------------------- MODULE RustImports -----------------------------
(***************************************************************************)
(* repodna_architecture::resolve for Rust: which file a `mod` declaration  *)
(* or a `use` path stands for, by the paths of the files alone.            *)
(*                                                                         *)
(* The path of a file is the sequence of its names without ".rs". An       *)
(* import has a kind ("module" or "import") and the segments of its path.  *)
(***************************************************************************)
EXTENDS Naturals, Sequences, SequencesExt

CONSTANTS
  Types,    \* segments that begin with a capital letter
  Library   \* std, core, alloc, proc_macro, test

Parent(path) == Front(path)
IsCrateRoot(path) ==
  \/ Last(path) \in {"lib", "main", "build"}
  \/ Len(path) > 1 /\ path[Len(path) - 1] \in {"bin", "benches", "examples", "tests"}

(* Where `mod x;` in the file looks for x. *)
ChildDir(path) ==
  IF IsCrateRoot(path) \/ Last(path) = "mod" THEN Parent(path) ELSE path

(* The nearest `src` around the file, or its own directory. *)
CrateSrc(path) ==
  LET sources == {i \in 1..(Len(path) - 1) : path[i] = "src"} IN
  IF sources = {} THEN Parent(path)
  ELSE SubSeq(path, 1, CHOOSE i \in sources : \A j \in sources : j <= i)

ModulePath(path, src) ==
  LET parts == SubSeq(path, Len(src) + 1, Len(path))
      inSource == src # <<>> /\ Last(src) = "src"
      crateRoot == Len(parts) = 1 /\ (parts[1] \in {"lib", "main"} \/ ~inSource)
  IN IF crateRoot \/ Last(parts) = "mod" THEN Front(parts) ELSE parts

(* The first of the candidates that is a file, or nothing. *)
FirstOf(files, candidates) ==
  LET found == SelectSeq(candidates, LAMBDA c : c \in files) IN
  SubSeq(found, 1, IF found = <<>> THEN 0 ELSE 1)
ChildOf(files, dir, names) == FirstOf(files, <<dir \o names, dir \o names \o <<"mod">>>>)

(* The file of the longest module prefix, or else the root of the crate.   *)
Deepest(files, src, segments, matches) ==
  IF matches = {} THEN [file |-> FirstOf(files, <<src \o <<"lib">>, src \o <<"main">>>>), root |-> TRUE]
  ELSE LET longest == CHOOSE n \in matches : \A k \in matches : k <= n IN
       [file |-> ChildOf(files, src, SubSeq(segments, 1, longest)), root |-> FALSE]
InCrate(files, src, segments) ==
  Deepest(files, src, segments,
          {n \in DOMAIN segments : ChildOf(files, src, SubSeq(segments, 1, n)) # <<>>})

(* A path written in `depth` inline modules, from the file's own module    *)
(* (parser/imports.rs).                                                    *)
Supers(path) ==
  LET others == {i \in DOMAIN path : path[i] # "super"} IN
  IF others = {} THEN Len(path) ELSE (CHOOSE i \in others : \A j \in others : i <= j) - 1
Rebased(path, depth) ==
  LET stripped == IF Supers(path) < depth THEN Supers(path) ELSE depth
      rest == SubSeq(path, stripped + 1, Len(path))
  IN IF stripped = 0 THEN path
     ELSE IF stripped = depth /\ Supers(rest) > 0 THEN rest
     ELSE <<"self">> \o rest

-----------------------------------------------------------------------------
Unresolved == [is |-> "unresolved"]
Ignored == [is |-> "ignored"]
External(name) == [is |-> "external", name |-> name]
Internal(found, confidence) ==
  IF found = <<>> THEN Unresolved
  ELSE [is |-> "internal", file |-> found[1], confidence |-> confidence]

(* The module a use path starts from, and what follows it. *)
Absolute(from, path) ==
  LET current == ModulePath(from, CrateSrc(from))
      up == Supers(path)
  IN CASE path[1] = "crate" -> Tail(path)
       [] path[1] = "self"  -> current \o Tail(path)
       [] path[1] = "super" -> SubSeq(current, 1, IF up < Len(current) THEN Len(current) - up ELSE 0)
                                 \o SubSeq(path, up + 1, Len(path))
       [] OTHER             -> current \o path

(* A use path, before re-exports: the file, and whether it is the root only *)
(* because no module matched. `crates` has the source directory of each     *)
(* package of the workspace.                                                *)
Lookup(files, crates, from, path) ==
  IF path[1] \notin {"crate", "self", "super"} /\ path[1] \in DOMAIN crates
  THEN InCrate(files, crates[path[1]], Tail(path))
  ELSE InCrate(files, CrateSrc(from), Absolute(from, path))

IsForeign(files, crates, from, path) ==
  /\ path[1] \notin {"crate", "self", "super"} \cup DOMAIN crates
  /\ ChildOf(files, ChildDir(from), <<path[1]>>) = <<>>

(* Where the root re-exports the last name of a path from, or nothing.     *)
Reexported(files, crates, imports, root, path) ==
  LET Leads(r) ==
        /\ r.kind = "import" /\ Len(r.path) > 1 /\ Last(r.path) = Last(path)
        /\ r.path[1] \notin Library /\ ~IsForeign(files, crates, root, r.path)
        /\ Lookup(files, crates, root, r.path).file \notin {<<>>, <<root>>}
      reexports == SelectSeq(imports[root], Leads)
  IN IF Len(path) < 2 \/ reexports = <<>> THEN <<root>>
     ELSE Lookup(files, crates, root, reexports[1].path).file

Through(files, crates, imports, path, found) ==
  IF found.root /\ found.file # <<>>
  THEN Reexported(files, crates, imports, found.file[1], path) ELSE found.file

RustPath(files, crates, imports, from, import) ==
  LET path == import.path IN
  IF import.kind = "module" THEN Internal(ChildOf(files, ChildDir(from), path), "high")
  ELSE IF path[1] \in Library THEN Ignored
  ELSE IF IsForeign(files, crates, from, path)
  THEN IF path[1] \in Types THEN Ignored ELSE External(path[1])
  ELSE Internal(Through(files, crates, imports, path, Lookup(files, crates, from, path)), "medium")

-----------------------------------------------------------------------------
(* The file of a module, as the Rust reference has it, for a crate that    *)
(* has one root and one file per module.                                   *)
IsCrate(files, src) ==
  /\ \A f \in files : IsStrictPrefix(src, f) /\ CrateSrc(f) = src
  /\ \E f \in files : ModulePath(f, src) = <<>>
  /\ \A f, g \in files : ModulePath(f, src) = ModulePath(g, src) => f = g \/ ModulePath(f, src) = <<>>
  /\ \A f \in files : IsCrateRoot(f) => ModulePath(f, src) = <<>>

(* Every module of a crate is found by its declaration in the module above *)
(* it, by its path from the crate, by its name or `self` from above it and *)
(* by `super` from beside it, also from within inline modules, and by the  *)
(* name of an item that the root uses and so passes on: the places in      *)
(* which declarations look and the paths that uses make agree.             *)
ModulesAreFoundByPath(files, src) ==
  LET IsFile(found, g) == found.is = "internal" /\ found.file = g
      Import(kind, path) == [kind |-> kind, path |-> path]
      Finds(f, kind, path, g) ==
        IsFile(RustPath(files, <<>>, [h \in files |-> <<>>], f, Import(kind, path)), g)
      FindsBy(reexport, f, path, g) ==
        IsFile(RustPath(files, <<>>, [h \in files |-> <<reexport>>], f, Import("import", path)), g)
      Of(f) == ModulePath(f, src)
      Up(n) == [i \in 1..n |-> "super"]
  IN IsCrate(files, src) =>
       \A f \in files, g \in {h \in files : Of(h) # <<>>} :
         LET item == <<Last(Of(g)), "T">> IN
         /\ Finds(f, "import", <<"crate">> \o Of(g) \o <<"T">>, g)
         /\ InCrate(files, src, <<>>).file # <<>> =>
              FindsBy(Import("import", <<"crate">> \o Of(g) \o <<"T">>), f, <<"crate", "T">>, g)
         /\ Of(f) = Front(Of(g)) =>
              /\ Finds(f, "module", <<Last(Of(g))>>, g)
              /\ Finds(f, "import", item, g) /\ Finds(f, "import", <<"self">> \o item, g)
              /\ \A depth \in 1..2 : Finds(f, "import", Rebased(Up(depth) \o item, depth), g)
         /\ Of(f) # <<>> /\ Front(Of(f)) = Front(Of(g)) =>
              \A depth \in 0..2 : Finds(f, "import", Rebased(Up(depth + 1) \o item, depth), g)
=============================================================================
