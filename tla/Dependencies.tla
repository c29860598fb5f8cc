---------------------------- MODULE Dependencies ----------------------------
(***************************************************************************)
(* repodna_dependencies::aggregate::analyze: one account of dependencies   *)
(* from all manifests and lockfiles of a repository.                       *)
(*                                                                         *)
(* A file has a path (a number, in the order of paths), the directory it   *)
(* is in (a sequence of names), an ecosystem, a kind ("manifest" or        *)
(* "lockfile") and how its provider read it ("parsed", "partial" or        *)
(* "failed"). A manifest declares a package (<<name>> or nothing), the     *)
(* tool of a workspace ("none"), dependencies, and shared ones for its     *)
(* members to inherit; a lockfile has pairs of a name and a version.       *)
(* A name is a pair of what it is in lower case (a number) and its case.   *)
(***************************************************************************)
EXTENDS Naturals, FiniteSets, Sequences, SequencesExt

CONSTANT MaxDuplicates  \* duplicate versions reported

Runtime == 0  \* scope_rank: peer, optional, build and development are weaker
Lower(name) == name[1]
Key(file, name) == <<file.ecosystem, Lower(name)>>
Within(directory, ancestor) == IsPrefix(ancestor, directory)

InPathOrder(files) == SortSeq(files, LAMBDA f, g : f.path < g.path)
Parsed(files, kind) ==
  SelectSeq(InPathOrder(files), LAMBDA f : f.kind = kind /\ f.read # "failed")

(* The manifest that declares each package: of two of one name, the last.  *)
Declared(files) ==
  LET found == SelectSeq(Parsed(files, "manifest"), LAMBDA f : f.package # <<>>) IN
  FoldLeft(LAMBDA declared, f : (Key(f, f.package[1]) :> f) @@ declared, <<>>, found)

(* The workspace and each shared declaration are of the shallowest manifest. *)
Shallower(f, g) == Len(f.at) < Len(g.at) \/ (Len(f.at) = Len(g.at) /\ f.path < g.path)
Workspace(files) ==
  LET found == SelectSeq(Parsed(files, "manifest"), LAMBDA f : f.tool # "none") IN
  SubSeq(SortSeq(found, Shallower), 1, IF found = <<>> THEN 0 ELSE 1)

Shared(files) ==
  LET Add(shared, f) ==
        FoldLeft(LAMBDA s, d : s @@ (Key(f, d.name) :> d), shared, f.shared)
  IN FoldLeft(Add, <<>>, SortSeq(Parsed(files, "manifest"), Shallower))

Inherit(dependency, key, shared) ==
  IF dependency.source # "inherited" \/ key \notin DOMAIN shared THEN dependency
  ELSE [dependency EXCEPT
          !.requirement = IF @ = 0 THEN shared[key].requirement ELSE @,
          !.source = shared[key].source]

(* One more declaration joins the record of its ecosystem and name.        *)
Joined(record, dependency, internal, path) ==
  [record EXCEPT
     !.requirement = IF @ = 0 THEN dependency.requirement ELSE @,
     !.scope = IF dependency.scope < @ THEN dependency.scope ELSE @,
     !.manifests = IF Contains(@, path) THEN @ ELSE Append(@, path),
     !.internal = @ \/ internal]

Internal(dependency, key, declared) ==
  dependency.source \in {"workspace", "path"} \/ key \in DOMAIN declared

Declare(records, path, key, dependency, internal) ==
  LET new == [name |-> dependency.name, requirement |-> dependency.requirement,
              scope |-> dependency.scope, manifests |-> <<>>,
              source |-> dependency.source, internal |-> internal]
      old == IF key \in DOMAIN records THEN records[key] ELSE new
  IN (key :> Joined(old, dependency, internal, path)) @@ records

Merged(manifests, shared, declared) ==
  LET Add(records, f, key, dependency) ==
        Declare(records, f.path, key, dependency, Internal(dependency, key, declared))
      AddAll(records, f) ==
        FoldLeft(LAMBDA r, d : Add(r, f, Key(f, d.name), Inherit(d, Key(f, d.name), shared)),
                 records, f.dependencies)
  IN FoldLeft(AddAll, <<>>, manifests)
Records(files) == Merged(Parsed(files, "manifest"), Shared(files), Declared(files))

-----------------------------------------------------------------------------
Directory(files, path) == (CHOOSE f \in ToSet(files) : f.path = path).at
Pins(lockfile) == {<<Lower(p[1]), p[2]>> : p \in ToSet(lockfile.pins)}
Versions(lockfile, name) == {p[2] : p \in {p \in Pins(lockfile) : p[1] = name}}

Resolved(files, key, record) ==
  UNION {Versions(lockfile, key[2]) :
           lockfile \in {l \in ToSet(Parsed(files, "lockfile")) :
                           /\ l.ecosystem = key[1]
                           /\ \E path \in ToSet(record.manifests) :
                                Within(Directory(files, path), l.at)}}

MissingFromLock(records, files, lockfile) ==
  {key \in DOMAIN records :
     /\ key[1] = lockfile.ecosystem
     /\ records[key].source = "registry" /\ ~records[key].internal
     /\ \E path \in ToSet(records[key].manifests) : Directory(files, path) = lockfile.at
     /\ Versions(lockfile, key[2]) = {}}

(* Names with several versions, of each lockfile in order of the names,    *)
(* shown as they are first written.                                        *)
Repeated(l) == {n \in {p[1] : p \in Pins(l)} : Cardinality(Versions(l, n)) > 1}
Duplicate(l, n) ==
  [name |-> l.pins[SelectInSeq(l.pins, LAMBDA p : Lower(p[1]) = n)][1], lockfile |-> l.path,
   versions |-> Versions(l, n)]
Duplicates(files) ==
  LET AddAll(found, l) ==
        FoldLeft(LAMBDA s, n : IF Len(s) < MaxDuplicates THEN Append(s, Duplicate(l, n)) ELSE s,
                 found, SetToSortSeq(Repeated(l), <))
  IN FoldLeft(AddAll, <<>>, Parsed(files, "lockfile"))

Packages(declared) ==
  {[name |-> declared[key].package[1], ecosystem |-> key[1], manifest |-> declared[key].path,
    internal |-> {d.name : d \in {d \in ToSet(declared[key].dependencies) :
                                    <<key[1], Lower(d.name)>> \in DOMAIN declared}}] :
   key \in DOMAIN declared}

Locked(files) ==
  UNION {{<<l.ecosystem, p>> : p \in Pins(l)} : l \in ToSet(Parsed(files, "lockfile"))}

Summary(records, files, ecosystem) ==
  LET Of(kind) == {f \in ToSet(files) : f.ecosystem = ecosystem /\ f.kind = kind}
      external == {key \in DOMAIN records : key[1] = ecosystem /\ ~records[key].internal}
  IN [manifests |-> Cardinality(Of("manifest")), lockfiles |-> Cardinality(Of("lockfile")),
      runtime |-> Cardinality({key \in external : records[key].scope = Runtime}),
      other |-> Cardinality({key \in external : records[key].scope # Runtime}),
      locked |-> Cardinality({l \in Locked(files) : l[1] = ecosystem})]

Status(files) == IF \E f \in ToSet(files) : f.read # "parsed" THEN "partial" ELSE "analyzed"

-----------------------------------------------------------------------------
(* Declarations, each with its manifest, as a set.                         *)
Declarations(manifests, shared, key) ==
  LET places == UNION {{<<f, i>> : i \in DOMAIN f.dependencies} : f \in manifests}
  IN {[dependency |-> Inherit(p[1].dependencies[p[2]], key, shared),
       path |-> p[1].path, nth |-> p[2], at |-> p[1].at] :
      p \in {p \in places : Key(p[1], p[1].dependencies[p[2]].name) = key}}

(* Every dependency has one record, whichever manifests declare it in      *)
(* which case: its scope is the strongest of them, it is internal if one   *)
(* of them or a package of the repository makes it so, its requirement is  *)
(* the first one there is, and its versions are those pinned above or      *)
(* beside a manifest that declares it. What is inherited is what the       *)
(* shallowest workspace says. No lockfile is told to miss what it pins or  *)
(* what is of the repository, and the counts add up.                       *)
AccountFor(key, record, all, files, manifests) ==
  LET required == {d \in all : d.dependency.requirement # 0}
      Before(d, e) == d.path < e.path \/ (d.path = e.path /\ d.nth < e.nth)
  IN /\ \A d \in all : record.scope <= d.dependency.scope
     /\ \E d \in all : record.scope = d.dependency.scope
     /\ record.internal <=>
          \/ \E d \in all : d.dependency.source \in {"workspace", "path"}
          \/ \E f \in manifests : f.package # <<>> /\ Key(f, f.package[1]) = key
     /\ IF required = {} THEN record.requirement = 0
        ELSE \E d \in required : /\ record.requirement = d.dependency.requirement
                                 /\ \A e \in required : e = d \/ Before(d, e)
     /\ ToSet(record.manifests) = {d.path : d \in all}
     /\ \A i, j \in DOMAIN record.manifests :
          i < j => record.manifests[i] < record.manifests[j]
     /\ \A l \in ToSet(Parsed(files, "lockfile")) :
          l.ecosystem = key[1] /\ (\E d \in all : Within(d.at, l.at))
            => Versions(l, key[2]) \subseteq Resolved(files, key, record)

AreMerged(files, records, shared, manifests) ==
  LET names == UNION {{Key(f, d.name) : d \in ToSet(f.dependencies)} : f \in manifests}
      Ecosystems == {f.ecosystem : f \in ToSet(files)}
      Sum(Of(_)) == FoldSet(LAMBDA e, sum : sum + Of(Summary(records, files, e)), 0, Ecosystems)
  IN /\ DOMAIN records = names
     /\ \A key \in names :
          AccountFor(key, records[key], Declarations(manifests, shared, key), files, manifests)
     /\ \A l \in ToSet(Parsed(files, "lockfile")) :
          \A key \in MissingFromLock(records, files, l) :
            Versions(l, key[2]) = {} /\ ~records[key].internal
     /\ Sum(LAMBDA s : s.runtime + s.other) = Cardinality({key \in names : ~records[key].internal})
     /\ Sum(LAMBDA s : s.locked) = Cardinality(Locked(files))
     /\ \A d \in ToSet(Duplicates(files)) : Cardinality(d.versions) > 1
     /\ \A f \in manifests : f.package # <<>> =>
          \E p \in Packages(Declared(files)) : /\ Lower(p.name) = Lower(f.package[1]) /\ p.manifest >= f.path
                                    /\ \A n \in p.internal : records[<<p.ecosystem, Lower(n)>>].internal
     /\ Len(Workspace(files)) = 1 =>
          \A f \in manifests : f.tool # "none" => Len(Workspace(files)[1].at) <= Len(f.at)

DependenciesAreMerged(files) ==
  AreMerged(files, Records(files), Shared(files), ToSet(Parsed(files, "manifest")))
=============================================================================
