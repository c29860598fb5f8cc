------------------------------ MODULE Resolve ------------------------------
(***************************************************************************)
(* repodna_architecture::resolve for all languages but Rust: the file, or  *)
(* the files of a package, that an import or a reference stands for.       *)
(*                                                                         *)
(* A name of a file or directory is the sequence of its parts between      *)
(* dots, a path the sequence of its names; names that are only a dot are   *)
(* left out of both. An import is split as its language splits it, and has *)
(* a `form` where that tells imports apart.                                *)
(***************************************************************************)
EXTENDS Naturals, FiniteSets, Sequences, SequencesExt

CONSTANTS
  Before(_, _),  \* the order of paths
  Closer(_, _),  \* the shorter path, or the first of two as short
  Package,       \* of a file: the package, namespace or <<>> it declares
  MaxTargets,    \* MAX_PACKAGE_TARGETS
  JsExtensions, PythonRoots, Forges,  \* JS_EXTENSIONS, PYTHON_ROOT_DIRS, hosts with owners
  Standard,      \* the modules that come with a language, all names of them
  GoTests,       \* names of tests, without ".go"
  Styles,        \* scss, sass, css, less
  Scripts,       \* extensions known to `generic`
  Partial, Snake \* "_" before a name; a name in snake case

Unresolved == [is |-> "unresolved"]
Ignored == [is |-> "ignored"]
External(name) == [is |-> "external", name |-> name]
Internal(found, confidence) ==
  IF found = <<>> THEN Unresolved
  ELSE [is |-> "internal", targets |-> {found[1]}, confidence |-> confidence, package |-> FALSE]
Earliest(found, n) == {f \in found : Cardinality({g \in found : Before(g, f)}) < n}
PackageLevel(found, confidence) ==
  IF found = {} THEN Unresolved
  ELSE [is |-> "internal", targets |-> Earliest(found, MaxTargets), confidence |-> confidence, package |-> TRUE]

-----------------------------------------------------------------------------
Parent(path) == IF path = <<>> THEN <<>> ELSE Front(path)
WithExt(path, ext) == [path EXCEPT ![Len(path)] = Append(@, ext)]
Ext(name) == IF Len(name) < 2 \/ Last(name) = "" \/ Front(name) = <<"">> THEN "none" ELSE Last(name)
Has(path, ext) == Ext(Last(path)) = ext
Names(words) == [i \in DOMAIN words |-> <<words[i]>>]
Shortened(s, n) == SubSeq(s, 1, IF Len(s) < n THEN Len(s) ELSE n)

(* Nothing if the result would be outside of the repository.               *)
Join(dir, path) ==
  LET Step(at, name) ==
        CASE at = <<>> -> <<>>
          [] at # <<>> /\ name # <<"..">> -> <<Append(at[1], name)>>
          [] at # <<>> /\ name = <<"..">> -> IF at[1] = <<>> THEN <<>> ELSE <<Front(at[1])>>
  IN FoldLeft(Step, <<dir>>, path)

FirstOf(files, candidates) == Shortened(SelectSeq(candidates, LAMBDA c : c \in files), 1)
Beside(files, from, path) == FirstOf(files, Join(Parent(from), path))
Outwards(path) == [i \in 1..Len(path) |-> SubSeq(path, 1, Len(path) - i)]
Within(files, dir) == {f \in files : IsStrictPrefix(dir, f)}
Closest(found) ==
  IF found = {} THEN <<>> ELSE <<CHOOSE f \in found : \A g \in found \ {f} : Closer(f, g)>>

(* Where several paths end alike the choice is unsure.                     *)
EndingIn(files, path) == {f \in files : IsSuffix(path, f)}
BySuffix(found) == Internal(Closest(found), IF Cardinality(found) = 1 THEN 2 ELSE 1)

(* The longest of the names that begins the path.                          *)
LongestOf(names, path) ==
  LET begin == {n \in names : IsPrefix(n, path)} IN
  IF begin = {} THEN <<>> ELSE <<CHOOSE n \in begin : \A m \in begin : Len(m) <= Len(n)>>

-----------------------------------------------------------------------------
(* Python: every end of the path of a file is a name of its module, which  *)
(* is anchored if it begins at the root or a source directory.             *)
Modules(files) ==
  LET Stem(f) == IF Front(Last(f)) = <<"__init__">> THEN Front(f) ELSE Append(Front(f), Front(Last(f)))
      Of(f) == {[dotted |-> FlattenSeq(SubSeq(Stem(f), k, Len(Stem(f)))), file |-> f,
                 anchored |-> k = 1 \/ Stem(f)[k - 1] \in PythonRoots] : k \in DOMAIN Stem(f)}
  IN UNION {Of(f) : f \in {f \in files : Ext(Last(f)) \in {"py", "pyi"}}}

PythonLookup(files, dotted, anchoredOnly) ==
  LET all == {m \in Modules(files) : m.dotted = dotted}
      anchored == {m.file : m \in {m \in all : m.anchored}}
  IN IF anchored # {} THEN BySuffix(anchored)
     ELSE IF anchoredOnly THEN Unresolved
     ELSE Internal(Closest({m.file : m \in all}), 1)

PythonFirst(files, candidates, anchoredOnly) ==
  Shortened(SelectSeq([i \in DOMAIN candidates |-> PythonLookup(files, candidates[i], anchoredOnly)],
                      LAMBDA r : r.is = "internal"), 1)

Python(files, declared, from, import) ==
  LET dir == SubSeq(from, 1, Len(from) - import.dots)
      base == dir \o Names(import.path)
      Submodule(all, name) == all \o <<WithExt(base \o <<<<name>>>>, "py"), base \o <<<<name>>, <<"__init__", "py">>>>>>
      itself == (IF import.path = <<>> THEN <<>> ELSE <<WithExt(base, "py")>>) \o <<base \o <<<<"__init__", "py">>>>>>
      candidates == [i \in DOMAIN import.names |-> Append(import.path, import.names[i])] \o <<import.path>>
      sure == PythonFirst(files, candidates, TRUE)
      unsure == PythonFirst(files, candidates, FALSE)
      top == <<import.path[1]>>
  IN IF import.dots > 0
     THEN IF import.dots > Len(from) THEN Unresolved
          ELSE Internal(FirstOf(files, FoldLeft(Submodule, <<>>, import.names) \o itself), 3)
     ELSE CASE sure # <<>> -> sure[1]
            [] sure = <<>> /\ top \in Standard -> Ignored
            [] sure = <<>> /\ top \notin Standard /\ top \in declared -> External(top)
            [] OTHER -> IF unsure # <<>> THEN unsure[1]
                        ELSE IF PythonLookup(files, top, TRUE).is = "internal" THEN Unresolved
                        ELSE External(top)

-----------------------------------------------------------------------------
(* JavaScript and TypeScript. Packages are <<name, directory>>, of one     *)
(* name the first counts.                                                  *)
Sources(ext) ==
  CASE ext = "js" -> <<<<"ts">>, <<"tsx">>>> [] ext = "jsx" -> <<<<"tsx">>>>
    [] ext = "mjs" -> <<<<"mts">>>> [] ext = "cjs" -> <<<<"cts">>>> [] OTHER -> <<>>
JsFile(files, base) ==
  LET With(path, exts) == [i \in DOMAIN exts |-> [path EXCEPT ![Len(path)] = @ \o exts[i]]]
      ext == IF base = <<>> THEN "none" ELSE Ext(Last(base))
      stem == IF ext = "none" THEN base ELSE [base EXCEPT ![Len(base)] = Front(@)]
  IN FirstOf(files, <<base>> \o With(stem, Sources(ext))
                      \o (IF base = <<>> THEN <<>> ELSE With(base, JsExtensions))
                      \o With(Append(base, <<"index">>), JsExtensions))
JsFirst(files, bases) == FoldLeft(LAMBDA found, base : Shortened(found \o JsFile(files, base), 1), <<>>, bases)

NpmRoot(packages, path) ==
  LET root == LongestOf({p[2] : p \in ToSet(packages)}, path) IN IF root = <<>> THEN <<>> ELSE root[1]

JavaScript(files, packages, from, import) ==
  LET root == NpmRoot(packages, from)
      In(dir, names) == dir \o Names(names) \o import.path
      named == SelectSeq(packages, LAMBDA p : p[1] = import.name)
      dir == named[1][2]
      entries == <<<<"src", "index">>, <<"index">>, <<"src", "main">>, <<"lib", "index">>, <<"src", "lib">>>>
      bases == IF import.path = <<>> THEN [i \in DOMAIN entries |-> In(dir, entries[i])]
               ELSE <<In(dir, <<"src">>), In(dir, <<>>)>>
      found == JsFirst(files, bases)
  IN CASE import.form \in {"empty", "url"} -> Ignored
       [] import.form = "relative" ->
            Internal(JsFirst(files, Join(Parent(from), import.path)), 3)
       [] import.form = "rooted" ->
            Internal(JsFirst(files, <<In(root, <<>>), In(root, <<"public">>), In(root, <<"src">>)>>), 2)
       [] import.form = "alias" -> Internal(JsFirst(files, <<In(root, <<"src">>), In(root, <<>>)>>), 2)
       [] import.form \in {"bare", "virtual"} ->
            IF import.name \in Standard THEN Ignored
            ELSE IF named # <<>>
            THEN IF found # <<>> THEN Internal(found, 2) ELSE PackageLevel(Within(files, dir), 1)
            ELSE IF import.form = "virtual" THEN Ignored ELSE External(import.name)

-----------------------------------------------------------------------------
Go(files, modules, declared, path) ==
  LET module == LongestOf({m[1] : m \in ToSet(modules)}, path)
      roots == {m[2] : m \in {m \in ToSet(modules) : m[1] = module[1]}}
      root == CHOOSE r \in roots : \A s \in roots \ {r} : Before(r, s)
      dir == root \o SubSeq(path, Len(module[1]) + 1, Len(path))
      known == LongestOf(declared, path)
  IN IF module # <<>>
     THEN PackageLevel({f \in files : Parent(f) = dir /\ Has(f, "go") /\ Front(Last(f)) \notin GoTests}, 3)
     ELSE IF Len(path[1]) = 1 THEN Ignored
     ELSE External(IF known # <<>> THEN known[1] ELSE Shortened(path, IF path[1] \in Forges THEN 3 ELSE 2))

(* Java, Kotlin, Scala and Groovy: a type, one that encloses it, or else   *)
(* the package of a function. Here and below all files are of the language. *)
TypeOf(f) == Package[f] \o Front(Last(f))
Jvm(files, import) ==
  LET path == import.path
      Typed(n) == {f \in files : TypeOf(f) = SubSeq(path, 1, n)}
      depths == IF import.wildcard THEN {} ELSE {d \in 0..2 : d < Len(path) /\ Typed(Len(path) - d) # {}}
      depth == CHOOSE d \in depths : \A e \in depths : d <= e
      found == Typed(Len(path) - depth)
      package == IF import.wildcard THEN path ELSE Front(path)
      of == {f \in files : Package[f] # <<>> /\ Package[f] = package}
      roots == {Shortened(Package[f], 2) : f \in {f \in files : Len(Package[f]) > 1}}
  IN CASE depths # {} -> [Internal(SetToSeq(Earliest(found, 1)), 2) EXCEPT
                            !.confidence = IF depth = 0 /\ Cardinality(found) = 1 THEN 3 ELSE 2]
       [] depths = {} /\ of # {} -> PackageLevel(of, 1)
       [] OTHER -> IF LongestOf(Standard, path) # <<>> THEN Ignored
                   ELSE IF Shortened(path, 2) \in roots THEN Unresolved ELSE External(Shortened(path, 3))

CSharp(files, declared, path) ==
  LET In(namespace) == {f \in files : Package[f] # <<>> /\ Package[f] = namespace}
      known == LongestOf(declared, path)
  IN CASE In(path) # {} -> PackageLevel(In(path), 2)
       [] In(path) = {} /\ In(Front(path)) # {} -> PackageLevel(In(Front(path)), 1)
       [] OTHER -> IF Shortened(path, 1) \in Standard THEN Ignored
                   ELSE IF \E f \in files : Package[f] # <<>> /\ Package[f][1] = path[1] THEN Unresolved
                   ELSE External(IF known # <<>> THEN known[1] ELSE Shortened(path, 2))

(* PHP: a file, or a class by its name and else by where PSR-4 has it.     *)
Php(files, from, import) ==
  LET class == import.path
      Classes(name) == {f \in files : TypeOf(f) = name}
      own == IF Len(class) = 1 /\ Package[from] # <<>> /\ Classes(class) = {} THEN Package[from] ELSE <<>>
      found == Classes(own \o class)
      Layout(k) == EndingIn(files, WithExt(Names(SubSeq(class, k, Len(class))), "php"))
      laid == {k \in 2..(Len(class) - 1) : Layout(k) # {}}
  IN CASE import.form = "dynamic" -> Ignored
       [] import.form = "file" ->
            Internal(FirstOf(files, Join(Parent(from), import.file) \o <<import.file>>), 3)
       [] import.form = "class" ->
            IF found # {}
            THEN [Internal(SetToSeq(Earliest(found, 1)), 2) EXCEPT
                    !.confidence = IF Cardinality(found) = 1 THEN 3 ELSE 2]
            ELSE IF Len(class) = 1 THEN Ignored
            ELSE IF laid # {} THEN Internal(Closest(Layout(CHOOSE k \in laid : \A l \in laid : k <= l)), 1)
            ELSE IF \E f \in files : Package[f] # <<>> /\ Package[f][1] = class[1] THEN Unresolved
            ELSE External(Shortened(class, 1))

-----------------------------------------------------------------------------
CFamily(files, from, import) ==
  LET beside == Beside(files, from, import.path)
      found == EndingIn(files, import.path)
  IN CASE import.form = "import" -> Ignored
       [] import.form = "include" /\ beside # <<>> -> Internal(beside, 3)
       [] OTHER -> IF found # {} THEN BySuffix(found)
                   ELSE IF import.form = "system" THEN Ignored ELSE Unresolved

Ruby(files, from, import) ==
  LET file == IF Has(import.path, "rb") THEN import.path ELSE WithExt(import.path, "rb")
      beside == Beside(files, from, file)
      lib == FirstOf(files, [i \in DOMAIN from |-> Outwards(from)[i] \o Names(<<"lib">>) \o file])
      found == IF Len(file) = 1 /\ import.form # "relative" THEN {} ELSE EndingIn(files, file)
      top == import.path[1]
  IN IF import.form = "dynamic" THEN Ignored
     ELSE IF beside # <<>> THEN Internal(beside, 3)
     ELSE IF lib # <<>> THEN Internal(lib, 2)
     ELSE IF found # {} THEN Internal(Closest(found), 1)
     ELSE IF import.form = "relative" THEN Unresolved
     ELSE IF top \in Standard THEN Ignored ELSE External(top)

Dart(files, packages, from, import) ==
  LET named == SelectSeq(packages, LAMBDA p : p[1] = import.name) IN
  CASE import.form = "sdk" -> Ignored
    [] import.form = "package" ->
         IF import.path = <<>> THEN Unresolved
         ELSE IF named = <<>> THEN External(import.name)
         ELSE Internal(FirstOf(files, <<named[1][2] \o Names(<<"lib">>) \o import.path>>), 3)
    [] import.form = "relative" -> Internal(Beside(files, from, import.path), 3)

(* Swift: a module is a directory in the first Sources or Tests of a path, *)
(* by the first file that is in one of its name.                           *)
SwiftTarget(f) ==
  LET at == {k \in DOMAIN f : f[k] \in {<<"Sources">>, <<"Tests">>}}
      k == CHOOSE k \in at : \A l \in at : k <= l
  IN IF at = {} \/ k + 2 > Len(f) THEN <<>> ELSE SubSeq(f, 1, k + 1)
Swift(files, module) ==
  LET first == Earliest({f \in files : Has(f, "swift") /\ SwiftTarget(f) # <<>> /\ Last(SwiftTarget(f)) = module}, 1)
      dir == SwiftTarget(CHOOSE f \in first : TRUE)
  IN IF first # {} THEN PackageLevel({f \in Within(files, dir) : Has(f, "swift")}, 2)
     ELSE IF module \in Standard THEN Ignored ELSE External(module)

(* HTML and style sheets.                                                  *)
Web(files, from, import) ==
  LET base == Join(Parent(from), import.path)
      Style(all, ext) ==
        LET name == Last(base[1]) IN
        all \o <<WithExt(base[1], ext), WithExt(Append(Parent(base[1]), <<Partial[name[1]]>>), ext),
                 Append(base[1], <<"_index", ext>>), Append(base[1], <<"index", ext>>)>>
      styled == Ext(Last(from)) \in ToSet(Styles) /\ base # <<>> /\ Ext(Last(base[1])) = "none"
      Served(all, dir) == all \o <<dir \o import.path, dir \o Names(<<"public">>) \o import.path>>
  IN CASE import.form \in {"dynamic", "module"} -> Ignored
       [] import.form = "package" -> External(import.path[1])
       [] import.form = "rooted" -> Internal(FirstOf(files, FoldLeft(Served, <<>>, Outwards(from))), 2)
       [] import.form = "relative" ->
            Internal(FirstOf(files, base \o (IF styled THEN FoldLeft(Style, <<>>, Styles) ELSE <<>>)), 3)

(* The other languages: a path, or a name whose parts are directories.     *)
Generic(files, from, import) ==
  LET path == import.path
      pathLike == import.form = "slashed" \/ (import.form = "plain" /\ Ext(Last(path)) # "none")
      beside == Beside(files, from, path)
      own == Ext(Last(from))
      known == import.form = "slashed" \/ Ext(Last(path)) \in Scripts \cup {own}
      words == Names(FlattenSeq(path))
      snake == [i \in DOMAIN words |-> <<Snake[words[i][1]]>>]
      Candidates == <<WithExt(words, own)>>
                    \o (IF own = "pl" THEN <<WithExt(words, "pm")>> ELSE <<>>)
                    \o (IF own = "lua" THEN <<Append(words, <<"init", "lua">>)>> ELSE <<>>)
                    \o (IF snake # words THEN <<WithExt(snake, own)>> ELSE <<>>)
      named == SelectSeq(Candidates, LAMBDA c : EndingIn(files, c) # {})
  IN CASE import.form = "dynamic" -> Ignored
       [] pathLike /\ beside # <<>> -> Internal(beside, 3)
       [] pathLike /\ beside = <<>> /\ path \in files -> Internal(<<path>>, 2)
       [] pathLike /\ beside = <<>> /\ path \notin files /\ EndingIn(files, path) # {} ->
            BySuffix(EndingIn(files, path))
       [] OTHER -> IF pathLike /\ known
                   THEN IF IsPrefix(Names(<<"google", "protobuf">>), path) THEN Ignored ELSE Unresolved
                   ELSE IF own = "none" \/ named = <<>> THEN Ignored
                   ELSE BySuffix(EndingIn(files, named[1]))

(* A string that looks like a path: beside the file, or in a directory     *)
(* around it that a program may run from.                                  *)
Reference(files, from, path) ==
  LET beside == Beside(files, from, path)
      around == SelectSeq(Outwards(Parent(from)), LAMBDA dir : dir # <<>>)
      outer == FirstOf(files, [i \in DOMAIN around |-> around[i] \o path])
  IN IF beside # <<>> THEN Internal(beside, 2)
     ELSE IF Len(path) = 1 \/ path[1] = <<"..">> THEN Unresolved
     ELSE IF outer # <<>> THEN Internal(outer, 1) ELSE Internal(FirstOf(files, <<path>>), 2)

-----------------------------------------------------------------------------
Resolve(files, packages, declared, from, language, import) ==
  CASE language = "python" -> Python(files, declared, from, import)
    [] language = "javascript" -> JavaScript(files, packages, from, import)
    [] language = "go" -> Go(files, packages, declared, import.path)
    [] language = "jvm" -> Jvm(files, import)
    [] language = "csharp" -> CSharp(files, declared, import.path)
    [] language = "php" -> Php(files, from, import)
    [] language = "c" -> CFamily(files, from, import)
    [] language = "ruby" -> Ruby(files, from, import)
    [] language = "dart" -> Dart(files, packages, from, import)
    [] language = "swift" -> Swift(files, import.path)
    [] language = "web" -> Web(files, from, import)
    [] language = "reference" -> Reference(files, from, import.path)
    [] OTHER -> Generic(files, from, import)

(* How a file is written in another of its language: as its path relative  *)
(* to that one (`exact`), or as the end of its path, with or without its   *)
(* extension. In Python that end must not begin with the name of a         *)
(* standard or declared module, but in a source root.                      *)
Up(from, to) ==
  LET common == LongestCommonPrefix({Parent(from), Parent(to)}) IN
  [names |-> SubSeq(to, Len(common) + 1, Len(to)), up |-> Len(Parent(from)) - Len(common)]
Words(path) == [i \in DOMAIN path |-> path[i][1]]
Stem(path) == [path EXCEPT ![Len(path)] = Front(@)]

WrittenInPython(declared, to, way) ==
  LET Means(k) == ~(k > 1 /\ to[k - 1] \notin PythonRoots
                    /\ <<to[k][1]>> \in Standard \cup declared)
      ends == {k \in DOMAIN to : Means(k)}
  IN IF Last(to)[1] = "__init__" THEN {}
     ELSE {[import |-> [dots |-> 0, path |-> SubSeq(Words(to), k, Len(to)), names |-> <<>>],
            end |-> SubSeq(Stem(to), k, Len(to)), exact |-> FALSE] : k \in ends}
          \cup {[import |-> [dots |-> way.up + 1, path |-> Words(way.names), names |-> <<>>],
                 end |-> to, exact |-> TRUE] : k \in {k \in {1} : Has(to, "py")}}

Written(declared, from, language, to, way) ==
  LET path == [i \in 1..way.up |-> <<"..">>] \o way.names
      form == CASE language = "c" -> "include" [] language = "other" -> "slashed" [] OTHER -> "relative"
      full == [import |-> [form |-> form, path |-> path], end |-> to, exact |-> TRUE]
  IN CASE language \in {"go", "jvm", "csharp", "swift", "reference"} -> {}
       [] language = "python" -> WrittenInPython(declared, to, way)
       [] language = "php" -> {[full EXCEPT !.import = [form |-> "file", path |-> <<>>, file |-> path]]}
       [] language = "c" ->
            {full} \cup {[import |-> [form |-> "system", path |-> SubSeq(to, k, Len(to))],
                         end |-> SubSeq(to, k, Len(to)), exact |-> FALSE] : k \in DOMAIN to}
       [] language = "javascript" /\ ~Has(to, "css") ->
            {full, [import |-> [form |-> "relative", path |-> Stem(path)], end |-> Stem(to), exact |-> FALSE]}
       [] OTHER -> {full}

(* What is found for an import does not depend on files that have nothing  *)
(* to do with it: one file more never loses what was found, changes it     *)
(* only to be found itself, and otherwise can but make it less sure. It is *)
(* at most shown that an import is not of a package from outside.          *)
OthersDoNotMatter(old, new, more) ==
  /\ old.is = "internal" => new.is = "internal"
  /\ new.is = "internal" =>
       \/ more \in new.targets
       \/ /\ old.is = "internal" /\ old.package = new.package
          /\ new.confidence <= old.confidence
          /\ IF new.package THEN Cardinality(new.targets) = Cardinality(old.targets)
             ELSE new.targets = old.targets
  /\ new.is # "internal" => new = old \/ (old.is = "external" /\ new.is = "unresolved")

(* Where an import may be the path of a file it always finds that file,    *)
(* whatever others have paths like it, and where it names but the end of a *)
(* path it finds a file whose path ends so, no deeper than another.        *)
WhatIsNamedIsFound(result, written, language, to) ==
  IF written.exact THEN result = Internal(<<to>>, 3)
  ELSE /\ result.is = "internal"
       /\ \A t \in result.targets :
            /\ \E path \in {t, Front(t), Stem(t)} : IsSuffix(written.end, path)
            /\ language = "c" => Len(t) <= Len(to)

(* Both, for all imports in a file and all other files of the language.    *)
AreFound(found, written, files, all, language, imports) ==
  /\ \A import \in imports, more \in all \ files :
       OthersDoNotMatter(found[files, import], found[files \cup {more}, import], more)
  /\ \A w \in DOMAIN written : WhatIsNamedIsFound(written[w], w[2], language, w[1])
ImportsAreFound(files, all, packages, declared, from, language, imports) ==
  AreFound([s \in {files \cup {more} : more \in all \cup {from}}, import \in imports |->
              Resolve(s, packages, declared, from, language, import)],
           [w \in UNION {{to} \X Written(declared, from, language, to, Up(from, to)) : to \in files} |->
              Resolve(files, packages, declared, from, language, w[2].import)],
           files, all, language, imports)
=============================================================================
