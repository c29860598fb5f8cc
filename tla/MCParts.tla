------------------------------ MODULE MCParts ------------------------------
(* The parts of RepoDNA that are pure algorithms, each on every input of a   *)
(* small set, and the session of the browser. `input` chooses the part and   *)
(* then what it is given; each property is about one part.                   *)
EXTENDS BrowserSession, Core

(* The paths of what Quality is given, in their order.                       *)
CodePaths ==
  << <<"old">>, <<"old", "archive", "y">>, <<"old", "x">>, <<"src", "a">>, <<"src", "archive">>,
     <<"src", "archive", "index">>, <<"src", "bin", "c">>, <<"src", "lib">>, <<"tests", "z">>, <<"web", "index">>, <<"web", "x">> >>
InCodeOrder(p, q) == SelectInSeq(CodePaths, LAMBDA r : r = p) < SelectInSeq(CodePaths, LAMBDA r : r = q)

(* Files of each language, an import in one of them, and what else counts.   *)
Path(dirs, stem, ext) == [i \in DOMAIN dirs |-> <<dirs[i]>>] \o <<<<stem, ext>>>>
Dotted(words) ==
  [i \in DOMAIN words |-> CASE words[i] = "x.y" -> <<"x", "y">> [] words[i] = "y.z" -> <<"y", "z">>
                            [] words[i] = "h.h" -> <<"h", "h">> [] OTHER -> <<words[i]>>]
WorldOf == [
  python |-> [from |-> Path(<<"src", "shop">>, "cart", "py"), packages |-> <<>>, declared |-> {<<"os">>, <<"yaml">>},
    files |-> <<Path(<<>>, "os", "py"), Path(<<"src">>, "pricing", "py"), Path(<<"src", "shop">>, "__init__", "py"),
      Path(<<"src", "shop", "pricing">>, "__init__", "py"), Path(<<"src", "shop">>, "pricing", "py"),
      Path(<<"tests", "shop">>, "pricing", "pyi"), Path(<<"tests">>, "yaml", "py"), Path(<<"yaml">>, "pricing", "py")>>,
    imports |-> [dots : 0..4, path : {<<"shop">>, <<"pricing">>, <<"shop", "pricing">>, <<"os">>, <<"yaml">>},
                 names : {<<>>, <<"pricing">>, <<"x", "pricing">>}]
                \cup [dots : 1..4, path : {<<>>}, names : {<<>>, <<"pricing">>}]],
  javascript |-> [from |-> Path(<<"web", "src">>, "main", "ts"), declared |-> {},
    packages |-> <<<<<<"web">>, <<<<"web">>>>>>, <<<<"ui">>, <<<<"ui">>>>>>, <<<<"ui">>, <<<<"web">>, <<"src">>>>>>>>,
    files |-> <<Path(<<"ui", "src">>, "index", "js"), Path(<<"ui">>, "style", "css"), Path(<<"web", "lib">>, "api", "js"),
      Path(<<"web", "public", "lib">>, "api", "ts"), Path(<<"web", "src", "lib">>, "api", "ts"),
      Path(<<"web", "src", "util">>, "index", "ts"), Path(<<"web", "src">>, "util", "js"),
      Path(<<"web", "src">>, "util", "ts"), Path(<<"web", "src">>, "util", "tsx")>>,
    imports |->
      [form : {"relative"}, path : {<<<<"util">>>>, <<<<"util", "js">>>>, <<<<"..">>, <<"src">>, <<"util">>>>,
                                    <<<<"..">>>>, <<<<"..">>, <<"..">>, <<"..">>>>}]
      \cup [form : {"rooted", "alias"}, path : {<<<<"lib">>, <<"api">>>>, <<<<"util">>>>}]
      \cup [form : {"bare", "virtual"}, name : {<<"ui">>, <<"web">>, <<"react">>, <<"path">>}, path : {<<>>, <<<<"style", "css">>>>, <<<<"index">>>>}]
      \cup [form : {"empty", "url"}, path : {<<>>}]],
  go |-> [from |-> Path(<<"cmd">>, "main", "go"), declared |-> {Dotted(<<"y.z", "k">>), Dotted(<<"y.z", "k", "l">>)},
    packages |-> <<<<Dotted(<<"x.y", "m">>), <<>>>>, <<Dotted(<<"x.y", "m", "sub">>), <<<<"sub">>>>>>>>,
    files |-> <<Path(<<"auth">>, "auth", "go"), Path(<<"auth">>, "auth_test", "go"), Path(<<"auth">>, "readme", "md"),
      Path(<<"auth">>, "token", "go"), Path(<<"sub", "auth">>, "key", "go"), Path(<<"sub">>, "sub", "go")>>,
    imports |-> [path : {Dotted(p) : p \in {<<"x.y", "m", "auth">>, <<"x.y", "m", "sub">>, <<"x.y", "m", "sub", "auth">>,
                 <<"x.y", "mm">>, <<"fmt">>, <<"y.z", "k", "l", "n">>, <<"h.h", "a", "b", "c">>, <<"x.y">>}}]],
  jvm |-> [from |-> Path(<<>>, "A", "java"), declared |-> {}, packages |-> <<>>,
    files |-> <<Path(<<"a">>, "A", "java"), Path(<<"a">>, "B", "java"), Path(<<"b">>, "A", "java"), Path(<<"b">>, "a", "java"),
      Path(<<"c">>, "A", "java"), Path(<<"d">>, "A", "java")>>,
    imports |-> [wildcard : BOOLEAN, path : {<<"A">>, <<"c", "a">>, <<"c", "a", "A">>, <<"c", "a", "A", "x">>, <<"c", "a", "f">>,
                                             <<"c", "A">>, <<"java", "A">>, <<"x", "y", "z", "w">>}]],
  csharp |-> [from |-> Path(<<>>, "A", "cs"), declared |-> {<<"n">>, <<"n", "k">>}, packages |-> <<>>,
    files |-> <<Path(<<"a">>, "A", "java"), Path(<<"a">>, "B", "java"), Path(<<"b">>, "A", "java"), Path(<<"b">>, "a", "java"),
      Path(<<"c">>, "A", "java"), Path(<<"d">>, "A", "java")>>,
    imports |-> [path : {<<"c">>, <<"c", "a">>, <<"c", "a", "A">>, <<"c", "b">>, <<"c", "b", "d">>, <<"System", "x">>,
                         <<"n", "k", "l">>, <<"m", "k", "l">>}]],
  php |-> [from |-> Path(<<"b">>, "A", "php"), declared |-> {}, packages |-> <<>>,
    files |-> <<Path(<<"a">>, "A", "php"), Path(<<"a">>, "B", "php"), Path(<<"app", "a">>, "A", "php"), Path(<<"b">>, "A", "php"),
      Path(<<"b">>, "B", "php"), Path(<<"c">>, "B", "php")>>,
    imports |-> [form : {"class"}, path : {<<"A">>, <<"B">>, <<"c", "A">>, <<"c", "a", "A">>, <<"c", "a", "B">>, <<"d", "b", "B">>,
                                           <<"z", "y", "x">>}]
                \cup [form : {"file", "dynamic"}, path : {<<>>},
                     file : {Path(<<"..", "a">>, "A", "php"), Path(<<>>, "B", "php"), Path(<<"a">>, "B", "php")}]],
  c |-> [from |-> Path(<<"src", "net">>, "socket", "c"), declared |-> {}, packages |-> <<>>,
    files |-> <<Path(<<"include">>, "log", "h"), Path(<<"log">>, "log", "h"), Path(<<>>, "log", "h"),
      Path(<<"src">>, "log", "h"), Path(<<"src", "net">>, "log", "h"), Path(<<"src", "net", "log">>, "log", "h")>>,
    imports |-> [form : {"include", "system", "import"}, path : {Path(<<>>, "log", "h"), Path(<<"log">>, "log", "h"),
                   Path(<<"..">>, "log", "h"), Path(<<"..", "..", "..">>, "log", "h"), Path(<<>>, "stdio", "h")}]],
  ruby |-> [from |-> Path(<<"gem", "lib", "shop">>, "cart", "rb"), declared |-> {}, packages |-> <<>>,
    files |-> <<Path(<<"gem", "lib">>, "json", "rb"), Path(<<"gem", "lib", "shop">>, "item", "rb"),
      Path(<<"gem", "lib", "shop", "lib">>, "item", "rb"), Path(<<"lib">>, "item", "rb"), Path(<<"lib", "shop">>, "item", "rb"),
      Path(<<"other", "shop">>, "item", "rb"), Path(<<"vendor", "x", "shop">>, "item", "rb")>>,
    imports |-> [form : {"plain", "dynamic"}, path : {<<<<"item">>>>, <<<<"item", "rb">>>>, <<<<"shop">>, <<"item">>>>, <<<<"json">>>>, <<<<"rails">>>>}]
                \cup [form : {"relative"}, path : {<<<<"..">>, <<"shop">>, <<"item">>>>, <<<<"item">>>>}]],
  dart |-> [from |-> Path(<<"app", "lib">>, "app", "dart"), declared |-> {},
    packages |-> <<<<<<"shop">>, <<<<"app">>>>>>, <<<<"shop">>, <<>>>>>>,
    files |-> <<Path(<<"app", "lib">>, "user", "dart"), Path(<<"lib">>, "user", "dart")>>,
    imports |-> [form : {"package"}, name : {<<"shop">>, <<"http">>}, path : {<<>>, Path(<<>>, "user", "dart"), Path(<<"x">>, "user", "dart")}]
                \cup [form : {"relative"}, path : {Path(<<>>, "user", "dart"), Path(<<"..", "..", "lib">>, "user", "dart")}]
                \cup [form : {"sdk"}, path : {<<>>}]],
  swift |-> [from |-> Path(<<>>, "main", "swift"), declared |-> {}, packages |-> <<>>,
    files |-> <<Path(<<"Sources", "Core", "Sources", "App">>, "b", "swift"), Path(<<"Sources", "Core">>, "m", "swift"),
      Path(<<"Sources", "Core">>, "n", "swift"), Path(<<"Sources", "Core">>, "readme", "md"),
      Path(<<"Tests", "Core">>, "a", "swift"), Path(<<"p", "Sources", "App">>, "a", "swift"), Path(<<"p", "Sources">>, "x", "swift")>>,
    imports |-> [path : {<<"Core">>, <<"App">>, <<"x">>, <<"os">>}]],
  web |-> [from |-> Path(<<"web", "css">>, "main", "scss"), declared |-> {}, packages |-> <<>>,
    files |-> <<Path(<<"public">>, "base", "css"), Path(<<"web">>, "base", "css"), Path(<<"web", "css">>, "_base", "scss"),
      Path(<<"web", "css", "base">>, "_index", "scss"), Path(<<"web", "css">>, "base", "css"),
      Path(<<"web", "css">>, "base", "scss"), Path(<<"web", "public">>, "base", "css")>>,
    imports |-> [form : {"relative", "rooted"}, path : {<<<<"base">>>>, <<<<"base", "css">>>>, <<<<"..">>, <<"base", "css">>>>}]
                \cup [form : {"dynamic", "module", "package"}, path : {<<<<"base">>>>}]],
  other |-> [from |-> Path(<<"lib", "a">>, "main", "lua"), declared |-> {}, packages |-> <<>>,
    files |-> <<Path(<<"a">>, "b", "lua"), Path(<<"a">>, "b", "sh"), Path(<<"lib", "a", "a", "b">>, "init", "lua"),
      Path(<<"lib", "a", "a">>, "b", "lua"), Path(<<"lib", "a">>, "b", "lua"), Path(<<"lib", "a">>, "b", "sh"),
      Path(<<"lib">>, "my_mod", "lua")>>,
    imports |-> [form : {"slashed"}, path : {Path(<<"a">>, "b", "sh"), Path(<<"..">>, "b", "lua"), <<<<"google">>, <<"protobuf">>, <<"x">>>>}]
                \cup [form : {"plain", "dynamic"}, path : {Path(<<>>, "b", "sh"), Path(<<>>, "a", "b"), Path(<<>>, "b", "lua"), <<<<"b">>>>, <<<<"MyMod">>>>}]
                \cup [form : {"colons"}, path : {<<<<"a">>, <<"b">>>>, <<<<"MyMod">>>>}]],
  reference |-> [from |-> Path(<<"web", "app", "x">>, "views", "py"), declared |-> {}, packages |-> <<>>,
    files |-> <<Path(<<"t">>, "i", "html"), Path(<<"web", "app", "t">>, "i", "html"),
      Path(<<"web", "app", "x">>, "i", "html"), Path(<<"web", "t">>, "i", "html")>>,
    imports |-> [path : {Path(<<"t">>, "i", "html"), Path(<<>>, "i", "html"), Path(<<"..", "t">>, "i", "html"),
                         Path(<<"..", "..", "..", "..">>, "i", "html")}]]]
Languages == DOMAIN WorldOf
Declares ==
  LET A(dir) == Path(<<dir>>, "A", "java")  P(dir, stem) == Path(<<dir>>, stem, "php") IN
  (A("a") :> <<"c", "a">>) @@ (Path(<<"a">>, "B", "java") :> <<"c", "a">>) @@ (A("b") :> <<"c">>)
  @@ (Path(<<"b">>, "a", "java") :> <<"c">>) @@ (A("c") :> <<"c", "a">>) @@ (A("d") :> <<>>)
  @@ (WorldOf.jvm.from :> <<>>) @@ (WorldOf.csharp.from :> <<>>)
  @@ (P("a", "A") :> <<"c", "a">>) @@ (P("a", "B") :> <<>>) @@ (Path(<<"app", "a">>, "A", "php") :> <<>>)
  @@ (P("b", "A") :> <<"b">>) @@ (P("b", "B") :> <<"b">>) @@ (P("c", "B") :> <<"b">>)
PathRank ==
  LET Of(w) == [p \in ToSet(w.files) |-> SelectInSeq(w.files, LAMBDA q : q = p)] @@ (w.from :> 0)
  IN FoldSet(LAMBDA language, all : Of(WorldOf[language]) @@ all, <<>>, Languages)
PathLength ==
  LET Letters(name) == FoldLeft(LAMBDA n, part : n + Len(part) + 1, 0, name) IN
  [p \in DOMAIN PathRank |-> FoldLeft(LAMBDA n, name : n + Letters(name), 0, p)]
PathBefore(p, q) == PathRank[p] < PathRank[q]
PathCloser(p, q) ==
  PathLength[p] < PathLength[q] \/ (PathLength[p] = PathLength[q] /\ PathBefore(p, q))

Graphs    == INSTANCE DependencyGraph
Modules   == INSTANCE ModuleMap WITH
               GroupingDirs <- {"packages"}, SourceRoots <- {"src"}, MaxSourceDepth <- 1,
               DominantMinFiles <- 2, SplitPasses <- 2
Past      == INSTANCE History WITH
               Month <- 2, MaxTimelineMonths <- 3, MaxDormantPeriods <- 2, Day <- 2,
               DormantDays <- 1
Tale      == INSTANCE Evolution WITH
               Area <- <<1, 1, 2>>, Root <- 0, Manifest <- <<"m", "none", "m">>,
               Special <- [tests |-> {2}, ci |-> {3}, containers |-> {1, 3}],
               MinAreaFiles <- 2, RestructureRenames <- 1, MaxPerKind <- 2, MaxFiles <- 2,
               EpochGap <- 2, SplitLongerThan <- 2, MinPart <- 1, MaxEpochs <- 2, Year <- 3
Extractor == INSTANCE Archive WITH MaxEntries <- 3, MaxEntryBytes <- 3, MaxTotalBytes <- 5
Pass      == INSTANCE FilePass WITH Chunk <- 2, MaxTokens <- 4
Log       == INSTANCE GitLog WITH CheckEvery <- 2
Declared  == INSTANCE Dependencies WITH MaxDuplicates <- 1
Rust      == INSTANCE RustImports WITH Types <- {"T"}, Library <- {"std"}
Targets   == INSTANCE Resolve WITH
               Before <- PathBefore, Closer <- PathCloser, Package <- Declares, MaxTargets <- 2,
               JsExtensions <- <<<<"ts">>, <<"tsx">>, <<"js">>>>, PythonRoots <- {<<"src">>},
               Forges <- {<<"h", "h">>}, GoTests <- {<<"auth_test">>}, Styles <- <<"scss", "css">>,
               Standard <- {<<"path">>, <<"os">>, <<"java">>, <<"System">>, <<"json">>}, Scripts <- {"lua", "sh"},
               Partial <- [base |-> "_base"],
               Snake <- [a |-> "a", b |-> "b", lua |-> "lua", sh |-> "sh", MyMod |-> "my_mod"]
Imports   == INSTANCE ImportGraph WITH
               MaxFileEdges <- 2, MaxExternal <- 1, OrderMatters <- {"python"}
Dna       == INSTANCE Fingerprint WITH
               Log2Sixth <- (1 :> 0) @@ (2 :> 1667) @@ (3 :> 2642) @@ (4 :> 3333),
               Ln21 <- (0 :> 0) @@ (1 :> 2277) @@ (20 :> 10000) @@ (400 :> 19691),
               Ln101 <- (0 :> 0) @@ (10 :> 5196) @@ (200 :> 11491)
Single    == INSTANCE Quality WITH
               MinCopied <- 3, Window <- 2, MinDistinct <- 2, MaxPairwise <- 4, Base <- 3, Modulus <- 5,
               ImportResolved <- {"python"}, DirectUse <- {"tests"}, Conventional <- {"index"},
               Legacy <- {"old", "archive"}, CrateRoots <- {"lib"}, RustDirs <- {"bin"},
               StaleDays <- 3, MaxCandidates <- 2,
               Weights <- << <<"commits", 30>>, <<"churn", 20>>, <<"recent", 15>>, <<"complexity", 15>>,
                             <<"size", 10>>, <<"authors", 5>>, <<"dependents", 5>> >>,
               MinCommits <- 2, HotLimit <- 2, Shingle <- 2, MinTokens <- 3, Bands <- 2, Rows <- 2,
               MaxBucket <- 3, MaxPairs <- 2, TopFunctions <- 2, Order <- InCodeOrder, Buckets <- <<<<1, 1>>, <<2, 3>>, <<4, 0>>>>,
               Permuted <- [slot \in 1..4 |-> [s \in {1, 2} \X {1, 2} |->
                              ((2 * s[1] + s[2]) * <<1, 2, 3, 1>>[slot] + slot * s[1]) % 5]]
Abreast   == INSTANCE Comparison WITH NamedLanguages <- 2

Between(m, n, S) == UNION {[1..k -> S] : k \in m..n}

-----------------------------------------------------------------------------
(* All graphs of three nodes, and those of four without loops that have at   *)
(* most five edges.                                                          *)
GraphInputs ==
  [0..2 -> SUBSET (0..2)] \cup
  {g \in [0..3 -> SUBSET (0..3)] :
     /\ \A v \in 0..3 : v \notin g[v]
     /\ Cardinality({p \in (0..3) \X (0..3) : p[2] \in g[p[1]]}) <= 5}

(* Up to four files in two levels of directories, or three in some deeper    *)
(* ones, and up to one package, or two inside each other.                    *)
Directories ==
  Between(0, 2, {"src", "main", "packages", "a"}) \cup
  {<<"src", "main", "a">>, <<"packages", "a", "src">>, <<"src", "a", "a">>}
Packages ==
  {{}, {<<"src">>}, {<<"packages", "a">>}, {<<"src">>, <<"src", "a">>}}
FileDirectories == {SetToSeq({i, j, k}) \o <<i>> : i, j, k \in Directories}

Findings ==
  {f \in [id : {1, 2}, severity : {1, 2}, suppressed : BOOLEAN, text : {1, 2}] :
     f.text = 1 \/ (f.id = 1 /\ ~f.suppressed)}
Files == [path : {1, 2}, hash : 0..2]
Artifacts ==
  {a \in [files : Between(0, 1, [path : {1, 2}, hash : {1, 2}]),
          owner : [{1, 2} -> 0..2], edges : SUBSET {<<1, 2>>, <<2, 1>>, <<3, 1>>}] :
     Cardinality(a.edges) <= 1}

(* Around years divisible by 4, 100 and 400, before and after 1970.          *)
Years == (-402..-398) \cup (-2..1) \cup (1599..2001)

LineRanges == {r \in (1..5) \X (1..5) : r[1] <= r[2]}

Patterns == Between(0, 4, {"/", "*", "?", "!a", "a"}) \cup Between(5, 6, {"/", "*", "a"})
Paths ==
  Between(1, 2, {<<"a">>, <<"b">>, <<"a", "b">>}) \cup
  {<<name>> : name \in [1..3 -> {"a", "b"}]} \cup
  {<<<<"a">>, <<"b">>, <<"a">>>>, <<<<"b">>, <<"a">>, <<"a">>>>,
   <<<<"a", "b", "a", "a">>>>}

Ascending(s) == \A i \in 2..Len(s) : s[i - 1] <= s[i]
Names ==
  {<<"a">>, <<"a", "b">>, <<"b">>, <<"b", "a">>, <<"a", "..", "b">>, <<"..", "a">>, <<".">>,
   <<"a", ".git", "b">>}
Entries ==
  {e \in [name : Names, kind : {"file", "directory", "link"}, size : 0..4,
          suspicious : BOOLEAN] :
     /\ e.kind # "file" => e.size = 0
     /\ e.suspicious => e.kind = "file" /\ e.size = 3 /\ e.name = <<"a">>
     /\ e.name \notin {<<"a">>, <<"a", "b">>, <<"b">>} => e.size \in {0, 2}}

Answers ==
  {a \in [takes : 0..2, status : {"ok", "overloaded", "error"}, retryAfter : {-1, 0, 1, 3, 9}] :
     a.status # "overloaded" => a.retryAfter = -1}

(* Commits of one or two changes that can follow each other, from an empty   *)
(* repository or from a shallow one that has two files.                      *)
Changes ==
  {c \in [status : {"added", "modified", "deleted", "renamed"}, path : 1..3, old : 0..3] :
     IF c.status = "renamed" THEN c.old \notin {0, c.path} ELSE c.old = 0}
Possible(paths, c) ==
  CASE c.status = "added" -> c.path \notin paths
    [] c.status = "renamed" -> c.old \in paths /\ c.path \notin paths
    [] OTHER -> c.path \in paths
After(paths, c) ==
  CASE c.status = "deleted" -> paths \ {c.path}
    [] c.status = "renamed" -> (paths \ {c.old}) \cup {c.path}
    [] OTHER -> paths \cup {c.path}
Apart(c, d) ==
  c.path < d.path /\ c.path # d.old /\ d.path # c.old /\ (c.old = 0 \/ c.old # d.old)
AfterAll(paths, commit) == FoldLeft(After, paths, commit)
Commits ==
  [paths \in SUBSET (1..3) |->
     LET one == {c \in Changes : Possible(paths, c)} IN
     {<<c>> : c \in one} \cup {s \in one \X one : Apart(s[1], s[2])}]

(* A log whose paths and subjects contain what the format separates with.   *)
GitPaths == {<<"a">>, <<":", "M">>, <<"NL", "b">>, <<"1", "TAB", "2", "TAB", "c">>}
Change(status, path, old, ins, del, binary) ==
  [status |-> status, path |-> path, old |-> old, insertions |-> ins, deletions |-> del,
   binary |-> binary]
LogChanges ==
  {Change("M", p, <<>>, 1, 2, FALSE) : p \in GitPaths} \cup
  {Change("A", p, <<>>, 0, 0, TRUE) : p \in GitPaths} \cup
  {Change("R", p, <<q>>, 1, 0, FALSE) : p, q \in GitPaths}
Removal == Change("D", <<"d">>, <<>>, 0, 2, FALSE)
Broken == Change("M", <<"NL", "b">>, <<>>, 1, 2, FALSE)
Logged(hash, changes, subject) ==
  [hash |-> <<hash>>, parents |-> <<"h3">>, author |-> <<"ada">>, time |-> <<"t1">>,
   subject |-> subject, changes |-> changes]

(* Files of a pass. The third content is of a generated Python script.      *)
Text(id, tokens, shebang, looksGenerated) ==
  [id |-> id, is |-> "text", tokens |-> tokens, shebang |-> shebang,
   looksGenerated |-> looksGenerated]
Contents ==
  {Text(1, 3, "rust", FALSE), Text(2, 2, "none", FALSE), Text(3, 1, "python", TRUE),
   [Text(4, 2, "none", FALSE) EXCEPT !.is = "grown"],
   [Text(5, 2, "none", FALSE) EXCEPT !.is = "binary"]}
PassFiles ==
  {f \in [category : {"other", "test", "lockfile", "asset"}, language : {"rust", "python", "none"},
          content : Contents, attributes : {{}, {"generated"}, {"vendored"}},
          config : {{}, {"source"}}] :
     /\ f.category \in {"lockfile", "asset"} => f.language = "none" /\ f.content.id = 1
     /\ f.content.id \in {4, 5} => f.attributes = {} /\ f.config = {} /\ f.language # "python"
     /\ f.attributes # {} => f.category = "other" /\ f.content.id \in {1, 3}
     /\ f.config # {} => f.content.id = 3 /\ f.category # "lockfile"}
Code ==
  {f \in PassFiles : f.attributes = {} /\ f.config = {} /\ f.category = "other"
                     /\ f.content.is = "text"}
InOrderOfPaths(s) == [i \in DOMAIN s |-> s[i] @@ [path |-> i]]

(* Manifests of one workspace: names are a number and a spelling.           *)
Small == <<1, "small">>
Large == <<1, "large">>
Other == <<2, "small">>
Dep(name, source, requirement, scope) ==
  [name |-> name, source |-> source, requirement |-> requirement, scope |-> scope]
Deps ==
  {Dep(n, s, r, 0) : n \in {Small, Large}, s \in {"registry", "path", "inherited"}, r \in {0, 1}}
  \cup {Dep(Small, "registry", 2, c) : c \in {1, 4}}
  \cup {Dep(Other, "git", 0, 0), Dep(Other, "registry", 1, 4)}
Manifest(path, at, ecosystem, read, package, tool, deps, shared) ==
  [path |-> path, at |-> at, ecosystem |-> ecosystem, kind |-> "manifest", read |-> read,
   package |-> package, tool |-> tool, dependencies |-> deps, shared |-> shared, pins |-> <<>>]
Lockfile(path, at, pins) ==
  [path |-> path, at |-> at, ecosystem |-> "cargo", kind |-> "lockfile", read |-> "parsed",
   package |-> <<>>, tool |-> "none", dependencies |-> <<>>, shared |-> <<>>, pins |-> pins]
Pins == {<<>>, << <<Small, 1>> >>, << <<Large, 1>>, <<Small, 2>>, <<Other, 1>> >>}
Shared ==
  {<<>>, <<Dep(Small, "path", 0, 0)>>, <<Dep(Other, "git", 1, 0), Dep(Large, "registry", 2, 0)>>}

(* Files of a Rust crate below its source directory.                        *)
RustFiles ==
  {<<"lib">>, <<"main">>, <<"a">>, <<"a", "mod">>, <<"b">>, <<"a", "b">>, <<"a", "b", "mod">>,
   <<"a", "a">>, <<"b", "mod">>, <<"a", "b", "c">>, <<"tests", "a">>, <<"b", "b", "a">>,
   <<"bin", "c">>}

(* What an import or a reference of one of four files resolves to.          *)
To(targets, confidence, level, kind) ==
  [is |-> IF kind = "reference" THEN "reference" ELSE "internal", targets |-> targets,
   confidence |-> confidence, packageLevel |-> level, kind |-> kind]
Outward == {[is |-> "external", name |-> 1], [is |-> "external", name |-> 2]}
Resolutions ==
  {To(<<t>>, c, FALSE, k) : t \in 1..4, c \in {1, 3}, k \in {"import", "module"}} \cup
  {To(<<t>>, 2, FALSE, "reference") : t \in {1, 2, 4}} \cup
  {To(<<2, 3, 4>>, 2, TRUE, "import")} \cup
  Outward \cup {[is |-> "ignored"], [is |-> "unresolved"]}
Imported ==
  {To(<<t>>, 3, FALSE, k) : t \in {1, 3}, k \in {"import", "module"}} \cup
  {To(<<1, 2>>, 2, TRUE, "import")} \cup Outward
ReferencesLast(s) == \A i \in DOMAIN s : s[i].is = "reference" => i = Len(s)

(* Artifacts of which some sections have results.                           *)
Statuses == {"analyzed", "partial", "skipped"}
Skipped == [status |-> "skipped"]
Blank ==
  [structure |-> Skipped @@ [skipped |-> 0, truncated |-> FALSE],
   languages |-> Skipped @@ [list |-> <<>>],
   architecture |-> Skipped @@ [fanIn |-> <<>>, resolved |-> 0, unresolved |-> 0],
   git |-> Skipped @@ [shallow |-> FALSE, truncated |-> FALSE, commits |-> <<>>,
                       contributors |-> <<>>, span |-> <<>>, recent |-> 0],
   quality |-> Skipped @@ [duplication |-> "skipped", ratio |-> 0],
   dependencies |-> Skipped @@ [parsed |-> TRUE, imported |-> FALSE],
   tests |-> Skipped @@ [test |-> 0, source |-> 0, inline |-> 0],
   docs |-> Skipped @@ [checks |-> <<>>],
   builds |-> Skipped, security |-> Skipped, evolution |-> Skipped, similarity |-> Skipped]
GitOf(commits, contributors) ==
  [status |-> "analyzed", commits |-> commits, contributors |-> contributors, shallow |-> FALSE,
   truncated |-> FALSE, span |-> <<1>>, recent |-> 10]

(* Repositories that are compared.                                          *)
Shown(name, shares, git, value, dimensions) ==
  [name |-> name, shares |-> shares, code |-> value, dimensions |-> dimensions,
   sections |-> [s \in {"architecture", "dependencies", "git", "tests", "docs", "quality"} |->
                   [status |-> IF s = "git" THEN git ELSE "analyzed", value |-> value]]]
Dimensions ==
  {<<>>, <<[id |-> "age", measured |-> TRUE, value |-> 1]>>,
   <<[id |-> "testing", measured |-> FALSE, value |-> 0], [id |-> "age", measured |-> TRUE, value |-> 2]>>}

(* What is known of files of code when they are judged, in order of paths.  *)
CodeFiles ==
  {f \in [path : ToSet(CodePaths) \ {<<"old">>, <<"src", "archive">>}, language : {"rust", "python"}, test : BOOLEAN,
          entry : BOOLEAN, dependents : {0, 1}, declared : BOOLEAN, changed : {<<>>, <<0>>, <<5>>}] :
     /\ f.test => ~f.entry /\ ~f.declared /\ f.language = "python"
     /\ f.entry => f.dependents = 0 /\ ~f.declared /\ f.path[1] = "web"
     /\ f.test => f.path[1] # "web"
     /\ f.changed # <<5>> => \E k \in DOMAIN f.path : f.path[k] \in {"old", "archive"}
     /\ f.declared <=> f.language = "rust" /\ f.dependents = 1
     /\ f.path[1] = "web" \/ f.path[1] = "tests" => f.language = "python"
     /\ f.path[1] = "src" => f.language = "rust"}
HotFiles ==
  {[commits |-> c, size |-> z, churn |-> u, recent |-> r, complexity |-> x, authors |-> 1, dependents |-> x] :
     c \in 1..3, z \in 0..1, u \in {1, 4}, r \in {0, 1}, x \in {0, 2}}

(* Files that set some of four settings, each to its own name or badly.      *)
SettingKeys ==
  {<<"ai", "provider">>, <<"privacy", "remote_ai">>, <<"privacy", "anonymize">>,
   <<"analysis", "profile">>}
Table(keys, value) ==
  [t \in {k[1] : k \in keys} |-> [n \in {k[2] : k \in {k \in keys : k[1] = t}} |-> value]]
Setting(keys, value) == Layer(Table(keys, value), <<>>, <<>>)
Listing(entries) == Layer(Table({}, 0), entries, entries)
ConfigFiles(who) ==
  {File("absent"), File("invalid")} \cup
  {Setting(keys, value) : keys \in SUBSET SettingKeys, value \in {who, Bad}}
ProjectFiles ==
  {File("absent"), File("invalid"),
   Setting({<<"analysis", "profile">>, <<"ai", "endpoint">>}, "project"),
   Setting({<<"privacy", "anonymize">>, <<"ai", "provider">>}, Bad)}
NoOptions == [ignoreUser |-> FALSE, ignoreProject |-> FALSE, overrides |-> Table({}, "cli")]

(* Two analyses of one repository with one fact between them, and a third;   *)
(* replies of a model and of a provider, settings, and calls to explain.     *)
Talk      == INSTANCE Explain WITH
               KeepPoints <- 2, MaxPoints <- 2, ExcerptFiles <- 1, DigestCost <- 1,
               MaxRetries <- 2, MaxRetryAfter <- 5, CancelPoll <- 2, Never <- 99
Fact(cost, paths) == [paths |-> paths, cost |-> cost, area |-> "architecture"]
Analysed(revision, extra) ==
  [name |-> "r", revision |-> revision,
   modules |-> <<[path |-> <<"a">>, name |-> <<"core">>], [path |-> <<>>, name |-> <<"r">>]>>,
   files |-> <<[path |-> <<"a", "x">>, module |-> <<<<"a">>>>], [path |-> <<"b", "y">>, module |-> <<<<>>>>],
               [path |-> <<"b", "z">>, module |-> <<>>]>>,
   facts |-> [overview |-> <<Fact(2, <<>>)>>, modules |-> <<Fact(3, <<<<"a">>>>), Fact(1, <<<<>>>>)>>,
              edges |-> <<Fact(2, <<<<"b">>, <<"a">>>>), Fact(1, <<<<>>, <<"b">>>>)>>,
              hotspots |-> <<Fact(1, <<<<"b", "y">>>>), Fact(2, <<<<"a", "x">>>>)>>,
              findings |-> <<Fact(1, <<<<"b", "z">>, <<"a", "x">>>>), [Fact(2, <<<<"b", "y">>>>) EXCEPT !.area = "activity"]>> \o extra,
              fileHistory |-> <<Fact(3, <<<<"a", "x">>>>), Fact(1, <<<<"old">>>>)>>,
              entrypoints |-> <<Fact(1, <<<<"a", "x">>>>)>>, importantFiles |-> <<Fact(1, <<<<"b", "y">>>>)>>]]
Tasks == {<<overall>> : overall \in {"repository", "architecture", "history", "dependencies", "onboarding", "question"}}
         \cup {<<"module", path>> : path \in {<<"a">>, <<"core">>, <<>>, <<"b">>, <<"c">>}}
         \cup {<<"hotspot", path>> : path \in {<<"a", "x">>, <<"b", "z">>, <<"b">>, <<"old">>, <<"c">>}}
Said == [form : {"string"}, blank : BOOLEAN] \cup [form : {"other"}]
        \cup [form : {"object"}, blank : {FALSE}, cited : {<<>>, <<1>>, <<9>>, <<9, 2, 1, 2>>}, inference : BOOLEAN]
Context(items) == [items |-> items, omitted |-> 0, tokens |-> 0, excerpts |-> FALSE]
Items == [kind : {"file", "excerpt"}, paths : {<<>>}, cost : {1, 3}]
Turned(s) == [i \in DOMAIN s |-> Len(s) + 1 - i]
Providing ==
  [provider : {"openai-compatible", "anthropic"}, model : {"none", "good"}, program : {FALSE}, keyName : {"none", "KEY"},
   endpoint : {"none", "loopback", "anthropic", "other", "invalid"}, variables : SUBSET {"KEY", "ANTHROPIC_API_KEY"}]
  \cup [provider : {"none", "native", "command"}, model : {"none", "good", "bad"}, program : BOOLEAN,
        keyName : {"none", "KEY"}, endpoint : {"none", "other"}, variables : {{}}]
HttpReplies ==
  [status : {200, 400}, namesLimit : BOOLEAN, whole : BOOLEAN, blank : BOOLEAN, refusal : BOOLEAN,
   finish : {"stop", "length", "content_filter"}]
Explains ==
  [act : {"explain"}, dna : {Analysed(1, <<>>), Analysed(2, <<>>), Analysed(2, <<Fact(1, <<<<"a">>>>)>>)}, task : {<<"module", <<"a">>>>},
   budget : {8}, destination : {1}, useCache : {TRUE}, answers : BOOLEAN,
   reply : {[structured |-> TRUE, confidence |-> 3,
             points |-> <<[form |-> "object", blank |-> FALSE, cited |-> <<3, 9, 1>>, inference |-> FALSE]>>]}]
Calls ==
  {[act |-> "clear"]} \cup Explains
  \cup {[c EXCEPT !.destination = 2] : c \in {d \in Explains : d.answers /\ d.dna.revision = 1}}
  \cup {[c EXCEPT !.useCache = FALSE] : c \in {d \in Explains : d.answers /\ d.dna.revision = 1}}
  \cup {[c EXCEPT !.task = t] : c \in {d \in Explains : d.answers /\ d.dna.revision = 1}, t \in {<<"hotspot", <<"a", "x">>>>, <<"module", <<"c">>>>}}

(* Labels of the ranker: two spellings of one repository, two others and a   *)
(* blank name.                                                               *)
Ranks     == INSTANCE Ranking WITH
               Canonical <- <<1, 1, 2, 3, 0, 4>>, Discount <- <<60000, 37856, 30000, 25840, 23211>>,
               MaxPairs <- 5, MaxExamples <- 4
Label(repository, id, relevant, score) ==
  [repository |-> repository, query |-> 1, id |-> id, kind |-> "fact", detailed |-> TRUE,
   relevant |-> relevant, reviewed |-> FALSE, score |-> score]
Row(repository) == Label(repository, repository, TRUE, 5)
Families(repositories, families) ==
  [i \in DOMAIN repositories |-> [repository |-> repositories[i], family |-> families[i]]]
Flawed == {[Row(1) EXCEPT !.query = 0], [Row(1) EXCEPT !.id = 0], [Row(1) EXCEPT !.detailed = FALSE],
           [Row(1) EXCEPT !.kind = "excerpt"], [Row(2) EXCEPT !.id = 1], [Row(1) EXCEPT !.score = 4],
           Row(2), Row(5)}

(* Findings of every analyzer, and of a plugin.                              *)
Found     == INSTANCE Findings WITH
               Most <- [fileCycles |-> 1, isolated |-> 1, perRule |-> 2, similar |-> 1, places |-> 1, hotspots |-> 1,
                        candidates |-> 3, security |-> 2, stale |-> 1, churn |-> 2, binary |-> 1, evolution |-> 1,
                        references |-> 1, findings |-> 2, metrics |-> 1],
               Least <- [modules |-> 4, flat |-> 3, monolith |-> 60, concentration |-> 50, hub |-> 30, imports |-> 2,
                         unresolved |-> 30, complexity |-> 2, duplicated |-> 2, duplication |-> 5, hotspot |-> 6,
                         candidates |-> 2, untested |-> 2, built |-> 3, tested |-> 5, sourceCode |-> 20, stale |-> 2,
                         external |-> 50, importers |-> 2, churn |-> 30, recent |-> 2, commits |-> 3, ownership |-> 75,
                         binary |-> 2, dormant |-> 2]
Reported(rule, subject, severity, paths) ==
  [rule |-> rule, subject |-> subject, severity |-> severity, paths |-> paths, suppressed |-> <<>>]
AnyFindings ==
  {Reported(rule, subject, 1, {}) : rule \in {"docs.readme-short", "quality.markers"}, subject \in {<<"p">>, <<"q">>}}
  \cup {Reported("plugin.a", subject, severity, paths) : subject \in {<<"p">>, <<"q">>}, severity \in {1, 3}, paths \in {{}, {<<"p">>}}}
Hiding ==
  {<<>>} \cup {<<[rule |-> r, id |-> <<>>, paths |-> p, reason |-> 1], [rule |-> "any", id |-> i, paths |-> <<>>, reason |-> 2]>> :
    r \in {"plugin.a"}, p \in {<<>>, <<{<<"p">>}>>}, i \in {<<<<"quality.markers", <<"p">>>>>>, <<<<"docs.readme-short", <<"q">>>>>>}}
Cycle(level, members, tolerated) == [level |-> level, members |-> members, tolerated |-> tolerated]
Built(code, spare, cycles) ==
  [modules |-> [i \in DOMAIN code |-> [name |-> i, code |-> code[i], fanOut |-> i + code[i], central |-> 10 * i + 5 * code[i],
                                      isolated |-> code[i] < 2, root |-> i = 1, consumer |-> i = 2]],
   code |-> FoldLeft(LAMBDA n, c : n + c, spare, code), cycles |-> cycles, packages |-> spare, workspace |-> spare = 1,
   layers |-> IF spare = 2 THEN 2 ELSE 3, edges |-> Len(code) \div 2, files |-> spare + Len(code), resolved |-> 1, unresolved |-> spare]
Candidates == [at : {<<"a">>}, example : BOOLEAN, confidence : 1..3, key : BOOLEAN]
Located(s) == [i \in DOMAIN s |-> [s[i] EXCEPT !.at = (i * 3) % 5]]
Checks == [{"readme", "license", "usage", "changelog"} -> {"present", "partial", "missing"}]
Areas ==
  <<[path |-> <<>>, share |-> 0], [path |-> <<"a">>, share |-> 0], [path |-> <<"a", "b">>, share |-> 0],
    [path |-> <<"a", "c">>, share |-> 0], [path |-> <<"d">>, share |-> 0]>>
Named(n) == [i \in 1..n |-> <<i>>]
Measuring(n, k, status) ==
  [functions |-> [i \in 1..n |-> [name |-> <<i>>, complexity |-> k]], long |-> Named(n), deep |-> Named(k), large |-> Named(n),
   clusters |-> [i \in 1..n |-> [id |-> <<i>>, paths |-> Named(k)]], duplication |-> status, duplicated |-> n, analyzed |-> 20 * k,
   similar |-> [i \in 1..k |-> <<<<i>>, <<n>>>>], markers |-> k, dead |-> Named(n)]
Declaring(path, kind, ecosystem, changed, missing) ==
  [path |-> path, kind |-> kind, ecosystem |-> ecosystem, changed |-> changed, missing |-> missing]
KeptFiles ==
  {Declaring(<<p>>, "manifest", "go", c, 0) : p \in {"f", "g"}, c \in {<<>>, <<0>>, <<3>>}} \cup
  {Declaring(<<p>>, "lockfile", e, <<0>>, n) : p \in {"f", "g"}, e \in {"go", "npm"}, n \in 0..1}
PluginItems ==
  [formed : {TRUE}, rule : {"plugin.a", "bad"}, title : {"t", "blank"}, severity : {1}, paths : {<<>>, <<"outside", "p">>, <<"p", "q">>}]
  \cup [formed : {FALSE}]
PluginMetrics == [formed : {TRUE}, id : {"m", "bad"}, finite : BOOLEAN] \cup [formed : {FALSE}]
Shares == {<<r, b + c + own, b, c, d>> : r \in {0, 30}, b \in {0, 30, 40}, c \in {0, 30}, own \in {0, 10}, d \in {0, 35, 60}}

-----------------------------------------------------------------------------
Parts == {"graph", "modules", "findings", "hashes", "impact", "year", "streams", "lines",
          "pattern", "settings", "history", "lineage", "summary", "tags", "archive", "answers",
          "log", "pass", "manifests", "rust", "imports", "dna", "compared",
          "unused", "hot", "alike", "functions", "resolve", "ranked", "labels",
          "evidence", "answer", "provider", "session", "noted", "reported"}

PickEvidence ==
  \E extra \in {<<>>, <<Fact(1, <<<<"a">>>>)>>}, asked \in Tasks, checkout \in SUBSET {<<"a", "x">>, <<"b", "y">>}, budget \in 0..16 :
    input' = <<"evidence", Analysed(1, extra), asked, checkout, budget>>
PickAnswer ==
  \/ \E points \in Between(0, 3, Said), confidence \in 1..3, structured \in BOOLEAN :
       LET items == <<[kind |-> "file", paths |-> <<>>, cost |-> 1], [kind |-> "excerpt", paths |-> <<>>, cost |-> 2]>> IN
       /\ structured \/ Len(points) = 1
       /\ input' = <<"answer", [structured |-> structured, points |-> points, confidence |-> confidence], Context(items), 9, <<1, 2>>>>
  \/ \E items \in Between(0, 3, Items), limit \in 0..7, turned \in BOOLEAN :
       input' = <<"answer", [structured |-> FALSE, points |-> <<>>, confidence |-> 1], Context(items), limit,
                  IF turned THEN Turned(items) ELSE [i \in DOMAIN items |-> i]>>
PickProvider ==
  \/ \E config \in Providing, reply \in {r \in HttpReplies : r.status = 200 /\ r.finish = "stop" /\ r.whole /\ ~r.refusal /\ ~r.namesLimit} :
       input' = <<"provider", config, <<reply, reply>>>>
  \/ \E first, second \in HttpReplies, config \in {c \in Providing : c.provider = "native" /\ c.endpoint = "none"} :
       /\ first.status = 400 \/ second = first
       /\ config.model = "good" /\ config.program /\ config.keyName = "none"
       /\ input' = <<"provider", config, <<first, second>>>>
PickSession == \E calls \in Between(1, 3, Calls) : input' = <<"session", calls>>

PickRanked ==
  \E n \in 1..4, k \in 1..2 :
  \E at \in [1..n -> {1, 2, 3}], relevant \in [1..n -> BOOLEAN], score \in [1..n -> {4, 5, 10}] :
    /\ n < 4 \/ (\A i \in 1..n : at[i] = (i % 2) + 1 /\ score[i] # 4)
    /\ n < 3 \/ at[1] # 3
    /\ input' = <<"ranked", [i \in 1..n |-> Label(at[i], i, relevant[i], score[i])], k>>
PickLabels ==
  \/ \E a, b, c \in 1..4, repositories \in {<<1, 3, 4>>, <<4, 3, 2>>, <<3, 4>>, <<1, 3, 4, 2>>, <<1, 3, 4, 6>>} :
     \E families \in [DOMAIN repositories -> 0..3] :
       /\ families[1] <= 1
       /\ \A i \in DOMAIN families : (i = 4 \/ repositories[1] = 4) => families[i] # 0
       /\ input' = <<"labels", <<<<Row(a)>>, <<Row(b)>>, <<Row(c)>>>>, Families(repositories, families)>>
  \/ \E flaw \in Flawed, at \in 1..3, beside \in BOOLEAN, families \in {<<1, 2, 3>>, <<1, 2, 1>>} :
       LET whole == <<<<Row(1)>>, <<Row(3)>>, <<Row(4)>>>> IN
       input' = <<"labels", [whole EXCEPT ![at] = IF beside THEN Append(@, flaw) ELSE <<flaw>>], Families(<<1, 3, 4>>, families)>>

PickNoted ==
  \/ \E s \in Between(0, 2, AnyFindings), t \in Between(0, 1, AnyFindings), rules \in Hiding, limit \in 1..2 :
       input' = <<"noted", "list", s \o t \o s, rules, limit>>
  \/ \E code \in Between(0, 4, {0, 1, 4}), spare \in 0..2,
        cycles \in Between(0, 2, {Cycle("file", <<<<8>>, <<9>>>>, FALSE), Cycle("module", <<<<1>>, <<2>>>>, TRUE), Cycle("module", <<<<2>>, <<3>>>>, FALSE)}) :
       /\ Cardinality(ToSet(cycles)) = Len(cycles) /\ (Len(code) < 3 => cycles = <<>>)
       /\ input' = <<"noted", "architecture", Built(code, spare, cycles)>>
  \/ \E s \in Between(0, 2, Candidates), t \in Between(0, 2, {c \in Candidates : c.key /\ c.confidence = 3}), twice \in BOOLEAN :
       input' = <<"noted", "security", Located(t \o s), Located(IF twice THEN s \o s ELSE s)>>
  \/ \E checks \in Checks, test, source \in {0, 3}, ci \in {{}, {1}}, inline, coverage \in BOOLEAN, testCode \in {0, 9}, commands \in 0..1 :
       input' = <<"noted", "project", [testFiles |-> test, sourceFiles |-> source, inline |-> inline, testCode |-> testCode,
                   sourceCode |-> 10 * source, ci |-> ci, ciCommands |-> commands, coverage |-> coverage], checks>>
  \/ \E shares \in Shares, recent \in {1, 2}, byTop \in 0..4 :
       input' = <<"noted", "git", [areas |-> [i \in 1..5 |-> [Areas[i] EXCEPT !.share = shares[i]]], recent |-> recent, commits |-> 4, byTop |-> byTop]>>
  \/ \E n, k \in 0..3, status \in Statuses, scores \in Between(0, 3, {5, 6}), bytes \in Between(0, 3, {1, 2}) :
       input' = <<"noted", "measured", Measuring(n, k, status), [i \in DOMAIN scores |-> [path |-> <<i>>, score |-> scores[i]]],
                  [i \in DOMAIN bytes |-> [path |-> <<i>>, bytes |-> bytes[i], binary |-> i # k]]>>
  \/ \E days \in Between(0, 3, 1..3), classes \in Between(0, 3, {"new", "old"}), n \in 0..2 :
       input' = <<"noted", "aged", Named(n), [i \in DOMAIN days |-> [before |-> i, days |-> days[i]]],
                  [i \in DOMAIN classes |-> [name |-> i, class |-> classes[i]]]>>
  \/ \E a, b \in KeptFiles, externals \in Between(0, 3, 1..2), latest \in {<<>>, <<3>>}, declared \in SUBSET {"go", "npm"}, duplicates \in 0..1 :
       /\ a.path # b.path
       /\ input' = <<"noted", "declared", [manifests |-> <<a, b>>, declared |-> declared, duplicates |-> duplicates, stale |-> <<>>, top |-> <<>>],
                     [i \in DOMAIN externals |-> [name |-> <<"x", "y", "z">>[i], importers |-> externals[Len(externals) + 1 - i] + Len(externals) - i]], latest>>
  \/ \E items \in Between(0, 3, PluginItems), metrics \in Between(0, 2, PluginMetrics), api \in {"current", "other"} :
       input' = <<"noted", "plugin", [api |-> api, findings |-> items, metrics |-> metrics]>>
PickGraph == \E g \in GraphInputs : input' = <<"graph", g>>
PickModules ==
  \E dirs \in FileDirectories, packages \in Packages : input' = <<"modules", dirs, packages>>
PickFindings ==
  \E s, t \in Between(0, 2, Findings), failOn \in 0..2 : input' = <<"findings", s, t, failOn>>
PickHashes ==
  \E s, t \in Between(0, 3, Files) : Len(s) + Len(t) <= 4 /\ input' = <<"hashes", s, t>>
PickImpact == \E a, b \in Artifacts : input' = <<"impact", a, b>>
PickYear == \E y \in Years : input' = <<"year", y>>
PickStreams ==
  \/ \E s \in Between(6, 9, {1, 2}) : input' = <<"streams", <<s>>>>
  \/ \E s, t \in Between(3, 6, {1, 2}) : input' = <<"streams", <<s, t>>>>
PickLines ==
  \E ranges \in SUBSET LineRanges : Cardinality(ranges) <= 3 /\ input' = <<"lines", ranges>>
PickPattern == \E pattern \in Patterns : input' = <<"pattern", pattern, Paths>>
PickSettings ==
  \/ \E own \in ConfigFiles("user"), explicit \in ConfigFiles("explicit"),
        project \in ConfigFiles("project") :
       input' = <<"settings", [user |-> own, explicit |-> explicit,
                               project |-> <<project, File("absent")>>], NoOptions>>
  \/ \E own \in {File("absent"), Setting({<<"ai", "provider">>}, "user"),
                Setting({<<"ai", "provider">>}, Bad)},
        explicit \in {File("absent"), File("missing")},
        first, second \in ProjectFiles, value \in {"cli", Bad},
        keys \in SUBSET (SettingKeys \ {<<"ai", "provider">>}),
        ignoreUser, ignoreProject \in BOOLEAN :
       input' = <<"settings", [user |-> own, explicit |-> explicit, project |-> <<first, second>>],
                  [ignoreUser |-> ignoreUser, ignoreProject |-> ignoreProject,
                   overrides |-> Table(keys, value)]>>
  \/ \E p, q, r \in Between(0, 2, {1, 2}) :
       input' = <<"settings", [user |-> Listing(p), explicit |-> Listing(q),
                               project |-> <<File("absent"), Listing(r)>>], NoOptions>>
PickHistory ==
  \E stamps \in Between(0, 4, {0, 1, 2, 5}) :
  \E releases \in Between(0, 3, DOMAIN stamps), max \in 0..6 :
    /\ Ascending(releases)
    /\ Ascending(stamps) \/ (max <= 5 /\ Len(stamps) <= 3 /\ Len(releases) <= 2)
    /\ input' = <<"history", stamps, releases, max>>
PickLineage ==
  \E before \in {{}, {1, 2}} :
  \E a \in Commits[before] : LET first == AfterAll(before, a) IN
  \E b \in Commits[first] : LET second == AfterAll(first, b) IN
  \E c \in Commits[second] : LET third == AfterAll(second, c) IN
  \E d \in {s \in Commits[third] : Len(s) = 1} :
    /\ Len(a) + Len(b) + Len(c) <= 4 /\ (before # {} => Len(a) = 1)
    /\ input' = <<"lineage",
                  [i \in 1..4 |-> [author |-> i % 3, at |-> (5 * i) % 4, hash |-> i,
                                  changes |-> <<d, c, b, a>>[i]]],
                  AfterAll(third, d), before>>
Authored(authors, at) ==
  [i \in DOMAIN authors |-> [author |-> authors[i], at |-> at[i], changes |-> <<>>]]
Releases == [i \in 1..3 |-> [at |-> i % 2, hash |-> i]]
PickSummary ==
  \/ \E n \in 0..3 : \E authors \in [1..n -> 1..3], at \in [1..n -> 0..9] :
       input' = <<"summary", Authored(authors, at)>>
  \/ \E authors \in [1..4 -> 1..2], at \in [1..4 -> {0, 3, 4, 7, 11}] :
       input' = <<"summary", Authored(authors, at)>>
PickTags ==
  \E n \in 1..4, k \in 0..4 : \E tags \in [1..k -> 0..n] :
    input' = <<"tags", [i \in 1..n |-> 0], tags>>
PickArchive ==
  \E kind \in {"zip", "tar"}, chunk \in {1, 2}, e, f \in Entries :
  \E s \in {<<e>>, <<e, f>>, <<e, f, e>>, <<e, f, f>>, <<e, e, f, f>>} :
    input' = <<"archive", kind, s, chunk>>
PickAnswers ==
  \E s \in [1..3 -> Answers], cancelAt \in 0..10 \cup {99} : input' = <<"answers", s, cancelAt>>

PickLog ==
  \/ \E c, d \in LogChanges, last \in {<<>>, <<Removal>>},
        order \in {<<1, 2, 3>>, <<2, 1, 3>>, <<3, 2, 1>>, <<2, 3, 1>>} :
       /\ c.path # d.path /\ (last = <<>> => order[3] = 3)
       /\ input' = <<"log", <<Logged("h1", <<c, d>> \o last, <<"s">>)>>, <<order>>, 0, 9>>
  \/ \E n \in 0..3, max \in 0..3, cancelAt \in 0..4,
        subject \in {<<>>, <<"s", "US", "NL", "s">>, <<"US", "US">>} :
     \E changes \in [1..n -> {<<>>, <<Broken>>}] :
       input' = <<"log", [i \in 1..n |-> Logged(<<"h1", "h2", "h3">>[i], changes[i], subject)],
                  [i \in 1..n |-> <<1>>], max, cancelAt>>
PickPass ==
  \E s \in {<<f, g>> : f, g \in PassFiles} \cup [1..3 -> Code], cancelAt \in 0..2,
     earlier \in {<<>>} \cup {<<f>> : f \in {f \in Code : f.language # "none"}},
     stages \in {{"parsing", "duplication", "security"}, {"parsing"}} :
    /\ cancelAt = 2 => Len(s) = 3
    /\ stages = {"parsing"} => Len(s) = 2 /\ earlier = <<>>
    /\ input' = <<"pass", InOrderOfPaths(s), stages, InOrderOfPaths(earlier), cancelAt>>
PickManifests ==
  \E d, e \in Deps, package \in {<<>>, <<Large>>, <<Other>>}, shared \in Shared, pins \in Pins,
     at \in {<<>>, <<"a">>, <<"b">>}, read \in {"parsed", "failed"}, ecosystem \in {"cargo", "npm"} :
  \E second \in {<<>>, <<d>>} :
    /\ read = "failed" => shared = <<>> /\ pins = <<>>
    /\ ecosystem = "npm" => shared = <<>> /\ at = <<>> /\ package = <<>>
    /\ second # <<>> => at = <<>> /\ pins # <<>>
    /\ input' = <<"manifests",
                  <<Lockfile(5, at, pins),
                    Manifest(1, <<"a">>, "cargo", "parsed", <<>>, "none", <<e>> \o second, <<>>),
                    Manifest(2, <<"b">>, ecosystem, read, package, "tool", <<d>>, shared),
                    Manifest(3, <<>>, "cargo", "partial", <<>>, "none", <<>>,
                             <<Dep(Small, "registry", 3, 4)>>)>> >>
PickRust ==
  \E src \in {<<"src">>, <<"c", "src">>, <<"src", "c", "src">>, <<"c">>}, names \in SUBSET RustFiles :
    /\ src # <<"src">> => <<"bin", "c">> \notin names /\ <<"tests", "a">> \notin names
    /\ input' = <<"rust", {src \o n : n \in names}, src>>
PickResolve ==
  \E language \in Languages : LET all == ToSet(WorldOf[language].files) IN
    \E files \in UNION {kSubset(k, all) : k \in {0, 2, 3}} :
      input' = <<"resolve", language, files \cup {WorldOf[language].from}>>
PickImports ==
  \E a \in Between(0, 2, Resolutions), b \in Between(0, 1, Imported), c \in Imported,
     modules \in {<<1, 1, 2, 0>>, <<1, 2, 3, 0>>} :
    /\ ReferencesLast(a)
    /\ input' = <<"imports", modules, <<"rust", "rust", "python", "none">>, <<a, b, <<c>>, <<>> >> >>
PickDna ==
  \/ \E s \in Statuses, list \in Between(0, 3, [share : {0, 1, 3}, code : {0, 2}]) :
       input' = <<"dna", [Blank EXCEPT !.languages = [status |-> s, list |-> list]]>>
  \/ \E s \in Statuses, n \in 0..4 : \E fanIn \in [1..n -> 0..3], r, u \in {0, 1, 2, 7} :
       /\ \A i \in 1..n : fanIn[i] <= n - 1
       /\ input' = <<"dna", [Blank EXCEPT !.architecture =
                      [status |-> s, fanIn |-> fanIn, resolved |-> r, unresolved |-> u]]>>
  \/ \E c \in Between(0, 3, 0..3) \cup {<<a, b, b, b, b, b, b, b, b, b>> : a, b \in 1..2},
        p \in Between(0, 3, 1..3) :
       /\ Len(c) < 10 => Len(p) <= 1
       /\ input' = <<"dna", [Blank EXCEPT !.git = GitOf(c, p)]>>
  \/ \E s \in Statuses, shallow, truncated \in BOOLEAN, c \in {<<2>>, <<1, 1>>, <<1, 3>>},
        span \in {<<>>, <<-1>>, <<0>>, <<20>>, <<400>>}, recent \in {0, 200} :
       /\ s = "skipped" => ~shallow /\ ~truncated /\ c = <<2>> /\ span = <<>> /\ recent = 0
       /\ input' = <<"dna", [Blank EXCEPT !.git =
            IF s = "skipped" THEN @
            ELSE [status |-> s, shallow |-> shallow, truncated |-> truncated, commits |-> c,
                  contributors |-> c, span |-> span, recent |-> recent]]>>
  \/ \E s \in [1..5 -> Statuses], checks \in Between(0, 2, {"present", "partial", "missing"}),
        counts \in [1..3 -> 0..1] :
       /\ s[1] = "partial" => Len(checks) = 2
       /\ input' = <<"dna", [Blank EXCEPT
            !.structure = [status |-> s[1], skipped |-> counts[1], truncated |-> FALSE],
            !.dependencies = [status |-> s[2], parsed |-> counts[1] = 0, imported |-> TRUE],
            !.tests = [status |-> s[3], test |-> counts[1], source |-> counts[2], inline |-> counts[3]],
            !.docs = [status |-> s[4], checks |-> checks],
            !.quality = [status |-> s[5], duplication |-> s[5], ratio |-> 0]]>>
PickCompared ==
  \/ \E n \in 2..3 : \E names \in [1..n -> {<<"a">>, <<"b">>, <<"a", 1>>}], v \in [1..n -> 0..2],
        s \in [1..n -> {"analyzed", "skipped"}] :
       input' = <<"compared", [i \in 1..n |-> Shown(names[i], <<1>>, s[i], v[i], <<>>)]>>
  \/ \E n \in 2..3 : \E shares \in [1..n -> [1..3 -> 0..2]] :
       /\ n = 3 => shares[3] \in {<<0, 1, 2>>, <<1, 1, 1>>}
       /\ input' = <<"compared", [i \in 1..n |-> Shown(<<"a">>, shares[i], "analyzed", 0, <<>>)]>>
  \/ \E dims \in [1..3 -> Dimensions] :
       input' = <<"compared", [i \in 1..3 |-> Shown(<<"a">>, <<1>>, "skipped", 0, dims[i])]>>
PickUnused ==
  \E f, g, h \in CodeFiles, reliable \in BOOLEAN :
    /\ f.path # g.path /\ g.path # h.path /\ f.path # h.path
    /\ InCodeOrder(f.path, g.path) /\ Cardinality({i \in {f, g, h} : i.test \/ i.entry}) <= 1
    /\ reliable \/ f.language # "rust"
    /\ g.path[1] = "src" => h.path[1] # "src"
    /\ Cardinality({i \in {f, g, h} : i.changed = <<0>>}) <= 1 /\ f.dependents + g.dependents + h.dependents <= 1
    /\ Cardinality({i \in {f, g, h} : i.changed = <<>>}) <= 1
    /\ input' = <<"unused", <<f, g, h>>, reliable>>
PickHot ==
  \E f, g \in HotFiles, h \in {h \in HotFiles : h.churn = 1 /\ h.size = 1} :
    input' = <<"hot", InOrderOfPaths(<<f, g, h>>)>>
PickAlike ==
  \E s, t \in Between(2, 4, {1, 2}), u \in Between(3, 3, {1, 2}), other \in BOOLEAN, threshold \in {2, 3} :
    input' = <<"alike", << [tokens |-> s, test |-> FALSE, language |-> "rust"],
                           [tokens |-> u, test |-> FALSE, language |-> IF other THEN "c" ELSE "rust"],
                           [tokens |-> t, test |-> FALSE, language |-> "rust"] >>, threshold>>
PickFunctions ==
  \E s \in Between(0, 4, [value : 1..4, lines : 1..2]) : input' = <<"functions", s>>

(* Reports: lists of one length but for one of them, so long that every      *)
(* limit is passed or not at all; choices of sections; findings around the   *)
(* limits; charts, histories, exports and presets of a few items.            *)
Told    == INSTANCE Reports
Figured == INSTANCE Figures

ListsOf(section) ==
  Told!Content[section] \cup
  (CASE section = "identity" -> {"owner", "remotes", "branch", "revision", "description"}
     [] section = "duplication" -> {"clusters", "similar_files", "duplication_method", "similarity_method"}
     [] section = "tests" -> {"test_files", "inline_test_files"}
     [] section = "history" -> {"points", "commits"}
     [] section = "time-machine" -> {"growth", "recent_changes", "recent_directories", "added_files", "removed_files",
                                      "dependency_changes"}
     [] section = "onboarding" -> {"glossary"}
     [] section = "metrics" -> {"fingerprint_method"}
     [] section = "metadata" -> {"redactions"}
     [] OTHER -> {})
EveryList == UNION {ListsOf(section) : section \in ToSet(Told!ALL)}
EveryArea == {"languages", "structure", "architecture", "dependencies", "git", "code_quality", "duplication",
              "similarity", "tests", "builds", "docs", "security", "evolution"}
UpToThree(n) == IF n < 3 THEN n ELSE 3
Written(n, list, m, area, status, counts) ==
  [size |-> [l \in EveryList |-> IF l = list THEN m ELSE n],
   status |-> [a \in EveryArea |-> IF a = area THEN status ELSE "analyzed"],
   notes |-> [a \in EveryArea |-> UpToThree(n)], flat |-> IF m = 2 THEN {list, "weekday_hour"} ELSE {},
   findings |-> counts, outputs |-> n > 0,
   steps |-> [i \in 1..UpToThree(m) |-> [described |-> i = 1, items |-> i % 2]]]
Each(n) == [critical |-> n, warning |-> n, attention |-> n, info |-> n, suppressed |-> n]

PickSection ==
  \E section \in ToSet(Told!ALL), n \in {0, 1, 400} :
    \E list \in ListsOf(section) \cup {"none"}, m \in {0, 1, 2, 400},
       area \in (IF section \in DOMAIN Told!Needs THEN Told!Needs[section] ELSE {"git"}),
       status \in {"analyzed", "partial", "disabled"} :
      input' = <<"reported", "section", section, n, list, m, area, status>>
PickReport ==
  \/ \E m \in {0, 1, 400}, sections \in SUBSET {"cover", "tests", "build", "findings", "evolution"}, all \in BOOLEAN, n \in {0, 25} :
       input' = <<"reported", "page", m, IF all THEN ToSet(Told!ALL) ELSE sections, n>>
  \/ \E ids \in Between(0, 3, {"cover", "summary", "findings", "unheard-of"}) : input' = <<"reported", "choice", ids>>
  \/ \E c, w, a, i, x \in {0, 3, 58, 90} :
       input' = <<"reported", "counts", [critical |-> c, warning |-> w, attention |-> a, info |-> i, suppressed |-> x]>>
PickFigure ==
  \/ \E a, b, c, d \in 0..4, n \in 1..3, count \in {1, 3, 7} :
       /\ a >= b /\ b >= c /\ c >= d
       /\ \E k \in 0..4 : input' = <<"reported", "shares", SubSeq(<<a, b, c, d>>, 1, k), n, count>>
  \/ \E max \in 0..120 \cup {199, 200, 201, 400, 401, 2000, 2001, 9999, 10000}, n \in 0..20 \cup {47, 48, 120} :
       (max < 12 \/ n < 4) /\ input' = <<"reported", "chart", max, n>>
  \/ \E periods \in SUBSET {<<0, 0>>, <<0, 2>>, <<2, 3>>, <<1, 4>>}, events \in SUBSET {0, 1, 3, 5} :
       input' = <<"reported", "bands", periods, events>>
  \/ \E layers \in [1..3 -> 0..2], labels \in [1..3 -> 0..1], edges \in SUBSET {<<1, 2>>, <<2, 3>>, <<3, 1>>, <<1, 4>>} :
       input' = <<"reported", "diagram", {[id |-> i, layer |-> layers[i], label |-> labels[i]] : i \in 1..3}, edges>>
  \/ \E on \in SUBSET (0..7), many \in 1..2, limit \in {3, 5, 8} :
       input' = <<"reported", "days", [d \in on |-> 1 + ((d * many) % 3)], limit>>
  \/ \E first \in 0..2, last \in {1, 3, 47, 48, 50, 145, 150} :
       input' = <<"reported", "months", [m \in first..last |-> m % 3]>>
  \/ \E kind \in {"languages", "architecture", "activity", "tests", "dna"}, fact \in {<<>>, <<0>>, <<2>>} :
       input' = <<"reported", "badge", kind, fact>>
PickExport ==
  \/ \E ids, severities \in [1..2 -> 1..2], hidden \in BOOLEAN, rule \in {"", "r"}, kind \in {"file", "metric"},
        paths \in Between(0, 2, {[name |-> "a", safe |-> TRUE], [name |-> "b", safe |-> FALSE]}),
        seen \in {<<>>, <<{1}>>, <<{}>>} :
       LET Evidence(i, k) == [kind |-> k, path |-> [name |-> "a", safe |-> i = 1], line |-> i] IN
       input' = <<"reported", "sarif",
                  [i \in 1..2 |-> [id |-> ids[i], rule |-> IF i = 1 THEN rule ELSE "s", severity |-> 1 + severities[i],
                                   suppressed |-> hidden /\ i = 2,
                                   evidence |-> IF i = 1 THEN <<Evidence(1, kind), Evidence(2, "file")>> ELSE <<>>,
                                   paths |-> paths]], seen>>
  \/ \E authors \in Between(0, 3, 1..3), some \in BOOLEAN, known \in 0..2, more \in SUBSET {"remotes", "symbols", "functions"} :
       input' = <<"reported", "privacy",
                  [commits |-> [i \in DOMAIN authors |-> [author |-> <<"person", authors[i]>>,
                                                          subject |-> IF some THEN "said" ELSE ""]],
                   contributors |-> [i \in 1..known |-> <<"person", i>>], markers |-> some, outputs |-> some,
                   remotes |-> "remotes" \in more, symbols |-> "symbols" \in more, functions |-> "functions" \in more,
                   redactions |-> {}, preset |-> "local"]>>
PickReported == PickSection \/ PickReport \/ PickFigure \/ PickExport

Pick ==
  \/ input = <<"graph">> /\ PickGraph
  \/ input = <<"modules">> /\ PickModules
  \/ input = <<"findings">> /\ PickFindings
  \/ input = <<"hashes">> /\ PickHashes
  \/ input = <<"impact">> /\ PickImpact
  \/ input = <<"year">> /\ PickYear
  \/ input = <<"streams">> /\ PickStreams
  \/ input = <<"lines">> /\ PickLines
  \/ input = <<"pattern">> /\ PickPattern
  \/ input = <<"settings">> /\ PickSettings
  \/ input = <<"history">> /\ PickHistory
  \/ input = <<"lineage">> /\ PickLineage
  \/ input = <<"summary">> /\ PickSummary
  \/ input = <<"tags">> /\ PickTags
  \/ input = <<"archive">> /\ PickArchive
  \/ input = <<"answers">> /\ PickAnswers
  \/ input = <<"log">> /\ PickLog
  \/ input = <<"pass">> /\ PickPass
  \/ input = <<"manifests">> /\ PickManifests
  \/ input = <<"rust">> /\ PickRust
  \/ input = <<"resolve">> /\ PickResolve
  \/ input = <<"evidence">> /\ PickEvidence
  \/ input = <<"answer">> /\ PickAnswer
  \/ input = <<"provider">> /\ PickProvider
  \/ input = <<"session">> /\ PickSession
  \/ input = <<"ranked">> /\ PickRanked
  \/ input = <<"labels">> /\ PickLabels
  \/ input = <<"noted">> /\ PickNoted
  \/ input = <<"reported">> /\ PickReported
  \/ input = <<"imports">> /\ PickImports
  \/ input = <<"dna">> /\ PickDna
  \/ input = <<"compared">> /\ PickCompared
  \/ input = <<"unused">> /\ PickUnused
  \/ input = <<"hot">> /\ PickHot
  \/ input = <<"alike">> /\ PickAlike
  \/ input = <<"functions">> /\ PickFunctions

PartsInit == Init /\ input \in {<<part>> : part \in Parts \cup {"browser"}}
PartsNext ==
  \/ Pick /\ UNCHANGED vars
  \/ input = <<"browser">> /\ Next /\ UNCHANGED input

-----------------------------------------------------------------------------
(* architecture/graph.rs, modules.rs, analysis.rs and resolve.rs: components,*)
(* cycles, layers and betweenness are what they are by definition; each file *)
(* is in one module, the deepest around it; modules depend on each other as  *)
(* the imports of their files do, and those of Rust go where Rust looks.     *)
ArchitectureIsFound ==
  /\ Given("graph") => Graphs!GraphIsAnalyzed(input[2])
  /\ Given("modules") =>
       /\ Modules!DraftsAreDisjoint(input[2], input[3])
       /\ Modules!FilesAreInDeepestModule(input[2], input[3])
       /\ Modules!PackagesKeepFiles(input[2], input[3])
       /\ Modules!NamesTellApart(input[2], input[3])
  /\ Given("imports") => Imports!GraphIsOfImports(input[2], input[3], input[4])
  /\ Given("resolve") =>
       LET w == WorldOf[input[2]] IN
       Targets!ImportsAreFound(input[3], ToSet(w.files), w.packages, w.declared, w.from, input[2], w.imports)
  /\ Given("rust") => Rust!ModulesAreFoundByPath(input[2], input[3])

SectionOf(given) ==
  LET dna == Written(given[2], given[3], given[4], given[5], given[6], Each(given[4])) IN
  Told!SectionIsSound(dna, given[1], Told!Section(dna, given[1], [figures |-> TRUE]), [figures |-> TRUE])
PageOf(m, sections, n) ==
  LET dna == Written(m, "none", m, "git", "analyzed", Each(n)) IN
  /\ Told!PageIsSound(Told!Html(Told!Report(dna, sections, [figures |-> TRUE])), sections)
  /\ Told!ExportsAreWhole(dna, [figures |-> TRUE])
  /\ Told!BundleIsGuided(dna, [figures |-> FALSE])
MonthsOf(days) ==
  LET of(month) == {d \in DOMAIN days : d \div 4 = month} IN
  [month \in {d \div 4 : d \in DOMAIN days} |-> MapThenSumSet(LAMBDA d : days[d], of(month))]

ReportIsSound(about, given) ==
  CASE about = "section" -> SectionOf(given)
    [] about = "page"    -> PageOf(given[1], given[2], given[3])
    [] about = "choice"  -> Told!ChoiceIsASet(given[1])
    [] about = "counts"  -> Told!FindingsAreTold(Written(1, "none", 1, "git", "analyzed", given[1]))
    [] about = "shares"  -> Figured!RungsAreShares(given[1], given[2], given[3])
    [] about = "chart"   -> Figured!ChartsAreReadable(given[1], given[2])
    [] about = "bands"   -> Figured!BandsFit(given[1], given[2])
    [] about = "diagram" -> Figured!DiagramIsReadable(given[1], given[2])
    [] about = "days"    -> Figured!CommitsAreKept(MonthsOf(given[1]), given[1], given[2])
    [] about = "months"  -> Figured!CommitsAreKept(given[1], <<>>, 120)
    [] about = "badge"   -> Figured!BadgesAreTrue(given[1], given[2])
    [] about = "sarif"   -> Figured!SarifIsSound(given[1], given[2])
    [] about = "privacy" -> Figured!PrivacyIsKept(given[1])

(* report/ci.rs and dependencies/aggregate.rs: the policy and the changes    *)
(* are those of the sets of records, whatever order or repetitions the two   *)
(* artifacts have; and manifests and lockfiles become one record for each    *)
(* package, with all that they say of it. report/compare.rs and              *)
(* engine/fingerprint.rs: what was not analyzed is never taken for nothing,  *)
(* and what is said of a repository is within its scale and evidence.        *)
(* ai/ranking.rs: training and evaluation share no repository, are measured  *)
(* as they are defined, and do not depend on the order of records.           *)
(* report/sections.rs, content/*.rs, charts.rs, card.rs, sarif.rs, csv.rs,   *)
(* html.rs and privacy.rs: a section says of each list how much it left out  *)
(* and of an area that was not analyzed why, figures add up to what they     *)
(* draw, exports are sound, and a preset removes what it is meant to.        *)
RecordsAreMerged ==
  /\ Given("findings") =>
       /\ \A newOnly \in BOOLEAN, baselines \in {<<>>, <<input[3]>>} :
            Abreast!GateIgnoresOrder(input[2], baselines, input[4], newOnly)
       /\ Abreast!ChangesAreSymmetric(input[2], input[3])
  /\ Given("hashes") => Abreast!FileChangesIgnoreOrder(input[2], input[3])
  /\ Given("impact") => Abreast!ImpactIsSymmetric(input[2], input[3])
  /\ Given("manifests") => Declared!DependenciesAreMerged(input[2])
  /\ Given("compared") => Abreast!RepositoriesAreCompared(input[2])
  /\ Given("dna") => Dna!DnaIsDescribed(input[2])
  /\ Given("reported") => ReportIsSound(input[2], Tail(Tail(input)))
  /\ Given("ranked") => /\ Ranks!RankingIsMeasured(input[2], input[3])
                        /\ Ranks!TrainingIsOrderly(input[2])
  /\ Given("labels") => /\ Ranks!SplitsAreApart(input[2], input[3])
                        /\ \A s \in 1..3 : Ranks!TrainingIsOrderly(input[2][s])

FindingsAreSound(about, given) ==
  CASE about = "list"         -> Found!FindingsAreListed(given[1], given[2], given[3])
    [] about = "architecture" -> Found!StyleIsFounded(given[1]) /\ Found!NoneIsMistaken(Found!ArchitectureFindings(given[1]))
    [] about = "security"     -> Found!WorstAreKept(given[1], given[2], <<>>)
    [] about = "project"      -> Found!AdviceAgrees(given[1], given[2])
    [] about = "git"          -> Found!AreasAreApart(given[1])
    [] about = "measured"     -> Found!NoneIsMistaken(Found!QualityFindings(given[1]) \o Found!HotspotFindings(given[2], Len(given[2]))
                                                        \o Found!StructureFindings(given[3]))
    [] about = "aged"         -> Found!PausesAreLongest(given[2], Found!EvolutionFindings(given[1], given[2], given[3]))
    [] about = "declared"     -> Found!DependenciesAreAdvised(given[1], given[2], given[3])
    [] about = "plugin"       -> Found!ResponseIsAccounted(given[1])

(* quality/duplication.rs: what is copied is found, and what is found is     *)
(* copied; lines are counted once. deadcode.rs, hotspots.rs, similarity.rs   *)
(* and complexity.rs: what is used is not called unused, what leads in every *)
(* signal leads, and banding loses no pair of nearly equal files.            *)
(* core/finding.rs and the findings of the analyzers (architecture, quality, *)
(* security, project, engine, evolution): one is kept of each identity, a    *)
(* suppression hides what it names and nothing else, the worst are listed    *)
(* first, and a rule applies where it says it does. plugin/protocol.rs: what *)
(* a response holds is taken or accounted for.                               *)
DuplicatesAreFound ==
  /\ Given("streams") =>
       /\ Single!SharedRegionsAreFound(input[2])
       /\ Single!ClustersAreDuplicates(input[2])
  /\ Given("lines") => Single!LinesAreCountedOnce(input[2])
  /\ Given("noted") => FindingsAreSound(input[2], Tail(Tail(input)))
  /\ Given("unused") => Single!UnusedIsListed(input[2], input[3], 5)
  /\ Given("hot") => Single!HotspotsAreAhead(input[2])
  /\ Given("alike") => Single!NearlyEqualIsFound(input[2], input[3])
  /\ Given("functions") => Single!ComplexityAddsUp(input[2])

(* git/log.rs, git/history.rs and evolution/snapshots.rs: the log is read as  *)
(* it was written, each file has the history of its lineage, summaries add   *)
(* up, and the time machine has both ends and the repository at the sampled  *)
(* dates, whatever the timestamps are.                                       *)
HistoryIsTold ==
  /\ Given("log") => Log!HistoryIsReadAsWritten(input[2], input[3], input[4], input[5])
  /\ Given("lineage") =>
       /\ Past!RenamesAreFollowed(input[2], input[3], 1)
       /\ Tale!HistoryIsSummarized(input[2], input[4], input[3], Releases, 1)
  /\ Given("summary") => Past!SummariesAddUp(input[2])
  /\ Given("tags") => Past!ReleasesShareCommits(input[2], input[3])
  /\ Given("history") =>
       /\ Tale!SnapshotsSpanHistory(input[2], input[3], input[4])
       /\ Tale!EpochsSpanHistory(input[2])

(* discovery/archive.rs, engine/scan.rs and ai/provider/http.rs: an archive  *)
(* is extracted whole or refused within its limits; a pass over the files    *)
(* keeps its budget and yields the same whatever the cache has; retries are  *)
(* few, patient and end with a cancellation. ai/context, response.rs,        *)
(* provider and explain.rs: what is sent fits and is about what was asked,   *)
(* what is believed was cited, nothing leaves unasked, and what is shown     *)
(* again is of what would be sent now.                                       *)
LimitsAreKept ==
  /\ Given("archive") => Extractor!ArchivesAreWholeOrRefused(input[2], input[3], input[4])
  /\ Given("pass") => Pass!PassIsRepeatable(input[2], input[3], input[4], input[5])
  /\ Given("answers") => Talk!RetriesEndAndRespectCancel(input[2], input[3])
  /\ Given("evidence") => Talk!EvidenceIsChosen(input[2], input[3], input[4], input[5])
  /\ Given("answer") => Talk!AnswerIsChecked(input[2], input[3], input[4], input[5])
  /\ Given("provider") => Talk!NothingLeavesUnasked(input[2], input[3])
  /\ Given("session") => Talk!CacheIsOfTheSame(input[2])
=============================================================================
