----------------------------- MODULE ImportGraph -----------------------------
(***************************************************************************)
(* repodna_architecture::analysis::analyze: the graph of files and of      *)
(* modules that the resolved imports make.                                 *)
(*                                                                         *)
(* Files are numbered in the order of their paths. `module` has the module *)
(* of each first-party file, 0 for the others; `language` may be "none".   *)
(* `found` has, for each file, what its imports and then its references    *)
(* resolve to: [is |-> "internal" or "reference", targets, confidence,     *)
(* packageLevel, kind], [is |-> "external", name], or one that is          *)
(* "ignored" or "unresolved".                                              *)
(***************************************************************************)
EXTENDS Naturals, FiniteSets, Sequences, SequencesExt

CONSTANTS
  MaxFileEdges,  \* file edges the report keeps
  MaxExternal,   \* external packages the report keeps
  OrderMatters   \* languages whose file cycles are reported

Inner == {"internal", "reference"}
Stronger(a, b) == IF a < b THEN b ELSE a
Members(module) == {f \in DOMAIN module : module[f] # 0}

Empty ==
  [files |-> <<>>, modules |-> <<>>, external |-> <<>>, cross |-> <<>>,
   resolved |-> 0, unresolved |-> 0]

(* Both graphs have one edge for a pair. A file edge has the kind of the   *)
(* first import that makes it; a module edge counts them.                  *)
FileEdge(edges, pair, r) ==
  (pair :> IF pair \in DOMAIN edges THEN [edges[pair] EXCEPT !.confidence = Stronger(@, r.confidence)]
           ELSE [kind |-> r.kind, confidence |-> r.confidence]) @@ edges

ModuleEdge(edges, pair, r) ==
  LET edge == IF pair \in DOMAIN edges THEN edges[pair] ELSE [weight |-> 0, confidence |-> 0] IN
  (pair :> [weight |-> edge.weight + 1, confidence |-> Stronger(edge.confidence, r.confidence)]) @@ edges

AddEdge(graph, module, language, from, to, r) ==
  LET crosses == ~r.packageLevel /\ "none" \notin {language[from], language[to]}
                 /\ language[from] # language[to]
      both == module[from] # 0 /\ module[to] # 0
      apart == r.kind # "module" /\ module[from] # module[to]
  IN [graph EXCEPT
        !.cross   = IF crosses THEN Append(@, <<from, to>>) ELSE @,
        !.files   = IF both /\ ~r.packageLevel THEN FileEdge(@, <<from, to>>, r) ELSE @,
        !.modules = IF both /\ apart THEN ModuleEdge(@, <<module[from], module[to]>>, r) ELSE @]

AddExternal(external, name, from, of) ==
  LET old == IF name \in DOMAIN external THEN external[name] ELSE [importers |-> {}, modules |-> {}] IN
  (name :> [importers |-> old.importers \cup {from}, modules |-> old.modules \cup {of}]) @@ external

Build(module, language, found) ==
  LET AddOne(graph, from, r) ==
        CASE r.is \in Inner ->
               FoldLeft(LAMBDA g, to : AddEdge(g, module, language, from, to, r),
                        IF r.is = "internal" THEN [graph EXCEPT !.resolved = @ + 1] ELSE graph,
                        SelectSeq(r.targets, LAMBDA to : to # from))
          [] r.is = "external" ->
               [graph EXCEPT !.external = AddExternal(@, r.name, from, module[from])]
          [] r.is = "unresolved" -> [graph EXCEPT !.unresolved = @ + 1]
          [] r.is = "ignored" -> graph
      AddFile(graph, from) == FoldLeft(LAMBDA g, r : AddOne(g, from, r), graph, found[from])
  IN FoldLeft(AddFile, Empty, SetToSortSeq(Members(module), <))

-----------------------------------------------------------------------------
EdgeBefore(a, b) == a[1] < b[1] \/ (a[1] = b[1] /\ a[2] < b[2])
First(edges, n) == {e \in edges : Cardinality({d \in edges : EdgeBefore(d, e)}) < n}

(* What is reported of the graph.                                          *)
Reported(graph, module, language) ==
  LET files == DOMAIN graph.files
      modules == {module[f] : f \in Members(module)}
      externals == DOMAIN graph.external
      Importers(name) == Cardinality(graph.external[name].importers)
      MoreUsed(a, b) == Importers(a) > Importers(b) \/ (Importers(a) = Importers(b) /\ a < b)
      FanOut(m) == Cardinality({e \in DOMAIN graph.modules : e[1] = m})
      FanIn(m) == Cardinality({e \in DOMAIN graph.modules : e[2] = m})
  IN [fileEdges      |-> First(files, MaxFileEdges),
      truncated      |-> Cardinality(files) > MaxFileEdges,
      moduleEdges    |-> graph.modules,
      dependents     |-> [f \in DOMAIN module |->
                            Cardinality({e \in files : e[2] = f /\ graph.files[e].kind # "module"})],
      moduleDeclared |-> {f \in DOMAIN module :
                            \E e \in files : e[2] = f /\ graph.files[e].kind = "module"},
      cycleEdges     |-> {e \in files : /\ graph.files[e].kind # "module"
                                        /\ {language[e[1]], language[e[2]]} \subseteq OrderMatters},
      fanIn          |-> [m \in modules |-> FanIn(m)],
      fanOut         |-> [m \in modules |-> FanOut(m)],
      isolated       |-> IF Cardinality(modules) < 2 THEN {}
                         ELSE {m \in modules : FanIn(m) = 0 /\ FanOut(m) = 0},
      external       |-> {n \in externals :
                            Cardinality({o \in externals : MoreUsed(o, n)}) < MaxExternal},
      externalOf     |-> [m \in modules |-> {n \in externals : m \in graph.external[n].modules}],
      crossings      |-> graph.cross,
      attempted      |-> graph.resolved + graph.unresolved]

Analyze(module, language, found) ==
  Reported(Build(module, language, found), module, language)

-----------------------------------------------------------------------------
(* Pairs of a file and another that some import of it resolves to.         *)
Imports(module, found) ==
  LET Places(f) == {<<f, i>> : i \in {i \in DOMAIN found[f] : found[f][i].is \in Inner}}
      At(f, i) == {[from |-> f, nth |-> i, to |-> to, r |-> found[f][i]] : to \in ToSet(found[f][i].targets)}
  IN UNION {At(p[1], p[2]) : p \in UNION {Places(f) : f \in Members(module)}}

(* Modules depend on each other exactly as the imports of their files do,  *)
(* as strongly and as often, whatever else those files declare; a cycle of *)
(* files is one of imports; what the limits leave out comes last and is    *)
(* told; and each file has an importer if it counts one.                   *)
IsGraphOf(result, inside, module, found) ==
  LET uses == {i \in inside : i.r.kind # "module"}
      between == {i \in uses : module[i.from] # module[i.to]}
      exact == {i \in inside : ~i.r.packageLevel}
      edges == {<<i.from, i.to>> : i \in exact}
      Of(e) == {i \in between : <<module[i.from], module[i.to]>> = e}
      names == {found[f][i].name : <<f, i>> \in
                  UNION {{<<f, i>> : i \in {i \in DOMAIN found[f] : found[f][i].is = "external"}} :
                         f \in Members(module)}}
  IN /\ DOMAIN result.moduleEdges = {<<module[i.from], module[i.to]>> : i \in between}
     /\ \A e \in DOMAIN result.moduleEdges :
          /\ result.moduleEdges[e].weight = Cardinality(Of(e))
          /\ \A i \in Of(e) : i.r.confidence <= result.moduleEdges[e].confidence
          /\ \E i \in Of(e) : i.r.confidence = result.moduleEdges[e].confidence
     /\ result.fileEdges \subseteq edges /\ (result.truncated <=> result.fileEdges # edges)
     /\ \A e \in edges \ result.fileEdges, k \in result.fileEdges : EdgeBefore(k, e)
     /\ result.cycleEdges \subseteq {<<i.from, i.to>> : i \in exact \cap uses}
     /\ \A f \in DOMAIN module :
          /\ result.dependents[f] <= Cardinality({i.from : i \in {i \in exact \cap uses : i.to = f}})
          /\ f \in result.moduleDeclared => \E i \in exact : i.to = f /\ i.r.kind = "module"
     /\ \A m \in result.isolated : \A i \in between : m \notin {module[i.from], module[i.to]}
     /\ result.external \subseteq names
     /\ Cardinality(result.external) = (IF Cardinality(names) < MaxExternal THEN Cardinality(names) ELSE MaxExternal)
     /\ \A m \in DOMAIN result.externalOf : result.externalOf[m] \subseteq names

GraphIsOfImports(module, language, found) ==
  IsGraphOf(Analyze(module, language, found),
       {i \in Imports(module, found) : i.to # i.from /\ module[i.to] # 0}, module, found)

(* analysis.rs:94-97: "Number of distinct first-party files that import    *)
(* each input file" and "`true` for files included by a module declaration *)
(* such as Rust's `mod name;`".                                            *)
UsageIsCounted(module, language, found) ==
  LET result == Analyze(module, language, found)
      exact == {i \in Imports(module, found) : i.to # i.from /\ ~i.r.packageLevel}
  IN \A f \in Members(module) :
       /\ result.dependents[f] = Cardinality({i.from : i \in {i \in exact : i.to = f /\ i.r.kind # "module"}})
       /\ f \in result.moduleDeclared <=> \E i \in exact : i.to = f /\ i.r.kind = "module"
=============================================================================
