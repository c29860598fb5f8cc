----------------------------- MODULE MCImports ------------------------------
(* A Rust crate of a root and two modules, each of a few lines: what its    *)
(* imports resolve to and how the usage of its files is counted.            *)
EXTENDS Naturals, Sequences, SequencesExt

Paths == << <<"src", "a">>, <<"src", "b">>, <<"src", "lib">> >>

Rust  == INSTANCE RustImports WITH Types <- {"T"}, Library <- {"std"}
Graph == INSTANCE ImportGraph WITH MaxFileEdges <- 9, MaxExternal <- 9, OrderMatters <- {}

VARIABLE lines

Line(kind, path) == [kind |-> kind, path |-> path]
LibLines ==
  {Line("module", <<"a">>), Line("module", <<"b">>), Line("import", <<"a", "T">>),
   Line("import", <<"crate", "T">>), Line("import", <<"std", "T">>)}
Lines == {Line("import", <<"super", "b", "T">>), Line("import", <<"crate", "T">>)}

Between(m, n, S) == UNION {[1..k -> S] : k \in m..n}

Init == lines = << <<>>, <<>>, <<>> >>
Write ==
  /\ lines = << <<>>, <<>>, <<>> >>
  /\ lines' \in Between(0, 1, Lines) \X {<<>>} \X Between(1, 3, LibLines)

Number(path) == CHOOSE i \in DOMAIN Paths : Paths[i] = path
Found(from, line) ==
  LET found == Rust!RustPath(ToSet(Paths), <<>>, [p \in ToSet(Paths) |-> lines[Number(p)]], Paths[from], line)
  IN IF found.is = "internal"
     THEN [is |-> "internal", targets |-> <<Number(found.file)>>, packageLevel |-> FALSE,
           confidence |-> IF found.confidence = "high" THEN 3 ELSE 2, kind |-> line.kind]
     ELSE found

(* Each file has the importers and the declaration that its lines give it   *)
(* (architecture/analysis.rs, as ArchitectureOutput describes them).        *)
UsageIsDescribed ==
  Graph!UsageIsCounted([f \in 1..3 |-> 1], [f \in 1..3 |-> "rust"],
                       [f \in 1..3 |-> [i \in DOMAIN lines[f] |-> Found(f, lines[f][i])]])
=============================================================================
