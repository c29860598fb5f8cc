------------------------------ MODULE Reports ------------------------------
(***************************************************************************)
(* The report on an analysis: its sections as blocks, which the renderers  *)
(* of Markdown and HTML share, and what stands beside them: the headline   *)
(* facts, charts, exports, what a privacy preset removes.                  *)
(*                                                                         *)
(* Of an analysis only this is kept: the status of each area, how many     *)
(* notes it has, how long each list is (a fact that may be missing is a    *)
(* list of at most one), how many findings there are, and which lists have *)
(* values no chart can draw. A block says of which list it is, how many of *)
(* its items it shows and how many it counts as omitted.                   *)
(***************************************************************************)
EXTENDS Integers, FiniteSets, Sequences, SequencesExt, FiniteSetsExt, TLC

ALL == <<"cover", "summary", "identity", "languages", "structure", "architecture", "dependencies", "hotspots",
         "complexity", "duplication", "tests", "build", "documentation", "security", "history",
         "contributors", "time-machine", "evolution", "findings", "onboarding", "evidence", "metrics",
         "metadata">>

HasResults(status) == status \in {"analyzed", "partial"}
Fewer(m, n) == IF m < n THEN m ELSE n
When(holds, blocks) == IF holds THEN blocks ELSE <<>>

Block(kind, about, shown, omitted, level) ==
  <<[kind |-> kind, about |-> about, shown |-> shown, omitted |-> omitted, level |-> level]>>
Heading(level, about) == Block("heading", about, 0, 0, level)
Text(about) == Block("text", about, 1, 0, 0)
Note(about) == Block("note", about, 1, 0, 0)
Caution(about) == Block("caution", about, 0, 0, 0)
Stats(about) == Block("stats", about, 1, 0, 0)
Preformatted(about) == Block("pre", about, 1, 0, 0)
Figure(about, shown) == Block("figure", about, shown, 0, 0)

(* The forms a list takes; none of them shows an empty one.                *)
Table(dna, list, limit) ==
  LET n == dna.size[list] IN
  When(n > 0, Block("table", list, Fewer(n, limit), n - Fewer(n, limit), 0))
Full(dna, list) == Table(dna, list, dna.size[list])
Items(dna, list) == When(dna.size[list] > 0, Block("list", list, dna.size[list], 0, 0))
Sentence(dna, list) == When(dna.size[list] > 0, Block("text", list, dna.size[list], 0, 0))
Remark(dna, list) == When(dna.size[list] > 0, Block("note", list, dna.size[list], 0, 0))
Under(list, blocks) == When(blocks # <<>>, Heading(3, list) \o blocks)
OrSay(list, blocks) == IF blocks = <<>> THEN Text("no " \o list) ELSE blocks
Drawn(dna, options, list, limit) ==
  When(options.figures /\ dna.size[list] > 0 /\ list \notin dna.flat, Figure(list, Fewer(dna.size[list], limit)))

Notes(dna, area) == When(dna.notes[area] > 0, Block("list", "notes", dna.notes[area], 0, 0))
Analysed(dna, section, area, content) ==
  Heading(2, section) \o
  (IF HasResults(dna.status[area])
     THEN When(dna.status[area] = "partial", Note("partial")) \o content
     ELSE Caution(area))

-----------------------------------------------------------------------------
(* The sections.                                                           *)
Active(dna) == dna.findings.critical + dna.findings.warning + dna.findings.attention + dna.findings.info
Major(dna) == dna.findings.critical + dna.findings.warning + dna.findings.attention

Cover(dna, options) ==
  Heading(1, "cover") \o Sentence(dna, "description") \o Text("generated") \o
  When(options.figures, Figure("card", 1)) \o Stats("facts") \o Sentence(dna, "dna_hash")

Summary(dna) ==
  LET first == Fewer(5, Active(dna)) IN
  Heading(2, "summary") \o Text("overview") \o Stats("finding_counts") \o Under("first_look", Items(dna, "first_look")) \o
  Under("look_at_first", When(Fewer(first, Major(dna)) > 0, Block("list", "urgent", Fewer(first, Major(dna)), 0, 0))) \o
  Note("severity")

(* Name, license, languages, Git, size, and what else is known.            *)
Identity(dna) ==
  Heading(2, "identity") \o
  Block("table", "properties",
        5 + dna.size["owner"] + dna.size["remotes"] + dna.size["branch"] + dna.size["revision"] +
        dna.size["description"], 0, 0)

NAMED_LANGUAGES == 7
Languages(dna, options) ==
  Analysed(dna, "languages", "languages",
    Drawn(dna, options, "languages", NAMED_LANGUAGES) \o Full(dna, "languages") \o Note("shares") \o
    Sentence(dna, "unrecognized_files") \o Under("interactions", Full(dna, "interactions")) \o Notes(dna, "languages"))

Structure(dna, options) ==
  Analysed(dna, "structure", "structure",
    Stats("sizes") \o Heading(3, "categories") \o Full(dna, "categories") \o
    Under("top_directories", Drawn(dna, options, "top_directories", 24) \o Table(dna, "top_directories", 30)) \o
    Heading(3, "entrypoints") \o OrSay("entrypoints", Full(dna, "entrypoints")) \o
    Sentence(dna, "special_files") \o Notes(dna, "structure"))

MAX_GRAPH_MODULES == 40
Architecture(dna, options) ==
  Analysed(dna, "architecture", "architecture",
    Text("style") \o Items(dna, "signals") \o
    When(options.figures /\ dna.size["modules"] > 1, Figure("modules", Fewer(dna.size["modules"], MAX_GRAPH_MODULES))) \o
    Heading(3, "modules") \o Table(dna, "modules", 30) \o Under("cycles", Items(dna, "cycles")) \o
    Under("module_edges", Table(dna, "module_edges", 20)) \o Under("external", Table(dna, "external", 20)) \o
    Sentence(dna, "isolated_modules") \o Sentence(dna, "workspace") \o Sentence(dna, "imports") \o
    Remark(dna, "architecture_method") \o Notes(dna, "architecture"))

Dependencies(dna) ==
  Analysed(dna, "dependencies", "dependencies",
    Stats("dependencies") \o Full(dna, "ecosystems") \o Heading(3, "manifests") \o Table(dna, "manifests", 40) \o
    Under("declared", Table(dna, "declared", 80)) \o Sentence(dna, "missing_from_lock") \o
    Under("duplicates", Table(dna, "duplicates", 30)) \o Under("concentration", Full(dna, "concentration")) \o
    Items(dna, "stale_signals") \o Remark(dna, "advisories") \o Notes(dna, "dependencies"))

Hotspots(dna, options) ==
  Heading(2, "hotspots") \o
  (IF ~HasResults(dna.status["git"]) THEN Caution("git")
   ELSE IF dna.size["hot_spots"] = 0 THEN Text("no hot_spots")
   ELSE Drawn(dna, options, "hot_spots", 15) \o Table(dna, "hot_spots", 30) \o Note("ranking"))

Complexity(dna, options) ==
  Analysed(dna, "complexity", "code_quality",
    Stats("complexity") \o Drawn(dna, options, "distribution", dna.size["distribution"]) \o Full(dna, "distribution") \o
    Full(dna, "by_language") \o Under("top_functions", Table(dna, "top_functions", 15)) \o
    Under("large_functions", Table(dna, "large_functions", 15)) \o
    Under("deep_nesting", Table(dna, "deep_nesting", 15)) \o Under("large_files", Table(dna, "large_files", 20)) \o
    When(dna.size["markers"] > 0, Heading(3, "markers") \o Text("marker_counts") \o Table(dna, "markers", 20)) \o
    When(dna.size["dead_code"] > 0, Heading(3, "dead_code") \o Table(dna, "dead_code", 25) \o Note("candidates")) \o
    Under("maintainability", Full(dna, "maintainability")) \o Remark(dna, "complexity_method") \o
    Notes(dna, "code_quality"))

Duplication(dna) ==
  Heading(2, "duplication") \o
  (IF ~HasResults(dna.status["duplication"]) /\ ~HasResults(dna.status["similarity"]) THEN Caution("duplication")
   ELSE When(HasResults(dna.status["duplication"]),
          Stats("duplication") \o Table(dna, "clusters", 20) \o Remark(dna, "duplication_method")) \o
        When(HasResults(dna.status["similarity"]),
          Heading(3, "similar_files") \o OrSay("similar_files", Table(dna, "similar_files", 25)) \o
          Remark(dna, "similarity_method")))

(* The runs of commands share one heading in two sections.                 *)
Executions(dna, runs) ==
  When(dna.size[runs] > 0,
    Heading(3, "command_runs") \o Full(dna, runs) \o When(dna.outputs, Text("last_lines") \o Preformatted("output")))

Tests(dna) ==
  Analysed(dna, "tests", "tests",
    Stats("tests") \o When(dna.size["test_files"] = 0 /\ dna.size["inline_test_files"] = 0, Text("no tests")) \o
    Items(dna, "frameworks") \o Full(dna, "test_kinds") \o Sentence(dna, "test_directories") \o
    Under("test_commands", Table(dna, "test_commands", 30)) \o
    (IF dna.size["ci_commands"] = 0 THEN When(dna.size["test_files"] > 0, Text("no ci_commands"))
     ELSE Under("ci_commands", Table(dna, "ci_commands", 30))) \o
    Sentence(dna, "coverage_artifacts") \o Executions(dna, "test_runs") \o Notes(dna, "tests"))

Build(dna) ==
  Analysed(dna, "build", "builds",
    OrSay("systems", Sentence(dna, "systems")) \o
    When(dna.size["commands"] > 0, Heading(3, "commands") \o Table(dna, "commands", 30) \o Note("not_run")) \o
    Under("requirements", Full(dna, "requirements")) \o OrSay("ci", Under("ci", Full(dna, "ci"))) \o
    Sentence(dna, "containers") \o Under("configuration_files", Table(dna, "configuration_files", 30)) \o
    Executions(dna, "build_runs") \o Notes(dna, "builds"))

Documentation(dna) ==
  Analysed(dna, "documentation", "docs",
    OrSay("readme", Sentence(dna, "readme")) \o Sentence(dna, "license") \o Full(dna, "doc_checks") \o Text("doc_files") \o
    Sentence(dna, "doc_directories") \o Sentence(dna, "examples") \o Notes(dna, "docs"))

Security(dna) ==
  Analysed(dna, "security", "security",
    Remark(dna, "disclaimer") \o Stats("security") \o
    When(dna.size["secrets"] > 0, Heading(3, "secrets") \o Text("never_stored") \o Table(dna, "secrets", 50)) \o
    Under("patterns", Table(dna, "patterns", 50)) \o Under("permissions", Full(dna, "permissions")) \o
    When(\A list \in {"secrets", "patterns", "permissions"} : dna.size[list] = 0, Text("no candidates")) \o
    Text("rules") \o Remark(dna, "security_advisories") \o Notes(dna, "security"))

(* A chart of one or two points is not drawn; of the commits, no number of *)
(* omitted ones is given.                                                  *)
History(dna, options) ==
  Analysed(dna, "history", "git",
    Stats("history") \o Text("activity") \o
    When(dna.size["points"] >= 3, Drawn(dna, options, "points", dna.size["points"])) \o
    When(options.figures /\ "weekday_hour" \notin dna.flat, Figure("weekday_hour", 1)) \o Full(dna, "years") \o
    Under("releases", Table(dna, "releases", 20)) \o Under("quiet_periods", Table(dna, "quiet_periods", 10)) \o
    Under("directory_activity", Table(dna, "directory_activity", 20)) \o
    Under("commits", When(dna.size["commits"] > 0, Block("table", "commits", Fewer(dna.size["commits"], 20), 0, 0))) \o
    Notes(dna, "git"))

Contributors(dna, options) ==
  Analysed(dna, "contributors", "git",
    Stats("ownership") \o Sentence(dna, "ownership_note") \o
    When(dna.size["contributors"] > 1, Drawn(dna, options, "contributors", 10)) \o
    Table(dna, "contributors", 25) \o Note("not_value"))

(* Of the directories that changed recently the eight first are shown, of  *)
(* the files fifteen, with the number of the others.                       *)
SomeFiles(dna, files) ==
  When(dna.size[files] > 0, Block("text", files, Fewer(dna.size[files], 15), dna.size[files] - Fewer(dna.size[files], 15), 0))
TimeMachine(dna, options) ==
  Analysed(dna, "time-machine", "evolution",
    Remark(dna, "sampling") \o When(dna.size["growth"] >= 2, Drawn(dna, options, "growth", dna.size["growth"])) \o
    Full(dna, "snapshots") \o Under("module_ages", Full(dna, "module_ages")) \o
    Under("abandoned_areas", Full(dna, "abandoned_areas")) \o
    When(dna.size["recent_changes"] > 0,
      Heading(3, "recent_changes") \o Text("recent_changes") \o
      When(dna.size["recent_directories"] > 0,
        Block("list", "recent_directories", Fewer(dna.size["recent_directories"], 8), 0, 0)) \o
      SomeFiles(dna, "added_files") \o SomeFiles(dna, "removed_files") \o Full(dna, "dependency_changes")))

Archaeology == <<"origin", "growth_phase", "expansions", "rewrites", "inactivity", "final_phase", "current_state">>
EvolutionSection(dna, options) ==
  LET Part(list) == When(dna.size[list] > 0, Heading(4, list) \o Items(dna, list)) IN
  Analysed(dna, "evolution", "evolution",
    When(dna.size["epochs"] > 0, Drawn(dna, options, "epochs", dna.size["epochs"])) \o
    Under("epochs", Full(dna, "epochs")) \o Under("events", Table(dna, "events", 60)) \o
    Under("story", Items(dna, "story")) \o
    FlattenSeq([i \in DOMAIN Archaeology |-> Part(Archaeology[i])]) \o
    Under("architecture_samples", Full(dna, "architecture_samples")))

(* In full, as the artifact has them: the most severe first.               *)
MAX_FULL_FINDINGS == 60
InFull(dna, severity) ==
  LET before == CASE severity = "critical" -> 0
                  [] severity = "warning" -> dna.findings.critical
                  [] OTHER -> dna.findings.critical + dna.findings.warning
      shown == Fewer(dna.findings[severity], MAX_FULL_FINDINGS - Fewer(before, MAX_FULL_FINDINGS))
  IN When(shown > 0, Block("finding", severity, shown, 0, 0))
FindingsSection(dna) ==
  LET more == Major(dna) - MAX_FULL_FINDINGS
      info == Fewer(dna.findings.info, 80)
  IN Heading(2, "findings") \o Stats("finding_counts") \o When(Active(dna) = 0, Text("no findings")) \o
     InFull(dna, "critical") \o InFull(dna, "warning") \o InFull(dna, "attention") \o
     When(more > 0, Block("text", "major", 0, more, 0)) \o
     Under("info", When(dna.findings.info > 0, Block("table", "info", info, dna.findings.info - info, 0))) \o
     Under("suppressed", When(dna.findings.suppressed > 0, Block("table", "suppressed", dna.findings.suppressed, 0, 0))) \o
     Heading(3, "severities") \o Block("list", "severities", 4, 0, 0)

Onboarding(dna) ==
  LET Step(step) == Heading(3, "step") \o When(step.described, Text("step")) \o
                    When(step.items > 0, Block("list", "step", step.items, 0, 0)) IN
  Heading(2, "onboarding") \o
  (IF dna.steps = <<>> /\ dna.size["important_files"] = 0 THEN Caution("insights")
   ELSE FlattenSeq([i \in DOMAIN dna.steps |-> Step(dna.steps[i])]) \o
        Under("important_files", Full(dna, "important_files")) \o Under("glossary", Full(dna, "glossary")))

Evidence(dna) ==
  LET n == Active(dna) + dna.findings.suppressed IN
  Heading(2, "evidence") \o
  (IF n = 0 THEN Text("no findings")
   ELSE Text("all_findings") \o Block("table", "evidence", Fewer(n, 300), n - Fewer(n, 300), 0))

Metrics(dna) ==
  Heading(2, "metrics") \o
  When(dna.size["dimensions"] > 0,
    Heading(3, "dimensions") \o Remark(dna, "fingerprint_method") \o Full(dna, "dimensions")) \o
  Under("confidence", Full(dna, "confidence")) \o Under("normalized_signals", Full(dna, "normalized_signals")) \o
  Under("raw", Full(dna, "raw"))

Metadata(dna) ==
  Heading(2, "metadata") \o Block("table", "analysis", 9, 0, 0) \o
  Heading(3, "stages") \o Full(dna, "stages") \o Under("data_sources", Full(dna, "data_sources")) \o
  Heading(3, "privacy") \o Block("list", "privacy", 4 + dna.size["redactions"], 0, 0) \o
  Heading(3, "thresholds") \o Block("table", "thresholds", 1, 0, 0) \o
  Under("suppressions", Full(dna, "suppressions")) \o Under("warnings", Items(dna, "warnings")) \o
  Heading(3, "signature") \o Preformatted("signature")

Section(dna, section, options) ==
  CASE section = "cover" -> Cover(dna, options)
    [] section = "summary" -> Summary(dna)
    [] section = "identity" -> Identity(dna)
    [] section = "languages" -> Languages(dna, options)
    [] section = "structure" -> Structure(dna, options)
    [] section = "architecture" -> Architecture(dna, options)
    [] section = "dependencies" -> Dependencies(dna)
    [] section = "hotspots" -> Hotspots(dna, options)
    [] section = "complexity" -> Complexity(dna, options)
    [] section = "duplication" -> Duplication(dna)
    [] section = "tests" -> Tests(dna)
    [] section = "build" -> Build(dna)
    [] section = "documentation" -> Documentation(dna)
    [] section = "security" -> Security(dna)
    [] section = "history" -> History(dna, options)
    [] section = "contributors" -> Contributors(dna, options)
    [] section = "time-machine" -> TimeMachine(dna, options)
    [] section = "evolution" -> EvolutionSection(dna, options)
    [] section = "findings" -> FindingsSection(dna)
    [] section = "onboarding" -> Onboarding(dna)
    [] section = "evidence" -> Evidence(dna)
    [] section = "metrics" -> Metrics(dna)
    [] OTHER -> Metadata(dna)

-----------------------------------------------------------------------------
(* Which sections, and in which order: that of ALL. No identifiers mean    *)
(* every section; the set is <<>> when one is unknown.                     *)
Parse(ids) ==
  IF ids = <<>> THEN <<Range(ALL)>>
  ELSE IF ToSet(ids) \subseteq Range(ALL) THEN <<ToSet(ids)>> ELSE <<>>
Selected(sections) == SelectSeq(ALL, LAMBDA section : section \in sections)
Report(dna, sections, options) ==
  LET chosen == Selected(sections) IN FlattenSeq([i \in DOMAIN chosen |-> Section(dna, chosen[i], options)])

(* The files that a newcomer reads in order, after an index of them.       *)
Parts == <<<<"summary", "identity">>, <<"build">>, <<"structure", "architecture">>, <<"onboarding">>, <<"tests">>,
           <<"dependencies">>, <<"time-machine">>>>
Bundle(dna, options) ==
  <<[file |-> 0, blocks |-> <<>>, index |-> [i \in DOMAIN Parts |-> i]]>> \o
  [i \in DOMAIN Parts |->
     [file |-> i, blocks |-> FlattenSeq([j \in DOMAIN Parts[i] |-> Section(dna, Parts[i][j], options)]), index |-> <<>>]]

(* Markdown has no figures, and shows headline numbers as a table.         *)
Markdown(blocks) ==
  LET kept == SelectSeq(blocks, LAMBDA b : b.kind # "figure") IN
  [i \in DOMAIN kept |-> IF kept[i].kind = "stats" THEN [kept[i] EXCEPT !.kind = "table"] ELSE kept[i]]

(* HTML: a heading of level one or two closes the section before it, opens *)
(* one and is listed. Findings take the level below the latest heading,    *)
(* tables are named after it, and the filter stands before the first       *)
(* finding.                                                                *)
Page == [open |-> <<>>, marks |-> <<>>, toc |-> <<>>, filtered |-> FALSE, level |-> 1, heading |-> "", tables |-> 0]
Mark(kind, name, level) == <<[kind |-> kind, name |-> name, level |-> level]>>
Rendered(page, block) ==
  CASE block.kind = "heading" /\ block.level <= 2 ->
         [page EXCEPT !.marks = @ \o When(page.open # <<>>, Mark("close", page.open, 0))
                                  \o Mark("open", <<block.about>>, block.level),
                      !.open = <<block.about>>, !.toc = Append(@, block.about),
                      !.level = block.level, !.heading = block.about, !.tables = 0]
    [] block.kind = "heading" /\ block.level > 2 ->
         [page EXCEPT !.marks = @ \o Mark("heading", <<block.about>>, block.level),
                      !.level = block.level, !.heading = block.about, !.tables = 0]
    [] block.kind = "table" ->
         [page EXCEPT !.marks = @ \o Mark("table", <<page.heading, page.tables + 1>>, 0), !.tables = @ + 1]
    [] block.kind = "finding" ->
         [page EXCEPT !.marks = @ \o When(~page.filtered, Mark("filter", <<>>, 0))
                                  \o Mark("finding", <<block.about>>, Fewer(page.level + 1, 6)),
                      !.filtered = TRUE]
    [] OTHER -> [page EXCEPT !.marks = @ \o Mark(block.kind, <<block.about>>, 0)]
Html(blocks) ==
  LET page == FoldLeft(Rendered, Page, blocks) IN
  [marks |-> page.marks \o When(page.open # <<>>, Mark("close", page.open, 0)),
   toc |-> SelectSeq(page.toc, LAMBDA anchor : anchor # "cover")]

(* The rows of an export: those of the whole list.                         *)
CsvRows(dna, table) ==
  IF table = "findings" THEN Active(dna) + dna.findings.suppressed ELSE dna.size[table]

-----------------------------------------------------------------------------
(* The lists of each section, the areas it rests on, and what the report   *)
(* may show in a figure alone.                                             *)
Content ==
  [cover |-> {"description", "dna_hash"}, summary |-> {"first_look"}, identity |-> {},
   languages |-> {"languages", "interactions", "unrecognized_files"},
   structure |-> {"categories", "top_directories", "entrypoints", "special_files"},
   architecture |-> {"signals", "modules", "cycles", "module_edges", "external", "isolated_modules", "workspace",
                     "imports", "architecture_method"},
   dependencies |-> {"ecosystems", "manifests", "declared", "missing_from_lock", "duplicates", "concentration",
                     "stale_signals", "advisories"},
   hotspots |-> {"hot_spots"},
   complexity |-> {"distribution", "by_language", "top_functions", "large_functions", "deep_nesting", "large_files",
                   "markers", "dead_code", "maintainability", "complexity_method"},
   duplication |-> {},
   tests |-> {"frameworks", "test_kinds", "test_directories", "test_commands", "ci_commands", "coverage_artifacts",
              "test_runs"},
   build |-> {"systems", "commands", "requirements", "ci", "containers", "configuration_files", "build_runs"},
   documentation |-> {"readme", "license", "doc_checks", "doc_directories", "examples"},
   security |-> {"disclaimer", "secrets", "patterns", "permissions", "security_advisories"},
   history |-> {"years", "releases", "quiet_periods", "directory_activity"},
   contributors |-> {"ownership_note", "contributors"},
   findings |-> {}, onboarding |-> {"important_files"}, evidence |-> {},
   evolution |-> {"epochs", "events", "story", "architecture_samples"} \cup ToSet(Archaeology),
   metrics |-> {"dimensions", "confidence", "normalized_signals", "raw"},
   metadata |-> {"stages", "data_sources", "suppressions", "warnings"}] @@
  ("time-machine" :> {"sampling", "snapshots", "module_ages", "abandoned_areas"})
Needs ==
  [languages |-> {"languages"}, structure |-> {"structure"}, architecture |-> {"architecture"},
   dependencies |-> {"dependencies"}, hotspots |-> {"git"}, complexity |-> {"code_quality"},
   duplication |-> {"duplication", "similarity"}, tests |-> {"tests"}, build |-> {"builds"},
   documentation |-> {"docs"}, security |-> {"security"}, history |-> {"git"}, contributors |-> {"git"},
   evolution |-> {"evolution"}] @@ ("time-machine" :> {"evolution"})
OnlyDrawn == {"card", "modules", "points", "weekday_hour", "growth"}
MayBeEmpty == {"categories", "modules", "manifests", "stages", "step"}

Told(blocks, list) ==
  SelectSeq(blocks, LAMBDA b : b.about = list /\ b.kind \in {"table", "list", "text", "note", "finding"})
Amounts(blocks) == FoldLeft(LAMBDA n, b : n + b.shown + b.omitted, 0, blocks)

HasSource(dna, section) ==
  section \notin DOMAIN Needs \/ \E area \in Needs[section] : HasResults(dna.status[area])

(* Every item of a list is in the report or counted in what it says is not *)
(* shown, once; an empty list has no block.                                *)
AllIsTold(dna, section, blocks) ==
  HasSource(dna, section) => \A list \in Content[section] :
    LET told == Told(blocks, list) IN
    IF dna.size[list] = 0 THEN told = <<>>
    ELSE Len(told) = 1 /\ told[1].shown > 0 /\ Amounts(told) = dna.size[list]

(* Without results a section says so, and nothing else: no number that was *)
(* never measured. With results it never says so, and that they are        *)
(* partial when they are.                                                  *)
NothingIsInvented(dna, section, blocks) ==
  /\ ~HasSource(dna, section) => Len(blocks) = 2 /\ blocks[1].kind = "heading" /\ blocks[2].kind = "caution"
  /\ (\E i \in DOMAIN blocks : blocks[i].kind = "caution") =>
       ~HasSource(dna, section) \/ section = "onboarding"
  /\ section \in DOMAIN Needs \ {"hotspots", "duplication"} =>
       ((\E i \in DOMAIN blocks : blocks[i].about = "partial") <=>
          \E area \in Needs[section] : dna.status[area] = "partial")

(* A subsection has content; levels go down one at a time, except where    *)
(* the parts of the archaeology follow no story.                           *)
WellHeaded(blocks) ==
  /\ blocks[1].kind = "heading" /\ blocks[1].level <= 2
  /\ \A i \in 2..Len(blocks) : blocks[i].kind = "heading" =>
       /\ blocks[i].level > 2
       /\ \/ i < Len(blocks) /\ (blocks[i + 1].kind # "heading" \/ blocks[i + 1].level > blocks[i].level)
          \/ blocks[i].about \in MayBeEmpty
       /\ blocks[i].level = 4 => blocks[i].about \in ToSet(Archaeology)

(* What a figure shows of a list, the table below it shows too.            *)
FiguresAreTabled(blocks) ==
  \A i \in DOMAIN blocks : blocks[i].kind = "figure" /\ blocks[i].about \notin OnlyDrawn =>
    \E j \in i + 1 .. Len(blocks) : blocks[j].kind = "table" /\ blocks[j].about = blocks[i].about
                                    /\ blocks[j].shown >= blocks[i].shown

(* The formats have the same facts.                                        *)
SameFacts(dna, section, blocks, options) ==
  Markdown(blocks) = Markdown(Section(dna, section, [options EXCEPT !.figures = FALSE]))

SectionIsSound(dna, section, blocks, options) ==
  /\ AllIsTold(dna, section, blocks)
  /\ NothingIsInvented(dna, section, blocks)
  /\ WellHeaded(blocks)
  /\ FiguresAreTabled(blocks)
  /\ SameFacts(dna, section, blocks, options)

(* All findings are told, each in one place, the severe ones in full       *)
(* before others are.                                                      *)
FindingsAreTold(dna) ==
  LET blocks == FindingsSection(dna)
      Shown(severity) == Amounts(Told(blocks, severity))
  IN
  /\ Shown("critical") + Shown("warning") + Shown("attention") + Shown("major") = Major(dna)
  /\ Shown("warning") > 0 => Shown("critical") = dna.findings.critical
  /\ Shown("attention") > 0 => Shown("warning") = dna.findings.warning
  /\ Amounts(Told(blocks, "info")) = dna.findings.info
  /\ Amounts(Told(blocks, "suppressed")) = dna.findings.suppressed
  /\ Amounts(Told(Evidence(dna), "evidence")) = Active(dna) + dna.findings.suppressed
  /\ Amounts(Told(Summary(dna), "urgent")) <= Major(dna)
  /\ Told(Summary(dna), "urgent") # <<>> <=> Major(dna) > 0

(* Pages: sections follow each other, and have one anchor each; a finding  *)
(* is one level below its heading; no two tables of a section have one     *)
(* name.                                                                   *)
MarksOf(page, kind) == {i \in DOMAIN page.marks : page.marks[i].kind = kind}
PageIsSound(page, sections) ==
  LET opened == SelectSeq(page.marks, LAMBDA m : m.kind = "open") IN
  /\ [i \in DOMAIN opened |-> opened[i].name[1]] = Selected(sections)
  /\ page.toc = Selected(sections \ {"cover"})
  /\ page.marks # <<>> =>
       page.marks[1].kind = "open" /\ page.marks[Len(page.marks)].kind = "close"
  /\ \A i \in MarksOf(page, "open") : i > 1 => page.marks[i - 1].kind = "close"
  /\ \A i \in MarksOf(page, "close") :
       i = Len(page.marks) \/ page.marks[i + 1].kind = "open"
  /\ \A i \in MarksOf(page, "finding") :
       /\ \E j \in MarksOf(page, "filter") : j < i
       /\ LET above == Max({j \in DOMAIN page.marks : j < i /\ page.marks[j].kind \in {"open", "heading"}}) IN
          page.marks[i].level = page.marks[above].level + 1
  /\ Cardinality(MarksOf(page, "filter")) <= 1
  /\ \A i, j \in MarksOf(page, "table") : i < j /\ page.marks[i].name = page.marks[j].name =>
       /\ page.marks[i].name[1] = "command_runs"
       /\ \E k \in i..j : page.marks[k].kind = "open"

(* What a section leaves out is in the export of its list.                 *)
ExportsAreWhole(dna, options) ==
  /\ \A pair \in {<<"hotspots", "hot_spots">>, <<"contributors", "contributors">>, <<"languages", "languages">>,
                  <<"metrics", "raw">>} :
       LET told == Told(Section(dna, pair[1], options), pair[2]) IN
       told # <<>> => CsvRows(dna, pair[2]) = Amounts(told)
  /\ CsvRows(dna, "findings") = Amounts(Told(Evidence(dna), "evidence"))

(* The choice of sections is a set: no order, no repetition, all when none *)
(* is named.                                                               *)
ChoiceIsASet(ids) ==
  /\ Parse(ids) = <<>> <=> \E i \in DOMAIN ids : ids[i] \notin Range(ALL)
  /\ Parse(ids) # <<>> => /\ Parse(Reverse(ids)) = Parse(ids)
                          /\ Range(Selected(Parse(ids)[1])) = IF ids = <<>> THEN Range(ALL) ELSE Range(ids)
                          /\ Parse(ids \o ids) = Parse(ids)

(* The index of the onboarding files names each of them, and a glossary is *)
(* the end of the one it says.                                             *)
BundleIsGuided(dna, options) ==
  LET files == Bundle(dna, options) IN
  /\ \A i \in 2..Len(files) : files[i].file = files[1].index[i - 1] /\ files[i].blocks # <<>>
  /\ \A i, j \in 2..Len(files) : i # j =>
       Range(Parts[i - 1]) \cap Range(Parts[j - 1]) = {}
  /\ dna.size["important_files"] > 0 /\ dna.size["glossary"] > 0 =>
       LET blocks == files[5].blocks IN blocks[Len(blocks)].about = "glossary"
=============================================================================
