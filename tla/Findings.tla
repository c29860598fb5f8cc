------------------------------ MODULE Findings ------------------------------
(***************************************************************************)
(* The findings of an analysis: which ones each analyzer derives from what *)
(* it has measured, those that a plugin contributes, what a suppression    *)
(* hides, which of two with one identifier is kept, and which ones are     *)
(* shown first. Architecture style comes with the findings about it.       *)
(*                                                                         *)
(* A finding has a rule, what it is about (with the rule, its identifier), *)
(* a severity, and the paths that link to it and that a suppression may    *)
(* name. Its wording, evidence, confidence and limitations are left out.   *)
(* Shares are compared in percent.                                         *)
(***************************************************************************)
EXTENDS Integers, FiniteSets, Sequences, SequencesExt, FiniteSetsExt

CONSTANTS
  Most,     \* of the findings of a rule, by name of the limit
  Least     \* of what is measured before a rule applies

Info == 1
Attention == 2
Warning == 3
Critical == 4

(* Rules in the order of their categories, then names. Those of plugins    *)
(* come last.                                                              *)
Rules ==
  <<"structure.large-binary", "architecture.centrality", "architecture.concentration", "architecture.cycle",
    "architecture.file-cycle", "architecture.isolated-module", "architecture.unresolved",
    "dependencies.concentration", "dependencies.duplicate-versions", "dependencies.lock-mismatch",
    "dependencies.no-lockfile", "dependencies.stale-manifest", "activity.high-churn-area", "activity.hotspot",
    "contributors.concentration", "quality.complex-function", "quality.deep-nesting", "quality.large-file",
    "quality.long-function", "quality.duplicate-block", "quality.duplication-ratio", "quality.similar-files",
    "quality.dead-code", "quality.markers", "tests.coverage-committed", "tests.low-ratio", "tests.none",
    "tests.not-in-ci", "build.no-ci", "docs.license-file-missing", "docs.license-missing",
    "docs.optional-missing", "docs.readme-missing", "docs.readme-short", "docs.setup-instructions",
    "security.pattern", "security.permission", "security.secret", "evolution.abandoned-area",
    "evolution.dormant-period", "evolution.new-module", "plugin.a", "plugin.b">>
PlaceOf == [rule \in ToSet(Rules) |-> SelectInSeq(Rules, LAMBDA r : r = rule)]

Upto(s, n) == SubSeq(s, 1, IF n < Len(s) THEN n ELSE Len(s))
When(holds, findings) == IF holds THEN findings ELSE <<>>

(* Finding::new: each about a path and linked to it, or one overall, about *)
(* the repository.                                                         *)
Noted(rule, severity, subject, paths) ==
  [rule |-> rule, severity |-> severity, subject |-> subject, paths |-> paths, suppressed |-> <<>>]
Each(rule, severity, subjects) ==
  [i \in DOMAIN subjects |-> Noted(rule, severity, subjects[i], {subjects[i]})]
Overall(rule, severity) == <<Noted(rule, severity, <<>>, {})>>
IdOf(finding) == <<finding.rule, finding.subject>>

-----------------------------------------------------------------------------
(* What suppressions, order and identity make of all findings. A rule of a *)
(* suppression is one rule or any; it may name an identifier, and paths.   *)
Matches(rule, finding) ==
  /\ rule.rule \in {"any", finding.rule}
  /\ rule.id \in {<<>>, <<IdOf(finding)>>}
  /\ rule.paths = <<>> \/ finding.paths \cap rule.paths[1] # {}

ApplySuppressions(findings, rules) ==
  LET Wins(i) == SelectInSeq(rules, LAMBDA r : Matches(r, findings[i])) IN
  [i \in DOMAIN findings |->
     IF Wins(i) = 0 THEN findings[i] ELSE [findings[i] EXCEPT !.suppressed = <<rules[Wins(i)].reason>>]]

IsSuppressed(finding) == finding.suppressed # <<>>

DisplayBefore(a, b) ==
  a.severity > b.severity \/ (a.severity = b.severity /\ PlaceOf[a.rule] < PlaceOf[b.rule])
Sorted(findings) ==
  LET Before(i, j) ==
        \/ DisplayBefore(findings[i], findings[j])
        \/ ~DisplayBefore(findings[j], findings[i]) /\ i < j
      order == SortSeq([i \in DOMAIN findings |-> i], Before)
  IN [i \in DOMAIN findings |-> findings[order[i]]]
Firsts(s, Key(_)) ==
  {i \in DOMAIN s : \A j \in 1..(i - 1) : Key(s[j]) # Key(s[i])}
Pick(s, S) == [k \in 1..Cardinality(S) |-> s[CHOOSE i \in S : Cardinality({j \in S : j <= i}) = k]]

Normalize(findings) ==
  LET sorted == Sorted(findings) IN Pick(sorted, Firsts(sorted, IdOf))

Highlights(findings, limit) ==
  LET active == SelectSeq(findings, LAMBDA f : ~IsSuppressed(f))
      first == Firsts(active, LAMBDA f : f.rule)
      picked == Upto(Pick(active, first), limit)
      rest == Pick(active, DOMAIN active \ first)
  IN Sorted(picked \o Upto(rest, limit - Len(picked)))

-----------------------------------------------------------------------------
(* repodna_architecture: modules are in the order of their names.          *)
Reaches(part, whole, percent) == whole > 0 /\ 100 * part >= percent * whole

LargestModule(report) ==
  CHOOSE i \in DOMAIN report.modules : \A j \in DOMAIN report.modules :
    \/ report.modules[j].code < report.modules[i].code
    \/ report.modules[j].code = report.modules[i].code /\ i <= j
ModuleCycles(report) == SelectSeq(report.cycles, LAMBDA c : c.level = "module")

Signals(report) ==
  LET n == Len(report.modules)
      largest == report.modules[LargestModule(report)].code
      fanOut == FoldLeft(LAMBDA total, m : total + m.fanOut, 0, report.modules)
      Observed(signal) ==
        CASE signal = "monorepo"   -> report.packages >= 2 \/ report.workspace
          [] signal = "layered"    -> n >= 3 /\ ModuleCycles(report) = <<>> /\ report.layers >= 3
          [] signal = "modular"    -> /\ n >= Least.modules /\ report.edges > 0 /\ fanOut <= 3 * n
                                      /\ ~Reaches(largest, report.code, Least.concentration)
          [] signal = "monolithic" -> \/ n >= 2 /\ Reaches(largest, report.code, Least.monolith)
                                      \/ n = 1 /\ report.files > Least.flat
          [] signal = "flat"       -> n <= 2 /\ report.files <= Least.flat
          [] signal = "cycles"     -> ModuleCycles(report) # <<>>
  IN IF n = 0 THEN <<>>
     ELSE SelectSeq(<<"monorepo", "layered", "modular", "monolithic", "flat", "cycles">>, Observed)
ClassifyStyle(report) ==
  IF report.modules = <<>> THEN "unknown"
  ELSE IF Signals(report) \in {<<>>, <<"cycles">>} THEN "mixed" ELSE Signals(report)[1]

ModuleCycleFinding(cycle) ==
  Noted("architecture.cycle", IF cycle.tolerated THEN Attention ELSE Warning, cycle.members, ToSet(cycle.members))
FileCycleFinding(cycle) ==
  Noted("architecture.file-cycle", Attention, cycle.members, ToSet(cycle.members))
NamesOf(modules) == [i \in DOMAIN modules |-> <<modules[i].name>>]
ArchitectureFindings(report) ==
  LET n == Len(report.modules)
      inModules == ModuleCycles(report)
      inFiles == Upto(SelectSeq(report.cycles, LAMBDA c : c.level = "file"), Most.fileCycles)
      attempted == report.resolved + report.unresolved
      Central(m) == m.central >= Least.hub
      Isolated(m) == m.isolated /\ ~m.root /\ ~m.consumer
  IN [i \in DOMAIN inModules |-> ModuleCycleFinding(inModules[i])]
     \o [i \in DOMAIN inFiles |-> FileCycleFinding(inFiles[i])]
     \o When(n >= Least.modules /\ n > 0 /\ Reaches(report.modules[LargestModule(report)].code, report.code, Least.concentration),
             Each("architecture.concentration", Attention, NamesOf(<<report.modules[LargestModule(report)]>>)))
     \o When(n >= Least.modules, Each("architecture.centrality", Info, NamesOf(SelectSeq(report.modules, Central))))
     \o When(n >= 3, Each("architecture.isolated-module", Info,
                          Upto(NamesOf(SelectSeq(report.modules, Isolated)), Most.isolated)))
     \o When(attempted >= Least.imports /\ Reaches(report.unresolved, attempted, Least.unresolved),
             Overall("architecture.unresolved", Info))

-----------------------------------------------------------------------------
(* repodna_quality. What is long, deep or large was selected before.       *)
CodeFindings(report) ==
  LET complex == SelectSeq(report.functions, LAMBDA f : f.complexity >= Least.complexity) IN
  Each("quality.complex-function", Attention, Upto([i \in DOMAIN complex |-> complex[i].name], Most.perRule))
  \o Each("quality.long-function", Attention, Upto(report.long, Most.perRule))
  \o Each("quality.deep-nesting", Attention, Upto(report.deep, Most.perRule))
  \o Each("quality.large-file", Attention, Upto(report.large, Most.perRule))
CopyFindings(report) ==
  LET blocks == Upto(report.clusters, Most.perRule)
      similar == Upto(report.similar, Most.similar)
  IN [i \in DOMAIN blocks |-> Noted("quality.duplicate-block", Attention, blocks[i].id, ToSet(Upto(blocks[i].paths, Most.places)))]
     \o When(/\ report.duplication \in {"analyzed", "partial"} /\ report.duplicated >= Least.duplicated
             /\ Reaches(report.duplicated, report.analyzed, Least.duplication),
             Overall("quality.duplication-ratio", Attention))
     \o [i \in DOMAIN similar |-> Noted("quality.similar-files", Info, similar[i], ToSet(similar[i]))]
QualityFindings(report) ==
  CodeFindings(report) \o CopyFindings(report) \o When(report.markers > 0, Overall("quality.markers", Info))
  \o Each("quality.dead-code", Info, Upto(report.dead, Most.perRule))

(* `hotspots` are ranked, of so many candidates.                           *)
HotspotFindings(hotspots, candidates) ==
  LET strong == SelectSeq(hotspots, LAMBDA h : h.score >= Least.hotspot) IN
  When(candidates >= Least.candidates,
       Each("activity.hotspot", Attention, Upto([i \in DOMAIN strong |-> strong[i].path], Most.hotspots)))

-----------------------------------------------------------------------------
(* repodna_security. Candidates are in the order of paths and lines.       *)
BuildReport(secrets, patterns) ==
  LET InOrder(s) == SortSeq(s, LAMBDA a, b : a.at < b.at) IN
  [secrets |-> Upto(InOrder(secrets), Most.candidates), patterns |-> Upto(InOrder(patterns), Most.candidates),
   notes |-> SelectSeq(<<"secret", "pattern">>, LAMBDA s :
               Len(IF s = "secret" THEN secrets ELSE patterns) > Most.candidates)]

SecretSeverity(candidate) ==
  IF candidate.example \/ candidate.confidence < 2 THEN Attention
  ELSE IF candidate.key /\ candidate.confidence = 3 THEN Critical ELSE Warning
PatternSeverity(candidate) == <<Info, Attention, Warning>>[candidate.confidence]

SecurityFindings(report, permissions) ==
  LET Worse(a, b) ==
        \/ SecretSeverity(a) > SecretSeverity(b)
        \/ /\ SecretSeverity(a) = SecretSeverity(b)
           /\ a.confidence > b.confidence \/ (a.confidence = b.confidence /\ a.at < b.at)
      Surer(a, b) == a.confidence > b.confidence \/ (a.confidence = b.confidence /\ a.at < b.at)
      secrets == Upto(SortSeq(report.secrets, Worse), Most.security)
      patterns == Upto(SortSeq(report.patterns, Surer), Most.security)
  IN [i \in DOMAIN secrets |-> Noted("security.secret", SecretSeverity(secrets[i]), <<secrets[i].at>>, {secrets[i].at})]
     \o [i \in DOMAIN patterns |-> Noted("security.pattern", PatternSeverity(patterns[i]), <<patterns[i].at>>, {patterns[i].at})]
     \o Each("security.permission", Attention, Upto(permissions, Most.security))

-----------------------------------------------------------------------------
(* repodna_project: `inline` says that a source file holds tests.          *)
TestFindings(p) ==
  LET tested == p.testFiles > 0 \/ p.inline IN
  When(~tested /\ p.sourceFiles >= Least.untested, Overall("tests.none", Attention))
  \o When(p.testFiles > 0 /\ ~p.inline /\ ~Reaches(p.testCode, p.testCode + p.sourceCode, Least.tested)
            /\ p.sourceCode >= Least.sourceCode, Overall("tests.low-ratio", Info))
  \o When(p.ci # {} /\ tested /\ p.ciCommands = 0, Overall("tests.not-in-ci", Info))
  \o When(p.ci = {} /\ p.sourceFiles >= Least.built, Overall("build.no-ci", Info))
  \o When(p.coverage, Overall("tests.coverage-committed", Info))
DocFindings(checks) ==
  LET Status(id) == IF id \in DOMAIN checks THEN checks[id] ELSE "missing"
      readme == Status("readme")
      license == Status("license")
  IN When(readme = "missing", Overall("docs.readme-missing", Attention))
     \o When(readme = "partial", Overall("docs.readme-short", Info))
     \o When(readme = "present" /\ "missing" \in {Status("installation"), Status("usage")},
             Overall("docs.setup-instructions", Info))
     \o When(license = "missing", Overall("docs.license-missing", Attention))
     \o When(license = "partial", Overall("docs.license-file-missing", Info))
     \o When(\E id \in DOMAIN checks \cap {"contributing", "security-policy", "changelog", "code-of-conduct"} :
               checks[id] = "missing", Overall("docs.optional-missing", Info))

-----------------------------------------------------------------------------
(* engine/deps.rs. A manifest has its ecosystem, kind, and the day it last *)
(* changed if history knows it; imports of packages have their importers.  *)
CompleteReport(report, externals, latest) ==
  LET total == FoldLeft(LAMBDA n, e : n + e.importers, 0, externals)
      Stale(m) == m.kind = "manifest" /\ m.changed # <<>> /\ latest[1] - m.changed[1] >= Least.stale
  IN [report EXCEPT !.stale = IF latest = <<>> THEN @ ELSE SelectSeq(report.manifests, Stale),
                    !.top = IF total = 0 THEN @ ELSE <<[name |-> externals[1].name, importers |-> externals[1].importers, of |-> total]>>]

DependencyFindings(report) ==
  LET Mismatched(m) == m.kind = "lockfile" /\ m.missing > 0
      PathsOf(manifests) == [i \in DOMAIN manifests |-> manifests[i].path]
      Of(ecosystem) == SelectSeq(report.manifests, LAMBDA m : m.ecosystem = ecosystem)
      Unlocked(ecosystem) ==
        /\ Of(ecosystem) # <<>> /\ \A i \in DOMAIN Of(ecosystem) : Of(ecosystem)[i].kind # "lockfile"
        /\ ecosystem \in report.declared
      unlocked == SelectSeq(<<"composer", "go", "npm", "pub", "rubygems">>, Unlocked)
  IN Each("dependencies.lock-mismatch", Warning, PathsOf(SelectSeq(report.manifests, Mismatched)))
     \o [i \in DOMAIN unlocked |-> Noted("dependencies.no-lockfile", Info, <<unlocked[i]>>, {})]
     \o When(report.duplicates > 0, Overall("dependencies.duplicate-versions", Info))
     \o Each("dependencies.stale-manifest", Info, Upto(PathsOf(report.stale), Most.stale))
     \o When(/\ report.top # <<>>
             /\ Reaches(report.top[1].importers, report.top[1].of, Least.external)
             /\ report.top[1].importers >= Least.importers,
             <<Noted("dependencies.concentration", Info, <<report.top[1].name>>, {})>>)

-----------------------------------------------------------------------------
(* engine/history.rs: areas are directories of one or two levels, <<>> for *)
(* the files beside them, each with its share of the recent churn.         *)
GitFindings(report) ==
  LET active == SelectSeq(report.areas, LAMBDA a : a.share > 0)
      Parent(path) == \E i \in DOMAIN report.areas : IsStrictPrefix(path, report.areas[i].path)
      Busy(a) == a.share >= Least.churn /\ (a.path = <<>> \/ ~Parent(a.path))
      Before(i, j) == \/ report.areas[i].share > report.areas[j].share
                      \/ report.areas[i].share = report.areas[j].share /\ i < j
      order == SortSeq([i \in DOMAIN report.areas |-> i], Before)
      busy == Upto(SelectSeq([i \in DOMAIN order |-> report.areas[order[i]]], Busy), Most.churn)
  IN When(report.recent >= Least.recent /\ Len(active) >= 2,
          [i \in DOMAIN busy |-> Noted("activity.high-churn-area", Info, busy[i].path, {busy[i].path} \ {<<>>})])
     \o When(report.commits >= Least.commits /\ Reaches(report.byTop, report.commits, Least.ownership),
             Overall("contributors.concentration", Info))

(* engine/structure.rs and evolution/analysis.rs. Pauses end at a commit.  *)
StructureFindings(files) ==
  LET Large(f) == f.binary /\ f.bytes >= Least.binary
      Before(i, j) == files[i].bytes > files[j].bytes \/ (files[i].bytes = files[j].bytes /\ i < j)
      order == SortSeq([i \in DOMAIN files |-> i], Before)
      large == Upto(SelectSeq([i \in DOMAIN order |-> files[order[i]]], Large), Most.binary)
  IN Each("structure.large-binary", Info, [i \in DOMAIN large |-> large[i].path])
EvolutionFindings(abandoned, pauses, modules) ==
  LET long == {i \in DOMAIN pauses : pauses[i].days >= Least.dormant}
      longest == {i \in long : \A j \in long : pauses[j].days < pauses[i].days \/ (pauses[j].days = pauses[i].days /\ i <= j)}
      new == SelectSeq(modules, LAMBDA m : m.class = "new")
  IN Each("evolution.abandoned-area", Info, Upto(abandoned, Most.evolution))
     \o Pick([i \in DOMAIN pauses |-> Noted("evolution.dormant-period", Info, <<pauses[i].before>>, {})], longest)
     \o Each("evolution.new-module", Info, Upto([i \in DOMAIN new |-> <<new[i].name>>], Most.evolution))

-----------------------------------------------------------------------------
(* plugin/protocol.rs: what of a response is taken. An item is of the form *)
(* of a finding or not, and has a rule in the name of its plugin, a title, *)
(* paths that are inside the repository or not, and a severity it chose.   *)
PluginFinding(item) ==
  LET paths == Upto(SelectSeq(item.paths, LAMBDA p : p # "outside"), Most.references) IN
  Noted(item.rule, item.severity, IF paths # <<>> THEN <<paths[1]>> ELSE <<item.title>>, ToSet(paths))
ParseResponse(response) ==
  LET tried == Upto(response.findings, Most.findings)
      metrics == Upto(response.metrics, Most.metrics)
      taken == SelectSeq(tried, LAMBDA item : item.formed /\ item.rule # "bad" /\ item.title # "blank")
      measured == SelectSeq(metrics, LAMBDA item : item.formed /\ item.id # "bad" /\ item.finite)
  IN IF response.api # "current" THEN <<>>
     ELSE <<[findings |-> [i \in DOMAIN taken |-> PluginFinding(taken[i])],
             metrics |-> [i \in DOMAIN measured |-> measured[i].id],
             rejected |-> Len(tried) - Len(taken) + Len(metrics) - Len(measured),
             dropped |-> <<Len(response.findings) - Len(tried), Len(response.metrics) - Len(metrics)>>]>>

-----------------------------------------------------------------------------
(* However often and in whatever order analyzers report, each finding is   *)
(* listed once and as severe as anyone reported it, the worst ones first;  *)
(* what is hidden was meant to be, for the first reason given, and is      *)
(* hidden the same if it is looked for before or after the doubles went.   *)
(* Findings shown first are active and in order: as many as fit, of as     *)
(* many rules as possible, and of each rule the first ones.                *)
ListIsOf(findings, rules, list) ==
  LET Double(i) == {j \in DOMAIN findings : IdOf(findings[j]) = IdOf(list[i])} IN
  /\ {IdOf(list[i]) : i \in DOMAIN list} = {IdOf(findings[i]) : i \in DOMAIN findings}
  /\ \A i, j \in DOMAIN list : i < j =>
       /\ IdOf(list[i]) # IdOf(list[j]) /\ list[i].severity >= list[j].severity
       /\ list[i].severity = list[j].severity => PlaceOf[list[i].rule] <= PlaceOf[list[j].rule]
  /\ \A i \in DOMAIN list :
       LET hiding == {k \in DOMAIN rules : Matches(rules[k], list[i])} IN
       /\ \A j \in Double(i) : findings[j].severity <= list[i].severity
       /\ list[i].suppressed = (IF hiding = {} THEN <<>> ELSE <<rules[Min(hiding)].reason>>)
  /\ list = ApplySuppressions(Normalize(findings), rules)
  /\ \A k \in DOMAIN findings :
       LET first == SubSeq(findings, 1, k)  last == SubSeq(findings, k + 1, Len(findings)) IN
       {first[i].rule : i \in DOMAIN first} \cap {last[i].rule : i \in DOMAIN last} = {} =>
         list = Normalize(ApplySuppressions(last \o first, rules))
ShownIsFirst(list, limit, shown) ==
  LET active == SelectSeq(list, LAMBDA f : ~IsSuppressed(f))
      rules == {active[i].rule : i \in DOMAIN active}
      shownRules == {shown[i].rule : i \in DOMAIN shown}
  IN /\ Len(shown) = Min({limit, Len(active)})
     /\ shown = SelectSeq(active, LAMBDA f : f \in ToSet(shown))
     /\ Cardinality(shownRules) = Min({limit, Cardinality(rules)})
     /\ \A i, j \in DOMAIN active :
          i < j /\ active[i].rule = active[j].rule /\ active[j] \in ToSet(shown) => active[i] \in ToSet(shown)
FindingsAreListed(findings, rules, limit) ==
  \E list \in {Normalize(ApplySuppressions(findings, rules))} :
    ListIsOf(findings, rules, list) /\ ShownIsFirst(list, limit, Highlights(list, limit))

(* No style says the opposite of another or of the findings beside it: a   *)
(* modular repository is not monolithic, a monolithic one of some modules  *)
(* has a finding that says so, and a layered one has no cycle.             *)
StyleIsFounded(report) ==
  LET signals == ToSet(Signals(report))
      rules == {f.rule : f \in ToSet(ArchitectureFindings(report))}
  IN /\ ~({"modular", "monolithic"} \subseteq signals) /\ ~({"layered", "cycles"} \subseteq signals)
     /\ "monolithic" \in signals /\ Len(report.modules) >= Least.modules => "architecture.concentration" \in rules
     /\ "cycles" \in signals <=> "architecture.cycle" \in rules
     /\ "layered" \in signals => "architecture.cycle" \notin rules
     /\ ClassifyStyle(report) \in signals \cup {"mixed", "unknown"}
     /\ ClassifyStyle(report) = "mixed" => \A i \in DOMAIN report.modules : ~Reaches(report.modules[i].code, report.code, Least.monolith) \/ Len(report.modules) = 1

(* Where a rule has more to say than its limit, the worst are said; only a *)
(* report that had to leave candidates out may miss one, and it says so.   *)
WorstAreKept(secrets, patterns, permissions) ==
  LET report == BuildReport(secrets, patterns)
      Missing(all, findings, rule) == {c \in ToSet(all) : \A i \in DOMAIN findings : IdOf(findings[i]) # <<rule, <<c.at>>>>}
      Kept(findings, rule) == {f \in ToSet(findings) : f.rule = rule}
      Worst(findings) ==
        /\ \A c \in Missing(report.secrets, findings, "security.secret"), f \in Kept(findings, "security.secret") : SecretSeverity(c) <= f.severity
        /\ \A c \in Missing(report.patterns, findings, "security.pattern"), f \in Kept(findings, "security.pattern") : PatternSeverity(c) <= f.severity
        /\ (\E c \in Missing(secrets, findings, "security.secret") : c.key /\ SecretSeverity(c) = Critical) =>
             \/ "secret" \in ToSet(report.notes)
             \/ \A f \in Kept(findings, "security.secret") : f.severity = Critical
  IN Worst(SecurityFindings(report, permissions))

(* What is advised does not contradict itself: tests that are missing are  *)
(* not missing from CI, CI that is missing does not lack them, a README is *)
(* missing, short or incomplete, a license missing or without its text,    *)
(* and an ecosystem without lockfiles has none that disagrees.             *)
AdviceAgrees(project, checks) ==
  LET said == {f.rule : f \in ToSet(TestFindings(project) \o DocFindings(checks))}
      OneOf(rules) == Cardinality(said \cap rules) <= 1
  IN /\ OneOf({"tests.none", "tests.low-ratio"}) /\ OneOf({"tests.none", "tests.not-in-ci"})
     /\ OneOf({"tests.not-in-ci", "build.no-ci"})
     /\ OneOf({"docs.readme-missing", "docs.readme-short", "docs.setup-instructions"})
     /\ OneOf({"docs.license-missing", "docs.license-file-missing"})
DependenciesAreAdvised(declared, externals, latest) ==
  \E report \in {CompleteReport(declared, externals, latest)} : \E findings \in {ToSet(DependencyFindings(report))} :
    LET About(rule) == {f.subject : f \in {f \in findings : f.rule = rule}} IN
    /\ \A m \in ToSet(report.manifests) :
         m.path \in About("dependencies.lock-mismatch") => <<m.ecosystem>> \notin About("dependencies.no-lockfile")
    /\ \A p \in About("dependencies.stale-manifest") :
         \E m \in ToSet(report.manifests) : m.path = p /\ m.kind = "manifest" /\ latest[1] - m.changed[1] >= Least.stale
    /\ About("dependencies.concentration") # {} =>
         \A e \in ToSet(externals) : e.importers > report.top[1].importers => e.name = report.top[1].name

(* The pause that is told of is the longest one, and long.                 *)
PausesAreLongest(pauses, findings) ==
  LET told == {f.subject[1] : f \in {f \in ToSet(findings) : f.rule = "evolution.dormant-period"}}
      long == {p \in ToSet(pauses) : p.days >= Least.dormant}
  IN /\ Cardinality(told) = (IF long = {} THEN 0 ELSE 1)
     /\ \A p \in ToSet(pauses), q \in long : p.before \in told => p.days >= q.days

(* No analyzer tells two things apart that the list would then take for    *)
(* one: its findings differ in rule or subject if what they are about does.*)
NoneIsMistaken(findings) == Cardinality({IdOf(f) : f \in ToSet(findings)}) = Len(findings)

(* Busy areas are apart, and the busiest ones.                             *)
AreasAreApart(report) ==
  LET busy == {f.subject : f \in {f \in ToSet(GitFindings(report)) : f.rule = "activity.high-churn-area"}}
      ShareOf(path) == (CHOOSE a \in ToSet(report.areas) : a.path = path).share
  IN /\ \A p, q \in busy : p = <<>> \/ ~IsStrictPrefix(p, q)
     /\ FoldSet(LAMBDA p, n : n + ShareOf(p), 0, busy) <= 100
     /\ \A p \in busy, a \in ToSet(report.areas) :
          a.share > ShareOf(p) /\ a.path \notin busy => \E b \in ToSet(report.areas) : IsStrictPrefix(a.path, b.path) /\ a.path # <<>>

(* Everything that a plugin sends is taken, refused or counted as dropped, *)
(* and nothing that it says links out of the repository.                   *)
ResponseIsAccounted(response) ==
  LET taken == ParseResponse(response) IN
  taken # <<>> =>
    /\ Len(taken[1].findings) + Len(taken[1].metrics) + taken[1].rejected + taken[1].dropped[1] + taken[1].dropped[2]
         = Len(response.findings) + Len(response.metrics)
    /\ Len(taken[1].findings) <= Most.findings /\ Len(taken[1].metrics) <= Most.metrics
    /\ \A i \in DOMAIN taken[1].findings : "outside" \notin taken[1].findings[i].paths
=============================================================================
