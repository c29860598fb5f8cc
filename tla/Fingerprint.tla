----------------------------- MODULE Fingerprint -----------------------------
(***************************************************************************)
(* repodna_engine::fingerprint: eight dimensions that characterize a       *)
(* repository, the raw metrics, signals and the confidence in each section *)
(* of an artifact `dna`. Values between 0 and 1 are in ten-thousandths     *)
(* (round4); raw values are pairs <<numerator, denominator>>.              *)
(*                                                                         *)
(* The logarithms are constants: functions of the modules, the years and   *)
(* the recent commits that the model looks at.                             *)
(***************************************************************************)
EXTENDS Integers, FiniteSets, Sequences, SequencesExt

CONSTANTS
  Log2Sixth,  \* modules -> log2(modules) / 6
  Ln21,       \* years   -> ln(1 + years) / ln(21)
  Ln101       \* commits -> ln(1 + commits) / ln(101)

One == 10000
Confidence == 0..3
Unavailable == 0
Low == 1
Medium == 2
High == 3
Weaker(a, b) == IF b < a THEN b ELSE a
HasResults(status) == status \in {"analyzed", "partial"}
When(condition, x) == IF condition THEN x ELSE {}

Clamped(value) == IF value < 0 THEN 0 ELSE IF value > One THEN One ELSE value
Round(n, d) == (2 * One * n + d) \div (2 * d)
Dimension(value, raw, confidence) ==
  [value |-> Clamped(value), raw |-> raw, confidence |-> confidence]
NotMeasured == Dimension(0, <<0, 1>>, Unavailable)
Undecided == Dimension(0, <<0, 1>>, Low)

Sum(s) == FoldLeft(LAMBDA a, b : a + b, 0, s)
Squares(s) == Sum([i \in DOMAIN s |-> s[i] * s[i]])

(* The inverse Simpson index of the weights, one over the sum of the       *)
(* squares of their shares, and what it is below one.                      *)
Spread(weights, confidence) ==
  LET total == Sum(weights)
      squares == Squares(weights)
  IN IF total = 0 THEN Undecided
     ELSE Dimension(One - Round(squares, total * total), <<total * total, squares>>, confidence)

Attempted(dna) == dna.architecture.resolved + dna.architecture.unresolved
Reliable(dna) ==  \* RELIABLE_RESOLUTION = 0.7
  Attempted(dna) > 0 /\ 10 * dna.architecture.resolved >= 7 * Attempted(dna)
GitConfidence(dna) == IF dna.git.shallow \/ dna.git.truncated THEN Low ELSE High

-----------------------------------------------------------------------------
Shares(languages) ==
  LET shares == SelectSeq([i \in DOMAIN languages |-> languages[i].share], LAMBDA s : s > 0) IN
  IF shares # <<>> THEN shares ELSE [i \in DOMAIN languages |-> languages[i].code]
LanguageDiversity(dna) ==
  IF ~HasResults(dna.languages.status) THEN NotMeasured
  ELSE Spread(Shares(dna.languages.list), High)

Modularity(dna) ==
  LET modules == Len(dna.architecture.fanIn)
      atLeastOne == IF modules = 0 THEN 1 ELSE modules
  IN IF ~HasResults(dna.architecture.status) THEN NotMeasured
     ELSE Dimension(Log2Sixth[atLeastOne], <<modules, 1>>, IF modules = 0 THEN Low ELSE Medium)

Highest(s) == CHOOSE m \in ToSet(s) : \A n \in ToSet(s) : n <= m
DependencyCentrality(dna) ==
  LET fanIn == dna.architecture.fanIn IN
  IF ~HasResults(dna.architecture.status) THEN NotMeasured
  ELSE IF Len(fanIn) < 2 THEN Undecided
  ELSE Dimension(Round(Highest(fanIn), Len(fanIn) - 1), <<Highest(fanIn), 1>>,
                 IF Reliable(dna) THEN Medium ELSE Low)

(* The files that are the tenth most changed, never all and at least one.  *)
TopFiles(files) ==
  LET tenth == (files + 9) \div 10 IN IF tenth > files - 1 THEN files - 1 ELSE tenth
Concentration(commits, confidence) ==
  LET files == Len(commits)
      top == TopFiles(files)
      total == Sum(commits)
      share == Sum(SubSeq(SortSeq(commits, >), 1, top))
  IN IF files < 2 THEN Undecided
     ELSE Dimension(Round(share * files - top * total, total * (files - top)), <<share, total>>,
                    IF files >= 10 THEN confidence ELSE Low)
ChangeConcentration(dna) ==
  IF ~HasResults(dna.git.status) THEN NotMeasured
  ELSE Concentration(SelectSeq(dna.git.commits, LAMBDA c : c > 0), GitConfidence(dna))

ContributorSpread(dna) ==
  IF ~HasResults(dna.git.status) THEN NotMeasured
  ELSE Spread(dna.git.contributors, Weaker(GitConfidence(dna), Medium))

Age(dna) ==
  IF dna.git.span = <<>> THEN IF HasResults(dna.git.status) THEN Undecided ELSE NotMeasured
  ELSE LET years == IF dna.git.span[1] < 0 THEN 0 ELSE dna.git.span[1] IN
       Dimension(Ln21[years], <<years, 1>>, GitConfidence(dna))

Testing(dna) ==
  LET code == dna.tests.test + dna.tests.source
      marked == dna.tests.test + dna.tests.inline
      tested == IF marked > code THEN code ELSE marked
  IN IF ~HasResults(dna.tests.status) THEN NotMeasured
     ELSE IF code = 0 THEN Undecided
     ELSE Dimension(Round(tested, code), <<tested, code>>, Medium)

Documentation(dna) ==
  LET checks == dna.docs.checks
      Halves(check) == CASE check = "present" -> 2 [] check = "partial" -> 1 [] OTHER -> 0
      met == Sum([i \in DOMAIN checks |-> Halves(checks[i])])
  IN IF ~HasResults(dna.docs.status) \/ checks = <<>> THEN NotMeasured
     ELSE Dimension(Round(met, 2 * Len(checks)), <<met, 2>>, Medium)

Fingerprint(dna) ==
  [language |-> LanguageDiversity(dna), modularity |-> Modularity(dna),
   centrality |-> DependencyCentrality(dna), concentration |-> ChangeConcentration(dna),
   spread |-> ContributorSpread(dna), age |-> Age(dna), testing |-> Testing(dna),
   documentation |-> Documentation(dna)]

-----------------------------------------------------------------------------
(* Raw metrics: of each section with results, the ids and the confidence   *)
(* in them.                                                                *)
Metrics(section, ids, confidence) == {[section |-> section, id |-> id, confidence |-> confidence] : id \in ids}

StructureMetrics ==
  Metrics("structure", {"files", "bytes", "lines.total", "directories", "files.binary"}, High) \cup
  Metrics("structure", {"lines.code", "lines.comment", "files.generated", "files.vendored",
                        "symbols", "entrypoints"}, Medium)
LanguageMetrics(languages) ==
  Metrics("languages", {"count"} \cup When(languages.list # <<>>, {"primary.share"}), High)
ArchitectureMetrics(dna) ==
  Metrics("architecture",
          {"modules", "module-edges", "file-edges", "layers", "cycles", "external",
           "imports.resolved", "imports.unresolved"}
            \cup When(Attempted(dna) > 0, {"imports.resolution-rate"}), Medium)
GitMetrics(dna) ==
  Metrics("git", {"commits", "ownership.top-share"} \cup When(dna.git.span # <<>>, {"age.days"}),
          GitConfidence(dna)) \cup
  Metrics("git", {"contributors"}, Weaker(Medium, GitConfidence(dna))) \cup
  Metrics("git", {"branches", "tags", "commits.last-90-days"}, High) \cup
  Metrics("git", {"releases", "hotspots"}, Medium)
QualityMetrics(quality) ==
  Metrics("quality", {"functions", "cyclomatic.average", "cyclomatic.median", "functions.large"}
            \cup When(HasResults(quality.duplication), {"duplication.ratio", "duplication.clusters"}), Medium) \cup
  Metrics("quality", {"files.large", "markers"}, High) \cup Metrics("quality", {"dead-code-candidates"}, Low)
DependencyMetrics(dependencies) ==
  Metrics("dependencies", {"direct", "locked"}, IF dependencies.parsed THEN High ELSE Medium) \cup
  Metrics("dependencies", {"manifests", "ecosystems", "duplicates"}, High) \cup
  Metrics("dependencies", When(dependencies.imported, {"concentration.share"}), Medium)
TestMetrics == Metrics("tests", {"files", "inline-files", "lines", "ratio", "frameworks"}, Medium)
BuildMetrics ==
  Metrics("builds", {"systems", "ci"}, High) \cup Metrics("builds", {"commands"}, Medium)
DocMetrics == Metrics("docs", {"files", "lines"}, High)
SecurityMetrics ==
  Metrics("security", {"files-scanned"}, High) \cup
  Metrics("security", {"secret-candidates", "pattern-candidates"}, Low)
EvolutionMetrics ==
  Metrics("evolution", {"epochs", "events"}, Medium) \cup Metrics("evolution", {"snapshots"}, High)
FindingMetrics ==
  Metrics("findings", {"critical", "warning", "attention", "info", "suppressed"}, High)

RawMetrics(dna) ==
  FindingMetrics
    \cup When(HasResults(dna.structure.status), StructureMetrics)
    \cup When(HasResults(dna.languages.status), LanguageMetrics(dna.languages))
    \cup When(HasResults(dna.architecture.status), ArchitectureMetrics(dna))
    \cup When(HasResults(dna.git.status), GitMetrics(dna))
    \cup When(HasResults(dna.quality.status), QualityMetrics(dna.quality))
    \cup When(HasResults(dna.dependencies.status), DependencyMetrics(dna.dependencies))
    \cup When(HasResults(dna.tests.status), TestMetrics)
    \cup When(HasResults(dna.builds.status), BuildMetrics)
    \cup When(HasResults(dna.docs.status), DocMetrics)
    \cup When(HasResults(dna.security.status), SecurityMetrics)
    \cup When(HasResults(dna.evolution.status), EvolutionMetrics)

-----------------------------------------------------------------------------
Interpretation(dimension) ==
  CASE dimension.confidence = Unavailable -> "not measured"
    [] dimension.value < 3400             -> "low"
    [] dimension.value < 6700             -> "middle"
    [] OTHER                              -> "high"

Signal(value, confidence, text) == [value |-> value, confidence |-> confidence, text |-> text]
Signals(dna) ==
  LET dimensions == Fingerprint(dna) IN
  [id \in DOMAIN dimensions |->
     Signal(dimensions[id].value, dimensions[id].confidence, Interpretation(dimensions[id]))]
    @@ [id \in When(HasResults(dna.git.status), {"recent-activity"}) |->
          Signal(Clamped(Ln101[dna.git.recent]), High, "level")]
    @@ [id \in When(HasResults(dna.quality.duplication), {"duplication"}) |->
          Signal(Clamped(dna.quality.ratio), Medium, "percent")]
    @@ [id \in When(Attempted(dna) > 0, {"import-resolution"}) |->
          Signal(Round(dna.architecture.resolved, Attempted(dna)), High, "percent")]

(* What a section would have if it were complete, and what its status      *)
(* makes of it.                                                            *)
Analyzed(dna) ==
  [structure    |-> IF dna.structure.skipped > 0 \/ dna.structure.truncated THEN Medium ELSE High,
   languages    |-> High,
   architecture |-> IF Attempted(dna) = 0 \/ 2 * dna.architecture.resolved < Attempted(dna)
                    THEN Low ELSE Medium,
   git          |-> GitConfidence(dna),
   quality      |-> Medium,
   dependencies |-> IF dna.dependencies.parsed THEN High ELSE Medium,
   tests        |-> Medium, builds |-> Medium, docs |-> Medium, security |-> Low,
   evolution    |-> Weaker(GitConfidence(dna), Medium),
   similarity   |-> Medium]
StatusConfidence(status, analyzed) ==
  CASE status = "analyzed" -> analyzed
    [] status = "partial"  -> Weaker(analyzed, Medium)
    [] OTHER               -> Unavailable
SectionConfidence(dna) ==
  [section \in DOMAIN Analyzed(dna) |-> StatusConfidence(dna[section].status, Analyzed(dna)[section])]

-----------------------------------------------------------------------------
(* An absent measurement is never taken for a measured nothing: what a     *)
(* section without results would tell is "not measured" and has no metric. *)
(* What is measured is within its scale whatever the counts are: a spread  *)
(* is that of at most as many equal parts as there are, and of as many if  *)
(* and only if they are equal; a hub has the top of its scale if and only  *)
(* if all other modules depend on it; changes spread evenly give 0, and    *)
(* one more change to the most changed file never lowers the value         *)
(* (descriptions in fingerprint.rs). No limit of the history or of the     *)
(* clone is passed on with high confidence.                                *)
DnaIsDescribed(dna) ==
  LET is == Fingerprint(dna)
      section == [language |-> "languages", modularity |-> "architecture", centrality |-> "architecture",
                  concentration |-> "git", spread |-> "git", age |-> "git", testing |-> "tests",
                  documentation |-> "docs"]
      metrics == RawMetrics(dna)
      confidence == SectionConfidence(dna)
      Even(s) == \A i, j \in DOMAIN s : s[i] = s[j]
      commits == SelectSeq(dna.git.commits, LAMBDA c : c > 0)
      most == CHOOSE i \in DOMAIN commits : \A j \in DOMAIN commits : commits[j] <= commits[i]
  IN /\ \A d \in DOMAIN is :
          /\ is[d].value \in 0..One /\ is[d].raw[1] >= 0
          /\ is[d].confidence = Unavailable <=>
               ~HasResults(dna[section[d]].status) \/ (d = "documentation" /\ dna.docs.checks = <<>>)
          /\ is[d].confidence = Unavailable => is[d].value = 0 /\ is[d].raw[1] = 0
          /\ confidence[section[d]] = Unavailable => Signals(dna)[d].text = "not measured"
     /\ is.spread.raw[1] > 0 =>
          /\ is.spread.raw[1] <= Len(dna.git.contributors) * is.spread.raw[2]
          /\ is.spread.raw[1] = Len(dna.git.contributors) * is.spread.raw[2] <=> Even(dna.git.contributors)
          /\ is.spread.value = 0 <=> Cardinality({i \in DOMAIN dna.git.contributors : dna.git.contributors[i] > 0}) = 1
     /\ is.centrality.confidence > Low \/ is.centrality.raw[1] > 0 =>
          (is.centrality.value = One <=> Contains(dna.architecture.fanIn, Len(dna.architecture.fanIn) - 1))
     /\ is.concentration.confidence # Unavailable /\ Len(commits) >= 2 =>
          /\ is.concentration.value = 0 <=> Even(commits)
          /\ Concentration([commits EXCEPT ![most] = @ + 1], Low).value >= is.concentration.value
     /\ \A m \in metrics : m.section = "findings" \/ HasResults(dna[m.section].status)
     /\ \A s \in DOMAIN confidence : HasResults(dna[s].status) <=> confidence[s] # Unavailable
     /\ dna.git.shallow \/ dna.git.truncated =>
          /\ \A d \in {"concentration", "spread", "age"} : is[d].confidence <= Low
          /\ confidence.git <= Low /\ confidence.evolution <= Low
          /\ \A m \in metrics : m.section = "git" /\ m.id \in {"commits", "contributors", "age.days"}
                                  => m.confidence <= Low
=============================================================================
