----------------------------- MODULE Comparison -----------------------------
(***************************************************************************)
(* repodna_report::ci, compare and facts: artifacts beside each other.     *)
(*                                                                         *)
(* ci::evaluate tells what changed between a baseline and the current      *)
(* artifact, and whether the policy fails. Artifacts are imported files:   *)
(* an id or a path may be there twice, with contradicting records, in any  *)
(* order. They are sequences here, and the answers must be those of the    *)
(* set of records. A finding has its id, a severity (greater is more       *)
(* severe), whether it is suppressed, and `text`, which stands for rule,   *)
(* title and paths.                                                        *)
(*                                                                         *)
(* compare puts repositories side by side. One has a name (<<"a">>, or     *)
(* <<"a", 2>> if it is called "a (2)"), the share of each language, its    *)
(* sections with a status and a value, and the dimensions of its           *)
(* fingerprint, measured or not.                                           *)
(***************************************************************************)
EXTENDS Integers, FiniteSets, Sequences, SequencesExt

CONSTANT NamedLanguages  \* languages shown by name before the rest fold into "Other"

-----------------------------------------------------------------------------
(* The gate of ci.rs. *)
NoHash == 0
Records(s) == {s[i] : i \in DOMAIN s}
Ids(findings) == {f.id : f \in findings}

-----------------------------------------------------------------------------
(* A representative of each id among some of the findings, in their order: *)
(* the most severe, then the one of the least text.                        *)
Preferred(f, existing) ==
  \/ f.severity > existing.severity
  \/ f.severity = existing.severity /\ f.text < existing.text

UniqueFindings(findings, among) ==
  LET Insert(byId, f) ==
        IF f \notin among THEN byId
        ELSE [id \in DOMAIN byId \cup {f.id} |->
                IF id # f.id THEN byId[id]
                ELSE IF id \notin DOMAIN byId \/ Preferred(f, byId[id]) THEN f ELSE byId[id]]
      byId == FoldLeft(Insert, [id \in {} |-> 0], findings)
  IN {byId[id] : id \in DOMAIN byId}

Active(findings) == {f \in Records(findings) : ~f.suppressed}
NotIn(findings, known) == {f \in findings : f.id \notin known}

(* Ids of the baseline's findings that count as known. *)
Known_SuppressedToo(baseline) == Ids(Records(baseline))
Known(baseline) == Ids(Active(baseline))

Introduced(current, baseline) ==
  UniqueFindings(current, NotIn(Active(current), Known(baseline)))
Resolved(current, baseline) ==
  UniqueFindings(baseline, NotIn(Active(baseline), Ids(Active(current))))

(* The findings that fail the policy: baseline is <<>> of one artifact, or *)
(* of none, and failOn 0 stands for no threshold.                          *)
Failing(current, baselines, failOn, newOnly) ==
  LET considered == IF newOnly /\ baselines # <<>>
                    THEN Introduced(current, Head(baselines)) ELSE Active(current)
  IN IF failOn = 0 THEN {} ELSE {f \in considered : f.severity >= failOn}

-----------------------------------------------------------------------------
(* The hash of each path, or NoHash when it is missing or contradicted.    *)
Contradicted(existing, hash) == IF existing = hash THEN existing ELSE NoHash

UnambiguousFileHashes(files) ==
  LET Insert(hashes, f) ==
        [p \in DOMAIN hashes \cup {f.path} |->
           IF p # f.path THEN hashes[p]
           ELSE IF p \in DOMAIN hashes THEN Contradicted(hashes[p], f.hash) ELSE f.hash]
  IN FoldLeft(Insert, [p \in {} |-> 0], files)

FileChanges(baseline, current) ==
  LET before == UnambiguousFileHashes(baseline)
      after == UnambiguousFileHashes(current)
  IN [added |-> DOMAIN after \ DOMAIN before,
      removed |-> DOMAIN before \ DOMAIN after,
      modified |-> {p \in DOMAIN after \cap DOMAIN before :
                      before[p] # NoHash /\ after[p] # NoHash /\ before[p] # after[p]}]

-----------------------------------------------------------------------------
(* Modules touched by the changes and those that depend on them directly.  *)
(* An artifact has its files, the owner of each path (module_for_path, see *)
(* ModuleMap) or 0, and the edges between modules.                         *)
Owners(artifact, paths) == {artifact.owner[p] : p \in paths} \ {0}

Touched(files, baseline, current) ==
  Owners(current, files.added \cup files.modified)
    \cup Owners(baseline, files.removed \cup files.modified)

ArchitectureImpact(baseline, current) ==
  LET files == FileChanges(baseline.files, current.files)
      touched == Touched(files, baseline, current)
  IN [touched |-> touched,
      dependents |-> {e[1] : e \in {e \in baseline.edges \cup current.edges :
                                      e[2] \in touched /\ e[1] \notin touched}},
      added |-> current.edges \ baseline.edges,
      removed |-> baseline.edges \ current.edges]

-----------------------------------------------------------------------------
(* The order of records decides nothing, and no duplicate hides a failure: *)
(* the policy fails exactly when some active finding reaches the threshold *)
(* and, for new ones only, no active finding of the baseline has its id.   *)
GateIgnoresOrder(current, baselines, failOn, newOnly) ==
  Failing(current, baselines, failOn, newOnly) # {} <=>
    /\ failOn > 0
    /\ \E f \in Records(current) :
         /\ ~f.suppressed /\ f.severity >= failOn
         /\ newOnly /\ baselines # <<>> =>
              \A g \in Records(Head(baselines)) : g.id = f.id => g.suppressed

(* What is introduced one way is what is resolved the other way, one       *)
(* record for each id, whichever comes first: no record of the same id is  *)
(* preferred to it.                                                        *)
ChangesAreSymmetric(current, baseline) ==
  LET new == Introduced(current, baseline) IN
  /\ new = Resolved(baseline, current)
  /\ Ids(new) = Ids({f \in Records(current) : ~f.suppressed})
                  \ Ids({f \in Records(baseline) : ~f.suppressed})
  /\ \A f \in new, g \in Records(current) :
       g.id = f.id /\ ~g.suppressed =>
         /\ g \in new => g = f
         /\ g.severity <= f.severity
         /\ g.severity = f.severity => f.text <= g.text

(* "A missing or conflicting hash is not evidence of modification"         *)
(* (ci.rs:174): a path is modified exactly when each artifact knows one    *)
(* hash of it, whatever the order of its records, and the two differ.      *)
FileChangesIgnoreOrder(baseline, current) ==
  LET Hashes(files, p) == {f.hash : f \in {f \in Records(files) : f.path = p}}
      changes == FileChanges(baseline, current)
      back == FileChanges(current, baseline)
      all == Records(baseline) \cup Records(current)
      paths == {f.path : f \in all}
      known == {f.hash : f \in all} \ {NoHash}
  IN /\ changes.added = back.removed /\ changes.removed = back.added
     /\ \A p \in paths :
          p \in changes.modified <=>
            \E h, k \in known : /\ h # k
                                /\ Hashes(baseline, p) = {h} /\ Hashes(current, p) = {k}

(* Swapping baseline and current swaps what was added and removed, and     *)
(* changes nothing about which modules are touched or depend on them.      *)
ImpactIsSymmetric(baseline, current) ==
  LET there == ArchitectureImpact(baseline, current)
      back == ArchitectureImpact(current, baseline)
  IN /\ there.touched = back.touched /\ there.dependents = back.dependents
     /\ there.added = back.removed /\ there.removed = back.added

-----------------------------------------------------------------------------
(* compare.rs *)
HasResults(status) == status \in {"analyzed", "partial"}

(* Repositories of one name are numbered. *)
Names(repos) ==
  LET Same(i) == {j \in DOMAIN repos : repos[j].name = repos[i].name} IN
  [i \in DOMAIN repos |->
     IF Cardinality(Same(i)) = 1 THEN repos[i].name
     ELSE Append(repos[i].name, Cardinality({j \in Same(i) : j <= i}))]

-----------------------------------------------------------------------------
(* Languages of some share, largest first. *)
Larger(shares, l, m) == shares[l] > shares[m] \/ (shares[l] = shares[m] /\ l < m)
OfShare(shares) == {l \in DOMAIN shares : shares[l] > 0}
Languages(shares) == SetToSortSeq(OfShare(shares), LAMBDA l, m : Larger(shares, l, m))

Combined(repos) ==
  LET all == UNION {OfShare(repos[i].shares) : i \in DOMAIN repos}
      Of(l, i) == IF l \in DOMAIN repos[i].shares THEN repos[i].shares[l] ELSE 0
  IN [l \in all |-> FoldLeft(LAMBDA sum, i : sum + Of(l, i), 0, [i \in DOMAIN repos |-> i])]

(* The first languages by combined share have the colors, in that order.   *)
Slots(combined) == SubSeq(Languages(combined), 1,
  IF NamedLanguages < Cardinality(DOMAIN combined) THEN NamedLanguages ELSE Cardinality(DOMAIN combined))

Bar(shares, slots) ==
  LET languages == Languages(shares)
      named == SelectSeq(languages, LAMBDA l : Contains(slots, l))
      others == SelectSeq(languages, LAMBDA l : ~Contains(slots, l))
      other == FoldLeft(LAMBDA sum, l : sum + shares[l], 0, others)
  IN [i \in DOMAIN named |->
        [language |-> <<named[i]>>, share |-> shares[named[i]], slot |-> <<SelectInSeq(slots, LAMBDA s : s = named[i])>>]]
       \o (IF other = 0 THEN <<>> ELSE << [language |-> <<>>, share |-> other, slot |-> <<>>] >>)

LanguageShares(repos) ==
  LET slots == Slots(Combined(repos)) IN [i \in DOMAIN repos |-> Bar(repos[i].shares, slots)]

-----------------------------------------------------------------------------
(* A measure has a value, <<n>>, of each repository where it is known.     *)
Valued(values) == {i \in DOMAIN values : values[i] # <<>>}
Highest(values) ==
  CHOOSE i \in Valued(values) : \A j \in Valued(values) :
    values[i][1] > values[j][1] \/ (values[i] = values[j] /\ i <= j)
Lowest(values) ==
  CHOOSE i \in Valued(values) : \A j \in Valued(values) :
    values[i][1] < values[j][1] \/ (values[i] = values[j] /\ i <= j)

Observe(values) ==
  IF Cardinality(Valued(values)) < 2 THEN <<>>
  ELSE LET max == Highest(values)
           min == Lowest(values)
           Says(kind) == <<[kind |-> kind, highest |-> max, lowest |-> min]>>
       IN IF values[max] = values[min] THEN Says("same")
          ELSE IF Cardinality(Valued(values)) = 2 /\ values[min][1] > 0 THEN Says("ratio")
          ELSE Says("extremes")

(* What is compared of the sections: nothing is taken of one without results. *)
Measured(repos, section) ==
  [i \in DOMAIN repos |->
     IF HasResults(repos[i].sections[section].status) THEN <<repos[i].sections[section].value>> ELSE <<>>]
Always(repos) == [i \in DOMAIN repos |-> <<repos[i].code>>]

Rows(repos) ==
  [measure \in {"architecture", "dependencies", "git", "tests", "docs", "quality"} |-> Measured(repos, measure)]
    @@ [measure \in {"code", "files"} |-> Always(repos)]
Observations(repos) ==
  [measure \in {"architecture", "dependencies", "git"} |-> Observe(Measured(repos, measure))]
    @@ [measure \in {"code"} |-> Observe(Always(repos))]

(* Every dimension that some repository has, in the order they appear.     *)
DimensionRows(repos) ==
  LET AddAll(ids, repo) ==
        FoldLeft(LAMBDA s, d : IF Contains(s, d.id) THEN s ELSE Append(s, d.id), ids, repo.dimensions)
      ids == FoldLeft(AddAll, <<>>, repos)
      Of(repo, id) == SelectSeq(repo.dimensions, LAMBDA d : d.id = id)
      Shown(found) == IF found # <<>> /\ found[1].measured THEN <<found[1].value>> ELSE <<>>
  IN [k \in DOMAIN ids |-> [id |-> ids[k], values |-> [i \in DOMAIN repos |-> Shown(Of(repos[i], ids[k]))]]]

Compare(repos) ==
  [names |-> Names(repos), rows |-> Rows(repos), fingerprint |-> DimensionRows(repos),
   observations |-> Observations(repos), languages |-> LanguageShares(repos)]

-----------------------------------------------------------------------------
(* "The comparison describes differences with evidence": who is said to    *)
(* have the most or the least has it, among those that have the measure at *)
(* all; "a language keeps its color in every repository's bar", no two     *)
(* share one, and a bar has all the shares; what was not analyzed is never *)
(* a value; and names tell the repositories apart, unless one is called as *)
(* another is numbered.                                                    *)
AreDescribed(repos, is) ==
  LET Slot(i, l) == {b.slot : b \in {b \in ToSet(is.languages[i]) : b.language = <<l>>}}
      Total(s) == FoldLeft(LAMBDA sum, b : sum + b.share, 0, s)
      all == UNION {DOMAIN repos[i].shares : i \in DOMAIN repos}
      combined == Combined(repos)
      Given(i, id) == \E d \in ToSet(repos[i].dimensions) : d.id = id /\ d.measured
  IN /\ \A i, j \in DOMAIN repos : i # j /\ is.names[i] = is.names[j] =>
          \E k \in {i, j} : Len(repos[k].name) = 2
     /\ \A i, j \in DOMAIN repos : i # j /\ repos[i].name = repos[j].name => is.names[i] # is.names[j]
     /\ \A i, j \in DOMAIN repos : \A l, m \in all :
          Slot(i, l) \cap Slot(j, m) # {} => l = m
     /\ \A l \in all : Cardinality(UNION {Slot(i, l) : i \in DOMAIN repos}) <= 1
     /\ \A i \in DOMAIN repos :
          Total(is.languages[i]) = FoldLeft(LAMBDA sum, l : sum + repos[i].shares[l], 0, Languages(repos[i].shares))
     /\ \A i, j \in DOMAIN repos : \A l \in OfShare(repos[i].shares), m \in OfShare(repos[j].shares) :
          Slot(i, l) # {} /\ Slot(j, m) = {} => combined[l] >= combined[m]
     /\ \A measure \in DOMAIN is.observations : is.observations[measure] # <<>> =>
          LET said == is.observations[measure][1]
              values == is.rows[measure]
          IN /\ values[said.highest] # <<>> /\ values[said.lowest] # <<>>
             /\ \A i \in Valued(values) : values[i][1] \in values[said.lowest][1]..values[said.highest][1]
             /\ said.kind = "same" <=> \A i, j \in Valued(values) : values[i] = values[j]
             /\ said.kind = "ratio" => Valued(values) = {said.highest, said.lowest}
     /\ \A measure \in DOMAIN is.rows \ {"code", "files"} : \A i \in DOMAIN repos :
          is.rows[measure][i] = <<>> <=> ~HasResults(repos[i].sections[measure].status)
     /\ \A row \in ToSet(is.fingerprint) : \A i \in DOMAIN repos : row.values[i] # <<>> <=> Given(i, row.id)
     /\ \A i \in DOMAIN repos : \A d \in ToSet(repos[i].dimensions) :
          Cardinality({k \in DOMAIN is.fingerprint : is.fingerprint[k].id = d.id}) = 1
RepositoriesAreCompared(repos) == AreDescribed(repos, Compare(repos))
=============================================================================
