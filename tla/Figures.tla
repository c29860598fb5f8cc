------------------------------ MODULE Figures ------------------------------
(***************************************************************************)
(* The numbers behind the figures of a report, and what leaves it in other *)
(* forms: shares of languages and the rungs of the card, scales and labels *)
(* of charts, commits by day, month, quarter or year, badges, results in   *)
(* SARIF, and the artifact under a privacy preset. Where something is      *)
(* drawn in pixels is left out. Shares are whole numbers, dates days or    *)
(* months counted from one day.                                            *)
(***************************************************************************)
EXTENDS Integers, FiniteSets, Sequences, SequencesExt, FiniteSetsExt, Functions

SumOf(s) == FoldLeft(LAMBDA a, b : a + b, 0, s)
CeilDiv(a, b) == (a + b - 1) \div b

-----------------------------------------------------------------------------
(* Shares, largest first: the named ones, and one for all others.          *)
Folded(shares, named) ==
  LET other == SumOf(SubSeq(shares, named + 1, Len(shares))) IN
  SubSeq(shares, 1, IF named < Len(shares) THEN named ELSE Len(shares)) \o (IF other > 0 THEN <<other>> ELSE <<>>)

(* The rungs of the card: whole parts, then one each to the largest        *)
(* remainders, the earlier first.                                          *)
Allocate(shares, count) ==
  LET total == SumOf(shares) IN
  IF total <= 0 THEN [i \in DOMAIN shares |-> 0]
  ELSE LET floors == [i \in DOMAIN shares |-> (shares[i] * count) \div total]
           rest == [i \in DOMAIN shares |-> (shares[i] * count) % total]
           Before(i, j) == rest[i] > rest[j] \/ (rest[i] = rest[j] /\ i < j)
           remaining == count - SumOf(floors)
       IN [i \in DOMAIN shares |->
             floors[i] + (IF Cardinality({j \in DOMAIN shares : Before(j, i)}) < remaining THEN 1 ELSE 0)]

(* Every rung has a language, and no language is more than one away from   *)
(* its share.                                                              *)
RungsAreShares(shares, named, count) ==
  LET folded == Folded(shares, named)
      rungs == Allocate(folded, count)
      total == SumOf(shares)
  IN /\ SumOf(folded) = total
     /\ Len(folded) <= named + 1
     /\ SumOf(rungs) = IF total = 0 THEN 0 ELSE count
     /\ \A i \in DOMAIN folded :
          total > 0 => /\ rungs[i] * total < folded[i] * count + total
                       /\ rungs[i] * total > folded[i] * count - total
     /\ \A i, j \in DOMAIN folded : folded[i] > folded[j] => rungs[i] >= rungs[j]

-----------------------------------------------------------------------------
(* An axis up to max, in hundredths: its step is a power of ten, twice or  *)
(* five times one, and there are about four of them.                       *)
Powers == {1, 10, 100, 1000, 10000, 100000, 1000000}
NiceScale(max) ==
  IF max <= 0 THEN [step |-> 100, top |-> 100]
  ELSE LET magnitude == Max({p \in Powers : 4 * p <= max})
           step == magnitude * (CASE max <= 4 * magnitude -> 1
                                  [] max > 4 * magnitude /\ max <= 8 * magnitude -> 2
                                  [] max > 8 * magnitude /\ max <= 20 * magnitude -> 5
                                  [] OTHER -> 10)
       IN [step |-> step, top |-> CeilDiv(max, step) * step]
Ticks(scale) == {t \in {k * scale.step : k \in 0..20} : t <= scale.top + scale.step \div 2}

(* The seven shades of the heatmap, and which columns have a label.        *)
Shade(count, max) == IF count = 0 THEN 0 ELSE Max({1, Min({6, CeilDiv(6 * count, max)})})
Labelled(n) == {i \in 0 .. n - 1 : i % Max({1, CeilDiv(n, 8)}) = 0}

(* The five moments an axis names.                                         *)
Moments(first, last) == [i \in 1..5 |-> first + ((last - first) * (i - 1)) \div 4]

ChartsAreReadable(max, n) ==
  LET scale == NiceScale(100 * max)
      ticks == Ticks(scale)
  IN /\ scale.top >= 100 * max /\ (max > 0 => scale.top - scale.step < 100 * max)
     /\ {0, scale.top} \subseteq ticks
     /\ max > 0 => Cardinality(ticks) \in 3..5
     /\ \A a, b \in 0..n : a <= b => Shade(a, n) <= Shade(b, n)
     /\ n > 0 => Shade(n, n) = 6 /\ \A a \in 1..n : Shade(a, n) \in 1..6
     /\ Cardinality(Labelled(n)) <= 8 /\ (n > 0 => 0 \in Labelled(n))
     /\ n <= 8 => Labelled(n) = 0 .. n - 1
     /\ Moments(0, n)[1] = 0 /\ Moments(0, n)[5] = n
     /\ \A i \in 1..4 : Moments(0, n)[i] <= Moments(0, n)[i + 1]

(* Bands and dots need a span.                                             *)
SpanOf(periods, events) ==
  LET starts == {p[1] : p \in periods} \cup events
      ends == {p[2] : p \in periods} \cup events
  IN IF starts = {} THEN <<>> ELSE IF Max(ends) <= Min(starts) THEN <<>> ELSE <<Min(starts), Max(ends)>>

(* Every band and dot is within the axis.                                  *)
BandsFit(periods, events) ==
  LET span == SpanOf(periods, events) IN
  IF span = <<>> THEN Cardinality(events \cup {p[1] : p \in periods} \cup {p[2] : p \in periods}) <= 1
  ELSE /\ span[1] < span[2]
       /\ \A p \in periods : span[1] <= p[1] /\ p[2] <= span[2]
       /\ \A e \in events : e \in span[1]..span[2]

(* Modules in rows by layer, in the order of their labels; a dependency is *)
(* drawn when both its ends are.                                           *)
Rows(nodes) ==
  [layer \in {n.layer : n \in nodes} |->
     SetToSortSeq({n \in nodes : n.layer = layer}, LAMBDA a, b : a.label < b.label \/ (a.label = b.label /\ a.id < b.id))]
Place(nodes, id) ==
  LET node == CHOOSE n \in nodes : n.id = id
      row == Rows(nodes)[node.layer]
  IN [y |-> Max({n.layer : n \in nodes}) - node.layer, slot |-> CHOOSE i \in DOMAIN row : row[i] = node]
DrawnEdges(nodes, edges) == {e \in edges : \A end \in {e[1], e[2]} : end \in {n.id : n \in nodes}}

(* No two modules share a place, and who depends on a lower layer is above *)
(* it.                                                                     *)
DiagramIsReadable(nodes, edges) ==
  /\ \A a, b \in nodes : Place(nodes, a.id) = Place(nodes, b.id) => a = b
  /\ \A e \in DrawnEdges(nodes, edges) :
       LET from == CHOOSE n \in nodes : n.id = e[1]
           to == CHOOSE n \in nodes : n.id = e[2]
       IN from.layer > to.layer => Place(nodes, from.id).y < Place(nodes, to.id).y

-----------------------------------------------------------------------------
(* Commits by day, for a history of less than three months and at most     *)
(* MaxDailySpan days; by month, quarter or year otherwise. Buckets of the  *)
(* timeline are months counted from a January; only those with commits     *)
(* need be there.                                                          *)
Daily(days, maxDailySpan) ==
  IF DOMAIN days = {} THEN <<>>
  ELSE LET first == Min(DOMAIN days)
           span == Max(DOMAIN days) - first + 1
       IN IF span > maxDailySpan THEN <<>>
          ELSE <<[k \in 1..span |-> IF first + k - 1 \in DOMAIN days THEN days[first + k - 1] ELSE 0]>>

PeriodFor(buckets) == IF buckets <= 48 THEN "month" ELSE IF buckets <= 144 THEN "quarter" ELSE "year"
KeyOf(month, period) == CASE period = "month" -> month [] period = "quarter" -> month \div 3 [] OTHER -> month \div 12
Aggregate(timeline) ==
  LET period == PeriodFor(Cardinality(DOMAIN timeline))
      months(key) == {m \in DOMAIN timeline : KeyOf(m, period) = key}
  IN [key \in {KeyOf(m, period) : m \in DOMAIN timeline} |-> MapThenSumSet(LAMBDA m : timeline[m], months(key))]
Points(timeline, days, maxDailySpan) ==
  LET daily == IF Cardinality(DOMAIN timeline) < 3 THEN Daily(days, maxDailySpan) ELSE <<>> IN
  IF daily # <<>> THEN daily[1] ELSE Aggregate(timeline)

(* No commit is lost or counted twice, columns follow each other as time   *)
(* does, and a continuous timeline has never more of them than can be told *)
(* apart, unless it covers lifetimes.                                      *)
CommitsAreKept(timeline, days, maxDailySpan) ==
  LET points == Points(timeline, days, maxDailySpan)
      period == PeriodFor(Cardinality(DOMAIN timeline))
  IN
  /\ \A a, b \in DOMAIN timeline : a <= b => KeyOf(a, period) <= KeyOf(b, period)
  /\ FoldFunction(LAMBDA a, b : a + b, 0, points) = FoldFunction(LAMBDA a, b : a + b, 0, timeline)
  /\ Cardinality(DOMAIN points) <= Max({49, maxDailySpan}) \/ Cardinality(DOMAIN timeline) > 49 * 12

-----------------------------------------------------------------------------
(* A badge shows what was measured, or that it was not.                    *)
Badge(kind, fact) ==
  CASE kind = "languages" -> IF fact = <<>> THEN "none detected" ELSE "named"
    [] kind = "tests" -> IF fact = <<>> THEN "not analyzed" ELSE IF fact[1] = 0 THEN "not detected" ELSE "detected"
    [] OTHER -> IF fact = <<>> THEN "not analyzed" ELSE "named"
BadgesAreTrue(kind, fact) ==
  /\ fact = <<>> <=> Badge(kind, fact) \in {"not analyzed", "none detected"}
  /\ Badge(kind, fact) = "detected" => fact[1] > 0

-----------------------------------------------------------------------------
(* SARIF: active findings with a place in a file. A place is a path that   *)
(* is safe or not, and a line, 0 when there is none.                       *)
Info == 1
Attention == 2
Warning == 3
Critical == 4
LevelOf(severity) == CASE severity = Critical -> "error" [] severity = Warning -> "warning" [] OTHER -> "note"

SourceLocation(finding) ==
  LET evidence == SelectSeq(finding.evidence, LAMBDA e : e.kind \in {"file", "symbol", "edge"} /\ e.path.safe)
      paths == SelectSeq(finding.paths, LAMBDA p : p.safe)
  IN IF evidence # <<>> THEN <<[path |-> evidence[1].path, line |-> evidence[1].line]>>
     ELSE IF paths # <<>> THEN <<[path |-> paths[1], line |-> 0]>> ELSE <<>>

Sarif(findings, introduced) ==
  LET allowed(f) == introduced = <<>> \/ f.id \in introduced[1]
      kept == SelectSeq(findings, LAMBDA f : ~f.suppressed /\ f.rule # "" /\ allowed(f))
      Less(i, j) == \/ kept[i].severity > kept[j].severity
                    \/ kept[i].severity = kept[j].severity /\ kept[i].id < kept[j].id
                    \/ kept[i].severity = kept[j].severity /\ kept[i].id = kept[j].id /\ i < j
      order == SetToSortSeq(DOMAIN kept, Less)
      first == SelectSeq(order, LAMBDA i : \A j \in DOMAIN kept : kept[j].id = kept[i].id => i = j \/ Less(i, j))
      located == SelectSeq(first, LAMBDA i : SourceLocation(kept[i]) # <<>>)
  IN [k \in DOMAIN located |->
        LET f == kept[located[k]] IN
        [id |-> f.id, rule |-> f.rule, level |-> LevelOf(f.severity), at |-> SourceLocation(f)[1]]]

Rank == [note |-> 1, warning |-> 2, error |-> 3]
SarifIsSound(findings, introduced) ==
  LET results == Sarif(findings, introduced) IN
  /\ \A i, j \in DOMAIN results : i < j => results[i].id # results[j].id /\ Rank[results[i].level] >= Rank[results[j].level]
  /\ \A i \in DOMAIN results :
       /\ results[i].at.path.safe
       /\ introduced # <<>> => results[i].id \in introduced[1]
       /\ \E f \in Range(findings) :
            /\ f.id = results[i].id /\ f.rule = results[i].rule /\ ~f.suppressed
            /\ \/ results[i].at.path \in Range(f.paths)
               \/ \E e \in Range(f.evidence) : e.path = results[i].at.path /\ e.line = results[i].at.line
  /\ \A f \in Range(findings) :
       ~f.suppressed /\ f.rule # "" /\ (introduced = <<>> \/ f.id \in introduced[1])
         /\ (\A g \in Range(findings) : g.id = f.id => \E p \in Range(g.paths) : p.safe) =>
           \E i \in DOMAIN results : results[i].id = f.id

-----------------------------------------------------------------------------
(* Privacy presets. Of the artifact, what they touch.                      *)
Redact(dna, what) == [dna EXCEPT !.redactions = @ \cup {what}]
Share(dna) ==
  LET cleared == [dna EXCEPT !.commits = [i \in DOMAIN @ |-> [@[i] EXCEPT !.subject = ""]],
                             !.markers = FALSE, !.outputs = FALSE] IN
  Redact(Redact(Redact(cleared, "messages"), "markers"), "outputs")
Pseudonym(i) == <<"contributor", i>>
Stranger == <<"contributor", 0>>
Public(dna) ==
  LET positions(author) == {i \in DOMAIN dna.contributors : dna.contributors[i] = author}
      named == [dna EXCEPT
        !.contributors = [i \in DOMAIN @ |-> Pseudonym(i)],
        !.commits = [i \in DOMAIN @ |->
           [@[i] EXCEPT !.author = IF positions(@) = {} THEN Stranger ELSE Pseudonym(Max(positions(@)))]],
        !.remotes = FALSE, !.symbols = FALSE, !.functions = FALSE]
  IN Redact(Redact(Redact(named, "contributors"), "remotes"), "symbols")
ApplyPrivacy(dna, preset) ==
  [(CASE preset = "local" -> dna [] preset = "share" -> Share(dna) [] OTHER -> Public(Share(dna)))
     EXCEPT !.preset = preset]

Removed(dna, applied) ==
  {what \in {"markers", "outputs", "remotes", "symbols", "functions"} : dna[what] /\ ~applied[what]} \cup
  (IF \E i \in DOMAIN dna.commits : dna.commits[i].subject # applied.commits[i].subject THEN {"messages"} ELSE {}) \cup
  (IF Range(applied.contributors) # Range(dna.contributors) THEN {"contributors"} ELSE {})
Presets == <<"local", "share", "public">>

(* The same history with other texts, and by other people.                 *)
OtherTexts(dna) ==
  [dna EXCEPT !.commits = [i \in DOMAIN @ |-> [@[i] EXCEPT !.subject = "other"]],
              !.markers = ~@, !.outputs = ~@]
OtherPeople(dna) ==
  [dna EXCEPT !.commits = [i \in DOMAIN @ |-> [@[i] EXCEPT !.author = <<"other", @[2]>>]],
              !.contributors = [i \in DOMAIN @ |-> <<"other", @[i][2]>>],
              !.remotes = ~@, !.symbols = ~@, !.functions = ~@]

(* What a preset removes cannot be told from what it leaves: histories     *)
(* that differ in nothing else are the same afterwards. A stricter preset  *)
(* removes all that a looser one does; each removal is said; applying it   *)
(* twice is applying it once; which commits are by one person can still be *)
(* seen.                                                                   *)
PrivacyIsKept(dna) ==
  /\ \A preset \in {"share", "public"} :
       ApplyPrivacy(dna, preset) = ApplyPrivacy(OtherTexts(dna), preset)
  /\ ApplyPrivacy(dna, "public") = ApplyPrivacy(OtherPeople(dna), "public")
  /\ \A i, j \in 1..3 : i <= j =>
       Removed(dna, ApplyPrivacy(dna, Presets[i])) \subseteq Removed(dna, ApplyPrivacy(dna, Presets[j]))
  /\ \A preset \in Range(Presets) :
       LET applied == ApplyPrivacy(dna, preset) IN
       /\ ApplyPrivacy(applied, preset) = applied
       /\ {IF what = "functions" THEN "symbols" ELSE what : what \in Removed(dna, applied)} \subseteq applied.redactions
       /\ Len(applied.commits) = Len(dna.commits)
  /\ LET public == ApplyPrivacy(dna, "public") IN
     /\ \A i \in DOMAIN public.commits :
          public.commits[i].author \in Range(public.contributors) \cup {Stranger}
     /\ \A i, j \in DOMAIN dna.commits :
          {dna.commits[i].author, dna.commits[j].author} \subseteq Range(dna.contributors) =>
            (dna.commits[i].author = dna.commits[j].author <=> public.commits[i].author = public.commits[j].author)
=============================================================================
