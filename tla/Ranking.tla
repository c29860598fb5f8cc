------------------------------ MODULE Ranking ------------------------------
(***************************************************************************)
(* repodna_ai::ranking: what the labels of the evidence ranker must be,    *)
(* how they are split, paired and ordered for training, and the measures   *)
(* of an order of evidence that are taken of them.                         *)
(*                                                                         *)
(* A label is a record of a repository, as it is written, a question, the  *)
(* identifier and the kind of the evidence, whether it has a detail, is    *)
(* relevant and was reviewed, and the score the model gives it. Scores are *)
(* in tenths, measures in fractions of One; what features and weights make *)
(* of a text is the score, and the loss in logarithms is left out.         *)
(***************************************************************************)
EXTENDS Integers, FiniteSets, Sequences, SequencesExt, FiniteSetsExt

CONSTANTS
  Canonical,    \* of a repository as written: the normalized one, 0 if it is blank
  Discount,     \* of a position: One divided by the logarithm of the next
  MaxPairs,     \* MAX_PAIRS_PER_GROUP
  MaxExamples   \* MAX_EXAMPLES

One == 60000
Blank == 0
Bins == 10
Few(a, b) == IF a < b THEN a ELSE b
Many(a, b) == IF a > b THEN a ELSE b
Size(x) == IF x < 0 THEN -x ELSE x

-----------------------------------------------------------------------------
(* validate_evidence_ids, group_holdout, validate_repository_split.        *)
KeyOf(label) == <<Canonical[label.repository], label.query, label.id>>
Complete(label) == Canonical[label.repository] # Blank /\ label.query # Blank /\ label.detailed

EvidenceIdsAreValid(labels) ==
  /\ \A i \in DOMAIN labels : labels[i].id # Blank /\ labels[i].kind # "excerpt"
  /\ Cardinality({KeyOf(labels[i]) : i \in DOMAIN labels}) = Len(labels)

GroupOf(label) == <<Canonical[label.repository], label.query>>
Groups(labels) == {GroupOf(labels[i]) : i \in DOMAIN labels}
Members(labels, group) == SelectSeq(labels, LAMBDA l : GroupOf(l) = group)
HoldoutIsValid(labels) ==
  labels # <<>> /\ EvidenceIdsAreValid(labels) /\ \A i \in DOMAIN labels : Complete(labels[i])

RepositoriesOf(labels) == {Canonical[labels[i].repository] : i \in DOMAIN labels}
SplitIsValid(train, test) ==
  /\ train # <<>> /\ test # <<>>
  /\ \A i \in DOMAIN (train \o test) : Complete((train \o test)[i])
  /\ \A i \in DOMAIN test : Canonical[test[i].repository] \notin RepositoriesOf(train)
  /\ EvidenceIdsAreValid(train) /\ EvidenceIdsAreValid(test)

(* families.rs: `owner` is the last split that a family was met in.        *)
FamiliesAreValid(splits, manifest) ==
  LET family == [r \in {Canonical[manifest[i].repository] : i \in DOMAIN manifest} |->
                   (CHOOSE i \in DOMAIN manifest : Canonical[manifest[i].repository] = r)]
      FamilyOf(r) == manifest[family[r]].family
      Meet(seen, l) ==
        LET r == Canonical[l[1].repository] IN
        IF ~seen.valid \/ r \notin DOMAIN family THEN [seen EXCEPT !.valid = FALSE]
        ELSE [valid |-> seen.owner[FamilyOf(r)] \in {0, l[2]}, used |-> seen.used \cup {r},
              owner |-> [seen.owner EXCEPT ![FamilyOf(r)] = l[2]]]
      At(split) == [i \in DOMAIN splits[split] |-> <<splits[split][i], split>>]
      none == [valid |-> TRUE, used |-> {}, owner |-> [f \in {manifest[i].family : i \in DOMAIN manifest} |-> 0]]
      met == FoldLeft(Meet, none, At(1) \o At(2) \o At(3))
  IN /\ SplitIsValid(splits[1], splits[2]) /\ SplitIsValid(splits[1], splits[3])
     /\ SplitIsValid(splits[2], splits[3])
     /\ manifest # <<>>
     /\ \A i \in DOMAIN manifest :
          /\ Canonical[manifest[i].repository] # Blank /\ manifest[i].family # Blank
          /\ \A j \in 1..(i - 1) : Canonical[manifest[j].repository] # Canonical[manifest[i].repository]
     /\ met.valid /\ met.used = DOMAIN family

(* annotation.rs: excerpts are left out of what is to be reviewed, and no  *)
(* label is made up.                                                       *)
Template(items) ==
  LET kept == SelectSeq(items, LAMBDA e : e.kind # "excerpt") IN
  [i \in DOMAIN kept |-> [kept[i] EXCEPT !.reviewed = FALSE]]
ReviewIsComplete(labels) ==
  /\ HoldoutIsValid(labels)
  /\ \A i \in DOMAIN labels : labels[i].reviewed

-----------------------------------------------------------------------------
(* Training reads the labels in an order of its own, or pairs those of one *)
(* question: in a second round the irrelevant ones are shifted by one.     *)
TrainingIsValid(labels) ==
  /\ Len(labels) \in 2..MaxExamples
  /\ {labels[i].relevant : i \in DOMAIN labels} = BOOLEAN
  /\ \A i \in DOMAIN labels : Complete(labels[i])
  /\ EvidenceIdsAreValid(labels)

PointwiseOrder(labels) ==
  LET Before(a, b) ==
        \/ a.repository < b.repository
        \/ a.repository = b.repository /\ (a.query < b.query \/ (a.query = b.query /\ a.id < b.id))
  IN SortSeq(labels, Before)

PairTrainingIsValid(labels) ==
  /\ TrainingIsValid(labels)
  /\ \E i, j \in DOMAIN labels :
        labels[i].relevant /\ ~labels[j].relevant /\ GroupOf(labels[i]) = GroupOf(labels[j])

PairsOf(members) ==
  LET ByIds(wanted) == SortSeq(SelectSeq(members, LAMBDA l : l.relevant = wanted), LAMBDA a, b : a.id < b.id)
      positives == ByIds(TRUE)
      negatives == ByIds(FALSE)
      cycle == Many(Len(positives), Len(negatives))
      Of(i) == <<positives[(i % Len(positives)) + 1], negatives[((i + i \div cycle) % Len(negatives)) + 1]>>
  IN IF positives = <<>> \/ negatives = <<>> THEN <<>>
     ELSE [i \in 1..Few(2 * cycle, MaxPairs) |-> Of(i - 1)]

-----------------------------------------------------------------------------
(* rank_indices and evaluate_retrieval_inner: best first, as given if the  *)
(* scores are equal or there is no model.                                  *)
Ranked(members, learned) ==
  LET Before(i, j) ==
        IF learned /\ members[i].score # members[j].score THEN members[i].score > members[j].score ELSE i < j
      order == SetToSortSeq(DOMAIN members, Before)
  IN [i \in DOMAIN members |-> members[order[i]]]

RelevantIn(members) == {i \in DOMAIN members : members[i].relevant}
Sum(S, Of(_)) == MapThenSumSet(Of, S)

MeasuredIn(order, k) ==
  LET relevant == RelevantIn(order)
      found == {i \in relevant : i <= k}
      ideal == Sum(1..Few(Cardinality(relevant), k), LAMBDA i : Discount[i])
  IN [mrr |-> One \div Min(relevant), precision |-> (One * Cardinality(found)) \div k,
      recall |-> (One * Cardinality(found)) \div Cardinality(relevant),
      ndcg |-> (1000 * Sum(found, LAMBDA i : Discount[i])) \div ideal]
Measured(members, k, learned) == MeasuredIn(Ranked(members, learned), k)

Answerable(labels) == {g \in Groups(labels) : RelevantIn(Members(labels, g)) # {}}
Averages(measured, total) ==
  LET n == Cardinality(DOMAIN measured)
      Mean(Of(_)) == Sum(DOMAIN measured, LAMBDA g : Of(measured[g])) \div Many(n, 1)
  IN [total |-> total, evaluated |-> n, unanswerable |-> total - n,
      mrr |-> Mean(LAMBDA m : m.mrr), precision |-> Mean(LAMBDA m : m.precision),
      recall |-> Mean(LAMBDA m : m.recall), ndcg |-> Mean(LAMBDA m : m.ndcg)]
Retrieval(labels, k, learned) ==
  Averages([g \in Answerable(labels) |-> Measured(Members(labels, g), k, learned)], Cardinality(Groups(labels)))

(* Each repository has one voice, whatever the number of its questions.    *)
LabelsOf(labels, r) == SelectSeq(labels, LAMBDA l : Canonical[l.repository] = r)
ByRepository(labels, k) ==
  LET voices == {r \in RepositoriesOf(labels) : Answerable(LabelsOf(labels, r)) # {}} IN
  [r \in voices |-> [learned |-> Retrieval(LabelsOf(labels, r), k, TRUE).ndcg,
                     given |-> Retrieval(LabelsOf(labels, r), k, FALSE).ndcg]]

Fairly(each, repositories) ==
  LET n == Many(Cardinality(DOMAIN each), 1) IN
     [repositories |-> repositories, evaluated |-> Cardinality(DOMAIN each),
      ndcg |-> Sum(DOMAIN each, LAMBDA r : each[r].learned) \div n,
      original |-> Sum(DOMAIN each, LAMBDA r : each[r].given) \div n]
Balanced(labels, k) == Fairly(ByRepository(labels, k), Cardinality(RepositoriesOf(labels)))

Spread(each, repositories) ==
  LET n == Cardinality(DOMAIN each)
      Delta(r) == each[r].learned - each[r].given
      total == Sum(DOMAIN each, LAMBDA r : each[r].learned)
      Ends(S) == IF S = {} THEN <<>> ELSE <<Min(S), Max(S)>>
  IN [repositories |-> repositories, evaluated |-> n,
      ndcg |-> Ends({each[r].learned : r \in DOMAIN each}),
      delta |-> Ends({Delta(r) : r \in DOMAIN each}),
      improved |-> Cardinality({r \in DOMAIN each : Delta(r) > 0}),
      regressed |-> Cardinality({r \in DOMAIN each : Delta(r) < 0}),
      unchanged |-> Cardinality({r \in DOMAIN each : Delta(r) = 0}),
      without |-> IF n < 2 THEN <<>> ELSE Ends({(total - each[r].learned) \div (n - 1) : r \in DOMAIN each})]
Stability(labels, k) == Spread(ByRepository(labels, k), Cardinality(RepositoriesOf(labels)))

-----------------------------------------------------------------------------
(* What a threshold of the scores would answer, one at a time and several. *)
Tally(labels, Predicted(_)) ==
  LET Count(answerable, predicted) ==
        Cardinality({g \in Groups(labels) : /\ (g \in Answerable(labels)) = answerable
                                            /\ Predicted(Members(labels, g)) = predicted})
  IN [truePositive |-> Count(TRUE, TRUE), falseNegative |-> Count(TRUE, FALSE),
      falsePositive |-> Count(FALSE, TRUE), trueNegative |-> Count(FALSE, FALSE)]

Answerability(labels, threshold) ==
  Tally(labels, LAMBDA members : \E i \in DOMAIN members : members[i].score >= threshold)

Sweep(labels, thresholds) ==
  LET Highest(members) == Max({members[i].score : i \in DOMAIN members}) IN
  [t \in DOMAIN thresholds |-> Tally(labels, LAMBDA members : Highest(members) >= thresholds[t])]

Classified(labels) ==
  LET Count(yes, relevant) ==
        Cardinality({i \in DOMAIN labels : (labels[i].score >= 5) = yes /\ labels[i].relevant = relevant})
  IN [truePositives |-> Count(TRUE, TRUE), falsePositives |-> Count(TRUE, FALSE),
      falseNegatives |-> Count(FALSE, TRUE), correct |-> Count(TRUE, TRUE) + Count(FALSE, FALSE)]

(* evaluate_pair_ordering looks each relevant score up in the sorted       *)
(* irrelevant ones of its question.                                        *)
PairOrdering(labels) ==
  LET ScoresOf(g, wanted) == SelectSeq(Members(labels, g), LAMBDA l : l.relevant = wanted)
      comparable == {g \in Groups(labels) : ScoresOf(g, TRUE) # <<>> /\ ScoresOf(g, FALSE) # <<>>}
      Negatives(g) == SortSeq(ScoresOf(g, FALSE), LAMBDA a, b : a.score < b.score)
      Below(sorted, score) == Cardinality({i \in DOMAIN sorted : sorted[i].score < score})
      AtMost(sorted, score) == Cardinality({i \in DOMAIN sorted : sorted[i].score <= score})
      Over(Of(_, _)) ==
        Sum(comparable, LAMBDA g : LET positives == ScoresOf(g, TRUE) IN
              Sum(DOMAIN positives, LAMBDA i : Of(Negatives(g), positives[i].score)))
      total == Sum(comparable, LAMBDA g : Len(ScoresOf(g, TRUE)) * Len(ScoresOf(g, FALSE)))
      above == Over(Below)
      tied == Over(LAMBDA sorted, score : AtMost(sorted, score) - Below(sorted, score))
  IN [evaluated |-> Cardinality(comparable), pairs |-> total,
      above |-> above, tied |-> tied, below |-> total - above - tied]

(* Bands of the scores: the last one takes the highest score in. The       *)
(* errors are totals, in tenths and in hundredths.                         *)
Scores(labels) ==
  LET InBin(b) == {i \in DOMAIN labels : Few(labels[i].score, Bins - 1) = b}
      Relevant(S) == Cardinality({i \in S : labels[i].relevant})
      ScoreOf(S) == Sum(S, LAMBDA i : labels[i].score)
      bins == {b \in 0..(Bins - 1) : InBin(b) # {}}
      Error(i) == labels[i].score - (IF labels[i].relevant THEN 10 ELSE 0)
  IN [bins |-> [b \in bins |-> [samples |-> Cardinality(InBin(b)), relevant |-> Relevant(InBin(b)),
                                 score |-> ScoreOf(InBin(b))]],
      brier |-> Sum(DOMAIN labels, LAMBDA i : Error(i) * Error(i)),
      calibration |-> Sum(bins, LAMBDA b : Size(ScoreOf(InBin(b)) - 10 * Relevant(InBin(b))))]

-----------------------------------------------------------------------------
(* What is measured of an order of evidence is what its name says: more    *)
(* places never find less, the gain is whole exactly if the relevant ones  *)
(* come first, and a model that never puts an irrelevant one of a question *)
(* level with or before a relevant one has a whole gain; a sweep is its    *)
(* thresholds taken one by one, and a higher one answers less; pairs are   *)
(* all pairs; bands do not count below the whole's error or above each     *)
(* one's; questions without an answer count for nothing; repositories      *)
(* weigh the same, and leaving one out brackets the whole.                 *)
GainIsOfTheFirst(labels, k, one, wider) ==
  /\ one.recall <= wider.recall /\ one.mrr \in 0..One /\ one.recall \in 0..One /\ one.ndcg \in 0..1000
  /\ \A g \in Answerable(labels) : \E members \in {Ranked(Members(labels, g), TRUE)} :
       (MeasuredIn(members, k).ndcg = 1000) =
         (1..Few(k, Cardinality(RelevantIn(members))) \subseteq RelevantIn(members))
PairsAreAll(labels, k, sorted) ==
  LET rivals == {p \in (DOMAIN labels) \X (DOMAIN labels) :
                   /\ labels[p[1]].relevant /\ ~labels[p[2]].relevant
                   /\ GroupOf(labels[p[1]]) = GroupOf(labels[p[2]])}
  IN /\ sorted.pairs = Cardinality(rivals)
     /\ sorted.below = Cardinality({p \in rivals : labels[p[1]].score < labels[p[2]].score})
     /\ sorted.above = sorted.pairs => \A g \in Answerable(labels) : Measured(Members(labels, g), k, TRUE).ndcg = 1000
SweepIsOfEach(labels, one, sweep) ==
  /\ \A t \in 1..4 : sweep[t] = Answerability(labels, <<0, 4, 5, 6>>[t])
  /\ \A t \in 2..4 : /\ sweep[t].truePositive <= sweep[t - 1].truePositive
                      /\ sweep[t].falsePositive <= sweep[t - 1].falsePositive
  /\ sweep[1].truePositive = one.evaluated /\ sweep[1].falsePositive = one.unanswerable
BandsAddUp(labels, scores, classes) ==
  LET Off(i) == labels[i].score - (IF labels[i].relevant THEN 10 ELSE 0)
      wrong == classes.falsePositives + classes.falseNegatives
  IN /\ scores.calibration >= Size(Sum(DOMAIN labels, Off))
     /\ scores.calibration <= Sum(DOMAIN labels, LAMBDA i : Size(Off(i)))
     /\ classes.correct + wrong = Len(labels) /\ scores.brier \in (25 * wrong)..(25 * classes.correct + 100 * wrong)
     /\ Sum(DOMAIN scores.bins, LAMBDA b : scores.bins[b].samples) = Len(labels)
RepositoriesWeighTheSame(labels, k, one, fair, stable) ==
  LET answerable == SelectSeq(labels, LAMBDA l : GroupOf(l) \in Answerable(labels)) IN
  /\ fair.repositories = 1 => fair.ndcg = one.ndcg
  /\ stable.evaluated = fair.evaluated
  /\ Retrieval(answerable, k, TRUE).ndcg = one.ndcg /\ Balanced(answerable, k).ndcg = fair.ndcg
  /\ stable.ndcg # <<>> => fair.ndcg \in stable.ndcg[1]..stable.ndcg[2]
  /\ stable.without # <<>> => fair.ndcg \in stable.without[1]..stable.without[2]
RankingIsMeasured(labels, k) ==
  HoldoutIsValid(labels) =>
    /\ GainIsOfTheFirst(labels, k, Retrieval(labels, k, TRUE), Retrieval(labels, k + 1, TRUE))
    /\ PairsAreAll(labels, k, PairOrdering(labels))
    /\ SweepIsOfEach(labels, Retrieval(labels, k, TRUE), Sweep(labels, <<0, 4, 5, 6>>))
    /\ BandsAddUp(labels, Scores(labels), Classified(labels))
    /\ RepositoriesWeighTheSame(labels, k, Retrieval(labels, k, TRUE), Balanced(labels, k), Stability(labels, k))

(* The order of the rows of a valid training set changes nothing of what   *)
(* is trained or measured but the order given, equal scores aside; a pair  *)
(* is of one question, every label of a question with both kinds is in one *)
(* unless the cap cuts it off, and as many of each kind never pair twice.   *)
TrainingIsOrderly(labels) ==
  LET turned == Reverse(labels)
      Pairs(g, of) == PairsOf(Members(of, g))
      Both(g) == \E i, j \in DOMAIN Members(labels, g) : Members(labels, g)[i].relevant # Members(labels, g)[j].relevant
      Met(g) == UNION {{pair[1], pair[2]} : pair \in ToSet(Pairs(g, labels))}
  IN HoldoutIsValid(labels) =>
       /\ PointwiseOrder(labels) = PointwiseOrder(turned)
       /\ PairOrdering(labels) = PairOrdering(turned) /\ Scores(labels) = Scores(turned)
       /\ \A g \in Groups(labels) :
            LET pairs == Pairs(g, labels) IN
            /\ pairs = Pairs(g, turned)
            /\ Both(g) /\ Len(pairs) < MaxPairs => Met(g) = ToSet(Members(labels, g))
            /\ \A i \in DOMAIN pairs : pairs[i][1].relevant /\ ~pairs[i][2].relevant
            /\ Met(g) \subseteq ToSet(Members(labels, g))
            /\ LET relevant == {l \in Met(g) : l.relevant} IN
               2 * Cardinality(relevant) = Cardinality(Met(g)) /\ Cardinality(relevant) > 1 =>
                 Cardinality(ToSet(pairs)) = Len(pairs)
       /\ PairTrainingIsValid(labels) => PairOrdering(labels).pairs > 0

(* Splits are accepted exactly if their labels are whole, no repository is *)
(* in two of them however it is written, the manifest names each of them   *)
(* once and no other, and no family is in two of them: in any order of     *)
(* rows. A template that was reviewed to the last row is accepted unless a *)
(* row was incomplete or repeated before.                                  *)
SplitsAreApart(splits, manifest) ==
  LET Named(r) == {i \in DOMAIN manifest : Canonical[manifest[i].repository] = r}
      Families(s) == {manifest[i].family : i \in UNION {Named(r) : r \in RepositoriesOf(splits[s])}}
      Apart(of(_)) == \A s, t \in 1..3 : s # t => of(s) \cap of(t) = {}
      all == splits[1] \o splits[2] \o splits[3]
      accepted == FamiliesAreValid(splits, manifest)
      template == Template(all)
      reviewed == [i \in DOMAIN template |-> [template[i] EXCEPT !.reviewed = TRUE]]
  IN /\ accepted =
          /\ \A s \in 1..3 : HoldoutIsValid(splits[s])
          /\ Apart(LAMBDA s : RepositoriesOf(splits[s])) /\ Apart(Families)
          /\ \A r \in RepositoriesOf(all) : Cardinality(Named(r)) = 1
          /\ \A i \in DOMAIN manifest : /\ Canonical[manifest[i].repository] \in RepositoriesOf(all)
                                         /\ manifest[i].family # Blank
     /\ accepted = FamiliesAreValid([s \in 1..3 |-> Reverse(splits[s])], Reverse(manifest))
     /\ accepted => ReviewIsComplete(reviewed) /\ reviewed = [i \in DOMAIN all |-> [all[i] EXCEPT !.reviewed = TRUE]]
     /\ ~ReviewIsComplete(template)
     /\ ReviewIsComplete(reviewed) => \A i \in DOMAIN reviewed : reviewed[i].kind # "excerpt" /\ Complete(reviewed[i])
=============================================================================
