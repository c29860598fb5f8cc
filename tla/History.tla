------------------------------ MODULE History ------------------------------
(***************************************************************************)
(* repodna_git::history::aggregate: what is told of a history. It is a     *)
(* sequence of commits, newest first, as `git log` prints it; a commit has *)
(* its author, its timestamp, which need not grow, and its changes in the  *)
(* order of their paths. Months are Month units of time long.              *)
(***************************************************************************)
EXTENDS Integers, FiniteSets, Sequences, SequencesExt

CONSTANTS
  Month,              \* length of a month
  MaxTimelineMonths,  \* MAX_TIMELINE_MONTHS
  MaxDormantPeriods,  \* MAX_DORMANT_PERIODS
  Day,                \* SECONDS_PER_DAY
  DormantDays         \* dormant_days

Smaller(a, b) == IF b < a THEN b ELSE a
Larger(a, b) == IF b > a THEN b ELSE a
Lowest(S) == CHOOSE x \in S : \A y \in S : x <= y
Highest(S) == CHOOSE x \in S : \A y \in S : y <= x
Total(S, Of(_)) == FoldLeft(LAMBDA n, x : n + Of(x), 0, SetToSeq(S))
Stamps(history) == {history[i].at : i \in DOMAIN history}

-----------------------------------------------------------------------------
(* One record for each path, carried along when the file is renamed.       *)
Starting(at) ==
  [commits |-> 0, authors |-> {}, first |-> at, last |-> at, recent |-> 0, previous |-> <<>>]

Update(record, commit, recent) ==
  [record EXCEPT !.commits = @ + 1, !.authors = @ \cup {commit.author},
                 !.first = Smaller(@, commit.at), !.last = Larger(@, commit.at),
                 !.recent = IF recent THEN @ + 1 ELSE @]

Known(files, path, at) == IF path \in DOMAIN files THEN files[path] ELSE Starting(at)
Without(files, path) == [p \in DOMAIN files \ {path} |-> files[p]]
With(files, path, record) ==
  [p \in DOMAIN files \cup {path} |-> IF p = path THEN record ELSE files[p]]

Carried_StartsAnew(files, change, at) == [Starting(at) EXCEPT !.previous = <<change.old>>]
Carried(files, change, at) ==
  [Known(files, change.old, at) EXCEPT !.previous = Append(@, change.old)]

Apply(files, commit, change, recent) ==
  CASE change.status = "deleted" -> Without(files, change.path)
    [] change.status = "renamed" ->
         With(Without(files, change.old), change.path,
              Update(Carried(files, change, commit.at), commit, recent))
    [] OTHER ->
         With(files, change.path, Update(Known(files, change.path, commit.at), commit, recent))

FileHistory(history, current, recentDays) ==
  LET cutoff == Highest(Stamps(history)) - recentDays
      Commit(files, commit) ==
        FoldLeft(LAMBDA f, change : Apply(f, commit, change, commit.at >= cutoff),
                 files, commit.changes)
      files == FoldLeft(Commit, [p \in {} |-> 0], Reverse(history))
  IN [path \in DOMAIN files \cap current |-> files[path]]

-----------------------------------------------------------------------------
(* Contributors, those with the most commits first.                        *)
Contributors(history) ==
  LET authors == {history[i].author : i \in DOMAIN history}
      Of(a) == {i \in DOMAIN history : history[i].author = a}
      Record(a) == [id |-> a, commits |-> Cardinality(Of(a)),
                    first |-> Lowest({history[i].at : i \in Of(a)}),
                    last |-> Highest({history[i].at : i \in Of(a)})]
  IN SetToSortSeq({Record(a) : a \in authors},
       LAMBDA a, b : a.commits > b.commits \/ (a.commits = b.commits /\ a.id < b.id))

(* ownership: how many of them made half of the commits. *)
HalfOfCommits(contributors) ==
  LET total == FoldLeft(LAMBDA n, c : n + c.commits, 0, contributors)
      Count(s, c) == IF s.sum * 2 >= total /\ s.half > 0 THEN s
                     ELSE [sum |-> s.sum + c.commits, half |-> s.half + 1]
  IN FoldLeft(Count, [sum |-> 0, half |-> 0], contributors).half

(* timeline: every month from the first to the last, or, of too many, only *)
(* those with commits.                                                     *)
MonthOf(at) == at \div Month
TooMany(months) == months > MaxTimelineMonths

Timeline(history) ==
  LET months == {MonthOf(at) : at \in Stamps(history)}
      Commits(m) == Cardinality({i \in DOMAIN history : MonthOf(history[i].at) = m})
      span == Highest(months) - Lowest(months) + 1
      listed == IF TooMany(span) THEN months ELSE Lowest(months)..Highest(months)
  IN [m \in listed |-> Commits(m)]

(* dormant_periods: pairs of times between which nothing was committed; of *)
(* too many the longest, and of those as long the earliest.                *)
DaysOf(period) == (period[2] - period[1]) \div Day
DormantPeriods(history) ==
  LET at == SetToSortSeq(Stamps(history), <)
      gaps == {<<at[i], at[i + 1]>> : i \in {i \in 1..(Len(at) - 1) :
                                               at[i + 1] - at[i] >= DormantDays * Day}}
      Longer(p, q) == \/ DaysOf(p) > DaysOf(q)
                      \/ DaysOf(p) = DaysOf(q) /\ p[1] < q[1]
      kept == SubSeq(SetToSortSeq(gaps, Longer), 1,
                     Smaller(MaxDormantPeriods, Cardinality(gaps)))
  IN SetToSortSeq(ToSet(kept), LAMBDA p, q : p[1] < q[1])

(* releases: the commits of the tags (positions in the history, or 0 for   *)
(* one that is not in it), ordered by date, and how much each has new.     *)
CommitsSincePrevious(history, tags) ==
  LET Release(s, position) ==
        IF position = 0 THEN [s EXCEPT !.since = Append(@, 0)]
        ELSE [previous |-> position,
              since |-> Append(s.since,
                          IF s.previous = 0 THEN Len(history) - position + 1
                          ELSE Larger(s.previous - position, 0))]
  IN FoldLeft(Release, [previous |-> 0, since |-> <<>>], tags).since

-----------------------------------------------------------------------------
(* The lineage of a path, looked for from the newest commit back, as       *)
(* `git log --follow` does: the commits that touched it under the name it  *)
(* had, until the one that added it.                                       *)
Lineage(history, path) ==
  LET Step(s, i) ==
        LET touching == {c \in ToSet(history[i].changes) : c.path = s.path} IN
        IF s.done \/ touching = {} THEN s
        ELSE LET change == CHOOSE c \in touching : TRUE IN
             [path |-> IF change.status = "renamed" THEN change.old ELSE s.path,
              done |-> change.status = "added",
              commits |-> s.commits \cup {i},
              previous |-> IF change.status = "renamed" THEN <<change.old>> \o s.previous
                           ELSE s.previous]
  IN FoldLeft(Step, [path |-> path, done |-> FALSE, commits |-> {}, previous |-> <<>>],
              [i \in DOMAIN history |-> i])

(* The one pass over the commits, oldest first, with a record for each     *)
(* path, finds for every current file exactly its lineage, through renames *)
(* and names that are used again, also where older commits were left out.  *)
RenamesAreFollowed(history, current, recentDays) ==
  LET records == FileHistory(history, current, recentDays)
      cutoff == Highest(Stamps(history)) - recentDays
  IN \A path \in current :
       LET lineage == Lineage(history, path)
           stamps == {history[i].at : i \in lineage.commits}
       IN /\ path \in DOMAIN records <=> lineage.commits # {}
          /\ path \in DOMAIN records => records[path] =
               [commits |-> Cardinality(lineage.commits),
                authors |-> {history[i].author : i \in lineage.commits},
                first |-> Lowest(stamps), last |-> Highest(stamps),
                recent |-> Cardinality({i \in lineage.commits : history[i].at >= cutoff}),
                previous |-> lineage.previous]

(* Every commit is counted once by contributors and by months, and every   *)
(* month between is there unless there would be too many; half of the      *)
(* commits needs as many contributors as said and no fewer; the dormant    *)
(* periods are the longest gaps, apart from each other and in order.       *)
SummariesAddUp(history) ==
  LET contributors == Contributors(history)
      timeline == Timeline(history)
      periods == DormantPeriods(history)
      OfMonth(m) == timeline[m]
      half == HalfOfCommits(contributors)
      First(n) == FoldLeft(LAMBDA k, c : k + c.commits, 0, SubSeq(contributors, 1, n))
      Quiet(from, to) == \A t \in Stamps(history) : t <= from \/ t >= to
  IN history # <<>> =>
       /\ First(Len(contributors)) = Len(history)
       /\ First(half) * 2 >= Len(history) /\ First(half - 1) * 2 < Len(history)
       /\ Total(DOMAIN timeline, OfMonth) = Len(history)
       /\ \/ DOMAIN timeline = Lowest(DOMAIN timeline)..Highest(DOMAIN timeline)
          \/ \A m \in DOMAIN timeline : timeline[m] > 0
       /\ Len(periods) <= MaxDormantPeriods
       /\ \A i \in 2..Len(periods) : periods[i - 1][2] <= periods[i][1]
       /\ \A s, t \in Stamps(history) : t - s >= DormantDays * Day /\ Quiet(s, t) =>
            \/ <<s, t>> \in ToSet(periods)
            \/ /\ Len(periods) = MaxDormantPeriods
               /\ \A p \in ToSet(periods) : DaysOf(p) >= DaysOf(<<s, t>>)

(* The releases in the history, when their dates follow the commits, share *)
(* its commits out among them; tags of other commits take nothing.         *)
ReleasesShareCommits(history, tags) ==
  LET known == SelectSeq(tags, LAMBDA position : position # 0)
      since == CommitsSincePrevious(history, tags)
  IN (\A i \in 2..Len(known) : known[i] <= known[i - 1]) /\ known # <<>> =>
       FoldLeft(LAMBDA n, k : n + k, 0, since) = Len(history) - Last(known) + 1
=============================================================================
