----------------------------- MODULE Evolution ------------------------------
(***************************************************************************)
(* repodna_evolution::events, recent and epochs: what is told of how a     *)
(* repository came to be. A history is a sequence of commits, newest       *)
(* first, each with its timestamp and its changes in the order of their    *)
(* paths; timestamps need not grow.                                        *)
(***************************************************************************)
EXTENDS Integers, FiniteSets, Sequences, SequencesExt

CONSTANTS
  Area, Root,          \* area_of: the area of each path, and that of top-level files
  Special,             \* the kinds of paths whose first appearance is told: kind -> paths
  Manifest,            \* the manifest that a path is called, "none" for most
  MinAreaFiles,        \* MIN_AREA_FILES
  RestructureRenames,  \* RESTRUCTURE_RENAMES
  MaxPerKind,          \* MAX_PER_KIND
  MaxFiles,            \* MAX_FILES of recent changes
  EpochGap, SplitLongerThan, MinPart, MaxEpochs,
  Year                 \* length of a year

Areas == {Area[p] : p \in DOMAIN Area}
InArea(files, area) == {p \in files : Area[p] = area}
Larger(m, n) == IF m > n THEN m ELSE n
Shorter(s, n) == SubSeq(s, 1, IF Len(s) < n THEN Len(s) ELSE n)
InOrder(S) == SetToSortSeq(S, <)

-----------------------------------------------------------------------------
(* events.rs: the replay keeps the files there are, the areas that hold    *)
(* any, the most that each has held, and which kinds have been seen.       *)
Touch(w, change) ==
  LET gone == CASE change.status = "deleted" -> {change.path}
                [] change.status = "renamed" -> {change.old}
                [] OTHER -> {}
      left == w.files \ gone
      new == (IF change.status = "deleted" THEN {} ELSE {change.path}) \ left
      files == left \cup new
  IN [w EXCEPT
        !.files = files,
        !.peak = [a \in Areas |-> Larger(@[a], Cardinality(InArea(files, a)))],
        !.touched = @ \cup {Area[p] : p \in (w.files \cap gone) \cup new},
        !.added = IF change.status \in {"added", "renamed"} THEN @ \o SetToSeq(new) ELSE @]

Event(kind, commit, about) == [kind |-> kind, at |-> commit.at, hash |-> commit.hash, about |-> about]

(* Manifests of one name in several directories; none is forgotten.        *)
Places(files) == {<<Manifest[p], Area[p]>> : p \in {p \in files : Manifest[p] # "none"}}
Several(places) == \E a, b \in places : a[1] = b[1] /\ a[2] # b[2]

(* The oldest commit is what the others are compared with.                 *)
Found(w, commit) ==
  [w EXCEPT !.events = <<Event("created", commit, Len(w.added))>>,
            !.seen = {kind \in DOMAIN Special : w.files \cap Special[kind] # {}},
            !.places = Places(w.files), !.present = {Area[p] : p \in w.files}]

Settled(w, commit) ==
  LET touched == w.touched \ {Root}
      came == {a \in touched \ w.present : InArea(w.files, a) # {}}
      went == {a \in touched \cap w.present : InArea(w.files, a) = {}}
      large == {a \in went : w.peak[a] >= MinAreaFiles}
      Each(kind, areas) == [i \in 1..Cardinality(areas) |-> Event(kind, commit, InOrder(areas)[i])]
  IN [w EXCEPT !.present = (@ \cup came) \ went,
               !.introduced = @ \o Each("introduced", came), !.removed = @ \o Each("removed", large)]

First(w, commit) ==
  LET new == ToSet(w.added)
      kinds == {kind \in DOMAIN Special \ w.seen : new \cap Special[kind] # {}}
      Told(kind) == Event(kind, commit, SelectSeq(w.added, LAMBDA p : p \in Special[kind])[1])
      told == SetToSeq({Told(kind) : kind \in kinds})
      several == Several(w.places \cup Places(new)) /\ ~Several(w.places)
      moved == IF w.renames >= RestructureRenames THEN <<Event("restructured", commit, w.renames)>> ELSE <<>>
  IN [w EXCEPT !.seen = @ \cup kinds, !.places = @ \cup Places(new),
               !.events = @ \o moved \o told
                            \o (IF several THEN <<Event("several", commit, 0)>> ELSE <<>>)]

Replay(w, commit) ==
  LET renames == Cardinality({i \in DOMAIN commit.changes : commit.changes[i].status = "renamed"})
      now == FoldLeft(Touch, [w EXCEPT !.touched = {}, !.added = <<>>, !.renames = renames],
                      commit.changes)
  IN IF w.events = <<>> THEN Found(now, commit) ELSE First(Settled(now, commit), commit)

Nothing ==
  [files |-> {}, peak |-> [a \in Areas |-> 0], touched |-> {}, added |-> <<>>, renames |-> 0,
   present |-> {}, introduced |-> <<>>, removed |-> <<>>, places |-> {}, seen |-> {}, events |-> <<>>]

Rank(kind) ==
  CASE kind = "created" -> 0 [] kind = "several" -> 1 [] kind = "introduced" -> 2
    [] kind = "removed" -> 3 [] kind = "restructured" -> 4 [] kind = "tests" -> 5
    [] kind = "ci" -> 6 [] kind = "containers" -> 7 [] kind = "release" -> 14

Later(d, e) == d.at > e.at \/ (d.at = e.at /\ Rank(d.kind) > Rank(e.kind))
Place(events, e) ==
  LET n == Cardinality({i \in DOMAIN events : ~Later(events[i], e)}) IN
  SubSeq(events, 1, n) \o <<e>> \o SubSeq(events, n + 1, Len(events))
Sorted(events) == FoldLeft(Place, <<>>, events)

(* Areas count as introduced when they grew, at any time. The latest       *)
(* releases are kept.                                                      *)
Complete(w, releases) ==
  LET grown == SelectSeq(w.introduced, LAMBDA e : w.peak[e.about] >= MinAreaFiles)
      tags == Sorted([i \in DOMAIN releases |-> Event("release", releases[i], i)])
      latest == SubSeq(tags, Larger(1, Len(tags) - MaxPerKind + 1), Len(tags))
  IN Sorted(w.events \o Shorter(grown, MaxPerKind) \o Shorter(w.removed, MaxPerKind) \o latest)

DetectEvents(history, releases) == Complete(FoldLeft(Replay, Nothing, Reverse(history)), releases)

(* snapshot_events: shares are in percent.                                 *)
ShareEvent(before, after) ==
  CASE before < 5 /\ after >= 10 -> {"language introduced"}
    [] before >= 5 /\ (after - before >= 20 \/ before - after >= 20) -> {"language shift"}
    [] OTHER -> {}
SizeEvent(a, b) ==
  CASE b >= a + 50 /\ b * 2 >= a * 3 -> {"growth"}
    [] a >= b + 30 /\ b * 10 <= a * 7 -> {"reduction"}
    [] OTHER -> {}

-----------------------------------------------------------------------------
(* recent.rs: the commits after `since`, as far as they are newest.        *)
Window(history, days) ==
  LET since == history[1].at - days
      old == {i \in DOMAIN history : history[i].at <= since}
  IN IF old = {} THEN history ELSE SubSeq(history, 1, InOrder(old)[1] - 1)

Recent(history, days, current) ==
  LET window == Window(history, days)
      changes == UNION {ToSet(window[i].changes) : i \in DOMAIN window}
      is(statuses) == {c \in changes : c.status \in statuses}
      added == {c.path : c \in is({"added", "renamed"})} \cap current
      moved == {c.old : c \in {c \in is({"renamed"}) : c.path \in current}}
      removed == (moved \cup {c.path : c \in is({"deleted"})}) \ current
  IN [commits |-> Len(window), changed |-> {c.path : c \in changes},
      added |-> Shorter(InOrder(added), MaxFiles), removed |-> Shorter(InOrder(removed), MaxFiles)]

-----------------------------------------------------------------------------
(* epochs.rs: periods between pauses, long ones split at the years and the *)
(* parts that are too short joined again.                                  *)
Span(period) == Last(period) - period[1]

Cut(stamps, byYear) ==
  LET Apart(s, t) == IF byYear THEN s \div Year # t \div Year ELSE t - s >= EpochGap
      Add(parts, t) ==
        IF parts # <<>> /\ ~Apart(Last(Last(parts)), t)
        THEN [parts EXCEPT ![Len(parts)] = Append(@, t)]
        ELSE Append(parts, <<t>>)
  IN FoldLeft(Add, <<>>, stamps)

SplitByYear(period) ==
  LET Join(parts, part) ==
        IF parts # <<>> /\ (Span(part) < MinPart \/ Span(Last(parts)) < MinPart)
        THEN [parts EXCEPT ![Len(parts)] = @ \o part]
        ELSE Append(parts, part)
  IN IF Span(period) <= SplitLongerThan THEN <<period>>
     ELSE FoldLeft(Join, <<>>, Cut(period, TRUE))

(* Beyond the maximum the two neighbours with the fewest commits are one.  *)
JoinSmallest(periods) ==
  LET Size(i) == Len(periods[i]) + Len(periods[i + 1])
      least == CHOOSE i \in 1..(Len(periods) - 1) : \A j \in 1..(Len(periods) - 1) :
                 Size(i) < Size(j) \/ (Size(i) = Size(j) /\ i <= j)
  IN [k \in 1..(Len(periods) - 1) |->
        CASE k < least -> periods[k]
          [] k = least -> periods[k] \o periods[k + 1]
          [] OTHER -> periods[k + 1]]

Periods(stamps) ==
  LET segments == Cut(stamps, FALSE)
      periods == FoldLeft(LAMBDA all, segment : all \o SplitByYear(segment), <<>>, segments)
  IN FoldLeft(LAMBDA p, i : IF Len(p) > MaxEpochs THEN JoinSmallest(p) ELSE p, periods,
              [i \in DOMAIN stamps |-> i])

(* The rate of a period, <<commits, days>>; n is the share of the median.  *)
Rate(period) == <<Len(period), Larger(Span(period), 1)>>
AtLeast(r, s, n) == 10 * r[1] * s[2] >= n * s[1] * r[2]

Kinds(periods) ==
  LET Slower(i, j) == LET r == Rate(periods[i]) s == Rate(periods[j]) IN
        ~AtLeast(r, s, 10) \/ (AtLeast(s, r, 10) /\ i < j)
      median == Rate(periods[SetToSortSeq(DOMAIN periods, Slower)[Len(periods) \div 2 + 1]])
  IN [i \in DOMAIN periods |->
        CASE i = Len(periods) -> "current"
          [] i = 1 /\ i < Len(periods) -> "initial"
          [] OTHER -> IF AtLeast(Rate(periods[i]), median, 8) THEN "active" ELSE "maintenance"]

-----------------------------------------------------------------------------
(* "Replays history ... to find notable events, oldest first": an area is  *)
(* told to have appeared, or gone, at exactly the commits after which it   *)
(* first has files, or has none any more, if ever it held enough of them   *)
(* (or would have, with those the same commit moved out of it);            *)
(* tests and the like are told of once, where they appear in a repository  *)
(* that did not begin with them; several packages where a second manifest  *)
(* of one name joins or follows another.                                   *)
EventsAreTold(trees, history, events) ==
  LET n == Len(history)
      Of(kind) == {e \in ToSet(events) : e.kind = kind}
      Hash(i) == history[n + 1 - i].hash
      Told(kind, i, about) == \E e \in Of(kind) : e.hash = Hash(i) /\ e.about = about
      Held(a, to) == \E j \in 1..to : Cardinality(InArea(trees[j], a)) >= MinAreaFiles
      Passed(a, to) == \E j \in 1..to :
        Cardinality(InArea(trees[j] \cup (IF j = 1 THEN {} ELSE trees[j - 1]), a)) >= MinAreaFiles
      Came(i, a) == InArea(trees[i - 1], a) = {} /\ InArea(trees[i], a) # {}
      Went(i, a) == InArea(trees[i - 1], a) # {} /\ InArea(trees[i], a) = {}
      Has(i, kind) == trees[i] \cap Special[kind] # {}
      Ever(i) == UNION {Places(trees[j]) : j \in 1..i}
  IN /\ \A i \in 2..n, a \in Areas \ {Root} :
          /\ Cardinality(Of("introduced")) < MaxPerKind /\ Came(i, a) /\ Held(a, n)
               => Told("introduced", i, a)
          /\ Told("introduced", i, a) => Came(i, a) /\ Passed(a, n)
          /\ Cardinality(Of("removed")) < MaxPerKind /\ Went(i, a) /\ Held(a, i - 1)
               => Told("removed", i, a)
          /\ Told("removed", i, a) => Went(i, a) /\ Passed(a, i)
     /\ \A kind \in DOMAIN Special :
          LET first == {i \in 2..n : Has(i, kind) /\ \A j \in 1..(i - 1) : ~Has(j, kind)} IN
          {e.hash : e \in Of(kind)} = {Hash(i) : i \in first}
     /\ {e.hash : e \in Of("several")}
          = {Hash(i) : i \in {i \in 2..n : Several(Ever(i)) /\ ~Several(Ever(i - 1))}}
     /\ \A i, j \in DOMAIN events : i < j => events[i].at <= events[j].at

(* A change of 20 points in the share of a language that is still there is *)
(* always told, and so is a repository of 100 files that doubles or is     *)
(* halved.                                                                 *)
SharesAreTold ==
  /\ \A b, a \in {0, 4, 5, 9, 10, 24, 25, 29, 30, 100} :
       a - b >= 20 \/ b - a >= 20 => ShareEvent(b, a) # {}
  /\ \A f \in {100, 149, 150, 151} : SizeEvent(f, 2 * f) = {"growth"} /\ SizeEvent(2 * f, f) = {"reduction"}

(* What is new since the window began is listed as added and nothing that  *)
(* is gone; what has gone is listed under one of the names it had, unless  *)
(* that one is in use again.                                               *)
RecentIsTold(before, window, current, recent) ==
  LET changes == UNION {ToSet(window[i].changes) : i \in DOMAIN window}
      Renamed(names) == names \cup {c.path : c \in {c \in changes : c.status = "renamed" /\ c.old \in names}}
      Names(p) == FoldLeft(LAMBDA names, i : Renamed(names), {p}, [i \in DOMAIN window |-> i])
      added == ToSet(recent.added)
      removed == ToSet(recent.removed)
  IN /\ added \subseteq current \cap {c.path : c \in changes} /\ removed \cap current = {}
     /\ Cardinality(added) < MaxFiles => current \ before \subseteq added
     /\ Cardinality(removed) < MaxFiles =>
          \A p \in before \ current : Names(p) \cap removed # {} \/ Names(p) \cap current # {}

(* Epochs are the history in order, as few as allowed; a long pause is     *)
(* inside of one only where they would be too many.                        *)
EpochsSpanHistory(stamps) ==
  LET periods == Periods(stamps)
      kinds == Kinds(periods)
  IN stamps # <<>> =>
     /\ FoldLeft(LAMBDA all, p : all \o p, <<>>, periods) = stamps
     /\ Len(periods) <= MaxEpochs /\ \A i \in DOMAIN periods : periods[i] # <<>>
     /\ Len(periods) < MaxEpochs =>
          \A i \in DOMAIN periods : \A k \in 2..Len(periods[i]) : periods[i][k] - periods[i][k - 1] < EpochGap
     /\ {i \in DOMAIN periods : kinds[i] = "current"} = {Len(periods)}

HistoryIsSummarized(history, start, current, releases, days) ==
  LET oldestFirst == Reverse(history)
      After(tree, c) ==
        CASE c.status = "deleted" -> tree \ {c.path}
          [] c.status = "renamed" -> (tree \ {c.old}) \cup {c.path}
          [] OTHER -> tree \cup {c.path}
      Grow(trees, commit) == Append(trees, FoldLeft(After, IF trees = <<>> THEN start ELSE Last(trees), commit.changes))
      trees == FoldLeft(Grow, <<>>, oldestFirst)
      window == Window(history, days)
      at == Len(history) - Len(window)
  IN /\ start = {} => EventsAreTold(trees, history, DetectEvents(history, releases))
     /\ RecentIsTold(IF at = 0 THEN start ELSE trees[at], window, current, Recent(history, days, current))
     /\ SharesAreTold

-----------------------------------------------------------------------------
(***************************************************************************)
(* repodna_evolution::snapshots::plan_snapshots: the revisions of the Time *)
(* Machine. Commits are numbered oldest first and have a timestamp, which  *)
(* need not grow with them: clocks differ and histories are rewritten.     *)
(***************************************************************************)
Smaller(a, b) == IF b < a THEN b ELSE a
Plan(commit, kind) == [commit |-> commit, kind |-> kind]
Priority(kind) == CASE kind \in {"initial", "current"} -> 0
                    [] kind = "release" -> 1
                    [] kind = "sample" -> 2

(* Positions 1..len, `count` of them; the last one is always among them. *)
Spaced(len, count) ==
  IF count >= len THEN 1..len ELSE {(i * len) \div count : i \in 1..count}

ReleaseSlots(max) == (max - 2) \div 2
SampleSlots(releases, max) == max - (2 + Smaller(ReleaseSlots(max), Len(releases)))

Target(stamps, step, slots) ==
  stamps[1] + ((stamps[Len(stamps)] - stamps[1]) * step) \div (slots + 1)

(* partition_point: how many commits are not after the target. The library *)
(* promises nothing where timestamps go back and forth around the target.  *)
PartitionPoints(stamps, target) ==
  LET k == Cardinality({i \in DOMAIN stamps : stamps[i] <= target})
  IN IF \A i \in 1..k : stamps[i] <= target THEN {k} ELSE 0..Len(stamps)

(* Sorted by commit, the most meaningful reason first, one for each commit. *)
Distinct(plans) ==
  LET Before(i, j) ==
        LET p == plans[i]
            q == plans[j]
        IN \/ p.commit < q.commit
           \/ /\ p.commit = q.commit
              /\ \/ Priority(p.kind) < Priority(q.kind)
                 \/ Priority(p.kind) = Priority(q.kind) /\ i < j
      Keep(kept, i) ==
        IF kept # <<>> /\ Last(kept).commit = plans[i].commit
        THEN kept ELSE Append(kept, plans[i])
  IN FoldLeft(Keep, <<>>, SetToSortSeq(DOMAIN plans, Before))

(* `releases` are the commits of the known releases, in order; points has  *)
(* the partition point of each step.                                       *)
PlanSnapshots(stamps, releases, asked, points) ==
  LET max == Larger(asked, 2)
      ends == <<Plan(1, "initial"), Plan(Len(stamps), "current")>>
      chosen == SetToSortSeq(Spaced(Len(releases), ReleaseSlots(max)), <)
      tagged == [i \in DOMAIN chosen |-> Plan(releases[chosen[i]], "release")]
      cuts == SelectSeq([s \in 1..SampleSlots(releases, max) |-> points[s]], LAMBDA k : k > 0)
      sampled == [i \in DOMAIN cuts |-> Plan(cuts[i], "sample")]
      kept == Distinct(ends \o tagged \o sampled)
  IN IF stamps = <<>> THEN <<>> ELSE SubSeq(kept, 1, Smaller(Len(kept), max))

-----------------------------------------------------------------------------
(* Whatever the timestamps are, the first and the current commit and the   *)
(* newest release with a slot are in the plan, which has each commit once, *)
(* in order, no more than asked for: nothing is lost to the truncation. If *)
(* the timestamps grow, the plan has the repository as it was at each of   *)
(* the evenly spaced dates.                                                *)
SnapshotsSpanHistory(stamps, releases, asked) ==
  LET max == Larger(asked, 2)
      slots == SampleSlots(releases, max)
      Points == {points \in [1..slots -> 0..Len(stamps)] :
                   \A s \in 1..slots :
                     points[s] \in PartitionPoints(stamps, Target(stamps, s, slots))}
      Planned(plans) == {plans[i].commit : i \in DOMAIN plans}
  IN stamps # <<>> => \A points \in Points :
       LET plans == PlanSnapshots(stamps, releases, asked, points) IN
       /\ Len(plans) <= max
       /\ \A i \in 2..Len(plans) : plans[i - 1].commit < plans[i].commit
       /\ {1, Len(stamps)} \subseteq Planned(plans)
       /\ releases # <<>> /\ ReleaseSlots(max) > 0 => Last(releases) \in Planned(plans)
       /\ \A i \in DOMAIN plans : plans[i].kind = "release" => plans[i].commit \in ToSet(releases)
       /\ (\A i, j \in DOMAIN stamps : i < j => stamps[i] <= stamps[j]) =>
            \A s \in 1..slots : \E i \in Planned(plans) :
              /\ stamps[i] <= Target(stamps, s, slots)
              /\ \A j \in DOMAIN stamps : stamps[j] <= Target(stamps, s, slots) => j <= i
=============================================================================
