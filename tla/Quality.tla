------------------------------ MODULE Quality ------------------------------
(***************************************************************************)
(* repodna_quality: duplicated code is found by comparing winnowed         *)
(* fingerprints of token streams, verified token by token, and grouped     *)
(* (duplication.rs). Streams are sequences of tokens (numbers); hashes are *)
(* polynomials modulo Modulus, so that different k-grams may collide. The  *)
(* key of a whole sequence is taken to be the sequence.                    *)
(*                                                                         *)
(* deadcode.rs, hotspots.rs, similarity.rs and complexity.rs are what is   *)
(* said of single files once everything about them has been collected. A   *)
(* path is the sequence of its names, without the extension of the last.   *)
(***************************************************************************)
EXTENDS Integers, FiniteSets, Sequences, SequencesExt

CONSTANTS
  MinCopied,    \* min_tokens: the shortest duplicate
  Window,       \* k-grams in a window: MinCopied \div 4, between 1 and 16
  MinDistinct,  \* MIN_DISTINCT_TOKENS
  MaxPairwise,  \* MAX_PAIRWISE
  Base, Modulus, \* of the rolling hash
  ImportResolved,     \* IMPORT_RESOLVED
  DirectUse, Conventional, Legacy,  \* DIRECT_USE_DIRS, CONVENTIONAL_STEMS, LEGACY_NAMES
  CrateRoots, RustDirs,             \* of is_rust_crate_root
  StaleDays, MaxCandidates,
  Weights,            \* sequence of signals and their weights, in percent
  MinCommits, HotLimit,
  Shingle, MinTokens, Bands, Rows, MaxBucket, MaxPairs,
  Permuted,           \* of each slot: the value of each shingle
  Buckets,            \* sequence of <<least, most>>, 0 for no most
  TopFunctions,
  Order(_, _)         \* how paths sort, a directory before what is in it

-----------------------------------------------------------------------------
(* duplication.rs *)
K == MinCopied - Window + 1
Slice(tokens, start, len) == SubSeq(tokens, start, start + len - 1)
Distance(i, j) == IF i < j THEN j - i ELSE i - j

-----------------------------------------------------------------------------
High == FoldLeft(LAMBDA power, i : (power * Base) % Modulus, 1, [i \in 1..(K - 1) |-> i])

(* One token leaves the k-gram, the next one enters it. *)
Rolled(hash, old, new) == ((hash - old * High) * Base + new) % Modulus

KgramHashes(tokens) ==
  LET first == FoldLeft(LAMBDA hash, t : (hash * Base + t) % Modulus, 0, Slice(tokens, 1, K))
      Roll(hashes, i) == Append(hashes, Rolled(Last(hashes), tokens[i - K], tokens[i]))
  IN IF Len(tokens) < K THEN <<>>
     ELSE FoldLeft(Roll, <<first>>, [i \in 1..(Len(tokens) - K) |-> K + i])

(* The rightmost minimum of every window; positions that were selected.    *)
Winnow(hashes) ==
  LET window == IF Len(hashes) < Window THEN Len(hashes) ELSE Window
      Rightmost(from) ==
        CHOOSE i \in from..(from + window - 1) :
          \A j \in from..(from + window - 1) :
            hashes[i] < hashes[j] \/ (hashes[i] = hashes[j] /\ j <= i)
  IN IF hashes = <<>> THEN {}
     ELSE {Rightmost(from) : from \in 1..(Len(hashes) - window + 1)}

(* The index: fingerprints as places <<stream, position>> with one hash.   *)
Fingerprints(s, hashes) == {[hash |-> hashes[i], at |-> <<s, i>>] : i \in Winnow(hashes)}
Places(streams) == UNION {Fingerprints(s, KgramHashes(streams[s])) : s \in DOMAIN streams}

Before(p, q) == p[1] < q[1] \/ (p[1] = q[1] /\ p[2] < q[2])

-----------------------------------------------------------------------------
(* A pair of places with equal k-grams, as long as it gets in both         *)
(* directions; within one stream no longer than the two are apart.         *)
Back(a, b, i, j) ==
  CHOOSE n \in 0..i :
    /\ n < i /\ n < j /\ \A m \in 1..n : a[i - m] = b[j - m]
    /\ (n + 1 = i \/ n + 1 = j \/ a[i - n - 1] # b[j - n - 1])

Forward(a, b, i, j) ==
  CHOOSE n \in 0..Len(a) :
    /\ i + n - 1 <= Len(a) /\ j + n - 1 <= Len(b) /\ \A m \in 0..(n - 1) : a[i + m] = b[j + m]
    /\ (i + n - 1 = Len(a) \/ j + n - 1 = Len(b) \/ a[i + n] # b[j + n])

Limited_Never(p, q, len) == len
Limited(p, q, len) ==
  IF p[1] = q[1] /\ Distance(p[2], q[2]) < len THEN Distance(p[2], q[2]) ELSE len

Extend(streams, p, q) ==
  LET a == streams[p[1]]
      b == streams[q[1]]
      back == Back(a, b, p[2], q[2])
      from == <<p[1], p[2] - back>>
      to == <<q[1], q[2] - back>>
  IN [a |-> from, b |-> to, len |-> Limited(from, to, back + Forward(a, b, p[2], q[2]))]

(* Sequences of few distinct tokens are data. *)
IsData(tokens) == Cardinality({tokens[i] : i \in DOMAIN tokens}) < MinDistinct

(* The pairs of an entry of the index that are compared. *)
Compared(places) ==
  LET first == CHOOSE p \in places : \A q \in places \ {p} : Before(p, q) IN
  {pair \in places \X places :
     /\ Before(pair[1], pair[2])
     /\ Cardinality(places) > MaxPairwise => pair[1] = first
     /\ pair[1][1] = pair[2][1] => Distance(pair[1][2], pair[2][2]) >= K}

(* The entries of the index: the places of one hash. *)
Entries(places) == {{p.at : p \in {p \in places : p.hash = h}} : h \in {p.hash : p \in places}}
Index(streams) == Entries(Places(streams))

Matches(streams) ==
  LET pairs == UNION {Compared(entry) : entry \in Index(streams)}
      verified == {pair \in pairs :
                     Slice(streams[pair[1][1]], pair[1][2], K)
                       = Slice(streams[pair[2][1]], pair[2][2], K)}
      found == {Extend(streams, pair[1], pair[2]) : pair \in verified}
  IN {m \in found : /\ m.len >= MinCopied
                    /\ ~IsData(Slice(streams[m.a[1]], m.a[2], m.len))}

-----------------------------------------------------------------------------
(* Clusters of identical sequences, longest first; one whose every         *)
(* occurrence is inside an occurrence already kept is dropped.             *)
Copies(streams, matches) ==
  LET Text(m) == Slice(streams[m.a[1]], m.a[2], m.len) IN
  {[len |-> Len(text),
    at |-> UNION {{m.a, m.b} : m \in {m \in matches : Text(m) = text}}] :
     text \in {Text(m) : m \in matches}}

Earlier(p, q) ==
  LET only == (p \cup q) \ (p \cap q) IN
  only # {} /\ (CHOOSE x \in only : \A y \in only \ {x} : Before(x, y)) \in p

LongestFirst(c, d) ==
  \/ c.len > d.len
  \/ c.len = d.len /\ Cardinality(c.at) > Cardinality(d.at)
  \/ c.len = d.len /\ Cardinality(c.at) = Cardinality(d.at) /\ Earlier(c.at, d.at)

Within(place, len, kept) ==
  \E c \in kept : \E o \in c.at :
    o[1] = place[1] /\ o[2] <= place[2] /\ place[2] + len <= o[2] + c.len

Clusters(streams) ==
  LET Keep(kept, c) ==
        IF \A place \in c.at : Within(place, c.len, kept) THEN kept ELSE kept \cup {c}
  IN FoldLeft(Keep, {}, SetToSortSeq(Copies(streams, Matches(streams)), LongestFirst))

(* covered_lines: ranges <<first, last>> in order, merged when they meet.  *)
Merges(end, start) == start <= end + 1

CoveredLines(ranges) ==
  LET Add(s, r) ==
        IF s.start > 0 /\ Merges(s.end, r[1])
        THEN [s EXCEPT !.end = IF r[2] > @ THEN r[2] ELSE @]
        ELSE [total |-> s.total + (IF s.start > 0 THEN s.end - s.start + 1 ELSE 0),
              start |-> r[1], end |-> r[2]]
      end == FoldLeft(Add, [total |-> 0, start |-> 0, end |-> 0],
                      SetToSortSeq(ranges, Before))
  IN end.total + (IF end.start > 0 THEN end.end - end.start + 1 ELSE 0)

-----------------------------------------------------------------------------
(* "Two regions that share at least min_tokens tokens always share a       *)
(* winnowed fingerprint, so every candidate pair is found"                 *)
(* (duplication.rs:3-6), in spite of collisions and of the dropping of     *)
(* nested clusters, as long as no fingerprint has more than MAX_PAIRWISE   *)
(* places: what two files have in common is covered by clusters in both of *)
(* them, and of a region that a file repeats there is a cluster.           *)
AllIsCovered(streams, clusters) ==
  LET Covered(s, i) == \E c \in clusters : \E o \in c.at :
                         o[1] = s /\ i \in o[2]..(o[2] + c.len - 1)
      Regions == {<<s, i>> \in (DOMAIN streams) \X (1..20) :
                    i + MinCopied - 1 <= Len(streams[s])}
      Text(r) == Slice(streams[r[1]], r[2], MinCopied)
  IN (\A entry \in Index(streams) : Cardinality(entry) <= MaxPairwise) =>
     \A p, q \in Regions :
       p # q /\ Text(p) = Text(q) /\ ~IsData(Text(p)) =>
         /\ p[1] # q[1] =>
              \A i \in 0..(MinCopied - 1) : Covered(p[1], p[2] + i) /\ Covered(q[1], q[2] + i)
         /\ p[1] = q[1] /\ Distance(p[2], q[2]) >= MinCopied =>
              clusters # {}
SharedRegionsAreFound(streams) == AllIsCovered(streams, Clusters(streams))

(* What is reported is duplicated: the occurrences of a cluster are equal, *)
(* at least two, long enough, and two of them do not overlap.              *)
ClustersAreDuplicates(streams) ==
  \A c \in Clusters(streams) :
    /\ c.len >= MinCopied
    /\ \A p, q \in c.at : Slice(streams[p[1]], p[2], c.len) = Slice(streams[q[1]], q[2], c.len)
    /\ \E p, q \in c.at : p # q /\ (p[1] = q[1] => Distance(p[2], q[2]) >= c.len)

(* A line is counted once however many ranges cover it.                    *)
LinesAreCountedOnce(ranges) ==
  CoveredLines(ranges) = Cardinality(UNION {r[1]..r[2] : r \in ranges})

-----------------------------------------------------------------------------
(* What is said of single files. *)
Shorter(s, n) == SubSeq(s, 1, IF Len(s) < n THEN Len(s) ELSE n)
Indexes(s, Test(_)) == {i \in DOMAIN s : Test(s[i])}
Dirs(path) == {path[k] : k \in 1..(Len(path) - 1)}

-----------------------------------------------------------------------------
(* deadcode.rs. A file has its language, whether it is a test or an entry  *)
(* point, how many depend on it, whether a module declaration includes it, *)
(* and when it changed, <<time>> if that is known.                         *)
IsRustCrateRoot(path) == Last(path) \in CrateRoots \/ Dirs(path) \cap RustDirs # {}

RustUsesModules(files) == \E f \in ToSet(files) : f.language = "rust" /\ f.declared

IsCandidate(files, f, reliable) ==
  /\ ~f.test /\ f.language # "none" /\ ~f.entry
  /\ \/ /\ f.language = "rust" /\ RustUsesModules(files)
        /\ ~f.declared /\ ~IsRustCrateRoot(f.path)
     \/ /\ f.language \in ImportResolved /\ reliable /\ f.dependents = 0
        /\ Last(f.path) \notin Conventional /\ Dirs(f.path) \cap DirectUse = {}

(* The outermost directory of a legacy name; what is in it.                *)
LegacyDir(path) ==
  LET at == {k \in 1..(Len(path) - 1) : path[k] \in Legacy} IN
  IF at = {} THEN <<>> ELSE SubSeq(path, 1, CHOOSE k \in at : \A l \in at : k <= l)
Inside(files, dir) == {i \in DOMAIN files : LegacyDir(files[i].path) = dir}
LastChange(files, dir) == UNION {ToSet(files[i].changed) : i \in Inside(files, dir)}
Stale(files, dir, now) ==
  LET changes == LastChange(files, dir) IN
  changes # {} /\ \A t \in changes : now - t >= StaleDays

Candidates(files, reliable, now) ==
  {[path |-> f.path, confidence |-> IF f.language = "rust" THEN 2 ELSE 1, files |-> 0] :
     f \in {f \in ToSet(files) : IsCandidate(files, f, reliable)}}
  \cup
  {[path |-> dir, confidence |-> IF Stale(files, dir, now) THEN 2 ELSE 1,
    files |-> Cardinality(Inside(files, dir))] :
     dir \in {LegacyDir(f.path) : f \in ToSet(files)} \ {<<>>}}

DeadCode(files, reliable, now) ==
  Shorter(SetToSortSeq(Candidates(files, reliable, now),
            LAMBDA c, d : c.confidence > d.confidence
                          \/ (c.confidence = d.confidence /\ Order(c.path, d.path))),
          MaxCandidates)

-----------------------------------------------------------------------------
(* hotspots.rs. Ranks count halves: below twice, ties once, of 2 * count.  *)
Percentile(values, i) ==
  IF values[i] <= 0 THEN 0
  ELSE 2 * Cardinality({j \in DOMAIN values : values[j] < values[i]})
         + Cardinality({j \in DOMAIN values : values[j] = values[i]})

Score(files, i) ==
  LET Part(sum, w) == sum + w[2] * Percentile([j \in DOMAIN files |-> files[j][w[1]]], i)
      total == FoldLeft(Part, 0, Weights)
  IN (100 * total + Len(files)) \div (2 * Len(files))   \* round4, of 10000

Ranked(inputs) ==
  LET files == SelectSeq(inputs, LAMBDA f : f.commits >= MinCommits /\ f.size > 0)
      score == [i \in DOMAIN files |-> Score(files, i)]
      Ahead(i, j) ==
        \/ score[i] > score[j]
        \/ /\ score[i] = score[j]
           /\ \/ files[i].commits > files[j].commits
              \/ files[i].commits = files[j].commits /\ files[i].path < files[j].path
      order == SetToSortSeq(DOMAIN files, Ahead)
  IN [k \in DOMAIN order |-> files[order[k]]]
Hotspots(inputs) == Shorter(Ranked(inputs), HotLimit)

-----------------------------------------------------------------------------
(* similarity.rs. The signature has the least value of a shingle for each  *)
(* slot; files that agree in a whole band are compared.                    *)
Shingles(tokens) == {SubSeq(tokens, i, i + Shingle - 1) : i \in 1..(Len(tokens) - Shingle + 1)}
Signature(tokens) ==
  [slot \in 1..(Bands * Rows) |->
     LET values == {Permuted[slot][s] : s \in Shingles(tokens)} IN
     CHOOSE v \in values : \A w \in values : v <= w]
Band(b) == ((b - 1) * Rows + 1)..(b * Rows)
Equal(s, t) == {slot \in DOMAIN s : s[slot] = t[slot]}

(* Files of one bucket in their order, as many as are looked at.           *)
Bucket(signatures, b, i) ==
  LET all == {j \in DOMAIN signatures : Band(b) \subseteq Equal(signatures[i], signatures[j])} IN
  {j \in all : Cardinality({k \in all : k <= j}) <= MaxBucket}

Similar(files, threshold) ==
  LET large == {i \in DOMAIN files : Len(files[i].tokens) >= MinTokens /\ ~files[i].test}
      signatures == [i \in large |-> Signature(files[i].tokens)]
      Estimate(p) == Cardinality(Equal(signatures[p[1]], signatures[p[2]]))
      pairs == {p \in large \X large :
                  /\ p[1] < p[2] /\ files[p[1]].language = files[p[2]].language
                  /\ \E b \in 1..Bands : \E i \in large : {p[1], p[2]} \subseteq Bucket(signatures, b, i)
                  /\ Estimate(p) >= threshold}
      Nearer(p, q) ==
        \/ Estimate(p) > Estimate(q)
        \/ Estimate(p) = Estimate(q) /\ (p[1] < q[1] \/ (p[1] = q[1] /\ p[2] < q[2]))
  IN [pairs |-> Shorter(SetToSortSeq(pairs, Nearer), MaxPairs), note |-> Cardinality(pairs) > MaxPairs]

-----------------------------------------------------------------------------
(* complexity.rs: a report of functions, each with its measure and lines.  *)
Distribution(functions) ==
  [b \in DOMAIN Buckets |->
     Cardinality(Indexes(functions, LAMBDA f : f.value >= Buckets[b][1]
                                               /\ (Buckets[b][2] = 0 \/ f.value <= Buckets[b][2])))]
Longer(functions, i, j) ==
  LET f == functions[i] g == functions[j] IN
  \/ f.value > g.value
  \/ f.value = g.value /\ (f.lines > g.lines \/ (f.lines = g.lines /\ i < j))
Top(functions) == Shorter(SetToSortSeq(DOMAIN functions, LAMBDA i, j : Longer(functions, i, j)), TopFunctions)
(* Twice the median. *)
Median(functions) ==
  LET order == SetToSortSeq(DOMAIN functions, LAMBDA i, j : Longer(functions, i, j))
      n == Len(order)
      At(k) == functions[order[k]].value
  IN IF n = 0 THEN 0 ELSE At((n + 1) \div 2) + At((n \div 2) + 1)

-----------------------------------------------------------------------------
(* Candidates "are candidates, never verdicts": more use of a file makes   *)
(* none of the others one, except that the first module declaration shows  *)
(* that modules are declared at all; the list depends neither on the order *)
(* of the files nor on the tests among them; the code of legacy            *)
(* directories is counted once, and none of it has changed lately where it *)
(* is said to be stale.                                                    *)
UnusedIsListed(files, reliable, now) ==
  LET all == Candidates(files, reliable, now)
      Named(candidates) == {c.path : c \in {c \in candidates : c.files = 0}}
      Used(i, field, value) == [files EXCEPT ![i] = [@ EXCEPT ![field] = value]]
      dirs == {c \in all : c.files > 0}
      list == DeadCode(files, reliable, now)
  IN /\ \A i \in DOMAIN files :
          /\ Named(Candidates(Used(i, "dependents", 1), reliable, now)) \subseteq Named(all)
          /\ RustUsesModules(files) \/ files[i].language # "rust" =>
               Named(Candidates(Used(i, "declared", TRUE), reliable, now)) \subseteq Named(all)
     /\ DeadCode(Reverse(files), reliable, now) = list
     /\ \A c, d \in dirs : c # d => ~IsPrefix(c.path, d.path)
     /\ \A i \in DOMAIN files : Cardinality({c \in dirs : IsStrictPrefix(c.path, files[i].path)})
                                  = (IF Dirs(files[i].path) \cap Legacy = {} THEN 0 ELSE 1)
     /\ \A c \in dirs : c.confidence = 2 =>
          \A i \in DOMAIN files : IsStrictPrefix(c.path, files[i].path) =>
            \A t \in ToSet(files[i].changed) : now - t >= StaleDays
     /\ \A c \in all \ ToSet(list) : \A d \in ToSet(list) : d.confidence >= c.confidence

(* A file that is ahead of another in every signal is never ranked after   *)
(* it; the ranking does not depend on the order of the files; a file that  *)
(* does not qualify changes nothing for the others.                        *)
HotspotsAreAhead(inputs) ==
  LET ranked == Ranked(inputs)
      Ahead(f, g) == (\A w \in ToSet(Weights) : f[w[1]] >= g[w[1]]) /\ \E w \in ToSet(Weights) : f[w[1]] > g[w[1]]
      Qualified(f) == f.commits >= MinCommits /\ f.size > 0
  IN /\ \A i, j \in DOMAIN ranked : Ahead(ranked[i], ranked[j]) => i < j \/ Score(ranked, i) = Score(ranked, j)
     /\ Ranked(Reverse(inputs)) = ranked
     /\ Ranked(SelectSeq(inputs, Qualified)) = ranked
     /\ ToSet(ranked) = {f \in ToSet(inputs) : Qualified(f)}

(* Banding loses no pair that could not be told apart: two files of one    *)
(* language whose signatures differ in fewer slots than there are bands    *)
(* share a band, so that they are listed unless a bucket or the report is  *)
(* full; the same shingles always give an estimate of one.                 *)
NearlyEqualIsFound(files, threshold) ==
  LET found == Similar(files, threshold)
      large == {i \in DOMAIN files : Len(files[i].tokens) >= MinTokens /\ ~files[i].test}
      Differ(i, j) ==
        (Bands * Rows) - Cardinality(Equal(Signature(files[i].tokens), Signature(files[j].tokens)))
  IN ~found.note /\ Cardinality(large) <= MaxBucket =>
       \A i, j \in large : i < j /\ files[i].language = files[j].language =>
         /\ Differ(i, j) < Bands /\ (Bands * Rows) - Differ(i, j) >= threshold => Contains(found.pairs, <<i, j>>)
         /\ Shingles(files[i].tokens) = Shingles(files[j].tokens) => Contains(found.pairs, <<i, j>>)

(* Every function is in one bucket and the median is within the ends of a  *)
(* list that begins with the most complex.                                 *)
ComplexityAddsUp(functions) ==
  LET top == Top(functions) IN
  /\ FoldLeft(LAMBDA sum, n : sum + n, 0, Distribution(functions)) = Len(functions)
  /\ \A i \in DOMAIN functions : functions[i].value > 0 /\ ~Contains(top, i) =>
       \A k \in DOMAIN top : functions[top[k]].value >= functions[i].value
  /\ Cardinality(Indexes(functions, LAMBDA f : 2 * f.value >= Median(functions))) * 2 >= Len(functions)
  /\ Cardinality(Indexes(functions, LAMBDA f : 2 * f.value <= Median(functions))) * 2 >= Len(functions)
=============================================================================
