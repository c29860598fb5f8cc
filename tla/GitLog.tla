------------------------------- MODULE GitLog -------------------------------
(***************************************************************************)
(* repodna_git::log: the reader of `git log --raw --numstat -z`. A stream  *)
(* is a sequence of symbols: the separators RS, US, NUL, TAB and NL, the   *)
(* colon that begins a raw entry, and words.                               *)
(***************************************************************************)
EXTENDS Naturals, Sequences, SequencesExt

CONSTANT CheckEvery  \* commits between two looks at the token (256)

Blank == {"NL", " "}
Numbers == {"0", "1", "2"}
Number(word) == CHOOSE n \in 0..2 : ToString(n) = word

Split(symbols, separator) ==
  LET Parts[i \in 0..Len(symbols)] ==
        IF i = 0 THEN << <<>> >>
        ELSE LET parts == Parts[i - 1] IN
             IF symbols[i] = separator THEN Append(parts, <<>>)
             ELSE [parts EXCEPT ![Len(parts)] = Append(@, symbols[i])]
  IN Parts[Len(symbols)]

(* Without the members of `blank` at its start, or at both ends. *)
TrimStart(token, blank) ==
  LET kept == {i \in DOMAIN token : token[i] \notin blank} IN
  IF kept = {} THEN <<>> ELSE SubSeq(token, CHOOSE i \in kept : \A j \in kept : i <= j, Len(token))
Trim(token) == Reverse(TrimStart(Reverse(TrimStart(token, Blank)), Blank))

(* tokens.get(index), or nothing beyond the end. *)
Get(tokens, i) == IF i \in DOMAIN tokens THEN tokens[i] ELSE <<>>

StatusFrom(code) ==
  IF code \in {"A", "M", "D", "R", "C", "T"} THEN code ELSE "other"

(* added TAB deleted TAB path, dashes for a binary file; or nothing. *)
SplitNumstat(token) ==
  LET tabs == {i \in DOMAIN token : token[i] = "TAB"}
      AreCounts(a, d) == (a = "-" /\ d = "-") \/ {a, d} \subseteq Numbers
  IN IF {2, 4} \subseteq tabs /\ AreCounts(token[1], token[3])
     THEN <<[counts |-> <<token[1], token[3]>>, rest |-> SubSeq(token, 5, Len(token))]>>
     ELSE <<>>

(* Where a numstat entry of a rename or copy, whose own path is empty, has *)
(* its new path: after the old one.                                        *)
NewPath(i) == i + 1

RECURSIVE Scan(_, _, _)
Scan(tokens, i, found) ==
  IF i > Len(tokens) THEN found
  ELSE LET token == TrimStart(tokens[i], {"NL"})
           numstat == SplitNumstat(token)
       IN IF token # <<>> /\ Head(token) = ":"
          THEN LET status == StatusFrom(Last(token))
                   moved == status \in {"R", "C"}
                   change == [status |-> status, insertions |-> 0, deletions |-> 0, binary |-> FALSE,
                              old |-> IF moved THEN <<Get(tokens, i + 1)>> ELSE <<>>,
                              path |-> Get(tokens, IF moved THEN i + 2 ELSE i + 1)]
               IN Scan(tokens, IF moved THEN i + 3 ELSE i + 2,
                       [found EXCEPT !.changes = Append(@, change)])
          ELSE IF numstat # <<>>
          THEN LET rest == numstat[1].rest
                   stat == [counts |-> numstat[1].counts,
                            path |-> IF rest = <<>> THEN Get(tokens, NewPath(i + 1)) ELSE rest]
               IN Scan(tokens, IF rest = <<>> THEN i + 3 ELSE i + 1,
                       [found EXCEPT !.stats = Append(@, stat)])
          ELSE Scan(tokens, i + 1, found)

(* Counts go to the change at the same position, or to the first that has  *)
(* the path when the orders disagree.                                      *)
Target(changes, position, path) ==
  IF position \in DOMAIN changes /\ changes[position].path = path THEN {position}
  ELSE LET same == {i \in DOMAIN changes : changes[i].path = path} IN
       {i \in same : \A j \in same : i <= j}

Counted(change, counts) ==
  IF counts = <<"-", "-">> THEN [change EXCEPT !.binary = TRUE]
  ELSE [change EXCEPT !.insertions = Number(counts[1]), !.deletions = Number(counts[2])]

Merged(found) ==
  LET Count(changes, stat, target) ==
        [i \in DOMAIN changes |-> IF i \in target THEN Counted(changes[i], stat.counts) ELSE changes[i]]
      Add(changes, position) ==
        LET stat == found.stats[position] IN
        Count(changes, stat, Target(changes, position, stat.path))
  IN FoldLeft(Add, found.changes, [i \in DOMAIN found.stats |-> i])

ParseChanges(body) == Merged(Scan(Split(body, "NUL"), 1, [changes |-> <<>>, stats |-> <<>>]))

(* The fields are the hash, the parents, the name and address, the time,   *)
(* the zone and the subject, which may have separators in it.              *)
IsHash(field) == Len(field) = 1 /\ field[1] \in {"h1", "h2", "h3"}
IsTime(field) == Len(field) = 1 /\ field[1] \in {"t1", "t2"}

Commit(fields, body) ==
  IF Len(fields) < 7 \/ ~IsHash(fields[1]) \/ ~IsTime(fields[5]) THEN <<>>
  ELSE <<[hash |-> fields[1], parents |-> fields[2], author |-> fields[3], time |-> fields[5],
        subject |-> Trim(FlattenSeq([i \in 1..(Len(fields) - 6) |->
                                       IF i = 1 THEN fields[7] ELSE <<" ">> \o fields[6 + i]])),
        changes |-> ParseChanges(body)]>>

ParseRecord(record) ==
  LET nul == SelectInSeq(record, LAMBDA s : s = "NUL") IN
  IF nul = 0 THEN Commit(Split(record, "US"), <<>>)
  ELSE Commit(Split(SubSeq(record, 1, nul - 1), "US"), SubSeq(record, nul + 1, Len(record)))

(* cancelAt: the number of commits after which the token is set. *)
ParseStream(stream, cancelAt) ==
  LET records == SelectSeq(Split(stream, "RS"), LAMBDA r : ~ToSet(r) \subseteq Blank)
      Emit(read, commit) ==
        LET count == Len(read.commits) + 1 IN
        IF read.outcome # "read" THEN read
        ELSE IF commit = <<>> THEN [read EXCEPT !.outcome = "error"]
        ELSE [outcome |-> IF count % CheckEvery = 0 /\ count >= cancelAt THEN "cancelled" ELSE "read",
              commits |-> Append(read.commits, commit[1])]
  IN FoldLeft(LAMBDA read, record : Emit(read, ParseRecord(record)),
              [outcome |-> "read", commits |-> <<>>], records)

-----------------------------------------------------------------------------
(* What git prints for a commit, newest commit first. `numstats` is the    *)
(* order of its numstat entries.                                           *)
Printed(commit, numstats) ==
  LET Raw(c) == <<":", c.status, "NUL">> \o (IF c.old # <<>> THEN c.old[1] \o <<"NUL">> ELSE <<>>)
                  \o c.path \o <<"NUL">>
      Counts(c) == IF c.binary THEN <<"-", "TAB", "-", "TAB">>
                   ELSE <<ToString(c.insertions), "TAB", ToString(c.deletions), "TAB">>
      Numstat(c) == Counts(c) \o (IF c.old # <<>> THEN <<"NUL">> \o c.old[1] \o <<"NUL">> ELSE <<>>)
                      \o c.path \o <<"NUL">>
  IN <<"RS">> \o commit.hash \o <<"US">> \o commit.parents \o <<"US">> \o commit.author
       \o <<"US", "e", "US">> \o commit.time \o <<"US", "+0000", "US">> \o commit.subject \o <<"NUL", "NL">>
       \o FlattenSeq([i \in DOMAIN commit.changes |-> Raw(commit.changes[i])])
       \o FlattenSeq([i \in DOMAIN commit.changes |-> Numstat(commit.changes[numstats[i]])])

Truncated(read, maxCommits) ==
  LET truncated == maxCommits > 0 /\ Len(read.commits) > maxCommits IN
  [outcome |-> read.outcome, truncated |-> truncated,
   commits |-> IF truncated THEN SubSeq(read.commits, 1, maxCommits) ELSE read.commits]

ReadHistory(commits, numstats, maxCommits, cancelAt) ==
  LET asked == IF maxCommits = 0 THEN Len(commits) ELSE maxCommits + 1
      printed == SubSeq(commits, 1, IF asked < Len(commits) THEN asked ELSE Len(commits))
      stream == FlattenSeq([i \in DOMAIN printed |-> Printed(printed[i], numstats[i])])
  IN Truncated(ParseStream(stream, cancelAt), maxCommits)

(* The history read is the history written: names with colons, tabs and    *)
(* line breaks, binary files, renames, whatever the order of the counts,   *)
(* and a subject with separators becomes one with spaces. A limit that is  *)
(* not reached leaves no mark of a truncation. A cancelled reading is      *)
(* never a shorter history.                                                *)
IsHistory(result, commits, maxCommits, cancelAt) ==
  LET Spaced(commit) ==
        [commit EXCEPT !.subject = Trim([i \in DOMAIN @ |-> IF @[i] = "US" THEN " " ELSE @[i]])]
      shown == IF maxCommits > 0 /\ maxCommits < Len(commits) THEN maxCommits ELSE Len(commits)
  IN IF result.outcome = "cancelled" THEN cancelAt <= Len(commits)
     ELSE result = [outcome |-> "read", truncated |-> shown < Len(commits),
                    commits |-> [i \in 1..shown |-> Spaced(commits[i])]]

HistoryIsReadAsWritten(commits, numstats, maxCommits, cancelAt) ==
  IsHistory(ReadHistory(commits, numstats, maxCommits, cancelAt), commits, maxCommits, cancelAt)
=============================================================================
