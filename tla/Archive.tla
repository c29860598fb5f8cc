------------------------------ MODULE Archive ------------------------------
(***************************************************************************)
(* repodna_discovery::archive: extraction of a ZIP or TAR archive into a   *)
(* temporary directory, entry by entry, within limits that are applied     *)
(* while the bytes arrive. An entry has its name (a sequence of segments), *)
(* its kind, its size in bytes, and whether its compression is suspicious. *)
(***************************************************************************)
EXTENDS Naturals, FiniteSets, Sequences, SequencesExt

CONSTANTS
  MaxEntries,      \* max_entries
  MaxEntryBytes,   \* max_entry_bytes
  MaxTotalBytes    \* max_total_bytes

NoError == "none"
VersionControl == {".git"}

Start == [error |-> NoError, entries |-> 0, total |-> 0, files |-> 0, skipped |-> 0,
          disk |-> [p \in {} |-> 0]]
Stop(s, error) == [s EXCEPT !.error = error]
Skip(s) == [s EXCEPT !.skipped = @ + 1]

(* paths::normalize_relative *)
Normalized(name) ==
  LET Add(at, segment) ==
        IF ~at.inside \/ segment = "." THEN at
        ELSE IF segment # ".." THEN [at EXCEPT !.path = Append(@, segment)]
        ELSE IF at.path = <<>> THEN [at EXCEPT !.inside = FALSE]
        ELSE [at EXCEPT !.path = Front(@)]
  IN FoldLeft(Add, [inside |-> TRUE, path |-> <<>>], name)

-----------------------------------------------------------------------------
Parents(path) == {SubSeq(path, 1, n) : n \in 1..(Len(path) - 1)}
Directories(s) == UNION {Parents(path) : path \in DOMAIN s.disk}

(* What is read of a file: one byte more than allowed tells that it is too *)
(* large. Reads return `chunk` bytes at most.                              *)
Taken(size) == IF size > MaxEntryBytes + 1 THEN MaxEntryBytes + 1 ELSE size

OnDisk(s, path, length) ==
  [s EXCEPT !.disk = [p \in DOMAIN @ \cup {path} |-> IF p = path THEN length ELSE @[p]]]

(* A read that exceeds a limit is counted, and not written any more. *)
Write(s, path, size, chunk) ==
  LET taken == Taken(size)
      ends == {n \in 1..taken : n % chunk = 0 \/ n = taken}
      TooMuch(n) == n > MaxEntryBytes \/ s.total + n > MaxTotalBytes
      bad == {n \in ends : TooMuch(n)}
      first == CHOOSE n \in bad : \A m \in bad : n <= m
  IN IF (Parents(path) \cap DOMAIN s.disk # {}) \/ path \in Directories(s)
     THEN Stop(s, "io")
     ELSE IF bad = {}
     THEN [OnDisk(s, path, taken) EXCEPT !.total = @ + taken, !.files = @ + 1]
     ELSE [Stop(OnDisk(s, path, ((first - 1) \div chunk) * chunk),
                IF first > MaxEntryBytes THEN "per-file size" ELSE "total size")
             EXCEPT !.total = @ + first]

(* extract_zip and extract_tar: one entry. *)
Entry(s, kind, e, chunk) ==
  LET counted == [s EXCEPT !.entries = @ + 1]
      normal == Normalized(e.name)
      path == normal.path
  IN IF s.error # NoError THEN s
     ELSE IF counted.entries > MaxEntries THEN Stop(counted, "entry count")
     ELSE IF ~normal.inside THEN Stop(counted, "path traversal")
     ELSE IF path = <<>> THEN counted
     ELSE IF ToSet(path) \cap VersionControl # {} THEN Skip(counted)
     ELSE IF e.kind = "directory" THEN counted
     ELSE IF e.kind = "link" THEN Skip(counted)
     ELSE IF kind = "zip" /\ e.suspicious THEN Stop(counted, "compression ratio")
     ELSE Write(counted, path, e.size, chunk)

Extract(kind, entries, chunk) ==
  FoldLeft(LAMBDA s, e : Entry(s, kind, e, chunk), Start, entries)

(* single_top_level_directory, or the directory of the extraction itself. *)
Root(s) ==
  LET top == {path[1] : path \in DOMAIN s.disk} IN
  IF Cardinality(top) = 1 /\ \A path \in DOMAIN s.disk : Len(path) > 1
  THEN <<CHOOSE name \in top : TRUE>> ELSE <<>>

-----------------------------------------------------------------------------
(* However the bytes arrive, nothing beyond the limits is ever written,    *)
(* an archive is accepted exactly when it stays within all of them, and    *)
(* then what is analyzed is complete: every file is there, whole, below    *)
(* the root, and every entry that is left out is told.                     *)
ArchivesAreWholeOrRefused(kind, entries, chunk) ==
  LET s == Extract(kind, entries, chunk)
      Path(i) == Normalized(entries[i].name).path
      Safe(i) == Normalized(entries[i].name).inside
      kept == {i \in DOMAIN entries : Safe(i) /\ Path(i) # <<>> /\ ".git" \notin ToSet(Path(i))}
      files == {i \in kept : entries[i].kind = "file"}
      Sum(S, Of(_)) == FoldLeft(LAMBDA n, x : n + x, 0, [i \in 1..Cardinality(S) |-> Of(SetToSeq(S)[i])])
      Size(i) == entries[i].size
      Length(path) == s.disk[path]
      acceptable ==
        /\ Len(entries) <= MaxEntries /\ \A i \in DOMAIN entries : Safe(i)
        /\ \A i \in files : /\ Size(i) <= MaxEntryBytes
                            /\ kind = "tar" \/ ~entries[i].suspicious
        /\ Sum(files, Size) <= MaxTotalBytes
        /\ \A i, j \in files : Path(i) \notin Parents(Path(j))
  IN /\ \A path \in DOMAIN s.disk : s.disk[path] <= MaxEntryBytes
     /\ Sum(DOMAIN s.disk, Length) <= MaxTotalBytes
     /\ s.error = NoError <=> acceptable
     /\ s.error = NoError =>
          /\ DOMAIN s.disk = {Path(i) : i \in files} /\ s.files = Cardinality(files)
          /\ \A i \in files : (\A j \in files : Path(j) = Path(i) => j <= i) =>
               s.disk[Path(i)] = Size(i)
          /\ \A path \in DOMAIN s.disk : IsPrefix(Root(s), path) /\ path # Root(s)
          /\ s.skipped = Cardinality({i \in DOMAIN entries : Path(i) # <<>> /\ i \notin kept}
                                     \cup {i \in kept : entries[i].kind = "link"})
=============================================================================
