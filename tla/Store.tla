------------------------------- MODULE Store -------------------------------
(***************************************************************************)
(* The local store of repodna-store: an artifact file for every scan, a    *)
(* descriptor per repository, and a SQLite index of both that can be       *)
(* rebuilt from the files. Several processes and threads use it at once    *)
(* (command line, server jobs, desktop), each through a connection of its  *)
(* own. A transaction is one step; between two writes anything may happen, *)
(* a crash or an error of the operation included.                          *)
(*                                                                         *)
(* Repositories and scans are numbered in the order of their identifiers,  *)
(* which is the order of the paths artifacts/<repository>/<scan>.json.     *)
(***************************************************************************)
EXTENDS Naturals, FiniteSets

CONSTANTS
  Procs,        \* processes and threads using the store
  Repos,        \* repositories (RepositoryLocation::id)
  Scans,        \* scans (analysis_metadata.id)
  At,           \* generated_at of each scan, in seconds
  Analyses,     \* <<r, s>>: an analysis of repository r may give scan s
  Imports,      \* <<r, s>>: an imported artifact s is stored under r
  DeletesAlone, \* TRUE: deletions overlap no other operation
  MayReset,     \* TRUE: the index may be lost (reset, damaged database)
  Followed      \* bound of the model: the <<r, s>> whose history is kept

Entries == Repos \X Scans

ASSUME StoreAssumption ==
  /\ Repos \subseteq Nat \ {0}
  /\ Scans \subseteq Nat \ {0}
  /\ At \in [Scans -> Nat]
  /\ Analyses \subseteq Entries
  /\ Imports \subseteq Entries
  /\ DeletesAlone \in BOOLEAN
  /\ MayReset \in BOOLEAN
  /\ Followed \subseteq Entries

VARIABLES
  files,         \* <<r, s>>: the artifact of s is in the directory of r
  descriptors,   \* repositories whose repository.json is there
  rows,          \* <<r, s>>: row of table `scans`; s is its key
  repositories,  \* rows of table `repositories`
  first, last,   \* their first_scanned_at and last_scanned_at
  robbed,        \* history: those of which another repository has taken a scan,
                 \* or a deletion one that had moved to them, since their dates
                 \* were last computed anew
  pc,            \* where each process is
  entry,         \* the repository and scan its operation is about
  todo,          \* what its directory removal or its rebuild has left to do
  done,          \* artifacts its rebuild has indexed
  kept,          \* history: followed analyses stored with Ok, not deleted since
  gone           \* history: followed ones deleted with Ok, not stored since

disk == <<files, descriptors>>
index == <<rows, repositories, first, last, robbed>>
local == <<pc, entry, todo, done>>
history == <<kept, gone>>
vars == <<files, descriptors, rows, repositories, first, last, robbed, pc, entry,
          todo, done, kept, gone>>

NoEntry == <<0, 0>>
Writing == {"artifact", "descriptor", "stat", "commit"}
Deleting == {"drop", "unlink", "sweep"}
Repairing == {"rebuild", "restat", "recommit"}

Idle(p) == pc[p] = "idle"
Alone(p) == \A q \in Procs \ {p} : Idle(q)

MayStart(p) ==
  /\ Idle(p)
  /\ DeletesAlone => \A q \in Procs : pc[q] \notin Deleting
MayDelete(p) ==
  /\ Idle(p)
  /\ DeletesAlone => Alone(p)

Earlier(a, b) == IF a < b THEN a ELSE b
Later(a, b) == IF a < b THEN b ELSE a

Before(e, f) == e[1] < f[1] \/ (e[1] = f[1] /\ e[2] < f[2])

RowsOf(r) == {e \in rows : e[1] = r}

(* A row is found by the scan alone, whoever it belongs to.                *)
Strangers(r, s) == {e[1] : e \in {f \in rows : f[2] = s /\ f[1] # r}}

(***************************************************************************)
(* The decisions of the code, preceded by the mutations of them that the   *)
(* properties must notice.                                                 *)
(***************************************************************************)

(* What is in artifacts/<r>; <<r, 0>> stands for its repository.json. *)
Directory_Artifacts(r) == files \cup (descriptors \X {0}) \cup {NoEntry}
Directory(r) == {e \in files \cup (descriptors \X {0}) : e[1] = r}

(* Rows left when scan s is indexed again, or deleted. *)
Others_SameRepository(r, s) == {e \in rows : e[1] # r}
Others(r, s) == {e \in rows : e[2] # s}

(* ON CONFLICT ... MIN(first_scanned_at, excluded.first_scanned_at). *)
FirstSeen_Overwritten(r, s) == At[s]
FirstSeen(r, s) ==
  IF r \in repositories THEN Earlier(first[r], At[s]) ELSE At[s]

LastSeen(r, s) ==
  IF r \in repositories THEN Later(last[r], At[s]) ELSE At[s]

(* The scans of r that remain when s is deleted decide what else goes. *)
Emptied_OffByOne(r, s) == Cardinality(RowsOf(r) \ {<<r, s>>}) <= 1
Emptied(r, s) == RowsOf(r) \cap Others(r, s) = {}

(* The artifact of a deleted scan. *)
Unlinked_RowOnly(e) == files
Unlinked_Directory(e) == {f \in files : f[1] # e[1]}
Unlinked(e) == files \ {e}

-----------------------------------------------------------------------------

Init ==
  /\ files = {} /\ descriptors = {}
  /\ rows = {} /\ repositories = {} /\ robbed = {}
  /\ first = [r \in Repos |-> 0]
  /\ last = [r \in Repos |-> 0]
  /\ pc = [p \in Procs |-> "idle"]
  /\ entry = [p \in Procs |-> NoEntry]
  /\ todo = [p \in Procs |-> {}]
  /\ done = [p \in Procs |-> {}]
  /\ kept = {} /\ gone = {}

Goto(p, step) == pc' = [pc EXCEPT ![p] = step]

Return(p) ==
  /\ Goto(p, "idle")
  /\ entry' = [entry EXCEPT ![p] = NoEntry]
  /\ todo' = [todo EXCEPT ![p] = {}]
  /\ done' = [done EXCEPT ![p] = {}]

(***************************************************************************)
(* Store::record: the artifact, the descriptor, the size of the artifact   *)
(* on disk, then one transaction. An import is recorded the same way, but  *)
(* only if the index did not list the scan when it looked.                 *)
(***************************************************************************)
Start(p, e) ==
  /\ MayStart(p)
  /\ \/ e \in Analyses
     \/ e \in Imports /\ \A r \in Repos : <<r, e[2]>> \notin rows
  /\ Goto(p, "artifact")
  /\ entry' = [entry EXCEPT ![p] = e]
  /\ UNCHANGED <<disk, index, todo, done, history>>

WriteArtifact(p) ==
  /\ pc[p] = "artifact"
  /\ files' = files \cup {entry[p]}
  /\ gone' = gone \ {entry[p]}
  /\ Goto(p, "descriptor")
  /\ UNCHANGED <<descriptors, index, entry, todo, done, kept>>

WriteDescriptor(p) ==
  /\ pc[p] = "descriptor"
  /\ descriptors' = descriptors \cup {entry[p][1]}
  /\ Goto(p, "stat")
  /\ UNCHANGED <<files, index, entry, todo, done, history>>

Stat(p) ==
  /\ pc[p] \in {"stat", "restat"}
  /\ entry[p] \in files
  /\ Goto(p, IF pc[p] = "stat" THEN "commit" ELSE "recommit")
  /\ UNCHANGED <<disk, index, entry, todo, done, history>>

(* Store::index: upsert the repository, replace the row of the scan. *)
Index(r, s) ==
  /\ rows' = Others(r, s) \cup {<<r, s>>}
  /\ repositories' = repositories \cup {r}
  /\ first' = [first EXCEPT ![r] = FirstSeen(r, s)]
  /\ last' = [last EXCEPT ![r] = LastSeen(r, s)]
  /\ robbed' = robbed \cup Strangers(r, s)

Commit(p) ==
  /\ pc[p] = "commit"
  /\ Index(entry[p][1], entry[p][2])
  /\ kept' = kept \cup ({entry[p]} \cap Followed)
  /\ Return(p)
  /\ UNCHANGED <<disk, gone>>

-----------------------------------------------------------------------------
(***************************************************************************)
(* Store::delete_scan looks the scan up, then deletes its row and, with    *)
(* the last one, the repository's; only then does it touch the files: the  *)
(* artifact, or the whole directory of an emptied repository.              *)
(***************************************************************************)
FindScan(p, e) ==
  /\ MayDelete(p)
  /\ e \in rows
  /\ Goto(p, "drop")
  /\ entry' = [entry EXCEPT ![p] = e]
  /\ UNCHANGED <<disk, index, todo, done, history>>

(* The row of repository r goes, and with it what it said. *)
Forget(r) ==
  /\ repositories' = repositories \ {r}
  /\ first' = [first EXCEPT ![r] = 0]
  /\ last' = [last EXCEPT ![r] = 0]

Narrow(r, left) ==
  \E d, e \in left :
    /\ \A f \in left : At[d[2]] <= At[f[2]] /\ At[f[2]] <= At[e[2]]
    /\ first' = [first EXCEPT ![r] = At[d[2]]]
    /\ last' = [last EXCEPT ![r] = At[e[2]]]
    /\ UNCHANGED repositories

(* The transaction of delete_scan ... *)
DropScan(r, s) ==
  /\ rows' = Others(r, s)
  /\ robbed' = (robbed \ {r}) \cup Strangers(r, s)
  /\ IF Emptied(r, s)
     THEN Forget(r)
     ELSE Narrow(r, RowsOf(r) \cap Others(r, s))

(* ... and that of delete_repository: the scans go with their repository. *)
DropScans(r) ==
  /\ rows' = rows \ RowsOf(r)
  /\ robbed' = robbed \ {r}
  /\ Forget(r)

Drop(p) ==
  LET r == entry[p][1]
      s == entry[p][2]
  IN
  /\ pc[p] = "drop"
  /\ DropScan(r, s)
  /\ Goto(p, IF Emptied(r, s) THEN "sweep" ELSE "unlink")
  /\ todo' = [todo EXCEPT ![p] = IF Emptied(r, s) THEN Directory(r) ELSE {}]
  /\ kept' = kept \ {entry[p]}
  /\ UNCHANGED <<disk, entry, done, gone>>

Unlink(p) ==
  /\ pc[p] = "unlink"
  /\ files' = Unlinked(entry[p])
  /\ gone' = gone \cup ({entry[p]} \cap Followed)
  /\ Return(p)
  /\ UNCHANGED <<descriptors, index, kept>>

DropRepository(p, r) ==
  /\ MayDelete(p)
  /\ r \in repositories
  /\ DropScans(r)
  /\ Goto(p, "sweep")
  /\ entry' = [entry EXCEPT ![p] = <<r, 0>>]
  /\ todo' = [todo EXCEPT ![p] = Directory(r)]
  /\ kept' = {e \in kept : e[1] # r}
  /\ UNCHANGED <<disk, done, gone>>

(***************************************************************************)
(* fs::remove_dir_all removes the entries in any order. Entries that are   *)
(* added meanwhile may be seen and removed too; if one is left at the end  *)
(* the directory cannot be removed and the operation is an error.          *)
(***************************************************************************)
Sweep(p, e) ==
  /\ pc[p] = "sweep"
  /\ e \in Directory(entry[p][1])
  /\ files' = files \ {e}
  /\ descriptors' = IF e[2] = 0 THEN descriptors \ {e[1]} ELSE descriptors
  /\ todo' = [todo EXCEPT ![p] = @ \ {e}]
  /\ UNCHANGED <<index, pc, entry, done, history>>

RemoveDirectory(p) ==
  LET r == entry[p][1] IN
  /\ pc[p] = "sweep"
  /\ todo[p] \cap Directory(r) = {}
  /\ gone' = IF Directory(r) = {} THEN gone \cup (({r} \X Scans) \cap Followed) ELSE gone
  /\ Return(p)
  /\ UNCHANGED <<disk, index, kept>>

-----------------------------------------------------------------------------
(***************************************************************************)
(* repair: a damaged database is moved aside and an empty one created; the *)
(* artifacts found on disk are indexed one after the other in the order of *)
(* their paths. One without a descriptor, or that cannot be read, is       *)
(* skipped; an error while indexing ends the repair. A database is moved   *)
(* aside only while no other connection is open (see README).              *)
(***************************************************************************)
Wipe ==
  /\ rows' = {}
  /\ repositories' = {}
  /\ robbed' = {}
  /\ first' = [r \in Repos |-> 0]
  /\ last' = [r \in Repos |-> 0]

Repair(p, damaged) ==
  /\ MayStart(p)
  /\ IF damaged THEN MayReset /\ Alone(p) /\ Wipe ELSE UNCHANGED index
  /\ Goto(p, "rebuild")
  /\ todo' = [todo EXCEPT ![p] = files]
  /\ UNCHANGED <<disk, entry, done, history>>

Examine(p, e) ==
  /\ pc[p] = "rebuild"
  /\ e \in todo[p]
  /\ \A f \in todo[p] : ~Before(f, e)
  /\ todo' = [todo EXCEPT ![p] = @ \ {e}]
  /\ IF e \in files /\ e[1] \in descriptors
     THEN /\ Goto(p, "restat")
          /\ entry' = [entry EXCEPT ![p] = e]
     ELSE UNCHANGED <<pc, entry>>
  /\ UNCHANGED <<disk, index, done, history>>

Reindex(p) ==
  /\ pc[p] = "recommit"
  /\ Index(entry[p][1], entry[p][2])
  /\ done' = [done EXCEPT ![p] = @ \cup {entry[p]}]
  /\ entry' = [entry EXCEPT ![p] = NoEntry]
  /\ Goto(p, "rebuild")
  /\ UNCHANGED <<disk, todo, history>>

Repaired(p) ==
  /\ pc[p] = "rebuild"
  /\ todo[p] = {}
  /\ Return(p)
  /\ UNCHANGED <<disk, index, history>>

(* reset removes the database; callers close every connection before. *)
Reset ==
  /\ MayReset
  /\ \A p \in Procs : Idle(p)
  /\ Wipe
  /\ UNCHANGED <<disk, local, history>>

(* The operation fails, or its process dies, before its next write. *)
Stop(p) ==
  /\ ~Idle(p)
  /\ Return(p)
  /\ UNCHANGED <<disk, index, history>>

-----------------------------------------------------------------------------

Store(p) ==
  \/ \E e \in Analyses \cup Imports : Start(p, e)
  \/ WriteArtifact(p)
  \/ WriteDescriptor(p)
  \/ Stat(p)
  \/ Commit(p)

Delete(p) ==
  \/ \E e \in rows : FindScan(p, e)
  \/ Drop(p)
  \/ Unlink(p)
  \/ \E r \in Repos : DropRepository(p, r)
  \/ \E e \in Directory(entry[p][1]) : Sweep(p, e)
  \/ RemoveDirectory(p)

Rebuild(p) ==
  \/ \E damaged \in BOOLEAN : Repair(p, damaged)
  \/ \E e \in todo[p] : Examine(p, e)
  \/ Reindex(p)
  \/ Repaired(p)

Next ==
  \/ \E p \in Procs : Store(p) \/ Delete(p) \/ Rebuild(p) \/ Stop(p)
  \/ Reset

Spec == Init /\ [][Next]_vars

-----------------------------------------------------------------------------

TypeOK ==
  /\ files \subseteq Entries
  /\ descriptors \subseteq Repos
  /\ rows \subseteq Entries
  /\ repositories \subseteq Repos
  /\ first \in [Repos -> Nat]
  /\ last \in [Repos -> Nat]
  /\ robbed \subseteq Repos
  /\ pc \in [Procs -> {"idle"} \cup Writing \cup Deleting \cup Repairing]
  /\ entry \in [Procs -> Entries \cup (Repos \X {0}) \cup {NoEntry}]
  /\ todo \in [Procs -> SUBSET (Entries \cup (Repos \X {0}))]
  /\ done \in [Procs -> SUBSET Entries]
  /\ kept \subseteq Entries
  /\ gone \subseteq Entries

(* A scan is stored under one repository only: no two analyses of distinct *)
(* repositories give the same scan, and nothing analysed here is imported. *)
OneHome ==
  \A d, e \in Analyses \cup Imports : d[2] = e[2] => d[1] = e[1]

(* RepositoryRecord promises the times of the earliest and of the latest   *)
(* stored scan (store.rs:52-55). The upsert only widens them, a deletion   *)
(* computes them anew: no scan of any repository is ever outside of them,  *)
(* and they are times of scans it still has, unless one of its rows went   *)
(* with an operation on another repository (store.rs:373, :528).           *)
DateRangeExact ==
  /\ \A e \in rows : first[e[1]] <= At[e[2]] /\ At[e[2]] <= last[e[1]]
  /\ \A r \in repositories \ robbed :
       \E d, e \in RowsOf(r) : first[r] = At[d[2]] /\ last[r] = At[e[2]]

(* Every scan belongs to a listed repository, and a listed repository has  *)
(* a scan to show (load_stored's last error), unless another one took it.  *)
NoEmptyRepository ==
  LET owners == {e[1] : e \in rows} IN
  owners \subseteq repositories /\ repositories \subseteq owners \cup robbed

(* What was stored with Ok and not deleted since can always be indexed     *)
(* again: its artifact and the descriptor of its repository are on disk.   *)
KeptIsRecoverable ==
  \A e \in kept : e \in files /\ e[1] \in descriptors

(* A listed scan can be opened, and a rebuild of the index would list it   *)
(* again: its artifact and the descriptor of its repository are on disk.   *)
ListedIsRecoverable ==
  \A e \in rows : e \in files /\ e[1] \in descriptors

(* An analysis deleted with Ok is not listed again, by a repair or by an   *)
(* operation that was on its way, unless it is stored again.               *)
DeletedStaysDeleted == gone \cap rows = {}

(* `check` says that a repair indexes the artifacts that are not indexed   *)
(* (maintenance.rs:172): those it has been through and that are still      *)
(* there are.                                                              *)
RepairIndexes ==
  \A p \in Procs : done[p] \cap files \subseteq rows

(* The index is at every moment a catalogue of the scans it lists, and its *)
(* transactions put out of date only what they take from others.           *)
Listed == INSTANCE Catalogue WITH
  shelf <- rows, known <- repositories, from <- first, until <- last,
  outdated <- robbed
ImplementsCatalogue == Listed!CatalogueSpec
=============================================================================
