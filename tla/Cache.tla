------------------------------- MODULE Cache -------------------------------
(***************************************************************************)
(* The per-file analysis cache of repodna-store (cache.rs): compressed     *)
(* results under keys that cover the content, used by the file pass of     *)
(* analyses that run in several processes and threads, each through a      *)
(* connection of its own. A transaction is one step, except where one      *)
(* reads before it writes: SQLite then refuses the write if somebody else  *)
(* has committed since the read. Failures are ignored by the callers.      *)
(***************************************************************************)
EXTENDS Naturals, FiniteSets

CONSTANTS
  Procs,         \* analyses that share the cache
  Keys,          \* cache keys, numbered in their order as text
  Size,          \* compressed size of the result under each key
  Limit,         \* Store.cache_limit
  MaxTime,       \* bound of the model: seconds that pass
  MayFail        \* TRUE: writes fail, analyses are cancelled or die

ASSUME CacheAssumption ==
  /\ Keys \subseteq Nat /\ IsFiniteSet(Keys)
  /\ Size \in [Keys -> Nat]
  /\ Limit \in Nat
  /\ MaxTime \in Nat
  /\ MayFail \in BOOLEAN

VARIABLES
  now,        \* the clock, in seconds
  cached,     \* keys of cache_entries
  created,    \* created_at of each entry
  used,       \* last_used_at of each entry
  pc,         \* where each analysis is
  touched,    \* keys it has read since it opened the store
  misses,     \* keys it has missed in the current chunk
  stamp,      \* the time it read for its next write
  excess,     \* bytes its eviction is to free
  victims,    \* keys its eviction has selected
  fresh,      \* analyses that have selected from the current database
  measured,   \* history: those that have measured the current database
  began,      \* history: when the analysis began
  mine,       \* history: keys it has read or written, the last to do so
  unpaid      \* history: entries were added that no eviction has counted

entries == <<cached, created, used>>
local == <<pc, touched, misses, stamp, excess, victims, began, mine>>
readers == <<fresh, measured>>
vars == <<now, cached, created, used, pc, touched, misses, stamp, excess,
          victims, fresh, measured, began, mine, unpaid>>

Evicting == {"select", "delete"}
Idle(p) == pc[p] = "idle"

(* What results take together is the number of their bytes.               *)
Content(k) == {k} \X (1..Size[k])
Bytes(S) == Cardinality(UNION {Content(k) : k \in S})

(* ORDER BY last_used_at, created_at, key *)
Before(j, k) ==
  \/ used[j] < used[k]
  \/ used[j] = used[k] /\ created[j] < created[k]
  \/ used[j] = used[k] /\ created[j] = created[k] /\ j < k

(* Rows are taken in that order while what they free is too little. *)
Victims_OneMore(x) ==
  {k \in cached : Bytes({j \in cached : Before(j, k)}) <= x}
Victims(x) == {k \in cached : Bytes({j \in cached : Before(j, k)}) < x}

Excess_OffByOne == Bytes(cached) - Limit - 1
Excess == Bytes(cached) - Limit

(* A transaction that has read may write only on what it has read. *)
Current_Unchecked(p) == TRUE
Current(p) == p \in fresh

(* UPDATE ... WHERE key = ?2, for the keys that are still there. *)
Stamped_Never(p) == {}
Stamped_Upserted(p) == touched[p]
Stamped(p) == touched[p] \cap cached

Init ==
  /\ now = 0
  /\ cached = {}
  /\ created = [k \in Keys |-> 0]
  /\ used = [k \in Keys |-> 0]
  /\ pc = [p \in Procs |-> "idle"]
  /\ touched = [p \in Procs |-> {}]
  /\ misses = [p \in Procs |-> {}]
  /\ stamp = [p \in Procs |-> 0]
  /\ excess = [p \in Procs |-> 0]
  /\ victims = [p \in Procs |-> {}]
  /\ fresh = {}
  /\ measured = {}
  /\ began = [p \in Procs |-> 0]
  /\ mine = [p \in Procs |-> {}]
  /\ unpaid = FALSE

Goto(p, step) == pc' = [pc EXCEPT ![p] = step]

(* The analysis goes on without its cache, and its store is closed. *)
Leave(p) ==
  /\ Goto(p, "idle")
  /\ touched' = [touched EXCEPT ![p] = {}]
  /\ misses' = [misses EXCEPT ![p] = {}]
  /\ stamp' = [stamp EXCEPT ![p] = 0]
  /\ excess' = [excess EXCEPT ![p] = 0]
  /\ victims' = [victims EXCEPT ![p] = {}]
  /\ began' = [began EXCEPT ![p] = 0]
  /\ mine' = [mine EXCEPT ![p] = {}]

(* What p has read of the database no longer matters. *)
Forget(p) ==
  /\ fresh' = fresh \ {p}
  /\ measured' = measured \ {p}

Tick ==
  /\ now < MaxTime
  /\ now' = now + 1
  /\ UNCHANGED <<entries, local, readers, unpaid>>

-----------------------------------------------------------------------------
(* scan_files: each file of a chunk is looked up, then the misses of the   *)
(* chunk are stored; after the last chunk comes `finish`.                  *)

Open(p) ==
  /\ Idle(p)
  /\ Goto(p, "files")
  /\ began' = [began EXCEPT ![p] = now]
  /\ UNCHANGED <<now, entries, touched, misses, stamp, excess, victims, readers,
                 mine, unpaid>>

Get(p, k) ==
  /\ pc[p] = "files"
  /\ IF k \in cached
     THEN /\ touched' = [touched EXCEPT ![p] = @ \cup {k}]
          /\ mine' = [mine EXCEPT ![p] = @ \cup {k}]
          /\ UNCHANGED misses
     ELSE /\ misses' = [misses EXCEPT ![p] = @ \cup {k}]
          /\ UNCHANGED <<touched, mine>>
  /\ UNCHANGED <<now, entries, pc, stamp, excess, victims, readers, began, unpaid>>

(* Both writes read the clock first and may then wait for the database. *)
ReadClock(p) ==
  /\ pc[p] = "files"
  /\ stamp' = [stamp EXCEPT ![p] = now]
  /\ Goto(p, IF misses[p] # {} THEN "put" ELSE "touch")
  /\ UNCHANGED <<now, entries, touched, misses, excess, victims, readers, began,
                 mine, unpaid>>

(* A commit that changes the rows K outdates what everybody else has read. *)
Commit(p, K) ==
  /\ fresh' = IF K = {} THEN fresh ELSE fresh \cap {p}
  /\ measured' = IF K = {} THEN measured ELSE measured \cap {p}

(* The rows of K now carry p's stamp, and nobody else's. *)
Stamp(p, K) ==
  /\ used' = [k \in Keys |-> IF k \in K THEN stamp[p] ELSE used[k]]
  /\ Commit(p, K)
  /\ stamp' = [stamp EXCEPT ![p] = 0]

Claim(p, K) ==
  mine' = [q \in Procs |-> IF q = p THEN mine[q] \cup K ELSE mine[q] \ K]

Put(p) ==
  /\ pc[p] = "put"
  /\ cached' = cached \cup misses[p]
  /\ created' = [k \in Keys |-> IF k \in misses[p] THEN stamp[p] ELSE created[k]]
  /\ Stamp(p, misses[p])
  /\ Claim(p, misses[p])
  /\ misses' = [misses EXCEPT ![p] = {}]
  /\ Goto(p, "files")
  /\ UNCHANGED <<now, touched, excess, victims, began, unpaid>>

PutFails(p) ==
  /\ MayFail
  /\ pc[p] = "put"
  /\ misses' = [misses EXCEPT ![p] = {}]
  /\ stamp' = [stamp EXCEPT ![p] = 0]
  /\ Goto(p, "files")
  /\ UNCHANGED <<now, entries, touched, excess, victims, readers, began, mine,
                 unpaid>>

(* finish: touch_used stamps what was read ... *)
Touch(p) ==
  /\ pc[p] = "touch"
  /\ Stamp(p, Stamped(p))
  /\ Claim(p, touched[p] \cap cached)
  /\ touched' = [touched EXCEPT ![p] = {}]
  /\ Goto(p, "measure")
  /\ UNCHANGED <<now, cached, created, misses, excess, victims, began, unpaid>>

TouchFails(p) ==
  /\ MayFail
  /\ pc[p] = "touch"
  /\ touched[p] # {}
  /\ mine' = [mine EXCEPT ![p] = @ \ touched[p]]
  /\ touched' = [touched EXCEPT ![p] = {}]
  /\ stamp' = [stamp EXCEPT ![p] = 0]
  /\ Goto(p, "measure")
  /\ UNCHANGED <<now, entries, misses, excess, victims, readers, began, unpaid>>

(* ... and evict_cache measures, selects and deletes. *)
Measure(p) ==
  /\ pc[p] = "measure"
  /\ unpaid' = FALSE
  /\ IF Bytes(cached) <= Limit
     THEN Leave(p)
     ELSE /\ excess' = [excess EXCEPT ![p] = Excess]
          /\ Goto(p, "select")
          /\ UNCHANGED <<touched, misses, stamp, victims, began, mine>>
  /\ measured' = measured \cup {p}
  /\ UNCHANGED <<now, entries, fresh>>

Select(p) ==
  /\ pc[p] = "select"
  /\ victims' = [victims EXCEPT ![p] = Victims(excess[p])]
  /\ fresh' = fresh \cup {p}
  /\ Goto(p, "delete")
  /\ UNCHANGED <<now, entries, touched, misses, stamp, excess, measured, began,
                 mine, unpaid>>

Delete(p) ==
  /\ pc[p] = "delete"
  /\ Current(p)
  /\ cached' = cached \ victims[p]
  /\ created' = [k \in Keys |-> IF k \in victims[p] THEN 0 ELSE created[k]]
  /\ used' = [k \in Keys |-> IF k \in victims[p] THEN 0 ELSE used[k]]
  /\ Commit(p, victims[p])
  /\ Leave(p)
  /\ UNCHANGED <<now, unpaid>>

(* SQLITE_BUSY_SNAPSHOT: the eviction is given up. *)
Conflict(p) ==
  /\ pc[p] = "delete"
  /\ ~Current(p)
  /\ unpaid' = TRUE
  /\ Forget(p)
  /\ Leave(p)
  /\ UNCHANGED <<now, entries>>

(* Cancelled between two chunks, failed or killed: `finish` is not run or   *)
(* not completed, and what was touched is forgotten.                       *)
Stop(p) ==
  /\ MayFail
  /\ ~Idle(p)
  /\ Forget(p)
  /\ unpaid' = TRUE
  /\ Leave(p)
  /\ UNCHANGED <<now, entries>>

(* clear_cache, by anybody: `repodna cache clear` and `clean`. *)
Clear ==
  /\ cached' = {}
  /\ created' = [k \in Keys |-> 0]
  /\ used' = [k \in Keys |-> 0]
  /\ fresh' = {}
  /\ measured' = {}
  /\ UNCHANGED <<now, local, unpaid>>

-----------------------------------------------------------------------------

Analysis(p) ==
  \/ Open(p)
  \/ \E k \in Keys : Get(p, k)
  \/ ReadClock(p)
  \/ Put(p)
  \/ PutFails(p)
  \/ Touch(p)
  \/ TouchFails(p)
  \/ Measure(p)
  \/ Select(p)
  \/ Delete(p)
  \/ Conflict(p)
  \/ Stop(p)

Next ==
  \/ \E p \in Procs : Analysis(p)
  \/ Clear
  \/ Tick

Spec == Init /\ [][Next]_vars

-----------------------------------------------------------------------------

TypeOK ==
  /\ now \in 0..MaxTime
  /\ cached \subseteq Keys
  /\ created \in [Keys -> 0..now]
  /\ used \in [Keys -> 0..now]
  /\ \A k \in Keys \ cached : created[k] = 0 /\ used[k] = 0
  /\ pc \in [Procs -> {"idle", "files", "put", "touch", "measure"} \cup Evicting]
  /\ touched \in [Procs -> SUBSET Keys]
  /\ misses \in [Procs -> SUBSET Keys]
  /\ stamp \in [Procs -> 0..now]
  /\ excess \in [Procs -> Nat]
  /\ victims \in [Procs -> SUBSET Keys]
  /\ fresh \subseteq Procs
  /\ measured \subseteq Procs
  /\ began \in [Procs -> 0..now]
  /\ mine \in [Procs -> SUBSET Keys]
  /\ unpaid \in BOOLEAN

Evicts(p) == pc[p] = "delete" /\ pc'[p] = "idle" /\ cached' # cached

(* An eviction removes the least recently used entries (cache.rs:5-6) at   *)
(* the moment it removes them, although it selected them before, while     *)
(* others wrote and stamped entries.                                       *)
EvictsOldestFirst ==
  [][\A p \in Procs : Evicts(p) =>
       \A j \in cached \ cached', k \in cached' : used[j] <= used[k]]_vars

(* What an analysis was the last to read or write is not evicted at its    *)
(* end in favour of an entry that was stamped before it began. Reads are   *)
(* stamped only at the end (touch_used), with a clock read before a wait.  *)
KeepsWhatItUsed ==
  [][\A p \in Procs : Evicts(p) =>
       \A j \in mine[p] \ cached', k \in cached' :
         j \in cached => used[k] >= began[p]]_vars

(* The cache is above its limit only while an analysis has yet to evict,   *)
(* or because the eviction that was to count the last entries did not      *)
(* happen.                                                                 *)
OverLimitIsOwed ==
  Bytes(cached) > Limit => unpaid \/ \E p \in Procs : ~Idle(p)

(* "Evicts the least recently used entries until the cache is within       *)
(* `limit` bytes." (cache.rs:79): if nothing was written since the cache   *)
(* was measured, an eviction removes neither too little nor too much.      *)
EvictsJustEnough ==
  [][\A p \in Procs : Evicts(p) /\ p \in measured =>
       /\ Bytes(cached') <= Limit
       /\ \A k \in cached \ cached' :
            Bytes(cached' \cup {k} \cup {j \in victims[p] : Before(k, j)}) > Limit
    ]_vars
=============================================================================
