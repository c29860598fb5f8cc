-------------------------------- MODULE Walk --------------------------------
(***************************************************************************)
(* repodna_discovery::walk::discover: the walk of a repository by several  *)
(* threads, which share counters and lists and stop at a limit of files    *)
(* or at a cancellation. In which order the threads meet the entries, and  *)
(* when they notice that one of them has quit, is up to the `ignore` crate.*)
(***************************************************************************)
EXTENDS Naturals, FiniteSets

CONSTANTS
  Walkers,   \* the threads
  Paths,     \* numbers of the entries, in the order of their paths
  MaxFiles   \* DiscoveryOptions::max_files

VARIABLES
  entries,   \* what each path is: "file", "link", "directory" or "error"
  waiting,   \* paths that no thread has met
  held,      \* the file each thread has counted and not yet listed, or 0
  stopped,   \* threads that have ended
  quit,      \* TRUE: a thread has returned WalkState::Quit
  count, symlinks, errors, files, truncated,  \* the Collector
  cancelled, \* the token
  outcome    \* what discover returned: "walking", "cancelled" or the Discovery

collector == <<count, symlinks, errors, files, truncated>>
walkVars == <<entries, waiting, held, stopped, quit, collector, cancelled, outcome>>

WalkInit ==
  /\ entries \in [Paths -> {"file", "link", "directory", "error"}]
  /\ waiting = Paths
  /\ held = [t \in Walkers |-> 0]
  /\ stopped = {} /\ quit = FALSE
  /\ count = 0 /\ symlinks = 0 /\ errors = 0 /\ files = {} /\ truncated = FALSE
  /\ cancelled = FALSE
  /\ outcome = "walking"

CancelWalk ==
  /\ ~cancelled
  /\ cancelled' = TRUE
  /\ UNCHANGED <<entries, waiting, held, stopped, quit, collector, outcome>>

(* A thread takes the next entry and looks at the token first. *)
Meets(t, p) ==
  /\ t \notin stopped /\ held[t] = 0 /\ p \in waiting
  /\ waiting' = waiting \ {p}
  /\ UNCHANGED <<entries, cancelled, outcome>>

Quits(t) == quit' = TRUE /\ stopped' = stopped \cup {t}

VisitCancelled(t, p) ==
  /\ Meets(t, p) /\ cancelled
  /\ Quits(t)
  /\ UNCHANGED <<held, collector>>

VisitOther(t, p) ==
  /\ Meets(t, p) /\ ~cancelled /\ entries[p] # "file"
  /\ errors' = errors + (IF entries[p] = "error" THEN 1 ELSE 0)
  /\ symlinks' = symlinks + (IF entries[p] = "link" THEN 1 ELSE 0)
  /\ UNCHANGED <<held, stopped, quit, count, files, truncated>>

(* self.count.fetch_add(1) >= self.options.max_files *)
Full_OneMore(counted) == counted > MaxFiles
Full(counted) == counted >= MaxFiles

VisitFile(t, p) ==
  /\ Meets(t, p) /\ ~cancelled /\ entries[p] = "file"
  /\ count' = count + 1
  /\ IF Full(count) THEN truncated' = TRUE /\ Quits(t) /\ UNCHANGED held
     ELSE held' = [held EXCEPT ![t] = p] /\ UNCHANGED <<truncated, stopped, quit>>
  /\ UNCHANGED <<symlinks, errors, files>>

List(t) ==
  /\ held[t] # 0
  /\ files' = files \cup {held[t]}
  /\ held' = [held EXCEPT ![t] = 0]
  /\ UNCHANGED <<entries, waiting, stopped, quit, count, symlinks, errors, truncated, cancelled,
                 outcome>>

Stop(t) ==
  /\ t \notin stopped /\ held[t] = 0 /\ (quit \/ waiting = {})
  /\ stopped' = stopped \cup {t}
  /\ UNCHANGED <<entries, waiting, held, quit, collector, cancelled, outcome>>

First(paths, n) == {p \in paths : Cardinality({q \in paths : q < p}) < n}

FinishWalk ==
  /\ outcome = "walking" /\ stopped = Walkers
  /\ outcome' = IF cancelled THEN "cancelled" ELSE "found"
  /\ files' = First(files, MaxFiles)
  /\ UNCHANGED <<entries, waiting, held, stopped, quit, count, symlinks, errors, truncated,
                 cancelled>>

WalkNext ==
  \/ CancelWalk \/ FinishWalk
  \/ \E t \in Walkers, p \in Paths : VisitCancelled(t, p) \/ VisitOther(t, p) \/ VisitFile(t, p)
  \/ \E t \in Walkers : List(t) \/ Stop(t)

WalkSpec == WalkInit /\ [][WalkNext]_walkVars

-----------------------------------------------------------------------------
All(kind) == {p \in Paths : entries[p] = kind}

(* A walk that is not truncated has seen everything, whichever thread met  *)
(* what: a cancellation never leaves a discovery that only looks whole. A  *)
(* truncated one has as many files as it may, and there are more.          *)
WalksAreWhole ==
  outcome = "found" =>
    IF truncated
    THEN files \subseteq All("file") /\ Cardinality(files) = MaxFiles
         /\ Cardinality(All("file")) > MaxFiles
    ELSE /\ files = All("file")
         /\ symlinks = Cardinality(All("link")) /\ errors = Cardinality(All("error"))
=============================================================================
