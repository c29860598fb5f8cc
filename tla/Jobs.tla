-------------------------------- MODULE Jobs --------------------------------
(***************************************************************************)
(* Background analyses of the local server: the job table of               *)
(* repodna-server (jobs.rs), the HTTP worker threads that start and cancel *)
(* jobs, one thread per job, and Server::run, which on Ctrl+C joins the    *)
(* workers and then cancels every job (lib.rs).                            *)
(*                                                                         *)
(* Jobs are named by their number. `next` is incremented while the table   *)
(* is locked, so the order of the VecDeque is the order of the numbers and *)
(* the deque is the set `queue`; its first element is the least one.       *)
(***************************************************************************)
EXTENDS Naturals, FiniteSets

CONSTANTS
  Workers,       \* HTTP worker threads (ServerOptions::workers)
  MaxRunning,    \* MAX_RUNNING: most analyses running at once
  KeepFinished,  \* KEEP_FINISHED: the table is trimmed above this length
  MaxStarts,     \* bound of the model: jobs ever started
  MayPanic,      \* TRUE: an analysis may panic and unwind its thread
  Nobody         \* the table is not locked

ASSUME JobsAssumption ==
  /\ MaxRunning \in Nat \ {0}
  /\ KeepFinished \in Nat
  /\ MaxRunning <= KeepFinished
  /\ MaxStarts \in Nat
  /\ MayPanic \in BOOLEAN
  /\ Nobody \notin Workers

VARIABLES
  next,      \* jobs numbered so far
  queue,     \* numbers of the jobs in the table
  status,    \* JobState.status of each job
  stored,    \* jobs whose JobState.scan_id is set
  cancel,    \* jobs whose cancellation token is set
  thread,    \* where the job's thread is
  holder,    \* the worker that holds the table's lock
  cursor,    \* last table entry the holder's search has looked at
  worker,    \* where each worker is
  target,    \* the job a worker's request is about, 0 for none
  main       \* where Server::run is: past "serving" its token is set (Ctrl+C)

vars == <<next, queue, status, stored, cancel, thread, holder, cursor,
          worker, target, main>>
jobVars == <<status, stored, thread>>

JobIds == 1..MaxStarts

Final == {"completed", "failed", "cancelled"}
JobStatus == {"none", "running"} \cup Final
Threads == {"none", "analyzing", "recording", "stored", "unstored", "failing",
            "stopping", "over"}
WorkerStates == {"idle", "polling", "trimming", "spawning", "cancelling", "exited"}

Stopping == main # "serving"

Running == {j \in JobIds : status[j] = "running"}

(* Entries the holder's search for a finished job has passed, and the rest. *)
Scanned == {j \in queue : j <= cursor}
Unscanned == queue \ Scanned

(***************************************************************************)
(* The decisions of the code, each preceded by the mutations of it that    *)
(* the properties must notice.                                             *)
(***************************************************************************)
AtCapacity_OffByOne == Cardinality(Running \cap queue) > MaxRunning
AtCapacity == Cardinality(Running \cap queue) >= MaxRunning

Number_BeforeAdd == next
Number == next + 1

TooLong_OffByOne == Cardinality(queue) > KeepFinished + 1
TooLong == Cardinality(queue) > KeepFinished

IsNext_AnyOrder(j) == j \in Unscanned
IsNext(j) == j \in Unscanned /\ \A k \in Unscanned : j <= k

Removable_Always(j) == j \in queue
Removable(j) == status[j] # "running"

(* The thread tests its job's token, not the server's. *)
Asked_ServerToken(j) == Stopping
Asked(j) == j \in cancel

WorkersJoined_NotAwaited == Stopping
WorkersJoined == \A w \in Workers : worker[w] = "exited"

CancelledByAll_NewestOnly(j) == j \in queue /\ \A k \in queue : k <= j
CancelledByAll(j) == j \in queue

-----------------------------------------------------------------------------

Init ==
  /\ next = 0
  /\ queue = {}
  /\ status = [j \in JobIds |-> "none"]
  /\ stored = {}
  /\ cancel = {}
  /\ thread = [j \in JobIds |-> "none"]
  /\ holder = Nobody
  /\ cursor = 0
  /\ worker = [w \in Workers |-> "idle"]
  /\ target = [w \in Workers |-> 0]
  /\ main = "serving"

(***************************************************************************)
(* A worker's loop: test the server's token, then wait for a request. The  *)
(* token may be set while it waits, and the request is still answered.     *)
(***************************************************************************)
Poll(w) ==
  /\ worker[w] = "idle"
  /\ worker' = [worker EXCEPT ![w] = IF Stopping THEN "exited" ELSE "polling"]
  /\ UNCHANGED <<next, queue, jobVars, cancel, holder, cursor, target, main>>

NoRequest(w) ==
  /\ worker[w] = "polling"
  /\ worker' = [worker EXCEPT ![w] = "idle"]
  /\ UNCHANGED <<next, queue, jobVars, cancel, holder, cursor, target, main>>

(***************************************************************************)
(* Jobs::start. The table stays locked from the count to the trimming, but *)
(* job threads change their own status meanwhile. A count that reads the   *)
(* entries one by one equals the number running at some moment of the      *)
(* count, and nobody else sees the table until it is unlocked, so counting *)
(* and appending are one step.                                             *)
(***************************************************************************)
Refuse(w) ==
  /\ worker[w] = "polling"
  /\ holder = Nobody
  /\ AtCapacity
  /\ worker' = [worker EXCEPT ![w] = "idle"]
  /\ UNCHANGED <<next, queue, jobVars, cancel, holder, cursor, target, main>>

Admit(w) ==
  /\ worker[w] = "polling"
  /\ holder = Nobody
  /\ next < MaxStarts
  /\ ~AtCapacity
  /\ next' = next + 1
  /\ status' = [status EXCEPT ![Number] = "running"]
  /\ queue' = queue \cup {Number}
  /\ holder' = w
  /\ cursor' = 0
  /\ worker' = [worker EXCEPT ![w] = "trimming"]
  /\ target' = [target EXCEPT ![w] = Number]
  /\ UNCHANGED <<stored, cancel, thread, main>>

(* `position` looks at one entry: a job that still runs is passed over ... *)
PassOver(w, j) ==
  /\ worker[w] = "trimming"
  /\ TooLong
  /\ IsNext(j)
  /\ ~Removable(j)
  /\ cursor' = j
  /\ UNCHANGED <<next, queue, jobVars, cancel, holder, worker, target, main>>

(* ... the first one that does not is removed, and the search starts again. *)
Evict(w, j) ==
  /\ worker[w] = "trimming"
  /\ TooLong
  /\ IsNext(j)
  /\ Removable(j)
  /\ queue' = queue \ {j}
  /\ cursor' = 0
  /\ UNCHANGED <<next, jobVars, cancel, holder, worker, target, main>>

(* The table is short enough, or the search found nothing to remove. *)
Unlock(w) ==
  /\ worker[w] = "trimming"
  /\ ~TooLong \/ Unscanned = {}
  /\ holder' = Nobody
  /\ cursor' = 0
  /\ worker' = [worker EXCEPT ![w] = "spawning"]
  /\ UNCHANGED <<next, queue, jobVars, cancel, target, main>>

Spawn(w) ==
  /\ worker[w] = "spawning"
  /\ thread' = [thread EXCEPT ![target[w]] = "analyzing"]
  /\ worker' = [worker EXCEPT ![w] = "idle"]
  /\ target' = [target EXCEPT ![w] = 0]
  /\ UNCHANGED <<next, queue, status, stored, cancel, holder, cursor, main>>

(***************************************************************************)
(* Jobs::cancel: the job is looked up under the lock, its token is set     *)
(* after the lock is released. A job that left the table is not found.     *)
(***************************************************************************)
FindToCancel(w, j) ==
  /\ worker[w] = "polling"
  /\ holder = Nobody
  /\ IF j \in queue
     THEN /\ worker' = [worker EXCEPT ![w] = "cancelling"]
          /\ target' = [target EXCEPT ![w] = j]
     ELSE /\ worker' = [worker EXCEPT ![w] = "idle"]
          /\ UNCHANGED target
  /\ UNCHANGED <<next, queue, jobVars, cancel, holder, cursor, main>>

SetCancel(w) ==
  /\ worker[w] = "cancelling"
  /\ cancel' = cancel \cup {target[w]}
  /\ worker' = [worker EXCEPT ![w] = "idle"]
  /\ target' = [target EXCEPT ![w] = 0]
  /\ UNCHANGED <<next, queue, jobVars, holder, cursor, main>>

-----------------------------------------------------------------------------
(***************************************************************************)
(* A job's thread: run_analysis, then the final update of the state. The   *)
(* token is tested at checkpoints; after the last one the analysis is      *)
(* recorded whatever the token says, and a failure to store it is only a   *)
(* warning.                                                                *)
(***************************************************************************)
Go(j, from, to) ==
  /\ thread[j] = from
  /\ thread' = [thread EXCEPT ![j] = to]

StopAtCheckpoint(j) ==
  /\ Asked(j)
  /\ Go(j, "analyzing", "stopping")
  /\ UNCHANGED <<next, queue, status, stored, cancel, holder, cursor, worker,
                 target, main>>

PassLastCheckpoint(j) ==
  /\ ~Asked(j)
  /\ Go(j, "analyzing", "recording")
  /\ UNCHANGED <<next, queue, status, stored, cancel, holder, cursor, worker,
                 target, main>>

AnalysisFails(j) ==
  /\ Go(j, "analyzing", "failing")
  /\ UNCHANGED <<next, queue, status, stored, cancel, holder, cursor, worker,
                 target, main>>

Record(j) ==
  /\ \/ Go(j, "recording", "stored")
     \/ Go(j, "recording", "unstored")
  /\ UNCHANGED <<next, queue, status, stored, cancel, holder, cursor, worker,
                 target, main>>

Outcome(t) ==
  CASE t \in {"stored", "unstored"} -> "completed"
    [] t = "failing"                -> "failed"
    [] t = "stopping"               -> "cancelled"

Finish(j) ==
  /\ thread[j] \in {"stored", "unstored", "failing", "stopping"}
  /\ status' = [status EXCEPT ![j] = Outcome(thread[j])]
  /\ stored' = IF thread[j] = "stored" THEN stored \cup {j} ELSE stored
  /\ thread' = [thread EXCEPT ![j] = "over"]
  /\ UNCHANGED <<next, queue, cancel, holder, cursor, worker, target, main>>

(* Nothing catches an unwinding job thread: its status stays "running". *)
Panic(j) ==
  /\ MayPanic
  /\ Go(j, "analyzing", "over")
  /\ UNCHANGED <<next, queue, status, stored, cancel, holder, cursor, worker,
                 target, main>>

-----------------------------------------------------------------------------
(* Server::run: serve until the token is set, join the workers, cancel all. *)
RequestStop ==
  /\ main = "serving"
  /\ main' = "joining"
  /\ UNCHANGED <<next, queue, jobVars, cancel, holder, cursor, worker, target>>

JoinWorkers ==
  /\ main = "joining"
  /\ WorkersJoined
  /\ main' = "cancelling"
  /\ UNCHANGED <<next, queue, jobVars, cancel, holder, cursor, worker, target>>

CancelAll ==
  /\ main = "cancelling"
  /\ holder = Nobody
  /\ cancel' = cancel \cup {j \in JobIds : CancelledByAll(j)}
  /\ main' = "returned"
  /\ UNCHANGED <<next, queue, jobVars, holder, cursor, worker, target>>

-----------------------------------------------------------------------------

(* Steps a worker takes by itself once it has a request. *)
Serve(w) ==
  \/ Poll(w)
  \/ NoRequest(w)
  \/ \E j \in JobIds : PassOver(w, j) \/ Evict(w, j)
  \/ Unlock(w)
  \/ Spawn(w)
  \/ SetCancel(w)

Receive(w) ==
  \/ Refuse(w)
  \/ Admit(w)
  \/ \E j \in JobIds : FindToCancel(w, j)

Analyze(j) ==
  \/ StopAtCheckpoint(j)
  \/ PassLastCheckpoint(j)
  \/ AnalysisFails(j)
  \/ Record(j)
  \/ Finish(j)
  \/ Panic(j)

Next ==
  \/ \E w \in Workers : Serve(w) \/ Receive(w)
  \/ \E j \in JobIds : Analyze(j)
  \/ RequestStop
  \/ JoinWorkers
  \/ CancelAll

Spec == Init /\ [][Next]_vars

(***************************************************************************)
(* Threads keep running. An analysis that is not cancelled may take        *)
(* forever (no fairness on PassLastCheckpoint or AnalysisFails): all that  *)
(* is assumed is that a cancelled one reaches its next checkpoint.         *)
(***************************************************************************)
Fairness ==
  /\ \A w \in Workers : WF_vars(Serve(w))
  /\ \A j \in JobIds : WF_vars(StopAtCheckpoint(j) \/ Record(j) \/ Finish(j))
  /\ WF_vars(JoinWorkers)
  /\ WF_vars(CancelAll)

FairSpec == Spec /\ Fairness

-----------------------------------------------------------------------------

TypeOK ==
  /\ next \in 0..MaxStarts
  /\ queue \subseteq 1..next
  /\ status \in [JobIds -> JobStatus]
  /\ stored \subseteq JobIds
  /\ cancel \subseteq JobIds
  /\ thread \in [JobIds -> Threads]
  /\ holder \in Workers \cup {Nobody}
  /\ cursor \in 0..MaxStarts
  /\ worker \in [Workers -> WorkerStates]
  /\ target \in [Workers -> 0..next]
  /\ main \in {"serving", "joining", "cancelling", "returned"}

(* Never more than MAX_RUNNING analyses run at once (jobs.rs:14), although  *)
(* requests arrive on several workers and jobs end while they are counted. *)
AtMostMaxRunning == Cardinality(Running) <= MaxRunning

(* A running job is always in the table: trimming never makes a running    *)
(* analysis invisible to polling, to cancel, to cancel_all or to the count. *)
RunningListed == Running \subseteq queue

(* The table is never left longer than KEEP_FINISHED: the search for a     *)
(* finished job to drop cannot come back empty-handed, even though it      *)
(* reads each status at a different moment.                                *)
TableBounded == holder = Nobody => Cardinality(queue) <= KeepFinished

(* A finished job can be polled for long: it leaves the table only after   *)
(* KEEP_FINISHED - MAX_RUNNING + 1 later jobs were started.                 *)
PollableLongEnough ==
  \A j \in 1..next :
    j \notin queue => next - j + MaxRunning >= KeepFinished + 1

(* Once Server::run has returned, every job that still runs has been told  *)
(* to stop: no worker can start a job behind the back of cancel_all.       *)
NoneEscapesShutdown ==
  main = "returned" => Running \subseteq cancel

(* A cancellation the server accepted ends the job, in whatever state the  *)
(* request found it.                                                       *)
CancelEndsJob ==
  \A j \in JobIds :
    (\E w \in Workers : worker[w] = "cancelling" /\ target[w] = j)
      ~> status[j] # "running"

(* After Ctrl+C the server returns and every analysis comes to an end.     *)
ShutdownQuiesces == Stopping ~> (main = "returned" /\ Running = {})
=============================================================================
