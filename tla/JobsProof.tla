------------------------------ MODULE JobsProof ------------------------------
(***************************************************************************)
(* Proofs about Jobs for every set of workers and every limit.  They hold  *)
(* with MayPanic TRUE as well as FALSE.                                    *)
(***************************************************************************)
EXTENDS Jobs, FiniteSetTheorems, TLAPS

(* What the workers' program counters say about the lock and the new job.   *)
LockOK ==
  /\ \A w \in Workers : worker[w] = "trimming" <=> holder = w
  /\ \A w \in Workers : worker[w] = "spawning" => target[w] \in 1..next
  /\ \A w \in Workers : worker[w] = "spawning" /\ holder # Nobody => target[w] < next
  /\ \A w \in Workers : worker[w] = "cancelling" => target[w] \in 1..next

(* The job being added has no thread yet, and the search has not passed it. *)
NewJobOK ==
  holder # Nobody =>
    /\ next \in queue
    /\ status[next] = "running"
    /\ thread[next] = "none"
    /\ target[holder] = next
    /\ cursor < next

(* Numbers not given out belong to no job. *)
Fresh ==
  \A j \in JobIds : next < j => status[j] = "none" /\ thread[j] = "none"

(* While the table is trimmed, the entries passed over were running when    *)
(* they were read: together with those that still run they are few.         *)
TrimOK ==
  holder # Nobody =>
    /\ Cardinality(Scanned \cup Running) <= MaxRunning
    /\ Cardinality(queue) <= KeepFinished + 1

ShutdownOK ==
  /\ main \in {"cancelling", "returned"} => \A w \in Workers : worker[w] = "exited"
  /\ main = "returned" => queue \subseteq cancel

IInv ==
  /\ TypeOK
  /\ LockOK
  /\ NewJobOK
  /\ Fresh
  /\ TrimOK
  /\ ShutdownOK
  /\ AtMostMaxRunning
  /\ RunningListed
  /\ TableBounded
  /\ PollableLongEnough

-----------------------------------------------------------------------------

(* Every set of jobs is finite, and a subset of it is no larger. *)
LEMMA JobSets ==
  ASSUME NEW T, T \subseteq JobIds
  PROVE  /\ IsFiniteSet(T)
         /\ Cardinality(T) \in Nat
         /\ \A S : S \subseteq T => IsFiniteSet(S) /\ Cardinality(S) \in Nat
                                    /\ Cardinality(S) <= Cardinality(T)
<1>1. IsFiniteSet(JobIds)
  BY JobsAssumption, FS_Interval DEF JobIds
<1>2. \A U : U \subseteq JobIds => IsFiniteSet(U) /\ Cardinality(U) \in Nat
  BY <1>1, FS_Subset, FS_CardinalityType
<1>3. \A S : S \subseteq T => Cardinality(S) <= Cardinality(T)
  BY <1>2, FS_Subset
<1> QED BY <1>2, <1>3

LEMMA JobBounds ==
  ASSUME IInv
  PROVE  /\ next \in Nat /\ next <= MaxStarts
         /\ queue \subseteq 1..next /\ queue \subseteq JobIds
         /\ Running \subseteq queue /\ Scanned \subseteq queue
         /\ Scanned \cup Running \subseteq JobIds
         /\ IsFiniteSet(queue) /\ Cardinality(queue) \in Nat
         /\ IsFiniteSet(Running) /\ Cardinality(Running) \in Nat
         /\ IsFiniteSet(Scanned) /\ Cardinality(Scanned) \in Nat
         /\ IsFiniteSet(Scanned \cup Running) /\ Cardinality(Scanned \cup Running) \in Nat
<1>1. next \in Nat /\ next <= MaxStarts /\ queue \subseteq 1..next
  BY JobsAssumption DEF IInv, TypeOK
<1>2. queue \subseteq JobIds
  BY <1>1, JobsAssumption DEF JobIds
<1>3. Running \subseteq queue /\ Scanned \subseteq queue
  BY DEF IInv, RunningListed, Scanned
<1>4. Scanned \cup Running \subseteq JobIds /\ Running \subseteq JobIds /\ Scanned \subseteq JobIds
  BY <1>2, <1>3
<1> QED BY <1>1, <1>2, <1>3, <1>4, JobSets

LEMMA InitInv == Init => IInv
<1> SUFFICES ASSUME Init PROVE IInv
  OBVIOUS
<1> USE JobsAssumption
<1>1. TypeOK
  BY DEF Init, TypeOK, JobStatus, Threads, WorkerStates
<1>2. Running = {} /\ queue = {} /\ holder = Nobody
  BY DEF Init, Running
<1>3. Cardinality({}) = 0
  BY FS_EmptySet
<1>4. AtMostMaxRunning /\ RunningListed /\ TableBounded
  BY <1>2, <1>3 DEF AtMostMaxRunning, RunningListed, TableBounded
<1>5. LockOK /\ NewJobOK /\ Fresh /\ TrimOK /\ ShutdownOK /\ PollableLongEnough
  BY <1>2 DEF Init, LockOK, NewJobOK, Fresh, TrimOK, ShutdownOK, PollableLongEnough
<1> QED BY <1>1, <1>4, <1>5 DEF IInv

-----------------------------------------------------------------------------

(* A new job: fewer than MaxRunning were running. *)
LEMMA AdmitInv ==
  ASSUME IInv, NEW w \in Workers, Admit(w)
  PROVE  IInv'
<1> USE JobsAssumption DEF Number, JobIds, jobVars
<1>0. /\ next \in Nat /\ next + 1 \in 1..MaxStarts /\ next + 1 \notin queue
      /\ holder = Nobody /\ queue \subseteq 1..next /\ queue \subseteq 1..MaxStarts
  BY DEF IInv, TypeOK, Admit
<1>1. TypeOK'
  BY <1>0 DEF IInv, TypeOK, Admit, JobStatus, WorkerStates
<1>2. Running' = Running \cup {next + 1}
  BY <1>0 DEF IInv, TypeOK, Admit, Running
<1>3. Running \cap queue = Running
  BY DEF IInv, RunningListed
<1>4. Cardinality(Running) \in Nat /\ IsFiniteSet(Running)
      /\ Cardinality(queue) \in Nat /\ IsFiniteSet(queue)
  BY JobBounds
<1>5. Cardinality(Running) < MaxRunning
  BY <1>3, <1>4 DEF Admit, AtCapacity
<1>6. Cardinality(Running') <= MaxRunning
  <2>1. next + 1 \notin Running
    BY <1>0, JobBounds
  <2>2. Cardinality(Running \cup {next + 1}) = Cardinality(Running) + 1
    BY <1>4, <2>1, FS_AddElement
  <2> QED BY <1>2, <1>4, <1>5, <2>2
<1>7. Cardinality(queue') <= KeepFinished + 1
  <2>1. Cardinality(queue \cup {next + 1}) = Cardinality(queue) + 1
    BY <1>0, <1>4, FS_AddElement
  <2>2. Cardinality(queue) <= KeepFinished /\ queue' = queue \cup {next + 1}
    BY <1>0 DEF IInv, TableBounded, Admit
  <2> QED BY <1>4, <2>1, <2>2
<1>8. Scanned' = {}
  <2>1. cursor' = 0 /\ \A k \in queue' : k \in Nat /\ 1 <= k
    BY <1>0 DEF Admit
  <2> QED BY <2>1 DEF Scanned
<1>9. TrimOK'
  BY <1>6, <1>7, <1>8 DEF TrimOK
<1>10. LockOK'
  BY <1>0 DEF IInv, TypeOK, LockOK, Admit
<1>11. NewJobOK' /\ Fresh'
  BY <1>0 DEF IInv, TypeOK, NewJobOK, Fresh, Admit
<1>12. AtMostMaxRunning' /\ RunningListed' /\ TableBounded'
  BY <1>2, <1>6 DEF IInv, AtMostMaxRunning, RunningListed, TableBounded, Admit, TypeOK
<1>13. ShutdownOK'
  BY DEF IInv, ShutdownOK, Admit
<1>14. PollableLongEnough'
  BY <1>0 DEF IInv, PollableLongEnough, Admit
<1> QED BY <1>1, <1>9, <1>10, <1>11, <1>12, <1>13, <1>14 DEF IInv

(* The search never reaches the new job: what it has passed and what runs   *)
(* would otherwise be the whole table, which is longer than MaxRunning.     *)
LEMMA SearchStopsEarlier ==
  ASSUME IInv, holder # Nobody, TooLong
  PROVE  Unscanned \ ({next} \cup Running) # {}
<1> SUFFICES ASSUME Unscanned \ ({next} \cup Running) = {} PROVE FALSE
  OBVIOUS
<1>1. next \in Running
  BY JobBounds DEF IInv, NewJobOK, Running
<1>2. queue \subseteq Scanned \cup Running
  BY <1>1 DEF Unscanned
<1>3. Cardinality(queue) <= Cardinality(Scanned \cup Running)
  BY <1>2, JobBounds, JobSets
<1>4. Cardinality(queue) \in Nat /\ Cardinality(Scanned \cup Running) \in Nat
  BY JobBounds
<1> QED BY <1>3, <1>4, JobsAssumption DEF IInv, TrimOK, TooLong

LEMMA PassOverInv ==
  ASSUME IInv, NEW w \in Workers, NEW j \in JobIds, PassOver(w, j)
  PROVE  IInv'
<1> USE JobsAssumption DEF JobIds, jobVars
<1>0. holder # Nobody
  BY DEF IInv, LockOK, PassOver
<1>1. j \in Running /\ j \in queue
  BY DEF PassOver, IsNext, Removable, Running, Unscanned
<1>2. j < next
  <2>1. PICK k \in Unscanned : k # next /\ k \notin Running
    BY <1>0, SearchStopsEarlier DEF PassOver
  <2>2. j <= k /\ k \in queue
    BY <2>1 DEF PassOver, IsNext, Unscanned
  <2> QED BY <2>1, <2>2 DEF IInv, TypeOK
<1>3. Scanned' \cup Running' \subseteq Scanned \cup Running
  <2>1. Running' = Running
    BY DEF Running, PassOver
  <2>2. ASSUME NEW k \in Scanned', k \notin Scanned PROVE k = j
    BY <2>2 DEF Scanned, PassOver, IsNext, Unscanned, IInv, TypeOK
  <2> QED BY <1>1, <2>1, <2>2
<1>4. TrimOK'
  <2>1. Scanned \cup Running \subseteq JobIds
    BY JobBounds
  <2>2. /\ Cardinality(Scanned' \cup Running') <= Cardinality(Scanned \cup Running)
        /\ Cardinality(Scanned' \cup Running') \in Nat
        /\ Cardinality(Scanned \cup Running) \in Nat
    BY <1>3, <2>1, JobSets
  <2> QED BY <1>0, <2>2 DEF IInv, TrimOK, PassOver
<1>5. TypeOK' /\ LockOK' /\ NewJobOK' /\ Fresh' /\ ShutdownOK'
  BY <1>2 DEF IInv, TypeOK, LockOK, NewJobOK, Fresh, ShutdownOK, PassOver
<1>6. AtMostMaxRunning' /\ RunningListed' /\ TableBounded' /\ PollableLongEnough'
  BY DEF IInv, AtMostMaxRunning, RunningListed, TableBounded, PollableLongEnough,
         PassOver, Running
<1> QED BY <1>4, <1>5, <1>6 DEF IInv

(* An evicted job: below it are at most MaxRunning - 1 entries, so at least *)
(* KeepFinished - MaxRunning + 1 jobs are younger.                          *)
LEMMA EvictInv ==
  ASSUME IInv, NEW w \in Workers, NEW j \in JobIds, Evict(w, j)
  PROVE  IInv'
<1> USE JobsAssumption DEF JobIds, jobVars
<1>0. holder # Nobody
  BY DEF IInv, LockOK, Evict
<1>1. /\ queue \subseteq 1..next /\ next \in Nat /\ next \in queue /\ next <= MaxStarts
      /\ cursor \in Nat /\ cursor < next
  BY <1>0 DEF IInv, TypeOK, NewJobOK
<1>2. j \in queue /\ j \notin Running /\ j # next /\ next \in Running
  BY <1>0, <1>1 DEF Evict, IsNext, Removable, Running, Unscanned, IInv, NewJobOK
<1>3. Running' = Running
  BY DEF Running, Evict
<1>4. IsFiniteSet(queue) /\ Cardinality(queue) \in Nat
  BY JobBounds
<1>5. Cardinality(queue') <= KeepFinished + 1
  <2>1. Cardinality(queue \ {j}) = Cardinality(queue) - 1
    BY <1>2, <1>4, FS_RemoveElement
  <2>2. Cardinality(queue) <= KeepFinished + 1 /\ queue' = queue \ {j}
    BY <1>0 DEF IInv, TrimOK, Evict
  <2> QED BY <1>4, <2>1, <2>2
<1>6. Scanned' \cup Running' = Running
  <2>1. cursor' = 0 /\ \A k \in queue' : k \in Nat /\ 1 <= k
    BY <1>1 DEF Evict
  <2>2. Scanned' = {}
    BY <2>1 DEF Scanned
  <2> QED BY <1>3, <2>2
<1>7. TrimOK'
  BY <1>5, <1>6 DEF TrimOK, IInv, AtMostMaxRunning
<1>8. next - j + MaxRunning >= KeepFinished + 1
  <2> DEFINE Below == Scanned \cup Running
  <2>1. Scanned \subseteq Below \ {next} /\ next \in Below
    BY <1>1, <1>2 DEF Scanned
  <2>2. /\ IsFiniteSet(Below) /\ Cardinality(Below) \in Nat
        /\ IsFiniteSet(Scanned) /\ Cardinality(Scanned) \in Nat
    BY JobBounds
  <2> HIDE DEF Below
  <2>3. IsFiniteSet(Below \ {next}) /\ Cardinality(Below \ {next}) = Cardinality(Below) - 1
    BY <2>1, <2>2, FS_RemoveElement
  <2>4. Cardinality(Scanned) <= Cardinality(Below \ {next})
    BY <2>1, <2>3, FS_Subset
  <2>5. Cardinality(Scanned) <= MaxRunning - 1
    <3>1. Cardinality(Below) <= MaxRunning
      BY <1>0 DEF IInv, TrimOK, Below
    <3> QED BY <2>2, <2>3, <2>4, <3>1
  <2>6. Unscanned \subseteq j..next
    <3>1. \A k \in Unscanned : k \in queue /\ j <= k
      BY DEF Unscanned, Evict, IsNext
    <3>2. j \in Nat /\ \A k \in queue : k \in Nat /\ k <= next
      BY <1>1, <1>2
    <3> SUFFICES ASSUME NEW k \in Unscanned PROVE k \in j..next
      OBVIOUS
    <3>3. k \in Nat /\ j <= k /\ k <= next /\ j \in Nat /\ next \in Nat
      BY <1>1, <3>1, <3>2
    <3> QED BY <3>3
  <2>7. IsFiniteSet(j..next) /\ Cardinality(j..next) = next - j + 1
    BY <1>1, <1>2, FS_Interval
  <2>8. IsFiniteSet(Unscanned) /\ Cardinality(Unscanned) \in Nat
    BY <2>6, <2>7, FS_Subset, FS_CardinalityType
  <2>9. Cardinality(Unscanned) <= next - j + 1
    BY <2>6, <2>7, FS_Subset
  <2>10. Cardinality(Unscanned) = Cardinality(queue) - Cardinality(Scanned)
    <3>1. queue \cap Scanned = Scanned
      BY DEF Scanned
    <3> QED BY <1>4, <3>1, FS_Difference DEF Unscanned
  <2>11. Cardinality(queue) >= KeepFinished + 1
    BY <1>4 DEF Evict, TooLong
  <2> QED BY <1>1, <1>4, <2>2, <2>5, <2>8, <2>9, <2>10, <2>11
<1>9. PollableLongEnough'
  BY <1>1, <1>8 DEF IInv, PollableLongEnough, Evict
<1>10. TypeOK' /\ LockOK' /\ NewJobOK' /\ Fresh' /\ ShutdownOK'
  BY <1>1, <1>2 DEF IInv, TypeOK, LockOK, NewJobOK, Fresh, ShutdownOK, Evict
<1>11. AtMostMaxRunning' /\ RunningListed' /\ TableBounded'
  BY <1>0, <1>2, <1>3 DEF IInv, AtMostMaxRunning, RunningListed, TableBounded, Evict
<1> QED BY <1>7, <1>9, <1>10, <1>11 DEF IInv

(* The table is unlocked only when it is short enough. *)
LEMMA UnlockInv ==
  ASSUME IInv, NEW w \in Workers, Unlock(w)
  PROVE  IInv'
<1> USE JobsAssumption DEF JobIds, jobVars
<1>0. holder = w /\ holder # Nobody
  BY DEF IInv, LockOK, Unlock
<1>1. ~TooLong
  BY <1>0, SearchStopsEarlier DEF Unlock
<1>2. Cardinality(queue) \in Nat
  BY JobBounds
<1>3. TableBounded'
  BY <1>1, <1>2 DEF TableBounded, TooLong, Unlock
<1>4. TypeOK' /\ Fresh' /\ ShutdownOK' /\ NewJobOK' /\ TrimOK'
  BY DEF IInv, TypeOK, Fresh, ShutdownOK, NewJobOK, TrimOK, Unlock, WorkerStates
<1>5. LockOK'
  BY <1>0 DEF IInv, TypeOK, LockOK, NewJobOK, Unlock
<1>6. AtMostMaxRunning' /\ RunningListed' /\ PollableLongEnough'
  BY DEF IInv, AtMostMaxRunning, RunningListed, PollableLongEnough, Unlock, Running
<1> QED BY <1>3, <1>4, <1>5, <1>6 DEF IInv

-----------------------------------------------------------------------------

(* A worker's other steps leave the table and the states of the jobs alone. *)
LEMMA WorkerInv ==
  ASSUME IInv, NEW w \in Workers,
         \/ Poll(w) \/ NoRequest(w) \/ Refuse(w)
         \/ \E j \in JobIds : FindToCancel(w, j)
  PROVE  IInv'
<1> USE JobsAssumption DEF JobIds, jobVars
<1>1. PICK p \in {"exited", "polling", "idle", "cancelling"}, t \in 0..next :
        /\ worker[w] \in {"idle", "polling"}
        /\ worker' = [worker EXCEPT ![w] = p]
        /\ target' = [target EXCEPT ![w] = t]
        /\ p = "cancelling" => t \in 1..next
        /\ UNCHANGED <<next, queue, status, stored, thread, cancel, holder, cursor, main>>
  <2>1. target[w] \in 0..next /\ target = [target EXCEPT ![w] = target[w]]
    BY DEF IInv, TypeOK
  <2>2. CASE Poll(w)
    BY <2>1, <2>2 DEF Poll
  <2>3. CASE NoRequest(w) \/ Refuse(w)
    BY <2>1, <2>3 DEF NoRequest, Refuse
  <2>4. CASE \E j \in JobIds : FindToCancel(w, j)
    <3>1. PICK j \in JobIds : FindToCancel(w, j)
      BY <2>4
    <3>2. j \in queue => j \in 1..next
      BY DEF IInv, TypeOK
    <3> QED BY <2>1, <3>1, <3>2 DEF FindToCancel
  <2> QED BY <2>2, <2>3, <2>4
<1>2. TypeOK'
  BY <1>1 DEF IInv, TypeOK, WorkerStates
<1>3. holder # w
  BY <1>1 DEF IInv, LockOK
<1>4. LockOK' /\ NewJobOK' /\ Fresh' /\ ShutdownOK'
  BY <1>1, <1>3 DEF IInv, TypeOK, LockOK, NewJobOK, Fresh, ShutdownOK
<1>5. TrimOK' /\ AtMostMaxRunning' /\ RunningListed' /\ TableBounded'
  BY <1>1 DEF IInv, TrimOK, AtMostMaxRunning, RunningListed, TableBounded, Running, Scanned
<1>6. PollableLongEnough'
  BY <1>1 DEF IInv, PollableLongEnough
<1> QED BY <1>2, <1>4, <1>5, <1>6 DEF IInv

LEMMA SpawnInv ==
  ASSUME IInv, NEW w \in Workers, Spawn(w)
  PROVE  IInv'
<1> USE JobsAssumption DEF JobIds, jobVars
<1>1. holder # w /\ target[w] \in 1..next /\ next \in 0..MaxStarts
  BY DEF IInv, TypeOK, LockOK, Spawn
<1>2. TypeOK' /\ LockOK' /\ NewJobOK' /\ Fresh' /\ ShutdownOK'
  BY <1>1 DEF IInv, TypeOK, LockOK, NewJobOK, Fresh, ShutdownOK, Spawn, Threads,
              WorkerStates
<1>3. TrimOK' /\ AtMostMaxRunning' /\ RunningListed' /\ TableBounded' /\ PollableLongEnough'
  BY DEF IInv, TrimOK, AtMostMaxRunning, RunningListed, TableBounded,
         PollableLongEnough, Running, Scanned, Spawn
<1> QED BY <1>2, <1>3 DEF IInv

LEMMA SetCancelInv ==
  ASSUME IInv, NEW w \in Workers, SetCancel(w)
  PROVE  IInv'
<1> USE JobsAssumption DEF JobIds, jobVars
<1>1. holder # w /\ target[w] \in 1..next /\ next \in 0..MaxStarts
  BY DEF IInv, TypeOK, LockOK, SetCancel
<1>2. TypeOK'
  <2>1. cancel' \subseteq JobIds
    <3>1. target[w] \in JobIds
      BY <1>1
    <3>2. cancel \subseteq JobIds /\ cancel' = cancel \cup {target[w]}
      BY DEF IInv, TypeOK, SetCancel
    <3> QED BY <3>1, <3>2
  <2>2. worker' \in [Workers -> WorkerStates] /\ target' \in [Workers -> 0..next]
    BY <1>1 DEF IInv, TypeOK, SetCancel, WorkerStates
  <2> HIDE DEF JobIds
  <2> QED BY <2>1, <2>2 DEF IInv, TypeOK, SetCancel
<1>3. LockOK' /\ NewJobOK' /\ Fresh'
  BY <1>1 DEF IInv, TypeOK, LockOK, NewJobOK, Fresh, SetCancel
<1>4. ShutdownOK'
  BY DEF IInv, ShutdownOK, SetCancel
<1>5. TrimOK' /\ AtMostMaxRunning' /\ RunningListed' /\ TableBounded' /\ PollableLongEnough'
  BY DEF IInv, TrimOK, AtMostMaxRunning, RunningListed, TableBounded,
         PollableLongEnough, Running, Scanned, SetCancel
<1> QED BY <1>2, <1>3, <1>4, <1>5 DEF IInv

-----------------------------------------------------------------------------

(* A job's thread changes where it is, and at its end its own state; the    *)
(* set of running jobs can only shrink.                                     *)
LEMMA AnalyzeInv ==
  ASSUME IInv, NEW j \in JobIds, Analyze(j)
  PROVE  IInv'
<1> USE JobsAssumption DEF JobIds, jobVars
<1>1. PICK t \in Threads, s \in {status[j], "completed", "failed", "cancelled"},
           b \in SUBSET JobIds :
        /\ thread[j] # "none"
        /\ t # "none"
        /\ thread' = [thread EXCEPT ![j] = t]
        /\ status' = [status EXCEPT ![j] = s]
        /\ stored' = b
        /\ UNCHANGED <<next, queue, cancel, holder, cursor, worker, target,
                       main>>
  <2>1. /\ status = [status EXCEPT ![j] = status[j]]
        /\ stored \subseteq JobIds
    BY DEF IInv, TypeOK
  <2>2. CASE Finish(j)
    <3>1. Outcome(thread[j]) \in {"completed", "failed", "cancelled"}
      BY <2>2 DEF Finish, Outcome
    <3>2. stored' \in SUBSET JobIds
      BY <2>1, <2>2 DEF Finish
    <3> HIDE DEF JobIds
    <3> QED BY <2>2, <3>1, <3>2 DEF Finish, Threads
  <2>3. CASE \E f \in Threads \ {"none"}, t \in Threads \ {"none"} :
               Go(j, f, t) /\ UNCHANGED <<next, queue, status, stored, cancel, holder,
                                          cursor, worker, target, main>>
    BY <2>1, <2>3 DEF Go
  <2> QED
    BY <2>2, <2>3 DEF Analyze, StopAtCheckpoint, PassLastCheckpoint, AnalysisFails,
                      Record, Panic, Threads
<1>2. j <= next /\ next \in 0..MaxStarts /\ next \in Nat
  BY <1>1 DEF IInv, Fresh, TypeOK
<1>3. Running' \subseteq Running
  BY <1>1 DEF IInv, TypeOK, Running
<1>4. Scanned' = Scanned
  BY <1>1 DEF Scanned
<1>5. /\ Cardinality(Running') <= Cardinality(Running)
      /\ Cardinality(Scanned' \cup Running') <= Cardinality(Scanned \cup Running)
      /\ Cardinality(Running') \in Nat /\ Cardinality(Running) \in Nat
      /\ Cardinality(Scanned' \cup Running') \in Nat
      /\ Cardinality(Scanned \cup Running) \in Nat
  <2>1. Scanned \cup Running \subseteq JobIds /\ Running \subseteq JobIds
    BY JobBounds
  <2>2. Scanned' \cup Running' \subseteq Scanned \cup Running
    BY <1>3, <1>4
  <2> QED BY <1>3, <2>1, <2>2, JobSets
<1>6. TypeOK'
  BY <1>1 DEF IInv, TypeOK, JobStatus, Final
<1>7. holder # Nobody => j # next
  BY <1>1 DEF IInv, NewJobOK
<1>8. LockOK' /\ NewJobOK' /\ Fresh' /\ ShutdownOK'
  BY <1>1, <1>2, <1>7 DEF IInv, TypeOK, LockOK, NewJobOK, Fresh, ShutdownOK
<1>9. TrimOK' /\ AtMostMaxRunning' /\ RunningListed'
  BY <1>1, <1>3, <1>5 DEF IInv, TrimOK, AtMostMaxRunning, RunningListed
<1>10. TableBounded' /\ PollableLongEnough'
  BY <1>1 DEF IInv, TableBounded, PollableLongEnough
<1> QED BY <1>6, <1>8, <1>9, <1>10 DEF IInv

LEMMA ServerInv ==
  ASSUME IInv, RequestStop \/ JoinWorkers \/ CancelAll
  PROVE  IInv'
<1> USE JobsAssumption DEF JobIds, jobVars
<1>1. TypeOK'
  BY DEF IInv, TypeOK, RequestStop, JoinWorkers, CancelAll
<1>2. ShutdownOK'
  BY JobBounds DEF IInv, ShutdownOK, RequestStop, JoinWorkers, CancelAll, WorkersJoined,
                   CancelledByAll
<1>3. UNCHANGED <<next, queue, status, stored, thread, holder, cursor, worker, target>>
  BY DEF RequestStop, JoinWorkers, CancelAll
<1>4. LockOK' /\ NewJobOK' /\ Fresh' /\ TrimOK'
  BY <1>3 DEF IInv, LockOK, NewJobOK, Fresh, TrimOK, Scanned, Running
<1>5. AtMostMaxRunning' /\ RunningListed' /\ TableBounded' /\ PollableLongEnough'
  BY <1>3 DEF IInv, AtMostMaxRunning, RunningListed, TableBounded,
              PollableLongEnough, Running
<1> QED BY <1>1, <1>2, <1>4, <1>5 DEF IInv

LEMMA StutterInv == IInv /\ UNCHANGED vars => IInv'
<1> SUFFICES ASSUME IInv, UNCHANGED vars PROVE IInv'
  OBVIOUS
<1> USE DEF vars
<1>1. TypeOK' /\ LockOK' /\ NewJobOK' /\ Fresh' /\ ShutdownOK'
  BY DEF IInv, TypeOK, LockOK, NewJobOK, Fresh, ShutdownOK
<1>2. TrimOK' /\ AtMostMaxRunning' /\ RunningListed' /\ TableBounded' /\ PollableLongEnough'
  BY DEF IInv, TrimOK, Scanned, Running, AtMostMaxRunning, RunningListed,
         TableBounded, PollableLongEnough
<1> QED BY <1>1, <1>2 DEF IInv

LEMMA NextInv == IInv /\ [Next]_vars => IInv'
<1> SUFFICES ASSUME IInv, [Next]_vars PROVE IInv'
  OBVIOUS
<1>1. ASSUME NEW w \in Workers, Serve(w) \/ Receive(w) PROVE IInv'
  BY <1>1, WorkerInv, PassOverInv, EvictInv, UnlockInv, SpawnInv, SetCancelInv, AdmitInv
     DEF Serve, Receive
<1>2. ASSUME NEW j \in JobIds, Analyze(j) PROVE IInv'
  BY <1>2, AnalyzeInv
<1>3. CASE RequestStop \/ JoinWorkers \/ CancelAll
  BY <1>3, ServerInv
<1>4. CASE UNCHANGED vars
  BY <1>4, StutterInv
<1> QED BY <1>1, <1>2, <1>3, <1>4 DEF Next

-----------------------------------------------------------------------------

(* The strengthened invariant holds of the server (jobs.rs, lib.rs). *)
THEOREM Invariance == Spec => []IInv
BY InitInv, NextInv, PTL DEF Spec

(* The state of the job table is always well formed (jobs.rs). *)
THEOREM TypeCorrect == Spec => []TypeOK
<1>1. IInv => TypeOK
  BY DEF IInv
<1> QED BY <1>1, Invariance, PTL

(* Jobs::start never lets more than MAX_RUNNING analyses run at once. *)
THEOREM RunningBounded == Spec => []AtMostMaxRunning
<1>1. IInv => AtMostMaxRunning
  BY DEF IInv
<1> QED BY <1>1, Invariance, PTL

(* Jobs::start never drops a running job from the table. *)
THEOREM RunningStaysListed == Spec => []RunningListed
<1>1. IInv => RunningListed
  BY DEF IInv
<1> QED BY <1>1, Invariance, PTL

(* Jobs::start always leaves the table within KEEP_FINISHED entries. *)
THEOREM TableStaysBounded == Spec => []TableBounded
<1>1. IInv => TableBounded
  BY DEF IInv
<1> QED BY <1>1, Invariance, PTL

(* A finished job stays pollable until KEEP_FINISHED - MAX_RUNNING + 1      *)
(* later jobs have been started (jobs.rs:115).                              *)
THEOREM FinishedStaysPollable == Spec => []PollableLongEnough
<1>1. IInv => PollableLongEnough
  BY DEF IInv
<1> QED BY <1>1, Invariance, PTL

(* When Server::run returns, every analysis that still runs has been asked  *)
(* to stop (lib.rs:150).                                                    *)
THEOREM ShutdownReachesAll == Spec => []NoneEscapesShutdown
<1>1. IInv => NoneEscapesShutdown
  BY DEF IInv, ShutdownOK, RunningListed, NoneEscapesShutdown
<1> QED BY <1>1, Invariance, PTL
=============================================================================
