--------------------------- MODULE BrowserSession ---------------------------
(***************************************************************************)
(* The analysis in a browser: engine/session.ts keeps what is shown, one   *)
(* analysis or one listing of a dropped folder at a time, and              *)
(* engine/client.ts passes requests to a worker and answers back. A        *)
(* handler of an event and the reactions to the promises it settles run    *)
(* without interruption, and are one step. Whatever the user starts has a  *)
(* number (by), and so has every request (id) and every worker.            *)
(***************************************************************************)
EXTENDS Naturals, FiniteSets

CONSTANTS
  MaxStarted,   \* bound: analyses and listings the user starts
  MaxRequests,  \* bound: requests to workers
  MaxErrors     \* bound: errors of workers

VARIABLES
  state,       \* session: what is shown, [phase, by]
  task,        \* session: the request of the running analysis, or 0
  generation,  \* session: raised by cancel and by each listing
  listings,    \* listings going on, [started, by]
  progressOf,  \* session: whose stages are shown, or 0
  opening,     \* effects of BrowserAnalysisOpener that have not run yet
  worker,      \* client: the worker, or 0
  pending,     \* client: requests not answered yet
  by,          \* client: what each request so far was made for, 0 for a report
  workers,     \* how many workers there were
  working,     \* requests the worker has and has not answered
  inbox,       \* events on their way from workers to the page
  errors,      \* how many errors there were
  started,     \* how much the user has started
  wanted,      \* the last of it, unless cancelled, or 0
  overtaken    \* whether an effect failed an analysis that was not its own

session == <<state, task, generation, listings, progressOf, opening>>
client == <<worker, pending, by>>
outside == <<workers, working, inbox, errors>>
user == <<started, wanted, overtaken>>
vars == <<session, client, outside, user>>

Phases == {"idle", "listing", "running", "finished", "failed", "cancelled"}
Busy == state.phase \in {"listing", "running"}
Showing(phase, n) == [phase |-> phase, by |-> n]
NextId == Cardinality(DOMAIN by) + 1

Init ==
  /\ state = Showing("idle", 0) /\ task = 0 /\ generation = 0 /\ listings = {}
  /\ progressOf = 0 /\ opening = {}
  /\ worker = 0 /\ pending = {} /\ by = [id \in {} |-> 0]
  /\ workers = 0 /\ working = {} /\ inbox = {} /\ errors = 0
  /\ started = 0 /\ wanted = 0 /\ overtaken = FALSE

-----------------------------------------------------------------------------
(* request: to the worker there is, or to a new one; a worker that cannot  *)
(* be made, or a message that cannot be posted, rejects the request.       *)
Registered(n) == by' = [id \in DOMAIN by \cup {NextId} |-> IF id = NextId THEN n ELSE by[id]]

Posted(n) ==
  /\ NextId <= MaxRequests
  /\ Registered(n)
  /\ workers' = IF worker = 0 THEN workers + 1 ELSE workers
  /\ worker' = IF worker = 0 THEN workers' ELSE worker
  /\ pending' = pending \cup {NextId}
  /\ working' = working \cup {NextId}

NotPosted(n) ==
  /\ NextId <= MaxRequests
  /\ Registered(n)
  /\ UNCHANGED <<worker, workers, pending, working>>

(* stop: the worker ends, and every request with it. *)
Rejected_OwnOnly == {task}
Rejected == pending

Stop(phase) ==
  /\ worker' = 0
  /\ working' = {}
  /\ pending' = pending \ Rejected
  /\ IF task \in Rejected
     THEN task' = 0 /\ state' = Showing(phase, by[task])
     ELSE UNCHANGED <<task, state>>

-----------------------------------------------------------------------------
(* analyze *)
Analyze(n) ==
  \/ /\ Posted(n)
     /\ state' = Showing("running", n) /\ task' = NextId /\ progressOf' = 0
  \/ /\ NotPosted(n)
     /\ state' = Showing("failed", n) /\ task' = 0 /\ progressOf' = 0

Start == started < MaxStarted /\ started' = started + 1 /\ wanted' = started'

UserAnalyzes ==
  /\ ~Busy /\ Start /\ Analyze(started')
  /\ UNCHANGED <<generation, listings, opening, inbox, errors, overtaken>>

(* analyzeDroppedFolder, up to its first await *)
UserDrops ==
  /\ ~Busy /\ Start
  /\ generation' = generation + 1
  /\ state' = Showing("listing", started')
  /\ listings' = listings \cup {[started |-> generation', by |-> started']}
  /\ UNCHANGED <<task, progressOf, opening, client, outside, overtaken>>

ListingProgress(l) ==
  /\ l.started = generation
  /\ state' = Showing("listing", l.by)
  /\ UNCHANGED <<task, generation, listings, progressOf, opening, client, outside, user>>

(* ... and from there; a listing that was cancelled is forgotten. *)
ListingEnds(l) ==
  /\ listings' = listings \ {l}
  /\ \/ l.started # generation /\ UNCHANGED <<state, task, progressOf, client, workers, working>>
     \/ l.started = generation /\ Analyze(l.by)
     \/ /\ l.started = generation /\ state' = Showing("failed", l.by)
        /\ UNCHANGED <<task, progressOf, client, workers, working>>
  /\ UNCHANGED <<generation, opening, inbox, errors, user>>

(* cancel *)
Raised_Never == generation
Raised == generation + 1

UserCancels ==
  /\ Busy
  /\ wanted' = 0
  /\ \/ /\ state.phase = "listing"
        /\ generation' = Raised
        /\ state' = Showing("cancelled", state.by)
        /\ UNCHANGED <<task, client, working>>
     \/ /\ state.phase = "running"
        /\ IF task \in pending THEN Stop("cancelled")
           ELSE UNCHANGED <<state, task, worker, pending, working>>
        /\ UNCHANGED <<generation, by>>
  /\ UNCHANGED <<listings, progressOf, opening, workers, inbox, errors, started, overtaken>>

UserDismisses ==
  /\ ~Busy /\ state' = Showing("idle", 0)
  /\ UNCHANGED <<task, generation, listings, progressOf, opening, client, outside, user>>

(* renderReport: from another page; the caller shows its own error. *)
UserRequestsReport ==
  /\ Posted(0) \/ NotPosted(0)
  /\ UNCHANGED <<session, inbox, errors, user>>

-----------------------------------------------------------------------------
(* The worker. What it sent may be delivered after it was terminated.      *)
Send(event) == inbox' = inbox \cup {event}

WorkerTells(id) ==
  /\ Send([kind |-> "progress", id |-> id])
  /\ UNCHANGED <<session, client, workers, working, errors, user>>

WorkerAnswers(id) ==
  /\ working' = working \ {id}
  /\ \E kind \in {"done", "failed"} : Send([kind |-> kind, id |-> id])
  /\ UNCHANGED <<session, client, workers, errors, user>>

WorkerErrs ==
  /\ worker # 0 /\ errors < MaxErrors
  /\ errors' = errors + 1
  /\ Send([kind |-> "error", id |-> worker])
  /\ working' \in {working, {}}
  /\ UNCHANGED <<session, client, workers, user>>

(* onmessage and onerror *)
Answered(id, kind) ==
  /\ pending' = pending \ {id}
  /\ IF task = id
     THEN /\ task' = 0
          /\ state' = Showing(IF kind = "done" THEN "finished" ELSE "failed", by[id])
          /\ opening' = IF kind = "done" THEN opening \cup {by[id]} ELSE opening
     ELSE UNCHANGED <<task, state, opening>>
  /\ UNCHANGED <<progressOf, worker, working>>

Deliver(event) ==
  /\ inbox' = inbox \ {event}
  /\ \/ event.kind = "error" /\ Stop("failed") /\ UNCHANGED <<progressOf, opening>>
     \/ /\ event.kind \in {"done", "failed"} /\ event.id \in pending
        /\ Answered(event.id, event.kind)
     \/ /\ event.kind = "progress" /\ event.id \in pending
        /\ progressOf' = IF state.phase = "running" /\ by[event.id] # 0
                         THEN event.id ELSE progressOf
        /\ UNCHANGED <<state, task, opening, worker, pending, working>>
     \/ /\ event.kind # "error" /\ event.id \notin pending
        /\ UNCHANGED <<state, task, progressOf, opening, worker, pending, working>>
  /\ UNCHANGED <<generation, listings, by, workers, errors, user>>

(* The effect of BrowserAnalysisOpener for a finished analysis: it opens   *)
(* the artifact and dismisses the analysis, or reports that it cannot.     *)
Open(n) ==
  /\ opening' = opening \ {n}
  /\ \/ /\ state' = IF Busy THEN state ELSE Showing("idle", 0)
        /\ UNCHANGED overtaken
     \/ /\ state' = Showing("failed", n)
        /\ overtaken' = (overtaken \/ Busy)
  /\ UNCHANGED <<task, generation, listings, progressOf, client, outside, started, wanted>>

Next ==
  \/ UserAnalyzes \/ UserDrops \/ UserCancels \/ UserDismisses \/ UserRequestsReport
  \/ \E l \in listings : ListingProgress(l) \/ ListingEnds(l)
  \/ \E id \in working : WorkerTells(id) \/ WorkerAnswers(id)
  \/ WorkerErrs
  \/ \E event \in inbox : Deliver(event)
  \/ \E n \in opening : Open(n)

Spec == Init /\ [][Next]_vars

-----------------------------------------------------------------------------
(* No request is forgotten, and no analysis runs for ever on the page: one *)
(* that is shown as running has its request pending, and of every pending  *)
(* request the answer will come, or is underway, or an error of its worker *)
(* is, whatever was cancelled, stopped and started anew before.            *)
NoRequestIsForgotten ==
  /\ state.phase = "running" => task \in pending /\ by[task] = state.by
  /\ pending # {} => worker # 0
  /\ \A id \in pending :
       \/ id \in working
       \/ \E event \in inbox : \/ event.kind \in {"done", "failed"} /\ event.id = id
                               \/ event.kind = "error" /\ event.id = worker

(* What is shown is what the user started last and did not cancel, and the *)
(* stages that are shown are its own: a listing, an answer or a message    *)
(* that comes late changes nothing. The exception is an effect that runs   *)
(* late and calls fail for an analysis that is not the current one any     *)
(* more (BrowserAnalysis.tsx:283).                                         *)
ShownIsWanted ==
  ~overtaken =>
    /\ state.phase \in {"listing", "running", "finished"} => state.by = wanted
    /\ state.phase = "running" => progressOf \in {0, task}
=============================================================================
