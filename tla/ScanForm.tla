------------------------------ MODULE ScanForm ------------------------------
(***************************************************************************)
(* The form of views/Home.tsx that has a repository analyzed by the server *)
(* or the desktop app: it starts a job, asks for its state until it ends,  *)
(* and opens the analysis. The k-th submission starts job k. React lets    *)
(* what is under way go on after the page was left.                        *)
(***************************************************************************)
EXTENDS Naturals

CONSTANTS
  MaxJobs,   \* bound of the model: submissions
  MaxMounts  \* bound of the model: times the page is shown

Jobs == 1..MaxJobs

VARIABLES
  jobs,     \* the server's: the status of each job
  stopping, \* jobs the server was asked to cancel
  form,     \* the job shown (or 0), its status, and whether an error is shown
  chain,    \* what each submission is doing, and in which mount
  timer,    \* the job whose timer was set last in this mount, or 0
  page,     \* whether the page is shown, and how often it was
  opened,   \* the job whose analysis is open, or 0
  loose,    \* history: the page was left with more under way than one timer
  taken     \* history: the user was moved away from another page

vars == <<jobs, stopping, form, chain, timer, page, opened, loose, taken>>

Fresh == [job |-> 0, status |-> "none", error |-> FALSE]
Running == form.job # 0 /\ form.status = "running"
InMount(k) == page.shown /\ chain[k].mount = page.mount
Waiting(k) == chain[k].at \in {"timer", "asking", "told"}
Alive(k) == chain[k].at \notin {"unused", "over"}

Init ==
  /\ jobs = [k \in Jobs |-> "none"] /\ stopping = {}
  /\ form = Fresh /\ chain = [k \in Jobs |-> [at |-> "unused", mount |-> 0, told |-> "none"]]
  /\ timer = 0 /\ page = [shown |-> TRUE, mount |-> 1]
  /\ opened = 0 /\ loose = FALSE /\ taken = FALSE

At(k, at) == chain' = [chain EXCEPT ![k].at = at]
Say(k, new) == form' = IF InMount(k) THEN new ELSE form
Error == [form EXCEPT !.error = TRUE]
Show(k, status, error) == [job |-> k, status |-> status, error |-> error]
Server == <<jobs, stopping>>
History == <<loose, taken>>

(* The button is disabled while a job runs, but not while one is started.  *)
Submit(k) ==
  /\ page.shown /\ ~Running
  /\ chain[k].at = "unused" /\ (k > 1 => chain[k - 1].at # "unused")
  /\ chain' = [chain EXCEPT ![k] = [at |-> "starting", mount |-> page.mount, told |-> "none"]]
  /\ form' = [form EXCEPT !.error = FALSE]
  /\ UNCHANGED <<Server, timer, page, opened, History>>

Stop ==
  /\ page.shown /\ Running
  /\ stopping' = stopping \cup {form.job}
  /\ UNCHANGED <<jobs, form, chain, timer, page, opened, History>>

(* The server starts a job, or the call fails.                             *)
StartJob(k) ==
  /\ chain[k].at = "starting"
  /\ \/ jobs' = [jobs EXCEPT ![k] = "running"] /\ At(k, "started")
     \/ At(k, "refused") /\ UNCHANGED jobs
  /\ UNCHANGED <<stopping, form, timer, page, opened, History>>

(* "unstored" is "completed" of an analysis that could not be stored, which *)
(* has no ids: it is not opened, and nothing says why.                     *)
EndJob(k) ==
  /\ jobs[k] = "running"
  /\ \E status \in {"completed", "unstored", "failed"} \cup (IF k \in stopping THEN {"cancelled"} ELSE {}) :
       jobs' = [jobs EXCEPT ![k] = status]
  /\ UNCHANGED <<stopping, form, chain, timer, page, opened, History>>

Poll(k) ==
  /\ At(k, "timer")
  /\ timer' = IF InMount(k) THEN k ELSE timer

Started(k) ==
  /\ \/ chain[k].at = "started" /\ Say(k, Show(k, "running", form.error)) /\ Poll(k)
     \/ chain[k].at = "refused" /\ Say(k, Error) /\ At(k, "over") /\ UNCHANGED timer
  /\ UNCHANGED <<Server, page, opened, History>>

Ask(k) ==
  /\ chain[k].at = "timer"
  /\ At(k, "asking")
  /\ UNCHANGED <<Server, form, timer, page, opened, History>>

Tell(k) ==
  /\ chain[k].at = "asking"
  /\ \E told \in {jobs[k], "lost"} : chain' = [chain EXCEPT ![k].at = "told", ![k].told = told]
  /\ UNCHANGED <<Server, form, timer, page, opened, History>>

(* An answer: only a running job is asked for again, and after a failed    *)
(* call no job is.                                                         *)
Told(k) ==
  /\ chain[k].at = "told"
  /\ LET told == chain[k].told IN
     \/ told = "running" /\ Say(k, Show(k, told, form.error)) /\ Poll(k)
     \/ told = "completed" /\ Say(k, Show(k, told, form.error)) /\ At(k, "opening") /\ UNCHANGED timer
     \/ /\ told \in {"failed", "cancelled", "unstored"}
        /\ Say(k, Show(k, told, form.error \/ told = "failed")) /\ At(k, "over") /\ UNCHANGED timer
     \/ told = "lost" /\ Say(k, Error) /\ At(k, "over") /\ UNCHANGED timer
  /\ UNCHANGED <<Server, page, opened, History>>

(* Leaving the page stops the timer that was set last. `except` is over.   *)
Unmounted(except) ==
  [k \in Jobs |->
     IF k = except \/ (k = timer /\ chain[k].at = "timer") THEN [chain[k] EXCEPT !.at = "over"]
     ELSE chain[k]]
Untied(except) ==
  \E k \in Jobs \ {except} :
    /\ Alive(k) /\ chain[k].mount = page.mount
    /\ chain[k].at = "timer" => \E j \in Jobs \ {k} : chain[j].mount = page.mount
Away(except) ==
  /\ page' = [page EXCEPT !.shown = FALSE]
  /\ chain' = Unmounted(except) /\ form' = Fresh /\ timer' = 0
  /\ loose' = (loose \/ Untied(except))

Open(k) ==
  /\ chain[k].at = "opening"
  /\ \/ /\ opened' = k
        /\ IF page.shown THEN Away(k) /\ UNCHANGED taken
           ELSE /\ taken' = TRUE /\ At(k, "over")
                /\ UNCHANGED <<page, form, timer, loose>>
     \/ Say(k, Error) /\ At(k, "over") /\ UNCHANGED <<page, timer, opened, History>>
  /\ UNCHANGED Server

Leave == page.shown /\ Away(0) /\ UNCHANGED <<Server, opened, taken>>
Return ==
  /\ ~page.shown /\ page.mount < MaxMounts
  /\ page' = [shown |-> TRUE, mount |-> page.mount + 1]
  /\ UNCHANGED <<Server, form, chain, timer, opened, History>>

Next ==
  \/ \E k \in Jobs :
       \/ Submit(k) \/ StartJob(k) \/ EndJob(k) \/ Started(k) \/ Ask(k) \/ Tell(k) \/ Told(k)
       \/ Open(k)
  \/ Stop \/ Leave \/ Return

Spec == Init /\ [][Next]_vars

-----------------------------------------------------------------------------
(* The form never waits in vain: as long as it says that its job runs, the *)
(* job is asked for, or an error says why not; what else it says of the    *)
(* job is so. What is opened has been completed. And who leaves the page   *)
(* is not moved by a job of the form, unless a call was under way or two   *)
(* jobs were (then the timer of only one is stopped).                      *)
FormIsHonest ==
  /\ page.shown /\ Running => form.error \/ (Waiting(form.job) /\ InMount(form.job))
  /\ page.shown /\ form.job # 0 /\ ~Running => jobs[form.job] = form.status
  /\ opened # 0 => jobs[opened] = "completed"
  /\ taken => loose
=============================================================================
