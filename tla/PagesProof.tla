----------------------------- MODULE PagesProof -----------------------------
(***************************************************************************)
(* Proofs about what the pages of the web application keep in step with    *)
(* others: the form that starts jobs, the files kept to be opened again,   *)
(* and the list of what is stored.                                         *)
(***************************************************************************)
EXTENDS Pages, Naturals, FiniteSets, FiniteSetTheorems, WellFoundedInduction, TLAPS

-----------------------------------------------------------------------------
(***************************************************************************)
(* The form that starts jobs (ScanForm).                                   *)
(***************************************************************************)
Statuses == {"none", "running", "completed", "unstored", "failed", "cancelled"}
Stations == {"unused", "starting", "started", "refused", "timer", "asking", "told", "opening",
             "over"}

Chains == [Form!Jobs -> [at : Stations, mount : Nat, told : Statuses \cup {"lost"}]]
Forms == [job : Form!Jobs \cup {0}, status : Statuses, error : BOOLEAN]

FormTypes ==
  /\ jobs \in [Form!Jobs -> Statuses] /\ chain \in Chains /\ form \in Forms
  /\ page \in [shown : BOOLEAN, mount : Nat]
  /\ timer \in Form!Jobs \cup {0} /\ opened \in Form!Jobs \cup {0}
  /\ loose \in BOOLEAN /\ taken \in BOOLEAN

(* What a submission knows of its job is so, and what the form shows is    *)
(* known.                                                                  *)
Informed ==
  /\ \A k \in Form!Jobs :
       /\ chain[k].at \in {"unused", "starting"} => jobs[k] = "none"
       /\ chain[k].at \in {"started", "timer", "asking", "told", "opening"} => jobs[k] # "none"
       /\ chain[k].at = "told" /\ chain[k].told \notin {"running", "lost"} =>
            jobs[k] = chain[k].told
       /\ chain[k].at = "opening" => jobs[k] = "completed"
  /\ form.job # 0 => jobs[form.job] # "none"
  /\ opened # 0 => jobs[opened] = "completed"

(* The page shows a job that is asked for, or an error, or what has become *)
(* of the job; when it was left it shows nothing.                          *)
Honest ==
  /\ ~page.shown => form = Form!Fresh
  /\ form.job # 0 /\ form.status = "running" =>
       form.error \/ (Form!Waiting(form.job) /\ Form!InMount(form.job))
  /\ form.job # 0 /\ form.status # "running" => jobs[form.job] = form.status

(* What goes on although its page was left was not tied to the timer that  *)
(* the page stops.                                                         *)
Tied ==
  /\ \A k \in Form!Jobs :
       /\ chain[k].mount <= page.mount
       /\ Form!InMount(k) /\ chain[k].at = "timer" =>
            timer # 0 /\ chain[timer].mount = page.mount
       /\ Form!Alive(k) /\ ~Form!InMount(k) => loose
  /\ taken => loose

FormInv == FormTypes /\ Informed /\ Honest /\ Tied

-----------------------------------------------------------------------------
LEMMA AtIs ==
  ASSUME FormTypes, NEW k \in Form!Jobs, NEW at \in Stations, Form!At(k, at)
  PROVE  /\ chain' \in Chains
         /\ chain'[k].at = at /\ chain'[k].mount = chain[k].mount
         /\ chain'[k].told = chain[k].told
         /\ \A j \in Form!Jobs \ {k} : chain'[j] = chain[j]
BY DEF FormTypes, Form!At, Chains

LEMMA StationsAre ==
  /\ "starting" \in Stations /\ "started" \in Stations /\ "refused" \in Stations
  /\ "timer" \in Stations /\ "asking" \in Stations /\ "told" \in Stations
  /\ "opening" \in Stations /\ "over" \in Stations
BY DEF Stations

LEMMA ShowIs ==
  ASSUME FormTypes, NEW k \in Form!Jobs, NEW status \in Statuses, NEW wrong \in BOOLEAN
  PROVE  /\ Form!Show(k, status, wrong) \in Forms
         /\ Form!Show(k, status, wrong).job = k
         /\ Form!Show(k, status, wrong).status = status
         /\ Form!Show(k, status, wrong).error = wrong
BY DEF Form!Show, Forms

LEMMA ErrorIs ==
  ASSUME FormTypes
  PROVE  /\ Form!Error \in Forms /\ Form!Error.job = form.job
         /\ Form!Error.status = form.status /\ Form!Error.error
BY DEF FormTypes, Form!Error, Forms

LEMMA SayIs ==
  ASSUME NEW k, NEW new, Form!Say(k, new)
  PROVE  form' = form \/ (form' = new /\ Form!InMount(k))
BY DEF Form!Say

(* Leaving the page ends the call `except` and the one whose timer was set *)
(* last.                                                                   *)
LEMMA AwayIs ==
  ASSUME FormTypes, NEW except, Form!Away(except)
  PROVE  /\ chain' \in Chains
         /\ \A j \in Form!Jobs : /\ chain'[j].mount = chain[j].mount
                                 /\ chain'[j] = chain[j] \/ chain'[j].at = "over"
                                 /\ j = except => chain'[j].at = "over"
                                 /\ j = timer /\ chain[j].at = "timer" => chain'[j].at = "over"
         /\ page' = [shown |-> FALSE, mount |-> page.mount]
         /\ form' = Form!Fresh /\ form' \in Forms /\ form'.job = 0 /\ timer' = 0
<1>1. chain' = [k \in Form!Jobs |->
                 IF k = except \/ (k = timer /\ chain[k].at = "timer")
                 THEN [chain[k] EXCEPT !.at = "over"] ELSE chain[k]]
  BY DEF Form!Away, Form!Unmounted
<1>2. ASSUME NEW j \in Form!Jobs
      PROVE  /\ chain'[j] \in [at : Stations, mount : Nat, told : Statuses \cup {"lost"}]
             /\ chain'[j].mount = chain[j].mount
             /\ chain'[j] = chain[j] \/ chain'[j].at = "over"
             /\ j = except => chain'[j].at = "over"
             /\ j = timer /\ chain[j].at = "timer" => chain'[j].at = "over"
  BY <1>1, StationsAre DEF FormTypes, Chains
<1>3. chain' \in Chains
  BY <1>1, <1>2 DEF Chains
<1>4. page' = [shown |-> FALSE, mount |-> page.mount]
  BY DEF Form!Away, FormTypes
<1>5. Form!Fresh \in Forms /\ Form!Fresh.job = 0
  BY DEF Form!Fresh, Forms, Statuses
<1> QED BY <1>2, <1>3, <1>4, <1>5 DEF Form!Away

-----------------------------------------------------------------------------
(***************************************************************************)
(* What each step does to a submission and to the form.                    *)
(***************************************************************************)
Rest == <<jobs, page, opened, loose, taken>>

LEMMA StartedIs ==
  ASSUME FormTypes, NEW k \in Form!Jobs, Form!Started(k)
  PROVE  /\ UNCHANGED Rest /\ chain' \in Chains /\ form' \in Forms
         /\ \A j \in Form!Jobs \ {k} : chain'[j] = chain[j]
         /\ chain'[k].mount = chain[k].mount /\ chain'[k].told = chain[k].told
         /\ \/ /\ chain[k].at = "started" /\ chain'[k].at = "timer"
               /\ timer' = IF Form!InMount(k) THEN k ELSE timer
               /\ \/ form' = form /\ ~Form!InMount(k)
                  \/ /\ form'.job = k /\ form'.status = "running" /\ Form!InMount(k)
                     /\ form'.error = form.error
            \/ /\ chain[k].at = "refused" /\ chain'[k].at = "over" /\ timer' = timer
               /\ \/ form' = form /\ ~Form!InMount(k)
                  \/ form'.job = form.job /\ form'.status = form.status /\ form'.error
<1>1. UNCHANGED Rest
  BY DEF Form!Started, Form!Server, Form!History, Rest
<1>2. CASE /\ chain[k].at = "started" /\ Form!Say(k, Form!Show(k, "running", form.error))
           /\ Form!Poll(k)
  <2>1. "running" \in Statuses /\ form.error \in BOOLEAN /\ form \in Forms
    BY DEF FormTypes, Forms, Statuses
  <2>2. Form!At(k, "timer") /\ timer' = IF Form!InMount(k) THEN k ELSE timer
    BY <1>2 DEF Form!Poll
  <2>3. form' = IF Form!InMount(k) THEN Form!Show(k, "running", form.error) ELSE form
    BY <1>2 DEF Form!Say
  <2>4. /\ \/ form' = form /\ ~Form!InMount(k)
           \/ /\ form'.job = k /\ form'.status = "running" /\ Form!InMount(k)
              /\ form'.error = form.error
        /\ form' \in Forms
    BY <2>1, <2>3, ShowIs
  <2> QED BY <1>1, <1>2, <2>2, <2>4, AtIs, StationsAre
<1>3. CASE /\ chain[k].at = "refused" /\ Form!Say(k, Form!Error) /\ Form!At(k, "over")
           /\ UNCHANGED timer
  <2>1. form' = IF Form!InMount(k) THEN Form!Error ELSE form
    BY <1>3 DEF Form!Say
  <2>2. /\ \/ form' = form /\ ~Form!InMount(k)
           \/ form'.job = form.job /\ form'.status = form.status /\ form'.error
        /\ form' \in Forms
    BY <2>1, ErrorIs DEF FormTypes
  <2> QED BY <1>1, <1>3, <2>2, AtIs, StationsAre
<1> QED BY <1>2, <1>3 DEF Form!Started
LEMMA ToldIs ==
  ASSUME FormTypes, NEW k \in Form!Jobs, Form!Told(k)
  PROVE  /\ UNCHANGED Rest /\ chain' \in Chains /\ form' \in Forms /\ chain[k].at = "told"
         /\ \A j \in Form!Jobs \ {k} : chain'[j] = chain[j]
         /\ chain'[k].mount = chain[k].mount /\ chain'[k].told = chain[k].told
         /\ \/ /\ chain[k].told = "running" /\ chain'[k].at = "timer"
               /\ timer' = IF Form!InMount(k) THEN k ELSE timer
               /\ \/ form' = form /\ ~Form!InMount(k)
                  \/ /\ form'.job = k /\ form'.status = "running" /\ Form!InMount(k)
                     /\ form'.error = form.error
            \/ /\ chain[k].told \in {"completed", "failed", "cancelled", "unstored"}
               /\ chain'[k].at = IF chain[k].told = "completed" THEN "opening" ELSE "over"
               /\ timer' = timer
               /\ \/ form' = form /\ ~Form!InMount(k)
                  \/ form'.job = k /\ form'.status = chain[k].told /\ Form!InMount(k)
            \/ /\ chain[k].told = "lost" /\ chain'[k].at = "over" /\ timer' = timer
               /\ \/ form' = form /\ ~Form!InMount(k)
                  \/ form'.job = form.job /\ form'.status = form.status /\ form'.error
<1>1. UNCHANGED Rest /\ chain[k].at = "told"
  BY DEF Form!Told, Form!Server, Form!History, Rest
<1>2. form \in Forms /\ form.error \in BOOLEAN
  BY DEF FormTypes, Forms
<1>3. \A status \in {"running", "completed", "failed", "cancelled", "unstored"} :
        status \in Statuses
  BY DEF Statuses
<1>4. CASE /\ chain[k].told = "running" /\ Form!Poll(k)
           /\ Form!Say(k, Form!Show(k, "running", form.error))
  <2>1. Form!At(k, "timer") /\ timer' = IF Form!InMount(k) THEN k ELSE timer
    BY <1>4 DEF Form!Poll
  <2>2. form' = IF Form!InMount(k) THEN Form!Show(k, "running", form.error) ELSE form
    BY <1>4 DEF Form!Say
  <2>3. /\ \/ form' = form /\ ~Form!InMount(k)
           \/ /\ form'.job = k /\ form'.status = "running" /\ Form!InMount(k)
              /\ form'.error = form.error
        /\ form' \in Forms
    BY <1>2, <1>3, <2>2, ShowIs
  <2> QED BY <1>1, <1>4, <2>1, <2>3, AtIs, StationsAre
<1>5. ASSUME NEW status \in {"completed", "failed", "cancelled", "unstored"},
             NEW wrong \in BOOLEAN,
             chain[k].told = status, Form!Say(k, Form!Show(k, status, wrong)),
             Form!At(k, IF status = "completed" THEN "opening" ELSE "over"), timer' = timer
      PROVE  /\ form' \in Forms /\ chain' \in Chains
             /\ \A j \in Form!Jobs \ {k} : chain'[j] = chain[j]
             /\ chain'[k].mount = chain[k].mount /\ chain'[k].told = chain[k].told
             /\ chain'[k].at = IF chain[k].told = "completed" THEN "opening" ELSE "over"
             /\ \/ form' = form /\ ~Form!InMount(k)
                \/ form'.job = k /\ form'.status = chain[k].told /\ Form!InMount(k)
  <2>1. form' = IF Form!InMount(k) THEN Form!Show(k, status, wrong) ELSE form
    BY <1>5 DEF Form!Say
  <2>2. /\ \/ form' = form /\ ~Form!InMount(k)
           \/ form'.job = k /\ form'.status = chain[k].told /\ Form!InMount(k)
        /\ form' \in Forms
    BY <1>2, <1>3, <1>5, <2>1, ShowIs
  <2> QED BY <1>5, <2>2, AtIs, StationsAre
<1>6. CASE /\ chain[k].told = "lost" /\ Form!Say(k, Form!Error) /\ Form!At(k, "over")
           /\ UNCHANGED timer
  <2>1. form' = IF Form!InMount(k) THEN Form!Error ELSE form
    BY <1>6 DEF Form!Say
  <2>2. /\ \/ form' = form /\ ~Form!InMount(k)
           \/ form'.job = form.job /\ form'.status = form.status /\ form'.error
        /\ form' \in Forms
    BY <1>2, <2>1, ErrorIs
  <2> QED BY <1>1, <1>6, <2>2, AtIs, StationsAre
<1>7. CASE /\ chain[k].told = "completed" /\ Form!At(k, "opening") /\ UNCHANGED timer
           /\ Form!Say(k, Form!Show(k, "completed", form.error))
  BY <1>1, <1>2, <1>5, <1>7
<1>8. CASE /\ chain[k].told \in {"failed", "cancelled", "unstored"} /\ Form!At(k, "over")
           /\ Form!Say(k, Form!Show(k, chain[k].told, form.error \/ chain[k].told = "failed"))
           /\ UNCHANGED timer
  <2>1. (form.error \/ chain[k].told = "failed") \in BOOLEAN
    BY <1>2
  <2> QED BY <1>1, <1>5, <1>8, <2>1
<1> QED BY <1>4, <1>6, <1>7, <1>8 DEF Form!Told

LEMMA OpenIs ==
  ASSUME FormTypes, NEW k \in Form!Jobs, Form!Open(k)
  PROVE  /\ chain[k].at = "opening" /\ jobs' = jobs
         /\ \/ Form!Away(k) /\ page.shown /\ opened' = k /\ taken' = taken
            \/ /\ chain' \in Chains /\ chain'[k].at = "over" /\ chain'[k].mount = chain[k].mount
               /\ \A j \in Form!Jobs \ {k} : chain'[j] = chain[j]
               /\ UNCHANGED <<page, timer, loose>>
               /\ \/ ~page.shown /\ opened' = k /\ taken' = TRUE /\ form' = form
                  \/ /\ UNCHANGED <<opened, taken>> /\ form' \in Forms
                     /\ \/ form' = form
                        \/ form'.job = form.job /\ form'.status = form.status /\ form'.error
<1>1. chain[k].at = "opening" /\ jobs' = jobs
  BY DEF Form!Open, Form!Server
<1>2. CASE opened' = k /\ page.shown /\ Form!Away(k) /\ UNCHANGED taken
  BY <1>1, <1>2
<1>3. CASE /\ opened' = k /\ ~page.shown /\ taken' = TRUE /\ Form!At(k, "over")
           /\ UNCHANGED <<page, form, timer, loose>>
  BY <1>1, <1>3, AtIs, StationsAre
<1>4. CASE /\ Form!Say(k, Form!Error) /\ Form!At(k, "over")
           /\ UNCHANGED <<page, timer, opened, loose, taken>>
  <2>1. form' = form \/ form' = Form!Error
    BY <1>4, SayIs
  <2>2. /\ form' \in Forms
        /\ form' = form \/ (form'.job = form.job /\ form'.status = form.status /\ form'.error)
    BY <2>1, ErrorIs DEF FormTypes
  <2> QED BY <1>1, <1>4, <2>2, AtIs, StationsAre
<1> QED BY <1>2, <1>3, <1>4 DEF Form!Open, Form!History

LEMMA SubmitIs ==
  ASSUME FormTypes, NEW k \in Form!Jobs, Form!Submit(k)
  PROVE  /\ page.shown /\ ~Form!Running /\ UNCHANGED <<jobs, timer, page, opened, loose, taken>>
         /\ chain[k].at = "unused" /\ chain' \in Chains
         /\ chain'[k].at = "starting" /\ chain'[k].mount = page.mount
         /\ \A j \in Form!Jobs \ {k} : chain'[j] = chain[j]
         /\ form' \in Forms /\ form'.job = form.job /\ form'.status = form.status
<1>1. /\ page.shown /\ ~Form!Running /\ UNCHANGED <<jobs, timer, page, opened, loose, taken>>
      /\ chain[k].at = "unused" /\ form' = [form EXCEPT !.error = FALSE]
      /\ chain' = [chain EXCEPT ![k] = [at |-> "starting", mount |-> page.mount, told |-> "none"]]
  BY DEF Form!Submit, Form!Server, Form!History
<1>2. form' \in Forms /\ form'.job = form.job /\ form'.status = form.status
  BY <1>1 DEF FormTypes, Forms
<1>3. [at |-> "starting", mount |-> page.mount, told |-> "none"]
        \in [at : Stations, mount : Nat, told : Statuses \cup {"lost"}]
  BY StationsAre DEF FormTypes, Statuses
<1>4. /\ chain' \in Chains /\ \A j \in Form!Jobs \ {k} : chain'[j] = chain[j]
      /\ chain'[k] = [at |-> "starting", mount |-> page.mount, told |-> "none"]
  BY <1>1, <1>3 DEF FormTypes, Chains
<1> QED BY <1>1, <1>2, <1>4

LEMMA StartJobIs ==
  ASSUME FormTypes, NEW k \in Form!Jobs, Form!StartJob(k)
  PROVE  /\ UNCHANGED <<form, timer, page, opened, loose, taken>>
         /\ chain[k].at = "starting" /\ chain' \in Chains
         /\ chain'[k].mount = chain[k].mount
         /\ \A j \in Form!Jobs \ {k} : chain'[j] = chain[j]
         /\ \/ jobs' = [jobs EXCEPT ![k] = "running"] /\ chain'[k].at = "started"
            \/ jobs' = jobs /\ chain'[k].at = "refused"
<1>1. /\ UNCHANGED <<form, timer, page, opened, loose, taken>> /\ chain[k].at = "starting"
      /\ \/ jobs' = [jobs EXCEPT ![k] = "running"] /\ Form!At(k, "started")
         \/ jobs' = jobs /\ Form!At(k, "refused")
  BY DEF Form!StartJob, Form!History
<1> QED BY <1>1, AtIs, StationsAre

LEMMA TellIs ==
  ASSUME FormTypes, NEW k \in Form!Jobs, Form!Tell(k)
  PROVE  /\ UNCHANGED <<jobs, form, timer, page, opened, loose, taken>>
         /\ chain[k].at = "asking" /\ chain' \in Chains /\ chain'[k].at = "told"
         /\ chain'[k].mount = chain[k].mount /\ chain'[k].told \in {jobs[k], "lost"}
         /\ \A j \in Form!Jobs \ {k} : chain'[j] = chain[j]
<1>1. /\ UNCHANGED <<jobs, form, timer, page, opened, loose, taken>> /\ chain[k].at = "asking"
      /\ \E told \in {jobs[k], "lost"} : chain' = [chain EXCEPT ![k].at = "told", ![k].told = told]
  BY DEF Form!Tell, Form!Server, Form!History
<1>2. PICK told \in {jobs[k], "lost"} : chain' = [chain EXCEPT ![k].at = "told", ![k].told = told]
  BY <1>1
<1>3. told \in Statuses \cup {"lost"}
  BY DEF FormTypes
<1>4. /\ chain'[k] = [at |-> "told", mount |-> chain[k].mount, told |-> told]
      /\ \A j \in Form!Jobs \ {k} : chain'[j] = chain[j]
  BY <1>2, <1>3, StationsAre DEF FormTypes, Chains
<1>5. [at |-> "told", mount |-> chain[k].mount, told |-> told]
        \in [at : Stations, mount : Nat, told : Statuses \cup {"lost"}]
  BY <1>3, StationsAre DEF FormTypes, Chains
<1>6. chain' = [j \in Form!Jobs |->
                 IF j = k THEN [chain[k] EXCEPT !.at = "told", !.told = told] ELSE chain[j]]
  BY <1>2 DEF FormTypes, Chains
<1>7. \A j \in Form!Jobs : chain'[j] \in [at : Stations, mount : Nat, told : Statuses \cup {"lost"}]
  <2>1. \A j \in Form!Jobs :
          chain[j] \in [at : Stations, mount : Nat, told : Statuses \cup {"lost"}]
    BY DEF FormTypes, Chains
  <2> QED BY <1>4, <1>5, <2>1
<1>8. chain' \in Chains
  BY <1>6, <1>7 DEF Chains
<1>9. chain'[k].at = "told" /\ chain'[k].mount = chain[k].mount /\ chain'[k].told = told
  BY <1>4
<1> QED BY <1>1, <1>2, <1>4, <1>8, <1>9

LEMMA AskIs ==
  ASSUME FormTypes, NEW k \in Form!Jobs, Form!Ask(k)
  PROVE  /\ UNCHANGED <<jobs, form, timer, page, opened, loose, taken>>
         /\ chain[k].at = "timer" /\ chain' \in Chains /\ chain'[k].at = "asking"
         /\ chain'[k].mount = chain[k].mount
         /\ \A j \in Form!Jobs \ {k} : chain'[j] = chain[j]
<1>1. /\ UNCHANGED <<jobs, form, timer, page, opened, loose, taken>> /\ chain[k].at = "timer"
      /\ Form!At(k, "asking")
  BY DEF Form!Ask, Form!Server, Form!History
<1> QED BY <1>1, AtIs, StationsAre

LEMMA EndJobIs ==
  ASSUME FormTypes, NEW k \in Form!Jobs, Form!EndJob(k)
  PROVE  /\ UNCHANGED <<form, chain, timer, page, opened, loose, taken>>
         /\ jobs[k] = "running" /\ jobs' \in [Form!Jobs -> Statuses]
         /\ jobs'[k] \notin {"none", "running"}
         /\ \A j \in Form!Jobs \ {k} : jobs'[j] = jobs[j]
<1>1. PICK status \in {"completed", "unstored", "failed", "cancelled"} :
        jobs' = [jobs EXCEPT ![k] = status]
  BY DEF Form!EndJob
<1>2. status \in Statuses /\ status \notin {"none", "running"}
  BY DEF Statuses
<1>3. /\ jobs' \in [Form!Jobs -> Statuses] /\ jobs'[k] = status
      /\ \A j \in Form!Jobs \ {k} : jobs'[j] = jobs[j]
  BY <1>1, <1>2 DEF FormTypes
<1> QED BY <1>2, <1>3 DEF Form!EndJob, Form!History

(* The other steps: the button that stops the job, leaving, coming back.   *)
LEMMA OthersAre ==
  ASSUME FormTypes, Form!Stop \/ Form!Return \/ Form!Leave \/ UNCHANGED Form!vars
  PROVE  \/ UNCHANGED <<jobs, form, chain, timer, page, opened, loose, taken>>
         \/ /\ ~page.shown /\ page' = [shown |-> TRUE, mount |-> page.mount + 1]
            /\ UNCHANGED <<jobs, form, chain, timer, opened, loose, taken>>
         \/ Form!Away(0) /\ page.shown /\ UNCHANGED <<jobs, opened, taken>>
BY DEF Form!Stop, Form!Return, Form!Leave, Form!vars, Form!Server, Form!History

LEMMA FormTypesStep == FormTypes /\ [Form!Next]_(Form!vars) => FormTypes'
<1> SUFFICES ASSUME FormTypes, [Form!Next]_(Form!vars) PROVE FormTypes'
  OBVIOUS
<1>0. loose \in BOOLEAN /\ taken \in BOOLEAN /\ page.mount \in Nat
  BY DEF FormTypes
<1>1. ASSUME NEW k \in Form!Jobs, Form!Submit(k) PROVE FormTypes'
  BY <1>1, SubmitIs DEF FormTypes
<1>2. ASSUME NEW k \in Form!Jobs, Form!StartJob(k) PROVE FormTypes'
  <2>1. jobs' \in [Form!Jobs -> Statuses]
    BY <1>2, StartJobIs DEF FormTypes, Statuses
  <2> QED BY <1>2, <2>1, StartJobIs DEF FormTypes
<1>3. ASSUME NEW k \in Form!Jobs, Form!EndJob(k) PROVE FormTypes'
  BY <1>3, EndJobIs DEF FormTypes
<1>4. ASSUME NEW k \in Form!Jobs, Form!Started(k) PROVE FormTypes'
  BY <1>4, StartedIs DEF FormTypes, Rest
<1>5. ASSUME NEW k \in Form!Jobs, Form!Ask(k) \/ Form!Tell(k) PROVE FormTypes'
  BY <1>5, AskIs, TellIs DEF FormTypes
<1>6. ASSUME NEW k \in Form!Jobs, Form!Told(k) PROVE FormTypes'
  BY <1>6, ToldIs DEF FormTypes, Rest
<1>7. ASSUME NEW except, Form!Away(except), UNCHANGED <<jobs, taken>>,
             opened' \in Form!Jobs \cup {0}
      PROVE  FormTypes'
  <2>1. loose' = (loose \/ Form!Untied(except))
    BY <1>7 DEF Form!Away
  <2>2. loose' \in BOOLEAN
    <3>1. Form!Untied(except) \in BOOLEAN
      BY DEF Form!Untied
    <3> QED BY <1>0, <2>1, <3>1
  <2>3. page' \in [shown : BOOLEAN, mount : Nat]
    <3>1. page' = [shown |-> FALSE, mount |-> page.mount]
      BY <1>7, AwayIs
    <3> QED BY <1>0, <3>1
  <2> QED BY <1>7, <2>2, <2>3, AwayIs DEF FormTypes
<1>8. ASSUME NEW k \in Form!Jobs, Form!Open(k) PROVE FormTypes'
  <2>1. CASE Form!Away(k) /\ opened' = k /\ taken' = taken
    BY <1>7, <1>8, <2>1, OpenIs
  <2>2. CASE ~(Form!Away(k) /\ opened' = k /\ taken' = taken)
    <3>1. /\ chain' \in Chains /\ UNCHANGED <<jobs, page, timer, loose>>
          /\ opened' \in {opened, k} /\ taken' \in {taken, TRUE}
          /\ form' = form \/ form' \in Forms
      BY <1>8, <2>2, OpenIs
    <3> QED BY <1>0, <3>1 DEF FormTypes
  <2> QED BY <2>1, <2>2
<1>9. CASE Form!Stop \/ Form!Return \/ Form!Leave \/ UNCHANGED Form!vars
  <2>1. CASE ~page.shown /\ page' = [shown |-> TRUE, mount |-> page.mount + 1]
             /\ UNCHANGED <<jobs, form, chain, timer, opened, loose, taken>>
    BY <1>0, <2>1 DEF FormTypes
  <2>2. CASE Form!Away(0) /\ UNCHANGED <<jobs, opened, taken>>
    BY <1>7, <2>2 DEF FormTypes
  <2>3. CASE UNCHANGED <<jobs, form, chain, timer, page, opened, loose, taken>>
    BY <2>3 DEF FormTypes
  <2> QED BY <1>9, <2>1, <2>2, <2>3, OthersAre
<1> QED BY <1>1, <1>2, <1>3, <1>4, <1>5, <1>6, <1>8, <1>9 DEF Form!Next

LEMMA InformedStep == FormInv /\ [Form!Next]_(Form!vars) => Informed'
<1> SUFFICES ASSUME FormTypes, Informed, [Form!Next]_(Form!vars) PROVE Informed'
  BY DEF FormInv
<1>1. ASSUME NEW k \in Form!Jobs, Form!Submit(k) PROVE Informed'
  BY <1>1, SubmitIs DEF Informed
<1>2. ASSUME NEW k \in Form!Jobs, Form!StartJob(k) PROVE Informed'
  <2>1. CASE jobs' = jobs /\ chain'[k].at = "refused"
    BY <1>2, <2>1, StartJobIs DEF Informed
  <2>2. CASE jobs' = [jobs EXCEPT ![k] = "running"] /\ chain'[k].at = "started"
    <3>1. jobs'[k] = "running" /\ \A j \in Form!Jobs \ {k} : jobs'[j] = jobs[j]
      BY <2>2 DEF FormTypes
    <3>2. jobs[k] = "none" /\ form.job # k /\ opened # k
      <4>1. jobs[k] = "none" /\ k # 0
        BY <1>2, StartJobIs DEF Informed, Form!Jobs
      <4> QED BY <4>1 DEF Informed
    <3>3. form.job \in Form!Jobs \cup {0} /\ opened \in Form!Jobs \cup {0}
      BY DEF FormTypes, Forms
    <3> QED BY <1>2, <2>2, <3>1, <3>2, <3>3, StartJobIs DEF Informed
  <2> QED BY <1>2, <2>1, <2>2, StartJobIs
<1>3. ASSUME NEW k \in Form!Jobs, Form!EndJob(k) PROVE Informed'
  <2>1. form.job \in Form!Jobs \cup {0} /\ opened \in Form!Jobs \cup {0}
    BY DEF FormTypes, Forms
  <2> QED BY <1>3, <2>1, EndJobIs DEF Informed
<1>4. ASSUME NEW k \in Form!Jobs, Form!Started(k) PROVE Informed'
  BY <1>4, StartedIs DEF Informed, Rest
<1>5. ASSUME NEW k \in Form!Jobs, Form!Ask(k) PROVE Informed'
  BY <1>5, AskIs DEF Informed
<1>6. ASSUME NEW k \in Form!Jobs, Form!Tell(k) PROVE Informed'
  BY <1>6, TellIs DEF Informed
<1>7. ASSUME NEW k \in Form!Jobs, Form!Told(k) PROVE Informed'
  BY <1>7, ToldIs DEF Informed, Rest
<1>8. ASSUME NEW except, Form!Away(except), jobs' = jobs,
             opened' # 0 => jobs[opened'] = "completed"
      PROVE  Informed'
  BY <1>8, AwayIs DEF Informed
<1>9. ASSUME NEW k \in Form!Jobs, Form!Open(k) PROVE Informed'
  <2>1. chain[k].at = "opening" /\ jobs[k] = "completed" /\ jobs' = jobs
    BY <1>9, OpenIs DEF Informed
  <2>2. CASE Form!Away(k) /\ opened' = k
    BY <1>8, <2>1, <2>2
  <2>3. CASE ~(Form!Away(k) /\ opened' = k)
    BY <1>9, <2>1, <2>3, OpenIs, ZenonT(40) DEF Informed
  <2> QED BY <2>2, <2>3
<1>10. CASE Form!Stop \/ Form!Return \/ Form!Leave \/ UNCHANGED Form!vars
  <2>1. CASE UNCHANGED <<jobs, form, chain, opened>>
    BY <2>1 DEF Informed
  <2>2. CASE Form!Away(0) /\ UNCHANGED <<jobs, opened>>
    BY <1>8, <2>2 DEF Informed
  <2> QED BY <1>10, <2>1, <2>2, OthersAre
<1> QED BY <1>1, <1>2, <1>3, <1>4, <1>5, <1>6, <1>7, <1>9, <1>10 DEF Form!Next

LEMMA HonestStep == FormInv /\ [Form!Next]_(Form!vars) => Honest'
<1> SUFFICES ASSUME FormTypes, Informed, Honest, [Form!Next]_(Form!vars) PROVE Honest'
  BY DEF FormInv
<1> USE DEF Form!Waiting, Form!InMount
<1>0. form.job \in Form!Jobs \cup {0} /\ Form!Fresh.job = 0 /\ 0 \notin Form!Jobs
  BY DEF FormTypes, Forms, Form!Fresh, Form!Jobs
<1>1. ASSUME NEW k \in Form!Jobs, Form!Submit(k) PROVE Honest'
  BY <1>0, <1>1, SubmitIs DEF Honest, Form!Running
<1>2. ASSUME NEW k \in Form!Jobs, Form!StartJob(k) PROVE Honest'
  <2>1. jobs[k] = "none" /\ form.job # k
    <3>1. jobs[k] = "none" /\ k # 0
      BY <1>0, <1>2, StartJobIs DEF Informed
    <3> QED BY <3>1 DEF Informed
  <2>2. \A j \in Form!Jobs \ {k} : jobs'[j] = jobs[j]
    BY <1>2, StartJobIs DEF FormTypes
  <2> QED BY <1>0, <1>2, <2>1, <2>2, StartJobIs DEF Honest
<1>3. ASSUME NEW k \in Form!Jobs, Form!EndJob(k) PROVE Honest'
  BY <1>0, <1>3, EndJobIs DEF Honest
<1>4. ASSUME NEW k \in Form!Jobs, Form!Started(k) PROVE Honest'
  <2>1. UNCHANGED <<jobs, page>> /\ chain'[k].mount = chain[k].mount
        /\ \A j \in Form!Jobs \ {k} : chain'[j] = chain[j]
    BY <1>4, StartedIs DEF Rest
  <2>2. CASE chain'[k].at = "timer" /\ form' = form /\ ~Form!InMount(k)
    BY <1>0, <2>1, <2>2 DEF Honest
  <2>3. CASE /\ chain'[k].at = "timer" /\ Form!InMount(k)
             /\ form'.job = k /\ form'.status = "running"
    BY <1>0, <2>1, <2>3 DEF Honest
  <2>4. CASE chain[k].at = "refused" /\ form' = form
    BY <1>0, <2>1, <2>4 DEF Honest
  <2>5. CASE form'.job = form.job /\ form'.status = form.status /\ form'.error /\ Form!InMount(k)
    BY <1>0, <2>1, <2>5 DEF Honest
  <2>6. form' = form \/ Form!InMount(k)
    BY <1>4 DEF Form!Started, Form!Say
  <2> QED BY <1>4, <2>2, <2>3, <2>4, <2>5, <2>6, StartedIs
<1>5. ASSUME NEW k \in Form!Jobs, Form!Ask(k) PROVE Honest'
  BY <1>0, <1>5, AskIs DEF Honest
<1>6. ASSUME NEW k \in Form!Jobs, Form!Tell(k) PROVE Honest'
  BY <1>0, <1>6, TellIs DEF Honest
<1>7. ASSUME NEW k \in Form!Jobs, Form!Told(k) PROVE Honest'
  <2>1. chain[k].told \notin {"running", "lost"} => jobs[k] = chain[k].told
    BY <1>7, ToldIs DEF Informed
  <2>2. UNCHANGED <<jobs, page>> /\ chain'[k].mount = chain[k].mount /\ chain[k].at = "told"
        /\ \A j \in Form!Jobs \ {k} : chain'[j] = chain[j]
    BY <1>7, ToldIs DEF Rest
  <2>3. CASE form' = form /\ ~Form!InMount(k)
    BY <1>0, <2>2, <2>3 DEF Honest
  <2>4. CASE /\ chain'[k].at = "timer" /\ Form!InMount(k)
             /\ form'.job = k /\ form'.status = "running"
    BY <1>0, <2>2, <2>4 DEF Honest
  <2>5. CASE /\ chain[k].told \in {"completed", "failed", "cancelled", "unstored"}
             /\ form'.job = k /\ form'.status = chain[k].told /\ Form!InMount(k)
    BY <1>0, <2>1, <2>2, <2>5 DEF Honest
  <2>6. CASE form'.job = form.job /\ form'.status = form.status /\ form'.error /\ Form!InMount(k)
    BY <1>0, <2>2, <2>6 DEF Honest
  <2>7. form' = form \/ Form!InMount(k)
    BY <1>7 DEF Form!Told, Form!Say
  <2> QED BY <1>7, <2>3, <2>4, <2>5, <2>6, <2>7, ToldIs
<1>8. ASSUME NEW except, Form!Away(except) PROVE Honest'
  BY <1>0, <1>8, AwayIs DEF Honest
<1>9. ASSUME NEW k \in Form!Jobs, Form!Open(k) PROVE Honest'
  <2>1. CASE UNCHANGED <<jobs, page>> /\ chain'[k].mount = chain[k].mount
             /\ \A j \in Form!Jobs \ {k} : chain'[j] = chain[j]
    <3>1. chain[k].at = "opening"
      BY <1>9, OpenIs
    <3>2. CASE form' = form
      BY <1>0, <2>1, <3>1, <3>2 DEF Honest
    <3>3. CASE form'.job = form.job /\ form'.status = form.status /\ form'.error /\ Form!InMount(k)
      BY <1>0, <2>1, <3>3 DEF Honest
    <3>4. form' = form \/ Form!InMount(k) \/ Form!Away(k)
      BY <1>9 DEF Form!Open, Form!Say
    <3> QED BY <1>8, <1>9, <3>2, <3>3, <3>4, OpenIs
  <2> QED BY <1>8, <1>9, <2>1, OpenIs
<1>10. CASE Form!Stop \/ Form!Return \/ Form!Leave \/ UNCHANGED Form!vars
  BY <1>0, <1>8, <1>10, OthersAre DEF Honest
<1> QED BY <1>1, <1>2, <1>3, <1>4, <1>5, <1>6, <1>7, <1>9, <1>10 DEF Form!Next

LEMMA TiedStep == FormInv /\ [Form!Next]_(Form!vars) => Tied'
<1> SUFFICES ASSUME FormTypes, Tied, [Form!Next]_(Form!vars) PROVE Tied'
  BY DEF FormInv
<1> USE DEF Form!InMount, Form!Alive
<1>0. /\ 0 \notin Form!Jobs /\ timer \in Form!Jobs \cup {0} /\ page.mount \in Nat
      /\ \A k \in Form!Jobs : chain[k].mount \in Nat
  BY DEF FormTypes, Chains, Form!Jobs
<1>1. ASSUME NEW k \in Form!Jobs, Form!Submit(k) PROVE Tied'
  BY <1>0, <1>1, SubmitIs DEF Tied
<1>2. ASSUME NEW k \in Form!Jobs, Form!StartJob(k) PROVE Tied'
  BY <1>0, <1>2, StartJobIs DEF Tied
<1>3. ASSUME NEW k \in Form!Jobs, Form!EndJob(k) PROVE Tied'
  BY <1>3, EndJobIs DEF Tied
<1>4. ASSUME NEW k \in Form!Jobs, Form!Started(k) PROVE Tied'
  BY <1>0, <1>4, StartedIs DEF Tied, Rest
<1>5. ASSUME NEW k \in Form!Jobs, Form!Ask(k) \/ Form!Tell(k) PROVE Tied'
  BY <1>0, <1>5, AskIs, TellIs DEF Tied
<1>6. ASSUME NEW k \in Form!Jobs, Form!Told(k) PROVE Tied'
  BY <1>0, <1>6, ToldIs DEF Tied, Rest
<1>7. ASSUME NEW except, Form!Away(except), page.shown, taken' = taken PROVE Tied'
  <2>1. loose' = (loose \/ Form!Untied(except))
    BY <1>7 DEF Form!Away
  <2>2. ASSUME NEW k \in Form!Jobs, chain'[k].at \notin {"unused", "over"} PROVE loose'
    <3>1. chain'[k] = chain[k] /\ k # except /\ ~(k = timer /\ chain[k].at = "timer")
      BY <1>7, <2>2, AwayIs
    <3>2. CASE chain[k].mount = page.mount
      <4>1. chain[k].at = "timer" => timer \in Form!Jobs \ {k} /\ chain[timer].mount = page.mount
        BY <1>0, <1>7, <3>1, <3>2 DEF Tied
      <4>2. Form!Untied(except)
        BY <2>2, <3>1, <3>2, <4>1 DEF Form!Untied
      <4> QED BY <2>1, <4>2
    <3>3. CASE chain[k].mount # page.mount
      BY <2>1, <2>2, <3>1, <3>3 DEF Tied
    <3> QED BY <3>2, <3>3
  <2>3. taken' => loose'
    BY <1>7, <2>1 DEF Tied
  <2>4. /\ \A k \in Form!Jobs : chain'[k].mount = chain[k].mount
        /\ page'.shown = FALSE /\ page'.mount = page.mount
    BY <1>7, AwayIs
  <2> QED BY <2>2, <2>3, <2>4 DEF Tied
<1>8. ASSUME NEW k \in Form!Jobs, Form!Open(k) PROVE Tied'
  <2>1. chain[k].at = "opening"
    BY <1>8, OpenIs
  <2>2. CASE Form!Away(k) /\ page.shown /\ taken' = taken
    BY <1>7, <2>2
  <2>3. CASE ~(Form!Away(k) /\ page.shown /\ taken' = taken)
    <3>1. /\ UNCHANGED <<page, timer, loose>> /\ chain'[k].at = "over"
          /\ chain'[k].mount = chain[k].mount
          /\ \A j \in Form!Jobs \ {k} : chain'[j] = chain[j]
          /\ taken' = taken \/ ~page.shown
      BY <1>8, <2>3, OpenIs
    <3>2. ~page.shown => loose
      BY <2>1 DEF Tied
    <3> QED BY <1>0, <3>1, <3>2 DEF Tied
  <2> QED BY <2>2, <2>3
<1>9. CASE Form!Stop \/ Form!Return \/ Form!Leave \/ UNCHANGED Form!vars
  <2>1. CASE ~page.shown /\ page' = [shown |-> TRUE, mount |-> page.mount + 1]
             /\ UNCHANGED <<jobs, form, chain, timer, opened, loose, taken>>
    <3>1. page'.mount = page.mount + 1
      BY <2>1
    <3> QED BY <1>0, <2>1, <3>1 DEF Tied
  <2>2. CASE Form!Away(0) /\ page.shown /\ taken' = taken
    BY <1>7, <2>2
  <2>3. CASE UNCHANGED <<jobs, form, chain, timer, page, opened, loose, taken>>
    BY <2>3 DEF Tied
  <2> QED BY <1>9, <2>1, <2>2, <2>3, OthersAre
<1> QED BY <1>1, <1>2, <1>3, <1>4, <1>5, <1>6, <1>8, <1>9 DEF Form!Next

LEMMA FormInit == Form!Init => FormInv
<1> SUFFICES ASSUME Form!Init PROVE FormInv
  OBVIOUS
<1>1. /\ form = Form!Fresh /\ Form!Fresh \in Forms /\ Form!Fresh.job = 0
      /\ timer = 0 /\ opened = 0 /\ loose = FALSE /\ taken = FALSE
      /\ page \in [shown : BOOLEAN, mount : Nat] /\ page.shown /\ page.mount = 1
  BY DEF Form!Init, Form!Fresh, Forms, Statuses
<1>2. /\ jobs \in [Form!Jobs -> Statuses] /\ chain \in Chains
      /\ \A k \in Form!Jobs : jobs[k] = "none" /\ chain[k].at = "unused" /\ chain[k].mount = 0
  BY DEF Form!Init, Statuses, Stations, Chains
<1>3. FormTypes
  BY <1>1, <1>2 DEF FormTypes
<1>4. Informed /\ Honest
  BY <1>1, <1>2 DEF Informed, Honest
<1>5. Tied
  BY <1>1, <1>2 DEF Tied, Form!InMount, Form!Alive
<1> QED BY <1>3, <1>4, <1>5 DEF FormInv

(***************************************************************************)
(* The form of views/Home.tsx never waits in vain and says nothing of a    *)
(* job that is not so, opens only what was completed, and moves nobody who *)
(* has left the page, unless more was under way than the timer that the    *)
(* page stops: for any number of submissions and of visits to the page.    *)
(***************************************************************************)
THEOREM TheFormIsHonest == Form!Spec => []Form!FormIsHonest
<1>1. FormInv /\ [Form!Next]_(Form!vars) => FormInv'
  BY FormTypesStep, InformedStep, HonestStep, TiedStep DEF FormInv
<1>2. FormInv => Form!FormIsHonest
  BY DEF FormInv, Informed, Honest, Tied, Form!FormIsHonest, Form!Running
<1> QED BY FormInit, <1>1, <1>2, PTL DEF Form!Spec

-----------------------------------------------------------------------------
(***************************************************************************)
(* The files kept to be opened again (Recent).                             *)
(***************************************************************************)
At(c) == call[c].at

KeptTypes ==
  /\ listed \in [Ids -> Nat] /\ texts \subseteq Ids /\ clock \in Nat
  /\ IsFiniteSet(Kept!Stored) /\ torn \in BOOLEAN
  /\ call = [c \in Kept!Calls |-> call[c]]
  /\ \A c \in Kept!Calls :
       /\ At(c) = "put" => call[c].id \in Ids /\ call[c].time \in 1..clock
       /\ At(c) = "compare" => /\ call[c].keep \subseteq Ids /\ IsFiniteSet(call[c].keep)
                               /\ Cardinality(call[c].keep) <= Limit
       /\ At(c) = "read" => call[c].id \in Ids

(* Texts and their listing go together.                                    *)
Together == texts = Kept!Stored

(* No two files are opened at the same time.                               *)
Timed ==
  /\ \A i \in Ids : listed[i] <= clock
  /\ \A i, j \in Kept!Stored : listed[i] = listed[j] => i = j
  /\ \A c \in Kept!Calls : At(c) = "put" =>
       /\ \A i \in Ids : listed[i] # call[c].time
       /\ \A d \in Kept!Calls : At(d) = "put" /\ call[d].time = call[c].time => d = c

(* More than the limit is stored only as long as a call is on its way that *)
(* will look, or that will remove what is too much.                        *)
Trimmed ==
  \/ torn
  \/ Cardinality(Kept!Stored) <= Limit
  \/ \E c \in Kept!Calls : At(c) \in {"list", "compare"}
  \/ \E c \in Kept!Calls : At(c) = "trim" /\ Cardinality(Kept!Stored \ call[c].ids) <= Limit

(* The file opened last, if no other add overlapped, is the one that is    *)
(* added, or is stored; and its call finds none that is newer.             *)
Newer ==
  wanted # "none" =>
    /\ \A c, d \in Kept!Calls : Kept!Adding(c) /\ Kept!Adding(d) => c = d
    /\ \A c \in Kept!Calls :
         /\ At(c) = "put" => call[c].id = wanted /\ \A i \in Ids : listed[i] < call[c].time
         /\ At(c) = "list" => \A i \in Kept!Stored : listed[i] <= listed[wanted]
         /\ At(c) = "compare" => wanted \in call[c].keep
         /\ At(c) = "trim" => wanted \notin call[c].ids
    /\ (\A c \in Kept!Calls : At(c) # "put") => wanted \in Kept!Stored

KeptInv == KeptTypes /\ Together /\ Timed /\ Trimmed /\ Newer

-----------------------------------------------------------------------------
(* A call goes on, and the others stay where they are.                     *)
Others(c) ==
  /\ call' = [d \in Kept!Calls |-> call'[d]]
  /\ \A d \in Kept!Calls \ {c} : call'[d] = call[d]

LEMMA GotoIs ==
  ASSUME KeptTypes, NEW c \in Kept!Calls, NEW state, Kept!Goto(c, state)
  PROVE  call'[c] = state /\ Others(c)
<1>1. call' = [call EXCEPT ![c] = state] /\ call = [d \in Kept!Calls |-> call[d]]
  BY DEF Kept!Goto, KeptTypes
<1> QED BY <1>1 DEF Others

LEMMA StoredIs ==
  ASSUME KeptTypes
  PROVE  /\ \A i \in Ids : listed[i] \in Nat /\ (i \in Kept!Stored <=> listed[i] # 0)
         /\ Kept!Stored \subseteq Ids /\ IsFiniteSet(Kept!Stored)
         /\ Cardinality(Kept!Stored) \in Nat
BY FS_CardinalityType DEF KeptTypes, Kept!Stored

LEMMA CardinalityIs == ASSUME NEW S PROVE Kept!Cardinality(S) = Cardinality(S)
BY DEF Kept!Cardinality, Cardinality

(* The ones opened last that the limit leaves are no more than the limit,  *)
(* because no two were opened at the same time.                            *)
LEMMA NewestAreFew ==
  ASSUME Limit \in Nat, KeptTypes, Timed
  PROVE  /\ Kept!Newest(listed) \subseteq Kept!Stored
         /\ IsFiniteSet(Kept!Newest(listed))
         /\ Cardinality(Kept!Newest(listed)) <= Limit
<1> DEFINE N == Kept!Newest(listed)
           Later(i) == {j \in Kept!Stored : listed[j] > listed[i]}
<1>1. N = {i \in Kept!Stored : Cardinality(Later(i)) < Limit}
  BY CardinalityIs DEF Kept!Newest
<1>2. N \subseteq Kept!Stored /\ IsFiniteSet(N)
  BY <1>1, StoredIs, FS_Subset
<1>3. CASE N = {}
  BY <1>2, <1>3, FS_EmptySet
<1>4. CASE N # {}
  <2> DEFINE Times == {listed[i] : i \in N}
  <2>1. Times \subseteq Nat /\ Times # {}
    BY <1>2, <1>4, StoredIs
  <2>2. PICK t \in Times : \A s \in Times : ~(s < t)
    <3>1. IsWellFoundedOn(OpToRel(<, Nat), Nat)
      BY NatLessThanWellFounded
    <3>2. PICK t \in Times : \A s \in Times : ~(<<s, t>> \in OpToRel(<, Nat))
      BY <2>1, <3>1, WFMin
    <3> QED BY <2>1, <3>2 DEF OpToRel
  <2>3. PICK m \in N : listed[m] = t
    BY <2>2
  <2>4. N \ {m} \subseteq Later(m)
    <3> SUFFICES ASSUME NEW j \in N, j # m PROVE j \in Later(m)
      OBVIOUS
    <3>1. listed[j] # listed[m]
      BY <1>2 DEF Timed
    <3>2. listed[j] \in Nat /\ listed[m] \in Nat /\ ~(listed[j] < listed[m])
      BY <1>2, <2>2, <2>3, StoredIs
    <3> QED BY <1>2, <3>1, <3>2
  <2>5. IsFiniteSet(Later(m)) /\ Cardinality(Later(m)) < Limit
    BY <1>1, StoredIs, FS_Subset
  <2>6. Cardinality(N \ {m}) <= Cardinality(Later(m)) /\ Cardinality(N \ {m}) = Cardinality(N) - 1
    BY <1>2, <2>4, <2>5, FS_Subset, FS_RemoveElement
  <2>7. Cardinality(N) \in Nat /\ Cardinality(Later(m)) \in Nat
    BY <1>2, <2>5, FS_CardinalityType
  <2> QED BY <1>2, <2>5, <2>6, <2>7
<1> QED BY <1>3, <1>4

(* The newest of all is among them.                                        *)
LEMMA NewestStays ==
  ASSUME Limit \in Nat \ {0}, KeptTypes, NEW w \in Kept!Stored,
         \A i \in Kept!Stored : listed[i] <= listed[w]
  PROVE  w \in Kept!Newest(listed)
<1>1. {j \in Kept!Stored : listed[j] > listed[w]} = {}
  BY StoredIs
<1>2. Cardinality({j \in Kept!Stored : listed[j] > listed[w]}) < Limit
  BY <1>1, FS_EmptySet
<1> QED BY <1>2, CardinalityIs DEF Kept!Newest

-----------------------------------------------------------------------------
(***************************************************************************)
(* What each step does to a call, by what the call does.                   *)
(***************************************************************************)
Begins(c) ==
  \/ \E id \in Ids : Kept!OpenRecent(c, id) \/ Kept!Forget(c, id)
  \/ \E id \in Ids, large \in BOOLEAN : Kept!OpenFile(c, id, large)
  \/ Kept!ForgetAll(c) \/ Kept!Read(c) \/ \E on \in BOOLEAN : Kept!SetRemember(c, on)

(* A file is opened, or its text is sought in vain, or something begins    *)
(* that adds nothing: the call was not one that adds.                      *)
LEMMA BeginningsAre ==
  ASSUME KeptTypes, NEW c \in Kept!Calls, Begins(c)
  PROVE  /\ At(c) \in {"idle", "read"} /\ UNCHANGED <<listed, texts, torn>>
         /\ Others(c)
         /\ \/ /\ UNCHANGED <<clock, wanted>> /\ At(c)' \in {"idle", "remove", "clear", "read"}
               /\ At(c)' = "read" => call'[c].id \in Ids
            \/ /\ clock' = clock + 1 /\ At(c)' = "idle" /\ wanted' = wanted
            \/ /\ clock' = clock + 1 /\ At(c)' = "put"
               /\ call'[c].id \in Ids /\ call'[c].time = clock + 1
               /\ wanted' = IF \E d \in Kept!Calls \ {c} : Kept!Adding(d)
                            THEN "none" ELSE call'[c].id
<1> DEFINE Begun ==
      /\ UNCHANGED <<listed, texts, torn, clock, wanted>>
      /\ Others(c)
      /\ At(c)' \in {"idle", "remove", "clear", "read"}
      /\ At(c)' = "read" => call'[c].id \in Ids
<1>0. Kept!Idle.at = "idle"
  BY DEF Kept!Idle
<1>1. ASSUME NEW state, Kept!Begin(c, state), state.at \in {"idle", "remove", "clear", "read"},
             state.at = "read" => state.id \in Ids
      PROVE  Begun /\ At(c) = "idle"
  <2>1. /\ call[c] = Kept!Idle /\ Kept!Goto(c, state)
        /\ UNCHANGED <<listed, texts, torn, clock, wanted>>
    BY <1>1 DEF Kept!Begin, Kept!stored, Kept!history
  <2> QED BY <1>0, <1>1, <2>1, GotoIs DEF At
<1>2. ASSUME NEW id \in Ids, Kept!OpenRecent(c, id) PROVE Begun /\ At(c) = "idle"
  <2> DEFINE state == [at |-> "read", id |-> id, keep |-> remember[Tab[c]]]
  <2>1. state.at = "read" /\ state.id \in Ids
    OBVIOUS
  <2>2. Kept!Begin(c, state)
    BY <1>2 DEF Kept!OpenRecent
  <2> HIDE DEF state
  <2> QED BY <1>1, <2>1, <2>2
<1>3. ASSUME NEW id \in Ids, Kept!Forget(c, id) PROVE Begun /\ At(c) = "idle"
  <2> DEFINE state == [at |-> "remove", ids |-> {id}]
  <2>1. state.at = "remove"
    OBVIOUS
  <2>2. Kept!Begin(c, state)
    BY <1>3 DEF Kept!Forget
  <2> HIDE DEF state
  <2> QED BY <1>1, <2>1, <2>2
<1>4. ASSUME Kept!ForgetAll(c) \/ \E on \in BOOLEAN : Kept!SetRemember(c, on)
      PROVE  Begun /\ At(c) = "idle"
  <2> DEFINE state == [at |-> "clear"]
  <2>1. state.at = "clear"
    OBVIOUS
  <2>2. Kept!Begin(c, state) \/ Kept!Begin(c, Kept!Idle)
    BY <1>4 DEF Kept!ForgetAll, Kept!SetRemember
  <2> HIDE DEF state
  <2> QED BY <1>0, <1>1, <2>1, <2>2
<1>5. ASSUME NEW id \in Ids, NEW keep, Kept!Opens(c, id, keep)
      PROVE  /\ Others(c)
             /\ clock' = clock + 1
             /\ \/ At(c)' = "idle" /\ wanted' = wanted
                \/ /\ At(c)' = "put" /\ call'[c].id \in Ids /\ call'[c].time = clock + 1
                   /\ wanted' = IF \E d \in Kept!Calls \ {c} : Kept!Adding(d)
                                THEN "none" ELSE call'[c].id
  <2> DEFINE state == [at |-> "put", id |-> id, time |-> clock + 1]
  <2>1. state.at = "put" /\ state.id = id /\ state.time = clock + 1
    OBVIOUS
  <2>2. CASE keep
    <3>1. /\ Kept!Goto(c, state) /\ clock' = clock + 1
          /\ wanted' = IF \E d \in Kept!Calls \ {c} : Kept!Adding(d) THEN "none" ELSE id
      BY <1>5, <2>2 DEF Kept!Opens
    <3> HIDE DEF state
    <3> QED BY <2>1, <3>1, GotoIs DEF At
  <2>3. CASE ~keep
    <3>1. Kept!Goto(c, Kept!Idle) /\ clock' = clock + 1 /\ wanted' = wanted
      BY <1>5, <2>3 DEF Kept!Opens
    <3> QED BY <1>0, <3>1, GotoIs DEF At
  <2> QED BY <2>2, <2>3
<1>6. ASSUME NEW id \in Ids, NEW large \in BOOLEAN, Kept!OpenFile(c, id, large)
      PROVE  /\ At(c) = "idle" /\ UNCHANGED <<listed, texts, torn>>
             /\ Kept!Opens(c, id, remember[Tab[c]] /\ ~large)
  BY <1>0, <1>6 DEF Kept!OpenFile, Kept!stored, At
<1>7. ASSUME Kept!Read(c)
      PROVE  /\ At(c) = "read" /\ UNCHANGED <<listed, texts, torn>>
             /\ \/ call[c].id \in Ids /\ Kept!Opens(c, call[c].id, call[c].keep)
                \/ Begun
  <2>1. At(c) = "read" /\ UNCHANGED <<listed, texts, torn>>
    BY <1>7 DEF Kept!Read, Kept!stored, At
  <2>2. CASE Kept!Opens(c, call[c].id, call[c].keep)
    BY <2>1, <2>2 DEF KeptTypes
  <2>3. CASE /\ Kept!Goto(c, [at |-> "remove", ids |-> {call[c].id}])
             /\ UNCHANGED <<clock, wanted>>
    <3> DEFINE state == [at |-> "remove", ids |-> {call[c].id}]
    <3>1. state.at = "remove"
      OBVIOUS
    <3>2. Kept!Goto(c, state)
      BY <2>3
    <3> HIDE DEF state
    <3> QED BY <2>1, <2>3, <3>1, <3>2, GotoIs DEF At
  <2> QED BY <1>7, <2>1, <2>2, <2>3 DEF Kept!Read
<1>8. CASE \E id \in Ids, large \in BOOLEAN : Kept!OpenFile(c, id, large)
  BY <1>5, <1>6, <1>8
<1>9. CASE Kept!Read(c)
  BY <1>5, <1>7, <1>9
<1> QED BY <1>2, <1>3, <1>4, <1>8, <1>9 DEF Begins

LEMMA PutIs ==
  ASSUME KeptTypes, NEW c \in Kept!Calls, Kept!Put(c)
  PROVE  /\ At(c) = "put" /\ At(c)' = "list" /\ Others(c)
         /\ call[c].id \in Ids /\ call[c].time \in 1..clock
         /\ listed' \in [Ids -> Nat] /\ listed'[call[c].id] = call[c].time
         /\ \A i \in Ids \ {call[c].id} : listed'[i] = listed[i]
         /\ texts' = texts \cup {call[c].id}
         /\ Kept!Stored' = Kept!Stored \cup {call[c].id} /\ IsFiniteSet(Kept!Stored')
         /\ UNCHANGED <<clock, wanted>> /\ torn' = FALSE
<1> DEFINE i == call[c].id
           state == [at |-> "list"]
<1>1. /\ At(c) = "put" /\ Kept!Goto(c, state) /\ torn' = FALSE
      /\ listed' = [listed EXCEPT ![i] = call[c].time] /\ texts' = texts \cup {i}
      /\ UNCHANGED <<clock, wanted>>
  BY DEF Kept!Put, At
<1>2. i \in Ids /\ call[c].time \in 1..clock /\ clock \in Nat /\ listed \in [Ids -> Nat]
  BY <1>1 DEF KeptTypes
<1>3. state.at = "list"
  OBVIOUS
<1>4. At(c)' = "list" /\ Others(c)
  <2> HIDE DEF state
  <2> QED BY <1>1, <1>3, GotoIs DEF At
<1>5. /\ listed' \in [Ids -> Nat] /\ listed'[i] = call[c].time
      /\ \A j \in Ids \ {i} : listed'[j] = listed[j]
  BY <1>1, <1>2
<1>6. Kept!Stored' = Kept!Stored \cup {i}
  BY <1>2, <1>5 DEF Kept!Stored
<1>7. IsFiniteSet(Kept!Stored')
  BY <1>6, FS_AddElement, StoredIs
<1> QED BY <1>1, <1>2, <1>4, <1>5, <1>6, <1>7

LEMMA ListIs ==
  ASSUME KeptTypes, NEW c \in Kept!Calls, Kept!List(c)
  PROVE  /\ At(c) = "list" /\ At(c)' = "compare" /\ Others(c)
         /\ call'[c].keep = Kept!Newest(listed)
         /\ UNCHANGED <<listed, texts, clock, torn, wanted>>
<1> DEFINE state == [at |-> "compare", keep |-> Kept!Newest(listed)]
<1>1. /\ At(c) = "list" /\ Kept!Goto(c, state)
      /\ UNCHANGED <<listed, texts, clock, torn, wanted>>
  BY DEF Kept!List, At, Kept!stored, Kept!history
<1>2. state.at = "compare" /\ state.keep = Kept!Newest(listed)
  OBVIOUS
<1> HIDE DEF state
<1> QED BY <1>1, <1>2, GotoIs DEF At

LEMMA CompareIs ==
  ASSUME KeptTypes, NEW c \in Kept!Calls, Kept!Compare(c)
  PROVE  /\ At(c) = "compare" /\ Others(c)
         /\ \/ At(c)' = "idle" /\ Kept!Stored \subseteq call[c].keep
            \/ At(c)' = "trim" /\ call'[c].ids = Kept!Stored \ call[c].keep
         /\ UNCHANGED <<listed, texts, clock, torn, wanted>>
<1> DEFINE old == Kept!Stored \ call[c].keep
           state == [at |-> "trim", ids |-> old]
<1>1. /\ At(c) = "compare" /\ Kept!Goto(c, IF old = {} THEN Kept!Idle ELSE state)
      /\ UNCHANGED <<listed, texts, clock, torn, wanted>>
  BY DEF Kept!Compare, At, Kept!stored, Kept!history
<1>2. state.at = "trim" /\ state.ids = old /\ Kept!Idle.at = "idle"
  BY DEF Kept!Idle
<1> HIDE DEF state
<1>3. CASE old = {}
  BY <1>1, <1>2, <1>3, GotoIs DEF At
<1>4. CASE old # {}
  BY <1>1, <1>2, <1>4, GotoIs DEF At
<1> QED BY <1>3, <1>4

LEMMA RemoveIs ==
  ASSUME KeptTypes, NEW c \in Kept!Calls, Kept!Remove(c)
  PROVE  \E ids :
           /\ At(c) \in {"trim", "remove", "clear"} /\ At(c)' = "idle" /\ Others(c)
           /\ At(c) = "trim" => ids = call[c].ids
           /\ listed' \in [Ids -> Nat]
           /\ \A i \in Ids : listed'[i] = IF i \in ids THEN 0 ELSE listed[i]
           /\ texts' = texts \ ids
           /\ Kept!Stored' = Kept!Stored \ ids /\ IsFiniteSet(Kept!Stored')
           /\ \/ wanted' = "none"
              \/ wanted' = wanted /\ (At(c) = "trim" \/ wanted \notin ids)
           /\ UNCHANGED <<clock, torn>>
<1> DEFINE ids == IF At(c) = "clear" THEN Ids ELSE call[c].ids
<1>1. /\ At(c) \in {"trim", "remove", "clear"} /\ Kept!Delete(ids) /\ Kept!Goto(c, Kept!Idle)
      /\ wanted' = IF At(c) = "clear" \/ (At(c) = "remove" /\ wanted \in call[c].ids)
                   THEN "none" ELSE wanted
      /\ UNCHANGED <<clock, torn>>
  BY DEF Kept!Remove, At
<1>2. At(c)' = "idle" /\ Others(c)
  BY <1>1, GotoIs DEF At, Kept!Idle
<1>3. /\ listed' = [i \in Ids |-> IF i \in ids THEN 0 ELSE listed[i]]
      /\ texts' = texts \ ids
  BY <1>1 DEF Kept!Delete
<1>4. /\ listed' \in [Ids -> Nat]
      /\ \A i \in Ids : listed'[i] = IF i \in ids THEN 0 ELSE listed[i]
  <2> HIDE DEF ids
  <2> QED BY <1>3 DEF KeptTypes
<1>5. Kept!Stored' = Kept!Stored \ ids
  <2> HIDE DEF ids
  <2> QED BY <1>4 DEF Kept!Stored
<1>6. IsFiniteSet(Kept!Stored')
  BY <1>5, StoredIs, FS_Subset
<1>7. At(c) = "trim" => ids = call[c].ids
  OBVIOUS
<1>8. wanted' = "none" \/ (wanted' = wanted /\ (At(c) = "trim" \/ wanted \notin ids))
  BY <1>1
<1> HIDE DEF ids
<1> QED BY <1>1, <1>2, <1>3, <1>4, <1>5, <1>6, <1>7, <1>8

(* Calls that are cut off end where they are; what they did remains.       *)
LEMMA CutOffIs ==
  ASSUME KeptTypes, \/ \E c \in Kept!Calls : Kept!Fail(c)
                    \/ \E t \in Kept!Tabs : Kept!LoadTab(t)
  PROVE  \E cs \in SUBSET Kept!Calls :
           /\ call' = [d \in Kept!Calls |-> call'[d]]
           /\ \A c \in cs : At(c)' = "idle"
           /\ \A c \in Kept!Calls \ cs : call'[c] = call[c]
           /\ UNCHANGED <<listed, texts, clock>>
           /\ torn' \in BOOLEAN /\ (torn => torn')
           /\ torn' \/ \A c \in cs : ~Kept!Adding(c)
           /\ wanted' = "none" \/ (wanted' = wanted /\ \A c \in cs : At(c) # "put")
<1>1. PICK cs \in SUBSET Kept!Calls : Kept!CutOff(cs)
  <2>1. \A c \in Kept!Calls : {c} \in SUBSET Kept!Calls
    OBVIOUS
  <2>2. \A t : {c \in Kept!Calls : Tab[c] = t} \in SUBSET Kept!Calls
    OBVIOUS
  <2> QED BY <2>1, <2>2 DEF Kept!Fail, Kept!LoadTab
<1>2. /\ call' = [c \in Kept!Calls |-> IF c \in cs THEN Kept!Idle ELSE call[c]]
      /\ torn' = (torn \/ \E c \in cs : Kept!Adding(c))
      /\ wanted' = IF \E c \in cs : At(c) = "put" THEN "none" ELSE wanted
      /\ UNCHANGED <<listed, texts, clock>>
  BY <1>1 DEF Kept!CutOff, Kept!stored, At
<1>3. /\ call' = [d \in Kept!Calls |-> call'[d]]
      /\ \A c \in cs : At(c)' = "idle"
      /\ \A c \in Kept!Calls \ cs : call'[c] = call[c]
  BY <1>2 DEF At, Kept!Idle
<1>4. torn' \in BOOLEAN /\ (torn => torn') /\ (torn' \/ \A c \in cs : ~Kept!Adding(c))
  BY <1>2, Zenon DEF KeptTypes
<1>5. wanted' = "none" \/ (wanted' = wanted /\ \A c \in cs : At(c) # "put")
  BY <1>2
<1> QED BY <1>2, <1>3, <1>4, <1>5

Ends ==
  \/ \E c \in Kept!Calls : Kept!Fail(c)
  \/ \E t \in Kept!Tabs : Kept!LoadTab(t)

LEMMA StepsAre ==
  ASSUME [Kept!Next]_(Kept!vars)
  PROVE  \/ \E c \in Kept!Calls : \/ Begins(c) \/ Kept!Put(c) \/ Kept!List(c)
                                  \/ Kept!Compare(c) \/ Kept!Remove(c)
         \/ Ends
         \/ UNCHANGED <<listed, texts, call, clock, torn, wanted>>
BY DEF Kept!Next, Begins, Ends, Kept!vars, Kept!stored, Kept!choice, Kept!history

LEMMA KeptTypesStep ==
  ASSUME Limit \in Nat \ {0}
  PROVE  KeptInv /\ [Kept!Next]_(Kept!vars) => KeptTypes'
<1> SUFFICES ASSUME KeptTypes, Timed, [Kept!Next]_(Kept!vars) PROVE KeptTypes'
  BY DEF KeptInv
<1> DEFINE Apart(c) ==
      /\ At(c) = "put" => call[c].id \in Ids /\ call[c].time \in 1..clock
      /\ At(c) = "compare" => /\ call[c].keep \subseteq Ids /\ IsFiniteSet(call[c].keep)
                              /\ Cardinality(call[c].keep) <= Limit
      /\ At(c) = "read" => call[c].id \in Ids
<1>0. /\ clock \in Nat /\ torn \in BOOLEAN /\ texts \subseteq Ids /\ IsFiniteSet(Kept!Stored)
      /\ listed \in [Ids -> Nat] /\ \A c \in Kept!Calls : Apart(c)
  BY DEF KeptTypes
<1>1. ASSUME NEW c \in Kept!Calls, Begins(c) PROVE KeptTypes'
  <2>1. UNCHANGED <<listed, texts, torn>> /\ clock' \in Nat /\ clock <= clock'
    BY <1>0, <1>1, BeginningsAre
  <2>2. Apart(c)' /\ Others(c)
    BY <1>0, <1>1, BeginningsAre DEF At
  <2>3. ASSUME NEW d \in Kept!Calls \ {c} PROVE Apart(d)'
    BY <1>0, <2>1, <2>2, <2>3 DEF At, Others
  <2>4. Kept!Stored' = Kept!Stored
    BY <2>1 DEF Kept!Stored
  <2> QED BY <1>0, <2>1, <2>2, <2>3, <2>4 DEF KeptTypes, Others, Kept!Calls
<1>2. ASSUME NEW c \in Kept!Calls, Others(c), Apart(c)', clock' = clock,
             listed' \in [Ids -> Nat], texts' \subseteq Ids, IsFiniteSet(Kept!Stored'),
             torn' \in BOOLEAN
      PROVE  KeptTypes'
  <2>1. ASSUME NEW d \in Kept!Calls \ {c} PROVE Apart(d)'
    BY <1>0, <1>2, <2>1 DEF At, Others
  <2> QED BY <1>0, <1>2, <2>1 DEF KeptTypes, Others, Kept!Calls
<1>3. ASSUME NEW c \in Kept!Calls, Kept!Put(c) PROVE KeptTypes'
  <2>1. Apart(c)'
    BY <1>3, PutIs DEF At
  <2> QED BY <1>0, <1>2, <1>3, <2>1, PutIs
<1>4. ASSUME NEW c \in Kept!Calls, Kept!List(c) PROVE KeptTypes'
  <2>1. Apart(c)'
    BY <1>4, ListIs, NewestAreFew, StoredIs DEF At
  <2>2. Kept!Stored' = Kept!Stored
    BY <1>4, ListIs DEF Kept!Stored
  <2> QED BY <1>0, <1>2, <1>4, <2>1, <2>2, ListIs
<1>5. ASSUME NEW c \in Kept!Calls, Kept!Compare(c) PROVE KeptTypes'
  <2>1. Apart(c)'
    BY <1>5, CompareIs DEF At
  <2>2. Kept!Stored' = Kept!Stored
    BY <1>5, CompareIs DEF Kept!Stored
  <2> QED BY <1>0, <1>2, <1>5, <2>1, <2>2, CompareIs
<1>6. ASSUME NEW c \in Kept!Calls, Kept!Remove(c) PROVE KeptTypes'
  <2>1. Apart(c)'
    BY <1>6, RemoveIs DEF At
  <2> QED BY <1>0, <1>2, <1>6, <2>1, RemoveIs
<1>7. CASE Ends
  <2>1. PICK cs \in SUBSET Kept!Calls :
           /\ call' = [d \in Kept!Calls |-> call'[d]]
           /\ \A c \in cs : At(c)' = "idle"
           /\ \A c \in Kept!Calls \ cs : call'[c] = call[c]
           /\ UNCHANGED <<listed, texts, clock>> /\ torn' \in BOOLEAN
    BY <1>7, CutOffIs DEF Ends
  <2>2. ASSUME NEW c \in cs PROVE Apart(c)'
    BY <2>1
  <2>3. ASSUME NEW c \in Kept!Calls \ cs PROVE Apart(c)'
    BY <1>0, <2>1 DEF At
  <2>4. Kept!Stored' = Kept!Stored
    BY <2>1 DEF Kept!Stored
  <2> QED BY <1>0, <2>1, <2>2, <2>3, <2>4 DEF KeptTypes, Kept!Calls
<1>8. CASE UNCHANGED <<listed, texts, call, clock, torn, wanted>>
  BY <1>8 DEF KeptTypes, At, Kept!Stored, Kept!Calls
<1> QED BY <1>1, <1>3, <1>4, <1>5, <1>6, <1>7, <1>8, StepsAre

LEMMA TogetherStep == KeptInv /\ [Kept!Next]_(Kept!vars) => Together'
<1> SUFFICES ASSUME KeptTypes, Together, [Kept!Next]_(Kept!vars) PROVE Together'
  BY DEF KeptInv
<1>1. CASE UNCHANGED <<listed, texts>>
  BY <1>1 DEF Together, Kept!Stored
<1>2. ASSUME NEW c \in Kept!Calls, Kept!Put(c) \/ Kept!Remove(c) PROVE Together'
  BY <1>2, PutIs, RemoveIs DEF Together
<1> QED BY <1>1, <1>2, StepsAre, BeginningsAre, ListIs, CompareIs, CutOffIs DEF Ends

LEMMA TimedStep == KeptInv /\ [Kept!Next]_(Kept!vars) => Timed'
<1> SUFFICES ASSUME KeptTypes, Timed, [Kept!Next]_(Kept!vars) PROVE Timed'
  BY DEF KeptInv
<1>0. /\ clock \in Nat /\ listed \in [Ids -> Nat]
      /\ \A c \in Kept!Calls : At(c) = "put" => call[c].id \in Ids /\ call[c].time \in 1..clock
  BY DEF KeptTypes
<1>1. ASSUME NEW c \in Kept!Calls, Begins(c) PROVE Timed'
  <2>1. UNCHANGED <<listed, Kept!Stored>> /\ Others(c)
    BY <1>1, BeginningsAre DEF Kept!Stored
  <2>2. CASE clock' = clock + 1 /\ At(c)' = "put" /\ call'[c].time = clock + 1
    BY <1>0, <2>1, <2>2, StoredIs DEF Timed, At, Others
  <2>3. CASE clock' \in {clock, clock + 1} /\ At(c)' # "put"
    BY <1>0, <2>1, <2>3 DEF Timed, At, Others
  <2> QED BY <1>1, <2>2, <2>3, BeginningsAre
<1>2. ASSUME NEW c \in Kept!Calls, Kept!Put(c) PROVE Timed'
  <2> DEFINE i == call[c].id
  <2>1. /\ At(c) = "put" /\ At(c)' = "list" /\ Others(c) /\ clock' = clock
        /\ listed'[i] = call[c].time /\ i \in Ids
        /\ \A j \in Ids \ {i} : listed'[j] = listed[j]
        /\ Kept!Stored' = Kept!Stored \cup {i}
    BY <1>2, PutIs
  <2>2. \A j \in Ids : listed'[j] <= clock
    BY <1>0, <2>1 DEF Timed
  <2>3. \A j, k \in Kept!Stored' : listed'[j] = listed'[k] => j = k
    BY <2>1, StoredIs DEF Timed
  <2>4. ASSUME NEW d \in Kept!Calls, At(d)' = "put"
        PROVE  /\ \A j \in Ids : listed'[j] # call'[d].time
               /\ \A e \in Kept!Calls : At(e)' = "put" /\ call'[e].time = call'[d].time => e = d
    BY <2>1, <2>4 DEF Timed, At, Others
  <2> QED BY <2>1, <2>2, <2>3, <2>4 DEF Timed, Kept!Calls
<1>3. ASSUME NEW c \in Kept!Calls, Kept!List(c) \/ Kept!Compare(c) PROVE Timed'
  <2>1. UNCHANGED <<listed, Kept!Stored, clock>> /\ Others(c) /\ At(c)' # "put"
    BY <1>3, ListIs, CompareIs DEF Kept!Stored
  <2> QED BY <2>1 DEF Timed, At, Others
<1>4. ASSUME NEW c \in Kept!Calls, Kept!Remove(c) PROVE Timed'
  <2>1. PICK ids : /\ At(c)' = "idle" /\ Others(c) /\ clock' = clock
                   /\ \A i \in Ids : listed'[i] = IF i \in ids THEN 0 ELSE listed[i]
                   /\ Kept!Stored' = Kept!Stored \ ids
    BY <1>4, RemoveIs
  <2>2. \A j \in Ids : listed'[j] <= clock
    BY <1>0, <2>1 DEF Timed
  <2>3. \A j, k \in Kept!Stored' : listed'[j] = listed'[k] => j = k
    BY <2>1, StoredIs DEF Timed
  <2>4. ASSUME NEW d \in Kept!Calls, At(d)' = "put"
        PROVE  /\ \A j \in Ids : listed'[j] # call'[d].time
               /\ \A e \in Kept!Calls : At(e)' = "put" /\ call'[e].time = call'[d].time => e = d
    <3>1. At(d) = "put" /\ call'[d] = call[d] /\ call[d].time \in 1..clock
      BY <1>0, <2>1, <2>4 DEF At, Others
    <3>2. \A e \in Kept!Calls : At(e)' = "put" => At(e) = "put" /\ call'[e] = call[e]
      BY <2>1 DEF At, Others
    <3> QED BY <1>0, <2>1, <3>1, <3>2 DEF Timed
  <2> QED BY <2>1, <2>2, <2>3, <2>4 DEF Timed, Kept!Calls
<1>5. CASE Ends
  <2>1. PICK cs \in SUBSET Kept!Calls :
           /\ \A c \in cs : At(c)' = "idle"
           /\ \A c \in Kept!Calls \ cs : call'[c] = call[c]
           /\ UNCHANGED <<listed, clock>>
    BY <1>5, CutOffIs DEF Ends
  <2>2. \A c \in Kept!Calls : At(c)' = "put" => At(c) = "put" /\ call'[c] = call[c]
    BY <2>1 DEF At
  <2>3. Kept!Stored' = Kept!Stored
    BY <2>1 DEF Kept!Stored
  <2> QED BY <2>1, <2>2, <2>3 DEF Timed
<1>6. CASE UNCHANGED <<listed, texts, call, clock, torn, wanted>>
  BY <1>6 DEF Timed, At, Kept!Stored
<1> QED BY <1>1, <1>2, <1>3, <1>4, <1>5, <1>6, StepsAre

LEMMA FewerIs ==
  ASSUME NEW S, IsFiniteSet(S), NEW T, T \subseteq S, Cardinality(S) <= Limit, Limit \in Nat
  PROVE  Cardinality(T) <= Limit
BY FS_Subset, FS_CardinalityType

LEMMA TrimmedStep ==
  ASSUME Limit \in Nat \ {0}
  PROVE  KeptInv /\ [Kept!Next]_(Kept!vars) => Trimmed'
<1> SUFFICES ASSUME KeptTypes, Trimmed, [Kept!Next]_(Kept!vars) PROVE Trimmed'
  BY DEF KeptInv
<1>0. IsFiniteSet(Kept!Stored)
  BY StoredIs
<1>1. ASSUME NEW c \in Kept!Calls, Others(c), At(c) \notin {"list", "compare", "trim"},
             UNCHANGED <<listed, torn>>
      PROVE  Trimmed'
  <2>1. Kept!Stored' = Kept!Stored
    BY <1>1 DEF Kept!Stored
  <2> QED BY <1>1, <2>1 DEF Trimmed, At, Others, Kept!Calls
<1>2. ASSUME NEW c \in Kept!Calls, Begins(c) PROVE Trimmed'
  BY <1>1, <1>2, BeginningsAre
<1>3. ASSUME NEW c \in Kept!Calls, Kept!Put(c) PROVE Trimmed'
  BY <1>3, PutIs DEF Trimmed, Kept!Calls
<1>4. ASSUME NEW c \in Kept!Calls, Kept!List(c) PROVE Trimmed'
  BY <1>4, ListIs DEF Trimmed, Kept!Calls
<1>5. ASSUME NEW c \in Kept!Calls, Kept!Compare(c) PROVE Trimmed'
  <2>1. /\ At(c) = "compare" /\ IsFiniteSet(call[c].keep) /\ Cardinality(call[c].keep) <= Limit
        /\ Kept!Stored' = Kept!Stored
    BY <1>5, CompareIs DEF KeptTypes, Kept!Stored
  <2>2. CASE Kept!Stored \subseteq call[c].keep
    BY <2>1, <2>2, FewerIs DEF Trimmed
  <2>3. CASE At(c)' = "trim" /\ call'[c].ids = Kept!Stored \ call[c].keep
    <3>1. Kept!Stored' \ call'[c].ids \subseteq call[c].keep
      BY <2>1, <2>3
    <3>2. Cardinality(Kept!Stored' \ call'[c].ids) <= Limit
      BY <2>1, <3>1, FewerIs
    <3> QED BY <2>3, <3>2 DEF Trimmed, Kept!Calls
  <2> QED BY <1>5, <2>2, <2>3, CompareIs
<1>6. ASSUME NEW c \in Kept!Calls, Kept!Remove(c) PROVE Trimmed'
  <2>1. PICK ids : /\ At(c) \in {"trim", "remove", "clear"} /\ Others(c) /\ torn' = torn
                   /\ At(c) = "trim" => ids = call[c].ids
                   /\ Kept!Stored' = Kept!Stored \ ids
    BY <1>6, RemoveIs
  <2>2. CASE torn
    BY <2>1, <2>2 DEF Trimmed
  <2>3. CASE Cardinality(Kept!Stored) <= Limit
    BY <1>0, <2>1, <2>3, FewerIs DEF Trimmed
  <2>4. CASE \E d \in Kept!Calls : At(d) \in {"list", "compare"}
    <3>1. PICK d \in Kept!Calls : At(d) \in {"list", "compare"}
      BY <2>4
    <3>2. call'[d] = call[d]
      BY <2>1, <3>1 DEF Others
    <3> QED BY <3>1, <3>2 DEF Trimmed, At, Kept!Calls
  <2>5. CASE \E d \in Kept!Calls : At(d) = "trim" /\ Cardinality(Kept!Stored \ call[d].ids) <= Limit
    <3>1. PICK d \in Kept!Calls : At(d) = "trim" /\ Cardinality(Kept!Stored \ call[d].ids) <= Limit
      BY <2>5
    <3>2. CASE d = c
      BY <2>1, <3>1, <3>2 DEF Trimmed
    <3>3. CASE d # c
      <4>1. call'[d] = call[d]
        BY <2>1, <3>3 DEF Others
      <4>2. IsFiniteSet(Kept!Stored \ call[d].ids)
        BY <1>0, FS_Subset
      <4>3. Kept!Stored' \ call'[d].ids \subseteq Kept!Stored \ call[d].ids
        BY <2>1, <4>1
      <4>4. Cardinality(Kept!Stored' \ call'[d].ids) <= Limit
        BY <3>1, <4>2, <4>3, FewerIs
      <4> QED BY <3>1, <4>1, <4>4 DEF Trimmed, At, Kept!Calls
    <3> QED BY <3>2, <3>3
  <2> QED BY <2>2, <2>3, <2>4, <2>5 DEF Trimmed
<1>7. CASE Ends
  <2>1. PICK cs \in SUBSET Kept!Calls :
           /\ \A c \in Kept!Calls \ cs : call'[c] = call[c]
           /\ listed' = listed /\ (torn => torn')
           /\ torn' \/ \A c \in cs : ~Kept!Adding(c)
    BY <1>7, CutOffIs DEF Ends
  <2>2. Kept!Stored' = Kept!Stored
    BY <2>1 DEF Kept!Stored
  <2>3. CASE torn'
    BY <2>3 DEF Trimmed
  <2>4. CASE ~torn'
    <3>1. \A c \in Kept!Calls : At(c) \in {"list", "compare", "trim"} => call'[c] = call[c]
      BY <2>1, <2>4 DEF Kept!Adding, At
    <3> QED BY <2>1, <2>2, <2>4, <3>1 DEF Trimmed, At, Kept!Calls
  <2> QED BY <2>3, <2>4
<1>8. CASE UNCHANGED <<listed, texts, call, clock, torn, wanted>>
  BY <1>8 DEF Trimmed, At, Kept!Stored, Kept!Calls
<1> QED BY <1>2, <1>3, <1>4, <1>5, <1>6, <1>7, <1>8, StepsAre

LEMMA NewerStep ==
  ASSUME Limit \in Nat \ {0}
  PROVE  KeptInv /\ [Kept!Next]_(Kept!vars) => Newer'
<1> SUFFICES ASSUME KeptTypes, Timed, Newer, [Kept!Next]_(Kept!vars), wanted' # "none"
             PROVE  Newer'
  BY DEF KeptInv, Newer
<1> USE DEF Kept!Adding
<1>0. /\ clock \in Nat /\ listed \in [Ids -> Nat]
      /\ \A c \in Kept!Calls : At(c) = "put" => call[c].id \in Ids /\ call[c].time \in 1..clock
  BY DEF KeptTypes
<1>1. ASSUME NEW c \in Kept!Calls, Begins(c) PROVE Newer'
  <2>1. UNCHANGED <<listed, Kept!Stored>> /\ Others(c) /\ At(c) \in {"idle", "read"}
    BY <1>1, BeginningsAre DEF Kept!Stored
  <2>2. CASE wanted' = wanted /\ ~Kept!Adding(c)'
    BY <2>1, <2>2 DEF Newer, At, Others, Kept!Calls
  <2>3. CASE /\ At(c)' = "put" /\ call'[c].id \in Ids /\ call'[c].time = clock + 1
             /\ wanted' = call'[c].id /\ \A d \in Kept!Calls \ {c} : ~Kept!Adding(d)
    <3>1. \A i \in Ids : listed'[i] < call'[c].time
      BY <1>0, <2>1, <2>3 DEF Timed
    <3>2. \A d \in Kept!Calls \ {c} : ~Kept!Adding(d)'
      BY <2>1, <2>3 DEF Others, At
    <3> QED BY <2>3, <3>1, <3>2 DEF Newer, At, Kept!Calls
  <2> QED BY <1>1, <2>2, <2>3, BeginningsAre DEF At
<1>2. ASSUME NEW c \in Kept!Calls, Kept!Put(c) PROVE Newer'
  <2>1. /\ At(c) = "put" /\ At(c)' = "list" /\ Others(c) /\ wanted' = wanted
        /\ call[c].id \in Ids /\ call[c].time \in 1..clock /\ listed'[call[c].id] = call[c].time
        /\ \A i \in Ids \ {call[c].id} : listed'[i] = listed[i]
        /\ Kept!Stored' = Kept!Stored \cup {call[c].id}
    BY <1>2, PutIs
  <2>2. call[c].id = wanted /\ \A i \in Ids : listed[i] < call[c].time
    BY <2>1 DEF Newer
  <2>3. wanted \in Kept!Stored' /\ \A i \in Kept!Stored' : listed'[i] <= listed'[wanted]
    BY <1>0, <2>1, <2>2, StoredIs
  <2>4. \A d \in Kept!Calls \ {c} : ~Kept!Adding(d) /\ ~Kept!Adding(d)'
    BY <2>1 DEF Newer, At, Others
  <2> QED BY <2>1, <2>3, <2>4 DEF Newer, At, Kept!Calls
<1>3. ASSUME NEW c \in Kept!Calls, Kept!List(c) PROVE Newer'
  <2>1. /\ At(c) = "list" /\ At(c)' = "compare" /\ Others(c)
        /\ call'[c].keep = Kept!Newest(listed) /\ UNCHANGED <<listed, Kept!Stored, wanted>>
    BY <1>3, ListIs DEF Kept!Stored
  <2>2. \A d \in Kept!Calls \ {c} : ~Kept!Adding(d) /\ ~Kept!Adding(d)'
    BY <2>1 DEF Newer, At, Others
  <2>3. wanted \in Kept!Stored /\ \A i \in Kept!Stored : listed[i] <= listed[wanted]
    BY <2>1, <2>2 DEF Newer, At
  <2>4. wanted' \in call'[c].keep
    BY <2>1, <2>3, NewestStays
  <2> QED BY <2>1, <2>2, <2>3, <2>4 DEF Newer, At, Kept!Calls
<1>4. ASSUME NEW c \in Kept!Calls, Kept!Compare(c) PROVE Newer'
  <2>1. /\ At(c) = "compare" /\ Others(c) /\ UNCHANGED <<listed, Kept!Stored, wanted>>
        /\ \/ At(c)' = "idle"
           \/ At(c)' = "trim" /\ call'[c].ids = Kept!Stored \ call[c].keep
    BY <1>4, CompareIs DEF Kept!Stored
  <2>2. \A d \in Kept!Calls \ {c} : ~Kept!Adding(d) /\ ~Kept!Adding(d)'
    BY <2>1 DEF Newer, At, Others
  <2>3. wanted \in Kept!Stored /\ wanted \in call[c].keep
    BY <2>1, <2>2 DEF Newer, At
  <2> QED BY <2>1, <2>2, <2>3 DEF Newer, At, Kept!Calls
<1>5. ASSUME NEW c \in Kept!Calls, Kept!Remove(c) PROVE Newer'
  <2>1. PICK ids : /\ At(c) \in {"trim", "remove", "clear"} /\ At(c)' = "idle" /\ Others(c)
                   /\ At(c) = "trim" => ids = call[c].ids
                   /\ \A i \in Ids : listed'[i] = IF i \in ids THEN 0 ELSE listed[i]
                   /\ Kept!Stored' = Kept!Stored \ ids
                   /\ wanted' = wanted /\ (At(c) = "trim" \/ wanted \notin ids)
    BY <1>5, RemoveIs
  <2>2. wanted \notin ids
    BY <2>1 DEF Newer
  <2>3. \A d \in Kept!Calls : Kept!Adding(d)' => d # c /\ call'[d] = call[d] /\ Kept!Adding(d)
    BY <2>1 DEF Others, At
  <2>4. \A c1, d \in Kept!Calls : Kept!Adding(c1)' /\ Kept!Adding(d)' => c1 = d
    BY <2>1, <2>3 DEF Newer
  <2>5. ASSUME NEW d \in Kept!Calls, At(d)' = "put"
        PROVE  call'[d].id = wanted /\ \A i \in Ids : listed'[i] < call'[d].time
    BY <1>0, <2>1, <2>3, <2>5 DEF Newer, At
  <2>6. ASSUME NEW d \in Kept!Calls, At(d)' = "list"
        PROVE  \A i \in Kept!Stored' : listed'[i] <= listed'[wanted]
    <3>1. At(d) = "list" /\ d # c
      BY <2>3, <2>6 DEF At
    <3>2. \A e \in Kept!Calls : At(e) # "put"
      BY <2>1, <3>1 DEF Newer, At
    <3>3. wanted \in Kept!Stored
      BY <2>1, <3>2 DEF Newer
    <3> QED BY <2>1, <2>2, <3>1, <3>3, StoredIs DEF Newer
  <2>7. ASSUME \A d \in Kept!Calls : At(d)' # "put" PROVE wanted \in Kept!Stored'
    <3>1. \A d \in Kept!Calls : At(d) # "put"
      BY <2>1, <2>7 DEF At, Others
    <3> QED BY <2>1, <2>2, <3>1 DEF Newer
  <2> QED BY <2>1, <2>3, <2>4, <2>5, <2>6, <2>7 DEF Newer, At, Kept!Calls
<1>6. CASE Ends
  <2>1. PICK cs \in SUBSET Kept!Calls :
           /\ \A c \in cs : At(c)' = "idle"
           /\ \A c \in Kept!Calls \ cs : call'[c] = call[c]
           /\ listed' = listed
           /\ wanted' = wanted /\ \A c \in cs : At(c) # "put"
    BY <1>6, CutOffIs DEF Ends
  <2>2. Kept!Stored' = Kept!Stored
    BY <2>1 DEF Kept!Stored
  <2>3. \A d \in Kept!Calls : Kept!Adding(d)' => call'[d] = call[d] /\ Kept!Adding(d)
    BY <2>1 DEF At
  <2>4. \A d \in Kept!Calls : At(d)' # "put" => At(d) # "put"
    BY <2>1 DEF At
  <2> QED BY <2>1, <2>2, <2>3, <2>4 DEF Newer, At, Kept!Calls
<1>7. CASE UNCHANGED <<listed, texts, call, clock, torn, wanted>>
  BY <1>7 DEF Newer, At, Kept!Stored, Kept!Calls
<1> QED BY <1>1, <1>2, <1>3, <1>4, <1>5, <1>6, <1>7, StepsAre

LEMMA KeptInit == ASSUME Limit \in Nat PROVE Kept!Init => KeptInv
<1> SUFFICES ASSUME Kept!Init PROVE KeptInv
  OBVIOUS
<1>1. /\ listed = [i \in Ids |-> 0] /\ texts = {} /\ call = [c \in Kept!Calls |-> Kept!Idle]
      /\ clock = 0 /\ torn = FALSE /\ wanted = "none"
  BY DEF Kept!Init
<1>2. Kept!Stored = {} /\ IsFiniteSet(Kept!Stored) /\ Cardinality(Kept!Stored) = 0
  BY <1>1, FS_EmptySet DEF Kept!Stored
<1>3. \A c \in Kept!Calls : At(c) = "idle"
  BY <1>1 DEF At, Kept!Idle
<1>4. KeptTypes
  BY <1>1, <1>2, <1>3 DEF KeptTypes
<1>5. Together /\ Trimmed /\ Newer
  BY <1>1, <1>2 DEF Together, Trimmed, Newer
<1>6. Timed
  BY <1>1, <1>2, <1>3 DEF Timed
<1> QED BY <1>4, <1>5, <1>6 DEF KeptInv

(***************************************************************************)
(* The browser keeps the text of every file it lists and of no other; when *)
(* nothing is under way it keeps no more of them than the limit, unless an *)
(* add was cut off, and the one opened last is among them (lib/recent.ts): *)
(* for any number of tabs, of calls in each and of files, whatever fails.  *)
(***************************************************************************)
THEOREM TheFilesAreKept ==
  ASSUME Limit \in Nat \ {0}
  PROVE  Kept!Spec => []Kept!RecentIsKept
<1>0. Kept!Init => KeptInv
  BY KeptInit
<1>1. KeptInv /\ [Kept!Next]_(Kept!vars) => KeptInv'
  BY KeptTypesStep, TogetherStep, TimedStep, TrimmedStep, NewerStep DEF KeptInv
<1>2. KeptInv => Kept!RecentIsKept
  <2> SUFFICES ASSUME KeptInv, \A c \in Kept!Calls : call[c] = Kept!Idle
               PROVE  /\ ~torn => Cardinality(Kept!Stored) <= Limit
                      /\ wanted # "none" => wanted \in Kept!Stored
    BY CardinalityIs DEF KeptInv, Together, Kept!RecentIsKept
  <2>1. \A c \in Kept!Calls : At(c) = "idle"
    BY DEF At, Kept!Idle
  <2> QED BY <2>1 DEF KeptInv, Trimmed, Newer
<1> QED BY <1>0, <1>1, <1>2, PTL DEF Kept!Spec

-----------------------------------------------------------------------------
(***************************************************************************)
(* The list of what is stored (StoredList).                                *)
(***************************************************************************)
Repositories == Stock!Repositories
Scans == Stock!Scans

Kinds == {"none", "list", "history", "open", "remove", "relist", "rehistory"}
Lists == SUBSET (Scans \cup Repositories)
Opened == {<<>>} \cup Repositories \X Scans
Queries == [at : {"idle", "asked", "answered"}, kind : Kinds,
            repository : Repositories \cup {"none"}, scan : Scans \cup {0},
            here : BOOLEAN, open : Opened, value : Lists, doubt : BOOLEAN]

Is(c, kind) == queries[c].kind = kind
H(c) == queries[c].here
Answered(c) == queries[c].at = "answered"
Deletes(c) == queries[c].kind \in {"remove", "relist", "rehistory"}
Removes(c) == Is(c, "remove") /\ queries[c].at = "asked"

(* A call that deletes a single scan, and its repository is the one shown. *)
Single(c) == Is(c, "rehistory") \/ (queries[c].kind \in {"remove", "relist"} /\ queries[c].scan # 0)

StockTypes ==
  /\ library \subseteq Scans /\ queries \in [Slots -> Queries]
  /\ \A c \in Slots : Is(c, "none") <=> queries[c].at = "idle"
  /\ shelf # <<>> => shelf[1] \subseteq Repositories
  /\ expanded \in Repositories \cup {"none"}
  /\ scans # <<>> => scans[1] \subseteq Scans
  /\ mounted \in BOOLEAN /\ deleting \in BOOLEAN
  /\ open \in Opened
  /\ crossed \in BOOLEAN /\ behind \in BOOLEAN /\ doubtful \in BOOLEAN

(* What the server answers is of the repository that was named.            *)
Named ==
  /\ \A g \in gone : Of[g[1]] = g[2]
  /\ open # <<>> => Of[open[2]] = open[1]
  /\ \A c \in Slots : Answered(c) =>
       /\ queries[c].kind \in {"history", "rehistory", "open", "remove"} =>
            queries[c].value \subseteq {s \in Scans : Of[s] = queries[c].repository}
       /\ Is(c, "list") \/ Is(c, "relist") => queries[c].value \subseteq Repositories

(* The analysis that is open is stored, or about to be closed: what was    *)
(* deleted since it was opened saw it open.                                *)
Closing(c) == queries[c].open # <<>> /\ queries[c].open[1] = queries[c].repository
Closes(c, s) == Is(c, "remove") /\ Answered(c) /\ s \in queries[c].value /\ Closing(c)

Certain ==
  /\ \A c \in Slots : Is(c, "open") /\ Answered(c) /\ ~queries[c].doubt =>
       /\ queries[c].value \subseteq library
       /\ \A d \in Slots : Removes(d) => queries[d].repository # queries[c].repository
  /\ open # <<>> /\ ~doubtful =>
       /\ \A d \in Slots : Removes(d) /\ queries[d].repository = open[1] => Closing(d)
       /\ open[2] \in library \/ \E d \in Slots : Closes(d, open[2])

(* One deletion at a time in a visit, and one list; a page that is not     *)
(* shown has no calls. Deletions under way are this visit's.               *)
Alone ==
  /\ \A c \in Slots : Is(c, "none") => ~H(c)
  /\ ~mounted => shelf = <<>> /\ expanded = "none" /\ \A c \in Slots : ~H(c)
  /\ deleting <=> \E c \in Slots : H(c) /\ Deletes(c)
  /\ \A c, d \in Slots : H(c) /\ H(d) /\ Deletes(c) /\ Deletes(d) => c = d
  /\ \A c, d \in Slots : H(c) /\ H(d) /\ Is(c, "list") /\ Is(d, "list") => c = d
  /\ \A c \in Slots : H(c) => /\ Is(c, "list") => shelf = <<>>
                              /\ Deletes(c) => shelf # <<>>
  /\ mounted /\ ~behind => \A c \in Slots : Removes(c) => H(c)

(* Which scans are shown, and on their way to be shown.                    *)
Straight ==
  /\ \A c \in Slots : H(c) /\ Single(c) => expanded = queries[c].repository
  /\ ~crossed =>
       /\ \A c, d \in Slots : H(c) /\ H(d) /\ Is(c, "history") /\ Is(d, "history") => c = d
       /\ \A c \in Slots : H(c) /\ Is(c, "history") =>
            /\ expanded # "none" => expanded = queries[c].repository /\ scans = <<>>
            /\ \A d \in Slots : H(d) => ~Single(d)
       /\ expanded # "none" /\ scans # <<>> => \A s \in scans[1] : Of[s] = expanded

(* What is listed is stored, or about to be listed again.                  *)
Having(r) == {s \in library : Of[s] = r}
Stocked == {Of[s] : s \in library}

Gone(c) == H(c) /\ Is(c, "remove") /\ Answered(c) /\ queries[c].value # {}
Renews(c) == Gone(c) \/ (H(c) /\ Is(c, "relist"))

Fresh ==
  ~behind =>
    /\ \A c \in Slots : H(c) /\ Answered(c) /\ (Is(c, "list") \/ Is(c, "relist")) =>
         queries[c].value = Stocked
    /\ shelf # <<>> => shelf[1] = Stocked \/ \E c \in Slots : Renews(c)

(* And the scans that are shown are, or are about to be shown again.       *)
Leaves(c) ==
  Gone(c) \/ (H(c) /\ (Is(c, "rehistory") \/ (Is(c, "relist") /\ queries[c].scan # 0)))
Stale(r) == \E c \in Slots : queries[c].repository = r /\ Leaves(c)

Current ==
  ~behind /\ ~crossed =>
    /\ \A c \in Slots : H(c) /\ Answered(c) =>
         /\ Is(c, "rehistory") => queries[c].value = Having(queries[c].repository)
         /\ Is(c, "history") /\ expanded # "none" =>
              queries[c].value = Having(expanded) \/ Stale(expanded)
    /\ expanded # "none" /\ scans # <<>> => scans[1] = Having(expanded) \/ Stale(expanded)

StockInv == StockTypes /\ Named /\ Certain /\ Alone /\ Straight /\ Fresh /\ Current

(* The names for no repository and for all scans are not among them.       *)
Listable == "none" \notin Repositories /\ 0 \notin Scans

-----------------------------------------------------------------------------
LEMMA SortsAre ==
  ASSUME Listable
  PROVE  /\ \A s \in Scans : Of[s] \in Repositories /\ s # 0
         /\ \A r \in Repositories : r # "none"
         /\ "none" = Stock!None /\ 0 = Stock!All
         /\ \A r : Stock!ScansOf(r) = {s \in library : Of[s] = r}
BY DEF Listable, Scans, Repositories, Stock!Scans, Stock!Repositories, Stock!None, Stock!All,
  Stock!ScansOf

LEMMA QueryIs ==
  ASSUME StockTypes, NEW c \in Slots
  PROVE  /\ queries[c] \in Queries
         /\ queries[c].at \in {"idle", "asked", "answered"} /\ queries[c].kind \in Kinds
         /\ queries[c].repository \in Repositories \cup {"none"}
         /\ queries[c].scan \in Scans \cup {0} /\ queries[c].value \in Lists
         /\ queries[c].open \in Opened /\ H(c) \in BOOLEAN /\ queries[c].doubt \in BOOLEAN
<1>1. queries[c] \in Queries
  BY DEF StockTypes
<1> QED BY <1>1 DEF Queries, H

LEMMA AskedIs ==
  ASSUME NEW kind \in Kinds, NEW r \in Repositories \cup {"none"}, NEW s \in Scans \cup {0}
  PROVE  /\ Stock!Asked(kind, r, s) \in Queries
         /\ Stock!Asked(kind, r, s).at = "asked" /\ Stock!Asked(kind, r, s).kind = kind
         /\ Stock!Asked(kind, r, s).repository = r /\ Stock!Asked(kind, r, s).scan = s
         /\ Stock!Asked(kind, r, s).here
<1>1. {} \in Lists /\ <<>> \in Opened
  BY DEF Lists, Opened
<1> QED BY <1>1 DEF Stock!Asked, Queries

LEMMA IdleIs ==
  /\ Stock!Idle \in Queries /\ Stock!Idle.at = "idle" /\ Stock!Idle.kind = "none"
  /\ ~Stock!Idle.here
<1>1. /\ Stock!Asked("none", Stock!None, Stock!All) \in Queries
      /\ Stock!Asked("none", Stock!None, Stock!All).kind = "none"
  BY AskedIs DEF Kinds, Stock!None, Stock!All
<1> QED BY <1>1 DEF Stock!Idle, Queries

(* What the other calls ask for and are told stays.                        *)
Kin(d) ==
  /\ queries'[d].at = queries[d].at /\ queries'[d].kind = queries[d].kind
  /\ queries'[d].repository = queries[d].repository /\ queries'[d].scan = queries[d].scan
  /\ queries'[d].open = queries[d].open /\ queries'[d].value = queries[d].value
Turn(c) == queries' \in [Slots -> Queries] /\ \A d \in Slots \ {c} : Kin(d)
Still(c) == \A d \in Slots \ {c} : queries'[d].here = queries[d].here
Sure(c) == \A d \in Slots \ {c} : queries'[d].doubt = queries[d].doubt
Moves(c) == Turn(c) /\ Still(c) /\ Sure(c)

LEMMA TurnIs ==
  ASSUME StockTypes, NEW c \in Slots, NEW state \in Queries, Stock!Goto(c, state)
  PROVE  queries'[c] = state /\ Moves(c)
<1>1. queries' = [queries EXCEPT ![c] = state] /\ queries \in [Slots -> Queries]
  BY DEF Stock!Goto, StockTypes
<1> QED BY <1>1 DEF Moves, Turn, Still, Sure, Kin

LEMMA OverIs ==
  ASSUME StockTypes, NEW c \in Slots, Stock!Goto(c, Stock!Idle)
  PROVE  Moves(c) /\ Is(c, "none")' /\ queries'[c].at = "idle" /\ ~H(c)'
BY IdleIs, TurnIs DEF Is, H

-----------------------------------------------------------------------------
(***************************************************************************)
(* What each step does, in the words of the invariant.                     *)
(***************************************************************************)
LEMMA BegunIs ==
  ASSUME StockTypes, NEW c \in Slots, NEW state \in Queries, Stock!Begin(c, state)
  PROVE  /\ Is(c, "none") /\ queries'[c] = state /\ Moves(c)
         /\ UNCHANGED <<library, open, gone, doubtful>>
<1>1. /\ queries[c] = Stock!Idle /\ Stock!Goto(c, state)
      /\ UNCHANGED <<library, open, gone, doubtful>>
  BY DEF Stock!Begin
<1> QED BY <1>1, IdleIs, TurnIs DEF Is

LEMMA ShowHistoryIs ==
  ASSUME StockTypes, NEW c \in Slots, NEW r \in Repositories, Stock!ShowHistory(c, r)
  PROVE  /\ ~deleting /\ shelf # <<>> /\ Is(c, "none") /\ Moves(c)
         /\ Is(c, "history")' /\ queries'[c].at = "asked" /\ queries'[c].repository = r
         /\ H(c)' /\ expanded' = r /\ scans' = <<>>
         /\ crossed' \in BOOLEAN /\ (crossed => crossed')
         /\ crossed' \/ \A d \in Slots : H(d) => ~Is(d, "history")
         /\ UNCHANGED <<library, mounted, shelf, deleting, open, gone, behind, doubtful>>
<1> DEFINE state == Stock!Asked("history", r, Stock!All)
<1>1. /\ ~deleting /\ r \in Stock!Listed /\ Stock!Begin(c, state)
      /\ expanded' = r /\ scans' = <<>>
      /\ UNCHANGED <<mounted, shelf, deleting, behind>>
  BY DEF Stock!ShowHistory
<1>2. /\ state \in Queries /\ state.at = "asked" /\ state.kind = "history"
      /\ state.repository = r /\ state.here
  BY AskedIs DEF Kinds, Stock!All
<1>3. crossed' = (crossed \/ Stock!Here("history") # {})
  BY DEF Stock!ShowHistory
<1>4. (Stock!Here("history") # {}) \/ \A d \in Slots : H(d) => ~Is(d, "history")
  BY DEF Stock!Here, Is, H
<1>5. /\ crossed' \in BOOLEAN /\ (crossed => crossed')
      /\ crossed' \/ \A d \in Slots : H(d) => ~Is(d, "history")
  BY <1>3, <1>4, Zenon
<1>6. shelf # <<>>
  BY <1>1 DEF Stock!Listed
<1> HIDE DEF state
<1> QED BY <1>1, <1>2, <1>5, <1>6, BegunIs DEF Is, H

LEMMA OpenRepositoryIs ==
  ASSUME StockTypes, NEW c \in Slots, NEW r \in Repositories, Stock!OpenRepository(c, r)
  PROVE  /\ ~deleting /\ Is(c, "none") /\ Moves(c) /\ shelf # <<>>
         /\ Is(c, "open")' /\ queries'[c].at = "asked" /\ H(c)'
         /\ UNCHANGED <<library, mounted, shelf, expanded, scans, deleting, open, gone, crossed,
                        behind, doubtful>>
<1> DEFINE state == Stock!Asked("open", r, Stock!All)
<1>1. /\ ~deleting /\ r \in Stock!Listed /\ Stock!Begin(c, state)
      /\ UNCHANGED <<mounted, shelf, expanded, scans, deleting, crossed, behind>>
  BY DEF Stock!OpenRepository, Stock!display
<1>2. state \in Queries /\ state.at = "asked" /\ state.kind = "open" /\ state.here
  BY AskedIs DEF Kinds, Stock!All
<1>3. shelf # <<>>
  BY <1>1 DEF Stock!Listed
<1> HIDE DEF state
<1> QED BY <1>1, <1>2, <1>3, BegunIs DEF Is, H

LEMMA OpenScanIs ==
  ASSUME StockTypes, NEW c \in Slots, NEW s \in Scans, Stock!OpenScan(c, s)
  PROVE  /\ Is(c, "none") /\ Moves(c)
         /\ Is(c, "open")' /\ queries'[c].at = "asked" /\ ~H(c)'
         /\ UNCHANGED <<library, mounted, shelf, expanded, scans, deleting, open, gone, crossed,
                        behind, doubtful>>
<1> DEFINE asked == Stock!Asked("open", Of[s], s)
           state == [asked EXCEPT !.here = FALSE]
<1>1. /\ Stock!Begin(c, state)
      /\ UNCHANGED <<mounted, shelf, expanded, scans, deleting, crossed, behind>>
  BY DEF Stock!OpenScan, Stock!display
<1>2. asked \in Queries /\ asked.at = "asked" /\ asked.kind = "open"
  <2>1. Of[s] \in Repositories
    BY DEF Repositories, Scans, Stock!Repositories, Stock!Scans
  <2> QED BY <2>1, AskedIs DEF Kinds
<1>3. state \in Queries /\ state.at = "asked" /\ state.kind = "open" /\ ~state.here
  <2> HIDE DEF asked
  <2> QED BY <1>2 DEF Queries
<1> HIDE DEF state
<1> QED BY <1>1, <1>3, BegunIs DEF Is, H

LEMMA ReturnIs ==
  ASSUME StockTypes, NEW c \in Slots, Stock!Return(c)
  PROVE  /\ ~mounted /\ mounted' = TRUE /\ Is(c, "none") /\ Moves(c)
         /\ Is(c, "list")' /\ queries'[c].at = "asked" /\ H(c)'
         /\ behind' \in BOOLEAN
         /\ behind' \/ \A d \in Slots : ~Removes(d)
         /\ UNCHANGED <<library, shelf, expanded, scans, deleting, open, gone, crossed, doubtful>>
<1> DEFINE state == Stock!Asked("list", Stock!None, Stock!All)
<1>1. /\ ~mounted /\ mounted' = TRUE /\ Stock!Begin(c, state)
      /\ UNCHANGED <<shelf, expanded, scans, deleting, crossed>>
  BY DEF Stock!Return, Stock!display
<1>2. state \in Queries /\ state.at = "asked" /\ state.kind = "list" /\ state.here
  BY AskedIs DEF Kinds, Stock!None, Stock!All
<1>3. behind' = (Stock!Removing # {})
  BY DEF Stock!Return
<1>4. (Stock!Removing # {}) \/ \A d \in Slots : ~Removes(d)
  BY DEF Stock!Removing, Removes, Is
<1>5. behind' \in BOOLEAN /\ (behind' \/ \A d \in Slots : ~Removes(d))
  BY <1>3, <1>4, Zenon
<1> HIDE DEF state
<1> QED BY <1>1, <1>2, <1>5, BegunIs DEF Is, H

(* The answers that a deletion of `r` throws doubt on.                     *)
Doubts(c, r) ==
  \A d \in Slots \ {c} :
    queries'[d].doubt =
      (queries[d].doubt \/ (Is(d, "open") /\ Answered(d) /\ queries[d].repository = r))

LEMMA DoubtedIs ==
  ASSUME StockTypes, NEW r
  PROVE  /\ Stock!Doubted(r) \in [Slots -> Queries]
         /\ \A d \in Slots :
              LET new == Stock!Doubted(r)[d] IN
              /\ new.at = queries[d].at /\ new.kind = queries[d].kind
              /\ new.repository = queries[d].repository /\ new.scan = queries[d].scan
              /\ new.open = queries[d].open /\ new.value = queries[d].value
              /\ new.here = queries[d].here
              /\ new.doubt =
                   (queries[d].doubt \/ (Is(d, "open") /\ Answered(d) /\ queries[d].repository = r))
<1> DEFINE new(d) ==
      [queries[d] EXCEPT
         !.doubt = @ \/ (Stock!Answered(d, "open") /\ queries[d].repository = r)]
<1>1. Stock!Doubted(r) = [d \in Slots |-> new(d)]
  BY DEF Stock!Doubted
<1>2. ASSUME NEW d \in Slots
      PROVE  /\ new(d) \in Queries
             /\ new(d).at = queries[d].at /\ new(d).kind = queries[d].kind
             /\ new(d).repository = queries[d].repository /\ new(d).scan = queries[d].scan
             /\ new(d).open = queries[d].open /\ new(d).value = queries[d].value
             /\ new(d).here = queries[d].here
             /\ new(d).doubt = (queries[d].doubt \/
                                (Stock!Answered(d, "open") /\ queries[d].repository = r))
  <2>1. queries[d] \in Queries
    BY QueryIs
  <2>2. (queries[d].doubt \/ (Stock!Answered(d, "open") /\ queries[d].repository = r)) \in BOOLEAN
    BY Zenon
  <2> QED BY <2>1, <2>2 DEF Queries
<1>3. \A d \in Slots : Stock!Answered(d, "open") <=> Is(d, "open") /\ Answered(d)
  BY DEF Stock!Answered, Is, Answered
<1> HIDE DEF new
<1> QED BY <1>1, <1>2, <1>3

LEMMA DeleteIs ==
  ASSUME StockTypes, NEW c \in Slots, NEW r \in Repositories, NEW s \in Scans \cup {0},
         Stock!Remove(c, r, s)
  PROVE  /\ ~deleting /\ shelf # <<>> /\ Is(c, "none") /\ Turn(c) /\ Still(c) /\ Doubts(c, r)
         /\ Is(c, "remove")' /\ queries'[c].at = "asked" /\ queries'[c].repository = r
         /\ queries'[c].scan = s /\ queries'[c].open = open /\ H(c)'
         /\ s # 0 => r = expanded /\ scans # <<>>
         /\ deleting' = TRUE
         /\ UNCHANGED <<library, mounted, shelf, expanded, scans, open, gone, crossed, behind,
                        doubtful>>
<1> DEFINE asked == Stock!Asked("remove", r, s)
           state == [asked EXCEPT !.open = open]
           others == Stock!Doubted(r)
<1>1. /\ ~deleting /\ r \in Stock!Listed
      /\ queries[c] = Stock!Idle /\ queries' = [others EXCEPT ![c] = state]
      /\ s # 0 => r = expanded /\ scans # <<>>
      /\ deleting' = TRUE
      /\ UNCHANGED <<library, mounted, shelf, expanded, scans, open>>
      /\ UNCHANGED <<gone, crossed, behind, doubtful>>
  BY DEF Stock!Remove, Stock!All
<1>2. /\ asked \in Queries /\ asked.at = "asked" /\ asked.kind = "remove"
      /\ asked.repository = r /\ asked.scan = s /\ asked.here
  BY AskedIs DEF Kinds
<1>3. open \in Opened
  BY DEF StockTypes
<1>4. /\ state \in Queries /\ state.at = "asked" /\ state.kind = "remove"
      /\ state.repository = r /\ state.scan = s /\ state.open = open /\ state.here
  <2> HIDE DEF asked
  <2> QED BY <1>2, <1>3 DEF Queries
<1>5. shelf # <<>>
  BY <1>1 DEF Stock!Listed
<1>6. others \in [Slots -> Queries]
  BY DoubtedIs
<1> HIDE DEF state, others
<1>7. /\ queries' \in [Slots -> Queries] /\ queries'[c] = state
      /\ \A d \in Slots \ {c} : queries'[d] = others[d]
  BY <1>1, <1>4, <1>6
<1>8. \A d \in Slots \ {c} : Kin(d) /\ queries'[d].here = queries[d].here
  BY <1>7, DoubtedIs DEF Kin, others
<1>9. Doubts(c, r)
  BY <1>7, DoubtedIs DEF Doubts, others
<1> QED BY <1>1, <1>4, <1>5, <1>7, <1>8, <1>9, IdleIs DEF Is, H, Turn, Still

Own(c) == Having(queries[c].repository)

LEMMA ReplyIs ==
  ASSUME Listable, StockTypes, NEW c \in Slots
  PROVE  /\ queries[c].kind \in {"list", "relist"} => Stock!Reply(c) = {Of[s] : s \in library}
         /\ queries[c].kind \in {"history", "rehistory"} => Stock!Reply(c) = Own(c)
         /\ queries[c].kind \in {"open", "remove"} =>
              /\ Stock!Reply(c) \subseteq Own(c)
              /\ queries[c].scan = 0 => Stock!Reply(c) = Own(c)
         /\ ~Is(c, "none") => Stock!Reply(c) \in Lists
<1>1. queries[c].kind \in {"list", "relist"} => Stock!Reply(c) = {Of[s] : s \in library}
  BY DEF Stock!Reply
<1>2. queries[c].kind \in {"history", "rehistory"} => Stock!Reply(c) = Own(c)
  BY SortsAre DEF Stock!Reply, Own, Having
<1>3. queries[c].kind \in {"open", "remove"} =>
        /\ Stock!Reply(c) \subseteq Own(c)
        /\ queries[c].scan = 0 => Stock!Reply(c) = Own(c)
  <2>1. queries[c].kind \in {"open", "remove"} =>
          Stock!Reply(c) = Stock!Matching(queries[c].repository, queries[c].scan)
    BY DEF Stock!Reply
  <2> QED BY <2>1, SortsAre DEF Stock!Matching, Own, Having
<1>4. Own(c) \subseteq Scans /\ {Of[s] : s \in library} \subseteq Repositories
  BY SortsAre DEF StockTypes, Own, Having
<1>5. queries[c].kind \in Kinds
  BY QueryIs
<1> QED BY <1>1, <1>2, <1>3, <1>4, <1>5 DEF Kinds, Is, Lists

LEMMA AnswerIs ==
  ASSUME Listable, StockTypes, NEW c \in Slots, Stock!Answer(c)
  PROVE  /\ queries[c].at = "asked" /\ Moves(c) /\ queries'[c].at = "answered"
         /\ queries'[c].kind = queries[c].kind
         /\ queries'[c].repository = queries[c].repository
         /\ queries'[c].scan = queries[c].scan /\ queries'[c].open = queries[c].open
         /\ H(c)' = H(c)
         /\ Is(c, "open") /\ ~queries'[c].doubt =>
              \A d \in Slots : Removes(d) => queries[d].repository # queries[c].repository
         /\ queries[c].kind \in {"list", "relist"} => queries'[c].value = {Of[s] : s \in library}
         /\ queries[c].kind \in {"history", "rehistory"} => queries'[c].value = Own(c)
         /\ queries[c].kind \in {"open", "remove"} =>
              /\ queries'[c].value \subseteq Own(c)
              /\ queries[c].scan = 0 => queries'[c].value = Own(c)
         /\ library' = library \ (IF Is(c, "remove") THEN queries'[c].value ELSE {})
         /\ \A g \in gone' : g \in gone \/ \E s \in Own(c) : g = <<s, queries[c].repository>>
         /\ UNCHANGED <<mounted, shelf, expanded, scans, deleting, open, crossed, behind, doubtful>>
<1> DEFINE doubt == queries[c].kind = "open" /\
                      \E d \in Stock!Removing : queries[d].repository = queries[c].repository
           state == [queries[c] EXCEPT !.at = "answered", !.value = Stock!Reply(c), !.doubt = doubt]
<1>1. /\ queries[c].at = "asked" /\ Stock!Goto(c, state)
      /\ UNCHANGED <<mounted, shelf, expanded, scans, deleting, open, crossed, behind, doubtful>>
  BY DEF Stock!Answer, Stock!display
<1>2. Stock!Reply(c) \in Lists /\ queries[c] \in Queries
  BY <1>1, ReplyIs, QueryIs DEF StockTypes
<1>3. doubt \in BOOLEAN
  BY Zenon
<1>4. Is(c, "open") /\ ~doubt =>
        \A d \in Slots : Removes(d) => queries[d].repository # queries[c].repository
  BY DEF Stock!Removing, Removes, Is
<1>5. /\ state \in Queries /\ state.at = "answered" /\ state.value = Stock!Reply(c)
      /\ state.kind = queries[c].kind /\ state.repository = queries[c].repository
      /\ state.scan = queries[c].scan /\ state.open = queries[c].open
      /\ state.here = queries[c].here /\ state.doubt = doubt
  <2> HIDE DEF doubt
  <2> QED BY <1>2, <1>3 DEF Queries
<1> HIDE DEF doubt
<1>6. /\ library' = library \ (IF Is(c, "remove") THEN Stock!Reply(c) ELSE {})
      /\ gone' = gone \cup {<<s, queries[c].repository>> :
                             s \in IF Is(c, "remove") THEN Stock!Reply(c) ELSE {}}
  BY DEF Stock!Answer, Is
<1>7. \A g \in gone' : g \in gone \/ \E s \in Own(c) : g = <<s, queries[c].repository>>
  BY <1>6, ReplyIs DEF Is
<1>8. queries'[c] = state /\ Moves(c)
  BY <1>1, <1>5, TurnIs
<1> HIDE DEF state
<1>9. /\ queries[c].kind \in {"list", "relist"} => queries'[c].value = {Of[s] : s \in library}
      /\ queries[c].kind \in {"history", "rehistory"} => queries'[c].value = Own(c)
      /\ queries[c].kind \in {"open", "remove"} =>
           /\ queries'[c].value \subseteq Own(c)
           /\ queries[c].scan = 0 => queries'[c].value = Own(c)
  BY <1>5, <1>8, ReplyIs
<1> QED BY <1>1, <1>4, <1>5, <1>6, <1>7, <1>8, <1>9 DEF H

LEMMA FailedIs ==
  ASSUME StockTypes, NEW c \in Slots, Stock!Failed(c)
  PROVE  /\ Moves(c) /\ Is(c, "none")' /\ queries'[c].at = "idle" /\ ~H(c)'
         /\ deleting' \in BOOLEAN /\ (deleting' <=> deleting /\ ~(H(c) /\ Deletes(c)))
         /\ behind' \in BOOLEAN /\ (behind => behind') /\ (~H(c) => behind' = behind)
         /\ H(c) => behind' \/ (~Is(c, "relist") /\ ~Is(c, "rehistory") /\ ~Gone(c))
         /\ doubtful' \in BOOLEAN /\ (doubtful => doubtful')
         /\ doubtful' \/ open = <<>> \/ ~(Is(c, "remove") /\ Answered(c) /\ queries[c].value # {})
         /\ UNCHANGED <<library, mounted, shelf, expanded, scans, open, gone, crossed>>
<1> DEFINE removed == Stock!Answered(c, "remove") /\ queries[c].value # {}
           again == queries[c].kind \in {"relist", "rehistory"}
<1>1. /\ Stock!Goto(c, Stock!Idle)
      /\ UNCHANGED <<library, mounted, shelf, expanded, scans, open, gone, crossed>>
  BY DEF Stock!Failed
<1>2. /\ deleting' = (deleting /\ ~(queries[c].here /\
                        queries[c].kind \in {"remove", "relist", "rehistory"}))
      /\ behind' = (behind \/ (queries[c].here /\ (removed \/ again)))
      /\ doubtful' = (doubtful \/ (removed /\ open # <<>>))
  BY DEF Stock!Failed
<1>3. removed <=> Is(c, "remove") /\ Answered(c) /\ queries[c].value # {}
  BY DEF Stock!Answered, Is, Answered
<1>4. again <=> Is(c, "relist") \/ Is(c, "rehistory")
  BY DEF Is
<1>5. behind \in BOOLEAN /\ doubtful \in BOOLEAN
  BY DEF StockTypes
<1> HIDE DEF removed, again
<1>6. deleting' \in BOOLEAN /\ (deleting' <=> deleting /\ ~(H(c) /\ Deletes(c)))
  BY <1>2, Zenon DEF Deletes, H
<1>7. behind' \in BOOLEAN /\ (behind => behind') /\ (~H(c) => behind' = behind)
  BY <1>2, <1>5, Zenon DEF H
<1>8. H(c) => behind' \/ (~Is(c, "relist") /\ ~Is(c, "rehistory") /\ ~Gone(c))
  BY <1>2, <1>3, <1>4, Zenon DEF H, Gone
<1>9. /\ doubtful' \in BOOLEAN /\ (doubtful => doubtful')
      /\ doubtful' \/ open = <<>> \/ ~(Is(c, "remove") /\ Answered(c) /\ queries[c].value # {})
  BY <1>2, <1>3, <1>5, Zenon
<1> QED BY <1>1, <1>6, <1>7, <1>8, <1>9, OverIs

(* What arrives is shown if its page is.                                   *)
Arrives(c) == Stock!ListArrives(c) \/ Stock!HistoryArrives(c)

LEMMA ArrivalsAre ==
  ASSUME StockTypes, NEW c \in Slots, Arrives(c)
  PROVE  /\ Answered(c) /\ Moves(c) /\ Is(c, "none")' /\ queries'[c].at = "idle" /\ ~H(c)'
         /\ UNCHANGED <<library, mounted, expanded, deleting, open, gone, crossed, behind,
                        doubtful>>
         /\ \/ /\ Is(c, "list") /\ scans' = scans
               /\ shelf' = IF H(c) THEN <<queries[c].value>> ELSE shelf
            \/ /\ Is(c, "history") /\ shelf' = shelf
               /\ scans' = IF H(c) THEN <<queries[c].value>> ELSE scans
<1>1. Stock!Goto(c, Stock!Idle) /\ Answered(c)
  BY DEF Arrives, Stock!ListArrives, Stock!HistoryArrives, Stock!Answered, Answered
<1>2. CASE Stock!ListArrives(c)
  BY <1>1, <1>2, OverIs DEF Stock!ListArrives, Stock!Answered, Is, H, Stock!SetState
<1>3. CASE Stock!HistoryArrives(c)
  BY <1>1, <1>3, OverIs DEF Stock!HistoryArrives, Stock!Answered, Is, H, Stock!SetState
<1> QED BY <1>2, <1>3 DEF Arrives

(* A page that is left.                                                    *)
Blank ==
  /\ mounted = FALSE /\ shelf = <<>> /\ expanded = "none" /\ scans = <<>>
  /\ deleting = FALSE /\ crossed = FALSE /\ behind = FALSE
  /\ \A c \in Slots : ~H(c)

LEMMA StrayIs ==
  ASSUME StockTypes
  PROVE  /\ Stock!Stray \in [Slots -> Queries]
         /\ \A d \in Slots :
              LET new == Stock!Stray[d] IN
              /\ new.at = queries[d].at /\ new.kind = queries[d].kind
              /\ new.repository = queries[d].repository /\ new.scan = queries[d].scan
              /\ new.open = queries[d].open /\ new.value = queries[d].value
              /\ ~new.here /\ new.doubt = queries[d].doubt
<1> DEFINE new(d) == [queries[d] EXCEPT !.here = FALSE]
<1>1. Stock!Stray = [d \in Slots |-> new(d)]
  BY DEF Stock!Stray
<1>2. ASSUME NEW d \in Slots
      PROVE  /\ new(d) \in Queries
             /\ new(d).at = queries[d].at /\ new(d).kind = queries[d].kind
             /\ new(d).repository = queries[d].repository /\ new(d).scan = queries[d].scan
             /\ new(d).open = queries[d].open /\ new(d).value = queries[d].value
             /\ ~new(d).here /\ new(d).doubt = queries[d].doubt
  <2>1. queries[d] \in Queries
    BY QueryIs
  <2> QED BY <2>1 DEF Queries
<1> HIDE DEF new
<1> QED BY <1>1, <1>2

LEMMA LeaveIs ==
  ASSUME StockTypes, Stock!Leave
  PROVE  /\ Blank' /\ queries' \in [Slots -> Queries]
         /\ \A d \in Slots : Kin(d) /\ queries'[d].doubt = queries[d].doubt
         /\ UNCHANGED <<open, doubtful>> \/ (open' = <<>> /\ doubtful' = FALSE)
         /\ UNCHANGED <<library, gone>>
<1>1. /\ Stock!Away /\ queries' = Stock!Stray
      /\ UNCHANGED <<open, doubtful>> \/ (open' = <<>> /\ doubtful' = FALSE)
      /\ UNCHANGED <<library, gone>>
  BY DEF Stock!Leave
<1>2. /\ mounted' = FALSE /\ shelf' = <<>> /\ expanded' = "none" /\ scans' = <<>>
      /\ deleting' = FALSE /\ crossed' = FALSE /\ behind' = FALSE
  BY <1>1 DEF Stock!Away, Stock!Hide, Stock!None
<1>3. /\ queries' \in [Slots -> Queries]
      /\ \A d \in Slots : Kin(d) /\ queries'[d].doubt = queries[d].doubt /\ ~H(d)'
  BY <1>1, StrayIs DEF Kin, H
<1> QED BY <1>1, <1>2, <1>3 DEF Blank

LEMMA AnalysisIs ==
  ASSUME StockTypes, NEW c \in Slots, Stock!AnalysisArrives(c)
  PROVE  /\ Is(c, "open") /\ Answered(c) /\ Turn(c) /\ Sure(c) /\ Blank'
         /\ Is(c, "none")' /\ queries'[c].at = "idle"
         /\ \E s \in queries[c].value : open' = <<queries[c].repository, s>>
         /\ doubtful' = queries[c].doubt
         /\ UNCHANGED <<library, gone>>
<1>1. /\ Is(c, "open") /\ Answered(c)
      /\ Stock!Away /\ queries' = [Stock!Stray EXCEPT ![c] = Stock!Idle]
      /\ \E s \in queries[c].value : open' = <<queries[c].repository, s>>
      /\ doubtful' = queries[c].doubt
      /\ UNCHANGED <<library, gone>>
  BY DEF Stock!AnalysisArrives, Stock!Answered, Is, Answered
<1>2. /\ mounted' = FALSE /\ shelf' = <<>> /\ expanded' = "none" /\ scans' = <<>>
      /\ deleting' = FALSE /\ crossed' = FALSE /\ behind' = FALSE
  BY <1>1 DEF Stock!Away, Stock!Hide, Stock!None
<1>3. /\ queries' \in [Slots -> Queries] /\ queries'[c] = Stock!Idle
      /\ \A d \in Slots \ {c} : queries'[d] = Stock!Stray[d]
  BY <1>1, StrayIs, IdleIs
<1>4. \A d \in Slots \ {c} : Kin(d) /\ queries'[d].doubt = queries[d].doubt /\ ~H(d)'
  BY <1>3, StrayIs DEF Kin, H
<1> QED BY <1>1, <1>2, <1>3, <1>4, IdleIs DEF Blank, Turn, Sure, H, Is

LEMMA RemovedIs ==
  ASSUME StockTypes, NEW c \in Slots, Stock!Removed(c)
  PROVE  /\ Is(c, "remove") /\ Answered(c) /\ queries[c].value # {} /\ Moves(c)
         /\ Is(c, "relist")' /\ queries'[c].at = "asked" /\ H(c)' = H(c)
         /\ queries'[c].repository = queries[c].repository
         /\ queries'[c].scan = queries[c].scan
         /\ \/ Closing(c) /\ open' = <<>> /\ doubtful' = FALSE
            \/ ~Closing(c) /\ UNCHANGED <<open, doubtful>>
         /\ \/ H(c) /\ queries[c].scan = 0 /\ expanded' = "none" /\ scans' = <<>>
            \/ ~(H(c) /\ queries[c].scan = 0) /\ UNCHANGED <<expanded, scans>>
         /\ UNCHANGED <<library, mounted, shelf, deleting, gone, crossed, behind>>
<1> DEFINE asked == Stock!Asked("relist", queries[c].repository, queries[c].scan)
           state == [asked EXCEPT !.here = queries[c].here]
<1>1. /\ Is(c, "remove") /\ Answered(c) /\ queries[c].value # {} /\ Stock!Goto(c, state)
      /\ UNCHANGED <<library, mounted, shelf, deleting, gone, crossed, behind>>
  BY DEF Stock!Removed, Stock!Answered, Is, Answered
<1>2. /\ \/ Closing(c) /\ open' = <<>> /\ doubtful' = FALSE
         \/ ~Closing(c) /\ UNCHANGED <<open, doubtful>>
      /\ \/ H(c) /\ queries[c].scan = 0 /\ expanded' = "none" /\ scans' = <<>>
         \/ ~(H(c) /\ queries[c].scan = 0) /\ UNCHANGED <<expanded, scans>>
  BY DEF Stock!Removed, Stock!Hide, Stock!All, Stock!None, Closing, H
<1>3. asked \in Queries /\ asked.at = "asked" /\ asked.kind = "relist"
      /\ asked.repository = queries[c].repository /\ asked.scan = queries[c].scan
  <2>1. /\ "relist" \in Kinds /\ queries[c].repository \in Repositories \cup {"none"}
        /\ queries[c].scan \in Scans \cup {0}
    BY QueryIs DEF Kinds
  <2> QED BY <2>1, AskedIs
<1>4. /\ state \in Queries /\ state.at = "asked" /\ state.kind = "relist"
      /\ state.repository = queries[c].repository /\ state.scan = queries[c].scan
      /\ state.here = queries[c].here
  <2>1. queries[c].here \in BOOLEAN
    BY QueryIs DEF H
  <2> HIDE DEF asked
  <2> QED BY <1>3, <2>1 DEF Queries
<1> HIDE DEF state
<1>5. queries'[c] = state /\ Moves(c)
  BY <1>1, <1>4, TurnIs
<1> QED BY <1>1, <1>2, <1>4, <1>5 DEF Is, H

LEMMA RelistedIs ==
  ASSUME StockTypes, NEW c \in Slots, Stock!Relisted(c)
  PROVE  /\ Is(c, "relist") /\ Answered(c) /\ Moves(c)
         /\ shelf' = IF H(c) THEN <<queries[c].value>> ELSE shelf
         /\ \/ /\ Is(c, "rehistory")' /\ queries'[c].at = "asked" /\ queries[c].scan # 0
               /\ queries'[c].repository = queries[c].repository /\ H(c)' = H(c)
               /\ UNCHANGED <<expanded, scans, deleting>>
            \/ /\ Is(c, "none")' /\ queries'[c].at = "idle" /\ ~H(c)'
               /\ deleting' = IF H(c) THEN FALSE ELSE deleting
               /\ \/ H(c) /\ queries[c].scan # 0 /\ expanded' = "none" /\ scans' = <<>>
                  \/ ~(H(c) /\ queries[c].scan # 0) /\ UNCHANGED <<expanded, scans>>
         /\ UNCHANGED <<library, mounted, open, gone, crossed, behind, doubtful>>
<1> DEFINE asked == Stock!Asked("rehistory", queries[c].repository, Stock!All)
           state == [asked EXCEPT !.here = queries[c].here]
           again == queries[c].scan # 0 /\ queries[c].repository \in queries[c].value
<1>1. /\ Is(c, "relist") /\ Answered(c)
      /\ shelf' = IF H(c) THEN <<queries[c].value>> ELSE shelf
      /\ UNCHANGED <<library, mounted, open, gone, crossed, behind, doubtful>>
  BY DEF Stock!Relisted, Stock!Answered, Stock!SetState, Is, Answered, H
<1>2. CASE again
  <2>1. Stock!Goto(c, state) /\ UNCHANGED <<expanded, scans, deleting>>
    BY <1>2 DEF Stock!Relisted, Stock!All
  <2>2. /\ asked \in Queries /\ asked.at = "asked" /\ asked.kind = "rehistory"
        /\ asked.repository = queries[c].repository
    <3>1. /\ "rehistory" \in Kinds /\ queries[c].repository \in Repositories \cup {"none"}
          /\ Stock!All \in Scans \cup {0}
      BY QueryIs DEF Kinds, Stock!All
    <3> QED BY <3>1, AskedIs
  <2>3. /\ state \in Queries /\ state.at = "asked" /\ state.kind = "rehistory"
        /\ state.repository = queries[c].repository /\ state.here = queries[c].here
    <3>1. queries[c].here \in BOOLEAN
      BY QueryIs DEF H
    <3> HIDE DEF asked
    <3> QED BY <2>2, <3>1 DEF Queries
  <2> HIDE DEF state
  <2>4. queries'[c] = state /\ Moves(c)
    BY <2>1, <2>3, TurnIs
  <2> QED BY <1>1, <1>2, <2>1, <2>3, <2>4 DEF Is, H
<1>3. CASE ~again
  <2>1. /\ Stock!Goto(c, Stock!Idle) /\ deleting' = IF H(c) THEN FALSE ELSE deleting
        /\ \/ H(c) /\ queries[c].scan # 0 /\ expanded' = "none" /\ scans' = <<>>
           \/ ~(H(c) /\ queries[c].scan # 0) /\ UNCHANGED <<expanded, scans>>
    BY <1>3 DEF Stock!Relisted, Stock!All, Stock!Hide, Stock!None, Stock!SetState, H
  <2> QED BY <1>1, <2>1, OverIs
<1> QED BY <1>2, <1>3

LEMMA HistoryAgainIs ==
  ASSUME StockTypes, NEW c \in Slots, Stock!HistoryAgain(c)
  PROVE  /\ Is(c, "rehistory") /\ Answered(c) /\ Moves(c) /\ Is(c, "none")' /\ ~H(c)'
         /\ queries'[c].at = "idle" /\ scans' = IF H(c) THEN <<queries[c].value>> ELSE scans
         /\ deleting' = IF H(c) THEN FALSE ELSE deleting
         /\ UNCHANGED <<library, mounted, shelf, expanded, open, gone, crossed, behind, doubtful>>
BY OverIs DEF Stock!HistoryAgain, Stock!Answered, Stock!SetState, Is, H, Answered

LEMMA ElsewhereIs ==
  ASSUME StockTypes, NEW s \in Scans, Stock!Elsewhere(s)
  PROVE  /\ queries' \in [Slots -> Queries]
         /\ \A d \in Slots : /\ Kin(d) /\ queries'[d].here = queries[d].here
                             /\ ~queries'[d].doubt => ~queries[d].doubt
                             /\ Is(d, "open") /\ Answered(d) /\ ~queries'[d].doubt =>
                                  queries[d].repository # Of[s]
         /\ library' \subseteq Scans /\ library \subseteq library' \cup {s}
         /\ behind' = mounted
         /\ doubtful' \in BOOLEAN /\ (doubtful => doubtful')
         /\ doubtful' \/ open = <<>> \/ open[1] # Of[s]
         /\ UNCHANGED <<mounted, shelf, expanded, scans, deleting, open, gone, crossed>>
<1>1. /\ library' = IF s \in library THEN library \ {s} ELSE library \cup {s}
      /\ queries' = Stock!Doubted(Of[s]) /\ behind' = mounted
      /\ doubtful' = (doubtful \/ (open # <<>> /\ open[1] = Of[s]))
      /\ UNCHANGED <<mounted, shelf, expanded, scans, deleting, open, gone, crossed>>
  BY DEF Stock!Elsewhere, Stock!display
<1>2. library \subseteq Scans /\ doubtful \in BOOLEAN
  BY DEF StockTypes
<1>3. library' \subseteq Scans /\ library \subseteq library' \cup {s}
  BY <1>1, <1>2
<1>4. /\ doubtful' \in BOOLEAN /\ (doubtful => doubtful')
      /\ doubtful' \/ open = <<>> \/ open[1] # Of[s]
  BY <1>1, <1>2, Zenon
<1>5. queries' \in [Slots -> Queries]
  BY <1>1, DoubtedIs
<1>6. ASSUME NEW d \in Slots
      PROVE  /\ Kin(d) /\ queries'[d].here = queries[d].here
             /\ ~queries'[d].doubt => ~queries[d].doubt
             /\ Is(d, "open") /\ Answered(d) /\ ~queries'[d].doubt =>
                  queries[d].repository # Of[s]
  <2>1. Kin(d) /\ queries'[d].here = queries[d].here
    BY <1>1, DoubtedIs DEF Kin
  <2>2. queries'[d].doubt =
          (queries[d].doubt \/ (Is(d, "open") /\ Answered(d) /\ queries[d].repository = Of[s]))
    BY <1>1, DoubtedIs
  <2>3. /\ ~queries'[d].doubt => ~queries[d].doubt
        /\ Is(d, "open") /\ Answered(d) /\ ~queries'[d].doubt => queries[d].repository # Of[s]
    BY <2>2, Zenon
  <2> QED BY <2>1, <2>3
<1> QED BY <1>1, <1>3, <1>4, <1>5, <1>6

(* The steps that are not a call's.                                        *)
Asides == Stock!HideHistory \/ Stock!Close \/ UNCHANGED Stock!vars

LEMMA AsidesAre ==
  ASSUME StockTypes, Asides
  PROVE  /\ UNCHANGED <<library, mounted, queries, shelf, deleting, gone, crossed, behind>>
         /\ UNCHANGED <<open, doubtful>> \/ (open' = <<>> /\ doubtful' = FALSE)
         /\ \/ ~deleting /\ expanded' = "none" /\ scans' = <<>>
            \/ UNCHANGED <<expanded, scans>>
<1>1. CASE Stock!HideHistory
  BY <1>1 DEF Stock!HideHistory, Stock!Hide, Stock!None
<1>2. CASE Stock!Close
  BY <1>2 DEF Stock!Close, Stock!display
<1>3. CASE UNCHANGED Stock!vars
  BY <1>3 DEF Stock!vars, Stock!display
<1> QED BY <1>1, <1>2, <1>3 DEF Asides

(* A call that was begun, or one that goes on.                             *)
Starts(c) ==
  \E r \in Repositories :
    \/ Stock!ShowHistory(c, r) \/ Stock!OpenRepository(c, r)
    \/ \E s \in Scans \cup {0} : Stock!Remove(c, r, s)
Goes(c) ==
  \/ Stock!Answer(c) \/ Stock!Failed(c) \/ Arrives(c)
  \/ Stock!Removed(c) \/ Stock!Relisted(c) \/ Stock!HistoryAgain(c)
Opens(c) == \E s \in Scans : Stock!OpenScan(c, s)

LEMMA StockSteps ==
  ASSUME [Stock!Next]_(Stock!vars)
  PROVE  \/ \E c \in Slots :
              Starts(c) \/ Goes(c) \/ Opens(c) \/ Stock!AnalysisArrives(c) \/ Stock!Return(c)
         \/ Stock!Leave \/ (\E s \in Scans : Stock!Elsewhere(s)) \/ Asides
<1>1. ASSUME NEW c \in Slots, NEW r \in Repositories,
             \/ Stock!ShowHistory(c, r) \/ Stock!OpenRepository(c, r)
             \/ \E s \in Scans \cup {0} : Stock!Remove(c, r, s)
      PROVE  Starts(c)
  BY <1>1 DEF Starts
<1>2. ASSUME NEW c \in Slots,
             \/ Stock!Answer(c) \/ Stock!Failed(c) \/ Stock!ListArrives(c)
             \/ Stock!HistoryArrives(c) \/ Stock!Removed(c) \/ Stock!Relisted(c)
             \/ Stock!HistoryAgain(c)
      PROVE  Goes(c)
  BY <1>2 DEF Goes, Arrives
<1>3. ASSUME NEW s \in Scans, NEW c \in Slots, Stock!OpenScan(c, s) PROVE Opens(c)
  BY <1>3 DEF Opens
<1>4. Stock!HideHistory \/ Stock!Close \/ UNCHANGED Stock!vars => Asides
  BY DEF Asides
<1>5. Stock!Next \/ UNCHANGED Stock!vars
  OBVIOUS
<1> HIDE DEF Starts, Goes, Opens, Asides
<1> QED BY <1>1, <1>2, <1>3, <1>4, <1>5 DEF Stock!Next, Repositories, Scans, Stock!All

-----------------------------------------------------------------------------
LEMMA StockTypesStep ==
  ASSUME Listable
  PROVE  StockInv /\ [Stock!Next]_(Stock!vars) => StockTypes'
<1> SUFFICES ASSUME StockTypes, Named, [Stock!Next]_(Stock!vars) PROVE StockTypes'
  BY DEF StockInv
<1>0. /\ library \subseteq Scans /\ queries \in [Slots -> Queries]
      /\ \A c \in Slots : Is(c, "none") <=> queries[c].at = "idle"
      /\ shelf # <<>> => shelf[1] \subseteq Repositories
      /\ expanded \in Repositories \cup {"none"}
      /\ scans # <<>> => scans[1] \subseteq Scans
      /\ mounted \in BOOLEAN /\ deleting \in BOOLEAN /\ open \in Opened /\ <<>> \in Opened
      /\ crossed \in BOOLEAN /\ behind \in BOOLEAN /\ doubtful \in BOOLEAN
  BY DEF StockTypes, Opened
<1>1. ASSUME NEW c \in Slots, Turn(c), Is(c, "none")' <=> queries'[c].at = "idle",
             library' \subseteq Scans, shelf' # <<>> => shelf'[1] \subseteq Repositories,
             expanded' \in Repositories \cup {"none"},
             scans' # <<>> => scans'[1] \subseteq Scans,
             mounted' \in BOOLEAN, deleting' \in BOOLEAN, open' \in Opened,
             crossed' \in BOOLEAN, behind' \in BOOLEAN, doubtful' \in BOOLEAN
      PROVE  StockTypes'
  <2>1. \A d \in Slots : Is(d, "none")' <=> queries'[d].at = "idle"
    BY <1>0, <1>1 DEF Turn, Kin, Is
  <2> QED BY <1>1, <2>1 DEF StockTypes, Turn, Scans, Repositories, Opened, Queries, Lists
<1>2. ASSUME NEW c \in Slots, Starts(c) PROVE StockTypes'
  <2>1. ASSUME NEW r \in Repositories, Stock!ShowHistory(c, r) PROVE StockTypes'
    BY <1>0, <1>1, <2>1, ShowHistoryIs DEF Is, Moves
  <2>2. ASSUME NEW r \in Repositories, Stock!OpenRepository(c, r) PROVE StockTypes'
    BY <1>0, <1>1, <2>2, OpenRepositoryIs DEF Is, Moves
  <2>3. ASSUME NEW r \in Repositories, NEW s \in Scans \cup {0}, Stock!Remove(c, r, s)
        PROVE  StockTypes'
    BY <1>0, <1>1, <2>3, DeleteIs DEF Is
  <2> QED BY <1>2, <2>1, <2>2, <2>3 DEF Starts
<1>3. ASSUME NEW c \in Slots, Opens(c) PROVE StockTypes'
  BY <1>0, <1>1, <1>3, OpenScanIs DEF Is, Opens, Moves
<1>4. ASSUME NEW c \in Slots, Stock!Return(c) PROVE StockTypes'
  BY <1>0, <1>1, <1>4, ReturnIs DEF Is, Moves
<1>5. ASSUME NEW c \in Slots, Stock!Answer(c) PROVE StockTypes'
  BY <1>0, <1>1, <1>5, AnswerIs DEF Is, Moves
<1>6. ASSUME NEW c \in Slots, Stock!Failed(c) PROVE StockTypes'
  BY <1>0, <1>1, <1>6, FailedIs DEF Is, Moves
<1>7. ASSUME NEW c \in Slots, Arrives(c) PROVE StockTypes'
  <2>0. /\ Answered(c) /\ Turn(c) /\ (Is(c, "none")' <=> queries'[c].at = "idle")
        /\ UNCHANGED <<library, mounted, expanded, deleting, open, crossed, behind, doubtful>>
    BY <1>7, ArrivalsAre DEF Moves
  <2>1. Is(c, "list") => queries[c].value \subseteq Repositories
    BY <2>0 DEF Named
  <2>2. Is(c, "history") => queries[c].value \subseteq Scans
    BY <2>0 DEF Named, Is
  <2>3. /\ shelf' = shelf \/ (Is(c, "list") /\ shelf' = <<queries[c].value>>)
        /\ scans' = scans \/ (Is(c, "history") /\ scans' = <<queries[c].value>>)
    BY <1>7, ArrivalsAre
  <2> QED BY <1>0, <1>1, <2>0, <2>1, <2>2, <2>3
<1>8. ASSUME NEW c \in Slots, Stock!AnalysisArrives(c) PROVE StockTypes'
  <2>1. /\ Is(c, "open") /\ Answered(c) /\ Turn(c) /\ Blank'
        /\ (Is(c, "none")' <=> queries'[c].at = "idle")
        /\ \E s \in queries[c].value : open' = <<queries[c].repository, s>>
        /\ doubtful' = queries[c].doubt /\ library' = library
    BY <1>8, AnalysisIs
  <2>2. \A s \in queries[c].value : s \in Scans /\ queries[c].repository \in Repositories
    BY <2>1, SortsAre DEF Named, Is
  <2>3. open' \in Opened /\ queries[c].doubt \in BOOLEAN
    BY <2>1, <2>2, QueryIs DEF Opened
  <2> QED BY <1>0, <1>1, <2>1, <2>3 DEF Blank
<1>9. ASSUME NEW c \in Slots, Stock!Removed(c) PROVE StockTypes'
  BY <1>0, <1>1, <1>9, RemovedIs DEF Is, Moves
<1>10. ASSUME NEW c \in Slots, Stock!Relisted(c) PROVE StockTypes'
  <2>1. queries[c].value \subseteq Repositories
    BY <1>10, RelistedIs DEF Named
  <2>2. /\ Turn(c) /\ (Is(c, "none")' <=> queries'[c].at = "idle")
        /\ shelf' = shelf \/ shelf' = <<queries[c].value>>
        /\ deleting' \in BOOLEAN
        /\ \/ expanded' = "none" /\ scans' = <<>>
           \/ UNCHANGED <<expanded, scans>>
        /\ UNCHANGED <<library, mounted, open, crossed, behind, doubtful>>
    BY <1>0, <1>10, RelistedIs DEF Is, Moves
  <2> QED BY <1>0, <1>1, <2>1, <2>2
<1>11. ASSUME NEW c \in Slots, Stock!HistoryAgain(c) PROVE StockTypes'
  <2>1. queries[c].value \subseteq Scans
    BY <1>11, HistoryAgainIs DEF Named, Is
  <2>2. /\ Turn(c) /\ (Is(c, "none")' <=> queries'[c].at = "idle")
        /\ scans' = scans \/ scans' = <<queries[c].value>>
        /\ deleting' \in BOOLEAN
        /\ UNCHANGED <<library, mounted, shelf, expanded, open, crossed, behind, doubtful>>
    BY <1>0, <1>11, HistoryAgainIs DEF Moves
  <2> QED BY <1>0, <1>1, <2>1, <2>2
<1>12. CASE Stock!Leave
  <2>1. /\ Blank' /\ queries' \in [Slots -> Queries] /\ \A d \in Slots : Kin(d)
        /\ UNCHANGED <<open, doubtful>> \/ (open' = <<>> /\ doubtful' = FALSE)
        /\ library' = library
    BY <1>12, LeaveIs
  <2>2. \A d \in Slots : Is(d, "none")' <=> queries'[d].at = "idle"
    BY <1>0, <2>1 DEF Kin, Is
  <2> QED BY <1>0, <2>1, <2>2
    DEF Blank, StockTypes, Scans, Repositories, Opened, Queries, Lists
<1>13. ASSUME NEW s \in Scans, Stock!Elsewhere(s) PROVE StockTypes'
  <2>1. /\ queries' \in [Slots -> Queries] /\ \A d \in Slots : Kin(d)
        /\ library' \subseteq Scans /\ behind' = mounted /\ doubtful' \in BOOLEAN
        /\ UNCHANGED <<mounted, shelf, expanded, scans, deleting, open, crossed>>
    BY <1>13, ElsewhereIs
  <2>2. \A d \in Slots : Is(d, "none")' <=> queries'[d].at = "idle"
    BY <1>0, <2>1 DEF Kin, Is
  <2> QED BY <1>0, <2>1, <2>2 DEF StockTypes, Scans, Repositories, Opened, Queries, Lists
<1>14. CASE Asides
  <2>1. /\ UNCHANGED <<library, mounted, queries, shelf, deleting, crossed, behind>>
        /\ UNCHANGED <<open, doubtful>> \/ (open' = <<>> /\ doubtful' = FALSE)
        /\ (expanded' = "none" /\ scans' = <<>>) \/ UNCHANGED <<expanded, scans>>
    BY <1>14, AsidesAre
  <2> QED BY <1>0, <2>1 DEF StockTypes, Is, Scans, Repositories, Opened, Queries, Lists
<1> QED BY <1>2, <1>3, <1>4, <1>5, <1>6, <1>7, <1>8, <1>9, <1>10, <1>11, <1>12, <1>13, <1>14,
  StockSteps DEF Goes

LEMMA NamedStep ==
  ASSUME Listable
  PROVE  StockInv /\ [Stock!Next]_(Stock!vars) => Named'
<1> SUFFICES ASSUME StockTypes, Named, [Stock!Next]_(Stock!vars) PROVE Named'
  BY DEF StockInv
<1> DEFINE Kind(c) == queries[c].kind \in {"history", "rehistory", "open", "remove"}
           Told(c) ==
             Answered(c) =>
               /\ Kind(c) =>
                    queries[c].value \subseteq {s \in Scans : Of[s] = queries[c].repository}
               /\ Is(c, "list") \/ Is(c, "relist") => queries[c].value \subseteq Repositories
<1>0. /\ \A g \in gone : Of[g[1]] = g[2]
      /\ open # <<>> => Of[open[2]] = open[1]
      /\ \A c \in Slots : Told(c)
  BY DEF Named
<1>k. ASSUME NEW d \in Slots, Kin(d) PROVE Told(d)'
  BY <1>0, <1>k DEF Kin, Answered, Is, Scans, Repositories
<1>1. ASSUME NEW c \in Slots, Turn(c), queries'[c].at # "answered" \/ Told(c)',
             \A g \in gone' : g \in gone \/ Of[g[1]] = g[2],
             open' = open \/ open' = <<>> \/ Of[open'[2]] = open'[1]
      PROVE  Named'
  <2>1. \A d \in Slots \ {c} : Told(d)'
    BY <1>1, <1>k DEF Turn
  <2>2. Told(c)'
    BY <1>1 DEF Answered
  <2> HIDE DEF Told
  <2>3. \A d \in Slots : Told(d)'
    BY <2>1, <2>2
  <2> QED BY <1>0, <1>1, <2>3 DEF Named, Told
<1>2. ASSUME NEW c \in Slots, Stock!Answer(c) PROVE Named'
  <2>1. /\ Own(c) \subseteq {s \in Scans : Of[s] = queries[c].repository}
        /\ {Of[s] : s \in library} \subseteq Repositories
    BY SortsAre DEF Own, Having, StockTypes
  <2>2. Told(c)'
    BY <1>2, <2>1, AnswerIs DEF Is, Scans, Repositories
  <2>3. \A g \in gone' : g \in gone \/ Of[g[1]] = g[2]
    BY <1>2, <2>1, AnswerIs
  <2> HIDE DEF Told
  <2> QED BY <1>1, <1>2, <2>2, <2>3, AnswerIs DEF Moves
<1>3. ASSUME NEW c \in Slots, Stock!AnalysisArrives(c) PROVE Named'
  <2>1. Of[open'[2]] = open'[1]
    BY <1>0, <1>3, AnalysisIs DEF Is
  <2> QED BY <1>0, <1>1, <1>3, <2>1, AnalysisIs
<1>4. ASSUME NEW c \in Slots, Starts(c) \/ Opens(c) \/ Stock!Return(c) PROVE Named'
  <2>1. Turn(c) /\ queries'[c].at # "answered" /\ gone' = gone /\ open' = open
    BY <1>4, ShowHistoryIs, OpenRepositoryIs, DeleteIs, OpenScanIs, ReturnIs
      DEF Starts, Opens, Moves
  <2> QED BY <1>1, <2>1
<1>5. ASSUME NEW c \in Slots, Goes(c), ~Stock!Answer(c) PROVE Named'
  <2>1. /\ Turn(c) /\ queries'[c].at # "answered" /\ gone' = gone
        /\ open' = open \/ open' = <<>>
    BY <1>5, FailedIs, ArrivalsAre, RemovedIs, RelistedIs, HistoryAgainIs DEF Goes, Moves
  <2> QED BY <1>1, <2>1
<1>6. ASSUME \A d \in Slots : Kin(d), gone' = gone, open' = open \/ open' = <<>>
      PROVE  Named'
  <2>1. \A d \in Slots : Told(d)'
    BY <1>6, <1>k
  <2> QED BY <1>0, <1>6, <2>1 DEF Named
<1>7. CASE Stock!Leave
  BY <1>6, <1>7, LeaveIs
<1>8. ASSUME NEW s \in Scans, Stock!Elsewhere(s) PROVE Named'
  BY <1>6, <1>8, ElsewhereIs
<1>9. CASE Asides
  BY <1>6, <1>9, AsidesAre DEF Kin
<1> QED BY <1>2, <1>3, <1>4, <1>5, <1>7, <1>8, <1>9, StockSteps

LEMMA CertainStep ==
  ASSUME Listable
  PROVE  StockInv /\ [Stock!Next]_(Stock!vars) => Certain'
<1> SUFFICES ASSUME StockTypes, Named, Certain, [Stock!Next]_(Stock!vars) PROVE Certain'
  BY DEF StockInv
<1> DEFINE Waits(c) == Is(c, "open") /\ Answered(c)
           Clear(r) == \A d \in Slots : Removes(d) => queries[d].repository # r
           Sealed == \A d \in Slots : Removes(d) /\ queries[d].repository = open[1] => Closing(d)
           Told(s) == \E d \in Slots : Closes(d, s)
<1>0. /\ \A c \in Slots : Waits(c) /\ ~queries[c].doubt =>
           queries[c].value \subseteq library /\ Clear(queries[c].repository)
      /\ open # <<>> /\ ~doubtful => Sealed /\ (open[2] \in library \/ Told(open[2]))
  BY DEF Certain
<1>r. ASSUME \A c \in Slots : Waits(c)' /\ ~queries'[c].doubt =>
                queries'[c].value \subseteq library' /\ Clear(queries[c].repository)',
             open' # <<>> /\ ~doubtful' =>
                Sealed' /\ (open'[2] \in library' \/ Told(open[2])')
      PROVE  Certain'
  BY <1>r DEF Certain
(* A step that begins, ends or goes on with a call, and opens nothing.      *)
<1>1. ASSUME NEW c \in Slots, Turn(c), Sure(c), library' = library,
             open' = <<>> \/ (open' = open /\ (doubtful => doubtful')),
             ~Waits(c)', ~Removes(c)', open' = <<>> \/ doubtful' \/ ~Closes(c, open[2])
      PROVE  Certain'
  <2>1. \A d \in Slots \ {c} : /\ Removes(d)' <=> Removes(d)
                               /\ Closing(d)' <=> Closing(d)
                               /\ Waits(d)' <=> Waits(d)
                               /\ queries'[d].doubt = queries[d].doubt
                               /\ queries'[d].repository = queries[d].repository
                               /\ queries'[d].value = queries[d].value
                               /\ \A s : Closes(d, s)' <=> Closes(d, s)
    BY <1>1 DEF Turn, Kin, Sure, Removes, Closing, Closes, Answered, Is
  <2>2. \A r : Clear(r) => Clear(r)'
    BY <1>1, <2>1
  <2>3. \A d \in Slots : Waits(d)' /\ ~queries'[d].doubt =>
           queries'[d].value \subseteq library' /\ Clear(queries[d].repository)'
    BY <1>0, <1>1, <2>1, <2>2
  <2>4. ASSUME open' # <<>>, ~doubtful'
        PROVE  Sealed' /\ (open'[2] \in library' \/ Told(open[2])')
    <3>1. open' = open /\ ~doubtful /\ ~Closes(c, open[2])
      BY <1>1, <2>4
    <3>2. Sealed /\ (open[2] \in library \/ Told(open[2]))
      BY <1>0, <2>4, <3>1
    <3> HIDE DEF Waits
    <3>3. Sealed'
      BY <1>1, <2>1, <3>1, <3>2
    <3>4. Told(open[2]) => Told(open[2])'
      BY <2>1, <3>1
    <3> QED BY <1>1, <3>1, <3>2, <3>3, <3>4
  <2> HIDE DEF Waits, Clear, Sealed, Told
  <2> QED BY <1>r, <2>3, <2>4
<1>2. ASSUME NEW c \in Slots,
             \/ \E r \in Repositories : Stock!ShowHistory(c, r) \/ Stock!OpenRepository(c, r)
             \/ Opens(c) \/ Stock!Return(c)
      PROVE  Certain'
  <2>1. /\ Turn(c) /\ Sure(c) /\ UNCHANGED <<library, open, doubtful>>
        /\ queries'[c].at = "asked" /\ ~Is(c, "remove")' /\ Is(c, "none")
    BY <1>2, ShowHistoryIs, OpenRepositoryIs, OpenScanIs, ReturnIs DEF Opens, Moves, Is
  <2> QED BY <1>1, <2>1 DEF Removes, Answered, Closes, Is
<1>3. ASSUME NEW c \in Slots, NEW r \in Repositories, NEW s \in Scans \cup {0},
             Stock!Remove(c, r, s)
      PROVE  Certain'
  <2>1. /\ Turn(c) /\ Is(c, "none") /\ Doubts(c, r)
        /\ Is(c, "remove")' /\ queries'[c].at = "asked" /\ queries'[c].repository = r
        /\ queries'[c].open = open /\ UNCHANGED <<library, open, doubtful>>
    BY <1>3, DeleteIs
  <2>2. \A d \in Slots \ {c} : /\ Removes(d)' <=> Removes(d)
                               /\ Closing(d)' <=> Closing(d)
                               /\ Waits(d)' <=> Waits(d)
                               /\ queries'[d].repository = queries[d].repository
                               /\ queries'[d].value = queries[d].value
                               /\ \A x : Closes(d, x)' <=> Closes(d, x)
    BY <2>1 DEF Turn, Kin, Removes, Closing, Closes, Answered, Is
  <2>3. /\ ~Waits(c)' /\ Removes(c)' /\ (Closing(c)' <=> open # <<>> /\ open[1] = r)
        /\ \A x : ~Closes(c, x)
    BY <2>1 DEF Answered, Removes, Closing, Closes, Is
  <2>4. ASSUME NEW d \in Slots, Waits(d)', ~queries'[d].doubt
        PROVE  queries'[d].value \subseteq library' /\ Clear(queries[d].repository)'
    <3>1. d # c /\ Waits(d)
      BY <2>2, <2>3, <2>4
    <3>2. ~queries[d].doubt /\ queries[d].repository # r
      BY <2>1, <2>4, <3>1 DEF Doubts
    <3>3. queries[d].value \subseteq library /\ Clear(queries[d].repository)
      BY <1>0, <3>1, <3>2
    <3> HIDE DEF Waits
    <3> QED BY <2>1, <2>2, <2>3, <3>1, <3>2, <3>3
  <2>5. ASSUME open' # <<>>, ~doubtful'
        PROVE  Sealed' /\ (open'[2] \in library' \/ Told(open[2])')
    <3>1. Sealed /\ (open[2] \in library \/ Told(open[2])) /\ open # <<>>
      BY <1>0, <2>1, <2>5
    <3> HIDE DEF Waits
    <3> QED BY <2>1, <2>2, <2>3, <3>1
  <2> HIDE DEF Waits, Clear, Sealed, Told
  <2> QED BY <1>r, <2>4, <2>5
<1>4. ASSUME NEW c \in Slots, Stock!Answer(c) PROVE Certain'
  <2>1. /\ queries[c].at = "asked" /\ Turn(c) /\ Sure(c) /\ queries'[c].at = "answered"
        /\ queries'[c].kind = queries[c].kind /\ queries'[c].open = queries[c].open
        /\ queries'[c].repository = queries[c].repository
        /\ Is(c, "open") /\ ~queries'[c].doubt => Clear(queries[c].repository)
        /\ Is(c, "open") \/ Is(c, "remove") => queries'[c].value \subseteq Own(c)
        /\ library' = library \ (IF Is(c, "remove") THEN queries'[c].value ELSE {})
        /\ UNCHANGED <<open, doubtful>>
    BY <1>4, AnswerIs DEF Moves, Is
  <2>2. \A d \in Slots \ {c} : /\ Removes(d)' <=> Removes(d)
                               /\ Closing(d)' <=> Closing(d)
                               /\ Waits(d)' <=> Waits(d)
                               /\ queries'[d].doubt = queries[d].doubt
                               /\ queries'[d].repository = queries[d].repository
                               /\ queries'[d].value = queries[d].value
                               /\ \A s : Closes(d, s)' <=> Closes(d, s)
    BY <2>1 DEF Turn, Kin, Sure, Removes, Closing, Closes, Answered, Is
  <2>3. /\ ~Removes(c)' /\ ~Waits(c) /\ (\A s : ~Closes(c, s)) /\ (Closing(c)' <=> Closing(c))
        /\ (Waits(c)' <=> Is(c, "open")) /\ (Is(c, "remove") => Removes(c))
        /\ \A s : Closes(c, s)' <=> Is(c, "remove") /\ s \in queries'[c].value /\ Closing(c)
    BY <2>1 DEF Removes, Answered, Closing, Closes, Is
  <2>4. \A r : Clear(r) => Clear(r)'
    BY <2>2, <2>3
  <2>5. Own(c) \subseteq library /\ \A s \in Own(c) : Of[s] = queries[c].repository
    BY DEF Own, Having
  <2>6. ASSUME NEW d \in Slots, Waits(d)', ~queries'[d].doubt
        PROVE  queries'[d].value \subseteq library' /\ Clear(queries[d].repository)'
    <3>1. CASE d = c
      <4>1. Is(c, "open") /\ library' = library
        BY <2>1, <2>3, <2>6, <3>1 DEF Is
      <4> HIDE DEF Waits, Clear
      <4> QED BY <2>1, <2>4, <2>5, <2>6, <3>1, <4>1
    <3>2. CASE d # c
      <4>1. Waits(d) /\ ~queries[d].doubt
        BY <2>2, <2>6, <3>2
      <4>2. queries[d].value \subseteq library /\ Clear(queries[d].repository)
        BY <1>0, <4>1
      <4>3. Is(c, "remove") => queries[c].repository # queries[d].repository
        BY <2>3, <4>2
      <4>4. \A s \in queries[d].value : Of[s] = queries[d].repository
        BY <4>1 DEF Named, Is
      <4> HIDE DEF Waits, Clear
      <4>5. queries[d].value \subseteq library'
        BY <2>1, <2>5, <4>2, <4>3, <4>4
      <4> QED BY <2>2, <2>4, <3>2, <4>2, <4>5
    <3> QED BY <3>1, <3>2
  <2>7. ASSUME open' # <<>>, ~doubtful'
        PROVE  Sealed' /\ (open'[2] \in library' \/ Told(open[2])')
    <3>1. Sealed /\ (open[2] \in library \/ Told(open[2])) /\ open # <<>> /\ open' = open
      BY <1>0, <2>1, <2>7
    <3> HIDE DEF Waits
    <3>2. Sealed'
      BY <2>2, <2>3, <3>1
    <3>3. Told(open[2]) => Told(open[2])'
      BY <2>2, <2>3, <3>1
    <3>4. CASE open[2] \in library /\ open[2] \notin library'
      <4>1. Is(c, "remove") /\ open[2] \in queries'[c].value
        BY <2>1, <3>4
      <4>2. open[1] = queries[c].repository
        BY <2>1, <2>5, <3>1, <4>1 DEF Named
      <4>3. Closing(c)
        BY <2>3, <3>1, <4>1, <4>2
      <4>4. Closes(c, open[2])'
        BY <2>1, <2>3, <3>1, <4>1, <4>3 DEF Closes, Is, Answered
      <4> QED BY <3>1, <3>2, <4>4
    <3> QED BY <3>1, <3>2, <3>3, <3>4
  <2> HIDE DEF Waits, Clear, Sealed, Told
  <2> QED BY <1>r, <2>6, <2>7
<1>5. ASSUME NEW c \in Slots, Stock!Failed(c) PROVE Certain'
  <2>1. /\ Turn(c) /\ Sure(c) /\ Is(c, "none")' /\ UNCHANGED <<library, open>>
        /\ (doubtful => doubtful')
        /\ doubtful' \/ open = <<>> \/ ~(Is(c, "remove") /\ Answered(c) /\ queries[c].value # {})
    BY <1>5, FailedIs DEF Moves
  <2>2. open = <<>> \/ doubtful' \/ ~Closes(c, open[2])
    BY <2>1 DEF Closes
  <2>3. ~Waits(c)' /\ ~Removes(c)'
    BY <2>1 DEF Removes, Is
  <2> HIDE DEF Waits, Clear, Sealed, Told
  <2> QED BY <1>1, <2>1, <2>2, <2>3
<1>6. ASSUME NEW c \in Slots, Arrives(c) \/ Stock!Relisted(c) \/ Stock!HistoryAgain(c)
      PROVE  Certain'
  <2>1. /\ Turn(c) /\ Sure(c) /\ ~Is(c, "remove") /\ UNCHANGED <<library, open, doubtful>>
        /\ Is(c, "none")' \/ Is(c, "rehistory")'
    BY <1>6, ArrivalsAre, RelistedIs, HistoryAgainIs DEF Moves, Is
  <2> QED BY <1>1, <2>1 DEF Removes, Closes, Is
<1>7. ASSUME NEW c \in Slots, Stock!Removed(c) PROVE Certain'
  <2>1. /\ Turn(c) /\ Sure(c) /\ Is(c, "relist")' /\ library' = library
        /\ open' = <<>> \/ (~Closing(c) /\ UNCHANGED <<open, doubtful>>)
    BY <1>7, RemovedIs DEF Moves
  <2> QED BY <1>1, <2>1 DEF Removes, Closes, Is
<1>8. ASSUME NEW c \in Slots, Stock!AnalysisArrives(c) PROVE Certain'
  <2>1. /\ Is(c, "open") /\ Answered(c) /\ Turn(c) /\ Sure(c) /\ Is(c, "none")'
        /\ \E s \in queries[c].value : open' = <<queries[c].repository, s>>
        /\ doubtful' = queries[c].doubt /\ library' = library
    BY <1>8, AnalysisIs
  <2>2. \A d \in Slots \ {c} : /\ Removes(d)' <=> Removes(d)
                               /\ Waits(d)' <=> Waits(d)
                               /\ queries'[d].doubt = queries[d].doubt
                               /\ queries'[d].repository = queries[d].repository
                               /\ queries'[d].value = queries[d].value
    BY <2>1 DEF Turn, Kin, Sure, Removes, Answered, Is
  <2>3. ~Waits(c)' /\ ~Removes(c)' /\ Waits(c)
    BY <2>1 DEF Removes, Is
  <2>4. \A r : Clear(r) => Clear(r)'
    BY <2>2, <2>3
  <2>5. \A d \in Slots : Waits(d)' /\ ~queries'[d].doubt =>
           queries'[d].value \subseteq library' /\ Clear(queries[d].repository)'
    BY <1>0, <2>1, <2>2, <2>3, <2>4
  <2>6. ASSUME open' # <<>>, ~doubtful'
        PROVE  Sealed' /\ (open'[2] \in library' \/ Told(open[2])')
    <3>1. queries[c].value \subseteq library /\ Clear(queries[c].repository)
      BY <1>0, <2>1, <2>3, <2>6
    <3>2. open'[1] = queries[c].repository /\ open'[2] \in library'
      BY <2>1, <3>1
    <3>3. Sealed'
      BY <2>2, <2>3, <3>1, <3>2
    <3> QED BY <3>2, <3>3
  <2> HIDE DEF Waits, Clear, Sealed, Told
  <2> QED BY <1>r, <2>5, <2>6
<1>9. ASSUME \A d \in Slots : Kin(d) PROVE
        /\ \A d \in Slots : /\ Removes(d)' <=> Removes(d)
                            /\ Closing(d)' <=> Closing(d)
                            /\ Waits(d)' <=> Waits(d)
                            /\ queries'[d].repository = queries[d].repository
                            /\ queries'[d].value = queries[d].value
                            /\ \A s : Closes(d, s)' <=> Closes(d, s)
        /\ \A r : Clear(r)' <=> Clear(r)
        /\ \A s : Told(s)' <=> Told(s)
        /\ open' = open => (Sealed' <=> Sealed)
  <2>1. \A d \in Slots : /\ Removes(d)' <=> Removes(d)
                         /\ Closing(d)' <=> Closing(d)
                         /\ Waits(d)' <=> Waits(d)
                         /\ queries'[d].repository = queries[d].repository
                         /\ queries'[d].value = queries[d].value
                         /\ \A s : Closes(d, s)' <=> Closes(d, s)
    BY <1>9 DEF Kin, Removes, Closing, Closes, Answered, Is
  <2> HIDE DEF Waits
  <2>2. \A r : Clear(r)' <=> Clear(r)
    BY <2>1
  <2>3. \A s : Told(s)' <=> Told(s)
    BY <2>1
  <2>4. open' = open => (Sealed' <=> Sealed)
    BY <2>1
  <2> QED BY <2>1, <2>2, <2>3, <2>4
<1>10. CASE Stock!Leave \/ Asides
  <2>1. /\ \A d \in Slots : Kin(d) /\ queries'[d].doubt = queries[d].doubt
        /\ UNCHANGED <<open, doubtful>> \/ open' = <<>>
        /\ library' = library
    BY <1>10, LeaveIs, AsidesAre DEF Kin
  <2> HIDE DEF Waits, Clear, Sealed, Told
  <2> QED BY <1>0, <1>9, <1>r, <2>1
<1>11. ASSUME NEW s \in Scans, Stock!Elsewhere(s) PROVE Certain'
  <2>1. /\ \A d \in Slots : /\ Kin(d) /\ (~queries'[d].doubt => ~queries[d].doubt)
                            /\ Waits(d) /\ ~queries'[d].doubt => queries[d].repository # Of[s]
        /\ library \subseteq library' \cup {s} /\ open' = open /\ (doubtful => doubtful')
        /\ doubtful' \/ open = <<>> \/ open[1] # Of[s]
    BY <1>11, ElsewhereIs
  <2>2. ASSUME NEW d \in Slots, Waits(d)', ~queries'[d].doubt
        PROVE  queries'[d].value \subseteq library' /\ Clear(queries[d].repository)'
    <3>1. Waits(d) /\ ~queries[d].doubt /\ queries[d].repository # Of[s]
      BY <1>9, <2>1, <2>2
    <3>2. queries[d].value \subseteq library /\ Clear(queries[d].repository)
      BY <1>0, <3>1
    <3>3. \A x \in queries[d].value : Of[x] = queries[d].repository
      BY <3>1 DEF Named, Is
    <3> HIDE DEF Waits, Clear, Sealed, Told
    <3> QED BY <1>9, <2>1, <3>1, <3>2, <3>3
  <2>3. ASSUME open' # <<>>, ~doubtful'
        PROVE  Sealed' /\ (open'[2] \in library' \/ Told(open[2])')
    <3>1. Of[open[2]] = open[1] /\ open[1] # Of[s]
      BY <2>1, <2>3 DEF Named
    <3> HIDE DEF Waits, Clear, Sealed, Told
    <3>2. Sealed /\ (open[2] \in library \/ Told(open[2]))
      BY <1>0, <2>1, <2>3
    <3> QED BY <1>9, <2>1, <3>1, <3>2
  <2> HIDE DEF Waits, Clear, Sealed, Told
  <2> QED BY <1>r, <2>2, <2>3
<1> QED BY <1>2, <1>3, <1>4, <1>5, <1>6, <1>7, <1>8, <1>10, <1>11, StockSteps DEF Starts, Goes

-----------------------------------------------------------------------------
(***************************************************************************)
(* What the page shows. Nothing when it is left; what an earlier visit     *)
(* asked for does not change it; and a new visit begins with its list.     *)
(***************************************************************************)
Page == Alone /\ Straight /\ Fresh /\ Current

LEMMA BlankPage ==
  ASSUME StockTypes', Blank'
  PROVE  Page'
<1>1. /\ mounted' = FALSE /\ shelf' = <<>> /\ expanded' = "none" /\ scans' = <<>>
      /\ deleting' = FALSE /\ \A c \in Slots : ~H(c)'
  BY DEF Blank
<1>2. Alone' /\ Straight'
  BY <1>1 DEF Alone, Straight
<1>3. Fresh' /\ Current'
  BY <1>1 DEF Fresh, Current
<1> QED BY <1>2, <1>3 DEF Page

Strays(c) ==
  /\ Turn(c) /\ Still(c) /\ ~H(c) /\ ~H(c)'
  /\ Removes(c)' => Removes(c)
  /\ library' = library \/ Removes(c)
  /\ UNCHANGED <<mounted, shelf, expanded, scans, deleting, crossed, behind>>

LEMMA StraysAre ==
  ASSUME Listable, StockTypes, Alone, NEW c \in Slots, Opens(c) \/ (~H(c) /\ Goes(c))
  PROVE  Strays(c)
<1>1. CASE Opens(c)
  <2>1. PICK s \in Scans : Stock!OpenScan(c, s)
    BY <1>1 DEF Opens
  <2>2. ~H(c)
    BY <2>1, OpenScanIs DEF Alone
  <2> QED BY <2>1, <2>2, OpenScanIs DEF Strays, Moves, Removes, Is
<1>2. CASE ~H(c) /\ Stock!Answer(c)
  <2>1. /\ Turn(c) /\ Still(c) /\ ~H(c)' /\ queries'[c].at = "answered" /\ queries[c].at = "asked"
        /\ library' = library \ (IF Is(c, "remove") THEN queries'[c].value ELSE {})
        /\ UNCHANGED <<mounted, shelf, expanded, scans, deleting, crossed, behind>>
    BY <1>2, AnswerIs DEF Moves
  <2> QED BY <1>2, <2>1 DEF Strays, Removes
<1>3. CASE ~H(c) /\ Stock!Failed(c)
  <2>1. deleting' = deleting
    BY <1>3, FailedIs DEF StockTypes
  <2> QED BY <1>3, <2>1, FailedIs DEF Strays, Moves, Removes, Is
<1>4. CASE ~H(c) /\ Arrives(c)
  BY <1>4, ArrivalsAre DEF Strays, Moves, Removes, Is
<1>5. CASE ~H(c) /\ Stock!Removed(c)
  BY <1>5, RemovedIs DEF Strays, Moves, Removes, Is
<1>6. CASE ~H(c) /\ Stock!Relisted(c)
  BY <1>6, RelistedIs DEF Strays, Moves, Removes, Is
<1>7. CASE ~H(c) /\ Stock!HistoryAgain(c)
  BY <1>7, HistoryAgainIs DEF Strays, Moves, Removes, Is
<1> QED BY <1>1, <1>2, <1>3, <1>4, <1>5, <1>6, <1>7 DEF Goes

(* The calls of the page stay what they were.                              *)
LEMMA SameCalls ==
  ASSUME \A d \in Slots : H(d)' <=> H(d),
         \A d \in Slots : H(d) => Kin(d)
  PROVE  /\ \A d \in Slots : H(d) =>
              /\ Answered(d)' <=> Answered(d)
              /\ Deletes(d)' <=> Deletes(d)
              /\ Single(d)' <=> Single(d)
              /\ Renews(d)' <=> Renews(d)
              /\ Leaves(d)' <=> Leaves(d)
              /\ \A kind : Is(d, kind)' <=> Is(d, kind)
              /\ queries'[d].repository = queries[d].repository
              /\ queries'[d].value = queries[d].value
         /\ \A d \in Slots : Renews(d)' <=> Renews(d)
         /\ \A r : Stale(r)' <=> Stale(r)
<1>1. \A d \in Slots : H(d) =>
        /\ Answered(d)' <=> Answered(d)
        /\ Deletes(d)' <=> Deletes(d)
        /\ Single(d)' <=> Single(d)
        /\ Renews(d)' <=> Renews(d)
        /\ Leaves(d)' <=> Leaves(d)
        /\ \A kind : Is(d, kind)' <=> Is(d, kind)
        /\ queries'[d].repository = queries[d].repository
        /\ queries'[d].value = queries[d].value
  BY DEF Kin, Answered, Is, Deletes, Single, Renews, Leaves, Gone
<1>2. \A d \in Slots : (Renews(d) => H(d)) /\ (Leaves(d) => H(d))
                       /\ (Renews(d)' => H(d)') /\ (Leaves(d)' => H(d)')
  BY DEF Renews, Leaves, Gone
<1>3. \A d \in Slots : (Renews(d)' <=> Renews(d)) /\ (Leaves(d)' <=> Leaves(d))
  BY <1>1, <1>2
<1>4. \A r : Stale(r)' <=> Stale(r)
  BY <1>1, <1>2, <1>3 DEF Stale
<1> QED BY <1>1, <1>3, <1>4

(* Nothing is shown otherwise, and the page's own calls stay.              *)
LEMMA SamePage ==
  ASSUME StockTypes, Page, \A d \in Slots : H(d)' <=> H(d), \A d \in Slots : H(d) => Kin(d),
         \A d \in Slots : Is(d, "none")' => ~H(d)',
         mounted' = mounted, shelf' = shelf, deleting' = deleting, crossed' = crossed,
         \/ UNCHANGED <<expanded, scans>>
         \/ expanded' = "none" /\ scans' = <<>> /\ \A d \in Slots : H(d) => ~Deletes(d),
         mounted /\ ~behind' => ~behind /\ library' = library,
         mounted /\ ~behind' => \A d \in Slots : Removes(d)' => H(d)
  PROVE  Page'
<1>1. /\ \A d \in Slots : H(d) =>
              /\ Answered(d)' <=> Answered(d)
              /\ Deletes(d)' <=> Deletes(d)
              /\ Single(d)' <=> Single(d)
              /\ \A kind : Is(d, kind)' <=> Is(d, kind)
              /\ queries'[d].repository = queries[d].repository
              /\ queries'[d].value = queries[d].value
      /\ \A d \in Slots : Renews(d)' <=> Renews(d)
      /\ \A r : Stale(r)' <=> Stale(r)
  BY SameCalls
<1>2. \A d \in Slots : Single(d) => Deletes(d)
  BY DEF Single, Deletes, Is
<1>3. Alone'
  BY <1>1 DEF Page, Alone
<1>4. Straight'
  <2>1. CASE UNCHANGED <<expanded, scans>>
    BY <1>1, <2>1 DEF Page, Straight
  <2>2. CASE expanded' = "none" /\ scans' = <<>> /\ \A d \in Slots : H(d) => ~Deletes(d)
    BY <1>1, <1>2, <2>2 DEF Page, Straight
  <2> QED BY <2>1, <2>2
<1>5. CASE mounted /\ ~behind'
  <2>1. ~behind /\ library' = library
    BY <1>5
  <2>2. Stocked' = Stocked /\ \A r : Having(r)' = Having(r)
    BY <2>1 DEF Stocked, Having
  <2>3. Fresh'
    BY <1>1, <2>1, <2>2 DEF Page, Fresh
  <2>4. Current'
    <3>1. CASE UNCHANGED <<expanded, scans>>
      BY <1>1, <2>1, <2>2, <3>1 DEF Page, Current
    <3>2. CASE expanded' = "none"
      BY <1>1, <2>1, <2>2, <3>2 DEF Page, Current
    <3> QED BY <3>1, <3>2
  <2> QED BY <1>3, <1>4, <2>3, <2>4 DEF Page
<1>6. CASE behind'
  BY <1>3, <1>4, <1>6 DEF Page, Fresh, Current
<1>7. CASE ~mounted
  <2>1. shelf' = <<>> /\ expanded' = "none" /\ \A d \in Slots : ~H(d)'
    BY <1>7 DEF Page, Alone
  <2>2. Fresh' /\ Current'
    BY <2>1 DEF Fresh, Current
  <2> QED BY <1>3, <1>4, <2>2 DEF Page
<1> QED BY <1>5, <1>6, <1>7

LEMMA StrayPage ==
  ASSUME StockTypes, StockTypes', Page, NEW c \in Slots, Strays(c)
  PROVE  Page'
<1>1. /\ \A d \in Slots : H(d)' <=> H(d)
      /\ \A d \in Slots : H(d) => Kin(d)
      /\ ~H(c) /\ ~H(c)' /\ (Removes(c)' => Removes(c))
      /\ library' = library \/ Removes(c)
      /\ UNCHANGED <<mounted, shelf, expanded, scans, deleting, crossed, behind>>
  BY DEF Strays, Turn, Still, H
<1>2. \A d \in Slots : Is(d, "none")' => ~H(d)'
  BY <1>1 DEF Page, Alone, Kin, Is
<1>3. \A d \in Slots : Removes(d)' => Removes(d)
  BY <1>1 DEF Strays, Turn, Kin, Removes, Is
<1>4. mounted /\ ~behind => \A d \in Slots : Removes(d) => H(d)
  BY DEF Page, Alone
<1>5. /\ mounted /\ ~behind' => ~behind /\ library' = library
      /\ mounted /\ ~behind' => \A d \in Slots : Removes(d)' => H(d)
  BY <1>1, <1>3, <1>4
<1> QED BY <1>1, <1>2, <1>5, SamePage

LEMMA AsidePage ==
  ASSUME StockTypes, Page, Asides \/ \E s \in Scans : Stock!Elsewhere(s)
  PROVE  Page'
<1>1. /\ \A d \in Slots : Kin(d) /\ queries'[d].here = queries[d].here
      /\ UNCHANGED <<mounted, shelf, deleting, crossed>>
      /\ \/ UNCHANGED <<expanded, scans>>
         \/ ~deleting /\ expanded' = "none" /\ scans' = <<>>
      /\ behind' = mounted \/ UNCHANGED <<behind, library>>
  BY AsidesAre, ElsewhereIs DEF Kin
<1>2. \A d \in Slots : /\ H(d)' <=> H(d)
                       /\ Is(d, "none")' => ~H(d)'
                       /\ Removes(d)' <=> Removes(d)
  BY <1>1 DEF Page, Alone, Kin, Is, H, Removes
<1>3. ~deleting => \A d \in Slots : H(d) => ~Deletes(d)
  BY DEF Page, Alone
<1>4. mounted /\ ~behind => \A d \in Slots : Removes(d) => H(d)
  BY DEF Page, Alone
<1> QED BY <1>1, <1>2, <1>3, <1>4, SamePage

LEMMA ReturnPage ==
  ASSUME StockTypes, Page, NEW c \in Slots, Stock!Return(c)
  PROVE  Page'
<1>1. /\ ~mounted /\ mounted' = TRUE /\ Turn(c) /\ Still(c)
      /\ Is(c, "list")' /\ queries'[c].at = "asked" /\ H(c)'
      /\ behind' \/ \A d \in Slots : ~Removes(d)
      /\ UNCHANGED <<shelf, expanded, scans, deleting>>
  BY ReturnIs DEF Moves
<1>2. /\ shelf = <<>> /\ expanded = "none" /\ ~deleting
      /\ \A d \in Slots : ~H(d)
  BY <1>1 DEF Page, Alone
<1>3. \A d \in Slots \ {c} : ~H(d)'
  BY <1>1, <1>2 DEF Still, H
<1>4. \A d \in Slots : Removes(d)' => Removes(d)
  BY <1>1 DEF Turn, Kin, Removes, Is
<1>5. ~Deletes(c)' /\ ~Is(c, "none")' /\ ~Is(c, "history")' /\ ~Single(c)' /\ ~Answered(c)'
  BY <1>1 DEF Deletes, Single, Answered, Is
<1>6. Alone'
  BY <1>1, <1>2, <1>3, <1>4, <1>5 DEF Alone
<1>7. Straight'
  BY <1>1, <1>2, <1>3, <1>5 DEF Straight
<1>8. Fresh' /\ Current'
  BY <1>1, <1>2, <1>3, <1>5 DEF Fresh, Current
<1> QED BY <1>6, <1>7, <1>8 DEF Page

-----------------------------------------------------------------------------
(* What the page's own calls do to it.                                     *)
Mine(c) == Starts(c) \/ (H(c) /\ Goes(c))

LEMMA AloneStep ==
  ASSUME Listable, StockTypes, Alone, NEW c \in Slots, Mine(c)
  PROVE  Alone'
<1> USE DEF Is, Deletes, Removes
<1>1. ASSUME Turn(c), Still(c), H(c), queries'[c].kind \in {queries[c].kind, "none"},
             H(c)' <=> queries'[c].kind # "none", Removes(c)' => Removes(c),
             UNCHANGED <<mounted, shelf>>, behind => behind',
             deleting' <=> deleting /\ (Deletes(c) => Deletes(c)')
      PROVE  Alone'
  BY <1>1 DEF Alone, Turn, Kin, Still, H
<1>0. ASSUME shelf # <<>> PROVE mounted
  BY <1>0 DEF Alone
<1>2. ASSUME NEW r \in Repositories, Stock!ShowHistory(c, r) \/ Stock!OpenRepository(c, r)
      PROVE  Alone'
  <2>1. /\ Turn(c) /\ Still(c) /\ Is(c, "none") /\ queries'[c].kind \in {"history", "open"}
        /\ H(c)' /\ shelf # <<>> /\ UNCHANGED <<mounted, shelf, deleting, behind>>
    BY <1>2, ShowHistoryIs, OpenRepositoryIs DEF Moves
  <2>2. mounted /\ ~H(c)
    BY <1>0, <2>1 DEF Alone
  <2> QED BY <2>1, <2>2 DEF Alone, Turn, Kin, Still, H
<1>3. ASSUME NEW r \in Repositories, NEW s \in Scans \cup {0}, Stock!Remove(c, r, s)
      PROVE  Alone'
  <2>1. /\ Turn(c) /\ Still(c) /\ Is(c, "none") /\ queries'[c].kind = "remove" /\ shelf # <<>>
        /\ H(c)' /\ UNCHANGED <<mounted, shelf, behind>> /\ ~deleting /\ deleting'
    BY <1>3, DeleteIs
  <2>2. mounted /\ ~H(c)
    BY <1>0, <2>1 DEF Alone
  <2> QED BY <2>1, <2>2 DEF Alone, Turn, Kin, Still, H
<1>4. CASE H(c) /\ Stock!Answer(c)
  <2>1. /\ Turn(c) /\ Still(c) /\ H(c)' /\ queries'[c].at = "answered"
        /\ queries[c].at = "asked" /\ queries'[c].kind = queries[c].kind
        /\ UNCHANGED <<mounted, shelf, deleting, behind>>
    BY <1>4, AnswerIs DEF Moves
  <2>2. ~Is(c, "none")
    BY <2>1 DEF StockTypes
  <2>3. deleting \in BOOLEAN
    BY DEF StockTypes
  <2> QED BY <1>1, <1>4, <2>1, <2>2, <2>3
<1>5. CASE H(c) /\ Stock!Failed(c)
  BY <1>1, <1>5, FailedIs DEF Moves
<1>6. CASE H(c) /\ Arrives(c)
  <2>1. /\ Turn(c) /\ Still(c) /\ Is(c, "none")' /\ ~H(c)'
        /\ UNCHANGED <<mounted, deleting, behind>>
        /\ queries[c].kind \in {"list", "history"}
        /\ shelf' = shelf \/ (Is(c, "list") /\ shelf' # <<>>)
    BY <1>6, ArrivalsAre DEF Moves
  <2>2. CASE shelf' = shelf
    BY <1>6, <2>1, <2>2 DEF Alone, Turn, Kin, Still, H
  <2>3. CASE Is(c, "list") /\ shelf' # <<>>
    <3>1. mounted
      BY <1>6 DEF Alone
    <3> QED BY <1>6, <2>1, <2>3, <3>1 DEF Alone, Turn, Kin, Still, H
  <2> QED BY <2>1, <2>2, <2>3
<1>7. CASE H(c) /\ Stock!Removed(c)
  <2>1. /\ Turn(c) /\ Still(c) /\ Is(c, "remove") /\ Is(c, "relist")' /\ H(c)'
        /\ UNCHANGED <<mounted, shelf, deleting, behind>>
    BY <1>7, RemovedIs DEF Moves
  <2> QED BY <1>7, <2>1 DEF Alone, Turn, Kin, Still, H
<1>8. CASE H(c) /\ Stock!Relisted(c)
  <2>1. /\ Turn(c) /\ Still(c) /\ Is(c, "relist") /\ shelf' = <<queries[c].value>>
        /\ \/ Is(c, "rehistory")' /\ H(c)' /\ deleting' = deleting
           \/ Is(c, "none")' /\ ~H(c)' /\ deleting' = FALSE
        /\ UNCHANGED <<mounted, behind>>
    BY <1>8, RelistedIs DEF Moves
  <2>2. shelf' # <<>>
    BY <2>1
  <2>3. mounted /\ \A d \in Slots : H(d) => ~Is(d, "list")
    BY <1>8, <2>1 DEF Alone
  <2> QED BY <1>8, <2>1, <2>2, <2>3 DEF Alone, Turn, Kin, Still, H
<1>9. CASE H(c) /\ Stock!HistoryAgain(c)
  BY <1>1, <1>9, HistoryAgainIs DEF Moves
<1> QED BY <1>2, <1>3, <1>4, <1>5, <1>6, <1>7, <1>8, <1>9 DEF Mine, Starts, Goes

LEMMA StraightStep ==
  ASSUME Listable, StockTypes, Named, Alone, Straight, NEW c \in Slots, Mine(c)
  PROVE  Straight'
<1> USE DEF Is, Deletes, Single
<1>0. expanded \in Repositories \cup {"none"} /\ \A r \in Repositories : r # "none"
  BY SortsAre DEF StockTypes
<1>1. ASSUME Turn(c), Still(c), UNCHANGED <<crossed, expanded, scans>>, H(c)' => H(c),
             Is(c, "history")' => Is(c, "history"), Single(c)' => Single(c),
             queries'[c].repository = queries[c].repository \/ Is(c, "none")'
      PROVE  Straight'
  BY <1>1 DEF Straight, Turn, Kin, Still, H
<1>2. ASSUME NEW r \in Repositories, Stock!ShowHistory(c, r) PROVE Straight'
  <2>1. /\ Turn(c) /\ Still(c) /\ Is(c, "history")' /\ queries'[c].repository = r /\ ~deleting
        /\ expanded' = r /\ scans' = <<>>
        /\ crossed' \/ \A d \in Slots : H(d) => ~Is(d, "history")
    BY <1>2, ShowHistoryIs DEF Moves
  <2>2. \A d \in Slots : H(d) => ~Deletes(d)
    BY <2>1 DEF Alone
  <2> QED BY <2>1, <2>2 DEF Straight, Turn, Kin, Still, H
<1>3. ASSUME NEW r \in Repositories, Stock!OpenRepository(c, r) PROVE Straight'
  <2>1. /\ Turn(c) /\ Still(c) /\ Is(c, "open")' /\ UNCHANGED <<crossed, expanded, scans>>
    BY <1>3, OpenRepositoryIs DEF Moves
  <2> QED BY <2>1 DEF Straight, Turn, Kin, Still, H
<1>4. ASSUME NEW r \in Repositories, NEW s \in Scans \cup {0}, Stock!Remove(c, r, s)
      PROVE  Straight'
  <2>1. /\ Turn(c) /\ Still(c) /\ Is(c, "remove")' /\ queries'[c].repository = r
        /\ queries'[c].scan = s /\ UNCHANGED <<crossed, expanded, scans>> /\ ~deleting
    <3> HIDE DEF Single, Deletes, Is
    <3> QED BY <1>4, DeleteIs
  <2>4. s # 0 => r = expanded /\ scans # <<>>
    <3> HIDE DEF Single, Deletes, Is
    <3> QED BY <1>4, DeleteIs
  <2>2. \A d \in Slots : H(d) => ~Deletes(d)
    BY <2>1 DEF Alone
  <2>3. r # "none"
    BY <1>0
  <2> QED BY <2>1, <2>2, <2>3, <2>4 DEF Straight, Turn, Kin, Still, H
<1>5. CASE H(c) /\ Stock!Answer(c)
  BY <1>1, <1>5, AnswerIs DEF Moves
<1>6. CASE H(c) /\ Stock!Failed(c)
  BY <1>1, <1>6, FailedIs DEF Moves
<1>7. CASE H(c) /\ Arrives(c)
  <2>1. /\ Turn(c) /\ Still(c) /\ Is(c, "none")' /\ ~H(c)' /\ UNCHANGED <<crossed, expanded>>
        /\ Answered(c)
        /\ scans' = scans \/ (Is(c, "history") /\ scans' = <<queries[c].value>>)
    BY <1>7, ArrivalsAre DEF Moves
  <2>2. CASE scans' = scans
    BY <1>1, <2>1, <2>2
  <2>3. CASE Is(c, "history") /\ scans' = <<queries[c].value>>
    <3>1. \A s \in scans'[1] : Of[s] = queries[c].repository
      BY <2>1, <2>3 DEF Named
    <3> QED BY <1>7, <2>1, <2>3, <3>1 DEF Straight, Turn, Kin, Still, H
  <2> QED BY <2>1, <2>2, <2>3
<1>8. CASE H(c) /\ Stock!Removed(c)
  <2>1. /\ Turn(c) /\ Still(c) /\ Is(c, "remove") /\ Is(c, "relist")' /\ crossed' = crossed
        /\ queries'[c].repository = queries[c].repository
        /\ queries'[c].scan = queries[c].scan
        /\ \/ queries[c].scan = 0 /\ expanded' = "none" /\ scans' = <<>>
           \/ queries[c].scan # 0 /\ UNCHANGED <<expanded, scans>>
    BY <1>8, RemovedIs DEF Moves
  <2>2. \A d \in Slots : H(d) /\ Deletes(d) => d = c
    BY <1>8, <2>1 DEF Alone
  <2> QED BY <1>8, <2>1, <2>2 DEF Straight, Turn, Kin, Still, H
<1>9. CASE H(c) /\ Stock!Relisted(c)
  <2>1. /\ Turn(c) /\ Still(c) /\ Is(c, "relist") /\ crossed' = crossed
        /\ \/ /\ Is(c, "rehistory")' /\ queries[c].scan # 0
              /\ queries'[c].repository = queries[c].repository
              /\ UNCHANGED <<expanded, scans>>
           \/ /\ Is(c, "none")'
              /\ \/ expanded' = "none" /\ scans' = <<>>
                 \/ UNCHANGED <<expanded, scans>>
    BY <1>9, RelistedIs DEF Moves
  <2>2. \A d \in Slots : H(d) /\ Deletes(d) => d = c
    BY <1>9, <2>1 DEF Alone
  <2> QED BY <1>9, <2>1, <2>2 DEF Straight, Turn, Kin, Still, H
<1>10. CASE H(c) /\ Stock!HistoryAgain(c)
  <2>1. /\ Turn(c) /\ Still(c) /\ Is(c, "rehistory") /\ Is(c, "none")'
        /\ UNCHANGED <<crossed, expanded>> /\ scans' = <<queries[c].value>> /\ Answered(c)
    BY <1>10, HistoryAgainIs DEF Moves
  <2>2. \A d \in Slots : H(d) /\ Deletes(d) => d = c
    BY <1>10, <2>1 DEF Alone
  <2>3. \A s \in scans'[1] : Of[s] = queries[c].repository
    BY <2>1 DEF Named
  <2>4. ~crossed => \A d \in Slots : H(d) => ~Is(d, "history")
    BY <1>10, <2>1 DEF Straight
  <2> QED BY <1>10, <2>1, <2>2, <2>3, <2>4 DEF Straight, Turn, Kin, Still, H
<1> QED BY <1>2, <1>3, <1>4, <1>5, <1>6, <1>7, <1>8, <1>9, <1>10 DEF Mine, Starts, Goes

LEMMA FreshStep ==
  ASSUME Listable, StockTypes, Alone, Fresh, NEW c \in Slots, Mine(c)
  PROVE  Fresh'
<1> SUFFICES ASSUME ~behind' PROVE Fresh'
  BY DEF Fresh
<1> USE DEF Is
(* A call that shows no list and announces none.                           *)
<1>1. ASSUME Turn(c), Still(c), ~behind, UNCHANGED <<library, shelf>>,
             ~Renews(c), queries'[c].at # "answered" \/ queries'[c].kind \notin {"list", "relist"}
      PROVE  Fresh'
  <2>1. \A d \in Slots \ {c} : /\ Renews(d)' <=> Renews(d)
                               /\ H(d)' <=> H(d)
                               /\ Answered(d)' <=> Answered(d)
                               /\ queries'[d].kind = queries[d].kind
                               /\ queries'[d].value = queries[d].value
    BY <1>1 DEF Turn, Kin, Still, Renews, Gone, H, Answered
  <2> QED BY <1>1, <2>1 DEF Fresh, Answered, Stocked
<1>2. CASE Starts(c)
  <2>1. /\ Turn(c) /\ Still(c) /\ Is(c, "none") /\ queries'[c].at = "asked" /\ behind' = behind
        /\ UNCHANGED <<library, shelf>>
    BY <1>2, ShowHistoryIs, OpenRepositoryIs, DeleteIs DEF Starts, Moves
  <2> QED BY <1>1, <2>1 DEF Renews, Gone
<1>3. CASE H(c) /\ Stock!Answer(c)
  <2>1. /\ queries[c].at = "asked" /\ Turn(c) /\ Still(c) /\ queries'[c].at = "answered" /\ H(c)'
        /\ queries'[c].kind = queries[c].kind
        /\ library' = library \ (IF Is(c, "remove") THEN queries'[c].value ELSE {})
        /\ queries[c].kind \in {"list", "relist"} => queries'[c].value = Stocked
        /\ UNCHANGED <<shelf, behind>>
    BY <1>3, AnswerIs DEF Moves, Stocked
  <2>2. \A d \in Slots \ {c} : /\ Renews(d)' <=> Renews(d)
                               /\ H(d)' <=> H(d)
                               /\ Answered(d)' <=> Answered(d)
                               /\ queries'[d].kind = queries[d].kind
                               /\ queries'[d].value = queries[d].value
    BY <2>1 DEF Turn, Kin, Still, Renews, Gone, H, Answered
  <2>3. CASE ~Is(c, "remove") \/ queries'[c].value = {}
    <3>1. Stocked' = Stocked
      BY <2>1, <2>3 DEF Stocked
    <3>2. Renews(c) => Renews(c)'
      BY <2>1 DEF Renews, Gone, Answered
    <3> QED BY <2>1, <2>2, <3>1, <3>2 DEF Fresh
  <2>4. CASE Is(c, "remove") /\ queries'[c].value # {}
    <3>1. Renews(c)'
      BY <2>1, <2>4 DEF Renews, Gone, Answered
    <3>2. \A d \in Slots : H(d) => ~Is(d, "list") /\ (Is(d, "relist") => d = c)
      BY <1>3, <2>4 DEF Alone, Deletes
    <3> QED BY <2>1, <2>2, <2>4, <3>1, <3>2 DEF Fresh
  <2> QED BY <2>3, <2>4
<1>4. CASE H(c) /\ Stock!Failed(c)
  <2>1. /\ Turn(c) /\ Still(c) /\ queries'[c].at = "idle" /\ ~behind
        /\ ~Is(c, "relist") /\ ~Gone(c)
        /\ UNCHANGED <<library, shelf>>
    BY <1>4, FailedIs DEF Moves
  <2> QED BY <1>1, <2>1 DEF Renews
<1>5. CASE H(c) /\ Arrives(c)
  <2>1. /\ Answered(c) /\ Turn(c) /\ Still(c) /\ queries'[c].at = "idle" /\ ~Renews(c)
        /\ UNCHANGED <<library, behind>>
        /\ \/ Is(c, "list") /\ shelf' = <<queries[c].value>>
           \/ Is(c, "history") /\ shelf' = shelf
    BY <1>5, ArrivalsAre DEF Moves, Renews, Gone
  <2>2. CASE shelf' = shelf
    BY <1>1, <2>1, <2>2
  <2>3. CASE Is(c, "list") /\ shelf' = <<queries[c].value>>
    <3>1. shelf'[1] = Stocked
      BY <1>5, <2>1, <2>3 DEF Fresh
    <3> QED BY <2>1, <3>1 DEF Fresh, Turn, Kin, Still, H, Answered, Stocked
  <2> QED BY <2>1, <2>2, <2>3
<1>6. CASE H(c) /\ Stock!Removed(c)
  <2>1. /\ Turn(c) /\ Still(c) /\ Is(c, "relist")' /\ queries'[c].at = "asked" /\ H(c)'
        /\ UNCHANGED <<library, shelf, behind>>
    BY <1>6, RemovedIs DEF Moves
  <2>2. Renews(c)'
    BY <2>1 DEF Renews
  <2> QED BY <2>1, <2>2 DEF Fresh, Turn, Kin, Still, H, Answered, Stocked
<1>7. CASE H(c) /\ Stock!Relisted(c)
  <2>1. /\ Is(c, "relist") /\ Answered(c) /\ Turn(c) /\ Still(c) /\ shelf' = <<queries[c].value>>
        /\ queries'[c].at # "answered" /\ UNCHANGED <<library, behind>>
    BY <1>7, RelistedIs DEF Moves
  <2>2. shelf'[1] = Stocked
    BY <1>7, <2>1 DEF Fresh
  <2> QED BY <2>1, <2>2 DEF Fresh, Turn, Kin, Still, H, Answered, Stocked
<1>8. CASE H(c) /\ Stock!HistoryAgain(c)
  <2>1. /\ Is(c, "rehistory") /\ Turn(c) /\ Still(c) /\ queries'[c].at = "idle"
        /\ UNCHANGED <<library, shelf, behind>>
    BY <1>8, HistoryAgainIs DEF Moves
  <2> QED BY <1>1, <2>1 DEF Renews, Gone
<1> QED BY <1>2, <1>3, <1>4, <1>5, <1>6, <1>7, <1>8 DEF Mine, Goes

LEMMA CurrentStep ==
  ASSUME Listable, StockTypes, Alone, Straight, Current, NEW c \in Slots, Mine(c)
  PROVE  Current'
<1> SUFFICES ASSUME ~behind', ~crossed' PROVE Current'
  BY DEF Current
<1> USE DEF Is
<1> DEFINE Stays(d) == /\ Leaves(d)' <=> Leaves(d)
                       /\ H(d)' <=> H(d)
                       /\ Answered(d)' <=> Answered(d)
                       /\ Is(d, "history")' <=> Is(d, "history")
                       /\ Is(d, "rehistory")' <=> Is(d, "rehistory")
                       /\ Deletes(d)' <=> Deletes(d)
                       /\ queries'[d].repository = queries[d].repository
                       /\ queries'[d].value = queries[d].value
<1>k. ASSUME Turn(c), Still(c) PROVE \A d \in Slots \ {c} : Stays(d)
  BY <1>k DEF Turn, Kin, Still, Leaves, Gone, H, Answered, Deletes
(* A call that begins or ends without an answer, and shows nothing.        *)
<1>1. ASSUME Turn(c), Still(c), ~behind, ~crossed,
             UNCHANGED <<library, expanded, scans>>,
             ~Leaves(c), ~Leaves(c)', queries'[c].at # "answered"
      PROVE  Current'
  <2>1. \A d \in Slots \ {c} : Stays(d)
    BY <1>1, <1>k
  <2>2. \A r : (Stale(r)' <=> Stale(r)) /\ Having(r)' = Having(r)
    BY <1>1, <2>1 DEF Stale, Having
  <2> QED BY <1>1, <2>1, <2>2 DEF Current, Answered
<1>2. ASSUME NEW r \in Repositories, Stock!ShowHistory(c, r) PROVE Current'
  <2>1. /\ Turn(c) /\ Still(c) /\ Is(c, "history")' /\ queries'[c].at = "asked" /\ Is(c, "none")
        /\ expanded' = r /\ scans' = <<>> /\ (crossed => crossed')
        /\ \A d \in Slots : H(d) => ~Is(d, "history")
        /\ UNCHANGED <<library, behind>>
    BY <1>2, ShowHistoryIs DEF Moves
  <2>2. \A d \in Slots \ {c} : Stays(d)
    BY <2>1, <1>k
  <2> QED BY <2>1, <2>2 DEF Current, Answered, Having
<1>3. ASSUME \E r \in Repositories : \/ Stock!OpenRepository(c, r)
                                     \/ \E s \in Scans \cup {0} : Stock!Remove(c, r, s)
      PROVE  Current'
  <2>1. /\ Turn(c) /\ Still(c)
        /\ Is(c, "open")' \/ Is(c, "remove")'
        /\ queries'[c].at = "asked" /\ Is(c, "none")
        /\ UNCHANGED <<library, expanded, scans, behind, crossed>>
    BY <1>3, OpenRepositoryIs, DeleteIs DEF Moves
  <2>2. ~Leaves(c) /\ ~Leaves(c)'
    BY <2>1 DEF Leaves, Gone, Answered
  <2>3. queries'[c].at # "answered"
    BY <2>1
  <2> HIDE DEF Is
  <2> QED BY <1>1, <2>1, <2>2, <2>3
<1>4. CASE H(c) /\ Stock!Answer(c)
  <2>1. /\ queries[c].at = "asked" /\ Turn(c) /\ Still(c) /\ queries'[c].at = "answered"
        /\ H(c)' /\ queries'[c].kind = queries[c].kind
        /\ queries'[c].repository = queries[c].repository
        /\ queries'[c].scan = queries[c].scan
        /\ library' = library \ (IF Is(c, "remove") THEN queries'[c].value ELSE {})
        /\ UNCHANGED <<expanded, scans, behind, crossed>>
    BY <1>4, AnswerIs DEF Moves
  <2>2. /\ queries[c].kind \in {"history", "rehistory"} =>
             queries'[c].value = Having(queries[c].repository)
        /\ Is(c, "remove") =>
             /\ queries'[c].value \subseteq Having(queries[c].repository)
             /\ queries[c].scan = 0 => queries'[c].value = Having(queries[c].repository)
    BY <1>4, AnswerIs DEF Own
  <2>3. \A d \in Slots \ {c} : Stays(d)
    BY <2>1, <1>k
  <2>4. CASE ~Is(c, "remove") \/ queries'[c].value = {}
    <3>1. library' = library /\ \A r : Having(r)' = Having(r)
      BY <2>1, <2>4 DEF Having
    <3>2. Leaves(c)' <=> Leaves(c)
      BY <1>4, <2>1, <2>4 DEF Leaves, Gone, Answered
    <3>4. \A r : Stale(r)' <=> Stale(r)
      BY <2>1, <2>3, <3>2 DEF Stale
    <3>5. Is(c, "history") /\ expanded # "none" => expanded = queries[c].repository
      BY <1>4, <2>1 DEF Straight
    <3>6. ASSUME NEW d \in Slots, H(d)', Answered(d)'
          PROVE  /\ Is(d, "rehistory")' => queries'[d].value = Having(queries'[d].repository)
                 /\ Is(d, "history")' /\ expanded # "none" =>
                      queries'[d].value = Having(expanded) \/ Stale(expanded)
      <4>1. CASE d = c
        BY <2>1, <2>2, <3>5, <4>1
      <4>2. CASE d # c
        BY <2>1, <2>3, <3>6, <4>2 DEF Current
      <4> QED BY <4>1, <4>2
    <3>8. expanded # "none" /\ scans # <<>> => scans[1] = Having(expanded) \/ Stale(expanded)
      BY <2>1 DEF Current
    <3> QED BY <2>1, <3>1, <3>4, <3>6, <3>8 DEF Current
  <2>5. CASE Is(c, "remove") /\ queries'[c].value # {}
    <3>1. Leaves(c)'
      BY <2>1, <2>5 DEF Gone, Answered, Leaves
    <3>2. \A d \in Slots : H(d) /\ Deletes(d) => d = c
      BY <1>4, <2>5 DEF Alone, Deletes
    <3>0. \A d \in Slots : Leaves(d) => H(d) /\ Deletes(d)
      BY DEF Leaves, Gone, Deletes
    <3>9. ~Leaves(c)
      BY <2>1, <2>5 DEF Leaves, Gone, Answered
    <3>3. ~Stale(expanded)
      BY <3>0, <3>2, <3>9 DEF Stale
    <3>5. expanded = queries[c].repository => Stale(expanded)'
      BY <2>1, <3>1 DEF Stale
    <3>6. expanded # queries[c].repository => Having(expanded)' = Having(expanded)
      <4>1. expanded # queries[c].repository => queries[c].scan = 0
        BY <1>4, <2>5 DEF Straight, Single
      <4> QED BY <2>1, <2>2, <2>5, <4>1 DEF Having
    <3>7. ASSUME NEW d \in Slots, H(d)', Answered(d)'
          PROVE  /\ ~Is(d, "rehistory")'
                 /\ Is(d, "history")' /\ expanded # "none" =>
                      queries'[d].value = Having(expanded)' \/ Stale(expanded)'
      <4>1. CASE d = c
        BY <2>1, <2>5, <4>1
      <4>2. CASE d # c
        <5>1. /\ H(d) /\ Answered(d) /\ (Is(d, "history")' <=> Is(d, "history"))
              /\ queries'[d].value = queries[d].value
              /\ (Is(d, "rehistory")' <=> Is(d, "rehistory"))
          BY <2>3, <3>7, <4>2
        <5>2. ~Is(d, "rehistory")
          BY <3>2, <4>2, <5>1 DEF Deletes
        <5>3. Is(d, "history") /\ expanded # "none" => queries[d].value = Having(expanded)
          BY <2>1, <3>3, <5>1 DEF Current
        <5> QED BY <3>5, <3>6, <5>1, <5>2, <5>3
      <4> QED BY <4>1, <4>2
    <3>8. expanded # "none" /\ scans # <<>> => scans[1] = Having(expanded)' \/ Stale(expanded)'
      BY <2>1, <3>3, <3>5, <3>6 DEF Current
    <3> QED BY <2>1, <3>7, <3>8 DEF Current
  <2> QED BY <2>4, <2>5
<1>5. CASE H(c) /\ Stock!Failed(c)
  <2>1. /\ Turn(c) /\ Still(c) /\ ~H(c)' /\ queries'[c].at = "idle" /\ ~behind
        /\ ~Is(c, "relist") /\ ~Is(c, "rehistory") /\ ~Gone(c)
        /\ UNCHANGED <<library, expanded, scans, crossed>>
    BY <1>5, FailedIs DEF Moves
  <2> QED BY <1>1, <2>1 DEF Leaves, Gone
<1>6. CASE H(c) /\ Arrives(c)
  <2>1. /\ Answered(c) /\ Turn(c) /\ Still(c) /\ ~H(c)' /\ queries'[c].at = "idle"
        /\ UNCHANGED <<library, expanded, behind, crossed>>
        /\ \/ Is(c, "list") /\ scans' = scans
           \/ Is(c, "history") /\ scans' = <<queries[c].value>>
    BY <1>6, ArrivalsAre DEF Moves
  <2>2. ~Leaves(c) /\ ~Leaves(c)'
    BY <2>1 DEF Leaves, Gone
  <2>3. CASE scans' = scans
    BY <1>1, <2>1, <2>2, <2>3
  <2>4. CASE Is(c, "history") /\ scans' = <<queries[c].value>>
    <3>1. expanded # "none" => scans'[1] = Having(expanded) \/ Stale(expanded)
      BY <1>6, <2>1, <2>4 DEF Current
    <3>2. \A d \in Slots \ {c} : Stays(d)
      BY <2>1, <1>k
    <3>3. \A r : (Stale(r)' <=> Stale(r)) /\ Having(r)' = Having(r)
      BY <2>1, <2>2, <3>2 DEF Stale, Having
    <3> QED BY <2>1, <2>4, <3>1, <3>2, <3>3 DEF Current
  <2> QED BY <2>1, <2>3, <2>4
<1>7. CASE H(c) /\ Stock!Removed(c)
  <2>1. /\ Is(c, "remove") /\ Answered(c) /\ queries[c].value # {} /\ Turn(c) /\ Still(c)
        /\ Is(c, "relist")' /\ queries'[c].at = "asked" /\ H(c)'
        /\ queries'[c].repository = queries[c].repository /\ queries'[c].scan = queries[c].scan
        /\ \/ queries[c].scan = 0 /\ expanded' = "none" /\ scans' = <<>>
           \/ queries[c].scan # 0 /\ UNCHANGED <<expanded, scans>>
        /\ UNCHANGED <<library, crossed, behind>>
    BY <1>7, RemovedIs DEF Moves
  <2>2. \A d \in Slots \ {c} : Stays(d)
    BY <2>1, <1>k
  <2>3. CASE queries[c].scan # 0 /\ UNCHANGED <<expanded, scans>>
    <3>1. Leaves(c) /\ Leaves(c)'
      BY <1>7, <2>1, <2>3 DEF Leaves, Gone
    <3>2. \A r : (Stale(r)' <=> Stale(r)) /\ Having(r)' = Having(r)
      BY <2>1, <2>2, <3>1 DEF Stale, Having
    <3> QED BY <2>1, <2>2, <2>3, <3>2 DEF Current, Answered
  <2>4. CASE expanded' = "none"
    <3>1. \A d \in Slots \ {c} : H(d) => ~Is(d, "rehistory")
      BY <1>7, <2>1 DEF Alone, Deletes
    <3> QED BY <2>1, <2>2, <2>4, <3>1 DEF Current, Answered
  <2> QED BY <2>1, <2>3, <2>4
<1>8. CASE H(c) /\ Stock!Relisted(c)
  <2>1. /\ Is(c, "relist") /\ Answered(c) /\ Turn(c) /\ Still(c)
        /\ UNCHANGED <<library, crossed, behind>>
        /\ \/ /\ Is(c, "rehistory")' /\ queries'[c].at = "asked" /\ queries[c].scan # 0 /\ H(c)'
              /\ queries'[c].repository = queries[c].repository
              /\ UNCHANGED <<expanded, scans>>
           \/ /\ Is(c, "none")' /\ queries'[c].at = "idle" /\ ~H(c)'
              /\ \/ queries[c].scan # 0 /\ expanded' = "none" /\ scans' = <<>>
                 \/ queries[c].scan = 0 /\ UNCHANGED <<expanded, scans>>
    BY <1>8, RelistedIs DEF Moves
  <2>2. \A d \in Slots \ {c} : Stays(d)
    BY <2>1, <1>k
  <2>3. \A d \in Slots \ {c} : H(d) => ~Is(d, "rehistory")
    BY <1>8, <2>1 DEF Alone, Deletes
  <2>4. CASE Is(c, "rehistory")' /\ queries[c].scan # 0 /\ UNCHANGED <<expanded, scans>> /\ H(c)'
             /\ queries'[c].at = "asked" /\ queries'[c].repository = queries[c].repository
    <3>1. Leaves(c) /\ Leaves(c)'
      BY <1>8, <2>1, <2>4 DEF Leaves
    <3>2. \A r : (Stale(r)' <=> Stale(r)) /\ Having(r)' = Having(r)
      BY <2>1, <2>2, <2>4, <3>1 DEF Stale, Having
    <3> QED BY <2>1, <2>2, <2>4, <3>2 DEF Current, Answered
  <2>5. CASE expanded' = "none" /\ queries'[c].at = "idle"
    BY <2>1, <2>2, <2>3, <2>5 DEF Current, Answered
  <2>6. CASE queries[c].scan = 0 /\ UNCHANGED <<expanded, scans>>
             /\ queries'[c].at = "idle" /\ ~H(c)'
    <3>1. ~Leaves(c) /\ ~Leaves(c)'
      BY <2>1, <2>6 DEF Leaves, Gone
    <3> QED BY <1>1, <2>1, <2>6, <3>1
  <2> QED BY <2>1, <2>4, <2>5, <2>6
<1>9. CASE H(c) /\ Stock!HistoryAgain(c)
  <2>1. /\ Is(c, "rehistory") /\ Answered(c) /\ Turn(c) /\ Still(c) /\ ~H(c)'
        /\ scans' = <<queries[c].value>>
        /\ UNCHANGED <<library, expanded, crossed, behind>>
    BY <1>9, HistoryAgainIs DEF Moves
  <2>2. \A d \in Slots \ {c} : Stays(d)
    BY <2>1, <1>k
  <2>3. expanded = queries[c].repository /\ \A d \in Slots : H(d) => ~Is(d, "history")
    BY <1>9, <2>1 DEF Straight, Single
  <2>4. scans'[1] = Having(expanded) /\ Having(expanded)' = Having(expanded)
    BY <1>9, <2>1, <2>3 DEF Current, Having
  <2>5. \A d \in Slots \ {c} : H(d) => ~Is(d, "rehistory")
    BY <1>9, <2>1 DEF Alone, Deletes
  <2> QED BY <2>1, <2>2, <2>3, <2>4, <2>5 DEF Current
<1> QED BY <1>2, <1>3, <1>4, <1>5, <1>6, <1>7, <1>8, <1>9 DEF Mine, Starts, Goes

LEMMA PageStep ==
  ASSUME Listable, StockInv, StockTypes', [Stock!Next]_(Stock!vars)
  PROVE  Page'
<1>0. StockTypes /\ Named /\ Page /\ Alone /\ Straight /\ Fresh /\ Current
  BY DEF StockInv, Page
<1>1. ASSUME NEW c \in Slots, Mine(c) PROVE Page'
  BY <1>0, <1>1, AloneStep, StraightStep, FreshStep, CurrentStep DEF Page
<1>2. ASSUME NEW c \in Slots, Opens(c) \/ (~H(c) /\ Goes(c)) PROVE Page'
  BY <1>0, <1>2, StraysAre, StrayPage
<1>3. ASSUME NEW c \in Slots, Stock!AnalysisArrives(c) PROVE Page'
  BY <1>0, <1>3, AnalysisIs, BlankPage
<1>4. CASE Stock!Leave
  BY <1>0, <1>4, LeaveIs, BlankPage
<1>5. ASSUME NEW c \in Slots, Stock!Return(c) PROVE Page'
  BY <1>0, <1>5, ReturnPage
<1>6. CASE Asides \/ \E s \in Scans : Stock!Elsewhere(s)
  BY <1>0, <1>6, AsidePage
<1> QED BY <1>1, <1>2, <1>3, <1>4, <1>5, <1>6, StockSteps DEF Mine

LEMMA StockInit == Stock!Init => StockInv
<1> SUFFICES ASSUME Stock!Init PROVE StockInv
  OBVIOUS
<1> DEFINE first == Stock!Asked("list", Stock!None, Stock!All)
<1>1. /\ library \subseteq Scans /\ mounted = TRUE /\ shelf = <<>> /\ expanded = "none"
      /\ scans = <<>> /\ deleting = FALSE /\ open = <<>> /\ gone = {}
      /\ crossed = FALSE /\ behind = FALSE /\ doubtful = FALSE
  BY DEF Stock!Init, Scans, Stock!None
<1>2. first \in Queries /\ first.at = "asked" /\ first.kind = "list" /\ first.here
  BY AskedIs DEF Kinds, Stock!None, Stock!All
<1>3. PICK one \in Slots : queries = [c \in Slots |-> IF c = one THEN first ELSE Stock!Idle]
  BY DEF Stock!Init
<1> HIDE DEF first
<1>4. /\ queries \in [Slots -> Queries]
      /\ Is(one, "list") /\ queries[one].at = "asked" /\ H(one)
      /\ \A c \in Slots \ {one} : Is(c, "none") /\ queries[c].at = "idle" /\ ~H(c)
  BY <1>2, <1>3, IdleIs DEF Is, H
<1>5. StockTypes /\ Named
  BY <1>1, <1>4 DEF StockTypes, Named, Is, Answered, Opened
<1>6. Alone /\ Straight
  BY <1>1, <1>4 DEF Alone, Straight, Is, Deletes, Single, Removes
<1>7. Certain /\ Fresh /\ Current
  BY <1>1, <1>4 DEF Certain, Fresh, Current, Is, Answered
<1> QED BY <1>5, <1>6, <1>7 DEF StockInv

(***************************************************************************)
(* views/Home.tsx deletes no scan of a repository but the one it named;    *)
(* shows under a repository its scans, unless one history was asked for    *)
(* before another had come; keeps open nothing that it deleted, unless it  *)
(* was opened across the deletion or the answer was lost; and lists what   *)
(* is stored in every visit of the page, unless the visit began while a    *)
(* deletion of an earlier one was under way, an answer was lost or someone *)
(* else stored or deleted: for any number of repositories, of scans, of    *)
(* calls under way and of visits.                                          *)
(***************************************************************************)
THEOREM TheListIsTrue ==
  ASSUME Listable
  PROVE  Stock!Spec => []Stock!ListIsTrue
<1>1. StockInv /\ [Stock!Next]_(Stock!vars) => StockInv'
  <2> SUFFICES ASSUME StockInv, [Stock!Next]_(Stock!vars) PROVE StockInv'
    OBVIOUS
  <2>1. StockTypes' /\ Named' /\ Certain'
    BY StockTypesStep, NamedStep, CertainStep
  <2>2. Page'
    BY <2>1, PageStep
  <2> QED BY <2>1, <2>2 DEF StockInv, Page
<1>2. StockInv => Stock!ListIsTrue
  <2> SUFFICES ASSUME StockInv PROVE Stock!ListIsTrue
    OBVIOUS
  <2>1. \A g \in gone : Of[g[1]] = g[2]
    BY DEF StockInv, Named
  <2>2. expanded # "none" /\ scans # <<>> /\ ~crossed => \A s \in scans[1] : Of[s] = expanded
    BY DEF StockInv, Straight
  <2>3. ASSUME open # <<>>, ~doubtful
        PROVE  open[2] \in library \/
                 \E c \in Slots : Stock!Answered(c, "remove") /\ open[2] \in queries[c].value
    BY <2>3 DEF StockInv, Certain, Closes, Stock!Answered, Is, Answered
  <2>4. ~deleting => ~Stale(expanded) /\ \A c \in Slots : ~Renews(c)
    BY DEF StockInv, Alone, Stale, Leaves, Renews, Gone, Deletes, Is
  <2>5. ~deleting /\ ~behind /\ shelf # <<>> =>
          /\ shelf[1] = {Of[s] : s \in library}
          /\ expanded # "none" /\ scans # <<>> /\ ~crossed => scans[1] = Stock!ScansOf(expanded)
    BY <2>4, SortsAre DEF StockInv, Fresh, Current, Stocked, Having
  <2> QED BY <2>1, <2>2, <2>3, <2>5 DEF Stock!ListIsTrue, Stock!None
<1> QED BY StockInit, <1>1, <1>2, PTL DEF Stock!Spec

-----------------------------------------------------------------------------
(***************************************************************************)
(* What the pages keep in step with others they keep in step together:     *)
(* they share no state, and a step of one is a stutter of the others.      *)
(***************************************************************************)
THEOREM ThePagesAreTrue ==
  ASSUME Limit \in Nat \ {0}, Listable
  PROVE  Kept!Spec /\ Form!Spec /\ Stock!Spec => []RecentIsKept
<1>1. Kept!Spec => []Kept!RecentIsKept
  BY TheFilesAreKept
<1>2. Stock!Spec => []Stock!ListIsTrue
  BY TheListIsTrue
<1> QED BY TheFormIsHonest, <1>1, <1>2, PTL DEF RecentIsKept
=============================================================================
