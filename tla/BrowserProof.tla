---------------------------- MODULE BrowserProof ----------------------------
(***************************************************************************)
(* Proofs about BrowserSession for any number of analyses, listings,       *)
(* requests, workers and their errors, in any order of their messages.     *)
(***************************************************************************)
EXTENDS BrowserSession, FiniteSetTheorems, TLAPS

(* Requests and workers are numbered from 1, and listings by the           *)
(* generation they have raised.                                            *)
Numbered ==
  /\ \E n \in Nat : DOMAIN by = 1..n
  /\ pending \subseteq DOMAIN by /\ workers \in Nat
  /\ generation \in Nat
  /\ \A l \in listings : l.started \in Nat /\ l.started <= generation
  /\ \A l, m \in listings : l.started = m.started => l = m

(* As long as no effect has failed an analysis that was not its own: the   *)
(* session has a request only while it runs, nothing else that is pending  *)
(* is an analysis, and only the listing that is shown can go on.           *)
Exclusive ==
  ~overtaken =>
    /\ task # 0 => state.phase = "running"
    /\ \A id \in pending : by[id] # 0 => id = task
    /\ \A l \in listings : l.started = generation =>
         state.phase = "listing" /\ l.by = state.by

IInv == Numbered /\ NoRequestIsForgotten /\ Exclusive /\ ShownIsWanted

-----------------------------------------------------------------------------
(***************************************************************************)
(* The number of a new request is new.                                     *)
(***************************************************************************)
LEMMA NextIdIsNew ==
  ASSUME Numbered
  PROVE  /\ NextId \in Nat \ {0} /\ NextId \notin DOMAIN by /\ 0 \notin DOMAIN by
         /\ DOMAIN by \cup {NextId} = 1..NextId
<1>1. PICK n \in Nat : DOMAIN by = 1..n
  BY DEF Numbered
<1>2. Cardinality(1..n) = n
  BY FS_Interval
<1>3. NextId = n + 1
  BY <1>1, <1>2 DEF NextId
<1> QED BY <1>1, <1>3

(* What a step does to the requests: it registers the next one for         *)
(* somebody, posted to a worker or refused, or none.                       *)
LEMMA PostedIs ==
  ASSUME Numbered, NEW n, Posted(n)
  PROVE  /\ DOMAIN by' = 1..NextId /\ by'[NextId] = n
         /\ \A id \in DOMAIN by : by'[id] = by[id]
         /\ pending' = pending \cup {NextId} /\ working' = working \cup {NextId}
         /\ worker # 0 => worker' = worker
         /\ worker' # 0 /\ workers' \in Nat
<1>1. NextId \notin DOMAIN by /\ DOMAIN by \cup {NextId} = 1..NextId
  BY NextIdIsNew
<1>2. by' = [id \in DOMAIN by \cup {NextId} |-> IF id = NextId THEN n ELSE by[id]]
  BY DEF Posted, Registered
<1>3. DOMAIN by' = 1..NextId /\ by'[NextId] = n /\ \A id \in DOMAIN by : by'[id] = by[id]
  BY <1>1, <1>2
<1> QED BY <1>3 DEF Posted, Numbered

LEMMA NotPostedIs ==
  ASSUME Numbered, NEW n, NotPosted(n)
  PROVE  /\ DOMAIN by' = 1..NextId /\ \A id \in DOMAIN by : by'[id] = by[id]
         /\ UNCHANGED <<pending, working, worker, workers>>
<1>1. NextId \notin DOMAIN by /\ DOMAIN by \cup {NextId} = 1..NextId
  BY NextIdIsNew
<1>2. by' = [id \in DOMAIN by \cup {NextId} |-> IF id = NextId THEN n ELSE by[id]]
  BY DEF NotPosted, Registered
<1>3. DOMAIN by' = 1..NextId /\ \A id \in DOMAIN by : by'[id] = by[id]
  BY <1>1, <1>2
<1> QED BY <1>3 DEF NotPosted

-----------------------------------------------------------------------------
Grows ==
  /\ DOMAIN by \subseteq DOMAIN by' /\ \A id \in DOMAIN by : by'[id] = by[id]
  /\ \E n \in Nat : DOMAIN by' = 1..n
  /\ pending' \subseteq DOMAIN by' /\ workers' \in Nat

LEMMA RequestsGrow == Numbered /\ [Next]_vars => Grows
<1> SUFFICES ASSUME Numbered, [Next]_vars PROVE Grows
  OBVIOUS
<1>1. ASSUME NEW n, Posted(n) PROVE Grows
  BY <1>1, PostedIs, NextIdIsNew DEF Grows, Numbered
<1>2. ASSUME NEW n, NotPosted(n) PROVE Grows
  BY <1>2, NotPostedIs, NextIdIsNew DEF Grows, Numbered
<1>3. CASE by' = by /\ pending' \subseteq pending /\ workers' = workers
  BY <1>3 DEF Grows, Numbered
<1>4. CASE UserAnalyzes
  BY <1>1, <1>2, <1>4 DEF UserAnalyzes, Analyze
<1>5. CASE UserRequestsReport
  BY <1>1, <1>2, <1>5 DEF UserRequestsReport
<1>6. ASSUME NEW l \in listings, ListingEnds(l) PROVE Grows
  BY <1>1, <1>2, <1>3, <1>6 DEF ListingEnds, Analyze, client
<1>7. CASE UserDrops \/ UserDismisses \/ WorkerErrs \/ UNCHANGED vars
  BY <1>3, <1>7 DEF UserDrops, UserDismisses, WorkerErrs, vars, client, outside
<1>8. CASE UserCancels
  BY <1>3, <1>8 DEF UserCancels, client, Stop
<1>9. ASSUME NEW l \in listings, ListingProgress(l) PROVE Grows
  BY <1>3, <1>9 DEF ListingProgress, client, outside
<1>10. ASSUME NEW id \in working, WorkerTells(id) \/ WorkerAnswers(id) PROVE Grows
  BY <1>3, <1>10 DEF WorkerTells, WorkerAnswers, client
<1>11. ASSUME NEW event \in inbox, Deliver(event) PROVE Grows
  BY <1>3, <1>11 DEF Deliver, Stop, Answered
<1>12. ASSUME NEW n \in opening, Open(n) PROVE Grows
  BY <1>3, <1>12 DEF Open, client, outside
<1> QED BY <1>4, <1>5, <1>6, <1>7, <1>8, <1>9, <1>10, <1>11, <1>12 DEF Next

LEMMA NumberedStep == IInv /\ [Next]_vars => Numbered'
<1> SUFFICES ASSUME IInv, [Next]_vars PROVE Numbered'
  OBVIOUS
<1>1. Numbered /\ Grows
  BY RequestsGrow DEF IInv
<1> DEFINE Listed == /\ generation' \in Nat
                     /\ \A l \in listings' : l.started \in Nat /\ l.started <= generation'
                     /\ \A l, m \in listings' : l.started = m.started => l = m
<1>2. CASE generation' = generation /\ listings' \subseteq listings
  BY <1>1, <1>2 DEF Numbered, Grows
<1>3. CASE generation' = generation + 1 /\ listings' = listings
  BY <1>1, <1>3 DEF Numbered, Grows
<1>4. CASE UserDrops
  <2>1. PICK l : /\ l.started = generation + 1 /\ listings' = listings \cup {l}
                 /\ generation' = generation + 1
    BY <1>4 DEF UserDrops
  <2>2. /\ generation \in Nat /\ \A m \in listings : m.started \in Nat /\ m.started <= generation
        /\ \A k, m \in listings : k.started = m.started => k = m
    BY <1>1 DEF Numbered
  <2>3. Listed
    BY <2>1, <2>2
  <2> QED BY <1>1, <2>3 DEF Numbered, Grows
<1>5. CASE UserCancels
  BY <1>2, <1>3, <1>5 DEF UserCancels, Raised
<1> QED BY <1>2, <1>4, <1>5 DEF Next, vars, session, UserAnalyzes, UserDismisses,
    UserRequestsReport, ListingProgress, ListingEnds, WorkerTells, WorkerAnswers, WorkerErrs,
    Deliver, Open

-----------------------------------------------------------------------------
(***************************************************************************)
(* No request is forgotten.                                                *)
(***************************************************************************)
Asked == state.phase = "running" => task \in pending /\ by[task] = state.by
Served == pending # {} => worker # 0

Awaited(id) ==
  \/ id \in working
  \/ \E event \in inbox : \/ event.kind \in {"done", "failed"} /\ event.id = id
                          \/ event.kind = "error" /\ event.id = worker
Answerable == \A id \in pending : Awaited(id)

LEMMA ShowingIs ==
  ASSUME NEW phase, NEW n
  PROVE  Showing(phase, n).phase = phase /\ Showing(phase, n).by = n
BY DEF Showing

(* Analyze shows what it has asked for, or that it failed. *)
LEMMA AnalyzeIsAsked ==
  ASSUME Numbered, NEW n, Analyze(n)
  PROVE  Asked' /\ state'.by = n /\ state'.phase \in {"running", "failed"}
<1>1. CASE Posted(n) /\ state' = Showing("running", n) /\ task' = NextId
  BY <1>1, PostedIs, ShowingIs DEF Asked
<1>2. CASE NotPosted(n) /\ state' = Showing("failed", n)
  BY <1>2, ShowingIs DEF Asked
<1> QED BY <1>1, <1>2 DEF Analyze

LEMMA AskedStep == IInv /\ [Next]_vars => Asked'
<1> SUFFICES ASSUME IInv, [Next]_vars PROVE Asked'
  OBVIOUS
<1>1. Numbered /\ Asked /\ Grows /\ pending \subseteq DOMAIN by
  BY RequestsGrow DEF IInv, NoRequestIsForgotten, Asked, Numbered
<1>2. CASE state'.phase # "running"
  BY <1>2 DEF Asked
<1>3. CASE UNCHANGED <<state, task, pending>>
  BY <1>1, <1>3 DEF Asked, Grows
<1>4. CASE UNCHANGED <<state, task>> /\ pending \subseteq pending'
  BY <1>1, <1>4 DEF Asked, Grows
<1>5. CASE UserAnalyzes
  BY <1>1, <1>5, AnalyzeIsAsked DEF UserAnalyzes
<1>6. CASE UserDrops \/ UserDismisses
  BY <1>2, <1>6, ShowingIs DEF UserDrops, UserDismisses
<1>7. CASE UserCancels
  <2>1. CASE state.phase = "listing"
    BY <1>2, <1>7, <2>1, ShowingIs DEF UserCancels
  <2>2. CASE state.phase = "running"
    BY <1>1, <1>2, <1>7, <2>2, ShowingIs DEF UserCancels, Asked, Stop, Rejected
  <2> QED BY <1>7, <2>1, <2>2 DEF UserCancels
<1>8. CASE UserRequestsReport
  <2>1. UNCHANGED <<state, task>>
    BY <1>8 DEF UserRequestsReport, session
  <2>2. pending \subseteq pending'
    BY <1>1, <1>8, PostedIs, NotPostedIs DEF UserRequestsReport
  <2> QED BY <1>4, <2>1, <2>2
<1>9. ASSUME NEW l \in listings, ListingProgress(l) PROVE Asked'
  BY <1>2, <1>9, ShowingIs DEF ListingProgress
<1>10. ASSUME NEW l \in listings, ListingEnds(l) PROVE Asked'
  <2>1. CASE Analyze(l.by)
    BY <1>1, <2>1, AnalyzeIsAsked
  <2> QED BY <1>2, <1>3, <1>10, <2>1, ShowingIs DEF ListingEnds, client
<1>11. ASSUME NEW id \in working, WorkerTells(id) \/ WorkerAnswers(id) PROVE Asked'
  BY <1>3, <1>11 DEF WorkerTells, WorkerAnswers, session, client
<1>12. CASE WorkerErrs \/ UNCHANGED vars
  BY <1>3, <1>12 DEF WorkerErrs, vars, session, client
<1>13. ASSUME NEW event \in inbox, Deliver(event) PROVE Asked'
  <2>1. CASE event.kind = "error" /\ Stop("failed")
    <3>1. CASE task \in pending
      BY <1>2, <2>1, <3>1, ShowingIs DEF Stop, Rejected
    <3>2. CASE task \notin pending
      BY <1>1, <1>2, <2>1, <3>2 DEF Stop, Rejected, Asked
    <3> QED BY <3>1, <3>2
  <2>2. CASE event.id \in pending /\ Answered(event.id, event.kind)
    <3>1. CASE task = event.id
      BY <1>2, <2>2, <3>1, ShowingIs DEF Answered
    <3>2. CASE task # event.id
      BY <1>1, <1>2, <2>2, <3>2 DEF Answered, Asked, Grows
    <3> QED BY <3>1, <3>2
  <2> QED BY <1>3, <1>13, <2>1, <2>2 DEF Deliver
<1>14. ASSUME NEW n \in opening, Open(n) PROVE Asked'
  BY <1>2, <1>3, <1>14, ShowingIs DEF Open, client
<1> QED BY <1>5, <1>6, <1>7, <1>8, <1>9, <1>10, <1>11, <1>12, <1>13, <1>14 DEF Next

LEMMA ServedStep == IInv /\ [Next]_vars => Served'
<1> SUFFICES ASSUME IInv, [Next]_vars PROVE Served'
  OBVIOUS
<1>1. Numbered /\ Served
  BY DEF IInv, NoRequestIsForgotten, Served
<1>2. ASSUME NEW n, Posted(n) \/ NotPosted(n) PROVE Served'
  BY <1>1, <1>2, PostedIs, NotPostedIs DEF Served
<1>3. CASE worker' = worker /\ pending' \subseteq pending
  BY <1>1, <1>3 DEF Served
<1>4. ASSUME NEW phase, Stop(phase) PROVE Served'
  BY <1>4 DEF Stop, Rejected, Served
<1>5. CASE UserAnalyzes \/ UserRequestsReport
  BY <1>2, <1>5 DEF UserAnalyzes, UserRequestsReport, Analyze
<1>6. ASSUME NEW l \in listings, ListingProgress(l) \/ ListingEnds(l) PROVE Served'
  BY <1>2, <1>3, <1>6 DEF ListingProgress, ListingEnds, Analyze, client
<1>7. CASE UserDrops \/ UserDismisses \/ WorkerErrs \/ UNCHANGED vars
  BY <1>3, <1>7 DEF UserDrops, UserDismisses, WorkerErrs, vars, client
<1>8. CASE UserCancels
  BY <1>3, <1>4, <1>8 DEF UserCancels, client
<1>9. ASSUME NEW id \in working, WorkerTells(id) \/ WorkerAnswers(id) PROVE Served'
  BY <1>3, <1>9 DEF WorkerTells, WorkerAnswers, client
<1>10. ASSUME NEW event \in inbox, Deliver(event) PROVE Served'
  BY <1>3, <1>4, <1>10 DEF Deliver, Answered
<1>11. ASSUME NEW n \in opening, Open(n) PROVE Served'
  BY <1>3, <1>11 DEF Open, client
<1> QED BY <1>5, <1>6, <1>7, <1>8, <1>9, <1>10, <1>11 DEF Next

LEMMA AnswerableStep == IInv /\ [Next]_vars => Answerable'
<1> SUFFICES ASSUME IInv, [Next]_vars PROVE Answerable'
  OBVIOUS
<1>1. Numbered /\ Served /\ Answerable
  BY DEF IInv, NoRequestIsForgotten, Served, Answerable, Awaited
<1>2. ASSUME NEW n, Posted(n), inbox' = inbox PROVE Answerable'
  <2>1. /\ pending' = pending \cup {NextId} /\ working' = working \cup {NextId}
        /\ worker # 0 => worker' = worker
    BY <1>1, <1>2, PostedIs
  <2> QED BY <1>1, <1>2, <2>1 DEF Answerable, Awaited, Served
<1>3. ASSUME NEW n, NotPosted(n), inbox' = inbox PROVE Answerable'
  BY <1>1, <1>3, NotPostedIs DEF Answerable, Awaited
<1>4. CASE UNCHANGED <<worker, pending, working, inbox>>
  BY <1>1, <1>4 DEF Answerable, Awaited
<1>5. ASSUME NEW phase, Stop(phase) PROVE Answerable'
  BY <1>5 DEF Stop, Rejected, Answerable
<1>6. CASE UserAnalyzes \/ UserRequestsReport
  BY <1>2, <1>3, <1>6 DEF UserAnalyzes, UserRequestsReport, Analyze
<1>7. ASSUME NEW l \in listings, ListingProgress(l) \/ ListingEnds(l) PROVE Answerable'
  BY <1>2, <1>3, <1>4, <1>7 DEF ListingProgress, ListingEnds, Analyze, client, outside
<1>8. CASE UserDrops \/ UserDismisses \/ UNCHANGED vars
  BY <1>4, <1>8 DEF UserDrops, UserDismisses, vars, client, outside
<1>9. CASE UserCancels
  BY <1>4, <1>5, <1>9 DEF UserCancels, client
<1>10. ASSUME NEW id \in working, WorkerTells(id) PROVE Answerable'
  BY <1>1, <1>10 DEF WorkerTells, Send, client, Answerable, Awaited
<1>11. ASSUME NEW id \in working, WorkerAnswers(id) PROVE Answerable'
  <2>1. PICK kind \in {"done", "failed"} : inbox' = inbox \cup {[kind |-> kind, id |-> id]}
    BY <1>11 DEF WorkerAnswers, Send
  <2> DEFINE answer == [kind |-> kind, id |-> id]
  <2>2. answer \in inbox' /\ answer.kind \in {"done", "failed"} /\ answer.id = id
    BY <2>1
  <2>3. UNCHANGED <<worker, pending>> /\ working' = working \ {id} /\ inbox \subseteq inbox'
    BY <1>11, <2>1 DEF WorkerAnswers, client
  <2>4. \E event \in inbox' : event.kind \in {"done", "failed"} /\ event.id = id
    <3> HIDE DEF answer
    <3> QED BY <2>2
  <2> QED BY <1>1, <2>3, <2>4 DEF Answerable, Awaited
<1>12. CASE WorkerErrs
  <2>1. inbox' = inbox \cup {[kind |-> "error", id |-> worker]} /\ UNCHANGED <<worker, pending>>
    BY <1>12 DEF WorkerErrs, Send, client
  <2> DEFINE told == [kind |-> "error", id |-> worker]
  <2>2. told \in inbox' /\ told.kind = "error" /\ told.id = worker'
    BY <2>1
  <2>3. \E event \in inbox' : event.kind = "error" /\ event.id = worker'
    <3> HIDE DEF told
    <3> QED BY <2>2
  <2> QED BY <2>3 DEF Answerable, Awaited
<1>13. ASSUME NEW event \in inbox, Deliver(event) PROVE Answerable'
  <2>1. CASE event.kind = "error"
    BY <1>5, <1>13, <2>1 DEF Deliver
  <2>2. CASE event.kind # "error"
    <3>1. inbox' = inbox \ {event} /\ UNCHANGED <<worker, working>>
      BY <1>13, <2>2 DEF Deliver, Answered
    <3>2. /\ pending' \subseteq pending
          /\ event.kind \in {"done", "failed"} => event.id \notin pending'
      BY <1>13, <2>2 DEF Deliver, Answered
    <3>3. ASSUME NEW id \in pending' PROVE Awaited(id)'
      <4>1. Awaited(id)
        BY <1>1, <3>2 DEF Answerable
      <4> QED BY <2>2, <3>1, <3>2, <4>1 DEF Awaited
    <3> QED BY <3>3 DEF Answerable
  <2> QED BY <2>1, <2>2
<1>14. ASSUME NEW n \in opening, Open(n) PROVE Answerable'
  BY <1>4, <1>14 DEF Open, client, outside
<1> QED BY <1>6, <1>7, <1>8, <1>9, <1>10, <1>11, <1>12, <1>13, <1>14 DEF Next

LEMMA ForgottenStep == IInv /\ [Next]_vars => NoRequestIsForgotten'
BY AskedStep, ServedStep, AnswerableStep
   DEF NoRequestIsForgotten, Asked, Served, Answerable, Awaited

-----------------------------------------------------------------------------
(***************************************************************************)
(* One thing at a time: Exclusive and ShownIsWanted.                       *)
(***************************************************************************)
LEMMA TasksAreRequests ==
  ASSUME IInv
  PROVE  \A id \in pending : id # 0 /\ id \in DOMAIN by
BY NextIdIsNew DEF IInv, Numbered

(* While nothing goes on, no listing can, and what is pending is reports.  *)
LEMMA QuietIs ==
  ASSUME IInv, ~overtaken, ~Busy
  PROVE  /\ task = 0 /\ \A id \in pending : by[id] = 0
         /\ \A l \in listings : l.started # generation
<1>1. task = 0 /\ \A l \in listings : l.started # generation
  BY DEF IInv, Exclusive, Busy
<1> QED BY <1>1, TasksAreRequests DEF IInv, Exclusive

(* The listing that goes on is what is shown, and it is the only one.      *)
LEMMA CurrentIs ==
  ASSUME IInv, ~overtaken, NEW l \in listings, l.started = generation
  PROVE  /\ state.phase = "listing" /\ l.by = state.by /\ state.by = wanted
         /\ task = 0 /\ \A id \in pending : by[id] = 0
         /\ \A m \in listings \ {l} : m.started # generation
<1>1. state.phase = "listing" /\ l.by = state.by /\ task = 0
  BY DEF IInv, Exclusive
<1>2. state.by = wanted
  BY <1>1 DEF IInv, ShownIsWanted
<1>3. \A m \in listings \ {l} : m.started # generation
  BY DEF IInv, Numbered
<1> QED BY <1>1, <1>2, <1>3, TasksAreRequests DEF IInv, Exclusive

(* The request of the running analysis is the only one that is not a       *)
(* report, and no listing can go on.                                       *)
LEMMA RunningIs ==
  ASSUME IInv, ~overtaken, task # 0 \/ state.phase = "running"
  PROVE  /\ state.phase = "running" /\ task \in pending /\ by[task] = wanted
         /\ \A id \in pending : by[id] # 0 => id = task
         /\ \A l \in listings : l.started # generation
<1>1. state.phase = "running"
  BY DEF IInv, Exclusive
<1>2. task \in pending /\ by[task] = wanted
  BY <1>1 DEF IInv, NoRequestIsForgotten, ShownIsWanted
<1> QED BY <1>1, <1>2 DEF IInv, Exclusive

Only ==
  /\ task # 0 => state.phase = "running"
  /\ \A id \in pending : by[id] # 0 => id = task
  /\ \A l \in listings : l.started = generation =>
       state.phase = "listing" /\ l.by = state.by
Right ==
  /\ state.phase \in {"listing", "running", "finished"} => state.by = wanted
  /\ state.phase = "running" => progressOf \in {0, task}

(* An analysis that begins while nothing else goes on. *)
LEMMA AnalyzeIsOnly ==
  ASSUME IInv, NEW n, Analyze(n), \A id \in pending : by[id] = 0, wanted' = n,
         \A l \in listings' : l.started # generation'
  PROVE  Only' /\ Right'
<1>1. Numbered /\ \A id \in pending : id \in DOMAIN by
  BY TasksAreRequests DEF IInv
<1>2. CASE Posted(n) /\ state' = Showing("running", n) /\ task' = NextId /\ progressOf' = 0
  <2>1. pending' = pending \cup {NextId} /\ \A id \in DOMAIN by : by'[id] = by[id]
    BY <1>1, <1>2, PostedIs
  <2> QED BY <1>1, <1>2, <2>1, ShowingIs DEF Only, Right
<1>3. CASE NotPosted(n) /\ state' = Showing("failed", n) /\ task' = 0
  <2>1. pending' = pending /\ \A id \in DOMAIN by : by'[id] = by[id]
    BY <1>1, <1>3, NotPostedIs
  <2> QED BY <1>1, <1>3, <2>1, ShowingIs DEF Only, Right
<1> QED BY <1>2, <1>3 DEF Analyze

(* An effect that fails an analysis while another goes on is remembered.   *)
LEMMA OvertakenStays == [Next]_vars /\ ~overtaken' => ~overtaken
<1> USE DEF Next, vars, user
<1> QED BY DEF UserAnalyzes, UserDrops, UserCancels, UserDismisses, UserRequestsReport,
    ListingProgress, ListingEnds, WorkerTells, WorkerAnswers, WorkerErrs, Deliver, Open

LEMMA OnlyStep == IInv /\ [Next]_vars /\ ~overtaken' => Only' /\ Right'
<1> SUFFICES ASSUME IInv, [Next]_vars, ~overtaken' PROVE Only' /\ Right'
  OBVIOUS
<1>1. ~overtaken /\ Only /\ Right
  BY OvertakenStays DEF IInv, Exclusive, ShownIsWanted, Only, Right
<1>2. /\ Numbered /\ generation \in Nat
      /\ \A l \in listings : l.started \in Nat /\ l.started <= generation
      /\ \A id \in pending : id # 0 /\ id \in DOMAIN by
  BY TasksAreRequests DEF IInv, Numbered
<1>3. CASE UNCHANGED <<state, task, listings, generation, progressOf, pending, by, wanted>>
  BY <1>1, <1>3 DEF Only, Right
<1>4. ASSUME state'.phase \notin {"listing", "running", "finished"},
             task' = 0, \A id \in pending' : by'[id] = 0,
             \A l \in listings' : l.started # generation'
      PROVE  Only' /\ Right'
  BY <1>4 DEF Only, Right
<1>5. CASE UserAnalyzes
  BY <1>1, <1>5, QuietIs, AnalyzeIsOnly DEF UserAnalyzes, Start
<1>6. CASE UserDrops
  <2>1. /\ state' = Showing("listing", started') /\ wanted' = started' /\ task' = task
        /\ UNCHANGED <<pending, by>> /\ generation' = generation + 1
        /\ listings' = listings \cup {[started |-> generation', by |-> started']}
    BY <1>6 DEF UserDrops, Start, client
  <2>2. task = 0 /\ \A id \in pending : by[id] = 0
    BY <1>1, <1>6, QuietIs DEF UserDrops
  <2>3. ASSUME NEW l \in listings', l.started = generation' PROVE l.by = started'
    BY <1>2, <2>1, <2>3
  <2>4. state'.phase = "listing" /\ state'.by = started'
    BY <2>1, ShowingIs
  <2>5. /\ task' = 0 /\ \A id \in pending' : by'[id] = 0
        /\ \A l \in listings' : l.started = generation' => l.by = started'
    BY <2>1, <2>2, <2>3
  <2> QED BY <2>1, <2>4, <2>5 DEF Only, Right
<1>7. CASE UserCancels
  <2>1. UNCHANGED <<by, listings, progressOf>>
    BY <1>7 DEF UserCancels, client
  <2>2. CASE state.phase = "listing"
    <3>1. /\ generation' = generation + 1 /\ state' = Showing("cancelled", state.by)
          /\ UNCHANGED <<task, pending>>
      BY <1>7, <2>2 DEF UserCancels, client, Raised
    <3>2. task = 0 /\ \A id \in pending : by[id] = 0
      BY <1>1, <1>2, <2>2 DEF Only
    <3>3. \A l \in listings' : l.started # generation'
      BY <1>2, <2>1, <3>1
    <3> QED BY <1>4, <2>1, <3>1, <3>2, <3>3, ShowingIs
  <2>3. CASE state.phase = "running"
    <3>1. task \in pending /\ \A l \in listings : l.started # generation
      BY <1>1, <2>3, RunningIs
    <3>2. Stop("cancelled") /\ generation' = generation
      BY <1>7, <2>3, <3>1 DEF UserCancels
    <3>3. state'.phase = "cancelled" /\ task' = 0 /\ pending' = {}
      BY <3>1, <3>2, ShowingIs DEF Stop, Rejected
    <3> QED BY <1>4, <2>1, <3>1, <3>2, <3>3
  <2> QED BY <1>7, <2>2, <2>3 DEF UserCancels
<1>8. CASE UserDismisses
  <2>1. /\ state'.phase = "idle"
        /\ UNCHANGED <<task, pending, by, listings, generation>>
    BY <1>8, ShowingIs DEF UserDismisses, client
  <2> QED BY <1>1, <1>4, <1>8, <2>1, QuietIs DEF UserDismisses
<1>9. CASE UserRequestsReport
  <2>1. UNCHANGED <<state, task, listings, generation, progressOf, wanted>>
    BY <1>9 DEF UserRequestsReport, session, user
  <2>2. \A id \in pending' : by'[id] # 0 => id \in pending /\ by'[id] = by[id]
    BY <1>2, <1>9, PostedIs, NotPostedIs DEF UserRequestsReport
  <2> QED BY <1>1, <2>1, <2>2 DEF Only, Right
<1>10. ASSUME NEW l \in listings, ListingProgress(l) PROVE Only' /\ Right'
  <2>1. /\ state'.phase = "listing" /\ state'.by = l.by
        /\ UNCHANGED <<task, pending, by, listings, generation, wanted>>
    BY <1>10, ShowingIs DEF ListingProgress, client, user
  <2>2. state.phase = "listing" /\ l.by = state.by /\ state.by = wanted
    BY <1>1, <1>10, CurrentIs DEF ListingProgress
  <2> QED BY <1>1, <2>1, <2>2 DEF Only, Right
<1>11. ASSUME NEW l \in listings, ListingEnds(l) PROVE Only' /\ Right'
  <2>1. listings' = listings \ {l} /\ UNCHANGED <<generation, wanted>>
    BY <1>11 DEF ListingEnds, user
  <2>2. CASE l.started # generation /\ UNCHANGED <<state, task, progressOf, pending, by>>
    BY <1>1, <2>1, <2>2 DEF Only, Right
  <2>3. CASE l.started = generation /\ Analyze(l.by)
    <3>1. /\ \A id \in pending : by[id] = 0
          /\ wanted' = l.by
          /\ \A m \in listings' : m.started # generation'
      BY <1>1, <2>1, <2>3, CurrentIs
    <3> QED BY <2>3, <3>1, AnalyzeIsOnly
  <2>4. CASE /\ l.started = generation /\ state' = Showing("failed", l.by)
             /\ UNCHANGED <<task, pending, by>>
    BY <1>1, <1>4, <2>1, <2>4, CurrentIs, ShowingIs
  <2> QED BY <1>11, <2>2, <2>3, <2>4 DEF ListingEnds, client
<1>12. ASSUME NEW id \in working, WorkerTells(id) \/ WorkerAnswers(id) PROVE Only' /\ Right'
  BY <1>3, <1>12 DEF WorkerTells, WorkerAnswers, session, client, user
<1>13. CASE WorkerErrs \/ UNCHANGED vars
  BY <1>3, <1>13 DEF WorkerErrs, vars, session, client, user
<1>14. ASSUME NEW event \in inbox, Deliver(event) PROVE Only' /\ Right'
  <2>1. UNCHANGED <<generation, listings, by, wanted>>
    BY <1>14 DEF Deliver, user
  <2>2. CASE Stop("failed") /\ UNCHANGED progressOf
    <3>1. CASE task \in pending
      <4>1. \A l \in listings : l.started # generation
        BY <1>1, <1>2, <3>1, RunningIs
      <4> QED BY <1>4, <2>1, <2>2, <3>1, <4>1, ShowingIs DEF Stop, Rejected
    <3>2. CASE task \notin pending
      BY <1>1, <2>1, <2>2, <3>2 DEF Stop, Rejected, Only, Right
    <3> QED BY <3>1, <3>2
  <2>3. CASE event.id \in pending /\ Answered(event.id, event.kind)
    <3>1. pending' = pending \ {event.id} /\ progressOf' = progressOf
      BY <2>3 DEF Answered
    <3>2. CASE task = event.id
      <4>1. /\ by[task] = wanted /\ \A id \in pending : by[id] # 0 => id = task
            /\ \A l \in listings : l.started # generation
        BY <1>1, <1>2, <2>3, <3>2, RunningIs
      <4>2. /\ task' = 0 /\ state'.phase \in {"finished", "failed"}
            /\ state'.by = by[task]
        BY <2>3, <3>2, ShowingIs DEF Answered
      <4> QED BY <2>1, <3>1, <3>2, <4>1, <4>2 DEF Only, Right
    <3>3. CASE task # event.id
      BY <1>1, <2>1, <2>3, <3>1, <3>3 DEF Answered, Only, Right
    <3> QED BY <3>2, <3>3
  <2>4. CASE /\ event.id \in pending /\ UNCHANGED <<state, task, pending>>
             /\ progressOf' = IF state.phase = "running" /\ by[event.id] # 0
                              THEN event.id ELSE progressOf
    <3>1. state.phase = "running" /\ by[event.id] # 0 => event.id = task
      BY <1>1, <2>4 DEF Only
    <3> QED BY <1>1, <2>1, <2>4, <3>1 DEF Only, Right
  <2> QED BY <1>3, <1>14, <2>1, <2>2, <2>3, <2>4 DEF Deliver
<1>15. ASSUME NEW n \in opening, Open(n) PROVE Only' /\ Right'
  <2>1. UNCHANGED <<task, generation, listings, progressOf, pending, by, wanted>>
    BY <1>15 DEF Open, client
  <2>2. CASE Busy /\ state' = state
    BY <1>3, <2>1, <2>2
  <2>3. CASE ~Busy /\ state'.phase \in {"idle", "failed"}
    BY <1>1, <1>4, <2>1, <2>3, QuietIs
  <2>4. (Busy /\ state' = state) \/ (~Busy /\ state'.phase \in {"idle", "failed"})
    <3>1. CASE /\ state' = Showing("failed", n)
               /\ overtaken' = (overtaken \/ Busy)
      <4>1. ~Busy
        BY <1>1, <3>1
      <4> QED BY <3>1, <4>1, ShowingIs
    <3>2. CASE state' = IF Busy THEN state ELSE Showing("idle", 0)
      BY <3>2, ShowingIs
    <3> QED BY <1>15, <3>1, <3>2 DEF Open
  <2> QED BY <2>2, <2>3, <2>4
<1> QED BY <1>5, <1>6, <1>7, <1>8, <1>9, <1>10, <1>11, <1>12, <1>13, <1>14, <1>15 DEF Next

-----------------------------------------------------------------------------
LEMMA InitEstablishes == Init => IInv
<1> SUFFICES ASSUME Init PROVE IInv
  OBVIOUS
<1>1. DOMAIN by = 1..0 /\ pending = {} /\ workers = 0 /\ generation = 0 /\ listings = {}
  BY DEF Init
<1>2. Numbered
  BY <1>1 DEF Numbered
<1>3. state.phase = "idle" /\ task = 0
  BY ShowingIs DEF Init
<1> QED BY <1>1, <1>2, <1>3 DEF IInv, NoRequestIsForgotten, Exclusive, ShownIsWanted

LEMMA Invariance == Spec => []IInv
<1>1. IInv /\ [Next]_vars => IInv'
  BY NumberedStep, ForgottenStep, OnlyStep DEF IInv, Exclusive, ShownIsWanted, Only, Right
<1> QED BY InitEstablishes, <1>1, PTL DEF Spec

(***************************************************************************)
(* An analysis that is shown as running has its request pending, and of    *)
(* every pending request the answer or an error of its worker can still    *)
(* come: the answers and the stops of engine/client.ts and session.ts      *)
(* leave none behind, however the messages of old and new workers cross.   *)
(***************************************************************************)
THEOREM NothingIsLeftRunning == Spec => []NoRequestIsForgotten
BY Invariance, PTL DEF IInv

(***************************************************************************)
(* What the page shows is what the user started last and did not cancel,   *)
(* unless an effect of BrowserAnalysisOpener ran late and failed another   *)
(* analysis than its own: session.ts compares the request and the          *)
(* generation before it lets a late answer or listing change anything.     *)
(***************************************************************************)
THEOREM OnlyTheLastIsShown == Spec => []ShownIsWanted
BY Invariance, PTL DEF IInv
=============================================================================
