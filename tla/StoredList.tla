----------------------------- MODULE StoredList -----------------------------
(***************************************************************************)
(* The stored analyses that views/Home.tsx lists, opens and deletes, with  *)
(* the library of the server that answers (server/library.rs). A call is   *)
(* answered at some moment and its answer arrives at a later one; calls do *)
(* not wait for each other. The page is left when an analysis is opened or *)
(* the user goes elsewhere: what it shows is dropped, its calls go on      *)
(* without it, and a later visit starts afresh, with its buttons enabled   *)
(* even while the former one's deletion is under way.                      *)
(***************************************************************************)
EXTENDS Naturals

CONSTANTS
  Of,       \* scan -> its repository
  Slots,    \* bound of the model: calls at the same time
  MaxCalls  \* bound of the model: calls, and changes made elsewhere

Scans == DOMAIN Of
Repositories == {Of[s] : s \in Scans}
None == "none"  \* no repository
All == 0        \* no single scan

VARIABLES
  kept,       \* the scans the server has
  mounted,    \* whether the page is shown
  listed,     \* the repositories listed, or <<>> while they are loaded
  expanded,   \* the repository whose scans are shown, or None
  scans,      \* the scans shown, or <<>> while they are loaded
  deleting, error,
  open,       \* the stored analysis that is open: <<repository, scan>>, or <<>>
  call,       \* what each call is doing
  used,
  gone,       \* history: scans deleted here, with the repository that was named
  crossed,    \* history: in this visit, a history was asked for while another
              \* was on its way
  behind,     \* history: this visit began while an earlier one's deletion was
              \* under way, or someone else stored or deleted a scan during it,
              \* or an answer after a deletion was lost
  doubtful    \* history: what is open overlapped a deletion when it was opened,
              \* or someone else's, or the answer to its deletion was lost

display == <<listed, expanded, scans, deleting, error>>
vars == <<kept, mounted, display, open, call, used, gone, crossed, behind, doubtful>>

(* A call that is asked for, of a repository and perhaps of one scan of it, *)
(* by the page that is shown (`here`). `open` is what was open then;        *)
(* `doubt` is history: a deletion began before the answer was, or between   *)
(* the answer and its arrival.                                              *)
Asked(kind, r, s) ==
  [at |-> "asked", kind |-> kind, repository |-> r, scan |-> s, here |-> TRUE,
   open |-> <<>>, value |-> {}, doubt |-> FALSE]
Idle == [Asked("none", None, All) EXCEPT !.at = "idle", !.here = FALSE]
Here(kind) == {c \in Slots : call[c].here /\ call[c].kind = kind}
Answered(c, kind) == call[c].at = "answered" /\ call[c].kind = kind
Removing == {c \in Slots : call[c].kind = "remove" /\ call[c].at = "asked"}

Init ==
  /\ kept \in SUBSET Scans
  /\ mounted = TRUE
  /\ listed = <<>> /\ expanded = None /\ scans = <<>> /\ deleting = FALSE /\ error = FALSE
  /\ open = <<>> /\ used = 0
  /\ call \in {[c \in Slots |-> IF c = first THEN Asked("list", None, All) ELSE Idle] :
                 first \in Slots}
  /\ gone = {} /\ crossed = FALSE /\ behind = FALSE /\ doubtful = FALSE

Goto(c, state) == call' = [call EXCEPT ![c] = state]
Spend == used < MaxCalls /\ used' = used + 1
Begin(c, state) ==
  /\ call[c] = Idle /\ Spend
  /\ Goto(c, state)
  /\ UNCHANGED <<kept, open, gone, doubtful>>

(* The state of a page that is no longer shown is not set.                 *)
SetState(c, old, new) == IF call[c].here THEN new ELSE old

Listed == IF listed = <<>> THEN {} ELSE listed[1]
Hide == expanded' = None /\ scans' = <<>>

-----------------------------------------------------------------------------
(* Visits of the page. *)
Away ==
  /\ mounted' = FALSE
  /\ listed' = <<>> /\ Hide /\ deleting' = FALSE /\ error' = FALSE
  /\ crossed' = FALSE /\ behind' = FALSE
Stray == [c \in Slots |-> [call[c] EXCEPT !.here = FALSE]]

(* To another view, or because a file is opened, or the demo.              *)
Leave ==
  /\ mounted
  /\ Away /\ call' = Stray
  /\ \/ UNCHANGED <<open, doubtful>>
     \/ open' = <<>> /\ doubtful' = FALSE
  /\ UNCHANGED <<kept, used, gone>>
(* The command palette closes what is open, wherever the user is.          *)
Close ==
  /\ open # <<>>
  /\ open' = <<>> /\ doubtful' = FALSE
  /\ UNCHANGED <<kept, mounted, display, call, used, gone, crossed, behind>>

Return(c) ==
  /\ ~mounted /\ mounted' = TRUE
  /\ Begin(c, Asked("list", None, All))
  /\ behind' = (Removing # {})
  /\ UNCHANGED <<display, crossed>>

-----------------------------------------------------------------------------
(* What the user asks for. *)
HideHistory ==
  /\ ~deleting /\ expanded # None
  /\ Hide /\ error' = FALSE
  /\ UNCHANGED <<kept, mounted, listed, deleting, open, call, used,
                 gone, crossed, behind, doubtful>>
ShowHistory(c, r) ==
  /\ ~deleting /\ r \in Listed \ {expanded}
  /\ Begin(c, Asked("history", r, All))
  /\ expanded' = r /\ scans' = <<>> /\ error' = FALSE
  /\ crossed' = (crossed \/ Here("history") # {})
  /\ UNCHANGED <<mounted, listed, deleting, behind>>
OpenRepository(c, r) ==
  /\ ~deleting /\ r \in Listed
  /\ Begin(c, Asked("open", r, All))
  /\ UNCHANGED <<mounted, display, crossed, behind>>

(* A job of the form has ended, whether or not the page is still shown     *)
(* (ScanForm); an error is told beside the form.                           *)
OpenScan(c, s) ==
  /\ Begin(c, [Asked("open", Of[s], s) EXCEPT !.here = FALSE])
  /\ UNCHANGED <<mounted, display, crossed, behind>>

Doubted(r) ==
  [c \in Slots |-> [call[c] EXCEPT !.doubt = @ \/ (Answered(c, "open") /\ call[c].repository = r)]]

(* After the user has confirmed: what is open then is what is compared     *)
(* after the call.                                                         *)
Remove(c, r, s) ==
  /\ ~deleting /\ r \in Listed
  /\ IF s = All THEN TRUE ELSE r = expanded /\ scans # <<>> /\ s \in scans[1]
  /\ call[c] = Idle /\ Spend
  /\ call' = [Doubted(r) EXCEPT ![c] = [Asked("remove", r, s) EXCEPT !.open = open]]
  /\ deleting' = TRUE /\ error' = FALSE
  /\ UNCHANGED <<kept, mounted, listed, expanded, scans, open,
                 gone, crossed, behind, doubtful>>

-----------------------------------------------------------------------------
(* The server answers. *)
ScansOf(r) == {s \in kept : Of[s] = r}
Matching(r, s) == IF s = All THEN ScansOf(r) ELSE {s} \cap ScansOf(r)

Reply(c) ==
  CASE call[c].kind \in {"list", "relist"} -> {Of[s] : s \in kept}
    [] call[c].kind \in {"history", "rehistory"} -> ScansOf(call[c].repository)
    [] call[c].kind \in {"open", "remove"} -> Matching(call[c].repository, call[c].scan)

Answer(c) ==
  /\ call[c].at = "asked"
  /\ Goto(c, [call[c] EXCEPT
       !.at = "answered", !.value = Reply(c),
       !.doubt = call[c].kind = "open" /\
                 \E d \in Removing : call[d].repository = call[c].repository])
  /\ LET removed == IF call[c].kind = "remove" THEN Reply(c) ELSE {} IN
     /\ kept' = kept \ removed
     /\ gone' = gone \cup {<<s, call[c].repository>> : s \in removed}
  /\ UNCHANGED <<mounted, display, open, used, crossed, behind, doubtful>>

(* A call fails: when nothing matches, or because the answer is lost.      *)
Failed(c) ==
  /\ call[c] # Idle
  /\ Goto(c, Idle)
  /\ error' = SetState(c, error, TRUE)
  /\ deleting' = (deleting /\ ~(call[c].here /\ call[c].kind \in {"remove", "relist", "rehistory"}))
  /\ LET removed == Answered(c, "remove") /\ call[c].value # {} IN
     /\ behind' = (behind \/ (call[c].here /\
                    (removed \/ call[c].kind \in {"relist", "rehistory"})))
     /\ doubtful' = (doubtful \/ (removed /\ open # <<>>))
  /\ UNCHANGED <<kept, mounted, listed, expanded, scans, open, used, gone, crossed>>

ListArrives(c) ==
  /\ Answered(c, "list")
  /\ listed' = SetState(c, listed, <<call[c].value>>) /\ Goto(c, Idle)
  /\ UNCHANGED <<kept, mounted, expanded, scans, deleting, error, open, used,
                 gone, crossed, behind, doubtful>>
HistoryArrives(c) ==
  /\ Answered(c, "history") /\ call[c].value # {}
  /\ scans' = SetState(c, scans, <<call[c].value>>) /\ Goto(c, Idle)
  /\ UNCHANGED <<kept, mounted, listed, expanded, deleting, error, open, used,
                 gone, crossed, behind, doubtful>>

(* An analysis is opened, and shown on a page of its own.                  *)
AnalysisArrives(c) ==
  /\ Answered(c, "open")
  /\ \E s \in call[c].value : open' = <<call[c].repository, s>>
  /\ doubtful' = call[c].doubt
  /\ Away /\ call' = [Stray EXCEPT ![c] = Idle]
  /\ UNCHANGED <<kept, used, gone>>

(* Something was deleted: an open analysis of the repository is closed, and *)
(* then everything is listed again.                                        *)
Removed(c) ==
  /\ Answered(c, "remove") /\ call[c].value # {}
  /\ LET was == call[c] IN
     /\ IF was.open # <<>> /\ was.open[1] = was.repository
        THEN open' = <<>> /\ doubtful' = FALSE
        ELSE UNCHANGED <<open, doubtful>>
     /\ IF was.here /\ was.scan = All THEN Hide ELSE UNCHANGED <<expanded, scans>>
     /\ Goto(c, [Asked("relist", was.repository, was.scan) EXCEPT !.here = was.here])
  /\ UNCHANGED <<kept, mounted, listed, deleting, error, used, gone, crossed, behind>>
Relisted(c) ==
  /\ Answered(c, "relist")
  /\ listed' = SetState(c, listed, <<call[c].value>>)
  /\ IF call[c].scan # All /\ call[c].repository \in call[c].value
     THEN /\ Goto(c, [Asked("rehistory", call[c].repository, All) EXCEPT !.here = call[c].here])
          /\ UNCHANGED <<expanded, scans, deleting>>
     ELSE /\ IF call[c].here /\ call[c].scan # All THEN Hide ELSE UNCHANGED <<expanded, scans>>
          /\ Goto(c, Idle) /\ deleting' = SetState(c, deleting, FALSE)
  /\ UNCHANGED <<kept, mounted, error, open, used, gone, crossed, behind, doubtful>>
HistoryAgain(c) ==
  /\ Answered(c, "rehistory") /\ call[c].value # {}
  /\ scans' = SetState(c, scans, <<call[c].value>>)
  /\ deleting' = SetState(c, deleting, FALSE) /\ Goto(c, Idle)
  /\ UNCHANGED <<kept, mounted, listed, expanded, error, open, used,
                 gone, crossed, behind, doubtful>>

(* Another tab or the command line stores or deletes a scan.               *)
Elsewhere(s) ==
  /\ Spend
  /\ kept' = IF s \in kept THEN kept \ {s} ELSE kept \cup {s}
  /\ call' = Doubted(Of[s])
  /\ behind' = mounted
  /\ doubtful' = (doubtful \/ (open # <<>> /\ open[1] = Of[s]))
  /\ UNCHANGED <<mounted, display, open, gone, crossed>>

Next ==
  \/ \E c \in Slots, r \in Repositories :
       ShowHistory(c, r) \/ OpenRepository(c, r) \/ \E s \in Scans \cup {All} : Remove(c, r, s)
  \/ \E c \in Slots :
       \/ Answer(c) \/ Failed(c) \/ ListArrives(c) \/ HistoryArrives(c) \/ AnalysisArrives(c)
       \/ Removed(c) \/ Relisted(c) \/ HistoryAgain(c) \/ Return(c)
  \/ \E s \in Scans : Elsewhere(s) \/ \E c \in Slots : OpenScan(c, s)
  \/ HideHistory \/ Leave \/ Close

Spec == Init /\ [][Next]_vars

-----------------------------------------------------------------------------
(* No scan of another repository is deleted than of the one that was       *)
(* named, even if scans are shown under the wrong one, which only happens  *)
(* after histories were asked for one before the other had come. What is   *)
(* open has not been deleted here, unless it was opened across a deletion  *)
(* or its deletion is about to be told. And what the page lists is what is *)
(* stored, however often it was left and visited again, unless a deletion  *)
(* of an earlier visit was under way when this one began.                  *)
ListIsTrue ==
  /\ \A g \in gone : Of[g[1]] = g[2]
  /\ expanded # None /\ scans # <<>> /\ ~crossed => \A s \in scans[1] : Of[s] = expanded
  /\ open # <<>> /\ ~doubtful =>
       open[2] \in kept \/ \E c \in Slots : Answered(c, "remove") /\ open[2] \in call[c].value
  /\ ~deleting /\ ~behind /\ listed # <<>> =>
       /\ listed[1] = {Of[s] : s \in kept}
       /\ expanded # None /\ scans # <<>> /\ ~crossed => scans[1] = ScansOf(expanded)
=============================================================================
