------------------------------- MODULE Recent -------------------------------
(***************************************************************************)
(* The analysis files the browser keeps to be opened again: lib/recent.ts  *)
(* over IndexedDB, driven by the tabs of the web application (state.tsx).  *)
(* Each transaction is one step; between those of one call the other calls *)
(* go on, of the same tab or of another; a transaction may fail, and a tab *)
(* may be closed or loaded anew at any time.                               *)
(***************************************************************************)
EXTENDS Naturals, FiniteSets

CONSTANTS
  Tab,        \* the calls that can be under way, each with its tab
  Ids,        \* analysis ids
  Limit,      \* RECENT_LIMIT
  MaxOpens    \* bound of the model: files opened in all tabs

Calls == DOMAIN Tab
Tabs == {Tab[c] : c \in Calls}

VARIABLES
  listed,    \* the entries stored: when each was last opened, or 0
  texts,      \* ids whose text is stored
  setting,    \* the choice whether to remember, in the browser's storage
  remember,   \* the choice as each tab knows it
  call,       \* what each call is doing
  clock,
  torn,        \* history: TRUE from an add that did not end to the next that put
  wanted      \* history: the id opened last, if no other add overlapped, it was
              \* stored and is not removed since; or "none"

stored == <<listed, texts>>
choice == <<setting, remember>>
history == <<torn, wanted>>
vars == <<stored, choice, call, clock, history>>

Idle == [at |-> "idle"]
Stored == {i \in Ids : listed[i] # 0}
Adding(c) == call[c].at \in {"put", "list", "compare", "trim"}

Init ==
  /\ listed = [i \in Ids |-> 0] /\ texts = {}
  /\ setting = TRUE /\ remember = [t \in Tabs |-> TRUE]
  /\ call = [c \in Calls |-> Idle]
  /\ clock = 0 /\ torn = FALSE /\ wanted = "none"

Goto(c, state) == call' = [call EXCEPT ![c] = state]

(* open: the entry is made at once, with the choice of the render it was   *)
(* called from; a file that is too large or not to be kept goes no further. *)
Opens(c, id, keep) ==
  /\ clock < MaxOpens
  /\ clock' = clock + 1
  /\ Goto(c, IF keep THEN [at |-> "put", id |-> id, time |-> clock + 1] ELSE Idle)
  /\ wanted' = IF ~keep THEN wanted
               ELSE IF \E d \in Calls \ {c} : Adding(d) THEN "none" ELSE id

OpenFile(c, id, large) ==
  /\ call[c] = Idle
  /\ Opens(c, id, remember[Tab[c]] /\ ~large)
  /\ UNCHANGED <<stored, choice, torn>>

Begin(c, state) ==
  /\ call[c] = Idle
  /\ Goto(c, state)
  /\ UNCHANGED <<stored, clock, history>>

OpenRecent(c, id) ==
  Begin(c, [at |-> "read", id |-> id, keep |-> remember[Tab[c]]]) /\ UNCHANGED choice
Forget(c, id) == Begin(c, [at |-> "remove", ids |-> {id}]) /\ UNCHANGED choice
ForgetAll(c) == Begin(c, [at |-> "clear"]) /\ UNCHANGED choice

SetRemember(c, on) ==
  /\ Begin(c, IF on THEN Idle ELSE [at |-> "clear"])
  /\ setting' = on
  /\ remember' = [remember EXCEPT ![Tab[c]] = on]

-----------------------------------------------------------------------------
(* What openRecent does with the text, or without. *)
Read(c) ==
  /\ call[c].at = "read"
  /\ \/ call[c].id \in texts /\ Opens(c, call[c].id, call[c].keep)
     \/ /\ call[c].id \notin texts
        /\ Goto(c, [at |-> "remove", ids |-> {call[c].id}])
        /\ UNCHANGED <<clock, wanted>>
  /\ UNCHANGED <<stored, choice, torn>>

(* The transactions. *)
Newest_Oldest(times) ==
  {i \in Stored : Cardinality({j \in Stored : times[j] < times[i]}) < Limit}
Newest(times) ==
  {i \in Stored : Cardinality({j \in Stored : times[j] > times[i]}) < Limit}

Delete(ids) ==
  /\ listed' = [i \in Ids |-> IF i \in ids THEN 0 ELSE listed[i]]
  /\ texts' = texts \ ids

Put(c) ==
  /\ call[c].at = "put"
  /\ listed' = [listed EXCEPT ![call[c].id] = call[c].time]
  /\ texts' = texts \cup {call[c].id}
  /\ Goto(c, [at |-> "list"])
  /\ torn' = FALSE
  /\ UNCHANGED <<choice, clock, wanted>>

List(c) ==
  /\ call[c].at = "list"
  /\ Goto(c, [at |-> "compare", keep |-> Newest(listed)])
  /\ UNCHANGED <<stored, choice, clock, history>>

Compare(c) ==
  /\ call[c].at = "compare"
  /\ LET old == Stored \ call[c].keep IN
     Goto(c, IF old = {} THEN Idle ELSE [at |-> "trim", ids |-> old])
  /\ UNCHANGED <<stored, choice, clock, history>>

Remove(c) ==
  /\ call[c].at \in {"trim", "remove", "clear"}
  /\ Delete(IF call[c].at = "clear" THEN Ids ELSE call[c].ids)
  /\ Goto(c, Idle)
  /\ wanted' = IF call[c].at = "clear" \/ (call[c].at = "remove" /\ wanted \in call[c].ids)
               THEN "none" ELSE wanted
  /\ UNCHANGED <<choice, clock, torn>>

(* The calls cs end where they are. *)
CutOff(cs) ==
  /\ call' = [c \in Calls |-> IF c \in cs THEN Idle ELSE call[c]]
  /\ torn' = (torn \/ \E c \in cs : Adding(c))
  /\ wanted' = IF \E c \in cs : call[c].at = "put" THEN "none" ELSE wanted
  /\ UNCHANGED <<stored, clock>>

Fail(c) == call[c] # Idle /\ CutOff({c}) /\ UNCHANGED choice

LoadTab(t) ==
  /\ CutOff({c \in Calls : Tab[c] = t})
  /\ remember' = [remember EXCEPT ![t] = setting]
  /\ UNCHANGED setting

Next ==
  \/ \E c \in Calls, id \in Ids :
       OpenRecent(c, id) \/ Forget(c, id) \/ \E large \in BOOLEAN : OpenFile(c, id, large)
  \/ \E c \in Calls :
       ForgetAll(c) \/ Read(c) \/ Put(c) \/ List(c) \/ Compare(c) \/ Remove(c) \/ Fail(c)
  \/ \E c \in Calls, on \in BOOLEAN : SetRemember(c, on)
  \/ \E t \in Tabs : LoadTab(t)

Spec == Init /\ [][Next]_vars

-----------------------------------------------------------------------------
(* No text is kept that is not listed, and none is listed without its text, *)
(* whatever the tabs do at the same time. When nothing is under way no more *)
(* than the limit is kept, unless an add was cut off, and  then only until   *)
(* the next; and the one opened last is among them unless adds overlapped.  *)
RecentIsKept ==
  /\ texts = Stored
  /\ (\A c \in Calls : call[c] = Idle) =>
       /\ ~torn => Cardinality(Stored) <= Limit
       /\ wanted # "none" => wanted \in Stored
=============================================================================
