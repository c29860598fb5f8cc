------------------------------- MODULE Pages -------------------------------
(***************************************************************************)
(* The pages of the web application side by side: the form that starts     *)
(* jobs of the server, the files a browser keeps to be opened again, and   *)
(* the list of what is stored. They share no state.                        *)
(***************************************************************************)

CONSTANTS
  MaxJobs, MaxMounts,          \* ScanForm: submissions, and visits of the page
  Tab, Ids, Limit, MaxOpens,   \* Recent: calls by tab, files, MAX_ENTRIES, openings
  Of, Slots, MaxCalls          \* StoredList: repository of each scan, calls at a time, calls

VARIABLES
  jobs, stopping, form, chain, timer, page, opened, loose, taken,
  listed, texts, setting, remember, call, clock, torn, wanted,
  library, mounted, shelf, expanded, scans, deleting, error, open, queries, used,
  gone, crossed, behind, doubtful

Form  == INSTANCE ScanForm
Kept  == INSTANCE Recent
Stock == INSTANCE StoredList WITH kept <- library, listed <- shelf, call <- queries

-----------------------------------------------------------------------------
(* lib/recent.ts: texts and their listing go together, the limit is kept   *)
(* when nothing is under way, and the file opened last is still there.     *)
(* views/Home.tsx: a job that is shown as running is watched or an error   *)
(* says why not; and what is listed, opened and deleted is what was asked  *)
(* for, whatever the order in which answers arrive and however often the   *)
(* page is left and visited again.                                         *)
RecentIsKept == Kept!RecentIsKept /\ Form!FormIsHonest /\ Stock!ListIsTrue
=============================================================================
