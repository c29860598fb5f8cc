----------------------------- MODULE MCPipeline -----------------------------
(* An analysis with every profile, everything switched on or at most one     *)
(* switch off; and four machines beside it that share nothing with it: the   *)
(* walk of a repository, and of the web application the files it keeps to be *)
(* opened again, the form that starts jobs, and the list of what is stored.  *)
EXTENDS Pipeline, Walk, Pages

VARIABLE machine  \* which one runs

kept == <<listed, texts, setting, remember, call, clock, torn, wanted>>
started == <<jobs, stopping, form, chain, timer, page, opened, loose, taken>>
stock == <<library, mounted, shelf, expanded, scans, deleting, error, open, queries, used, gone,
           crossed, behind, doubtful>>

ThreeScans == <<"a", "a", "b">>
TwoTabs == <<1, 2>>

(* Of the three switches that together turn project detection off, one.      *)
Turned == Switches \ {"build", "docs"}
UpToOneOff ==
  Profiles \X {on \in SUBSET Turned : Cardinality(Turned \ on) <= 1}

AtRest ==
  /\ stages = EffectiveStages("quick", Turned)
  /\ request = [kind |-> "directory", code |-> TRUE, commits |-> TRUE, extensions |-> 0,
                build |-> FALSE, test |-> FALSE]
  /\ Init
AllFiles == entries = [p \in Paths |-> "file"] /\ WalkInit

NothingStored == Stock!Init /\ library = {} /\ queries[2] = Stock!Idle

MachinesInit ==
  /\ \/ machine = "pipeline" /\ Init /\ AllFiles /\ NothingStored
     \/ machine = "walk" /\ AtRest /\ WalkInit /\ NothingStored
     \/ machine \in {"recent", "form"} /\ AtRest /\ AllFiles /\ NothingStored
     \/ machine = "stock" /\ AtRest /\ AllFiles /\ Stock!Init
  /\ Kept!Init /\ Form!Init

MachinesNext ==
  /\ UNCHANGED machine
  /\ \/ machine = "pipeline" /\ Next /\ UNCHANGED <<walkVars, kept, started, stock>>
     \/ machine = "walk" /\ WalkNext /\ UNCHANGED <<vars, kept, started, stock>>
     \/ machine = "recent" /\ Kept!Next /\ UNCHANGED <<vars, walkVars, started, stock>>
     \/ machine = "form" /\ Form!Next /\ UNCHANGED <<vars, walkVars, kept, stock>>
     \/ machine = "stock" /\ Stock!Next /\ UNCHANGED <<vars, walkVars, kept, started>>

=============================================================================
