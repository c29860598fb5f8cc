----------------------------- MODULE Catalogue -----------------------------
(***************************************************************************)
(* What the index of the store promises to those who list it: a set of     *)
(* scans, each of one repository, and for every repository with a scan the *)
(* times of its earliest and latest one. Each change is a single step and  *)
(* the description is that of the scans listed, however it is kept up. A   *)
(* scan has one place: putting it on the shelf takes it from where it was, *)
(* and leaves the description of its former repository out of date, too    *)
(* wide at most, until a scan of that repository is taken away by name.    *)
(***************************************************************************)
EXTENDS Naturals

CONSTANTS
  Repos,  \* repositories
  Scans,  \* scans
  At      \* when each scan was made

VARIABLES
  shelf,  \* <<r, s>>: scan s of repository r is listed
  known,  \* the repositories listed
  from,   \* time of the earliest scan of each listed repository
  until,  \* time of the latest scan of each listed repository
  outdated \* repositories that lost a scan to an operation on another

catalogueVars == <<shelf, known, from, until, outdated>>

Described ==
  /\ outdated \subseteq known
  /\ \A e \in shelf : /\ e[1] \in known
                      /\ from[e[1]] <= At[e[2]] /\ At[e[2]] <= until[e[1]]
  /\ \A r \in known \ outdated : \E d, e \in shelf :
       /\ d[1] = r /\ from[r] = At[d[2]]
       /\ e[1] = r /\ until[r] = At[e[2]]

Without(s) == {e \in shelf : e[2] # s}
Strangers(r, s) == {e[1] : e \in {f \in shelf : f[2] = s /\ f[1] # r}}

Put(r, s) ==
  /\ shelf' = Without(s) \cup {<<r, s>>}
  /\ outdated' = outdated \cup Strangers(r, s)
Take(r, s) ==
  /\ shelf' = Without(s)
  /\ outdated' = (outdated \ {r}) \cup Strangers(r, s)
TakeAll(r) ==
  /\ shelf' = {e \in shelf : e[1] # r}
  /\ outdated' = outdated \ {r}
Clear == shelf' = {} /\ outdated' = {}

CatalogueInit == shelf = {} /\ outdated = {} /\ Described

CatalogueNext ==
  /\ \/ \E r \in Repos, s \in Scans : Put(r, s) \/ Take(r, s)
     \/ \E r \in Repos : TakeAll(r)
     \/ Clear
  /\ Described'

CatalogueSpec == CatalogueInit /\ [][CatalogueNext]_catalogueVars
=============================================================================
