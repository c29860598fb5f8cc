----------------------------- MODULE CacheProof -----------------------------
(***************************************************************************)
(* Proofs about Cache for any number of analyses, keys and sizes, and for  *)
(* any limit, with failures, cancellations and clearing at any moment.     *)
(***************************************************************************)
EXTENDS Cache, FiniteSetTheorems, WellFoundedInduction, TLAPS

(* An analysis that has still to measure, and one whose eviction is enough *)
(* for what is in the cache now, whatever was measured when it was planned.*)
Unmeasured(p) == pc[p] \in {"files", "put", "touch", "measure"}
Suffices(p) == pc[p] \in Evicting /\ Bytes(cached) <= Limit + excess[p]

(* What an analysis has selected from the current database is what its     *)
(* eviction calls for, and what it has measured of it is the excess.       *)
Planned ==
  \A p \in Procs :
    /\ p \in fresh /\ pc[p] = "delete" => victims[p] = Victims(excess[p])
    /\ p \in measured /\ pc[p] \in Evicting => Limit + excess[p] = Bytes(cached)

(* What an analysis was the last to read or write carries a stamp of its   *)
(* time, unless it has read it and not yet stamped it.                     *)
Stamps ==
  \A p \in Procs :
    /\ pc[p] \in {"put", "touch"} => began[p] <= stamp[p]
    /\ pc[p] \in {"measure"} \cup Evicting => touched[p] = {}
    /\ \A k \in (mine[p] \ touched[p]) \cap cached : began[p] <= used[k]
    /\ Idle(p) => mine[p] = {}

Owed ==
  Bytes(cached) > Limit => unpaid \/ \E p \in Procs : Unmeasured(p) \/ Suffices(p)

IInv == TypeOK /\ Planned /\ Stamps /\ Owed

-----------------------------------------------------------------------------
(***************************************************************************)
(* Bytes measures finite sets of keys.                                     *)
(***************************************************************************)
LEMMA ContentFinite ==
  ASSUME NEW S \in SUBSET Keys
  PROVE  IsFiniteSet(UNION {Content(k) : k \in S})
<1> DEFINE T == {Content(k) : k \in S}
           f == [k \in S |-> Content(k)]
<1>1. IsFiniteSet(S)
  BY CacheAssumption, FS_Subset
<1>2. f \in Surjection(S, T)
  BY DEF Surjection
<1>3. IsFiniteSet(T)
  <2> HIDE DEF T, f
  <2> QED BY <1>1, <1>2, FS_Surjection
<1>4. ASSUME NEW k \in S PROVE IsFiniteSet(Content(k))
  <2>1. Size[k] \in Int /\ 1 \in Int
    BY CacheAssumption
  <2>2. IsFiniteSet(1..Size[k]) /\ IsFiniteSet({k})
    BY <2>1, FS_Interval, FS_Singleton
  <2> QED BY <2>2, FS_Product DEF Content
<1>5. \A c \in T : IsFiniteSet(c)
  BY <1>4
<1> QED BY <1>3, <1>5, FS_UNION

LEMMA BytesType ==
  ASSUME NEW S \in SUBSET Keys
  PROVE  Bytes(S) \in Nat
BY ContentFinite, FS_CardinalityType DEF Bytes

LEMMA BytesEmpty == Bytes({}) = 0
BY FS_EmptySet DEF Bytes

LEMMA BytesMonotone ==
  ASSUME NEW S \in SUBSET Keys, NEW T \in SUBSET S
  PROVE  Bytes(T) <= Bytes(S)
<1>1. UNION {Content(k) : k \in T} \subseteq UNION {Content(k) : k \in S}
  OBVIOUS
<1> QED BY <1>1, ContentFinite, FS_Subset DEF Bytes

LEMMA BytesUnion ==
  ASSUME NEW S \in SUBSET Keys, NEW T \in SUBSET Keys
  PROVE  Bytes(S \cup T) <= Bytes(S) + Bytes(T)
<1> DEFINE A == UNION {Content(k) : k \in S}
           B == UNION {Content(k) : k \in T}
<1>1. UNION {Content(k) : k \in S \cup T} = A \cup B
  OBVIOUS
<1>2. IsFiniteSet(A) /\ IsFiniteSet(B)
  BY ContentFinite
<1> HIDE DEF A, B
<1>3. Cardinality(A \cup B) = Cardinality(A) + Cardinality(B) - Cardinality(A \cap B)
  BY <1>2, FS_Union
<1>4. /\ Cardinality(A) \in Nat /\ Cardinality(B) \in Nat
      /\ Cardinality(A \cap B) \in Nat
  BY <1>2, FS_CardinalityType, FS_Intersection
<1>5. Cardinality(A \cup B) <= Cardinality(A) + Cardinality(B)
  BY <1>3, <1>4
<1> QED BY <1>1, <1>5 DEF Bytes, A, B

(* Results under different keys share no byte.                             *)
LEMMA BytesDisjoint ==
  ASSUME NEW S \in SUBSET Keys, NEW T \in SUBSET Keys, S \cap T = {}
  PROVE  Bytes(S \cup T) = Bytes(S) + Bytes(T)
<1> DEFINE A == UNION {Content(k) : k \in S}
           B == UNION {Content(k) : k \in T}
<1>1. UNION {Content(k) : k \in S \cup T} = A \cup B
  OBVIOUS
<1>2. IsFiniteSet(A) /\ IsFiniteSet(B)
  BY ContentFinite
<1>3. A \cap B = {}
  BY DEF Content
<1> HIDE DEF A, B
<1>4. Cardinality(A \cup B) = Cardinality(A) + Cardinality(B) - Cardinality(A \cap B)
  BY <1>2, FS_Union
<1>5. /\ Cardinality(A) \in Nat /\ Cardinality(B) \in Nat
      /\ Cardinality(A \cap B) = 0
  BY <1>2, <1>3, FS_CardinalityType, FS_EmptySet
<1>6. Cardinality(A \cup B) = Cardinality(A) + Cardinality(B)
  BY <1>4, <1>5
<1> QED BY <1>1, <1>6 DEF Bytes, A, B

-----------------------------------------------------------------------------
(***************************************************************************)
(* The order of eviction.                                                  *)
(***************************************************************************)
LEMMA BeforeOrders ==
  ASSUME TypeOK
  PROVE  /\ \A i, j, k \in Keys : Before(i, j) /\ Before(j, k) => Before(i, k)
         /\ \A k \in Keys : ~Before(k, k)
         /\ \A j, k \in Keys : j = k \/ Before(j, k) \/ Before(k, j)
<1>1. /\ \A k \in Keys : k \in Nat
      /\ \A k \in Keys : used[k] \in Nat /\ created[k] \in Nat
  BY CacheAssumption DEF TypeOK
<1> QED BY <1>1 DEF Before

(* Any entries have a first one in that order.                             *)
LEMMA FirstExists ==
  ASSUME TypeOK, NEW S \in SUBSET Keys, S # {}
  PROVE  \E k \in S : \A j \in S : ~Before(j, k)
<1> DEFINE Down(k) == {j \in S : Before(j, k)}
           T == {Down(k) : k \in S}
<1>1. IsFiniteSet(S)
  BY CacheAssumption, FS_Subset
<1>2. IsWellFoundedOn(StrictSubsetOrdering(S), FiniteSubsetsOf(S))
  BY FS_StrictSubsetOrderingWellFounded
<1>3. T \subseteq FiniteSubsetsOf(S) /\ T # {}
  <2>1. FiniteSubsetsOf(S) = SUBSET S
    BY <1>1, FS_FiniteSubsetsOfFinite
  <2>2. T \subseteq SUBSET S
    OBVIOUS
  <2>3. T # {}
    <3>1. PICK k \in S : TRUE
      OBVIOUS
    <3>2. Down(k) \in T
      OBVIOUS
    <3> HIDE DEF T
    <3> QED BY <3>2
  <2> QED BY <2>1, <2>2, <2>3
<1>4. PICK d \in T : \A c \in T : <<c, d>> \notin StrictSubsetOrdering(S)
  <2> HIDE DEF T
  <2> QED BY <1>2, <1>3, WFMin
<1>5. PICK k \in S : d = Down(k)
  BY <1>4
<1>6. ASSUME NEW j \in S, Before(j, k) PROVE FALSE
  <2>1. Down(j) \subseteq Down(k)
    BY <1>6, BeforeOrders
  <2>2. j \in Down(k) /\ j \notin Down(j)
    BY <1>6, BeforeOrders
  <2>3. <<Down(j), Down(k)>> \in StrictSubsetOrdering(S)
    BY <2>1, <2>2 DEF StrictSubsetOrdering
  <2> QED BY <1>4, <1>5, <2>3
<1> QED BY <1>6

(* What goes before a victim is a victim as well.                          *)
LEMMA VictimsFirst ==
  ASSUME TypeOK, NEW x \in Nat, NEW k \in Victims(x), NEW j \in cached, Before(j, k)
  PROVE  j \in Victims(x)
<1> DEFINE A == {i \in cached : Before(i, j)}
           B == {i \in cached : Before(i, k)}
<1>1. j \in Keys /\ k \in Keys /\ B \in SUBSET Keys /\ A \in SUBSET Keys
  BY DEF TypeOK, Victims
<1>2. A \subseteq B
  BY <1>1, BeforeOrders DEF TypeOK
<1>3. Bytes(A) <= Bytes(B) /\ Bytes(A) \in Nat /\ Bytes(B) \in Nat
  <2> HIDE DEF A, B
  <2> QED BY <1>1, <1>2, BytesMonotone, BytesType
<1>4. Bytes(B) < x
  BY DEF Victims
<1>5. Bytes(A) < x
  BY <1>3, <1>4
<1> QED BY <1>5 DEF Victims

(* The victims free what they are to free, if there is as much.            *)
LEMMA VictimsSuffice ==
  ASSUME TypeOK, NEW x \in Nat, Bytes(cached) <= Limit + x
  PROVE  Bytes(cached \ Victims(x)) <= Limit
<1> DEFINE V == Victims(x)
           R == cached \ V
<1>1. cached \in SUBSET Keys /\ V \subseteq cached /\ Limit \in Nat
  BY CacheAssumption DEF TypeOK, Victims
<1>2. CASE R = {}
  BY <1>1, <1>2, BytesEmpty
<1>3. CASE R # {}
  <2>1. PICK k \in R : \A j \in R : ~Before(j, k)
    BY <1>1, <1>3, FirstExists
  <2> DEFINE B == {j \in cached : Before(j, k)}
  <2>2. B \subseteq V
    BY <2>1
  <2>3. ~(Bytes(B) < x)
    BY <2>1 DEF Victims
  <2>4. V \in SUBSET Keys /\ R \in SUBSET Keys /\ R \cap V = {} /\ R \cup V = cached
    BY <1>1
  <2> HIDE DEF B, V, R
  <2>5. Bytes(cached) = Bytes(R) + Bytes(V)
    BY <2>4, BytesDisjoint
  <2>6. Bytes(B) <= Bytes(V)
    BY <2>2, <2>4, BytesMonotone
  <2>7. Bytes(B) \in Nat /\ Bytes(V) \in Nat /\ Bytes(R) \in Nat
    BY <2>2, <2>4, BytesType
  <2> QED BY <1>1, <2>3, <2>5, <2>6, <2>7 DEF R, V
<1> QED BY <1>2, <1>3

-----------------------------------------------------------------------------
LEMMA InitInv == Init => IInv
<1> SUFFICES ASSUME Init PROVE IInv
  OBVIOUS
<1>1. TypeOK
  <2>1. now \in 0..MaxTime /\ 0 \in 0..now
    BY CacheAssumption DEF Init
  <2>2. /\ created \in [Keys -> 0..now] /\ used \in [Keys -> 0..now]
        /\ stamp \in [Procs -> 0..now] /\ began \in [Procs -> 0..now]
        /\ excess \in [Procs -> Nat]
    BY <2>1 DEF Init
  <2> QED BY <2>1, <2>2 DEF Init, TypeOK
<1>2. Planned /\ Stamps
  BY DEF Init, Planned, Stamps, Evicting
<1>3. Owed
  BY CacheAssumption, BytesEmpty DEF Init, Owed
<1> QED BY <1>1, <1>2, <1>3 DEF IInv

(***************************************************************************)
(* Types.                                                                  *)
(***************************************************************************)
LEMMA ExcessType ==
  ASSUME TypeOK, ~(Bytes(cached) <= Limit)
  PROVE  Excess \in Nat /\ Limit + Excess = Bytes(cached)
<1>1. Bytes(cached) \in Nat /\ Limit \in Nat
  BY BytesType, CacheAssumption DEF TypeOK
<1> QED BY <1>1 DEF Excess

LEMMA LeaveTypes ==
  ASSUME TypeOK, NEW p \in Procs, Leave(p), UNCHANGED now
  PROVE  /\ pc' \in [Procs -> {"idle", "files", "put", "touch", "measure"} \cup Evicting]
         /\ touched' \in [Procs -> SUBSET Keys]
         /\ misses' \in [Procs -> SUBSET Keys]
         /\ stamp' \in [Procs -> 0..now']
         /\ excess' \in [Procs -> Nat]
         /\ victims' \in [Procs -> SUBSET Keys]
         /\ began' \in [Procs -> 0..now']
         /\ mine' \in [Procs -> SUBSET Keys]
<1>1. 0 \in 0..now
  BY CacheAssumption DEF TypeOK
<1> QED BY <1>1 DEF Leave, Goto, TypeOK

LEMMA AnalysisTypes ==
  ASSUME TypeOK, NEW p \in Procs, Analysis(p)
  PROVE  TypeOK'
<1> USE DEF TypeOK, Goto, Forget, entries, local, readers, Evicting
<1>0. now \in 0..MaxTime /\ now \in 0..now /\ 0 \in 0..now
  BY CacheAssumption
<1>1. CASE Open(p)
  BY <1>0, <1>1 DEF Open
<1>2. CASE \E k \in Keys : Get(p, k)
  BY <1>2 DEF Get
<1>3. CASE ReadClock(p)
  BY <1>0, <1>3 DEF ReadClock
<1>4. CASE Put(p)
  BY <1>0, <1>4 DEF Put, Stamp, Claim, Commit
<1>5. CASE PutFails(p)
  BY <1>0, <1>5 DEF PutFails
<1>6. CASE Touch(p)
  BY <1>0, <1>6 DEF Touch, Stamp, Claim, Commit, Stamped
<1>7. CASE TouchFails(p)
  BY <1>0, <1>7 DEF TouchFails
<1>8. CASE Measure(p)
  <2>1. CASE Bytes(cached) <= Limit
    BY <1>8, <2>1, LeaveTypes DEF Measure
  <2>2. CASE ~(Bytes(cached) <= Limit)
    BY <1>8, <2>2, ExcessType, ZenonT(40) DEF Measure
  <2> QED BY <2>1, <2>2
<1>9. CASE Select(p)
  <2>1. Victims(excess[p]) \in SUBSET Keys
    BY DEF Victims
  <2> QED BY <1>9, <2>1 DEF Select
<1>10. CASE Delete(p)
  <2>1. /\ cached' \subseteq Keys
        /\ created' \in [Keys -> 0..now] /\ used' \in [Keys -> 0..now]
        /\ \A k \in Keys \ cached' : created'[k] = 0 /\ used'[k] = 0
    BY <1>0, <1>10 DEF Delete
  <2> QED BY <1>10, <2>1, LeaveTypes DEF Delete, Commit
<1>11. CASE Conflict(p)
  BY <1>11, LeaveTypes DEF Conflict
<1>12. CASE Stop(p)
  BY <1>12, LeaveTypes DEF Stop
<1> QED BY <1>1, <1>2, <1>3, <1>4, <1>5, <1>6, <1>7, <1>8, <1>9, <1>10, <1>11, <1>12
        DEF Analysis

LEMMA StepTypes ==
  ASSUME TypeOK, [Next]_vars
  PROVE  TypeOK'
<1> USE DEF TypeOK, local, readers, entries
<1>1. CASE Clear
  <2>1. 0 \in 0..now
    BY CacheAssumption
  <2> QED BY <1>1, <2>1 DEF Clear
<1>2. CASE Tick
  <2>1. now' \in 0..MaxTime /\ \A t \in 0..now : t \in 0..now'
    BY <1>2, CacheAssumption DEF Tick
  <2>2. created \in [Keys -> 0..now'] /\ used \in [Keys -> 0..now']
        /\ stamp \in [Procs -> 0..now'] /\ began \in [Procs -> 0..now']
    BY <2>1
  <2> QED BY <1>2, <2>1, <2>2 DEF Tick
<1>3. CASE UNCHANGED vars
  BY <1>3 DEF vars
<1> QED BY <1>1, <1>2, <1>3, AnalysisTypes DEF Next

-----------------------------------------------------------------------------
(***************************************************************************)
(* An eviction is planned for the database as it is, or is not carried     *)
(* out: whoever changes a row outdates what the others have read.          *)
(***************************************************************************)
LEMMA PlanKept ==
  ASSUME Planned, UNCHANGED <<entries, pc, excess, victims, readers>>
  PROVE  Planned'
BY DEF Planned, entries, readers, Victims, Before, Bytes, Evicting

(* A step of p that commits, and leaves p where nothing is planned.        *)
LEMMA PlanCommitted ==
  ASSUME TypeOK, Planned, NEW p \in Procs, NEW K, Commit(p, K),
         K = {} => UNCHANGED entries,
         pc'[p] \notin Evicting,
         \A q \in Procs \ {p} : /\ pc'[q] = pc[q]
                                /\ excess'[q] = excess[q]
                                /\ victims'[q] = victims[q]
  PROVE  Planned'
<1>1. CASE K = {}
  <2>1. UNCHANGED <<cached, created, used, fresh, measured>>
    BY <1>1 DEF Commit, entries
  <2>2. \A x : Victims(x)' = Victims(x)
    BY <2>1 DEF Victims, Before, Bytes
  <2> QED BY <2>1, <2>2 DEF Planned, Bytes, Evicting
<1>2. CASE K # {}
  BY <1>2 DEF Commit, Planned, Evicting
<1> QED BY <1>1, <1>2

(* A step of p that changes no row, and leaves p where nothing is planned. *)
LEMMA PlanLeft ==
  ASSUME TypeOK, Planned, NEW p \in Procs,
         UNCHANGED entries, fresh' \subseteq fresh, measured' \subseteq measured \cup {p},
         pc'[p] \notin Evicting,
         \A q \in Procs \ {p} : /\ pc'[q] = pc[q]
                                /\ excess'[q] = excess[q]
                                /\ victims'[q] = victims[q]
  PROVE  Planned'
<1>1. \A x : Victims(x)' = Victims(x)
  BY DEF Victims, Before, Bytes, entries
<1>2. Bytes(cached)' = Bytes(cached)
  BY DEF Bytes, entries
<1> QED BY <1>1, <1>2 DEF Planned, Evicting

LEMMA AnalysisPlanned ==
  ASSUME TypeOK, Planned, NEW p \in Procs, Analysis(p)
  PROVE  Planned'
<1> USE DEF Goto, Forget, readers
<1>1. CASE Open(p)
  BY <1>1, PlanLeft DEF Open, TypeOK, Evicting
<1>2. CASE \E k \in Keys : Get(p, k)
  BY <1>2, PlanKept DEF Get
<1>3. CASE ReadClock(p)
  BY <1>3, PlanLeft DEF ReadClock, TypeOK, Evicting
<1>4. CASE Put(p)
  <2>1. misses[p] = {} => UNCHANGED entries
    BY <1>4 DEF Put, Stamp, TypeOK, entries
  <2>2. Commit(p, misses[p])
    BY <1>4 DEF Put, Stamp
  <2> QED BY <1>4, <2>1, <2>2, PlanCommitted DEF Put, TypeOK, Evicting
<1>5. CASE PutFails(p)
  BY <1>5, PlanLeft DEF PutFails, TypeOK, Evicting
<1>6. CASE Touch(p)
  <2>1. Stamped(p) = {} => UNCHANGED entries
    BY <1>6 DEF Touch, Stamp, TypeOK, entries
  <2>2. Commit(p, Stamped(p))
    BY <1>6 DEF Touch, Stamp
  <2> QED BY <1>6, <2>1, <2>2, PlanCommitted DEF Touch, TypeOK, Evicting
<1>7. CASE TouchFails(p)
  BY <1>7, PlanLeft DEF TouchFails, TypeOK, Evicting
<1>8. CASE Measure(p)
  <2>1. CASE Bytes(cached) <= Limit
    BY <1>8, <2>1, PlanLeft DEF Measure, Leave, TypeOK, Evicting
  <2>2. CASE ~(Bytes(cached) <= Limit)
    <3>1. \A x : Victims(x)' = Victims(x)
      BY <1>8 DEF Measure, Victims, Before, Bytes, entries
    <3>2. Bytes(cached)' = Bytes(cached)
      BY <1>8 DEF Measure, Bytes, entries
    <3>3. Limit + excess'[p] = Bytes(cached)
      BY <1>8, <2>2, ExcessType DEF Measure, TypeOK
    <3>4. /\ pc'[p] = "select" /\ fresh' = fresh
          /\ \A q \in Procs \ {p} : /\ pc'[q] = pc[q] /\ excess'[q] = excess[q]
                                    /\ q \in measured' => q \in measured
          /\ victims' = victims
      BY <1>8, <2>2 DEF Measure, TypeOK
    <3> QED BY <3>1, <3>2, <3>3, <3>4 DEF Planned, Evicting
  <2> QED BY <2>1, <2>2
<1>9. CASE Select(p)
  <2>1. \A x : Victims(x)' = Victims(x)
    BY <1>9 DEF Select, Victims, Before, Bytes, entries
  <2>2. Bytes(cached)' = Bytes(cached)
    BY <1>9 DEF Select, Bytes, entries
  <2>3. /\ pc[p] = "select" /\ excess' = excess /\ measured' = measured
        /\ victims'[p] = Victims(excess[p])
        /\ \A q \in Procs \ {p} : /\ pc'[q] = pc[q] /\ victims'[q] = victims[q]
                                  /\ q \in fresh' => q \in fresh
    BY <1>9 DEF Select, TypeOK
  <2> QED BY <2>1, <2>2, <2>3 DEF Planned, Evicting
<1>10. CASE Delete(p)
  <2>1. victims[p] = {} => UNCHANGED entries
    BY <1>10 DEF Delete, TypeOK, entries
  <2> QED BY <1>10, <2>1, PlanCommitted DEF Delete, Leave, TypeOK, Evicting
<1>11. CASE Conflict(p)
  BY <1>11, PlanLeft DEF Conflict, Leave, TypeOK, Evicting
<1>12. CASE Stop(p)
  BY <1>12, PlanLeft DEF Stop, Leave, TypeOK, Evicting
<1> QED BY <1>1, <1>2, <1>3, <1>4, <1>5, <1>6, <1>7, <1>8, <1>9, <1>10, <1>11, <1>12
        DEF Analysis

LEMMA StepPlanned ==
  ASSUME TypeOK, Planned, [Next]_vars
  PROVE  Planned'
<1>1. CASE Clear
  BY <1>1 DEF Clear, Planned
<1>2. CASE Tick
  BY <1>2, PlanKept DEF Tick, local
<1>3. CASE UNCHANGED vars
  BY <1>3, PlanKept DEF vars, entries, readers
<1> QED BY <1>1, <1>2, <1>3, AnalysisPlanned DEF Next

-----------------------------------------------------------------------------
(***************************************************************************)
(* Stamps are of the time of the analysis that is the last to claim an     *)
(* entry; whoever stamps an entry claims it.                               *)
(***************************************************************************)
LEMMA StampsKept ==
  ASSUME Stamps, cached' \subseteq cached, UNCHANGED <<pc, touched, stamp, began, mine>>,
         \A k \in cached' : used'[k] = used[k]
  PROVE  Stamps'
BY DEF Stamps, Idle, Evicting

LEMMA StampsLeft ==
  ASSUME TypeOK, Stamps, NEW p \in Procs, Leave(p), cached' \subseteq cached,
         \A k \in cached' : used'[k] = used[k]
  PROVE  Stamps'
BY DEF Stamps, Leave, Goto, Idle, Evicting, TypeOK

LEMMA AnalysisStamps ==
  ASSUME TypeOK, Stamps, NEW p \in Procs, Analysis(p)
  PROVE  Stamps'
<1> USE DEF Goto, entries, Evicting, Idle
<1>0. /\ \A q \in Procs : began[q] \in 0..now
      /\ now \in Nat
  BY CacheAssumption DEF TypeOK
<1>1. CASE Open(p)
  BY <1>1 DEF Open, Stamps, TypeOK
<1>2. CASE \E k \in Keys : Get(p, k)
  BY <1>2 DEF Get, Stamps, TypeOK
<1>3. CASE ReadClock(p)
  BY <1>0, <1>3 DEF ReadClock, Stamps, TypeOK
<1>4. CASE Put(p)
  <2>1. \A k \in Keys : used'[k] = IF k \in misses[p] THEN stamp[p] ELSE used[k]
    BY <1>4 DEF Put, Stamp
  <2>2. /\ mine'[p] = mine[p] \cup misses[p]
        /\ \A q \in Procs \ {p} : mine'[q] = mine[q] \ misses[p]
    BY <1>4 DEF Put, Claim
  <2>3. /\ cached' = cached \cup misses[p] /\ cached' \subseteq Keys
        /\ touched' = touched /\ began' = began /\ began[p] <= stamp[p]
    BY <1>4 DEF Put, Stamps, TypeOK
  <2>4. /\ pc'[p] = "files"
        /\ \A q \in Procs \ {p} : pc'[q] = pc[q] /\ stamp'[q] = stamp[q]
    BY <1>4 DEF Put, Stamp, TypeOK
  <2> QED BY <2>1, <2>2, <2>3, <2>4 DEF Stamps
<1>5. CASE PutFails(p)
  BY <1>5 DEF PutFails, Stamps, TypeOK
<1>6. CASE Touch(p)
  <2> DEFINE K == touched[p] \cap cached
  <2>1. \A k \in Keys : used'[k] = IF k \in K THEN stamp[p] ELSE used[k]
    BY <1>6 DEF Touch, Stamp, Stamped
  <2>2. /\ mine'[p] = mine[p] \cup K
        /\ \A q \in Procs \ {p} : mine'[q] = mine[q] \ K
    BY <1>6 DEF Touch, Claim
  <2>3. /\ cached' = cached /\ cached \subseteq Keys /\ began' = began
        /\ began[p] <= stamp[p] /\ touched'[p] = {}
        /\ \A q \in Procs \ {p} : touched'[q] = touched[q]
    BY <1>6 DEF Touch, Stamps, TypeOK
  <2>4. /\ pc'[p] = "measure"
        /\ \A q \in Procs \ {p} : pc'[q] = pc[q] /\ stamp'[q] = stamp[q]
    BY <1>6 DEF Touch, Stamp, TypeOK
  <2> QED BY <2>1, <2>2, <2>3, <2>4 DEF Stamps
<1>7. CASE TouchFails(p)
  BY <1>7 DEF TouchFails, Stamps, TypeOK
<1>8. CASE Measure(p)
  <2>1. CASE Bytes(cached) <= Limit
    BY <1>8, <2>1, StampsLeft DEF Measure
  <2>2. CASE ~(Bytes(cached) <= Limit)
    BY <1>8, <2>2 DEF Measure, Stamps, TypeOK
  <2> QED BY <2>1, <2>2
<1>9. CASE Select(p)
  BY <1>9 DEF Select, Stamps, TypeOK
<1>10. CASE Delete(p)
  BY <1>10, StampsLeft DEF Delete, TypeOK
<1>11. CASE Conflict(p)
  BY <1>11, StampsLeft DEF Conflict
<1>12. CASE Stop(p)
  BY <1>12, StampsLeft DEF Stop
<1> QED BY <1>1, <1>2, <1>3, <1>4, <1>5, <1>6, <1>7, <1>8, <1>9, <1>10, <1>11, <1>12
        DEF Analysis

LEMMA StepStamps ==
  ASSUME TypeOK, Stamps, [Next]_vars
  PROVE  Stamps'
<1>1. CASE Clear
  BY <1>1, StampsKept DEF Clear, local
<1>2. CASE Tick
  BY <1>2, StampsKept DEF Tick, local, entries
<1>3. CASE UNCHANGED vars
  BY <1>3, StampsKept DEF vars
<1> QED BY <1>1, <1>2, <1>3, AnalysisStamps DEF Next

-----------------------------------------------------------------------------
(***************************************************************************)
(* As long as the cache is above its limit, somebody will measure it or    *)
(* carries out an eviction that is enough, or one is known not to have     *)
(* happened. An eviction planned before others wrote may be too small, but *)
(* then those who wrote have yet to measure.                               *)
(***************************************************************************)
LEMMA OwedKept ==
  ASSUME TypeOK, Owed, NEW p \in Procs, cached' \in SUBSET cached, unpaid => unpaid',
         Unmeasured(p) \/ Suffices(p) => Unmeasured(p)' \/ Suffices(p)',
         \A q \in Procs \ {p} : pc'[q] = pc[q] /\ excess'[q] = excess[q]
  PROVE  Owed'
<1>1. Bytes(cached') <= Bytes(cached) /\ Bytes(cached') \in Nat /\ Bytes(cached) \in Nat
  BY BytesMonotone, BytesType DEF TypeOK
<1>2. Limit \in Nat /\ \A q \in Procs : excess[q] \in Nat
  BY CacheAssumption DEF TypeOK
<1>3. Bytes(cached') > Limit => Bytes(cached) > Limit
  BY <1>1, <1>2
<1>4. \A q \in Procs \ {p} : Unmeasured(q) => Unmeasured(q)'
  BY DEF Unmeasured
<1>5. \A q \in Procs \ {p} : Suffices(q) => Suffices(q)'
  BY <1>1, <1>2 DEF Suffices, Evicting
<1> QED BY <1>3, <1>4, <1>5 DEF Owed

LEMMA AnalysisOwed ==
  ASSUME TypeOK, Planned, Owed, NEW p \in Procs, Analysis(p)
  PROVE  Owed'
<1> USE DEF Goto, entries, Evicting
<1>1. CASE Open(p)
  BY <1>1, OwedKept DEF Open, Unmeasured, TypeOK
<1>2. CASE \E k \in Keys : Get(p, k)
  <2>1. UNCHANGED <<cached, pc, excess, unpaid>>
    BY <1>2 DEF Get
  <2> QED BY <2>1 DEF Owed, Unmeasured, Suffices
<1>3. CASE ReadClock(p)
  BY <1>3, OwedKept DEF ReadClock, Unmeasured, TypeOK
<1>4. CASE Put(p)
  <2>1. Unmeasured(p)'
    BY <1>4 DEF Put, Unmeasured, TypeOK
  <2> QED BY <2>1 DEF Owed
<1>5. CASE PutFails(p)
  BY <1>5, OwedKept DEF PutFails, Unmeasured, TypeOK
<1>6. CASE Touch(p)
  BY <1>6, OwedKept DEF Touch, Unmeasured, TypeOK
<1>7. CASE TouchFails(p)
  BY <1>7, OwedKept DEF TouchFails, Unmeasured, TypeOK
<1>8. CASE Measure(p)
  <2>1. CASE Bytes(cached) <= Limit
    <3>1. Bytes(cached) \in Nat /\ Limit \in Nat /\ cached' = cached
      BY <1>8, BytesType, CacheAssumption DEF Measure, TypeOK
    <3> QED BY <2>1, <3>1 DEF Owed
  <2>2. CASE ~(Bytes(cached) <= Limit)
    <3>1. Limit + Excess = Bytes(cached) /\ Bytes(cached) \in Nat
      BY <2>2, ExcessType, BytesType DEF TypeOK
    <3>2. /\ pc'[p] = "select" /\ excess'[p] = Excess /\ cached' = cached
      BY <1>8, <2>2 DEF Measure, TypeOK
    <3>3. Suffices(p)'
      BY <3>1, <3>2 DEF Suffices
    <3> QED BY <3>3 DEF Owed
  <2> QED BY <2>1, <2>2
<1>9. CASE Select(p)
  BY <1>9, OwedKept DEF Select, Unmeasured, Suffices, TypeOK
<1>10. CASE Delete(p)
  <2>1. p \in fresh /\ pc[p] = "delete" /\ cached' = cached \ victims[p]
    BY <1>10 DEF Delete, Current
  <2>2. cached' = cached \ Victims(excess[p]) /\ excess[p] \in Nat
    BY <2>1 DEF Planned, TypeOK
  <2>3. CASE Suffices(p)
    <3>1. Bytes(cached') <= Limit
      BY <2>2, <2>3, VictimsSuffice DEF Suffices
    <3>2. Bytes(cached') \in Nat /\ Limit \in Nat
      BY <2>2, BytesType, CacheAssumption DEF TypeOK
    <3> QED BY <3>1, <3>2 DEF Owed
  <2>4. CASE ~Suffices(p)
    <3>1. ~Unmeasured(p)
      BY <2>1 DEF Unmeasured
    <3> QED BY <1>10, <2>2, <2>4, <3>1, OwedKept DEF Delete, Leave, TypeOK
  <2> QED BY <2>3, <2>4
<1>11. CASE Conflict(p)
  BY <1>11 DEF Conflict, Owed
<1>12. CASE Stop(p)
  BY <1>12 DEF Stop, Owed
<1> QED BY <1>1, <1>2, <1>3, <1>4, <1>5, <1>6, <1>7, <1>8, <1>9, <1>10, <1>11, <1>12
        DEF Analysis

LEMMA StepOwed ==
  ASSUME TypeOK, Planned, Owed, [Next]_vars
  PROVE  Owed'
<1>1. CASE Clear
  <2>1. Bytes(cached') = 0 /\ Limit \in Nat
    BY <1>1, BytesEmpty, CacheAssumption DEF Clear
  <2> QED BY <2>1 DEF Owed
<1>2. CASE Tick
  BY <1>2 DEF Tick, Owed, Unmeasured, Suffices, entries, local
<1>3. CASE UNCHANGED vars
  BY <1>3 DEF vars, Owed, Unmeasured, Suffices
<1> QED BY <1>1, <1>2, <1>3, AnalysisOwed DEF Next

LEMMA Invariance == Spec => []IInv
<1>1. Init => IInv
  BY InitInv
<1>2. IInv /\ [Next]_vars => IInv'
  BY StepTypes, StepPlanned, StepStamps, StepOwed DEF IInv
<1> QED BY <1>1, <1>2, PTL DEF Spec

-----------------------------------------------------------------------------
(* Type correctness of the cache: evicted entries leave nothing behind,    *)
(* and no entry is stamped later than now.                                 *)
THEOREM TypeCorrect == Spec => []TypeOK
<1>1. IInv => TypeOK
  BY DEF IInv
<1> QED BY <1>1, Invariance, PTL

(* The cache is above its limit only while an analysis has yet to evict,   *)
(* or because an eviction did not happen: for any number of analyses that  *)
(* fill and evict at once.                                                 *)
THEOREM ExcessIsOwed == Spec => []OverLimitIsOwed
<1>1. IInv => OverLimitIsOwed
  BY DEF IInv, Owed, OverLimitIsOwed, Unmeasured, Suffices, Evicting, Idle
<1> QED BY <1>1, Invariance, PTL

(* Only Delete evicts, and it removes what it selected of this database.   *)
LEMMA EvictionIsPlanned ==
  ASSUME IInv, [Next]_vars, NEW p \in Procs, Evicts(p)
  PROVE  /\ excess[p] \in Nat
         /\ victims[p] = Victims(excess[p])
         /\ cached' = cached \ victims[p]
<1>1. PICK q \in Procs : Delete(q)
  <2>1. ASSUME NEW q \in Procs, Analysis(q), pc'[p] = "idle", pc[p] = "delete"
        PROVE  q = p
    BY <2>1 DEF Analysis, Open, Get, ReadClock, Put, PutFails, Touch, TouchFails, Measure,
                Select, Delete, Conflict, Stop, Leave, Goto, IInv, TypeOK
  <2>2. ASSUME Analysis(p), pc[p] = "delete", cached' # cached
        PROVE  Delete(p)
    BY <2>2 DEF Analysis, Open, Get, ReadClock, Put, PutFails, Touch, TouchFails, Measure,
                Select, Conflict, Stop, entries, Idle
  <2> QED BY <2>1, <2>2 DEF Evicts, Next, Clear, Tick, local, vars
<1>2. q = p
  BY <1>1 DEF Delete, Leave, Goto, Evicts, IInv, TypeOK
<1> QED BY <1>1, <1>2 DEF Delete, Current, IInv, Planned, TypeOK

(* An eviction removes the entries that are the least recently used at the *)
(* moment it removes them.                                                 *)
LEMMA OldestFirst ==
  ASSUME IInv, [Next]_vars, NEW p \in Procs, Evicts(p),
         NEW j \in cached \ cached', NEW k \in cached'
  PROVE  used[j] <= used[k]
<1>1. /\ excess[p] \in Nat /\ j \in Victims(excess[p])
      /\ k \in cached /\ k \notin Victims(excess[p])
  BY EvictionIsPlanned
<1>2. ~Before(k, j)
  BY <1>1, VictimsFirst DEF IInv
<1>3. used[j] \in Nat /\ used[k] \in Nat
  BY <1>1 DEF IInv, TypeOK
<1> QED BY <1>2, <1>3 DEF Before

THEOREM EvictionTakesOldest == Spec => EvictsOldestFirst
<1>1. IInv /\ [Next]_vars =>
        [\A p \in Procs : Evicts(p) =>
           \A j \in cached \ cached', k \in cached' : used[j] <= used[k]]_vars
  BY OldestFirst
<1> QED BY <1>1, Invariance, PTL DEF Spec, EvictsOldestFirst

(* What an analysis was the last to read or write outlives everything that *)
(* was stamped before the analysis began.                                  *)
THEOREM OwnEntriesAreKept == Spec => KeepsWhatItUsed
<1> DEFINE Kept == \A p \in Procs : Evicts(p) =>
                     \A j \in mine[p] \ cached', k \in cached' :
                       j \in cached => used[k] >= began[p]
<1>1. IInv /\ [Next]_vars => Kept
  <2> SUFFICES ASSUME IInv, [Next]_vars, NEW p \in Procs, Evicts(p),
                      NEW j \in mine[p] \ cached', NEW k \in cached', j \in cached
               PROVE  used[k] >= began[p]
    OBVIOUS
  <2>1. used[j] <= used[k]
    BY OldestFirst
  <2>2. began[p] <= used[j]
    BY DEF Evicts, IInv, Stamps, Evicting
  <2>3. k \in cached
    BY EvictionIsPlanned
  <2>4. used[j] \in Nat /\ used[k] \in Nat /\ began[p] \in Nat
    BY <2>3 DEF IInv, TypeOK
  <2> QED BY <2>1, <2>2, <2>4
<1>2. IInv /\ [Next]_vars => [Kept]_vars
  BY <1>1
<1> QED BY <1>2, Invariance, PTL DEF Spec, KeepsWhatItUsed

(* "Evicts the least recently used entries until the cache is within       *)
(* `limit` bytes": of a cache that nobody has written to since it was      *)
(* measured, an eviction removes neither too little nor too much.          *)
THEOREM EvictionIsJustEnough == Spec => EvictsJustEnough
<1> DEFINE Enough(p) == /\ Bytes(cached') <= Limit
                        /\ \A k \in cached \ cached' :
                             Bytes(cached' \cup {k} \cup {j \in victims[p] : Before(k, j)})
                               > Limit
           Just == \A p \in Procs : Evicts(p) /\ p \in measured => Enough(p)
<1>1. IInv /\ [Next]_vars => Just
  <2> SUFFICES ASSUME IInv, [Next]_vars, NEW p \in Procs, Evicts(p), p \in measured
               PROVE  Enough(p)
    OBVIOUS
  <2>1. /\ TypeOK /\ cached \in SUBSET Keys /\ Limit \in Nat /\ excess[p] \in Nat
        /\ victims[p] = Victims(excess[p]) /\ cached' = cached \ victims[p]
        /\ Limit + excess[p] = Bytes(cached)
    BY EvictionIsPlanned, CacheAssumption DEF Evicts, Evicting, IInv, TypeOK, Planned
  <2>2. Bytes(cached') <= Limit
    <3>1. Bytes(cached) <= Limit + excess[p]
      BY <2>1, BytesType
    <3> QED BY <2>1, <3>1, VictimsSuffice
  <2>3. ASSUME NEW k \in cached \ cached'
        PROVE  Bytes(cached' \cup {k} \cup {j \in victims[p] : Before(k, j)}) > Limit
    <3> DEFINE S == cached' \cup {k} \cup {j \in victims[p] : Before(k, j)}
               B == {j \in cached : Before(j, k)}
    <3>1. k \in victims[p] /\ victims[p] \subseteq cached
      BY <2>1 DEF Victims
    <3>2. Bytes(B) < excess[p]
      BY <2>1, <3>1 DEF Victims
    <3>3. cached \subseteq S \cup B
      BY <2>1, <2>3, BeforeOrders
    <3>4. S \in SUBSET Keys /\ B \in SUBSET Keys /\ S \cup B \in SUBSET Keys
      BY <2>1, <3>1
    <3> HIDE DEF S, B
    <3>5. Bytes(cached) <= Bytes(S \cup B) /\ Bytes(S \cup B) <= Bytes(S) + Bytes(B)
      BY <3>3, <3>4, BytesMonotone, BytesUnion
    <3>6. /\ Bytes(S) \in Nat /\ Bytes(B) \in Nat /\ Bytes(cached) \in Nat
          /\ Bytes(S \cup B) \in Nat
      BY <2>1, <3>4, BytesType
    <3>7. Bytes(S) > Limit
      BY <2>1, <3>2, <3>5, <3>6
    <3> QED BY <3>7 DEF S
  <2> QED BY <2>2, <2>3
<1>2. IInv /\ [Next]_vars => [Just]_vars
  BY <1>1
<1> QED BY <1>2, Invariance, PTL DEF Spec, EvictsJustEnough
=============================================================================
