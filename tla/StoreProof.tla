----------------------------- MODULE StoreProof -----------------------------
(***************************************************************************)
(* Proofs about Store for any number of processes, repositories and scans, *)
(* with crashes, errors and the loss of the index.                         *)
(***************************************************************************)
EXTENDS Store, TLAPS

(* What analyses and imports may store.                                    *)
Homes == Analyses \cup Imports

(* Whatever is on disk, listed or worked on was once stored.               *)
Sound ==
  /\ files \subseteq Homes
  /\ rows \subseteq Homes
  /\ \A p \in Procs :
       /\ pc[p] \in Writing \cup {"drop", "unlink", "restat", "recommit"}
            => entry[p] \in Homes
       /\ pc[p] = "sweep" => entry[p][1] \in Repos
       /\ pc[p] \in Repairing => todo[p] \subseteq Homes

IInv == TypeOK /\ Sound

-----------------------------------------------------------------------------

LEMMA HomesTyped ==
  /\ Homes \subseteq Entries
  /\ \A e \in Homes : e = <<e[1], e[2]>> /\ e[1] \in Repos /\ e[2] \in Scans
                      /\ At[e[2]] \in Nat
<1>1. Homes \subseteq Repos \X Scans
  BY StoreAssumption DEF Homes, Entries
<1>2. \A e \in Homes : e = <<e[1], e[2]>> /\ e[1] \in Repos /\ e[2] \in Scans
  BY <1>1
<1>3. \A e \in Homes : At[e[2]] \in Nat
  BY <1>2, StoreAssumption
<1> QED BY <1>1, <1>2, <1>3 DEF Entries

LEMMA InitInv == Init => IInv
<1> SUFFICES ASSUME Init PROVE IInv
  OBVIOUS
<1>1. TypeOK
  BY DEF Init, TypeOK
<1>2. Sound
  BY DEF Init, Sound, Writing, Repairing
<1> QED BY <1>1, <1>2 DEF IInv

LEMMA StartInv ==
  ASSUME IInv, NEW p \in Procs, NEW e \in Homes, Start(p, e)
  PROVE  IInv'
<1> USE HomesTyped DEF disk, index, history, Goto
<1>1. TypeOK'
  BY DEF IInv, TypeOK, Start, Writing
<1>2. Sound'
  BY DEF IInv, TypeOK, Sound, Start, Writing, Repairing
<1> QED BY <1>1, <1>2 DEF IInv

LEMMA WriteArtifactInv ==
  ASSUME IInv, NEW p \in Procs, WriteArtifact(p)
  PROVE  IInv'
<1> USE HomesTyped DEF disk, index, history, Goto
<1>0. entry[p] \in Homes
  BY DEF IInv, Sound, WriteArtifact, Writing
<1>1. TypeOK'
  BY <1>0 DEF IInv, TypeOK, WriteArtifact, Writing
<1>2. Sound'
  BY <1>0 DEF IInv, TypeOK, Sound, WriteArtifact, Writing, Repairing
<1> QED BY <1>1, <1>2 DEF IInv

LEMMA WriteDescriptorInv ==
  ASSUME IInv, NEW p \in Procs, WriteDescriptor(p)
  PROVE  IInv'
<1> USE HomesTyped DEF disk, index, history, Goto
<1>0. entry[p] \in Homes
  BY DEF IInv, Sound, WriteDescriptor, Writing
<1>1. TypeOK'
  BY <1>0 DEF IInv, TypeOK, WriteDescriptor, Writing
<1>2. Sound'
  BY <1>0 DEF IInv, TypeOK, Sound, WriteDescriptor, Writing, Repairing
<1> QED BY <1>1, <1>2 DEF IInv

LEMMA StatInv ==
  ASSUME IInv, NEW p \in Procs, Stat(p)
  PROVE  IInv'
<1> USE HomesTyped DEF disk, index, history, Goto
<1>0. entry[p] \in Homes
  BY DEF IInv, Sound, Stat, Writing
<1>1. TypeOK'
  BY <1>0 DEF IInv, TypeOK, Stat, Writing, Repairing
<1>2. Sound'
  BY <1>0 DEF IInv, TypeOK, Sound, Stat, Writing, Repairing
<1> QED BY <1>1, <1>2 DEF IInv

(* The four transactions keep the types of the index and list only what    *)
(* was listed before or is indexed now.                                    *)
IndexTyped ==
  /\ rows \subseteq Homes
  /\ repositories \subseteq Repos
  /\ first \in [Repos -> Nat]
  /\ last \in [Repos -> Nat]
  /\ robbed \subseteq Repos

LEMMA StrangersTyped ==
  ASSUME rows \subseteq Homes, NEW r, NEW s
  PROVE  Strangers(r, s) \subseteq Repos
BY HomesTyped DEF Strangers

LEMMA TypedByIndex ==
  ASSUME IndexTyped, NEW e \in Homes, Index(e[1], e[2])
  PROVE  IndexTyped'
<1>1. e = <<e[1], e[2]>> /\ e[1] \in Repos /\ e[2] \in Scans /\ At[e[2]] \in Nat
  BY HomesTyped
<1>2. rows' \subseteq Homes /\ repositories' \subseteq Repos /\ robbed' \subseteq Repos
  BY <1>1, StrangersTyped DEF Index, Others, IndexTyped
<1>3. FirstSeen(e[1], e[2]) \in Nat /\ LastSeen(e[1], e[2]) \in Nat
  BY <1>1 DEF FirstSeen, LastSeen, Earlier, Later, IndexTyped
<1>4. first' \in [Repos -> Nat] /\ last' \in [Repos -> Nat]
  BY <1>1, <1>3 DEF Index, IndexTyped
<1> QED BY <1>2, <1>4 DEF IndexTyped

LEMMA TypedByForget ==
  ASSUME IndexTyped, NEW r \in Repos, Forget(r), rows' \subseteq rows, robbed' \subseteq Repos
  PROVE  IndexTyped'
BY DEF IndexTyped, Forget

LEMMA TypedByDropScan ==
  ASSUME IndexTyped, NEW e \in Homes, DropScan(e[1], e[2])
  PROVE  IndexTyped'
<1>1. e[1] \in Repos
  BY HomesTyped
<1>2. rows' \subseteq rows /\ robbed' \subseteq Repos
  BY StrangersTyped DEF DropScan, Others, IndexTyped
<1>3. CASE Emptied(e[1], e[2])
  BY <1>1, <1>2, <1>3, TypedByForget DEF DropScan
<1>4. CASE ~Emptied(e[1], e[2])
  <2>1. PICK d, f \in RowsOf(e[1]) \cap Others(e[1], e[2]) :
          /\ first' = [first EXCEPT ![e[1]] = At[d[2]]]
          /\ last' = [last EXCEPT ![e[1]] = At[f[2]]]
          /\ UNCHANGED repositories
    BY <1>4 DEF DropScan, Narrow
  <2>2. At[d[2]] \in Nat /\ At[f[2]] \in Nat
    BY HomesTyped DEF IndexTyped, Others
  <2> QED BY <1>1, <1>2, <2>1, <2>2 DEF IndexTyped
<1> QED BY <1>3, <1>4

LEMMA TypedByWipe ==
  ASSUME Wipe
  PROVE  IndexTyped'
BY DEF Wipe, IndexTyped

LEMMA CommitInv ==
  ASSUME IInv, NEW p \in Procs, Commit(p)
  PROVE  IInv'
<1> USE HomesTyped DEF disk, Goto, Return
<1>0. entry[p] \in Homes
  BY DEF IInv, Sound, Commit, Writing
<1>1. IndexTyped'
  BY <1>0, TypedByIndex DEF IInv, TypeOK, Sound, IndexTyped, Commit
<1>2. TypeOK'
  BY <1>0, <1>1 DEF IInv, TypeOK, IndexTyped, Commit, NoEntry
<1>3. Sound'
  BY <1>0, <1>1 DEF IInv, TypeOK, Sound, IndexTyped, Commit, Writing, Repairing
<1> QED BY <1>2, <1>3 DEF IInv

LEMMA FindScanInv ==
  ASSUME IInv, NEW p \in Procs, NEW e \in rows, FindScan(p, e)
  PROVE  IInv'
<1> USE HomesTyped DEF disk, index, history, Goto
<1>0. e \in Homes
  BY DEF IInv, Sound
<1>1. TypeOK'
  BY <1>0 DEF IInv, TypeOK, FindScan, Deleting
<1>2. Sound'
  BY <1>0 DEF IInv, TypeOK, Sound, FindScan, Writing, Repairing
<1> QED BY <1>1, <1>2 DEF IInv

LEMMA DirectoryTyped ==
  ASSUME IInv, NEW r \in Repos
  PROVE  Directory(r) \subseteq Entries \cup (Repos \X {0})
BY DEF Directory, IInv, TypeOK

LEMMA DropInv ==
  ASSUME IInv, NEW p \in Procs, Drop(p)
  PROVE  IInv'
<1> USE HomesTyped DEF disk, Goto
<1>0. entry[p] \in Homes /\ entry[p][1] \in Repos
  BY DEF IInv, Sound, Drop, Deleting
<1>1. IndexTyped'
  BY <1>0, TypedByDropScan DEF IInv, TypeOK, Sound, IndexTyped, Drop
<1>2. todo' \in [Procs -> SUBSET (Entries \cup (Repos \X {0}))]
  BY <1>0, DirectoryTyped DEF IInv, TypeOK, Drop
<1>3. pc' \in [Procs -> {"idle"} \cup Writing \cup Deleting \cup Repairing]
      /\ pc'[p] \in {"sweep", "unlink"}
      /\ \A q \in Procs \ {p} : pc'[q] = pc[q] /\ todo'[q] = todo[q]
  BY DEF IInv, TypeOK, Drop, Deleting
<1>4. TypeOK'
  BY <1>0, <1>1, <1>2, <1>3 DEF IInv, TypeOK, IndexTyped, Drop
<1>5. Sound'
  BY <1>0, <1>1, <1>3 DEF IInv, TypeOK, Sound, IndexTyped, Drop, Writing, Repairing
<1> QED BY <1>4, <1>5 DEF IInv

LEMMA UnlinkInv ==
  ASSUME IInv, NEW p \in Procs, Unlink(p)
  PROVE  IInv'
<1> USE HomesTyped DEF index, Goto, Return
<1>0. entry[p] \in Homes
  BY DEF IInv, Sound, Unlink, Deleting
<1>1. files' \subseteq files
  BY DEF Unlink, Unlinked
<1>2. TypeOK'
  BY <1>0, <1>1 DEF IInv, TypeOK, Unlink, NoEntry
<1>3. Sound'
  BY <1>1 DEF IInv, TypeOK, Sound, Unlink, Writing, Repairing
<1> QED BY <1>2, <1>3 DEF IInv

LEMMA DropRepositoryInv ==
  ASSUME IInv, NEW p \in Procs, NEW r \in Repos, DropRepository(p, r)
  PROVE  IInv'
<1> USE HomesTyped DEF disk, Goto
<1>1. IndexTyped'
  BY TypedByForget DEF IInv, TypeOK, Sound, IndexTyped, DropRepository, DropScans
<1>2. todo' \in [Procs -> SUBSET (Entries \cup (Repos \X {0}))]
  BY DirectoryTyped DEF IInv, TypeOK, DropRepository
<1>3. <<r, 0>> \in Repos \X {0} /\ <<r, 0>>[1] = r
  OBVIOUS
<1>4. TypeOK'
  BY <1>1, <1>2, <1>3 DEF IInv, TypeOK, IndexTyped, DropRepository, Deleting
<1>5. Sound'
  BY <1>1, <1>3 DEF IInv, TypeOK, Sound, IndexTyped, DropRepository, Writing, Repairing
<1> QED BY <1>4, <1>5 DEF IInv

LEMMA SweepInv ==
  ASSUME IInv, NEW p \in Procs, NEW e, Sweep(p, e)
  PROVE  IInv'
<1> USE DEF index, history
<1>1. files' \subseteq files /\ descriptors' \subseteq descriptors
  BY DEF Sweep
<1>2. TypeOK'
  BY <1>1 DEF IInv, TypeOK, Sweep
<1>3. Sound'
  BY <1>1 DEF IInv, TypeOK, Sound, Sweep, Writing, Repairing
<1> QED BY <1>2, <1>3 DEF IInv

LEMMA RemoveDirectoryInv ==
  ASSUME IInv, NEW p \in Procs, RemoveDirectory(p)
  PROVE  IInv'
<1> USE DEF disk, index, Goto, Return
<1>1. entry[p][1] \in Repos
  BY DEF IInv, Sound, RemoveDirectory
<1>2. gone' \subseteq Entries
  BY <1>1 DEF IInv, TypeOK, RemoveDirectory, Entries
<1>3. TypeOK'
  BY <1>2 DEF IInv, TypeOK, RemoveDirectory, NoEntry
<1>4. Sound'
  BY DEF IInv, TypeOK, Sound, RemoveDirectory, Writing, Repairing
<1> QED BY <1>3, <1>4 DEF IInv

LEMMA RepairInv ==
  ASSUME IInv, NEW p \in Procs, NEW damaged \in BOOLEAN, Repair(p, damaged)
  PROVE  IInv'
<1> USE HomesTyped DEF disk, index, history, Goto
<1>1. IndexTyped'
  <2>1. CASE Wipe
    BY <2>1, TypedByWipe
  <2>2. CASE UNCHANGED index
    BY <2>2 DEF IInv, TypeOK, Sound, IndexTyped
  <2> QED BY <2>1, <2>2 DEF Repair
<1>2. todo' = [todo EXCEPT ![p] = files] /\ files \subseteq Entries
  BY DEF Repair, IInv, TypeOK
<1>3. TypeOK'
  BY <1>1, <1>2 DEF IInv, TypeOK, IndexTyped, Repair, Repairing
<1>4. Sound'
  BY <1>1, <1>2 DEF IInv, TypeOK, Sound, IndexTyped, Repair, Writing, Repairing
<1> QED BY <1>3, <1>4 DEF IInv

LEMMA ExamineInv ==
  ASSUME IInv, NEW p \in Procs, NEW e, Examine(p, e)
  PROVE  IInv'
<1> USE HomesTyped DEF disk, index, history, Goto
<1>1. e \in Homes /\ todo[p] \ {e} \subseteq Homes
  BY DEF IInv, Sound, Examine, Repairing
<1>2. todo' = [todo EXCEPT ![p] = todo[p] \ {e}] /\ pc[p] = "rebuild"
  BY DEF Examine
<1>3. CASE pc' = [pc EXCEPT ![p] = "restat"] /\ entry' = [entry EXCEPT ![p] = e]
  <2>1. TypeOK'
    BY <1>1, <1>2, <1>3 DEF IInv, TypeOK, Examine, Repairing
  <2>2. Sound'
    BY <1>1, <1>2, <1>3 DEF IInv, TypeOK, Sound, Examine, Writing, Repairing
  <2> QED BY <2>1, <2>2 DEF IInv
<1>4. CASE UNCHANGED <<pc, entry>>
  <2>1. TypeOK'
    BY <1>1, <1>2, <1>4 DEF IInv, TypeOK, Examine, Repairing
  <2>2. Sound'
    BY <1>1, <1>2, <1>4 DEF IInv, TypeOK, Sound, Examine, Writing, Repairing
  <2> QED BY <2>1, <2>2 DEF IInv
<1> QED BY <1>3, <1>4 DEF Examine

LEMMA ReindexInv ==
  ASSUME IInv, NEW p \in Procs, Reindex(p)
  PROVE  IInv'
<1> USE HomesTyped DEF disk, history, Goto
<1>0. entry[p] \in Homes
  BY DEF IInv, Sound, Reindex, Repairing
<1>1. IndexTyped'
  BY <1>0, TypedByIndex DEF IInv, TypeOK, Sound, IndexTyped, Reindex
<1>2. TypeOK'
  BY <1>0, <1>1 DEF IInv, TypeOK, IndexTyped, Reindex, Repairing, NoEntry
<1>3. Sound'
  BY <1>0, <1>1 DEF IInv, TypeOK, Sound, IndexTyped, Reindex, Writing, Repairing
<1> QED BY <1>2, <1>3 DEF IInv

(* An operation that returns leaves nothing behind it to check.            *)
LEMMA ReturnInv ==
  ASSUME IInv, NEW p \in Procs, Return(p), UNCHANGED <<disk, index, history>>
  PROVE  IInv'
<1> USE DEF disk, index, history, Goto, Return
<1>1. TypeOK'
  BY DEF IInv, TypeOK, NoEntry
<1>2. Sound'
  BY DEF IInv, TypeOK, Sound, Writing, Repairing
<1> QED BY <1>1, <1>2 DEF IInv

LEMMA ResetInv ==
  ASSUME IInv, Reset
  PROVE  IInv'
<1> USE DEF disk, history, local
<1>1. IndexTyped'
  BY TypedByWipe DEF Reset
<1>2. TypeOK'
  BY <1>1, HomesTyped DEF IInv, TypeOK, IndexTyped, Reset
<1>3. Sound'
  BY <1>1 DEF IInv, TypeOK, Sound, IndexTyped, Reset, Writing, Repairing
<1> QED BY <1>2, <1>3 DEF IInv

LEMMA StutterInv ==
  ASSUME IInv, UNCHANGED vars
  PROVE  IInv'
<1>1. TypeOK'
  BY DEF IInv, TypeOK, vars
<1>2. Sound'
  BY DEF IInv, TypeOK, Sound, vars, Writing, Repairing
<1> QED BY <1>1, <1>2 DEF IInv

LEMMA StepInv == IInv /\ [Next]_vars => IInv'
<1> SUFFICES ASSUME IInv, [Next]_vars PROVE IInv'
  OBVIOUS
<1>1. ASSUME NEW p \in Procs, Store(p) PROVE IInv'
  BY <1>1, StartInv, WriteArtifactInv, WriteDescriptorInv, StatInv, CommitInv
     DEF Store, Homes
<1>2. ASSUME NEW p \in Procs, Delete(p) PROVE IInv'
  BY <1>2, FindScanInv, DropInv, UnlinkInv, DropRepositoryInv, SweepInv,
     RemoveDirectoryInv DEF Delete
<1>3. ASSUME NEW p \in Procs, Rebuild(p) PROVE IInv'
  BY <1>3, RepairInv, ExamineInv, ReindexInv, ReturnInv DEF Rebuild, Repaired
<1>4. ASSUME NEW p \in Procs, Stop(p) PROVE IInv'
  BY <1>4, ReturnInv DEF Stop
<1> QED BY <1>1, <1>2, <1>3, <1>4, ResetInv, StutterInv DEF Next

(* What is on disk, listed or being worked on has been stored by somebody. *)
THEOREM Soundness == Spec => []IInv
<1>1. Init => IInv
  BY InitInv
<1>2. IInv /\ [Next]_vars => IInv'
  BY StepInv
<1> QED BY <1>1, <1>2, PTL DEF Spec

(* Type correctness of the store. *)
THEOREM TypeCorrect == Spec => []TypeOK
<1>1. IInv => TypeOK
  BY DEF IInv
<1> QED BY <1>1, Soundness, PTL

-----------------------------------------------------------------------------
(***************************************************************************)
(* The index describes the scans it lists. The upsert of Index and the     *)
(* recomputation of DropScan keep the dates of one repository each. Those  *)
(* of the others stay while a row may go from them: what they cover only   *)
(* gets less, and whoever loses a row is robbed from then on.              *)
(***************************************************************************)
Spans(r) == \E d, e \in rows : /\ d[1] = r /\ first[r] = At[d[2]]
                               /\ e[1] = r /\ last[r] = At[e[2]]
Exact ==
  /\ robbed \subseteq repositories
  /\ \A e \in rows : e[1] \in repositories
  /\ \A e \in rows : first[e[1]] <= At[e[2]] /\ At[e[2]] <= last[e[1]]
  /\ \A r \in repositories \ robbed : Spans(r)

(* A repository whose dates stay spans its rows as long as they all stay.  *)
LEMMA SpansStill ==
  ASSUME NEW q, Spans(q), first'[q] = first[q], last'[q] = last[q],
         \A e \in rows : e[1] = q => e \in rows'
  PROVE  Spans(q)'
<1>1. PICK d, e \in rows : /\ d[1] = q /\ first[q] = At[d[2]]
                           /\ e[1] = q /\ last[q] = At[e[2]]
  BY DEF Spans
<1> QED BY <1>1 DEF Spans

LEMMA ExactByIndex ==
  ASSUME IndexTyped, Exact, NEW h \in Homes, Index(h[1], h[2])
  PROVE  Exact'
<1> DEFINE r == h[1]
           s == h[2]
<1>0. /\ h = <<r, s>> /\ r \in Repos /\ s \in Scans /\ At[s] \in Nat
      /\ \A e \in Homes : e = <<e[1], e[2]>> /\ e[1] \in Repos /\ At[e[2]] \in Nat
  BY HomesTyped
<1>1. \A e : e \in rows' <=> (e \in rows /\ e[2] # s) \/ e = h
  BY <1>0 DEF Index, Others
<1>2. /\ \A e \in rows : e \in Homes /\ (e[2] = s => e[1] = r \/ e[1] \in robbed')
      /\ robbed \subseteq robbed'
  BY <1>0 DEF IndexTyped, Index, Strangers
<1>3. /\ first'[r] = FirstSeen(r, s) /\ last'[r] = LastSeen(r, s)
      /\ \A q \in Repos \ {r} : first'[q] = first[q] /\ last'[q] = last[q]
      /\ repositories' = repositories \cup {r}
  BY <1>0 DEF Index, IndexTyped
<1>4. /\ r \in repositories => first[r] \in Nat /\ last[r] \in Nat
      /\ \A q \in repositories : q \in Repos
  BY <1>0 DEF IndexTyped
<1>5. /\ \A e \in rows' : e[1] \in repositories'
      /\ robbed' \subseteq repositories'
  BY <1>0, <1>1, <1>3 DEF Exact, Index, Strangers
<1>6. ASSUME NEW e \in rows'
      PROVE  first'[e[1]] <= At[e[2]] /\ At[e[2]] <= last'[e[1]]
  <2>1. CASE e = h
    BY <1>0, <1>3, <1>4, <2>1 DEF FirstSeen, LastSeen, Earlier, Later
  <2>2. CASE e # h /\ e[1] # r
    <3>1. e \in rows /\ e[1] \in Repos
      BY <1>0, <1>1, <1>2, <2>2
    <3> QED BY <1>3, <2>2, <3>1 DEF Exact
  <2>3. CASE e # h /\ e[1] = r
    <3>1. e \in rows /\ r \in repositories /\ At[e[2]] \in Nat
          /\ first[r] <= At[e[2]] /\ At[e[2]] <= last[r]
      BY <1>0, <1>1, <1>2, <2>3 DEF Exact
    <3> QED BY <1>0, <1>3, <1>4, <2>3, <3>1 DEF FirstSeen, LastSeen, Earlier, Later
  <2> QED BY <2>1, <2>2, <2>3
<1>7. ASSUME NEW q \in repositories' \ robbed'
      PROVE  Spans(q)'
  <2>1. CASE q # r
    <3>1. q \in repositories \ robbed /\ q \in Repos
      BY <1>2, <1>3, <1>4, <2>1
    <3>2. \A e \in rows : e[1] = q => e \in rows'
      BY <1>1, <1>2, <2>1
    <3> QED BY <1>3, <2>1, <3>1, <3>2, SpansStill DEF Exact
  <2>2. CASE q = r /\ r \notin repositories
    BY <1>0, <1>1, <1>3, <2>2 DEF FirstSeen, LastSeen, Spans
  <2>3. CASE q = r /\ r \in repositories
    <3>1. PICK d, e \in rows :
            /\ d[1] = r /\ first[r] = At[d[2]]
            /\ e[1] = r /\ last[r] = At[e[2]]
      BY <1>2, <2>3 DEF Exact, Spans
    <3>2. \E c \in rows' : c[1] = r /\ first'[r] = At[c[2]]
      <4>1. CASE first[r] < At[s]
        <5>1. d[2] # s /\ first'[r] = first[r]
          BY <1>0, <1>3, <1>4, <2>3, <3>1, <4>1 DEF FirstSeen, Earlier
        <5> QED BY <1>1, <3>1, <5>1
      <4>2. CASE ~(first[r] < At[s])
        <5>1. first'[r] = At[s]
          BY <1>3, <2>3, <4>2 DEF FirstSeen, Earlier
        <5> QED BY <1>0, <1>1, <5>1
      <4> QED BY <4>1, <4>2
    <3>3. \E c \in rows' : c[1] = r /\ last'[r] = At[c[2]]
      <4>1. CASE last[r] < At[s]
        <5>1. last'[r] = At[s]
          BY <1>3, <2>3, <4>1 DEF LastSeen, Later
        <5> QED BY <1>0, <1>1, <5>1
      <4>2. CASE ~(last[r] < At[s])
        <5>1. last'[r] = last[r]
          BY <1>3, <2>3, <4>2 DEF LastSeen, Later
        <5>2. CASE e[2] # s
          BY <1>1, <3>1, <5>1, <5>2
        <5>3. CASE e[2] = s
          BY <1>0, <1>1, <3>1, <5>1, <5>3
        <5> QED BY <5>2, <5>3
      <4> QED BY <4>1, <4>2
    <3> QED BY <2>3, <3>2, <3>3 DEF Spans
  <2> QED BY <2>1, <2>2, <2>3
<1> QED BY <1>5, <1>6, <1>7 DEF Exact

(* A repository goes together with its scans; those who lose one are       *)
(* robbed.                                                                 *)
LEMMA ExactByForget ==
  ASSUME IndexTyped, Exact, NEW r \in Repos, Forget(r),
         rows' \subseteq rows, \A e \in rows' : e[1] # r,
         \A e \in rows : e[1] # r => e \in rows' \/ e[1] \in robbed',
         robbed' \subseteq repositories \ {r}, robbed \subseteq robbed' \cup {r}
  PROVE  Exact'
<1>1. /\ repositories' = repositories \ {r} /\ repositories \subseteq Repos
      /\ \A q \in Repos \ {r} : first'[q] = first[q] /\ last'[q] = last[q]
  BY DEF Forget, IndexTyped
<1>2. /\ \A e \in rows' : e[1] \in repositories'
      /\ robbed' \subseteq repositories'
  BY <1>1 DEF Exact
<1>3. \A e \in rows' : first'[e[1]] <= At[e[2]] /\ At[e[2]] <= last'[e[1]]
  BY <1>1 DEF Exact
<1>4. ASSUME NEW q \in repositories' \ robbed'
      PROVE  Spans(q)'
  <2>1. q \in repositories \ robbed /\ q \in Repos \ {r}
    BY <1>1
  <2> QED BY <1>1, <2>1, SpansStill DEF Exact
<1> QED BY <1>2, <1>3, <1>4 DEF Exact

LEMMA ExactByDropScan ==
  ASSUME IndexTyped, Exact, NEW h \in Homes, DropScan(h[1], h[2])
  PROVE  Exact'
<1> DEFINE r == h[1]
           s == h[2]
           left == RowsOf(r) \cap Others(r, s)
<1>0. r \in Repos /\ \A e \in Homes : e[1] \in Repos
  BY HomesTyped
<1>1. \A e : e \in rows' <=> e \in rows /\ e[2] # s
  BY DEF DropScan, Others
<1>2. /\ \A e \in rows : e \in Homes /\ (e[2] = s => e[1] = r \/ e[1] \in robbed')
      /\ robbed' \subseteq repositories \ {r} /\ robbed \subseteq robbed' \cup {r}
  BY DEF IndexTyped, DropScan, Strangers, Exact
<1>3. \A e : e \in left <=> e \in rows' /\ e[1] = r
  BY <1>1 DEF RowsOf, Others
<1>4. CASE Emptied(r, s)
  <2>1. left = {}
    BY <1>4 DEF Emptied
  <2>2. /\ rows' \subseteq rows /\ \A e \in rows' : e[1] # r
        /\ \A e \in rows : e[1] # r => e \in rows' \/ e[1] \in robbed'
    BY <1>1, <1>2, <1>3, <2>1
  <2>3. Forget(r)
    BY <1>4 DEF DropScan
  <2> HIDE DEF r
  <2> QED BY <1>0, <1>2, <2>2, <2>3, ExactByForget
<1>5. CASE ~Emptied(r, s)
  <2>1. PICK d, e \in left :
          /\ \A f \in left : At[d[2]] <= At[f[2]] /\ At[f[2]] <= At[e[2]]
          /\ first' = [first EXCEPT ![r] = At[d[2]]]
          /\ last' = [last EXCEPT ![r] = At[e[2]]]
          /\ UNCHANGED repositories
    BY <1>5 DEF DropScan, Narrow
  <2>2. /\ first'[r] = At[d[2]] /\ last'[r] = At[e[2]]
        /\ \A q \in Repos \ {r} : first'[q] = first[q] /\ last'[q] = last[q]
        /\ repositories' = repositories /\ repositories \subseteq Repos
    BY <1>0, <2>1 DEF IndexTyped
  <2>3. d \in rows' /\ d[1] = r /\ e \in rows' /\ e[1] = r
    BY <1>3, <2>1
  <2>4. /\ \A f \in rows' : f[1] \in repositories'
        /\ robbed' \subseteq repositories'
    BY <1>1, <1>2, <2>2 DEF Exact
  <2>5. ASSUME NEW f \in rows'
        PROVE  first'[f[1]] <= At[f[2]] /\ At[f[2]] <= last'[f[1]]
    <3>1. CASE f[1] = r
      BY <1>3, <2>1, <2>2, <3>1
    <3>2. CASE f[1] # r
      <4>1. f \in rows /\ f[1] \in Repos
        BY <1>0, <1>1, <1>2
      <4> QED BY <2>2, <3>2, <4>1 DEF Exact
    <3> QED BY <3>1, <3>2
  <2>6. ASSUME NEW q \in repositories' \ robbed'
        PROVE  Spans(q)'
    <3>1. CASE q = r
      BY <2>2, <2>3, <3>1 DEF Spans
    <3>2. CASE q # r
      <4>1. q \in repositories \ robbed /\ q \in Repos \ {r}
        BY <1>2, <2>2, <3>2
      <4>2. \A f \in rows : f[1] = q => f \in rows'
        BY <1>1, <1>2, <3>2
      <4> QED BY <2>2, <4>1, <4>2, SpansStill DEF Exact
    <3> QED BY <3>1, <3>2
  <2> QED BY <2>4, <2>5, <2>6 DEF Exact
<1> QED BY <1>4, <1>5

LEMMA ExactByDropScans ==
  ASSUME IndexTyped, Exact, NEW r \in Repos, DropScans(r)
  PROVE  Exact'
<1>1. /\ rows' \subseteq rows /\ \A e \in rows' : e[1] # r
      /\ \A e \in rows : e[1] # r => e \in rows'
      /\ robbed' = robbed \ {r} /\ Forget(r)
  BY DEF DropScans, RowsOf
<1>2. robbed' \subseteq repositories \ {r} /\ robbed \subseteq robbed' \cup {r}
  BY <1>1 DEF Exact
<1> QED BY <1>1, <1>2, ExactByForget

LEMMA ExactByWipe ==
  ASSUME Wipe
  PROVE  Exact'
BY DEF Wipe, Exact

(* Every step of the store is at most one transaction on the index.        *)
LEMMA OneTransaction ==
  ASSUME IInv, [Next]_vars
  PROVE  \/ UNCHANGED index
         \/ \E h \in Homes : Index(h[1], h[2])
         \/ \E h \in Homes : DropScan(h[1], h[2])
         \/ \E r \in Repos : DropScans(r)
         \/ Wipe
<1> DEFINE Transaction ==
             \/ UNCHANGED index
             \/ \E h \in Homes : Index(h[1], h[2])
             \/ \E h \in Homes : DropScan(h[1], h[2])
             \/ \E r \in Repos : DropScans(r)
             \/ Wipe
<1>1. ASSUME NEW p \in Procs, Store(p) PROVE Transaction
  <2>1. CASE Commit(p)
    BY <2>1 DEF Commit, IInv, Sound, Writing
  <2>2. CASE UNCHANGED index
    BY <2>2
  <2> QED BY <1>1, <2>1, <2>2
          DEF Store, Start, WriteArtifact, WriteDescriptor, Stat, index
<1>2. ASSUME NEW p \in Procs, Delete(p) PROVE Transaction
  <2>1. CASE Drop(p)
    BY <2>1 DEF Drop, IInv, Sound
  <2>2. CASE \E r \in Repos : DropRepository(p, r)
    BY <2>2 DEF DropRepository
  <2>3. CASE UNCHANGED index
    BY <2>3
  <2> QED BY <1>2, <2>1, <2>2, <2>3
          DEF Delete, FindScan, Unlink, Sweep, RemoveDirectory
<1>3. ASSUME NEW p \in Procs, Rebuild(p) PROVE Transaction
  <2>1. CASE Reindex(p)
    BY <2>1 DEF Reindex, IInv, Sound
  <2>2. CASE \E damaged \in BOOLEAN : Repair(p, damaged)
    BY <2>2 DEF Repair
  <2>3. CASE UNCHANGED index
    BY <2>3
  <2> QED BY <1>3, <2>1, <2>2, <2>3 DEF Rebuild, Examine, Repaired
<1>4. ASSUME NEW p \in Procs, Stop(p) PROVE Transaction
  BY <1>4 DEF Stop
<1>5. CASE Reset
  BY <1>5 DEF Reset
<1>6. CASE UNCHANGED vars
  BY <1>6 DEF vars, index
<1> QED BY <1>1, <1>2, <1>3, <1>4, <1>5, <1>6 DEF Next

LEMMA ExactStep ==
  ASSUME IInv, Exact, [Next]_vars
  PROVE  Exact'
<1>1. IndexTyped
  BY DEF IInv, TypeOK, Sound, IndexTyped
<1>2. CASE UNCHANGED index
  BY <1>2 DEF index, Exact, Spans
<1> QED BY <1>1, <1>2, OneTransaction, ExactByIndex, ExactByDropScan,
           ExactByDropScans, ExactByWipe

LEMMA ExactAlways == Spec => [](IInv /\ Exact)
<1>1. Init => IInv /\ Exact
  BY InitInv DEF Init, Exact
<1>2. IInv /\ Exact /\ [Next]_vars => IInv' /\ Exact'
  BY StepInv, ExactStep
<1> QED BY <1>1, <1>2, PTL DEF Spec

(* The dates of a repository cover its stored scans, and are those of the  *)
(* earliest and the latest of them unless another repository took one,     *)
(* whatever is recorded, deleted, repaired or lost at once.                *)
THEOREM DatesAreExact == Spec => []DateRangeExact
<1>1. IInv /\ Exact => DateRangeExact
  <2> SUFFICES ASSUME IInv, Exact
               PROVE  \A r \in repositories \ robbed :
                        \E d, e \in RowsOf(r) : first[r] = At[d[2]] /\ last[r] = At[e[2]]
    BY DEF DateRangeExact, Exact
  <2> QED BY DEF Exact, Spans, RowsOf
<1> QED BY <1>1, ExactAlways, PTL

(* No scan is listed without its repository, and no repository without a   *)
(* scan unless another repository took one of its scans.                   *)
THEOREM RepositoriesHaveScans == Spec => []NoEmptyRepository
<1>1. IInv /\ Exact => NoEmptyRepository
  BY DEF Exact, Spans, NoEmptyRepository
<1> QED BY <1>1, ExactAlways, PTL

(***************************************************************************)
(* The index implements the catalogue: each transaction is a change of the *)
(* shelf, and Exact is the catalogue's description of it.                  *)
(***************************************************************************)
LEMMA ChangesShelf ==
  ASSUME IInv, [Next]_vars
  PROVE  \/ UNCHANGED index
         \/ \E r \in Repos, s \in Scans : Listed!Put(r, s) \/ Listed!Take(r, s)
         \/ \E r \in Repos : Listed!TakeAll(r)
         \/ Listed!Clear
<1>1. ASSUME NEW h \in Homes, Index(h[1], h[2])
      PROVE  \E r \in Repos, s \in Scans : Listed!Put(r, s)
  <2>1. h[1] \in Repos /\ h[2] \in Scans
    BY HomesTyped
  <2> QED BY <1>1, <2>1
          DEF Index, Others, Strangers, Listed!Put, Listed!Without, Listed!Strangers
<1>2. ASSUME NEW h \in Homes, DropScan(h[1], h[2])
      PROVE  \E r \in Repos, s \in Scans : Listed!Take(r, s)
  <2>1. h[1] \in Repos /\ h[2] \in Scans
    BY HomesTyped
  <2> QED BY <1>2, <2>1
          DEF DropScan, Others, Strangers, Listed!Take, Listed!Without, Listed!Strangers
<1>3. ASSUME NEW r \in Repos, DropScans(r)
      PROVE  Listed!TakeAll(r)
  BY <1>3 DEF DropScans, RowsOf, Listed!TakeAll
<1>4. Wipe => Listed!Clear
  BY DEF Wipe, Listed!Clear
<1> QED BY <1>1, <1>2, <1>3, <1>4, OneTransaction

(* The store's index refines the abstract catalogue: clients see single    *)
(* changes of the listed scans and dates that describe them, except those  *)
(* of a repository that lost a scan to another one.                        *)
THEOREM IndexImplementsCatalogue == Spec => ImplementsCatalogue
<1>1. Init => Listed!CatalogueInit
  BY DEF Init, Listed!CatalogueInit, Listed!Described
<1>2. IInv /\ Exact /\ IInv' /\ Exact' /\ [Next]_vars
        => [Listed!CatalogueNext]_(Listed!catalogueVars)
  <2> SUFFICES ASSUME IInv, Exact, IInv', Exact', [Next]_vars
               PROVE  [Listed!CatalogueNext]_(Listed!catalogueVars)
    OBVIOUS
  <2>1. CASE UNCHANGED index
    BY <2>1 DEF index, Listed!catalogueVars
  <2>2. Listed!Described'
    BY DEF Exact, Spans, Listed!Described
  <2> QED BY <2>1, <2>2, ChangesShelf DEF Listed!CatalogueNext
<1> QED BY <1>1, <1>2, ExactAlways, PTL
        DEF Spec, ImplementsCatalogue, Listed!CatalogueSpec

-----------------------------------------------------------------------------
(***************************************************************************)
(* Listed scans can be opened as long as deletions run alone: while one is *)
(* under way everybody else is idle, and its rows are gone before it       *)
(* touches a file.                                                         *)
(***************************************************************************)
Covered ==
  /\ rows \subseteq files
  /\ \A e \in rows : e[1] \in descriptors
  /\ \A p \in Procs :
       pc[p] \in {"stat", "commit", "restat", "recommit"} => entry[p][1] \in descriptors
  /\ \A p \in Procs : pc[p] \in {"commit", "recommit"} => entry[p] \in files
  /\ \A p \in Procs : pc[p] \in Deleting => Alone(p)
  /\ \A p \in Procs : pc[p] = "unlink" => entry[p] \notin rows
  /\ \A p \in Procs : pc[p] = "sweep" => \A e \in rows : e[1] # entry[p][1]

LEMMA CoveredByStore ==
  ASSUME DeletesAlone, IInv, Covered, NEW p \in Procs, Store(p)
  PROVE  Covered'
<1> USE DEF Covered, Alone, Idle, MayStart, Goto, Return, Deleting, disk, index
<1>1. CASE \E e \in Analyses \cup Imports : Start(p, e)
  BY <1>1 DEF Start, IInv, TypeOK
<1>2. CASE WriteArtifact(p)
  BY <1>2 DEF WriteArtifact, IInv, TypeOK
<1>3. CASE WriteDescriptor(p)
  BY <1>3 DEF WriteDescriptor, IInv, TypeOK
<1>4. CASE Stat(p)
  BY <1>4 DEF Stat, IInv, TypeOK
<1>5. CASE Commit(p)
  <2>1. \A q \in Procs : pc[q] \notin Deleting
    BY <1>5 DEF Commit, IInv, TypeOK
  <2>2. rows' \subseteq files'
    <3>1. entry[p] = <<entry[p][1], entry[p][2]>> /\ entry[p] \in files
      BY <1>5, HomesTyped DEF Commit, IInv, Sound, Writing
    <3> QED BY <1>5, <3>1 DEF Commit, Index, Others
  <2>3. \A e \in rows' : e[1] \in descriptors'
    BY <1>5 DEF Commit, Index, Others
  <2>4. /\ pc'[p] = "idle" /\ files' = files /\ descriptors' = descriptors
        /\ \A q \in Procs \ {p} : pc'[q] = pc[q] /\ entry'[q] = entry[q]
    BY <1>5 DEF Commit, IInv, TypeOK
  <2> QED BY <2>1, <2>2, <2>3, <2>4
<1> QED BY <1>1, <1>2, <1>3, <1>4, <1>5 DEF Store

LEMMA CoveredByDelete ==
  ASSUME DeletesAlone, IInv, Covered, NEW p \in Procs, Delete(p)
  PROVE  Covered'
<1> USE DEF Covered, Alone, Idle, MayDelete, Goto, Return, Deleting, disk, index
<1>1. CASE \E e \in rows : FindScan(p, e)
  BY <1>1 DEF FindScan, IInv, TypeOK
<1>2. CASE Drop(p)
  <2> DEFINE r == entry[p][1]
             s == entry[p][2]
  <2>1. /\ rows' = Others(r, s) /\ files' = files /\ entry' = entry
        /\ descriptors' = descriptors
        /\ pc' = [pc EXCEPT ![p] = IF Emptied(r, s) THEN "sweep" ELSE "unlink"]
    BY <1>2 DEF Drop, DropScan
  <2>2. entry[p] \notin rows' /\ rows' \subseteq rows
    BY <2>1 DEF Others
  <2>3. Emptied(r, s) => \A e \in rows' : e[1] # r
    BY <2>1, <2>2 DEF Emptied, RowsOf
  <2>4. \A q \in Procs \ {p} : pc[q] = "idle"
    BY <1>2 DEF Drop
  <2> HIDE DEF r, s
  <2>5. /\ pc'[p] = IF Emptied(r, s) THEN "sweep" ELSE "unlink"
        /\ \A q \in Procs \ {p} : pc'[q] = "idle"
    BY <2>1, <2>4 DEF IInv, TypeOK
  <2> QED BY <2>1, <2>2, <2>3, <2>5 DEF r
<1>3. CASE Unlink(p)
  <2>1. /\ files' = files \ {entry[p]}
        /\ rows' = rows /\ descriptors' = descriptors
    BY <1>3 DEF Unlink, Unlinked
  <2>2. \A q \in Procs : pc'[q] = "idle"
    BY <1>3 DEF Unlink, IInv, TypeOK
  <2>3. entry[p] \notin rows
    BY <1>3 DEF Unlink
  <2> QED BY <2>1, <2>2, <2>3
<1>4. CASE \E r \in Repos : DropRepository(p, r)
  <2>1. PICK r \in Repos : DropRepository(p, r)
    BY <1>4
  <2>2. rows' \subseteq rows /\ \A e \in rows' : e[1] # r
    BY <2>1 DEF DropRepository, DropScans, RowsOf
  <2>3. /\ pc'[p] = "sweep" /\ entry'[p][1] = r
        /\ \A q \in Procs \ {p} : pc'[q] = "idle"
    BY <2>1 DEF DropRepository, IInv, TypeOK
  <2> QED BY <2>1, <2>2, <2>3 DEF DropRepository
<1>5. CASE \E e \in Directory(entry[p][1]) : Sweep(p, e)
  <2>1. PICK e \in Directory(entry[p][1]) : Sweep(p, e)
    BY <1>5
  <2>2. /\ files' = files \ {e} /\ UNCHANGED <<rows, pc, entry>> /\ e \notin rows
        /\ descriptors \ {entry[p][1]} \subseteq descriptors'
    BY <2>1 DEF Sweep, Directory
  <2>3. \A q \in Procs \ {p} : pc[q] = "idle"
    BY <2>1 DEF Sweep
  <2>4. pc[p] = "sweep"
    BY <2>1 DEF Sweep
  <2>5. \A f \in rows' : f[1] \in descriptors'
    BY <2>2, <2>4
  <2> QED BY <2>2, <2>3, <2>4, <2>5
<1>6. CASE RemoveDirectory(p)
  BY <1>6 DEF RemoveDirectory, IInv, TypeOK
<1> QED BY <1>1, <1>2, <1>3, <1>4, <1>5, <1>6 DEF Delete

LEMMA CoveredByReturn ==
  ASSUME IInv, Covered, NEW p \in Procs, Return(p), UNCHANGED <<files, descriptors, rows>>
  PROVE  Covered'
BY DEF Covered, Alone, Idle, Goto, Return, Deleting, IInv, TypeOK

LEMMA CoveredByRebuild ==
  ASSUME DeletesAlone, IInv, Covered, NEW p \in Procs, Rebuild(p)
  PROVE  Covered'
<1> USE DEF Covered, Alone, Idle, MayStart, Goto, Deleting, disk, index
<1>1. CASE \E damaged \in BOOLEAN : Repair(p, damaged)
  <2>1. /\ rows' \subseteq rows /\ UNCHANGED <<files, descriptors, entry>>
        /\ pc' = [pc EXCEPT ![p] = "rebuild"]
        /\ \A q \in Procs : pc[q] \notin Deleting
    BY <1>1 DEF Repair, Wipe
  <2> QED BY <2>1 DEF IInv, TypeOK
<1>2. CASE \E e \in todo[p] : Examine(p, e)
  <2>1. PICK e \in todo[p] : Examine(p, e)
    BY <1>2
  <2>2. \A q \in Procs : pc[q] \notin Deleting
    BY <2>1 DEF Examine, IInv, TypeOK
  <2>3. /\ UNCHANGED <<files, descriptors, rows>> /\ pc'[p] \in {"rebuild", "restat"}
        /\ pc'[p] = "restat" => entry'[p][1] \in descriptors
        /\ \A q \in Procs \ {p} : pc'[q] = pc[q] /\ entry'[q] = entry[q]
    BY <2>1 DEF Examine, IInv, TypeOK
  <2> QED BY <2>2, <2>3
<1>3. CASE Reindex(p)
  <2>1. \A q \in Procs : pc[q] \notin Deleting
    BY <1>3 DEF Reindex, IInv, TypeOK
  <2>2. rows' \subseteq files'
    <3>1. entry[p] = <<entry[p][1], entry[p][2]>> /\ entry[p] \in files
      BY <1>3, HomesTyped DEF Reindex, IInv, Sound
    <3> QED BY <1>3, <3>1 DEF Reindex, Index, Others
  <2>4. \A e \in rows' : e[1] \in descriptors'
    BY <1>3 DEF Reindex, Index, Others
  <2>3. /\ pc'[p] = "rebuild" /\ files' = files /\ descriptors' = descriptors
        /\ \A q \in Procs \ {p} : pc'[q] = pc[q] /\ entry'[q] = entry[q]
    BY <1>3 DEF Reindex, IInv, TypeOK
  <2> QED BY <2>1, <2>2, <2>3, <2>4
<1>4. CASE Repaired(p)
  BY <1>4, CoveredByReturn DEF Repaired
<1> QED BY <1>1, <1>2, <1>3, <1>4 DEF Rebuild

LEMMA CoveredStep ==
  ASSUME DeletesAlone, IInv, Covered, [Next]_vars
  PROVE  Covered'
<1>1. ASSUME NEW p \in Procs, Stop(p) PROVE Covered'
  BY <1>1, CoveredByReturn DEF Stop, disk, index
<1>2. CASE Reset
  BY <1>2 DEF Reset, Wipe, disk, local, Idle, Covered, Deleting
<1>3. CASE UNCHANGED vars
  BY <1>3 DEF vars, Covered, Alone, Idle
<1> QED BY <1>1, <1>2, <1>3, CoveredByStore, CoveredByDelete, CoveredByRebuild
        DEF Next

LEMMA CoveredAlways ==
  ASSUME DeletesAlone
  PROVE  Spec => [](IInv /\ Covered)
<1>1. Init => IInv /\ Covered
  BY InitInv DEF Init, Covered, Deleting
<1>2. IInv /\ Covered /\ [Next]_vars => IInv' /\ Covered'
  BY StepInv, CoveredStep
<1> QED BY <1>1, <1>2, PTL DEF Spec

(* A listed scan can be opened and indexed again, provided deletions       *)
(* overlap nothing else.                                                   *)
THEOREM ListedCanBeOpened ==
  ASSUME DeletesAlone
  PROVE  Spec => []ListedIsRecoverable
<1>1. Covered => ListedIsRecoverable
  BY DEF Covered, ListedIsRecoverable
<1> QED BY <1>1, CoveredAlways, PTL

-----------------------------------------------------------------------------
(***************************************************************************)
(* What was deleted is not on disk, whoever else works on the store; and   *)
(* what is not on disk is not listed, as long as deletions run alone.      *)
(***************************************************************************)
Forgotten == gone \cap files = {}

LEMMA ForgottenStep ==
  ASSUME IInv, Forgotten, [Next]_vars
  PROVE  Forgotten'
<1> USE DEF Forgotten, disk, history
<1>1. ASSUME NEW p \in Procs, Store(p) PROVE Forgotten'
  BY <1>1 DEF Store, Start, WriteArtifact, WriteDescriptor, Stat, Commit
<1>2. ASSUME NEW p \in Procs, Delete(p) PROVE Forgotten'
  <2>1. CASE Unlink(p)
    BY <2>1 DEF Unlink, Unlinked
  <2>2. CASE RemoveDirectory(p)
    <3>1. Directory(entry[p][1]) = {} => \A e \in files : e[1] # entry[p][1]
      BY DEF Directory
    <3> QED BY <2>2, <3>1 DEF RemoveDirectory
  <2> QED BY <1>2, <2>1, <2>2 DEF Delete, FindScan, Drop, DropRepository, Sweep
<1>3. ASSUME NEW p \in Procs, Rebuild(p) PROVE Forgotten'
  BY <1>3 DEF Rebuild, Repair, Examine, Reindex, Repaired
<1>4. ASSUME NEW p \in Procs, Stop(p) PROVE Forgotten'
  BY <1>4 DEF Stop
<1>5. CASE Reset
  BY <1>5 DEF Reset
<1>6. CASE UNCHANGED vars
  BY <1>6 DEF vars
<1> QED BY <1>1, <1>2, <1>3, <1>4, <1>5, <1>6 DEF Next

(* What was deleted with Ok is not listed again, by a repair or by an      *)
(* operation that was on its way, provided deletions overlap nothing else. *)
THEOREM DeletedIsNotListed ==
  ASSUME DeletesAlone
  PROVE  Spec => []DeletedStaysDeleted
<1>1. Init => Forgotten
  BY DEF Init, Forgotten
<1>2. IInv /\ Forgotten /\ [Next]_vars => Forgotten'
  BY ForgottenStep
<1>3. Covered /\ Forgotten => DeletedStaysDeleted
  BY DEF Covered, Forgotten, DeletedStaysDeleted
<1> QED BY <1>1, <1>2, <1>3, CoveredAlways, PTL DEF Spec

-----------------------------------------------------------------------------
(***************************************************************************)
(* What a repair has been through stays listed until the repair is over:   *)
(* nothing is deleted meanwhile, no other connection is open when the      *)
(* index is wiped, and another scan takes no row away (OneHome).           *)
(***************************************************************************)
Indexed ==
  \A p \in Procs :
    /\ done[p] \subseteq rows
    /\ pc[p] \notin Repairing => done[p] = {}

LEMMA IndexKeepsRows ==
  ASSUME OneHome, IInv, NEW h \in Homes, Index(h[1], h[2])
  PROVE  rows' = rows \cup {h}
<1>1. h = <<h[1], h[2]>> /\ \A e \in Homes : e = <<e[1], e[2]>>
  BY HomesTyped
<1>2. \A e \in rows : e[2] = h[2] => e = h
  BY <1>1 DEF OneHome, Homes, IInv, Sound
<1> QED BY <1>1, <1>2 DEF Index, Others

LEMMA IndexedByStore ==
  ASSUME OneHome, IInv, Indexed, NEW p \in Procs, Store(p)
  PROVE  Indexed'
<1> USE DEF Indexed, Goto, Idle, Repairing, index
<1>1. CASE \E e \in Analyses \cup Imports : Start(p, e)
  BY <1>1 DEF Start, MayStart, IInv, TypeOK
<1>2. CASE WriteArtifact(p)
  BY <1>2 DEF WriteArtifact, IInv, TypeOK
<1>3. CASE WriteDescriptor(p)
  BY <1>3 DEF WriteDescriptor, IInv, TypeOK
<1>4. CASE Stat(p)
  BY <1>4 DEF Stat, IInv, TypeOK
<1>5. CASE Commit(p)
  <2>1. rows \subseteq rows'
    <3>1. entry[p] \in Homes
      BY <1>5 DEF Commit, IInv, Sound, Writing
    <3> QED BY <1>5, <3>1, IndexKeepsRows DEF Commit
  <2> QED BY <1>5, <2>1 DEF Commit, Return, IInv, TypeOK
<1> QED BY <1>1, <1>2, <1>3, <1>4, <1>5 DEF Store

LEMMA IndexedByDelete ==
  ASSUME DeletesAlone, IInv, Covered, Indexed, NEW p \in Procs, Delete(p)
  PROVE  Indexed'
<1> USE DEF Indexed, Goto, Idle, Alone, MayDelete, Repairing, Deleting
<1>1. \A q \in Procs \ {p} : pc[q] = "idle"
  BY DEF Delete, Covered, FindScan, Drop, Unlink, DropRepository, Sweep, RemoveDirectory
<1>2. pc[p] \in {"idle", "drop", "unlink", "sweep"}
  BY DEF Delete, FindScan, Drop, Unlink, DropRepository, Sweep, RemoveDirectory
<1>3. \A q \in Procs : done[q] = {}
  BY <1>1, <1>2
<1>4. \A q \in Procs : done'[q] = {}
  <2>1. done' = done \/ done' = [done EXCEPT ![p] = {}]
    BY DEF Delete, FindScan, Drop, Unlink, DropRepository, Sweep, RemoveDirectory, Return
  <2> QED BY <1>3, <2>1 DEF IInv, TypeOK
<1> QED BY <1>4

LEMMA IndexedByRebuild ==
  ASSUME OneHome, IInv, Indexed, NEW p \in Procs, Rebuild(p)
  PROVE  Indexed'
<1> USE DEF Indexed, Goto, Idle, Alone, MayStart, Repairing, index
<1>1. CASE \E damaged \in BOOLEAN : Repair(p, damaged)
  <2>1. PICK damaged \in BOOLEAN : Repair(p, damaged)
    BY <1>1
  <2>2. done[p] = {} /\ done' = done
    BY <2>1 DEF Repair
  <2>3. UNCHANGED rows \/ \A q \in Procs : done[q] = {}
    BY <2>1, <2>2 DEF Repair
  <2> QED BY <2>1, <2>2, <2>3 DEF Repair, IInv, TypeOK
<1>2. CASE \E e \in todo[p] : Examine(p, e)
  BY <1>2 DEF Examine, IInv, TypeOK
<1>3. CASE Reindex(p)
  <2>1. rows' = rows \cup {entry[p]}
    <3>1. entry[p] \in Homes
      BY <1>3 DEF Reindex, IInv, Sound
    <3> QED BY <1>3, <3>1, IndexKeepsRows DEF Reindex
  <2> QED BY <1>3, <2>1 DEF Reindex, IInv, TypeOK
<1>4. CASE Repaired(p)
  BY <1>4 DEF Repaired, Return, IInv, TypeOK
<1> QED BY <1>1, <1>2, <1>3, <1>4 DEF Rebuild

(* The artifacts that a repair has indexed and that are still there are    *)
(* listed while it runs, provided deletions overlap nothing else and a     *)
(* scan has one repository only.                                           *)
THEOREM RepairListsWhatItIndexed ==
  ASSUME DeletesAlone, OneHome
  PROVE  Spec => []RepairIndexes
<1>1. Init => Indexed
  BY DEF Init, Indexed
<1>2. IInv /\ Covered /\ Indexed /\ [Next]_vars => Indexed'
  <2> SUFFICES ASSUME IInv, Covered, Indexed, [Next]_vars PROVE Indexed'
    OBVIOUS
  <2>1. ASSUME NEW p \in Procs, Stop(p) PROVE Indexed'
    BY <2>1 DEF Stop, Return, Goto, Indexed, Repairing, index, IInv, TypeOK
  <2>2. CASE Reset
    BY <2>2 DEF Reset, Idle, Indexed, Repairing, local
  <2>3. CASE UNCHANGED vars
    BY <2>3 DEF vars, Indexed
  <2> QED BY <2>1, <2>2, <2>3, IndexedByStore, IndexedByDelete, IndexedByRebuild
          DEF Next
<1>3. Indexed => RepairIndexes
  BY DEF Indexed, RepairIndexes
<1> QED BY <1>1, <1>2, <1>3, CoveredAlways, PTL DEF Spec

-----------------------------------------------------------------------------
(***************************************************************************)
(* An analysis that was stored with Ok is lost in two ways only: through   *)
(* the loss of the index, after which the deletion of another scan takes   *)
(* the whole directory for its own, and through a deletion that overlaps   *)
(* something else. Without them what is kept is listed, so no deletion of  *)
(* another scan empties its directory.                                     *)
(***************************************************************************)
KeptIsListed == kept \subseteq rows

LEMMA KeptIsListedStep ==
  ASSUME OneHome, ~MayReset, IInv, KeptIsListed, [Next]_vars
  PROVE  KeptIsListed'
<1> USE DEF KeptIsListed, index, history
<1>1. ASSUME NEW p \in Procs, Store(p) PROVE KeptIsListed'
  <2>1. CASE Commit(p)
    <3>1. entry[p] \in Homes
      BY <2>1 DEF Commit, IInv, Sound, Writing
    <3> QED BY <2>1, <3>1, IndexKeepsRows DEF Commit
  <2> QED BY <1>1, <2>1 DEF Store, Start, WriteArtifact, WriteDescriptor, Stat
<1>2. ASSUME NEW p \in Procs, Delete(p) PROVE KeptIsListed'
  <2>1. CASE Drop(p)
    <3>1. entry[p] \in Homes
      BY <2>1 DEF Drop, IInv, Sound, Writing
    <3>2. \A e \in rows : e[2] = entry[p][2] => e = entry[p]
      BY <3>1, HomesTyped DEF OneHome, Homes, IInv, Sound
    <3> QED BY <2>1, <3>2 DEF Drop, DropScan, Others
  <2>2. CASE \E r \in Repos : DropRepository(p, r)
    BY <2>2 DEF DropRepository, DropScans, RowsOf
  <2> QED BY <1>2, <2>1, <2>2 DEF Delete, FindScan, Unlink, Sweep, RemoveDirectory
<1>3. ASSUME NEW p \in Procs, Rebuild(p) PROVE KeptIsListed'
  <2>1. CASE Reindex(p)
    <3>1. entry[p] \in Homes
      BY <2>1 DEF Reindex, IInv, Sound
    <3> QED BY <2>1, <3>1, IndexKeepsRows DEF Reindex
  <2> QED BY <1>3, <2>1 DEF Rebuild, Repair, Examine, Repaired
<1>4. ASSUME NEW p \in Procs, Stop(p) PROVE KeptIsListed'
  BY <1>4 DEF Stop
<1>5. CASE UNCHANGED vars
  BY <1>5 DEF vars
<1> QED BY <1>1, <1>2, <1>3, <1>4, <1>5 DEF Next, Reset

(* What was stored with Ok and not deleted can be indexed again, as long   *)
(* as deletions run alone and the index is not lost: the two counter-      *)
(* examples of the runs on this property have the only causes there are.   *)
THEOREM KeptCanBeIndexed ==
  ASSUME DeletesAlone, OneHome, ~MayReset
  PROVE  Spec => []KeptIsRecoverable
<1>1. Init => KeptIsListed
  BY DEF Init, KeptIsListed
<1>2. IInv /\ KeptIsListed /\ [Next]_vars => KeptIsListed'
  BY KeptIsListedStep
<1>3. Covered /\ KeptIsListed => KeptIsRecoverable
  BY DEF Covered, KeptIsListed, KeptIsRecoverable
<1> QED BY <1>1, <1>2, <1>3, CoveredAlways, PTL DEF Spec
=============================================================================
