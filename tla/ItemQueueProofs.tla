--------------------------- MODULE ItemQueueProofs ---------------------------
(***************************************************************************)
(* Proofs about ItemQueue, for any number of workers, goroutines, jobs and *)
(* items, any placement of goroutines in processes and any bound on the    *)
(* attempts and the faults; and about JobReads, which reads its tables.    *)
(***************************************************************************)
EXTENDS JobReads, FiniteSetTheorems, TLAPS

USE DEF Terminal, NoSnapshot, rows, counters, goroutine

\* Next, one disjunct per action: how every proof below splits a step.
LEMMA NextCases ==
  ASSUME Next
  PROVE  \/ \E j \in Job : Submit(j)
         \/ \E s \in Slot : ClaimBegin(s)
         \/ \E s \in Slot, i \in Item : ClaimCommit(s, i)
         \/ \E s \in Slot, i \in Item : ClaimLost(s, i)
         \/ \E s \in Slot : ClaimEmpty(s)
         \/ \E s \in Slot : ClaimAbort(s)
         \/ \E s \in Slot : Heartbeat(s)
         \/ \E s \in Slot, outcome \in {"success", "fatal", "retryable"} : FinishRead(s, outcome)
         \/ \E s \in Slot : FinishCommit(s)
         \/ \E s \in Slot : FinishRejected(s)
         \/ \E s \in Slot : FinishAbort(s)
         \/ \E i \in Item : LeaseExpires(i)
         \/ \E w \in Worker : Crash(w)
  BY Zenon DEF Next, Claims, Finishes, Fails

\* The counts ClaimItem takes from its snapshot are numbers.
LEMMA SnapshotCountsType ==
  ASSUME TypeOK, NEW s \in Slot, NEW j \in Job
  PROVE  /\ SnapshotCounts(s, j).completed \in Nat
         /\ SnapshotCounts(s, j).succeeded \in Nat
         /\ SnapshotCounts(s, j).failed \in Nat
<1> DEFINE a == snap[s].success \cap JobItems(j)
           d == snap[s].failed \cap JobItems(j)
<1>1. IsFiniteSet(a) /\ IsFiniteSet(d)
  BY ItemAssumption, FS_Subset DEF JobItems
<1>2. Cardinality(a) \in Nat /\ Cardinality(d) \in Nat
  BY <1>1, FS_CardinalityType
<1> QED
  BY <1>2 DEF SnapshotCounts

-----------------------------------------------------------------------------
(* Type correctness.                                                       *)

\* A renewed lease leaves every open claim a well-formed snapshot.
LEMMA RenewedType ==
  ASSUME TypeOK, NEW t \in Slot, NEW i
  PROVE  Renewed(t, i) \in [success : SUBSET Item, failed : SUBSET Item, lapsed : SUBSET Item]
<1>1. snap[t] \in [success : SUBSET Item, failed : SUBSET Item, lapsed : SUBSET Item]
  BY DEF TypeOK
<1> QED
  BY <1>1 DEF Renewed

\* A claim writes values of the right types.
LEMMA ClaimRowsType ==
  ASSUME TypeOK, NEW s \in Slot, NEW i \in Item, ClaimRows(s, i)
  PROVE  /\ status' \in [Item -> {"absent", "queued", "running"} \cup Terminal]
         /\ owner' \in [Item -> Worker \cup {None}]
         /\ lease' \in [Item -> {"none", "live", "lapsed"}]
         /\ attempts' \in [Item -> 0..MaxAttempts] /\ attempts[i] + 1 \in 0..MaxAttempts
         /\ jobStatus' \in [Job -> {"absent", "queued", "running", "completed"}]
         /\ completed' \in [Job -> Nat] /\ succeeded' \in [Job -> Nat] /\ failed' \in [Job -> Nat]
         /\ snap' \in [Slot -> [success : SUBSET Item, failed : SUBSET Item, lapsed : SUBSET Item]]
<1> USE DEF TypeOK
<1>1. status' \in [Item -> {"absent", "queued", "running"} \cup Terminal]
  BY DEF ClaimRows
<1>2. owner' \in [Item -> Worker \cup {None}]
  BY WorkerOfAssumption DEF ClaimRows, OwnerAfterClaim
<1>3. lease' \in [Item -> {"none", "live", "lapsed"}]
  BY DEF ClaimRows
<1>4. attempts' \in [Item -> 0..MaxAttempts] /\ attempts[i] + 1 \in 0..MaxAttempts
  BY MaxAttemptsAssumption DEF ClaimRows, Claimable
<1>5. jobStatus' \in [Job -> {"absent", "queued", "running", "completed"}]
  BY DEF ClaimRows
<1>6. completed' \in [Job -> Nat] /\ succeeded' \in [Job -> Nat] /\ failed' \in [Job -> Nat]
  BY SnapshotCountsType DEF ClaimRows
<1>7. snap' \in [Slot -> [success : SUBSET Item, failed : SUBSET Item, lapsed : SUBSET Item]]
  <2>1. \A t \in Slot : Renewed(t, i) \in [success : SUBSET Item, failed : SUBSET Item, lapsed : SUBSET Item]
    BY RenewedType
  <2>2. snap' = [t \in Slot |-> IF t = s THEN NoSnapshot ELSE Renewed(t, i)]
    BY DEF ClaimRows
  <2> QED
    BY <2>1, <2>2
<1> QED
  BY <1>1, <1>2, <1>3, <1>4, <1>5, <1>6, <1>7

(* FinishItem writes a status it has decided on.  A step keeps this part   *)
(* of TypeInv for the goroutines it moves and leaves the others alone.     *)
PlanDecided == \A s \in Slot : pc[s] = "finishing" => plan[s] \in {"queued"} \cup Terminal
TypeInv == TypeOK /\ PlanDecided

\* Types hold of empty tables.
LEMMA TypeInit == Init => TypeInv
  BY MaxFaultsAssumption, MaxAttemptsAssumption DEF Init, TypeInv, TypeOK, PlanDecided, SlotState

\* They hold of a goroutine that lets go of its item.
LEMMA ReleaseType ==
  ASSUME TypeInv, NEW s \in Slot, Release(s)
  PROVE  /\ pc' \in [Slot -> SlotState] /\ held' \in [Slot -> Item \cup {None}]
         /\ plan' \in [Slot -> {"none", "queued"} \cup Terminal] /\ ticket' \in [Slot -> 0..MaxAttempts]
         /\ snap' = snap /\ PlanDecided'
  BY MaxAttemptsAssumption DEF Release, TypeInv, TypeOK, PlanDecided, SlotState

\* What FinishCommit writes to the item and to its job.
LEMMA FinishCommitCases ==
  ASSUME TypeInv, NEW s \in Slot, FinishCommit(s)
  PROVE  /\ held[s] \in Item /\ owner[held[s]] = WorkerOf[s] /\ JobOf[held[s]] \in Job
         /\ plan[s] \in {"queued"} \cup Terminal
         /\ status' = [status EXCEPT ![held[s]] = plan[s]]
         /\ owner' = [owner EXCEPT ![held[s]] = None]
         /\ lease' = [lease EXCEPT ![held[s]] = "none"]
         /\ \/ plan[s] = "queued" /\ UNCHANGED <<jobStatus, completed, succeeded, failed>>
            \/ plan[s] \in Terminal /\ CountItem(JobOf[held[s]], plan[s])
         /\ Release(s) /\ UNCHANGED <<attempts, faults>>
<1>1. plan[s] \in {"queued"} \cup Terminal
  BY DEF FinishCommit, TypeInv, PlanDecided
<1>2. /\ held[s] # None /\ owner[held[s]] = WorkerOf[s]
      /\ Release(s) /\ UNCHANGED <<attempts, faults>>
  BY Zenon DEF FinishCommit, HoldsLease
<1>3. held[s] \in Item /\ JobOf[held[s]] \in Job
  BY <1>2, JobOfAssumption DEF TypeInv, TypeOK
<1>4. CASE ~CountsResult(s)
  BY <1>1, <1>2, <1>3, <1>4 DEF FinishCommit, CountsResult
<1>5. CASE CountsResult(s)
  BY <1>1, <1>2, <1>3, <1>5 DEF FinishCommit, CountsResult
<1> QED
  BY <1>4, <1>5

\* Every step keeps them.
LEMMA TypeNext == TypeInv /\ [Next]_vars => TypeInv'
<1> SUFFICES ASSUME TypeInv, [Next]_vars PROVE TypeInv'
  OBVIOUS
<1> USE DEF TypeInv, TypeOK, PlanDecided, SlotState
<1>1. ASSUME NEW j \in Job, Submit(j) PROVE TypeInv'
  BY <1>1 DEF Submit
<1>2. ASSUME NEW s \in Slot, ClaimBegin(s) PROVE TypeInv'
  BY <1>2 DEF ClaimBegin
<1>3. ASSUME NEW s \in Slot, NEW i \in Item, ClaimCommit(s, i) PROVE TypeInv'
  <2>1. ClaimRows(s, i)
    BY <1>3 DEF ClaimCommit
  <2> QED
    BY <1>3, <2>1, ClaimRowsType DEF ClaimCommit
<1>4. ASSUME NEW s \in Slot, NEW i \in Item, ClaimLost(s, i) PROVE TypeInv'
  <2>1. ClaimRows(s, i)
    BY <1>4 DEF ClaimLost
  <2> QED
    BY <1>4, <2>1, ClaimRowsType, MaxFaultsAssumption DEF ClaimLost
<1>5. ASSUME NEW s \in Slot, ClaimEmpty(s) PROVE TypeInv'
  BY <1>5 DEF ClaimEmpty
<1>6. ASSUME NEW s \in Slot, ClaimAbort(s) PROVE TypeInv'
  BY <1>6, MaxFaultsAssumption DEF ClaimAbort
<1>7. ASSUME NEW s \in Slot, Heartbeat(s) PROVE TypeInv'
  <2> DEFINE Snapshot == [success : SUBSET Item, failed : SUBSET Item, lapsed : SUBSET Item]
  <2>1. \A t \in Slot : Renewed(t, held[s]) \in Snapshot
    BY RenewedType
  <2>2. snap' \in [Slot -> Snapshot]
    BY <1>7, <2>1 DEF Heartbeat
  <2>3. lease' \in [Item -> {"none", "live", "lapsed"}]
    BY <1>7 DEF Heartbeat
  <2>4. UNCHANGED <<status, owner, attempts, jobStatus, counters, goroutine, faults>>
    BY <1>7 DEF Heartbeat
  <2> QED
    BY <2>2, <2>3, <2>4
<1>8. ASSUME NEW s \in Slot, NEW outcome \in {"success", "fatal", "retryable"}, FinishRead(s, outcome)
      PROVE  TypeInv'
  BY <1>8 DEF FinishRead
<1>9. ASSUME NEW s \in Slot, FinishCommit(s) PROVE TypeInv'
  <2> DEFINE i == held[s]
             j == JobOf[i]
  <2>1. /\ i \in Item /\ j \in Job /\ plan[s] \in {"queued"} \cup Terminal
        /\ Release(s) /\ UNCHANGED <<attempts, faults>>
    BY <1>9, FinishCommitCases
  <2>2. /\ owner' \in [Item -> Worker \cup {None}] /\ lease' \in [Item -> {"none", "live", "lapsed"}]
        /\ status' \in [Item -> {"absent", "queued", "running"} \cup Terminal]
    BY <1>9, <2>1, FinishCommitCases
  <2>3. CountItem(j, plan[s]) =>
          /\ completed' \in [Job -> Nat] /\ succeeded' \in [Job -> Nat] /\ failed' \in [Job -> Nat]
          /\ jobStatus' \in [Job -> {"absent", "queued", "running", "completed"}]
    BY <2>1 DEF CountItem
  <2>4. /\ completed' \in [Job -> Nat] /\ succeeded' \in [Job -> Nat] /\ failed' \in [Job -> Nat]
        /\ jobStatus' \in [Job -> {"absent", "queued", "running", "completed"}]
    BY <1>9, <2>3, FinishCommitCases
  <2> QED
    BY <2>1, <2>2, <2>4, ReleaseType
<1>10. ASSUME NEW s \in Slot, FinishRejected(s) PROVE TypeInv'
  BY <1>10, ReleaseType DEF FinishRejected
<1>11. ASSUME NEW s \in Slot, FinishAbort(s) PROVE TypeInv'
  BY <1>11, ReleaseType, MaxFaultsAssumption DEF FinishAbort
<1>12. ASSUME NEW i \in Item, LeaseExpires(i) PROVE TypeInv'
  BY <1>12 DEF LeaseExpires
<1>13. ASSUME NEW w \in Worker, Crash(w) PROVE TypeInv'
  BY <1>13, MaxAttemptsAssumption, MaxFaultsAssumption DEF Crash
<1>14. CASE UNCHANGED vars
  BY <1>14 DEF vars
<1> QED
  BY <1>1, <1>2, <1>3, <1>4, <1>5, <1>6, <1>7, <1>8, <1>9, <1>10, <1>11, <1>12, <1>13,
     <1>14, NextCases

\* Every variable keeps its type, and no item is claimed more often than
\* MAX_ATTEMPTS allows (store.go ClaimItem).
THEOREM TypeCorrect == Spec => []TypeOK
<1>1. TypeInv => TypeOK
  BY DEF TypeInv
<1> QED
  BY TypeInit, TypeNext, <1>1, PTL DEF Spec

-----------------------------------------------------------------------------
(***************************************************************************)
(* The safety invariants.  None is inductive alone: a job is counted       *)
(* correctly because an item that ended never changes again, which holds   *)
(* because only a running item has an owner, and because the older counts  *)
(* a claim writes are counts of items that had ended already.              *)
(***************************************************************************)

\* A job and its items appear together.
AbsentTogether == \A i \in Item : (status[i] = "absent") <=> (jobStatus[JobOf[i]] = "absent")

\* What a claim has read is still true of the items, if no longer complete.
SnapshotIsOld ==
  \A s \in Slot : /\ \A i \in snap[s].success : status[i] = "success"
                  /\ \A i \in snap[s].failed : status[i] = "failed"

SafeInv == /\ TypeInv
           /\ LeaseIffRunning
           /\ AbsentTogether
           /\ SnapshotIsOld
           /\ CountsNeverAhead
           /\ CompletedJobIsDone

\* What ClaimItem does to the rows of job_items.
LEMMA ClaimRowsItems ==
  ASSUME TypeInv, LeaseIffRunning, NEW s \in Slot, NEW i \in Item, ClaimRows(s, i)
  PROVE  /\ status[i] \in {"queued", "running"}
         /\ \A k \in Exhausted(s) : k \in Item /\ k # i /\ status[k] = "running"
         /\ \A k \in Item :
              \/ k = i /\ status'[k] = "running" /\ owner'[k] = WorkerOf[s] /\ lease'[k] = "live"
              \/ k \in Exhausted(s) /\ status'[k] = "failed" /\ owner'[k] = None /\ lease'[k] = "none"
              \/ /\ k # i /\ k \notin Exhausted(s)
                 /\ status'[k] = status[k] /\ owner'[k] = owner[k] /\ lease'[k] = lease[k]
<1>1. attempts[i] < MaxAttempts /\ (status[i] = "queued" \/ lease[i] = "lapsed")
  BY DEF ClaimRows, Claimable
<1>2. \A k \in Exhausted(s) : k \in Item /\ lease[k] = "lapsed" /\ attempts[k] >= MaxAttempts
  BY DEF Exhausted, TypeInv, TypeOK
<1>3. status[i] \in {"queued", "running"}
  BY <1>1 DEF LeaseIffRunning
<1>4. i \notin Exhausted(s)
  BY <1>1, <1>2, MaxAttemptsAssumption DEF TypeInv, TypeOK
<1>5. \A k \in Exhausted(s) : k \in Item /\ k # i /\ status[k] = "running"
  BY <1>2, <1>4 DEF LeaseIffRunning
<1>6. ASSUME NEW k \in Item
      PROVE  \/ k = i /\ status'[k] = "running" /\ owner'[k] = WorkerOf[s] /\ lease'[k] = "live"
             \/ k \in Exhausted(s) /\ status'[k] = "failed" /\ owner'[k] = None /\ lease'[k] = "none"
             \/ /\ k # i /\ k \notin Exhausted(s)
                /\ status'[k] = status[k] /\ owner'[k] = owner[k] /\ lease'[k] = lease[k]
  <2>1. /\ status'[k] = IF k = i THEN "running" ELSE IF k \in Exhausted(s) THEN "failed" ELSE status[k]
        /\ owner'[k] = IF k = i THEN WorkerOf[s] ELSE IF k \in Exhausted(s) THEN None ELSE owner[k]
        /\ lease'[k] = IF k = i THEN "live" ELSE IF k \in Exhausted(s) THEN "none" ELSE lease[k]
    BY Zenon DEF ClaimRows, OwnerAfterClaim
  <2> QED
    BY <2>1
<1> QED
  BY <1>3, <1>5, <1>6

\* What ClaimItem does to the row of job j.
LEMMA ClaimRowsJobs ==
  ASSUME TypeInv, NEW s \in Slot, NEW i \in Item, ClaimRows(s, i), NEW j \in Job
  PROVE  /\ j \in Recounted(s) =>
              /\ completed'[j] = SnapshotCounts(s, j).completed
              /\ succeeded'[j] = SnapshotCounts(s, j).succeeded
              /\ failed'[j] = SnapshotCounts(s, j).failed
              /\ jobStatus'[j] \in {"running", "completed"}
              /\ jobStatus'[j] = "completed" => SnapshotCounts(s, j).completed = Total(j)
         /\ j \notin Recounted(s) =>
              /\ completed'[j] = completed[j] /\ succeeded'[j] = succeeded[j] /\ failed'[j] = failed[j]
              /\ j # JobOf[i] => jobStatus'[j] = jobStatus[j]
         /\ j = JobOf[i] => jobStatus'[j] = "running"
<1>1. /\ completed'[j] = IF j \in Recounted(s) THEN SnapshotCounts(s, j).completed ELSE completed[j]
      /\ succeeded'[j] = IF j \in Recounted(s) THEN SnapshotCounts(s, j).succeeded ELSE succeeded[j]
      /\ failed'[j] = IF j \in Recounted(s) THEN SnapshotCounts(s, j).failed ELSE failed[j]
  BY Zenon DEF ClaimRows
<1>2. jobStatus'[j] = IF j = JobOf[i] THEN "running"
                      ELSE IF j \in Recounted(s)
                           THEN IF SnapshotCounts(s, j).completed = Total(j)
                                THEN "completed" ELSE "running"
                      ELSE jobStatus[j]
  BY Zenon DEF ClaimRows
<1> QED
  BY <1>1, <1>2

\* Only three operations write a status or a counter.
Quiet == UNCHANGED <<status, jobStatus, completed, succeeded, failed>>
\* Only a submission, a claim and the end of an item write items or counters.
LEMMA WritingSteps ==
  ASSUME [Next]_vars
  PROVE  \/ \E j \in Job : Submit(j)
         \/ \E s \in Slot, i \in Item : ClaimRows(s, i)
         \/ \E s \in Slot : FinishCommit(s)
         \/ Quiet
<1>1. ASSUME NEW s \in Slot, NEW i \in Item, ClaimCommit(s, i) \/ ClaimLost(s, i) PROVE ClaimRows(s, i)
  BY <1>1, Zenon DEF ClaimCommit, ClaimLost
<1>2. ASSUME NEW s \in Slot, ClaimBegin(s) \/ ClaimEmpty(s) \/ ClaimAbort(s) \/ Heartbeat(s)
      PROVE  Quiet
  BY <1>2 DEF ClaimBegin, ClaimEmpty, ClaimAbort, Heartbeat, Quiet
<1>3. ASSUME NEW s \in Slot, NEW outcome \in {"success", "fatal", "retryable"}, FinishRead(s, outcome)
      PROVE  Quiet
  BY <1>3 DEF FinishRead, Quiet
<1>4. ASSUME NEW s \in Slot, FinishRejected(s) \/ FinishAbort(s) PROVE Quiet
  BY <1>4 DEF FinishRejected, FinishAbort, Quiet
<1>5. ASSUME NEW i \in Item, LeaseExpires(i) PROVE Quiet
  BY <1>5 DEF LeaseExpires, Quiet
<1>6. ASSUME NEW w \in Worker, Crash(w) PROVE Quiet
  BY <1>6 DEF Crash, Quiet
<1>7. CASE UNCHANGED vars
  BY <1>7 DEF vars, Quiet
<1>8. CASE Next
  BY <1>1, <1>2, <1>3, <1>4, <1>5, <1>6, <1>8, NextCases
<1> QED
  BY <1>7, <1>8

\* An item that ended keeps its status.
LEMMA EndedItemStays ==
  ASSUME TypeInv, LeaseIffRunning, AbsentTogether, [Next]_vars, NEW i \in Item, status[i] \in Terminal
  PROVE  status'[i] = status[i]
<1>1. ASSUME NEW j \in Job, Submit(j) PROVE status'[i] = status[i]
  BY <1>1 DEF Submit, AbsentTogether, TypeInv, TypeOK
<1>2. ASSUME NEW s \in Slot, NEW k \in Item, ClaimRows(s, k) PROVE status'[i] = status[i]
  BY <1>2, ClaimRowsItems
<1>3. ASSUME NEW s \in Slot, FinishCommit(s) PROVE status'[i] = status[i]
  <2>1. /\ held[s] \in Item /\ owner[held[s]] = WorkerOf[s]
        /\ status' = [status EXCEPT ![held[s]] = plan[s]]
    BY <1>3, FinishCommitCases
  <2>2. status[held[s]] = "running"
    BY <2>1, WorkerOfAssumption, NoneAssumption DEF LeaseIffRunning
  <2> QED
    BY <2>1, <2>2 DEF TypeInv, TypeOK
<1>4. CASE Quiet
  BY <1>4 DEF Quiet, AbsentTogether
<1> QED
  BY <1>1, <1>2, <1>3, <1>4, WritingSteps

\* Every step keeps the lease with the running items.
LEMMA LeaseNext ==
  ASSUME TypeInv, LeaseIffRunning, AbsentTogether, [Next]_vars
  PROVE  LeaseIffRunning'
<1>1. ASSUME NEW j \in Job, Submit(j) PROVE LeaseIffRunning'
  <2>1. \A i \in Item : JobOf[i] = j => status[i] = "absent"
    BY <1>1 DEF Submit, AbsentTogether
  <2> QED
    BY <1>1, <2>1 DEF Submit, LeaseIffRunning, TypeInv, TypeOK
<1>2. ASSUME NEW s \in Slot, NEW i \in Item, ClaimRows(s, i) PROVE LeaseIffRunning'
  <2>1. WorkerOf[s] # None
    BY WorkerOfAssumption, NoneAssumption
  <2> QED
    BY <1>2, <2>1, ClaimRowsItems DEF LeaseIffRunning
<1>3. ASSUME NEW s \in Slot, FinishCommit(s) PROVE LeaseIffRunning'
  BY <1>3, FinishCommitCases DEF LeaseIffRunning, TypeInv, TypeOK
<1>4. ASSUME NEW s \in Slot, Heartbeat(s) PROVE LeaseIffRunning'
  BY <1>4 DEF Heartbeat, LeaseIffRunning, TypeInv, TypeOK
<1>5. ASSUME NEW i \in Item, LeaseExpires(i) PROVE LeaseIffRunning'
  BY <1>5 DEF LeaseExpires, LeaseIffRunning, TypeInv, TypeOK
<1>6. CASE UNCHANGED rows
  BY <1>6 DEF LeaseIffRunning
<1>7. ASSUME NEW s \in Slot, NEW i \in Item, ClaimCommit(s, i) \/ ClaimLost(s, i) PROVE ClaimRows(s, i)
  BY <1>7, Zenon DEF ClaimCommit, ClaimLost
<1>8. ASSUME NEW s \in Slot,
             \/ ClaimBegin(s) \/ ClaimEmpty(s) \/ ClaimAbort(s)
             \/ FinishRejected(s) \/ FinishAbort(s)
             \/ \E outcome \in {"success", "fatal", "retryable"} : FinishRead(s, outcome)
      PROVE  UNCHANGED rows
  BY <1>8 DEF ClaimBegin, ClaimEmpty, ClaimAbort, FinishRejected, FinishAbort, FinishRead
<1>9. ASSUME NEW w \in Worker, Crash(w) PROVE UNCHANGED rows
  BY <1>9 DEF Crash
<1>10. CASE UNCHANGED vars
  BY <1>10, <1>6 DEF vars
<1> QED
  BY <1>1, <1>2, <1>3, <1>4, <1>5, <1>6, <1>7, <1>8, <1>9, <1>10, NextCases

\* Every step keeps items and their job together.
LEMMA AbsentNext ==
  ASSUME TypeInv, LeaseIffRunning, AbsentTogether, [Next]_vars
  PROVE  AbsentTogether'
<1>1. ASSUME NEW j \in Job, Submit(j) PROVE AbsentTogether'
  BY <1>1, JobOfAssumption DEF Submit, AbsentTogether, TypeInv, TypeOK
<1>2. ASSUME NEW s \in Slot, NEW i \in Item, ClaimRows(s, i) PROVE AbsentTogether'
  <2>1. \A k \in Item : (status'[k] = "absent") <=> (status[k] = "absent")
    BY <1>2, ClaimRowsItems
  <2>2. ASSUME NEW j \in Job
        PROVE  \/ jobStatus'[j] = jobStatus[j]
               \/ (j \in Recounted(s) \/ j = JobOf[i]) /\ jobStatus'[j] # "absent"
    <3>1. CASE j = JobOf[i]
      BY <1>2, <3>1, ClaimRowsJobs
    <3>2. CASE j \in Recounted(s)
      <4>1. jobStatus'[j] \in {"running", "completed"}
        BY <1>2, <3>2, ClaimRowsJobs
      <4> QED
        BY <3>2, <4>1
    <3>3. CASE j # JobOf[i] /\ j \notin Recounted(s)
      BY <1>2, <3>3, ClaimRowsJobs
    <3> QED
      BY <3>1, <3>2, <3>3
  <2>3. \A j \in Job : j \in Recounted(s) \/ j = JobOf[i] => jobStatus[j] # "absent"
    BY <1>2, ClaimRowsItems DEF Recounted, AbsentTogether
  <2> QED
    BY <2>1, <2>2, <2>3, JobOfAssumption DEF AbsentTogether
<1>3. ASSUME NEW s \in Slot, FinishCommit(s) PROVE AbsentTogether'
  <2> DEFINE i == held[s]
             j == JobOf[i]
  <2>1. /\ i \in Item /\ j \in Job /\ plan[s] \in {"queued"} \cup Terminal
        /\ status' = [status EXCEPT ![i] = plan[s]]
        /\ owner[i] # None
    BY <1>3, FinishCommitCases, WorkerOfAssumption, NoneAssumption
  <2>2. status[i] = "running" /\ jobStatus[j] # "absent"
    BY <2>1 DEF LeaseIffRunning, AbsentTogether
  <2>3. jobStatus' = jobStatus \/ (\E st \in {"completed", "running"} : jobStatus' = [jobStatus EXCEPT ![j] = st])
    BY <1>3, FinishCommitCases DEF CountItem
  <2>4. \A k \in Item : (status'[k] = "absent") <=> (status[k] = "absent")
    BY <2>1, <2>2 DEF TypeInv, TypeOK
  <2>5. \A k \in Job : (jobStatus'[k] = "absent") <=> (jobStatus[k] = "absent")
    BY <2>1, <2>2, <2>3 DEF TypeInv, TypeOK
  <2> QED
    BY <2>4, <2>5, JobOfAssumption DEF AbsentTogether
<1>4. CASE Quiet
  BY <1>4 DEF Quiet, AbsentTogether
<1> QED
  BY <1>1, <1>2, <1>3, <1>4, WritingSteps

\* What a snapshot shows as ended has ended still, after every step.
LEMMA SnapshotNext ==
  ASSUME TypeInv, LeaseIffRunning, AbsentTogether, SnapshotIsOld, [Next]_vars
  PROVE  SnapshotIsOld'
<1>0. /\ \A i \in Item : status[i] = "success" => status'[i] = "success"
      /\ \A i \in Item : status[i] = "failed" => status'[i] = "failed"
  BY EndedItemStays
<1>1. ASSUME NEW s \in Slot, ClaimBegin(s) PROVE SnapshotIsOld'
  BY <1>1 DEF ClaimBegin, SnapshotIsOld, TypeInv, TypeOK
<1>2. ASSUME \A t \in Slot : snap'[t] = NoSnapshot
                            \/ (snap'[t].success = snap[t].success /\ snap'[t].failed = snap[t].failed)
      PROVE  SnapshotIsOld'
  BY <1>0, <1>2 DEF SnapshotIsOld, TypeInv, TypeOK
<1>3. CASE snap' = snap
  BY <1>2, <1>3
<1>4. ASSUME NEW s \in Slot, NEW i \in Item, ClaimRows(s, i) PROVE SnapshotIsOld'
  <2>1. snap' = [t \in Slot |-> IF t = s THEN NoSnapshot ELSE Renewed(t, i)]
    BY <1>4 DEF ClaimRows
  <2>2. \A t \in Slot : Renewed(t, i).success = snap[t].success /\ Renewed(t, i).failed = snap[t].failed
    BY DEF Renewed, TypeInv, TypeOK
  <2>3. \A t \in Slot : snap'[t] = NoSnapshot
          \/ (snap'[t].success = snap[t].success /\ snap'[t].failed = snap[t].failed)
    BY <2>1, <2>2, Zenon
  <2> QED
    BY <1>2, <2>3
<1>5. ASSUME NEW s \in Slot, Heartbeat(s) PROVE SnapshotIsOld'
  <2>1. snap' = [t \in Slot |-> Renewed(t, held[s])]
    BY <1>5 DEF Heartbeat
  <2>2. \A t \in Slot : /\ Renewed(t, held[s]).success = snap[t].success
                        /\ Renewed(t, held[s]).failed = snap[t].failed
    BY DEF Renewed, TypeInv, TypeOK
  <2>3. \A t \in Slot : snap'[t] = NoSnapshot
          \/ (snap'[t].success = snap[t].success /\ snap'[t].failed = snap[t].failed)
    BY <2>1, <2>2, Zenon
  <2> QED
    BY <1>2, <2>3
<1>6. ASSUME NEW s \in Slot, ClaimEmpty(s) \/ ClaimAbort(s) PROVE SnapshotIsOld'
  BY <1>2, <1>6 DEF ClaimEmpty, ClaimAbort, TypeInv, TypeOK
<1>7. ASSUME NEW w \in Worker, Crash(w) PROVE SnapshotIsOld'
  BY <1>2, <1>7 DEF Crash, TypeInv, TypeOK
<1>8. ASSUME NEW s \in Slot, FinishCommit(s) \/ FinishRejected(s) \/ FinishAbort(s) PROVE snap' = snap
  BY <1>8, Zenon DEF FinishCommit, FinishRejected, FinishAbort, Release
<1>9. ASSUME NEW s \in Slot, NEW outcome \in {"success", "fatal", "retryable"}, FinishRead(s, outcome)
      PROVE  snap' = snap
  BY <1>9 DEF FinishRead
<1>10. ASSUME NEW j \in Job, Submit(j) PROVE snap' = snap
  BY <1>10 DEF Submit
<1>11. ASSUME NEW i \in Item, LeaseExpires(i) PROVE snap' = snap
  BY <1>11 DEF LeaseExpires
<1>12. ASSUME NEW s \in Slot, NEW i \in Item, ClaimCommit(s, i) \/ ClaimLost(s, i) PROVE ClaimRows(s, i)
  BY <1>12, Zenon DEF ClaimCommit, ClaimLost
<1>13. CASE UNCHANGED vars
  BY <1>3, <1>13 DEF vars
<1> QED
  BY <1>1, <1>3, <1>4, <1>5, <1>6, <1>7, <1>8, <1>9, <1>10, <1>11, <1>12, <1>13, NextCases

\* Sizes of the sets of items a job's counters are compared with.
LEMMA ItemsWithFinite ==
  ASSUME NEW j, NEW st
  PROVE  /\ IsFiniteSet(JobItems(j)) /\ Cardinality(JobItems(j)) \in Nat
         /\ IsFiniteSet(ItemsWith(j, st)) /\ Cardinality(ItemsWith(j, st)) \in Nat
         /\ IsFiniteSet(ItemsWith(j, st)') /\ Cardinality(ItemsWith(j, st)') \in Nat
<1>1. JobItems(j) \subseteq Item /\ ItemsWith(j, st) \subseteq Item /\ ItemsWith(j, st)' \subseteq Item
  BY DEF JobItems, ItemsWith
<1> QED
  BY <1>1, ItemAssumption, FS_Subset, FS_CardinalityType

\* Two disjoint sets that are counted to the size of a set they lie in are
\* all of it: how the counters of a completed job come to be exact.
LEMMA CountedToTotal ==
  ASSUME NEW T, IsFiniteSet(T), NEW A \in SUBSET T, NEW B \in SUBSET T, A \cap B = {},
         NEW a \in Nat, NEW b \in Nat, a <= Cardinality(A), b <= Cardinality(B)
  PROVE  /\ a + b <= Cardinality(T)
         /\ a + b = Cardinality(T) => A \cup B = T /\ a = Cardinality(A) /\ b = Cardinality(B)
<1>1. IsFiniteSet(A) /\ IsFiniteSet(B) /\ IsFiniteSet(A \cup B)
  BY A \subseteq T, B \subseteq T, A \cup B \subseteq T, FS_Subset
<1>2. /\ Cardinality(A) \in Nat /\ Cardinality(B) \in Nat /\ Cardinality(T) \in Nat
      /\ Cardinality(A \cup B) \in Nat /\ Cardinality(A \cap B) = 0
  BY <1>1, FS_CardinalityType, FS_EmptySet
<1>3. Cardinality(A \cup B) = Cardinality(A) + Cardinality(B)
  <2>1. Cardinality(A \cup B) = Cardinality(A) + Cardinality(B) - Cardinality(A \cap B)
    BY <1>1, FS_Union
  <2> QED
    BY <1>2, <2>1
<1>4. /\ Cardinality(A \cup B) <= Cardinality(T)
      /\ Cardinality(A \cup B) = Cardinality(T) => A \cup B = T
  BY FS_Subset, A \cup B \subseteq T
<1> QED
  BY <1>2, <1>3, <1>4

\* A recounted job lacks at least the item that made it be recounted.
LEMMA RecountIsShort ==
  ASSUME TypeInv, LeaseIffRunning, SnapshotIsOld,
         NEW s \in Slot, NEW i \in Item, ClaimRows(s, i), NEW j \in Job, j \in Recounted(s)
  PROVE  /\ SnapshotCounts(s, j).completed # Total(j)
         /\ SnapshotCounts(s, j).completed = SnapshotCounts(s, j).succeeded + SnapshotCounts(s, j).failed
         /\ SnapshotCounts(s, j).succeeded <= Cardinality(ItemsWith(j, "success"))
         /\ SnapshotCounts(s, j).failed <= Cardinality(ItemsWith(j, "failed"))
<1> DEFINE a == snap[s].success \cap JobItems(j)
           d == snap[s].failed \cap JobItems(j)
<1>1. PICK e \in Exhausted(s) : JobOf[e] = j
  BY DEF Recounted
<1>2. e \in JobItems(j) /\ status[e] = "running"
  BY <1>1, ClaimRowsItems DEF JobItems
<1>3. a \subseteq ItemsWith(j, "success") /\ d \subseteq ItemsWith(j, "failed")
  BY DEF SnapshotIsOld, ItemsWith
<1>4. /\ SnapshotCounts(s, j).completed = Cardinality(a) + Cardinality(d)
      /\ SnapshotCounts(s, j).succeeded = Cardinality(a) /\ SnapshotCounts(s, j).failed = Cardinality(d)
  BY DEF SnapshotCounts
<1>5. /\ Cardinality(a) <= Cardinality(ItemsWith(j, "success"))
      /\ Cardinality(d) <= Cardinality(ItemsWith(j, "failed"))
  BY <1>3, ItemsWithFinite, FS_Subset
<1>6. IsFiniteSet(a) /\ IsFiniteSet(d) /\ Cardinality(a) \in Nat /\ Cardinality(d) \in Nat
  BY ItemsWithFinite, FS_Subset, FS_CardinalityType
<1>7. a \in SUBSET JobItems(j) /\ d \in SUBSET JobItems(j) /\ a \cap d = {} /\ a \cup d # JobItems(j)
  BY <1>2, <1>3 DEF ItemsWith
<1>8. Cardinality(a) + Cardinality(d) # Total(j)
  BY <1>6, <1>7, ItemsWithFinite, CountedToTotal DEF Total
<1> QED
  BY <1>4, <1>5, <1>8

\* The part of CountsNeverAhead and CompletedJobIsDone about one job.
CountsOfJob(j) == /\ completed[j] = succeeded[j] + failed[j]
                  /\ succeeded[j] <= Cardinality(ItemsWith(j, "success"))
                  /\ failed[j] <= Cardinality(ItemsWith(j, "failed"))
DoneJob(j) == jobStatus[j] = "completed" =>
     /\ \A i \in JobItems(j) : status[i] \in Terminal
     /\ succeeded[j] = Cardinality(ItemsWith(j, "success"))
     /\ failed[j] = Cardinality(ItemsWith(j, "failed"))

\* A job none of whose rows change in status keeps both.
LEMMA UntouchedJob ==
  ASSUME NEW j \in Job, CountsOfJob(j), DoneJob(j),
         \A k \in JobItems(j) : status'[k] = status[k],
         completed'[j] = completed[j], succeeded'[j] = succeeded[j], failed'[j] = failed[j],
         jobStatus'[j] = jobStatus[j] \/ jobStatus'[j] # "completed"
  PROVE  CountsOfJob(j)' /\ DoneJob(j)'
<1>1. \A st : ItemsWith(j, st)' = ItemsWith(j, st)
  BY DEF ItemsWith, JobItems
<1>2. CountsOfJob(j)'
  BY <1>1 DEF CountsOfJob
<1>3. DoneJob(j)'
  BY <1>1 DEF DoneJob, JobItems
<1> QED
  BY <1>2, <1>3

\* Every step keeps the counters of a job behind its items, and exact once it is
\* completed.
LEMMA CountsNext ==
  ASSUME SafeInv, [Next]_vars, NEW j \in Job
  PROVE  CountsOfJob(j)' /\ DoneJob(j)'
<1>0. TypeInv /\ LeaseIffRunning /\ AbsentTogether /\ SnapshotIsOld /\ CountsOfJob(j) /\ DoneJob(j)
  BY DEF SafeInv, CountsNeverAhead, CompletedJobIsDone, CountsOfJob, DoneJob
<1>1. ASSUME NEW k \in Job, Submit(k) PROVE CountsOfJob(j)' /\ DoneJob(j)'
  <2>1. completed'[j] = completed[j] /\ succeeded'[j] = succeeded[j] /\ failed'[j] = failed[j]
    BY <1>1 DEF Submit
  <2>2. jobStatus'[j] = jobStatus[j] \/ jobStatus'[j] # "completed"
    BY <1>0, <1>1 DEF Submit, TypeInv, TypeOK
  <2>3. CASE j # k
    <3>1. \A i \in JobItems(j) : status'[i] = status[i]
      BY <1>1, <2>3 DEF Submit, JobItems
    <3> QED
      BY <1>0, <2>1, <2>2, <3>1, UntouchedJob
  <2>4. CASE j = k
    <3>1. \A i \in JobItems(j) : status[i] = "absent" /\ status'[i] = "queued"
      BY <1>0, <1>1, <2>4 DEF Submit, JobItems, AbsentTogether
    <3>2. /\ ItemsWith(j, "success")' = {} /\ ItemsWith(j, "success") = {}
          /\ ItemsWith(j, "failed")' = {} /\ ItemsWith(j, "failed") = {}
      BY <3>1 DEF ItemsWith, JobItems
    <3>3. jobStatus'[j] = "queued"
      BY <1>0, <1>1, <2>4 DEF Submit, TypeInv, TypeOK
    <3> QED
      BY <1>0, <2>1, <3>2, <3>3 DEF CountsOfJob, DoneJob
  <2> QED
    BY <2>3, <2>4
<1>2. ASSUME NEW s \in Slot, NEW i \in Item, ClaimRows(s, i) PROVE CountsOfJob(j)' /\ DoneJob(j)'
  <2>1. ItemsWith(j, "success") \subseteq ItemsWith(j, "success")'
    BY <1>0, <1>2, ClaimRowsItems DEF ItemsWith, JobItems
  <2>2. ItemsWith(j, "failed") \subseteq ItemsWith(j, "failed")'
    BY <1>0, <1>2, ClaimRowsItems DEF ItemsWith, JobItems
  <2>3. /\ Cardinality(ItemsWith(j, "success")) <= Cardinality(ItemsWith(j, "success")')
        /\ Cardinality(ItemsWith(j, "failed")) <= Cardinality(ItemsWith(j, "failed")')
    BY <2>1, <2>2, ItemsWithFinite, FS_Subset
  <2>4. CASE j \in Recounted(s)
    <3>1. jobStatus'[j] # "completed"
      BY <1>0, <1>2, <2>4, ClaimRowsJobs, RecountIsShort
    <3>2. CountsOfJob(j)'
      <4>1. /\ completed'[j] = SnapshotCounts(s, j).completed
            /\ succeeded'[j] = SnapshotCounts(s, j).succeeded
            /\ failed'[j] = SnapshotCounts(s, j).failed
        BY <1>0, <1>2, <2>4, ClaimRowsJobs
      <4>2. SnapshotCounts(s, j).succeeded \in Nat /\ SnapshotCounts(s, j).failed \in Nat
        BY <1>0, SnapshotCountsType DEF TypeInv
      <4>3. /\ SnapshotCounts(s, j).completed = SnapshotCounts(s, j).succeeded + SnapshotCounts(s, j).failed
            /\ SnapshotCounts(s, j).succeeded <= Cardinality(ItemsWith(j, "success"))
            /\ SnapshotCounts(s, j).failed <= Cardinality(ItemsWith(j, "failed"))
        BY <1>0, <1>2, <2>4, RecountIsShort
      <4> QED
        BY <2>3, <4>1, <4>2, <4>3, ItemsWithFinite DEF CountsOfJob
    <3> QED
      BY <3>1, <3>2 DEF DoneJob
  <2>5. CASE j \notin Recounted(s)
    <3>1. completed'[j] = completed[j] /\ succeeded'[j] = succeeded[j] /\ failed'[j] = failed[j]
      BY <1>0, <1>2, <2>5, ClaimRowsJobs
    <3>2. CASE j = JobOf[i]
      <4>1. CountsOfJob(j)'
        BY <1>0, <2>3, <3>1, ItemsWithFinite DEF CountsOfJob, TypeInv, TypeOK
      <4>2. jobStatus'[j] = "running"
        BY <1>0, <1>2, <3>2, ClaimRowsJobs
      <4> QED
        BY <4>1, <4>2 DEF DoneJob
    <3>3. CASE j # JobOf[i]
      <4>1. \A k \in JobItems(j) : status'[k] = status[k]
        BY <1>0, <1>2, <2>5, <3>3, ClaimRowsItems DEF JobItems, Recounted
      <4>2. jobStatus'[j] = jobStatus[j]
        BY <1>0, <1>2, <2>5, <3>3, ClaimRowsJobs
      <4> QED
        BY <1>0, <3>1, <4>1, <4>2, UntouchedJob
    <3> QED
      BY <3>2, <3>3
  <2> QED
    BY <2>4, <2>5
<1>3. ASSUME NEW s \in Slot, FinishCommit(s) PROVE CountsOfJob(j)' /\ DoneJob(j)'
  <2> DEFINE i == held[s]
             new == plan[s]
  <2>1. /\ i \in Item /\ JobOf[i] \in Job /\ new \in {"queued"} \cup Terminal
        /\ status' = [status EXCEPT ![i] = new] /\ owner[i] # None
        /\ \/ new = "queued" /\ UNCHANGED <<jobStatus, completed, succeeded, failed>>
           \/ new \in Terminal /\ CountItem(JobOf[i], new)
    BY <1>0, <1>3, FinishCommitCases, WorkerOfAssumption, NoneAssumption
  <2>2. status[i] = "running"
    BY <1>0, <2>1 DEF LeaseIffRunning
  <2>3. status'[i] = new /\ \A k \in Item \ {i} : status'[k] = status[k]
    BY <1>0, <2>1 DEF TypeInv, TypeOK
  <2>4. CASE j # JobOf[i]
    <3>1. /\ completed'[j] = completed[j] /\ succeeded'[j] = succeeded[j] /\ failed'[j] = failed[j]
          /\ jobStatus'[j] = jobStatus[j]
      BY <1>0, <2>1, <2>4 DEF CountItem, TypeInv, TypeOK
    <3>2. \A k \in JobItems(j) : status'[k] = status[k]
      BY <2>3, <2>4 DEF JobItems
    <3> QED
      BY <1>0, <3>1, <3>2, UntouchedJob
  <2>5. CASE j = JobOf[i] /\ new = "queued"
    <3>1. ItemsWith(j, "success")' = ItemsWith(j, "success") /\ ItemsWith(j, "failed")' = ItemsWith(j, "failed")
      BY <2>2, <2>3, <2>5 DEF ItemsWith, JobItems
    <3>2. jobStatus[j] # "completed"
      BY <1>0, <2>1, <2>2, <2>5 DEF DoneJob, JobItems
    <3> QED
      BY <1>0, <2>1, <2>5, <3>1, <3>2 DEF CountsOfJob, DoneJob
  <2>6. CASE j = JobOf[i] /\ new \in Terminal
    <3> DEFINE S == ItemsWith(j, "success")
               F == ItemsWith(j, "failed")
    <3>1. i \in JobItems(j) /\ i \notin S /\ i \notin F
      BY <2>1, <2>2, <2>6 DEF JobItems, ItemsWith
    <3>2. /\ S' = IF new = "success" THEN S \cup {i} ELSE S
          /\ F' = IF new = "failed" THEN F \cup {i} ELSE F
      BY <2>1, <2>2, <2>3, <2>6, <3>1 DEF ItemsWith, JobItems
    <3>3. /\ Cardinality(S') = Cardinality(S) + IF new = "success" THEN 1 ELSE 0
          /\ Cardinality(F') = Cardinality(F) + IF new = "failed" THEN 1 ELSE 0
      BY <3>1, <3>2, ItemsWithFinite, FS_AddElement
    <3>4. /\ completed'[j] = completed[j] + 1
          /\ succeeded'[j] = succeeded[j] + IF new = "success" THEN 1 ELSE 0
          /\ failed'[j] = failed[j] + IF new = "failed" THEN 1 ELSE 0
          /\ jobStatus'[j] = "completed" => completed[j] + 1 = Total(j)
      BY <1>0, <2>1, <2>6 DEF CountItem, TypeInv, TypeOK
    <3>5. completed[j] \in Nat /\ succeeded[j] \in Nat /\ failed[j] \in Nat
      BY <1>0 DEF TypeInv, TypeOK
    <3>6. CountsOfJob(j)'
      BY <1>0, <2>6, <3>3, <3>4, <3>5, ItemsWithFinite DEF CountsOfJob
    <3>7. DoneJob(j)'
      <4> SUFFICES ASSUME jobStatus'[j] = "completed"
                   PROVE  /\ \A k \in JobItems(j) : status'[k] \in Terminal
                          /\ succeeded'[j] = Cardinality(S') /\ failed'[j] = Cardinality(F')
        BY DEF DoneJob, JobItems
      <4>1. succeeded'[j] \in Nat /\ failed'[j] \in Nat /\ succeeded'[j] + failed'[j] = Cardinality(JobItems(j))
        BY <1>0, <2>6, <3>4, <3>5 DEF CountsOfJob, Total
      <4>2. S' \in SUBSET JobItems(j) /\ F' \in SUBSET JobItems(j) /\ S' \cap F' = {}
        BY DEF ItemsWith, JobItems
      <4>3. succeeded'[j] <= Cardinality(S') /\ failed'[j] <= Cardinality(F')
        BY <3>6 DEF CountsOfJob
      <4>4. S' \cup F' = JobItems(j) /\ succeeded'[j] = Cardinality(S') /\ failed'[j] = Cardinality(F')
        BY <4>1, <4>2, <4>3, ItemsWithFinite, CountedToTotal
      <4> QED
        BY <4>4 DEF ItemsWith
    <3> QED
      BY <3>6, <3>7
  <2> QED
    BY <2>1, <2>4, <2>5, <2>6
<1>4. CASE Quiet
  BY <1>0, <1>4, UntouchedJob DEF Quiet
<1> QED
  BY <1>1, <1>2, <1>3, <1>4, WritingSteps

\* The invariant holds of empty tables.
LEMMA SafeInit == Init => SafeInv
<1> SUFFICES ASSUME Init PROVE SafeInv
  OBVIOUS
<1>1. TypeInv
  BY TypeInit
<1>2. LeaseIffRunning /\ AbsentTogether /\ SnapshotIsOld
  BY JobOfAssumption DEF Init, LeaseIffRunning, AbsentTogether, SnapshotIsOld
<1>3. CountsNeverAhead
  BY ItemsWithFinite DEF Init, CountsNeverAhead
<1>4. CompletedJobIsDone
  BY DEF Init, CompletedJobIsDone
<1> QED
  BY <1>1, <1>2, <1>3, <1>4 DEF SafeInv

\* It is inductive.
LEMMA SafeNext == SafeInv /\ [Next]_vars => SafeInv'
<1> SUFFICES ASSUME SafeInv, [Next]_vars PROVE SafeInv'
  OBVIOUS
<1>1. TypeInv /\ LeaseIffRunning /\ AbsentTogether /\ SnapshotIsOld
  BY DEF SafeInv
<1>2. TypeInv' /\ LeaseIffRunning' /\ AbsentTogether' /\ SnapshotIsOld'
  BY <1>1, TypeNext, LeaseNext, AbsentNext, SnapshotNext
<1>3. \A j \in Job : CountsOfJob(j)' /\ DoneJob(j)'
  BY CountsNext
<1>4. CountsNeverAhead' /\ CompletedJobIsDone'
  BY <1>3 DEF CountsOfJob, DoneJob, CountsNeverAhead, CompletedJobIsDone
<1> QED
  BY <1>2, <1>4 DEF SafeInv

\* So it holds always.
LEMMA SafeAlways == Spec => []SafeInv
  BY SafeInit, SafeNext, PTL DEF Spec

\* Only a running item has an owner and a lease, so that the lease_owner
\* test of FinishItem and HeartbeatItem also tests the status.
THEOREM LeaseMeansRunning == Spec => []LeaseIffRunning
<1>1. SafeInv => LeaseIffRunning
  BY DEF SafeInv
<1> QED
  BY SafeAlways, <1>1, PTL

\* No job ever counts an item that has not ended, or an item twice, although
\* FinishItem and ClaimItem both write the counters.
THEOREM NeverOvercounted == Spec => []CountsNeverAhead
<1>1. SafeInv => CountsNeverAhead
  BY DEF SafeInv
<1> QED
  BY SafeAlways, <1>1, PTL

\* A job that reads as completed has only ended items and exact counters.
THEOREM CompletedMeansDone == Spec => []CompletedJobIsDone
<1>1. SafeInv => CompletedJobIsDone
  BY DEF SafeInv
<1> QED
  BY SafeAlways, <1>1, PTL

\* An item that ended never changes its status and a completed job is never
\* reopened, by whichever goroutine, crash or repeated claim.
THEOREM EndedForGood == Spec => TerminalIsFinal
<1> DEFINE Stays == /\ \A i \in Item : status[i] \in Terminal => status'[i] = status[i]
                    /\ \A j \in Job : jobStatus[j] = "completed" => jobStatus'[j] = "completed"
<1>1. ASSUME SafeInv, [Next]_vars PROVE Stays
  <2>1. TypeInv /\ LeaseIffRunning /\ AbsentTogether /\ CompletedJobIsDone
    BY <1>1 DEF SafeInv
  <2>2. \A i \in Item : status[i] \in Terminal => status'[i] = status[i]
    BY <1>1, <2>1, EndedItemStays
  <2>3. ASSUME NEW j \in Job, jobStatus[j] = "completed" PROVE jobStatus'[j] = "completed"
    <3>1. \A k \in Item : JobOf[k] = j => status[k] \in Terminal
      BY <2>1, <2>3 DEF CompletedJobIsDone, JobItems
    <3>2. ASSUME NEW k \in Job, Submit(k) PROVE jobStatus'[j] = "completed"
      BY <2>1, <2>3, <3>2 DEF Submit, TypeInv, TypeOK
    <3>3. ASSUME NEW s \in Slot, NEW i \in Item, ClaimRows(s, i) PROVE jobStatus'[j] = "completed"
      <4>1. j \notin Recounted(s) /\ j # JobOf[i]
        BY <2>1, <3>1, <3>3, ClaimRowsItems DEF Recounted
      <4> QED
        BY <2>1, <2>3, <3>3, <4>1, ClaimRowsJobs
    <3>4. ASSUME NEW s \in Slot, FinishCommit(s) PROVE jobStatus'[j] = "completed"
      <4>1. /\ held[s] \in Item /\ JobOf[held[s]] \in Job /\ owner[held[s]] # None
            /\ UNCHANGED jobStatus \/ CountItem(JobOf[held[s]], plan[s])
        BY <2>1, <3>4, FinishCommitCases, WorkerOfAssumption, NoneAssumption
      <4>2. j # JobOf[held[s]]
        BY <2>1, <3>1, <4>1 DEF LeaseIffRunning
      <4> QED
        BY <2>1, <2>3, <4>1, <4>2 DEF CountItem, TypeInv, TypeOK
    <3>5. CASE Quiet
      BY <2>3, <3>5 DEF Quiet
    <3> QED
      BY <1>1, <3>2, <3>3, <3>4, <3>5, WritingSteps
  <2> QED
    BY <2>2, <2>3
<1>2. SafeInv /\ [Next]_vars => [Stays]_vars
  BY <1>1
<1> QED
  BY SafeAlways, <1>2, PTL DEF Spec, TerminalIsFinal

-----------------------------------------------------------------------------
(***************************************************************************)
(* What the counters lack.  Until an item of a job fails on its last       *)
(* attempt no claim recounts the job, and FinishItem alone counts exactly. *)
(***************************************************************************)
Unexhausted(j) == \A i \in JobItems(j) : status[i] = "failed" => attempts[i] < MaxAttempts
Exact(j) == /\ succeeded[j] = Cardinality(ItemsWith(j, "success"))
            /\ failed[j] = Cardinality(ItemsWith(j, "failed"))
            /\ (\A i \in JobItems(j) : status[i] \in Terminal) => jobStatus[j] = "completed"

\* Two disjoint sets that fill a third have its size together.
LEMMA PartsAddUp ==
  ASSUME NEW T, IsFiniteSet(T), NEW A, NEW B, A \cup B = T, A \cap B = {}
  PROVE  Cardinality(A) + Cardinality(B) = Cardinality(T)
<1>1. IsFiniteSet(A) /\ IsFiniteSet(B)
  BY A \subseteq T, B \subseteq T, FS_Subset
<1>2. Cardinality(A) \in Nat /\ Cardinality(B) \in Nat /\ Cardinality(A \cap B) = 0
  BY <1>1, FS_CardinalityType, FS_EmptySet
<1>3. Cardinality(A \cup B) = Cardinality(A) + Cardinality(B) - Cardinality(A \cap B)
  BY <1>1, FS_Union
<1>4. Cardinality(T) = Cardinality(A) + Cardinality(B) - 0
  <2>1. Cardinality(T) = Cardinality(A \cup B)
    OBVIOUS
  <2> QED
    BY <1>2, <1>3, <2>1, Zenon
<1> QED
  BY <1>2, <1>4

\* An item that ended is never claimed again.
LEMMA EndedKeepsAttempts ==
  ASSUME SafeInv, [Next]_vars, NEW i \in Item, status[i] \in Terminal
  PROVE  attempts'[i] = attempts[i]
<1>1. ASSUME NEW s \in Slot, NEW k \in Item, ClaimCommit(s, k) \/ ClaimLost(s, k)
      PROVE  attempts'[i] = attempts[i]
  <2>1. ClaimRows(s, k)
    BY <1>1, Zenon DEF ClaimCommit, ClaimLost
  <2>2. k # i
    BY <2>1, ClaimRowsItems DEF SafeInv
  <2>3. attempts' = [attempts EXCEPT ![k] = @ + 1]
    BY <2>1, Zenon DEF ClaimRows
  <2> QED
    BY <2>2, <2>3 DEF SafeInv, TypeInv, TypeOK
<1>2. ASSUME NEW s \in Slot,
             \/ ClaimBegin(s) \/ ClaimEmpty(s) \/ ClaimAbort(s) \/ Heartbeat(s)
             \/ FinishCommit(s) \/ FinishRejected(s) \/ FinishAbort(s)
             \/ \E outcome \in {"success", "fatal", "retryable"} : FinishRead(s, outcome)
      PROVE  attempts' = attempts
  BY <1>2, Zenon DEF ClaimBegin, ClaimEmpty, ClaimAbort, Heartbeat, FinishCommit, FinishRejected,
                     FinishAbort, FinishRead
<1>3. ASSUME NEW j \in Job, Submit(j) PROVE attempts' = attempts
  BY <1>3 DEF Submit
<1>4. ASSUME NEW k \in Item, LeaseExpires(k) PROVE attempts' = attempts
  BY <1>4 DEF LeaseExpires
<1>5. ASSUME NEW w \in Worker, Crash(w) PROVE attempts' = attempts
  BY <1>5 DEF Crash
<1>6. CASE UNCHANGED vars
  BY <1>6 DEF vars
<1> QED
  BY <1>1, <1>2, <1>3, <1>4, <1>5, <1>6, NextCases

\* A job whose row and items a step leaves alone stays exact.
LEMMA UntouchedIsExact ==
  ASSUME NEW j \in Job, Exact(j), \A k \in JobItems(j) : status'[k] = status[k],
         succeeded'[j] = succeeded[j], failed'[j] = failed[j], jobStatus'[j] = jobStatus[j]
  PROVE  Exact(j)'
<1>1. \A st : ItemsWith(j, st)' = ItemsWith(j, st)
  BY DEF ItemsWith, JobItems
<1> QED
  BY <1>1 DEF Exact, JobItems

\* A job with an item that no step has ended needs only exact counters.
LEMMA UnfinishedIsExact ==
  ASSUME NEW j \in Job, Exact(j), NEW i \in JobItems(j), status[i] \notin Terminal, status'[i] \notin Terminal,
         \A k \in JobItems(j) \ {i} : status'[k] = status[k],
         succeeded'[j] = succeeded[j], failed'[j] = failed[j]
  PROVE  Exact(j)'
<1>1. \A st \in Terminal : ItemsWith(j, st)' = ItemsWith(j, st)
  BY DEF ItemsWith, JobItems
<1> QED
  BY <1>1 DEF Exact, JobItems

\* FinishItem counts the result it stores.
LEMMA FinishIsExact ==
  ASSUME SafeInv, NEW j \in Job, Exact(j), NEW s \in Slot, FinishCommit(s)
  PROVE  Exact(j)'
<1> DEFINE i == held[s]
           new == plan[s]
<1>0. TypeInv /\ LeaseIffRunning /\ CountsOfJob(j)
  BY DEF SafeInv, CountsNeverAhead, CountsOfJob
<1>1. /\ i \in Item /\ JobOf[i] \in Job /\ new \in {"queued"} \cup Terminal
      /\ status' = [status EXCEPT ![i] = new] /\ owner[i] # None
      /\ \/ new = "queued" /\ UNCHANGED <<jobStatus, completed, succeeded, failed>>
         \/ new \in Terminal /\ CountItem(JobOf[i], new)
  BY <1>0, FinishCommitCases, WorkerOfAssumption, NoneAssumption
<1>2. /\ status[i] = "running" /\ status'[i] = new
      /\ \A k \in Item \ {i} : status'[k] = status[k]
  BY <1>0, <1>1 DEF LeaseIffRunning, TypeInv, TypeOK
<1>3. CASE j # JobOf[i]
  <2>1. succeeded'[j] = succeeded[j] /\ failed'[j] = failed[j] /\ jobStatus'[j] = jobStatus[j]
    BY <1>0, <1>1, <1>3 DEF CountItem, TypeInv, TypeOK
  <2>2. \A k \in JobItems(j) : status'[k] = status[k]
    BY <1>2, <1>3 DEF JobItems
  <2> QED
    BY <2>1, <2>2, UntouchedIsExact
<1>4. CASE j = JobOf[i] /\ new = "queued"
  <2>1. i \in JobItems(j) /\ \A k \in JobItems(j) \ {i} : status'[k] = status[k]
    BY <1>1, <1>2, <1>4 DEF JobItems
  <2>2. succeeded'[j] = succeeded[j] /\ failed'[j] = failed[j]
    BY <1>1, <1>4
  <2> QED
    BY <1>2, <1>4, <2>1, <2>2, UnfinishedIsExact
<1>5. CASE j = JobOf[i] /\ new \in Terminal
  <2> DEFINE S == ItemsWith(j, "success")
             F == ItemsWith(j, "failed")
  <2>1. i \in JobItems(j) /\ i \notin S /\ i \notin F
    BY <1>1, <1>2, <1>5 DEF JobItems, ItemsWith
  <2>2. /\ S' = IF new = "success" THEN S \cup {i} ELSE S
        /\ F' = IF new = "failed" THEN F \cup {i} ELSE F
    BY <1>1, <1>2, <1>5, <2>1 DEF ItemsWith, JobItems
  <2>3. /\ Cardinality(S') = Cardinality(S) + IF new = "success" THEN 1 ELSE 0
        /\ Cardinality(F') = Cardinality(F) + IF new = "failed" THEN 1 ELSE 0
    BY <2>1, <2>2, ItemsWithFinite, FS_AddElement
  <2>4. /\ succeeded'[j] = succeeded[j] + IF new = "success" THEN 1 ELSE 0
        /\ failed'[j] = failed[j] + IF new = "failed" THEN 1 ELSE 0
        /\ jobStatus'[j] = IF completed[j] + 1 = Total(j) THEN "completed" ELSE "running"
    BY <1>0, <1>1, <1>5 DEF CountItem, TypeInv, TypeOK
  <2>5. succeeded'[j] = Cardinality(S') /\ failed'[j] = Cardinality(F')
    BY <2>3, <2>4 DEF Exact
  <2>6. ASSUME \A k \in JobItems(j) : status'[k] \in Terminal PROVE jobStatus'[j] = "completed"
    <3>1. S' \cup F' = JobItems(j) /\ S' \cap F' = {}
      BY <2>6 DEF ItemsWith, JobItems
    <3>2. Cardinality(S') + Cardinality(F') = Total(j)
      BY <3>1, ItemsWithFinite, PartsAddUp DEF Total
    <3>3. completed[j] + 1 = succeeded'[j] + failed'[j]
      BY <1>0, <1>5, <2>4 DEF CountsOfJob, TypeInv, TypeOK
    <3> QED
      BY <2>4, <2>5, <3>2, <3>3
  <2> QED
    BY <2>5, <2>6 DEF Exact, JobItems
<1> QED
  BY <1>1, <1>3, <1>4, <1>5

\* ClaimItem leaves the counters of such a job alone.
LEMMA ClaimIsExact ==
  ASSUME SafeInv, NEW j \in Job, Exact(j), Unexhausted(j)',
         NEW s \in Slot, NEW i \in Item, ClaimRows(s, i)
  PROVE  Exact(j)'
<1>0. TypeInv /\ LeaseIffRunning
  BY DEF SafeInv
<1>1. attempts' = [attempts EXCEPT ![i] = @ + 1]
  BY Zenon DEF ClaimRows
<1>2. \A e \in Exhausted(s) : JobOf[e] # j
  <2> SUFFICES ASSUME NEW e \in Exhausted(s), JobOf[e] = j PROVE FALSE
    OBVIOUS
  <2>1. e \in Item /\ e # i /\ status'[e] = "failed"
    BY <1>0, ClaimRowsItems
  <2>2. attempts[e] >= MaxAttempts /\ attempts'[e] = attempts[e]
    BY <1>0, <1>1, <2>1 DEF Exhausted, TypeInv, TypeOK
  <2>3. attempts'[e] < MaxAttempts
    BY <2>1 DEF Unexhausted, JobItems
  <2> QED
    BY <1>0, <2>1, <2>2, <2>3, MaxAttemptsAssumption DEF TypeInv, TypeOK
<1>3. j \notin Recounted(s)
  BY <1>2 DEF Recounted
<1>4. succeeded'[j] = succeeded[j] /\ failed'[j] = failed[j]
  BY <1>0, <1>3, ClaimRowsJobs
<1>5. \A k \in JobItems(j) \ {i} : status'[k] = status[k]
  BY <1>0, <1>2, ClaimRowsItems DEF JobItems
<1>6. CASE j = JobOf[i]
  <2>1. i \in JobItems(j) /\ status[i] \notin Terminal
    BY <1>0, <1>6, ClaimRowsItems DEF JobItems
  <2>2. status'[i] = "running"
    BY <1>0, <2>1, ClaimRowsItems
  <2> QED
    BY <1>4, <1>5, <2>1, <2>2, UnfinishedIsExact
<1>7. CASE j # JobOf[i]
  <2>1. jobStatus'[j] = jobStatus[j]
    BY <1>0, <1>3, <1>7, ClaimRowsJobs
  <2>2. \A k \in JobItems(j) : status'[k] = status[k]
    BY <1>5, <1>7 DEF JobItems
  <2> QED
    BY <1>4, <2>1, <2>2, UntouchedIsExact
<1> QED
  BY <1>6, <1>7

\* Every step keeps the jobs without such an item exact.
LEMMA ExactNext == SafeInv /\ ExactUnlessExhausted /\ [Next]_vars => ExactUnlessExhausted'
<1> SUFFICES ASSUME SafeInv, ExactUnlessExhausted, [Next]_vars, NEW j \in Job, Unexhausted(j)'
             PROVE  Exact(j)'
  BY DEF ExactUnlessExhausted, Unexhausted, Exact, JobItems
<1>0. TypeInv /\ LeaseIffRunning /\ AbsentTogether
  BY DEF SafeInv
<1>1. ASSUME NEW i \in JobItems(j), status[i] = "failed" PROVE attempts[i] < MaxAttempts
  <2>1. i \in Item /\ status'[i] = "failed" /\ attempts'[i] = attempts[i]
    BY <1>0, <1>1, EndedItemStays, EndedKeepsAttempts DEF JobItems
  <2> QED
    BY <2>1 DEF Unexhausted, JobItems
<1>2. Exact(j)
  BY <1>1 DEF ExactUnlessExhausted, Exact
<1>3. ASSUME NEW k \in Job, Submit(k) PROVE Exact(j)'
  <2>1. succeeded'[j] = succeeded[j] /\ failed'[j] = failed[j]
    BY <1>3 DEF Submit
  <2>2. CASE j # k
    <3>1. jobStatus'[j] = jobStatus[j] /\ \A i \in JobItems(j) : status'[i] = status[i]
      BY <1>0, <1>3, <2>2 DEF Submit, JobItems, TypeInv, TypeOK
    <3> QED
      BY <1>2, <2>1, <3>1, UntouchedIsExact
  <2>3. CASE j = k
    <3>1. \A i \in JobItems(j) : status[i] = "absent" /\ status'[i] = "queued"
      BY <1>0, <1>3, <2>3 DEF Submit, JobItems, AbsentTogether
    <3>2. \E i \in Item : i \in JobItems(j)
      BY JobAssumption DEF JobItems
    <3>3. \A st \in Terminal : ItemsWith(j, st)' = {} /\ ItemsWith(j, st) = {}
      BY <3>1 DEF ItemsWith, JobItems
    <3> QED
      BY <1>2, <2>1, <3>1, <3>2, <3>3 DEF Exact, JobItems
  <2> QED
    BY <2>2, <2>3
<1>4. ASSUME NEW s \in Slot, NEW i \in Item, ClaimRows(s, i) PROVE Exact(j)'
  BY <1>2, <1>4, ClaimIsExact
<1>5. ASSUME NEW s \in Slot, FinishCommit(s) PROVE Exact(j)'
  BY <1>2, <1>5, FinishIsExact
<1>6. CASE Quiet
  BY <1>2, <1>6, UntouchedIsExact DEF Quiet
<1> QED
  BY <1>3, <1>4, <1>5, <1>6, WritingSteps

\* No job has counters or items at first.
LEMMA ExactInit == Init => ExactUnlessExhausted
<1> SUFFICES ASSUME Init, NEW j \in Job PROVE Exact(j)
  BY DEF ExactUnlessExhausted, Exact
<1>1. \A i \in Item : status[i] = "absent"
  BY DEF Init
<1>2. \E i \in Item : i \in JobItems(j)
  BY JobAssumption DEF JobItems
<1>3. ItemsWith(j, "success") = {} /\ ItemsWith(j, "failed") = {}
  BY <1>1 DEF ItemsWith, JobItems
<1>4. Cardinality(ItemsWith(j, "success")) = 0 /\ Cardinality(ItemsWith(j, "failed")) = 0
  BY <1>3, FS_EmptySet
<1>5. succeeded[j] = 0 /\ failed[j] = 0
  BY DEF Init
<1> QED
  BY <1>1, <1>2, <1>4, <1>5 DEF Exact, JobItems

\* Only a job with an item that failed on its last attempt can lack a result
\* in its counters, or stay open when all its items have ended: the recount of
\* ClaimItem is the one place where counts get lost.
THEOREM OnlyExhaustionIsMiscounted == Spec => []ExactUnlessExhausted
  BY ExactInit, ExactNext, SafeAlways, PTL DEF Spec

-----------------------------------------------------------------------------
(***************************************************************************)
(* What the item queue gains when every goroutine has a worker id of its   *)
(* own (WORKER_COUNT = 1): the lease_owner fence then tells two attempts   *)
(* apart.  With siblings under one id neither theorem holds, which the run *)
(* item_stale_attempts shows.                                              *)
(***************************************************************************)
OneGoroutineEach == \A s, t \in Slot : WorkerOf[s] = WorkerOf[t] => s = t

\* A goroutine between two items holds none and has decided nothing.
OnlyBusyHold ==
  \A s \in Slot : pc[s] \in {"idle", "claiming"} => held[s] = None /\ plan[s] = "none"

\* FinishItem's read of attempts is still true when its result is written.
RetryIsCurrent ==
  \A s \in Slot : plan[s] = "queued" /\ HoldsLease(s) => attempts[held[s]] < MaxAttempts

WaitingCanBeClaimed ==
  \A i \in Item : status[i] \in {"absent", "queued"} => attempts[i] < MaxAttempts

FenceInv == OnlyBusyHold /\ FenceIsExact /\ RetryIsCurrent /\ WaitingCanBeClaimed

\* Nobody holds anything in empty tables.
LEMMA FenceInit == Init => FenceInv
  BY MaxAttemptsAssumption
  DEF Init, FenceInv, OnlyBusyHold, FenceIsExact, RetryIsCurrent, HoldsLease, WaitingCanBeClaimed

\* A claim that goroutine s makes, or loses: nobody who held the item passes
\* the fence any more, and the new attempt is s's.
LEMMA ClaimKeepsFence ==
  ASSUME OneGoroutineEach, TypeInv, LeaseIffRunning, FenceInv,
         NEW s \in Slot, NEW i \in Item, ClaimRows(s, i), held[s] = None,
         plan[s] = "none", UNCHANGED plan,
         \/ UNCHANGED <<held, ticket>>
         \/ held' = [held EXCEPT ![s] = i] /\ ticket' = [ticket EXCEPT ![s] = attempts[i] + 1]
  PROVE  FenceIsExact' /\ RetryIsCurrent' /\ WaitingCanBeClaimed'
<1> USE DEF TypeInv, TypeOK
<1>1. /\ attempts' = [attempts EXCEPT ![i] = @ + 1]
      /\ attempts[i] \in Nat
  BY MaxAttemptsAssumption DEF ClaimRows
<1>2. \A k \in Item : k # i => owner'[k] \in {owner[k], None}
  BY ClaimRowsItems
<1>3. owner'[i] = WorkerOf[s] /\ status'[i] = "running"
  BY ClaimRowsItems, NoneAssumption, WorkerOfAssumption
<1>4. \A t \in Slot : t # s => held'[t] = held[t] /\ ticket'[t] = ticket[t]
  OBVIOUS
<1>5. \/ held'[s] = None
      \/ held'[s] = i /\ ticket'[s] = attempts[i] + 1
  OBVIOUS
<1>6. \A t \in Slot : WorkerOf[t] # None /\ (t # s => WorkerOf[t] # WorkerOf[s])
  BY NoneAssumption, WorkerOfAssumption DEF OneGoroutineEach
<1>7. ASSUME NEW t \in Slot, t # s, HoldsLease(t)'
      PROVE  /\ held'[t] = held[t] /\ ticket'[t] = ticket[t] /\ HoldsLease(t)
             /\ attempts'[held[t]] = attempts[held[t]]
  <2>1. held[t] \in Item /\ held[t] # i
    BY <1>3, <1>4, <1>6, <1>7 DEF HoldsLease
  <2> QED
    BY <1>1, <1>2, <1>4, <1>6, <1>7, <2>1 DEF HoldsLease
<1>8. FenceIsExact'
  <2> SUFFICES ASSUME NEW t \in Slot, HoldsLease(t)' PROVE ticket'[t] = attempts'[held'[t]]
    BY DEF FenceIsExact, HoldsLease
  <2>1. CASE t # s
    BY <1>7, <2>1 DEF FenceInv, FenceIsExact, HoldsLease
  <2>2. CASE t = s
    BY <1>1, <1>5, <2>2 DEF HoldsLease
  <2> QED BY <2>1, <2>2
<1>9. RetryIsCurrent'
  BY <1>7 DEF FenceInv, RetryIsCurrent
<1>10. WaitingCanBeClaimed'
  <2>1. \A k \in Item : status'[k] \in {"absent", "queued"} => k # i /\ status'[k] = status[k]
    BY ClaimRowsItems
  <2> QED
    BY <1>1, <2>1 DEF FenceInv, WaitingCanBeClaimed
<1> QED BY <1>8, <1>9, <1>10

\* A step that claims nothing, decides nothing and only takes items away from
\* goroutines and owners away from items.
LEMMA LettingGoKeepsFence ==
  ASSUME TypeInv, FenceInv, UNCHANGED attempts,
         \A k \in Item : owner'[k] \in {owner[k], None},
         held' \in [Slot -> Item \cup {None}],
         \A t \in Slot : \/ held'[t] = None
                         \/ held'[t] = held[t] /\ ticket'[t] = ticket[t] /\ plan'[t] = plan[t]
  PROVE  FenceIsExact' /\ RetryIsCurrent'
<1>1. ASSUME NEW t \in Slot, HoldsLease(t)'
      PROVE  /\ HoldsLease(t) /\ held'[t] = held[t] /\ ticket'[t] = ticket[t]
             /\ plan'[t] = plan[t]
  BY <1>1, NoneAssumption, WorkerOfAssumption DEF HoldsLease
<1>2. FenceIsExact'
  BY <1>1 DEF FenceInv, FenceIsExact, HoldsLease
<1>3. RetryIsCurrent'
  BY <1>1 DEF FenceInv, RetryIsCurrent
<1> QED BY <1>2, <1>3

\* Release does this for goroutine s.
LEMMA ReleaseLetsGo ==
  ASSUME TypeInv, FenceInv, NEW s \in Slot, Release(s)
  PROVE  /\ OnlyBusyHold'
         /\ held' \in [Slot -> Item \cup {None}]
         /\ \A t \in Slot : \/ held'[t] = None
                            \/ held'[t] = held[t] /\ ticket'[t] = ticket[t] /\ plan'[t] = plan[t]
  BY DEF Release, TypeInv, TypeOK, FenceInv, OnlyBusyHold

\* With a worker id for every goroutine, every step keeps the fence exact.
LEMMA FenceNext ==
  ASSUME OneGoroutineEach, SafeInv, FenceInv, [Next]_vars
  PROVE  FenceInv'
<1> USE DEF rows, counters, goroutine
<1>0. TypeInv /\ LeaseIffRunning
  BY DEF SafeInv
<1>1. ASSUME NEW j \in Job, Submit(j) PROVE FenceInv'
  <2>1. /\ UNCHANGED <<attempts, owner, held, ticket, plan, pc>>
        /\ \A i \in Item : status'[i] \in {"absent", "queued"} => status[i] \in {"absent", "queued"}
    <3>1. \A i \in Item : JobOf[i] = j => status[i] = "absent"
      BY <1>1 DEF Submit, SafeInv, AbsentTogether
    <3> QED BY <1>1, <3>1 DEF Submit
  <2> QED BY <2>1 DEF FenceInv, OnlyBusyHold, FenceIsExact, RetryIsCurrent, HoldsLease,
                      WaitingCanBeClaimed
<1>2. ASSUME NEW s \in Slot, ClaimBegin(s) PROVE FenceInv'
  BY <1>0, <1>2 DEF ClaimBegin, TypeInv, TypeOK, FenceInv, OnlyBusyHold, FenceIsExact,
                    RetryIsCurrent, HoldsLease, WaitingCanBeClaimed
<1>3. ASSUME NEW s \in Slot, NEW i \in Item, ClaimCommit(s, i) PROVE FenceInv'
  <2>1. /\ held[s] = None /\ plan[s] = "none" /\ UNCHANGED plan
        /\ held' = [held EXCEPT ![s] = i] /\ ticket' = [ticket EXCEPT ![s] = attempts[i] + 1]
    BY <1>3 DEF ClaimCommit, FenceInv, OnlyBusyHold
  <2>2. FenceIsExact' /\ RetryIsCurrent' /\ WaitingCanBeClaimed'
    BY <1>0, <1>3, <2>1, ClaimKeepsFence DEF ClaimCommit
  <2>3. OnlyBusyHold'
    BY <1>0, <1>3 DEF ClaimCommit, TypeInv, TypeOK, FenceInv, OnlyBusyHold
  <2> QED BY <2>2, <2>3 DEF FenceInv
<1>4. ASSUME NEW s \in Slot, NEW i \in Item, ClaimLost(s, i) PROVE FenceInv'
  <2>1. held[s] = None /\ plan[s] = "none" /\ UNCHANGED <<held, ticket, plan>>
    BY <1>4 DEF ClaimLost, FenceInv, OnlyBusyHold
  <2>2. FenceIsExact' /\ RetryIsCurrent' /\ WaitingCanBeClaimed'
    BY <1>0, <1>4, <2>1, ClaimKeepsFence DEF ClaimLost
  <2>3. OnlyBusyHold'
    BY <1>0, <1>4, <2>1 DEF ClaimLost, TypeInv, TypeOK, FenceInv, OnlyBusyHold
  <2> QED BY <2>2, <2>3 DEF FenceInv
<1>5. ASSUME NEW s \in Slot, ClaimEmpty(s) \/ ClaimAbort(s) PROVE FenceInv'
  BY <1>0, <1>5 DEF ClaimEmpty, ClaimAbort, TypeInv, TypeOK, FenceInv, OnlyBusyHold,
                    FenceIsExact, RetryIsCurrent, HoldsLease, WaitingCanBeClaimed
<1>6. ASSUME UNCHANGED <<status, owner, attempts, pc, held, ticket, plan>> PROVE FenceInv'
  BY <1>6 DEF FenceInv, OnlyBusyHold, FenceIsExact, RetryIsCurrent, HoldsLease,
              WaitingCanBeClaimed
<1>7. ASSUME NEW s \in Slot, NEW how \in {"success", "fatal", "retryable"}, FinishRead(s, how)
      PROVE  FenceInv'
  <2>1. plan'[s] = "queued" => attempts[held[s]] < MaxAttempts
    BY <1>0, <1>7 DEF FinishRead, Retries, TypeInv, TypeOK
  <2>2. /\ UNCHANGED <<status, owner, attempts, held, ticket>>
        /\ \A t \in Slot : t # s => plan'[t] = plan[t] /\ pc'[t] = pc[t]
        /\ pc'[s] = "finishing"
    BY <1>0, <1>7 DEF FinishRead, TypeInv, TypeOK
  <2> QED
    BY <2>1, <2>2 DEF FenceInv, OnlyBusyHold, FenceIsExact, RetryIsCurrent, HoldsLease,
                      WaitingCanBeClaimed
<1>8. ASSUME NEW s \in Slot, FinishCommit(s) PROVE FenceInv'
  <2>1. /\ held[s] \in Item /\ Release(s) /\ UNCHANGED attempts
        /\ status' = [status EXCEPT ![held[s]] = plan[s]]
        /\ owner' = [owner EXCEPT ![held[s]] = None]
        /\ plan[s] = "queued" => attempts[held[s]] < MaxAttempts
    BY <1>0, <1>8, FinishCommitCases DEF FenceInv, RetryIsCurrent, HoldsLease, FinishCommit
  <2>2. FenceIsExact' /\ RetryIsCurrent' /\ OnlyBusyHold'
    BY <1>0, <2>1, ReleaseLetsGo, LettingGoKeepsFence DEF TypeInv, TypeOK
  <2>3. plan[s] \in {"queued"} \cup Terminal
    BY <1>0, <1>8, FinishCommitCases
  <2>4. WaitingCanBeClaimed'
    BY <1>0, <2>1, <2>3 DEF FenceInv, WaitingCanBeClaimed, Terminal, TypeInv, TypeOK
  <2> QED BY <2>2, <2>4 DEF FenceInv
<1>9. ASSUME NEW s \in Slot, FinishRejected(s) \/ FinishAbort(s) PROVE FenceInv'
  <2>1. Release(s) /\ UNCHANGED <<status, owner, attempts>>
    BY <1>9 DEF FinishRejected, FinishAbort
  <2>2. FenceIsExact' /\ RetryIsCurrent' /\ OnlyBusyHold'
    BY <1>0, <2>1, ReleaseLetsGo, LettingGoKeepsFence
  <2> QED BY <2>1, <2>2 DEF FenceInv, WaitingCanBeClaimed
<1>10. ASSUME NEW w \in Worker, Crash(w) PROVE FenceInv'
  <2>1. /\ UNCHANGED <<status, owner, attempts>>
        /\ held' \in [Slot -> Item \cup {None}]
        /\ \A t \in Slot : \/ held'[t] = None
                           \/ held'[t] = held[t] /\ ticket'[t] = ticket[t] /\ plan'[t] = plan[t]
    BY <1>0, <1>10 DEF Crash, TypeInv, TypeOK
  <2>2. OnlyBusyHold'
    BY <1>10 DEF Crash, FenceInv, OnlyBusyHold
  <2>3. FenceIsExact' /\ RetryIsCurrent'
    BY <1>0, <2>1, LettingGoKeepsFence
  <2> QED BY <2>1, <2>2, <2>3 DEF FenceInv, WaitingCanBeClaimed
<1>11. ASSUME NEW s \in Slot, Heartbeat(s) PROVE FenceInv'
  BY <1>6, <1>11 DEF Heartbeat
<1>12. ASSUME NEW i \in Item, LeaseExpires(i) PROVE FenceInv'
  BY <1>6, <1>12 DEF LeaseExpires
<1>13. ASSUME UNCHANGED vars PROVE FenceInv'
  BY <1>6, <1>13 DEF vars
<1> QED
  BY <1>1, <1>2, <1>3, <1>4, <1>5, <1>7, <1>8, <1>9, <1>10, <1>11, <1>12, <1>13, NextCases

-----------------------------------------------------------------------------
\* So it is exact always.
LEMMA FenceAlways == ASSUME OneGoroutineEach PROVE Spec => []FenceInv
<1>1. SafeInv /\ FenceInv /\ [Next]_vars => FenceInv'
  BY FenceNext
<1> QED BY FenceInit, SafeAlways, <1>1, PTL DEF Spec

\* With WORKER_COUNT = 1 a goroutine that passes the lease_owner test of
\* FinishItem makes the item's latest attempt: no evicted result is stored.
THEOREM FenceAdmitsLatestAttempt ==
  ASSUME OneGoroutineEach PROVE Spec => []FenceIsExact
<1>1. FenceInv => FenceIsExact
  BY DEF FenceInv
<1> QED BY FenceAlways, <1>1, PTL

\* With WORKER_COUNT = 1 an item that FinishItem requeues has an attempt left,
\* although it decides on an unlocked read.
THEOREM QueuedIsClaimable ==
  ASSUME OneGoroutineEach PROVE Spec => []QueuedItemCanBeClaimed
<1>1. FenceInv => QueuedItemCanBeClaimed
  BY DEF FenceInv, WaitingCanBeClaimed, QueuedItemCanBeClaimed
<1> QED BY FenceAlways, <1>1, PTL

(***************************************************************************)
(* The responses of get are consistent.  A row read by the first SELECT    *)
(* stays true of the items until the second: items that ended do not       *)
(* change, so there can only be more of them than the row counts.          *)
(***************************************************************************)
USE DEF reader

\* What the first SELECT returned is backed by the items as they are now.
Backed(r) ==
  /\ r.job \in Job
  /\ r.completed = r.succeeded + r.failed
  /\ r.succeeded \in Nat /\ r.succeeded <= Cardinality(ItemsWith(r.job, "success"))
  /\ r.failed \in Nat /\ r.failed <= Cardinality(ItemsWith(r.job, "failed"))
  /\ r.status = "completed" =>
       /\ \A i \in JobItems(r.job) : status[i] \in Terminal
       /\ r.succeeded = Cardinality(ItemsWith(r.job, "success"))
       /\ r.failed = Cardinality(ItemsWith(r.job, "failed"))

ReadInv == /\ SafeInv
           /\ row # None => Backed(row)
           /\ AnswerIsConsistent

\* No get is under way at first.
LEMMA ReadInitInv == ReadInit => ReadInv
  BY SafeInit DEF ReadInit, ReadInv, AnswerIsConsistent

\* A row just read is backed: this is what CountsNeverAhead and
\* CompletedJobIsDone say of the job.
LEMMA RowIsBacked ==
  ASSUME SafeInv, NEW j \in Job
  PROVE  Backed(JobRow(j))
<1>1. completed[j] \in Nat /\ succeeded[j] \in Nat /\ failed[j] \in Nat
  BY DEF SafeInv, TypeInv, TypeOK
<1>2. /\ completed[j] = succeeded[j] + failed[j]
      /\ succeeded[j] <= Cardinality(ItemsWith(j, "success"))
      /\ failed[j] <= Cardinality(ItemsWith(j, "failed"))
  BY DEF SafeInv, CountsNeverAhead
<1>3. jobStatus[j] = "completed" =>
        /\ \A i \in JobItems(j) : status[i] \in Terminal
        /\ succeeded[j] = Cardinality(ItemsWith(j, "success"))
        /\ failed[j] = Cardinality(ItemsWith(j, "failed"))
  BY DEF SafeInv, CompletedJobIsDone
<1> QED
  BY <1>1, <1>2, <1>3 DEF Backed, JobRow

\* A step of the queue between the two SELECTs leaves a row backed.
LEMMA RowStaysBacked ==
  ASSUME SafeInv, [Next]_vars, NEW r, Backed(r)
  PROVE  Backed(r)'
<1> DEFINE j == r.job
<1>1. \A i \in JobItems(j) : status[i] \in Terminal => status'[i] = status[i]
  BY EndedItemStays DEF SafeInv, JobItems
<1>2. ASSUME NEW st \in Terminal
      PROVE  /\ ItemsWith(j, st) \subseteq ItemsWith(j, st)'
             /\ Cardinality(ItemsWith(j, st)) <= Cardinality(ItemsWith(j, st)')
  <2>1. ItemsWith(j, st) \subseteq ItemsWith(j, st)'
    BY <1>1, <1>2 DEF ItemsWith, JobItems
  <2> QED
    BY <2>1, ItemsWithFinite, FS_Subset
<1>3. /\ r.succeeded <= Cardinality(ItemsWith(j, "success")')
      /\ r.failed <= Cardinality(ItemsWith(j, "failed")')
  <2>1. \A st \in Terminal : Cardinality(ItemsWith(j, st)) \in Nat /\ Cardinality(ItemsWith(j, st)') \in Nat
    BY ItemsWithFinite
  <2> QED
    BY <1>2, <2>1 DEF Backed
<1>4. ASSUME r.status = "completed"
      PROVE  /\ \A i \in JobItems(j) : status'[i] \in Terminal
             /\ r.succeeded = Cardinality(ItemsWith(j, "success")')
             /\ r.failed = Cardinality(ItemsWith(j, "failed")')
  <2>1. \A i \in JobItems(j) : status'[i] = status[i]
    BY <1>1, <1>4 DEF Backed
  <2>2. \A st : ItemsWith(j, st)' = ItemsWith(j, st)
    BY <2>1 DEF ItemsWith, JobItems
  <2> QED
    BY <1>4, <2>1, <2>2 DEF Backed
<1> QED
  BY <1>3, <1>4 DEF Backed, JobItems

\* The second SELECT completes a backed row to a consistent response.
LEMMA BackedRowAnswers ==
  ASSUME row # None, Backed(row), SelectItems
  PROVE  AnswerIsConsistent'
<1> DEFINE a == [row |-> row, items |-> ItemRows(row.job)]
<1>1. answer' = a
  BY DEF SelectItems
<1>2. \A st : Shown(a, st) = ItemsWith(row.job, st)
  BY DEF Shown, ItemRows, ItemsWith
<1>3. (\A i \in JobItems(row.job) : status[i] \in Terminal)
        => \A i \in DOMAIN a.items : a.items[i] \in Terminal
  BY DEF ItemRows
<1>4. a.row = row
  OBVIOUS
<1> HIDE DEF a
<1> QED
  BY <1>1, <1>2, <1>3, <1>4 DEF AnswerIsConsistent, Backed

\* ReadInv is inductive.
LEMMA ReadNextInv == ReadInv /\ [ReadNext]_observed => ReadInv'
<1> SUFFICES ASSUME ReadInv, [ReadNext]_observed PROVE ReadInv'
  OBVIOUS
<1>1. SafeInv
  BY DEF ReadInv
<1>2. [Next]_vars
  BY DEF ReadNext, SelectJob, SelectItems, observed
<1>3. SafeInv'
  BY <1>1, <1>2, SafeNext
<1>4. ASSUME UNCHANGED reader PROVE ReadInv'
  <2>1. PICK r : r = row
    OBVIOUS
  <2>2. row # None => Backed(r)'
    BY <1>1, <1>2, <2>1, RowStaysBacked DEF ReadInv
  <2>3. row' = r
    BY <1>4, <2>1
  <2>4. (row # None => Backed(row))'
    BY <1>4, <2>1, <2>2, <2>3 DEF Backed
  <2>5. AnswerIsConsistent'
    BY <1>4 DEF ReadInv, AnswerIsConsistent, Shown
  <2> QED
    BY <1>3, <2>4, <2>5 DEF ReadInv
<1>5. ASSUME NEW j \in Job, SelectJob(j) PROVE ReadInv'
  <2>1. Backed(JobRow(j))
    BY <1>1, RowIsBacked
  <2>2. Backed(JobRow(j))'
    BY <1>3, RowIsBacked, <1>5, <2>1 DEF SelectJob, vars, Backed, JobRow, ItemsWith, JobItems
  <2>3. (row # None => Backed(row))'
    BY <1>5, <2>2 DEF SelectJob, vars, Backed, JobRow
  <2>4. AnswerIsConsistent'
    BY <1>5 DEF SelectJob, AnswerIsConsistent
  <2> QED
    BY <1>3, <2>3, <2>4 DEF ReadInv
<1>6. ASSUME SelectItems PROVE ReadInv'
  <2>1. row # None /\ Backed(row)
    BY <1>6 DEF SelectItems, ReadInv
  <2>2. AnswerIsConsistent'
    BY <1>6, <2>1, BackedRowAnswers
  <2>3. row' = None
    BY <1>6 DEF SelectItems
  <2> QED
    BY <1>3, <2>2, <2>3 DEF ReadInv
<1>7. CASE UNCHANGED observed
  BY <1>4, <1>7 DEF observed
<1> QED
  BY <1>4, <1>5, <1>6, <1>7 DEF ReadNext

\* Whatever the workers do between the two SELECTs of get, the response's
\* counters fit its items, and a response that says completed has them all.
THEOREM ResponsesAreConsistent == ReadSpec => []AnswerIsConsistent
<1>1. ReadInv => AnswerIsConsistent
  BY DEF ReadInv
<1> QED
  BY ReadInitInv, ReadNextInv, <1>1, PTL DEF ReadSpec
=============================================================================
