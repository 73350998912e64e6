------------------------------ MODULE ItemQueue ------------------------------
(***************************************************************************)
(* The queue of articles to scrape: tables jobs and job_items, written by  *)
(* the middleware's submit and by the worker goroutines of every worker    *)
(* process (src/cmd/worker/main.go itemLoop, src/internal/store/store.go   *)
(* ClaimItem, HeartbeatItem, FinishItem).  The jobs are those of submit:   *)
(* what the command queue does to the job of a search, completing it with  *)
(* an error while it has items, is the subject of PlaceholderJobs.         *)
(*                                                                         *)
(* A transaction is READ COMMITTED.  What it writes becomes visible in one *)
(* step, its commit; what it read earlier from a snapshot is remembered in *)
(* `snap' and may be old when it is used.  Row locks are why one step is   *)
(* enough: a transaction that wants a row another one has changed waits    *)
(* for that commit and evaluates its WHERE clause again on the new row.    *)
(***************************************************************************)
EXTENDS Naturals, FiniteSets

CONSTANTS
  Worker,          \* worker processes; the element is the lease_owner it writes
  Slot,            \* goroutines running itemLoop, in all processes
  WorkerOf,        \* the process a goroutine belongs to
  Item, Job,       \* rows of job_items and of jobs
  JobOf,           \* job_items.job_id
  MaxAttempts,     \* MAX_ATTEMPTS
  PromptHeartbeats,\* TRUE: no lease lapses while its holder is at work
  MaxFaults,       \* bound: crashes, database errors and lost acknowledgements
  None

ASSUME WorkerOfAssumption == WorkerOf \in [Slot -> Worker]
ASSUME JobOfAssumption == JobOf \in [Item -> Job]
ASSUME ItemAssumption == IsFiniteSet(Item)
ASSUME JobAssumption == \A j \in Job : \E i \in Item : JobOf[i] = j
ASSUME MaxAttemptsAssumption == MaxAttempts \in Nat \ {0}
ASSUME MaxFaultsAssumption == MaxFaults \in Nat
ASSUME PromptAssumption == PromptHeartbeats \in BOOLEAN
ASSUME NoneAssumption == None \notin Worker /\ None \notin Item

VARIABLES
  status,    \* job_items.status, or "absent" before the job is submitted
  owner,     \* job_items.lease_owner, None for NULL
  lease,     \* lease_until: NULL, in the future or in the past
  attempts,  \* job_items.attempts
  jobStatus, \* jobs.status
  completed, succeeded, failed,  \* the counters of jobs
  pc,        \* where each goroutine is
  held,      \* the item a goroutine is working on
  plan,      \* the status FinishItem has decided to write
  ticket,    \* history: which attempt at its item a goroutine is making
  snap,      \* what the open claim transaction of a goroutine has read
  faults     \* faults so far

rows == <<status, owner, lease, attempts>>
counters == <<completed, succeeded, failed>>
goroutine == <<pc, held, plan, ticket>>
vars == <<status, owner, lease, attempts, jobStatus, completed, succeeded, failed,
          pc, held, plan, ticket, snap, faults>>

Terminal == {"success", "failed"}
JobItems(j) == {i \in Item : JobOf[i] = j}
NoSnapshot == [success |-> {}, failed |-> {}, lapsed |-> {}]

Init ==
  /\ status = [i \in Item |-> "absent"]
  /\ owner = [i \in Item |-> None]
  /\ lease = [i \in Item |-> "none"]
  /\ attempts = [i \in Item |-> 0]
  /\ jobStatus = [j \in Job |-> "absent"]
  /\ completed = [j \in Job |-> 0]
  /\ succeeded = [j \in Job |-> 0]
  /\ failed = [j \in Job |-> 0]
  /\ pc = [s \in Slot |-> "idle"]
  /\ held = [s \in Slot |-> None]
  /\ plan = [s \in Slot |-> "none"]
  /\ ticket = [s \in Slot |-> 0]
  /\ snap = [s \in Slot |-> NoSnapshot]
  /\ faults = 0

(***************************************************************************)
(* submit: one transaction inserts the command, the job and its items.     *)
(***************************************************************************)
Submit(j) ==
  /\ jobStatus[j] = "absent"
  /\ jobStatus' = [jobStatus EXCEPT ![j] = "queued"]
  /\ status' = [i \in Item |-> IF JobOf[i] = j THEN "queued" ELSE status[i]]
  /\ UNCHANGED <<owner, lease, attempts, counters, goroutine, snap, faults>>

(***************************************************************************)
(* ClaimItem.  ClaimBegin is the snapshot of its first statement: which    *)
(* items are done (the recount) and which leases lie before now(), the     *)
(* start of the transaction.                                               *)
(***************************************************************************)
ClaimBegin(s) ==
  /\ pc[s] = "idle"
  /\ pc' = [pc EXCEPT ![s] = "claiming"]
  /\ snap' = [snap EXCEPT ![s] = [success |-> {i \in Item : status[i] = "success"},
                                  failed  |-> {i \in Item : status[i] = "failed"},
                                  lapsed  |-> {i \in Item : lease[i] = "lapsed"}]]
  /\ UNCHANGED <<rows, jobStatus, counters, held, plan, ticket, faults>>

\* The items the statement `exhausted' fails: out of attempts, lease run out.
ExhaustedAnyAttempt(s) == {i \in snap[s].lapsed : lease[i] = "lapsed"}
Exhausted(s) == {i \in snap[s].lapsed : lease[i] = "lapsed" /\ attempts[i] >= MaxAttempts}

\* The items the SELECT .. FOR UPDATE SKIP LOCKED may return.  Which one it
\* is depends on the rows other transactions hold locked at that moment.
ClaimableQueued(s) == {i \in Item : attempts[i] < MaxAttempts /\ status[i] = "queued"}
Claimable(s) ==
  {i \in Item : /\ attempts[i] < MaxAttempts
                /\ status[i] = "queued" \/ (i \in snap[s].lapsed /\ lease[i] = "lapsed")}

\* The counts of job j in the snapshot: the update that `exhausted' makes in
\* the same statement is not visible to the COUNT beside it.
SnapshotCounts(s, j) ==
  LET a == snap[s].success \cap JobItems(j)
      d == snap[s].failed \cap JobItems(j)
  IN [completed |-> Cardinality(a) + Cardinality(d),
      succeeded |-> Cardinality(a), failed |-> Cardinality(d)]

Recounted(s) == {j \in Job : \E i \in Exhausted(s) : JobOf[i] = j}
Total(j) == Cardinality(JobItems(j))

\* lease_owner of item k once goroutine s has claimed item i.
OwnerKept(s, i, k) == IF k = i /\ owner[i] = None THEN WorkerOf[s]
                      ELSE IF k \in Exhausted(s) THEN None ELSE owner[k]
OwnerNotCleared(s, i, k) == IF k = i THEN WorkerOf[s] ELSE owner[k]
OwnerAfterClaim(s, i, k) == IF k = i THEN WorkerOf[s]
                            ELSE IF k \in Exhausted(s) THEN None ELSE owner[k]

\* now() stands still in a transaction: a lease that is written while the
\* claim of goroutine t is open has not lapsed as far as that claim can see.
Renewed(t, i) == [snap[t] EXCEPT !.lapsed = @ \ {i}]

\* Everything ClaimItem writes when item i is the row it selects.
ClaimRows(s, i) ==
  /\ i \in Claimable(s)
  /\ status' = [k \in Item |-> IF k = i THEN "running"
                               ELSE IF k \in Exhausted(s) THEN "failed" ELSE status[k]]
  /\ owner' = [k \in Item |-> OwnerAfterClaim(s, i, k)]
  /\ lease' = [k \in Item |-> IF k = i THEN "live"
                              ELSE IF k \in Exhausted(s) THEN "none" ELSE lease[k]]
  /\ attempts' = [attempts EXCEPT ![i] = @ + 1]
  /\ completed' = [j \in Job |-> IF j \in Recounted(s) THEN SnapshotCounts(s, j).completed
                                 ELSE completed[j]]
  /\ succeeded' = [j \in Job |-> IF j \in Recounted(s) THEN SnapshotCounts(s, j).succeeded
                                 ELSE succeeded[j]]
  /\ failed' = [j \in Job |-> IF j \in Recounted(s) THEN SnapshotCounts(s, j).failed
                              ELSE failed[j]]
  /\ jobStatus' = [j \in Job |-> IF j = JobOf[i] THEN "running"
                                 ELSE IF j \in Recounted(s)
                                      THEN IF SnapshotCounts(s, j).completed = Total(j)
                                           THEN "completed" ELSE "running"
                                 ELSE jobStatus[j]]
  /\ snap' = [t \in Slot |-> IF t = s THEN NoSnapshot ELSE Renewed(t, i)]

ClaimCommit(s, i) ==
  /\ pc[s] = "claiming"
  /\ ClaimRows(s, i)
  /\ pc' = [pc EXCEPT ![s] = "working"]
  /\ held' = [held EXCEPT ![s] = i]
  /\ ticket' = [ticket EXCEPT ![s] = attempts[i] + 1]
  /\ UNCHANGED <<plan, faults>>

\* The commit happened but the worker saw an error: nobody works on the item.
ClaimLost(s, i) ==
  /\ pc[s] = "claiming" /\ faults < MaxFaults
  /\ ClaimRows(s, i)
  /\ pc' = [pc EXCEPT ![s] = "idle"]
  /\ faults' = faults + 1
  /\ UNCHANGED <<held, plan, ticket>>

\* No row to claim: ClaimItem returns before the commit, and the deferred
\* Rollback takes back what `exhausted' did in the same transaction.
ClaimEmpty(s) ==
  /\ pc[s] = "claiming"
  /\ Claimable(s) = {}
  /\ pc' = [pc EXCEPT ![s] = "idle"]
  /\ snap' = [snap EXCEPT ![s] = NoSnapshot]
  /\ UNCHANGED <<rows, jobStatus, counters, held, plan, ticket, faults>>

\* A statement or the commit failed and the transaction rolled back.
ClaimAbort(s) ==
  /\ pc[s] = "claiming" /\ faults < MaxFaults
  /\ pc' = [pc EXCEPT ![s] = "idle"]
  /\ snap' = [snap EXCEPT ![s] = NoSnapshot]
  /\ faults' = faults + 1
  /\ UNCHANGED <<rows, jobStatus, counters, held, plan, ticket>>

(***************************************************************************)
(* HeartbeatItem, and the clock.  The heartbeat goroutine may still have   *)
(* an UPDATE under way when the scrape is over; a failed one is logged.    *)
(***************************************************************************)
HoldsItem(s) == held[s] # None
HoldsLease(s) == held[s] # None /\ owner[held[s]] = WorkerOf[s]

Heartbeat(s) ==
  /\ pc[s] \in {"working", "finishing"}
  /\ HoldsLease(s) /\ lease[held[s]] = "lapsed"
  /\ lease' = [lease EXCEPT ![held[s]] = "live"]
  /\ snap' = [t \in Slot |-> Renewed(t, held[s])]
  /\ UNCHANGED <<status, owner, attempts, jobStatus, counters, goroutine, faults>>

LeaseExpires(i) ==
  /\ lease[i] = "live"
  /\ PromptHeartbeats => \A s \in Slot : held[s] # i
  /\ lease' = [lease EXCEPT ![i] = "lapsed"]
  /\ UNCHANGED <<status, owner, attempts, jobStatus, counters, goroutine, snap, faults>>

(***************************************************************************)
(* The scrape ends and FinishItem decides the new status; for a retryable  *)
(* error it reads attempts, without a lock.                                *)
(***************************************************************************)
AlwaysRetries(i) == attempts[i] <= MaxAttempts
Retries(i) == attempts[i] < MaxAttempts

FinishRead(s, outcome) ==
  /\ pc[s] = "working"
  /\ plan' = [plan EXCEPT ![s] = CASE outcome = "success" -> "success"
                                   [] outcome = "fatal" -> "failed"
                                   [] outcome = "retryable" ->
                                        IF Retries(held[s]) THEN "queued" ELSE "failed"]
  /\ pc' = [pc EXCEPT ![s] = "finishing"]
  /\ UNCHANGED <<rows, jobStatus, counters, held, ticket, snap, faults>>

Release(s) ==
  /\ pc' = [pc EXCEPT ![s] = "idle"]
  /\ held' = [held EXCEPT ![s] = None]
  /\ plan' = [plan EXCEPT ![s] = "none"]
  /\ ticket' = [ticket EXCEPT ![s] = 0]
  /\ UNCHANGED snap

\* The job's counters when FinishItem ends one of its items.
CountItem(j, new) ==
  /\ completed' = [completed EXCEPT ![j] = @ + 1]
  /\ succeeded' = [succeeded EXCEPT ![j] = @ + IF new = "success" THEN 1 ELSE 0]
  /\ failed' = [failed EXCEPT ![j] = @ + IF new = "failed" THEN 1 ELSE 0]
  /\ jobStatus' = [jobStatus EXCEPT ![j] = IF completed[j] + 1 = Total(j) THEN "completed" ELSE "running"]

CountsAnyResult(s) == plan[s] # "none"
CountsResult(s) == plan[s] # "queued"

FinishCommit(s) ==
  /\ pc[s] = "finishing"
  /\ HoldsLease(s)
  /\ status' = [status EXCEPT ![held[s]] = plan[s]]
  /\ owner' = [owner EXCEPT ![held[s]] = None]
  /\ lease' = [lease EXCEPT ![held[s]] = "none"]
  /\ \/ ~CountsResult(s) /\ UNCHANGED <<jobStatus, counters>>
     \/ CountsResult(s) /\ CountItem(JobOf[held[s]], plan[s])
  /\ Release(s)
  /\ UNCHANGED <<attempts, faults>>

\* RowsAffected is 0: the item has another lease_owner by now, or none.
FinishRejected(s) ==
  /\ pc[s] = "finishing"
  /\ ~HoldsLease(s)
  /\ Release(s)
  /\ UNCHANGED <<rows, jobStatus, counters, faults>>

\* A statement of FinishItem failed: the result of the scrape is dropped.
FinishAbort(s) ==
  /\ pc[s] \in {"working", "finishing"} /\ faults < MaxFaults
  /\ Release(s)
  /\ faults' = faults + 1
  /\ UNCHANGED <<rows, jobStatus, counters>>

\* A worker process dies and is started again with the same WORKER_ID.
Crash(w) ==
  /\ faults < MaxFaults
  /\ pc' = [s \in Slot |-> IF WorkerOf[s] = w THEN "idle" ELSE pc[s]]
  /\ held' = [s \in Slot |-> IF WorkerOf[s] = w THEN None ELSE held[s]]
  /\ plan' = [s \in Slot |-> IF WorkerOf[s] = w THEN "none" ELSE plan[s]]
  /\ ticket' = [s \in Slot |-> IF WorkerOf[s] = w THEN 0 ELSE ticket[s]]
  /\ snap' = [s \in Slot |-> IF WorkerOf[s] = w THEN NoSnapshot ELSE snap[s]]
  /\ faults' = faults + 1
  /\ UNCHANGED <<rows, jobStatus, counters>>

Claims(s) == \/ ClaimBegin(s)
             \/ \E i \in Item : ClaimCommit(s, i)
             \/ ClaimEmpty(s)
Finishes(s) == \/ \E outcome \in {"success", "fatal", "retryable"} : FinishRead(s, outcome)
               \/ FinishCommit(s)
               \/ FinishRejected(s)
Fails(s) == \/ \E i \in Item : ClaimLost(s, i)
            \/ ClaimAbort(s)
            \/ FinishAbort(s)

Next == \/ \E j \in Job : Submit(j)
        \/ \E s \in Slot : Claims(s) \/ Finishes(s) \/ Fails(s) \/ Heartbeat(s)
        \/ \E i \in Item : LeaseExpires(i)
        \/ \E w \in Worker : Crash(w)

\* A goroutine keeps running: ClaimItem and FinishItem return, and a scrape
\* ends because every request has a timeout.  A lease nobody renews runs out.
Fairness == /\ \A s \in Slot : WF_vars(Claims(s) \/ Finishes(s))
            /\ \A i \in Item : WF_vars(LeaseExpires(i))

Spec == Init /\ [][Next]_vars /\ Fairness

(***************************************************************************)
(* Properties.                                                             *)
(***************************************************************************)
SlotState == {"idle", "claiming", "working", "finishing"}

\* Every variable keeps its type; no item is claimed more than MAX_ATTEMPTS times.
TypeOK ==
  /\ status \in [Item -> {"absent", "queued", "running"} \cup Terminal]
  /\ owner \in [Item -> Worker \cup {None}]
  /\ lease \in [Item -> {"none", "live", "lapsed"}]
  /\ attempts \in [Item -> 0..MaxAttempts]
  /\ jobStatus \in [Job -> {"absent", "queued", "running", "completed"}]
  /\ completed \in [Job -> Nat] /\ succeeded \in [Job -> Nat] /\ failed \in [Job -> Nat]
  /\ pc \in [Slot -> SlotState]
  /\ held \in [Slot -> Item \cup {None}]
  /\ plan \in [Slot -> {"none", "queued"} \cup Terminal]
  /\ ticket \in [Slot -> 0..MaxAttempts]
  /\ snap \in [Slot -> [success : SUBSET Item, failed : SUBSET Item, lapsed : SUBSET Item]]
  /\ faults \in 0..MaxFaults

\* An item has an owner and a lease exactly while it is running.  FinishItem
\* fences its update by lease_owner alone and never tests the status: only
\* this makes a late result for a settled or requeued item harmless.
LeaseIffRunning ==
  \A i \in Item : /\ (owner[i] # None) <=> (status[i] = "running")
                  /\ (lease[i] # "none") <=> (status[i] = "running")

ItemsWith(j, st) == {i \in JobItems(j) : status[i] = st}

\* The counters of a job never count an item that has not ended, nor one item
\* twice, although they are kept in two ways (incremented by FinishItem,
\* overwritten with an older count by ClaimItem).
CountsNeverAhead ==
  \A j \in Job : /\ completed[j] = succeeded[j] + failed[j]
                 /\ succeeded[j] <= Cardinality(ItemsWith(j, "success"))
                 /\ failed[j] <= Cardinality(ItemsWith(j, "failed"))

\* A job the API reports as completed has no item left to scrape, and its
\* counters are those of its items.
CompletedJobIsDone ==
  \A j \in Job : jobStatus[j] = "completed" =>
     /\ \A i \in JobItems(j) : status[i] \in Terminal
     /\ succeeded[j] = Cardinality(ItemsWith(j, "success"))
     /\ failed[j] = Cardinality(ItemsWith(j, "failed"))

\* A job counts too few items, or is not completed although they have ended,
\* only if one of them failed on its last attempt: nothing but the recount of
\* ClaimItem, which writes old counts, loses a result that FinishItem counted.
ExactUnlessExhausted ==
  \A j \in Job : (\A i \in JobItems(j) : status[i] = "failed" => attempts[i] < MaxAttempts) =>
     /\ succeeded[j] = Cardinality(ItemsWith(j, "success"))
     /\ failed[j] = Cardinality(ItemsWith(j, "failed"))
     /\ (\A i \in JobItems(j) : status[i] \in Terminal) => jobStatus[j] = "completed"

\* An item that ended keeps its result and a completed job stays completed,
\* whatever a slow, crashed or evicted worker still does.
TerminalIsFinal ==
  [][/\ \A i \in Item : status[i] \in Terminal => status'[i] = status[i]
     /\ \A j \in Job : jobStatus[j] = "completed" => jobStatus'[j] = "completed"]_vars

\* With one goroutine per worker id, a goroutine that passes the lease_owner
\* fence is making the item's latest attempt: no result of an evicted attempt
\* is ever stored.
FenceIsExact ==
  \A s \in Slot : held[s] # None /\ owner[held[s]] = WorkerOf[s] => ticket[s] = attempts[held[s]]

\* With one goroutine per worker id, a requeued item can still be claimed.
QueuedItemCanBeClaimed ==
  \A i \in Item : status[i] = "queued" => attempts[i] < MaxAttempts

\* Every submitted item ends or uses up its attempts, whatever crashes.
ItemEventuallySettles ==
  \A i \in Item : status[i] = "queued" ~>
     (status[i] \in Terminal \/ attempts[i] = MaxAttempts)

\* The API's promise: a job that was accepted completes.
JobEventuallyCompletes ==
  \A j \in Job : jobStatus[j] = "queued" ~> jobStatus[j] = "completed"
=============================================================================
