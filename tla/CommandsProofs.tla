--------------------------- MODULE CommandsProofs ---------------------------
(***************************************************************************)
(* Proofs about Commands, for any number of workers and commands, any      *)
(* MAX_ATTEMPTS and any number of faults.  They are about SafetySpec, the  *)
(* specification PlaceholderJobs and SearchRuns implement.                 *)
(***************************************************************************)
EXTENDS Commands, TLAPS

USE DEF Ended, rows, loops, queue

\* A loop without a command holds none: a claim whose answer is lost leaves
\* the command with the worker's id and nobody at work on it.
IdleHoldsNothing == \A w \in Worker : pc[w] = "idle" => held[w] = None

\* A command that was never claimed has used no attempt.
WaitingCanBeClaimed ==
  \A c \in Command : status[c] \in {"absent", "queued"} => attempts[c] < MaxAttempts

SafeInv == /\ TypeOK
           /\ LeaseIffRunning
           /\ IdleHoldsNothing
           /\ FenceIsExact
           /\ WaitingCanBeClaimed

\* Next, one disjunct per action: how the proofs below split a step.
LEMMA NextCases ==
  ASSUME Next
  PROVE  \/ \E c \in Command : Submit(c)
         \/ \E c \in Command : LeaseExpires(c)
         \/ \E w \in Worker, c \in Command : Claim(w, c)
         \/ \E w \in Worker, c \in Command : ClaimLost(w, c)
         \/ \E w \in Worker, how \in {"result", "retryable", "fatal"} : Handled(w, how)
         \/ \E w \in Worker : Heartbeat(w)
         \/ \E w \in Worker : Complete(w)
         \/ \E w \in Worker : Fail(w)
         \/ \E w \in Worker : Rejected(w)
         \/ \E w \in Worker : EndAbort(w)
         \/ \E w \in Worker : Crash(w)
  BY Zenon DEF Next

-----------------------------------------------------------------------------
(* What one step does to the parts of SafeInv, for the steps several       *)
(* actions share.                                                          *)

\* What a claim does to the rows: one more attempt and a new owner for the command,
\* and no owner for those whose attempts are used up.
LEMMA ClaimRowSafe ==
  ASSUME SafeInv, NEW w \in Worker, NEW c \in Command, ClaimRow(w, c)
  PROVE  /\ status' \in [Command -> {"absent", "queued", "running"} \cup Ended]
         /\ owner' \in [Command -> Worker \cup {None}]
         /\ lease' \in [Command -> {"none", "live", "lapsed"}]
         /\ attempts' \in [Command -> 0..MaxAttempts]
         /\ attempts[c] + 1 \in 0..MaxAttempts /\ attempts'[c] = attempts[c] + 1
         /\ owner'[c] = w
         /\ \A k \in Command : k # c => /\ owner'[k] \in {owner[k], None}
                                        /\ attempts'[k] = attempts[k]
         /\ LeaseIffRunning'
         /\ WaitingCanBeClaimed'
<1> USE MaxAttemptsAssumption DEF SafeInv, TypeOK
<1>1. /\ owner' \in [Command -> Worker \cup {None}]
      /\ owner'[c] = w
      /\ \A k \in Command : k # c => owner'[k] = IF k \in Exhausted THEN None ELSE owner[k]
  BY DEF ClaimRow, OwnerAfterClaim
<1>2. /\ attempts' \in [Command -> 0..MaxAttempts]
      /\ attempts[c] + 1 \in 0..MaxAttempts /\ attempts'[c] = attempts[c] + 1
      /\ \A k \in Command : k # c => attempts'[k] = attempts[k]
  BY DEF ClaimRow, Claimable
<1>3. /\ status' \in [Command -> {"absent", "queued", "running"} \cup Ended]
      /\ status'[c] = "running"
      /\ \A k \in Command : k # c => status'[k] = IF k \in Exhausted THEN "failed" ELSE status[k]
  BY DEF ClaimRow
<1>4. /\ lease' \in [Command -> {"none", "live", "lapsed"}]
      /\ lease'[c] = "live"
      /\ \A k \in Command : k # c => lease'[k] = IF k \in Exhausted THEN "none" ELSE lease[k]
  BY DEF ClaimRow
<1>5. LeaseIffRunning'
  BY <1>1, <1>3, <1>4, NoneAssumption DEF LeaseIffRunning
<1>6. WaitingCanBeClaimed'
  BY <1>2, <1>3 DEF WaitingCanBeClaimed
<1> QED
  BY <1>1, <1>2, <1>3, <1>4, <1>5, <1>6

\* A loop that lets go of its command is idle and holds nothing.
LEMMA ReleaseSafe ==
  ASSUME SafeInv, NEW w \in Worker, Release(w)
  PROVE  /\ pc' \in [Worker -> {"idle", "working", "ending"}]
         /\ held' \in [Worker -> Command \cup {None}]
         /\ outcome' \in [Worker -> {"none", "result", "retryable", "fatal"}]
         /\ ticket' \in [Worker -> 0..MaxAttempts]
         /\ held'[w] = None /\ pc'[w] = "idle"
         /\ \A v \in Worker : v # w => pc'[v] = pc[v] /\ held'[v] = held[v] /\ ticket'[v] = ticket[v]
         /\ \A v \in Worker : pc'[v] # "idle" => held'[v] # None
         /\ IdleHoldsNothing'
  BY MaxAttemptsAssumption DEF SafeInv, TypeOK, Release, IdleHoldsNothing

\* A command that ends, or is queued again, has no owner and no lease.
LEMMA EndRowSafe ==
  ASSUME SafeInv, NEW w \in Worker, NEW new \in {"queued"} \cup Ended, EndRow(w, new),
         new = "queued" => attempts[held[w]] < MaxAttempts
  PROVE  /\ status' \in [Command -> {"absent", "queued", "running"} \cup Ended]
         /\ owner' \in [Command -> Worker \cup {None}]
         /\ lease' \in [Command -> {"none", "live", "lapsed"}]
         /\ attempts' = attempts
         /\ held[w] \in Command
         /\ \A k \in Command : owner'[k] \in {owner[k], None}
         /\ LeaseIffRunning'
         /\ WaitingCanBeClaimed'
<1> USE DEF SafeInv, TypeOK
<1>1. held[w] \in Command /\ attempts' = attempts
  BY DEF EndRow, HoldsLease
<1>2. /\ status' = [status EXCEPT ![held[w]] = new]
      /\ owner' = [owner EXCEPT ![held[w]] = None]
      /\ lease' = [lease EXCEPT ![held[w]] = "none"]
  BY DEF EndRow
<1>3. LeaseIffRunning'
  BY <1>1, <1>2 DEF LeaseIffRunning
<1>4. WaitingCanBeClaimed'
  BY <1>1, <1>2 DEF WaitingCanBeClaimed
<1> QED
  BY <1>1, <1>2, <1>3, <1>4

\* A step that only takes leases away keeps the fence exact.
LEMMA FenceKept ==
  ASSUME SafeInv, attempts' = attempts,
         \A k \in Command : owner'[k] \in {owner[k], None},
         held' \in [Worker -> Command \cup {None}],
         \A v \in Worker : \/ held'[v] = None
                           \/ held'[v] = held[v] /\ ticket'[v] = ticket[v]
  PROVE  FenceIsExact'
  BY NoneAssumption DEF SafeInv, TypeOK, FenceIsExact, HoldsLease

-----------------------------------------------------------------------------
\* The invariant holds of an empty queue.
LEMMA SafeInit == Init => SafeInv
  BY MaxAttemptsAssumption, MaxFaultsAssumption
  DEF Init, SafeInv, TypeOK, LeaseIffRunning, IdleHoldsNothing, FenceIsExact, HoldsLease, WaitingCanBeClaimed

\* It is inductive.
LEMMA SafeNext == SafeInv /\ [Next]_queue => SafeInv'
<1> SUFFICES ASSUME SafeInv, [Next]_queue PROVE SafeInv'
  OBVIOUS
<1> USE MaxAttemptsAssumption, MaxFaultsAssumption, NoneAssumption
<1>1. ASSUME NEW c \in Command, Submit(c) PROVE SafeInv'
  BY <1>1 DEF Submit, SafeInv, TypeOK, LeaseIffRunning, IdleHoldsNothing, FenceIsExact, HoldsLease, WaitingCanBeClaimed
<1>2. ASSUME NEW c \in Command, LeaseExpires(c) PROVE SafeInv'
  BY <1>2 DEF LeaseExpires, SafeInv, TypeOK, LeaseIffRunning, IdleHoldsNothing, FenceIsExact, HoldsLease, WaitingCanBeClaimed
<1>3. ASSUME NEW w \in Worker, NEW c \in Command, Claim(w, c) PROVE SafeInv'
  <2>1. ClaimRow(w, c) /\ UNCHANGED <<outcome, faults>>
    BY <1>3 DEF Claim
  <2>2. /\ pc' = [pc EXCEPT ![w] = "working"]
        /\ held' = [held EXCEPT ![w] = c]
        /\ ticket' = [ticket EXCEPT ![w] = attempts[c] + 1]
    BY <1>3 DEF Claim
  <2>3. TypeOK'
    BY <2>1, <2>2, ClaimRowSafe DEF SafeInv, TypeOK
  <2>4. IdleHoldsNothing'
    BY <2>2 DEF SafeInv, TypeOK, IdleHoldsNothing
  <2>5. FenceIsExact'
    BY <2>1, <2>2, ClaimRowSafe DEF SafeInv, TypeOK, FenceIsExact, HoldsLease
  <2> QED
    BY <2>1, <2>3, <2>4, <2>5, ClaimRowSafe DEF SafeInv
<1>4. ASSUME NEW w \in Worker, NEW c \in Command, ClaimLost(w, c) PROVE SafeInv'
  <2>1. ClaimRow(w, c) /\ pc[w] = "idle" /\ faults < MaxFaults
        /\ faults' = faults + 1 /\ UNCHANGED loops
    BY <1>4 DEF ClaimLost
  <2>2. TypeOK'
    BY <2>1, ClaimRowSafe DEF SafeInv, TypeOK
  <2>3. IdleHoldsNothing'
    BY <2>1 DEF SafeInv, IdleHoldsNothing
  <2>4. held[w] = None
    BY <2>1 DEF SafeInv, IdleHoldsNothing
  <2>5. FenceIsExact'
    BY <2>1, <2>4, ClaimRowSafe DEF SafeInv, TypeOK, FenceIsExact, HoldsLease
  <2> QED
    BY <2>1, <2>2, <2>3, <2>5, ClaimRowSafe DEF SafeInv
<1>5. ASSUME NEW w \in Worker, NEW how \in {"result", "retryable", "fatal"}, Handled(w, how) PROVE SafeInv'
  BY <1>5 DEF Handled, SafeInv, TypeOK, LeaseIffRunning, IdleHoldsNothing, FenceIsExact, HoldsLease, WaitingCanBeClaimed
<1>6. ASSUME NEW w \in Worker, Heartbeat(w) PROVE SafeInv'
  BY <1>6 DEF Heartbeat, SafeInv, TypeOK, LeaseIffRunning, IdleHoldsNothing, FenceIsExact, HoldsLease, WaitingCanBeClaimed
<1>7. ASSUME NEW w \in Worker, Complete(w) PROVE SafeInv'
  <2>1. EndRow(w, "completed") /\ Release(w) /\ UNCHANGED faults
    BY <1>7 DEF Complete
  <2>2. TypeOK' /\ LeaseIffRunning' /\ WaitingCanBeClaimed' /\ IdleHoldsNothing'
    BY <2>1, EndRowSafe, ReleaseSafe DEF SafeInv, TypeOK
  <2>3. FenceIsExact'
    BY <2>1, EndRowSafe, ReleaseSafe, FenceKept
  <2> QED
    BY <2>2, <2>3 DEF SafeInv
<1>8. ASSUME NEW w \in Worker, Fail(w) PROVE SafeInv'
  <2> DEFINE new == IF Retries(w) THEN "queued" ELSE "failed"
  <2>1. EndRow(w, new) /\ Release(w) /\ UNCHANGED faults
    BY <1>8 DEF Fail
  <2>2. new \in {"queued"} \cup Ended /\ (new = "queued" => attempts[held[w]] < MaxAttempts)
    BY DEF Retries
  <2>3. TypeOK' /\ LeaseIffRunning' /\ WaitingCanBeClaimed' /\ IdleHoldsNothing'
    BY <2>1, <2>2, EndRowSafe, ReleaseSafe DEF SafeInv, TypeOK
  <2>4. FenceIsExact'
    BY <2>1, <2>2, EndRowSafe, ReleaseSafe, FenceKept
  <2> QED
    BY <2>3, <2>4 DEF SafeInv
<1>9. ASSUME NEW w \in Worker, Release(w), UNCHANGED rows, faults' \in 0..MaxFaults PROVE SafeInv'
  <2>1. TypeOK' /\ LeaseIffRunning' /\ WaitingCanBeClaimed' /\ IdleHoldsNothing'
    BY <1>9, ReleaseSafe DEF SafeInv, TypeOK, LeaseIffRunning, WaitingCanBeClaimed
  <2>2. FenceIsExact'
    BY <1>9, ReleaseSafe, FenceKept
  <2> QED
    BY <2>1, <2>2 DEF SafeInv
<1>10. ASSUME NEW w \in Worker, Rejected(w) \/ EndAbort(w) \/ Crash(w) PROVE SafeInv'
  <2>1. Release(w) /\ UNCHANGED rows /\ faults' \in 0..MaxFaults
    BY <1>10 DEF Rejected, EndAbort, Crash, SafeInv, TypeOK
  <2> QED
    BY <2>1, <1>9
<1>11. CASE UNCHANGED queue
  BY <1>11 DEF SafeInv, TypeOK, LeaseIffRunning, IdleHoldsNothing, FenceIsExact, HoldsLease, WaitingCanBeClaimed
<1> QED
  BY <1>1, <1>2, <1>3, <1>4, <1>5, <1>6, <1>7, <1>8, <1>10, <1>11, NextCases

\* So it holds always.
LEMMA SafetyHolds == SafetySpec => []SafeInv
  BY SafeInit, SafeNext, PTL DEF SafetySpec

-----------------------------------------------------------------------------
(* Two facts about single steps, used below and by SearchRunsProofs.       *)

\* Only Submit makes a command active: what is active after any other step
\* was active before.
LEMMA ActiveBefore ==
  ASSUME SafeInv, NEW c \in Command, status'[c] \in {"queued", "running"},
         \/ \E w \in Worker, k \in Command : ClaimRow(w, k)
         \/ \E w \in Worker : \E new : EndRow(w, new)
         \/ UNCHANGED status
  PROVE  status[c] \in {"queued", "running"}
<1> USE DEF SafeInv, TypeOK
<1>1. ASSUME NEW w \in Worker, NEW k \in Command, ClaimRow(w, k) PROVE status[c] \in {"queued", "running"}
  BY <1>1 DEF ClaimRow, Claimable, Exhausted, LeaseIffRunning
<1>2. ASSUME NEW w \in Worker, NEW new, EndRow(w, new) PROVE status[c] \in {"queued", "running"}
  BY <1>2, NoneAssumption DEF EndRow, HoldsLease, LeaseIffRunning
<1> QED
  BY <1>1, <1>2

\* A command that ended keeps its status in every step.
LEMMA EndedStays ==
  ASSUME SafeInv, [Next]_queue, NEW c \in Command, status[c] \in Ended
  PROVE  status'[c] = status[c]
<1> SUFFICES ASSUME Next PROVE status'[c] = status[c]
  OBVIOUS
<1> USE DEF SafeInv, TypeOK
<1>1. lease[c] = "none" /\ owner[c] = None
  BY DEF LeaseIffRunning
<1>2. ASSUME NEW w \in Worker, NEW k \in Command, ClaimRow(w, k) PROVE status'[c] = status[c]
  BY <1>1, <1>2 DEF ClaimRow, Claimable, Exhausted
<1>3. ASSUME NEW w \in Worker, NEW new, EndRow(w, new) PROVE status'[c] = status[c]
  BY <1>1, <1>3, NoneAssumption DEF EndRow, HoldsLease
<1>4. ASSUME NEW k \in Command, Submit(k) PROVE status'[c] = status[c]
  BY <1>4 DEF Submit
<1>5. CASE UNCHANGED status
  BY <1>5
<1> QED
  BY <1>2, <1>3, <1>4, <1>5, NextCases
  DEF Claim, ClaimLost, Complete, Fail, LeaseExpires, Handled, Heartbeat, Rejected, EndAbort, Crash

-----------------------------------------------------------------------------
(* The properties.                                                         *)

\* Types, and the bound on the attempts: no command is ever claimed more than
\* MAX_ATTEMPTS times (ClaimCommand).
THEOREM TypeCorrect == SafetySpec => []TypeOK
<1>1. SafeInv => TypeOK
  BY DEF SafeInv
<1> QED
  BY <1>1, SafetyHolds, PTL

\* A command has an owner and a lease exactly while it is running, whichever
\* of ClaimCommand, CompleteCommand and FailCommand wrote it last.
THEOREM LeaseMeansRunning == SafetySpec => []LeaseIffRunning
<1>1. SafeInv => LeaseIffRunning
  BY DEF SafeInv
<1> QED
  BY <1>1, SafetyHolds, PTL

\* A worker that passes the lease_owner test of CompleteCommand, FailCommand
\* and Heartbeat is making the latest attempt at its command.
THEOREM FenceAdmitsLatestAttempt == SafetySpec => []FenceIsExact
<1>1. SafeInv => FenceIsExact
  BY DEF SafeInv
<1> QED
  BY <1>1, SafetyHolds, PTL

\* FailCommand never requeues a command that has used its last attempt.
THEOREM QueuedIsClaimable == SafetySpec => []QueuedCommandCanBeClaimed
<1>1. SafeInv => QueuedCommandCanBeClaimed
  BY DEF SafeInv, WaitingCanBeClaimed, QueuedCommandCanBeClaimed
<1> QED
  BY <1>1, SafetyHolds, PTL

\* The answer of a command is final: ClaimCommand takes no ended command and
\* the fence of CompleteCommand and FailCommand rejects every late worker.
THEOREM AnswerIsFinal == SafetySpec => EndedIsFinal
<1>1. ASSUME SafeInv, [Next]_queue
      PROVE  [\A c \in Command : status[c] \in Ended => status'[c] = status[c]]_queue
  BY <1>1, EndedStays
<1> QED
  BY <1>1, SafetyHolds, PTL DEF SafetySpec, EndedIsFinal
=============================================================================
