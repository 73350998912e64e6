-------------------------- MODULE SearchRunsProofs --------------------------
(***************************************************************************)
(* Proofs about SearchRuns, for any number of continuations, workers and   *)
(* faults: what holds of the command queue carries over, a run has one     *)
(* active continuation at most, and a settled run is left alone.           *)
(***************************************************************************)
EXTENDS SearchRuns, CommandsProofs

USE DEF Ended, rows, loops, queue, checkpoint, everything, Continuations

\* Every step of a run is one of the queue, or a stutter.
LEMMA StepImplements == [RunNext]_everything => [Next]_queue
<1> SUFFICES ASSUME [RunNext]_everything PROVE Next \/ UNCHANGED queue
  OBVIOUS
<1>1. ASSUME SubmitRun PROVE Next
  BY <1>1, FirstAssumption, Zenon DEF SubmitRun, Next
<1>2. ASSUME NEW c \in Continuations, Continue(c) PROVE Next
  BY <1>2, Zenon DEF Continue, Next
<1>3. ASSUME NEW w \in Worker, NEW c \in Command, RunClaim(w, c) \/ RunClaimLost(w, c) PROVE Next
  BY <1>3, Zenon DEF RunClaim, RunClaimLost, Next
<1>4. ASSUME NEW w \in Worker, Replay(w) \/ AnswerComplete(w) \/ RefuseFailed(w) \/ RunFail(w) PROVE Next
  <2>1. ASSUME NEW how \in {"result", "fatal"}, Handled(w, how) PROVE Next
    BY <2>1, Zenon DEF Next
  <2>2. ASSUME Fail(w) PROVE Next
    BY <2>2, Zenon DEF Next
  <2> QED
    BY <1>4, <2>1, <2>2 DEF Replay, AnswerComplete, RefuseFailed, RunFail
<1>5. ASSUME NEW w \in Worker, NEW k \in 1..Work, Advance(w, k) \/ AdvanceLost(w, k) PROVE Next
  BY <1>5, Zenon DEF Advance, AdvanceLost, Next
<1>6. ASSUME NEW w \in Worker, NEW how \in {"retryable", "fatal"}, AdvanceFails(w, how) PROVE Next
  BY <1>6, Zenon DEF AdvanceFails, Next
<1>7. ASSUME Rest PROVE Next
  BY <1>7, Zenon DEF Rest, Next
<1>8. ASSUME UNCHANGED everything PROVE UNCHANGED queue
  BY <1>8
<1> QED
  BY <1>1, <1>2, <1>3, <1>4, <1>5, <1>6, <1>7, <1>8, Zenon DEF RunNext

\* So what is proved of the queue carries over: every step of this module takes
\* one of Commands or leaves the queue alone.
LEMMA RunImplementsQueue == RunSpec => SafetySpec
<1>1. RunInit => Init
  BY DEF RunInit
<1> QED
  BY <1>1, StepImplements, PTL DEF RunSpec, SafetySpec

\* So the invariant of the queue holds of runs.
LEMMA QueueHolds == RunSpec => []SafeInv
  BY RunImplementsQueue, SafetyHolds, PTL

-----------------------------------------------------------------------------
(* The inductive invariant.                                                *)

\* Before the request is accepted nothing of the run exists.
AbsentTogether ==
  /\ run = "absent" => /\ left > 0
                       /\ \A c \in Command : status[c] = "absent"
                       /\ \A w \in Worker : held[w] = None
  /\ status[First] = "absent" => run = "absent"

\* state.LastCommand names a call that moved the checkpoint, if any did.
LastAdvanced ==
  /\ last = None => \A c \in Command : advanced[c] = 0
  /\ last # None => advanced[last] > 0

Did(c) == advanced[c] > 0 \/ left = 0

\* A handler that ended with a result has done its share.
ResultAdvanced ==
  \A w \in Worker : pc[w] = "ending" /\ outcome[w] = "result" => Did(held[w])

RunInv == /\ RunTypeOK
          /\ AbsentTogether
          /\ OneActiveContinuation
          /\ RunFailsWithCommand
          /\ LastAdvanced
          /\ ResultAdvanced
          /\ AnsweredCallAdvanced
          /\ OnlyOvertakenRepeats

\* The invariant holds before the run is submitted.
LEMMA RunInitSafe == RunInit => RunInv
  BY WorkAssumption, FirstAssumption, SafeInit
  DEF RunInit, Init, RunInv, RunTypeOK, SafeInv, AbsentTogether, OneActiveContinuation, RunFailsWithCommand,
      LastAdvanced, ResultAdvanced, AnsweredCallAdvanced, OnlyOvertakenRepeats, Did

(* What the steps of the command queue do, seen from the run.              *)

\* No loop ends with a result it had not ended with before.
NoNewResult ==
  \A w \in Worker : pc'[w] = "ending" /\ outcome'[w] = "result"
                    => pc[w] = "ending" /\ outcome[w] = "result" /\ held'[w] = held[w]

\* A command completes only with the result of the loop that holds it.
CompletedByResult ==
  \A c \in Command : status'[c] = "completed" =>
     \/ status[c] = "completed"
     \/ \E w \in Worker : pc[w] = "ending" /\ outcome[w] = "result" /\ held[w] = c

\* What remains to be shown of a step that leaves the checkpoint alone.
LEMMA CheckpointKept ==
  ASSUME SafeInv, RunInv, UNCHANGED checkpoint, NoNewResult, CompletedByResult,
         RunTypeOK', AbsentTogether', OneActiveContinuation', RunFailsWithCommand'
  PROVE  RunInv'
<1>1. LastAdvanced' /\ OnlyOvertakenRepeats'
  BY DEF RunInv, LastAdvanced, OnlyOvertakenRepeats
<1>2. ResultAdvanced'
  BY DEF RunInv, ResultAdvanced, NoNewResult, Did
<1>3. AnsweredCallAdvanced'
  BY DEF RunInv, ResultAdvanced, AnsweredCallAdvanced, CompletedByResult, Did
<1> QED
  BY <1>1, <1>2, <1>3 DEF RunInv

\* A step that leaves the status of every command alone.
LEMMA StatusKept ==
  ASSUME RunInv, UNCHANGED status
  PROVE  /\ OneActiveContinuation'
         /\ CompletedByResult
         /\ run # "absent" /\ run' # "absent" => AbsentTogether'
         /\ (run' = "failed" <=> run = "failed") => RunFailsWithCommand'
  BY DEF RunInv, OneActiveContinuation, AbsentTogether, RunFailsWithCommand, CompletedByResult

\* A handler that ends changes no command; only a result is a new result.
LEMMA HandledFacts ==
  ASSUME SafeInv, RunInv, NEW w \in Worker, NEW how, Handled(w, how)
  PROVE  /\ UNCHANGED <<status, held>> /\ held[w] \in Command /\ run # "absent"
         /\ how # "result" => NoNewResult
         /\ \A v \in Worker : pc'[v] = "ending" /\ outcome'[v] = "result"
              => v = w \/ (pc[v] = "ending" /\ outcome[v] = "result")
<1> USE DEF SafeInv, TypeOK
<1>0. UNCHANGED status /\ held' = held /\ pc[w] = "working"
  BY DEF Handled
<1>1. held[w] \in Command /\ held[w] # None /\ run # "absent"
  BY <1>0 DEF RunInv, AbsentTogether
<1>2. /\ how # "result" => NoNewResult
      /\ \A v \in Worker : pc'[v] = "ending" /\ outcome'[v] = "result"
              => v = w \/ (pc[v] = "ending" /\ outcome[v] = "result")
  BY <1>0 DEF Handled, NoNewResult
<1> QED
  BY <1>0, <1>1, <1>2

\* A loop that lets go of its command brings no result.
LEMMA ReleaseFacts ==
  ASSUME SafeInv, NEW w \in Worker, Release(w)
  PROVE  NoNewResult /\ \A v \in Worker : held'[v] \in {held[v], None}
<1> USE DEF SafeInv, TypeOK
<1>1. \A v \in Worker : held'[v] \in {held[v], None} /\ (v = w => pc'[v] = "idle")
                        /\ (v # w => pc'[v] = pc[v] /\ held'[v] = held[v] /\ outcome'[v] = outcome[v])
  BY DEF Release
<1> QED
  BY <1>1 DEF NoNewResult

\* A claim brings no result, and submits nothing.
LEMMA ClaimFacts ==
  ASSUME SafeInv, RunInv, NEW w \in Worker, NEW c \in Command, Claim(w, c) \/ ClaimLost(w, c)
  PROVE  /\ ClaimRow(w, c) /\ NoNewResult /\ CompletedByResult /\ run # "absent"
         /\ \A k \in Command : status'[k] = "absent" => status[k] = "absent"
<1> USE DEF SafeInv, TypeOK
<1>1. ClaimRow(w, c)
  BY DEF Claim, ClaimLost
<1>2. NoNewResult
  <2>1. CASE ClaimLost(w, c)
    BY <2>1 DEF ClaimLost, NoNewResult
  <2>2. CASE Claim(w, c)
    <3>1. pc' = [pc EXCEPT ![w] = "working"] /\ held' = [held EXCEPT ![w] = c] /\ outcome' = outcome
      BY <2>2 DEF Claim
    <3> QED
      BY <3>1 DEF NoNewResult
  <2> QED
    BY <2>1, <2>2
<1>3. \A k \in Command : /\ status'[k] = "completed" => status[k] = "completed"
                         /\ status'[k] = "absent" => status[k] = "absent"
  BY <1>1 DEF ClaimRow, Exhausted
<1>4. run # "absent"
  BY <1>1 DEF ClaimRow, Claimable, LeaseIffRunning, RunInv, AbsentTogether
<1> QED
  BY <1>1, <1>2, <1>3, <1>4 DEF CompletedByResult

\* Only a running command of a submitted run ends or is queued again.
LEMMA EndFacts ==
  ASSUME SafeInv, RunInv, NEW w \in Worker, NEW new \in {"queued"} \cup Ended, EndRow(w, new)
  PROVE  /\ held[w] \in Command /\ run # "absent"
         /\ status' = [status EXCEPT ![held[w]] = new]
         /\ status[held[w]] = "running"
  BY NoneAssumption
  DEF SafeInv, TypeOK, LeaseIffRunning, EndRow, HoldsLease, RunInv, AbsentTogether

\* A step other than Submit starts no continuation.
LEMMA OneActiveKept ==
  ASSUME SafeInv, RunInv,
         \/ \E w \in Worker, k \in Command : ClaimRow(w, k)
         \/ \E w \in Worker : \E new : EndRow(w, new)
         \/ UNCHANGED status
  PROVE  OneActiveContinuation'
  BY ActiveBefore DEF RunInv, OneActiveContinuation

\* The run is failed by the step that fails one of its commands.
LEMMA FailRunFacts ==
  ASSUME SafeInv, RunInv, [Next]_queue, NEW S, FailRun(S),
         \A k \in Command : k \in S => status'[k] = "failed",
         \A k \in Command : status'[k] = "failed" => k \in S \/ status[k] = "failed",
         S \subseteq Command
  PROVE  RunFailsWithCommand'
<1>1. \A k \in Command : status[k] = "failed" => status'[k] = "failed"
  <2> SUFFICES ASSUME NEW k \in Command, status[k] = "failed" PROVE status'[k] = "failed"
    OBVIOUS
  <2>1. status'[k] = status[k]
    BY EndedStays
  <2> QED
    BY <2>1
<1>2. CASE S = {}
  BY <1>1, <1>2 DEF RunInv, RunFailsWithCommand, FailRun
<1>3. CASE S # {}
  <2>1. PICK k \in S : TRUE
    BY <1>3
  <2>2. run' = "failed" /\ status'[k] = "failed" /\ k \in Command
    BY <1>3, <2>1 DEF FailRun
  <2> QED
    BY <2>2 DEF RunFailsWithCommand
<1> QED
  BY <1>2, <1>3

\* The commit of an advance keeps the invariant, acknowledged or not.
LEMMA MoveCheckpointSafe ==
  ASSUME SafeInv, RunInv, NEW w \in Worker, NEW k \in 1..Work, MoveCheckpoint(w, k), NEW how, Handled(w, how),
         TypeOK'
  PROVE  RunInv'
<1> DEFINE c == held[w]
<1>1. UNCHANGED <<status, held>> /\ c \in Command /\ run # "absent"
  BY HandledFacts
<1>2. /\ last # c /\ run \notin {"discovery_complete", "failed"}
      /\ k <= left /\ left' = left - k /\ last' = c
      /\ advanced' = [advanced EXCEPT ![c] = @ + 1]
      /\ run' = IF left = k THEN "discovery_complete" ELSE "ready"
  BY DEF MoveCheckpoint, Replays, Open, Refused
<1>3. RunTypeOK'
  BY <1>1, <1>2, WorkAssumption DEF RunInv, RunTypeOK
<1>4. AbsentTogether' /\ OneActiveContinuation' /\ RunFailsWithCommand' /\ CompletedByResult
  BY <1>1, <1>2, StatusKept
<1>5. /\ advanced'[c] = advanced[c] + 1 /\ advanced[c] \in Nat
      /\ \A d \in Command : d # c => advanced'[d] = advanced[d]
      /\ \A d \in Command : Did(d) => Did(d)'
  BY <1>1, <1>2, WorkAssumption DEF RunInv, RunTypeOK, Did
<1>6. LastAdvanced' /\ Did(held[w])'
  BY <1>1, <1>2, <1>5, NoneAssumption DEF LastAdvanced, Did
<1>7. ResultAdvanced'
  <2> SUFFICES ASSUME NEW v \in Worker, pc'[v] = "ending", outcome'[v] = "result" PROVE Did(held[v])'
    BY DEF ResultAdvanced
  <2>1. held' = held /\ (v = w \/ (pc[v] = "ending" /\ outcome[v] = "result"))
    BY HandledFacts
  <2>2. CASE v = w
    BY <2>1, <2>2, <1>6
  <2>3. CASE pc[v] = "ending" /\ outcome[v] = "result"
    <3>1. held[v] \in Command /\ Did(held[v])
      BY <2>3 DEF SafeInv, TypeOK, RunInv, ResultAdvanced
    <3> QED
      BY <2>1, <3>1, <1>5 DEF Did
  <2> QED
    BY <2>1, <2>2, <2>3
<1>8. AnsweredCallAdvanced'
  BY <1>1, <1>5 DEF RunInv, AnsweredCallAdvanced, Did
<1>9. OnlyOvertakenRepeats'
  <2> SUFFICES ASSUME NEW d \in Command, advanced'[d] > 1 PROVE \E e \in Command \ {d} : advanced'[e] > 0
    BY DEF OnlyOvertakenRepeats
  <2>1. CASE d # c
    BY <1>1, <1>5, <2>1 DEF RunInv, RunTypeOK
  <2>2. CASE d = c
    <3>1. advanced[c] > 0
      BY <1>5, <2>2
    <3>2. last # None /\ last \in Command /\ advanced[last] > 0
      BY <1>1, <3>1 DEF RunInv, RunTypeOK, LastAdvanced
    <3> QED
      BY <1>2, <1>5, <2>2, <3>2
  <2> QED
    BY <2>1, <2>2
<1> QED
  BY <1>3, <1>4, <1>6, <1>7, <1>8, <1>9 DEF RunInv

\* The invariant is inductive.
LEMMA RunNextSafe == SafeInv /\ RunInv /\ [RunNext]_everything => RunInv'
<1> SUFFICES ASSUME SafeInv, RunInv, [RunNext]_everything PROVE RunInv'
  OBVIOUS
<1>0. [Next]_queue /\ TypeOK'
  BY StepImplements, SafeNext DEF SafeInv
<1> USE <1>0
<1>1. ASSUME SubmitRun PROVE RunInv'
  <2>1. /\ status[First] = "absent" /\ status' = [status EXCEPT ![First] = "queued"]
        /\ run' = "ready" /\ UNCHANGED <<loops, checkpoint>>
    BY <1>1 DEF SubmitRun, Submit
  <2>2. run = "absent" /\ left > 0 /\ \A c \in Command : status[c] = "absent"
    BY <2>1 DEF RunInv, AbsentTogether
  <2>3. \A c \in Command : status'[c] = IF c = First THEN "queued" ELSE "absent"
    BY <2>1, <2>2, FirstAssumption DEF SafeInv, TypeOK
  <2>4. NoNewResult /\ CompletedByResult
    BY <2>1, <2>3 DEF NoNewResult, CompletedByResult
  <2>5. RunTypeOK'
    BY <2>1, <2>2 DEF RunInv, RunTypeOK
  <2>6. AbsentTogether' /\ OneActiveContinuation' /\ RunFailsWithCommand'
    BY <2>1, <2>3, FirstAssumption DEF AbsentTogether, OneActiveContinuation, RunFailsWithCommand
  <2> QED
    BY <2>1, <2>4, <2>5, <2>6, CheckpointKept
<1>2. ASSUME NEW c \in Continuations, Continue(c) PROVE RunInv'
  <2>1. /\ run \notin {"absent", "failed", "discovery_complete"} /\ NoActiveContinuation
        /\ status' = [status EXCEPT ![c] = "queued"] /\ status[c] = "absent"
        /\ UNCHANGED <<loops, run, checkpoint>>
    BY <1>2 DEF Continue, Submit
  <2>2. NoNewResult /\ CompletedByResult
    BY <2>1 DEF SafeInv, TypeOK, NoNewResult, CompletedByResult
  <2>3. RunTypeOK' /\ AbsentTogether'
    BY <2>1, FirstAssumption DEF SafeInv, TypeOK, RunInv, RunTypeOK, AbsentTogether
  <2>4. OneActiveContinuation'
    BY <2>1 DEF SafeInv, TypeOK, OneActiveContinuation, NoActiveContinuation
  <2>5. RunFailsWithCommand'
    BY <2>1 DEF SafeInv, TypeOK, RunInv, RunFailsWithCommand
  <2> QED
    BY <2>1, <2>2, <2>3, <2>4, <2>5, CheckpointKept
<1>3. ASSUME NEW w \in Worker, NEW c \in Command, RunClaim(w, c) \/ RunClaimLost(w, c) PROVE RunInv'
  <2>1. (Claim(w, c) \/ ClaimLost(w, c)) /\ FailRun(FailedAfter) /\ UNCHANGED checkpoint
    BY <1>3 DEF RunClaim, RunClaimLost
  <2>2. /\ ClaimRow(w, c) /\ NoNewResult /\ CompletedByResult /\ run # "absent"
        /\ \A k \in Command : status'[k] = "absent" => status[k] = "absent"
    BY <2>1, ClaimFacts
  <2>3. run' \in {run, "failed"}
    BY <2>1 DEF FailRun
  <2>4. RunTypeOK' /\ AbsentTogether'
    BY <2>1, <2>2, <2>3, FirstAssumption DEF RunInv, RunTypeOK, AbsentTogether
  <2>5. OneActiveContinuation'
    BY <2>2, OneActiveKept
  <2>6. RunFailsWithCommand'
    BY <2>1, FailRunFacts DEF FailedAfter
  <2> QED
    BY <2>1, <2>2, <2>4, <2>5, <2>6, CheckpointKept
<1>4. ASSUME NEW w \in Worker, NEW how \in {"result", "retryable", "fatal"}, Handled(w, how),
             UNCHANGED <<run, checkpoint>>, how = "result" => Did(held[w])
      PROVE  RunInv'
  <2>1. UNCHANGED status /\ run # "absent"
    BY <1>4, HandledFacts
  <2>2. RunTypeOK' /\ AbsentTogether' /\ OneActiveContinuation' /\ RunFailsWithCommand' /\ CompletedByResult
    BY <1>4, <2>1, StatusKept DEF RunInv, RunTypeOK
  <2>3. LastAdvanced' /\ OnlyOvertakenRepeats' /\ AnsweredCallAdvanced'
    BY <1>4, <2>1 DEF RunInv, LastAdvanced, OnlyOvertakenRepeats, AnsweredCallAdvanced
  <2>4. ResultAdvanced'
    <3> SUFFICES ASSUME NEW v \in Worker, pc'[v] = "ending", outcome'[v] = "result" PROVE Did(held[v])'
      BY DEF ResultAdvanced
    <3>1. held' = held /\ (v = w \/ (pc[v] = "ending" /\ outcome[v] = "result"))
      BY <1>4, HandledFacts
    <3>2. how = "result" \/ (pc[v] = "ending" /\ outcome[v] = "result")
      BY <1>4, HandledFacts DEF NoNewResult
    <3>3. Did(held[v])
      BY <1>4, <3>1, <3>2 DEF RunInv, ResultAdvanced
    <3> QED
      BY <1>4, <3>1, <3>3 DEF Did
  <2> QED
    BY <2>2, <2>3, <2>4 DEF RunInv
<1>5. ASSUME NEW w \in Worker, Replay(w) \/ AnswerComplete(w) \/ RefuseFailed(w) PROVE RunInv'
  <2>1. CASE Replay(w)
    <3>1. Did(held[w])
      <4>1. held[w] = last /\ held[w] \in Command
        BY <2>1, HandledFacts DEF Replay, Replays
      <4> QED
        BY <4>1, NoneAssumption DEF RunInv, LastAdvanced, Did
    <3> QED
      BY <2>1, <3>1, <1>4 DEF Replay
  <2>2. CASE AnswerComplete(w)
    <3>1. left = 0
      BY <2>2 DEF AnswerComplete, Open, RunInv, RunTypeOK
    <3> QED
      BY <2>2, <3>1, <1>4 DEF AnswerComplete, Did
  <2>3. CASE RefuseFailed(w)
    BY <2>3, <1>4 DEF RefuseFailed
  <2> QED
    BY <1>5, <2>1, <2>2, <2>3
<1>6. ASSUME NEW w \in Worker, RunFail(w) PROVE RunInv'
  <2> DEFINE new == IF Retries(w) THEN "queued" ELSE "failed"
  <2>1. /\ EndRow(w, new) /\ Release(w) /\ FailRun(FailedAfter \cap {held[w]}) /\ UNCHANGED checkpoint
    BY <1>6 DEF RunFail, Fail
  <2>2. /\ held[w] \in Command /\ run # "absent" /\ status[held[w]] = "running"
        /\ status' = [status EXCEPT ![held[w]] = new] /\ new \in {"queued", "failed"}
    BY <2>1, EndFacts
  <2>3. NoNewResult
    BY <2>1, ReleaseFacts
  <2>4. CompletedByResult
    BY <2>2 DEF SafeInv, TypeOK, CompletedByResult
  <2>5. run' \in {run, "failed"}
    BY <2>1 DEF FailRun
  <2>6. RunTypeOK' /\ AbsentTogether'
    BY <2>1, <2>2, <2>5, FirstAssumption DEF SafeInv, TypeOK, RunInv, RunTypeOK, AbsentTogether
  <2>7. OneActiveContinuation'
    BY <2>1, OneActiveKept
  <2>8. RunFailsWithCommand'
    <3>1. \A k \in Command : status'[k] = "failed" => k \in FailedAfter \cap {held[w]} \/ status[k] = "failed"
      BY <2>2 DEF SafeInv, TypeOK, FailedAfter
    <3> QED
      BY <2>1, <3>1, FailRunFacts DEF FailedAfter
  <2> QED
    BY <2>1, <2>3, <2>4, <2>6, <2>7, <2>8, CheckpointKept
<1>7. ASSUME NEW w \in Worker, NEW k \in 1..Work, Advance(w, k) \/ AdvanceLost(w, k) PROVE RunInv'
  BY <1>7, MoveCheckpointSafe DEF Advance, AdvanceLost
<1>8. ASSUME NEW w \in Worker, NEW how \in {"retryable", "fatal"}, AdvanceFails(w, how) PROVE RunInv'
  BY <1>8, <1>4 DEF AdvanceFails
<1>9. ASSUME Rest PROVE RunInv'
  <2>0. UNCHANGED <<run, checkpoint>>
    BY <1>9 DEF Rest
  <2>1. ASSUME NEW w \in Worker, Complete(w) PROVE RunInv'
    <3>1. EndRow(w, "completed") /\ Release(w) /\ pc[w] = "ending" /\ outcome[w] = "result"
      BY <2>1 DEF Complete
    <3>2. /\ held[w] \in Command /\ run # "absent" /\ status[held[w]] = "running"
          /\ status' = [status EXCEPT ![held[w]] = "completed"]
      BY <3>1, EndFacts
    <3>3. NoNewResult /\ CompletedByResult
      BY <3>1, <3>2, ReleaseFacts DEF SafeInv, TypeOK, CompletedByResult
    <3>4. RunTypeOK' /\ AbsentTogether' /\ RunFailsWithCommand'
      BY <2>0, <3>2, FirstAssumption DEF SafeInv, TypeOK, RunInv, RunTypeOK, AbsentTogether, RunFailsWithCommand
    <3>5. OneActiveContinuation'
      BY <3>1, OneActiveKept
    <3> QED
      BY <2>0, <3>3, <3>4, <3>5, CheckpointKept
  <2>2. ASSUME UNCHANGED status, NoNewResult, \A v \in Worker : held'[v] \in {held[v], None} PROVE RunInv'
    <3>1. OneActiveContinuation' /\ CompletedByResult /\ RunFailsWithCommand'
      BY <2>0, <2>2, StatusKept
    <3>2. RunTypeOK' /\ AbsentTogether'
      BY <2>0, <2>2 DEF RunInv, RunTypeOK, AbsentTogether
    <3> QED
      BY <2>0, <2>2, <3>1, <3>2, CheckpointKept
  <2>3. ASSUME NEW w \in Worker, Rejected(w) \/ EndAbort(w) \/ Crash(w) PROVE RunInv'
    BY <2>2, <2>3, ReleaseFacts DEF Rejected, EndAbort, Crash
  <2>4. ASSUME NEW w \in Worker, Heartbeat(w) PROVE RunInv'
    BY <2>2, <2>4 DEF Heartbeat, NoNewResult
  <2>5. ASSUME NEW c \in Command, LeaseExpires(c) PROVE RunInv'
    BY <2>2, <2>5 DEF LeaseExpires, NoNewResult
  <2> QED
    BY <1>9, <2>1, <2>3, <2>4, <2>5 DEF Rest
<1>10. CASE UNCHANGED everything
  BY <1>10 DEF RunInv, RunTypeOK, AbsentTogether, OneActiveContinuation, RunFailsWithCommand, LastAdvanced,
      ResultAdvanced, AnsweredCallAdvanced, OnlyOvertakenRepeats, Did
<1> QED
  BY <1>1, <1>2, <1>3, <1>5, <1>6, <1>7, <1>8, <1>9, <1>10, Zenon DEF RunNext

\* So it holds always.
LEMMA RunHolds == RunSpec => []RunInv
<1>1. RunInit => RunInv
  BY RunInitSafe
<1>2. SafeInv /\ RunInv /\ [RunNext]_everything => RunInv'
  BY RunNextSafe
<1> QED
  BY <1>1, <1>2, QueueHolds, PTL DEF RunSpec

-----------------------------------------------------------------------------
(* The properties.                                                         *)

\* Types; and a run is complete only when its checkpoint leaves nothing.
THEOREM RunTypeCorrect == RunSpec => []RunTypeOK
<1>1. RunInv => RunTypeOK
  BY DEF RunInv
<1> QED
  BY <1>1, RunHolds, PTL

\* continue_search never lets two continuations of a run be active at once,
\* also when FailCommand queues one again.
THEOREM ContinuationsAreSerial == RunSpec => []OneActiveContinuation
<1>1. RunInv => OneActiveContinuation
  BY DEF RunInv
<1> QED
  BY <1>1, RunHolds, PTL

\* ClaimCommand and FailCommand between them fail the run with its command,
\* and nothing else does.
THEOREM RunFailsWithItsCommand == RunSpec => []RunFailsWithCommand
<1>1. RunInv => RunFailsWithCommand
  BY DEF RunInv
<1> QED
  BY <1>1, RunHolds, PTL

\* advance answers a call only when it moved the checkpoint for it, now or in
\* an attempt before, or when nothing is left.
THEOREM AnswersAreEarned == RunSpec => []AnsweredCallAdvanced
<1>1. RunInv => AnsweredCallAdvanced
  BY DEF RunInv
<1> QED
  BY <1>1, RunHolds, PTL

\* state.LastCommand keeps a retried call from advancing twice as long as no
\* other call advances.
THEOREM OnlyOvertakenCallsRepeat == RunSpec => []OnlyOvertakenRepeats
<1>1. RunInv => OnlyOvertakenRepeats
  BY DEF RunInv
<1> QED
  BY <1>1, RunHolds, PTL

\* advance leaves a complete run's checkpoint and a failed run alone, in
\* workers that began before too.
THEOREM SettledForGood == RunSpec => SettledRunIsLeftAlone
<1>1. ASSUME SafeInv, RunInv, [RunNext]_everything
      PROVE  [/\ run = "discovery_complete" => UNCHANGED checkpoint
              /\ run = "failed" => UNCHANGED <<run, checkpoint>>]_everything
  <2> SUFFICES ASSUME RunNext, run \in {"discovery_complete", "failed"}
               PROVE  UNCHANGED checkpoint /\ (run = "failed" => run' = run)
    BY <1>1
  <2>1. ASSUME SubmitRun PROVE FALSE
    BY <1>1, <2>1, FirstAssumption DEF SubmitRun, Submit, RunInv, AbsentTogether
  <2>2. ASSUME NEW S, FailRun(S) PROVE run = "failed" => run' = run
    BY <2>2 DEF FailRun
  <2>3. ASSUME NEW w \in Worker, NEW k \in 1..Work, MoveCheckpoint(w, k) PROVE FALSE
    BY <2>3 DEF MoveCheckpoint, Open, Refused
  <2> QED
    BY <2>1, <2>2, <2>3
    DEF RunNext, Continue, RunClaim, RunClaimLost, Replay, AnswerComplete, RefuseFailed, RunFail,
        Advance, AdvanceLost, AdvanceFails, Rest
<1> QED
  BY <1>1, QueueHolds, RunHolds, PTL DEF RunSpec, SettledRunIsLeftAlone

=============================================================================
