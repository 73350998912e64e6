------------------------------ MODULE Commands ------------------------------
(***************************************************************************)
(* The command queue: table commands, written by the middleware, and the   *)
(* one commandLoop of every worker process (src/cmd/worker/main.go,        *)
(* src/internal/store/store.go ClaimCommand, Heartbeat, CompleteCommand,   *)
(* FailCommand).  What a command does is left open here: its handler ends  *)
(* with a result, a retryable error or a fatal one.                        *)
(*                                                                         *)
(* An action is a transaction at its commit.  ClaimCommand may be taken as *)
(* one step although it has several statements: it uses nothing it has     *)
(* read before, its now() is the start of the transaction, and a lease     *)
(* that runs out in between might as well run out after the commit.        *)
(***************************************************************************)
EXTENDS Naturals, FiniteSets

CONSTANTS
  Worker,          \* worker processes; the element is the lease_owner it writes
  Command,
  MaxAttempts,     \* MAX_ATTEMPTS
  PromptHeartbeats,\* TRUE: no lease lapses while its holder is at work
  MaxFaults,       \* bound: crashes, database errors and lost acknowledgements
  None

ASSUME MaxAttemptsAssumption == MaxAttempts \in Nat \ {0}
ASSUME MaxFaultsAssumption == MaxFaults \in Nat
ASSUME PromptAssumption == PromptHeartbeats \in BOOLEAN
ASSUME NoneAssumption == None \notin Worker /\ None \notin Command

VARIABLES
  status,    \* commands.status, or "absent" before the command is submitted
  owner,     \* commands.lease_owner
  lease,     \* lease_until: NULL, in the future or in the past
  attempts,  \* commands.attempts
  pc,        \* where the commandLoop of each worker is
  held,      \* the command a worker processes
  outcome,   \* how its handler ended
  ticket,    \* history: which attempt at its command a worker is making
  faults

rows == <<status, owner, lease, attempts>>
loops == <<pc, held, outcome, ticket>>
queue == <<rows, loops, faults>>

Ended == {"completed", "failed"}

Init ==
  /\ status = [c \in Command |-> "absent"]
  /\ owner = [c \in Command |-> None]
  /\ lease = [c \in Command |-> "none"]
  /\ attempts = [c \in Command |-> 0]
  /\ pc = [w \in Worker |-> "idle"]
  /\ held = [w \in Worker |-> None]
  /\ outcome = [w \in Worker |-> "none"]
  /\ ticket = [w \in Worker |-> 0]
  /\ faults = 0

Submit(c) ==
  /\ status[c] = "absent"
  /\ status' = [status EXCEPT ![c] = "queued"]
  /\ UNCHANGED <<owner, lease, attempts, loops, faults>>

(***************************************************************************)
(* ClaimCommand.  When it finds nothing to claim it returns before the     *)
(* commit, and the rollback takes back what its first statements did: that *)
(* is why failing the exhausted commands is part of a claim.               *)
(***************************************************************************)
Exhausted == {c \in Command : lease[c] = "lapsed" /\ attempts[c] >= MaxAttempts}

ClaimableOnce == {c \in Command : attempts[c] < MaxAttempts /\ status[c] = "queued"}
ClaimableForever == {c \in Command : status[c] = "queued" \/ lease[c] = "lapsed"}
Claimable ==
  {c \in Command : attempts[c] < MaxAttempts /\ (status[c] = "queued" \/ lease[c] = "lapsed")}

OwnerKept(w, c, k) == IF k = c /\ owner[c] = None THEN w
                      ELSE IF k \in Exhausted THEN None ELSE owner[k]
OwnerAfterClaim(w, c, k) == IF k = c THEN w ELSE IF k \in Exhausted THEN None ELSE owner[k]

ClaimRow(w, c) ==
  /\ c \in Claimable
  /\ status' = [k \in Command |-> IF k = c THEN "running"
                                  ELSE IF k \in Exhausted THEN "failed" ELSE status[k]]
  /\ owner' = [k \in Command |-> OwnerAfterClaim(w, c, k)]
  /\ lease' = [k \in Command |-> IF k = c THEN "live"
                                 ELSE IF k \in Exhausted THEN "none" ELSE lease[k]]
  /\ attempts' = [attempts EXCEPT ![c] = @ + 1]

Claim(w, c) ==
  /\ pc[w] = "idle"
  /\ ClaimRow(w, c)
  /\ pc' = [pc EXCEPT ![w] = "working"]
  /\ held' = [held EXCEPT ![w] = c]
  /\ ticket' = [ticket EXCEPT ![w] = attempts[c] + 1]
  /\ UNCHANGED <<outcome, faults>>

\* The commit happened but the worker saw an error: nobody processes it.
ClaimLost(w, c) ==
  /\ pc[w] = "idle" /\ faults < MaxFaults
  /\ ClaimRow(w, c)
  /\ faults' = faults + 1
  /\ UNCHANGED loops

(***************************************************************************)
(* The handler, the heartbeat beside it, and the clock.                    *)
(***************************************************************************)
Handled(w, how) ==
  /\ pc[w] = "working"
  /\ pc' = [pc EXCEPT ![w] = "ending"]
  /\ outcome' = [outcome EXCEPT ![w] = how]
  /\ UNCHANGED <<rows, held, ticket, faults>>

HoldsCommand(w) == held[w] # None
HoldsLease(w) == held[w] # None /\ owner[held[w]] = w

Heartbeat(w) ==
  /\ HoldsLease(w) /\ lease[held[w]] = "lapsed"
  /\ lease' = [lease EXCEPT ![held[w]] = "live"]
  /\ UNCHANGED <<status, owner, attempts, loops, faults>>

LeaseExpires(c) ==
  /\ lease[c] = "live"
  /\ PromptHeartbeats => \A w \in Worker : held[w] # c
  /\ lease' = [lease EXCEPT ![c] = "lapsed"]
  /\ UNCHANGED <<status, owner, attempts, loops, faults>>

(***************************************************************************)
(* CompleteCommand and FailCommand.                                        *)
(***************************************************************************)
Release(w) ==
  /\ pc' = [pc EXCEPT ![w] = "idle"]
  /\ held' = [held EXCEPT ![w] = None]
  /\ outcome' = [outcome EXCEPT ![w] = "none"]
  /\ ticket' = [ticket EXCEPT ![w] = 0]

EndRow(w, new) ==
  /\ HoldsLease(w)
  /\ status' = [status EXCEPT ![held[w]] = new]
  /\ owner' = [owner EXCEPT ![held[w]] = None]
  /\ lease' = [lease EXCEPT ![held[w]] = "none"]
  /\ UNCHANGED attempts

Complete(w) ==
  /\ pc[w] = "ending" /\ outcome[w] = "result"
  /\ EndRow(w, "completed")
  /\ Release(w)
  /\ UNCHANGED faults

AlwaysRetries(w) == outcome[w] = "retryable"
Retries(w) == outcome[w] = "retryable" /\ attempts[held[w]] < MaxAttempts

\* FailCommand decides about the retry in the UPDATE itself.
Fail(w) ==
  /\ pc[w] = "ending" /\ outcome[w] # "result"
  /\ EndRow(w, IF Retries(w) THEN "queued" ELSE "failed")
  /\ Release(w)
  /\ UNCHANGED faults

\* No row is updated: the lease went to another worker, or was given up.
Rejected(w) ==
  /\ pc[w] = "ending"
  /\ ~HoldsLease(w)
  /\ Release(w)
  /\ UNCHANGED <<rows, faults>>

\* The statement failed: the result is lost and the lease runs out.
EndAbort(w) ==
  /\ pc[w] = "ending" /\ faults < MaxFaults
  /\ Release(w)
  /\ faults' = faults + 1
  /\ UNCHANGED rows

\* A worker process dies and is started again with the same WORKER_ID.
Crash(w) ==
  /\ pc[w] # "idle" /\ faults < MaxFaults
  /\ Release(w)
  /\ faults' = faults + 1
  /\ UNCHANGED rows

Next == \/ \E c \in Command : Submit(c) \/ LeaseExpires(c)
        \/ \E w \in Worker, c \in Command : Claim(w, c) \/ ClaimLost(w, c)
        \/ \E w \in Worker, how \in {"result", "retryable", "fatal"} : Handled(w, how)
        \/ \E w \in Worker : \/ Heartbeat(w) \/ Complete(w) \/ Fail(w)
                             \/ Rejected(w) \/ EndAbort(w) \/ Crash(w)

\* The queue without fairness, as the modules that extend this one take it.
SafetySpec == Init /\ [][Next]_queue

\* A loop keeps claiming and ending what it claims, a handler returns because
\* everything it calls has a timeout, and a lease nobody renews runs out.
Works(w) == \/ \E c \in Command : Claim(w, c)
            \/ \E how \in {"result", "retryable", "fatal"} : Handled(w, how)
            \/ Complete(w) \/ Fail(w) \/ Rejected(w)
Fairness == /\ \A w \in Worker : WF_queue(Works(w))
            /\ \A c \in Command : WF_queue(LeaseExpires(c))

Spec == SafetySpec /\ Fairness

(***************************************************************************)
(* Properties.                                                             *)
(***************************************************************************)

\* Every variable keeps its type; no command is claimed more than MAX_ATTEMPTS times.
TypeOK ==
  /\ status \in [Command -> {"absent", "queued", "running"} \cup Ended]
  /\ owner \in [Command -> Worker \cup {None}]
  /\ lease \in [Command -> {"none", "live", "lapsed"}]
  /\ attempts \in [Command -> 0..MaxAttempts]
  /\ pc \in [Worker -> {"idle", "working", "ending"}]
  /\ held \in [Worker -> Command \cup {None}]
  /\ \A w \in Worker : pc[w] # "idle" => held[w] # None
  /\ outcome \in [Worker -> {"none", "result", "retryable", "fatal"}]
  /\ ticket \in [Worker -> 0..MaxAttempts]
  /\ faults \in 0..MaxFaults

\* A command has an owner and a lease exactly while it is running: FailCommand
\* is fenced by lease_owner alone and never tests the status.
LeaseIffRunning ==
  \A c \in Command : /\ (owner[c] # None) <=> (status[c] = "running")
                     /\ (lease[c] # "none") <=> (status[c] = "running")

\* A worker that passes the lease_owner fence is making the latest attempt, so
\* no result or error of an evicted attempt is ever written to a command.
FenceIsExact ==
  \A w \in Worker : HoldsLease(w) => ticket[w] = attempts[held[w]]

\* A requeued command can still be claimed: FailCommand decides about the retry
\* in the statement that requeues, so no claim comes in between.
QueuedCommandCanBeClaimed ==
  \A c \in Command : status[c] = "queued" => attempts[c] < MaxAttempts

\* The answer of a command never changes, whatever a slow or evicted worker
\* still does.
EndedIsFinal == [][\A c \in Command : status[c] \in Ended => status'[c] = status[c]]_queue

\* Every submitted command ends or uses up its attempts, whatever crashes.
CommandEventuallySettles ==
  \A c \in Command : status[c] = "queued" ~> (status[c] \in Ended \/ attempts[c] = MaxAttempts)
=============================================================================
