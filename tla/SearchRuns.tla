----------------------------- MODULE SearchRuns -----------------------------
(***************************************************************************)
(* A search with a date range: one row of search_runs, the command that    *)
(* starts it and the commands that continue it (postgres_gateway.py        *)
(* submit_search, continue_search; src/internal/search/search.go advance;  *)
(* the statements of ClaimCommand and FailCommand on search_runs).         *)
(*                                                                         *)
(* advance holds the row of the run locked from its first statement to its *)
(* commit, so what it reads of the run is current when it writes: it is    *)
(* one step, or none when it fails.  It is not fenced by the lease of its  *)
(* command; what protects the run is state.LastCommand.  How an advance    *)
(* walks through the months and pages is left open: it uses up some of the *)
(* work that is left, and only then may it create a job.                   *)
(*                                                                         *)
(* The table jobs is not part of this module. advance gives a job it       *)
(* creates the id of its command, and the statements that fail the first   *)
(* command, of type search, also complete the jobs of that command with    *)
(* its error, items or not (store.go ClaimCommand and FailCommand, UPDATE  *)
(* jobs): such jobs exist when an earlier attempt has committed and its    *)
(* acknowledgement was lost. The module ItemQueue leaves these writes out  *)
(* as well; PlaceholderJobs has them, for the job of a plain search.       *)
(***************************************************************************)
EXTENDS Commands

CONSTANTS
  First,      \* the command that came with the run; the others continue it
  Work        \* bound: advances a run can take at most

ASSUME FirstAssumption == First \in Command
ASSUME WorkAssumption == Work \in Nat \ {0}

VARIABLES
  run,        \* search_runs.status, or "absent"
  left,       \* what the checkpoint leaves to discover
  last,       \* state.LastCommand
  advanced    \* history: how often a command moved the checkpoint

checkpoint == <<left, last, advanced>>
everything == <<queue, run, checkpoint>>

RunInit ==
  /\ Init
  /\ run = "absent"
  /\ left = Work
  /\ last = None
  /\ advanced = [c \in Command |-> 0]

SubmitRun ==
  /\ Submit(First)
  /\ run' = "ready"
  /\ UNCHANGED checkpoint

(***************************************************************************)
(* continue_search reads the run FOR UPDATE and looks for an active        *)
(* continuation; the unique index of migration 003 says the same.  A range *)
(* that ends after today is refused as well: no run that is stored today   *)
(* has one, only rows of earlier versions.                                 *)
(***************************************************************************)
Continuations == Command \ {First}
AlwaysFree == TRUE
NoActiveContinuation == \A k \in Continuations : status[k] \notin {"queued", "running"}

Continue(c) ==
  /\ run \notin {"absent", "failed", "discovery_complete"}
  /\ NoActiveContinuation
  /\ Submit(c)
  /\ UNCHANGED <<run, checkpoint>>

(***************************************************************************)
(* ClaimCommand and FailCommand: the run of a failed command has failed,   *)
(* whatever its status was. Their UPDATE of jobs is left out, see above.   *)
(***************************************************************************)
RunKept(failed) == UNCHANGED run
FailRun(failed) == run' = IF failed # {} THEN "failed" ELSE run

FailedAfter == {k \in Command : status'[k] = "failed"}

RunClaim(w, c) == Claim(w, c) /\ FailRun(FailedAfter) /\ UNCHANGED checkpoint
RunClaimLost(w, c) == ClaimLost(w, c) /\ FailRun(FailedAfter) /\ UNCHANGED checkpoint

RunFail(w) ==
  /\ Fail(w)
  /\ FailRun(FailedAfter \cap {held[w]})
  /\ UNCHANGED checkpoint

(***************************************************************************)
(* advance.                                                                *)
(***************************************************************************)
NeverReplays(w) == FALSE
ReplaysAnyone(w) == last # None
Replays(w) == last = held[w]
Open == run # "discovery_complete"
NeverRefused == FALSE
Refused == run = "failed"

\* The command has moved the checkpoint before: its stored result is given
\* again, even when the run has failed since.
Replay(w) ==
  /\ Replays(w)
  /\ Handled(w, "result")
  /\ UNCHANGED <<run, checkpoint>>

AnswerComplete(w) ==
  /\ ~Replays(w) /\ ~Open
  /\ Handled(w, "result")
  /\ UNCHANGED <<run, checkpoint>>

RefuseFailed(w) ==
  /\ ~Replays(w) /\ Open /\ Refused
  /\ Handled(w, "fatal")
  /\ UNCHANGED <<run, checkpoint>>

\* The transaction that stores the job, its items and the checkpoint.
MoveCheckpoint(w, k) ==
  LET c == held[w]
  IN /\ pc[w] = "working"
     /\ ~Replays(w) /\ Open /\ ~Refused
     /\ k <= left
     /\ left' = left - k
     /\ last' = c
     /\ advanced' = [advanced EXCEPT ![c] = @ + 1]
     /\ run' = IF left = k THEN "discovery_complete" ELSE "ready"

Advance(w, k) == MoveCheckpoint(w, k) /\ Handled(w, "result")

\* The commit happened but the worker saw an error, which is retryable.
AdvanceLost(w, k) ==
  /\ faults < MaxFaults
  /\ MoveCheckpoint(w, k)
  /\ Handled(w, "retryable")

\* The provider or a statement failed and the transaction rolled back.  Only
\* the checks before it and the provider give fatal errors.
AdvanceFails(w, how) == Handled(w, how) /\ UNCHANGED <<run, checkpoint>>

Rest == /\ \/ \E w \in Worker : \/ Heartbeat(w) \/ Complete(w)
                                \/ Rejected(w) \/ EndAbort(w) \/ Crash(w)
           \/ \E c \in Command : LeaseExpires(c)
        /\ UNCHANGED <<run, checkpoint>>

RunNext ==
  \/ SubmitRun
  \/ \E c \in Continuations : Continue(c)
  \/ \E w \in Worker, c \in Command : RunClaim(w, c) \/ RunClaimLost(w, c)
  \/ \E w \in Worker : Replay(w) \/ AnswerComplete(w) \/ RefuseFailed(w) \/ RunFail(w)
  \/ \E w \in Worker, k \in 1..Work : Advance(w, k) \/ AdvanceLost(w, k)
  \/ \E w \in Worker, how \in {"retryable", "fatal"} : AdvanceFails(w, how)
  \/ Rest

RunSpec == RunInit /\ [][RunNext]_everything

\* As in Commands; an advance ends because the provider answers or times out.
Calls(w) ==
  \/ Replay(w) \/ AnswerComplete(w) \/ RefuseFailed(w)
  \/ \E k \in 1..Work : Advance(w, k)
  \/ \E how \in {"retryable", "fatal"} : AdvanceFails(w, how)
RunWorks(w) ==
  \/ \E c \in Command : RunClaim(w, c)
  \/ Calls(w) \/ RunFail(w)
  \/ (Complete(w) \/ Rejected(w)) /\ UNCHANGED <<run, checkpoint>>
RunFairness ==
  /\ \A w \in Worker : WF_everything(RunWorks(w))
  /\ \A c \in Command : WF_everything(LeaseExpires(c) /\ UNCHANGED <<run, checkpoint>>)

RunFairSpec == RunSpec /\ RunFairness

(***************************************************************************)
(* Properties.                                                             *)
(***************************************************************************)

\* Every variable keeps its type, and a run is complete only when nothing is
\* left to discover.
RunTypeOK ==
  /\ TypeOK
  /\ run \in {"absent", "ready", "discovery_complete", "failed"}
  /\ left \in 0..Work
  /\ last \in Command \cup {None}
  /\ advanced \in [Command -> Nat]
  /\ run = "discovery_complete" => left = 0
  /\ run = "ready" => left > 0

\* Two continuations of one run are never queued or running at once, also when
\* a failed attempt is queued again.
OneActiveContinuation ==
  \A c, k \in Continuations :
     status[c] \in {"queued", "running"} /\ status[k] \in {"queued", "running"} => c = k

\* A run has failed exactly when one of its commands has, on whichever path.
RunFailsWithCommand == run = "failed" <=> \E c \in Command : status[c] = "failed"

\* After discovery_complete no command moves the checkpoint or creates a job,
\* and a failed run stays failed: also for a worker that began before.
SettledRunIsLeftAlone ==
  [][/\ run = "discovery_complete" => UNCHANGED checkpoint
     /\ run = "failed" => UNCHANGED <<run, checkpoint>>]_everything

\* A call that is answered has done its share, or nothing was left for it.
AnsweredCallAdvanced ==
  \A c \in Command : status[c] = "completed" => advanced[c] > 0 \/ left = 0

\* A call moves the checkpoint again only if another call came in between:
\* neither a retry nor an evicted worker on its own makes it search twice.
OnlyOvertakenRepeats ==
  \A c \in Command : advanced[c] > 1 => \E k \in Command \ {c} : advanced[k] > 0

\* max_pages and max_articles limit each call: no call advances twice.
EachCallAdvancesOnce == \A c \in Command : advanced[c] <= 1
=============================================================================
