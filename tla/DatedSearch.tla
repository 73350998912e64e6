----------------------------- MODULE DatedSearch -----------------------------
(***************************************************************************)
(* A search with a date range as a whole: the command queue (Commands) and *)
(* the walk (PageWalk) that the handlers of its commands make, one request *)
(* to the provider at a time, while leases lapse, workers die and other    *)
(* commands of the run come in between.  The handler is not fenced by the  *)
(* lease; the row of the run is locked FOR UPDATE from its first statement *)
(* to the end of its transaction, and whoever wants to read or write the   *)
(* row waits (search.go advance; store.go ClaimCommand and FailCommand;    *)
(* postgres_gateway.py continue_search).                                   *)
(*                                                                         *)
(* SearchRuns takes an advance as one step.  This module shows that it     *)
(* may: it implements SearchRuns.  As there, the table jobs is left out,   *)
(* and with it the UPDATE by which ClaimCommand and FailCommand complete   *)
(* the jobs of a failed first command; delivered counts the items created. *)
(***************************************************************************)
EXTENDS Commands, Integers, Sequences

CONSTANTS
  First,                          \* as in SearchRuns
  Url, Request, Article, Offset, FirstToday, LastToday, MaxMonths, SlowClocks,
  PageSize                        \* as in PageWalk

VARIABLES
  run, last, advanced,            \* as in SearchRuns
  stored, criteria, today, saved, refusedOn, walk, windows, calling, collected, pages,
  delivered,                      \* as in PageWalk
  caller                          \* the worker whose transaction has the row locked

Walk == INSTANCE PageWalk WITH status <- run, faults <- 0

ASSUME FirstAssumption == First \in Command

\* What PageWalk assumes of its constants.
ASSUME WalkAssumption ==
  /\ MaxMonths \in Nat \ {0} /\ None \notin Walk!Date /\ IsFiniteSet(Url)
  /\ \A r \in Request : Walk!SearchFields(r)
  /\ IsFiniteSet(Article)
  /\ \A a \in Article : a.readable \in Walk!PageText /\ a.texts \in Seq(Walk!PageText)
  /\ \A d \in {FirstToday, LastToday} : d \in Walk!Date /\ Walk!RealDate(d)
  /\ SlowClocks \in BOOLEAN /\ Offset \subseteq -23..23 /\ PageSize \in Nat

checkpoint == <<saved, delivered, last, advanced>>
walking == <<stored, criteria, today, refusedOn, walk, windows, calling, collected, pages, caller>>
everything == <<queue, run, checkpoint, walking>>

DatedInit ==
  /\ Init
  /\ Walk!Submitted
  /\ run = "absent" /\ last = None /\ advanced = [c \in Command |-> 0]
  /\ caller = None

SubmitRun ==
  /\ Submit(First)
  /\ run' = "ready"
  /\ UNCHANGED <<checkpoint, walking>>

Continuations == Command \ {First}

Continue(c) ==
  /\ caller = None
  /\ run \notin {"absent", "failed", "discovery_complete"}
  /\ Walk!NotAfter(stored.end, today)
  /\ \A k \in Continuations : status[k] \notin {"queued", "running"}
  /\ Submit(c)
  /\ UNCHANGED <<run, checkpoint, walking>>

\* A transaction that fails a command writes the row of the run, and waits for
\* the handler that has it locked.
FailsCommand == \E c \in Command : status[c] # "failed" /\ status'[c] = "failed"
FailRunAnytime == IF FailsCommand THEN run' = "failed" ELSE UNCHANGED run
FailRun == IF FailsCommand THEN caller = None /\ run' = "failed" ELSE UNCHANGED run

QueueStep ==
  /\ \/ \E w \in Worker, c \in Command : Claim(w, c) \/ ClaimLost(w, c)
     \/ \E w \in Worker : \/ Fail(w) \/ Heartbeat(w) \/ Complete(w)
                          \/ Rejected(w) \/ EndAbort(w)
     \/ \E c \in Command : LeaseExpires(c)
  /\ FailRun
  /\ UNCHANGED <<checkpoint, walking>>

(***************************************************************************)
(* advance.                                                                *)
(***************************************************************************)
Replays(w) == last = held[w]

\* The row is locked and the checkpoint is not to be moved.
AnswerAtOnce(w) ==
  /\ caller = None
  /\ \/ (Replays(w) \/ run = "discovery_complete") /\ Handled(w, "result")
     \/ ~Replays(w) /\ run = "failed" /\ Handled(w, "fatal")
  /\ UNCHANGED <<run, checkpoint, walking>>

EnterWalk(w) ==
  /\ caller = None /\ pc[w] = "working" /\ ~Replays(w)
  /\ Walk!Begin
  /\ caller' = w
  /\ UNCHANGED <<queue, last, advanced>>

WalkPage ==
  /\ caller # None
  /\ \E p \in Walk!Fresh, hasNext \in BOOLEAN : Walk!Page(p, hasNext)
  /\ UNCHANGED <<queue, last, advanced, caller>>

\* The commit; its acknowledgement may be lost.
CommitWalk(w) ==
  /\ caller = w
  /\ Walk!Commit
  /\ last' = held[w]
  /\ advanced' = [advanced EXCEPT ![held[w]] = @ + 1]
  /\ caller' = None
  /\ \/ Handled(w, "result")
     \/ /\ faults < MaxFaults /\ pc' = [pc EXCEPT ![w] = "ending"]
        /\ outcome' = [outcome EXCEPT ![w] = "retryable"]
        /\ UNCHANGED <<rows, held, ticket, faults>>

\* The transaction of worker w, if it is the one, is rolled back.
AbandonSaves(w) ==
  /\ IF caller = w THEN Walk!CallEnds /\ caller' = None /\ saved' = walk
     ELSE UNCHANGED <<walk, windows, calling, collected, pages, caller, saved>>
  /\ UNCHANGED <<run, delivered, last, advanced, stored, criteria, today, refusedOn>>
Abandon(w) ==
  /\ IF caller = w THEN Walk!CallEnds /\ caller' = None
     ELSE UNCHANGED <<walk, windows, calling, collected, pages, caller>>
  /\ UNCHANGED <<run, checkpoint, stored, criteria, today, refusedOn>>

AdvanceFails(w) == Abandon(w) /\ \E how \in {"retryable", "fatal"} : Handled(w, how)
CrashAtWork(w) == Abandon(w) /\ Crash(w)

DatedNext ==
  \/ SubmitRun \/ QueueStep \/ WalkPage
  \/ \E c \in Continuations : Continue(c)
  \/ \E w \in Worker : \/ AnswerAtOnce(w) \/ EnterWalk(w) \/ CommitWalk(w)
                       \/ AdvanceFails(w) \/ CrashAtWork(w)
  \/ Walk!DayPasses /\ UNCHANGED <<queue, last, advanced, caller>>

DatedSpec == DatedInit /\ [][DatedNext]_everything

(***************************************************************************)
(* Properties.                                                             *)
(***************************************************************************)

\* What an advance can use up: every one hands out a URL or asks for a page.
Effort == 2 * (Cardinality(Url) + MaxMonths) + 1
Left == IF saved.month >= Walk!MonthsTotal /\ saved.pending = <<>> THEN 0
        ELSE Effort - saved.pages - Cardinality({u \in Url : delivered[u] > 0})

Runs == INSTANCE SearchRuns WITH Work <- Effort, left <- Left

\* Seen from outside, every command of the run advances it in one step and
\* never works on a settled run, although an advance asks for several pages.
ImplementsSearchRuns == Runs!RunSpec

\* A URL the run has seen is in one job or is pending, and never in two jobs,
\* also when attempts and calls overlap, die or lose their acknowledgement.
NothingIsScrapedTwice == Walk!SeenIsInOnePlace
=============================================================================
