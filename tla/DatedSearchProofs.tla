------------------------- MODULE DatedSearchProofs --------------------------
(***************************************************************************)
(* Proofs about a search with a date range as a whole, for any number of   *)
(* workers, commands, URLs, requests, pages and faults. The invariants of  *)
(* the queue (CommandsProofs) and of the walk (PageWalkProofs) are joined  *)
(* by who has the row locked; from them the search is shown to implement   *)
(* SearchRuns.                                                             *)
(***************************************************************************)
EXTENDS DatedSearch, CommandsProofs, FiniteSetTheorems

USE DEF Ended, rows, loops, queue

\* The lemmas about the walk.
WP == INSTANCE PageWalkProofs WITH status <- run, faults <- 0

(***************************************************************************)
(* DatedSearch and the proofs about PageWalk mean the same by the walk:    *)
(* the two instances of PageWalk have the same definitions.                *)
(***************************************************************************)
\* Cardinality, counted here and there.
LEMMA SameSets == \A S : Walk!Cardinality(S) = Cardinality(S) /\ WP!Cardinality(S) = Cardinality(S)
  BY Zenon DEF Walk!Cardinality, WP!Cardinality, Cardinality

\* The calendar and the ranges of a request.
LEMMA SameRanges ==
  /\ \A r, d : Walk!Named(r, d) = WP!Named(r, d) /\ Walk!Canonical(r, d) = WP!Canonical(r, d)
  /\ \A r, d : /\ Walk!MiddlewareAccepts(r, d) = WP!MiddlewareAccepts(r, d)
               /\ Walk!WorkerAccepts(r, d) = WP!WorkerAccepts(r, d)
  /\ \A r : Walk!IsDated(r) = WP!IsDated(r)
  /\ \A a, b : Walk!NotAfter(a, b) = WP!NotAfter(a, b)
  /\ \A r : Walk!MonthCount(r) = WP!MonthCount(r)
  /\ \A d : Walk!NextDay(d) = WP!NextDay(d)
<1>1. \A y, m, d : Walk!Day(y, m, d) = WP!Day(y, m, d)
  BY Zenon DEF Walk!Day, WP!Day
<1>2. \A y, m : Walk!LastOfMonth(y, m) = WP!LastOfMonth(y, m) /\ Walk!DaysInMonth(y, m) = WP!DaysInMonth(y, m)
  BY <1>1, Zenon
  DEF Walk!LastOfMonth, WP!LastOfMonth, Walk!DaysInMonth, WP!DaysInMonth, Walk!IsLeap, WP!IsLeap
<1>3. \A r, d : Walk!Named(r, d) = WP!Named(r, d)
  BY <1>1, <1>2, Zenon DEF Walk!Named, WP!Named
<1>4. \A r, d : Walk!Canonical(r, d) = WP!Canonical(r, d)
  BY <1>3, Zenon DEF Walk!Canonical, WP!Canonical
<1>5. /\ \A r : Walk!WellFormed(r) = WP!WellFormed(r) /\ Walk!IsDated(r) = WP!IsDated(r)
      /\ \A a, b : Walk!NotAfter(a, b) = WP!NotAfter(a, b)
      /\ \A r : Walk!MonthCount(r) = WP!MonthCount(r)
  BY SameSets, Zenon DEF Walk!WellFormed, WP!WellFormed, Walk!Selectors, WP!Selectors,
     Walk!IsDated, WP!IsDated, Walk!NotAfter, WP!NotAfter, Walk!MonthCount, WP!MonthCount
<1>6. \A r, d : Walk!Acceptable(r, d) = WP!Acceptable(r, d)
  BY <1>2, <1>3, <1>5, Zenon DEF Walk!Acceptable, WP!Acceptable
<1>8. \A r, d : /\ Walk!MiddlewareAccepts(r, d) = WP!MiddlewareAccepts(r, d)
             /\ Walk!WorkerAccepts(r, d) = WP!WorkerAccepts(r, d)
  <2>1. \A y : Walk!YearAllowed(y) = WP!YearAllowed(y)
    BY Zenon DEF Walk!YearAllowed, WP!YearAllowed
  <2> QED
    BY <1>3, <1>6, <2>1
    DEF Walk!MiddlewareAccepts, WP!MiddlewareAccepts, Walk!WorkerAccepts, WP!WorkerAccepts
<1>7. \A d : Walk!NextDay(d) = WP!NextDay(d)
  BY <1>1, <1>2, Zenon DEF Walk!NextDay, WP!NextDay, Walk!NextMonth, WP!NextMonth
<1> QED
  BY <1>3, <1>4, <1>5, <1>7, <1>8

\* The months a range is cut into.
LEMMA SameWindows == \A r : Walk!MonthWindows(r) = WP!MonthWindows(r)
  BY Zenon
  DEF Walk!MonthWindows, WP!MonthWindows, Walk!Day, WP!Day, Walk!LastOfMonth, WP!LastOfMonth,
      Walk!DaysInMonth, WP!DaysInMonth, Walk!IsLeap, WP!IsLeap, Walk!NextMonth, WP!NextMonth,
      Walk!NotAfter, WP!NotAfter, Walk!Later, WP!Later, Walk!Earlier, WP!Earlier,
      Walk!Cardinality, WP!Cardinality

\* What the provider is asked for.
LEMMA SameWidened == \A w : Walk!Widened(w) = WP!Widened(w)
<1>1. \A d : Walk!DayBefore(d) = WP!DayBefore(d)
  BY Zenon
  DEF Walk!DayBefore, WP!DayBefore, Walk!Day, WP!Day, Walk!LastOfMonth, WP!LastOfMonth,
      Walk!DaysInMonth, WP!DaysInMonth, Walk!IsLeap, WP!IsLeap
<1> QED
  BY <1>1, SameRanges, Zenon DEF Walk!Widened, WP!Widened

\* The steps of a call.
LEMMA SameWalk ==
  /\ Walk!Submitted => WP!Submitted
  /\ \A day : Walk!Enter(day) => WP!Enter(day)
  /\ Walk!Fresh = WP!Fresh
  /\ \A p, hasNext : Walk!Page(p, hasNext) => WP!Page(p, hasNext)
  /\ Walk!Commit => WP!Commit
  /\ Walk!CallEnds => WP!CallEnds
  /\ Walk!DayPasses => WP!DayPasses
  /\ Walk!MonthsTotal = WP!MonthsTotal
  /\ Walk!SeenIsInOnePlace <=> WP!SeenIsInOnePlace
<1>0. Walk!Start = WP!Start
  BY Zenon DEF Walk!Start, WP!Start
<1>1. Walk!Submitted => WP!Submitted
  BY <1>0, SameRanges DEF Walk!Submitted, WP!Submitted
<1>2. \A day : Walk!Enter(day) => WP!Enter(day)
  <2> SUFFICES ASSUME NEW day, Walk!Enter(day) PROVE WP!Enter(day)
    OBVIOUS
  <2>1. WP!WorkerAccepts(stored, day) /\ Walk!Taken(saved) = WP!Taken(saved)
        /\ Walk!MonthWindows(Walk!Named(stored, day)) = WP!MonthWindows(WP!Named(stored, day))
    BY SameRanges, SameWindows DEF Walk!Enter, Walk!Taken, WP!Taken
  <2> QED
    BY <2>1, Zenon DEF Walk!Enter, WP!Enter, Walk!request, WP!request
<1>3. Walk!Fresh = WP!Fresh
  BY Zenon DEF Walk!Fresh, WP!Fresh, Walk!SeqOf, WP!SeqOf, Walk!IsInjective, WP!IsInjective
<1>4. \A p, hasNext : Walk!Page(p, hasNext) => WP!Page(p, hasNext)
  <2> SUFFICES ASSUME NEW p, NEW hasNext, Walk!Page(p, hasNext) PROVE WP!Page(p, hasNext)
    OBVIOUS
  <2>1. Walk!Widened(windows[walk.month + 1]) = WP!Widened(windows[walk.month + 1])
    BY SameWidened, Zenon
  <2> QED
    BY <2>1, Zenon DEF Walk!Page, WP!Page, Walk!WantsMore, WP!WantsMore, Walk!RestKept, WP!RestKept,
       Walk!Remembered, WP!Remembered, Walk!request, WP!request, Walk!ToSet, WP!ToSet
<1>5. (Walk!Commit => WP!Commit) /\ (Walk!CallEnds => WP!CallEnds)
  BY SameSets, Zenon DEF Walk!Commit, WP!Commit, Walk!WantsMore, WP!WantsMore, Walk!AllWalked, WP!AllWalked,
     Walk!CallEnds, WP!CallEnds, Walk!Start, WP!Start, Walk!request, WP!request
<1>6. Walk!DayPasses => WP!DayPasses
  BY SameRanges, Zenon DEF Walk!DayPasses, WP!DayPasses, Walk!request, WP!request, Walk!call, WP!call
<1>7. Walk!MonthsTotal = WP!MonthsTotal
  BY SameRanges, Zenon DEF Walk!MonthsTotal, WP!MonthsTotal
<1>8. Walk!SeenIsInOnePlace <=> WP!SeenIsInOnePlace
  BY SameSets, Zenon DEF Walk!SeenIsInOnePlace, WP!SeenIsInOnePlace, Walk!Pending, WP!Pending
<1> QED
  BY <1>1, <1>2, <1>3, <1>4, <1>5, <1>6, <1>7, <1>8

\* What is assumed of the fields of a request.
LEMMA SameFields ==
  /\ Walk!Date = WP!Date /\ Walk!PageText = WP!PageText
  /\ \A d : Walk!RealDate(d) = WP!RealDate(d)
  /\ \A r : Walk!SearchFields(r) = WP!SearchFields(r)
<1>1. Walk!Date = WP!Date /\ Walk!PageText = WP!PageText
  BY Zenon DEF Walk!Date, WP!Date, Walk!PageText, WP!PageText
<1>2. \A d : Walk!RealDate(d) = WP!RealDate(d)
  BY Zenon DEF Walk!RealDate, WP!RealDate, Walk!DaysInMonth, WP!DaysInMonth, Walk!IsLeap, WP!IsLeap
<1>3. \A r : Walk!SearchFields(r) = WP!SearchFields(r)
  BY Zenon DEF Walk!SearchFields, WP!SearchFields, Walk!Date, WP!Date,
     Walk!RealDate, WP!RealDate, Walk!DaysInMonth, WP!DaysInMonth, Walk!IsLeap, WP!IsLeap
<1> QED
  BY <1>1, <1>2, <1>3

\* So the lemmas of PageWalkProofs hold of the walk here.
LEMMA WalkAssumed ==
  /\ WP!MaxMonthsAssumption /\ WP!UrlAssumption /\ WP!NoneAssumption /\ WP!RequestAssumption
  /\ WP!ArticleAssumption /\ WP!ClockAssumption /\ WP!BoundAssumption
<1>1. WP!MaxMonthsAssumption /\ WP!BoundAssumption
  BY WalkAssumption, MaxFaultsAssumption DEF WP!MaxMonthsAssumption, WP!BoundAssumption
<1>2. \A S : WP!IsFiniteSet(S) <=> IsFiniteSet(S)
  BY Zenon DEF WP!IsFiniteSet, IsFiniteSet
<1>3. WP!UrlAssumption
  BY <1>2, WalkAssumption, Zenon DEF WP!UrlAssumption
<1>4. WP!NoneAssumption /\ WP!RequestAssumption
  BY SameFields, WalkAssumption DEF WP!NoneAssumption, WP!RequestAssumption
<1>5. WP!ArticleAssumption
  BY <1>2, SameFields, WalkAssumption DEF WP!ArticleAssumption
<1>6. WP!ClockAssumption
  BY SameFields, WalkAssumption DEF WP!ClockAssumption
<1> QED
  BY <1>1, <1>3, <1>4, <1>5, <1>6

(***************************************************************************)
(* The invariant.                                                          *)
(***************************************************************************)
\* While the row is locked, the worker that locked it is at work on a command
\* that has not moved the checkpoint last.
RowIsLocked ==
  /\ calling <=> caller # None
  /\ caller # None => caller \in Worker /\ pc[caller] = "working" /\ last # held[caller]

\* A run has failed with its first failed command, and is not there before it
\* is submitted.
RunFollowsCommands ==
  /\ (\E c \in Command : status[c] = "failed") => run = "failed"
  /\ status[First] = "absent" =>
       /\ run = "absent" /\ saved = WP!Start
       /\ \A c \in Command : status[c] = "absent"

\* The invariants of the walk.
WalkHolds == WP!WalkInv /\ WP!CourseInv /\ WP!CallAdvances

\* The inductive invariant: that of the queue, those of the walk, and how the
\* two hang together.
DatedInv == SafeInv /\ WalkHolds /\ RowIsLocked /\ RunFollowsCommands

\* A step that leaves the walk alone and no more than fails the run.
LEMMA WalkStays ==
  ASSUME WalkHolds, UNCHANGED <<checkpoint, walking>>, calling => UNCHANGED run,
         run' \in {run, "failed"} \/ (run' = "ready" /\ saved = WP!Start)
  PROVE  WalkHolds'
<1>1. UNCHANGED <<stored, criteria, today, saved, refusedOn, walk, windows, calling, collected, pages, delivered>>
  BY DEF checkpoint, walking
<1>2. WP!WalkInv'
  BY <1>1 DEF WalkHolds, WP!WalkInv, WP!PlaceOf
<1>3. WP!CallAdvances'
  BY <1>1 DEF WalkHolds, WP!CallAdvances, WP!Months
<1>4. WP!RequestKept'
  BY <1>1, WalkAssumed, WP!RequestStays DEF WalkHolds, WP!CourseInv
<1>5. WP!StatusOfWalk'
  <2>1. UNCHANGED WP!Months /\ WP!Months \in Nat \ {0} /\ WP!Start.month = 0
    BY <1>1, WalkAssumed, WP!RangeKept DEF WP!Months, WP!Start, WalkHolds, WP!CourseInv
  <2> QED
    BY <1>1, <2>1 DEF WalkHolds, WP!CourseInv, WP!StatusOfWalk
<1>6. WP!CourseInv'
  BY <1>1, <1>4, <1>5, WalkAssumed, WP!CourseStays DEF WalkHolds, WP!call
<1> QED
  BY <1>2, <1>3, <1>6 DEF WalkHolds

\* What the steps of the queue that are not the handler's leave alone.
LEMMA QueueStays ==
  ASSUME SafeInv, QueueStep
  PROVE  /\ Next
         /\ \A v \in Worker : pc[v] = "working" => pc'[v] = "working" /\ held'[v] = held[v]
         /\ \A c \in Command : status[c] = "failed" => status'[c] = "failed"
         /\ \A c \in Command : status'[c] = "absent" => status[c] = "absent"
         /\ (\A c \in Command : status[c] = "absent") => UNCHANGED status
<1>1. Next
  BY DEF QueueStep, Next
<1>2. \/ \E w \in Worker, c \in Command : Claim(w, c) \/ ClaimLost(w, c)
      \/ \E w \in Worker : Fail(w) \/ Heartbeat(w) \/ Complete(w) \/ Rejected(w) \/ EndAbort(w)
      \/ \E c \in Command : LeaseExpires(c)
  BY DEF QueueStep
<1>3. \A v \in Worker : pc[v] = "working" => pc'[v] = "working" /\ held'[v] = held[v]
  <2>1. ASSUME NEW w \in Worker, Release(w), pc[w] = "ending", NEW v \in Worker, pc[v] = "working"
        PROVE  pc'[v] = "working" /\ held'[v] = held[v]
    BY <2>1 DEF Release, SafeInv, TypeOK
  <2>2. ASSUME NEW w \in Worker, NEW c \in Command, Claim(w, c), NEW v \in Worker, pc[v] = "working"
        PROVE  pc'[v] = "working" /\ held'[v] = held[v]
    BY <2>2 DEF Claim, SafeInv, TypeOK
  <2>3. UNCHANGED loops => \A v \in Worker : pc[v] = "working" => pc'[v] = "working" /\ held'[v] = held[v]
    OBVIOUS
  <2> QED
    BY <1>2, <2>1, <2>2, <2>3 DEF ClaimLost, Fail, Heartbeat, Complete, Rejected, EndAbort, LeaseExpires
<1>4. \A c \in Command : status[c] = "failed" => status'[c] = "failed"
  BY <1>1, EndedStays
<1>5. \/ \E w \in Worker, k \in Command : ClaimRow(w, k)
      \/ \E w \in Worker : \E new \in {"queued"} \cup Ended : EndRow(w, new)
      \/ UNCHANGED status
  BY <1>2 DEF Claim, ClaimLost, Fail, Heartbeat, Complete, Rejected, EndAbort, LeaseExpires
<1>6. ASSUME NEW w \in Worker, NEW k \in Command, ClaimRow(w, k)
      PROVE  /\ \A c \in Command : status'[c] = "absent" => status[c] = "absent"
             /\ \E c \in Command : status[c] # "absent"
  BY <1>6 DEF ClaimRow, Claimable, SafeInv, LeaseIffRunning
<1>7. ASSUME NEW w \in Worker, NEW new \in {"queued"} \cup Ended, EndRow(w, new)
      PROVE  /\ \A c \in Command : status'[c] = "absent" => status[c] = "absent"
             /\ \E c \in Command : status[c] # "absent"
  BY <1>7, NoneAssumption DEF EndRow, HoldsLease, SafeInv, TypeOK, LeaseIffRunning
<1> QED
  BY <1>1, <1>3, <1>4, <1>5, <1>6, <1>7

\* It holds of a run that is to be submitted.
LEMMA DatedInitHolds == DatedInit => DatedInv
<1> SUFFICES ASSUME DatedInit PROVE DatedInv
  OBVIOUS
<1>1. Init /\ WP!Submitted /\ run = "absent" /\ caller = None
  BY SameWalk DEF DatedInit
<1>2. SafeInv
  BY <1>1, SafeInit
<1>3. saved = WP!Start /\ calling = FALSE
  BY <1>1 DEF WP!Submitted
<1>4. \A c \in Command : status[c] = "absent"
  BY <1>1 DEF Init
<1>5. RowIsLocked /\ RunFollowsCommands
  BY <1>1, <1>3, <1>4 DEF RowIsLocked, RunFollowsCommands
<1>6. WalkHolds
  BY <1>1, <1>3, WalkAssumed, WP!WalkSubmitted, WP!CourseSubmitted DEF WalkHolds, WP!CallAdvances
<1> QED
  BY <1>2, <1>5, <1>6 DEF DatedInv

(***************************************************************************)
(* What the steps of a handler leave alone.                                *)
(***************************************************************************)
\* A handler, or a worker, that ends gives up the row if it has it.
LEMMA AbandonStays ==
  ASSUME WalkHolds, RowIsLocked, NEW w \in Worker, Abandon(w),
         \A v \in Worker : v # w /\ pc[v] = "working" => pc'[v] = "working" /\ held'[v] = held[v]
  PROVE  WalkHolds' /\ RowIsLocked' /\ UNCHANGED <<run, checkpoint>>
<1>1. /\ UNCHANGED <<run, checkpoint, stored, criteria, today, refusedOn>>
      /\ UNCHANGED <<saved, delivered, last>>
  BY DEF Abandon, checkpoint
<1>2. CASE caller = w
  <2>1. WP!CallEnds /\ caller' = None
    BY <1>2, SameWalk DEF Abandon
  <2>2. WP!WalkInv'
    BY <1>1, <2>1, WalkAssumed, WP!CallEndsKeeps DEF WalkHolds
  <2>3. WP!StatusOfWalk'
    BY <1>1 DEF WalkHolds, WP!CourseInv, WP!StatusOfWalk, WP!Months
  <2>4. WP!CourseInv'
    BY <1>1, <2>1, <2>3, WalkAssumed, WP!CallEndsOnCourse DEF WalkHolds
  <2>5. calling' = FALSE
    BY <2>1 DEF WP!CallEnds
  <2> QED
    BY <1>1, <2>1, <2>2, <2>4, <2>5 DEF WalkHolds, WP!CallAdvances, RowIsLocked
<1>3. CASE caller # w
  <2>1. UNCHANGED <<walk, windows, calling, collected, pages, caller>>
    BY <1>3 DEF Abandon
  <2>2. WalkHolds'
    BY <1>1, <2>1, WalkStays DEF checkpoint, walking
  <2> QED
    BY <1>1, <1>3, <2>1, <2>2 DEF RowIsLocked
<1> QED
  BY <1>2, <1>3

\* The handler's steps do not end a command.
LEMMA HandlerStays ==
  ASSUME SafeInv, NEW w \in Worker,
         (\E how \in {"result", "retryable", "fatal"} : Handled(w, how)) \/ Crash(w)
  PROVE  /\ Next /\ UNCHANGED status
         /\ \A v \in Worker : v # w /\ pc[v] = "working" => pc'[v] = "working" /\ held'[v] = held[v]
<1>1. Next /\ UNCHANGED status
  BY DEF Next, Handled, Crash
<1>2. \A v \in Worker : v # w /\ pc[v] = "working" => pc'[v] = "working" /\ held'[v] = held[v]
  BY DEF Handled, Crash, Release, SafeInv, TypeOK
<1> QED
  BY <1>1, <1>2

\* A commit is the end of a handler.
LEMMA CommitEndsHandler ==
  ASSUME DatedInv, NEW w \in Worker, CommitWalk(w)
  PROVE  Handled(w, "result") \/ (faults < MaxFaults /\ Handled(w, "retryable"))
<1>1. pc[w] = "working"
  BY NoneAssumption DEF CommitWalk, DatedInv, RowIsLocked
<1>2. CASE Handled(w, "result")
  BY <1>2
<1>3. CASE /\ faults < MaxFaults /\ pc' = [pc EXCEPT ![w] = "ending"]
           /\ outcome' = [outcome EXCEPT ![w] = "retryable"]
           /\ UNCHANGED <<rows, held, ticket, faults>>
  BY <1>1, <1>3 DEF Handled
<1> QED
  BY <1>2, <1>3 DEF CommitWalk

\* Seen from the queue alone, every step is one of Commands.
LEMMA DatedStepsQueue ==
  ASSUME DatedInv, DatedNext
  PROVE  [Next]_queue
<1>1. SafeInv
  BY DEF DatedInv
<1>2. CASE SubmitRun
  BY <1>2, FirstAssumption DEF SubmitRun, Next
<1>3. CASE QueueStep
  BY <1>1, <1>3, QueueStays
<1>4. CASE WalkPage \/ (Walk!DayPasses /\ UNCHANGED <<queue, last, advanced, caller>>)
  BY <1>4 DEF WalkPage
<1>5. ASSUME NEW c \in Continuations, Continue(c) PROVE [Next]_queue
  BY <1>5 DEF Continue, Continuations, Next
<1>6. ASSUME NEW w \in Worker, AnswerAtOnce(w) \/ CommitWalk(w) \/ AdvanceFails(w) \/ CrashAtWork(w)
      PROVE  [Next]_queue
  BY <1>1, <1>6, CommitEndsHandler, HandlerStays DEF AnswerAtOnce, AdvanceFails, CrashAtWork
<1>7. ASSUME NEW w \in Worker, EnterWalk(w) PROVE [Next]_queue
  BY <1>7 DEF EnterWalk
<1> QED
  BY <1>2, <1>3, <1>4, <1>5, <1>6, <1>7 DEF DatedNext

(***************************************************************************)
(* The invariant is inductive: one lemma for each kind of step.            *)
(***************************************************************************)
\* The middleware submits the run: before, nothing was there.
LEMMA SubmitStays ==
  ASSUME DatedInv, SubmitRun
  PROVE  WalkHolds' /\ RowIsLocked' /\ RunFollowsCommands'
<1>1. /\ status[First] = "absent" /\ status' = [status EXCEPT ![First] = "queued"]
      /\ run' = "ready" /\ UNCHANGED <<checkpoint, walking, loops>>
  BY DEF SubmitRun, Submit
<1>2. run = "absent" /\ saved = WP!Start /\ \A c \in Command : status[c] = "absent"
  BY <1>1 DEF DatedInv, RunFollowsCommands
<1>3. ~calling
  BY <1>2 DEF DatedInv, WalkHolds, WP!CourseInv, WP!CallOnCourse
<1>4. WalkHolds'
  BY <1>1, <1>2, <1>3, WalkStays DEF DatedInv
<1>5. RowIsLocked'
  BY <1>1 DEF DatedInv, RowIsLocked, checkpoint, walking
<1>6. status'[First] = "queued" /\ \A c \in Command : status'[c] \in {"absent", "queued"}
  BY <1>1, <1>2, FirstAssumption DEF DatedInv, SafeInv, TypeOK
<1> QED
  BY <1>4, <1>5, <1>6 DEF RunFollowsCommands

\* The client continues it: the row is not locked.
LEMMA ContinueStays ==
  ASSUME DatedInv, NEW c \in Continuations, Continue(c)
  PROVE  WalkHolds' /\ RowIsLocked' /\ RunFollowsCommands'
<1>1. /\ c \in Command /\ c # First /\ run # "absent" /\ run # "failed"
      /\ status' = [status EXCEPT ![c] = "queued"] /\ UNCHANGED <<run, checkpoint, walking, loops>>
  BY DEF Continue, Submit, Continuations
<1>2. WalkHolds'
  BY <1>1, WalkStays DEF DatedInv
<1>3. RowIsLocked'
  BY <1>1 DEF DatedInv, RowIsLocked, checkpoint, walking
<1>4. status'[First] = status[First] /\ \A k \in Command : status'[k] = "failed" => status[k] = "failed"
  BY <1>1, FirstAssumption DEF DatedInv, SafeInv, TypeOK
<1> QED
  BY <1>1, <1>2, <1>3, <1>4 DEF DatedInv, RunFollowsCommands

\* The loops claim and end commands; a command that fails fails the run.
LEMMA QueueStepStays ==
  ASSUME DatedInv, QueueStep
  PROVE  WalkHolds' /\ RowIsLocked' /\ RunFollowsCommands'
<1>1. FailRun /\ UNCHANGED <<checkpoint, walking>>
  BY DEF QueueStep
<1>2. SafeInv
  BY DEF DatedInv
<1>3. /\ \A v \in Worker : pc[v] = "working" => pc'[v] = "working" /\ held'[v] = held[v]
      /\ \A c \in Command : status[c] = "failed" => status'[c] = "failed"
      /\ \A c \in Command : status'[c] = "absent" => status[c] = "absent"
      /\ (\A c \in Command : status[c] = "absent") => UNCHANGED status
  BY <1>2, QueueStays
<1>4. WalkHolds'
  BY <1>1, WalkStays DEF DatedInv, RowIsLocked, FailRun
<1>5. RowIsLocked'
  BY <1>1, <1>3 DEF DatedInv, RowIsLocked, checkpoint, walking
<1>6. (\E c \in Command : status'[c] = "failed") => run' = "failed"
  BY <1>1 DEF DatedInv, RunFollowsCommands, FailRun, FailsCommand
<1>7. ASSUME status'[First] = "absent"
      PROVE  run' = "absent" /\ saved' = WP!Start /\ \A c \in Command : status'[c] = "absent"
  <2>1. run = "absent" /\ saved = WP!Start /\ (\A c \in Command : status[c] = "absent") /\ UNCHANGED status
    BY <1>3, <1>7, FirstAssumption DEF DatedInv, RunFollowsCommands
  <2>2. ~FailsCommand
    BY <2>1 DEF FailsCommand
  <2> QED
    BY <1>1, <2>1, <2>2 DEF FailRun, checkpoint
<1> QED
  BY <1>4, <1>5, <1>6, <1>7 DEF RunFollowsCommands

\* A call that has not moved the checkpoint before takes the row.
LEMMA EnterWalkStays ==
  ASSUME DatedInv, NEW w \in Worker, EnterWalk(w)
  PROVE  WalkHolds' /\ RowIsLocked' /\ RunFollowsCommands'
<1>1. /\ pc[w] = "working" /\ last # held[w] /\ caller' = w
      /\ UNCHANGED <<queue, last, advanced>>
  BY DEF EnterWalk, Replays
<1>2. PICK day : Walk!Enter(day)
  BY DEF EnterWalk, Walk!Begin
<1>3. WP!Enter(day)
  BY <1>2, SameWalk
<1>4. WalkHolds'
  BY <1>3, WalkAssumed, WP!EnterKeeps, WP!EnterOnCourse, WP!EnterAdvances DEF DatedInv, WalkHolds
<1>5. calling' /\ UNCHANGED <<saved, run>>
  BY <1>3 DEF WP!Enter
<1>6. RowIsLocked'
  BY <1>1, <1>5, NoneAssumption DEF RowIsLocked
<1> QED
  BY <1>1, <1>4, <1>5, <1>6 DEF DatedInv, RunFollowsCommands

\* It asks for its pages.
LEMMA WalkPageStays ==
  ASSUME DatedInv, WalkPage
  PROVE  WalkHolds' /\ RowIsLocked' /\ RunFollowsCommands'
<1>1. PICK p \in Walk!Fresh, hasNext \in BOOLEAN : Walk!Page(p, hasNext)
  BY DEF WalkPage
<1>2. p \in WP!Fresh /\ WP!Page(p, hasNext)
  BY <1>1, SameWalk
<1>3. WalkHolds'
  BY <1>2, WalkAssumed, WP!PageKeeps, WP!PageOnCourse, WP!PageAdvances DEF DatedInv, WalkHolds
<1>4. UNCHANGED <<queue, last, caller, calling, saved, run>>
  BY <1>2 DEF WalkPage, WP!Page
<1> QED
  BY <1>3, <1>4 DEF DatedInv, RowIsLocked, RunFollowsCommands

\* Its commit gives the row back; the run was ready and had no failed command.
LEMMA CommitStays ==
  ASSUME DatedInv, NEW w \in Worker, CommitWalk(w)
  PROVE  WalkHolds' /\ RowIsLocked' /\ RunFollowsCommands'
<1>1. /\ WP!Commit /\ caller = w /\ caller' = None /\ UNCHANGED status
  BY SameWalk DEF CommitWalk, Handled
<1>2. calling' = FALSE /\ calling /\ run = "ready"
  BY <1>1 DEF WP!Commit, WP!CallEnds, DatedInv, WalkHolds, WP!CourseInv, WP!CallOnCourse
<1>3. WalkHolds'
  <2>1. WP!WalkInv' /\ WP!CourseInv'
    BY <1>1, WalkAssumed, WP!CommitKeeps, WP!CommitOnCourse DEF DatedInv, WalkHolds
  <2> QED
    BY <1>2, <2>1 DEF WalkHolds, WP!CallAdvances
<1>4. RowIsLocked'
  BY <1>1, <1>2 DEF RowIsLocked
<1>5. RunFollowsCommands'
  BY <1>1, <1>2 DEF DatedInv, RunFollowsCommands
<1> QED
  BY <1>3, <1>4, <1>5

\* What the other steps of a handler do to the run: nothing.
LEMMA HandlerLeavesRun ==
  ASSUME DatedInv, NEW w \in Worker, AnswerAtOnce(w) \/ AdvanceFails(w) \/ CrashAtWork(w)
  PROVE  WalkHolds' /\ RowIsLocked' /\ RunFollowsCommands'
<1>1. SafeInv
  BY DEF DatedInv
<1>2. (\E how \in {"result", "retryable", "fatal"} : Handled(w, how)) \/ Crash(w)
  BY DEF AnswerAtOnce, AdvanceFails, CrashAtWork
<1>3. /\ UNCHANGED status
      /\ \A v \in Worker : v # w /\ pc[v] = "working" => pc'[v] = "working" /\ held'[v] = held[v]
  BY <1>1, <1>2, HandlerStays
<1>4. CASE AnswerAtOnce(w)
  <2>1. caller = None /\ UNCHANGED <<run, checkpoint, walking>>
    BY <1>4 DEF AnswerAtOnce
  <2>2. WalkHolds'
    BY <2>1, WalkStays DEF DatedInv
  <2> QED
    BY <1>3, <2>1, <2>2 DEF DatedInv, RowIsLocked, RunFollowsCommands, checkpoint, walking
<1>5. CASE Abandon(w)
  <2>1. WalkHolds' /\ RowIsLocked' /\ UNCHANGED <<run, checkpoint>>
    BY <1>3, <1>5, AbandonStays DEF DatedInv
  <2> QED
    BY <1>3, <2>1 DEF DatedInv, RunFollowsCommands, checkpoint
<1> QED
  BY <1>4, <1>5 DEF AdvanceFails, CrashAtWork

\* A day passes, whether the row is locked or not.
LEMMA DayStays ==
  ASSUME DatedInv, Walk!DayPasses, UNCHANGED <<queue, last, advanced, caller>>
  PROVE  WalkHolds' /\ RowIsLocked' /\ RunFollowsCommands'
<1>1. WP!DayPasses
  BY SameWalk
<1>2. UNCHANGED <<stored, criteria, saved, run, refusedOn, walk, windows, calling, collected, pages, delivered>>
  BY <1>1 DEF WP!DayPasses, WP!request, WP!call
<1>3. WP!CourseInv'
  BY <1>1, WalkAssumed, WP!DayOnCourse DEF DatedInv, WalkHolds
<1>4. WP!WalkInv' /\ WP!CallAdvances'
  BY <1>2 DEF DatedInv, WalkHolds, WP!WalkInv, WP!PlaceOf, WP!CallAdvances, WP!Months
<1>5. RowIsLocked' /\ RunFollowsCommands'
  BY <1>2 DEF DatedInv, RowIsLocked, RunFollowsCommands
<1> QED
  BY <1>3, <1>4, <1>5 DEF WalkHolds

\* DatedInv is inductive.
LEMMA DatedStep == DatedInv /\ [DatedNext]_everything => DatedInv'
<1> SUFFICES ASSUME DatedInv, [DatedNext]_everything PROVE DatedInv'
  OBVIOUS
<1>1. CASE DatedNext
  <2>1. SafeInv'
    BY <1>1, DatedStepsQueue, SafeNext DEF DatedInv
  <2>2. WalkHolds' /\ RowIsLocked' /\ RunFollowsCommands'
    BY <1>1, SubmitStays, ContinueStays, QueueStepStays, EnterWalkStays, WalkPageStays, CommitStays,
       HandlerLeavesRun, DayStays DEF DatedNext
  <2> QED
    BY <2>1, <2>2 DEF DatedInv
<1>2. CASE UNCHANGED everything
  <2>1. UNCHANGED <<queue, run, checkpoint, walking>>
    BY <1>2 DEF everything
  <2>2. SafeInv'
    BY <2>1, SafeNext DEF DatedInv
  <2>3. WalkHolds'
    BY <2>1, WalkStays DEF DatedInv
  <2> QED
    BY <2>1, <2>2, <2>3 DEF DatedInv, RowIsLocked, RunFollowsCommands, checkpoint, walking
<1> QED
  BY <1>1, <1>2

\* So it holds always.
LEMMA DatedInvHolds == DatedSpec => []DatedInv
  BY DatedInitHolds, DatedStep, PTL DEF DatedSpec

\* A URL the run has seen is in one job or is pending, and never in two jobs,
\* for any number of workers, commands, URLs and pages, also when attempts and
\* calls overlap, die or lose their acknowledgement.
THEOREM RunScrapesNothingTwice == DatedSpec => []NothingIsScrapedTwice
<1>1. DatedInv => NothingIsScrapedTwice
  <2>1. SUFFICES ASSUME DatedInv PROVE WP!SeenIsInOnePlace
    BY SameWalk DEF NothingIsScrapedTwice
  <2> QED
    BY <2>1 DEF DatedInv, WalkHolds, WP!WalkInv, WP!SeenIsInOnePlace, WP!Pending, WP!PlaceOf, WP!Occurs
<1> QED
  BY <1>1, DatedInvHolds, PTL

(***************************************************************************)
(* SearchRuns has the queue of Commands too.                               *)
(***************************************************************************)
\* SearchRuns has the same queue.
LEMMA SameClaims ==
  /\ Init => Runs!Init
  /\ \A c : Submit(c) => Runs!Submit(c)
  /\ \A c : LeaseExpires(c) => Runs!LeaseExpires(c)
  /\ \A w, c : Claim(w, c) => Runs!Claim(w, c)
  /\ \A w, c : ClaimLost(w, c) => Runs!ClaimLost(w, c)
<1>1. \A w, c : ClaimRow(w, c) => Runs!ClaimRow(w, c)
  BY Zenon DEF ClaimRow, Runs!ClaimRow, Claimable, Runs!Claimable, Exhausted, Runs!Exhausted,
     OwnerAfterClaim, Runs!OwnerAfterClaim
<1>2. \A w, c : Claim(w, c) => Runs!Claim(w, c)
  BY <1>1, Zenon DEF Claim, Runs!Claim
<1>3. \A w, c : ClaimLost(w, c) => Runs!ClaimLost(w, c)
  BY <1>1, Zenon DEF ClaimLost, Runs!ClaimLost, Runs!loops
<1>4. /\ Init => Runs!Init
      /\ \A c : Submit(c) => Runs!Submit(c)
      /\ \A c : LeaseExpires(c) => Runs!LeaseExpires(c)
  BY Zenon DEF Init, Runs!Init, Submit, Runs!Submit, LeaseExpires, Runs!LeaseExpires, Runs!loops
<1> QED
  BY <1>2, <1>3, <1>4

\* How a handler and its command end.
LEMMA SameEnds ==
  /\ \A w, how : Handled(w, how) => Runs!Handled(w, how)
  /\ \A w : Heartbeat(w) => Runs!Heartbeat(w)
  /\ \A w : Complete(w) => Runs!Complete(w)
  /\ \A w : Fail(w) => Runs!Fail(w)
  /\ \A w : Rejected(w) => Runs!Rejected(w)
  /\ \A w : EndAbort(w) => Runs!EndAbort(w)
  /\ \A w : Crash(w) => Runs!Crash(w)
<1>1. /\ \A w : Release(w) <=> Runs!Release(w)
      /\ \A w : HoldsLease(w) <=> Runs!HoldsLease(w)
      /\ \A w : Retries(w) <=> Runs!Retries(w)
  BY Zenon DEF Release, Runs!Release, HoldsLease, Runs!HoldsLease, Retries, Runs!Retries
<1>2. \A w, new : EndRow(w, new) => Runs!EndRow(w, new)
  BY <1>1, Zenon DEF EndRow, Runs!EndRow
<1>3. /\ \A w, how : Handled(w, how) => Runs!Handled(w, how)
      /\ \A w : Heartbeat(w) => Runs!Heartbeat(w)
  BY <1>1, Zenon DEF Handled, Runs!Handled, Heartbeat, Runs!Heartbeat, Runs!rows, Runs!loops
<1>4. /\ \A w : Complete(w) => Runs!Complete(w)
      /\ \A w : Rejected(w) => Runs!Rejected(w)
      /\ \A w : EndAbort(w) => Runs!EndAbort(w)
      /\ \A w : Crash(w) => Runs!Crash(w)
  BY <1>1, <1>2, Zenon
  DEF Complete, Runs!Complete, Rejected, Runs!Rejected, EndAbort, Runs!EndAbort, Crash, Runs!Crash, Runs!rows
<1>5. ASSUME NEW w, Fail(w) PROVE Runs!Fail(w)
  <2>1. (IF Retries(w) THEN "queued" ELSE "failed") = (IF Runs!Retries(w) THEN "queued" ELSE "failed")
    BY <1>1
  <2> QED
    BY <1>1, <1>2, <1>5, <2>1 DEF Fail, Runs!Fail
<1> QED
  BY <1>3, <1>4, <1>5

(***************************************************************************)
(* What a run has left to do.                                              *)
(***************************************************************************)
\* The URLs that are in a job, and a walk that is complete.
InJobs == {u \in Url : delivered[u] > 0}
AllDone == saved.month >= Walk!MonthsTotal /\ saved.pending = <<>>

\* There are finitely many URLs, so the effort of a run is a number.
LEMMA UrlsCount ==
  /\ IsFiniteSet(Url) /\ Cardinality(Url) \in Nat /\ Effort \in Nat \ {0}
  /\ \A S : S \subseteq Url => IsFiniteSet(S) /\ Cardinality(S) \in Nat /\ Cardinality(S) <= Cardinality(Url)
<1>1. IsFiniteSet(Url) /\ Cardinality(Url) \in Nat
  BY WalkAssumption, FS_CardinalityType
<1>2. \A S : S \subseteq Url => IsFiniteSet(S) /\ Cardinality(S) \in Nat /\ Cardinality(S) <= Cardinality(Url)
  BY <1>1, FS_Subset, FS_CardinalityType
<1>3. Effort \in Nat \ {0}
  <2>1. MaxMonths \in Nat
    BY WalkAssumption
  <2> QED
    BY <1>1, <2>1 DEF Effort
<1> QED
  BY <1>1, <1>2, <1>3

\* Something is left until the walk is complete, and never more than all.
LeftFits ==
  /\ WP!Months \in 1..MaxMonths /\ Walk!MonthsTotal = WP!Months
  /\ saved.pages \in Nat /\ Cardinality(InJobs) \in Nat
  /\ Left \in 0..Effort
  /\ Left = 0 <=> AllDone
  /\ ~AllDone => Left = Effort - saved.pages - Cardinality(InJobs)

\* What a run has asked for and handed out leaves some of its effort.
LEMMA EffortIsEnough ==
  ASSUME WalkHolds
  PROVE  /\ WP!Months \in 1..MaxMonths /\ Walk!MonthsTotal = WP!Months
         /\ saved.pages \in Nat /\ saved.pages <= Cardinality(Url) + 2 * MaxMonths
         /\ Cardinality(InJobs) \in Nat
         /\ saved.pages + Cardinality(InJobs) < Effort
<1>1. WP!RequestKept /\ WP!Spent(saved, 0) /\ WP!OnCourse(saved)
  BY DEF WalkHolds, WP!CourseInv
<1>2. Walk!MonthsTotal = WP!Months
  BY <1>1, WalkAssumed, WP!RangeKept, SameWalk
<1>3. WP!Months \in 1..MaxMonths
  BY <1>1, WalkAssumed, WP!RangeCount DEF WP!RequestKept, WP!Months
<1> DEFINE M == WP!Months
           N == Cardinality(Url)
           S == Cardinality(saved.seen)
           D == Cardinality(InJobs)
           e == IF <<>> \in saved.fingerprints THEN 1 ELSE 0
<1>4. saved.month \in 0..M /\ saved.pages \in Nat /\ e \in {0, 1} /\ (e = 1 => saved.month < M)
      /\ saved.pages + 0 <= S + 2 * saved.month + e
  BY <1>1, SameSets DEF WP!OnCourse, WP!Spent
<1>5. N \in Nat /\ S \in Nat /\ S <= N /\ D \in Nat /\ D <= N
  BY <1>1, UrlsCount DEF WP!Spent, InJobs
<1>6. Effort = 2 * (N + MaxMonths) + 1 /\ MaxMonths \in Nat
  BY WalkAssumption DEF Effort
<1>7. WP!Months = M /\ Cardinality(InJobs) = D /\ Cardinality(Url) = N
  OBVIOUS
<1> HIDE DEF M, N, S, D, e
<1> DEFINE m == saved.month
           p == saved.pages
<1>8. m \in 0..M /\ p \in Nat /\ (e = 1 => m < M) /\ p <= S + 2 * m + e /\ M \in 1..MaxMonths
  BY <1>3, <1>4, <1>5, <1>7
<1> HIDE DEF m, p
<1>9. p <= N + 2 * MaxMonths /\ p + D < Effort
  BY <1>4, <1>5, <1>6, <1>8
<1> QED
  BY <1>2, <1>3, <1>4, <1>5, <1>7, <1>9 DEF p

\* So Left is what SearchRuns takes it for.
LEMMA LeftIs ==
  ASSUME WalkHolds
  PROVE  LeftFits
<1> DEFINE p == saved.pages
           D == Cardinality(InJobs)
<1>1. p \in Nat /\ D \in Nat /\ p + D < Effort /\ Effort \in Nat
  BY EffortIsEnough, UrlsCount
<1>2. Left = IF AllDone THEN 0 ELSE Effort - p - D
  BY DEF Left, AllDone, InJobs
<1> HIDE DEF p, D
<1>3. Left \in 0..Effort /\ (Left = 0 <=> AllDone) /\ (~AllDone => Left = Effort - p - D)
  BY <1>1, <1>2
<1>4. WP!Months \in 1..MaxMonths /\ Walk!MonthsTotal = WP!Months
  BY EffortIsEnough
<1> QED
  BY <1>1, <1>3, <1>4 DEF p, D, LeftFits

\* The same after a step.
LEMMA LeftIsNext == WalkHolds' => LeftFits'
<1>1. WalkHolds => LeftFits
  BY LeftIs
<1> QED
  BY <1>1, PTL

\* It changes with the checkpoint only.
LEMMA LeftStays ==
  ASSUME WalkHolds, WalkHolds', UNCHANGED <<criteria, saved, delivered>>
  PROVE  UNCHANGED Left
<1>1. Walk!MonthsTotal = WP!Months /\ Walk!MonthsTotal' = WP!Months'
  BY LeftIs, LeftIsNext DEF LeftFits
<1>2. UNCHANGED WP!Months
  BY DEF WP!Months
<1> QED
  BY <1>1, <1>2 DEF Left

\* A call commits only what it has spent or found: the checkpoint moves on.
LEMMA CommitTakes ==
  ASSUME DatedInv, DatedInv', NEW w \in Worker, CommitWalk(w)
  PROVE  /\ Left - Left' \in 1..Effort /\ Left - Left' <= Left
         /\ run = "ready"
         /\ run' = IF Left = Left - Left' THEN "discovery_complete" ELSE "ready"
<1>1. WP!Commit /\ WalkHolds /\ WalkHolds'
  BY SameWalk DEF CommitWalk, DatedInv
<1>2. run = "ready" /\ calling /\ windows = WP!Walked
  BY <1>1 DEF WP!Commit, WalkHolds, WP!CourseInv, WP!CallOnCourse
<1>3. /\ saved'.pages >= saved.pages
      /\ \A u \in Url : delivered'[u] >= delivered[u]
      /\ saved'.pages > saved.pages \/ \E u \in Url : delivered[u] = 0 /\ delivered'[u] > 0
  BY <1>1, WalkAssumed, WP!CommitAdvances DEF WalkHolds
<1>4. /\ UNCHANGED <<criteria, stored>>
      /\ saved'.month = walk.month /\ saved'.pending = walk.pending
      /\ run' = IF WP!AllWalked(walk) THEN "discovery_complete" ELSE "ready"
  BY <1>1 DEF WP!Commit, WP!request, WalkHolds, WP!WalkInv, WP!Fields
<1>5. Len(windows) = WP!Months
  BY <1>1, <1>2, WalkAssumed, WP!RangeKept DEF WalkHolds, WP!CourseInv
<1>6. Walk!MonthsTotal = WP!Months /\ Walk!MonthsTotal' = WP!Months' /\ UNCHANGED WP!Months
  BY <1>1, <1>4, LeftIs, LeftIsNext DEF LeftFits, WP!Months
<1>7. ~AllDone
  <2>1. saved.month < WP!Months \/ saved.pending # <<>>
    BY <1>1, <1>2 DEF WalkHolds, WP!CourseInv, WP!StatusOfWalk
  <2>2. saved.month \in Nat /\ WP!Months \in Nat
    BY <1>1, LeftIs DEF LeftFits, WalkHolds, WP!CourseInv, WP!OnCourse
  <2> QED
    BY <1>6, <2>1, <2>2 DEF AllDone
<1>8. AllDone' <=> WP!AllWalked(walk)
  BY <1>4, <1>5, <1>6 DEF AllDone, WP!AllWalked
<1>9. /\ Left \in 1..Effort /\ Left = Effort - saved.pages - Cardinality(InJobs)
      /\ saved.pages \in Nat /\ Cardinality(InJobs) \in Nat
  BY <1>1, <1>7, LeftIs DEF LeftFits
<1>10. /\ Left' \in 0..Effort /\ (Left' = 0 <=> AllDone')
       /\ ~AllDone' => Left' = Effort - saved'.pages - Cardinality(InJobs')
       /\ saved'.pages \in Nat /\ Cardinality(InJobs') \in Nat
  BY <1>1, LeftIsNext DEF LeftFits, Effort
<1>11. /\ Cardinality(InJobs) <= Cardinality(InJobs')
       /\ saved'.pages > saved.pages \/ Cardinality(InJobs) < Cardinality(InJobs')
  <2>1. delivered \in [Url -> Nat] /\ delivered' \in [Url -> Nat]
    BY <1>1 DEF WalkHolds, WP!WalkInv
  <2>2. InJobs \subseteq InJobs' /\ IsFiniteSet(InJobs')
    BY <1>3, <2>1, UrlsCount DEF InJobs
  <2>3. saved'.pages > saved.pages \/ InJobs # InJobs'
    BY <1>3, <2>1 DEF InJobs
  <2>4. InJobs # InJobs' => Cardinality(InJobs) < Cardinality(InJobs')
    BY <1>9, <1>10, <2>2, FS_Subset
  <2> QED
    BY <1>9, <1>10, <2>2, <2>3, <2>4, FS_Subset
<1>12. Left - Left' \in 1..Effort /\ Left - Left' <= Left /\ (Left = Left - Left' <=> Left' = 0)
  <2> DEFINE p == saved.pages
             q == saved'.pages
             D == Cardinality(InJobs)
             E == Cardinality(InJobs')
             a == Left
             b == Left'
  <2>1. /\ p \in Nat /\ q \in Nat /\ D \in Nat /\ E \in Nat /\ Effort \in Nat
        /\ a \in 1..Effort /\ a = Effort - p - D /\ b \in 0..Effort
        /\ b = 0 \/ b = Effort - q - E
        /\ q >= p /\ E >= D /\ (q > p \/ E > D)
    BY <1>3, <1>9, <1>10, <1>11, UrlsCount
  <2> HIDE DEF p, q, D, E, a, b
  <2>2. a - b \in 1..Effort /\ a - b <= a /\ (a = a - b <=> b = 0)
    BY <2>1
  <2> QED
    BY <2>2 DEF a, b
<1> QED
  BY <1>2, <1>4, <1>8, <1>10, <1>12

(***************************************************************************)
(* Every step is a step of SearchRuns: a claim, an answer and the end of a *)
(* handler is its own, a commit is a whole advance, and the rest of the    *)
(* walk is not seen.                                                       *)
(***************************************************************************)
\* A step of SearchRuns, or none that it shows.
SeenAsRuns == [Runs!RunNext]_(Runs!everything)

\* Everything is left to do when the run is submitted: it has a month.
LEMMA InitImplements == DatedInit => Runs!RunInit
<1> SUFFICES ASSUME DatedInit PROVE Runs!RunInit
  OBVIOUS
<1>1. Init /\ run = "absent" /\ last = None /\ advanced = [c \in Command |-> 0] /\ WP!Submitted
  BY SameWalk DEF DatedInit
<1>2. WalkHolds
  BY DatedInitHolds DEF DatedInv
<1>3. saved = WP!Start /\ \A u \in Url : delivered[u] = 0
  BY <1>1 DEF WP!Submitted
<1>4. saved.month = 0 /\ saved.pages = 0 /\ InJobs = {}
  BY <1>3 DEF WP!Start, InJobs
<1>5. ~AllDone
  BY <1>2, <1>4, LeftIs DEF LeftFits, AllDone
<1>6. Left = Effort
  <2>1. Cardinality({}) = 0 /\ Effort \in Nat
    BY FS_EmptySet, UrlsCount
  <2> QED
    BY <1>2, <1>4, <1>5, <2>1, LeftIs DEF LeftFits
<1> QED
  BY <1>1, <1>6, SameClaims DEF Runs!RunInit

\* A step that leaves the checkpoint alone leaves as much to do.
LEMMA CheckpointKept ==
  ASSUME DatedInv, DatedInv', UNCHANGED <<criteria, checkpoint>>
  PROVE  UNCHANGED Runs!checkpoint
  BY LeftStays DEF DatedInv, checkpoint, Runs!checkpoint

\* The middleware submits the run.
LEMMA SubmitImplements ==
  ASSUME DatedInv, DatedInv', SubmitRun
  PROVE  SeenAsRuns
<1>1. UNCHANGED Runs!checkpoint
  BY CheckpointKept DEF SubmitRun, walking
<1> QED
  BY <1>1, SameClaims DEF SubmitRun, Runs!SubmitRun, Runs!RunNext, SeenAsRuns

\* The client continues it.
LEMMA ContinueImplements ==
  ASSUME DatedInv, DatedInv', NEW c \in Continuations, Continue(c)
  PROVE  SeenAsRuns
<1>1. UNCHANGED Runs!checkpoint
  BY CheckpointKept DEF Continue, walking
<1>2. c \in Runs!Continuations /\ Runs!NoActiveContinuation
  BY DEF Continue, Continuations, Runs!Continuations, Runs!NoActiveContinuation
<1>3. Runs!Continue(c)
  BY <1>1, <1>2, SameClaims DEF Continue, Runs!Continue
<1> QED
  BY <1>2, <1>3 DEF Runs!RunNext, SeenAsRuns

\* The run has failed with the command whose failure it is told of.
LEMMA ClaimFailsRun ==
  ASSUME DatedInv, FailRun, \A c \in Command : status[c] = "failed" => status'[c] = "failed"
  PROVE  Runs!FailRun(Runs!FailedAfter)
  BY DEF DatedInv, RunFollowsCommands, FailRun, FailsCommand, Runs!FailRun, Runs!FailedAfter

\* FailCommand fails the run of the one command it fails.
LEMMA FailFailsRun ==
  ASSUME DatedInv, NEW w \in Worker, Fail(w), FailRun
  PROVE  Runs!FailRun(Runs!FailedAfter \cap {held[w]})
<1>1. /\ held[w] \in Command /\ status \in [Command -> {"absent", "queued", "running"} \cup Ended]
      /\ status[held[w]] = "running"
      /\ \E new : status' = [status EXCEPT ![held[w]] = new]
  BY NoneAssumption DEF DatedInv, SafeInv, TypeOK, LeaseIffRunning, Fail, EndRow, HoldsLease
<1>2. FailsCommand <=> status'[held[w]] = "failed"
  BY <1>1 DEF FailsCommand
<1>3. FailsCommand <=> Runs!FailedAfter \cap {held[w]} # {}
  BY <1>1, <1>2 DEF Runs!FailedAfter
<1> QED
  BY <1>3 DEF FailRun, Runs!FailRun

\* The steps of the loops are those of SearchRuns: no other than a claim or the
\* end of an attempt fails a command.
LEMMA QueueImplements ==
  ASSUME DatedInv, DatedInv', QueueStep
  PROVE  SeenAsRuns
<1>1. FailRun /\ UNCHANGED <<checkpoint, walking>> /\ SafeInv
  BY DEF QueueStep, DatedInv
<1>2. UNCHANGED Runs!checkpoint
  BY <1>1, CheckpointKept DEF walking
<1>3. ASSUME NEW w \in Worker, NEW c \in Command, Claim(w, c) \/ ClaimLost(w, c)
      PROVE  Runs!RunClaim(w, c) \/ Runs!RunClaimLost(w, c)
  BY <1>1, <1>2, <1>3, QueueStays, ClaimFailsRun, SameClaims DEF Runs!RunClaim, Runs!RunClaimLost
<1>4. ASSUME NEW w \in Worker, Fail(w) PROVE Runs!RunFail(w)
  BY <1>1, <1>2, <1>4, FailFailsRun, SameEnds DEF Runs!RunFail
<1>5. ASSUME NEW w \in Worker, Heartbeat(w) \/ Complete(w) \/ Rejected(w) \/ EndAbort(w)
      PROVE  Runs!Rest
  <2>1. ~FailsCommand
    <3>1. CASE Complete(w)
      BY <1>1, <3>1 DEF Complete, EndRow, FailsCommand, SafeInv, TypeOK
    <3>2. CASE Heartbeat(w) \/ Rejected(w) \/ EndAbort(w)
      BY <3>2 DEF Heartbeat, Rejected, EndAbort, FailsCommand
    <3> QED
      BY <1>5, <3>1, <3>2
  <2>2. UNCHANGED run
    BY <1>1, <2>1 DEF FailRun
  <2> QED
    BY <1>2, <1>5, <2>2, SameEnds DEF Runs!Rest
<1>6. ASSUME NEW c \in Command, LeaseExpires(c) PROVE Runs!Rest
  <2>1. ~FailsCommand
    BY <1>6 DEF LeaseExpires, FailsCommand
  <2> QED
    BY <1>1, <1>2, <1>6, <2>1, SameClaims DEF FailRun, Runs!Rest
<1> QED
  BY <1>3, <1>4, <1>5, <1>6 DEF QueueStep, Runs!RunNext, SeenAsRuns

\* An answer that moves nothing.
LEMMA AnswerImplements ==
  ASSUME DatedInv, DatedInv', NEW w \in Worker, AnswerAtOnce(w)
  PROVE  SeenAsRuns
<1>1. UNCHANGED Runs!checkpoint /\ UNCHANGED run
  BY CheckpointKept DEF AnswerAtOnce, walking
<1>2. Runs!Replay(w) \/ Runs!AnswerComplete(w) \/ Runs!RefuseFailed(w)
  BY <1>1, SameEnds DEF AnswerAtOnce, Replays, Runs!Replays, Runs!Open, Runs!Refused,
     Runs!Replay, Runs!AnswerComplete, Runs!RefuseFailed
<1> QED
  BY <1>2 DEF Runs!RunNext, SeenAsRuns

\* What a call does before its commit is not seen.
LEMMA WalkImplements ==
  ASSUME DatedInv, DatedInv',
         \/ \E w \in Worker : EnterWalk(w)
         \/ WalkPage
         \/ Walk!DayPasses /\ UNCHANGED <<queue, last, advanced, caller>>
  PROVE  SeenAsRuns
<1>1. UNCHANGED <<queue, run, last, advanced, criteria, saved, delivered>>
  BY SameWalk DEF EnterWalk, WalkPage, Walk!Begin, Walk!Enter, Walk!Page, Walk!DayPasses, Walk!request
<1>2. UNCHANGED Left
  BY <1>1, LeftStays DEF DatedInv
<1> QED
  BY <1>1, <1>2 DEF SeenAsRuns, Runs!everything, Runs!queue, Runs!rows, Runs!loops, Runs!checkpoint

\* The commit is the whole advance, whether it is acknowledged or not.
LEMMA CommitImplements ==
  ASSUME DatedInv, DatedInv', NEW w \in Worker, CommitWalk(w)
  PROVE  SeenAsRuns
<1> DEFINE k == Left - Left'
<1>1. /\ k \in 1..Effort /\ k <= Left /\ run = "ready"
      /\ run' = IF Left = k THEN "discovery_complete" ELSE "ready"
  BY CommitTakes
<1>2. /\ pc[w] = "working" /\ last # held[w]
      /\ last' = held[w] /\ advanced' = [advanced EXCEPT ![held[w]] = @ + 1]
  BY NoneAssumption DEF CommitWalk, DatedInv, RowIsLocked
<1>3. Left' = Left - k
  <2>1. Left \in Nat /\ Left' \in Nat
    <3>1. Left \in 0..Effort /\ Left' \in 0..Effort'
      BY LeftIs, LeftIsNext DEF LeftFits, DatedInv
    <3> QED
      BY <3>1
  <2>2. \A a, b \in Nat : b = a - (a - b)
    OBVIOUS
  <2> QED
    BY <2>1, <2>2, Zenon
<1> HIDE DEF k
<1>4. Runs!MoveCheckpoint(w, k)
  BY <1>1, <1>2, <1>3 DEF Runs!MoveCheckpoint, Runs!Replays, Runs!Open, Runs!Refused
<1>5. Runs!Handled(w, "result") \/ (faults < MaxFaults /\ Runs!Handled(w, "retryable"))
  BY CommitEndsHandler, SameEnds
<1>6. Runs!Advance(w, k) \/ Runs!AdvanceLost(w, k)
  BY <1>4, <1>5 DEF Runs!Advance, Runs!AdvanceLost
<1> QED
  BY <1>1, <1>6 DEF Runs!RunNext, SeenAsRuns

\* A call that fails, or dies, has done nothing.
LEMMA AbandonImplements ==
  ASSUME DatedInv, DatedInv', NEW w \in Worker, AdvanceFails(w) \/ CrashAtWork(w)
  PROVE  SeenAsRuns
<1>1. UNCHANGED <<run, checkpoint, criteria>>
  BY DEF AdvanceFails, CrashAtWork, Abandon
<1>2. UNCHANGED Runs!checkpoint
  BY <1>1, CheckpointKept
<1>3. ASSUME AdvanceFails(w) PROVE \E how \in {"retryable", "fatal"} : Runs!AdvanceFails(w, how)
  BY <1>1, <1>2, <1>3, SameEnds DEF AdvanceFails, Runs!AdvanceFails
<1>4. ASSUME CrashAtWork(w) PROVE Runs!Rest
  BY <1>1, <1>2, <1>4, SameEnds DEF CrashAtWork, Runs!Rest
<1> QED
  BY <1>3, <1>4 DEF Runs!RunNext, SeenAsRuns

\* Every step is one of SearchRuns, or a stutter.
LEMMA StepImplements ==
  ASSUME DatedInv, DatedInv', [DatedNext]_everything
  PROVE  SeenAsRuns
<1>1. CASE DatedNext
  BY <1>1, SubmitImplements, ContinueImplements, QueueImplements, AnswerImplements, WalkImplements,
     CommitImplements, AbandonImplements DEF DatedNext
<1>2. CASE UNCHANGED everything
  <2>1. UNCHANGED <<queue, run, checkpoint, criteria>>
    BY <1>2 DEF everything, walking
  <2> QED
    BY <2>1, CheckpointKept DEF SeenAsRuns, Runs!everything, Runs!queue, Runs!rows, Runs!loops
<1> QED
  BY <1>1, <1>2

\* Seen from outside, every command of a run advances it in one step and never
\* works on a settled run, although an advance asks for several pages, days
\* pass, leases lapse and workers die meanwhile: what is proved of SearchRuns
\* holds of the search as a whole.
THEOREM AdvanceIsOneStep == DatedSpec => ImplementsSearchRuns
<1>1. DatedInv /\ DatedInv' /\ [DatedNext]_everything => SeenAsRuns
  BY StepImplements
<1>2. DatedSpec => [][DatedInv /\ DatedInv' /\ [DatedNext]_everything]_everything
  BY DatedInvHolds, PTL DEF DatedSpec
<1> QED
  BY <1>1, InitImplements, DatedInvHolds, PTL DEF DatedSpec, ImplementsSearchRuns, Runs!RunSpec, SeenAsRuns

(***************************************************************************)
(* What is proved of SearchRuns holds of the search with its walk: the     *)
(* theorems of SearchRunsProofs, carried over by the refinement.           *)
(***************************************************************************)
\* The theorems about SearchRuns.
RP == INSTANCE SearchRunsProofs WITH Work <- Effort, left <- Left

\* The two instances of SearchRuns have the same queue,
LEMMA SameQueue ==
  /\ Runs!Init <=> RP!Init
  /\ \A c : (Runs!Submit(c) <=> RP!Submit(c)) /\ (Runs!LeaseExpires(c) <=> RP!LeaseExpires(c))
  /\ \A w, c : (Runs!Claim(w, c) <=> RP!Claim(w, c)) /\ (Runs!ClaimLost(w, c) <=> RP!ClaimLost(w, c))
  /\ \A w, how : Runs!Handled(w, how) <=> RP!Handled(w, how)
  /\ \A w : /\ (Runs!Heartbeat(w) <=> RP!Heartbeat(w)) /\ (Runs!Complete(w) <=> RP!Complete(w))
            /\ (Runs!Fail(w) <=> RP!Fail(w)) /\ (Runs!Rejected(w) <=> RP!Rejected(w))
            /\ (Runs!EndAbort(w) <=> RP!EndAbort(w)) /\ (Runs!Crash(w) <=> RP!Crash(w))
<1>1. \A w, c : Runs!ClaimRow(w, c) <=> RP!ClaimRow(w, c)
  BY Zenon DEF RP!ClaimRow, Runs!ClaimRow, RP!Claimable, Runs!Claimable, RP!Exhausted, Runs!Exhausted,
     RP!OwnerAfterClaim, Runs!OwnerAfterClaim
<1>2. \A w, c : (Runs!Claim(w, c) <=> RP!Claim(w, c)) /\ (Runs!ClaimLost(w, c) <=> RP!ClaimLost(w, c))
  BY <1>1, Zenon DEF RP!Claim, Runs!Claim, RP!ClaimLost, Runs!ClaimLost, Runs!loops, RP!loops
<1>3. /\ \A w : (Runs!Release(w) <=> RP!Release(w)) /\ (Runs!HoldsLease(w) <=> RP!HoldsLease(w))
      /\ \A w : Runs!Retries(w) <=> RP!Retries(w)
  BY Zenon DEF RP!Release, Runs!Release, RP!HoldsLease, Runs!HoldsLease, RP!Retries, Runs!Retries
<1>4. \A w, new : Runs!EndRow(w, new) <=> RP!EndRow(w, new)
  BY <1>3, Zenon DEF RP!EndRow, Runs!EndRow
<1>5. /\ Runs!Init <=> RP!Init
      /\ \A c : (Runs!Submit(c) <=> RP!Submit(c)) /\ (Runs!LeaseExpires(c) <=> RP!LeaseExpires(c))
      /\ \A w, how : Runs!Handled(w, how) <=> RP!Handled(w, how)
  BY Zenon DEF RP!Init, Runs!Init, RP!Submit, Runs!Submit, RP!LeaseExpires, Runs!LeaseExpires,
     RP!Handled, Runs!Handled, Runs!loops, RP!loops, Runs!rows, RP!rows
<1>6. \A w : /\ (Runs!Heartbeat(w) <=> RP!Heartbeat(w)) /\ (Runs!Complete(w) <=> RP!Complete(w))
             /\ (Runs!Rejected(w) <=> RP!Rejected(w))
             /\ (Runs!EndAbort(w) <=> RP!EndAbort(w)) /\ (Runs!Crash(w) <=> RP!Crash(w))
  BY <1>3, <1>4, Zenon
  DEF RP!Heartbeat, Runs!Heartbeat, RP!Complete, Runs!Complete, RP!Rejected, Runs!Rejected,
      RP!EndAbort, Runs!EndAbort, RP!Crash, Runs!Crash, Runs!loops, RP!loops, Runs!rows, RP!rows
<1>7. \A w : Runs!Fail(w) <=> RP!Fail(w)
  <2>1. \A w : (IF Runs!Retries(w) THEN "queued" ELSE "failed") = (IF RP!Retries(w) THEN "queued" ELSE "failed")
    BY <1>3
  <2> QED
    BY <1>3, <1>4, <2>1 DEF RP!Fail, Runs!Fail
<1> QED
  BY <1>2, <1>5, <1>6, <1>7

\* and their steps are the same.
LEMMA SameRuns ==
  /\ Runs!RunInit => RP!RunInit
  /\ [Runs!RunNext]_(Runs!everything) => [RP!RunNext]_(RP!everything)
<1> USE DEF Runs!checkpoint, RP!checkpoint
<1>1. /\ Runs!Continuations = RP!Continuations /\ Runs!FailedAfter = RP!FailedAfter
      /\ Runs!NoActiveContinuation <=> RP!NoActiveContinuation
      /\ Runs!Open <=> RP!Open
      /\ Runs!Refused <=> RP!Refused
  BY Zenon DEF RP!Continuations, Runs!Continuations, RP!FailedAfter, Runs!FailedAfter,
     RP!NoActiveContinuation, Runs!NoActiveContinuation, RP!Open, Runs!Open, RP!Refused, Runs!Refused
<1>2. (\A w : Runs!Replays(w) <=> RP!Replays(w)) /\ (\A S : Runs!FailRun(S) <=> RP!FailRun(S))
  BY Zenon DEF RP!Replays, Runs!Replays, RP!FailRun, Runs!FailRun
<1>3. \A w, k : Runs!MoveCheckpoint(w, k) => RP!MoveCheckpoint(w, k)
  BY <1>1, <1>2, Zenon DEF RP!MoveCheckpoint, Runs!MoveCheckpoint
<1>4. /\ Runs!RunInit => RP!RunInit
      /\ Runs!SubmitRun => RP!SubmitRun
      /\ \A c : Runs!Continue(c) => RP!Continue(c)
      /\ Runs!Rest => RP!Rest
  BY SameQueue, <1>1, Zenon DEF RP!RunInit, Runs!RunInit, RP!SubmitRun, Runs!SubmitRun,
     RP!Continue, Runs!Continue, RP!Rest, Runs!Rest
<1>5. /\ \A w, c : Runs!RunClaim(w, c) => RP!RunClaim(w, c)
      /\ \A w, c : Runs!RunClaimLost(w, c) => RP!RunClaimLost(w, c)
      /\ \A w : Runs!RunFail(w) => RP!RunFail(w)
  BY SameQueue, <1>1, <1>2, Zenon DEF RP!RunClaim, Runs!RunClaim, RP!RunClaimLost, Runs!RunClaimLost,
     RP!RunFail, Runs!RunFail
<1>6. \A w : /\ Runs!Replay(w) => RP!Replay(w)
             /\ Runs!AnswerComplete(w) => RP!AnswerComplete(w)
             /\ Runs!RefuseFailed(w) => RP!RefuseFailed(w)
  BY SameQueue, <1>1, <1>2, Zenon DEF RP!Replay, Runs!Replay, RP!AnswerComplete, Runs!AnswerComplete,
     RP!RefuseFailed, Runs!RefuseFailed
<1>7. /\ \A w, k : Runs!Advance(w, k) => RP!Advance(w, k)
      /\ \A w, k : Runs!AdvanceLost(w, k) => RP!AdvanceLost(w, k)
      /\ \A w, how : Runs!AdvanceFails(w, how) => RP!AdvanceFails(w, how)
  BY SameQueue, <1>1, <1>3, Zenon DEF RP!Advance, Runs!Advance, RP!AdvanceLost, Runs!AdvanceLost,
     RP!AdvanceFails, Runs!AdvanceFails
<1>8. Runs!RunNext => RP!RunNext
  BY <1>1, <1>4, <1>5, <1>6, <1>7, Zenon DEF RP!RunNext, Runs!RunNext
<1>9. UNCHANGED Runs!everything => UNCHANGED RP!everything
  BY Zenon DEF RP!everything, Runs!everything, RP!queue, Runs!queue, RP!rows, Runs!rows, RP!loops, Runs!loops
<1> QED
  BY <1>4, <1>8, <1>9

\* SearchRuns assumes nothing of its constants that is not assumed here.
LEMMA RunsAssumed ==
  /\ RP!MaxAttemptsAssumption /\ RP!MaxFaultsAssumption /\ RP!PromptAssumption /\ RP!NoneAssumption
  /\ RP!FirstAssumption /\ RP!WorkAssumption
  BY MaxAttemptsAssumption, MaxFaultsAssumption, PromptAssumption, NoneAssumption, FirstAssumption,
     UrlsCount
  DEF RP!MaxAttemptsAssumption, RP!MaxFaultsAssumption, RP!PromptAssumption, RP!NoneAssumption,
      RP!FirstAssumption, RP!WorkAssumption

\* The refinement again, for the other instance.
LEMMA DatedIsRun == DatedSpec => RP!RunSpec
<1>1. DatedSpec => Runs!RunSpec
  BY AdvanceIsOneStep DEF ImplementsSearchRuns
<1>2. Runs!RunInit => RP!RunInit
  BY SameRuns
<1>3. [Runs!RunNext]_(Runs!everything) => [RP!RunNext]_(RP!everything)
  BY SameRuns
<1> QED
  BY <1>1, <1>2, <1>3, PTL DEF Runs!RunSpec, RP!RunSpec

\* What SearchRuns promises of a run and its commands.
DatedRunIsOrderly ==
  /\ Runs!OneActiveContinuation /\ Runs!RunFailsWithCommand
  /\ Runs!AnsweredCallAdvanced /\ Runs!OnlyOvertakenRepeats

\* Of a run whose calls walk through the provider page by page: two continuations
\* are never active at once, it fails exactly with one of its commands, a call
\* that is answered has done its share, and a call moves the checkpoint twice
\* only if another came in between.
THEOREM DatedRunsAreOrderly == DatedSpec => []DatedRunIsOrderly
<1>1. DatedSpec => []RP!OneActiveContinuation
  BY DatedIsRun, RunsAssumed, RP!ContinuationsAreSerial
<1>2. DatedSpec => []RP!RunFailsWithCommand
  BY DatedIsRun, RunsAssumed, RP!RunFailsWithItsCommand
<1>3. DatedSpec => []RP!AnsweredCallAdvanced
  BY DatedIsRun, RunsAssumed, RP!AnswersAreEarned
<1>4. DatedSpec => []RP!OnlyOvertakenRepeats
  BY DatedIsRun, RunsAssumed, RP!OnlyOvertakenCallsRepeat
<1>5. /\ RP!OneActiveContinuation /\ RP!RunFailsWithCommand
      /\ RP!AnsweredCallAdvanced /\ RP!OnlyOvertakenRepeats
      => DatedRunIsOrderly
  BY SameRuns DEF DatedRunIsOrderly, Runs!OneActiveContinuation, RP!OneActiveContinuation,
     Runs!RunFailsWithCommand, RP!RunFailsWithCommand, Runs!AnsweredCallAdvanced, RP!AnsweredCallAdvanced,
     Runs!OnlyOvertakenRepeats, RP!OnlyOvertakenRepeats, Runs!Continuations, RP!Continuations
<1> QED
  BY <1>1, <1>2, <1>3, <1>4, <1>5, PTL

\* No worker moves the checkpoint of a complete or failed run, although its walk
\* may have begun before.
THEOREM DatedSettledForGood == DatedSpec => Runs!SettledRunIsLeftAlone
<1>1. DatedSpec => RP!SettledRunIsLeftAlone
  BY DatedIsRun, RunsAssumed, RP!SettledForGood
<1>2. [/\ run = "discovery_complete" => UNCHANGED RP!checkpoint
       /\ run = "failed" => UNCHANGED <<run, RP!checkpoint>>]_(RP!everything)
      => [/\ run = "discovery_complete" => UNCHANGED Runs!checkpoint
          /\ run = "failed" => UNCHANGED <<run, Runs!checkpoint>>]_(Runs!everything)
  BY DEF Runs!checkpoint, RP!checkpoint, RP!everything, Runs!everything, RP!queue, Runs!queue,
         RP!rows, Runs!rows, RP!loops, Runs!loops
<1> QED
  BY <1>1, <1>2, PTL DEF Runs!SettledRunIsLeftAlone, RP!SettledRunIsLeftAlone
=============================================================================
