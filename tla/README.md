# Formal models of the article scraper engine

This directory holds TLA+ models of the program in `src/`, TLC configurations
that check them on small instances, and TLAPS proofs that hold for every value
of the constants. Paths below are relative to `src/`; `store.go` is
`internal/store/store.go`, `main.go` is `cmd/worker/main.go`, `search.go` is
`internal/search/search.go`, `fetcher.go` is `internal/fetcher/fetcher.go`,
`models.py` is `src/article_scraper_lab/models.py`, and `gateway` is
`src/article_scraper_lab/postgres_gateway.py`.

`PROJECT.json` maps every definition to the lines it models and lists the runs,
the hazards, the theorems and, for every property, a variant of the code's
definition that breaks it. Definitions that no action uses (`ClaimableForever`,
`OwnerKept`, `RestDropped`, ...) are those variants: slips that would be easy to
make in the code, kept beside the definition they would replace.

## 1. The system

A Python middleware (FastAPI) accepts requests and writes rows to PostgreSQL.
One or more Go worker processes poll the database, do the work and write the
results. There is no other channel: every interaction is a transaction in READ
COMMITTED isolation, and what a process may rely on is what rows, row locks,
unique indexes and leases give it.

| Component | State | Operations | Interacts with | Model |
|---|---|---|---|---|
| item queue | `jobs`, `job_items` | submit (gateway), ClaimItem, HeartbeatItem, FinishItem | `WORKER_COUNT` itemLoop goroutines per process, all with one lease_owner | `ItemQueue` |
| command queue | `commands` | submit, ClaimCommand, Heartbeat, CompleteCommand, FailCommand | one commandLoop per process | `Commands` |
| searches without dates | `jobs` filled late | submit_search, Process, existingJob, discover, fillExistingJob; error exposure in ClaimCommand and FailCommand | command queue, item queue | `PlaceholderJobs` |
| dated searches | `search_runs` | submit_search, continue_search, advance; failing of runs in ClaimCommand and FailCommand | command queue, unique index of migration 003 | `SearchRuns`, in detail `DatedSearch` |
| page walk of a dated search | `search_runs.state_json` | advance, discoverPage, search_progress | provider, calendar, clocks of two machines | `PageWalk` |
| date filters | `search_runs.request_json` | SearchRequest.validate_dates, normalizeDateRange, monthWindows | middleware writes, worker reads, on later days | `DateRange` |
| article dates | `job_items.article_json`, `date_status` | articleTime, ParseArticleTime, classifyDate, _stored_date_report | worker writes, middleware counts | `ArticleDates` |
| domain throttle | `domain_rate_limits` | ReserveDomain | every request of every worker, clocks of several machines | `RateLimiter` |
| page fetcher, robots | none, one call | Fetch, robots, request | throttle, URL policy, servers | `Fetcher` |
| URL policy | none | Validate | resolver | `UrlPolicy` |
| synchronous scrape | a command and a deadline | scrape | command queue | `Commands` (the command only) |
| gateway reads | none | get, search_progress, _stored_date_report; recent, recent_searches, metrics | all tables | `JobReads`, `PageWalk`, `ArticleDates`; the last three not |
| provider client | none | fetchPage | provider | its outcomes, in `PageWalk` and `PlaceholderJobs` |
| extractor but for its dates, routes, configuration, migrator, health, containers | none or their own | | | not modelled (section 8) |

What is hard here:

- **Leases.** A claim is a row with an owner and a deadline. A worker that is
  slow, dead or cut off keeps working after its lease lapsed, while another
  worker has the row. Writes are fenced by `lease_owner`, for commands by a
  process and for items by a process with several goroutines.
- **Lost acknowledgements and crashes.** Every commit may happen without the
  worker learning of it; every worker may die between two statements.
- **Retries.** Attempts are counted at the claim; who decides about the retry,
  and from which read, matters.
- **Effects outside the fence.** The fill of a job, the advance of a run and
  the counters of a job are not protected by the lease.
- **Rollbacks by early return.** ClaimItem and ClaimCommand do housekeeping in
  the transaction they roll back when they find nothing to claim.
- **Locks held for long.** advance keeps the row of a run locked through several
  requests to the provider, longer than the lease of its command may last.
- **Reads in two halves.** get takes a job and its items from two snapshots.
- **Time.** Clocks of several machines in the throttle; days that pass between
  the calls of a search; a worker whose day is behind the middleware's; articles
  whose day depends on a time zone.
- **Names.** A host resolves differently each time it is asked.

What makes each component correct: an item or a command is settled once, its
answer never changes and it does not stay in the queue for ever; a job's
counters agree with its items, also in the response a client gets while they
change; a search gets its items or its error; one
continuation of a run works at a time, and no call searches twice; every URL
found is handed out once and every day of the range is asked for once, together
with the days around it; every article of a report counts once, in the month of its day; no request leaves
without a reservation, validation and robots verdict of its own, nor to an
address other than one approved with the validation of its own URL; and no two
starts reserved on a domain come closer than the delay.

## 2. How a transaction is modelled

A transaction is one action, its commit, wherever it uses nothing it read
before: row locks make later writers wait and evaluate their WHERE clause again
on the new row. Where the code does use an older read, the read is an action of
its own and what was read is a variable:

- `ItemQueue`: `snap` is what ClaimItem's statement sees of counts and leases
  (store.go:188), `plan` what FinishItem decided from its unlocked read of
  `attempts` (store.go:235);
- `RateLimiter`: `seen` is the row of ReserveDomain's SELECT (store.go:138);
- `PlaceholderJobs`: `stage` separates the look at the job, the discovery and
  the fill (search.go:74-115);
- `JobReads`: `row` is the answer to the first SELECT of get (gateway:198);
- `PageWalk`: `walk` is the copy of the checkpoint that a call moves along
  (search.go:372). In `DatedSearch` the transaction of an advance spans many
  steps: `caller` is the worker that has the row of the run locked, and whatever
  reads or writes that row waits for it.

A commit whose acknowledgement is lost is an action (`ClaimLost`, `FillLost`,
`AdvanceLost`) that writes the rows and leaves the worker with an error. A crash
empties the loop of a worker, which starts again with the same WORKER_ID
(config.go derives it from the host name). A lease is `none`, `live` or
`lapsed`; it may lapse at any time, also while its holder works
(`PromptHeartbeats = FALSE`), and a heartbeat may revive it.

## 3. The modules

| Module | Extends | What it holds |
|---|---|---|
| `ItemQueue` | | jobs and their items; goroutines `idle -> claiming -> working -> finishing` |
| `Commands` | | commands; loops `idle -> working -> ending`; the handler's outcome is open |
| `PlaceholderJobs` | `Commands` | the handler of a plain search and its job; the item workers as `ItemClaimed`, `ItemDone` |
| `SearchRuns` | `Commands` | one run, its first command and the continuations; an advance uses up some of `Work` |
| `DateRange` | | calendar, date filters, what either side accepts, canonical request, month windows |
| `PageWalk` | `ArticleDates` | the calls of one run over months and pages; what the client is told |
| `ArticleDates` | `DateRange` | from the texts of a page to the day of an article, its place in the range and its month in the report |
| `DatedSearch` | `Commands`; instances of `PageWalk` and `SearchRuns` | the commands of a run with the walk inside every advance |
| `JobReads` | `ItemQueue` | a client polls a job while the workers are at it |
| `RateLimiter` | | reservations of a domain, as moments in its row |
| `UrlPolicy` | | what Validate accepts, and the normal form of a URL |
| `Fetcher` | `UrlPolicy` | one Fetch: page hops, robots hops, reservations, addresses |
| `*Proofs` | its module, `TLAPS` | theorems, see section 6 |
| `MC_*` | its module | instances for TLC |

Correspondence of the main actions:

| Action | Code |
|---|---|
| `ItemQueue!ClaimBegin`, `ClaimCommit`, `ClaimEmpty` | ClaimItem: snapshot, commit with an item, early return that rolls back |
| `ItemQueue!FinishRead`, `FinishCommit`, `FinishRejected` | FinishItem: the read of attempts, the fenced update and the counters, no row updated |
| `Commands!Claim` with `Exhausted` | ClaimCommand; failing exhausted commands is part of a successful claim only |
| `Commands!Handled` | processCommand's handler returned |
| `Commands!Complete`, `Fail`, `Rejected` | CompleteCommand, FailCommand, RowsAffected = 0 |
| `PlaceholderJobs!ExposeErrors` | the UPDATE of jobs in FailCommand and ClaimCommand |
| `PlaceholderJobs!FillClashes` | UNIQUE (job_id, position) of migration 001 |
| `SearchRuns!Continue` | continue_search: the run's status, the active continuation, the unique index |
| `SearchRuns!Replay`, `AnswerComplete`, `RefuseFailed`, `Advance` | advance, in the order of its early returns |
| `PageWalk!Begin`, `Page`, `Commit`, `Rollback` | advance: normalization and pending URLs; one page; the final transaction; any error |
| `PageWalk!Refuse` | the stored request is not accepted on the worker's day: a fatal error |
| `DatedSearch!AnswerAtOnce`, `EnterWalk`, `WalkPage`, `CommitWalk`, `AdvanceFails`, `CrashAtWork` | advance: an early return; the lock and the walk; a page; the commit; an error or a death in between |
| `DatedSearch!QueueStep` with `FailRun` | ClaimCommand and FailCommand, which write the run of a command they fail |
| `JobReads!SelectJob`, `SelectItems` | the two SELECTs of get |
| `ArticleDates!ClassifyDate`, `DateReport` | classifyDate when an item ends, _stored_date_report when a client asks |
| `RateLimiter!Begin`, `Reserve`, `Abort` | ReserveDomain: SELECT FOR UPDATE, upsert and commit, rollback |
| `Fetcher!Validate`, `Robots*`, `Reserve`, `Redirected`, `Page*` | Fetch, robots and request |

Composition. `PlaceholderJobs` and `SearchRuns` EXTEND `Commands` and conjoin
their own effects to its actions, so whatever is proved of the command queue
holds of searches by the way they are built (`SearchCommandsAreSafe`). `SearchRuns` takes an advance as one step
that uses up some of `Work`. `DatedSearch` puts the walk of `PageWalk` in its
place, page by page and interruptible, and is shown to implement `SearchRuns`
with `Work <- Effort` and `left <- Left`: every URL handed out and every page
asked for brings the run nearer to its end. So the serial continuations, the
answers and the failures of `SearchRuns` hold of the run with its walk, too
(`DatedRunsAreOrderly`).
`JobReads` adds the client to `ItemQueue`.

## 4. The runs

| Run | Instance | States | What it shows |
|---|---|---|---|
| `item_threads` | 2 processes, one with 2 goroutines; a client; 2 items of 1 job; 2 attempts; 1 fault | 916996 | lease and counters stay consistent and results final although siblings share a lease_owner; counts get lost only with an item that fails on its last attempt; no response of get contradicts itself |
| `item_fleet` | 2 processes with 1 goroutine each; 2 items; 2 attempts; 2 faults | 28260 | with one goroutine per worker id no evicted result is stored, requeued items can be claimed, and every item settles or uses up its attempts |
| `item_stale_attempts` | 2 goroutines of 1 process, 1 item, no fault | violation | finding 1 |
| `rate_known` | 3 goroutines, clocks 0 or 2, delays 1 or 3, 3 grants | 9419 | the starts reserved on a known domain keep their delays |
| `rate_first_use` | 2 goroutines, a domain without a row | violation | finding 2 |
| `search_fleet` | 2 processes, 2 searches, 2 attempts, 1 fault, 0 or 1 URL | 136120 | unless attempts overlap, a search's total is its number of items and its failure is shown; attempts that overlap never give a job items twice |
| `search_stuck` | the same with prompt heartbeats, fair | violation | finding 3 |
| `run_fleet` | 2 processes, a run with 3 commands, 3 advances, 2 attempts, 1 fault, fair | 326198 | nothing of an evicted attempt reaches a command, answers are final, commands settle; one continuation at a time; a run fails with its command; settled runs are left alone; only overtaken calls repeat |
| `run_overtaken` | the same with prompt heartbeats | violation | finding 4 |
| `dated_search` | 2 processes, 2 commands of a run over 2 months and 2 days, 2 URLs, 2 attempts, 1 fault | 629248 | calls that die, are evicted or lose their acknowledgement in the middle of a walk scrape nothing twice; the whole implements `SearchRuns` |
| `fetch_hops` | 3 pages on 2 hosts, 6 URLs that each break one rule, 3 addresses of which 2 are public, 2 redirects, all robots settings | 977920 | each hop is validated, cleared and reserved for itself; a connection goes to an address approved with the validation of its own URL; the number of requests is bounded |
| `page_walk` | 3 URLs, pages of up to 3, 11 kinds of request, 29 February and 1 March 2028, a clock that may be a day behind, 1 fault | 115920 | URLs are handed out once, every day of the range asked for with its neighbours in one window and no day outside but as a neighbour, progress truthful, every article of the report in one month; runs end |

Symmetry is used in `search_fleet`, `item_threads` and `dated_search` only, where
no liveness is checked and no definition tells two workers, two searches, two
items, two goroutines of one process or two URLs apart.

**Bounds, and why they are enough.** Two attempts are the least with a retry
and a last attempt; the default of three adds one more of the first kind. Two
workers suffice for an evicted and an evicting one; three goroutines for a
sibling and a stranger. Two items let a job be partly done, and let a claim take
one item while it fails another. One or two faults let a crash or lost
acknowledgement happen at every point and, with leases that lapse freely, be
followed by an eviction. Three grants are needed for the second reservation to
matter to a third. Three commands of a run are the first and two continuations
that may meet. In `page_walk`, two months with a leap day, a year's end and a
range that starts within a month are among the requests; three URLs with
`max_articles` 1 or 2 make a page overflow into `pending` and `pending` outlast
a call; two pages per call let a page limit cut a month. `MaxMonths` is 3 there
(120 in the code), so that requests for more months than allowed occur and are
refused. Its articles are published at the first, a late and the last hour of
days that end a month, in three zones and without one, and reported in UTC and
in the code's default zone, seven hours ahead. In `dated_search` one article per
call and two months make a run outlast a call, so that the continuation meets
the first command's retries with URLs pending. In `fetch_hops` two public
addresses distinguish the one approved for a URL from the one approved for
another URL or at another time, and the third is refused.
Named bounds: `MaxFaults`, `MaxGrants`, `MaxUrls`, `Work`, `PageSize`,
`FirstToday`, `LastToday`, `Time`.

`CHECK_DEADLOCK FALSE` stands where the system really may stop: all commands
ended, all grants used, the fetch done, the run complete.

## 5. Fairness

- Weak fairness of each loop (`Claims \/ Finishes`, `Works`, `SearchWorks`, `RunWorks`): a
  goroutine polls for ever, and what it calls returns, because HTTP requests and
  the calls of the provider carry a timeout (fetcher.go and search.go) and the
  database answers. Faults, crashes and lost acknowledgements have no fairness; the
  bound on them only says that they do not go on for ever.
- Weak fairness of `LeaseExpires`: a lease that nobody renews lies in the past
  after 600 s. A heartbeat may revive a lapsed one, so a lease is not assumed to
  be lost.
- `PageWalk`: weak fairness of the calls, i.e. the client continues its search
  and attempts are made. Days need not pass.
- `Commands` is checked for liveness where it is used: `run_fleet` checks
  `CommandEventuallySettles` of the commands of a run under `RunFairness`.
- `RateLimiter`, `Fetcher`, `DatedSearch` and `JobReads` state no fairness and
  claim no liveness.

Weak fairness of a loop does not promise one particular item to one particular
loop; `ItemEventuallySettles` and `CommandEventuallySettles` need no more, since
submissions are finite and attempts bounded.

## 6. What is proved

All theorems hold for every value of the constants that satisfies the named
ASSUMEs of the module (any finite or infinite sets of workers, commands, hosts,
any number of attempts and faults). The argument is always the same: an
inductive invariant, one proof step per action, temporal steps by PTL.

- **ItemQueueProofs** proves `TypeOK`, `LeaseIffRunning`, `CountsNeverAhead`,
  `CompletedJobIsDone`, `ExactUnlessExhausted` and `TerminalIsFinal` for any assignment of goroutines to
  processes. `CountsNeverAhead` is not inductive: ClaimItem overwrites the
  counters with counts from its snapshot. The invariant adds `SnapshotIsOld`
  (what a snapshot shows as ended is ended still, since results are final) and
  `AbsentTogether` (items exist exactly when their job does). That results are
  final needs `LeaseIffRunning` in turn: FinishItem tests the owner and not the
  status, and only an item that is running has an owner. `ExactUnlessExhausted` is
  inductive beside these: a claim that recounts a job fails one of its items on
  the last attempt, and that item stays failed with its attempts
  (`EndedKeepsAttempts`).
- **ItemQueueProofs** then proves `FenceIsExact` and `QueuedItemCanBeClaimed` of the
  item queue under the hypothesis `OneGoroutineEach` (WORKER_COUNT = 1). The
  invariant adds `RetryIsCurrent`: what FinishItem read of `attempts` is still
  true while the item is its own, because only a claim changes attempts, and a
  claim by anybody else changes the owner. Siblings under one worker id break
  exactly this step, and finding 1 is the consequence.
- **ItemQueueProofs** last proves `AnswerIsConsistent` of `JobReads`. The invariant
  says that a row once read stays `Backed` by the items: results are final
  (`EndedItemStays`), so until the second SELECT there can only be more ended
  items than the row counts, and exactly as many if it said completed.
- **RateLimiterProofs** proves `TypeOK`, `ReservationsSpaced` and that
  `next_allowed_at` never moves back, for domains that have a row. The invariant adds
  `RowIsLastGrant` (the row is the end of the last reservation) and
  `ReadIsCurrent` (whoever holds the row lock has read what the row still says).
- **CommandsProofs** proves `TypeOK`, `LeaseIffRunning`, `FenceIsExact`,
  `QueuedCommandCanBeClaimed` and `EndedIsFinal`. The invariant adds
  `IdleHoldsNothing` and `WaitingCanBeClaimed` (what holds of queued commands
  before they are submitted, too).
- **PlaceholderJobsProofs** carries `FenceIsExact` and `EndedIsFinal` over to
  searches (a lemma: every step is a step of `Commands` or leaves its rows alone)
  and proves all properties of the jobs: `SearchTypeOK`, `FilledOnce`,
  `TotalMatchesItems`, `CompletedSearchIsAnswered`, `FailedSearchExposesError`,
  `CompletedJobCountsAll`. The invariant adds that a search no claim has
  overtaken is running while a worker holds it (`HoldersRun`), that only one
  does (`OneHolder`), that its job is empty from the look to the fill
  (`StillEmpty`), that items are not counted twice (`DoneAreItems`), and that a
  handler that ended with a result left an answer (`ResultAnswers`). `OneHolder`
  is what makes `StillEmpty` survive a fill, and it is exactly what a claim
  after a lapsed lease breaks. `FilledOnce` holds of overlapping attempts, too:
  the unique positions of job_items reject a second fill, and a total is that of
  the items or 0 (`TotalOfItems`).
- **SearchRunsProofs** proves `RunTypeOK`, `OneActiveContinuation`, `RunFailsWithCommand`, `AnsweredCallAdvanced`,
  `OnlyOvertakenRepeats` and `SettledRunIsLeftAlone`. The invariant adds
  `AbsentTogether`, `LastAdvanced` (the checkpoint remembers the command that
  moved it last) and `ResultAdvanced` (a handler that returned a result has
  advanced, or nothing was left).
- **FetcherProofs** proves `TypeOK` and all six properties of `Fetcher`, for any
  URLs, addresses and policy. The invariant says
  for each place in the two loops what is approved, cleared and reserved there,
  each approval recorded with the URL it was given for (`ApprovedIsCurrent`, `PolicyIsKept`, `VerdictIsCurrent`, `SlotIsHeld`,
  `GapIsReserved`) and
  how many requests may have been sent (`SpentWithinHops`: a hop of the page
  costs at most MAX_REDIRECTS + 2 requests, whence the product bound).
- **PageWalkProofs** proves every safety property of `PageWalk`, for any URLs,
  requests, pages, articles, clocks and days, from two inductive invariants.
  `WalkInv` gives `SeenIsInOnePlace`: it says the same of the call at work, with
  what it has collected and its copy of the checkpoint in the place of what is
  stored, and that every fingerprint is of a page whose URLs are all seen, so that
  nothing is dropped with a page that repeats. Lemmas count how often a URL occurs
  in sequences that are cut (`OccursCut`) and joined (`OccursConcat`).
  `CourseInv` gives `TypeOK`, `PagesAreBounded`, `EveryDayIsAsked` and
  `ProgressIsTruthful`: the stored request names the client's range with both
  ends, whatever day a call takes for today (`RequestKept`); a checkpoint stands
  at a month of that range, has asked for the windows before it, and has pending
  only URLs of the month it is in or has just left (`OnCourse`); its pages are
  paid for by URLs seen, two for each month, and one for the empty page whose
  fingerprint is kept (`Spent`); a run that is ready has work left
  (`StatusOfWalk`).
  `NoCommitForNothing` is an action property: no call commits without a page
  spent or a new URL in a job. `ReportsAddUp` proves `ReportAddsUp`.
- The calendar behind it. monthWindows steps from month to month. That the k-th
  step is at the k-th month is shown without induction, of a least month for which
  it is false (`LeastNatural`, `CursorsAre`); the windows then have a closed form
  (`WindowsAre`), and every real day of the range is in exactly one of them
  (`WindowsPartition`). What the provider is asked for is the window with a day
  more at either end: it holds a day together with both its neighbours exactly
  when the window holds the day (`WidenedHolds`, by `NextDayOrder` and
  `DayBeforeOrder`). The sum over the months of a report is handled alike.
- **DatedSearchProofs** proves `NothingIsScrapedTwice` and the refinement of
  `SearchRuns` (`AdvanceIsOneStep`). The invariant `DatedInv` joins that of the
  queue (`SafeInv`) and those of the walk (`WalkInv`, `CourseInv`, `CallAdvances`)
  by `RowIsLocked`: while a call is at work, its worker is at work on a command
  that has not moved the checkpoint last; and by `RunFollowsCommands`. The lemmas
  of PageWalkProofs are used through an instance (`WP`). In the refinement a page
  or a day is a stutter and a commit a whole advance, which needs
  `CommitAdvances`: the call used up some of `Effort`, and `PagesAreBounded` in
  the form that `Effort` is not used up before the run is complete
  (`EffortIsEnough`). The theorems of SearchRunsProofs then hold of the run with
  its walk: `DatedRunsAreOrderly`, `DatedSettledForGood`.

`CourseInv` speaks of the month windows of the range that was submitted, so it
rests on what models.py lets through: fields within their limits and dates of
the calendar. That is `RequestAssumption` of `PageWalk`; `ArticleAssumption` says
the same of texts, `ClockAssumption` of the first and the last day. `DatedSearch`
assumes of its constants what `PageWalk` does (`WalkAssumption`). No proof assumes
anything of the order of steps, the number of faults or what the provider answers.

Only model-checked: liveness under fairness (`ItemEventuallySettles`,
`CommandEventuallySettles`, `RunEnds`), which is out of the prover's reach. Every
invariant and every action property that a passing run checks is also proved.

The type invariants of `ItemQueue`, `RateLimiter`, `Commands`, `SearchRuns` and
`Fetcher` are proved and therefore not in the runs.

## 7. Findings

1. `item_stale_attempts` (store.go:235). FinishItem reads `attempts` without a
   lock and requeues the item if an attempt is left. Another goroutine of the
   same process, hence with the same `lease_owner`, may claim the item in
   between and use its last attempt. The item is then queued with no attempt
   left, no claim selects it, and the job never completes. FailCommand makes the
   same decision inside its UPDATE and has no such gap.
2. `rate_first_use` (store.go:138). `SELECT ... FOR UPDATE` locks nothing when a
   domain has no row: workers that fetch it for the first time at once all start
   at once, and the last upsert overwrites the reservations of the others.
3. `search_stuck` (store.go:90). ClaimCommand returns before its commit when
   nothing can be claimed, and the rollback takes back that it failed the
   exhausted commands. A search whose worker died on the last attempt stays
   unanswered until some other command arrives.
4. `run_overtaken` (search.go:357). The checkpoint remembers only the last
   command, and continue_search does not wait for the command that started the
   run. A call whose advance was committed and not acknowledged searches again
   if another call advanced in between.

Observed while modelling, and not forbidden by any property:

- ClaimItem returns before its commit, too, when it finds no item (store.go:200):
  an item whose worker died on the last attempt stays running until some other
  item is submitted. `ItemEventuallySettles` permits an item out of attempts.
- The recount of ClaimItem (store.go:188) counts in the snapshot of the very
  statement that fails the exhausted items and does not see them: the counters
  of such a job are too low and it may stay running when all its items have
  ended. `ExactUnlessExhausted` says that counts are exact as long as no item of
  the job has failed on its last attempt.
- Attempts at a plain search that overlap (search.go:511): the slow one finds no
  URL and sets the total of the job the other one filled to 0, and the job then
  runs for ever. Hence the properties of `PlaceholderJobs` about totals leave out
  the `overtaken` commands; `FilledOnce` does not, and says that no more than
  that happens to the job.
- A fill is committed, its acknowledgement lost and the search fails
  (store.go:341): the job is completed with an error while its items are queued,
  and running again with the next claim of an item. Hence
  `CompletedJobCountsAll` speaks of jobs without an error.
- What ReserveDomain hands out is a moment; the worker waits for it on its own
  clock, after the commit (store.go:155). `ReservationsSpaced` is about these
  moments. How far apart requests are sent depends on the skew of the clocks.
- Of a host name with two dots at its end Validate drops one (urlpolicy.go:54),
  so that the same host has two rows in the throttle.

## 8. What is not modelled, and why

- The extraction of title, text and authors, decoding of the provider's answers
  and the mapping of routes and errors are functions of their input without
  state; the models have their outcomes. Of the extractor the dates are
  modelled; the layouts it knows are kinds of text there, and a text in any
  other layout is `junk`.
- recent, recent_searches and metrics repeat the reads of get and
  search_progress for lists of rows.
- The polling of a synchronous scrape and its deadline: the command goes on
  whether or not anybody waits.
- requests_attempted, the texts of warnings, correlation ids, timings: nothing
  depends on them.
- Configuration and the migrator run once before the rest; the health check
  reads a timestamp of its own table.
- Of `ItemQueue` seen from a search, `PlaceholderJobs` keeps only what item
  workers do to the job; the jobs an advance creates are not composed with
  `ItemQueue`.
- When the first command of a dated search fails, the UPDATE of jobs in
  ClaimCommand and FailCommand (store.go:71-73, 341-343) also completes, with the
  error, the jobs that an advance made for that command, items under way or not.
  `SearchRuns` and `DatedSearch` have no jobs and leave it out; for plain searches
  it is `ExposeErrors`.
- `SearchRuns!Continue` leaves out the 409 for a stored range that ends in the
  future (gateway:351), as it has no dates; `DatedSearch!Continue` has it.
- Transactions are READ COMMITTED and the database does not lose commits.

## 9. Plan

Done, in this order: `ItemQueue`, `RateLimiter`, `Commands`, `PlaceholderJobs`,
`SearchRuns`, `Fetcher`, `DateRange` with `PageWalk`; proofs of all but the last
two; then `JobReads` with its proof, `ArticleDates` and the two clocks in
`PageWalk`, `DatedSearch` as the composition of `SearchRuns` and `PageWalk`,
fairness for `SearchRuns`, `UrlPolicy` under `Fetcher`, and the proofs of the
job properties of `PlaceholderJobs`; then the proofs of all of `PageWalk`, of
`DatedSearch` and of its refinement.

Next:

1. Lemmas about `ClassifyDate` and `ArticleTime` for every text and zone, beyond
   what `ReportsAddUp` needs of them, and about `UrlPolicy` (what Validate
   returns is accepted again unchanged, but for names with two dots at the end).
2. Jobs of plain searches with the real `ItemQueue` in the place of
   `ItemClaimed` and `ItemDone`, by a refinement of the two actions.
3. `Fetcher` with `RateLimiter`: reservations of several fetches, so that
   spacing and one reservation per request are shown together.
