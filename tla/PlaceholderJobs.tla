--------------------------- MODULE PlaceholderJobs ---------------------------
(***************************************************************************)
(* Searches without a date range.  The middleware creates the command and, *)
(* in the same transaction, an empty job (postgres_gateway.py              *)
(* submit_search); the handler looks at the job, asks the provider and     *)
(* fills the job (src/internal/search/search.go Process, existingJob,      *)
(* fillExistingJob).  Neither the look nor the fill is fenced by the       *)
(* command's lease.  FailCommand and ClaimCommand complete the jobs of the *)
(* searches that failed.  Here every command is such a search and its job  *)
(* goes by the command's name.                                             *)
(***************************************************************************)
EXTENDS Commands

CONSTANT MaxUrls   \* bound: URLs one discovery finds

ASSUME MaxUrlsAssumption == MaxUrls \in Nat

VARIABLES
  jobStatus,  \* jobs.status
  jobError,   \* jobs.error_code is set
  total,      \* jobs.total
  items,      \* number of job_items of the job
  done,       \* jobs.completed
  stage,      \* how far the handler of a worker is
  urls,       \* the number of URLs it has discovered
  overtaken   \* history: commands claimed, or failed by a claim, while a worker
              \* whose lease had lapsed was still at work on them

jobs == <<jobStatus, jobError, total, items, done>>
handler == <<stage, urls>>
all == <<queue, jobs, handler, overtaken>>

SearchInit ==
  /\ Init
  /\ jobStatus = [c \in Command |-> "absent"]
  /\ jobError = [c \in Command |-> FALSE]
  /\ total = [c \in Command |-> 0]
  /\ items = [c \in Command |-> 0]
  /\ done = [c \in Command |-> 0]
  /\ stage = [w \in Worker |-> "none"]
  /\ urls = [w \in Worker |-> 0]
  /\ overtaken = {}

SubmitSearch(c) ==
  /\ Submit(c)
  /\ jobStatus' = [jobStatus EXCEPT ![c] = "queued"]
  /\ UNCHANGED <<jobError, total, items, done, handler, overtaken>>

(***************************************************************************)
(* The jobs of failed searches become completed, with the command's error. *)
(* ClaimCommand leaves those alone that are completed already, FailCommand *)
(* does not.                                                               *)
(***************************************************************************)
NothingExposed(failed) == UNCHANGED <<jobStatus, jobError>>
ExposeErrors(failed) ==
  /\ jobStatus' = [k \in Command |-> IF k \in failed THEN "completed" ELSE jobStatus[k]]
  /\ jobError' = [k \in Command |-> jobError[k] \/ k \in failed]

Unanswered == {k \in Command : jobStatus[k] # "completed"}
FailedAfter == {k \in Command : status'[k] = "failed"}

Overtakes(c) == overtaken' = overtaken \cup {k \in {c} \cup Exhausted : \E w \in Worker : held[w] = k}

SearchClaim(w, c) ==
  /\ Claim(w, c) /\ Overtakes(c)
  /\ ExposeErrors(FailedAfter \cap Unanswered)
  /\ stage' = [stage EXCEPT ![w] = "look"]
  /\ UNCHANGED <<total, items, done, urls>>

SearchClaimLost(w, c) ==
  /\ ClaimLost(w, c) /\ Overtakes(c)
  /\ ExposeErrors(FailedAfter \cap Unanswered)
  /\ UNCHANGED <<total, items, done, handler>>

(***************************************************************************)
(* Process.  existingJob: a job that is filled, or completed, is the       *)
(* answer of an earlier attempt and is not searched again.                 *)
(***************************************************************************)
NeedsUnlessCompleted(c) == jobStatus[c] # "completed"
NeedsDiscovery(c) == total[c] = 0 /\ jobStatus[c] # "completed"

Over(w) == stage' = [stage EXCEPT ![w] = "none"] /\ urls' = [urls EXCEPT ![w] = 0]

LookFilled(w) ==
  /\ stage[w] = "look" /\ ~NeedsDiscovery(held[w])
  /\ Handled(w, "result") /\ Over(w)
  /\ UNCHANGED <<jobs, overtaken>>

LookEmpty(w) ==
  /\ stage[w] = "look" /\ NeedsDiscovery(held[w])
  /\ stage' = [stage EXCEPT ![w] = "discover"]
  /\ UNCHANGED <<queue, jobs, urls, overtaken>>

Discover(w, n) ==
  /\ stage[w] = "discover"
  /\ stage' = [stage EXCEPT ![w] = "fill"]
  /\ urls' = [urls EXCEPT ![w] = n]
  /\ UNCHANGED <<queue, jobs, overtaken>>

\* The provider or the database answered with an error; only before and in
\* discovery can the error be a fatal one.
ProcessFails(w, how) ==
  /\ stage[w] # "none" /\ (how = "fatal" => stage[w] # "fill")
  /\ Handled(w, how) /\ Over(w)
  /\ UNCHANGED <<jobs, overtaken>>

\* The transaction of fillExistingJob: jobs.status is set from the number of
\* URLs alone, whatever the job was before.
AlwaysQueued(n) == "queued"
FilledStatus(n) == IF n = 0 THEN "completed" ELSE "queued"

FillRows(w) ==
  LET c == held[w]
  IN /\ items' = [items EXCEPT ![c] = @ + urls[w]]
     /\ total' = [total EXCEPT ![c] = urls[w]]
     /\ jobStatus' = [jobStatus EXCEPT ![c] = FilledStatus(urls[w])]
     /\ UNCHANGED <<jobError, done, overtaken>>

\* UNIQUE (job_id, position): position 0 is taken when the job has items.
NeverTaken(w) == FALSE
PositionTaken(w) == urls[w] > 0 /\ items[held[w]] > 0

Fill(w) ==
  /\ stage[w] = "fill" /\ ~PositionTaken(w)
  /\ FillRows(w)
  /\ Handled(w, "result") /\ Over(w)

\* The constraint is violated, and the error is one of the retryable kind.
FillClashes(w) ==
  /\ stage[w] = "fill" /\ PositionTaken(w)
  /\ Handled(w, "retryable") /\ Over(w)
  /\ UNCHANGED <<jobs, overtaken>>

\* The fill was committed but the worker saw an error.
FillLost(w) ==
  /\ stage[w] = "fill" /\ ~PositionTaken(w)
  /\ FillRows(w)
  /\ Handled(w, "retryable") /\ Over(w)

(***************************************************************************)
(* The end of the command.                                                 *)
(***************************************************************************)
SearchComplete(w) == Complete(w) /\ UNCHANGED <<jobs, handler, overtaken>>

SearchFail(w) ==
  /\ Fail(w)
  /\ ExposeErrors(FailedAfter \cap {held[w]})
  /\ UNCHANGED <<total, items, done, handler, overtaken>>

SearchGivesUp(w) == (Rejected(w) \/ EndAbort(w)) /\ UNCHANGED <<jobs, handler, overtaken>>

SearchCrash(w) == Crash(w) /\ Over(w) /\ UNCHANGED <<jobs, overtaken>>

SearchLease == /\ \/ \E w \in Worker : Heartbeat(w)
                  \/ \E c \in Command : LeaseExpires(c)
               /\ UNCHANGED <<jobs, handler, overtaken>>

(***************************************************************************)
(* What the item workers do to the job (module ItemQueue): a claim makes   *)
(* it running, and so does every item that ends, but for the last one,     *)
(* also if the job was completed with an error meanwhile.                  *)
(***************************************************************************)
ItemClaimed(c) ==
  /\ done[c] < items[c]
  /\ jobStatus' = [jobStatus EXCEPT ![c] = "running"]
  /\ UNCHANGED <<queue, jobError, total, items, done, handler, overtaken>>

ItemDone(c) ==
  /\ done[c] < items[c] /\ jobStatus[c] # "queued"
  /\ done' = [done EXCEPT ![c] = @ + 1]
  /\ jobStatus' = [jobStatus EXCEPT ![c] = IF done[c] + 1 = total[c] THEN "completed" ELSE "running"]
  /\ UNCHANGED <<queue, jobError, total, items, handler, overtaken>>

Process(w) == \/ LookFilled(w) \/ LookEmpty(w)
              \/ \E n \in 0..MaxUrls : Discover(w, n)
              \/ \E how \in {"retryable", "fatal"} : ProcessFails(w, how)
              \/ Fill(w) \/ FillLost(w) \/ FillClashes(w)
Ends(w) == SearchComplete(w) \/ SearchFail(w) \/ SearchGivesUp(w)

SearchNext ==
  \/ \E c \in Command : SubmitSearch(c) \/ ItemClaimed(c) \/ ItemDone(c)
  \/ \E w \in Worker, c \in Command : SearchClaim(w, c) \/ SearchClaimLost(w, c)
  \/ \E w \in Worker : Process(w) \/ Ends(w) \/ SearchCrash(w)
  \/ SearchLease

SearchSafety == SearchInit /\ [][SearchNext]_all

\* As in Commands; the provider and the database answer within a timeout, and
\* the item workers keep scraping.
SearchWorks(w) == (\E c \in Command : SearchClaim(w, c)) \/ Process(w) \/ Ends(w)
SearchFairness == /\ \A w \in Worker : WF_all(SearchWorks(w))
                  /\ \A c \in Command :
                       /\ WF_all(LeaseExpires(c) /\ UNCHANGED <<jobs, handler, overtaken>>)
                       /\ WF_all(ItemClaimed(c) \/ ItemDone(c))

SearchSpec == SearchSafety /\ SearchFairness

(***************************************************************************)
(* Properties.                                                             *)
(***************************************************************************)

\* Every variable keeps its type, and a handler is at work exactly while the
\* loop waits for it.
SearchTypeOK ==
  /\ TypeOK
  /\ jobStatus \in [Command -> {"absent", "queued", "running", "completed"}]
  /\ jobError \in [Command -> BOOLEAN]
  /\ total \in [Command -> Nat] /\ items \in [Command -> Nat] /\ done \in [Command -> Nat]
  /\ stage \in [Worker -> {"none", "look", "discover", "fill"}]
  /\ urls \in [Worker -> 0..MaxUrls]
  /\ \A w \in Worker : (stage[w] # "none") <=> (pc[w] = "working")
  /\ overtaken \subseteq Command

\* Unless attempts at the search overlap, the total the API reports is the
\* number of items the job has, however often the search is retried.
TotalMatchesItems == \A c \in Command \ overtaken : total[c] = items[c]

\* However attempts overlap, a job is filled once: no slow attempt whose look at
\* the job is out of date adds the URLs of another discovery to it, and all it
\* can still do to the total is to set it back to 0.
FilledOnce ==
  [][\A c \in Command : items[c] > 0 =>
       items'[c] = items[c] /\ total'[c] \in {items[c], 0}]_all

\* Unless attempts overlap, a search that completed has filled its job or found
\* nothing.
CompletedSearchIsAnswered ==
  \A c \in Command \ overtaken : status[c] = "completed" => total[c] > 0 \/ jobStatus[c] = "completed"

\* Unless attempts overlap, a search that failed is not left queued, on whichever
\* of the two paths it failed: its job shows the error, or was answered in full
\* before.
FailedSearchExposesError ==
  \A c \in Command \ overtaken : status[c] = "failed" =>
     jobStatus[c] # "queued" /\ (jobError[c] \/ done[c] = total[c])

\* Unless attempts overlap, a job the API reports as completed without an error
\* has counted all its items.
CompletedJobCountsAll ==
  \A c \in Command \ overtaken : jobStatus[c] = "completed" /\ ~jobError[c] => done[c] = total[c]

\* A search that was accepted gets its items or is answered as completed.
SearchEventuallyAnswered ==
  \A c \in Command : status[c] = "queued" ~> (total[c] > 0 \/ jobStatus[c] = "completed")
=============================================================================
