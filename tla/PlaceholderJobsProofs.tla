----------------------- MODULE PlaceholderJobsProofs -----------------------
(***************************************************************************)
(* What CommandsProofs proves of the command queue holds of searches too;  *)
(* a job is filled once however attempts overlap; and the jobs of searches *)
(* whose attempts do not overlap are what the API says they are.           *)
(***************************************************************************)
EXTENDS PlaceholderJobs, CommandsProofs

USE DEF handler, all

\* A step of the handler ends it or does not touch the queue.
LEMMA HandlerSteps ==
  ASSUME NEW w \in Worker, Process(w)
  PROVE  \/ \E how \in {"result", "retryable", "fatal"} : Handled(w, how)
         \/ UNCHANGED queue
<1>1. ASSUME LookFilled(w) PROVE Handled(w, "result")
  BY <1>1, Zenon DEF LookFilled
<1>2. ASSUME LookEmpty(w) PROVE UNCHANGED queue
  BY <1>2, Zenon DEF LookEmpty
<1>3. ASSUME NEW n \in 0..MaxUrls, Discover(w, n) PROVE UNCHANGED queue
  BY <1>3, Zenon DEF Discover
<1>4. ASSUME NEW how \in {"retryable", "fatal"}, ProcessFails(w, how) PROVE Handled(w, how)
  BY <1>4, Zenon DEF ProcessFails
<1>5. ASSUME Fill(w) PROVE Handled(w, "result")
  BY <1>5, Zenon DEF Fill
<1>6. ASSUME FillClashes(w) \/ FillLost(w) PROVE Handled(w, "retryable")
  BY <1>6, Zenon DEF FillClashes, FillLost
<1> QED
  BY <1>1, <1>2, <1>3, <1>4, <1>5, <1>6 DEF Process

\* Every step of a search is one of the queue, or a stutter.
LEMMA StepImplements == [SearchNext]_all => [Next]_queue
<1> SUFFICES ASSUME [SearchNext]_all PROVE Next \/ UNCHANGED queue
  OBVIOUS
<1>1. ASSUME NEW c \in Command, SubmitSearch(c) PROVE Next
  BY <1>1, Zenon DEF SubmitSearch, Next
<1>2. ASSUME NEW c \in Command, ItemClaimed(c) \/ ItemDone(c) PROVE UNCHANGED queue
  BY <1>2, Zenon DEF ItemClaimed, ItemDone
<1>3. ASSUME NEW w \in Worker, NEW c \in Command, SearchClaim(w, c) \/ SearchClaimLost(w, c) PROVE Next
  BY <1>3, Zenon DEF SearchClaim, SearchClaimLost, Next
<1>4. ASSUME NEW w \in Worker, Process(w) PROVE Next \/ UNCHANGED queue
  BY <1>4, HandlerSteps, Zenon DEF Next
<1>5. ASSUME NEW w \in Worker, Ends(w) \/ SearchCrash(w) PROVE Next
  BY <1>5, Zenon DEF Ends, SearchComplete, SearchFail, SearchGivesUp, SearchCrash, Next
<1>6. ASSUME SearchLease PROVE Next
  BY <1>6, Zenon DEF SearchLease, Next
<1>7. ASSUME UNCHANGED all PROVE UNCHANGED queue
  BY <1>7
<1> QED
  BY <1>1, <1>2, <1>3, <1>4, <1>5, <1>6, <1>7, Zenon DEF SearchNext

\* Searches extend the queue, so their behaviours are behaviours of it and what
\* CommandsProofs proves can be used of them.
LEMMA SearchImplementsQueue == SearchSafety => SafetySpec
<1>1. SearchInit => Init
  BY DEF SearchInit
<1> QED
  BY <1>1, StepImplements, PTL DEF SearchSafety, SafetySpec

\* What CommandsProofs proves of every command holds of searches: nothing of
\* an evicted attempt reaches the command of a search, and its answer is final.
THEOREM SearchCommandsAreSafe == SearchSafety => []FenceIsExact /\ EndedIsFinal
  BY SearchImplementsQueue, FenceAdmitsLatestAttempt, AnswerIsFinal, PTL

-----------------------------------------------------------------------------
(***************************************************************************)
(* The jobs.  A search that no claim has overtaken has one worker, which   *)
(* has the command running; as long as that worker is about to fill the    *)
(* job, the job is empty.                                                  *)
(***************************************************************************)
HoldersRun ==
  \A w \in Worker : held[w] # None /\ held[w] \notin overtaken => status[held[w]] = "running"

OneHolder ==
  \A v, w \in Worker :
     held[v] # None /\ held[v] \notin overtaken /\ held[v] = held[w] => v = w

StillEmpty ==
  \A w \in Worker :
     stage[w] \in {"discover", "fill"} /\ held[w] \notin overtaken => total[held[w]] = 0

DoneAreItems == \A c \in Command : done[c] <= items[c]

Answered(c) == total[c] > 0 \/ jobStatus[c] = "completed"

ResultAnswers ==
  \A w \in Worker :
     pc[w] = "ending" /\ outcome[w] = "result" /\ held[w] \notin overtaken => Answered(held[w])

JobInv ==
  /\ SearchTypeOK
  /\ HoldersRun /\ OneHolder
  /\ StillEmpty
  /\ DoneAreItems
  /\ ResultAnswers
  /\ TotalMatchesItems
  /\ CompletedSearchIsAnswered
  /\ FailedSearchExposesError
  /\ CompletedJobCountsAll

USE DEF jobs, rows, loops, queue

\* So the invariant of the queue holds of searches.
LEMMA SearchKeepsSafe == SearchSafety => []SafeInv
  BY SearchImplementsQueue, SafetyHolds, PTL

\* The invariant holds before the first search.
LEMMA JobInit == SearchInit => JobInv
<1> SUFFICES ASSUME SearchInit PROVE JobInv
  OBVIOUS
<1>1. SafeInv
  BY SafeInit DEF SearchInit
<1>2. SearchTypeOK
  BY <1>1, MaxUrlsAssumption DEF SearchInit, Init, SearchTypeOK, SafeInv
<1>3. HoldersRun /\ OneHolder /\ StillEmpty /\ DoneAreItems /\ ResultAnswers
  BY DEF SearchInit, Init, HoldersRun, OneHolder, StillEmpty, DoneAreItems, ResultAnswers
<1>4. /\ TotalMatchesItems /\ CompletedSearchIsAnswered
      /\ FailedSearchExposesError /\ CompletedJobCountsAll
  BY DEF SearchInit, Init, TotalMatchesItems, CompletedSearchIsAnswered,
         FailedSearchExposesError, CompletedJobCountsAll
<1> QED
  BY <1>2, <1>3, <1>4 DEF JobInv

-----------------------------------------------------------------------------
(***************************************************************************)
(* What the steps have in common.                                          *)
(***************************************************************************)

\* A handler that returns leaves every command to whom it was.
LEMMA HandledKeeps ==
  ASSUME SafeInv, JobInv, NEW w \in Worker, NEW how \in {"result", "retryable", "fatal"},
         Handled(w, how), Over(w), overtaken' = overtaken
  PROVE  /\ held[w] \in Command
         /\ status' = status /\ held' = held
         /\ HoldersRun' /\ OneHolder'
         /\ \A v \in Worker : stage'[v] # "none" => v # w /\ stage'[v] = stage[v]
         /\ \A v \in Worker : v # w => pc'[v] = pc[v] /\ outcome'[v] = outcome[v]
         /\ pc'[w] = "ending" /\ outcome'[w] = how
         /\ stage' \in [Worker -> {"none", "look", "discover", "fill"}]
         /\ urls' \in [Worker -> 0..MaxUrls]
         /\ \A v \in Worker : (stage'[v] # "none") <=> (pc'[v] = "working")
<1> USE DEF JobInv, SearchTypeOK, TypeOK
<1>1. /\ status' = status /\ held' = held /\ pc[w] = "working"
      /\ pc' = [pc EXCEPT ![w] = "ending"] /\ outcome' = [outcome EXCEPT ![w] = how]
      /\ stage' = [stage EXCEPT ![w] = "none"] /\ urls' = [urls EXCEPT ![w] = 0]
  BY DEF Handled, Over
<1>2. held[w] \in Command
  BY <1>1
<1>3. HoldersRun' /\ OneHolder'
  BY <1>1 DEF HoldersRun, OneHolder
<1>5. /\ \A v \in Worker : stage'[v] # "none" => v # w /\ stage'[v] = stage[v]
      /\ \A v \in Worker : v # w => pc'[v] = pc[v] /\ outcome'[v] = outcome[v]
      /\ pc'[w] = "ending" /\ outcome'[w] = how
  BY <1>1
<1>6. /\ stage' \in [Worker -> {"none", "look", "discover", "fill"}]
      /\ \A v \in Worker : (stage'[v] # "none") <=> (pc'[v] = "working")
  BY <1>1
<1>4. urls' \in [Worker -> 0..MaxUrls]
  BY <1>1, MaxUrlsAssumption
<1> QED
  BY <1>1, <1>2, <1>3, <1>4, <1>5, <1>6

\* A loop that lets its command go leaves the others to whom they were.
LEMMA ReleaseKeeps ==
  ASSUME SafeInv, JobInv, NEW w \in Worker, Release(w), UNCHANGED status,
         overtaken' = overtaken
  PROVE  HoldersRun' /\ OneHolder'
<1> USE DEF JobInv, SearchTypeOK, TypeOK
<1>1. \A v \in Worker : held'[v] # None => v # w /\ held'[v] = held[v]
  BY DEF Release
<1> QED
  BY <1>1 DEF HoldersRun, OneHolder

\* The same when the loop has ended its command.
LEMMA EndKeeps ==
  ASSUME SafeInv, JobInv, NEW w \in Worker, NEW new, EndRow(w, new), Release(w),
         overtaken' = overtaken
  PROVE  HoldersRun' /\ OneHolder'
<1> USE DEF JobInv, SearchTypeOK, TypeOK
<1>1. \A v \in Worker : held'[v] # None => v # w /\ held'[v] = held[v]
  BY DEF Release
<1>2. /\ held[w] \in Command /\ held[w] # None
      /\ status' = [status EXCEPT ![held[w]] = new]
  BY DEF EndRow, HoldsLease
<1>3. \A v \in Worker : held'[v] # None /\ held'[v] \notin overtaken => status'[held'[v]] = status[held[v]]
  BY <1>1, <1>2 DEF OneHolder
<1> QED
  BY <1>1, <1>3 DEF HoldersRun, OneHolder

\* A claim overtakes whoever still holds the command, or one that it fails.
LEMMA ClaimKeeps ==
  ASSUME SafeInv, JobInv, NEW w \in Worker, NEW c \in Command, Overtakes(c),
         Claim(w, c) \/ ClaimLost(w, c)
  PROVE  HoldersRun' /\ OneHolder' /\ overtaken \subseteq overtaken'
<1> USE DEF JobInv, SearchTypeOK, TypeOK
<1>1. overtaken' = overtaken \cup {k \in {c} \cup Exhausted : \E v \in Worker : held[v] = k}
  BY DEF Overtakes
<1>2. status' = [k \in Command |-> IF k = c THEN "running"
                                   ELSE IF k \in Exhausted THEN "failed" ELSE status[k]]
  BY DEF Claim, ClaimLost, ClaimRow
<1>3. \A v \in Worker : held'[v] = held[v] \/ (v = w /\ held'[v] = c)
  BY DEF Claim, ClaimLost
<1>4. \A v \in Worker : held[v] # None /\ held[v] \notin overtaken'
         => held[v] # c /\ held[v] \notin Exhausted /\ held[v] \notin overtaken
  BY <1>1
<1>5. HoldersRun'
  <2> SUFFICES ASSUME NEW v \in Worker, held'[v] # None, held'[v] \notin overtaken'
               PROVE  status'[held'[v]] = "running"
    BY DEF HoldersRun
  <2>1. CASE held'[v] = held[v]
    BY <2>1, <1>2, <1>4 DEF HoldersRun
  <2>2. CASE held'[v] = c
    BY <2>2, <1>2
  <2> QED
    BY <2>1, <2>2, <1>3
<1>6. OneHolder'
  BY <1>3, <1>4 DEF OneHolder
<1> QED
  BY <1>1, <1>5, <1>6

-----------------------------------------------------------------------------
(***************************************************************************)
(* One lemma per kind of step.  SafeInv' is had from CommandsProofs.       *)
(***************************************************************************)
\* It holds after a submission,
LEMMA SubmitKeepsJobs ==
  ASSUME SafeInv, SafeInv', JobInv, NEW c \in Command, SubmitSearch(c)
  PROVE  JobInv'
<1> USE DEF JobInv
<1>1. /\ status[c] = "absent" /\ status' = [status EXCEPT ![c] = "queued"]
      /\ jobStatus' = [jobStatus EXCEPT ![c] = "queued"]
      /\ UNCHANGED <<pc, held, outcome, jobError, total, items, done, stage, urls, overtaken>>
  BY DEF SubmitSearch, Submit
<1>2. SearchTypeOK'
  BY <1>1 DEF SearchTypeOK, SafeInv
<1>3. \A w \in Worker : held[w] # None /\ held[w] \notin overtaken => held[w] # c
  BY <1>1 DEF HoldersRun
<1>4. HoldersRun' /\ OneHolder'
  BY <1>1, <1>3 DEF HoldersRun, OneHolder, SearchTypeOK, TypeOK
<1>5. StillEmpty' /\ DoneAreItems' /\ ResultAnswers'
  BY <1>1, <1>3 DEF StillEmpty, DoneAreItems, ResultAnswers, Answered, SearchTypeOK, TypeOK
<1>6. TotalMatchesItems' /\ CompletedSearchIsAnswered'
  BY <1>1 DEF TotalMatchesItems, CompletedSearchIsAnswered, SearchTypeOK, TypeOK
<1>7. FailedSearchExposesError' /\ CompletedJobCountsAll'
  BY <1>1 DEF FailedSearchExposesError, CompletedJobCountsAll, SearchTypeOK, TypeOK
<1> QED
  BY <1>2, <1>4, <1>5, <1>6, <1>7

\* after the claim of an item,
LEMMA ItemClaimedKeepsJobs ==
  ASSUME SafeInv, SafeInv', JobInv, NEW c \in Command, ItemClaimed(c)
  PROVE  JobInv'
<1> USE DEF JobInv
<1>1. /\ done[c] < items[c] /\ jobStatus' = [jobStatus EXCEPT ![c] = "running"]
      /\ UNCHANGED <<status, pc, held, outcome, jobError, total, items, done, stage, urls, overtaken>>
  BY DEF ItemClaimed
<1>2. SearchTypeOK'
  BY <1>1 DEF SearchTypeOK, SafeInv
<1>3. c \notin overtaken => total[c] > 0 /\ done[c] # total[c]
  BY <1>1 DEF TotalMatchesItems, SearchTypeOK
<1>4. HoldersRun' /\ OneHolder'
  BY <1>1 DEF HoldersRun, OneHolder
<1>5. StillEmpty' /\ DoneAreItems' /\ ResultAnswers'
  BY <1>1, <1>3 DEF StillEmpty, DoneAreItems, ResultAnswers, Answered, SearchTypeOK, TypeOK
<1>6. TotalMatchesItems' /\ CompletedSearchIsAnswered'
  BY <1>1, <1>3 DEF TotalMatchesItems, CompletedSearchIsAnswered, SearchTypeOK, TypeOK
<1>7. FailedSearchExposesError' /\ CompletedJobCountsAll'
  BY <1>1 DEF FailedSearchExposesError, CompletedJobCountsAll, SearchTypeOK, TypeOK
<1> QED
  BY <1>2, <1>4, <1>5, <1>6, <1>7

\* and after the end of one.
LEMMA ItemDoneKeepsJobs ==
  ASSUME SafeInv, SafeInv', JobInv, NEW c \in Command, ItemDone(c)
  PROVE  JobInv'
<1> USE DEF JobInv
<1>1. /\ done[c] < items[c] /\ jobStatus[c] # "queued"
      /\ done' = [done EXCEPT ![c] = @ + 1]
      /\ jobStatus' = [jobStatus EXCEPT ![c] = IF done[c] + 1 = total[c] THEN "completed" ELSE "running"]
      /\ UNCHANGED <<status, pc, held, outcome, jobError, total, items, stage, urls, overtaken>>
  BY DEF ItemDone
<1>2. SearchTypeOK'
  BY <1>1 DEF SearchTypeOK, SafeInv
<1>3. c \notin overtaken => total[c] > 0 /\ done[c] # total[c]
  BY <1>1 DEF TotalMatchesItems, SearchTypeOK
<1>4. HoldersRun' /\ OneHolder'
  BY <1>1 DEF HoldersRun, OneHolder
<1>5. StillEmpty' /\ DoneAreItems' /\ ResultAnswers'
  BY <1>1, <1>3 DEF StillEmpty, DoneAreItems, ResultAnswers, Answered, SearchTypeOK, TypeOK
<1>6. TotalMatchesItems' /\ CompletedSearchIsAnswered'
  BY <1>1, <1>3 DEF TotalMatchesItems, CompletedSearchIsAnswered, SearchTypeOK, TypeOK
<1>7. FailedSearchExposesError' /\ CompletedJobCountsAll'
  BY <1>1, <1>3 DEF FailedSearchExposesError, CompletedJobCountsAll, SearchTypeOK, TypeOK
<1> QED
  BY <1>2, <1>4, <1>5, <1>6, <1>7

\* Of the jobs a claim completes none is without an error, and every search it
\* fails has a completed job afterwards.
LEMMA ClaimKeepsJobs ==
  ASSUME SafeInv, SafeInv', JobInv, NEW w \in Worker, NEW c \in Command,
         SearchClaim(w, c) \/ SearchClaimLost(w, c)
  PROVE  JobInv'
<1> USE DEF JobInv
<1>1. /\ Overtakes(c) /\ (Claim(w, c) \/ ClaimLost(w, c))
      /\ ExposeErrors(FailedAfter \cap Unanswered)
      /\ UNCHANGED <<total, items, done, urls>>
  BY DEF SearchClaim, SearchClaimLost
<1>2. HoldersRun' /\ OneHolder' /\ overtaken \subseteq overtaken'
  BY <1>1, ClaimKeeps
<1>3. /\ \A k \in Command : /\ jobStatus'[k] = IF k \in FailedAfter \cap Unanswered THEN "completed" ELSE jobStatus[k]
                            /\ jobError'[k] = (jobError[k] \/ k \in FailedAfter \cap Unanswered)
      /\ jobStatus' \in [Command -> {"absent", "queued", "running", "completed"}]
      /\ jobError' \in [Command -> BOOLEAN]
  BY <1>1 DEF ExposeErrors, SearchTypeOK
<1>4. \A v \in Worker : \/ pc'[v] = pc[v] /\ held'[v] = held[v] /\ stage'[v] = stage[v]
                        \/ pc'[v] = "working" /\ stage'[v] = "look"
  BY <1>1 DEF Claim, ClaimLost, SearchClaim, SearchClaimLost, SearchTypeOK, TypeOK
<1>5. outcome' = outcome /\ stage' \in [Worker -> {"none", "look", "discover", "fill"}]
      /\ overtaken' \subseteq Command
  BY <1>1 DEF Claim, ClaimLost, SearchClaim, SearchClaimLost, SearchTypeOK, TypeOK, Overtakes, Exhausted
<1>6. SearchTypeOK'
  BY <1>1, <1>3, <1>4, <1>5 DEF SearchTypeOK, SafeInv
<1>7. \A k \in Command : status'[k] = "completed" => status[k] = "completed"
  BY <1>1 DEF Claim, ClaimLost, ClaimRow
<1>8. \A k \in Command : Answered(k) => Answered(k)'
  BY <1>1, <1>3 DEF Answered
<1>9. StillEmpty' /\ DoneAreItems'
  BY <1>1, <1>2, <1>4 DEF StillEmpty, DoneAreItems
<1>10. ResultAnswers'
  BY <1>2, <1>4, <1>5, <1>8 DEF ResultAnswers, SearchTypeOK, TypeOK
<1>11. TotalMatchesItems' /\ CompletedSearchIsAnswered'
  BY <1>1, <1>2, <1>7, <1>8 DEF TotalMatchesItems, CompletedSearchIsAnswered, Answered
<1>12. CompletedJobCountsAll'
  BY <1>1, <1>2, <1>3 DEF CompletedJobCountsAll
<1>13. FailedSearchExposesError'
  BY <1>1, <1>2, <1>3 DEF FailedSearchExposesError, CompletedJobCountsAll, FailedAfter, Unanswered
<1> QED
  BY <1>2, <1>6, <1>9, <1>10, <1>11, <1>12, <1>13

\* A handler that ends, fills nothing, and has an answer if it ends with a result.
LEMMA HandlerEndsKeepsJobs ==
  ASSUME SafeInv, SafeInv', JobInv, NEW w \in Worker, NEW how \in {"result", "retryable", "fatal"},
         Handled(w, how), Over(w), UNCHANGED <<jobs, overtaken>>,
         how = "result" => Answered(held[w])
  PROVE  JobInv'
<1> USE DEF JobInv
<1>1. /\ held[w] \in Command /\ status' = status /\ held' = held
      /\ HoldersRun' /\ OneHolder'
      /\ \A v \in Worker : stage'[v] # "none" => v # w /\ stage'[v] = stage[v]
      /\ \A v \in Worker : v # w => pc'[v] = pc[v] /\ outcome'[v] = outcome[v]
      /\ outcome'[w] = how
      /\ stage' \in [Worker -> {"none", "look", "discover", "fill"}]
      /\ urls' \in [Worker -> 0..MaxUrls]
      /\ \A v \in Worker : (stage'[v] # "none") <=> (pc'[v] = "working")
  BY HandledKeeps
<1>2. SearchTypeOK'
  BY <1>1 DEF SearchTypeOK, SafeInv
<1>3. StillEmpty' /\ DoneAreItems'
  BY <1>1 DEF StillEmpty, DoneAreItems
<1>4. ResultAnswers'
  BY <1>1 DEF ResultAnswers, Answered
<1>5. /\ TotalMatchesItems' /\ CompletedSearchIsAnswered'
      /\ FailedSearchExposesError' /\ CompletedJobCountsAll'
  BY <1>1 DEF TotalMatchesItems, CompletedSearchIsAnswered, FailedSearchExposesError,
             CompletedJobCountsAll
<1> QED
  BY <1>1, <1>2, <1>3, <1>4, <1>5

\* The look and the discovery change what the handler knows and nothing else.
LEMMA HandlerMovesKeepsJobs ==
  ASSUME SafeInv, SafeInv', JobInv, NEW w \in Worker,
         LookEmpty(w) \/ \E n \in 0..MaxUrls : Discover(w, n)
  PROVE  JobInv'
<1> USE DEF JobInv
<1>1. /\ UNCHANGED <<queue, jobs, overtaken>>
      /\ stage[w] # "none"
      /\ stage' \in [Worker -> {"none", "look", "discover", "fill"}]
      /\ stage'[w] \in {"discover", "fill"}
      /\ \A v \in Worker : v # w => stage'[v] = stage[v]
      /\ urls' \in [Worker -> 0..MaxUrls]
  BY DEF LookEmpty, Discover, SearchTypeOK
<1>2. SearchTypeOK'
  BY <1>1 DEF SearchTypeOK, SafeInv
<1>3. held[w] \in Command
  BY <1>1 DEF SearchTypeOK, TypeOK
<1>4. held[w] \notin overtaken => total[held[w]] = 0
  BY <1>3 DEF LookEmpty, Discover, NeedsDiscovery, StillEmpty
<1>5. HoldersRun' /\ OneHolder' /\ StillEmpty' /\ DoneAreItems' /\ ResultAnswers'
  BY <1>1, <1>4 DEF HoldersRun, OneHolder, StillEmpty, DoneAreItems, ResultAnswers, Answered
<1>6. /\ TotalMatchesItems' /\ CompletedSearchIsAnswered'
      /\ FailedSearchExposesError' /\ CompletedJobCountsAll'
  BY <1>1 DEF TotalMatchesItems, CompletedSearchIsAnswered, FailedSearchExposesError,
             CompletedJobCountsAll
<1> QED
  BY <1>2, <1>5, <1>6

\* A fill that no claim has overtaken finds the job empty: its worker looked, and
\* nobody else has the command.
LEMMA FillKeepsJobs ==
  ASSUME SafeInv, SafeInv', JobInv, NEW w \in Worker, Fill(w) \/ FillLost(w)
  PROVE  JobInv'
<1> USE DEF JobInv
<1> DEFINE c == held[w]
<1>1. PICK how \in {"result", "retryable"} : Handled(w, how)
  BY DEF Fill, FillLost
<1>2. /\ stage[w] = "fill" /\ Over(w) /\ FillRows(w)
      /\ overtaken' = overtaken
  BY DEF Fill, FillLost, FillRows
<1>3. /\ c \in Command /\ status' = status /\ held' = held
      /\ HoldersRun' /\ OneHolder'
      /\ \A v \in Worker : stage'[v] # "none" => v # w /\ stage'[v] = stage[v]
      /\ \A v \in Worker : v # w => pc'[v] = pc[v] /\ outcome'[v] = outcome[v]
      /\ stage' \in [Worker -> {"none", "look", "discover", "fill"}]
      /\ urls' \in [Worker -> 0..MaxUrls]
      /\ \A v \in Worker : (stage'[v] # "none") <=> (pc'[v] = "working")
  BY <1>1, <1>2, HandledKeeps
<1>4. /\ urls[w] \in Nat
      /\ items' = [items EXCEPT ![c] = @ + urls[w]]
      /\ total' = [total EXCEPT ![c] = urls[w]]
      /\ jobStatus' = [jobStatus EXCEPT ![c] = FilledStatus(urls[w])]
      /\ UNCHANGED <<jobError, done>>
  BY <1>2, MaxUrlsAssumption DEF FillRows, SearchTypeOK
<1>5. c \notin overtaken => items[c] = 0 /\ done[c] = 0 /\ status[c] = "running"
  BY <1>2, <1>3, NoneAssumption
     DEF StillEmpty, TotalMatchesItems, DoneAreItems, HoldersRun, SearchTypeOK
<1>6. \A v \in Worker : v # w /\ held[v] # None /\ held[v] \notin overtaken => held[v] # c
  BY DEF OneHolder
<1>7. SearchTypeOK'
  BY <1>2, <1>3, <1>4 DEF SearchTypeOK, SafeInv, FilledStatus
<1>8. StillEmpty'
  BY <1>2, <1>3, <1>4, <1>6 DEF StillEmpty, SearchTypeOK, TypeOK
<1>9. DoneAreItems'
  BY <1>4 DEF DoneAreItems, SearchTypeOK
<1>10. (Answered(c))'
  BY <1>3, <1>4 DEF Answered, FilledStatus, SearchTypeOK
<1>11. ResultAnswers'
  <2> SUFFICES ASSUME NEW v \in Worker, pc'[v] = "ending", outcome'[v] = "result",
                      held[v] \notin overtaken
               PROVE  (Answered(held[v]))'
    BY <1>2, <1>3 DEF ResultAnswers
  <2>1. CASE v = w
    BY <2>1, <1>3, <1>10
  <2>2. CASE v # w
    <3>1. held[v] \in Command /\ held[v] # c /\ Answered(held[v])
      BY <2>2, <1>3, <1>6 DEF ResultAnswers, SearchTypeOK, TypeOK
    <3> QED
      BY <3>1, <1>3, <1>4 DEF Answered, SearchTypeOK
  <2> QED
    BY <2>1, <2>2
<1>12. TotalMatchesItems'
  BY <1>2, <1>3, <1>4, <1>5 DEF TotalMatchesItems, SearchTypeOK
<1>13. CompletedSearchIsAnswered' /\ FailedSearchExposesError'
  BY <1>2, <1>3, <1>4, <1>5 DEF CompletedSearchIsAnswered, FailedSearchExposesError, SearchTypeOK
<1>14. CompletedJobCountsAll'
  BY <1>2, <1>3, <1>4, <1>5 DEF CompletedJobCountsAll, FilledStatus, SearchTypeOK
<1> QED
  BY <1>3, <1>7, <1>8, <1>9, <1>11, <1>12, <1>13, <1>14

\* The steps of a handler keep it: a look, a discovery, a fill or a failure.
LEMMA ProcessKeepsJobs ==
  ASSUME SafeInv, SafeInv', JobInv, NEW w \in Worker, Process(w)
  PROVE  JobInv'
<1>1. CASE LookFilled(w)
  <2>1. held[w] \in Command
    BY <1>1 DEF LookFilled, Handled, JobInv, SearchTypeOK, TypeOK
  <2>2. Answered(held[w])
    BY <1>1, <2>1 DEF LookFilled, NeedsDiscovery, Answered, JobInv, SearchTypeOK
  <2> QED
    BY <1>1, <2>2, HandlerEndsKeepsJobs, Zenon DEF LookFilled
<1>2. CASE LookEmpty(w) \/ \E n \in 0..MaxUrls : Discover(w, n)
  BY <1>2, HandlerMovesKeepsJobs
<1>3. ASSUME NEW how \in {"retryable", "fatal"}, ProcessFails(w, how)
      PROVE  JobInv'
  BY <1>3, HandlerEndsKeepsJobs DEF ProcessFails
<1>4. CASE Fill(w) \/ FillLost(w)
  BY <1>4, FillKeepsJobs
<1>5. CASE FillClashes(w)
  BY <1>5, HandlerEndsKeepsJobs DEF FillClashes
<1> QED
  BY <1>1, <1>2, <1>3, <1>4, <1>5 DEF Process

\* A loop that lets its command go without a word to the queue.
LEMMA SilentEndKeepsJobs ==
  ASSUME SafeInv, SafeInv', JobInv, NEW w \in Worker, Release(w),
         UNCHANGED <<rows, jobs, overtaken>>,
         \/ pc[w] = "ending" /\ UNCHANGED handler
         \/ Over(w)
  PROVE  JobInv'
<1> USE DEF JobInv
<1>1. /\ \A v \in Worker : v # w => /\ pc'[v] = pc[v] /\ held'[v] = held[v]
                                     /\ outcome'[v] = outcome[v] /\ stage'[v] = stage[v]
      /\ pc'[w] = "idle" /\ stage'[w] = "none"
      /\ stage' \in [Worker -> {"none", "look", "discover", "fill"}]
      /\ urls' \in [Worker -> 0..MaxUrls]
  BY MaxUrlsAssumption DEF Release, Over, SearchTypeOK, TypeOK
<1>2. SearchTypeOK'
  BY <1>1 DEF SearchTypeOK, SafeInv
<1>3. HoldersRun' /\ OneHolder'
  BY ReleaseKeeps
<1>4. StillEmpty' /\ DoneAreItems' /\ ResultAnswers'
  BY <1>1 DEF StillEmpty, DoneAreItems, ResultAnswers, Answered
<1>5. /\ TotalMatchesItems' /\ CompletedSearchIsAnswered'
      /\ FailedSearchExposesError' /\ CompletedJobCountsAll'
  BY DEF TotalMatchesItems, CompletedSearchIsAnswered, FailedSearchExposesError,
         CompletedJobCountsAll
<1> QED
  BY <1>2, <1>3, <1>4, <1>5

\* CompleteCommand: the result that is written answers the search.
LEMMA CompleteKeepsJobs ==
  ASSUME SafeInv, SafeInv', JobInv, NEW w \in Worker, SearchComplete(w)
  PROVE  JobInv'
<1> USE DEF JobInv
<1>1. /\ pc[w] = "ending" /\ outcome[w] = "result" /\ Release(w)
      /\ EndRow(w, "completed") /\ UNCHANGED <<jobs, handler, overtaken>>
  BY DEF SearchComplete, Complete
<1>2. \A v \in Worker : /\ v # w => /\ pc'[v] = pc[v] /\ held'[v] = held[v]
                                     /\ outcome'[v] = outcome[v]
                        /\ pc'[v] = IF v = w THEN "idle" ELSE pc[v]
  BY <1>1 DEF Release, SearchTypeOK, TypeOK
<1>3. /\ held[w] \in Command
      /\ \A k \in Command : status'[k] = IF k = held[w] THEN "completed" ELSE status[k]
  BY <1>1 DEF EndRow, SearchTypeOK, TypeOK
<1>4. SearchTypeOK'
  BY <1>1, <1>2 DEF SearchTypeOK, SafeInv
<1>5. HoldersRun' /\ OneHolder'
  BY <1>1, EndKeeps
<1>6. StillEmpty' /\ DoneAreItems' /\ ResultAnswers'
  BY <1>1, <1>2 DEF StillEmpty, DoneAreItems, ResultAnswers, Answered, SearchTypeOK
<1>7. held[w] \notin overtaken => Answered(held[w])
  BY <1>1 DEF ResultAnswers
<1>8. CompletedSearchIsAnswered'
  BY <1>1, <1>3, <1>7 DEF CompletedSearchIsAnswered, Answered
<1>9. TotalMatchesItems' /\ FailedSearchExposesError' /\ CompletedJobCountsAll'
  BY <1>1, <1>3 DEF TotalMatchesItems, FailedSearchExposesError, CompletedJobCountsAll
<1> QED
  BY <1>4, <1>5, <1>6, <1>8, <1>9

\* FailCommand: a search that is not retried shows its error.
LEMMA FailKeepsJobs ==
  ASSUME SafeInv, SafeInv', JobInv, NEW w \in Worker, SearchFail(w)
  PROVE  JobInv'
<1> USE DEF JobInv
<1> DEFINE new == IF Retries(w) THEN "queued" ELSE "failed"
<1>1. /\ pc[w] = "ending" /\ Release(w) /\ EndRow(w, new)
      /\ ExposeErrors(FailedAfter \cap {held[w]})
      /\ UNCHANGED <<total, items, done, handler, overtaken>>
  BY DEF SearchFail, Fail
<1>2. \A v \in Worker : /\ v # w => /\ pc'[v] = pc[v] /\ held'[v] = held[v]
                                     /\ outcome'[v] = outcome[v]
                        /\ pc'[v] = IF v = w THEN "idle" ELSE pc[v]
  BY <1>1 DEF Release, SearchTypeOK, TypeOK
<1>3. /\ held[w] \in Command
      /\ \A k \in Command : status'[k] = IF k = held[w] THEN new ELSE status[k]
  BY <1>1 DEF EndRow, SearchTypeOK, TypeOK
<1>4. /\ \A k \in Command : /\ jobStatus'[k] = IF k \in FailedAfter \cap {held[w]} THEN "completed" ELSE jobStatus[k]
                            /\ jobError'[k] = (jobError[k] \/ k \in FailedAfter \cap {held[w]})
      /\ jobStatus' \in [Command -> {"absent", "queued", "running", "completed"}]
      /\ jobError' \in [Command -> BOOLEAN]
  BY <1>1 DEF ExposeErrors, SearchTypeOK
<1>5. SearchTypeOK'
  BY <1>1, <1>2, <1>4 DEF SearchTypeOK, SafeInv
<1>6. HoldersRun' /\ OneHolder'
  BY <1>1, EndKeeps
<1>7. \A k \in Command : Answered(k) => Answered(k)'
  BY <1>1, <1>4 DEF Answered
<1>8. StillEmpty' /\ DoneAreItems'
  BY <1>1, <1>2 DEF StillEmpty, DoneAreItems, SearchTypeOK
<1>9. ResultAnswers'
  BY <1>1, <1>2, <1>7 DEF ResultAnswers, SearchTypeOK, TypeOK
<1>10. TotalMatchesItems' /\ CompletedSearchIsAnswered'
  BY <1>1, <1>3, <1>7 DEF TotalMatchesItems, CompletedSearchIsAnswered, Answered
<1>11. FailedSearchExposesError'
  BY <1>1, <1>3, <1>4 DEF FailedSearchExposesError, FailedAfter
<1>12. CompletedJobCountsAll'
  BY <1>1, <1>3, <1>4 DEF CompletedJobCountsAll
<1> QED
  BY <1>5, <1>6, <1>8, <1>9, <1>10, <1>11, <1>12

\* Heartbeats and the passing of leases.
LEMMA LeaseKeepsJobs ==
  ASSUME SafeInv, SafeInv', JobInv,
         UNCHANGED <<status, pc, held, outcome, jobs, handler, overtaken>>
  PROVE  JobInv'
<1> USE DEF JobInv
<1>1. SearchTypeOK'
  BY DEF SearchTypeOK, SafeInv
<1>2. HoldersRun' /\ OneHolder' /\ StillEmpty' /\ DoneAreItems' /\ ResultAnswers'
  BY DEF HoldersRun, OneHolder, StillEmpty, DoneAreItems, ResultAnswers, Answered
<1>3. /\ TotalMatchesItems' /\ CompletedSearchIsAnswered'
      /\ FailedSearchExposesError' /\ CompletedJobCountsAll'
  BY DEF TotalMatchesItems, CompletedSearchIsAnswered, FailedSearchExposesError,
         CompletedJobCountsAll
<1> QED
  BY <1>1, <1>2, <1>3

\* Every step keeps the invariant.
LEMMA JobStep ==
  ASSUME SafeInv, SafeInv', JobInv, [SearchNext]_all
  PROVE  JobInv'
<1>1. ASSUME NEW c \in Command, SubmitSearch(c) \/ ItemClaimed(c) \/ ItemDone(c)
      PROVE  JobInv'
  BY <1>1, SubmitKeepsJobs, ItemClaimedKeepsJobs, ItemDoneKeepsJobs
<1>2. ASSUME NEW w \in Worker, NEW c \in Command, SearchClaim(w, c) \/ SearchClaimLost(w, c)
      PROVE  JobInv'
  BY <1>2, ClaimKeepsJobs
<1>3. ASSUME NEW w \in Worker, Process(w) PROVE JobInv'
  BY <1>3, ProcessKeepsJobs
<1>4. ASSUME NEW w \in Worker, SearchComplete(w) \/ SearchFail(w) PROVE JobInv'
  BY <1>4, CompleteKeepsJobs, FailKeepsJobs
<1>5. ASSUME NEW w \in Worker, SearchGivesUp(w) \/ SearchCrash(w) PROVE JobInv'
  <2>1. /\ Release(w) /\ UNCHANGED <<rows, jobs, overtaken>>
        /\ (pc[w] = "ending" /\ UNCHANGED handler) \/ Over(w)
    BY <1>5, Zenon DEF SearchGivesUp, SearchCrash, Rejected, EndAbort, Crash
  <2> QED
    BY <2>1, SilentEndKeepsJobs
<1>6. ASSUME SearchLease PROVE JobInv'
  <2>1. UNCHANGED <<status, pc, held, outcome, jobs, handler, overtaken>>
    BY <1>6 DEF SearchLease, Heartbeat, LeaseExpires
  <2> QED
    BY <2>1, LeaseKeepsJobs
<1>7. ASSUME UNCHANGED all PROVE JobInv'
  BY <1>7, LeaseKeepsJobs
<1> QED
  BY <1>1, <1>2, <1>3, <1>4, <1>5, <1>6, <1>7, Zenon DEF SearchNext, Ends

\* So it holds always.
LEMMA JobsHold == SearchSafety => []JobInv
<1>1. SearchInit => JobInv
  BY JobInit
<1>2. SafeInv /\ SafeInv' /\ JobInv /\ [SearchNext]_all => JobInv'
  BY JobStep
<1> QED
  BY <1>1, <1>2, SearchKeepsSafe, PTL DEF SearchSafety

\* Every variable of a search, its job and its handler keeps its type.
THEOREM SearchTypeCorrect == SearchSafety => []SearchTypeOK
<1>1. JobInv => SearchTypeOK
  BY DEF JobInv
<1> QED
  BY <1>1, JobsHold, PTL

\* Unless attempts overlap, retries never leave a job with items its total does
\* not count: the attempt that fills looked before, and is the only one.
THEOREM TotalsAreItems == SearchSafety => []TotalMatchesItems
<1>1. JobInv => TotalMatchesItems
  BY DEF JobInv
<1> QED
  BY <1>1, JobsHold, PTL

\* The total of a job is the number of its items, or was set back to 0.
TotalOfItems == \A c \in Command : total[c] \in {0, items[c]}

\* Items and total change only when a handler fills a job that has no items, or
\* fills it with nothing.
LEMMA OnlyFillsWrite ==
  ASSUME [SearchNext]_all
  PROVE  \/ UNCHANGED <<items, total>>
         \/ \E w \in Worker : stage[w] = "fill" /\ ~PositionTaken(w) /\ FillRows(w)
<1>1. ASSUME NEW c \in Command, SubmitSearch(c) \/ ItemClaimed(c) \/ ItemDone(c)
      PROVE  UNCHANGED <<items, total>>
  BY <1>1 DEF SubmitSearch, ItemClaimed, ItemDone
<1>2. ASSUME NEW w \in Worker, NEW c \in Command, SearchClaim(w, c) \/ SearchClaimLost(w, c)
      PROVE  UNCHANGED <<items, total>>
  BY <1>2 DEF SearchClaim, SearchClaimLost
<1>3. ASSUME NEW w \in Worker, Process(w)
      PROVE  \/ UNCHANGED <<items, total>>
             \/ stage[w] = "fill" /\ ~PositionTaken(w) /\ FillRows(w)
  BY <1>3 DEF Process, LookFilled, LookEmpty, Discover, ProcessFails, Fill, FillLost, FillClashes
<1>4. ASSUME NEW w \in Worker, Ends(w) \/ SearchCrash(w)
      PROVE  UNCHANGED <<items, total>>
  BY <1>4 DEF Ends, SearchComplete, SearchFail, SearchGivesUp, SearchCrash
<1>5. ASSUME SearchLease \/ UNCHANGED all
      PROVE  UNCHANGED <<items, total>>
  BY <1>5 DEF SearchLease
<1> QED
  BY <1>1, <1>2, <1>3, <1>4, <1>5, Zenon DEF SearchNext

\* A fill of a job with items writes no items and a total of 0.
LEMMA FillStep ==
  ASSUME SearchTypeOK, TotalOfItems, [SearchNext]_all
  PROVE  /\ TotalOfItems'
         /\ \A c \in Command : items[c] > 0 => items'[c] = items[c] /\ total'[c] \in {items[c], 0}
<1>1. CASE UNCHANGED <<items, total>>
  BY <1>1 DEF TotalOfItems
<1>2. ASSUME NEW w \in Worker, stage[w] = "fill", ~PositionTaken(w), FillRows(w)
      PROVE  /\ TotalOfItems'
             /\ \A c \in Command : items[c] > 0 => items'[c] = items[c] /\ total'[c] \in {items[c], 0}
  <2>1. /\ held[w] \in Command /\ urls[w] \in Nat
        /\ items \in [Command -> Nat] /\ total \in [Command -> Nat]
    BY <1>2, MaxUrlsAssumption DEF SearchTypeOK, TypeOK
  <2>2. /\ items' = [items EXCEPT ![held[w]] = @ + urls[w]]
        /\ total' = [total EXCEPT ![held[w]] = urls[w]]
        /\ urls[w] = 0 \/ items[held[w]] = 0
    BY <1>2, <2>1 DEF FillRows, PositionTaken
  <2> QED
    BY <2>1, <2>2 DEF TotalOfItems
<1> QED
  BY <1>1, <1>2, OnlyFillsWrite

\* However attempts overlap, a job with items is never given those of another
\* discovery, and its total stays their number or is set back to 0.
THEOREM JobsAreFilledOnce == SearchSafety => FilledOnce
<1>1. SearchInit => TotalOfItems
  BY DEF SearchInit, TotalOfItems
<1>2. JobInv /\ TotalOfItems /\ [SearchNext]_all => TotalOfItems'
  BY FillStep DEF JobInv
<1>3. JobInv /\ TotalOfItems /\ [SearchNext]_all =>
        [\A c \in Command : items[c] > 0 =>
           items'[c] = items[c] /\ total'[c] \in {items[c], 0}]_all
  BY FillStep DEF JobInv
<1> QED
  BY <1>1, <1>2, <1>3, JobsHold, PTL DEF SearchSafety, FilledOnce

\* Unless attempts overlap, a search that completed has filled its job or found
\* nothing.
THEOREM CompletedSearchesAreAnswered == SearchSafety => []CompletedSearchIsAnswered
<1>1. JobInv => CompletedSearchIsAnswered
  BY DEF JobInv
<1> QED
  BY <1>1, JobsHold, PTL

\* Unless attempts overlap, a search that failed shows its error, or was answered
\* in full before, on whichever of the two paths it failed.
THEOREM FailedSearchesShowErrors == SearchSafety => []FailedSearchExposesError
<1>1. JobInv => FailedSearchExposesError
  BY DEF JobInv
<1> QED
  BY <1>1, JobsHold, PTL

\* Unless attempts overlap, a job reported as completed without an error has
\* counted every item.
THEOREM CompletedJobsAreCounted == SearchSafety => []CompletedJobCountsAll
<1>1. JobInv => CompletedJobCountsAll
  BY DEF JobInv
<1> QED
  BY <1>1, JobsHold, PTL
=============================================================================
