------------------------------- MODULE JobReads -------------------------------
(***************************************************************************)
(* A client polls a job while the workers are at it (postgres_gateway.py   *)
(* get).  The gateway takes two SELECTs in one READ COMMITTED transaction: *)
(* the row of the job and then its items, each from a snapshot of its own. *)
(* Between the two, items end, are claimed and are queued again.           *)
(***************************************************************************)
EXTENDS ItemQueue

VARIABLES
  row,    \* what the first SELECT returned, None when no get is under way
  answer  \* the response the client has last got, None before and meanwhile

reader == <<row, answer>>
observed == <<vars, reader>>

ReadInit == Init /\ row = None /\ answer = None

JobRow(j) == [job |-> j, status |-> jobStatus[j], completed |-> completed[j],
              succeeded |-> succeeded[j], failed |-> failed[j]]
ItemRows(j) == [i \in JobItems(j) |-> status[i]]

\* A job that does not exist is answered with job_not_found.
SelectJob(j) ==
  /\ row = None /\ jobStatus[j] # "absent"
  /\ row' = JobRow(j)
  /\ answer' = None
  /\ UNCHANGED vars

SelectItems ==
  /\ row # None
  /\ answer' = [row |-> row, items |-> ItemRows(row.job)]
  /\ row' = None
  /\ UNCHANGED vars

ReadNext == \/ Next /\ UNCHANGED reader
            \/ \E j \in Job : SelectJob(j)
            \/ SelectItems

ReadSpec == ReadInit /\ [][ReadNext]_observed

(***************************************************************************)
(* Properties.                                                             *)
(***************************************************************************)
Shown(a, st) == {i \in DOMAIN a.items : a.items[i] = st}

\* A response never contradicts itself although its two halves are of
\* different moments: its counters count no item that it does not show as
\* ended, and when it says completed it shows every item's end, exactly
\* counted.  A client that stops polling at "completed" has all results.
AnswerIsConsistent ==
  answer # None =>
    LET shownSucceeded == Cardinality(Shown(answer, "success"))
        shownFailed == Cardinality(Shown(answer, "failed"))
    IN /\ answer.row.completed = answer.row.succeeded + answer.row.failed
       /\ answer.row.succeeded <= shownSucceeded
       /\ answer.row.failed <= shownFailed
       /\ answer.row.status = "completed" =>
            /\ answer.row.succeeded = shownSucceeded /\ answer.row.failed = shownFailed
            /\ \A i \in DOMAIN answer.items : answer.items[i] \in Terminal
=============================================================================
