------------------------------- MODULE PageWalk -------------------------------
(***************************************************************************)
(* How the calls of one dated search walk through the months and pages of  *)
(* the provider (src/internal/search/search.go advance).  A call copies    *)
(* the checkpoint, asks for pages until it has its articles or its pages,  *)
(* and stores the job and the checkpoint in one commit, or nothing.  The   *)
(* row of the run is locked meanwhile, so calls do not overlap; which call *)
(* may run is the subject of SearchRuns, and DatedSearch joins the two.    *)
(* Between the calls days pass, and every call works out the date range    *)
(* again, by the clock of the worker: around midnight it may still have    *)
(* the day before the middleware's.                                        *)
(***************************************************************************)
EXTENDS ArticleDates, SequencesExt

CONSTANTS
  Url,          \* what the provider may offer, normalised
  Request,      \* what clients ask for: the dates, max_articles and max_pages
  FirstToday, LastToday,  \* bound: the days on which this happens
  Article,      \* the texts of pages: [texts, readable]
  Offset,       \* hours of the time zones a request may name
  SlowClocks,   \* TRUE: the day of a worker may be the one before
  PageSize,     \* bound: usable links on one page
  MaxFaults     \* bound: calls that fail and roll back

Date == [year : Nat, month : 1..12, day : 1..31]

ASSUME UrlAssumption == IsFiniteSet(Url)
ASSUME NoneAssumption == None \notin Date

\* What the fields of models.py SearchRequest let through: dates of the calendar.
SearchFields(r) ==
  /\ r = [day |-> r.day, month |-> r.month, year |-> r.year, start |-> r.start, end |-> r.end,
          max_articles |-> r.max_articles, max_pages |-> r.max_pages]
  /\ r.day \in 1..31 \cup {None} /\ r.month \in 1..12 \cup {None} /\ r.year \in Nat \cup {None}
  /\ \A d \in {r.start, r.end} \ {None} : d \in Date /\ RealDate(d)
  /\ r.max_articles \in 1..50 /\ r.max_pages \in 1..5

ASSUME RequestAssumption == \A r \in Request : SearchFields(r)

PageText == [kind : {"empty", "junk", "day", "local", "zoned"},
             date : [year : Nat, month : Nat, day : Nat], hour : 0..23, offset : -23..23]

ASSUME ArticleAssumption ==
  IsFiniteSet(Article) /\ \A a \in Article : a.readable \in PageText /\ a.texts \in Seq(PageText)
ASSUME ClockAssumption ==
  /\ \A d \in {FirstToday, LastToday} : d \in Date /\ RealDate(d)
  /\ SlowClocks \in BOOLEAN /\ Offset \subseteq -23..23
ASSUME BoundAssumption == PageSize \in Nat /\ MaxFaults \in Nat

VARIABLES
  stored,     \* request_json
  criteria,   \* the date_filter that the client was told
  today,
  saved,      \* state_json: the checkpoint
  status,     \* search_runs.status
  refusedOn,  \* history: the day on which a worker did not accept the request
  walk,       \* the copy of the checkpoint a call works on
  windows,    \* the month windows of that call
  calling,    \* a call is at work
  collected,  \* its URLs
  pages,      \* the pages it has fetched
  delivered,  \* how many items the jobs of the run have for a URL
  faults

request == <<stored, criteria>>
call == <<walk, windows, calling, collected, pages>>
vars == <<request, today, saved, status, refusedOn, call, delivered, faults>>

\* Two fields are history: asked, what the provider was asked for in the months
\* the walk has left behind, and pendingFrom, the windows in which the pending
\* URLs were found.
Start == [month |-> 0, offset |-> 0, pending |-> <<>>, seen |-> {}, fingerprints |-> {},
          pages |-> 0, asked |-> <<>>, pendingFrom |-> {}]

\* The run as submit_search stores it: nothing is discovered, no call at work.
Submitted ==
  /\ today = FirstToday
  /\ \E r \in Request :
       /\ IsDated(r) /\ MiddlewareAccepts(r, today)
       /\ stored = Canonical(r, today)
       /\ criteria = Named(r, today)
  /\ saved = Start
  /\ walk = Start /\ windows = <<>> /\ calling = FALSE /\ collected = <<>> /\ pages = 0
  /\ delivered = [u \in Url |-> 0]
  /\ refusedOn = None

Init == Submitted /\ status = "ready" /\ faults = 0

DayPasses ==
  /\ today # LastToday
  /\ today' = NextDay(today)
  /\ UNCHANGED <<request, saved, status, refusedOn, call, delivered, faults>>

\* What is pending from earlier calls comes first.
Taken(s) == IF stored.max_articles < Len(s.pending) THEN stored.max_articles ELSE Len(s.pending)

\* The days a worker may take for today.
WorkerDays == IF SlowClocks THEN {today, DayBefore(today)} ELSE {today}

\* The lock is taken, the range worked out and the checkpoint copied.
Enter(day) ==
  /\ ~calling /\ status = "ready" /\ WorkerAccepts(stored, day)
  /\ calling' = TRUE
  /\ windows' = MonthWindows(Named(stored, day))
  /\ LET n == Taken(saved)
         rest == SubSeq(saved.pending, n + 1, Len(saved.pending))
     IN /\ collected' = SubSeq(saved.pending, 1, n)
        /\ walk' = [saved EXCEPT !.pending = rest,
                                 !.pendingFrom = IF rest = <<>> THEN {} ELSE @]
  /\ pages' = 0
  /\ UNCHANGED <<request, today, saved, status, refusedOn, delivered, faults>>

Begin == \E day \in WorkerDays : Enter(day)

\* A request that a worker does not accept is a fatal error: it fails the run.
Refuse ==
  /\ ~calling /\ status = "ready"
  /\ \E day \in WorkerDays : ~WorkerAccepts(stored, day)
  /\ status' = "failed" /\ refusedOn' = today
  /\ UNCHANGED <<request, today, saved, call, delivered, faults>>

WantsOneMore == /\ Len(collected) < stored.max_articles /\ walk.month < Len(windows)
                /\ pages <= stored.max_pages
WantsMore == /\ Len(collected) < stored.max_articles /\ walk.month < Len(windows)
             /\ pages < stored.max_pages

\* The links of a page that the run has not seen before.
Fresh == {p \in SeqOf(Url \ walk.seen, PageSize) : IsInjective(p)}

RestDropped(p, n) == walk.pending
RestKept(p, n) == walk.pending \o SubSeq(p, n + 1, Len(p))

NotRemembered(p) == walk.fingerprints
Remembered(p) == walk.fingerprints \cup {p}

\* The provider is asked for a day more at both ends: it may date an article by
\* another zone.
NotWidened(w) == w
Widened(w) == [lower |-> DayBefore(w.lower), upper |-> NextDay(w.upper)]

\* discoverPage and what advance does with its result.  Links seen before are
\* filtered out, so only a page without a fresh link can repeat.
Page(p, hasNext) ==
  LET repeated == p \in walk.fingerprints
      room == stored.max_articles - Len(collected)
      n == IF room < Len(p) THEN room ELSE Len(p)
      leaves == ~hasNext \/ repeated
  IN /\ calling /\ WantsMore
     /\ pages' = pages + 1
     /\ collected' = IF repeated THEN collected ELSE collected \o SubSeq(p, 1, n)
     /\ walk' = [walk EXCEPT
          !.seen = @ \cup ToSet(p),
          !.pending = IF repeated THEN @ ELSE RestKept(p, n),
          !.month = IF leaves THEN @ + 1 ELSE @,
          !.offset = IF leaves THEN 0 ELSE @ + 10,
          !.fingerprints = IF leaves THEN {} ELSE Remembered(p),
          !.asked = IF leaves THEN Append(@, Widened(windows[walk.month + 1])) ELSE @,
          !.pendingFrom = IF repeated \/ n = Len(p) THEN @ ELSE @ \cup {walk.month}]
     /\ UNCHANGED <<request, today, saved, status, refusedOn, windows, calling, delivered, faults>>

CallEnds == /\ calling' = FALSE /\ collected' = <<>> /\ pages' = 0
            /\ walk' = Start /\ windows' = <<>>

AllWalked(s) == s.month >= Len(windows) /\ s.pending = <<>>

Commit ==
  /\ calling /\ ~WantsMore
  /\ saved' = [walk EXCEPT !.pages = @ + pages]
  /\ delivered' = [u \in Url |->
                     delivered[u] + Cardinality({i \in DOMAIN collected : collected[i] = u})]
  /\ status' = IF AllWalked(walk) THEN "discovery_complete" ELSE "ready"
  /\ CallEnds
  /\ UNCHANGED <<request, today, refusedOn, faults>>

\* The provider or a statement failed, or the worker died: nothing is stored.
\* The run fails with the command, when the provider's answer says that another
\* attempt is useless (fetchPage) or no attempt is left.
Rollback(outcome) ==
  /\ calling /\ faults < MaxFaults
  /\ CallEnds
  /\ status' = outcome
  /\ faults' = faults + 1
  /\ UNCHANGED <<request, today, saved, refusedOn, delivered>>

Walks == \/ Begin \/ Refuse \/ Commit
         \/ \E p \in Fresh, hasNext \in BOOLEAN : Page(p, hasNext)
Next == \/ Walks \/ DayPasses
        \/ \E outcome \in {"ready", "failed"} : Rollback(outcome)

\* The client continues the search until it is complete; the provider answers
\* or times out.
Spec == Init /\ [][Next]_vars /\ WF_vars(Walks)

(***************************************************************************)
(* What search_progress tells the client.  Its range is that of the stored *)
(* request.                                                                *)
(***************************************************************************)
MonthsTotal == MonthCount([start |-> stored.start, end |-> stored.end])

\* A month is complete when no URL of its last page is pending either.
MonthsLeft(s) == s.month
MonthsCompleted(s) ==
  LET n == IF s.pending # <<>> /\ s.offset = 0 THEN s.month - 1 ELSE s.month
  IN IF n < 0 THEN 0 ELSE IF n > MonthsTotal THEN MonthsTotal ELSE n

CurrentWindow ==
  LET n == MonthsCompleted(saved)
      index == IF n < MonthsTotal THEN n ELSE MonthsTotal - 1
  IN ReportedWindow([start |-> stored.start, end |-> stored.end], index)

(***************************************************************************)
(* Properties.                                                             *)
(***************************************************************************)

Window == [lower : Date, upper : Date]
Checkpoint == [month : Nat, offset : Nat, pending : Seq(Url), seen : SUBSET Url,
               fingerprints : SUBSET Seq(Url), pages : Nat,
               asked : Seq(Window), pendingFrom : SUBSET Nat]

\* Every variable keeps its type; no call exceeds the limits of the request.
TypeOK ==
  /\ criteria \in [start : Date, end : Date] /\ today \in Date
  /\ saved \in Checkpoint /\ walk \in Checkpoint
  /\ status \in {"ready", "discovery_complete", "failed"}
  /\ calling \in BOOLEAN /\ windows \in Seq(Window)
  /\ collected \in Seq(Url) /\ Len(collected) <= stored.max_articles
  /\ pages \in 0..stored.max_pages
  /\ delivered \in [Url -> Nat] /\ refusedOn \in Date \cup {None}
  /\ faults \in 0..MaxFaults

Pending(u) == Cardinality({i \in DOMAIN saved.pending : saved.pending[i] = u})

\* A URL the run has seen is in exactly one place, one job or the pending list,
\* and a URL it has not seen in none: across calls, also after calls that rolled
\* back, nothing is lost and nothing is scraped twice.
SeenIsInOnePlace ==
  \A u \in Url : delivered[u] + Pending(u) = IF u \in saved.seen THEN 1 ELSE 0

\* Whatever the provider answers, a run uses a bounded part of the quota: every
\* page but two for each month brings a URL.
PagesAreBounded == saved.pages <= Cardinality(Url) + 2 * MonthsTotal

Within(d, w) == NotAfter(w.lower, d) /\ NotAfter(d, w.upper)

\* A complete run has asked for every day of the range the client was told
\* together with the day before and the day after, where an article of that day
\* may be dated too: once, at the ends of months as well, and so for no other
\* day, whatever days passed between its calls.
AskedFor(d) ==
  {k \in DOMAIN saved.asked : \A e \in {DayBefore(d), d, NextDay(d)} : Within(e, saved.asked[k])}

EveryDayIsAsked ==
  status = "discovery_complete" =>
    \A d \in [year : (criteria.start.year - 1)..(LastToday.year + 1), month : 1..12, day : 1..31] :
      RealDate(d) =>
        Cardinality(AskedFor(d)) = IF NotAfter(criteria.start, d) /\ NotAfter(d, criteria.end) THEN 1 ELSE 0

\* The window that search_progress shows is the one whose URLs are being handed
\* out or, if none is pending, the one the next call asks for; a month counts as
\* complete once all of its URLs are in jobs.
ProgressIsTruthful ==
  /\ status = "ready" =>
       /\ saved.pendingFrom \subseteq {MonthsCompleted(saved)}
       /\ saved.pending = <<>> => MonthsCompleted(saved) = saved.month
       /\ MonthsCompleted(saved) < Len(MonthWindows(criteria))
       /\ CurrentWindow = MonthWindows(criteria)[MonthsCompleted(saved) + 1]
  /\ status = "discovery_complete" => MonthsCompleted(saved) = Len(saved.asked)

\* The reports of the jobs, whichever articles their items turn out to be: an
\* article that the worker finds in range counts for a month of the walk and
\* of no other, although the middleware works out its day anew; and every
\* article counts once.
StoredItem(a, z) ==
  LET time == ArticleTime(a.texts, a.readable)
  IN [article |-> a, status |-> "success", time |-> time, date |-> ClassifyDate(time, criteria, z)]

ReportAddsUp ==
  \A z \in Offset :
    (\E u \in Url : delivered[u] > 0) =>
      LET report == DateReport({StoredItem(a, z) : a \in Article}, criteria, z)
      IN /\ DOMAIN report.by_month = {Month(w.lower) : w \in ToSet(MonthWindows(criteria))}
         /\ SumFunction(report.by_month) = report.in_range
         /\ report.in_range + report.out_of_range + report.unknown_date = Cardinality(Article)

\* A run that is continued gets complete, also when the provider always claims
\* to have a next page and whatever day it is; only a failed call may fail it,
\* or a worker whose clock is behind, on the very day on which the range ends.
RunEnds ==
  <>(\/ status = "discovery_complete"
     \/ status = "failed" /\ (faults > 0 \/ refusedOn = criteria.end))
=============================================================================
