------------------------------ MODULE DateRange ------------------------------
(***************************************************************************)
(* The date filters of a search: which days a request names, what the      *)
(* middleware stores for it (models.py SearchRequest), what a worker makes *)
(* of the stored request at every call (search.go normalizeDateRange), and *)
(* the month windows it walks (monthWindows).  "today" is the day in the   *)
(* time zone of the request.                                               *)
(***************************************************************************)
EXTENDS Integers, FiniteSets, Sequences

CONSTANTS
  MaxMonths,  \* calendar months a search may span (120)
  None

ASSUME MaxMonthsAssumption == MaxMonths \in Nat \ {0}

(***************************************************************************)
(* The calendar.                                                           *)
(***************************************************************************)
Day(y, m, d) == [year |-> y, month |-> m, day |-> d]

IsLeap(y) == y % 4 = 0 /\ (y % 100 # 0 \/ y % 400 = 0)
DaysInMonth(y, m) == IF m \in {4, 6, 9, 11} THEN 30
                     ELSE IF m # 2 THEN 31 ELSE IF IsLeap(y) THEN 29 ELSE 28
LastOfMonth(y, m) == Day(y, m, DaysInMonth(y, m))

NotAfter(a, b) ==
  \/ a.year < b.year
  \/ a.year = b.year /\ a.month < b.month
  \/ a.year = b.year /\ a.month = b.month /\ a.day <= b.day
Later(a, b) == IF NotAfter(a, b) THEN b ELSE a
Earlier(a, b) == IF NotAfter(a, b) THEN a ELSE b

NextMonth(d) == IF d.month = 12 THEN Day(d.year + 1, 1, 1) ELSE Day(d.year, d.month + 1, 1)
NextDay(d) == IF d = LastOfMonth(d.year, d.month) THEN NextMonth(d)
              ELSE [d EXCEPT !.day = @ + 1]

\* The calendar months that a range touches, counted as both languages do.
MonthCount(r) == (r.end.year - r.start.year) * 12 + r.end.month - r.start.month + 1

(***************************************************************************)
(* Requests: day, month, year, start and end, each of them None when the   *)
(* client leaves it out.                                                   *)
(***************************************************************************)
Selectors(r) == {f \in {"day", "month", "year"} : r[f] # None}
IsDated(r) == Selectors(r) # {} \/ r.start # None

WellFormed(r) == /\ Cardinality(Selectors(r)) <= 1
                 /\ Selectors(r) # {} => r.start = None /\ r.end = None
                 /\ r.end # None => r.start # None

ThroughToday(r, today) ==
  [start |-> IF r.start = None THEN today ELSE r.start, end |-> today]

\* A month or year that has not ended is cut off at today.
Named(r, today) ==
  CASE r.day # None ->
         LET d == Day(today.year, today.month, r.day) IN [start |-> d, end |-> d]
    [] r.month # None ->
         [start |-> Day(today.year, r.month, 1),
          end |-> IF r.month = today.month THEN today ELSE LastOfMonth(today.year, r.month)]
    [] r.year # None ->
         [start |-> Day(r.year, 1, 1),
          end |-> IF r.year = today.year THEN today ELSE LastOfMonth(r.year, 12)]
    [] OTHER -> [start |-> r.start, end |-> IF r.end = None THEN today ELSE r.end]

\* A selector for a day, month or year to come names a range that ends later.
Acceptable(r, today) ==
  /\ WellFormed(r)
  /\ r.day # None => r.day <= DaysInMonth(today.year, today.month)
  /\ LET range == Named(r, today)
     IN /\ NotAfter(range.start, range.end)
        /\ NotAfter(range.end, today)
        /\ MonthCount(range) <= MaxMonths

YearAllowed(year) == year \in 1900..2100

MiddlewareAccepts(r, today) ==
  /\ Acceptable(r, today)
  /\ YearAllowed(Named(r, today).start.year) /\ YearAllowed(Named(r, today).end.year)

WorkerAccepts(r, today) ==
  /\ Acceptable(r, today)
  /\ r.year # None => YearAllowed(r.year)

\* What validate_dates leaves in the request that is stored: only the range.
SelectorsKept(r, today) ==
  [r EXCEPT !.start = Named(r, today).start, !.end = Named(r, today).end]
Canonical(r, today) ==
  [r EXCEPT !.day = None, !.month = None, !.year = None,
            !.start = Named(r, today).start, !.end = Named(r, today).end]

(***************************************************************************)
(* The windows: one per calendar month, cut off at the ends of the range.  *)
(***************************************************************************)
MonthWindows(range) ==
  LET cursor[k \in 1..MaxMonths] ==
        IF k = 1 THEN Day(range.start.year, range.start.month, 1) ELSE NextMonth(cursor[k - 1])
      reached == {k \in 1..MaxMonths : NotAfter(cursor[k], range.end)}
  IN [k \in 1..Cardinality(reached) |->
        [lower |-> Later(cursor[k], range.start),
         upper |-> Earlier(LastOfMonth(cursor[k].year, cursor[k].month), range.end)]]

\* The window with this index as search_progress computes it for the client.
ReportedWindow(range, index) ==
  LET n == range.start.month - 1 + index
      year == range.start.year + n \div 12
      month == (n % 12) + 1
  IN [lower |-> Later(range.start, Day(year, month, 1)),
      upper |-> Earlier(range.end, LastOfMonth(year, month))]
=============================================================================
