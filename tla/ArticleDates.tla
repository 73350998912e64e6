----------------------------- MODULE ArticleDates -----------------------------
(***************************************************************************)
(* When an article was published, and which month of a report it counts    *)
(* for: what the extractor reads from the texts of a page                  *)
(* (src/internal/extractor/extractor.go articleTime, dates.go              *)
(* ParseArticleTime), how the worker classifies it when the item ends      *)
(* (store.go classifyDate) and how the middleware, with dates of its own,  *)
(* reports the stored result (postgres_gateway.py _stored_date_report).    *)
(***************************************************************************)
EXTENDS DateRange, FiniteSetsExt, Functions

(***************************************************************************)
(* A text is [kind, date, hour, offset]: empty, no date at all ("junk"), a *)
(* bare date, a date with a local time, or one with its zone as well.      *)
(* Minutes and seconds never move an article to another day.               *)
(***************************************************************************)
RealDate(d) == d.month \in 1..12 /\ d.day \in 1..DaysInMonth(d.year, d.month)

DayBefore(d) == IF d.day > 1 THEN [d EXCEPT !.day = @ - 1]
                ELSE IF d.month > 1 THEN LastOfMonth(d.year, d.month - 1)
                ELSE LastOfMonth(d.year - 1, 12)

\* The date and hour n hours after the start of day d, less than a day away.
Clock(d, n) == CASE n < 0 -> [date |-> DayBefore(d), hour |-> n + 24]
                 [] n \in 0..23 -> [date |-> d, hour |-> n]
                 [] n > 23 -> [date |-> NextDay(d), hour |-> n - 24]

ParseArticleTime(text) ==
  LET dated == text.kind \in {"day", "local", "zoned"} /\ RealDate(text.date)
  IN [date |-> IF dated THEN text.date ELSE None,
      utc |-> IF dated /\ text.kind = "zoned" THEN Clock(text.date, text.hour - text.offset) ELSE None]

\* The texts come in the order JSON-LD, two kinds of meta element, itemprop.
\* The first that is a date counts, then the date readability found.
ArticleTime(texts, readable) ==
  LET dated == {k \in DOMAIN texts : ParseArticleTime(texts[k]).date # None}
  IN IF dated # {} THEN ParseArticleTime(texts[Min(dated)]) ELSE ParseArticleTime(readable)

(***************************************************************************)
(* The worker.                                                             *)
(***************************************************************************)
ClassifyDate(time, range, offset) ==
  LET day == IF time.utc # None THEN Clock(time.utc.date, time.utc.hour + offset).date ELSE time.date
      inside == NotAfter(range.start, day) /\ NotAfter(day, range.end)
  IN IF time.date = None THEN [status |-> "unknown", basis |-> None]
     ELSE [status |-> IF inside THEN "in_range" ELSE "out_of_range",
           basis |-> IF time.utc # None THEN "report_timezone" ELSE "source_date"]

(***************************************************************************)
(* The middleware.  An item is [status, time, date], date being what the   *)
(* worker has stored with an article.                                      *)
(***************************************************************************)
Month(d) == [year |-> d.year, month |-> d.month]
MonthKeys(range) ==
  {[year |-> n \div 12, month |-> (n % 12) + 1] :
     n \in (range.start.year * 12 + range.start.month - 1) .. (range.end.year * 12 + range.end.month - 1)}

BareDate(time, basis, offset) == time.date
PublishedDate(time, basis, offset) ==
  IF basis = "report_timezone" /\ time.utc # None
  THEN Clock(time.utc.date, time.utc.hour + offset).date ELSE time.date

DateReport(items, range, offset) ==
  LET ended == {i \in items : i.status = "success"}
      inRange == {i \in ended : i.date.status = "in_range"}
      month(i) == Month(PublishedDate(i.time, i.date.basis, offset))
  IN [pending |-> Cardinality({i \in items : i.status \in {"queued", "running"}}),
      failed |-> Cardinality({i \in items : i.status = "failed"}),
      in_range |-> Cardinality(inRange),
      out_of_range |-> Cardinality({i \in ended : i.date.status = "out_of_range"}),
      unknown_date |-> Cardinality({i \in ended : i.date.status = "unknown"}),
      by_month |-> [m \in MonthKeys(range) \cup {month(i) : i \in inRange} |->
                      Cardinality({i \in inRange : month(i) = m})]]
=============================================================================
