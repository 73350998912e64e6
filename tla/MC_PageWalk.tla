----------------------------- MODULE MC_PageWalk -----------------------------
(***************************************************************************)
(* Instance of PageWalk for TLC: the day is the end of February 2028, and  *)
(* the next day a new month.                                               *)
(***************************************************************************)
EXTENDS PageWalk

CONSTANTS u1, u2, u3

LeapDay == Day(2028, 2, 29)
DayAfter == Day(2028, 3, 1)

Asks(day, month, year, start, end) ==
  {[day |-> day, month |-> month, year |-> year, start |-> start, end |-> end,
    max_articles |-> n, max_pages |-> 2] : n \in 1..2}

\* One for each kind of filter, and some that are refused: a day that February
\* does not have, a month and an end to come, four months, two filters.
SomeRequests == UNION {
  Asks(29, None, None, None, None),
  Asks(None, 2, None, None, None),
  Asks(None, 1, None, None, None),
  Asks(None, None, 2028, None, None),
  Asks(None, None, None, Day(2028, 1, 31), None),
  Asks(None, None, None, Day(2027, 11, 30), Day(2028, 1, 1)),
  Asks(30, None, None, None, None),
  Asks(None, 3, None, None, None),
  Asks(None, None, None, Day(2028, 2, 1), Day(2028, 3, 1)),
  Asks(None, None, None, Day(2027, 11, 30), None),
  Asks(1, 2, None, None, None)}

Text(kind, date, hour, offset) == [kind |-> kind, date |-> date, hour |-> hour, offset |-> offset]
NoText == Text("empty", LeapDay, 0, 0)
Shown(text) == [texts |-> <<NoText, text>>, readable |-> NoText]

\* Articles around the ends of months: the zone of the text or of the report
\* takes some of them to another day.  The last three have a date that does not
\* exist before a good one, a good one from readability only, and none.
SomeArticles ==
  {Shown(Text("zoned", d, h, o)) :
     d \in {LeapDay, Day(2027, 12, 31)}, h \in {0, 16, 23}, o \in {-5, 0, 7}}
  \cup {Shown(Text(k, d, 23, 0)) : k \in {"day", "local"}, d \in {LeapDay, Day(2028, 1, 31)}}
  \cup {[texts |-> <<Text("day", Day(2028, 2, 30), 0, 0), Text("day", LeapDay, 0, 0)>>, readable |-> NoText],
        [texts |-> <<NoText, Text("junk", LeapDay, 0, 0)>>, readable |-> Text("zoned", LeapDay, 20, 0)],
        [texts |-> <<Text("junk", LeapDay, 0, 0)>>, readable |-> NoText]}
=============================================================================
