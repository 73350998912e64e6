--------------------------- MODULE MC_DatedSearch ---------------------------
(***************************************************************************)
(* An instance of DatedSearch for TLC: two months, and calls of one        *)
(* article.                                                                *)
(***************************************************************************)
EXTENDS DatedSearch, TLC

CONSTANTS w1, w2, c0, c1, u1, u2

Date(y, m, d) == [year |-> y, month |-> m, day |-> d]
Today == Date(2028, 3, 1)
Tomorrow == Date(2028, 3, 2)
TwoMonths == {[day |-> None, month |-> None, year |-> None, start |-> Date(2028, 2, 29),
               end |-> None, max_articles |-> 1, max_pages |-> 2]}

\* Workers are alike, and so are URLs.
Alike == Permutations({w1, w2}) \cup Permutations({u1, u2})
=============================================================================
