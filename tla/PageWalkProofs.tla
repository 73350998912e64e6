--------------------------- MODULE PageWalkProofs ---------------------------
(***************************************************************************)
(* The invariants of a dated search, for any URLs, requests, clocks,       *)
(* pages and articles, and however many calls fail. First that every URL   *)
(* seen is in one place: the dates do not matter to it, only that a page   *)
(* taken ends somewhere. Then the calendar: the windows a range is cut     *)
(* into, month by month. Then the walk: where a checkpoint stands among    *)
(* those windows, and what its pages cost. Last the report of the          *)
(* articles.                                                               *)
(***************************************************************************)
EXTENDS PageWalk, FiniteSetTheorems, SequenceTheorems, WellFoundedInduction, TLAPS

(***************************************************************************)
(* How often a URL occurs in a sequence.                                   *)
(***************************************************************************)
Occurs(s, u) == Cardinality({i \in DOMAIN s : s[i] = u})

\* How often a URL occurs is a number,
LEMMA OccursType ==
  ASSUME NEW s \in Seq(Url), NEW u
  PROVE  IsFiniteSet({i \in DOMAIN s : s[i] = u}) /\ Occurs(s, u) \in Nat
<1>1. IsFiniteSet(1..Len(s))
  BY FS_Interval
<1>2. {i \in DOMAIN s : s[i] = u} \in SUBSET (1..Len(s))
  OBVIOUS
<1>3. IsFiniteSet({i \in DOMAIN s : s[i] = u})
  BY <1>1, <1>2, FS_Subset, Zenon
<1> QED
  BY <1>3, FS_CardinalityType DEF Occurs

\* adds up over sequences that are joined,
LEMMA OccursConcat ==
  ASSUME NEW s \in Seq(Url), NEW t \in Seq(Url), NEW u
  PROVE  Occurs(s \o t, u) = Occurs(s, u) + Occurs(t, u)
<1> DEFINE S == {i \in DOMAIN s : s[i] = u}
           T == {i \in DOMAIN t : t[i] = u}
           Shift == [i \in T |-> i + Len(s)]
           Shifted == {i + Len(s) : i \in T}
<1>1. IsFiniteSet(S) /\ IsFiniteSet(T)
  BY OccursType
<1>2. Shift \in Bijection(T, Shifted)
  BY DEF Bijection, Injection, Surjection, IsInjective
<1>3. IsFiniteSet(Shifted) /\ Cardinality(Shifted) = Cardinality(T)
  BY <1>1, <1>2, FS_Bijection DEF ExistsBijection
<1>4. {i \in DOMAIN (s \o t) : (s \o t)[i] = u} = S \cup Shifted
  OBVIOUS
<1>5. S \cap Shifted = {}
  OBVIOUS
<1>6. Cardinality(S) \in Nat /\ Cardinality(T) \in Nat
  BY <1>1, FS_CardinalityType
<1> HIDE DEF S, T, Shift, Shifted
<1>7. Cardinality(S \cup Shifted)
        = Cardinality(S) + Cardinality(Shifted) - Cardinality(S \cap Shifted)
  BY <1>1, <1>3, FS_Union
<1>8. Cardinality(S \cap Shifted) = 0
  BY <1>5, FS_EmptySet, Zenon
<1>9. Cardinality(S \cup Shifted) = Cardinality(S) + Cardinality(T)
  BY <1>3, <1>6, <1>7, <1>8
<1> QED
  BY <1>4, <1>9, Zenon DEF Occurs, S, T

\* Cutting a sequence in two loses nothing.
LEMMA OccursCut ==
  ASSUME NEW s \in Seq(Url), NEW n \in 0..Len(s), NEW u
  PROVE  /\ SubSeq(s, 1, n) \in Seq(Url) /\ SubSeq(s, n + 1, Len(s)) \in Seq(Url)
         /\ Len(SubSeq(s, 1, n)) = n
         /\ Occurs(s, u) = Occurs(SubSeq(s, 1, n), u) + Occurs(SubSeq(s, n + 1, Len(s)), u)
<1>1. /\ SubSeq(s, 1, n) \in Seq(Url) /\ SubSeq(s, n + 1, Len(s)) \in Seq(Url)
      /\ Len(SubSeq(s, 1, n)) = n
  <2>1. \A i \in 1..Len(s) : s[i] \in Url
    OBVIOUS
  <2>2. /\ n \in Int /\ Len(s) \in Int /\ n + 1 \in Int /\ 1 \in Int
        /\ \A i \in 1..n : s[i] \in Url
        /\ \A i \in (n + 1)..Len(s) : s[i] \in Url
    BY <2>1
  <2>3. SubSeq(s, n + 1, Len(s)) \in Seq(Url)
    BY <2>2, SubSeqProperties, Zenon
  <2>4. SubSeq(s, 1, n) \in Seq(Url)
    BY <2>2, SubSeqProperties, Zenon
  <2>5. Len(SubSeq(s, 1, n)) = n
    OBVIOUS
  <2> QED
    BY <2>3, <2>4, <2>5
<1> DEFINE front == SubSeq(s, 1, n)
           back == SubSeq(s, n + 1, Len(s))
<1>2. front \o back = s
  <2>1. 1 \in 1..Len(s) + 1 /\ n \in 1 - 1..Len(s) /\ Len(s) \in n..Len(s)
    OBVIOUS
  <2>2. SubSeq(s, 1, n) \o SubSeq(s, n + 1, Len(s)) = SubSeq(s, 1, Len(s))
    BY <2>1, ConcatAdjacentSubSeq, Zenon
  <2> QED
    BY <2>2, SubSeqFull, Zenon
<1>3. Occurs(front \o back, u) = Occurs(front, u) + Occurs(back, u)
  BY <1>1, OccursConcat, Zenon
<1> HIDE DEF front, back
<1>4. Occurs(s, u) = Occurs(front, u) + Occurs(back, u)
  BY <1>2, <1>3, Zenon
<1> QED
  BY <1>1, <1>4, Zenon DEF front, back

\* is one or zero on a page,
LEMMA OccursOnPage ==
  ASSUME NEW p \in Seq(Url), IsInjective(p), NEW u
  PROVE  Occurs(p, u) = IF u \in ToSet(p) THEN 1 ELSE 0
<1>1. CASE u \in ToSet(p)
  <2>1. PICK i \in DOMAIN p : p[i] = u
    BY <1>1 DEF ToSet
  <2>2. {j \in DOMAIN p : p[j] = u} = {i}
    BY <2>1 DEF IsInjective
  <2> QED
    BY <1>1, <2>2, FS_Singleton DEF Occurs
<1>2. CASE u \notin ToSet(p)
  <2>1. {j \in DOMAIN p : p[j] = u} = {}
    BY <1>2 DEF ToSet
  <2> QED
    BY <1>2, <2>1, FS_EmptySet DEF Occurs
<1> QED
  BY <1>1, <1>2

-----------------------------------------------------------------------------
(***************************************************************************)
(* The invariant.  While a call is at work, the equation holds of what it  *)
(* has collected and of its copy of the checkpoint; the fingerprints are   *)
(* of pages it has taken, so a page with a URL unseen is never a repeated  *)
(* one and none of its URLs is dropped.                                    *)
(***************************************************************************)
Fields(s) ==
  /\ s = [month |-> s.month, offset |-> s.offset, pending |-> s.pending, seen |-> s.seen,
          fingerprints |-> s.fingerprints, pages |-> s.pages, asked |-> s.asked,
          pendingFrom |-> s.pendingFrom]
  /\ s.pending \in Seq(Url)
  /\ \A p \in s.fingerprints : ToSet(p) \subseteq s.seen

PlaceOf(u, jobs, s) == jobs + Occurs(s.pending, u) = IF u \in s.seen THEN 1 ELSE 0

WalkInv ==
  /\ stored.max_articles \in Nat
  /\ delivered \in [Url -> Nat]
  /\ Fields(saved) /\ Fields(walk)
  /\ collected \in Seq(Url) /\ Len(collected) <= stored.max_articles
  /\ \A u \in Url : PlaceOf(u, delivered[u], saved)
  /\ calling => \A u \in Url : PlaceOf(u, delivered[u] + Occurs(collected, u), walk)

\* and zero in an empty sequence.
LEMMA OccursEmpty == \A u : Occurs(<<>>, u) = 0
<1>1. \A u : {i \in DOMAIN <<>> : <<>>[i] = u} = {}
  OBVIOUS
<1> QED
  BY <1>1, FS_EmptySet DEF Occurs

\* A submitted run has seen nothing.
LEMMA WalkSubmitted == Submitted => WalkInv
<1> SUFFICES ASSUME Submitted PROVE WalkInv
  OBVIOUS
<1>1. stored.max_articles \in Nat
  <2>1. PICK r \in Request : stored = Canonical(r, today)
    BY DEF Submitted
  <2>2. "max_articles" \in DOMAIN r /\ r.max_articles \in Nat
    BY RequestAssumption DEF SearchFields
  <2>3. Canonical(r, today).max_articles = r.max_articles
    BY <2>2 DEF Canonical
  <2> QED
    BY <2>1, <2>2, <2>3
<1>2. Fields(Start)
  BY DEF Fields, Start
<1>3. /\ delivered \in [Url -> Nat] /\ collected = <<>>
      /\ \A u \in Url : delivered[u] = 0 /\ PlaceOf(u, delivered[u], saved)
  BY OccursEmpty DEF Submitted, Start, PlaceOf
<1> QED
  BY <1>1, <1>2, <1>3 DEF Submitted, WalkInv

\* The URLs pending from earlier calls are taken over in order.
LEMMA EnterKeeps ==
  ASSUME WalkInv, NEW day, Enter(day)
  PROVE  WalkInv'
<1> DEFINE n == Taken(saved)
           front == SubSeq(saved.pending, 1, n)
           back == SubSeq(saved.pending, n + 1, Len(saved.pending))
<1>1. n \in 0..Len(saved.pending) /\ n <= stored.max_articles
  BY DEF Taken, WalkInv, Fields
<1>2. /\ front \in Seq(Url) /\ back \in Seq(Url) /\ Len(front) = n
      /\ \A u \in Url : Occurs(saved.pending, u) = Occurs(front, u) + Occurs(back, u)
  BY <1>1, OccursCut DEF WalkInv, Fields
<1>3. /\ collected' = front
      /\ walk'.pending = back /\ walk'.seen = saved.seen /\ walk'.fingerprints = saved.fingerprints
      /\ UNCHANGED <<stored, saved, delivered>>
      /\ Fields(walk')
  <2>1. \E from : walk' = [saved EXCEPT !.pending = back, !.pendingFrom = from]
    BY DEF Enter
  <2> HIDE DEF back, front
  <2>2. walk'.pending = back /\ walk'.seen = saved.seen /\ walk'.fingerprints = saved.fingerprints
    BY <2>1 DEF WalkInv, Fields
  <2>3. Fields(walk')
    BY <1>2, <2>1 DEF WalkInv, Fields
  <2>4. collected' = front /\ UNCHANGED <<stored, saved, delivered>>
    BY DEF Enter, request, front
  <2> QED
    BY <2>2, <2>3, <2>4
<1> HIDE DEF front, back, n
<1>4. ASSUME NEW u \in Url PROVE PlaceOf(u, delivered[u] + Occurs(collected, u), walk)'
  <2>1. PlaceOf(u, delivered[u], saved)
    BY DEF WalkInv
  <2>2. delivered[u] \in Nat /\ Occurs(front, u) \in Nat /\ Occurs(back, u) \in Nat
    BY <1>2, OccursType DEF WalkInv
  <2>3. delivered[u] + Occurs(front, u) + Occurs(back, u) = IF u \in saved.seen THEN 1 ELSE 0
    BY <1>2, <2>1, <2>2 DEF PlaceOf
  <2> QED
    BY <1>3, <2>3 DEF PlaceOf
<1> QED
  BY <1>1, <1>2, <1>3, <1>4 DEF WalkInv

\* Of a page either nothing is new, or all of it goes to the call and to the
\* pending list.
LEMMA PageKeeps ==
  ASSUME WalkInv, NEW p \in Fresh, NEW hasNext \in BOOLEAN, Page(p, hasNext)
  PROVE  WalkInv'
<1> DEFINE repeated == p \in walk.fingerprints
           room == stored.max_articles - Len(collected)
           n == IF room < Len(p) THEN room ELSE Len(p)
           front == SubSeq(p, 1, n)
           back == SubSeq(p, n + 1, Len(p))
<1>1. /\ p \in Seq(Url) /\ IsInjective(p) /\ ToSet(p) \cap walk.seen = {}
      /\ ToSet(p) \subseteq Url
  BY DEF Fresh, SeqOf, ToSet
<1>2. n \in 0..Len(p) /\ Len(collected) + n <= stored.max_articles
  BY <1>1 DEF WalkInv
<1>3. /\ front \in Seq(Url) /\ back \in Seq(Url) /\ Len(front) = n
      /\ \A u : Occurs(p, u) = Occurs(front, u) + Occurs(back, u)
  BY <1>1, <1>2, OccursCut
<1>4. repeated => p = <<>>
  <2>1. repeated => ToSet(p) = {}
    BY <1>1 DEF WalkInv, Fields
  <2>2. Len(p) > 0 => p[1] \in ToSet(p)
    BY <1>1 DEF ToSet
  <2> QED
    BY <1>1, <2>1, <2>2
<1>5. /\ collected' = IF repeated THEN collected ELSE collected \o front
      /\ UNCHANGED <<stored, saved, delivered>>
      /\ calling
  BY DEF Page, request
<1>6. /\ Fields(walk')
      /\ walk'.seen = walk.seen \cup ToSet(p)
      /\ walk'.pending = IF repeated THEN walk.pending ELSE walk.pending \o back
  <2> DEFINE prints == IF ~hasNext \/ repeated THEN {} ELSE Remembered(p)
  <2>1. PICK month, offset, asked, from :
          walk' = [walk EXCEPT !.seen = @ \cup ToSet(p),
                               !.pending = IF repeated THEN @ ELSE RestKept(p, n),
                               !.month = month, !.offset = offset, !.fingerprints = prints,
                               !.asked = asked, !.pendingFrom = from]
    BY Zenon DEF Page
  <2>2. prints \in {{}, walk.fingerprints \cup {p}}
    BY DEF Remembered
  <2> HIDE DEF prints
  <2> HIDE DEF back, front, repeated, n, room
  <2>3. /\ walk'.seen = walk.seen \cup ToSet(p)
        /\ walk'.pending = IF repeated THEN walk.pending ELSE walk.pending \o back
        /\ walk'.fingerprints = prints
        /\ walk' = [month |-> month, offset |-> offset, pending |-> walk'.pending,
                    seen |-> walk'.seen, fingerprints |-> prints, pages |-> walk.pages,
                    asked |-> asked, pendingFrom |-> from]
    BY <2>1 DEF WalkInv, Fields, RestKept, back
  <2>4. walk'.pending \in Seq(Url)
    BY <1>3, <2>3 DEF WalkInv, Fields
  <2>5. \A q \in prints : ToSet(q) \subseteq walk'.seen
    BY <2>3, <2>2 DEF WalkInv, Fields
  <2> QED
    BY <2>3, <2>4, <2>5 DEF Fields
<1> HIDE DEF front, back, n, repeated, room
<1>7. collected' \in Seq(Url) /\ Len(collected') <= stored.max_articles
  BY <1>2, <1>3, <1>5 DEF WalkInv
<1>8. ASSUME NEW u \in Url PROVE PlaceOf(u, delivered[u] + Occurs(collected, u), walk)'
  <2>1. PlaceOf(u, delivered[u] + Occurs(collected, u), walk)
    BY <1>5 DEF WalkInv
  <2>2. /\ delivered[u] \in Nat /\ Occurs(collected, u) \in Nat /\ Occurs(walk.pending, u) \in Nat
        /\ Occurs(front, u) \in Nat /\ Occurs(back, u) \in Nat
    BY <1>3, OccursType DEF WalkInv, Fields
  <2>3. Occurs(front, u) + Occurs(back, u) = IF u \in ToSet(p) THEN 1 ELSE 0
    BY <1>1, <1>3, OccursOnPage
  <2>4. CASE repeated
    BY <1>4, <1>5, <1>6, <2>1, <2>4 DEF PlaceOf, ToSet
  <2>5. CASE ~repeated
    <3>1. /\ Occurs(collected', u) = Occurs(collected, u) + Occurs(front, u)
          /\ Occurs(walk'.pending, u) = Occurs(walk.pending, u) + Occurs(back, u)
      BY <1>3, <1>5, <1>6, <2>5, OccursConcat DEF WalkInv, Fields
    <3> QED
      BY <1>1, <1>5, <1>6, <2>1, <2>2, <2>3, <3>1 DEF PlaceOf
  <2> QED
    BY <2>4, <2>5
<1> QED
  BY <1>5, <1>6, <1>7, <1>8 DEF WalkInv

\* The fields of an empty checkpoint.
LEMMA StartFields == Fields(Start)
  BY DEF Fields, Start

\* The commit stores what the call has found, and its copy of the checkpoint.
LEMMA CommitKeeps ==
  ASSUME WalkInv, Commit
  PROVE  WalkInv'
<1>1. /\ UNCHANGED stored /\ calling /\ calling' = FALSE
      /\ collected' = <<>> /\ walk' = Start
      /\ saved' = [walk EXCEPT !.pages = @ + pages]
      /\ delivered' = [u \in Url |-> delivered[u] + Occurs(collected, u)]
  BY DEF Commit, CallEnds, request, Occurs
<1>2. Fields(saved') /\ saved'.pending = walk.pending /\ saved'.seen = walk.seen
  BY <1>1 DEF WalkInv, Fields
<1>3. delivered' \in [Url -> Nat]
  <2>1. ASSUME NEW u \in Url PROVE delivered[u] + Occurs(collected, u) \in Nat
    <3>1. delivered[u] \in Nat /\ collected \in Seq(Url)
      BY DEF WalkInv
    <3>2. Occurs(collected, u) \in Nat
      BY <3>1, OccursType, Zenon
    <3> QED
      BY <3>1, <3>2
  <2> QED
    BY <1>1, <2>1
<1>4. \A u \in Url : PlaceOf(u, delivered[u], saved)'
  BY <1>1, <1>2 DEF WalkInv, PlaceOf
<1>5. collected' \in Seq(Url) /\ Len(collected') <= stored'.max_articles
  BY <1>1 DEF WalkInv
<1>6. Fields(walk')
  BY <1>1, StartFields, Zenon
<1> QED
  BY <1>1, <1>2, <1>3, <1>4, <1>5, <1>6 DEF WalkInv

\* A call that ends without a commit leaves what was stored, and nothing else.
LEMMA CallEndsKeeps ==
  ASSUME WalkInv, CallEnds, UNCHANGED <<stored, saved, delivered>>
  PROVE  WalkInv'
  BY StartFields DEF CallEnds, WalkInv, PlaceOf

\* Every step of a run keeps the invariant.
LEMMA WalkStep == WalkInv /\ [Next]_vars => WalkInv'
<1> SUFFICES ASSUME WalkInv, [Next]_vars PROVE WalkInv'
  OBVIOUS
<1>1. CASE Begin
  BY <1>1, EnterKeeps DEF Begin
<1>2. CASE \E p \in Fresh, hasNext \in BOOLEAN : Page(p, hasNext)
  BY <1>2, PageKeeps
<1>3. CASE Commit
  BY <1>3, CommitKeeps
<1>4. CASE \E outcome \in {"ready", "failed"} : Rollback(outcome)
  BY <1>4, CallEndsKeeps DEF Rollback, request
<1>5. ASSUME UNCHANGED <<stored, saved, delivered, call>> PROVE WalkInv'
  BY <1>5 DEF call, WalkInv, PlaceOf
<1>6. CASE Refuse \/ DayPasses \/ UNCHANGED vars
  <2>1. UNCHANGED <<stored, saved, delivered, call>>
    BY <1>6 DEF Refuse, DayPasses, vars, request
  <2> QED
    BY <2>1, <1>5
<1> QED
  BY <1>1, <1>2, <1>3, <1>4, <1>6 DEF Next, Walks

\* So it holds always.
LEMMA WalkInvHolds == Spec => []WalkInv
  BY WalkSubmitted, WalkStep, PTL DEF Init, Spec

\* Nothing a run has seen is lost or scraped twice, across any number of calls
\* of advance and of failures among them.
THEOREM NothingLostNorTwice == Spec => []SeenIsInOnePlace
<1>1. WalkInv => SeenIsInOnePlace
  BY DEF WalkInv, SeenIsInOnePlace, PlaceOf, Pending, Occurs
<1> QED
  BY <1>1, WalkInvHolds, PTL

(***************************************************************************)
(* The calendar. A recursive function is known here by the equation it     *)
(* solves: the lemmas exhibit a solution, so that CHOOSE has one, and      *)
(* show that no least argument breaks what they claim.                     *)
(***************************************************************************)
\* Numbers with a property have a least: what stands in for an induction, with
\* the least number that breaks the property.
LEMMA LeastNatural ==
  ASSUME NEW T, T \subseteq Nat, T # {}
  PROVE  \E x \in T : \A y \in T : x <= y
<1>1. PICK x \in T : \A y \in T : ~ (<<y, x>> \in OpToRel(<, Nat))
  BY NatLessThanWellFounded, WFMin, Zenon
<1>2. \A y \in T : ~(y < x)
  BY <1>1 DEF OpToRel
<1> QED
  BY <1>2

\* Months are counted from year 0: the first and the last day of the n-th, and
\* the number of the month a day is in.
FirstOf(n) == Day(n \div 12, (n % 12) + 1, 1)
LastOf(n) == LastOfMonth(n \div 12, (n % 12) + 1)
Index(d) == 12 * d.year + d.month - 1

\* AddDate(0, 1, 0) from the first of a month is the first of the next.
LEMMA NextOfFirst == ASSUME NEW n \in Nat PROVE NextMonth(FirstOf(n)) = FirstOf(n + 1)
  BY DEF NextMonth, FirstOf, Day

\* The number of a month says which it is.
LEMMA IndexOf ==
  ASSUME NEW d \in Date
  PROVE  Index(d) \in Nat /\ Index(d) \div 12 = d.year /\ (Index(d) % 12) + 1 = d.month
  BY DEF Index, Date

\* Comparing a day with an end of a month compares the months.
LEMMA OrderByIndex ==
  ASSUME NEW d \in Date, NEW n \in Nat
  PROVE  /\ NotAfter(FirstOf(n), d) <=> n <= Index(d)
         /\ NotAfter(d, LastOf(n)) /\ RealDate(d) <=> RealDate(d) /\ Index(d) <= n
<1>1. /\ n \div 12 \in Nat /\ n % 12 \in 0..11 /\ n = 12 * (n \div 12) + (n % 12)
  OBVIOUS
<1>2. d.year \in Nat /\ d.month \in 1..12 /\ d.day \in 1..31 /\ Index(d) = 12 * d.year + d.month - 1
  BY DEF Date, Index
<1> DEFINE q == n \div 12
           m == n % 12
<1> HIDE DEF q, m
<1>3. q \in Nat /\ m \in 0..11 /\ n = 12 * q + m
  BY <1>1, Zenon DEF q, m
<1>4. FirstOf(n) = Day(q, m + 1, 1) /\ LastOf(n) = Day(q, m + 1, DaysInMonth(q, m + 1))
  BY DEF FirstOf, LastOf, LastOfMonth, q, m
<1>5. NotAfter(FirstOf(n), d) <=> n <= Index(d)
  <2>1. NotAfter(FirstOf(n), d) <=> q < d.year \/ (q = d.year /\ m + 1 <= d.month)
    <3>1. FirstOf(n).year = q /\ FirstOf(n).month = m + 1 /\ FirstOf(n).day = 1
      BY <1>4 DEF Day
    <3> QED
      BY <1>2, <1>3, <3>1 DEF NotAfter
  <2>2. ASSUME NEW y \in Nat, NEW j \in 1..12
        PROVE  q < y \/ (q = y /\ m + 1 <= j) <=> 12 * q + m <= 12 * y + j - 1
    BY <1>3
  <2> QED
    BY <1>2, <1>3, <2>1, <2>2
<1>6. RealDate(d) => (NotAfter(d, LastOf(n)) <=> Index(d) <= n)
  <2> DEFINE last == DaysInMonth(q, m + 1)
  <2>1. RealDate(d) => d.day <= DaysInMonth(d.year, d.month)
    BY DEF RealDate, DaysInMonth
  <2>2. last \in Int
    BY DEF DaysInMonth
  <2>3. d.year = q /\ d.month = m + 1 => DaysInMonth(d.year, d.month) = last
    OBVIOUS
  <2> HIDE DEF last
  <2>4. DaysInMonth(d.year, d.month) \in Int
    BY DEF DaysInMonth
  <2> QED
    BY <1>2, <1>3, <1>4, <2>1, <2>2, <2>3, <2>4 DEF NotAfter, Day, last
<1> QED
  BY <1>5, <1>6

\* The cursors of monthWindows, as the equation its loop solves.
CursorsFrom(n, f) == [k \in 1..MaxMonths |-> IF k = 1 THEN FirstOf(n) ELSE NextMonth(f[k - 1])]

\* The equation has a solution, so CHOOSE finds one.
LEMMA CursorsExist ==
  ASSUME NEW n \in Nat
  PROVE  \E f : f = CursorsFrom(n, f)
<1> DEFINE g == [k \in 1..MaxMonths |-> FirstOf(n + k - 1)]
<1> SUFFICES ASSUME NEW k \in 1..MaxMonths
             PROVE  FirstOf(n + k - 1) = IF k = 1 THEN FirstOf(n) ELSE NextMonth(g[k - 1])
  <2>1. (\A k \in 1..MaxMonths : FirstOf(n + k - 1) = IF k = 1 THEN FirstOf(n) ELSE NextMonth(g[k - 1]))
          => g = CursorsFrom(n, g)
    BY Zenon DEF CursorsFrom
  <2> QED
    BY <2>1, Zenon
<1>1. CASE k = 1
  BY <1>1
<1>2. CASE k # 1
  <2>1. k - 1 \in 1..MaxMonths /\ n + (k - 1) - 1 \in Nat /\ n + (k - 1) - 1 + 1 = n + k - 1
    BY <1>2, MaxMonthsAssumption
  <2>2. g[k - 1] = FirstOf(n + (k - 1) - 1)
    BY <2>1
  <2> HIDE DEF g
  <2>3. NextMonth(g[k - 1]) = FirstOf(n + (k - 1) - 1 + 1)
    BY <2>1, <2>2, NextOfFirst
  <2> QED
    BY <1>2, <2>1, <2>3 DEF g
<1> QED
  BY <1>1, <1>2

\* The k-th cursor is the first of the k-th month: no first k where it is not.
LEMMA CursorsAre ==
  ASSUME NEW n \in Nat, NEW f, f = CursorsFrom(n, f)
  PROVE  \A k \in 1..MaxMonths : f[k] = FirstOf(n + k - 1)
<1> DEFINE Bad == {k \in 1..MaxMonths : f[k] # FirstOf(n + k - 1)}
<1>1. ASSUME NEW k \in Bad, \A j \in Bad : k <= j PROVE FALSE
  <2>1. k \in 1..MaxMonths /\ k # 1
    <3>1. f[1] = FirstOf(n)
      BY MaxMonthsAssumption DEF CursorsFrom
    <3> QED
      BY <3>1
  <2>2. k - 1 \in 1..MaxMonths /\ k - 1 \notin Bad /\ n + (k - 1) - 1 \in Nat
    BY <1>1, <2>1, MaxMonthsAssumption
  <2>3. f[k] = NextMonth(f[k - 1]) /\ f[k - 1] = FirstOf(n + (k - 1) - 1)
    BY <2>1, <2>2 DEF CursorsFrom
  <2>4. f[k] = FirstOf(n + (k - 1) - 1 + 1)
    BY <2>2, <2>3, NextOfFirst
  <2>5. n + (k - 1) - 1 + 1 = n + k - 1
    BY <2>1
  <2> QED
    BY <2>4, <2>5, Zenon
<1>2. Bad \subseteq Nat
  BY MaxMonthsAssumption
<1>3. Bad = {}
  BY <1>1, <1>2, LeastNatural
<1> QED
  BY <1>3

\* A range as validate_dates leaves it.
ValidRange(r) ==
  /\ r = [start |-> r.start, end |-> r.end]
  /\ r.start \in Date /\ RealDate(r.start) /\ r.end \in Date /\ RealDate(r.end)
  /\ NotAfter(r.start, r.end) /\ MonthCount(r) <= MaxMonths

\* The n-th month, cut to the range.
CutTo(n, r) == [lower |-> Later(FirstOf(n), r.start), upper |-> Earlier(LastOf(n), r.end)]

\* A range has a month at least, and as many as its ends are apart.
LEMMA RangeCount ==
  ASSUME NEW r, ValidRange(r)
  PROVE  /\ MonthCount(r) \in 1..MaxMonths
         /\ MonthCount(r) = Index(r.end) - Index(r.start) + 1
<1>1. /\ r.start.year \in Nat /\ r.start.month \in 1..12
      /\ r.end.year \in Nat /\ r.end.month \in 1..12
  BY DEF ValidRange, Date
<1>2. r.start.year < r.end.year \/ (r.start.year = r.end.year /\ r.start.month <= r.end.month)
  BY <1>1 DEF ValidRange, NotAfter
<1>3. /\ MonthCount(r) \in Nat \ {0} /\ MonthCount(r) <= MaxMonths
      /\ MonthCount(r) = Index(r.end) - Index(r.start) + 1
  <2>1. MonthCount(r) = Index(r.end) - Index(r.start) + 1
    BY <1>1 DEF MonthCount, Index
  <2>2. ASSUME NEW y \in Nat, NEW z \in Nat, NEW j \in 1..12, NEW k \in 1..12,
               z < y \/ (z = y /\ k <= j)
        PROVE  (y - z) * 12 + j - k + 1 \in Nat \ {0}
    BY <2>2
  <2>3. MonthCount(r) \in Nat \ {0}
    BY <1>1, <1>2, <2>2, Zenon DEF MonthCount
  <2> QED
    BY <2>1, <2>3 DEF ValidRange
<1> QED
  BY <1>3, MaxMonthsAssumption

\* What the loop of monthWindows makes: each month of the range, cut to it.
LEMMA WindowsAre ==
  ASSUME NEW r, ValidRange(r)
  PROVE  MonthWindows(r) = [k \in 1..MonthCount(r) |-> CutTo(Index(r.start) + k - 1, r)]
<1> DEFINE s == Index(r.start)
           cursor == CHOOSE f : f = CursorsFrom(s, f)
           reached == {k \in 1..MaxMonths : NotAfter(cursor[k], r.end)}
<1>1. s \in Nat /\ Index(r.end) \in Nat /\ FirstOf(s) = Day(r.start.year, r.start.month, 1)
  BY IndexOf, Zenon DEF ValidRange, FirstOf
<1> HIDE DEF s
<1>2. MonthWindows(r) =
        [k \in 1..Cardinality(reached) |->
           [lower |-> Later(cursor[k], r.start),
            upper |-> Earlier(LastOfMonth(cursor[k].year, cursor[k].month), r.end)]]
  BY <1>1, Zenon DEF MonthWindows, CursorsFrom
<1>3. cursor = CursorsFrom(s, cursor)
  BY <1>1, CursorsExist, Zenon
<1> HIDE DEF cursor
<1>4. \A k \in 1..MaxMonths : cursor[k] = FirstOf(s + k - 1)
  BY <1>1, <1>3, CursorsAre
<1>5. reached = 1..MonthCount(r)
  <2>1. ASSUME NEW k \in 1..MaxMonths PROVE NotAfter(cursor[k], r.end) <=> k <= MonthCount(r)
    <3>1. s + k - 1 \in Nat
      BY <1>1
    <3>2. NotAfter(FirstOf(s + k - 1), r.end) <=> s + k - 1 <= Index(r.end)
      BY <3>1, OrderByIndex DEF ValidRange
    <3>3. MonthCount(r) = Index(r.end) - s + 1
      BY RangeCount DEF s
    <3> QED
      BY <1>1, <1>4, <3>2, <3>3
  <2>2. MonthCount(r) \in 1..MaxMonths
    BY RangeCount
  <2> QED
    BY <2>1, <2>2, MaxMonthsAssumption
<1>6. Cardinality(reached) = MonthCount(r)
  <2>1. MonthCount(r) \in Nat \ {0}
    BY RangeCount, MaxMonthsAssumption
  <2>2. Cardinality(1..MonthCount(r)) = MonthCount(r)
    BY <2>1, FS_Interval
  <2> QED
    BY <1>5, <2>2, Zenon
<1>7. ASSUME NEW k \in 1..MonthCount(r)
      PROVE  [lower |-> Later(cursor[k], r.start),
              upper |-> Earlier(LastOfMonth(cursor[k].year, cursor[k].month), r.end)]
                = CutTo(s + k - 1, r)
  <2>1. cursor[k] = FirstOf(s + k - 1)
    BY <1>4, RangeCount, MaxMonthsAssumption
  <2>2. LastOfMonth(cursor[k].year, cursor[k].month) = LastOf(s + k - 1)
    BY <2>1 DEF FirstOf, LastOf, Day
  <2> QED
    BY <2>1, <2>2, Zenon DEF CutTo
<1> HIDE DEF reached
<1> QED
  BY <1>2, <1>6, <1>7, Zenon DEF s

\* A day no later than the last of its month is a date.
LEMMA RealDay ==
  ASSUME NEW y \in Nat, NEW m \in 1..12, NEW k \in Nat, 1 <= k, k <= DaysInMonth(y, m)
  PROVE  Day(y, m, k) \in Date /\ RealDate(Day(y, m, k))
<1>1. DaysInMonth(y, m) \in 28..31
  BY DEF DaysInMonth
<1>2. k \in 1..31 /\ k \in 1..DaysInMonth(y, m)
  BY <1>1
<1>3. Day(y, m, k) \in Date
  BY <1>2 DEF Day, Date
<1> QED
  BY <1>2, <1>3 DEF RealDate, Day

\* So are the ends of a month.
LEMMA EndsOfMonth ==
  ASSUME NEW y \in Nat, NEW m \in 1..12
  PROVE  /\ Day(y, m, 1) \in Date /\ RealDate(Day(y, m, 1))
         /\ LastOfMonth(y, m) \in Date /\ RealDate(LastOfMonth(y, m))
<1>1. DaysInMonth(y, m) \in 28..31
  BY DEF DaysInMonth
<1> QED
  BY <1>1, RealDay DEF LastOfMonth

\* Dates are equal when neither is before the other.
LEMMA OrderOfDates ==
  ASSUME NEW a \in Date, NEW b \in Date
  PROVE  /\ NotAfter(a, b) \/ NotAfter(b, a)
         /\ NotAfter(a, b) /\ NotAfter(b, a) => a = b
         /\ Later(a, b) = Later(b, a) /\ Earlier(a, b) = Earlier(b, a)
         /\ Later(a, b) \in {a, b} /\ Earlier(a, b) \in {a, b}
<1>1. \A d \in {a, b} : d.year \in Nat /\ d.month \in 1..12 /\ d.day \in 1..31
  BY DEF Date
<1>2. NotAfter(a, b) \/ NotAfter(b, a)
  BY <1>1 DEF NotAfter
<1>3. ASSUME NotAfter(a, b), NotAfter(b, a) PROVE a = b
  <2>1. a.year = b.year /\ a.month = b.month /\ a.day = b.day
    BY <1>1, <1>3 DEF NotAfter
  <2>2. \A d \in {a, b} : d = [year |-> d.year, month |-> d.month, day |-> d.day]
    BY DEF Date
  <2> QED
    BY <2>1, <2>2
<1> QED
  BY <1>2, <1>3 DEF Later, Earlier

\* A day is within two bounds when it is within the tighter of them.
LEMMA CutByDates ==
  ASSUME NEW a \in Date, NEW b \in Date, NEW d \in Date
  PROVE  /\ NotAfter(Later(a, b), d) <=> NotAfter(a, d) /\ NotAfter(b, d)
         /\ NotAfter(d, Earlier(a, b)) <=> NotAfter(d, a) /\ NotAfter(d, b)
<1>1. \A e \in {a, b, d} : e.year \in Nat /\ e.month \in 1..12 /\ e.day \in 1..31
  BY DEF Date
<1>2. \A x, y, z \in {a, b, d} : NotAfter(x, y) /\ NotAfter(y, z) => NotAfter(x, z)
  BY <1>1 DEF NotAfter
<1>3. \A x, y \in {a, b, d} : NotAfter(x, y) \/ NotAfter(y, x)
  BY <1>1 DEF NotAfter
<1> QED
  BY <1>2, <1>3 DEF Later, Earlier

\* The ends of the n-th month are dates of that month.
LEMMA MonthEnds ==
  ASSUME NEW n \in Nat
  PROVE  /\ FirstOf(n) \in Date /\ RealDate(FirstOf(n)) /\ LastOf(n) \in Date /\ RealDate(LastOf(n))
         /\ Index(FirstOf(n)) = n /\ Index(LastOf(n)) = n
<1>1. n \div 12 \in Nat /\ (n % 12) + 1 \in 1..12 /\ n = 12 * (n \div 12) + (n % 12)
  OBVIOUS
<1>2. FirstOf(n) \in Date /\ RealDate(FirstOf(n)) /\ LastOf(n) \in Date /\ RealDate(LastOf(n))
  BY <1>1, EndsOfMonth DEF FirstOf, LastOf
<1>3. Index(FirstOf(n)) = n /\ Index(LastOf(n)) = n
  BY <1>1 DEF Index, FirstOf, LastOf, LastOfMonth, Day
<1> QED
  BY <1>2, <1>3

\* Of the windows of a range, a day is in the one of its month, if in any.
LEMMA WindowOfDay ==
  ASSUME NEW r, ValidRange(r), NEW d \in Date, RealDate(d), NEW n \in Nat
  PROVE  Within(d, CutTo(n, r)) <=> NotAfter(r.start, d) /\ NotAfter(d, r.end) /\ Index(d) = n
<1>1. FirstOf(n) \in Date /\ LastOf(n) \in Date /\ r.start \in Date /\ r.end \in Date
  BY MonthEnds DEF ValidRange
<1>2. Within(d, CutTo(n, r)) <=> /\ NotAfter(FirstOf(n), d) /\ NotAfter(r.start, d)
                                 /\ NotAfter(d, LastOf(n)) /\ NotAfter(d, r.end)
  BY <1>1, CutByDates DEF Within, CutTo
<1>3. (NotAfter(FirstOf(n), d) <=> n <= Index(d)) /\ (NotAfter(d, LastOf(n)) <=> Index(d) <= n)
  BY OrderByIndex
<1> QED
  BY <1>2, <1>3, IndexOf

\* The windows are a window for each month, in the type of the checkpoint.
LEMMA WindowsType ==
  ASSUME NEW r, ValidRange(r)
  PROVE  /\ MonthWindows(r) \in Seq(Window) /\ Len(MonthWindows(r)) = MonthCount(r)
         /\ MonthCount(r) \in Nat \ {0}
<1>1. MonthCount(r) \in Nat \ {0} /\ Index(r.start) \in Nat
  BY RangeCount, IndexOf, MaxMonthsAssumption DEF ValidRange
<1>2. ASSUME NEW n \in Nat PROVE CutTo(n, r) \in Window
  <2>1. /\ FirstOf(n) \in Date /\ LastOf(n) \in Date /\ r.start \in Date /\ r.end \in Date
    BY MonthEnds DEF ValidRange
  <2>2. Later(FirstOf(n), r.start) \in Date /\ Earlier(LastOf(n), r.end) \in Date
    BY <2>1 DEF Later, Earlier
  <2> QED
    BY <2>2 DEF CutTo, Window
<1>3. \A k \in 1..MonthCount(r) : CutTo(Index(r.start) + k - 1, r) \in Window
  BY <1>1, <1>2
<1> HIDE DEF CutTo, Window, Index
<1> QED
  BY <1>1, <1>3, WindowsAre

\* search_progress and monthWindows agree on every window.
LEMMA ReportedIsWalked ==
  ASSUME NEW r, ValidRange(r), NEW i \in Nat, i < MonthCount(r)
  PROVE  ReportedWindow(r, i) = MonthWindows(r)[i + 1]
<1> DEFINE n == Index(r.start) + i
<1>1. /\ Index(r.start) \in Nat /\ n \in Nat /\ i + 1 \in 1..MonthCount(r)
      /\ Index(r.start) + (i + 1) - 1 = n
  BY RangeCount, IndexOf, MaxMonthsAssumption DEF ValidRange
<1>2. MonthWindows(r)[i + 1] = CutTo(n, r)
  BY <1>1, WindowsAre
<1>3. LET k == r.start.month - 1 + i
      IN r.start.year + k \div 12 = n \div 12 /\ (k % 12) + 1 = (n % 12) + 1
  BY DEF ValidRange, Date, Index
<1>4. ReportedWindow(r, i) = [lower |-> Later(r.start, FirstOf(n)), upper |-> Earlier(r.end, LastOf(n))]
  BY <1>3, Zenon DEF ReportedWindow, FirstOf, LastOf
<1>5. FirstOf(n) \in Date /\ LastOf(n) \in Date /\ r.start \in Date /\ r.end \in Date
  BY <1>1, MonthEnds DEF ValidRange
<1>6. Later(r.start, FirstOf(n)) = Later(FirstOf(n), r.start) /\ Earlier(r.end, LastOf(n)) = Earlier(LastOf(n), r.end)
  BY <1>5, OrderOfDates
<1> QED
  BY <1>2, <1>4, <1>6, Zenon DEF CutTo

\* Every day of the range is in one window, and no other day in any.
LEMMA WindowsPartition ==
  ASSUME NEW r, ValidRange(r), NEW d \in Date, RealDate(d)
  PROVE  LET W == MonthWindows(r)
         IN Cardinality({k \in DOMAIN W : Within(d, W[k])})
              = IF NotAfter(r.start, d) /\ NotAfter(d, r.end) THEN 1 ELSE 0
<1> DEFINE W == MonthWindows(r)
           s == Index(r.start)
           In == {k \in DOMAIN W : Within(d, W[k])}
<1>1. s \in Nat /\ Index(d) \in Nat /\ Index(r.end) \in Nat /\ MonthCount(r) = Index(r.end) - s + 1
  BY RangeCount, IndexOf DEF ValidRange
<1>2. In = {k \in 1..MonthCount(r) :
              NotAfter(r.start, d) /\ NotAfter(d, r.end) /\ Index(d) = s + k - 1}
  <2>1. DOMAIN W = 1..MonthCount(r) /\ \A k \in 1..MonthCount(r) : W[k] = CutTo(s + k - 1, r)
    BY WindowsAre, Zenon
  <2>2. ASSUME NEW k \in 1..MonthCount(r) PROVE s + k - 1 \in Nat
    BY <1>1
  <2> HIDE DEF W, s
  <2>3. ASSUME NEW k \in 1..MonthCount(r)
        PROVE  Within(d, W[k]) <=> NotAfter(r.start, d) /\ NotAfter(d, r.end) /\ Index(d) = s + k - 1
    BY <2>1, <2>2, WindowOfDay
  <2> QED
    BY <2>1, <2>3, Zenon
<1> HIDE DEF W, s
<1>3. CASE NotAfter(r.start, d) /\ NotAfter(d, r.end)
  <2>1. s <= Index(d) /\ Index(d) <= Index(r.end)
    <3>1. \A e \in {d, r.start, r.end} : e.year \in Nat /\ e.month \in 1..12
      BY DEF ValidRange, Date
    <3> QED
      BY <1>3, <3>1 DEF NotAfter, Index, s
  <2>2. In = {Index(d) - s + 1}
    <3> HIDE DEF In
    <3> QED
    BY <1>1, <1>2, <1>3, <2>1
  <2> QED
    BY <1>3, <2>2, FS_Singleton, Zenon DEF W
<1>4. CASE ~(NotAfter(r.start, d) /\ NotAfter(d, r.end))
  <2>1. In = {}
    BY <1>2, <1>4, Zenon
  <2> QED
    BY <1>4, <2>1, FS_EmptySet, Zenon DEF W
<1> QED
  BY <1>3, <1>4, Zenon

\* The day after a date is one, and so is the day before.
LEMMA NextDayType ==
  ASSUME NEW d \in Date, RealDate(d)
  PROVE  NextDay(d) \in Date /\ RealDate(NextDay(d))
<1>1. d.year \in Nat /\ d.month \in 1..12 /\ d.day \in 1..31 /\ d.day <= DaysInMonth(d.year, d.month)
      /\ d = Day(d.year, d.month, d.day)
  BY DEF Date, RealDate, DaysInMonth, Day
<1>2. CASE d = LastOfMonth(d.year, d.month)
  <2>1. NextDay(d) = IF d.month = 12 THEN Day(d.year + 1, 1, 1) ELSE Day(d.year, d.month + 1, 1)
    BY <1>2, Zenon DEF NextDay, NextMonth
  <2>2. d.month # 12 => d.month + 1 \in 1..12
    BY <1>1
  <2>3. d.year + 1 \in Nat /\ 1 \in 1..12
    BY <1>1
  <2> QED
    BY <1>1, <2>1, <2>2, <2>3, EndsOfMonth, Zenon
<1>3. CASE d # LastOfMonth(d.year, d.month)
  <2>1. d.day # DaysInMonth(d.year, d.month)
    BY <1>1, <1>3, Zenon DEF LastOfMonth
  <2>2. DaysInMonth(d.year, d.month) \in 28..31
    BY DEF DaysInMonth
  <2>3. d.day + 1 \in Nat /\ 1 <= d.day + 1 /\ d.day + 1 <= DaysInMonth(d.year, d.month)
    BY <1>1, <2>1, <2>2
  <2>4. NextDay(d) = Day(d.year, d.month, d.day + 1)
    BY <1>3 DEF NextDay, Day, Date
  <2> QED
    BY <1>1, <2>3, <2>4, RealDay, Zenon
<1> QED
  BY <1>2, <1>3

\* The day before a date of the year 1 or later is one.
LEMMA DayBeforeType ==
  ASSUME NEW d \in Date, d.year > 0, RealDate(d)
  PROVE  DayBefore(d) \in Date /\ RealDate(DayBefore(d))
<1>1. d.year \in Nat /\ d.month \in 1..12 /\ d.day \in 1..31 /\ d.day <= DaysInMonth(d.year, d.month)
      /\ d = Day(d.year, d.month, d.day)
  BY DEF Date, RealDate, DaysInMonth, Day
<1>2. CASE d.day > 1
  <2>1. DayBefore(d) = Day(d.year, d.month, d.day - 1)
    BY <1>2 DEF DayBefore, Day, Date
  <2>2. d.day - 1 \in Nat /\ 1 <= d.day - 1 /\ d.day - 1 <= DaysInMonth(d.year, d.month)
    <3>1. DaysInMonth(d.year, d.month) \in 28..31
      BY DEF DaysInMonth
    <3> QED
      BY <1>1, <1>2, <3>1
  <2> QED
    BY <1>1, <2>1, <2>2, RealDay, Zenon
<1>3. CASE ~(d.day > 1)
  <2>1. DayBefore(d) = IF d.month > 1 THEN LastOfMonth(d.year, d.month - 1) ELSE LastOfMonth(d.year - 1, 12)
    BY <1>3, Zenon DEF DayBefore
  <2>2. /\ d.month > 1 => d.month - 1 \in 1..12
        /\ d.year - 1 \in Nat /\ 12 \in 1..12
    BY <1>1
  <2> QED
    BY <1>1, <2>1, <2>2, EndsOfMonth, Zenon
<1> QED
  BY <1>2, <1>3

\* Going to the day after, or to the day before, keeps the order of dates.
LEMMA NextDayOrder ==
  ASSUME NEW a \in Date, RealDate(a), NEW b \in Date, RealDate(b)
  PROVE  /\ NotAfter(NextDay(a), NextDay(b)) <=> NotAfter(a, b)
         /\ NotAfter(a, NextDay(a))
<1> DEFINE last(d) == d.day = DaysInMonth(d.year, d.month)
<1>1. ASSUME NEW d \in {a, b}
      PROVE  /\ d.year \in Nat /\ d.month \in 1..12 /\ d.day \in Nat /\ 1 <= d.day
             /\ d.day <= DaysInMonth(d.year, d.month) /\ DaysInMonth(d.year, d.month) \in 28..31
             /\ (NextDay(d)).year = (IF last(d) /\ d.month = 12 THEN d.year + 1 ELSE d.year)
             /\ (NextDay(d)).month = (IF ~last(d) THEN d.month ELSE IF d.month = 12 THEN 1 ELSE d.month + 1)
             /\ (NextDay(d)).day = (IF last(d) THEN 1 ELSE d.day + 1)
  <2>1. DaysInMonth(d.year, d.month) \in 28..31
    BY DEF DaysInMonth
  <2>2. d.year \in Nat /\ d.month \in 1..12 /\ d.day \in Nat /\ 1 <= d.day
        /\ d.day <= DaysInMonth(d.year, d.month) /\ d = [year |-> d.year, month |-> d.month, day |-> d.day]
    BY <2>1 DEF Date, RealDate
  <2>3. d = LastOfMonth(d.year, d.month) <=> last(d)
    BY <2>2 DEF LastOfMonth, Day
  <2> HIDE DEF last
  <2>4. CASE last(d)
    <3>1. NextDay(d) = IF d.month = 12 THEN Day(d.year + 1, 1, 1) ELSE Day(d.year, d.month + 1, 1)
      BY <2>3, <2>4, Zenon DEF NextDay, NextMonth
    <3> QED
      BY <2>1, <2>2, <2>4, <3>1 DEF Day
  <2>5. CASE ~last(d)
    <3>1. NextDay(d) = [d EXCEPT !.day = @ + 1]
      BY <2>3, <2>5, Zenon DEF NextDay
    <3> QED
      BY <2>1, <2>2, <2>5, <3>1
  <2> QED
    BY <2>4, <2>5
<1>2. a.year = b.year /\ a.month = b.month => DaysInMonth(a.year, a.month) = DaysInMonth(b.year, b.month)
  BY Zenon
<1> QED
  BY <1>1, <1>2 DEF NotAfter

LEMMA DayBeforeOrder ==
  ASSUME NEW a \in Date, RealDate(a), NEW b \in Date, RealDate(b)
  PROVE  /\ NotAfter(DayBefore(a), DayBefore(b)) <=> NotAfter(a, b)
         /\ NotAfter(DayBefore(a), a)
<1> DEFINE ends(d) == IF d.month > 1 THEN DaysInMonth(d.year, d.month - 1) ELSE DaysInMonth(d.year - 1, 12)
<1>1. ASSUME NEW d \in {a, b}
      PROVE  /\ d.year \in Nat /\ d.month \in 1..12 /\ d.day \in Nat /\ 1 <= d.day
             /\ d.day <= DaysInMonth(d.year, d.month) /\ ends(d) \in 28..31
             /\ (DayBefore(d)).year = (IF d.day = 1 /\ d.month = 1 THEN d.year - 1 ELSE d.year)
             /\ (DayBefore(d)).month = (IF d.day > 1 THEN d.month ELSE IF d.month = 1 THEN 12 ELSE d.month - 1)
             /\ (DayBefore(d)).day = (IF d.day > 1 THEN d.day - 1 ELSE ends(d))
  <2>1. DaysInMonth(d.year, d.month) \in 28..31 /\ ends(d) \in 28..31
    BY DEF DaysInMonth
  <2>2. d.year \in Nat /\ d.month \in 1..12 /\ d.day \in Nat /\ 1 <= d.day
        /\ d.day <= DaysInMonth(d.year, d.month) /\ d = [year |-> d.year, month |-> d.month, day |-> d.day]
    BY <2>1 DEF Date, RealDate
  <2>4. CASE d.day > 1
    <3>1. DayBefore(d) = [d EXCEPT !.day = @ - 1]
      BY <2>4, Zenon DEF DayBefore
    <3> HIDE DEF ends
    <3> QED
      BY <2>1, <2>2, <2>4, <3>1
  <2>5. CASE ~(d.day > 1) /\ d.month > 1
    <3>1. DayBefore(d) = Day(d.year, d.month - 1, ends(d))
      BY <2>5, Zenon DEF DayBefore, LastOfMonth
    <3> HIDE DEF ends
    <3> QED
      BY <2>1, <2>2, <2>5, <3>1 DEF Day
  <2>6. CASE ~(d.day > 1) /\ ~(d.month > 1)
    <3>1. DayBefore(d) = Day(d.year - 1, 12, ends(d))
      BY <2>6, Zenon DEF DayBefore, LastOfMonth
    <3> HIDE DEF ends
    <3> QED
      BY <2>1, <2>2, <2>6, <3>1 DEF Day
  <2> QED
    BY <2>4, <2>5, <2>6
<1>2. /\ a.year = b.year /\ a.month = b.month => ends(a) = ends(b)
      /\ a.month > 1 /\ b.year = a.year /\ b.month = a.month - 1 => DaysInMonth(b.year, b.month) = ends(a)
      /\ b.month > 1 /\ a.year = b.year /\ a.month = b.month - 1 => DaysInMonth(a.year, a.month) = ends(b)
      /\ ~(a.month > 1) /\ b.year = a.year - 1 /\ b.month = 12 => DaysInMonth(b.year, b.month) = ends(a)
      /\ ~(b.month > 1) /\ a.year = b.year - 1 /\ a.month = 12 => DaysInMonth(a.year, a.month) = ends(b)
  BY Zenon
<1> HIDE DEF ends
<1> QED
  BY <1>1, <1>2 DEF NotAfter

\* A window that is a day wider at both ends holds a day and its neighbours when
\* the window itself holds the day.
LEMMA WidenedHolds ==
  ASSUME NEW w \in Window, RealDate(w.lower), RealDate(w.upper), w.lower.year > 0,
         NEW d \in Date, RealDate(d), d.year > 0
  PROVE  (\A e \in {DayBefore(d), d, NextDay(d)} : Within(e, Widened(w))) <=> Within(d, w)
<1> DEFINE l == w.lower
           u == w.upper
           before == DayBefore(d)
           after == NextDay(d)
<1>1. l \in Date /\ u \in Date
  BY DEF Window
<1>2. /\ before \in Date /\ after \in Date /\ DayBefore(l) \in Date /\ NextDay(u) \in Date
  BY <1>1, DayBeforeType, NextDayType
<1>3. /\ NotAfter(DayBefore(l), before) <=> NotAfter(l, d)
      /\ NotAfter(after, NextDay(u)) <=> NotAfter(d, u)
      /\ NotAfter(before, d) /\ NotAfter(d, after)
  BY <1>1, DayBeforeOrder, NextDayOrder
<1>4. ASSUME NEW x \in Date, NEW y \in Date, NEW z \in Date, NotAfter(x, y), NotAfter(y, z)
      PROVE  NotAfter(x, z)
  BY <1>4, CutByDates DEF Later, Earlier
<1>5. Widened(w) = [lower |-> DayBefore(l), upper |-> NextDay(u)]
  BY DEF Widened
<1> HIDE DEF l, u, before, after
<1>6. \A e : Within(e, Widened(w)) <=> NotAfter(DayBefore(l), e) /\ NotAfter(e, NextDay(u))
  BY <1>5 DEF Within
<1>7. Within(d, w) <=> NotAfter(l, d) /\ NotAfter(d, u)
  BY DEF Within, l, u
<1>8. ASSUME NotAfter(DayBefore(l), before), NotAfter(after, NextDay(u))
      PROVE  \A e \in {before, d, after} : NotAfter(DayBefore(l), e) /\ NotAfter(e, NextDay(u))
  <2>1. NotAfter(DayBefore(l), d) /\ NotAfter(d, NextDay(u))
    BY <1>2, <1>3, <1>4, <1>8, Zenon
  <2>2. NotAfter(DayBefore(l), after) /\ NotAfter(before, NextDay(u))
    BY <1>2, <1>3, <1>4, <2>1, Zenon
  <2> QED
    BY <1>8, <2>1, <2>2, Zenon
<1> QED
  BY <1>3, <1>6, <1>7, <1>8, Zenon DEF before, after

(***************************************************************************)
(* The course of a walk.                                                   *)
(***************************************************************************)
\* The windows of the run, and how many they are.
Walked == MonthWindows(criteria)
Months == MonthCount(criteria)

\* What the provider has been asked for when the walk has left n months.
AskedFirst(n) == [k \in 1..n |-> Widened(Walked[k])]

\* What a checkpoint says of the months.  Pending URLs are of the last page
\* before the walk left a month, or of the month it is in.
OnCourse(s) ==
  /\ s.month \in 0..Months /\ s.asked = AskedFirst(s.month)
  /\ s.offset \in Nat /\ (s.offset > 0 => s.month < Months)
  /\ s.pending = <<>> => s.pendingFrom = {}
  /\ s.pending # <<>> => IF s.offset = 0 THEN s.month > 0 /\ s.pendingFrom = {s.month - 1}
                         ELSE s.pendingFrom = {s.month}

\* Every page but two for each month brings a URL: the one that ends the month,
\* and the first that is empty, whose fingerprint is kept.
Spent(s, n) ==
  /\ s.seen \subseteq Url /\ s.fingerprints \subseteq Seq(Url) /\ s.pages \in Nat
  /\ s.fingerprints # {} => s.month < Months
  /\ s.pages + n <= Cardinality(s.seen) + 2 * s.month + (IF <<>> \in s.fingerprints THEN 1 ELSE 0)

\* create_run stored the range it told the client, with both ends: the day on
\* which a call reads it no longer matters.
RequestKept ==
  /\ stored = [day |-> None, month |-> None, year |-> None,
               start |-> criteria.start, end |-> criteria.end,
               max_articles |-> stored.max_articles, max_pages |-> stored.max_pages]
  /\ stored.max_articles \in 1..50 /\ stored.max_pages \in 1..5
  /\ ValidRange(criteria) /\ YearAllowed(criteria.start.year)
  /\ today \in Date /\ RealDate(today)

\* A call walks the stored range and stops asking when it has URLs to spare.
CallOnCourse ==
  /\ calling \in BOOLEAN /\ collected \in Seq(Url) /\ pages \in 0..stored.max_pages
  /\ IF calling THEN windows = Walked /\ status = "ready"
     ELSE windows = <<>> /\ walk = Start /\ collected = <<>> /\ pages = 0
  /\ calling /\ Len(collected) < stored.max_articles => walk.pending = <<>>

\* A run that is ready has work left, one that is complete has none.
StatusOfWalk ==
  /\ status = "ready" => saved.month < Months \/ saved.pending # <<>>
  /\ status = "discovery_complete" => saved.month = Months /\ saved.pending = <<>>
  /\ refusedOn \in Date \cup {None} /\ faults \in 0..MaxFaults

\* The inductive invariant, together with WalkInv.
CourseInv ==
  /\ RequestKept /\ CallOnCourse /\ StatusOfWalk
  /\ OnCourse(saved) /\ Spent(saved, 0)
  /\ OnCourse(walk) /\ Spent(walk, pages)

\* Every call works out the range that was stored, whatever its clock says.
LEMMA RangeKept ==
  ASSUME RequestKept
  PROVE  /\ \A day : Named(stored, day) = criteria
         /\ MonthsTotal = Months
         /\ Months \in Nat \ {0} /\ Walked \in Seq(Window) /\ Len(Walked) = Months
<1>1. /\ stored.day = None /\ stored.month = None /\ stored.year = None
      /\ stored.start = criteria.start /\ stored.end = criteria.end
  BY DEF RequestKept
<1>2. criteria = [start |-> stored.start, end |-> stored.end] /\ stored.end # None
  BY <1>1, NoneAssumption DEF RequestKept, ValidRange
<1>3. \A day : Named(stored, day) = criteria
  BY <1>1, <1>2, Zenon DEF Named
<1>4. MonthsTotal = Months
  BY <1>2, Zenon DEF MonthsTotal, Months
<1> QED
  BY <1>3, <1>4, WindowsType DEF RequestKept, Walked, Months

\* validate_dates lets one selector through.
LEMMA OneSelector ==
  ASSUME NEW r, WellFormed(r)
  PROVE  /\ r.day # None => r.month = None /\ r.year = None
         /\ r.month # None => r.year = None
<1>1. ASSUME NEW f, NEW g, f \in Selectors(r), g \in Selectors(r), f # g PROVE FALSE
  <2>1. IsFiniteSet({f}) /\ Cardinality({f}) = 1
    BY FS_Singleton
  <2>2. IsFiniteSet({f, g}) /\ Cardinality({f, g}) = 2
    <3>1. {f, g} = {f} \cup {g} /\ g \notin {f}
      BY <1>1
    <3>2. Cardinality({f} \cup {g}) = 1 + 1 /\ IsFiniteSet({f} \cup {g})
      BY <2>1, <3>1, FS_AddElement, Zenon
    <3> QED
      BY <3>1, <3>2
  <2>3. IsFiniteSet(Selectors(r))
    <3>1. IsFiniteSet({"day"} \cup {"month"} \cup {"year"})
      BY FS_Singleton, FS_AddElement, Zenon
    <3>2. Selectors(r) \in SUBSET ({"day"} \cup {"month"} \cup {"year"})
      BY DEF Selectors
    <3> QED
      BY <3>1, <3>2, FS_Subset, Zenon
  <2>4. {f, g} \in SUBSET Selectors(r)
    BY <1>1
  <2>5. Cardinality({f, g}) <= Cardinality(Selectors(r)) /\ Cardinality(Selectors(r)) \in Nat
    BY <2>3, <2>4, FS_Subset, FS_CardinalityType, Zenon
  <2> QED
    BY <2>2, <2>5 DEF WellFormed
<1>2. /\ r.day # None => "day" \in Selectors(r)
      /\ r.month # None => "month" \in Selectors(r)
      /\ r.year # None => "year" \in Selectors(r)
  BY DEF Selectors
<1>3. "day" # "month" /\ "day" # "year" /\ "month" # "year"
  OBVIOUS
<1> QED
  BY <1>1, <1>2, <1>3, Zenon

\* A filter that the middleware accepts names a range of the calendar.
LEMMA NamedIsRange ==
  ASSUME NEW r \in Request, NEW day \in Date, RealDate(day), IsDated(r), Acceptable(r, day)
  PROVE  ValidRange(Named(r, day))
<1> DEFINE range == Named(r, day)
<1>1. /\ r.day \in 1..31 \cup {None} /\ r.month \in 1..12 \cup {None} /\ r.year \in Nat \cup {None}
      /\ \A d \in {r.start, r.end} \ {None} : d \in Date /\ RealDate(d)
  BY RequestAssumption DEF SearchFields
<1>2. day.year \in Nat /\ day.month \in 1..12
  BY DEF Date
<1>0. /\ r.day # None => r.month = None /\ r.year = None
      /\ r.month # None => r.year = None
  BY OneSelector DEF Acceptable
<1>3. /\ range = [start |-> range.start, end |-> range.end]
      /\ range.start \in Date /\ RealDate(range.start) /\ range.end \in Date /\ RealDate(range.end)
  <2>1. CASE r.day # None
    <3>1. r.day \in Nat /\ 1 <= r.day /\ r.day <= DaysInMonth(day.year, day.month)
      BY <1>1, <2>1 DEF Acceptable
    <3>2. Day(day.year, day.month, r.day) \in Date /\ RealDate(Day(day.year, day.month, r.day))
      BY <1>2, <3>1, RealDay
    <3>3. range = [start |-> Day(day.year, day.month, r.day), end |-> Day(day.year, day.month, r.day)]
      BY <1>0, <2>1, Zenon DEF Named
    <3> HIDE DEF range
    <3> QED
      BY <3>2, <3>3
  <2>2. CASE r.day = None /\ r.month # None
    <3>1. r.month \in 1..12
      BY <1>1, <2>2
    <3>2. range = [start |-> Day(day.year, r.month, 1),
                   end |-> IF r.month = day.month THEN day ELSE LastOfMonth(day.year, r.month)]
      BY <1>0, <2>2, Zenon DEF Named
    <3> HIDE DEF range
    <3> QED
      BY <1>2, <3>1, <3>2, EndsOfMonth
  <2>3. CASE r.day = None /\ r.month = None /\ r.year # None
    <3>1. r.year \in Nat
      BY <1>1, <2>3
    <3>2. range = [start |-> Day(r.year, 1, 1),
                   end |-> IF r.year = day.year THEN day ELSE LastOfMonth(r.year, 12)]
      BY <2>3, Zenon DEF Named
    <3>3. 1 \in 1..12 /\ 12 \in 1..12
      OBVIOUS
    <3> HIDE DEF range
    <3> QED
      BY <3>1, <3>2, <3>3, EndsOfMonth
  <2>4. CASE r.day = None /\ r.month = None /\ r.year = None
    <3>1. r.start # None
      BY <2>4 DEF IsDated, Selectors
    <3>2. range = [start |-> r.start, end |-> IF r.end = None THEN day ELSE r.end]
      BY <2>4, Zenon DEF Named
    <3> HIDE DEF range
    <3> QED
      BY <1>1, <3>1, <3>2
  <2> QED
    BY <2>1, <2>2, <2>3, <2>4
<1>4. NotAfter(range.start, range.end) /\ MonthCount(range) <= MaxMonths
  BY DEF Acceptable
<1> HIDE DEF range
<1>5. ValidRange(range)
  BY <1>3, <1>4, Zenon DEF ValidRange
<1> QED
  BY <1>5 DEF range

\* What is asked next is put after what was asked before.
LEMMA AskedNext ==
  ASSUME NEW n \in Nat
  PROVE  Append(AskedFirst(n), Widened(Walked[n + 1])) = AskedFirst(n + 1)
<1> DEFINE f(k) == Widened(Walked[k])
<1> HIDE DEF f
<1>1. Append([k \in 1..n |-> f(k)], f(n + 1)) = [k \in 1..(n + 1) |-> f(k)]
  OBVIOUS
<1> QED
  BY <1>1, Zenon DEF AskedFirst, f

\* The windows walked are between days of the calendar, none before the range.
LEMMA WalkedDays ==
  ASSUME RequestKept, NEW k \in 1..Months
  PROVE  /\ Walked[k] \in Window /\ Widened(Walked[k]) \in Window
         /\ RealDate(Walked[k].lower) /\ RealDate(Walked[k].upper) /\ Walked[k].lower.year > 0
<1> DEFINE s == criteria.start
           e == criteria.end
           n == Index(s) + k - 1
           w == Walked[k]
<1>1. ValidRange(criteria) /\ s \in Date /\ RealDate(s) /\ e \in Date /\ RealDate(e) /\ s.year > 0
  BY DEF RequestKept, ValidRange, YearAllowed
<1>2. n \in Nat
  BY <1>1, IndexOf, RangeCount DEF Months
<1>3. w = CutTo(n, criteria)
  BY <1>1, WindowsAre, Zenon DEF Walked, Months
<1> HIDE DEF n
<1>4. FirstOf(n) \in Date /\ RealDate(FirstOf(n)) /\ LastOf(n) \in Date /\ RealDate(LastOf(n))
  BY <1>2, MonthEnds
<1>5. w.lower = Later(FirstOf(n), s) /\ w.upper = Earlier(LastOf(n), e)
      /\ w = [lower |-> w.lower, upper |-> w.upper]
  BY <1>3 DEF CutTo
<1>6. w.lower \in {FirstOf(n), s} /\ w.upper \in {LastOf(n), e}
  BY <1>1, <1>4, <1>5, OrderOfDates
<1> HIDE DEF s, e, w
<1>7. /\ w.lower \in Date /\ RealDate(w.lower) /\ w.upper \in Date /\ RealDate(w.upper)
  BY <1>1, <1>4, <1>6, Zenon
<1>8. w.lower.year > 0
  <2>1. NotAfter(s, w.lower)
    <3>1. NotAfter(w.lower, w.lower)
      BY <1>7, OrderOfDates
    <3> QED
      BY <1>1, <1>4, <1>5, <1>7, <3>1, CutByDates
  <2>2. s.year \in Nat /\ w.lower.year \in Nat
    BY <1>1, <1>7 DEF Date
  <2> QED
    BY <1>1, <2>1, <2>2 DEF NotAfter
<1>9. w \in Window
  BY <1>5, <1>7, Zenon DEF Window
<1>10. Widened(w) \in Window
  <2>1. DayBefore(w.lower) \in Date /\ NextDay(w.upper) \in Date
    BY <1>7, <1>8, DayBeforeType, NextDayType
  <2> QED
    BY <2>1 DEF Widened, Window
<1> QED
  BY <1>7, <1>8, <1>9, <1>10 DEF w

\* A run starts at its first month, with nothing spent.
LEMMA StartOnCourse ==
  ASSUME RequestKept
  PROVE  OnCourse(Start) /\ Spent(Start, 0)
<1>1. Months \in Nat \ {0} /\ Walked \in Seq(Window)
  BY RangeKept
<1>2. AskedFirst(0) = <<>>
  BY DEF AskedFirst
<1>3. Cardinality({}) = 0
  BY FS_EmptySet
<1>4. OnCourse(Start)
  BY <1>1, <1>2 DEF OnCourse, Start
<1>5. Spent(Start, 0)
  BY <1>1, <1>3 DEF Spent, Start
<1> QED
  BY <1>4, <1>5

\* A submitted run is on its course.
LEMMA CourseSubmitted ==
  ASSUME Submitted, status # "discovery_complete", faults = 0
  PROVE  CourseInv
<1>1. PICK r \in Request : /\ IsDated(r) /\ MiddlewareAccepts(r, today)
                           /\ stored = Canonical(r, today) /\ criteria = Named(r, today)
  BY DEF Submitted
<1>2. today \in Date /\ RealDate(today)
  BY ClockAssumption DEF Submitted
<1>3. ValidRange(criteria)
  BY <1>1, <1>2, NamedIsRange, Zenon DEF MiddlewareAccepts
<1>4. RequestKept
  <2>1. r = [day |-> r.day, month |-> r.month, year |-> r.year, start |-> r.start, end |-> r.end,
             max_articles |-> r.max_articles, max_pages |-> r.max_pages]
        /\ r.max_articles \in 1..50 /\ r.max_pages \in 1..5
    BY RequestAssumption DEF SearchFields
  <2>2. stored = [day |-> None, month |-> None, year |-> None,
                  start |-> criteria.start, end |-> criteria.end,
                  max_articles |-> r.max_articles, max_pages |-> r.max_pages]
    BY <1>1, <2>1 DEF Canonical
  <2> QED
    <3>1. YearAllowed(criteria.start.year)
      BY <1>1 DEF MiddlewareAccepts
    <3> QED
      BY <1>2, <1>3, <2>1, <2>2, <3>1 DEF RequestKept
<1>5. OnCourse(Start) /\ Spent(Start, 0) /\ Months \in Nat \ {0}
  BY <1>4, StartOnCourse, RangeKept
<1>6. CallOnCourse
  <2>1. 0 \in 0..stored.max_pages
    BY <1>4 DEF RequestKept
  <2>2. /\ calling = FALSE /\ collected = <<>> /\ pages = 0 /\ windows = <<>> /\ walk = Start
    BY DEF Submitted
  <2>3. collected \in Seq(Url)
    BY <2>2
  <2> QED
    BY <2>1, <2>2, <2>3, Zenon DEF CallOnCourse
<1>7. StatusOfWalk
  BY <1>5, BoundAssumption DEF Submitted, StatusOfWalk, Start
<1> QED
  BY <1>4, <1>5, <1>6, <1>7 DEF CourseInv, Submitted

\* Nothing of the request changes while its fields do not.
LEMMA RequestStays ==
  ASSUME RequestKept, UNCHANGED <<stored, criteria, today>>
  PROVE  RequestKept'
  BY DEF RequestKept

\* A call takes over pending URLs, in the month they are of or past it.
LEMMA EnterOnCourse ==
  ASSUME WalkInv, CourseInv, NEW day, Enter(day)
  PROVE  CourseInv'
<1> DEFINE n == Taken(saved)
           front == SubSeq(saved.pending, 1, n)
           back == SubSeq(saved.pending, n + 1, Len(saved.pending))
<1>1. /\ UNCHANGED <<stored, criteria, today, saved, status, refusedOn, faults>>
      /\ calling' = TRUE /\ pages' = 0 /\ status = "ready"
      /\ windows' = Walked /\ collected' = front
      /\ walk' = [saved EXCEPT !.pending = back,
                               !.pendingFrom = IF back = <<>> THEN {} ELSE @]
  BY RangeKept DEF Enter, request, CourseInv, Walked
<1>2. n \in 0..Len(saved.pending) /\ (n < stored.max_articles => n = Len(saved.pending))
      /\ stored.max_articles \in Nat
  BY DEF Taken, WalkInv, Fields
<1>3. front \in Seq(Url) /\ back \in Seq(Url) /\ Len(front) = n
  BY <1>2, OccursCut DEF WalkInv, Fields
<1>4. (n = Len(saved.pending) => back = <<>>) /\ (back # <<>> => saved.pending # <<>>)
  BY <1>2 DEF WalkInv, Fields
<1> HIDE DEF front, back, n
<1>5. /\ walk'.month = saved.month /\ walk'.offset = saved.offset /\ walk'.asked = saved.asked
      /\ walk'.seen = saved.seen /\ walk'.fingerprints = saved.fingerprints
      /\ walk'.pages = saved.pages /\ walk'.pending = back
      /\ walk'.pendingFrom = IF back = <<>> THEN {} ELSE saved.pendingFrom
  BY <1>1 DEF WalkInv, Fields
<1>6. RequestKept' /\ OnCourse(saved)' /\ Spent(saved, 0)'
  BY <1>1, RequestStays DEF CourseInv, OnCourse, Spent, Walked, Months, AskedFirst
<1>7. OnCourse(walk)'
  BY <1>1, <1>4, <1>5 DEF CourseInv, OnCourse, Walked, Months, AskedFirst
<1>8. Spent(walk, pages)'
  BY <1>1, <1>5 DEF CourseInv, Spent, Months
<1>9. CallOnCourse'
  <2>1. 0 \in 0..stored.max_pages
    BY DEF CourseInv, RequestKept
  <2> QED
    BY <1>1, <1>2, <1>3, <1>4, <1>5, <2>1 DEF CallOnCourse, Walked
<1>10. StatusOfWalk'
  BY <1>1 DEF CourseInv, StatusOfWalk, Months
<1> QED
  BY <1>6, <1>7, <1>8, <1>9, <1>10 DEF CourseInv

\* A page that leaves its month is paid for by the month, which adds two to the budget.
LEMMA PageThatLeaves ==
  ASSUME NEW spent \in Nat, NEW q \in Nat, NEW seen \in Nat, NEW new \in Nat,
         NEW m \in Nat, NEW empty \in 0..1,
         spent + q <= seen + 2 * m + empty
  PROVE  spent + (q + 1) <= (seen + new) + 2 * (m + 1) + 0
OBVIOUS

\* A page that stays in its month is paid for by a new address, or by being its first empty page.
LEMMA PageThatStays ==
  ASSUME NEW spent \in Nat, NEW q \in Nat, NEW seen \in Nat, NEW new \in Nat,
         NEW m \in Nat, NEW empty \in 0..1, NEW emptyNow \in 0..1,
         spent + q <= seen + 2 * m + empty,
         emptyNow >= empty,
         new >= 1 \/ (empty = 0 /\ emptyNow = 1)
  PROVE  spent + (q + 1) <= (seen + new) + 2 * m + emptyNow
OBVIOUS

\* A page moves the walk on, and costs no more than it brings.
LEMMA PageOnCourse ==
  ASSUME WalkInv, CourseInv, NEW p \in Fresh, NEW hasNext \in BOOLEAN, Page(p, hasNext)
  PROVE  CourseInv'
<1> DEFINE repeated == p \in walk.fingerprints
           room == stored.max_articles - Len(collected)
           n == IF room < Len(p) THEN room ELSE Len(p)
           back == SubSeq(p, n + 1, Len(p))
           leaves == ~hasNext \/ repeated
<1>1. /\ UNCHANGED <<stored, criteria, today, saved, status, refusedOn, faults, windows, calling>>
      /\ calling /\ windows = Walked /\ status = "ready" /\ pages' = pages + 1
      /\ Len(collected) < stored.max_articles /\ pages < stored.max_pages
      /\ walk.month < Len(windows) /\ walk.pending = <<>>
      /\ collected' = IF repeated THEN collected ELSE collected \o SubSeq(p, 1, n)
  BY DEF Page, WantsMore, request, CourseInv, CallOnCourse
<1>2. /\ p \in Seq(Url) /\ ToSet(p) \cap walk.seen = {} /\ ToSet(p) \subseteq Url
      /\ (p # <<>> => ToSet(p) # {}) /\ (p = <<>> => ToSet(p) = {})
  <2>1. p \in Seq(Url) /\ ToSet(p) \cap walk.seen = {} /\ ToSet(p) \subseteq Url
    BY DEF Fresh, SeqOf, ToSet
  <2>2. p # <<>> => p[1] \in ToSet(p)
    BY <2>1 DEF ToSet
  <2>3. p = <<>> => ToSet(p) = {}
    BY DEF ToSet
  <2> QED
    BY <2>1, <2>2, <2>3
<1>3. repeated => p = <<>>
  BY <1>2 DEF WalkInv, Fields
<1>4. /\ n \in 0..Len(p) /\ stored.max_articles \in Nat /\ pages \in Nat
      /\ (Len(collected) + n < stored.max_articles => n = Len(p))
      /\ Months \in Nat \ {0} /\ Walked \in Seq(Window) /\ Len(Walked) = Months
      /\ walk.month \in Nat /\ walk.month < Months
  <2>1. /\ stored.max_articles \in Nat /\ pages \in Nat /\ Len(collected) \in Nat
    <3>1. stored.max_articles \in 1..50 /\ stored.max_pages \in 1..5
      BY DEF CourseInv, RequestKept
    <3>2. pages \in 0..stored.max_pages /\ collected \in Seq(Url)
      BY DEF CourseInv, CallOnCourse
    <3>3. \A k \in 1..5 : \A j \in 0..k : j \in Nat
      OBVIOUS
    <3>4. pages \in Nat
      BY <3>1, <3>2, <3>3, Zenon
    <3>5. stored.max_articles \in Nat
      BY <3>1
    <3>6. Len(collected) \in Nat
      BY <3>2
    <3> QED
      BY <3>4, <3>5, <3>6
  <2>2. Len(p) \in Nat /\ room \in Nat
    BY <1>1, <1>2, <2>1
  <2>3. Months \in Nat \ {0} /\ Walked \in Seq(Window) /\ Len(Walked) = Months
    BY RangeKept DEF CourseInv
  <2>4. walk.month \in Nat /\ walk.month < Months
    BY <1>1, <2>3 DEF CourseInv, OnCourse, AskedFirst
  <2> QED
    BY <2>1, <2>2, <2>3, <2>4
<1>5. /\ SubSeq(p, 1, n) \in Seq(Url) /\ back \in Seq(Url) /\ Len(SubSeq(p, 1, n)) = n
  BY <1>2, <1>4, OccursCut
<1>6. (n = Len(p) => back = <<>>) /\ (back = <<>> => n = Len(p))
  <2> HIDE DEF n
  <2>1. Len(p) \in Nat
    BY <1>2
  <2>2. n = Len(p) => back = <<>>
    BY <1>2, <2>1
  <2>3. n < Len(p) => Len(back) = Len(p) - n
    BY <1>2, <1>4, <2>1
  <2>4. n < Len(p) => back # <<>>
    <3> HIDE DEF back
    <3> QED
      BY <1>4, <2>1, <2>3
  <2>5. n = Len(p) \/ n < Len(p)
    BY <1>4, <2>1
  <2> QED
    BY <2>2, <2>4, <2>5, Zenon
<1>7. /\ walk'.seen = walk.seen \cup ToSet(p)
      /\ walk'.pending = IF repeated THEN <<>> ELSE back
      /\ walk'.month = IF leaves THEN walk.month + 1 ELSE walk.month
      /\ walk'.offset = IF leaves THEN 0 ELSE walk.offset + 10
      /\ walk'.fingerprints = IF leaves THEN {} ELSE walk.fingerprints \cup {p}
      /\ walk'.pages = walk.pages
      /\ walk'.asked = IF leaves THEN Append(walk.asked, Widened(Walked[walk.month + 1])) ELSE walk.asked
      /\ walk'.pendingFrom = IF repeated \/ n = Len(p) THEN walk.pendingFrom
                             ELSE walk.pendingFrom \cup {walk.month}
  <2> HIDE DEF back, n, repeated, room
  <2>1. walk' = [walk EXCEPT
          !.seen = @ \cup ToSet(p),
          !.pending = IF repeated THEN @ ELSE RestKept(p, n),
          !.month = IF leaves THEN @ + 1 ELSE @,
          !.offset = IF leaves THEN 0 ELSE @ + 10,
          !.fingerprints = IF leaves THEN {} ELSE Remembered(p),
          !.asked = IF leaves THEN Append(@, Widened(windows[walk.month + 1])) ELSE @,
          !.pendingFrom = IF repeated \/ n = Len(p) THEN @ ELSE @ \cup {walk.month}]
    BY Zenon DEF Page, repeated, n, room
  <2>2. walk.pending \o back = back
    BY <1>1, <1>5
  <2>3. RestKept(p, n) = back /\ Remembered(p) = walk.fingerprints \cup {p}
    BY <2>2, Zenon DEF RestKept, Remembered, back
  <2> HIDE DEF leaves
  <2> QED
    BY <1>1, <2>1, <2>3 DEF WalkInv, Fields
<1> HIDE DEF back, n, repeated, room
<1>8. RequestKept' /\ OnCourse(saved)' /\ Spent(saved, 0)' /\ StatusOfWalk'
  BY <1>1, RequestStays DEF CourseInv, OnCourse, Spent, Walked, Months, StatusOfWalk, AskedFirst
<1>9. CallOnCourse'
  <2>1. collected' \in Seq(Url)
    BY <1>1, <1>5 DEF CourseInv, CallOnCourse
  <2>2. pages' \in 0..stored.max_pages
    BY <1>1 DEF CourseInv, CallOnCourse, RequestKept
  <2>3. Len(collected') < stored.max_articles => walk'.pending = <<>>
    <3>1. ~repeated => Len(collected') = Len(collected) + n
      BY <1>1, <1>5 DEF CourseInv, CallOnCourse
    <3> QED
      BY <1>4, <1>6, <1>7, <3>1
  <2> QED
    BY <1>1, <2>1, <2>2, <2>3 DEF CourseInv, CallOnCourse, Walked
<1>10. OnCourse(walk)'
  <2>1. /\ walk.month \in 0..Months /\ walk.asked = AskedFirst(walk.month)
        /\ walk.offset \in Nat /\ walk.pendingFrom = {}
    BY <1>1 DEF CourseInv, OnCourse, AskedFirst
  <2>2. Append(walk.asked, Widened(Walked[walk.month + 1])) = AskedFirst(walk.month + 1)
    BY <1>4, <2>1, AskedNext, Zenon
  <2>3. UNCHANGED <<Walked, Months>>
    BY <1>1 DEF Walked, Months
  <2>4. walk'.month \in 0..Months /\ walk'.asked = AskedFirst(walk'.month)
    <3>1. walk.month + 1 \in 0..Months
      BY <1>4
    <3> QED
      BY <1>7, <2>1, <2>2, <3>1, Zenon
  <2>5. walk'.offset \in Nat /\ (walk'.offset > 0 => walk'.month < Months)
    BY <1>4, <1>7, <2>1
  <2>6. walk'.pending = <<>> => walk'.pendingFrom = {}
    BY <1>6, <1>7, <2>1
  <2>7. walk'.pending # <<>> => IF walk'.offset = 0 THEN walk'.month > 0 /\ walk'.pendingFrom = {walk'.month - 1}
                         ELSE walk'.pendingFrom = {walk'.month}
    <3> SUFFICES ASSUME walk'.pending # <<>>
                 PROVE  IF walk'.offset = 0 THEN walk'.month > 0 /\ walk'.pendingFrom = {walk'.month - 1}
                        ELSE walk'.pendingFrom = {walk'.month}
      OBVIOUS
    <3>1. ~(repeated \/ n = Len(p))
      BY <1>6, <1>7
    <3>2. walk'.pendingFrom = {walk.month}
      BY <1>7, <2>1, <3>1
    <3>3. walk.month \in Nat
      BY <1>4
    <3>4. leaves => walk'.month = walk.month + 1 /\ walk'.offset = 0
      BY <1>7
    <3>5. ~leaves => walk'.month = walk.month /\ walk'.offset = walk.offset + 10
      BY <1>7
    <3> HIDE DEF leaves, repeated, n
    <3>6. CASE leaves
      BY <2>1, <3>2, <3>3, <3>4, <3>6
    <3>7. CASE ~leaves
      BY <2>1, <3>2, <3>3, <3>5, <3>7
    <3> QED
      BY <3>6, <3>7
  <2> QED
    BY <2>3, <2>4, <2>5, <2>6, <2>7 DEF OnCourse, AskedFirst
<1>11. Spent(walk, pages)'
  <2>1. /\ walk.seen \subseteq Url /\ walk.fingerprints \subseteq Seq(Url) /\ walk.pages \in Nat
        /\ walk.pages + pages <= Cardinality(walk.seen) + 2 * walk.month
                                  + (IF <<>> \in walk.fingerprints THEN 1 ELSE 0)
    BY DEF CourseInv, Spent
  <2>2. /\ walk'.seen \subseteq Url /\ walk'.fingerprints \subseteq Seq(Url) /\ walk'.pages \in Nat
        /\ walk'.fingerprints # {} => walk'.month < Months
    BY <1>2, <1>4, <1>7, <2>1
  <2>3. /\ IsFiniteSet(walk.seen) /\ Cardinality(walk.seen) \in Nat
        /\ IsFiniteSet(ToSet(p)) /\ Cardinality(ToSet(p)) \in Nat /\ Cardinality({}) = 0
        /\ Cardinality(ToSet(p)) = 0 <=> ToSet(p) = {}
    BY <1>2, <2>1, UrlAssumption, FS_Subset, FS_CardinalityType, FS_EmptySet
  <2>4. Cardinality(walk'.seen) = Cardinality(walk.seen) + Cardinality(ToSet(p))
    <3>1. Cardinality(walk.seen \cup ToSet(p)) =
            Cardinality(walk.seen) + Cardinality(ToSet(p)) - Cardinality(walk.seen \cap ToSet(p))
      BY <2>3, FS_Union, Zenon
    <3>2. walk.seen \cap ToSet(p) = {}
      BY <1>2
    <3>3. Cardinality(walk.seen \cap ToSet(p)) = 0
      BY <2>3, <3>2, Zenon
    <3>4. Cardinality(walk.seen \cup ToSet(p)) = Cardinality(walk.seen) + Cardinality(ToSet(p))
      BY <2>3, <3>1, <3>3
    <3> QED
      BY <1>7, <3>4, Zenon
  <2>5. p # <<>> => Cardinality(ToSet(p)) >= 1 /\ ~repeated
    BY <1>2, <1>3, <2>3
  <2>6. walk'.pages + pages' <= Cardinality(walk'.seen) + 2 * walk'.month
                                  + (IF <<>> \in walk'.fingerprints THEN 1 ELSE 0)
    <3> DEFINE seen == Cardinality(walk.seen)
               new == Cardinality(ToSet(p))
               empty == IF <<>> \in walk.fingerprints THEN 1 ELSE 0
               emptyNow == IF <<>> \in walk'.fingerprints THEN 1 ELSE 0
    <3>1. /\ seen \in Nat /\ new \in Nat /\ empty \in 0..1 /\ walk.pages \in Nat
          /\ pages \in Nat /\ walk.month \in Nat
          /\ walk.pages + pages <= seen + 2 * walk.month + empty
      BY <1>4, <2>1, <2>3
    <3>2. walk'.pages = walk.pages /\ pages' = pages + 1 /\ Cardinality(walk'.seen) = seen + new
      BY <1>1, <1>7, <2>4
    <3>3. new >= 1 \/ p = <<>>
      BY <2>5
    <3>4. CASE leaves
      <4>1. walk'.month = walk.month + 1 /\ emptyNow = 0
        BY <1>7, <3>4
      <4>2. walk.pages + (pages + 1) <= (seen + new) + 2 * (walk.month + 1) + 0
        BY <3>1, PageThatLeaves, Zenon
      <4> HIDE DEF seen, new, empty, emptyNow, leaves
      <4>3. walk'.pages + pages' <= Cardinality(walk'.seen) + 2 * walk'.month + emptyNow
        BY <3>2, <4>1, <4>2, Zenon
      <4> QED
        BY <4>3, Zenon DEF emptyNow
    <3>5. CASE ~leaves
      <4>1. walk'.month = walk.month /\ walk'.fingerprints = walk.fingerprints \cup {p}
        BY <1>7, <3>5
      <4>2. p \notin walk.fingerprints
        BY <3>5 DEF repeated
      <4>3. emptyNow >= empty /\ (p = <<>> => empty = 0 /\ emptyNow = 1) /\ emptyNow \in 0..1
        BY <4>1, <4>2
      <4> HIDE DEF seen, new, empty, emptyNow, leaves
      <4>4. new >= 1 \/ (empty = 0 /\ emptyNow = 1)
        BY <3>3, <4>3, Zenon
      <4>5. walk.pages + (pages + 1) <= (seen + new) + 2 * walk.month + emptyNow
        BY <3>1, <4>3, <4>4, PageThatStays, Zenon
      <4>6. walk'.pages + pages' <= Cardinality(walk'.seen) + 2 * walk'.month + emptyNow
        BY <3>2, <4>1, <4>5, Zenon
      <4> QED
        BY <4>6, Zenon DEF emptyNow
    <3> QED
      BY <3>4, <3>5
  <2> QED
    BY <1>1, <2>2, <2>6 DEF Spent, Months
<1> QED
  BY <1>8, <1>9, <1>10, <1>11 DEF CourseInv

\* The commit stores the walk, and its pages with it.
LEMMA CommitOnCourse ==
  ASSUME WalkInv, CourseInv, Commit
  PROVE  CourseInv'
<1>1. /\ UNCHANGED <<stored, criteria, today, refusedOn, faults>>
      /\ calling /\ windows = Walked
      /\ calling' = FALSE /\ collected' = <<>> /\ pages' = 0 /\ walk' = Start /\ windows' = <<>>
      /\ saved' = [walk EXCEPT !.pages = @ + pages]
      /\ status' = IF AllWalked(walk) THEN "discovery_complete" ELSE "ready"
  BY DEF Commit, CallEnds, request, CourseInv, CallOnCourse
<1>2. RequestKept'
  BY <1>1, RequestStays DEF CourseInv
<1>3. /\ saved'.month = walk.month /\ saved'.offset = walk.offset /\ saved'.asked = walk.asked
      /\ saved'.seen = walk.seen /\ saved'.fingerprints = walk.fingerprints
      /\ saved'.pages = walk.pages + pages /\ saved'.pending = walk.pending
      /\ saved'.pendingFrom = walk.pendingFrom
  BY <1>1 DEF WalkInv, Fields
<1>4. pages \in Nat /\ 0 \in 0..stored.max_pages
  BY DEF CourseInv, CallOnCourse, RequestKept
<1>5. UNCHANGED <<Walked, Months>>
  BY <1>1 DEF Walked, Months
<1>6. OnCourse(saved)' /\ Spent(saved, 0)'
  <2>1. OnCourse(saved)'
    BY <1>3, <1>5 DEF CourseInv, OnCourse, AskedFirst
  <2>2. UNCHANGED Months /\ saved'.pages + 0 = walk.pages + pages
    BY <1>3, <1>4, <1>5 DEF CourseInv, Spent
  <2>3. saved'.pages \in Nat
    BY <1>3, <1>4 DEF CourseInv, Spent
  <2> QED
    BY <1>3, <2>1, <2>2, <2>3 DEF CourseInv, Spent
<1>7. OnCourse(walk)' /\ Spent(walk, pages)'
  BY <1>1, <1>5, StartOnCourse DEF CourseInv, OnCourse, Spent, AskedFirst
<1>8. CallOnCourse'
  <2>1. <<>> \in Seq(Url)
    OBVIOUS
  <2> QED
    BY <1>1, <1>4, <2>1, Zenon DEF CallOnCourse
<1>9. StatusOfWalk'
  <2>1. Len(windows) = Months /\ Months \in Nat /\ walk.month \in 0..Months
    BY <1>1, RangeKept DEF CourseInv, OnCourse, AskedFirst
  <2> QED
    BY <1>1, <1>3, <1>5, <2>1 DEF CourseInv, StatusOfWalk, AllWalked
<1> QED
  BY <1>2, <1>6, <1>7, <1>8, <1>9 DEF CourseInv

\* A call that ends without a commit leaves the run where it was.
LEMMA CallEndsOnCourse ==
  ASSUME CourseInv, CallEnds, UNCHANGED <<stored, criteria, today, saved>>, StatusOfWalk'
  PROVE  CourseInv'
<1>1. calling' = FALSE /\ collected' = <<>> /\ pages' = 0 /\ walk' = Start /\ windows' = <<>>
  BY DEF CallEnds
<1>2. RequestKept'
  BY RequestStays DEF CourseInv
<1>3. UNCHANGED <<Walked, Months>>
  BY DEF Walked, Months
<1>4. OnCourse(saved)' /\ Spent(saved, 0)'
  BY <1>3 DEF CourseInv, OnCourse, Spent, AskedFirst
<1>5. CallOnCourse'
  <2>1. <<>> \in Seq(Url) /\ 0 \in 0..stored.max_pages
    BY DEF CourseInv, RequestKept
  <2> QED
    BY <1>1, <2>1, Zenon DEF CallOnCourse
<1>6. OnCourse(walk)' /\ Spent(walk, pages)'
  BY <1>1, <1>3, StartOnCourse DEF CourseInv, OnCourse, Spent, AskedFirst
<1> QED
  BY <1>2, <1>4, <1>5, <1>6 DEF CourseInv

\* So does one that fails, whether the run fails with it or not.
LEMMA RollbackOnCourse ==
  ASSUME CourseInv, NEW outcome \in {"ready", "failed"}, Rollback(outcome)
  PROVE  CourseInv'
<1>1. /\ UNCHANGED <<stored, criteria, today, saved, refusedOn>> /\ CallEnds
      /\ status = "ready" /\ status' = outcome
      /\ faults < MaxFaults /\ faults' = faults + 1
  BY DEF Rollback, request, CourseInv, CallOnCourse
<1>2. UNCHANGED Months
  BY <1>1 DEF Months
<1>3. StatusOfWalk'
  BY <1>1, <1>2, BoundAssumption DEF CourseInv, StatusOfWalk
<1> QED
  BY <1>1, <1>3, CallEndsOnCourse

\* The days that pass do not matter to a range that is stored.
LEMMA CourseStays ==
  ASSUME CourseInv, RequestKept', UNCHANGED <<stored, criteria, saved, call>>, StatusOfWalk',
         calling => UNCHANGED status
  PROVE  CourseInv'
<1>1. UNCHANGED <<stored, criteria, saved, walk, windows, calling, collected, pages>>
  BY DEF call
<1>2. UNCHANGED <<Walked, Months>>
  BY <1>1 DEF Walked, Months
<1>3. OnCourse(saved)' /\ Spent(saved, 0)' /\ OnCourse(walk)' /\ Spent(walk, pages)'
  BY <1>1, <1>2 DEF CourseInv, OnCourse, Spent, AskedFirst
<1>4. CallOnCourse'
  BY <1>1, <1>2 DEF CourseInv, CallOnCourse
<1> QED
  BY <1>3, <1>4 DEF CourseInv

\* A day that passes moves no date of the stored range.
LEMMA DayOnCourse ==
  ASSUME CourseInv, DayPasses
  PROVE  CourseInv'
<1>1. UNCHANGED <<stored, criteria, saved, call, faults, status, refusedOn>> /\ today' = NextDay(today)
  BY DEF DayPasses, request
<1>2. RequestKept'
  BY <1>1, NextDayType DEF CourseInv, RequestKept
<1>3. StatusOfWalk'
  BY <1>1 DEF CourseInv, StatusOfWalk, Months
<1> QED
  BY <1>1, <1>2, <1>3, CourseStays

\* Every step of a run keeps it on its course.
LEMMA CourseStep == WalkInv /\ CourseInv /\ [Next]_vars => CourseInv'
<1> SUFFICES ASSUME WalkInv, CourseInv, [Next]_vars PROVE CourseInv'
  OBVIOUS
<1>1. CASE Begin
  BY <1>1, EnterOnCourse DEF Begin
<1>2. CASE \E p \in Fresh, hasNext \in BOOLEAN : Page(p, hasNext)
  BY <1>2, PageOnCourse
<1>3. CASE Commit
  BY <1>3, CommitOnCourse
<1>4. CASE \E outcome \in {"ready", "failed"} : Rollback(outcome)
  BY <1>4, RollbackOnCourse
<1>5. CASE Refuse
  <2>1. UNCHANGED <<stored, criteria, today, saved, call, faults>>
        /\ ~calling /\ status' = "failed" /\ refusedOn' = today
    BY <1>5 DEF Refuse, request
  <2>2. StatusOfWalk'
    BY <2>1 DEF CourseInv, StatusOfWalk, RequestKept
  <2> QED
    BY <2>1, <2>2, RequestStays, CourseStays DEF CourseInv
<1>6. CASE DayPasses
  BY <1>6, DayOnCourse
<1>7. CASE UNCHANGED vars
  <2>1. UNCHANGED <<stored, criteria, today, saved, call, faults, status, refusedOn>>
    BY <1>7 DEF vars, request
  <2>2. StatusOfWalk'
    BY <2>1 DEF CourseInv, StatusOfWalk, Months
  <2> QED
    BY <2>1, <2>2, RequestStays, CourseStays DEF CourseInv
<1> QED
  BY <1>1, <1>2, <1>3, <1>4, <1>5, <1>6, <1>7 DEF Next, Walks

\* Both invariants together are inductive.
LEMMA CourseInvHolds == Spec => [](WalkInv /\ CourseInv)
<1>1. Init => WalkInv /\ CourseInv
  BY WalkSubmitted, CourseSubmitted DEF Init
<1>2. WalkInv /\ CourseInv /\ [Next]_vars => (WalkInv /\ CourseInv)'
  BY WalkStep, CourseStep
<1> QED
  BY <1>1, <1>2, PTL DEF Spec

\* The status of a submitted run is one of three.
StatusType == status \in {"ready", "discovery_complete", "failed"}

\* No step gives it another.
LEMMA StatusHolds == Spec => []StatusType
<1>1. Init => StatusType
  BY DEF Init, StatusType
<1>2. StatusType /\ [Next]_vars => StatusType'
  BY DEF StatusType, Next, Walks, Begin, Enter, Refuse, Commit, Page, DayPasses, Rollback, vars
<1> QED
  BY <1>1, <1>2, PTL DEF Spec

\* Every variable of a dated search has its type, the checkpoint in state_json
\* and the copy that advance works on among them.
THEOREM TypesHold == Spec => []TypeOK
<1>1. ASSUME WalkInv, CourseInv, StatusType PROVE TypeOK
  <2>1. ASSUME NEW s, NEW n, Fields(s), OnCourse(s), Spent(s, n) PROVE s \in Checkpoint
    <3>1. Months \in Nat /\ Walked \in Seq(Window) /\ Len(Walked) = Months
      BY <1>1, RangeKept DEF CourseInv
    <3>2. s.month \in Nat /\ s.month <= Months /\ s.asked = AskedFirst(s.month) /\ s.offset \in Nat
      BY <2>1, <3>1 DEF OnCourse
    <3>3. s.asked \in Seq(Window)
      <4>1. \A k \in 1..s.month : k \in 1..Months
        BY <3>1, <3>2
      <4>2. \A k \in 1..s.month : Widened(Walked[k]) \in Window
        BY <1>1, <4>1, WalkedDays DEF CourseInv
      <4> QED
        BY <3>2, <4>2 DEF AskedFirst
    <3>4. s.pendingFrom \subseteq Nat
      BY <2>1, <3>2 DEF OnCourse
    <3>5. s.pending \in Seq(Url) /\ s.seen \subseteq Url /\ s.fingerprints \subseteq Seq(Url) /\ s.pages \in Nat
      BY <2>1 DEF Fields, Spent
    <3>6. s = [month |-> s.month, offset |-> s.offset, pending |-> s.pending, seen |-> s.seen,
               fingerprints |-> s.fingerprints, pages |-> s.pages, asked |-> s.asked,
               pendingFrom |-> s.pendingFrom]
      BY <2>1, Zenon DEF Fields
    <3> QED
      BY <3>2, <3>3, <3>4, <3>5, <3>6 DEF Checkpoint
  <2>2. saved \in Checkpoint /\ walk \in Checkpoint
    BY <1>1, <2>1 DEF WalkInv, CourseInv
  <2>3. criteria \in [start : Date, end : Date] /\ today \in Date
    BY <1>1 DEF CourseInv, RequestKept, ValidRange
  <2>4. windows \in Seq(Window)
    BY <1>1, RangeKept DEF CourseInv, CallOnCourse
  <2> QED
    BY <1>1, <2>2, <2>3, <2>4 DEF WalkInv, CourseInv, CallOnCourse, StatusOfWalk, StatusType, TypeOK
<1> QED
  BY <1>1, CourseInvHolds, StatusHolds, PTL

\* However the calls fail and repeat, a run fetches no more pages than the
\* provider has URLs, and two for each month: the page that ends a month and an
\* empty one before it bring nothing.
THEOREM QuotaIsBounded == Spec => []PagesAreBounded
<1>1. ASSUME WalkInv, CourseInv PROVE PagesAreBounded
  <2>1. /\ saved.seen \subseteq Url /\ saved.pages \in Nat
        /\ saved.fingerprints # {} => saved.month < Months
        /\ saved.pages + 0 <= Cardinality(saved.seen) + 2 * saved.month
                                + (IF <<>> \in saved.fingerprints THEN 1 ELSE 0)
    BY <1>1 DEF CourseInv, Spent
  <2>2. Months \in Nat /\ MonthsTotal = Months /\ saved.month \in 0..Months
    BY <1>1, RangeKept DEF CourseInv, OnCourse
  <2>3. /\ Cardinality(saved.seen) \in Nat /\ Cardinality(Url) \in Nat
        /\ Cardinality(saved.seen) <= Cardinality(Url)
    BY <2>1, UrlAssumption, FS_Subset, FS_CardinalityType
  <2>4. <<>> \in saved.fingerprints => saved.month < Months
    BY <2>1
  <2>5. saved.pages <= Cardinality(Url) + 2 * Months
    <3> DEFINE empty == IF <<>> \in saved.fingerprints THEN 1 ELSE 0
    <3>1. empty \in 0..1 /\ (empty = 1 => saved.month < Months)
      BY <2>4
    <3>2. saved.pages <= Cardinality(saved.seen) + 2 * saved.month + empty
      BY <2>1
    <3> HIDE DEF empty
    <3> QED
      BY <2>1, <2>2, <2>3, <3>1, <3>2
  <2> QED
    BY <2>2, <2>5 DEF PagesAreBounded
<1> QED
  BY <1>1, CourseInvHolds, PTL

\* A run that is discovery_complete has asked the provider for every day of its
\* range together with its neighbours, once, and for no other day, in spite of
\* the shorter months and of leap years: monthWindows cuts the range without a
\* gap or an overlap, and advance widens every window by one day at both ends.
THEOREM DaysAreAsked == Spec => []EveryDayIsAsked
<1>1. ASSUME WalkInv, CourseInv PROVE EveryDayIsAsked
  <2>1. CASE status # "discovery_complete"
    BY <2>1 DEF EveryDayIsAsked
  <2>2. CASE status = "discovery_complete"
    <3>1. RequestKept /\ saved.asked = AskedFirst(Months) /\ Months \in Nat
          /\ Walked \in Seq(Window) /\ Len(Walked) = Months
      BY <1>1, <2>2, RangeKept DEF CourseInv, StatusOfWalk, OnCourse
    <3>2. criteria.start.year \in Nat /\ criteria.start.year > 1 /\ LastToday.year \in Nat
      <4>1. criteria.start.year \in Nat /\ criteria.start.year > 1
        <5>1. criteria.start.year \in 1900..2100
          BY <3>1 DEF RequestKept, YearAllowed
        <5> QED
          BY <5>1
      <4>2. LastToday \in Date
        BY ClockAssumption
      <4> QED
        BY <4>1, <4>2 DEF Date
    <3> DEFINE days == [year : (criteria.start.year - 1)..(LastToday.year + 1), month : 1..12, day : 1..31]
    <3>3. ASSUME NEW d \in days, RealDate(d)
          PROVE  Cardinality(AskedFor(d)) = IF NotAfter(criteria.start, d) /\ NotAfter(d, criteria.end) THEN 1 ELSE 0
      <4>1. d \in Date /\ d.year > 0
        BY <3>2 DEF Date
      <4>2. ASSUME NEW k \in 1..Months
            PROVE  (\A e \in {DayBefore(d), d, NextDay(d)} : Within(e, Widened(Walked[k]))) <=> Within(d, Walked[k])
        BY <3>1, <3>3, <4>1, WalkedDays, WidenedHolds, Zenon
      <4>3. DOMAIN saved.asked = 1..Months /\ \A k \in 1..Months : saved.asked[k] = Widened(Walked[k])
        BY <3>1 DEF AskedFirst
      <4>4. DOMAIN Walked = 1..Months
        BY <3>1
      <4>5. AskedFor(d) = {k \in DOMAIN Walked : Within(d, Walked[k])}
        BY <4>2, <4>3, <4>4, Zenon DEF AskedFor
      <4> QED
        BY <3>1, <3>3, <4>1, <4>5, WindowsPartition, Zenon DEF Walked, RequestKept
    <3> QED
      BY <3>3, Zenon DEF EveryDayIsAsked
  <2> QED
    BY <2>1, <2>2
<1> QED
  BY <1>1, CourseInvHolds, PTL

\* What search_progress tells a client is true of the checkpoint: the months it
\* counts as completed have nothing pending, and the window it works out from the
\* number of months is the one advance asks for next.
THEOREM ProgressIsTrue == Spec => []ProgressIsTruthful
<1>1. ASSUME WalkInv, CourseInv PROVE ProgressIsTruthful
  <2> DEFINE n == MonthsCompleted(saved)
             left == IF saved.pending # <<>> /\ saved.offset = 0 THEN saved.month - 1 ELSE saved.month
  <2>1. /\ Months \in Nat \ {0} /\ Walked \in Seq(Window) /\ Len(Walked) = Months
        /\ MonthsTotal = Months /\ saved.month \in 0..Months /\ ValidRange(criteria)
        /\ [start |-> stored.start, end |-> stored.end] = criteria
        /\ saved.pending \in Seq(Url)
    BY <1>1, RangeKept DEF CourseInv, OnCourse, RequestKept, ValidRange, WalkInv, Fields
  <2>2. /\ saved.pending = <<>> => saved.pendingFrom = {}
        /\ saved.pending # <<>> => IF saved.offset = 0 THEN saved.month > 0 /\ saved.pendingFrom = {saved.month - 1}
                         ELSE saved.pendingFrom = {saved.month}
        /\ saved.offset \in Nat /\ (saved.offset > 0 => saved.month < Months)
    BY <1>1 DEF CourseInv, OnCourse
  <2>3. n = left /\ left \in 0..Months
    BY <2>1, <2>2 DEF MonthsCompleted
  <2>4. saved.pendingFrom \subseteq {left} /\ (saved.pending = <<>> => left = saved.month)
    BY <2>2
  <2>5. ASSUME status = "ready"
        PROVE  left < Months /\ CurrentWindow = Walked[left + 1]
    <3>1. left < Months
      BY <1>1, <2>1, <2>2, <2>5 DEF CourseInv, StatusOfWalk
    <3>2. CurrentWindow = ReportedWindow(criteria, left)
      BY <2>1, <2>3, <3>1 DEF CurrentWindow
    <3> HIDE DEF left
    <3>3. ReportedWindow(criteria, left) = Walked[left + 1]
      BY <2>1, <2>3, <3>1, ReportedIsWalked DEF Walked, Months
    <3> QED
      BY <3>1, <3>2, <3>3
  <2>6. ASSUME status = "discovery_complete"
        PROVE  left = Len(saved.asked)
    <3>1. saved.month = Months /\ saved.pending = <<>> /\ saved.asked = AskedFirst(Months)
      BY <1>1, <2>6 DEF CourseInv, StatusOfWalk, OnCourse
    <3> QED
      BY <2>1, <2>3, <3>1 DEF AskedFirst
  <2> HIDE DEF left
  <2> QED
    BY <2>1, <2>3, <2>4, <2>5, <2>6 DEF ProgressIsTruthful, Walked
<1> QED
  BY <1>1, CourseInvHolds, PTL

\* A call works on the pages of its checkpoint, and has found something or has
\* a month to ask for.
CallAdvances ==
  calling => walk.pages = saved.pages /\ (pages = 0 /\ collected = <<>> => walk.month < Months)

\* A call that finds nothing pending has a month to ask for, for the run is ready.
LEMMA EnterAdvances ==
  ASSUME WalkInv, CourseInv, NEW day, Enter(day)
  PROVE  CallAdvances'
<1>1. /\ UNCHANGED <<criteria, saved>> /\ status = "ready"
      /\ collected' = SubSeq(saved.pending, 1, Taken(saved))
      /\ walk'.pages = saved.pages /\ walk'.month = saved.month
  BY DEF Enter, request, WalkInv, Fields
<1>2. saved.pending # <<>> => collected' # <<>>
  <2>0. saved.pending \in Seq(Url) /\ stored.max_articles \in 1..50
    BY DEF WalkInv, Fields, CourseInv, RequestKept
  <2>1. Taken(saved) \in 0..Len(saved.pending)
        /\ (saved.pending # <<>> => Taken(saved) > 0)
    <3> DEFINE n == Len(saved.pending)
               m == stored.max_articles
    <3>1. n \in Nat /\ m \in 1..50 /\ (saved.pending # <<>> => n > 0)
      BY <2>0
    <3>2. Taken(saved) = IF m < n THEN m ELSE n
      BY Zenon DEF Taken
    <3> HIDE DEF n, m
    <3>3. Taken(saved) \in 0..n /\ (n > 0 => Taken(saved) > 0)
      BY <3>1, <3>2
    <3> QED
      BY <3>1, <3>3 DEF n
  <2>2. Len(SubSeq(saved.pending, 1, Taken(saved))) = Taken(saved)
    BY <2>1, OccursCut DEF WalkInv, Fields
  <2> QED
    BY <1>1, <2>1, <2>2
<1>3. saved.month < Months \/ saved.pending # <<>>
  BY <1>1 DEF CourseInv, StatusOfWalk
<1> QED
  BY <1>1, <1>2, <1>3 DEF CallAdvances, Months

\* From its first page on, a call has spent something.
LEMMA PageAdvances ==
  ASSUME WalkInv, CourseInv, CallAdvances, NEW p \in Fresh, NEW hasNext \in BOOLEAN, Page(p, hasNext)
  PROVE  CallAdvances'
<1>1. calling /\ pages' = pages + 1 /\ UNCHANGED saved /\ pages \in Nat
  BY DEF Page, CourseInv, CallOnCourse, RequestKept
<1>2. walk'.pages = walk.pages
  BY DEF Page, WalkInv, Fields
<1> QED
  BY <1>1, <1>2 DEF CallAdvances

\* What a run has spent and found never shrinks, and no call commits for nothing.
LEMMA CommitAdvances ==
  ASSUME WalkInv, CourseInv, CallAdvances, Commit
  PROVE  /\ saved'.pages >= saved.pages
         /\ \A u \in Url : delivered'[u] >= delivered[u]
         /\ saved'.pages > saved.pages \/ \E u \in Url : delivered[u] = 0 /\ delivered'[u] > 0
<1>1. /\ calling /\ ~WantsMore /\ saved' = [walk EXCEPT !.pages = @ + pages]
      /\ delivered' = [u \in Url |-> delivered[u] + Occurs(collected, u)]
  BY DEF Commit, Occurs
<1>2. /\ pages \in Nat /\ saved.pages \in Nat /\ collected \in Seq(Url) /\ walk.pages = saved.pages
      /\ pages = 0 /\ collected = <<>> => walk.month < Months
      /\ Len(windows) = Months /\ stored.max_pages \in 1..5 /\ stored.max_articles \in 1..50
  BY <1>1, RangeKept DEF CourseInv, CallOnCourse, RequestKept, Spent, CallAdvances
<1>3. saved'.pages = saved.pages + pages
  BY <1>1, <1>2 DEF WalkInv, Fields
<1>4. ASSUME NEW u \in Url
      PROVE  /\ delivered[u] \in Nat /\ Occurs(collected, u) \in Nat
             /\ delivered'[u] = delivered[u] + Occurs(collected, u)
             /\ delivered[u] + Occurs(collected, u) <= 1
  <2>1. delivered[u] \in Nat /\ Occurs(collected, u) \in Nat /\ Occurs(walk.pending, u) \in Nat
    BY <1>2, OccursType DEF WalkInv, Fields
  <2>2. PlaceOf(u, delivered[u] + Occurs(collected, u), walk)
    BY <1>1 DEF WalkInv
  <2> QED
    BY <1>1, <2>1, <2>2 DEF PlaceOf
<1>5. CASE pages > 0
  BY <1>2, <1>3, <1>4, <1>5
<1>6. CASE pages = 0
  <2>1. ASSUME collected = <<>> PROVE FALSE
    <3>1. Len(collected) = 0
      BY <2>1
    <3>2. walk.month < Len(windows)
      BY <1>2, <1>6, <2>1, Zenon
    <3>3. Len(collected) < stored.max_articles /\ pages < stored.max_pages
      <4>1. \A n \in 1..50 : 0 < n
        OBVIOUS
      <4>2. stored.max_articles \in 1..50 /\ stored.max_pages \in 1..50
        BY <1>2
      <4> QED
        BY <1>6, <3>1, <4>1, <4>2, Zenon
    <3> QED
      BY <1>1, <3>2, <3>3, Zenon DEF WantsMore
  <2> DEFINE u == collected[1]
             at == {i \in DOMAIN collected : collected[i] = u}
  <2>2. u \in Url /\ 1 \in at
    BY <1>2, <2>1
  <2>3. IsFiniteSet(at) /\ Occurs(collected, u) = Cardinality(at)
    BY <1>2, OccursType DEF Occurs
  <2> HIDE DEF u, at
  <2>4. Cardinality(at) # 0
    BY <2>2, <2>3, FS_EmptySet
  <2> QED
    BY <1>2, <1>3, <1>4, <1>6, <2>2, <2>3, <2>4
<1> QED
  BY <1>2, <1>5, <1>6

\* Every commit of advance spends pages of the quota or puts a new URL into a
\* job: a client that continues a search never pays for a call that brings
\* neither, which is why the search ends.
THEOREM NoCommitForNothing ==
  Spec => [][Commit => \/ saved'.pages > saved.pages
                       \/ \E u \in Url : delivered[u] = 0 /\ delivered'[u] > 0]_vars
<1> DEFINE Inv == WalkInv /\ CourseInv
           Step == Commit => \/ saved'.pages > saved.pages
                             \/ \E u \in Url : delivered[u] = 0 /\ delivered'[u] > 0
<1>1. Init => CallAdvances
  BY DEF Init, Submitted, CallAdvances
<1>2. ASSUME Inv, CallAdvances, [Next]_vars PROVE CallAdvances'
  <2>1. CASE Begin
    BY <1>2, <2>1, EnterAdvances DEF Begin
  <2>2. CASE \E p \in Fresh, hasNext \in BOOLEAN : Page(p, hasNext)
    BY <1>2, <2>2, PageAdvances
  <2>3. CASE Commit \/ \E outcome \in {"ready", "failed"} : Rollback(outcome)
    BY <2>3 DEF Commit, Rollback, CallEnds, CallAdvances
  <2>4. CASE Refuse \/ DayPasses \/ UNCHANGED vars
    <3>1. UNCHANGED <<criteria, saved, walk, calling, collected, pages>>
      BY <2>4 DEF Refuse, DayPasses, vars, request, call
    <3> QED
      BY <1>2, <3>1 DEF CallAdvances, Months
  <2> QED
    BY <1>2, <2>1, <2>2, <2>3, <2>4 DEF Next, Walks
<1>3. Inv /\ CallAdvances => Step
  BY CommitAdvances
<1> HIDE DEF Inv, Step
<1>4. Spec => []Inv
  BY CourseInvHolds DEF Inv
<1>5. Spec => [](Inv /\ CallAdvances)
  BY <1>1, <1>2, <1>4, PTL DEF Spec
<1>6. [](Inv /\ CallAdvances) => [][Step]_vars
  BY <1>3, PTL
<1> QED
  BY <1>5, <1>6, PTL DEF Step

(***************************************************************************)
(* The report of the articles.                                             *)
(***************************************************************************)
\* How many members of S have their key in T.
Keyed(S, key, T) == {i \in S : key[i] \in T}

\* Taking one key away takes away what has that key.
LEMMA KeyedSplits ==
  ASSUME NEW S, IsFiniteSet(S), NEW key, NEW T, NEW x \in T
  PROVE  /\ Cardinality(Keyed(S, key, T))
              = Cardinality({i \in S : key[i] = x}) + Cardinality(Keyed(S, key, T \ {x}))
         /\ Cardinality(Keyed(S, key, T)) \in Nat
<1> DEFINE one == {i \in S : key[i] = x}
           rest == Keyed(S, key, T \ {x})
<1>1. IsFiniteSet(one) /\ IsFiniteSet(rest) /\ IsFiniteSet(Keyed(S, key, T))
  BY FS_Subset DEF Keyed
<1>2. Keyed(S, key, T) = one \cup rest /\ one \cap rest = {}
  BY DEF Keyed
<1> HIDE DEF one, rest
<1>3. Cardinality(one \cup rest) = Cardinality(one) + Cardinality(rest) - Cardinality(one \cap rest)
  BY <1>1, FS_Union
<1>4. Cardinality(one) \in Nat /\ Cardinality(rest) \in Nat /\ Cardinality({}) = 0
  BY <1>1, FS_CardinalityType, FS_EmptySet
<1>5. Cardinality(one \cup rest) = Cardinality(one) + Cardinality(rest)
  <2>1. Cardinality(one \cap rest) = 0
    BY <1>2, <1>4, Zenon
  <2> QED
    BY <1>3, <1>4, <2>1
<1> QED
  BY <1>1, <1>2, <1>5, FS_CardinalityType, Zenon DEF one, rest

\* The sum of a function over the subsets of its domain, as the equation that
\* the fold of SumFunction solves.
Summed(fun, K, f) ==
  [T \in SUBSET K |-> IF T = {} THEN 0
                      ELSE LET x == CHOOSE x \in T : TRUE IN fun[x] + f[T \ {x}]]

\* Counting by key and adding up the counts is counting: of the sets of keys for
\* which it is not, none is smallest.
LEMMA SumIsCount ==
  ASSUME NEW K, IsFiniteSet(K), NEW S, IsFiniteSet(S), NEW key, \A i \in S : key[i] \in K,
         NEW fun, fun = [m \in K |-> Cardinality({i \in S : key[i] = m})]
  PROVE  SumFunction(fun) = Cardinality(S)
<1> DEFINE g == [T \in SUBSET K |-> Cardinality(Keyed(S, key, T))]
           sum == CHOOSE f : f = Summed(fun, K, f)
<1>1. SumFunction(fun) = sum[K]
  <2>1. DOMAIN fun = K
    OBVIOUS
  <2>2. SumFunctionOnSet(fun, K) = sum[K]
    BY Zenon DEF SumFunctionOnSet, FoldFunctionOnSet, MapThenFoldSet, Summed
  <2> QED
    BY <2>1, <2>2, Zenon DEF SumFunction
<1>2. ASSUME NEW T \in SUBSET K, T # {}
      PROVE  /\ (CHOOSE x \in T : TRUE) \in T
             /\ LET x == CHOOSE x \in T : TRUE
                IN g[T] = fun[x] + g[T \ {x}]
  <2> DEFINE x == CHOOSE x \in T : TRUE
  <2>1. x \in T
    BY <1>2, Zenon
  <2>2. x \in K /\ T \ {x} \in SUBSET K
    BY <2>1
  <2> HIDE DEF x
  <2>3. fun[x] = Cardinality({i \in S : key[i] = x})
    BY <2>2
  <2>4. g[T] = Cardinality(Keyed(S, key, T)) /\ g[T \ {x}] = Cardinality(Keyed(S, key, T \ {x}))
    BY <2>2, Zenon
  <2>5. g[T] = fun[x] + g[T \ {x}]
    <3>1. Cardinality(Keyed(S, key, T))
            = Cardinality({i \in S : key[i] = x}) + Cardinality(Keyed(S, key, T \ {x}))
      BY <2>1, KeyedSplits
    <3> QED
      BY <2>3, <2>4, <3>1, Zenon
  <2> QED
    BY <2>1, <2>5 DEF x
<1>3. g[{}] = 0
  <2>1. Keyed(S, key, {}) = {}
    BY DEF Keyed
  <2> QED
    BY <2>1, FS_EmptySet
<1>4. sum = Summed(fun, K, sum)
  <2>1. \A T \in SUBSET K :
          g[T] = IF T = {} THEN 0
                 ELSE LET x == CHOOSE x \in T : TRUE IN fun[x] + g[T \ {x}]
    BY <1>2, <1>3, Zenon
  <2>2. g = Summed(fun, K, g)
    <3>1. g = [T \in SUBSET K |-> g[T]]
      OBVIOUS
    <3> HIDE DEF g
    <3> QED
      BY <2>1, <3>1, Zenon DEF Summed
  <2> HIDE DEF g
  <2> QED
    BY <2>2, Zenon
<1> HIDE DEF sum
<1>5. \A T \in SUBSET K : sum[T] = g[T]
  <2> DEFINE Bad == {T \in SUBSET K : sum[T] # g[T]}
             Sizes == {Cardinality(T) : T \in Bad}
  <2>1. \A T \in SUBSET K : IsFiniteSet(T) /\ Cardinality(T) \in Nat
    BY FS_Subset, FS_CardinalityType
  <2>2. ASSUME NEW T \in Bad, \A U \in Bad : Cardinality(T) <= Cardinality(U)
        PROVE  FALSE
    <3> DEFINE x == CHOOSE x \in T : TRUE
    <3> HIDE DEF g
    <3>1. sum[T] = IF T = {} THEN 0 ELSE fun[x] + sum[T \ {x}]
      BY <1>4, Zenon DEF Summed
    <3>2. T # {}
      BY <1>3, <3>1
    <3>3. x \in T /\ g[T] = fun[x] + g[T \ {x}]
      BY <1>2, <3>2, Zenon
    <3>4. sum[T \ {x}] # g[T \ {x}]
      BY <3>1, <3>2, <3>3, Zenon
    <3> HIDE DEF x
    <3>5. T \ {x} \in Bad
      BY <3>4
    <3>6. Cardinality(T \ {x}) = Cardinality(T) - 1 /\ Cardinality(T) \in Nat
      BY <2>1, <3>3, FS_RemoveElement
    <3>7. Cardinality(T) <= Cardinality(T \ {x})
      BY <2>2, <3>5
    <3> QED
      BY <3>6, <3>7
  <2>3. Bad = {}
    <3>1. Sizes \subseteq Nat
      BY <2>1
    <3> HIDE DEF Bad
    <3>2. Sizes # {} => \E c \in Sizes : \A d \in Sizes : c <= d
      BY <3>1, LeastNatural
    <3> QED
      BY <2>2, <3>2
  <2> QED
    BY <2>3
<1>6. g[K] = Cardinality(S)
  <2>1. Keyed(S, key, K) = S
    BY DEF Keyed
  <2> QED
    BY <2>1
<1> QED
  BY <1>1, <1>5, <1>6

\* The days that arithmetic with hours may reach: of any year.
CalendarDay == [year : Int, month : 1..12, day : Int]

\* A clock moved by hours, of one day or its neighbours.
LEMMA ClockType ==
  ASSUME NEW d \in CalendarDay, NEW n \in Int
  PROVE  Clock(d, n).date \in CalendarDay /\ Clock(d, n).hour \in Int
<1>1. DayBefore(d) \in CalendarDay /\ NextDay(d) \in CalendarDay
  <2>1. /\ d.year \in Int /\ d.month \in 1..12 /\ d.day \in Int
        /\ d = [year |-> d.year, month |-> d.month, day |-> d.day]
    BY DEF CalendarDay
  <2>2. \A y \in Int, m \in 1..12, k \in Int : Day(y, m, k) \in CalendarDay
    BY DEF Day, CalendarDay
  <2>3. \A y \in Int, m \in 1..12 : LastOfMonth(y, m) \in CalendarDay
    BY <2>2 DEF LastOfMonth, DaysInMonth
  <2>4. \A k \in Int : [d EXCEPT !.day = k] \in CalendarDay
    BY <2>1 DEF CalendarDay
  <2>5. DayBefore(d) \in CalendarDay
    <3>1. /\ d.day - 1 \in Int /\ d.year - 1 \in Int /\ 12 \in 1..12
          /\ d.month > 1 => d.month - 1 \in 1..12
      BY <2>1
    <3> QED
      BY <2>1, <2>3, <2>4, <3>1 DEF DayBefore
  <2>6. NextDay(d) \in CalendarDay
    <3>1. /\ d.day + 1 \in Int /\ d.year + 1 \in Int /\ 1 \in 1..12 /\ 1 \in Int
          /\ d.month # 12 => d.month + 1 \in 1..12
      BY <2>1
    <3> QED
      BY <2>1, <2>2, <2>4, <3>1 DEF NextDay, NextMonth
  <2> QED
    BY <2>5, <2>6
<1>2. CASE n < 0
  <2>1. Clock(d, n) = [date |-> DayBefore(d), hour |-> n + 24]
    BY <1>2 DEF Clock
  <2> QED
    BY <1>1, <2>1
<1>3. CASE n \in 0..23
  <2>1. Clock(d, n) = [date |-> d, hour |-> n]
    BY <1>3 DEF Clock
  <2> QED
    BY <1>1, <2>1
<1>4. CASE n > 23
  <2>1. Clock(d, n) = [date |-> NextDay(d), hour |-> n - 24]
    BY <1>4 DEF Clock
  <2> QED
    BY <1>1, <2>1
<1> QED
  BY <1>2, <1>3, <1>4

\* A time is None, or a date and perhaps an instant.
Timed(t) == t.date # None =>
  t.date \in CalendarDay /\ (t.utc # None => t.utc.date \in CalendarDay /\ t.utc.hour \in Int)

\* What the extractor reads from the texts of a page is a time.
LEMMA TimeType == ASSUME NEW a \in Article PROVE Timed(ArticleTime(a.texts, a.readable))
<1>1. ASSUME NEW text \in PageText PROVE Timed(ParseArticleTime(text))
  <2> DEFINE dated == text.kind \in {"day", "local", "zoned"} /\ RealDate(text.date)
  <2>1. text.date \in [year : Nat, month : Nat, day : Nat] /\ text.hour - text.offset \in Int
    BY DEF PageText
  <2>2. dated => text.date \in CalendarDay
    BY <2>1 DEF RealDate, CalendarDay
  <2>3. ParseArticleTime(text) =
          [date |-> IF dated THEN text.date ELSE None,
           utc |-> IF dated /\ text.kind = "zoned" THEN Clock(text.date, text.hour - text.offset) ELSE None]
    BY Zenon DEF ParseArticleTime
  <2> HIDE DEF dated
  <2>4. /\ ParseArticleTime(text).date = IF dated THEN text.date ELSE None
        /\ ParseArticleTime(text).utc = IF dated /\ text.kind = "zoned"
                                        THEN Clock(text.date, text.hour - text.offset) ELSE None
    BY <2>3
  <2> QED
    BY <2>1, <2>2, <2>4, ClockType DEF Timed
<1>2. a.readable \in PageText /\ a.texts \in Seq(PageText)
  BY ArticleAssumption
<1> DEFINE found == {k \in DOMAIN a.texts : ParseArticleTime(a.texts[k]).date # None}
<1>3. CASE found = {}
  BY <1>1, <1>2, <1>3, Zenon DEF ArticleTime
<1>4. CASE found # {}
  <2>1. found \subseteq Nat /\ found \subseteq 1..Len(a.texts)
    BY <1>2
  <2>2. \E x \in found : \A y \in found : x <= y
    BY <1>4, <2>1, LeastNatural
  <2>3. Min(found) \in found
    BY <2>2, Zenon DEF Min
  <2>4. a.texts[Min(found)] \in PageText
    <3>1. Min(found) \in 1..Len(a.texts)
      BY <2>1, <2>3, Zenon
    <3> QED
      BY <1>2, <3>1, ElementOfSeq, Zenon
  <2>5. ArticleTime(a.texts, a.readable) = ParseArticleTime(a.texts[Min(found)])
    BY <1>4, Zenon DEF ArticleTime
  <2> QED
    BY <1>1, <2>4, <2>5, Zenon
<1> QED
  BY <1>3, <1>4

\* The months of a report are those of the walk.
LEMMA KeysAreMonths ==
  ASSUME NEW r, ValidRange(r)
  PROVE  /\ MonthKeys(r) = {Month(w.lower) : w \in ToSet(MonthWindows(r))}
         /\ IsFiniteSet(MonthKeys(r))
         /\ \A d \in CalendarDay :
              NotAfter(r.start, d) /\ NotAfter(d, r.end) => Month(d) \in MonthKeys(r)
<1> DEFINE s == Index(r.start)
           e == Index(r.end)
           At(n) == [year |-> n \div 12, month |-> (n % 12) + 1]
<1>1. s \in Nat /\ e \in Nat /\ MonthCount(r) = e - s + 1 /\ s <= e /\ MonthCount(r) \in Nat
      /\ r.start \in Date /\ r.end \in Date
  BY RangeCount, IndexOf, MaxMonthsAssumption DEF ValidRange
<1>2. MonthKeys(r) = {At(n) : n \in s..e}
  <2>1. s = r.start.year * 12 + r.start.month - 1 /\ e = r.end.year * 12 + r.end.month - 1
    BY <1>1 DEF Index, Date
  <2> HIDE DEF s, e
  <2> QED
    BY <2>1, Zenon DEF MonthKeys
<1>3. ASSUME NEW k \in 1..MonthCount(r) PROVE Month(MonthWindows(r)[k].lower) = At(s + k - 1)
  <2> DEFINE n == s + k - 1
  <2>1. n \in Nat /\ s <= n
    BY <1>1
  <2>2. MonthWindows(r)[k].lower = Later(FirstOf(n), r.start)
    <3>1. MonthWindows(r)[k] = CutTo(n, r)
      BY WindowsAre
    <3> QED
      BY <3>1 DEF CutTo
  <2>3. Month(FirstOf(n)) = At(n)
    BY DEF Month, FirstOf, Day
  <2>4. NotAfter(FirstOf(n), r.start) => n = s
    <3>1. NotAfter(FirstOf(n), r.start) <=> n <= s
      BY <1>1, <2>1, OrderByIndex
    <3> HIDE DEF n, s
    <3> QED
      BY <1>1, <2>1, <3>1
  <2>5. Month(r.start) = At(s)
    BY <1>1, IndexOf, Zenon DEF Month
  <2> QED
    BY <2>2, <2>3, <2>4, <2>5, Zenon DEF Later
<1>4. MonthKeys(r) = {Month(w.lower) : w \in ToSet(MonthWindows(r))}
  <2>1. ToSet(MonthWindows(r)) = {MonthWindows(r)[k] : k \in 1..MonthCount(r)}
    BY WindowsAre DEF ToSet
  <2>2. ASSUME NEW n \in s..e PROVE \E k \in 1..MonthCount(r) : n = s + k - 1
    <3>1. n - s + 1 \in 1..MonthCount(r) /\ n = s + (n - s + 1) - 1
      BY <1>1
    <3> QED
      BY <3>1
  <2>3. ASSUME NEW k \in 1..MonthCount(r) PROVE s + k - 1 \in s..e
    BY <1>1
  <2> HIDE DEF s, e, At
  <2>4. {Month(w.lower) : w \in ToSet(MonthWindows(r))} = {At(s + k - 1) : k \in 1..MonthCount(r)}
    BY <1>3, <2>1, Zenon
  <2>5. {At(s + k - 1) : k \in 1..MonthCount(r)} = {At(n) : n \in s..e}
    BY <2>2, <2>3, Zenon
  <2> QED
    BY <1>2, <2>4, <2>5, Zenon
<1>5. IsFiniteSet(MonthKeys(r))
  <2>1. IsFiniteSet(1..MonthCount(r))
    BY <1>1, FS_Interval
  <2>2. [k \in 1..MonthCount(r) |-> At(s + k - 1)] \in Surjection(1..MonthCount(r), MonthKeys(r))
    <3>1. \A n \in s..e : n - s + 1 \in 1..MonthCount(r) /\ n = s + (n - s + 1) - 1
      BY <1>1
    <3>2. \A k \in 1..MonthCount(r) : s + k - 1 \in s..e
      BY <1>1
    <3> HIDE DEF s, e, At
    <3>3. \A k \in 1..MonthCount(r) : At(s + k - 1) \in MonthKeys(r)
      BY <1>2, <3>2, Zenon
    <3>4. \A t \in MonthKeys(r) : \E k \in 1..MonthCount(r) : At(s + k - 1) = t
      BY <1>2, <3>1, Zenon
    <3> QED
      BY <3>3, <3>4 DEF Surjection
  <2> QED
    BY <2>1, <2>2, FS_Surjection, Zenon
<1>6. ASSUME NEW d \in CalendarDay, NotAfter(r.start, d), NotAfter(d, r.end)
      PROVE  Month(d) \in MonthKeys(r)
  <2>1. d.year \in Int /\ d.month \in 1..12
    BY DEF CalendarDay
  <2>2. Index(d) \in s..e
    <3>1. r.start.year \in Nat /\ r.start.month \in 1..12 /\ r.end.year \in Nat /\ r.end.month \in 1..12
      BY <1>1 DEF Date
    <3>2. r.start.year < d.year \/ (r.start.year = d.year /\ r.start.month <= d.month)
      BY <1>6, <2>1, <3>1 DEF NotAfter
    <3>3. d.year < r.end.year \/ (d.year = r.end.year /\ d.month <= r.end.month)
      BY <1>6, <2>1, <3>1 DEF NotAfter
    <3>4. Index(r.start) <= Index(d)
      BY <2>1, <3>1, <3>2 DEF Index
    <3>5. Index(d) <= Index(r.end)
      BY <2>1, <3>1, <3>3 DEF Index
    <3>6. Index(d) \in Int
      BY <2>1 DEF Index
    <3> QED
      BY <1>1, <3>4, <3>5, <3>6
  <2>3. Month(d) = At(Index(d))
    BY <2>1 DEF Month, Index
  <2> HIDE DEF At, s, e
  <2> QED
    BY <1>2, <2>2, <2>3, Zenon
<1> QED
  BY <1>4, <1>5, <1>6

\* The day by which the worker classifies an article, with the zone as offset.
DayIn(t, z) == IF t.utc # None THEN Clock(t.utc.date, t.utc.hour + z).date ELSE t.date

\* An article that the worker counts as in range is one of a month of the
\* report, for the middleware works out the same day from what is stored.
LEMMA ClassifiedItem ==
  ASSUME RequestKept, NEW z \in Offset, NEW a \in Article
  PROVE  LET i == StoredItem(a, z)
         IN /\ i.article = a /\ i.status = "success"
            /\ i.date.status \in {"in_range", "out_of_range", "unknown"}
            /\ i.date.status = "in_range" =>
                 Month(PublishedDate(i.time, i.date.basis, z)) \in MonthKeys(criteria)
<1> DEFINE t == ArticleTime(a.texts, a.readable)
           c == ClassifyDate(t, criteria, z)
           day == DayIn(t, z)
           inside == NotAfter(criteria.start, day) /\ NotAfter(day, criteria.end)
<1>1. StoredItem(a, z) = [article |-> a, status |-> "success", time |-> t, date |-> c]
  BY Zenon DEF StoredItem
<1>2. c = IF t.date = None THEN [status |-> "unknown", basis |-> None]
          ELSE [status |-> IF inside THEN "in_range" ELSE "out_of_range",
                basis |-> IF t.utc # None THEN "report_timezone" ELSE "source_date"]
  BY Zenon DEF ClassifyDate, DayIn
<1>3. Timed(t) /\ z \in Int
  BY TimeType, ClockAssumption
<1> HIDE DEF t, c
<1>4. c.status \in {"in_range", "out_of_range", "unknown"}
  BY <1>2
<1>5. ASSUME c.status = "in_range"
      PROVE  Month(PublishedDate(t, c.basis, z)) \in MonthKeys(criteria)
  <2>1. t.date # None /\ inside
    BY <1>2, <1>5
  <2>2. c.basis = IF t.utc # None THEN "report_timezone" ELSE "source_date"
    BY <1>2, <2>1
  <2>3. PublishedDate(t, c.basis, z) = day
    BY <2>2 DEF PublishedDate, DayIn
  <2>4. day \in CalendarDay
    BY <1>3, <2>1, ClockType DEF Timed, DayIn
  <2>5. ValidRange(criteria)
    BY DEF RequestKept
  <2> HIDE DEF day
  <2> QED
    BY <2>1, <2>3, <2>4, <2>5, KeysAreMonths
<1>6. /\ StoredItem(a, z).article = a /\ StoredItem(a, z).status = "success"
      /\ StoredItem(a, z).time = t /\ StoredItem(a, z).date = c
  BY <1>1
<1> QED
  BY <1>4, <1>5, <1>6, Zenon

\* The numbers of a report: every article in one class, every article in range
\* in one month.
LEMMA ReportOfArticles ==
  ASSUME RequestKept, NEW z \in Offset
  PROVE  LET report == DateReport({StoredItem(a, z) : a \in Article}, criteria, z)
         IN /\ DOMAIN report.by_month = {Month(w.lower) : w \in ToSet(MonthWindows(criteria))}
            /\ SumFunction(report.by_month) = report.in_range
            /\ report.in_range + report.out_of_range + report.unknown_date = Cardinality(Article)
<1> DEFINE items == {StoredItem(a, z) : a \in Article}
           report == DateReport(items, criteria, z)
           In == {i \in items : i.date.status = "in_range"}
           Out == {i \in items : i.date.status = "out_of_range"}
           Unknown == {i \in items : i.date.status = "unknown"}
           key == [i \in In |-> Month(PublishedDate(i.time, i.date.basis, z))]
<1>1. \A i \in items : /\ i.status = "success"
                       /\ i.date.status \in {"in_range", "out_of_range", "unknown"}
                       /\ i.date.status = "in_range" =>
                            Month(PublishedDate(i.time, i.date.basis, z)) \in MonthKeys(criteria)
  <2>1. ASSUME NEW a \in Article
        PROVE  LET i == StoredItem(a, z)
               IN /\ i.status = "success"
                  /\ i.date.status \in {"in_range", "out_of_range", "unknown"}
                  /\ i.date.status = "in_range" =>
                       Month(PublishedDate(i.time, i.date.basis, z)) \in MonthKeys(criteria)
    BY ClassifiedItem, Zenon
  <2> QED
    BY <2>1, Zenon
<1>2. IsFiniteSet(items) /\ Cardinality(items) = Cardinality(Article)
  <2> DEFINE f == [a \in Article |-> StoredItem(a, z)]
  <2>1. \A a \in Article : StoredItem(a, z).article = a
    BY ClassifiedItem, Zenon
  <2>2. f \in Bijection(Article, items)
    <3>1. \A a, b \in Article : f[a] = f[b] => a = b
      BY <2>1
    <3>2. f \in [Article -> items] /\ \A i \in items : \E a \in Article : f[a] = i
      OBVIOUS
    <3> HIDE DEF f, items
    <3> QED
      BY <3>1, <3>2 DEF Bijection, Injection, Surjection, IsInjective
  <2>3. ExistsBijection(Article, items)
    BY <2>2, Zenon DEF ExistsBijection
  <2>4. IsFiniteSet(Article)
    BY ArticleAssumption
  <2> HIDE DEF items
  <2> QED
    BY <2>3, <2>4, FS_Bijection, Zenon
<1> HIDE DEF items
<1>3. {i \in items : i.status = "success"} = items
  BY <1>1
<1>4. /\ report.in_range = Cardinality(In) /\ report.out_of_range = Cardinality(Out)
      /\ report.unknown_date = Cardinality(Unknown)
      /\ report.by_month =
           [m \in MonthKeys(criteria) \cup {Month(PublishedDate(i.time, i.date.basis, z)) : i \in In} |->
              Cardinality({i \in In : Month(PublishedDate(i.time, i.date.basis, z)) = m})]
  BY <1>3 DEF DateReport
<1> HIDE DEF report
<1>5. report.by_month = [m \in MonthKeys(criteria) |-> Cardinality({i \in In : key[i] = m})]
  <2>1. MonthKeys(criteria) \cup {Month(PublishedDate(i.time, i.date.basis, z)) : i \in In} = MonthKeys(criteria)
    BY <1>1
  <2>2. \A m : {i \in In : Month(PublishedDate(i.time, i.date.basis, z)) = m} = {i \in In : key[i] = m}
    OBVIOUS
  <2> HIDE DEF key, In
  <2> QED
    BY <1>4, <2>1, <2>2, Zenon
<1>6. /\ IsFiniteSet(MonthKeys(criteria))
      /\ MonthKeys(criteria) = {Month(w.lower) : w \in ToSet(MonthWindows(criteria))}
  BY KeysAreMonths DEF RequestKept
<1>7. IsFiniteSet(In) /\ IsFiniteSet(Out) /\ IsFiniteSet(Unknown)
  BY <1>2, FS_Subset
<1>8. \A i \in In : key[i] \in MonthKeys(criteria)
  BY <1>1
<1>9. DOMAIN report.by_month = MonthKeys(criteria)
  BY <1>5
<1>10. items = (In \cup Out) \cup Unknown /\ In \cap Out = {} /\ (In \cup Out) \cap Unknown = {}
  BY <1>1
<1> HIDE DEF In, Out, Unknown, key
<1>11. SumFunction(report.by_month) = report.in_range
  <2> DEFINE K == MonthKeys(criteria)
             counts == report.by_month
  <2>1. counts = [m \in K |-> Cardinality({i \in In : key[i] = m})]
    BY <1>5, Zenon
  <2>2. \A i \in In : key[i] \in K
    BY <1>8, Zenon
  <2>3. IsFiniteSet(K) /\ IsFiniteSet(In)
    BY <1>6, <1>7, Zenon
  <2> HIDE DEF K, counts
  <2>4. ASSUME NEW k, NEW s, NEW f, NEW c, IsFiniteSet(k), IsFiniteSet(s), \A i \in s : f[i] \in k,
               c = [m \in k |-> Cardinality({i \in s : f[i] = m})]
        PROVE  SumFunction(c) = Cardinality(s)
    BY <2>4, SumIsCount
  <2>5. SumFunction(counts) = Cardinality(In)
    BY <2>1, <2>2, <2>3, <2>4
  <2> QED
    BY <1>4, <2>5, Zenon DEF counts
<1>12. report.in_range + report.out_of_range + report.unknown_date = Cardinality(Article)
  <2>1. /\ Cardinality(In) \in Nat /\ Cardinality(Out) \in Nat /\ Cardinality(Unknown) \in Nat
        /\ Cardinality(In \cap Out) = 0 /\ Cardinality((In \cup Out) \cap Unknown) = 0
    BY <1>7, <1>10, FS_CardinalityType, FS_EmptySet, Zenon
  <2>2. /\ IsFiniteSet(In \cup Out)
        /\ Cardinality(In \cup Out) = Cardinality(In) + Cardinality(Out) - Cardinality(In \cap Out)
    BY <1>7, FS_Union
  <2>3. Cardinality((In \cup Out) \cup Unknown)
          = Cardinality(In \cup Out) + Cardinality(Unknown) - Cardinality((In \cup Out) \cap Unknown)
    BY <1>7, <2>2, FS_Union
  <2>4. Cardinality((In \cup Out) \cup Unknown) = Cardinality(In) + Cardinality(Out) + Cardinality(Unknown)
    BY <2>1, <2>2, <2>3
  <2> QED
    BY <1>2, <1>4, <1>10, <2>4, Zenon
<1> QED
  BY <1>6, <1>9, <1>11, <1>12, Zenon DEF report, items

\* The months of a stored report are those the run walks through, their counts
\* add up to the articles in range, and with those out of range and without a
\* date every article is counted once, although the worker classifies with its
\* tables and _stored_date_report counts with its own.
THEOREM ReportsAddUp == Spec => []ReportAddsUp
<1>1. CourseInv => ReportAddsUp
  BY ReportOfArticles, Zenon DEF CourseInv, ReportAddsUp
<1> QED
  BY <1>1, CourseInvHolds, PTL
=============================================================================
