----------------------------- MODULE RateLimiter -----------------------------
(***************************************************************************)
(* The distributed domain throttle: table domain_rate_limits, written by   *)
(* Store.ReserveDomain in one transaction per outgoing request, with the   *)
(* clock of the machine the worker runs on.                                *)
(***************************************************************************)
EXTENDS Naturals, Sequences

CONSTANTS
  Client,       \* goroutines that fetch, on all machines
  Domain,
  Known,        \* the domains that have a row from an earlier request
  Delays,       \* DOMAIN_DELAY_SECONDS, and a longer Crawl-delay of robots.txt
  Time,         \* what a machine's clock may show; nothing relates two machines
  MaxGrants,    \* bound: reservations of a domain that may be made before one begins
  None

ASSUME TimeAssumption == Time \subseteq Nat /\ Delays \subseteq Nat
ASSUME KnownAssumption == Known \subseteq Domain
ASSUME BoundAssumption == MaxGrants \in Nat
ASSUME NoneAssumption == None \notin Client /\ None \notin Domain /\ None \notin Nat

VARIABLES
  next,     \* next_allowed_at of each domain, None when there is no row
  lock,     \* the transaction that holds the row of a domain
  pc,       \* idle, or reading: a transaction is open
  asked,    \* the domain and the delay of a client's request
  seen,     \* the row its transaction has read
  granted   \* history: start and delay of each reservation, in commit order

vars == <<next, lock, pc, asked, seen, granted>>

Init ==
  /\ next = [d \in Domain |-> IF d \in Known THEN 0 ELSE None]
  /\ lock = [d \in Domain |-> None]
  /\ pc = [c \in Client |-> "idle"]
  /\ asked = [c \in Client |-> None]
  /\ seen = [c \in Client |-> None]
  /\ granted = [d \in Domain |-> <<>>]

\* SELECT next_allowed_at .. FOR UPDATE: waits for the row, if there is one.
ReadUnlocked(c, d) == UNCHANGED lock
ReadForUpdate(c, d) ==
  /\ next[d] # None => lock[d] = None
  /\ lock' = IF next[d] # None THEN [lock EXCEPT ![d] = c] ELSE lock

Begin(c, d, delay) ==
  /\ pc[c] = "idle" /\ Len(granted[d]) < MaxGrants
  /\ ReadForUpdate(c, d)
  /\ seen' = [seen EXCEPT ![c] = next[d]]
  /\ asked' = [asked EXCEPT ![c] = [domain |-> d, delay |-> delay]]
  /\ pc' = [pc EXCEPT ![c] = "reading"]
  /\ UNCHANGED <<next, granted>>

Start(c, now) == IF seen[c] # None /\ seen[c] > now THEN seen[c] ELSE now

\* INSERT .. ON CONFLICT DO UPDATE and the commit.  The upsert waits for a
\* transaction that has the row locked, then overwrites whatever is there.
Reserve(c, now) ==
  LET d == asked[c].domain
      start == Start(c, now)
  IN /\ pc[c] = "reading"
     /\ lock[d] \in {None, c}
     /\ next' = [next EXCEPT ![d] = start + asked[c].delay]
     /\ lock' = [lock EXCEPT ![d] = None]
     /\ granted' = [granted EXCEPT ![d] = Append(@, [start |-> start, delay |-> asked[c].delay])]
     /\ pc' = [pc EXCEPT ![c] = "idle"]
     /\ UNCHANGED <<asked, seen>>

\* A statement failed, the request was cancelled or the process died: the
\* deferred Rollback, or the server, gives the row lock back.
LocksReleased(c) == [d \in Domain |-> IF lock[d] = c THEN None ELSE lock[d]]

Abort(c) ==
  /\ pc[c] = "reading"
  /\ lock' = LocksReleased(c)
  /\ pc' = [pc EXCEPT ![c] = "idle"]
  /\ UNCHANGED <<next, asked, seen, granted>>

Next == \/ \E c \in Client, d \in Domain, delay \in Delays : Begin(c, d, delay)
        \/ \E c \in Client, now \in Time : Reserve(c, now)
        \/ \E c \in Client : Abort(c)

Spec == Init /\ [][Next]_vars

(***************************************************************************)
(* Properties.                                                             *)
(***************************************************************************)

Request == [domain : Domain, delay : Delays]

\* Every variable keeps its type, and only an open transaction on a domain
\* holds its row.
TypeOK ==
  /\ next \in [Domain -> Nat \cup {None}]
  /\ lock \in [Domain -> Client \cup {None}]
  /\ pc \in [Client -> {"idle", "reading"}]
  /\ asked \in [Client -> Request \cup {None}]
  /\ \A c \in Client : pc[c] = "reading" => asked[c] \in Request
  /\ \A d \in Domain : lock[d] # None =>
       pc[lock[d]] = "reading" /\ asked[lock[d]].domain = d
  /\ seen \in [Client -> Nat \cup {None}]
  /\ granted \in [Domain -> Seq([start : Nat, delay : Delays])]

Spaced(d) == \A n \in 1 .. Len(granted[d]) - 1 :
  granted[d][n].start + granted[d][n].delay <= granted[d][n + 1].start

\* Two requests to one domain never get starts closer than the first one's
\* delay: each reservation is built on the last committed, whatever clocks the
\* machines had when they made it.  It speaks of the starts that are reserved;
\* each worker then waits for its own by its own clock, so machines whose clocks
\* disagree may still send closer together.
ReservationsSpaced == \A d \in Known : Spaced(d)

\* The throttle's promise for every domain, fetched before or not.
AllReservationsSpaced == \A d \in Domain : Spaced(d)

\* A reservation is never given up: next_allowed_at only moves forward.
NextMovesForward ==
  [][\A d \in Known : next[d] <= next'[d]]_vars
=============================================================================
