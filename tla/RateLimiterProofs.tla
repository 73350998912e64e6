-------------------------- MODULE RateLimiterProofs --------------------------
(***************************************************************************)
(* Proofs about RateLimiter, for any number of goroutines and domains, any *)
(* clocks and any delays.                                                  *)
(***************************************************************************)
EXTENDS RateLimiter, TLAPS

\* The row of a known domain carries the end of its last reservation.
RowIsLastGrant ==
  \A d \in Known :
     /\ next[d] \in Nat
     /\ granted[d] # <<>> =>
          next[d] = granted[d][Len(granted[d])].start + granted[d][Len(granted[d])].delay

\* What an open transaction has read of a known domain is still the row.
ReadIsCurrent ==
  \A c \in Client : pc[c] = "reading" /\ asked[c].domain \in Known =>
     lock[asked[c].domain] = c /\ seen[c] = next[asked[c].domain]

SpacedInv == TypeOK /\ RowIsLastGrant /\ ReadIsCurrent /\ ReservationsSpaced

USE DEF vars, Request

\* The start of a reservation is a time, and it is at least the row's.
LEMMA StartAfterRow ==
  ASSUME TypeOK, NEW c \in Client, NEW now \in Time
  PROVE  Start(c, now) \in Nat /\ (seen[c] # None => seen[c] <= Start(c, now))
<1>1. now \in Nat /\ (seen[c] = None \/ seen[c] \in Nat)
  BY TimeAssumption DEF TypeOK
<1> QED
  BY <1>1, NoneAssumption DEF Start

-----------------------------------------------------------------------------
(* Type correctness.                                                       *)

\* Types hold at first.
LEMMA TypeInit ==
  ASSUME Init PROVE TypeOK
<1>1. granted \in [Domain -> Seq([start : Nat, delay : Delays])]
  BY DEF Init
<1> QED
  BY <1>1, KnownAssumption, NoneAssumption DEF Init, TypeOK

\* They hold after a SELECT FOR UPDATE,
LEMMA TypeBegin ==
  ASSUME TypeOK, NEW c \in Client, NEW d \in Domain, NEW delay \in Delays, Begin(c, d, delay)
  PROVE  TypeOK'
<1> USE DEF TypeOK, Begin, ReadForUpdate
<1>1. lock' \in [Domain -> Client \cup {None}]
  OBVIOUS
<1>2. /\ asked' \in [Client -> Request \cup {None}]
      /\ \A k \in Client : pc'[k] = "reading" => asked'[k] \in Request
  OBVIOUS
<1>3. ASSUME NEW e \in Domain, lock'[e] # None
      PROVE  pc'[lock'[e]] = "reading" /\ asked'[lock'[e]].domain = e
  <2>1. CASE lock'[e] = c
    BY <1>3, <2>1
  <2>2. CASE lock'[e] # c
    BY <1>3, <2>2
  <2> QED
    BY <2>1, <2>2
<1>4. seen' \in [Client -> Nat \cup {None}]
  OBVIOUS
<1> QED
  BY <1>1, <1>2, <1>3, <1>4

\* after a reservation,
LEMMA TypeReserve ==
  ASSUME TypeOK, NEW c \in Client, NEW now \in Time, Reserve(c, now)
  PROVE  TypeOK'
<1> USE DEF TypeOK, Reserve
<1> DEFINE d == asked[c].domain
           grant == [start |-> Start(c, now), delay |-> asked[c].delay]
<1>1. d \in Domain /\ asked[c].delay \in Delays /\ grant.start \in Nat
  BY StartAfterRow
<1>2. next' \in [Domain -> Nat \cup {None}]
  BY <1>1, TimeAssumption
<1>3. granted' \in [Domain -> Seq([start : Nat, delay : Delays])]
  <2>1. grant \in [start : Nat, delay : Delays]
    BY <1>1
  <2>2. /\ granted' = [granted EXCEPT ![d] = Append(granted[d], grant)]
        /\ granted \in [Domain -> Seq([start : Nat, delay : Delays])]
    OBVIOUS
  <2> DEFINE Rec == [start : Nat, delay : Delays]
  <2>3. granted[d] \in Seq(Rec) /\ grant \in Rec
    BY <1>1, <2>1, <2>2
  <2> HIDE DEF grant, Rec
  <2>4. Append(granted[d], grant) \in Seq(Rec)
    BY <2>3
  <2> QED
    BY <2>2, <2>4 DEF Rec
<1>4. lock' \in [Domain -> Client \cup {None}]
  OBVIOUS
<1>5. ASSUME NEW e \in Domain, lock'[e] # None
      PROVE  pc'[lock'[e]] = "reading" /\ asked'[lock'[e]].domain = e
  BY <1>5, <1>1
<1> QED
  BY <1>2, <1>3, <1>4, <1>5

\* after a rollback,
LEMMA TypeAbort ==
  ASSUME TypeOK, NEW c \in Client, Abort(c)
  PROVE  TypeOK'
<1> USE DEF TypeOK, Abort, LocksReleased
<1>1. ASSUME NEW e \in Domain, lock'[e] # None
      PROVE  pc'[lock'[e]] = "reading" /\ asked'[lock'[e]].domain = e
  <2>1. lock'[e] = lock[e] /\ lock[e] # c
    BY <1>1
  <2> QED
    BY <1>1, <2>1
<1>2. lock' \in [Domain -> Client \cup {None}]
  OBVIOUS
<1> QED
  BY <1>1, <1>2

\* and so after every step.
LEMMA TypeStep ==
  ASSUME TypeOK, [Next]_vars
  PROVE  TypeOK'
<1>1. CASE UNCHANGED vars
  BY <1>1 DEF TypeOK
<1> QED
  BY <1>1, TypeBegin, TypeReserve, TypeAbort DEF Next

\* The tables and the transactions keep their types, and a row is locked only
\* by an open transaction on it.
THEOREM TypeCorrect == Spec => []TypeOK
<1>1. Init => TypeOK
  BY TypeInit
<1>2. TypeOK /\ [Next]_vars => TypeOK'
  BY TypeStep
<1> QED
  BY <1>1, <1>2, PTL DEF Spec

-----------------------------------------------------------------------------
(* Every reservation is built on the last one.                             *)

\* No reservation has been made at first.
LEMMA SpacedInit ==
  ASSUME Init PROVE SpacedInv
<1>1. TypeOK
  BY TypeInit
<1>2. \A d \in Known : next[d] \in Nat /\ granted[d] = <<>>
  BY KnownAssumption DEF Init
<1>3. ReservationsSpaced
  <2>1. ASSUME NEW d \in Known PROVE 1 .. Len(granted[d]) - 1 = {}
    BY <1>2
  <2> QED
    BY <2>1 DEF ReservationsSpaced, Spaced
<1>4. RowIsLastGrant
  BY <1>2 DEF RowIsLastGrant
<1>5. ReadIsCurrent
  BY DEF ReadIsCurrent, Init
<1> QED
  BY <1>1, <1>3, <1>4, <1>5 DEF SpacedInv

\* Whoever locks a row reads what it says.
LEMMA SpacedBegin ==
  ASSUME SpacedInv, NEW c \in Client, NEW d \in Domain, NEW delay \in Delays, Begin(c, d, delay)
  PROVE  SpacedInv'
<1> USE DEF SpacedInv
<1>1. TypeOK'
  BY TypeBegin
<1>2. next' = next /\ granted' = granted
  BY DEF Begin
<1>3. RowIsLastGrant' /\ ReservationsSpaced'
  BY <1>2 DEF RowIsLastGrant, ReservationsSpaced, Spaced
<1>4. ASSUME NEW k \in Client, pc'[k] = "reading", asked'[k].domain \in Known
      PROVE  lock'[asked'[k].domain] = k /\ seen'[k] = next'[asked'[k].domain]
  <2> USE DEF TypeOK, Begin, ReadForUpdate
  <2>1. CASE k = c
    <3>1. asked'[c].domain = d /\ seen'[c] = next[d]
      OBVIOUS
    <3>2. next[d] # None
      BY <1>4, <2>1, <3>1, NoneAssumption DEF RowIsLastGrant
    <3> QED
      BY <2>1, <3>1, <3>2
  <2>2. CASE k # c
    <3>1. pc[k] = "reading" /\ asked[k].domain \in Known /\ asked'[k] = asked[k] /\ seen'[k] = seen[k]
      BY <1>4, <2>2
    <3>2. lock[asked[k].domain] = k /\ seen[k] = next[asked[k].domain]
      BY <3>1 DEF ReadIsCurrent
    <3>3. asked[k].domain # d \/ next[d] = None
      BY <3>2, NoneAssumption
    <3> QED
      BY <3>1, <3>2, <3>3
  <2> QED
    BY <2>1, <2>2
<1> QED
  BY <1>1, <1>3, <1>4 DEF ReadIsCurrent

\* A reservation on a known domain starts where the row allows, and appends.
LEMMA ReserveFacts ==
  ASSUME SpacedInv, NEW c \in Client, NEW now \in Time, Reserve(c, now)
  PROVE  LET d == asked[c].domain
             start == Start(c, now)
         IN /\ d \in Domain /\ asked[c].delay \in Delays /\ asked[c].delay \in Nat /\ start \in Nat
            /\ d \in Known => next[d] \in Nat /\ next[d] <= start
            /\ next' = [next EXCEPT ![d] = start + asked[c].delay]
            /\ granted' = [granted EXCEPT ![d] =
                             Append(@, [start |-> start, delay |-> asked[c].delay])]
<1> DEFINE d == asked[c].domain
           start == Start(c, now)
<1>1. d \in Domain /\ asked[c].delay \in Delays /\ asked[c].delay \in Nat
  BY TimeAssumption DEF SpacedInv, TypeOK, Reserve
<1>2. start \in Nat
  BY StartAfterRow DEF SpacedInv
<1>3. ASSUME d \in Known PROVE next[d] \in Nat /\ next[d] <= start
  <2>1. next[d] \in Nat /\ seen[c] = next[d]
    BY <1>3 DEF SpacedInv, RowIsLastGrant, ReadIsCurrent, Reserve
  <2> QED
    BY <2>1, NoneAssumption, StartAfterRow DEF SpacedInv
<1>4. /\ next' = [next EXCEPT ![d] = start + asked[c].delay]
      /\ granted' = [granted EXCEPT ![d] = Append(@, [start |-> start, delay |-> asked[c].delay])]
  BY DEF Reserve
<1> QED
  BY <1>1, <1>2, <1>3, <1>4

\* A reservation starts no earlier than the row says, and moves it to its own end.
LEMMA SpacedReserve ==
  ASSUME SpacedInv, NEW c \in Client, NEW now \in Time, Reserve(c, now)
  PROVE  SpacedInv'
<1> DEFINE d == asked[c].domain
           start == Start(c, now)
           grant == [start |-> start, delay |-> asked[c].delay]
<1>1. TypeOK'
  BY TypeReserve DEF SpacedInv
<1>2. /\ d \in Domain /\ asked[c].delay \in Delays /\ asked[c].delay \in Nat /\ start \in Nat
      /\ d \in Known => next[d] \in Nat /\ next[d] <= start
      /\ next' = [next EXCEPT ![d] = start + asked[c].delay]
      /\ granted' = [granted EXCEPT ![d] = Append(@, grant)]
  BY ReserveFacts
<1>3. \A e \in Domain : granted[e] \in Seq([start : Nat, delay : Delays])
  BY DEF SpacedInv, TypeOK
<1>4. next \in [Domain -> Nat \cup {None}] /\ granted \in [Domain -> Seq([start : Nat, delay : Delays])]
  BY DEF SpacedInv, TypeOK
<1>5. /\ next'[d] = start + asked[c].delay /\ granted'[d] = Append(granted[d], grant)
      /\ \A e \in Domain \ {d} : next'[e] = next[e] /\ granted'[e] = granted[e]
  BY <1>2, <1>4
<1>6. Len(granted'[d]) = Len(granted[d]) + 1 /\ granted'[d][Len(granted[d]) + 1] = grant
  BY <1>2, <1>3, <1>5
<1>7. RowIsLastGrant'
  <2>1. ASSUME NEW e \in Known
        PROVE  /\ next'[e] \in Nat
               /\ granted'[e] # <<>> =>
                    next'[e] = granted'[e][Len(granted'[e])].start + granted'[e][Len(granted'[e])].delay
    <3>1. CASE e = d
      BY <3>1, <1>2, <1>5, <1>6
    <3>2. CASE e # d
      BY <3>2, <1>5, KnownAssumption DEF SpacedInv, RowIsLastGrant
    <3> QED
      BY <3>1, <3>2
  <2> QED
    BY <2>1 DEF RowIsLastGrant
<1>8. ReservationsSpaced'
  <2>1. ASSUME NEW e \in Known, NEW n \in 1 .. Len(granted'[e]) - 1
        PROVE  granted'[e][n].start + granted'[e][n].delay <= granted'[e][n + 1].start
    <3>1. CASE e # d
      BY <3>1, <1>5, <2>1, KnownAssumption DEF SpacedInv, ReservationsSpaced, Spaced
    <3>2. CASE e = d /\ n = Len(granted[d])
      <4>1. granted'[d][n] = granted[d][n] /\ granted[d] # <<>>
        BY <3>2, <1>2, <1>3, <1>5, <1>6, <2>1
      <4>2. next[d] = granted[d][n].start + granted[d][n].delay
        BY <3>2, <4>1 DEF SpacedInv, RowIsLastGrant
      <4>3. granted'[d][n + 1].start = start
        BY <3>2, <1>6
      <4> QED
        BY <3>2, <4>1, <4>2, <4>3, <1>2
    <3>3. CASE e = d /\ n < Len(granted[d])
      <4>1. n \in 1 .. Len(granted[d]) - 1
        BY <3>3, <1>2, <1>3, <2>1
      <4>2. granted'[d][n] = granted[d][n] /\ granted'[d][n + 1] = granted[d][n + 1]
        BY <4>1, <1>2, <1>3, <1>5
      <4> QED
        BY <3>3, <4>1, <4>2 DEF SpacedInv, ReservationsSpaced, Spaced
    <3>4. ASSUME e = d PROVE n = Len(granted[d]) \/ n < Len(granted[d])
      <4>1. Len(granted[d]) \in Nat /\ n \in 1 .. Len(granted'[d]) - 1
        BY <3>4, <2>1, <1>2, <1>3
      <4> QED
        BY <4>1, <1>6
    <3> QED
      BY <3>1, <3>2, <3>3, <3>4
  <2> QED
    BY <2>1 DEF ReservationsSpaced, Spaced
<1>9. ReadIsCurrent'
  <2>1. ASSUME NEW k \in Client, pc'[k] = "reading", asked'[k].domain \in Known
        PROVE  lock'[asked'[k].domain] = k /\ seen'[k] = next'[asked'[k].domain]
    <3>1. k # c /\ pc[k] = "reading" /\ asked' = asked /\ seen' = seen
      BY <2>1 DEF Reserve, SpacedInv, TypeOK
    <3>2. lock[asked[k].domain] = k /\ seen[k] = next[asked[k].domain]
      BY <3>1, <2>1 DEF SpacedInv, ReadIsCurrent
    <3>3. lock[d] \in {None, c} /\ lock' = [lock EXCEPT ![d] = None] /\ lock \in [Domain -> Client \cup {None}]
      BY DEF Reserve, SpacedInv, TypeOK
    <3>4. asked[k].domain # d
      BY <3>1, <3>2, <3>3, NoneAssumption
    <3> QED
      BY <2>1, <3>1, <3>2, <3>3, <3>4, <1>5, KnownAssumption
  <2> QED
    BY <2>1 DEF ReadIsCurrent
<1> QED
  BY <1>1, <1>7, <1>8, <1>9 DEF SpacedInv

\* A rollback changes no row.
LEMMA SpacedAbort ==
  ASSUME SpacedInv, NEW c \in Client, Abort(c)
  PROVE  SpacedInv'
<1>1. TypeOK'
  BY TypeAbort DEF SpacedInv
<1>2. next' = next /\ granted' = granted /\ asked' = asked /\ seen' = seen
  BY DEF Abort
<1>3. RowIsLastGrant' /\ ReservationsSpaced'
  BY <1>2 DEF SpacedInv, RowIsLastGrant, ReservationsSpaced, Spaced
<1>4. ReadIsCurrent'
  BY <1>2, KnownAssumption DEF SpacedInv, ReadIsCurrent, Abort, LocksReleased, TypeOK
<1> QED
  BY <1>1, <1>3, <1>4 DEF SpacedInv

\* Every step keeps reservations apart.
LEMMA SpacedStep ==
  ASSUME SpacedInv, [Next]_vars
  PROVE  SpacedInv'
<1>1. CASE UNCHANGED vars
  BY <1>1 DEF SpacedInv, TypeOK, RowIsLastGrant, ReadIsCurrent, ReservationsSpaced, Spaced
<1> QED
  BY <1>1, SpacedBegin, SpacedReserve, SpacedAbort DEF Next

\* So they are apart always.
LEMMA SpacedAlways == Spec => []SpacedInv
<1>1. Init => SpacedInv
  BY SpacedInit
<1>2. SpacedInv /\ [Next]_vars => SpacedInv'
  BY SpacedStep
<1> QED
  BY <1>1, <1>2, PTL DEF Spec

\* Two requests to a domain that has a row never start closer than the first
\* one's delay, whatever the clocks of the machines show.
THEOREM ReservationsAreSpaced == Spec => []ReservationsSpaced
<1>1. SpacedInv => ReservationsSpaced
  BY DEF SpacedInv
<1> QED
  BY <1>1, SpacedAlways, PTL

\* next_allowed_at of a domain that has a row only moves forward.
THEOREM NextOnlyMovesForward == Spec => NextMovesForward
<1>1. ASSUME SpacedInv, [Next]_vars
      PROVE  [\A d \in Known : next[d] <= next'[d]]_vars
  <2>1. ASSUME next' = next PROVE \A d \in Known : next[d] <= next'[d]
    BY <1>1, <2>1 DEF SpacedInv, RowIsLastGrant
  <2>2. CASE UNCHANGED vars
    BY <2>2
  <2>3. CASE \E c \in Client, d \in Domain, delay \in Delays : Begin(c, d, delay)
    BY <2>1, <2>3 DEF Begin
  <2>4. ASSUME NEW c \in Client, NEW now \in Time, Reserve(c, now)
        PROVE  \A d \in Known : next[d] <= next'[d]
    <3> DEFINE e == asked[c].domain
               start == Start(c, now)
    <3>1. /\ e \in Domain /\ asked[c].delay \in Nat /\ start \in Nat
          /\ e \in Known => next[e] \in Nat /\ next[e] <= start
          /\ next' = [next EXCEPT ![e] = start + asked[c].delay]
      BY <1>1, <2>4, ReserveFacts
    <3>2. \A d \in Known : d \in Domain /\ next[d] \in Nat
      BY <1>1, KnownAssumption DEF SpacedInv, RowIsLastGrant
    <3>3. next \in [Domain -> Nat \cup {None}]
      BY <1>1 DEF SpacedInv, TypeOK
    <3>4. TAKE d \in Known
    <3>5. CASE d = e
      BY <3>1, <3>2, <3>3, <3>5
    <3>6. CASE d # e
      BY <3>1, <3>2, <3>3, <3>6
    <3> QED
      BY <3>5, <3>6
  <2>5. CASE \E c \in Client : Abort(c)
    BY <2>1, <2>5 DEF Abort
  <2> QED
    BY <1>1, <2>2, <2>3, <2>4, <2>5 DEF Next
<1> QED
  BY <1>1, SpacedAlways, PTL DEF Spec, NextMovesForward

=============================================================================
