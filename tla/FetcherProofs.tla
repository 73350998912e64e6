--------------------------- MODULE FetcherProofs ---------------------------
(***************************************************************************)
(* The safety properties of Fetcher for every number of redirects, and any *)
(* hosts, URLs and delays.                                                 *)
(***************************************************************************)
EXTENDS Fetcher, TLAPS

USE PublicAssumption, DelayAssumption, RedirectsAssumption, NoneAssumption

\* Every URL that Fetch or robots works on has a host with a row to reserve.
LEMMA HostsOfUrls ==
  ASSUME NEW u \in RobotsUrls
  PROVE  Hostname(u) \in Host
  BY DEF Host

\* Every page's robots.txt is among the URLs asked for.
LEMMA RobotsUrlsOfPages ==
  ASSUME NEW u \in Url
  PROVE  u \in RobotsUrls /\ RobotsUrl(u) \in RobotsUrls
  BY DEF RobotsUrls

InRobots == pc \in {"robots_validate", "robots_reserve", "robots_request"}

\* A reservation is held exactly where a request is about to be sent.
SlotIsHeld ==
  /\ \A h \in Host : slots[h] >= 0
  /\ pc = "robots_request" => slots[Hostname(robotsUrl)] >= 1
  /\ pc = "request" => slots[Hostname(url)] >= 1

\* What the policy approved is still what is worked on.
ApprovedIsCurrent ==
  /\ pc # "validate" /\ answer # "fatal" => validated.url = url
  /\ pc \in {"robots_reserve", "robots_request"} => robotsValidated.url = robotsUrl

\* What is worked on keeps to the policy, and its address is one of those that
\* were approved with it.
PolicyIsKept ==
  /\ pc # "validate" /\ answer # "fatal" =>
       Acceptable(url) /\ pinned \in Public \cap validated.ips
  /\ pc \in {"robots_reserve", "robots_request"} =>
       Acceptable(robotsUrl) /\ robotsPinned \in Public \cap robotsValidated.ips

\* The verdict robots left is about the current URL.
VerdictIsCurrent ==
  pc \in {"reserve", "request"} \/ answer = "page" =>
    /\ respect => cleared = url
    /\ respect /\ failClosed => robotsStatus \in {"allowed", "not_found"}
    /\ delay = IF robotsStatus = "allowed" THEN CrawlDelay[Hostname(url)] ELSE 0

GapIsReserved == pc = "request" \/ answer = "page" => gap = Gap

AnsweredWhenDone == answer # "none" <=> pc = "done"

\* Every hop of the page sends at most MaxRedirects + 1 requests for robots.txt
\* and one for itself.
Hop == MaxRedirects + 2

SpentWithinHops ==
  /\ pc = "validate" => requests <= redirects * Hop
  /\ InRobots => requests <= redirects * Hop + robotsRedirects
  /\ pc \in {"reserve", "request"} => requests <= redirects * Hop + MaxRedirects + 1
  /\ pc = "done" => requests <= redirects * Hop + Hop

FetchInv ==
  /\ TypeOK
  /\ AnsweredWhenDone
  /\ SlotIsHeld
  /\ ApprovedIsCurrent
  /\ PolicyIsKept
  /\ VerdictIsCurrent
  /\ GapIsReserved
  /\ SpentWithinHops

-----------------------------------------------------------------------------
\* One more hop costs Hop requests more.
LEMMA OneHopMore ==
  ASSUME NEW r \in Nat
  PROVE  /\ r * Hop \in Nat
         /\ (r + 1) * Hop = r * Hop + Hop
  BY DEF Hop

\* The hops of a page cost no more than the product.
LEMMA HopsAtMost ==
  ASSUME NEW r \in 0..MaxRedirects
  PROVE  r * Hop + Hop <= (MaxRedirects + 1) * (MaxRedirects + 2)
  BY DEF Hop

\* The invariant holds before the first request.
LEMMA FetchInit == Init => FetchInv
<1> SUFFICES ASSUME Init PROVE FetchInv
  OBVIOUS
<1>1. TypeOK /\ AnsweredWhenDone /\ SlotIsHeld /\ ApprovedIsCurrent
  BY DEF Init, NoApproval, TypeOK, AnsweredWhenDone, SlotIsHeld, ApprovedIsCurrent
<1>2. VerdictIsCurrent /\ GapIsReserved
  BY DEF Init, VerdictIsCurrent, GapIsReserved
<1>4. PolicyIsKept
  BY DEF Init, PolicyIsKept
<1>3. SpentWithinHops
  BY DEF Init, SpentWithinHops, InRobots, Hop
<1> QED BY <1>1, <1>2, <1>3, <1>4 DEF FetchInv

\* A step of the fetch keeps the invariant.
LEMMA FetchStep == FetchInv /\ [Next]_vars => FetchInv'
<1> SUFFICES ASSUME FetchInv, [Next]_vars PROVE FetchInv'
  OBVIOUS
<1> USE DEF FetchInv
<1>0. /\ redirects * Hop \in Nat /\ Hop = MaxRedirects + 2
      /\ (redirects + 1) * Hop = redirects * Hop + Hop
  BY OneHopMore DEF TypeOK, Hop
<1>a. /\ Hostname(url) \in Host
      /\ RobotsUrl(url) \in RobotsUrls /\ RobotsUrl(url) # None
      /\ \A u \in Url : u \in RobotsUrls /\ u # None
      /\ robotsUrl # None => Hostname(robotsUrl) \in Host
  BY HostsOfUrls, RobotsUrlsOfPages DEF TypeOK
<1>1. ASSUME Validate PROVE FetchInv'
  <2> USE <1>1 DEF Validate, AllPublic, ChecksRobots, robotsApproved, robots, verdict, settings, page, traffic
  <2>1. TypeOK'
    BY <1>a DEF TypeOK
  <2>2. AnsweredWhenDone'
    BY DEF TypeOK, AnsweredWhenDone
  <2>3. SlotIsHeld'
    BY <1>a DEF TypeOK, SlotIsHeld
  <2>4. ApprovedIsCurrent'
    BY DEF AnsweredWhenDone, ApprovedIsCurrent
  <2>5. VerdictIsCurrent'
    BY DEF TypeOK, AnsweredWhenDone, VerdictIsCurrent
  <2>6. GapIsReserved'
    BY DEF AnsweredWhenDone, GapIsReserved, Gap
  <2>7. SpentWithinHops'
    BY <1>0 DEF TypeOK, SpentWithinHops, InRobots
  <2>8. PolicyIsKept'
    BY DEF AnsweredWhenDone, PolicyIsKept
  <2> QED BY <2>1, <2>2, <2>3, <2>4, <2>5, <2>6, <2>7, <2>8
<1>2. ASSUME Unsafe PROVE FetchInv'
  <2> USE <1>2 DEF Unsafe, Fail, robots, verdict, approved, robotsApproved, settings, page, traffic
  <2>1. TypeOK'
    BY <1>a DEF TypeOK
  <2>2. AnsweredWhenDone'
    BY DEF TypeOK, AnsweredWhenDone
  <2>3. SlotIsHeld'
    BY <1>a DEF TypeOK, SlotIsHeld
  <2>4. ApprovedIsCurrent'
    BY DEF AnsweredWhenDone, ApprovedIsCurrent
  <2>5. VerdictIsCurrent'
    BY DEF TypeOK, AnsweredWhenDone, VerdictIsCurrent
  <2>6. GapIsReserved'
    BY DEF AnsweredWhenDone, GapIsReserved, Gap
  <2>7. SpentWithinHops'
    BY <1>0 DEF TypeOK, SpentWithinHops, InRobots
  <2>8. PolicyIsKept'
    BY DEF AnsweredWhenDone, PolicyIsKept
  <2> QED BY <2>1, <2>2, <2>3, <2>4, <2>5, <2>6, <2>7, <2>8
<1>3. ASSUME RobotsValidate PROVE FetchInv'
  <2> USE <1>3 DEF RobotsValidate, AllPublic, robots, verdict, settings, page, traffic
  <2>1. TypeOK'
    BY <1>a DEF TypeOK
  <2>2. AnsweredWhenDone'
    BY DEF TypeOK, AnsweredWhenDone
  <2>3. SlotIsHeld'
    BY <1>a DEF TypeOK, SlotIsHeld
  <2>4. ApprovedIsCurrent'
    BY DEF AnsweredWhenDone, ApprovedIsCurrent
  <2>5. VerdictIsCurrent'
    BY DEF TypeOK, AnsweredWhenDone, VerdictIsCurrent
  <2>6. GapIsReserved'
    BY DEF AnsweredWhenDone, GapIsReserved, Gap
  <2>7. SpentWithinHops'
    BY <1>0 DEF TypeOK, SpentWithinHops, InRobots
  <2>8. PolicyIsKept'
    BY DEF AnsweredWhenDone, PolicyIsKept
  <2> QED BY <2>1, <2>2, <2>3, <2>4, <2>5, <2>6, <2>7, <2>8
<1>4. ASSUME RobotsReserve PROVE FetchInv'
  <2> USE <1>4 DEF RobotsReserve, RobotsDomain, robots, verdict, approved, robotsApproved, settings, page, traffic
  <2>1. TypeOK'
    BY <1>a DEF TypeOK
  <2>2. AnsweredWhenDone'
    BY DEF TypeOK, AnsweredWhenDone
  <2>3. SlotIsHeld'
    BY <1>a DEF TypeOK, SlotIsHeld
  <2>4. ApprovedIsCurrent'
    BY DEF AnsweredWhenDone, ApprovedIsCurrent
  <2>5. VerdictIsCurrent'
    BY DEF TypeOK, AnsweredWhenDone, VerdictIsCurrent
  <2>6. GapIsReserved'
    BY DEF AnsweredWhenDone, GapIsReserved, Gap
  <2>7. SpentWithinHops'
    BY <1>0 DEF TypeOK, SpentWithinHops, InRobots
  <2>8. PolicyIsKept'
    BY DEF AnsweredWhenDone, PolicyIsKept
  <2> QED BY <2>1, <2>2, <2>3, <2>4, <2>5, <2>6, <2>7, <2>8
<1>5. ASSUME RobotsUnavailable PROVE FetchInv'
  <2> USE <1>5 DEF RobotsUnavailable, Closes, Fail, Cleared, Sent, Dials, robots, verdict, approved, robotsApproved, settings, page, traffic
  <2>1. TypeOK'
    BY <1>a DEF TypeOK
  <2>2. AnsweredWhenDone'
    BY DEF TypeOK, AnsweredWhenDone
  <2>3. SlotIsHeld'
    BY <1>a DEF TypeOK, SlotIsHeld
  <2>4. ApprovedIsCurrent'
    BY DEF AnsweredWhenDone, ApprovedIsCurrent
  <2>5. VerdictIsCurrent'
    BY DEF TypeOK, AnsweredWhenDone, VerdictIsCurrent
  <2>6. GapIsReserved'
    BY DEF AnsweredWhenDone, GapIsReserved, Gap
  <2>7. SpentWithinHops'
    BY <1>0 DEF TypeOK, SpentWithinHops, InRobots
  <2>8. PolicyIsKept'
    BY DEF AnsweredWhenDone, PolicyIsKept
  <2> QED BY <2>1, <2>2, <2>3, <2>4, <2>5, <2>6, <2>7, <2>8
<1>6. ASSUME RobotsFound PROVE FetchInv'
  <2> USE <1>6 DEF RobotsFound, Cleared, Sent, Dials, robots, approved, robotsApproved, settings, page, traffic
  <2>1. TypeOK'
    BY <1>a DEF TypeOK
  <2>2. AnsweredWhenDone'
    BY DEF TypeOK, AnsweredWhenDone
  <2>3. SlotIsHeld'
    BY <1>a DEF TypeOK, SlotIsHeld
  <2>4. ApprovedIsCurrent'
    BY DEF AnsweredWhenDone, ApprovedIsCurrent
  <2>5. VerdictIsCurrent'
    BY DEF TypeOK, AnsweredWhenDone, VerdictIsCurrent
  <2>6. GapIsReserved'
    BY DEF AnsweredWhenDone, GapIsReserved, Gap
  <2>7. SpentWithinHops'
    BY <1>0 DEF TypeOK, SpentWithinHops, InRobots
  <2>8. PolicyIsKept'
    BY DEF AnsweredWhenDone, PolicyIsKept
  <2> QED BY <2>1, <2>2, <2>3, <2>4, <2>5, <2>6, <2>7, <2>8
<1>7. ASSUME NEW u \in Url, RobotsRedirected(u) PROVE FetchInv'
  <2> USE <1>7 DEF RobotsRedirected, MayFollow, Sent, Dials, verdict, approved, robotsApproved, settings, page, traffic
  <2>1. TypeOK'
    BY <1>a DEF TypeOK
  <2>2. AnsweredWhenDone'
    BY DEF TypeOK, AnsweredWhenDone
  <2>3. SlotIsHeld'
    BY <1>a DEF TypeOK, SlotIsHeld
  <2>4. ApprovedIsCurrent'
    BY DEF AnsweredWhenDone, ApprovedIsCurrent
  <2>5. VerdictIsCurrent'
    BY DEF TypeOK, AnsweredWhenDone, VerdictIsCurrent
  <2>6. GapIsReserved'
    BY DEF AnsweredWhenDone, GapIsReserved, Gap
  <2>7. SpentWithinHops'
    BY <1>0 DEF TypeOK, SpentWithinHops, InRobots
  <2>8. PolicyIsKept'
    BY DEF AnsweredWhenDone, PolicyIsKept
  <2> QED BY <2>1, <2>2, <2>3, <2>4, <2>5, <2>6, <2>7, <2>8
<1>8. ASSUME NEW how \in {"retryable", "fatal"}, RobotsDenied(how) PROVE FetchInv'
  <2> USE <1>8 DEF RobotsDenied, Fail, Sent, Dials, robots, verdict, approved, robotsApproved, settings, page, traffic
  <2>1. TypeOK'
    BY <1>a DEF TypeOK
  <2>2. AnsweredWhenDone'
    BY DEF TypeOK, AnsweredWhenDone
  <2>3. SlotIsHeld'
    BY <1>a DEF TypeOK, SlotIsHeld
  <2>4. ApprovedIsCurrent'
    BY DEF AnsweredWhenDone, ApprovedIsCurrent
  <2>5. VerdictIsCurrent'
    BY DEF TypeOK, AnsweredWhenDone, VerdictIsCurrent
  <2>6. GapIsReserved'
    BY DEF AnsweredWhenDone, GapIsReserved, Gap
  <2>7. SpentWithinHops'
    BY <1>0 DEF TypeOK, SpentWithinHops, InRobots
  <2>8. PolicyIsKept'
    BY DEF AnsweredWhenDone, PolicyIsKept
  <2> QED BY <2>1, <2>2, <2>3, <2>4, <2>5, <2>6, <2>7, <2>8
<1>9. ASSUME NEW how \in {"retryable", "fatal"}, PageFails(how) PROVE FetchInv'
  <2> USE <1>9 DEF PageFails, Fail, Sent, Dials, robots, verdict, approved, robotsApproved, settings, page, traffic
  <2>1. TypeOK'
    BY <1>a DEF TypeOK
  <2>2. AnsweredWhenDone'
    BY DEF TypeOK, AnsweredWhenDone
  <2>3. SlotIsHeld'
    BY <1>a DEF TypeOK, SlotIsHeld
  <2>4. ApprovedIsCurrent'
    BY DEF AnsweredWhenDone, ApprovedIsCurrent
  <2>5. VerdictIsCurrent'
    BY DEF TypeOK, AnsweredWhenDone, VerdictIsCurrent
  <2>6. GapIsReserved'
    BY DEF AnsweredWhenDone, GapIsReserved, Gap
  <2>7. SpentWithinHops'
    BY <1>0 DEF TypeOK, SpentWithinHops, InRobots
  <2>8. PolicyIsKept'
    BY DEF AnsweredWhenDone, PolicyIsKept
  <2> QED BY <2>1, <2>2, <2>3, <2>4, <2>5, <2>6, <2>7, <2>8
<1>10. ASSUME ReserveFails PROVE FetchInv'
  <2> USE <1>10 DEF ReserveFails, Fail, robots, verdict, approved, robotsApproved, settings, page, traffic
  <2>1. TypeOK'
    BY <1>a DEF TypeOK
  <2>2. AnsweredWhenDone'
    BY DEF TypeOK, AnsweredWhenDone
  <2>3. SlotIsHeld'
    BY <1>a DEF TypeOK, SlotIsHeld
  <2>4. ApprovedIsCurrent'
    BY DEF AnsweredWhenDone, ApprovedIsCurrent
  <2>5. VerdictIsCurrent'
    BY DEF TypeOK, AnsweredWhenDone, VerdictIsCurrent
  <2>6. GapIsReserved'
    BY DEF AnsweredWhenDone, GapIsReserved, Gap
  <2>7. SpentWithinHops'
    BY <1>0 DEF TypeOK, SpentWithinHops, InRobots
  <2>8. PolicyIsKept'
    BY DEF AnsweredWhenDone, PolicyIsKept
  <2> QED BY <2>1, <2>2, <2>3, <2>4, <2>5, <2>6, <2>7, <2>8
<1>11. ASSUME Reserve PROVE FetchInv'
  <2> USE <1>11 DEF Reserve, robots, verdict, approved, robotsApproved, settings, page, traffic
  <2>1. TypeOK'
    BY <1>a DEF TypeOK, Gap
  <2>2. AnsweredWhenDone'
    BY DEF TypeOK, AnsweredWhenDone
  <2>3. SlotIsHeld'
    BY <1>a DEF TypeOK, SlotIsHeld
  <2>4. ApprovedIsCurrent'
    BY DEF AnsweredWhenDone, ApprovedIsCurrent
  <2>5. VerdictIsCurrent'
    BY DEF TypeOK, AnsweredWhenDone, VerdictIsCurrent
  <2>6. GapIsReserved'
    BY DEF AnsweredWhenDone, GapIsReserved, Gap
  <2>7. SpentWithinHops'
    BY <1>0 DEF TypeOK, SpentWithinHops, InRobots
  <2>8. PolicyIsKept'
    BY DEF AnsweredWhenDone, PolicyIsKept
  <2> QED BY <2>1, <2>2, <2>3, <2>4, <2>5, <2>6, <2>7, <2>8
<1>12. ASSUME PageRead PROVE FetchInv'
  <2> USE <1>12 DEF PageRead, Sent, Dials, robots, verdict, approved, robotsApproved, settings, page, traffic
  <2>1. TypeOK'
    BY <1>a DEF TypeOK
  <2>2. AnsweredWhenDone'
    BY DEF TypeOK, AnsweredWhenDone
  <2>3. SlotIsHeld'
    BY <1>a DEF TypeOK, SlotIsHeld
  <2>4. ApprovedIsCurrent'
    BY DEF AnsweredWhenDone, ApprovedIsCurrent
  <2>5. VerdictIsCurrent'
    BY DEF TypeOK, AnsweredWhenDone, VerdictIsCurrent
  <2>6. GapIsReserved'
    BY DEF AnsweredWhenDone, GapIsReserved, Gap
  <2>7. SpentWithinHops'
    BY <1>0 DEF TypeOK, SpentWithinHops, InRobots
  <2>8. PolicyIsKept'
    BY DEF AnsweredWhenDone, PolicyIsKept
  <2> QED BY <2>1, <2>2, <2>3, <2>4, <2>5, <2>6, <2>7, <2>8
<1>13. ASSUME NEW u \in Url, Redirected(u) PROVE FetchInv'
  <2> USE <1>13 DEF Redirected, MayFollow, NextHop, Sent, Dials, robots, verdict, approved, robotsApproved, settings, page, traffic
  <2>1. TypeOK'
    BY <1>a DEF TypeOK
  <2>2. AnsweredWhenDone'
    BY DEF TypeOK, AnsweredWhenDone
  <2>3. SlotIsHeld'
    BY <1>a DEF TypeOK, SlotIsHeld
  <2>4. ApprovedIsCurrent'
    BY DEF AnsweredWhenDone, ApprovedIsCurrent
  <2>5. VerdictIsCurrent'
    BY DEF TypeOK, AnsweredWhenDone, VerdictIsCurrent
  <2>6. GapIsReserved'
    BY DEF AnsweredWhenDone, GapIsReserved, Gap
  <2>7. SpentWithinHops'
    BY <1>0 DEF TypeOK, SpentWithinHops, InRobots
  <2>8. PolicyIsKept'
    BY DEF AnsweredWhenDone, PolicyIsKept
  <2> QED BY <2>1, <2>2, <2>3, <2>4, <2>5, <2>6, <2>7, <2>8
<1>14. CASE UNCHANGED vars
  BY <1>14 DEF vars, settings, page, robots, verdict, approved, robotsApproved, traffic, TypeOK,
     AnsweredWhenDone, SlotIsHeld, ApprovedIsCurrent, PolicyIsKept, VerdictIsCurrent, GapIsReserved,
     Gap, SpentWithinHops, InRobots
<1> QED BY <1>1, <1>2, <1>3, <1>4, <1>5, <1>6, <1>7, <1>8, <1>9, <1>10, <1>11, <1>12, <1>13, <1>14 DEF Next

\* So it holds always.
LEMMA FetchKeepsInv == Spec => []FetchInv
  BY FetchInit, FetchStep, PTL DEF Spec

-----------------------------------------------------------------------------
\* Every variable of Fetch and robots keeps its type, and neither loop follows
\* more than MAX_REDIRECTS redirects.
THEOREM TypeCorrect == Spec => []TypeOK
<1>1. FetchInv => TypeOK
  BY DEF FetchInv
<1> QED BY FetchKeepsInv, <1>1, PTL

\* No request, of a page or of robots.txt, is sent without a reservation of its
\* own host.
THEOREM RequestsAreReserved == Spec => []EveryRequestIsReserved
<1>1. FetchInv => EveryRequestIsReserved
  BY DEF FetchInv, SlotIsHeld, EveryRequestIsReserved
<1> QED BY FetchKeepsInv, <1>1, PTL

\* On every hop of either loop the request goes to what the policy approved last.
THEOREM RequestsAreValidated == Spec => []RequestedIsValidated
<1>1. FetchInv => RequestedIsValidated
  BY DEF FetchInv, AnsweredWhenDone, ApprovedIsCurrent, RequestedIsValidated, AboutToRequest
<1> QED BY FetchKeepsInv, <1>1, PTL

\* A request of robots is sent to an address approved for the URL of robots, and
\* a request of the page to one approved for the page's.
LEMMA RequestsGoWhereApproved ==
  ASSUME FetchInv, [Next]_vars, requests' # requests
  PROVE  Acceptable(Wanted) /\ dialed' \in Public \cap ApprovedFor(Wanted)
<1>1. CASE pc = "robots_request" /\ dialed' = robotsPinned
  <2>1. Wanted = robotsUrl /\ robotsValidated.url = robotsUrl
    BY <1>1 DEF FetchInv, Wanted, ApprovedIsCurrent
  <2>2. Acceptable(robotsUrl) /\ robotsPinned \in Public \cap robotsValidated.ips
    BY <1>1 DEF FetchInv, PolicyIsKept
  <2> QED BY <1>1, <2>1, <2>2 DEF ApprovedFor
<1>2. CASE pc = "request" /\ dialed' = pinned
  <2>1. answer # "fatal"
    BY <1>2 DEF FetchInv, AnsweredWhenDone
  <2>2. Wanted = url /\ validated.url = url
    BY <1>2, <2>1 DEF FetchInv, Wanted, ApprovedIsCurrent
  <2>3. Acceptable(url) /\ pinned \in Public \cap validated.ips
    BY <1>2, <2>1 DEF FetchInv, PolicyIsKept
  <2> QED BY <1>2, <2>2, <2>3 DEF ApprovedFor
<1>3. CASE RobotsUnavailable \/ RobotsFound \/ (\E u \in Url : RobotsRedirected(u))
           \/ \E how \in {"retryable", "fatal"} : RobotsDenied(how)
  BY <1>1, <1>3 DEF RobotsUnavailable, RobotsFound, RobotsRedirected, RobotsDenied,
     Sent, Dials
<1>4. CASE PageRead \/ (\E u \in Url : Redirected(u))
           \/ \E how \in {"retryable", "fatal"} : PageFails(how)
  BY <1>2, <1>4 DEF PageRead, Redirected, PageFails, Sent, Dials
<1>5. CASE Validate \/ Unsafe \/ RobotsValidate \/ RobotsReserve \/ ReserveFails \/ Reserve
           \/ UNCHANGED vars
  BY <1>5 DEF Validate, Unsafe, RobotsValidate, RobotsReserve, ReserveFails, Reserve, traffic, vars
<1> QED BY <1>3, <1>4, <1>5 DEF Next

\* Every connection of either loop goes to an address that the policy approved
\* for the URL that is requested, whatever names resolve to meanwhile and
\* whatever robots resolved in between.
THEOREM RequestsKeepToPolicy == Spec => ConnectionsAreApproved
<1>1. FetchInv /\ [Next]_vars =>
        [requests' # requests =>
           Acceptable(Wanted) /\ dialed' \in Public \cap ApprovedFor(Wanted)]_vars
  BY RequestsGoWhereApproved
<1> QED BY FetchKeepsInv, <1>1, PTL DEF Spec, ConnectionsAreApproved

\* A page that is requested was cleared by the robots.txt that speaks for it.
THEOREM PagesAreCleared == Spec => []PageWasCleared
<1>1. FetchInv => PageWasCleared
  BY DEF FetchInv, AnsweredWhenDone, VerdictIsCurrent, PageWasCleared, AboutToRequest
<1> QED BY FetchKeepsInv, <1>1, PTL

\* The reserved delay is the larger of DOMAIN_DELAY_SECONDS and the delay the
\* page's own host asks for.
THEOREM DelaysAreKept == Spec => []CrawlDelayIsKept
<1>1. FetchInv => CrawlDelayIsKept
  BY DEF FetchInv, TypeOK, AnsweredWhenDone, VerdictIsCurrent, GapIsReserved, Gap,
         CrawlDelayIsKept, AboutToRequest
<1> QED BY FetchKeepsInv, <1>1, PTL

\* A fetch sends at most (MAX_REDIRECTS + 1) * (MAX_REDIRECTS + 2) requests.
THEOREM FetchIsBounded == Spec => []RequestsAreBounded
<1>1. ASSUME FetchInv PROVE RequestsAreBounded
  <2>1. redirects * Hop \in Nat /\ Hop = MaxRedirects + 2
    BY <1>1, OneHopMore DEF FetchInv, TypeOK, Hop
  <2>2. requests <= redirects * Hop + Hop
    BY <1>1, <2>1 DEF FetchInv, TypeOK, SpentWithinHops, InRobots
  <2>3. redirects * Hop + Hop <= (MaxRedirects + 1) * (MaxRedirects + 2)
    BY <1>1, HopsAtMost DEF FetchInv, TypeOK
  <2> QED BY <1>1, <2>1, <2>2, <2>3 DEF FetchInv, TypeOK, RequestsAreBounded
<1> QED BY FetchKeepsInv, <1>1, PTL
=============================================================================
