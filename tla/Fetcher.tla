------------------------------- MODULE Fetcher -------------------------------
(***************************************************************************)
(* One call of Fetcher.Fetch (src/internal/fetcher/fetcher.go): the hops   *)
(* of a page through its redirects, the hops of robots.txt within each of  *)
(* them, and the reservation of the domain before every request.  Servers, *)
(* name resolution and the throttle answer as they like, name resolution   *)
(* differently each time it is asked.                                      *)
(***************************************************************************)
EXTENDS UrlPolicy, FiniteSets

CONSTANTS
  Url,            \* what clients and the Location of a page may name
  CrawlDelay,     \* what the robots.txt that speaks for a host asks for
  DomainDelay,    \* DOMAIN_DELAY_SECONDS
  MaxRedirects    \* MAX_REDIRECTS, of the page and of each robots.txt

\* robots.txt on the host of a page; it may redirect to any URL.
RobotsUrl(raw) == [NormalUrl(raw) EXCEPT !.rest = "robots"]
RobotsUrls == Url \cup {RobotsUrl(u) : u \in Url}
Host == {Hostname(u) : u \in RobotsUrls}

ASSUME DelayAssumption == CrawlDelay \in [Host -> Nat] /\ DomainDelay \in Nat
ASSUME RedirectsAssumption == MaxRedirects \in Nat
ASSUME NoneAssumption == None \notin RobotsUrls

VARIABLES
  respect, failClosed,  \* RESPECT_ROBOTS and ROBOTS_FAIL_CLOSED
  pc,
  url, redirects,       \* current and redirects of Fetch
  robotsUrl, robotsRedirects,  \* the same in robots
  pinned, robotsPinned, \* the first address of target and robotsTarget
  robotsStatus, delay,  \* what robots returned
  answer,               \* "page", or the kind of error
  \* history:
  validated, robotsValidated,  \* the URL and addresses approved last, in either loop
  cleared,              \* the URL robots decided about last
  slots,                \* reservations of a host less the requests to it
  gap,                  \* the delay reserved for the last page request
  requests,             \* requests sent
  dialed                \* the address the last one went to

settings == <<respect, failClosed>>
page == <<url, redirects>>
robots == <<robotsUrl, robotsRedirects>>
verdict == <<robotsStatus, delay, cleared>>
robotsApproved == <<robotsValidated, robotsPinned>>
approved == <<validated, pinned, robotsApproved>>
traffic == <<slots, gap, requests, dialed>>
vars == <<settings, pc, page, robots, verdict, answer, approved, traffic>>

NoApproval == [url |-> None, ips |-> {}]

Init ==
  /\ respect \in BOOLEAN /\ failClosed \in BOOLEAN
  /\ pc = "validate"
  /\ url \in Url /\ redirects = 0
  /\ robotsUrl = None /\ robotsRedirects = 0
  /\ robotsStatus = "unknown" /\ delay = 0 /\ cleared = None
  /\ answer = "none"
  /\ validated = NoApproval /\ robotsValidated = NoApproval
  /\ pinned = None /\ robotsPinned = None /\ dialed = None
  /\ slots = [h \in Host |-> 0] /\ gap = 0 /\ requests = 0

Fail(how) == answer' = how /\ pc' = "done"

\* The connection goes to the address pinned with the target, not to the name
\* and not to what was resolved last.
DialsLastResolved(ip) == {IF robotsPinned = None THEN ip ELSE robotsPinned}
Dials(ip) == {ip}

Sent(h, ip) == /\ slots' = [slots EXCEPT ![h] = @ - 1]
               /\ requests' = requests + 1
               /\ dialed' \in Dials(ip)
               /\ UNCHANGED gap

(***************************************************************************)
(* A hop of the page: the target is validated, then robots looks at it.    *)
(***************************************************************************)
FirstHopOnly == respect /\ redirects = 0
ChecksRobots == respect

Validate ==
  /\ pc = "validate" /\ Acceptable(url)
  /\ \E ips \in SUBSET Address :
       /\ AllPublic(ips) /\ pinned' \in ips
       /\ validated' = [url |-> url, ips |-> ips]
  /\ IF ChecksRobots
     THEN /\ robotsUrl' = RobotsUrl(url) /\ robotsRedirects' = 0
          /\ pc' = "robots_validate"
          /\ UNCHANGED verdict
     ELSE /\ robotsStatus' = "disabled" /\ delay' = 0
          /\ pc' = "reserve"
          /\ UNCHANGED <<robots, cleared>>
  /\ UNCHANGED <<settings, page, answer, robotsApproved, traffic>>

\* The URL is not acceptable or, whatever it is, does not resolve as it should.
Unsafe ==
  /\ pc \in {"validate", "robots_validate"}
  /\ Fail("fatal")
  /\ UNCHANGED <<settings, page, robots, verdict, approved, traffic>>

(***************************************************************************)
(* robots.                                                                 *)
(***************************************************************************)
RobotsValidate ==
  /\ pc = "robots_validate" /\ Acceptable(robotsUrl)
  /\ \E ips \in SUBSET Address :
       /\ AllPublic(ips) /\ robotsPinned' \in ips
       /\ robotsValidated' = [url |-> robotsUrl, ips |-> ips]
  /\ pc' = "robots_reserve"
  /\ UNCHANGED <<settings, page, robots, verdict, answer, validated, pinned, traffic>>

PageHost == Hostname(url)
RobotsDomain == Hostname(robotsUrl)

RobotsReserve ==
  /\ pc = "robots_reserve"
  /\ slots' = [slots EXCEPT ![RobotsDomain] = @ + 1]
  /\ pc' = "robots_request"
  /\ UNCHANGED <<settings, page, robots, verdict, answer, approved, gap, requests, dialed>>

OneMore(hops) == hops <= MaxRedirects
MayFollow(hops) == hops < MaxRedirects

RobotsRedirected(u) ==
  /\ pc = "robots_request" /\ MayFollow(robotsRedirects)
  /\ Sent(Hostname(robotsUrl), robotsPinned)
  /\ robotsUrl' = u /\ robotsRedirects' = robotsRedirects + 1
  /\ pc' = "robots_validate"
  /\ UNCHANGED <<settings, page, verdict, answer, approved>>

\* robots returns without an error: the page may be fetched.
Cleared(status, crawlDelay) ==
  /\ robotsStatus' = status /\ delay' = crawlDelay
  /\ cleared' = url
  /\ pc' = "reserve"
  /\ UNCHANGED answer

Closes == failClosed

\* No usable robots.txt: the request failed, a redirect was invalid or one too
\* many, the status was neither 2xx, 401, 403 nor 404, or the file was invalid.
RobotsUnavailable ==
  /\ pc = "robots_request"
  /\ Sent(Hostname(robotsUrl), robotsPinned)
  /\ IF Closes THEN Fail("fatal") /\ UNCHANGED verdict ELSE Cleared("unavailable", 0)
  /\ UNCHANGED <<settings, page, robots, approved>>

RobotsFound ==
  /\ pc = "robots_request"
  /\ Sent(Hostname(robotsUrl), robotsPinned)
  /\ Cleared("not_found", 0) \/ Cleared("allowed", CrawlDelay[Hostname(url)])
  /\ UNCHANGED <<settings, page, robots, approved>>

\* A refusal, or a file that is too large, is fatal; a file that broke off may
\* be tried again.
RobotsDenied(how) ==
  /\ pc = "robots_request"
  /\ Sent(Hostname(robotsUrl), robotsPinned)
  /\ Fail(how)
  /\ UNCHANGED <<settings, page, robots, verdict, approved>>

\* ReserveDomain failed, or the wait for the start was cancelled.
ReserveFails ==
  /\ pc \in {"robots_reserve", "reserve"}
  /\ Fail("retryable")
  /\ UNCHANGED <<settings, page, robots, verdict, approved, traffic>>

(***************************************************************************)
(* The request for the page.                                               *)
(***************************************************************************)
DomainGap == DomainDelay
Gap == IF delay > DomainDelay THEN delay ELSE DomainDelay

Reserve ==
  /\ pc = "reserve"
  /\ slots' = [slots EXCEPT ![Hostname(url)] = @ + 1]
  /\ gap' = Gap
  /\ pc' = "request"
  /\ UNCHANGED <<settings, page, robots, verdict, answer, approved, requests, dialed>>

StraightToRobots == IF respect THEN "robots_validate" ELSE "reserve"
NextHop == "validate"

Redirected(u) ==
  /\ pc = "request" /\ MayFollow(redirects)
  /\ Sent(Hostname(url), pinned)
  /\ url' = u /\ redirects' = redirects + 1
  /\ pc' = NextHop
  /\ UNCHANGED <<settings, robots, verdict, answer, approved>>

\* An answer that is not an HTML page, a broken connection, or a redirect that
\* has no Location, is invalid or is one too many.
PageFails(how) ==
  /\ pc = "request"
  /\ Sent(Hostname(url), pinned)
  /\ Fail(how)
  /\ UNCHANGED <<settings, page, robots, verdict, approved>>

PageRead ==
  /\ pc = "request"
  /\ Sent(Hostname(url), pinned)
  /\ pc' = "done" /\ answer' = "page"
  /\ UNCHANGED <<settings, page, robots, verdict, approved>>

Next == \/ Validate \/ Unsafe
        \/ RobotsValidate \/ RobotsReserve \/ RobotsUnavailable \/ RobotsFound
        \/ \E u \in Url : RobotsRedirected(u) \/ Redirected(u)
        \/ \E how \in {"retryable", "fatal"} : RobotsDenied(how) \/ PageFails(how)
        \/ ReserveFails \/ Reserve \/ PageRead

Spec == Init /\ [][Next]_vars

(***************************************************************************)
(* Properties.                                                             *)
(***************************************************************************)

\* Every variable keeps its type, and neither loop follows more than
\* MAX_REDIRECTS redirects.
TypeOK ==
  /\ respect \in BOOLEAN /\ failClosed \in BOOLEAN
  /\ pc \in {"validate", "robots_validate", "robots_reserve", "robots_request",
             "reserve", "request", "done"}
  /\ url \in Url /\ redirects \in 0..MaxRedirects
  /\ robotsUrl \in RobotsUrls \cup {None} /\ robotsRedirects \in 0..MaxRedirects
  /\ robotsStatus \in {"unknown", "disabled", "unavailable", "not_found", "allowed"}
  /\ delay \in Nat /\ gap \in Nat /\ requests \in Nat
  /\ answer \in {"none", "page", "retryable", "fatal"}
  /\ validated \in [url : Url \cup {None}, ips : SUBSET Address]
  /\ robotsValidated \in [url : RobotsUrls \cup {None}, ips : SUBSET Address]
  /\ pinned \in Address \cup {None} /\ robotsPinned \in Address \cup {None}
  /\ dialed \in Address \cup {None}
  /\ cleared \in Url \cup {None}
  /\ slots \in [Host -> Int]
  /\ pc \in {"robots_validate", "robots_reserve", "robots_request"} => robotsUrl # None

AboutToRequest == pc \in {"request", "done"} /\ (pc = "done" => answer = "page")

\* No request goes to a host without a reservation of that host made for it,
\* also where a page or a robots.txt has moved to another host.
EveryRequestIsReserved == \A h \in Host : slots[h] >= 0

\* What is requested is what the policy validated last, on every hop of both
\* loops, before the request and not after.
RequestedIsValidated ==
  /\ AboutToRequest => validated.url = url
  /\ pc = "robots_request" => robotsValidated.url = robotsUrl /\ validated.url = url

\* What a request is for, and the addresses the policy approved for a URL.
Wanted == IF pc = "robots_request" THEN robotsUrl ELSE url
ApprovedFor(u) == UNION {a.ips : a \in {x \in {validated, robotsValidated} : x.url = u}}

\* Every connection, of either loop, goes to an address that the policy approved
\* for the very URL that is requested, and to no other public address: not to
\* one approved for an earlier hop, nor to the one that robots resolved in
\* between, when the same name may have had another answer.
ConnectionsAreApproved ==
  [][requests' # requests =>
       Acceptable(Wanted) /\ dialed' \in Public \cap ApprovedFor(Wanted)]_vars

\* With RESPECT_ROBOTS every page, also after redirects, was cleared by a
\* robots.txt consulted for that very URL; with ROBOTS_FAIL_CLOSED by one that
\* could be read or does not exist.
PageWasCleared ==
  AboutToRequest /\ respect =>
    /\ cleared = url
    /\ failClosed => robotsStatus \in {"allowed", "not_found"}

\* A page of a host that asks for a longer delay gets it, and a delay asked for
\* by an earlier hop's host does not stick.
CrawlDelayIsKept ==
  AboutToRequest =>
    /\ gap >= DomainDelay
    /\ robotsStatus = "allowed" => gap >= CrawlDelay[Hostname(url)]
    /\ robotsStatus # "allowed" => gap = DomainDelay

\* Whatever the servers answer, a fetch sends no more requests than this: no
\* circle of redirects, of pages, robots files or both, keeps a worker for ever.
RequestsAreBounded == requests <= (MaxRedirects + 1) * (MaxRedirects + 2)
=============================================================================
