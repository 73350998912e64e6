------------------------------ MODULE UrlPolicy ------------------------------
(***************************************************************************)
(* Which URLs the worker takes, and in which form                          *)
(* (src/internal/security/urlpolicy.go).  A URL is                         *)
(* [wellFormed, scheme, user, name, dots, port, rest]: whether it parses   *)
(* and has a host that IDNA accepts, its scheme, whether it carries        *)
(* credentials, the labels of its host in lower-case ASCII with the number *)
(* of dots after them, the port if it names one, and the rest of it.       *)
(***************************************************************************)
EXTENDS Integers, SequencesExt

CONSTANTS
  AllowHTTP,       \* ALLOW_HTTP
  AllowedDomains,  \* ALLOWED_DOMAINS, as labels; none means any
  Address,         \* what the resolver may answer
  Public,          \* the addresses that isPublic accepts
  None

ASSUME AllowHTTPAssumption == AllowHTTP \in BOOLEAN
ASSUME PublicAssumption == Public \subseteq Address /\ None \notin Address

\* One dot after the name is dropped.
Hostname(raw) == [name |-> raw.name, dots |-> IF raw.dots > 0 THEN raw.dots - 1 ELSE 0]

Allowed(host) ==
  \/ AllowedDomains = {}
  \/ host.dots = 0 /\ \E d \in AllowedDomains : IsSuffix(d, host.name)

StandardPort(scheme) == IF scheme = "http" THEN 80 ELSE 443

Acceptable(raw) ==
  /\ raw.wellFormed
  /\ raw.scheme \in {"http", "https"}
  /\ raw.scheme = "http" => AllowHTTP
  /\ ~raw.user
  /\ Allowed(Hostname(raw))
  /\ raw.port \in {None, StandardPort(raw.scheme)}

\* The resolver answers, and every address it gives is public.
AllPublic(ips) == ips # {} /\ ips \subseteq Public

\* Target.URL of an acceptable URL.
NormalUrl(raw) == [raw EXCEPT !.dots = Hostname(raw).dots, !.port = None]
=============================================================================
