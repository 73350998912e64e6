----------------------------- MODULE MC_Fetcher -----------------------------
(***************************************************************************)
(* An instance of Fetcher for TLC: pages on two hosts, one of which asks   *)
(* for a longer delay, and one URL for each rule of the policy that it     *)
(* breaks.                                                                 *)
(***************************************************************************)
EXTENDS Fetcher

At(name, rest) == [wellFormed |-> TRUE, scheme |-> "https", user |-> FALSE,
                   name |-> name, dots |-> 0, port |-> None, rest |-> rest]

Slow == <<"slow", "example">>
Fast == <<"www", "fast", "example">>

\* The last page has its host in another spelling.
Pages == {At(Slow, "a"), At(Fast, "b"), [At(Slow, "c") EXCEPT !.dots = 1, !.port = 443]}

Refused == {
  [At(Slow, "a") EXCEPT !.wellFormed = FALSE],
  [At(Slow, "a") EXCEPT !.scheme = "http"],
  [At(Slow, "a") EXCEPT !.user = TRUE],
  [At(Slow, "a") EXCEPT !.dots = 2],
  [At(Slow, "a") EXCEPT !.port = 80],
  At(<<"example">>, "a")}

SomeUrls == Pages \cup Refused
SomeDomains == {Slow, <<"fast", "example">>}
AskedDelay == [h \in Host |-> IF h.name = Slow THEN 3 ELSE 0]
=============================================================================
