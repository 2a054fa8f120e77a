--------------------------- MODULE MCHttpHandler ----------------------------
(* Instances of HttpHandler for TLC.                                       *)
EXTENDS HttpHandler

CONSTANTS w1, w2, c1, c2, p, q, notGiven

M == <<Slash, "m">>
V == <<Slash, "v">>

\* One path of each kind: the right one, a last slash, an empty name, an empty
\* version, a term too few and too many, none, one without a slash, and an
\* absolute one of three terms.
SomeUrls ==
  {M \o V, M \o V \o <<Slash>>, <<Slash>> \o V, M \o <<Slash>>, M, M \o V \o V,
   <<Slash>>, <<"*">>, <<"http:", Slash, Slash, "host">>}

=============================================================================
