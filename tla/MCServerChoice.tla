--------------------------- MODULE MCServerChoice ---------------------------
(* Instances of ServerChoice for TLC.                                      *)
EXTENDS ServerChoice, TLC

CONSTANTS a, b, c, p, q, w1, w2

MCViews == {{a, b, c}, {b, c}, {}}
MCRank  == (a :> 1) @@ (b :> 2) @@ (c :> 3)
MCConf  == (p :> <<a>>) @@ (q :> <<b, c>>)

=============================================================================
