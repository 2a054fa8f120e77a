--------------------------- MODULE MCClusterAdmin ---------------------------
(* Instances of ClusterAdmin for TLC.                                      *)
EXTENDS ClusterAdmin, TLC

CONSTANTS h1, h2, h3, a, b, x

MCNames     == {a, b, x}
MCAddresses == {a, b}          \* x is a name without ':'
MCViews     == {{a}, {b, x}, {x}}
TwoViews    == {{a}, {b, x}}

AllFaults == {"noNode", "timeout", "marshalling", "init", "stop"}
Timeouts  == {"timeout"}

\* Handles differ in nothing; for the runs without liveness.
HandleSymmetry == Permutations(Handles)

=============================================================================
