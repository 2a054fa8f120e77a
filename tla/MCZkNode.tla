------------------------------ MODULE MCZkNode ------------------------------
(* Instances of ZkNode for TLC.                                            *)
EXTENDS ZkNode, TLC

CONSTANTS t1, t2, empty, short, zero, long, undefined

\* `zero` is data with a zero byte in it, `long` has 1024 bytes or more.
MCText == (empty :> empty) @@ (short :> short) @@ (zero :> short) @@ (long :> undefined)

ThreadSymmetry == Permutations({t1, t2})

=============================================================================
