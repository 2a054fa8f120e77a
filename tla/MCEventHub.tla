----------------------------- MODULE MCEventHub -----------------------------
(* Instances of EventHub for TLC.                                          *)
EXTENDS EventHub

CONSTANTS h1, h2, h3

=============================================================================
