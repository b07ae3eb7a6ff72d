---------------------------- MODULE MCAutoUpdates ----------------------------
(* Finite values for the constants of AutoUpdates.                         *)
EXTENDS AutoUpdates

CONSTANTS g1, s1, n1

OneShard == [g \in Guilds |-> s1]

FullReport == {[online |-> TRUE, whole |-> TRUE, now |-> 1, sample |-> <<n1>>]}

=============================================================================
