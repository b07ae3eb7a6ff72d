---------------------------- MODULE MCPollPasses ----------------------------
(* Finite values for the constants of PollPasses.                          *)
EXTENDS PollPasses, TLC

CONSTANTS g1, g2, s1, n1

OneShard == [g \in Guilds |-> s1]

\* One player with a name, but without the texts that the commands show.
NoTexts == {[online |-> TRUE, whole |-> FALSE, now |-> 1, sample |-> <<n1>>]}

\* With one shard the guilds are interchangeable.
GuildSymmetry == Permutations(Guilds)

=============================================================================
