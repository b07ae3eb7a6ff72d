----------------------------- MODULE MCStatusBot -----------------------------
(* Finite values for the constants of StatusBot.                           *)
EXTENDS StatusBot, TLC

CONSTANTS g1, g2, s1, s2, n1

OneShard  == [g \in Guilds |-> s1]
TwoShards == [g \in Guilds |-> IF g = g1 THEN s1 ELSE s2]

Nobody  == [online |-> FALSE, whole |-> TRUE, now |-> 0, sample |-> <<>>]
OnePlayer == [online |-> TRUE, whole |-> TRUE, now |-> 1, sample |-> <<n1>>]

\* An answer with a name for every player; one of a server that is offline.
FullReport == {OnePlayer}
TwoCounts  == {Nobody, OnePlayer}

\* With one shard the guilds are interchangeable.
GuildSymmetry == Permutations(Guilds)

\* With a shard each, they are together with their shards.
PairSymmetry ==
  {p \in Permutations(Guilds \cup Shards) :
     \A g \in Guilds : p[g] \in Guilds /\ p[ShardOf[g]] = ShardOf[p[g]]}

=============================================================================
