--------------------------- MODULE MCAnnouncements ---------------------------
(* Finite values for the constants of Announcements.                       *)
EXTENDS Announcements, TLC

CONSTANTS g1, s1, n1, n2

OneShard == [g \in Guilds |-> s1]

Report1(now, sample) == [online |-> TRUE, whole |-> TRUE, now |-> now, sample |-> sample]

\* Nobody; one player, another one, one without a name; both, and twice the same
\* name; no count at all.
MixedReports ==
  {Report1(0, <<>>), Report1(1, <<n1>>), Report1(1, <<n2>>), Report1(1, <<>>),
   Report1(2, <<n1, n2>>), Report1(2, <<n1, n1>>), Report1(None, <<>>)}

NameSymmetry == Permutations(Names)

=============================================================================
