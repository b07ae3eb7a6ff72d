----------------------------- MODULE PollPasses -----------------------------
(***************************************************************************)
(* StatusBot with a clock and a history of the pass main() is in.  Guilds  *)
(* join, leave and are changed at any time, also during a pass; the        *)
(* history records when a new node may have rehashed the map that the      *)
(* range-for walks.                                                        *)
(***************************************************************************)
EXTENDS StatusBot

VARIABLES
  since,     \* history: seconds of countdown since the last request for a guild
  rehashed,  \* history: a guild has joined since the pass began
  owed       \* history: the guilds that had an address when the pass began

passVars == <<vars, since, rehashed, owed>>

Requests(g) == pc = "write" /\ pc' = "wait" /\ cur = g

SecondPasses == pc = "sleep" /\ ticks' # ticks

PassBegins == pc = "top" /\ pc' = "next"

PassEnds == pc # "sleep" /\ pc' = "sleep"

GuildJoins == ~(DOMAIN programinfos' \subseteq DOMAIN programinfos)

Clock ==
  since' = [g \in Guilds |->
              IF Requests(g) THEN 0
              ELSE IF SecondPasses /\ since[g] < UpdateTime THEN since[g] + 1
              ELSE since[g]]

PassHistory ==
  /\ rehashed' = (~PassBegins /\ (rehashed \/ (Iterating /\ GuildJoins)))
  /\ owed' = IF PassBegins THEN {g \in Guilds : Configured(g)} ELSE owed

PassInit ==
  /\ Init
  /\ since = [g \in Guilds |-> UpdateTime]
  /\ rehashed = FALSE /\ owed = {}

PassNext == Next /\ Clock /\ PassHistory

PassSpec == PassInit /\ [][PassNext]_passVars

-----------------------------------------------------------------------------

\* The history variables count at most the seconds between two passes.
PassTypeOK ==
  /\ TypeOK
  /\ since \in [Guilds -> 0..UpdateTime]
  /\ rehashed \in BOOLEAN /\ owed \subseteq Guilds

\* README: the bot sends requests every 120 seconds.  For one guild: the next
\* request is sent only UpdateTime seconds after the last one, also while guilds
\* leave, come back and are changed under the pass; a join may rehash the map, and
\* then the same pass may come to a guild again.
SpacedPerGuild == pc = "write" /\ ~rehashed => since[cur] = UpdateTime

\* A pass leaves no guild out: when main() goes to sleep, every guild that had an
\* address when the pass began, and has not left, has been asked about, whatever
\* order the map has them in and whoever left or was changed on the way; a join
\* may rehash the map, and guilds may be passed over.
PassAsksAll ==
  [][PassEnds /\ ~rehashed =>
       \A g \in owed : Configured(g) => since[g] = 0]_passVars

=============================================================================
