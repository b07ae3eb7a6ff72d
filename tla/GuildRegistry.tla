---------------------------- MODULE GuildRegistry ----------------------------
(***************************************************************************)
(* What the two maps of the program are meant to be together: one registry *)
(* with one entry for each guild the bot serves.  A guild joins with a     *)
(* fresh entry and leaves with all of it, each at one moment; in between   *)
(* the entry of one guild changes in one field at a time, and only while   *)
(* it is there.  StatusBot implements this with two maps, no lock, and     *)
(* handlers that enter and leave the maps one after the other.             *)
(***************************************************************************)
CONSTANTS
  Guilds, Channels, Ips, Ports,
  Snapshots,   \* the answers of the API
  None

VARIABLE registry

Served == DOMAIN registry

Fresh == [channelid |-> None, autoenabled |-> FALSE,
          serverip |-> None, serverport |-> None, webrequest |-> None,
          oldserver |-> None, serverdata |-> None]

Init == registry = [g \in {} |-> Fresh]

Join(g) ==
  /\ g \notin Served
  /\ registry' = [k \in Served \cup {g} |-> IF k = g THEN Fresh ELSE registry[k]]

Leave(g) ==
  /\ g \in Served
  /\ registry' = [k \in Served \ {g} |-> registry[k]]

\* One field of one entry gets one of these values; the rest stays.
Sets(g, field, values) ==
  /\ Served' = Served
  /\ registry'[g][field] \in values
  /\ registry' = [registry EXCEPT ![g][field] = registry'[g][field]]

Command(g) ==
  \/ Sets(g, "channelid", Channels)
  \/ Sets(g, "autoenabled", BOOLEAN)
  \/ Sets(g, "serverip", Ips)
  \/ Sets(g, "serverport", Ports)

\* Of /change as well as of main().
MakeRequest(g) ==
  Sets(g, "webrequest",
       {[ip |-> registry[g].serverip, port |-> registry[g].serverport]})

\* main() stores an answer, and later remembers it.
Poll(g) ==
  /\ registry[g].serverip # None
  /\ \/ Sets(g, "serverdata", Snapshots)
     \/ Sets(g, "oldserver", {registry[g].serverdata})

Next ==
  \/ \E g \in Guilds : Join(g)
  \/ \E g \in Served : Leave(g) \/ Command(g) \/ MakeRequest(g) \/ Poll(g)

Spec == Init /\ [][Next]_registry

=============================================================================
