------------------------------ MODULE BotState ------------------------------
(***************************************************************************)
(* The memory that the threads of MCServerStatusBot share: the two         *)
(* per-guild maps of network.hpp and botresponses.hpp, the read buffers of *)
(* network.cpp, and the position of each thread in its code.  The actions  *)
(* are in GuildEvents (the threads of the Discord library) and PollLoop    *)
(* (main, the asio context thread, the stop-key thread); StatusBot         *)
(* composes them.                                                          *)
(***************************************************************************)
EXTENDS Integers, Sequences

CONSTANTS
  Guilds,       \* ids of the Discord servers the bot may be a member of
  Shards,       \* threads of the Discord library that run event handlers
  ShardOf,      \* the one shard on which the events of a guild arrive
  Ips, Ports,   \* what an admin may pass to /change
  Channels,     \* channels in which /home may be called
  SlashCommands, \* the slash commands that are called
  Names,        \* names of players
  Reports,      \* what the API may answer about a server
  UpdateTime,   \* API_UPDATE_TIME_S (include.hpp), in ticks of one second
  None          \* an empty string, a null json, channel id 0, no guild

Request == [ip : Ips, port : Ports \cup {None}]

\* What the program reads of an API answer: ["online"]; whether the other texts and
\* numbers the commands show are there (whole); ["players"]["now"]; and the names in
\* ["players"]["sample"], up to the first entry without one.  None: missing.
Report == [online : BOOLEAN \cup {None}, whole : BOOLEAN,
           now : Nat \cup {None}, sample : Seq(Names)]

\* A parsed answer, with the address it is about.
Snapshot == [about : Request, says : Report]

ProgramInfo == [serverip   : Ips \cup {None},
                serverport : Ports \cup {None},
                webrequest : Request \cup {None},
                oldserver  : Snapshot \cup {None},
                serverdata : Snapshot \cup {None}]

Bot == [channelid : Channels \cup {None}, autoenabled : BOOLEAN]

NewProgramInfo == [serverip |-> None, serverport |-> None, webrequest |-> None,
                   oldserver |-> None, serverdata |-> None]

NewBot == [channelid |-> None, autoenabled |-> FALSE]

ASSUME ConstantsAssumption ==
  /\ ShardOf \in [Guilds -> Shards]
  /\ Reports \subseteq Report
  /\ UpdateTime \in Nat \ {0}
  /\ None \notin Guilds \cup Ips \cup Ports \cup Channels \cup Names \cup Nat
  /\ None \notin Request
  /\ None \notin Snapshot

VARIABLES
  status,        \* "running", or how the process has ended
  programinfos,  \* map guild -> ProgramInfo
  bots,          \* map guild -> Bot
  cache,         \* external: the guilds for which dpp::find_guild is not null
  handler,       \* what each shard thread is executing
  mainloop,      \* programinfotype::mainloop
  pc,            \* the statement main() is about to execute
  cur,           \* the guild the range-for iterator of main() stands on
  dangling,      \* its map node has been erased: the iterator dangles
  pending,       \* guilds the range-for has yet to reach in this pass
  ticks,         \* i, the countdown between two passes
  ebd,           \* the embed of the automatic message sendautomsg is making
  posted,        \* the automatic message main() has just created
  isdone,        \* the flag by which the context thread wakes main()
  reading,       \* an async_read_some is outstanding
  asked,         \* the request the API has received on this connection
  readbuf        \* the parsed meaning of readbuf (None: not a JSON text)

regVars  == <<programinfos, bots>>
iterVars == <<cur, dangling, pending>>
msgVars  == <<ebd, posted>>
netVars  == <<isdone, reading, asked, readbuf>>

vars == <<status, programinfos, bots, cache, handler, mainloop, pc, cur,
          dangling, pending, ticks, ebd, posted, isdone, reading, asked, readbuf>>

-----------------------------------------------------------------------------
(* std::unordered_map: emplace leaves an existing entry alone.             *)

Emplace(map, key, value) ==
  [k \in DOMAIN map \cup {key} |-> IF k \in DOMAIN map THEN map[k] ELSE value]

\* Mutant: the node stays in the map.
EraseNothing(map, key) == map

Erase(map, key) == [k \in DOMAIN map \ {key} |-> map[k]]

\* Mutant: the port is left out of the request.
MakeRequestWithoutPort(g) == [ip |-> programinfos[g].serverip, port |-> None]

\* makerequest: the address as it stands in the map, the port only when set.
MakeRequest(g) ==
  [ip |-> programinfos[g].serverip, port |-> programinfos[g].serverport]

-----------------------------------------------------------------------------
(* Where main() is.                                                        *)

\* Statements executed for the guild under the iterator.
Visit == {"check", "connect", "start", "request", "write", "wait", "parse",
          "automsg", "send", "save"}
Pass     == Visit \cup {"top", "next"}
Shutdown == {"stopio", "shutdown", "joinstop"}
MainPc   == Pass \cup Shutdown \cup {"resolve", "sleep"}

\* The range-for has been entered and not left.
Iterating == pc \in Visit \cup {"next"}

Running == status = "running"

Statuses == {"running", "returned", "exited", "terminated", "undefined"}

\* The process ends, or its behaviour is no longer defined.
Halt(how) ==
  /\ status' = how
  /\ UNCHANGED <<regVars, cache, handler, mainloop, pc, iterVars, ticks, msgVars,
                 netVars>>

=============================================================================
