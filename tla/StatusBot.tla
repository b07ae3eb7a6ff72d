------------------------------ MODULE StatusBot ------------------------------
(***************************************************************************)
(* The whole process: the event handlers of GuildEvents on the shard       *)
(* threads, and main(), the asio context thread and the stop-key thread of *)
(* PollLoop, over the shared memory of BotState.                           *)
(***************************************************************************)
EXTENDS GuildEvents, PollLoop

Init ==
  /\ status = "running"
  /\ programinfos = [g \in {} |-> NewProgramInfo]
  /\ bots = [g \in {} |-> NewBot]
  /\ cache = {}
  /\ handler = [s \in Shards |-> Idle]
  /\ mainloop = TRUE
  /\ pc = "resolve"
  /\ cur = None
  /\ dangling = FALSE
  /\ pending = {}
  /\ ticks = 0
  /\ ebd = None
  /\ posted = None
  /\ isdone = FALSE
  /\ reading = FALSE
  /\ asked = None
  /\ readbuf = None

-----------------------------------------------------------------------------
(* Data races.  Nothing guards the maps: two threads are about to touch    *)
(* the same object, one of them to modify it.                              *)

InfoUsers   == InfoWriters \cup Changes \cup InfoReads
BotUsers    == BotWriters \cup Commands

\* main() walks or searches the map (LoopTest takes begin()).
MainUsesInfos == pc \in {"top", "next", "request", "automsg"}
MainUsesBots  == pc \in {"automsg", "send"}

\* main() uses the strings of the entry that /change is assigning.
MainUsesString(at) ==
  \/ at = "changeIp"      /\ pc \in {"check", "request", "automsg"}
  \/ at = "changePort"    /\ pc = "request"
  \/ at = "changeRequest" /\ pc \in {"request", "write"}

\* operator[] of a field that is missing inserts a null.
Lacks(server) ==
  /\ server # None
  /\ \/ server.says.online = None \/ ~server.says.whole
     \/ server.says.now \notin 0..Len(server.says.sample)

\* main() uses the latest answer of guild g while an information command reads it;
\* one of them writes: main() by the assignment, either by an inserted null.
MainUsesData(g) ==
  \/ pc = "parse"
  \/ pc \in {"automsg", "save"} /\ g \in DOMAIN programinfos /\ Lacks(Data(g))

DataRace ==
  \E s \in Shards :
    \/ /\ handler[s].at \in InfoWriters
       /\ MainUsesInfos \/ \E o \in Shards \ {s} : handler[o].at \in InfoUsers
    \/ /\ handler[s].at \in BotWriters
       /\ MainUsesBots \/ \E o \in Shards \ {s} : handler[o].at \in BotUsers
    \/ handler[s].guild = cur /\ \/ MainUsesString(handler[s].at)
                                 \/ handler[s].at \in InfoReads /\ MainUsesData(cur)

\* One outcome of a race is the interleaving the other actions describe; any
\* other is collected in "undefined".
RaceBites == Running /\ DataRace /\ Halt("undefined")

-----------------------------------------------------------------------------

\* The process has ended.
Ended == ~Running /\ UNCHANGED vars

Next ==
  \/ \E g \in Guilds : Event(g) \/ HandlerStep(g)
  \/ MainStep
  \/ NetworkStep
  \/ StopKey
  \/ RaceBites
  \/ Ended

Spec == Init /\ [][Next]_vars

\* Every thread of the process is scheduled; a handler once started returns.
ThreadFairness ==
  WF_vars(MainStep) /\ \A g \in Guilds : WF_vars(HandlerStep(g))

\* The API, asked for "Connection: close", ends the stream sooner or later.
ServerFairness == WF_vars(ReadFinished \/ ReadFailed)

ThreadSpec == Spec /\ ThreadFairness

FairSpec == Spec /\ ThreadFairness /\ ServerFairness

-----------------------------------------------------------------------------
(* Safety.                                                                 *)

HandlerState == [at : Steps \cup {"idle"}, guild : Guilds \cup {None},
                 arg : Request \cup Channels \cup {None},
                 info : InfoCommands \cup {None}, playersnow : Nat \cup {None}]

\* Every variable has a value of its C++ type.
TypeOK ==
  /\ status \in Statuses
  /\ DOMAIN programinfos \subseteq Guilds
  /\ \A g \in DOMAIN programinfos : programinfos[g] \in ProgramInfo
  /\ DOMAIN bots \subseteq Guilds
  /\ \A g \in DOMAIN bots : bots[g] \in Bot
  /\ cache \subseteq Guilds
  /\ handler \in [Shards -> HandlerState]
  /\ mainloop \in BOOLEAN
  /\ pc \in MainPc
  /\ cur \in Guilds \cup {None}
  /\ dangling \in BOOLEAN
  /\ pending \subseteq Guilds
  /\ ticks \in 0..UpdateTime
  /\ ebd \in [joined : BOOLEAN, names : SUBSET Names] \cup {None}
  /\ posted \in [guild : Guilds, channelid : Channels \cup {None}] \cup {None}
  /\ isdone \in BOOLEAN
  /\ reading \in BOOLEAN
  /\ asked \in Request \cup {None}
  /\ readbuf \in Snapshot \cup {None}

\* A guild with an address has a bots entry, also between the two map updates
\* of on_guild_create and of on_guild_delete: sendautomsg, which asks bots for a
\* guild because programinfos has an address for it, finds one.
ConfiguredHasBot ==
  \A g \in DOMAIN programinfos :
    programinfos[g].serverip # None => g \in DOMAIN bots

\* The lookups of a handler succeed: at() does not throw for the commands and
\* erase() is never given end(), because the events of a guild are serialised
\* and each handler leaves both maps with the guild or without it.
HandlersFindTheirGuild ==
  \A g \in Guilds :
    /\ Busy(g, InfoUsers \ {"emplaceInfo"}) => g \in DOMAIN programinfos
    /\ Busy(g, Commands \cup {"eraseInfo", "eraseBot"}) => g \in DOMAIN bots

\* readbuf, tempbuf and hasreadhttpheader belong to the context thread while a
\* read is outstanding and to main() otherwise: main() clears and parses them
\* only with no read outstanding, and stops the io_context only then.
BufferHandoff ==
  reading => pc \in {"request", "write", "wait"} /\ ~isdone

\* sendautomsg tests channelid and reads it again for message_create: unless the
\* entry was erased in between, the message goes to a channel.
NeverPostsToNoChannel ==
  posted # None /\ ~dangling => posted.channelid # None

\* "New people have joined the server!" and "People have left the server!" are
\* said of one server: both counts a message is made from are about the same
\* address.
ComparesOneServer ==
  pc = "send" /\ ~dangling /\ programinfos[cur].oldserver # None =>
    programinfos[cur].oldserver.about = programinfos[cur].serverdata.about

\* The promise of main() (Transfer): it asks for a read only when the last one is
\* over, and what it parses cannot change any more.
T == INSTANCE Transfer WITH text <- readbuf, Texts <- Snapshot, NoText <- None

FollowsTransfer == T!Spec

\* The two maps behave as one (GuildRegistry): a guild is served from the moment both
\* maps know it until the first of them does not, an entry starts afresh also when the
\* guild comes back, and nothing is written to a guild that is not served.
OneMap ==
  [g \in DOMAIN programinfos \cap DOMAIN bots |->
     [channelid   |-> bots[g].channelid,
      autoenabled |-> bots[g].autoenabled,
      serverip    |-> programinfos[g].serverip,
      serverport  |-> programinfos[g].serverport,
      webrequest  |-> programinfos[g].webrequest,
      oldserver   |-> programinfos[g].oldserver,
      serverdata  |-> programinfos[g].serverdata]]

R == INSTANCE GuildRegistry WITH registry <- OneMap, Snapshots <- Snapshot

ActAsOneMap == R!Spec

-----------------------------------------------------------------------------
(* The inductive invariant behind these.                                   *)

\* The handler on a shard serves a guild of that shard with a fitting argument.
HandlersServe ==
  \A s \in Shards :
    LET h == handler[s] IN
    IF h.at = "idle"
    THEN h = Idle
    ELSE /\ h.guild \in Guilds /\ ShardOf[h.guild] = s
         /\ h.at = "home" => h.arg \in Channels
         /\ h.at \in Changes => h.arg \in Request
         /\ h.at \in InfoReads => h.info \in InfoCommands
         /\ h.at = "names" => h.playersnow \in Nat

Stage(g) == IF handler[ShardOf[g]].guild = g THEN handler[ShardOf[g]].at ELSE "idle"

\* Which of the two maps know a guild, by the stage of the handler that serves
\* it.  While it is being added or removed the maps may differ; when no handler
\* is half-way through they agree with each other and with the library's cache.
MapsAgree ==
  \A g \in Guilds :
    LET known == g \in DOMAIN programinfos
        bot   == g \in DOMAIN bots
    IN  /\ Stage(g) = "emplaceInfo" => g \in cache /\ (known <=> bot)
        /\ Stage(g) = "emplaceBot" =>
             g \in cache /\ known /\ (bot \/ programinfos[g].serverip = None)
        /\ Stage(g) = "eraseInfo" => g \notin cache /\ known /\ bot
        /\ Stage(g) = "eraseBot" => g \notin cache /\ ~known /\ bot
        /\ Stage(g) \notin InfoWriters \cup BotWriters =>
             (known <=> bot) /\ (known <=> g \in cache)

\* A command is served for a guild that is in both maps; once /change has stored
\* the address there is one.
CommandsHaveGuild ==
  \A g \in Guilds :
    /\ Stage(g) \in Commands \cup Changes \cup InfoReads => g \in cache
    /\ Stage(g) \in {"changePort", "changeRequest"} =>
         programinfos[g].serverip # None

\* While the iterator of main() does not dangle, it stands on an entry of
\* programinfos, with an address from "connect" on, and what the pass has yet to
\* reach are entries too.
IteratorValid ==
  /\ pending \subseteq DOMAIN programinfos
  /\ pc \in Visit => cur \in Guilds
  /\ pc \in Visit /\ ~dangling => cur \in DOMAIN programinfos
  /\ pc \in Visit \ {"check"} /\ ~dangling => programinfos[cur].serverip # None
  /\ pc = "send" /\ ~dangling => bots[cur].channelid # None
  /\ pc = "sleep" => ticks > 0

\* Once an information command has found an answer, there is one to read until the
\* command has replied: main() may put a later one in its place but never takes it
\* away, a GUILD_CREATE after a reconnection leaves the entry alone, and no event
\* of the guild overtakes the command.
CommandsReadData ==
  \A g \in Guilds :
    Stage(g) \in DataReads =>
      g \in DOMAIN programinfos /\ programinfos[g].serverdata # None

\* A guild that is not in bots yet has nothing in programinfos but a new entry:
\* neither a command of the guild nor main() gets at it in between.
JoinsFresh ==
  \A g \in Guilds :
    Stage(g) = "emplaceBot" /\ g \notin DOMAIN bots =>
      programinfos[g] = NewProgramInfo

\* main() waits for nothing that cannot come any more: it spins on isdone only while
\* a read is under way that will set it, or once it is set; and it stops the other
\* threads only when the stop thread, which it joins last, has seen the key.
NeverWaitsInVain ==
  /\ pc \in {"request", "write", "wait"} => reading \/ isdone
  /\ pc \in Shutdown => ~mainloop

\* The guild main() stands on has left, or is about to: it is gone from the library's
\* cache.
VisitedLeft == dangling \/ (pc = "check" /\ cur \notin cache)

\* sendautomsg has an announcement to make, and an answer that lacks what it takes.
Unreadable ==
  /\ pc = "automsg"
  /\ cur \in DOMAIN bots \cap DOMAIN programinfos
  /\ Wanted(cur) /\ ~Readable(cur)

\* A field an information command reads is missing from the answer, or main() has put
\* another answer in its place after the command had counted the players.
CommandFails(g) ==
  /\ Stage(g) \in DataReads
  /\ \/ Lacks(Data(g))
     \/ Stage(g) = "names" /\ handler[ShardOf[g]].playersnow # Data(g).says.now

\* A lookup that fails or a value that is not there, where main() or a command needs it.
Throwing ==
  \/ pc \in {"request", "automsg", "send"} /\ dangling
  \/ pc = "parse" /\ readbuf = None
  \/ Unreadable
  \/ \E g \in Guilds : CommandFails(g)

\* Guilds that join, leave and are changed while main() is on its way bring down the
\* process in two ways only: by a race of two accesses, or when the very guild that
\* main() stands on leaves.  The iterator survives every other erase, emplace and rehash,
\* and at() finds what main() looks up, in both maps; all other exceptions come of an
\* answer: one that is no JSON text, one that lacks a field where it is read, or two
\* that a command has mixed.
FailuresAccounted ==
  /\ status = "undefined" => DataRace \/ VisitedLeft
  /\ status = "terminated" => Throwing

CoreInv == /\ TypeOK /\ HandlersServe /\ MapsAgree /\ CommandsHaveGuild
           /\ IteratorValid /\ BufferHandoff /\ NeverPostsToNoChannel

IInv == CoreInv /\ CommandsReadData /\ JoinsFresh /\ NeverWaitsInVain

-----------------------------------------------------------------------------
(* The way to the end.                                                     *)

\* Statements main() has yet to execute for the guild it stands on, and then to end,
\* once the key has been read.
StatementsLeft ==
  [check |-> 15, connect |-> 14, start |-> 13, request |-> 12, write |-> 11, wait |-> 10,
   parse |-> 9, automsg |-> 8, send |-> 7, save |-> 6, next |-> 5, resolve |-> 5,
   sleep |-> 4, top |-> 4, stopio |-> 3, shutdown |-> 2, joinstop |-> 1]

StepsLeft == StatementsLeft[pc] + 11 * Cardinality(pending)

\* After the key each step of main() brings it nearer to the end: it finishes the pass
\* it is in and begins no other, nor another second of the countdown.  Nobody sets it
\* back, but a guild that joins meanwhile.
QuitCountsDown ==
  [][~mainloop =>
       \/ status' # "running"
       \/ UNCHANGED <<pc, pending, ticks>>
       \/ StepsLeft' < StepsLeft
       \/ ~(DOMAIN programinfos' \subseteq DOMAIN programinfos)]_vars

-----------------------------------------------------------------------------
(* Liveness, under FairSpec.                                               *)

\* A handler that writes to the maps is under way on some shard.
Disturbing ==
  \E s \in Shards : handler[s].at \in InfoWriters \cup BotWriters \cup Changes

Calm == <>[]~Disturbing

\* The banner's "Press q/Q and ENTER to exit": the process ends once the key has
\* been read, if guilds and addresses stop changing.
QuitEnds == Calm => (~mainloop ~> status # "running")

\* A guild that keeps its address is asked about again and again, for as long as
\* the process runs.
Configured(g) ==
  g \in DOMAIN programinfos /\ programinfos[g].serverip # None

EveryGuildPolled ==
  Calm => \A g \in Guilds :
            Configured(g) ~> \/ cur = g /\ pc = "write"
                             \/ ~Configured(g) \/ ~mainloop \/ status # "running"

=============================================================================
