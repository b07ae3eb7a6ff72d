--------------------------- MODULE StatusBotProofs ---------------------------
(***************************************************************************)
(* Proofs that IInv of StatusBot is inductive and implies the safety       *)
(* invariants of the module, for all values of the constants.              *)
(***************************************************************************)
EXTENDS StatusBot, TLAPS, FiniteSetTheorems

\* The sets of handler statements are expanded wherever they occur.
USE DEF InfoWriters, BotWriters, Commands, Changes, InfoReads, DataReads

-----------------------------------------------------------------------------
(* Frame lemmas.                                                           *)

\* No handler, cache or bots entry changes and no guild enters or leaves
\* programinfos or gets another address: the relation of the maps stays as it is.
LEMMA MapsFrame ==
  ASSUME HandlersServe, MapsAgree, CommandsHaveGuild,
         UNCHANGED <<handler, cache, bots>>,
         DOMAIN programinfos' = DOMAIN programinfos,
         \A g \in DOMAIN programinfos :
           programinfos'[g].serverip = programinfos[g].serverip
  PROVE  HandlersServe' /\ MapsAgree' /\ CommandsHaveGuild'
<1>1. HandlersServe'
  BY DEF HandlersServe
<1>2. \A g \in Guilds : Stage(g)' = Stage(g)
  BY DEF Stage
<1>3. MapsAgree'
  BY <1>2 DEF MapsAgree
<1>4. CommandsHaveGuild'
  BY <1>2, MapsAgree DEF CommandsHaveGuild, MapsAgree
<1> QED
  BY <1>1, <1>3, <1>4

\* The end of the process changes nothing but its status.
LEMMA HaltPreserves ==
  ASSUME CoreInv, NEW how \in Statuses, Halt(how)
  PROVE  CoreInv'
<1> USE DEF CoreInv, Halt, HandlersUntouched, regVars, iterVars, netVars, msgVars
<1>1. TypeOK'
  BY DEF TypeOK
<1>2. HandlersServe' /\ MapsAgree' /\ CommandsHaveGuild'
  BY MapsFrame
<1>3. IteratorValid' /\ BufferHandoff' /\ NeverPostsToNoChannel'
  BY DEF IteratorValid, BufferHandoff, NeverPostsToNoChannel
<1> QED
  BY <1>1, <1>2, <1>3

\* What a step does to the handler of one guild is no stage of another guild.
LEMMA OtherStages ==
  ASSUME TypeOK, NEW g \in Guilds, NEW k \in Guilds, k # g,
         handler[ShardOf[g]].guild \in {g, None},
         handler'[ShardOf[g]].guild \in {g, None},
         \A s \in Shards \ {ShardOf[g]} : handler'[s] = handler[s]
  PROVE  Stage(k)' = Stage(k)
<1>1. None \notin Guilds /\ ShardOf[g] \in Shards /\ ShardOf[k] \in Shards
  BY ConstantsAssumption
<1>2. handler \in [Shards -> HandlerState]
  BY DEF TypeOK
<1>3. CASE ShardOf[k] = ShardOf[g]
  BY <1>1, <1>2, <1>3 DEF Stage
<1>4. CASE ShardOf[k] # ShardOf[g]
  BY <1>1, <1>2, <1>4 DEF Stage
<1> QED
  BY <1>3, <1>4
-----------------------------------------------------------------------------
(* The initial state.                                                      *)

LEMMA InitEstablishes == Init => IInv
<1> SUFFICES ASSUME Init PROVE IInv
  OBVIOUS
<1> USE ConstantsAssumption DEF Init
<1>1. TypeOK
  <2>1. handler \in [Shards -> HandlerState]
    BY DEF HandlerState, Idle
  <2>2. DOMAIN programinfos = {} /\ DOMAIN bots = {}
    OBVIOUS
  <2>3. ticks \in 0..UpdateTime /\ status \in Statuses /\ pc \in MainPc
    BY DEF Statuses, MainPc
  <2> QED
    BY <2>1, <2>2, <2>3 DEF TypeOK
<1>2. HandlersServe
  BY DEF HandlersServe, Idle
<1>3. \A g \in Guilds : Stage(g) = "idle"
  BY DEF Stage, Idle
<1>4. MapsAgree /\ CommandsHaveGuild
  BY <1>3 DEF MapsAgree, CommandsHaveGuild
<1>5. IteratorValid /\ BufferHandoff /\ NeverPostsToNoChannel
  BY DEF IteratorValid, BufferHandoff, NeverPostsToNoChannel, Visit
<1>6. CommandsReadData
  BY <1>3 DEF CommandsReadData
<1>7. JoinsFresh /\ NeverWaitsInVain
  BY <1>3 DEF JoinsFresh, NeverWaitsInVain, Shutdown
<1> QED
  BY <1>1, <1>2, <1>4, <1>5, <1>6, <1>7 DEF IInv, CoreInv

-----------------------------------------------------------------------------
(* Steps of the shard threads.                                             *)

\* An event is delivered only to an idle shard, and changes nothing but the
\* handler and, for the two guild events, the cache.
LEMMA EventPreserves ==
  ASSUME CoreInv, NEW g \in Guilds, Event(g)
  PROVE  CoreInv'
<1> USE ConstantsAssumption DEF CoreInv
<1>1. PICK at \in Steps, arg \in Request \cup Channels \cup {None},
           info \in InfoCommands \cup {None} :
        /\ Deliver(g, at, arg, info)
        /\ at = "home" => arg \in Channels
        /\ at \in Changes => arg \in Request
        /\ at \in InfoReads => info \in InfoCommands
        /\ at \in {"emplaceInfo", "eraseInfo", "changeIp", "isnull"} \cup Commands
        /\ at # "emplaceInfo" => g \in cache
        /\ cache' = IF at = "emplaceInfo" THEN cache \cup {g}
                    ELSE IF at = "eraseInfo" THEN cache \ {g} ELSE cache
  <2> USE DEF Steps
  <2>1. CASE GuildCreate(g)
    BY <2>1 DEF GuildCreate
  <2>2. CASE GuildDelete(g)
    BY <2>2 DEF GuildDelete
  <2>3. CASE SlashHome(g)
    BY <2>3 DEF SlashHome
  <2>4. CASE SlashChange(g)
    BY <2>4 DEF SlashChange
  <2>5. CASE SlashAutoUpdate(g)
    BY <2>5 DEF SlashAutoUpdate
  <2>6. CASE SlashInfo(g)
    BY <2>6 DEF SlashInfo
  <2> QED
    BY <2>1, <2>2, <2>3, <2>4, <2>5, <2>6 DEF Event
<1> USE <1>1
<1>2. /\ handler[ShardOf[g]] = Idle
      /\ handler' = [handler EXCEPT ![ShardOf[g]] =
                      [at |-> at, guild |-> g, arg |-> arg, info |-> info,
                       playersnow |-> None]]
      /\ UNCHANGED <<status, mainloop, pc, cur, ticks, ebd, posted, programinfos, bots,
                     dangling, pending, isdone, reading, asked, readbuf>>
  BY DEF Deliver, MainUntouched, regVars, netVars, msgVars
<1>3. TypeOK'
  BY <1>2 DEF TypeOK, HandlerState
<1>4. HandlersServe'
  BY <1>2 DEF HandlersServe, TypeOK, Steps
<1>5. Stage(g) = "idle" /\ Stage(g)' = at
  BY <1>2 DEF Stage, Idle, TypeOK
<1>6. \A k \in Guilds \ {g} : Stage(k)' = Stage(k)
  BY <1>2, OtherStages DEF Idle, TypeOK
<1>7. MapsAgree'
  BY <1>2, <1>5, <1>6 DEF MapsAgree
<1>8. CommandsHaveGuild'
  BY <1>2, <1>5, <1>6 DEF CommandsHaveGuild
<1>9. IteratorValid' /\ BufferHandoff' /\ NeverPostsToNoChannel'
  BY <1>2 DEF IteratorValid, BufferHandoff, NeverPostsToNoChannel
<1> QED
  BY <1>3, <1>4, <1>7, <1>8, <1>9
\* The shard that serves a guild moves on, or is done; the stages of the other
\* guilds stay.
LEMMA HandlerMoves ==
  ASSUME TypeOK, HandlersServe, NEW g \in Guilds, NEW h \in HandlerState,
         handler[ShardOf[g]].guild = g,
         handler' = [handler EXCEPT ![ShardOf[g]] = h],
         h = Idle \/ (h.guild = g /\ h.at # "idle"),
         h.at = "home" => h.arg \in Channels,
         h.at \in Changes => h.arg \in Request,
         h.at \in InfoReads => h.info \in InfoCommands,
         h.at = "names" => h.playersnow \in Nat
  PROVE  /\ handler' \in [Shards -> HandlerState]
         /\ HandlersServe'
         /\ Stage(g) = handler[ShardOf[g]].at
         /\ Stage(g)' = h.at
         /\ \A k \in Guilds \ {g} : Stage(k)' = Stage(k)
<1> DEFINE s == ShardOf[g]
<1>1. s \in Shards /\ g # None
  BY ConstantsAssumption
<1>2. handler \in [Shards -> HandlerState]
  BY DEF TypeOK
<1>3. handler'[s] = h /\ \A o \in Shards \ {s} : handler'[o] = handler[o]
  BY <1>1, <1>2
<1>4. handler' \in [Shards -> HandlerState]
  BY <1>1, <1>2
<1>5. HandlersServe'
  <2> DEFINE Serves(o, x) ==
        IF x.at = "idle" THEN x = Idle
        ELSE /\ x.guild \in Guilds /\ ShardOf[x.guild] = o
             /\ x.at = "home" => x.arg \in Channels
             /\ x.at \in Changes => x.arg \in Request
             /\ x.at \in InfoReads => x.info \in InfoCommands
             /\ x.at = "names" => x.playersnow \in Nat
  <2>1. \A o \in Shards : Serves(o, handler[o])
    BY DEF HandlersServe
  <2>2. Serves(s, h)
    BY DEF Idle
  <2>3. \A o \in Shards : Serves(o, handler'[o])
    BY <1>3, <2>1, <2>2
  <2> QED
    BY <2>3 DEF HandlersServe
<1>6. Stage(g) = handler[s].at /\ Stage(g)' = h.at
  BY <1>1, <1>3 DEF Stage, Idle
<1>7. \A k \in Guilds \ {g} : Stage(k)' = Stage(k)
  BY <1>2, <1>3, OtherStages DEF Idle
<1> QED
  BY <1>4, <1>5, <1>6, <1>7

\* The same of Goto, which keeps the arguments.
LEMMA GotoMoves ==
  ASSUME TypeOK, HandlersServe, NEW g \in Guilds, NEW steps \in SUBSET Steps,
         NEW at \in {"idle", "emplaceBot", "eraseBot", "changePort", "changeRequest",
                    "online", "texts", "count"},
         Busy(g, steps), Goto(g, at),
         at \in Changes => steps \subseteq Changes,
         at \in InfoReads => steps \subseteq InfoReads
  PROVE  /\ handler' \in [Shards -> HandlerState]
         /\ HandlersServe'
         /\ Stage(g) \in steps
         /\ Stage(g)' = at
         /\ \A k \in Guilds \ {g} : Stage(k)' = Stage(k)
<1> DEFINE s == ShardOf[g]
           h == IF at = "idle" THEN Idle ELSE [handler[s] EXCEPT !.at = at]
<1>1. s \in Shards /\ g # None
  BY ConstantsAssumption
<1>2. /\ handler[s] \in HandlerState
      /\ handler[s].guild = g /\ handler[s].at \in steps /\ handler[s].at # "idle"
  BY <1>1 DEF Busy, TypeOK, Steps
<1>3. handler' = [handler EXCEPT ![s] = h]
  BY DEF Goto
<1>4. at \in Steps \cup {"idle"} /\ at # "home" /\ at # "names"
  BY DEF Steps
<1>5. h \in HandlerState /\ h.at = at
  BY <1>2, <1>4 DEF HandlerState, Idle
<1>6. h = Idle \/ (h.guild = g /\ h.at # "idle")
  BY <1>2 DEF HandlerState
<1>7. /\ h.at \in Changes => h.arg \in Request
      /\ h.at \in InfoReads => h.info \in InfoCommands
  BY <1>1, <1>2, <1>5 DEF HandlersServe, HandlerState
<1> HIDE DEF h
<1> QED
  BY <1>2, <1>3, <1>4, <1>5, <1>6, <1>7, HandlerMoves

\* on_guild_create, first map: the guild is in the cache, and a new entry has no
\* address yet.
LEMMA EmplaceInfoPreserves ==
  ASSUME CoreInv, NEW g \in Guilds, EmplaceInfo(g)
  PROVE  CoreInv'
<1> USE ConstantsAssumption DEF CoreInv
<1>1. /\ UNCHANGED <<status, mainloop, pc, cur, ticks, ebd, posted, isdone, reading,
                     asked, readbuf, bots, cache, dangling>>
      /\ programinfos' = Emplace(programinfos, g, NewProgramInfo)
      /\ pending' \subseteq DOMAIN programinfos \cup {g}
  BY DEF EmplaceInfo, MainUntouched, netVars, msgVars, IteratorValid
<1>2. /\ DOMAIN programinfos' = DOMAIN programinfos \cup {g}
      /\ \A k \in DOMAIN programinfos : programinfos'[k] = programinfos[k]
      /\ g \notin DOMAIN programinfos => programinfos'[g] = NewProgramInfo
  BY <1>1 DEF Emplace
<1>3. /\ handler' \in [Shards -> HandlerState] /\ HandlersServe'
      /\ Stage(g) = "emplaceInfo" /\ Stage(g)' = "emplaceBot"
      /\ \A k \in Guilds \ {g} : Stage(k)' = Stage(k)
  BY GotoMoves DEF EmplaceInfo, Steps
<1>4. TypeOK'
  <2>1. NewProgramInfo \in ProgramInfo
    BY DEF NewProgramInfo, ProgramInfo
  <2> QED
    BY <1>1, <1>2, <1>3, <2>1 DEF TypeOK
<1>5. MapsAgree'
  BY <1>1, <1>2, <1>3 DEF MapsAgree, NewProgramInfo
<1>6. CommandsHaveGuild'
  BY <1>1, <1>2, <1>3 DEF CommandsHaveGuild, MapsAgree
<1>7. IteratorValid' /\ BufferHandoff' /\ NeverPostsToNoChannel'
  BY <1>1, <1>2 DEF IteratorValid, BufferHandoff, NeverPostsToNoChannel
<1> QED
  BY <1>3, <1>4, <1>5, <1>6, <1>7

\* on_guild_create, second map: the two maps agree again.
LEMMA EmplaceBotPreserves ==
  ASSUME CoreInv, NEW g \in Guilds, EmplaceBot(g)
  PROVE  CoreInv'
<1> USE ConstantsAssumption DEF CoreInv
<1>1. /\ UNCHANGED <<status, mainloop, pc, cur, ticks, ebd, posted, isdone, reading,
                     asked, readbuf, programinfos, cache, dangling, pending>>
      /\ bots' = Emplace(bots, g, NewBot)
  BY DEF EmplaceBot, MainUntouched, netVars, msgVars
<1>2. /\ DOMAIN bots' = DOMAIN bots \cup {g}
      /\ \A k \in DOMAIN bots : bots'[k] = bots[k]
      /\ g \notin DOMAIN bots => bots'[g] = NewBot
  BY <1>1 DEF Emplace
<1>3. /\ handler' \in [Shards -> HandlerState] /\ HandlersServe'
      /\ Stage(g) = "emplaceBot" /\ Stage(g)' = "idle"
      /\ \A k \in Guilds \ {g} : Stage(k)' = Stage(k)
  BY GotoMoves DEF EmplaceBot, Steps
<1>4. TypeOK'
  <2>1. NewBot \in Bot
    BY DEF NewBot, Bot
  <2> QED
    BY <1>1, <1>2, <1>3, <2>1 DEF TypeOK
<1>5. MapsAgree'
  BY <1>1, <1>2, <1>3 DEF MapsAgree
<1>6. CommandsHaveGuild'
  BY <1>1, <1>3 DEF CommandsHaveGuild
<1>7. IteratorValid' /\ BufferHandoff' /\ NeverPostsToNoChannel'
  <2>1. pc = "send" /\ ~dangling => cur \in DOMAIN bots
    BY <1>3 DEF IteratorValid, MapsAgree, Visit
  <2> QED
    BY <1>1, <1>2, <2>1 DEF IteratorValid, BufferHandoff, NeverPostsToNoChannel
<1> QED
  BY <1>3, <1>4, <1>5, <1>6, <1>7
\* on_guild_delete, first map: the node may be the one main() stands on, which
\* then dangles; otherwise the pass goes on over what is left.
LEMMA EraseInfoPreserves ==
  ASSUME CoreInv, NEW g \in Guilds, EraseInfo(g)
  PROVE  CoreInv'
<1> USE ConstantsAssumption DEF CoreInv
<1>1. /\ UNCHANGED <<status, mainloop, pc, cur, ticks, ebd, posted, isdone, reading,
                     asked, readbuf, bots, cache>>
      /\ programinfos' = Erase(programinfos, g)
      /\ pending' = pending \ {g}
      /\ dangling' = (dangling \/ cur = g)
  BY DEF EraseInfo, MainUntouched, netVars, msgVars
<1>2. /\ DOMAIN programinfos' = DOMAIN programinfos \ {g}
      /\ \A k \in DOMAIN programinfos \ {g} : programinfos'[k] = programinfos[k]
  BY <1>1 DEF Erase
<1>3. /\ handler' \in [Shards -> HandlerState] /\ HandlersServe'
      /\ Stage(g) = "eraseInfo" /\ Stage(g)' = "eraseBot"
      /\ \A k \in Guilds \ {g} : Stage(k)' = Stage(k)
  BY GotoMoves DEF EraseInfo, Steps
<1>4. TypeOK'
  BY <1>1, <1>2, <1>3 DEF TypeOK
<1>5. MapsAgree'
  BY <1>1, <1>2, <1>3 DEF MapsAgree
<1>6. CommandsHaveGuild'
  BY <1>1, <1>2, <1>3 DEF CommandsHaveGuild, MapsAgree
<1>7. IteratorValid' /\ BufferHandoff' /\ NeverPostsToNoChannel'
  BY <1>1, <1>2 DEF IteratorValid, BufferHandoff, NeverPostsToNoChannel, TypeOK
<1> QED
  BY <1>3, <1>4, <1>5, <1>6, <1>7

\* on_guild_delete, second map: the guild has left programinfos before, so main()
\* does not stand on it or dangles.
LEMMA EraseBotPreserves ==
  ASSUME CoreInv, NEW g \in Guilds, EraseBot(g)
  PROVE  CoreInv'
<1> USE ConstantsAssumption DEF CoreInv
<1>1. /\ UNCHANGED <<status, mainloop, pc, cur, ticks, ebd, posted, isdone, reading,
                     asked, readbuf, programinfos, cache, dangling, pending>>
      /\ bots' = Erase(bots, g)
  BY DEF EraseBot, MainUntouched, netVars, msgVars
<1>2. /\ DOMAIN bots' = DOMAIN bots \ {g}
      /\ \A k \in DOMAIN bots \ {g} : bots'[k] = bots[k]
  BY <1>1 DEF Erase
<1>3. /\ handler' \in [Shards -> HandlerState] /\ HandlersServe'
      /\ Stage(g) = "eraseBot" /\ Stage(g)' = "idle"
      /\ \A k \in Guilds \ {g} : Stage(k)' = Stage(k)
  BY GotoMoves DEF EraseBot, Steps
<1>4. TypeOK'
  BY <1>1, <1>2, <1>3 DEF TypeOK
<1>5. MapsAgree'
  BY <1>1, <1>2, <1>3 DEF MapsAgree
<1>6. CommandsHaveGuild'
  BY <1>1, <1>3 DEF CommandsHaveGuild
<1>7. IteratorValid' /\ BufferHandoff' /\ NeverPostsToNoChannel'
  <2>1. pc = "send" /\ ~dangling => cur \in DOMAIN bots \ {g}
    BY <1>3 DEF IteratorValid, MapsAgree, Visit
  <2> QED
    BY <1>1, <1>2, <2>1 DEF IteratorValid, BufferHandoff, NeverPostsToNoChannel
<1> QED
  BY <1>3, <1>4, <1>5, <1>6, <1>7

\* /home, /enableautoupdate, /disableautoupdate: one field of an entry of bots; a
\* home channel is never taken away.
LEMMA BotCommandPreserves ==
  ASSUME CoreInv, NEW g \in Guilds, Home(g) \/ SetAutoUpdate(g)
  PROVE  CoreInv'
<1> USE ConstantsAssumption DEF CoreInv
<1>1. UNCHANGED <<status, mainloop, pc, cur, ticks, ebd, posted, isdone, reading,
                  asked, readbuf, programinfos, cache, dangling, pending>>
  BY DEF Home, SetAutoUpdate, MainUntouched, netVars, msgVars
<1>2. /\ handler' \in [Shards -> HandlerState] /\ HandlersServe'
      /\ Stage(g) \in Commands /\ Stage(g)' = "idle"
      /\ \A k \in Guilds \ {g} : Stage(k)' = Stage(k)
  BY GotoMoves DEF Home, SetAutoUpdate, Steps
<1>3. g \in DOMAIN bots
  BY <1>2 DEF MapsAgree, CommandsHaveGuild
<1>4. /\ DOMAIN bots' = DOMAIN bots
      /\ \A k \in DOMAIN bots \ {g} : bots'[k] = bots[k]
      /\ bots'[g] \in Bot
      /\ bots[g].channelid # None => bots'[g].channelid # None
  <2>1. bots[g] \in Bot
    BY <1>3 DEF TypeOK
  <2>2. CASE Home(g)
    <3>1. bots' = [bots EXCEPT ![g].channelid = handler[ShardOf[g]].arg]
      BY <2>2 DEF Home
    <3>2. handler[ShardOf[g]].arg \in Channels
      BY <2>2 DEF Home, Busy, HandlersServe
    <3> QED
      BY <1>3, <2>1, <3>1, <3>2 DEF Bot
  <2>3. CASE SetAutoUpdate(g)
    <3>1. bots' = [bots EXCEPT ![g].autoenabled = (handler[ShardOf[g]].at = "enableautoupdate")]
      BY <2>3 DEF SetAutoUpdate
    <3> QED
      BY <1>3, <2>1, <3>1 DEF Bot
  <2> QED
    BY <2>2, <2>3
<1>5. TypeOK'
  BY <1>1, <1>2, <1>4 DEF TypeOK
<1>6. MapsAgree'
  BY <1>1, <1>2, <1>4 DEF MapsAgree
<1>7. CommandsHaveGuild'
  BY <1>1, <1>2 DEF CommandsHaveGuild
<1>8. IteratorValid' /\ BufferHandoff' /\ NeverPostsToNoChannel'
  <2>1. pc = "send" /\ ~dangling => cur \in DOMAIN bots
    BY <1>2 DEF IteratorValid, MapsAgree, Visit
  <2> QED
    BY <1>1, <1>3, <1>4, <2>1 DEF IteratorValid, BufferHandoff, NeverPostsToNoChannel
<1> QED
  BY <1>2, <1>5, <1>6, <1>7, <1>8

\* /change: three writes to an entry of programinfos; the address is set by the
\* first and never taken away.
LEMMA ChangePreserves ==
  ASSUME CoreInv, NEW g \in Guilds, ChangeIp(g) \/ ChangePort(g) \/ ChangeRequest(g)
  PROVE  CoreInv'
<1> USE ConstantsAssumption DEF CoreInv
<1>1. UNCHANGED <<status, mainloop, pc, cur, ticks, ebd, posted, isdone, reading,
                  asked, readbuf, bots, cache, dangling, pending>>
  BY DEF ChangeIp, ChangePort, ChangeRequest, MainUntouched, netVars, msgVars
<1>2. /\ handler' \in [Shards -> HandlerState] /\ HandlersServe'
      /\ Stage(g) \in Changes
      /\ Stage(g)' \in {"changePort", "changeRequest", "idle"}
      /\ \A k \in Guilds \ {g} : Stage(k)' = Stage(k)
  <2>1. CASE ChangeIp(g)
    BY <2>1, GotoMoves DEF ChangeIp, Steps
  <2>2. CASE ChangePort(g)
    BY <2>2, GotoMoves DEF ChangePort, Steps
  <2>3. CASE ChangeRequest(g)
    BY <2>3, GotoMoves DEF ChangeRequest, Steps
  <2> QED
    BY <2>1, <2>2, <2>3
<1>3. g \in DOMAIN programinfos /\ g \in cache
  BY <1>2 DEF MapsAgree, CommandsHaveGuild
<1>4. /\ DOMAIN programinfos' = DOMAIN programinfos
      /\ \A k \in DOMAIN programinfos \ {g} : programinfos'[k] = programinfos[k]
      /\ programinfos'[g] \in ProgramInfo
      /\ programinfos'[g].serverip # None
  <2>1. programinfos[g] \in ProgramInfo /\ handler[ShardOf[g]].arg \in Request
    BY <1>2, <1>3 DEF TypeOK, HandlersServe, Stage
  <2>2. CASE ChangeIp(g)
    <3>1. programinfos' = [programinfos EXCEPT ![g].serverip = handler[ShardOf[g]].arg.ip]
      BY <2>2 DEF ChangeIp
    <3> QED
      BY <1>3, <2>1, <3>1 DEF ProgramInfo, Request
  <2>3. ASSUME ~ChangeIp(g) PROVE programinfos[g].serverip \in Ips
    BY <1>2, <2>1, <2>3 DEF ChangePort, ChangeRequest, Busy, Stage, CommandsHaveGuild, ProgramInfo
  <2>4. CASE ChangePort(g)
    BY <1>3, <2>1, <2>2, <2>3, <2>4 DEF ChangePort, ProgramInfo, Request
  <2>5. CASE ChangeRequest(g)
    <3>1. MakeRequest(g) \in Request \/ ChangeIp(g)
      BY <2>1, <2>3 DEF MakeRequest, Request, ProgramInfo
    <3>2. programinfos' = [programinfos EXCEPT ![g].webrequest = MakeRequest(g)]
      BY <2>5 DEF ChangeRequest
    <3> QED
      BY <1>3, <2>1, <2>2, <2>3, <3>1, <3>2 DEF ProgramInfo
  <2> QED
    BY <2>2, <2>4, <2>5
<1>5. TypeOK'
  BY <1>1, <1>2, <1>4 DEF TypeOK
<1>6. MapsAgree'
  BY <1>1, <1>2, <1>4 DEF MapsAgree
<1>7. CommandsHaveGuild'
  BY <1>1, <1>2, <1>3, <1>4 DEF CommandsHaveGuild, MapsAgree
<1>8. IteratorValid' /\ BufferHandoff' /\ NeverPostsToNoChannel'
  BY <1>1, <1>3, <1>4 DEF IteratorValid, BufferHandoff, NeverPostsToNoChannel
<1> QED
  BY <1>2, <1>5, <1>6, <1>7, <1>8

\* An information command writes nothing.
LEMMA InfoReadMoves ==
  ASSUME IInv, NEW g \in Guilds, ~Halt("terminated"),
         \/ TestNull(g) \/ ReadOnline(g) \/ ReadTexts(g) \/ ReadCount(g) \/ ReadNames(g)
  PROVE  /\ NothingWritten
         /\ handler' \in [Shards -> HandlerState] /\ HandlersServe'
         /\ Stage(g) \in InfoReads
         /\ Stage(g)' \in DataReads \cup {"idle"}
         /\ \A k \in Guilds \ {g} : Stage(k)' = Stage(k)
         /\ Stage(g) = "isnull" => Stage(g)' = "idle" \/ Data(g) # None
<1> USE DEF IInv, CoreInv, Steps
<1>1. CASE TestNull(g)
  <2>1. PICK at \in {"idle", "online", "count"} :
          Goto(g, at) /\ (at = "idle" \/ Data(g) # None)
    BY <1>1 DEF TestNull
  <2> QED
    BY <1>1, <2>1, GotoMoves DEF TestNull
<1>2. CASE ReadOnline(g)
  <2>1. PICK at \in {"idle", "texts"} : Goto(g, at) /\ NothingWritten
    BY <1>2 DEF ReadOnline, Throw
  <2> QED
    BY <1>2, <2>1, GotoMoves DEF ReadOnline
<1>3. CASE ReadTexts(g)
  <2>1. PICK at \in {"idle", "count"} : Goto(g, at) /\ NothingWritten
    BY <1>3 DEF ReadTexts, Throw
  <2> QED
    BY <1>3, <2>1, GotoMoves DEF ReadTexts
<1>4. CASE ReadNames(g)
  <2>1. Goto(g, "idle") /\ NothingWritten
    BY <1>4 DEF ReadNames, Throw
  <2> QED
    BY <1>4, <2>1, GotoMoves DEF ReadNames
<1>5. CASE ReadCount(g)
  <2>1. CASE Goto(g, "idle") /\ NothingWritten
    BY <1>5, <2>1, GotoMoves DEF ReadCount
  <2>2. CASE ~(Goto(g, "idle") /\ NothingWritten)
    <3> DEFINE s == ShardOf[g]
               n == programinfos[g].serverdata.says.now
               h == [handler[s] EXCEPT !.at = "names", !.playersnow = n]
    <3>1. s \in Shards /\ handler[s] \in HandlerState /\ handler[s].guild = g
          /\ handler[s].at = "count" /\ g # None
      BY <1>5, ConstantsAssumption DEF ReadCount, Busy, TypeOK
    <3>2. /\ n # None /\ NothingWritten
          /\ handler' = [handler EXCEPT ![s].at = "names", ![s].playersnow = n]
      BY <1>5, <2>2 DEF ReadCount, Throw, Data
    <3>3. handler' = [handler EXCEPT ![s] = h]
      BY <3>1, <3>2 DEF TypeOK
    <3>4. g \in DOMAIN programinfos /\ programinfos[g].serverdata # None
      BY <3>1 DEF MapsAgree, CommandsHaveGuild, CommandsReadData, Stage
    <3>5. n \in Nat
      BY <3>2, <3>4 DEF TypeOK, ProgramInfo, Snapshot, Report
    <3>6. h \in HandlerState /\ h.at = "names" /\ h.guild = g /\ h.playersnow = n
          /\ h.info \in InfoCommands
      BY <3>1, <3>5 DEF HandlerState, HandlersServe
    <3> HIDE DEF h
    <3>7. /\ handler' \in [Shards -> HandlerState]
          /\ HandlersServe'
          /\ Stage(g) = handler[s].at
          /\ Stage(g)' = h.at
          /\ \A k \in Guilds \ {g} : Stage(k)' = Stage(k)
      BY <3>1, <3>3, <3>5, <3>6, HandlerMoves
    <3> QED
      BY <3>1, <3>2, <3>6, <3>7
  <2> QED
    BY <2>1, <2>2
<1> QED
  BY <1>1, <1>2, <1>3, <1>4, <1>5

LEMMA InfoReadPreserves ==
  ASSUME IInv, NEW g \in Guilds,
         \/ TestNull(g) \/ ReadOnline(g) \/ ReadTexts(g) \/ ReadCount(g) \/ ReadNames(g)
  PROVE  CoreInv'
<1> USE ConstantsAssumption DEF IInv, CoreInv
<1>1. CASE Halt("terminated")
  BY <1>1, HaltPreserves DEF Statuses
<1>2. CASE ~Halt("terminated")
  <2>1. /\ UNCHANGED <<programinfos, bots, cache, dangling, pending, status, mainloop,
                       pc, cur, ticks, ebd, posted, isdone, reading, asked, readbuf>>
        /\ handler' \in [Shards -> HandlerState] /\ HandlersServe'
        /\ Stage(g) \in InfoReads
        /\ Stage(g)' \in DataReads \cup {"idle"}
        /\ \A k \in Guilds \ {g} : Stage(k)' = Stage(k)
    BY <1>2, InfoReadMoves DEF NothingWritten, MainUntouched, regVars, msgVars, netVars
  <2>2. TypeOK'
    BY <2>1 DEF TypeOK
  <2>3. MapsAgree'
    BY <2>1 DEF MapsAgree
  <2>4. CommandsHaveGuild'
    BY <2>1 DEF CommandsHaveGuild
  <2>5. IteratorValid' /\ BufferHandoff' /\ NeverPostsToNoChannel'
    BY <2>1 DEF IteratorValid, BufferHandoff, NeverPostsToNoChannel
  <2> QED
    BY <2>1, <2>2, <2>3, <2>4, <2>5
<1> QED
  BY <1>1, <1>2

-----------------------------------------------------------------------------
(* Steps of main(), the context thread and the stop-key thread.            *)

\* A step of main() that leaves maps and iterator alone and stays within the
\* visit, or goes on with the loop.
LEMMA ContinuePreserves ==
  ASSUME CoreInv, NEW next \in MainPc, Continue(next),
         UNCHANGED <<msgVars, regVars, netVars>>,
         next \notin {"check", "sleep"},
         next \in Visit => pc \in Visit /\ (pc = "check" /\ ~dangling =>
                                              programinfos[cur].serverip # None),
         next = "send" /\ ~dangling => bots[cur].channelid # None,
         reading => next \in {"request", "write", "wait"}
  PROVE  CoreInv'
<1> USE DEF CoreInv, Continue, HandlersUntouched, regVars, iterVars, netVars, msgVars
<1>1. TypeOK'
  BY DEF TypeOK
<1>2. HandlersServe' /\ MapsAgree' /\ CommandsHaveGuild'
  BY MapsFrame
<1>3. IteratorValid' /\ NeverPostsToNoChannel'
  BY DEF IteratorValid, NeverPostsToNoChannel
<1>4. BufferHandoff'
  BY DEF BufferHandoff
<1> QED
  BY <1>1, <1>2, <1>3, <1>4

\* DNSresolve, the loop test, the countdown, shutdown.
LEMMA LoopPreserves ==
  ASSUME CoreInv,
         ResolveDns \/ LoopTest \/ Sleep \/ StopIo \/ ShutdownCluster \/ JoinStop
  PROVE  CoreInv'
<1> USE ConstantsAssumption DEF CoreInv
<1>1. CASE ResolveDns
  <2>1. CASE Halt("exited")
    BY <2>1, HaltPreserves DEF Statuses
  <2>2. CASE ~Halt("exited")
    <3>1. pc = "resolve" /\ Continue("top") /\ UNCHANGED <<msgVars, regVars, netVars>>
      BY <1>1, <2>2 DEF ResolveDns, At, Continue
    <3>2. ~reading /\ "top" \in MainPc /\ "top" \notin Visit
      BY <3>1 DEF BufferHandoff, MainPc, Pass, Visit
    <3> QED
      BY <3>1, <3>2, ContinuePreserves
  <2> QED
    BY <2>1, <2>2
<1>2. CASE LoopTest
  <2> USE <1>2 DEF LoopTest, At, HandlersUntouched, regVars, netVars, msgVars
  <2>1. TypeOK'
    BY DEF TypeOK, MainPc, Pass, Shutdown
  <2>2. HandlersServe' /\ MapsAgree' /\ CommandsHaveGuild'
    BY MapsFrame
  <2>3. IteratorValid' /\ BufferHandoff' /\ NeverPostsToNoChannel'
    BY DEF IteratorValid, BufferHandoff, NeverPostsToNoChannel, Visit
  <2> QED
    BY <2>1, <2>2, <2>3
<1>3. CASE Sleep
  <2> USE <1>3 DEF Sleep, At, HandlersUntouched, regVars, iterVars, netVars, msgVars
  <2>1. TypeOK' /\ (pc' = "sleep" => ticks' > 0)
    BY DEF TypeOK, IteratorValid, MainPc, Pass, Shutdown
  <2>2. HandlersServe' /\ MapsAgree' /\ CommandsHaveGuild'
    BY MapsFrame
  <2>3. IteratorValid' /\ BufferHandoff' /\ NeverPostsToNoChannel'
    BY <2>1 DEF IteratorValid, BufferHandoff, NeverPostsToNoChannel, Visit
  <2> QED
    BY <2>1, <2>2, <2>3
<1>4. CASE StopIo \/ ShutdownCluster
  <2>1. PICK next \in Shutdown : Continue(next)
    BY <1>4 DEF StopIo, ShutdownCluster, Shutdown
  <2>2. pc \in {"stopio", "shutdown"} /\ UNCHANGED <<msgVars, regVars, netVars>>
    BY <1>4 DEF StopIo, ShutdownCluster, At
  <2>3. ~reading /\ next \in MainPc \ Visit /\ next \notin {"check", "sleep", "send"}
    BY <2>2 DEF BufferHandoff, MainPc, Shutdown, Visit
  <2> QED
    BY <2>1, <2>2, <2>3, ContinuePreserves
<1>5. CASE JoinStop
  BY <1>5, HaltPreserves DEF JoinStop, Statuses
<1> QED
  BY <1>1, <1>2, <1>3, <1>4, <1>5

\* ++iterator: from an entry that is still there to another one, or to the end.
LEMMA NextGuildPreserves ==
  ASSUME CoreInv, NextGuild
  PROVE  CoreInv'
<1> USE ConstantsAssumption DEF CoreInv
<1>1. CASE dangling
  BY <1>1, HaltPreserves DEF NextGuild, Statuses
<1>2. CASE ~dangling
  <2> USE <1>2 DEF NextGuild, At, HandlersUntouched, regVars, netVars, msgVars
  <2>1. TypeOK'
    BY DEF TypeOK, MainPc, Pass, Visit
  <2>2. HandlersServe' /\ MapsAgree' /\ CommandsHaveGuild'
    BY MapsFrame
  <2>3. IteratorValid'
    BY DEF IteratorValid, TypeOK, Visit
  <2>4. BufferHandoff' /\ NeverPostsToNoChannel'
    BY DEF BufferHandoff, NeverPostsToNoChannel
  <2> QED
    BY <2>1, <2>2, <2>3, <2>4
<1> QED
  BY <1>1, <1>2
\* The steps of a visit that write no entry: the tests, the connection, the wait.
LEMMA VisitPreserves ==
  ASSUME CoreInv, CheckConfigured \/ Connect \/ AwaitDone
  PROVE  CoreInv'
<1> USE ConstantsAssumption DEF CoreInv
<1>1. CASE \E how \in Statuses : Halt(how)
  BY <1>1, HaltPreserves
<1>2. CASE ~\E how \in Statuses : Halt(how)
  <2>1. PICK next \in {"next", "connect", "start", "parse"} :
          /\ Continue(next) /\ UNCHANGED <<msgVars, regVars, netVars>>
          /\ pc \in {"check", "connect", "wait"}
          /\ pc = "wait" => isdone
          /\ pc = "check" => next = "next" \/ programinfos[cur].serverip # None
    BY <1>2 DEF CheckConfigured, Connect, AwaitDone, At, Statuses
  <2>2. /\ next \in MainPc
        /\ next \in Visit => pc \in Visit
        /\ pc = "check" /\ next \in Visit => programinfos[cur].serverip # None
    BY <2>1 DEF MainPc, Pass, Visit
  <2>3. ~reading
    BY <2>1 DEF BufferHandoff
  <2> QED
    BY <2>1, <2>2, <2>3, ContinuePreserves
<1> QED
  BY <1>1, <1>2

\* readbuf and isdone are reset when no read is outstanding, and main() leaves
\* them alone until isdone is set again.
LEMMA StartReadPreserves ==
  ASSUME CoreInv, StartRead
  PROVE  CoreInv'
<1> USE ConstantsAssumption
        DEF CoreInv, StartRead, At, Continue, HandlersUntouched, regVars, iterVars, msgVars
<1>1. TypeOK'
  BY DEF TypeOK, MainPc, Pass, Visit
<1>2. HandlersServe' /\ MapsAgree' /\ CommandsHaveGuild'
  BY MapsFrame
<1>3. IteratorValid' /\ BufferHandoff' /\ NeverPostsToNoChannel'
  BY DEF IteratorValid, BufferHandoff, NeverPostsToNoChannel, Visit
<1> QED
  BY <1>1, <1>2, <1>3

\* The request is sent, or lost.
LEMMA WriteRequestPreserves ==
  ASSUME CoreInv, WriteRequest
  PROVE  CoreInv'
<1> USE ConstantsAssumption DEF CoreInv
<1>1. CASE dangling
  BY <1>1, HaltPreserves DEF WriteRequest, Statuses
<1>2. CASE ~dangling
  <2> USE <1>2 DEF WriteRequest, At, Continue, HandlersUntouched, regVars, iterVars, msgVars
  <2>1. asked' \in Request \cup {None}
    BY DEF IteratorValid, TypeOK, ProgramInfo, Visit
  <2>2. TypeOK'
    BY <2>1 DEF TypeOK, MainPc, Pass, Visit
  <2>3. HandlersServe' /\ MapsAgree' /\ CommandsHaveGuild'
    BY MapsFrame
  <2>4. IteratorValid' /\ BufferHandoff' /\ NeverPostsToNoChannel'
    BY DEF IteratorValid, BufferHandoff, NeverPostsToNoChannel, Visit
  <2> QED
    BY <2>2, <2>3, <2>4
<1> QED
  BY <1>1, <1>2

\* The three assignments through the iterator: no address changes.
LEMMA AssignPreserves ==
  ASSUME CoreInv, BuildRequest \/ ParseAnswer \/ SaveOld
  PROVE  CoreInv'
<1> USE ConstantsAssumption DEF CoreInv
<1>1. CASE \E how \in Statuses : Halt(how)
  BY <1>1, HaltPreserves
<1>2. CASE ~\E how \in Statuses : Halt(how)
  <2>1. /\ ~dangling
        /\ pc \in {"request", "parse", "save"}
        /\ UNCHANGED <<status, ticks, iterVars, bots, netVars, cache, handler, mainloop>>
        /\ posted' \in {posted, None} /\ ebd' \in {ebd, None}
        /\ pc' \in {"write", "automsg", "next"}
        /\ pc' = "write" <=> pc = "request"
    BY <1>2 DEF BuildRequest, ParseAnswer, SaveOld, At, Continue, HandlersUntouched, Statuses,
           msgVars
  <2>2. /\ cur \in DOMAIN programinfos /\ programinfos[cur].serverip \in Ips
        /\ programinfos[cur] \in ProgramInfo
    BY <2>1 DEF IteratorValid, TypeOK, ProgramInfo, Visit
  <2>3. /\ DOMAIN programinfos' = DOMAIN programinfos
        /\ \A k \in DOMAIN programinfos \ {cur} : programinfos'[k] = programinfos[k]
        /\ programinfos'[cur] \in ProgramInfo
        /\ programinfos'[cur].serverip = programinfos[cur].serverip
    <3>1. CASE BuildRequest
      <4>1. programinfos' = [programinfos EXCEPT ![cur].webrequest = MakeRequest(cur)]
        BY <1>2, <3>1 DEF BuildRequest, Statuses
      <4>2. MakeRequest(cur) \in Request
        BY <2>2 DEF MakeRequest, Request, ProgramInfo
      <4> QED
        BY <2>2, <4>1, <4>2 DEF ProgramInfo
    <3>2. CASE ParseAnswer
      <4>1. programinfos' = [programinfos EXCEPT ![cur].serverdata = readbuf]
        BY <1>2, <3>2 DEF ParseAnswer, Statuses
      <4>2. readbuf \in Snapshot \cup {None}
        BY DEF TypeOK
      <4> QED
        BY <2>2, <4>1, <4>2 DEF ProgramInfo
    <3>3. CASE SaveOld
      <4>1. programinfos' = [programinfos EXCEPT ![cur].oldserver = programinfos[cur].serverdata]
        BY <1>2, <3>3 DEF SaveOld, Statuses
      <4> QED
        BY <2>2, <4>1 DEF ProgramInfo
    <3> QED
      BY <3>1, <3>2, <3>3
  <2>4. TypeOK'
    BY <2>1, <2>3 DEF TypeOK, MainPc, Pass, Visit, iterVars, netVars, msgVars
  <2>5. HandlersServe' /\ MapsAgree' /\ CommandsHaveGuild'
    BY <2>1, <2>3, MapsFrame
  <2>6. IteratorValid' /\ BufferHandoff' /\ NeverPostsToNoChannel'
    BY <2>1, <2>2, <2>3 DEF IteratorValid, BufferHandoff, NeverPostsToNoChannel, Visit,
                       iterVars, netVars, msgVars
  <2> QED
    BY <2>4, <2>5, <2>6
<1> QED
  BY <1>1, <1>2

\* sendautomsg goes on to make a message only for a guild with a home channel.
LEMMA DecideAutoMsgPreserves ==
  ASSUME CoreInv, DecideAutoMsg
  PROVE  CoreInv'
<1> USE ConstantsAssumption DEF CoreInv
<1>1. CASE Halt("terminated")
  BY <1>1, HaltPreserves DEF Statuses
<1>2. CASE ~Halt("terminated")
  <2>1. /\ pc = "automsg" /\ pc' \in {"send", "save"}
        /\ UNCHANGED <<status, ticks, posted, cache, handler, mainloop, regVars,
                       iterVars, netVars>>
        /\ pc' = "send" => bots[cur].channelid # None
        /\ \/ ebd' = ebd
           \/ ebd' = [joined |-> programinfos[cur].serverdata.says.now > PlayersOld(cur),
                      names  |-> PlayersDiff(cur)]
    BY <1>2 DEF DecideAutoMsg, At, Continue, Wanted, HandlersUntouched
  <2>2. TypeOK'
    <3> DEFINE more  == programinfos[cur].serverdata.says.now > PlayersOld(cur)
               names == PlayersDiff(cur)
    <3>1. names \in SUBSET Names
      BY DEF PlayersDiff
    <3>2. more \in BOOLEAN
      OBVIOUS
    <3>3. ebd' = ebd \/ ebd' = [joined |-> more, names |-> names]
      BY <2>1
    <3> HIDE DEF more, names
    <3>4. ebd' \in [joined : BOOLEAN, names : SUBSET Names] \cup {None}
      BY <3>1, <3>2, <3>3 DEF TypeOK
    <3> QED
      BY <2>1, <3>4 DEF TypeOK, MainPc, Pass, Visit, regVars, iterVars, netVars
  <2>3. HandlersServe' /\ MapsAgree' /\ CommandsHaveGuild'
    BY <2>1, MapsFrame DEF regVars
  <2>4. IteratorValid' /\ BufferHandoff' /\ NeverPostsToNoChannel'
    BY <2>1 DEF IteratorValid, BufferHandoff, NeverPostsToNoChannel, Visit, regVars,
                iterVars, netVars
  <2> QED
    BY <2>2, <2>3, <2>4
<1> QED
  BY <1>1, <1>2

\* message_create: the channel it reads is the one DecideAutoMsg found, or a later
\* one, unless the guild is gone.
LEMMA SendAutoMsgPreserves ==
  ASSUME CoreInv, SendAutoMsg
  PROVE  CoreInv'
<1> USE ConstantsAssumption DEF CoreInv
<1>1. CASE cur \notin DOMAIN bots
  BY <1>1, HaltPreserves DEF SendAutoMsg, Statuses
<1>2. CASE cur \in DOMAIN bots
  <2> USE <1>2 DEF SendAutoMsg, At, Continue, HandlersUntouched, regVars, iterVars, netVars, msgVars
  <2>1. TypeOK'
    BY DEF TypeOK, Bot, MainPc, Pass, Visit
  <2>2. HandlersServe' /\ MapsAgree' /\ CommandsHaveGuild'
    BY MapsFrame
  <2>3. IteratorValid' /\ BufferHandoff' /\ NeverPostsToNoChannel'
    BY DEF IteratorValid, BufferHandoff, NeverPostsToNoChannel, Visit
  <2> QED
    BY <2>1, <2>2, <2>3
<1> QED
  BY <1>1, <1>2

\* The context thread and the stop-key thread.
LEMMA OtherThreadsPreserve ==
  ASSUME CoreInv, NetworkStep \/ StopKey
  PROVE  CoreInv'
<1> USE ConstantsAssumption DEF CoreInv
<1>1. CASE ReadFailed
  BY <1>1, HaltPreserves DEF ReadFailed, Statuses
<1>2. CASE ~ReadFailed
  <2>1. /\ UNCHANGED <<status, pc, ticks, msgVars, cache, handler, regVars, iterVars>>
        /\ UNCHANGED <<isdone, reading>> \/ (reading' = FALSE /\ isdone' = TRUE)
    BY <1>2 DEF NetworkStep, ReceiveBody, ReadFinished, StopKey, HandlersUntouched, netVars, msgVars
  <2>2. /\ mainloop' \in BOOLEAN
        /\ asked' \in Request \cup {None} /\ readbuf' \in Snapshot \cup {None}
    <3>1. CASE ReceiveBody
      <4>1. PICK r \in Reports : readbuf' = [about |-> asked, says |-> r]
        BY <3>1 DEF ReceiveBody
      <4>2. r \in Report
        OBVIOUS
      <4>3. asked \in Request
        BY <3>1 DEF ReceiveBody, TypeOK
      <4> QED
        BY <3>1, <4>1, <4>2, <4>3 DEF ReceiveBody, HandlersUntouched, TypeOK, Snapshot
    <3>2. CASE ReadFinished \/ StopKey
      BY <3>2 DEF ReadFinished, StopKey, HandlersUntouched, netVars, msgVars, TypeOK
    <3> QED
      BY <1>2, <3>1, <3>2 DEF NetworkStep
  <2>3. TypeOK'
    BY <2>1, <2>2 DEF TypeOK, regVars, iterVars, msgVars
  <2>4. HandlersServe' /\ MapsAgree' /\ CommandsHaveGuild'
    BY <2>1, MapsFrame DEF regVars
  <2>5. IteratorValid' /\ BufferHandoff' /\ NeverPostsToNoChannel'
    BY <2>1 DEF IteratorValid, BufferHandoff, NeverPostsToNoChannel, regVars, iterVars, msgVars
  <2> QED
    BY <2>3, <2>4, <2>5
<1> QED
  BY <1>1, <1>2


\* The core of the invariant.
LEMMA CorePreserved == IInv /\ [Next]_vars => CoreInv'
<1> SUFFICES ASSUME IInv, [Next]_vars PROVE CoreInv'
  OBVIOUS
<1> USE DEF IInv
<1>1. ASSUME NEW g \in Guilds, Event(g) PROVE CoreInv'
  BY <1>1, EventPreserves
<1>2. ASSUME NEW g \in Guilds, HandlerStep(g) PROVE CoreInv'
  BY <1>2, EmplaceInfoPreserves, EmplaceBotPreserves, EraseInfoPreserves,
     EraseBotPreserves, BotCommandPreserves, ChangePreserves, InfoReadPreserves DEF HandlerStep
<1>3. CASE MainStep
  BY <1>3, LoopPreserves, NextGuildPreserves, VisitPreserves, StartReadPreserves,
     WriteRequestPreserves, AssignPreserves, DecideAutoMsgPreserves, SendAutoMsgPreserves DEF MainStep
<1>4. CASE NetworkStep \/ StopKey
  BY <1>4, OtherThreadsPreserve
<1>5. CASE RaceBites
  BY <1>5, HaltPreserves DEF RaceBites, Statuses
<1>6. CASE UNCHANGED vars
  <2> USE <1>6 DEF vars, CoreInv
  <2>1. TypeOK'
    BY DEF TypeOK
  <2>2. HandlersServe' /\ MapsAgree' /\ CommandsHaveGuild'
    BY MapsFrame
  <2>3. IteratorValid' /\ BufferHandoff' /\ NeverPostsToNoChannel'
    BY DEF IteratorValid, BufferHandoff, NeverPostsToNoChannel
  <2> QED
    BY <2>1, <2>2, <2>3
<1> QED
  BY <1>1, <1>2, <1>3, <1>4, <1>5, <1>6 DEF Next, Ended

-----------------------------------------------------------------------------
(* An information command keeps its answer.                                *)

\* A step by which no entry with an answer is lost to a command that reads it.
LEMMA DataFrame ==
  ASSUME CommandsReadData,
         \A k \in Guilds : Stage(k)' \in DataReads =>
           /\ Stage(k) \in DataReads
           /\ k \in DOMAIN programinfos => k \in DOMAIN programinfos'
           /\ k \in DOMAIN programinfos /\ programinfos[k].serverdata # None =>
                programinfos'[k].serverdata # None
  PROVE  CommandsReadData'
BY DEF CommandsReadData

\* The handlers: only the deletion of a guild removes an entry, and it runs on the
\* shard on which the command would run.
LEMMA HandlerKeepsData ==
  ASSUME IInv, NEW g \in Guilds, HandlerStep(g)
  PROVE  CommandsReadData'
<1> USE ConstantsAssumption DEF IInv, CoreInv, Steps
<1>1. CASE EmplaceInfo(g)
  <2>1. Stage(g)' = "emplaceBot" /\ \A k \in Guilds \ {g} : Stage(k)' = Stage(k)
    BY <1>1, GotoMoves DEF EmplaceInfo
  <2>2. \A k \in DOMAIN programinfos : programinfos'[k] = programinfos[k]
                                       /\ k \in DOMAIN programinfos'
    BY <1>1 DEF EmplaceInfo, Emplace
  <2> QED
    BY <2>1, <2>2, DataFrame
<1>2. CASE EmplaceBot(g)
  <2>1. Stage(g)' = "idle" /\ \A k \in Guilds \ {g} : Stage(k)' = Stage(k)
    BY <1>2, GotoMoves DEF EmplaceBot
  <2> QED
    BY <1>2, <2>1, DataFrame DEF EmplaceBot
<1>3. CASE EraseInfo(g)
  <2>1. Stage(g)' = "eraseBot" /\ \A k \in Guilds \ {g} : Stage(k)' = Stage(k)
    BY <1>3, GotoMoves DEF EraseInfo
  <2>2. \A k \in DOMAIN programinfos \ {g} : programinfos'[k] = programinfos[k]
                                             /\ k \in DOMAIN programinfos'
    BY <1>3 DEF EraseInfo, Erase
  <2> QED
    BY <2>1, <2>2, DataFrame
<1>4. CASE EraseBot(g) \/ Home(g) \/ SetAutoUpdate(g)
  <2>1. Stage(g)' = "idle" /\ \A k \in Guilds \ {g} : Stage(k)' = Stage(k)
    BY <1>4, GotoMoves DEF EraseBot, Home, SetAutoUpdate
  <2> QED
    BY <1>4, <2>1, DataFrame DEF EraseBot, Home, SetAutoUpdate
<1>5. CASE ChangeIp(g) \/ ChangePort(g) \/ ChangeRequest(g)
  <2>1. /\ Stage(g)' \in {"changePort", "changeRequest", "idle"}
        /\ \A k \in Guilds \ {g} : Stage(k)' = Stage(k)
    <3>1. CASE ChangeIp(g)
      BY <3>1, GotoMoves DEF ChangeIp
    <3>2. CASE ChangePort(g)
      BY <3>2, GotoMoves DEF ChangePort
    <3>3. CASE ChangeRequest(g)
      BY <3>3, GotoMoves DEF ChangeRequest
    <3> QED
      BY <1>5, <3>1, <3>2, <3>3
  <2>2. \A k \in DOMAIN programinfos \ {g} : programinfos'[k] = programinfos[k]
                                             /\ k \in DOMAIN programinfos'
    BY <1>5 DEF ChangeIp, ChangePort, ChangeRequest
  <2> QED
    BY <2>1, <2>2, DataFrame
<1>6. CASE \/ TestNull(g) \/ ReadOnline(g) \/ ReadTexts(g)
           \/ ReadCount(g) \/ ReadNames(g)
  <2>1. CASE Halt("terminated")
    <3>1. UNCHANGED <<programinfos, handler>>
      BY <2>1 DEF Halt, regVars
    <3> QED
      BY <3>1, DataFrame DEF Stage
  <2>2. CASE ~Halt("terminated")
    <3>1. /\ UNCHANGED programinfos
          /\ Stage(g) \in InfoReads
          /\ \A k \in Guilds \ {g} : Stage(k)' = Stage(k)
          /\ Stage(g) = "isnull" => Stage(g)' = "idle" \/ programinfos[g].serverdata # None
      BY <1>6, <2>2, InfoReadMoves DEF NothingWritten, regVars, Data
    <3>2. g \in DOMAIN programinfos
      BY <3>1 DEF MapsAgree, CommandsHaveGuild
    <3> QED
      BY <3>1, <3>2 DEF CommandsReadData
  <2> QED
    BY <2>1, <2>2
<1> QED
  BY <1>1, <1>2, <1>3, <1>4, <1>5, <1>6 DEF HandlerStep

\* main(): an answer is only ever replaced by one that json::parse accepted.
LEMMA MainKeepsData ==
  ASSUME IInv, MainStep
  PROVE  CommandsReadData'
<1> USE DEF IInv, CoreInv
<1>1. UNCHANGED handler
  BY DEF MainStep, ResolveDns, LoopTest, NextGuild, Sleep, CheckConfigured, Connect,
         StartRead, BuildRequest, WriteRequest, AwaitDone, ParseAnswer, DecideAutoMsg,
         SendAutoMsg, SaveOld, StopIo, ShutdownCluster, JoinStop, Continue,
         HandlersUntouched, Halt
<1>2. \A k \in Guilds : Stage(k)' = Stage(k)
  BY <1>1 DEF Stage
<1>3. CASE BuildRequest \/ SaveOld \/ ParseAnswer
  <2>1. \A k \in DOMAIN programinfos :
          /\ k \in DOMAIN programinfos'
          /\ programinfos[k].serverdata # None => programinfos'[k].serverdata # None
    <3>1. CASE \E how : Halt(how)
      BY <3>1 DEF Halt, regVars
    <3>2. CASE ~\E how : Halt(how)
      <4>1. PICK field, v :
              /\ field \in {"webrequest", "oldserver", "serverdata"}
              /\ programinfos' = [programinfos EXCEPT ![cur][field] = v]
              /\ field = "serverdata" => v # None
        BY <1>3, <3>2 DEF BuildRequest, SaveOld, ParseAnswer
      <4>2. \A k \in DOMAIN programinfos : programinfos[k] \in ProgramInfo
        BY DEF TypeOK
      <4> QED
        BY <4>1, <4>2 DEF ProgramInfo
    <3> QED
      BY <3>1, <3>2
  <2> QED
    BY <1>2, <2>1, DataFrame
<1>4. CASE ~(BuildRequest \/ SaveOld \/ ParseAnswer)
  <2>1. UNCHANGED programinfos
    BY <1>4 DEF MainStep, ResolveDns, LoopTest, NextGuild, Sleep, CheckConfigured, Connect,
         StartRead, WriteRequest, AwaitDone, DecideAutoMsg,
         SendAutoMsg, StopIo, ShutdownCluster, JoinStop, Halt, regVars
  <2> QED
    BY <1>2, <2>1, DataFrame
<1> QED
  BY <1>3, <1>4

LEMMA DataKept == IInv /\ [Next]_vars => CommandsReadData'
<1> SUFFICES ASSUME IInv, [Next]_vars PROVE CommandsReadData'
  OBVIOUS
<1>1. ASSUME NEW g \in Guilds, Event(g) PROVE CommandsReadData'
  <2>1. /\ UNCHANGED programinfos
        /\ \E at, arg, info : at \in Steps \ DataReads /\ Deliver(g, at, arg, info)
    BY <1>1 DEF Event, GuildCreate, GuildDelete, SlashHome, SlashChange, SlashAutoUpdate,
           SlashInfo, Deliver, regVars, Steps
  <2>2. \A k \in Guilds : Stage(k)' \in DataReads => Stage(k) \in DataReads
    BY <2>1, ConstantsAssumption DEF Deliver, Stage, Idle, IInv, CoreInv, TypeOK
  <2> QED
    BY <2>1, <2>2, DataFrame DEF IInv
<1>2. CASE NetworkStep \/ StopKey \/ RaceBites \/ UNCHANGED vars
  <2>1. UNCHANGED <<handler, programinfos>>
    BY <1>2 DEF NetworkStep, ReceiveBody, ReadFinished, ReadFailed, StopKey, RaceBites,
           Halt, HandlersUntouched, regVars, vars
  <2> QED
    BY <2>1, DataFrame DEF Stage, IInv
<1> QED
  BY <1>1, <1>2, HandlerKeepsData, MainKeepsData DEF Next, Ended

-----------------------------------------------------------------------------
(* A guild joins with a new entry.                                         *)

\* main() writes to programinfos only: one field of the entry it stands on, which is
\* there and has an address.
LEMMA MainWrites ==
  ASSUME IInv, MainStep
  PROVE  /\ UNCHANGED <<bots, handler>>
         /\ \/ UNCHANGED programinfos
            \/ /\ cur \in DOMAIN programinfos /\ programinfos[cur].serverip # None
               /\ \/ programinfos' = [programinfos EXCEPT ![cur].webrequest = MakeRequest(cur)]
                  \/ /\ readbuf \in Snapshot
                     /\ programinfos' = [programinfos EXCEPT ![cur].serverdata = readbuf]
                  \/ programinfos' = [programinfos EXCEPT ![cur].oldserver =
                                       programinfos[cur].serverdata]
<1>1. UNCHANGED <<bots, handler>>
  BY DEF MainStep, ResolveDns, LoopTest, NextGuild, Sleep, CheckConfigured, Connect,
         StartRead, BuildRequest, WriteRequest, AwaitDone, ParseAnswer, DecideAutoMsg,
         SendAutoMsg, SaveOld, StopIo, ShutdownCluster, JoinStop, Continue,
         HandlersUntouched, Halt, regVars
<1>2. CASE UNCHANGED programinfos
  BY <1>1, <1>2
<1>3. CASE ~UNCHANGED programinfos
  <2>1. BuildRequest \/ ParseAnswer \/ SaveOld
    BY <1>3 DEF MainStep, ResolveDns, LoopTest, NextGuild, Sleep, CheckConfigured, Connect,
         StartRead, WriteRequest, AwaitDone, DecideAutoMsg,
         SendAutoMsg, StopIo, ShutdownCluster, JoinStop, Halt, regVars
  <2>2. ~dangling /\ pc \in {"request", "parse", "save"}
    BY <1>3, <2>1 DEF BuildRequest, ParseAnswer, SaveOld, At, Halt, regVars
  <2>3. cur \in DOMAIN programinfos /\ programinfos[cur].serverip # None
    BY <2>2 DEF IInv, CoreInv, IteratorValid, Visit
  <2>4. CASE BuildRequest
    BY <1>1, <1>3, <2>3, <2>4 DEF BuildRequest, Halt, regVars
  <2>5. CASE ParseAnswer
    BY <1>1, <1>3, <2>3, <2>5 DEF ParseAnswer, Halt, regVars, IInv, CoreInv, TypeOK
  <2>6. CASE SaveOld
    BY <1>1, <1>3, <2>3, <2>6 DEF SaveOld, Halt, regVars
  <2> QED
    BY <2>1, <2>4, <2>5, <2>6
<1> QED
  BY <1>2, <1>3

\* A step by which no guild comes to wait for its bots entry, and none that waits
\* gets another entry in programinfos.
LEMMA FreshFrame ==
  ASSUME JoinsFresh,
         \A k \in Guilds : Stage(k)' = "emplaceBot" /\ k \notin DOMAIN bots' =>
           /\ Stage(k) = "emplaceBot" /\ k \notin DOMAIN bots
           /\ programinfos'[k] = programinfos[k]
  PROVE  JoinsFresh'
BY DEF JoinsFresh

\* The handlers: a guild waits for its bots entry only between the two emplaces.
LEMMA HandlerKeepsFresh ==
  ASSUME IInv, NEW g \in Guilds, HandlerStep(g)
  PROVE  JoinsFresh'
<1> USE ConstantsAssumption DEF IInv, CoreInv, Steps
<1>1. CASE EmplaceInfo(g)
  <2>1. Stage(g) = "emplaceInfo" /\ \A k \in Guilds \ {g} : Stage(k)' = Stage(k)
    BY <1>1, GotoMoves DEF EmplaceInfo
  <2>2. /\ bots' = bots /\ programinfos' = Emplace(programinfos, g, NewProgramInfo)
        /\ g \in DOMAIN programinfos <=> g \in DOMAIN bots
    BY <1>1, <2>1 DEF EmplaceInfo, MapsAgree
  <2>3. \A k \in Guilds \ {g} :
          Stage(k)' = "emplaceBot" => programinfos'[k] = programinfos[k]
    BY <2>1, <2>2 DEF Emplace, MapsAgree
  <2>4. g \notin DOMAIN bots => programinfos'[g] = NewProgramInfo
    BY <2>2 DEF Emplace
  <2> QED
    BY <2>1, <2>2, <2>3, <2>4 DEF JoinsFresh
<1>2. CASE EmplaceBot(g)
  <2>1. Stage(g)' = "idle" /\ \A k \in Guilds \ {g} : Stage(k)' = Stage(k)
    BY <1>2, GotoMoves DEF EmplaceBot
  <2>2. programinfos' = programinfos /\ DOMAIN bots \subseteq DOMAIN bots'
    BY <1>2 DEF EmplaceBot, Emplace
  <2> QED
    BY <2>1, <2>2, FreshFrame
<1>3. CASE EraseInfo(g)
  <2>1. Stage(g)' = "eraseBot" /\ \A k \in Guilds \ {g} : Stage(k)' = Stage(k)
    BY <1>3, GotoMoves DEF EraseInfo
  <2>2. bots' = bots /\ \A k \in DOMAIN programinfos \ {g} : programinfos'[k] = programinfos[k]
    BY <1>3 DEF EraseInfo, Erase
  <2> QED
    BY <2>1, <2>2, FreshFrame DEF MapsAgree
<1>4. CASE EraseBot(g) \/ Home(g) \/ SetAutoUpdate(g)
  <2>1. Stage(g)' = "idle" /\ \A k \in Guilds \ {g} : Stage(k)' = Stage(k)
    BY <1>4, GotoMoves DEF EraseBot, Home, SetAutoUpdate
  <2>2. programinfos' = programinfos /\ DOMAIN bots \ {g} \subseteq DOMAIN bots'
    BY <1>4 DEF EraseBot, Erase, Home, SetAutoUpdate
  <2> QED
    BY <2>1, <2>2, FreshFrame
<1>5. CASE ChangeIp(g) \/ ChangePort(g) \/ ChangeRequest(g)
  <2>1. /\ Stage(g)' \in {"changePort", "changeRequest", "idle"}
        /\ \A k \in Guilds \ {g} : Stage(k)' = Stage(k)
    <3>1. CASE ChangeIp(g)
      BY <3>1, GotoMoves DEF ChangeIp
    <3>2. CASE ChangePort(g)
      BY <3>2, GotoMoves DEF ChangePort
    <3>3. CASE ChangeRequest(g)
      BY <3>3, GotoMoves DEF ChangeRequest
    <3> QED
      BY <1>5, <3>1, <3>2, <3>3
  <2>2. bots' = bots /\ \A k \in DOMAIN programinfos \ {g} : programinfos'[k] = programinfos[k]
    BY <1>5 DEF ChangeIp, ChangePort, ChangeRequest
  <2> QED
    BY <2>1, <2>2, FreshFrame DEF MapsAgree
<1>6. CASE \/ TestNull(g) \/ ReadOnline(g) \/ ReadTexts(g)
           \/ ReadCount(g) \/ ReadNames(g)
  <2>1. CASE Halt("terminated")
    <3>1. UNCHANGED <<programinfos, bots, handler>>
      BY <2>1 DEF Halt, regVars
    <3> QED
      BY <3>1, FreshFrame DEF Stage
  <2>2. CASE ~Halt("terminated")
    <3>1. /\ UNCHANGED <<programinfos, bots>>
          /\ Stage(g)' # "emplaceBot"
          /\ \A k \in Guilds \ {g} : Stage(k)' = Stage(k)
      BY <1>6, <2>2, InfoReadMoves DEF NothingWritten, regVars
    <3> QED
      BY <3>1, FreshFrame
  <2> QED
    BY <2>1, <2>2
<1> QED
  BY <1>1, <1>2, <1>3, <1>4, <1>5, <1>6 DEF HandlerStep

LEMMA FreshKept == IInv /\ [Next]_vars => JoinsFresh'
<1> SUFFICES ASSUME IInv, [Next]_vars PROVE JoinsFresh'
  OBVIOUS
<1>1. ASSUME NEW g \in Guilds, Event(g) PROVE JoinsFresh'
  <2>1. /\ UNCHANGED <<programinfos, bots>>
        /\ \E at, arg, info : at \in Steps \ {"emplaceBot"} /\ Deliver(g, at, arg, info)
    BY <1>1 DEF Event, GuildCreate, GuildDelete, SlashHome, SlashChange, SlashAutoUpdate,
           SlashInfo, Deliver, regVars, Steps
  <2>2. \A k \in Guilds : Stage(k)' = "emplaceBot" => Stage(k) = "emplaceBot"
    BY <2>1, ConstantsAssumption DEF Deliver, Stage, Idle, IInv, CoreInv, TypeOK
  <2> QED
    BY <2>1, <2>2, FreshFrame DEF IInv
<1>2. CASE MainStep
  <2>1. \A k \in Guilds : Stage(k)' = Stage(k)
    BY <1>2, MainWrites DEF Stage
  <2>2. \A k \in Guilds : Stage(k) = "emplaceBot" /\ k \notin DOMAIN bots =>
                          programinfos[k].serverip = None
    BY DEF IInv, CoreInv, MapsAgree
  <2>3. \A k \in Guilds : Stage(k) = "emplaceBot" /\ k \notin DOMAIN bots =>
                          programinfos'[k] = programinfos[k]
    BY <1>2, <2>2, MainWrites DEF IInv, CoreInv, MapsAgree
  <2> QED
    BY <1>2, <2>1, <2>3, MainWrites, FreshFrame DEF IInv
<1>3. CASE NetworkStep \/ StopKey \/ RaceBites \/ UNCHANGED vars
  <2>1. UNCHANGED <<handler, programinfos, bots>>
    BY <1>3 DEF NetworkStep, ReceiveBody, ReadFinished, ReadFailed, StopKey, RaceBites,
           Halt, HandlersUntouched, regVars, vars
  <2> QED
    BY <2>1, FreshFrame DEF Stage, IInv
<1> QED
  BY <1>1, <1>2, <1>3, HandlerKeepsFresh DEF Next, Ended

-----------------------------------------------------------------------------
(* main() waits only for what will come.                                   *)

LEMMA WaitsKept == IInv /\ [Next]_vars => NeverWaitsInVain'
<1> SUFFICES ASSUME IInv, [Next]_vars PROVE NeverWaitsInVain'
  OBVIOUS
<1> USE DEF IInv, NeverWaitsInVain
<1>1. ASSUME NEW g \in Guilds, Event(g) \/ HandlerStep(g)
      PROVE  UNCHANGED <<pc, reading, isdone, mainloop>>
  BY <1>1 DEF Event, GuildCreate, GuildDelete, SlashHome, SlashChange, SlashAutoUpdate,
       SlashInfo, Deliver, HandlerStep, EmplaceInfo, EmplaceBot, EraseInfo, EraseBot, Home,
       SetAutoUpdate, ChangeIp, ChangePort, ChangeRequest, TestNull, ReadOnline,
       ReadTexts, ReadCount, ReadNames, Throw, Halt, NothingWritten, MainUntouched, netVars
<1>2. CASE MainStep
  <2>1. CASE LoopTest \/ NextGuild \/ Sleep \/ ResolveDns
    BY <2>1 DEF LoopTest, NextGuild, Sleep, ResolveDns, At, Halt, Shutdown, netVars,
         HandlersUntouched
  <2>2. CASE CheckConfigured \/ Connect \/ StartRead \/ BuildRequest \/ WriteRequest
    BY <2>2 DEF CheckConfigured, Connect, StartRead, BuildRequest, WriteRequest, Continue,
         At, Halt, Shutdown, netVars, HandlersUntouched
  <2>3. CASE AwaitDone \/ ParseAnswer \/ DecideAutoMsg \/ SendAutoMsg \/ SaveOld
    BY <2>3 DEF AwaitDone, ParseAnswer, DecideAutoMsg, SendAutoMsg, SaveOld, Continue,
         At, Halt, Shutdown, netVars, HandlersUntouched
  <2>4. CASE StopIo \/ ShutdownCluster \/ JoinStop
    BY <2>4 DEF StopIo, ShutdownCluster, JoinStop, Continue,
         At, Halt, Shutdown, netVars, HandlersUntouched
  <2> QED
    BY <1>2, <2>1, <2>2, <2>3, <2>4 DEF MainStep
<1>3. CASE NetworkStep \/ StopKey \/ RaceBites \/ UNCHANGED vars
  BY <1>3 DEF NetworkStep, ReceiveBody, ReadFinished, ReadFailed, StopKey, RaceBites,
       Halt, HandlersUntouched, netVars, vars
<1> QED
  BY <1>1, <1>2, <1>3 DEF Next, Ended

-----------------------------------------------------------------------------
(* The theorems.                                                           *)

\* IInv holds in every reachable state, for any guilds, shards and answers.
THEOREM Inductive == Spec => []IInv
<1>1. Init => IInv
  BY InitEstablishes
<1>2. IInv /\ [Next]_vars => IInv'
  BY CorePreserved, DataKept, FreshKept, WaitsKept DEF IInv
<1> QED
  BY <1>1, <1>2, PTL DEF Spec

\* Every variable keeps its type.
THEOREM TypeCorrect == Spec => []TypeOK
<1>1. IInv => TypeOK
  BY DEF IInv, CoreInv
<1> QED
  BY <1>1, Inductive, PTL

\* main() and the context thread never have the read buffers at the same time.
THEOREM BuffersHandedOver == Spec => []BufferHandoff
<1>1. IInv => BufferHandoff
  BY DEF IInv, CoreInv
<1> QED
  BY <1>1, Inductive, PTL

\* An automatic message goes to a channel.
THEOREM PostsGoToAChannel == Spec => []NeverPostsToNoChannel
<1>1. IInv => NeverPostsToNoChannel
  BY DEF IInv, CoreInv
<1> QED
  BY <1>1, Inductive, PTL

\* sendautomsg finds the bots entry of every guild it has an address for.
THEOREM ConfiguredGuildsHaveBots == Spec => []ConfiguredHasBot
<1>1. IInv => ConfiguredHasBot
  BY DEF IInv, CoreInv, TypeOK, MapsAgree, ConfiguredHasBot
<1> QED
  BY <1>1, Inductive, PTL

\* The lookups of the event handlers never fail.
THEOREM HandlerLookupsSucceed == Spec => []HandlersFindTheirGuild
<1>1. IInv => HandlersFindTheirGuild
  <2> SUFFICES ASSUME IInv, NEW g \in Guilds
               PROVE  /\ Busy(g, InfoUsers \ {"emplaceInfo"}) => g \in DOMAIN programinfos
                      /\ Busy(g, Commands \cup {"eraseInfo", "eraseBot"}) => g \in DOMAIN bots
    BY DEF HandlersFindTheirGuild
  <2>1. \A steps : Busy(g, steps) => Stage(g) \in steps
    BY DEF Busy, Stage
  <2> QED
    BY <2>1 DEF IInv, CoreInv, MapsAgree, CommandsHaveGuild, InfoUsers
<1> QED
  BY <1>1, Inductive, PTL

\* An information command never finds the answer gone that it has begun to read.
THEOREM CommandsKeepTheirAnswer == Spec => []CommandsReadData
<1>1. IInv => CommandsReadData
  BY DEF IInv
<1> QED
  BY <1>1, Inductive, PTL

\* main() never waits for what cannot come any more.
THEOREM WaitsEnd == Spec => []NeverWaitsInVain
<1>1. IInv => NeverWaitsInVain
  BY DEF IInv
<1> QED
  BY <1>1, Inductive, PTL

\* What is between main() and the context thread is a run of Transfer: only
\* StartRead, ReceiveBody and ReadFinished touch it, and StartRead finds the last
\* read over.
LEMMA StepFollowsTransfer ==
  IInv /\ [Next]_vars => [T!Next]_<<reading, isdone, readbuf>>
<1> SUFFICES ASSUME IInv, [Next]_vars, ~UNCHANGED <<reading, isdone, readbuf>>
             PROVE  T!Next
  OBVIOUS
<1>1. \A how : ~Halt(how)
  BY DEF Halt, netVars, msgVars
<1>2. ~\E g \in Guilds : Event(g) \/ HandlerStep(g)
  <2>1. ASSUME NEW g \in Guilds, Event(g) PROVE UNCHANGED netVars
    BY <2>1 DEF Event, GuildCreate, GuildDelete, SlashHome, SlashChange, SlashAutoUpdate,
           SlashInfo, Deliver, MainUntouched
  <2>2. ASSUME NEW g \in Guilds, HandlerStep(g) PROVE UNCHANGED netVars
    BY <1>1, <2>2 DEF HandlerStep, EmplaceInfo, EmplaceBot, EraseInfo, EraseBot, Home,
           SetAutoUpdate, ChangeIp, ChangePort, ChangeRequest, TestNull, ReadOnline,
           ReadTexts, ReadCount, ReadNames, Throw, NothingWritten, MainUntouched
  <2> QED
    BY <2>1, <2>2 DEF netVars, msgVars
<1>3. StartRead \/ ReceiveBody \/ ReadFinished
  BY <1>1, <1>2 DEF Next, vars, MainStep, NetworkStep, ResolveDns, LoopTest, NextGuild,
         Sleep, CheckConfigured, Connect, BuildRequest, WriteRequest, AwaitDone,
         ParseAnswer, DecideAutoMsg, SendAutoMsg, SaveOld, StopIo, ShutdownCluster,
         JoinStop, ReadFailed, StopKey, RaceBites, Ended, netVars, msgVars
<1>4. CASE StartRead
  <2>1. ~reading
    BY <1>4 DEF StartRead, At, IInv, CoreInv, BufferHandoff
  <2> QED
    BY <1>4, <2>1 DEF StartRead, T!Next, T!Begin
<1>5. CASE ReceiveBody
  <2>1. PICK r \in Reports : readbuf' = [about |-> asked, says |-> r]
    BY <1>5 DEF ReceiveBody
  <2>2. r \in Report /\ asked \in Request
    BY <1>5, ConstantsAssumption DEF ReceiveBody, IInv, CoreInv, TypeOK
  <2>3. readbuf' \in Snapshot
    BY <2>1, <2>2 DEF Snapshot
  <2> QED
    BY <1>5, <2>3 DEF ReceiveBody, T!Next, T!Arrive
<1>6. CASE ReadFinished
  BY <1>6 DEF ReadFinished, T!Next, T!End
<1> QED
  BY <1>3, <1>4, <1>5, <1>6

\* StatusBot implements the part of main() in Transfer.
THEOREM ImplementsTransfer == Spec => FollowsTransfer
<1>1. Init => T!Init
  BY DEF Init, T!Init
<1>2. IInv /\ [Next]_vars => [T!Next]_T!transferVars
  BY StepFollowsTransfer DEF T!transferVars
<1> QED
  BY <1>1, <1>2, Inductive, PTL DEF Spec, FollowsTransfer, T!Spec

-----------------------------------------------------------------------------
(* The way to the end.                                                     *)

\* The keys of programinfos are finitely many: a step adds at most one.
LEMMA FinitelyManyGuilds ==
  IInv /\ [Next]_vars /\ IsFiniteSet(DOMAIN programinfos) => IsFiniteSet(DOMAIN programinfos')
<1> SUFFICES ASSUME IInv, [Next]_vars, IsFiniteSet(DOMAIN programinfos)
             PROVE  IsFiniteSet(DOMAIN programinfos')
  OBVIOUS
<1>1. \E g : DOMAIN programinfos' \subseteq DOMAIN programinfos \cup {g}
  <2>1. ASSUME NEW g \in Guilds, Event(g) PROVE UNCHANGED programinfos
    BY <2>1 DEF Event, GuildCreate, GuildDelete, SlashHome, SlashChange, SlashAutoUpdate,
           SlashInfo, Deliver, regVars
  <2>2. ASSUME NEW g \in Guilds, HandlerStep(g)
        PROVE  DOMAIN programinfos' \subseteq DOMAIN programinfos \cup {g}
    BY <2>2 DEF HandlerStep, EmplaceInfo, EmplaceBot, EraseInfo, EraseBot, Home, Emplace,
           Erase, SetAutoUpdate, ChangeIp, ChangePort, ChangeRequest, TestNull, ReadOnline,
           ReadTexts, ReadCount, ReadNames, Throw, Halt, NothingWritten, regVars
  <2>3. CASE MainStep
    BY <2>3, MainWrites
  <2>4. CASE NetworkStep \/ StopKey \/ RaceBites \/ UNCHANGED vars
    BY <2>4 DEF NetworkStep, ReceiveBody, ReadFinished, ReadFailed, StopKey, RaceBites,
           Halt, regVars, vars
  <2> QED
    BY <2>1, <2>2, <2>3, <2>4 DEF Next, Ended
<1>2. PICK g : DOMAIN programinfos' \subseteq DOMAIN programinfos \cup {g}
  BY <1>1
<1>3. IsFiniteSet(DOMAIN programinfos \cup {g})
  BY FS_AddElement
<1> QED
  BY <1>2, <1>3, FS_Subset

\* Once the key has been read, main() does not start a pass; what it executes comes
\* later in the program, or takes a guild out of those to come.
LEMMA MainCountsDown ==
  ASSUME IInv, MainStep, IsFiniteSet(DOMAIN programinfos), ~mainloop,
         status' = "running"
  PROVE  UNCHANGED <<pc, pending, ticks>> \/ StepsLeft' < StepsLeft
<1> DEFINE n == Cardinality(pending)
<1>1. IsFiniteSet(pending) /\ n \in Nat
  BY FS_Subset, FS_CardinalityType DEF IInv, CoreInv, IteratorValid
<1>2. \A how : Halt(how) => how = "running" /\ UNCHANGED <<pc, pending, ticks>>
  BY DEF Halt, iterVars
<1>3. CASE NextGuild
  <2>1. CASE ~\E g \in pending : cur' = g /\ pending' = pending \ {g}
    BY <1>1, <1>2, <1>3, <2>1 DEF NextGuild, At, StepsLeft, StatementsLeft
  <2>2. CASE \E g \in pending : cur' = g /\ pending' = pending \ {g}
    <3>1. Cardinality(pending') = n - 1
      BY <1>1, <2>2, FS_RemoveElement
    <3>2. pc = "next" /\ (pc' = "check" \/ UNCHANGED <<pc, pending, ticks>> \/ pending = {})
      BY <1>2, <1>3 DEF NextGuild, At
    <3> QED
      BY <1>1, <2>2, <3>1, <3>2 DEF StepsLeft, StatementsLeft
  <2> QED
    BY <2>1, <2>2
<1>4. CASE ~NextGuild
  <2>1. \/ UNCHANGED <<pc, pending, ticks>>
        \/ UNCHANGED pending /\ StatementsLeft[pc'] < StatementsLeft[pc]
    <3> USE DEF StatementsLeft, At, Continue, iterVars
    <3>1. CASE ResolveDns \/ LoopTest \/ Sleep
      BY <1>2, <3>1 DEF ResolveDns, LoopTest, Sleep
    <3>2. CASE CheckConfigured \/ Connect \/ StartRead \/ BuildRequest \/ WriteRequest
      BY <1>2, <3>2 DEF CheckConfigured, Connect, StartRead, BuildRequest, WriteRequest
    <3>3. CASE AwaitDone \/ ParseAnswer \/ DecideAutoMsg \/ SendAutoMsg \/ SaveOld
      BY <1>2, <3>3 DEF AwaitDone, ParseAnswer, DecideAutoMsg, SendAutoMsg, SaveOld
    <3>4. CASE StopIo \/ ShutdownCluster \/ JoinStop
      BY <1>2, <3>4 DEF StopIo, ShutdownCluster, JoinStop
    <3> QED
      BY <1>4, <3>1, <3>2, <3>3, <3>4 DEF MainStep
  <2>2. pc \in MainPc /\ pc' \in MainPc
    BY CorePreserved DEF IInv, CoreInv, TypeOK, Next
  <2>3. \A p \in MainPc : StatementsLeft[p] \in Nat
    BY DEF MainPc, Pass, Visit, Shutdown, StatementsLeft
  <2> HIDE DEF n
  <2>4. CASE UNCHANGED pending /\ StatementsLeft[pc'] < StatementsLeft[pc]
    BY <1>1, <2>2, <2>3, <2>4 DEF StepsLeft, n
  <2> QED
    BY <2>1, <2>4
<1> QED
  BY <1>3, <1>4

\* After the key the steps of main() that are left can be counted.
THEOREM QuitIsNear == Spec => QuitCountsDown
<1> DEFINE Finite == IsFiniteSet(DOMAIN programinfos)
<1>1. Init => Finite
  BY FS_EmptySet DEF Init
<1>2. IInv /\ Finite /\ [Next]_vars => Finite'
  BY FinitelyManyGuilds
<1>3. IInv /\ Finite /\ [Next]_vars =>
        [~mainloop =>
           \/ status' # "running"
           \/ UNCHANGED <<pc, pending, ticks>>
           \/ StepsLeft' < StepsLeft
           \/ ~(DOMAIN programinfos' \subseteq DOMAIN programinfos)]_vars
  <2> SUFFICES ASSUME IInv, Finite, [Next]_vars, ~mainloop, status' = "running",
                      ~UNCHANGED <<pc, pending, ticks>>,
                      DOMAIN programinfos' \subseteq DOMAIN programinfos
               PROVE  StepsLeft' < StepsLeft
    OBVIOUS
  <2>1. ASSUME NEW g \in Guilds, Event(g) PROVE FALSE
    BY <2>1 DEF Event, GuildCreate, GuildDelete, SlashHome, SlashChange, SlashAutoUpdate,
           SlashInfo, Deliver, MainUntouched
  <2>2. ASSUME NEW g \in Guilds, HandlerStep(g) PROVE StepsLeft' < StepsLeft
    <3>1. CASE EmplaceInfo(g)
      <4>1. g \in DOMAIN programinfos
        BY <3>1 DEF EmplaceInfo, Emplace
      <4> QED
        BY <3>1, <4>1 DEF EmplaceInfo, MainUntouched
    <3>2. CASE EraseInfo(g)
      <4>1. pending' = pending \ {g} /\ UNCHANGED <<pc, ticks>>
        BY <3>2 DEF EraseInfo, MainUntouched
      <4>2. g \in pending
        BY <4>1
      <4>3. IsFiniteSet(pending)
        BY FS_Subset DEF IInv, CoreInv, IteratorValid
      <4>4. Cardinality(pending) \in Nat /\ Cardinality(pending') = Cardinality(pending) - 1
        BY <4>1, <4>2, <4>3, FS_CardinalityType, FS_RemoveElement
      <4>5. StatementsLeft[pc] \in Nat
        BY DEF IInv, CoreInv, TypeOK, MainPc, Pass, Visit, Shutdown, StatementsLeft
      <4> QED
        BY <4>1, <4>4, <4>5 DEF StepsLeft
    <3>3. CASE ~(EmplaceInfo(g) \/ EraseInfo(g))
      BY <2>2, <3>3 DEF HandlerStep, EmplaceBot, EraseBot, Home,
           SetAutoUpdate, ChangeIp, ChangePort, ChangeRequest, TestNull, ReadOnline,
           ReadTexts, ReadCount, ReadNames, Throw, Halt, NothingWritten, MainUntouched, iterVars
    <3> QED
      BY <3>1, <3>2, <3>3
  <2>3. CASE NetworkStep \/ StopKey \/ RaceBites \/ UNCHANGED vars
    BY <2>3 DEF NetworkStep, ReceiveBody, ReadFinished, ReadFailed, StopKey, RaceBites,
           Halt, iterVars, vars
  <2> QED
    BY <2>1, <2>2, <2>3, MainCountsDown DEF Next, Ended
<1> QED
  BY <1>1, <1>2, <1>3, Inductive, PTL DEF Spec, QuitCountsDown

-----------------------------------------------------------------------------
(* Why the process fails.                                                  *)

\* The end of the process leaves everything as it was, the cause included.
LEMMA CauseStands ==
  ASSUME UNCHANGED <<programinfos, bots, cache, handler, pc, cur, dangling, readbuf>>
  PROVE  /\ DataRace' <=> DataRace
         /\ VisitedLeft' <=> VisitedLeft
         /\ Throwing' <=> Throwing
<1>1. DataRace' <=> DataRace
  BY DEF DataRace, MainUsesInfos, MainUsesBots, MainUsesString, MainUsesData, Lacks, Data
<1>2. VisitedLeft' <=> VisitedLeft
  BY DEF VisitedLeft
<1>3. Unreadable' <=> Unreadable
  BY DEF Unreadable, Wanted, Readable, CountsDiffer, PlayersOld
<1>4. \A g \in Guilds : CommandFails(g)' <=> CommandFails(g)
  BY DEF CommandFails, Stage, Lacks, Data
<1> QED
  BY <1>1, <1>2, <1>3, <1>4 DEF Throwing

\* An end with a cause is accounted for.
LEMMA HaltAccounted ==
  ASSUME NEW how, Halt(how),
         how = "undefined" => DataRace \/ VisitedLeft,
         how = "terminated" => Throwing
  PROVE  FailuresAccounted'
<1>1. /\ status' = how
      /\ UNCHANGED <<programinfos, bots, cache, handler, pc, cur, dangling, readbuf>>
  BY DEF Halt, regVars, iterVars, netVars
<1> QED
  BY <1>1, CauseStands DEF FailuresAccounted

\* main() finds what it looks up unless the guild it stands on has left, or the answer
\* is no good.
LEMMA MainAccounted ==
  ASSUME IInv, MainStep
  PROVE  FailuresAccounted'
<1> USE DEF FailuresAccounted, Running, At
<1>1. CASE status' = "running"
  BY <1>1
<1>2. CASE status' # "running"
  <2> USE <1>2
  <2>1. CASE NextGuild \/ CheckConfigured \/ WriteRequest \/ SaveOld
    <3>1. Halt("undefined") /\ VisitedLeft
      BY <2>1 DEF NextGuild, CheckConfigured, WriteRequest, SaveOld, Continue, VisitedLeft
    <3> QED
      BY <3>1, HaltAccounted
  <2>2. CASE BuildRequest
    <3>1. dangling /\ pc = "request" /\ \E how \in {"terminated", "undefined"} : Halt(how)
      BY <2>2 DEF BuildRequest, Continue, IInv, CoreInv, IteratorValid, Visit
    <3> QED
      BY <3>1, HaltAccounted DEF VisitedLeft, Throwing
  <2>3. CASE ParseAnswer
    <3>1. \/ Halt("terminated") /\ pc = "parse" /\ readbuf = None
          \/ Halt("undefined") /\ dangling
      BY <2>3 DEF ParseAnswer, Continue
    <3> QED
      BY <3>1, HaltAccounted DEF VisitedLeft, Throwing
  <2>4. CASE DecideAutoMsg
    <3>1. /\ Halt("terminated") /\ pc = "automsg"
          /\ \/ cur \notin DOMAIN bots
             \/ bots[cur].channelid # None /\ cur \notin DOMAIN programinfos
             \/ Wanted(cur) /\ ~Readable(cur)
      BY <2>4 DEF DecideAutoMsg, Continue
    <3>2. ASSUME ~dangling PROVE cur \in DOMAIN bots \cap DOMAIN programinfos
      BY <3>1, <3>2 DEF IInv, CoreInv, IteratorValid, Visit, MapsAgree
    <3>3. Throwing
      BY <3>1, <3>2 DEF Throwing, Unreadable
    <3> QED
      BY <3>1, <3>3, HaltAccounted
  <2>5. CASE SendAutoMsg
    <3>1. Halt("terminated") /\ pc = "send" /\ cur \notin DOMAIN bots
      BY <2>5 DEF SendAutoMsg, Continue
    <3>2. dangling
      BY <3>1 DEF IInv, CoreInv, IteratorValid, Visit, MapsAgree
    <3> QED
      BY <3>1, <3>2, HaltAccounted DEF Throwing
  <2>6. CASE ResolveDns \/ Connect \/ JoinStop
    <3>1. \E how \in {"exited", "returned"} : Halt(how)
      BY <2>6 DEF ResolveDns, Connect, JoinStop, Continue
    <3> QED
      BY <3>1, HaltAccounted
  <2>7. CASE LoopTest \/ Sleep \/ StartRead \/ AwaitDone \/ StopIo \/ ShutdownCluster
    BY <2>7 DEF LoopTest, Sleep, StartRead, AwaitDone, StopIo, ShutdownCluster, Continue
  <2> QED
    BY <2>1, <2>2, <2>3, <2>4, <2>5, <2>6, <2>7 DEF MainStep
<1> QED
  BY <1>1, <1>2

\* A command throws over a field that its answer lacks, or over two answers.
LEMMA CommandAccounted ==
  ASSUME IInv, NEW g \in Guilds, HandlerStep(g)
  PROVE  FailuresAccounted'
<1> USE DEF FailuresAccounted, Running
<1>1. CASE status' = "running"
  BY <1>1
<1>2. CASE status' # "running"
  <2>1. /\ Halt("terminated")
        /\ ReadOnline(g) \/ ReadTexts(g) \/ ReadCount(g) \/ ReadNames(g)
    BY <1>2 DEF HandlerStep, EmplaceInfo, EmplaceBot, EraseInfo, EraseBot, Home,
         SetAutoUpdate, ChangeIp, ChangePort, ChangeRequest, TestNull, ReadOnline,
         ReadTexts, ReadCount, ReadNames, Throw, NothingWritten, MainUntouched, Busy
  <2>2. handler' = handler
    BY <2>1 DEF Halt
  <2>3. Stage(g) \in DataReads
    BY <2>1 DEF ReadOnline, ReadTexts, ReadCount, ReadNames, Busy, Stage
  <2>4. /\ g \in DOMAIN programinfos /\ Data(g) # None
        /\ Data(g) \in Snapshot
    BY <2>3 DEF IInv, CoreInv, CommandsReadData, Data, TypeOK, ProgramInfo
  <2>5. /\ Data(g).says.now \in Nat \cup {None}
        /\ Len(Data(g).says.sample) \in Nat
    BY <2>4 DEF Snapshot, Report
  <2>6. CASE ReadOnline(g) \/ ReadTexts(g) \/ ReadCount(g)
    <3>1. \/ Data(g).says.online = None \/ ~Data(g).says.whole
          \/ Data(g).says.now = None
      BY <1>2, <2>6 DEF ReadOnline, ReadTexts, ReadCount, NothingWritten, MainUntouched, Busy
    <3>2. Lacks(Data(g))
      BY <2>4, <3>1, ConstantsAssumption DEF Lacks
    <3> QED
      BY <2>1, <2>3, <3>2, HaltAccounted DEF Throwing, CommandFails
  <2>7. CASE ReadNames(g)
    <3>1. /\ Stage(g) = "names"
          /\ Len(Data(g).says.sample) < handler[ShardOf[g]].playersnow
      BY <1>2, <2>7 DEF ReadNames, NothingWritten, MainUntouched, Busy, Stage
    <3>2. ASSUME handler[ShardOf[g]].playersnow = Data(g).says.now
          PROVE  Lacks(Data(g))
      BY <2>4, <2>5, <3>1, <3>2, ConstantsAssumption DEF Lacks
    <3> QED
      BY <2>1, <2>3, <3>1, <3>2, HaltAccounted DEF Throwing, CommandFails
  <2> QED
    BY <2>1, <2>6, <2>7
<1> QED
  BY <1>1, <1>2

\* In every interleaving of joins, leaves, changes, commands and polls the process fails
\* only by a race, by the leave of the guild main() stands on, or over an answer.
THEOREM FailuresExplained == Spec => []FailuresAccounted
<1>1. Init => FailuresAccounted
  BY DEF Init, FailuresAccounted
<1>2. IInv /\ FailuresAccounted /\ [Next]_vars => FailuresAccounted'
  <2> SUFFICES ASSUME IInv, FailuresAccounted, [Next]_vars PROVE FailuresAccounted'
    OBVIOUS
  <2>1. ASSUME NEW g \in Guilds, Event(g) PROVE FailuresAccounted'
    BY <2>1 DEF Event, GuildCreate, GuildDelete, SlashHome, SlashChange, SlashAutoUpdate,
         SlashInfo, Deliver, MainUntouched, Running, FailuresAccounted
  <2>2. CASE ReceiveBody \/ ReadFinished \/ StopKey
    BY <2>2 DEF ReceiveBody, ReadFinished, StopKey, Running, FailuresAccounted
  <2>3. CASE ReadFailed \/ RaceBites
    BY <2>3, HaltAccounted DEF ReadFailed, RaceBites
  <2>4. CASE UNCHANGED vars
    BY <2>4, CauseStands DEF vars, FailuresAccounted
  <2> QED
    BY <2>1, <2>2, <2>3, <2>4, MainAccounted, CommandAccounted DEF Next, NetworkStep, Ended
<1> QED
  BY <1>1, <1>2, Inductive, PTL DEF Spec

=============================================================================
