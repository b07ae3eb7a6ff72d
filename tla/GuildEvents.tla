----------------------------- MODULE GuildEvents -----------------------------
(***************************************************************************)
(* The event handlers initbot() registers (botresponses.cpp) and the       *)
(* commands that change state.  The Discord library (external) runs them,  *)
(* one at a time on each shard; shards run in parallel with each other and *)
(* with main().  A handler is cut at its accesses to the shared maps.      *)
(***************************************************************************)
EXTENDS BotState

\* What a shard executes: the statement it is at, the guild the event is about, the
\* arguments of an admin command; of an information command, which one it is and
\* its local variable playersnow.
Idle == [at |-> "idle", guild |-> None, arg |-> None, info |-> None,
         playersnow |-> None]

\* The statements of the event handlers that touch shared memory.
Commands   == {"home", "enableautoupdate", "disableautoupdate"}
Changes    == {"changeIp", "changePort", "changeRequest"}
DataReads  == {"online", "texts", "count", "names"}
InfoReads  == {"isnull"} \cup DataReads
InfoWriters == {"emplaceInfo", "eraseInfo"}
BotWriters  == {"emplaceBot", "eraseBot"}

InfoCommands == {"serverinfo", "status", "players"}

Steps == InfoWriters \cup BotWriters \cup Commands \cup Changes \cup InfoReads

Busy(g, steps) ==
  Running /\ handler[ShardOf[g]].guild = g /\ handler[ShardOf[g]].at \in steps

Goto(g, at) ==
  handler' = [handler EXCEPT ![ShardOf[g]] =
                IF at = "idle" THEN Idle ELSE [@ EXCEPT !.at = at]]

\* None of the handlers touches what main() and the other threads own.
MainUntouched ==
  UNCHANGED <<status, mainloop, pc, cur, ticks, msgVars, netVars>>

-----------------------------------------------------------------------------
(* Delivery (external): the library updates its cache, then calls the      *)
(* handler.  Nothing is delivered once main() shuts the cluster down.      *)

Deliver(g, at, arg, info) ==
  /\ Running
  /\ pc \notin {"shutdown", "joinstop"}
  /\ handler[ShardOf[g]] = Idle
  /\ handler' = [handler EXCEPT ![ShardOf[g]] =
                   [at |-> at, guild |-> g, arg |-> arg, info |-> info,
                    playersnow |-> None]]
  /\ UNCHANGED <<regVars, dangling, pending>>
  /\ MainUntouched

\* GUILD_CREATE: the bot joins, or the shard has reconnected.
GuildCreate(g) == Deliver(g, "emplaceInfo", None, None) /\ cache' = cache \cup {g}

GuildDelete(g) ==
  g \in cache /\ Deliver(g, "eraseInfo", None, None) /\ cache' = cache \ {g}

SlashHome(g) ==
  /\ g \in cache
  /\ "home" \in SlashCommands
  /\ \E c \in Channels : Deliver(g, "home", c, None)
  /\ UNCHANGED cache

SlashChange(g) ==
  /\ g \in cache
  /\ "change" \in SlashCommands
  /\ \E r \in Request : Deliver(g, "changeIp", r, None)
  /\ UNCHANGED cache

SlashAutoUpdate(g) ==
  /\ g \in cache
  /\ \E at \in {"enableautoupdate", "disableautoupdate"} \cap SlashCommands :
        Deliver(g, at, None, None)
  /\ UNCHANGED cache

SlashInfo(g) ==
  /\ g \in cache
  /\ \E command \in InfoCommands \cap SlashCommands :
       Deliver(g, "isnull", None, command)
  /\ UNCHANGED cache

-----------------------------------------------------------------------------
(* on_guild_create                                                         *)

\* A new node, and after a rehash any node, may come to lie before or behind the
\* one the range-for of main() stands on: what the pass has yet to reach is open.
EmplaceInfo(g) ==
  /\ Busy(g, {"emplaceInfo"})
  /\ programinfos' = Emplace(programinfos, g, NewProgramInfo)
  /\ IF g \in DOMAIN programinfos
     THEN UNCHANGED pending
     ELSE pending' \in IF Iterating
                      THEN SUBSET ((DOMAIN programinfos \cup {g}) \ {cur})
                      ELSE {pending}
  /\ Goto(g, "emplaceBot")
  /\ UNCHANGED <<bots, cache, dangling>>
  /\ MainUntouched

\* Mutant: the guild is not added to the second map.
EmplaceBotForgets(g) ==
  /\ Busy(g, {"emplaceBot"})
  /\ Goto(g, "idle")
  /\ UNCHANGED <<programinfos, bots, cache, dangling, pending>>
  /\ MainUntouched

EmplaceBot(g) ==
  /\ Busy(g, {"emplaceBot"})
  /\ bots' = Emplace(bots, g, NewBot)
  /\ Goto(g, "idle")
  /\ UNCHANGED <<programinfos, cache, dangling, pending>>
  /\ MainUntouched

(* on_guild_delete: the node goes, whoever stands on it.                   *)

\* Mutant: the guild stays in the first map.
EraseInfoForgets(g) ==
  /\ Busy(g, {"eraseInfo"})
  /\ Goto(g, "eraseBot")
  /\ UNCHANGED <<programinfos, bots, cache, dangling, pending>>
  /\ MainUntouched

EraseInfo(g) ==
  /\ Busy(g, {"eraseInfo"})
  /\ programinfos' = Erase(programinfos, g)
  /\ pending' = pending \ {g}
  /\ dangling' = (dangling \/ cur = g)
  /\ Goto(g, "eraseBot")
  /\ UNCHANGED <<bots, cache>>
  /\ MainUntouched

\* Mutant: the guild stays in the second map.
EraseBotForgets(g) ==
  /\ Busy(g, {"eraseBot"})
  /\ Goto(g, "idle")
  /\ UNCHANGED <<programinfos, bots, cache, dangling, pending>>
  /\ MainUntouched

EraseBot(g) ==
  /\ Busy(g, {"eraseBot"})
  /\ bots' = Erase(bots, g)
  /\ Goto(g, "idle")
  /\ UNCHANGED <<programinfos, cache, dangling, pending>>
  /\ MainUntouched

-----------------------------------------------------------------------------
(* /home, /enableautoupdate, /disableautoupdate                            *)

Home(g) ==
  /\ Busy(g, {"home"})
  /\ bots' = [bots EXCEPT ![g].channelid = handler[ShardOf[g]].arg]
  /\ Goto(g, "idle")
  /\ UNCHANGED <<programinfos, cache, dangling, pending>>
  /\ MainUntouched

SetAutoUpdate(g) ==
  /\ Busy(g, {"enableautoupdate", "disableautoupdate"})
  /\ bots' = [bots EXCEPT ![g].autoenabled =
                             (handler[ShardOf[g]].at = "enableautoupdate")]
  /\ Goto(g, "idle")
  /\ UNCHANGED <<programinfos, cache, dangling, pending>>
  /\ MainUntouched

(* /change [ip] [port]: three unsynchronised writes; without a port the old *)
(* one stays.                                                              *)

ChangeIp(g) ==
  /\ Busy(g, {"changeIp"})
  /\ programinfos' = [programinfos EXCEPT ![g].serverip = handler[ShardOf[g]].arg.ip]
  /\ Goto(g, "changePort")
  /\ UNCHANGED <<bots, cache, dangling, pending>>
  /\ MainUntouched

ChangePort(g) ==
  /\ Busy(g, {"changePort"})
  /\ LET port == handler[ShardOf[g]].arg.port IN
     programinfos' = IF port = None THEN programinfos
                     ELSE [programinfos EXCEPT ![g].serverport = port]
  /\ Goto(g, "changeRequest")
  /\ UNCHANGED <<bots, cache, dangling, pending>>
  /\ MainUntouched

ChangeRequest(g) ==
  /\ Busy(g, {"changeRequest"})
  /\ programinfos' = [programinfos EXCEPT ![g].webrequest = MakeRequest(g)]
  /\ Goto(g, "idle")
  /\ UNCHANGED <<bots, cache, dangling, pending>>
  /\ MainUntouched

-----------------------------------------------------------------------------
(* /serverinfo, /status, /players read the latest answer field by field, each *)
(* time looked up in the map; main() may assign it in between.                *)

NothingWritten ==
  UNCHANGED <<regVars, cache, dangling, pending>> /\ MainUntouched

\* get<>() of a missing field throws out of the handler into the library
\* (external), which drops the event or lets the process end.
Throw(g) == \/ Goto(g, "idle") /\ NothingWritten
            \/ Halt("terminated")

Data(g) == programinfos[g].serverdata

\* Mutant: the test for a missing answer is forgotten.
SkipNull(g) ==
  /\ Busy(g, {"isnull"})
  /\ Goto(g, IF handler[ShardOf[g]].info = "players" THEN "count" ELSE "online")
  /\ NothingWritten

\* "No server information available yet"
TestNull(g) ==
  /\ Busy(g, {"isnull"})
  /\ Goto(g, IF Data(g) = None THEN "idle"
             ELSE IF handler[ShardOf[g]].info = "players" THEN "count" ELSE "online")
  /\ NothingWritten

\* "This server is currently offline."
ReadOnline(g) ==
  /\ Busy(g, {"online"})
  /\ IF Data(g).says.online = None THEN Throw(g)
     ELSE /\ Goto(g, IF Data(g).says.online THEN "texts" ELSE "idle")
          /\ NothingWritten

\* The name and the message of the day, and ["online"] a second time.
ReadTexts(g) ==
  /\ Busy(g, {"texts"})
  /\ \/ /\ Data(g).says.online # None
        /\ Goto(g, IF handler[ShardOf[g]].info = "status" THEN "idle" ELSE "count")
        /\ NothingWritten
     \/ /\ Data(g).says.online = None \/ ~Data(g).says.whole
        /\ Throw(g)

\* ["players"]["now"] goes to the local variable; ["max"] is read after it.
ReadCount(g) ==
  /\ Busy(g, {"count"})
  /\ \/ /\ Data(g).says.now # None
        /\ handler' = [handler EXCEPT ![ShardOf[g]].at = "names",
                                      ![ShardOf[g]].playersnow = Data(g).says.now]
        /\ NothingWritten
     \/ /\ Data(g).says.now = None \/ ~Data(g).says.whole
        /\ Throw(g)

\* A copy of ["players"]["sample"]; a name for each player counted, and the reply.
ReadNames(g) ==
  /\ Busy(g, {"names"})
  /\ IF Len(Data(g).says.sample) < handler[ShardOf[g]].playersnow THEN Throw(g)
     ELSE Goto(g, "idle") /\ NothingWritten

-----------------------------------------------------------------------------

Event(g) == \/ GuildCreate(g) \/ GuildDelete(g)
            \/ SlashHome(g) \/ SlashChange(g) \/ SlashAutoUpdate(g)
            \/ SlashInfo(g)

HandlerStep(g) == \/ EmplaceInfo(g) \/ EmplaceBot(g)
                  \/ EraseInfo(g) \/ EraseBot(g)
                  \/ Home(g) \/ SetAutoUpdate(g)
                  \/ ChangeIp(g) \/ ChangePort(g) \/ ChangeRequest(g)
                  \/ TestNull(g) \/ ReadOnline(g) \/ ReadTexts(g)
                  \/ ReadCount(g) \/ ReadNames(g)

=============================================================================
