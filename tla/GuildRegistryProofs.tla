------------------------ MODULE GuildRegistryProofs ------------------------
(***************************************************************************)
(* Proof that the two maps of StatusBot implement the one map of           *)
(* GuildRegistry, for any guilds, shards and interleavings.                *)
(***************************************************************************)
EXTENDS StatusBotProofs

\* As in StatusBotProofs.
USE DEF InfoWriters, BotWriters, Commands, Changes, InfoReads, DataReads

InfoFields == {"serverip", "serverport", "webrequest", "oldserver", "serverdata"}
BotFields  == {"channelid", "autoenabled"}

-----------------------------------------------------------------------------
(* What an assignment in one of the maps is in the registry.               *)

\* To a field of programinfos.
LEMMA InfoFieldSet ==
  ASSUME TypeOK, NEW g \in DOMAIN OneMap, NEW field \in InfoFields, NEW v,
         NEW values, v \in values,
         UNCHANGED bots, programinfos' = [programinfos EXCEPT ![g][field] = v]
  PROVE  R!Sets(g, field, values)
<1>1. /\ g \in DOMAIN programinfos /\ g \in DOMAIN bots
      /\ programinfos[g] \in ProgramInfo
  BY DEF OneMap, TypeOK
<1>2. DOMAIN OneMap' = DOMAIN OneMap
  BY DEF OneMap
<1>3. programinfos'[g] = [programinfos[g] EXCEPT ![field] = v]
  BY <1>1
<1>4. \A k \in DOMAIN OneMap \ {g} : OneMap'[k] = OneMap[k]
  BY DEF OneMap
<1>5. OneMap'[g] = [OneMap[g] EXCEPT ![field] = v]
  BY <1>1, <1>3 DEF OneMap, InfoFields, ProgramInfo
<1>6. OneMap'[g][field] = v
  BY <1>1, <1>5 DEF OneMap, InfoFields
<1>7. OneMap' = [OneMap EXCEPT ![g][field] = v]
  BY <1>2, <1>4, <1>5 DEF OneMap
<1> QED
  BY <1>2, <1>6, <1>7 DEF R!Sets, R!Served

\* To a field of bots.
LEMMA BotFieldSet ==
  ASSUME TypeOK, NEW g \in DOMAIN OneMap, NEW field \in BotFields, NEW v,
         NEW values, v \in values,
         UNCHANGED programinfos, bots' = [bots EXCEPT ![g][field] = v]
  PROVE  R!Sets(g, field, values)
<1>1. g \in DOMAIN programinfos /\ g \in DOMAIN bots /\ bots[g] \in Bot
  BY DEF OneMap, TypeOK
<1>2. DOMAIN OneMap' = DOMAIN OneMap
  BY DEF OneMap
<1>3. bots'[g] = [bots[g] EXCEPT ![field] = v]
  BY <1>1
<1>4. \A k \in DOMAIN OneMap \ {g} : OneMap'[k] = OneMap[k]
  BY DEF OneMap
<1>5. OneMap'[g] = [OneMap[g] EXCEPT ![field] = v]
  BY <1>1, <1>3 DEF OneMap, BotFields, Bot
<1>6. OneMap'[g][field] = v
  BY <1>1, <1>5 DEF OneMap, BotFields
<1>7. OneMap' = [OneMap EXCEPT ![g][field] = v]
  BY <1>2, <1>4, <1>5 DEF OneMap
<1> QED
  BY <1>2, <1>6, <1>7 DEF R!Sets, R!Served

-----------------------------------------------------------------------------
(* Each step is one of the registry, or none.                              *)

\* A step that leaves both maps alone, or only what the other does not know.
LEMMA MapsStay ==
  ASSUME UNCHANGED <<programinfos, bots>>
  PROVE  UNCHANGED OneMap
BY DEF OneMap

\* The shard threads.  A guild joins with the second emplace and leaves with the
\* first erase.
LEMMA HandlerFollowsRegistry ==
  ASSUME IInv, NEW g \in Guilds, HandlerStep(g)
  PROVE  [R!Next]_OneMap
<1> USE ConstantsAssumption DEF IInv, CoreInv, Steps
<1>1. CASE EmplaceInfo(g)
  <2>1. Stage(g) = "emplaceInfo"
    BY <1>1, GotoMoves DEF EmplaceInfo
  <2>2. /\ bots' = bots /\ programinfos' = Emplace(programinfos, g, NewProgramInfo)
        /\ g \in DOMAIN programinfos <=> g \in DOMAIN bots
    BY <1>1, <2>1 DEF EmplaceInfo, MapsAgree
  <2>3. DOMAIN programinfos' \cap DOMAIN bots' = DOMAIN programinfos \cap DOMAIN bots
    BY <2>2 DEF Emplace
  <2>4. \A k \in DOMAIN programinfos : programinfos'[k] = programinfos[k]
    BY <2>2 DEF Emplace
  <2> QED
    BY <2>2, <2>3, <2>4 DEF OneMap
<1>2. CASE EmplaceBot(g)
  <2>1. /\ programinfos' = programinfos /\ bots' = Emplace(bots, g, NewBot)
        /\ Stage(g) = "emplaceBot" /\ g \in DOMAIN programinfos
    <3>1. Stage(g) = "emplaceBot"
      BY <1>2, GotoMoves DEF EmplaceBot
    <3> QED
      BY <1>2, <3>1 DEF EmplaceBot, MapsAgree
  <2>2. CASE g \in DOMAIN bots
    <3>1. DOMAIN bots' = DOMAIN bots /\ \A k \in DOMAIN bots : bots'[k] = bots[k]
      BY <2>1, <2>2 DEF Emplace
    <3> QED
      BY <2>1, <3>1 DEF OneMap
  <2>3. CASE g \notin DOMAIN bots
    <3>1. programinfos[g] = NewProgramInfo
      BY <2>1, <2>3 DEF JoinsFresh
    <3>2. /\ DOMAIN bots' = DOMAIN bots \cup {g} /\ bots'[g] = NewBot
          /\ \A k \in DOMAIN bots : bots'[k] = bots[k]
      BY <2>1, <2>3 DEF Emplace
    <3>3. OneMap'[g] = R!Fresh
      <4>1. g \in DOMAIN programinfos' \cap DOMAIN bots' /\ programinfos'[g] = NewProgramInfo
        BY <2>1, <3>1, <3>2
      <4>2. OneMap'[g] = [channelid |-> bots'[g].channelid,
                          autoenabled |-> bots'[g].autoenabled,
                          serverip |-> programinfos'[g].serverip,
                          serverport |-> programinfos'[g].serverport,
                          webrequest |-> programinfos'[g].webrequest,
                          oldserver |-> programinfos'[g].oldserver,
                          serverdata |-> programinfos'[g].serverdata]
        BY <4>1 DEF OneMap
      <4>3. bots'[g].channelid = None /\ bots'[g].autoenabled = FALSE
        BY <3>2 DEF NewBot
      <4>4. /\ programinfos'[g].serverip = None /\ programinfos'[g].serverport = None
            /\ programinfos'[g].webrequest = None /\ programinfos'[g].oldserver = None
            /\ programinfos'[g].serverdata = None
        BY <4>1 DEF NewProgramInfo
      <4> QED
        BY <4>2, <4>3, <4>4 DEF R!Fresh
    <3>4. /\ g \notin DOMAIN OneMap /\ DOMAIN OneMap' = DOMAIN OneMap \cup {g}
          /\ \A k \in DOMAIN OneMap : OneMap'[k] = OneMap[k]
      BY <2>1, <2>3, <3>2 DEF OneMap
    <3>5. OneMap' = [k \in DOMAIN OneMap \cup {g} |-> IF k = g THEN R!Fresh ELSE OneMap[k]]
      BY <3>3, <3>4 DEF OneMap
    <3> QED
      BY <3>4, <3>5 DEF R!Next, R!Join, R!Served
  <2> QED
    BY <2>2, <2>3
<1>3. CASE EraseInfo(g)
  <2>1. /\ bots' = bots /\ programinfos' = Erase(programinfos, g)
        /\ Stage(g) = "eraseInfo"
    BY <1>3, GotoMoves DEF EraseInfo
  <2>2. g \in DOMAIN OneMap
    BY <2>1 DEF OneMap, MapsAgree
  <2>3. DOMAIN OneMap' = DOMAIN OneMap \ {g}
    BY <2>1 DEF OneMap, Erase
  <2>4. \A k \in DOMAIN OneMap \ {g} : OneMap'[k] = OneMap[k]
    BY <2>1 DEF OneMap, Erase
  <2>5. OneMap' = [k \in DOMAIN OneMap \ {g} |-> OneMap[k]]
    BY <2>3, <2>4 DEF OneMap
  <2> QED
    BY <2>2, <2>5 DEF R!Next, R!Leave, R!Served
<1>4. CASE EraseBot(g)
  <2>1. /\ programinfos' = programinfos /\ bots' = Erase(bots, g)
        /\ Stage(g) = "eraseBot"
    BY <1>4, GotoMoves DEF EraseBot
  <2>2. g \notin DOMAIN programinfos
    BY <2>1 DEF MapsAgree
  <2>3. DOMAIN bots' = DOMAIN bots \ {g} /\ \A k \in DOMAIN bots' : bots'[k] = bots[k]
    BY <2>1 DEF Erase
  <2> QED
    BY <2>1, <2>2, <2>3 DEF OneMap
<1>5. CASE \/ Home(g) \/ SetAutoUpdate(g) \/ ChangeIp(g) \/ ChangePort(g) \/ ChangeRequest(g)
  <2>1. Stage(g) \in Commands \cup Changes /\ handler[ShardOf[g]].at = Stage(g)
        /\ ShardOf[g] \in Shards
    BY <1>5 DEF Home, SetAutoUpdate, ChangeIp, ChangePort, ChangeRequest, Busy, Stage
  <2>2. g \in DOMAIN OneMap
    BY <2>1 DEF MapsAgree, CommandsHaveGuild, OneMap
  <2>3. CASE Home(g)
    <3>1. handler[ShardOf[g]].arg \in Channels
      BY <2>1, <2>3 DEF Home, Busy, HandlersServe
    <3>2. R!Sets(g, "channelid", Channels)
      BY <2>2, <2>3, <3>1, BotFieldSet DEF Home, BotFields
    <3> QED
      BY <2>2, <3>2 DEF R!Next, R!Command, R!Served
  <2>4. CASE SetAutoUpdate(g)
    <3>1. R!Sets(g, "autoenabled", BOOLEAN)
      BY <2>2, <2>4, BotFieldSet DEF SetAutoUpdate, BotFields
    <3> QED
      BY <2>2, <3>1 DEF R!Next, R!Command, R!Served
  <2>5. CASE ChangeIp(g)
    <3>1. handler[ShardOf[g]].arg.ip \in Ips
      BY <2>1, <2>5 DEF ChangeIp, Busy, HandlersServe, Request
    <3>2. R!Sets(g, "serverip", Ips)
      BY <2>2, <2>5, <3>1, InfoFieldSet DEF ChangeIp, InfoFields
    <3> QED
      BY <2>2, <3>2 DEF R!Next, R!Command, R!Served
  <2>6. CASE ChangePort(g)
    <3> DEFINE port == handler[ShardOf[g]].arg.port
    <3>1. port \in Ports \cup {None}
      BY <2>1, <2>6 DEF ChangePort, Busy, HandlersServe, Request
    <3>2. CASE port = None
      BY <2>6, <3>2, MapsStay DEF ChangePort
    <3>3. CASE port # None
      <4>1. R!Sets(g, "serverport", Ports)
        BY <2>2, <2>6, <3>1, <3>3, InfoFieldSet DEF ChangePort, InfoFields
      <4> QED
        BY <2>2, <4>1 DEF R!Next, R!Command, R!Served
    <3> QED
      BY <3>2, <3>3
  <2>7. CASE ChangeRequest(g)
    <3>1. MakeRequest(g) \in {[ip |-> OneMap[g].serverip, port |-> OneMap[g].serverport]}
      BY <2>2 DEF MakeRequest, OneMap
    <3>2. R!Sets(g, "webrequest",
                 {[ip |-> OneMap[g].serverip, port |-> OneMap[g].serverport]})
      BY <2>2, <2>7, <3>1, InfoFieldSet DEF ChangeRequest, InfoFields
    <3> QED
      BY <2>2, <3>2 DEF R!Next, R!MakeRequest, R!Served
  <2> QED
    BY <1>5, <2>3, <2>4, <2>5, <2>6, <2>7
<1>6. CASE \/ TestNull(g) \/ ReadOnline(g) \/ ReadTexts(g)
           \/ ReadCount(g) \/ ReadNames(g)
  <2>1. UNCHANGED <<programinfos, bots>>
    BY <1>6 DEF TestNull, ReadOnline, ReadTexts, ReadCount, ReadNames, Throw, Halt,
         NothingWritten, regVars
  <2> QED
    BY <2>1, MapsStay
<1> QED
  BY <1>1, <1>2, <1>3, <1>4, <1>5, <1>6 DEF HandlerStep

\* main() writes to the entry it stands on, which has an address and so is served.
LEMMA MainFollowsRegistry ==
  ASSUME IInv, MainStep
  PROVE  [R!Next]_OneMap
<1> USE DEF IInv, CoreInv
<1>1. UNCHANGED bots
  BY MainWrites
<1>2. CASE UNCHANGED programinfos
  BY <1>1, <1>2, MapsStay
<1>3. ASSUME cur \in DOMAIN programinfos, programinfos[cur].serverip # None
      PROVE  cur \in DOMAIN OneMap /\ OneMap[cur].serverip # None
  BY <1>3 DEF OneMap, MapsAgree, TypeOK
<1>4. CASE programinfos' = [programinfos EXCEPT ![cur].webrequest = MakeRequest(cur)]
  <2>1. CASE UNCHANGED programinfos
    BY <1>2, <2>1
  <2>2. CASE cur \in DOMAIN OneMap
    <3>1. MakeRequest(cur) \in
            {[ip |-> OneMap[cur].serverip, port |-> OneMap[cur].serverport]}
      BY <2>2 DEF MakeRequest, OneMap
    <3>2. R!Sets(cur, "webrequest",
                 {[ip |-> OneMap[cur].serverip, port |-> OneMap[cur].serverport]})
      BY <1>1, <1>4, <2>2, <3>1, InfoFieldSet DEF InfoFields
    <3> QED
      BY <2>2, <3>2 DEF R!Next, R!MakeRequest, R!Served
  <2> QED
    BY <1>3, <2>1, <2>2, MainWrites
<1>5. CASE /\ readbuf \in Snapshot
           /\ programinfos' = [programinfos EXCEPT ![cur].serverdata = readbuf]
  <2>1. CASE UNCHANGED programinfos
    BY <1>2, <2>1
  <2>2. CASE cur \in DOMAIN OneMap /\ OneMap[cur].serverip # None
    <3>1. R!Sets(cur, "serverdata", Snapshot)
      BY <1>1, <1>5, <2>2, InfoFieldSet DEF InfoFields
    <3> QED
      BY <2>2, <3>1 DEF R!Next, R!Poll, R!Served
  <2> QED
    BY <1>3, <2>1, <2>2, MainWrites
<1>6. CASE programinfos' = [programinfos EXCEPT ![cur].oldserver =
                              programinfos[cur].serverdata]
  <2>1. CASE UNCHANGED programinfos
    BY <1>2, <2>1
  <2>2. CASE cur \in DOMAIN OneMap /\ OneMap[cur].serverip # None
    <3>1. programinfos[cur].serverdata \in {OneMap[cur].serverdata}
      BY <2>2 DEF OneMap
    <3>2. R!Sets(cur, "oldserver", {OneMap[cur].serverdata})
      BY <1>1, <1>6, <2>2, <3>1, InfoFieldSet DEF InfoFields
    <3> QED
      BY <2>2, <3>2 DEF R!Next, R!Poll, R!Served
  <2> QED
    BY <1>3, <2>1, <2>2, MainWrites
<1> QED
  BY <1>2, <1>4, <1>5, <1>6, MainWrites

\* The two maps of the program behave as one, with joins and leaves that happen at
\* one moment each.
THEOREM ImplementsRegistry == Spec => ActAsOneMap
<1>1. Init => R!Init
  BY DEF Init, R!Init, OneMap
<1>2. IInv /\ [Next]_vars => [R!Next]_OneMap
  <2> SUFFICES ASSUME IInv, [Next]_vars PROVE [R!Next]_OneMap
    OBVIOUS
  <2>1. ASSUME NEW g \in Guilds, Event(g) PROVE UNCHANGED OneMap
    BY <2>1, MapsStay DEF Event, GuildCreate, GuildDelete, SlashHome, SlashChange,
         SlashAutoUpdate, SlashInfo, Deliver, regVars
  <2>2. CASE NetworkStep \/ StopKey \/ RaceBites \/ UNCHANGED vars
    BY <2>2, MapsStay DEF NetworkStep, ReceiveBody, ReadFinished, ReadFailed, StopKey,
         RaceBites, Halt, regVars, vars
  <2> QED
    BY <2>1, <2>2, HandlerFollowsRegistry, MainFollowsRegistry DEF Next, Ended
<1> QED
  BY <1>1, <1>2, Inductive, PTL DEF Spec, ActAsOneMap, R!Spec

=============================================================================
