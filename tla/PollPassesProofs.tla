--------------------------- MODULE PollPassesProofs ---------------------------
(***************************************************************************)
(* Proofs about PollPasses, for any number of guilds and shards, any       *)
(* UpdateTime, and any joins, leaves and changes while a pass is under     *)
(* way: the requests of a guild are UpdateTime seconds apart, and a pass   *)
(* asks about every guild it owes, unless a join rehashes the map.         *)
(***************************************************************************)
EXTENDS PollPasses, StatusBotProofs

\* Where main() has yet to send the request of this visit.
ToAsk == {"check", "connect", "start", "request", "write"}

USE DEF InfoWriters, BotWriters, Commands, Changes, InfoReads, DataReads, ToAsk

-----------------------------------------------------------------------------
(* The inductive invariant.                                                *)

\* What the iterator of main() stands on is not among what the pass has yet to reach,
\* also when it dangles or the map has been rehashed.
Standing ==
  /\ ~Iterating => cur = None
  /\ cur \notin pending

\* A guild that is about to be asked has waited long enough: before a pass all
\* have, and the countdown makes up for what is missing.
Waited ==
  /\ pc \in {"resolve", "top"} => \A g \in Guilds : since[g] = UpdateTime
  /\ pc = "sleep" => \A g \in Guilds : since[g] + ticks >= UpdateTime
  /\ Iterating /\ ~rehashed => \A g \in pending : since[g] = UpdateTime
  /\ pc \in ToAsk /\ ~rehashed => since[cur] = UpdateTime

\* A guild the pass owes a request keeps its address until it leaves, and does not come
\* back without a rehash.
OwedKeepAddress ==
  Iterating /\ ~rehashed =>
    \A g \in owed \cap DOMAIN programinfos : programinfos[g].serverip # None

\* Whom the pass has reached and passed by was asked in it.
Asked ==
  Iterating /\ ~rehashed =>
    \A g \in (owed \cap DOMAIN programinfos) \ pending :
      since[g] = 0 \/ (g = cur /\ pc \in ToAsk)

PassHolds == Standing /\ Waited /\ OwedKeepAddress /\ Asked

PassInv ==
  /\ IInv
  /\ since \in [Guilds -> 0..UpdateTime] /\ rehashed \in BOOLEAN /\ owed \subseteq Guilds
  /\ PassHolds

-----------------------------------------------------------------------------
(* The clock and the history.                                              *)

\* The clock counts within its type, and stands still but for a request and a second
\* of the countdown.
LEMMA ClockTicks ==
  ASSUME since \in [Guilds -> 0..UpdateTime], Clock
  PROVE  /\ since' \in [Guilds -> 0..UpdateTime]
         /\ ~SecondPasses /\ ~(pc = "write" /\ pc' = "wait") => since' = since
<1>1. UpdateTime \in Nat
  BY ConstantsAssumption
<1>2. \A g \in Guilds : since[g] \in 0..UpdateTime /\ since'[g] \in 0..UpdateTime
  BY <1>1 DEF Clock
<1>3. since' \in [Guilds -> 0..UpdateTime]
  BY <1>2 DEF Clock
<1>4. ASSUME ~SecondPasses, ~(pc = "write" /\ pc' = "wait") PROVE since' = since
  BY <1>4 DEF Clock, Requests
<1> QED
  BY <1>3, <1>4

\* A step of another thread, or of main() where it stands: guilds may leave, and what
\* the pass has yet to reach loses only those; no address is taken away.
LEMMA PassFrame ==
  ASSUME PassInv, Clock, PassHistory, UNCHANGED <<pc, cur, ticks>>,
         DOMAIN programinfos' \subseteq DOMAIN programinfos,
         pending' \subseteq pending,
         \A g \in pending \ pending' : g \notin DOMAIN programinfos',
         \A g \in DOMAIN programinfos' :
           programinfos[g].serverip # None => programinfos'[g].serverip # None
  PROVE  PassHolds'
<1>1. since' = since
  BY ClockTicks DEF PassInv, SecondPasses
<1>2. owed' = owed /\ rehashed' = rehashed
  BY DEF PassHistory, PassBegins, GuildJoins, PassInv
<1>3. Standing' /\ Waited'
  BY <1>1, <1>2 DEF PassInv, PassHolds, Standing, Waited, Iterating
<1>4. OwedKeepAddress' /\ Asked'
  BY <1>1, <1>2 DEF PassInv, PassHolds, OwedKeepAddress, Asked, Iterating
<1> QED
  BY <1>3, <1>4 DEF PassHolds

\* The end of the process is such a step.
LEMMA HaltKeepsPass ==
  ASSUME PassInv, Clock, PassHistory, NEW how, Halt(how)
  PROVE  PassHolds'
<1>1. UNCHANGED <<pc, cur, ticks, pending, programinfos>>
  BY DEF Halt, iterVars, regVars
<1> QED
  BY <1>1, PassFrame

-----------------------------------------------------------------------------
(* The shard threads.                                                      *)

\* A join makes of the pass a rehashed one; between two passes it is of no consequence.
LEMMA JoinKeepsPass ==
  ASSUME PassInv, Clock, PassHistory, NEW g \in Guilds, EmplaceInfo(g)
  PROVE  PassHolds'
<1>1. /\ UNCHANGED <<pc, cur, ticks>>
      /\ programinfos' = Emplace(programinfos, g, NewProgramInfo)
  BY DEF EmplaceInfo, MainUntouched
<1>2. since' = since
  BY <1>1, ClockTicks DEF PassInv, SecondPasses
<1>3. CASE g \in DOMAIN programinfos
  <2>1. /\ pending' = pending /\ DOMAIN programinfos' = DOMAIN programinfos
        /\ \A k \in DOMAIN programinfos : programinfos'[k] = programinfos[k]
    BY <1>1, <1>3 DEF EmplaceInfo, Emplace
  <2> QED
    BY <1>1, <1>3, <2>1, PassFrame
<1>4. CASE g \notin DOMAIN programinfos /\ ~Iterating
  <2>1. pending' = pending /\ ~Iterating'
    BY <1>1, <1>4 DEF EmplaceInfo, Iterating
  <2> QED
    BY <1>1, <1>2, <2>1
       DEF PassInv, PassHolds, Standing, Waited, OwedKeepAddress, Asked, Iterating, Visit
<1>5. CASE g \notin DOMAIN programinfos /\ Iterating
  <2>1. g \in DOMAIN programinfos'
    BY <1>1 DEF Emplace
  <2>2. rehashed' = TRUE
    BY <1>1, <1>5, <2>1 DEF PassHistory, PassBegins, GuildJoins
  <2>3. cur \notin pending'
    BY <1>5 DEF EmplaceInfo
  <2> QED
    BY <1>1, <1>2, <1>5, <2>2, <2>3
       DEF PassInv, PassHolds, Standing, Waited, OwedKeepAddress, Asked, Iterating, Visit
<1> QED
  BY <1>3, <1>4, <1>5

\* The other handlers.
LEMMA ShardsKeepPass ==
  ASSUME PassInv, Clock, PassHistory, NEW g \in Guilds, Event(g) \/ HandlerStep(g)
  PROVE  PassHolds'
<1>1. CASE Event(g)
  <2>1. UNCHANGED <<pc, cur, ticks, pending, programinfos>>
    BY <1>1 DEF Event, GuildCreate, GuildDelete, SlashHome, SlashChange, SlashAutoUpdate,
           SlashInfo, Deliver, MainUntouched, regVars
  <2> QED
    BY <2>1, PassFrame
<1>2. CASE EraseInfo(g)
  <2>1. /\ UNCHANGED <<pc, cur, ticks>> /\ pending' = pending \ {g}
        /\ DOMAIN programinfos' = DOMAIN programinfos \ {g}
        /\ \A k \in DOMAIN programinfos' : programinfos'[k] = programinfos[k]
    BY <1>2 DEF EraseInfo, Erase, MainUntouched
  <2> QED
    BY <2>1, PassFrame
<1>3. CASE EmplaceBot(g) \/ EraseBot(g) \/ Home(g) \/ SetAutoUpdate(g)
  <2>1. UNCHANGED <<pc, cur, ticks, pending, programinfos>>
    BY <1>3 DEF EmplaceBot, EraseBot, Home, SetAutoUpdate, MainUntouched
  <2> QED
    BY <2>1, PassFrame
<1>4. CASE ChangeIp(g)
  <2>1. /\ UNCHANGED <<pc, cur, ticks, pending>>
        /\ programinfos' =
             [programinfos EXCEPT ![g].serverip = handler[ShardOf[g]].arg.ip]
        /\ handler[ShardOf[g]].arg \in Request
    BY <1>4, ConstantsAssumption DEF ChangeIp, MainUntouched, Busy, PassInv, IInv, CoreInv,
           HandlersServe
  <2>2. handler[ShardOf[g]].arg.ip # None
    BY <2>1, ConstantsAssumption DEF Request
  <2>3. /\ DOMAIN programinfos' = DOMAIN programinfos
        /\ \A k \in DOMAIN programinfos' \ {g} : programinfos'[k] = programinfos[k]
        /\ g \in DOMAIN programinfos => programinfos'[g].serverip # None
    BY <2>1, <2>2 DEF PassInv, IInv, CoreInv, TypeOK, ProgramInfo
  <2> QED
    BY <2>1, <2>3, PassFrame
<1>5. CASE ChangePort(g) \/ ChangeRequest(g)
  <2>1. /\ UNCHANGED <<pc, cur, ticks, pending>>
        /\ DOMAIN programinfos' = DOMAIN programinfos
    BY <1>5 DEF ChangePort, ChangeRequest, MainUntouched
  <2>2. \A k \in DOMAIN programinfos :
          programinfos'[k].serverip = programinfos[k].serverip
    BY <1>5 DEF ChangePort, ChangeRequest, PassInv, IInv, CoreInv, TypeOK, ProgramInfo
  <2> QED
    BY <2>1, <2>2, PassFrame
<1>6. CASE \/ TestNull(g) \/ ReadOnline(g) \/ ReadTexts(g)
           \/ ReadCount(g) \/ ReadNames(g)
  <2>1. UNCHANGED <<pc, cur, ticks, pending, programinfos>>
    BY <1>6 DEF TestNull, ReadOnline, ReadTexts, ReadCount, ReadNames, Throw, Halt,
           NothingWritten, MainUntouched, regVars, iterVars
  <2> QED
    BY <2>1, PassFrame
<1> QED
  BY <1>1, <1>2, <1>3, <1>4, <1>5, <1>6, JoinKeepsPass DEF HandlerStep

-----------------------------------------------------------------------------
(* main().                                                                 *)

\* The loop around the passes.
LEMMA LoopKeepsPass ==
  ASSUME PassInv, Clock, PassHistory,
         \/ ResolveDns \/ LoopTest \/ Sleep \/ StopIo \/ ShutdownCluster \/ JoinStop
  PROVE  PassHolds'
<1> USE DEF PassInv, PassHolds, Standing, Waited, OwedKeepAddress, Asked, Iterating, Visit, At
<1>1. /\ UNCHANGED <<cur, programinfos>>
      /\ pc \in {"resolve", "top", "sleep", "stopio", "shutdown", "joinstop"}
  BY DEF ResolveDns, LoopTest, Sleep, StopIo, ShutdownCluster, JoinStop, Continue, Halt,
         iterVars, regVars
<1>2. CASE LoopTest
  <2>1. since' = since
    BY <1>2, ClockTicks DEF SecondPasses, LoopTest
  <2>2. CASE pc' = "next"
    <3>1. pending' = DOMAIN programinfos /\ cur' = None
      BY <1>1, <1>2, <2>2 DEF LoopTest
    <3>2. owed' \subseteq pending'
      BY <1>2, <2>2, <3>1 DEF LoopTest, PassHistory, PassBegins, Configured
    <3>3. pending' \subseteq Guilds /\ None \notin Guilds
      BY <3>1, ConstantsAssumption DEF IInv, CoreInv, TypeOK
    <3>4. \A g \in owed' : programinfos[g].serverip # None
      BY <1>2, <2>2 DEF LoopTest, PassHistory, PassBegins, Configured
    <3> QED
      BY <1>1, <1>2, <2>1, <2>2, <3>1, <3>2, <3>3, <3>4 DEF LoopTest
  <2>3. CASE pc' # "next"
    BY <1>1, <1>2, <2>1, <2>3 DEF LoopTest
  <2> QED
    BY <2>2, <2>3
<1>3. CASE Sleep
  <2>1. UNCHANGED pending /\ pc' \in {"stopio", "top", "sleep"} /\ pc = "sleep"
    BY <1>3 DEF Sleep, iterVars
  <2>2. CASE pc' = "stopio"
    BY <1>1, <2>1, <2>2
  <2>3. CASE pc' # "stopio"
    <3>1. ticks' = ticks - 1 /\ (pc' = "top" => ticks = 1)
      BY <1>3, <2>3 DEF Sleep
    <3>2. ticks \in Nat /\ UpdateTime \in Nat
      BY ConstantsAssumption DEF IInv, CoreInv, TypeOK
    <3>3. \A g \in Guilds :
            since'[g] = IF since[g] < UpdateTime THEN since[g] + 1 ELSE since[g]
      BY <2>1, <3>1, <3>2 DEF Clock, Requests, SecondPasses
    <3>4. \A g \in Guilds : since[g] \in 0..UpdateTime /\ since[g] + ticks >= UpdateTime
      BY <2>1
    <3>5. ASSUME NEW g \in Guilds
          PROVE  /\ since'[g] + ticks' >= UpdateTime
                 /\ pc' = "top" => since'[g] = UpdateTime
      <4>1. since[g] \in Nat /\ since[g] <= UpdateTime /\ since[g] + ticks >= UpdateTime
        BY <3>2, <3>4
      <4>2. CASE since[g] < UpdateTime
        BY <3>1, <3>2, <3>3, <4>1, <4>2
      <4>3. CASE ~(since[g] < UpdateTime)
        <5>1. since'[g] = UpdateTime
          BY <3>2, <3>3, <4>1, <4>3
        <5>2. ticks' >= 0 /\ ticks' \in Int
          BY <2>1, <3>1, <3>2 DEF IInv, CoreInv, IteratorValid
        <5> QED
          BY <3>2, <5>1, <5>2
      <4> QED
        BY <4>2, <4>3
    <3> QED
      BY <1>1, <2>1, <2>3, <3>5
  <2> QED
    BY <2>2, <2>3
<1>4. CASE ResolveDns \/ StopIo \/ ShutdownCluster \/ JoinStop
  <2>1. UNCHANGED pending
    BY <1>4 DEF ResolveDns, StopIo, ShutdownCluster, JoinStop, Continue, Halt, iterVars
  <2>2. since' = since
    BY <1>4, ClockTicks
       DEF SecondPasses, ResolveDns, StopIo, ShutdownCluster, JoinStop, Continue, Halt
  <2>3. \/ pc' = pc
        \/ pc = "resolve" /\ pc' = "top"
        \/ pc' \in {"shutdown", "joinstop"}
    BY <1>4 DEF ResolveDns, StopIo, ShutdownCluster, JoinStop, Continue, Halt
  <2>4. pc # "sleep"
    BY <1>4 DEF ResolveDns, StopIo, ShutdownCluster, JoinStop
  <2> QED
    BY <1>1, <2>1, <2>2, <2>3, <2>4
<1> QED
  BY <1>2, <1>3, <1>4

\* main() goes on to the next guild of the pass, or to sleep.
LEMMA NextKeepsPass ==
  ASSUME PassInv, Clock, PassHistory, NextGuild
  PROVE  PassHolds'
<1> USE DEF PassInv, PassHolds, Standing, Waited, OwedKeepAddress, Asked, Iterating, Visit, At
<1>1. CASE dangling
  BY <1>1, HaltKeepsPass DEF NextGuild
<1>2. CASE ~dangling
  <2>1. since' = since
    BY <1>2, ClockTicks DEF SecondPasses, NextGuild
  <2>2. programinfos' = programinfos /\ pc = "next"
    BY <1>2 DEF NextGuild, regVars
  <2>3. owed' = owed /\ rehashed' = rehashed
    BY <2>2 DEF PassHistory, PassBegins, GuildJoins
  <2>4. CASE pending = {}
    <3>1. cur' = None /\ pc' = "sleep" /\ ticks' = UpdateTime /\ pending' = {}
      BY <1>2, <2>4 DEF NextGuild
    <3>2. \A g \in Guilds : since[g] \in 0..UpdateTime
      OBVIOUS
    <3> QED
      BY <2>1, <3>1, <3>2, ConstantsAssumption
  <2>5. CASE pending # {}
    <3>1. PICK g \in pending : cur' = g /\ pending' = pending \ {g}
      BY <1>2, <2>5 DEF NextGuild
    <3>2. pc' = "check"
      BY <1>2, <2>5 DEF NextGuild
    <3> QED
      BY <2>1, <2>2, <2>3, <3>1, <3>2
  <2> QED
    BY <2>4, <2>5
<1> QED
  BY <1>1, <1>2

\* main() goes on within a visit: only at "check" may it leave a guild it has not asked,
\* and that one has no address.
LEMMA VisitKeepsPass ==
  ASSUME PassInv, Clock, PassHistory,
         \/ CheckConfigured \/ Connect \/ StartRead \/ BuildRequest \/ WriteRequest
         \/ AwaitDone \/ ParseAnswer \/ DecideAutoMsg \/ SendAutoMsg \/ SaveOld
  PROVE  PassHolds'
<1> USE DEF At
<1>1. CASE \E how \in Statuses : Halt(how)
  BY <1>1, HaltKeepsPass
<1>2. CASE ~\E how \in Statuses : Halt(how)
  <2>1. /\ UNCHANGED <<cur, pending, ticks>>
        /\ \/ pc = "check" /\ pc' = "next" /\ ~dangling /\ programinfos[cur].serverip = None
           \/ pc \in ToAsk \ {"write"} /\ pc' \in ToAsk \ {"check"}
           \/ pc = "write" /\ pc' = "wait"
           \/ pc \in Visit \ ToAsk /\ pc' \in (Visit \ ToAsk) \cup {"next"}
    BY <1>2 DEF CheckConfigured, Connect, StartRead, BuildRequest, WriteRequest, AwaitDone,
           ParseAnswer, DecideAutoMsg, SendAutoMsg, SaveOld, Continue, iterVars, Statuses, Visit
  <2>2. /\ DOMAIN programinfos' = DOMAIN programinfos
        /\ \A g \in DOMAIN programinfos :
             programinfos'[g].serverip = programinfos[g].serverip
    BY MainWrites DEF MainStep, PassInv, IInv, CoreInv, TypeOK, ProgramInfo
  <2>3. owed' = owed /\ rehashed' = rehashed
    BY <2>1, <2>2 DEF PassHistory, PassBegins, GuildJoins, PassInv, Visit
  <2>4. Iterating /\ Iterating'
    BY <2>1 DEF Iterating, Visit
  <2>5. OwedKeepAddress' /\ Standing'
    BY <2>1, <2>2, <2>3, <2>4 DEF PassInv, PassHolds, OwedKeepAddress, Standing
  <2>6. CASE pc = "write" /\ pc' = "wait"
    <3>1. \A g \in Guilds : since'[g] = IF g = cur THEN 0 ELSE since[g]
      BY <2>6 DEF Clock, Requests, SecondPasses
    <3> QED
      BY <2>1, <2>2, <2>3, <2>4, <2>5, <2>6, <3>1
         DEF PassInv, PassHolds, Standing, Waited, Asked, Iterating, Visit, IInv, CoreInv, TypeOK
  <2>7. CASE ~(pc = "write" /\ pc' = "wait")
    <3>1. since' = since
      BY <2>1, <2>7, ClockTicks DEF SecondPasses, PassInv
    <3>2. Waited'
      BY <2>1, <2>3, <2>4, <2>7, <3>1 DEF PassInv, PassHolds, Waited, Visit
    <3>3. Asked'
      BY <2>1, <2>2, <2>3, <2>4, <2>7, <3>1
         DEF PassInv, PassHolds, Asked, OwedKeepAddress, Visit
    <3> QED
      BY <2>5, <3>2, <3>3 DEF PassHolds
  <2> QED
    BY <2>6, <2>7
<1> QED
  BY <1>1, <1>2

-----------------------------------------------------------------------------
(* The theorems.                                                           *)

LEMMA PassInitially == PassInit => PassInv
<1> SUFFICES ASSUME PassInit PROVE PassInv
  OBVIOUS
<1>1. IInv
  BY InitEstablishes DEF PassInit
<1>2. UpdateTime \in 0..UpdateTime
  BY ConstantsAssumption
<1>3. PassHolds
  BY DEF PassInit, Init, PassHolds, Standing, Waited, OwedKeepAddress, Asked, Iterating, Visit
<1>4. since \in [Guilds -> 0..UpdateTime]
  <2>1. since = [g \in Guilds |-> UpdateTime]
    BY DEF PassInit
  <2> QED
    BY <1>2, <2>1, Zenon
<1>5. rehashed \in BOOLEAN /\ owed \subseteq Guilds
  BY DEF PassInit
<1> QED
  BY <1>1, <1>3, <1>4, <1>5 DEF PassInv

LEMMA PassStep == PassInv /\ [PassNext]_passVars => PassInv'
<1> SUFFICES ASSUME PassInv, [PassNext]_passVars PROVE PassInv'
  OBVIOUS
<1>1. IInv'
  BY CorePreserved, DataKept, FreshKept, WaitsKept DEF PassNext, passVars, PassInv, IInv
<1>2. CASE UNCHANGED passVars
  BY <1>1, <1>2 DEF passVars, vars, PassInv, PassHolds, Standing, Waited, OwedKeepAddress,
     Asked, Iterating
<1>3. CASE PassNext
  <2> USE <1>3 DEF PassNext
  <2>1. /\ since' \in [Guilds -> 0..UpdateTime]
        /\ rehashed' \in BOOLEAN /\ owed' \subseteq Guilds
    BY ClockTicks DEF PassInv, PassHistory
  <2>2. PassHolds'
    <3>1. ASSUME NEW g \in Guilds, Event(g) \/ HandlerStep(g) PROVE PassHolds'
      BY <3>1, ShardsKeepPass
    <3>2. CASE MainStep
      BY <3>2, LoopKeepsPass, NextKeepsPass, VisitKeepsPass DEF MainStep
    <3>3. CASE NetworkStep \/ StopKey \/ RaceBites \/ Ended
      <4>1. UNCHANGED <<pc, cur, ticks, pending, programinfos>>
        BY <3>3 DEF NetworkStep, ReceiveBody, ReadFinished, ReadFailed, StopKey, RaceBites,
               Ended, Halt, vars, iterVars, regVars
      <4> QED
        BY <4>1, PassFrame
    <3> QED
      BY <3>1, <3>2, <3>3 DEF Next
  <2> QED
    BY <1>1, <2>1, <2>2 DEF PassInv
<1> QED
  BY <1>2, <1>3

\* PassInv holds in every reachable state.
THEOREM PassInductive == PassSpec => []PassInv
<1> QED
  BY PassInitially, PassStep, PTL DEF PassSpec

\* The memory keeps its types, and the clock counts at most UpdateTime seconds.
THEOREM PassTypes == PassSpec => []PassTypeOK
<1>1. PassInv => PassTypeOK
  BY DEF PassInv, IInv, CoreInv, PassTypeOK
<1> QED
  BY <1>1, PassInductive, PTL

\* Two requests for one guild are at least UpdateTime seconds apart, whatever UpdateTime
\* is, however many guilds a pass visits, and whoever leaves or is changed under it.
THEOREM RequestsAreSpaced == PassSpec => []SpacedPerGuild
<1>1. PassInv => SpacedPerGuild
  BY DEF PassInv, PassHolds, Waited, SpacedPerGuild
<1> QED
  BY <1>1, PassInductive, PTL

\* Every pass that comes to its end has asked every guild it owed a request and that has
\* not left, for any number of guilds and any order of the map: the safety core of
\* EveryGuildPolled.
THEOREM PassIsComplete == PassSpec => PassAsksAll
<1>1. ASSUME PassInv, [PassNext]_passVars
      PROVE  [PassEnds /\ ~rehashed =>
                \A g \in owed : Configured(g) => since[g] = 0]_passVars
  <2> SUFFICES ASSUME PassEnds, ~rehashed, NEW g \in owed, Configured(g)
               PROVE  since[g] = 0
    OBVIOUS
  <2>1. PassNext /\ pc # "sleep" /\ pc' = "sleep"
    BY <1>1 DEF passVars, vars, PassEnds
  <2>2. ASSUME NEW k \in Guilds, Event(k) \/ HandlerStep(k) PROVE pc' = pc
    BY <2>2 DEF Event, GuildCreate, GuildDelete, SlashHome, SlashChange, SlashAutoUpdate,
           SlashInfo, Deliver, HandlerStep, EmplaceInfo, EmplaceBot, EraseInfo, EraseBot, Home,
           SetAutoUpdate, ChangeIp, ChangePort, ChangeRequest, TestNull, ReadOnline,
           ReadTexts, ReadCount, ReadNames, Throw, Halt, NothingWritten, MainUntouched
  <2>3. MainStep
    BY <2>1, <2>2 DEF PassNext, Next, NetworkStep, ReceiveBody, ReadFinished, ReadFailed, StopKey,
           RaceBites, Ended, Halt, vars
  <2>4. pc = "next" /\ pending = {}
    BY <2>1, <2>3 DEF Continue, MainStep, ResolveDns, LoopTest, NextGuild, Sleep,
           CheckConfigured, Connect, StartRead, BuildRequest, WriteRequest, AwaitDone,
           ParseAnswer, DecideAutoMsg, SendAutoMsg, SaveOld, StopIo, ShutdownCluster, JoinStop,
           At, Halt
  <2> QED
    BY <1>1, <2>4 DEF PassInv, PassHolds, Asked, Iterating, Configured
<1> QED
  BY <1>1, PassInductive, PTL DEF PassSpec, PassAsksAll

=============================================================================
