------------------------------ MODULE PollLoop ------------------------------
(***************************************************************************)
(* main() of main.cpp with sendautomsg() of botresponses.cpp, the asio     *)
(* context thread that runs the read handler of network.cpp, and the       *)
(* stop-key thread.  main() visits every guild of programinfos in turn:    *)
(* connect, start the asynchronous read, send the request, spin on isdone, *)
(* parse, announce, remember.  It is cut at its accesses to shared state;  *)
(* an access through the iterator to an erased node is undefined.          *)
(***************************************************************************)
EXTENDS BotState, FiniteSets

\* main() leaves alone what only the event handlers write.
HandlersUntouched == UNCHANGED <<cache, handler, mainloop>>

At(p) == Running /\ pc = p

-----------------------------------------------------------------------------
(* The loop around the passes.                                             *)

ResolveDns ==
  /\ At("resolve")
  /\ \/ /\ pc' = "top"
        /\ UNCHANGED <<status, ticks, msgVars, regVars, iterVars, netVars>>
        /\ HandlersUntouched
     \/ Halt("exited")

LoopTest ==
  /\ At("top")
  /\ IF mainloop
     THEN pc' = "next" /\ pending' = DOMAIN programinfos
     ELSE pc' = "stopio" /\ UNCHANGED pending
  /\ UNCHANGED <<status, ticks, msgVars, cur, dangling, regVars, netVars>>
  /\ HandlersUntouched

\* ++iterator of the range-for; the order of an unordered_map is any order.
NextGuild ==
  /\ At("next")
  /\ IF dangling
     THEN Halt("undefined")
     ELSE /\ IF pending = {}
             THEN /\ cur' = None
                  /\ pc' = "sleep"
                  /\ ticks' = UpdateTime
                  /\ UNCHANGED pending
             ELSE /\ \E g \in pending : cur' = g /\ pending' = pending \ {g}
                  /\ pc' = "check"
                  /\ UNCHANGED ticks
          /\ UNCHANGED <<status, msgVars, dangling, regVars, netVars>>
          /\ HandlersUntouched

\* Mutant: the countdown runs down to zero inclusive.
SleepPastZero ==
  /\ At("sleep")
  /\ ticks' = ticks - 1
  /\ pc' = IF ticks = 0 THEN "top" ELSE "sleep"
  /\ UNCHANGED <<status, msgVars, regVars, iterVars, netVars>>
  /\ HandlersUntouched

\* Mutant: the countdown stops one second early.
SleepShort ==
  /\ At("sleep")
  /\ ticks' = ticks - 1
  /\ pc' = IF ticks <= 2 THEN "top" ELSE "sleep"
  /\ UNCHANGED <<status, msgVars, regVars, iterVars, netVars>>
  /\ HandlersUntouched

\* One second of the countdown; mainloop is read before every sleep.
Sleep ==
  /\ At("sleep")
  /\ IF ~mainloop
     THEN pc' = "stopio" /\ UNCHANGED ticks
     ELSE /\ ticks' = ticks - 1
          /\ pc' = IF ticks = 1 THEN "top" ELSE "sleep"
  /\ UNCHANGED <<status, msgVars, regVars, iterVars, netVars>>
  /\ HandlersUntouched

-----------------------------------------------------------------------------
(* One visit.                                                              *)

Continue(next) ==
  /\ pc' = next
  /\ UNCHANGED <<status, ticks, iterVars>>
  /\ HandlersUntouched

\* Mutant: break instead of continue for a guild without an address.
CheckConfiguredBreaks ==
  /\ At("check")
  /\ IF dangling \/ cur \notin cache
     THEN Halt("undefined")
     ELSE IF programinfos[cur].serverip # None
     THEN Continue("connect") /\ UNCHANGED <<msgVars, regVars, netVars>>
     ELSE /\ pc' = "sleep" /\ ticks' = UpdateTime
          /\ cur' = None /\ pending' = {}
          /\ UNCHANGED <<status, dangling, msgVars, regVars, netVars>>
          /\ HandlersUntouched

\* The test for an empty serverip; both log lines dereference find_guild(key).
CheckConfigured ==
  /\ At("check")
  /\ IF dangling \/ cur \notin cache
     THEN Halt("undefined")
     ELSE /\ Continue(IF programinfos[cur].serverip = None THEN "next" ELSE "connect")
          /\ UNCHANGED <<msgVars, regVars, netVars>>

\* A fresh stream; no connection or handshake error is survived.
Connect ==
  /\ At("connect")
  /\ \/ Continue("start") /\ UNCHANGED <<msgVars, regVars, netVars>>
     \/ Halt("exited")

\* Mutant: isdone is not reset.
StartReadWithoutReset ==
  /\ At("start")
  /\ reading' = TRUE /\ asked' = None /\ readbuf' = None
  /\ Continue("request")
  /\ UNCHANGED <<msgVars, isdone, regVars>>

\* Mutant: isdone is reset after the read has been started, and may already
\* have been set.
StartReadResetsLate ==
  /\ At("start")
  /\ isdone' = FALSE /\ reading' \in BOOLEAN /\ asked' = None /\ readbuf' = None
  /\ Continue("request")
  /\ UNCHANGED <<msgVars, regVars>>

\* readbuf.clear(), resetreadnetdata(), readnetdata().
StartRead ==
  /\ At("start")
  /\ isdone' = FALSE
  /\ reading' = TRUE
  /\ asked' = None
  /\ readbuf' = None
  /\ Continue("request")
  /\ UNCHANGED <<msgVars, regVars>>

\* makerequest() looks the guild up again, the assignment uses the iterator.
BuildRequest ==
  /\ At("request")
  /\ IF cur \notin DOMAIN programinfos THEN Halt("terminated")
     ELSE IF dangling THEN Halt("undefined")
     ELSE /\ programinfos' = [programinfos EXCEPT ![cur].webrequest = MakeRequest(cur)]
          /\ Continue("write")
          /\ UNCHANGED <<bots, msgVars, netVars>>

\* write_some; its error code is not looked at, so the request may be lost.
WriteRequest ==
  /\ At("write")
  /\ IF dangling
     THEN Halt("undefined")
     ELSE /\ asked' \in {programinfos[cur].webrequest, None}
          /\ Continue("wait")
          /\ UNCHANGED <<msgVars, regVars, isdone, reading, readbuf>>

\* Mutant: main() goes on without waiting.
AwaitNothing ==
  At("wait") /\ Continue("parse") /\ UNCHANGED <<msgVars, regVars, netVars>>

AwaitDone ==
  /\ At("wait")
  /\ isdone
  /\ Continue("parse")
  /\ UNCHANGED <<msgVars, regVars, netVars>>

\* json::parse throws before the assignment touches the node.
ParseAnswer ==
  /\ At("parse")
  /\ IF readbuf = None THEN Halt("terminated")
     ELSE IF dangling THEN Halt("undefined")
     ELSE /\ programinfos' = [programinfos EXCEPT ![cur].serverdata = readbuf]
          /\ Continue("automsg")
          /\ UNCHANGED <<bots, msgVars, netVars>>

-----------------------------------------------------------------------------
(* sendautomsg: what it decides from one entry.                            *)

\* Mutant: the home channel is not tested.
WantedAnywhere(g) == g \in DOMAIN programinfos /\ programinfos[g].serverip # None

\* Announcements are wanted: home channel and address are set.
Wanted(g) == bots[g].channelid # None /\ programinfos[g].serverip # None

PlayersOld(g) ==
  IF programinfos[g].oldserver = None THEN 0 ELSE programinfos[g].oldserver.says.now

CountsDiffer(g) == programinfos[g].serverdata.says.now # PlayersOld(g)

\* get<uint32_t>() of a missing count throws, and so does
\* get<std::string>() of a name beyond the end of "sample".
Readable(g) ==
  LET new == programinfos[g].serverdata
      old == programinfos[g].oldserver
  IN  /\ new # None
      /\ new.says.now # None /\ PlayersOld(g) # None
      /\ CountsDiffer(g) =>
           /\ Len(new.says.sample) >= new.says.now
           /\ old # None => Len(old.says.sample) >= old.says.now

\* Mutant: the last player is left out.
TimesButLast(server, n) ==
  IF server = None THEN 0
  ELSE Cardinality({i \in 1..(server.says.now - 1) : server.says.sample[i] = n})

\* How often a name stands among the players counted.
Times(server, n) ==
  IF server = None THEN 0
  ELSE Cardinality({i \in 1..server.says.now : server.says.sample[i] = n})

\* Mutant: set_difference of the old names and the new ones.
OldNames(g) ==
  {n \in Names : Times(programinfos[g].oldserver, n) > Times(programinfos[g].serverdata, n)}

\* set_symmetric_difference of the sorted names: those that one of the two lists
\* has more often.
PlayersDiff(g) ==
  {n \in Names : Times(programinfos[g].oldserver, n) # Times(programinfos[g].serverdata, n)}

\* Without a home channel programinfos is not even searched.
DecideAutoMsg ==
  /\ At("automsg")
  /\ IF \/ cur \notin DOMAIN bots
        \/ bots[cur].channelid # None /\ cur \notin DOMAIN programinfos
        \/ Wanted(cur) /\ ~Readable(cur)
     THEN Halt("terminated")
     ELSE /\ IF Wanted(cur) /\ CountsDiffer(cur)
             THEN /\ ebd' = [joined |-> programinfos[cur].serverdata.says.now
                                          > PlayersOld(cur),
                             names  |-> PlayersDiff(cur)]
                  /\ Continue("send")
             ELSE Continue("save") /\ UNCHANGED ebd
          /\ UNCHANGED <<posted, regVars, netVars>>

\* The channel is read a second time for message_create.
SendAutoMsg ==
  /\ At("send")
  /\ IF cur \notin DOMAIN bots
     THEN Halt("terminated")
     ELSE /\ posted' = [guild |-> cur, channelid |-> bots[cur].channelid]
          /\ Continue("save")
          /\ UNCHANGED <<ebd, regVars, netVars>>

\* Mutant: the answer of the first poll stays the one to compare with.
SaveOldOnce ==
  /\ At("save")
  /\ IF dangling
     THEN Halt("undefined")
     ELSE /\ programinfos' = [programinfos EXCEPT ![cur].oldserver =
                             IF @ = None THEN programinfos[cur].serverdata ELSE @]
          /\ ebd' = None /\ posted' = None
          /\ Continue("next")
          /\ UNCHANGED <<bots, netVars>>

SaveOld ==
  /\ At("save")
  /\ IF dangling
     THEN Halt("undefined")
     ELSE /\ programinfos' = [programinfos EXCEPT ![cur].oldserver =
                             programinfos[cur].serverdata]
          /\ ebd' = None /\ posted' = None
          /\ Continue("next")
          /\ UNCHANGED <<bots, netVars>>

-----------------------------------------------------------------------------
(* The context thread: the handler of async_read_some.  HttpRead models it *)
(* byte by byte; here the body arrives at once, or not at all.             *)

ReceiveBody ==
  /\ Running /\ reading
  /\ asked # None
  /\ readbuf = None
  /\ \E r \in Reports : readbuf' = [about |-> asked, says |-> r]
  /\ UNCHANGED <<status, pc, ticks, msgVars, isdone, reading, asked,
                 regVars, iterVars>>
  /\ HandlersUntouched

\* eof or stream_truncated, whatever has arrived by then.
ReadFinished ==
  /\ Running /\ reading
  /\ isdone' = TRUE
  /\ reading' = FALSE
  /\ asked' = None
  /\ UNCHANGED <<status, pc, ticks, msgVars, readbuf,
                 regVars, iterVars>>
  /\ HandlersUntouched

ReadFailed == Running /\ reading /\ Halt("exited")

(* The stop-key thread sees 'q'; it alone writes mainloop, and then ends.  *)

StopKey ==
  /\ Running /\ pc # "resolve"
  /\ mainloop
  /\ mainloop' = FALSE
  /\ UNCHANGED <<status, pc, ticks, msgVars, cache, handler,
                 regVars, iterVars, netVars>>

-----------------------------------------------------------------------------
(* The end of main().  iocontext.stop() lets the context thread return     *)
(* without running what is still queued; bothandle.shutdown() ends the     *)
(* shard threads once their handlers have returned; both are joined.       *)

StopIo ==
  /\ At("stopio")
  /\ Continue("shutdown")
  /\ UNCHANGED <<msgVars, regVars, netVars>>

ShutdownCluster ==
  /\ At("shutdown")
  /\ \A s \in Shards : handler[s].at = "idle"
  /\ Continue("joinstop")
  /\ UNCHANGED <<msgVars, regVars, netVars>>

JoinStop == At("joinstop") /\ ~mainloop /\ Halt("returned")

-----------------------------------------------------------------------------

MainStep ==
  \/ ResolveDns \/ LoopTest \/ NextGuild \/ Sleep
  \/ CheckConfigured \/ Connect \/ StartRead \/ BuildRequest \/ WriteRequest
  \/ AwaitDone \/ ParseAnswer \/ DecideAutoMsg \/ SendAutoMsg \/ SaveOld
  \/ StopIo \/ ShutdownCluster \/ JoinStop

NetworkStep == ReceiveBody \/ ReadFinished \/ ReadFailed

=============================================================================
