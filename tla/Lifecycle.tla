------------------------------ MODULE Lifecycle ------------------------------
(***************************************************************************)
(* The process from start to end: main() with the order in which it starts *)
(* and ends the other threads, the context thread of EventLoop, the stop   *)
(* thread on std::cin and the bot thread in cluster::start(st_wait).  What *)
(* main() does with an answer and the maps is in PollLoop and StatusBot.   *)
(***************************************************************************)
EXTENDS EventLoop

CONSTANTS
  MaxVisits,    \* bound: answers main() reads
  MaxKeys       \* bound: characters typed other than q

ASSUME LifecycleAssumption == MaxVisits \in Nat /\ MaxKeys \in Nat

VARIABLES
  status,       \* "running", "exited" or "returned"
  main,         \* main() (see MainStages)
  visits,       \* answers read
  mainloop,
  stopper,      \* the stop thread: "new", "test", "read", "compare", "ended"
  c,            \* its variable: "junk" until something was read, "q", "other"
  typed,        \* what std::cin has to give: "none", "q", "other", "end"
  keys,         \* characters typed other than q
  bot           \* the bot thread: "new", "starting", "waiting", "ended"

lifeVars == <<status, main, visits, mainloop, stopper, c, typed, keys, bot>>

vars == <<loopVars, lifeVars>>

\* initbot(); the thread of run(); the first socket; DNSresolve; the stop thread; the
\* passes; the end.
MainStages == {"initbot", "context", "socket", "resolve", "stopthread", "top", "visit",
               "reads", "await", "countdown", "reset", "stop", "joincontext", "shutdown",
               "joinbot", "joinstop"}

Init ==
  /\ LoopInit
  /\ status = "running" /\ main = "initbot" /\ visits = 0 /\ mainloop = TRUE
  /\ stopper = "new" /\ c = "junk" /\ typed = "none" /\ keys = 0
  /\ bot = "new"

Running == status = "running"

-----------------------------------------------------------------------------
(* main()                                                                  *)

\* initbot(): the handlers are set, the bot thread is started.
InitBot ==
  /\ Running /\ main = "initbot"
  /\ main' = "context" /\ bot' = "starting"
  /\ UNCHANGED <<loopVars, status, visits, mainloop, stopper, c, typed, keys>>

\* The work guard is there; the context thread runs from now on.
StartContext ==
  /\ Running /\ main = "context"
  /\ main' = "socket"
  /\ UNCHANGED <<loopVars, status, visits, mainloop, stopper, c, typed, keys, bot>>

\* securesocket: the first user of the reactor.
FirstSocket ==
  /\ Running /\ main = "socket"
  /\ InitTask
  /\ main' = "resolve"
  /\ UNCHANGED <<status, visits, mainloop, stopper, c, typed, keys, bot>>

\* exit(-1) of DNSresolve and connect, or an exception in a thread that catches none.
ProcessDies ==
  /\ Running
  /\ main \in {"resolve", "visit", "await"} \/ bot = "starting"
  /\ status' = "exited"
  /\ UNCHANGED <<loopVars, main, visits, mainloop, stopper, c, typed, keys, bot>>

ResolveDns ==
  /\ Running /\ main = "resolve"
  /\ main' = "stopthread"
  /\ UNCHANGED <<loopVars, status, visits, mainloop, stopper, c, typed, keys, bot>>

StartStopThread ==
  /\ Running /\ main = "stopthread"
  /\ main' = "top" /\ stopper' = "test"
  /\ UNCHANGED <<loopVars, status, visits, mainloop, c, typed, keys, bot>>

\* The guilds of a pass that have an address, if any, one after the other.
NextVisit == {"countdown"} \cup (IF visits < MaxVisits THEN {"visit"} ELSE {})

\* while(mainloop)
Top ==
  /\ Running /\ main = "top"
  /\ IF mainloop THEN main' \in NextVisit ELSE main' = "reset"
  /\ UNCHANGED <<loopVars, status, visits, mainloop, stopper, c, typed, keys, bot>>

\* The new stream and its connection.
Connect ==
  /\ Running /\ main = "visit"
  /\ NewSocket
  /\ main' = "reads" /\ visits' = visits + 1
  /\ UNCHANGED <<status, mainloop, stopper, c, typed, keys, bot>>

\* readnetdata(securesocket), write_some
StartRead ==
  /\ Running /\ main = "reads"
  /\ MainReads
  /\ main' = "await"
  /\ UNCHANGED <<status, visits, mainloop, stopper, c, typed, keys, bot>>

\* Mutant: the answer is taken when the stream has ended, not when it has been read.
AwaitStreamEnd ==
  /\ Running /\ main = "await" /\ fin
  /\ main' \in NextVisit
  /\ UNCHANGED <<loopVars, status, visits, mainloop, stopper, c, typed, keys, bot>>

\* The spin on isdone and the work with the answer, then the next guild of the pass.
AwaitDone ==
  /\ Running /\ main = "await" /\ isdone
  /\ main' \in NextVisit
  /\ UNCHANGED <<loopVars, status, visits, mainloop, stopper, c, typed, keys, bot>>

\* A second of the countdown with its look at mainloop, or its end.
CountDown ==
  /\ Running /\ main = "countdown"
  /\ IF mainloop THEN main' \in {"countdown", "top"} ELSE main' = "reset"
  /\ UNCHANGED <<loopVars, status, visits, mainloop, stopper, c, typed, keys, bot>>

Reset ==
  /\ Running /\ main = "reset"
  /\ ResetGuard
  /\ main' = "stop"
  /\ UNCHANGED <<status, visits, mainloop, stopper, c, typed, keys, bot>>

Stop ==
  /\ Running /\ main = "stop"
  /\ StopContext
  /\ main' = "joincontext"
  /\ UNCHANGED <<status, visits, mainloop, stopper, c, typed, keys, bot>>

JoinContext ==
  /\ Running /\ main = "joincontext" /\ loop = "returned"
  /\ main' = "shutdown"
  /\ UNCHANGED <<loopVars, status, visits, mainloop, stopper, c, typed, keys, bot>>

\* Mutant: nobody is told.
ShutdownSilently ==
  /\ Running /\ main = "shutdown"
  /\ main' = "joinbot"
  /\ UNCHANGED <<loopVars, status, visits, mainloop, stopper, c, typed, keys, bot>>

\* bothandle.shutdown(): the notification of a condition nobody keeps is lost on a bot
\* thread that does not wait yet.
Shutdown ==
  /\ Running /\ main = "shutdown"
  /\ bot' = IF bot = "waiting" THEN "ended" ELSE bot
  /\ main' = "joinbot"
  /\ UNCHANGED <<loopVars, status, visits, mainloop, stopper, c, typed, keys>>

JoinBot ==
  /\ Running /\ main = "joinbot" /\ bot = "ended"
  /\ main' = "joinstop"
  /\ UNCHANGED <<loopVars, status, visits, mainloop, stopper, c, typed, keys, bot>>

\* stopthread.join() and return 0.
JoinStop ==
  /\ Running /\ main = "joinstop" /\ stopper = "ended"
  /\ status' = "returned"
  /\ UNCHANGED <<loopVars, main, visits, mainloop, stopper, c, typed, keys, bot>>

MainStep ==
  \/ InitBot \/ StartContext \/ FirstSocket \/ ResolveDns \/ StartStopThread
  \/ Top \/ Connect \/ StartRead \/ AwaitDone \/ CountDown
  \/ Reset \/ Stop \/ JoinContext \/ Shutdown \/ JoinBot \/ JoinStop

-----------------------------------------------------------------------------
(* The stop thread and the terminal.                                       *)

TestMainloop ==
  /\ Running /\ stopper = "test"
  /\ stopper' = IF mainloop THEN "read" ELSE "ended"
  /\ UNCHANGED <<loopVars, status, main, visits, mainloop, c, typed, keys, bot>>

\* std::cin >> c: blocks for a character; at the end of input it leaves c alone.
ReadKey ==
  /\ Running /\ stopper = "read" /\ typed # "none"
  /\ IF typed = "end" THEN UNCHANGED <<c, typed>> ELSE (c' = typed /\ typed' = "none")
  /\ stopper' = "compare"
  /\ UNCHANGED <<loopVars, status, main, visits, mainloop, keys, bot>>

\* Mutant: any key stops.
CompareNothing ==
  /\ Running /\ stopper = "compare"
  /\ mainloop' = FALSE
  /\ stopper' = "test"
  /\ UNCHANGED <<loopVars, status, main, visits, c, typed, keys, bot>>

\* c == 'Q' || c == 'q'; what c holds before anything was read is indeterminate.
CompareKey ==
  /\ Running /\ stopper = "compare"
  /\ mainloop' \in {mainloop /\ c # "q"} \cup (IF c = "junk" THEN {FALSE} ELSE {})
  /\ stopper' = "test"
  /\ UNCHANGED <<loopVars, status, main, visits, c, typed, keys, bot>>

StopStep == TestMainloop \/ ReadKey \/ CompareKey

TypeKey ==
  /\ Running /\ typed = "none"
  /\ typed' \in {"q", "end"} \cup (IF keys < MaxKeys THEN {"other"} ELSE {})
  /\ keys' = IF typed' = "other" THEN keys + 1 ELSE keys
  /\ UNCHANGED <<loopVars, status, main, visits, mainloop, stopper, c, bot>>

-----------------------------------------------------------------------------
(* The bot thread and its shards.                                          *)

\* cluster::start(st_wait) has started the shards and waits.
BotWaits ==
  /\ Running /\ bot = "starting"
  /\ bot' = "waiting"
  /\ UNCHANGED <<loopVars, status, main, visits, mainloop, stopper, c, typed, keys>>

-----------------------------------------------------------------------------

ContextStep ==
  /\ Running /\ main \notin {"initbot", "context"}
  /\ LoopStep
  /\ UNCHANGED lifeVars

ServerStep ==
  /\ Running
  /\ DataArrives \/ StreamEnds
  /\ UNCHANGED lifeVars

Next ==
  \/ MainStep \/ ProcessDies \/ ContextStep \/ ServerStep
  \/ StopStep \/ TypeKey
  \/ BotWaits

\* The threads are scheduled and the API ends its streams; of the user and of
\* the library's start nothing is asked.
Spec ==
  /\ Init /\ [][Next]_vars
  /\ WF_vars(MainStep) /\ WF_vars(ContextStep) /\ WF_vars(StopStep)
  /\ WF_vars(Running /\ StreamEnds /\ UNCHANGED lifeVars)

-----------------------------------------------------------------------------

\* Every variable has a value of its type.
LifeTypeOK ==
  /\ LoopTypeOK
  /\ status \in {"running", "exited", "returned"} /\ main \in MainStages
  /\ visits \in 0..MaxVisits /\ keys \in 0..MaxKeys /\ mainloop \in BOOLEAN
  /\ stopper \in {"new", "test", "read", "compare", "ended"}
  /\ c \in {"junk", "q", "other"} /\ typed \in {"none", "q", "other", "end"}
  /\ bot \in {"new", "starting", "waiting", "ended"}

\* Whenever main() replaces the stream or leaves it for good, the context thread has no
\* read of the old one queued, done or in its handler: isdone is all that says so.
SocketIsIdle ==
  main # "await" =>
    ~armed /\ Completed(queue \o own) = 0 /\ loop \notin {"data", "eof", "post"}

\* The contract Transfer over isdone, seen from the event loop: a read is in the
\* descriptor, done and queued, in its handler or done again, from the call of main()
\* until a handler says the end, and neither before nor after.
ReadOutstanding ==
  armed \/ Completed(queue \o own) > 0 \/ loop \in {"data", "eof", "post"}

Api == INSTANCE Transfer WITH reading <- ReadOutstanding, text <- 0, Texts <- {}, NoText <- 0

KeepsTransfer == Api!Spec

\* It is for the context thread to act: the stream main() waits for has ended, or
\* main() waits for the thread to return.
ContextIsDue ==
  \/ main = "await" /\ fin /\ ~isdone
  \/ main = "joincontext" /\ loop # "returned"

\* Then that thread is not asleep for good: what it sleeps on has been signalled, or
\* epoll has an event that ends its sleep.
NeverStuck ==
  ContextIsDue =>
    /\ loop # "returned"
    /\ loop = "wait" => event
    /\ loop = "poll" => intr \/ edge \/ ~block

\* The bot is stopped by q only, or by an end of input before the first character.
StopsOnlyIfTyped == ~mainloop => c = "q" \/ (c = "junk" /\ typed = "end")

\* A stream that has ended is noticed by main(), however its events, the handlers and
\* the wake-ups of the context thread fall together.
AnswerArrives == (main = "await" /\ fin) ~> (main # "await" \/ ~Running)

\* q ends the process once the shards have been started: all joins come back.
QuitReturns == (typed = "q" /\ mainloop /\ bot = "waiting") ~> ~Running

=============================================================================
