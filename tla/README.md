# Verification of MCServerStatusBot

MCServerStatusBot is a Discord bot that reports the status of one Minecraft
server per Discord server ("guild"). This directory holds TLA+ models of its
code (`src/MCServerStatusBot`) and of the parts of the vendored asio that its
threads meet in (`src/depend/asio`), the TLC configurations that check them on
small instances, and theorems about them with proofs checked by TLAPS.

## 1. Inventory

The program is about 500 lines of C++ in one process with five kinds of thread.

| Thread | Code | Runs |
|---|---|---|
| main | `main.cpp`, `sendautomsg` | the polling loop, the start and the shutdown |
| context | `network.cpp` `readnetdata` | `io_context::run()`: the completion handlers of the asynchronous read |
| shards (one or more, made by the Discord library DPP) | `botresponses.cpp` `initbot`, `botresponse::*` | event handlers, one at a time on each shard |
| stop key | `main.cpp:22-32` | reads `std::cin` until `q` |
| bot | `botresponses.cpp:340-343` | `cluster::start(st_wait)` |

They share, with no lock of the program's own anywhere:

| State | Written by | Read by |
|---|---|---|
| `programinfos` (guild → address, request, old and new answer) | shards (create, delete, `/change`), main (request, answers) | main, shards |
| `bots` (guild → home channel, `autoenabled`) | shards | main (`sendautomsg`), shards |
| `readbuf`, `tempbuf`, `hasreadhttpheader` | main (reset), context | main, context |
| `isdone` (atomic) | main (reset), context (set) | main (spins on it) |
| `securesocket` (the TLS stream) | main (replaces it, writes to it), context (reads from it) | main, context |
| `iocontext` (queue, reactor, count of work) | main, context; it has its own mutexes | main, context |
| `programinfotype::mainloop` | stop-key thread | main, stop-key thread |

The components, the state and operations of each, and what makes it correct:

* **Event handlers and admin commands.** `on_guild_create` emplaces into both
  maps, `on_guild_delete` erases from both, `/home` sets the channel, `/change`
  writes address, port and request, `/enableautoupdate` and
  `/disableautoupdate` set a flag. Correct: no lookup fails; a guild that
  sendautomsg will ask `bots` about is there; the two maps together behave like one;
  a disabled guild is silent.
* **Information commands.** `/serverinfo`, `/status` and `/players` read the
  stored answer field by field. Correct: an answer once found stays readable
  until the reply.
* **Polling loop.** Every `API_UPDATE_TIME_S` seconds a pass over
  `programinfos`: connect, start the read, send the request, wait, parse,
  announce, remember. Correct: never on an erased entry; the buffers are never
  shared; requests are spaced; every guild is polled; `q` ends it.
* **sendautomsg.** Compares the player count of this answer and of the last
  one, and creates a message with the names in which they differ. Correct: it goes to
  a channel; the announced differences add up; both counts are of one server;
  nothing throws.
* **Asynchronous read.** Cuts the HTTP header off an answer that arrives in
  pieces. Correct: `readbuf` is the body and nothing else, and is complete when
  `isdone` is set.
* **TLS stream.** `asio::ssl::stream` turns bytes of the socket into records,
  with an input buffer of its own and one in the engine. Correct: nothing lost,
  doubled, or kept back; the end is noticed; not two threads in it at once.
* **Event loop.** asio's scheduler and epoll reactor: an operation queue with a
  task, counts of work, two ways of waking a thread, edge-triggered events.
  Correct: no wake-up and no event is lost; `run()` lasts as long as it should.
* **Start, stop key and shutdown**: five threads are started in an order, `mainloop`
  is cleared, and four are stopped and joined. Correct: only `q` stops; all joins return.
* **Command registration.** Deletes the global commands it finds and creates its
  own. Correct: in the end the new ones are there and the old ones are not, but for what
  Discord refused and for the one race between the two, in which a new command is lost.
* **Connection setup** (`DNSresolve`, `connect`): success or `exit(-1)`.
* **Static commands** (`/help`, `/credits`), **JSON**, the rest of asio, DPP:
  see "Not modelled".

The hard behaviour is the interleaving of shards and main over the two maps, the
hand-over of the read buffers and of the stream, answers cut in any way, sleeping
and waking of the context thread, and one failure (a bad answer, a lost request, a
silent server) on the way of everything behind it. `PROJECT.json` lists each hazard
with its line and the properties about it.

## 2. Modules

| Module | Models |
|---|---|
| `BotState` | constants, all shared variables, `emplace`/`erase`, `makerequest` |
| `GuildEvents` | the event handlers and commands, cut at their accesses to the maps |
| `PollLoop` | `main()`, `sendautomsg`, one-step-per-answer context thread, stop key |
| `StatusBot` | the process: initial state, data races, `Next`, fairness, properties, `IInv` |
| `PollPasses` | StatusBot with a clock and a history of the pass main is in |
| `Announcements` | StatusBot with histories of `/change` and of what the channel was told |
| `GuildRegistry` | abstract: the two maps as one registry that guilds join and leave at one moment |
| `AutoUpdates` | StatusBot with a history of the answers to the two autoupdate commands |
| `Transfer` | abstract: the contract of main and the context thread over one answer |
| `HttpRead` | `readnetdata`/`resetreadnetdata` piece by piece; implements `Transfer` |
| `RecordStream` | abstract: what a TLS stream promises to its reader |
| `TlsStream` | `ssl::detail::io` and `io_op` over one stream used by main and context; implements `RecordStream` and `Transfer` |
| `EventLoop` | asio's scheduler, epoll reactor and one socket, by critical sections |
| `Lifecycle` | the five threads from start to join, over `EventLoop`; implements `Transfer` |
| `CommandRegistry` | Discord's table of global commands, and the requests under way to it |
| `StatusBotProofs`, `GuildRegistryProofs`, `PollPassesProofs`, `AnnouncementsProofs`, `HttpReadProofs`, `TlsStreamProofs`, `LifecycleProofs`, `CommandRegistryProofs` | TLAPS proofs |
| `MC...` | values of the constants for TLC |

`StatusBot` composes the program's threads and treats an answer as one step of the
context thread; the lower levels open that step up. `HttpRead` is the handler over
the bytes of an answer, `TlsStream` is how the bytes of the socket become the pieces
that handler gets, `EventLoop` is how an event of the socket becomes a call of it.
`Lifecycle` composes `EventLoop` with the loop of main, the stop thread and the bot
thread. `Transfer` is the contract that ties the levels together: each of the four implements it
with what it knows of an answer. For `StatusBot` and `HttpRead` that includes its text; for
`TlsStream` a read is outstanding while `io_op` is under way (`op # "none"`), for `Lifecycle`
while it is armed, queued, in the thread's own queue or in its handler (`ReadOutstanding`).

### How the models correspond to the code

* *Threads and atomicity.* In `StatusBot`, `pc` is the next statement of `main()`;
  `handler[s]` is the stage of the handler on shard `s`. An action is the code between
  two accesses to shared state. Every early return, `exit(-1)`, uncaught exception
  and use of an erased node is there: `status` becomes `returned`, `exited`,
  `terminated` or `undefined`, and nothing happens any more.
* *Maps.* `programinfos` and `bots` are functions. `cur` is the key under the
  range-for iterator and `dangling` says that its node was erased (also when a
  new node with the same key exists); then every access through the iterator is
  undefined while `programinfos.at(key)` is not. An emplace during a pass leaves
  open which guilds the pass has yet to reach (rehash).
* *Registry.* `OneMap` reads the two maps as one: a guild is served while both maps know it,
  and its entry is what both hold. The first emplace and the second erase are then steps
  nobody sees, the second emplace is `Join` and the first erase is `Leave`. For `Join` to
  bring a fresh entry, none may be left of an earlier stay in the map that is entered first
  (`JoinsFresh`), and no command or poll may write in between.
* *Data races.* `DataRace` names the pairs of accesses that touch one object at
  once. Its outcomes are the interleavings of the other actions, and `undefined`
  (`RaceBites`) for all else. `mainloop` is a plain `bool`; calls between its
  reads make every build read it again, so it is read as it is.
* *Answers.* A parsed answer is the address it is about and a `Report`: `["online"]`,
  whether the other fields the commands show are there, `["players"]["now"]`, and the
  names of `["players"]["sample"]`. A body that is not a JSON text is None. A JSON text is
  taken to be an object: the text `null`, on which `operator[]` would make an
  object where the commands test for null, is outside `Report`, and so are other non-objects. The
  non-const `operator[]` makes a null of a missing field and `get<>()` throws on it:
  `Readable` for sendautomsg, `Throw` for a command (what the library does with an
  exception out of a handler is not in the repository: it goes on, or the process ends).
  The inserted null is a write, and part of `DataRace` (`Lacks`).
* *Names.* `std::sort` and `std::set_symmetric_difference` of two lists are modelled by
  what they give: the names one list has more often than the other.
* *DPP* (external, not in the repository). A shard runs one handler at a time;
  all events of a guild come on one shard, in order; a guild is in the cache
  from before its create handler until before its delete handler; a delete and
  the commands of a guild come only while it is there. Nothing is delivered
  after `bothandle.shutdown()` has begun. A `message_create` returns at once.
  `start(st_wait)` waits on a condition that `shutdown()` notifies. Requests about
  global commands are carried out in any order or refused, and a creation under a name
  in use keeps its id. A refused list is handed to the callback as a value that is no map;
  the exception of `std::get` leaves it, and the library drops that or lets the
  process end (`ListThrows` allows both).
* *HTTP.* In `HttpRead` a symbol stands for a run of bytes and `Crlf` for
  `"\r\n"`; a read fills the start of `tempbuf` with 1..BufferSize symbols and
  leaves the rest as it was. In `PollLoop` the same read is one `ReceiveBody`
  and one `ReadFinished` in any order of arrival and end; `Transfer` is the
  contract that makes this abstraction sound: `HttpRead` implements it with
  `text <- Parsed`, and `StatusBot` runs it with `text <- readbuf`.
* *TLS.* Records are runs of `RecordSize` bytes; a ticket is a record without data. The
  engine takes 1 or more of the bytes offered to it; `held` are those it holds. `caller`
  says in whose initiating function `io_op` runs: a read that can be completed there is
  posted. The alert that ends a stream is a flag, not bytes. `undefined` is the state
  after both threads were in the engine (asio says of a stream "Shared objects: Unsafe.",
  `asio/ssl/stream.hpp`). With a server that speaks first, as one that sends session
  tickets after the handshake may, that state is reachable; `AloneUnlessUnasked` says
  that it is not otherwise.
* *Scheduler and reactor.* One action per critical section. `queue` is `op_queue_` with
  its task; `own` and `credit` are the private queue and work of the thread; `event` is
  the bit of `wakeup_event_` and a thread in `"wait"` is its one waiter; `intr` and
  `edge` are what epoll has to report of the interrupter and of the socket. The
  descriptor state is the same object for every stream of main (the reactor reuses it), so
  an event of an old stream may still be queued when a new one reads: `NewSocket` leaves
  it there. A write of main goes to the socket directly and does not touch the loop.

Definitions whose comment begins with "Mutant" are not part of the model: each is
a wrong version of the definition after it, kept to show that a property
notices. `PROJECT.json` pairs them with the properties.

## 3. Runs

| Run | Instance | Shows |
|---|---|---|
| `two_shards` | 2 guilds, 2 shards, 1 address, 1 channel, `/home`, `/change`, `/players` | `BufferHandoff`, `NeverPostsToNoChannel`, `ConfiguredHasBot`, `HandlersFindTheirGuild`, `CommandsReadData`, `FollowsTransfer`, `ActAsOneMap`, `QuitCountsDown`, and `IInv`, which the proofs use and which has `TypeOK` and `NeverWaitsInVain` among its parts |
| `poll_passes` | 2 guilds, 1 shard, `/home`, `/change`, `/players` at any moment, an answer without texts, 2-second period | `FailuresAccounted`, `SpacedPerGuild`, `PassAsksAll` |
| `announcements` | 1 guild, 1 address with and without port, 2 names, 7 kinds of answer | `FailuresAccounted`, `AnnouncementsAddUp`, `NamesAddUp`, `SaysWho`, `FreshUnlessChanged` |
| `liveness` | 2 guilds, 1 shard, fair | `QuitEnds`, `EveryGuildPolled` |
| `http_read` | 2 headers, 3 bodies, buffer of 6, any pieces, truncation | `NothingStale`, `ExactBody`, `KeepsTransfer` |
| `tls` | records of 3 bytes, `input_` of 4, 2 tickets, 3 records of answer | `BytesAddUp`, `WaitsOnlyWhenDry`, `AloneUnlessUnasked`, `KeepsTransfer`, `DeliversRecords` (which contains `EndHasAll`), `EndNoticed` |
| `lifecycle` | 2 visits, 2 pieces of data each, 1 other key | `WorkAddsUp`, `RunsWhileGuarded`, `NoLostWakeup`, `NoLostData`, `SocketIsIdle`, `NeverStuck`, `StopsOnlyIfTyped`, `KeepsTransfer`, `AnswerArrives`, `QuitReturns` |
| `commands` | 2 old commands, 3 new ones, one name in both, each request refused or carried out | `CommandsSettle` |

Runs in which TLC is expected to find a violation of what the repository says of
itself (the findings of `PROJECT.json`):

| Run | Statement | What happens |
|---|---|---|
| `auto_updates` | "Disables automatic updates." | `autoenabled` is read nowhere; messages go on |
| `changed_server` | "New people have joined the server!" | after `/change` the counts of two servers are compared |
| `quit_needs_server` | "Press q/Q and ENTER to exit." | main spins for ever on a server that neither sends nor closes |
| `http_split` | "end stream after sending everything, we just dont treat it as an error" | a separator split over two reads loses a complete answer |

Divergences that need no run: the repository's `README.md` promises requests "every 120 seconds",
which holds for each guild (`SpacedPerGuild`) and not for the bot (a pass sends one per guild);
"Player(s) joined:" lists a symmetric difference, so it also names players who left.

The type invariants that say no more than the others (`PassTypeOK`, `HttpTypeOK`,
`LifeTypeOK`, `RegistryTypeOK`), and `EndHasAll`, have theorems and no place in a run.

### What some properties leave out

The maps have no lock, and some of what this invites does happen in the code. A property
cannot exclude that; these say how far it goes.

* `FailuresAccounted` is about every step of every interleaving. The process comes to an undefined
  state by a race of two accesses or by the leave of the guild main stands on, and to an
  uncaught exception by that leave or over an answer (no JSON text, a field missing where it is
  read, two answers mixed by a command), in no other way. `IInv`, which the proofs use, goes on
  in the other direction: it tolerates `dangling` and an undefined end, and says what holds
  of the maps all the same.
* `SpacedPerGuild` and `PassAsksAll` hold whoever leaves or is changed or gives commands during a pass,
  and not for a pass in which a guild joins: the rehash may reorder what is left.
* `NeverPostsToNoChannel` excepts a guild that leaves, and perhaps joins anew, between the two
  reads of its channel (`dangling`): what is shown is that `/home` cannot take the channel away.
* `FreshUnlessChanged` excuses the one request that `/change` tore (`changed`); a torn pair does not
  outlive the next visit.
* `AloneUnlessUnasked` excuses a server that acts between handshake and request, as one that sends
  TLS 1.3 session tickets does; after the request nothing the server does brings both threads
  into the engine.
* `CommandsSettle` says which new commands are lost (`Lost`: listed, and created before the
  deletion), it does not say that none is.

### Bounds

Two guilds are enough for a guild that is visited while another joins, leaves or
is changed, and for one that keeps another from its turn; a third would play the
part of one of them. A second shard adds handlers in parallel; the races between two shards are
in `two_shards` only, and the answers of other kinds (no count, a name missing) in `announcements`
only, since together they are beyond TLC; the theorems are about all at once. A port matters only to
the data of one guild, so `announcements` has one guild. `UpdateTime` is 1, or 2 where
seconds are counted. The answers of `announcements` cover counts of 0, 1 and 2, a
changed name at the same count, a missing name, the same name twice, and a missing
count. The only numbers that grow are bounded by the code itself
(`ticks`) or by the constants (`since`, `visits`, `keys`, `sent`). `BufferSize` 6 is shorter
than the longest answer of 9 symbols and longer than its header, so pieces fill the
buffer, overlap stale content, and split the separator. In `tls` a record is shorter than
`input_` and does not divide it, so that a read brings one record and a part of the
next, and bytes stay behind in `input_` and in the engine. In `lifecycle` two visits let an
event of one connection reach the next, and two pieces of data let one arrive while
the handler of the other runs. No run uses a state constraint. The safety runs of
StatusBot use the symmetry of guilds (with two shards: of guild and shard together);
the liveness runs use none. `tls`, `lifecycle` and `commands` do not check for deadlock:
their processes come to an end, the others have a step for it (`Ended`).

### Fairness

`ThreadFairness`: main takes a step when it can, and a handler that has begun
goes on (they are threads; none waits for another but main for `isdone` and for
the joins). Events and the stop key are never required. `ServerFairness`: the
stream of an answer ends or fails sooner or later; the request says "Connection: close",
but the code has no timeout, so this is an assumption about the API, and
`quit_needs_server` shows what depends on it. `QuitEnds` and `EveryGuildPolled` also assume `Calm`, that
from some time on no handler changes the maps: with guilds joining for ever one pass can
go on for ever.

`TlsStream`: main and the read are scheduled; nothing is asked of the server, not
even that it closes. `Lifecycle`: main, the context thread and the stop thread are scheduled,
and the API ends its streams. Of the user nothing is asked (`QuitReturns` starts when
`q` has been typed), and of the library's start nothing either: `QuitReturns` holds for a
bot thread that is waiting, and does not for one that is still starting when
`shutdown()` is called. That is what the banner's "Exit after the shards have started"
is about.

## 4. Proofs

Each theorem holds for all values of the constants that satisfy the assumptions
of the module (their typing, and `None` being no value of another kind).

`StatusBotProofs`, about `StatusBot` (any guilds, shards, addresses, answers):

* `Inductive`: `Spec => []IInv`
* `TypeCorrect`, `BuffersHandedOver`, `PostsGoToAChannel`, `ConfiguredGuildsHaveBots`,
  `HandlerLookupsSucceed`, `CommandsKeepTheirAnswer`, `WaitsEnd`: the invariants of
  `two_shards`, and the parts of `IInv`
* `FailuresExplained`: whatever ends the process has a cause (`FailuresAccounted`)
* `ImplementsTransfer`: `Spec` implements `Transfer`
* `QuitIsNear`: after the key the steps of main count down (`QuitCountsDown`)

The argument. None of the invariants but `BufferHandoff` is inductive. `IInv` adds
`MapsAgree` (which map knows a guild, by the stage of its handler: this is what the
order of the two emplaces and the two erases buys), `HandlersServe` (a shard serves
its own guilds), `CommandsHaveGuild` (an address once set stays), `IteratorValid`
(main stands on an entry with an address, or dangles), `JoinsFresh` (a guild half joined has
a new entry) and `NeverWaitsInVain` (main waits only for a read that is outstanding or done,
and for threads only after the key). One lemma for each action
or group of alike actions shows that `IInv` is preserved; `MapsFrame` handles all
steps of main at once, `GotoMoves` those of the handlers, `HaltPreserves` every end of
the process, `DataKept` the answers that information commands read.
`ConfiguredHasBot` for instance then follows from the stage `emplaceBot`,
where a guild without a bots entry has no address yet.

`FailuresExplained` goes through every statement that may end the process: `IInv` gives the lookups that
cannot fail (`IteratorValid` and `MapsAgree` for main, `CommandsHaveGuild` and
`CommandsReadData` for the handlers), so that what is left is one of the named causes
(`MainAccounted`, `CommandAccounted`), and the state a process ends in keeps its cause
(`CauseStands`).

`QuitIsNear` is the safety core of `QuitEnds`. The variant `StepsLeft` counts the statements
main has before it, those of the guilds the pass has yet to reach included; each step of main
lowers it, nobody else touches it, and `WaitsEnd` says that the one wait on the way is
answered. What remains for TLC is that main is scheduled and that the server ends its stream.

`GuildRegistryProofs`, about `StatusBot`, too: `ImplementsRegistry`, that the two maps are one
registry to all who look. Of the handlers, each access to a map is either a step of
the registry or none (`HandlerFollowsRegistry`): a command that writes finds the guild served, which
is `HandlersFindTheirGuild` and `CommandsHaveGuild` of `IInv`. Of main
(`MainFollowsRegistry`), only the three writes of a visit are seen, and `IteratorValid` says that they
go to a served guild with an address.

`HttpReadProofs`, about `HttpRead` (any headers, bodies, sizes of the buffer):
`HttpTypes`, `ReadsNothingStale`, `ReadsExactBody`, `ReaderKeepsTransfer`. The
inductive invariant adds where the received part of the answer lies in `tempbuf` and
from which position on `readbuf` repeats it; lemmas about sub-sequences carry the
cases of a separator inside the piece, at its end, and in what an earlier piece left.

`TlsStreamProofs`, about `TlsStream` (any sizes, tickets and records): `TlsTypes`,
`StreamKeepsBytes`, `NothingKeptBack`, `AnswerIsWhole`, `MainIsAlone`. `TlsInv` adds
`ReadIsPending` (when there is a read and whose it is), `DryWhere` (a read that waits
has emptied `input_` and holds less than a record; the end lies behind all bytes) and
`QuietSoFar` (while the server keeps quiet the stream holds tickets only).
`StreamKeepsTransfer` is its refinement of `Transfer`, and `StreamDelivers` that of `RecordStream`:
the record a handler is given is the next one and was sent whole (`HandledIsNext`, from
`BytesAddUp`), the end comes behind all of them (`EndIsLast`, from `DryWhere`), and main
replaces a stream only after its end or before its first byte (`ReplacedAfterEnd`, an
inductive invariant of its own).

`PollPassesProofs`, about `PollPasses` (any guilds, shards and `UpdateTime`, any interleaving):
`PassInductive`, `PassTypes`, `RequestsAreSpaced`, `PassIsComplete`. `PassInv` adds to `IInv`
`Standing` (what main stands on, also when it dangles, is not among what the pass has yet to
reach), `Waited` (how long ago each guild was asked, by main's stage: before a pass all guilds
have waited, and the ticks of the countdown make up for what is missing), `OwedKeepAddress`
(a guild owed a request keeps its address until it leaves, and only a join, which ends the claim,
brings it back) and `Asked` (whom the pass has reached and passed by was asked in it).
Nothing is assumed of the environment; the claims about a pass hold until a guild joins in it
(`rehashed`). `PassIsComplete` is the safety core of `EveryGuildPolled`: main goes to sleep only after
all were asked.

`AnnouncementsProofs`, about `Announcements` (any answers and names, any interleaving):
`DataIsFresh`, `ChangesAddUp`, `NamesAreKnown`, `MessagesSayWho`. `AnnInv` adds what main
asks for and about whom the answer is (`AsksForAddress`), that between the visits the last
answer is the one to compare with (`Remembered`), what the channel knows on the way from one
to the other (`ToldSoFar`) and what a message under way names (`NamesToTell`). That two
lists with every name equally often are equally long needs no induction: the places of
each name in one are paired with its places in the other, and the pairings make a
bijection between the lists (`SameTimesSameCount`).

`LifecycleProofs`, about `EventLoop` and `Lifecycle` (any number of answers, pieces and
keys): `LifeTypes`, `WorkIsExact`, `RunsToTheEnd`, `WakeUpsArrive`, `EdgesArrive`,
`StreamIsFree`, `OnlyKeysStop`, `ContextIsDriven`, `LoopKeepsTransfer`. None of these invariants is inductive alone:
`LifeInv` adds `OneRead` (there is exactly one read while main spins and none otherwise,
wherever it is: armed, queued, in the thread's own queue or in its handler), from which
`WorkSettled` gets the work count without reference to the queues, `InHand` (what the
context thread holds at each stage; the compensation is at most one), `GuardHeld`
(where main still has its work guard), `Awake` (whoever queues or stops sets the event or, past
that, the interrupter) and `StopDecided`. The lemmas `Completed...` on counting the completed reads of a
queue are proved from the library's facts about cardinalities. There is one lemma for
each action of the context thread, and one for each group of steps of main.

`ContextIsDriven` is the safety core of `AnswerArrives` and `QuitReturns`: when main waits for a
stream that has ended, or for the thread's return, the context thread can move. It needs `Driven`
(the reactor's task is queued or runs from the first socket on, and main joins only after
`stop()`) next to `Awake` and `NoLostData`. `LoopKeepsTransfer` follows from `OneRead`: a read is
outstanding exactly while main spins and `isdone` is not set (`OutstandingWhileAwaited`).

`CommandRegistryProofs`, about `CommandRegistry` (any finite sets of names):
`RegistryTypes`, `RegistrySettles`. `CommandsSettle` speaks of the end only; `RegistryInv` says of
every moment what is under each name (`TableIsExact`: of this version what was made and not deleted
after it, of an earlier one what was neither deleted nor replaced), that a command made late has no
deletion before it (`LateIsSafe`), and that deletions come of the list and refusals of requests
(`ListComesFirst`).

Only model-checked: the liveness properties (`QuitEnds`, `EveryGuildPolled`,
`EndNoticed`, `AnswerArrives`, `QuitReturns`: out of the prover's reach). All other
properties of the passing runs are theorems, too.

## 5. Not modelled

* `/help`, `/credits`, texts and logging: no state.
* DPP and the API: not in the repository; their effects are in the actions
  that call them, as listed under "DPP".
* `json.hpp`, and most of asio: what this program does not run (timers, strands,
  resolvers other than the one blocking call, other sockets, other reactors, other
  platforms), or runs without any state of its own (buffers, handler wrappers). These are
  over 98 % of the repository's 213 000 lines, so that any model of this program
  maps a small share of them; of the program's own files nearly every statement
  that is not text is mapped.
* In `EventLoop`: several threads in `run()`, timers, signals, `poll()`, and the reads of
  zero bytes by which a completed TLS read is posted (they are in `TlsStream`). The stream of
  `TlsStream` is not composed with the loop, and `CommandRegistry` not with `Lifecycle`:
  they share no state, and the products are beyond TLC.
* TLS records longer than `tempbuf`, which one read would give out in parts, and API texts that
  are no object (see "Answers").
* The race on `bool mainloop`, the destruction of static objects by an `exit(-1)` on the
  context thread while others run, the number of requests in one pass, and `/home` waiting
  for the library inside a handler: hazards without a property, with the reason in
  `PROJECT.json`. What goes wrong in the code itself (a visited guild that leaves, a torn request,
  a reply mixed of two answers, a new command that is deleted) is said in the notes of its hazards.

## 6. Where to go on

One abstract process that `Transfer`, `RecordStream` and `GuildRegistry` are the parts of, which
would make the four levels one refinement instead of four that meet in `Transfer`; more than one
thread in `run()`, should the program ever use it; and the findings: once the code is corrected,
the run that shows a violation today becomes a passing run of the same property.
