--------------------------- MODULE LifecycleProofs ---------------------------
(***************************************************************************)
(* Proofs about Lifecycle, for any number of answers, pieces and keys: the *)
(* work count of the scheduler, its wake-ups, the events of the socket and *)
(* the hand-over of the stream between main() and the context thread.      *)
(***************************************************************************)
EXTENDS Lifecycle, FiniteSetTheorems, SequenceTheorems, TLAPS

Ops == {"task", "desc", "data", "eof"}

-----------------------------------------------------------------------------
(* Completed reads in a queue.                                             *)

\* They can be counted.
LEMMA CompletedFinite ==
  ASSUME NEW q \in Seq(Ops)
  PROVE  /\ IsFiniteSet({i \in DOMAIN q : q[i] \in Results})
         /\ Completed(q) \in Nat
<1>1. Len(q) \in Nat /\ DOMAIN q = 1..Len(q)
  OBVIOUS
<1>2. IsFiniteSet(1..Len(q))
  BY <1>1, FS_Interval
<1>3. IsFiniteSet({i \in DOMAIN q : q[i] \in Results})
  BY <1>1, <1>2, FS_Subset
<1> QED
  BY <1>3, FS_CardinalityType DEF Completed

LEMMA CompletedEmpty ==
  ASSUME NEW q \in Seq(Ops)
  PROVE  Completed(q) = 0 <=> \A i \in DOMAIN q : q[i] \notin Results
<1>1. IsFiniteSet({i \in DOMAIN q : q[i] \in Results})
  BY CompletedFinite
<1> QED
  BY <1>1, FS_EmptySet DEF Completed

LEMMA CompletedAppend ==
  ASSUME NEW q \in Seq(Ops), NEW op \in Ops
  PROVE  Completed(Append(q, op)) = Completed(q) + IF op \in Results THEN 1 ELSE 0
<1> DEFINE S == {i \in DOMAIN q : q[i] \in Results}
           T == {i \in DOMAIN Append(q, op) : Append(q, op)[i] \in Results}
           n == Len(q) + 1
<1>1. /\ Len(q) \in Nat /\ DOMAIN q = 1..Len(q) /\ DOMAIN Append(q, op) = 1..n
      /\ Append(q, op)[n] = op
      /\ \A i \in 1..Len(q) : Append(q, op)[i] = q[i]
  OBVIOUS
<1>2. IsFiniteSet(S) /\ Cardinality(S) \in Nat
  BY CompletedFinite, FS_CardinalityType
<1>3. n \notin S
  BY <1>1
<1>4. T = IF op \in Results THEN S \cup {n} ELSE S
  BY <1>1
<1>5. Cardinality(S \cup {n}) = Cardinality(S) + 1
  BY <1>2, <1>3, FS_AddElement
<1>6. Completed(q) = Cardinality(S) /\ Completed(Append(q, op)) = Cardinality(T)
  BY DEF Completed
<1> HIDE DEF S, T
<1> QED
  BY <1>2, <1>4, <1>5, <1>6

LEMMA CompletedTail ==
  ASSUME NEW q \in Seq(Ops), q # <<>>
  PROVE  Completed(q) = Completed(Tail(q)) + IF Head(q) \in Results THEN 1 ELSE 0
<1> DEFINE S == {i \in DOMAIN Tail(q) : Tail(q)[i] \in Results}
           T == {i \in DOMAIN q : q[i] \in Results}
           U == T \ {1}
           f == [i \in S |-> i + 1]
<1>1. /\ Len(q) \in Nat \ {0} /\ DOMAIN q = 1..Len(q) /\ DOMAIN Tail(q) = 1..(Len(q) - 1)
      /\ \A i \in 1..(Len(q) - 1) : Tail(q)[i] = q[i + 1]
      /\ Head(q) = q[1] /\ Tail(q) \in Seq(Ops)
  OBVIOUS
<1>2. IsFiniteSet(S) /\ IsFiniteSet(T) /\ Cardinality(S) \in Nat /\ Cardinality(T) \in Nat
  BY <1>1, CompletedFinite, FS_CardinalityType
<1>3. f \in Bijection(S, U)
  <2>1. \A i \in S : i \in Int /\ i + 1 \in U
    BY <1>1
  <2>2. \A j \in U : j - 1 \in S /\ f[j - 1] = j
    BY <1>1
  <2>3. \A i, j \in S : f[i] = f[j] => i = j
    BY <2>1
  <2> HIDE DEF S, U
  <2>4. f \in [S -> U]
    BY <2>1
  <2> HIDE DEF f
  <2> QED
    BY <2>2, <2>3, <2>4 DEF Bijection, Injection, Surjection, IsInjective
<1>4. Cardinality(U) = Cardinality(S)
  BY <1>2, <1>3, FS_Bijection DEF ExistsBijection
<1>5. Cardinality(U) = IF 1 \in T THEN Cardinality(T) - 1 ELSE Cardinality(T)
  BY <1>2, FS_RemoveElement
<1>6. 1 \in T <=> Head(q) \in Results
  BY <1>1
<1>7. Completed(Tail(q)) = Cardinality(S) /\ Completed(q) = Cardinality(T)
  BY DEF Completed
<1> HIDE DEF S, T, U
<1> QED
  BY <1>2, <1>4, <1>5, <1>6, <1>7

LEMMA CompletedNone == Completed(<<>>) = 0
<1>1. <<>> \in Seq(Ops) /\ DOMAIN <<>> = {}
  OBVIOUS
<1> QED
  BY <1>1, CompletedEmpty

-----------------------------------------------------------------------------
(* The inductive invariant.                                                *)

\* What the context thread has in hand besides the shared queue, by its stage.
InHand ==
  /\ own = <<>> \/ (loop = "polled" /\ own = <<"desc">>)
                \/ (loop = "cleanup" /\ own \in {<<"data">>, <<"eof">>})
  /\ credit = 0 \/ (credit = 1 /\ loop = "cleanup")
  /\ result \in Results <=> loop = "post"

\* main() gives its work back at the end, and not before.
GuardHeld ==
  guard <=> main \notin {"stop", "joincontext", "shutdown", "joinbot", "joinstop"}

Handling == {"data", "eof", "post"}

\* The reads there are, wherever they are: in the descriptor, done and queued, in
\* their handler, done again and not yet posted.
Reads == (IF armed THEN 1 ELSE 0) + Completed(queue) + Completed(own)
           + (IF loop \in Handling THEN 1 ELSE 0)

Awaiting == main = "await" /\ ~isdone

\* One while main() waits, none otherwise.
OneRead ==
  /\ Reads = IF Awaiting THEN 1 ELSE 0
  /\ main = "reads" => ~isdone

\* The accounts: the guard, the read, and the operation that is to be settled.
WorkSettled ==
  work + credit = (IF guard THEN 1 ELSE 0) + (IF Awaiting THEN 1 ELSE 0)
                    + (IF loop = "cleanup" THEN 1 ELSE 0)

\* A thread that sleeps has nothing to do: whoever gives it something sets the event
\* or, once it is in epoll_wait, interrupts it.
Awake ==
  /\ loop = "wait" /\ ~event => queue = <<>> /\ ~stopped
  /\ loop = "poll" /\ block /\ (queue # <<>> \/ stopped) => interrupted
  /\ loop = "poll" /\ block /\ interrupted => intr

\* The stop thread ends with its first decision.
StopDecided ==
  /\ stopper = "new" => mainloop
  /\ ~mainloop => stopper \in {"test", "ended"}
  /\ stopper = "compare" /\ c = "junk" => typed = "end"

\* The bound on the answers.
RoomForVisit == main = "visit" => visits < MaxVisits

\* What the steps of the context thread can disturb.
LoopInv ==
  /\ LoopTypeOK /\ InHand /\ OneRead /\ WorkSettled
  /\ RunsWhileGuarded /\ Awake /\ NoLostData

LifeInv ==
  /\ LifeTypeOK /\ GuardHeld /\ RoomForVisit /\ LoopInv /\ StopDecided /\ StopsOnlyIfTyped

-----------------------------------------------------------------------------
(* What follows from it.                                                   *)

\* The counts are numbers.
LEMMA ReadsAreCounted ==
  ASSUME LifeInv
  PROVE  /\ queue \in Seq(Ops) /\ own \in Seq(Ops)
         /\ Completed(queue) \in Nat /\ Completed(own) \in Nat
         /\ work \in Nat /\ credit \in Nat
<1>1. queue \in Seq(Ops) /\ own \in Seq(Ops) /\ work \in Nat /\ credit \in Nat
  BY DEF LifeInv, LifeTypeOK, LoopTypeOK, Ops
<1> QED
  BY <1>1, CompletedFinite

\* A handler that runs is that of the read main() waits for, and the only one.
LEMMA OneHandler ==
  ASSUME LifeInv
  PROVE  /\ loop \in Handling =>
              Awaiting /\ ~armed /\ Completed(queue) = 0 /\ Completed(own) = 0
         /\ ~Awaiting =>
              ~armed /\ Completed(queue) = 0 /\ Completed(own) = 0 /\ loop \notin Handling
         /\ armed => Awaiting /\ Completed(queue) = 0 /\ Completed(own) = 0 /\ loop \notin Handling
BY ReadsAreCounted DEF LifeInv, LoopInv, OneRead, Reads

LEMMA IdleSocket == LifeInv => SocketIsIdle
<1> SUFFICES ASSUME LifeInv, main # "await" PROVE SocketIsIdle
  BY DEF SocketIsIdle
<1>1. ~armed /\ Completed(queue) = 0 /\ Completed(own) = 0 /\ loop \notin Handling
  BY OneHandler DEF Awaiting
<1>2. queue \in Seq(Ops) /\ own \in Seq(Ops) /\ queue \o own \in Seq(Ops)
  BY ReadsAreCounted
<1>3. \A i \in DOMAIN queue : queue[i] \notin Results
  BY <1>1, <1>2, CompletedEmpty
<1>4. \A i \in DOMAIN own : own[i] \notin Results
  BY <1>1, <1>2, CompletedEmpty
<1>5. \A i \in DOMAIN (queue \o own) : (queue \o own)[i] \notin Results
  BY <1>2, <1>3, <1>4
<1>6. Completed(queue \o own) = 0
  BY <1>2, <1>5, CompletedEmpty
<1> QED
  BY <1>1, <1>6 DEF SocketIsIdle, Handling

LEMMA AccountsAgree == LifeInv => WorkAddsUp
<1> SUFFICES ASSUME LifeInv PROVE WorkAddsUp
  OBVIOUS
<1> DEFINE g == IF guard THEN 1 ELSE 0
           r == IF Awaiting THEN 1 ELSE 0
           a == IF armed THEN 1 ELSE 0
           h == IF loop \in Handling THEN 1 ELSE 0
           e == IF loop = "cleanup" THEN 1 ELSE 0
           o == IF loop \in {"data", "eof", "post", "cleanup"} THEN 1 ELSE 0
<1>1. a + Completed(queue) + Completed(own) + h = r
  BY DEF LifeInv, LoopInv, OneRead, Reads
<1>2. work + credit = g + r + e
  BY DEF LifeInv, LoopInv, WorkSettled
<1>3. o = h + e
  BY DEF Handling
<1>4. g \in Nat /\ r \in Nat /\ a \in Nat /\ h \in Nat /\ e \in Nat /\ o \in Nat
  OBVIOUS
<1>5. WorkAddsUp <=> work + credit = g + a + Completed(queue) + Completed(own) + o
  BY DEF WorkAddsUp
<1> HIDE DEF g, r, a, h, e, o
<1>6. /\ Completed(queue) \in Nat /\ Completed(own) \in Nat
      /\ work \in Nat /\ credit \in Nat
  BY ReadsAreCounted
<1> QED
  BY <1>1, <1>2, <1>3, <1>4, <1>5, <1>6

LEMMA SleepsOnlyIdle == LifeInv => NoLostWakeup
BY DEF LifeInv, LoopInv, Awake, NoLostWakeup

-----------------------------------------------------------------------------
(* The first state, and the steps that leave the context alone.            *)

LEMMA InitEstablishes == Init => LifeInv
<1> SUFFICES ASSUME Init PROVE LifeInv
  OBVIOUS
<1> USE DEF Init, LoopInit
<1>1. LifeTypeOK
  <2>1. LoopTypeOK
    <3>1. queue \in Seq({"task", "desc", "data", "eof"}) /\ own \in Seq({"desc", "data", "eof"})
      OBVIOUS
    <3>2. {stopped, interrupted, event, block, intr, edge, fin, armed, guard, isdone}
            \subseteq BOOLEAN
      OBVIOUS
    <3> QED
      BY <3>1, <3>2, LoopAssumption DEF LoopTypeOK, Stages
  <2> QED
    BY <2>1, LifecycleAssumption DEF LifeTypeOK, MainStages
<1>2. GuardHeld /\ RoomForVisit /\ StopDecided /\ StopsOnlyIfTyped
  BY DEF GuardHeld, RoomForVisit, StopDecided, StopsOnlyIfTyped
<1>3. InHand /\ RunsWhileGuarded /\ Awake /\ NoLostData
  BY DEF InHand, RunsWhileGuarded, Awake, NoLostData, Results
<1>4. OneRead /\ WorkSettled
  BY CompletedNone DEF OneRead, WorkSettled, Reads, Awaiting, Handling
<1> QED
  BY <1>1, <1>2, <1>3, <1>4 DEF LifeInv, LifeTypeOK, LoopInv

\* A step that changes nothing of the context, nor whether main() awaits a read.
LEMMA LoopUntouched ==
  ASSUME LoopInv, UNCHANGED loopVars, Awaiting' = Awaiting, main' = main \/ main' # "reads"
  PROVE  LoopInv'
<1> USE DEF loopVars, schedulerVars, threadVars, socketVars
<1>1. LoopTypeOK' /\ InHand' /\ RunsWhileGuarded' /\ Awake' /\ NoLostData'
  BY DEF LoopInv, LoopTypeOK, InHand, RunsWhileGuarded, Awake, NoLostData, Readable, Queued
<1>2. Completed(queue)' = Completed(queue) /\ Completed(own)' = Completed(own)
  BY DEF Completed
<1>3. Reads' = Reads
  BY <1>2 DEF Reads
<1>4. OneRead' /\ WorkSettled'
  BY <1>3 DEF LoopInv, OneRead, WorkSettled
<1> QED
  BY <1>1, <1>4 DEF LoopInv

\* Steps of main() that leave the context alone.
LEMMA MainAlone ==
  ASSUME LifeInv,
         \/ InitBot \/ StartContext \/ ResolveDns \/ StartStopThread \/ Top \/ AwaitDone
         \/ CountDown \/ JoinContext \/ Shutdown \/ JoinBot \/ JoinStop \/ ProcessDies
  PROVE  LifeInv'
<1> USE DEF InitBot, StartContext, ResolveDns, StartStopThread, Top, AwaitDone, CountDown,
            JoinContext, Shutdown, JoinBot, JoinStop, ProcessDies
<1>0. \A m \in NextVisit : m = "countdown" \/ (m = "visit" /\ visits < MaxVisits)
  BY DEF NextVisit
<1>1. UNCHANGED loopVars /\ UNCHANGED <<visits, mainloop, c, typed, keys>>
  OBVIOUS
<1>2. guard' = guard /\ isdone' = isdone /\ LoopTypeOK'
  BY <1>1 DEF LifeInv, LifeTypeOK, LoopTypeOK, loopVars, schedulerVars, threadVars, socketVars
<1>3. LifeTypeOK'
  BY <1>0, <1>1, <1>2 DEF LifeInv, LifeTypeOK, MainStages
<1>4. GuardHeld' /\ RoomForVisit'
  BY <1>0, <1>1, <1>2 DEF LifeInv, GuardHeld, RoomForVisit
<1>5. Awaiting' = Awaiting /\ (main' = main \/ main' # "reads")
  <2>1. main' # "await" \/ main' = main
    BY <1>0
  <2>2. main # "await" \/ isdone \/ main' = main
    BY <1>0
  <2>3. main' # "reads" \/ main' = main
    BY <1>0
  <2> QED
    BY <1>2, <2>1, <2>2, <2>3 DEF Awaiting
<1>6. LoopInv'
  BY <1>1, <1>5, LoopUntouched DEF LifeInv
<1>7. StopDecided' /\ StopsOnlyIfTyped'
  BY <1>1 DEF LifeInv, StopDecided, StopsOnlyIfTyped
<1> QED
  BY <1>3, <1>4, <1>6, <1>7 DEF LifeInv

\* The stop thread, the user and the start of the shards.
LEMMA OthersAlone ==
  ASSUME LifeInv, TestMainloop \/ ReadKey \/ CompareKey \/ TypeKey \/ BotWaits
  PROVE  LifeInv'
<1> USE DEF TestMainloop, ReadKey, CompareKey, TypeKey, BotWaits
<1>1. UNCHANGED loopVars /\ UNCHANGED <<status, main, visits>>
  OBVIOUS
<1>2. guard' = guard /\ isdone' = isdone /\ LoopTypeOK'
  BY <1>1 DEF LifeInv, LifeTypeOK, LoopTypeOK, loopVars, schedulerVars, threadVars, socketVars
<1>3. LifeTypeOK'
  <2>1. mainloop' \in BOOLEAN
    <3>1. CASE CompareKey
      <4>1. mainloop' = (mainloop /\ c # "q") \/ mainloop' = FALSE
        BY <3>1, Zenon
      <4> QED
        BY <4>1
    <3>2. CASE mainloop' = mainloop
      BY <3>2 DEF LifeInv, LifeTypeOK
    <3>3. CompareKey \/ mainloop' = mainloop
      OBVIOUS
    <3> QED
      BY <3>1, <3>2, <3>3
  <2>2. typed' \in {"none", "q", "other", "end"} /\ c' \in {"junk", "q", "other"}
    BY DEF LifeInv, LifeTypeOK
  <2>3. keys' \in 0..MaxKeys
    <3>1. keys' = keys \/ (keys' = keys + 1 /\ keys < MaxKeys)
      BY LifecycleAssumption
    <3>2. keys \in 0..MaxKeys
      BY DEF LifeInv, LifeTypeOK
    <3> QED
      BY <3>1, <3>2, LifecycleAssumption
  <2>4. stopper' \in {"new", "test", "read", "compare", "ended"}
    BY DEF LifeInv, LifeTypeOK
  <2>5. bot' \in {"new", "starting", "waiting", "ended"}
    BY DEF LifeInv, LifeTypeOK
  <2> QED
    BY <1>1, <1>2, <2>1, <2>2, <2>3, <2>4, <2>5 DEF LifeInv, LifeTypeOK
<1>4. GuardHeld' /\ RoomForVisit' /\ Awaiting' = Awaiting
  BY <1>1, <1>2 DEF LifeInv, GuardHeld, RoomForVisit, Awaiting
<1>5. LoopInv'
  BY <1>1, <1>4, LoopUntouched DEF LifeInv
<1>6. StopDecided' /\ StopsOnlyIfTyped'
  BY <1>1 DEF LifeInv, LifeTypeOK, StopDecided, StopsOnlyIfTyped
<1> QED
  BY <1>3, <1>4, <1>5, <1>6 DEF LifeInv

-----------------------------------------------------------------------------
(* The calls of main() into the context, and the server.                   *)

\* The reads are where they were.
LEMMA ReadsKept ==
  ASSUME queue' = queue, own' = own, armed' = armed, loop' \in Handling <=> loop \in Handling
  PROVE  Reads' = Reads
<1>1. Completed(queue)' = Completed(queue) /\ Completed(own)' = Completed(own)
  BY DEF Completed
<1> QED
  BY <1>1 DEF Reads

LEMMA SocketReplaced ==
  ASSUME LifeInv, Connect
  PROVE  LifeInv'
<1> USE DEF Connect, NewSocket, schedulerVars, threadVars
<1>1. ~Awaiting /\ ~armed
  BY OneHandler DEF Awaiting
<1>2. LoopTypeOK'
  <2>1. edge' \in BOOLEAN /\ fin' \in BOOLEAN /\ isdone' \in BOOLEAN
    OBVIOUS
  <2>3. sent' \in 0..MaxData /\ avail' \in Nat
    BY LoopAssumption
  <2>2. LoopTypeOK
    BY DEF LifeInv, LifeTypeOK
  <2> QED
    BY <2>1, <2>2, <2>3 DEF LoopTypeOK
<1>3. LifeTypeOK'
  <2>1. visits' \in 0..MaxVisits
    BY LifecycleAssumption DEF LifeInv, LifeTypeOK, RoomForVisit
  <2> QED
    BY <1>2, <2>1 DEF LifeInv, LifeTypeOK, MainStages
<1>4. OneRead' /\ WorkSettled'
  <2>1. Reads' = Reads
    BY ReadsKept
  <2>2. ~Awaiting'
    BY DEF Awaiting
  <2> QED
    BY <1>1, <2>1, <2>2 DEF LifeInv, LoopInv, OneRead, WorkSettled
<1>5. InHand' /\ RunsWhileGuarded' /\ Awake' /\ NoLostData'
  BY <1>1 DEF LifeInv, LoopInv, InHand, RunsWhileGuarded, Awake, NoLostData
<1>6. GuardHeld' /\ RoomForVisit' /\ StopDecided' /\ StopsOnlyIfTyped'
  BY DEF LifeInv, GuardHeld, RoomForVisit, StopDecided, StopsOnlyIfTyped
<1> QED
  BY <1>2, <1>3, <1>4, <1>5, <1>6 DEF LifeInv, LoopInv

\* Whoever puts an operation into the queue wakes the thread for it.
LEMMA AwakeAfterWake ==
  ASSUME LoopTypeOK, Awake, WakeOneThread, loop' = loop, block' = block
  PROVE  Awake' /\ {event', interrupted', intr'} \subseteq BOOLEAN
BY DEF LoopTypeOK, Awake, WakeOneThread

\* Whoever stops the context wakes it, too.
LEMMA AwakeAfterFinish ==
  ASSUME LoopTypeOK, Awake, WorkFinished \/ StopAllThreads, loop' = loop, block' = block,
         queue' = queue
  PROVE  Awake' /\ {stopped', event', interrupted', intr'} \subseteq BOOLEAN
BY DEF LoopTypeOK, Awake, WorkFinished, StopAllThreads

LEMMA TaskQueued ==
  ASSUME LifeInv, FirstSocket
  PROVE  LifeInv'
<1> USE DEF FirstSocket, InitTask, threadVars, socketVars
<1>1. ~Awaiting /\ ~armed
  BY OneHandler DEF Awaiting
<1>2. LoopTypeOK /\ Awake
  BY DEF LifeInv, LifeTypeOK, LoopInv
<1>3. Awake' /\ {event', interrupted', intr'} \subseteq BOOLEAN
  BY <1>2, AwakeAfterWake
<1>4. LoopTypeOK'
  BY <1>2, <1>3 DEF LoopTypeOK
<1>5. LifeTypeOK'
  BY <1>4 DEF LifeInv, LifeTypeOK, MainStages
<1>6. Reads' = Reads
  <2>1. Completed(Append(queue, "task")) = Completed(queue)
    <3>1. "task" \in Ops /\ "task" \notin Results
      BY DEF Ops, Results
    <3> QED
      BY <3>1, CompletedAppend, ReadsAreCounted
  <2>2. Completed(queue)' = Completed(queue) /\ Completed(own)' = Completed(own)
    BY <2>1 DEF Completed
  <2> QED
    BY <2>2 DEF Reads
<1>7. OneRead' /\ WorkSettled'
  BY <1>1, <1>6 DEF LifeInv, LoopInv, OneRead, WorkSettled, Awaiting
<1>8. InHand' /\ RunsWhileGuarded' /\ NoLostData'
  BY <1>1 DEF LifeInv, LoopInv, InHand, RunsWhileGuarded, NoLostData
<1>9. GuardHeld' /\ RoomForVisit' /\ StopDecided' /\ StopsOnlyIfTyped'
  BY DEF LifeInv, GuardHeld, RoomForVisit, StopDecided, StopsOnlyIfTyped
<1> QED
  BY <1>3, <1>4, <1>5, <1>7, <1>8, <1>9 DEF LifeInv, LoopInv

\* What a read leaves in the socket.
LEMMA ReceiveTypes ==
  ASSUME LoopTypeOK, NEW r \in Results, Receive(r)
  PROVE  avail' \in Nat
BY DEF LoopTypeOK, Receive, Results

LEMMA ReadQueued ==
  ASSUME queue \in Seq(Ops), NEW r \in Results, queue' = Append(queue, r)
  PROVE  Completed(queue)' = Completed(queue) + 1
<1>1. r \in Ops
  BY DEF Ops, Results
<1>2. Completed(Append(queue, r)) = Completed(queue) + 1
  BY <1>1, CompletedAppend
<1> QED
  BY <1>2 DEF Completed

LEMMA ReadStarted ==
  ASSUME LifeInv, StartRead
  PROVE  LifeInv'
<1> USE DEF StartRead
<1>1. LoopTypeOK /\ Awake
  BY DEF LifeInv, LifeTypeOK, LoopInv
<1>2. ~Awaiting /\ ~armed /\ isdone = FALSE
  BY <1>1, OneHandler DEF Awaiting, LifeInv, LoopInv, OneRead, LoopTypeOK
<1>3. Reads = 0
  BY <1>2 DEF LifeInv, LoopInv, OneRead
<1>4. isdone' = isdone /\ own' = own /\ loop' = loop /\ guard' = guard /\ credit' = credit
      /\ result' = result /\ block' = block /\ edge' = edge /\ fin' = fin /\ sent' = sent
      /\ stopped' = stopped /\ work' = work + 1
  BY DEF MainReads, ArmRead, threadVars
<1>5. Awaiting'
  BY <1>2, <1>4 DEF Awaiting
<1>6. Completed(own)' = Completed(own)
  BY <1>4 DEF Completed
<1>7. LoopTypeOK' /\ Awake' /\ NoLostData' /\ Reads' = 1
  <2>1. CASE ArmRead /\ UNCHANGED <<queue, stopped, interrupted, event, intr, avail>>
    <3>1. LoopTypeOK'
      BY <1>1, <1>4, <2>1 DEF LoopTypeOK, ArmRead
    <3>2. Awake' /\ NoLostData'
      BY <1>1, <1>4, <2>1 DEF Awake, NoLostData, ArmRead, Readable
    <3>3. Completed(queue)' = Completed(queue)
      BY <2>1 DEF Completed
    <3>4. Reads' = Reads + 1
      BY <1>2, <1>4, <1>6, <2>1, <3>3, ReadsAreCounted DEF Reads, ArmRead
    <3> QED
      BY <1>3, <3>1, <3>2, <3>4
  <2>2. CASE /\ \E r \in Results : Receive(r) /\ queue' = Append(queue, r)
             /\ WakeOneThread /\ armed' = armed
    <3>1. PICK r \in Results : Receive(r) /\ queue' = Append(queue, r)
      BY <2>2
    <3>2. Awake' /\ {event', interrupted', intr'} \subseteq BOOLEAN
      BY <1>1, <1>4, <2>2, AwakeAfterWake
    <3>3. avail' \in Nat
      BY <1>1, <3>1, ReceiveTypes
    <3>4. queue' \in Seq({"task", "desc", "data", "eof"})
      BY <1>1, <3>1 DEF LoopTypeOK, Results
    <3>5. LoopTypeOK'
      BY <1>1, <1>4, <2>2, <3>2, <3>3, <3>4 DEF LoopTypeOK
    <3>6. Completed(queue)' = Completed(queue) + 1
      BY <3>1, ReadQueued, ReadsAreCounted
    <3>7. Reads' = Reads + 1
      BY <1>2, <1>4, <1>6, <2>2, <3>6, ReadsAreCounted DEF Reads
    <3>8. NoLostData'
      BY <1>2, <2>2 DEF NoLostData
    <3> QED
      BY <1>3, <3>2, <3>5, <3>7, <3>8
  <2> QED
    BY <2>1, <2>2 DEF MainReads, socketVars
<1>8. LifeTypeOK'
  BY <1>7 DEF LifeInv, LifeTypeOK, MainStages
<1>9. OneRead' /\ WorkSettled'
  BY <1>1, <1>2, <1>4, <1>5, <1>7
     DEF LifeInv, LoopInv, OneRead, WorkSettled, LoopTypeOK, Awaiting
<1>10. InHand' /\ RunsWhileGuarded'
  BY <1>4 DEF LifeInv, LoopInv, InHand, RunsWhileGuarded
<1>11. GuardHeld' /\ RoomForVisit' /\ StopDecided' /\ StopsOnlyIfTyped'
  BY <1>4 DEF LifeInv, GuardHeld, RoomForVisit, StopDecided, StopsOnlyIfTyped
<1> QED
  BY <1>7, <1>8, <1>9, <1>10, <1>11 DEF LifeInv, LoopInv

\* The work that is there: settled, it can be given back.
LEMMA WorkIsThere ==
  ASSUME LifeInv
  PROVE  /\ guard => work > 0
         /\ loop = "cleanup" /\ credit = 0 => work > 0
         /\ work = 1 /\ loop = "cleanup" /\ credit = 0 => ~guard
         /\ work = 0 => ~guard
<1> DEFINE g == IF guard THEN 1 ELSE 0
           r == IF Awaiting THEN 1 ELSE 0
           e == IF loop = "cleanup" THEN 1 ELSE 0
<1>1. work + credit = g + r + e /\ work \in Nat
  BY ReadsAreCounted DEF LifeInv, LoopInv, WorkSettled
<1>2. credit = 0 \/ (credit = 1 /\ e = 1)
  BY DEF LifeInv, LoopInv, InHand
<1>3. g \in 0..1 /\ r \in 0..1 /\ e \in 0..1
  OBVIOUS
<1>4. (guard => g = 1) /\ (~guard => g = 0)
  BY Zenon
<1>5. (loop = "cleanup" => e = 1) /\ (loop # "cleanup" => e = 0)
  BY Zenon
<1> HIDE DEF g, r, e
<1> QED
  BY <1>1, <1>2, <1>3, <1>4, <1>5

LEMMA ContextStopped ==
  ASSUME LifeInv, Reset \/ Stop
  PROVE  LifeInv'
<1> USE DEF Reset, Stop, ResetGuard, StopContext, threadVars, socketVars
<1>1. LoopTypeOK /\ Awake
  BY DEF LifeInv, LifeTypeOK, LoopInv
<1>2. ~Awaiting /\ ~Awaiting'
  BY DEF Awaiting
<1>3. Awake' /\ {stopped', event', interrupted', intr'} \subseteq BOOLEAN
  BY <1>1, AwakeAfterFinish
<1>4. /\ guard' = FALSE
      /\ work' = IF guard THEN work - 1 ELSE work
  BY DEF LifeInv, GuardHeld, WorkFinished
<1>5. work' \in Nat
  BY <1>1, <1>4, WorkIsThere DEF LoopTypeOK
<1>6. LoopTypeOK'
  BY <1>1, <1>3, <1>4, <1>5 DEF LoopTypeOK
<1>7. LifeTypeOK'
  BY <1>6 DEF LifeInv, LifeTypeOK, MainStages
<1>8. Reads' = Reads
  BY ReadsKept
<1>9. OneRead' /\ WorkSettled'
  BY <1>1, <1>2, <1>4, <1>8 DEF LifeInv, LoopInv, OneRead, WorkSettled, LoopTypeOK
<1>10. InHand' /\ RunsWhileGuarded' /\ NoLostData'
  BY <1>4 DEF LifeInv, LoopInv, InHand, RunsWhileGuarded, NoLostData, Readable, Queued
<1>11. GuardHeld' /\ RoomForVisit' /\ StopDecided' /\ StopsOnlyIfTyped'
  BY <1>4 DEF LifeInv, GuardHeld, RoomForVisit, StopDecided, StopsOnlyIfTyped
<1> QED
  BY <1>3, <1>6, <1>7, <1>9, <1>10, <1>11 DEF LifeInv, LoopInv

LEMMA ServerActs ==
  ASSUME LifeInv, ServerStep
  PROVE  LifeInv'
<1> USE DEF ServerStep, DataArrives, StreamEnds, schedulerVars, threadVars, lifeVars
<1>1. LoopTypeOK
  BY DEF LifeInv, LifeTypeOK
<1>2. LoopTypeOK'
  <2>1. edge' = TRUE /\ (fin' = fin \/ fin' = TRUE)
    OBVIOUS
  <2>2. sent' \in 0..MaxData /\ avail' \in Nat
    BY <1>1, LoopAssumption DEF LoopTypeOK
  <2>3. fin \in BOOLEAN
    BY <1>1 DEF LoopTypeOK
  <2> QED
    BY <1>1, <2>1, <2>2, <2>3 DEF LoopTypeOK
<1>3. LifeTypeOK'
  BY <1>2 DEF LifeInv, LifeTypeOK
<1>4. Reads' = Reads
  BY ReadsKept
<1>5. OneRead' /\ WorkSettled'
  BY <1>4 DEF LifeInv, LoopInv, OneRead, WorkSettled, Awaiting
<1>6. InHand' /\ RunsWhileGuarded' /\ Awake' /\ NoLostData'
  BY DEF LifeInv, LoopInv, InHand, RunsWhileGuarded, Awake, NoLostData
<1>7. GuardHeld' /\ RoomForVisit' /\ StopDecided' /\ StopsOnlyIfTyped'
  BY DEF LifeInv, GuardHeld, RoomForVisit, StopDecided, StopsOnlyIfTyped
<1> QED
  BY <1>2, <1>3, <1>5, <1>6, <1>7 DEF LifeInv, LoopInv

-----------------------------------------------------------------------------
(* The context thread.                                                     *)

\* What a step of the context thread has to show.
LEMMA LoopSuffices ==
  ASSUME LifeInv, UNCHANGED lifeVars, guard' = guard, LoopInv'
  PROVE  LifeInv'
BY DEF LifeInv, LoopInv, LifeTypeOK, GuardHeld, RoomForVisit, StopDecided, StopsOnlyIfTyped,
       lifeVars

\* Steps that take nothing and put nothing anywhere.
LEMMA ThreadMoves ==
  ASSUME LifeInv, UNCHANGED lifeVars,
         RunWithWork \/ RunWithoutWork \/ RunReturns \/ AwaitEvent \/ EventSignalled
  PROVE  LifeInv'
<1> USE DEF RunWithWork, RunWithoutWork, RunReturns, AwaitEvent, EventSignalled,
            schedulerVars, socketVars
<1>1. LoopTypeOK
  BY DEF LifeInv, LifeTypeOK
<1>2. UNCHANGED <<queue, work, block, own, credit, result, socketVars, guard, isdone>>
  OBVIOUS
<1>3. {stopped', event', interrupted', intr'} \subseteq BOOLEAN
  <2>1. CASE RunWithoutWork
    BY <1>1, <2>1 DEF LoopTypeOK, StopAllThreads
  <2>2. CASE RunWithWork \/ RunReturns \/ AwaitEvent \/ EventSignalled
    BY <1>1, <2>2 DEF LoopTypeOK
  <2> QED
    BY <2>1, <2>2
<1>4. LoopTypeOK'
  BY <1>1, <1>2, <1>3 DEF LoopTypeOK, Stages
<1>5. Reads' = Reads
  BY <1>2, ReadsKept DEF Handling
<1>6. OneRead' /\ WorkSettled'
  BY <1>2, <1>5 DEF LifeInv, LoopInv, OneRead, WorkSettled, Awaiting, lifeVars
<1>7. InHand' /\ NoLostData'
  BY <1>2 DEF LifeInv, LoopInv, InHand, NoLostData, Readable, Queued
<1>8. RunsWhileGuarded'
  BY <1>2, WorkIsThere DEF LifeInv, LoopInv, RunsWhileGuarded
<1>9. Awake'
  BY <1>2 DEF Awake
<1> QED
  BY <1>2, <1>4, <1>6, <1>7, <1>8, <1>9, LoopSuffices DEF LoopInv

\* What is queued stays queued while others leave the queue, or come.
LEMMA StaysQueued ==
  ASSUME queue \in Seq(Ops), NEW op, Queued(op),
         \/ queue # <<>> /\ Head(queue) # op /\ queue' = Tail(queue)
         \/ \E new \in Ops : queue' = Append(queue, new)
  PROVE  Queued(op)'
<1>1. PICK i \in DOMAIN queue : queue[i] = op
  BY DEF Queued
<1>2. CASE queue # <<>> /\ Head(queue) # op /\ queue' = Tail(queue)
  <2>1. i - 1 \in DOMAIN Tail(queue) /\ Tail(queue)[i - 1] = op
    BY <1>1, <1>2
  <2> QED
    BY <1>2, <2>1 DEF Queued
<1>3. CASE \E new \in Ops : queue' = Append(queue, new)
  <2>1. PICK new \in Ops : queue' = Append(queue, new)
    BY <1>3
  <2>2. i \in DOMAIN Append(queue, new) /\ Append(queue, new)[i] = op
    BY <1>1
  <2> QED
    BY <2>1, <2>2 DEF Queued
<1> QED
  BY <1>2, <1>3

LEMMA TaskTaken ==
  ASSUME LifeInv, UNCHANGED lifeVars, RunTask
  PROVE  LifeInv'
<1> USE DEF RunTask, socketVars
<1>1. LoopTypeOK /\ queue \in Seq(Ops)
  BY ReadsAreCounted DEF LifeInv, LifeTypeOK
<1>2. UNCHANGED <<work, stopped, own, credit, result, intr, socketVars, guard, isdone>>
  OBVIOUS
<1>3. queue' \in Seq({"task", "desc", "data", "eof"})
  BY <1>1 DEF LoopTypeOK
<1>4. event' \in BOOLEAN /\ interrupted' \in BOOLEAN /\ block' \in BOOLEAN
  BY <1>1 DEF LoopTypeOK
<1>5. LoopTypeOK'
  BY <1>1, <1>2, <1>3, <1>4 DEF LoopTypeOK, Stages
<1>6. Reads' = Reads
  <2>1. "task" \notin Results
    BY DEF Results
  <2>2. Completed(queue) = Completed(Tail(queue)) + 0
    BY <1>1, <2>1, CompletedTail
  <2>3. Tail(queue) \in Seq(Ops)
    BY <1>1
  <2>6. Completed(Tail(queue)) \in Nat
    BY <2>3, CompletedFinite
  <2>4. Completed(Tail(queue)) = Completed(queue)
    BY <2>2, <2>6
  <2>5. Completed(queue)' = Completed(queue) /\ Completed(own)' = Completed(own)
    BY <2>4 DEF Completed
  <2> QED
    BY <1>2, <2>5 DEF Reads, Handling
<1>7. OneRead' /\ WorkSettled'
  BY <1>2, <1>6 DEF LifeInv, LoopInv, OneRead, WorkSettled, Awaiting, lifeVars
<1>8. InHand' /\ RunsWhileGuarded'
  BY <1>2 DEF LifeInv, LoopInv, InHand, RunsWhileGuarded
<1>9. Awake'
  <2>1. loop' = "poll" /\ stopped' = stopped /\ ~stopped
    BY <1>2
  <2>2. block' => queue' = <<>>
    BY Zenon
  <2>4. interrupted' => queue' # <<>>
    <3>1. queue' = Tail(queue) /\ interrupted' = (Tail(queue) # <<>>)
      BY Zenon
    <3>2. CASE Tail(queue) = <<>>
      <4>1. interrupted' = FALSE
        BY <3>1, <3>2
      <4> QED
        BY <4>1
    <3>3. CASE Tail(queue) # <<>>
      BY <3>1, <3>3
    <3> QED
      BY <3>2, <3>3
  <2>3. block' => ~interrupted'
    BY <2>2, <2>4
  <2> HIDE DEF RunTask
  <2>5. loop' # "wait" /\ (block' => queue' = <<>> /\ ~stopped' /\ ~interrupted')
    BY <2>1, <2>2, <2>3
  <2> QED
    BY <2>5, Zenon DEF Awake
<1>10. NoLostData'
  <2>1. Queued("desc") => Queued("desc")'
    BY <1>1, StaysQueued
  <2> QED
    BY <1>2, <2>1 DEF LifeInv, LoopInv, NoLostData, Readable
<1> QED
  BY <1>2, <1>5, <1>7, <1>8, <1>9, <1>10, LoopSuffices DEF LoopInv

LEMMA OperationTaken ==
  ASSUME LifeInv, UNCHANGED lifeVars, RunOperation
  PROVE  LifeInv'
<1> USE DEF RunOperation, socketVars
<1>1. LoopTypeOK /\ queue \in Seq(Ops) /\ Head(queue) \in {"desc", "data", "eof"}
  <2>1. queue \in Seq(Ops)
    BY ReadsAreCounted
  <2>2. Head(queue) \in Ops
    BY <2>1
  <2> QED
    BY <2>1, <2>2 DEF LifeInv, LifeTypeOK, Ops
<1>2. UNCHANGED <<work, stopped, block, own, credit, result, socketVars, guard, isdone>>
  OBVIOUS
<1>3. Tail(queue) \in Seq(Ops)
  BY <1>1
<1>4. {event', interrupted', intr'} \subseteq BOOLEAN
  <2>1. CASE WakeOneThread
    BY <1>1, <2>1 DEF LoopTypeOK, WakeOneThread
  <2>2. CASE UNCHANGED <<event, interrupted, intr>>
    BY <1>1, <2>2 DEF LoopTypeOK
  <2> QED
    BY <2>1, <2>2
<1>5. LoopTypeOK'
  BY <1>1, <1>2, <1>3, <1>4 DEF LoopTypeOK, Stages, Ops
<1>6. /\ Completed(queue) = Completed(queue') + IF loop' \in Handling THEN 1 ELSE 0
      /\ Completed(queue') \in Nat
  <2>1. Completed(queue) = Completed(Tail(queue)) + IF Head(queue) \in Results THEN 1 ELSE 0
    BY <1>1, CompletedTail
  <2>2. Head(queue) \in Results <=> loop' \in Handling
    BY <1>1 DEF Results, Handling
  <2>3. Completed(Tail(queue)) \in Nat
    BY <1>3, CompletedFinite
  <2> QED
    BY <2>1, <2>2, <2>3
<1>7. Reads' = Reads
  <2>1. Completed(own)' = Completed(own) /\ Completed(queue)' = Completed(queue')
    BY <1>2 DEF Completed
  <2>2. loop \notin Handling
    BY DEF Handling
  <2> DEFINE h == IF loop' \in Handling THEN 1 ELSE 0
             a == IF armed THEN 1 ELSE 0
  <2>3. Reads = a + Completed(queue) + Completed(own) + 0
    BY <2>2 DEF Reads
  <2>4. Reads' = a + Completed(queue') + Completed(own) + h
    BY <1>2, <2>1 DEF Reads
  <2>5. h \in Nat /\ a \in Nat /\ Completed(own) \in Nat
    BY ReadsAreCounted
  <2> HIDE DEF h, a
  <2>6. Completed(queue) = Completed(queue') + h
    BY <1>6 DEF h
  <2> QED
    BY <1>6, <2>3, <2>4, <2>5, <2>6
<1>8. OneRead' /\ WorkSettled'
  BY <1>1, <1>2, <1>7 DEF LifeInv, LoopInv, OneRead, WorkSettled, Awaiting, lifeVars
<1>9. InHand' /\ RunsWhileGuarded'
  BY <1>1, <1>2 DEF LifeInv, LoopInv, InHand, RunsWhileGuarded
<1>10. Awake'
  BY <1>1 DEF Awake
<1>11. NoLostData'
  <2>1. CASE loop' = "desc"
    BY <2>1 DEF NoLostData
  <2>2. CASE loop' # "desc"
    <3>1. loop' \in Handling
      BY <1>1, <2>2 DEF Handling
    <3>2. Completed(queue) # 0
      BY <1>6, <3>1
    <3>3. ~armed
      BY <3>2, OneHandler
    <3> QED
      BY <1>2, <3>3 DEF NoLostData
  <2> QED
    BY <2>1, <2>2
<1> QED
  BY <1>2, <1>5, <1>8, <1>9, <1>10, <1>11, LoopSuffices DEF LoopInv

\* One operation is counted as one.
LEMMA CompletedOne ==
  ASSUME NEW op \in Ops
  PROVE  Completed(<<op>>) = IF op \in Results THEN 1 ELSE 0
<1>1. <<>> \in Seq(Ops) /\ <<op>> = Append(<<>>, op)
  OBVIOUS
<1>2. Completed(Append(<<>>, op)) = Completed(<<>>) + IF op \in Results THEN 1 ELSE 0
  BY <1>1, CompletedAppend
<1> QED
  BY <1>1, <1>2, CompletedNone

LEMMA PollEnds ==
  ASSUME LifeInv, UNCHANGED lifeVars, PollReturns
  PROVE  LifeInv'
<1> USE DEF PollReturns, schedulerVars
<1>1. LoopTypeOK
  BY DEF LifeInv, LifeTypeOK
<1>2. UNCHANGED <<queue, work, stopped, credit, result, armed, guard, isdone, avail, fin>>
  OBVIOUS
<1>3. own' = <<>> \/ own' = <<"desc">>
  OBVIOUS
<1>4. LoopTypeOK'
  <2>1. own' \in Seq({"desc", "data", "eof"})
    <3>1. <<>> \in Seq({"desc", "data", "eof"}) /\ <<"desc">> \in Seq({"desc", "data", "eof"})
      OBVIOUS
    <3> QED
      BY <1>3, <3>1, Zenon
  <2> QED
    BY <1>1, <2>1 DEF LoopTypeOK, Stages
<1>5. own = <<>> /\ credit = 0
  BY DEF LifeInv, LoopInv, InHand
<1>6. Reads' = Reads
  <2>1. Completed(own)' = 0
    <3>1. Completed(<<"desc">>) = 0
      BY CompletedOne DEF Ops, Results
    <3>2. own' = <<>> => Completed(own)' = Completed(<<>>)
      BY DEF Completed
    <3>3. own' = <<"desc">> => Completed(own)' = Completed(<<"desc">>)
      BY DEF Completed
    <3> QED
      BY <1>3, <3>1, <3>2, <3>3, CompletedNone
  <2>2. Completed(own) = 0 /\ Completed(queue)' = Completed(queue)
    BY <1>2, <1>5, CompletedNone DEF Completed
  <2>3. Completed(own) = 0
    BY <1>5, CompletedNone
  <2> QED
    BY <1>2, <2>1, <2>2, <2>3 DEF Reads, Handling
<1>7. OneRead' /\ WorkSettled'
  BY <1>2, <1>6 DEF LifeInv, LoopInv, OneRead, WorkSettled, Awaiting, lifeVars
<1>8. InHand' /\ RunsWhileGuarded' /\ Awake'
  BY <1>2, <1>3, <1>5 DEF LifeInv, LoopInv, InHand, RunsWhileGuarded, Awake, Results
<1>9. NoLostData'
  <2>1. edge => own' = <<"desc">>
    OBVIOUS
  <2>2. Queued("desc") => Queued("desc")'
    BY <1>2 DEF Queued
  <2> QED
    BY <1>2, <1>5, <2>1, <2>2 DEF LifeInv, LoopInv, NoLostData, Readable
<1> QED
  BY <1>2, <1>4, <1>7, <1>8, <1>9, LoopSuffices DEF LoopInv

\* The thread's own queue goes into the shared one, at most one operation.
LEMMA OwnJoins ==
  ASSUME LifeInv
  PROVE  /\ queue \o own \in Seq(Ops)
         /\ Completed(queue \o own) = Completed(queue) + Completed(own)
         /\ own = <<>> => queue \o own = queue
         /\ own # <<>> => \E op \in Ops : own = <<op>> /\ queue \o own = Append(queue, op)
<1>1. queue \in Seq(Ops) /\ own \in Seq(Ops) /\ Completed(queue) \in Nat
  BY ReadsAreCounted
<1>2. own = <<>> \/ \E op \in Ops : own = <<op>>
  BY DEF LifeInv, LoopInv, InHand, Ops
<1>3. CASE own = <<>>
  <2>1. queue \o own = queue
    BY <1>1, <1>3
  <2>2. Completed(own) = 0
    BY <1>3, CompletedNone
  <2> QED
    BY <1>1, <1>3, <2>1, <2>2
<1>4. CASE \E op \in Ops : own = <<op>>
  <2>1. PICK op \in Ops : own = <<op>>
    BY <1>4
  <2>2. queue \o own = Append(queue, op) /\ own # <<>>
    BY <1>1, <2>1
  <2>3. Completed(own) = IF op \in Results THEN 1 ELSE 0
    BY <2>1, CompletedOne
  <2>4. Completed(Append(queue, op)) = Completed(queue) + IF op \in Results THEN 1 ELSE 0
    BY <1>1, CompletedAppend
  <2>5. Completed(queue \o own) = Completed(queue) + Completed(own)
    BY <2>2, <2>3, <2>4
  <2> QED
    BY <1>1, <2>1, <2>2, <2>5
<1> QED
  BY <1>2, <1>3, <1>4

\* What was queued stays, and what comes is there.
LEMMA QueuedJoins ==
  ASSUME LifeInv, NEW op \in Ops, Queued(op) \/ own = <<op>>,
         queue' = queue \o own \/ queue' = queue \o own \o <<"task">>
  PROVE  Queued(op)'
<1>1. queue \in Seq(Ops) /\ own \in Seq(Ops)
  BY ReadsAreCounted
<1>2. PICK i \in DOMAIN (queue \o own) : (queue \o own)[i] = op
  <2>1. CASE Queued(op)
    <3>1. PICK i \in DOMAIN queue : queue[i] = op
      BY <2>1 DEF Queued
    <3>2. i \in DOMAIN (queue \o own) /\ (queue \o own)[i] = op
      BY <1>1, <3>1
    <3> QED
      BY <3>2
  <2>2. CASE own = <<op>>
    <3>1. queue \o own = Append(queue, op)
      BY <1>1, <2>2
    <3>2. /\ Len(queue) + 1 \in DOMAIN Append(queue, op)
          /\ Append(queue, op)[Len(queue) + 1] = op
      BY <1>1
    <3> QED
      BY <3>1, <3>2
  <2> QED
    BY <2>1, <2>2
<1> DEFINE q == queue \o own
<1>3. q \in Seq(Ops)
  BY <1>1
<1>4. CASE queue' = q
  BY <1>2, <1>4 DEF Queued
<1>5. CASE queue' = q \o <<"task">>
  <2> HIDE DEF q
  <2>1. i \in DOMAIN q /\ q[i] = op
    BY <1>2 DEF q
  <2>2. i \in DOMAIN (q \o <<"task">>) /\ (q \o <<"task">>)[i] = op
    BY <1>3, <2>1
  <2> QED
    BY <1>5, <2>2 DEF Queued
<1> QED
  BY <1>4, <1>5

LEMMA TaskBack ==
  ASSUME LifeInv, UNCHANGED lifeVars, TaskCleanup
  PROVE  LifeInv'
<1> USE DEF TaskCleanup, socketVars
<1>1. LoopTypeOK
  BY DEF LifeInv, LifeTypeOK
<1>2. UNCHANGED <<work, stopped, event, block, credit, result, intr, socketVars, guard, isdone>>
  OBVIOUS
<1> DEFINE q == queue \o own
<1>3. q \in Seq(Ops) /\ Completed(q) = Completed(queue) + Completed(own)
  BY OwnJoins
<1>4. queue' = Append(q, "task") /\ queue' = q \o <<"task">> /\ own' = <<>>
  <2>1. queue' = q \o <<"task">> /\ own' = <<>>
    OBVIOUS
  <2> HIDE DEF q
  <2>2. q \o <<"task">> = Append(q, "task")
    BY <1>3
  <2> QED
    BY <2>1, <2>2
<1>5. Completed(queue)' = Completed(queue) + Completed(own)
  <2> HIDE DEF q
  <2>1. "task" \in Ops /\ "task" \notin Results
    BY DEF Ops, Results
  <2>2. Completed(Append(q, "task")) = Completed(q) + 0
    BY <1>3, <2>1, CompletedAppend
  <2>3. Completed(queue)' = Completed(Append(q, "task"))
    BY <1>4 DEF Completed
  <2>4. Completed(queue) \in Nat /\ Completed(own) \in Nat
    BY ReadsAreCounted
  <2> QED
    BY <1>3, <2>2, <2>3, <2>4
<1>6. Completed(own)' = 0
  <2>1. Completed(own)' = Completed(<<>>)
    BY <1>4 DEF Completed
  <2> QED
    BY <2>1, CompletedNone
<1>7. LoopTypeOK'
  <2> HIDE DEF q
  <2>1. queue' \in Seq({"task", "desc", "data", "eof"})
    <3>1. "task" \in Ops
      BY DEF Ops
    <3>2. Append(q, "task") \in Seq(Ops)
      BY <1>3, <3>1
    <3> QED
      BY <1>4, <3>2, Zenon DEF Ops
  <2>2. own' \in Seq({"desc", "data", "eof"})
    BY <1>4
  <2>3. interrupted' = TRUE
    OBVIOUS
  <2> QED
    BY <1>1, <1>2, <2>1, <2>2, <2>3 DEF LoopTypeOK, Stages
<1>8. Reads' = Reads
  <2> DEFINE a == IF armed THEN 1 ELSE 0
  <2>1. loop \notin Handling /\ loop' \notin Handling
    BY DEF Handling
  <2>2. Reads = a + Completed(queue) + Completed(own) + 0
    BY <2>1 DEF Reads
  <2>3. Reads' = a + Completed(queue)' + Completed(own)' + 0
    BY <1>2, <2>1 DEF Reads
  <2>4. a \in Nat /\ Completed(queue) \in Nat /\ Completed(own) \in Nat
    BY ReadsAreCounted
  <2> HIDE DEF a
  <2> QED
    BY <1>5, <1>6, <2>2, <2>3, <2>4
<1>9. OneRead' /\ WorkSettled'
  BY <1>2, <1>8 DEF LifeInv, LoopInv, OneRead, WorkSettled, Awaiting, lifeVars
<1>10. InHand' /\ RunsWhileGuarded' /\ Awake'
  BY <1>2, <1>4 DEF LifeInv, LoopInv, InHand, RunsWhileGuarded, Awake
<1>11. NoLostData'
  <2>1. Queued("desc") \/ own = <<"desc">> => Queued("desc")'
    BY <1>4, QueuedJoins DEF Ops
  <2> QED
    BY <1>2, <2>1 DEF LifeInv, LoopInv, NoLostData, Readable
<1> QED
  BY <1>2, <1>7, <1>9, <1>10, <1>11, LoopSuffices DEF LoopInv

LEMMA IoPerformed ==
  ASSUME LifeInv, UNCHANGED lifeVars, PerformIo
  PROVE  LifeInv'
<1> USE DEF schedulerVars
<1>1. LoopTypeOK /\ loop = "desc" /\ own = <<>> /\ credit = 0
  BY DEF LifeInv, LifeTypeOK, LoopInv, InHand, PerformIo
<1>2. UNCHANGED <<queue, work, stopped, event, interrupted, block, own, result, intr, edge,
                  fin, sent, guard, isdone>>
  BY DEF PerformIo
<1>3. Completed(queue)' = Completed(queue) /\ Completed(own)' = Completed(own)
  BY <1>2 DEF Completed
<1>4. Awaiting' = Awaiting
  BY <1>2 DEF Awaiting, lifeVars
<1>5. RunsWhileGuarded' /\ Awake'
  <2>1. loop' \notin {"wait", "poll", "returned"}
    BY DEF PerformIo, Results
  <2> QED
    BY <1>2, <2>1 DEF LifeInv, LoopInv, RunsWhileGuarded, Awake
<1>6. CASE armed /\ Readable
  <2>1. PICK r \in Results : Receive(r) /\ loop' = r
    BY <1>6 DEF PerformIo
  <2>2. armed' = FALSE /\ credit' = credit
    BY <1>6 DEF PerformIo
  <2>3. avail' \in Nat
    BY <1>1, <2>1, ReceiveTypes
  <2>4. LoopTypeOK'
    BY <1>1, <1>2, <2>1, <2>2, <2>3 DEF LoopTypeOK, Stages, Results
  <2>5. Reads' = Reads
    <3>1. loop \notin Handling /\ loop' \in Handling
      BY <1>1, <2>1 DEF Handling, Results
    <3> QED
      BY <1>3, <1>6, <2>2, <3>1, ReadsAreCounted DEF Reads
  <2>6. OneRead' /\ WorkSettled'
    BY <1>1, <1>2, <1>4, <2>1, <2>2, <2>5
       DEF LifeInv, LoopInv, OneRead, WorkSettled, Results, lifeVars
  <2>7. InHand' /\ NoLostData'
    BY <1>1, <1>2, <2>1, <2>2 DEF LifeInv, LoopInv, InHand, NoLostData, Results
  <2> QED
    BY <1>2, <1>5, <2>4, <2>6, <2>7, LoopSuffices DEF LoopInv
<1>7. CASE ~(armed /\ Readable)
  <2>1. credit' = 1 /\ loop' = "cleanup" /\ avail' = avail /\ armed' = armed
    BY <1>1, <1>7 DEF PerformIo
  <2>2. LoopTypeOK'
    BY <1>1, <1>2, <2>1 DEF LoopTypeOK, Stages
  <2>3. Reads' = Reads
    BY <1>1, <1>2, <2>1, ReadsKept DEF Handling
  <2>4. OneRead' /\ WorkSettled'
    <3> DEFINE n == (IF guard THEN 1 ELSE 0) + (IF Awaiting THEN 1 ELSE 0)
    <3>1. OneRead'
      BY <1>2, <1>4, <2>3 DEF LifeInv, LoopInv, OneRead, lifeVars
    <3>2. work + credit = n + 0
      BY <1>1 DEF LifeInv, LoopInv, WorkSettled
    <3>3. WorkSettled' <=> work + 1 = n + 1
      BY <1>2, <1>4, <2>1 DEF WorkSettled
    <3>4. n \in Nat /\ work \in Nat
      BY <1>1 DEF LoopTypeOK
    <3> HIDE DEF n
    <3> QED
      BY <1>1, <3>1, <3>2, <3>3, <3>4
  <2>5. InHand' /\ NoLostData'
    BY <1>1, <1>2, <1>7, <2>1 DEF LifeInv, LoopInv, InHand, NoLostData, Readable
  <2> QED
    BY <1>2, <1>5, <2>2, <2>4, <2>5, LoopSuffices DEF LoopInv
<1> QED
  BY <1>6, <1>7

LEMMA DataHandled ==
  ASSUME LifeInv, UNCHANGED lifeVars, HandleData
  PROVE  LifeInv'
<1> USE DEF HandleData
<1>1. LoopTypeOK /\ own = <<>> /\ credit = 0 /\ result = "none"
  BY DEF LifeInv, LifeTypeOK, LoopTypeOK, LoopInv, InHand
<1>2. UNCHANGED <<queue, stopped, interrupted, event, block, own, credit, intr, edge, fin,
                  sent, guard, isdone>>
  OBVIOUS
<1>3. ~armed /\ Awaiting
  BY OneHandler DEF Handling
<1>4. Completed(queue)' = Completed(queue) /\ Completed(own)' = Completed(own)
  BY <1>2 DEF Completed
<1>5. Awaiting' = Awaiting
  BY <1>2 DEF Awaiting, lifeVars
<1>6. loop' \in {"cleanup", "post"}
  OBVIOUS
<1>7. RunsWhileGuarded' /\ Awake'
  BY <1>2, <1>6 DEF LifeInv, LoopInv, RunsWhileGuarded, Awake
<1>8. CASE ArmRead /\ loop' = "cleanup" /\ UNCHANGED <<avail, result>>
  <2>1. ~Readable /\ armed' = TRUE /\ work' = work + 1
    BY <1>8 DEF ArmRead
  <2>2. LoopTypeOK'
    BY <1>1, <1>2, <1>8, <2>1 DEF LoopTypeOK, Stages
  <2>3. Reads' = Reads
    BY <1>3, <1>4, <1>8, <2>1, ReadsAreCounted DEF Reads, Handling
  <2>4. OneRead' /\ WorkSettled'
    <3> DEFINE n == (IF guard THEN 1 ELSE 0) + (IF Awaiting THEN 1 ELSE 0)
    <3>1. OneRead'
      BY <1>2, <1>5, <2>3 DEF LifeInv, LoopInv, OneRead, lifeVars
    <3>2. work + credit = n + 0
      BY <1>1 DEF LifeInv, LoopInv, WorkSettled
    <3>3. WorkSettled' <=> (work + 1) + credit = n + 1
      BY <1>2, <1>5, <1>8, <2>1 DEF WorkSettled
    <3>4. n \in Nat /\ work \in Nat
      BY <1>1 DEF LoopTypeOK
    <3> HIDE DEF n
    <3> QED
      BY <1>1, <3>1, <3>2, <3>3, <3>4
  <2>5. InHand' /\ NoLostData'
    BY <1>1, <1>2, <1>8, <2>1 DEF InHand, NoLostData, Readable, Results
  <2> QED
    BY <1>2, <1>7, <2>2, <2>4, <2>5, LoopSuffices DEF LoopInv
<1>9. CASE /\ \E r \in Results : Receive(r) /\ result' = r
           /\ loop' = "post" /\ UNCHANGED <<work, armed>>
  <2>1. PICK r \in Results : Receive(r) /\ result' = r
    BY <1>9
  <2>2. avail' \in Nat
    BY <1>1, <2>1, ReceiveTypes
  <2>3. LoopTypeOK'
    BY <1>1, <1>2, <1>9, <2>1, <2>2 DEF LoopTypeOK, Stages
  <2>4. Reads' = Reads
    BY <1>2, <1>9, ReadsKept DEF Handling
  <2>5. OneRead' /\ WorkSettled'
    BY <1>2, <1>5, <1>9, <2>4 DEF LifeInv, LoopInv, OneRead, WorkSettled, lifeVars
  <2>6. InHand' /\ NoLostData'
    BY <1>1, <1>2, <1>3, <1>9, <2>1 DEF InHand, NoLostData
  <2> QED
    BY <1>2, <1>7, <2>3, <2>5, <2>6, LoopSuffices DEF LoopInv
<1> QED
  BY <1>8, <1>9

LEMMA EndHandled ==
  ASSUME LifeInv, UNCHANGED lifeVars, HandleEnd
  PROVE  LifeInv'
<1> USE DEF HandleEnd, schedulerVars, socketVars
<1>1. LoopTypeOK
  BY DEF LifeInv, LifeTypeOK
<1>2. UNCHANGED <<schedulerVars, block, own, credit, result, intr, socketVars, guard>>
  OBVIOUS
<1>3. /\ Awaiting /\ ~armed /\ Completed(queue) = 0 /\ Completed(own) = 0
      /\ main = "await" /\ main' = main /\ ~Awaiting'
  BY OneHandler DEF Handling, Awaiting, lifeVars
<1>4. LoopTypeOK'
  BY <1>1, <1>2 DEF LoopTypeOK, Stages
<1>5. Reads' = 0
  <2>1. Completed(queue)' = 0 /\ Completed(own)' = 0
    BY <1>2, <1>3 DEF Completed
  <2> QED
    BY <1>2, <1>3, <2>1 DEF Reads, Handling
<1>6. OneRead'
  BY <1>3, <1>5 DEF OneRead
<1>7. WorkSettled'
  <2> DEFINE g == IF guard THEN 1 ELSE 0
  <2>1. work + credit = g + 1 + 0
    BY <1>3 DEF LifeInv, LoopInv, WorkSettled
  <2>2. WorkSettled' <=> work + credit = g + 0 + 1
    BY <1>2, <1>3 DEF WorkSettled
  <2>3. g \in Nat
    OBVIOUS
  <2> HIDE DEF g
  <2> QED
    BY <2>1, <2>2, <2>3
<1>8. InHand' /\ RunsWhileGuarded' /\ Awake' /\ NoLostData'
  BY <1>2, <1>3 DEF LifeInv, LoopInv, InHand, RunsWhileGuarded, Awake, NoLostData
<1> QED
  BY <1>2, <1>4, <1>6, <1>7, <1>8, LoopSuffices DEF LoopInv

LEMMA PostedPrivately ==
  ASSUME LifeInv, UNCHANGED lifeVars, PostPrivately
  PROVE  LifeInv'
<1> USE DEF PostPrivately, schedulerVars, socketVars
<1>1. LoopTypeOK /\ own = <<>> /\ credit = 0 /\ result \in Results
  BY DEF LifeInv, LifeTypeOK, LoopInv, InHand
<1>2. UNCHANGED <<schedulerVars, block, intr, socketVars, guard, isdone>>
  OBVIOUS
<1>3. ~armed /\ Completed(queue) = 0 /\ Awaiting /\ Completed(own) = 0
  BY OneHandler DEF Handling
<1>4. own' = <<result>>
  BY <1>1
<1>5. LoopTypeOK'
  <2>1. own' \in Seq({"desc", "data", "eof"})
    <3>1. result \in {"desc", "data", "eof"}
      BY <1>1 DEF Results
    <3>2. <<result>> \in Seq({"desc", "data", "eof"})
      BY <3>1
    <3> QED
      BY <1>4, <3>2, Zenon
  <2> QED
    BY <1>1, <1>2, <2>1 DEF LoopTypeOK, Stages
<1>6. Completed(own)' = 1 /\ Completed(queue)' = 0
  <2>1. result \in Ops
    BY <1>1 DEF Ops, Results
  <2>2. Completed(<<result>>) = 1
    BY <1>1, <2>1, CompletedOne
  <2> QED
    BY <1>2, <1>3, <1>4, <2>2 DEF Completed
<1>7. Reads' = Reads
  BY <1>2, <1>3, <1>6 DEF Reads, Handling
<1>8. OneRead' /\ WorkSettled'
  <2> DEFINE n == (IF guard THEN 1 ELSE 0) + (IF Awaiting THEN 1 ELSE 0)
  <2>1. Awaiting' = Awaiting
    BY <1>2 DEF Awaiting, lifeVars
  <2>2. OneRead'
    BY <1>2, <1>7, <2>1 DEF LifeInv, LoopInv, OneRead, lifeVars
  <2>3. work + credit = n + 0
    BY DEF LifeInv, LoopInv, WorkSettled
  <2>4. WorkSettled' <=> work + (credit + 1) = n + 1
    BY <1>2, <2>1 DEF WorkSettled
  <2>5. n \in Nat /\ work \in Nat
    BY <1>1 DEF LoopTypeOK
  <2> HIDE DEF n
  <2> QED
    BY <1>1, <2>2, <2>3, <2>4, <2>5
<1>9. InHand'
  <2>1. own' \in {<<"data">>, <<"eof">>}
    BY <1>1, <1>4 DEF Results
  <2> QED
    BY <1>1, <2>1 DEF InHand, Results
<1>10. RunsWhileGuarded' /\ Awake' /\ NoLostData'
  BY <1>2, <1>3 DEF LifeInv, LoopInv, RunsWhileGuarded, Awake, NoLostData
<1> QED
  BY <1>2, <1>5, <1>8, <1>9, <1>10, LoopSuffices DEF LoopInv

LEMMA Posted ==
  ASSUME LifeInv, UNCHANGED lifeVars, Post
  PROVE  LifeInv'
<1> USE DEF Post, socketVars
<1>1. LoopTypeOK /\ own = <<>> /\ credit = 0 /\ result \in Results
  BY DEF LifeInv, LifeTypeOK, LoopInv, InHand
<1>2. UNCHANGED <<stopped, block, own, credit, socketVars, guard, isdone>>
  OBVIOUS
<1>3. ~armed /\ Completed(queue) = 0 /\ Awaiting /\ Completed(own) = 0
  BY OneHandler DEF Handling
<1>4. {event', interrupted', intr'} \subseteq BOOLEAN
  BY <1>1 DEF LoopTypeOK, WakeOneThread
<1>5. LoopTypeOK'
  <2>1. queue' \in Seq({"task", "desc", "data", "eof"})
    <3>1. result \in Ops
      BY <1>1 DEF Ops, Results
    <3>2. Append(queue, result) \in Seq(Ops)
      BY <3>1, ReadsAreCounted
    <3> QED
      BY <3>2, Zenon DEF Ops
  <2>2. work' \in Nat /\ result' = "none" /\ loop' = "cleanup"
    BY <1>1 DEF LoopTypeOK
  <2> QED
    BY <1>1, <1>2, <1>4, <2>1, <2>2 DEF LoopTypeOK, Stages
<1>6. Completed(queue)' = 1 /\ Completed(own)' = 0
  <2>1. Completed(queue)' = Completed(queue) + 1
    BY <1>1, ReadQueued, ReadsAreCounted
  <2>2. Completed(own)' = Completed(own)
    BY <1>2 DEF Completed
  <2> QED
    BY <1>3, <2>1, <2>2
<1>7. Reads' = Reads
  BY <1>2, <1>3, <1>6 DEF Reads, Handling
<1>8. OneRead' /\ WorkSettled'
  <2> DEFINE n == (IF guard THEN 1 ELSE 0) + (IF Awaiting THEN 1 ELSE 0)
  <2>1. Awaiting' = Awaiting
    BY <1>2 DEF Awaiting, lifeVars
  <2>2. OneRead'
    BY <1>2, <1>7, <2>1 DEF LifeInv, LoopInv, OneRead, lifeVars
  <2>3. work + credit = n + 0
    BY DEF LifeInv, LoopInv, WorkSettled
  <2>4. WorkSettled' <=> (work + 1) + credit = n + 1
    BY <1>2, <2>1 DEF WorkSettled
  <2>5. n \in Nat /\ work \in Nat
    BY <1>1 DEF LoopTypeOK
  <2> HIDE DEF n
  <2> QED
    BY <1>1, <2>2, <2>3, <2>4, <2>5
<1>9. InHand' /\ RunsWhileGuarded' /\ Awake' /\ NoLostData'
  BY <1>1, <1>2, <1>3
     DEF LifeInv, LoopInv, InHand, RunsWhileGuarded, Awake, NoLostData, Results
<1> QED
  BY <1>2, <1>5, <1>8, <1>9, LoopSuffices DEF LoopInv

LEMMA WorkCleanedUp ==
  ASSUME LifeInv, UNCHANGED lifeVars, WorkCleanup
  PROVE  LifeInv'
<1> USE DEF WorkCleanup, socketVars
<1>1. LoopTypeOK /\ (credit = 0 \/ credit = 1) /\ work \in Nat
  BY DEF LifeInv, LifeTypeOK, LoopTypeOK, LoopInv, InHand
<1>2. UNCHANGED <<block, result, socketVars, guard, isdone>>
  OBVIOUS
<1>3. work' = work + credit - 1 /\ work' \in Nat /\ credit' = 0
  BY <1>1, WorkIsThere DEF WorkFinished
<1>4. {stopped', event', interrupted', intr'} \subseteq BOOLEAN
  <2>1. CASE StopAllThreads
    BY <1>1, <2>1 DEF LoopTypeOK, StopAllThreads
  <2>2. CASE UNCHANGED <<stopped, event, interrupted, intr>>
    BY <1>1, <2>2 DEF LoopTypeOK
  <2> QED
    BY <2>1, <2>2 DEF WorkFinished
<1>5. LoopTypeOK'
  <2>1. queue' \in Seq({"task", "desc", "data", "eof"})
    BY OwnJoins DEF Ops
  <2>2. own' \in Seq({"desc", "data", "eof"})
    OBVIOUS
  <2> QED
    BY <1>1, <1>2, <1>3, <1>4, <2>1, <2>2 DEF LoopTypeOK, Stages
<1>6. Reads' = Reads
  <2> DEFINE a == IF armed THEN 1 ELSE 0
  <2>1. Completed(queue)' = Completed(queue) + Completed(own)
    BY OwnJoins DEF Completed
  <2>2. Completed(own)' = 0
    <3>1. Completed(own)' = Completed(<<>>)
      BY DEF Completed
    <3> QED
      BY <3>1, CompletedNone
  <2>3. Reads = a + Completed(queue) + Completed(own) + 0
    BY DEF Reads, Handling
  <2>4. Reads' = a + Completed(queue)' + Completed(own)' + 0
    BY <1>2 DEF Reads, Handling
  <2>5. a \in Nat /\ Completed(queue) \in Nat /\ Completed(own) \in Nat
    BY ReadsAreCounted
  <2> HIDE DEF a
  <2> QED
    BY <2>1, <2>2, <2>3, <2>4, <2>5
<1>7. OneRead' /\ WorkSettled'
  <2> DEFINE n == (IF guard THEN 1 ELSE 0) + (IF Awaiting THEN 1 ELSE 0)
  <2>1. Awaiting' = Awaiting
    BY <1>2 DEF Awaiting, lifeVars
  <2>2. OneRead'
    BY <1>2, <1>6, <2>1 DEF LifeInv, LoopInv, OneRead, lifeVars
  <2>3. work + credit = n + 1
    BY DEF LifeInv, LoopInv, WorkSettled
  <2>4. WorkSettled' <=> work' + credit' = n + 0
    BY <1>2, <2>1 DEF WorkSettled
  <2>5. n \in Nat
    OBVIOUS
  <2> HIDE DEF n
  <2> QED
    BY <1>1, <1>3, <2>2, <2>3, <2>4, <2>5
<1>8. InHand' /\ Awake'
  BY <1>2, <1>3 DEF LifeInv, LoopInv, InHand, Awake
<1>9. RunsWhileGuarded'
  <2>1. stopped' => stopped \/ (work = 1 /\ credit = 0)
    BY DEF WorkFinished
  <2> QED
    BY <1>2, <2>1, WorkIsThere DEF LifeInv, LoopInv, RunsWhileGuarded
<1>10. NoLostData'
  <2>1. Queued("desc") => Queued("desc")'
    BY QueuedJoins DEF Ops
  <2>2. own # <<"desc">>
    <3>1. own = <<>> \/ own[1] = "data" \/ own[1] = "eof"
      BY DEF LifeInv, LoopInv, InHand
    <3>2. <<"desc">>[1] = "desc" /\ <<"desc">> # <<>>
      OBVIOUS
    <3> QED
      BY <3>1, <3>2
  <2> QED
    BY <1>2, <2>1, <2>2 DEF LifeInv, LoopInv, NoLostData, Readable
<1> QED
  BY <1>2, <1>5, <1>7, <1>8, <1>9, <1>10, LoopSuffices DEF LoopInv

-----------------------------------------------------------------------------
(* What nobody has to wait for in vain.                                    *)

\* The task of the reactor is queued or runs, from the first socket on, and main() joins
\* the context thread only after it has stopped the context.
Driven ==
  /\ main \notin {"initbot", "context", "socket"} =>
       Queued("task") \/ loop \in {"poll", "polled"}
  /\ main \in {"joincontext", "shutdown", "joinbot", "joinstop"} => stopped

\* Steps of main() and of the server.
LEMMA DrivenByMain ==
  ASSUME LifeInv, Driven, MainStep \/ ProcessDies \/ ServerStep \/ StopStep \/ TypeKey \/ BotWaits
  PROVE  Driven'
<1>1. queue \in Seq(Ops)
  BY ReadsAreCounted
<1>2. loop' = loop
  BY DEF MainStep, InitBot, StartContext, FirstSocket, ResolveDns, StartStopThread, Top,
         Connect, StartRead, AwaitDone, CountDown, Reset, Stop, JoinContext, Shutdown, JoinBot,
         JoinStop, ProcessDies, ServerStep, StopStep, TestMainloop, ReadKey, CompareKey,
         TypeKey, BotWaits, InitTask, NewSocket, MainReads, ResetGuard, StopContext,
         DataArrives, StreamEnds, loopVars, threadVars
<1>3. CASE FirstSocket
  <2>1. queue' = Append(queue, "task") /\ main' = "resolve"
    BY <1>3 DEF FirstSocket, InitTask
  <2>2. /\ Len(queue) + 1 \in DOMAIN Append(queue, "task")
        /\ Append(queue, "task")[Len(queue) + 1] = "task"
    BY <1>1
  <2> QED
    BY <2>1, <2>2 DEF Driven, Queued
<1>4. CASE StartRead
  <2>1. main = "reads" /\ main' = "await"
    BY <1>4 DEF StartRead
  <2>2. queue' = queue \/ \E r \in Ops : queue' = Append(queue, r)
    BY <1>4 DEF StartRead, MainReads, Results, Ops
  <2>3. Queued("task") => Queued("task")'
    BY <1>1, <2>2, StaysQueued DEF Queued
  <2> QED
    BY <1>2, <2>1, <2>3 DEF Driven
<1>5. CASE Stop
  BY <1>2, <1>5 DEF Driven, Stop, StopContext, StopAllThreads, Queued
<1>6. CASE ~(FirstSocket \/ StartRead \/ Stop)
  <2>1. queue' = queue /\ (stopped => stopped')
    <3>1. CASE Reset
      BY <3>1 DEF Reset, ResetGuard, WorkFinished, StopAllThreads
    <3>2. CASE Connect \/ ServerStep
      BY <3>2 DEF Connect, NewSocket, ServerStep, DataArrives, StreamEnds, schedulerVars
    <3>3. CASE UNCHANGED loopVars
      BY <3>3 DEF loopVars, schedulerVars
    <3>4. Reset \/ Connect \/ ServerStep \/ UNCHANGED loopVars
      BY <1>6 DEF MainStep, InitBot, StartContext, ResolveDns, StartStopThread, Top, AwaitDone,
             CountDown, JoinContext, Shutdown, JoinBot, JoinStop, ProcessDies, StopStep,
             TestMainloop, ReadKey, CompareKey, TypeKey, BotWaits
    <3> QED
      BY <3>1, <3>2, <3>3, <3>4
  <2>2. /\ main \in {"initbot", "context", "socket"} => main' \in {"initbot", "context", "socket"}
        /\ main' \in {"joincontext", "shutdown", "joinbot", "joinstop"} =>
             main \in {"joincontext", "shutdown", "joinbot", "joinstop"}
    BY <1>6 DEF MainStep, InitBot, StartContext, ResolveDns, StartStopThread, Top, NextVisit,
           Connect, AwaitDone, CountDown, Reset, JoinContext, Shutdown, JoinBot, JoinStop,
           ProcessDies, ServerStep, StopStep, TestMainloop, ReadKey, CompareKey, TypeKey,
           BotWaits, lifeVars
  <2> QED
    BY <1>2, <2>1, <2>2 DEF Driven, Queued
<1> QED
  BY <1>3, <1>4, <1>5, <1>6

\* Steps of the context thread: it takes the task only to run it.
LEMMA DrivenByContext ==
  ASSUME LifeInv, Driven, ContextStep
  PROVE  Driven'
<1>1. queue \in Seq(Ops) /\ own \in Seq(Ops) /\ main' = main
  BY ReadsAreCounted DEF ContextStep, lifeVars
<1>2. stopped => stopped'
  BY DEF ContextStep, LoopStep, RunWithWork, RunWithoutWork, RunReturns, AwaitEvent,
         EventSignalled, RunTask, RunOperation, PollReturns, TaskCleanup, PerformIo, HandleData,
         PostPrivately, Post, HandleEnd, WorkCleanup, WorkFinished, StopAllThreads, schedulerVars
<1>3. Queued("task") \/ loop \in {"poll", "polled"} =>
        (Queued("task") \/ loop \in {"poll", "polled"})'
  <2>1. CASE RunTask \/ PollReturns
    BY <2>1 DEF RunTask, PollReturns
  <2>2. CASE TaskCleanup
    <3> DEFINE q == queue \o own
    <3>1. q \in Seq(Ops) /\ queue' = q \o <<"task">>
      BY <1>1, <2>2 DEF TaskCleanup
    <3> HIDE DEF q
    <3>2. Len(q) + 1 \in DOMAIN (q \o <<"task">>) /\ (q \o <<"task">>)[Len(q) + 1] = "task"
      BY <3>1
    <3> QED
      BY <3>1, <3>2 DEF Queued
  <2>3. CASE RunOperation
    BY <1>1, <2>3, StaysQueued DEF RunOperation
  <2>4. CASE Post
    <3>1. \E r \in Ops : queue' = Append(queue, r)
      BY <2>4 DEF Post, LifeInv, LoopInv, InHand, Results, Ops
    <3> QED
      BY <1>1, <2>4, <3>1, StaysQueued DEF Post
  <2>5. CASE WorkCleanup
    BY <2>5, QueuedJoins DEF WorkCleanup, Ops
  <2>6. CASE \/ RunWithWork \/ RunWithoutWork \/ RunReturns \/ AwaitEvent \/ EventSignalled
             \/ PerformIo \/ HandleData \/ PostPrivately \/ HandleEnd
    <3>1. queue' = queue /\ loop \notin {"poll", "polled"}
      BY <2>6 DEF RunWithWork, RunWithoutWork, RunReturns, AwaitEvent, EventSignalled,
             PerformIo, HandleData, PostPrivately, HandleEnd, schedulerVars
    <3> QED
      BY <3>1 DEF Queued
  <2> QED
    BY <2>1, <2>2, <2>3, <2>4, <2>5, <2>6 DEF ContextStep, LoopStep
<1> QED
  BY <1>1, <1>2, <1>3 DEF Driven

\* A thread that sleeps for good would sleep beside a read that can be done, or after
\* stop(): with the task in the queue or in hand neither happens.
LEMMA DrivenNeverStuck ==
  ASSUME LifeInv, Driven
  PROVE  NeverStuck
<1> SUFFICES ASSUME ContextIsDue
             PROVE  /\ loop # "returned"
                    /\ loop = "wait" => event
                    /\ loop = "poll" => intr \/ edge \/ ~block
  BY DEF NeverStuck
<1>1. Awake /\ NoLostData /\ InHand /\ RunsWhileGuarded /\ GuardHeld
  BY DEF LifeInv, LoopInv
<1>2. loop # "returned"
  BY <1>1 DEF ContextIsDue, RunsWhileGuarded, GuardHeld
<1>3. queue = <<>> => ~Queued("task") /\ ~Queued("desc")
  BY DEF Queued
<1>4. ASSUME loop = "wait" PROVE event
  <2>1. Queued("task")
    BY <1>4 DEF Driven, ContextIsDue
  <2> QED
    BY <1>1, <1>3, <1>4, <2>1 DEF Awake
<1>5. ASSUME loop = "poll", block, ~intr PROVE edge
  <2>1. queue = <<>> /\ ~stopped /\ own = <<>>
    BY <1>1, <1>5 DEF Awake, InHand
  <2>2. main = "await" /\ fin /\ ~isdone
    BY <1>5, <2>1 DEF ContextIsDue, Driven
  <2>3. armed
    <3>1. Completed(queue) = 0 /\ Completed(own) = 0
      BY <2>1, CompletedNone
    <3>2. Reads = 1
      BY <2>2 DEF LifeInv, LoopInv, OneRead, Awaiting
    <3> QED
      BY <1>5, <3>1, <3>2 DEF Reads, Handling
  <2>4. own # <<"desc">>
    BY <2>1
  <2> QED
    BY <1>1, <1>3, <1>5, <2>1, <2>2, <2>3, <2>4 DEF NoLostData, Readable
<1> QED
  BY <1>2, <1>4, <1>5

-----------------------------------------------------------------------------
(* The theorems.                                                           *)

\* Every step keeps the invariant.
LEMMA NextPreserves == LifeInv /\ [Next]_vars => LifeInv'
<1> SUFFICES ASSUME LifeInv, [Next]_vars PROVE LifeInv'
  OBVIOUS
<1>1. CASE MainStep
  BY <1>1, MainAlone, SocketReplaced, ReadStarted, TaskQueued, ContextStopped DEF MainStep
<1>2. CASE ProcessDies
  BY <1>2, MainAlone
<1>3. CASE ContextStep
  <2>1. UNCHANGED lifeVars /\ LoopStep
    BY <1>3 DEF ContextStep
  <2> QED
    BY <2>1, ThreadMoves, TaskTaken, OperationTaken, PollEnds, TaskBack, IoPerformed,
       DataHandled, EndHandled, PostedPrivately, Posted, WorkCleanedUp DEF LoopStep
<1>4. CASE ServerStep
  BY <1>4, ServerActs
<1>5. CASE StopStep \/ TypeKey \/ BotWaits
  BY <1>5, OthersAlone DEF StopStep
<1>6. CASE UNCHANGED vars
  <2>1. UNCHANGED loopVars /\ UNCHANGED lifeVars
    BY <1>6 DEF vars
  <2>2. guard' = guard /\ Awaiting' = Awaiting /\ main' = main
    BY <2>1 DEF loopVars, lifeVars, Awaiting
  <2>3. LoopInv'
    BY <2>1, <2>2, LoopUntouched DEF LifeInv
  <2> QED
    BY <2>1, <2>2, <2>3, LoopSuffices
<1> QED
  BY <1>1, <1>2, <1>3, <1>4, <1>5, <1>6 DEF Next

\* The invariant behind all that follows, in every state of every behaviour.
THEOREM LifeInductive == Spec => []LifeInv
<1>1. Init => LifeInv
  BY InitEstablishes
<1>2. LifeInv /\ [Next]_vars => LifeInv'
  BY NextPreserves
<1> QED
  BY <1>1, <1>2, PTL DEF Spec

\* Every variable of the process and of the context keeps its type.
THEOREM LifeTypes == Spec => []LifeTypeOK
<1>1. LifeInv => LifeTypeOK
  BY DEF LifeInv
<1> QED
  BY <1>1, LifeInductive, PTL

\* outstanding_work_ is the sum of what is outstanding, after every critical section: the
\* increments of start_op, post and perform_io meet the decrements of the cleanups.
THEOREM WorkIsExact == Spec => []WorkAddsUp
<1>1. LifeInv => WorkAddsUp
  BY AccountsAgree
<1> QED
  BY <1>1, LifeInductive, PTL

\* run() does not return and the context is not stopped before main() resets its guard.
THEOREM RunsToTheEnd == Spec => []RunsWhileGuarded
<1>1. LifeInv => RunsWhileGuarded
  BY DEF LifeInv, LoopInv
<1> QED
  BY <1>1, LifeInductive, PTL

\* The context thread never sleeps beside an operation that is queued, or after stop().
THEOREM WakeUpsArrive == Spec => []NoLostWakeup
<1>1. LifeInv => NoLostWakeup
  BY SleepsOnlyIdle
<1> QED
  BY <1>1, LifeInductive, PTL

\* No queued read outlives the edge that says it can be done.
THEOREM EdgesArrive == Spec => []NoLostData
<1>1. LifeInv => NoLostData
  BY DEF LifeInv, LoopInv
<1> QED
  BY <1>1, LifeInductive, PTL

\* When main() is not in its spin, the context thread has nothing to do with the stream
\* that main() writes to or replaces.
THEOREM StreamIsFree == Spec => []SocketIsIdle
<1>1. LifeInv => SocketIsIdle
  BY IdleSocket
<1> QED
  BY <1>1, LifeInductive, PTL

\* The safety core of AnswerArrives and of QuitReturns: at no moment of a behaviour, of
\* any length and with any number of answers, does main() wait for a context thread that
\* nothing will wake.
THEOREM ContextIsDriven == Spec => []NeverStuck
<1>1. Init => Driven
  BY DEF Init, Driven
<1>2. LifeInv /\ Driven /\ [Next]_vars => Driven'
  <2>1. ASSUME LifeInv, Driven, UNCHANGED vars PROVE Driven'
    BY <2>1 DEF Driven, Queued, vars, loopVars, lifeVars, schedulerVars, threadVars
  <2> QED
    BY <2>1, DrivenByMain, DrivenByContext DEF Next
<1>3. LifeInv /\ Driven => NeverStuck
  BY DrivenNeverStuck
<1> QED
  BY <1>1, <1>2, <1>3, LifeInductive, PTL DEF Spec

\* A read is outstanding exactly while main() waits for isdone.
LEMMA OutstandingWhileAwaited == LifeInv => (ReadOutstanding <=> Awaiting)
<1> SUFFICES ASSUME LifeInv PROVE ReadOutstanding <=> Awaiting
  OBVIOUS
<1>1. Completed(queue \o own) = Completed(queue) + Completed(own)
  BY OwnJoins
<1>2. Completed(queue) \in Nat /\ Completed(own) \in Nat
  BY ReadsAreCounted
<1>3. Reads = IF Awaiting THEN 1 ELSE 0
  BY DEF LifeInv, LoopInv, OneRead
<1> QED
  BY <1>1, <1>2, <1>3 DEF ReadOutstanding, Reads, Handling

\* The event loop, with its queues, keeps the contract of main() and the context thread
\* for any number of answers: whatever main() starts is outstanding somewhere in it until
\* the handler of the end sets isdone.
THEOREM LoopKeepsTransfer == Spec => KeepsTransfer
<1>1. Init => Api!Init
  <2> SUFFICES ASSUME Init PROVE Api!Init
    OBVIOUS
  <2>1. ~Awaiting /\ LifeInv
    BY InitEstablishes DEF Init, Awaiting
  <2>2. ReadOutstanding = FALSE
    BY <2>1, OutstandingWhileAwaited DEF ReadOutstanding
  <2> QED
    BY <2>2 DEF Api!Init, Init, LoopInit
<1> DEFINE SeenAlike == ReadOutstanding <=> Awaiting
<1>2. LifeInv /\ SeenAlike /\ SeenAlike' /\ [Next]_vars => [Api!Next]_Api!transferVars
  <2> SUFFICES ASSUME LifeInv, SeenAlike, SeenAlike', [Next]_vars
               PROVE  [Api!Next]_Api!transferVars
    OBVIOUS
  <2>1. /\ ReadOutstanding <=> Awaiting
        /\ ReadOutstanding' <=> Awaiting'
        /\ ReadOutstanding \in BOOLEAN /\ ReadOutstanding' \in BOOLEAN
    BY DEF ReadOutstanding
  <2>2. isdone \in BOOLEAN
    BY DEF LifeInv, LifeTypeOK, LoopTypeOK
  <2>3. CASE Connect
    <3>1. ~Awaiting /\ ~Awaiting' /\ isdone' = FALSE
      BY <2>3 DEF Connect, NewSocket, Awaiting
    <3> QED
      BY <2>1, <3>1 DEF Api!Next, Api!Reset
  <2>4. CASE StartRead
    <3>1. ~Awaiting /\ Awaiting' /\ isdone' = FALSE
      BY <2>4 DEF StartRead, MainReads, Awaiting, LifeInv, LoopInv, OneRead, LifeTypeOK, LoopTypeOK
    <3> QED
      BY <2>1, <3>1 DEF Api!Next, Api!Begin
  <2>5. CASE ContextStep /\ HandleEnd
    <3>1. Awaiting
      BY <2>5, OneHandler DEF HandleEnd, Handling
    <3>2. ~Awaiting' /\ isdone' = TRUE
      BY <2>5 DEF HandleEnd, Awaiting
    <3> QED
      BY <2>1, <3>1, <3>2 DEF Api!Next, Api!End
  <2>6. CASE ~(Connect \/ StartRead \/ (ContextStep /\ HandleEnd))
    <3>1. isdone' = isdone
      <4>1. CASE MainStep \/ ProcessDies \/ StopStep \/ TypeKey \/ BotWaits \/ ServerStep
        BY <2>6, <4>1 DEF MainStep, InitBot, StartContext, FirstSocket, ResolveDns,
               StartStopThread, Top, AwaitDone, CountDown, Reset, Stop, JoinContext, Shutdown,
               JoinBot, JoinStop, ProcessDies, StopStep, TestMainloop, ReadKey, CompareKey, TypeKey,
               BotWaits, ServerStep, DataArrives, StreamEnds, InitTask, ResetGuard, StopContext,
               loopVars
      <4>2. CASE ContextStep
        BY <2>6, <4>2 DEF ContextStep, LoopStep, RunWithWork, RunWithoutWork, RunReturns,
               AwaitEvent, EventSignalled, RunTask, RunOperation, PollReturns, TaskCleanup,
               PerformIo, HandleData, PostPrivately, Post, WorkCleanup
      <4>3. CASE UNCHANGED vars
        BY <4>3 DEF vars, loopVars
      <4> QED
        BY <4>1, <4>2, <4>3 DEF Next
    <3>2. main = "await" /\ ~isdone => main' = "await"
      BY <2>6 DEF Next, MainStep, InitBot, StartContext, FirstSocket, ResolveDns,
             StartStopThread, Top, AwaitDone, CountDown, Reset, Stop, JoinContext, Shutdown,
             JoinBot, JoinStop, ProcessDies, StopStep, TestMainloop, ReadKey, CompareKey, TypeKey,
             BotWaits, ServerStep, ContextStep, lifeVars, vars
    <3>3. main' = "await" => main = "await"
      BY <2>6 DEF Next, MainStep, InitBot, StartContext, FirstSocket, ResolveDns, NextVisit,
             StartStopThread, Top, AwaitDone, CountDown, Reset, Stop, JoinContext, Shutdown,
             JoinBot, JoinStop, ProcessDies, StopStep, TestMainloop, ReadKey, CompareKey, TypeKey,
             BotWaits, ServerStep, ContextStep, lifeVars, vars
    <3>4. Awaiting' <=> Awaiting
      BY <3>1, <3>2, <3>3 DEF Awaiting
    <3> QED
      BY <2>1, <3>1, <3>4 DEF Api!transferVars
  <2> QED
    BY <2>3, <2>4, <2>5, <2>6
<1>3. LifeInv => SeenAlike
  BY OutstandingWhileAwaited
<1> QED
  BY <1>1, <1>2, <1>3, LifeInductive, PTL DEF Spec, KeepsTransfer, Api!Spec

\* The loop of main() ends on a q, or at the end of input with c never written.
THEOREM OnlyKeysStop == Spec => []StopsOnlyIfTyped
<1>1. LifeInv => StopsOnlyIfTyped
  BY DEF LifeInv
<1> QED
  BY <1>1, LifeInductive, PTL

=============================================================================
