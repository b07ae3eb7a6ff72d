------------------------------ MODULE EventLoop ------------------------------
(***************************************************************************)
(* asio's io_context as this program runs it: the scheduler, its epoll     *)
(* reactor and one socket.  One thread is in run(); main() starts the read *)
(* of each answer, the handlers start the reads that follow.  Each action  *)
(* of the context thread is one critical section of the scheduler or of    *)
(* the descriptor, or one call between them.                               *)
(***************************************************************************)
EXTENDS Integers, Sequences, FiniteSets

CONSTANT MaxData        \* bound: pieces of data on one connection

ASSUME LoopAssumption == MaxData \in Nat

VARIABLES
  queue,        \* op_queue_: "task" is task_operation_, "desc" the descriptor_state,
                \* "data" and "eof" are completed reads
  work,         \* outstanding_work_
  stopped, interrupted,         \* stopped_, task_interrupted_
  event,        \* bit 0 of wakeup_event_.state_
  loop,         \* the context thread (see Stages)
  block,        \* epoll_wait was called without a timeout
  own, credit,  \* private_op_queue, private_outstanding_work
  result,       \* "data" or "eof", of a read done and not yet posted; else "none"
  intr, edge,   \* events epoll has: the interrupter, the socket (edge-triggered)
  avail, fin,   \* the socket: data to read, end of the stream (or no connection)
  sent,         \* data the server has sent on this connection
  armed,        \* a reactor_op is in op_queue_[read_op]
  guard,        \* the executor_work_guard of main() holds its work
  isdone

schedulerVars == <<queue, work, stopped, interrupted, event>>
threadVars == <<loop, block, own, credit, result>>
socketVars == <<edge, avail, fin, sent, armed>>

loopVars == <<schedulerVars, threadVars, intr, socketVars, guard, isdone>>

\* Of the context thread: not started; before do_run_one; in wakeup_event_.wait; in
\* epoll_wait; back from it; perform_io; the handler runs, with data or at the end; its
\* read is done at once and posted; work_cleanup; run() has returned.
Stages == {"new", "run", "wait", "poll", "polled", "desc", "data", "eof", "post",
           "cleanup", "returned"}

LoopInit ==
  /\ queue = <<>> /\ work = 1 /\ guard = TRUE
  /\ stopped = FALSE /\ interrupted = FALSE /\ event = FALSE
  /\ loop = "new" /\ block = FALSE /\ own = <<>> /\ credit = 0 /\ result = "none"
  /\ intr = FALSE /\ edge = FALSE /\ avail = 0 /\ fin = TRUE /\ sent = 0 /\ armed = FALSE
  /\ isdone = FALSE

-----------------------------------------------------------------------------
(* Parts of the operations.                                                *)

\* Mutant: the signal is relied on although no thread waits for it.
WakeOneThreadBySignal ==
  /\ event' = TRUE
  /\ UNCHANGED <<interrupted, intr>>

\* wake_one_thread_and_unlock, with task_ set as it is for all that is ever posted.
WakeOneThread ==
  /\ event' = TRUE
  /\ interrupted' = (interrupted \/ loop # "wait")
  /\ intr' = (intr \/ (loop # "wait" /\ ~interrupted))

\* Mutant: the task is not interrupted.
StopWithoutInterrupt ==
  /\ stopped' = TRUE /\ event' = TRUE
  /\ UNCHANGED <<interrupted, intr>>

\* stop_all_threads
StopAllThreads ==
  /\ stopped' = TRUE /\ event' = TRUE
  /\ interrupted' = TRUE
  /\ intr' = (intr \/ ~interrupted)

\* work_finished: the last one stops the scheduler.
WorkFinished ==
  /\ work' = work - 1
  /\ IF work = 1 THEN StopAllThreads ELSE UNCHANGED <<stopped, event, interrupted, intr>>

Readable == avail > 0 \/ fin

\* non_blocking_recv: some of the data, or the end of the stream; with which result.
Receive(r) ==
  \/ r = "data" /\ \E len \in 1..avail : avail' = avail - len
  \/ r = "eof" /\ avail = 0 /\ fin /\ UNCHANGED avail

Results == {"data", "eof"}

-----------------------------------------------------------------------------
(* What main() calls.                                                      *)

\* init_task, by the first use of the reactor.
InitTask ==
  /\ queue' = Append(queue, "task")
  /\ WakeOneThread
  /\ UNCHANGED <<work, stopped, threadVars, socketVars, guard, isdone>>

\* The assignment of a new stream closes the old socket; connect and handshake leave
\* events behind or do not.  The descriptor_state is the old one again.  Then
\* resetreadnetdata().
NewSocket ==
  /\ avail' = 0 /\ fin' = FALSE /\ sent' = 0 /\ edge' \in BOOLEAN
  /\ isdone' = FALSE
  /\ UNCHANGED <<schedulerVars, threadVars, intr, armed, guard>>

\* start_op finds nothing to read and queues the read.  (try_speculative_ is set in a new
\* descriptor and cleared at the end of the stream only, so every read is tried first.)
ArmRead ==
  /\ ~Readable
  /\ armed' = TRUE /\ work' = work + 1

\* async_read_some in main(): a speculative read that succeeds is posted (the two
\* critical sections are one step here: main() holds nothing in between).
MainReads ==
  \/ /\ ArmRead
     /\ UNCHANGED <<queue, stopped, interrupted, event, threadVars, intr, edge, avail, fin,
                    sent, guard, isdone>>
  \/ /\ \E r \in Results : Receive(r) /\ queue' = Append(queue, r)
     /\ work' = work + 1
     /\ WakeOneThread
     /\ UNCHANGED <<stopped, threadVars, edge, fin, sent, armed, guard, isdone>>

\* wg.reset()
ResetGuard ==
  /\ guard' = FALSE
  /\ WorkFinished
  /\ UNCHANGED <<queue, threadVars, socketVars, isdone>>

\* iocontext.stop()
StopContext ==
  /\ StopAllThreads
  /\ UNCHANGED <<queue, work, threadVars, socketVars, guard, isdone>>

-----------------------------------------------------------------------------
(* The server of the connection.                                           *)

DataArrives ==
  /\ ~fin /\ sent < MaxData
  /\ sent' = sent + 1 /\ avail' = avail + 1 /\ edge' = TRUE
  /\ UNCHANGED <<schedulerVars, threadVars, intr, fin, armed, guard, isdone>>

StreamEnds ==
  /\ ~fin
  /\ fin' = TRUE /\ edge' = TRUE
  /\ UNCHANGED <<schedulerVars, threadVars, intr, avail, sent, armed, guard, isdone>>

-----------------------------------------------------------------------------
(* The context thread: run(), do_run_one()                                 *)

RunWithWork ==
  /\ loop = "new" /\ work # 0
  /\ loop' = "run"
  /\ UNCHANGED <<schedulerVars, block, own, credit, result, intr, socketVars, guard, isdone>>

RunWithoutWork ==
  /\ loop = "new" /\ work = 0
  /\ StopAllThreads
  /\ loop' = "returned"
  /\ UNCHANGED <<queue, work, block, own, credit, result, socketVars, guard, isdone>>

RunReturns ==
  /\ loop = "run" /\ stopped
  /\ loop' = "returned"
  /\ UNCHANGED <<schedulerVars, block, own, credit, result, intr, socketVars, guard, isdone>>

\* No operation: wakeup_event_.clear and wait, under the lock.
AwaitEvent ==
  /\ loop = "run" /\ ~stopped /\ queue = <<>>
  /\ event' = FALSE
  /\ loop' = "wait"
  /\ UNCHANGED <<queue, work, stopped, interrupted, block, own, credit, result, intr,
                 socketVars, guard, isdone>>

EventSignalled ==
  /\ loop = "wait" /\ event
  /\ loop' = "run"
  /\ UNCHANGED <<schedulerVars, block, own, credit, result, intr, socketVars, guard, isdone>>

\* The task is next: epoll_wait blocks only if nothing is behind it.
RunTask ==
  /\ loop = "run" /\ ~stopped /\ queue # <<>> /\ Head(queue) = "task"
  /\ queue' = Tail(queue)
  /\ LET more == Tail(queue) # <<>>
     IN  /\ interrupted' = more /\ event' = (event \/ more)
         /\ block' = ~more
  /\ loop' = "poll"
  /\ UNCHANGED <<work, stopped, own, credit, result, intr, socketVars, guard, isdone>>

\* Another operation is next; one more thread is woken if there is more.
RunOperation ==
  /\ loop = "run" /\ ~stopped /\ queue # <<>> /\ Head(queue) # "task"
  /\ queue' = Tail(queue)
  /\ IF Tail(queue) = <<>> THEN UNCHANGED <<event, interrupted, intr>> ELSE WakeOneThread
  /\ loop' = Head(queue)
  /\ UNCHANGED <<work, stopped, block, own, credit, result, socketVars, guard, isdone>>

\* Mutant: an event of the socket is dropped when the interrupter has one too.
PollReturnsOneEvent ==
  /\ loop = "poll" /\ (intr \/ edge \/ ~block)
  /\ own' = IF edge /\ ~intr THEN <<"desc">> ELSE <<>>
  /\ intr' = FALSE /\ edge' = FALSE
  /\ loop' = "polled" /\ block' = FALSE
  /\ UNCHANGED <<schedulerVars, credit, result, avail, fin, sent, armed, guard, isdone>>

\* epoll_wait returns the events there are, each edge once; set_ready_events.
PollReturns ==
  /\ loop = "poll" /\ (intr \/ edge \/ ~block)
  /\ own' = IF edge THEN <<"desc">> ELSE <<>>
  /\ intr' = FALSE /\ edge' = FALSE
  /\ loop' = "polled" /\ block' = FALSE
  /\ UNCHANGED <<schedulerVars, credit, result, avail, fin, sent, armed, guard, isdone>>

\* ~task_cleanup: the task goes behind what it found.
TaskCleanup ==
  /\ loop = "polled"
  /\ interrupted' = TRUE
  /\ queue' = queue \o own \o <<"task">> /\ own' = <<>>
  /\ loop' = "run"
  /\ UNCHANGED <<work, stopped, event, block, credit, result, intr, socketVars, guard, isdone>>

-----------------------------------------------------------------------------
(* Operations                                                              *)

\* Mutant: the work_finished() to come is not compensated.
PerformIoUncompensated ==
  /\ loop = "desc"
  /\ IF armed /\ Readable
       THEN /\ \E r \in Results : Receive(r) /\ loop' = r
            /\ armed' = FALSE
       ELSE /\ loop' = "cleanup"
            /\ UNCHANGED <<avail, armed>>
  /\ UNCHANGED <<schedulerVars, block, own, credit, result, intr, edge, fin, sent, guard, isdone>>

\* perform_io: the read is done and its handler called, or there is none that can be
\* done and the work_finished() to come is compensated.
PerformIo ==
  /\ loop = "desc"
  /\ IF armed /\ Readable
       THEN /\ \E r \in Results : Receive(r) /\ loop' = r
            /\ armed' = FALSE /\ UNCHANGED credit
       ELSE /\ credit' = credit + 1 /\ loop' = "cleanup"
            /\ UNCHANGED <<avail, armed>>
  /\ UNCHANGED <<schedulerVars, block, own, result, intr, edge, fin, sent, guard, isdone>>

\* The handler takes the piece and reads again: the read is queued or done at once.
HandleData ==
  /\ loop = "data"
  /\ \/ /\ ArmRead
        /\ loop' = "cleanup"
        /\ UNCHANGED <<avail, result>>
     \/ /\ \E r \in Results : Receive(r) /\ result' = r
        /\ loop' = "post"
        /\ UNCHANGED <<work, armed>>
  /\ UNCHANGED <<queue, stopped, interrupted, event, block, own, credit, intr, edge, fin,
                 sent, guard, isdone>>

\* post_immediate_completion, as a continuation to the thread's own queue.
PostPrivately ==
  /\ loop = "post"
  /\ own' = Append(own, result) /\ credit' = credit + 1
  /\ loop' = "cleanup" /\ result' = "none"
  /\ UNCHANGED <<schedulerVars, block, intr, socketVars, guard, isdone>>

\* Otherwise to op_queue_.
Post ==
  /\ loop = "post"
  /\ queue' = Append(queue, result) /\ work' = work + 1
  /\ WakeOneThread
  /\ loop' = "cleanup" /\ result' = "none"
  /\ UNCHANGED <<stopped, block, own, credit, socketVars, guard, isdone>>

HandleEnd ==
  /\ loop = "eof"
  /\ isdone' = TRUE
  /\ loop' = "cleanup"
  /\ UNCHANGED <<schedulerVars, block, own, credit, result, intr, socketVars, guard>>

\* ~work_cleanup
WorkCleanup ==
  /\ loop = "cleanup"
  /\ IF credit = 0 THEN WorkFinished
       ELSE work' = work + credit - 1 /\ UNCHANGED <<stopped, event, interrupted, intr>>
  /\ credit' = 0
  /\ queue' = queue \o own /\ own' = <<>>
  /\ loop' = "run"
  /\ UNCHANGED <<block, result, socketVars, guard, isdone>>

LoopStep ==
  \/ RunWithWork \/ RunWithoutWork \/ RunReturns \/ AwaitEvent \/ EventSignalled
  \/ RunTask \/ RunOperation \/ PollReturns \/ TaskCleanup
  \/ PerformIo \/ HandleData \/ PostPrivately \/ Post \/ HandleEnd \/ WorkCleanup

-----------------------------------------------------------------------------

Queued(op) == \E i \in DOMAIN queue : queue[i] = op

\* Every variable has a value of its type.
LoopTypeOK ==
  /\ queue \in Seq({"task", "desc", "data", "eof"}) /\ own \in Seq({"desc", "data", "eof"})
  /\ work \in Nat /\ credit \in Nat /\ avail \in Nat /\ sent \in 0..MaxData
  /\ {stopped, interrupted, event, block, intr, edge, fin, armed, guard, isdone} \subseteq BOOLEAN
  /\ loop \in Stages /\ result \in Results \cup {"none"}

\* Completed reads in a queue whose handler has not run.
Completed(q) == Cardinality({i \in DOMAIN q : q[i] \in Results})

\* outstanding_work_ is the guard of main(), the read in progress, the completed reads
\* and what the operation that runs will take back when it ends: the accounts of four
\* places (start_op, post, perform_io, the two cleanups) never drift apart.
WorkAddsUp ==
  work + credit =
    (IF guard THEN 1 ELSE 0) + (IF armed THEN 1 ELSE 0) + Completed(queue) + Completed(own)
    + (IF loop \in {"data", "eof", "post", "cleanup"} THEN 1 ELSE 0)

\* The context thread does not leave run() before main() is through with its passes.
RunsWhileGuarded == stopped \/ loop = "returned" => ~guard

\* The thread is not asleep, on the event or in epoll_wait, while the queue has an
\* operation for it or the context has been stopped.
NoLostWakeup ==
  (loop = "wait" /\ ~event) \/ (loop = "poll" /\ block /\ ~intr) => queue = <<>> /\ ~stopped

\* The events of the socket are edges, reported once: while a read is queued in the
\* descriptor and can be done, one is still to be reported, or is on its way.
NoLostData ==
  armed /\ Readable =>
    edge \/ Queued("desc") \/ own = <<"desc">> \/ loop = "desc"

=============================================================================
