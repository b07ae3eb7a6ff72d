------------------------------ MODULE TlsStream ------------------------------
(***************************************************************************)
(* The one asio::ssl::stream that main() and the context thread share for  *)
(* an answer: main() starts async_read_some, then calls write_some, and    *)
(* waits; the reads go on in the context thread.  ssl::detail::io is the   *)
(* write, io_op the read; between the socket and the engine lie the input_ *)
(* buffer of the stream and the bytes the engine holds.  What the engine   *)
(* does not yet need stays in input_, and a record is given to the handler *)
(* only when all of it is in the engine.  HttpRead has what the handler    *)
(* does with the bytes.                                                    *)
(***************************************************************************)
EXTENDS Integers

CONSTANTS
  RecordSize,   \* bytes of a TLS record on the wire
  InputSize,    \* of input_buffer_
  Tickets,      \* records without data (session tickets) a server sends first
  Answers       \* bound: records of an answer

ASSUME TlsAssumption ==
  /\ RecordSize \in Nat \ {0} /\ InputSize \in Nat \ {0}
  /\ Tickets \in Nat /\ Answers \in Nat

VARIABLES
  status,       \* "running", "exited" or "undefined"
  main,         \* main(): "connect", "start", "read", "write", "send", "wait"
  asked,        \* the request has reached the server
  unasked,      \* history: the server has sent or closed after the handshake without it
  sent, closed, \* the server: bytes it has sent, its end of the stream
  wire,         \* bytes sent and not yet read from the socket
  input,        \* core_.input_: bytes read from the socket and not in the engine
  held,         \* bytes in the engine
  records,      \* records taken out of the engine
  given,        \* records the handler has got
  op,           \* the io_op of the read (see Stages)
  caller,       \* of its initiating function: "main", "handler"; "none": it has returned
  isdone

serverVars == <<sent, closed, wire>>

coreVars == <<input, held, records>>

tlsVars == <<status, main, asked, unasked, serverVars, coreVars, given, op, caller, isdone>>

\* Of the read: none; op_ runs in the engine; a record was found before the initiating
\* function had returned, so the handler is posted; async_read_some of the socket is
\* under way; the handler runs, with data; the engine is asked what the end of the
\* stream means and the handler runs with that; the same, posted.
Stages == {"none", "engine", "posted", "socket", "data", "eof", "postedeof"}

Init ==
  /\ status = "running" /\ main = "connect"
  /\ asked = FALSE /\ unasked = FALSE
  /\ sent = 0 /\ closed = FALSE /\ wire = 0
  /\ input = 0 /\ held = 0 /\ records = 0 /\ given = 0
  /\ op = "none" /\ caller = "none"
  /\ isdone = FALSE

Running == status = "running"

-----------------------------------------------------------------------------
(* main()                                                                  *)

\* A new stream, its handshake, resetreadnetdata().  The last read of the handshake
\* may have brought bytes that come after it.
Connect ==
  /\ Running /\ main = "connect"
  /\ \E early \in 0..InputSize : \E took \in 0..early :
       /\ early <= Tickets * RecordSize
       /\ sent' = early /\ input' = early - took /\ held' = took
  /\ wire' = 0 /\ records' = 0 /\ given' = 0
  /\ asked' = FALSE /\ unasked' = FALSE /\ closed' = FALSE /\ isdone' = FALSE
  /\ main' = "start"
  /\ UNCHANGED <<status, op, caller>>

\* readnetdata(securesocket): the read starts in main().
StartRead ==
  /\ Running /\ main = "start"
  /\ main' = "read"
  /\ op' = "engine" /\ caller' = "main"
  /\ UNCHANGED <<status, asked, unasked, serverVars, coreVars, given, isdone>>

\* Mutant: the request leaves before write_some is done with the engine.
EnterWriteSendsFirst ==
  /\ Running /\ main = "read" /\ ~(op = "engine" /\ caller = "main")
  /\ main' = "write" /\ asked' = TRUE
  /\ UNCHANGED <<status, unasked, serverVars, coreVars, given, op, caller, isdone>>

\* Its initiating function has returned: write_some enters the engine.
EnterWrite ==
  /\ Running /\ main = "read" /\ ~(op = "engine" /\ caller = "main")
  /\ main' = "write"
  /\ UNCHANGED <<status, asked, unasked, serverVars, coreVars, given, op, caller, isdone>>

\* get_output: the encrypted request is in output_buffer_.
LeaveWrite ==
  /\ Running /\ main = "write"
  /\ main' = "send"
  /\ UNCHANGED <<status, asked, unasked, serverVars, coreVars, given, op, caller, isdone>>

\* asio::write on the socket; main() does not look at its error.
Send ==
  /\ Running /\ main = "send"
  /\ asked' \in BOOLEAN
  /\ main' = "wait"
  /\ UNCHANGED <<status, unasked, serverVars, coreVars, given, op, caller, isdone>>

\* while(isdone.load() == false) {}, then the next visit.
Await ==
  /\ Running /\ main = "wait" /\ isdone
  /\ main' = "connect"
  /\ UNCHANGED <<status, asked, unasked, serverVars, coreVars, given, op, caller, isdone>>

-----------------------------------------------------------------------------
(* The server: session tickets when it likes, the answer when it is asked. *)

ServerSends ==
  /\ Running /\ main # "connect" /\ ~closed
  /\ sent < (IF asked THEN Tickets + Answers ELSE Tickets) * RecordSize
  /\ sent' = sent + 1 /\ wire' = wire + 1
  /\ unasked' = (unasked \/ ~asked)
  /\ UNCHANGED <<status, main, asked, closed, coreVars, given, op, caller, isdone>>

ServerCloses ==
  /\ Running /\ main # "connect" /\ ~closed
  /\ closed' = TRUE /\ unasked' = (unasked \/ ~asked)
  /\ UNCHANGED <<status, main, asked, sent, wire, coreVars, given, op, caller, isdone>>

-----------------------------------------------------------------------------
(* The read, in main() while it is initiated, then in the context thread.  *)

\* A record with data is complete: SSL_read returns it.  In the initiating function
\* the handler is posted, otherwise it is called.
FindRecord ==
  /\ Running /\ op = "engine"
  /\ held >= RecordSize /\ records >= Tickets
  /\ held' = held - RecordSize /\ records' = records + 1
  /\ op' = IF caller = "none" THEN "data" ELSE "posted"
  /\ UNCHANGED <<status, main, asked, unasked, serverVars, input, given, caller, isdone>>

\* SSL_read takes a ticket and goes on.
SkipTicket ==
  /\ Running /\ op = "engine"
  /\ held >= RecordSize /\ records < Tickets
  /\ held' = held - RecordSize /\ records' = records + 1
  /\ UNCHANGED <<status, main, asked, unasked, serverVars, input, given, op, caller, isdone>>

\* Mutant: the engine is said to take a byte more than there is.
PutInputTooMuch ==
  /\ Running /\ op = "engine"
  /\ held < RecordSize /\ input > 0
  /\ \E took \in 1..(input + 1) : input' = input - took /\ held' = held + took
  /\ UNCHANGED <<status, main, asked, unasked, serverVars, records, given, op, caller,
                 isdone>>

\* want_input_and_retry, with bytes left in input_: the engine takes some.
PutInput ==
  /\ Running /\ op = "engine"
  /\ held < RecordSize /\ input > 0
  /\ \E took \in 1..input : input' = input - took /\ held' = held + took
  /\ UNCHANGED <<status, main, asked, unasked, serverVars, records, given, op, caller,
                 isdone>>

\* Mutant: the socket is asked although input_ has bytes.
WantInputAlways ==
  /\ Running /\ op = "engine"
  /\ held < RecordSize
  /\ op' = "socket"
  /\ UNCHANGED <<status, main, asked, unasked, serverVars, coreVars, given, caller, isdone>>

\* want_input_and_retry without: async_read_some of the socket.
WantInput ==
  /\ Running /\ op = "engine"
  /\ held < RecordSize /\ input = 0
  /\ op' = "socket"
  /\ UNCHANGED <<status, main, asked, unasked, serverVars, coreVars, given, caller, isdone>>

\* Mutant: what is left in input_ is dropped.
SocketReadDropsRest ==
  /\ Running /\ op = "socket" /\ wire > 0
  /\ \E len \in 1..(IF wire < InputSize THEN wire ELSE InputSize) : \E took \in 1..len :
       /\ wire' = wire - len
       /\ held' = held + took
       /\ input' = 0
  /\ op' = "engine" /\ caller' = "none"
  /\ UNCHANGED <<status, main, asked, unasked, sent, closed, records, given, isdone>>

\* The socket has bytes: input_ is set to them, the engine takes some, and op_ is
\* tried again, now in the context thread.
SocketRead ==
  /\ Running /\ op = "socket" /\ wire > 0
  /\ \E len \in 1..(IF wire < InputSize THEN wire ELSE InputSize) : \E took \in 1..len :
       /\ wire' = wire - len
       /\ held' = held + took
       /\ input' = len - took
  /\ op' = "engine" /\ caller' = "none"
  /\ UNCHANGED <<status, main, asked, unasked, sent, closed, records, given, isdone>>

\* Mutant: the end of the stream is taken before what lies in front of it.
SocketEndsEarly ==
  /\ Running /\ op = "socket" /\ closed
  /\ op' = "eof" /\ caller' = "none"
  /\ UNCHANGED <<status, main, asked, unasked, serverVars, coreVars, given, isdone>>

\* The close_notify of the server came with the bytes before it (it is not counted
\* among them): SSL_read says so at once.
FindEnd ==
  /\ Running /\ op = "engine"
  /\ closed /\ wire = 0 /\ input = 0 /\ held = 0
  /\ op' = IF caller = "none" THEN "eof" ELSE "postedeof"
  /\ UNCHANGED <<status, main, asked, unasked, serverVars, coreVars, given, caller, isdone>>

\* The socket is at its end: eof after a close_notify, stream_truncated without.
SocketEnds ==
  /\ Running /\ op = "socket" /\ wire = 0 /\ closed
  /\ op' = "eof" /\ caller' = "none"
  /\ UNCHANGED <<status, main, asked, unasked, serverVars, coreVars, given, isdone>>

\* Any other error of the socket ends the process in the handler.
SocketFails == Running /\ op = "socket" /\ status' = "exited"
  /\ UNCHANGED <<main, asked, unasked, serverVars, coreVars, given, op, caller, isdone>>

\* The posted handler comes to run in the context thread.
RunPosted ==
  /\ Running /\ op \in {"posted", "postedeof"}
  /\ op' = (IF op = "posted" THEN "data" ELSE "eof")
  /\ caller' = "none"
  /\ UNCHANGED <<status, main, asked, unasked, serverVars, coreVars, given, isdone>>

\* The handler takes the piece and calls readnetdata(asocket).
HandleData ==
  /\ Running /\ op = "data"
  /\ given' = given + 1
  /\ op' = "engine" /\ caller' = "handler"
  /\ UNCHANGED <<status, main, asked, unasked, serverVars, coreVars, isdone>>

\* Mutant: the handler only says that the read is finished.
HandleEndUnsaid ==
  /\ Running /\ op = "eof"
  /\ op' = "none"
  /\ UNCHANGED <<status, main, asked, unasked, serverVars, coreVars, given, caller, isdone>>

\* The handler sets isdone and calls nothing.
HandleEnd ==
  /\ Running /\ op = "eof"
  /\ isdone' = TRUE
  /\ op' = "none"
  /\ UNCHANGED <<status, main, asked, unasked, serverVars, coreVars, given, caller>>

-----------------------------------------------------------------------------

\* Both threads are in the engine of the stream.
Overlap == main = "write" /\ op \in {"engine", "eof"} /\ caller # "main"

\* The stream is not safe for that.
RaceBites == Running /\ Overlap /\ status' = "undefined"
  /\ UNCHANGED <<main, asked, unasked, serverVars, coreVars, given, op, caller, isdone>>

MainStep == Connect \/ StartRead \/ EnterWrite \/ LeaveWrite \/ Send \/ Await

ReadStep ==
  \/ FindRecord \/ SkipTicket \/ PutInput \/ WantInput
  \/ FindEnd \/ SocketRead \/ SocketEnds \/ RunPosted \/ HandleData \/ HandleEnd

Next == MainStep \/ ReadStep \/ ServerSends \/ ServerCloses \/ SocketFails \/ RaceBites

\* Both threads are scheduled; nothing is asked of the server.
Spec == Init /\ [][Next]_tlsVars /\ WF_tlsVars(MainStep) /\ WF_tlsVars(ReadStep)

-----------------------------------------------------------------------------

\* Every variable has a value of its type.
TlsTypeOK ==
  /\ status \in {"running", "exited", "undefined"}
  /\ main \in {"connect", "start", "read", "write", "send", "wait"}
  /\ asked \in BOOLEAN /\ unasked \in BOOLEAN
  /\ closed \in BOOLEAN /\ isdone \in BOOLEAN
  /\ sent \in Nat /\ wire \in Nat /\ input \in Nat /\ held \in Nat
  /\ records \in Nat /\ given \in Nat
  /\ op \in Stages /\ caller \in {"main", "handler", "none"}

\* No byte is lost or doubled on its way through socket, input_ and engine, and every
\* record with data comes to the handler, once.
BytesAddUp ==
  /\ sent = wire + input + held + RecordSize * records
  /\ given + (IF op \in {"posted", "data"} THEN 1 ELSE 0) =
       IF records > Tickets THEN records - Tickets ELSE 0

\* The read waits for the socket only when the bytes it has had from it so far make no
\* record more than the engine has given out: an answer that has arrived is not kept
\* back in input_ or in the engine until more arrives.
WaitsOnlyWhenDry == op = "socket" => sent - wire < RecordSize * (records + 1)

\* When main() sees isdone, no complete record is missing, wherever the stream ended.
EndHasAll == isdone => wire = 0 /\ sent < RecordSize * (Tickets + given + 1)

\* write_some and the reads are in the engine at the same time only if the server
\* sends or closes between the handshake and the request: main() has no strand, it
\* relies on the server to answer and never to speak first.  (asio/ssl/stream.hpp says
\* of a stream "Shared objects: Unsafe.")
AloneUnlessUnasked == Overlap => unasked

\* main() and the reads of the stream keep the contract Transfer over isdone: from the
\* initiating function on there is one read, in the engine, at the socket, posted or in
\* its handler, until that handler has said the end; none is started besides it.
T == INSTANCE Transfer WITH reading <- op # "none", text <- 0, Texts <- {}, NoText <- 0

KeepsTransfer == T!Spec

\* Between server and handler the stream is a RecordStream, whatever its buffers hold
\* back and whichever thread is in it: a record once and only when it is complete, and
\* the end last.
P == INSTANCE RecordStream WITH ended <- isdone

DeliversRecords == P!Spec

\* The end of a stream is noticed, whatever was still in it.
EndNoticed == closed ~> (isdone \/ status # "running")

=============================================================================
