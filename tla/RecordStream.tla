---------------------------- MODULE RecordStream ----------------------------
(***************************************************************************)
(* What asio's TLS stream promises to its reader, without socket, buffers, *)
(* engine or threads: the bytes of the server make records, the first of   *)
(* them tickets; each record with data is delivered once, after all of it  *)
(* has been sent, and the end is reported after the server has closed and  *)
(* nothing complete is left.  TlsStream keeps this promise.                *)
(***************************************************************************)
EXTENDS Integers

CONSTANTS RecordSize, Tickets

VARIABLES
  sent, closed, \* the server: bytes it has sent, its end of the stream
  given,        \* records delivered
  ended         \* the end was reported

streamVars == <<sent, closed, given, ended>>

Init == sent = 0 /\ closed = FALSE /\ given = 0 /\ ended = FALSE

\* The bytes of the tickets and of so many records more.
Bytes(n) == RecordSize * (Tickets + n)

\* A new stream, the first or after the end of the last; with its handshake some bytes
\* of tickets may have come.
Open ==
  /\ ended \/ (sent = 0 /\ ~closed)
  /\ sent' \in 0..Bytes(0) /\ given' = 0
  /\ closed' = FALSE /\ ended' = FALSE

Send ==
  /\ ~closed
  /\ sent' = sent + 1
  /\ UNCHANGED <<closed, given, ended>>

Close ==
  /\ ~closed
  /\ closed' = TRUE
  /\ UNCHANGED <<sent, given, ended>>

Deliver ==
  /\ ~ended
  /\ Bytes(given + 1) <= sent
  /\ given' = given + 1
  /\ UNCHANGED <<sent, closed, ended>>

End ==
  /\ ~ended /\ closed
  /\ sent < Bytes(given + 1)
  /\ ended' = TRUE
  /\ UNCHANGED <<sent, closed, given>>

Next == Open \/ Send \/ Close \/ Deliver \/ End

Spec == Init /\ [][Next]_streamVars

=============================================================================
