-------------------------- MODULE TlsStreamProofs --------------------------
(***************************************************************************)
(* Proofs about TlsStream, for every size of records and of input_ and any *)
(* number of tickets and of records in the answer.                         *)
(***************************************************************************)
EXTENDS TlsStream, TLAPS

\* The stages of main() before the request leaves.
BeforeSend == {"start", "read", "write", "send"}

\* A read is pending from readnetdata() until the handler has seen the end.
ReadIsPending ==
  /\ main \in {"connect", "start"} \/ isdone => op = "none"
  /\ main \notin {"connect", "start"} /\ ~isdone => op # "none"
  /\ main = "start" => ~isdone
  /\ caller = "main" => op \in {"engine", "posted", "socket", "postedeof"}

\* Nothing is left in front of a read that waits, and nothing comes after the end.
DryWhere ==
  /\ op \in {"socket", "eof", "postedeof"} \/ isdone => input = 0 /\ held < RecordSize
  /\ op \in {"eof", "postedeof"} \/ isdone => wire = 0 /\ closed

\* As long as the server keeps quiet after the handshake, the stream holds tickets only
\* and the context thread has nothing to do in the engine.
QuietSoFar ==
  /\ main \in BeforeSend => ~asked
  /\ main \in {"start", "read", "write"} /\ ~unasked =>
       /\ wire = 0 /\ ~closed
       /\ sent <= RecordSize * Tickets
       /\ op \in {"none", "socket"} \/ (op = "engine" /\ caller = "main" /\ main = "read")

TlsInv == TlsTypeOK /\ BytesAddUp /\ ReadIsPending /\ DryWhere /\ QuietSoFar

-----------------------------------------------------------------------------
(* Records and their bytes.                                                *)

\* One more record is RecordSize more bytes.
LEMMA NextRecord ==
  ASSUME NEW n \in Nat
  PROVE  /\ RecordSize * n \in Nat
         /\ RecordSize * (n + 1) = RecordSize * n + RecordSize
<1>1. RecordSize \in Nat
  BY TlsAssumption
<1> QED
  BY <1>1

\* Fewer records have fewer bytes.
LEMMA FewerRecords ==
  ASSUME NEW m \in Nat, NEW n \in Nat, m <= n
  PROVE  RecordSize * m <= RecordSize * n
<1>1. RecordSize \in Nat /\ n - m \in Nat /\ RecordSize * (n - m) \in Nat
  BY TlsAssumption
<1>2. RecordSize * n = RecordSize * m + RecordSize * (n - m)
  BY <1>1
<1> QED
  BY <1>1, <1>2, NextRecord

-----------------------------------------------------------------------------
(* Init and Next.                                                          *)

\* The first state.
LEMMA TlsInitially == Init => TlsInv
<1>1. RecordSize * 0 = 0
  BY TlsAssumption
<1> SUFFICES ASSUME Init PROVE TlsInv
  OBVIOUS
<1>2. TlsTypeOK
  BY DEF Init, TlsTypeOK, Stages
<1>3. BytesAddUp
  BY <1>1, TlsAssumption DEF Init, BytesAddUp
<1>4. ReadIsPending /\ DryWhere /\ QuietSoFar
  BY DEF Init, ReadIsPending, DryWhere, QuietSoFar, BeforeSend
<1> QED
  BY <1>2, <1>3, <1>4 DEF TlsInv

\* A step keeps the types.
LEMMA TypesStep ==
  ASSUME TlsTypeOK, ReadIsPending, [Next]_tlsVars
  PROVE  TlsTypeOK'
<1> USE TlsAssumption DEF tlsVars, serverVars, coreVars, Running, TlsTypeOK, Stages
<1>1. CASE Connect
  <2>1. PICK early \in 0..InputSize : \E took \in 0..early :
          sent' = early /\ input' = early - took /\ held' = took
    BY <1>1 DEF Connect
  <2>2. sent' \in Nat /\ input' \in Nat /\ held' \in Nat
    BY <2>1
  <2>3. /\ main' = "start" /\ wire' = 0 /\ records' = 0 /\ given' = 0
        /\ asked' = FALSE /\ unasked' = FALSE /\ closed' = FALSE /\ isdone' = FALSE
        /\ UNCHANGED <<status, op, caller>>
    BY <1>1 DEF Connect
  <2> QED
    BY <2>2, <2>3
<1>2. CASE StartRead
  BY <1>2 DEF StartRead
<1>3. CASE EnterWrite
  BY <1>3 DEF EnterWrite
<1>4. CASE LeaveWrite
  BY <1>4 DEF LeaveWrite
<1>5. CASE Send
  BY <1>5 DEF Send
<1>6. CASE Await
  BY <1>6 DEF Await
<1>7. CASE FindRecord
  BY <1>7 DEF FindRecord
<1>8. CASE SkipTicket
  BY <1>8 DEF SkipTicket
<1>9. CASE PutInput
  BY <1>9 DEF PutInput
<1>10. CASE WantInput
  BY <1>10 DEF WantInput
<1>11. CASE SocketRead
  BY <1>11 DEF SocketRead
<1>12. CASE SocketEnds
  BY <1>12 DEF SocketEnds
<1>13. CASE RunPosted
  BY <1>13 DEF RunPosted
<1>14. CASE HandleData
  BY <1>14 DEF HandleData
<1>15. CASE HandleEnd
  BY <1>15 DEF HandleEnd
<1>16. CASE ServerSends
  BY <1>16 DEF ServerSends
<1>17. CASE ServerCloses
  BY <1>17 DEF ServerCloses
<1>18. CASE SocketFails
  BY <1>18 DEF SocketFails
<1>19. CASE RaceBites
  BY <1>19 DEF RaceBites, Overlap
<1>20. CASE FindEnd
  BY <1>20 DEF FindEnd
<1>21. CASE UNCHANGED tlsVars
  BY <1>21
<1> HIDE DEF tlsVars, serverVars, coreVars, Running, TlsTypeOK, Stages
<1> QED
  BY <1>1, <1>2, <1>3, <1>4, <1>5, <1>6, <1>7, <1>8, <1>9, <1>10,
     <1>11, <1>12, <1>13, <1>14, <1>15, <1>16, <1>17, <1>18, <1>19, <1>20, <1>21 DEF Next,
       MainStep, ReadStep

\* A step keeps the read pending exactly as long as it should be.
LEMMA PendingStep ==
  ASSUME TlsTypeOK, ReadIsPending, [Next]_tlsVars
  PROVE  ReadIsPending'
<1> USE TlsAssumption DEF tlsVars, serverVars, coreVars, Running, TlsTypeOK, Stages, ReadIsPending
<1>1. CASE Connect
  <2>1. /\ main = "connect" /\ main' = "start" /\ isdone' = FALSE
        /\ UNCHANGED <<op, caller>>
    BY <1>1 DEF Connect
  <2> QED
    BY <2>1
<1>2. CASE StartRead
  BY <1>2 DEF StartRead
<1>3. CASE EnterWrite
  BY <1>3 DEF EnterWrite
<1>4. CASE LeaveWrite
  BY <1>4 DEF LeaveWrite
<1>5. CASE Send
  BY <1>5 DEF Send
<1>6. CASE Await
  BY <1>6 DEF Await
<1>7. CASE FindRecord
  BY <1>7 DEF FindRecord
<1>8. CASE SkipTicket
  BY <1>8 DEF SkipTicket
<1>9. CASE PutInput
  BY <1>9 DEF PutInput
<1>10. CASE WantInput
  BY <1>10 DEF WantInput
<1>11. CASE SocketRead
  BY <1>11 DEF SocketRead
<1>12. CASE SocketEnds
  BY <1>12 DEF SocketEnds
<1>13. CASE RunPosted
  BY <1>13 DEF RunPosted
<1>14. CASE HandleData
  BY <1>14 DEF HandleData
<1>15. CASE HandleEnd
  BY <1>15 DEF HandleEnd
<1>16. CASE ServerSends
  BY <1>16 DEF ServerSends
<1>17. CASE ServerCloses
  BY <1>17 DEF ServerCloses
<1>18. CASE SocketFails
  BY <1>18 DEF SocketFails
<1>19. CASE RaceBites
  BY <1>19 DEF RaceBites, Overlap
<1>20. CASE FindEnd
  BY <1>20 DEF FindEnd
<1>21. CASE UNCHANGED tlsVars
  BY <1>21
<1> HIDE DEF tlsVars, serverVars, coreVars, Running, TlsTypeOK, Stages, ReadIsPending
<1> QED
  BY <1>1, <1>2, <1>3, <1>4, <1>5, <1>6, <1>7, <1>8, <1>9, <1>10,
     <1>11, <1>12, <1>13, <1>14, <1>15, <1>16, <1>17, <1>18, <1>19, <1>20, <1>21 DEF Next,
       MainStep, ReadStep

\* A step neither loses nor doubles bytes, on any way from socket to handler.
LEMMA BytesStep ==
  ASSUME TlsTypeOK, ReadIsPending, DryWhere, BytesAddUp, [Next]_tlsVars
  PROVE  BytesAddUp'
<1> USE TlsAssumption DEF tlsVars, serverVars, coreVars, Running, TlsTypeOK, Stages,
        ReadIsPending, DryWhere, BytesAddUp
<1>1. CASE Connect
  BY <1>1 DEF Connect
<1>2. CASE StartRead
  BY <1>2 DEF StartRead
<1>3. CASE EnterWrite
  BY <1>3 DEF EnterWrite
<1>4. CASE LeaveWrite
  BY <1>4 DEF LeaveWrite
<1>5. CASE Send
  BY <1>5 DEF Send
<1>6. CASE Await
  BY <1>6 DEF Await
<1>7. CASE FindRecord
  BY <1>7 DEF FindRecord
<1>8. CASE SkipTicket
  BY <1>8 DEF SkipTicket
<1>9. CASE PutInput
  BY <1>9 DEF PutInput
<1>10. CASE WantInput
  BY <1>10 DEF WantInput
<1>11. CASE SocketRead
  <2>1. PICK len \in 1..(IF wire < InputSize THEN wire ELSE InputSize) : \E took \in 1..len :
          wire' = wire - len /\ held' = held + took /\ input' = len - took
    BY <1>11 DEF SocketRead
  <2>2. /\ op = "socket" /\ op' = "engine"
        /\ UNCHANGED <<sent, records, given>>
    BY <1>11 DEF SocketRead
  <2>3. input = 0
    BY <2>2
  <2>4. wire' + input' + held' = wire + input + held
    BY <2>1, <2>3
  <2> QED
    BY <2>2, <2>4
<1>12. CASE SocketEnds
  BY <1>12 DEF SocketEnds
<1>13. CASE RunPosted
  BY <1>13 DEF RunPosted
<1>14. CASE HandleData
  BY <1>14 DEF HandleData
<1>15. CASE HandleEnd
  BY <1>15 DEF HandleEnd
<1>16. CASE ServerSends
  BY <1>16 DEF ServerSends
<1>17. CASE ServerCloses
  BY <1>17 DEF ServerCloses
<1>18. CASE SocketFails
  BY <1>18 DEF SocketFails
<1>19. CASE RaceBites
  BY <1>19 DEF RaceBites, Overlap
<1>20. CASE FindEnd
  BY <1>20 DEF FindEnd
<1>21. CASE UNCHANGED tlsVars
  BY <1>21
<1> HIDE DEF tlsVars, serverVars, coreVars, Running, TlsTypeOK, Stages, ReadIsPending,
        DryWhere, BytesAddUp
<1> QED
  BY <1>1, <1>2, <1>3, <1>4, <1>5, <1>6, <1>7, <1>8, <1>9, <1>10,
     <1>11, <1>12, <1>13, <1>14, <1>15, <1>16, <1>17, <1>18, <1>19, <1>20, <1>21 DEF Next,
       MainStep, ReadStep

\* A step leaves a waiting read dry, and the end of a stream behind its bytes.
LEMMA DryStep ==
  ASSUME TlsTypeOK, ReadIsPending, DryWhere, [Next]_tlsVars
  PROVE  DryWhere'
<1> USE TlsAssumption DEF tlsVars, serverVars, coreVars, Running, TlsTypeOK, Stages,
        ReadIsPending, DryWhere
<1>1. CASE Connect
  BY <1>1 DEF Connect
<1>2. CASE StartRead
  BY <1>2 DEF StartRead
<1>3. CASE EnterWrite
  BY <1>3 DEF EnterWrite
<1>4. CASE LeaveWrite
  BY <1>4 DEF LeaveWrite
<1>5. CASE Send
  BY <1>5 DEF Send
<1>6. CASE Await
  BY <1>6 DEF Await
<1>7. CASE FindRecord
  BY <1>7 DEF FindRecord
<1>8. CASE SkipTicket
  BY <1>8 DEF SkipTicket
<1>9. CASE PutInput
  BY <1>9 DEF PutInput
<1>10. CASE WantInput
  BY <1>10 DEF WantInput
<1>11. CASE SocketRead
  BY <1>11 DEF SocketRead
<1>12. CASE SocketEnds
  BY <1>12 DEF SocketEnds
<1>13. CASE RunPosted
  BY <1>13 DEF RunPosted
<1>14. CASE HandleData
  BY <1>14 DEF HandleData
<1>15. CASE HandleEnd
  BY <1>15 DEF HandleEnd
<1>16. CASE ServerSends
  BY <1>16 DEF ServerSends
<1>17. CASE ServerCloses
  BY <1>17 DEF ServerCloses
<1>18. CASE SocketFails
  BY <1>18 DEF SocketFails
<1>19. CASE RaceBites
  BY <1>19 DEF RaceBites, Overlap
<1>20. CASE FindEnd
  BY <1>20 DEF FindEnd
<1>21. CASE UNCHANGED tlsVars
  BY <1>21
<1> HIDE DEF tlsVars, serverVars, coreVars, Running, TlsTypeOK, Stages, ReadIsPending, DryWhere
<1> QED
  BY <1>1, <1>2, <1>3, <1>4, <1>5, <1>6, <1>7, <1>8, <1>9, <1>10,
     <1>11, <1>12, <1>13, <1>14, <1>15, <1>16, <1>17, <1>18, <1>19, <1>20, <1>21 DEF Next,
       MainStep, ReadStep

\* A step of anyone but a server that speaks first keeps the stream to tickets.
LEMMA QuietStep ==
  ASSUME TlsTypeOK, ReadIsPending, BytesAddUp, QuietSoFar, [Next]_tlsVars
  PROVE  QuietSoFar'
<1> USE TlsAssumption DEF tlsVars, serverVars, coreVars, Running, TlsTypeOK, Stages,
        ReadIsPending, BytesAddUp, QuietSoFar, BeforeSend
<1>1. CASE Connect
  BY <1>1 DEF Connect
<1>2. CASE StartRead
  BY <1>2 DEF StartRead
<1>3. CASE EnterWrite
  BY <1>3 DEF EnterWrite
<1>4. CASE LeaveWrite
  BY <1>4 DEF LeaveWrite
<1>5. CASE Send
  BY <1>5 DEF Send
<1>6. CASE Await
  BY <1>6 DEF Await
<1>7. CASE FindRecord
  BY <1>7 DEF FindRecord
<1>8. CASE SkipTicket
  BY <1>8 DEF SkipTicket
<1>9. CASE PutInput
  BY <1>9 DEF PutInput
<1>10. CASE WantInput
  BY <1>10 DEF WantInput
<1>11. CASE SocketRead
  BY <1>11 DEF SocketRead
<1>12. CASE SocketEnds
  BY <1>12 DEF SocketEnds
<1>13. CASE RunPosted
  BY <1>13 DEF RunPosted
<1>14. CASE HandleData
  BY <1>14 DEF HandleData
<1>15. CASE HandleEnd
  BY <1>15 DEF HandleEnd
<1>16. CASE ServerSends
  BY <1>16 DEF ServerSends
<1>17. CASE ServerCloses
  BY <1>17 DEF ServerCloses
<1>18. CASE SocketFails
  BY <1>18 DEF SocketFails
<1>19. CASE RaceBites
  BY <1>19 DEF RaceBites, Overlap
<1>20. CASE FindEnd
  BY <1>20 DEF FindEnd
<1>21. CASE UNCHANGED tlsVars
  BY <1>21
<1> HIDE DEF tlsVars, serverVars, coreVars, Running, TlsTypeOK, Stages, ReadIsPending,
        BytesAddUp, QuietSoFar, BeforeSend
<1> QED
  BY <1>1, <1>2, <1>3, <1>4, <1>5, <1>6, <1>7, <1>8, <1>9, <1>10,
     <1>11, <1>12, <1>13, <1>14, <1>15, <1>16, <1>17, <1>18, <1>19, <1>20, <1>21 DEF Next,
       MainStep, ReadStep

-----------------------------------------------------------------------------
(* Theorems.                                                               *)

\* TlsInv holds in the first state and no step breaks it.
LEMMA TlsInvariant == Spec => []TlsInv
<1>1. ASSUME TlsInv, [Next]_tlsVars PROVE TlsInv'
  BY <1>1, TypesStep, PendingStep, BytesStep, DryStep, QuietStep DEF TlsInv
<1> QED
  BY TlsInitially, <1>1, PTL DEF Spec

\* The state of the stream, of main() and of the read stays within its types.
THEOREM TlsTypes == Spec => []TlsTypeOK
<1>1. TlsInv => TlsTypeOK
  BY DEF TlsInv
<1> QED
  BY <1>1, TlsInvariant, PTL

\* The stream neither loses nor doubles bytes, and its handler gets every record of the
\* answer once.
THEOREM StreamKeepsBytes == Spec => []BytesAddUp
<1>1. TlsInv => BytesAddUp
  BY DEF TlsInv
<1> QED
  BY <1>1, TlsInvariant, PTL

\* A read that waits for the socket has nothing to give: all that has come makes no
\* record that was not given out.
THEOREM NothingKeptBack == Spec => []WaitsOnlyWhenDry
<1>1. ASSUME TlsInv PROVE WaitsOnlyWhenDry
  <2> SUFFICES ASSUME op = "socket" PROVE sent - wire < RecordSize * (records + 1)
    BY DEF WaitsOnlyWhenDry
  <2>1. input = 0 /\ held < RecordSize
    BY <1>1 DEF TlsInv, DryWhere
  <2>2. /\ sent \in Nat /\ wire \in Nat /\ held \in Nat /\ records \in Nat
        /\ sent = wire + input + held + RecordSize * records
    BY <1>1 DEF TlsInv, TlsTypeOK, BytesAddUp
  <2>3. /\ RecordSize \in Nat /\ RecordSize * records \in Nat
        /\ RecordSize * (records + 1) = RecordSize * records + RecordSize
    BY <2>2, NextRecord, TlsAssumption
  <2> QED
    BY <2>1, <2>2, <2>3
<1> QED
  BY <1>1, TlsInvariant, PTL

\* When main() takes the answer, no complete record of it is missing, wherever the
\* server or the network ended the stream.
THEOREM AnswerIsWhole == Spec => []EndHasAll
<1>1. ASSUME TlsInv PROVE EndHasAll
  <2> SUFFICES ASSUME isdone
               PROVE  wire = 0 /\ sent < RecordSize * (Tickets + given + 1)
    BY DEF EndHasAll
  <2>1. input = 0 /\ held < RecordSize /\ wire = 0 /\ op = "none"
    BY <1>1 DEF TlsInv, DryWhere, ReadIsPending
  <2>2. /\ sent \in Nat /\ held \in Nat /\ records \in Nat /\ given \in Nat
        /\ sent = wire + input + held + RecordSize * records
    BY <1>1 DEF TlsInv, TlsTypeOK, BytesAddUp
  <2>3. given = IF records > Tickets THEN records - Tickets ELSE 0
    BY <1>1, <2>1, <2>2 DEF TlsInv, BytesAddUp
  <2>4. records + 1 <= Tickets + given + 1 /\ Tickets + given + 1 \in Nat
    BY <2>2, <2>3, TlsAssumption
  <2>5. RecordSize * (records + 1) <= RecordSize * (Tickets + given + 1)
    BY <2>2, <2>4, FewerRecords
  <2>6. /\ RecordSize \in Nat /\ RecordSize * records \in Nat
        /\ RecordSize * (records + 1) = RecordSize * records + RecordSize
    BY <2>2, NextRecord, TlsAssumption
  <2>7. sent < RecordSize * (records + 1)
    BY <2>1, <2>2, <2>6
  <2>8. RecordSize * (Tickets + given + 1) \in Nat
    BY <2>4, TlsAssumption
  <2> QED
    BY <2>1, <2>2, <2>5, <2>6, <2>7, <2>8
<1> QED
  BY <1>1, TlsInvariant, PTL

\* Only a server that acts between the handshake and the request brings both threads
\* into the engine.
THEOREM MainIsAlone == Spec => []AloneUnlessUnasked
<1>1. TlsInv => AloneUnlessUnasked
  BY DEF TlsInv, QuietSoFar, AloneUnlessUnasked, Overlap
<1> QED
  BY <1>1, TlsInvariant, PTL

\* The read of the stream keeps the contract of main() and the context thread: it is
\* pending from readnetdata() of main() to the end of the stream, through every piece
\* and every place it can be in, and only its last handler touches isdone.
THEOREM StreamKeepsTransfer == Spec => KeepsTransfer
<1>1. Init => T!Init
  BY DEF Init, T!Init
<1>2. TlsInv /\ [Next]_tlsVars => [T!Next]_T!transferVars
  <2> SUFFICES ASSUME TlsInv, [Next]_tlsVars PROVE [T!Next]_T!transferVars
    OBVIOUS
  <2>1. ReadIsPending
    BY DEF TlsInv
  <2>2. CASE Connect
    <3>1. op = "none" /\ op' = op /\ isdone' = FALSE
      BY <2>1, <2>2 DEF Connect, ReadIsPending
    <3> QED
      BY <3>1 DEF T!Next, T!Reset
  <2>3. CASE StartRead
    <3>1. op = "none" /\ op' # "none" /\ ~isdone /\ isdone' = isdone
      BY <2>1, <2>3 DEF StartRead, ReadIsPending
    <3>2. isdone' = FALSE
      BY <2>3, <3>1 DEF TlsInv, TlsTypeOK
    <3> QED
      BY <3>1, <3>2 DEF T!Next, T!Begin
  <2>4. CASE HandleEnd
    <3>1. op # "none" /\ op' = "none" /\ isdone' = TRUE
      BY <2>4 DEF HandleEnd
    <3> QED
      BY <3>1 DEF T!Next, T!End
  <2>5. CASE ~(Connect \/ StartRead \/ HandleEnd)
    <3>1. isdone' = isdone /\ (op' # "none" <=> op # "none")
      BY <2>5 DEF Next, MainStep, ReadStep, EnterWrite, LeaveWrite, Send, Await, FindRecord,
             SkipTicket, PutInput, WantInput, FindEnd, SocketRead, SocketEnds, RunPosted,
             HandleData, ServerSends, ServerCloses, SocketFails, RaceBites, tlsVars
    <3> QED
      BY <3>1 DEF T!transferVars
  <2> QED
    BY <2>2, <2>3, <2>4, <2>5
<1> QED
  BY <1>1, <1>2, TlsInvariant, PTL DEF Spec, KeepsTransfer, T!Spec

-----------------------------------------------------------------------------
(* The stream is a RecordStream.                                           *)

\* main() replaces the stream only after its end.
ReplacedAfterEnd == main = "connect" => isdone \/ (sent = 0 /\ ~closed)

LEMMA ReplacedStep == ReplacedAfterEnd /\ [Next]_tlsVars => ReplacedAfterEnd'
<1> SUFFICES ASSUME ReplacedAfterEnd, [Next]_tlsVars PROVE ReplacedAfterEnd'
  OBVIOUS
<1>1. CASE Connect \/ HandleEnd \/ ServerSends \/ ServerCloses
  BY <1>1 DEF Connect, HandleEnd, ServerSends, ServerCloses, ReplacedAfterEnd
<1>2. CASE ~(Connect \/ HandleEnd \/ ServerSends \/ ServerCloses)
  <2>1. UNCHANGED <<isdone, sent, closed>> /\ (main' = "connect" => main = "connect" \/ isdone)
    BY <1>2 DEF Next, MainStep, ReadStep, StartRead, EnterWrite, LeaveWrite, Send, Await,
           FindRecord, SkipTicket, PutInput, WantInput, FindEnd, SocketRead, SocketEnds,
           RunPosted, HandleData, SocketFails, RaceBites, tlsVars, serverVars
  <2> QED
    BY <2>1 DEF ReplacedAfterEnd
<1> QED
  BY <1>1, <1>2

\* The record in the hands of the handler is complete, and it is the next one.
LEMMA HandledIsNext ==
  ASSUME TlsInv, op = "data"
  PROVE  ~isdone /\ P!Bytes(given + 1) <= sent
<1>1. /\ sent \in Nat /\ wire \in Nat /\ input \in Nat /\ held \in Nat
      /\ records \in Nat /\ given \in Nat
      /\ sent = wire + input + held + RecordSize * records
      /\ given + 1 = IF records > Tickets THEN records - Tickets ELSE 0
  BY DEF TlsInv, TlsTypeOK, BytesAddUp
<1>2. RecordSize * records \in Nat /\ Tickets + (given + 1) = records
  BY <1>1, NextRecord, TlsAssumption
<1>3. RecordSize * records <= sent
  BY <1>1, <1>2
<1>4. ~isdone
  BY DEF TlsInv, ReadIsPending
<1> QED
  BY <1>2, <1>3, <1>4 DEF P!Bytes

\* At the end nothing complete is left.
LEMMA EndIsLast ==
  ASSUME TlsInv, op = "eof"
  PROVE  ~isdone /\ closed /\ sent < P!Bytes(given + 1)
<1>1. ~isdone /\ closed /\ wire = 0 /\ input = 0 /\ held < RecordSize
  BY DEF TlsInv, DryWhere, ReadIsPending
<1>2. /\ sent \in Nat /\ held \in Nat /\ records \in Nat /\ given \in Nat
      /\ sent = wire + input + held + RecordSize * records
      /\ given = IF records > Tickets THEN records - Tickets ELSE 0
  BY DEF TlsInv, TlsTypeOK, BytesAddUp
<1>3. records + 1 <= Tickets + (given + 1) /\ Tickets + (given + 1) \in Nat
  BY <1>2, TlsAssumption
<1>4. RecordSize * (records + 1) <= RecordSize * (Tickets + (given + 1))
  BY <1>2, <1>3, FewerRecords
<1>5. /\ RecordSize \in Nat /\ RecordSize * records \in Nat
      /\ RecordSize * (records + 1) = RecordSize * records + RecordSize
      /\ RecordSize * (Tickets + (given + 1)) \in Nat
  BY <1>2, <1>3, NextRecord, TlsAssumption
<1>6. sent < RecordSize * (Tickets + (given + 1))
  BY <1>1, <1>2, <1>4, <1>5
<1> QED
  BY <1>1, <1>6 DEF P!Bytes

\* However server and network cut the bytes, whatever stays in input_ or in the engine and
\* in whichever order the threads go on, the handler gets each record of the answer when
\* it is complete, once, and then the end.
THEOREM StreamDelivers == Spec => DeliversRecords
<1>1. Init => P!Init /\ ReplacedAfterEnd
  BY DEF Init, P!Init, ReplacedAfterEnd
<1>2. TlsInv /\ ReplacedAfterEnd /\ [Next]_tlsVars => [P!Next]_P!streamVars
  <2> SUFFICES ASSUME TlsInv, ReplacedAfterEnd, [Next]_tlsVars
               PROVE  [P!Next]_P!streamVars
    OBVIOUS
  <2>1. CASE Connect
    <3>1. PICK early \in 0..InputSize : early <= Tickets * RecordSize /\ sent' = early
      BY <2>1 DEF Connect
    <3>2. sent' \in 0..P!Bytes(0)
      BY <3>1, TlsAssumption DEF P!Bytes
    <3>3. /\ given' = 0 /\ closed' = FALSE /\ isdone' = FALSE
          /\ isdone \/ (sent = 0 /\ ~closed)
      BY <2>1 DEF Connect, ReplacedAfterEnd
    <3> QED
      BY <3>2, <3>3 DEF P!Next, P!Open
  <2>2. CASE ServerSends
    BY <2>2 DEF ServerSends, P!Next, P!Send
  <2>3. CASE ServerCloses
    BY <2>3 DEF ServerCloses, P!Next, P!Close
  <2>4. CASE HandleData
    <3>1. ~isdone /\ P!Bytes(given + 1) <= sent
      BY <2>4, HandledIsNext DEF HandleData
    <3>2. given' = given + 1 /\ UNCHANGED <<sent, closed, isdone>>
      BY <2>4 DEF HandleData, serverVars
    <3> QED
      BY <3>1, <3>2 DEF P!Next, P!Deliver
  <2>5. CASE HandleEnd
    <3>1. ~isdone /\ closed /\ sent < P!Bytes(given + 1)
      BY <2>5, EndIsLast DEF HandleEnd
    <3>2. isdone' = TRUE /\ UNCHANGED <<sent, closed, given>>
      BY <2>5 DEF HandleEnd, serverVars
    <3> QED
      BY <3>1, <3>2 DEF P!Next, P!End
  <2>6. CASE ~(Connect \/ ServerSends \/ ServerCloses \/ HandleData \/ HandleEnd)
    <3>1. UNCHANGED <<sent, closed, given, isdone>>
      BY <2>6 DEF Next, MainStep, ReadStep, StartRead, EnterWrite, LeaveWrite, Send, Await,
             FindRecord, SkipTicket, PutInput, WantInput, FindEnd, SocketRead, SocketEnds,
             RunPosted, SocketFails, RaceBites, tlsVars, serverVars
    <3> QED
      BY <3>1 DEF P!streamVars
  <2> QED
    BY <2>1, <2>2, <2>3, <2>4, <2>5, <2>6
<1> QED
  BY <1>1, <1>2, ReplacedStep, TlsInvariant, PTL DEF Spec, DeliversRecords, P!Spec

============================================================================
