--------------------------- MODULE HttpReadProofs ---------------------------
(***************************************************************************)
(* Proofs about HttpRead, for all headers, bodies and ways to cut them:    *)
(* what readbuf holds, and that the reader implements Transfer.            *)
(***************************************************************************)
EXTENDS HttpRead, SequenceTheorems, TLAPS

-----------------------------------------------------------------------------
(* What an answer looks like.                                              *)

\* The three parts of an answer, byte by byte.
LEMMA AnswerBytes ==
  ASSUME header \in Headers, body \in Bodies
  PROVE  /\ Len(header) \in Nat /\ Len(body) \in Nat /\ Len(body) > 0
         /\ Answer \in Seq(Chars)
         /\ BodyAt = Len(header) + 2
         /\ Len(Answer) = BodyAt + Len(body)
         /\ \A i \in 1..Len(header) : Answer[i] = header[i]
         /\ Answer[Len(header) + 1] = Crlf /\ Answer[Len(header) + 2] = Crlf
         /\ \A i \in 1..Len(body) : Answer[BodyAt + i] = body[i] /\ Answer[BodyAt + i] # Crlf
<1>1. header \in Seq(Chars) /\ body \in Seq(Chars)
  BY AnswersAssumption
<1>2. /\ Separator \in Seq(Chars) /\ Len(Separator) = 2
      /\ Separator[1] = Crlf /\ Separator[2] = Crlf
  BY AnswersAssumption DEF Separator
<1>3. Len(header) \in Nat /\ Len(body) \in Nat /\ Len(body) > 0
  BY <1>1, AnswersAssumption, LenProperties, EmptySeq
<1> DEFINE front == header \o Separator
<1>4. /\ front \in Seq(Chars) /\ Len(front) = Len(header) + 2
      /\ \A i \in 1..(Len(header) + 2) :
           front[i] = IF i <= Len(header) THEN header[i] ELSE Separator[i - Len(header)]
  <2>1. /\ front \in Seq(Chars) /\ Len(front) = Len(header) + Len(Separator)
        /\ \A i \in 1..Len(header) + Len(Separator) :
             front[i] = IF i <= Len(header) THEN header[i] ELSE Separator[i - Len(header)]
    BY <1>1, <1>2, ConcatProperties, Zenon
  <2> QED
    BY <2>1, <1>2
<1>5. front[Len(header) + 1] = Crlf /\ front[Len(header) + 2] = Crlf
  BY <1>2, <1>3, <1>4
<1> HIDE DEF front
<1>6. /\ Answer \in Seq(Chars) /\ Len(Answer) = Len(front) + Len(body)
      /\ \A i \in 1..Len(front) + Len(body) :
           Answer[i] = IF i <= Len(front) THEN front[i] ELSE body[i - Len(front)]
  <2>1. Answer = front \o body
    BY DEF Answer, front
  <2>2. front \in Seq(Chars)
    BY <1>4
  <2> QED
    BY <1>1, <2>1, <2>2, ConcatProperties, Zenon
<1>7. BodyAt = Len(header) + 2
  BY <1>2 DEF BodyAt
<1>8. \A i \in 1..Len(body) : body[i] # Crlf
  BY AnswersAssumption
<1>9. \A i \in 1..Len(header) : Answer[i] = header[i]
  BY <1>3, <1>4, <1>6
<1>10. Answer[Len(header) + 1] = Crlf /\ Answer[Len(header) + 2] = Crlf
  BY <1>3, <1>4, <1>5, <1>6
<1>11. \A i \in 1..Len(body) : Answer[BodyAt + i] = body[i]
  BY <1>3, <1>4, <1>6, <1>7
<1> QED
  BY <1>3, <1>4, <1>6, <1>7, <1>8, <1>9, <1>10, <1>11

\* The only blank line is the separator.
LEMMA OneSeparator ==
  ASSUME header \in Headers, body \in Bodies, NEW i \in 1..(Len(Answer) - 1),
         Answer[i] = Crlf, Answer[i + 1] = Crlf
  PROVE  i = Len(header) + 1
<1>1. CASE i <= Len(header)
  <2>1. header[i] = Crlf
    BY <1>1, AnswerBytes
  <2>2. i < Len(header) /\ header[i + 1] # Crlf
    BY <1>1, <2>1, AnswersAssumption, AnswerBytes
  <2> QED
    BY <2>2, AnswerBytes
<1>2. CASE i > Len(header) + 1
  <2> DEFINE k == i + 1 - BodyAt
  <2>1. k \in 1..Len(body) /\ BodyAt + k = i + 1
    BY <1>2, AnswerBytes
  <2> QED
    BY <2>1, AnswerBytes
<1> QED
  BY <1>1, <1>2, AnswerBytes

\* No line end lies behind the separator.
LEMMA LineEndsBeforeBody ==
  ASSUME header \in Headers, body \in Bodies, NEW i \in 1..Len(Answer), Answer[i] = Crlf
  PROVE  i <= BodyAt
<1>1. ASSUME i > BodyAt PROVE FALSE
  <2> DEFINE k == i - BodyAt
  <2>1. k \in 1..Len(body) /\ BodyAt + k = i
    BY <1>1, AnswerBytes
  <2> QED
    BY <2>1, AnswerBytes
<1> QED
  BY <1>1, AnswerBytes

-----------------------------------------------------------------------------
(* The inductive invariant.                                                *)

\* Where in the answer readbuf starts.
From == got - Len(readbuf)

ReadInv ==
  /\ HttpTypeOK
  /\ Len(readbuf) <= got
  /\ \A i \in 1..Len(readbuf) : readbuf[i] = Answer[From + i]
  /\ ~hasreadhttpheader => readbuf = <<>> /\ SeparatorsIn(tempbuf) = {}
  /\ hasreadhttpheader => From \in 1..Len(Answer) /\ Answer[From] = Crlf
  /\ got = 0 => first = 0
  /\ first >= BodyAt => hasreadhttpheader /\ From = BodyAt

LEMMA LengthsAreNumbers ==
  ASSUME NEW h \in Headers, NEW b \in Bodies
  PROVE  Len(h \o Separator \o b) \in Nat \ {0} /\ Len(h) + Len(Separator) > 0
<1>1. h \in Seq(Chars) /\ b \in Seq(Chars)
  BY AnswersAssumption
<1>2. Separator \in Seq(Chars) /\ Len(Separator) = 2
  BY AnswersAssumption DEF Separator
<1>3. h \o Separator \in Seq(Chars)
  BY <1>1, <1>2, ConcatProperties
<1>4. /\ h \o Separator \o b \in Seq(Chars)
      /\ Len(h \o Separator \o b) = Len(h \o Separator) + Len(b)
  BY <1>1, <1>3, ConcatProperties
<1>5. Len(h \o Separator) = Len(h) + Len(Separator)
  BY <1>1, <1>2, ConcatProperties
<1>6. Len(h) \in Nat /\ Len(b) \in Nat
  BY <1>1, LenProperties
<1> QED
  BY <1>2, <1>4, <1>5, <1>6

\* What resize() leaves holds no separator.
LEMMA NoSeparatorInZeros == SeparatorsIn([i \in 1..BufferSize |-> Zero]) = {}
<1> SUFFICES ASSUME NEW i \in SeparatorsIn([j \in 1..BufferSize |-> Zero]) PROVE FALSE
  OBVIOUS
<1>1. Len(Separator) = 2 /\ Separator[1] = Crlf
  BY DEF Separator
<1>2. i \in 1..BufferSize /\ [j \in 1..BufferSize |-> Zero][i + 1 - 1] = Crlf
  BY <1>1, AnswersAssumption DEF SeparatorsIn
<1> QED
  BY <1>2, AnswersAssumption

LEMMA ReadInvInit == Init => ReadInv
<1> SUFFICES ASSUME Init PROVE ReadInv
  OBVIOUS
<1>1. readbuf = <<>> /\ Len(readbuf) = 0 /\ readbuf \in Seq(Chars)
  BY EmptySeq DEF Init
<1>2. Len(Answer) \in Nat /\ BodyAt > 0
  BY LengthsAreNumbers DEF Init, Answer, BodyAt
<1>3. tempbuf \in [1..BufferSize -> Chars \cup {Zero}] /\ SeparatorsIn(tempbuf) = {}
  BY NoSeparatorInZeros DEF Init
<1>4. /\ header \in Headers /\ body \in Bodies /\ got = 0 /\ first = 0
      /\ reading = FALSE /\ isdone = FALSE /\ hasreadhttpheader = FALSE
  BY DEF Init
<1>5. HttpTypeOK
  <2>1. got \in 0..Len(Answer) /\ first \in 0..got
    BY <1>2, <1>4
  <2> QED
    BY <1>1, <1>3, <1>4, <2>1, Zenon DEF HttpTypeOK
<1>6. ~(first >= BodyAt)
  BY <1>4, LengthsAreNumbers DEF Init, BodyAt, Separator
<1>7. Len(readbuf) <= got /\ \A i \in 1..Len(readbuf) : readbuf[i] = Answer[From + i]
  BY <1>1, <1>4
<1> QED
  BY <1>1, <1>3, <1>4, <1>5, <1>6, <1>7, Zenon DEF ReadInv

LEMMA ReadInvBegin == Begin => ReadInv'
<1> SUFFICES ASSUME Begin PROVE ReadInv'
  OBVIOUS
<1>1. readbuf' = <<>> /\ Len(readbuf') = 0 /\ readbuf' \in Seq(Chars)
  BY EmptySeq DEF Begin
<1>2. Len(Answer') \in Nat /\ BodyAt' > 0
  BY LengthsAreNumbers DEF Begin, Answer, BodyAt
<1>3. tempbuf' \in [1..BufferSize -> Chars \cup {Zero}] /\ SeparatorsIn(tempbuf') = {}
  BY NoSeparatorInZeros DEF Begin
<1>4. /\ header' \in Headers /\ body' \in Bodies /\ got' = 0 /\ first' = 0
      /\ reading' = TRUE /\ isdone' = FALSE /\ hasreadhttpheader' = FALSE
  BY DEF Begin
<1>5. HttpTypeOK'
  <2>1. got' \in 0..Len(Answer') /\ first' \in 0..got'
    BY <1>2, <1>4
  <2> QED
    BY <1>1, <1>3, <1>4, <2>1, Zenon DEF HttpTypeOK
<1>6. ~(first' >= BodyAt')
  BY <1>2, <1>4, AnswersAssumption DEF BodyAt
<1>7. /\ (Len(readbuf) <= got)'
      /\ (\A i \in 1..Len(readbuf) : readbuf[i] = Answer[From + i])'
  BY <1>1, <1>4
<1> QED
  BY <1>1, <1>3, <1>4, <1>5, <1>6, <1>7 DEF ReadInv, SeparatorsIn

LEMMA ReadInvFinish == ReadInv /\ Finish => ReadInv'
<1> SUFFICES ASSUME ReadInv, Finish PROVE ReadInv'
  OBVIOUS
<1>1. /\ UNCHANGED <<header, body, got, first, tempbuf, readbuf, hasreadhttpheader>>
      /\ reading' \in BOOLEAN /\ isdone' \in BOOLEAN
  BY DEF Finish, answerVars
<1>2. /\ Answer' = Answer /\ From' = From /\ BodyAt' = BodyAt
      /\ SeparatorsIn(tempbuf)' = SeparatorsIn(tempbuf)
  BY <1>1 DEF Answer, From, BodyAt, SeparatorsIn
<1>3. HttpTypeOK'
  BY <1>1, <1>2 DEF ReadInv, HttpTypeOK
<1> QED
  BY <1>1, <1>2, <1>3 DEF ReadInv

\* What the handler sees in tempbuf after a piece of length len.
LEMMA PieceInBuffer ==
  ASSUME header \in Headers, body \in Bodies,
         tempbuf \in [1..BufferSize -> Chars \cup {Zero}],
         got \in Nat, NEW len \in 1..BufferSize, got + len <= Len(Answer),
         tempbuf' = Overwrite(tempbuf, SubSeq(Answer, got + 1, got + len))
  PROVE  /\ tempbuf' \in [1..BufferSize -> Chars \cup {Zero}]
         /\ \A i \in 1..len : tempbuf'[i] = Answer[got + i]
         /\ \A i \in (len + 1)..BufferSize : tempbuf'[i] = tempbuf[i]
<1> DEFINE piece == SubSeq(Answer, got + 1, got + len)
<1>1. BufferSize \in Nat
  BY AnswersAssumption
<1>2. \A i \in (got + 1)..(got + len) : Answer[i] \in Chars
  <2>1. Len(Answer) \in Nat /\ Answer \in Seq(Chars)
    BY AnswerBytes
  <2> QED
    BY <1>1, <2>1, ElementOfSeq
<1>3. /\ piece \in Seq(Chars)
      /\ Len(piece) = IF got + 1 <= got + len THEN got + len - (got + 1) + 1 ELSE 0
      /\ \A i \in 1..got + len - (got + 1) + 1 : piece[i] = Answer[got + 1 + i - 1]
  <2>1. got + 1 \in Int /\ got + len \in Int
    BY <1>1
  <2> QED
    BY <1>2, <2>1, SubSeqProperties
<1>4. Len(piece) = len /\ \A i \in 1..len : piece[i] = Answer[got + i]
  BY <1>1, <1>3
<1>5. \A i \in 1..len : piece[i] \in Chars
  BY <1>3, <1>4, ElementOfSeq
<1> HIDE DEF piece
<1>6. tempbuf' = [i \in 1..BufferSize |-> IF i <= len THEN piece[i] ELSE tempbuf[i]]
  BY <1>4 DEF Overwrite, piece
<1> QED
  BY <1>1, <1>4, <1>5, <1>6

\* A separator in the buffer at i is two line ends.
LEMMA SeparatorBytes ==
  ASSUME NEW buffer
  PROVE  \A i : i \in SeparatorsIn(buffer) <=>
           i \in 1..(BufferSize - 1) /\ buffer[i] = Crlf /\ buffer[i + 1] = Crlf
<1>1. Len(Separator) = 2 /\ Separator[1] = Crlf /\ Separator[2] = Crlf
  BY DEF Separator
<1>2. BufferSize \in Nat
  BY AnswersAssumption
<1>3. SeparatorsIn(buffer) =
        {i \in 1..(BufferSize - 1) : \A k \in 1..2 : buffer[i + k - 1] = Separator[k]}
  BY <1>1, <1>2 DEF SeparatorsIn
<1> SUFFICES ASSUME NEW i
             PROVE  i \in SeparatorsIn(buffer) <=>
                      i \in 1..(BufferSize - 1) /\ buffer[i] = Crlf /\ buffer[i + 1] = Crlf
  OBVIOUS
<1>4. ASSUME i \in 1..(BufferSize - 1)
      PROVE  (\A k \in 1..2 : buffer[i + k - 1] = Separator[k])
               <=> buffer[i] = Crlf /\ buffer[i + 1] = Crlf
  <2>1. (\A k \in 1..2 : buffer[i + k - 1] = Separator[k])
          <=> buffer[i + 1 - 1] = Separator[1] /\ buffer[i + 2 - 1] = Separator[2]
    OBVIOUS
  <2>2. i + 1 - 1 = i /\ i + 2 - 1 = i + 1
    BY <1>2, <1>4
  <2> QED
    BY <1>1, <2>1, <2>2
<1> QED
  BY <1>3, <1>4

\* The first separator, where there are at most two next to each other.
LEMMA MinOfTwo ==
  ASSUME NEW a \in Int, NEW b \in Int, a <= b, NEW S, a \in S, S \subseteq {a, b}
  PROVE  Min(S) = a
<1>1. a \in S /\ \A y \in S : a <= y
  OBVIOUS
<1>2. \A x \in S : (\A y \in S : x <= y) => x = a
  OBVIOUS
<1> QED
  BY <1>1, <1>2 DEF Min

\* Part of a buffer, byte by byte.
LEMMA PartOfBuffer ==
  ASSUME NEW buffer, NEW m \in Nat, NEW n \in Nat, n <= BufferSize,
         \A i \in m..n : buffer[i] \in Chars
  PROVE  /\ SubSeq(buffer, m, n) \in Seq(Chars)
         /\ Len(SubSeq(buffer, m, n)) = IF m <= n THEN n - m + 1 ELSE 0
         /\ \A i \in 1..n - m + 1 : SubSeq(buffer, m, n)[i] = buffer[m + i - 1]
BY SubSeqProperties

LEMMA ReadInvReadSome == ReadInv /\ ReadSome => ReadInv'
<1>0. SUFFICES ASSUME ReadInv, reading,
                    NEW len \in 1..BufferSize,
                    got + len <= Len(Answer),
                    tempbuf' = Overwrite(tempbuf, SubSeq(Answer, got + 1, got + len)),
                    readbuf' = readbuf \o Appended(tempbuf', len),
                    hasreadhttpheader' = (hasreadhttpheader \/ SeparatorsIn(tempbuf') # {}),
                    got' = got + len,
                    first' = IF got = 0 THEN len ELSE first,
                    header' = header, body' = body, reading' = reading, isdone' = isdone
             PROVE  ReadInv'
  BY DEF ReadSome, answerVars
<1> DEFINE app == Appended(tempbuf', len)
           q == Len(header) + 1 - got
<1>1. /\ header \in Headers /\ body \in Bodies /\ got \in Nat /\ first \in 0..got
      /\ reading \in BOOLEAN /\ isdone \in BOOLEAN /\ hasreadhttpheader \in BOOLEAN
      /\ tempbuf \in [1..BufferSize -> Chars \cup {Zero}] /\ readbuf \in Seq(Chars)
      /\ Len(Answer) \in Nat /\ Len(readbuf) \in Nat /\ BufferSize \in Nat
  BY <1>0, AnswersAssumption, AnswerBytes, LenProperties DEF ReadInv, HttpTypeOK
<1>2. /\ tempbuf' \in [1..BufferSize -> Chars \cup {Zero}]
      /\ \A i \in 1..len : tempbuf'[i] = Answer[got + i]
      /\ \A i \in (len + 1)..BufferSize : tempbuf'[i] = tempbuf[i]
  BY <1>0, <1>1, PieceInBuffer
<1>3. /\ Len(header) \in Nat /\ Answer \in Seq(Chars) /\ BodyAt = Len(header) + 2
      /\ Len(Answer) > BodyAt
      /\ Answer[Len(header) + 1] = Crlf /\ Answer[Len(header) + 2] = Crlf
  BY <1>0, <1>1, AnswerBytes
<1>4. Answer' = Answer /\ BodyAt' = BodyAt
  BY <1>0 DEF Answer, BodyAt
<1>5. \A i \in 1..len : tempbuf'[i] \in Chars
  <2> SUFFICES ASSUME NEW i \in 1..len PROVE tempbuf'[i] \in Chars
    OBVIOUS
  <2>1. got + i \in 1..Len(Answer)
    BY <1>0, <1>1
  <2>2. Answer[got + i] \in Chars
    BY <1>0, <1>3, <2>1, ElementOfSeq
  <2> QED
    BY <1>0, <1>2, <2>2
<1>6. \A i : i \in SeparatorsIn(tempbuf') <=>
        i \in 1..(BufferSize - 1) /\ tempbuf'[i] = Crlf /\ tempbuf'[i + 1] = Crlf
  BY <1>0, SeparatorBytes
<1>7. first >= BodyAt => hasreadhttpheader
  BY <1>0 DEF ReadInv
<1>8. q \in 1..(len - 1) => q \in SeparatorsIn(tempbuf')
  <2> SUFFICES ASSUME q \in 1..(len - 1) PROVE q \in SeparatorsIn(tempbuf')
    OBVIOUS
  <2>1. /\ q \in 1..(BufferSize - 1) /\ q \in 1..len /\ q + 1 \in 1..len
        /\ got + q = Len(header) + 1 /\ got + (q + 1) = Len(header) + 2
    BY <1>0, <1>1, <1>3
  <2> HIDE DEF q
  <2>2. tempbuf'[q] = Answer[got + q] /\ tempbuf'[q + 1] = Answer[got + (q + 1)]
    BY <1>0, <1>2, <2>1
  <2> QED
    BY <1>0, <1>3, <1>6, <2>1, <2>2
\* What is left to show in each case.
<1> DEFINE Rest == /\ app \in Seq(Chars) /\ Len(readbuf') = Len(readbuf) + Len(app)
                   /\ Len(app) \in 0..len
                   /\ \A i \in 1..Len(readbuf') : readbuf'[i] = Answer[From' + i]
                   /\ ~hasreadhttpheader' => readbuf' = <<>> /\ SeparatorsIn(tempbuf') = {}
                   /\ hasreadhttpheader' => From' \in 1..Len(Answer) /\ Answer[From'] = Crlf
                   /\ first' >= BodyAt => hasreadhttpheader' /\ From' = BodyAt
<1>9. ASSUME Rest PROVE ReadInv'
  <2>1. readbuf' \in Seq(Chars)
    BY <1>0, <1>1, <1>9, ConcatProperties
  <2>2. got' \in 0..Len(Answer) /\ first' \in 0..got' /\ (got' = 0 => first' = 0)
    BY <1>0, <1>1
  <2>3. hasreadhttpheader' \in BOOLEAN
    BY <1>0, <1>1
  <2>4. HttpTypeOK'
    BY <1>0, <1>1, <1>2, <1>4, <2>1, <2>2, <2>3, Zenon DEF HttpTypeOK
  <2>5. Len(readbuf') <= got'
    BY <1>0, <1>1, <1>9 DEF ReadInv
  <2>6. SeparatorsIn(tempbuf)' = SeparatorsIn(tempbuf')
    BY <1>0 DEF SeparatorsIn
  <2> QED
    BY <1>0, <1>4, <1>9, <2>2, <2>4, <2>5, <2>6, Zenon DEF ReadInv
<1>10. CASE hasreadhttpheader
  <2>1. app = SubSeq(tempbuf', 1, len)
    BY <1>0, <1>10 DEF Appended
  <2>2. app \in Seq(Chars) /\ Len(app) = len /\ \A i \in 1..len : app[i] = Answer[got + i]
    <3>1. 1 \in Nat /\ len \in Nat /\ len <= BufferSize /\ len >= 1
      BY <1>0, <1>1
    <3> HIDE DEF app
    <3>2. /\ app \in Seq(Chars) /\ Len(app) = IF 1 <= len THEN len - 1 + 1 ELSE 0
          /\ \A i \in 1..len - 1 + 1 : app[i] = tempbuf'[1 + i - 1]
      BY <1>0, <1>5, <2>1, <3>1, PartOfBuffer
    <3>3. Len(app) = len /\ \A i \in 1..len : app[i] = tempbuf'[i]
      BY <1>0, <3>1, <3>2
    <3> QED
      BY <1>0, <1>2, <3>2, <3>3
  <2> HIDE DEF app
  <2>3. /\ Len(readbuf \o app) = Len(readbuf) + Len(app)
        /\ \A i \in 1..Len(readbuf) + Len(app) : (readbuf \o app)[i] =
             IF i <= Len(readbuf) THEN readbuf[i] ELSE app[i - Len(readbuf)]
    BY <1>0, <1>1, <2>2, ConcatProperties
  <2>4. readbuf' = readbuf \o app
    BY <1>0 DEF app
  <2>5. From' = From /\ From \in Int
    <3>1. Len(readbuf') = Len(readbuf) + len
      BY <1>0, <2>2, <2>3, <2>4
    <3>2. got' = got + len /\ len \in Int
      BY <1>0, <1>1
    <3> QED
      BY <1>1, <3>1, <3>2 DEF From
  <2>6. \A i \in 1..Len(readbuf') : readbuf'[i] = Answer[From' + i]
    <3> SUFFICES ASSUME NEW i \in 1..(Len(readbuf) + len)
                 PROVE  readbuf'[i] = Answer[From + i]
      BY <1>0, <2>2, <2>3, <2>4, <2>5
    <3>1. CASE i <= Len(readbuf)
      <4>1. readbuf[i] = Answer[From + i]
        BY <1>0, <1>1, <3>1 DEF ReadInv
      <4>2. i \in 1..Len(readbuf) + Len(app)
        BY <1>1, <2>2, <3>1
      <4> QED
        <5>1. readbuf'[i] = readbuf[i]
          BY <2>3, <2>4, <3>1, <4>2
        <5> QED
          BY <4>1, <5>1
    <3>2. CASE i > Len(readbuf)
      <4>1. readbuf'[i] = app[i - Len(readbuf)] /\ i - Len(readbuf) \in 1..len
        <5>1. i \in 1..Len(readbuf) + Len(app) /\ ~(i <= Len(readbuf)) /\ i - Len(readbuf) \in 1..len
          BY <1>0, <1>1, <2>2, <3>2
        <5> QED
          BY <1>0, <2>3, <2>4, <5>1
      <4>2. got + (i - Len(readbuf)) = From + i
        BY <1>0, <1>1 DEF From
      <4> QED
        BY <2>2, <4>1, <4>2
    <3> QED
      BY <1>1, <3>1, <3>2
  <2>7. first' >= BodyAt => first >= BodyAt
    BY <1>0, <1>1, <1>3, <1>10, <2>5 DEF ReadInv, From
  <2>8. /\ app \in Seq(Chars) /\ Len(readbuf') = Len(readbuf) + Len(app)
        /\ Len(app) \in 0..len
    <3>1. len \in Nat
      BY <1>1
    <3> QED
      BY <2>2, <2>3, <2>4, <3>1
  <2>9. hasreadhttpheader' /\ From' \in 1..Len(Answer) /\ Answer[From'] = Crlf
    BY <1>0, <1>10, <2>5 DEF ReadInv
  <2>10. first' >= BodyAt => From' = BodyAt
    BY <1>0, <2>5, <2>7 DEF ReadInv
  <2> QED
    BY <1>0, <1>9, <2>6, <2>8, <2>9, <2>10, Zenon DEF app
<1>11. CASE ~hasreadhttpheader /\ SeparatorsIn(tempbuf') = {}
  <2>1. app = <<>> /\ readbuf = <<>>
    BY <1>0, <1>11 DEF Appended, ReadInv
  <2>2. app \in Seq(Chars) /\ readbuf' = <<>> /\ Len(app) = 0 /\ Len(readbuf') = 0
    <3>1. <<>> \in Seq(Chars) /\ Len(<<>>) = 0 /\ <<>> \o <<>> = <<>>
      BY <1>0, EmptySeq, ConcatEmptySeq
    <3> QED
      BY <1>0, <2>1, <3>1, Zenon
  <2>3. ~(first' >= BodyAt)
    BY <1>0, <1>1, <1>3, <1>7, <1>8, <1>11
  <2> QED
    BY <1>0, <1>1, <1>9, <1>11, <2>1, <2>2, <2>3
<1>12. CASE ~hasreadhttpheader /\ SeparatorsIn(tempbuf') # {}
  <2>1. readbuf = <<>> /\ SeparatorsIn(tempbuf) = {} /\ hasreadhttpheader' = TRUE
    BY <1>0, <1>12 DEF ReadInv
  <2>2. app = SubSeq(tempbuf', Min(SeparatorsIn(tempbuf')) + 2, len)
    BY <1>0, <1>12 DEF Appended, Separator
  <2>3. ASSUME NEW i \in SeparatorsIn(tempbuf') PROVE i = q \/ i = len
    <3>1. i \in 1..(BufferSize - 1) /\ tempbuf'[i] = Crlf /\ tempbuf'[i + 1] = Crlf
      BY <1>0, <1>6
    <3>2. i <= len
      <4> SUFFICES ASSUME i > len PROVE FALSE
        BY <1>0, <1>1, <3>1
      <4>1. tempbuf[i] = Crlf /\ tempbuf[i + 1] = Crlf
        BY <1>0, <1>1, <1>2, <3>1
      <4>2. i \in SeparatorsIn(tempbuf)
        BY <1>0, <3>1, <4>1, SeparatorBytes
      <4> QED
        BY <1>0, <2>1, <4>2
    <3>3. CASE i < len
      <4>1. Answer[got + i] = Crlf /\ Answer[got + i + 1] = Crlf
        BY <1>0, <1>1, <1>2, <3>1, <3>3
      <4>2. got + i \in 1..(Len(Answer) - 1)
        BY <1>0, <1>1, <3>1, <3>3
      <4>3. got + i = Len(header) + 1
        BY <1>0, <1>1, <4>1, <4>2, OneSeparator
      <4> QED
        BY <1>0, <1>1, <1>3, <3>1, <4>3
    <3> QED
      BY <1>0, <1>1, <3>1, <3>2, <3>3
  <2>4. CASE q \in 1..(len - 1)
    <3>1. Min(SeparatorsIn(tempbuf')) = q
      BY <1>0, <1>1, <1>3, <1>8, <2>3, <2>4, MinOfTwo
    <3>2. /\ app \in Seq(Chars) /\ Len(app) = len - q - 1
          /\ \A i \in 1..Len(app) : app[i] = tempbuf'[q + 1 + i]
      <4>1. q + 2 \in Nat /\ len \in Nat /\ len <= BufferSize
        BY <1>0, <1>1, <2>4
      <4>2. app = SubSeq(tempbuf', q + 2, len)
        BY <1>0, <2>2, <3>1
      <4>3. \A i \in (q + 2)..len : tempbuf'[i] \in Chars
        BY <1>0, <1>1, <1>5, <2>4
      <4> HIDE DEF app, q
      <4>4. /\ app \in Seq(Chars) /\ Len(app) = IF q + 2 <= len THEN len - (q + 2) + 1 ELSE 0
            /\ \A i \in 1..len - (q + 2) + 1 : app[i] = tempbuf'[(q + 2) + i - 1]
        BY <1>0, <4>1, <4>2, <4>3, PartOfBuffer
      <4> QED
        BY <1>0, <2>4, <4>1, <4>4
    <3>3. readbuf' = app
      BY <1>0, <2>1, <3>2, ConcatEmptySeq
    <3> HIDE DEF app
    <3>4. From' = BodyAt
      <4>1. Len(readbuf') = len - q - 1
        BY <1>0, <3>2, <3>3
      <4> QED
        BY <1>0, <1>1, <1>3, <2>4, <4>1 DEF From
    <3>5. \A i \in 1..Len(app) : app[i] = Answer[BodyAt + i]
      <4> SUFFICES ASSUME NEW i \in 1..Len(app) PROVE app[i] = Answer[BodyAt + i]
        OBVIOUS
      <4>1. q + 1 + i \in 1..len /\ got + (q + 1 + i) = BodyAt + i
        BY <1>0, <1>1, <1>3, <2>4, <3>2
      <4> QED
        BY <1>0, <1>2, <3>2, <4>1
    <3>6. Len(readbuf') = Len(readbuf) + Len(app) /\ Len(app) \in 0..len
      BY <1>0, <1>1, <2>1, <2>4, <3>2, <3>3, EmptySeq
    <3>7. BodyAt \in 1..Len(Answer) /\ Answer[BodyAt] = Crlf
      BY <1>0, <1>1, <1>3
    <3> QED
      BY <1>0, <1>9, <2>1, <3>2, <3>3, <3>4, <3>5, <3>6, <3>7
  <2>5. CASE q \notin 1..(len - 1)
    <3>1. \A i \in SeparatorsIn(tempbuf') : i = len
      <4> SUFFICES ASSUME NEW i \in SeparatorsIn(tempbuf'), i = q PROVE i = len
        BY <1>0, <2>3
      <4>1. i \in 1..(BufferSize - 1) /\ tempbuf'[i] = Crlf /\ tempbuf'[i + 1] = Crlf
        BY <1>0, <1>6
      <4>2. i >= len
        BY <1>0, <1>1, <2>5, <4>1
      <4>3. ASSUME i # len PROVE FALSE
        <5>1. i \in (len + 1)..BufferSize /\ i + 1 \in (len + 1)..BufferSize
          BY <1>1, <4>1, <4>2, <4>3
        <5>2. tempbuf[i] = Crlf /\ tempbuf[i + 1] = Crlf
          BY <1>0, <1>2, <4>1, <5>1
        <5> QED
          BY <1>0, <2>1, <4>1, <5>2, SeparatorBytes
      <4> QED
        BY <1>0, <4>3
    <3>2. len \in SeparatorsIn(tempbuf')
      BY <1>0, <1>12, <3>1
    <3>3. Min(SeparatorsIn(tempbuf')) = len
      <4>1. len \in Int /\ len <= len /\ SeparatorsIn(tempbuf') \subseteq {len, len}
        BY <1>0, <1>1, <3>1
      <4> QED
        BY <1>0, <3>2, <4>1, MinOfTwo
    <3>4. app = <<>>
      BY <1>0, <1>1, <2>2, <3>3, SubSeqEmpty
    <3>5. app \in Seq(Chars) /\ readbuf' = <<>> /\ Len(app) = 0 /\ Len(readbuf') = 0
      <4>1. <<>> \in Seq(Chars) /\ Len(<<>>) = 0 /\ <<>> \o <<>> = <<>>
        BY <1>0, EmptySeq, ConcatEmptySeq
      <4> QED
        BY <1>0, <2>1, <3>4, <4>1, Zenon
    <3>6. From' = got + len
      BY <1>0, <1>1, <3>5 DEF From
    <3>7. got + len \in 1..Len(Answer) /\ Answer[got + len] = Crlf
      <4>1. tempbuf'[len] = Crlf /\ len \in 1..len
        BY <1>0, <1>1, <1>6, <3>2
      <4> QED
        BY <1>0, <1>1, <1>2, <4>1
    <3>8. ~(first' >= BodyAt)
      BY <1>0, <1>1, <1>3, <1>7, <1>12, <2>5
    <3> QED
      BY <1>0, <1>1, <1>9, <2>1, <3>5, <3>6, <3>7, <3>8
  <2> QED
    BY <1>0, <2>4, <2>5
<1> QED
  BY <1>0, <1>1, <1>10, <1>11, <1>12

LEMMA ReadInvHolds == Spec => []ReadInv
<1>1. Init => ReadInv
  BY ReadInvInit
<1>2. ReadInv /\ [Next]_httpVars => ReadInv'
  <2> SUFFICES ASSUME ReadInv, [Next]_httpVars PROVE ReadInv'
    OBVIOUS
  <2>1. CASE Begin
    BY <2>1, ReadInvBegin
  <2>2. CASE ReadSome
    BY <2>2, ReadInvReadSome
  <2>3. CASE Finish
    BY <2>3, ReadInvFinish
  <2>4. CASE UNCHANGED httpVars
    BY <2>4 DEF httpVars, ReadInv, HttpTypeOK, From, BodyAt, Answer, SeparatorsIn
  <2> QED
    BY <2>1, <2>2, <2>3, <2>4 DEF Next
<1> QED
  BY <1>1, <1>2, PTL DEF Spec

-----------------------------------------------------------------------------
(* What follows from it.                                                   *)

\* readbuf is a part of the answer.
LEMMA ReadbufIsPart == ReadInv => readbuf = SubSeq(Answer, From + 1, got)
<1> SUFFICES ASSUME ReadInv PROVE readbuf = SubSeq(Answer, From + 1, got)
  OBVIOUS
<1>1. /\ readbuf \in Seq(Chars) /\ Len(readbuf) \in Nat /\ got \in Nat
      /\ Answer \in Seq(Chars) /\ got <= Len(Answer) /\ Len(readbuf) <= got
      /\ Len(Answer) \in Nat
  BY AnswerBytes, LenProperties DEF ReadInv, HttpTypeOK
<1>2. From \in Nat /\ From + Len(readbuf) = got
  BY <1>1 DEF From
<1>3. \A i \in 1..Len(readbuf) : readbuf[i] = Answer[From + i]
  BY DEF ReadInv
<1> HIDE DEF From
<1> DEFINE part == SubSeq(Answer, From + 1, got)
<1>4. \A i \in (From + 1)..got : Answer[i] \in Chars
  <2> SUFFICES ASSUME NEW i \in (From + 1)..got PROVE Answer[i] \in Chars
    OBVIOUS
  <2>1. i \in 1..Len(Answer)
    BY <1>1, <1>2
  <2> QED
    BY <1>1, <2>1, ElementOfSeq
<1>5. /\ part \in Seq(Chars)
      /\ Len(part) = IF From + 1 <= got THEN got - (From + 1) + 1 ELSE 0
      /\ \A i \in 1..got - (From + 1) + 1 : part[i] = Answer[(From + 1) + i - 1]
  <2>1. From + 1 \in Int /\ got \in Int
    BY <1>1, <1>2
  <2> QED
    BY <1>4, <2>1, SubSeqProperties
<1> HIDE DEF part
<1>6. Len(part) = Len(readbuf) /\ \A i \in 1..Len(readbuf) : part[i] = Answer[From + i]
  BY <1>1, <1>2, <1>5
<1>7. readbuf = part
  BY <1>1, <1>3, <1>5, <1>6, SeqEqual
<1> QED
  BY <1>7 DEF part

\* The variables keep their types.
THEOREM HttpTypes == Spec => []HttpTypeOK
BY ReadInvHolds, PTL DEF ReadInv

\* readnetdata() never appends a stale byte, twice the same byte or a byte out of
\* order, however the answer is cut and whatever the header and the body are.
THEOREM ReadsNothingStale == Spec => []NothingStale
<1>1. ReadInv => NothingStale
  <2> SUFFICES ASSUME ReadInv PROVE NothingStale
    OBVIOUS
  <2>1. Len(readbuf) <= got
    BY DEF ReadInv
  <2>2. From = got - Len(readbuf)
    BY DEF From
  <2> QED
    BY <2>1, <2>2, ReadbufIsPart DEF NothingStale
<1> QED
  BY <1>1, ReadInvHolds, PTL

\* An answer whose first piece holds the whole header is read to the byte.
THEOREM ReadsExactBody == Spec => []ExactBody
<1>1. ReadInv => ExactBody
  BY ReadbufIsPart DEF ReadInv, ExactBody
<1> QED
  BY <1>1, ReadInvHolds, PTL

-----------------------------------------------------------------------------
(* The reader implements Transfer.                                         *)

\* What it means that readbuf parses.
LEMMA ParsedIsText ==
  Parsed # NoText =>
    /\ Parsed \in Bodies
    /\ \E n \in 0..Len(readbuf) : readbuf = [i \in 1..n |-> Crlf] \o Parsed
<1> DEFINE texts == {b \in Bodies : \E n \in 0..Len(readbuf) :
                      readbuf = [i \in 1..n |-> Crlf] \o b}
<1>1. CASE texts = {}
  BY <1>1 DEF Parsed
<1>2. CASE texts # {}
  <2>1. Parsed = CHOOSE b \in texts : TRUE
    BY <1>2 DEF Parsed
  <2>2. Parsed \in texts
    BY <1>2, <2>1
  <2> QED
    BY <2>2
<1> QED
  BY <1>1, <1>2

\* A sequence of line ends and a text, byte by byte.
LEMMA LineEndsThenText ==
  ASSUME NEW n \in Nat, NEW b \in Seq(Chars)
  PROVE  LET s == [i \in 1..n |-> Crlf] \o b
         IN  /\ Len(s) = n + Len(b)
             /\ \A i \in 1..n : s[i] = Crlf
             /\ \A i \in 1..Len(b) : s[n + i] = b[i]
<1> DEFINE ends == [i \in 1..n |-> Crlf]
<1>1. ends \in Seq(Chars) /\ Len(ends) = n
  BY AnswersAssumption
<1> HIDE DEF ends
<1>2. /\ Len(ends \o b) = Len(ends) + Len(b)
      /\ \A i \in 1..Len(ends) + Len(b) : (ends \o b)[i] =
           IF i <= Len(ends) THEN ends[i] ELSE b[i - Len(ends)]
  BY <1>1, ConcatProperties
<1>3. Len(b) \in Nat
  BY LenProperties
<1>4. \A i \in 1..n : (ends \o b)[i] = Crlf
  BY <1>1, <1>2, <1>3 DEF ends
<1>5. \A i \in 1..Len(b) : (ends \o b)[n + i] = b[i]
  <2> SUFFICES ASSUME NEW i \in 1..Len(b) PROVE (ends \o b)[n + i] = b[i]
    OBVIOUS
  <2>1. n + i \in 1..Len(ends) + Len(b) /\ ~(n + i <= Len(ends)) /\ n + i - Len(ends) = i
    BY <1>1, <1>3
  <2> QED
    BY <1>2, <2>1
<1> QED
  BY <1>1, <1>2, <1>4, <1>5 DEF ends

\* A text can be parsed only when the whole answer has been read: then it is its
\* body.
LEMMA ParsedMeansWhole ==
  ReadInv /\ Parsed # NoText => got = Len(Answer) /\ Parsed = body
<1> SUFFICES ASSUME ReadInv, Parsed # NoText PROVE got = Len(Answer) /\ Parsed = body
  OBVIOUS
<1>1. /\ header \in Headers /\ body \in Bodies /\ got \in 0..Len(Answer)
      /\ readbuf \in Seq(Chars) /\ Len(readbuf) \in Nat /\ Len(Answer) \in Nat
  BY AnswerBytes, LenProperties DEF ReadInv, HttpTypeOK
<1>2. PICK n \in 0..Len(readbuf) : readbuf = [i \in 1..n |-> Crlf] \o Parsed
  BY ParsedIsText
<1> DEFINE b == Parsed
<1>3. b \in Bodies /\ b \in Seq(Chars) /\ Len(b) \in Nat /\ Len(b) > 0 /\ b[1] # Crlf
  <2>1. b \in Bodies /\ b \in Seq(Chars) /\ b # <<>>
    BY ParsedIsText, AnswersAssumption
  <2> HIDE DEF b
  <2>2. Len(b) \in Nat \ {0}
    BY <2>1, EmptySeq
  <2> QED
    BY <2>1, <2>2, AnswersAssumption
<1>4. /\ Len(readbuf) = n + Len(b)
      /\ \A i \in 1..n : readbuf[i] = Crlf
      /\ \A i \in 1..Len(b) : readbuf[n + i] = b[i]
  <2>1. n \in Nat
    BY <1>1
  <2> QED
    BY <1>2, <1>3, <2>1, LineEndsThenText, Zenon
<1> HIDE DEF b
<1>5. hasreadhttpheader
  <2>1. readbuf # <<>>
    BY <1>1, <1>3, <1>4
  <2> QED
    BY <2>1 DEF ReadInv
<1>6. /\ From \in 1..Len(Answer) /\ Answer[From] = Crlf
      /\ \A i \in 1..Len(readbuf) : readbuf[i] = Answer[From + i]
  BY <1>5 DEF ReadInv
<1>7. got = From + n + Len(b) /\ n \in Nat /\ From \in Nat
  BY <1>1, <1>3, <1>4, <1>6 DEF From
<1> HIDE DEF From
<1> DEFINE at == From + n
<1>8. at \in 1..Len(Answer) /\ at + 1 \in 1..Len(Answer) /\ Answer[at] = Crlf
  <2>1. at \in 1..Len(Answer) /\ at + 1 \in 1..Len(Answer)
    <3>1. got <= Len(Answer) /\ From >= 1 /\ Len(b) >= 1
      BY <1>1, <1>3, <1>6
    <3>2. Len(b) \in Nat /\ Len(Answer) \in Nat
      BY <1>1, <1>3
    <3> QED
      BY <1>7, <3>1, <3>2
  <2>2. CASE n = 0
    <3>1. at = From
      BY <1>7, <2>2
    <3> HIDE DEF at
    <3> QED
      BY <1>6, <2>1, <3>1
  <2>3. CASE n > 0
    <3>1. n \in 1..n /\ n \in 1..Len(readbuf)
      BY <1>1, <1>7, <2>3
    <3>2. readbuf[n] = Crlf /\ readbuf[n] = Answer[at]
      BY <1>4, <1>6, <3>1
    <3> HIDE DEF at
    <3> QED
      BY <2>1, <3>2
  <2> QED
    BY <1>7, <2>1, <2>2, <2>3
<1>9. \A i \in 1..Len(b) : Answer[at + i] = b[i]
  <2> SUFFICES ASSUME NEW i \in 1..Len(b) PROVE Answer[at + i] = b[i]
    OBVIOUS
  <2>1. n + i \in 1..Len(readbuf) /\ From + (n + i) = at + i
    BY <1>3, <1>4, <1>7
  <2> QED
    BY <1>4, <1>6, <2>1
<1>10. Answer[at + 1] = b[1]
  BY <1>3, <1>9
<1>11. at = BodyAt
  <2>1. at <= BodyAt /\ BodyAt = Len(header) + 2 /\ Len(header) \in Nat
    BY <1>1, <1>8, LineEndsBeforeBody, AnswerBytes
  <2>2. ASSUME at = Len(header) + 1 PROVE FALSE
    <3>1. at + 1 = Len(header) + 2
      BY <1>8, <2>1, <2>2
    <3> QED
      BY <1>1, <1>3, <1>10, <3>1, AnswerBytes
  <2>3. ASSUME at <= Len(header) PROVE FALSE
    <3>1. at \in 1..Len(header) /\ header[at] = Crlf
      BY <1>1, <1>8, <2>1, <2>3, AnswerBytes
    <3>2. at < Len(header)
      BY <1>1, <3>1, AnswersAssumption
    <3>3. at \in 1..(Len(header) - 1) /\ at + 1 \in 1..Len(header)
      BY <2>1, <3>1, <3>2
    <3>4. header[at + 1] # b[1]
      BY <1>1, <1>3, <3>1, <3>3, AnswersAssumption
    <3> QED
      BY <1>1, <1>10, <3>3, <3>4, AnswerBytes
  <2> HIDE DEF at
  <2> QED
    BY <1>8, <2>1, <2>2, <2>3
<1>12. Len(body) \in Nat /\ Len(Answer) = BodyAt + Len(body) /\ BodyAt \in Nat
  BY <1>1, AnswerBytes
<1>13. Len(b) <= Len(body) /\ got = BodyAt + Len(b)
  BY <1>1, <1>3, <1>7, <1>11, <1>12
<1>14. \A i \in 1..Len(b) : b[i] = body[i]
  <2> HIDE DEF at
  <2> SUFFICES ASSUME NEW i \in 1..Len(b) PROVE b[i] = body[i]
    OBVIOUS
  <2>1. i \in 1..Len(body)
    BY <1>3, <1>12, <1>13
  <2>2. Answer[BodyAt + i] = body[i]
    BY <1>1, <2>1, AnswerBytes
  <2> QED
    BY <1>9, <1>11, <2>2
<1>15. IsPrefix(b, body)
  <2>1. body \in Seq(Chars)
    BY <1>1, AnswersAssumption
  <2>2. SubSeq(b, 1, Len(b)) = SubSeq(body, 1, Len(b))
    BY <1>3, <1>13, <1>14, <1>12, <2>1
  <2> QED
    BY <1>13, <2>2 DEF IsPrefix
<1>16. b = body
  BY <1>1, <1>3, <1>15, AnswersAssumption
<1> QED
  BY <1>12, <1>13, <1>16 DEF b

\* What main() parses appears once, whole, before isdone: the context thread keeps
\* its side of Transfer for every header, body and cutting of the answer.
THEOREM ReaderKeepsTransfer == Spec => KeepsTransfer
<1>1. Init => T!Init
  <2> SUFFICES ASSUME Init PROVE T!Init
    OBVIOUS
  <2>1. Parsed = NoText
    <3> SUFFICES ASSUME Parsed # NoText PROVE FALSE
      OBVIOUS
    <3>1. got = Len(Answer)
      BY ReadInvInit, ParsedMeansWhole
    <3> QED
      BY <3>1, LengthsAreNumbers DEF Init, Answer
  <2> QED
    BY <2>1 DEF Init, T!Init
<1>2. (Parsed # NoText => Parsed \in Bodies)'
  BY ParsedIsText, PTL
<1>3. (ReadInv /\ Parsed # NoText => got = Len(Answer))'
  BY ParsedMeansWhole, PTL
<1>4. ReadInv /\ ReadInv' /\ [Next]_httpVars => [T!Next]_T!transferVars
  <2> SUFFICES ASSUME ReadInv, ReadInv', [Next]_httpVars PROVE [T!Next]_T!transferVars
    OBVIOUS
  <2>1. CASE Begin
    <3>1. Parsed' = NoText
      <4> SUFFICES ASSUME Parsed' # NoText PROVE FALSE
        OBVIOUS
      <4>1. got' = Len(Answer')
        BY <1>3
      <4> QED
        BY <2>1, <4>1, LengthsAreNumbers DEF Begin, Answer
    <3> QED
      BY <2>1, <3>1 DEF Begin, T!Next, T!Begin
  <2>2. CASE ReadSome
    <3>1. Parsed = NoText
      <4> SUFFICES ASSUME Parsed # NoText PROVE FALSE
        OBVIOUS
      <4>1. got = Len(Answer) /\ header \in Headers /\ body \in Bodies
        BY ParsedMeansWhole DEF ReadInv, HttpTypeOK
      <4>2. Len(Answer) \in Nat /\ BufferSize \in Nat
        BY <4>1, AnswerBytes, AnswersAssumption
      <4> QED
        BY <2>2, <4>1, <4>2 DEF ReadSome
    <3>2. reading /\ reading' = reading /\ isdone' = isdone
      BY <2>2 DEF ReadSome
    <3>3. CASE Parsed' = NoText
      BY <3>1, <3>2, <3>3 DEF T!transferVars
    <3>4. CASE Parsed' # NoText
      BY <1>2, <3>1, <3>2, <3>4 DEF T!Next, T!Arrive
    <3> QED
      BY <3>3, <3>4
  <2>3. CASE Finish
    <3>1. Parsed' = Parsed
      BY <2>3 DEF Finish, Parsed
    <3> QED
      BY <2>3, <3>1 DEF Finish, T!Next, T!End
  <2>4. CASE UNCHANGED httpVars
    <3>1. Parsed' = Parsed
      BY <2>4 DEF httpVars, Parsed
    <3> QED
      BY <2>4, <3>1 DEF httpVars, T!transferVars
  <2> QED
    BY <2>1, <2>2, <2>3, <2>4 DEF Next
<1> QED
  BY <1>1, <1>4, ReadInvHolds, PTL DEF Spec, KeepsTransfer, T!Spec

=============================================================================
