------------------------------ MODULE HttpRead ------------------------------
(***************************************************************************)
(* readnetdata() and resetreadnetdata() of network.cpp: how an HTTP answer *)
(* that arrives in pieces of any size becomes readbuf.  The pieces land at *)
(* the start of tempbuf, which is cleared once per answer and not between  *)
(* pieces, and the end of the header is looked for in all of it, one piece *)
(* at a time.  One answer after the other is read, as main() does guild    *)
(* after guild.                                                            *)
(***************************************************************************)
EXTENDS Integers, Sequences, SequencesExt

CONSTANTS
  Chars,       \* the bytes of an answer, and its line ends as one
  Headers,     \* the HTTP headers, as sequences, up to their last CRLF
  Bodies,      \* the JSON texts, as sequences
  BufferSize,  \* of tempbuf (10000 in the code)
  Crlf,        \* "\r\n", in Chars
  NoText

Separator == <<Crlf, Crlf>>

Zero == ""  \* what resize() fills tempbuf with

\* A header has no blank line and does not end with one half of the separator; a
\* JSON text has no line end, and is not whole if any of it is missing; no line of
\* a header starts as one does.
ASSUME AnswersAssumption ==
  /\ BufferSize \in Nat /\ BufferSize > Len(Separator)
  /\ Crlf \in Chars /\ Crlf # Zero /\ NoText \notin Bodies
  /\ Headers \subseteq Seq(Chars) /\ Bodies \subseteq Seq(Chars)
  /\ \A h \in Headers : \A i \in 1..Len(h) : h[i] = Crlf => i < Len(h) /\ h[i + 1] # Crlf
  /\ \A b \in Bodies : b # <<>> /\ \A i \in 1..Len(b) : b[i] # Crlf
  /\ \A b, c \in Bodies : IsPrefix(b, c) => b = c
  /\ \A h \in Headers, b \in Bodies : \A i \in 1..(Len(h) - 1) :
       h[i] = Crlf => h[i + 1] # b[1]

VARIABLES
  header, body,        \* of the answer under way
  got,                 \* how much of it has been read
  first,               \* history: how much of it the first piece held
  reading,             \* an async_read_some is outstanding
  tempbuf, readbuf, isdone, hasreadhttpheader

answerVars == <<header, body>>

httpVars == <<header, body, got, first, reading, tempbuf, readbuf, isdone,
              hasreadhttpheader>>

\* The header ends with a CRLF of its own; the separator starts with it.
Answer == header \o Separator \o body

Init ==
  /\ header \in Headers /\ body \in Bodies
  /\ got = 0 /\ first = 0
  /\ reading = FALSE
  /\ tempbuf = [i \in 1..BufferSize |-> Zero]
  /\ readbuf = <<>>
  /\ isdone = FALSE
  /\ hasreadhttpheader = FALSE

-----------------------------------------------------------------------------

\* Mutants: resetreadnetdata() leaves a flag as it was, or tempbuf empty.
BeginKeepsHeaderFlag ==
  /\ ~reading
  /\ header' \in Headers /\ body' \in Bodies
  /\ got' = 0 /\ first' = 0 /\ readbuf' = <<>> /\ tempbuf' = [i \in 1..BufferSize |-> Zero]
  /\ isdone' = FALSE /\ reading' = TRUE
  /\ UNCHANGED hasreadhttpheader

BeginKeepsIsdone ==
  /\ ~reading
  /\ header' \in Headers /\ body' \in Bodies
  /\ got' = 0 /\ first' = 0 /\ readbuf' = <<>> /\ tempbuf' = [i \in 1..BufferSize |-> Zero]
  /\ hasreadhttpheader' = FALSE /\ reading' = TRUE
  /\ UNCHANGED isdone

BeginWithoutResize ==
  /\ ~reading
  /\ header' \in Headers /\ body' \in Bodies
  /\ got' = 0 /\ first' = 0 /\ readbuf' = <<>> /\ tempbuf' = <<>>
  /\ isdone' = FALSE /\ hasreadhttpheader' = FALSE /\ reading' = TRUE

\* readbuf.clear(), resetreadnetdata(), readnetdata() on a new connection.
Begin ==
  /\ ~reading
  /\ header' \in Headers /\ body' \in Bodies
  /\ got' = 0 /\ first' = 0
  /\ readbuf' = <<>>
  /\ tempbuf' = [i \in 1..BufferSize |-> Zero]
  /\ isdone' = FALSE
  /\ hasreadhttpheader' = FALSE
  /\ reading' = TRUE

\* Where std::search finds the separator in a buffer; none: {}.
SeparatorsIn(buffer) ==
  {i \in 1..(BufferSize - Len(Separator) + 1) :
     \A k \in 1..Len(Separator) : buffer[i + k - 1] = Separator[k]}

\* The piece as it lies in the buffer.
Overwrite(buffer, piece) ==
  [i \in 1..BufferSize |-> IF i <= Len(piece) THEN piece[i] ELSE buffer[i]]

\* Mutant: everything up to the end of the buffer is taken for the piece.
AppendedToTheEnd(buffer, len) ==
  IF hasreadhttpheader THEN SubSeq(buffer, 1, len)
  ELSE IF SeparatorsIn(buffer) = {} THEN <<>>
  ELSE SubSeq(buffer, Min(SeparatorsIn(buffer)) + Len(Separator), BufferSize)

\* What the handler appends to readbuf of a piece of length len: nothing while
\* the header has not ended, then what follows the first separator in the piece
\* (nothing, when that reaches beyond the piece), later all of it.
Appended(buffer, len) ==
  IF hasreadhttpheader THEN SubSeq(buffer, 1, len)
  ELSE IF SeparatorsIn(buffer) = {} THEN <<>>
  ELSE SubSeq(buffer, Min(SeparatorsIn(buffer)) + Len(Separator), len)

\* The completion handler, without an error.
ReadSome ==
  /\ reading
  /\ \E len \in 1..BufferSize :
       /\ got + len <= Len(Answer)
       /\ tempbuf' = Overwrite(tempbuf, SubSeq(Answer, got + 1, got + len))
       /\ readbuf' = readbuf \o Appended(tempbuf', len)
       /\ hasreadhttpheader' = (hasreadhttpheader \/ SeparatorsIn(tempbuf') # {})
       /\ got' = got + len
       /\ first' = IF got = 0 THEN len ELSE first
  /\ UNCHANGED <<answerVars, reading, isdone>>

\* eof, or stream_truncated at any point of the answer.
Finish ==
  /\ reading
  /\ reading' = FALSE
  /\ isdone' = TRUE
  /\ UNCHANGED <<answerVars, got, first, tempbuf, readbuf, hasreadhttpheader>>

Next == Begin \/ ReadSome \/ Finish

Spec == Init /\ [][Next]_httpVars

-----------------------------------------------------------------------------

\* json::parse(readbuf): white space before the text is skipped.
Parsed ==
  LET texts == {b \in Bodies : \E n \in 0..Len(readbuf) :
                  readbuf = [i \in 1..n |-> Crlf] \o b}
  IN  IF texts = {} THEN NoText ELSE CHOOSE b \in texts : TRUE

\* Every variable has a value of its C++ type.
HttpTypeOK ==
  /\ header \in Headers /\ body \in Bodies
  /\ got \in 0..Len(Answer) /\ first \in 0..got
  /\ reading \in BOOLEAN /\ isdone \in BOOLEAN /\ hasreadhttpheader \in BOOLEAN
  /\ tempbuf \in [1..BufferSize -> Chars \cup {Zero}]
  /\ readbuf \in Seq(Chars)

\* However the answer is cut into pieces: readbuf is the end of what has been
\* received of this answer.  No byte is stale, doubled, reordered or left out
\* after the first, though the separator is also looked for in the stale part
\* of tempbuf and may be found where it never was.
NothingStale ==
  /\ Len(readbuf) <= got
  /\ readbuf = SubSeq(Answer, got - Len(readbuf) + 1, got)

\* The promise of the context thread (Transfer): the text main() parses appears
\* at most once, before isdone, and nothing changes after isdone.
T == INSTANCE Transfer WITH text <- Parsed, Texts <- Bodies

KeepsTransfer == T!Spec

\* "sometimes servers are not ok and end stream after sending everything, we just
\* dont treat it as an error" (network.cpp): an answer that has been sent from its
\* first to its last byte is a text that json::parse accepts.
CompleteMeansParsed == isdone /\ got = Len(Answer) => Parsed = body

BodyAt == Len(header) + Len(Separator)

\* If the first piece holds the header with its separator, readbuf is what has been
\* received of the body, no more and no less, for every answer of every connection.
ExactBody ==
  first >= BodyAt /\ (reading \/ isdone) => readbuf = SubSeq(Answer, BodyAt + 1, got)

=============================================================================
