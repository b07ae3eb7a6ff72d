---------------------------- MODULE MCTlsStream ----------------------------
(* TlsStream with records of three bytes, two tickets and an answer of      *)
(* three records; input_ holds a record and a third of the next.            *)
EXTENDS TlsStream

MCRecordSize == 3
MCInputSize == 4

=============================================================================
