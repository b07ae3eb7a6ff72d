------------------------------ MODULE Transfer ------------------------------
(***************************************************************************)
(* What main() and the asio context thread promise each other about one    *)
(* API answer at a time.  main() asks for a read only when the last one is *)
(* over, and finds isdone reset and no text left of an earlier answer; the *)
(* context thread shows a text at most once, completes it before it sets   *)
(* isdone, and then touches nothing until it is asked again.  StatusBot    *)
(* keeps the promise of main(), HttpRead that of the context thread; in    *)
(* TlsStream and Lifecycle the stream of asio and its event loop keep it   *)
(* between the calls of both.                                              *)
(***************************************************************************)
CONSTANTS Texts, NoText

VARIABLES reading, isdone, text

transferVars == <<reading, isdone, text>>

Init == reading = FALSE /\ isdone = FALSE /\ text = NoText

\* main() may reset before it starts the read.
Reset ==
  /\ ~reading
  /\ isdone' = FALSE
  /\ text' = NoText
  /\ UNCHANGED reading

Begin ==
  /\ ~reading
  /\ reading' = TRUE
  /\ isdone' = FALSE
  /\ text' = NoText

Arrive ==
  /\ reading
  /\ text = NoText
  /\ text' \in Texts
  /\ UNCHANGED <<reading, isdone>>

End ==
  /\ reading
  /\ reading' = FALSE
  /\ isdone' = TRUE
  /\ UNCHANGED text

Next == Reset \/ Begin \/ Arrive \/ End

Spec == Init /\ [][Next]_transferVars

=============================================================================
