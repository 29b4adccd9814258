----------------------------- MODULE BinChannel -----------------------------
(* What an arithmetic coder promises to the syntax above it: the reader gets  *)
(* the symbols of the writer, each once, in their order, and only after the   *)
(* writer has closed the sub-stream.                                          *)
EXTENDS Naturals, Sequences

CONSTANT Symbol

VARIABLES sent, closed, received

Init == sent = <<>> /\ closed = FALSE /\ received = <<>>

Send == /\ ~closed
        /\ \E s \in Symbol : sent' = Append(sent, s)
        /\ UNCHANGED <<closed, received>>

\* The last symbol closes the sub-stream.
Close == /\ ~closed
         /\ \E s \in Symbol : sent' = Append(sent, s)
         /\ closed' = TRUE
         /\ UNCHANGED received

Receive == /\ closed
           /\ Len(received) < Len(sent)
           /\ received' = Append(received, sent[Len(received) + 1])
           /\ UNCHANGED <<sent, closed>>

Spec == Init /\ [][Send \/ Close \/ Receive]_<<sent, closed, received>>
=============================================================================
