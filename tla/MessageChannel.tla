--------------------------- MODULE MessageChannel ---------------------------
(***************************************************************************)
(* What a connection between a streaming session of the server and the    *)
(* driver of the browser promises: the messages that the server finishes   *)
(* are handed to the driver once each, whole and in the order in which     *)
(* they were finished.                                                     *)
(***************************************************************************)
EXTENDS Naturals, Sequences

CONSTANT Message    \* the messages

VARIABLES sent,     \* the messages finished so far
          received  \* the messages handed over so far

vars == <<sent, received>>

Init == sent = <<>> /\ received = <<>>

Send ==
  /\ Len(sent') = Len(sent) + 1
  /\ SubSeq(sent', 1, Len(sent)) = sent
  /\ sent'[Len(sent')] \in Message
  /\ UNCHANGED received

Receive ==
  /\ Len(received) < Len(sent)
  /\ received' = Append(received, sent[Len(received) + 1])
  /\ UNCHANGED sent

Next == Send \/ Receive

Spec == Init /\ [][Next]_vars
=============================================================================
