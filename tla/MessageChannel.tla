--------------------------- MODULE MessageChannel ---------------------------
(***************************************************************************)
(* What the users of Ipc rely on: a reliable channel that hands over every *)
(* message that was written, whole, once and in the order of writing.      *)
(***************************************************************************)
EXTENDS Naturals, Sequences

CONSTANT Message  \* the messages, in the order in which they are written

VARIABLES
  sent,  \* how many of them have been written
  got    \* those that have been handed over

channel == <<sent, got>>

Init == sent = 0 /\ got = <<>>

Send == sent < Len(Message) /\ sent' = sent + 1 /\ UNCHANGED got

Receive ==
  /\ Len(got) < sent
  /\ got' = Append(got, Message[Len(got) + 1])
  /\ UNCHANGED sent

Spec == Init /\ [][Send \/ Receive]_channel /\ WF_channel(Receive)

=============================================================================
