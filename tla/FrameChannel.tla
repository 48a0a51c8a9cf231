----------------------------- MODULE FrameChannel -----------------------------
(***************************************************************************)
(* What the sealed connection promises in one direction: the frames that   *)
(* were written arrive unchanged and in order, up to some point.           *)
(***************************************************************************)
EXTENDS Integers, Sequences

CONSTANT Sizes  \* lengths of the frames that may be written

VARIABLES
  sent,      \* sent[i]: the length of the i-th frame
  delivered  \* how many of them ReadFrame has returned

vars == <<sent, delivered>>

Init == sent = <<>> /\ delivered = 0

Send ==
  /\ \E n \in Sizes : sent' = Append(sent, n)
  /\ UNCHANGED delivered

Deliver ==
  /\ delivered < Len(sent)
  /\ delivered' = delivered + 1
  /\ UNCHANGED sent

Next == Send \/ Deliver

Spec == Init /\ [][Next]_vars

=============================================================================
