------------------------------- MODULE MCFrames -------------------------------
(* Frames with small messages: in one frame, in two or three, one of them empty. *)
(* Two of the saves declare what they send, one declares less and one more.      *)
EXTENDS Frames

MCMessage ==
  {[save |-> FALSE, lens |-> <<2>>, chunk |-> 0],
   [save |-> TRUE, lens |-> <<4>>, chunk |-> 2],
   [save |-> TRUE, lens |-> <<2, 0, 8>>, chunk |-> 8],
   [save |-> TRUE, lens |-> <<3, 6>>, chunk |-> 3],
   [save |-> TRUE, lens |-> <<3, 6>>, chunk |-> 9]}

=============================================================================
