--------------------------- MODULE ResponseChannel ---------------------------
(***************************************************************************)
(* What the response queue of a connection promises: responses leave in    *)
(* the order they were handed in, each once, and none of them is left      *)
(* behind before the connection is closed or its process ends.             *)
(***************************************************************************)
EXTENDS Naturals, Sequences

CONSTANTS
  Response, \* all responses that may be handed in
  Close     \* the one that closes the connection

VARIABLES
  pending, sent,
  cut \* the process has ended

vars == <<pending, sent, cut>>

Init == pending = <<>> /\ sent = <<>> /\ cut = FALSE

Closed == \E i \in 1..Len(sent) : sent[i] = Close

Submit(m) ==
  /\ ~cut
  /\ pending' = Append(pending, m)
  /\ UNCHANGED <<sent, cut>>

Deliver ==
  /\ ~cut
  /\ pending # <<>>
  /\ sent' = Append(sent, Head(pending))
  /\ pending' = Tail(pending)
  /\ UNCHANGED cut

Cut ==
  /\ cut' = TRUE
  /\ UNCHANGED <<pending, sent>>

Next == Deliver \/ Cut \/ \E m \in Response : Submit(m)

\* Once the close is sent, the rest may still be sent or be dropped.
Spec == Init /\ [][Next]_vars /\ WF_vars(Deliver /\ ~Closed)
=============================================================================
