--------------------------- MODULE MCResponseQueue ---------------------------
(* Instances of ResponseQueue for TLC, and its refinement of ResponseChannel. *)
EXTENDS ResponseQueue

\* A response is pending until the call that writes it to the socket.
Channel == INSTANCE ResponseChannel WITH
  Response <- Answer,
  pending <- (IF tmp = Nothing THEN <<>> ELSE <<tmp>>) \o res_root,
  sent <- [i \in 1..Len(outbox) |-> outbox[i].msg],
  cut <- main = "exited"

\* The queue loses, doubles and reorders nothing, and the response thread
\* keeps sending until the connection is closed or the process ends.
ImplementsChannel == Channel!Spec
=============================================================================
