------------------------------ MODULE TaskPool ------------------------------
(***************************************************************************)
(* What the worker pool promises its callers: tasks wait in three queues,  *)
(* each is started once, in the order of its queue; at most Limit started  *)
(* tasks occupy a slot, and a slot is freed some time after its task's     *)
(* callback has returned.  Which queue is served next is left open.        *)
(***************************************************************************)
EXTENDS Integers, Sequences, FiniteSets

CONSTANTS Task, Outside, Limit

VARIABLES
  pending,  \* tasks that wait, one queue per priority
  active,   \* started tasks whose callback has not returned
  finished, \* callback returned, slot still occupied
  retired   \* slot freed

vars == <<pending, active, finished, retired>>

Init ==
  /\ pending = [q \in 0..2 |-> <<>>]
  /\ active = {}
  /\ finished = {}
  /\ retired = {}

Waiting(q) == {pending[q][i] : i \in 1..Len(pending[q])}

Known == (UNION {Waiting(q) : q \in 0..2}) \cup active \cup finished \cup retired

\* A task is handed in from outside or by the callback of an active task.
Submit(c, t, q) ==
  /\ c = Outside \/ c \in active
  /\ t \notin Known
  /\ pending' = [pending EXCEPT ![q] = Append(@, t)]
  /\ UNCHANGED <<active, finished, retired>>

Start(q) ==
  /\ pending[q] # <<>>
  /\ Cardinality(active \cup finished) < Limit
  /\ active' = active \cup {Head(pending[q])}
  /\ pending' = [pending EXCEPT ![q] = Tail(@)]
  /\ UNCHANGED <<finished, retired>>

Return(t) ==
  /\ t \in active
  /\ active' = active \ {t}
  /\ finished' = finished \cup {t}
  /\ UNCHANGED <<pending, retired>>

FreeSlot(t) ==
  /\ t \in finished
  /\ finished' = finished \ {t}
  /\ retired' = retired \cup {t}
  /\ UNCHANGED <<pending, active>>

Next ==
  \/ \E c \in Task \cup {Outside}, t \in Task, q \in 0..2 : Submit(c, t, q)
  \/ \E q \in 0..2 : Start(q)
  \/ \E t \in Task : Return(t) \/ FreeSlot(t)

\* A waiting task and a free slot always meet; slots are freed only on demand,
\* when the pool is full and something waits.
Fairness ==
  /\ WF_vars(\E q \in 0..2 : Start(q))
  /\ WF_vars((\E q \in 0..2 : pending[q] # <<>>) /\
             Cardinality(active \cup finished) >= Limit /\
             (\E t \in Task : FreeSlot(t)))

Spec == Init /\ [][Next]_vars /\ Fairness
=============================================================================
