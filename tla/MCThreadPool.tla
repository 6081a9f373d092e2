---------------------------- MODULE MCThreadPool ----------------------------
(* Instances of ThreadPool for TLC, and its refinement of TaskPool. *)
EXTENDS ThreadPool

\* A node is waiting in the abstract queues until the creator pops it; its
\* slot is occupied from then on until pthread_join.
Pool == INSTANCE TaskPool WITH
  Task <- Job,
  Outside <- Main,
  Limit <- MaxThread,
  pending <- createRoot,
  active <- {j \in Job : status[j] \in {"starting", "running"}},
  finished <- {j \in Job : status[j] \in {"ending", "listed", "exited"}},
  retired <- {j \in Job : status[j] = "joined"}

\* Thread.cpp implements the promise of TaskPool, its progress included.
ImplementsTaskPool == Pool!Spec
=============================================================================
