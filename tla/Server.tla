-------------------------------- MODULE Server --------------------------------
(***************************************************************************)
(* The accept loop of the server process and its SIGCHLD handler           *)
(* (server/Server.cpp).                                                    *)
(*                                                                         *)
(* The loop forks a process for each connection while conn_count, the      *)
(* number of active ones, is below max_conn; the handler reaps processes   *)
(* that have ended and counts them off.  The handler interrupts the loop   *)
(* anywhere, also within conn_count++: the Makefile builds without         *)
(* optimisation, which makes it a load and a store.                        *)
(***************************************************************************)
EXTENDS Integers, FiniteSets

CONSTANTS
  Conn,    \* connections open at the same time; each is used again
  NoConn,  \* the loop waits for a connection
  max_conn \* server.maxActiveClient

ASSUME ServerAssumption ==
  /\ IsFiniteSet(Conn)
  /\ NoConn \notin Conn
  /\ max_conn \in Nat

VARIABLES
  conn_count, \* active connections, as the server counts them
  process,    \* connection -> the state of its process
  connfd,     \* the connection the loop is busy with
  main,       \* where the loop is
  register,   \* conn_count as the increment has loaded it
  sigchld     \* is the signal pending?

serverVars == <<conn_count, process, connfd, main, register, sigchld>>

\* The count is below zero if a process ends before it has been counted.
ServerTypeOK ==
  /\ conn_count \in -1..max_conn
  /\ process \in [Conn -> {"none", "running", "ended"}]
  /\ connfd \in Conn \cup {NoConn}
  /\ main \in {"accept", "fork", "load", "store"}
  /\ register \in -1..max_conn
  /\ sigchld \in BOOLEAN

ServerInit ==
  /\ conn_count = 0
  /\ process = [c \in Conn |-> "none"]
  /\ connfd = NoConn
  /\ main = "accept"
  /\ register = 0
  /\ sigchld = FALSE

In(state) == {c \in Conn : process[c] = state}

-----------------------------------------------------------------------------
\* Mutant: off by one.
RoomForOneMore == max_conn >= conn_count

Room == max_conn > conn_count

\* A client that is rejected may come again: the connection is closed.
Accept(c) ==
  /\ main = "accept"
  /\ process[c] = "none"
  /\ Room
  /\ connfd' = c
  /\ main' = "fork"
  /\ UNCHANGED <<conn_count, process, register, sigchld>>

Fork ==
  /\ main = "fork"
  /\ process' = [process EXCEPT ![connfd] = "running"]
  /\ main' = "load"
  /\ UNCHANGED <<conn_count, connfd, register, sigchld>>

\* fork returns -1: the connection is closed and nothing counted.
ForkFails ==
  /\ main = "fork"
  /\ connfd' = NoConn
  /\ main' = "accept"
  /\ UNCHANGED <<conn_count, process, register, sigchld>>

Load ==
  /\ main = "load"
  /\ register' = conn_count
  /\ main' = "store"
  /\ UNCHANGED <<conn_count, process, connfd, sigchld>>

Store ==
  /\ main = "store"
  /\ conn_count' = register + 1
  /\ connfd' = NoConn
  /\ main' = "accept"
  /\ UNCHANGED <<process, register, sigchld>>

-----------------------------------------------------------------------------
\* The process of a connection ends, on its own or with an error.
End(c) ==
  /\ process[c] = "running"
  /\ process' = [process EXCEPT ![c] = "ended"]
  /\ sigchld' = TRUE
  /\ UNCHANGED <<conn_count, connfd, main, register>>

\* Mutant: the loop also counts the last, failing waitpid.
ClientCloseOneMore ==
  /\ sigchld
  /\ conn_count' = conn_count - Cardinality(In("ended")) - 1
  /\ process' = [c \in Conn |-> IF process[c] = "ended" THEN "none" ELSE process[c]]
  /\ sigchld' = FALSE
  /\ UNCHANGED <<connfd, main, register>>

\* _client_close: signals do not queue, so it reaps all there are.
ClientClose ==
  /\ sigchld
  /\ conn_count' = conn_count - Cardinality(In("ended"))
  /\ process' = [c \in Conn |-> IF process[c] = "ended" THEN "none" ELSE process[c]]
  /\ sigchld' = FALSE
  /\ UNCHANGED <<connfd, main, register>>

-----------------------------------------------------------------------------
ServerNext ==
  \/ \E c \in Conn : Accept(c) \/ End(c)
  \/ Fork \/ ForkFails \/ Load \/ Store
  \/ ClientClose

ServerSpec == ServerInit /\ [][ServerNext]_serverVars

-----------------------------------------------------------------------------
Unreaped == In("running") \cup In("ended")

\* The value conn_count has once the loop is back at accept, if no process ends.
Settled ==
  CASE main = "load" -> conn_count + 1
    [] main = "store" -> register + 1
    [] OTHER -> conn_count

\* An interrupted increment loses the handler's decrements, never its own: the
\* count may stay too high, so that clients are rejected without need, but it
\* is never lower than the number of processes.
CountNeverLow == Cardinality(Unreaped) <= Settled

\* config.json:12: at most maxActiveClient connections are active, wherever the
\* handler interrupts the loop and however many processes end at once.
ActiveLimit == Cardinality(Unreaped) <= max_conn
=============================================================================
