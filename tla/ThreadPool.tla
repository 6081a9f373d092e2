----------------------------- MODULE ThreadPool -----------------------------
(***************************************************************************)
(* The worker pool of one connection process (server/Thread.cpp).          *)
(*                                                                         *)
(* Thread::create queues a thread_info node at one of three priorities; a  *)
(* single creator thread (createThreadFromQueue) turns queued nodes into   *)
(* POSIX threads, never more than MaxThread at a time; a thread that ends  *)
(* lists itself for joining (addDelQueue) and the creator joins the listed *)
(* threads (clearThread) when the pool is full.                            *)
(*                                                                         *)
(* Callers of Thread::create are the main thread and running workers (a    *)
(* failed transfer queues itself again).  A step of the model is a stretch *)
(* of code that touches shared state once, or a critical section whose     *)
(* shared accesses are all protected by the lock it holds.                 *)
(***************************************************************************)
EXTENDS Integers, Sequences, FiniteSets

CONSTANTS
  Job,        \* thread_info nodes; each call of Thread::create takes one
  Main,       \* the main thread of the process
  NoThread,   \* "no thread holds the lock"
  PrioArg,    \* values passed as Thread::create's priority argument
  MaxThread,  \* maxThread, from server.maxThreadPerConnection
  Spurious    \* may pthread_cond_wait return without a signal (POSIX: yes)

ASSUME PoolAssumption ==
  /\ IsFiniteSet(Job)
  /\ Main \notin Job
  /\ NoThread \notin Job \cup {Main}
  /\ PrioArg \subseteq 0..255            \* unsigned char
  /\ MaxThread \in Nat \ {0}             \* Thread::init raises it to 1
  /\ Spurious \in BOOLEAN

VARIABLES
  createRoot, \* the three lists of queued nodes, oldest first
  delRoot,    \* ended threads that wait to be joined, latest first
  curThread,  \* threads created and not joined yet, as the code counts them
  priority,   \* the selection counters, static in createThreadFromQueue
  selected,   \* the list the creator takes its next node from
  status,     \* where each node, and then its thread, is
  creating,   \* who is inside Thread::create and holds new_thread_queue_mutex
  pc          \* the creator's program counter

vars == <<createRoot, delRoot, curThread, priority, selected, status,
          creating, pc>>

Level == 0..2
Caller == Job \cup {Main}

Status == {"unused", "queued", "starting", "running", "ending", "listed",
           "exited", "joined"}

PC == {"lockNew", "check", "sleepNew", "waitNew", "wokenNew",
       "lockDel", "admit", "clear", "sleepDel", "waitDel", "wokenDel",
       "drain", "count", "selectHigh", "selectLow", "pop", "spawn"}

\* Types of the variables; curThread, an int in the code, never goes negative.
TypeOK ==
  /\ createRoot \in [Level -> Seq(Job)]
  /\ delRoot \in Seq(Job)
  /\ curThread \in Nat
  /\ priority \in [Level -> Nat]
  /\ selected \in Level
  /\ status \in [Job -> Status]
  /\ creating \in Caller \cup {NoThread}
  /\ pc \in PC

Init ==
  /\ createRoot = [q \in Level |-> <<>>]
  /\ delRoot = <<>>
  /\ curThread = 0
  /\ priority = [q \in Level |-> 0]
  /\ selected = 0
  /\ status = [j \in Job |-> "unused"]
  /\ creating = NoThread
  /\ pc = "lockNew"

Queued(q) == createRoot[q] # <<>>
AnyQueued == \E q \in Level : Queued(q)

\* A mutex that only ever spans steps of the creator is read off its pc.
\* Mutants: signals given without new_thread_mutex, without del_queue_mutex.
NewMutexIgnored == TRUE
DelMutexIgnored == TRUE

NewMutexFree == pc \notin {"check", "sleepNew"}
DelMutexFree == pc \notin {"admit", "clear", "sleepDel", "drain", "count"}
QueueMutexFree == creating = NoThread

-----------------------------------------------------------------------------
(* Thread::create, called by the main thread or by a running worker. *)

LevelOf(p) == IF p >= 3 THEN 2 ELSE p

\* Mutant: the new node becomes the head of its list.
CreateFirst(c, j, p) ==
  /\ c \in Job => status[c] = "running"
  /\ status[j] = "unused"
  /\ QueueMutexFree
  /\ createRoot' = [createRoot EXCEPT ![LevelOf(p)] = <<j>> \o @]
  /\ status' = [status EXCEPT ![j] = "queued"]
  /\ creating' = c
  /\ UNCHANGED <<delRoot, curThread, priority, selected, pc>>

CreateEnqueue(c, j, p) ==
  /\ c \in Job => status[c] = "running"
  /\ status[j] = "unused"
  /\ QueueMutexFree
  /\ createRoot' = [createRoot EXCEPT ![LevelOf(p)] = Append(@, j)]
  /\ status' = [status EXCEPT ![j] = "queued"]
  /\ creating' = c
  /\ UNCHANGED <<delRoot, curThread, priority, selected, pc>>

CreateSignal(c) ==
  /\ creating = c
  /\ NewMutexFree
  /\ creating' = NoThread
  /\ pc' = IF pc = "waitNew" THEN "wokenNew" ELSE pc
  /\ UNCHANGED <<createRoot, delRoot, curThread, priority, selected, status>>

-----------------------------------------------------------------------------
(* createThreadFromQueue: wait until there is something to start. *)

Goto(from, to) == pc = from /\ pc' = to

poolVars == <<createRoot, delRoot, curThread, priority, selected, status,
              creating>>

LockNew == Goto("lockNew", "check") /\ UNCHANGED poolVars

SeeWork == AnyQueued /\ Goto("check", "lockDel") /\ UNCHANGED poolVars

SeeNoWork == ~AnyQueued /\ Goto("check", "sleepNew") /\ UNCHANGED poolVars

SleepNew == Goto("sleepNew", "waitNew") /\ UNCHANGED poolVars

RelockNew == Goto("wokenNew", "check") /\ UNCHANGED poolVars

(* Admission: when the pool is full, clearThread joins what has ended. *)

LockDel == Goto("lockDel", "admit") /\ UNCHANGED poolVars

\* Mutant: off by one.
PoolOverfull == MaxThread < curThread

PoolFull == MaxThread <= curThread

AdmitFull ==
  /\ PoolFull
  /\ Goto("admit", "clear")
  /\ UNCHANGED poolVars

AdmitRoom ==
  /\ ~PoolFull
  /\ Goto("admit", "count")
  /\ UNCHANGED poolVars

ClearNone == delRoot = <<>> /\ Goto("clear", "sleepDel") /\ UNCHANGED poolVars

ClearSome == delRoot # <<>> /\ Goto("clear", "drain") /\ UNCHANGED poolVars

SleepDel == Goto("sleepDel", "waitDel") /\ UNCHANGED poolVars

RelockDel == Goto("wokenDel", "drain") /\ UNCHANGED poolVars

\* pthread_join returns only once the thread has really exited.
JoinOne ==
  /\ pc = "drain"
  /\ delRoot # <<>>
  /\ status[Head(delRoot)] = "exited"
  /\ status' = [status EXCEPT ![Head(delRoot)] = "joined"]
  /\ curThread' = curThread - 1
  /\ delRoot' = Tail(delRoot)
  /\ UNCHANGED <<createRoot, priority, selected, creating, pc>>

DrainDone == delRoot = <<>> /\ Goto("drain", "count") /\ UNCHANGED poolVars

CountThread ==
  /\ Goto("count", "selectHigh")
  /\ curThread' = curThread + 1
  /\ UNCHANGED <<createRoot, delRoot, priority, selected, status, creating>>

-----------------------------------------------------------------------------
(* Choosing a list: priorityFactor is {5, 4, 2}.  The three list heads are *)
(* read without a lock and at different moments, so the two halves of the  *)
(* condition are two steps; the counters are reset inside the condition.   *)

HighIsAhead == priority[0] * 4 > priority[1] * 5
MidIsAhead  == priority[1] * 2 > priority[2] * 4

Select(q) ==
  /\ selected' = q
  /\ pc' = "pop"

TakeHigh ==
  /\ pc = "selectHigh"
  /\ Queued(0)
  /\ ~((Queued(1) \/ Queued(2)) /\ HighIsAhead)
  /\ Select(0)
  /\ priority' = [priority EXCEPT ![0] = @ + 1]
  /\ UNCHANGED <<createRoot, delRoot, curThread, status, creating>>

\* Mutant: line 30 without (createRoot[1] || createRoot[2]).
PassHighAlone ==
  /\ \/ /\ ~Queued(0)
        /\ UNCHANGED priority
     \/ /\ Queued(0)
        /\ HighIsAhead
        /\ priority' = [priority EXCEPT ![0] = 0]
  /\ Goto("selectHigh", "selectLow")
  /\ UNCHANGED <<createRoot, delRoot, curThread, selected, status, creating>>

PassHigh ==
  /\ \/ /\ ~Queued(0)
        /\ UNCHANGED priority
     \/ /\ Queued(0)
        /\ Queued(1) \/ Queued(2)
        /\ HighIsAhead
        /\ priority' = [priority EXCEPT ![0] = 0]
  /\ Goto("selectHigh", "selectLow")
  /\ UNCHANGED <<createRoot, delRoot, curThread, selected, status, creating>>

TakeMid ==
  /\ pc = "selectLow"
  /\ Queued(1)
  /\ ~(Queued(2) /\ MidIsAhead)
  /\ Select(1)
  /\ priority' = [priority EXCEPT ![1] = @ + 1]
  /\ UNCHANGED <<createRoot, delRoot, curThread, status, creating>>

TakeLow ==
  /\ pc = "selectLow"
  /\ \/ /\ ~Queued(1)
        /\ priority' = [priority EXCEPT ![2] = @ + 1]
     \/ /\ Queued(1)
        /\ Queued(2)
        /\ MidIsAhead
        /\ priority' = [priority EXCEPT ![1] = 0, ![2] = @ + 1]
  /\ Select(2)
  /\ UNCHANGED <<createRoot, delRoot, curThread, status, creating>>

\* Line 40 guards the pop: were the list empty, curThread would stay counted.
PopNode ==
  /\ pc = "pop"
  /\ IF Queued(selected)
     THEN /\ QueueMutexFree
          /\ createRoot' = [createRoot EXCEPT ![selected] = Tail(@)]
          /\ status' = [status EXCEPT ![Head(createRoot[selected])] = "starting"]
          /\ pc' = "spawn"
     ELSE pc' = "lockNew" /\ UNCHANGED <<createRoot, status>>
  /\ UNCHANGED <<delRoot, curThread, priority, selected, creating>>

Spawn(j) ==
  /\ status[j] = "starting"
  /\ Goto("spawn", "lockNew")
  /\ status' = [status EXCEPT ![j] = "running"]
  /\ UNCHANGED <<createRoot, delRoot, curThread, priority, selected, creating>>

-----------------------------------------------------------------------------
(* newThreadInit: run the callback, then list the thread for joining. *)

CallbackReturns(j) ==
  /\ status[j] = "running"
  /\ creating # j
  /\ status' = [status EXCEPT ![j] = "ending"]
  /\ UNCHANGED <<createRoot, delRoot, curThread, priority, selected, creating,
                 pc>>

\* Mutants: the thread is counted off twice; the list is overwritten.
AddDelQueueCounts(j) ==
  /\ status[j] = "ending"
  /\ DelMutexFree
  /\ delRoot' = <<j>> \o delRoot
  /\ curThread' = curThread - 1
  /\ status' = [status EXCEPT ![j] = "listed"]
  /\ pc' = IF pc = "waitDel" THEN "wokenDel" ELSE pc
  /\ UNCHANGED <<createRoot, priority, selected, creating>>

AddDelQueueUnlinked(j) ==
  /\ status[j] = "ending"
  /\ DelMutexFree
  /\ delRoot' = <<j>>
  /\ status' = [status EXCEPT ![j] = "listed"]
  /\ pc' = IF pc = "waitDel" THEN "wokenDel" ELSE pc
  /\ UNCHANGED <<createRoot, curThread, priority, selected, creating>>

AddDelQueue(j) ==
  /\ status[j] = "ending"
  /\ DelMutexFree
  /\ delRoot' = <<j>> \o delRoot
  /\ status' = [status EXCEPT ![j] = "listed"]
  /\ pc' = IF pc = "waitDel" THEN "wokenDel" ELSE pc
  /\ UNCHANGED <<createRoot, curThread, priority, selected, creating>>

ThreadExits(j) ==
  /\ status[j] = "listed"
  /\ status' = [status EXCEPT ![j] = "exited"]
  /\ UNCHANGED <<createRoot, delRoot, curThread, priority, selected, creating,
                 pc>>

\* A wakeup without a signal, which POSIX allows for both waits.
SpuriousWakeup ==
  /\ Spurious
  /\ Goto("waitNew", "wokenNew") \/ Goto("waitDel", "wokenDel")
  /\ UNCHANGED poolVars

-----------------------------------------------------------------------------
Creator ==
  \/ LockNew \/ SeeWork \/ SeeNoWork \/ SleepNew \/ RelockNew
  \/ LockDel \/ AdmitFull \/ AdmitRoom \/ ClearNone \/ ClearSome \/ SleepDel
  \/ RelockDel \/ JoinOne \/ DrainDone \/ CountThread
  \/ TakeHigh \/ PassHigh \/ TakeMid \/ TakeLow
  \/ PopNode
  \/ \E j \in Job : Spawn(j)

Submit == \E c \in Caller, j \in Job, p \in PrioArg : CreateEnqueue(c, j, p)

Worker(j) == CallbackReturns(j) \/ AddDelQueue(j) \/ ThreadExits(j)

Next ==
  \/ Submit
  \/ \E c \in Caller : CreateSignal(c)
  \/ Creator
  \/ \E j \in Job : Worker(j)
  \/ SpuriousWakeup

Spec == Init /\ [][Next]_vars

\* Every thread that can run is scheduled again, and callbacks return.  No
\* fairness for Submit: nobody has to queue anything, nor for SpuriousWakeup.
Fairness ==
  /\ \A c \in Caller : WF_vars(CreateSignal(c))
  /\ WF_vars(Creator)
  /\ \A j \in Job : WF_vars(Worker(j))

FairSpec == Spec /\ Fairness

-----------------------------------------------------------------------------
Unjoined == {j \in Job : status[j] \in {"running", "ending", "listed", "exited"}}

\* From line 27 until pthread_create the creator has counted one thread more.
CountedAhead == pc \in {"selectHigh", "selectLow", "pop", "spawn"}

\* curThread is exactly the number of threads that exist and are not joined,
\* plus the one about to be created: no path of createThreadFromQueue counts a
\* thread it does not create, none joins a thread it did not count.
CurThreadExact ==
  curThread = Cardinality(Unjoined) + (IF CountedAhead THEN 1 ELSE 0)

\* Barring spurious wakeups: never more than maxThreadPerConnection threads of the pool at once.
ThreadLimit == Cardinality(Unjoined) <= MaxThread

\* delRoot holds every thread that has announced its end and is not joined,
\* each once: no thread is joined twice and none is forgotten.
JoinListExact ==
  /\ \A j \in Job : status[j] \in {"listed", "exited"}
                      <=> \E i \in 1..Len(delRoot) : delRoot[i] = j
  /\ \A i, k \in 1..Len(delRoot) : delRoot[i] = delRoot[k] => i = k

\* The creator sleeps for work only while no list has any, or while the caller
\* that queued it still has to signal; and it sleeps for a thread to end only
\* while none has ended and one is left that will.
NoLostWakeup ==
  /\ pc = "waitNew" /\ AnyQueued => creating # NoThread
  /\ pc = "waitDel" => delRoot = <<>> /\ Unjoined # {}

\* Every node given to Thread::create gets its thread, whatever its priority.
QueuedRuns == \A j \in Job : status[j] = "queued" ~> status[j] = "running"
=============================================================================
