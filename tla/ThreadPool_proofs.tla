-------------------------- MODULE ThreadPool_proofs --------------------------
(***************************************************************************)
(* Proofs about ThreadPool, for every set of nodes and every MaxThread.    *)
(*                                                                         *)
(* IInv is the inductive invariant.  What the creator has learnt about the *)
(* lists is lost at each unlock; its first three parts say what survives:  *)
(* only the creator removes nodes from the lists (WorkRemains) and threads *)
(* from delRoot (RoomRemains), so what it saw non-empty stays non-empty.   *)
(* From IInv also follows, step by step, that the pool keeps the promise   *)
(* of TaskPool.                                                            *)
(***************************************************************************)
EXTENDS MCThreadPool, FiniteSetTheorems, SequenceTheorems, TLAPS

\* The queues hold exactly queued nodes, each at one place.
QueueExact ==
  /\ \A q \in Level : \A i \in 1..Len(createRoot[q]) :
       status[createRoot[q][i]] = "queued"
  /\ \A q, r \in Level :
       \A i \in 1..Len(createRoot[q]), k \in 1..Len(createRoot[r]) :
         createRoot[q][i] = createRoot[r][k] => q = r /\ i = k

\* The creator starts one thread at a time.
OneStarting ==
  /\ \A j \in Job : status[j] = "starting" => pc = "spawn"
  /\ \A j, k \in Job :
       status[j] = "starting" /\ status[k] = "starting" => j = k

WorkRemains ==
  /\ pc \in {"lockDel", "admit", "clear", "sleepDel", "waitDel", "wokenDel",
             "drain", "count", "selectHigh"} => AnyQueued
  /\ pc = "selectLow" => Queued(1) \/ Queued(2)
  /\ pc = "pop" => Queued(selected)

RoomRemains ==
  ~Spurious =>
    /\ curThread <= MaxThread
    /\ pc = "count" => curThread < MaxThread
    /\ pc = "drain" => delRoot # <<>> \/ curThread < MaxThread
    /\ pc = "wokenDel" => delRoot # <<>>

SleepJustified ==
  /\ pc \in {"sleepNew", "waitNew"} /\ AnyQueued => creating # NoThread
  /\ pc \in {"sleepDel", "waitDel"} => delRoot = <<>>
  /\ pc \in {"clear", "sleepDel", "waitDel"} => MaxThread <= curThread

IInv ==
  /\ TypeOK
  /\ CurThreadExact
  /\ JoinListExact
  /\ QueueExact
  /\ OneStarting
  /\ WorkRemains
  /\ RoomRemains
  /\ SleepJustified

-----------------------------------------------------------------------------
(* Counting threads. *)

LEMMA FiniteJobs ==
  ASSUME NEW S \in SUBSET Job
  PROVE  IsFiniteSet(S) /\ Cardinality(S) \in Nat
BY PoolAssumption, FS_Subset, FS_CardinalityType

LEMMA AddJob ==
  ASSUME NEW S \in SUBSET Job, NEW j \in Job \ S
  PROVE  Cardinality(S \cup {j}) = Cardinality(S) + 1
BY FiniteJobs, FS_AddElement

LEMMA DropJob ==
  ASSUME NEW S \in SUBSET Job, NEW j \in S
  PROVE  /\ Cardinality(S \ {j}) = Cardinality(S) - 1
         /\ Cardinality(S) > 0
<1>1. IsFiniteSet(S) /\ Cardinality(S) \in Nat
  BY FiniteJobs
<1>2. IsFiniteSet(S \ {j}) /\ Cardinality(S \ {j}) \in Nat
  BY FiniteJobs
<1>3. Cardinality(S \ {j}) = Cardinality(S) - 1
  BY <1>1, FS_RemoveElement
<1> QED BY <1>1, <1>2, <1>3

-----------------------------------------------------------------------------
(* IInv holds initially and every step preserves it. *)

LEMMA InitInv == Init => IInv
<1> SUFFICES ASSUME Init PROVE IInv
  OBVIOUS
<1> USE DEF Init
<1>1. TypeOK
  BY DEF TypeOK, Status, PC, Level
<1>2. Unjoined = {}
  BY DEF Unjoined
<1>3. CurThreadExact
  BY <1>2, FS_EmptySet DEF CurThreadExact, CountedAhead
<1>4. JoinListExact /\ QueueExact /\ OneStarting
  BY DEF JoinListExact, QueueExact, OneStarting, Level
<1>5. WorkRemains /\ RoomRemains /\ SleepJustified
  BY PoolAssumption DEF WorkRemains, RoomRemains, SleepJustified
<1> QED BY <1>1, <1>3, <1>4, <1>5 DEF IInv

\* Steps of the creator that read shared state and move on.
LocalStep ==
  \/ LockNew \/ SeeWork \/ SeeNoWork \/ SleepNew \/ RelockNew
  \/ LockDel \/ AdmitFull \/ AdmitRoom \/ ClearNone \/ ClearSome \/ SleepDel
  \/ RelockDel \/ DrainDone \/ SpuriousWakeup

LEMMA LocalStepInv ==
  ASSUME IInv, LocalStep
  PROVE  IInv'
<1> USE DEF LocalStep, LockNew, SeeWork, SeeNoWork, SleepNew, RelockNew,
            LockDel, AdmitFull, AdmitRoom, ClearNone, ClearSome, SleepDel,
            RelockDel, DrainDone, SpuriousWakeup, Goto
<1>1. UNCHANGED poolVars
  OBVIOUS
<1>2. TypeOK'
  BY <1>1 DEF IInv, TypeOK, PC, poolVars
<1>3. CurThreadExact'
  <2>1. Unjoined' = Unjoined
    BY <1>1 DEF Unjoined, poolVars
  <2>2. CountedAhead' <=> CountedAhead
    BY DEF CountedAhead
  <2> QED BY <1>1, <2>1, <2>2 DEF IInv, CurThreadExact, poolVars
<1>4. JoinListExact' /\ QueueExact'
  BY <1>1 DEF IInv, JoinListExact, QueueExact, poolVars
<1>5. OneStarting'
  BY <1>1 DEF IInv, OneStarting, poolVars
<1>6. WorkRemains'
  BY <1>1 DEF IInv, WorkRemains, AnyQueued, Queued, poolVars
<1>7. RoomRemains'
  BY <1>1, PoolAssumption DEF IInv, TypeOK, RoomRemains, PoolFull, poolVars
<1>8. SleepJustified'
  BY <1>1 DEF IInv, SleepJustified, AnyQueued, Queued, PoolFull, poolVars
<1> QED BY <1>2, <1>3, <1>4, <1>5, <1>6, <1>7, <1>8 DEF IInv

\* Thread::create: only the lists, the new node's status and creating change.
LEMMA CreateEnqueueInv ==
  ASSUME IInv, NEW c \in Caller, NEW j \in Job, NEW p \in PrioArg,
         CreateEnqueue(c, j, p)
  PROVE  IInv'
<1> DEFINE q == LevelOf(p)
<1> USE DEF CreateEnqueue
<1>0. /\ q \in Level
      /\ createRoot' = [createRoot EXCEPT ![q] = Append(@, j)]
      /\ status' = [status EXCEPT ![j] = "queued"]
      /\ createRoot \in [Level -> Seq(Job)]
      /\ status \in [Job -> Status]
      /\ delRoot \in Seq(Job)
  BY PoolAssumption DEF LevelOf, Level, IInv, TypeOK
<1> HIDE DEF q
<1>1. TypeOK'
  BY <1>0 DEF IInv, TypeOK, Status
<1>2. CurThreadExact'
  <2>1. Unjoined' = Unjoined
    BY <1>0 DEF Unjoined
  <2>2. CountedAhead' <=> CountedAhead
    BY DEF CountedAhead
  <2> QED BY <2>1, <2>2 DEF IInv, CurThreadExact
<1>3. JoinListExact'
  BY <1>0 DEF IInv, JoinListExact
<1>4. QueueExact'
  <2>1. \A r \in Level : \A i \in 1..Len(createRoot[r]) : createRoot[r][i] # j
    BY DEF IInv, QueueExact
  <2>2. \A r \in Level : r # q => createRoot'[r] = createRoot[r]
    BY <1>0
  <2>3. /\ Len(createRoot'[q]) = Len(createRoot[q]) + 1
        /\ \A i \in 1..Len(createRoot[q]) : createRoot'[q][i] = createRoot[q][i]
        /\ createRoot'[q][Len(createRoot[q]) + 1] = j
        /\ Len(createRoot[q]) \in Nat
    BY <1>0
  <2>4. \A r \in Level : \A i \in 1..Len(createRoot'[r]) :
          \/ /\ i \in 1..Len(createRoot[r])
             /\ createRoot'[r][i] = createRoot[r][i]
          \/ r = q /\ i = Len(createRoot[q]) + 1 /\ createRoot'[r][i] = j
    BY <1>0, <2>2, <2>3
  <2>5. ASSUME NEW r \in Level, NEW i \in 1..Len(createRoot'[r])
        PROVE  status'[createRoot'[r][i]] = "queued"
    <3>1. createRoot[r] \in Seq(Job)
      BY <1>0
    <3>2. i \in 1..Len(createRoot[r]) => createRoot[r][i] \in Job
      BY <3>1
    <3> QED BY <1>0, <2>1, <2>4, <3>2 DEF IInv, QueueExact
  <2>6. ASSUME NEW r \in Level, NEW t \in Level,
               NEW i \in 1..Len(createRoot'[r]), NEW k \in 1..Len(createRoot'[t]),
               createRoot'[r][i] = createRoot'[t][k]
        PROVE  r = t /\ i = k
    BY <2>1, <2>4, <2>6 DEF IInv, QueueExact
  <2> QED BY <2>5, <2>6 DEF QueueExact
<1>5. OneStarting'
  BY <1>0 DEF IInv, OneStarting
<1>6. \A r \in Level : Queued(r) => Queued(r)'
  <2> SUFFICES ASSUME NEW r \in Level, Queued(r)
               PROVE  createRoot'[r] # <<>>
    BY DEF Queued
  <2>1. CASE r = q
    <3>1. createRoot[q] \in Seq(Job) /\ createRoot'[q] = Append(createRoot[q], j)
      BY <1>0
    <3>2. createRoot'[q] # <<>>
      BY <3>1, AppendProperties
    <3> QED BY <2>1, <3>2
  <2>2. CASE r # q
    BY <1>0, <2>2 DEF Queued
  <2> QED BY <2>1, <2>2
<1>7. WorkRemains'
  BY <1>6 DEF IInv, TypeOK, WorkRemains, AnyQueued, Level
<1>8. RoomRemains'
  BY DEF IInv, RoomRemains
<1>9. SleepJustified'
  <2>1. creating' # NoThread
    BY PoolAssumption DEF Caller
  <2> QED BY <2>1 DEF IInv, SleepJustified
<1> QED BY <1>1, <1>2, <1>3, <1>4, <1>5, <1>7, <1>8, <1>9 DEF IInv

LEMMA CreateSignalInv ==
  ASSUME IInv, NEW c \in Caller, CreateSignal(c)
  PROVE  IInv'
<1> USE DEF CreateSignal
<1>1. TypeOK'
  BY DEF IInv, TypeOK, PC
<1>2. CurThreadExact'
  <2>1. Unjoined' = Unjoined
    BY DEF Unjoined
  <2>2. CountedAhead' <=> CountedAhead
    BY DEF CountedAhead
  <2> QED BY <2>1, <2>2 DEF IInv, CurThreadExact
<1>3. JoinListExact' /\ QueueExact'
  BY DEF IInv, JoinListExact, QueueExact
<1>4. OneStarting' /\ RoomRemains'
  BY DEF IInv, OneStarting, RoomRemains
<1>5. WorkRemains'
  BY DEF IInv, WorkRemains, AnyQueued, Queued
<1>6. SleepJustified'
  BY DEF IInv, SleepJustified, AnyQueued, Queued, NewMutexFree
<1> QED BY <1>1, <1>2, <1>3, <1>4, <1>5, <1>6 DEF IInv

\* clearThread joins one thread: it was counted, so curThread stays a Nat.
LEMMA JoinOneInv ==
  ASSUME IInv, JoinOne
  PROVE  IInv'
<1> DEFINE j == Head(delRoot)
<1> USE DEF JoinOne
<1>0. /\ j \in Job
      /\ status[j] = "exited"
      /\ status' = [status EXCEPT ![j] = "joined"]
      /\ status \in [Job -> Status]
      /\ delRoot \in Seq(Job) /\ delRoot # <<>>
      /\ delRoot[1] = j
      /\ Len(delRoot) \in Nat \ {0}
      /\ Len(delRoot') = Len(delRoot) - 1
      /\ \A i \in 1..Len(delRoot') : delRoot'[i] = delRoot[i + 1]
      /\ delRoot' \in Seq(Job)
  BY DEF IInv, TypeOK
<1> HIDE DEF j
<1>1. Unjoined' = Unjoined \ {j} /\ j \in Unjoined
  BY <1>0 DEF Unjoined
<1>2. /\ Cardinality(Unjoined') = Cardinality(Unjoined) - 1
      /\ Cardinality(Unjoined) > 0
      /\ Cardinality(Unjoined) \in Nat
  <2>1. Unjoined \in SUBSET Job
    BY DEF Unjoined
  <2> QED BY <1>1, <2>1, DropJob, FiniteJobs
<1>3. CurThreadExact' /\ curThread' \in Nat
  <2>1. ~CountedAhead /\ ~CountedAhead'
    BY DEF CountedAhead
  <2> QED BY <1>2, <2>1 DEF IInv, CurThreadExact
<1>4. TypeOK'
  BY <1>0, <1>3 DEF IInv, TypeOK, Status
<1>5. JoinListExact'
  <2>1. ASSUME NEW i \in 1..Len(delRoot'), NEW k \in 1..Len(delRoot'),
               delRoot'[i] = delRoot'[k]
        PROVE  i = k
    BY <1>0, <2>1 DEF IInv, JoinListExact
  <2>2. ASSUME NEW k \in Job, status'[k] \in {"listed", "exited"}
        PROVE  \E i \in 1..Len(delRoot') : delRoot'[i] = k
    <3>1. k # j /\ status[k] \in {"listed", "exited"}
      BY <1>0, <2>2
    <3>2. PICK i \in 1..Len(delRoot) : delRoot[i] = k
      BY <3>1 DEF IInv, JoinListExact
    <3>3. i # 1
      BY <1>0, <3>1, <3>2
    <3>4. i - 1 \in 1..Len(delRoot') /\ delRoot'[i - 1] = k
      BY <1>0, <3>2, <3>3
    <3> QED BY <3>4
  <2>3. ASSUME NEW k \in Job, NEW i \in 1..Len(delRoot'), delRoot'[i] = k
        PROVE  status'[k] \in {"listed", "exited"}
    <3>1. i + 1 \in 1..Len(delRoot) /\ delRoot[i + 1] = k /\ i + 1 # 1
      BY <1>0, <2>3
    <3>2. k # j
      BY <1>0, <3>1 DEF IInv, JoinListExact
    <3> QED BY <1>0, <3>1, <3>2 DEF IInv, JoinListExact
  <2> QED BY <2>1, <2>2, <2>3 DEF JoinListExact
<1>6. QueueExact'
  <2>1. \A q \in Level : \A i \in 1..Len(createRoot[q]) : createRoot[q][i] \in Job
    BY DEF IInv, TypeOK
  <2> QED BY <1>0, <2>1 DEF IInv, QueueExact
<1>7. OneStarting'
  BY <1>0 DEF IInv, OneStarting
<1>8. WorkRemains' /\ SleepJustified'
  BY DEF IInv, WorkRemains, SleepJustified, AnyQueued, Queued
<1>9. RoomRemains'
  BY PoolAssumption DEF IInv, TypeOK, RoomRemains
<1> QED BY <1>3, <1>4, <1>5, <1>6, <1>7, <1>8, <1>9 DEF IInv

LEMMA CountThreadInv ==
  ASSUME IInv, CountThread
  PROVE  IInv'
<1> USE DEF CountThread, Goto
<1>1. TypeOK'
  BY DEF IInv, TypeOK, PC
<1>2. CurThreadExact'
  <2>1. Unjoined' = Unjoined
    BY DEF Unjoined
  <2>2. ~CountedAhead /\ CountedAhead'
    BY DEF CountedAhead
  <2>3. Cardinality(Unjoined) \in Nat
    BY FiniteJobs DEF Unjoined
  <2> QED BY <2>1, <2>2, <2>3 DEF IInv, CurThreadExact
<1>3. JoinListExact' /\ QueueExact'
  BY DEF IInv, JoinListExact, QueueExact
<1>4. OneStarting'
  BY DEF IInv, OneStarting
<1>5. WorkRemains'
  BY DEF IInv, WorkRemains, AnyQueued, Queued
<1>6. RoomRemains'
  BY PoolAssumption DEF IInv, TypeOK, RoomRemains
<1>7. SleepJustified'
  BY DEF IInv, SleepJustified, AnyQueued, Queued
<1> QED BY <1>1, <1>2, <1>3, <1>4, <1>5, <1>6, <1>7 DEF IInv

\* The choice of a list: what line 30 saw non-empty cannot empty meanwhile.
Choose == TakeHigh \/ PassHigh \/ TakeMid \/ TakeLow

LEMMA ChooseInv ==
  ASSUME IInv, Choose
  PROVE  IInv'
<1> USE DEF Choose, TakeHigh, PassHigh, TakeMid, TakeLow, Select, Goto
<1>0. UNCHANGED <<createRoot, delRoot, curThread, status, creating>>
  OBVIOUS
<1>1. TypeOK'
  <2>1. priority' \in [Level -> Nat]
    BY DEF IInv, TypeOK, Level
  <2>2. selected' \in Level /\ pc' \in PC
    BY DEF IInv, TypeOK, Level, PC
  <2> QED BY <1>0, <2>1, <2>2 DEF IInv, TypeOK
<1>2. CurThreadExact'
  <2>1. Unjoined' = Unjoined
    BY <1>0 DEF Unjoined
  <2>2. CountedAhead /\ CountedAhead'
    BY DEF CountedAhead
  <2> QED BY <1>0, <2>1, <2>2 DEF IInv, CurThreadExact
<1>3. JoinListExact' /\ QueueExact'
  BY <1>0 DEF IInv, JoinListExact, QueueExact
<1>4. OneStarting'
  BY <1>0 DEF IInv, OneStarting
<1>5. WorkRemains'
  <2>1. CASE TakeHigh
    BY <2>1 DEF WorkRemains, Queued
  <2>2. CASE PassHigh
    <3>1. Queued(1) \/ Queued(2)
      BY <2>2 DEF IInv, WorkRemains, AnyQueued, Level
    <3> QED BY <2>2, <3>1 DEF WorkRemains, Queued
  <2>3. CASE TakeMid
    BY <2>3 DEF WorkRemains, Queued
  <2>4. CASE TakeLow
    <3>1. Queued(2)
      BY <2>4 DEF IInv, WorkRemains
    <3> QED BY <2>4, <3>1 DEF WorkRemains, Queued
  <2> QED BY <2>1, <2>2, <2>3, <2>4
<1>6. RoomRemains'
  BY <1>0 DEF IInv, RoomRemains
<1>7. SleepJustified'
  BY <1>0 DEF IInv, SleepJustified, AnyQueued, Queued
<1> QED BY <1>1, <1>2, <1>3, <1>4, <1>5, <1>6, <1>7 DEF IInv

\* The node popped is the only one starting, and its list was not empty: the
\* creator never loses the thread it has counted.
LEMMA PopNodeInv ==
  ASSUME IInv, PopNode
  PROVE  IInv'
<1> DEFINE j == Head(createRoot[selected])
<1> USE DEF PopNode
<1>0. /\ pc = "pop" /\ pc' = "spawn"
      /\ Queued(selected)
      /\ selected \in Level
      /\ createRoot' = [createRoot EXCEPT ![selected] = Tail(@)]
      /\ status' = [status EXCEPT ![j] = "starting"]
      /\ createRoot \in [Level -> Seq(Job)]
      /\ status \in [Job -> Status]
  BY DEF IInv, TypeOK, WorkRemains
<1>1. /\ createRoot[selected] \in Seq(Job)
      /\ createRoot[selected] # <<>>
      /\ createRoot'[selected] = Tail(createRoot[selected])
      /\ \A r \in Level : r # selected => createRoot'[r] = createRoot[r]
  BY <1>0 DEF Queued
<1>2. /\ j \in Job
      /\ Len(createRoot[selected]) \in Nat \ {0}
      /\ createRoot[selected][1] = j
      /\ createRoot'[selected] \in Seq(Job)
      /\ Len(createRoot'[selected]) = Len(createRoot[selected]) - 1
      /\ \A i \in 1..Len(createRoot'[selected]) :
           createRoot'[selected][i] = createRoot[selected][i + 1]
  BY <1>1
<1>3. status[j] = "queued"
  BY <1>0, <1>2 DEF IInv, QueueExact
<1> HIDE DEF j
<1>4. TypeOK'
  <2>1. createRoot' \in [Level -> Seq(Job)]
    BY <1>0, <1>2
  <2>2. status' \in [Job -> Status]
    BY <1>0 DEF Status
  <2> QED BY <1>0, <2>1, <2>2 DEF IInv, TypeOK, PC
<1>5. CurThreadExact'
  <2>1. Unjoined' = Unjoined
    BY <1>0, <1>2, <1>3 DEF Unjoined
  <2>2. CountedAhead /\ CountedAhead'
    BY <1>0 DEF CountedAhead
  <2> QED BY <2>1, <2>2 DEF IInv, CurThreadExact
<1>6. JoinListExact'
  BY <1>0, <1>2, <1>3 DEF IInv, JoinListExact
<1>7. QueueExact'
  <2>1. ASSUME NEW r \in Level, NEW i \in 1..Len(createRoot'[r])
        PROVE  \E k \in 1..Len(createRoot[r]) :
                 /\ createRoot'[r][i] = createRoot[r][k]
                 /\ k = IF r = selected THEN i + 1 ELSE i
    <3>1. CASE r = selected
      BY <1>2, <2>1, <3>1
    <3>2. CASE r # selected
      BY <1>1, <2>1, <3>2
    <3> QED BY <3>1, <3>2
  <2>2. ASSUME NEW r \in Level, NEW i \in 1..Len(createRoot'[r])
        PROVE  status'[createRoot'[r][i]] = "queued"
    <3>1. PICK k \in 1..Len(createRoot[r]) :
                 /\ createRoot'[r][i] = createRoot[r][k]
                 /\ k = IF r = selected THEN i + 1 ELSE i
      BY <2>1
    <3>2. createRoot[r][k] \in Job /\ status[createRoot[r][k]] = "queued"
      BY <1>0 DEF IInv, QueueExact
    <3>3. createRoot[r][k] # j
      <4>1. CASE r = selected
        <5>1. k # 1
          BY <3>1, <4>1
        <5>2. 1 \in 1..Len(createRoot[selected])
          BY <1>2
        <5> QED BY <1>0, <1>2, <4>1, <5>1, <5>2 DEF IInv, QueueExact
      <4>2. CASE r # selected
        <5>1. 1 \in 1..Len(createRoot[selected])
          BY <1>2
        <5> QED BY <1>0, <1>2, <4>2, <5>1 DEF IInv, QueueExact
      <4> QED BY <4>1, <4>2
    <3> QED BY <1>0, <3>1, <3>2, <3>3
  <2>3. ASSUME NEW r \in Level, NEW t \in Level,
               NEW i \in 1..Len(createRoot'[r]), NEW k \in 1..Len(createRoot'[t]),
               createRoot'[r][i] = createRoot'[t][k]
        PROVE  r = t /\ i = k
    <3>1. PICK a \in 1..Len(createRoot[r]) :
                 /\ createRoot'[r][i] = createRoot[r][a]
                 /\ a = IF r = selected THEN i + 1 ELSE i
      BY <2>1
    <3>2. PICK b \in 1..Len(createRoot[t]) :
                 /\ createRoot'[t][k] = createRoot[t][b]
                 /\ b = IF t = selected THEN k + 1 ELSE k
      BY <2>1
    <3>3. r = t /\ a = b
      <4>1. createRoot[r][a] = createRoot[t][b]
        BY <2>3, <3>1, <3>2
      <4>2. \A q1, q2 \in Level :
              \A m \in 1..Len(createRoot[q1]), n \in 1..Len(createRoot[q2]) :
                createRoot[q1][m] = createRoot[q2][n] => q1 = q2 /\ m = n
        BY DEF IInv, QueueExact
      <4> QED BY <4>1, <4>2, Zenon
    <3>4. i \in Int /\ k \in Int
      OBVIOUS
    <3> QED BY <3>1, <3>2, <3>3, <3>4
  <2> QED BY <2>2, <2>3 DEF QueueExact
<1>8. OneStarting'
  <2>1. \A k \in Job : status[k] # "starting"
    BY <1>0 DEF IInv, OneStarting
  <2> QED BY <1>0, <1>2, <2>1 DEF OneStarting
<1>9. WorkRemains' /\ RoomRemains' /\ SleepJustified'
  BY <1>0 DEF IInv, WorkRemains, RoomRemains, SleepJustified
<1> QED BY <1>4, <1>5, <1>6, <1>7, <1>8, <1>9 DEF IInv

LEMMA SpawnInv ==
  ASSUME IInv, NEW j \in Job, Spawn(j)
  PROVE  IInv'
<1> USE DEF Spawn, Goto
<1>0. /\ status \in [Job -> Status] /\ delRoot \in Seq(Job)
      /\ \A q \in Level : \A i \in 1..Len(createRoot[q]) : createRoot[q][i] \in Job
  BY DEF IInv, TypeOK
<1>1. TypeOK'
  BY DEF IInv, TypeOK, Status, PC
<1>2. CurThreadExact'
  <2>1. Unjoined' = Unjoined \cup {j} /\ j \notin Unjoined
    BY <1>0 DEF Unjoined
  <2>2. Unjoined \in SUBSET Job
    BY DEF Unjoined
  <2>3. /\ Cardinality(Unjoined') = Cardinality(Unjoined) + 1
        /\ Cardinality(Unjoined) \in Nat
    BY <2>1, <2>2, AddJob, FiniteJobs
  <2>4. CountedAhead /\ ~CountedAhead'
    BY DEF CountedAhead
  <2> QED BY <2>3, <2>4 DEF IInv, CurThreadExact
<1>3. JoinListExact'
  BY <1>0 DEF IInv, JoinListExact
<1>4. QueueExact'
  BY <1>0 DEF IInv, QueueExact
<1>5. OneStarting'
  BY <1>0 DEF IInv, OneStarting
<1>6. WorkRemains' /\ RoomRemains' /\ SleepJustified'
  BY DEF IInv, WorkRemains, RoomRemains, SleepJustified
<1> QED BY <1>1, <1>2, <1>3, <1>4, <1>5, <1>6 DEF IInv

-----------------------------------------------------------------------------
(* The threads of the pool: newThreadInit. *)

LEMMA CallbackReturnsInv ==
  ASSUME IInv, NEW j \in Job, CallbackReturns(j)
  PROVE  IInv'
<1> USE DEF CallbackReturns
<1>0. /\ status \in [Job -> Status] /\ delRoot \in Seq(Job)
      /\ \A q \in Level : \A i \in 1..Len(createRoot[q]) : createRoot[q][i] \in Job
  BY DEF IInv, TypeOK
<1>1. TypeOK'
  BY DEF IInv, TypeOK, Status
<1>2. CurThreadExact'
  <2>1. Unjoined' = Unjoined
    BY <1>0 DEF Unjoined
  <2>2. CountedAhead' <=> CountedAhead
    BY DEF CountedAhead
  <2> QED BY <2>1, <2>2 DEF IInv, CurThreadExact
<1>3. JoinListExact'
  BY <1>0 DEF IInv, JoinListExact
<1>4. QueueExact'
  BY <1>0 DEF IInv, QueueExact
<1>5. OneStarting'
  BY <1>0 DEF IInv, OneStarting
<1>6. WorkRemains' /\ RoomRemains' /\ SleepJustified'
  BY DEF IInv, WorkRemains, RoomRemains, SleepJustified, AnyQueued, Queued
<1> QED BY <1>1, <1>2, <1>3, <1>4, <1>5, <1>6 DEF IInv

\* The thread lists itself in front of those that ended before it.
LEMMA AddDelQueueInv ==
  ASSUME IInv, NEW j \in Job, AddDelQueue(j)
  PROVE  IInv'
<1> USE DEF AddDelQueue
<1>0. /\ status \in [Job -> Status] /\ delRoot \in Seq(Job)
      /\ \A q \in Level : \A i \in 1..Len(createRoot[q]) : createRoot[q][i] \in Job
      /\ Len(delRoot) \in Nat
  BY DEF IInv, TypeOK
<1>1. /\ delRoot' \in Seq(Job)
      /\ Len(delRoot') = Len(delRoot) + 1
      /\ delRoot'[1] = j
      /\ \A i \in 1..Len(delRoot) : delRoot'[i + 1] = delRoot[i]
  BY <1>0, ConcatProperties
<1>2. TypeOK'
  BY <1>1 DEF IInv, TypeOK, Status, PC
<1>3. CurThreadExact'
  <2>1. Unjoined' = Unjoined
    BY <1>0 DEF Unjoined
  <2>2. CountedAhead' <=> CountedAhead
    BY DEF CountedAhead
  <2> QED BY <2>1, <2>2 DEF IInv, CurThreadExact
<1>4. JoinListExact'
  <2>1. \A i \in 1..Len(delRoot) : delRoot[i] # j
    BY <1>0 DEF IInv, JoinListExact
  <2>2. \A i \in 1..Len(delRoot') :
          \/ i = 1
          \/ i - 1 \in 1..Len(delRoot) /\ delRoot'[i] = delRoot[i - 1]
    <3> SUFFICES ASSUME NEW i \in 1..Len(delRoot'), i # 1
                 PROVE  i - 1 \in 1..Len(delRoot) /\ delRoot'[i] = delRoot[i - 1]
      OBVIOUS
    <3>1. i - 1 \in 1..Len(delRoot) /\ (i - 1) + 1 = i
      BY <1>0, <1>1
    <3> QED BY <1>1, <3>1
  <2>3. ASSUME NEW i \in 1..Len(delRoot'), NEW k \in 1..Len(delRoot'),
               delRoot'[i] = delRoot'[k]
        PROVE  i = k
    BY <1>0, <1>1, <2>1, <2>2, <2>3 DEF IInv, JoinListExact
  <2>4. ASSUME NEW k \in Job, status'[k] \in {"listed", "exited"}
        PROVE  \E i \in 1..Len(delRoot') : delRoot'[i] = k
    <3>1. CASE k = j
      <4>1. 1 \in 1..Len(delRoot')
        BY <1>0, <1>1
      <4> QED BY <1>1, <3>1, <4>1
    <3>2. CASE k # j
      <4>1. PICK i \in 1..Len(delRoot) : delRoot[i] = k
        BY <1>0, <2>4, <3>2 DEF IInv, JoinListExact
      <4>2. i + 1 \in 1..Len(delRoot') /\ delRoot'[i + 1] = k
        BY <1>0, <1>1, <4>1
      <4> QED BY <4>2
    <3> QED BY <3>1, <3>2
  <2>5. ASSUME NEW k \in Job, NEW i \in 1..Len(delRoot'), delRoot'[i] = k
        PROVE  status'[k] \in {"listed", "exited"}
    <3>1. CASE i = 1
      BY <1>0, <1>1, <2>5, <3>1
    <3>2. CASE i # 1
      <4>1. i - 1 \in 1..Len(delRoot) /\ delRoot[i - 1] = k
        BY <2>2, <2>5, <3>2
      <4> QED BY <1>0, <2>1, <4>1 DEF IInv, JoinListExact
    <3> QED BY <3>1, <3>2
  <2> QED BY <2>3, <2>4, <2>5 DEF JoinListExact
<1>5. QueueExact'
  BY <1>0 DEF IInv, QueueExact
<1>6. OneStarting'
  BY <1>0 DEF IInv, OneStarting
<1>7. WorkRemains'
  BY DEF IInv, WorkRemains, AnyQueued, Queued
<1>8. delRoot' # <<>>
  BY <1>0, <1>1
<1>9. RoomRemains' /\ SleepJustified'
  BY <1>8 DEF IInv, RoomRemains, SleepJustified, AnyQueued, Queued, DelMutexFree
<1> QED BY <1>2, <1>3, <1>4, <1>5, <1>6, <1>7, <1>9 DEF IInv

LEMMA ThreadExitsInv ==
  ASSUME IInv, NEW j \in Job, ThreadExits(j)
  PROVE  IInv'
<1> USE DEF ThreadExits
<1>0. /\ status \in [Job -> Status] /\ delRoot \in Seq(Job)
      /\ \A q \in Level : \A i \in 1..Len(createRoot[q]) : createRoot[q][i] \in Job
  BY DEF IInv, TypeOK
<1>1. TypeOK'
  BY DEF IInv, TypeOK, Status
<1>2. CurThreadExact'
  <2>1. Unjoined' = Unjoined
    BY <1>0 DEF Unjoined
  <2>2. CountedAhead' <=> CountedAhead
    BY DEF CountedAhead
  <2> QED BY <2>1, <2>2 DEF IInv, CurThreadExact
<1>3. JoinListExact'
  BY <1>0 DEF IInv, JoinListExact
<1>4. QueueExact'
  BY <1>0 DEF IInv, QueueExact
<1>5. OneStarting'
  BY <1>0 DEF IInv, OneStarting
<1>6. WorkRemains' /\ RoomRemains' /\ SleepJustified'
  BY DEF IInv, WorkRemains, RoomRemains, SleepJustified, AnyQueued, Queued
<1> QED BY <1>1, <1>2, <1>3, <1>4, <1>5, <1>6 DEF IInv

-----------------------------------------------------------------------------
LEMMA NextInv ==
  ASSUME IInv, [Next]_vars
  PROVE  IInv'
<1>1. CASE UNCHANGED vars
  <2>1. UNCHANGED <<createRoot, delRoot, curThread, priority, selected, status,
                    creating, pc>>
    BY <1>1 DEF vars
  <2>2. UNCHANGED <<Unjoined, CountedAhead, AnyQueued>>
    BY <2>1 DEF Unjoined, CountedAhead, AnyQueued, Queued
  <2>3. TypeOK' /\ CurThreadExact' /\ JoinListExact' /\ QueueExact'
    BY <2>1, <2>2 DEF IInv, TypeOK, CurThreadExact, JoinListExact, QueueExact
  <2>4. OneStarting' /\ WorkRemains' /\ RoomRemains' /\ SleepJustified'
    BY <2>1, <2>2 DEF IInv, OneStarting, WorkRemains, RoomRemains,
                      SleepJustified, Queued
  <2> QED BY <2>3, <2>4 DEF IInv
<1>2. CASE Submit
  BY <1>2, CreateEnqueueInv DEF Submit
<1>3. CASE \E c \in Caller : CreateSignal(c)
  BY <1>3, CreateSignalInv
<1>4. CASE LocalStep
  BY <1>4, LocalStepInv
<1>5. CASE Creator
  BY <1>4, <1>5, JoinOneInv, CountThreadInv, ChooseInv, PopNodeInv, SpawnInv
     DEF Creator, LocalStep, Choose
<1>6. CASE \E j \in Job : Worker(j)
  BY <1>6, CallbackReturnsInv, AddDelQueueInv, ThreadExitsInv DEF Worker
<1>7. CASE SpuriousWakeup
  BY <1>4, <1>7 DEF LocalStep
<1> QED BY <1>1, <1>2, <1>3, <1>5, <1>6, <1>7 DEF Next

LEMMA Invariance == Spec => []IInv
BY InitInv, NextInv, PTL DEF Spec

\* The variables keep their types; in particular curThread, a signed counter
\* that clearThread decrements, never goes below zero.
THEOREM TypeCorrect == Spec => []TypeOK
BY Invariance, PTL DEF IInv

\* At any time, for any number of nodes and threads and with or without
\* spurious wakeups, curThread is the number of threads not joined yet.
THEOREM CountCorrect == Spec => []CurThreadExact
BY Invariance, PTL DEF IInv

\* delRoot lists every ended thread once.
THEOREM JoinListCorrect == Spec => []JoinListExact
BY Invariance, PTL DEF IInv

\* If the C library never wakes a wait without a signal, the pool never has
\* more than MaxThread threads, although clearThread tests delRoot only once.
THEOREM ThreadLimitHolds ==
  ASSUME ~Spurious
  PROVE  Spec => []ThreadLimit
<1>1. IInv => ThreadLimit
  <2> SUFFICES ASSUME IInv PROVE ThreadLimit
    OBVIOUS
  <2>1. Cardinality(Unjoined) \in Nat
    BY FiniteJobs DEF Unjoined
  <2>2. curThread \in Nat /\ curThread <= MaxThread
    BY DEF IInv, TypeOK, RoomRemains
  <2> QED BY <2>1, <2>2, PoolAssumption DEF IInv, CurThreadExact, ThreadLimit
<1> QED BY <1>1, Invariance, PTL

\* The creator never sleeps through a signal: neither for work while some is
\* queued, nor for an ended thread while there is none left that could end.
THEOREM NoLostWakeupHolds == Spec => []NoLostWakeup
<1>1. IInv => NoLostWakeup
  <2> SUFFICES ASSUME IInv PROVE NoLostWakeup
    OBVIOUS
  <2>1. pc = "waitDel" => Unjoined # {}
    <3> SUFFICES ASSUME pc = "waitDel", Unjoined = {} PROVE FALSE
      OBVIOUS
    <3>1. Cardinality(Unjoined) = 0
      BY FS_EmptySet
    <3>2. curThread = 0
      BY <3>1 DEF IInv, CurThreadExact, CountedAhead
    <3> QED BY <3>2, PoolAssumption DEF IInv, SleepJustified
  <2> QED BY <2>1 DEF IInv, SleepJustified, NoLostWakeup
<1> QED BY <1>1, Invariance, PTL

-----------------------------------------------------------------------------
(* The refinement of TaskPool, step by step. *)

Active == {j \in Job : status[j] \in {"starting", "running"}}
Finished == {j \in Job : status[j] \in {"ending", "listed", "exited"}}
Retired == {j \in Job : status[j] = "joined"}

LEMMA PoolInit ==
  ASSUME createRoot = [q \in Level |-> <<>>], Active = {}, Finished = {}, Retired = {}
  PROVE  Pool!Init
BY DEF Pool!Init, Active, Finished, Retired, Level

LEMMA PoolSubmit ==
  ASSUME NEW c \in Caller, NEW j \in Job, NEW q \in Level,
         c = Main \/ c \in Active,
         j \notin Active, j \notin Finished, j \notin Retired,
         \A r \in Level : \A i \in 1..Len(createRoot[r]) : createRoot[r][i] # j,
         createRoot' = [createRoot EXCEPT ![q] = Append(@, j)],
         UNCHANGED <<Active, Finished, Retired>>
  PROVE  Pool!Next
<1>1. j \notin Pool!Known
  <2>1. \A r \in 0..2 : j \notin Pool!Waiting(r)
    BY DEF Pool!Waiting, Level
  <2>2. j \notin UNION {Pool!Waiting(r) : r \in 0..2}
    BY <2>1
  <2> QED BY <2>2, Zenon DEF Pool!Known, Active, Finished, Retired
<1>2. Pool!Submit(c, j, q)
  BY <1>1 DEF Pool!Submit, Active, Finished, Retired
<1> QED BY <1>2 DEF Pool!Next, Caller, Level

LEMMA PoolStart ==
  ASSUME NEW q \in Level, Queued(q), Cardinality(Active \cup Finished) < MaxThread,
         Active' = Active \cup {Head(createRoot[q])},
         createRoot' = [createRoot EXCEPT ![q] = Tail(@)],
         UNCHANGED <<Finished, Retired>>
  PROVE  Pool!Next
<1> DEFINE A == {j \in Job : status[j] \in {"starting", "running"}}
           F == {j \in Job : status[j] \in {"ending", "listed", "exited"}}
           R == {j \in Job : status[j] = "joined"}
<1>a. createRoot[q] # <<>>
  BY DEF Queued
<1>b. Cardinality(A \cup F) < MaxThread
  BY DEF Active, Finished
<1>c. A' = A \cup {Head(createRoot[q])}
  BY DEF Active
<1>d. createRoot' = [createRoot EXCEPT ![q] = Tail(@)]
  OBVIOUS
<1>e. UNCHANGED <<F, R>>
  BY DEF Finished, Retired
<1>f. Pool!Cardinality(A \cup F) = Cardinality(A \cup F)
  BY DEF Pool!Cardinality, Cardinality, Pool!IsFiniteSet, IsFiniteSet
<1>2. Pool!Start(q)
  BY ONLY <1>a, <1>b, <1>c, <1>d, <1>e, <1>f DEF Pool!Start
<1> QED BY <1>2 DEF Pool!Next, Level

LEMMA PoolReturn ==
  ASSUME NEW j \in Active,
         Active' = Active \ {j}, Finished' = Finished \cup {j},
         UNCHANGED <<createRoot, Retired>>
  PROVE  Pool!Next
<1>1. Pool!Return(j)
  BY DEF Pool!Return, Active, Finished, Retired
<1>2. j \in Job
  BY DEF Active
<1> QED BY <1>1, <1>2 DEF Pool!Next

LEMMA PoolFreeSlot ==
  ASSUME NEW j \in Finished,
         Finished' = Finished \ {j}, Retired' = Retired \cup {j},
         UNCHANGED <<createRoot, Active>>
  PROVE  Pool!Next
<1>1. Pool!FreeSlot(j)
  BY DEF Pool!FreeSlot, Active, Finished, Retired
<1>2. j \in Job
  BY DEF Finished
<1> QED BY <1>1, <1>2 DEF Pool!Next

LEMMA PoolStutter ==
  ASSUME UNCHANGED <<createRoot, Active, Finished, Retired>>
  PROVE  UNCHANGED Pool!vars
BY DEF Pool!vars, Active, Finished, Retired

\* When the creator pops a node, the thread it has counted is the only one that
\* may be missing, so there is a slot: this is where spurious wakeups would do harm.
LEMMA PopRefines ==
  ASSUME IInv, ~Spurious, PopNode
  PROVE  Pool!Next
<1> DEFINE j == Head(createRoot[selected])
<1>1. /\ pc = "pop" /\ Queued(selected) /\ selected \in Level
      /\ createRoot' = [createRoot EXCEPT ![selected] = Tail(@)]
      /\ status' = [status EXCEPT ![j] = "starting"]
      /\ createRoot[selected] \in Seq(Job) /\ TypeOK
  BY DEF PopNode, IInv, TypeOK, WorkRemains
<1>2. j \in Job /\ status[j] = "queued"
  <2>1. createRoot[selected] # <<>>
    BY <1>1 DEF Queued
  <2>2. /\ j \in Job /\ createRoot[selected][1] = j
        /\ 1 \in 1..Len(createRoot[selected])
    BY <1>1, <2>1
  <2> QED BY <1>1, <2>2 DEF IInv, QueueExact
<1> HIDE DEF j
<1>3. Active' = Active \cup {j} /\ UNCHANGED <<Finished, Retired>>
  BY <1>1, <1>2 DEF Active, Finished, Retired, TypeOK
<1>4. Cardinality(Active \cup Finished) < MaxThread
  <2>1. Active \cup Finished = Unjoined
    BY <1>1 DEF IInv, OneStarting, Active, Finished, Unjoined
  <2>2. curThread = Cardinality(Unjoined) + 1
    BY <1>1 DEF IInv, CurThreadExact, CountedAhead
  <2>3. Cardinality(Unjoined) \in Nat
    BY FiniteJobs DEF Unjoined
  <2>4. curThread <= MaxThread
    BY DEF IInv, RoomRemains
  <2>5. Cardinality(Unjoined) < MaxThread
    BY <2>2, <2>3, <2>4, PoolAssumption
  <2> QED BY <2>1, <2>5
<1> QED BY <1>1, <1>3, <1>4, PoolStart DEF j

LEMMA JoinRefines ==
  ASSUME IInv, JoinOne
  PROVE  Pool!Next
<1> DEFINE j == Head(delRoot)
<1>1. /\ status' = [status EXCEPT ![j] = "joined"] /\ status[j] = "exited"
      /\ j \in Job /\ UNCHANGED createRoot /\ TypeOK
  BY DEF JoinOne, IInv, TypeOK
<1> HIDE DEF j
<1>2. j \in Finished /\ j \notin Active
  BY <1>1 DEF Finished, Active
<1>3. Finished' = Finished \ {j} /\ Retired' = Retired \cup {j} /\ Active' = Active
  BY <1>1 DEF Active, Finished, Retired, TypeOK
<1> QED BY <1>1, <1>2, <1>3, PoolFreeSlot

LEMMA SubmitRefines ==
  ASSUME IInv, NEW c \in Caller, NEW j \in Job, NEW p \in PrioArg, CreateEnqueue(c, j, p)
  PROVE  Pool!Next
<1>1. /\ status[j] = "unused" /\ status' = [status EXCEPT ![j] = "queued"]
      /\ createRoot' = [createRoot EXCEPT ![LevelOf(p)] = Append(@, j)]
      /\ c \in Job => status[c] = "running"
      /\ TypeOK
  BY DEF CreateEnqueue, IInv
<1>2. LevelOf(p) \in Level
  BY PoolAssumption DEF LevelOf, Level
<1>3. c = Main \/ c \in Active
  BY <1>1 DEF Caller, Active
<1>4. j \notin Active /\ j \notin Finished /\ j \notin Retired
  BY <1>1 DEF Active, Finished, Retired
<1>5. \A r \in Level : \A i \in 1..Len(createRoot[r]) : createRoot[r][i] # j
  BY <1>1 DEF IInv, QueueExact
<1>6. UNCHANGED <<Active, Finished, Retired>>
  BY <1>1 DEF Active, Finished, Retired, TypeOK
<1> QED BY <1>1, <1>2, <1>3, <1>4, <1>5, <1>6, PoolSubmit

LEMMA WorkerRefines ==
  ASSUME IInv, NEW j \in Job, Worker(j)
  PROVE  [Pool!Next]_(Pool!vars)
<1>0. TypeOK
  BY DEF IInv
<1>1. CASE CallbackReturns(j)
  <2>1. /\ status[j] = "running" /\ status' = [status EXCEPT ![j] = "ending"]
        /\ UNCHANGED createRoot
    BY <1>1 DEF CallbackReturns
  <2>2. j \in Active /\ j \notin Retired
    BY <2>1 DEF Active, Retired
  <2>3. Active' = Active \ {j} /\ Finished' = Finished \cup {j} /\ Retired' = Retired
    BY <1>0, <2>1 DEF Active, Finished, Retired, TypeOK
  <2> QED BY <2>1, <2>2, <2>3, PoolReturn
<1>2. CASE AddDelQueue(j) \/ ThreadExits(j)
  <2>1. PICK s \in {"listed", "exited"} : status' = [status EXCEPT ![j] = s]
    BY <1>2 DEF AddDelQueue, ThreadExits
  <2>2. status[j] \in {"ending", "listed"} /\ UNCHANGED createRoot
    BY <1>2 DEF AddDelQueue, ThreadExits
  <2>3. UNCHANGED <<Active, Finished, Retired>>
    BY <1>0, <2>1, <2>2 DEF Active, Finished, Retired, TypeOK
  <2> QED BY <2>2, <2>3, PoolStutter
<1> QED BY <1>1, <1>2 DEF Worker

LEMMA SpawnRefines ==
  ASSUME IInv, NEW j \in Job, Spawn(j)
  PROVE  UNCHANGED Pool!vars
<1>1. /\ status[j] = "starting" /\ status' = [status EXCEPT ![j] = "running"]
      /\ UNCHANGED createRoot /\ TypeOK
  BY DEF Spawn, IInv
<1>2. UNCHANGED <<Active, Finished, Retired>>
  BY <1>1 DEF Active, Finished, Retired, TypeOK
<1> QED BY <1>1, <1>2, PoolStutter

LEMMA NextRefines ==
  ASSUME IInv, ~Spurious, [Next]_vars
  PROVE  [Pool!Next]_(Pool!vars)
<1>1. CASE Submit
  BY <1>1, SubmitRefines DEF Submit
<1>2. CASE PopNode
  BY <1>2, PopRefines
<1>3. CASE JoinOne
  BY <1>3, JoinRefines
<1>4. CASE \E j \in Job : Worker(j)
  BY <1>4, WorkerRefines
<1>5. CASE \E j \in Job : Spawn(j)
  BY <1>5, SpawnRefines
<1>6. CASE UNCHANGED <<createRoot, status>>
  <2>1. UNCHANGED <<createRoot, Active, Finished, Retired>>
    BY <1>6 DEF Active, Finished, Retired
  <2> QED BY <2>1, PoolStutter
<1>7. \/ Submit \/ PopNode \/ JoinOne
      \/ \E j \in Job : Worker(j)
      \/ \E j \in Job : Spawn(j)
      \/ UNCHANGED <<createRoot, status>>
  BY DEF Next, vars, poolVars, CreateSignal, Creator, LockNew, SeeWork, SeeNoWork, SleepNew,
         RelockNew, LockDel, AdmitFull, AdmitRoom, ClearNone, ClearSome, SleepDel, RelockDel,
         DrainDone, CountThread, TakeHigh, PassHigh, TakeMid, TakeLow, SpuriousWakeup, Goto
<1> QED BY <1>1, <1>2, <1>3, <1>4, <1>5, <1>6, <1>7

\* If waits end only by signals, the pool keeps the promise of TaskPool: each task
\* starts once, in the order of its queue, and only into a free slot.  (That waiting
\* tasks are started, the fairness part of ImplementsTaskPool, is left to TLC.)
THEOREM PoolKeepsPromise ==
  ASSUME ~Spurious
  PROVE  Spec => Pool!Init /\ [][Pool!Next]_(Pool!vars)
<1>1. Init => Pool!Init
  <2> SUFFICES ASSUME Init PROVE Pool!Init
    OBVIOUS
  <2>1. createRoot = [q \in Level |-> <<>>] /\ Active = {} /\ Finished = {} /\ Retired = {}
    BY DEF Init, Active, Finished, Retired
  <2> QED BY <2>1, PoolInit
<1>2. IInv /\ [Next]_vars => [Pool!Next]_(Pool!vars)
  BY NextRefines
<1> QED BY <1>1, <1>2, Invariance, PTL DEF Spec
=============================================================================
