------------------------------ MODULE Transfers ------------------------------
(***************************************************************************)
(* Chunks on their way through one connection process: the temporary files *)
(* (TempFiles) and the worker pool (TaskPool) as Client.cpp uses them      *)
(* together.                                                               *)
(*                                                                         *)
(* An upload gets its file on the main thread, before it is queued for a   *)
(* worker; a download gets its file on its worker, while it occupies a     *)
(* slot.  A transfer that fails is queued again as a new task; the         *)
(* response thread deletes the file of a transfer that is over.            *)
(***************************************************************************)
EXTENDS Integers, Sequences, FiniteSets

CONSTANTS
  Upload, Download,  \* chunks to be sent and fetched
  ChunkSize,         \* their sizes
  Empty, Main,
  MaxAllocate, IntRange, \* see TempFiles
  Limit,             \* see TaskPool: maxThread
  Attempts,          \* how often a transfer is tried: maxGetTry + 2
  Unreliable         \* bound: the transfers whose driver may fail

Transfer == Upload \cup Download

ASSUME TransfersAssumption ==
  /\ Upload \cap Download = {} /\ Main \notin Transfer
  /\ MaxAllocate \in Nat /\ ChunkSize \in [Transfer -> 0..MaxAllocate]
  /\ IntRange \in Nat \ {0} /\ \A t \in Transfer : ChunkSize[t] < IntRange
  /\ Limit \in Nat \ {0} /\ Attempts \in Nat \ {0}
  /\ Unreliable \subseteq Transfer

VARIABLES
  curAllocate, free_list, nameCount, phase, fileSize, filename, content, leaked,
  pending, active, finished, retired,
  saving,       \* the upload the main thread is reading, or Main
  try,          \* attempts so far
  result,       \* of the current attempt
  responses     \* transfers that wait for the response thread

temp == <<curAllocate, free_list, nameCount, phase, fileSize, filename, content, leaked>>
pool == <<pending, active, finished, retired>>
own == <<saving, try, result, responses>>
transfersVars == <<temp, pool, own>>

Temp == INSTANCE TempFiles WITH Size <- {ChunkSize[t] : t \in Transfer}
Pool == INSTANCE TaskPool WITH Task <- Transfer \X (1..Attempts), Outside <- Main

Task(t) == <<t, try[t]>>
Works(t) == Task(t) \in active

TransfersInit ==
  /\ Temp!Init /\ Pool!Init
  /\ saving = Main
  /\ try = [t \in Transfer |-> 0]
  /\ result = [t \in Transfer |-> "none"]
  /\ responses = <<>>

-----------------------------------------------------------------------------
(* The main thread *)

\* readSaveFile, as far as newTemp; the steps of newTemp are in Reserve.
ReadSaveFile(u) ==
  /\ saving = Main /\ try[u] = 0
  /\ saving' = u
  /\ Temp!NewTemp(u, ChunkSize[u])
  /\ UNCHANGED <<pool, try, result, responses>>

ReceiveChunk ==
  /\ saving # Main
  /\ Temp!Fill(saving)
  /\ UNCHANGED <<pool, own>>

QueueSave ==
  /\ saving # Main /\ phase[saving] = "filled"
  /\ Pool!Submit(Main, <<saving, 1>>, 0)
  /\ try' = [try EXCEPT ![saving] = 1]
  /\ saving' = Main
  /\ UNCHANGED <<temp, result, responses>>

\* readGetFile, for one chunk of the file.
ReadGetFile(d) ==
  /\ saving = Main /\ try[d] = 0
  /\ Pool!Submit(Main, <<d, 1>>, 1)
  /\ try' = [try EXCEPT ![d] = 1]
  /\ UNCHANGED <<temp, saving, result, responses>>

-----------------------------------------------------------------------------
(* Workers *)

GetNewTemp(d) ==
  /\ Works(d) /\ result[d] = "none"
  /\ Temp!NewTemp(d, ChunkSize[d])
  /\ UNCHANGED <<pool, own>>

\* The steps of newTemp, on the main thread or on a worker.
Reserve(t) ==
  /\ Temp!Admit(t) \/ Temp!Wait(t) \/ Temp!Take(t)
  /\ UNCHANGED <<pool, own>>

\* Mutant: a thread that wakes up does not test again.
SpuriousWakeupUntested(t) ==
  /\ phase[t] = "waiting"
  /\ phase' = [phase EXCEPT ![t] = "admitted"]
  /\ UNCHANGED <<curAllocate, free_list, nameCount, fileSize, filename, content, leaked>>
  /\ UNCHANGED <<pool, own>>

SpuriousWakeup(t) == Temp!SpuriousWakeup(t) /\ UNCHANGED <<pool, own>>

Get(d) ==
  /\ Works(d) /\ result[d] = "none"
  /\ \/ Temp!Fill(d) /\ result' = [result EXCEPT ![d] = "done"]
     \/ /\ d \in Unreliable /\ phase[d] = "holding"
        /\ result' = [result EXCEPT ![d] = "failed"]
        /\ UNCHANGED temp
  /\ UNCHANGED <<pool, saving, try, responses>>

Put(u) ==
  /\ Works(u) /\ result[u] = "none"
  /\ \E r \in {"done", "failed"} :
       /\ r = "failed" => u \in Unreliable
       /\ result' = [result EXCEPT ![u] = r]
  /\ UNCHANGED <<temp, pool, saving, try, responses>>

\* deleteTemp of a download before it is tried again, and of what is answered.
Deletes(t) ==
  \/ t \in Download /\ Works(t) /\ result[t] = "failed" /\ try[t] < Attempts
  \/ responses # <<>> /\ t = Head(responses)

DeleteTemp(t) ==
  /\ Deletes(t)
  /\ Temp!Release(t) \/ Temp!Truncate(t) \/ Temp!Signal(t)
  /\ UNCHANGED <<pool, try, result, saving>>
  /\ responses' = IF phase[t] = "truncated" /\ responses # <<>> /\ t = Head(responses)
                  THEN Tail(responses) ELSE responses

TryAgain(t) ==
  /\ Works(t) /\ result[t] = "failed" /\ try[t] < Attempts
  /\ t \in Download => phase[t] = "idle"
  /\ Pool!Submit(Task(t), <<t, try[t] + 1>>, IF t \in Upload THEN 0 ELSE 1)
  /\ try' = [try EXCEPT ![t] = @ + 1]
  /\ result' = [result EXCEPT ![t] = "none"]
  /\ UNCHANGED <<temp, saving, responses>>

Answer(t) ==
  /\ Works(t)
  /\ result[t] = "done" \/ (result[t] = "failed" /\ try[t] = Attempts)
  /\ \A i \in DOMAIN responses : responses[i] # t
  /\ responses' = Append(responses, t)
  /\ Pool!Return(Task(t))
  /\ UNCHANGED <<temp, saving, try, result>>

\* The callback returns after it has queued its next attempt.
ReturnOld(t) ==
  /\ \E i \in 1..(try[t] - 1) : Pool!Return(<<t, i>>)
  /\ UNCHANGED <<temp, own>>

-----------------------------------------------------------------------------
(* The pool; the creator thread joins finished threads when it needs a slot. *)

StartTask ==
  /\ \E q \in 0..2 : Pool!Start(q)
  /\ UNCHANGED <<temp, own>>

\* Mutant: threads are joined only when there are too many.
JoinOnDemandLate ==
  /\ \E q \in 0..2 : pending[q] # <<>>
  /\ Cardinality(active \cup finished) > Limit
  /\ \E k \in finished : Pool!FreeSlot(k)
  /\ UNCHANGED <<temp, own>>

JoinOnDemand ==
  /\ \E q \in 0..2 : pending[q] # <<>>
  /\ Cardinality(active \cup finished) >= Limit
  /\ \E k \in finished : Pool!FreeSlot(k)
  /\ UNCHANGED <<temp, own>>

\* What some thread of the process does for t; the rest is up to the client.
Step(t) ==
  \/ saving = t /\ (ReceiveChunk \/ QueueSave)
  \/ t \in Download /\ (GetNewTemp(t) \/ Get(t))
  \/ t \in Upload /\ Put(t)
  \/ Reserve(t) \/ DeleteTemp(t) \/ TryAgain(t) \/ Answer(t)

TransfersNext ==
  \/ \E u \in Upload : ReadSaveFile(u)
  \/ \E d \in Download : ReadGetFile(d)
  \/ \E t \in Transfer : Step(t) \/ ReturnOld(t) \/ SpuriousWakeup(t)
  \/ StartTask \/ JoinOnDemand

\* Every thread runs, the client sends the chunk it has announced, and the
\* drivers' put and get return.
TransfersSpec ==
  /\ TransfersInit /\ [][TransfersNext]_transfersVars
  /\ \A t \in Transfer : WF_transfersVars(Step(t)) /\ WF_transfersVars(ReturnOld(t))
  /\ WF_transfersVars(StartTask) /\ WF_transfersVars(JoinOnDemand)

-----------------------------------------------------------------------------
(* Properties *)

WaitsInNewTemp(d) ==
  phase[d] = "waiting" \/ (phase[d] = "check" /\ ~Temp!Fits(fileSize[d]))

\* Every slot is held by a download that waits in newTemp, and whatever is
\* reserved belongs to uploads that wait for a slot or are still being read.
Jam ==
  /\ Cardinality(active) = Limit
  /\ \A k \in active : k[1] \in Download /\ k = Task(k[1]) /\ WaitsInNewTemp(k[1])
  /\ responses = <<>>
  /\ \A t \in Transfer :
       phase[t] \notin {"idle", "waiting", "check"} => t \in Upload

\* Started transfers are answered, and their files deleted, but for one
\* deadlock: newTemp on a worker keeps its slot while it waits for bytes that
\* only uploads behind it in the queue can return (Client.cpp:930 against 531); and
\* but for bytes that TempFiles has leaked.
AnsweredUnlessJam ==
  \A t \in Transfer :
    (saving = t \/ try[t] > 0)
      ~> ((phase[t] = "idle" /\ result[t] # "none") \/ Jam \/ leaked > 0)

\* Nothing the process does resolves that deadlock, if no waiting download would
\* fit: neither more requests nor spurious wakeups.
JamLasts ==
  [][Jam /\ (\A k \in active : ~Temp!Fits(fileSize[k[1]])) => Jam']_transfersVars

=============================================================================
