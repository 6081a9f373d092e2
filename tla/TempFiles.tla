------------------------------ MODULE TempFiles ------------------------------
(***************************************************************************)
(* The temporary files of one connection process (server/FileManager.cpp). *)
(*                                                                         *)
(* A transfer asks newTemp for a file, fills it (with what the client      *)
(* sends, or with what the cloud driver fetches) and gives it back with    *)
(* deleteTemp.  newTemp makes its caller wait while the bytes reserved     *)
(* exceed maxAllocate; names of deleted files are used again.              *)
(*                                                                         *)
(* Uploads reserve on the main thread, downloads on their worker, and most *)
(* files are deleted by the response thread; a process of the model is one *)
(* transfer, whichever thread executes it at the moment.                   *)
(***************************************************************************)
EXTENDS Integers, Sequences, FiniteSets, FiniteSetsExt

CONSTANTS
  Transfer,    \* transfers in progress at the same time
  Empty,       \* the content of a truncated file
  Size,        \* chunk sizes; zero is possible
  MaxAllocate, \* maxAllocate, from file.temp.maxAllocate
  IntRange     \* 2^32: sizes come as unsigned int and are kept as int

\* A chunk larger than maxAllocate waits for ever (line 29): left out.
ASSUME TempAssumption ==
  /\ IsFiniteSet(Transfer)
  /\ Empty \notin Transfer
  /\ MaxAllocate \in Nat /\ IntRange \in Nat \ {0}
  /\ Size # {} /\ Size \subseteq 0..MaxAllocate /\ Size \subseteq 0..(IntRange - 1)

VARIABLES
  curAllocate, \* bytes reserved
  free_list,   \* names to use again, latest first
  nameCount,   \* names made so far
  phase,       \* where each transfer is in its life
  fileSize,    \* the size it asked for
  filename,    \* the file it was given
  content,     \* file -> whose data it holds
  leaked       \* history: files given back with a size that is negative as int

vars == <<curAllocate, free_list, nameCount, phase, fileSize, filename, content, leaked>>

\* Names are counted from 0; more than one per transfer is never needed.
Name == 0..(Cardinality(Transfer) - 1)

Phase == {"idle", "check", "waiting", "admitted", "holding", "filled",
          "released", "truncated"}

\* Types of the variables; curAllocate is unsigned in the code: were it to go
\* below zero it would wrap and newTemp would never admit anybody again.
TypeOK ==
  /\ curAllocate \in Nat
  /\ free_list \in Seq(Name)
  /\ nameCount \in 0..Cardinality(Transfer)
  /\ phase \in [Transfer -> Phase]
  /\ fileSize \in [Transfer -> Size \cup {0}]
  /\ filename \in [Transfer -> Name]
  /\ content \in [Name -> Transfer \cup {Empty}]
  /\ leaked \in Nat

Init ==
  /\ curAllocate = 0
  /\ free_list = <<>>
  /\ nameCount = 0
  /\ phase = [t \in Transfer |-> "idle"]
  /\ fileSize = [t \in Transfer |-> 0]
  /\ filename = [t \in Transfer |-> 0]
  /\ content = [f \in Name |-> Empty]
  /\ leaked = 0

In(phases) == {t \in Transfer : phase[t] \in phases}

Enter(t, p) == phase' = [phase EXCEPT ![t] = p]

\* file_mutex spans the three steps of deleteTemp; allocate_mutex never spans
\* a step: the wait and the signal are atomic with what they protect.
\* Mutant: deleteTemp without file_mutex.
FileMutexIgnored == TRUE

FileMutexFree == In({"released", "truncated"}) = {}

-----------------------------------------------------------------------------
(* newTemp *)

NewTemp(t, n) ==
  /\ phase[t] = "idle"
  /\ Enter(t, "check")
  /\ fileSize' = [fileSize EXCEPT ![t] = n]
  /\ UNCHANGED <<curAllocate, free_list, nameCount, filename, content, leaked>>

\* Mutant: < where the code has <=.
FitsStrictly(n) == curAllocate + n < MaxAllocate

Fits(n) == curAllocate + n <= MaxAllocate

\* The test is made under allocate_mutex, the reservation under file_mutex.
Admit(t) ==
  /\ phase[t] = "check"
  /\ Fits(fileSize[t])
  /\ Enter(t, "admitted")
  /\ UNCHANGED <<curAllocate, free_list, nameCount, fileSize, filename, content, leaked>>

Wait(t) ==
  /\ phase[t] = "check"
  /\ ~Fits(fileSize[t])
  /\ Enter(t, "waiting")
  /\ UNCHANGED <<curAllocate, free_list, nameCount, fileSize, filename, content, leaked>>

SpuriousWakeup(t) ==
  /\ phase[t] = "waiting"
  /\ Enter(t, "check")
  /\ UNCHANGED <<curAllocate, free_list, nameCount, fileSize, filename, content, leaked>>

\* Mutants: nothing is reserved; the name stays on the free list.
TakeUncounted(t) ==
  /\ phase[t] = "admitted"
  /\ FileMutexFree
  /\ \/ /\ free_list # <<>>
        /\ filename' = [filename EXCEPT ![t] = Head(free_list)]
        /\ free_list' = Tail(free_list)
        /\ UNCHANGED nameCount
     \/ /\ free_list = <<>>
        /\ filename' = [filename EXCEPT ![t] = nameCount]
        /\ nameCount' = nameCount + 1
        /\ UNCHANGED free_list
  /\ Enter(t, "holding")
  /\ UNCHANGED <<curAllocate, fileSize, content, leaked>>

TakeShared(t) ==
  /\ phase[t] = "admitted"
  /\ FileMutexFree
  /\ curAllocate' = curAllocate + fileSize[t]
  /\ \/ /\ free_list # <<>>
        /\ filename' = [filename EXCEPT ![t] = Head(free_list)]
        /\ UNCHANGED nameCount
     \/ /\ free_list = <<>>
        /\ filename' = [filename EXCEPT ![t] = nameCount]
        /\ nameCount' = nameCount + 1
  /\ Enter(t, "holding")
  /\ UNCHANGED <<free_list, fileSize, content, leaked>>

Take(t) ==
  /\ phase[t] = "admitted"
  /\ FileMutexFree
  /\ curAllocate' = curAllocate + fileSize[t]
  /\ \/ /\ free_list # <<>>
        /\ filename' = [filename EXCEPT ![t] = Head(free_list)]
        /\ free_list' = Tail(free_list)
        /\ UNCHANGED nameCount
     \/ /\ free_list = <<>>
        /\ filename' = [filename EXCEPT ![t] = nameCount]
        /\ nameCount' = nameCount + 1
        /\ UNCHANGED free_list
  /\ Enter(t, "holding")
  /\ UNCHANGED <<fileSize, content, leaked>>

\* The client's data is written, or the driver's get has delivered the chunk.
Fill(t) ==
  /\ phase[t] = "holding"
  /\ Enter(t, "filled")
  /\ content' = [content EXCEPT ![filename[t]] = t]
  /\ UNCHANGED <<curAllocate, free_list, nameCount, fileSize, filename, leaked>>

-----------------------------------------------------------------------------
(* deleteTemp; a failed get deletes a file it has not filled. *)

\* newTemp reserves the size as it is given, but remembers it in an int, which
\* deleteTemp extends with its sign: from half the range on, it is negative.
AsInt(n) == IF 2 * n < IntRange THEN n ELSE n - IntRange

\* Mutant: the bytes stay reserved.
ReleaseUncounted(t) ==
  /\ phase[t] \in {"holding", "filled"}
  /\ FileMutexFree
  /\ free_list' = <<filename[t]>> \o free_list
  /\ Enter(t, "released")
  /\ UNCHANGED <<curAllocate, nameCount, fileSize, filename, content, leaked>>

Release(t) ==
  /\ phase[t] \in {"holding", "filled"}
  /\ FileMutexFree
  /\ free_list' = <<filename[t]>> \o free_list
  /\ curAllocate' = curAllocate - AsInt(fileSize[t])
  /\ leaked' = IF AsInt(fileSize[t]) < 0 THEN leaked + 1 ELSE leaked
  /\ Enter(t, "released")
  /\ UNCHANGED <<nameCount, fileSize, filename, content>>

Truncate(t) ==
  /\ phase[t] = "released"
  /\ content' = [content EXCEPT ![filename[t]] = Empty]
  /\ Enter(t, "truncated")
  /\ UNCHANGED <<curAllocate, free_list, nameCount, fileSize, filename, leaked>>

\* pthread_cond_signal wakes one of the waiting transfers, if there is any.
\* Mutant: no signal.
SignalNobody(t) ==
  /\ phase[t] = "truncated"
  /\ Enter(t, "idle")
  /\ UNCHANGED <<curAllocate, free_list, nameCount, fileSize, filename, content, leaked>>

Signal(t) ==
  /\ phase[t] = "truncated"
  /\ \/ /\ In({"waiting"}) = {}
        /\ Enter(t, "idle")
     \/ \E w \in In({"waiting"}) :
          phase' = [phase EXCEPT ![t] = "idle", ![w] = "check"]
  /\ UNCHANGED <<curAllocate, free_list, nameCount, fileSize, filename, content, leaked>>

-----------------------------------------------------------------------------
Run(t) ==
  \/ Admit(t) \/ Wait(t) \/ Take(t)
  \/ Release(t) \/ Truncate(t) \/ Signal(t)

Next ==
  \E t \in Transfer :
    \/ \E n \in Size : NewTemp(t, n)
    \/ Fill(t)
    \/ SpuriousWakeup(t)
    \/ Run(t)

Spec == Init /\ [][Next]_vars

\* A thread inside newTemp or deleteTemp runs on.  When a transfer that has its
\* file calls deleteTemp is not this module's to say.
InCall(t) == Admit(t) \/ Wait(t) \/ Take(t) \/ Truncate(t) \/ Signal(t)

FairSpec == Spec /\ \A t \in Transfer : WF_vars(InCall(t))

-----------------------------------------------------------------------------
Holder == In({"holding", "filled"})

InFreeList(f) == \E i \in 1..Len(free_list) : free_list[i] = f

\* A temporary file is given to one transfer at a time, it is not offered again
\* before it is deleted, and it is offered once after that.
ExclusiveTemps ==
  /\ \A t, u \in Holder : filename[t] = filename[u] => t = u
  /\ \A t \in Holder : ~InFreeList(filename[t])
  /\ \A i, k \in 1..Len(free_list) : free_list[i] = free_list[k] => i = k

\* A file keeps its transfer's data until that transfer deletes it: the
\* truncation in deleteTemp never hits the next user of the name.
OwnData == \A t \in In({"filled"}) : content[filename[t]] = t

Reserved(S) == SumFunctionOnSet(fileSize, S)

\* curAllocate is what the files in use have reserved, and 2^32 for each file given
\* back with 2^31 bytes or more: these stay reserved as long as the process lives.
\* (It stays far below 2^64: newTemp lets nobody in above maxAllocate, an int64, so
\* each of the threads adds a size and one leak at most beyond it.)
QuotaExact == curAllocate = Reserved(Holder) + IntRange * leaked

\* A transfer never sleeps in newTemp with nobody left to wake it, unless bytes
\* have leaked.
NoStrandedWaiter ==
  In({"waiting"}) # {} =>
    leaked > 0 \/ \E t \in Transfer : phase[t] \notin {"idle", "waiting"}

\* One signal per deleted file is enough: if files are always deleted in the end
\* (a client that falls silent in a chunk, or the jam of Transfers, keeps them), then
\* as long as somebody waits for room, somebody is let in again, unless bytes
\* have leaked.  Who, the code leaves to chance.
WaitersProgress ==
  (\A t \in Transfer : []<>(t \notin Holder))
    => (In({"waiting"}) # {} ~> (In({"admitted"}) # {} \/ leaked > 0))
=============================================================================
