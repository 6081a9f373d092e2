--------------------------- MODULE TempFiles_proofs ---------------------------
(***************************************************************************)
(* Proofs about TempFiles, for any number of transfers and any quota.      *)
(*                                                                         *)
(* The file of a transfer in deleteTemp is on the free list before it is   *)
(* truncated; that no other transfer has it yet follows from the mutex,    *)
(* which keeps everybody from the list meanwhile (ReleasedListed).  The    *)
(* names are counted (NamesCounted), so there is one for each transfer.    *)
(***************************************************************************)
EXTENDS TempFiles, SetLemmas, SequenceTheorems

\* Names are either in use or on the free list.
NamesCounted ==
  /\ nameCount = Cardinality(Holder) + Len(free_list)
  /\ \A t \in Holder : filename[t] < nameCount
  /\ \A i \in 1..Len(free_list) : free_list[i] < nameCount

ReleasedListed == \A t \in In({"released"}) : InFreeList(filename[t])

IInv ==
  /\ TypeOK
  /\ NamesCounted
  /\ ExclusiveTemps
  /\ ReleasedListed
  /\ OwnData
  /\ QuotaExact
  /\ NoStrandedWaiter

-----------------------------------------------------------------------------
LEMMA FiniteTransfers ==
  ASSUME NEW S \in SUBSET Transfer
  PROVE  /\ IsFiniteSet(S)
         /\ Cardinality(S) \in Nat
         /\ Cardinality(S) <= Cardinality(Transfer)
BY TempAssumption, FS_Subset, FS_CardinalityType

LEMMA Sizes ==
  ASSUME TypeOK, NEW t \in Transfer
  PROVE  /\ fileSize[t] \in 0..MaxAllocate /\ fileSize[t] \in Int /\ fileSize[t] \in Nat
         /\ fileSize[t] < IntRange
<1>1. fileSize[t] \in Size \cup {0}
  BY DEF TypeOK
<1>2. /\ Size \cup {0} \subseteq 0..MaxAllocate /\ MaxAllocate \in Nat
      /\ Size \cup {0} \subseteq 0..(IntRange - 1) /\ IntRange \in Nat \ {0}
  BY TempAssumption
<1>3. fileSize[t] \in 0..MaxAllocate /\ fileSize[t] \in 0..(IntRange - 1)
  BY <1>1, <1>2
<1> QED BY <1>2, <1>3

LEMMA Holders == Holder \in SUBSET Transfer
BY DEF Holder, In

LEMMA InitInv == Init => IInv
<1> SUFFICES ASSUME Init PROVE IInv
  OBVIOUS
<1> USE DEF Init
<1>1. Cardinality(Transfer) \in Nat /\ (Transfer # {} => Cardinality(Transfer) # 0)
  BY FiniteTransfers, TempAssumption, FS_EmptySet
<1>2. TypeOK
  BY <1>1, EmptySeq DEF TypeOK, Phase, Name
<1>3. Holder = {} /\ \A P \in {"released", "filled", "waiting"} : In({P}) = {}
  BY DEF Holder, In
<1>4. NamesCounted /\ ExclusiveTemps /\ ReleasedListed /\ OwnData
  BY <1>3, FS_EmptySet DEF NamesCounted, ExclusiveTemps, ReleasedListed, OwnData, InFreeList
<1>5. IntRange * leaked = 0
  BY TempAssumption
<1>6. QuotaExact /\ NoStrandedWaiter
  BY <1>3, <1>5, SumEmpty DEF QuotaExact, Reserved, NoStrandedWaiter
<1> QED BY <1>2, <1>4, <1>6 DEF IInv

\* What a step keeps that gives no file, takes none back and touches none.
LEMMA OutsideInv ==
  ASSUME IInv,
         UNCHANGED <<curAllocate, free_list, nameCount, filename, content, leaked>>,
         Holder' = Holder, In({"filled"})' = In({"filled"}),
         In({"released"})' = In({"released"}),
         \A t \in Holder : fileSize'[t] = fileSize[t]
  PROVE  NamesCounted' /\ ExclusiveTemps' /\ ReleasedListed' /\ OwnData' /\ QuotaExact'
<1>1. NamesCounted' /\ ExclusiveTemps'
  BY DEF IInv, NamesCounted, ExclusiveTemps, InFreeList
<1>2. ReleasedListed' /\ OwnData'
  BY DEF IInv, ReleasedListed, OwnData, InFreeList
<1>3. SumFunctionOnSet(fileSize', Holder) = SumFunctionOnSet(fileSize, Holder)
  BY Holders, FiniteTransfers, SumSame
<1>4. QuotaExact'
  BY <1>3 DEF IInv, QuotaExact, Reserved
<1> QED BY <1>1, <1>2, <1>4

LEMMA NewTempInv ==
  ASSUME IInv, NEW t \in Transfer, NEW n \in Size, NewTemp(t, n)
  PROVE  IInv'
<1> USE DEF NewTemp, Enter
<1>1. TypeOK'
  BY DEF IInv, TypeOK, Phase
<1>2. /\ phase[t] = "idle" /\ phase' = [phase EXCEPT ![t] = "check"]
      /\ phase \in [Transfer -> Phase]
      /\ \A u \in Transfer \ {t} : fileSize'[u] = fileSize[u]
  BY DEF IInv, TypeOK
<1>3. /\ Holder' = Holder /\ In({"filled"})' = In({"filled"})
      /\ In({"released"})' = In({"released"}) /\ t \notin Holder
  BY <1>2 DEF Holder, In
<1>4. NamesCounted' /\ ExclusiveTemps' /\ ReleasedListed' /\ OwnData' /\ QuotaExact'
  BY <1>2, <1>3, Holders, OutsideInv
<1>5. NoStrandedWaiter'
  BY <1>2 DEF NoStrandedWaiter
<1> QED BY <1>1, <1>4, <1>5 DEF IInv

\* Only a transfer that does not fit begins to wait: the bytes it lacks are
\* reserved for somebody, who holds a file.
LEMMA WaitInv ==
  ASSUME IInv, NEW t \in Transfer, Wait(t)
  PROVE  IInv'
<1> USE DEF Wait, Enter
<1>1. TypeOK'
  BY DEF IInv, TypeOK, Phase
<1>2. /\ phase[t] = "check" /\ phase' = [phase EXCEPT ![t] = "waiting"]
      /\ phase \in [Transfer -> Phase]
  BY DEF IInv, TypeOK
<1>3. /\ Holder' = Holder /\ In({"filled"})' = In({"filled"})
      /\ In({"released"})' = In({"released"}) /\ t \notin Holder
  BY <1>2 DEF Holder, In
<1>4. NamesCounted' /\ ExclusiveTemps' /\ ReleasedListed' /\ OwnData' /\ QuotaExact'
  BY <1>3, OutsideInv
<1>5. fileSize[t] \in 0..MaxAllocate /\ curAllocate \in Nat /\ leaked \in Nat
  BY Sizes DEF IInv, TypeOK
<1>6. curAllocate # 0
  BY <1>5, TempAssumption DEF Fits
<1>7. ASSUME leaked > 0 PROVE NoStrandedWaiter'
  BY <1>7 DEF NoStrandedWaiter
<1>8. ASSUME leaked = 0 PROVE NoStrandedWaiter'
  <2>1. Holder # {}
    <3>1. IntRange * leaked = 0
      BY <1>8, TempAssumption
    <3> QED BY <1>6, <3>1, SumEmpty DEF IInv, QuotaExact, Reserved
  <2>2. PICK u \in Holder : u # t
    BY <1>3, <2>1
  <2>3. u \in Transfer /\ phase'[u] \notin {"idle", "waiting"}
    BY <1>2, <2>2, Holders DEF Holder, In
  <2> QED BY <2>3 DEF NoStrandedWaiter
<1>10. NoStrandedWaiter'
  BY <1>5, <1>7, <1>8
<1> QED BY <1>1, <1>4, <1>10 DEF IInv

LEMMA AdmitInv ==
  ASSUME IInv, NEW t \in Transfer, Admit(t) \/ SpuriousWakeup(t)
  PROVE  IInv'
<1> USE DEF Admit, SpuriousWakeup, Enter
<1>1. TypeOK'
  BY DEF IInv, TypeOK, Phase
<1>2. \E p \in {"admitted", "check"} :
        /\ phase[t] \in {"check", "waiting"} /\ phase' = [phase EXCEPT ![t] = p]
        /\ phase \in [Transfer -> Phase]
  BY DEF IInv, TypeOK
<1>3. /\ Holder' = Holder /\ In({"filled"})' = In({"filled"})
      /\ In({"released"})' = In({"released"})
  BY <1>2 DEF Holder, In
<1>4. NamesCounted' /\ ExclusiveTemps' /\ ReleasedListed' /\ OwnData' /\ QuotaExact'
  BY <1>3, OutsideInv
<1>5. NoStrandedWaiter'
  BY <1>2 DEF NoStrandedWaiter
<1> QED BY <1>1, <1>4, <1>5 DEF IInv

\* The end of deleteTemp: who waits alone is woken.
LEMMA SignalInv ==
  ASSUME IInv, NEW t \in Transfer, Signal(t)
  PROVE  IInv'
<1> USE DEF Signal, Enter
<1>1. TypeOK'
  BY DEF IInv, TypeOK, Phase, In
<1>2. /\ phase[t] = "truncated" /\ phase \in [Transfer -> Phase]
      /\ \/ In({"waiting"}) = {} /\ phase' = [phase EXCEPT ![t] = "idle"]
         \/ \E w \in In({"waiting"}) :
              phase' = [phase EXCEPT ![t] = "idle", ![w] = "check"]
  BY DEF IInv, TypeOK
<1>3. \A u \in Transfer :
        \/ phase'[u] = phase[u]
        \/ {phase[u], phase'[u]} \subseteq {"truncated", "waiting", "idle", "check"}
  BY <1>2 DEF In
<1>4. /\ Holder' = Holder /\ In({"filled"})' = In({"filled"})
      /\ In({"released"})' = In({"released"})
  BY <1>3 DEF Holder, In
<1>5. NamesCounted' /\ ExclusiveTemps' /\ ReleasedListed' /\ OwnData' /\ QuotaExact'
  BY <1>4, OutsideInv
<1>6. NoStrandedWaiter'
  <2>1. CASE In({"waiting"}) = {}
    <3>1. In({"waiting"})' = {}
      BY <1>2, <2>1 DEF In
    <3> QED BY <3>1 DEF NoStrandedWaiter
  <2>2. CASE \E w \in In({"waiting"}) : phase' = [phase EXCEPT ![t] = "idle", ![w] = "check"]
    <3>1. PICK w \in In({"waiting"}) : phase' = [phase EXCEPT ![t] = "idle", ![w] = "check"]
      BY <2>2
    <3>2. w \in Transfer /\ phase'[w] = "check"
      BY <1>2, <3>1 DEF In
    <3> QED BY <3>2 DEF NoStrandedWaiter
  <2> QED BY <1>2, <2>1, <2>2
<1> QED BY <1>1, <1>5, <1>6 DEF IInv

\* The name is from the list, or one more than those counted.
LEMMA TakeInv ==
  ASSUME IInv, NEW t \in Transfer, Take(t)
  PROVE  IInv'
<1> DEFINE f == filename'[t]
<1> USE DEF Enter
<1>1. /\ phase[t] = "admitted" /\ phase' = [phase EXCEPT ![t] = "holding"]
      /\ phase \in [Transfer -> Phase]
      /\ UNCHANGED <<fileSize, content, leaked>>
      /\ curAllocate' = curAllocate + fileSize[t]
      /\ In({"released"}) = {}
  BY DEF Take, IInv, TypeOK, FileMutexFree, In
<1>2. /\ t \notin Holder /\ Holder' = Holder \cup {t}
      /\ In({"filled"})' = In({"filled"}) /\ In({"filled"}) \subseteq Holder
      /\ In({"released"})' = {}
  BY <1>1 DEF Holder, In
<1>3. Cardinality(Holder') = Cardinality(Holder) + 1 /\ Cardinality(Holder') <= Cardinality(Transfer)
  <2>1. IsFiniteSet(Holder) /\ Holder' \in SUBSET Transfer
    BY <1>2, Holders, FiniteTransfers
  <2> QED BY <2>1, <1>2, FS_AddElement, FiniteTransfers
<1>4. Cardinality(Holder) \in Nat /\ Cardinality(Transfer) \in Nat
  BY Holders, FiniteTransfers
<1>5. Len(free_list) \in Nat /\ free_list \in Seq(Name) /\ filename \in [Transfer -> Name]
  BY DEF IInv, TypeOK
<1>6. /\ f \in Name /\ filename' = [filename EXCEPT ![t] = f]
      /\ free_list' \in Seq(Name)
      /\ nameCount' \in 0..Cardinality(Transfer)
      /\ nameCount' = Cardinality(Holder') + Len(free_list')
      /\ f < nameCount' /\ nameCount <= nameCount'
      /\ \A u \in Holder : filename[u] # f
      /\ \A i \in 1..Len(free_list') : free_list'[i] # f /\ free_list'[i] < nameCount'
      /\ \A i, k \in 1..Len(free_list') : free_list'[i] = free_list'[k] => i = k
      /\ \A u \in Holder : \A i \in 1..Len(free_list') : free_list'[i] # filename[u]
  <2>1. CASE /\ free_list # <<>>
             /\ filename' = [filename EXCEPT ![t] = Head(free_list)]
             /\ free_list' = Tail(free_list)
             /\ UNCHANGED nameCount
    <3>1. /\ f = free_list[1] /\ f \in Name
          /\ free_list' \in Seq(Name) /\ Len(free_list') = Len(free_list) - 1
          /\ \A i \in 1..Len(free_list') : free_list'[i] = free_list[i + 1]
          /\ 1 \in 1..Len(free_list)
      BY <1>5, <2>1, HeadTailProperties
    <3>2. \A i \in 1..Len(free_list') : i + 1 \in 1..Len(free_list) /\ i + 1 # 1
      BY <1>5, <3>1
    <3>3. nameCount = Cardinality(Holder) + Len(free_list)
      BY DEF IInv, NamesCounted
    <3>4. /\ \A i \in 1..Len(free_list) : free_list[i] < nameCount
          /\ \A i, k \in 1..Len(free_list) : free_list[i] = free_list[k] => i = k
          /\ \A u \in Holder : \A i \in 1..Len(free_list) : free_list[i] # filename[u]
      BY DEF IInv, NamesCounted, ExclusiveTemps, InFreeList
    <3>5. /\ \A i \in 1..Len(free_list') : free_list'[i] # f /\ free_list'[i] < nameCount
          /\ \A i, k \in 1..Len(free_list') : free_list'[i] = free_list'[k] => i = k
          /\ \A u \in Holder : \A i \in 1..Len(free_list') : free_list'[i] # filename[u]
          /\ \A u \in Holder : filename[u] # f
      BY <3>1, <3>2, <3>4
    <3>6. nameCount' = nameCount /\ nameCount \in 0..Cardinality(Transfer) /\ f < nameCount
      BY <2>1, <3>1, <3>4 DEF IInv, TypeOK
    <3>7. nameCount' = Cardinality(Holder') + Len(free_list')
      BY <1>3, <1>4, <1>5, <3>1, <3>3, <3>6
    <3>8. nameCount <= nameCount'
      BY <1>4, <3>6
    <3>9. filename' = [filename EXCEPT ![t] = f]
      BY <1>5, <2>1, <3>1
    <3> QED BY <3>1, <3>5, <3>6, <3>7, <3>8, <3>9
  <2>2. CASE /\ free_list = <<>>
             /\ filename' = [filename EXCEPT ![t] = nameCount]
             /\ nameCount' = nameCount + 1
             /\ UNCHANGED free_list
    <3>1. nameCount = Cardinality(Holder) /\ f = nameCount /\ free_list' = <<>>
      BY <1>4, <1>5, <2>2 DEF IInv, NamesCounted
    <3>2. f \in Name /\ nameCount' \in 0..Cardinality(Transfer)
      BY <1>3, <1>4, <2>2, <3>1 DEF Name
    <3>3. \A u \in Holder : filename[u] < nameCount /\ filename[u] \in Int
      BY <1>4, Holders DEF IInv, TypeOK, NamesCounted, Name
    <3>4. \A u \in Holder : filename[u] # f
      BY <1>4, <3>1, <3>3
    <3>5. 1..Len(free_list') = {}
      BY <3>1
    <3>6. f < nameCount' /\ nameCount <= nameCount'
          /\ nameCount' = Cardinality(Holder') + Len(free_list')
      BY <1>3, <1>4, <2>2, <3>1
    <3>7. free_list' \in Seq(Name) /\ filename' = [filename EXCEPT ![t] = f]
      BY <1>5, <2>2, <3>1
    <3> QED BY <3>2, <3>4, <3>5, <3>6, <3>7
  <2> QED BY <2>1, <2>2 DEF Take
<1> HIDE DEF f
<1>7. filename'[t] = f /\ \A u \in Transfer \ {t} : filename'[u] = filename[u]
  BY <1>5, <1>6
<1>8. TypeOK'
  BY <1>1, <1>5, <1>6, Sizes DEF IInv, TypeOK, Phase
<1>9. NamesCounted'
  <2>1. \A u \in Holder : filename[u] < nameCount /\ filename[u] \in Int
        /\ nameCount \in Int /\ nameCount' \in Int
    BY <1>4, <1>6, Holders DEF IInv, TypeOK, NamesCounted, Name
  <2>2. \A u \in Holder' : filename'[u] < nameCount'
    BY <1>2, <1>6, <1>7, <2>1, Holders
  <2> QED BY <1>6, <2>2 DEF NamesCounted
<1>10. ExclusiveTemps'
  <2>1. \A u, v \in Holder : filename[u] = filename[v] => u = v
    BY DEF IInv, ExclusiveTemps
  <2>2. \A u, v \in Holder' : filename'[u] = filename'[v] => u = v
    BY <1>2, <1>6, <1>7, <2>1, Holders
  <2>3. \A u \in Holder' : \A i \in 1..Len(free_list') : free_list'[i] # filename'[u]
    BY <1>2, <1>6, <1>7, Holders
  <2> QED BY <1>6, <2>2, <2>3 DEF ExclusiveTemps, InFreeList
<1>11. ReleasedListed'
  BY <1>2 DEF ReleasedListed
<1>12. OwnData'
  BY <1>1, <1>2, <1>7, Holders DEF IInv, OwnData
<1>13. QuotaExact'
  <2>1. \A u \in Holder \cup {t} : fileSize[u] \in Int
    BY Holders, Sizes DEF IInv
  <2>2. SumFunctionOnSet(fileSize, Holder \cup {t}) = SumFunctionOnSet(fileSize, Holder) + fileSize[t]
    BY <1>2, <2>1, Holders, FiniteTransfers, SumAdd
  <2>3. fileSize[t] \in Int /\ IntRange * leaked \in Int
        /\ SumFunctionOnSet(fileSize, Holder) \in Int
    <3>1. \A u \in Holder : fileSize[u] \in Nat
      BY Holders, Sizes DEF IInv
    <3>2. SumFunctionOnSet(fileSize, Holder) \in Nat
      BY <3>1, Holders, FiniteTransfers, SumType
    <3> QED BY <3>2, Sizes, TempAssumption DEF IInv, TypeOK
  <2> QED BY <1>1, <1>2, <2>2, <2>3 DEF IInv, QuotaExact, Reserved
<1>14. NoStrandedWaiter'
  BY <1>1 DEF NoStrandedWaiter
<1> QED BY <1>8, <1>9, <1>10, <1>11, <1>12, <1>13, <1>14 DEF IInv

LEMMA FillInv ==
  ASSUME IInv, NEW t \in Transfer, Fill(t)
  PROVE  IInv'
<1> USE DEF Fill, Enter
<1>1. /\ phase[t] = "holding" /\ phase' = [phase EXCEPT ![t] = "filled"]
      /\ phase \in [Transfer -> Phase]
      /\ UNCHANGED <<curAllocate, free_list, nameCount, fileSize, filename, leaked>>
      /\ content' = [content EXCEPT ![filename[t]] = t]
      /\ filename[t] \in Name /\ content \in [Name -> Transfer \cup {Empty}]
  BY DEF IInv, TypeOK
<1>2. TypeOK'
  BY <1>1 DEF IInv, TypeOK, Phase
<1>3. /\ Holder' = Holder /\ In({"filled"})' = In({"filled"}) \cup {t}
      /\ In({"released"})' = In({"released"}) /\ t \in Holder /\ In({"filled"}) \subseteq Holder
      /\ t \notin In({"filled"})
  BY <1>1 DEF Holder, In
<1>4. NamesCounted' /\ ExclusiveTemps' /\ ReleasedListed' /\ QuotaExact'
  BY <1>1, <1>3 DEF IInv, NamesCounted, ExclusiveTemps, ReleasedListed, InFreeList,
                    QuotaExact, Reserved
<1>5. OwnData'
  <2>1. content'[filename[t]] = t
    BY <1>1
  <2>2. ASSUME NEW u \in In({"filled"}) PROVE content'[filename[u]] = u
    <3>1. filename[u] # filename[t]
      BY <1>3, <2>2 DEF IInv, ExclusiveTemps
    <3>2. filename[u] \in Name /\ content[filename[u]] = u
      BY <2>2 DEF IInv, TypeOK, OwnData, In
    <3> QED BY <1>1, <3>1, <3>2
  <2> QED BY <1>1, <1>3, <2>1, <2>2 DEF OwnData
<1>6. NoStrandedWaiter'
  BY <1>1 DEF NoStrandedWaiter
<1> QED BY <1>2, <1>4, <1>5, <1>6 DEF IInv

LEMMA ReleaseInv ==
  ASSUME IInv, NEW t \in Transfer, Release(t)
  PROVE  IInv'
<1> DEFINE f == filename[t]
           n == Len(free_list)
<1> USE DEF Release, Enter
<1>1. /\ phase[t] \in {"holding", "filled"} /\ phase' = [phase EXCEPT ![t] = "released"]
      /\ phase \in [Transfer -> Phase]
      /\ UNCHANGED <<nameCount, fileSize, filename, content>>
      /\ curAllocate' = curAllocate - AsInt(fileSize[t])
      /\ leaked' = IF AsInt(fileSize[t]) < 0 THEN leaked + 1 ELSE leaked
      /\ free_list' = <<f>> \o free_list
      /\ f \in Name /\ free_list \in Seq(Name)
      /\ In({"released"}) = {}
  BY DEF IInv, TypeOK, FileMutexFree, In
<1> HIDE DEF Release
<1>2. /\ t \in Holder /\ Holder' = Holder \ {t}
      /\ In({"filled"})' \subseteq In({"filled"})
      /\ In({"released"})' = {t}
  BY <1>1 DEF Holder, In
<1>3. /\ IsFiniteSet(Holder) /\ Cardinality(Holder) \in Nat
      /\ Cardinality(Holder') = Cardinality(Holder) - 1
  BY <1>2, Holders, FiniteTransfers, FS_RemoveElement
<1>4. /\ free_list' \in Seq(Name) /\ n \in Nat /\ Len(free_list') = n + 1
      /\ free_list'[1] = f
      /\ \A i \in 1..n : free_list'[i + 1] = free_list[i]
  <2>1. <<f>> \in Seq(Name) /\ Len(<<f>>) = 1 /\ <<f>>[1] = f /\ n \in Nat
    BY <1>1
  <2> HIDE DEF f, n
  <2>2. /\ free_list' \in Seq(Name) /\ Len(free_list') = 1 + n
        /\ \A i \in 1..(1 + n) : free_list'[i] = IF i <= 1 THEN <<f>>[i] ELSE free_list[i - 1]
    BY <1>1, <2>1, ConcatProperties DEF n
  <2> QED BY <2>1, <2>2
<1> HIDE DEF n
<1>5. \A i \in 1..Len(free_list') : i = 1 \/ \E k \in 1..n : i = k + 1
  <2> SUFFICES ASSUME NEW i \in 1..Len(free_list'), i # 1
               PROVE  \E k \in 1..n : i = k + 1
    OBVIOUS
  <2>1. i - 1 \in 1..n /\ i = (i - 1) + 1
    BY <1>4
  <2> QED BY <2>1
<1>6. /\ \A u, v \in Holder : filename[u] = filename[v] => u = v
      /\ \A u \in Holder : \A i \in 1..n : free_list[i] # filename[u]
      /\ \A i, k \in 1..n : free_list[i] = free_list[k] => i = k
  BY DEF IInv, ExclusiveTemps, InFreeList, n
<1>7. /\ f < nameCount /\ \A i \in 1..n : free_list[i] < nameCount
      /\ nameCount = Cardinality(Holder) + n
  BY <1>2 DEF IInv, NamesCounted, n
<1>8. /\ SumFunctionOnSet(fileSize, Holder) = fileSize[t] + SumFunctionOnSet(fileSize, Holder')
      /\ SumFunctionOnSet(fileSize, Holder') \in Nat
      /\ fileSize[t] \in Nat
  <2>1. \A u \in Holder : fileSize[u] \in Int /\ fileSize[u] \in Nat
    BY Holders, Sizes DEF IInv
  <2>2. IsFiniteSet(Holder')
    BY <1>2, Holders, FiniteTransfers
  <2>3. SumFunctionOnSet(fileSize, Holder) = fileSize[t] + SumFunctionOnSet(fileSize, Holder')
    BY <1>2, <1>3, <2>1, SumRemove
  <2>4. \A u \in Holder' : fileSize[u] \in Nat
    BY <1>2, <2>1
  <2>5. SumFunctionOnSet(fileSize, Holder') \in Nat
    BY <2>2, <2>4, SumType
  <2> QED BY <1>2, <2>1, <2>3, <2>5
<1>9. QuotaExact' /\ curAllocate' \in Nat /\ leaked' \in Nat
  <2>1. leaked \in Nat /\ IntRange \in Nat \ {0} /\ fileSize[t] < IntRange
    BY Sizes, TempAssumption DEF IInv, TypeOK
  <2>2. IntRange * (leaked + 1) = IntRange * leaked + IntRange /\ IntRange * leaked \in Nat
    BY <2>1
  <2>3. curAllocate = fileSize[t] + SumFunctionOnSet(fileSize, Holder') + IntRange * leaked
    BY <1>8 DEF IInv, QuotaExact, Reserved
  <2>4. CASE AsInt(fileSize[t]) < 0
    <3>1. AsInt(fileSize[t]) = fileSize[t] - IntRange
      BY <1>8, <2>1, <2>4 DEF AsInt
    <3>2. leaked' = leaked + 1 /\ IntRange * leaked' = IntRange * leaked + IntRange
      BY <1>1, <2>2, <2>4
    <3>3. curAllocate' = SumFunctionOnSet(fileSize, Holder') + IntRange * leaked'
      <4> DEFINE l == IntRange * leaked
                 s == SumFunctionOnSet(fileSize, Holder')
      <4>1. l \in Nat /\ s \in Nat /\ curAllocate = fileSize[t] + s + l
            /\ curAllocate' = curAllocate - AsInt(fileSize[t]) /\ IntRange * leaked' = l + IntRange
        BY <1>1, <1>8, <2>2, <2>3, <3>2
      <4> HIDE DEF l, s
      <4>2. curAllocate' = s + (l + IntRange)
        BY <1>8, <2>1, <3>1, <4>1
      <4> QED BY <4>1, <4>2 DEF s
    <3> QED BY <1>1, <1>8, <2>1, <2>2, <3>2, <3>3 DEF QuotaExact, Reserved
  <2>5. CASE ~(AsInt(fileSize[t]) < 0)
    <3>1. AsInt(fileSize[t]) = fileSize[t] /\ leaked' = leaked
      BY <1>1, <1>8, <2>1, <2>5 DEF AsInt
    <3>2. curAllocate' = SumFunctionOnSet(fileSize, Holder') + IntRange * leaked
      BY <1>1, <1>8, <2>2, <2>3, <3>1
    <3> QED BY <1>1, <1>8, <2>1, <2>2, <3>1, <3>2 DEF QuotaExact, Reserved
  <2> QED BY <2>4, <2>5
<1>10. TypeOK'
  BY <1>1, <1>4, <1>9 DEF IInv, TypeOK, Phase
<1>11. NamesCounted'
  <2>1. \A i \in 1..Len(free_list') : free_list'[i] < nameCount
    BY <1>4, <1>5, <1>7
  <2>2. \A u \in Holder' : filename[u] < nameCount
    BY <1>2 DEF IInv, NamesCounted
  <2>3. nameCount = Cardinality(Holder') + Len(free_list')
    BY <1>3, <1>4, <1>7
  <2> QED BY <1>1, <2>1, <2>2, <2>3 DEF NamesCounted
<1>12. ExclusiveTemps'
  <2>1. \A i \in 1..Len(free_list') :
          \/ i = 1 /\ free_list'[i] = f
          \/ \E k \in 1..n : i = k + 1 /\ free_list'[i] = free_list[k]
    BY <1>4, <1>5
  <2>2. \A u \in Holder' : filename[u] # f
    BY <1>2, <1>6
  <2>3. \A u \in Holder' : \A i \in 1..Len(free_list') : free_list'[i] # filename[u]
    BY <1>2, <1>6, <2>2, <2>1
  <2>4. ASSUME NEW i \in 1..Len(free_list'), NEW k \in 1..Len(free_list'),
               free_list'[i] = free_list'[k]
        PROVE  i = k
    <3>1. \A j \in 1..n : free_list[j] # f
      BY <1>2, <1>6
    <3>2. CASE i = 1
      BY <2>4, <2>1, <3>1, <3>2
    <3>3. CASE \E j \in 1..n : i = j + 1 /\ free_list'[i] = free_list[j]
      <4>1. PICK j \in 1..n : i = j + 1 /\ free_list'[i] = free_list[j]
        BY <3>3
      <4>2. PICK l \in 1..n : k = l + 1 /\ free_list'[k] = free_list[l]
        BY <2>4, <2>1, <3>1, <4>1
      <4> QED BY <1>6, <2>4, <4>1, <4>2
    <3> QED BY <2>1, <3>2, <3>3
  <2> QED BY <1>1, <1>2, <1>6, <2>3, <2>4 DEF ExclusiveTemps, InFreeList
<1>13. ReleasedListed'
  <2>1. 1 \in 1..Len(free_list') /\ free_list'[1] = filename'[t]
    BY <1>1, <1>4
  <2> QED BY <1>2, <2>1 DEF ReleasedListed, InFreeList
<1>14. OwnData'
  BY <1>1, <1>2 DEF IInv, OwnData
<1>15. NoStrandedWaiter'
  BY <1>1 DEF NoStrandedWaiter
<1> QED BY <1>9, <1>10, <1>11, <1>12, <1>13, <1>14, <1>15 DEF IInv

\* The file that is truncated is on the free list, so it is nobody's.
LEMMA TruncateInv ==
  ASSUME IInv, NEW t \in Transfer, Truncate(t)
  PROVE  IInv'
<1> USE DEF Truncate, Enter
<1>1. /\ phase[t] = "released" /\ phase' = [phase EXCEPT ![t] = "truncated"]
      /\ phase \in [Transfer -> Phase]
      /\ UNCHANGED <<curAllocate, free_list, nameCount, fileSize, filename, leaked>>
      /\ content' = [content EXCEPT ![filename[t]] = Empty]
      /\ content \in [Name -> Transfer \cup {Empty}]
  BY DEF IInv, TypeOK
<1>2. TypeOK'
  BY <1>1 DEF IInv, TypeOK, Phase
<1>3. /\ Holder' = Holder /\ In({"filled"})' = In({"filled"})
      /\ In({"released"})' \subseteq In({"released"}) /\ t \in In({"released"})
      /\ In({"filled"}) \subseteq Holder
  BY <1>1 DEF Holder, In
<1>4. NamesCounted' /\ ExclusiveTemps' /\ QuotaExact'
  BY <1>1, <1>3 DEF IInv, NamesCounted, ExclusiveTemps, InFreeList, QuotaExact, Reserved
<1>5. ReleasedListed'
  BY <1>1, <1>3 DEF IInv, ReleasedListed, InFreeList
<1>6. OwnData'
  <2>1. ASSUME NEW u \in In({"filled"}) PROVE content'[filename[u]] = u
    <3>1. InFreeList(filename[t]) /\ ~InFreeList(filename[u])
      BY <1>3 DEF IInv, ExclusiveTemps, ReleasedListed
    <3>2. filename[u] # filename[t]
      BY <3>1
    <3>3. filename[u] \in Name /\ content[filename[u]] = u
      BY DEF IInv, TypeOK, OwnData, In
    <3> QED BY <1>1, <3>2, <3>3
  <2> QED BY <1>1, <1>3, <2>1 DEF OwnData
<1>7. NoStrandedWaiter'
  BY <1>1 DEF NoStrandedWaiter
<1> QED BY <1>2, <1>4, <1>5, <1>6, <1>7 DEF IInv

LEMMA NextInv ==
  ASSUME IInv, [Next]_vars
  PROVE  IInv'
<1>1. ASSUME NEW t \in Transfer, NEW n \in Size, NewTemp(t, n) PROVE IInv'
  BY <1>1, NewTempInv
<1>2. ASSUME NEW t \in Transfer, Fill(t) PROVE IInv'
  BY <1>2, FillInv
<1>3. ASSUME NEW t \in Transfer, Admit(t) \/ SpuriousWakeup(t) PROVE IInv'
  BY <1>3, AdmitInv
<1>4. ASSUME NEW t \in Transfer, Wait(t) PROVE IInv'
  BY <1>4, WaitInv
<1>5. ASSUME NEW t \in Transfer, Take(t) PROVE IInv'
  BY <1>5, TakeInv
<1>6. ASSUME NEW t \in Transfer, Release(t) PROVE IInv'
  BY <1>6, ReleaseInv
<1>7. ASSUME NEW t \in Transfer, Truncate(t) PROVE IInv'
  BY <1>7, TruncateInv
<1>8. ASSUME NEW t \in Transfer, Signal(t) PROVE IInv'
  BY <1>8, SignalInv
<1>9. CASE UNCHANGED vars
  <2> USE <1>9 DEF vars
  <2>1. /\ Holder' = Holder /\ In({"filled"})' = In({"filled"})
        /\ In({"released"})' = In({"released"}) /\ In({"waiting"})' = In({"waiting"})
    BY DEF Holder, In
  <2>2. TypeOK'
    BY DEF IInv, TypeOK
  <2>3. NamesCounted' /\ ExclusiveTemps' /\ ReleasedListed' /\ OwnData' /\ QuotaExact'
    BY <2>1, OutsideInv
  <2>4. NoStrandedWaiter'
    BY <2>1 DEF IInv, NoStrandedWaiter
  <2> QED BY <2>2, <2>3, <2>4 DEF IInv
<1> QED BY <1>1, <1>2, <1>3, <1>4, <1>5, <1>6, <1>7, <1>8, <1>9 DEF Next, Run

\* IInv is an invariant of the temporary files.
THEOREM Invariance == Spec => []IInv
<1>1. Init => IInv
  BY InitInv
<1>2. IInv /\ [Next]_vars => IInv'
  BY NextInv
<1> QED BY <1>1, <1>2, PTL DEF Spec

-----------------------------------------------------------------------------
(* The properties. *)

\* curAllocate never goes below zero, and no more names are made than there are
\* transfers at the same time.
THEOREM TypeCorrect == Spec => []TypeOK
<1>1. IInv => TypeOK
  BY DEF IInv
<1> QED BY <1>1, Invariance, PTL

\* newTemp gives a file to one transfer at a time, and deleteTemp offers it once.
THEOREM TempsExclusive == Spec => []ExclusiveTemps
<1>1. IInv => ExclusiveTemps
  BY DEF IInv
<1> QED BY <1>1, Invariance, PTL

\* deleteTemp truncates a file after it has been offered again, but never one that
\* somebody else has filled.
THEOREM DataKept == Spec => []OwnData
<1>1. IInv => OwnData
  BY DEF IInv
<1> QED BY <1>1, Invariance, PTL

\* The reservations of newTemp and deleteTemp add up, whatever lock each is under: but
\* for 2^32 bytes for each file of 2^31 or more, whose size an int cannot remember.
THEOREM QuotaCorrect == Spec => []QuotaExact
<1>1. IInv => QuotaExact
  BY DEF IInv
<1> QED BY <1>1, Invariance, PTL

\* Nobody waits in newTemp when all others are idle, unless bytes have leaked.
THEOREM NobodyStranded == Spec => []NoStrandedWaiter
<1>1. IInv => NoStrandedWaiter
  BY DEF IInv
<1> QED BY <1>1, Invariance, PTL
=============================================================================
