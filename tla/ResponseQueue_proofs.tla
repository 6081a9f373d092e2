------------------------- MODULE ResponseQueue_proofs -------------------------
(***************************************************************************)
(* Proofs about ResponseQueue, for every set of requests.                  *)
(*                                                                         *)
(* A response goes from posting to res_root, to tmp, to outbox.  IInv says *)
(* of each place what is known of the responses in it: when there may be   *)
(* 0x88 and what may come behind it (CloseLast), and that the answer to    *)
(* the request whose id the list holds comes behind all other answers that *)
(* will take the list's id (SharedInOrder).                                *)
(***************************************************************************)
EXTENDS MCResponseQueue, SequenceTheorems, TLAPS

\* Where the main thread has something to queue, or is queueing it.
MainPosts ==
  /\ main = "answering" =>
       \/ posting[Main] \notin {Nothing, Close} /\ queueHolder # Main
       \/ posting[Main] = Nothing /\ queueHolder = Main
  /\ main = "closing" =>
       \/ posting[Main] = Close /\ queueHolder # Main
       \/ posting[Main] = Nothing /\ queueHolder = Main
  /\ main \notin {"answering", "closing"} =>
       posting[Main] = Nothing /\ queueHolder # Main

\* An answer belongs to a request that was read; a worker's is a task's, and only
\* an answer that takes the list's id can be that of the request named there.
Known(m) ==
  m # Close =>
    /\ m.req \in seen
    /\ IF m.kind = "shared" THEN operationID # Nothing ELSE m.req # operationID

AllKnown ==
  /\ \A r \in Request : posting[r] # Nothing =>
       posting[r] = [req |-> r, kind |-> "task"] /\ Known(posting[r])
  /\ posting[Main] # Nothing => Known(posting[Main])
  /\ \A i \in 1..Len(res_root) : Known(res_root[i])
  /\ tmp # Nothing => Known(tmp)
  /\ \A i \in 1..Len(outbox) : Known(outbox[i].msg)
  /\ operationID # Nothing => operationID \in seen

IsTask(m) == m # Close /\ m.kind = "task"

\* 0x88 is behind all answers of the main thread.
CloseLast ==
  /\ \A i \in 1..Len(res_root) : res_root[i] = Close =>
       /\ main \notin {"read", "answering"} /\ posting[Main] = Nothing
       /\ \A k \in (i + 1)..Len(res_root) : IsTask(res_root[k])
  /\ tmp = Close \/ isEnd =>
       /\ main \notin {"read", "answering"} /\ posting[Main] = Nothing
       /\ \A k \in 1..Len(res_root) : IsTask(res_root[k])
  /\ isEnd <=> \E i \in 1..Len(outbox) : outbox[i].msg = Close
  /\ responder \in {"end", "ended"} => isEnd

IsShared(m) == m \notin {Nothing, Close} /\ m.kind = "shared"
Older(m) == m \in {Nothing, Close} \/ m.req # operationID

SharedInOrder ==
  /\ IsShared(posting[Main]) =>
       /\ \A i \in 1..Len(res_root) : Older(res_root[i])
       /\ Older(tmp)
       /\ \A i \in 1..Len(outbox) : Older(outbox[i].msg)
  /\ \A k \in 1..Len(res_root) : IsShared(res_root[k]) =>
       /\ \A i \in 1..(k - 1) : Older(res_root[i])
       /\ Older(tmp)
       /\ \A i \in 1..Len(outbox) : Older(outbox[i].msg)
  /\ IsShared(tmp) => \A i \in 1..Len(outbox) : Older(outbox[i].msg)

IInv ==
  /\ TypeOK
  /\ NoSleepOnWork
  /\ MainPosts
  /\ AllKnown
  /\ CloseLast
  /\ SharedInOrder
  /\ AnswersWithLater

-----------------------------------------------------------------------------
(* IInv holds initially and every step preserves it. *)

LEMMA Kinds ==
  /\ \A m \in Answer : m # Nothing
  /\ \A m \in Answer \ {Close} :
       m \in [req : Request, kind : {"own", "task", "shared"}]
  /\ \A t \in Thread : t # Nothing
  /\ Main \in Thread /\ Main \notin Request /\ Request \subseteq Thread
BY QueueAssumption DEF Answer, Thread

LEMMA InitInv == Init => IInv
<1> SUFFICES ASSUME Init PROVE IInv
  OBVIOUS
<1> USE DEF Init
<1>1. TypeOK
  <2>1. <<>> \in Seq(Answer) /\ <<>> \in Seq([msg : Answer, op : Request \cup {Nothing}])
    BY EmptySeq
  <2> QED BY <2>1 DEF TypeOK, MainPC, ResponderPC
<1>2. posting[Main] = Nothing /\ \A r \in Request : posting[r] = Nothing
  BY Kinds
<1>3. NoSleepOnWork /\ MainPosts
  BY <1>2, Kinds DEF NoSleepOnWork, MainPosts
<1>4. AllKnown /\ SharedInOrder
  BY <1>2 DEF AllKnown, SharedInOrder, IsShared
<1>5. CloseLast
  BY QueueAssumption DEF CloseLast, Answer
<1>6. AnswersWithLater
  BY DEF AnswersWithLater
<1> QED BY <1>1, <1>3, <1>4, <1>5, <1>6 DEF IInv

\* Steps that move nothing and leave the main thread outside addResponseQueue.
LocalStep == Check \/ Drained \/ SignalEnd \/ WaitEnd \/ Confirm \/ SpuriousWakeup

LEMMA LocalStepInv ==
  ASSUME IInv, LocalStep
  PROVE  IInv'
<1> USE DEF LocalStep, Check, Drained, SignalEnd, WaitEnd, Confirm, SpuriousWakeup,
            Step, Running, queueVars, responderVars
<1>1. UNCHANGED <<res_root, posting, queueHolder, operationID, seen, tmp, isEnd, outbox>>
  OBVIOUS
<1>2. TypeOK'
  BY <1>1 DEF IInv, TypeOK, MainPC, ResponderPC
<1>3. NoSleepOnWork'
  BY <1>1 DEF IInv, NoSleepOnWork
<1>4. main' = main \/ {main, main'} \cap {"read", "answering", "closing"} = {}
  OBVIOUS
<1>5. MainPosts'
  BY <1>1, <1>4 DEF IInv, MainPosts
<1>6. AllKnown'
  BY <1>1 DEF IInv, AllKnown, Known
<1>7. responder' \in {"end", "ended"} => isEnd
  BY DEF IInv, CloseLast
<1>8. CloseLast'
  BY <1>1, <1>4, <1>7 DEF IInv, CloseLast, IsTask
<1>9. SharedInOrder'
  BY <1>1 DEF IInv, SharedInOrder, IsShared, Older
<1>10. AnswersWithLater'
  BY <1>1 DEF IInv, AnswersWithLater
<1> QED BY <1>2, <1>3, <1>5, <1>6, <1>8, <1>9, <1>10 DEF IInv

LEMMA ReadOwnInv ==
  ASSUME IInv, NEW r \in Request, ReadOwn(r)
  PROVE  IInv'
<1> DEFINE m == [req |-> r, kind |-> "own"]
<1> USE DEF ReadOwn, Hears, queueVars, responderVars
<1>1. /\ UNCHANGED <<res_root, queueHolder, operationID, responder, tmp, isEnd, outbox>>
      /\ main = "read" /\ main' = "answering"
      /\ r \notin seen /\ seen' = seen \cup {r}
  OBVIOUS
<1>2. m \in Answer /\ m # Close /\ m # Nothing
  BY QueueAssumption DEF Answer
<1>3. /\ posting' \in [Thread -> Answer \cup {Nothing}]
      /\ posting'[Main] = m
      /\ \A q \in Request : posting'[q] = posting[q]
  BY <1>2, Kinds DEF IInv, TypeOK
<1> HIDE DEF ReadOwn
<1>4. TypeOK'
  BY <1>1, <1>3 DEF IInv, TypeOK, MainPC
<1>5. NoSleepOnWork'
  BY <1>1 DEF IInv, NoSleepOnWork
<1>6. MainPosts'
  BY <1>1, <1>2, <1>3 DEF IInv, MainPosts
<1>7. AllKnown'
  <2>1. r # operationID
    BY <1>1, QueueAssumption DEF IInv, AllKnown
  <2> QED BY <1>1, <1>3, <2>1 DEF IInv, AllKnown, Known
<1>8. CloseLast'
  BY <1>1 DEF IInv, CloseLast, IsTask
<1>9. SharedInOrder'
  BY <1>1, <1>3 DEF IInv, SharedInOrder, IsShared, Older
<1>10. AnswersWithLater'
  BY <1>1 DEF IInv, AnswersWithLater
<1> QED BY <1>4, <1>5, <1>6, <1>7, <1>8, <1>9, <1>10 DEF IInv

\* No answer under way is that of a request just read: all are older.
LEMMA ReadSharedInv ==
  ASSUME IInv, NEW r \in Request, ReadShared(r)
  PROVE  IInv'
<1> DEFINE m == [req |-> r, kind |-> "shared"]
<1> USE DEF ReadShared, Hears, queueVars, responderVars
<1>1. /\ UNCHANGED <<res_root, queueHolder, responder, tmp, isEnd, outbox>>
      /\ main = "read" /\ main' = "answering"
      /\ r \notin seen /\ seen' = seen \cup {r}
      /\ operationID' = r /\ r # Nothing
  BY QueueAssumption
<1>2. m \in Answer /\ m # Close /\ m # Nothing
  BY QueueAssumption DEF Answer
<1>3. /\ posting' \in [Thread -> Answer \cup {Nothing}]
      /\ posting'[Main] = m
      /\ \A q \in Request : posting'[q] = posting[q]
  BY <1>2, Kinds DEF IInv, TypeOK
<1> HIDE DEF ReadShared
<1>4. TypeOK'
  BY <1>1, <1>3 DEF IInv, TypeOK, MainPC
<1>5. NoSleepOnWork'
  BY <1>1 DEF IInv, NoSleepOnWork
<1>6. MainPosts'
  BY <1>1, <1>2, <1>3 DEF IInv, MainPosts
<1>7. AllKnown'
  BY <1>1, <1>3 DEF IInv, AllKnown, Known
<1>8. CloseLast'
  BY <1>1 DEF IInv, CloseLast, IsTask
<1>9. SharedInOrder'
  <2>1. \A i \in 1..Len(res_root) : Older(res_root[i])'
    BY <1>1 DEF IInv, AllKnown, Known, Older
  <2>2. Older(tmp)'
    BY <1>1 DEF IInv, AllKnown, Known, Older
  <2>3. \A i \in 1..Len(outbox) : Older(outbox[i].msg)'
    BY <1>1 DEF IInv, AllKnown, Known, Older
  <2>4. UNCHANGED Len(res_root) /\ UNCHANGED Len(outbox)
    BY <1>1
  <2>5. \A k \in 1..Len(res_root) : \A i \in 1..(k - 1) : i \in 1..Len(res_root)
    BY <1>4 DEF TypeOK
  <2> QED BY <2>1, <2>2, <2>3, <2>4, <2>5 DEF SharedInOrder
<1>10. AnswersWithLater'
  BY <1>1 DEF IInv, AnswersWithLater
<1> QED BY <1>4, <1>5, <1>6, <1>7, <1>8, <1>9, <1>10 DEF IInv

LEMMA ReadTaskInv ==
  ASSUME IInv, NEW r \in Request, ReadTask(r)
  PROVE  IInv'
<1> DEFINE m == [req |-> r, kind |-> "task"]
<1> USE DEF ReadTask, Hears, queueVars, responderVars
<1>1. /\ UNCHANGED <<res_root, queueHolder, operationID, main, responder, tmp,
                     isEnd, outbox>>
      /\ r \notin seen /\ seen' = seen \cup {r}
  OBVIOUS
<1>2. m \in Answer
  BY DEF Answer
<1>3. /\ posting' \in [Thread -> Answer \cup {Nothing}]
      /\ posting'[Main] = posting[Main]
      /\ posting'[r] = m
      /\ \A q \in Request \ {r} : posting'[q] = posting[q]
  BY <1>2, Kinds DEF IInv, TypeOK
<1> HIDE DEF ReadTask
<1>4. TypeOK'
  BY <1>1, <1>3 DEF IInv, TypeOK
<1>5. NoSleepOnWork' /\ MainPosts'
  BY <1>1, <1>3 DEF IInv, NoSleepOnWork, MainPosts
<1>6. AllKnown'
  <2>1. r # operationID
    BY <1>1, QueueAssumption DEF IInv, AllKnown
  <2> QED BY <1>1, <1>3, <2>1 DEF IInv, AllKnown, Known
<1>7. CloseLast'
  BY <1>1, <1>3 DEF IInv, CloseLast, IsTask
<1>8. SharedInOrder'
  BY <1>1, <1>3 DEF IInv, SharedInOrder, IsShared, Older
<1>9. AnswersWithLater'
  BY <1>1 DEF IInv, AnswersWithLater
<1> QED BY <1>4, <1>5, <1>6, <1>7, <1>8, <1>9 DEF IInv

LEMMA ReadCloseInv ==
  ASSUME IInv, ReadClose
  PROVE  IInv'
<1> USE DEF ReadClose, queueVars, responderVars
<1>1. /\ UNCHANGED <<res_root, queueHolder, operationID, seen, responder, tmp,
                     isEnd, outbox>>
      /\ main = "read" /\ main' = "closing"
  OBVIOUS
<1>2. /\ posting' \in [Thread -> Answer \cup {Nothing}]
      /\ posting'[Main] = Close
      /\ \A q \in Request : posting'[q] = posting[q]
  BY Kinds DEF IInv, TypeOK, Answer
<1> HIDE DEF ReadClose
<1>3. TypeOK'
  BY <1>1, <1>2 DEF IInv, TypeOK, MainPC
<1>4. NoSleepOnWork' /\ MainPosts'
  BY <1>1, <1>2 DEF IInv, NoSleepOnWork, MainPosts
<1>5. AllKnown'
  BY <1>1, <1>2 DEF IInv, AllKnown, Known
<1>6. CloseLast'
  BY <1>1 DEF IInv, CloseLast
<1>7. SharedInOrder'
  BY <1>1, <1>2 DEF IInv, SharedInOrder, IsShared, Older
<1>8. AnswersWithLater'
  BY <1>1 DEF IInv, AnswersWithLater
<1> QED BY <1>3, <1>4, <1>5, <1>6, <1>7, <1>8 DEF IInv

LEMMA EnqueueInv ==
  ASSUME IInv, NEW t \in Thread, Enqueue(t)
  PROVE  IInv'
<1> DEFINE m == posting[t]
           n == Len(res_root)
<1> USE DEF Enqueue, responderVars
<1>1. /\ UNCHANGED <<operationID, seen, main, responder, tmp, isEnd, outbox>>
      /\ main # "exited" /\ m # Nothing /\ m \in Answer
      /\ queueHolder = Nothing /\ queueHolder' = t /\ t # Nothing
  BY Kinds DEF IInv, TypeOK, Running
<1>2. /\ posting' \in [Thread -> Answer \cup {Nothing}]
      /\ posting'[t] = Nothing
      /\ \A u \in Thread \ {t} : posting'[u] = posting[u]
  BY DEF IInv, TypeOK
<1>3. /\ res_root' \in Seq(Answer) /\ n \in Nat /\ Len(res_root') = n + 1
      /\ \A i \in 1..n : res_root'[i] = res_root[i]
      /\ res_root'[n + 1] = m
  BY <1>1, AppendProperties DEF IInv, TypeOK
<1>4. \/ /\ t = Main
         /\ \/ main = "answering" /\ m # Close
            \/ main = "closing" /\ m = Close
      \/ /\ t \in Request /\ IsTask(m) /\ m.req # operationID
         /\ posting'[Main] = posting[Main]
  <2>1. CASE t = Main
    BY <2>1, <1>1 DEF IInv, MainPosts
  <2>2. CASE t # Main
    <3>1. t \in Request /\ posting'[Main] = posting[Main]
      BY <2>2, <1>2, Kinds DEF Thread
    <3>2. m = [req |-> t, kind |-> "task"] /\ Known(m)
      BY <3>1, <1>1 DEF IInv, AllKnown
    <3>3. m # Close
      BY <3>1, <3>2, QueueAssumption
    <3> QED BY <3>1, <3>2, <3>3 DEF IsTask, Known
  <2> QED BY <2>1, <2>2
<1>5. \A u \in Request \cup {Main} :
        posting'[u] = posting[u] \/ (u = t /\ posting'[u] = Nothing)
  BY <1>2 DEF Thread
<1> HIDE DEF Enqueue, m, n
<1>6. TypeOK'
  BY <1>1, <1>2, <1>3 DEF IInv, TypeOK
<1>7. NoSleepOnWork'
  BY <1>1 DEF NoSleepOnWork
<1>8. MainPosts'
  BY <1>1, <1>2, <1>4, Kinds DEF IInv, MainPosts, m
<1>9. AllKnown'
  <2>1. Known(m)
    BY <1>1 DEF IInv, AllKnown, m, Thread
  <2>2. \A i \in 1..Len(res_root') : res_root'[i] = m \/ \E k \in 1..n : res_root'[i] = res_root[k]
    BY <1>3
  <2>3. \A i \in 1..Len(res_root') : Known(res_root'[i])
    BY <2>1, <2>2 DEF IInv, AllKnown, n
  <2> QED BY <1>1, <1>5, <2>3 DEF IInv, AllKnown, Known
<1>10. CloseLast'
  <2>1. CASE t = Main
    <3>1. /\ ~(tmp = Close \/ isEnd)
          /\ \A i \in 1..n : res_root[i] # Close
      BY <1>1, <1>4, <2>1, Kinds DEF IInv, CloseLast, m, n
    <3>2. /\ main \notin {"read", "answering"} \/ m # Close
          /\ posting'[Main] = Nothing
      BY <1>2, <1>4, <2>1, Kinds
    <3> QED BY <1>1, <1>3, <3>1, <3>2 DEF IInv, CloseLast
  <2>2. CASE t # Main
    <3>1. IsTask(m) /\ m # Close /\ posting'[Main] = posting[Main]
      BY <1>4, <2>2 DEF IsTask
    <3> QED BY <1>1, <1>3, <3>1 DEF IInv, CloseLast, IsTask, n
  <2> QED BY <2>1, <2>2
<1>11. SharedInOrder'
  <2>1. CASE t = Main
    <3>1. ~IsShared(posting[Main])'
      BY <1>2, <2>1, Kinds DEF IsShared
    <3>2. IsShared(m) =>
            /\ \A i \in 1..n : Older(res_root[i])
            /\ Older(tmp)
            /\ \A i \in 1..Len(outbox) : Older(outbox[i].msg)
      BY <2>1 DEF IInv, SharedInOrder, m, n
    <3> QED BY <1>1, <1>3, <3>1, <3>2 DEF IInv, SharedInOrder, IsShared, Older, n
  <2>2. CASE t # Main
    <3>1. ~IsShared(m) /\ Older(m) /\ posting'[Main] = posting[Main]
      BY <1>1, <1>4, <2>2 DEF IsTask, IsShared, Older
    <3> QED BY <1>1, <1>3, <3>1 DEF IInv, SharedInOrder, IsShared, Older, n
  <2> QED BY <2>1, <2>2
<1>12. AnswersWithLater'
  BY <1>1 DEF IInv, AnswersWithLater
<1> QED BY <1>6, <1>7, <1>8, <1>9, <1>10, <1>11, <1>12 DEF IInv

LEMMA SignalInv ==
  ASSUME IInv, NEW t \in Thread, Signal(t)
  PROVE  IInv'
<1> USE DEF Signal
<1>1. /\ UNCHANGED <<res_root, posting, operationID, seen, tmp, isEnd, outbox>>
      /\ queueHolder = t /\ queueHolder' = Nothing /\ t # Nothing
      /\ responder' = IF responder = "wait" THEN "check" ELSE responder
      /\ main' = CASE t = Main /\ main = "answering" -> "read"
                   [] t = Main /\ main = "closing" -> "lockEnd"
                   [] OTHER -> main
      /\ Main # Nothing
  BY Kinds
<1> HIDE DEF Signal
<1>2. TypeOK'
  BY <1>1 DEF IInv, TypeOK, MainPC, ResponderPC
<1>3. NoSleepOnWork'
  BY <1>1 DEF IInv, NoSleepOnWork
<1>4. MainPosts'
  BY <1>1 DEF IInv, MainPosts
<1>5. AllKnown'
  BY <1>1 DEF IInv, AllKnown, Known
<1>6. CloseLast'
  <2>1. main \notin {"read", "answering"} => main' \notin {"read", "answering"}
    BY <1>1
  <2>2. responder' \in {"end", "ended"} => responder \in {"end", "ended"}
    BY <1>1
  <2> QED BY <1>1, <2>1, <2>2 DEF IInv, CloseLast, IsTask
<1>7. SharedInOrder'
  BY <1>1 DEF IInv, SharedInOrder, IsShared, Older
<1>8. AnswersWithLater'
  BY <1>1 DEF IInv, AnswersWithLater
<1> QED BY <1>2, <1>3, <1>4, <1>5, <1>6, <1>7, <1>8 DEF IInv

LEMMA PopInv ==
  ASSUME IInv, Pop
  PROVE  IInv'
<1> USE DEF Pop, Step
<1>1. /\ UNCHANGED <<posting, queueHolder, operationID, seen, main, isEnd, outbox>>
      /\ responder = "drain" /\ responder' = "send" /\ tmp = Nothing
  BY DEF IInv, TypeOK
<1>2. /\ Len(res_root) \in Nat /\ Len(res_root) > 0
      /\ tmp' = res_root[1] /\ tmp' \in Answer /\ tmp' # Nothing
      /\ res_root' \in Seq(Answer) /\ Len(res_root') = Len(res_root) - 1
      /\ \A i \in 1..Len(res_root') : res_root'[i] = res_root[i + 1]
  BY HeadTailProperties, Kinds DEF IInv, TypeOK
<1> HIDE DEF Pop
<1>3. TypeOK'
  BY <1>1, <1>2 DEF IInv, TypeOK, ResponderPC
<1>4. NoSleepOnWork' /\ MainPosts'
  BY <1>1 DEF IInv, NoSleepOnWork, MainPosts
<1>5. AllKnown'
  BY <1>1, <1>2 DEF IInv, AllKnown, Known
<1>6. CloseLast'
  <2>1. ASSUME NEW i \in 1..Len(res_root), res_root[i] = Close
        PROVE  /\ main \notin {"read", "answering"} /\ posting[Main] = Nothing
               /\ \A k \in i..Len(res_root') : IsTask(res_root'[k])
    <3>1. ASSUME NEW k \in i..Len(res_root')
          PROVE  k \in 1..Len(res_root') /\ k + 1 \in (i + 1)..Len(res_root)
      BY <1>2
    <3>2. /\ main \notin {"read", "answering"} /\ posting[Main] = Nothing
          /\ \A k \in (i + 1)..Len(res_root) : IsTask(res_root[k])
      BY <2>1 DEF IInv, CloseLast
    <3> QED BY <1>2, <3>1, <3>2
  <2>2. \A i \in 1..Len(res_root') : res_root'[i] = Close =>
          /\ main' \notin {"read", "answering"} /\ posting'[Main] = Nothing
          /\ \A k \in (i + 1)..Len(res_root') : IsTask(res_root'[k])
    <3> SUFFICES ASSUME NEW i \in 1..Len(res_root'), res_root'[i] = Close
                 PROVE  /\ main \notin {"read", "answering"} /\ posting[Main] = Nothing
                        /\ \A k \in (i + 1)..Len(res_root') : IsTask(res_root'[k])
      BY <1>1
    <3>1. i + 1 \in 1..Len(res_root) /\ res_root[i + 1] = Close
      BY <1>2
    <3> QED BY <2>1, <3>1
  <2>3. tmp' = Close \/ isEnd' =>
          /\ main' \notin {"read", "answering"} /\ posting'[Main] = Nothing
          /\ \A k \in 1..Len(res_root') : IsTask(res_root'[k])
    <3>1. CASE tmp' = Close
      <4>1. 1 \in 1..Len(res_root) /\ res_root[1] = Close
        BY <1>2, <3>1
      <4> QED BY <1>1, <2>1, <4>1
    <3>2. CASE isEnd'
      BY <1>1, <1>2, <3>2 DEF IInv, CloseLast
    <3> QED BY <3>1, <3>2
  <2> QED BY <1>1, <2>2, <2>3 DEF IInv, CloseLast, IsTask
<1>7. SharedInOrder'
  <2>3. 1 \in 1..Len(res_root) /\ Len(outbox') = Len(outbox)
    BY <1>1, <1>2
  <2>4. ASSUME IsShared(posting[Main])'
        PROVE  /\ \A i \in 1..Len(res_root') : Older(res_root[i])'
               /\ Older(tmp)'
               /\ \A i \in 1..Len(outbox') : Older(outbox[i].msg)'
    <3>1. IsShared(posting[Main])
      BY <1>1, <2>4 DEF IsShared
    <3>2. \A i \in 1..Len(res_root) : Older(res_root[i])
      BY <3>1 DEF IInv, SharedInOrder
    <3>3. \A i \in 1..Len(outbox) : Older(outbox[i].msg)
      BY <3>1 DEF IInv, SharedInOrder
    <3> QED BY <1>1, <1>2, <2>3, <3>2, <3>3 DEF Older
  <2>5. ASSUME NEW k \in 1..Len(res_root'), IsShared(res_root[k])'
        PROVE  /\ \A i \in 1..(k - 1) : Older(res_root[i])'
               /\ Older(tmp)'
               /\ \A i \in 1..Len(outbox') : Older(outbox[i].msg)'
    <3>1. k + 1 \in 1..Len(res_root) /\ IsShared(res_root[k + 1])
      BY <1>2, <2>5 DEF IsShared
    <3>2. \A i \in 1..k : Older(res_root[i])
      BY <3>1 DEF IInv, SharedInOrder
    <3>3. \A i \in 1..Len(outbox) : Older(outbox[i].msg)
      BY <3>1 DEF IInv, SharedInOrder
    <3> QED BY <1>1, <1>2, <2>3, <3>2, <3>3 DEF Older
  <2>6. ASSUME IsShared(tmp)'
        PROVE  \A i \in 1..Len(outbox') : Older(outbox[i].msg)'
    <3>1. IsShared(res_root[1])
      BY <1>2, <2>6 DEF IsShared
    <3>2. \A i \in 1..Len(outbox) : Older(outbox[i].msg)
      BY <2>3, <3>1 DEF IInv, SharedInOrder
    <3> QED BY <1>1, <2>3, <3>2 DEF Older
  <2> QED BY <2>4, <2>5, <2>6 DEF SharedInOrder
<1>8. AnswersWithLater'
  BY <1>1 DEF IInv, AnswersWithLater
<1> QED BY <1>3, <1>4, <1>5, <1>6, <1>7, <1>8 DEF IInv

LEMMA SendInv ==
  ASSUME IInv, Send
  PROVE  IInv'
<1> DEFINE n == Len(outbox)
           sent == [msg |-> tmp, op |-> SentOp(tmp)]
<1> USE DEF Send, Step, queueVars
<1>1. /\ UNCHANGED <<res_root, posting, queueHolder, operationID, seen, main>>
      /\ responder = "send" /\ responder' = "drain" /\ tmp' = Nothing
      /\ isEnd' = (isEnd \/ tmp = Close)
      /\ tmp # Nothing /\ tmp \in Answer
  BY DEF IInv, TypeOK
<1>2. SentOp(tmp) \in Request \cup {Nothing}
  BY <1>1, Kinds DEF IInv, TypeOK, SentOp
<1>3. /\ outbox' \in Seq([msg : Answer, op : Request \cup {Nothing}])
      /\ n \in Nat /\ Len(outbox') = n + 1
      /\ \A i \in 1..n : outbox'[i] = outbox[i]
      /\ outbox'[n + 1].msg = tmp /\ outbox'[n + 1].op = SentOp(tmp)
  <2>1. sent \in [msg : Answer, op : Request \cup {Nothing}]
    BY <1>1, <1>2
  <2> HIDE DEF sent
  <2>2. outbox' = Append(outbox, sent)
    BY DEF sent
  <2>3. outbox'[n + 1] = sent
    BY <2>1, <2>2, AppendProperties DEF IInv, TypeOK
  <2> QED BY <2>1, <2>2, <2>3, AppendProperties DEF IInv, TypeOK, sent
<1> HIDE DEF Send, n, sent
<1>4. TypeOK'
  BY <1>1, <1>3 DEF IInv, TypeOK, ResponderPC
<1>5. NoSleepOnWork' /\ MainPosts'
  BY <1>1 DEF IInv, NoSleepOnWork, MainPosts
<1>6. AllKnown'
  BY <1>1, <1>3 DEF IInv, AllKnown, Known, n
<1>7. CloseLast'
  <2>1. isEnd' <=> \E i \in 1..Len(outbox') : outbox'[i].msg = Close
    <3>1. isEnd <=> \E i \in 1..n : outbox[i].msg = Close
      BY DEF IInv, CloseLast, n
    <3>2. n + 1 \in 1..Len(outbox') /\ \A i \in 1..Len(outbox') : i = n + 1 \/ i \in 1..n
      BY <1>3
    <3>3. 1..n \subseteq 1..Len(outbox')
      BY <1>3
    <3> QED BY <1>1, <1>3, <3>1, <3>2, <3>3
  <2>2. tmp' # Close
    BY <1>1, Kinds DEF Answer
  <2>3. isEnd' =>
          /\ main' \notin {"read", "answering"} /\ posting'[Main] = Nothing
          /\ \A k \in 1..Len(res_root') : IsTask(res_root'[k])
    BY <1>1 DEF IInv, CloseLast
  <2>4. \A i \in 1..Len(res_root') : res_root'[i] = Close =>
          /\ main' \notin {"read", "answering"} /\ posting'[Main] = Nothing
          /\ \A k \in (i + 1)..Len(res_root') : IsTask(res_root'[k])
    BY <1>1 DEF IInv, CloseLast
  <2>5. responder' \notin {"end", "ended"}
    BY <1>1
  <2> QED BY <2>1, <2>2, <2>3, <2>4, <2>5 DEF CloseLast, IsTask
<1>8. SharedInOrder'
  BY <1>1, <1>3 DEF IInv, SharedInOrder, IsShared, Older, n
<1>9. AnswersWithLater'
  <2>1. CASE tmp = Close \/ tmp.kind # "shared"
    BY <1>1, <1>3, <2>1 DEF IInv, AnswersWithLater, SentOp, n
  <2>2. CASE tmp # Close /\ tmp.kind = "shared"
    <3>1. SentOp(tmp) = operationID /\ operationID # Nothing
      BY <1>1, <2>2 DEF IInv, AllKnown, Known, SentOp
    <3>2. \A j \in 1..n : Older(outbox[j].msg)
      BY <1>1, <2>2 DEF IInv, SharedInOrder, IsShared, n
    <3>3. \A j \in 1..n : outbox[j].msg # Nothing
      <4>1. outbox \in Seq([msg : Answer, op : Request \cup {Nothing}])
        BY DEF IInv, TypeOK
      <4>2. \A j \in 1..n : outbox[j] \in [msg : Answer, op : Request \cup {Nothing}]
        BY <4>1, ElementOfSeq DEF n
      <4> QED BY <4>2, Kinds
    <3> QED BY <1>1, <1>3, <2>2, <3>1, <3>2, <3>3 DEF IInv, AnswersWithLater, Older, n
  <2> QED BY <2>1, <2>2
<1> QED BY <1>4, <1>5, <1>6, <1>7, <1>8, <1>9 DEF IInv

LEMMA NextInv ==
  ASSUME IInv, [Next]_vars
  PROVE  IInv'
<1>1. ASSUME NEW r \in Request, ReadOwn(r) PROVE IInv'
  BY <1>1, ReadOwnInv
<1>2. ASSUME NEW r \in Request, ReadShared(r) PROVE IInv'
  BY <1>2, ReadSharedInv
<1>3. ASSUME NEW r \in Request, ReadTask(r) PROVE IInv'
  BY <1>3, ReadTaskInv
<1>4. CASE ReadClose
  BY <1>4, ReadCloseInv
<1>5. ASSUME NEW t \in Thread, Post(t) PROVE IInv'
  BY <1>5, EnqueueInv, SignalInv DEF Post
<1>6. CASE LocalStep
  BY <1>6, LocalStepInv
<1>7. CASE Pop
  BY <1>7, PopInv
<1>8. CASE Send
  BY <1>8, SendInv
<1>9. CASE UNCHANGED vars
  <2> USE <1>9 DEF vars
  <2>1. TypeOK' /\ NoSleepOnWork' /\ MainPosts'
    BY DEF IInv, TypeOK, NoSleepOnWork, MainPosts
  <2>2. AllKnown' /\ CloseLast'
    BY DEF IInv, AllKnown, Known, CloseLast, IsTask
  <2>3. SharedInOrder' /\ AnswersWithLater'
    BY DEF IInv, SharedInOrder, IsShared, Older, AnswersWithLater
  <2> QED BY <2>1, <2>2, <2>3 DEF IInv
<1> QED BY <1>1, <1>2, <1>3, <1>4, <1>5, <1>6, <1>7, <1>8, <1>9 DEF Next, Respond, LocalStep

\* IInv is an invariant of the session.
THEOREM Invariance == Spec => []IInv
<1>1. Init => IInv
  BY InitInv
<1>2. IInv /\ [Next]_vars => IInv'
  BY NextInv
<1> QED BY <1>1, <1>2, PTL DEF Spec

-----------------------------------------------------------------------------
(* The properties. *)

\* The variables of the command loop and the response queue keep their types, and
\* the response thread has a response in hand exactly while it sends.
THEOREM TypeCorrect == Spec => []TypeOK
<1>1. IInv => TypeOK
  BY DEF IInv
<1> QED BY <1>1, Invariance, PTL

\* The response thread never sleeps on a queue with something in it, but for the
\* moment before the signal (no wakeup is lost between res_mutex and
\* res_queue_mutex).
THEOREM NeverSleepsOnWork == Spec => []NoSleepOnWork
<1>1. IInv => NoSleepOnWork
  BY DEF IInv
<1> QED BY <1>1, Invariance, PTL

\* The response thread ends only after it has sent 0x88 and all answers of the
\* main thread; only workers' late answers stay in the queue.
THEOREM EndsOnlyDrained == Spec => []EndsDrained
<1>1. IInv => EndsDrained
  BY DEF IInv, CloseLast, EndsDrained, IsTask
<1> QED BY <1>1, Invariance, PTL

\* An answer carries the operation id of its request or, for the lists, that of a
\* later request whose answer is still to come.
THEOREM AnswersNameOpenRequests == Spec => []AnswersWithLater
<1>1. IInv => AnswersWithLater
  BY DEF IInv
<1> QED BY <1>1, Invariance, PTL

-----------------------------------------------------------------------------
(* The refinement of ResponseChannel, step by step. *)

Pending == (IF tmp = Nothing THEN <<>> ELSE <<tmp>>) \o res_root
Sent == [i \in 1..Len(outbox) |-> outbox[i].msg]

LEMMA InitRefines == Init => Channel!Init
<1> SUFFICES ASSUME Init PROVE Channel!Init
  OBVIOUS
<1>1. Pending = <<>>
  BY ConcatEmptySeq, EmptySeq DEF Pending, Init
<1>2. Sent = <<>>
  BY DEF Sent, Init
<1>3. (main = "exited") = FALSE
  BY DEF Init
<1> QED BY <1>1, <1>2, <1>3 DEF Channel!Init, Pending, Sent

\* Queueing a response hands it to the channel.
LEMMA EnqueueRefines ==
  ASSUME TypeOK, NEW t \in Thread, Enqueue(t)
  PROVE  Channel!Next
<1> DEFINE m == posting[t]
           h == IF tmp = Nothing THEN <<>> ELSE <<tmp>>
<1>1. m \in Answer /\ res_root' = Append(res_root, m) /\ UNCHANGED <<tmp, outbox>>
  BY DEF Enqueue, TypeOK, responderVars
<1>2. h \in Seq(Answer) /\ res_root \in Seq(Answer)
  BY DEF TypeOK
<1> HIDE DEF m, h
<1>3. h \o Append(res_root, m) = Append(h \o res_root, m)
  BY <1>1, <1>2, ConcatProperties, AppendProperties
<1>4. Pending = h \o res_root /\ Pending' = h \o res_root'
  BY <1>1 DEF Pending, h
<1>5. Sent' = Sent
  BY <1>1 DEF Sent
<1>6. Pending' = Append(Pending, m)
  BY <1>1, <1>3, <1>4
<1>7. ~(main = "exited") /\ (main = "exited")' = (main = "exited")
  BY DEF Enqueue, Running
<1> QED BY <1>1, <1>5, <1>6, <1>7 DEF Channel!Next, Channel!Submit, Pending, Sent

\* Writing a response to the socket delivers the oldest one.
LEMMA SendRefines ==
  ASSUME TypeOK, Send
  PROVE  Channel!Next
<1>1. /\ res_root' = res_root /\ tmp' = Nothing /\ tmp # Nothing /\ tmp \in Answer
      /\ res_root \in Seq(Answer)
      /\ outbox' = Append(outbox, [msg |-> tmp, op |-> SentOp(tmp)])
  BY DEF Send, Step, TypeOK, queueVars
<1>2. Pending = <<tmp>> \o res_root /\ Pending' = <<>> \o res_root
  BY <1>1 DEF Pending
<1>3. Pending # <<>> /\ Head(Pending) = tmp /\ Tail(Pending) = Pending'
  BY <1>1, <1>2
<1>4. Sent' = Append(Sent, tmp)
  BY <1>1 DEF Sent, TypeOK
<1>5. ~(main = "exited") /\ (main = "exited")' = (main = "exited")
  BY DEF Send, Step, Running
<1> QED BY <1>3, <1>4, <1>5 DEF Channel!Next, Channel!Deliver, Pending, Sent

LEMMA NextRefines ==
  ASSUME TypeOK, [Next]_vars
  PROVE  [Channel!Next]_(Channel!vars)
<1>1. ASSUME NEW t \in Thread, Enqueue(t) PROVE Channel!Next
  BY <1>1, EnqueueRefines
<1>2. CASE Send
  BY <1>2, SendRefines
<1>3. CASE Pop
  <2>1. /\ tmp = Nothing /\ res_root \in Seq(Answer) /\ res_root # <<>>
        /\ tmp' = Head(res_root) /\ res_root' = Tail(res_root)
        /\ outbox' = outbox /\ tmp' # Nothing /\ main' = main
    BY <1>3, HeadTailProperties, Kinds DEF Pop, Step, TypeOK
  <2>2. Pending = <<>> \o res_root /\ Pending' = <<Head(res_root)>> \o Tail(res_root)
    BY <2>1 DEF Pending
  <2>3. Pending' = Pending
    BY <2>1, <2>2
  <2> QED BY <2>1, <2>3 DEF Channel!vars, Pending, Sent
<1>4. CASE UNCHANGED <<res_root, tmp, outbox>>
  <2>1. Pending' = Pending /\ Sent' = Sent
    BY <1>4 DEF Pending, Sent
  <2>2. (main = "exited")' = (main = "exited") \/ (main = "exited")' = TRUE
    <3>1. main = "exited" => main' = "exited"
      BY <1>4 DEF Next, vars, ReadOwn, ReadShared, ReadTask, ReadClose, Hears, Post,
         Enqueue, Signal, Respond, Check, Pop, Drained, Send, SignalEnd, WaitEnd, Confirm,
         SpuriousWakeup, Step, Running, queueVars, responderVars
    <3> QED BY <3>1
  <2> QED BY <2>1, <2>2 DEF Channel!Next, Channel!Cut, Channel!vars, Pending, Sent
<1>5. \/ \E t \in Thread : Enqueue(t)
      \/ Send \/ Pop
      \/ UNCHANGED <<res_root, tmp, outbox>>
  BY DEF Next, vars, ReadOwn, ReadShared, ReadTask, ReadClose, Post, Signal, Respond,
         Check, Drained, SignalEnd, WaitEnd, Confirm, SpuriousWakeup, Step,
         queueVars, responderVars
<1> QED BY <1>1, <1>2, <1>3, <1>4, <1>5

\* Whatever the threads do, responses leave in the order in which they were queued,
\* each once: every step is a step of the channel or changes nothing in it.  (That
\* what is pending is delivered, the fairness part of ImplementsChannel, is left
\* to TLC.)
THEOREM QueueIsChannel == Spec => Channel!Init /\ [][Channel!Next]_(Channel!vars)
<1>1. Init => Channel!Init
  BY InitRefines
<1>2. TypeOK /\ [Next]_vars => [Channel!Next]_(Channel!vars)
  BY NextRefines
<1> QED BY <1>1, <1>2, TypeCorrect, PTL DEF Spec
=============================================================================
