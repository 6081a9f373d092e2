---------------------------- MODULE ResponseQueue ----------------------------
(***************************************************************************)
(* The command loop, the response queue and the end of a connection        *)
(* (commandInterpreter, addResponseQueue, responseThread in                *)
(* server/Client.cpp).                                                     *)
(*                                                                         *)
(* The main thread reads requests.  It answers some itself, by queueing a  *)
(* response; it gives others to a worker, which queues the response later. *)
(* One response thread sends what is queued.  After queueing 0x88 the main *)
(* thread waits for the response thread to end, then for the client's      *)
(* close, and the process exits with all its threads.                      *)
(***************************************************************************)
EXTENDS Integers, Sequences, FiniteSets

CONSTANTS
  Request, \* requests the client sends, each with its operation id
  Main,    \* the main thread; workers are named by their request
  Close,   \* the response 0x88
  Nothing  \* no message, nobody

\* A response carries its operation id, be it the main thread's ("own") or a
\* worker's ("task"), or finds it in cd_root when it is sent ("shared").
Answer == [req : Request, kind : {"own", "task", "shared"}] \cup {Close}

ASSUME QueueAssumption ==
  /\ IsFiniteSet(Request)
  /\ Main \notin Request
  /\ Close \notin [req : Request, kind : {"own", "task", "shared"}]
  /\ Nothing \notin Request \cup {Main} \cup Answer

Thread == Request \cup {Main}

VARIABLES
  res_root,    \* the queue, oldest first
  posting,     \* thread -> the response it is about to queue
  queueHolder, \* who holds res_queue_mutex and has still to signal
  operationID, \* cd_root->operationID (and, alike, ld_root->operationID)
  seen,        \* requests read so far
  main,        \* where the main thread is
  responder,   \* where the response thread is
  tmp,         \* the response it has taken from the queue
  isEnd,       \* its flag: 0x88 has been sent
  outbox       \* what has been sent: the response and the operation id in it

vars == <<res_root, posting, queueHolder, operationID, seen, main, responder,
          tmp, isEnd, outbox>>

MainPC == {"read", "answering", "closing", "lockEnd", "waitEnd", "confirm", "exited"}
ResponderPC == {"check", "wait", "drain", "send", "end", "ended"}

TypeOK ==
  /\ res_root \in Seq(Answer)
  /\ posting \in [Thread -> Answer \cup {Nothing}]
  /\ queueHolder \in Thread \cup {Nothing}
  /\ operationID \in Request \cup {Nothing}
  /\ seen \subseteq Request
  /\ main \in MainPC
  /\ responder \in ResponderPC
  /\ tmp \in Answer \cup {Nothing}
  /\ tmp # Nothing <=> responder = "send"
  /\ isEnd \in BOOLEAN
  /\ outbox \in Seq([msg : Answer, op : Request \cup {Nothing}])

Init ==
  /\ res_root = <<>>
  /\ posting = [t \in Thread |-> Nothing]
  /\ queueHolder = Nothing
  /\ operationID = Nothing
  /\ seen = {}
  /\ main = "read"
  /\ responder = "check"
  /\ tmp = Nothing
  /\ isEnd = FALSE
  /\ outbox = <<>>

queueVars == <<res_root, queueHolder>>
responderVars == <<responder, tmp, isEnd, outbox>>

-----------------------------------------------------------------------------
(* commandInterpreter *)

Hears(r) == main = "read" /\ r \notin seen /\ seen' = seen \cup {r}

\* 0x00, 0x04, 0x20 and every request refused at once: the info is the answer's own.
ReadOwn(r) ==
  /\ Hears(r)
  /\ posting' = [posting EXCEPT ![Main] = [req |-> r, kind |-> "own"]]
  /\ main' = "answering"
  /\ UNCHANGED <<queueVars, operationID, responderVars>>

\* 0x02 and 0x03: readGetService and readGetDrive keep the operation id in the
\* list they will send.
ReadShared(r) ==
  /\ Hears(r)
  /\ operationID' = r
  /\ posting' = [posting EXCEPT ![Main] = [req |-> r, kind |-> "shared"]]
  /\ main' = "answering"
  /\ UNCHANGED <<queueVars, responderVars>>

\* 0x21, 0x22 (for its 0x23), 0x28, 0x29: a worker answers when it is done.
ReadTask(r) ==
  /\ Hears(r)
  /\ posting' = [posting EXCEPT ![r] = [req |-> r, kind |-> "task"]]
  /\ UNCHANGED <<queueVars, operationID, main, responderVars>>

\* The client's 0x88, or an error on the connection.
ReadClose ==
  /\ main = "read"
  /\ posting' = [posting EXCEPT ![Main] = Close]
  /\ main' = "closing"
  /\ UNCHANGED <<queueVars, operationID, seen, responderVars>>

-----------------------------------------------------------------------------
(* addResponseQueue *)

Running == main # "exited"

\* Mutant: the branches of line 294 swapped, the queue is overwritten.
EnqueueAlone(t) ==
  /\ Running
  /\ posting[t] # Nothing
  /\ queueHolder = Nothing
  /\ res_root' = <<posting[t]>>
  /\ posting' = [posting EXCEPT ![t] = Nothing]
  /\ queueHolder' = t
  /\ UNCHANGED <<operationID, seen, main, responderVars>>

Enqueue(t) ==
  /\ Running
  /\ posting[t] # Nothing
  /\ queueHolder = Nothing
  /\ res_root' = Append(res_root, posting[t])
  /\ posting' = [posting EXCEPT ![t] = Nothing]
  /\ queueHolder' = t
  /\ UNCHANGED <<operationID, seen, main, responderVars>>

\* Mutant: no signal.
SignalNobody(t) ==
  /\ Running
  /\ queueHolder = t
  /\ queueHolder' = Nothing
  /\ main' = CASE t = Main /\ main = "answering" -> "read"
               [] t = Main /\ main = "closing" -> "lockEnd"
               [] OTHER -> main
  /\ UNCHANGED <<res_root, posting, operationID, seen, responderVars>>

\* The signal, both unlocks and the return.
Signal(t) ==
  /\ Running
  /\ queueHolder = t
  /\ queueHolder' = Nothing
  /\ responder' = IF responder = "wait" THEN "check" ELSE responder
  /\ main' = CASE t = Main /\ main = "answering" -> "read"
               [] t = Main /\ main = "closing" -> "lockEnd"
               [] OTHER -> main
  /\ UNCHANGED <<res_root, posting, operationID, seen, tmp, isEnd, outbox>>

-----------------------------------------------------------------------------
(* responseThread.  It tests res_root and sleeps under res_mutex: a signal *)
(* comes before or after both. *)

Step(from, to) == Running /\ responder = from /\ responder' = to

Check ==
  /\ \/ res_root = <<>> /\ Step("check", "wait")
     \/ res_root # <<>> /\ Step("check", "drain")
  /\ UNCHANGED <<queueVars, posting, operationID, seen, main, tmp, isEnd, outbox>>

\* The inner loop goes on while there is something, the 0x88 sent or not.
Pop ==
  /\ Step("drain", "send")
  /\ res_root # <<>>
  /\ queueHolder = Nothing
  /\ tmp' = Head(res_root)
  /\ res_root' = Tail(res_root)
  /\ UNCHANGED <<posting, queueHolder, operationID, seen, main, isEnd, outbox>>

\* Mutant: the outer loop does not look at isEnd.
DrainedOnce ==
  /\ res_root = <<>>
  /\ Step("drain", "end")
  /\ UNCHANGED <<queueVars, posting, operationID, seen, main, tmp, isEnd, outbox>>

Drained ==
  /\ res_root = <<>>
  /\ Step("drain", IF isEnd THEN "end" ELSE "check")
  /\ UNCHANGED <<queueVars, posting, operationID, seen, main, tmp, isEnd, outbox>>

\* Mutant: the answers of the main thread all take the id of the lists.
SentOpOfList(m) ==
  IF m = Close THEN Nothing
  ELSE IF m.kind # "task" THEN operationID ELSE m.req

SentOp(m) ==
  IF m = Close THEN Nothing
  ELSE IF m.kind = "shared" THEN operationID ELSE m.req

\* Mutant: the response is not freed.
SendKeeping ==
  /\ Step("send", "drain")
  /\ outbox' = Append(outbox, [msg |-> tmp, op |-> SentOp(tmp)])
  /\ isEnd' = (isEnd \/ tmp = Close)
  /\ UNCHANGED <<queueVars, posting, operationID, seen, main, tmp>>

Send ==
  /\ Step("send", "drain")
  /\ outbox' = Append(outbox, [msg |-> tmp, op |-> SentOp(tmp)])
  /\ isEnd' = (isEnd \/ tmp = Close)
  /\ tmp' = Nothing
  /\ UNCHANGED <<queueVars, posting, operationID, seen, main>>

\* Line 359 signals without the mutex, whether the main thread waits or not.
SignalEnd ==
  /\ Step("end", "ended")
  /\ main' = IF main = "waitEnd" THEN "confirm" ELSE main
  /\ UNCHANGED <<queueVars, posting, operationID, seen, tmp, isEnd, outbox>>

-----------------------------------------------------------------------------
(* The end of commandInterpreter, and of the process. *)

WaitEnd ==
  /\ main = "lockEnd"
  /\ main' = "waitEnd"
  /\ UNCHANGED <<queueVars, posting, operationID, seen, responderVars>>

\* The client answers the close it has been sent with its own, or closes unasked, or
\* has gone, for which recvMsg returns 0x88 too.
Confirm ==
  /\ main = "confirm"
  /\ main' = "exited"
  /\ UNCHANGED <<queueVars, posting, operationID, seen, responderVars>>

\* pthread_cond_wait may return unsignalled; only the first wait is in a loop.
SpuriousWakeup ==
  /\ \/ /\ responder = "wait" /\ Running
        /\ responder' = "check"
        /\ UNCHANGED main
     \/ /\ main = "waitEnd"
        /\ main' = "confirm"
        /\ UNCHANGED responder
  /\ UNCHANGED <<queueVars, posting, operationID, seen, tmp, isEnd, outbox>>

-----------------------------------------------------------------------------
Post(t) == Enqueue(t) \/ Signal(t)

Respond == Check \/ Pop \/ Drained \/ Send \/ SignalEnd

Next ==
  \/ \E r \in Request : ReadOwn(r) \/ ReadShared(r) \/ ReadTask(r)
  \/ ReadClose
  \/ \E t \in Thread : Post(t)
  \/ Respond
  \/ WaitEnd \/ Confirm
  \/ SpuriousWakeup

Spec == Init /\ [][Next]_vars

\* Threads run and drivers return.  res_queue_mutex is strongly fair: a worker
\* is not passed over for ever.  The client need not send anything, nor leave, but
\* once it has been sent a close it does one or the other.
CloseSent == \E i \in 1..Len(outbox) : outbox[i].msg = Close

Fairness ==
  /\ \A t \in Thread : SF_vars(Enqueue(t)) /\ WF_vars(Signal(t))
  /\ SF_vars(Pop)
  /\ WF_vars(Respond)
  /\ WF_vars(WaitEnd) /\ WF_vars(CloseSent /\ Confirm)

FairSpec == Spec /\ Fairness

-----------------------------------------------------------------------------
\* The response thread never sleeps on a queue with something in it, unless
\* the thread that has put it there is about to signal.
NoSleepOnWork ==
  responder = "wait" /\ res_root # <<>> => queueHolder # Nothing

\* The response thread ends only after it has sent 0x88 and every answer of the
\* main thread: what it leaves behind came too late, and from a worker.
EndsDrained ==
  responder \in {"end", "ended"} =>
    /\ \E i \in 1..Len(outbox) : outbox[i].msg = Close
    /\ posting[Main] = Nothing
    /\ \A i \in 1..Len(res_root) : res_root[i] # Close /\ res_root[i].kind = "task"

\* An answer names its request, except that the answer to 0x02 or 0x03 may name
\* a request of the same kind that was read after it (Client.cpp:392: one id for
\* the list, overwritten by the next request): never one that has been answered,
\* so that the client meets an id twice but not one it no longer waits for.
AnswersWithLater ==
  \A i \in 1..Len(outbox) :
    LET m == outbox[i].msg
        op == outbox[i].op
    IN  m = Close \/ op = m.req \/
        /\ m.kind = "shared" /\ op # Nothing
        /\ \A j \in 1..(i - 1) : outbox[j].msg = Close \/ outbox[j].msg.req # op

\* The comment on line 279: the main thread waits for the response thread to
\* end, and goes on when it has.
SessionEnds == main = "lockEnd" ~> main = "exited"

=============================================================================
