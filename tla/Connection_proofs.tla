-------------------------- MODULE Connection_proofs --------------------------
(***************************************************************************)
(* Proofs about the way of a connection through the process: Server, which *)
(* admits it, Frames, which reads it, and Transfers, which moves its       *)
(* chunks.  The three share no definition.                                 *)
(*                                                                         *)
(* Server, for any number of connections and any max_conn: the point is    *)
(* what the loop still knows after the handler may have run.  conn_count   *)
(* only falls between the test and the store, and what the store writes    *)
(* was loaded at a time when it covered all processes.                     *)
(*                                                                         *)
(* Frames, for messages cut into frames in any way, any declared size and  *)
(* any package size: the point is that payloadLen, the key and             *)
(* maxSaveSize, which recvMsg and readSaveFile only update, agree with the *)
(* place in the stream until a first read of a frame goes past it, and     *)
(* that what is written later is written behind the bytes that came.       *)
(*                                                                         *)
(* Transfers, for any chunks, sizes and number of slots: the point is that *)
(* a download is in newTemp only while it occupies a slot, so that in the  *)
(* deadlock no thread is left that could delete a file.                    *)
(***************************************************************************)
EXTENDS Server, Frames, Transfers, SetLemmas, SequenceTheorems

-----------------------------------------------------------------------------
(* Server *)

\* The loop has a connection at hand unless it waits for one; a process for it
\* is started only with room, and the increment never exceeds max_conn.
LoopKnows ==
  /\ main # "accept" => connfd \in Conn
  /\ main = "fork" => process[connfd] = "none"
  /\ main \in {"fork", "load"} => conn_count < max_conn
  /\ main = "store" => register < max_conn

\* During the store conn_count itself lacks no more than the one process.
StoreLag == main = "store" => Cardinality(Unreaped) <= conn_count + 1

ServerInv ==
  /\ ServerTypeOK
  /\ LoopKnows
  /\ StoreLag
  /\ CountNeverLow
  /\ ActiveLimit

-----------------------------------------------------------------------------
LEMMA FiniteUnreaped ==
  /\ IsFiniteSet(Unreaped) /\ IsFiniteSet(In("ended"))
  /\ Cardinality(Unreaped) \in Nat /\ Cardinality(In("ended")) \in Nat
<1>1. Unreaped \in SUBSET Conn /\ In("ended") \in SUBSET Conn
  BY DEF Unreaped, In
<1>2. QED
  BY <1>1, ServerAssumption, FS_Subset, FS_CardinalityType

\* A new process is one more.
LEMMA OneMore ==
  ASSUME NEW c \in Conn, process[c] = "none", ServerTypeOK,
         process' = [process EXCEPT ![c] = "running"]
  PROVE  Cardinality(Unreaped)' = Cardinality(Unreaped) + 1
<1>1. Unreaped' = Unreaped \cup {c} /\ c \notin Unreaped
  BY DEF Unreaped, In, ServerTypeOK
<1>2. QED
  BY <1>1, FiniteUnreaped, FS_AddElement

\* The handler reaps exactly those that have ended.
LEMMA Reaped ==
  ASSUME ServerTypeOK, ClientClose
  PROVE  /\ Cardinality(Unreaped)' = Cardinality(Unreaped) - Cardinality(In("ended"))
         /\ Cardinality(In("ended")) <= Cardinality(Unreaped)
<1>1. Unreaped' = Unreaped \ In("ended")
  BY DEF Unreaped, In, ServerTypeOK, ClientClose
<1>2. Unreaped \cap In("ended") = In("ended")
  BY DEF Unreaped
<1>3. Cardinality(In("ended")) <= Cardinality(Unreaped)
  BY <1>2, FiniteUnreaped, FS_Subset
<1>4. QED
  BY <1>1, <1>2, <1>3, FiniteUnreaped, FS_Difference

-----------------------------------------------------------------------------
LEMMA InitServerInv == ServerInit => ServerInv
<1> SUFFICES ASSUME ServerInit PROVE ServerInv
  OBVIOUS
<1>1. Unreaped = {}
  BY DEF ServerInit, Unreaped, In
<1>2. Cardinality(Unreaped) = 0
  BY <1>1, FS_EmptySet
<1>3. ServerTypeOK
  <2>1. conn_count \in -1..max_conn /\ register \in -1..max_conn
    BY ServerAssumption DEF ServerInit
  <2>2. process \in [Conn -> {"none", "running", "ended"}]
    BY DEF ServerInit
  <2>3. QED
    BY <2>1, <2>2 DEF ServerInit, ServerTypeOK
<1>6. LoopKnows
  BY DEF ServerInit, LoopKnows
<1>4. StoreLag /\ CountNeverLow /\ ActiveLimit
  BY <1>2, ServerAssumption DEF ServerInit, StoreLag, CountNeverLow, ActiveLimit, Settled
<1>5. QED
  BY <1>3, <1>6, <1>4 DEF ServerInv

LEMMA NextServerInv == ServerInv /\ [ServerNext]_serverVars => ServerInv'
<1> SUFFICES ASSUME ServerInv, [ServerNext]_serverVars PROVE ServerInv'
  OBVIOUS
<1> USE ServerAssumption DEF ServerInv
<1> DEFINE n == Cardinality(Unreaped)
<1>n. n \in Nat /\ n <= Settled /\ n <= max_conn
  BY FiniteUnreaped DEF CountNeverLow, ActiveLimit
<1>1. ASSUME NEW c \in Conn, Accept(c) PROVE ServerInv'
  <2>1. n' = n
    BY <1>1 DEF Accept, Unreaped, In
  <2>2. QED
    BY <1>1, <1>n, <2>1
    DEF Accept, Room, ServerTypeOK, LoopKnows, StoreLag, CountNeverLow, ActiveLimit, Settled
<1>2. ASSUME NEW c \in Conn, End(c) PROVE ServerInv'
  <2>1. Unreaped' = Unreaped
    BY <1>2 DEF End, Unreaped, In, ServerTypeOK
  <2>2. n' = n
    BY <2>1
  <2>3. main = "fork" => connfd # c
    BY <1>2 DEF End, LoopKnows
  <2>4. process' \in [Conn -> {"none", "running", "ended"}]
    BY <1>2 DEF End, ServerTypeOK
  <2>5. (LoopKnows /\ ServerTypeOK)'
    BY <1>2, <2>3, <2>4 DEF End, LoopKnows, ServerTypeOK
  <2>6. QED
    BY <1>2, <1>n, <2>2, <2>5
    DEF End, StoreLag, CountNeverLow, ActiveLimit, Settled
<1>3. ASSUME Fork PROVE ServerInv'
  <2>1. connfd \in Conn /\ process[connfd] = "none" /\ conn_count < max_conn
    BY <1>3 DEF Fork, LoopKnows
  <2>2. n' = n + 1
    BY <1>3, <2>1, OneMore DEF Fork
  <2>3. n <= conn_count
    BY <1>3, <1>n DEF Fork, Settled
  <2>4. (ServerTypeOK /\ LoopKnows /\ StoreLag)'
    BY <1>3, <2>1 DEF Fork, ServerTypeOK, LoopKnows, StoreLag
  <2>5. (CountNeverLow /\ ActiveLimit)'
    BY <1>3, <1>n, <2>1, <2>2, <2>3 DEF Fork, CountNeverLow, ActiveLimit, Settled, ServerTypeOK
  <2>6. QED
    BY <2>4, <2>5
<1>4. ASSUME ForkFails PROVE ServerInv'
  <2>1. n' = n
    BY <1>4 DEF ForkFails, Unreaped, In
  <2>2. QED
    BY <1>4, <1>n, <2>1
    DEF ForkFails, ServerTypeOK, LoopKnows, StoreLag, CountNeverLow, ActiveLimit, Settled
<1>5. ASSUME Load PROVE ServerInv'
  <2>1. n' = n
    BY <1>5 DEF Load, Unreaped, In
  <2>2. QED
    BY <1>5, <1>n, <2>1
    DEF Load, ServerTypeOK, LoopKnows, StoreLag, CountNeverLow, ActiveLimit, Settled
<1>6. ASSUME Store PROVE ServerInv'
  <2>1. n' = n
    BY <1>6 DEF Store, Unreaped, In
  <2>2. QED
    BY <1>6, <1>n, <2>1
    DEF Store, ServerTypeOK, LoopKnows, StoreLag, CountNeverLow, ActiveLimit, Settled
<1>7. ASSUME ClientClose PROVE ServerInv'
  <2> DEFINE e == Cardinality(In("ended"))
  <2>1. e \in Nat /\ n' = n - e /\ n' \in Nat
    <3>1. ServerTypeOK
      OBVIOUS
    <3>2. n' = n - e /\ e <= n
      BY <1>7, <3>1, Reaped
    <3>3. e \in Nat
      BY FiniteUnreaped
    <3> HIDE DEF n, e
    <3>4. QED
      BY <1>n, <3>2, <3>3
  <2>2. conn_count' = conn_count - e
    BY <1>7 DEF ClientClose
  <2>3. UNCHANGED <<main, connfd, register>> /\ sigchld' = FALSE
    BY <1>7 DEF ClientClose
  <2>4. process' \in [Conn -> {"none", "running", "ended"}]
    BY <1>7 DEF ClientClose, ServerTypeOK
  <2>5. main = "fork" => process'[connfd] = "none"
    BY <1>7 DEF ClientClose, LoopKnows
  <2>6. conn_count' >= -1 /\ conn_count' <= max_conn /\ conn_count' \in Int
    BY <1>n, <2>1, <2>2 DEF Settled, StoreLag, ServerTypeOK
  <2>7. (ServerTypeOK /\ LoopKnows)'
    <3>1. e \in Nat
      BY <2>1
    <3> HIDE DEF e
    <3>2. conn_count' <= conn_count
      BY <2>2, <3>1 DEF ServerTypeOK
    <3>3. ServerTypeOK'
      <4>1. (conn_count \in -1..max_conn)'
        BY <2>6
      <4>2. (register \in -1..max_conn)'
        BY <2>3 DEF ServerTypeOK
      <4>3. (connfd \in Conn \cup {NoConn} /\ main \in {"accept", "fork", "load", "store"})'
        BY <2>3 DEF ServerTypeOK
      <4>4. QED
        BY <2>3, <2>4, <4>1, <4>2, <4>3 DEF ServerTypeOK
    <3>4. conn_count < max_conn => conn_count' < max_conn
      BY <3>2, <2>6 DEF ServerTypeOK
    <3>5. LoopKnows'
      BY <2>3, <2>5, <3>4 DEF LoopKnows
    <3>6. QED
      BY <3>3, <3>5
  <2>8. (StoreLag /\ CountNeverLow /\ ActiveLimit)'
    BY <1>n, <2>1, <2>2, <2>3 DEF StoreLag, CountNeverLow, ActiveLimit, Settled, ServerTypeOK
  <2>9. QED
    BY <2>7, <2>8
<1>8. ASSUME UNCHANGED serverVars PROVE ServerInv'
  BY <1>8
  DEF serverVars, ServerTypeOK, LoopKnows, StoreLag, CountNeverLow, ActiveLimit, Settled,
      Unreaped, In
<1>9. QED
  BY <1>1, <1>2, <1>3, <1>4, <1>5, <1>6, <1>7, <1>8 DEF ServerNext

LEMMA ServerInvariance == ServerSpec => []ServerInv
BY InitServerInv, NextServerInv, PTL DEF ServerSpec

-----------------------------------------------------------------------------
\* conn_count stays between -1 and max_conn.
THEOREM ServerTypeCorrect == ServerSpec => []ServerTypeOK
BY ServerInvariance, PTL DEF ServerInv

\* Whenever the handler interrupts the loop, the count does not fall below the
\* number of processes: an interrupted conn_count++ loses decrements only.
THEOREM CountNeverLowHolds == ServerSpec => []CountNeverLow
BY ServerInvariance, PTL DEF ServerInv

\* There are never more processes than maxActiveClient allows.
THEOREM ActiveLimitHolds == ServerSpec => []ActiveLimit
BY ServerInvariance, PTL DEF ServerInv

-----------------------------------------------------------------------------
(* Frames: the inductive invariant *)

Frame ==
  [save : BOOLEAN, from : Nat, len : Nat, fin : BOOLEAN, ctl : BOOLEAN,
   chunk : 0..(Word - 1), data : Int]

\* A message ends with its last frame, and is SaveHead and the chunk long.
Within(f) ==
  f.ctl \/ /\ f.from + f.len <= f.data + SaveHead
           /\ f.data + SaveHead < Word
           /\ f.fin => f.from + f.len = f.data + SaveHead

\* g is the next frame of the message of f.
Follows(f, g) ==
  ~g.ctl /\ g.chunk = f.chunk /\ g.data = f.data /\ g.from = f.from + f.len

\* At most one control frame is between two frames of a message.
Continued(s, i) ==
  \/ i + 1 <= Len(s) /\ Follows(s[i], s[i + 1])
  \/ i + 2 <= Len(s) /\ s[i + 1].ctl /\ Follows(s[i], s[i + 2])

Framed(s) ==
  /\ s \in Seq(Frame)
  /\ \A i \in 1..Len(s) : Within(s[i]) /\ (s[i].fin \/ Continued(s, i))

\* What recvMsg remembers of a frame it has not read to the end.
Position ==
  astray = "no" =>
    /\ off # Unread =>
         /\ stream # <<>> /\ ~Head(stream).ctl /\ off \in 0..(Head(stream).len - 1)
         /\ payloadLen = Head(stream).len - off
         /\ isFin = Head(stream).fin
         /\ (maskKey - off) % 4 = 0
    /\ Expects /\ off = Unread => payloadLen = 0

\* The first n bytes of a chunk.
SentBytes(n) == [i \in 1..n |-> SaveHead + i]

\* The file s begins with the first n bytes of the chunk, as far as size allows.
BeginsAsSent(s, n, size) ==
  /\ s \in Seq(Int) /\ n \in Nat
  /\ \A i \in 1..n : i <= size => i <= Len(s) /\ s[i] = SaveHead + i

RightStart == BeginsAsSent(file, good, chunkSize)

\* Until more has come than was declared, nothing else is in the file.
NothingElse ==
  good <= chunkSize => file = SentBytes(good) /\ maxSaveSize = chunkSize - good

\* readSaveFile has got as far as byte pos of the message of f.
SavedUpTo(f, pos) ==
  /\ ~f.ctl /\ pos >= 1
  /\ data # Unknown =>
       /\ data = f.data /\ chunkSize = f.chunk
       /\ pos >= SaveHead /\ good = pos - SaveHead
       /\ NothingElse

\* A chunk is cut off only where its message goes on.
Saving ==
  mode = "save" /\ astray = "no" =>
    \/ off # Unread /\ SavedUpTo(Head(stream), Head(stream).from + off)
    \/ off = Unread /\ stream # <<>> /\ SavedUpTo(Head(stream), Head(stream).from)
    \/ /\ off = Unread /\ Len(stream) >= 2 /\ Head(stream).ctl
       /\ SavedUpTo(stream[2], stream[2].from)

\* The variables of the client, of recvMsg and of readSaveFile have the right types.
ClientType == sent \in 0..MaxMessages /\ open \in BOOLEAN

FrameType == payloadLen \in 0..(Word - 1) /\ isFin \in BOOLEAN /\ maskKey \in 0..7

SaveType ==
  /\ mode \in {"command", "save", "ended", "crashed"}
  /\ chunkSize \in 0..(Word - 1) /\ maxSaveSize \in 0..(Word - 1)
  /\ data \in {Unknown} \cup Nat
  /\ cut \in {"no", "header", "control", "gone", "astray", "head"}

SaveInv == SaveType /\ RightStart /\ SavedAsSent

\* Astray the stream is only a number of bytes, and no later read led there.
StreamInv ==
  /\ Framed(stream) /\ raw \in Nat /\ astray \in {"no", "first"}
  /\ IF astray = "no" THEN raw = 0 ELSE stream = <<>> /\ off = Unread

FramesInv ==
  /\ ClientType /\ FrameType /\ SaveInv
  /\ StreamInv
  /\ Position
  /\ Saving

-----------------------------------------------------------------------------
(* The frames of a message *)

\* The sum of the first i lengths.
LEMMA PrefixSum ==
  ASSUME NEW l \in Seq(Nat), NEW i \in 0..Len(l)
  PROVE  Total(SubSeq(l, 1, i)) = SumFunctionOnSet(l, 1..i)
<1> DEFINE s == SubSeq(l, 1, i)
<1>1. DOMAIN s = 1..i /\ \A j \in 1..i : s[j] = l[j]
  OBVIOUS
<1>2. IsFiniteSet(1..i)
  BY FS_Interval
<1> HIDE DEF s
<1>3. SumFunctionOnSet(s, 1..i) = SumFunctionOnSet(l, 1..i)
  BY <1>1, <1>2, SumSame
<1> QED BY <1>1, <1>3 DEF Total, SumFunction, s

\* A frame begins where the one before it ends, and the last ends the message.
LEMMA Lengths ==
  ASSUME NEW l \in Seq(Nat)
  PROVE  /\ Total(l) \in Nat
         /\ Total(SubSeq(l, 1, 0)) = 0
         /\ \A i \in 1..Len(l) :
              /\ Total(SubSeq(l, 1, i - 1)) \in Nat
              /\ Total(SubSeq(l, 1, i)) = Total(SubSeq(l, 1, i - 1)) + l[i]
              /\ Total(SubSeq(l, 1, i)) \in Nat
              /\ Total(SubSeq(l, 1, i)) <= Total(l)
         /\ Total(SubSeq(l, 1, Len(l))) = Total(l)
<1> DEFINE P(i) == SumFunctionOnSet(l, 1..i)
<1>0. \A i \in 0..Len(l) : IsFiniteSet(1..i) /\ Total(SubSeq(l, 1, i)) = P(i)
  BY FS_Interval, PrefixSum
<1>1. \A i \in 0..Len(l) : P(i) \in Nat
  <2> TAKE i \in 0..Len(l)
  <2>1. IsFiniteSet(1..i) /\ \A j \in 1..i : l[j] \in Nat
    BY <1>0
  <2> QED BY <2>1, SumType
<1>2. Total(l) = P(Len(l))
  <2>1. DOMAIN l = 1..Len(l)
    OBVIOUS
  <2> QED BY <2>1 DEF Total, SumFunction
<1>3. P(0) = 0
  <2>1. 1..0 = {}
    OBVIOUS
  <2> QED BY <2>1, SumEmpty
<1>4. ASSUME NEW i \in 1..Len(l) PROVE P(i) = P(i - 1) + l[i] /\ P(i) <= P(Len(l))
  <2>1. /\ IsFiniteSet(1..(i - 1)) /\ i \notin 1..(i - 1) /\ l[i] \in Int
        /\ \A j \in 1..(i - 1) : l[j] \in Int
        /\ (1..(i - 1)) \cup {i} = 1..i
    BY <1>0
  <2>2. SumFunctionOnSet(l, (1..(i - 1)) \cup {i}) = P(i - 1) + l[i]
    BY <2>1, SumAdd
  <2> DEFINE N == 1..Len(l)
  <2>3. /\ IsFiniteSet(N) /\ (\A j \in N : l[j] \in Int) /\ 1..i \in SUBSET N
    BY <1>0
  <2>4. SumFunctionOnSet(l, N \ (1..i)) = SumFunctionOnSet(l, N) - P(i)
    BY <2>3, SumDifference
  <2>5. IsFiniteSet(N \ (1..i)) /\ \A j \in N \ (1..i) : l[j] \in Nat
    BY <2>3, FS_Subset
  <2>6. SumFunctionOnSet(l, N \ (1..i)) \in Nat
    BY <2>5, SumType
  <2>7. P(i) \in Nat /\ P(Len(l)) \in Nat
    BY <1>1
  <2> HIDE DEF P
  <2>8. P(Len(l)) - P(i) >= 0
    BY <2>4, <2>6 DEF P
  <2>9. P(i) = P(i - 1) + l[i]
    BY <2>1, <2>2 DEF P
  <2> QED BY <2>7, <2>8, <2>9
<1> HIDE DEF P
<1>5. Len(l) \in Nat /\ 0 \in 0..Len(l) /\ Len(l) \in 0..Len(l)
  OBVIOUS
<1>6. Total(l) \in Nat /\ Total(SubSeq(l, 1, 0)) = 0 /\ Total(SubSeq(l, 1, Len(l))) = Total(l)
  BY <1>0, <1>1, <1>2, <1>3, <1>5
<1>7. ASSUME NEW i \in 1..Len(l)
      PROVE  /\ Total(SubSeq(l, 1, i - 1)) = P(i - 1) /\ P(i - 1) \in Nat
             /\ Total(SubSeq(l, 1, i)) = P(i) /\ P(i) \in Nat
  <2>1. i \in 0..Len(l) /\ i - 1 \in 0..Len(l)
    BY <1>5
  <2> QED BY <1>0, <1>1, <2>1
<1> QED BY <1>2, <1>4, <1>6, <1>7

LEMMA MessageFrames ==
  ASSUME NEW m \in Message
  PROVE  LET s == FramesOf(m) IN
         /\ s \in Seq(Frame) /\ s # <<>>
         /\ \A i \in 1..Len(s) :
              /\ Within(s[i]) /\ ~s[i].ctl
              /\ s[i].fin \/ (i + 1 <= Len(s) /\ Follows(s[i], s[i + 1]))
<1> DEFINE s == FramesOf(m)
           l == m.lens
           n == Len(l)
<1>1. /\ l \in Seq(Nat) /\ l # <<>> /\ Total(l) < Word /\ m.save \in BOOLEAN
      /\ m.chunk \in 0..(Word - 1)
      /\ SaveHead \in Nat /\ Word \in Nat
  BY FramesAssumption
<1>2. n \in Nat \ {0} /\ DOMAIN l = 1..n /\ \A i \in 1..n : l[i] \in Nat
  BY <1>1
<1>3. s = [i \in 1..n |->
             [save |-> m.save, from |-> Total(SubSeq(l, 1, i - 1)), len |-> l[i],
              fin |-> i = n, ctl |-> FALSE,
              chunk |-> m.chunk, data |-> Total(l) - SaveHead]]
  BY <1>2 DEF FramesOf
<1> HIDE DEF s
<1>4. /\ Total(l) \in Nat
      /\ \A i \in 1..n :
           /\ Total(SubSeq(l, 1, i - 1)) \in Nat
           /\ Total(SubSeq(l, 1, i)) = Total(SubSeq(l, 1, i - 1)) + l[i]
           /\ Total(SubSeq(l, 1, i)) <= Total(l)
      /\ Total(SubSeq(l, 1, n)) = Total(l)
  BY <1>1, Lengths
<1> HIDE DEF l, n
<1>5. /\ DOMAIN s = 1..n
      /\ \A i \in 1..n :
           /\ s[i].save = m.save /\ s[i].from = Total(SubSeq(l, 1, i - 1)) /\ s[i].len = l[i]
           /\ s[i].fin <=> i = n
           /\ ~s[i].ctl /\ s[i].chunk = m.chunk /\ s[i].data = Total(l) - SaveHead
           /\ s[i] \in Frame
  <2>1. DOMAIN s = 1..n
    BY <1>3
  <2>3. ASSUME NEW i \in 1..n
        PROVE  /\ s[i].save = m.save /\ s[i].from = Total(SubSeq(l, 1, i - 1)) /\ s[i].len = l[i]
               /\ s[i].fin <=> i = n
               /\ ~s[i].ctl /\ s[i].chunk = m.chunk /\ s[i].data = Total(l) - SaveHead
               /\ s[i] \in Frame
    <3>1. PICK b \in BOOLEAN : b = (i = n)
      OBVIOUS
    <3>2. PICK f \in Nat : f = Total(SubSeq(l, 1, i - 1))
      BY <1>4
    <3>3. PICK c \in Int : c = Total(l) - SaveHead
      BY <1>1, <1>4
    <3>4. s[i] = [save |-> m.save, from |-> f, len |-> l[i], fin |-> b, ctl |-> FALSE,
                  chunk |-> m.chunk, data |-> c]
      BY <1>3, <3>1, <3>2, <3>3
    <3>5. s[i] \in Frame
      BY <1>1, <1>2, <3>4 DEF Frame
    <3>6. /\ s[i].save = m.save /\ s[i].from = f /\ s[i].len = l[i]
          /\ s[i].fin = b /\ s[i].ctl = FALSE /\ s[i].chunk = m.chunk /\ s[i].data = c
      BY <3>4
    <3>7. s[i].fin <=> i = n
      BY <3>1, <3>6, Zenon
    <3>8. ~s[i].ctl
      BY <3>6, Zenon
    <3> QED BY <3>2, <3>3, <3>5, <3>6, <3>7, <3>8
  <2> QED BY <2>1, <2>3
<1>6. s \in Seq(Frame) /\ Len(s) = n /\ s # <<>>
  <2>1. s \in [1..n -> Frame]
    BY <1>3, <1>5
  <2> QED BY <1>2, <2>1
<1>7. ASSUME NEW i \in 1..n PROVE Within(s[i]) /\ ~s[i].ctl
  <2>1. s[i].from + s[i].len = Total(SubSeq(l, 1, i))
    BY <1>4, <1>5
  <2>2. s[i].data + SaveHead = Total(l)
    BY <1>1, <1>4, <1>5
  <2> QED BY <1>1, <1>4, <1>5, <2>1, <2>2 DEF Within
<1>8. ASSUME NEW i \in 1..n, ~s[i].fin PROVE i + 1 <= n /\ Follows(s[i], s[i + 1])
  <2>1. i # n /\ i + 1 \in 1..n /\ i + 1 <= n /\ (i + 1) - 1 = i
    BY <1>2, <1>5, <1>8
  <2>2. s[i + 1].from = Total(SubSeq(l, 1, i))
    BY <1>5, <2>1
  <2>3. s[i + 1].from = s[i].from + s[i].len
    BY <1>4, <1>5, <2>2
  <2> QED BY <1>5, <2>1, <2>3 DEF Follows
<1> QED BY <1>6, <1>7, <1>8 DEF s

\* A control frame before any frame of a message.
LEMMA ControlInserted ==
  ASSUME NEW m \in Message, NEW k \in DOMAIN m.lens
  PROVE  Framed(FramesOf(m)) /\ Framed(InsertAt(FramesOf(m), k, ControlFrame))
<1> DEFINE s == FramesOf(m)
           n == Len(s)
           t == InsertAt(s, k, ControlFrame)
<1>1. /\ s \in Seq(Frame) /\ s # <<>>
      /\ \A i \in 1..n :
           /\ Within(s[i]) /\ ~s[i].ctl
           /\ s[i].fin \/ (i + 1 <= n /\ Follows(s[i], s[i + 1]))
  BY MessageFrames
<1>2. k \in 1..n /\ n \in Nat
  <2>1. DOMAIN s = DOMAIN m.lens
    BY DEF FramesOf
  <2> HIDE DEF s
  <2> QED BY <1>1, <2>1
<1>3. ControlFrame \in Frame /\ Within(ControlFrame) /\ ControlFrame.fin /\ ControlFrame.ctl
  BY FramesAssumption DEF ControlFrame, Frame, Within
<1> HIDE DEF s
<1>4. Framed(s)
  BY <1>1 DEF Framed, Continued
<1>5. /\ t \in Seq(Frame) /\ Len(t) = n + 1
      /\ \A j \in 1..(n + 1) :
           t[j] = IF j < k THEN s[j] ELSE IF j = k THEN ControlFrame ELSE s[j - 1]
  <2> DEFINE a == SubSeq(s, 1, k - 1)
             b == SubSeq(s, k, n)
             c == <<ControlFrame>>
  <2>1. /\ a \in Seq(Frame) /\ Len(a) = k - 1 /\ \A j \in 1..(k - 1) : a[j] = s[j]
        /\ b \in Seq(Frame) /\ Len(b) = n - k + 1 /\ \A j \in 1..(n - k + 1) : b[j] = s[k + j - 1]
    BY <1>1, <1>2, SubSeqProperties
  <2>2. c \in Seq(Frame) /\ Len(c) = 1 /\ c[1] = ControlFrame
    BY <1>3
  <2>3. t = (a \o c) \o b
    BY DEF InsertAt
  <2> HIDE DEF a, b, c, t
  <2>4. PICK d \in Seq(Frame) : d = a \o c
    BY <2>1, <2>2, ConcatProperties
  <2>5. /\ Len(d) = Len(a) + Len(c)
        /\ \A j \in 1..(Len(a) + Len(c)) : d[j] = IF j <= Len(a) THEN a[j] ELSE c[j - Len(a)]
    BY <2>1, <2>2, <2>4, ConcatProperties
  <2>6. Len(d) = k /\ \A j \in 1..k : d[j] = IF j < k THEN s[j] ELSE ControlFrame
    BY <1>2, <2>1, <2>2, <2>5
  <2>7. /\ t \in Seq(Frame) /\ Len(t) = Len(d) + Len(b)
        /\ \A j \in 1..(Len(d) + Len(b)) : t[j] = IF j <= Len(d) THEN d[j] ELSE b[j - Len(d)]
    BY <2>1, <2>3, <2>4, ConcatProperties
  <2>8. Len(d) + Len(b) = n + 1
    BY <1>2, <2>1, <2>6
  <2>9. ASSUME NEW j \in 1..(n + 1)
        PROVE  t[j] = IF j < k THEN s[j] ELSE IF j = k THEN ControlFrame ELSE s[j - 1]
    <3>1. CASE j <= k
      BY <1>2, <2>6, <2>7, <2>8, <3>1
    <3>2. CASE j > k
      <4>1. t[j] = b[j - k] /\ j - k \in 1..(n - k + 1) /\ k + (j - k) - 1 = j - 1
          <5>1. k \in Nat /\ n \in Nat /\ j \in Nat /\ j <= n + 1 /\ ~(j <= k)
          BY <1>2, <3>2
        <5>2. t[j] = b[j - k]
          BY <2>6, <2>7, <2>8, <5>1
        <5> QED BY <5>1, <5>2
      <4> QED BY <1>2, <2>1, <3>2, <4>1
    <3> QED BY <1>2, <3>1, <3>2
  <2> QED BY <2>7, <2>8, <2>9
<1> HIDE DEF t, n
<1>6. ASSUME NEW j \in 1..(n + 1) PROVE Within(t[j]) /\ (t[j].fin \/ Continued(t, j))
  <2>1. CASE j = k
    BY <1>3, <1>5, <2>1
  <2>2. CASE j < k /\ j + 1 < k
    BY <1>1, <1>2, <1>5, <2>2 DEF Continued
  <2>3. CASE j < k /\ j + 1 = k
    <3>1. /\ t[j] = s[j] /\ t[j + 1] = ControlFrame /\ t[j + 2] = s[j + 1]
          /\ j + 2 <= n + 1 /\ j \in 1..n
      BY <1>2, <1>5, <2>3
    <3> QED BY <1>1, <1>3, <1>5, <3>1 DEF Continued
  <2>4. CASE j > k
    <3>1. j - 1 \in 1..n /\ t[j] = s[j - 1] /\ (j < n + 1 => t[j + 1] = s[j])
      BY <1>2, <1>5, <2>4
    <3> QED BY <1>1, <1>2, <1>5, <3>1 DEF Continued
  <2> QED BY <1>2, <2>1, <2>2, <2>3, <2>4
<1>7. Framed(t)
  BY <1>5, <1>6 DEF Framed
<1> QED BY <1>4, <1>7 DEF s, t

\* The stream stays well-formed as the client adds to it and recvMsg takes from it.
LEMMA FramedConcat ==
  ASSUME NEW s, NEW t, Framed(s), Framed(t)
  PROVE  Framed(s \o t)
<1> DEFINE u == s \o t
<1>1. s \in Seq(Frame) /\ t \in Seq(Frame) /\ Len(s) \in Nat /\ Len(t) \in Nat
  BY DEF Framed
<1>2. /\ u \in Seq(Frame) /\ Len(u) = Len(s) + Len(t)
      /\ \A i \in 1..(Len(s) + Len(t)) : u[i] = IF i <= Len(s) THEN s[i] ELSE t[i - Len(s)]
  BY <1>1, ConcatProperties
<1> HIDE DEF u
<1>3. ASSUME NEW i \in 1..Len(u), i <= Len(s) PROVE Within(u[i]) /\ (u[i].fin \/ Continued(u, i))
  <2>1. i \in 1..Len(s) /\ u[i] = s[i] /\ Within(s[i]) /\ (s[i].fin \/ Continued(s, i))
    BY <1>1, <1>2, <1>3 DEF Framed
  <2>2. ASSUME Continued(s, i) PROVE Continued(u, i)
    <3>1. i + 1 <= Len(s) => u[i + 1] = s[i + 1] /\ i + 1 <= Len(u)
      BY <1>1, <1>2, <2>1
    <3>2. i + 2 <= Len(s) => u[i + 2] = s[i + 2] /\ i + 2 <= Len(u) /\ i + 1 <= Len(s)
      BY <1>1, <1>2, <2>1
    <3> QED BY <2>1, <2>2, <3>1, <3>2 DEF Continued
  <2> QED BY <2>1, <2>2
<1>4. ASSUME NEW i \in 1..Len(u), i > Len(s) PROVE Within(u[i]) /\ (u[i].fin \/ Continued(u, i))
  <2> DEFINE k == i - Len(s)
  <2>1. k \in 1..Len(t) /\ u[i] = t[k]
    BY <1>1, <1>2, <1>4
  <2>2. Within(t[k]) /\ (t[k].fin \/ Continued(t, k))
    BY <2>1 DEF Framed
  <2>3. ASSUME Continued(t, k) PROVE Continued(u, i)
    <3>1. k + 1 <= Len(t) => u[i + 1] = t[k + 1] /\ i + 1 <= Len(u)
      BY <1>1, <1>2, <2>1, <1>4
    <3>2. k + 2 <= Len(t) => u[i + 2] = t[k + 2] /\ i + 2 <= Len(u) /\ k + 1 <= Len(t)
      BY <1>1, <1>2, <2>1, <1>4
    <3> HIDE DEF k
    <3> QED BY <2>1, <2>3, <3>1, <3>2 DEF Continued
  <2> QED BY <2>1, <2>2, <2>3
<1>5. \A i \in 1..Len(u) : i <= Len(s) \/ i > Len(s)
  BY <1>1, <1>2
<1> QED BY <1>2, <1>3, <1>4, <1>5 DEF Framed, u

LEMMA FramedTail ==
  ASSUME NEW s, Framed(s), s # <<>>
  PROVE  /\ Framed(Tail(s)) /\ Len(Tail(s)) = Len(s) - 1
         /\ \A i \in 1..(Len(s) - 1) : Tail(s)[i] = s[i + 1]
<1> DEFINE t == Tail(s)
<1>1. s \in Seq(Frame) /\ Len(s) \in Nat
  BY DEF Framed
<1>2. t \in Seq(Frame) /\ Len(t) = Len(s) - 1 /\ \A i \in 1..Len(t) : t[i] = s[i + 1]
  BY <1>1, HeadTailProperties
<1> HIDE DEF t
<1>3. ASSUME NEW i \in 1..Len(t) PROVE Within(t[i]) /\ (t[i].fin \/ Continued(t, i))
  <2>1. i + 1 \in 1..Len(s) /\ t[i] = s[i + 1]
    BY <1>1, <1>2
  <2>2. Within(s[i + 1]) /\ (s[i + 1].fin \/ Continued(s, i + 1))
    BY <2>1 DEF Framed
  <2>3. ASSUME Continued(s, i + 1) PROVE Continued(t, i)
    <3>1. (i + 1) + 1 <= Len(s) => t[i + 1] = s[(i + 1) + 1] /\ i + 1 <= Len(t)
      BY <1>1, <1>2, <2>1
    <3>2. (i + 1) + 2 <= Len(s) => /\ t[i + 2] = s[(i + 1) + 2] /\ i + 2 <= Len(t)
                                   /\ (i + 1) + 1 <= Len(s)
      BY <1>1, <1>2, <2>1
    <3> QED BY <2>1, <2>3, <3>1, <3>2 DEF Continued
  <2> QED BY <2>1, <2>2, <2>3
<1> QED BY <1>2, <1>3 DEF Framed, t

-----------------------------------------------------------------------------
(* Numbers and bytes *)

LEMMA ModWord ==
  /\ Word \in Nat \ {0}
  /\ \A n \in Int : n % Word \in 0..(Word - 1)
  /\ \A n \in 0..(Word - 1) : n % Word = n
BY FramesAssumption

\* The rotated key fits the next byte.
LEMMA KeyRotated ==
  ASSUME NEW r \in 0..7, NEW a \in Nat, NEW k \in Nat, (r - a) % 4 = 0
  PROVE  (r + k) % 8 \in 0..7 /\ (((r + k) % 8) - (a + k)) % 4 = 0
OBVIOUS

LEMMA BytesAdded ==
  ASSUME NEW a \in Nat, NEW n \in Nat
  PROVE  /\ SentBytes(a) \in Seq(Int) /\ Len(SentBytes(a)) = a
         /\ SentBytes(a) \o [i \in 1..n |-> SaveHead + a + i] = SentBytes(a + n)
<1> DEFINE s == SentBytes(a)
           t == [i \in 1..n |-> SaveHead + a + i]
           u == SentBytes(a + n)
<1>0. SaveHead \in Nat
  BY FramesAssumption
<1>1. s \in Seq(Int) /\ Len(s) = a /\ \A i \in 1..a : s[i] = SaveHead + i
  BY <1>0 DEF SentBytes
<1>2. t \in Seq(Int) /\ Len(t) = n /\ \A i \in 1..n : t[i] = SaveHead + a + i
  BY <1>0
<1>3. u \in Seq(Int) /\ Len(u) = a + n /\ \A i \in 1..(a + n) : u[i] = SaveHead + i
  BY <1>0 DEF SentBytes
<1> HIDE DEF s, t, u
<1>4. /\ s \o t \in Seq(Int) /\ Len(s \o t) = Len(s) + Len(t)
      /\ \A i \in 1..(Len(s) + Len(t)) :
           (s \o t)[i] = IF i <= Len(s) THEN s[i] ELSE t[i - Len(s)]
  BY <1>1, <1>2, ConcatProperties
<1>5. ASSUME NEW i \in 1..(a + n) PROVE (s \o t)[i] = u[i]
  <2>1. CASE i <= a
    BY <1>1, <1>2, <1>3, <1>4, <2>1
  <2>2. CASE i > a
    <3>1. i - a \in 1..n /\ (s \o t)[i] = t[i - a]
      BY <1>1, <1>2, <1>4, <2>2
    <3> QED BY <1>0, <1>2, <1>3, <3>1
  <2>3. i <= a \/ i > a
    OBVIOUS
  <2> QED BY ONLY <2>1, <2>2, <2>3
<1>6. s \o t = u
  BY <1>1, <1>2, <1>3, <1>4, <1>5, SeqEqual
<1> QED BY <1>1, <1>6 DEF s, t, u

\* The bytes a frame brings, if the key fits.
LEMMA BytesDecoded ==
  ASSUME NEW f, NEW done, NEW n, NEW r, (r - done) % 4 = 0
  PROVE  Decoded(f, done, n, r) = [i \in 1..n |-> f.from + done + i]
BY DEF Decoded

-----------------------------------------------------------------------------
(* What readSaveFile does with the bytes *)

\* What is left of a message when its byte e is next.
LEMMA Left ==
  ASSUME NEW f \in Frame, ~f.ctl, Within(f),
         NEW e \in Nat, SaveHead <= e, e <= f.from + f.len
  PROVE  /\ f.data \in Nat /\ e - SaveHead \in Nat /\ e - SaveHead <= f.data
         /\ f.chunk \in 0..(Word - 1)
         /\ f.from \in Nat /\ f.len \in Nat
         /\ f.fin /\ e = f.from + f.len => f.data = e - SaveHead
BY FramesAssumption DEF Frame, Within

\* What is appended does not disturb what is there.
LEMMA BeginningKept ==
  ASSUME NEW s, NEW n, NEW size \in Int, BeginsAsSent(s, n, size), NEW t \in Seq(Int)
  PROVE  BeginsAsSent(s \o t, n, size)
<1>1. s \in Seq(Int) /\ n \in Nat /\ Len(s) \in Nat
  BY DEF BeginsAsSent
<1>2. /\ s \o t \in Seq(Int) /\ Len(s \o t) = Len(s) + Len(t)
      /\ \A i \in 1..(Len(s) + Len(t)) :
           (s \o t)[i] = IF i <= Len(s) THEN s[i] ELSE t[i - Len(s)]
  BY <1>1, ConcatProperties
<1> DEFINE u == s \o t
<1> HIDE DEF u
<1>3. ASSUME NEW i \in 1..n, i <= size PROVE i <= Len(u) /\ u[i] = SaveHead + i
  <2>1. i <= Len(s) /\ s[i] = SaveHead + i
    BY <1>3 DEF BeginsAsSent
  <2>2. i \in 1..(Len(s) + Len(t)) /\ i <= Len(u)
    BY <1>1, <1>2, <2>1 DEF u
  <2> QED BY <1>2, <2>1, <2>2 DEF u
<1> QED BY <1>1, <1>2, <1>3 DEF BeginsAsSent, u

\* The first w bytes of t are written behind the first n of the chunk; `fresh` of
\* those of t are the next of the chunk.
LEMMA BeginningExtended ==
  ASSUME NEW n \in Nat, NEW size \in Int, NEW t \in Seq(Int), NEW fresh \in Nat,
         NEW w \in 0..Len(t),
         \A i \in 1..fresh : i <= Len(t) /\ t[i] = SaveHead + n + i,
         \A i \in 1..fresh : n + i <= size => i <= w
  PROVE  BeginsAsSent(SentBytes(n) \o SubSeq(t, 1, w), n + fresh, size)
<1> DEFINE s == SentBytes(n)
           q == SubSeq(t, 1, w)
           u == s \o q
<1>0. SaveHead \in Nat
  BY FramesAssumption
<1>1. s \in Seq(Int) /\ Len(s) = n /\ \A i \in 1..n : s[i] = SaveHead + i
  BY <1>0, BytesAdded DEF SentBytes
<1>2. q \in Seq(Int) /\ Len(q) = w /\ \A i \in 1..w : q[i] = t[i]
  OBVIOUS
<1> HIDE DEF s, q
<1>3. /\ u \in Seq(Int) /\ Len(u) = n + w
      /\ \A i \in 1..(n + w) : u[i] = IF i <= n THEN s[i] ELSE q[i - n]
  <2>1. /\ s \o q \in Seq(Int) /\ Len(s \o q) = Len(s) + Len(q)
        /\ \A i \in 1..(Len(s) + Len(q)) :
             (s \o q)[i] = IF i <= Len(s) THEN s[i] ELSE q[i - Len(s)]
    <3>1. s \in Seq(Int) /\ q \in Seq(Int)
      BY <1>1, <1>2
    <3> QED BY ONLY <3>1, ConcatProperties
  <2> QED BY <1>1, <1>2, <2>1
<1> HIDE DEF u
<1>4. ASSUME NEW i \in 1..(n + fresh), i <= size PROVE i <= Len(u) /\ u[i] = SaveHead + i
  <2>1. CASE i <= n
    <3>1. i \in 1..n /\ i \in 1..(n + w)
      BY <2>1
    <3> QED BY <1>1, <1>3, <2>1, <3>1
  <2>2. CASE i > n
    <3>1. i - n \in 1..fresh /\ n + (i - n) = i
      BY <2>2
    <3>2. i - n <= w /\ t[i - n] = SaveHead + n + (i - n)
      BY <1>4, <3>1
    <3>3. i - n \in 1..w /\ i \in 1..(n + w) /\ ~(i <= n)
      BY <2>2, <3>1, <3>2
    <3>4. u[i] = t[i - n]
      BY <1>2, <1>3, <3>3
    <3>5. i <= Len(u)
      BY <1>3, <3>3
    <3> QED BY <1>0, <3>2, <3>4, <3>5
  <2> QED BY <2>1, <2>2
<1>5. n + fresh \in Nat
  OBVIOUS
<1> QED BY <1>3, <1>4, <1>5 DEF BeginsAsSent, u, s, q

\* A piece is written behind what is in the file; `fresh` of its bytes are the next
\* of the chunk.
LEMMA PieceWritten ==
  ASSUME SaveType, RightStart, data # Unknown,
         NEW piece \in Seq(Int), NEW fresh \in 0..Len(piece), NEW why,
         WritePiece(piece, fresh, why),
         fresh # 0 => /\ NothingElse
                      /\ \A i \in 1..fresh : piece[i] = SaveHead + good + i
  PROVE  /\ RightStart' /\ good' = good + fresh /\ good' \in Nat
         /\ chunkSize' = chunkSize /\ data' = data /\ maxSaveSize' \in 0..(Word - 1)
         /\ NothingElse /\ fresh = Len(piece) => NothingElse'
         /\ LoopOrEnd(Len(piece), why)
<1> DEFINE n == Len(piece)
           w == IF maxSaveSize > n THEN n ELSE maxSaveSize
<1>1. /\ n \in Nat /\ maxSaveSize \in Nat /\ good \in Nat /\ fresh \in Nat /\ fresh <= n
      /\ chunkSize \in 0..(Word - 1) /\ maxSaveSize \in 0..(Word - 1) /\ Word \in Nat
  BY ModWord DEF SaveType, RightStart, BeginsAsSent
<1>2. /\ file' = file \o SubSeq(piece, 1, w) /\ good' = good + fresh
      /\ maxSaveSize' = (maxSaveSize - n) % Word
      /\ chunkSize' = chunkSize /\ data' = data /\ LoopOrEnd(n, why)
  BY DEF WritePiece
<1> HIDE DEF n
<1>3. w \in 0..n /\ w \in 0..Len(piece) /\ SubSeq(piece, 1, w) \in Seq(Int)
  <2>1. w \in 0..n
    BY <1>1
  <2> HIDE DEF w
  <2> QED BY <2>1 DEF n
<1>k. BeginsAsSent(file \o SubSeq(piece, 1, w), good, chunkSize)
  <2>1. chunkSize \in Int /\ BeginsAsSent(file, good, chunkSize)
    BY <1>1 DEF RightStart
  <2> HIDE DEF w
  <2> QED BY <1>3, <2>1, BeginningKept
<1>4. RightStart'
  <2>1. CASE fresh = 0
    <3>1. good + fresh = good
      BY <1>1, <2>1
    <3> HIDE DEF w
    <3> QED BY <1>2, <1>k, <3>1 DEF RightStart
  <2>2. CASE fresh # 0 /\ good <= chunkSize
    <3>1. file = SentBytes(good) /\ maxSaveSize = chunkSize - good
      BY <2>2 DEF NothingElse
    <3>2. \A i \in 1..fresh : i <= Len(piece) /\ piece[i] = SaveHead + good + i
      BY <1>1, <2>2 DEF n
    <3>3. \A i \in 1..fresh : good + i <= chunkSize => i <= w
      BY <1>1, <3>1
    <3> HIDE DEF w
    <3>4. BeginsAsSent(SentBytes(good) \o SubSeq(piece, 1, w), good + fresh, chunkSize)
      <4>1. chunkSize \in Int
        BY <1>1
      <4> QED BY <1>1, <1>3, <3>2, <3>3, <4>1, BeginningExtended
    <3> QED BY <1>2, <3>1, <3>4 DEF RightStart
  <2>3. CASE good > chunkSize
    <3> DEFINE s == file \o SubSeq(piece, 1, w)
    <3>1. BeginsAsSent(s, good, chunkSize) /\ file' = s
      BY <1>2, <1>k
    <3> HIDE DEF s
    <3>2. \A i \in 1..(good + fresh) : i <= chunkSize => i \in 1..good
      BY <1>1, <2>3
    <3>3. good + fresh \in Nat
      BY <1>1
    <3>4. BeginsAsSent(s, good + fresh, chunkSize)
      BY <3>1, <3>2, <3>3 DEF BeginsAsSent
    <3> QED BY <1>2, <3>1, <3>4 DEF RightStart
  <2> QED BY <1>1, <2>1, <2>2, <2>3
<1>5. ASSUME NothingElse, fresh = Len(piece) PROVE NothingElse'
  <2> SUFFICES ASSUME good + fresh <= chunkSize
               PROVE  file' = SentBytes(good + fresh) /\ maxSaveSize' = chunkSize - (good + fresh)
    BY <1>2 DEF NothingElse
  <2>1. fresh = n /\ good <= chunkSize
    BY <1>1, <1>5 DEF n
  <2>2. file = SentBytes(good) /\ maxSaveSize = chunkSize - good
    BY <1>5, <2>1 DEF NothingElse
  <2>3. w = n /\ maxSaveSize - n = chunkSize - (good + fresh) /\ maxSaveSize - n \in 0..(Word - 1)
    BY <1>1, <2>1, <2>2
  <2>4. SubSeq(piece, 1, w) = piece
    <3>1. w = Len(piece)
      BY <2>3 DEF n
    <3> QED BY <3>1, SubSeqFull
  <2>5. piece = [i \in 1..n |-> SaveHead + good + i]
    <3>1. piece = [i \in 1..n |-> piece[i]]
      BY DEF n
    <3>2. \A i \in 1..n : piece[i] = SaveHead + good + i
      <4>1. CASE n = 0
        BY <4>1
      <4>2. CASE n # 0
        BY <2>1, <4>2
      <4> QED BY <4>1, <4>2
    <3> QED BY <3>1, <3>2
  <2>6. file \o piece = SentBytes(good + n)
    BY <1>1, <2>2, <2>5, BytesAdded
  <2> HIDE DEF w
  <2> QED BY <1>2, <2>1, <2>3, <2>4, <2>6, ModWord
<1>6. good' \in Nat /\ maxSaveSize' \in 0..(Word - 1)
  <2>1. maxSaveSize - n \in Int /\ good + fresh \in Nat
    BY <1>1
  <2> QED BY <1>2, <2>1, ModWord
<1> QED BY <1>2, <1>4, <1>5, <1>6 DEF n

\* readSaveFile gets bytes that are not the next of the chunk.
LEMMA ForeignWritten ==
  ASSUME SaveInv, mode = "save", NEW piece \in Seq(Int), NEW fresh \in 0..Len(piece),
         NEW why \in {"astray", "header", "no"},
         WritePiece(piece, fresh, why),
         \/ data = Unknown
         \/ /\ why = "astray"
            /\ fresh # 0 => /\ NothingElse
                            /\ \A i \in 1..fresh : piece[i] = SaveHead + good + i
  PROVE  /\ SaveInv' /\ mode' \in {"save", "command"} /\ data' = data
         /\ LoopOrEnd(Len(piece), why)
<1>1. mode' \in {"save", "command"} /\ LoopOrEnd(Len(piece), why)
  BY DEF WritePiece, LoopOrEnd
<1>2. cut' \in {cut, why} /\ (mode' = "command" => cut' = why)
  BY DEF WritePiece, LoopOrEnd
<1>3. cut' \in {"no", "header", "control", "gone", "astray", "head"}
  BY <1>2 DEF SaveInv, SaveType
<1>4. CASE data = Unknown
  <2>1. UNCHANGED <<file, good, chunkSize, data>> /\ maxSaveSize' \in 0..(Word - 1)
    <3>1. maxSaveSize - Len(piece) \in Int
      BY ModWord DEF SaveInv, SaveType
    <3> QED BY <1>4, <3>1, ModWord DEF WritePiece
  <2>2. SaveType' /\ RightStart'
    BY <1>1, <1>3, <2>1 DEF SaveInv, SaveType, RightStart
  <2>3. SavedAsSent'
    BY <1>4, <2>1 DEF SavedAsSent
  <2> QED BY <1>1, <2>1, <2>2, <2>3 DEF SaveInv
<1>5. CASE data # Unknown
  <2>1. /\ RightStart' /\ chunkSize' = chunkSize /\ data' = data
        /\ maxSaveSize' \in 0..(Word - 1)
    BY <1>5, PieceWritten DEF SaveInv
  <2>2. SaveType'
    BY <1>1, <1>3, <2>1 DEF SaveInv, SaveType
  <2>3. mode' = "command" => cut' = "astray"
    BY <1>2, <1>5
  <2>4. SavedAsSent'
    BY <1>1, <2>1, <2>3 DEF SavedAsSent, RightStart, BeginsAsSent
  <2> QED BY <1>1, <2>1, <2>2, <2>4 DEF SaveInv
<1> QED BY <1>4, <1>5

\* A request that is no save, or bytes that are taken for one.
LEMMA NothingSaved ==
  ASSUME SaveInv, mode = "command", UNCHANGED save, mode' \in {"command", "ended", "crashed"}
  PROVE  SaveInv'
<1>1. UNCHANGED <<file, chunkSize, maxSaveSize, data, good, cut>>
  BY DEF save
<1> QED BY <1>1 DEF SaveInv, SaveType, RightStart, SavedAsSent

\* A save whose head did not come in one piece.
LEMMA HeadlessStarted ==
  ASSUME SaveInv, NEW n, StartHeadless(n)
  PROVE  SaveInv' /\ data' = Unknown /\ mode' \in {"save", "command"}
<1>1. /\ file' = <<>> /\ chunkSize' = 0 /\ maxSaveSize' = 0 /\ data' = Unknown /\ good' = 0
      /\ mode' \in {"save", "command"} /\ cut' \in {cut, "head"}
  BY DEF StartHeadless, LoopOrEnd
<1>2. SaveType'
  BY <1>1, ModWord DEF SaveInv, SaveType
<1>3. RightStart' /\ SavedAsSent'
  BY <1>1 DEF RightStart, BeginsAsSent, SavedAsSent
<1> QED BY <1>1, <1>2, <1>3 DEF SaveInv

LEMMA AnyRequestSaved ==
  ASSUME SaveInv, mode = "command", NEW n, AnyRequest(n)
  PROVE  /\ SaveInv' /\ mode' \in {"command", "ended", "save"}
         /\ mode' = "save" => data' = Unknown /\ HasNext(n)
<1>1. CASE mode' \in {"command", "ended"} /\ UNCHANGED save
  BY <1>1, NothingSaved
<1>2. CASE StartHeadless(n)
  BY <1>2, HeadlessStarted DEF StartHeadless, LoopOrEnd
<1> QED BY <1>1, <1>2 DEF AnyRequest

\* The first write of a save.
LEMMA Started ==
  ASSUME NEW f \in Frame, f.data \in Nat,
         NEW piece \in Seq(Int), NEW fresh \in SaveHead..Len(piece), NEW why,
         \A i \in 1..fresh : piece[i] = i,
         StartSave(f, piece, fresh, why)
  PROVE  /\ RightStart' /\ good' = fresh - SaveHead /\ chunkSize' = f.chunk /\ data' = f.data
         /\ maxSaveSize' \in 0..(Word - 1) /\ chunkSize' \in 0..(Word - 1)
         /\ fresh = Len(piece) => NothingElse'
         /\ LoopOrEnd(Len(piece), why)
<1> DEFINE n == Len(piece) - SaveHead
           q == SubSeq(piece, SaveHead + 1, Len(piece))
           g == fresh - SaveHead
<1>0. SaveHead \in Nat /\ f.chunk \in 0..(Word - 1) /\ Len(piece) \in Nat /\ Word \in Nat
  BY FramesAssumption DEF Frame
<1>1. g \in Nat /\ n \in Nat /\ g <= n
  BY <1>0
<1>2. /\ q \in Seq(Int) /\ Len(q) = n /\ \A i \in 1..n : q[i] = piece[SaveHead + i]
  <2>1. \A i \in (SaveHead + 1)..Len(piece) : piece[i] \in Int
    BY <1>0
  <2>2. /\ q \in Seq(Int)
        /\ Len(q) = IF SaveHead + 1 <= Len(piece) THEN Len(piece) - (SaveHead + 1) + 1 ELSE 0
        /\ \A i \in 1..(Len(piece) - (SaveHead + 1) + 1) : q[i] = piece[(SaveHead + 1) + i - 1]
    <3>1. SaveHead + 1 \in Int /\ Len(piece) \in Int
      BY <1>0
    <3> QED BY <2>1, <3>1, SubSeqProperties
  <2>3. Len(piece) - (SaveHead + 1) + 1 = n /\ (SaveHead + 1 <= Len(piece) <=> n # 0)
    BY <1>0, <1>1
  <2>4. \A i \in 1..n : (SaveHead + 1) + i - 1 = SaveHead + i
    BY <1>0
  <2> HIDE DEF q, n
  <2> QED BY <1>1, <2>2, <2>3, <2>4
<1>3. /\ file' = q /\ chunkSize' = f.chunk /\ maxSaveSize' = (f.chunk - n) % Word
      /\ data' = f.data /\ good' = g /\ LoopOrEnd(Len(piece), why)
  BY DEF StartSave
<1>4. \A i \in 1..g : i <= n /\ q[i] = SaveHead + i
  <2>1. \A i \in 1..g : i \in 1..n /\ SaveHead + i \in 1..fresh
    BY <1>0, <1>1
  <2>2. \A i \in 1..g : i <= n
    BY <1>1
  <2> HIDE DEF q, n, g
  <2>3. ASSUME NEW i \in 1..g PROVE q[i] = SaveHead + i
    <3>1. i \in 1..n /\ SaveHead + i \in 1..fresh
      BY <2>1
    <3>2. q[i] = piece[SaveHead + i]
      BY <1>2, <3>1
    <3> QED BY <3>1, <3>2
  <2> QED BY <2>2, <2>3
<1> HIDE DEF q
<1>5. RightStart'
  BY <1>1, <1>2, <1>3, <1>4 DEF RightStart, BeginsAsSent
<1>6. maxSaveSize' \in 0..(Word - 1)
  <2>1. f.chunk - n \in Int
    BY <1>0, <1>1
  <2> QED BY <1>3, <2>1, ModWord
<1>7. ASSUME fresh = Len(piece) PROVE NothingElse'
  <2>1. g = n
    BY <1>7
  <2> HIDE DEF g, n
  <2>2. q = SentBytes(g)
    <3>1. SentBytes(g) \in Seq(Int) /\ Len(SentBytes(g)) = g
      BY <1>1, BytesAdded
    <3>2. \A i \in 1..g : SentBytes(g)[i] = q[i]
      BY <1>4 DEF SentBytes
    <3> QED BY <1>2, <2>1, <3>1, <3>2, SeqEqual
  <2>3. g <= f.chunk => (f.chunk - n) % Word = f.chunk - g
    <3>1. g <= f.chunk => f.chunk - n \in 0..(Word - 1) /\ f.chunk - n = f.chunk - g
      BY <1>0, <1>1, <2>1
    <3> QED BY <3>1, ModWord
  <2> QED BY <1>3, <2>2, <2>3 DEF NothingElse
<1> QED BY <1>0, <1>3, <1>5, <1>6, <1>7

-----------------------------------------------------------------------------
(* In step with the frames *)

\* What recvMsg finds at the head of the stream.
LEMMA AtHead ==
  ASSUME Framed(stream), stream # <<>>
  PROVE  LET f == Head(stream) IN
         /\ f \in Frame /\ Within(f) /\ f.from \in Nat /\ f.len \in Nat
         /\ ~f.ctl => f.len \in 0..(Word - 1)
         /\ Framed(Tail(stream))
<1> DEFINE f == Head(stream)
<1>1. f = stream[1] /\ 1 \in 1..Len(stream) /\ stream \in Seq(Frame)
  BY DEF Framed
<1>2. f \in Frame /\ Within(f)
  BY <1>1 DEF Framed
<1> HIDE DEF f
<1>3. f.from \in Nat /\ f.len \in Nat /\ f.data \in Int
  BY <1>2 DEF Frame
<1>4. ~f.ctl => f.len \in 0..(Word - 1)
  <2>1. /\ SaveHead \in Int /\ Word \in Int
        /\ ~f.ctl => f.from + f.len <= f.data + SaveHead /\ f.data + SaveHead < Word
    BY <1>2, FramesAssumption DEF Within
  <2>2. \A a, b \in Nat, c \in Int :
          a + b <= c + SaveHead /\ c + SaveHead < Word => b \in 0..(Word - 1)
    BY <2>1
  <2> QED BY <1>3, <2>1, <2>2
<1>5. Framed(Tail(stream))
  BY FramedTail
<1> QED BY <1>2, <1>3, <1>4, <1>5 DEF f

\* A frame that is not the last of its message is followed by the next one.
LEMMA NextFrame ==
  ASSUME Framed(stream), stream # <<>>, ~Head(stream).fin
  PROVE  LET f == Head(stream)
             t == Tail(stream)
         IN  /\ t # <<>>
             /\ \/ Follows(f, Head(t))
                \/ Len(t) >= 2 /\ Head(t).ctl /\ Follows(f, t[2])
<1>1. /\ stream \in Seq(Frame) /\ Len(stream) \in Nat \ {0} /\ Head(stream) = stream[1]
      /\ 1 \in 1..Len(stream)
  BY DEF Framed
<1>2. Continued(stream, 1)
  BY <1>1 DEF Framed
<1> DEFINE t == Tail(stream)
<1>3. /\ Len(t) = Len(stream) - 1 /\ \A i \in 1..(Len(stream) - 1) : t[i] = stream[i + 1]
      /\ t \in Seq(Frame)
  BY FramedTail DEF Framed
<1> HIDE DEF t
<1>4. Len(stream) >= 2 => t # <<>> /\ Head(t) = stream[2]
  BY <1>1, <1>3
<1>5. Len(stream) >= 3 => Len(t) >= 2 /\ t[2] = stream[3]
  BY <1>1, <1>3
<1>6. (1 + 1 = 2 /\ 1 + 2 = 3) /\ (Len(stream) >= 3 => Len(stream) >= 2)
  BY <1>1
<1> QED BY <1>1, <1>2, <1>4, <1>5, <1>6 DEF Continued, t

\* readSaveFile has been given all bytes before e and goes on.
LEMMA SaveGoesOn ==
  ASSUME Framed(stream), stream # <<>>, NEW n, HasNext(n),
         LET f == Head(stream) IN
           \E e \in Nat :
             /\ ~f.ctl /\ f.from <= e /\ e <= f.from + f.len /\ e >= 1
             /\ isFin' = f.fin /\ payloadLen' = f.from + f.len - e
             /\ Advance(f, e - f.from)
             /\ data' # Unknown =>
                  /\ data' = f.data /\ chunkSize' = f.chunk
                  /\ e >= SaveHead /\ good' = e - SaveHead
                  /\ NothingElse'
  PROVE  Saving'
<1> DEFINE f == Head(stream)
<1>1. PICK e \in Nat :
        /\ ~f.ctl /\ f.from <= e /\ e <= f.from + f.len /\ e >= 1
        /\ isFin' = f.fin /\ payloadLen' = f.from + f.len - e
        /\ Advance(f, e - f.from)
        /\ data' # Unknown =>
             /\ data' = f.data /\ chunkSize' = f.chunk
             /\ e >= SaveHead /\ good' = e - SaveHead
             /\ NothingElse'
  OBVIOUS
<1>2. f.from \in Nat /\ f.len \in Nat
  BY AtHead
<1>3. CASE e # f.from + f.len
  <2> DEFINE h == f
  <2>1. e - f.from # f.len /\ e - f.from \in Nat /\ f.from + (e - f.from) = e
    BY <1>1, <1>2, <1>3
  <2>2. stream' = stream /\ off' = e - f.from /\ Head(stream') = f
    BY <1>1, <2>1 DEF Advance
  <2>3. off' # Unread /\ f.from + off' = e
    BY <2>1, <2>2 DEF Unread
  <2> QED BY <1>1, <2>2, <2>3 DEF Saving, SavedUpTo
<1>4. CASE e = f.from + f.len
  <2>1. e - f.from = f.len /\ payloadLen' = 0
    BY <1>1, <1>2, <1>4
  <2>2. stream' = Tail(stream) /\ off' = Unread
    BY <1>1, <2>1 DEF Advance
  <2>3. ~f.fin
    BY <1>1, <2>1 DEF HasNext
  <2>4. /\ stream' # <<>>
        /\ \/ Follows(f, Head(stream'))
           \/ Len(stream') >= 2 /\ Head(stream').ctl /\ Follows(f, stream'[2])
    BY <2>2, <2>3, NextFrame
  <2>5. ASSUME NEW g, Follows(f, g)
        PROVE  /\ ~g.ctl /\ g.from = e
               /\ data' # Unknown => data' = g.data /\ chunkSize' = g.chunk
    BY <1>1, <1>4, <2>5 DEF Follows
  <2> HIDE DEF f
  <2>6. CASE Follows(f, Head(stream'))
    BY <1>1, <2>2, <2>4, <2>5, <2>6 DEF Saving, SavedUpTo
  <2>7. CASE Len(stream') >= 2 /\ Head(stream').ctl /\ Follows(f, stream'[2])
    BY <1>1, <2>2, <2>4, <2>5, <2>7 DEF Saving, SavedUpTo
  <2> QED BY <2>4, <2>6, <2>7
<1> QED BY <1>3, <1>4

\* Right bytes are written, and the loop goes on or ends.
LEMMA RightWritten ==
  ASSUME Framed(stream), stream # <<>>,
         NEW f, f = Head(stream), ~f.ctl,
         NEW e \in Nat, SaveHead <= e, f.from <= e, e <= f.from + f.len,
         NEW n \in Nat,
         isFin' = f.fin, payloadLen' = f.from + f.len - e,
         Advance(f, e - f.from),
         LoopOrEnd(n, Reason(n)),
         data' = f.data, chunkSize' = f.chunk, good' = e - SaveHead, NothingElse',
         RightStart', chunkSize' \in 0..(Word - 1), maxSaveSize' \in 0..(Word - 1),
         SaveInv
  PROVE  Saving' /\ SaveInv'
<1>1. f \in Frame /\ Within(f)
  BY AtHead
<1>2. /\ f.data \in Nat /\ e - SaveHead \in Nat /\ e - SaveHead <= f.data
      /\ f.from \in Nat /\ f.len \in Nat
      /\ f.fin /\ e = f.from + f.len => f.data = e - SaveHead
  BY <1>1, Left
<1>3. SaveType'
  BY <1>2 DEF LoopOrEnd, Reason, SaveInv, SaveType
<1>4. CASE HasNext(n)
  <2>1. Saving'
    <3>1. e >= 1
      BY FramesAssumption
    <3> QED BY <1>4, <3>1, SaveGoesOn
  <2>2. mode' = "save"
    BY <1>4 DEF LoopOrEnd
  <2> QED BY <1>3, <2>1, <2>2 DEF SaveInv, SavedAsSent
<1>5. CASE ~HasNext(n)
  <2>1. mode' = "command" /\ cut' = Reason(n)
    BY <1>5 DEF LoopOrEnd
  <2>2. cut' = "no" => good' = data'
    <3>1. cut' = "no" => n # 0
      BY <2>1 DEF Reason
    <3>2. n # 0 => payloadLen' = 0 /\ f.fin
      BY <1>5 DEF HasNext
    <3>3. payloadLen' = 0 => e = f.from + f.len
      <4>1. PICK a \in Nat, b \in Nat : a = f.from /\ b = f.len
        BY <1>2
      <4>2. payloadLen' = a + b - e
        BY <4>1
      <4>3. payloadLen' = 0 => e = a + b
        BY ONLY <4>2, a \in Nat, b \in Nat, e \in Nat
      <4> QED BY <4>1, <4>3
    <3> QED BY <1>2, <3>1, <3>2, <3>3
  <2>3. good' <= chunkSize' => Len(file') = good'
    <3>1. good' <= chunkSize' => file' = SentBytes(good')
      BY DEF NothingElse
    <3>2. Len(SentBytes(good')) = good'
      <4>1. Len(SentBytes(e - SaveHead)) = e - SaveHead
        BY <1>2, BytesAdded
      <4> QED BY <4>1
    <3> QED BY <3>1, <3>2
  <2>4. SavedAsSent'
    BY <2>2, <2>3 DEF SavedAsSent, RightStart, BeginsAsSent
  <2>5. Saving'
    BY <2>1 DEF Saving
  <2> QED BY <1>3, <2>4, <2>5 DEF SaveInv
<1> QED BY <1>4, <1>5

\* A frame's bytes come in order, to a new request or to the one being saved.
LEMMA Delivered ==
  ASSUME Framed(stream), stream # <<>>,
         NEW f, f = Head(stream), ~f.ctl,
         NEW done \in Nat, NEW n \in Nat, done + n <= f.len,
         mode \in {"command", "save"}, mode = "save" => SavedUpTo(f, f.from + done),
         isFin' = f.fin, payloadLen' = f.len - (done + n),
         Advance(f, done + n),
         Deliver(f, f.from + done, [i \in 1..n |-> f.from + done + i], n, Reason(n)),
         SaveInv
  PROVE  Saving' /\ SaveInv'
<1> DEFINE piece == [i \in 1..n |-> f.from + done + i]
           pos == f.from + done
           e == pos + n
<1>1. f \in Frame /\ Within(f) /\ f.from \in Nat /\ f.len \in Nat /\ SaveHead \in Nat \ {0}
  BY AtHead, FramesAssumption
<1>2. /\ pos \in Nat /\ e \in Nat /\ f.from <= e /\ e <= f.from + f.len
      /\ e - f.from = done + n /\ payloadLen' = f.from + f.len - e
  <2>1. PICK a \in Nat : a = f.from
    BY <1>1
  <2>2. PICK b \in Nat : b = f.len
    BY <1>1
  <2>3. done + n <= b /\ payloadLen' = b - (done + n)
    BY <2>2
  <2>4. pos = a + done /\ e = (a + done) + n
    BY <2>1
  <2> HIDE DEF piece, pos, e
  <2>5. pos \in Nat /\ e \in Nat
    BY <2>4
  <2>6. a <= e /\ e <= a + b /\ e - a = done + n
    BY <2>3, <2>4
  <2>7. payloadLen' = a + b - e
    BY ONLY <2>3, <2>4, a \in Nat, b \in Nat, done \in Nat, n \in Nat
  <2> QED BY <2>1, <2>2, <2>5, <2>6, <2>7
<1>3. Len(piece) = n /\ piece \in Seq(Int) /\ \A i \in 1..n : piece[i] = pos + i
  BY <1>1
<1>4. Deliver(f, pos, piece, n, Reason(n)) /\ Advance(f, e - f.from)
  BY <1>2
<1>5. mode = "save" => SavedUpTo(f, pos)
  OBVIOUS
<1> HIDE DEF piece, pos
<1>6. ASSUME mode' = "save" => data' = Unknown /\ HasNext(n), e >= 1
      PROVE  Saving'
  <2>1. mode' = "save" => Saving'
    BY <1>1, <1>2, <1>4, <1>6, SaveGoesOn
  <2> QED BY <2>1 DEF Saving
<1>7. ASSUME mode = "command", Interpret(f, pos, piece, n, Reason(n))
      PROVE  Saving' /\ SaveInv'
  <2>1. CASE mode' = "command" /\ UNCHANGED save
    BY <1>7, <2>1, NothingSaved DEF Saving
  <2>2. CASE pos = 0 /\ n >= SaveHead /\ StartSave(f, piece, n, Reason(n))
    <3>1. e = n /\ SaveHead <= e
      BY <1>1, <1>2, <2>2 DEF e
    <3>2. f.data \in Nat
      BY <1>1, <1>2, <3>1, Left
    <3>3. n \in SaveHead..Len(piece) /\ \A i \in 1..n : piece[i] = i
      BY <1>1, <1>3, <2>2
    <3>4. /\ RightStart' /\ good' = n - SaveHead /\ chunkSize' = f.chunk /\ data' = f.data
          /\ maxSaveSize' \in 0..(Word - 1) /\ chunkSize' \in 0..(Word - 1)
          /\ NothingElse' /\ LoopOrEnd(n, Reason(n))
      BY <1>1, <1>3, <2>2, <3>2, <3>3, Started
    <3> QED BY <1>1, <1>2, <1>4, <3>1, <3>4, RightWritten
  <2>3. CASE n \in 1..(SaveHead - 1) /\ StartHeadless(n)
    <3>1. e >= 1
      BY <1>2, <2>3 DEF e
    <3>2. SaveInv' /\ data' = Unknown
      BY <2>3, HeadlessStarted
    <3>3. mode' = "save" => HasNext(n)
      BY <2>3 DEF StartHeadless, LoopOrEnd
    <3> QED BY <1>6, <3>1, <3>2, <3>3
  <2>4. CASE n > 0 /\ AnyRequest(n)
    <3>1. e >= 1
      BY <1>2, <2>4 DEF e
    <3> QED BY <1>6, <1>7, <2>4, <3>1, AnyRequestSaved
  <2> QED BY <1>3, <1>7, <2>1, <2>2, <2>3, <2>4 DEF Interpret
<1>8. ASSUME mode = "save", WritePiece(piece, n, Reason(n)), data = Unknown
      PROVE  Saving' /\ SaveInv'
  <2>1. pos >= 1
    BY <1>5, <1>8 DEF SavedUpTo
  <2>2. e >= 1
    BY <1>2, <2>1 DEF e
  <2>3. n \in 0..Len(piece) /\ Reason(n) \in {"astray", "header", "no"}
    BY <1>3 DEF Reason
  <2>4. SaveInv' /\ data' = Unknown /\ LoopOrEnd(n, Reason(n))
    BY <1>3, <1>8, <2>3, ForeignWritten
  <2>5. mode' = "save" => HasNext(n)
    BY <2>4 DEF LoopOrEnd
  <2> QED BY <1>6, <2>2, <2>4, <2>5
<1>9. ASSUME mode = "save", WritePiece(piece, n, Reason(n)), data # Unknown
      PROVE  Saving' /\ SaveInv'
  <2>1. /\ data = f.data /\ chunkSize = f.chunk /\ pos >= SaveHead
        /\ good = pos - SaveHead /\ NothingElse
    BY <1>5, <1>9 DEF SavedUpTo
  <2>2. n \in 0..Len(piece) /\ n = Len(piece)
    BY <1>3
  <2>3. \A i \in 1..n : piece[i] = SaveHead + good + i
    BY <1>1, <1>2, <1>3, <2>1
  <2>4. /\ RightStart' /\ good' = good + n
        /\ chunkSize' = chunkSize /\ data' = data /\ maxSaveSize' \in 0..(Word - 1)
        /\ NothingElse' /\ LoopOrEnd(n, Reason(n))
    BY <1>3, <1>9, <2>1, <2>2, <2>3, PieceWritten DEF SaveInv
  <2>5. SaveHead <= e /\ good + n = e - SaveHead
    BY <1>1, <1>2, <2>1 DEF e
  <2>6. chunkSize' \in 0..(Word - 1)
    BY <2>4 DEF SaveInv, SaveType
  <2> HIDE DEF e
  <2> QED BY <1>1, <1>2, <1>4, <2>1, <2>4, <2>5, <2>6, RightWritten
<1> QED BY <1>4, <1>7, <1>8, <1>9 DEF Deliver

\* A close is returned in place of what was read, and a save is handed on.
LEMMA CloseReturned ==
  ASSUME SaveInv, Saving, Framed(stream), Expects,
         NEW why \in {"control", "gone", "astray"},
         astray # "no" => why = "astray",
         ReturnClose(why)
  PROVE  /\ SaveInv' /\ mode' \in {"ended", "command"} /\ payloadLen' = 0
         /\ isFin' \in BOOLEAN
<1>1. isFin' = TRUE /\ payloadLen' = 0
  BY DEF ReturnClose
<1>2. CASE mode = "command" /\ mode' = "ended" /\ UNCHANGED save
  BY <1>1, <1>2, NothingSaved
<1>3. CASE mode = "save" /\ WritePiece(<<Alien>>, 0, why)
  <2> DEFINE piece == <<Alien>>
  <2>1. piece \in Seq(Int) /\ Len(piece) = 1 /\ 0 \in 0..Len(piece)
    BY DEF Alien
  <2>2. mode' = "command" /\ cut' = why
    <3>1. ~HasNext(1)
      BY <1>1 DEF HasNext
    <3> QED BY <1>3, <2>1, <3>1 DEF WritePiece, LoopOrEnd
  <2>3. CASE data = Unknown
    <3>1. UNCHANGED <<file, good, chunkSize, data>> /\ maxSaveSize' \in 0..(Word - 1)
      <4>1. maxSaveSize - 1 \in Int
        BY ModWord DEF SaveInv, SaveType
      <4> QED BY <1>3, <2>1, <2>3, <4>1, ModWord DEF WritePiece
    <3>2. SaveType' /\ RightStart' /\ SavedAsSent'
      BY <2>2, <2>3, <3>1 DEF SaveInv, SaveType, RightStart, SavedAsSent
    <3> QED BY <1>1, <2>2, <3>2 DEF SaveInv
  <2>4. CASE data # Unknown
    <3>1. WritePiece(piece, 0, why)
      BY <1>3
    <3>2. /\ RightStart' /\ good' = good + 0 /\ chunkSize' = chunkSize /\ data' = data
          /\ maxSaveSize' \in 0..(Word - 1)
      <4> HIDE DEF piece
      <4> QED BY <2>1, <2>4, <3>1, PieceWritten DEF SaveInv
    <3>3. good \in Nat /\ good' = good
      BY <3>2 DEF SaveInv, RightStart, BeginsAsSent
    <3>4. SaveType'
      BY <2>2, <3>2 DEF SaveInv, SaveType
    <3>5. ASSUME astray = "no", good <= chunkSize
          PROVE  \/ Len(file') = good
                 \/ Len(file') = good + 1 /\ file'[good + 1] = Alien
      <4>1. NothingElse
        BY <1>3, <2>4, <3>5 DEF Saving, SavedUpTo
      <4>2. file = SentBytes(good) /\ maxSaveSize \in Nat
        <5>1. maxSaveSize \in Nat
          BY ModWord DEF SaveInv, SaveType
        <5> QED BY <3>5, <4>1, <5>1 DEF NothingElse
      <4>3. file \in Seq(Int) /\ Len(file) = good
        BY <3>3, <4>2, BytesAdded
      <4>4. file' = file \o SubSeq(piece, 1, IF maxSaveSize > 1 THEN 1 ELSE maxSaveSize)
        BY <2>1, <2>4, <3>1 DEF WritePiece
      <4>5. CASE maxSaveSize = 0
        <5>1. file' = file \o SubSeq(piece, 1, 0)
          BY <4>4, <4>5
        <5>2. SubSeq(piece, 1, 0) = <<>>
          BY SubSeqEmpty
        <5> QED BY <4>3, <5>1, <5>2, ConcatEmptySeq
      <4>6. CASE maxSaveSize # 0
        <5>1. (IF maxSaveSize > 1 THEN 1 ELSE maxSaveSize) = 1
          BY <4>2, <4>6
        <5>2. SubSeq(piece, 1, 1) = piece
          BY <2>1, SubSeqFull
        <5>3. Alien \in Int
          BY DEF Alien
        <5>4. file' = Append(file, Alien)
          BY <4>3, <4>4, <5>1, <5>2, <5>3, AppendIsConcat
        <5> QED BY <4>3, <5>3, <5>4
      <4> QED BY <4>5, <4>6
    <3>6. SavedAsSent'
      <4>1. cut' # "astray" => astray = "no" /\ cut' \in {"control", "gone"}
        BY <2>2
      <4> QED BY <2>2, <3>2, <3>3, <3>5, <4>1 DEF SavedAsSent, RightStart, BeginsAsSent
    <3> QED BY <1>1, <2>2, <3>2, <3>4, <3>6 DEF SaveInv
  <2> QED BY <2>3, <2>4
<1> QED BY <1>2, <1>3 DEF ReturnClose

-----------------------------------------------------------------------------
(* The steps *)

LEMMA InitFramesInv == Init => FramesInv
<1> SUFFICES ASSUME Init PROVE FramesInv
  OBVIOUS
<1>0. 0 \in 0..(Word - 1) /\ 0 \in 0..MaxMessages /\ 0 \in 0..7
  BY ModWord, FramesAssumption
<1>1. ClientType /\ FrameType /\ SaveType
  BY <1>0 DEF Init, ClientType, FrameType, SaveType
<1>2. StreamInv /\ Position /\ Saving
  BY DEF Init, StreamInv, Framed, Position, Saving, Unread
<1>3. RightStart /\ SavedAsSent
  BY DEF Init, RightStart, BeginsAsSent, SavedAsSent
<1> QED BY <1>1, <1>2, <1>3 DEF FramesInv, SaveInv

\* The number of bytes the client has sent and recv has not returned.
LEMMA BytesInStream ==
  ASSUME NEW s \in Seq(Frame)
  PROVE  Bytes(s) \in Nat
<1> DEFINE l == [i \in DOMAIN s |-> Header + s[i].len]
<1>1. \A i \in DOMAIN s : s[i].len \in Nat
  <2>1. \A i \in DOMAIN s : s[i] \in Frame
    OBVIOUS
  <2> QED BY <2>1 DEF Frame
<1>2. l \in Seq(Nat)
  BY <1>1, FramesAssumption
<1> HIDE DEF l
<1>3. Total(l) \in Nat
  BY <1>2, Lengths
<1> QED BY <1>3 DEF Bytes, l

LEMMA ArrivedCounts ==
  ASSUME FramesInv
  PROVE  Arrived \in Int /\ AskedFor \in Int
<1>1. Bytes(stream) \in Nat
  BY BytesInStream DEF FramesInv, StreamInv, Framed
<1>2. astray = "no" /\ off # Unread => off \in Int
  BY DEF FramesInv, Position
<1>3. Header \in Int /\ raw \in Int
  BY FramesAssumption DEF FramesInv, StreamInv
<1>4. AskedFor \in Int
  BY ModWord, FramesAssumption DEF AskedFor, FramesInv, FrameType
<1> QED BY <1>1, <1>2, <1>3, <1>4 DEF Arrived

\* A save that goes on, in step, has a frame to go on with.
LEMMA SaveHasFrame ==
  ASSUME Framed(stream), Saving, mode = "save", astray = "no", Position
  PROVE  stream # <<>>
<1>1. stream \in Seq(Frame)
  BY DEF Framed
<1> QED BY <1>1 DEF Saving, Position

\* The client adds frames behind those recvMsg has not read.
LEMMA SendInv ==
  ASSUME FramesInv, NEW m \in Message, Send(m)
  PROVE  FramesInv'
<1>0. /\ Framed(stream) /\ stream \in Seq(Frame) /\ Len(stream) \in Nat
      /\ UNCHANGED <<off, astray, open, payloadLen, isFin, maskKey, mode>>
      /\ UNCHANGED <<file, chunkSize, maxSaveSize, data, good, cut>>
  BY DEF FramesInv, StreamInv, Framed, Send, frame, save
<1>1. PICK t \in Seq(Frame) :
        /\ Framed(t)
        /\ \/ astray = "no" /\ stream' = stream \o t /\ UNCHANGED raw
           \/ astray # "no" /\ raw' = raw + Bytes(t) /\ UNCHANGED stream
  <2>1. Framed(FramesOf(m))
    BY MessageFrames DEF Framed, Continued
  <2>2. ASSUME NEW k \in DOMAIN m.lens
        PROVE  Framed(InsertAt(FramesOf(m), k, ControlFrame))
    BY ControlInserted
  <2>3. \A u : Framed(u) => u \in Seq(Frame)
    BY DEF Framed
  <2> QED BY <2>1, <2>2, <2>3 DEF Send
<1>2. ClientType' /\ FrameType' /\ SaveInv'
  BY <1>0, FramesAssumption
  DEF FramesInv, Send, ClientType, FrameType, SaveInv, SaveType, RightStart, SavedAsSent
<1>3. CASE astray # "no"
  <2>1. StreamInv'
    BY <1>0, <1>1, <1>3, BytesInStream DEF FramesInv, StreamInv
  <2>2. Position' /\ Saving'
    BY <1>0, <1>3 DEF Position, Saving
  <2> QED BY <1>2, <2>1, <2>2 DEF FramesInv
<1>4. CASE astray = "no"
  <2>1. stream' = stream \o t /\ raw' = raw
    BY <1>1, <1>4
  <2>2. StreamInv'
    BY <1>0, <1>1, <1>4, <2>1, FramedConcat DEF FramesInv, StreamInv
  <2>3. /\ Len(stream') >= Len(stream) /\ stream' \in Seq(Frame)
        /\ \A i \in 1..Len(stream) : stream'[i] = stream[i]
    <3>1. Len(t) \in Nat
      OBVIOUS
    <3>2. /\ stream \o t \in Seq(Frame) /\ Len(stream \o t) = Len(stream) + Len(t)
          /\ \A i \in 1..(Len(stream) + Len(t)) :
               (stream \o t)[i] = IF i <= Len(stream) THEN stream[i] ELSE t[i - Len(stream)]
      BY <1>0, ConcatProperties
    <3> QED BY <1>0, <2>1, <3>1, <3>2
  <2>4. stream # <<>> => stream' # <<>> /\ Head(stream') = Head(stream)
    BY <1>0, <2>3
  <2>5. Len(stream) >= 2 => Len(stream') >= 2 /\ stream'[2] = stream[2] /\ stream # <<>>
    BY <1>0, <2>3
  <2>6. Position'
    BY <1>0, <2>4 DEF FramesInv, Position, Expects
  <2>7. Saving'
    <3> SUFFICES ASSUME mode = "save" PROVE Saving'
      BY <1>0 DEF Saving
    <3>1. stream # <<>>
      BY <1>0, <1>4, SaveHasFrame DEF FramesInv
    <3> QED BY <1>0, <1>4, <2>4, <2>5, <3>1 DEF FramesInv, Saving, SavedUpTo, NothingElse
  <2> QED BY <1>2, <2>2, <2>6, <2>7 DEF FramesInv
<1> QED BY <1>3, <1>4

LEMMA LeaveInv ==
  ASSUME FramesInv, Leave
  PROVE  FramesInv'
<1>0. /\ UNCHANGED <<stream, off, raw, astray, sent, payloadLen, isFin, maskKey, mode>>
      /\ UNCHANGED <<file, chunkSize, maxSaveSize, data, good, cut>> /\ open' = FALSE
  BY DEF Leave, socket, frame, save
<1>1. ClientType' /\ FrameType' /\ SaveInv'
  BY <1>0 DEF FramesInv, ClientType, FrameType, SaveInv, SaveType, RightStart, SavedAsSent
<1>2. StreamInv'
  BY <1>0 DEF FramesInv, StreamInv
<1>3. Position' /\ Saving'
  BY <1>0 DEF FramesInv, Position, Expects, Saving, SavedUpTo, NothingElse
<1> QED BY <1>1, <1>2, <1>3 DEF FramesInv

\* recvMsg has read the first d bytes of a frame and passes on the last n of them.
LEMMA BytesRead ==
  ASSUME FramesInv, Expects, stream # <<>>,
         NEW f, f = Head(stream), ~f.ctl,
         NEW done \in Nat, NEW n \in Nat, done + n <= f.len,
         mode = "save" => SavedUpTo(f, f.from + done),
         NEW r \in 0..7, (r - done) % 4 = 0,
         isFin' = f.fin, payloadLen' = f.len - (done + n),
         maskKey' = Rotated(r, f.len - done, n),
         Advance(f, done + n),
         Deliver(f, f.from + done, Decoded(f, done, n, r), n, Reason(n)),
         astray = "no", UNCHANGED <<raw, astray>>, UNCHANGED client
  PROVE  FramesInv'
<1>1. /\ f \in Frame /\ Within(f) /\ f.from \in Nat /\ f.len \in 0..(Word - 1)
      /\ Framed(Tail(stream)) /\ Framed(stream)
  BY AtHead DEF FramesInv, StreamInv
<1>2. Saving' /\ SaveInv'
  <2>1. Deliver(f, f.from + done, [i \in 1..n |-> f.from + done + i], n, Reason(n))
    BY BytesDecoded
  <2>2. mode \in {"command", "save"} /\ SaveInv
    BY DEF FramesInv, Expects
  <2> QED BY <1>1, <2>1, <2>2, Delivered
<1>3. ClientType'
  BY DEF FramesInv, ClientType, client
<1>4. maskKey' \in 0..7 /\ (f.len # done => (maskKey' - (done + n)) % 4 = 0)
  <2>1. CASE f.len - done # 0
    <3>1. maskKey' = (r + n) % 8
      BY <2>1 DEF Rotated
    <3> QED BY <3>1, KeyRotated
  <2>2. CASE f.len - done = 0
    BY <1>1, <2>2 DEF Rotated
  <2> QED BY <2>1, <2>2
<1>5. FrameType'
  <2>1. f.fin \in BOOLEAN
    BY <1>1 DEF Frame
  <2>2. payloadLen' \in 0..(Word - 1)
    <3>1. PICK l \in 0..(Word - 1) : l = f.len
      BY <1>1
    <3>2. done + n <= l /\ payloadLen' = l - (done + n)
      BY <3>1
    <3>3. Word \in Int
      BY ModWord
    <3> QED BY ONLY <3>2, <3>3, l \in 0..(Word - 1), done \in Nat, n \in Nat
  <2> QED BY <1>4, <2>1, <2>2 DEF FrameType
<1>6. CASE done + n = f.len
  <2>1. stream' = Tail(stream) /\ off' = Unread /\ payloadLen' = 0
    BY <1>1, <1>6 DEF Advance
  <2>2. Position' /\ StreamInv'
    BY <1>1, <2>1 DEF FramesInv, Position, StreamInv
  <2> QED BY <1>2, <1>3, <1>5, <2>2 DEF FramesInv
<1>7. CASE done + n # f.len
  <2>1. stream' = stream /\ off' = done + n /\ f.len # done
    BY <1>1, <1>7 DEF Advance
  <2>2. off' \in 0..(f.len - 1) /\ off' # Unread
    BY <1>1, <1>7, <2>1 DEF Unread
  <2>3. Position' /\ StreamInv'
    BY <1>1, <1>4, <2>1, <2>2 DEF FramesInv, Position, StreamInv
  <2> QED BY <1>2, <1>3, <1>5, <2>3 DEF FramesInv
<1> QED BY <1>6, <1>7

LEMMA ContinueInv ==
  ASSUME FramesInv, Expects, astray = "no", stream # <<>>, UNCHANGED client,
         NEW k \in Nat, Continue(k)
  PROVE  FramesInv'
<1> DEFINE f == Head(stream)
<1>1. /\ payloadLen # 0 /\ k <= f.len - off /\ payloadLen' = (payloadLen - k) % Word
      /\ maskKey' = Rotated(maskKey, payloadLen, k) /\ isFin' = isFin
      /\ Advance(f, off + k) /\ UNCHANGED <<raw, astray>>
      /\ Deliver(f, f.from + off, Decoded(f, off, k, maskKey), k, Reason(k))
  BY DEF Continue
<1>2. /\ off # Unread /\ ~f.ctl /\ off \in 0..(f.len - 1) /\ payloadLen = f.len - off
      /\ isFin = f.fin /\ (maskKey - off) % 4 = 0
  BY <1>1 DEF FramesInv, Position
<1>3. f.len \in Nat /\ off \in Nat /\ maskKey \in 0..7 /\ payloadLen \in 0..(Word - 1)
  BY <1>2, AtHead DEF FramesInv, StreamInv, FrameType
<1>4. mode = "save" => SavedUpTo(f, f.from + off)
  BY <1>2 DEF FramesInv, Saving
<1> HIDE DEF f
<1>5. off + k <= f.len /\ payloadLen' = f.len - (off + k)
  <2>1. payloadLen - k \in 0..(Word - 1) /\ off + k <= f.len /\ payloadLen - k = f.len - (off + k)
    <3>1. PICK l \in Nat : l = f.len
      BY <1>3
    <3>2. k <= l - off /\ payloadLen = l - off
      BY <1>1, <1>2, <3>1
    <3>3. Word \in Int
      BY ModWord
    <3>4. payloadLen - k \in 0..(Word - 1) /\ off + k <= l /\ payloadLen - k = l - (off + k)
      BY ONLY <1>3, <3>2, <3>3, k \in Nat, l \in Nat
    <3> QED BY <3>1, <3>4
  <2> QED BY <1>1, <2>1, ModWord
<1> QED BY <1>1, <1>2, <1>3, <1>4, <1>5, BytesRead DEF f

LEMMA BeginInv ==
  ASSUME FramesInv, Expects, astray = "no", stream # <<>>, UNCHANGED client,
         NEW k \in Nat, Begin(k)
  PROVE  FramesInv'
<1> DEFINE f == Head(stream)
           n == k - Header
<1>1. /\ payloadLen = 0 /\ ~f.ctl /\ n \in 0..f.len /\ isFin' = f.fin /\ payloadLen' = f.len - n
      /\ maskKey' = Rotated(0, f.len, n) /\ UNCHANGED <<raw, astray>>
      /\ Advance(f, n) /\ Deliver(f, f.from, Decoded(f, 0, n, 0), n, Reason(n))
  BY DEF Begin
<1>2. f.len \in Nat /\ f.from \in Nat
  BY AtHead DEF FramesInv, StreamInv
<1>3. off = Unread
  BY <1>1, <1>2 DEF FramesInv, Position
<1>4. mode = "save" => SavedUpTo(f, f.from)
  BY <1>1, <1>3 DEF FramesInv, Saving
<1> HIDE DEF f, n
<1>5. n \in Nat /\ 0 + n = n /\ n <= f.len /\ f.from + 0 = f.from /\ f.len - 0 = f.len
  BY <1>1, <1>2
<1> QED
  <2>1. /\ 0 + n <= f.len /\ (mode = "save" => SavedUpTo(f, f.from + 0))
        /\ payloadLen' = f.len - (0 + n) /\ maskKey' = Rotated(0, f.len - 0, n)
        /\ Advance(f, 0 + n) /\ Deliver(f, f.from + 0, Decoded(f, 0, n, 0), n, Reason(n))
    BY <1>1, <1>4, <1>5
  <2>2. (0 - 0) % 4 = 0 /\ 0 \in 0..7 /\ 0 \in Nat
    OBVIOUS
  <2> QED BY <1>1, <1>5, <2>1, <2>2, BytesRead DEF f

\* The session is or goes astray.
LEMMA AstrayInv ==
  ASSUME ClientType', FrameType', SaveInv',
         stream' = <<>>, off' = Unread, raw' \in Nat, astray' = "first"
  PROVE  FramesInv'
<1>1. StreamInv'
  BY DEF StreamInv, Framed
<1>2. Position' /\ Saving'
  BY DEF Position, Saving
<1> QED BY <1>1, <1>2 DEF FramesInv

LEMMA CloseInv ==
  ASSUME FramesInv, Expects, astray = "no", stream # <<>>, UNCHANGED client,
         NEW k \in Nat, k <= Arrived, Close(k)
  PROVE  FramesInv'
<1>0. Framed(stream) /\ Framed(Tail(stream)) /\ raw \in Nat
  BY AtHead DEF FramesInv, StreamInv
<1>1. /\ SaveInv' /\ mode' \in {"ended", "command"} /\ payloadLen' = 0 /\ isFin' \in BOOLEAN
  BY <1>0, CloseReturned DEF FramesInv, Close
<1>2. ClientType'
  BY DEF FramesInv, ClientType, client
<1>3. CASE stream' = Tail(stream) /\ off' = Unread /\ UNCHANGED <<raw, astray, maskKey>>
  <2>1. FrameType'
    BY <1>1, <1>3, ModWord DEF FramesInv, FrameType
  <2>2. StreamInv' /\ Position' /\ Saving'
    BY <1>0, <1>1, <1>3 DEF FramesInv, StreamInv, Position, Saving
  <2> QED BY <1>1, <1>2, <2>1, <2>2 DEF FramesInv
<1>4. CASE Lost(k, "first")
  <2>1. FrameType'
    BY <1>1, <1>4, ModWord DEF Lost, FrameType
  <2>2. raw' \in Nat
    BY <1>4, ArrivedCounts DEF Lost
  <2> QED BY <1>1, <1>2, <1>4, <2>1, <2>2, AstrayInv DEF Lost
<1> QED BY <1>3, <1>4 DEF Close

\* recv is not asked for more than what is left of a frame it has begun; a first read
\* that goes too far brings the right bytes first.
LEMMA OverrunInv ==
  ASSUME FramesInv, Expects, astray = "no", stream # <<>>, UNCHANGED client,
         NEW k \in Nat, k <= AskedFor, k <= Arrived, Overrun(k)
  PROVE  FramesInv'
<1> DEFINE f == Head(stream)
           n == k - Header
           m == n - f.len
           piece == Decoded(f, 0, f.len, 0) \o Noise(m)
<1>1. /\ f \in Frame /\ Within(f) /\ f.from \in Nat /\ f.len \in Nat /\ Header \in Nat
      /\ payloadLen \in 0..(Word - 1) /\ SaveHead \in Nat \ {0}
  BY AtHead, FramesAssumption DEF FramesInv, StreamInv, FrameType
<1>2. payloadLen = 0
  <2> SUFFICES ASSUME payloadLen # 0 PROVE FALSE
    OBVIOUS
  <2>1. off # Unread /\ payloadLen = f.len - off
    BY DEF FramesInv, Position
  <2>2. k <= payloadLen
    BY <1>1, FramesAssumption DEF AskedFor
  <2>3. k > f.len - off
    BY <2>1 DEF Overrun
  <2> HIDE DEF f
  <2> QED BY <1>1, <2>1, <2>2, <2>3
<1>3. off = Unread
  BY <1>2, <1>1 DEF FramesInv, Position
<1> HIDE DEF m
<1>4. /\ ~f.ctl /\ n > f.len - 0 /\ payloadLen' = (f.len - n) % Word /\ isFin' = f.fin
      /\ Lost(k, "first")
      /\ Deliver(f, f.from + 0, Decoded(f, 0, f.len - 0, 0) \o Noise(n - (f.len - 0)),
                 f.len - 0, "astray")
  BY <1>2 DEF Overrun
<1> HIDE DEF f, n, piece
<1>5. n \in Nat /\ n > f.len /\ f.len - 0 = f.len /\ f.from + 0 = f.from /\ m \in Nat
      /\ n - (f.len - 0) = m
  BY <1>1, <1>4 DEF m, n
<1>6. Deliver(f, f.from, piece, f.len, "astray")
  BY <1>4, <1>5 DEF piece
<1>7. /\ piece \in Seq(Int) /\ f.len \in 0..Len(piece) /\ Len(piece) > 0
      /\ \A i \in 1..f.len : piece[i] = f.from + i
  <2> DEFINE q == Decoded(f, 0, f.len, 0)
             r == Noise(m)
  <2>1. q = [i \in 1..f.len |-> f.from + 0 + i]
    <3>1. (0 - 0) % 4 = 0
      OBVIOUS
    <3> QED BY <3>1 DEF Decoded
  <2>2. q \in Seq(Int) /\ Len(q) = f.len /\ \A i \in 1..f.len : q[i] = f.from + i
    BY <1>1, <2>1
  <2>3. r \in Seq(Int) /\ Len(r) = m
    BY <1>5 DEF Noise, Garbled
  <2> HIDE DEF q, r
  <2>4. /\ q \o r \in Seq(Int) /\ Len(q \o r) = Len(q) + Len(r)
        /\ \A i \in 1..(Len(q) + Len(r)) :
             (q \o r)[i] = IF i <= Len(q) THEN q[i] ELSE r[i - Len(q)]
    <3>1. q \in Seq(Int) /\ r \in Seq(Int)
      BY <2>2, <2>3
    <3> QED BY ONLY <3>1, ConcatProperties
  <2>5. piece = q \o r
    BY DEF piece, q, r
  <2>6. m > 0
    BY <1>1, <1>5 DEF m
  <2>7. Len(piece) = f.len + m
    BY <2>2, <2>3, <2>4, <2>5
  <2>8. ASSUME NEW i \in 1..f.len PROVE piece[i] = f.from + i
    <3>1. i \in 1..(Len(q) + Len(r)) /\ i <= Len(q)
      BY <1>1, <1>5, <2>2, <2>3
    <3> QED BY <2>2, <2>4, <2>5, <3>1
  <2>9. f.len \in 0..(f.len + m) /\ f.len + m > 0
    BY <1>1, <1>5, <2>6
  <2>10. piece \in Seq(Int)
    BY <2>4, <2>5
  <2> QED BY <2>7, <2>8, <2>9, <2>10
<1>8. SaveInv'
  <2>1. ASSUME mode = "command", Interpret(f, f.from, piece, f.len, "astray") PROVE SaveInv'
    <3>1. CASE mode' = "command" /\ UNCHANGED save
      BY <2>1, <3>1, NothingSaved DEF FramesInv
    <3>2. CASE f.from = 0 /\ f.len >= SaveHead /\ StartSave(f, piece, f.len, "astray")
      <4>1. f.data \in Nat
        <5>1. SaveHead <= f.from + f.len
          BY <1>1, <3>2
        <5> QED BY <1>1, <1>4, <3>2, <5>1, Left
      <4>2. f.len \in SaveHead..Len(piece) /\ \A i \in 1..f.len : piece[i] = i
        BY <1>1, <1>7, <3>2
      <4>3. /\ RightStart' /\ chunkSize' \in 0..(Word - 1) /\ data' = f.data
            /\ maxSaveSize' \in 0..(Word - 1) /\ LoopOrEnd(Len(piece), "astray")
        BY <1>1, <1>7, <3>2, <4>1, <4>2, Started
      <4>4. SaveType'
        BY <4>1, <4>3 DEF FramesInv, SaveInv, SaveType, LoopOrEnd
      <4>5. SavedAsSent'
        BY <4>3 DEF SavedAsSent, RightStart, BeginsAsSent, LoopOrEnd
      <4> QED BY <4>3, <4>4, <4>5 DEF SaveInv
    <3>3. CASE StartHeadless(Len(piece))
      BY <3>3, HeadlessStarted DEF FramesInv
    <3>4. CASE AnyRequest(Len(piece))
      BY <2>1, <3>4, AnyRequestSaved DEF FramesInv
    <3> QED BY <1>7, <2>1, <3>1, <3>2, <3>3, <3>4 DEF Interpret
  <2>2. ASSUME mode = "save", WritePiece(piece, f.len, "astray") PROVE SaveInv'
    <3>1. SavedUpTo(f, f.from)
      BY <1>3, <1>4, <2>2 DEF f, FramesInv, Saving
    <3>2. data # Unknown =>
            NothingElse /\ \A i \in 1..f.len : piece[i] = SaveHead + good + i
      <4>1. data # Unknown => NothingElse /\ good = f.from - SaveHead
        BY <3>1 DEF SavedUpTo
      <4>2. data # Unknown => SaveHead + good = f.from
        BY <1>1, <4>1
      <4> QED BY <1>1, <1>7, <4>1, <4>2
    <3> QED BY <1>7, <2>2, <3>2, ForeignWritten DEF FramesInv
  <2> QED BY <1>6, <2>1, <2>2 DEF Deliver
<1>9. FrameType'
  <2>1. f.len - n \in Int /\ isFin' \in BOOLEAN
    BY <1>1, <1>4, <1>5 DEF Frame
  <2>2. (f.len - n) % Word \in 0..(Word - 1) /\ 0 \in 0..7
    <3>1. PICK d \in Int : d = f.len - n
      BY <2>1
    <3>2. d % Word \in 0..(Word - 1)
      BY ONLY ModWord, d \in Int
    <3> QED BY <3>1, <3>2
  <2> QED BY <1>4, <2>1, <2>2 DEF FrameType, Lost
<1>10. raw' \in Nat /\ stream' = <<>> /\ off' = Unread /\ astray' = "first"
  BY <1>4, ArrivedCounts DEF Lost
<1>11. ClientType'
  BY DEF FramesInv, ClientType, client
<1> QED BY <1>8, <1>9, <1>10, <1>11, AstrayInv

\* Bytes out of place make no request of the client's, and spoil no byte in its place.
LEMMA StrangeInv ==
  ASSUME SaveInv, NEW n \in Nat, Strange(n)
  PROVE  SaveInv'
<1>1. Noise(n) \in Seq(Int) /\ Len(Noise(n)) = n /\ 0 \in 0..n
  BY DEF Noise, Garbled
<1>2. CASE mode = "command" /\ AnyRequest(n)
  BY <1>2, AnyRequestSaved
<1>3. CASE mode = "save" /\ WritePiece(Noise(n), 0, "astray")
  <2>1. 0 \in 0..Len(Noise(n))
    BY <1>1
  <2> QED BY <1>1, <1>3, <2>1, ForeignWritten
<1> QED BY <1>2, <1>3 DEF Strange

LEMMA CrashInv ==
  ASSUME SaveInv, Crash
  PROVE  SaveInv' /\ UNCHANGED frame
<1>1. mode' = "crashed" /\ UNCHANGED frame
      /\ UNCHANGED <<file, chunkSize, maxSaveSize, data, good, cut>>
  BY DEF Crash, save
<1> QED BY <1>1 DEF SaveInv, SaveType, RightStart, SavedAsSent

LEMMA MisreadInv ==
  ASSUME FramesInv, Expects, NEW k \in Int, Misread(k)
  PROVE  FrameType' /\ SaveInv'
<1>1. CASE ReturnClose("astray") /\ UNCHANGED maskKey
  <2>1. SaveInv' /\ payloadLen' = 0 /\ isFin' \in BOOLEAN
    BY <1>1, CloseReturned DEF FramesInv, StreamInv
  <2> QED BY <1>1, <2>1, ModWord DEF FramesInv, FrameType
<1>2. CASE Crash
  BY <1>2, CrashInv DEF FramesInv, FrameType, frame
<1>3. CASE /\ \E l \in Claimed : payloadLen' = (l - (k - Header)) % Word
           /\ isFin' \in BOOLEAN /\ UNCHANGED maskKey
           /\ Strange((k - Header) % Word)
  <2>1. k - Header \in Int
    BY FramesAssumption
  <2>2. (k - Header) % Word \in Nat
    BY <2>1, ModWord
  <2>3. SaveInv'
    BY <1>3, <2>2, StrangeInv DEF FramesInv
  <2>4. \A l \in Claimed : l - (k - Header) \in Int
    BY <2>1, FramesAssumption
  <2>5. payloadLen' \in 0..(Word - 1)
    BY <1>3, <2>4, ModWord
  <2> QED BY <1>3, <2>3, <2>5 DEF FramesInv, FrameType
<1> QED BY <1>1, <1>2, <1>3 DEF Misread

LEMMA WanderInv ==
  ASSUME FramesInv, NEW k \in Nat, Wander(k)
  PROVE  FrameType' /\ SaveInv'
<1>1. SaveInv'
  BY StrangeInv DEF Wander, FramesInv
<1>2. payloadLen - k \in Int
  BY ModWord DEF FramesInv, FrameType
<1> QED BY <1>1, <1>2, ModWord DEF Wander, FramesInv, FrameType

LEMMA GoneInv ==
  ASSUME FramesInv, Gone
  PROVE  FramesInv'
<1>1. /\ Expects /\ stream' = <<>> /\ off' = Unread /\ raw' = 0 /\ astray' = astray
      /\ UNCHANGED <<maskKey, sent, open>>
      /\ ReturnClose(IF astray = "no" THEN "gone" ELSE "astray")
  BY DEF Gone, client
<1>2. /\ SaveInv' /\ mode' \in {"ended", "command"} /\ payloadLen' = 0 /\ isFin' \in BOOLEAN
  <2>1. PICK why \in {"gone", "astray"} : why = IF astray = "no" THEN "gone" ELSE "astray"
    OBVIOUS
  <2> QED BY <1>1, <2>1, CloseReturned DEF FramesInv, StreamInv
<1>3. ClientType' /\ FrameType'
  BY <1>1, <1>2, ModWord DEF FramesInv, ClientType, FrameType
<1>4. StreamInv'
  BY <1>1 DEF FramesInv, StreamInv, Framed
<1>5. Position' /\ Saving'
  BY <1>1, <1>2 DEF Position, Saving
<1> QED BY <1>2, <1>3, <1>4, <1>5 DEF FramesInv

LEMMA RecvFailsInv ==
  ASSUME FramesInv, RecvFails
  PROVE  FramesInv'
<1>1. /\ Expects /\ stream' = <<>> /\ off' = Unread /\ raw' = 0 /\ UNCHANGED client
      /\ astray' = IF astray = "no" THEN "first" ELSE astray
      /\ Crash \/ Misread(-1)
  BY DEF RecvFails
<1>2. FrameType' /\ SaveInv'
  BY <1>1, CrashInv, MisreadInv DEF FramesInv, FrameType, frame
<1>3. ClientType' /\ astray' = "first"
  BY <1>1 DEF FramesInv, StreamInv, ClientType, client
<1> QED BY <1>1, <1>2, <1>3, AstrayInv

LEMMA RecvMsgInv ==
  ASSUME FramesInv, RecvMsg
  PROVE  FramesInv'
<1>1. PICK k \in 1..(IF Arrived < AskedFor THEN Arrived ELSE AskedFor) :
        \/ /\ astray = "no" /\ stream # <<>>
           /\ \/ Continue(k) \/ Begin(k) \/ Close(k) \/ Overrun(k)
              \/ /\ ~Head(stream).ctl /\ k < Header /\ Misread(k)
                 /\ raw' = Arrived - k /\ astray' = "first"
                 /\ stream' = <<>> /\ off' = Unread
        \/ /\ astray # "no"
           /\ Wander(k) \/ Misread(k)
           /\ raw' = raw - k /\ UNCHANGED <<stream, off, astray>>
  BY DEF RecvMsg
<1>2. k \in Nat /\ k \in Int /\ k <= AskedFor /\ k <= Arrived /\ Arrived - k \in Nat
  BY ArrivedCounts
<1>3. Expects /\ UNCHANGED client /\ ClientType'
  BY DEF RecvMsg, FramesInv, ClientType, client
<1>4. CASE astray = "no" /\ stream # <<>> /\ (Continue(k) \/ Begin(k) \/ Close(k) \/ Overrun(k))
  BY <1>2, <1>3, <1>4, ContinueInv, BeginInv, CloseInv, OverrunInv
<1>5. CASE Misread(k) /\ raw' = Arrived - k /\ astray' = "first" /\ stream' = <<>> /\ off' = Unread
  BY <1>2, <1>3, <1>5, MisreadInv, AstrayInv
<1>6. CASE /\ astray # "no" /\ (Wander(k) \/ Misread(k))
           /\ raw' = raw - k /\ UNCHANGED <<stream, off, astray>>
  <2>1. FrameType' /\ SaveInv'
    BY <1>2, <1>3, <1>6, WanderInv, MisreadInv
  <2>2. astray = "first" /\ stream = <<>> /\ off = Unread
    BY <1>6 DEF FramesInv, StreamInv
  <2>3. raw' \in Nat
    BY <1>2, <1>6 DEF Arrived
  <2> QED BY <1>3, <1>6, <2>1, <2>2, <2>3, AstrayInv
<1> QED BY <1>1, <1>4, <1>5, <1>6

LEMMA NextFramesInv == FramesInv /\ [Next]_vars => FramesInv'
<1> SUFFICES ASSUME FramesInv, [Next]_vars PROVE FramesInv'
  OBVIOUS
<1>1. CASE \E m \in Message : Send(m)
  BY <1>1, SendInv
<1>2. CASE Leave
  BY <1>2, LeaveInv
<1>3. CASE RecvMsg
  BY <1>3, RecvMsgInv
<1>4. CASE Gone
  BY <1>4, GoneInv
<1>5. CASE RecvFails
  BY <1>5, RecvFailsInv
<1>6. CASE UNCHANGED vars
  <2>1. /\ UNCHANGED <<stream, off, raw, astray, sent, open, payloadLen, isFin, maskKey, mode>>
        /\ UNCHANGED <<file, chunkSize, maxSaveSize, data, good, cut>>
    BY <1>6 DEF vars, socket, client, frame, save
  <2>2. ClientType' /\ FrameType' /\ SaveInv'
    BY <2>1 DEF FramesInv, ClientType, FrameType, SaveInv, SaveType, RightStart, SavedAsSent
  <2>3. StreamInv'
    BY <2>1 DEF FramesInv, StreamInv
  <2>4. Position' /\ Saving'
    BY <2>1 DEF FramesInv, Position, Expects, Saving, SavedUpTo, NothingElse
  <2> QED BY <2>2, <2>3, <2>4 DEF FramesInv
<1> QED BY <1>1, <1>2, <1>3, <1>4, <1>5, <1>6 DEF Next

LEMMA FramesInvariance == Spec => []FramesInv
BY InitFramesInv, NextFramesInv, PTL DEF Spec

-----------------------------------------------------------------------------
(* Theorems *)

\* payloadLen and maxSaveSize stay counts below Word whatever recv returns, and
\* whatever the client declares or sends out of place.
THEOREM FramesTypeCorrect == Spec => []TypeOK
<1>1. FramesInv => TypeOK
  <2> SUFFICES ASSUME FramesInv PROVE TypeOK
    OBVIOUS
  <2>1. ClientType /\ FrameType /\ SaveType /\ StreamInv /\ good \in Nat
    BY DEF FramesInv, SaveInv, RightStart, BeginsAsSent
  <2>2. \A i \in DOMAIN stream : stream[i].len \in Nat
    <3>1. stream \in Seq(Frame)
      BY DEF FramesInv, StreamInv, Framed
    <3>2. \A i \in DOMAIN stream : stream[i] \in Frame
      BY <3>1
    <3> QED BY <3>2 DEF Frame
  <2>3. off = Unread \/ (stream # <<>> /\ off \in 0..Head(stream).len)
    BY AtHead DEF FramesInv, StreamInv, Position
  <2> QED BY <2>1, <2>2, <2>3 DEF TypeOK, ClientType, FrameType, SaveType, StreamInv
<1> QED BY <1>1, FramesInvariance, PTL

\* A read that continues a frame never goes past its end, and until a first read of a
\* frame does, the session agrees with the stream on where a message ends.
THEOREM InStepHolds == Spec => []InStep
<1>1. FramesInv => InStep
  <2> SUFFICES ASSUME FramesInv PROVE InStep
    OBVIOUS
  <2> DEFINE f == Head(stream)
  <2>1. astray # "later"
    BY DEF FramesInv, StreamInv
  <2> SUFFICES ASSUME astray = "no", Expects
               PROVE  /\ payloadLen = IF off = Unread THEN 0 ELSE f.len - off
                      /\ payloadLen # 0 => (maskKey - off) % 4 = 0
                      /\ mode = "save" /\ stream # <<>> =>
                           (f.ctl \/ off # Unread \/ f.from > 0)
                      /\ mode = "save" => stream # <<>> \/ ~open
    BY <2>1 DEF InStep
  <2>2. /\ payloadLen = IF off = Unread THEN 0 ELSE f.len - off
        /\ payloadLen # 0 => (maskKey - off) % 4 = 0
    BY DEF FramesInv, Position
  <2>3. mode = "save" => stream # <<>>
    BY SaveHasFrame DEF FramesInv, StreamInv
  <2>4. mode = "save" => (f.ctl \/ off # Unread \/ f.from > 0)
    <3>1. mode = "save" => f.ctl \/ off # Unread \/ f.from >= 1
      BY DEF FramesInv, Saving, SavedUpTo
    <3>2. mode = "save" => f.from \in Nat
      BY <2>3, AtHead DEF FramesInv, StreamInv
    <3> QED BY <3>1, <3>2
  <2> QED BY <2>2, <2>3, <2>4
<1> QED BY <1>1, FramesInvariance, PTL

\* Whatever size is declared and however the stream is cut, even after a read has gone
\* past a frame: what came in step is in its place up to that size, and in step a chunk
\* is handed on whole unless a control frame, a header alone or the end of the
\* connection came first; then it is its beginning.
THEOREM SavedAsSentHolds == Spec => []SavedAsSent
BY FramesInvariance, PTL DEF FramesInv, SaveInv

-----------------------------------------------------------------------------
(* Transfers *)

Attempt == Transfer \X (1..Attempts)

TransferTypes ==
  /\ saving \in Upload \cup {Main}
  /\ try \in [Transfer -> 0..Attempts]
  /\ result \in [Transfer -> {"none", "done", "failed"}]
  /\ phase \in [Transfer -> Temp!Phase]
  /\ fileSize \in [Transfer -> Nat] /\ curAllocate \in Int
  /\ pending \in [0..2 -> Seq(Attempt)]
  /\ active \in SUBSET Attempt /\ IsFiniteSet(active)
  /\ finished \in SUBSET Attempt /\ IsFiniteSet(finished)

InNewTemp(t) == phase[t] \in {"check", "waiting"}

\* A download is in newTemp only while its current attempt occupies a slot.
SlotWhileInNewTemp == \A d \in Download : InNewTemp(d) => Works(d) /\ result[d] = "none"

TransfersInv == TransferTypes /\ SlotWhileInNewTemp

-----------------------------------------------------------------------------
\* What the pool's operations do to the types.
LEMMA SubmitTypes ==
  ASSUME TransferTypes, NEW c, NEW k \in Attempt, NEW q \in 0..2, Pool!Submit(c, k, q)
  PROVE  /\ pending' \in [0..2 -> Seq(Attempt)]
         /\ UNCHANGED <<active, finished>>
BY DEF Pool!Submit, TransferTypes

LEMMA ReturnTypes ==
  ASSUME TransferTypes, NEW k, Pool!Return(k)
  PROVE  /\ active' = active \ {k} /\ UNCHANGED pending
         /\ active' \in SUBSET Attempt /\ IsFiniteSet(active')
         /\ finished' \in SUBSET Attempt /\ IsFiniteSet(finished')
<1>1. /\ k \in active /\ active' = active \ {k} /\ finished' = finished \cup {k}
      /\ UNCHANGED pending
  BY DEF Pool!Return
<1>2. IsFiniteSet(active') /\ IsFiniteSet(finished')
  BY <1>1, FS_RemoveElement, FS_AddElement DEF TransferTypes
<1> QED BY <1>1, <1>2 DEF TransferTypes

LEMMA StartTypes ==
  ASSUME TransferTypes, StartTask
  PROVE  /\ active \subseteq active' /\ UNCHANGED finished
         /\ active' \in SUBSET Attempt /\ IsFiniteSet(active')
         /\ pending' \in [0..2 -> Seq(Attempt)]
<1>1. PICK q \in 0..2 : Pool!Start(q)
  BY DEF StartTask
<1>2. pending[q] \in Seq(Attempt) /\ pending[q] # <<>>
  BY <1>1 DEF Pool!Start, TransferTypes
<1>3. Head(pending[q]) \in Attempt /\ Tail(pending[q]) \in Seq(Attempt)
  BY <1>2
<1>4. /\ active' = active \cup {Head(pending[q])}
      /\ pending' = [pending EXCEPT ![q] = Tail(@)] /\ UNCHANGED finished
  BY <1>1 DEF Pool!Start
<1>5. IsFiniteSet(active')
  BY <1>4, FS_AddElement DEF TransferTypes
<1> QED BY <1>3, <1>4, <1>5 DEF TransferTypes

\* A full pool starts nothing.
LEMMA NoStartWhenFull ==
  ASSUME TransferTypes, Cardinality(active) = Limit
  PROVE  ~StartTask
<1>1. IsFiniteSet(active \cup finished)
  BY FS_Union DEF TransferTypes
<1>2. active \subseteq active \cup finished
  OBVIOUS
<1>3. Cardinality(active) <= Cardinality(active \cup finished)
  BY <1>1, <1>2, FS_Subset
<1>4. Cardinality(active \cup finished) \in Nat /\ Limit \in Nat
  BY <1>1, FS_CardinalityType, TransfersAssumption
<1>5. Pool!Cardinality(active \cup finished) = Cardinality(active \cup finished)
  BY DEF Pool!Cardinality, Cardinality
<1> QED BY <1>3, <1>4, <1>5 DEF StartTask, Pool!Start

\* newTemp, the filling and deleteTemp move the transfer t; a signal also lets
\* a waiting transfer test again.
LEMMA TempMoves ==
  ASSUME TransferTypes, NEW t \in Transfer,
         \/ Temp!Admit(t) \/ Temp!Wait(t) \/ Temp!Take(t) \/ Temp!SpuriousWakeup(t)
         \/ Temp!Fill(t) \/ Temp!Release(t) \/ Temp!Truncate(t) \/ Temp!Signal(t)
  PROVE  /\ phase' \in [Transfer -> Temp!Phase]
         /\ UNCHANGED fileSize /\ curAllocate' \in Int
         /\ \A u \in Transfer : InNewTemp(u)' => InNewTemp(u)
<1>1. CASE Temp!Admit(t) \/ Temp!Wait(t)
  BY <1>1 DEF Temp!Admit, Temp!Wait, Temp!Enter, Temp!Phase, TransferTypes, InNewTemp
<1>2. CASE Temp!Take(t)
  BY <1>2 DEF Temp!Take, Temp!Enter, Temp!Phase, TransferTypes, InNewTemp
<1>3. CASE Temp!SpuriousWakeup(t) \/ Temp!Fill(t)
  BY <1>3 DEF Temp!SpuriousWakeup, Temp!Fill, Temp!Enter, Temp!Phase, TransferTypes,
              InNewTemp
<1>4. CASE Temp!Release(t)
  <2>1. curAllocate' \in Int
    BY <1>4, TransfersAssumption DEF Temp!Release, Temp!AsInt, TransferTypes
  <2>2. phase' = [phase EXCEPT ![t] = "released"] /\ UNCHANGED fileSize
    BY <1>4 DEF Temp!Release, Temp!Enter
  <2> QED BY <2>1, <2>2 DEF Temp!Phase, TransferTypes, InNewTemp
<1>6. CASE Temp!Truncate(t)
  BY <1>6 DEF Temp!Truncate, Temp!Enter, Temp!Phase, TransferTypes, InNewTemp
<1>5. CASE Temp!Signal(t)
  BY <1>5 DEF Temp!Signal, Temp!Enter, Temp!In, Temp!Phase, TransferTypes, InNewTemp
<1> QED BY <1>1, <1>2, <1>3, <1>4, <1>5, <1>6

\* Entering newTemp.
LEMMA EntersNewTemp ==
  ASSUME TransferTypes, NEW t \in Transfer, NEW n \in Nat, Temp!NewTemp(t, n)
  PROVE  /\ phase[t] = "idle" /\ phase' = [phase EXCEPT ![t] = "check"]
         /\ fileSize' = [fileSize EXCEPT ![t] = n] /\ UNCHANGED curAllocate
         /\ phase' \in [Transfer -> Temp!Phase]
         /\ fileSize' \in [Transfer -> Nat]
BY DEF Temp!NewTemp, Temp!Enter, Temp!Phase, TransferTypes

-----------------------------------------------------------------------------
LEMMA InitTransfersInv == TransfersInit => TransfersInv
<1> SUFFICES ASSUME TransfersInit PROVE TransfersInv
  OBVIOUS
<1>1. pending \in [0..2 -> Seq(Attempt)] /\ active = {} /\ finished = {}
  BY DEF TransfersInit, Pool!Init
<1>2. phase \in [Transfer -> Temp!Phase] /\ fileSize \in [Transfer -> Nat] /\ curAllocate \in Int
  BY DEF TransfersInit, Temp!Init, Temp!Phase
<1>3. \A d \in Download : ~InNewTemp(d)
  BY DEF TransfersInit, Temp!Init, Transfer, InNewTemp
<1>4. try \in [Transfer -> 0..Attempts]
  BY TransfersAssumption DEF TransfersInit
<1> QED BY <1>1, <1>2, <1>3, <1>4, FS_EmptySet
        DEF TransfersInit, TransfersInv, TransferTypes, SlotWhileInNewTemp

LEMMA ReadSaveFileInv ==
  ASSUME TransfersInv, NEW u \in Upload, ReadSaveFile(u)
  PROVE  TransfersInv'
<1>1. u \in Transfer /\ u \notin Download /\ ChunkSize[u] \in Nat
  BY TransfersAssumption DEF Transfer
<1>2. UNCHANGED <<pending, active, finished, try, result>> /\ saving' = u
      /\ Temp!NewTemp(u, ChunkSize[u])
  BY DEF ReadSaveFile, pool
<1>3. TransferTypes'
  BY <1>1, <1>2, EntersNewTemp DEF TransfersInv, TransferTypes
<1>4. \A d \in Download : phase'[d] = phase[d]
  BY <1>1, <1>2, EntersNewTemp DEF TransfersInv, TransferTypes, Transfer
<1> QED BY <1>2, <1>3, <1>4
        DEF TransfersInv, SlotWhileInNewTemp, InNewTemp, Works, Task

LEMMA GetNewTempInv ==
  ASSUME TransfersInv, NEW d \in Download, GetNewTemp(d)
  PROVE  TransfersInv'
<1>1. d \in Transfer /\ ChunkSize[d] \in Nat
  BY TransfersAssumption DEF Transfer
<1>2. /\ UNCHANGED <<pending, active, finished, saving, try, result>>
      /\ Works(d) /\ result[d] = "none" /\ Temp!NewTemp(d, ChunkSize[d])
  BY DEF GetNewTemp, pool, own
<1>3. TransferTypes'
  BY <1>1, <1>2, EntersNewTemp DEF TransfersInv, TransferTypes
<1>4. \A e \in Download : e # d => phase'[e] = phase[e]
  BY <1>1, <1>2, EntersNewTemp DEF TransfersInv, TransferTypes, Transfer
<1> QED BY <1>2, <1>3, <1>4
        DEF TransfersInv, SlotWhileInNewTemp, InNewTemp, Works, Task

\* Steps that only move temporary files, and perhaps end the attempt of a transfer
\* that has its file.
LEMMA TempStepInv ==
  ASSUME TransfersInv, NEW t \in Transfer,
         \/ Temp!Admit(t) \/ Temp!Wait(t) \/ Temp!Take(t) \/ Temp!SpuriousWakeup(t)
         \/ Temp!Fill(t) \/ Temp!Release(t) \/ Temp!Truncate(t) \/ Temp!Signal(t),
         UNCHANGED <<pool, saving, try, result>>
  PROVE  TransfersInv'
<1>1. UNCHANGED <<pending, active, finished, saving, try, result>>
  BY DEF pool
<1>2. TransferTypes'
  BY <1>1, TempMoves DEF TransfersInv, TransferTypes
<1>3. \A d \in Download : InNewTemp(d)' => InNewTemp(d)
  BY TempMoves DEF TransfersInv, Transfer
<1> QED BY <1>1, <1>2, <1>3 DEF TransfersInv, SlotWhileInNewTemp, Works, Task

LEMMA QueueSaveInv ==
  ASSUME TransfersInv, QueueSave
  PROVE  TransfersInv'
<1>1. /\ Pool!Submit(Main, <<saving, 1>>, 0) /\ saving \in Upload
      /\ try' = [try EXCEPT ![saving] = 1] /\ saving' = Main /\ UNCHANGED <<temp, result>>
  BY DEF QueueSave, TransfersInv, TransferTypes
<1>2. <<saving, 1>> \in Attempt /\ saving \notin Download /\ 1 \in 0..Attempts
  BY <1>1, TransfersAssumption DEF Attempt, Transfer
<1>3. pending' \in [0..2 -> Seq(Attempt)] /\ UNCHANGED <<active, finished>>
  BY <1>1, <1>2, SubmitTypes DEF TransfersInv
<1>4. TransferTypes'
  BY <1>1, <1>2, <1>3 DEF TransfersInv, TransferTypes, temp
<1>5. \A d \in Download : try'[d] = try[d]
  BY <1>1, <1>2 DEF TransfersInv, TransferTypes, Transfer
<1> QED BY <1>1, <1>3, <1>4, <1>5
        DEF TransfersInv, SlotWhileInNewTemp, InNewTemp, Works, Task, temp

LEMMA ReadGetFileInv ==
  ASSUME TransfersInv, NEW d \in Download, ReadGetFile(d)
  PROVE  TransfersInv'
<1>1. /\ try[d] = 0 /\ Pool!Submit(Main, <<d, 1>>, 1)
      /\ try' = [try EXCEPT ![d] = 1] /\ UNCHANGED <<temp, saving, result>>
  BY DEF ReadGetFile
<1>2. d \in Transfer /\ <<d, 1>> \in Attempt /\ 1 \in 0..Attempts
  BY TransfersAssumption DEF Attempt, Transfer
<1>3. pending' \in [0..2 -> Seq(Attempt)] /\ UNCHANGED <<active, finished>>
  BY <1>1, <1>2, SubmitTypes DEF TransfersInv
<1>4. TransferTypes'
  BY <1>1, <1>2, <1>3 DEF TransfersInv, TransferTypes, temp
<1>5. ~InNewTemp(d)
  <2>1. <<d, 0>> \notin Attempt
    BY DEF Attempt
  <2>2. ~Works(d)
    BY <1>1, <2>1 DEF TransfersInv, TransferTypes, Works, Task
  <2> QED BY <2>2 DEF TransfersInv, SlotWhileInNewTemp
<1>6. \A e \in Download : e # d => try'[e] = try[e]
  BY <1>1, <1>2 DEF TransfersInv, TransferTypes, Transfer
<1> QED BY <1>1, <1>3, <1>4, <1>5, <1>6
        DEF TransfersInv, SlotWhileInNewTemp, InNewTemp, Works, Task, temp

\* What ends an attempt is not in newTemp.
LEMMA ResultInv ==
  ASSUME TransfersInv, NEW t \in Transfer, NEW r \in {"done", "failed"},
         t \in Download => ~InNewTemp(t),
         result' = [result EXCEPT ![t] = r],
         UNCHANGED <<temp, pool, saving, try>>
  PROVE  TransfersInv'
<1>1. TransferTypes'
  BY DEF TransfersInv, TransferTypes, temp, pool
<1>2. \A d \in Download : d # t => result'[d] = result[d]
  BY DEF TransfersInv, TransferTypes, Transfer
<1> QED BY <1>1, <1>2
        DEF TransfersInv, SlotWhileInNewTemp, InNewTemp, Works, Task, temp, pool

LEMMA GetInv ==
  ASSUME TransfersInv, NEW d \in Download, Get(d)
  PROVE  TransfersInv'
<1>1. d \in Transfer /\ UNCHANGED <<pool, saving, try>>
  BY DEF Get, Transfer
<1>2. CASE Temp!Fill(d) /\ result' = [result EXCEPT ![d] = "done"]
  <2>1. UNCHANGED <<pending, active, finished, saving, try>>
    BY <1>1 DEF pool
  <2>2. TransferTypes'
    BY <1>1, <1>2, <2>1, TempMoves DEF TransfersInv, TransferTypes
  <2>3. phase[d] = "holding" /\ phase' = [phase EXCEPT ![d] = "filled"]
    BY <1>2 DEF Temp!Fill, Temp!Enter
  <2>4. ~InNewTemp(d)'
    BY <1>1, <2>3 DEF TransfersInv, TransferTypes, InNewTemp
  <2>5. \A e \in Download : e # d => phase'[e] = phase[e] /\ result'[e] = result[e]
    BY <1>1, <1>2, <2>3 DEF TransfersInv, TransferTypes, Transfer
  <2> QED BY <2>1, <2>2, <2>4, <2>5
          DEF TransfersInv, SlotWhileInNewTemp, InNewTemp, Works, Task
<1>3. CASE /\ phase[d] = "holding" /\ result' = [result EXCEPT ![d] = "failed"]
           /\ UNCHANGED temp
  <2>1. ~InNewTemp(d)
    BY <1>3 DEF InNewTemp
  <2> QED BY <1>1, <1>3, <2>1, ResultInv
<1> QED BY <1>2, <1>3 DEF Get

LEMMA PutInv ==
  ASSUME TransfersInv, NEW u \in Upload, Put(u)
  PROVE  TransfersInv'
<1>1. PICK r \in {"done", "failed"} : result' = [result EXCEPT ![u] = r]
  BY DEF Put
<1>2. u \in Transfer /\ u \notin Download /\ UNCHANGED <<temp, pool, saving, try>>
  BY TransfersAssumption DEF Put, Transfer
<1> QED BY <1>1, <1>2, ResultInv

LEMMA TryAgainInv ==
  ASSUME TransfersInv, NEW t \in Transfer, TryAgain(t)
  PROVE  TransfersInv'
<1> DEFINE q == IF t \in Upload THEN 0 ELSE 1
<1>1. /\ result[t] = "failed" /\ try[t] < Attempts
      /\ Pool!Submit(Task(t), <<t, try[t] + 1>>, q)
      /\ try' = [try EXCEPT ![t] = @ + 1] /\ result' = [result EXCEPT ![t] = "none"]
      /\ UNCHANGED <<temp, saving>>
  BY DEF TryAgain
<1>2. try[t] + 1 \in 1..Attempts /\ <<t, try[t] + 1>> \in Attempt /\ q \in 0..2
  BY <1>1, TransfersAssumption DEF TransfersInv, TransferTypes, Attempt
<1>3. pending' \in [0..2 -> Seq(Attempt)] /\ UNCHANGED <<active, finished>>
  BY <1>1, <1>2, SubmitTypes DEF TransfersInv
<1>4. TransferTypes'
  BY <1>1, <1>2, <1>3 DEF TransfersInv, TransferTypes, temp
<1>5. t \in Download => ~InNewTemp(t)
  BY <1>1 DEF TransfersInv, SlotWhileInNewTemp
<1>6. \A d \in Download : d # t => try'[d] = try[d] /\ result'[d] = result[d]
  BY <1>1 DEF TransfersInv, TransferTypes, Transfer
<1> QED BY <1>1, <1>3, <1>4, <1>5, <1>6
        DEF TransfersInv, SlotWhileInNewTemp, InNewTemp, Works, Task, temp

LEMMA AnswerInv ==
  ASSUME TransfersInv, NEW t \in Transfer, Answer(t)
  PROVE  TransfersInv'
<1>1. /\ result[t] # "none" /\ Pool!Return(Task(t))
      /\ UNCHANGED <<temp, saving, try, result>>
  BY DEF Answer
<1>2. TransferTypes'
  BY <1>1, ReturnTypes DEF TransfersInv, TransferTypes, temp
<1>3. \A d \in Download : d # t => (Works(d) => Works(d)')
  BY <1>1, ReturnTypes DEF TransfersInv, Works, Task
<1>4. t \in Download => ~InNewTemp(t)
  BY <1>1 DEF TransfersInv, SlotWhileInNewTemp
<1> QED BY <1>1, <1>2, <1>3, <1>4
        DEF TransfersInv, SlotWhileInNewTemp, InNewTemp, temp

LEMMA ReturnOldInv ==
  ASSUME TransfersInv, NEW t \in Transfer, ReturnOld(t)
  PROVE  TransfersInv'
<1>1. PICK i \in 1..(try[t] - 1) : Pool!Return(<<t, i>>)
  BY DEF ReturnOld
<1>2. UNCHANGED <<temp, own>>
  BY DEF ReturnOld
<1>3. TransferTypes'
  BY <1>1, <1>2, ReturnTypes DEF TransfersInv, TransferTypes, temp, own
<1>4. i # try[t]
  BY DEF TransfersInv, TransferTypes
<1>5. \A d \in Download : Works(d) => Works(d)'
  BY <1>1, <1>2, <1>4, ReturnTypes DEF TransfersInv, Works, Task, own
<1> QED BY <1>2, <1>3, <1>5
        DEF TransfersInv, SlotWhileInNewTemp, InNewTemp, temp, own

LEMMA PoolStepInv ==
  ASSUME TransfersInv, StartTask \/ JoinOnDemand
  PROVE  TransfersInv'
<1>1. UNCHANGED <<temp, own>>
  BY DEF StartTask, JoinOnDemand
<1>2. CASE StartTask
  <2>1. TransferTypes'
    BY <1>1, <1>2, StartTypes DEF TransfersInv, TransferTypes, temp, own
  <2>2. \A d \in Download : Works(d) => Works(d)'
    BY <1>1, <1>2, StartTypes DEF TransfersInv, Works, Task, own
  <2> QED BY <1>1, <2>1, <2>2
          DEF TransfersInv, SlotWhileInNewTemp, InNewTemp, temp, own
<1>3. CASE JoinOnDemand
  <2>1. PICK k \in finished : Pool!FreeSlot(k)
    BY <1>3 DEF JoinOnDemand
  <2>2. finished' = finished \ {k} /\ UNCHANGED <<pending, active>>
    BY <2>1 DEF Pool!FreeSlot
  <2>3. IsFiniteSet(finished')
    BY <2>2, FS_RemoveElement DEF TransfersInv, TransferTypes
  <2>4. TransferTypes'
    BY <1>1, <2>2, <2>3 DEF TransfersInv, TransferTypes, temp, own
  <2> QED BY <1>1, <2>2, <2>4
          DEF TransfersInv, SlotWhileInNewTemp, InNewTemp, Works, Task, temp, own
<1> QED BY <1>2, <1>3

LEMMA NextTransfersInv == TransfersInv /\ [TransfersNext]_transfersVars => TransfersInv'
<1> SUFFICES ASSUME TransfersInv, [TransfersNext]_transfersVars PROVE TransfersInv'
  OBVIOUS
<1>1. CASE UNCHANGED transfersVars
  BY <1>1 DEF transfersVars, temp, pool, own, TransfersInv, TransferTypes,
              SlotWhileInNewTemp, InNewTemp, Works, Task
<1>2. CASE \E u \in Upload : ReadSaveFile(u)
  BY <1>2, ReadSaveFileInv
<1>3. CASE \E d \in Download : ReadGetFile(d)
  BY <1>3, ReadGetFileInv
<1>4. ASSUME NEW t \in Transfer, Step(t) PROVE TransfersInv'
  <2>1. CASE saving = t /\ ReceiveChunk
    BY <2>1, TempStepInv DEF ReceiveChunk, own
  <2>2. CASE QueueSave
    BY <2>2, QueueSaveInv
  <2>3. CASE t \in Download /\ GetNewTemp(t)
    BY <2>3, GetNewTempInv
  <2>4. CASE t \in Download /\ Get(t)
    BY <2>4, GetInv
  <2>5. CASE t \in Upload /\ Put(t)
    BY <2>5, PutInv
  <2>6. CASE Reserve(t)
    BY <2>6, TempStepInv DEF Reserve, own
  <2>7. CASE DeleteTemp(t)
    BY <2>7, TempStepInv DEF DeleteTemp
  <2>8. CASE TryAgain(t)
    BY <2>8, TryAgainInv
  <2>9. CASE Answer(t)
    BY <2>9, AnswerInv
  <2> QED BY <1>4, <2>1, <2>2, <2>3, <2>4, <2>5, <2>6, <2>7, <2>8, <2>9 DEF Step
<1>5. ASSUME NEW t \in Transfer, ReturnOld(t) PROVE TransfersInv'
  BY <1>5, ReturnOldInv
<1>6. ASSUME NEW t \in Transfer, SpuriousWakeup(t) PROVE TransfersInv'
  BY <1>6, TempStepInv DEF SpuriousWakeup, own
<1>7. CASE StartTask \/ JoinOnDemand
  BY <1>7, PoolStepInv
<1> QED BY <1>1, <1>2, <1>3, <1>4, <1>5, <1>6, <1>7 DEF TransfersNext

LEMMA TransfersInvariance == TransfersSpec => []TransfersInv
BY InitTransfersInv, NextTransfersInv, PTL DEF TransfersSpec

-----------------------------------------------------------------------------
(* The deadlock *)

NothingFits == \A k \in active : ~Temp!Fits(fileSize[k[1]])

\* Whoever works in a jam is a download in newTemp that has no room.
LEMMA JamWorks ==
  ASSUME TransfersInv, Jam, NEW t \in Transfer, Works(t)
  PROVE  t \in Download /\ InNewTemp(t) /\ result[t] = "none"
<1>1. t \in Download /\ WaitsInNewTemp(t)
  BY DEF Jam, Works, Task
<1> QED BY <1>1 DEF WaitsInNewTemp, InNewTemp, TransfersInv, SlotWhileInNewTemp

\* A step that leaves the pool and the responses alone and keeps whoever works
\* in newTemp and every other download out of it keeps the jam.
LEMMA JamKept ==
  ASSUME TransfersInv, Jam,
         UNCHANGED <<active, responses>>,
         \A k \in active : Task(k[1])' = Task(k[1]) /\ WaitsInNewTemp(k[1])',
         \A t \in Transfer :
           phase'[t] \notin {"idle", "waiting", "check"} => t \in Upload
  PROVE  Jam'
<1>1. \A k \in active : k[1] \in Download /\ k = Task(k[1])'
  BY DEF Jam
<1>2. Cardinality(active') = Limit
  BY DEF Jam
<1> QED BY <1>1, <1>2 DEF Jam

LEMMA JamStays ==
  ASSUME TransfersInv, Jam, NothingFits, [TransfersNext]_transfersVars
  PROVE  Jam'
<1>a. /\ responses = <<>> /\ Cardinality(active) = Limit
      /\ \A k \in active : k[1] \in Download /\ k = Task(k[1]) /\ WaitsInNewTemp(k[1])
      /\ \A t \in Transfer : phase[t] \notin {"idle", "waiting", "check"} => t \in Upload
  BY DEF Jam
<1>b. \A k \in active : k[1] \in Transfer /\ k[1] \notin Upload
  BY <1>a, TransfersAssumption DEF Transfer
<1>c. \A t \in Transfer : Works(t) => t \in Download /\ InNewTemp(t) /\ result[t] = "none"
  BY JamWorks
<1>d. \A d \in Download : InNewTemp(d) => Works(d)
  BY DEF TransfersInv, SlotWhileInNewTemp
<1>1. CASE UNCHANGED transfersVars
  BY <1>1, <1>a DEF transfersVars, temp, pool, own, Jam, WaitsInNewTemp, Task, Temp!Fits
<1>2. ASSUME NEW u \in Upload, ReadSaveFile(u) PROVE Jam'
  <2>1. /\ UNCHANGED <<active, try, responses>> /\ Temp!NewTemp(u, ChunkSize[u])
        /\ u \in Transfer /\ ChunkSize[u] \in Nat
    BY <1>2, TransfersAssumption DEF ReadSaveFile, pool, Transfer
  <2>2. /\ phase' = [phase EXCEPT ![u] = "check"] /\ UNCHANGED curAllocate
        /\ fileSize' = [fileSize EXCEPT ![u] = ChunkSize[u]]
    BY <2>1, EntersNewTemp DEF TransfersInv
  <2>3. \A k \in active : phase'[k[1]] = phase[k[1]] /\ fileSize'[k[1]] = fileSize[k[1]]
    BY <1>b, <2>2 DEF TransfersInv, TransferTypes
  <2>4. \A k \in active : Task(k[1])' = Task(k[1]) /\ WaitsInNewTemp(k[1])'
    BY <1>a, <2>1, <2>2, <2>3 DEF Task, WaitsInNewTemp, Temp!Fits
  <2>5. \A t \in Transfer : phase'[t] \notin {"idle", "waiting", "check"} => t \in Upload
    BY <1>a, <2>2 DEF TransfersInv, TransferTypes
  <2> QED BY <2>1, <2>4, <2>5, JamKept
<1>3. ASSUME NEW d \in Download, ReadGetFile(d) PROVE Jam'
  <2>1. d \in Transfer /\ <<d, 1>> \in Attempt
    BY TransfersAssumption DEF Transfer, Attempt
  <2>2. /\ try[d] = 0 /\ UNCHANGED <<active, responses, temp>>
        /\ try' = [try EXCEPT ![d] = 1]
    BY <1>3, <2>1, SubmitTypes DEF ReadGetFile, TransfersInv
  <2>3. \A k \in active : k[1] # d
    BY <1>a, <2>2 DEF Task, TransfersInv, TransferTypes, Attempt
  <2>4. \A k \in active : Task(k[1])' = Task(k[1])
    BY <1>b, <2>2, <2>3 DEF Task, TransfersInv, TransferTypes
  <2>5. \A k \in active : WaitsInNewTemp(k[1])'
    BY <1>a, <2>2 DEF WaitsInNewTemp, Temp!Fits, temp
  <2>6. \A t \in Transfer : phase'[t] \notin {"idle", "waiting", "check"} => t \in Upload
    BY <1>a, <2>2 DEF temp
  <2> QED BY <2>2, <2>4, <2>5, <2>6, JamKept
<1>4. ASSUME NEW u \in Upload, saving = u, QueueSave PROVE Jam'
  <2>1. u \in Transfer /\ <<u, 1>> \in Attempt
    BY TransfersAssumption DEF Transfer, Attempt
  <2>2. /\ UNCHANGED <<active, responses, temp>> /\ try' = [try EXCEPT ![u] = 1]
    BY <1>4, <2>1, SubmitTypes DEF QueueSave, TransfersInv
  <2>4. \A k \in active : Task(k[1])' = Task(k[1])
    BY <1>b, <2>2 DEF Task, TransfersInv, TransferTypes
  <2>5. \A k \in active : WaitsInNewTemp(k[1])'
    BY <1>a, <2>2 DEF WaitsInNewTemp, Temp!Fits, temp
  <2>6. \A t \in Transfer : phase'[t] \notin {"idle", "waiting", "check"} => t \in Upload
    BY <1>a, <2>2 DEF temp
  <2> QED BY <2>2, <2>4, <2>5, <2>6, JamKept
\* Only uploads move on; a download that wakes up finds no room.
<1>5. ASSUME NEW t \in Transfer, UNCHANGED <<active, try, responses>>,
             \/ Temp!Admit(t) \/ Temp!Wait(t) \/ Temp!Take(t)
             \/ Temp!SpuriousWakeup(t) \/ Temp!Fill(t)
      PROVE  Jam'
  <2>a. \A k \in active : Task(k[1])' = Task(k[1])
    BY <1>5 DEF Task
  <2>1. CASE t \in Download
    <3>1. phase[t] \in {"idle", "check", "waiting"}
      BY <1>a, <2>1, TransfersAssumption
    <3>2. Temp!Admit(t) \/ Temp!Wait(t) \/ Temp!SpuriousWakeup(t)
      BY <1>5, <3>1 DEF Temp!Take, Temp!Fill
    <3>3. InNewTemp(t)
      BY <3>2 DEF InNewTemp, Temp!Admit, Temp!Wait, Temp!SpuriousWakeup
    <3>4. Task(t) \in active /\ Task(t)[1] = t
      BY <1>d, <2>1, <3>3 DEF Works, Task
    <3>5. ~Temp!Fits(fileSize[t])
      BY <3>4 DEF NothingFits
    <3>6. PICK p \in {"check", "waiting"} :
            phase' = [phase EXCEPT ![t] = p] /\ UNCHANGED <<curAllocate, fileSize>>
      BY <3>2, <3>5 DEF Temp!Admit, Temp!Wait, Temp!SpuriousWakeup, Temp!Enter
    <3>7. \A k \in active : phase'[k[1]] \in {"check", "waiting"}
      BY <1>a, <1>b, <3>6 DEF WaitsInNewTemp, TransfersInv, TransferTypes
    <3>8. \A k \in active : WaitsInNewTemp(k[1])'
      BY <3>6, <3>7 DEF WaitsInNewTemp, NothingFits, Temp!Fits
    <3>9. \A u \in Transfer : phase'[u] \notin {"idle", "waiting", "check"} => u \in Upload
      BY <1>a, <3>6 DEF TransfersInv, TransferTypes
    <3> QED BY <1>5, <2>a, <3>8, <3>9, JamKept
  <2>2. CASE t \in Upload
    <3>1. fileSize[t] \in Nat /\ curAllocate \in Int
      BY DEF TransfersInv, TransferTypes
    <3>2. /\ \E p : phase' = [phase EXCEPT ![t] = p]
          /\ UNCHANGED fileSize
          /\ UNCHANGED curAllocate \/ curAllocate' = curAllocate + fileSize[t]
      BY <1>5 DEF Temp!Admit, Temp!Wait, Temp!Take, Temp!SpuriousWakeup, Temp!Fill, Temp!Enter
    <3>3. \A u \in Transfer : u # t => phase'[u] = phase[u]
      BY <3>2 DEF TransfersInv, TransferTypes
    <3>4. \A n \in Nat : Temp!Fits(n)' => Temp!Fits(n)
      BY <3>1, <3>2, TransfersAssumption DEF Temp!Fits
    <3>5. \A k \in active : fileSize[k[1]] \in Nat
      BY <1>b DEF TransfersInv, TransferTypes
    <3>6. \A k \in active : WaitsInNewTemp(k[1])'
      <4> SUFFICES ASSUME NEW k \in active PROVE WaitsInNewTemp(k[1])'
        OBVIOUS
      <4>1. phase'[k[1]] = phase[k[1]] /\ fileSize'[k[1]] = fileSize[k[1]]
        BY <1>b, <2>2, <3>2, <3>3
      <4>2. ~Temp!Fits(fileSize[k[1]])
        BY DEF NothingFits
      <4>3. ~Temp!Fits(fileSize[k[1]])'
        BY <3>2, <3>4, <3>5, <4>2
      <4> QED BY <1>a, <4>1, <4>3 DEF WaitsInNewTemp
    <3>7. \A u \in Transfer : phase'[u] \notin {"idle", "waiting", "check"} => u \in Upload
      BY <1>a, <2>2, <3>3
    <3> QED BY <1>5, <2>a, <3>6, <3>7, JamKept
  <2> QED BY <2>1, <2>2 DEF Transfer
<1>6. ASSUME NEW t \in Transfer, Step(t) PROVE Jam'
  <2>1. CASE saving = t /\ ReceiveChunk
    BY <1>5, <2>1 DEF ReceiveChunk, pool, own
  <2>2. CASE saving = t /\ QueueSave
    <3>1. t \in Upload
      BY <2>2, TransfersAssumption DEF QueueSave, TransfersInv, TransferTypes
    <3> QED BY <1>4, <2>2, <3>1
  <2>3. ~(t \in Download /\ (GetNewTemp(t) \/ Get(t)))
    BY <1>c DEF GetNewTemp, Get, InNewTemp, Temp!NewTemp, Temp!Fill
  <2>4. ~(t \in Upload /\ Put(t))
    BY <1>c, TransfersAssumption DEF Put
  <2>5. CASE Reserve(t)
    BY <1>5, <2>5 DEF Reserve, pool, own
  <2>6. ~DeleteTemp(t) /\ ~TryAgain(t) /\ ~Answer(t)
    BY <1>a, <1>c DEF DeleteTemp, Deletes, TryAgain, Answer
  <2> QED BY <1>6, <2>1, <2>2, <2>3, <2>4, <2>5, <2>6 DEF Step
<1>7. \A t \in Transfer : ~ReturnOld(t)
  <2> SUFFICES ASSUME NEW t \in Transfer, NEW i \in 1..(try[t] - 1), <<t, i>> \in active
               PROVE  FALSE
    BY DEF ReturnOld, Pool!Return
  <2>1. <<t, i>> = <<t, try[t]>>
    BY <1>a DEF Task
  <2>2. try[t] \in Int
    BY DEF TransfersInv, TransferTypes
  <2> QED BY <2>1, <2>2
<1>8. ASSUME NEW t \in Transfer, SpuriousWakeup(t) PROVE Jam'
  BY <1>5, <1>8 DEF SpuriousWakeup, pool, own
<1>9. ~StartTask
  BY <1>a, NoStartWhenFull DEF TransfersInv
<1>10. CASE JoinOnDemand
  <2>1. UNCHANGED <<active, temp, own>>
    BY <1>10 DEF JoinOnDemand, Pool!FreeSlot
  <2> QED BY <1>a, <2>1 DEF Jam, WaitsInNewTemp, Task, Temp!Fits, temp, own
<1> QED BY <1>1, <1>2, <1>3, <1>6, <1>7, <1>8, <1>9, <1>10 DEF TransfersNext

\* Nothing the process does resolves the deadlock of downloads that hold all
\* slots and uploads that hold all bytes, unless some waiting download fits.
THEOREM JamLastsHolds == TransfersSpec => JamLasts
<1>1. TransfersInv /\ [TransfersNext]_transfersVars
        => [Jam /\ NothingFits => Jam']_transfersVars
  BY JamStays
<1>2. [Jam /\ NothingFits => Jam']_transfersVars
        => [Jam /\ (\A k \in active : ~Temp!Fits(fileSize[k[1]])) => Jam']_transfersVars
  BY DEF NothingFits
<1> QED BY <1>1, <1>2, TransfersInvariance, PTL DEF JamLasts, TransfersSpec

-----------------------------------------------------------------------------
(* The components *)

\* Every step of a transfer is a step of the temporary files or none.
LEMMA TempStep ==
  ASSUME TransfersInv, [TransfersNext]_transfersVars
  PROVE  [Temp!Next]_(Temp!vars)
<1> DEFINE Sizes == {ChunkSize[t] : t \in Transfer}
<1> USE DEF Temp!Next, Temp!Run
<1>1. CASE UNCHANGED temp
  BY <1>1 DEF temp, Temp!vars
<1>2. ASSUME NEW t \in Transfer, Temp!NewTemp(t, ChunkSize[t]) PROVE Temp!Next
  <2>1. ChunkSize[t] \in Sizes
    OBVIOUS
  <2> QED BY <1>2, <2>1
<1>3. ASSUME NEW u \in Upload, ReadSaveFile(u) PROVE Temp!Next
  BY <1>2, <1>3 DEF ReadSaveFile, Transfer
<1>4. ASSUME NEW t \in Transfer, Step(t) PROVE Temp!Next \/ UNCHANGED temp
  <2>1. CASE t \in Download /\ GetNewTemp(t)
    BY <1>2, <2>1 DEF GetNewTemp
  <2>2. CASE saving = t /\ ReceiveChunk
    BY <2>2 DEF ReceiveChunk
  <2>3. CASE Reserve(t)
    BY <2>3 DEF Reserve
  <2>4. CASE DeleteTemp(t)
    BY <2>4 DEF DeleteTemp
  <2>5. CASE t \in Download /\ Get(t)
    BY <2>5 DEF Get
  <2> QED BY <1>4, <2>1, <2>2, <2>3, <2>4, <2>5 DEF Step, QueueSave, Put, TryAgain, Answer
<1>5. ASSUME NEW t \in Transfer, SpuriousWakeup(t) PROVE Temp!Next
  BY <1>5 DEF SpuriousWakeup
<1> QED BY <1>1, <1>3, <1>4, <1>5
        DEF TransfersNext, transfersVars, ReadGetFile, ReturnOld, StartTask, JoinOnDemand

\* Every step of a transfer is a step of the pool or none: tasks are handed in by
\* the main thread or by an active task, and once each.
LEMMA PoolStep ==
  ASSUME TransfersInv, [TransfersNext]_transfersVars
  PROVE  [Pool!Next]_(Pool!vars)
<1>0. active \subseteq Attempt /\ finished \subseteq Attempt
  BY DEF TransfersInv, TransferTypes
<1>1. CASE UNCHANGED pool
  BY <1>1 DEF pool, Pool!vars
<1>2. ASSUME NEW c \in Attempt \cup {Main}, NEW k \in Attempt, NEW q \in 0..2,
             Pool!Submit(c, k, q)
      PROVE  Pool!Next
  BY <1>2 DEF Pool!Next, Attempt
<1>3. ASSUME NEW k, Pool!Return(k) \/ Pool!FreeSlot(k) PROVE Pool!Next
  <2>1. k \in Attempt
    BY <1>0, <1>3 DEF Pool!Return, Pool!FreeSlot
  <2> QED BY <1>3, <2>1 DEF Pool!Next, Attempt
<1>4. ASSUME NEW d \in Download, ReadGetFile(d) PROVE Pool!Next
  <2>1. <<d, 1>> \in Attempt
    BY TransfersAssumption DEF Attempt, Transfer
  <2> QED BY <1>2, <1>4, <2>1 DEF ReadGetFile
<1>5. ASSUME NEW t \in Transfer, Step(t) PROVE Pool!Next \/ UNCHANGED pool
  <2>1. CASE saving = t /\ QueueSave
    <3>1. <<saving, 1>> \in Attempt
      BY <2>1, TransfersAssumption DEF Attempt
    <3> QED BY <1>2, <2>1, <3>1 DEF QueueSave
  <2>2. CASE TryAgain(t)
    <3>1. Task(t) \in Attempt
      BY <1>0, <2>2 DEF TryAgain, Works
    <3>2. <<t, try[t] + 1>> \in Attempt
      BY <2>2, TransfersAssumption DEF TryAgain, TransfersInv, TransferTypes, Attempt
    <3> QED BY <1>2, <2>2, <3>1, <3>2 DEF TryAgain
  <2>3. CASE Answer(t)
    BY <1>3, <2>3 DEF Answer
  <2> QED BY <1>5, <2>1, <2>2, <2>3 DEF Step, ReceiveChunk, GetNewTemp, Get, Put, Reserve, DeleteTemp
<1>6. ASSUME NEW t \in Transfer, ReturnOld(t) PROVE Pool!Next
  BY <1>3, <1>6 DEF ReturnOld
<1>7. CASE StartTask
  BY <1>7 DEF StartTask, Pool!Next
<1>8. CASE JoinOnDemand
  BY <1>3, <1>8 DEF JoinOnDemand
<1> QED BY <1>1, <1>4, <1>5, <1>6, <1>7, <1>8
        DEF TransfersNext, transfersVars, ReadSaveFile, SpuriousWakeup

\* Client.cpp uses its temporary files and its workers as these allow: a transfer is
\* an execution of TempFiles, so that what is proved of it holds of transfers, and one
\* of what the pool promises, submissions by callbacks and retries included.
THEOREM TransfersUseComponents ==
  TransfersSpec => Temp!Spec /\ Pool!Init /\ [][Pool!Next]_(Pool!vars)
<1>1. TransfersInit => Temp!Init /\ Pool!Init
  BY DEF TransfersInit
<1>2. TransfersInv /\ [TransfersNext]_transfersVars => [Temp!Next]_(Temp!vars)
  BY TempStep
<1>3. TransfersInv /\ [TransfersNext]_transfersVars => [Pool!Next]_(Pool!vars)
  BY PoolStep
<1> QED BY <1>1, <1>2, <1>3, TransfersInvariance, PTL DEF TransfersSpec, Temp!Spec
=============================================================================
