------------------------------- MODULE Frames --------------------------------
(***************************************************************************)
(* How the main thread of a session reads the client's frames:             *)
(* WebSocket::recvMsg and hasNext, the top of Client::commandInterpreter   *)
(* and the part of Client::readSaveFile that writes the chunk to its       *)
(* temporary file.                                                         *)
(*                                                                         *)
(* The socket is a stream: recv returns any number of the bytes it was     *)
(* asked for.  A byte of a message is its position in the message when it  *)
(* is unmasked with its own byte of the key, and Garbled otherwise.  Once  *)
(* a read has not ended where recvMsg thinks it has, the session is astray *)
(* and the stream is no more than a number of bytes.                       *)
(***************************************************************************)
EXTENDS Integers, Sequences, SequencesExt

CONSTANTS
  Message,     \* what the client may send: [save : BOOLEAN, lens : lengths of its
               \* frames, chunk : the chunkSize it declares, whatever it sends]
  SaveHead,    \* length of the part of a save request before the chunk
  Header,      \* length of a frame's header with its masking key: 6, 8 or 14
  Control,     \* payload length of a ping, pong or close frame
  MaxPackage,  \* MAX_PACKAGE_SIZE
  Word,        \* unsigned long long is modulo Word
  Claimed,     \* payload lengths that bytes which are no header may claim
  MaxMessages  \* bound: messages the client sends

Total(s) == SumFunction(s)

\* A message is shorter than the counters can count.
ASSUME FramesAssumption ==
  /\ \A m \in Message :
       /\ m.save \in BOOLEAN /\ m.lens \in Seq(Nat) /\ m.lens # <<>>
       /\ Total(m.lens) < Word /\ m.chunk \in 0..(Word - 1)
  /\ SaveHead \in Nat \ {0} /\ Header \in Nat \ {0} /\ Control \in Nat
  /\ MaxPackage \in Nat /\ MaxPackage > Header
  /\ Word \in Nat \ {0} /\ Claimed \subseteq 0..(Word - 1) /\ MaxMessages \in Nat

Garbled == 0
Alien == -1       \* the byte 0x88 that recvMsg returns in place of a payload
Unread == -1      \* nothing of a frame has been read
Unknown == -1     \* the head of a save request has not been read whole

VARIABLES
  stream,       \* frames that were sent and not read to their end
  off,          \* how much of the first one's payload has been read, or Unread
  raw,          \* the number of bytes to read once the session is astray
  astray,       \* "no", or the read that went wrong: a frame's "first", a "later" one
  sent,         \* number of messages sent
  open,         \* the client has not left
  payloadLen, isFin, maskKey,  \* maskKey: by how many bytes it has been rotated
  mode,         \* what the main thread is doing
  file,         \* what readSaveFile has written of this chunk, or of the last one
  chunkSize, maxSaveSize,
  data,         \* history: length of the chunk the client sends, or Unknown
  good,         \* history: how much of it had come before the session went astray
  cut           \* history: why the last chunk was taken to be complete

socket == <<stream, off, raw, astray>>
client == <<sent, open>>
frame == <<payloadLen, isFin, maskKey>>
save == <<file, chunkSize, maxSaveSize, data, good, cut>>
vars == <<socket, client, frame, mode, save>>

\* The frames of message m; `from` is the length of those before.
FramesOf(m) ==
  [i \in DOMAIN m.lens |->
    [save |-> m.save, from |-> Total(SubSeq(m.lens, 1, i - 1)), len |-> m.lens[i],
     fin |-> i = Len(m.lens), ctl |-> FALSE,
     chunk |-> m.chunk, data |-> Total(m.lens) - SaveHead]]

ControlFrame ==
  [save |-> FALSE, from |-> 0, len |-> Control, fin |-> TRUE, ctl |-> TRUE,
   chunk |-> 0, data |-> 0]

Init ==
  /\ stream = <<>> /\ off = Unread /\ raw = 0 /\ astray = "no"
  /\ sent = 0 /\ open = TRUE
  /\ payloadLen = 0 /\ isFin = FALSE /\ maskKey = 0
  /\ mode = "command"
  /\ file = <<>> /\ chunkSize = 0 /\ maxSaveSize = 0
  /\ data = Unknown /\ good = 0 /\ cut = "no"

Expects == mode \in {"command", "save"}

Bytes(s) == Total([i \in DOMAIN s |-> Header + s[i].len])

\* The bytes that the client has sent and recv has not returned.
Arrived ==
  IF astray # "no" THEN raw
  ELSE Bytes(stream) - (IF off = Unread THEN 0 ELSE Header + off)

-----------------------------------------------------------------------------
(* The client: it may put a control frame anywhere, and may leave at any time. *)

Send(m) ==
  /\ Expects /\ open /\ sent < MaxMessages
  /\ \E s \in {FramesOf(m)} \cup
              {InsertAt(FramesOf(m), i, ControlFrame) : i \in DOMAIN m.lens} :
       \/ astray = "no" /\ stream' = stream \o s /\ UNCHANGED raw
       \/ astray # "no" /\ raw' = raw + Bytes(s) /\ UNCHANGED stream
  /\ sent' = sent + 1
  /\ UNCHANGED <<off, astray, open, frame, mode, save>>

Leave ==
  /\ Expects /\ open
  /\ open' = FALSE
  /\ UNCHANGED <<socket, sent, frame, mode, save>>

-----------------------------------------------------------------------------
(* What the callers of recvMsg do with n bytes of the buffer *)

\* Mutant: a frame is taken for the whole message.
HasNextInFrame(n) == n # 0 /\ payloadLen' # 0

\* n is what recvMsg has returned.
HasNext(n) == n # 0 /\ (payloadLen' # 0 \/ ~isFin')

\* readSaveFile goes on reading (line 538), or hands on the file as it is.
LoopOrEnd(n, why) ==
  \/ HasNext(n) /\ mode' = "save" /\ UNCHANGED cut
  \/ ~HasNext(n) /\ mode' = "command" /\ cut' = why

\* Lines 530-536.  The first write is not limited by chunkSize, and what is left
\* of it may fall below 0.
StartSave(f, piece, fresh, why) ==
  LET n == Len(piece) - SaveHead IN
  /\ file' = SubSeq(piece, SaveHead + 1, Len(piece))
  /\ chunkSize' = f.chunk /\ maxSaveSize' = (f.chunk - n) % Word
  /\ data' = f.data /\ good' = fresh - SaveHead
  /\ LoopOrEnd(Len(piece), why)

\* The same with a head that is not, or not wholly, in the buffer: which file is
\* saved, how long it should be and what is written first is left open.
StartHeadless(n) ==
  /\ file' = <<>> /\ chunkSize' = 0 /\ maxSaveSize' = 0
  /\ data' = Unknown /\ good' = 0
  /\ LoopOrEnd(n, "head")

\* Lines 539-541.
WritePiece(piece, fresh, why) ==
  LET n == Len(piece)
      written == IF maxSaveSize > n THEN n ELSE maxSaveSize
  IN  /\ IF data = Unknown THEN UNCHANGED <<file, good>>
         ELSE /\ file' = file \o SubSeq(piece, 1, written)
              /\ good' = good + fresh
      /\ maxSaveSize' = (maxSaveSize - n) % Word
      /\ UNCHANGED <<chunkSize, data>>
      /\ LoopOrEnd(n, why)

\* Bytes that do not begin a request may look like any.
AnyRequest(n) ==
  \/ mode' \in {"command", "ended"} /\ UNCHANGED save
  \/ StartHeadless(n)

\* commandInterpreter takes what recvMsg returns for the start of a request.
Interpret(f, from, piece, fresh, why) ==
  LET n == Len(piece) IN
  \/ n = 0 /\ mode' = "command" /\ UNCHANGED save
  \/ from = 0 /\ ~f.save /\ fresh > 0 /\ mode' = "command" /\ UNCHANGED save
  \/ from = 0 /\ f.save /\ fresh >= SaveHead /\ StartSave(f, piece, fresh, why)
  \/ from = 0 /\ f.save /\ fresh \in 1..(SaveHead - 1) /\ StartHeadless(n)
  \/ n > 0 /\ (from > 0 \/ fresh = 0) /\ AnyRequest(n)

\* The first `fresh` bytes of piece are those of f from position `from` on.
Deliver(f, from, piece, fresh, why) ==
  \/ mode = "command" /\ Interpret(f, from, piece, fresh, why)
  \/ mode = "save" /\ WritePiece(piece, fresh, why)

\* Lines 89-104: recvMsg returns a close in place of what it has read.
ReturnClose(why) ==
  /\ isFin' = TRUE /\ payloadLen' = 0
  /\ \/ mode = "command" /\ mode' = "ended" /\ UNCHANGED save
     \/ mode = "save" /\ WritePiece(<<Alien>>, 0, why)

-----------------------------------------------------------------------------
(* recvMsg, in step with the frames *)

\* Mutant: recv is always asked for a whole package.
AskedForAll == MaxPackage

\* What recv is asked for (line 81).
AskedFor ==
  IF payloadLen = 0 \/ MaxPackage <= payloadLen THEN MaxPackage ELSE payloadLen

\* n bytes of the payload of f that follow the first `done`, decoded with the key
\* as it has been rotated r times (lines 152-164).
Decoded(f, done, n, r) ==
  [i \in 1..n |-> IF (r - done) % 4 = 0 THEN f.from + done + i ELSE Garbled]

Noise(n) == [i \in 1..n |-> Garbled]

\* Mutant: the rotation is not reduced.
RotatedPast(r, pl, n) == IF pl # 0 THEN r + n ELSE r

\* Lines 166-169; pl is payloadLen before the bytes that were read are subtracted.
Rotated(r, pl, n) == IF pl # 0 THEN (r + n) % 8 ELSE r

Advance(f, done) ==
  IF done = f.len THEN stream' = Tail(stream) /\ off' = Unread
                  ELSE stream' = stream /\ off' = done

Reason(n) == IF n = 0 THEN "header" ELSE "no"

\* Lines 83-88: more of a frame's payload.
Continue(k) ==
  LET f == Head(stream) IN
  /\ payloadLen # 0
  /\ k <= f.len - off
  /\ payloadLen' = (payloadLen - k) % Word
  /\ maskKey' = Rotated(maskKey, payloadLen, k)
  /\ UNCHANGED <<isFin, raw, astray>>
  /\ Advance(f, off + k)
  /\ Deliver(f, f.from + off, Decoded(f, off, k, maskKey), k, Reason(k))

\* Lines 106-124: the header and some of the payload, perhaps nothing.
Begin(k) ==
  LET f == Head(stream)
      n == k - Header
  IN
  /\ payloadLen = 0 /\ ~f.ctl
  /\ n \in 0..f.len
  /\ isFin' = f.fin
  /\ payloadLen' = f.len - n
  /\ maskKey' = Rotated(0, f.len, n)
  /\ UNCHANGED <<raw, astray>>
  /\ Advance(f, n)
  /\ Deliver(f, f.from, Decoded(f, 0, n, 0), n, Reason(n))

\* The bytes behind the k that recv has returned are no longer told apart.
Lost(k, which) ==
  /\ raw' = Arrived - k /\ astray' = which
  /\ stream' = <<>> /\ off' = Unread
  /\ maskKey' = 0

\* A control frame of any kind is taken for a close; all that was read with it
\* is dropped.
Close(k) ==
  LET f == Head(stream) IN
  /\ payloadLen = 0 /\ f.ctl
  /\ ReturnClose("control")
  /\ IF k = Header + f.len
     THEN stream' = Tail(stream) /\ off' = Unread /\ UNCHANGED <<raw, astray, maskKey>>
     ELSE Lost(k, "first")

\* More than the frame was read: payloadLen falls below 0, and the bytes of the
\* next frame, its header too, are taken for payload of this one.
Overrun(k) ==
  LET f == Head(stream)
      first == payloadLen = 0
      done == IF first THEN 0 ELSE off
      n == IF first THEN k - Header ELSE k
      rest == f.len - done
  IN
  /\ ~f.ctl /\ n > rest
  /\ payloadLen' = ((IF first THEN f.len ELSE payloadLen) - n) % Word
  /\ isFin' = IF first THEN f.fin ELSE isFin
  /\ Lost(k, IF first THEN "first" ELSE "later")
  /\ Deliver(f, f.from + done,
             Decoded(f, done, rest, IF first THEN 0 ELSE maskKey) \o Noise(n - rest),
             rest, "astray")

-----------------------------------------------------------------------------
(* recvMsg, astray *)

\* What the callers do with n bytes that are not the client's, or are out of place.
Strange(n) ==
  \/ mode = "command" /\ AnyRequest(n)
  \/ mode = "save" /\ WritePiece(Noise(n), 0, "astray")

Crash == mode' = "crashed" /\ UNCHANGED <<frame, save>>

\* A header is read from bytes that are none, or of which some are left from the
\* last read.  It may look like a close.  If recv returned less than a header
\* readLen underflows (here modulo Word), and unless the length claimed is 0 the
\* process dies in memcpy (lines 166-169).
Misread(k) ==
  LET n == (k - Header) % Word IN
  /\ payloadLen = 0
  /\ \/ ReturnClose("astray") /\ UNCHANGED maskKey
     \/ k < Header /\ Crash
     \/ /\ \E l \in Claimed : payloadLen' = (l - (k - Header)) % Word
        /\ isFin' \in BOOLEAN /\ UNCHANGED maskKey
        /\ Strange(n)

\* Lines 83-88 with a payloadLen that is not the frame's.
Wander(k) ==
  /\ payloadLen # 0
  /\ payloadLen' = (payloadLen - k) % Word
  /\ UNCHANGED <<isFin, maskKey>>
  /\ Strange(k)

\* recv returns 0: the client has left.
Gone ==
  /\ Expects /\ ~open
  /\ stream' = <<>> /\ off' = Unread /\ raw' = 0
  /\ ReturnClose(IF astray = "no" THEN "gone" ELSE "astray")
  /\ UNCHANGED <<astray, client, maskKey>>

\* recv returns -1, as readLen 2^32 - 1, which is not taken for a close.
RecvFails ==
  /\ Expects /\ ~open
  /\ stream' = <<>> /\ off' = Unread /\ raw' = 0
  /\ astray' = IF astray = "no" THEN "first" ELSE astray
  /\ \/ payloadLen # 0 /\ Crash
     \/ Misread(-1)
  /\ UNCHANGED client

RecvMsg ==
  /\ Expects
  /\ \E k \in 1..(IF Arrived < AskedFor THEN Arrived ELSE AskedFor) :
       \/ /\ astray = "no" /\ stream # <<>>
          /\ \/ Continue(k) \/ Begin(k) \/ Close(k) \/ Overrun(k)
             \/ /\ ~Head(stream).ctl /\ k < Header /\ Misread(k)
                /\ raw' = Arrived - k /\ astray' = "first"
                /\ stream' = <<>> /\ off' = Unread
       \/ /\ astray # "no"
          /\ Wander(k) \/ Misread(k)
          /\ raw' = raw - k /\ UNCHANGED <<stream, off, astray>>
  /\ UNCHANGED client

Next == (\E m \in Message : Send(m)) \/ Leave \/ RecvMsg \/ Gone \/ RecvFails

Spec == Init /\ [][Next]_vars

-----------------------------------------------------------------------------
(* Properties *)

TypeOK ==
  /\ sent \in 0..MaxMessages /\ open \in BOOLEAN
  /\ payloadLen \in 0..(Word - 1) /\ isFin \in BOOLEAN /\ maskKey \in 0..7
  /\ mode \in {"command", "save", "ended", "crashed"}
  /\ chunkSize \in 0..(Word - 1) /\ maxSaveSize \in 0..(Word - 1)
  /\ data \in {Unknown} \cup Nat /\ good \in Nat
  /\ cut \in {"no", "header", "control", "gone", "astray", "head"}
  /\ \A i \in DOMAIN stream : stream[i].len \in Nat
  /\ off = Unread \/ (stream # <<>> /\ off \in 0..Head(stream).len)
  /\ raw \in Nat /\ astray \in {"no", "first", "later"}
  /\ IF astray = "no" THEN raw = 0 ELSE stream = <<>>

\* A read that continues a frame never goes past its end.  Until a first read does,
\* the session agrees with the stream: payloadLen is what is left of the frame, the
\* key is rotated to the next byte, and a save that goes on reads its own message:
\* it neither waits for bytes the client need not send nor swallows the next
\* request (WebSocket.cpp:78 and 81, Client.cpp:538).
InStep ==
  LET f == Head(stream) IN
  /\ astray # "later"
  /\ astray = "no" /\ Expects =>
    /\ payloadLen = IF off = Unread THEN 0 ELSE f.len - off
    /\ payloadLen # 0 => (maskKey - off) % 4 = 0
    /\ mode = "save" /\ stream # <<>> =>
         (f.ctl \/ off # Unread \/ f.from > 0)
    /\ mode = "save" => stream # <<>> \/ ~open

\* Of a chunk that is handed on, whatever size was declared for it and however the
\* stream was cut, the bytes that came before the session went astray are in their
\* places, up to the declared size.  It is handed on when all have come, unless a
\* control frame, a header alone or the end of the connection came before: then the
\* file ends after the bytes that came and perhaps one that the client did not send
\* (Client.cpp:538-545).  Only when more came than was declared, or astray, may other
\* bytes follow.
SavedAsSent ==
  mode \notin {"save", "crashed"} /\ data # Unknown =>
    /\ \A i \in 1..good : i <= chunkSize => i <= Len(file) /\ file[i] = SaveHead + i
    /\ cut = "no" => good = data
    /\ cut # "astray" /\ good <= chunkSize =>
         \/ Len(file) = good
         \/ Len(file) = good + 1 /\ file[good + 1] = Alien /\ cut \in {"control", "gone"}

=============================================================================
