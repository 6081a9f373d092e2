# JBOCD server: TLA+ models, checks and proofs

JBOCD joins cloud drives of several providers to logical drives. Its server
(`src/server`, C++) accepts WebSocket connections and forks a process for each;
the process logs a client in, keeps the tables of files and chunks in MySQL, and
moves chunks between the client and the cloud drives through drivers loaded as
shared libraries. Inside a process there are one main thread, one creator thread
with the workers it starts, and one response thread.

This directory holds TLA+ modules of the parts that are hard to test, the TLC
configurations that check them, and proofs about them for TLAPS.

## The system

| part (source) | state | operations | interacts with |
|---|---|---|---|
| Worker pool (`Thread.cpp`) | three lists of queued nodes, list of ended threads, `curThread`, selection counters | `create`, the creator's loop, `newThreadInit`, `addDelQueue`, `clearThread` | called by the main thread and by workers that queue themselves again |
| Temporary files (`FileManager.cpp`) | reserved bytes, free list of names, name counter | `newTemp`, `open`, `deleteTemp` | uploads reserve on the main thread, downloads on workers; most files are deleted by the response thread |
| Command loop, response queue (`Client.cpp` 221-361) | queue of responses, flag and condition for the end | `commandInterpreter`, `addResponseQueue`, `responseThread` | main thread and workers queue, the response thread sends |
| Drive tables (`Client.cpp` 169-202 and the handlers) | `directory`, `filechunk`, two `alloc_size` columns | the statements of 0x20, 0x21, 0x28, 0x29 | main thread only; several processes share the database |
| Requests and transfers (`Client.cpp` 434-983) | transfers with their retry counters, `client_del_file` records that count transfers | the handlers of 0x20-0x29, `processSaveFile`, `processGetFileChunk`, `processDelChunk` | handlers start transfers, transfers call drivers and queue answers |
| Cloud drive drivers (`lib/CDDriver.h`) | the remote files | `put`, `get`, `del` | external libraries |
| Login and lists (`Client.cpp` 31-167, 366-432) | lists of cloud and logical drives | 0x00, 0x02, 0x03, 0x04 | read once at login, then read-only but for one operation id |
| Server (`Server.cpp`) | `conn_count` | accept loop, `fork`, SIGCHLD handler | parent of the connection processes |
| WebSocket (`WebSocket.cpp`) | rest of the current frame (`payloadLen`, `isFin`), rotated key | `recvMsg`, `sendMsg` | main thread reads, response thread writes |
| Memory manager (`MemManager.cpp`) | free lists by size, allocated bytes | `allocate`, `free`, `flush` | all threads |
| Codecs, sockets, configuration, MySQL connection, scripts | none of their own | | |

What is hard, and what must hold, part by part:

* *Worker pool.* Two condition variables whose state is tested by one thread and
  changed by others, list heads read without a lock, counters adjusted on several
  paths. No node may be lost or started twice, `curThread` must be exact, the
  limit kept, no wakeup lost, no list starved.
* *Temporary files.* The quota is tested under one lock and reserved under
  another; a name goes back to the free list before its file is truncated. No two
  transfers may share a file, the reserved bytes must be exact, nobody may wait
  for ever.
* *Response queue.* Many writers, one reader that tests and takes under different
  locks, and an end that all threads approach on their own. Responses leave once
  and in order; the session ends.
* *Tables.* Limits are tested before each reservation, sizes given back on
  deletion; ids are used again; every session is a process of its own and uses no
  transactions. Accounts must match rows.
* *Transfers.* They succeed, fail after having had an effect, are retried, overtake
  one another and are cut off by the end of the session. Each request is answered
  once, at its end, and what was acknowledged is stored. They compete for thread
  slots and for temporary files, in different orders: none may wait for ever.
* *WebSocket.* The stream is cut anywhere, keys rotate by the bytes decoded, frames
  continue messages. What is read must stay in step with what was sent.
* *Memory.* All threads use the free lists; one read and the allocated size are outside
  the mutex. A block must have one owner, the account be exact.

## Modules

| module | models | kind |
|---|---|---|
| `ThreadPool` | `Thread.cpp`, lock by lock | component |
| `TaskPool` | what the pool promises its callers | abstract specification |
| `MCThreadPool` | refinement of `TaskPool` by `ThreadPool` | for TLC and TLAPS |
| `ThreadPool_proofs` | inductive invariant of `ThreadPool`, theorems, the refinement's steps | for TLAPS |
| `TempFiles` | `FileManager.cpp`, lock by lock | component |
| `TempFiles_proofs` | inductive invariant of `TempFiles` and theorems | for TLAPS |
| `ResponseQueue` | command loop, response queue, response thread, end of session | component |
| `ResponseChannel` | what the response queue promises | abstract specification |
| `MCResponseQueue` | refinement of `ResponseChannel` by `ResponseQueue` | for TLC, used by the proofs |
| `ResponseQueue_proofs` | inductive invariant of `ResponseQueue`, theorems, refinement step by step | for TLAPS |
| `Catalog` | the tables, one step per handler | component |
| `Drive` | extends `Catalog` with requests, transfers, drivers, answers, sessions | composition |
| `Drive_proofs` | accounts and subtrees of `Catalog`, inductive invariant of `Drive`, theorems about both | for TLAPS |
| `Sessions` | 0x20 and 0x28 of several sessions, one step per statement | component |
| `Sessions_proofs` | inductive invariant of `Sessions` and theorems | for TLAPS |
| `Transfers` | composes `TempFiles` and `TaskPool` as uploads and downloads use them | composition |
| `MCTransfers` | chunk sizes for `Transfers` | for TLC |
| `Frames` | `recvMsg` and its two callers over a stream | component |
| `MCFrames` | messages for `Frames` | for TLC |
| `Memory` | `MemManager.cpp`, lock by lock | component |
| `MCMemory` | symmetry for `Memory` | for TLC |
| `Memory_proofs` | inductive invariant of `Memory` and theorems | for TLAPS |
| `Server` | accept loop and SIGCHLD handler of `Server.cpp` | component |
| `Connection_proofs` | inductive invariants of `Server`, `Frames` and `Transfers`, and theorems | for TLAPS |
| `SetLemmas` | sums over finite sets and maxima, for the proofs | lemmas |

**ThreadPool.** Variables have the names of the code's statics (`createRoot`,
`delRoot`, `curThread`, `priority`, `selected`); `status` follows each node and its
thread, `pc` the creator. A mutex that only ever spans steps of the creator is read
off `pc` (`NewMutexFree`, `DelMutexFree`); `new_thread_queue_mutex`, which spans the
two steps of `Thread::create`, is `creating`. The condition of line 30 is split in
two steps, because it reads list heads at two moments while callers append;
its assignments inside the condition are part of the steps. Line 39 is modelled as
it is parsed, `priority + (1 % factor)`.

**TempFiles.** One process per transfer, whichever thread executes it. `Admit` and
`Take` are two steps, for the two locks of `newTemp`; `Release`, `Truncate` and
`Signal` are the three steps of `deleteTemp` under `file_mutex`. The retry of a
failed download gives its file back and starts again as a new transfer. A size comes as
`unsigned int`, is reserved as it is, and is remembered in an `int` (`FileManager.h:12`): `AsInt` is what
`deleteTemp` takes off. With 2^31 bytes or more that is negative, and 2^32 bytes stay reserved; `leaked`
counts these. The default `maxAllocate` is far below 2^31, but it is a setting.

**ResponseQueue.** `ReadOwn`, `ReadShared`, `ReadTask`, `ReadClose` are the kinds of
requests `commandInterpreter` distinguishes by who answers and where the operation
id is kept. `Enqueue` and `Signal` are `addResponseQueue`, the rest is
`responseThread` and the last lines of `commandInterpreter`. A process that has
exited takes all its threads with it (`Running`), and cuts `ResponseChannel` off (`cut`). The main thread's
last loop ends when the client answers the close, and also, unasked, when it closes or has gone.

**Catalog.** Only the main thread of a process uses the database, so with one session
a handler is one step. The two limit tests keep the code's `<=`, which refuses an
exact fit. `SaveChunk` writes the row whatever the limit test said, as line 585
does; `DeleteFiles` gives back what the code does, chunk by chunk, and removes by
file and chunk number only, as `remove_chunk` does; `ClearChunks` gives back the
cdid, as line 824 does. `Subtree` is the least set closed under children, stated
without recursion.

**Drive.** Queued and running transfers are the set `tasks`, any of which may act
next, which is all the pool promises (`TaskPool`). A driver's call succeeds, fails, or
fails after having had its effect. `infos` are the `client_del_file` records,
`store` the remote files, `answers` a bag of what was answered, `lastPut` a history
variable. `Disconnect`, and a handler that throws (`Dies`), end the session and
forget its transfers; the tables and the remote files stay. In 0x29 the directory of
a chunk outside the logical drive is whatever the memory held before
(`"wrong"` or `"null"`). Its `file_info` is never set (`Client.cpp:806-833`; 0x28 sets it in line 726), so
its workers lock and count through what the memory held: `Stray` lets each of them count in
the record of any 0x28, or where nobody notices, or wait for ever (`"stuck"`), or end the process. The
same for a worker of a 0x28 whose record was answered early and freed. What else such writes may overwrite
is not modelled. `strayed` names the records that were counted in by something else.
The statuses 1 and 2 (`INSERT`, `UPDATE`) are the success of 0x21, as the code sends them; the
protocol document says 0.
Sessions follow one another: that an old process still runs transfers while a new one serves the
same drive is not modelled.

**Server.** The handler interrupts the accept loop anywhere and is never interrupted by it,
so `ClientClose` is one step and the loop several: the test, `fork`, and `conn_count++`
as `Load` and `Store` (the Makefile builds without optimisation). `process` follows the
process of each connection until it is reaped. A client that is refused leaves no trace.

**Sessions.** `Catalog` has one session, whose handlers are steps; here a handler is as many
steps as it has statements, for sessions that share a logical drive. A statement is
atomic and updates `alloc_size` relative to what it is. `Insert` with an id that another session
has inserted meanwhile violates the key, and the exception ends the process (`Die`). Sizes are
below 2^63 here and in `Catalog`, so that the difference of line 481, unsigned and then `long long`, is exact. `Ahead`
is what `alloc_size` has and the rows do not, or have lost, while a handler is under way. Chunks are
left out: their statements have the same form, and their account drifts already in
`Catalog`.

**Transfers.** The variables of `TempFiles` and `TaskPool` side by side; every action uses
one of theirs, or both. An upload runs `newTemp` on the main thread (`saving`) before it
is queued, a download on its worker. A retry is a new task (`<<t, i>>`), queued by a
callback that then returns (`ReturnOld`). `JoinOnDemand` restricts `TaskPool`: the creator joins
finished threads only when the pool is full. A slot is held by a thread until it is joined.

**Frames.** A byte of a message is its position in the message if it was decoded with the right
byte of the key, so that order and masks are seen in what is written. `RecvMsg` chooses how many
of the bytes that have arrived `recv` returns. `Begin` and `Continue` are the branches of
`recvMsg` for a read within the frame, `Close` is a control frame of any kind, as `buf[0] & 0x08`
tests, and `Gone` the end of the stream. `Overrun` is a read that goes past its frame: the bytes that follow
are decoded and delivered as if they belonged to it, and `payloadLen` wraps. From then on the session is
`astray`: the stream is only a number of bytes (`raw`), of which `Wander` reads more for a `payloadLen` that is no
frame's and `Misread` takes some for a header (also when a read ends within a header: `readLen`
then falls below 0, and `decode` may copy from outside its arguments, `Crash`). What such
a header says is open: a close, or one of the lengths in `Claimed`. `RecvFails` is `recv` returning
-1, which as unsigned is not taken for the end of the stream.

`StartSave` and `WritePiece` are `readSaveFile`: the first write is not limited by the declared
`chunkSize` (line 535), later ones are, and what is left of it is subtracted modulo `Word`. A client
declares what it likes: a message's `chunk` is independent of its length. `Interpret` is
`commandInterpreter`. Where the bytes it sees are not the beginning of a request, or not all of the head of
a save, the request may be any (`AnyRequest`, `StartHeadless`): such a save has the length
`Unknown`, and the properties claim nothing of it. An instance has one header length of the three.

**Memory.** A block is a header with its memory; `next` and `other` are the links, `at` where each
thread is. The walks along the lists are set expressions (`Fitting`, `First`, `Before`), because
they happen under the mutex. `Free` reads the head before the mutex, `Insert` walks from what
was read. `allocateSize += size` is a load and a store. In `flush`, `free` is
`MemManager::free`, applied to a header: `FlushSubtract` lets it wait for the mutex for ever
(`hung`), or return because the bytes before the header say that the block is free.
`races` records which unprotected read has gone stale, for the properties that
hold until then.

Definitions headed *Mutant* are plausible bugs; each is put in the place of the
definition below it to see that a property notices. No specification uses them.

## Runs

| run | question | bounds |
|---|---|---|
| `ThreadPool` | counts, lists, wakeups, and every node starts | 3 nodes, 2 threads, priorities 0, 1, 3; spurious wakeups |
| `ThreadPoolRefines` | thread limit, and `TaskPool` implemented | 4 nodes, 2 threads, no spurious wakeups |
| `TempFiles` | files exclusive, data kept, account exact, nobody stranded | 3 transfers, sizes 0, half and all of the quota, the largest negative as int; names used again without end |
| `ResponseQueue` | no response lost, doubled or reordered | 3 requests of any kind, a close at any moment |
| `Catalog` | accounts, subtrees | 2 files linked in any way, chunks of 2 sizes on 2 cloud drives, limits within reach |
| `Drive` | answers, announcements, durability, end of retries | 4 requests over any number of sessions, 1 file whose id is used again, 2 cloud drives, a retry limit of 0, which by `retry++ > limit` still gives 2 attempts |
| `Server` | count of connections and their limit under interruptions | 4 connections used again without end, 3 places |
| `Memory` | lists ordered, blocks with one owner, bytes exact | 2 threads, 3 blocks, sizes 1 and 2, header 1, limit 5, words modulo 16 |
| `Frames` | in step with the stream, chunks as they were sent | 2 messages, of one to three frames of 0 to 8 bytes, that declare the size they send, less, or more; header 2, package 5 bytes, words modulo 64, headers that are none claim 0 or 3 bytes |
| `Transfers` | every transfer answered, unless jammed | an upload of the whole quota, two downloads that fill it together, 2 slots, 2 attempts, drivers that may fail for one of each |
| `Sessions` | account exact, overshoot bounded | 2 sessions of 3 requests, 2 files, sizes 0 to 2, limit 4 |
| `ResponseQueueEnd` | does the session end? | *violated*, see below |

The bounds are small but let the interesting cases happen: with 2 threads and 4
nodes the pool is full while nodes wait at several priorities and a running worker
queues another; with 3 transfers two are past the quota test together and a third
waits; 4 requests let a file be made, saved, deleted and made again, and two transfers of one chunk, or a
deletion and a save, be under way together, or a 0x29 count in the record of a 0x28 (that a 0x28 finds its own record
gone takes a fifth and is covered by the proof alone); a full logical drive, and a cloud drive that refuses a chunk, are
reached in `Catalog`; 4 connections for 3 places
let all places be lost to interrupted increments. With 3 blocks one can be first in its list,
one of the same size behind it and one in a stale hand; a frame of 8 bytes takes several
reads of 5, which begin and end in the middle of a frame and of the key's 4 bytes; the
upload and the two downloads reach the deadlock described below; 3 requests each let one
session delete or resize what the other is about to write. The guards that are bounds and not
code are `NextFileid <= MaxFile` and `op <= MaxOps` (`Catalog`, `Drive`), `MaxFile` and
`MaxRequests` (`Sessions`), `MaxUses` (`Memory`), `MaxMessages` (`Frames`) and
`Unreliable` (`Transfers`). `alloc_size` of a cloud drive may drift through 0x29;
`Catalog.cfg` names a cdid that keeps it finite. Deadlock is checked in `TempFiles`
and `Catalog`; in the others the system may stop: every node is used, a client
is silent, the requests are spent, the process has ended or is stuck, or (`Server`) no place is left.

### What the properties show

`ResponseQueueEnd` finds `SessionEnds` violated (`Client.cpp:278`): the main thread waits for the
end of the response thread without a predicate, and the signal is sent without the mutex. If the
response thread sends the close first, the signal is lost and the process stays.

Several properties hold only with an exception that the code forces and the property names:

* `AnsweredUnlessJam`, `JamLasts` (`Client.cpp:930`, `531`): downloads keep their slots while they
  wait for bytes of the quota that only uploads, queued behind them, can give back. No
  transfer of the session ends then, and nothing the process does resolves it.
* `EachBlockOnce` (`MemManager.cpp:53`): `free` reads the head of the list too early; a block
  may be linked behind one that is in use, and be lost, or handed out twice.
* `LimitExact` (`MemManager.cpp:38`): updates of `allocateSize` may be lost.
* `QuotaExact`, `NoStrandedWaiter`, `WaitersProgress` (`FileManager.h:12`, `FileManager.cpp:45`, `55`): each file
  of 2^31 bytes or more leaves 2^32 bytes reserved for ever. `WaitersProgress` has the premise that files in
  use are deleted in the end, which a client that falls silent in a chunk, or the jam of
  `Transfers`, prevents.
* `InStep`, `SavedAsSent` (`WebSocket.cpp:81`, `Client.cpp:535-545`): the first read of a frame may go past it.
  Then the program writes decoded bytes of other frames to the file and hands the chunk on; what had come
  before is still in its place. A chunk that is cut off, by the end of the connection, a control frame or a header that
  arrives alone, is stored as if it were complete, perhaps with a byte 0x88 at its end. A client that
  sends more than it declares may find more in the file.
* `OvershootBounded` (`Client.cpp:446-459`): sessions pass the limit of a drive together, by less
  than one request of each other session. The property is about the column `alloc_size`;
  `AccountExact` relates that to the rows.
* `AccountExact`: two sessions that delete, resize or create the same file, or a process that ends
  between two statements, leave `alloc_size` wrong; nothing else does.
* `AnswersWithLater` (`Client.cpp:392`, `397`): 0x02 and 0x03 keep the operation id in a list that
  is read when the answer is sent, so an answer may carry the id of a later request.
* `DriftsOnlyKnownWays` (`Client.cpp:585`, `824`): the status is unsigned, so every refusal passes the
  test `>= NO_CHANGE`, and the chunk is stored and not counted; 0x29 gives back the cdid.
* `AnsweredOnceAtEnd` (`Client.cpp:708`, `735`): a chunk outside the logical drive is counted, but
  no transfer reports it, and that 0x28 is never answered. `Client.cpp:806`, `968`: a transfer of 0x29 may count in
  the record of a 0x28, which is then answered while its own transfers go on, but once.
* `AttemptsEnd`: transfers are attempted finitely often. That they are attempted at all is not
  said, because a jam may keep them from it (`JamLasts`).

Seen while modelling and part of the models: after a
spurious wakeup the pool exceeds its limit by a thread (`Thread.cpp:90`; `ThreadLimit`
is stated and proved without spurious wakeups); concurrent callers of `newTemp` pass
`maxAllocate` (`FileManager.cpp:29`); all transfers use the download retry limit, and
`retry++ > limit` allows two attempts more (`Client.cpp:885`); the answer of 0x29 is
composed but never sent (`Client.cpp:1166`); a new file may get the id of the file deleted last, and
its chunks their names, while these are still being deleted (`Client.cpp:175`, `528`); `flush` waits for
the mutex it holds (`MemManager.cpp:93`), and its target, what is asked for less what is
allocated, is met only by chance (`MemManager.cpp:34`); `allocate` writes through a null pointer when there is no room
(`MemManager.cpp:44`); a read that takes the end of one frame and the start of the next makes
`payloadLen` wrap (`WebSocket.cpp:124`); a ping is taken for a close (`WebSocket.cpp:89`); the rest of a
request that is read in two pieces is taken for a new request (`Client.cpp:228`); a worker of 0x29 uses a
pointer that was never set (`Client.cpp:806`, `968`); the first piece of a chunk is written whatever size was
declared (`Client.cpp:535`); the size of a temporary file is narrowed to `int` (`FileManager.cpp:45`); `recv` returning -1 is taken
for 2^32 - 1 bytes (`WebSocket.cpp:81`).

### Fairness

Weak fairness of each thread's own steps: a thread that can run is scheduled.
Callbacks of workers return, because drivers do. In `ResponseQueue`
`res_queue_mutex` is strongly fair for those who wait for it: it is held for a few
instructions and threads come and go; and a client that was sent the close answers it or leaves. In `TempFiles`
a thread inside `newTemp` or `deleteTemp` runs on, but nothing says that a transfer which has its file
ever deletes it: that is the premise of `WaitersProgress`. Nothing is assumed of spurious wakeups, or of which
waiting transfer a signal wakes; hence `WaitersProgress` says that somebody is let in, not who. `Drive` assumes no
fairness: `AttemptsEnd` holds in every order in which the pool may run transfers, and if it stops.
In `Transfers` all threads run and drivers return, and, unlike above, the client does send the
chunk it has announced: until it does, the main thread reads nothing else. `AnsweredUnlessJam` excepts bytes that
have leaked, as `TempFiles` does; sizes of its run are below half of `IntRange`. `Sessions`, `Frames`
and `Memory` state safety only.

## Proofs

### ThreadPool

`ThreadPool_proofs` proves, for every set of nodes, every limit and every set of priorities:

| theorem | statement |
|---|---|
| `TypeCorrect` | `Spec => []TypeOK` |
| `CountCorrect` | `Spec => []CurThreadExact` |
| `JoinListCorrect` | `Spec => []JoinListExact` |
| `ThreadLimitHolds` | `Spec => []ThreadLimit`, if there are no spurious wakeups |
| `NoLostWakeupHolds` | `Spec => []NoLostWakeup` |
| `PoolKeepsPromise` | `Spec => Pool!Init /\ [][Pool!Next]_(Pool!vars)`, if there are no spurious wakeups |

from `PoolAssumption` alone (finitely many nodes, distinct names, a positive limit). They
rest on one inductive invariant, `IInv`, because none of the properties is inductive
as it stands:

* `CurThreadExact` needs to know that the creator's `spawn` has exactly one node in
  status `starting` (`OneStarting`), and that a queue's head is a node that is really queued, and
  only once (`QueueExact`), or a pop could start a running thread again;
* `JoinOne` lowers the count by one only if the head of `delRoot` is listed there once
  (`JoinListExact`);
* the limit needs that the creator passes `count` only with room (`RoomRemains`), and that
  there is work when it passes `check` (`WorkRemains`);
* `NoLostWakeup` needs to know why the creator is about to sleep (`SleepJustified`): what it saw
  under the mutex is still so when it waits.

The proof that a step preserves `IInv` has one case per action. `IInv` was checked with TLC
before it was proved.

`PoolKeepsPromise` is the safety part of `ImplementsTaskPool`: every step of the pool is a step of
`TaskPool` or a stutter. Four actions change what `TaskPool` sees. `CreateEnqueue`
is `Submit` (`QueueExact`: an unused node is in no queue), `PopNode` is `Start`, `CallbackReturns` is
`Return` and `JoinOne` is `FreeSlot`; `Spawn`, `AddDelQueue` and `ThreadExits` move a node inside one
of `TaskPool`'s sets. `PopNode` is where the limit is needed: before it, `curThread` is one more than the
threads that exist (`CurThreadExact`) and at most `MaxThread` (`RoomRemains`), so a slot is free.

### Server, Frames and Transfers

A connection is admitted by `Server` and read by `Frames`, and its chunks are moved by `Transfers`;
`Connection_proofs` is about all three, which share no definition.

| theorem | statement |
|---|---|
| `ServerTypeCorrect` | `ServerSpec => []ServerTypeOK` |
| `CountNeverLowHolds` | `ServerSpec => []CountNeverLow` |
| `ActiveLimitHolds` | `ServerSpec => []ActiveLimit` |
| `FramesTypeCorrect` | `Spec => []TypeOK` |
| `InStepHolds` | `Spec => []InStep` |
| `SavedAsSentHolds` | `Spec => []SavedAsSent` |
| `JamLastsHolds` | `TransfersSpec => JamLasts` |
| `TransfersUseComponents` | `TransfersSpec => Temp!Spec /\ Pool!Init /\ [][Pool!Next]_(Pool!vars)` |

Those of `Server` hold for any finite set of connections and any `max_conn`. The limit alone is not
inductive: it needs that the loop forks only with room and
that this is still so after any number of interruptions (`LoopKnows`), that the count
covers all processes (`CountNeverLow`), and that during the store what `conn_count` lacks is
no more than the one process about to be counted (`StoreLag`). An increment that is
interrupted between load and store loses the handler's decrements; the count is
then too high for ever and places are lost, but the limit is safe.

Those of `Frames` hold for any set of messages, cut into any number of frames of any lengths, that declare
any size, any header and any package larger than it, as long as a message is shorter than the 64 bits of its
length can say (`FramesAssumption`). Neither property is inductive. What is left in the stream must be
well-formed: a frame that is not the last of its message is followed by the next one, with at most a
control frame between (`Framed`; the client's `Send` keeps it, whatever it sends). Until the session is astray, `Position` says
of the frame at the head how far it has been read, that `payloadLen` is the rest and that the key is
rotated to the next byte; that a `recv` is asked for no more than `payloadLen` is what keeps `Overrun`
from a frame that has been begun (`OverrunInv`). Of the file `RightStart` says, astray or not, that the bytes that came
in step are in their places up to the declared size. `Saving` says, at each return to `readSaveFile` in
step, how far the save is, and (`NothingElse`) that nothing else is in the file and
`maxSaveSize` is the rest of the declared size, so that the subtraction wraps only after more came than was
declared. `BeginningKept`, `BeginningExtended`, `PieceWritten` and `ForeignWritten` are about one
write; `RightWritten` and `Delivered` put them together for all callers.

Those of `Transfers` hold for any chunks that fit the quota one by one, any number of slots and of
attempts, and any drivers (`TransfersAssumption`). `JamLasts` is about single steps, but not of any
state: it needs that a download is in `newTemp` only while its current attempt has a slot and
no result yet (`SlotWhileInNewTemp`). Then in a jam all that works sleeps, no download waits outside the
slots, no slot is free for an upload, and uploads that have their bytes can only wait; what uploads
still take makes room scarcer. `TransfersUseComponents` is the composition: what the main thread, the
workers and the response thread do with files are steps of `TempFiles`, so the theorems on
`TempFiles` hold of transfers (finitely many, as `TempAssumption` asks), and what they do with tasks are steps of `TaskPool`, which
`PoolKeepsPromise` says the pool keeps.

### SetLemmas

Four components keep an account: a number that must be the sum of something over files,
chunks, transfers or blocks. The models write it as `SumFunctionOnSet` of the community modules, which
takes the elements one after the other in an order of its own. `SetLemmas` proves what the
accounts need: the sum does not depend on the order (`SumRemove`: any element may be taken
first), so adding, removing or changing an element changes it by that element (`SumAdd`,
`SumUpdate`, `SumDifference`), and it is bounded by its largest term (`SumBounded`). The library's
induction over finite sets takes an operator as a parameter and cannot be applied here; each of these
proofs takes a smallest set that would be a counterexample instead (`SmallestSet`, from the
well-foundedness of strict inclusion).

### ResponseQueue

| theorem | statement |
|---|---|
| `TypeCorrect` | `Spec => []TypeOK` |
| `NeverSleepsOnWork` | `Spec => []NoSleepOnWork` |
| `EndsOnlyDrained` | `Spec => []EndsDrained` |
| `AnswersNameOpenRequests` | `Spec => []AnswersWithLater` |
| `QueueIsChannel` | `Spec => Channel!Init /\ [][Channel!Next]_(Channel!vars)` |

for every set of requests and workers, from `QueueAssumption` (that 0x88 and "nothing" are not
answers). A response moves from `posting` to `res_root` to `tmp` to `outbox`; `EndsDrained` needs to
know in each of these places what may still come behind 0x88 (`CloseLast`: only workers'
answers) and what the main thread is at when it posts (`MainPosts`). `AnswersWithLater` is not inductive
because the id is read from the list when the answer is sent: `SharedInOrder` says
that the answers that will take the list's id stand in the order of their requests, so that the id
the list holds is of the last of them. `QueueIsChannel` shows each step to be a step of
`ResponseChannel` or a stutter, the end of the process being its `Cut`; the channel's fairness stays with TLC.

### TempFiles

`TypeCorrect`, `TempsExclusive`, `DataKept`, `QuotaCorrect` and `NobodyStranded`, that is `Spec => []P`
for all five invariants of the run, for any finite set of transfers, any sizes that fit the quota and any
quota (`TempAssumption`). Between `Release` and `Truncate` a file is on the free list and
still to be truncated: that `OwnData` holds rests on the mutex, which keeps everybody from
the list until then (`ReleasedListed`). `NamesCounted`, that each name is in use or on
the list, bounds the names by the number of transfers. `QuotaCorrect` holds for any sizes of an
`unsigned int`: each release takes off the size, or the size less 2^32, and `leaked` counts the second kind.

### Catalog and Drive

`Drive` extends `Catalog`, and `Drive_proofs` is about both. Of the tables it proves
`LdAccountExact` (`Spec => []LdExact`), `DriftsOnlyAsKnown` and `NoOrphans` (`Spec => P` for the two
action properties), for any number of files, any chunks, sizes below 2^63 and cloud drives, and however clients link
the rows. `LdExact` is inductive with the types. The drift of a cloud drive is followed
through each handler; deletion is the long one, as it takes the chunks of a whole subtree from several
accounts at once. For `NoOrphans` the subtree is the least set closed
under children, so a child of a deleted row is deleted.

Of the sessions:

| theorem | statement |
|---|---|
| `DriveTypeCorrect` | `DriveSpec => []DriveTypeOK` |
| `AnsweredOnce` | `DriveSpec => []AnsweredOnceAtEnd` |
| `AnnouncedExact` | `DriveSpec => []AnnouncedChunks` |
| `SavesDurable` | `DriveSpec => []Durable` |

for any number of requests, sessions, files, chunks and attempts (`CatalogAssumption`,
`DriveAssumption`: a retry limit of 255 would let an `unsigned char` go round). None is
inductive. `AnsweredOnceAtEnd` needs that a request has at most one transfer for a chunk, whatever
attempt it is at (`OneTask`), and that a `client_del_file` no stray transfer has counted in lives as long as transfers will
count in it (`Counted`): with less the last transfer could find no record, or one to be counted twice. A chunk
outside the logical drive of a deleted file is counted and never handled; the difference in
`Counted` is bounded by these (`HandledChunks`). Of a record that something else has counted in, `Counted` says no more than that it
is not answered while it is there: its transfers may outlive it. A transfer of which no record knows
(`Unrecorded`: of 0x29, or outliving its record) may end uncounted, get stuck, or count elsewhere (`StrayInv`). `Durable` needs `Settled`: while a save may still turn
out durable, the only transfer that writes its chunk is its own. Requests break this (a delete clears
the row, another save of the chunk clears `lastPut`), workers keep it: a failed attempt that has had its effect
stores what the next one stores again. Each handler's proof says which transfers, records and
answers are its share (`RequestInv`); each end of a transfer is one of `FinishInv`, `CountInv`, `UncountedInv`
and `RetryInv`, which rest on `FinishWork`, `CountWork`, `LostWork` and `SameWork` for the work that is left.

### Sessions

`AccountIsExact` and `OvershootIsBounded`, for any finite set of sessions, any sizes and
any number of requests (sizes below 2^63). `InStep` says of a handler at each statement how its size, its
difference and its row go together. The overshoot is bounded through what the
sessions have promised between test and reservation (`Promised`): each that has passed the test
adds at most the largest size, and the last one to pass it found room.

### Memory

| theorem | statement |
|---|---|
| `TypeCorrect` | `Spec => []TypeOK` |
| `SizesStayOrdered` | `Spec => []SizesOrdered` |
| `BlocksInOnePlace` | `Spec => []EachBlockOnce` |
| `LimitIsExact` | `Spec => []LimitExact` |

for any threads, any finite set of blocks, any sizes, header and limit below the width of a word
(`MemoryAssumption`). The invariant has three layers. `Basic` holds whatever the threads do: types,
what each thread has in hand where it is (`InStep`), blocks that malloc has not given
are nowhere (`Unmade`), and sizes rise along `next` and are equal along `other`. As sizes rise, a walk
along `next` has no cycle, its first fitting block is what a loop of the code finds, and every block of it but
the first has a predecessor. `Tidy`, until `"list"` is in `races`: a block in the lists
has one predecessor, and of several of one size only the first is in the chain of sizes
(`OnePredecessor`); the free blocks are exactly those in the lists, in one hand, or flushed (`FreeBlocks`).
For each step that relinks, a lemma says which set the lists become (`LinkedBehind`,
`LinkedBetween`, `Unlinked`, `TakenBehind`, `HeadReplaced`). The account, until `races` is not empty:
`LimitExact` needs `Reserved`, that what `allocate` has tested still holds when it adds, for the sum not to
wrap; and `Tidy`, because a block that were flushed twice would be subtracted twice.

The invariants of all components were checked with TLC, as invariants of the runs' instances, before
they were proved.

### Model-checked only

Liveness (`QueuedRuns`, `WaitersProgress`, `AttemptsEnd`, `SessionEnds`, `AnsweredUnlessJam` and the
progress part of the refinements), which is out of the prover's reach.

## Not modelled

Binding the server's socket; the WebSocket handshake, `sendMsg`, and unmasked frames (the client masks);
byte order and Base64 (pure functions); TLS, configuration, the database connection and the scripts (no
logic of their own); the drivers and MySQL (external); `Thread::init`'s race with the thread
it starts and failures of `pthread_create`; what a thread does through a pointer to
a block that it no longer owns; the temporary file that the answer of a download without a drive
deletes, whose pointer was never set (`Client.cpp:948`, `1144`); what the workers of 0x29 overwrite through theirs,
beyond the counts; that `readDelFile`'s recursion over linked rows ends (`Subtree` is the set it reaches); sizes of 2^63
and more in 0x20; a chunk larger than `maxAllocate`, which waits for ever; the
statements about chunks of concurrent sessions.

## Plan

Every safety and action property of the runs is proved. What is left: that a transfer of `Transfers` is
in `responses` at most once and is not deleted before its last attempt has ended; and the use of
`ResponseQueue` by the workers of `Transfers`, now two models that meet only in `Answer`.
