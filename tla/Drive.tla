-------------------------------- MODULE Drive --------------------------------
(***************************************************************************)
(* One session on a logical drive: the request handlers of                 *)
(* server/Client.cpp with the transfers they start, the cloud drives they  *)
(* act on and the answers the client gets.                                 *)
(*                                                                         *)
(* A handler changes the tables at once (Catalog) and leaves the transfers *)
(* to workers (processSaveFile, processGetFileChunk, processDelChunk).     *)
(* Queued and running transfers are one set: the pool starts them in       *)
(* whatever order, as many at a time as it has threads, so any of them may *)
(* act next.  ThreadPool, TempFiles and ResponseQueue model what lies in   *)
(* between; here an answer goes out when it is queued.                     *)
(***************************************************************************)
EXTENDS Catalog, Naturals, Bags

CONSTANTS
  MaxOps,   \* bound on the requests of all sessions together
  MaxGetTry \* file.maxDownloadRetry, which the code uses for all transfers

ASSUME DriveAssumption ==
  /\ MaxOps \in Nat
  /\ MaxGetTry \in 0..254   \* with 255 an unsigned char never exceeds it

VARIABLES
  ops,      \* requests so far; a request's number is its operation id
  session,  \* the last request before the current session
  bound,    \* has remove_chunk ever had a value for its seqnum?
  tasks,    \* transfers queued or running
  infos,    \* the client_del_file records of 0x28 that wait for their transfers
  store,    \* chunk -> the request whose data the cloud drive holds, or 0
  answers,  \* the answers sent, a bag
  lastPut,  \* history: chunk -> the latest request to save it, 0 if another
            \* transfer that writes the chunk was under way when it came
  strayed   \* history: the records, by request and file, that a transfer of
            \* something else has counted in

sessionVars == <<session, bound>>
work == <<tasks, infos, store, strayed>>
vars == <<tables, ops, sessionVars, work, answers, lastPut>>

Op == 1..MaxOps
Status == {"NO_CHANGE", "INSERT", "UPDATE", "LD_LIMIT", "ZERO", "NOT_IN_LD",
           "RETRY", "DENIED", "UNDEFINED"}

Task ==
  [cmd : {"put", "get", "del", "clear"}, op : Op, chunk : Chunk,
   retry : 0..(MaxGetTry + 1), status : Status,
   dir : {"known", "wrong", "null", "stuck"}]

Info == [op : Op, fileid : Fileid, numOfChunk : Nat, deletedChunk : Nat]

\* about: the file, or the number of chunks, the answer tells of.
Answer ==
  [cmd : {"0x20", "0x22", "0x28"}, op : Op, about : 0..(MaxFile + Cardinality(Chunk)),
   status : Status] \cup
  [cmd : {"0x21", "0x23"}, op : Op, chunk : Chunk, status : Status]

DriveTypeOK ==
  /\ TypeOK
  /\ ops \in 0..MaxOps /\ session \in 0..ops
  /\ bound \in BOOLEAN
  /\ tasks \subseteq Task
  /\ infos \subseteq Info
  /\ store \in [Chunk -> 0..MaxOps]
  /\ IsABag(answers) /\ BagToSet(answers) \subseteq Answer
  /\ lastPut \in [Chunk -> 0..MaxOps]
  /\ strayed \subseteq Op \X Fileid

DriveInit ==
  /\ Init
  /\ ops = 0 /\ session = 0
  /\ bound = FALSE
  /\ tasks = {} /\ infos = {}
  /\ store = [c \in Chunk |-> 0]
  /\ answers = EmptyBag
  /\ lastPut = [c \in Chunk |-> 0]
  /\ strayed = {}

-----------------------------------------------------------------------------
AnswerOf(cmd, op, about, status) ==
  [cmd |-> cmd, op |-> op, about |-> about, status |-> status]

ChunkAnswer(cmd, op, c, status) ==
  [cmd |-> cmd, op |-> op, chunk |-> c, status |-> status]

Send(a) == answers' = answers (+) SetToBag({a})

\* A request arrives on the connection; its handler names it op.
Receive(op) ==
  /\ op = ops + 1 /\ op <= MaxOps
  /\ ops' = op

\* The process ends, its connection with it, and its transfers are forgotten.
EndSession ==
  /\ session' = ops'
  /\ bound' = FALSE
  /\ tasks' = {} /\ infos' = {}

Dies(op) ==
  /\ Receive(op)
  /\ EndSession
  /\ UNCHANGED <<tables, store, answers, lastPut, strayed>>

Disconnect ==
  /\ UNCHANGED ops
  /\ session < ops
  /\ EndSession
  /\ UNCHANGED <<tables, store, answers, lastPut, strayed>>

\* A logical drive of somebody else: 0x22, 0x28 and 0x29 are not answered.
Denied(op) ==
  /\ Receive(op)
  /\ \/ \E f \in 0..MaxFile : Send(AnswerOf("0x20", op, f, "NO_CHANGE"))
     \/ \E c \in Chunk : Send(ChunkAnswer("0x21", op, c, "DENIED"))
     \/ UNCHANGED answers
  /\ UNCHANGED <<tables, sessionVars, work, lastPut>>

-----------------------------------------------------------------------------
(* 0x20.  An update that changes nothing, the name neither, answers file id 0. *)

ReadCreateFile(op, p, n) ==
  /\ Receive(op)
  /\ \/ /\ LdExceeds(n)
        /\ Send(AnswerOf("0x20", op, 0, "LD_LIMIT"))
        /\ UNCHANGED tables
     \/ /\ CreateFile(p, n)
        /\ Send(AnswerOf("0x20", op, NextFileid, "INSERT"))
  /\ UNCHANGED <<sessionVars, work, lastPut>>

ReadUpdateFile(op, f, p, n) ==
  /\ f \in Files
  /\ Receive(op)
  /\ \/ /\ LdExceeds(n - directory[f].size)
        /\ Send(AnswerOf("0x20", op, f, "LD_LIMIT"))
        /\ UNCHANGED tables
     \/ /\ UpdateFile(f, p, n)
        /\ \/ Send(AnswerOf("0x20", op, f, "UPDATE"))
           \/ directory' = directory /\ Send(AnswerOf("0x20", op, 0, "NO_CHANGE"))
  /\ UNCHANGED <<sessionVars, work, lastPut>>

\* Reading a column of an empty result throws, and nothing catches it.
ReadMissingFile(op, f) == f \in Fileid \ Files /\ Dies(op)

-----------------------------------------------------------------------------
(* 0x21 *)

NewTask(cmd, op, c, status, dir) ==
  [cmd |-> cmd, op |-> op, chunk |-> c, retry |-> 0, status |-> status, dir |-> dir]

\* The ld and cloud drive lists are searched for the directory of the chunk.
Dir(c) == IF c.cdid \in InDrive THEN "known" ELSE "null"

Writes(c) == {t \in tasks : t.chunk = c /\ t.cmd # "get"}

ReadSaveFile(op, c, n) ==
  /\ Receive(op)
  /\ \/ /\ n = 0
        /\ Send(ChunkAnswer("0x21", op, c, "ZERO"))
        /\ UNCHANGED <<tables, tasks, lastPut>>
     \/ /\ SaveChunk(c, n)
        /\ LET status == IF filechunk[c] \in {0, n} THEN "INSERT" ELSE "UPDATE" IN
           tasks' = tasks \cup {NewTask("put", op, c, status, Dir(c))}
        /\ lastPut' = [lastPut EXCEPT ![c] = IF Writes(c) = {} THEN op ELSE 0]
        /\ UNCHANGED answers
  /\ UNCHANGED <<sessionVars, infos, store, strayed>>

-----------------------------------------------------------------------------
(* 0x22 *)

\* Mutant: announces the chunks it can fetch, not those it will answer.
ReadGetFileHandled(op, f) ==
  /\ f \in Files
  /\ Receive(op)
  /\ tasks' = tasks \cup {NewTask("get", op, c, "NO_CHANGE", Dir(c)) : c \in ChunksOf(f)}
  /\ Send(AnswerOf("0x22", op, Cardinality(Handled(f)), "NO_CHANGE"))
  /\ UNCHANGED <<tables, sessionVars, infos, store, lastPut, strayed>>

ReadGetFile(op, f) ==
  /\ f \in Files
  /\ Receive(op)
  /\ tasks' = tasks \cup {NewTask("get", op, c, "NO_CHANGE", Dir(c)) : c \in ChunksOf(f)}
  /\ Send(AnswerOf("0x22", op, Cardinality(ChunksOf(f)), "NO_CHANGE"))
  /\ UNCHANGED <<tables, sessionVars, infos, store, lastPut, strayed>>

-----------------------------------------------------------------------------
(* 0x28: every file of the subtree has its own client_del_file, counts all *)
(* its chunks, but starts a transfer only for those it handles.            *)

ReadDelFile(op, f) ==
  LET S == Subtree(f)
      empty == {g \in S : ChunksOf(g) = {}} IN
  /\ Receive(op)
  /\ DeleteFiles(S)
  /\ tasks' = tasks \cup
       {NewTask("del", op, c, "NO_CHANGE", "known") : c \in UNION {Handled(g) : g \in S}}
  /\ infos' = infos \cup
       {[op |-> op, fileid |-> g, numOfChunk |-> Cardinality(ChunksOf(g)),
         deletedChunk |-> 0] : g \in S \ empty}
  /\ bound' = (bound \/ \E g \in S : Handled(g) # {})
  /\ answers' = answers (+) SetToBag({AnswerOf("0x28", op, g, "NO_CHANGE") : g \in empty})
  /\ UNCHANGED <<session, store, lastPut, strayed>>

(* 0x29: chunk_info->dir is set only if the cloud drive is in the logical  *)
(* drive; otherwise it is what the memory held before.  chunk_info->       *)
(* file_info is never set: no transfer knows the record of its request.    *)

ReadDelChunk(op, f) ==
  LET cs == ChunksOf(f) IN
  /\ bound \/ cs # {}
  /\ Receive(op)
  /\ ClearChunks(f)
  /\ \E d \in [cs -> {"known", "wrong", "null"}] :
       /\ \A c \in cs : d[c] = "known" <=> c.cdid \in InDrive
       /\ tasks' = tasks \cup {NewTask("clear", op, c, "NO_CHANGE", d[c]) : c \in cs}
  /\ bound' = TRUE
  /\ UNCHANGED <<session, infos, store, answers, lastPut, strayed>>

\* Line 839 executes remove_chunk even if no seqnum was ever bound: it throws.
ReadDelChunkUnbound(op, f) ==
  /\ ~bound /\ ChunksOf(f) = {}
  /\ Dies(op)

-----------------------------------------------------------------------------
(* The workers.  A driver's call succeeds or fails; a failed one may have  *)
(* had its effect all the same.                                            *)

\* Mutants: no limit; no count.
GivesUpNever(t) == FALSE
AgainForNothing(t) == tasks

GivesUp(t) == t.retry > MaxGetTry

Again(t) == (tasks \ {t}) \cup {[t EXCEPT !.retry = @ + 1]}

Finish(t, a) == tasks' = tasks \ {t} /\ Send(a)

\* Mutants: no return on line 891; no RETRY_LIMIT_EXCEED on line 886.
ProcessSaveFileOn(t) ==
  /\ t.cmd = "put"
  /\ LET Report(status) == Finish(t, ChunkAnswer("0x21", t.op, t.chunk, status))
         Stored == store' = [store EXCEPT ![t.chunk] = t.op] IN
     \/ /\ t.dir = "null"
        /\ Report("NOT_IN_LD")
        /\ UNCHANGED store
     \/ /\ t.dir = "known"
        /\ Stored
        /\ Report(t.status)
     \/ /\ t.dir = "known"
        /\ Stored \/ UNCHANGED store
        /\ IF GivesUp(t) THEN Report("RETRY")
           ELSE tasks' = Again(t) /\ Send(ChunkAnswer("0x21", t.op, t.chunk, t.status))
  /\ UNCHANGED <<tables, ops, sessionVars, infos, lastPut, strayed>>

ProcessSaveFileWell(t) ==
  /\ t.cmd = "put"
  /\ LET Report(status) == Finish(t, ChunkAnswer("0x21", t.op, t.chunk, status))
         Stored == store' = [store EXCEPT ![t.chunk] = t.op] IN
     \/ /\ t.dir = "null"
        /\ Report("NOT_IN_LD")
        /\ UNCHANGED store
     \/ /\ t.dir = "known"
        /\ Stored \/ UNCHANGED store
        /\ Report(t.status)
     \/ /\ t.dir = "known"
        /\ ~GivesUp(t)
        /\ tasks' = Again(t) /\ UNCHANGED <<store, answers>>
  /\ UNCHANGED <<tables, ops, sessionVars, infos, lastPut, strayed>>

ProcessSaveFile(t) ==
  /\ t.cmd = "put"
  /\ LET Report(status) == Finish(t, ChunkAnswer("0x21", t.op, t.chunk, status))
         Stored == store' = [store EXCEPT ![t.chunk] = t.op] IN
     \/ /\ t.dir = "null"
        /\ Report("NOT_IN_LD")
        /\ UNCHANGED store
     \/ /\ t.dir = "known"
        /\ Stored
        /\ Report(t.status)
     \/ /\ t.dir = "known"
        /\ Stored \/ UNCHANGED store
        /\ IF GivesUp(t) THEN Report("RETRY")
           ELSE tasks' = Again(t) /\ UNCHANGED answers
  /\ UNCHANGED <<tables, ops, sessionVars, infos, lastPut, strayed>>

\* Without a directory the response reads a file that was never made.
ProcessGetFileChunk(t) ==
  /\ t.cmd = "get"
  /\ LET Report(status) == Finish(t, ChunkAnswer("0x23", t.op, t.chunk, status)) IN
     \/ t.dir = "null" /\ Report("UNDEFINED")
     \/ t.dir = "known" /\ store[t.chunk] # 0 /\ Report(t.status)
     \/ t.dir = "known" /\ IF GivesUp(t) THEN Report("RETRY")
                           ELSE tasks' = Again(t) /\ UNCHANGED answers
  /\ UNCHANGED <<tables, ops, sessionVars, infos, store, lastPut, strayed>>

InfosOf(t) == {i \in infos : i.op = t.op /\ i.fileid = t.chunk.fileid}

\* The last transfer answers.
CountIn(i) ==
  LET last == i.deletedChunk + 1 = i.numOfChunk IN
  /\ infos' = (infos \ {i}) \cup
       (IF last THEN {} ELSE {[i EXCEPT !.deletedChunk = @ + 1]})
  /\ IF last THEN Send(AnswerOf("0x28", i.op, i.fileid, "NO_CHANGE"))
     ELSE UNCHANGED answers

\* The transfer t counts through a pointer that was never set, or to a record
\* that has been answered and freed: it counts in another request's record, or
\* where nobody notices, or waits for ever on what is no mutex, or the process dies.
\* (What else it may overwrite is not modelled.)
Stray(t) ==
  \/ /\ tasks' = tasks \ {t}
     /\ \/ \E i \in infos : CountIn(i) /\ strayed' = strayed \cup {<<i.op, i.fileid>>}
        \/ UNCHANGED <<infos, answers, strayed>>
     /\ UNCHANGED sessionVars
  \/ /\ tasks' = (tasks \ {t}) \cup {[t EXCEPT !.dir = "stuck"]}
     /\ UNCHANGED <<sessionVars, infos, answers, strayed>>
  \/ EndSession /\ UNCHANGED <<answers, strayed>>

CountDeleted(t) ==
  \/ /\ t.cmd = "del"
     /\ \E i \in InfosOf(t) : CountIn(i)
     /\ tasks' = tasks \ {t}
     /\ UNCHANGED <<sessionVars, strayed>>
  \/ /\ t.cmd = "clear" \/ InfosOf(t) = {}
     /\ Stray(t)

ProcessDelChunk(t) ==
  LET Gone == store' = [store EXCEPT ![t.chunk] = 0] IN
  /\ t.cmd \in {"del", "clear"} /\ t.dir # "stuck"
  /\ UNCHANGED <<tables, ops, lastPut>>
  /\ \/ /\ t.dir = "null"
        /\ tasks' = tasks \ {t}
        /\ UNCHANGED <<sessionVars, infos, store, answers, strayed>>
     \/ /\ t.dir # "null"
        /\ IF t.dir = "known" THEN Gone ELSE UNCHANGED store
        /\ CountDeleted(t)
     \/ /\ t.dir # "null"
        /\ (t.dir = "known" /\ Gone) \/ UNCHANGED store
        /\ IF GivesUp(t) THEN CountDeleted(t)
           ELSE tasks' = Again(t) /\ UNCHANGED <<sessionVars, infos, answers, strayed>>

Process(t) == ProcessSaveFile(t) \/ ProcessGetFileChunk(t) \/ ProcessDelChunk(t)

-----------------------------------------------------------------------------
Request(op) ==
  \/ Denied(op)
  \/ \E p \in Parents, n \in Size : ReadCreateFile(op, p, n)
  \/ \E f \in Fileid, p \in Parents, n \in Size : ReadUpdateFile(op, f, p, n)
  \/ \E f \in Fileid : ReadMissingFile(op, f)
  \/ \E c \in Chunk, n \in Size : ReadSaveFile(op, c, n)
  \/ \E f \in Fileid : ReadGetFile(op, f)
  \/ \E f \in Fileid \cup Parents : ReadDelFile(op, f)
  \/ \E f \in Fileid : ReadDelChunk(op, f) \/ ReadDelChunkUnbound(op, f)

DriveNext ==
  \/ \E op \in Op : Request(op)
  \/ \E t \in tasks : Process(t)
  \/ Disconnect

DriveSpec == DriveInit /\ [][DriveNext]_vars

-----------------------------------------------------------------------------
Sent(cmd, op) == {a \in BagToSet(answers) : a.cmd = cmd /\ a.op = op}
TasksOf(cmd, op) == {t \in tasks : t.cmd = cmd /\ t.op = op}

\* No answer is sent twice, and none is sent for a save, a chunk or a deleted
\* file whose transfers go on, retries and all.  A deleted file that is not yet
\* answered waits for just these transfers, and in vain for its chunks on cloud
\* drives outside the logical drive, which Client.cpp:708 counts all the same.
\* A deleted file whose record a stray transfer has counted in may be answered
\* early, but still not twice; 0x29 is what strays (Client.cpp:806).
AnsweredOnceAtEnd ==
  /\ \A a \in BagToSet(answers) : answers[a] = 1
  /\ \A op \in Op : Sent("0x21", op) # {} => TasksOf("put", op) = {}
  /\ \A op \in Op : \A a \in Sent("0x23", op) :
       \A t \in TasksOf("get", op) : t.chunk # a.chunk
  /\ \A op \in Op : \A a \in Sent("0x28", op) :
       <<op, a.about>> \notin strayed =>
         \A t \in TasksOf("del", op) : t.chunk.fileid # a.about
  /\ \A i \in infos : <<i.op, i.fileid>> \notin strayed =>
       i.numOfChunk - i.deletedChunk
         - Cardinality({t \in TasksOf("del", i.op) : t.chunk.fileid = i.fileid})
           \in 0..Cardinality({c \in Chunk : c.fileid = i.fileid /\ c.cdid \notin InDrive})

\* While the session lasts, a 0x22 has announced exactly the 0x23 that have
\* been sent and those whose transfers are still under way.
AnnouncedChunks ==
  \A op \in (session + 1)..ops : \A a \in Sent("0x22", op) :
    a.about = Cardinality(Sent("0x23", op)) + Cardinality(TasksOf("get", op))

\* Once a save has been answered with success the cloud drive holds that data,
\* until the row is deleted or saved again: failed attempts, retries, sessions
\* that break off and whatever is done to other chunks do not matter.  Only a
\* save that came while another put or delete of the chunk was under way may be
\* lost, because nothing orders the two.
Durable ==
  \A c \in Rows :
    lastPut[c] # 0 /\ (\E a \in Sent("0x21", lastPut[c]) : a.status \in {"INSERT", "UPDATE"})
      => store[c] = lastPut[c]

\* A request's transfers are attempted a finite number of times, however often they
\* fail and whatever the order and the number in which the pool runs them: retries
\* end.  That they are attempted at all is the pool's business (QueuedRuns, Jam).
AttemptsEnd ==
  \A op \in Op : <>[][~\E t \in tasks : t.op = op /\ Process(t)]_vars
=============================================================================
