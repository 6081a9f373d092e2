------------------------------- MODULE Catalog -------------------------------
(***************************************************************************)
(* The tables a session keeps for one logical drive: what each request     *)
(* handler of server/Client.cpp does to `directory`, `filechunk` and the   *)
(* two alloc_size columns.                                                 *)
(*                                                                         *)
(* Only the main thread of a connection process touches the database, so   *)
(* with one session a handler is one step.  MySQL itself is external: a    *)
(* statement does what its text says; filechunk has the key the queries    *)
(* use, (cdid, fileid, seqnum) within the logical drive.                   *)
(***************************************************************************)
EXTENDS Integers, FiniteSets, FiniteSetsExt

CONSTANTS
  Cloud,   \* cdids of the account's cloud drives; each has a driver
  InDrive, \* those that belong to the logical drive
  MaxFile, \* bound on file ids
  Parents, \* ids a client names as parents; 0 is the root
  Seqnum,  \* chunk sequence numbers
  Size,    \* sizes a client may name: below 2^63, so that the conversion of a
           \* difference to long long is exact (line 481)
  LdSize,  \* logicaldriveinfo.size
  CdSize   \* logicaldrivecontainer.size, the same for each cloud drive

ASSUME CatalogAssumption ==
  /\ Cloud \subseteq Nat \ {0} /\ IsFiniteSet(Cloud)
  /\ InDrive \subseteq Cloud
  /\ MaxFile \in Nat
  /\ Parents \subseteq 0..MaxFile
  /\ IsFiniteSet(Seqnum)
  /\ Size \subseteq Nat
  /\ LdSize \in Nat \ {0} /\ CdSize \in Nat \ {0}

VARIABLES
  directory, \* fileid -> its row: parent and size
  filechunk, \* chunk -> the size in its row, 0 if there is none
  ldAlloc,   \* logicaldriveinfo.alloc_size
  cdAlloc    \* logicaldrivecontainer.alloc_size of each cloud drive

tables == <<directory, filechunk, ldAlloc, cdAlloc>>

Fileid == 1..MaxFile
NoRow == [parentid |-> 0, size |-> -1]
Chunk == [cdid : Cloud, fileid : Fileid, seqnum : Seqnum]

TypeOK ==
  /\ directory \in [Fileid -> [parentid : Parents, size : Nat] \cup {NoRow}]
  /\ filechunk \in [Chunk -> Nat]
  /\ ldAlloc \in Nat
  /\ cdAlloc \in [InDrive -> Int]

Init ==
  /\ directory = [f \in Fileid |-> NoRow]
  /\ filechunk = [c \in Chunk |-> 0]
  /\ ldAlloc = 0
  /\ cdAlloc = [d \in InDrive |-> 0]

Files == {f \in Fileid : directory[f] # NoRow}
Rows == {c \in Chunk : filechunk[c] > 0}
ChunksOf(f) == {c \in Rows : c.fileid = f}
SizeOf(cs) == SumFunctionOnSet(filechunk, cs)
FileSize == [f \in Fileid |-> directory[f].size]

-----------------------------------------------------------------------------
(* readCreateFile, 0x20.  An exact fit is refused, by the <= of the query. *)

\* Mutant: an exact fit is accepted.
LdExceedsNot(n) == LdSize - ldAlloc < n

LdExceeds(n) == LdSize - ldAlloc <= n

\* The next id is one more than the largest in use, not than any ever used.
NextFileid == Max(Files \cup {0}) + 1

CreateFile(p, n) ==
  /\ ~LdExceeds(n)
  /\ NextFileid <= MaxFile
  /\ directory' = [directory EXCEPT ![NextFileid] = [parentid |-> p, size |-> n]]
  /\ ldAlloc' = ldAlloc + n
  /\ UNCHANGED <<filechunk, cdAlloc>>

UpdateFile(f, p, n) ==
  LET diff == n - directory[f].size IN
  /\ f \in Files
  /\ ~LdExceeds(diff)
  /\ directory' = [directory EXCEPT ![f] = [parentid |-> p, size |-> n]]
  /\ ldAlloc' = ldAlloc + diff
  /\ UNCHANGED <<filechunk, cdAlloc>>

-----------------------------------------------------------------------------
(* readSaveFile, 0x21 *)

CdExceeds(d, n) == d \in InDrive /\ CdSize - cdAlloc[d] <= n

\* Mutant: a chunk saved again is reserved once more.
SaveChunkAnew(c, n) ==
  LET diff == n - filechunk[c] IN
  /\ n > 0
  /\ filechunk' = [filechunk EXCEPT ![c] = n]
  /\ cdAlloc' = IF c.cdid \in InDrive /\ diff # 0 /\ ~CdExceeds(c.cdid, diff)
                THEN [cdAlloc EXCEPT ![c.cdid] = @ + n]
                ELSE cdAlloc
  /\ UNCHANGED <<directory, ldAlloc>>

\* The size a chunk adds is reserved if the cloud drive has room for it.  The
\* row is written in any case: info->status, an unsigned char, is never less
\* than NO_CHANGE, so that line 585 lets every refusal pass.
SaveChunk(c, n) ==
  LET diff == n - filechunk[c] IN
  /\ n > 0
  /\ filechunk' = [filechunk EXCEPT ![c] = n]
  /\ cdAlloc' = IF c.cdid \in InDrive /\ diff # 0 /\ ~CdExceeds(c.cdid, diff)
                THEN [cdAlloc EXCEPT ![c.cdid] = @ + diff]
                ELSE cdAlloc
  /\ UNCHANGED <<directory, ldAlloc>>

-----------------------------------------------------------------------------
(* readDelFile, 0x28: the file and, recursively, all that is below it. *)

ClosedBelow(f, S) ==
  \A g \in Files : g = f \/ directory[g].parentid \in S \cup {f} => g \in S

\* Mutant: one level only.
Children(f) == {g \in Files : g = f \/ directory[g].parentid = f}

Subtree(f) == {g \in Files : \A S \in SUBSET Files : ClosedBelow(f, S) => g \in S}

\* A chunk of a cloud drive that is not in the logical drive is skipped, but
\* remove_chunk does not name the cloud drive: it takes all with the seqnum.
Handled(f) == {c \in ChunksOf(f) : c.cdid \in InDrive}
Removed(f) == {c \in ChunksOf(f) : \E d \in Handled(f) : d.seqnum = c.seqnum}

DeleteFiles(S) ==
  LET handled == UNION {Handled(f) : f \in S}
      removed == UNION {Removed(f) : f \in S} IN
  /\ directory' = [f \in Fileid |-> IF f \in S THEN NoRow ELSE directory[f]]
  /\ ldAlloc' = ldAlloc - SumFunctionOnSet(FileSize, S)
  /\ filechunk' = [c \in Chunk |-> IF c \in removed THEN 0 ELSE filechunk[c]]
  /\ cdAlloc' = [d \in InDrive |->
                   cdAlloc[d] - SizeOf({c \in handled : c.cdid = d})]

-----------------------------------------------------------------------------
(* readDelChunk, 0x29: all chunks of a file.  Line 824 gives back the cdid *)
(* where it should give back the size.                                     *)

ClearChunks(f) ==
  /\ filechunk' = [c \in Chunk |-> IF c.fileid = f THEN 0 ELSE filechunk[c]]
  /\ cdAlloc' = [d \in InDrive |->
                   cdAlloc[d] - d * Cardinality({c \in ChunksOf(f) : c.cdid = d})]
  /\ UNCHANGED <<directory, ldAlloc>>

-----------------------------------------------------------------------------
Next ==
  \/ \E p \in Parents, n \in Size : CreateFile(p, n)
  \/ \E f \in Fileid, p \in Parents, n \in Size : UpdateFile(f, p, n)
  \/ \E c \in Chunk, n \in Size : SaveChunk(c, n)
  \/ \E f \in Fileid \cup Parents : DeleteFiles(Subtree(f))
  \/ \E f \in Fileid : ClearChunks(f)

Spec == Init /\ [][Next]_tables

-----------------------------------------------------------------------------
\* The logical drive's alloc_size is the sum of the file sizes, and less than
\* its size: in one session the test before each reservation is enough.
LdExact ==
  /\ ldAlloc = SumFunctionOnSet(FileSize, Files)
  /\ ldAlloc < LdSize

\* How far a cloud drive's alloc_size is from what its chunks occupy.
Drift(d) == cdAlloc[d] - SizeOf({c \in Rows : c.cdid = d})

\* A cloud drive's alloc_size is exact but for two things: a chunk beyond the
\* limit is stored without being counted, and 0x29 gives back a wrong amount.
DriftsOnlyKnownWays ==
  [][ \A d \in InDrive :
        \/ Drift(d)' = Drift(d)
        \/ \E c \in Chunk, n \in Size :
             c.cdid = d /\ SaveChunk(c, n) /\ CdExceeds(d, n - filechunk[c])
        \/ \E f \in Fileid : ClearChunks(f) /\ ChunksOf(f) # {} ]_tables

\* A subtree goes as a whole: deleting never leaves a file whose parent it took.
NoOrphanMade ==
  [][ \A g \in Fileid :
        directory'[g] # NoRow /\ directory[g] # NoRow /\
        directory'[g].parentid \in Files /\ directory'[g].parentid = directory[g].parentid
          => directory'[directory[g].parentid] # NoRow ]_tables
=============================================================================
