----------------------------- MODULE Drive_proofs -----------------------------
(***************************************************************************)
(* Proofs about Catalog and about Drive, which is built on it, for any     *)
(* cloud drives, sizes and numbers of files, requests and attempts.        *)
(*                                                                         *)
(* Tables.  In one session the accounts can be followed handler by         *)
(* handler: LdExact is inductive with the types, and the drift of a cloud  *)
(* drive's account changes where DriftsOnlyKnownWays says.                 *)
(*                                                                         *)
(* Sessions.  DriveInv adds to what the runs check why it stays true.      *)
(* Work: a request has one transfer for each chunk; a record has chunks    *)
(* left to count, and as long as no stray transfer has counted in it no    *)
(* fewer than the transfers that will; it is not answered while it is      *)
(* there.  Settled: while a save may still turn out durable no other       *)
(* transfer writes its chunk.  A request adds a share of its own to the    *)
(* work (RequestInv); a worker ends a transfer (FinishInv, CountInv,       *)
(* UncountedInv), puts the next attempt in its place (RetryInv), or brings *)
(* the process down (EndSessionInv).                                       *)
(***************************************************************************)
EXTENDS Drive, SetLemmas

IInv == TypeOK /\ LdExact

-----------------------------------------------------------------------------
(* Files and chunks are finite sets. *)

LEMMA FiniteFiles ==
  ASSUME NEW S \in SUBSET Fileid
  PROVE  IsFiniteSet(S)
<1>1. IsFiniteSet(Fileid)
  BY CatalogAssumption, FS_Interval DEF Fileid
<1> QED BY <1>1, FS_Subset

LEMMA FiniteChunks ==
  ASSUME NEW S \in SUBSET Chunk
  PROVE  IsFiniteSet(S)
<1> DEFINE T == Cloud \X (Fileid \X Seqnum)
           key == [c \in Chunk |-> <<c.cdid, <<c.fileid, c.seqnum>>>>]
<1>1. IsFiniteSet(Fileid \X Seqnum)
  BY FiniteFiles, CatalogAssumption, FS_Product
<1>2. IsFiniteSet(T)
  BY <1>1, CatalogAssumption, FS_Product
<1>3. key \in [Chunk -> T]
  BY DEF Chunk
<1>4. \A c, d \in Chunk : key[c] = key[d] => c = d
  BY DEF Chunk
<1> HIDE DEF key, T
<1>5. key \in Injection(Chunk, T)
  BY <1>3, <1>4 DEF Injection, IsInjective
<1>6. IsFiniteSet(Chunk)
  BY <1>2, <1>5, FS_Injection
<1> QED BY <1>6, FS_Subset

\* Sizes in rows are naturals.
LEMMA RowSizes ==
  ASSUME TypeOK
  PROVE  /\ Files \in SUBSET Fileid
         /\ \A f \in Files : directory[f].size \in Nat /\ FileSize[f] = directory[f].size
         /\ \A f \in Files : FileSize[f] \in Nat /\ FileSize[f] \in Int
<1>1. \A f \in Files : directory[f] \in [parentid : Parents, size : Nat]
  BY DEF TypeOK, Files
<1>2. Files \in SUBSET Fileid
  BY DEF Files
<1> QED BY <1>1, <1>2 DEF FileSize

-----------------------------------------------------------------------------
(* The logical drive's account. *)

LEMMA InitInv == Init => IInv
<1> SUFFICES ASSUME Init PROVE IInv
  OBVIOUS
<1> USE DEF Init
<1>1. TypeOK
  BY DEF TypeOK
<1>2. Files = {}
  BY DEF Files
<1>3. LdExact
  BY <1>2, SumEmpty, CatalogAssumption DEF LdExact
<1> QED BY <1>1, <1>3 DEF IInv

\* A new file is new: its id is larger than those in use.
LEMMA CreateFileInv ==
  ASSUME IInv, NEW p \in Parents, NEW n \in Size, CreateFile(p, n)
  PROVE  IInv'
<1> DEFINE g == NextFileid
<1>1. n \in Nat /\ LdSize \in Nat /\ MaxFile \in Nat
  BY CatalogAssumption
<1>2. g \in Fileid /\ g \notin Files
  <2>1. IsFiniteSet(Files \cup {0}) /\ Files \cup {0} \subseteq Int /\ Files \cup {0} # {}
    BY RowSizes, FiniteFiles, FS_AddElement DEF IInv, Fileid
  <2>2. Max(Files \cup {0}) \in Files \cup {0} /\ \A f \in Files \cup {0} : f <= Max(Files \cup {0})
    BY <2>1, MaxProperties
  <2>3. g = Max(Files \cup {0}) + 1 /\ g <= MaxFile
    BY DEF CreateFile, NextFileid
  <2> HIDE DEF g
  <2>4. g \in Nat \ {0}
    BY <2>1, <2>2, <2>3
  <2> QED BY <1>1, <2>1, <2>2, <2>3, <2>4 DEF Fileid
<1> HIDE DEF g
<1>3. /\ directory' = [directory EXCEPT ![g] = [parentid |-> p, size |-> n]]
      /\ ldAlloc' = ldAlloc + n
      /\ LdSize - ldAlloc > n
      /\ UNCHANGED <<filechunk, cdAlloc>>
      /\ ldAlloc \in Nat
  BY <1>1 DEF CreateFile, LdExceeds, g, IInv, TypeOK
<1>4. TypeOK'
  <2>1. [parentid |-> p, size |-> n] \in [parentid : Parents, size : Nat]
    BY <1>1
  <2>2. directory' \in [Fileid -> [parentid : Parents, size : Nat] \cup {NoRow}]
    BY <1>3, <2>1 DEF IInv, TypeOK
  <2>3. ldAlloc' \in Nat
    BY <1>1, <1>3
  <2> QED BY <1>3, <2>2, <2>3 DEF IInv, TypeOK
<1>5. directory'[g] # NoRow
  BY <1>1, <1>2, <1>3 DEF NoRow, IInv, TypeOK
<1>6. Files' = Files \cup {g}
  BY <1>2, <1>3, <1>5 DEF IInv, TypeOK, Files
<1>7. FileSize'[g] = n /\ \A f \in Files : FileSize'[f] = FileSize[f]
  BY <1>2, <1>3 DEF IInv, TypeOK, FileSize, Files
<1>8. IsFiniteSet(Files) /\ \A f \in Files : FileSize[f] \in Int
  BY RowSizes, FiniteFiles DEF IInv
<1>9. SumFunctionOnSet(FileSize', Files) = SumFunctionOnSet(FileSize, Files)
  BY <1>7, <1>8, SumSame
<1>10. SumFunctionOnSet(FileSize', Files \cup {g}) = SumFunctionOnSet(FileSize', Files) + n
  BY <1>1, <1>2, <1>7, <1>8, SumAdd
<1>11. LdExact'
  BY <1>1, <1>3, <1>6, <1>9, <1>10 DEF IInv, LdExact
<1> QED BY <1>4, <1>11 DEF IInv

LEMMA UpdateFileInv ==
  ASSUME IInv, NEW f \in Fileid, NEW p \in Parents, NEW n \in Size, UpdateFile(f, p, n)
  PROVE  IInv'
<1>1. n \in Nat /\ LdSize \in Nat
  BY CatalogAssumption
<1>2. /\ f \in Files
      /\ directory' = [directory EXCEPT ![f] = [parentid |-> p, size |-> n]]
      /\ ldAlloc' = ldAlloc + (n - FileSize[f])
      /\ LdSize - ldAlloc > n - FileSize[f]
      /\ UNCHANGED <<filechunk, cdAlloc>>
      /\ ldAlloc \in Nat /\ FileSize[f] \in Nat
  <2>1. f \in Files
    BY DEF UpdateFile
  <2>2. directory[f].size \in Nat /\ FileSize[f] = directory[f].size
    BY <2>1, RowSizes DEF IInv
  <2>3. ldAlloc \in Nat
    BY DEF IInv, TypeOK
  <2> QED BY <1>1, <2>1, <2>2, <2>3 DEF UpdateFile, LdExceeds
<1>3. Files' = Files
  BY <1>1, <1>2 DEF IInv, TypeOK, Files, NoRow
<1>4. /\ \A g \in Files : FileSize[g] \in Nat /\ FileSize'[g] \in Nat
      /\ FileSize'[f] = n /\ \A g \in Files \ {f} : FileSize'[g] = FileSize[g]
  <2>1. FileSize'[f] = n /\ \A g \in Files \ {f} : FileSize'[g] = FileSize[g]
    BY <1>2 DEF IInv, TypeOK, FileSize, Files
  <2> QED BY <1>1, <2>1, RowSizes DEF IInv
<1>5. IsFiniteSet(Files) /\ \A g \in Files : FileSize[g] \in Int /\ FileSize'[g] \in Int
  BY <1>4, RowSizes, FiniteFiles DEF IInv
<1>6. SumFunctionOnSet(FileSize', Files) = SumFunctionOnSet(FileSize, Files) + n - FileSize[f]
  BY <1>2, <1>4, <1>5, SumUpdate
<1>7. SumFunctionOnSet(FileSize', Files) \in Nat
  BY <1>4, <1>5, SumType
<1>8. ldAlloc' = SumFunctionOnSet(FileSize', Files) /\ ldAlloc' < LdSize
  BY <1>1, <1>2, <1>6 DEF IInv, LdExact
<1>9. LdExact'
  BY <1>3, <1>8 DEF LdExact
<1>10. TypeOK'
  <2>1. [parentid |-> p, size |-> n] \in [parentid : Parents, size : Nat]
    BY <1>1
  <2>2. directory' \in [Fileid -> [parentid : Parents, size : Nat] \cup {NoRow}]
    BY <1>2, <2>1 DEF IInv, TypeOK
  <2> QED BY <1>2, <1>7, <1>8, <2>2 DEF IInv, TypeOK
<1> QED BY <1>9, <1>10 DEF IInv

LEMMA SubtreeOfFiles ==
  ASSUME NEW f
  PROVE  Subtree(f) \in SUBSET Files
BY DEF Subtree

LEMMA DeleteFilesInv ==
  ASSUME IInv, NEW S \in SUBSET Files, DeleteFiles(S)
  PROVE  IInv'
<1>1. /\ directory' = [f \in Fileid |-> IF f \in S THEN NoRow ELSE directory[f]]
      /\ ldAlloc' = ldAlloc - SumFunctionOnSet(FileSize, S)
      /\ filechunk' \in [Chunk -> Nat]
  BY DEF DeleteFiles, IInv, TypeOK
<1>2. Files' = Files \ S /\ Files \in SUBSET Fileid
  BY <1>1 DEF Files
<1>3. \A f \in Files' : FileSize'[f] = FileSize[f]
  BY <1>1, <1>2 DEF FileSize
<1>4. /\ IsFiniteSet(Files) /\ IsFiniteSet(S) /\ IsFiniteSet(Files')
      /\ \A f \in Files : FileSize[f] \in Nat /\ FileSize[f] \in Int
  BY <1>2, RowSizes, FiniteFiles DEF IInv
<1>5. SumFunctionOnSet(FileSize', Files') = SumFunctionOnSet(FileSize, Files')
  BY <1>3, <1>4, SumSame
<1>6. SumFunctionOnSet(FileSize, Files') =
        SumFunctionOnSet(FileSize, Files) - SumFunctionOnSet(FileSize, S)
  BY <1>2, <1>4, SumDifference
<1>7. /\ SumFunctionOnSet(FileSize, Files') \in Nat
      /\ SumFunctionOnSet(FileSize, S) \in Nat
  BY <1>2, <1>4, SumType
<1>8. ldAlloc' = SumFunctionOnSet(FileSize', Files') /\ ldAlloc' < LdSize /\ ldAlloc' \in Nat
  <2>1. ldAlloc = SumFunctionOnSet(FileSize, Files) /\ ldAlloc < LdSize /\ ldAlloc \in Nat
    BY DEF IInv, LdExact, TypeOK
  <2>2. LdSize \in Nat
    BY CatalogAssumption
  <2> QED BY <1>1, <1>5, <1>6, <1>7, <2>1, <2>2
<1>9. LdExact'
  BY <1>8 DEF LdExact
<1>10. directory' \in [Fileid -> [parentid : Parents, size : Nat] \cup {NoRow}]
  BY <1>1 DEF IInv, TypeOK
<1>11. \A d \in InDrive : \A cs \in SUBSET Chunk : SizeOf(cs) \in Int
  <2> SUFFICES ASSUME NEW cs \in SUBSET Chunk PROVE SizeOf(cs) \in Int
    OBVIOUS
  <2>1. IsFiniteSet(cs) /\ \A c \in cs : filechunk[c] \in Int
    BY FiniteChunks DEF IInv, TypeOK
  <2> QED BY <2>1, SumType DEF SizeOf
<1>12. cdAlloc' \in [InDrive -> Int]
  <2> DEFINE handled == UNION {Handled(f) : f \in S}
             given(d) == SizeOf({c \in handled : c.cdid = d})
  <2>1. handled \subseteq Chunk
    BY DEF Handled, ChunksOf, Rows
  <2> HIDE DEF handled
  <2>2. \A d \in InDrive : given(d) \in Int /\ cdAlloc[d] \in Int
    BY <1>11, <2>1 DEF IInv, TypeOK
  <2>3. cdAlloc' = [d \in InDrive |-> cdAlloc[d] - given(d)]
    BY DEF DeleteFiles, handled
  <2> HIDE DEF given
  <2> QED BY <2>2, <2>3
<1>13. TypeOK'
  BY <1>1, <1>8, <1>10, <1>12 DEF TypeOK
<1> QED BY <1>9, <1>13 DEF IInv

\* The handlers of chunks leave files and ldAlloc alone.
LEMMA SaveChunkInv ==
  ASSUME IInv, NEW c \in Chunk, NEW n \in Size, SaveChunk(c, n)
  PROVE  IInv'
<1>1. UNCHANGED <<directory, ldAlloc>>
  BY DEF SaveChunk
<1>2. n \in Nat /\ filechunk' = [filechunk EXCEPT ![c] = n] /\ filechunk[c] \in Nat
  BY CatalogAssumption DEF SaveChunk, IInv, TypeOK
<1>3. cdAlloc' \in [InDrive -> Int]
  BY <1>2 DEF SaveChunk, IInv, TypeOK
<1>4. TypeOK'
  BY <1>1, <1>2, <1>3 DEF IInv, TypeOK
<1>5. LdExact'
  BY <1>1 DEF IInv, LdExact, Files, FileSize
<1> QED BY <1>4, <1>5 DEF IInv

LEMMA ClearChunksInv ==
  ASSUME IInv, NEW f \in Fileid, ClearChunks(f)
  PROVE  IInv'
<1>1. UNCHANGED <<directory, ldAlloc>>
  BY DEF ClearChunks
<1>2. filechunk' \in [Chunk -> Nat]
  BY DEF ClearChunks, IInv, TypeOK
<1>3. cdAlloc' \in [InDrive -> Int]
  <2> DEFINE n(d) == Cardinality({c \in ChunksOf(f) : c.cdid = d})
  <2>1. \A d \in InDrive : n(d) \in Nat
    <3>1. ChunksOf(f) \subseteq Chunk
      BY DEF ChunksOf, Rows
    <3> QED BY <3>1, FiniteChunks, FS_CardinalityType
  <2> HIDE DEF n
  <2>2. \A d \in InDrive : d \in Int /\ cdAlloc[d] \in Int
    BY CatalogAssumption DEF IInv, TypeOK
  <2>3. \A d \in InDrive : d * n(d) \in Int
    BY <2>1, <2>2
  <2>4. cdAlloc' = [d \in InDrive |-> cdAlloc[d] - d * n(d)]
    BY DEF ClearChunks, n
  <2>5. \A d \in InDrive : cdAlloc[d] - d * n(d) \in Int
    BY <2>2, <2>3
  <2> QED BY <2>4, <2>5
<1>4. TypeOK'
  BY <1>1, <1>2, <1>3 DEF IInv, TypeOK
<1>5. LdExact'
  BY <1>1 DEF IInv, LdExact, Files, FileSize
<1> QED BY <1>4, <1>5 DEF IInv

LEMMA NextInv ==
  ASSUME IInv, [Next]_tables
  PROVE  IInv'
<1>1. ASSUME NEW p \in Parents, NEW n \in Size, CreateFile(p, n) PROVE IInv'
  BY <1>1, CreateFileInv
<1>2. ASSUME NEW f \in Fileid, NEW p \in Parents, NEW n \in Size, UpdateFile(f, p, n)
      PROVE  IInv'
  BY <1>2, UpdateFileInv
<1>3. ASSUME NEW c \in Chunk, NEW n \in Size, SaveChunk(c, n) PROVE IInv'
  BY <1>3, SaveChunkInv
<1>4. ASSUME NEW f \in Fileid \cup Parents, DeleteFiles(Subtree(f)) PROVE IInv'
  BY <1>4, SubtreeOfFiles, DeleteFilesInv
<1>5. ASSUME NEW f \in Fileid, ClearChunks(f) PROVE IInv'
  BY <1>5, ClearChunksInv
<1>6. CASE UNCHANGED tables
  BY <1>6 DEF tables, IInv, TypeOK, LdExact, Files, FileSize
<1> QED BY <1>1, <1>2, <1>3, <1>4, <1>5, <1>6 DEF Next

\* IInv is an invariant of the tables.
THEOREM Invariance == Spec => []IInv
<1>1. Init => IInv
  BY InitInv
<1>2. IInv /\ [Next]_tables => IInv'
  BY NextInv
<1> QED BY <1>1, <1>2, PTL DEF Spec

\* In one session the logical drive's alloc_size is the sum of the file sizes and
\* below the drive's size: what 0x20 and 0x28 add and take adds up.
THEOREM LdAccountExact == Spec => []LdExact
<1>1. IInv => LdExact
  BY DEF IInv
<1> QED BY <1>1, Invariance, PTL

-----------------------------------------------------------------------------
(* The accounts of the cloud drives. *)

On(d) == {c \in Rows : c.cdid = d}

LEMMA RowFacts ==
  ASSUME TypeOK, NEW cs \in SUBSET Chunk
  PROVE  /\ IsFiniteSet(cs)
         /\ \A c \in cs : filechunk[c] \in Nat /\ filechunk[c] \in Int
         /\ SizeOf(cs) \in Int
<1>1. IsFiniteSet(cs) /\ \A c \in cs : filechunk[c] \in Nat /\ filechunk[c] \in Int
  BY FiniteChunks DEF TypeOK
<1> QED BY <1>1, SumType DEF SizeOf

LEMMA DriftSame ==
  ASSUME NEW d \in InDrive, cdAlloc'[d] = cdAlloc[d], SizeOf(On(d))' = SizeOf(On(d))
  PROVE  Drift(d)' = Drift(d)
BY DEF Drift, On

\* Saving a chunk adds to the account what it adds to the rows, if there is room.
LEMMA SaveChunkDrift ==
  ASSUME TypeOK, NEW c \in Chunk, NEW n \in Size, SaveChunk(c, n), NEW d \in InDrive,
         ~(c.cdid = d /\ CdExceeds(d, n - filechunk[c]))
  PROVE  Drift(d)' = Drift(d)
<1> DEFINE diff == n - filechunk[c]
<1>1. /\ n \in Nat /\ n > 0 /\ filechunk[c] \in Nat
      /\ filechunk' = [filechunk EXCEPT ![c] = n]
      /\ filechunk \in [Chunk -> Nat] /\ cdAlloc \in [InDrive -> Int]
  BY CatalogAssumption DEF SaveChunk, TypeOK
<1>2. /\ filechunk'[c] = n
      /\ \A x \in Chunk \ {c} : filechunk'[x] = filechunk[x]
      /\ \A x \in Chunk : filechunk'[x] \in Nat /\ filechunk'[x] \in Int /\ filechunk[x] \in Int
  BY <1>1
<1>3. On(d) \in SUBSET Chunk /\ IsFiniteSet(On(d))
  BY RowFacts DEF On, Rows
<1>4. CASE c.cdid # d
  <2>1. On(d)' = On(d) /\ c \notin On(d)
    BY <1>2, <1>4 DEF On, Rows
  <2>2. SumFunctionOnSet(filechunk', On(d)) = SumFunctionOnSet(filechunk, On(d))
    BY <1>2, <1>3, <2>1, SumSame
  <2>3. cdAlloc'[d] = cdAlloc[d]
    BY <1>1, <1>4 DEF SaveChunk
  <2> QED BY <2>1, <2>2, <2>3, DriftSame DEF SizeOf
<1>5. CASE c.cdid = d
  <2>1. SizeOf(On(d))' = SizeOf(On(d)) + n - filechunk[c]
    <3>1. CASE filechunk[c] > 0
      <4>1. On(d)' = On(d) /\ c \in On(d)
        BY <1>1, <1>2, <1>5, <3>1 DEF On, Rows
      <4>2. /\ \A x \in On(d) : filechunk[x] \in Int /\ filechunk'[x] \in Int
            /\ \A x \in On(d) \ {c} : filechunk[x] = filechunk'[x]
        BY <1>2, <1>3
      <4>3. SumFunctionOnSet(filechunk', On(d)) =
              SumFunctionOnSet(filechunk, On(d)) + filechunk'[c] - filechunk[c]
        BY <1>3, <4>1, <4>2, SumUpdate
      <4> QED BY <1>2, <4>1, <4>3 DEF SizeOf
    <3>2. CASE filechunk[c] = 0
      <4>1. On(d)' = On(d) \cup {c} /\ c \notin On(d)
        BY <1>1, <1>2, <1>5, <3>2 DEF On, Rows
      <4>2. SumFunctionOnSet(filechunk', On(d)) = SumFunctionOnSet(filechunk, On(d))
        BY <1>2, <1>3, <4>1, SumSame
      <4>3. SumFunctionOnSet(filechunk', On(d) \cup {c}) =
              SumFunctionOnSet(filechunk', On(d)) + filechunk'[c]
        BY <1>2, <1>3, <4>1, SumAdd
      <4>4. SizeOf(On(d)) \in Int
        BY <1>3, RowFacts
      <4>5. SizeOf(On(d))' = SizeOf(On(d)) + n
        BY <1>2, <4>1, <4>2, <4>3 DEF SizeOf
      <4> QED BY <1>1, <3>2, <4>4, <4>5
    <3> QED BY <1>1, <3>1, <3>2
  <2>2. cdAlloc'[d] = cdAlloc[d] + diff
    <3>1. CASE diff = 0
      BY <1>1, <3>1 DEF SaveChunk
    <3>2. CASE diff # 0
      BY <1>1, <1>5, <3>2 DEF SaveChunk
    <3> QED BY <3>1, <3>2
  <2>3. SizeOf(On(d)) \in Int /\ cdAlloc[d] \in Int
    BY <1>1, <1>3, RowFacts
  <2>4. cdAlloc'[d] - SizeOf(On(d))' = cdAlloc[d] - SizeOf(On(d))
    BY <1>1, <2>1, <2>2, <2>3
  <2> QED BY <2>4 DEF Drift, On
<1> QED BY <1>4, <1>5

\* Deleting files removes, of each cloud drive in the logical drive, the rows whose
\* sizes it gives back.
LEMMA DeleteFilesDrift ==
  ASSUME TypeOK, NEW S \in SUBSET Files, DeleteFiles(S), NEW d \in InDrive
  PROVE  Drift(d)' = Drift(d)
<1> DEFINE handled == UNION {Handled(f) : f \in S}
           removed == UNION {Removed(f) : f \in S}
           H == {c \in handled : c.cdid = d}
<1>1. handled \subseteq Rows /\ removed \subseteq Rows
  BY DEF Handled, Removed, ChunksOf
<1>2. {c \in removed : c.cdid = d} = H
  <2>1. ASSUME NEW f \in S, NEW c \in Removed(f), c.cdid = d PROVE c \in Handled(f)
    BY <2>1 DEF Removed, Handled
  <2>2. ASSUME NEW f \in S, NEW c \in Handled(f) PROVE c \in Removed(f)
    BY DEF Removed, Handled
  <2> QED BY <2>1, <2>2
<1>3. /\ filechunk' = [c \in Chunk |-> IF c \in removed THEN 0 ELSE filechunk[c]]
      /\ cdAlloc' = [e \in InDrive |-> cdAlloc[e] - SizeOf({c \in handled : c.cdid = e})]
  BY DEF DeleteFiles
<1> HIDE DEF handled, removed
<1>4. cdAlloc'[d] = cdAlloc[d] - SizeOf(H)
  BY <1>3
<1>5. On(d) \in SUBSET Chunk /\ H \in SUBSET On(d) /\ On(d) \ H \in SUBSET Chunk
  BY <1>1 DEF On, Rows
<1>6. On(d)' = On(d) \ H
  <2>1. \A c \in Chunk : c.cdid = d => (c \in removed <=> c \in H)
    BY <1>2
  <2>2. \A c \in Chunk : filechunk'[c] = IF c \in removed THEN 0 ELSE filechunk[c]
    BY <1>3
  <2> HIDE DEF H
  <2> QED BY <1>5, <2>1, <2>2 DEF On, Rows
<1>7. \A c \in On(d) \ H : filechunk'[c] = filechunk[c]
  BY <1>2, <1>3, <1>5 DEF On
<1> HIDE DEF H
<1>8. SumFunctionOnSet(filechunk', On(d) \ H) = SumFunctionOnSet(filechunk, On(d) \ H)
  BY <1>5, <1>7, RowFacts, SumSame
<1>9. SumFunctionOnSet(filechunk, On(d) \ H) =
        SumFunctionOnSet(filechunk, On(d)) - SumFunctionOnSet(filechunk, H)
  BY <1>5, RowFacts, SumDifference
<1>10. SizeOf(On(d))' = SizeOf(On(d)) - SizeOf(H)
  BY <1>6, <1>8, <1>9 DEF SizeOf
<1>11. SizeOf(On(d)) \in Int /\ SizeOf(H) \in Int /\ cdAlloc[d] \in Int
  BY <1>5, RowFacts DEF TypeOK
<1>12. cdAlloc'[d] - SizeOf(On(d))' = cdAlloc[d] - SizeOf(On(d))
  BY <1>4, <1>10, <1>11
<1> QED BY <1>12 DEF Drift, On

\* 0x29 on a file without chunks changes nothing.
LEMMA ClearNoChunksDrift ==
  ASSUME TypeOK, NEW f \in Fileid, ClearChunks(f), ChunksOf(f) = {}, NEW d \in InDrive
  PROVE  Drift(d)' = Drift(d)
<1>1. \A c \in Chunk : c.fileid = f => filechunk[c] = 0
  BY DEF ChunksOf, Rows, TypeOK
<1>2. filechunk' = filechunk
  BY <1>1 DEF ClearChunks, TypeOK
<1>3. {c \in ChunksOf(f) : c.cdid = d} = {}
  OBVIOUS
<1>4. cdAlloc'[d] = cdAlloc[d] - d * 0
  BY <1>3, FS_EmptySet DEF ClearChunks
<1>5. cdAlloc[d] \in Int /\ d \in Int
  BY CatalogAssumption DEF TypeOK
<1>6. cdAlloc'[d] = cdAlloc[d]
  BY <1>4, <1>5
<1> QED BY <1>2, <1>6 DEF Drift, SizeOf, Rows

\* A cloud drive's account goes off only by a chunk stored beyond the limit, which
\* 0x21 does not count, or by 0x29, which gives back the cdid for the size.
THEOREM DriftsOnlyAsKnown == Spec => DriftsOnlyKnownWays
<1> DEFINE Known(d) ==
      \/ Drift(d)' = Drift(d)
      \/ \E c \in Chunk, n \in Size :
           c.cdid = d /\ SaveChunk(c, n) /\ CdExceeds(d, n - filechunk[c])
      \/ \E f \in Fileid : ClearChunks(f) /\ ChunksOf(f) # {}
<1>1. ASSUME IInv, Next, NEW d \in InDrive
      PROVE  Known(d)
  <2>0. TypeOK
    BY <1>1 DEF IInv
  <2>1. ASSUME NEW p \in Parents, NEW n \in Size, CreateFile(p, n)
        PROVE  Drift(d)' = Drift(d)
    BY <2>1 DEF CreateFile, Drift, SizeOf, Rows
  <2>2. ASSUME NEW f \in Fileid, NEW p \in Parents, NEW n \in Size, UpdateFile(f, p, n)
        PROVE  Drift(d)' = Drift(d)
    BY <2>2 DEF UpdateFile, Drift, SizeOf, Rows
  <2>3. ASSUME NEW c \in Chunk, NEW n \in Size, SaveChunk(c, n)
        PROVE  Known(d)
    BY <2>0, <2>3, SaveChunkDrift
  <2>4. ASSUME NEW f \in Fileid \cup Parents, DeleteFiles(Subtree(f))
        PROVE  Drift(d)' = Drift(d)
    BY <2>0, <2>4, SubtreeOfFiles, DeleteFilesDrift
  <2>5. ASSUME NEW f \in Fileid, ClearChunks(f)
        PROVE  Known(d)
    BY <2>0, <2>5, ClearNoChunksDrift
  <2> QED BY <1>1, <2>1, <2>2, <2>3, <2>4, <2>5 DEF Next
<1>2. IInv /\ [Next]_tables =>
        [\A d \in InDrive : Known(d)]_tables
  BY <1>1
<1> QED BY <1>2, Invariance, PTL DEF Spec, DriftsOnlyKnownWays

\* What 0x28 takes is closed: a file that stays keeps its parent.
LEMMA SubtreeClosed ==
  ASSUME NEW f, NEW g \in Files, directory[g].parentid \in Subtree(f)
  PROVE  g \in Subtree(f)
<1> SUFFICES ASSUME NEW S \in SUBSET Files, ClosedBelow(f, S) PROVE g \in S
  BY DEF Subtree
<1>1. directory[g].parentid \in S
  BY DEF Subtree
<1> QED BY <1>1 DEF ClosedBelow

\* Deleting a file takes all that is below it, so that no row is left whose parent
\* has gone.
THEOREM NoOrphans == Spec => NoOrphanMade
<1> DEFINE Kept(g) ==
      directory'[g] # NoRow /\ directory[g] # NoRow /\
      directory'[g].parentid \in Files /\ directory'[g].parentid = directory[g].parentid
        => directory'[directory[g].parentid] # NoRow
<1>1. ASSUME IInv, Next, NEW g \in Fileid PROVE Kept(g)
  <2> DEFINE p == directory[g].parentid
  <2> SUFFICES ASSUME directory'[g] # NoRow, directory[g] # NoRow, p \in Files,
                      directory'[g].parentid = p
               PROVE  directory'[p] # NoRow
    OBVIOUS
  <2>0. p \in Fileid /\ directory[p] # NoRow /\ g \in Files
        /\ directory \in [Fileid -> [parentid : Parents, size : Nat] \cup {NoRow}]
    BY <1>1 DEF Files, IInv, TypeOK
  <2>1. ASSUME NEW q \in Parents, NEW n \in Size, NEW f,
               directory' = [directory EXCEPT ![f] = [parentid |-> q, size |-> n]]
        PROVE  directory'[p] # NoRow
    <3>1. n \in Nat
      BY CatalogAssumption
    <3>2. [parentid |-> q, size |-> n] # NoRow
      BY <3>1 DEF NoRow
    <3> QED BY <2>0, <2>1, <3>2
  <2>2. ASSUME NEW f \in Fileid \cup Parents, DeleteFiles(Subtree(f))
        PROVE  directory'[p] # NoRow
    <3>1. directory' = [h \in Fileid |-> IF h \in Subtree(f) THEN NoRow ELSE directory[h]]
      BY <2>2 DEF DeleteFiles
    <3>2. g \notin Subtree(f)
      BY <3>1
    <3>3. p \notin Subtree(f)
      BY <2>0, <3>2, SubtreeClosed
    <3> QED BY <2>0, <3>1, <3>3
  <2>3. ASSUME UNCHANGED directory PROVE directory'[p] # NoRow
    BY <2>0, <2>3
  <2> QED BY <1>1, <2>1, <2>2, <2>3
          DEF Next, CreateFile, UpdateFile, SaveChunk, ClearChunks
<1>2. IInv /\ [Next]_tables => [\A g \in Fileid : Kept(g)]_tables
  BY <1>1
<1> QED BY <1>2, Invariance, PTL DEF Spec, NoOrphanMade

-----------------------------------------------------------------------------
(* The invariant of a session. *)

\* Nothing is about a request that has not come yet.
Known ==
  /\ \A t \in tasks : t.op <= ops
  /\ \A i \in infos : i.op <= ops
  /\ \A a \in BagToSet(answers) : a.op <= ops
  /\ \A p \in strayed : p[1] <= ops

\* A request has one transfer for each chunk, whatever attempt it is at; a save has one.
OneTask ==
  \A t, u \in tasks :
    t.cmd = u.cmd /\ t.op = u.op /\ (t.cmd = "put" \/ t.chunk = u.chunk) => t = u

OneInfo == \A i, j \in infos : i.op = j.op /\ i.fileid = j.fileid => i = j

\* The transfers that a client_del_file counts, and the chunks it counts in vain.
Waits(i) == {t \in tasks : t.cmd = "del" /\ t.op = i.op /\ t.chunk.fileid = i.fileid}
Outside(f) == {c \in Chunk : c.fileid = f /\ c.cdid \notin InDrive}
Left(i) == i.numOfChunk - i.deletedChunk


\* What is left to count in a record where only its own transfers have counted.
Exact(i, W) ==
  /\ Cardinality(W) <= Left(i)
  /\ Left(i) - Cardinality(W) <= Cardinality(Outside(i.fileid))
  /\ \A t \in W : t.dir = "known"

Counts(i, W) ==
  /\ Left(i) >= 1
  /\ <<i.op, i.fileid>> \notin strayed => Exact(i, W)

\* A record outlives the transfers that count in it, unless a stray one has
\* counted in it; it is not answered while it is there.
Counted ==
  /\ \A t \in tasks : t.cmd = "del" /\ <<t.op, t.chunk.fileid>> \notin strayed =>
       \E i \in infos : i.op = t.op /\ i.fileid = t.chunk.fileid
  /\ \A i \in infos : Counts(i, Waits(i))
  /\ \A i \in infos : \A a \in Sent("0x28", i.op) : a.about # i.fileid

Finite == IsFiniteSet(tasks) /\ IsFiniteSet(BagToSet(answers))

OnceEach == \A a \in BagToSet(answers) : answers[a] = 1

AtEnd ==
  /\ \A op \in Op : Sent("0x21", op) # {} => TasksOf("put", op) = {}
  /\ \A op \in Op : \A a \in Sent("0x23", op) :
       \A t \in TasksOf("get", op) : t.chunk # a.chunk
  /\ \A op \in Op : \A a \in Sent("0x28", op) :
       <<op, a.about>> \notin strayed =>
         \A t \in TasksOf("del", op) : t.chunk.fileid # a.about

Work ==
  /\ Finite /\ Known /\ OneTask /\ OneInfo /\ Counted /\ OnceEach /\ AtEnd
  /\ AnnouncedChunks

\* While a save may still be durable, only its own transfer writes the chunk.
Settled ==
  /\ \A c \in Rows : lastPut[c] # 0 =>
       \A t \in Writes(c) : t.cmd = "put" /\ t.op = lastPut[c]
  /\ \A c \in Chunk :
       /\ lastPut[c] <= ops
       /\ \A t \in tasks : t.cmd = "put" /\ t.op = lastPut[c] => t.chunk = c

DriveInv == IInv /\ DriveTypeOK /\ Work /\ Settled /\ Durable

-----------------------------------------------------------------------------
(* The bag of answers. *)

LEMMA Once ==
  ASSUME DriveTypeOK, OnceEach
  PROVE  answers = [a \in DOMAIN answers |-> 1]
<1>1. answers \in [DOMAIN answers -> {n \in Nat : n > 0}]
  BY DEF DriveTypeOK, IsABag
<1>2. \A a \in DOMAIN answers : answers[a] = 1
  BY DEF OnceEach, BagToSet
<1> QED BY <1>1, <1>2

LEMMA Added ==
  ASSUME DriveTypeOK, OnceEach, NEW A, A \cap BagToSet(answers) = {},
         answers' = answers (+) SetToBag(A) \/ (A = {} /\ UNCHANGED answers)
  PROVE  /\ OnceEach' /\ IsABag(answers)'
         /\ BagToSet(answers') = BagToSet(answers) \cup A
<1> DEFINE D == DOMAIN answers
<1>1. answers = [a \in D |-> 1] /\ BagToSet(answers) = D
  BY Once DEF BagToSet
<1>2. answers' = [a \in D \cup A |-> 1]
  <2>1. CASE answers' = answers (+) SetToBag(A)
    <3>1. DOMAIN SetToBag(A) = A /\ \A a \in A : SetToBag(A)[a] = 1 /\ a \notin D
      BY <1>1 DEF SetToBag
    <3>2. answers' = [a \in D \cup A |->
                        (IF a \in D THEN answers[a] ELSE 0)
                        + (IF a \in A THEN SetToBag(A)[a] ELSE 0)]
      BY <2>1, <3>1 DEF (+)
    <3> HIDE DEF D
    <3>3. \A a \in D : answers[a] = 1
      BY <1>1
    <3> QED BY <3>1, <3>2, <3>3
  <2>2. CASE A = {} /\ UNCHANGED answers
    BY <1>1, <2>2
  <2> QED BY <2>1, <2>2
<1> HIDE DEF D
<1>3. DOMAIN answers' = D \cup A /\ \A a \in D \cup A : answers'[a] = 1
  BY <1>2
<1>4. IsABag(answers)'
  BY <1>2 DEF IsABag
<1>5. OnceEach'
  BY <1>3 DEF OnceEach, BagToSet
<1> QED BY <1>1, <1>3, <1>4, <1>5 DEF BagToSet

-----------------------------------------------------------------------------
(* A request brings transfers N, records M and answers A of its own. *)

Share(op, N, M, A) ==
  /\ IsFiniteSet(N) /\ IsFiniteSet(A)
  /\ \A t \in N : t.op = op
  /\ \A i \in M : i.op = op
  /\ \A a \in A : a.op = op
  /\ \A t, u \in N : t.cmd = u.cmd /\ (t.cmd = "put" \/ t.chunk = u.chunk) => t = u
  /\ \A i, j \in M : i.fileid = j.fileid => i = j
  /\ \A t \in N : t.cmd = "del" => \E i \in M : i.fileid = t.chunk.fileid
  /\ \A i \in M :
       /\ Left(i) >= 1
       /\ Exact(i, {t \in N : t.cmd = "del" /\ t.chunk.fileid = i.fileid})
       /\ \A a \in A : a.cmd = "0x28" => a.about # i.fileid
  /\ \A a \in A :
       /\ a.cmd = "0x21" => \A t \in N : t.cmd # "put"
       /\ a.cmd # "0x23"
       /\ a.cmd = "0x28" => \A t \in N : t.cmd = "del" => t.chunk.fileid # a.about
       /\ a.cmd = "0x22" => a.about = Cardinality({t \in N : t.cmd = "get"})

LEMMA RequestWork ==
  ASSUME DriveTypeOK, Work, NEW op, op = ops + 1, ops' = op, UNCHANGED <<session, strayed>>,
         NEW N, NEW M, NEW A,
         tasks' = tasks \cup N, infos' = infos \cup M,
         BagToSet(answers') = BagToSet(answers) \cup A, OnceEach',
         Share(op, N, M, A)
  PROVE  Work'
<1> USE DEF Share
<1>1. /\ ops \in Nat /\ session \in Nat /\ session <= ops /\ op \notin 0..ops
      /\ \A t \in tasks : t.op \in Nat /\ t.op <= ops
      /\ \A i \in infos : i.op \in Nat /\ i.op <= ops
      /\ \A a \in BagToSet(answers) : a.op \in Nat /\ a.op <= ops
      /\ \A p \in strayed : p[1] \in Nat /\ p[1] <= ops
  <2>1. ops \in Nat /\ session \in Nat /\ session <= ops /\ op \notin 0..ops
    BY DriveAssumption DEF DriveTypeOK
  <2>2. \A t \in tasks : t.op \in Nat
    BY DEF DriveTypeOK, Task, Op
  <2>3. \A i \in infos : i.op \in Nat
    BY DEF DriveTypeOK, Info, Op
  <2>4. \A a \in BagToSet(answers) : a.op \in Nat
    BY DEF DriveTypeOK, Answer, Op
  <2>5. \A p \in strayed : p[1] \in Nat
    BY DEF DriveTypeOK, Op
  <2> QED BY <2>1, <2>2, <2>3, <2>4, <2>5 DEF Work, Known
<1>2. Finite'
  <2>1. IsFiniteSet(tasks) /\ IsFiniteSet(BagToSet(answers))
    BY DEF Work, Finite
  <2>2. IsFiniteSet(tasks \cup N) /\ IsFiniteSet(BagToSet(answers) \cup A)
    BY <2>1, FS_Union
  <2> QED BY <2>2 DEF Finite
<1>3. Known'
  <2>1. /\ \A t \in N : t.op = ops'
        /\ \A i \in M : i.op = ops'
        /\ \A a \in A : a.op = ops'
    OBVIOUS
  <2>2. ops \in Int /\ ops' = ops + 1
    BY <1>1
  <2> HIDE DEF Share
  <2> QED BY <1>1, <2>1, <2>2 DEF Known
<1>4. OneTask' /\ OneInfo'
  BY <1>1 DEF Work, OneTask, OneInfo
<1>5. \A c, o : o # op => Sent(c, o)' = Sent(c, o) /\ TasksOf(c, o)' = TasksOf(c, o)
  BY DEF Sent, TasksOf
<1>6. \A c : /\ Sent(c, op)' = {a \in A : a.cmd = c}
             /\ TasksOf(c, op)' = {t \in N : t.cmd = c}
  BY <1>1 DEF Sent, TasksOf
<1>7. Counted'
  <2>1. \A t \in tasks' : t.cmd = "del" /\ <<t.op, t.chunk.fileid>> \notin strayed =>
          \E i \in infos' : i.op = t.op /\ i.fileid = t.chunk.fileid
    BY <1>1 DEF Work, Counted
  <2>2. ASSUME NEW i \in infos
        PROVE  Counts(i, Waits(i)') /\ \A a \in Sent("0x28", i.op)' : a.about # i.fileid
    <3>1. Waits(i)' = Waits(i)
      BY <1>1 DEF Waits
    <3>2. Sent("0x28", i.op)' = Sent("0x28", i.op)
      BY <1>1, <1>5
    <3> QED BY <3>1, <3>2 DEF Work, Counted
  <2>3. ASSUME NEW i \in M
        PROVE  Counts(i, Waits(i)') /\ \A a \in Sent("0x28", i.op)' : a.about # i.fileid
    <3>1. Waits(i)' = {t \in N : t.cmd = "del" /\ t.chunk.fileid = i.fileid}
      BY <1>1 DEF Waits
    <3>2. \A a \in Sent("0x28", i.op)' : a.about # i.fileid
      <4>1. i.op = op /\ \A a \in A : a.cmd = "0x28" => a.about # i.fileid
        OBVIOUS
      <4> HIDE DEF Share
      <4> QED BY <1>6, <4>1
    <3> QED BY <3>1, <3>2 DEF Counts
  <2>4. \A i \in infos' : Counts(i, Waits(i)') /\ \A a \in Sent("0x28", i.op)' : a.about # i.fileid
    BY <2>2, <2>3
  <2> QED BY <2>1, <2>4 DEF Counted, Counts, Exact, Left, Outside
<1>8. AtEnd'
  <2> SUFFICES ASSUME NEW o \in Op
               PROVE  /\ Sent("0x21", o)' # {} => TasksOf("put", o)' = {}
                      /\ \A a \in Sent("0x23", o)' : \A t \in TasksOf("get", o)' : t.chunk # a.chunk
                      /\ \A a \in Sent("0x28", o)' : <<o, a.about>> \notin strayed =>
                           \A t \in TasksOf("del", o)' : t.chunk.fileid # a.about
    BY DEF AtEnd
  <2>1. CASE o = op
    <3>1. Sent("0x21", o)' # {} => TasksOf("put", o)' = {}
      BY <1>6, <2>1
    <3>2. Sent("0x23", o)' = {}
      <4>1. \A a \in A : a.cmd # "0x23"
        OBVIOUS
      <4> QED BY <1>6, <2>1, <4>1
    <3>3. \A a \in Sent("0x28", o)' : <<o, a.about>> \notin strayed => \A t \in TasksOf("del", o)' : t.chunk.fileid # a.about
      <4>1. \A a \in A : a.cmd = "0x28" => \A t \in N : t.cmd = "del" => t.chunk.fileid # a.about
        OBVIOUS
      <4> HIDE DEF Share
      <4> QED BY <1>6, <2>1, <4>1
    <3> QED BY <3>1, <3>2, <3>3
  <2>2. CASE o # op
    BY <1>5, <2>2 DEF AtEnd, Work
  <2> QED BY <2>1, <2>2
<1>9. AnnouncedChunks'
  <2> SUFFICES ASSUME NEW o \in (session + 1)..op, NEW a \in Sent("0x22", o)'
               PROVE  a.about = Cardinality(Sent("0x23", o)') + Cardinality(TasksOf("get", o)')
    BY DEF AnnouncedChunks
  <2>1. CASE o = op
    <3>1. a \in A /\ a.cmd = "0x22"
      BY <1>6, <2>1
    <3>2. Sent("0x23", o)' = {}
      <4>1. \A b \in A : b.cmd # "0x23"
        OBVIOUS
      <4> HIDE DEF Share
      <4> QED BY <1>6, <2>1, <4>1
    <3>3. TasksOf("get", o)' = {t \in N : t.cmd = "get"}
      BY <1>6, <2>1
    <3>4. IsFiniteSet({t \in N : t.cmd = "get"})
      BY FS_Subset
    <3>5. Cardinality(TasksOf("get", o)') \in Nat /\ Cardinality(Sent("0x23", o)') = 0
      BY <3>2, <3>3, <3>4, FS_CardinalityType, FS_EmptySet
    <3>6. a.about = Cardinality(TasksOf("get", o)')
      BY <3>1, <3>3
    <3> QED BY <3>5, <3>6
  <2>2. CASE o # op
    BY <1>1, <1>5, <2>2 DEF Work, AnnouncedChunks
  <2> QED BY <2>1, <2>2
<1> QED BY <1>2, <1>3, <1>4, <1>7, <1>8, <1>9 DEF Work

\* The end of a session: nothing is under way any more.
LEMMA EndWork ==
  ASSUME DriveTypeOK, Work, ops' \in {ops, ops + 1}, EndSession,
         UNCHANGED <<answers, strayed>>
  PROVE  Work'
<1>1. /\ ops \in Nat /\ \A a \in BagToSet(answers) : a.op \in Nat /\ a.op <= ops
      /\ \A p \in strayed : p[1] \in Nat /\ p[1] <= ops
  BY DriveAssumption DEF DriveTypeOK, Answer, Op, Work, Known
<1>2. Known' /\ Finite'
  <2>1. Known'
    BY <1>1 DEF Known, EndSession
  <2>2. IsFiniteSet(BagToSet(answers)) /\ BagToSet(answers)' = BagToSet(answers)
    BY DEF Work, Finite
  <2> QED BY <2>1, <2>2, FS_EmptySet DEF Finite, EndSession
<1>3. OneTask' /\ OneInfo' /\ Counted' /\ OnceEach'
  BY DEF OneTask, OneInfo, Counted, OnceEach, EndSession, Work
<1>4. AtEnd'
  BY DEF AtEnd, TasksOf, EndSession
<1>5. AnnouncedChunks'
  <2>1. session' = ops' /\ ops' \in Nat
    BY <1>1 DEF EndSession
  <2>2. \A n \in Nat : (n + 1)..n = {}
    OBVIOUS
  <2>3. (session' + 1)..ops' = {}
    BY <2>1, <2>2
  <2> QED BY <2>3 DEF AnnouncedChunks
<1> QED BY <1>2, <1>3, <1>4, <1>5 DEF Work

-----------------------------------------------------------------------------
(* The workers. *)

LEMMA Replaced ==
  ASSUME NEW S, IsFiniteSet(S), NEW t \in S, NEW u, u \notin S \ {t}
  PROVE  /\ IsFiniteSet((S \ {t}) \cup {u})
         /\ Cardinality((S \ {t}) \cup {u}) = Cardinality(S)
<1> DEFINE R == S \ {t}
<1>1. IsFiniteSet(R) /\ Cardinality(R) = Cardinality(S) - 1
  BY FS_RemoveElement
<1>2. Cardinality(S) \in Nat
  BY FS_CardinalityType
<1>3. u \notin R
  OBVIOUS
<1> HIDE DEF R
<1>4. IsFiniteSet(R \cup {u}) /\ Cardinality(R \cup {u}) = Cardinality(R) + 1
  BY <1>1, <1>3, FS_AddElement
<1>5. IsFiniteSet(R \cup {u}) /\ Cardinality(R \cup {u}) = Cardinality(S)
  BY <1>1, <1>2, <1>4
<1> QED BY <1>5 DEF R

LEMMA TaskFacts ==
  ASSUME DriveTypeOK, NEW t \in tasks
  PROVE  /\ t \in Task /\ t.op \in Op /\ t.op \in Nat /\ t.op # 0 /\ t.chunk \in Chunk
         /\ t.chunk.fileid \in Fileid /\ t.cmd \in {"put", "get", "del", "clear"} /\ t.retry \in Nat
<1>1. t \in Task
  BY DEF DriveTypeOK
<1> QED BY <1>1, DriveAssumption DEF Task, Op, Chunk

\* A transfer of which no record knows.
Unrecorded(t) ==
  t.cmd \in {"del", "clear"} /\ (t.cmd = "del" => <<t.op, t.chunk.fileid>> \in strayed)

\* Another attempt is the same transfer; one of which no record knows may get stuck.
LEMMA SameWork ==
  ASSUME DriveTypeOK, Work, NEW t \in tasks, NEW u, tasks' = (tasks \ {t}) \cup {u},
         u.cmd = t.cmd, u.op = t.op, u.chunk = t.chunk, u.dir = t.dir \/ Unrecorded(t),
         UNCHANGED <<infos, ops, session, answers, strayed>>
  PROVE  Work'
<1>3. u \notin tasks \ {t}
  BY DEF Work, OneTask
<1>4. ASSUME NEW S \in SUBSET tasks, NEW T, T = IF t \in S THEN (S \ {t}) \cup {u} ELSE S
      PROVE  IsFiniteSet(T) /\ Cardinality(T) = Cardinality(S)
  <2>1. IsFiniteSet(S)
    BY FS_Subset DEF Work, Finite
  <2> QED BY <1>3, <1>4, <2>1, Replaced
<1>5. Finite'
  BY <1>4 DEF Work, Finite
<1>6. Known' /\ OneTask' /\ OneInfo' /\ OnceEach'
  BY DEF Work, Known, OneTask, OneInfo, OnceEach
<1>7. ASSUME NEW c, NEW o
      PROVE  /\ TasksOf(c, o)' = IF t \in TasksOf(c, o) THEN (TasksOf(c, o) \ {t}) \cup {u}
                                 ELSE TasksOf(c, o)
             /\ Sent(c, o)' = Sent(c, o)
             /\ TasksOf(c, o) \in SUBSET tasks
  BY DEF TasksOf, Sent
<1>8. AtEnd'
  BY <1>7 DEF Work, AtEnd
<1>9. AnnouncedChunks'
  <2>1. \A o : Cardinality(TasksOf("get", o)') = Cardinality(TasksOf("get", o))
    BY <1>4, <1>7
  <2> QED BY <1>7, <2>1 DEF Work, AnnouncedChunks
<1>10. Counted'
  <2>1. \A v \in tasks' : v.cmd = "del" /\ <<v.op, v.chunk.fileid>> \notin strayed =>
          \E i \in infos' : i.op = v.op /\ i.fileid = v.chunk.fileid
    BY DEF Work, Counted
  <2>2. ASSUME NEW i \in infos PROVE Counts(i, Waits(i)')
    <3>1. Waits(i)' = IF t \in Waits(i) THEN (Waits(i) \ {t}) \cup {u} ELSE Waits(i)
      BY DEF Waits
    <3>2. Waits(i) \in SUBSET tasks
      BY DEF Waits
    <3>3. Cardinality(Waits(i)') = Cardinality(Waits(i))
      BY <1>4, <3>1, <3>2
    <3>4. ASSUME <<i.op, i.fileid>> \notin strayed, \A v \in Waits(i) : v.dir = "known"
          PROVE  \A v \in Waits(i)' : v.dir = "known"
      <4>1. t \in Waits(i) => u.dir = t.dir
        BY <3>4 DEF Waits, Unrecorded
      <4> QED BY <3>1, <3>4, <4>1
    <3> QED BY <3>3, <3>4 DEF Work, Counted, Counts, Exact
  <2>3. \A i \in infos' : \A a \in Sent("0x28", i.op)' : a.about # i.fileid
    BY <1>7 DEF Work, Counted
  <2> QED BY <2>1, <2>2, <2>3 DEF Counted, Counts, Exact, Left, Outside
<1> QED BY <1>5, <1>6, <1>8, <1>9, <1>10 DEF Work

\* A transfer of a save or of a chunk that is read ends with its answer.
LEMMA FinishWork ==
  ASSUME DriveTypeOK, Work, NEW t \in tasks, NEW a, NEW status,
         \/ t.cmd = "put" /\ a = ChunkAnswer("0x21", t.op, t.chunk, status)
         \/ t.cmd = "get" /\ a = ChunkAnswer("0x23", t.op, t.chunk, status),
         Finish(t, a), UNCHANGED <<infos, ops, session, strayed>>
  PROVE  Work' /\ IsABag(answers)' /\ BagToSet(answers') = BagToSet(answers) \cup {a}
<1>1. /\ a.op = t.op /\ a.chunk = t.chunk /\ a.cmd \in {"0x21", "0x23"}
      /\ a.cmd = "0x21" <=> t.cmd = "put"
      /\ a.cmd = "0x23" <=> t.cmd = "get"
      /\ t.cmd # "del"
  BY DEF ChunkAnswer
<1>2. tasks' = tasks \ {t} /\ answers' = answers (+) SetToBag({a})
  BY DEF Finish, Send
<1>3. a \notin BagToSet(answers)
  <2> SUFFICES ASSUME a \in BagToSet(answers) PROVE FALSE
    OBVIOUS
  <2>1. a \in Sent(a.cmd, t.op) /\ t \in TasksOf(t.cmd, t.op) /\ t.op \in Op
    BY <1>1, TaskFacts DEF Sent, TasksOf
  <2> QED BY <1>1, <2>1 DEF Work, AtEnd
<1>4. OnceEach' /\ IsABag(answers)' /\ BagToSet(answers') = BagToSet(answers) \cup {a}
  BY <1>2, <1>3, Added DEF Work
<1>5. /\ \A c, o : TasksOf(c, o)' = TasksOf(c, o) \ {t}
      /\ \A c, o : Sent(c, o)' = IF c = a.cmd /\ o = t.op THEN Sent(c, o) \cup {a}
                                 ELSE Sent(c, o)
  BY <1>1, <1>2, <1>4 DEF TasksOf, Sent
<1>6. Finite'
  <2>1. IsFiniteSet(tasks) /\ IsFiniteSet(BagToSet(answers))
    BY DEF Work, Finite
  <2>2. IsFiniteSet(tasks \ {t})
    BY <2>1, FS_RemoveElement
  <2>3. IsFiniteSet(BagToSet(answers) \cup {a})
    BY <2>1, FS_AddElement
  <2> QED BY <1>2, <1>4, <2>2, <2>3 DEF Finite
<1>7. Known' /\ OneTask' /\ OneInfo'
  BY <1>1, <1>2, <1>4 DEF Work, Known, OneTask, OneInfo
<1>8. Counted'
  <2>1. \A i : Waits(i)' = Waits(i) /\ Sent("0x28", i.op)' = Sent("0x28", i.op)
    BY <1>1, <1>2, <1>5 DEF Waits
  <2> QED BY <1>2, <2>1 DEF Work, Counted, Counts, Exact, Left, Outside
<1>9. AtEnd'
  <2>1. \A o \in Op : Sent("0x21", o)' # {} => TasksOf("put", o)' = {}
    <3> SUFFICES ASSUME NEW o \in Op, Sent("0x21", o)' # {}
                 PROVE  TasksOf("put", o)' = {}
      OBVIOUS
    <3>1. CASE a.cmd = "0x21" /\ o = t.op
      <4>1. \A u \in TasksOf("put", o) : u = t
        BY <1>1, <3>1 DEF TasksOf, Work, OneTask
      <4> QED BY <1>5, <4>1
    <3>2. CASE ~(a.cmd = "0x21" /\ o = t.op)
      BY <1>5, <3>2 DEF Work, AtEnd
    <3> QED BY <3>1, <3>2
  <2>2. ASSUME NEW o \in Op, NEW b \in Sent("0x23", o)', NEW u \in TasksOf("get", o)'
        PROVE  u.chunk # b.chunk
    <3>1. CASE b = a
      BY <1>1, <1>5, <3>1 DEF TasksOf, Sent, Work, OneTask
    <3>2. CASE b # a
      BY <1>5, <3>2 DEF Work, AtEnd
    <3> QED BY <3>1, <3>2
  <2>3. ASSUME NEW o \in Op, NEW b \in Sent("0x28", o)', NEW u \in TasksOf("del", o)',
               <<o, b.about>> \notin strayed
        PROVE  u.chunk.fileid # b.about
    BY <1>1, <1>5, <2>3 DEF Work, AtEnd
  <2> QED BY <2>1, <2>2, <2>3 DEF AtEnd
<1>10. AnnouncedChunks'
  <2> SUFFICES ASSUME NEW o \in (session + 1)..ops, NEW b \in Sent("0x22", o)'
               PROVE  b.about = Cardinality(Sent("0x23", o)') + Cardinality(TasksOf("get", o)')
    BY DEF AnnouncedChunks
  <2>1. b \in Sent("0x22", o)
    BY <1>1, <1>5
  <2>2. b.about = Cardinality(Sent("0x23", o)) + Cardinality(TasksOf("get", o))
    BY <2>1 DEF Work, AnnouncedChunks
  <2>3. CASE t.cmd = "get" /\ o = t.op
    <3>1. t \in TasksOf("get", o) /\ a \notin Sent("0x23", o)
      BY <1>3, <2>3 DEF TasksOf, Sent
    <3>2. IsFiniteSet(TasksOf("get", o)) /\ IsFiniteSet(Sent("0x23", o))
      BY FS_Subset DEF Work, Finite, TasksOf, Sent
    <3>3. /\ Cardinality(TasksOf("get", o)') = Cardinality(TasksOf("get", o)) - 1
          /\ Cardinality(TasksOf("get", o)) \in Nat
      BY <1>5, <3>1, <3>2, FS_RemoveElement, FS_CardinalityType
    <3>4. /\ Cardinality(Sent("0x23", o)') = Cardinality(Sent("0x23", o)) + 1
          /\ Cardinality(Sent("0x23", o)) \in Nat
      BY <1>1, <1>5, <2>3, <3>1, <3>2, FS_AddElement, FS_CardinalityType
    <3> QED BY <2>2, <3>3, <3>4
  <2>4. CASE ~(t.cmd = "get" /\ o = t.op)
    <3>1. TasksOf("get", o)' = TasksOf("get", o) /\ Sent("0x23", o)' = Sent("0x23", o)
      BY <1>1, <1>5, <2>4 DEF TasksOf
    <3> QED BY <2>2, <3>1
  <2> QED BY <2>3, <2>4
<1> QED BY <1>4, <1>6, <1>7, <1>8, <1>9, <1>10 DEF Work

\* A transfer of which no record knows ends uncounted.
LEMMA LostWork ==
  ASSUME DriveTypeOK, Work, NEW t \in tasks, Unrecorded(t),
         tasks' = tasks \ {t}, UNCHANGED <<infos, ops, session, answers, strayed>>
  PROVE  Work'
<1>1. Finite'
  BY FS_RemoveElement DEF Work, Finite
<1>2. Known' /\ OneTask' /\ OneInfo' /\ OnceEach'
  BY DEF Work, Known, OneTask, OneInfo, OnceEach
<1>3. \A c, o : TasksOf(c, o)' \subseteq TasksOf(c, o) /\ Sent(c, o)' = Sent(c, o)
  BY DEF TasksOf, Sent
<1>4. AtEnd'
  BY <1>3 DEF Work, AtEnd
<1>5. \A o : TasksOf("get", o)' = TasksOf("get", o)
  BY DEF TasksOf, Unrecorded
<1>6. AnnouncedChunks'
  BY <1>3, <1>5 DEF Work, AnnouncedChunks
<1>7. Counted'
  <2>1. ASSUME NEW i \in infos, <<i.op, i.fileid>> \notin strayed PROVE Waits(i)' = Waits(i)
    BY <2>1 DEF Waits, Unrecorded
  <2> QED BY <1>3, <2>1 DEF Work, Counted, Counts, Exact, Left, Outside
<1> QED BY <1>1, <1>2, <1>4, <1>6, <1>7 DEF Work

\* A transfer that deletes is counted in a record, its own or, strayed, another;
\* the last count closes the record.
LEMMA CountWork ==
  ASSUME DriveTypeOK, Work, NEW t \in tasks, NEW i \in infos, t.cmd \in {"del", "clear"},
         CountIn(i), tasks' = tasks \ {t}, UNCHANGED <<ops, session>>,
         \/ t \in Waits(i) /\ UNCHANGED strayed
         \/ Unrecorded(t) /\ strayed' = strayed \cup {<<i.op, i.fileid>>}
  PROVE  /\ Work' /\ IsABag(answers)' /\ infos' \subseteq Info /\ strayed' \subseteq Op \X Fileid
         /\ \A b \in BagToSet(answers') : b \in BagToSet(answers) \/ (b.cmd = "0x28" /\ b \in Answer)
<1> DEFINE j == [i EXCEPT !.deletedChunk = @ + 1]
           last == i.deletedChunk + 1 = i.numOfChunk
           a == AnswerOf("0x28", i.op, i.fileid, "NO_CHANGE")
           A == IF last THEN {a} ELSE {}
           J == IF last THEN {} ELSE {j}
<1>1. /\ infos' = (infos \ {i}) \cup J
      /\ answers' = answers (+) SetToBag(A) \/ (A = {} /\ UNCHANGED answers)
  BY DEF CountIn, Send
<1>2. /\ i.op \in Op /\ i.fileid \in Fileid
      /\ i.numOfChunk \in Nat /\ i.deletedChunk \in Nat
  BY DEF DriveTypeOK, Info
<1>3. /\ strayed \subseteq strayed'
      /\ strayed' \subseteq strayed \cup {<<i.op, i.fileid>>}
      /\ <<i.op, i.fileid>> \notin strayed' => t \in Waits(i) /\ <<i.op, i.fileid>> \notin strayed
      /\ t \in Waits(i) \/ Unrecorded(t)
  OBVIOUS
<1>4. /\ j.op = i.op /\ j.fileid = i.fileid /\ j \in Info
      /\ Left(j) = Left(i) - 1
  <2>1. i \in Info
    BY DEF DriveTypeOK
  <2>2. /\ j.op = i.op /\ j.fileid = i.fileid /\ j \in Info
        /\ j.numOfChunk = i.numOfChunk /\ j.deletedChunk = i.deletedChunk + 1
    BY <2>1 DEF Info
  <2> HIDE DEF j
  <2> QED BY <1>2, <2>2 DEF Left
<1>5. a.cmd = "0x28" /\ a.op = i.op /\ a.about = i.fileid
  BY DEF AnswerOf
<1>6. last <=> Left(i) = 1
  BY <1>2 DEF Left
<1>7. /\ a \in Answer
  <2>1. MaxFile \in Nat /\ IsFiniteSet(Chunk) /\ Chunk \in SUBSET Chunk
    BY CatalogAssumption, FiniteChunks
  <2>2. Cardinality(Chunk) \in Nat
    BY <2>1, FS_CardinalityType
  <2>3. i.fileid \in 0..(MaxFile + Cardinality(Chunk))
    BY <1>2, <2>1, <2>2 DEF Fileid
  <2> QED BY <1>2, <2>3 DEF Answer, AnswerOf, Status
<1> HIDE DEF j, last, a
<1>8. A \cap BagToSet(answers) = {}
  <2> SUFFICES ASSUME a \in BagToSet(answers) PROVE FALSE
    OBVIOUS
  <2>1. a \in Sent("0x28", i.op)
    BY <1>5 DEF Sent
  <2> QED BY <1>5, <2>1 DEF Work, Counted
<1>9. OnceEach' /\ IsABag(answers)' /\ BagToSet(answers') = BagToSet(answers) \cup A
  <2> HIDE DEF A
  <2> QED BY <1>1, <1>8, Added DEF Work
<1>10. A \subseteq {a} /\ J \subseteq {j} /\ (A # {} => J = {})
  OBVIOUS
<1>11. Finite'
  <2>1. IsFiniteSet(tasks) /\ IsFiniteSet(BagToSet(answers))
    BY DEF Work, Finite
  <2>2. IsFiniteSet(tasks \ {t})
    BY <2>1, FS_RemoveElement
  <2>3. IsFiniteSet(BagToSet(answers) \cup {a})
    BY <2>1, FS_AddElement
  <2> QED BY <1>9, <2>1, <2>2, <2>3 DEF Finite
<1>12. Known' /\ OneTask' /\ OneInfo'
  <2> HIDE DEF A, J
  <2>1. Known'
    <3>1. \A p \in strayed' : p[1] <= ops'
      BY <1>3 DEF Work, Known
    <3> QED BY <1>1, <1>4, <1>5, <1>9, <1>10, <3>1 DEF Work, Known
  <2>2. OneTask'
    BY DEF Work, OneTask
  <2>3. OneInfo'
    BY <1>1, <1>4, <1>10 DEF Work, OneInfo
  <2> QED BY <2>1, <2>2, <2>3
<1>13. ASSUME <<i.op, i.fileid>> \notin strayed'
       PROVE  /\ last => Waits(i) \ {t} = {}
              /\ ~last => Exact(j, Waits(i) \ {t})
  <2>1. t \in Waits(i) /\ IsFiniteSet(Waits(i)) /\ Exact(i, Waits(i)) /\ Left(i) \in Int
    <3>1. Waits(i) \in SUBSET tasks
      BY DEF Waits
    <3> QED BY <1>2, <1>3, <1>13, <3>1, FS_Subset DEF Work, Finite, Counted, Counts, Left
  <2>2. /\ Cardinality(Waits(i) \ {t}) = Cardinality(Waits(i)) - 1
        /\ Cardinality(Waits(i)) \in Nat /\ IsFiniteSet(Waits(i) \ {t})
    BY <2>1, FS_RemoveElement, FS_CardinalityType
  <2>3. Cardinality(Waits(i) \ {t}) \in Nat
    BY <2>2, FS_CardinalityType
  <2>4. ASSUME last PROVE Waits(i) \ {t} = {}
    <3>1. Cardinality(Waits(i) \ {t}) = 0
      BY <1>6, <2>1, <2>2, <2>3, <2>4 DEF Exact
    <3> QED BY <2>2, <3>1, FS_EmptySet
  <2>5. /\ Cardinality(Waits(i) \ {t}) <= Left(j)
        /\ Left(j) - Cardinality(Waits(i) \ {t}) = Left(i) - Cardinality(Waits(i))
    BY <1>4, <2>1, <2>2 DEF Exact
  <2> QED BY <1>4, <2>1, <2>4, <2>5 DEF Exact
<1>14. ASSUME NEW k \in infos \ {i}, <<k.op, k.fileid>> \notin strayed'
       PROVE  Waits(k)' = Waits(k) /\ <<k.op, k.fileid>> \notin strayed
  <2>1. ~(k.op = i.op /\ k.fileid = i.fileid)
    BY DEF Work, OneInfo
  <2>2. t \notin Waits(k)
    BY <1>3, <1>14, <2>1 DEF Waits, Unrecorded
  <2> QED BY <1>3, <1>14, <2>2 DEF Waits
<1>15. Waits(j)' = Waits(i) \ {t}
  BY <1>4 DEF Waits
<1>16. /\ \A c, o : TasksOf(c, o)' = TasksOf(c, o) \ {t}
       /\ \A o : TasksOf("get", o)' = TasksOf("get", o)
       /\ \A o : TasksOf("put", o)' = TasksOf("put", o)
       /\ \A c, o : c # "0x28" => Sent(c, o)' = Sent(c, o)
       /\ \A o : Sent("0x28", o)' \subseteq Sent("0x28", o) \cup A
  <2> HIDE DEF A
  <2> QED BY <1>5, <1>9, <1>10 DEF TasksOf, Sent
<1>17. Counted'
  <2>1. ASSUME NEW u \in tasks', u.cmd = "del", <<u.op, u.chunk.fileid>> \notin strayed'
        PROVE  \E k \in infos' : k.op = u.op /\ k.fileid = u.chunk.fileid
    <3>1. PICK k \in infos : k.op = u.op /\ k.fileid = u.chunk.fileid
      BY <1>3, <2>1 DEF Work, Counted
    <3>2. CASE k # i
      BY <1>1, <3>1, <3>2
    <3>3. CASE k = i
      <4>1. u \in Waits(i) \ {t}
        BY <2>1, <3>1, <3>3 DEF Waits
      <4>2. j \in infos'
        BY <1>1, <1>13, <2>1, <3>1, <3>3, <4>1
      <4> QED BY <1>4, <3>1, <3>3, <4>2
    <3> QED BY <3>2, <3>3
  <2>2. ASSUME NEW k \in infos'
        PROVE  Left(k) >= 1 /\ (<<k.op, k.fileid>> \notin strayed' => Exact(k, Waits(k)'))
    <3>1. CASE k \in infos \ {i}
      BY <1>14, <3>1 DEF Work, Counted, Counts
    <3>2. CASE k \notin infos \ {i}
      <4>1. k = j /\ ~last
        BY <1>1, <3>2
      <4>2. Left(i) >= 1 /\ Left(i) \in Int
        <5>1. Left(i) \in Int
          BY <1>2 DEF Left
        <5> QED BY <5>1 DEF Work, Counted, Counts
      <4>3. Left(j) >= 1
        BY <1>4, <1>6, <4>1, <4>2
      <4> QED BY <1>4, <1>13, <1>15, <4>1, <4>3
    <3> QED BY <3>1, <3>2
  <2>3. ASSUME NEW k \in infos', NEW b \in Sent("0x28", k.op)'
        PROVE  b.about # k.fileid
    <3>1. CASE b \in Sent("0x28", k.op)
      <4>1. \E l \in infos : l.op = k.op /\ l.fileid = k.fileid
        BY <1>1, <1>4
      <4> QED BY <3>1, <4>1 DEF Work, Counted
    <3>2. CASE b \notin Sent("0x28", k.op)
      <4>1. b = a /\ last
        BY <1>16, <3>2
      <4>2. k \in infos \ {i} /\ k.op = i.op
        BY <1>1, <1>5, <4>1 DEF Sent
      <4> QED BY <1>5, <4>1, <4>2 DEF Work, OneInfo
    <3> QED BY <3>1, <3>2
  <2> QED BY <2>1, <2>2, <2>3 DEF Counted, Counts, Exact, Left, Outside
<1>18. AtEnd'
  <2>1. ASSUME NEW o \in Op, NEW b \in Sent("0x28", o)', NEW u \in TasksOf("del", o)',
               <<o, b.about>> \notin strayed'
        PROVE  u.chunk.fileid # b.about
    <3>1. CASE b \in Sent("0x28", o)
      BY <1>3, <1>16, <2>1, <3>1 DEF Work, AtEnd
    <3>2. CASE b \notin Sent("0x28", o)
      <4>1. b = a /\ last
        BY <1>16, <3>2
      <4>2. o = i.op
        BY <1>5, <4>1 DEF Sent
      <4>3. u \notin Waits(i)
        BY <1>5, <1>13, <1>16, <2>1, <4>1, <4>2
      <4> QED BY <1>5, <1>16, <4>1, <4>2, <4>3 DEF Waits, TasksOf
    <3> QED BY <3>1, <3>2
  <2> QED BY <1>16, <2>1 DEF Work, AtEnd
<1>19. AnnouncedChunks'
  BY <1>16 DEF Work, AnnouncedChunks
<1>20. Work'
  BY <1>9, <1>11, <1>12, <1>17, <1>18, <1>19 DEF Work
<1>21. infos' \subseteq Info /\ strayed' \subseteq Op \X Fileid
  BY <1>1, <1>2, <1>3, <1>4, <1>10 DEF DriveTypeOK
<1> QED BY <1>5, <1>7, <1>9, <1>10, <1>20, <1>21

-----------------------------------------------------------------------------
(* What the cloud drives hold. *)

Succeeds(a) == a.cmd = "0x21" /\ a.status \in {"INSERT", "UPDATE"}

\* Saves stay durable if no other transfer gets to write their chunks.
LEMMA KeepsStore ==
  ASSUME DriveTypeOK, Settled, Durable, ops' \in {ops, ops + 1}, UNCHANGED lastPut,
         Rows' \subseteq Rows,
         \A t \in tasks' : t.cmd # "get" =>
           \/ \E u \in tasks : u.cmd = t.cmd /\ u.op = t.op /\ u.chunk = t.chunk
           \/ t.cmd # "put" /\ t.chunk \notin Rows',
         \A c \in Rows' : lastPut[c] # 0 => store'[c] \in {store[c], lastPut[c]},
         \A c \in Rows' : \A a \in BagToSet(answers') :
           lastPut[c] # 0 /\ Succeeds(a) /\ a.op = lastPut[c] =>
             a \in BagToSet(answers) \/ store'[c] = lastPut[c]
  PROVE  Settled' /\ Durable'
<1>1. ASSUME NEW c \in Rows', lastPut'[c] # 0, NEW t \in Writes(c)'
      PROVE  t.cmd = "put" /\ t.op = lastPut'[c]
  <2>1. t \in tasks' /\ t.chunk = c /\ t.cmd # "get"
    BY DEF Writes
  <2>2. PICK u \in tasks : u.cmd = t.cmd /\ u.op = t.op /\ u.chunk = t.chunk
    BY <2>1
  <2>3. u \in Writes(c) /\ c \in Rows
    BY <2>1, <2>2 DEF Writes
  <2> QED BY <1>1, <2>2, <2>3 DEF Settled
<1>2. ASSUME NEW c \in Chunk
      PROVE  /\ lastPut'[c] <= ops'
             /\ \A t \in tasks' : t.cmd = "put" /\ t.op = lastPut'[c] => t.chunk = c
  <2>1. lastPut[c] <= ops /\ lastPut[c] \in Int /\ ops \in Int
    BY DriveAssumption DEF DriveTypeOK, Settled
  <2>2. lastPut'[c] <= ops'
    BY <2>1
  <2>3. ASSUME NEW t \in tasks', t.cmd = "put", t.op = lastPut'[c] PROVE t.chunk = c
    <3>1. PICK u \in tasks : u.cmd = t.cmd /\ u.op = t.op /\ u.chunk = t.chunk
      BY <2>3
    <3> QED BY <2>3, <3>1 DEF Settled
  <2> QED BY <2>2, <2>3
<1>3. Settled'
  BY <1>1, <1>2 DEF Settled
<1>4. Durable'
  <2> SUFFICES ASSUME NEW c \in Rows', lastPut[c] # 0,
                      NEW a \in Sent("0x21", lastPut[c])', a.status \in {"INSERT", "UPDATE"}
               PROVE  store'[c] = lastPut[c]
    BY DEF Durable, Sent
  <2>1. a \in BagToSet(answers') /\ Succeeds(a) /\ a.op = lastPut[c]
    BY DEF Sent, Succeeds
  <2>2. CASE a \in BagToSet(answers)
    <3>1. store[c] = lastPut[c]
      BY <2>1, <2>2 DEF Durable, Sent, Succeeds
    <3> QED BY <3>1
  <2>3. CASE a \notin BagToSet(answers)
    BY <2>1, <2>3
  <2> QED BY <2>2, <2>3
<1> QED BY <1>3, <1>4

-----------------------------------------------------------------------------
(* Requests. *)

\* Transfers of different chunks are as many as the chunks.
LEMMA ByChunk ==
  ASSUME NEW N, NEW cs \in SUBSET Chunk, \A t \in N : t.chunk \in cs,
         \A t, u \in N : t.chunk = u.chunk => t = u
  PROVE  /\ IsFiniteSet(N) /\ Cardinality(N) <= Cardinality(cs)
         /\ (\A c \in cs : \E t \in N : t.chunk = c) => Cardinality(N) = Cardinality(cs)
<1> DEFINE f == [t \in N |-> t.chunk]
<1>1. IsFiniteSet(cs)
  BY FiniteChunks
<1>2. f \in [N -> cs] /\ \A t, u \in N : f[t] = f[u] => t = u
  OBVIOUS
<1>3. (\A c \in cs : \E t \in N : t.chunk = c) => \A c \in cs : \E t \in N : f[t] = c
  OBVIOUS
<1> HIDE DEF f
<1>4. f \in Injection(N, cs)
  BY <1>2 DEF Injection, IsInjective
<1>5. /\ IsFiniteSet(N) /\ Cardinality(N) <= Cardinality(cs)
      /\ Cardinality(N) = Cardinality(cs) <=> f \in Surjection(N, cs)
  BY <1>1, <1>4, FS_Injection
<1>6. (\A c \in cs : \E t \in N : t.chunk = c) => f \in Surjection(N, cs)
  BY <1>2, <1>3 DEF Surjection
<1> QED BY <1>5, <1>6

LEMMA AnswerTypes ==
  ASSUME NEW op \in Op, NEW status \in Status
  PROVE  /\ \A cmd \in {"0x21", "0x23"}, c \in Chunk : ChunkAnswer(cmd, op, c, status) \in Answer
         /\ \A cmd \in {"0x20", "0x22", "0x28"} :
              /\ \A f \in 0..MaxFile : AnswerOf(cmd, op, f, status) \in Answer
              /\ \A cs \in SUBSET Chunk : AnswerOf(cmd, op, Cardinality(cs), status) \in Answer
<1>1. MaxFile \in Nat /\ IsFiniteSet(Chunk) /\ Chunk \in SUBSET Chunk
  BY CatalogAssumption, FiniteChunks
<1>2. Cardinality(Chunk) \in Nat
  BY <1>1, FS_CardinalityType
<1>3. \A f \in 0..MaxFile : f \in 0..(MaxFile + Cardinality(Chunk))
  BY <1>1, <1>2
<1>4. ASSUME NEW cs \in SUBSET Chunk
      PROVE  Cardinality(cs) \in 0..(MaxFile + Cardinality(Chunk))
  <2>1. IsFiniteSet(cs) /\ Cardinality(cs) <= Cardinality(Chunk)
    BY <1>1, FS_Subset
  <2>2. Cardinality(cs) \in Nat
    BY <2>1, FS_CardinalityType
  <2> QED BY <1>1, <1>2, <2>1, <2>2
<1>5. \A cmd \in {"0x21", "0x23"}, c \in Chunk : ChunkAnswer(cmd, op, c, status) \in Answer
  BY DEF ChunkAnswer, Answer
<1>6. ASSUME NEW cmd \in {"0x20", "0x22", "0x28"}, NEW x \in 0..(MaxFile + Cardinality(Chunk))
      PROVE  AnswerOf(cmd, op, x, status) \in Answer
  BY DEF AnswerOf, Answer
<1> QED BY <1>3, <1>4, <1>5, <1>6

LEMMA NewTaskTypes ==
  ASSUME NEW cmd \in {"put", "get", "del", "clear"}, NEW op \in Op, NEW c \in Chunk,
         NEW status \in Status, NEW dir \in {"known", "wrong", "null"}
  PROVE  LET t == NewTask(cmd, op, c, status, dir) IN
         /\ t \in Task /\ t.cmd = cmd /\ t.op = op /\ t.chunk = c /\ t.dir = dir
BY DriveAssumption DEF NewTask, Task

\* A request keeps what is said of types, tables and work, if its share does.
LEMMA RequestInv ==
  ASSUME DriveInv, NEW op \in Op, Receive(op), UNCHANGED session, IInv',
         NEW N \in SUBSET Task, NEW M \in SUBSET Info, NEW A \in SUBSET Answer,
         tasks' = tasks \cup N, infos' = infos \cup M,
         answers' = answers (+) SetToBag(A) \/ (A = {} /\ UNCHANGED answers),
         bound' \in BOOLEAN, UNCHANGED <<store, strayed>>, lastPut' \in [Chunk -> 0..MaxOps],
         Share(op, N, M, A)
  PROVE  /\ IInv' /\ DriveTypeOK' /\ Work'
         /\ BagToSet(answers') = BagToSet(answers) \cup A
<1>1. /\ DriveTypeOK /\ Work /\ ops \in Int /\ session \in 0..ops
      /\ op = ops + 1 /\ op \in Int /\ op <= MaxOps /\ ops' = op
  <2>1. DriveTypeOK /\ Work
    BY DEF DriveInv
  <2>2. ops \in Int /\ session \in 0..ops /\ op \in Int
    BY <2>1, DriveAssumption DEF DriveTypeOK, Op
  <2> QED BY <2>1, <2>2 DEF Receive
<1>2. A \cap BagToSet(answers) = {}
  <2> SUFFICES ASSUME NEW a \in A, a \in BagToSet(answers) PROVE FALSE
    OBVIOUS
  <2>1. a.op <= ops /\ a.op = ops + 1
    BY <1>1 DEF Work, Known, Share
  <2> QED BY <1>1, <2>1
<1>3. OnceEach' /\ IsABag(answers)' /\ BagToSet(answers') = BagToSet(answers) \cup A
  BY <1>1, <1>2, Added DEF Work
<1>5. Work'
  BY <1>1, <1>3, RequestWork
<1>6. DriveTypeOK'
  <2>1. TypeOK'
    BY DEF IInv
  <2>2. ops' \in 0..MaxOps /\ session' \in 0..ops'
    BY <1>1, DriveAssumption DEF DriveTypeOK
  <2>3. tasks' \subseteq Task /\ infos' \subseteq Info
    BY <1>1 DEF DriveTypeOK
  <2>4. BagToSet(answers)' \subseteq Answer
    BY <1>1, <1>3 DEF DriveTypeOK
  <2>5. store' \in [Chunk -> 0..MaxOps] /\ strayed' \subseteq Op \X Fileid
    BY <1>1 DEF DriveTypeOK
  <2> QED BY <1>3, <2>1, <2>2, <2>3, <2>4, <2>5 DEF DriveTypeOK
<1> QED BY <1>3, <1>5, <1>6

\* A request that starts no transfer.
LEMMA PlainRequest ==
  ASSUME DriveInv, NEW op \in Op, Receive(op), IInv',
         UNCHANGED <<filechunk, sessionVars, work, lastPut>>,
         \/ UNCHANGED answers
         \/ \E a \in Answer : a.op = op /\ a.cmd \in {"0x20", "0x21"} /\ Send(a)
  PROVE  DriveInv'
<1>1. PICK A \in SUBSET Answer :
        /\ IsFiniteSet(A)
        /\ answers' = answers (+) SetToBag(A) \/ (A = {} /\ UNCHANGED answers)
        /\ \A a \in A : a.op = op /\ a.cmd \in {"0x20", "0x21"}
  <2>1. CASE UNCHANGED answers
    BY <2>1, FS_EmptySet
  <2>2. CASE \E a \in Answer : a.op = op /\ a.cmd \in {"0x20", "0x21"} /\ Send(a)
    <3>1. PICK a \in Answer : a.op = op /\ a.cmd \in {"0x20", "0x21"} /\ Send(a)
      BY <2>2
    <3>2. IsFiniteSet({a}) /\ {a} \in SUBSET Answer
      BY FS_Singleton
    <3> QED BY <3>1, <3>2 DEF Send
  <2> QED BY <2>1, <2>2
<1>2. /\ tasks' = tasks \cup {} /\ infos' = infos \cup {} /\ UNCHANGED <<store, strayed, session, lastPut>>
      /\ bound' \in BOOLEAN /\ lastPut' \in [Chunk -> 0..MaxOps]
      /\ {} \in SUBSET Task /\ {} \in SUBSET Info
  BY DEF DriveInv, DriveTypeOK, sessionVars, work
<1> HIDE DEF DriveInv, DriveTypeOK
<1>3. Share(op, {}, {}, A)
  BY <1>1, FS_EmptySet DEF Share
<1>4. IInv' /\ DriveTypeOK' /\ Work' /\ BagToSet(answers') = BagToSet(answers) \cup A
  BY <1>1, <1>2, <1>3, RequestInv
<1>5. /\ DriveTypeOK /\ Settled /\ Durable /\ ops' \in {ops, ops + 1} /\ Rows' = Rows
      /\ tasks' = tasks
  BY DEF DriveInv, Receive, Rows, work
<1>6. ASSUME NEW c \in Rows PROVE lastPut[c] # op
  <2>1. lastPut[c] <= ops /\ ops \in Int /\ op = ops + 1
    BY <1>5, DriveAssumption DEF Settled, DriveTypeOK, Receive, Rows
  <2> QED BY <2>1
<1>7. Settled' /\ Durable'
  BY <1>1, <1>2, <1>4, <1>5, <1>6, KeepsStore
<1> QED BY <1>4, <1>7 DEF DriveInv

LEMMA DeniedInv ==
  ASSUME DriveInv, NEW op \in Op, Denied(op)
  PROVE  DriveInv'
<1>1. /\ Receive(op) /\ UNCHANGED <<tables, filechunk, sessionVars, work, lastPut>>
      /\ [Next]_tables
  BY DEF Denied, tables
<1>2. IInv'
  BY <1>1, NextInv DEF DriveInv
<1>3. "NO_CHANGE" \in Status /\ "DENIED" \in Status
  BY DEF Status
<1>4. CASE \E f \in 0..MaxFile : Send(AnswerOf("0x20", op, f, "NO_CHANGE"))
  <2>1. PICK f \in 0..MaxFile : Send(AnswerOf("0x20", op, f, "NO_CHANGE"))
    BY <1>4
  <2> DEFINE a == AnswerOf("0x20", op, f, "NO_CHANGE")
  <2>2. a \in Answer
    BY <1>3, AnswerTypes
  <2>3. a.op = op /\ a.cmd = "0x20"
    BY DEF AnswerOf
  <2> HIDE DEF a
  <2>4. Send(a)
    BY <2>1 DEF a
  <2> QED BY <1>1, <1>2, <2>2, <2>3, <2>4, PlainRequest
<1>5. CASE \E c \in Chunk : Send(ChunkAnswer("0x21", op, c, "DENIED"))
  <2>1. PICK c \in Chunk : Send(ChunkAnswer("0x21", op, c, "DENIED"))
    BY <1>5
  <2> DEFINE a == ChunkAnswer("0x21", op, c, "DENIED")
  <2>2. a \in Answer
    BY <1>3, AnswerTypes
  <2>3. a.op = op /\ a.cmd = "0x21"
    BY DEF ChunkAnswer
  <2> HIDE DEF a
  <2>4. Send(a)
    BY <2>1 DEF a
  <2> QED BY <1>1, <1>2, <2>2, <2>3, <2>4, PlainRequest
<1>6. CASE UNCHANGED answers
  BY <1>1, <1>2, <1>6, PlainRequest
<1> QED BY <1>4, <1>5, <1>6 DEF Denied

LEMMA ReadCreateFileInv ==
  ASSUME DriveInv, NEW op \in Op, NEW p \in Parents, NEW n \in Size, ReadCreateFile(op, p, n)
  PROVE  DriveInv'
<1> DEFINE a == AnswerOf("0x20", op, 0, "LD_LIMIT")
           b == AnswerOf("0x20", op, NextFileid, "INSERT")
<1>1. Receive(op) /\ UNCHANGED <<filechunk, sessionVars, work, lastPut>>
  BY DEF ReadCreateFile, CreateFile, tables
<1>2. IInv'
  <2>1. [Next]_tables
    BY DEF ReadCreateFile, Next
  <2> QED BY <2>1, NextInv DEF DriveInv
<1>3. "LD_LIMIT" \in Status /\ "INSERT" \in Status /\ MaxFile \in Nat
  BY CatalogAssumption DEF Status
<1>4. a.op = op /\ a.cmd = "0x20" /\ b.op = op /\ b.cmd = "0x20"
  BY DEF AnswerOf
<1>5. a \in Answer
  <2>1. 0 \in 0..MaxFile
    BY <1>3
  <2> QED BY <1>3, <2>1, AnswerTypes
<1>6. CreateFile(p, n) => b \in Answer
  <2> SUFFICES ASSUME CreateFile(p, n) PROVE b \in Answer
    OBVIOUS
  <2>1. IsFiniteSet(Files \cup {0}) /\ Files \cup {0} \subseteq Int /\ Files \cup {0} # {}
    BY RowSizes, FiniteFiles, FS_AddElement DEF DriveInv, IInv, Fileid
  <2>2. Max(Files \cup {0}) \in Int /\ 0 <= Max(Files \cup {0})
    BY <2>1, MaxProperties
  <2>3. NextFileid = Max(Files \cup {0}) + 1 /\ NextFileid <= MaxFile
    BY DEF CreateFile, NextFileid
  <2>4. NextFileid \in 0..MaxFile
    BY <1>3, <2>2, <2>3
  <2> QED BY <1>3, <2>4, AnswerTypes
<1>7. Send(a) \/ (CreateFile(p, n) /\ Send(b))
  BY DEF ReadCreateFile
<1> HIDE DEF a, b
<1>8. \E x \in Answer : x.op = op /\ x.cmd \in {"0x20", "0x21"} /\ Send(x)
  BY <1>4, <1>5, <1>6, <1>7
<1> QED BY <1>1, <1>2, <1>8, PlainRequest

LEMMA ReadUpdateFileInv ==
  ASSUME DriveInv, NEW op \in Op, NEW f \in Fileid, NEW p \in Parents, NEW n \in Size,
         ReadUpdateFile(op, f, p, n)
  PROVE  DriveInv'
<1> DEFINE A == {AnswerOf("0x20", op, g, status) :
                 g \in {0, f}, status \in {"LD_LIMIT", "UPDATE", "NO_CHANGE"}}
<1>1. Receive(op) /\ UNCHANGED <<filechunk, sessionVars, work, lastPut>>
  BY DEF ReadUpdateFile, UpdateFile, tables
<1>2. IInv'
  <2>1. [Next]_tables
    BY DEF ReadUpdateFile, Next
  <2> QED BY <2>1, NextInv DEF DriveInv
<1>3. ASSUME NEW a \in A PROVE a \in Answer /\ a.op = op /\ a.cmd = "0x20"
  <2>1. PICK g \in {0, f}, status \in {"LD_LIMIT", "UPDATE", "NO_CHANGE"} :
          a = AnswerOf("0x20", op, g, status)
    OBVIOUS
  <2>2. status \in Status /\ g \in 0..MaxFile
    BY CatalogAssumption DEF Status, Fileid
  <2>3. a \in Answer
    BY <2>1, <2>2, AnswerTypes
  <2> QED BY <2>1, <2>3 DEF AnswerOf
<1>4. PICK a \in A : Send(a)
  BY DEF ReadUpdateFile
<1> HIDE DEF A
<1>5. \E x \in Answer : x.op = op /\ x.cmd \in {"0x20", "0x21"} /\ Send(x)
  BY <1>3, <1>4
<1> QED BY <1>1, <1>2, <1>5, PlainRequest

\* The end of a session leaves tables and answers as they are; a deletion that
\* crashes may have had its effect.
LEMMA EndSessionInv ==
  ASSUME DriveInv, EndSession, UNCHANGED <<tables, answers, lastPut, strayed>>,
         \/ UNCHANGED store
         \/ \E t \in tasks : /\ t.cmd \in {"del", "clear"}
                            /\ store' = [store EXCEPT ![t.chunk] = 0],
         ops' \in {ops, ops + 1}, ops' <= MaxOps
  PROVE  DriveInv'
<1>1. /\ DriveTypeOK /\ Work /\ Settled /\ Durable /\ tasks' = {} /\ Rows' = Rows
      /\ IInv'
  <2>1. IInv'
    BY NextInv DEF DriveInv
  <2> QED BY <2>1 DEF DriveInv, EndSession, tables, Rows
<1>2. Work'
  BY <1>1, EndWork
<1>3. Settled' /\ Durable'
  <2>1. ASSUME NEW c \in Rows, lastPut[c] # 0 PROVE store'[c] = store[c]
    <3>1. ASSUME NEW t \in tasks, t.cmd \in {"del", "clear"} PROVE t.chunk # c
      BY <1>1, <2>1, <3>1 DEF Settled, Writes
    <3>2. c \in Chunk /\ store \in [Chunk -> 0..MaxOps]
      BY <1>1 DEF Rows, DriveTypeOK
    <3> QED BY <3>1, <3>2
  <2> QED BY <1>1, <2>1, KeepsStore
<1>4. DriveTypeOK'
  <2>1. TypeOK'
    BY <1>1 DEF IInv
  <2>2. ops' \in 0..MaxOps
    BY <1>1, DriveAssumption DEF DriveTypeOK
  <2>3. session' \in 0..ops'
    BY <2>2 DEF EndSession
  <2>4. store' \in [Chunk -> 0..MaxOps]
    BY <1>1, DriveAssumption DEF DriveTypeOK
  <2> QED BY <1>1, <2>1, <2>2, <2>3, <2>4 DEF DriveTypeOK, EndSession
<1> QED BY <1>1, <1>2, <1>3, <1>4 DEF DriveInv

LEMMA DiesInv ==
  ASSUME DriveInv, NEW op \in Op, Dies(op)
  PROVE  DriveInv'
<1>1. ops' \in {ops, ops + 1} /\ ops' <= MaxOps
  BY DEF Dies, Receive
<1> QED BY <1>1, EndSessionInv DEF Dies

LEMMA DisconnectInv ==
  ASSUME DriveInv, Disconnect
  PROVE  DriveInv'
<1>1. ops' \in {ops, ops + 1} /\ ops' <= MaxOps
  BY DriveAssumption DEF Disconnect, DriveInv, DriveTypeOK
<1> QED BY <1>1, EndSessionInv DEF Disconnect

LEMMA DirType ==
  ASSUME NEW c
  PROVE  Dir(c) \in {"known", "wrong", "null"} /\ (Dir(c) = "known" <=> c.cdid \in InDrive)
         /\ Dir(c) # "wrong"
BY DEF Dir

\* A save that finds no other writer of its chunk will be durable once answered.
LEMMA ReadSaveFileInv ==
  ASSUME DriveInv, NEW op \in Op, NEW c \in Chunk, NEW n \in Size, ReadSaveFile(op, c, n)
  PROVE  DriveInv'
<1>1. Receive(op) /\ UNCHANGED <<sessionVars, infos, store, strayed>>
  BY DEF ReadSaveFile
<1>2. IInv'
  <2>1. [Next]_tables
    BY DEF ReadSaveFile, Next
  <2> QED BY <2>1, NextInv DEF DriveInv
<1>3. CASE Send(ChunkAnswer("0x21", op, c, "ZERO")) /\ UNCHANGED <<tables, tasks, lastPut>>
  <2> DEFINE a == ChunkAnswer("0x21", op, c, "ZERO")
  <2>1. "ZERO" \in Status
    BY DEF Status
  <2>2. a \in Answer
    BY <2>1, AnswerTypes
  <2>3. a.op = op /\ a.cmd = "0x21"
    BY DEF ChunkAnswer
  <2> HIDE DEF a
  <2>4. Send(a)
    BY <1>3 DEF a
  <2>5. UNCHANGED <<filechunk, sessionVars, work, lastPut>>
    BY <1>1, <1>3 DEF tables, work
  <2> QED BY <1>1, <1>2, <2>2, <2>3, <2>4, <2>5, PlainRequest
<1>4. CASE /\ SaveChunk(c, n)
           /\ \E status \in {"INSERT", "UPDATE"} :
                tasks' = tasks \cup {NewTask("put", op, c, status, Dir(c))}
           /\ lastPut' = [lastPut EXCEPT ![c] = IF Writes(c) = {} THEN op ELSE 0]
           /\ UNCHANGED answers
  <2>1. PICK status \in {"INSERT", "UPDATE"} :
               tasks' = tasks \cup {NewTask("put", op, c, status, Dir(c))}
    BY <1>4
  <2> DEFINE t == NewTask("put", op, c, status, Dir(c))
  <2>2. t \in Task /\ t.cmd = "put" /\ t.op = op /\ t.chunk = c
    <3>1. status \in Status
      BY DEF Status
    <3> QED BY <3>1, DirType, NewTaskTypes
  <2> HIDE DEF t
  <2>3. tasks' = tasks \cup {t} /\ infos' = infos \cup {}
    BY <1>1, <2>1 DEF t
  <2>4. /\ DriveTypeOK /\ Work /\ Settled /\ Durable
        /\ lastPut \in [Chunk -> 0..MaxOps] /\ op \in 0..MaxOps /\ op # 0
        /\ ops \in Int /\ op \in Int /\ op = ops + 1 /\ ops' = op
    BY <1>1, DriveAssumption DEF DriveInv, DriveTypeOK, Op, Receive
  <2>5. Share(op, {t}, {}, {})
    BY <2>2, FS_EmptySet, FS_Singleton DEF Share
  <2>6. DriveTypeOK' /\ Work'
    <3>1. bound' \in BOOLEAN /\ UNCHANGED <<session, store, strayed>>
      BY <1>1, <2>4 DEF sessionVars, DriveTypeOK
    <3>2. (IF Writes(c) = {} THEN op ELSE 0) \in 0..MaxOps
      BY <2>4, DriveAssumption
    <3>3. lastPut' \in [Chunk -> 0..MaxOps]
      BY <1>4, <2>4, <3>2
    <3>4. {t} \in SUBSET Task /\ {} \in SUBSET Info /\ {} \in SUBSET Answer
      BY <2>2
    <3> QED BY <1>1, <1>2, <1>4, <2>3, <2>5, <3>1, <3>3, <3>4, RequestInv
  <2>7. /\ lastPut'[c] = IF Writes(c) = {} THEN op ELSE 0
        /\ \A d \in Chunk \ {c} : lastPut'[d] = lastPut[d]
        /\ \A d \in Chunk \ {c} : d \in Rows' <=> d \in Rows
        /\ \A d \in Chunk \ {c} : Writes(d)' = Writes(d)
        /\ Writes(c)' = Writes(c) \cup {t}
        /\ Rows' \subseteq Chunk
    <3>1. /\ lastPut'[c] = IF Writes(c) = {} THEN op ELSE 0
          /\ \A d \in Chunk \ {c} : lastPut'[d] = lastPut[d]
      BY <1>4, <2>4
    <3>2. \A d \in Chunk \ {c} : filechunk'[d] = filechunk[d]
      BY <1>4 DEF SaveChunk, DriveTypeOK, DriveInv, TypeOK
    <3>3. (\A d \in Chunk \ {c} : d \in Rows' <=> d \in Rows) /\ Rows' \subseteq Chunk
      BY <3>2 DEF Rows
    <3>4. /\ \A d \in Chunk \ {c} : Writes(d)' = Writes(d)
          /\ Writes(c)' = Writes(c) \cup {t}
      BY <2>2, <2>3 DEF Writes
    <3> QED BY <3>1, <3>3, <3>4
  <2>8. \A d \in Chunk : lastPut[d] <= ops /\ lastPut[d] \in Int
    BY <2>4 DEF Settled
  <2>9. ASSUME NEW u \in tasks PROVE u.op # op
    <3>1. u.op <= ops
      BY <2>4 DEF Work, Known
    <3> QED BY <2>4, <3>1
  <2>10. Settled'
    <3>1. ASSUME NEW d \in Rows', lastPut'[d] # 0, NEW u \in Writes(d)'
          PROVE  u.cmd = "put" /\ u.op = lastPut'[d]
      <4>1. CASE d = c
        <5>1. u = t /\ lastPut'[c] = op
          BY <2>7, <3>1, <4>1
        <5> QED BY <2>2, <4>1, <5>1
      <4>2. CASE d # c
        BY <2>4, <2>7, <3>1, <4>2 DEF Settled
      <4> QED BY <4>1, <4>2
    <3>2. ASSUME NEW d \in Chunk PROVE lastPut'[d] <= ops'
      <4>1. CASE d = c
        BY <2>4, <2>7, <4>1, DriveAssumption DEF DriveTypeOK
      <4>2. CASE d # c
        BY <2>4, <2>7, <2>8, <4>2
      <4> QED BY <4>1, <4>2
    <3>3. ASSUME NEW d \in Chunk, NEW u \in tasks', u.cmd = "put", u.op = lastPut'[d]
          PROVE  u.chunk = d
      <4>1. CASE u = t
        <5>1. lastPut'[d] = op
          BY <2>2, <3>3, <4>1
        <5>2. d = c
          BY <2>4, <2>7, <2>8, <5>1
        <5> QED BY <2>2, <4>1, <5>2
      <4>2. CASE u # t
        <5>1. u \in tasks
          BY <2>3, <4>2
        <5>2. CASE d = c
          <6>1. u.op \in Op
            BY <5>1, TaskFacts, <2>4
          <6>2. u.op # 0 /\ u.op # op
            BY <2>9, <5>1, <6>1, DriveAssumption DEF Op
          <6> QED BY <2>7, <3>3, <5>2, <6>2
        <5>3. CASE d # c
          BY <2>4, <2>7, <3>3, <5>1, <5>3 DEF Settled
        <5> QED BY <5>2, <5>3
      <4> QED BY <4>1, <4>2
    <3> QED BY <3>1, <3>2, <3>3 DEF Settled
  <2>11. Durable'
    <3> SUFFICES ASSUME NEW d \in Rows', lastPut'[d] # 0,
                        NEW a \in Sent("0x21", lastPut[d])', a.status \in {"INSERT", "UPDATE"}
                 PROVE  store'[d] = lastPut'[d]
      BY DEF Durable
    <3>1. a \in BagToSet(answers) /\ a.op = lastPut'[d] /\ a.cmd = "0x21"
      BY <1>4 DEF Sent
    <3>2. a.op <= ops
      BY <2>4, <3>1 DEF Work, Known
    <3>3. lastPut'[d] # op
      BY <2>4, <3>1, <3>2
    <3>4. d # c
      BY <2>7, <3>3
    <3>5. store[d] = lastPut[d]
      BY <2>4, <2>7, <3>1, <3>4 DEF Durable, Sent
    <3> QED BY <1>1, <2>7, <3>4, <3>5
  <2> QED BY <1>2, <2>6, <2>10, <2>11 DEF DriveInv
<1>5. (n = 0 /\ Send(ChunkAnswer("0x21", op, c, "ZERO")) /\ UNCHANGED <<tables, tasks, lastPut>>)
      \/ (/\ SaveChunk(c, n)
          /\ LET status == IF filechunk[c] \in {0, n} THEN "INSERT" ELSE "UPDATE" IN
             tasks' = tasks \cup {NewTask("put", op, c, status, Dir(c))}
          /\ lastPut' = [lastPut EXCEPT ![c] = IF Writes(c) = {} THEN op ELSE 0]
          /\ UNCHANGED answers)
  BY DEF ReadSaveFile
<1> QED BY <1>3, <1>4, <1>5

\* As many transfers as chunks announced.
LEMMA ReadGetFileInv ==
  ASSUME DriveInv, NEW op \in Op, NEW f \in Fileid, ReadGetFile(op, f)
  PROVE  DriveInv'
<1> DEFINE N == {NewTask("get", op, c, "NO_CHANGE", Dir(c)) : c \in ChunksOf(f)}
           a == AnswerOf("0x22", op, Cardinality(ChunksOf(f)), "NO_CHANGE")
<1>1. /\ Receive(op) /\ UNCHANGED <<tables, session, bound, infos, store, lastPut, strayed>>
      /\ tasks' = tasks \cup N /\ Send(a) /\ infos' = infos \cup {}
  BY DEF ReadGetFile, sessionVars
<1>2. IInv'
  BY <1>1, NextInv DEF DriveInv
<1>3. "NO_CHANGE" \in Status /\ ChunksOf(f) \in SUBSET Chunk
  BY DEF Status, ChunksOf, Rows
<1>4. /\ \A t \in N : t \in Task /\ t.cmd = "get" /\ t.op = op /\ t.chunk \in ChunksOf(f)
      /\ \A t, u \in N : t.chunk = u.chunk => t = u
      /\ \A c \in ChunksOf(f) : \E t \in N : t.chunk = c
  <2>1. ASSUME NEW c \in ChunksOf(f)
        PROVE  LET t == NewTask("get", op, c, "NO_CHANGE", Dir(c)) IN
               t \in Task /\ t.cmd = "get" /\ t.op = op /\ t.chunk = c
    <3>1. c \in Chunk /\ Dir(c) \in {"known", "wrong", "null"}
      BY <1>3, DirType
    <3> QED BY <1>3, <3>1, NewTaskTypes
  <2> QED BY <2>1
<1>5. a \in Answer /\ a.op = op /\ a.cmd = "0x22" /\ a.about = Cardinality(ChunksOf(f))
  <2>1. a \in Answer
    BY <1>3, AnswerTypes
  <2> QED BY <2>1 DEF AnswerOf
<1> HIDE DEF N, a
<1>6. Share(op, N, {}, {a})
  <2>1. IsFiniteSet(N) /\ Cardinality(N) = Cardinality(ChunksOf(f)) /\ IsFiniteSet({a})
    BY <1>3, <1>4, ByChunk, FS_Singleton
  <2>2. {t \in N : t.cmd = "get"} = N
    BY <1>4
  <2> QED BY <1>4, <1>5, <2>1, <2>2 DEF Share
<1>7. /\ DriveTypeOK' /\ Work' /\ BagToSet(answers') = BagToSet(answers) \cup {a}
  <2>1. /\ N \in SUBSET Task /\ {} \in SUBSET Info /\ {a} \in SUBSET Answer
        /\ answers' = answers (+) SetToBag({a})
        /\ lastPut' \in [Chunk -> 0..MaxOps] /\ bound' \in BOOLEAN
    BY <1>1, <1>4, <1>5 DEF Send, DriveInv, DriveTypeOK
  <2> QED BY <1>1, <1>2, <1>6, <2>1, RequestInv
<1>8. Settled' /\ Durable'
  <2>1. /\ DriveTypeOK /\ Settled /\ Durable /\ ops' \in {ops, ops + 1} /\ Rows' = Rows
    BY <1>1 DEF DriveInv, Receive, Rows, tables
  <2>2. /\ \A t \in tasks' : t.cmd # "get" => t \in tasks
        /\ \A b \in BagToSet(answers') : Succeeds(b) => b \in BagToSet(answers)
    BY <1>1, <1>4, <1>5, <1>7 DEF Succeeds
  <2> QED BY <1>1, <2>1, <2>2, KeepsStore
<1> QED BY <1>2, <1>7, <1>8 DEF DriveInv

\* The chunks a deleted file counts in vain are outside the logical drive.
LEMMA HandledChunks ==
  ASSUME NEW g \in Fileid
  PROVE  /\ ChunksOf(g) \in SUBSET Chunk /\ Handled(g) \in SUBSET ChunksOf(g)
         /\ Cardinality(ChunksOf(g)) \in Nat /\ Cardinality(Handled(g)) \in Nat
         /\ Cardinality(Handled(g)) <= Cardinality(ChunksOf(g))
         /\ Cardinality(ChunksOf(g)) - Cardinality(Handled(g)) <= Cardinality(Outside(g))
         /\ ChunksOf(g) # {} => Cardinality(ChunksOf(g)) >= 1
<1> DEFINE R == ChunksOf(g) \ Handled(g)
<1>1. /\ ChunksOf(g) \in SUBSET Chunk /\ Handled(g) \in SUBSET ChunksOf(g)
      /\ Outside(g) \in SUBSET Chunk /\ R \in SUBSET Outside(g)
  BY DEF ChunksOf, Handled, Outside, Rows
<1>2. IsFiniteSet(ChunksOf(g)) /\ IsFiniteSet(Handled(g)) /\ IsFiniteSet(Outside(g))
  BY <1>1, FiniteChunks, FS_Subset
<1>3. /\ Cardinality(ChunksOf(g)) \in Nat /\ Cardinality(Handled(g)) \in Nat
      /\ Cardinality(Outside(g)) \in Nat
      /\ ChunksOf(g) # {} => Cardinality(ChunksOf(g)) # 0
  BY <1>2, FS_CardinalityType, FS_EmptySet
<1>4. Cardinality(Handled(g)) <= Cardinality(ChunksOf(g)) /\ Cardinality(R) <= Cardinality(Outside(g))
  BY <1>1, <1>2, FS_Subset
<1>5. /\ Cardinality(R) = Cardinality(ChunksOf(g)) - Cardinality(ChunksOf(g) \cap Handled(g))
  BY <1>2, FS_Difference
<1>6. ChunksOf(g) \cap Handled(g) = Handled(g)
  BY <1>1
<1> HIDE DEF R
<1>7. Cardinality(R) = Cardinality(ChunksOf(g)) - Cardinality(Handled(g))
  BY <1>5, <1>6
<1> QED BY <1>1, <1>3, <1>4, <1>7

LEMMA ReadDelFileInv ==
  ASSUME DriveInv, NEW op \in Op, NEW f \in Fileid \cup Parents, ReadDelFile(op, f)
  PROVE  DriveInv'
<1> DEFINE S == Subtree(f)
           empty == {g \in S : ChunksOf(g) = {}}
           H == UNION {Handled(g) : g \in S}
           Rec(g) == [op |-> op, fileid |-> g,
                      numOfChunk |-> Cardinality(ChunksOf(g)), deletedChunk |-> 0]
           N == {NewTask("del", op, c, "NO_CHANGE", "known") : c \in H}
           M == {Rec(g) : g \in S \ empty}
           A == {AnswerOf("0x28", op, g, "NO_CHANGE") : g \in empty}
<1>1. /\ Receive(op) /\ DeleteFiles(S) /\ UNCHANGED <<session, store, lastPut, strayed>>
      /\ tasks' = tasks \cup N /\ infos' = infos \cup M
      /\ answers' = answers (+) SetToBag(A)
      /\ bound' = (bound \/ \E g \in S : Handled(g) # {})
  BY DEF ReadDelFile
<1>2. IInv'
  <2>1. [Next]_tables
    BY <1>1 DEF Next
  <2> QED BY <2>1, NextInv DEF DriveInv
<1>3. S \in SUBSET Fileid /\ empty \in SUBSET S /\ "NO_CHANGE" \in Status
  BY SubtreeOfFiles DEF Files, Status
<1>4. /\ H \in SUBSET Chunk
      /\ \A c \in H : c.fileid \in S \ empty /\ c \in Handled(c.fileid)
      /\ \A g \in S : \A c \in Handled(g) : c \in H /\ c.fileid = g
      /\ Rows' \subseteq Rows \ H
  <2>1. \A g : \A c \in Handled(g) : c \in Chunk /\ c.fileid = g /\ ChunksOf(g) # {} /\ c \in Removed(g)
    BY DEF Handled, Removed, ChunksOf, Rows
  <2>2. \A c \in H : \E g \in S : c \in Handled(g)
    OBVIOUS
  <2>3. \A c \in Chunk : c \in UNION {Removed(g) : g \in S} => filechunk'[c] = 0
    BY <1>1 DEF DeleteFiles
  <2>4. \A c \in Chunk : filechunk'[c] # 0 => filechunk'[c] = filechunk[c]
    BY <1>1 DEF DeleteFiles
  <2>5. \A c \in H : c \in UNION {Removed(g) : g \in S}
    BY <2>1, <2>2
  <2>6. H \in SUBSET Chunk
    BY <2>1, <2>2
  <2> HIDE DEF S, empty, H
  <2>7. Rows' \subseteq Rows \ H
    BY <2>3, <2>4, <2>5, <2>6 DEF Rows
  <2> QED BY <2>1, <2>2, <2>6, <2>7 DEF empty, H
<1> HIDE DEF S, H
<1>5. \A t \in N : /\ t \in Task /\ t.cmd = "del" /\ t.op = op /\ t.dir = "known"
                    /\ t = NewTask("del", op, t.chunk, "NO_CHANGE", "known")
                    /\ t.chunk \in H /\ t.chunk \in Chunk
  <2>1. ASSUME NEW c \in H
        PROVE  LET t == NewTask("del", op, c, "NO_CHANGE", "known") IN
               t \in Task /\ t.cmd = "del" /\ t.op = op /\ t.chunk = c /\ t.dir = "known"
    BY <1>3, <1>4, NewTaskTypes
  <2> QED BY <1>4, <2>1
<1>6. \A c \in H : \E t \in N : t.chunk = c
  <2>1. \A c : NewTask("del", op, c, "NO_CHANGE", "known").chunk = c
    BY DEF NewTask
  <2> QED BY <2>1
<1>7. \A g \in S \ empty : Rec(g) \in Info
  <2>1. \A g \in S \ empty : g \in Fileid /\ Cardinality(ChunksOf(g)) \in Nat
    BY <1>3, HandledChunks
  <2> QED BY <2>1 DEF Info
<1>8. \A i \in M : i \in Info /\ i.op = op /\ i.fileid \in S \ empty /\ i = Rec(i.fileid)
  BY <1>7
<1>9. \A a \in A : /\ a \in Answer /\ a.op = op /\ a.cmd = "0x28" /\ a.about \in empty
                    /\ a = AnswerOf("0x28", op, a.about, "NO_CHANGE")
  <2>1. ASSUME NEW g \in empty
        PROVE  LET a == AnswerOf("0x28", op, g, "NO_CHANGE") IN
               a \in Answer /\ a.op = op /\ a.cmd = "0x28" /\ a.about = g
    <3>1. g \in 0..MaxFile
      BY <1>3, CatalogAssumption DEF Fileid
    <3>2. AnswerOf("0x28", op, g, "NO_CHANGE") \in Answer
      BY <1>3, <3>1, AnswerTypes
    <3> QED BY <3>2 DEF AnswerOf
  <2> QED BY <2>1
<1>10. IsFiniteSet(N)
  <2>1. \A t, u \in N : t.chunk = u.chunk => t = u
    BY <1>5
  <2> HIDE DEF N
  <2> QED BY <1>4, <1>5, <2>1, ByChunk
<1>11. IsFiniteSet(A)
  <2> DEFINE h == [a \in A |-> a.about]
  <2>1. IsFiniteSet(empty)
    BY <1>3, FiniteFiles
  <2>2. h \in [A -> empty] /\ \A a, b \in A : h[a] = h[b] => a = b
    BY <1>9
  <2> HIDE DEF h, A, empty
  <2>3. h \in Injection(A, empty)
    BY <2>2 DEF Injection, IsInjective
  <2> QED BY <2>1, <2>3, FS_Injection
<1>12. \A t \in N : \E i \in M : i.fileid = t.chunk.fileid
  <2>1. \A g \in S \ empty : \E i \in M : i.fileid = g
    <3>1. \A g : Rec(g).fileid = g
      OBVIOUS
    <3> HIDE DEF Rec, empty
    <3>2. \A g \in S \ empty : Rec(g) \in M
      OBVIOUS
    <3> HIDE DEF M
    <3> QED BY <3>1, <3>2
  <2>2. \A t \in N : t.chunk.fileid \in S \ empty
    BY <1>4, <1>5
  <2> HIDE DEF N, M, empty
  <2> QED BY <2>1, <2>2
<1>13. ASSUME NEW i \in M
       PROVE  Left(i) >= 1 /\ Exact(i, {t \in N : t.cmd = "del" /\ t.chunk.fileid = i.fileid})
  <2> DEFINE g == i.fileid
             W == {t \in N : t.cmd = "del" /\ t.chunk.fileid = g}
  <2>1. /\ g \in Fileid /\ g \in S /\ ChunksOf(g) # {}
        /\ i.numOfChunk = Cardinality(ChunksOf(g)) /\ i.deletedChunk = 0
    BY <1>3, <1>8
  <2>2. /\ \A t \in W : t.chunk \in Handled(g) /\ t.dir = "known"
        /\ \A t, u \in W : t.chunk = u.chunk => t = u
    BY <1>4, <1>5
  <2>3. \A c \in Handled(g) : \E t \in W : t.chunk = c
    BY <1>4, <1>5, <1>6, <2>1
  <2> HIDE DEF g, W
  <2>4. /\ Handled(g) \in SUBSET Chunk
        /\ Cardinality(ChunksOf(g)) \in Nat /\ Cardinality(Handled(g)) \in Nat
        /\ Cardinality(Handled(g)) <= Cardinality(ChunksOf(g))
        /\ Cardinality(ChunksOf(g)) - Cardinality(Handled(g)) <= Cardinality(Outside(g))
        /\ Cardinality(ChunksOf(g)) >= 1
    BY <2>1, HandledChunks
  <2>5. Cardinality(W) = Cardinality(Handled(g))
    BY <2>2, <2>3, <2>4, ByChunk
  <2>6. Left(i) = Cardinality(ChunksOf(g))
    BY <2>1, <2>4 DEF Left
  <2>7. Left(i) >= 1 /\ Cardinality(W) <= Left(i) /\ Left(i) - Cardinality(W) <= Cardinality(Outside(g))
    BY <2>4, <2>5, <2>6
  <2>8. Left(i) >= 1 /\ Exact(i, W)
    BY <2>2, <2>7 DEF Exact, g
  <2> QED BY <2>8 DEF W, g
<1>14. \A a \in A : \A t \in N : t.chunk.fileid # a.about
  BY <1>4, <1>5, <1>9
<1>15. \A a \in A : \A i \in M : a.about # i.fileid
  BY <1>8, <1>9
<1> HIDE DEF N, M, A, empty
<1>16. Share(op, N, M, A)
  BY <1>5, <1>8, <1>9, <1>10, <1>11, <1>12, <1>13, <1>14, <1>15 DEF Share
<1>17. DriveTypeOK' /\ Work' /\ BagToSet(answers') = BagToSet(answers) \cup A
  <2>1. /\ N \in SUBSET Task /\ M \in SUBSET Info /\ A \in SUBSET Answer
    BY <1>5, <1>8, <1>9
  <2>2. lastPut' \in [Chunk -> 0..MaxOps] /\ bound' \in BOOLEAN
    BY <1>1 DEF DriveInv, DriveTypeOK
  <2> QED BY <1>1, <1>2, <1>16, <2>1, <2>2, RequestInv
<1>18. Settled' /\ Durable'
  <2>1. /\ DriveTypeOK /\ Settled /\ Durable /\ ops' \in {ops, ops + 1} /\ Rows' \subseteq Rows
    BY <1>1, <1>4 DEF DriveInv, Receive
  <2>2. /\ \A t \in tasks' : t \in tasks \/ (t.cmd # "put" /\ t.chunk \notin Rows')
        /\ \A b \in BagToSet(answers') : Succeeds(b) => b \in BagToSet(answers)
    BY <1>1, <1>4, <1>5, <1>9, <1>17 DEF Succeeds
  <2> QED BY <1>1, <2>1, <2>2, KeepsStore
<1> QED BY <1>2, <1>17, <1>18 DEF DriveInv

LEMMA ReadDelChunkInv ==
  ASSUME DriveInv, NEW op \in Op, NEW f \in Fileid, ReadDelChunk(op, f)
  PROVE  DriveInv'
<1> DEFINE cs == ChunksOf(f)
<1>1. /\ Receive(op) /\ ClearChunks(f)
      /\ UNCHANGED <<session, store, answers, lastPut, strayed>>
      /\ infos' = infos \cup {} /\ bound' = TRUE
  BY DEF ReadDelChunk
<1>2. PICK d \in [cs -> {"known", "wrong", "null"}] :
        tasks' = tasks \cup {NewTask("clear", op, c, "NO_CHANGE", d[c]) : c \in cs}
  BY DEF ReadDelChunk
<1> DEFINE N == {NewTask("clear", op, c, "NO_CHANGE", d[c]) : c \in cs}
<1>3. IInv'
  <2>1. [Next]_tables
    BY <1>1 DEF Next
  <2> QED BY <2>1, NextInv DEF DriveInv
<1>4. "NO_CHANGE" \in Status /\ cs \in SUBSET Chunk
  BY HandledChunks DEF Status
<1>5. Rows' \subseteq Rows \ cs
  <2>1. \A c \in Chunk : filechunk'[c] = IF c.fileid = f THEN 0 ELSE filechunk[c]
    BY <1>1 DEF ClearChunks
  <2> QED BY <2>1 DEF Rows, ChunksOf
<1> HIDE DEF cs
<1>6. \A t \in N : /\ t \in Task /\ t.cmd = "clear" /\ t.op = op /\ t.chunk \in cs
                    /\ t = NewTask("clear", op, t.chunk, "NO_CHANGE", d[t.chunk])
  <2>1. ASSUME NEW c \in cs
        PROVE  LET t == NewTask("clear", op, c, "NO_CHANGE", d[c]) IN
               t \in Task /\ t.cmd = "clear" /\ t.op = op /\ t.chunk = c
    <3>1. c \in Chunk /\ d[c] \in {"known", "wrong", "null"}
      BY <1>4
    <3> QED BY <1>4, <3>1, NewTaskTypes
  <2> QED BY <2>1
<1>7. \A t, u \in N : t.chunk = u.chunk => t = u
  BY <1>6
<1>8. tasks' = tasks \cup N
  BY <1>2
<1> HIDE DEF N
<1>9. IsFiniteSet(N)
  BY <1>4, <1>6, <1>7, ByChunk
<1>10. Share(op, N, {}, {})
  BY <1>6, <1>7, <1>9, FS_EmptySet DEF Share
<1>11. DriveTypeOK' /\ Work'
  <2>1. N \in SUBSET Task /\ {} \in SUBSET Info /\ {} \in SUBSET Answer
    BY <1>6
  <2>2. lastPut' \in [Chunk -> 0..MaxOps] /\ bound' \in BOOLEAN
    BY <1>1 DEF DriveInv, DriveTypeOK
  <2> QED BY <1>1, <1>3, <1>8, <1>10, <2>1, <2>2, RequestInv
<1>12. Settled' /\ Durable'
  <2>1. /\ DriveTypeOK /\ Settled /\ Durable /\ ops' \in {ops, ops + 1} /\ Rows' \subseteq Rows
    BY <1>1, <1>5 DEF DriveInv, Receive
  <2>2. \A t \in tasks' : t \in tasks \/ (t.cmd # "put" /\ t.chunk \notin Rows')
    BY <1>5, <1>6, <1>8
  <2> QED BY <1>1, <2>1, <2>2, KeepsStore
<1> QED BY <1>3, <1>11, <1>12 DEF DriveInv

-----------------------------------------------------------------------------
(* The workers keep the invariant. *)

\* A transfer that ends or tries again leaves the tables alone.
LEMMA WorkerInv ==
  ASSUME DriveInv, NEW t \in tasks, UNCHANGED <<tables, ops, sessionVars, lastPut>>,
         Work', IsABag(answers)', BagToSet(answers') \subseteq Answer,
         tasks' \subseteq Task, infos' \subseteq Info, strayed' \subseteq Op \X Fileid,
         \A u \in tasks' : u \in tasks \/ (u.cmd = t.cmd /\ u.op = t.op /\ u.chunk = t.chunk),
         \/ UNCHANGED store
         \/ t.cmd = "put" /\ store' = [store EXCEPT ![t.chunk] = t.op]
         \/ t.cmd \in {"del", "clear"} /\ store' = [store EXCEPT ![t.chunk] = 0],
         \A a \in BagToSet(answers') : Succeeds(a) =>
           \/ a \in BagToSet(answers)
           \/ t.cmd = "put" /\ a.op = t.op /\ store'[t.chunk] = t.op
  PROVE  DriveInv'
<1>1. /\ DriveTypeOK /\ Settled /\ Durable /\ ops' = ops /\ Rows' = Rows
      /\ session' = session /\ bound' = bound /\ filechunk' = filechunk
  BY DEF DriveInv, tables, sessionVars, Rows
<1>2. IInv'
  BY NextInv DEF DriveInv
<1>3. /\ t.op \in Op /\ t.op # 0 /\ t.chunk \in Chunk /\ t.cmd \in {"put", "get", "del", "clear"}
  BY <1>1, TaskFacts
<1>4. store \in [Chunk -> 0..MaxOps]
  BY <1>1 DEF DriveTypeOK
<1>5. DriveTypeOK'
  <2>1. TypeOK'
    BY <1>2 DEF IInv
  <2>2. t.op \in 0..MaxOps /\ 0 \in 0..MaxOps
    BY <1>3, DriveAssumption DEF Op
  <2>3. store' \in [Chunk -> 0..MaxOps]
    BY <1>4, <2>2
  <2> QED BY <1>1, <2>1, <2>3 DEF DriveTypeOK
<1>6. ASSUME NEW c \in Rows, lastPut[c] # 0
      PROVE  /\ store'[c] \in {store[c], lastPut[c]}
             /\ \A a \in BagToSet(answers') : Succeeds(a) /\ a.op = lastPut[c] =>
                  a \in BagToSet(answers) \/ store'[c] = lastPut[c]
  <2>0. c \in Chunk
    BY DEF Rows
  <2>1. CASE c = t.chunk
    <3>1. t.cmd # "get" => t.cmd = "put" /\ t.op = lastPut[c]
      BY <1>1, <1>3, <1>6, <2>1 DEF Settled, Writes
    <3> QED BY <1>3, <1>4, <2>0, <2>1, <3>1
  <2>2. CASE c # t.chunk
    <3>1. store'[c] = store[c]
      BY <1>4, <2>0, <2>2
    <3>2. t.cmd = "put" => t.op # lastPut[c]
      BY <1>1, <2>0, <2>2 DEF Settled
    <3> QED BY <3>1, <3>2
  <2> QED BY <2>1, <2>2
<1>7. Settled' /\ Durable'
  <2>1. \A u \in tasks' : \E v \in tasks : v.cmd = u.cmd /\ v.op = u.op /\ v.chunk = u.chunk
    OBVIOUS
  <2> QED BY <1>1, <1>6, <2>1, KeepsStore
<1> QED BY <1>2, <1>5, <1>7 DEF DriveInv

LEMMA AgainTypes ==
  ASSUME DriveInv, NEW t \in tasks, ~GivesUp(t), tasks' = Again(t)
  PROVE  /\ tasks' \subseteq Task
         /\ \A u \in tasks' : u \in tasks \/ (u.cmd = t.cmd /\ u.op = t.op /\ u.chunk = t.chunk)
<1> DEFINE u == [t EXCEPT !.retry = @ + 1]
<1>1. tasks \subseteq Task /\ t \in Task
  BY DEF DriveInv, DriveTypeOK
<1>2. t.retry + 1 \in 0..(MaxGetTry + 1)
  BY <1>1, DriveAssumption DEF Task, GivesUp
<1>3. u \in Task /\ u.cmd = t.cmd /\ u.op = t.op /\ u.chunk = t.chunk
  BY <1>1, <1>2 DEF Task
<1> QED BY <1>1, <1>3 DEF Again

\* A save or a read that ends.
LEMMA FinishInv ==
  ASSUME DriveInv, NEW t \in tasks, NEW a \in Answer, NEW status,
         \/ t.cmd = "put" /\ a = ChunkAnswer("0x21", t.op, t.chunk, status)
         \/ t.cmd = "get" /\ a = ChunkAnswer("0x23", t.op, t.chunk, status),
         Finish(t, a), UNCHANGED <<tables, ops, sessionVars, infos, lastPut, strayed>>,
         \/ UNCHANGED store
         \/ t.cmd = "put" /\ store' = [store EXCEPT ![t.chunk] = t.op],
         Succeeds(a) => store' = [store EXCEPT ![t.chunk] = t.op]
  PROVE  DriveInv'
<1>1. DriveTypeOK /\ Work /\ session' = session
  BY DEF DriveInv, sessionVars
<1>2. Work' /\ IsABag(answers)' /\ BagToSet(answers') = BagToSet(answers) \cup {a}
  BY <1>1, FinishWork
<1>3. tasks' \subseteq tasks /\ tasks \subseteq Task /\ infos' \subseteq Info
      /\ BagToSet(answers') \subseteq Answer /\ strayed' \subseteq Op \X Fileid
  BY <1>1, <1>2 DEF Finish, DriveTypeOK
<1>4. Succeeds(a) => t.cmd = "put" /\ a.op = t.op /\ store'[t.chunk] = t.op
  <2>1. t.chunk \in Chunk /\ store \in [Chunk -> 0..MaxOps]
    BY <1>1, TaskFacts DEF DriveTypeOK
  <2> QED BY <2>1 DEF Succeeds, ChunkAnswer
<1> QED BY <1>2, <1>3, <1>4, WorkerInv

LEMMA RetryInv ==
  ASSUME DriveInv, NEW t \in tasks, ~GivesUp(t), tasks' = Again(t),
         UNCHANGED <<tables, ops, sessionVars, infos, answers, lastPut, strayed>>,
         \/ UNCHANGED store
         \/ t.cmd = "put" /\ store' = [store EXCEPT ![t.chunk] = t.op]
         \/ t.cmd \in {"del", "clear"} /\ store' = [store EXCEPT ![t.chunk] = 0]
  PROVE  DriveInv'
<1>1. DriveTypeOK /\ Work /\ session' = session
  BY DEF DriveInv, sessionVars
<1>2. Work'
  <2> DEFINE u == [t EXCEPT !.retry = @ + 1]
  <2>1. u.cmd = t.cmd /\ u.op = t.op /\ u.chunk = t.chunk /\ u.dir = t.dir
    BY <1>1, TaskFacts DEF Task
  <2>2. tasks' = (tasks \ {t}) \cup {u}
    BY DEF Again
  <2> HIDE DEF u
  <2> QED BY <1>1, <2>1, <2>2, SameWork
<1>3. /\ IsABag(answers)' /\ BagToSet(answers') \subseteq Answer /\ infos' \subseteq Info
      /\ strayed' \subseteq Op \X Fileid
      /\ BagToSet(answers') = BagToSet(answers)
  BY <1>1 DEF DriveTypeOK
<1> QED BY <1>2, <1>3, AgainTypes, WorkerInv

LEMMA ProcessSaveFileInv ==
  ASSUME DriveInv, NEW t \in tasks, ProcessSaveFile(t)
  PROVE  DriveInv'
<1> DEFINE Report(status) == Finish(t, ChunkAnswer("0x21", t.op, t.chunk, status))
           Stored == store' = [store EXCEPT ![t.chunk] = t.op]
<1>1. t.cmd = "put" /\ UNCHANGED <<tables, ops, sessionVars, infos, lastPut, strayed>>
  BY DEF ProcessSaveFile
<1>2. \/ \E status \in {t.status, "NOT_IN_LD", "RETRY"} :
           /\ Report(status) /\ (Stored \/ UNCHANGED store)
           /\ status \in {"INSERT", "UPDATE"} => Stored
      \/ /\ ~GivesUp(t) /\ tasks' = Again(t) /\ UNCHANGED answers
         /\ Stored \/ UNCHANGED store
  BY DEF ProcessSaveFile
<1>3. CASE \E status \in {t.status, "NOT_IN_LD", "RETRY"} :
             /\ Report(status) /\ (Stored \/ UNCHANGED store)
             /\ status \in {"INSERT", "UPDATE"} => Stored
  <2>1. PICK status \in {t.status, "NOT_IN_LD", "RETRY"} :
             /\ Report(status) /\ (Stored \/ UNCHANGED store)
             /\ status \in {"INSERT", "UPDATE"} => Stored
    BY <1>3
  <2> DEFINE a == ChunkAnswer("0x21", t.op, t.chunk, status)
  <2>2. status \in Status /\ t.op \in Op /\ t.chunk \in Chunk
    <3>1. t \in Task
      BY DEF DriveInv, DriveTypeOK
    <3> QED BY <3>1 DEF Task, Status
  <2>3. a \in Answer
    BY <2>2, AnswerTypes
  <2>4. Succeeds(a) => status \in {"INSERT", "UPDATE"}
    BY DEF Succeeds, ChunkAnswer
  <2> QED BY <1>1, <2>1, <2>3, <2>4, FinishInv
<1>4. CASE /\ ~GivesUp(t) /\ tasks' = Again(t) /\ UNCHANGED answers
           /\ Stored \/ UNCHANGED store
  BY <1>1, <1>4, RetryInv
<1> QED BY <1>2, <1>3, <1>4

LEMMA ProcessGetFileChunkInv ==
  ASSUME DriveInv, NEW t \in tasks, ProcessGetFileChunk(t)
  PROVE  DriveInv'
<1> DEFINE Report(status) == Finish(t, ChunkAnswer("0x23", t.op, t.chunk, status))
<1>1. t.cmd = "get" /\ UNCHANGED <<tables, ops, sessionVars, infos, store, lastPut, strayed>>
  BY DEF ProcessGetFileChunk
<1>2. \/ \E status \in {t.status, "UNDEFINED", "RETRY"} : Report(status)
      \/ ~GivesUp(t) /\ tasks' = Again(t) /\ UNCHANGED answers
  BY DEF ProcessGetFileChunk
<1>3. CASE \E status \in {t.status, "UNDEFINED", "RETRY"} : Report(status)
  <2>1. PICK status \in {t.status, "UNDEFINED", "RETRY"} : Report(status)
    BY <1>3
  <2> DEFINE a == ChunkAnswer("0x23", t.op, t.chunk, status)
  <2>2. status \in Status /\ t.op \in Op /\ t.chunk \in Chunk
    <3>1. t \in Task
      BY DEF DriveInv, DriveTypeOK
    <3> QED BY <3>1 DEF Task, Status
  <2>3. a \in Answer
    BY <2>2, AnswerTypes
  <2>4. ~Succeeds(a)
    BY DEF Succeeds, ChunkAnswer
  <2> QED BY <1>1, <2>1, <2>3, <2>4, FinishInv
<1>4. CASE ~GivesUp(t) /\ tasks' = Again(t) /\ UNCHANGED answers
  BY <1>1, <1>4, RetryInv
<1> QED BY <1>2, <1>3, <1>4

\* A deletion that is counted.
LEMMA CountInv ==
  ASSUME DriveInv, NEW t \in tasks, NEW i \in infos, t.cmd \in {"del", "clear"},
         CountIn(i), tasks' = tasks \ {t},
         \/ t \in Waits(i) /\ UNCHANGED strayed
         \/ Unrecorded(t) /\ strayed' = strayed \cup {<<i.op, i.fileid>>},
         UNCHANGED <<tables, ops, sessionVars, lastPut>>,
         UNCHANGED store \/ store' = [store EXCEPT ![t.chunk] = 0]
  PROVE  DriveInv'
<1>1. DriveTypeOK /\ Work /\ session' = session
  BY DEF DriveInv, sessionVars
<1>2. /\ Work' /\ IsABag(answers)' /\ infos' \subseteq Info /\ strayed' \subseteq Op \X Fileid
      /\ \A b \in BagToSet(answers') : b \in BagToSet(answers) \/ (b.cmd = "0x28" /\ b \in Answer)
  BY <1>1, CountWork
<1>3. /\ tasks' \subseteq tasks /\ tasks \subseteq Task
      /\ BagToSet(answers') \subseteq Answer
      /\ \A b \in BagToSet(answers') : Succeeds(b) => b \in BagToSet(answers)
  BY <1>1, <1>2 DEF DriveTypeOK, Succeeds
<1> QED BY <1>2, <1>3, WorkerInv

\* A deletion of which no record knows, and which counts in none.
LEMMA UncountedInv ==
  ASSUME DriveInv, NEW t \in tasks, Unrecorded(t),
         \/ tasks' = tasks \ {t}
         \/ tasks' = (tasks \ {t}) \cup {[t EXCEPT !.dir = "stuck"]},
         UNCHANGED <<tables, ops, sessionVars, infos, answers, lastPut, strayed>>,
         UNCHANGED store \/ store' = [store EXCEPT ![t.chunk] = 0]
  PROVE  DriveInv'
<1> DEFINE u == [t EXCEPT !.dir = "stuck"]
<1>1. DriveTypeOK /\ Work /\ session' = session /\ t.cmd \in {"del", "clear"}
  BY DEF DriveInv, sessionVars, Unrecorded
<1>2. t \in Task /\ u \in Task /\ u.cmd = t.cmd /\ u.op = t.op /\ u.chunk = t.chunk
  <2>1. t \in Task
    BY <1>1 DEF DriveTypeOK
  <2> QED BY <2>1 DEF Task
<1> HIDE DEF u
<1>3. tasks' = tasks \ {t} \/ tasks' = (tasks \ {t}) \cup {u}
  BY DEF u
<1>4. Work'
  BY <1>1, <1>2, <1>3, LostWork, SameWork
<1>5. /\ tasks' \subseteq Task /\ infos' \subseteq Info /\ strayed' \subseteq Op \X Fileid
      /\ IsABag(answers)' /\ BagToSet(answers') \subseteq Answer
      /\ BagToSet(answers') = BagToSet(answers)
      /\ \A v \in tasks' : v \in tasks \/ (v.cmd = t.cmd /\ v.op = t.op /\ v.chunk = t.chunk)
  BY <1>1, <1>2, <1>3 DEF DriveTypeOK
<1> QED BY <1>1, <1>4, <1>5, WorkerInv

LEMMA StrayInv ==
  ASSUME DriveInv, NEW t \in tasks, Unrecorded(t), Stray(t), UNCHANGED <<tables, ops, lastPut>>,
         UNCHANGED store \/ store' = [store EXCEPT ![t.chunk] = 0]
  PROVE  DriveInv'
<1>1. t.cmd \in {"del", "clear"}
  BY DEF Unrecorded
<1>2. ASSUME NEW i \in infos, CountIn(i), tasks' = tasks \ {t}, UNCHANGED sessionVars,
             strayed' = strayed \cup {<<i.op, i.fileid>>}
      PROVE  DriveInv'
  BY <1>1, <1>2, CountInv
<1>3. ASSUME UNCHANGED <<sessionVars, infos, answers, strayed>>,
             \/ tasks' = tasks \ {t}
             \/ tasks' = (tasks \ {t}) \cup {[t EXCEPT !.dir = "stuck"]}
      PROVE  DriveInv'
  BY <1>3, UncountedInv
<1>4. ASSUME EndSession, UNCHANGED <<answers, strayed>>
      PROVE  DriveInv'
  <2>1. ops' \in {ops, ops + 1} /\ ops' <= MaxOps
    BY DriveAssumption DEF DriveInv, DriveTypeOK
  <2> QED BY <1>1, <1>4, <2>1, EndSessionInv
<1> QED BY <1>2, <1>3, <1>4 DEF Stray

LEMMA ProcessDelChunkInv ==
  ASSUME DriveInv, NEW t \in tasks, ProcessDelChunk(t)
  PROVE  DriveInv'
<1> DEFINE Gone == store' = [store EXCEPT ![t.chunk] = 0]
<1>1. /\ t.cmd \in {"del", "clear"} /\ UNCHANGED <<tables, ops, lastPut>>
      /\ DriveTypeOK /\ Work
  BY DEF ProcessDelChunk, DriveInv
\* Where there is no record, or no directory, the pair has been strayed into.
<1>2. ASSUME \/ t.dir = "null"
             \/ t.cmd = "clear"
             \/ InfosOf(t) = {}
      PROVE  Unrecorded(t)
  <2> SUFFICES ASSUME t.cmd = "del", <<t.op, t.chunk.fileid>> \notin strayed PROVE FALSE
    BY <1>1 DEF Unrecorded
  <2>1. PICK i \in infos : i.op = t.op /\ i.fileid = t.chunk.fileid
    BY <1>1 DEF Work, Counted
  <2>2. t \in Waits(i)
    BY <2>1 DEF Waits
  <2>3. t.dir = "known"
    BY <1>1, <2>1, <2>2 DEF Work, Counted, Counts, Exact
  <2> QED BY <1>2, <2>1, <2>3 DEF InfosOf
<1>3. \/ /\ t.dir = "null" /\ tasks' = tasks \ {t}
         /\ UNCHANGED <<sessionVars, infos, store, answers, strayed>>
      \/ CountDeleted(t) /\ (Gone \/ UNCHANGED store)
      \/ /\ ~GivesUp(t) /\ tasks' = Again(t)
         /\ UNCHANGED <<sessionVars, infos, answers, strayed>>
         /\ Gone \/ UNCHANGED store
  BY DEF ProcessDelChunk
<1>4. CASE /\ t.dir = "null" /\ tasks' = tasks \ {t}
           /\ UNCHANGED <<sessionVars, infos, store, answers, strayed>>
  BY <1>1, <1>2, <1>4, UncountedInv
<1>5. CASE CountDeleted(t) /\ (Gone \/ UNCHANGED store)
  <2>1. ASSUME t.cmd = "del", NEW i \in InfosOf(t), CountIn(i), tasks' = tasks \ {t},
               UNCHANGED <<sessionVars, strayed>>
        PROVE  DriveInv'
    <3>1. i \in infos /\ t \in Waits(i)
      BY <2>1 DEF InfosOf, Waits
    <3> QED BY <1>1, <1>5, <2>1, <3>1, CountInv
  <2>2. ASSUME t.cmd = "clear" \/ InfosOf(t) = {}, Stray(t)
        PROVE  DriveInv'
    BY <1>1, <1>2, <1>5, <2>2, StrayInv
  <2> QED BY <1>5, <2>1, <2>2 DEF CountDeleted
<1>6. CASE /\ ~GivesUp(t) /\ tasks' = Again(t)
           /\ UNCHANGED <<sessionVars, infos, answers, strayed>>
           /\ Gone \/ UNCHANGED store
  BY <1>1, <1>6, RetryInv
<1> QED BY <1>3, <1>4, <1>5, <1>6

-----------------------------------------------------------------------------
(* The theorems of a session. *)

LEMMA InitDriveInv ==
  ASSUME DriveInit
  PROVE  DriveInv
<1> USE DEF DriveInit
<1>1. /\ IInv /\ Rows = {}
  BY InitInv DEF Rows, Init
<1>2. IsABag(answers) /\ BagToSet(answers) = {}
  BY DEF EmptyBag, SetToBag, IsABag, BagToSet
<1>3. DriveTypeOK
  <2>1. 0 \in 0..MaxOps /\ 0 \in 0..0
    BY DriveAssumption
  <2> QED BY <1>1, <1>2, <2>1 DEF DriveTypeOK, IInv
<1>4. Work
  <2>1. Finite /\ Known /\ OneTask /\ OneInfo /\ Counted /\ OnceEach
    BY <1>2, FS_EmptySet DEF Finite, Known, OneTask, OneInfo, Counted, OnceEach
  <2>2. AtEnd /\ AnnouncedChunks
    BY <1>2 DEF AtEnd, AnnouncedChunks, Sent, TasksOf
  <2> QED BY <2>1, <2>2 DEF Work
<1>5. Settled /\ Durable
  BY <1>1 DEF Settled, Durable
<1> QED BY <1>1, <1>3, <1>4, <1>5 DEF DriveInv

LEMMA DriveNextInv ==
  ASSUME DriveInv, [DriveNext]_vars
  PROVE  DriveInv'
<1>1. ASSUME NEW op \in Op, Request(op) PROVE DriveInv'
  <2>1. CASE Denied(op)
    BY <2>1, DeniedInv
  <2>2. ASSUME NEW p \in Parents, NEW n \in Size, ReadCreateFile(op, p, n) PROVE DriveInv'
    BY <2>2, ReadCreateFileInv
  <2>3. ASSUME NEW f \in Fileid, NEW p \in Parents, NEW n \in Size, ReadUpdateFile(op, f, p, n)
        PROVE  DriveInv'
    BY <2>3, ReadUpdateFileInv
  <2>4. ASSUME NEW f \in Fileid, ReadMissingFile(op, f) PROVE DriveInv'
    BY <2>4, DiesInv DEF ReadMissingFile
  <2>5. ASSUME NEW c \in Chunk, NEW n \in Size, ReadSaveFile(op, c, n) PROVE DriveInv'
    BY <2>5, ReadSaveFileInv
  <2>6. ASSUME NEW f \in Fileid, ReadGetFile(op, f) PROVE DriveInv'
    BY <2>6, ReadGetFileInv
  <2>7. ASSUME NEW f \in Fileid \cup Parents, ReadDelFile(op, f) PROVE DriveInv'
    BY <2>7, ReadDelFileInv
  <2>8. ASSUME NEW f \in Fileid, ReadDelChunk(op, f) PROVE DriveInv'
    BY <2>8, ReadDelChunkInv
  <2>9. ASSUME NEW f \in Fileid, ReadDelChunkUnbound(op, f) PROVE DriveInv'
    BY <2>9, DiesInv DEF ReadDelChunkUnbound
  <2> QED BY <1>1, <2>1, <2>2, <2>3, <2>4, <2>5, <2>6, <2>7, <2>8, <2>9 DEF Request
<1>2. ASSUME NEW t \in tasks, Process(t) PROVE DriveInv'
  BY <1>2, ProcessSaveFileInv, ProcessGetFileChunkInv, ProcessDelChunkInv DEF Process
<1>3. CASE Disconnect
  BY <1>3, DisconnectInv
<1>4. CASE UNCHANGED vars
  <2>1. UNCHANGED tables /\ UNCHANGED <<directory, filechunk, ldAlloc, cdAlloc>>
        /\ UNCHANGED <<ops, session, bound, tasks, infos, store, answers, lastPut, strayed>>
    BY <1>4 DEF vars, tables, sessionVars, work
  <2>2. IInv' /\ DriveTypeOK'
    BY <2>1 DEF DriveInv, DriveTypeOK, IInv, TypeOK, LdExact, Files, FileSize
  <2>3. Work'
    BY <2>1 DEF DriveInv, Work, Finite, Known, OneTask, OneInfo, Counted, Counts, Exact, Outside, Left,
                Waits, OnceEach, AtEnd, AnnouncedChunks, Sent, TasksOf
  <2>4. Settled' /\ Durable'
    BY <2>1 DEF DriveInv, Settled, Durable, Rows, Writes, Sent
  <2> QED BY <2>2, <2>3, <2>4 DEF DriveInv
<1> QED BY <1>1, <1>2, <1>3, <1>4 DEF DriveNext

\* The inductive invariant of a session, whatever the drivers and the schedule do.
THEOREM DriveInvariance == DriveSpec => []DriveInv
<1>1. DriveInit => DriveInv
  BY InitDriveInv
<1>2. DriveInv /\ [DriveNext]_vars => DriveInv'
  BY DriveNextInv
<1> QED BY <1>1, <1>2, PTL DEF DriveSpec

\* Requests, transfers, records and answers stay within their types; a retry
\* counter, an unsigned char in the code, never passes the limit by more than one.
THEOREM DriveTypeCorrect == DriveSpec => []DriveTypeOK
<1>1. DriveInv => DriveTypeOK
  BY DEF DriveInv
<1> QED BY <1>1, DriveInvariance, PTL

\* No answer twice, and none before the transfers it stands for have ended: that a
\* deleted file may be answered early only after a transfer of something else has
\* counted in its record holds for any number of requests, files and attempts.
THEOREM AnsweredOnce == DriveSpec => []AnsweredOnceAtEnd
<1>1. DriveInv => AnsweredOnceAtEnd
  <2> SUFFICES ASSUME DriveInv PROVE AnsweredOnceAtEnd
    OBVIOUS
  <2>1. ASSUME NEW i \in infos, <<i.op, i.fileid>> \notin strayed
        PROVE  i.numOfChunk - i.deletedChunk
                 - Cardinality({t \in TasksOf("del", i.op) : t.chunk.fileid = i.fileid})
                   \in 0..Cardinality({c \in Chunk : c.fileid = i.fileid /\ c.cdid \notin InDrive})
    <3>1. {t \in TasksOf("del", i.op) : t.chunk.fileid = i.fileid} = Waits(i)
      BY DEF TasksOf, Waits
    <3>2. /\ Cardinality(Waits(i)) <= Left(i)
          /\ Left(i) - Cardinality(Waits(i)) <= Cardinality(Outside(i.fileid))
      BY <2>1 DEF DriveInv, Work, Counted, Counts, Exact
    <3>3. i.numOfChunk \in Nat /\ i.deletedChunk \in Nat
      BY DEF DriveInv, DriveTypeOK, Info
    <3>4. IsFiniteSet(Waits(i)) /\ IsFiniteSet(Outside(i.fileid))
      <4>1. Waits(i) \in SUBSET tasks /\ IsFiniteSet(tasks)
        BY DEF Waits, DriveInv, Work, Finite
      <4>2. Outside(i.fileid) \in SUBSET Chunk
        BY DEF Outside
      <4> QED BY <4>1, <4>2, FS_Subset, FiniteChunks
    <3>5. Cardinality(Waits(i)) \in Nat /\ Cardinality(Outside(i.fileid)) \in Nat
      BY <3>4, FS_CardinalityType
    <3>6. Left(i) - Cardinality(Waits(i)) \in 0..Cardinality(Outside(i.fileid))
      BY <3>2, <3>3, <3>5 DEF Left
    <3> QED BY <3>1, <3>6 DEF Left, Outside
  <2> QED BY <2>1 DEF AnsweredOnceAtEnd, DriveInv, Work, OnceEach, AtEnd
<1> QED BY <1>1, DriveInvariance, PTL

\* What 0x22 announced is what came and what is still to come.
THEOREM AnnouncedExact == DriveSpec => []AnnouncedChunks
<1>1. DriveInv => AnnouncedChunks
  BY DEF DriveInv, Work
<1> QED BY <1>1, DriveInvariance, PTL

\* A save answered with success is on the cloud drive while its row stands.
THEOREM SavesDurable == DriveSpec => []Durable
<1>1. DriveInv => Durable
  BY DEF DriveInv
<1> QED BY <1>1, DriveInvariance, PTL
=============================================================================
