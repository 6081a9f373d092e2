----------------------------- MODULE Memory_proofs -----------------------------
(***************************************************************************)
(* Proofs about Memory, for any threads, blocks, sizes and limits.         *)
(*                                                                         *)
(* Three layers, each preserved with the help of the one before:           *)
(* Basic, what holds whatever the threads do to each other: sizes rise     *)
(* along `next`, so that every walk ends, and what malloc has not given is *)
(* nowhere; Tidy, the shape of the lists, until a thread inserts behind a  *)
(* head that has changed; Account, the bytes, until an update is lost.     *)
(* A walk is the least set closed under a link (FromLeast), so what a      *)
(* step does to the lists is shown by naming the set it leaves (Walked).   *)
(***************************************************************************)
EXTENDS Memory, SetLemmas

\* Where a thread is tells what it has in hand.
InStep(t) ==
  /\ at[t] \in {"check", "flush", "flushing", "subtract", "recheck", "malloc", "store"}
       => want[t] \in Size
  /\ at[t] \in {"store", "insert"} => mem[t] # Null
  /\ at[t] \notin {"store", "insert", "dead"} => mem[t] = Null
  /\ at[t] = "subtract" => tmpCur[t] # Null
  /\ at[t] \notin {"insert", "subtract", "dead"} => tmpCur[t] = Null
  /\ at[t] \in {"flushing", "subtract"} => mutex = t
  /\ at[t] = "store" => size[mem[t]] = 0 /\ \A u \in Thread \ {t} : mem[u] # mem[t]
  /\ at[t] = "insert" => size[mem[t]] # 0

AllInStep == \A t \in Thread : InStep(t)

\* Blocks that malloc has not given yet are nowhere.
Unmade ==
  /\ \A b \in Block : size[b] = 0 =>
       /\ next[b] = Null /\ other[b] = Null
       /\ uses[b] = 0 /\ ~isfree[b] /\ b \notin flushed
  /\ next[Root] # Null => size[next[Root]] # 0
  /\ \A t \in Thread : tmpCur[t] # Null => size[tmpCur[t]] # 0

Hand(t) == IF mem[t] # Null THEN mem[t] ELSE tmpCur[t]

Chain == From(next, next[Root])

\* A block in the lists has one predecessor; of several blocks of one size only the
\* first is in the chain of sizes.
OnePredecessor ==
  /\ \A b \in Listed : b \notin Chain => next[b] = Null
  /\ \A b, c \in Chain \cup {Root} : next[b] = next[c] /\ next[b] # Null => b = c
  /\ \A b, c \in Listed : other[b] = other[c] /\ other[b] # Null => b = c
  /\ \A b \in Chain, c \in Listed : other[c] # b

\* The free blocks are in the lists, in one hand, or flushed.
FreeBlocks ==
  /\ \A b \in Block :
       b \in Listed <=> isfree[b] /\ b \notin flushed /\ \A t \in Thread : Hand(t) # b
  /\ \A t, u \in Thread : Hand(t) = Hand(u) /\ Hand(t) # Null => t = u
  /\ \A t \in Thread : Hand(t) # Null /\ size[Hand(t)] # 0
       => isfree[Hand(t)] /\ Hand(t) \notin flushed
  /\ \A t \in Thread : at[t] = "insert" => next[mem[t]] = Null /\ other[mem[t]] = Null
  /\ \A b \in flushed : isfree[b]
  /\ \A b \in Block : size[b] # 0 => uses[b] = (IF isfree[b] THEN 0 ELSE 1)

Tidy == "list" \notin races => OnePredecessor /\ FreeBlocks

\* What allocate has tested still holds when it adds.
Reserved ==
  races = {} =>
    \A t \in Thread : at[t] \in {"malloc", "store"} =>
      reg[t] + want[t] + Header <= MaxAllocate

IInv ==
  /\ TypeOK /\ AllInStep /\ Unmade /\ SizesOrdered
  /\ Tidy /\ LimitExact /\ Reserved

Basic == TypeOK /\ AllInStep /\ Unmade /\ SizesOrdered

-----------------------------------------------------------------------------
(* Walks.  From(link, c) is the least set that holds c and what link leads to. *)

Links(link) == \A b \in Block : link[b] \in Block \cup {Null}

LEMMA FromLeast ==
  ASSUME NEW link, NEW c, NEW S \in SUBSET Block, Closed(link, S), c \in S \cup {Null}
  PROVE  From(link, c) \subseteq S
BY DEF From

LEMMA FromNull ==
  ASSUME NEW link
  PROVE  From(link, Null) = {}
<1>1. Closed(link, {})
  BY DEF Closed
<1> QED BY <1>1, FromLeast

LEMMA FromStart ==
  ASSUME NEW link, NEW c \in Block
  PROVE  c \in From(link, c)
BY MemoryAssumption DEF From

LEMMA FromClosed ==
  ASSUME NEW link, Links(link), NEW c
  PROVE  /\ From(link, c) \in SUBSET Block
         /\ Closed(link, From(link, c))
<1>1. From(link, c) \in SUBSET Block
  BY DEF From
<1>2. ASSUME NEW b \in From(link, c), link[b] # Null
      PROVE  link[b] \in From(link, c)
  <2>1. b \in Block /\ link[b] \in Block
    BY <1>1, <1>2 DEF Links
  <2>2. ASSUME NEW S \in SUBSET Block, Closed(link, S), c \in S \cup {Null}
        PROVE  link[b] \in S
    <3>1. b \in S
      BY <2>2 DEF From
    <3> QED BY <1>2, <2>2, <3>1 DEF Closed
  <2> QED BY <2>1, <2>2 DEF From
<1> QED BY <1>1, <1>2 DEF Closed

\* All but the first have a predecessor.
LEMMA FromPredecessor ==
  ASSUME NEW link, Links(link), NEW c \in Block \cup {Null},
         NEW b \in From(link, c), b # c
  PROVE  \E d \in From(link, c) : link[d] = b
<1> SUFFICES ASSUME \A d \in From(link, c) : link[d] # b PROVE FALSE
  OBVIOUS
<1> DEFINE S == From(link, c) \ {b}
<1>1. From(link, c) \in SUBSET Block /\ Closed(link, From(link, c))
  BY FromClosed
<1>2. S \in SUBSET Block /\ Closed(link, S)
  BY <1>1 DEF Closed
<1>3. c \in S \cup {Null}
  <2>1. CASE c \in Block
    BY <2>1, FromStart
  <2> QED BY <2>1
<1> QED BY <1>2, <1>3, FromLeast

-----------------------------------------------------------------------------

LEMMA Sizes ==
  ASSUME TypeOK
  PROVE  /\ \A b \in Block : size[b] \in Nat
         /\ Links(next) /\ Links(other) /\ next[Root] \in Block \cup {Null}
         /\ Null \notin Block /\ Root \notin Block /\ Root # Null
<1>1. Size \cup {0} \subseteq Nat
  BY MemoryAssumption
<1> QED BY <1>1, MemoryAssumption DEF TypeOK, Links

LEMMA Extremes ==
  ASSUME TypeOK, NEW S \in SUBSET Block, S # {}
  PROVE  /\ \E b \in S : \A d \in S : size[b] <= size[d]
         /\ \E b \in S : \A d \in S : size[d] <= size[b]
<1>1. \A b \in S : size[b] \in Int
  BY Sizes
<1>2. IsFiniteSet(S)
  BY MemoryAssumption, FS_Subset
<1> QED BY <1>1, <1>2, SmallestValue, LargestValue

\* A walk along next that is not empty meets a last block, since sizes rise.
LEMMA Last ==
  ASSUME TypeOK, SizesOrdered, NEW c \in Block
  PROVE  \E d \in From(next, c) : next[d] = Null
<1>1. From(next, c) \in SUBSET Block /\ Closed(next, From(next, c)) /\ c \in From(next, c)
  BY Sizes, FromClosed, FromStart
<1>2. PICK d \in From(next, c) : \A e \in From(next, c) : size[e] <= size[d]
  BY <1>1, Extremes
<1>3. d \in Block /\ next[d] \in From(next, c) \cup {Null}
  BY <1>1, <1>2 DEF Closed
<1>4. ASSUME next[d] # Null PROVE FALSE
  <2>1. next[d] \in From(next, c) /\ next[d] \in Block
    BY <1>1, <1>3, <1>4
  <2>2. size[d] < size[next[d]] /\ size[next[d]] <= size[d]
    BY <1>2, <1>3, <2>1 DEF SizesOrdered
  <2> QED BY <1>3, <2>1, <2>2, Sizes
<1> QED BY <1>2, <1>4

\* What Before finds.
LEMMA BeforeFinds ==
  ASSUME TypeOK, SizesOrdered, NEW c \in Block \cup {Null}, NEW b,
         b \in From(next, c) \/ b = Null
  PROVE  IF b = c THEN Before(c, b) = Root
         ELSE Before(c, b) \in From(next, c) /\ next[Before(c, b)] = b
<1>1. CASE b = c
  BY <1>1 DEF Before
<1>2. CASE b # c
  <2>1. \E d \in From(next, c) : next[d] = b
    <3>1. CASE b = Null
      <4>1. c \in Block
        BY <1>2, <3>1
      <4> QED BY <3>1, <4>1, Last
    <3>2. CASE b \in From(next, c)
      BY <1>2, <3>2, Sizes, FromPredecessor
    <3> QED BY <3>1, <3>2
  <2> QED BY <1>2, <2>1 DEF Before
<1> QED BY <1>1, <1>2

\* What First finds.
LEMMA FirstFinds ==
  ASSUME TypeOK, NEW c, NEW n, Fitting(c, n) # {}
  PROVE  /\ First(c, n) \in From(next, c) /\ First(c, n) \in Block
         /\ size[First(c, n)] >= n
         /\ \A d \in Fitting(c, n) : size[First(c, n)] <= size[d]
<1>1. Fitting(c, n) \in SUBSET Block /\ Fitting(c, n) \subseteq From(next, c)
  BY DEF Fitting, From
<1>2. \E b \in Fitting(c, n) : \A d \in Fitting(c, n) : size[b] <= size[d]
  BY <1>1, Extremes
<1>3. First(c, n) \in Fitting(c, n) /\ \A d \in Fitting(c, n) : size[First(c, n)] <= size[d]
  BY <1>2 DEF First
<1> QED BY <1>1, <1>3 DEF Fitting

\* A walk that begins at a block of malloc's meets no other.
LEMMA WalkMade ==
  ASSUME TypeOK, SizesOrdered, NEW c \in Block \cup {Null}, c # Null => size[c] # 0
  PROVE  \A d \in From(next, c) : d \in Block /\ size[d] # 0
<1> DEFINE S == {d \in Block : size[d] # 0}
<1>1. Closed(next, S)
  <2> SUFFICES ASSUME NEW b \in S, next[b] # Null PROVE next[b] \in S
    BY DEF Closed
  <2>1. next[b] \in Block /\ size[b] \in Nat /\ size[next[b]] \in Nat
    BY Sizes DEF Links
  <2>2. size[b] < size[next[b]]
    BY <2>1 DEF SizesOrdered
  <2> QED BY <2>1, <2>2
<1>2. From(next, c) \subseteq S
  BY <1>1, FromLeast
<1> QED BY <1>2

-----------------------------------------------------------------------------
(* Types, places and sizes: whatever the threads do to each other. *)

\* A step of thread t that leaves the lists, the sizes and the other threads alone.
LEMMA QuietBasic ==
  ASSUME Basic, NEW t \in Thread, TypeOK', InStep(t)',
         UNCHANGED <<size, lists>>,
         \A b \in Block : size[b] = 0 =>
           UNCHANGED <<uses[b], isfree[b]>> /\ (b \in flushed' => b \in flushed),
         \A u \in Thread \ {t} :
           /\ at'[u] = at[u] /\ want'[u] = want[u] /\ mem'[u] = mem[u] /\ tmpCur'[u] = tmpCur[u]
           /\ mutex = u => mutex' = u
           /\ at[u] = "store" => mem'[t] # mem[u],
         tmpCur'[t] # Null => size[tmpCur'[t]] # 0
  PROVE  Basic'
<1>1. AllInStep'
  <2> SUFFICES ASSUME NEW u \in Thread \ {t} PROVE InStep(u)'
    BY DEF AllInStep
  <2>1. InStep(u)
    BY DEF Basic, AllInStep
  <2>2. \A v \in Thread \ {u} : at[u] = "store" => mem'[v] # mem'[u]
    BY <2>1 DEF InStep
  <2> QED BY <2>1, <2>2 DEF InStep, lists
<1>2. Unmade'
  <2>1. \A u \in Thread : tmpCur'[u] # Null => size[tmpCur'[u]] # 0
    BY DEF Basic, Unmade
  <2> QED BY <2>1 DEF Basic, Unmade, lists
<1>3. SizesOrdered'
  BY DEF Basic, SizesOrdered, lists
<1> QED BY <1>1, <1>2, <1>3 DEF Basic

\* The process ends: nothing but the threads' places changes.
LEMMA DeadBasic ==
  ASSUME Basic, at' = [u \in Thread |-> "dead"],
         UNCHANGED <<size, isfree, lists, allocateSize, mutex, locals, uses, flushed, races>>
  PROVE  Basic'
<1>1. TypeOK'
  BY DEF Basic, TypeOK, Place, lists, locals
<1>2. AllInStep'
  BY DEF AllInStep, InStep
<1>3. Unmade' /\ SizesOrdered'
  BY DEF Basic, Unmade, SizesOrdered, lists, locals
<1> QED BY <1>1, <1>2, <1>3 DEF Basic

LEMMA InitBasic == Init => Basic
<1> SUFFICES ASSUME Init PROVE Basic
  OBVIOUS
<1> USE DEF Init
<1>1. TypeOK
  <2>1. allocateSize \in 0..(Word - 1) /\ 0 \in 0..(Word - 1) /\ 0 \in 0..MaxUses
    BY MemoryAssumption
  <2>2. isfree \in [Block -> BOOLEAN]
    OBVIOUS
  <2>3. /\ size \in [Block -> Size \cup {0}]
        /\ next \in [Block \cup {Root} -> Block \cup {Null}]
        /\ other \in [Block -> Block \cup {Null}]
        /\ want \in [Thread -> Size \cup {0}]
        /\ mem \in [Thread -> Block \cup {Null}]
        /\ tmpCur \in [Thread -> Block \cup {Null}]
    OBVIOUS
  <2>4. /\ targetSize \in [Thread -> 0..(Word - 1)] /\ reg \in [Thread -> 0..(Word - 1)]
        /\ uses \in [Block -> 0..MaxUses]
    BY <2>1
  <2>5. at \in [Thread -> Place] /\ \A t \in Thread : mutex # t
    BY MemoryAssumption DEF Place
  <2>6. mutex \in Thread \cup {Null} /\ flushed \subseteq Block /\ races \subseteq {"list", "size"}
    OBVIOUS
  <2> QED BY <2>1, <2>2, <2>3, <2>4, <2>5, <2>6 DEF TypeOK
<1>2. AllInStep
  BY DEF AllInStep, InStep
<1>3. Unmade
  BY DEF Unmade
<1>4. SizesOrdered
  BY MemoryAssumption DEF SizesOrdered
<1> QED BY <1>1, <1>2, <1>3, <1>4 DEF Basic

LEMMA Words ==
  \A x \in Int : x % Word \in 0..(Word - 1)
BY MemoryAssumption

LEMMA MissBasic ==
  ASSUME Basic, NEW t \in Thread, NEW n \in Size, at[t] = "idle",
         Go(t, "check"), want' = [want EXCEPT ![t] = n],
         UNCHANGED <<size, isfree, lists, allocateSize, mutex, mem, tmpCur, targetSize, reg,
                     uses, flushed, races>>
  PROVE  Basic'
<1>1. InStep(t)
  BY DEF Basic, AllInStep
<1>2. TypeOK'
  BY DEF Basic, TypeOK, Place, Go, lists
<1>3. InStep(t)'
  BY <1>1 DEF Basic, TypeOK, InStep, Go
<1>4. \A u \in Thread \ {t} : at'[u] = at[u] /\ want'[u] = want[u]
  BY DEF Basic, TypeOK, Go
<1>5. /\ \A u \in Thread \ {t} : at[u] = "store" => mem[t] # mem[u]
      /\ tmpCur[t] # Null => size[tmpCur[t]] # 0
  BY DEF Basic, AllInStep, InStep, Unmade
<1> QED BY <1>2, <1>3, <1>4, <1>5, QuietBasic

LEMMA CheckRoomBasic ==
  ASSUME Basic, NEW t \in Thread, CheckRoom(t)
  PROVE  Basic'
<1> USE DEF CheckRoom
<1>1. InStep(t)
  BY DEF Basic, AllInStep
<1>2. TypeOK'
  BY DEF Basic, TypeOK, Place, Go, lists, locals
<1>3. InStep(t)'
  BY <1>1 DEF Basic, TypeOK, InStep, Go, locals
<1>4. \A u \in Thread \ {t} : at'[u] = at[u]
  BY DEF Basic, TypeOK, Go
<1>5. /\ \A u \in Thread \ {t} : at[u] = "store" => mem[t] # mem[u]
      /\ tmpCur[t] # Null => size[tmpCur[t]] # 0
  BY DEF Basic, AllInStep, InStep, Unmade
<1> QED BY <1>2, <1>3, <1>4, <1>5, QuietBasic DEF locals

LEMMA RecheckBasic ==
  ASSUME Basic, NEW t \in Thread, Recheck(t)
  PROVE  Basic'
<1> USE DEF Recheck
<1>1. CASE at' = [u \in Thread |-> "dead"] /\ UNCHANGED reg
  BY <1>1, DeadBasic DEF locals
<1>2. CASE Go(t, "malloc") /\ reg' = [reg EXCEPT ![t] = allocateSize]
  <2>1. InStep(t)
    BY DEF Basic, AllInStep
  <2>2. TypeOK'
    BY <1>2 DEF Basic, TypeOK, Place, Go, lists
  <2>3. InStep(t)'
    BY <1>2, <2>1 DEF Basic, TypeOK, InStep, Go
  <2>4. \A u \in Thread \ {t} : at'[u] = at[u]
    BY <1>2 DEF Basic, TypeOK, Go
  <2>5. /\ \A u \in Thread \ {t} : at[u] = "store" => mem[t] # mem[u]
        /\ tmpCur[t] # Null => size[tmpCur[t]] # 0
    BY DEF Basic, AllInStep, InStep, Unmade
  <2> QED BY <2>2, <2>3, <2>4, <2>5, QuietBasic
<1> QED BY <1>1, <1>2

LEMMA MallocBasic ==
  ASSUME Basic, NEW t \in Thread, Malloc(t)
  PROVE  Basic'
<1> USE DEF Malloc
<1>0. PICK b \in Block : /\ size[b] = 0 /\ \A u \in Thread : mem[u] # b
                         /\ mem' = [mem EXCEPT ![t] = b]
  OBVIOUS
<1>1. InStep(t) /\ b # Null /\ at[t] = "malloc" /\ mem'[t] = b
  BY <1>0, Sizes DEF Basic, AllInStep, TypeOK
<1>2. TypeOK'
  BY <1>0 DEF Basic, TypeOK, Place, Go, lists
<1>3. /\ at'[t] = "store" /\ UNCHANGED <<want, tmpCur, mutex>>
      /\ \A u \in Thread \ {t} : at'[u] = at[u] /\ mem'[u] = mem[u]
  BY <1>0 DEF Basic, TypeOK, Go
<1>4. InStep(t)'
  BY <1>0, <1>1, <1>3 DEF InStep
<1>5. \A u \in Thread \ {t} : at[u] = "store" => mem'[t] # mem[u]
  BY <1>0, <1>1
<1>6. tmpCur[t] # Null => size[tmpCur[t]] # 0
  BY DEF Basic, Unmade
<1> QED BY <1>2, <1>3, <1>4, <1>5, <1>6, QuietBasic

LEMMA FlushBasic ==
  ASSUME Basic, NEW t \in Thread, Flush(t)
  PROVE  Basic'
<1> USE DEF Flush
<1>1. InStep(t)
  BY DEF Basic, AllInStep
<1>2. TypeOK'
  <2>1. Target(t) \in 0..(Word - 1)
    <3>1. Header \in Int /\ want[t] \in Int /\ allocateSize \in Int
      <4>1. want[t] \in Size \cup {0} /\ Size \cup {0} \subseteq Int
        BY MemoryAssumption DEF Basic, TypeOK
      <4>2. Header \in Int
        BY MemoryAssumption
      <4>3. allocateSize \in Int
        BY MemoryAssumption DEF Basic, TypeOK
      <4> QED BY <4>1, <4>2, <4>3
    <3> QED BY <3>1, Words DEF Target
  <2>2. \A u \in Thread : mutex' = u => u = t
    OBVIOUS
  <2> QED BY <2>1, <2>2 DEF Basic, TypeOK, Place, Go, lists
<1>3. /\ at'[t] = "flushing" /\ at[t] = "flush" /\ mutex' = t /\ UNCHANGED <<want, mem, tmpCur>>
      /\ \A u \in Thread \ {t} : at'[u] = at[u] /\ mutex # u
  BY MemoryAssumption DEF Basic, TypeOK, Go
<1>4. InStep(t)'
  BY <1>1, <1>3 DEF InStep
<1>5. /\ \A u \in Thread \ {t} : at[u] = "store" => mem[t] # mem[u]
      /\ tmpCur[t] # Null => size[tmpCur[t]] # 0
  BY DEF Basic, AllInStep, InStep, Unmade
<1> QED BY <1>2, <1>3, <1>4, <1>5, QuietBasic

LEMMA FlushSubtractBasic ==
  ASSUME Basic, NEW t \in Thread, FlushSubtract(t)
  PROVE  Basic'
<1> DEFINE b == tmpCur[t]
<1>0. /\ InStep(t) /\ at[t] = "subtract" /\ b \in Block /\ size[b] \in Nat /\ size[b] # 0
  BY Sizes DEF Basic, AllInStep, InStep, TypeOK, Unmade, FlushSubtract
<1>1. /\ allocateSize' = (reg[t] - size[b]) % Word
      /\ targetSize' = [targetSize EXCEPT ![t] = (targetSize[t] - size[b]) % Word]
      /\ races' \in {races, races \cup {"size"}}
      /\ flushed' = flushed \cup {b}
      /\ tmpCur' = [tmpCur EXCEPT ![t] = Null]
      /\ reg' = [reg EXCEPT ![t] = 0]
      /\ at' = [at EXCEPT ![t] = "hung"] \/ at' = [at EXCEPT ![t] = "flushing"]
      /\ UNCHANGED <<size, isfree, lists, mutex, want, mem, uses>>
  BY DEF FlushSubtract, Go, Basic, TypeOK
<1> HIDE DEF b
<1>2. TypeOK'
  <2>1. /\ allocateSize' \in 0..(Word - 1)
        /\ (targetSize[t] - size[b]) % Word \in 0..(Word - 1)
        /\ 0 \in 0..(Word - 1)
    <3>1. reg[t] - size[b] \in Int /\ targetSize[t] - size[b] \in Int
      BY <1>0 DEF Basic, TypeOK
    <3> QED BY <1>1, <3>1, Words, MemoryAssumption
  <2> QED BY <1>0, <1>1, <2>1 DEF Basic, TypeOK, Place, lists
<1>3. /\ at'[t] \in {"hung", "flushing"} /\ tmpCur'[t] = Null
      /\ \A u \in Thread \ {t} : at'[u] = at[u] /\ tmpCur'[u] = tmpCur[u]
  BY <1>1 DEF Basic, TypeOK
<1>4. InStep(t)'
  BY <1>0, <1>1, <1>3 DEF InStep
<1>5. \A u \in Thread \ {t} : at[u] = "store" => mem[t] # mem[u]
  BY DEF Basic, AllInStep, InStep
<1> QED BY <1>0, <1>1, <1>2, <1>3, <1>4, <1>5, QuietBasic

LEMMA FlushEndBasic ==
  ASSUME Basic, NEW t \in Thread, FlushEnd(t)
  PROVE  Basic'
<1> USE DEF FlushEnd
<1>1. InStep(t) /\ mutex = t
  BY DEF Basic, AllInStep, InStep
<1>2. TypeOK'
  BY MemoryAssumption DEF Basic, TypeOK, Place, Go, lists
<1>3. /\ at'[t] = "recheck" /\ at[t] = "flushing" /\ UNCHANGED <<want, mem, tmpCur>>
      /\ \A u \in Thread \ {t} : at'[u] = at[u] /\ mutex # u
  BY <1>1 DEF Basic, TypeOK, Go
<1>4. InStep(t)'
  BY <1>1, <1>3 DEF InStep
<1>5. /\ \A u \in Thread \ {t} : at[u] = "store" => mem[t] # mem[u]
      /\ tmpCur[t] # Null => size[tmpCur[t]] # 0
  BY DEF Basic, AllInStep, InStep, Unmade
<1> QED BY <1>2, <1>3, <1>4, <1>5, QuietBasic

\* A new block is in no list, so that its size is free to be set.
LEMMA StoreBasic ==
  ASSUME Basic, NEW t \in Thread, Store(t)
  PROVE  Basic'
<1> DEFINE b == mem[t]
<1>0. /\ InStep(t) /\ at[t] = "store" /\ b \in Block /\ size[b] = 0 /\ want[t] \in Size
      /\ \A u \in Thread \ {t} : mem[u] # b
      /\ want[t] \in Nat \ {0} /\ b # Null /\ b # Root
      /\ next[b] = Null /\ other[b] = Null /\ b \notin flushed
  <2>1. /\ InStep(t) /\ at[t] = "store" /\ b \in Block /\ size[b] = 0 /\ want[t] \in Size
        /\ \A u \in Thread \ {t} : mem[u] # b
    BY DEF Basic, AllInStep, InStep, TypeOK, Store
  <2>2. want[t] \in Nat \ {0} /\ b # Null /\ b # Root
    BY <2>1, MemoryAssumption
  <2>3. next[b] = Null /\ other[b] = Null /\ b \notin flushed
    BY <2>1 DEF Basic, Unmade
  <2> QED BY <2>1, <2>2, <2>3
<1>1. /\ allocateSize' = Added(t)
      /\ size' = [size EXCEPT ![b] = want[t]]
      /\ UNCHANGED <<next, other>>
      /\ isfree' = [isfree EXCEPT ![b] = FALSE]
      /\ uses' = [uses EXCEPT ![b] = 1]
      /\ races' \in {races, races \cup {"size"}}
      /\ Go(t, "idle")
      /\ want' = [want EXCEPT ![t] = 0]
      /\ mem' = [mem EXCEPT ![t] = Null]
      /\ reg' = [reg EXCEPT ![t] = 0]
      /\ UNCHANGED <<mutex, tmpCur, targetSize, flushed>>
  <2>1. [next EXCEPT ![b] = Null] = next /\ [other EXCEPT ![b] = Null] = other
    BY <1>0 DEF Basic, TypeOK
  <2> QED BY <2>1 DEF Store
<1> HIDE DEF b
<1>2. TypeOK'
  <2>1. allocateSize' \in 0..(Word - 1) /\ 0 \in 0..(Word - 1)
    <3>1. reg[t] + want[t] \in Int
      BY <1>0 DEF Basic, TypeOK
    <3> QED BY <1>1, <3>1, Words, MemoryAssumption DEF Added
  <2>2. size' \in [Block -> Size \cup {0}] /\ isfree' \in [Block -> BOOLEAN]
    BY <1>0, <1>1 DEF Basic, TypeOK
  <2>3. uses' \in [Block -> 0..MaxUses]
    BY <1>0, <1>1, MemoryAssumption DEF Basic, TypeOK
  <2> QED BY <1>0, <1>1, <2>1, <2>2, <2>3 DEF Basic, TypeOK, Place, Go
<1>3. /\ at'[t] = "idle" /\ mem'[t] = Null /\ tmpCur'[t] = Null
      /\ \A u \in Thread \ {t} : at'[u] = at[u] /\ mem'[u] = mem[u] /\ want'[u] = want[u]
      /\ size'[b] # 0 /\ \A c \in Block \ {b} : size'[c] = size[c]
  BY <1>0, <1>1 DEF Basic, TypeOK, Go, InStep
<1>4. AllInStep'
  <2>1. InStep(t)'
    BY <1>3 DEF InStep
  <2>2. ASSUME NEW u \in Thread \ {t} PROVE InStep(u)'
    <3>1. InStep(u) /\ mem[u] \in Block \cup {Null} /\ mem[u] # b
      BY <1>0 DEF Basic, AllInStep, TypeOK
    <3>2. at[u] = "store" => mem[u] # mem'[t]
      BY <1>3, <3>1 DEF InStep
    <3> QED BY <1>1, <1>3, <3>1, <3>2 DEF InStep
  <2> QED BY <2>1, <2>2 DEF AllInStep
<1>5. Unmade'
  <2>1. \A c \in Block : size'[c] = 0 =>
          /\ next'[c] = Null /\ other'[c] = Null
          /\ uses'[c] = 0 /\ ~isfree'[c] /\ c \notin flushed'
    BY <1>0, <1>1, <1>3 DEF Basic, Unmade, TypeOK
  <2>2. next'[Root] # Null => size'[next'[Root]] # 0
    BY <1>1, <1>3, Sizes DEF Basic, Unmade
  <2>3. \A u \in Thread : tmpCur'[u] # Null => size'[tmpCur'[u]] # 0
    BY <1>1, <1>3 DEF Basic, Unmade, TypeOK
  <2> QED BY <2>1, <2>2, <2>3 DEF Unmade
<1>6. SizesOrdered'
  <2> SUFFICES ASSUME NEW c \in Block, NEW d \in Block
               PROVE  /\ next[c] = d => size'[c] < size'[d]
                      /\ other[c] = d => size'[c] = size'[d]
    BY <1>1 DEF SizesOrdered
  <2>1. /\ next[c] = d => size[c] < size[d]
        /\ other[c] = d => size[c] = size[d]
        /\ size[c] \in Nat /\ size[d] \in Nat
    BY Sizes DEF Basic, SizesOrdered
  <2>2. c = b => next[c] # d /\ other[c] # d
    BY <1>0, Sizes DEF Basic
  <2>3. d = b /\ other[c] = d => c = b
    <3>1. d = b /\ other[c] = d => size[c] = 0
      BY <1>0, <2>1
    <3>2. size[c] = 0 => other[c] = Null
      BY DEF Basic, Unmade
    <3> QED BY <1>0, <3>1, <3>2
  <2>4. d = b => next[c] # d
    BY <1>0, <2>1
  <2> QED BY <1>3, <2>1, <2>2, <2>3, <2>4
<1> QED BY <1>2, <1>4, <1>5, <1>6 DEF Basic

\* Taking a block: the second of its size, or the only one.
LEMMA TakeFacts ==
  ASSUME Basic, NEW n \in Size, NEW b, b = First(next[Root], n),
         Fitting(next[Root], n) # {}, Take(b)
  PROVE  /\ b \in Chain /\ b \in Block /\ size[b] # 0
         /\ \/ \E r \in Block :
                 /\ r = other[b]
                 /\ UNCHANGED next /\ other' = [other EXCEPT ![b] = other[r]]
                 /\ uses' = [uses EXCEPT ![r] = @ + 1]
                 /\ isfree' = [isfree EXCEPT ![r] = FALSE]
            \/ \E e \in Chain \cup {Root} :
                 /\ other[b] = Null /\ next[e] = b
                 /\ next' = [next EXCEPT ![e] = next[b]] /\ UNCHANGED other
                 /\ uses' = [uses EXCEPT ![b] = @ + 1]
                 /\ isfree' = [isfree EXCEPT ![b] = FALSE]
<1>1. /\ b \in From(next, next[Root]) /\ b \in Block /\ size[b] >= n
  BY FirstFinds DEF Basic
<1>2. size[b] # 0
  <2>1. n \in Nat \ {0}
    BY MemoryAssumption
  <2> QED BY <1>1, <2>1
<1>3. CASE other[b] # Null
  <2>1. other[b] \in Block
    BY <1>1, <1>3, Sizes DEF Basic, Links
  <2> QED BY <1>1, <1>2, <1>3, <2>1 DEF Take, OtherWithout, Chain
<1>4. CASE other[b] = Null
  <2> DEFINE e == Before(next[Root], b)
  <2>1. e \in Chain \cup {Root} /\ next[e] = b
    <3>1. next[Root] \in Block \cup {Null}
      BY Sizes DEF Basic
    <3>2. IF b = next[Root] THEN e = Root ELSE e \in From(next, next[Root]) /\ next[e] = b
      BY <1>1, <3>1, BeforeFinds DEF Basic
    <3> QED BY <3>2 DEF Chain
  <2>2. /\ next' = [next EXCEPT ![e] = next[b]] /\ UNCHANGED other
        /\ uses' = [uses EXCEPT ![b] = @ + 1]
        /\ isfree' = [isfree EXCEPT ![b] = FALSE]
    BY <1>4 DEF Take, OtherWithout
  <2> HIDE DEF e
  <2> QED BY <1>1, <1>2, <1>4, <2>1, <2>2 DEF Chain
<1> QED BY <1>3, <1>4

LEMMA ChainFacts ==
  ASSUME Basic
  PROVE  /\ Chain \in SUBSET Block /\ Closed(next, Chain)
         /\ \A b \in Chain : size[b] # 0
         /\ next[Root] \in Chain \cup {Null}
         /\ Chain \cup {Root} \subseteq Block \cup {Root} /\ Root \notin Chain
<1>1. next[Root] \in Block \cup {Null} /\ Links(next)
  BY Sizes DEF Basic
<1>2. Chain \in SUBSET Block /\ Closed(next, Chain)
  BY <1>1, FromClosed DEF Chain
<1>3. \A b \in Chain : size[b] # 0
  BY <1>1, WalkMade DEF Basic, Unmade, Chain
<1>4. next[Root] \in Chain \cup {Null}
  BY <1>1, FromStart DEF Chain
<1> QED BY <1>2, <1>3, <1>4, Sizes DEF Basic

LEMMA TakeBasic ==
  ASSUME Basic, NEW t \in Thread, NEW n \in Size, at[t] = "idle",
         Fitting(next[Root], n) # {},
         \A b \in Block : uses[b] < MaxUses,
         Take(First(next[Root], n)),
         UNCHANGED <<at, want, size, allocateSize, mutex, mem, tmpCur, targetSize, reg,
                     flushed, races>>
  PROVE  Basic'
<1> DEFINE b == First(next[Root], n)
<1>0. b \in Chain /\ b \in Block /\ size[b] # 0 /\ size[b] \in Nat
  BY TakeFacts, Sizes DEF Basic
<1>1. Links(next) /\ Links(other) /\ next[Root] \in Block \cup {Null} /\ Null \notin Block
      /\ Root \notin Block /\ Chain \cup {Root} \subseteq Block \cup {Root}
      /\ \A c \in Block : size[c] \in Nat
  BY Sizes, ChainFacts DEF Basic
<1>2. AllInStep'
  BY DEF Basic, AllInStep, InStep
<1>3. ASSUME NEW r \in Block, r = other[b],
             UNCHANGED next, other' = [other EXCEPT ![b] = other[r]],
             uses' = [uses EXCEPT ![r] = @ + 1],
             isfree' = [isfree EXCEPT ![r] = FALSE]
      PROVE  Basic'
  <2> HIDE DEF b
  <2>1. size[r] = size[b] /\ other[r] \in Block \cup {Null}
        /\ (other[r] # Null => size[other[r]] = size[r])
    BY <1>0, <1>1, <1>3 DEF Basic, SizesOrdered, Links
  <2>2. other' \in [Block -> Block \cup {Null}] /\ uses' \in [Block -> 0..MaxUses]
    BY <1>0, <1>3, <2>1, MemoryAssumption DEF Basic, TypeOK
  <2>3. isfree' \in [Block -> BOOLEAN]
    BY <1>3 DEF Basic, TypeOK
  <2>4. TypeOK'
    BY <1>3, <2>2, <2>3 DEF Basic, TypeOK
  <2>5. Unmade'
    <3>1. \A c \in Block : size[c] = 0 =>
            /\ next'[c] = Null /\ other'[c] = Null
            /\ uses'[c] = 0 /\ ~isfree'[c] /\ c \notin flushed'
      BY <1>0, <1>3, <2>1 DEF Basic, Unmade, TypeOK
    <3> QED BY <1>3, <3>1 DEF Basic, Unmade
  <2>6. SizesOrdered'
    BY <1>0, <1>3, <2>1 DEF Basic, SizesOrdered, TypeOK
  <2> QED BY <1>2, <2>4, <2>5, <2>6 DEF Basic
<1>4. ASSUME NEW e \in Chain \cup {Root}, next[e] = b,
             next' = [next EXCEPT ![e] = next[b]], UNCHANGED other,
             uses' = [uses EXCEPT ![b] = @ + 1],
             isfree' = [isfree EXCEPT ![b] = FALSE]
      PROVE  Basic'
  <2> HIDE DEF b
  <2>1. /\ next[b] \in Block \cup {Null}
        /\ next[b] # Null => size[next[b]] \in Nat /\ size[b] < size[next[b]]
    BY <1>0, <1>1 DEF Basic, SizesOrdered, Links
  <2>2. next' \in [Block \cup {Root} -> Block \cup {Null}] /\ uses' \in [Block -> 0..MaxUses]
    BY <1>0, <1>1, <1>4, <2>1, MemoryAssumption DEF Basic, TypeOK
  <2>3. isfree' \in [Block -> BOOLEAN]
    BY <1>0, <1>4 DEF Basic, TypeOK
  <2>4. TypeOK'
    BY <1>4, <2>2, <2>3 DEF Basic, TypeOK
  <2>5. Unmade'
    <3>1. \A c \in Block : size[c] = 0 =>
            /\ next'[c] = Null /\ other'[c] = Null
            /\ uses'[c] = 0 /\ ~isfree'[c] /\ c \notin flushed'
      BY <1>0, <1>1, <1>4 DEF Basic, Unmade, TypeOK
    <3>2. next'[Root] # Null => size[next'[Root]] # 0
      BY <1>0, <1>1, <1>4, <2>1 DEF Basic, Unmade, TypeOK
    <3> QED BY <1>4, <3>1, <3>2 DEF Basic, Unmade
  <2>6. SizesOrdered'
    <3> SUFFICES ASSUME NEW c \in Block, NEW d \in Block, next'[c] = d
                 PROVE  size[c] < size[d]
      BY <1>4 DEF Basic, SizesOrdered
    <3>1. CASE c = e
      <4>1. d = next[b] /\ size[c] < size[b]
        BY <1>0, <1>1, <1>4, <3>1 DEF Basic, SizesOrdered, TypeOK
      <4> QED BY <1>0, <1>1, <2>1, <4>1
    <3>2. CASE c # e
      BY <1>4, <3>2 DEF Basic, SizesOrdered, TypeOK
    <3> QED BY <3>1, <3>2
  <2> QED BY <1>2, <2>4, <2>5, <2>6 DEF Basic
<1> QED BY <1>3, <1>4, TakeFacts

\* flush takes the first block of the chain; the second of its size takes its place.
LEMMA FlushUnlinkBasic ==
  ASSUME Basic, NEW t \in Thread, FlushUnlink(t)
  PROVE  Basic'
<1> DEFINE b == next[Root]
<1>0. /\ InStep(t) /\ at[t] = "flushing" /\ b \in Block /\ b # Null /\ size[b] # 0
      /\ b # Root /\ Root \notin Block /\ Null \notin Block
  BY Sizes DEF Basic, AllInStep, FlushUnlink, Unmade
<1>1. /\ next' = IF other[b] # Null
                 THEN [next EXCEPT ![Root] = other[b], ![other[b]] = next[b]]
                 ELSE [next EXCEPT ![Root] = next[b]]
      /\ tmpCur' = [tmpCur EXCEPT ![t] = b]
      /\ reg' = [reg EXCEPT ![t] = allocateSize]
      /\ at' = [at EXCEPT ![t] = "subtract"]
      /\ UNCHANGED <<size, isfree, other, allocateSize, mutex, want, mem, targetSize,
                     uses, flushed, races>>
  BY DEF FlushUnlink, Go
<1> HIDE DEF b
<1>2. /\ next[b] \in Block \cup {Null} /\ other[b] \in Block \cup {Null}
      /\ \A c \in Block : size[c] \in Nat
      /\ next[b] # Null => size[b] < size[next[b]]
      /\ other[b] # Null => size[other[b]] = size[b]
  BY <1>0, Sizes DEF Basic, Links, SizesOrdered
<1>3. TypeOK'
  <2>1. next' \in [Block \cup {Root} -> Block \cup {Null}]
    BY <1>1, <1>2 DEF Basic, TypeOK
  <2> QED BY <1>0, <1>1, <2>1 DEF Basic, TypeOK, Place
<1>4. /\ at'[t] = "subtract" /\ tmpCur'[t] = b
      /\ \A u \in Thread \ {t} : at'[u] = at[u] /\ tmpCur'[u] = tmpCur[u]
  BY <1>1 DEF Basic, TypeOK
<1>5. AllInStep'
  BY <1>0, <1>1, <1>4 DEF Basic, AllInStep, InStep
<1>6. Unmade'
  <2>1. \A c \in Block : size[c] = 0 => next'[c] = Null
    BY <1>0, <1>1, <1>2 DEF Basic, Unmade, TypeOK
  <2>2. next'[Root] # Null => size[next'[Root]] # 0
    <3>1. next'[Root] = IF other[b] # Null THEN other[b] ELSE next[b]
      BY <1>0, <1>1, <1>2 DEF Basic, TypeOK
    <3>2. CASE other[b] # Null
      BY <1>0, <1>2, <3>1, <3>2
    <3>3. CASE other[b] = Null
      BY <1>0, <1>2, <3>1, <3>3
    <3> QED BY <3>2, <3>3
  <2>3. \A u \in Thread : tmpCur'[u] # Null => size[tmpCur'[u]] # 0
    BY <1>0, <1>4 DEF Basic, Unmade
  <2> QED BY <1>1, <2>1, <2>2, <2>3 DEF Basic, Unmade
<1>7. SizesOrdered'
  <2> SUFFICES ASSUME NEW c \in Block, NEW d \in Block, next'[c] = d
               PROVE  size[c] < size[d]
    BY <1>1 DEF Basic, SizesOrdered
  <2>1. CASE c = other[b]
    <3>1. d = next[b] /\ size[c] = size[b]
      BY <1>0, <1>1, <1>2, <2>1 DEF Basic, TypeOK
    <3> QED BY <1>0, <1>2, <3>1
  <2>2. CASE c # other[b]
    <3>1. next[c] = d
      BY <1>0, <1>1, <2>2 DEF Basic, TypeOK
    <3> QED BY <3>1 DEF Basic, SizesOrdered
  <2> QED BY <2>1, <2>2
<1> QED BY <1>3, <1>5, <1>6, <1>7 DEF Basic

LEMMA FreeBasic ==
  ASSUME Basic, NEW t \in Thread, NEW b \in Block, Free(t, b)
  PROVE  Basic'
<1>0. /\ at[t] = "idle" /\ uses[b] \in 1..MaxUses /\ size[b] # 0 /\ b # Null
      /\ Root \notin Block /\ InStep(t)
      /\ uses' = [uses EXCEPT ![b] = @ - 1]
      /\ UNCHANGED <<size, allocateSize, mutex, want, targetSize, reg, flushed, races>>
  BY Sizes, MemoryAssumption DEF Basic, AllInStep, TypeOK, Free, Unmade
<1>1. uses' \in [Block -> 0..MaxUses] /\ \A c \in Block \ {b} : uses'[c] = uses[c]
  BY <1>0, MemoryAssumption DEF Basic, TypeOK
<1>2. CASE UNCHANGED <<isfree, lists, at, mem, tmpCur>>
  <2>1. TypeOK'
    BY <1>0, <1>1, <1>2 DEF Basic, TypeOK, lists
  <2>2. AllInStep' /\ SizesOrdered'
    BY <1>0, <1>2 DEF Basic, AllInStep, InStep, SizesOrdered, lists
  <2>3. Unmade'
    BY <1>0, <1>1, <1>2 DEF Basic, Unmade, lists
  <2> QED BY <2>1, <2>2, <2>3 DEF Basic
<1>3. CASE /\ next' = [next EXCEPT ![b] = Null] /\ other' = [other EXCEPT ![b] = Null]
           /\ isfree' = [isfree EXCEPT ![b] = TRUE]
           /\ mem' = [mem EXCEPT ![t] = b]
           /\ tmpCur' = [tmpCur EXCEPT ![t] = next[Root]]
           /\ Go(t, "insert")
  <2>1. TypeOK'
    <3>1. next[Root] \in Block \cup {Null}
      BY Sizes DEF Basic
    <3>2. isfree' \in [Block -> BOOLEAN]
      BY <1>3 DEF Basic, TypeOK
    <3>3. /\ next' \in [Block \cup {Root} -> Block \cup {Null}]
          /\ other' \in [Block -> Block \cup {Null}]
          /\ mem' \in [Thread -> Block \cup {Null}] /\ tmpCur' \in [Thread -> Block \cup {Null}]
          /\ at' \in [Thread -> Place]
      BY <1>3, <3>1 DEF Basic, TypeOK, Go, Place
    <3>4. \A u \in Thread : mutex = u => u # t /\ at'[u] = at[u]
      BY <1>0, <1>3 DEF Basic, TypeOK, Go
    <3> QED BY <1>0, <1>1, <3>2, <3>3, <3>4 DEF Basic, TypeOK
  <2>2. /\ at'[t] = "insert" /\ mem'[t] = b /\ tmpCur'[t] = next[Root]
        /\ \A u \in Thread \ {t} : at'[u] = at[u] /\ tmpCur'[u] = tmpCur[u] /\ mem'[u] = mem[u]
    BY <1>3 DEF Basic, TypeOK, Go
  <2>3. AllInStep'
    <3>1. InStep(t)'
      BY <1>0, <2>2 DEF InStep
    <3>2. ASSUME NEW u \in Thread \ {t} PROVE InStep(u)'
      <4>1. InStep(u)
        BY DEF Basic, AllInStep
      <4>2. at[u] = "store" => mem[u] # b
        BY <1>0, <4>1 DEF InStep
      <4> QED BY <1>0, <2>2, <4>1, <4>2 DEF InStep
    <3> QED BY <3>1, <3>2 DEF AllInStep
  <2>4. Unmade'
    <3>1. next'[Root] = next[Root]
      BY <1>0, <1>3 DEF Basic, TypeOK
    <3>2. \A u \in Thread : tmpCur'[u] # Null => size[tmpCur'[u]] # 0
      BY <2>2 DEF Basic, Unmade
    <3>3. \A c \in Block : size[c] = 0 =>
            /\ next'[c] = Null /\ other'[c] = Null
            /\ uses'[c] = 0 /\ ~isfree'[c] /\ c \notin flushed'
      BY <1>0, <1>1, <1>3 DEF Basic, Unmade, TypeOK
    <3> QED BY <1>0, <3>1, <3>2, <3>3 DEF Basic, Unmade
  <2>5. SizesOrdered'
    BY <1>0, <1>3, Sizes DEF Basic, SizesOrdered, TypeOK
  <2> QED BY <2>1, <2>3, <2>4, <2>5 DEF Basic
<1> QED BY <1>2, <1>3 DEF Free

\* Where a freed block goes, on a walk that begins at c: behind the first of its size,
\* or between a smaller and a larger one.
LEMMA LinkFacts ==
  ASSUME Basic, NEW b \in Block, size[b] # 0, NEW c \in Block \cup {Null},
         c # Null => size[c] # 0, Link(b, c)
  PROVE  \/ \E d \in From(next, c) :
              /\ d \in Block /\ size[d] = size[b]
              /\ other' = [other EXCEPT ![b] = other[d], ![d] = b] /\ UNCHANGED next
         \/ \E d \in From(next, c) \cup {Null}, e \in From(next, c) \cup {Root} :
              /\ next' = [next EXCEPT ![b] = IF d = Null THEN @ ELSE d, ![e] = b]
              /\ UNCHANGED other
              /\ d # Null => d \in Block /\ size[b] < size[d]
              /\ IF e = Root THEN d = c ELSE next[e] = d
              /\ e # Root => e \in Block /\ size[e] # 0 /\ size[e] < size[b]
<1> DEFINE up == Fitting(c, size[b])
           d == IF up = {} THEN Null ELSE First(c, size[b])
           e == Before(c, d)
<1>1. /\ Null \notin Block /\ Root \notin Block /\ \A x \in Block : size[x] \in Nat
      /\ From(next, c) \in SUBSET Block /\ Closed(next, From(next, c))
      /\ \A x \in From(next, c) : x \in Block /\ size[x] # 0
  BY Sizes, FromClosed, WalkMade DEF Basic
<1>2. /\ d # Null => /\ d \in From(next, c) /\ d \in Block /\ size[d] >= size[b]
                     /\ \A x \in up : size[d] <= size[x]
      /\ d = Null => up = {}
  <2>1. CASE up = {}
    BY <2>1
  <2>2. CASE up # {}
    BY <1>1, <2>2, FirstFinds DEF Basic
  <2> QED BY <2>1, <2>2
<1>3. IF d = c THEN e = Root ELSE e \in From(next, c) /\ next[e] = d
  <2>1. d \in From(next, c) \/ d = Null
    BY <1>2
  <2> HIDE DEF d
  <2> QED BY <2>1, BeforeFinds DEF Basic
<1>4. CASE Among(b, d)
  <2>1. d # Null /\ size[d] = size[b]
    BY <1>4 DEF Among
  <2>2. other' = [other EXCEPT ![b] = other[d], ![d] = b] /\ UNCHANGED next
    BY <1>4 DEF Link
  <2> HIDE DEF d
  <2> QED BY <1>2, <2>1, <2>2
<1>5. CASE ~Among(b, d)
  <2>1. /\ next' = [next EXCEPT ![b] = IF d = Null THEN @ ELSE d, ![e] = b]
        /\ UNCHANGED other
    BY <1>5 DEF Link
  <2>2. d # Null => d \in Block /\ size[b] < size[d]
    <3> SUFFICES ASSUME d # Null PROVE d \in Block /\ size[b] < size[d]
      OBVIOUS
    <3>1. size[d] # size[b]
      BY <1>5 DEF Among
    <3> HIDE DEF d
    <3> QED BY <1>1, <1>2, <3>1
  <2>3. e # Root => e \in From(next, c) /\ next[e] = d /\ e \in Block /\ size[e] # 0
    BY <1>1, <1>3
  <2>4. e # Root => size[e] < size[b]
    <3> SUFFICES ASSUME e # Root, size[e] >= size[b] PROVE FALSE
      BY <1>1, <2>3
    <3>1. e \in up
      BY <1>1, <2>3 DEF Fitting
    <3>2. d # Null
      BY <1>2, <3>1
    <3>3. size[d] <= size[e]
      BY <1>2, <3>1, <3>2
    <3>4. size[e] < size[d]
      <4> HIDE DEF d, e
      <4> QED BY <1>2, <2>3, <3>2 DEF Basic, SizesOrdered
    <3> HIDE DEF d, e
    <3> QED BY <1>1, <1>2, <2>3, <3>2, <3>3, <3>4
  <2>5. d \in From(next, c) \cup {Null} /\ e \in From(next, c) \cup {Root}
        /\ IF e = Root THEN d = c ELSE next[e] = d
    <3>1. e = Root => d = c
      BY <1>1, <1>3
    <3> HIDE DEF d, e
    <3> QED BY <1>2, <2>3, <3>1
  <2> HIDE DEF d, e
  <2> QED BY <2>1, <2>2, <2>3, <2>4, <2>5
<1> QED BY <1>4, <1>5

LEMMA InsertBasic ==
  ASSUME Basic, NEW t \in Thread, Insert(t)
  PROVE  Basic'
<1> DEFINE b == mem[t]
           c == tmpCur[t]
<1>0. /\ at[t] = "insert" /\ b \in Block /\ size[b] # 0 /\ b # Root /\ b # Null
      /\ c \in Block \cup {Null} /\ (c # Null => size[c] # 0)
      /\ Null \notin Block /\ Root \notin Block /\ \A x \in Block : size[x] \in Nat
  BY Sizes DEF Basic, TypeOK, AllInStep, InStep, Unmade, Insert
<1>1. /\ Link(b, c)
      /\ races' \in {races, races \cup {"list"}}
      /\ at' = [at EXCEPT ![t] = "idle"]
      /\ mem' = [mem EXCEPT ![t] = Null]
      /\ tmpCur' = [tmpCur EXCEPT ![t] = Null]
      /\ UNCHANGED <<size, isfree, allocateSize, mutex, want, targetSize, reg, uses, flushed>>
      /\ mutex = Null
  BY DEF Insert, Go
<1>2. /\ From(next, c) \in SUBSET Block
  BY Sizes, FromClosed DEF Basic
<1>3. ASSUME NEW d \in From(next, c), d \in Block, size[d] = size[b],
             other' = [other EXCEPT ![b] = other[d], ![d] = b], UNCHANGED next
      PROVE  /\ next' \in [Block \cup {Root} -> Block \cup {Null}]
             /\ other' \in [Block -> Block \cup {Null}]
             /\ SizesOrdered'
             /\ next'[Root] # Null => size[next'[Root]] # 0
             /\ \A x \in Block : size[x] = 0 => next'[x] = Null /\ other'[x] = Null
  <2> HIDE DEF b, c
  <2>1. other[d] \in Block \cup {Null} /\ (other[d] # Null => size[other[d]] = size[d])
    BY <1>3, Sizes DEF Basic, Links, SizesOrdered
  <2>2. other' \in [Block -> Block \cup {Null}]
    BY <1>0, <1>3, <2>1 DEF Basic, TypeOK
  <2>3. SizesOrdered'
    BY <1>0, <1>1, <1>3, <2>1 DEF Basic, SizesOrdered, TypeOK
  <2>4. \A x \in Block : size[x] = 0 => next'[x] = Null /\ other'[x] = Null
    BY <1>0, <1>3 DEF Basic, Unmade, TypeOK
  <2> QED BY <1>3, <2>2, <2>3, <2>4 DEF Basic, TypeOK, Unmade
<1>4. ASSUME NEW d \in From(next, c) \cup {Null}, NEW e \in From(next, c) \cup {Root},
             next' = [next EXCEPT ![b] = IF d = Null THEN @ ELSE d, ![e] = b],
             UNCHANGED other,
             d # Null => d \in Block /\ size[b] < size[d],
             e # Root => e \in Block /\ size[e] # 0 /\ size[e] < size[b]
      PROVE  /\ next' \in [Block \cup {Root} -> Block \cup {Null}]
             /\ other' \in [Block -> Block \cup {Null}]
             /\ SizesOrdered'
             /\ next'[Root] # Null => size[next'[Root]] # 0
             /\ \A x \in Block : size[x] = 0 => next'[x] = Null /\ other'[x] = Null
  <2> HIDE DEF b, c
  <2>1. e # b /\ e \in Block \cup {Root}
    BY <1>0, <1>4
  <2>2. /\ next'[e] = b /\ next'[b] = (IF d = Null THEN next[b] ELSE d)
        /\ \A x \in (Block \cup {Root}) \ {b, e} : next'[x] = next[x]
    BY <1>0, <1>4, <2>1 DEF Basic, TypeOK
  <2>3. next' \in [Block \cup {Root} -> Block \cup {Null}]
    BY <1>0, <1>4 DEF Basic, TypeOK
  <2>4. SizesOrdered'
    <3> SUFFICES ASSUME NEW x \in Block, NEW y \in Block, next'[x] = y
                 PROVE  size[x] < size[y]
      BY <1>1, <1>4 DEF Basic, SizesOrdered
    <3>1. CASE x = e
      BY <1>0, <1>4, <2>2, <3>1
    <3>2. CASE x = b
      BY <1>0, <1>4, <2>2, <3>2 DEF Basic, SizesOrdered
    <3>3. CASE x \notin {b, e}
      BY <2>2, <3>3 DEF Basic, SizesOrdered
    <3> QED BY <3>1, <3>2, <3>3
  <2>5. next'[Root] # Null => size[next'[Root]] # 0
    BY <1>0, <2>2 DEF Basic, Unmade
  <2>6. \A x \in Block : size[x] = 0 => next'[x] = Null /\ other'[x] = Null
    BY <1>0, <1>4, <2>2 DEF Basic, Unmade
  <2> QED BY <1>4, <2>3, <2>4, <2>5, <2>6 DEF Basic, TypeOK
<1>5. /\ next' \in [Block \cup {Root} -> Block \cup {Null}]
      /\ other' \in [Block -> Block \cup {Null}]
      /\ SizesOrdered'
      /\ next'[Root] # Null => size[next'[Root]] # 0
      /\ \A x \in Block : size[x] = 0 => next'[x] = Null /\ other'[x] = Null
  <2> HIDE DEF b, c
  <2> QED BY <1>0, <1>1, <1>3, <1>4, LinkFacts
<1> HIDE DEF b, c
<1>6. TypeOK'
  <2>1. \A u \in Thread : mutex' # u
    BY <1>1, MemoryAssumption
  <2>2. /\ at' \in [Thread -> Place] /\ mem' \in [Thread -> Block \cup {Null}]
        /\ tmpCur' \in [Thread -> Block \cup {Null}] /\ races' \subseteq {"list", "size"}
    BY <1>1 DEF Basic, TypeOK, Place
  <2> QED BY <1>1, <1>5, <2>1, <2>2 DEF Basic, TypeOK
<1>7. /\ at'[t] = "idle" /\ mem'[t] = Null /\ tmpCur'[t] = Null
      /\ \A u \in Thread \ {t} : at'[u] = at[u] /\ tmpCur'[u] = tmpCur[u] /\ mem'[u] = mem[u]
  BY <1>1 DEF Basic, TypeOK
<1>8. AllInStep'
  BY <1>1, <1>7 DEF Basic, AllInStep, InStep
<1>9. Unmade'
  <2>1. \A u \in Thread : tmpCur'[u] # Null => size[tmpCur'[u]] # 0
    BY <1>7 DEF Basic, Unmade
  <2> QED BY <1>1, <1>5, <2>1 DEF Basic, Unmade
<1> QED BY <1>5, <1>6, <1>8, <1>9 DEF Basic

LEMMA NextBasic ==
  ASSUME Basic, [Next]_vars
  PROVE  Basic'
<1>1. CASE UNCHANGED vars
  BY <1>1 DEF Basic, TypeOK, AllInStep, InStep, Unmade, SizesOrdered, vars, lists, locals
<1>2. CASE Next
  <2>1. PICK t \in Thread :
          \/ \E n \in Size : Allocate(t, n)
          \/ CheckRoom(t) \/ Recheck(t) \/ Malloc(t) \/ MallocFails(t) \/ Store(t)
          \/ Flush(t) \/ FlushUnlink(t) \/ FlushSubtract(t) \/ FlushEnd(t)
          \/ \E b \in Block : Free(t, b)
          \/ Insert(t)
    BY <1>2 DEF Next
  <2>2. ASSUME NEW n \in Size, Allocate(t, n) PROVE Basic'
    <3>1. CASE Fitting(next[Root], n) # {}
      BY <2>2, <3>1, TakeBasic DEF Allocate
    <3>2. CASE Fitting(next[Root], n) = {}
      BY <2>2, <3>2, MissBasic DEF Allocate
    <3> QED BY <3>1, <3>2
  <2>3. MallocFails(t) => Basic'
    BY DeadBasic DEF MallocFails
  <2> QED BY <2>1, <2>2, <2>3, CheckRoomBasic, RecheckBasic, MallocBasic, StoreBasic,
             FlushBasic, FlushUnlinkBasic, FlushSubtractBasic, FlushEndBasic, FreeBasic,
             InsertBasic
<1> QED BY <1>1, <1>2

-----------------------------------------------------------------------------
(* What a step does to the chain and to the lists. *)

Spread(link, S) == UNION {From(link, b) : b \in S}

\* The chain is the least set along next, the lists the least set along other that
\* holds the chain.
LEMMA Walked ==
  ASSUME NEW nx, NEW ot, Links(nx), Links(ot), nx[Root] \in Block \cup {Null},
         NEW C \in SUBSET Block, NEW L \in SUBSET Block,
         Closed(nx, C), nx[Root] \in C \cup {Null},
         \A T \in SUBSET Block : Closed(nx, T) /\ nx[Root] \in T \cup {Null} => C \subseteq T,
         Closed(ot, L), C \subseteq L,
         \A T \in SUBSET Block : Closed(ot, T) /\ C \subseteq T => L \subseteq T
  PROVE  From(nx, nx[Root]) = C /\ Spread(ot, C) = L
<1>1. From(nx, nx[Root]) = C
  <2>1. From(nx, nx[Root]) \subseteq C
    BY FromLeast
  <2>2. /\ From(nx, nx[Root]) \in SUBSET Block /\ Closed(nx, From(nx, nx[Root]))
        /\ nx[Root] \in From(nx, nx[Root]) \cup {Null}
    BY FromClosed, FromStart
  <2> QED BY <2>1, <2>2
<1> DEFINE U == UNION {From(ot, b) : b \in C}
<1>2. U \subseteq L
  <2> SUFFICES ASSUME NEW b \in C PROVE From(ot, b) \subseteq L
    OBVIOUS
  <2> QED BY FromLeast
<1>3. L \subseteq U
  <2>1. \A b \in C : /\ From(ot, b) \in SUBSET Block /\ Closed(ot, From(ot, b))
                     /\ b \in From(ot, b)
    BY FromClosed, FromStart
  <2>2. U \in SUBSET Block /\ C \subseteq U /\ Closed(ot, U)
    BY <2>1 DEF Closed
  <2> HIDE DEF U
  <2> QED BY <2>2
<1> QED BY <1>1, <1>2, <1>3 DEF Spread

LEMMA ListedFacts ==
  ASSUME Basic
  PROVE  /\ Listed \in SUBSET Block /\ Chain \subseteq Listed
         /\ Closed(other, Listed)
         /\ \A T \in SUBSET Block : Closed(other, T) /\ Chain \subseteq T => Listed \subseteq T
         /\ \A T \in SUBSET Block :
              Closed(next, T) /\ next[Root] \in T \cup {Null} => Chain \subseteq T
<1>1. Links(other) /\ Chain \in SUBSET Block
  BY Sizes, ChainFacts DEF Basic
<1>2. \A b \in Chain : From(other, b) \in SUBSET Block /\ Closed(other, From(other, b))
                       /\ b \in From(other, b)
  BY <1>1, FromClosed, FromStart
<1>3. Listed = UNION {From(other, b) : b \in Chain}
  BY DEF Listed, Chain
<1>4. Listed \in SUBSET Block /\ Chain \subseteq Listed /\ Closed(other, Listed)
  BY <1>2, <1>3 DEF Closed
<1>5. ASSUME NEW T \in SUBSET Block, Closed(other, T), Chain \subseteq T
      PROVE  Listed \subseteq T
  <2>1. \A b \in Chain : From(other, b) \subseteq T
    BY <1>5, FromLeast
  <2> QED BY <1>3, <2>1
<1>6. \A T \in SUBSET Block : Closed(next, T) /\ next[Root] \in T \cup {Null} => Chain \subseteq T
  BY FromLeast DEF Chain
<1> QED BY <1>4, <1>5, <1>6

\* Pointers that are in no list do not matter.
LEMMA ListsSame ==
  ASSUME Basic, TypeOK', OnePredecessor, next'[Root] = next[Root],
         \A b \in Listed : next'[b] = next[b] /\ other'[b] = other[b]
  PROVE  Chain' = Chain /\ Listed' = Listed /\ OnePredecessor'
<1>0. /\ Chain \in SUBSET Block /\ Listed \in SUBSET Block /\ Chain \subseteq Listed
      /\ Closed(next, Chain) /\ next[Root] \in Chain \cup {Null} /\ Closed(other, Listed)
      /\ \A T \in SUBSET Block : Closed(other, T) /\ Chain \subseteq T => Listed \subseteq T
      /\ \A T \in SUBSET Block :
           Closed(next, T) /\ next[Root] \in T \cup {Null} => Chain \subseteq T
      /\ Root \notin Block /\ Null \notin Block
  BY ListedFacts, ChainFacts, Sizes DEF Basic
<1>1. Links(next') /\ Links(other') /\ next'[Root] \in Block \cup {Null}
  BY DEF TypeOK, Links
<1>2. Closed(next', Chain) /\ Closed(other', Listed)
  BY <1>0 DEF Closed
<1>3. ASSUME NEW T \in SUBSET Block, Closed(next', T), next'[Root] \in T \cup {Null}
      PROVE  Chain \subseteq T
  <2>1. Closed(next, T \cap Chain) /\ next[Root] \in (T \cap Chain) \cup {Null}
    BY <1>0, <1>3 DEF Closed
  <2> QED BY <1>0, <2>1
<1>4. ASSUME NEW T \in SUBSET Block, Closed(other', T), Chain \subseteq T
      PROVE  Listed \subseteq T
  <2>1. Closed(other, T \cap Listed) /\ Chain \subseteq T \cap Listed
    BY <1>0, <1>4 DEF Closed
  <2> QED BY <1>0, <2>1
<1>5. From(next', next'[Root]) = Chain /\ Spread(other', Chain) = Listed
  BY <1>0, <1>1, <1>2, <1>3, <1>4, Walked
<1>6. Chain' = Chain /\ Listed' = Listed
  BY <1>5 DEF Chain, Listed, Spread
<1>7. OnePredecessor'
  BY <1>0, <1>6 DEF OnePredecessor
<1> QED BY <1>6, <1>7

\* A block goes behind the first of its size.
LEMMA LinkedBehind ==
  ASSUME Basic, TypeOK', OnePredecessor, NEW b \in Block, NEW d \in Chain,
         b \notin Listed, next[b] = Null, other[b] = Null,
         other' = [other EXCEPT ![b] = other[d], ![d] = b], UNCHANGED next
  PROVE  Chain' = Chain /\ Listed' = Listed \cup {b} /\ OnePredecessor'
<1>0. /\ Chain \in SUBSET Block /\ Listed \in SUBSET Block /\ Chain \subseteq Listed
      /\ Closed(next, Chain) /\ next[Root] \in Chain \cup {Null} /\ Closed(other, Listed)
      /\ \A T \in SUBSET Block : Closed(other, T) /\ Chain \subseteq T => Listed \subseteq T
      /\ \A T \in SUBSET Block :
           Closed(next, T) /\ next[Root] \in T \cup {Null} => Chain \subseteq T
      /\ Root \notin Block /\ Null \notin Block
  BY ListedFacts, ChainFacts, Sizes DEF Basic
<1>1. Links(next') /\ Links(other') /\ next'[Root] \in Block \cup {Null}
  BY DEF TypeOK, Links
<1>2. /\ d # b /\ other'[d] = b /\ other'[b] = other[d]
      /\ \A x \in Block \ {b, d} : other'[x] = other[x]
  BY <1>0 DEF Basic, TypeOK
<1> DEFINE L == Listed \cup {b}
<1>3. Closed(other', L) /\ Chain \subseteq L /\ L \in SUBSET Block
  BY <1>0, <1>2 DEF Closed
<1>4. ASSUME NEW T \in SUBSET Block, Closed(other', T), Chain \subseteq T
      PROVE  L \subseteq T
  <2>1. b \in T
    BY <1>0, <1>2, <1>4 DEF Closed
  <2>2. Closed(other, T)
    BY <1>0, <1>2, <1>4, <2>1 DEF Closed
  <2> QED BY <1>0, <1>4, <2>1, <2>2
<1> HIDE DEF L
<1>5. From(next', next'[Root]) = Chain /\ Spread(other', Chain) = L
  <2>1. /\ Closed(next', Chain) /\ next'[Root] \in Chain \cup {Null}
        /\ \A T \in SUBSET Block :
             Closed(next', T) /\ next'[Root] \in T \cup {Null} => Chain \subseteq T
    BY <1>0
  <2> QED BY ONLY <1>0, <1>1, <1>3, <1>4, <2>1, Walked
<1>6. Chain' = Chain /\ Listed' = Listed \cup {b}
  BY <1>5 DEF Chain, Listed, Spread, L
<1>7. OnePredecessor'
  <2>1. \A x \in Listed' : x \notin Chain' => next'[x] = Null
    BY <1>6 DEF OnePredecessor
  <2>2. \A x, y \in Chain' \cup {Root} : next'[x] = next'[y] /\ next'[x] # Null => x = y
    BY <1>6 DEF OnePredecessor
  <2>5. /\ d \in Listed /\ d \in Block /\ other'[d] = b /\ other'[b] = other[d]
        /\ \A x \in Listed \ {d} : other'[x] = other[x]
        /\ \A x \in Listed : other[x] # b
        /\ b # Null
    BY <1>0, <1>2 DEF Closed
  <2>3. \A x, y \in Listed' : other'[x] = other'[y] /\ other'[x] # Null => x = y
    <3>1. \A x, y \in Listed : other[x] = other[y] /\ other[x] # Null => x = y
      BY DEF OnePredecessor
    <3> SUFFICES ASSUME NEW x \in Listed \cup {b}, NEW y \in Listed \cup {b},
                        other'[x] = other'[y], other'[x] # Null
                 PROVE  x = y
      BY <1>6
    <3>2. CASE x = d
      BY <2>5, <3>2
    <3>3. CASE y = d
      BY <2>5, <3>3
    <3>4. CASE x # d /\ y # d
      BY <2>5, <3>1, <3>4
    <3> QED BY <3>2, <3>3, <3>4
  <2>4. \A x \in Chain', y \in Listed' : other'[y] # x
    <3>1. \A x \in Chain, y \in Listed : other[y] # x
      BY DEF OnePredecessor
    <3>2. b \notin Chain
      BY <1>0
    <3> SUFFICES ASSUME NEW x \in Chain, NEW y \in Listed \cup {b} PROVE other'[y] # x
      BY <1>6
    <3> QED BY <2>5, <3>1, <3>2
  <2> QED BY <2>1, <2>2, <2>3, <2>4 DEF OnePredecessor
<1> QED BY <1>6, <1>7

\* A block goes between a smaller and a larger one.
LEMMA LinkedBetween ==
  ASSUME Basic, TypeOK', OnePredecessor, NEW b \in Block,
         NEW d \in Chain \cup {Null}, NEW e \in Chain \cup {Root},
         b \notin Listed, next[b] = Null, other[b] = Null, next[e] = d,
         next' = [next EXCEPT ![b] = IF d = Null THEN @ ELSE d, ![e] = b],
         UNCHANGED other
  PROVE  Chain' = Chain \cup {b} /\ Listed' = Listed \cup {b} /\ OnePredecessor'
<1>0. /\ Chain \in SUBSET Block /\ Listed \in SUBSET Block /\ Chain \subseteq Listed
      /\ Closed(next, Chain) /\ next[Root] \in Chain \cup {Null} /\ Closed(other, Listed)
      /\ \A T \in SUBSET Block : Closed(other, T) /\ Chain \subseteq T => Listed \subseteq T
      /\ \A T \in SUBSET Block :
           Closed(next, T) /\ next[Root] \in T \cup {Null} => Chain \subseteq T
      /\ Root \notin Block /\ Null \notin Block
  BY ListedFacts, ChainFacts, Sizes DEF Basic
<1>1. Links(next') /\ Links(other') /\ next'[Root] \in Block \cup {Null}
  BY DEF TypeOK, Links
<1>2. /\ e # b /\ next'[e] = b /\ next'[b] = d /\ b \notin Chain
      /\ \A x \in (Block \cup {Root}) \ {b, e} : next'[x] = next[x]
  BY <1>0 DEF Basic, TypeOK
<1> DEFINE C == Chain \cup {b}
           L == Listed \cup {b}
<1>3. C \in SUBSET Block /\ Closed(next', C) /\ next'[Root] \in C \cup {Null}
  BY <1>0, <1>2 DEF Closed
<1>4. ASSUME NEW T \in SUBSET Block, Closed(next', T), next'[Root] \in T \cup {Null}
      PROVE  C \subseteq T
  <2>1. ASSUME e \in T \/ e = Root PROVE b \in T /\ d \in T \cup {Null}
    <3>1. b # Null
      BY <1>0
    <3>2. b \in T
      BY <1>2, <1>4, <2>1, <3>1 DEF Closed
    <3>3. d \in T \cup {Null}
      BY <1>2, <1>4, <3>2 DEF Closed
    <3> QED BY <3>2, <3>3
  <2>2. Closed(next, T)
    BY <1>0, <1>2, <1>4, <2>1 DEF Closed
  <2>3. next[Root] \in T \cup {Null}
    BY <1>0, <1>2, <1>4, <2>1
  <2>4. Chain \subseteq T
    BY <1>0, <2>2, <2>3
  <2> QED BY <2>1, <2>4
<1>5. L \in SUBSET Block /\ C \subseteq L /\ Closed(other', L)
  BY <1>0 DEF Closed
<1>6. ASSUME NEW T \in SUBSET Block, Closed(other', T), C \subseteq T
      PROVE  L \subseteq T
  <2>1. Closed(other, T) /\ Chain \subseteq T
    BY <1>6
  <2> QED BY <1>0, <1>6, <2>1
<1> HIDE DEF C, L
<1>7. From(next', next'[Root]) = C /\ Spread(other', C) = L
  BY ONLY <1>1, <1>3, <1>4, <1>5, <1>6, Walked
<1>8. Chain' = C /\ Listed' = L
  BY <1>7 DEF Chain, Listed, Spread
<1>9. OnePredecessor'
  <2> USE DEF C, L
  <2>0. /\ \A x \in Listed : x \notin Chain => next[x] = Null
        /\ \A x, y \in Chain \cup {Root} : next[x] = next[y] /\ next[x] # Null => x = y
        /\ \A x, y \in Listed : other[x] = other[y] /\ other[x] # Null => x = y
        /\ \A x \in Chain, y \in Listed : other[y] # x
    BY DEF OnePredecessor
  <2>1. \A x \in L : x \notin C => next'[x] = Null
    <3> SUFFICES ASSUME NEW x \in Listed, x # b, x \notin Chain PROVE next'[x] = Null
      OBVIOUS
    <3>1. x \in Block /\ x # e /\ x # b
      BY <1>0
    <3> QED BY <1>2, <2>0, <3>1
  <2>2. ASSUME NEW x \in C \cup {Root}, NEW y \in C \cup {Root},
               next'[x] = next'[y], next'[x] # Null
        PROVE  x = y
    <3>1. \A z \in Chain \cup {Root} : next[z] # b
      BY <1>0, <1>2 DEF Closed
    <3>2. CASE x = e \/ y = e
      BY <1>0, <1>2, <2>2, <3>1, <3>2
    <3>3. CASE x = b \/ y = b
      BY <1>0, <1>2, <2>0, <2>2, <3>1, <3>3
    <3>4. CASE x \notin {b, e} /\ y \notin {b, e}
      BY <1>0, <1>2, <2>0, <2>2, <3>4
    <3> QED BY <3>2, <3>3, <3>4
  <2>3. \A x, y \in L : other[x] = other[y] /\ other[x] # Null => x = y
    BY <2>0
  <2>4. \A x \in C, y \in L : other[y] # x
    BY <1>0, <2>0 DEF Closed
  <2> QED BY <1>8, <2>1, <2>2, <2>3, <2>4 DEF OnePredecessor
<1> QED BY <1>8, <1>9 DEF C, L

\* The only block of its size leaves.
LEMMA Unlinked ==
  ASSUME Basic, TypeOK', OnePredecessor, NEW b \in Chain, NEW e \in Chain \cup {Root},
         other[b] = Null, next[e] = b,
         next' = [next EXCEPT ![e] = next[b]], UNCHANGED other
  PROVE  Chain' = Chain \ {b} /\ Listed' = Listed \ {b} /\ OnePredecessor'
<1>0. /\ Chain \in SUBSET Block /\ Listed \in SUBSET Block /\ Chain \subseteq Listed
      /\ Closed(next, Chain) /\ next[Root] \in Chain \cup {Null} /\ Closed(other, Listed)
      /\ \A T \in SUBSET Block : Closed(other, T) /\ Chain \subseteq T => Listed \subseteq T
      /\ \A T \in SUBSET Block :
           Closed(next, T) /\ next[Root] \in T \cup {Null} => Chain \subseteq T
      /\ Root \notin Block /\ Null \notin Block
  BY ListedFacts, ChainFacts, Sizes DEF Basic
<1>1. Links(next') /\ Links(other') /\ next'[Root] \in Block \cup {Null}
  BY DEF TypeOK, Links
<1>2. /\ b \in Block /\ next[b] # b /\ b # Root
      /\ next'[e] = next[b] /\ \A x \in (Block \cup {Root}) \ {e} : next'[x] = next[x]
  <2>1. b \in Block /\ size[b] \in Nat
    BY <1>0, Sizes DEF Basic
  <2>2. next[b] # b
    BY <2>1 DEF Basic, SizesOrdered
  <2> QED BY <1>0, <2>1, <2>2 DEF Basic, TypeOK
<1>3. /\ e # b
      /\ \A x \in Listed : x \notin Chain => next[x] = Null
      /\ \A x, y \in Chain \cup {Root} : next[x] = next[y] /\ next[x] # Null => x = y
      /\ \A x, y \in Listed : other[x] = other[y] /\ other[x] # Null => x = y
      /\ \A x \in Chain, y \in Listed : other[y] # x
      /\ \A x \in Chain \cup {Root} : x # e => next[x] # b
  BY <1>0, <1>2 DEF OnePredecessor
<1> DEFINE C == Chain \ {b}
           L == Listed \ {b}
<1>4. C \in SUBSET Block /\ Closed(next', C) /\ next'[Root] \in C \cup {Null}
  BY <1>0, <1>2, <1>3 DEF Closed
<1>5. ASSUME NEW T \in SUBSET Block, Closed(next', T), next'[Root] \in T \cup {Null}
      PROVE  C \subseteq T
  <2>1. CASE e \in T \/ e = Root
    <3>1. next[b] \in T \cup {Null}
      BY <1>0, <1>2, <1>5, <2>1 DEF Closed
    <3>2. Closed(next, T \cup {b}) /\ next[Root] \in (T \cup {b}) \cup {Null}
      BY <1>0, <1>2, <1>3, <1>5, <3>1 DEF Closed
    <3> QED BY <1>0, <1>2, <3>2
  <2>2. CASE e \notin T /\ e # Root
    <3>1. Closed(next, T) /\ next[Root] \in T \cup {Null}
      BY <1>0, <1>2, <1>5, <2>2 DEF Closed
    <3> QED BY <1>0, <3>1
  <2> QED BY <2>1, <2>2
<1>6. L \in SUBSET Block /\ C \subseteq L /\ Closed(other', L)
  BY <1>0, <1>3 DEF Closed
<1>7. ASSUME NEW T \in SUBSET Block, Closed(other', T), C \subseteq T
      PROVE  L \subseteq T
  <2>1. Closed(other, T \cup {b}) /\ Chain \subseteq T \cup {b} /\ T \cup {b} \in SUBSET Block
    BY <1>2, <1>7 DEF Closed
  <2> QED BY <1>0, <2>1
<1> HIDE DEF C, L
<1>8. From(next', next'[Root]) = C /\ Spread(other', C) = L
  BY ONLY <1>1, <1>4, <1>5, <1>6, <1>7, Walked
<1>9. Chain' = C /\ Listed' = L
  BY <1>8 DEF Chain, Listed, Spread
<1>10. OnePredecessor'
  <2> USE DEF C, L
  <2>1. \A x \in L : x \notin C => next'[x] = Null
    BY <1>0, <1>2, <1>3
  <2>2. \A x, y \in C \cup {Root} : next'[x] = next'[y] /\ next'[x] # Null => x = y
    <3>1. \A x \in C \cup {Root} : next'[x] = IF x = e THEN next[b] ELSE next[x]
      BY <1>0, <1>2
    <3>2. \A x \in C \cup {Root} : x \in Chain \cup {Root} /\ x # b
      BY <1>2
    <3> QED BY <1>3, <3>1, <3>2
  <2> QED BY <1>3, <1>9, <2>1, <2>2 DEF OnePredecessor
<1> QED BY <1>9, <1>10 DEF C, L

\* The second block of a size leaves.
LEMMA TakenBehind ==
  ASSUME Basic, TypeOK', OnePredecessor, NEW b \in Chain, NEW r \in Block,
         r = other[b], other' = [other EXCEPT ![b] = other[r]], UNCHANGED next
  PROVE  Chain' = Chain /\ Listed' = Listed \ {r} /\ OnePredecessor' /\ r \in Listed
<1>0. /\ Chain \in SUBSET Block /\ Listed \in SUBSET Block /\ Chain \subseteq Listed
      /\ Closed(next, Chain) /\ next[Root] \in Chain \cup {Null} /\ Closed(other, Listed)
      /\ \A T \in SUBSET Block : Closed(other, T) /\ Chain \subseteq T => Listed \subseteq T
      /\ \A T \in SUBSET Block :
           Closed(next, T) /\ next[Root] \in T \cup {Null} => Chain \subseteq T
      /\ Root \notin Block /\ Null \notin Block
  BY ListedFacts, ChainFacts, Sizes DEF Basic
<1>1. Links(next') /\ Links(other') /\ next'[Root] \in Block \cup {Null}
  BY DEF TypeOK, Links
<1>2. /\ b \in Block /\ other'[b] = other[r] /\ \A x \in Block \ {b} : other'[x] = other[x]
      /\ r \in Listed /\ r \notin Chain /\ r # b /\ other[r] # r /\ other[r] \in Listed \cup {Null}
      /\ \A x \in Listed : x # b => other[x] # r
  <2>1. b \in Block /\ other'[b] = other[r] /\ \A x \in Block \ {b} : other'[x] = other[x]
    BY <1>0 DEF Basic, TypeOK
  <2>2. r \in Listed /\ r # Null
    BY <1>0 DEF Closed
  <2>3. r \notin Chain /\ r # b /\ \A x \in Listed : x # b => other[x] # r
    BY <1>0, <2>2 DEF OnePredecessor
  <2>4. other[r] # r /\ other[r] \in Listed \cup {Null}
    BY <1>0, <2>2, <2>3 DEF Closed
  <2> QED BY <2>1, <2>2, <2>3, <2>4
<1>3. /\ \A x \in Listed : x \notin Chain => next[x] = Null
      /\ \A x, y \in Chain \cup {Root} : next[x] = next[y] /\ next[x] # Null => x = y
      /\ \A x, y \in Listed : other[x] = other[y] /\ other[x] # Null => x = y
      /\ \A x \in Chain, y \in Listed : other[y] # x
  BY DEF OnePredecessor
<1> DEFINE L == Listed \ {r}
<1>4. L \in SUBSET Block /\ Chain \subseteq L /\ Closed(other', L)
  BY <1>0, <1>2 DEF Closed
<1>5. ASSUME NEW T \in SUBSET Block, Closed(other', T), Chain \subseteq T
      PROVE  L \subseteq T
  <2>1. other[r] \in T \cup {Null}
    BY <1>2, <1>5 DEF Closed
  <2>2. Closed(other, T \cup {r})
    BY <1>2, <1>5, <2>1 DEF Closed
  <2>3. Listed \subseteq T \cup {r}
    <3>1. T \cup {r} \in SUBSET Block /\ Chain \subseteq T \cup {r}
      BY <1>5
    <3> QED BY <1>0, <2>2, <3>1
  <2> QED BY <2>3
<1>6. /\ Closed(next', Chain) /\ next'[Root] \in Chain \cup {Null}
      /\ \A T \in SUBSET Block :
           Closed(next', T) /\ next'[Root] \in T \cup {Null} => Chain \subseteq T
  BY <1>0
<1> HIDE DEF L
<1>7. From(next', next'[Root]) = Chain /\ Spread(other', Chain) = L
  BY ONLY <1>0, <1>1, <1>4, <1>5, <1>6, Walked
<1>8. Chain' = Chain /\ Listed' = L
  BY <1>7 DEF Chain, Listed, Spread
<1>9. OnePredecessor'
  <2> USE DEF L
  <2>1. \A x \in L : other'[x] = (IF x = b THEN other[r] ELSE other[x]) /\ x \in Listed /\ x # r
    BY <1>0, <1>2
  <2>2. \A x, y \in L : other'[x] = other'[y] /\ other'[x] # Null => x = y
    BY <1>2, <1>3, <2>1
  <2>3. \A x \in Chain, y \in L : other'[y] # x
    BY <1>2, <1>3, <2>1
  <2>4. \A x \in L : x \notin Chain => next'[x] = Null
    BY <1>3
  <2> QED BY <1>3, <1>8, <2>2, <2>3, <2>4 DEF OnePredecessor
<1> QED BY <1>2, <1>8, <1>9 DEF L

\* The first block of the chain leaves, and the second of its size takes its place.
LEMMA HeadReplaced ==
  ASSUME Basic, TypeOK', OnePredecessor, NEW b \in Block, NEW q \in Block,
         b = next[Root], q = other[b],
         next' = [next EXCEPT ![Root] = q, ![q] = next[b]], UNCHANGED other
  PROVE  /\ Chain' = (Chain \ {b}) \cup {q} /\ Listed' = Listed \ {b} /\ OnePredecessor'
         /\ b \in Listed
<1>0. /\ Chain \in SUBSET Block /\ Listed \in SUBSET Block /\ Chain \subseteq Listed
      /\ Closed(next, Chain) /\ next[Root] \in Chain \cup {Null} /\ Closed(other, Listed)
      /\ \A T \in SUBSET Block : Closed(other, T) /\ Chain \subseteq T => Listed \subseteq T
      /\ \A T \in SUBSET Block :
           Closed(next, T) /\ next[Root] \in T \cup {Null} => Chain \subseteq T
      /\ Root \notin Block /\ Null \notin Block
  BY ListedFacts, ChainFacts, Sizes DEF Basic
<1>1. Links(next') /\ Links(other') /\ next'[Root] \in Block \cup {Null}
  BY DEF TypeOK, Links
<1>2. /\ b \in Chain /\ b \in Listed /\ next[b] # b /\ next[b] \in Chain \cup {Null}
      /\ next'[Root] = q /\ next'[q] = next[b]
      /\ \A x \in Block \ {q} : next'[x] = next[x]
  <2>1. b \in Chain /\ size[b] \in Nat
    BY <1>0, Sizes DEF Basic
  <2>2. next[b] # b
    BY <2>1 DEF Basic, SizesOrdered
  <2>3. next'[Root] = q /\ next'[q] = next[b] /\ \A x \in Block \ {q} : next'[x] = next[x]
    BY <1>0 DEF Basic, TypeOK
  <2> QED BY <1>0, <2>1, <2>2, <2>3 DEF Closed
<1>3. /\ \A x \in Listed : x \notin Chain => next[x] = Null
      /\ \A x, y \in Chain \cup {Root} : next[x] = next[y] /\ next[x] # Null => x = y
      /\ \A x, y \in Listed : other[x] = other[y] /\ other[x] # Null => x = y
      /\ \A x \in Chain, y \in Listed : other[y] # x
  BY DEF OnePredecessor
<1>4. /\ q \in Listed /\ q \notin Chain /\ next[q] = Null /\ q # b
      /\ \A x \in Chain : next[x] # b
      /\ \A x \in Listed : x # b => other[x] # q
  BY <1>0, <1>2, <1>3 DEF Closed
<1> DEFINE C == (Chain \ {b}) \cup {q}
           L == Listed \ {b}
<1>5. C \in SUBSET Block /\ Closed(next', C) /\ next'[Root] \in C \cup {Null}
  <2>1. next'[q] \in C \cup {Null}
    BY <1>2
  <2>2. ASSUME NEW x \in Chain \ {b} PROVE next'[x] \in C \cup {Null}
    <3>1. next[x] \in Chain \cup {Null} /\ next[x] # b /\ x \in Block \ {q}
      BY <1>0, <1>4 DEF Closed
    <3> QED BY <1>2, <3>1
  <2>3. C \in SUBSET Block
    BY <1>0
  <2> QED BY <1>2, <2>1, <2>2, <2>3 DEF Closed
<1>6. ASSUME NEW T \in SUBSET Block, Closed(next', T), next'[Root] \in T \cup {Null}
      PROVE  C \subseteq T
  <2>1. q \in T /\ next[b] \in T \cup {Null}
    <3>1. q \in T
      BY <1>0, <1>2, <1>6
    <3> QED BY <1>2, <1>6, <3>1 DEF Closed
  <2>2. Closed(next, T \cup {b}) /\ next[Root] \in T \cup {b} \cup {Null}
    BY <1>2, <1>4, <1>6, <2>1 DEF Closed
  <2>3. T \cup {b} \in SUBSET Block
    BY <1>6
  <2>4. Chain \subseteq T \cup {b}
    BY <1>0, <2>2, <2>3
  <2> QED BY <2>1, <2>4
<1>7. L \in SUBSET Block /\ C \subseteq L /\ Closed(other', L)
  BY <1>0, <1>2, <1>3, <1>4 DEF Closed
<1>8. ASSUME NEW T \in SUBSET Block, Closed(other', T), C \subseteq T
      PROVE  L \subseteq T
  <2>1. Closed(other, T \cup {b}) /\ Chain \subseteq T \cup {b} /\ T \cup {b} \in SUBSET Block
    BY <1>8 DEF Closed
  <2>2. Listed \subseteq T \cup {b}
    BY <1>0, <2>1
  <2> QED BY <2>2
<1> HIDE DEF C, L
<1>9. From(next', next'[Root]) = C /\ Spread(other', C) = L
  BY ONLY <1>1, <1>5, <1>6, <1>7, <1>8, Walked
<1>10. Chain' = C /\ Listed' = L
  BY <1>9 DEF Chain, Listed, Spread
<1>11. OnePredecessor'
  <2> USE DEF C, L
  <2>1. \A x \in L : x \notin C => next'[x] = Null
    BY <1>0, <1>2, <1>3
  <2>2. \A x, y \in C \cup {Root} : next'[x] = next'[y] /\ next'[x] # Null => x = y
    <3>1. next[b] # q /\ \A x \in Chain \ {b} : next'[x] = next[x] /\ next[x] # q
      BY <1>0, <1>2, <1>4 DEF Closed
    <3>2. \A x \in Chain \ {b} : next[x] # Null => next[x] # next[b]
      BY <1>2, <1>3
    <3>3. ASSUME NEW x \in Chain \ {b}, NEW y \in C \cup {Root},
                 next'[x] = next'[y], next'[x] # Null
          PROVE  x = y
      <4>1. next'[x] = next[x] /\ next[x] # q /\ next[x] # Null /\ next[x] # next[b]
        BY <3>1, <3>2, <3>3
      <4>2. y # Root
        BY <1>2, <3>3, <4>1
      <4>3. y # q
        BY <1>2, <3>3, <4>1
      <4> QED BY <1>3, <3>1, <3>3, <4>2, <4>3
    <3>4. next'[Root] # next'[q]
      BY <1>2, <3>1
    <3> SUFFICES ASSUME NEW x \in C \cup {Root}, NEW y \in C \cup {Root},
                        next'[x] = next'[y], next'[x] # Null
                 PROVE  x = y
      OBVIOUS
    <3>5. CASE x \in Chain \ {b}
      BY <3>3, <3>5
    <3>6. CASE y \in Chain \ {b}
      BY <3>3, <3>6
    <3>7. CASE (x = q \/ x = Root) /\ (y = q \/ y = Root)
      <4>1. ~(x = q /\ y = Root) /\ ~(x = Root /\ y = q)
        BY <3>4
      <4> QED BY <3>7, <4>1
    <3> QED BY <3>5, <3>6, <3>7
  <2>3. \A x \in C, y \in L : other[y] # x
    BY <1>3, <1>4
  <2> QED BY <1>3, <1>10, <2>1, <2>2, <2>3 DEF OnePredecessor
<1> QED BY <1>2, <1>10, <1>11 DEF C, L

-----------------------------------------------------------------------------
(* The lists stay tidy until a thread inserts behind a head that has changed. *)

LEMMA HandFacts ==
  ASSUME Basic
  PROVE  \A t \in Thread :
           /\ Hand(t) \in Block \cup {Null}
           /\ at[t] \notin {"store", "insert", "subtract", "dead"} => Hand(t) = Null
           /\ at[t] \in {"store", "insert"} => Hand(t) = mem[t] /\ mem[t] \in Block
           /\ at[t] = "subtract" => Hand(t) = tmpCur[t] /\ tmpCur[t] \in Block
<1> SUFFICES ASSUME NEW t \in Thread
             PROVE  /\ Hand(t) \in Block \cup {Null}
                    /\ at[t] \notin {"store", "insert", "subtract", "dead"} => Hand(t) = Null
                    /\ at[t] \in {"store", "insert"} => Hand(t) = mem[t] /\ mem[t] \in Block
                    /\ at[t] = "subtract" => Hand(t) = tmpCur[t] /\ tmpCur[t] \in Block
  OBVIOUS
<1>1. InStep(t) /\ mem[t] \in Block \cup {Null} /\ tmpCur[t] \in Block \cup {Null}
  BY DEF Basic, AllInStep, TypeOK
<1> QED BY <1>1 DEF InStep, Hand

\* Steps that touch neither blocks nor hands.
LEMMA QuietTidy ==
  ASSUME Basic, Tidy,
         UNCHANGED <<size, isfree, lists, mem, tmpCur, uses, flushed, races>>,
         \A t \in Thread : at'[t] = "insert" => at[t] = "insert"
  PROVE  Tidy'
<1>1. /\ Listed' = Listed /\ Chain' = Chain /\ \A t \in Thread : Hand(t)' = Hand(t)
  BY DEF Listed, Chain, From, Closed, Hand, lists
<1> QED BY <1>1 DEF Tidy, OnePredecessor, FreeBlocks, lists

LEMMA MallocTidy ==
  ASSUME Basic, Basic', Tidy, NEW t \in Thread, Malloc(t)
  PROVE  Tidy'
<1> USE DEF Malloc
<1>0. PICK b \in Block : /\ size[b] = 0 /\ \A u \in Thread : mem[u] # b
                         /\ mem' = [mem EXCEPT ![t] = b]
  OBVIOUS
<1> SUFFICES ASSUME "list" \notin races' PROVE OnePredecessor' /\ FreeBlocks'
  BY DEF Tidy
<1>1. OnePredecessor /\ FreeBlocks
  BY DEF Tidy
<1>2. Listed' = Listed /\ Chain' = Chain /\ OnePredecessor'
  BY <1>1 DEF Listed, Chain, From, Closed, OnePredecessor, lists
<1>3. /\ b # Null /\ Hand(t) = Null /\ Hand(t)' = b
      /\ \A u \in Thread \ {t} : Hand(u)' = Hand(u) /\ Hand(u) # b /\ at'[u] = at[u]
      /\ at'[t] = "store"
  <2>1. b # Null /\ Hand(t) = Null
    BY HandFacts, Sizes DEF Basic
  <2>2. at'[t] = "store" /\ \A u \in Thread \ {t} : at'[u] = at[u] /\ mem'[u] = mem[u]
    BY <1>0 DEF Basic, TypeOK, Go
  <2>3. mem'[t] = b
    BY <1>0 DEF Basic, TypeOK
  <2>4. \A u \in Thread : tmpCur[u] # b
    BY <1>0, <2>1 DEF Basic, Unmade
  <2> QED BY <1>0, <2>1, <2>2, <2>3, <2>4 DEF Hand
<1>4. ~isfree[b]
  BY <1>0 DEF Basic, Unmade
<1>5. \A u \in Thread \ {t} : mem'[u] = mem[u]
  BY <1>0 DEF Basic, TypeOK
<1>6. FreeBlocks'
  <2>1. \A x \in Block :
          x \in Listed' <=> isfree'[x] /\ x \notin flushed' /\ \A u \in Thread : Hand(u)' # x
    <3> SUFFICES ASSUME NEW x \in Block
                 PROVE  x \in Listed' <=>
                          isfree'[x] /\ x \notin flushed' /\ \A u \in Thread : Hand(u)' # x
      OBVIOUS
    <3>1. x \in Listed <=> isfree[x] /\ x \notin flushed /\ \A u \in Thread : Hand(u) # x
      BY <1>1 DEF FreeBlocks
    <3>2. CASE x = b
      BY <1>2, <1>4, <3>1, <3>2
    <3>3. CASE x # b
      <4>1. (\A u \in Thread : Hand(u)' # x) <=> (\A u \in Thread : Hand(u) # x)
        BY <1>3, <3>3, Sizes DEF Basic
      <4> QED BY <1>2, <3>1, <3>3, <4>1
    <3> QED BY <3>2, <3>3
  <2>2. \A u, v \in Thread : Hand(u)' = Hand(v)' /\ Hand(u)' # Null => u = v
    BY <1>1, <1>3 DEF FreeBlocks
  <2>3. \A u \in Thread : Hand(u)' # Null /\ size'[Hand(u)'] # 0
          => isfree'[Hand(u)'] /\ Hand(u)' \notin flushed'
    BY <1>0, <1>1, <1>3 DEF FreeBlocks
  <2>4. \A u \in Thread : at'[u] = "insert" => next'[mem'[u]] = Null /\ other'[mem'[u]] = Null
    BY <1>1, <1>3, <1>5 DEF FreeBlocks, lists
  <2>5. /\ \A x \in flushed' : isfree'[x]
        /\ \A x \in Block : size'[x] # 0 => uses'[x] = (IF isfree'[x] THEN 0 ELSE 1)
    BY <1>1 DEF FreeBlocks
  <2> QED BY <2>1, <2>2, <2>3, <2>4, <2>5 DEF FreeBlocks
<1> QED BY <1>2, <1>6

LEMMA StoreTidy ==
  ASSUME Basic, Basic', Tidy, NEW t \in Thread, Store(t)
  PROVE  Tidy'
<1> DEFINE b == mem[t]
<1>0. /\ at[t] = "store" /\ b \in Block /\ size[b] = 0 /\ want[t] \in Size
      /\ b # Null /\ b # Root /\ want[t] # 0
      /\ next[b] = Null /\ other[b] = Null /\ b \notin flushed /\ ~isfree[b]
  <2>1. at[t] = "store" /\ b \in Block /\ size[b] = 0 /\ want[t] \in Size
    BY DEF Basic, AllInStep, InStep, TypeOK, Store
  <2> QED BY <2>1, MemoryAssumption DEF Basic, Unmade
<1>1. /\ size' = [size EXCEPT ![b] = want[t]]
      /\ UNCHANGED <<next, other, tmpCur, flushed>>
      /\ isfree' = [isfree EXCEPT ![b] = FALSE]
      /\ uses' = [uses EXCEPT ![b] = 1]
      /\ races' \in {races, races \cup {"size"}}
      /\ at' = [at EXCEPT ![t] = "idle"]
      /\ mem' = [mem EXCEPT ![t] = Null]
  <2>1. [next EXCEPT ![b] = Null] = next /\ [other EXCEPT ![b] = Null] = other
    BY <1>0 DEF Basic, TypeOK
  <2> QED BY <2>1 DEF Store, Go
<1> HIDE DEF b
<1> SUFFICES ASSUME "list" \notin races' PROVE OnePredecessor' /\ FreeBlocks'
  BY DEF Tidy
<1>2. OnePredecessor /\ FreeBlocks
  BY <1>1 DEF Tidy
<1>3. Listed' = Listed /\ Chain' = Chain /\ OnePredecessor'
  BY <1>1, <1>2 DEF Listed, Chain, From, Closed, OnePredecessor
<1>4. /\ Hand(t) = b /\ Hand(t)' = Null
      /\ \A u \in Thread \ {t} : /\ Hand(u)' = Hand(u) /\ Hand(u) # b
                                 /\ at'[u] = at[u] /\ mem'[u] = mem[u]
      /\ at'[t] = "idle"
  <2>1. Hand(t) = b /\ tmpCur[t] = Null
    BY <1>0, HandFacts DEF Basic, AllInStep, InStep, b
  <2>2. /\ at'[t] = "idle" /\ mem'[t] = Null
        /\ \A u \in Thread \ {t} : at'[u] = at[u] /\ mem'[u] = mem[u]
    BY <1>1 DEF Basic, TypeOK
  <2>3. \A u \in Thread \ {t} : Hand(u) # b
    BY <1>0, <1>2, <2>1 DEF FreeBlocks
  <2> QED BY <1>1, <2>1, <2>2, <2>3 DEF Hand
<1>5. /\ ~isfree'[b] /\ uses'[b] = 1 /\ size'[b] # 0
      /\ \A x \in Block \ {b} : isfree'[x] = isfree[x] /\ uses'[x] = uses[x] /\ size'[x] = size[x]
  <2>1. ~isfree'[b] /\ \A x \in Block \ {b} : isfree'[x] = isfree[x]
    BY <1>0, <1>1 DEF Basic, TypeOK
  <2> QED BY <1>0, <1>1, <2>1 DEF Basic, TypeOK
<1>6. FreeBlocks'
  <2>1. \A u \in Thread : Hand(u) \in Block \cup {Null}
    BY HandFacts
  <2>2. flushed \subseteq Block
    BY DEF Basic, TypeOK
  <2>3. \A x \in Block :
          x \in Listed' <=> isfree'[x] /\ x \notin flushed' /\ \A u \in Thread : Hand(u)' # x
    <3> SUFFICES ASSUME NEW x \in Block
                 PROVE  x \in Listed' <=>
                          isfree'[x] /\ x \notin flushed' /\ \A u \in Thread : Hand(u)' # x
      OBVIOUS
    <3>1. x \in Listed <=> isfree[x] /\ x \notin flushed /\ \A u \in Thread : Hand(u) # x
      BY <1>2 DEF FreeBlocks
    <3>2. CASE x = b
      BY <1>0, <1>3, <1>5, <3>1, <3>2
    <3>3. CASE x # b
      <4>1. (\A u \in Thread : Hand(u)' # x) <=> (\A u \in Thread : Hand(u) # x)
        BY <1>0, <1>4, <3>3, Sizes DEF Basic
      <4> QED BY <1>1, <1>3, <1>5, <3>1, <3>3, <4>1
    <3> QED BY <3>2, <3>3
  <2>4. \A u, v \in Thread : Hand(u)' = Hand(v)' /\ Hand(u)' # Null => u = v
    BY <1>2, <1>4 DEF FreeBlocks
  <2>5. \A u \in Thread : Hand(u)' # Null /\ size'[Hand(u)'] # 0
          => isfree'[Hand(u)'] /\ Hand(u)' \notin flushed'
    BY <1>1, <1>2, <1>4, <1>5, <2>1 DEF FreeBlocks
  <2>6. \A u \in Thread : at'[u] = "insert" => next'[mem'[u]] = Null /\ other'[mem'[u]] = Null
    BY <1>1, <1>2, <1>4 DEF FreeBlocks
  <2>7. \A x \in flushed' : isfree'[x]
    BY <1>0, <1>1, <1>2, <1>5, <2>2 DEF FreeBlocks
  <2>8. \A x \in Block : size'[x] # 0 => uses'[x] = (IF isfree'[x] THEN 0 ELSE 1)
    BY <1>2, <1>5 DEF FreeBlocks
  <2> QED BY <2>3, <2>4, <2>5, <2>6, <2>7, <2>8 DEF FreeBlocks
<1> QED BY <1>3, <1>6

LEMMA FlushSubtractTidy ==
  ASSUME Basic, Basic', Tidy, NEW t \in Thread, FlushSubtract(t)
  PROVE  Tidy'
<1> DEFINE b == tmpCur[t]
<1>0. /\ at[t] = "subtract" /\ b \in Block /\ b # Null /\ mem[t] = Null /\ size[b] # 0
  BY MemoryAssumption DEF Basic, AllInStep, InStep, TypeOK, Unmade, FlushSubtract
<1>1. /\ flushed' = flushed \cup {b} /\ tmpCur' = [tmpCur EXCEPT ![t] = Null]
      /\ races' \in {races, races \cup {"size"}}
      /\ at' = [at EXCEPT ![t] = "hung"] \/ at' = [at EXCEPT ![t] = "flushing"]
      /\ UNCHANGED <<size, isfree, next, other, mem, uses>>
  BY DEF FlushSubtract, Go, lists
<1> HIDE DEF b
<1> SUFFICES ASSUME "list" \notin races' PROVE OnePredecessor' /\ FreeBlocks'
  BY DEF Tidy
<1>2. OnePredecessor /\ FreeBlocks
  BY <1>1 DEF Tidy
<1>3. Listed' = Listed /\ Chain' = Chain /\ OnePredecessor'
  BY <1>1, <1>2 DEF Listed, Chain, From, Closed, OnePredecessor
<1>4. /\ Hand(t) = b /\ Hand(t)' = Null
      /\ \A u \in Thread \ {t} : Hand(u)' = Hand(u) /\ Hand(u) # b /\ at'[u] = at[u]
      /\ at'[t] # "insert"
  <2>1. Hand(t) = b
    BY <1>0, HandFacts DEF b
  <2>2. /\ at'[t] # "insert" /\ tmpCur'[t] = Null
        /\ \A u \in Thread \ {t} : at'[u] = at[u] /\ tmpCur'[u] = tmpCur[u]
    BY <1>1 DEF Basic, TypeOK
  <2>3. \A u \in Thread \ {t} : Hand(u) # b
    BY <1>0, <1>2, <2>1 DEF FreeBlocks
  <2> QED BY <1>0, <1>1, <2>1, <2>2, <2>3 DEF Hand
<1>5. isfree[b]
  BY <1>0, <1>2, <1>4 DEF FreeBlocks
<1>6. FreeBlocks'
  <2>1. \A x \in Block :
          x \in Listed' <=> isfree'[x] /\ x \notin flushed' /\ \A u \in Thread : Hand(u)' # x
    <3> SUFFICES ASSUME NEW x \in Block
                 PROVE  x \in Listed' <=>
                          isfree'[x] /\ x \notin flushed' /\ \A u \in Thread : Hand(u)' # x
      OBVIOUS
    <3>1. x \in Listed <=> isfree[x] /\ x \notin flushed /\ \A u \in Thread : Hand(u) # x
      BY <1>2 DEF FreeBlocks
    <3>2. CASE x = b
      BY <1>1, <1>3, <1>4, <3>1, <3>2
    <3>3. CASE x # b
      <4>1. (\A u \in Thread : Hand(u)' # x) <=> (\A u \in Thread : Hand(u) # x)
        BY <1>0, <1>4, <3>3, Sizes DEF Basic
      <4> QED BY <1>1, <1>3, <3>1, <3>3, <4>1
    <3> QED BY <3>2, <3>3
  <2>2. \A u, v \in Thread : Hand(u)' = Hand(v)' /\ Hand(u)' # Null => u = v
    BY <1>2, <1>4 DEF FreeBlocks
  <2>3. \A u \in Thread : Hand(u)' # Null /\ size'[Hand(u)'] # 0
          => isfree'[Hand(u)'] /\ Hand(u)' \notin flushed'
    BY <1>1, <1>2, <1>4 DEF FreeBlocks
  <2>4. \A u \in Thread : at'[u] = "insert" => next'[mem'[u]] = Null /\ other'[mem'[u]] = Null
    BY <1>1, <1>2, <1>4 DEF FreeBlocks
  <2>5. \A x \in flushed' : isfree'[x]
    BY <1>1, <1>2, <1>5 DEF FreeBlocks
  <2>6. \A x \in Block : size'[x] # 0 => uses'[x] = (IF isfree'[x] THEN 0 ELSE 1)
    BY <1>1, <1>2 DEF FreeBlocks
  <2> QED BY <2>1, <2>2, <2>3, <2>4, <2>5, <2>6 DEF FreeBlocks
<1> QED BY <1>3, <1>6

\* A block r that leaves the lists for a user.
LEMMA TakenFree ==
  ASSUME Basic, Basic', FreeBlocks, NEW r \in Listed, Listed' = Listed \ {r},
         uses' = [uses EXCEPT ![r] = @ + 1], isfree' = [isfree EXCEPT ![r] = FALSE],
         \A x \in Block \ Listed : next'[x] = next[x] /\ other'[x] = other[x],
         UNCHANGED <<at, size, mem, tmpCur, flushed>>
  PROVE  FreeBlocks'
<1>0. /\ Listed \in SUBSET Block /\ r \in Block /\ Null \notin Block
      /\ \A u \in Thread : Hand(u)' = Hand(u) /\ Hand(u) \in Block \cup {Null}
      /\ flushed \subseteq Block
  BY ListedFacts, HandFacts, Sizes DEF Basic, TypeOK, Hand
<1>1. /\ isfree[r] /\ r \notin flushed /\ \A u \in Thread : Hand(u) # r
  BY <1>0 DEF FreeBlocks
<1>2. size[r] # 0 /\ uses[r] = 0
  <2>1. size[r] # 0
    BY <1>0, <1>1 DEF Basic, Unmade
  <2> QED BY <1>0, <1>1, <2>1 DEF FreeBlocks
<1>3. /\ ~isfree'[r] /\ uses'[r] = 1
      /\ \A x \in Block \ {r} : isfree'[x] = isfree[x] /\ uses'[x] = uses[x]
  <2>1. ~isfree'[r] /\ \A x \in Block \ {r} : isfree'[x] = isfree[x]
    BY <1>0 DEF Basic, TypeOK
  <2>2. uses'[r] = 1 /\ \A x \in Block \ {r} : uses'[x] = uses[x]
    BY <1>0, <1>2 DEF Basic, TypeOK
  <2> QED BY <2>1, <2>2
<1>4. \A x \in Block :
        x \in Listed' <=> isfree'[x] /\ x \notin flushed' /\ \A u \in Thread : Hand(u)' # x
  <2> SUFFICES ASSUME NEW x \in Block
               PROVE  x \in Listed' <=>
                        isfree'[x] /\ x \notin flushed' /\ \A u \in Thread : Hand(u)' # x
    OBVIOUS
  <2>1. x \in Listed <=> isfree[x] /\ x \notin flushed /\ \A u \in Thread : Hand(u) # x
    BY DEF FreeBlocks
  <2>2. CASE x = r
    BY <1>3, <2>2
  <2>3. CASE x # r
    BY <1>0, <1>3, <2>1, <2>3
  <2> QED BY <2>2, <2>3
<1>5. \A u, v \in Thread : Hand(u)' = Hand(v)' /\ Hand(u)' # Null => u = v
  BY <1>0 DEF FreeBlocks
<1>6. \A u \in Thread : Hand(u)' # Null /\ size'[Hand(u)'] # 0
        => isfree'[Hand(u)'] /\ Hand(u)' \notin flushed'
  BY <1>0, <1>1, <1>3 DEF FreeBlocks
<1>7. ASSUME NEW u \in Thread, at'[u] = "insert"
      PROVE  next'[mem'[u]] = Null /\ other'[mem'[u]] = Null
  <2>1. mem[u] \in Block /\ Hand(u) = mem[u] /\ size[mem[u]] # 0
    BY <1>7, HandFacts DEF Basic, AllInStep, InStep
  <2>2. mem[u] \notin Listed
    BY <2>1 DEF FreeBlocks
  <2> QED BY <1>7, <2>1, <2>2 DEF FreeBlocks
<1>8. \A x \in flushed' : isfree'[x]
  BY <1>0, <1>1, <1>3 DEF FreeBlocks
<1>9. \A x \in Block : size'[x] # 0 => uses'[x] = (IF isfree'[x] THEN 0 ELSE 1)
  BY <1>3 DEF FreeBlocks
<1> QED BY <1>4, <1>5, <1>6, <1>7, <1>8, <1>9 DEF FreeBlocks

LEMMA TakeTidy ==
  ASSUME Basic, Basic', Tidy, NEW n \in Size,
         Fitting(next[Root], n) # {}, Take(First(next[Root], n)),
         UNCHANGED <<at, size, mem, tmpCur, flushed, races>>
  PROVE  Tidy'
<1> DEFINE b == First(next[Root], n)
<1> SUFFICES ASSUME "list" \notin races' PROVE OnePredecessor' /\ FreeBlocks'
  BY DEF Tidy
<1>1. OnePredecessor /\ FreeBlocks /\ TypeOK'
  BY DEF Tidy, Basic
<1>2. b \in Chain /\ b \in Block
  BY TakeFacts
<1>3. /\ Listed \in SUBSET Block /\ Chain \subseteq Listed /\ Root \notin Block
  BY ListedFacts, Sizes DEF Basic
<1>4. ASSUME NEW r \in Block, r = other[b],
             UNCHANGED next, other' = [other EXCEPT ![b] = other[r]],
             uses' = [uses EXCEPT ![r] = @ + 1],
             isfree' = [isfree EXCEPT ![r] = FALSE]
      PROVE  OnePredecessor' /\ FreeBlocks'
  <2> HIDE DEF b
  <2>1. Chain' = Chain /\ Listed' = Listed \ {r} /\ OnePredecessor' /\ r \in Listed
    BY <1>1, <1>2, <1>4, TakenBehind
  <2>2. \A x \in Block \ Listed : next'[x] = next[x] /\ other'[x] = other[x]
    BY <1>2, <1>3, <1>4 DEF Basic, TypeOK
  <2>3. FreeBlocks'
    BY <1>1, <1>4, <2>1, <2>2, TakenFree
  <2> QED BY <2>1, <2>3
<1>5. ASSUME NEW e \in Chain \cup {Root}, other[b] = Null, next[e] = b,
             next' = [next EXCEPT ![e] = next[b]], UNCHANGED other,
             uses' = [uses EXCEPT ![b] = @ + 1],
             isfree' = [isfree EXCEPT ![b] = FALSE]
      PROVE  OnePredecessor' /\ FreeBlocks'
  <2> HIDE DEF b
  <2>1. Chain' = Chain \ {b} /\ Listed' = Listed \ {b} /\ OnePredecessor'
    BY <1>1, <1>2, <1>5, Unlinked
  <2>2. \A x \in Block \ Listed : next'[x] = next[x] /\ other'[x] = other[x]
    BY <1>2, <1>3, <1>5 DEF Basic, TypeOK
  <2>3. FreeBlocks'
    BY <1>1, <1>2, <1>3, <1>5, <2>1, <2>2, TakenFree
  <2> QED BY <2>1, <2>3
<1> QED BY <1>4, <1>5, TakeFacts

LEMMA FlushUnlinkTidy ==
  ASSUME Basic, Basic', Tidy, NEW t \in Thread, FlushUnlink(t)
  PROVE  Tidy'
<1> DEFINE b == next[Root]
<1>0. /\ at[t] = "flushing" /\ b \in Block /\ b # Null /\ Hand(t) = Null /\ mem[t] = Null
      /\ Root \notin Block /\ Null \notin Block /\ other[b] \in Block \cup {Null}
  BY Sizes, HandFacts DEF Basic, AllInStep, InStep, FlushUnlink, Links
<1>1. /\ next' = IF other[b] # Null
                 THEN [next EXCEPT ![Root] = other[b], ![other[b]] = next[b]]
                 ELSE [next EXCEPT ![Root] = next[b]]
      /\ tmpCur' = [tmpCur EXCEPT ![t] = b]
      /\ at' = [at EXCEPT ![t] = "subtract"]
      /\ UNCHANGED <<size, isfree, other, mem, uses, flushed, races>>
  BY DEF FlushUnlink, Go
<1> SUFFICES ASSUME "list" \notin races' PROVE OnePredecessor' /\ FreeBlocks'
  BY DEF Tidy
<1>2. OnePredecessor /\ FreeBlocks /\ TypeOK'
  BY <1>1 DEF Tidy, Basic
<1>3. b \in Chain /\ b \in Listed /\ Chain \subseteq Listed /\ Closed(other, Listed)
  BY <1>0, ChainFacts, ListedFacts
<1>4. Listed' = Listed \ {b} /\ OnePredecessor'
  <2>1. CASE other[b] # Null
    <3> DEFINE q == other[b]
    <3>1. q \in Block /\ next' = [next EXCEPT ![Root] = q, ![q] = next[b]]
      BY <1>0, <1>1, <2>1
    <3>2. b \in Block /\ b = next[Root] /\ q = other[b]
      BY <1>0
    <3> HIDE DEF b, q
    <3> QED BY <1>1, <1>2, <3>1, <3>2, HeadReplaced
  <2>2. CASE other[b] = Null
    <3>1. next' = [next EXCEPT ![Root] = next[b]] /\ Root \in Chain \cup {Root} /\ next[Root] = b
      BY <1>1, <2>2
    <3> HIDE DEF b
    <3> QED BY <1>1, <1>2, <1>3, <2>2, <3>1, Unlinked
  <2> QED BY <2>1, <2>2
<1>5. \A x \in Block \ Listed : next'[x] = next[x]
  <2>1. other[b] \in Listed \cup {Null}
    BY <1>3 DEF Closed
  <2> HIDE DEF b
  <2> QED BY <1>0, <1>1, <2>1 DEF Basic, TypeOK
<1>6. isfree[b] /\ b \notin flushed /\ \A u \in Thread : Hand(u) # b
  BY <1>0, <1>2, <1>3 DEF FreeBlocks
<1> HIDE DEF b
<1>7. /\ Hand(t)' = b /\ at'[t] = "subtract"
      /\ \A u \in Thread \ {t} : Hand(u)' = Hand(u) /\ at'[u] = at[u]
  <2>1. /\ tmpCur'[t] = b /\ at'[t] = "subtract"
        /\ \A u \in Thread \ {t} : tmpCur'[u] = tmpCur[u] /\ at'[u] = at[u]
    BY <1>1 DEF Basic, TypeOK
  <2> QED BY <1>0, <1>1, <2>1 DEF Hand
<1>8. FreeBlocks'
  <2>1. \A x \in Block :
          x \in Listed' <=> isfree'[x] /\ x \notin flushed' /\ \A u \in Thread : Hand(u)' # x
    <3> SUFFICES ASSUME NEW x \in Block
                 PROVE  x \in Listed' <=>
                          isfree'[x] /\ x \notin flushed' /\ \A u \in Thread : Hand(u)' # x
      OBVIOUS
    <3>1. x \in Listed <=> isfree[x] /\ x \notin flushed /\ \A u \in Thread : Hand(u) # x
      BY <1>2 DEF FreeBlocks
    <3>2. CASE x = b
      BY <1>4, <1>7, <3>2
    <3>3. CASE x # b
      <4>1. (\A u \in Thread : Hand(u)' # x) <=> (\A u \in Thread : Hand(u) # x)
        BY <1>0, <1>7, <3>3
      <4> QED BY <1>1, <1>4, <3>1, <3>3, <4>1
    <3> QED BY <3>2, <3>3
  <2>2. \A u, v \in Thread : Hand(u)' = Hand(v)' /\ Hand(u)' # Null => u = v
    BY <1>2, <1>6, <1>7 DEF FreeBlocks
  <2>3. \A u \in Thread : Hand(u)' # Null /\ size'[Hand(u)'] # 0
          => isfree'[Hand(u)'] /\ Hand(u)' \notin flushed'
    BY <1>1, <1>2, <1>6, <1>7 DEF FreeBlocks
  <2>4. ASSUME NEW u \in Thread, at'[u] = "insert"
        PROVE  next'[mem'[u]] = Null /\ other'[mem'[u]] = Null
    <3>1. at[u] = "insert" /\ mem[u] \in Block /\ Hand(u) = mem[u]
      BY <1>7, <2>4, HandFacts
    <3>2. mem[u] \notin Listed
      BY <1>2, <3>1 DEF FreeBlocks
    <3> QED BY <1>1, <1>2, <1>5, <3>1, <3>2 DEF FreeBlocks
  <2>5. /\ \A x \in flushed' : isfree'[x]
        /\ \A x \in Block : size'[x] # 0 => uses'[x] = (IF isfree'[x] THEN 0 ELSE 1)
    BY <1>1, <1>2 DEF FreeBlocks
  <2> QED BY <2>1, <2>2, <2>3, <2>4, <2>5 DEF FreeBlocks
<1> QED BY <1>4, <1>8

LEMMA FreeTidy ==
  ASSUME Basic, Basic', Tidy, NEW t \in Thread, NEW b \in Block, Free(t, b)
  PROVE  Tidy'
<1>0. /\ at[t] = "idle" /\ uses[b] > 0 /\ uses[b] \in Nat /\ size[b] # 0 /\ b # Null
      /\ Root \notin Block /\ Null \notin Block /\ Hand(t) = Null
      /\ uses' = [uses EXCEPT ![b] = @ - 1]
      /\ UNCHANGED <<size, flushed, races>>
  BY Sizes, HandFacts, MemoryAssumption DEF Basic, TypeOK, Free, Unmade
<1> SUFFICES ASSUME "list" \notin races' PROVE OnePredecessor' /\ FreeBlocks'
  BY DEF Tidy
<1>1. OnePredecessor /\ FreeBlocks /\ TypeOK'
  BY <1>0 DEF Tidy, Basic
<1>2. ~isfree[b] /\ uses[b] = 1
  BY <1>0, <1>1 DEF FreeBlocks
<1>3. /\ next' = [next EXCEPT ![b] = Null] /\ other' = [other EXCEPT ![b] = Null]
      /\ isfree' = [isfree EXCEPT ![b] = TRUE]
      /\ mem' = [mem EXCEPT ![t] = b]
      /\ tmpCur' = [tmpCur EXCEPT ![t] = next[Root]]
      /\ at' = [at EXCEPT ![t] = "insert"]
  BY <1>2 DEF Free, Go
<1>4. b \notin Listed /\ b \notin flushed /\ \A u \in Thread : Hand(u) # b
  BY <1>0, <1>1, <1>2 DEF FreeBlocks
<1>5. /\ next'[b] = Null /\ other'[b] = Null /\ next'[Root] = next[Root]
      /\ \A x \in Block \ {b} : next'[x] = next[x] /\ other'[x] = other[x]
  BY <1>0, <1>3 DEF Basic, TypeOK
<1>6. Listed' = Listed /\ OnePredecessor'
  <2>1. \A x \in Listed : next'[x] = next[x] /\ other'[x] = other[x]
    BY <1>4, <1>5, ListedFacts
  <2> QED BY <1>1, <1>5, <2>1, ListsSame
<1>7. /\ Hand(t)' = b /\ at'[t] = "insert" /\ mem'[t] = b
      /\ \A u \in Thread \ {t} : Hand(u)' = Hand(u) /\ at'[u] = at[u] /\ mem'[u] = mem[u]
  <2>1. /\ mem'[t] = b /\ at'[t] = "insert"
        /\ \A u \in Thread \ {t} : tmpCur'[u] = tmpCur[u] /\ at'[u] = at[u] /\ mem'[u] = mem[u]
    BY <1>3 DEF Basic, TypeOK
  <2> QED BY <1>0, <2>1 DEF Hand
<1>8. /\ isfree'[b] /\ uses'[b] = 0
      /\ \A x \in Block \ {b} : isfree'[x] = isfree[x] /\ uses'[x] = uses[x]
  <2>1. isfree'[b] /\ \A x \in Block \ {b} : isfree'[x] = isfree[x]
    BY <1>3 DEF Basic, TypeOK
  <2>2. uses'[b] = 0 /\ \A x \in Block \ {b} : uses'[x] = uses[x]
    BY <1>0, <1>2 DEF Basic, TypeOK
  <2> QED BY <2>1, <2>2
<1>9. FreeBlocks'
  <2>1. \A x \in Block :
          x \in Listed' <=> isfree'[x] /\ x \notin flushed' /\ \A u \in Thread : Hand(u)' # x
    <3> SUFFICES ASSUME NEW x \in Block
                 PROVE  x \in Listed' <=>
                          isfree'[x] /\ x \notin flushed' /\ \A u \in Thread : Hand(u)' # x
      OBVIOUS
    <3>1. x \in Listed <=> isfree[x] /\ x \notin flushed /\ \A u \in Thread : Hand(u) # x
      BY <1>1 DEF FreeBlocks
    <3>2. CASE x = b
      BY <1>4, <1>6, <1>7, <3>2
    <3>3. CASE x # b
      <4>1. (\A u \in Thread : Hand(u)' # x) <=> (\A u \in Thread : Hand(u) # x)
        BY <1>0, <1>7, <3>3
      <4> QED BY <1>0, <1>6, <1>8, <3>1, <3>3, <4>1
    <3> QED BY <3>2, <3>3
  <2>2. \A u, v \in Thread : Hand(u)' = Hand(v)' /\ Hand(u)' # Null => u = v
    BY <1>1, <1>4, <1>7 DEF FreeBlocks
  <2>3. \A u \in Thread : Hand(u)' # Null /\ size'[Hand(u)'] # 0
          => isfree'[Hand(u)'] /\ Hand(u)' \notin flushed'
    <3>1. \A u \in Thread : Hand(u) \in Block \cup {Null}
      BY HandFacts
    <3> QED BY <1>0, <1>1, <1>4, <1>7, <1>8, <3>1 DEF FreeBlocks
  <2>4. ASSUME NEW u \in Thread, at'[u] = "insert"
        PROVE  next'[mem'[u]] = Null /\ other'[mem'[u]] = Null
    <3>1. CASE u = t
      BY <1>5, <1>7, <3>1
    <3>2. CASE u # t
      <4>1. at[u] = "insert" /\ mem[u] \in Block /\ Hand(u) = mem[u]
        BY <1>7, <2>4, <3>2, HandFacts
      <4> QED BY <1>1, <1>4, <1>5, <1>7, <3>2, <4>1 DEF FreeBlocks
    <3> QED BY <3>1, <3>2
  <2>5. /\ \A x \in flushed' : isfree'[x]
        /\ \A x \in Block : size'[x] # 0 => uses'[x] = (IF isfree'[x] THEN 0 ELSE 1)
    <3>1. flushed \subseteq Block
      BY DEF Basic, TypeOK
    <3> QED BY <1>0, <1>1, <1>8, <3>1 DEF FreeBlocks
  <2> QED BY <2>1, <2>2, <2>3, <2>4, <2>5 DEF FreeBlocks
<1> QED BY <1>6, <1>9

LEMMA InsertTidy ==
  ASSUME Basic, Basic', Tidy, NEW t \in Thread, Insert(t)
  PROVE  Tidy'
<1> DEFINE b == mem[t]
           c == tmpCur[t]
<1>0. /\ at[t] = "insert" /\ b \in Block /\ size[b] # 0 /\ b # Null /\ Hand(t) = b
      /\ c \in Block \cup {Null} /\ (c # Null => size[c] # 0)
      /\ Null \notin Block /\ Root \notin Block
  BY Sizes, HandFacts DEF Basic, TypeOK, AllInStep, InStep, Unmade, Insert
<1>1. /\ Link(b, c)
      /\ races' = IF c = next[Root] THEN races ELSE races \cup {"list"}
      /\ at' = [at EXCEPT ![t] = "idle"]
      /\ mem' = [mem EXCEPT ![t] = Null]
      /\ tmpCur' = [tmpCur EXCEPT ![t] = Null]
      /\ UNCHANGED <<size, isfree, uses, flushed>>
  BY DEF Insert, Go
<1> HIDE DEF b, c
<1> SUFFICES ASSUME "list" \notin races' PROVE OnePredecessor' /\ FreeBlocks'
  BY DEF Tidy
<1>2. c = next[Root] /\ OnePredecessor /\ FreeBlocks /\ TypeOK' /\ From(next, c) = Chain
  BY <1>1 DEF Tidy, Basic, Chain
<1>3. /\ b \notin Listed /\ next[b] = Null /\ other[b] = Null /\ isfree[b] /\ b \notin flushed
      /\ \A u \in Thread \ {t} : Hand(u) # b
  BY <1>0, <1>2 DEF FreeBlocks, b
<1>4. /\ Listed \in SUBSET Block /\ Chain \subseteq Listed
  BY ListedFacts
<1>5. /\ Listed' = Listed \cup {b} /\ OnePredecessor'
      /\ \A x \in Block \ Listed : x # b => next'[x] = next[x] /\ other'[x] = other[x]
  <2>1. ASSUME NEW d \in Chain, d \in Block,
               other' = [other EXCEPT ![b] = other[d], ![d] = b], UNCHANGED next
        PROVE  /\ Listed' = Listed \cup {b} /\ OnePredecessor'
               /\ \A x \in Block \ Listed : x # b => next'[x] = next[x] /\ other'[x] = other[x]
    <3>1. Listed' = Listed \cup {b} /\ OnePredecessor'
      BY <1>0, <1>2, <1>3, <2>1, LinkedBehind
    <3>2. \A x \in Block \ Listed : x # b => next'[x] = next[x] /\ other'[x] = other[x]
      BY <1>4, <2>1 DEF Basic, TypeOK
    <3> QED BY <3>1, <3>2
  <2>2. ASSUME NEW d \in Chain \cup {Null}, NEW e \in Chain \cup {Root},
               next' = [next EXCEPT ![b] = IF d = Null THEN @ ELSE d, ![e] = b],
               UNCHANGED other, next[e] = d
        PROVE  /\ Listed' = Listed \cup {b} /\ OnePredecessor'
               /\ \A x \in Block \ Listed : x # b => next'[x] = next[x] /\ other'[x] = other[x]
    <3>1. Listed' = Listed \cup {b} /\ OnePredecessor'
      BY <1>0, <1>2, <1>3, <2>2, LinkedBetween
    <3>2. \A x \in Block \ Listed : x # b => next'[x] = next[x] /\ other'[x] = other[x]
      BY <1>0, <1>4, <2>2 DEF Basic, TypeOK
    <3> QED BY <3>1, <3>2
  <2> QED BY <1>0, <1>1, <1>2, <2>1, <2>2, LinkFacts
<1>6. /\ Hand(t)' = Null /\ at'[t] = "idle"
      /\ \A u \in Thread \ {t} : Hand(u)' = Hand(u) /\ at'[u] = at[u] /\ mem'[u] = mem[u]
  <2>1. /\ mem'[t] = Null /\ tmpCur'[t] = Null /\ at'[t] = "idle"
        /\ \A u \in Thread \ {t} : tmpCur'[u] = tmpCur[u] /\ at'[u] = at[u] /\ mem'[u] = mem[u]
    BY <1>1 DEF Basic, TypeOK
  <2> QED BY <2>1 DEF Hand
<1>7. FreeBlocks'
  <2>1. \A x \in Block :
          x \in Listed' <=> isfree'[x] /\ x \notin flushed' /\ \A u \in Thread : Hand(u)' # x
    <3> SUFFICES ASSUME NEW x \in Block
                 PROVE  x \in Listed' <=>
                          isfree'[x] /\ x \notin flushed' /\ \A u \in Thread : Hand(u)' # x
      OBVIOUS
    <3>1. x \in Listed <=> isfree[x] /\ x \notin flushed /\ \A u \in Thread : Hand(u) # x
      BY <1>2 DEF FreeBlocks
    <3>2. CASE x = b
      BY <1>0, <1>1, <1>3, <1>5, <1>6, <3>2
    <3>3. CASE x # b
      <4>1. (\A u \in Thread : Hand(u)' # x) <=> (\A u \in Thread : Hand(u) # x)
        BY <1>0, <1>6, <3>3
      <4> QED BY <1>1, <1>5, <3>1, <3>3, <4>1
    <3> QED BY <3>2, <3>3
  <2>2. \A u, v \in Thread : Hand(u)' = Hand(v)' /\ Hand(u)' # Null => u = v
    BY <1>2, <1>6 DEF FreeBlocks
  <2>3. \A u \in Thread : Hand(u)' # Null /\ size'[Hand(u)'] # 0
          => isfree'[Hand(u)'] /\ Hand(u)' \notin flushed'
    BY <1>1, <1>2, <1>6 DEF FreeBlocks
  <2>4. ASSUME NEW u \in Thread, at'[u] = "insert"
        PROVE  next'[mem'[u]] = Null /\ other'[mem'[u]] = Null
    <3>1. u # t /\ at[u] = "insert" /\ mem[u] \in Block /\ Hand(u) = mem[u] /\ mem[u] # b
      BY <1>3, <1>6, <2>4, HandFacts
    <3>2. mem[u] \notin Listed
      BY <1>2, <3>1 DEF FreeBlocks
    <3> QED BY <1>2, <1>5, <1>6, <3>1, <3>2 DEF FreeBlocks
  <2>5. /\ \A x \in flushed' : isfree'[x]
        /\ \A x \in Block : size'[x] # 0 => uses'[x] = (IF isfree'[x] THEN 0 ELSE 1)
    BY <1>1, <1>2 DEF FreeBlocks
  <2> QED BY <2>1, <2>2, <2>3, <2>4, <2>5 DEF FreeBlocks
<1> QED BY <1>5, <1>7

LEMMA InitTidy == Init => Tidy
<1> SUFFICES ASSUME Init PROVE OnePredecessor /\ FreeBlocks
  BY DEF Tidy
<1> USE DEF Init
<1>1. Chain = {} /\ Listed = {}
  <2>1. next[Root] = Null
    OBVIOUS
  <2> QED BY <2>1, FromNull DEF Chain, Listed
<1>2. \A t \in Thread : Hand(t) = Null /\ at[t] # "insert"
  BY DEF Hand
<1>3. OnePredecessor
  BY <1>1 DEF OnePredecessor
<1>4. FreeBlocks
  BY <1>1, <1>2 DEF FreeBlocks
<1> QED BY <1>3, <1>4

LEMMA NextTidy ==
  ASSUME Basic, Basic', Tidy, [Next]_vars
  PROVE  Tidy'
<1>1. CASE UNCHANGED vars
  BY <1>1, QuietTidy DEF vars, locals
<1>2. CASE Next
  <2>1. PICK t \in Thread :
          \/ \E n \in Size : Allocate(t, n)
          \/ CheckRoom(t) \/ Recheck(t) \/ Malloc(t) \/ MallocFails(t) \/ Store(t)
          \/ Flush(t) \/ FlushUnlink(t) \/ FlushSubtract(t) \/ FlushEnd(t)
          \/ \E b \in Block : Free(t, b)
          \/ Insert(t)
    BY <1>2 DEF Next
  <2>2. ASSUME NEW n \in Size, Allocate(t, n) PROVE Tidy'
    <3>1. CASE Fitting(next[Root], n) # {}
      BY <2>2, <3>1, TakeTidy DEF Allocate
    <3>2. CASE Fitting(next[Root], n) = {}
      <4>1. \A u \in Thread : at'[u] = "insert" => at[u] = "insert"
        BY <2>2, <3>2 DEF Allocate, Go, Basic, TypeOK
      <4> QED BY <2>2, <3>2, <4>1, QuietTidy DEF Allocate
    <3> QED BY <3>1, <3>2
  <2>3. ASSUME CheckRoom(t) \/ Recheck(t) \/ MallocFails(t) \/ Flush(t) \/ FlushEnd(t)
        PROVE  Tidy'
    <3>1. \A u \in Thread : at'[u] = "insert" => at[u] = "insert"
      BY <2>3 DEF CheckRoom, Recheck, MallocFails, Flush, FlushEnd, Go, Basic, TypeOK
    <3>2. UNCHANGED <<size, isfree, lists, mem, tmpCur, uses, flushed, races>>
      BY <2>3 DEF CheckRoom, Recheck, MallocFails, Flush, FlushEnd, locals
    <3> QED BY <3>1, <3>2, QuietTidy
  <2> QED BY <2>1, <2>2, <2>3, MallocTidy, StoreTidy, FlushUnlinkTidy, FlushSubtractTidy,
             FreeTidy, InsertTidy
<1> QED BY <1>1, <1>2

-----------------------------------------------------------------------------
(* The account: allocateSize is exact until a thread loses another's update. *)

Made == Block \ flushed
Account == LimitExact /\ Reserved

LEMMA MadeFacts ==
  ASSUME Basic
  PROVE  /\ IsFiniteSet(Made) /\ Made \subseteq Block
         /\ \A b \in Made : size[b] \in Int /\ size[b] \in Nat
         /\ SumFunctionOnSet(size, Made) \in Nat
<1>1. IsFiniteSet(Made) /\ Made \subseteq Block
  BY FS_Subset, MemoryAssumption DEF Made
<1>2. \A b \in Made : size[b] \in Nat
  BY <1>1, Sizes DEF Basic
<1>3. SumFunctionOnSet(size, Made) \in Nat
  BY <1>1, <1>2, SumType
<1> QED BY <1>1, <1>2, <1>3

\* Steps that neither make nor flush a block nor load allocateSize.
LEMMA QuietAccount ==
  ASSUME Basic, Account, UNCHANGED <<size, allocateSize, flushed, races>>,
         \A t \in Thread : at'[t] \in {"malloc", "store"} =>
           at[t] \in {"malloc", "store"} /\ reg'[t] = reg[t] /\ want'[t] = want[t]
  PROVE  Account'
<1>1. LimitExact'
  BY DEF Account, LimitExact
<1>2. Reserved'
  BY DEF Account, Reserved
<1> QED BY <1>1, <1>2 DEF Account

LEMMA InitAccount == Init => Account
<1> SUFFICES ASSUME Init PROVE Account
  OBVIOUS
<1> USE DEF Init
<1>1. size = [b \in Block |-> 0] /\ Block \ flushed = Block
  OBVIOUS
<1>2. SumFunctionOnSet(size, Block \ flushed) = 0
  BY <1>1, SumZero, MemoryAssumption
<1>3. LimitExact
  BY <1>2 DEF LimitExact
<1>4. Reserved
  BY DEF Reserved
<1> QED BY <1>3, <1>4 DEF Account

\* The room is what maxAllocate leaves: the subtraction does not wrap.
LEMMA RoomExact ==
  ASSUME Basic, Account, races = {}, Size # {}
  PROVE  allocateSize <= MaxAllocate /\ Room = MaxAllocate - allocateSize
<1>1. allocateSize \in Nat /\ MaxAllocate \in Nat /\ Header \in Nat
  BY MemoryAssumption DEF Basic, TypeOK
<1>2. allocateSize <= MaxAllocate
  BY <1>1 DEF Account, LimitExact
<1>3. MaxAllocate < Word /\ Word \in Nat
  <2>1. PICK n \in Size : n \in Nat
    BY MemoryAssumption
  <2>2. MaxAllocate + Header + n < Word /\ Word \in Nat
    BY MemoryAssumption
  <2> QED BY <1>1, <2>1, <2>2
<1> QED BY <1>1, <1>2, <1>3 DEF Room

LEMMA RecheckAccount ==
  ASSUME Basic, Account, NEW t \in Thread, Recheck(t)
  PROVE  Account'
<1>1. UNCHANGED <<size, allocateSize, flushed, races, want>>
  BY DEF Recheck
<1>2. CASE at' = [u \in Thread |-> "dead"]
  BY <1>1, <1>2, QuietAccount
<1>3. CASE /\ Header + want[t] <= Room /\ Go(t, "malloc")
           /\ reg' = [reg EXCEPT ![t] = allocateSize]
  <2>1. LimitExact'
    BY <1>1 DEF Account, LimitExact
  <2>2. ASSUME races' = {}, NEW u \in Thread, at'[u] \in {"malloc", "store"}
        PROVE  reg'[u] + want'[u] + Header <= MaxAllocate
    <3>1. CASE u = t
      <4>1. want[t] \in Size /\ reg'[t] = allocateSize
        BY <1>3 DEF Basic, AllInStep, InStep, TypeOK, Recheck
      <4>2. want[t] \in Nat /\ allocateSize \in Nat /\ MaxAllocate \in Nat /\ Header \in Nat
        <5>1. allocateSize \in Nat
          BY DEF Basic, TypeOK
        <5> QED BY <4>1, <5>1, MemoryAssumption
      <4>3. Room = MaxAllocate - allocateSize
        BY <1>1, <2>2, <4>1, RoomExact
      <4> QED BY <1>1, <1>3, <3>1, <4>1, <4>2, <4>3
    <3>2. CASE u # t
      <4>1. at[u] = at'[u] /\ reg'[u] = reg[u]
        BY <1>3, <3>2 DEF Basic, TypeOK, Go
      <4> QED BY <1>1, <2>2, <4>1 DEF Account, Reserved
    <3> QED BY <3>1, <3>2
  <2> QED BY <2>1, <2>2 DEF Account, Reserved
<1> QED BY <1>2, <1>3 DEF Recheck

LEMMA MallocAccount ==
  ASSUME Basic, Account, NEW t \in Thread, Malloc(t)
  PROVE  Account'
<1>1. /\ UNCHANGED <<size, allocateSize, flushed, want>> /\ at[t] = "malloc"
      /\ reg' = [reg EXCEPT ![t] = allocateSize] /\ Go(t, "store")
      /\ races' = IF reg[t] = allocateSize THEN races ELSE races \cup {"size"}
  BY DEF Malloc
<1>2. races' = {} => races = {} /\ reg[t] = allocateSize
  BY <1>1
<1>3. LimitExact'
  BY <1>1, <1>2 DEF Account, LimitExact
<1>4. ASSUME races' = {}, NEW u \in Thread, at'[u] \in {"malloc", "store"}
      PROVE  reg'[u] + want'[u] + Header <= MaxAllocate
  <2>1. at[u] \in {"malloc", "store"} /\ reg'[u] = reg[u]
    BY <1>1, <1>2, <1>4 DEF Basic, TypeOK, Go
  <2> QED BY <1>1, <1>2, <1>4, <2>1 DEF Account, Reserved
<1> QED BY <1>3, <1>4 DEF Account, Reserved

\* The new block is added, and the sum stays below maxAllocate and so does not wrap.
LEMMA StoreAccount ==
  ASSUME Basic, Account, NEW t \in Thread, Store(t)
  PROVE  Account'
<1> DEFINE b == mem[t]
<1>1. /\ at[t] = "store" /\ b \in Block /\ size[b] = 0 /\ want[t] \in Size /\ b \notin flushed
  BY DEF Basic, AllInStep, InStep, TypeOK, Unmade, Store
<1>2. /\ allocateSize' = (reg[t] + want[t]) % Word
      /\ size' = [size EXCEPT ![b] = want[t]]
      /\ want' = [want EXCEPT ![t] = 0] /\ reg' = [reg EXCEPT ![t] = 0]
      /\ Go(t, "idle") /\ UNCHANGED flushed
      /\ races' = IF reg[t] = allocateSize THEN races ELSE races \cup {"size"}
  BY DEF Store, Added
<1> HIDE DEF b
<1> SUFFICES ASSUME races' = {} PROVE Account'
  BY DEF Account, LimitExact, Reserved
<1>3. races = {} /\ reg[t] = allocateSize
  BY <1>2
<1>4. allocateSize \in Nat /\ want[t] \in Nat /\ MaxAllocate \in Nat /\ Header \in Nat
  <2>1. allocateSize \in Nat
    BY DEF Basic, TypeOK
  <2> QED BY <1>1, <2>1, MemoryAssumption
<1>5. /\ allocateSize + want[t] + Header <= MaxAllocate
      /\ allocateSize' = allocateSize + want[t]
  <2>1. allocateSize + want[t] + Header <= MaxAllocate
    BY <1>1, <1>3 DEF Account, Reserved
  <2>2. Word \in Nat /\ MaxAllocate + Header + want[t] < Word
    BY <1>1, MemoryAssumption
  <2> QED BY <1>2, <1>3, <1>4, <2>1, <2>2
<1>6. SumFunctionOnSet(size', Made) = SumFunctionOnSet(size, Made) + want[t]
  <2>1. b \in Made
    BY <1>1 DEF Made
  <2>2. /\ \A x \in Made : size[x] \in Int /\ size'[x] \in Int
        /\ \A x \in Made \ {b} : size[x] = size'[x]
        /\ size'[b] = want[t]
    BY <1>1, <1>2, <1>4, MadeFacts DEF Basic, TypeOK
  <2>3. SumFunctionOnSet(size', Made) = SumFunctionOnSet(size, Made) + size'[b] - size[b]
    BY <2>1, <2>2, MadeFacts, SumUpdate
  <2> QED BY <1>1, <1>4, <2>2, <2>3, MadeFacts
<1>7. LimitExact'
  <2>1. SumFunctionOnSet(size, Made) = allocateSize
    BY <1>3 DEF Account, LimitExact, Made
  <2> QED BY <1>2, <1>4, <1>5, <1>6, <2>1 DEF LimitExact, Made
<1>8. Reserved'
  <2> SUFFICES ASSUME NEW u \in Thread, at'[u] \in {"malloc", "store"}
               PROVE  reg'[u] + want'[u] + Header <= MaxAllocate
    BY DEF Reserved
  <2>1. u # t /\ at[u] = at'[u] /\ reg'[u] = reg[u] /\ want'[u] = want[u]
    BY <1>2 DEF Basic, TypeOK, Go
  <2> QED BY <1>3, <2>1 DEF Account, Reserved
<1> QED BY <1>7, <1>8 DEF Account

\* A block is flushed once, so that its size is in the sum and the subtraction does
\* not wrap.
LEMMA FlushSubtractAccount ==
  ASSUME Basic, Tidy, Account, NEW t \in Thread, FlushSubtract(t)
  PROVE  Account'
<1> DEFINE b == tmpCur[t]
<1>1. /\ at[t] = "subtract" /\ b \in Block /\ b # Null /\ size[b] # 0 /\ Hand(t) = b
  BY HandFacts, MemoryAssumption DEF Basic, AllInStep, InStep, TypeOK, Unmade, FlushSubtract
<1>2. /\ allocateSize' = (reg[t] - size[b]) % Word
      /\ flushed' = flushed \cup {b} /\ reg' = [reg EXCEPT ![t] = 0]
      /\ at' = [at EXCEPT ![t] = "hung"] \/ at' = [at EXCEPT ![t] = "flushing"]
      /\ UNCHANGED <<size, want>>
      /\ races' = IF reg[t] = allocateSize THEN races ELSE races \cup {"size"}
  BY DEF FlushSubtract, Go
<1> HIDE DEF b
<1> SUFFICES ASSUME races' = {} PROVE Account'
  BY DEF Account, LimitExact, Reserved
<1>3. races = {} /\ reg[t] = allocateSize
  BY <1>2
<1>4. b \in Made
  BY <1>1, <1>3 DEF Tidy, FreeBlocks, Made
<1>5. /\ SumFunctionOnSet(size, Made) = size[b] + SumFunctionOnSet(size, Made \ {b})
      /\ SumFunctionOnSet(size, Made \ {b}) \in Nat /\ size[b] \in Nat
  <2>1. SumFunctionOnSet(size, Made) = size[b] + SumFunctionOnSet(size, Made \ {b})
    BY <1>4, MadeFacts, SumRemove
  <2>2. IsFiniteSet(Made \ {b}) /\ \A x \in Made \ {b} : size[x] \in Nat
    BY MadeFacts, FS_Subset
  <2> QED BY <1>4, <2>1, <2>2, MadeFacts, SumType
<1>6. allocateSize = SumFunctionOnSet(size, Made)
  BY <1>3 DEF Account, LimitExact, Made
<1>7. allocateSize' = SumFunctionOnSet(size, Made \ {b})
  <2>1. allocateSize \in 0..(Word - 1) /\ Word \in Nat \ {0}
    BY MemoryAssumption DEF Basic, TypeOK
  <2> QED BY <1>2, <1>3, <1>5, <1>6, <2>1
<1>8. LimitExact'
  <2>1. Block \ flushed' = Made \ {b}
    BY <1>2 DEF Made
  <2>2. MaxAllocate \in Nat /\ Header \in Nat
    BY MemoryAssumption
  <2>3. allocateSize' > 0 => allocateSize' <= MaxAllocate - Header
    BY <1>3, <1>5, <1>6, <1>7, <2>2 DEF Account, LimitExact
  <2> QED BY <1>2, <1>7, <2>1, <2>3 DEF LimitExact
<1>9. Reserved'
  <2> SUFFICES ASSUME NEW u \in Thread, at'[u] \in {"malloc", "store"}
               PROVE  reg'[u] + want'[u] + Header <= MaxAllocate
    BY DEF Reserved
  <2>1. u # t /\ at[u] = at'[u] /\ reg'[u] = reg[u]
    BY <1>2 DEF Basic, TypeOK
  <2> QED BY <1>2, <1>3, <2>1 DEF Account, Reserved
<1> QED BY <1>8, <1>9 DEF Account

LEMMA NextAccount ==
  ASSUME Basic, Tidy, Account, [Next]_vars
  PROVE  Account'
<1>1. CASE UNCHANGED vars
  BY <1>1, QuietAccount DEF vars, locals
<1>2. CASE Next
  <2>1. PICK t \in Thread :
          \/ \E n \in Size : Allocate(t, n)
          \/ CheckRoom(t) \/ Recheck(t) \/ Malloc(t) \/ MallocFails(t) \/ Store(t)
          \/ Flush(t) \/ FlushUnlink(t) \/ FlushSubtract(t) \/ FlushEnd(t)
          \/ \E b \in Block : Free(t, b)
          \/ Insert(t)
    BY <1>2 DEF Next
  <2>2. ASSUME NEW n \in Size, Allocate(t, n) PROVE Account'
    <3>1. UNCHANGED <<size, allocateSize, flushed, races, reg>>
      BY <2>2 DEF Allocate
    <3>2. \A u \in Thread : at'[u] \in {"malloc", "store"} =>
            at[u] \in {"malloc", "store"} /\ want'[u] = want[u]
      BY <2>2 DEF Allocate, Take, Go, Basic, TypeOK
    <3> QED BY <3>1, <3>2, QuietAccount
  <2>3. ASSUME NEW b \in Block, Free(t, b) PROVE Account'
    <3>1. UNCHANGED <<size, allocateSize, flushed, races, reg, want>>
      BY <2>3 DEF Free
    <3>2. \A u \in Thread : at'[u] \in {"malloc", "store"} => at[u] \in {"malloc", "store"}
      BY <2>3 DEF Free, Go, Basic, TypeOK
    <3> QED BY <3>1, <3>2, QuietAccount
  <2>4. ASSUME CheckRoom(t) \/ MallocFails(t) \/ Flush(t) \/ FlushUnlink(t) \/ FlushEnd(t)
        PROVE  Account'
    <3>1. UNCHANGED <<size, allocateSize, flushed, races, want>>
      BY <2>4 DEF CheckRoom, MallocFails, Flush, FlushUnlink, FlushEnd, locals
    <3>2. \A u \in Thread : at'[u] \in {"malloc", "store"} =>
            at[u] \in {"malloc", "store"} /\ reg'[u] = reg[u]
      BY <2>4 DEF CheckRoom, MallocFails, Flush, FlushUnlink, FlushEnd, Go, locals, Basic,
                  TypeOK
    <3> QED BY <3>1, <3>2, QuietAccount
  <2>5. ASSUME Insert(t) PROVE Account'
    <3>1. UNCHANGED <<size, allocateSize, flushed, reg, want>> /\ races \subseteq races'
      BY <2>5 DEF Insert
    <3>2. \A u \in Thread : at'[u] \in {"malloc", "store"} => at[u] \in {"malloc", "store"}
      BY <2>5 DEF Insert, Go, Basic, TypeOK
    <3>3. races' = {} => races = {}
      BY <3>1
    <3> QED BY <3>1, <3>2, <3>3 DEF Account, LimitExact, Reserved
  <2> QED BY <2>1, <2>2, <2>3, <2>4, <2>5, RecheckAccount, MallocAccount, StoreAccount,
             FlushSubtractAccount
<1> QED BY <1>1, <1>2

-----------------------------------------------------------------------------
(* The theorems. *)

\* Of four flags one is set.
LEMMA OneOfFour ==
  ASSUME NEW p, NEW k \in 1..4, p[k], \A i \in (1..4) \ {k} : ~p[i]
  PROVE  Cardinality({i \in 1..4 : p[i]}) = 1
<1>1. {i \in 1..4 : p[i]} = {k}
  OBVIOUS
<1> QED BY <1>1, FS_Singleton

LEMMA Flags ==
  ASSUME NEW a, NEW b, NEW c, NEW d
  PROVE  LET p == <<a, b, c, d>> IN p[1] = a /\ p[2] = b /\ p[3] = c /\ p[4] = d
OBVIOUS

\* While the lists are tidy a block is in one of the four places: a block that is not
\* free has one user; a free one is in a hand, flushed, or else in the lists.
LEMMA TidyPlaces ==
  ASSUME Basic, Tidy
  PROVE  EachBlockOnce
<1> SUFFICES ASSUME "list" \notin races, NEW b \in Block, size[b] > 0
             PROVE  /\ Cardinality({i \in 1..4 :
                        <<uses[b] > 0, b \in InHand, b \in Listed, b \in flushed>>[i]}) = 1
                    /\ uses[b] <= 1
  BY DEF EachBlockOnce
<1>1. OnePredecessor /\ FreeBlocks
  BY DEF Tidy
<1>2. size[b] # 0 /\ Null \notin Block
  BY Sizes DEF Basic
<1>3. b \in InHand <=> \E t \in Thread : Hand(t) = b
  BY <1>2 DEF InHand, Hand
<1>4. uses[b] = (IF isfree[b] THEN 0 ELSE 1)
  BY <1>1, <1>2 DEF FreeBlocks
<1>5. b \in Listed <=> isfree[b] /\ b \notin flushed /\ \A t \in Thread : Hand(t) # b
  BY <1>1 DEF FreeBlocks
<1>6. \A t \in Thread : Hand(t) = b => isfree[b] /\ b \notin flushed
  BY <1>1, <1>2 DEF FreeBlocks
<1>7. b \in flushed => isfree[b]
  BY <1>1 DEF FreeBlocks
<1> DEFINE inHand == b \in InHand
           inLists == b \in Listed
           gone == b \in flushed
           user == uses[b] > 0
           p == <<user, inHand, inLists, gone>>
<1>8. /\ user <=> ~isfree[b]
      /\ inLists <=> isfree[b] /\ ~gone /\ ~inHand
      /\ inHand => isfree[b] /\ ~gone
      /\ gone => isfree[b]
  BY <1>3, <1>4, <1>5, <1>6, <1>7
<1> HIDE DEF inHand, inLists, gone, user
<1>9. p[1] = user /\ p[2] = inHand /\ p[3] = inLists /\ p[4] = gone
  BY Flags
<1> HIDE DEF p
<1>10. Cardinality({i \in 1..4 : p[i]}) = 1
  <2>1. CASE user
    <3>1. ~inHand /\ ~inLists /\ ~gone
      BY <1>8, <2>1
    <3>2. p[1] /\ ~p[2] /\ ~p[3] /\ ~p[4]
      BY <1>9, <2>1, <3>1, Zenon
    <3>3. \A i \in (1..4) \ {1} : ~p[i]
      BY <3>2
    <3> QED BY <3>2, <3>3, OneOfFour
  <2>2. CASE inHand
    <3>1. ~user /\ ~inLists /\ ~gone
      BY <1>8, <2>2
    <3>2. p[2] /\ ~p[1] /\ ~p[3] /\ ~p[4]
      BY <1>9, <2>2, <3>1, Zenon
    <3>3. \A i \in (1..4) \ {2} : ~p[i]
      BY <3>2
    <3> QED BY <3>2, <3>3, OneOfFour
  <2>3. CASE inLists
    <3>1. ~user /\ ~inHand /\ ~gone
      BY <1>8, <2>3
    <3>2. p[3] /\ ~p[1] /\ ~p[2] /\ ~p[4]
      BY <1>9, <2>3, <3>1, Zenon
    <3>3. \A i \in (1..4) \ {3} : ~p[i]
      BY <3>2
    <3> QED BY <3>2, <3>3, OneOfFour
  <2>4. CASE gone
    <3>1. ~user /\ ~inHand /\ ~inLists
      BY <1>8, <2>4
    <3>2. p[4] /\ ~p[1] /\ ~p[2] /\ ~p[3]
      BY <1>9, <2>4, <3>1, Zenon
    <3>3. \A i \in (1..4) \ {4} : ~p[i]
      BY <3>2
    <3> QED BY <3>2, <3>3, OneOfFour
  <2> QED BY <1>8, <2>1, <2>2, <2>3, <2>4
<1> QED BY <1>4, <1>10 DEF p, user, inHand, inLists, gone

\* Whatever order the threads take their steps in, the lists and the account are as
\* IInv says.
THEOREM Invariance == Spec => []IInv
<1>1. Init => IInv
  BY InitBasic, InitTidy, InitAccount DEF IInv, Basic, Account
<1>2. IInv /\ [Next]_vars => IInv'
  BY NextBasic, NextTidy, NextAccount DEF IInv, Basic, Account
<1> QED BY <1>1, <1>2, PTL DEF Spec

\* The variables of the memory manager keep their types, and only a thread that is in
\* flush holds the mutex over several steps.
THEOREM TypeCorrect == Spec => []TypeOK
<1>1. IInv => TypeOK
  BY DEF IInv
<1> QED BY <1>1, Invariance, PTL

\* Even when a thread inserts behind a head that another has taken (MemManager.cpp:53),
\* `next` leads to larger blocks and `other` to blocks of the same size: every walk ends
\* and allocate never returns a block that is too small.
THEOREM SizesStayOrdered == Spec => []SizesOrdered
<1>1. IInv => SizesOrdered
  BY DEF IInv
<1> QED BY <1>1, Invariance, PTL

\* Until the head that free has read too early changes before its insertion, no block is
\* handed out twice, and none is lost.
THEOREM BlocksInOnePlace == Spec => []EachBlockOnce
<1>1. IInv => EachBlockOnce
  BY TidyPlaces DEF IInv, Basic
<1> QED BY <1>1, Invariance, PTL

\* Until a thread loses another's update of allocateSize, it is the size of the blocks
\* that were made and not flushed, neither addition nor subtraction wraps, and maxAllocate
\* is kept.
THEOREM LimitIsExact == Spec => []LimitExact
<1>1. IInv => LimitExact
  BY DEF IInv
<1> QED BY <1>1, Invariance, PTL

=============================================================================
