-------------------------------- MODULE Memory --------------------------------
(***************************************************************************)
(* The memory manager of a connection process (server/MemManager.cpp).     *)
(*                                                                         *)
(* Freed blocks are kept in a list of lists: `next` leads to the first     *)
(* block of the next larger size, `other` to one of the same size.         *)
(* allocate takes the first block that is large enough; if there is none   *)
(* it asks malloc, within maxAllocate.  All threads of the process use it; *)
(* the mutex protects the lists, but for the first read in free, and not   *)
(* allocateSize.  All callers allow a larger block than they ask for.      *)
(***************************************************************************)
EXTENDS Integers, FiniteSets, FiniteSetsExt

CONSTANTS
  Thread,
  Block,       \* what malloc can give, each with its header
  Root,        \* free_list, a header without memory
  Null,        \* no block, no thread
  Size,        \* sizes asked for
  Header,      \* sizeof(struct mem_header)
  MaxAllocate, \* maxAllocate, from memory.maxAllocate
  Word,        \* unsigned int is modulo Word
  MaxUses      \* bound: how often a block is handed out at the same time

ASSUME MemoryAssumption ==
  /\ IsFiniteSet(Block)
  /\ Root \notin Block /\ Null \notin Block \cup {Root} \cup Thread
  /\ Size \subseteq Nat \ {0}
  /\ Header \in Nat /\ MaxAllocate \in Nat
  /\ Word \in Nat \ {0} /\ \A n \in Size : MaxAllocate + Header + n < Word
  /\ MaxUses \in Nat \ {0}

VARIABLES
  size,         \* size in each header; 0 before malloc has given the block
  isfree, next, other,
  allocateSize,
  mutex,        \* its holder where it is held for several steps
  at,           \* where each thread is
  want,         \* the size it asks for
  mem,          \* the block it has in hand
  tmpCur,       \* the head of the list as free has read it
  targetSize,   \* what flush still has to find
  reg,          \* allocateSize as it has been loaded
  uses,         \* users of each block: handed out and not freed
  flushed,      \* history: blocks that flush has removed
  races         \* history: what has been changed between test and use

lists == <<next, other>>
locals == <<want, mem, tmpCur, targetSize, reg>>
vars == <<size, isfree, lists, allocateSize, mutex, at, locals, uses, flushed, races>>

Place == {"idle", "check", "flush", "flushing", "subtract", "hung", "recheck", "malloc",
          "store", "insert", "dead"}

TypeOK ==
  /\ size \in [Block -> Size \cup {0}]
  /\ isfree \in [Block -> BOOLEAN]
  /\ next \in [Block \cup {Root} -> Block \cup {Null}]
  /\ other \in [Block -> Block \cup {Null}]
  /\ allocateSize \in 0..(Word - 1)
  /\ mutex \in Thread \cup {Null}
  /\ at \in [Thread -> Place]
  /\ want \in [Thread -> Size \cup {0}]
  /\ mem \in [Thread -> Block \cup {Null}]
  /\ tmpCur \in [Thread -> Block \cup {Null}]
  /\ targetSize \in [Thread -> 0..(Word - 1)]
  /\ reg \in [Thread -> 0..(Word - 1)]
  /\ uses \in [Block -> 0..MaxUses]
  /\ flushed \subseteq Block
  /\ races \subseteq {"list", "size"}
  /\ \A t \in Thread : mutex = t => at[t] \in {"flushing", "subtract", "hung", "dead"}

Init ==
  /\ size = [b \in Block |-> 0]
  /\ isfree = [b \in Block |-> FALSE]
  /\ next = [b \in Block \cup {Root} |-> Null]
  /\ other = [b \in Block |-> Null]
  /\ allocateSize = 0
  /\ mutex = Null
  /\ at = [t \in Thread |-> "idle"]
  /\ want = [t \in Thread |-> 0]
  /\ mem = [t \in Thread |-> Null]
  /\ tmpCur = [t \in Thread |-> Null]
  /\ targetSize = [t \in Thread |-> 0]
  /\ reg = [t \in Thread |-> 0]
  /\ uses = [b \in Block |-> 0]
  /\ flushed = {} /\ races = {}

Go(t, p) == at' = [at EXCEPT ![t] = p]

-----------------------------------------------------------------------------
(* The lists.  Sizes rise along `next`, so a walk meets each size once. *)

Closed(link, S) == \A b \in S : link[b] \in S \cup {Null}

From(link, c) ==
  {b \in Block : \A S \in SUBSET Block : Closed(link, S) /\ c \in S \cup {Null} => b \in S}

\* The first block of a walk along next that has at least size n.
Fitting(c, n) == {b \in From(next, c) : size[b] >= n}
First(c, n) == CHOOSE b \in Fitting(c, n) : \A d \in Fitting(c, n) : size[b] <= size[d]

\* What precedes b, a block or the end, on a walk that begins at c.
Before(c, b) == IF b = c THEN Root ELSE CHOOSE d \in From(next, c) : next[d] = b

-----------------------------------------------------------------------------
(* allocate *)

\* Mutant: a block of the same size is taken without being unlinked.
OtherLinked(b) == other

\* Lines 17-23: what is left of `other` when a block is taken from those at b.
OtherWithout(b) ==
  IF other[b] = Null THEN other ELSE [other EXCEPT ![b] = other[other[b]]]

\* One of the same size goes before the first one.
Take(b) ==
  LET r == IF other[b] # Null THEN other[b] ELSE b IN
  /\ next' = IF other[b] # Null THEN next
             ELSE [next EXCEPT ![Before(next[Root], b)] = next[b]]
  /\ other' = OtherWithout(b)
  /\ uses' = [uses EXCEPT ![r] = @ + 1]
  /\ isfree' = [isfree EXCEPT ![r] = FALSE]

Allocate(t, n) ==
  /\ at[t] = "idle"
  /\ mutex = Null
  /\ \/ /\ Fitting(next[Root], n) # {}
        /\ \A b \in Block : uses[b] < MaxUses
        /\ Take(First(next[Root], n))
        /\ UNCHANGED <<at, want>>
     \/ /\ Fitting(next[Root], n) = {}
        /\ Go(t, "check")
        /\ want' = [want EXCEPT ![t] = n]
        /\ UNCHANGED <<lists, uses, isfree>>
  /\ UNCHANGED <<size, allocateSize, mutex, mem, tmpCur, targetSize, reg,
                 flushed, races>>

Room == (MaxAllocate - allocateSize) % Word

CheckRoom(t) ==
  /\ at[t] = "check"
  /\ Go(t, IF Header + want[t] > Room THEN "flush" ELSE "recheck")
  /\ UNCHANGED <<size, isfree, lists, allocateSize, mutex, locals, uses, flushed, races>>

\* Without room allocate writes to a null pointer (line 44): the process ends.
Recheck(t) ==
  /\ at[t] = "recheck"
  /\ \/ /\ Header + want[t] <= Room
        /\ Go(t, "malloc")
        /\ reg' = [reg EXCEPT ![t] = allocateSize]
     \/ /\ Header + want[t] > Room
        /\ at' = [u \in Thread |-> "dead"]
        /\ UNCHANGED reg
  /\ UNCHANGED <<size, isfree, lists, allocateSize, mutex, want, mem, tmpCur,
                 targetSize, uses, flushed, races>>

\* malloc, and the load of allocateSize += size.
Malloc(t) ==
  /\ at[t] = "malloc"
  /\ \E b \in Block :
       /\ size[b] = 0 /\ \A u \in Thread : mem[u] # b
       /\ mem' = [mem EXCEPT ![t] = b]
  /\ Go(t, "store")
  /\ reg' = [reg EXCEPT ![t] = allocateSize]
  /\ races' = IF reg[t] = allocateSize THEN races ELSE races \cup {"size"}
  /\ UNCHANGED <<size, isfree, lists, allocateSize, mutex, want, tmpCur,
                 targetSize, uses, flushed>>

MallocFails(t) ==
  /\ at[t] = "malloc"
  /\ at' = [u \in Thread |-> "dead"]
  /\ UNCHANGED <<size, isfree, lists, allocateSize, mutex, locals, uses, flushed, races>>

\* Mutant: the header is counted, but not given back.
AddedWithHeader(t) == (reg[t] + want[t] + Header) % Word

Added(t) == (reg[t] + want[t]) % Word

Store(t) ==
  LET b == mem[t] IN
  /\ at[t] = "store"
  /\ allocateSize' = Added(t)
  /\ size' = [size EXCEPT ![b] = want[t]]
  /\ next' = [next EXCEPT ![b] = Null] /\ other' = [other EXCEPT ![b] = Null]
  /\ isfree' = [isfree EXCEPT ![b] = FALSE]
  /\ uses' = [uses EXCEPT ![b] = 1]
  /\ races' = IF reg[t] = allocateSize THEN races ELSE races \cup {"size"}
  /\ Go(t, "idle")
  /\ want' = [want EXCEPT ![t] = 0]
  /\ mem' = [mem EXCEPT ![t] = Null]
  /\ reg' = [reg EXCEPT ![t] = 0]
  /\ UNCHANGED <<mutex, tmpCur, targetSize, flushed>>

-----------------------------------------------------------------------------
(* flush *)

\* Mutant: as if the sizes were signed.
TargetSigned(t) == Header + want[t] - allocateSize

\* Line 34.
Target(t) == (Header + want[t] - allocateSize) % Word

Flush(t) ==
  /\ at[t] = "flush"
  /\ mutex = Null
  /\ mutex' = t
  /\ Go(t, "flushing")
  /\ targetSize' = [targetSize EXCEPT ![t] = Target(t)]
  /\ UNCHANGED <<size, isfree, lists, allocateSize, want, mem, tmpCur, reg,
                 uses, flushed, races>>

\* The first block leaves the lists and allocateSize is loaded.
FlushUnlink(t) ==
  LET b == next[Root] IN
  /\ at[t] = "flushing"
  /\ b # Null /\ targetSize[t] > 0
  /\ next' = IF other[b] # Null
             THEN [next EXCEPT ![Root] = other[b], ![other[b]] = next[b]]
             ELSE [next EXCEPT ![Root] = next[b]]
  /\ tmpCur' = [tmpCur EXCEPT ![t] = b]
  /\ reg' = [reg EXCEPT ![t] = allocateSize]
  /\ Go(t, "subtract")
  /\ UNCHANGED <<size, isfree, other, allocateSize, mutex, want, mem, targetSize,
                 uses, flushed, races>>

\* free is MemManager::free and takes what precedes the header for a header.
\* It waits for the mutex that flush holds, or finds the bytes "already free".
FlushSubtract(t) ==
  LET b == tmpCur[t] IN
  /\ at[t] = "subtract"
  /\ allocateSize' = (reg[t] - size[b]) % Word
  /\ targetSize' = [targetSize EXCEPT ![t] = (@ - size[b]) % Word]
  /\ races' = IF reg[t] = allocateSize THEN races ELSE races \cup {"size"}
  /\ flushed' = flushed \cup {b}
  /\ tmpCur' = [tmpCur EXCEPT ![t] = Null]
  /\ reg' = [reg EXCEPT ![t] = 0]
  /\ \/ Go(t, "hung")
     \/ Go(t, "flushing")
  /\ UNCHANGED <<size, isfree, lists, mutex, want, mem, uses>>

FlushEnd(t) ==
  /\ at[t] = "flushing"
  /\ next[Root] = Null \/ targetSize[t] = 0
  /\ mutex' = Null
  /\ targetSize' = [targetSize EXCEPT ![t] = 0]
  /\ Go(t, "recheck")
  /\ UNCHANGED <<size, isfree, lists, allocateSize, want, mem, tmpCur, reg,
                 uses, flushed, races>>

-----------------------------------------------------------------------------
(* free *)

\* Up to line 53: the head of the list is read before the mutex is taken.
Free(t, b) ==
  /\ at[t] = "idle"
  /\ uses[b] > 0
  /\ uses' = [uses EXCEPT ![b] = @ - 1]
  /\ IF isfree[b]
     THEN UNCHANGED <<isfree, lists, at, mem, tmpCur>>
     ELSE /\ next' = [next EXCEPT ![b] = Null] /\ other' = [other EXCEPT ![b] = Null]
          /\ isfree' = [isfree EXCEPT ![b] = TRUE]
          /\ mem' = [mem EXCEPT ![t] = b]
          /\ tmpCur' = [tmpCur EXCEPT ![t] = next[Root]]
          /\ Go(t, "insert")
  /\ UNCHANGED <<size, allocateSize, mutex, want, targetSize, reg, flushed, races>>

\* Mutant: a block always goes before those of its size.
AmongNever(b, d) == FALSE

Among(b, d) == d # Null /\ size[d] = size[b]

\* Lines 55-73: block b, on a walk that begins at c.
Link(b, c) ==
  LET up == Fitting(c, size[b])
      d  == IF up = {} THEN Null ELSE First(c, size[b])
  IN  IF Among(b, d)
      THEN other' = [other EXCEPT ![b] = other[d], ![d] = b] /\ UNCHANGED next
      ELSE /\ next' = [next EXCEPT ![b] = IF d = Null THEN @ ELSE d, ![Before(c, d)] = b]
           /\ UNCHANGED other

Insert(t) ==
  /\ at[t] = "insert"
  /\ mutex = Null
  /\ Link(mem[t], tmpCur[t])
  /\ races' = IF tmpCur[t] = next[Root] THEN races ELSE races \cup {"list"}
  /\ Go(t, "idle")
  /\ mem' = [mem EXCEPT ![t] = Null]
  /\ tmpCur' = [tmpCur EXCEPT ![t] = Null]
  /\ UNCHANGED <<size, isfree, allocateSize, mutex, want, targetSize, reg, uses, flushed>>

Next ==
  \E t \in Thread :
    \/ \E n \in Size : Allocate(t, n)
    \/ CheckRoom(t) \/ Recheck(t) \/ Malloc(t) \/ MallocFails(t) \/ Store(t)
    \/ Flush(t) \/ FlushUnlink(t) \/ FlushSubtract(t) \/ FlushEnd(t)
    \/ \E b \in Block : Free(t, b)
    \/ Insert(t)

Spec == Init /\ [][Next]_vars

-----------------------------------------------------------------------------
(* Properties *)

\* Whatever the threads do to each other, `next` leads to larger blocks and
\* `other` to blocks of the same size: a walk of allocate, free or flush ends,
\* and a block that allocate returns is never smaller than was asked for.
SizesOrdered ==
  \A b \in Block, c \in Block :
    /\ next[b] = c => size[b] < size[c]
    /\ other[b] = c => size[b] = size[c]

Listed == UNION {From(other, b) : b \in From(next, next[Root])}
InHand == {mem[t] : t \in Thread} \cup {tmpCur[t] : t \in {u \in Thread : mem[u] = Null}}

\* While no thread has inserted a block behind a head that free had read too
\* early, each block malloc gave is with one user, in the hands of one thread,
\* in the lists, or flushed, and nowhere else: nothing is handed out twice and
\* nothing is lost (MemManager.cpp:53).
EachBlockOnce ==
  "list" \notin races =>
    \A b \in Block : size[b] > 0 =>
      LET places == <<uses[b] > 0, b \in InHand, b \in Listed, b \in flushed>>
      IN  Cardinality({i \in 1..4 : places[i]}) = 1 /\ uses[b] <= 1

\* While no thread has lost another's update, allocateSize is the size of the
\* blocks that were made and not flushed, and leaves room for one header.
LimitExact ==
  races = {} =>
    /\ allocateSize = SumFunctionOnSet(size, Block \ flushed)
    /\ allocateSize > 0 => allocateSize <= MaxAllocate - Header

=============================================================================
