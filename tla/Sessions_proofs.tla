---------------------------- MODULE Sessions_proofs ----------------------------
(***************************************************************************)
(* Proofs about Sessions, for any sessions, sizes and numbers of requests. *)
(*                                                                         *)
(* The account is what the rows sum up to and what handlers under way are  *)
(* ahead of them: InStep says of a handler at each statement how its size, *)
(* its difference and its file go together.  The overshoot is bounded by   *)
(* what the other sessions have promised after the test.                   *)
(***************************************************************************)
EXTENDS Sessions, SetLemmas

Place == {"idle", "check", "next", "reserve", "reserveNew", "insert", "write",
          "delete", "release", "dead"}

TypeOK ==
  /\ directory \in [Fileid -> Nat \cup {NoRow}]
  /\ ldAlloc \in Int
  /\ at \in [Session -> Place]
  /\ file \in [Session -> Fileid \cup {0}]
  /\ size \in [Session -> Nat]
  /\ diff \in [Session -> Int]
  /\ overtaken \in BOOLEAN

\* A new file reserves its whole size; another at most that, as the row it read had
\* a size; a deletion gives back what it read.
InStep(s) ==
  /\ at[s] \in {"check", "next", "reserve", "reserveNew"} => diff[s] <= Max(Size)
  /\ at[s] \in {"next", "reserveNew", "insert"} \/ (at[s] = "check" /\ file[s] = 0)
       => diff[s] = size[s]
  /\ at[s] \in {"reserve", "write"} \/ (at[s] = "check" /\ file[s] # 0)
       => diff[s] <= size[s]
  /\ at[s] \in {"delete", "release"} => diff[s] = size[s]
  /\ at[s] \in {"reserve", "reserveNew", "insert", "write", "delete", "release"}
       => file[s] \in Fileid

AllInStep == \A s \in Session : InStep(s)

IInv == TypeOK /\ AllInStep /\ AccountExact /\ OvershootBounded

Rows == SumFunctionOnSet(directory, Files)

\* A step of session s leaves the others' variables alone.
Mine(s) ==
  \A u \in Session \ {s} :
    at'[u] = at[u] /\ file'[u] = file[u] /\ size'[u] = size[u] /\ diff'[u] = diff[u]

-----------------------------------------------------------------------------
(* Sums over files and over sessions. *)

LEMMA Sizes ==
  Max(Size) \in Nat /\ \A n \in Size : n \in Nat /\ n <= Max(Size)
<1>1. IsFiniteSet(Size) /\ Size \subseteq Int /\ Size # {} /\ Size \subseteq Nat
  BY SessionsAssumption
<1> QED BY <1>1, MaxProperties

LEMMA FiniteFiles ==
  ASSUME NEW S \in SUBSET Fileid
  PROVE  IsFiniteSet(S)
<1>1. IsFiniteSet(Fileid)
  BY SessionsAssumption, FS_Interval DEF Fileid
<1> QED BY <1>1, FS_Subset

\* A statement that writes one row changes the sum by what it writes.
LEMMA RowsChange ==
  ASSUME TypeOK, NEW f \in Fileid, NEW v \in Nat \cup {NoRow},
         directory' = [directory EXCEPT ![f] = v]
  PROVE  /\ Rows \in Int
         /\ Rows' = Rows + (IF v = NoRow THEN 0 ELSE v)
                         - (IF directory[f] = NoRow THEN 0 ELSE directory[f])
<1> DEFINE R == Files \ {f}
<1>1. /\ Files \in SUBSET Fileid /\ IsFiniteSet(Files)
      /\ R \in SUBSET Fileid /\ IsFiniteSet(R)
  BY FiniteFiles DEF Files
<1>2. directory'[f] = v /\ \A g \in Fileid \ {f} : directory'[g] = directory[g]
  BY DEF TypeOK
<1>3. \A g \in Files : directory[g] \in Int
  BY DEF TypeOK, Files
<1>4. SumFunctionOnSet(directory, R) \in Int
  BY <1>1, <1>3, SumType
<1>5. SumFunctionOnSet(directory', R) = SumFunctionOnSet(directory, R)
  <2>1. \A g \in R : directory'[g] = directory[g]
    BY <1>1, <1>2
  <2>2. IsFiniteSet(R)
    BY <1>1
  <2> HIDE DEF R
  <2> QED BY ONLY <2>1, <2>2, SumSame
<1>6. /\ Rows \in Int
      /\ Rows = SumFunctionOnSet(directory, R)
                  + (IF directory[f] = NoRow THEN 0 ELSE directory[f])
  <2>1. CASE f \in Files
    <3>1. directory[f] # NoRow /\ directory[f] \in Int
      BY <2>1, <1>3 DEF Files
    <3>2. Rows = directory[f] + SumFunctionOnSet(directory, R)
      BY <2>1, <1>1, <1>3, SumRemove DEF Rows
    <3> QED BY <3>1, <3>2, <1>4
  <2>2. CASE f \notin Files
    <3>1. directory[f] = NoRow
      BY <2>2 DEF Files
    <3>2. Rows = SumFunctionOnSet(directory, R)
      <4>1. R = Files
        BY <2>2
      <4> QED BY <4>1 DEF Rows
    <3> QED BY <3>1, <3>2, <1>4
  <2> QED BY <2>1, <2>2
<1>7. Rows' = SumFunctionOnSet(directory, R) + (IF v = NoRow THEN 0 ELSE v)
  <2>1. CASE v = NoRow
    <3>1. Files' = R
      BY <2>1, <1>2 DEF Files
    <3>2. Rows' = SumFunctionOnSet(directory', R)
      BY <3>1 DEF Rows
    <3> QED BY <2>1, <3>2, <1>4, <1>5
  <2>2. CASE v # NoRow
    <3>1. Files' = R \cup {f}
      BY <2>2, <1>2 DEF Files
    <3>2. \A g \in R : directory'[g] \in Int
      BY <1>2, <1>3 DEF Files
    <3>3. SumFunctionOnSet(directory', R \cup {f})
            = SumFunctionOnSet(directory', R) + directory'[f]
      <4>1. f \notin R /\ directory'[f] \in Int
        BY <1>2, <2>2
      <4> HIDE DEF R
      <4> QED BY <1>1, <3>2, <4>1, SumAdd
    <3>4. Rows' = SumFunctionOnSet(directory', R) + v
      BY <1>2, <3>1, <3>3 DEF Rows
    <3> QED BY <2>2, <3>4, <1>5
  <2> QED BY <2>1, <2>2
<1> QED
  <2> DEFINE q == SumFunctionOnSet(directory, R)
             w == IF v = NoRow THEN 0 ELSE v
             o == IF directory[f] = NoRow THEN 0 ELSE directory[f]
  <2>1. q \in Int /\ w \in Int /\ o \in Int
    <3>1. w \in Int
      BY DEF NoRow
    <3>2. o \in Int
      BY DEF TypeOK, NoRow
    <3> QED BY <1>4, <3>1, <3>2
  <2>2. Rows = q + o /\ Rows' = q + w
    BY <1>6, <1>7
  <2> HIDE DEF q, w, o
  <2>3. Rows \in Int /\ Rows' = Rows + w - o
    BY <2>1, <2>2
  <2> QED BY <2>3 DEF w, o

LEMMA RowsSame ==
  ASSUME TypeOK, UNCHANGED directory
  PROVE  Rows \in Int /\ Rows' = Rows + 0
<1>1. \A g \in Files : directory[g] \in Int
  BY DEF TypeOK, Files
<1>2. IsFiniteSet(Files)
  BY FiniteFiles DEF Files
<1>3. Rows \in Int
  BY <1>1, <1>2, SumType DEF Rows
<1>4. Rows' = Rows
  BY DEF Rows, Files
<1> QED BY <1>3, <1>4

LEMMA Parts ==
  ASSUME TypeOK
  PROVE  /\ IsFiniteSet(Session)
         /\ \A u \in Session : Ahead[u] \in Int /\ Promised[u] \in Int
                               /\ 0 <= Promised[u]
         /\ SumFunctionOnSet(Ahead, Session) \in Int
         /\ SumFunctionOnSet(Promised, Session) \in Int
<1>1. IsFiniteSet(Session)
  BY SessionsAssumption
<1>2. \A u \in Session : Ahead[u] \in Int /\ Promised[u] \in Int /\ 0 <= Promised[u]
  BY DEF TypeOK, Ahead, Promised
<1> QED BY <1>1, <1>2, SumType

-----------------------------------------------------------------------------
(* What a step of one session has to show. *)

LEMMA AccountStep ==
  ASSUME IInv, TypeOK', NEW s \in Session, Mine(s), NEW d \in Int,
         ~overtaken' => /\ ~overtaken
                        /\ Rows \in Int /\ Rows' = Rows + d
                        /\ ldAlloc' = ldAlloc + d + Ahead'[s] - Ahead[s]
  PROVE  AccountExact'
<1> SUFFICES ASSUME ~overtaken' PROVE (ldAlloc = Rows + SumFunctionOnSet(Ahead, Session))'
  BY DEF AccountExact, Rows
<1>1. ldAlloc = Rows + SumFunctionOnSet(Ahead, Session)
  BY DEF IInv, AccountExact, Rows
<1>2. \A u \in Session \ {s} : Ahead[u] = Ahead'[u]
  BY DEF Mine, Ahead
<1>3. /\ IsFiniteSet(Session) /\ \A u \in Session : Ahead[u] \in Int /\ Ahead'[u] \in Int
      /\ SumFunctionOnSet(Ahead, Session) \in Int
  <2>1. \A u \in Session : Ahead'[u] \in Int
    BY DEF TypeOK, Ahead
  <2> QED BY <2>1, Parts DEF IInv
<1>4. SumFunctionOnSet(Ahead', Session)
        = SumFunctionOnSet(Ahead, Session) + Ahead'[s] - Ahead[s]
  BY <1>2, <1>3, SumUpdate
<1> DEFINE a == SumFunctionOnSet(Ahead, Session)
           b == SumFunctionOnSet(Ahead', Session)
           x == Ahead[s]
           y == Ahead'[s]
<1>5. a \in Int /\ x \in Int /\ y \in Int /\ b = a + y - x /\ ldAlloc = Rows + a
      /\ ldAlloc' = ldAlloc + d + y - x /\ Rows \in Int /\ Rows' = Rows + d
  BY <1>1, <1>3, <1>4
<1> HIDE DEF a, b, x, y
<1>6. ldAlloc' = Rows' + b
  BY <1>5
<1> QED BY <1>6 DEF b

LEMMA Exchange ==
  ASSUME NEW l \in Int, NEW k \in Int, NEW a \in Int, NEW b \in Int, NEW x \in Int,
         NEW y \in Int, NEW m \in Int,
         k + y <= l + x, l + a < m, b = a + y - x
  PROVE  k + b < m
OBVIOUS

LEMMA OvershootStep ==
  ASSUME IInv, TypeOK', NEW s \in Session, Mine(s),
         ldAlloc' + Promised'[s] <= ldAlloc + Promised[s]
  PROVE  OvershootBounded'
<1>1. \A u \in Session \ {s} : Promised[u] = Promised'[u]
  BY DEF Mine, Promised
<1>2. /\ IsFiniteSet(Session)
      /\ \A u \in Session : Promised[u] \in Int /\ Promised'[u] \in Int
      /\ SumFunctionOnSet(Promised, Session) \in Int
  <2>1. \A u \in Session : Promised'[u] \in Int
    BY DEF TypeOK, Promised
  <2> QED BY <2>1, Parts DEF IInv
<1>3. SumFunctionOnSet(Promised', Session)
        = SumFunctionOnSet(Promised, Session) + Promised'[s] - Promised[s]
  BY <1>1, <1>2, SumUpdate
<1> DEFINE a == SumFunctionOnSet(Promised, Session)
           b == SumFunctionOnSet(Promised', Session)
           x == Promised[s]
           y == Promised'[s]
           m == LdSize + (Cardinality(Session) - 1) * Max(Size)
<1>4. /\ a \in Int /\ x \in Int /\ y \in Int /\ b = a + y - x
      /\ ldAlloc' + y <= ldAlloc + x /\ ldAlloc + a < m
      /\ ldAlloc \in Int /\ ldAlloc' \in Int
  BY <1>2, <1>3 DEF IInv, OvershootBounded, TypeOK
<1>5. b \in Int
  BY <1>4
<1>6. m \in Int
  BY <1>2, Sizes, FS_CardinalityType, SessionsAssumption
<1> HIDE DEF a, b, x, y, m
<1>7. ldAlloc' + b < m
  BY <1>4, <1>5, <1>6, Exchange
<1> QED BY <1>7 DEF b, m, OvershootBounded

LEMMA InStepOthers ==
  ASSUME IInv, NEW s \in Session, Mine(s), InStep(s)'
  PROVE  AllInStep'
<1> SUFFICES ASSUME NEW u \in Session \ {s} PROVE InStep(u)'
  BY DEF AllInStep
<1>1. InStep(u)
  BY DEF IInv, AllInStep
<1>2. at'[u] = at[u] /\ file'[u] = file[u] /\ size'[u] = size[u] /\ diff'[u] = diff[u]
  BY DEF Mine
<1> QED BY <1>1, <1>2 DEF InStep, Fileid

LEMMA Step ==
  ASSUME IInv, TypeOK', NEW s \in Session, Mine(s), InStep(s)', NEW d \in Int,
         ~overtaken' => /\ ~overtaken
                        /\ Rows \in Int /\ Rows' = Rows + d
                        /\ ldAlloc' = ldAlloc + d + Ahead'[s] - Ahead[s],
         ldAlloc' + Promised'[s] <= ldAlloc + Promised[s]
  PROVE  IInv'
BY AccountStep, OvershootStep, InStepOthers DEF IInv

-----------------------------------------------------------------------------
(* Each statement preserves the invariant. *)

LEMMA InitInv == Init => IInv
<1> SUFFICES ASSUME Init PROVE IInv
  OBVIOUS
<1>1. TypeOK
  <2>1. \A f \in Fileid : directory[f] \in Nat \cup {NoRow}
    BY DEF Init
  <2>2. directory \in [Fileid -> Nat \cup {NoRow}]
    BY <2>1 DEF Init
  <2>3. at \in [Session -> Place] /\ file \in [Session -> Fileid \cup {0}]
    BY DEF Init, Place
  <2>4. size \in [Session -> Nat] /\ diff \in [Session -> Int] /\ ldAlloc \in Int
    BY DEF Init
  <2>5. overtaken \in BOOLEAN
    BY DEF Init
  <2> QED BY <2>2, <2>3, <2>4, <2>5 DEF TypeOK
<1>2. AllInStep
  BY DEF Init, AllInStep, InStep
<1>3. IsFiniteSet(Session) /\ Session # {} /\ Cardinality(Session) \in Nat \ {0}
  BY SessionsAssumption, FS_CardinalityType, FS_EmptySet
<1> DEFINE zero == [s \in Session |-> 0]
<1>5. zero = Ahead /\ zero = Promised
  BY DEF Init, Ahead, Promised
<1>6. SumFunctionOnSet(zero, Session) = 0
  BY <1>3, SumZero
<1>7. SumFunctionOnSet(directory, Files) = 0
  <2>1. Files = {}
    BY DEF Init, Files
  <2> QED BY <2>1, SumEmpty
<1>8. AccountExact
  BY <1>5, <1>6, <1>7 DEF Init, AccountExact
<1>9. OvershootBounded
  <2> DEFINE n == Cardinality(Session) - 1
             m == Max(Size)
  <2>1. n \in Nat /\ m \in Nat /\ LdSize \in Nat \ {0}
    BY <1>3, Sizes, SessionsAssumption
  <2> HIDE DEF n, m
  <2>2. n * m \in Nat
    BY <2>1
  <2>3. 0 < LdSize + n * m
    BY <2>1, <2>2
  <2> QED BY <1>5, <1>6, <2>3 DEF Init, OvershootBounded, n, m
<1> QED BY <1>1, <1>2, <1>8, <1>9 DEF IInv

LEMMA CreateFileInv ==
  ASSUME IInv, NEW s \in Session, NEW n \in Size, CreateFile(s, n)
  PROVE  IInv'
<1>1. n \in Nat /\ n <= Max(Size)
  BY Sizes
<1>2. TypeOK' /\ Mine(s) /\ at[s] = "idle" /\ at'[s] = "check"
      /\ UNCHANGED <<directory, ldAlloc, overtaken>>
  BY <1>1 DEF IInv, TypeOK, Mine, Place, CreateFile, Request, Go
<1>3. InStep(s)'
  BY <1>1 DEF IInv, TypeOK, InStep, CreateFile, Go
<1>4. /\ Ahead[s] = 0 /\ Ahead'[s] = 0 /\ Promised[s] = 0 /\ Promised'[s] = 0
      /\ ldAlloc \in Int /\ Rows \in Int /\ Rows' = Rows + 0
  BY <1>2, RowsSame DEF IInv, TypeOK, Ahead, Promised
<1>5. ldAlloc' = ldAlloc + 0 + Ahead'[s] - Ahead[s]
  BY <1>2, <1>4
<1>6. ldAlloc' + Promised'[s] <= ldAlloc + Promised[s]
  BY <1>2, <1>4
<1>7. ~overtaken' => ~overtaken
  BY <1>2
<1> QED BY <1>2, <1>3, <1>4, <1>5, <1>6, <1>7, Step

LEMMA UpdateFileInv ==
  ASSUME IInv, NEW s \in Session, NEW f \in Fileid, NEW n \in Size, UpdateFile(s, f, n)
  PROVE  IInv'
<1>1. n \in Nat /\ n <= Max(Size)
  BY Sizes
<1>2. directory[f] \in Nat
  BY DEF IInv, TypeOK, UpdateFile, Files
<1>3. f # 0 /\ Max(Size) \in Nat
  BY Sizes DEF Fileid
<1>4. TypeOK' /\ Mine(s) /\ at[s] = "idle" /\ at'[s] = "check"
      /\ file'[s] = f /\ size'[s] = n /\ diff'[s] = n - directory[f]
      /\ UNCHANGED <<directory, ldAlloc, overtaken>>
  BY <1>1, <1>2 DEF IInv, TypeOK, Mine, Place, UpdateFile, Request, Go
<1>5. InStep(s)'
  BY <1>1, <1>2, <1>3, <1>4 DEF InStep
<1>6. /\ Ahead[s] = 0 /\ Ahead'[s] = 0 /\ Promised[s] = 0 /\ Promised'[s] = 0
      /\ ldAlloc \in Int /\ Rows \in Int /\ Rows' = Rows + 0
  BY <1>4, RowsSame DEF IInv, TypeOK, Ahead, Promised
<1> QED BY <1>4, <1>5, <1>6, Step

LEMMA DelFileInv ==
  ASSUME IInv, NEW s \in Session, NEW f \in Fileid, DelFile(s, f)
  PROVE  IInv'
<1>1. directory[f] \in Nat
  BY DEF IInv, TypeOK, DelFile, Files
<1>2. TypeOK' /\ Mine(s) /\ at[s] = "idle" /\ at'[s] = "delete"
      /\ file'[s] = f /\ size'[s] = directory[f] /\ diff'[s] = directory[f]
      /\ UNCHANGED <<directory, ldAlloc, overtaken>>
  BY <1>1 DEF IInv, TypeOK, Mine, Place, DelFile, Request, Go
<1>3. InStep(s)'
  BY <1>2 DEF InStep, Fileid
<1>4. /\ Ahead[s] = 0 /\ Ahead'[s] = 0 /\ Promised[s] = 0 /\ Promised'[s] = 0
      /\ ldAlloc \in Int /\ Rows \in Int /\ Rows' = Rows + 0
  BY <1>2, RowsSame DEF IInv, TypeOK, Ahead, Promised
<1> QED BY <1>2, <1>3, <1>4, Step

\* Of the sum, the sessions but s hold at most what OvershootBounded allows; what s
\* is to reserve fits beside alloc_size.
LEMMA CheckOvershoot ==
  ASSUME IInv, TypeOK', NEW s \in Session, Mine(s), at[s] = "check", ~Exceeds(diff[s]),
         at'[s] \in {"next", "reserve"}, diff'[s] = diff[s], UNCHANGED ldAlloc
  PROVE  OvershootBounded'
<1> DEFINE S == Session \ {s}
           c == Cardinality(Session) - 1
           m == Max(Size)
           a == SumFunctionOnSet(Promised', S)
           b == SumFunctionOnSet(Promised', Session)
           x == Promised'[s]
<1>1. IsFiniteSet(Session) /\ IsFiniteSet(S) /\ Cardinality(S) = c /\ c \in Nat
  BY SessionsAssumption, FS_RemoveElement, FS_CardinalityType
<1>2. m \in Nat /\ LdSize \in Nat
  BY Sizes, SessionsAssumption
<1>3. \A u \in Session : Promised'[u] \in Int
  BY DEF TypeOK, Promised
<1>4. \A u \in S : Promised'[u] <= m
  <2> SUFFICES ASSUME NEW u \in S PROVE Promised'[u] <= m
    OBVIOUS
  <2>1. InStep(u) /\ diff[u] \in Int
    BY DEF IInv, AllInStep, TypeOK
  <2>2. Promised'[u] = Promised[u]
    BY DEF Promised, Mine
  <2>3. Promised[u] <= m
    BY <1>2, <2>1 DEF Promised, InStep
  <2> QED BY <2>2, <2>3
<1>5. a <= c * m
  <2>1. \A u \in S : Promised'[u] \in Int /\ Promised'[u] <= m
    BY <1>3, <1>4
  <2> HIDE DEF S, m
  <2>2. a <= Cardinality(S) * m
    BY <1>1, <1>2, <2>1, SumBounded
  <2> QED BY <1>1, <2>2
<1>6. b = x + a /\ a \in Int /\ x \in Int
  <2>1. \A u \in S : Promised'[u] \in Int
    BY <1>3
  <2>2. b = x + a
    BY <1>1, <1>3, SumRemove
  <2> HIDE DEF S
  <2>3. a \in Int
    BY <1>1, <2>1, SumType
  <2> QED BY <1>3, <2>2, <2>3
<1>7. ldAlloc \in Int /\ diff[s] \in Int /\ LdSize - ldAlloc > diff[s]
  BY <1>2 DEF IInv, TypeOK, Exceeds
<1>8. CASE diff[s] > 0
  <2>1. x = diff[s]
    BY <1>8 DEF Promised
  <2> HIDE DEF a, b, c, m, x
  <2>2. c * m \in Int
    BY <1>1, <1>2
  <2>3. ldAlloc + b < LdSize + c * m
    BY <1>2, <1>5, <1>6, <1>7, <2>1, <2>2
  <2> QED BY <2>3 DEF OvershootBounded, b, c, m
<1>9. CASE ~(diff[s] > 0)
  <2>1. x = 0 /\ Promised[s] = 0
    BY <1>9 DEF Promised
  <2>2. ldAlloc' + Promised'[s] <= ldAlloc + Promised[s]
    BY <1>7, <2>1
  <2> QED BY <2>2, OvershootStep
<1> QED BY <1>8, <1>9

LEMMA CheckInv ==
  ASSUME IInv, NEW s \in Session, Check(s)
  PROVE  IInv'
<1>0. at[s] = "check" /\ InStep(s)
  BY DEF Check, IInv, AllInStep
<1>1. /\ TypeOK' /\ Mine(s)
      /\ UNCHANGED <<directory, ldAlloc, overtaken>>
      /\ \/ at'[s] = "idle" /\ diff'[s] = 0
         \/ /\ ~Exceeds(diff[s])
            /\ at'[s] = IF file[s] = 0 THEN "next" ELSE "reserve"
            /\ diff'[s] = diff[s] /\ size'[s] = size[s] /\ file'[s] = file[s]
  <2>1. CASE Exceeds(diff[s])
    BY <2>1 DEF IInv, TypeOK, Mine, Place, Check, Idle, Go
  <2>2. CASE ~Exceeds(diff[s])
    BY <2>2 DEF IInv, TypeOK, Mine, Place, Check, Go
  <2> QED BY <2>1, <2>2
<1>2. InStep(s)'
  <2>1. file[s] \in Fileid \cup {0} /\ Fileid' = Fileid
    BY DEF IInv, TypeOK, Fileid
  <2> QED BY <1>0, <1>1, <2>1 DEF InStep
<1>3. /\ Ahead[s] = 0 /\ Ahead'[s] = 0 /\ Promised[s] = 0
      /\ ldAlloc \in Int /\ Rows \in Int /\ Rows' = Rows + 0
  BY <1>0, <1>1, RowsSame DEF IInv, TypeOK, Ahead, Promised
<1>4. AccountExact'
  BY <1>1, <1>3, AccountStep
<1>5. OvershootBounded'
  <2>1. CASE at'[s] = "idle"
    <3>1. Promised'[s] = 0
      BY <2>1 DEF Promised
    <3> QED BY <1>1, <1>3, <3>1, OvershootStep
  <2>2. CASE at'[s] # "idle"
    BY <1>0, <1>1, <2>2, CheckOvershoot
  <2> QED BY <2>1, <2>2
<1>6. AllInStep'
  BY <1>1, <1>2, InStepOthers
<1> QED BY <1>1, <1>4, <1>5, <1>6 DEF IInv

LEMMA GetNextFileidInv ==
  ASSUME IInv, NEW s \in Session, GetNextFileid(s)
  PROVE  IInv'
<1> DEFINE g == Max(Files \cup {0}) + 1
<1>0. at[s] = "next" /\ InStep(s)
  BY DEF GetNextFileid, IInv, AllInStep
<1>1. g \in Fileid
  <2>1. IsFiniteSet(Files \cup {0}) /\ Files \cup {0} \subseteq Int /\ Files \cup {0} # {}
        /\ Files \cup {0} \subseteq Nat
    <3>1. Files \in SUBSET Fileid /\ Fileid \subseteq Nat
      BY DEF Files, Fileid
    <3>2. IsFiniteSet(Files)
      BY <3>1, FiniteFiles
    <3>3. IsFiniteSet(Files \cup {0})
      BY <3>2, FS_AddElement
    <3> QED BY <3>1, <3>3
  <2>2. Max(Files \cup {0}) \in Nat
    BY <2>1, MaxProperties
  <2>3. g <= MaxFile /\ MaxFile \in Nat
    BY SessionsAssumption DEF GetNextFileid
  <2> QED BY <2>2, <2>3 DEF Fileid
<1>2. /\ file' = [file EXCEPT ![s] = g] /\ at' = [at EXCEPT ![s] = "reserveNew"]
      /\ UNCHANGED <<directory, ldAlloc, size, diff, overtaken>>
  BY DEF GetNextFileid, Go
<1> HIDE DEF g
<1>3. TypeOK' /\ Mine(s) /\ at'[s] = "reserveNew" /\ file'[s] = g
  BY <1>1, <1>2 DEF IInv, TypeOK, Mine, Place, Fileid
<1>4. InStep(s)'
  BY <1>0, <1>1, <1>2, <1>3 DEF InStep, Fileid
<1>5. /\ Ahead[s] = 0 /\ Ahead'[s] = 0 /\ Promised'[s] = Promised[s]
      /\ ldAlloc \in Int /\ Rows \in Int /\ Rows' = Rows + 0 /\ Promised[s] \in Int
  BY <1>0, <1>2, <1>3, RowsSame, Parts DEF IInv, TypeOK, Ahead, Promised
<1> QED BY <1>2, <1>3, <1>4, <1>5, Step

LEMMA ReserveInv ==
  ASSUME IInv, NEW s \in Session, Reserve(s)
  PROVE  IInv'
<1>0. at[s] \in {"reserve", "reserveNew"} /\ InStep(s) /\ diff[s] \in Int /\ ldAlloc \in Int
  BY DEF Reserve, IInv, AllInStep, TypeOK
<1>1. /\ TypeOK' /\ Mine(s)
      /\ UNCHANGED <<directory, file, size, diff, overtaken>>
      /\ ldAlloc' = ldAlloc + diff[s]
      /\ at'[s] = IF at[s] = "reserve" THEN "write" ELSE "insert"
  BY <1>0 DEF IInv, TypeOK, Mine, Place, Reserve, Go
<1>2. InStep(s)'
  BY <1>0, <1>1 DEF InStep, Fileid
<1>3. /\ Ahead[s] = 0 /\ Ahead'[s] = diff[s] /\ Promised'[s] = 0
      /\ Promised[s] = (IF diff[s] > 0 THEN diff[s] ELSE 0)
      /\ Rows \in Int /\ Rows' = Rows + 0
  BY <1>0, <1>1, RowsSame DEF IInv, Ahead, Promised
<1>4. ldAlloc' = ldAlloc + 0 + Ahead'[s] - Ahead[s]
  BY <1>0, <1>1, <1>3
<1>5. ldAlloc' + Promised'[s] <= ldAlloc + Promised[s]
  BY <1>0, <1>1, <1>3
<1> QED BY <1>1, <1>2, <1>3, <1>4, <1>5, Step

\* A process that dies leaves alloc_size ahead of the rows, or changes nothing.
LEMMA DieInv ==
  ASSUME IInv, NEW s \in Session, Die(s)
  PROVE  IInv'
<1>1. /\ TypeOK' /\ Mine(s) /\ at'[s] = "dead"
      /\ UNCHANGED <<directory, ldAlloc>>
      /\ ~overtaken' => ~overtaken /\ Ahead[s] = 0
  BY DEF IInv, TypeOK, Mine, Place, Die, Go
<1>2. InStep(s)'
  BY <1>1 DEF InStep
<1>3. /\ Ahead'[s] = 0 /\ Promised'[s] = 0 /\ Promised[s] \in Int /\ 0 <= Promised[s]
      /\ ldAlloc \in Int /\ Rows \in Int /\ Rows' = Rows + 0
  BY <1>1, RowsSame, Parts DEF IInv, TypeOK, Ahead, Promised
<1>4. ~overtaken' => ldAlloc' = ldAlloc + 0 + Ahead'[s] - Ahead[s]
  BY <1>1, <1>3
<1>5. ldAlloc' + Promised'[s] <= ldAlloc + Promised[s]
  BY <1>1, <1>3
<1> QED BY <1>1, <1>2, <1>3, <1>4, <1>5, Step

LEMMA InsertInv ==
  ASSUME IInv, NEW s \in Session, Insert(s)
  PROVE  IInv'
<1>1. CASE file[s] \in Files
  BY <1>1, DieInv DEF Insert
<1>2. CASE file[s] \notin Files
  <2>0. /\ at[s] = "insert" /\ InStep(s) /\ diff[s] \in Int /\ ldAlloc \in Int
        /\ size[s] \in Nat /\ file[s] \in Fileid /\ diff[s] = size[s]
    BY DEF Insert, IInv, AllInStep, TypeOK, InStep
  <2>1. /\ directory' = [directory EXCEPT ![file[s]] = size[s]]
        /\ TypeOK' /\ Mine(s) /\ at'[s] = "idle"
        /\ UNCHANGED <<ldAlloc, overtaken>>
    BY <1>2, <2>0 DEF IInv, TypeOK, Mine, Place, Insert, Idle, Go
  <2>2. InStep(s)'
    BY <2>1 DEF InStep
  <2>3. directory[file[s]] = NoRow /\ size[s] # NoRow /\ size[s] \in Nat \cup {NoRow}
    BY <1>2, <2>0 DEF Files, NoRow
  <2>4. Rows \in Int /\ Rows' = Rows + size[s]
    <3>1. /\ Rows \in Int
          /\ Rows' = Rows + (IF size[s] = NoRow THEN 0 ELSE size[s])
                    - (IF directory[file[s]] = NoRow THEN 0 ELSE directory[file[s]])
      BY <2>0, <2>1, <2>3, RowsChange DEF IInv
    <3> QED BY <2>0, <2>3, <3>1
  <2>5. Ahead[s] = size[s] /\ Ahead'[s] = 0 /\ Promised[s] = 0 /\ Promised'[s] = 0
    BY <2>0, <2>1 DEF Ahead, Promised
  <2>6. ldAlloc' = ldAlloc + size[s] + Ahead'[s] - Ahead[s]
    BY <2>0, <2>1, <2>5
  <2>7. ldAlloc' + Promised'[s] <= ldAlloc + Promised[s]
    BY <2>0, <2>1, <2>5
  <2> QED BY <2>0, <2>1, <2>2, <2>4, <2>6, <2>7, Step
<1> QED BY <1>1, <1>2

LEMMA WriteInv ==
  ASSUME IInv, NEW s \in Session, Write(s)
  PROVE  IInv'
<1> DEFINE f == file[s]
<1>0. /\ at[s] = "write" /\ InStep(s) /\ diff[s] \in Int /\ ldAlloc \in Int
      /\ size[s] \in Nat /\ f \in Fileid /\ diff[s] <= size[s]
      /\ directory[f] \in Nat \cup {NoRow}
  BY DEF Write, IInv, AllInStep, TypeOK, InStep
<1>1. /\ directory' = IF f \in Files THEN [directory EXCEPT ![f] = size[s]] ELSE directory
      /\ Mine(s) /\ at'[s] = "idle"
      /\ overtaken' = (overtaken \/ directory[f] # size[s] - diff[s])
      /\ UNCHANGED ldAlloc
      /\ at' \in [Session -> Place] /\ file' \in [Session -> Fileid \cup {0}]
      /\ size' \in [Session -> Nat] /\ diff' \in [Session -> Int]
  BY DEF IInv, TypeOK, Mine, Place, Write, Idle, Go
<1>2. TypeOK'
  <2>1. directory' \in [Fileid -> Nat \cup {NoRow}]
    BY <1>0, <1>1 DEF IInv, TypeOK
  <2> QED BY <1>1, <2>1 DEF IInv, TypeOK, Fileid, NoRow
<1>3. InStep(s)'
  BY <1>1 DEF InStep
<1>4. Ahead[s] = diff[s] /\ Ahead'[s] = 0 /\ Promised[s] = 0 /\ Promised'[s] = 0
  BY <1>0, <1>1 DEF Ahead, Promised
<1>5. ~overtaken' => ~overtaken /\ Rows \in Int /\ Rows' = Rows + diff[s]
  <2> SUFFICES ASSUME ~overtaken' PROVE ~overtaken /\ Rows \in Int /\ Rows' = Rows + diff[s]
    OBVIOUS
  <2>1. ~overtaken /\ directory[f] = size[s] - diff[s]
    BY <1>1 DEF IInv, TypeOK
  <2>2. directory[f] # NoRow /\ f \in Files
    BY <1>0, <2>1 DEF NoRow, Files
  <2>3. size[s] # NoRow /\ size[s] \in Nat \cup {NoRow}
    BY <1>0 DEF NoRow
  <2>4. /\ Rows \in Int
        /\ Rows' = Rows + (IF size[s] = NoRow THEN 0 ELSE size[s])
                  - (IF directory[f] = NoRow THEN 0 ELSE directory[f])
    BY <1>0, <1>1, <2>2, <2>3, RowsChange DEF IInv
  <2>5. Rows' = Rows + size[s] - (size[s] - diff[s])
    BY <2>1, <2>2, <2>3, <2>4
  <2> QED BY <1>0, <2>1, <2>4, <2>5
<1>6. ldAlloc' = ldAlloc + diff[s] + Ahead'[s] - Ahead[s]
  BY <1>0, <1>1, <1>4
<1>7. ldAlloc' + Promised'[s] <= ldAlloc + Promised[s]
  BY <1>0, <1>1, <1>4
<1> QED BY <1>0, <1>1, <1>2, <1>3, <1>5, <1>6, <1>7, Step

LEMMA DeleteRowInv ==
  ASSUME IInv, NEW s \in Session, DeleteRow(s)
  PROVE  IInv'
<1> DEFINE f == file[s]
<1>0. /\ at[s] = "delete" /\ InStep(s) /\ diff[s] \in Int /\ ldAlloc \in Int
      /\ size[s] \in Nat /\ f \in Fileid /\ diff[s] = size[s]
  BY DEF DeleteRow, IInv, AllInStep, TypeOK, InStep
<1>1. /\ directory' = [directory EXCEPT ![f] = NoRow]
      /\ TypeOK' /\ Mine(s) /\ at'[s] = "release"
      /\ overtaken' = (overtaken \/ directory[f] # size[s])
      /\ UNCHANGED <<ldAlloc, file, size, diff>>
  BY DEF IInv, TypeOK, Mine, Place, DeleteRow, Go
<1>2. InStep(s)'
  BY <1>0, <1>1 DEF InStep, Fileid
<1>3. Ahead[s] = 0 /\ Ahead'[s] = size[s] /\ Promised[s] = 0 /\ Promised'[s] = 0
  BY <1>0, <1>1 DEF Ahead, Promised
<1>4. ~overtaken' => ~overtaken /\ Rows \in Int /\ Rows' = Rows + (-size[s])
  <2> SUFFICES ASSUME ~overtaken' PROVE ~overtaken /\ Rows \in Int /\ Rows' = Rows + (-size[s])
    OBVIOUS
  <2>1. ~overtaken /\ directory[f] = size[s]
    BY <1>1, Zenon
  <2>2. size[s] # NoRow
    BY <1>0 DEF NoRow
  <2>3. /\ Rows \in Int
        /\ Rows' = Rows + (IF NoRow = NoRow THEN 0 ELSE NoRow)
                  - (IF directory[f] = NoRow THEN 0 ELSE directory[f])
    BY <1>0, <1>1, RowsChange DEF IInv
  <2> QED BY <1>0, <2>1, <2>2, <2>3
<1>5. ldAlloc' = ldAlloc + (-size[s]) + Ahead'[s] - Ahead[s] /\ -size[s] \in Int
  BY <1>0, <1>1, <1>3
<1>6. ldAlloc' + Promised'[s] <= ldAlloc + Promised[s]
  BY <1>0, <1>1, <1>3
<1> QED BY <1>1, <1>2, <1>4, <1>5, <1>6, Step

LEMMA ReleaseInv ==
  ASSUME IInv, NEW s \in Session, Release(s)
  PROVE  IInv'
<1>0. /\ at[s] = "release" /\ InStep(s) /\ diff[s] \in Int /\ ldAlloc \in Int
      /\ size[s] \in Nat /\ diff[s] = size[s]
  BY DEF Release, IInv, AllInStep, TypeOK, InStep
<1>1. /\ TypeOK' /\ Mine(s) /\ at'[s] = "idle"
      /\ ldAlloc' = ldAlloc - diff[s]
      /\ UNCHANGED <<directory, overtaken>>
  BY <1>0 DEF IInv, TypeOK, Mine, Place, Release, Idle, Go
<1>2. InStep(s)'
  BY <1>1 DEF InStep
<1>3. /\ Ahead[s] = diff[s] /\ Ahead'[s] = 0 /\ Promised[s] = 0 /\ Promised'[s] = 0
      /\ Rows \in Int /\ Rows' = Rows + 0
  BY <1>0, <1>1, RowsSame DEF IInv, Ahead, Promised
<1>4. ldAlloc' = ldAlloc + 0 + Ahead'[s] - Ahead[s]
  BY <1>0, <1>1, <1>3
<1>5. ldAlloc' + Promised'[s] <= ldAlloc + Promised[s]
  BY <1>0, <1>1, <1>3
<1> QED BY <1>1, <1>2, <1>3, <1>4, <1>5, Step

LEMMA StutterInv ==
  ASSUME IInv, UNCHANGED vars
  PROVE  IInv'
BY DEF IInv, TypeOK, AllInStep, InStep, AccountExact, OvershootBounded, Files, Fileid,
       Ahead, Promised, NoRow, vars, locals

LEMMA NextInv ==
  ASSUME IInv, [Next]_vars
  PROVE  IInv'
<1>1. CASE UNCHANGED vars
  BY <1>1, StutterInv
<1>2. CASE Next
  <2>1. PICK s \in Session :
          \/ \E n \in Size : CreateFile(s, n)
          \/ \E f \in Fileid, n \in Size : UpdateFile(s, f, n)
          \/ \E f \in Fileid : DelFile(s, f)
          \/ Check(s) \/ GetNextFileid(s) \/ Reserve(s) \/ Insert(s) \/ Write(s)
          \/ DeleteRow(s) \/ Release(s)
          \/ Killed(s)
    BY <1>2 DEF Next
  <2> QED BY <2>1, CreateFileInv, UpdateFileInv, DelFileInv, CheckInv, GetNextFileidInv,
             ReserveInv, InsertInv, WriteInv, DeleteRowInv, ReleaseInv, DieInv DEF Killed
<1> QED BY <1>1, <1>2

-----------------------------------------------------------------------------

\* The invariant of Sessions: the steps of readCreateFile and readDelFile keep the
\* handlers' variables, the account and the promises together.
THEOREM Invariance == Spec => []IInv
BY InitInv, NextInv, PTL DEF Spec

\* alloc_size is what the rows and the handlers under way sum up to until a row is
\* overtaken or a process dies (readCreateFile and readDelFile of Client.cpp).
THEOREM AccountIsExact == Spec => []AccountExact
<1>1. IInv => AccountExact
  BY DEF IInv
<1> QED BY <1>1, Invariance, PTL

\* Test and reservation are two statements: the logical drive's limit is exceeded by
\* less than the largest file for each other session (readCreateFile of Client.cpp).
THEOREM OvershootIsBounded == Spec => []OvershootBounded
<1>1. IInv => OvershootBounded
  BY DEF IInv
<1> QED BY <1>1, Invariance, PTL

=============================================================================
