------------------------------- MODULE Sessions -------------------------------
(***************************************************************************)
(* Several sessions of one account on one logical drive: readCreateFile    *)
(* (0x20) and readDelFile (0x28) of server/Client.cpp, statement by        *)
(* statement.                                                              *)
(*                                                                         *)
(* Each connection is a process with its own database connection.  No      *)
(* transaction and no lock spans two statements; a process that dies, by   *)
(* an uncaught exception of the database library or by a signal, leaves    *)
(* its handler where it is.  MySQL is external: a statement is atomic, and *)
(* (ldid, fileid) is the key of `directory`.  Catalog has the handlers of  *)
(* a single session, with the chunks.                                      *)
(***************************************************************************)
EXTENDS Integers, FiniteSets, FiniteSetsExt

CONSTANTS
  Session,
  Size,        \* file sizes: below 2^63, so that the conversion of a difference
               \* to long long is exact (line 481)
  LdSize,      \* logicaldriveinfo.size
  MaxFile,     \* bound on file ids
  MaxRequests  \* bound: requests of each session

ASSUME SessionsAssumption ==
  /\ IsFiniteSet(Session) /\ Session # {}
  /\ IsFiniteSet(Size) /\ Size # {} /\ Size \subseteq Nat
  /\ LdSize \in Nat \ {0} /\ MaxFile \in Nat /\ MaxRequests \in Nat

VARIABLES
  directory,  \* fileid -> the size in its row, or NoRow
  ldAlloc,    \* logicaldriveinfo.alloc_size
  at,         \* the statement each session executes next
  file,       \* the file it is about
  size,       \* the size the client has sent, or that the row had
  diff,       \* what is to be added to alloc_size
  requests,   \* number of requests it has started
  overtaken   \* history: a row had changed since it was read, or a process died

locals == <<at, file, size, diff, requests>>
vars == <<directory, ldAlloc, locals, overtaken>>

Fileid == 1..MaxFile
NoRow == -1
Files == {f \in Fileid : directory[f] # NoRow}

Init ==
  /\ directory = [f \in Fileid |-> NoRow]
  /\ ldAlloc = 0
  /\ at = [s \in Session |-> "idle"]
  /\ file = [s \in Session |-> 0]
  /\ size = [s \in Session |-> 0]
  /\ diff = [s \in Session |-> 0]
  /\ requests = [s \in Session |-> 0]
  /\ overtaken = FALSE

Go(s, p) == at' = [at EXCEPT ![s] = p]

Idle(s) ==
  /\ Go(s, "idle")
  /\ file' = [file EXCEPT ![s] = 0]
  /\ size' = [size EXCEPT ![s] = 0]
  /\ diff' = [diff EXCEPT ![s] = 0]

Request(s) ==
  /\ at[s] = "idle" /\ requests[s] < MaxRequests
  /\ requests' = [requests EXCEPT ![s] = @ + 1]
  /\ UNCHANGED <<directory, ldAlloc, overtaken>>

\* What alloc_size is ahead of the rows while a handler is under way.
Ahead == [s \in Session |-> IF at[s] \in {"insert", "write", "release"} THEN diff[s] ELSE 0]

\* An exception that nobody catches, or a signal.
Die(s) ==
  /\ Go(s, "dead")
  /\ overtaken' = (overtaken \/ Ahead[s] # 0)
  /\ UNCHANGED <<directory, ldAlloc, file, size, diff, requests>>

-----------------------------------------------------------------------------
(* readCreateFile *)

CreateFile(s, n) ==
  /\ Request(s)
  /\ Go(s, "check")
  /\ file' = [file EXCEPT ![s] = 0]
  /\ size' = [size EXCEPT ![s] = n]
  /\ diff' = [diff EXCEPT ![s] = n]

\* get_file: a row that is not there makes getUInt64 throw.
UpdateFile(s, f, n) ==
  /\ f \in Files
  /\ Request(s)
  /\ Go(s, "check")
  /\ file' = [file EXCEPT ![s] = f]
  /\ size' = [size EXCEPT ![s] = n]
  /\ diff' = [diff EXCEPT ![s] = n - directory[f]]

\* Mutant: an exact fit is accepted.
ExceedsNot(n) == LdSize - ldAlloc < n

Exceeds(n) == LdSize - ldAlloc <= n

Check(s) ==
  /\ at[s] = "check"
  /\ IF Exceeds(diff[s]) THEN Idle(s)
     ELSE Go(s, IF file[s] = 0 THEN "next" ELSE "reserve")
          /\ UNCHANGED <<file, size, diff>>
  /\ UNCHANGED <<directory, ldAlloc, requests, overtaken>>

GetNextFileid(s) ==
  LET next == Max(Files \cup {0}) + 1 IN
  /\ at[s] = "next" /\ next <= MaxFile
  /\ file' = [file EXCEPT ![s] = next]
  /\ Go(s, "reserveNew")
  /\ UNCHANGED <<directory, ldAlloc, size, diff, requests, overtaken>>

Reserve(s) ==
  /\ at[s] \in {"reserve", "reserveNew"}
  /\ ldAlloc' = ldAlloc + diff[s]
  /\ Go(s, IF at[s] = "reserve" THEN "write" ELSE "insert")
  /\ UNCHANGED <<directory, file, size, diff, requests, overtaken>>

Insert(s) ==
  /\ at[s] = "insert"
  /\ IF file[s] \in Files THEN Die(s)
     ELSE /\ directory' = [directory EXCEPT ![file[s]] = size[s]]
          /\ Idle(s)
          /\ UNCHANGED <<ldAlloc, requests, overtaken>>

\* UPDATE changes nothing if the row has gone.
Write(s) ==
  LET f == file[s] IN
  /\ at[s] = "write"
  /\ directory' = IF f \in Files THEN [directory EXCEPT ![f] = size[s]] ELSE directory
  /\ overtaken' = (overtaken \/ directory[f] # size[s] - diff[s])
  /\ Idle(s)
  /\ UNCHANGED <<ldAlloc, requests>>

-----------------------------------------------------------------------------
(* readDelFile; for the files below, it calls itself once for each. *)

DelFile(s, f) ==
  /\ f \in Files
  /\ Request(s)
  /\ Go(s, "delete")
  /\ file' = [file EXCEPT ![s] = f]
  /\ size' = [size EXCEPT ![s] = directory[f]]
  /\ diff' = [diff EXCEPT ![s] = directory[f]]

DeleteRow(s) ==
  LET f == file[s] IN
  /\ at[s] = "delete"
  /\ directory' = [directory EXCEPT ![f] = NoRow]
  /\ overtaken' = (overtaken \/ directory[f] # size[s])
  /\ Go(s, "release")
  /\ UNCHANGED <<ldAlloc, file, size, diff, requests>>

\* Mutant: nothing is given back.
ReleaseNothing(s) ==
  /\ at[s] = "release"
  /\ Idle(s)
  /\ UNCHANGED <<directory, ldAlloc, requests, overtaken>>

Release(s) ==
  /\ at[s] = "release"
  /\ ldAlloc' = ldAlloc - diff[s]
  /\ Idle(s)
  /\ UNCHANGED <<directory, requests, overtaken>>

Killed(s) == at[s] \notin {"idle", "dead"} /\ Die(s)

Next ==
  \E s \in Session :
    \/ \E n \in Size : CreateFile(s, n)
    \/ \E f \in Fileid, n \in Size : UpdateFile(s, f, n)
    \/ \E f \in Fileid : DelFile(s, f)
    \/ Check(s) \/ GetNextFileid(s) \/ Reserve(s) \/ Insert(s) \/ Write(s)
    \/ DeleteRow(s) \/ Release(s)
    \/ Killed(s)

Spec == Init /\ [][Next]_vars

-----------------------------------------------------------------------------
(* Properties *)

\* The sessions' relative updates of alloc_size do not lose one another: it is the
\* sum of the file sizes and of what handlers under way have still to bring into
\* line, until a handler changes a row that is no longer as it read it (two
\* sessions that delete, resize or create the same file) or a process dies between
\* two statements.
AccountExact ==
  ~overtaken =>
    ldAlloc = SumFunctionOnSet(directory, Files) + SumFunctionOnSet(Ahead, Session)

\* What the sessions that have passed the test are about to reserve.
Promised ==
  [s \in Session |->
     IF at[s] \in {"next", "reserve", "reserveNew"} /\ diff[s] > 0 THEN diff[s] ELSE 0]

\* Between test and reservation other sessions may reserve, so the drive's limit can
\* be exceeded; but never by more than one request of each other session, whatever
\* rows they overtake each other on.
OvershootBounded ==
  ldAlloc + SumFunctionOnSet(Promised, Session)
    < LdSize + (Cardinality(Session) - 1) * Max(Size)

=============================================================================
