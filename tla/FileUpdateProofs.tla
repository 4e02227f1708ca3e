-------------------------- MODULE FileUpdateProofs --------------------------
(***************************************************************************)
(* Theorems about FileUpdate, for every number of requests, processes,     *)
(* people, rounds, retries and every limit:                                *)
(*   - TypeCorrect: the type invariant;                                    *)
(*   - OneAppendAtATime: the lock of _append_row_by_download works;        *)
(*   - OnlyOldSessionsOverwrite: files of any size lose a row only to an   *)
(*     upload session that is older than the file;                         *)
(*   - NothingOverwritten: with single PUTs no stored row is overwritten;  *)
(*   - LedgerImplemented: with single PUTs the file is an atomic ledger.   *)
(* The first two are inductive together (a lock can only be handed over    *)
(* by a request at the front of its queue); the others rest on VersionInv, *)
(* which relates what a request downloaded to the version its If-Match     *)
(* header names, and on SessionInv, which does so for upload sessions.     *)
(***************************************************************************)
EXTENDS FileUpdate, SequenceTheorems, TLAPS

\* Whoever is in the read-modify-write loop is at the front of its lock's queue.
LockInv == \A r \in Requests : Holding(r) => AtFront(r)

-----------------------------------------------------------------------------
(* Control: how a request moves on.                                        *)

LEMMA LockOfType == ASSUME NEW r \in Requests PROVE LockOf(r) \in Locks
  BY RequestAssumption DEF LockOf, Locks

LEMMA GotoControl ==
  ASSUME ControlOK, LockInv, NEW r \in Requests,
         NEW step \in Calls \cup {"lock", "done"}, Goto(r, step),
         UNCHANGED <<queue, answer>>,
         step \in {"get_item", "download", "upload", "chunk", "cancel"}
            => ~IsRow(r) \/ AtFront(r)
  PROVE  ControlOK' /\ LockInv'
  <1>1. ControlOK'
    BY LimitAssumption DEF ControlOK, Goto
  <1>2. LockInv'
    BY DEF ControlOK, LockInv, Goto, Holding, AtFront, LockOf, IsRow
  <1> QED BY <1>1, <1>2

LEMMA FinishControl ==
  ASSUME ControlOK, LockInv, NEW r \in Requests, NEW a \in Answers, Finish(r, a)
  PROVE  ControlOK' /\ LockInv'
  <1>1. queue' \in [Locks -> Seq(Requests)]
    <2>1. CASE Holding(r)
      <3>1. queue[LockOf(r)] # <<>> /\ queue[LockOf(r)] \in Seq(Requests)
        BY <2>1, LockOfType DEF LockInv, AtFront, ControlOK
      <3>2. Tail(queue[LockOf(r)]) \in Seq(Requests)
        BY <3>1, HeadTailProperties
      <3> QED BY <2>1, <3>2 DEF Finish, ControlOK
    <2>2. CASE ~Holding(r)
      BY <2>2 DEF Finish, ControlOK
    <2> QED BY <2>1, <2>2
  <1>2. ControlOK'
    BY <1>1, LimitAssumption DEF ControlOK, Finish, Goto, Calls
  <1>3. LockInv'
    <2> SUFFICES ASSUME NEW s \in Requests, Holding(s)'
                 PROVE  AtFront(s)'
      BY DEF LockInv
    <2>1. s # r /\ Holding(s)
      BY DEF Finish, Goto, Holding, IsRow, ControlOK
    <2>2. AtFront(s)
      BY <2>1 DEF LockInv
    <2>3. Holding(r) => LockOf(r) # LockOf(s)
      BY <2>1, <2>2 DEF LockInv, AtFront
    <2>4. queue'[LockOf(s)] = queue[LockOf(s)]
      BY <2>3, LockOfType DEF Finish, ControlOK
    <2> QED BY <2>2, <2>4 DEF AtFront, LockOf
  <1> QED BY <1>2, <1>3

LEMMA AbortControl ==
  ASSUME ControlOK, LockInv, NEW r \in Requests, NEW a \in Answers,
         pc[r] = "chunk", Abort(r, a)
  PROVE  ControlOK' /\ LockInv'
  <1>1. ControlOK'
    BY LimitAssumption DEF ControlOK, Abort, Goto, Calls
  <1>2. LockInv'
    BY DEF ControlOK, LockInv, Abort, Goto, Holding, AtFront, LockOf, IsRow
  <1> QED BY <1>1, <1>2

LEMMA ResendControl ==
  ASSUME ControlOK, LockInv, NEW r \in Requests, Resend(r)
  PROVE  ControlOK' /\ LockInv'
  <1>1. tries[r] + 1 \in 0 .. MAX_RETRIES
    BY LimitAssumption DEF ControlOK, Resend
  <1>2. ControlOK'
    BY <1>1 DEF ControlOK, Resend
  <1>3. LockInv'
    BY DEF LockInv, Resend, Holding, AtFront, LockOf, IsRow
  <1> QED BY <1>2, <1>3

LEMMA SameControl ==
  ASSUME ControlOK, LockInv, UNCHANGED <<pc, tries, queue, answer>>
  PROVE  ControlOK' /\ LockInv'
  BY DEF ControlOK, LockInv, Holding, AtFront, LockOf, IsRow

LEMMA NoteGraph ==
  ASSUME GraphOK, MemoryOK, NoteChange
  PROVE  changed' \in [Requests -> SUBSET (0 .. EXCEL_APPEND_ATTEMPTS - 1)]
  <1>1. \A s \in Requests : changed[s] \cup {attempt[s]}
                               \subseteq 0 .. EXCEL_APPEND_ATTEMPTS - 1
    BY DEF GraphOK, MemoryOK
  <1> QED BY <1>1 DEF NoteChange, GraphOK

LEMMA CommitGraph ==
  ASSUME GraphOK, MemoryOK, NEW r \in Requests, Commit(r)
  PROVE  /\ file' \in [exists: BOOLEAN, id: Nat, etag: Nat, rows: Seq(Rows)]
         /\ saved' \subseteq Rows /\ removed' \subseteq Rows
         /\ landed' \in [Requests -> Nat]
         /\ changed' \in [Requests -> SUBSET (0 .. EXCEL_APPEND_ATTEMPTS - 1)]
  <1>1. r \in Rows
    BY DEF Rows
  <1>2. Data(r) \in Seq(Rows)
    BY <1>1, AppendProperties DEF Data, MemoryOK
  <1>3. Range(file.rows) \subseteq Rows
    BY DEF GraphOK, Range
  <1> QED BY <1>1, <1>2, <1>3, NoteGraph, SMTT(30) DEF Commit, GraphOK

LEMMA SameGraph ==
  ASSUME GraphOK, UNCHANGED graph
  PROVE  GraphOK'
  BY DEF GraphOK, graph

LEMMA SameMemory ==
  ASSUME MemoryOK, UNCHANGED memory
  PROVE  MemoryOK'
  BY DEF MemoryOK, memory

LEMMA SameBounds ==
  ASSUME BoundsOK, UNCHANGED <<lost, outside>>
  PROVE  BoundsOK'
  BY DEF BoundsOK, outside

\* Losing an answer stays within its bound.
LEMMA LostBounds ==
  ASSUME BoundsOK, NEW r \in Requests, lost[r] < MaxLost,
         lost' = [lost EXCEPT ![r] = @ + 1], UNCHANGED outside
  PROVE  BoundsOK'
  BY LimitAssumption DEF BoundsOK, outside

LEMMA KeepPartGraph ==
  ASSUME GraphOK, MemoryOK, NEW r \in Requests, KeepPart(r), UNCHANGED late
  PROVE  GraphOK'
  <1>1. offset[r] + UPLOAD_CHUNK \in Nat
    BY LimitAssumption DEF MemoryOK
  <1>2. /\ session' = [session EXCEPT ![r].got = offset[r] + UPLOAD_CHUNK]
        /\ UNCHANGED <<file, saved, removed, landed, changed>>
    BY DEF KeepPart
  <1>3. session' \in [Requests -> [open: BOOLEAN, got: Nat, version: Nat]]
    BY <1>1, <1>2 DEF GraphOK
  <1> QED BY <1>2, <1>3 DEF GraphOK

LEMMA CommitSessionGraph ==
  ASSUME GraphOK, MemoryOK, NEW r \in Requests, CommitSession(r), UNCHANGED late
  PROVE  GraphOK'
  BY CommitGraph DEF GraphOK, CommitSession, Closed

-----------------------------------------------------------------------------
(* Type correctness and the lock, one step per action.                     *)

LockedInv == TypeOK /\ LockInv

LEMMA InitLocked == Init => LockedInv
  <1> SUFFICES ASSUME Init PROVE LockedInv
    OBVIOUS
  <1>1. file \in [exists: BOOLEAN, id: Nat, etag: Nat, rows: Seq(Rows)]
    <2>1. <<>> \in Seq(Rows) /\ <<Original>> \in Seq(Rows)
      BY DEF Rows
    <2>2. CASE file = [exists |-> TRUE, id |-> 1, etag |-> 1, rows |-> <<Original>>]
      BY <2>1, <2>2
    <2>3. CASE file = [exists |-> FALSE, id |-> 1, etag |-> 1, rows |-> <<>>]
      BY <2>1, <2>3
    <2> QED BY <2>2, <2>3 DEF Init
  <1>2. GraphOK
    <2>1. Range(file.rows) \subseteq Rows
      BY <1>1 DEF Range
    <2>2. session \in [Requests -> [open: BOOLEAN, got: Nat, version: Nat]]
      BY DEF Init, Closed
    <2> QED BY <1>1, <2>1, <2>2 DEF Init, GraphOK
  <1>3. MemoryOK
    BY LimitAssumption DEF Init, MemoryOK, NoItem
  <1>4. ControlOK
    BY LimitAssumption DEF Init, ControlOK, FirstStep, Calls, Answers
  <1>5. BoundsOK
    BY LimitAssumption DEF Init, BoundsOK
  <1>6. LockInv
    BY DEF Init, LockInv, Holding, FirstStep
  <1> QED BY <1>2, <1>3, <1>4, <1>5, <1>6 DEF LockedInv, TypeOK

LEMMA StepLocked ==
  ASSUME LockedInv, NEW r \in Requests, Step(r)
  PROVE  LockedInv'
  <1> USE DEF LockedInv, TypeOK
  <1>1. CASE CheckParent(r)
    <2>1. ControlOK' /\ LockInv'
      BY <1>1, GotoControl DEF CheckParent, Calls
    <2> QED BY <1>1, <2>1, SameGraph, SameMemory, SameBounds DEF CheckParent
  <1>2. CASE CheckWorkbook(r)
    <2>1. CASE file.exists /\ Goto(r, "lock") /\ UNCHANGED answer
               /\ queue' = [queue EXCEPT ![LockOf(r)] = Append(@, r)]
      <3>1. ControlOK'
        BY <2>1, LimitAssumption, LockOfType, AppendProperties DEF ControlOK, Goto
      <3>2. LockInv'
        <4> SUFFICES ASSUME NEW s \in Requests, Holding(s)' PROVE AtFront(s)'
          BY DEF LockInv
        <4>1. s # r /\ Holding(s) /\ AtFront(s)
          BY <2>1 DEF Goto, Holding, IsRow, ControlOK, LockInv
        <4>2. queue[LockOf(s)] \in Seq(Requests)
          BY LockOfType DEF ControlOK
        <4>3. /\ Append(queue[LockOf(s)], r) # <<>>
              /\ Head(Append(queue[LockOf(s)], r)) = s
          BY <4>1, <4>2, HeadTailAppend, AppendProperties DEF AtFront
        <4>4. \/ queue'[LockOf(s)] = queue[LockOf(s)]
              \/ queue'[LockOf(s)] = Append(queue[LockOf(s)], r)
          BY <2>1, LockOfType DEF ControlOK
        <4> QED BY <4>1, <4>3, <4>4 DEF AtFront, LockOf
      <3> QED BY <1>2, <3>1, <3>2, SameGraph, SameMemory, SameBounds DEF CheckWorkbook
    <2>2. CASE Finish(r, "not_found")
      BY <1>2, <2>2, SameGraph, SameMemory, SameBounds, FinishControl
      DEF CheckWorkbook, Answers
    <2> QED BY <1>2, <2>1, <2>2 DEF CheckWorkbook
  <1>3. CASE AcquireLock(r)
    BY <1>3, SameGraph, SameMemory, SameBounds, GotoControl DEF AcquireLock, Calls
  <1>4. CASE FindItem(r)
    <2>1. [id |-> file.id, etag |-> file.etag, size |-> Len(file.rows)]
             \in [id: Nat, etag: Nat, size: Nat]
      BY DEF GraphOK
    <2>5. item' \in [Requests -> [id: Nat, etag: Nat, size: Nat]]
      BY <1>4, <2>1 DEF FindItem, MemoryOK
    <2>6. MemoryOK'
      BY <1>4, <2>5 DEF FindItem, MemoryOK
    <2>2. IsRow(r) => AtFront(r)
      BY <1>4 DEF FindItem, LockInv, Holding
    <2>3. ControlOK' /\ LockInv'
      BY <1>4, <2>2, GotoControl, FinishControl DEF FindItem, Calls, Answers
    <2> QED BY <1>4, <2>6, <2>3, SameGraph, SameBounds DEF FindItem
  <1>5. CASE Download(r)
    <2>1. MemoryOK'
      BY <1>5 DEF Download, MemoryOK, GraphOK
    <2>2. IsRow(r) => AtFront(r)
      BY <1>5 DEF Download, LockInv, Holding
    <2>3. ControlOK' /\ LockInv'
      BY <1>5, <2>2, GotoControl, FinishControl DEF Download, Calls, Answers
    <2> QED BY <1>5, <2>1, <2>3, SameGraph, SameBounds DEF Download
  <1>6. CASE Put(r)
    <2>1. GraphOK'
      BY <1>6, CommitGraph DEF Put, GraphOK
    <2> QED BY <1>6, <2>1, SameMemory, SameBounds, FinishControl DEF Put, Answers
  <1>7. CASE PutUnseen(r)
    <2>1. GraphOK'
      BY <1>7, CommitGraph DEF PutUnseen, GraphOK
    <2> QED BY <1>7, <2>1, SameMemory, LostBounds, FinishControl, ResendControl
        DEF PutUnseen, Answers
  <1>8. CASE PutTimesOut(r)
    <2>1. GraphOK'
      BY <1>8 DEF PutTimesOut, GraphOK
    <2> QED BY <1>8, <2>1, SameMemory, LostBounds, FinishControl
        DEF PutTimesOut, Answers
  <1>9. CASE UploadRejected(r)
    <2>1. IsRow(r) => AtFront(r)
      BY <1>9 DEF UploadRejected, LockInv, Holding
    <2>2. ControlOK' /\ LockInv'
      BY <1>9, <2>1, GotoControl, FinishControl
      DEF UploadRejected, ChangedMeanwhile, Calls, Answers
    <2>3. attempt' \in [Requests -> 0 .. EXCEL_APPEND_ATTEMPTS - 1]
      <3>1. CASE UNCHANGED attempt
        BY <3>1 DEF MemoryOK
      <3>2. CASE /\ attempt[r] < EXCEL_APPEND_ATTEMPTS - 1
                 /\ attempt' = [attempt EXCEPT ![r] = @ + 1]
        <4>1. attempt[r] + 1 \in 0 .. EXCEL_APPEND_ATTEMPTS - 1
          BY <3>2, LimitAssumption DEF MemoryOK
        <4> QED BY <3>2, <4>1 DEF MemoryOK
      <3> QED BY <1>9, <3>1, <3>2 DEF UploadRejected, ChangedMeanwhile
    <2>4. MemoryOK'
      BY <1>9, <2>3 DEF UploadRejected, MemoryOK
    <2> QED BY <1>9, <2>2, <2>4, SameGraph, SameBounds DEF UploadRejected
  <1>10. CASE OpenSession(r)
    <2>1. GraphOK' /\ MemoryOK'
      BY <1>10 DEF OpenSession, GraphOK, MemoryOK, Opened
    <2>2. IsRow(r) => AtFront(r)
      BY <1>10 DEF OpenSession, LockInv, Holding
    <2> QED BY <1>10, <2>1, <2>2, SameBounds, GotoControl DEF OpenSession, Calls
  <1>11. CASE SendChunk(r)
    <2>1. GraphOK'
      BY <1>11, KeepPartGraph, CommitSessionGraph DEF SendChunk
    <2>2. MemoryOK'
      <3>1. offset[r] + UPLOAD_CHUNK \in Nat
        BY LimitAssumption DEF MemoryOK
      <3> QED BY <1>11, <3>1 DEF SendChunk, MemoryOK
    <2>3. IsRow(r) => AtFront(r)
      BY <1>11 DEF SendChunk, LockInv, Holding
    <2>4. ControlOK' /\ LockInv'
      BY <1>11, <2>3, GotoControl, FinishControl DEF SendChunk, Calls, Answers
    <2> QED BY <1>11, <2>1, <2>2, <2>4, SameBounds DEF SendChunk
  <1>12. CASE ChunkUnseen(r)
    <2>1. GraphOK'
      BY <1>12, KeepPartGraph, CommitSessionGraph DEF ChunkUnseen
    <2> QED BY <1>12, <2>1, SameMemory, LostBounds, ResendControl, AbortControl
        DEF ChunkUnseen, Answers
  <1>13. CASE ChunkRejected(r)
    BY <1>13, SameGraph, SameMemory, SameBounds, AbortControl
    DEF ChunkRejected, Answers
  <1>14. CASE CancelSession(r)
    <2>1. GraphOK'
      <3>1. session' \in [Requests -> [open: BOOLEAN, got: Nat, version: Nat]]
        <4>1. CASE UNCHANGED session
          BY <4>1 DEF GraphOK
        <4>2. CASE session' = [session EXCEPT ![r] = Closed]
          BY <4>2 DEF GraphOK, Closed
        <4> QED BY <1>14, <4>1, <4>2 DEF CancelSession
      <3> QED BY <1>14, <3>1 DEF CancelSession, GraphOK
    <2>2. answer[r] \in Answers
      BY DEF ControlOK
    <2> QED BY <1>14, <2>1, <2>2, SameMemory, SameBounds, FinishControl
        DEF CancelSession
  <1>15. CASE Throttled(r)
    BY <1>15, SameGraph, SameMemory, SameBounds, ResendControl DEF Throttled
  <1>16. CASE CallFails(r)
    BY <1>16, SameGraph, SameMemory, SameBounds, FinishControl, AbortControl
    DEF CallFails, Answers
  <1> QED BY <1>1, <1>2, <1>3, <1>4, <1>5, <1>6, <1>7, <1>8, <1>9, <1>10, <1>11,
             <1>12, <1>13, <1>14, <1>15, <1>16 DEF Step

LEMMA NextLocked ==
  ASSUME LockedInv, [Next]_vars
  PROVE  LockedInv'
  <1> USE DEF LockedInv, TypeOK
  <1>1. ASSUME NEW r \in Requests, Step(r) PROVE LockedInv'
    BY <1>1, StepLocked
  <1>2. ASSUME NEW r \in Requests, LatePut(r) PROVE LockedInv'
    <2>1. GraphOK'
      BY <1>2, CommitGraph DEF LatePut, GraphOK
    <2> QED BY <1>2, <2>1, SameMemory, SameControl, SameBounds DEF LatePut
  <1>3. ASSUME NEW p \in Saves, PersonSaves(p) PROVE LockedInv'
    <2>1. p \in Rows
      BY DEF Rows
    <2>2. GraphOK'
      BY <1>3, <2>1, AppendProperties, NoteGraph DEF PersonSaves, GraphOK
    <2> QED BY <1>3, <2>2, SameMemory, SameControl, SameBounds DEF PersonSaves
  <1>4. CASE PersonDeletes
    <2>1. Range(file.rows) \subseteq Rows
      BY DEF GraphOK, Range
    <2>2. GraphOK'
      BY <1>4, <2>1, NoteGraph DEF PersonDeletes, GraphOK
    <2>3. BoundsOK'
      BY <1>4, LimitAssumption DEF PersonDeletes, BoundsOK
    <2> QED BY <1>4, <2>2, <2>3, SameMemory, SameControl DEF PersonDeletes
  <1>5. ASSUME NEW c \in Clients, WorkerDies(c) PROVE LockedInv'
    <2>1. ControlOK'
      BY <1>5 DEF WorkerDies, ControlOK, Answers
    <2>2. LockInv'
      <3> SUFFICES ASSUME NEW s \in Requests, Holding(s)' PROVE AtFront(s)'
        BY DEF LockInv
      <3>1. ClientOf[s] # c /\ Holding(s)
        BY <1>5 DEF WorkerDies, Holding, InProgress, FirstStep, IsRow
      <3>2. queue'[LockOf(s)] = queue[LockOf(s)]
        BY <1>5, <3>1, LockOfType DEF WorkerDies, LockOf
      <3> QED BY <3>1, <3>2 DEF LockInv, AtFront, LockOf
    <2>3. BoundsOK'
      BY <1>5, LimitAssumption DEF WorkerDies, BoundsOK
    <2> QED BY <1>5, <2>1, <2>2, <2>3, SameGraph, SameMemory DEF WorkerDies
  <1>6. CASE UNCHANGED vars
    BY <1>6, SameGraph, SameMemory, SameControl, SameBounds DEF vars
  <1> QED BY <1>1, <1>2, <1>3, <1>4, <1>5, <1>6 DEF Next, Terminated

LEMMA AlwaysLocked == Spec => []LockedInv
  BY InitLocked, NextLocked, PTL DEF Spec

\* Every variable keeps its type, for any number of requests and any limits.
THEOREM TypeCorrect == Spec => []TypeOK
  <1>1. LockedInv => TypeOK
    BY DEF LockedInv
  <1> QED BY <1>1, AlwaysLocked, PTL

\* The asyncio.Lock of _append_row_by_download (sharepoint_client.py:778) lets
\* in one row request per process and spelling of the path, whatever fails.
THEOREM OneAppendAtATime == Spec => []OneAppendPerLock
  <1>1. LockedInv => OneAppendPerLock
    BY DEF LockedInv, LockInv, AtFront, OneAppendPerLock
  <1> QED BY <1>1, AlwaysLocked, PTL


-----------------------------------------------------------------------------
(* Versions: what a request's If-Match header says about what it read.     *)

\* The content of the request may still be stored: by a PUT, or by a last part.
Writing(r) == pc[r] \in {"upload", "chunk"} \/ r \in late

FileInv ==
    /\ file.etag > 0
    /\ ~file.exists => file.rows = <<>>

\* Which requests looked the item up before they write, and what they know of it.
LookupInv(r) ==
    /\ item[r].etag <= file.etag
    /\ item[r] = NoItem => buf[r] = <<>>
    /\ item[r] # NoItem => item[r].etag > 0
    /\ Kind[r] \in {"w", "x"} =>
          item[r] = NoItem
          /\ pc[r] \notin {"require_workbook", "lock", "get_item", "download"}
    /\ IsRow(r) /\ Writing(r) => item[r] # NoItem
    /\ pc[r] = "download" => item[r] # NoItem
    /\ IsRow(r) => pc[r] # "require_directory"

\* The version in the If-Match header is the version in the buffer: if it is
\* still the current one when the PUT arrives, the buffer is the whole file.
VersionInv(r) ==
    Writing(r) /\ item[r] # NoItem /\ file.exists /\ item[r].etag = file.etag
        => buf[r] = file.rows

\* A session was opened on the version its request had read, or on no file.
SessionInv(r) ==
    pc[r] = "chunk" /\ session[r].open =>
        /\ session[r].version <= file.etag
        /\ item[r] # NoItem /\ file.exists /\ session[r].version = file.etag
              => item[r].etag = file.etag

ProgressInv(r) ==
    /\ pc[r] \notin {"cancel", "done"} => answer[r] = "none"
    /\ r \in late => pc[r] = "done" /\ answer[r] = "failed"

RequestInv(r) == LookupInv(r) /\ VersionInv(r) /\ SessionInv(r) /\ ProgressInv(r)

LedgerInv == LockedInv /\ FileInv /\ \A r \in Requests : RequestInv(r)

\* The file stays, or gets a new version, or is gone.
FileMoves ==
    \/ UNCHANGED file
    \/ file'.etag = file.etag + 1
    \/ ~file'.exists /\ file'.etag = file.etag

LEMMA KeepRequest ==
  ASSUME LedgerInv, NEW s \in Requests, FileMoves,
         pc'[s] = pc[s], item'[s] = item[s], buf'[s] = buf[s],
         answer'[s] = answer[s], session'[s] = session[s], s \in late' <=> s \in late
  PROVE  RequestInv(s)'
  <1> USE DEF LedgerInv, LockedInv, TypeOK, RequestInv
  <1>1. item[s].etag \in Nat /\ file.etag \in Nat /\ item[s].etag <= file.etag
    BY DEF MemoryOK, GraphOK, LookupInv
  <1>2. item[s].etag <= file'.etag
    BY <1>1 DEF FileMoves
  <1>3. file'.exists /\ item[s].etag = file'.etag => UNCHANGED file
    BY <1>1 DEF FileMoves
  <1>4. LookupInv(s)'
    BY <1>2 DEF LookupInv, Writing
  <1>5. VersionInv(s)'
    BY <1>3 DEF VersionInv, Writing
  <1>6. ProgressInv(s)'
    BY DEF ProgressInv
  <1>7. SessionInv(s)'
    <2> SUFFICES ASSUME pc[s] = "chunk", session[s].open
                 PROVE  /\ session[s].version <= file'.etag
                        /\ item[s] # NoItem /\ file'.exists
                              /\ session[s].version = file'.etag
                              => item[s].etag = file'.etag
      BY DEF SessionInv
    <2>1. session[s].version \in Nat /\ session[s].version <= file.etag
      BY DEF GraphOK, SessionInv
    <2>2. file'.exists /\ session[s].version = file'.etag => UNCHANGED file
      BY <1>1, <2>1 DEF FileMoves
    <2> QED BY <1>1, <2>1, <2>2 DEF FileMoves, SessionInv
  <1> QED BY <1>4, <1>5, <1>6, <1>7

\* The variables of the other requests that the invariant speaks of.
LEMMA KeepOthers ==
  ASSUME LedgerInv, NEW r \in Requests, FileMoves,
         \A s \in Requests \ {r} :
            /\ pc'[s] = pc[s] /\ item'[s] = item[s] /\ buf'[s] = buf[s]
            /\ answer'[s] = answer[s] /\ session'[s] = session[s]
            /\ (s \in late' <=> s \in late),
         RequestInv(r)'
  PROVE  \A s \in Requests : RequestInv(s)'
  BY KeepRequest

LEMMA FinishKeeps ==
  ASSUME LedgerInv, NEW r \in Requests, NEW a \in Answers, Finish(r, a),
         pc[r] # "done", FileMoves, UNCHANGED <<item, buf>>,
         \A s \in Requests \ {r} : session'[s] = session[s],
         UNCHANGED late \/ (late' = late \cup {r} /\ a = "failed" /\ UNCHANGED file
                            /\ pc[r] = "upload")
  PROVE  \A s \in Requests : RequestInv(s)'
  <1> USE DEF LedgerInv, LockedInv, TypeOK, RequestInv
  <1>1. pc'[r] = "done" /\ answer'[r] = a
    BY DEF Finish, Goto, ControlOK
  <1>2. r \notin late
    BY DEF ProgressInv
  <1>3. item[r].etag \in Nat /\ file.etag \in Nat /\ item[r].etag <= file.etag
    BY DEF MemoryOK, GraphOK, LookupInv
  <1>4. item[r].etag <= file'.etag
    BY <1>3 DEF FileMoves
  <1>5. LookupInv(r)'
    BY <1>1, <1>2, <1>4 DEF LookupInv, Writing
  <1>6. VersionInv(r)'
    BY <1>1, <1>2 DEF VersionInv, Writing
  <1>7. ProgressInv(r)' /\ SessionInv(r)'
    BY <1>1, <1>2 DEF ProgressInv, SessionInv
  <1> QED
    BY <1>5, <1>6, <1>7, KeepOthers DEF Finish, Goto, ControlOK

LEMMA ResendKeeps ==
  ASSUME LedgerInv, NEW r \in Requests, Resend(r), FileMoves,
         UNCHANGED <<item, buf, session, late>>
  PROVE  \A s \in Requests : RequestInv(s)'
  BY KeepRequest DEF Resend

LEMMA CommitMoves ==
  ASSUME NEW r \in Requests, Commit(r)
  PROVE  FileMoves /\ (FileInv /\ GraphOK => FileInv')
  BY DEF Commit, FileMoves, FileInv, GraphOK

\* The request is sending the parts of its session, or ends that in an error.
LEMMA ChunkKeeps ==
  ASSUME LedgerInv, NEW r \in Requests, pc[r] = "chunk", FileMoves,
         UNCHANGED <<item, buf, late>>,
         \/ UNCHANGED <<pc, answer>>
         \/ Goto(r, "chunk") /\ UNCHANGED answer
         \/ \E a \in Answers : Abort(r, a),
         \A s \in Requests \ {r} : session'[s] = session[s],
         session'[r].open => session[r].open /\ session'[r].version = session[r].version
  PROVE  \A s \in Requests : RequestInv(s)'
  <1> USE DEF LedgerInv, LockedInv, TypeOK, RequestInv
  <1>1. item[r].etag \in Nat /\ file.etag \in Nat /\ item[r].etag <= file.etag
    BY DEF MemoryOK, GraphOK, LookupInv
  <1>2. item[r].etag <= file'.etag
    BY <1>1 DEF FileMoves
  <1>3. file'.exists /\ item[r].etag = file'.etag => UNCHANGED file
    BY <1>1 DEF FileMoves
  <1>4. /\ (pc'[r] = "chunk" /\ answer'[r] = answer[r]) \/ pc'[r] = "cancel"
        /\ \A s \in Requests \ {r} : pc'[s] = pc[s] /\ answer'[s] = answer[s]
    BY DEF Goto, Abort, ControlOK
  <1>5. r \notin late
    BY DEF ProgressInv
  <1>6. LookupInv(r)'
    BY <1>2, <1>4, <1>5 DEF LookupInv, Writing
  <1>7. VersionInv(r)'
    BY <1>3, <1>4, <1>5 DEF VersionInv, Writing
  <1>8. ProgressInv(r)'
    BY <1>4, <1>5 DEF ProgressInv
  <1>9. SessionInv(r)'
    <2> SUFFICES ASSUME session'[r].open
                 PROVE  /\ session'[r].version <= file'.etag
                        /\ item[r] # NoItem /\ file'.exists
                              /\ session'[r].version = file'.etag
                              => item[r].etag = file'.etag
      BY DEF SessionInv
    <2>1. /\ session'[r].version = session[r].version
          /\ session[r].version \in Nat /\ session[r].version <= file.etag
      BY DEF GraphOK, SessionInv
    <2>2. file'.exists /\ session[r].version = file'.etag => UNCHANGED file
      BY <1>1, <2>1 DEF FileMoves
    <2> QED BY <1>1, <2>1, <2>2 DEF FileMoves, SessionInv
  <1> QED BY <1>4, <1>6, <1>7, <1>8, <1>9, KeepOthers


LEMMA InitLedger == Init => LedgerInv
  <1> SUFFICES ASSUME Init PROVE LedgerInv
    OBVIOUS
  <1>1. FileInv
    <2>1. CASE file = [exists |-> TRUE, id |-> 1, etag |-> 1, rows |-> <<Original>>]
      BY <2>1 DEF FileInv
    <2>2. CASE file = [exists |-> FALSE, id |-> 1, etag |-> 1, rows |-> <<>>]
      BY <2>2 DEF FileInv
    <2> QED BY <2>1, <2>2 DEF Init
  <1>2. ASSUME NEW r \in Requests PROVE RequestInv(r)
    <2>1. /\ item[r] = NoItem /\ buf[r] = <<>> /\ pc[r] = FirstStep(r)
          /\ answer[r] = "none" /\ r \notin late
      BY DEF Init
    <2>2. LookupInv(r)
      BY <1>1, <2>1 DEF LookupInv, FileInv, NoItem, FirstStep, Writing, IsRow, Init
    <2>3. VersionInv(r)
      BY <2>1 DEF VersionInv, Writing, FirstStep
    <2>4. ProgressInv(r) /\ SessionInv(r)
      BY <2>1 DEF ProgressInv, SessionInv, FirstStep
    <2> QED BY <2>2, <2>3, <2>4 DEF RequestInv
  <1> QED BY <1>1, <1>2, InitLocked DEF LedgerInv

\* Goto, for the steps that change no version: the request keeps what it knows.
LEMMA GotoKeeps ==
  ASSUME LedgerInv, NEW r \in Requests,
         NEW step \in {"upload", "lock", "get_item"}, Goto(r, step),
         UNCHANGED <<file, item, buf, session, late, answer>>,
         pc[r] \notin {"cancel", "done"},
         step = "upload" => ~IsRow(r) /\ item[r] = NoItem,
         step # "upload" => Kind[r] \notin {"w", "x"}
  PROVE  \A s \in Requests : RequestInv(s)'
  <1> USE DEF LedgerInv, LockedInv, TypeOK, RequestInv
  <1>1. pc'[r] = step /\ r \notin late
    BY DEF Goto, ControlOK, ProgressInv
  <1>2. LookupInv(r)'
    BY <1>1 DEF LookupInv, Writing, IsRow
  <1>3. VersionInv(r)'
    BY <1>1 DEF VersionInv, Writing
  <1>4. ProgressInv(r)' /\ SessionInv(r)'
    BY <1>1 DEF ProgressInv, SessionInv
  <1> QED BY <1>2, <1>3, <1>4, KeepOthers DEF Goto, ControlOK, FileMoves

LEMMA StepLedger ==
  ASSUME LedgerInv, NEW r \in Requests, Step(r)
  PROVE  LedgerInv'
  <1> USE DEF LedgerInv
  <1>0. LockedInv'
    BY StepLocked
  <1>a. ControlOK /\ GraphOK /\ MemoryOK /\ RequestInv(r)
    BY DEF LockedInv, TypeOK
  <1>b. session \in [Requests -> [open: BOOLEAN, got: Nat, version: Nat]]
    BY <1>a DEF GraphOK
  <1>c. UNCHANGED file => FileInv' /\ FileMoves
    BY DEF FileInv, FileMoves
  <1> SUFFICES FileInv' /\ \A s \in Requests : RequestInv(s)'
    BY <1>0
  <1>1. CASE CheckParent(r)
    <2>1. Kind[r] # "a" => item[r] = NoItem
      BY <1>a, RequestAssumption, <1>1
      DEF RequestInv, LookupInv, CheckParent, IsRow
    <2> QED BY <1>1, <1>a, <1>c, <2>1, GotoKeeps DEF CheckParent, graph, memory
  <1>2. CASE CheckWorkbook(r)
    <2>1. Kind[r] \notin {"w", "x"}
      BY <1>2, <1>a DEF CheckWorkbook, RequestInv, LookupInv
    <2> QED BY <1>2, <1>c, <2>1, GotoKeeps, FinishKeeps
        DEF CheckWorkbook, graph, memory, Answers
  <1>3. CASE AcquireLock(r)
    <2>1. Kind[r] \notin {"w", "x"}
      BY <1>3, <1>a DEF AcquireLock, RequestInv, LookupInv
    <2> QED BY <1>3, <1>c, <2>1, GotoKeeps DEF AcquireLock, graph, memory
  <1>4. CASE FindItem(r)
    <2>1. Kind[r] \notin {"w", "x"} /\ r \notin late /\ answer[r] = "none"
      BY <1>4, <1>a DEF FindItem, RequestInv, LookupInv, ProgressInv
    <2>2. CASE /\ item' = [item EXCEPT ![r] = [id |-> file.id, etag |-> file.etag,
                                                size |-> Len(file.rows)]]
               /\ Goto(r, "download") /\ UNCHANGED <<queue, answer>>
      <3>1. /\ pc'[r] = "download" /\ item'[r].etag = file.etag /\ item'[r] # NoItem
        BY <2>2, <1>a DEF Goto, ControlOK, MemoryOK, FileInv, NoItem
      <3>2. UNCHANGED <<file, buf, session, late>>
        BY <1>4 DEF FindItem, graph
      <3>3. RequestInv(r)'
        BY <1>a, <2>1, <2>2, <3>1, <3>2
        DEF RequestInv, LookupInv, VersionInv, SessionInv, ProgressInv, Writing, IsRow,
            FileInv, GraphOK
      <3> QED BY <1>a, <1>c, <2>2, <3>2, <3>3, KeepOthers
          DEF Goto, ControlOK, MemoryOK
    <2>3. CASE ~IsRow(r) /\ Goto(r, "upload") /\ UNCHANGED <<item, queue, answer>>
      <3>1. pc'[r] = "upload" /\ UNCHANGED <<file, buf, session, late>> /\ ~file.exists
        BY <1>4, <2>3, <1>a DEF FindItem, graph, Goto, ControlOK
      <3>2. RequestInv(r)'
        BY <1>a, <2>1, <2>3, <3>1
        DEF RequestInv, LookupInv, VersionInv, SessionInv, ProgressInv, Writing, IsRow
      <3> QED BY <1>a, <1>c, <2>3, <3>1, <3>2, KeepOthers DEF Goto, ControlOK
    <2>4. CASE Finish(r, "not_found") /\ UNCHANGED item
      BY <1>4, <1>c, <2>4, FinishKeeps DEF FindItem, graph, Answers
    <2> QED BY <1>4, <2>2, <2>3, <2>4 DEF FindItem
  <1>5. CASE Download(r)
    <2>1. r \notin late /\ answer[r] = "none" /\ item[r] # NoItem
      BY <1>5, <1>a DEF Download, RequestInv, LookupInv, ProgressInv
    <2>2. CASE /\ Len(file.rows) < MAX_FILE
               /\ buf' = [buf EXCEPT ![r] = file.rows]
               /\ Goto(r, "upload") /\ UNCHANGED <<queue, answer>>
      <3>1. pc'[r] = "upload" /\ buf'[r] = file.rows
        BY <2>2, <1>a DEF Goto, ControlOK, MemoryOK
      <3>2. UNCHANGED <<file, item, session, late>> /\ pc[r] = "download"
        BY <1>5 DEF Download, graph
      <3>3. RequestInv(r)'
        BY <1>a, <2>1, <2>2, <3>1, <3>2
        DEF RequestInv, LookupInv, VersionInv, SessionInv, ProgressInv, Writing, IsRow
      <3> QED BY <1>a, <1>c, <2>2, <3>2, <3>3, KeepOthers
          DEF Goto, ControlOK, MemoryOK
    <2>3. CASE (\E a \in {"not_found", "too_large"} : Finish(r, a)) /\ UNCHANGED buf
      BY <1>5, <1>c, <2>3, FinishKeeps DEF Download, graph, Answers
    <2> QED BY <1>5, <2>2, <2>3 DEF Download
  <1>6. CASE Put(r)
    BY <1>6, <1>a, CommitMoves, FinishKeeps DEF Put, memory, Answers
  <1>7. CASE PutUnseen(r)
    BY <1>7, <1>a, CommitMoves, FinishKeeps, ResendKeeps
    DEF PutUnseen, memory, Answers
  <1>8. CASE PutTimesOut(r)
    BY <1>8, <1>c, FinishKeeps DEF PutTimesOut, memory, Answers
  <1>9. CASE UploadRejected(r)
    <2>1. UNCHANGED <<file, item, buf, session, late>> /\ pc[r] = "upload"
      BY <1>9 DEF UploadRejected, graph
    <2>2. CASE IsRow(r) /\ Goto(r, "get_item") /\ UNCHANGED answer
      BY <1>c, <2>1, <2>2, GotoKeeps DEF IsRow
    <2>3. CASE \E a \in {"conflict", "gave_up"} : Finish(r, a)
      BY <1>c, <2>1, <2>3, FinishKeeps DEF Answers
    <2> QED BY <1>9, <2>2, <2>3 DEF UploadRejected, ChangedMeanwhile
  <1>10. CASE OpenSession(r)
    <2>1. /\ pc[r] = "upload" /\ Matches(r) /\ UNCHANGED <<file, item, buf, late, answer>>
          /\ session' = [session EXCEPT ![r] = Opened(0, file.etag)] /\ Goto(r, "chunk")
      BY <1>10 DEF OpenSession
    <2>2. /\ pc'[r] = "chunk" /\ session'[r].version = file.etag
          /\ \A s \in Requests \ {r} : session'[s] = session[s] /\ pc'[s] = pc[s]
      BY <1>a, <1>b, <2>1 DEF Goto, ControlOK, Opened
    <2>3. file.etag \in Nat
      BY <1>a DEF GraphOK
    <2>4. LookupInv(r)' /\ VersionInv(r)' /\ ProgressInv(r)'
      BY <1>a, <2>1, <2>2 DEF RequestInv, LookupInv, VersionInv, ProgressInv, Writing
    <2>5. SessionInv(r)'
      BY <2>1, <2>2, <2>3 DEF SessionInv, Matches
    <2> QED BY <1>c, <2>1, <2>2, <2>4, <2>5, KeepOthers DEF RequestInv
  <1>11. CASE SendChunk(r)
    <2>1. pc[r] = "chunk" /\ session[r].open /\ UNCHANGED <<item, buf, late>>
      BY <1>11 DEF SendChunk, InOrder
    <2>2. CASE KeepPart(r) /\ Goto(r, "chunk") /\ UNCHANGED answer
      <3>1. /\ session'[r].version = session[r].version
            /\ \A s \in Requests \ {r} : session'[s] = session[s]
        BY <1>b, <2>2 DEF KeepPart
      <3> QED BY <1>c, <2>1, <2>2, <3>1, ChunkKeeps DEF KeepPart
    <2>3. CASE CommitSession(r) /\ Finish(r, "ok")
      <3>1. \A s \in Requests \ {r} : session'[s] = session[s]
        BY <1>b, <2>3 DEF CommitSession
      <3> QED BY <1>a, <2>1, <2>3, <3>1, CommitMoves, FinishKeeps
          DEF CommitSession, Answers
    <2> QED BY <1>11, <2>2, <2>3 DEF SendChunk
  <1>12. CASE ChunkUnseen(r)
    <2>1. /\ pc[r] = "chunk" /\ session[r].open /\ UNCHANGED <<item, buf, late>>
          /\ UNCHANGED <<pc, answer>> \/ Abort(r, "failed")
      BY <1>12 DEF ChunkUnseen, InOrder, memory, Resend
    <2>2. CASE KeepPart(r)
      <3>1. /\ session'[r].version = session[r].version
            /\ \A s \in Requests \ {r} : session'[s] = session[s]
        BY <1>b, <2>2 DEF KeepPart
      <3> QED BY <1>c, <2>1, <2>2, <3>1, ChunkKeeps DEF KeepPart, Answers
    <2>3. CASE CommitSession(r)
      <3>1. ~session'[r].open /\ \A s \in Requests \ {r} : session'[s] = session[s]
        BY <1>b, <2>3 DEF CommitSession, Closed
      <3> QED BY <1>a, <2>1, <2>3, <3>1, CommitMoves, ChunkKeeps
          DEF CommitSession, Answers
    <2> QED BY <1>12, <2>2, <2>3 DEF ChunkUnseen
  <1>13. CASE ChunkRejected(r)
    BY <1>13, <1>c, ChunkKeeps DEF ChunkRejected, graph, memory, Answers
  <1>14. CASE CancelSession(r)
    <2>1. answer[r] \in Answers
      BY <1>a DEF ControlOK
    <2>2. \A s \in Requests \ {r} : session'[s] = session[s]
      BY <1>b, <1>14 DEF CancelSession
    <2> QED BY <1>14, <1>c, <2>1, <2>2, FinishKeeps DEF CancelSession, memory
  <1>15. CASE Throttled(r)
    BY <1>15, <1>c, ResendKeeps DEF Throttled, graph, memory
  <1>16. CASE CallFails(r)
    <2>1. CASE pc[r] # "done" /\ Finish(r, "failed")
      BY <1>16, <1>c, <2>1, FinishKeeps DEF CallFails, graph, memory, Answers
    <2>2. CASE pc[r] = "chunk" /\ Abort(r, "failed")
      BY <1>16, <1>c, <2>2, ChunkKeeps DEF CallFails, graph, memory, Answers
    <2> QED BY <1>16, <2>1, <2>2 DEF CallFails, Calls
  <1> QED BY <1>1, <1>2, <1>3, <1>4, <1>5, <1>6, <1>7, <1>8, <1>9, <1>10, <1>11,
             <1>12, <1>13, <1>14, <1>15, <1>16 DEF Step


LEMMA NextLedger ==
  ASSUME LedgerInv, [Next]_vars
  PROVE  LedgerInv'
  <1> USE DEF LedgerInv
  <1>0. LockedInv'
    BY NextLocked
  <1>a. ControlOK /\ GraphOK /\ MemoryOK
    BY DEF LockedInv, TypeOK
  <1> SUFFICES FileInv' /\ \A s \in Requests : RequestInv(s)'
    BY <1>0
  <1>1. ASSUME NEW r \in Requests, Step(r)
        PROVE  FileInv' /\ \A s \in Requests : RequestInv(s)'
    BY <1>1, StepLedger
  <1>2. ASSUME NEW r \in Requests, LatePut(r)
        PROVE  FileInv' /\ \A s \in Requests : RequestInv(s)'
    <2>1. FileMoves /\ FileInv'
      BY <1>2, <1>a, CommitMoves DEF LatePut, FileMoves, FileInv
    <2>2. UNCHANGED <<pc, item, buf, session, answer>> /\ late' = late \ {r}
      BY <1>2 DEF LatePut, memory
    <2>3. RequestInv(r)'
      <3>1. pc[r] = "done" /\ answer[r] = "failed" /\ RequestInv(r)
        BY <1>2 DEF LatePut, RequestInv, ProgressInv
      <3>2. item[r].etag \in Nat /\ file.etag \in Nat /\ item[r].etag <= file.etag
        BY <1>a, <3>1 DEF MemoryOK, GraphOK, RequestInv, LookupInv
      <3>3. item[r].etag <= file'.etag
        BY <2>1, <3>2 DEF FileMoves
      <3>4. ~Writing(r)'
        BY <2>2, <3>1 DEF Writing
      <3>5. LookupInv(r)'
        BY <2>2, <3>1, <3>3, <3>4 DEF RequestInv, LookupInv
      <3>6. VersionInv(r)' /\ ProgressInv(r)' /\ SessionInv(r)'
        BY <2>2, <3>1, <3>4 DEF RequestInv, VersionInv, ProgressInv, SessionInv
      <3> QED BY <3>5, <3>6 DEF RequestInv
    <2> QED BY <2>1, <2>2, <2>3, KeepOthers
  <1>3. ASSUME NEW p \in Saves, PersonSaves(p)
        PROVE  FileInv' /\ \A s \in Requests : RequestInv(s)'
    <2>1. FileMoves /\ FileInv'
      BY <1>3, <1>a DEF PersonSaves, FileMoves, FileInv, GraphOK
    <2> QED BY <1>3, <2>1, KeepRequest DEF PersonSaves, memory
  <1>4. CASE PersonDeletes
    <2>1. FileMoves /\ FileInv'
      BY <1>4 DEF PersonDeletes, FileMoves, FileInv
    <2> QED BY <1>4, <2>1, KeepRequest DEF PersonDeletes, memory
  <1>5. ASSUME NEW c \in Clients, WorkerDies(c)
        PROVE  FileInv' /\ \A s \in Requests : RequestInv(s)'
    <2>1. UNCHANGED <<file, item, buf, session, late>> /\ FileMoves /\ FileInv'
      BY <1>5 DEF WorkerDies, graph, memory, FileMoves, FileInv
    <2> SUFFICES ASSUME NEW s \in Requests PROVE RequestInv(s)'
      BY <2>1
    <2>2. CASE ClientOf[s] = c /\ InProgress(s)
      <3>1. pc'[s] = "done" /\ pc[s] # "done"
        BY <1>5, <2>2 DEF WorkerDies, InProgress
      <3>2. s \notin late /\ RequestInv(s)
        BY <3>1 DEF RequestInv, ProgressInv
      <3>3. ~Writing(s)'
        BY <2>1, <3>1, <3>2 DEF Writing
      <3> QED BY <2>1, <3>1, <3>2, <3>3
          DEF RequestInv, LookupInv, VersionInv, SessionInv, ProgressInv
    <2>3. CASE ~(ClientOf[s] = c /\ InProgress(s))
      <3>1. pc'[s] = pc[s] /\ answer'[s] = answer[s]
        BY <1>5, <2>3 DEF WorkerDies
      <3> QED BY <2>1, <3>1, KeepRequest
    <2> QED BY <2>2, <2>3
  <1>6. CASE UNCHANGED vars
    <2>1. FileMoves /\ FileInv'
      BY <1>6 DEF vars, graph, FileMoves, FileInv
    <2> QED BY <1>6, <2>1, KeepRequest DEF vars, graph, memory
  <1> QED BY <1>1, <1>2, <1>3, <1>4, <1>5, <1>6 DEF Next, Terminated

LEMMA AlwaysLedger == Spec => []LedgerInv
  <1>1. LedgerInv /\ [Next]_vars => LedgerInv'
    BY NextLedger
  <1> QED BY <1>1, InitLedger, PTL DEF Spec

-----------------------------------------------------------------------------
(* What takes a stored row out of the file.                                *)

LEMMA RangeAppend ==
  ASSUME NEW S, NEW s \in Seq(S), NEW e \in S
  PROVE  Range(Append(s, e)) = Range(s) \cup {e}
  <1>1. /\ Len(s) \in Nat
        /\ DOMAIN s = 1 .. Len(s)
        /\ DOMAIN Append(s, e) = 1 .. Len(s) + 1
        /\ \A i \in 1 .. Len(s) : Append(s, e)[i] = s[i]
        /\ Append(s, e)[Len(s) + 1] = e
    OBVIOUS
  <1>2. 1 .. Len(s) + 1 = (1 .. Len(s)) \cup {Len(s) + 1}
    BY <1>1
  <1> QED BY <1>1, <1>2 DEF Range

\* What a PUT that Graph accepts makes of the file.
\* A row that people save is one more row of the file.
LEMMA PersonAppends ==
  ASSUME LedgerInv, NEW p \in Saves, PersonSaves(p)
  PROVE  Range(file'.rows) = Range(file.rows) \cup {p}
  <1>1. file.rows \in Seq(Rows) /\ p \in Rows
    BY DEF LedgerInv, LockedInv, TypeOK, GraphOK, Rows
  <1>2. file'.rows = Append(file.rows, p)
    BY DEF PersonSaves
  <1> QED BY <1>1, <1>2, RangeAppend

LEMMA CommitAppends ==
  ASSUME LedgerInv, NEW r \in Requests, Writing(r), Matches(r),
         CreateOnly(r) => ~file.exists, Commit(r)
  PROVE  /\ r \in Rows /\ buf[r] \in Seq(Rows) /\ file.rows \in Seq(Rows)
         /\ file'.rows = Append(buf[r], r)
         /\ Kind[r] = "w" => buf[r] = <<>>
         /\ Kind[r] # "w" /\ file.rows # <<>> => buf[r] = file.rows
  <1>1. r \in Rows /\ buf[r] \in Seq(Rows) /\ file.rows \in Seq(Rows)
    BY DEF LedgerInv, LockedInv, TypeOK, MemoryOK, GraphOK, Rows
  <1>2. file'.rows = Append(buf[r], r)
    BY DEF Commit, Data
  <1>3. RequestInv(r)
    BY DEF LedgerInv
  <1>4. Kind[r] = "w" => buf[r] = <<>>
    BY <1>3 DEF RequestInv, LookupInv
  <1>5. ASSUME Kind[r] # "w", file.rows # <<>> PROVE buf[r] = file.rows
    <2>1. file.exists
      BY <1>5 DEF LedgerInv, FileInv
    <2>2. item[r] # NoItem
      <3>1. Kind[r] \in {"a", "row"}
        BY <1>5, <2>1, RequestAssumption DEF CreateOnly
      <3> QED BY <1>3, <2>1, <3>1 DEF CreateOnly, IsRow, RequestInv, LookupInv
    <2> QED BY <1>3, <2>1, <2>2 DEF Matches, RequestInv, VersionInv
  <1> QED BY <1>1, <1>2, <1>4, <1>5

\* Unless it overwrites on purpose, what is stored adds a row to those in the file.
LEMMA CommitKeepsRows ==
  ASSUME LedgerInv, NEW r \in Requests, Writing(r), Matches(r),
         CreateOnly(r) => ~file.exists, Commit(r)
  PROVE  /\ r \in Range(file'.rows)
         /\ Kind[r] # "w" => Range(file.rows) \subseteq Range(file'.rows)
  <1>1. Range(file'.rows) = Range(buf[r]) \cup {r}
    <2>1. /\ r \in Rows /\ buf[r] \in Seq(Rows)
          /\ file'.rows = Append(buf[r], r)
      BY CommitAppends
    <2>2. Range(Append(buf[r], r)) = Range(buf[r]) \cup {r}
      BY <2>1, RangeAppend
    <2> QED BY <2>1, <2>2
  <1>2. CASE file.rows = <<>>
    BY <1>1, <1>2 DEF Range
  <1>3. CASE Kind[r] # "w" /\ file.rows # <<>>
    <2>1. buf[r] = file.rows
      BY <1>3, CommitAppends
    <2> QED BY <1>1, <1>3, <2>1
  <1>4. CASE Kind[r] = "w"
    BY <1>1, <1>4
  <1> QED BY <1>2, <1>3, <1>4

\* A session that ends and is as old as the file names the version it was opened on.
LEMMA FreshSessionMatches ==
  ASSUME LedgerInv, NEW r \in Requests, pc[r] = "chunk", InOrder(r),
         session[r].version = file.etag
  PROVE  Matches(r)
  BY DEF LedgerInv, RequestInv, SessionInv, InOrder, Matches

\* The step of LostOnlyToOldSession.
KeepsRows ==
    \/ Range(file.rows) \subseteq Range(file'.rows)
    \/ ~file'.exists
    \/ \E r \in Requests : landed'[r] # landed[r] /\ Kind[r] = "w"
    \/ \E r \in Requests : EndsOldSession(r)

LEMMA CommitKeeps ==
  ASSUME LedgerInv, NEW r \in Requests, Writing(r), CreateOnly(r) => ~file.exists,
         Matches(r) \/ (pc[r] = "chunk" /\ InOrder(r)), Commit(r)
  PROVE  KeepsRows
  <1>1. landed'[r] # landed[r]
    <2>1. landed[r] \in Nat /\ landed' = [landed EXCEPT ![r] = @ + 1]
      BY DEF Commit, LedgerInv, LockedInv, TypeOK, GraphOK
    <2>2. landed'[r] = landed[r] + 1
      BY <2>1 DEF LedgerInv, LockedInv, TypeOK, GraphOK
    <2> QED BY <2>1, <2>2
  <1>2. CASE Matches(r)
    BY <1>1, <1>2, CommitKeepsRows DEF KeepsRows
  <1>3. CASE ~Matches(r) /\ pc[r] = "chunk" /\ InOrder(r)
    <2>1. session[r].version # file.etag
      BY <1>3, FreshSessionMatches
    <2> QED BY <1>1, <1>3, <2>1 DEF KeepsRows, EndsOldSession
  <1> QED BY <1>2, <1>3

LEMMA NextKeepsRows ==
  ASSUME LedgerInv, Next
  PROVE  KeepsRows
  <1>0. UNCHANGED file => KeepsRows
    BY DEF KeepsRows
  <1>1. ASSUME NEW r \in Requests, Step(r) PROVE KeepsRows
    <2>1. CASE Put(r) \/ PutUnseen(r)
      BY <2>1, CommitKeeps DEF Put, PutUnseen, Writing
    <2>2. CASE SendChunk(r) \/ ChunkUnseen(r)
      <3>1. pc[r] = "chunk" /\ InOrder(r)
        BY <2>2 DEF SendChunk, ChunkUnseen
      <3>2. CASE CommitSession(r)
        BY <3>1, <3>2, CommitKeeps DEF CommitSession, Writing
      <3>3. CASE KeepPart(r)
        BY <1>0, <3>3 DEF KeepPart
      <3> QED BY <2>2, <3>2, <3>3 DEF SendChunk, ChunkUnseen
    <2>3. CASE ~(Put(r) \/ PutUnseen(r) \/ SendChunk(r) \/ ChunkUnseen(r))
      BY <1>1, <1>0, <2>3
      DEF Step, CheckParent, CheckWorkbook, AcquireLock, FindItem, Download,
          PutTimesOut, UploadRejected, OpenSession, ChunkRejected, CancelSession,
          Throttled, CallFails, graph
    <2> QED BY <2>1, <2>2, <2>3
  <1>2. ASSUME NEW r \in Requests, LatePut(r) PROVE KeepsRows
    BY <1>2, <1>0, CommitKeeps DEF LatePut, Writing
  <1>3. ASSUME NEW p \in Saves, PersonSaves(p) PROVE KeepsRows
    BY <1>3, PersonAppends DEF KeepsRows
  <1>4. CASE PersonDeletes
    BY <1>4 DEF PersonDeletes, KeepsRows
  <1>5. ASSUME NEW c \in Clients, WorkerDies(c) PROVE KeepsRows
    BY <1>5, <1>0 DEF WorkerDies, graph
  <1>6. CASE UNCHANGED vars
    BY <1>6, <1>0 DEF vars, graph
  <1> QED BY <1>1, <1>2, <1>3, <1>4, <1>5, <1>6 DEF Next, Terminated

\* For files of every size: the only thing of the gateway that takes somebody's row
\* out of the file, short of a "w" request, is the end of an upload session that was
\* opened before the file changed.  Single PUTs, repeated ones, late ones, and
\* sessions that nobody disturbs keep every row.
THEOREM OnlyOldSessionsOverwrite == Spec => LostOnlyToOldSession
  <1>1. LedgerInv /\ [Next]_vars => [KeepsRows]_vars
    BY NextKeepsRows
  <1> QED BY <1>1, AlwaysLedger, PTL DEF Spec, LostOnlyToOldSession, KeepsRows

-----------------------------------------------------------------------------
(* Small files: no stored row is overwritten.                              *)

\* Files so small that every upload is a single PUT.
SmallFiles == MAX_FILE <= SIMPLE_UPLOAD_LIMIT

SmallInv(r) == Len(buf[r]) < MAX_FILE /\ pc[r] \notin {"chunk", "cancel"}

SmallLedgerInv == LedgerInv /\ \A r \in Requests : SmallInv(r)

LEMMA SmallIsSimple ==
  ASSUME SmallFiles, SmallLedgerInv, NEW r \in Requests
  PROVE  IsSimple(r)
  <1>1. Len(buf[r]) \in Nat /\ Len(buf[r]) < MAX_FILE
    BY DEF SmallLedgerInv, SmallInv, LedgerInv, LockedInv, TypeOK, MemoryOK
  <1>2. Len(Data(r)) = Len(buf[r]) + 1
    BY AppendProperties DEF Data, Rows, SmallLedgerInv, LedgerInv, LockedInv, TypeOK,
                            MemoryOK
  <1> QED BY <1>1, <1>2, LimitAssumption DEF SmallFiles, IsSimple

LEMMA StepSmall ==
  ASSUME SmallFiles, SmallLedgerInv, NEW r \in Requests, Step(r)
  PROVE  \A s \in Requests : SmallInv(s)'
  <1>1. SmallInv(r) /\ IsSimple(r)
    BY SmallIsSimple DEF SmallLedgerInv
  <1>2. /\ pc \in [Requests -> Calls \cup {"lock", "done"}]
        /\ buf \in [Requests -> Seq(Rows)]
    BY DEF SmallLedgerInv, LedgerInv, LockedInv, TypeOK, ControlOK, MemoryOK
  <1>3. \/ UNCHANGED pc
        \/ \E step \in {"lock", "get_item", "download", "upload", "done"} :
              pc' = [pc EXCEPT ![r] = step]
    BY <1>1 DEF SmallInv, Step, CheckParent, CheckWorkbook, AcquireLock, FindItem,
           Download, Put, PutUnseen, PutTimesOut, UploadRejected, ChangedMeanwhile,
           OpenSession, SendChunk, ChunkUnseen, ChunkRejected, CancelSession, Throttled,
           CallFails, Goto, Finish, Resend
  <1>4. \/ UNCHANGED buf
        \/ Len(file.rows) < MAX_FILE /\ buf' = [buf EXCEPT ![r] = file.rows]
    BY <1>1 DEF SmallInv, Step, CheckParent, CheckWorkbook, AcquireLock, FindItem,
           Download, Put, PutUnseen, PutTimesOut, UploadRejected, OpenSession, SendChunk,
           ChunkUnseen, ChunkRejected, CancelSession, Throttled, CallFails, memory
  <1> QED BY <1>2, <1>3, <1>4 DEF SmallLedgerInv, SmallInv

LEMMA NextSmall ==
  ASSUME SmallFiles, SmallLedgerInv, [Next]_vars
  PROVE  SmallLedgerInv'
  <1> USE DEF SmallLedgerInv
  <1>0. LedgerInv'
    BY NextLedger
  <1>1. ASSUME NEW r \in Requests, Step(r) PROVE \A s \in Requests : SmallInv(s)'
    BY <1>1, StepSmall
  <1>2. CASE UNCHANGED <<pc, buf>>
    BY <1>0, <1>2 DEF SmallInv
  <1>3. ASSUME NEW c \in Clients, WorkerDies(c) PROVE \A s \in Requests : SmallInv(s)'
    BY <1>3 DEF WorkerDies, SmallInv, memory
  <1> QED BY <1>0, <1>1, <1>2, <1>3
          DEF Next, Terminated, LatePut, PersonSaves, PersonDeletes, vars, memory

LEMMA AlwaysSmall == ASSUME SmallFiles PROVE Spec => []SmallLedgerInv
  <1>1. Init => SmallLedgerInv
    <2> SUFFICES ASSUME Init PROVE SmallLedgerInv
      OBVIOUS
    <2>1. \A r \in Requests : buf[r] = <<>> /\ pc[r] = FirstStep(r)
      BY DEF Init
    <2> QED BY <2>1, InitLedger, LimitAssumption
        DEF SmallLedgerInv, SmallInv, FirstStep
  <1>2. SmallLedgerInv /\ [Next]_vars => SmallLedgerInv'
    BY NextSmall
  <1> QED BY <1>1, <1>2, PTL DEF Spec

LEMMA CommitLosesNothing ==
  ASSUME LedgerInv, NoRowLost, NEW r \in Requests, Writing(r), Matches(r),
         CreateOnly(r) => ~file.exists, Commit(r)
  PROVE  NoRowLost'
  BY CommitKeepsRows DEF Commit, NoRowLost

LEMMA NextLosesNothing ==
  ASSUME SmallFiles, SmallLedgerInv, NoRowLost, [Next]_vars
  PROVE  NoRowLost'
  <1>0. UNCHANGED <<file, saved, removed>> => NoRowLost'
    BY DEF NoRowLost
  <1>a. LedgerInv
    BY DEF SmallLedgerInv
  <1>1. ASSUME NEW r \in Requests, Step(r) PROVE NoRowLost'
    <2>1. pc[r] \notin {"chunk", "cancel"}
      BY DEF SmallLedgerInv, SmallInv
    <2>2. CASE Put(r) \/ PutUnseen(r)
      BY <1>a, <2>2, CommitLosesNothing DEF Put, PutUnseen, Writing
    <2>3. CASE ~(Put(r) \/ PutUnseen(r))
      BY <1>1, <1>0, <2>1, <2>3
      DEF Step, CheckParent, CheckWorkbook, AcquireLock, FindItem, Download,
          PutTimesOut, UploadRejected, OpenSession, SendChunk, ChunkUnseen,
          ChunkRejected, CancelSession, Throttled, CallFails, graph
    <2> QED BY <2>2, <2>3
  <1>2. ASSUME NEW r \in Requests, LatePut(r) PROVE NoRowLost'
    BY <1>a, <1>2, <1>0, CommitLosesNothing DEF LatePut, Writing
  <1>3. ASSUME NEW p \in Saves, PersonSaves(p) PROVE NoRowLost'
    BY <1>a, <1>3, PersonAppends DEF PersonSaves, NoRowLost
  <1>4. CASE PersonDeletes
    BY <1>4 DEF PersonDeletes, NoRowLost
  <1>5. ASSUME NEW c \in Clients, WorkerDies(c) PROVE NoRowLost'
    BY <1>5, <1>0 DEF WorkerDies, graph
  <1>6. CASE UNCHANGED vars
    BY <1>6, <1>0 DEF vars, graph
  <1> QED BY <1>1, <1>2, <1>3, <1>4, <1>5, <1>6 DEF Next, Terminated

\* As long as files fit a single PUT, no row that a request or a person stored is
\* ever overwritten, whatever is lost, retried, late, deleted or killed: the
\* ETag precondition of _upload (sharepoint_client.py:578-581, 797) suffices.
THEOREM NothingOverwritten ==
  ASSUME SmallFiles
  PROVE  Spec => []NoRowLost
  <1>1. Init => NoRowLost
    BY DEF Init, NoRowLost
  <1>2. SmallLedgerInv /\ NoRowLost /\ [Next]_vars => NoRowLost'
    BY NextLosesNothing
  <1> QED BY <1>1, <1>2, AlwaysSmall, PTL DEF Spec


-----------------------------------------------------------------------------
(* The file is a ledger.                                                   *)

LEMMA CommitIsAdd ==
  ASSUME LedgerInv, NEW r \in Requests, Writing(r), Matches(r),
         CreateOnly(r) => ~file.exists, Commit(r),
         \/ answer[r] = "none" /\ \E a \in {"ok", "failed"} :
               answer' = [answer EXCEPT ![r] = a]
         \/ answer[r] \in {"none", "failed", "dropped"} /\ UNCHANGED answer
  PROVE  Ledger!Next
  <1>1. /\ r \in Rows /\ buf[r] \in Seq(Rows) /\ file.rows \in Seq(Rows)
        /\ file'.rows = Append(buf[r], r)
        /\ Kind[r] = "w" => buf[r] = <<>>
        /\ Kind[r] # "w" /\ file.rows # <<>> => buf[r] = file.rows
    BY CommitAppends
  <1>2. Kind[r] = "w" => file'.rows = <<r>>
    <2>1. Append(<<>>, r) = <<r>>
      OBVIOUS
    <2> QED BY <1>1, <2>1, Zenon
  <1>3. Kind[r] # "w" => Ledger!Extends(file.rows, file'.rows, r)
    <2>1. file'.rows # <<>> /\ file'.rows[Len(file'.rows)] = r
      BY <1>1, AppendProperties
    <2> QED BY <1>1, <2>1 DEF Ledger!Extends, Ledger!Last
  <1>4. Ledger!Add(r)
    BY <1>2, <1>3 DEF Ledger!Add
  <1> QED BY <1>4 DEF Ledger!Next

LEMMA FinishIsRefuse ==
  ASSUME LedgerInv, NEW r \in Requests, pc[r] \notin {"cancel", "done"},
         UNCHANGED file,
         NEW a \in {"conflict", "gave_up", "not_found", "too_large", "failed"},
         Finish(r, a)
  PROVE  Ledger!Next
  <1>1. answer[r] = "none"
    BY DEF LedgerInv, RequestInv, ProgressInv
  <1>2. Ledger!Refuse(r)
    BY <1>1 DEF Finish, Ledger!Refuse, Ledger!Refusals
  <1> QED BY <1>2 DEF Ledger!Next

LEMMA StepIsLedgerStep ==
  ASSUME SmallFiles, SmallLedgerInv, NEW r \in Requests, Step(r)
  PROVE  Ledger!Next \/ UNCHANGED <<file, answer>>
  <1> USE DEF SmallLedgerInv
  <1>1. pc[r] \notin {"chunk", "cancel"} /\ (pc[r] # "done" => answer[r] = "none")
    BY DEF SmallInv, LedgerInv, RequestInv, ProgressInv
  <1>2. IsSimple(r)
    BY SmallIsSimple
  <1>3. CASE CheckParent(r) \/ AcquireLock(r) \/ Throttled(r)
    BY <1>3 DEF CheckParent, AcquireLock, Throttled, Resend, graph
  <1>4. CASE CheckWorkbook(r)
    BY <1>4, FinishIsRefuse DEF CheckWorkbook, graph
  <1>5. CASE FindItem(r)
    BY <1>5, FinishIsRefuse DEF FindItem, graph
  <1>6. CASE Download(r)
    BY <1>6, FinishIsRefuse DEF Download, graph
  <1>7. CASE Put(r)
    BY <1>7, <1>1, CommitIsAdd DEF Put, Finish, Writing
  <1>8. CASE PutUnseen(r)
    BY <1>8, <1>1, CommitIsAdd DEF PutUnseen, Finish, Resend, Writing
  <1>9. CASE PutTimesOut(r)
    BY <1>9, FinishIsRefuse DEF PutTimesOut
  <1>10. CASE UploadRejected(r)
    BY <1>10, FinishIsRefuse DEF UploadRejected, ChangedMeanwhile, graph
  <1>11. CASE CallFails(r)
    BY <1>11, <1>1, FinishIsRefuse DEF CallFails, Calls, graph
  <1> QED
    BY <1>1, <1>2, <1>3, <1>4, <1>5, <1>6, <1>7, <1>8, <1>9, <1>10, <1>11
    DEF Step, OpenSession, SendChunk, ChunkUnseen, ChunkRejected, CancelSession

LEMMA NextIsLedgerStep ==
  ASSUME SmallFiles, SmallLedgerInv, [Next]_vars
  PROVE  [Ledger!Next]_<<file.rows, answer>>
  <1> USE DEF SmallLedgerInv
  <1>1. ASSUME NEW r \in Requests, Step(r)
        PROVE  Ledger!Next \/ UNCHANGED <<file, answer>>
    BY <1>1, StepIsLedgerStep
  <1>2. ASSUME NEW r \in Requests, LatePut(r)
        PROVE  Ledger!Next \/ UNCHANGED <<file, answer>>
    <2>1. answer[r] = "failed"
      BY <1>2 DEF LatePut, LedgerInv, RequestInv, ProgressInv
    <2> QED BY <1>2, <2>1, CommitIsAdd DEF LatePut, Writing
  <1>3. ASSUME NEW p \in Saves, PersonSaves(p) PROVE Ledger!Next
    BY <1>3 DEF PersonSaves, Ledger!Next, Ledger!PersonAdds
  <1>4. ASSUME PersonDeletes PROVE Ledger!Next
    BY <1>4 DEF PersonDeletes, Ledger!Next, Ledger!PersonWipes
  <1>5. ASSUME NEW c \in Clients, WorkerDies(c) PROVE Ledger!Next
    <2> DEFINE R == {r \in Requests : ClientOf[r] = c /\ InProgress(r)}
    <2>1. \A r \in R : answer[r] = "none"
      BY DEF InProgress, SmallInv, LedgerInv, RequestInv, ProgressInv
    <2>2. answer' = [r \in Requests |-> IF r \in R THEN "dropped" ELSE answer[r]]
      BY <1>5 DEF WorkerDies
    <2>3. R \in SUBSET {r \in Requests : answer[r] = "none"} /\ UNCHANGED file
      BY <1>5, <2>1 DEF WorkerDies, graph
    <2>4. Ledger!Drop
      BY <2>2, <2>3 DEF Ledger!Drop
    <2> QED BY <2>4 DEF Ledger!Next
  <1>6. CASE UNCHANGED vars
    BY <1>6 DEF vars, graph
  <1> QED BY <1>1, <1>2, <1>3, <1>4, <1>5, <1>6 DEF Next, Terminated

\* As long as files fit a single PUT, the gateway, Graph's lost and late answers,
\* the retries and the restarts together implement the atomic ledger: each row
\* is added in one step after all the rows that are there at that moment.
THEOREM LedgerImplemented ==
  ASSUME SmallFiles
  PROVE  Spec => ImplementsLedger
  <1>1. Init => Ledger!Init
    <2> SUFFICES ASSUME Init PROVE Ledger!Init
      OBVIOUS
    <2>1. <<>> \in Seq(Requests \cup (Saves \cup {Original}))
          /\ <<Original>> \in Seq(Requests \cup (Saves \cup {Original}))
      OBVIOUS
    <2>2. file.rows \in {<<>>, <<Original>>}
      BY DEF Init
    <2> QED BY <2>1, <2>2 DEF Init, Ledger!Init
  <1>2. SmallLedgerInv /\ [Next]_vars => [Ledger!Next]_<<file.rows, answer>>
    BY NextIsLedgerStep
  <1> QED BY <1>1, <1>2, AlwaysSmall, PTL DEF Spec, ImplementsLedger, Ledger!Spec

=============================================================================
