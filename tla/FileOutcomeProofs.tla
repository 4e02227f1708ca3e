------------------------- MODULE FileOutcomeProofs -------------------------
(***************************************************************************)
(* Theorems about how the requests of FileUpdate end, for files of every   *)
(* size (single PUTs and upload sessions), whatever is lost, late, retried,*)
(* deleted or killed:                                                      *)
(*   - AnswersAreTrue: what the caller is told is what happened;           *)
(*   - AppendsLandOnce: no retry of _send stores a piece twice;            *)
(*   - RetriesHaveACause, GivenUpForAReason: a row starts over, or is      *)
(*     given up, only when the file really changed under it.               *)
(* Each has a part of OutcomeInv of its own; the parts are inductive       *)
(* together with LockedInv of FileUpdateProofs.                            *)
(***************************************************************************)
EXTENDS FileUpdateProofs

\* Before a request ends nothing of it is stored, unless an answer was lost.
TruthInv(r) ==
    /\ r \in late => pc[r] = "done" /\ lost[r] > 0
    /\ pc[r] = "cancel" => answer[r] \in {"conflict", "failed"}
    /\ pc[r] = "done" /\ answer[r] = "ok" => landed[r] > 0
    /\ lost[r] = 0 /\ ~(pc[r] = "done" /\ answer[r] \in {"ok", "dropped"})
          => landed[r] = 0

\* A piece that mode "a" or "x" stored belongs to the file that is
\* there or to one that a person deleted; what could store it again is gone: the
\* version its If-Match header names, or its upload session.
OnceInv(r) ==
    /\ landed[r] <= deletions + (IF file.exists THEN 1 ELSE 0)
    /\ item[r].etag <= file.etag
    /\ landed[r] > 0 /\ item[r] # NoItem => item[r].etag < file.etag
    /\ pc[r] \notin {"require_workbook", "lock"}
    /\ pc[r] \in {"require_directory", "get_item", "download"} => landed[r] = 0
    /\ pc[r] = "upload" /\ ~IsSimple(r) => landed[r] = 0
    /\ pc[r] = "chunk" /\ session[r].open => landed[r] = 0

\* The file is as the request saw it in its lookup.
AsSeen(r) == file.exists /\ item[r].etag = file.etag

\* The file changed in every round of a row that is over, and in the one it is in
\* unless it is still as the row saw it.
RoundInv(r) ==
    /\ \A n \in 0 .. EXCEL_APPEND_ATTEMPTS - 1 : n < attempt[r] => n \in changed[r]
    /\ pc[r] \in {"download", "upload"} => AsSeen(r) \/ attempt[r] \in changed[r]
    /\ answer[r] = "gave_up" =>
          \A n \in 0 .. EXCEL_APPEND_ATTEMPTS - 1 : n \in changed[r]

\* A row that nobody outside its lock disturbs finds the version it saw.
QuietInv(r) ==
    /\ pc[r] \in {"download", "upload"} => AsSeen(r) \/ Disturbed(r)
    /\ attempt[r] > 0 => Disturbed(r)

\* Only rows start over or are given up.
WriteInv(r) == attempt[r] = 0 /\ answer[r] # "gave_up"

RequestOutcome(r) ==
    /\ TruthInv(r)
    /\ ~IsRow(r) => WriteInv(r)
    /\ Kind[r] \in {"a", "x"} => OnceInv(r)
    /\ IsRow(r) => RoundInv(r) /\ QuietInv(r)

OutcomeInv == LockedInv /\ \A r \in Requests : RequestOutcome(r)

-----------------------------------------------------------------------------
(* What a step does to the world, and what it leaves alone.                *)

\* The file stays, gets a new version, or is deleted by a person.
WorldMoves ==
    \/ UNCHANGED <<file, deletions, changed>>
    \/ /\ file'.exists /\ file'.etag = file.etag + 1 /\ UNCHANGED deletions
       /\ NoteChange
    \/ /\ file.exists /\ ~file'.exists /\ file'.etag = file.etag
       /\ deletions' = deletions + 1
       /\ NoteChange

\* What the histories say stays said.
HistoryGrows ==
    /\ saved \subseteq saved'
    /\ deletions <= deletions' /\ crashes <= crashes'
    /\ \A s \in Requests : lost[s] <= lost'[s] /\ landed[s] <= landed'[s]

\* A request that does not act.
Untouched(s) ==
    /\ pc'[s] = pc[s] /\ answer'[s] = answer[s]
    /\ item'[s] = item[s] /\ buf'[s] = buf[s] /\ attempt'[s] = attempt[s]
    /\ session'[s] = session[s] /\ (s \in late' <=> s \in late)
    /\ lost'[s] = lost[s] /\ landed'[s] = landed[s]

\* The parts of the type invariant that the arithmetic below needs.
LEMMA Numbers ==
  ASSUME LockedInv, NEW r \in Requests
  PROVE  /\ file.etag \in Nat /\ file.exists \in BOOLEAN /\ deletions \in Nat
         /\ crashes \in Nat /\ item[r].etag \in Nat /\ lost[r] \in Nat
         /\ landed[r] \in Nat /\ attempt[r] \in Nat
  BY LimitAssumption DEF LockedInv, TypeOK, GraphOK, MemoryOK, BoundsOK

\* What was disturbed stays disturbed.
LEMMA DisturbedStays ==
  ASSUME LockedInv, LockedInv', HistoryGrows, NEW r \in Requests, Disturbed(r)
  PROVE  Disturbed(r)'
  <1>1. \A s \in Requests :
           /\ lost[s] \in Nat /\ lost'[s] \in Nat /\ lost[s] <= lost'[s]
           /\ landed[s] \in Nat /\ landed'[s] \in Nat /\ landed[s] <= landed'[s]
    BY Numbers DEF HistoryGrows, LockedInv, TypeOK, GraphOK, BoundsOK
  <1>2. /\ deletions \in Nat /\ deletions' \in Nat /\ deletions <= deletions'
        /\ crashes \in Nat /\ crashes' \in Nat /\ crashes <= crashes'
        /\ saved \subseteq saved'
    BY DEF HistoryGrows, LockedInv, TypeOK, BoundsOK
  <1>3. \A s \in Requests :
           /\ lost[s] > 0 => lost'[s] > 0
           /\ landed[s] > 0 => landed'[s] > 0
    BY <1>1
  <1>4. /\ deletions > 0 => deletions' > 0
        /\ crashes > 0 => crashes' > 0
        /\ saved \cap Saves # {} => saved' \cap Saves # {}
    BY <1>2
  <1> QED BY <1>3, <1>4 DEF Disturbed, LockOf, IsRow

\* A request that does not act keeps its invariant, whatever happens to the file;
\* a row only when the change disturbs it.
LEMMA KeepOutcome ==
  ASSUME OutcomeInv, LockedInv', WorldMoves, HistoryGrows,
         NEW s \in Requests, Untouched(s),
         IsRow(s) /\ pc[s] \in {"download", "upload"}
            => UNCHANGED file \/ Disturbed(s)'
  PROVE  RequestOutcome(s)'
  <1>1. RequestOutcome(s) /\ LockedInv
    BY DEF OutcomeInv
  <1>2. /\ file.etag \in Nat /\ file.exists \in BOOLEAN /\ deletions \in Nat
        /\ item[s].etag \in Nat /\ landed[s] \in Nat /\ attempt[s] \in Nat
    BY <1>1, Numbers
  <1>3. TruthInv(s)' /\ (~IsRow(s) => WriteInv(s)')
    BY <1>1 DEF RequestOutcome, TruthInv, WriteInv, Untouched
  <1>4. ASSUME Kind[s] \in {"a", "x"} PROVE OnceInv(s)'
    <2>1. OnceInv(s)
      BY <1>1, <1>4 DEF RequestOutcome
    <2>2. /\ landed'[s] <= deletions' + (IF file'.exists THEN 1 ELSE 0)
          /\ item'[s].etag <= file'.etag
          /\ landed'[s] > 0 /\ item'[s] # NoItem => item'[s].etag < file'.etag
      BY <1>2, <2>1 DEF WorldMoves, OnceInv, Untouched
    <2>3. IsSimple(s)' <=> IsSimple(s)
      BY DEF IsSimple, Data, Untouched
    <2> QED BY <2>1, <2>2, <2>3 DEF OnceInv, Untouched
  <1>5. ASSUME IsRow(s) PROVE RoundInv(s)'
    <2>1. RoundInv(s)
      BY <1>1, <1>5 DEF RequestOutcome
    <2>2. CASE UNCHANGED <<file, changed>>
      BY <2>1, <2>2 DEF RoundInv, AsSeen, Untouched
    <2>3. CASE NoteChange
      <3>1. /\ changed[s] \subseteq changed'[s]
            /\ pc[s] \in {"download", "upload"} => attempt[s] \in changed'[s]
        BY <1>5, <2>3 DEF NoteChange, Underway
      <3> QED BY <2>1, <3>1 DEF RoundInv, Untouched
    <2> QED BY <2>2, <2>3 DEF WorldMoves
  <1>6. ASSUME IsRow(s) PROVE QuietInv(s)'
    <2>1. QuietInv(s)
      BY <1>1, <1>6 DEF RequestOutcome
    <2>2. Disturbed(s) => Disturbed(s)'
      BY <1>1, DisturbedStays
    <2> QED BY <1>6, <2>1, <2>2 DEF QuietInv, AsSeen, Untouched
  <1> QED BY <1>3, <1>4, <1>5, <1>6 DEF RequestOutcome, IsRow

\* Graph stores the content of a request.
LEMMA CommitEffect ==
  ASSUME LockedInv, NEW r \in Requests, Commit(r)
  PROVE  /\ file'.exists /\ file'.etag = file.etag + 1 /\ saved \subseteq saved'
         /\ landed'[r] = landed[r] + 1
         /\ \A s \in Requests \ {r} : landed'[s] = landed[s]
         /\ NoteChange
  BY DEF Commit, LockedInv, TypeOK, GraphOK

\* The ways to move on, one request at a time.
LEMMA MoveEffect ==
  ASSUME LockedInv, NEW r \in Requests
  PROVE  /\ \A step : Goto(r, step) => pc' = [pc EXCEPT ![r] = step] /\ pc'[r] = step
         /\ \A a : Finish(r, a) =>
               /\ pc' = [pc EXCEPT ![r] = "done"] /\ pc'[r] = "done"
               /\ answer' = [answer EXCEPT ![r] = a] /\ answer'[r] = a
         /\ \A a : Abort(r, a) =>
               /\ pc' = [pc EXCEPT ![r] = "cancel"] /\ pc'[r] = "cancel"
               /\ answer' = [answer EXCEPT ![r] = a] /\ answer'[r] = a
         /\ Resend(r) => UNCHANGED <<pc, answer>>
  BY DEF LockedInv, TypeOK, ControlOK, Goto, Finish, Abort, Resend

\* A content stored disturbs every row that is between its lookup and its upload,
\* but for the row that stored it: the lock keeps its own peers out.
LEMMA StoringDisturbs ==
  ASSUME OutcomeInv, LockedInv', HistoryGrows,
         NEW r \in Requests, NEW s \in Requests \ {r}, Commit(r),
         pc[r] \in {"upload", "chunk"} \/ lost[r] > 0,
         IsRow(s), pc[s] \in {"download", "upload"}
  PROVE  Disturbed(s)'
  <1>1. landed'[r] > 0
    BY CommitEffect, Numbers DEF OutcomeInv
  <1>2. CASE ~(IsRow(r) /\ LockOf(r) = LockOf(s))
    BY <1>1, <1>2 DEF Disturbed, IsRow, LockOf
  <1>3. CASE IsRow(r) /\ LockOf(r) = LockOf(s)
    <2>1. Holding(s) /\ AtFront(s)
      BY DEF OutcomeInv, LockedInv, LockInv, Holding
    <2>2. ~Holding(r)
      BY <1>3, <2>1 DEF OutcomeInv, LockedInv, LockInv, AtFront
    <2>3. lost[r] > 0
      BY <1>3, <2>2 DEF Holding
    <2>4. Disturbed(s)
      BY <1>3, <2>3 DEF Disturbed
    <2> QED BY <2>4, DisturbedStays DEF OutcomeInv
  <1> QED BY <1>2, <1>3

\* The steps of a request that leave the file as it is.
Quiet(r) ==
    /\ UNCHANGED <<file, saved, deletions, crashes, landed, changed>>
    /\ UNCHANGED lost \/ lost' = [lost EXCEPT ![r] = @ + 1]

\* The steps of a request that store its content.
Stores(r) ==
    /\ Commit(r) /\ pc[r] \in {"upload", "chunk"}
    /\ CreateOnly(r) => ~file.exists
    /\ UNCHANGED outside
    /\ UNCHANGED lost \/ lost' = [lost EXCEPT ![r] = @ + 1]

LEMMA FrameWorld ==
  ASSUME LockedInv, NEW r \in Requests, Quiet(r) \/ Stores(r)
  PROVE  WorldMoves /\ HistoryGrows
         /\ \A s \in Requests \ {r} : lost'[s] = lost[s] /\ landed'[s] = landed[s]
  <1>1. /\ \A s \in Requests : lost[s] \in Nat /\ lost[s] <= lost'[s]
        /\ \A s \in Requests \ {r} : lost'[s] = lost[s]
    <2>1. lost \in [Requests -> Nat]
      BY LimitAssumption DEF LockedInv, TypeOK, BoundsOK
    <2> QED BY <2>1 DEF Quiet, Stores
  <1>2. deletions \in Nat /\ crashes \in Nat /\ file.etag \in Nat
    BY Numbers
  <1>3. \A s \in Requests : landed[s] \in Nat
    BY Numbers
  <1>4. CASE Quiet(r)
    <2>1. WorldMoves
      BY <1>4 DEF Quiet, WorldMoves
    <2>2. HistoryGrows
      BY <1>1, <1>2, <1>3, <1>4 DEF Quiet, HistoryGrows
    <2> QED BY <1>1, <1>4, <2>1, <2>2 DEF Quiet
  <1>5. CASE Stores(r)
    <2>1. /\ file'.exists /\ file'.etag = file.etag + 1 /\ saved \subseteq saved'
          /\ landed'[r] = landed[r] + 1
          /\ \A s \in Requests \ {r} : landed'[s] = landed[s]
          /\ UNCHANGED <<deletions, crashes>> /\ NoteChange
      BY <1>5, CommitEffect DEF Stores, outside
    <2>2. WorldMoves
      BY <2>1 DEF WorldMoves
    <2>3. \A s \in Requests : landed[s] <= landed'[s]
      BY <1>3, <2>1
    <2>4. HistoryGrows
      BY <1>1, <1>2, <2>1, <2>3 DEF HistoryGrows
    <2> QED BY <1>1, <2>1, <2>2, <2>4
  <1> QED BY <1>4, <1>5

\* A step of a request touches no other request and stores at most its content.
LEMMA StepFrame ==
  ASSUME LockedInv, NEW r \in Requests, Step(r)
  PROVE  /\ Quiet(r) \/ Stores(r)
         /\ \A s \in Requests \ {r} :
               /\ pc'[s] = pc[s] /\ answer'[s] = answer[s]
               /\ item'[s] = item[s] /\ buf'[s] = buf[s] /\ attempt'[s] = attempt[s]
               /\ session'[s] = session[s] /\ (s \in late' <=> s \in late)
  <1> USE DEF Quiet, Stores, graph, memory, outside
  <1>0. /\ pc \in [Requests -> Calls \cup {"lock", "done"}]
        /\ answer \in [Requests -> Answers]
        /\ item \in [Requests -> [id: Nat, etag: Nat, size: Nat]]
        /\ buf \in [Requests -> Seq(Rows)]
        /\ attempt \in [Requests -> 0 .. EXCEL_APPEND_ATTEMPTS - 1]
        /\ session \in [Requests -> [open: BOOLEAN, got: Nat, version: Nat]]
    BY DEF LockedInv, TypeOK, ControlOK, MemoryOK, GraphOK
  <1>a. \A step : Goto(r, step) => pc' = [pc EXCEPT ![r] = step]
    BY MoveEffect
  <1>b. \A a : Finish(r, a) => /\ pc' = [pc EXCEPT ![r] = "done"]
                               /\ answer' = [answer EXCEPT ![r] = a]
    BY MoveEffect
  <1>c. \A a : Abort(r, a) => /\ pc' = [pc EXCEPT ![r] = "cancel"]
                              /\ answer' = [answer EXCEPT ![r] = a]
    BY MoveEffect
  <1>d. Resend(r) => UNCHANGED <<pc, answer>>
    BY MoveEffect
  <1>1. CASE CheckParent(r) \/ AcquireLock(r)
    BY <1>0, <1>1, <1>a DEF CheckParent, AcquireLock
  <1>2. CASE CheckWorkbook(r)
    BY <1>0, <1>2, <1>a, <1>b DEF CheckWorkbook
  <1>3. CASE FindItem(r)
    BY <1>0, <1>3, <1>a, <1>b DEF FindItem
  <1>4. CASE Download(r)
    BY <1>0, <1>4, <1>a, <1>b DEF Download
  <1>5. CASE Put(r)
    BY <1>0, <1>5, <1>b DEF Put
  <1>6. CASE PutUnseen(r)
    BY <1>0, <1>6, <1>b, <1>d DEF PutUnseen
  <1>7. CASE PutTimesOut(r)
    BY <1>0, <1>7, <1>b DEF PutTimesOut
  <1>8. CASE UploadRejected(r)
    BY <1>0, <1>8, <1>a, <1>b DEF UploadRejected, ChangedMeanwhile
  <1>9. CASE OpenSession(r)
    BY <1>0, <1>9, <1>a DEF OpenSession
  <1>10. CASE SendChunk(r)
    BY <1>0, <1>10, <1>a, <1>b DEF SendChunk, KeepPart, CommitSession
  <1>11. CASE ChunkUnseen(r)
    BY <1>0, <1>11, <1>c, <1>d DEF ChunkUnseen, KeepPart, CommitSession
  <1>12. CASE ChunkRejected(r)
    BY <1>0, <1>12, <1>c DEF ChunkRejected
  <1>13. CASE CancelSession(r)
    BY <1>0, <1>13, <1>b DEF CancelSession
  <1>14. CASE Throttled(r)
    BY <1>0, <1>14, <1>d DEF Throttled
  <1>15. CASE CallFails(r)
    BY <1>0, <1>15, <1>b, <1>c DEF CallFails
  <1> QED BY <1>1, <1>2, <1>3, <1>4, <1>5, <1>6, <1>7, <1>8, <1>9, <1>10, <1>11,
             <1>12, <1>13, <1>14, <1>15 DEF Step

-----------------------------------------------------------------------------
(* The request that acts, one part of its invariant at a time.             *)

LEMMA OnlyTheRunningAct ==
  ASSUME NEW r \in Requests, Step(r)
  PROVE  pc[r] # "done"
  BY DEF Step, CheckParent, CheckWorkbook, AcquireLock, FindItem, Download, Put,
         PutUnseen, PutTimesOut, UploadRejected, OpenSession, SendChunk, ChunkUnseen,
         ChunkRejected, CancelSession, Throttled, CallFails, Calls

LEMMA StepTruth ==
  ASSUME LockedInv, NEW r \in Requests, TruthInv(r), Step(r)
  PROVE  TruthInv(r)'
  <1> USE DEF graph, memory, outside
  <1>0. pc[r] # "done" /\ r \notin late
    BY OnlyTheRunningAct DEF TruthInv
  <1>1. lost[r] \in Nat /\ landed[r] \in Nat
    BY Numbers
  <1>2. lost' = [lost EXCEPT ![r] = @ + 1] => lost'[r] > 0
    BY <1>1 DEF LockedInv, TypeOK, BoundsOK
  <1>3. Commit(r) => landed'[r] > 0
    BY <1>1, CommitEffect
  <1>a. \A step : Goto(r, step) => pc'[r] = step
    BY MoveEffect
  <1>b. \A a : Finish(r, a) => pc'[r] = "done" /\ answer'[r] = a
    BY MoveEffect
  <1>c. \A a : Abort(r, a) => pc'[r] = "cancel" /\ answer'[r] = a
    BY MoveEffect
  <1>d. Resend(r) => UNCHANGED <<pc, answer>>
    BY MoveEffect
  <1> USE DEF TruthInv
  <1>4. CASE CheckParent(r) \/ AcquireLock(r)
    BY <1>0, <1>4, <1>a DEF CheckParent, AcquireLock
  <1>5. CASE CheckWorkbook(r)
    BY <1>0, <1>5, <1>a, <1>b DEF CheckWorkbook
  <1>6. CASE FindItem(r)
    BY <1>0, <1>6, <1>a, <1>b DEF FindItem
  <1>7. CASE Download(r)
    BY <1>0, <1>7, <1>a, <1>b DEF Download
  <1>8. CASE Put(r)
    BY <1>0, <1>3, <1>8, <1>b DEF Put
  <1>9. CASE PutUnseen(r)
    BY <1>0, <1>2, <1>9, <1>b, <1>d DEF PutUnseen
  <1>10. CASE PutTimesOut(r)
    BY <1>0, <1>2, <1>10, <1>b DEF PutTimesOut
  <1>11. CASE UploadRejected(r)
    BY <1>0, <1>11, <1>a, <1>b DEF UploadRejected, ChangedMeanwhile
  <1>12. CASE OpenSession(r)
    BY <1>0, <1>12, <1>a DEF OpenSession
  <1>13. CASE SendChunk(r)
    BY <1>0, <1>3, <1>13, <1>a, <1>b DEF SendChunk, KeepPart, CommitSession
  <1>14. CASE ChunkUnseen(r)
    BY <1>0, <1>2, <1>14, <1>c, <1>d DEF ChunkUnseen, KeepPart, CommitSession
  <1>15. CASE ChunkRejected(r)
    BY <1>0, <1>15, <1>c DEF ChunkRejected
  <1>16. CASE CancelSession(r)
    BY <1>0, <1>16, <1>b DEF CancelSession
  <1>17. CASE Throttled(r)
    BY <1>0, <1>17, <1>d DEF Throttled
  <1>18. CASE CallFails(r)
    BY <1>0, <1>18, <1>b, <1>c DEF CallFails
  <1> QED BY <1>4, <1>5, <1>6, <1>7, <1>8, <1>9, <1>10, <1>11, <1>12, <1>13, <1>14,
             <1>15, <1>16, <1>17, <1>18 DEF Step

\* A single PUT of mode "a" or "x" that Graph accepts finds no copy of the piece in
\* the file: the first one would have made the ETag in its If-Match header stale.
LEMMA AcceptedPutIsFirst ==
  ASSUME LockedInv, NEW r \in Requests, Kind[r] \in {"a", "x"}, OnceInv(r),
         Matches(r), CreateOnly(r) => ~file.exists, file.exists
  PROVE  landed[r] = 0
  <1>1. item[r] # NoItem /\ item[r].etag = file.etag
    BY DEF CreateOnly, Matches
  <1>2. landed[r] \in Nat /\ file.etag \in Nat
    BY Numbers
  <1> QED BY <1>1, <1>2 DEF OnceInv

\* Storing a piece of which no copy is in the file keeps the count.
LEMMA StoringKeepsCount ==
  ASSUME LockedInv, NEW r \in Requests, OnceInv(r), Commit(r),
         file.exists => landed[r] = 0, UNCHANGED <<item, deletions>>
  PROVE  /\ landed'[r] <= deletions' + (IF file'.exists THEN 1 ELSE 0)
         /\ item'[r].etag <= file'.etag
         /\ landed'[r] > 0 /\ item'[r] # NoItem => item'[r].etag < file'.etag
  <1>1. /\ landed[r] \in Nat /\ file.etag \in Nat /\ deletions \in Nat
        /\ item[r].etag \in Nat /\ file.exists \in BOOLEAN
    BY Numbers
  <1>2. file'.exists /\ file'.etag = file.etag + 1 /\ landed'[r] = landed[r] + 1
    BY CommitEffect
  <1> QED BY <1>1, <1>2 DEF OnceInv

LEMMA StepOnce ==
  ASSUME LockedInv, NEW r \in Requests, Kind[r] \in {"a", "x"}, OnceInv(r), Step(r)
  PROVE  OnceInv(r)'
  <1> USE DEF graph, memory, outside
  <1>0. ~IsRow(r)
    BY DEF IsRow
  <1>1. /\ landed[r] \in Nat /\ file.etag \in Nat /\ deletions \in Nat
        /\ item[r].etag \in Nat /\ file.exists \in BOOLEAN
    BY Numbers
  <1>2. UNCHANGED buf => (IsSimple(r)' <=> IsSimple(r))
    BY DEF IsSimple, Data
  <1>a. \A step : Goto(r, step) => pc'[r] = step
    BY MoveEffect
  <1>b. \A a : Finish(r, a) => pc'[r] = "done"
    BY MoveEffect
  <1>c. \A a : Abort(r, a) => pc'[r] = "cancel"
    BY MoveEffect
  <1>d. Resend(r) => UNCHANGED pc
    BY MoveEffect
  <1>e. session' = [session EXCEPT ![r] = Closed] => ~session'[r].open
    BY DEF Closed, LockedInv, TypeOK, GraphOK
  <1>4. CASE CheckParent(r) \/ AcquireLock(r)
    BY <1>0, <1>2, <1>4, <1>a DEF CheckParent, AcquireLock, OnceInv
  <1>5. CASE CheckWorkbook(r)
    BY <1>0, <1>5, <1>a, <1>b DEF CheckWorkbook, OnceInv
  <1>6. CASE FindItem(r)
    <2>1. landed[r] = 0
      BY <1>6 DEF FindItem, OnceInv
    <2>2. item'[r].etag <= file.etag
      <3>1. CASE UNCHANGED item
        BY <3>1 DEF OnceInv
      <3>2. CASE item' = [item EXCEPT ![r] = [id |-> file.id, etag |-> file.etag,
                                              size |-> Len(file.rows)]]
        <4>1. item'[r].etag = file.etag
          BY <3>2 DEF LockedInv, TypeOK, MemoryOK
        <4> QED BY <1>1, <4>1
      <3> QED BY <1>6, <3>1, <3>2 DEF FindItem
    <2>3. UNCHANGED <<file, deletions, landed>> /\ pc'[r] \in {"download", "upload", "done"}
      BY <1>6, <1>a, <1>b DEF FindItem
    <2> QED BY <1>1, <2>1, <2>2, <2>3 DEF OnceInv
  <1>7. CASE Download(r)
    <2>1. landed[r] = 0 /\ pc'[r] \in {"upload", "done"}
      BY <1>7, <1>a, <1>b DEF Download, OnceInv
    <2> QED BY <1>1, <1>7, <2>1 DEF Download, OnceInv
  <1>8. CASE Put(r)
    <2>1. file.exists => landed[r] = 0
      BY <1>8, AcceptedPutIsFirst DEF Put
    <2> QED BY <1>8, <1>b, <2>1, StoringKeepsCount DEF Put, OnceInv
  <1>9. CASE PutUnseen(r)
    <2>1. file.exists => landed[r] = 0
      BY <1>9, AcceptedPutIsFirst DEF PutUnseen
    <2> QED BY <1>2, <1>9, <1>b, <1>d, <2>1, StoringKeepsCount DEF PutUnseen, OnceInv
  <1>10. CASE PutTimesOut(r)
    BY <1>10, <1>b DEF PutTimesOut, OnceInv
  <1>11. CASE UploadRejected(r)
    BY <1>0, <1>11, <1>b DEF UploadRejected, ChangedMeanwhile, OnceInv
  <1>12. CASE OpenSession(r)
    BY <1>12, <1>a DEF OpenSession, OnceInv
  <1>13. CASE SendChunk(r)
    <2>1. landed[r] = 0
      BY <1>13 DEF SendChunk, InOrder, OnceInv
    <2>2. CASE KeepPart(r) /\ Goto(r, "chunk")
      BY <1>13, <1>a, <2>1, <2>2 DEF SendChunk, KeepPart, OnceInv
    <2>3. CASE CommitSession(r) /\ Finish(r, "ok")
      BY <1>13, <1>b, <2>1, <2>3, StoringKeepsCount DEF SendChunk, CommitSession, OnceInv
    <2> QED BY <1>13, <2>2, <2>3 DEF SendChunk
  <1>14. CASE ChunkUnseen(r)
    <2>1. landed[r] = 0 /\ pc[r] = "chunk"
      BY <1>14 DEF ChunkUnseen, InOrder, OnceInv
    <2>2. pc'[r] \in {"chunk", "cancel"}
      BY <1>14, <1>c, <1>d, <2>1 DEF ChunkUnseen
    <2>3. CASE KeepPart(r)
      BY <1>14, <2>1, <2>2, <2>3 DEF ChunkUnseen, KeepPart, OnceInv
    <2>4. CASE CommitSession(r)
      BY <1>14, <1>e, <2>1, <2>2, <2>4, StoringKeepsCount
      DEF ChunkUnseen, CommitSession, OnceInv
    <2> QED BY <1>14, <2>3, <2>4 DEF ChunkUnseen
  <1>15. CASE ChunkRejected(r)
    BY <1>15, <1>c DEF ChunkRejected, OnceInv
  <1>16. CASE CancelSession(r)
    BY <1>16, <1>b DEF CancelSession, OnceInv
  <1>17. CASE Throttled(r)
    BY <1>2, <1>17, <1>d DEF Throttled, OnceInv
  <1>18. CASE CallFails(r)
    BY <1>18, <1>b, <1>c DEF CallFails, OnceInv
  <1> QED BY <1>4, <1>5, <1>6, <1>7, <1>8, <1>9, <1>10, <1>11, <1>12, <1>13, <1>14,
             <1>15, <1>16, <1>17, <1>18 DEF Step

\* A row that graph answers with 412 does not find the version it saw.
LEMMA RejectedMeansChanged ==
  ASSUME NEW r \in Requests, IsRow(r), UploadRejected(r)
  PROVE  ~AsSeen(r) /\ ChangedMeanwhile(r)
  BY DEF UploadRejected, MayMismatch, AsSeen, CreateOnly, IsRow

\* A row's step that changes neither its round nor the file.
LEMMA SameRound ==
  ASSUME LockedInv, NEW r \in Requests, RoundInv(r), Quiet(r),
         UNCHANGED <<item, attempt>>,
         pc'[r] \in {"download", "upload"} => pc[r] \in {"download", "upload"},
         answer'[r] = "gave_up" => answer[r] = "gave_up"
  PROVE  RoundInv(r)'
  BY DEF RoundInv, Quiet, AsSeen

LEMMA StepRound ==
  ASSUME LockedInv, NEW r \in Requests, IsRow(r), TruthInv(r), RoundInv(r), Step(r)
  PROVE  RoundInv(r)'
  <1> USE DEF graph, memory, outside
  <1>1. /\ file.etag \in Nat /\ deletions \in Nat /\ attempt[r] \in Nat
        /\ item[r].etag \in Nat
    BY Numbers
  <1>2. Quiet(r) \/ Stores(r)
    BY StepFrame
  <1>a. \A step : Goto(r, step) => pc'[r] = step
    BY MoveEffect
  <1>b. \A a : Finish(r, a) => pc'[r] = "done" /\ answer'[r] = a
    BY MoveEffect
  <1>c. \A a : Abort(r, a) => pc'[r] = "cancel" /\ answer'[r] = a
    BY MoveEffect
  <1>d. Resend(r) => UNCHANGED <<pc, answer>>
    BY MoveEffect
  <1>3. ASSUME Commit(r), UNCHANGED attempt,
               pc'[r] \in {"download", "upload"} => pc[r] \in {"download", "upload"},
               answer'[r] = "gave_up" => answer[r] = "gave_up"
        PROVE  RoundInv(r)'
    <2>1. NoteChange
      BY <1>3, CommitEffect
    <2>2. /\ changed[r] \subseteq changed'[r]
          /\ pc[r] \in {"download", "upload"} => attempt[r] \in changed'[r]
      BY <2>1 DEF NoteChange, Underway
    <2> QED BY <1>3, <2>2 DEF RoundInv
  <1>4. CASE CheckParent(r)
    BY <1>4 DEF CheckParent
  <1>5. CASE CheckWorkbook(r)
    BY <1>5, <1>a, <1>b, SameRound DEF CheckWorkbook, Quiet
  <1>6. CASE AcquireLock(r)
    BY <1>6, <1>a, SameRound DEF AcquireLock, Quiet
  <1>7. CASE FindItem(r)
    <2>1. CASE /\ file.exists /\ Goto(r, "download") /\ UNCHANGED answer
               /\ item' = [item EXCEPT ![r] = [id |-> file.id, etag |-> file.etag,
                                               size |-> Len(file.rows)]]
      <3>1. item'[r].etag = file.etag
        BY <2>1 DEF LockedInv, TypeOK, MemoryOK
      <3> QED BY <1>7, <2>1, <3>1 DEF FindItem, RoundInv, AsSeen
    <2>2. CASE Finish(r, "not_found") /\ UNCHANGED item
      BY <1>7, <1>b, <2>2, SameRound DEF FindItem, Quiet
    <2> QED BY <1>7, <2>1, <2>2 DEF FindItem
  <1>8. CASE Download(r)
    BY <1>8, <1>a, <1>b, SameRound DEF Download, Quiet
  <1>9. CASE Put(r)
    BY <1>3, <1>9, <1>b DEF Put
  <1>10. CASE PutUnseen(r)
    BY <1>3, <1>10, <1>b, <1>d DEF PutUnseen
  <1>11. CASE PutTimesOut(r)
    <2>1. Quiet(r)
      BY <1>11 DEF PutTimesOut, Quiet
    <2> QED BY <1>11, <1>b, <2>1, SameRound DEF PutTimesOut
  <1>12. CASE UploadRejected(r)
    <2>1. attempt[r] \in changed[r]
      BY <1>12, RejectedMeansChanged DEF UploadRejected, RoundInv
    <2>2. UNCHANGED <<file, item, changed>>
      BY <1>12 DEF UploadRejected
    <2>3. CASE Goto(r, "get_item") /\ UNCHANGED answer
               /\ attempt' = [attempt EXCEPT ![r] = @ + 1]
      <3>1. attempt'[r] = attempt[r] + 1 /\ pc'[r] = "get_item"
        BY <1>a, <2>3 DEF LockedInv, TypeOK, MemoryOK
      <3>2. \A n \in 0 .. EXCEL_APPEND_ATTEMPTS - 1 :
               n < attempt'[r] => n < attempt[r] \/ n = attempt[r]
        BY <1>1, <3>1
      <3> QED BY <2>1, <2>2, <2>3, <3>1, <3>2 DEF RoundInv
    <2>4. CASE Finish(r, "gave_up") /\ UNCHANGED attempt
               /\ attempt[r] = EXCEL_APPEND_ATTEMPTS - 1
      <3>1. \A n \in 0 .. EXCEL_APPEND_ATTEMPTS - 1 : n \in changed[r]
        BY <1>1, <2>1, <2>4, LimitAssumption DEF RoundInv
      <3> QED BY <1>b, <2>2, <2>4, <3>1 DEF RoundInv
    <2> QED BY <1>12, <2>3, <2>4, RejectedMeansChanged DEF ChangedMeanwhile
  <1>13. CASE OpenSession(r)
    BY <1>13, <1>a, SameRound DEF OpenSession, Quiet
  <1>14. CASE SendChunk(r)
    <2>1. CASE KeepPart(r) /\ Goto(r, "chunk") /\ UNCHANGED answer
      BY <1>14, <1>a, <2>1, SameRound DEF SendChunk, KeepPart, Quiet
    <2>2. CASE CommitSession(r) /\ Finish(r, "ok")
      BY <1>3, <1>14, <1>b, <2>2 DEF SendChunk, CommitSession
    <2> QED BY <1>14, <2>1, <2>2 DEF SendChunk
  <1>15. CASE ChunkUnseen(r)
    <2>1. /\ answer'[r] = "gave_up" => answer[r] = "gave_up"
          /\ pc'[r] \in {"chunk", "cancel"}
      BY <1>15, <1>c, <1>d DEF ChunkUnseen
    <2>2. CASE KeepPart(r)
      BY <1>2, <1>15, <2>1, <2>2, SameRound DEF ChunkUnseen, KeepPart, Quiet
    <2>3. CASE CommitSession(r)
      BY <1>3, <1>15, <2>1, <2>3 DEF ChunkUnseen, CommitSession
    <2> QED BY <1>15, <2>2, <2>3 DEF ChunkUnseen
  <1>16. CASE ChunkRejected(r)
    BY <1>16, <1>c, SameRound DEF ChunkRejected, Quiet
  <1>17. CASE CancelSession(r)
    BY <1>17, <1>b, SameRound DEF CancelSession, Quiet
  <1>18. CASE Throttled(r)
    BY <1>18, <1>d, SameRound DEF Throttled, Quiet
  <1>19. CASE CallFails(r)
    BY <1>19, <1>b, <1>c, SameRound DEF CallFails, Quiet
  <1> QED BY <1>4, <1>5, <1>6, <1>7, <1>8, <1>9, <1>10, <1>11, <1>12, <1>13, <1>14,
             <1>15, <1>16, <1>17, <1>18, <1>19 DEF Step

\* A row's step that leaves it disturbed or with what it saw.
LEMMA SameQuiet ==
  ASSUME LockedInv, LockedInv', NEW r \in Requests, QuietInv(r), HistoryGrows,
         UNCHANGED attempt,
         \/ pc'[r] \notin {"download", "upload"}
         \/ UNCHANGED <<file, item>> /\ pc[r] \in {"download", "upload"}
         \/ AsSeen(r)'
  PROVE  QuietInv(r)'
  <1>1. Disturbed(r) => Disturbed(r)'
    BY DisturbedStays
  <1> QED BY <1>1 DEF QuietInv, AsSeen

LEMMA StepQuiet ==
  ASSUME LockedInv, LockedInv', NEW r \in Requests, IsRow(r), QuietInv(r), Step(r)
  PROVE  QuietInv(r)'
  <1> USE DEF graph, memory, outside
  <1>1. HistoryGrows
    BY StepFrame, FrameWorld
  <1>2. lost' = [lost EXCEPT ![r] = @ + 1] => Disturbed(r)'
    <2>1. lost[r] \in Nat
      BY Numbers
    <2>2. lost' = [lost EXCEPT ![r] = @ + 1] => lost'[r] > 0
      BY <2>1 DEF LockedInv, TypeOK, BoundsOK
    <2> QED BY <2>2 DEF Disturbed, LockOf
  <1>a. \A step : Goto(r, step) => pc'[r] = step
    BY MoveEffect
  <1>b. \A a : Finish(r, a) => pc'[r] = "done"
    BY MoveEffect
  <1>c. \A a : Abort(r, a) => pc'[r] = "cancel"
    BY MoveEffect
  <1>d. Resend(r) => UNCHANGED pc
    BY MoveEffect
  <1>3. CASE CheckParent(r)
    BY <1>3 DEF CheckParent
  <1>4. CASE CheckWorkbook(r)
    BY <1>1, <1>4, <1>a, <1>b, SameQuiet DEF CheckWorkbook
  <1>5. CASE AcquireLock(r)
    BY <1>1, <1>5, <1>a, SameQuiet DEF AcquireLock
  <1>6. CASE FindItem(r)
    <2>1. CASE /\ file.exists /\ Goto(r, "download")
               /\ item' = [item EXCEPT ![r] = [id |-> file.id, etag |-> file.etag,
                                               size |-> Len(file.rows)]]
      <3>1. item'[r].etag = file.etag
        BY <2>1 DEF LockedInv, TypeOK, MemoryOK
      <3>2. AsSeen(r)'
        BY <1>6, <2>1, <3>1 DEF FindItem, AsSeen
      <3> QED BY <1>1, <1>6, <3>2, SameQuiet DEF FindItem
    <2>2. CASE Finish(r, "not_found")
      BY <1>1, <1>6, <1>b, <2>2, SameQuiet DEF FindItem
    <2> QED BY <1>6, <2>1, <2>2 DEF FindItem
  <1>7. CASE Download(r)
    BY <1>1, <1>7, <1>a, <1>b, SameQuiet DEF Download
  <1>8. CASE Put(r)
    BY <1>1, <1>8, <1>b, SameQuiet DEF Put
  <1>9. CASE PutUnseen(r) \/ PutTimesOut(r) \/ ChunkUnseen(r)
    BY <1>2, <1>9 DEF PutUnseen, PutTimesOut, ChunkUnseen, QuietInv
  <1>10. CASE UploadRejected(r)
    <2>1. Disturbed(r)
      BY <1>10, RejectedMeansChanged DEF UploadRejected, QuietInv
    <2>2. Disturbed(r)'
      BY <1>1, <2>1, DisturbedStays
    <2> QED BY <2>2 DEF QuietInv
  <1>11. CASE OpenSession(r)
    BY <1>1, <1>11, <1>a, SameQuiet DEF OpenSession
  <1>12. CASE SendChunk(r)
    BY <1>1, <1>12, <1>a, <1>b, SameQuiet DEF SendChunk
  <1>13. CASE ChunkRejected(r)
    BY <1>1, <1>13, <1>c, SameQuiet DEF ChunkRejected
  <1>14. CASE CancelSession(r)
    BY <1>1, <1>14, <1>b, SameQuiet DEF CancelSession
  <1>15. CASE Throttled(r)
    BY <1>1, <1>15, <1>d, SameQuiet DEF Throttled
  <1>16. CASE CallFails(r)
    BY <1>1, <1>16, <1>b, <1>c, SameQuiet DEF CallFails
  <1> QED BY <1>3, <1>4, <1>5, <1>6, <1>7, <1>8, <1>9, <1>10, <1>11, <1>12, <1>13,
             <1>14, <1>15, <1>16 DEF Step

LEMMA StepWrite ==
  ASSUME LockedInv, NEW r \in Requests, ~IsRow(r), WriteInv(r), Step(r)
  PROVE  WriteInv(r)'
  <1> USE DEF memory, WriteInv
  <1>b. \A a : Finish(r, a) => answer'[r] = a
    BY MoveEffect
  <1>c. \A a : Abort(r, a) => answer'[r] = a
    BY MoveEffect
  <1>d. Resend(r) => UNCHANGED answer
    BY MoveEffect
  <1>1. UNCHANGED attempt
    BY DEF Step, CheckParent, CheckWorkbook, AcquireLock, FindItem, Download, Put,
           PutUnseen, PutTimesOut, UploadRejected, ChangedMeanwhile, OpenSession,
           SendChunk, ChunkUnseen, ChunkRejected, CancelSession, Throttled, CallFails
  <1>2. UNCHANGED answer \/ answer'[r] # "gave_up"
    BY <1>b, <1>c, <1>d
    DEF Step, CheckParent, CheckWorkbook, AcquireLock, FindItem, Download, Put,
        PutUnseen, PutTimesOut, UploadRejected, ChangedMeanwhile, OpenSession,
        SendChunk, ChunkUnseen, ChunkRejected, CancelSession, Throttled, CallFails
  <1> QED BY <1>1, <1>2

-----------------------------------------------------------------------------
(* The invariant, and what follows from it.                                *)

LEMMA InitOutcome == Init => OutcomeInv
  <1> SUFFICES ASSUME Init PROVE OutcomeInv
    OBVIOUS
  <1>1. LockedInv
    BY InitLocked
  <1>2. file.etag = 1 /\ deletions = 0
    BY DEF Init
  <1>3. ASSUME NEW r \in Requests PROVE RequestOutcome(r)
    <2>1. /\ pc[r] = FirstStep(r) /\ answer[r] = "none" /\ attempt[r] = 0
          /\ item[r] = NoItem /\ landed[r] = 0 /\ r \notin late
      BY DEF Init
    <2>2. pc[r] \in {"require_workbook", "require_directory"}
      BY <2>1 DEF FirstStep
    <2>3. TruthInv(r)
      BY <2>1, <2>2 DEF TruthInv
    <2>4. ~IsRow(r) => OnceInv(r)
      BY <1>2, <2>1 DEF OnceInv, NoItem, FirstStep
    <2>5. RoundInv(r) /\ QuietInv(r) /\ WriteInv(r)
      BY <1>2, <2>1, <2>2 DEF RoundInv, QuietInv, WriteInv
    <2> QED BY <2>3, <2>4, <2>5 DEF RequestOutcome, IsRow
  <1> QED BY <1>1, <1>3 DEF OutcomeInv

LEMMA StepOutcome ==
  ASSUME OutcomeInv, NEW r \in Requests, Step(r)
  PROVE  OutcomeInv'
  <1>1. LockedInv /\ LockedInv' /\ RequestOutcome(r)
    BY StepLocked DEF OutcomeInv
  <1>2. RequestOutcome(r)'
    BY <1>1, StepTruth, StepWrite, StepOnce, StepRound, StepQuiet
    DEF RequestOutcome, IsRow
  <1>3. Quiet(r) \/ Stores(r)
    BY <1>1, StepFrame
  <1>4. WorldMoves /\ HistoryGrows
    BY <1>1, <1>3, FrameWorld
  <1>5. ASSUME NEW s \in Requests \ {r} PROVE RequestOutcome(s)'
    <2>1. Untouched(s)
      BY <1>1, <1>3, StepFrame, FrameWorld DEF Untouched
    <2>2. IsRow(s) /\ pc[s] \in {"download", "upload"}
             => UNCHANGED file \/ Disturbed(s)'
      BY <1>1, <1>3, <1>4, StoringDisturbs DEF Quiet, Stores
    <2> QED BY <1>1, <1>4, <2>1, <2>2, KeepOutcome
  <1> QED BY <1>1, <1>2, <1>5 DEF OutcomeInv

LEMMA LatePutOutcome ==
  ASSUME OutcomeInv, NEW r \in Requests, LatePut(r)
  PROVE  OutcomeInv'
  <1> USE DEF memory, outside
  <1>1. LockedInv /\ RequestOutcome(r)
    BY DEF OutcomeInv
  <1>2. LockedInv'
    BY <1>1, NextLocked DEF Next
  <1>3. pc[r] = "done" /\ lost[r] > 0 /\ r \in late /\ r \notin late'
    BY <1>1 DEF LatePut, RequestOutcome, TruthInv
  <1>4. UNCHANGED <<pc, answer, attempt, item, buf, session, lost, deletions, crashes>>
    BY DEF LatePut
  <1>5. \A s \in Requests \ {r} : s \in late' <=> s \in late
    BY DEF LatePut
  <1>6. \A s \in Requests : landed[s] \in Nat /\ lost[s] \in Nat
    BY <1>1, Numbers
  <1>7. /\ landed[r] \in Nat /\ file.etag \in Nat /\ deletions \in Nat
        /\ attempt[r] \in Nat /\ item[r].etag \in Nat /\ crashes \in Nat
    BY <1>1, Numbers
  <1>8. CASE UNCHANGED <<file, saved, landed, changed>>
    <2>1. WorldMoves /\ HistoryGrows
      BY <1>4, <1>6, <1>7, <1>8 DEF WorldMoves, HistoryGrows
    <2>2. ASSUME NEW s \in Requests \ {r} PROVE RequestOutcome(s)'
      BY <1>2, <1>4, <1>5, <1>8, <2>1, <2>2, KeepOutcome DEF Untouched
    <2>3. RequestOutcome(r)'
      <3>1. TruthInv(r)' /\ (~IsRow(r) => WriteInv(r)')
        BY <1>1, <1>3, <1>4, <1>8 DEF RequestOutcome, TruthInv, WriteInv
      <3>2. Kind[r] \in {"a", "x"} => OnceInv(r)'
        BY <1>1, <1>3, <1>4, <1>8 DEF RequestOutcome, OnceInv
      <3>3. IsRow(r) => RoundInv(r)'
        BY <1>1, <1>3, <1>4, <1>8 DEF RequestOutcome, RoundInv
      <3>4. IsRow(r) => QuietInv(r)'
        BY <1>1, <1>2, <1>3, <1>4, <2>1, SameQuiet DEF RequestOutcome
      <3> QED BY <3>1, <3>2, <3>3, <3>4 DEF RequestOutcome, IsRow
    <2> QED BY <1>2, <2>2, <2>3 DEF OutcomeInv
  <1>9. CASE Matches(r) /\ (CreateOnly(r) => ~file.exists) /\ Commit(r)
    <2>1. /\ file'.exists /\ file'.etag = file.etag + 1 /\ saved \subseteq saved'
          /\ landed'[r] = landed[r] + 1
          /\ \A s \in Requests \ {r} : landed'[s] = landed[s]
          /\ NoteChange
      BY <1>1, <1>9, CommitEffect
    <2>2. WorldMoves
      BY <1>4, <2>1 DEF WorldMoves
    <2>3. HistoryGrows
      BY <1>4, <1>6, <1>7, <2>1 DEF HistoryGrows
    <2>4. ASSUME NEW s \in Requests \ {r} PROVE RequestOutcome(s)'
      <3>1. Untouched(s)
        BY <1>4, <1>5, <2>1 DEF Untouched
      <3>2. IsRow(s) /\ pc[s] \in {"download", "upload"} => Disturbed(s)'
        BY <1>2, <1>3, <1>9, <2>3, StoringDisturbs
      <3> QED BY <1>2, <2>2, <2>3, <3>1, <3>2, KeepOutcome
    <2>5. RequestOutcome(r)'
      <3>1. TruthInv(r)' /\ (~IsRow(r) => WriteInv(r)')
        BY <1>1, <1>3, <1>4, <1>7, <2>1 DEF RequestOutcome, TruthInv, WriteInv
      <3>2. ASSUME Kind[r] \in {"a", "x"} PROVE OnceInv(r)'
        <4>1. OnceInv(r) /\ (file.exists => landed[r] = 0)
          BY <1>1, <1>9, <3>2, AcceptedPutIsFirst DEF RequestOutcome
        <4>2. /\ landed'[r] <= deletions' + (IF file'.exists THEN 1 ELSE 0)
              /\ item'[r].etag <= file'.etag
              /\ landed'[r] > 0 /\ item'[r] # NoItem => item'[r].etag < file'.etag
          BY <1>1, <1>4, <1>9, <4>1, StoringKeepsCount
        <4>3. pc'[r] = "done"
          BY <1>3, <1>4
        <4> QED BY <4>2, <4>3 DEF OnceInv
      <3>3. IsRow(r) => RoundInv(r)'
        BY <1>1, <1>3, <1>4, <2>1 DEF RequestOutcome, RoundInv, NoteChange
      <3>4. IsRow(r) => QuietInv(r)'
        BY <1>1, <1>2, <1>3, <1>4, <2>3, SameQuiet DEF RequestOutcome
      <3> QED BY <3>1, <3>2, <3>3, <3>4 DEF RequestOutcome, IsRow
    <2> QED BY <1>2, <2>4, <2>5 DEF OutcomeInv
  <1> QED BY <1>8, <1>9 DEF LatePut

LEMMA NextOutcome ==
  ASSUME OutcomeInv, [Next]_vars
  PROVE  OutcomeInv'
  <1> USE DEF memory, outside
  <1>0. LockedInv /\ LockedInv'
    BY NextLocked DEF OutcomeInv
  <1>a. /\ file.etag \in Nat /\ deletions \in Nat /\ crashes \in Nat
        /\ \A s \in Requests : landed[s] \in Nat /\ lost[s] \in Nat
    BY <1>0, LimitAssumption DEF LockedInv, TypeOK, GraphOK, BoundsOK
  <1>1. ASSUME NEW r \in Requests, Step(r) PROVE OutcomeInv'
    BY <1>1, StepOutcome
  <1>2. ASSUME NEW r \in Requests, LatePut(r) PROVE OutcomeInv'
    BY <1>2, LatePutOutcome
  <1>3. ASSUME NEW p \in Saves, PersonSaves(p) PROVE OutcomeInv'
    <2>1. WorldMoves /\ HistoryGrows
      BY <1>3, <1>a DEF PersonSaves, WorldMoves, HistoryGrows
    <2>2. \A s \in Requests : Untouched(s)
      BY <1>3 DEF PersonSaves, Untouched
    <2>3. \A s \in Requests : Disturbed(s)'
      BY <1>3 DEF PersonSaves, Disturbed
    <2> QED BY <1>0, <2>1, <2>2, <2>3, KeepOutcome DEF OutcomeInv
  <1>4. CASE PersonDeletes
    <2>1. WorldMoves /\ HistoryGrows
      BY <1>4, <1>a DEF PersonDeletes, WorldMoves, HistoryGrows
    <2>2. \A s \in Requests : Untouched(s)
      BY <1>4 DEF PersonDeletes, Untouched
    <2>3. \A s \in Requests : Disturbed(s)'
      BY <1>4, <1>a DEF PersonDeletes, Disturbed
    <2> QED BY <1>0, <2>1, <2>2, <2>3, KeepOutcome DEF OutcomeInv
  <1>5. ASSUME NEW c \in Clients, WorkerDies(c) PROVE OutcomeInv'
    <2>1. UNCHANGED <<file, session, late, saved, landed, changed, item, buf, attempt,
                      lost, deletions>> /\ crashes' = crashes + 1
      BY <1>5 DEF WorkerDies, graph
    <2>2. WorldMoves /\ HistoryGrows
      BY <1>a, <2>1 DEF WorldMoves, HistoryGrows
    <2> SUFFICES ASSUME NEW s \in Requests PROVE RequestOutcome(s)'
      BY <1>0 DEF OutcomeInv
    <2>3. CASE ClientOf[s] = c /\ InProgress(s)
      <3>1. pc'[s] = "done" /\ answer'[s] = "dropped" /\ pc[s] # "done"
        BY <1>5, <2>3 DEF WorkerDies, InProgress
      <3>2. RequestOutcome(s)
        BY DEF OutcomeInv
      <3>3. TruthInv(s)' /\ (~IsRow(s) => WriteInv(s)')
        BY <2>1, <3>1, <3>2 DEF RequestOutcome, TruthInv, WriteInv
      <3>4. Kind[s] \in {"a", "x"} => OnceInv(s)'
        BY <2>1, <3>1, <3>2 DEF RequestOutcome, OnceInv
      <3>5. IsRow(s) => RoundInv(s)'
        BY <2>1, <3>1, <3>2 DEF RequestOutcome, RoundInv
      <3>6. IsRow(s) => QuietInv(s)'
        BY <1>0, <2>1, <2>2, <3>1, <3>2, SameQuiet DEF RequestOutcome
      <3> QED BY <3>3, <3>4, <3>5, <3>6 DEF RequestOutcome, IsRow
    <2>4. CASE ~(ClientOf[s] = c /\ InProgress(s))
      <3>1. Untouched(s)
        BY <1>5, <2>1, <2>4 DEF WorkerDies, Untouched
      <3> QED BY <1>0, <2>1, <2>2, <3>1, KeepOutcome
    <2> QED BY <2>3, <2>4
  <1>6. CASE UNCHANGED vars
    <2>1. WorldMoves /\ HistoryGrows
      BY <1>6, <1>a DEF vars, graph, WorldMoves, HistoryGrows
    <2>2. \A s \in Requests : Untouched(s)
      BY <1>6 DEF vars, graph, Untouched
    <2> QED BY <1>0, <1>6, <2>1, <2>2, KeepOutcome DEF OutcomeInv, vars, graph
  <1> QED BY <1>1, <1>2, <1>3, <1>4, <1>5, <1>6 DEF Next, Terminated

LEMMA AlwaysOutcome == Spec => []OutcomeInv
  BY InitOutcome, NextOutcome, PTL DEF Spec

\* Success means stored, and an error means not stored unless Graph's answer was
\* lost: true of the outcome of write_file and append_excel_row in every run.
THEOREM AnswersAreTrue == Spec => []AnswerIsTrue
  <1>1. OutcomeInv => AnswerIsTrue
    BY DEF OutcomeInv, RequestOutcome, TruthInv, AnswerIsTrue
  <1> QED BY <1>1, AlwaysOutcome, PTL

\* The retries of _send and late PUTs never store a piece of mode "a" or "x" a
\* second time while the first copy is there, in one PUT or through a session.
THEOREM AppendsLandOnce == Spec => []LandsAtMostOnce
  <1>1. OutcomeInv => LandsAtMostOnce
    <2> SUFFICES ASSUME OutcomeInv, NEW r \in Requests, Kind[r] \in {"a", "x"}
                 PROVE  landed[r] <= 1 + deletions
      BY DEF LandsAtMostOnce
    <2>1. OnceInv(r)
      BY DEF OutcomeInv, RequestOutcome
    <2>2. landed[r] \in Nat /\ deletions \in Nat
      BY Numbers DEF OutcomeInv
    <2> QED BY <2>1, <2>2 DEF OnceInv
  <1> QED BY <1>1, AlwaysOutcome, PTL

\* The lock of _append_row_by_download spares the rows of one process every 412:
\* a retry of the read-modify-write loop has a cause outside the lock.
THEOREM RetriesHaveACause == Spec => []RetryNeedsOutsider
  <1>1. OutcomeInv => RetryNeedsOutsider
    <2> SUFFICES ASSUME OutcomeInv, NEW r \in Requests, attempt[r] > 0
                 PROVE  Disturbed(r)
      BY DEF RetryNeedsOutsider
    <2> QED BY DEF OutcomeInv, RequestOutcome, QuietInv, WriteInv
  <1> QED BY <1>1, AlwaysOutcome, PTL

\* "kept changing while the row was being added" is only said of a file that changed
\* in each of the EXCEL_APPEND_ATTEMPTS rounds, after the round had looked it up.
THEOREM GivenUpForAReason == Spec => []GaveUpNeedsChanges
  <1>1. OutcomeInv => GaveUpNeedsChanges
    <2> SUFFICES ASSUME OutcomeInv, NEW r \in Requests, answer[r] = "gave_up"
                 PROVE  changed[r] = 0 .. EXCEL_APPEND_ATTEMPTS - 1
      BY DEF GaveUpNeedsChanges
    <2>1. RoundInv(r)
      BY DEF OutcomeInv, RequestOutcome, WriteInv
    <2>2. changed[r] \subseteq 0 .. EXCEL_APPEND_ATTEMPTS - 1
      BY DEF OutcomeInv, LockedInv, TypeOK, GraphOK
    <2> QED BY <2>1, <2>2 DEF RoundInv
  <1> QED BY <1>1, AlwaysOutcome, PTL
=============================================================================
