----------------------------- MODULE FileUpdate -----------------------------
(***************************************************************************)
(* One file of the SharePoint folder and everybody who changes it: the     *)
(* gateway's write_file ("w", "a", "x") and append_excel_row (in           *)
(* "download" mode, kind "row") requests, spread over several worker       *)
(* processes, and people who save or delete the file in SharePoint.        *)
(*                                                                         *)
(* A file's content is the sequence of the rows (or appended pieces) in    *)
(* it, each named after who wrote it, and its size is their number: the    *)
(* limits of the code are counted in rows.  Microsoft Graph is external:   *)
(* it is modelled by what the code relies on, and where the code's tests   *)
(* and the HTTP rules leave its answer open, it answers either way.        *)
(*                                                                         *)
(* Every request is a sequence of Graph calls (`_send`); each call may     *)
(* also be throttled and retried, fail, or - the case the retries make     *)
(* delicate - take effect while its answer never reaches the gateway.      *)
(***************************************************************************)
EXTENDS Naturals, Sequences, Functions

CONSTANTS
    Requests,               \* the HTTP requests that target the file
    Clients,                \* worker processes, each with its own SharePointClient
    ClientOf,               \* the process that serves a request
    Names,                  \* the spellings of the file's path
    NameOf,                 \* the spelling a request uses
    Kind,                   \* "w", "a", "x" or "row"
    Saves,                  \* saves made by people, outside the gateway
    Original,               \* the row the file starts with
    SIMPLE_UPLOAD_LIMIT,    \* up to this size one PUT, above it an upload session
    UPLOAD_CHUNK,           \* size of one part of an upload session
    MAX_FILE,               \* GATEWAY_SHAREPOINT_MAX_FILE_BYTES
    MAX_RETRIES,            \* retries of one Graph call
    EXCEL_APPEND_ATTEMPTS,  \* read-modify-write rounds of one row
    MaxLost,                \* bound: answers lost per request
    MaxDeletes,             \* bound: deletions by people
    MaxCrashes              \* bound: worker processes killed

ASSUME RequestAssumption ==
    /\ ClientOf \in [Requests -> Clients]
    /\ NameOf \in [Requests -> Names]
    /\ Kind \in [Requests -> {"w", "a", "x", "row"}]

ASSUME RowAssumption ==
    /\ Requests \cap Saves = {}
    /\ Original \notin Requests \cup Saves

ASSUME LimitAssumption ==
    /\ SIMPLE_UPLOAD_LIMIT \in Nat
    /\ UPLOAD_CHUNK \in Nat \ {0}
    /\ MAX_FILE \in Nat \ {0}
    /\ MAX_RETRIES \in Nat
    /\ EXCEL_APPEND_ATTEMPTS \in Nat \ {0}
    /\ MaxLost \in Nat
    /\ MaxDeletes \in Nat
    /\ MaxCrashes \in Nat

VARIABLES
    file,       \* the item in SharePoint: exists, id, etag, rows
    session,    \* the upload session Graph keeps for a request: open, got, and
                \* (history) the version of the file it was opened on
    late,       \* requests that timed out while their PUT was still on its way
    pc,         \* where a request is
    attempt,    \* round of the row's read-modify-write loop
    tries,      \* retries spent on the Graph call under way
    item,       \* what the last GET of the item said: id, etag, size
    buf,        \* the content downloaded
    offset,     \* how much of the new content the upload loop has sent
    queue,      \* per process and spelling, the asyncio.Lock: holder, then waiters
    answer,     \* the outcome a request ends with
    saved,      \* history: whose rows were ever stored
    removed,    \* history: whose rows a "w" or a person's deletion dropped
    landed,     \* history: how often a request's content was stored
    changed,    \* history: the rounds of a row in which the file changed under it
    lost,       \* how many answers a request lost
    deletions,  \* how often people deleted the file
    crashes     \* how many processes were killed

graph   == <<file, session, late, saved, removed, landed, changed>>
memory  == <<item, buf, offset, attempt>>
outside == <<deletions, crashes>>
vars == <<graph, memory, pc, tries, queue, answer, lost, outside>>

Rows == Requests \cup Saves \cup {Original}
Locks == Clients \X Names
Calls == {"require_directory", "require_workbook", "get_item", "download",
          "upload", "chunk", "cancel"}
Answers == {"none", "ok", "conflict", "gave_up", "not_found", "too_large",
            "failed", "dropped"}

\* What a request knows of an item it has not looked up (no ETag, hence no If-Match).
NoItem == [id |-> 0, etag |-> 0, size |-> 0]

\* An upload session that holds the first n rows of the content, and none.
Opened(n, v) == [open |-> TRUE, got |-> n, version |-> v]
Closed == [open |-> FALSE, got |-> 0, version |-> 0]

IsRow(r) == Kind[r] = "row"
LockOf(r) == <<ClientOf[r], NameOf[r]>>

\* The first thing a request of each kind asks Graph.
FirstStep(r) == IF IsRow(r) THEN "require_workbook" ELSE "require_directory"

\* A row request between `async with` of its lock and the end of the block.
Holding(r) ==
    IsRow(r) /\ pc[r] \in {"get_item", "download", "upload", "chunk", "cancel"}

GraphOK ==
    /\ file \in [exists: BOOLEAN, id: Nat, etag: Nat, rows: Seq(Rows)]
    /\ session \in [Requests -> [open: BOOLEAN, got: Nat, version: Nat]]
    /\ late \subseteq Requests
    /\ saved \subseteq Rows
    /\ removed \subseteq Rows
    /\ landed \in [Requests -> Nat]
    /\ changed \in [Requests -> SUBSET (0 .. EXCEL_APPEND_ATTEMPTS - 1)]

MemoryOK ==
    /\ item \in [Requests -> [id: Nat, etag: Nat, size: Nat]]
    /\ buf \in [Requests -> Seq(Rows)]
    /\ offset \in [Requests -> Nat]
    /\ attempt \in [Requests -> 0 .. EXCEL_APPEND_ATTEMPTS - 1]

ControlOK ==
    /\ pc \in [Requests -> Calls \cup {"lock", "done"}]
    /\ tries \in [Requests -> 0 .. MAX_RETRIES]
    /\ queue \in [Locks -> Seq(Requests)]
    /\ answer \in [Requests -> Answers]

BoundsOK ==
    /\ lost \in [Requests -> 0 .. MaxLost]
    /\ deletions \in 0 .. MaxDeletes
    /\ crashes \in 0 .. MaxCrashes

TypeOK == GraphOK /\ MemoryOK /\ ControlOK /\ BoundsOK

Init ==
    /\ file \in {[exists |-> TRUE, id |-> 1, etag |-> 1, rows |-> <<Original>>],
                 [exists |-> FALSE, id |-> 1, etag |-> 1, rows |-> <<>>]}
    /\ session = [r \in Requests |-> Closed]
    /\ late = {}
    /\ pc = [r \in Requests |-> FirstStep(r)]
    /\ attempt = [r \in Requests |-> 0]
    /\ tries = [r \in Requests |-> 0]
    /\ item = [r \in Requests |-> NoItem]
    /\ buf = [r \in Requests |-> <<>>]
    /\ offset = [r \in Requests |-> 0]
    /\ queue = [l \in Locks |-> <<>>]
    /\ answer = [r \in Requests |-> "none"]
    /\ saved = Range(file.rows)
    /\ removed = {}
    /\ landed = [r \in Requests |-> 0]
    /\ changed = [r \in Requests |-> {}]
    /\ lost = [r \in Requests |-> 0]
    /\ deletions = 0
    /\ crashes = 0

-----------------------------------------------------------------------------
(* How a request moves on.                                                 *)

\* (Mutants, here and below, are wrong forms of the definition that follows them:
\* a run of the project shows that its property does not survive the change.)
MutantDataInFront(r) == <<r>> \o buf[r]

\* The content a request uploads: its own row after whatever it downloaded.
Data(r) == Append(buf[r], r)

\* conflict="fail": mode "x", and mode "a" when the file was not there.
CreateOnly(r) == Kind[r] = "x" \/ (Kind[r] = "a" /\ item[r] = NoItem)

Goto(r, step) ==
    /\ pc' = [pc EXCEPT ![r] = step]
    /\ tries' = [tries EXCEPT ![r] = 0]

MutantLockKeptOnError(r, result) ==
    /\ Goto(r, "done")
    /\ answer' = [answer EXCEPT ![r] = result]
    /\ queue' = IF Holding(r) /\ result = "ok"
                THEN [queue EXCEPT ![LockOf(r)] = Tail(@)]
                ELSE queue

\* The request ends; leaving the `async with` block hands the lock over.
Finish(r, result) ==
    /\ Goto(r, "done")
    /\ answer' = [answer EXCEPT ![r] = result]
    /\ queue' = IF Holding(r)
                THEN [queue EXCEPT ![LockOf(r)] = Tail(@)]
                ELSE queue

\* An error in the upload loop: the session is cancelled before the error goes on.
Abort(r, result) ==
    /\ Goto(r, "cancel")
    /\ answer' = [answer EXCEPT ![r] = result]
    /\ UNCHANGED queue

MutantRetryWithoutLimit(r) ==
    /\ tries' = [tries EXCEPT ![r] = @ + 1]
    /\ UNCHANGED <<pc, queue, answer>>

\* The same call is sent once more after a retry status.
Resend(r) ==
    /\ tries[r] < MAX_RETRIES
    /\ tries' = [tries EXCEPT ![r] = @ + 1]
    /\ UNCHANGED <<pc, queue, answer>>

-----------------------------------------------------------------------------
(* The calls before the upload.                                            *)

\* write_file: the parent directory is there (its absence is a failed call).
CheckParent(r) ==
    /\ ~IsRow(r) /\ pc[r] = "require_directory"
    /\ Goto(r, IF Kind[r] = "a" THEN "get_item" ELSE "upload")
    /\ UNCHANGED <<graph, memory, queue, answer, lost, outside>>

\* append_excel_row: _require_workbook, then wait for the file's lock.
CheckWorkbook(r) ==
    /\ pc[r] = "require_workbook"
    /\ \/ /\ file.exists
          /\ Goto(r, "lock")
          /\ queue' = [queue EXCEPT ![LockOf(r)] = Append(@, r)]
          /\ UNCHANGED answer
       \/ /\ ~file.exists
          /\ Finish(r, "not_found")
    /\ UNCHANGED <<graph, memory, lost, outside>>

MutantNoLock(r) == queue[LockOf(r)] # <<>>

\* `async with`: a request goes in when it is at the front of the lock's queue.
AtFront(r) == queue[LockOf(r)] # <<>> /\ Head(queue[LockOf(r)]) = r

AcquireLock(r) ==
    /\ pc[r] = "lock" /\ AtFront(r)
    /\ Goto(r, "get_item")
    /\ UNCHANGED <<graph, memory, queue, answer, lost, outside>>

\* _try_get_item / _get_item: the item's id, ETag and size, or its absence.
FindItem(r) ==
    /\ pc[r] = "get_item"
    /\ \/ /\ file.exists
          /\ item' = [item EXCEPT ![r] = [id |-> file.id, etag |-> file.etag,
                                          size |-> Len(file.rows)]]
          /\ Goto(r, "download")
          /\ UNCHANGED <<queue, answer>>
       \/ /\ ~file.exists /\ ~IsRow(r)
          /\ Goto(r, "upload")
          /\ UNCHANGED <<item, queue, answer>>
       \/ /\ ~file.exists /\ IsRow(r)
          /\ Finish(r, "not_found")
          /\ UNCHANGED item
    /\ UNCHANGED <<graph, buf, offset, attempt, lost, outside>>

\* _download by item id, and the three size checks around it.
Download(r) ==
    /\ pc[r] = "download"
    /\ \/ /\ item[r].size <= MAX_FILE
          /\ file.exists /\ file.id = item[r].id
          /\ Len(file.rows) < MAX_FILE
          /\ buf' = [buf EXCEPT ![r] = file.rows]
          /\ Goto(r, "upload")
          /\ UNCHANGED <<queue, answer>>
       \/ /\ item[r].size <= MAX_FILE
          /\ ~(file.exists /\ file.id = item[r].id)
          /\ Finish(r, "not_found")
          /\ UNCHANGED buf
       \/ /\ \/ item[r].size > MAX_FILE
             \/ file.exists /\ file.id = item[r].id /\ Len(file.rows) >= MAX_FILE
          /\ Finish(r, "too_large")
          /\ UNCHANGED buf
    /\ UNCHANGED <<graph, item, offset, attempt, lost, outside>>

-----------------------------------------------------------------------------
(* _upload.                                                                *)

\* A row has looked the file up and has yet to hear what became of its PUT.
Underway(r) == IsRow(r) /\ pc[r] \in {"download", "upload"}

\* The rows under way remember that the file changed in the round they are in.
NoteChange ==
    changed' = [r \in Requests |-> IF Underway(r) THEN changed[r] \cup {attempt[r]}
                                                  ELSE changed[r]]

\* Graph stores a request's content as the file.
Commit(r) ==
    /\ file' = [exists |-> TRUE,
                id |-> IF file.exists THEN file.id ELSE file.etag + 1,
                etag |-> file.etag + 1,
                rows |-> Data(r)]
    /\ saved' = saved \cup {r}
    /\ landed' = [landed EXCEPT ![r] = @ + 1]
    /\ removed' = IF Kind[r] = "w" THEN removed \cup Range(file.rows) ELSE removed
    /\ NoteChange

MutantNoIfMatch(r) == TRUE

\* The If-Match header names the version that is there.  Without a file the
\* header has nothing to match: Graph may create the file or answer 412.
Matches(r) == item[r] # NoItem /\ file.exists => item[r].etag = file.etag
MayMismatch(r) == item[r] # NoItem /\ (file.exists => item[r].etag # file.etag)

IsSimple(r) == Len(Data(r)) <= SIMPLE_UPLOAD_LIMIT

\* The single PUT, accepted.
Put(r) ==
    /\ pc[r] = "upload" /\ IsSimple(r)
    /\ Matches(r) /\ (CreateOnly(r) => ~file.exists)
    /\ Commit(r)
    /\ Finish(r, "ok")
    /\ UNCHANGED <<session, late, memory, lost, outside>>

\* The single PUT takes effect, but Graph answers 503/504 or nothing at all.
PutUnseen(r) ==
    /\ pc[r] = "upload" /\ IsSimple(r)
    /\ Matches(r) /\ (CreateOnly(r) => ~file.exists)
    /\ lost[r] < MaxLost
    /\ lost' = [lost EXCEPT ![r] = @ + 1]
    /\ Commit(r)
    /\ Resend(r) \/ Finish(r, "failed")
    /\ UNCHANGED <<session, late, memory, outside>>

\* httpx gives up on the PUT (a timeout), which Graph has yet to act on.
PutTimesOut(r) ==
    /\ pc[r] = "upload" /\ IsSimple(r)
    /\ lost[r] < MaxLost
    /\ lost' = [lost EXCEPT ![r] = @ + 1]
    /\ late' = late \cup {r}
    /\ Finish(r, "failed")
    /\ UNCHANGED <<file, session, saved, removed, landed, changed, memory, outside>>

MutantGiveUpAtOnce(r) ==
    /\ Finish(r, IF IsRow(r) THEN "gave_up" ELSE "conflict")
    /\ UNCHANGED attempt

MutantRetryAnyKind(r) ==
    /\ attempt[r] < EXCEL_APPEND_ATTEMPTS
    /\ attempt' = [attempt EXCEPT ![r] = @ + 1]
    /\ Goto(r, "get_item")
    /\ UNCHANGED <<queue, answer>>

\* 412 on the PUT or on createUploadSession: a row starts over, up to a limit.
ChangedMeanwhile(r) ==
    \/ /\ IsRow(r) /\ attempt[r] < EXCEL_APPEND_ATTEMPTS - 1
       /\ attempt' = [attempt EXCEPT ![r] = @ + 1]
       /\ Goto(r, "get_item")
       /\ UNCHANGED <<queue, answer>>
    \/ /\ IsRow(r) /\ attempt[r] = EXCEL_APPEND_ATTEMPTS - 1
       /\ Finish(r, "gave_up")
       /\ UNCHANGED attempt
    \/ /\ ~IsRow(r)
       /\ Finish(r, "conflict")
       /\ UNCHANGED attempt

MutantConflictIsFine(r) ==
    /\ pc[r] = "upload"
    /\ CreateOnly(r) /\ file.exists /\ Finish(r, "ok")
    /\ UNCHANGED <<graph, memory, lost, outside>>

UploadRejected(r) ==
    /\ pc[r] = "upload"
    /\ \/ CreateOnly(r) /\ file.exists /\ Finish(r, "conflict") /\ UNCHANGED attempt
       \/ MayMismatch(r) /\ ChangedMeanwhile(r)
    /\ UNCHANGED <<graph, item, buf, offset, lost, outside>>

\* createUploadSession checks If-Match; conflict="fail" counts when the parts are in.
OpenSession(r) ==
    /\ pc[r] = "upload" /\ ~IsSimple(r)
    /\ Matches(r)
    /\ session' = [session EXCEPT ![r] = Opened(0, file.etag)]
    /\ offset' = [offset EXCEPT ![r] = 0]
    /\ Goto(r, "chunk")
    /\ UNCHANGED <<file, late, saved, removed, landed, changed, item, buf, attempt,
                   queue, answer, lost, outside>>

InOrder(r) == session[r].open /\ session[r].got = offset[r]
IsLast(r) == offset[r] + UPLOAD_CHUNK >= Len(Data(r))

\* Graph keeps a part that is not the last one.
KeepPart(r) ==
    /\ ~IsLast(r)
    /\ session' = [session EXCEPT ![r].got = offset[r] + UPLOAD_CHUNK]
    /\ UNCHANGED <<file, saved, removed, landed, changed>>

\* Graph stores the file with the last part.  No If-Match comes with it.
CommitSession(r) ==
    /\ IsLast(r)
    /\ CreateOnly(r) => ~file.exists
    /\ session' = [session EXCEPT ![r] = Closed]
    /\ Commit(r)

\* One round of the upload loop, answered.
SendChunk(r) ==
    /\ pc[r] = "chunk" /\ InOrder(r)
    /\ \/ /\ KeepPart(r)
          /\ offset' = [offset EXCEPT ![r] = @ + UPLOAD_CHUNK]
          /\ Goto(r, "chunk")
          /\ UNCHANGED <<queue, answer>>
       \/ /\ CommitSession(r)
          /\ Finish(r, "ok")
          /\ UNCHANGED offset
    /\ UNCHANGED <<late, item, buf, attempt, lost, outside>>

\* The part takes effect, but Graph answers 503/504 or nothing at all.
ChunkUnseen(r) ==
    /\ pc[r] = "chunk" /\ InOrder(r)
    /\ lost[r] < MaxLost
    /\ lost' = [lost EXCEPT ![r] = @ + 1]
    /\ KeepPart(r) \/ CommitSession(r)
    /\ Resend(r) \/ Abort(r, "failed")
    /\ UNCHANGED <<late, memory, outside>>

MutantStartOver(r) ==
    /\ pc[r] = "chunk" /\ ~InOrder(r)
    /\ Goto(r, "get_item")
    /\ UNCHANGED <<graph, memory, queue, answer, lost, outside>>

\* A part Graph does not expect, or a file that may not be replaced.
ChunkRejected(r) ==
    /\ pc[r] = "chunk"
    /\ \/ ~InOrder(r) /\ Abort(r, "failed")
       \/ InOrder(r) /\ IsLast(r) /\ CreateOnly(r) /\ file.exists /\ Abort(r, "conflict")
    /\ UNCHANGED <<graph, memory, lost, outside>>

\* The session is deleted, or that fails too; then the first error is raised.
CancelSession(r) ==
    /\ pc[r] = "cancel"
    /\ \/ session' = [session EXCEPT ![r] = Closed]
       \/ UNCHANGED session
    /\ Finish(r, answer[r])
    /\ UNCHANGED <<file, late, saved, removed, landed, changed, memory, lost, outside>>

-----------------------------------------------------------------------------
(* Calls that come to nothing.                                             *)

\* 429, 503 or 504 without effect: `_send` tries again.
Throttled(r) ==
    /\ pc[r] \in Calls
    /\ Resend(r)
    /\ UNCHANGED <<graph, memory, lost, outside>>

\* No network, no token, retries used up, access denied, file locked, ...
CallFails(r) ==
    /\ \/ pc[r] \in Calls \ {"chunk", "cancel"} /\ Finish(r, "failed")
       \/ pc[r] = "chunk" /\ Abort(r, "failed")
    /\ UNCHANGED <<graph, memory, lost, outside>>

-----------------------------------------------------------------------------
(* The world around the requests.                                          *)

\* Graph acts on a PUT whose sender no longer waits, or the PUT never arrives.
LatePut(r) ==
    /\ r \in late
    /\ late' = late \ {r}
    /\ \/ /\ Matches(r) /\ (CreateOnly(r) => ~file.exists)
          /\ Commit(r)
       \/ UNCHANGED <<file, saved, removed, landed, changed>>
    /\ UNCHANGED <<session, memory, pc, tries, queue, answer, lost, outside>>

PersonSaves(p) ==
    /\ p \notin saved
    /\ file' = [exists |-> TRUE,
                id |-> IF file.exists THEN file.id ELSE file.etag + 1,
                etag |-> file.etag + 1,
                rows |-> Append(file.rows, p)]
    /\ saved' = saved \cup {p}
    /\ NoteChange
    /\ UNCHANGED <<session, late, removed, landed, memory, pc, tries, queue, answer, lost,
                   outside>>

PersonDeletes ==
    /\ file.exists /\ deletions < MaxDeletes
    /\ deletions' = deletions + 1
    /\ file' = [exists |-> FALSE, id |-> file.id, etag |-> file.etag, rows |-> <<>>]
    /\ removed' = removed \cup Range(file.rows)
    /\ NoteChange
    /\ UNCHANGED <<session, late, saved, landed, memory, pc, tries, queue, answer, lost,
                   crashes>>

InProgress(r) == pc[r] \notin {FirstStep(r), "done"}

\* A worker process is killed: its requests and its locks are gone.
WorkerDies(c) ==
    /\ crashes < MaxCrashes
    /\ \E r \in Requests : ClientOf[r] = c /\ InProgress(r)
    /\ crashes' = crashes + 1
    /\ pc' = [r \in Requests |->
                IF ClientOf[r] = c /\ InProgress(r) THEN "done" ELSE pc[r]]
    /\ answer' = [r \in Requests |->
                IF ClientOf[r] = c /\ InProgress(r) THEN "dropped" ELSE answer[r]]
    /\ queue' = [l \in Locks |-> IF l[1] = c THEN <<>> ELSE queue[l]]
    /\ UNCHANGED <<graph, memory, tries, lost, deletions>>

Terminated == (\A r \in Requests : pc[r] = "done") /\ UNCHANGED vars

Step(r) ==
    \/ CheckParent(r) \/ CheckWorkbook(r) \/ AcquireLock(r)
    \/ FindItem(r) \/ Download(r)
    \/ Put(r) \/ PutUnseen(r) \/ PutTimesOut(r) \/ UploadRejected(r)
    \/ OpenSession(r) \/ SendChunk(r) \/ ChunkUnseen(r) \/ ChunkRejected(r)
    \/ CancelSession(r)
    \/ Throttled(r) \/ CallFails(r)

Next ==
    \/ \E r \in Requests : Step(r) \/ LatePut(r)
    \/ \E p \in Saves : PersonSaves(p)
    \/ PersonDeletes
    \/ \E c \in Clients : WorkerDies(c)
    \/ Terminated

\* Every call returns (Graph answers, or httpx gives up after its timeout), and
\* the event loop runs every request that can go on.
Fairness == \A r \in Requests : WF_vars(Step(r))

Spec == Init /\ [][Next]_vars
FairSpec == Spec /\ Fairness

-----------------------------------------------------------------------------
(* What the code promises.                                                 *)

\* Row requests for the same spelling of the path are in the read-modify-write
\* loop one at a time in each process: what the asyncio.Lock of
\* _append_row_by_download (sharepoint_client.py:776-778) is there for, across
\* failures at every call, late answers and killed processes.
OneAppendPerLock ==
    \A r, s \in Requests :
        Holding(r) /\ Holding(s) /\ LockOf(r) = LockOf(s) => r = s

\* Somebody other than the row requests of r's own lock changed the file, or one
\* of those requests lost an answer.
Disturbed(r) ==
    \/ saved \cap Saves # {} \/ deletions > 0 \/ crashes > 0
    \/ \E s \in Requests : LockOf(s) = LockOf(r) /\ lost[s] > 0
    \/ \E s \in Requests : landed[s] > 0 /\ ~(IsRow(s) /\ LockOf(s) = LockOf(r))

\* The lock spares the callers of one process every 412: a row has to start over
\* only when somebody outside that lock changed the file or an answer was lost.
RetryNeedsOutsider == \A r \in Requests : attempt[r] > 0 => Disturbed(r)

\* A row is given up ("kept changing while the row was being added",
\* sharepoint_client.py:794-803) only after the file changed under it in each of its
\* EXCEL_APPEND_ATTEMPTS rounds, between the round's lookup and its refused PUT.
GaveUpNeedsChanges ==
    \A r \in Requests :
        answer[r] = "gave_up" => changed[r] = 0 .. EXCEL_APPEND_ATTEMPTS - 1

\* No row that anybody stored is ever overwritten: it stays in the file until a
\* "w" request or a person's deletion takes it out.  This is what the ETag of
\* _upload (sharepoint_client.py:578-581, 797) is for.
NoRowLost == saved \subseteq Range(file.rows) \cup removed

\* A piece appended with mode "a", or created with mode "x", is never stored a
\* second time by the retries of _send, unless the file was deleted in between.
LandsAtMostOnce ==
    \A r \in Requests : Kind[r] \in {"a", "x"} => landed[r] <= 1 + deletions

\* The last part of an upload session whose file changed after the session was
\* opened: no If-Match comes with the parts (sharepoint_client.py:612-621).
EndsOldSession(r) ==
    landed'[r] # landed[r] /\ pc[r] = "chunk" /\ session[r].version # file.etag

\* A stored row leaves the file by a person's deletion, by a "w" request, or when an
\* upload session ends that is older than the file - in no other way: no single PUT
\* (also one that is late or repeated) and no session the file waited for takes a row
\* out, whatever the size of the file.  The ETag is sent for this (:590-610).
LostOnlyToOldSession ==
    [][\/ Range(file.rows) \subseteq Range(file'.rows)
       \/ ~file'.exists
       \/ \E r \in Requests : landed'[r] # landed[r] /\ Kind[r] = "w"
       \/ \E r \in Requests : EndsOldSession(r)]_vars

\* One append_excel_row request adds one row ("Adds one row to the end of an
\* Excel table", sharepoint_client.py:721).
RowAddedOnce == \A r \in Requests : IsRow(r) => landed[r] <= 1 + deletions

\* The caller is told the truth: success means the content was stored, and an
\* error means it was not, unless an answer of Graph was lost on the way.
AnswerIsTrue ==
    \A r \in Requests : pc[r] = "done" =>
        /\ answer[r] = "ok" => landed[r] > 0
        /\ answer[r] \in {"conflict", "gave_up", "not_found", "too_large", "failed"}
              /\ lost[r] = 0 => landed[r] = 0

\* Every request is answered, whatever the others, Graph and people do, unless
\* its process is killed.
EveryRequestAnswered == \A r \in Requests : <>(pc[r] = "done")

\* The file behaves as a ledger to which each request adds its row atomically.
Ledger ==
    INSTANCE RowLedger WITH rows <- file.rows,
                            Replacing <- {r \in Requests : Kind[r] = "w"},
                            Saves <- Saves \cup {Original}

ImplementsLedger == Ledger!Spec

=============================================================================
