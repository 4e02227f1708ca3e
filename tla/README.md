# Verification of mosaic_common_service

The service is a FastAPI gateway with two back ends: it runs raw SQL on Redshift
through a pool of connections (`POST /query`), and it reads and changes one folder of
a SharePoint site through Microsoft Graph (`/sharepoint/...`). It runs under gunicorn
with two worker processes (`Dockerfile:10`); each process has one event loop, a
threadpool, its own Redshift pool and its own SharePoint client. Nothing is shared
between processes except Redshift and SharePoint themselves, and nothing is persisted
by the gateway.

This directory holds TLA+ models of it, the TLC configurations that check them, and
TLAPS proofs. Line numbers below refer to `src/app/sharepoint_client.py` unless another
file is named.

## Inventory

| Part | State | Operations | Talks to |
|---|---|---|---|
| `/query` (`routes/query.py`, `redshift_client.py`) | `_client`, the pool, transactions in Redshift | `run_query`, `get_redshift_client`, `execute`, `_connection` | psycopg2 in a thread, Redshift, audit, masking |
| SharePoint client (898-912, 301-343) | `_client`, `_drive_id`, `_root`, `_resolve_lock` | `get_sharepoint_client`, `_resolve`, `close_sharepoint_client` | Graph |
| Token provider (230-281) | `_token`, `_expires_at`, `_lock` | `get` | Microsoft sign-in |
| Graph calls (347-396) | none; the attempt counter of one call | `_send`, `_raise_for_status` | Graph |
| File writing (557-635) | the file in SharePoint, an upload session | `write_file`, `_upload`, `_download` | Graph |
| Excel rows (692-891, `excel_edit.py`) | `_file_locks`, the workbook | `append_excel_row` in two modes | Graph, a thread |
| Folders (637-688) | the tree in SharePoint | `create_directory`, `delete_file`, `delete_directory` | Graph |
| Reading, listing (508-555) | none | `read_file`, `list_entries` | Graph |
| Routes (`routes/sharepoint.py`) | none | read-only check, `_audited`, error handler | client, audit |
| Audit, masking (`governance/`) | the sink | `log_query`, `log_sharepoint`, `mask_record` | stdout |
| Path and URL rules (120-158, 186-227) | none | `split_path`, `encode_path`, `column_letter`, `parse_root_url` | - |
| Settings, models, health, deployment | none | - | - |

What is hard in this code:

- *Interleaving.* A worker's requests interleave at every `await`; plain `def`
  dependencies and queries interleave in threads at every line; the two processes and
  the people working in SharePoint interleave at every Graph call.
- *Check, then act.* Append is read-modify-write guarded by an ETag; deletion and folder
  creation look at a path and then act on it; a sheet row in graph mode is placed by a
  used range read earlier.
- *Retries.* `_send` repeats every kind of call on 429, 503 and 504, also those that
  took effect. A call that httpx gives up on may take effect later.
- *Failure in the middle.* An upload session, the resolution of the library, a commit,
  and `rollback()` itself can fail half-way while a lock or a connection is held.
- *Limits.* Retry and round counters, file size, pool size, token lifetime, the edges of
  an Excel table.

What makes each part correct: nobody's data is overwritten and appended pieces are not
stored twice (files); a row lands below the last one and in its table (Excel); answers
were true at some moment while the request ran and changes are audited (folders); tokens
outlive the calls that carry them as far as the margin reaches, and lookups happen once (client); no call leaves the
root, and listings and downloads are true (reading); no connection leaks,
no half-done work is handed over, and status and audit say what happened (queries).

## Modules

| Module | Models | Runs |
|---|---|---|
| `FileUpdate` | one file and all who change it: `write_file`, `_upload`, `_append_row_by_download`, `_send` | `file_*` |
| `RowLedger` | abstract: a file as a ledger to which rows are added atomically | `file_modes` (refinement) |
| `FileUpdateProofs`, `FileOutcomeProofs` | theorems about `FileUpdate`: locks, `RowLedger`; what requests are told and how often they write | - |
| `ExcelRows` | where `excel_edit` and the Graph Excel API put a row | `excel_rows` |
| `ExcelRowsProofs` | theorems about `ExcelRows` | - |
| `DriveTree` | folder operations, the folders around `write_file`, read-only refusal, `_audited` | `drive_races` |
| `DriveTreeProofs` | theorems about `DriveTree` | - |
| `PathRules` | pure: `split_path`, `encode_path`, `parse_root_url` | through `FolderRead` |
| `PathProofs` | theorems about `PathRules` | - |
| `FolderRead` | `list_files` and `read_file`, from the root URL to the last Graph call | `read_races` |
| `FolderReadProofs` | theorems about `FolderRead` | - |
| `GatewayClient` | singleton, `_resolve` and `_find_library`, `_TokenProvider.get`, shutdown | `gateway_*` |
| `GatewayProofs` | theorems about `GatewayClient` | - |
| `RedshiftQuery` | pools, transaction, session, response, mask and audit of `/query` | `redshift_*` |
| `RedshiftProofs` | theorems about `RedshiftQuery` | - |
| `MC...` | the constants of the instances | |

`PROJECT.json` maps every definition to the lines it stands for. Operators named
`Mutant...` are wrong forms of the definition that follows them (a dropped guard, a
swapped order); with one of them in its place the named property of the run fails, which
shows that the property depends on that code.

### FileUpdate

State: `file` (exists, id, ETag, rows) and `session` are what Graph keeps; `pc`, `tries`,
`attempt`, `item`, `buf`, `offset` are the local variables of a request; `queue` is the
asyncio lock of each process and spelling of the path (`_file_locks`, holder first).
A file's content is the sequence of those who wrote its parts, so sizes are counted in
rows and `SIMPLE_UPLOAD_LIMIT`, `UPLOAD_CHUNK` and `MAX_FILE` are small numbers.

There is one action per Graph call, with the outcomes the code distinguishes. Three ways in which
calls go wrong are kept apart: `Throttled` and `CallFails` (no effect), `PutUnseen` and
`ChunkUnseen` (effect, but the answer is a retry status or a timeout), `PutTimesOut` with
`LatePut` (an effect after the caller was answered). `PersonSaves`, `PersonDeletes` and
`WorkerDies` are the world. Graph is external. Assumed of it: a PUT with a wrong
`If-Match` is refused with 412, an upload session checks `If-Match` when it is created
(the only request that carries it), `conflictBehavior=fail` never replaces. Where the
documentation leaves an answer open (an `If-Match` for a file that is gone) both are
possible. The history variable `changed` records in which of its rounds a row found that
the file changed after the round's lookup. For the lock, a second spelling of the path (SharePoint ignores case) is
exactly what a second process is: another queue for the same file.

Properties: `OneAppendPerLock`, `NoRowLost`, `LandsAtMostOnce`, `AnswerIsTrue`;
`RetryNeedsOutsider` (the lock spares the callers of one process every 412);
`GaveUpNeedsChanges` (a row is given up only if the file changed in *each* of its own
rounds, between the lookup and the refused upload); `LostOnlyToOldSession` (the exact
extent of what `file_session_overwrite` finds: besides "w" and people's deletions only a
session opened before the file last changed takes a row out);
`EveryRequestAnswered`; `ImplementsLedger`.

`RowLedger` is what a user may rely on: a request adds its row in one step, or is
refused; if it was told "failed" or nothing, the row may still appear. It does not promise that a row
is added once; that is `RowAddedOnce`, which fails.

### ExcelRows

A workbook is one sheet with one table; cells hold nothing, old data or a request's row.
In download mode a round is: the file is read and a copy of it edited (`AppendToTable`,
`AppendBelowData`), and the copy saved, in one PUT that is carried out (`Upload`: the
answer arrives, is lost for good, or is lost and the repetition meets a 412) or refused
(`UploadRefused`), or in an upload session that checks the ETag when it is opened and
not when it ends (`OpenSession`, `CommitSession`). A 412 starts the next round, as many
as `EXCEL_APPEND_ATTEMPTS`. `current` has the requests whose ETag is still the file's.
What `FileUpdate` finds of this loop call by call is therefore in the sheet too: a
row added once more after a lost answer, and data overwritten by a session. A PUT that
arrives after its caller was answered is `FileUpdate`'s alone. A copy may be of either
size, so both ways of saving are open to each. In graph mode each Excel API call is a step,
and people may move a column of the table while a request is between two steps. A row is
sent by position or by column names (`Ordered`, 95-109 of `excel_edit.py`).
`max_row * max_column` also counts blank cells that have a style, so a sheet of any size
may be refused as too large, and one whose data alone is too large always is (`TooLarge`).

`DataLostOnlyToStaleRow` says precisely what destroys data: a sheet row in graph mode, if
the sheet changed since it read the used range (the race that 732-733 admits), and in
download mode the end of an upload session, if somebody saved the file since it was
opened; no copy saved in one PUT. The first includes rows that table callers have just added, so "safe for
simultaneous callers" (`routes/sharepoint.py:127`) holds among table callers only.
`RowIsAtTheEnd` has the same exception for table rows in graph mode whose columns were
moved after they were read: values sent by name are posted by position.
`LandsOncePerAttempt`: a repeated PATCH writes the same cells, but a repeated `rows/add` adds
a row, and so does a round of download mode after one whose PUT took effect unnoticed.

The address a row is written to is made of letters (`column_letter`) with `LETTERS` of
them instead of 26, so that the carry (Z to AA, 151-158) happens at the third column, where
the data of some sheets begins; `ColumnOf` is how Excel reads it back, and `RowIsAtTheEnd`
requires that a sheet row begins in the first column that has data above it.

The assumptions are Excel's and the instance's: a table has no two columns of one name
(`RowAssumption`), and the sheet has room for every attempt of finitely many requests and
for their widest row (`SheetAssumption`; Excel's own limits are far away). Every sheet has a
table with its header on it, so the branch for an empty sheet (`last_row == 0`, or A1 without
a value) is translated but not reached; a used range of one cell is.

### DriveTree

The tree is a function from paths to `none`, `file` or `directory`. `seen` records what
lay at each path while a request ran, so `AnswersWereTrue` is a linearizability-like
statement: every answer was right at some moment of the request. `made` and `removed`
record who did what. `write_file` is here in mode "w", for the folders around a file:
the parent is looked at (484-492) and may be gone when the PUT by path arrives
(`FileUpdate` has what the PUT does to a file). Graph may then refuse it or create the missing
folders; both are modelled, and the answer is true either way.
`DeletesOnlyWhatItSaw` says how far "Refuses directories" (`routes/sharepoint.py:149`)
goes: something of the other kind is deleted only if the item that was looked at vanished
and the other was put in its place before the DELETE, or its repetition, arrived.

### PathRules and FolderRead

`PathRules` works on segments: a caller's path is the sequence of what lies between its
slashes, a URL has a path and perhaps the decoded `id` of the address bar. The names
SharePoint allows are a set; ".." resolves as in any URL, so that a rule that let it pass
would be seen to leave the root.

`FolderRead` runs one request, from `parse_root_url` and `split_path` on. There is one site:
that a URL names it, and not another, is found by Graph's lookup (`SiteIsThere`, 413-416) and
not by `parse_root_url`, which takes any site that exists; a library or a
folder that is missing is a lookup that fails in `GatewayClient`. One is enough:
readers change nothing and share nothing but the resolved client (`GatewayClient`), and
what other requests do is among what may happen to the library (`Created`, `Saved`,
`Deleted`, `Moved`). A listing reads a page, or goes on to the next folder of its queue,
per step. Two things are assumed of Graph: a folder is listed by name and a `nextLink`
stands for the names after the last one delivered; an item keeps its id when it is saved
or moved, and `read_file` downloads by id. So a file that moves meanwhile is still read, and a
file put in its place is not. Retries count per call. `seen` works as in `DriveTree`.

`StaysBelowRoot` compares every Graph call with the folder the operator meant, whichever
form of its URL is configured. `ListedWasThere` and `ListingIsComplete` are the two halves
of "a listing is true"; it is no snapshot: entries may have been there at different
moments. `ReadIsHonest` covers both size checks (the second one matters when the file grows).

### GatewayClient

`get_sharepoint_client` is three steps because it runs in a thread. The four kinds of GET
of a resolution (site, libraries page by page, root folder) are steps of their own, each
with its token and retries, so that it can fail at any of them; `UsableMeansChecked` says
that the look without the lock (405-406) never lets a request use a library before its
root folder was found and was a folder. Time is counted in ticks, and nothing
bounds how long a sign-in or an attempt takes: httpx's 30 s timeout bounds each phase
(connect, write, read), it is a setting, and a blocked event loop delays both.
`TokenAliveOnArrival` therefore says how far the 60 s margin (`MARGIN`) reaches: an attempt
arrives with a token that is alive unless the sign-in and the attempt together took longer
than the margin. The sign-in counts because `_expires_at` is computed after its answer
arrived (276), later than the token really ends. `OneTokenFetch` also says that whoever
fetches found no fresh token: those that waited do not each fetch one in turn.

### RedshiftQuery

`idle`, `used` and `link` are the psycopg2 pools, one per process: a pool hands out the last
connection returned, keeps `POOL_MIN` free ones, raises when `POOL_MAX` are out, and does not
notice a dead connection. `open` holds the effects of an open transaction, `session` the
settings in force in a connection, and a commit on a breaking connection may or may not
take effect. `CleanHandover` allows the next query the settings of the queries before it if
these were carried out, and nothing else.

The row a query answers with goes through `mask_record` (`governance/masking.py`) before
it is shown. `SensitiveStaysHidden` is about fields by the names they have in the result,
as in the code: a column under an alias is not masked.

## Runs

| Run | Expect | Shows | Bounds |
|---|---|---|---|
| `file_rows` | pass | rows from two processes and a person lose nothing; lock and retry properties | 3 rows, 1 save, 1 lost answer each, 2 rounds, 1 retry |
| `file_modes` | pass | append, create and overwrite implement `RowLedger`, with true answers | 3 requests, 1 save, 1 deletion, 1 crash, 1 lost answer each |
| `file_sessions` | pass | multi-part uploads store nothing twice and lose rows only to a session older than the file; everything is answered | 3 requests, 1 save, up to two parts of one row, 1 lost answer each |
| `file_duplicate_row` | violation | one request adds its row twice | 1 request, 1 lost answer |
| `file_session_overwrite` | violation | a save during an upload session is overwritten | 1 request, 1 save |
| `excel_rows` | pass | placement in both modes | 2 requests, data in up to 2x2 cells from the second column on, any table there, 2 letters, 1 moved column, 1 retry, 2 rounds |
| `drive_races` | pass | answers, deletions, audit and read-only under races | 2 requests, 2 nested paths, 2 changes by others, 1 retry |
| `read_races` | pass | confinement to the root, true and complete listings, honest downloads, termination | 1 request, 8 paths, 5 forms of a URL, 6 places, 2 changes, pages of 1, 3 items, 1 retry |
| `gateway_access` | pass | tokens, resolution, locks | 2 requests, 4 ticks, 1 retry |
| `gateway_singleton` | violation | two clients in one process | 2 requests |
| `redshift_pool` | pass | pools, transactions, settings, masks, audit | 4 queries in 2 processes, pools of 1-2, 4 connections, 2 breaks |
| `redshift_blank_error` | violation | blank 500 for a connection that breaks before the commit | 1 query, 1 break |

Why the bounds are enough: each hazard needs one disturbance (a lost answer, a save, a
deletion, a broken connection) between two steps of one request, or two disturbances in
the case of a replaced file; two requests compete, a third one makes a queue behind the
lock or the pool. One retry shows a repeated call, two rounds show both branches of the
last-round test. Limits in rows (`MAX_FILE` 2 to 4) let files reach "too large" after
one to three appends. `ExcelRows` starts from every pattern of data in 2 rows and 2
columns with every table on it: header only, with a row that is blank, data below or
beside it; its sheet has room for every attempt of every request. A blank row between two
with data is left to `RowGoesToTheEnd`, which is proved for sheets of any size. `read_races` has pages of one item
and a limit of three, in trees of up to four items, so a listing has several pages, several
folders, and stops at the limit within one and between two. Counters are
capped by the constants marked "bound".

Symmetry is used where constants are interchangeable and only safety is checked
(connections in `RedshiftQuery`, requests in `ExcelRows` and `DriveTree`). Deadlock is
checked in every run; `Terminated` is the only way to stop, when all requests are done.

Fairness: `FileUpdate!FairSpec`, `GatewayClient!Spec` and `FolderRead!Spec` assume weak
fairness of each request's next step. Every call ends, because Graph answers or httpx times out
(`sharepoint_timeout_seconds`); waits between retries are capped (44, 367); the event
loop and the thread scheduler run what can run; asyncio locks are first come, first
served. Nothing is assumed about people, crashes or the network.

## Where code and text disagree

The four violation runs are explained under `findings` in `PROJECT.json`: a row added
twice after a lost answer (721), an overwritten change during an upload session (579-580),
a blank 500 when a connection breaks under a query and `rollback()` fails on it too
(`routes/query.py:31-34`; a connection that died while idle ends the same way) and two "singletons" (302).
Met while modelling, without a run of their own:

- "Refuses directories" (`routes/sharepoint.py:149`): the check and the DELETE are two
  calls; `DeletesOnlyWhatItSaw` states what holds instead.
- "No schema is ever set on the connection" (`routes/query.py:3`): none by the gateway, but
  a committed `SET search_path` of one caller stays in the pooled connection for the next.
- The Helm notes count one pool per pod (`NOTES.txt:10`) while each pod runs two processes with
  a pool each; `PoolWithinLimit` holds per process.
- A credentials file that is not JSON raises `JSONDecodeError`, which also ends in a
  blank 500 (`redshift_client.py:67`).
- Audit records go to the logger "audit" at INFO (`governance/audit.py:25`), and nothing
  configures logging, so under Python's default level they are dropped unless the
  deployment sets one. Requests that are refused before their route is entered (read-only,
  missing configuration) and queries that end in a blank 500 leave no record at all.

## Proofs

Every safety property that a passing run checks, invariant or action property, is also a
theorem, for every value of the constants that satisfies the named assumptions of the
module (TLC evaluates these in the runs). All invariants were first checked by TLC on the
instances of the runs, `ReadingInv` also on a larger one.

**`FileUpdateProofs`**, for every set of requests, processes, spellings and people:

- `TypeCorrect`: `Spec => []TypeOK`.
- `OneAppendAtATime`: `Spec => []OneAppendPerLock`. `TypeOK` is not enough: the
  inductive invariant `LockedInv` adds `LockInv`, that whoever is inside the block is at
  the front of its lock's queue. Two requests at one front are the same request.
- `OnlyOldSessionsOverwrite`: `Spec => LostOnlyToOldSession`, for files of any size, sessions
  included.
- `NothingOverwritten`: `Spec => []NoRowLost`, and `LedgerImplemented`:
  `Spec => ImplementsLedger`, both assuming `SmallFiles` (no file is larger than the
  single-PUT limit, so no session is used; without it `NoRowLost` is false, as
  `file_session_overwrite` shows). The inductive invariant of all three, `LedgerInv`, adds, for
  each request, that an item it looked up (or a late PUT carries) is not newer than the file
  (`LookupInv`), that if its ETag is still the file's then the content downloaded is the
  file's content (`VersionInv`), the same of the version its session was opened for
  (`SessionInv`), and what must be settled at each `pc` (`ProgressInv`).
  A PUT that matches, or a session the file waited for, therefore replaces exactly what was
  downloaded.

**`FileOutcomeProofs`** needs no `SmallFiles`: files have any size, sessions included.
`OutcomeInv` is `LockedInv` and one part for each question, per request:

- `TruthInv`, for `AnswersAreTrue`: what has landed is settled at each `pc`, also while a late PUT
  is on its way or a session is open.
- `OnceInv`, for `AppendsLandOnce`: once a piece of mode "a" or "x" is stored, whatever could store it
  again is gone, the version its `If-Match` names or its session, until a person deletes
  the file.
- `QuietInv`, for `RetriesHaveACause`: between lookup and upload a row that nobody outside
  its lock disturbs still sees its version; this is where `OneAppendPerLock` is needed.
- `RoundInv`, for `GivenUpForAReason`: the file changed in each round that is over, and in the
  one under way unless it is still as the round's lookup saw it. `WriteInv`: only rows start over.

**`ExcelRowsProofs`**, for every sheet, table, set of rows and number of letters:

- `LettersNameColumns`: Excel reads what `column_letter` writes as the same column. Reading is
  shown to be a sum over letters, writing to append one letter to the letters of a smaller number.
- `ExcelTypeCorrect`, `RowsStayInTheirTable`, `AddedOncePerAttempt`, `DataIsKept`,
  `RowGoesToTheEnd`, from `ExcelInv`: `TypeOK`, `SheetInv` (neither data nor the
  table reaches below the floor, and a header has no blanks), `TableRowsStayInTable`, and for each request what is settled at each `pc`, what
  it was told of the columns, what lies at its address, how often its values are in the
  sheet, and what its copy is like. Three ideas carry it. `Floor` is `FirstRows` plus the number of attempts that are over:
  no data lies below it, and every attempt still to come has a row left above the sheet's
  end, which is why no address leaves the sheet. `Below(r)` says that a request that is not stale
  has nothing but its own row at or below its address, so its PATCH, and the
  repetition of it, overwrites nobody. `CopyInv(r)` says that a copy about to be saved is good
  whenever that will be: a workbook in which the invariant holds, counted for the attempts that are
  over by then, with the row of r at its end; and if it is still current, one that lacks nothing of what is in
  the file. So a session may end late without breaking anything but that last part, which is
  the one thing `DataIsKept` excepts. Occurrences are counted by injections between sets of
  cells: moving a column, or inserting cells and shifting others down, loses and doubles nothing.

**`DriveTreeProofs`**, for every set of paths closed under parents: `TypeCorrect`,
`AnswersTrueAtSomeMoment`, `CreatedByItsCaller`, `EveryChangeAudited`, `DeletedAsAsked`, from `DriveInv`:
which level a request is at (`ControlInv`), that answer and record come together (`RecordInv`),
that a running request has seen the tree as it is (`WatchInv`) and what it saw on its way
(`SightInv`). No step turns a file into a folder without a moment at which nothing is there. So
a request that has seen both at a path has also seen it empty, and its answer is true
whichever call came first.

**`PathProofs`**, from `NameAssumption` and `SiteAssumption`: `AllowedAreNames`,
`RootUrlUnderstood`, `OtherUrlRefused`, about every sequence of segments and every form of
the URL.

**`FolderReadProofs`**: `TypeCorrect`, `StaysInRoot` (on `PathProofs`), `ListingsTrue`,
`ListingsComplete`, `ReadsAreHonest`, from `ReadingInv`. `TreeInv`: a tree stays one, and what
was there throughout had its folders throughout. `QueueInv`, `EntryInv`: the folders that
wait were listed, and entries of the folder being read lie before its cursor. `LastingInv`,
the core of `ListingsComplete`: an entry that stayed is listed, or its folder still waits or
is being read before it, or the folder above is not listed yet itself. When the queue is empty
only the first is left, by taking the shortest path that is not listed. `ReadInv`: the id
that was looked up is at its path or was gone from it once.

**`GatewayProofs`**: `TypeCorrect`, `OneFetchAtATime`, `ResolvedAtMostOnce`,
`CheckedBeforeUse`, `TokenOutlivesCall`, from `GatewayInv`. `TokenQueueInv`, `ResolveQueueInv`:
whoever waits is in the queue, whoever has the lock is its head, and only the head leaves.
`LibraryInv`: what is known at each GET of a resolution. `TimeInv`: the token that an attempt
carries was fresh, or new, when the attempt began, and who fetches one still finds none that
is fresh, for nobody but the head of the queue brings one. No bound on any duration is assumed.

**`RedshiftProofs`**, for every set of queries, processes and connections, every pool
size, any number of broken connections and any rows:

- `TypeCorrect`: `Spec => []TypeOK`. By itself `TypeOK` is not inductive: a thread inside
  `with self._connection()` must hold a connection (`HeldOK`).
- `NoConnectionLeaks`: `Spec => []UsedIsHeld`. `PoolInv` says that a connection is in one
  place of one pool and was opened, `HoldInv` who holds it. The steps that move no connection
  (`QuietStep`) are separated from those that take one, return one or open the first.
- `PoolLimited`: `Spec => []PoolWithinLimit`, by `LimitInv`: without a client there is no
  connection, and no query reaches the pool. `getconn` compares with `#`, not `<`; that is
  enough because the sum never passes the limit.
- `HandedOverClean`, `OutcomeIsTrue`: `CleanHandover` and `TrueOutcome`, by `WorkInv`. A
  commit whose answer is lost makes the query's work durable without the outcome
  "rows"; the invariant follows it to the rollback on a closed connection, which raises
  and so never ends in a 502. That a connection has one user (`HoldInv`) is what keeps other
  queries' work out of the commit.
- `AuditIsComplete`: `AuditMatchesResponse`, by `AnswerInv` and `WorkInv`.
- `SensitiveHidden`: `SensitiveStaysHidden`; `ShownInv` says that a response shows a
  masked row or none.

Induction over data. The induction theorems of the library take an operator as a parameter,
which the installed provers cannot instantiate. What the proofs need of recursion is got
from a smallest counterexample instead (`Smallest`, `Shortest`: every non-empty set of
numbers, or of sequences, has a least one). That is why `Without`, `ColumnOf` and `column_letter` are
recursive functions that a proof can unfold, and not `SelectSeq` or a fold.

Only model-checked: liveness (`EveryRequestAnswered`, `EveryRequestEnds`,
`EveryReadEnds`), which needs fairness and `ENABLED`, out of the prover's reach.

## Not modelled

- Models, settings, health check and application object: declarations and constants. The
  settings that matter are CONSTANTS, or chosen in `Init`. Deployment: configuration.
- Text: messages, headers, percent-coding, letter case in paths (but see the second spelling in
  `FileUpdate`), the characters of names and which texts are formulas (`prepare_cells`; its
  refusal is one of the failures of `ExcelRows!CallFails`), the conversion of values before they are masked, the form of an audit record and its sink.
- Excel: styles, notes and merged cells, several tables on a sheet.
- SQL: statements that themselves commit or roll back inside the text of a query.
- Requests refused for a missing configuration before their route is entered, except
  `config_error` in `FolderRead`.
- Liveness of `DriveTree`, `ExcelRows` and `RedshiftQuery`: their calls are the same `_send`
  as in the other modules, or a thread whose statement Redshift may keep as long as it
  likes; nothing new could be said.

## Plan

- Two tables on one sheet in `ExcelRows`, so that a table's rows may push another table
  down, and what `SheetInv` then has to say of both.
- A lemma that relates `RedshiftQuery`'s pools to an abstract pool, as `RowLedger` is for
  files: a query holds a connection to itself, from an empty transaction to an ended one.
