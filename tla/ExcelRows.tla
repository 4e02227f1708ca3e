----------------------------- MODULE ExcelRows ------------------------------
(***************************************************************************)
(* Where append_excel_row puts a row: below the last row of a table that   *)
(* has data, or below the last used row of a sheet, in both Excel modes.   *)
(*                                                                         *)
(* In "download" mode excel_edit works on a copy of the file, which is     *)
(* saved if the file still has the ETag it had before the download: in one *)
(* PUT, or, when it is larger than SIMPLE_UPLOAD_LIMIT, in an upload       *)
(* session that checks the ETag only when it is opened.  A copy can be of  *)
(* either size.  Any two requests may belong to different processes; those *)
(* of one process take turns (_file_locks), which is one of the orders     *)
(* here.  FileUpdate models the same loop call by call.  In "graph" mode   *)
(* each call to Graph's Excel API is a step of its own.  In both, requests *)
(* and people who move columns interleave.                                 *)
(*                                                                         *)
(* The workbook is one sheet with one table.  A cell is blank, or holds    *)
(* old data, or what a request wrote.  Graph's Excel API is external:      *)
(* rows/add inserts below the table and pushes the cells under it down.    *)
(***************************************************************************)
EXTENDS Naturals, SequencesExt

CONSTANTS
    Requests,           \* the calls of append_excel_row
    Blank, Old,         \* an empty cell, a cell with data from before
    MaxRow, MaxCol,     \* bound: the part of the sheet that can be reached
    FirstRows,          \* bound: rows that may have data at first,
    FirstCol, LastCol,  \* and the first and the last column that may
    Headers,            \* the names of the table's columns, in their order at first
    RowsToAdd,          \* what a request may send
    LETTERS,            \* how many letters name columns (26)
    MAX_SCAN_CELLS,     \* a larger sheet is refused
    MAX_RETRIES,        \* retries of one Graph call
    EXCEL_APPEND_ATTEMPTS, \* rounds of download, edit and upload
    MaxMoves            \* bound: columns that people move

\* Cells in order, each with or without a value, or the names of the columns that get one.
\* Excel gives no two columns of a table the same name.
ASSUME RowAssumption ==
    /\ Headers \in Seq(ToSet(Headers)) /\ IsInjective(Headers)
    /\ RowsToAdd \subseteq [cells: Seq(BOOLEAN), names: SUBSET ToSet(Headers)]
    /\ \A row \in RowsToAdd : row.cells = <<>> \/ row.names = {}
    /\ Len(Headers) > LastCol - FirstCol

ASSUME CellAssumption == Blank # Old /\ {Blank, Old} \cap Requests = {}

\* The attempts of a request are counted from 0: retries in graph mode, rounds in download
\* mode.
MostTries == IF MAX_RETRIES < EXCEL_APPEND_ATTEMPTS THEN EXCEL_APPEND_ATTEMPTS - 1
             ELSE MAX_RETRIES

\* Every attempt of every request may add a row, and a row may be wider than the data.
ASSUME SheetAssumption ==
    /\ {MaxRow, MaxCol, FirstRows, LastCol, MAX_SCAN_CELLS, MAX_RETRIES, MaxMoves}
          \subseteq Nat
    /\ {LETTERS, FirstCol, EXCEL_APPEND_ATTEMPTS} \subseteq Nat \ {0}
    /\ IsFiniteSet(Requests)
    /\ FirstRows + Cardinality(Requests) * (MostTries + 1) <= MaxRow
    /\ \A row \in RowsToAdd : LastCol + Len(row.cells) <= MaxCol + 1

Rows == 1 .. MaxRow
Cols == 1 .. MaxCol

VARIABLES
    mode,       \* GATEWAY_SHAREPOINT_EXCEL_MODE
    place,      \* what a request names: "table" or "sheet"
    sent,       \* the row it sends
    grid,       \* the sheet
    table,      \* the table's ref
    columns,    \* the names of its columns, from left to right
    pc,         \* where a request is
    ordered,    \* the cells for the columns a request was told, in graph mode
    used,       \* the used range it was told, in graph mode
    address,    \* the range it is going to write, in graph mode
    edited,     \* the copy it is going to save, in download mode
    current,    \* the requests whose copy was made from what is now in the file
    tries,      \* retries spent on the call that writes, or rounds on the file
    answer,     \* its status, and the row it was told
    stale,      \* history: what the request looked at changed before it wrote
    moves       \* how many columns people moved

inputs == <<mode, place, sent>>
workbook == <<grid, table, columns>>
looked == <<ordered, used, address>>
copies == <<edited, current>>
vars == <<inputs, workbook, pc, looked, copies, tries, answer, stale, moves>>

Values == {Blank, Old} \cup Requests
Grids == [Rows -> [Cols -> Values]]
Refs == {t \in [left: Cols, top: Rows, right: Cols, bottom: Rows] :
            t.left <= t.right /\ t.top <= t.bottom}
NoRange == [row |-> 0, col |-> 0, rows |-> 0, cols |-> 0]
NoAddress == [row |-> 0, from |-> <<>>, to |-> <<>>]
\* A workbook with a request's row in it, and the row it will be told.
Copies == [grid: Grids, table: Refs, columns: Seq(ToSet(Headers)), row: 0 .. MaxRow]
NoCopy == [row |-> 0]
NoAnswer == [status |-> "none", row |-> 0]

TypeOK ==
    /\ mode \in {"download", "graph"}
    /\ place \in [Requests -> {"table", "sheet"}]
    /\ sent \in [Requests -> RowsToAdd]
    /\ grid \in Grids
    /\ table \in Refs
    /\ columns \in Seq(ToSet(Headers)) /\ Len(columns) = table.right - table.left + 1
    /\ pc \in [Requests -> {"start", "add", "probe", "patch", "put", "chunk", "done"}]
    /\ ordered \in [Requests -> Seq(BOOLEAN)]
    /\ used \in [Requests -> [row: Nat, col: Nat, rows: Nat, cols: Nat]]
    /\ address \in [Requests -> [row: 0 .. MaxRow, from: Seq(0 .. LETTERS - 1),
                                 to: Seq(0 .. LETTERS - 1)]]
    /\ edited \in [Requests -> Copies \cup {NoCopy}]
    /\ current \subseteq Requests
    /\ tries \in [Requests -> 0 .. MostTries]
    /\ answer \in [Requests -> [status: {"none", "added", "bad_request", "conflict", "failed"},
                                row: 0 .. MaxRow]]
    /\ stale \in [Requests -> BOOLEAN]
    /\ moves \in 0 .. MaxMoves

-----------------------------------------------------------------------------
(* Reading a sheet.                                                        *)

Columns(t) == t.left .. t.right
IsBlankRow(g, r, cs) == \A c \in cs : g[r][c] = Blank
UsedRows(g) == {r \in Rows : ~IsBlankRow(g, r, Cols)}
UsedCols(g) == {c \in Cols : \E r \in Rows : g[r][c] # Blank}
LastUsedRow(g) == IF UsedRows(g) = {} THEN 0 ELSE Max(UsedRows(g))
FirstUsedCol(g) == IF UsedCols(g) = {} THEN 1 ELSE Min(UsedCols(g))
LastUsedCol(g) == IF UsedCols(g) = {} THEN 0 ELSE Max(UsedCols(g))

\* A cell sent as None or as blank text leaves the cell blank.
WithRow(g, row, col, cells, r) ==
    [g EXCEPT ![row] = [c \in Cols |->
        IF c \notin col .. col + Len(cells) - 1 THEN @[c]
        ELSE IF cells[c - col + 1] THEN r ELSE Blank]]

\* A table has a header row, here without blanks.
Init ==
    /\ mode \in {"download", "graph"}
    /\ place \in [Requests -> {"table", "sheet"}]
    /\ sent \in {x \in [Requests -> RowsToAdd] :
                   \A r \in Requests : x[r].names # {} => place[r] = "table"}
    /\ table \in {t \in Refs :
                    t.bottom <= FirstRows /\ FirstCol <= t.left /\ t.right <= LastCol}
    /\ \E data \in SUBSET ((1 .. FirstRows) \X (FirstCol .. LastCol)) :
          /\ \A c \in Columns(table) : <<table.top, c>> \in data
          /\ grid = [r \in Rows |-> [c \in Cols |-> IF <<r, c>> \in data THEN Old ELSE Blank]]
    /\ columns = SubSeq(Headers, 1, table.right - table.left + 1)
    /\ pc = [r \in Requests |-> "start"]
    /\ ordered = [r \in Requests |-> <<>>]
    /\ used = [r \in Requests |-> NoRange]
    /\ address = [r \in Requests |-> NoAddress]
    /\ edited = [r \in Requests |-> NoCopy]
    /\ current = {}
    /\ tries = [r \in Requests |-> 0]
    /\ answer = [r \in Requests |-> NoAnswer]
    /\ stale = [r \in Requests |-> FALSE]
    /\ moves = 0

-----------------------------------------------------------------------------
(* Answers.                                                                *)

Goto(r, step) == pc' = [pc EXCEPT ![r] = step]

Finish(r, status, row) ==
    /\ Goto(r, "done")
    /\ answer' = [answer EXCEPT ![r] = [status |-> status, row |-> row]]
    /\ used' = [used EXCEPT ![r] = NoRange]
    /\ edited' = [edited EXCEPT ![r] = NoCopy]
    /\ UNCHANGED <<ordered, address, tries>>

Refuse(r, status) ==
    /\ Finish(r, status, 0)
    /\ current' = current \ {r}
    /\ UNCHANGED <<workbook, stale>>

\* r makes the sheet g: who looked at its used range before and has yet to write is late.
Save(r, g) ==
    /\ grid' = g
    /\ stale' = [s \in Requests |->
                    stale[s] \/ (s # r /\ pc[s] \in {"probe", "patch"} /\ g # grid)]
    /\ UNCHANGED <<columns, current>>

\* The cells in the order of the table's columns.
Ordered(r) ==
    IF sent[r].names = {} THEN sent[r].cells
    ELSE [i \in DOMAIN columns |-> columns[i] \in sent[r].names]

\* "has no column", "has n columns but m values were sent".
Matches(r) == sent[r].names \subseteq ToSet(columns) /\ Len(Ordered(r)) = Len(columns)

-----------------------------------------------------------------------------
(* excel_edit.append_row: download mode, on what is in the file.           *)

LastWithData(g, t) ==
    Max({t.top} \cup {r \in t.top + 1 .. t.bottom : ~IsBlankRow(g, r, Columns(t))})

TargetRow == LastWithData(grid, table) + 1
Grows == TargetRow > table.bottom

\* The table cannot grow over data: Excel would push it down, this code cannot.
InTheWay == Grows /\ ~IsBlankRow(grid, TargetRow, Columns(table))

MutantRefNotGrown(t, row) == t

\* tbl.ref after the row is in it.
Grown(t, row) == IF row > t.bottom THEN [t EXCEPT !.bottom = row] ELSE t

TableEdit(r) ==
    [grid |-> WithRow(grid, TargetRow, table.left, Ordered(r), r),
     table |-> Grown(table, TargetRow), columns |-> columns, row |-> TargetRow - table.top]

\* max_row * max_column, of which blank cells that have a style only make more.
TooLarge == LastUsedRow(grid) * LastUsedCol(grid) > MAX_SCAN_CELLS

SheetEdit(r) ==
    [grid |-> WithRow(grid, LastUsedRow(grid) + 1, FirstUsedCol(grid), sent[r].cells, r),
     table |-> table, columns |-> columns, row |-> LastUsedRow(grid) + 1]

-----------------------------------------------------------------------------
(* _append_row_by_download: one round.                                     *)

\* The item's ETag, its content, and the row added to the copy.  (If somebody saves the
\* file between the two calls the copy is as good as out of date: its save is refused.)
Download(r, copy) ==
    /\ Goto(r, "put")
    /\ edited' = [edited EXCEPT ![r] = copy]
    /\ current' = current \cup {r}
    /\ UNCHANGED <<workbook, looked, tries, answer, stale>>

AppendToTable(r) ==
    /\ mode = "download" /\ place[r] = "table" /\ pc[r] = "start"
    /\ \/ ~Matches(r) /\ Refuse(r, "bad_request")
       \/ Matches(r) /\ InTheWay /\ Refuse(r, "conflict")
       \/ Matches(r) /\ ~InTheWay /\ Download(r, TableEdit(r))
    /\ UNCHANGED <<inputs, moves>>

\* A sheet may be refused as too large for the sake of blank cells with a style.
AppendBelowData(r) ==
    /\ mode = "download" /\ place[r] = "sheet" /\ pc[r] = "start"
    /\ \/ Refuse(r, "bad_request")
       \/ sent[r].cells # <<>> /\ ~TooLarge /\ Download(r, SheetEdit(r))
    /\ UNCHANGED <<inputs, moves>>

MutantNoIfMatch(r) == TRUE

\* If-Match: nobody saved the file since it was read.
Current(r) == r \in current

\* The copy becomes the file, whose ETag is new.
Store(r) ==
    /\ grid' = edited[r].grid /\ table' = edited[r].table /\ columns' = edited[r].columns
    /\ current' = {}
    /\ UNCHANGED stale

\* "Read it again and redo the add", or "kept changing".
NextRound(r) ==
    \/ /\ tries[r] < EXCEL_APPEND_ATTEMPTS - 1
       /\ tries' = [tries EXCEPT ![r] = @ + 1]
       /\ Goto(r, "start")
       /\ edited' = [edited EXCEPT ![r] = NoCopy]
       /\ UNCHANGED <<looked, answer>>
    \/ tries[r] = EXCEL_APPEND_ATTEMPTS - 1 /\ Finish(r, "conflict", 0)

\* The PUT is carried out: the answer arrives; or none does; or 503 or 504, and the
\* repetition, with the old ETag, meets a 412.
Upload(r) ==
    /\ pc[r] = "put" /\ Current(r)
    /\ Store(r)
    /\ \/ Finish(r, "added", edited[r].row)
       \/ Finish(r, "failed", 0)
       \/ MAX_RETRIES > 0 /\ NextRound(r)
    /\ UNCHANGED <<inputs, moves>>

\* 412 for the PUT, or for the upload session.
UploadRefused(r) ==
    /\ pc[r] = "put" /\ ~Current(r)
    /\ NextRound(r)
    /\ UNCHANGED <<inputs, workbook, current, stale, moves>>

\* A copy that is large: POST .../createUploadSession.
OpenSession(r) ==
    /\ pc[r] = "put" /\ Current(r)
    /\ Goto(r, "chunk")
    /\ UNCHANGED <<inputs, workbook, looked, copies, tries, answer, stale, moves>>

\* The last part arrives, which goes without an If-Match.
CommitSession(r) ==
    /\ pc[r] = "chunk"
    /\ Store(r)
    /\ Finish(r, "added", edited[r].row) \/ Finish(r, "failed", 0)
    /\ UNCHANGED <<inputs, moves>>

-----------------------------------------------------------------------------
(* _append_table_row: graph mode, with a table.                            *)

\* GET .../columns.
GetColumns(r) ==
    /\ mode = "graph" /\ place[r] = "table" /\ pc[r] = "start"
    /\ \/ ~Matches(r) /\ Refuse(r, "bad_request")
       \/ /\ Matches(r) /\ Goto(r, "add")
          /\ ordered' = [ordered EXCEPT ![r] = Ordered(r)]
          /\ UNCHANGED <<workbook, used, address, copies, tries, answer, stale>>
    /\ UNCHANGED <<inputs, moves>>

\* What rows/add does to the sheet.
Inserted(r) ==
    LET below == table.bottom + 1
        pushed == [s \in Rows |-> [c \in Cols |->
            IF c \in Columns(table) /\ s > below THEN grid[s - 1][c] ELSE grid[s][c]]]
    IN  WithRow(pushed, below, table.left, ordered[r], r)

MutantLooksAgain(r, row) ==
    \/ Finish(r, "added", row)
    \/ /\ tries[r] < MAX_RETRIES
       /\ tries' = [tries EXCEPT ![r] = @ + 1]
       /\ Goto(r, "start")
       /\ UNCHANGED <<looked, edited, answer>>

\* The writing call was carried out: the answer arrives, or 503 or 504 and another
\* attempt, or none.
Answered(r, row) ==
    \/ Finish(r, "added", row)
    \/ Finish(r, "failed", 0)
    \/ /\ tries[r] < MAX_RETRIES
       /\ tries' = [tries EXCEPT ![r] = @ + 1]
       /\ UNCHANGED <<pc, looked, edited, answer>>

\* POST .../rows/add; index + 1 is the answer.
AddRow(r) ==
    /\ pc[r] = "add"
    /\ Save(r, Inserted(r))
    /\ table' = [table EXCEPT !.bottom = @ + 1]
    /\ Answered(r, table.bottom + 1 - table.top)
    /\ UNCHANGED <<inputs, moves>>

-----------------------------------------------------------------------------
(* _append_sheet_row: graph mode, without a table.                         *)

\* The used range with values; an empty sheet reports cell A1.
UsedRange ==
    IF UsedRows(grid) = {} THEN [row |-> 1, col |-> 1, rows |-> 1, cols |-> 1]
    ELSE [row |-> Min(UsedRows(grid)), col |-> FirstUsedCol(grid),
          rows |-> LastUsedRow(grid) - Min(UsedRows(grid)) + 1,
          cols |-> LastUsedCol(grid) - FirstUsedCol(grid) + 1]

MutantNoCarry(index) == <<index % LETTERS>>

\* "0 -> A, 25 -> Z, 26 -> AA": the letters are numbers from 0 on.
column_letter(index) ==
    LET letters[number \in 0 .. index + 1] ==
            IF number = 0 THEN <<>>
            ELSE Append(letters[(number - 1) \div LETTERS], (number - 1) % LETTERS)
    IN  letters[index + 1]

\* The column that Excel takes letters for, counted from 1.
ColumnOf(letters) ==
    LET value[n \in 0 .. Len(letters)] ==
            IF n = 0 THEN 0 ELSE value[n - 1] * LETTERS + letters[n] + 1
    IN  value[Len(letters)]

\* The address: below the range that was read, or from A1 on.
Choose(r, range, empty) ==
    LET start_col == IF empty THEN 0 ELSE range.col - 1 IN
    /\ Goto(r, "patch")
    /\ address' = [address EXCEPT ![r] =
                    [row |-> IF empty THEN 1 ELSE range.row + range.rows,
                     from |-> column_letter(start_col),
                     to |-> column_letter(start_col + Len(sent[r].cells) - 1)]]

\* GET .../usedRange.
GetUsedRange(r) ==
    /\ mode = "graph" /\ place[r] = "sheet" /\ pc[r] = "start"
    /\ \/ sent[r].cells = <<>> /\ Refuse(r, "bad_request")
       \/ /\ sent[r].cells # <<>>
          /\ used' = [used EXCEPT ![r] = UsedRange]
          /\ IF UsedRange.rows = 1 /\ UsedRange.cols = 1
             THEN Goto(r, "probe") /\ UNCHANGED address
             ELSE Choose(r, UsedRange, FALSE)
          /\ UNCHANGED <<workbook, ordered, copies, tries, answer, stale>>
    /\ UNCHANGED <<inputs, moves>>

\* GET .../usedRange?$select=values: is that one cell empty?
ProbeSheet(r) ==
    /\ pc[r] = "probe"
    /\ Choose(r, used[r], UsedRows(grid) = {})
    /\ UNCHANGED <<inputs, workbook, ordered, used, copies, tries, answer, stale, moves>>

\* PATCH .../range(address=...), which does not look at what is there; Excel refuses
\* values that do not fit the range.
PatchRange(r) ==
    LET from == ColumnOf(address[r].from)  to == ColumnOf(address[r].to) IN
    /\ pc[r] = "patch"
    /\ \/ to - from + 1 # Len(sent[r].cells) /\ Refuse(r, "bad_request")
       \/ /\ to - from + 1 = Len(sent[r].cells)
          /\ Save(r, WithRow(grid, address[r].row, from, sent[r].cells, r))
          /\ Answered(r, address[r].row)
          /\ UNCHANGED table
    /\ UNCHANGED <<inputs, moves>>

-----------------------------------------------------------------------------

MutantRetryForever(r) ==
    /\ pc[r] \in {"add", "patch"}
    /\ tries' = [tries EXCEPT ![r] = @ + 1]
    /\ UNCHANGED <<inputs, workbook, pc, looked, copies, answer, stale, moves>>

\* 429, 503 or 504 for a call that was not carried out.
Throttled(r) ==
    /\ pc[r] \in {"add", "patch"} /\ tries[r] < MAX_RETRIES
    /\ tries' = [tries EXCEPT ![r] = @ + 1]
    /\ UNCHANGED <<inputs, workbook, pc, looked, copies, answer, stale, moves>>

\* A call fails; or, before anything is written, the file is no workbook, the table or
\* sheet is missing, the table has a totals row, or a text looks like a formula.
CallFails(r) ==
    /\ pc[r] # "done"
    /\ Refuse(r, "failed")
    /\ UNCHANGED <<inputs, moves>>

Swapped(f, i, j) == [f EXCEPT ![i] = f[j], ![j] = f[i]]

\* Somebody swaps two columns of the table, with all that is in them, while a request is
\* between its calls.  (At other times the sheet is just another sheet to start from.)
PersonMovesColumn(i, j) ==
    LET c == table.left + i - 1  d == table.left + j - 1 IN
    /\ moves < MaxMoves /\ \E r \in Requests : pc[r] \notin {"start", "done"}
    /\ moves' = moves + 1
    /\ columns' = Swapped(columns, i, j)
    /\ grid' = [r \in Rows |-> IF r \in table.top .. table.bottom THEN Swapped(grid[r], c, d)
                               ELSE grid[r]]
    /\ stale' = [r \in Requests |-> stale[r] \/ pc[r] = "add"
                                     \/ (pc[r] \in {"probe", "patch"} /\ grid' # grid)]
    /\ current' = {}
    /\ UNCHANGED <<inputs, table, pc, looked, edited, tries, answer>>

Terminated == (\A r \in Requests : pc[r] = "done") /\ UNCHANGED vars

Step(r) ==
    \/ AppendToTable(r) \/ AppendBelowData(r)
    \/ Upload(r) \/ UploadRefused(r) \/ OpenSession(r) \/ CommitSession(r)
    \/ GetColumns(r) \/ AddRow(r)
    \/ GetUsedRange(r) \/ ProbeSheet(r) \/ PatchRange(r)
    \/ Throttled(r) \/ CallFails(r)

Next ==
    \/ \E r \in Requests : Step(r)
    \/ \E i, j \in DOMAIN columns : i < j /\ PersonMovesColumn(i, j)
    \/ Terminated

Spec == Init /\ [][Next]_vars

-----------------------------------------------------------------------------
(* What the code promises.                                                 *)

Cells(g, v) == {c \in Rows \X Cols : g[c[1]][c[2]] = v}

\* No request destroys data, whether old or another request's, but the two that write
\* although what they looked at has changed: a sheet row in graph mode, whose used range
\* was read before (the race that sharepoint_client.py:732-733 admits), and a copy so large
\* that it is saved in an upload session, which somebody overtakes after its ETag was
\* checked (:602-627; run file_session_overwrite shows it for the file).  A copy saved in
\* one PUT never does, and neither does any number of table rows in graph mode (:726-727).
DataLostOnlyToStaleRow ==
    [][\A v \in Values \ {Blank} :
          Cardinality(Cells(grid', v)) < Cardinality(Cells(grid, v)) =>
              \E r \in Requests :
                  /\ pc'[r] # pc[r] \/ tries'[r] # tries[r]
                  /\ (pc[r] = "patch" /\ stale[r]) \/ (pc[r] = "chunk" /\ r \notin current)]_vars

\* The first column with data above a row.
LeftEdge(g, row) ==
    LET cs == {c \in Cols : \E s \in Rows : s < row /\ g[s][c] # Blank}
    IN  IF cs = {} THEN 1 ELSE Min(cs)

\* "Adds one row to the end": when a caller is told that its row is in, the row is
\* where row_number says, its values and no others, each in its column (the one of its
\* name, if it was sent by name; from the first column with data on, in a sheet), and
\* nothing of the table or the sheet lies below it.  In graph mode that is so if what the
\* caller looked at, the used range or the columns, is still so; in download mode always,
\* for the workbook that was read is saved with the row.
RowIsAtTheEnd ==
    [][\A r \in Requests :
          answer'[r].status = "added" /\ pc[r] # "done" /\ ~stale[r] =>
              LET ofTable == place[r] = "table"
                  row == IF ofTable THEN table'.top + answer'[r].row ELSE answer'[r].row
                  left == IF ofTable THEN table'.left ELSE LeftEdge(grid', row)
                  cells == IF ofTable THEN Ordered(r)' ELSE sent[r].cells
                  cs == IF ofTable THEN Columns(table') ELSE Cols
              IN  /\ \A i \in DOMAIN cells : cells[i] <=> grid'[row][left + i - 1] = r
                  /\ \A s \in Rows : s > row /\ (ofTable => s <= table'.bottom) =>
                        IsBlankRow(grid', s, cs)]_vars

\* A request is in the workbook once for each attempt that may have added it, and no
\* oftener.  In graph mode _send repeats rows/add after a lost answer
\* (sharepoint_client.py:837, :362), but a sheet row is there once however often the PATCH
\* is repeated, for it goes to the same cells - unless these were moved meanwhile.  In
\* download mode a lost answer to the PUT leads to a 412, and the next round adds the row
\* again (:362, :798-803; run file_duplicate_row), so a round is an attempt.
LandsOncePerAttempt ==
    \A r \in Requests :
        LET given == Cardinality(sent[r].names)
                     + Cardinality({i \in DOMAIN sent[r].cells : sent[r].cells[i]})
            attempts == IF mode = "graph" /\ place[r] = "sheet" /\ ~stale[r] THEN 1
                        ELSE tries[r] + 1
        IN  Cardinality(Cells(grid, r)) <= given * attempts

\* What was added to the table is inside its ref, under the header, in both modes and
\* whatever else is written to the sheet: no row is left outside the table it belongs to.
TableRowsStayInTable ==
    \A r \in Requests : place[r] = "table" =>
        \A c \in Cells(grid, r) :
            c[1] \in table.top + 1 .. table.bottom /\ c[2] \in Columns(table)
=============================================================================
