--------------------------- MODULE RedshiftQuery ----------------------------
(***************************************************************************)
(* POST /query: raw SQL through the psycopg2 connection pool of each       *)
(* worker process.  A query runs in a thread of the process's threadpool,  *)
(* so its steps interleave with those of the other queries: take a         *)
(* connection, execute, commit or roll back, give the connection back,     *)
(* and then, on the event loop again, write the audit record and answer.   *)
(*                                                                         *)
(* The pool (ThreadedConnectionPool) and Redshift are external.  A         *)
(* connection may break at any moment: an idle timeout, a VPN drop, a      *)
(* failover.  Nobody notices before it is used.  A query may change tables *)
(* and the settings of its session (SET search_path, a temporary table);   *)
(* both count when they are committed, and the session outlives the query. *)
(***************************************************************************)
EXTENDS Naturals, Sequences, FiniteSets, Functions

CONSTANTS
    Queries,        \* the /query requests
    Workers,        \* the worker processes of one pod
    WorkerOf,       \* the process that serves a query
    Conns,          \* connections that may ever be opened (bound)
    NoConn,         \* no connection
    POOL_MIN,       \* pool_min_conns
    POOL_MAX,       \* pool_max_conns
    MaxBreaks,      \* bound: connections that break
    Sensitive,      \* DEFAULT_SENSITIVE_FIELDS
    Results         \* the rows a query may return: fields with their text

ASSUME QueryAssumption ==
    /\ WorkerOf \in [Queries -> Workers]
    /\ NoConn \notin Conns

ASSUME PoolAssumption ==
    /\ POOL_MIN \in Nat /\ POOL_MAX \in Nat \ {0}
    /\ POOL_MIN <= POOL_MAX
    /\ MaxBreaks \in Nat

\* A text is a sequence of characters: numbers here, of which 0 is the star.  NULL, which
\* stays as it is, counts as a text of no characters.
Star == 0

ASSUME ResultAssumption ==
    \A row \in Results : \A f \in DOMAIN row : row[f] \in Seq(Nat \ {Star})

VARIABLES
    client,     \* per process: whether its RedshiftClient exists
    idle,       \* per process: the pool's free connections, the last is taken first
    used,       \* per process: the connections handed out
    link,       \* per connection: "new", "live", "broken" (unnoticed), "closed"
    open,       \* per connection: the queries with effects in its open transaction
    session,    \* per connection: the queries whose settings are in force in it
    pc,         \* where a query is
    held,       \* the connection a query holds
    outcome,    \* how its execute() ends: "rows", "query_error", "raw_error"
    response,   \* HTTP status, or "none"
    shown,      \* the row that its response shows
    audit,      \* the statuses its audit records carry
    committed,  \* queries whose effects are durable
    breaks      \* how many connections broke

pool    == <<client, idle, used>>
threads == <<pc, held, outcome>>
answers == <<response, shown, audit>>
changes == <<open, session>>
vars == <<pool, link, changes, threads, answers, committed, breaks>>

NoRow == <<>>

\* What a response may show.
Shown == {NoRow} \cup UNION {[DOMAIN row -> Seq(Nat)] : row \in Results}

\* The pcs at which a thread is inside `with self._connection()`.
Inside == {"execute", "commit", "rollback", "putconn"}

TypeOK ==
    /\ client \in [Workers -> BOOLEAN]
    /\ idle \in [Workers -> Seq(Conns)]
    /\ used \in [Workers -> SUBSET Conns]
    /\ link \in [Conns -> {"new", "live", "broken", "closed"}]
    /\ open \in [Conns -> SUBSET Queries] /\ session \in [Conns -> SUBSET Queries]
    /\ pc \in [Queries -> Inside \cup {"get_client", "getconn", "answer", "done"}]
    /\ held \in [Queries -> Conns \cup {NoConn}]
    /\ outcome \in [Queries -> {"none", "rows", "query_error", "raw_error"}]
    /\ response \in [Queries -> {"none", "200", "502", "500"}]
    /\ shown \in [Queries -> Shown]
    /\ audit \in [Queries -> Seq({"ok", "failed"})]
    /\ committed \subseteq Queries
    /\ breaks \in 0 .. MaxBreaks

Init ==
    /\ client = [w \in Workers |-> FALSE]
    /\ idle = [w \in Workers |-> <<>>]
    /\ used = [w \in Workers |-> {}]
    /\ link = [c \in Conns |-> "new"]
    /\ open = [c \in Conns |-> {}] /\ session = [c \in Conns |-> {}]
    /\ pc = [q \in Queries |-> "get_client"]
    /\ held = [q \in Queries |-> NoConn]
    /\ outcome = [q \in Queries |-> "none"]
    /\ response = [q \in Queries |-> "none"]
    /\ shown = [q \in Queries |-> NoRow]
    /\ audit = [q \in Queries |-> <<>>]
    /\ committed = {}
    /\ breaks = 0

-----------------------------------------------------------------------------
(* Answering, in run_query.                                                *)

Goto(q, step) == pc' = [pc EXCEPT ![q] = step]

MutantSuccessNotLogged(q, status) ==
    audit' = [audit EXCEPT ![q] = IF status = "ok" THEN @ ELSE Append(@, status)]

log_query(q, status) == audit' = [audit EXCEPT ![q] = Append(@, status)]

Answer(q, code, status) ==
    /\ Goto(q, "done")
    /\ response' = [response EXCEPT ![q] = code]
    /\ log_query(q, status)

\* What leaves the gateway of a field that is not to be seen: its last four characters.
MutantFourShown(text) ==
    [i \in DOMAIN text |-> IF i + 4 <= Len(text) THEN Star ELSE text[i]]

mask_value(text) ==
    [i \in DOMAIN text |-> IF Len(text) <= 4 \/ i + 4 <= Len(text) THEN Star ELSE text[i]]

mask_record(row) ==
    [f \in DOMAIN row |-> IF f \in Sensitive THEN mask_value(row[f]) ELSE row[f]]

\* Any exception that is not a RedshiftError passes run_query by.
Escape(q) ==
    /\ Goto(q, "done")
    /\ response' = [response EXCEPT ![q] = "500"]
    /\ UNCHANGED audit

-----------------------------------------------------------------------------
(* get_redshift_client, on the event loop: no other request of the process *)
(* runs in between.                                                        *)

\* Connections that were never opened.
NewConns == {c \in Conns : link[c] = "new"}

MutantClientPerQuery(q) ==
    /\ pc[q] = "get_client" /\ client[WorkerOf[q]]
    /\ \E first \in [1 .. POOL_MIN -> NewConns] :
          /\ IsInjective(first)
          /\ idle' = [idle EXCEPT ![WorkerOf[q]] = first]
          /\ link' = [c \in Conns |-> IF c \in Range(first) THEN "live" ELSE link[c]]
    /\ Goto(q, "getconn")
    /\ UNCHANGED <<client, used, changes, held, outcome, answers, committed, breaks>>

UseClient(q) ==
    /\ pc[q] = "get_client" /\ client[WorkerOf[q]]
    /\ Goto(q, "getconn")
    /\ UNCHANGED <<pool, link, changes, held, outcome, answers, committed, breaks>>

\* The pool opens its minimum of connections at once.
CreateClient(q) ==
    /\ pc[q] = "get_client" /\ ~client[WorkerOf[q]]
    /\ \E first \in [1 .. POOL_MIN -> NewConns] :
          /\ IsInjective(first)
          /\ idle' = [idle EXCEPT ![WorkerOf[q]] = first]
          /\ link' = [c \in Conns |-> IF c \in Range(first) THEN "live" ELSE link[c]]
    /\ client' = [client EXCEPT ![WorkerOf[q]] = TRUE]
    /\ Goto(q, "getconn")
    /\ UNCHANGED <<used, changes, held, outcome, answers, committed, breaks>>

\* No credentials file, no route, wrong password: a RedshiftError, and the next
\* query tries again.  Credentials that are not JSON: some other exception.
CreateClientFails(q) ==
    /\ pc[q] = "get_client" /\ ~client[WorkerOf[q]]
    /\ Answer(q, "502", "failed") \/ Escape(q)
    /\ UNCHANGED <<pool, link, changes, held, outcome, shown, committed, breaks>>

-----------------------------------------------------------------------------
(* execute, in a thread.                                                   *)

HasRoom(w) == Cardinality(used[w]) # POOL_MAX

\* getconn: a free connection, whether or not it still works; else a new one.
GetConn(q) ==
    LET w == WorkerOf[q] IN
    /\ pc[q] = "getconn"
    /\ \/ /\ idle[w] # <<>>
          /\ LET c == idle[w][Len(idle[w])] IN
                /\ idle' = [idle EXCEPT ![w] = SubSeq(@, 1, Len(@) - 1)]
                /\ used' = [used EXCEPT ![w] = @ \cup {c}]
                /\ held' = [held EXCEPT ![q] = c]
          /\ UNCHANGED link
       \/ /\ idle[w] = <<>> /\ HasRoom(w)
          /\ \E c \in NewConns :
                /\ link' = [link EXCEPT ![c] = "live"]
                /\ used' = [used EXCEPT ![w] = @ \cup {c}]
                /\ held' = [held EXCEPT ![q] = c]
          /\ UNCHANGED idle
    /\ Goto(q, "execute")
    /\ UNCHANGED <<client, changes, outcome, answers, committed, breaks>>

MutantExhaustedUnnoticed(q) ==
    /\ pc[q] = "getconn"
    /\ idle[WorkerOf[q]] = <<>>
    /\ used' = [used EXCEPT ![WorkerOf[q]] = @ \cup {NoConn}]
    /\ Goto(q, "execute")
    /\ UNCHANGED <<client, idle, link, changes, held, outcome, answers, committed,
                   breaks>>

\* The pool is exhausted, or a new connection cannot be made.
GetConnFails(q) ==
    /\ pc[q] = "getconn"
    /\ idle[WorkerOf[q]] = <<>>
    /\ Answer(q, "502", "failed")
    /\ UNCHANGED <<pool, link, changes, held, outcome, shown, committed, breaks>>

\* cur.execute and fetchall.  A statement may fail half-way (bad SQL, the statement
\* timeout); using a broken connection fails and closes it.
Execute(q) ==
    LET c == held[q] IN
    /\ pc[q] = "execute"
    /\ \/ /\ link[c] = "live"
          /\ open' = [open EXCEPT ![c] = @ \cup {q}]
          /\ Goto(q, "commit") \/ Goto(q, "rollback")
          /\ UNCHANGED link
       \/ /\ link[c] = "broken"
          /\ link' = [link EXCEPT ![c] = "closed"]
          /\ open' = [open EXCEPT ![c] = {}]
          /\ Goto(q, "rollback")
    /\ UNCHANGED <<pool, session, held, outcome, answers, committed, breaks>>

\* conn.commit().  It may be refused (a serialization conflict); on a connection that
\* breaks on the way, Redshift may or may not have committed.
Commit(q) ==
    LET c == held[q] IN
    /\ pc[q] = "commit"
    /\ \/ /\ link[c] = "live"
          /\ committed' = committed \cup open[c]
          /\ session' = [session EXCEPT ![c] = @ \cup open[c]]
          /\ open' = [open EXCEPT ![c] = {}]
          /\ outcome' = [outcome EXCEPT ![q] = "rows"]
          /\ Goto(q, "putconn")
          /\ UNCHANGED link
       \/ /\ link[c] = "live"
          /\ Goto(q, "rollback")
          /\ UNCHANGED <<committed, changes, outcome, link>>
       \/ /\ link[c] = "broken"
          /\ committed' \in {committed, committed \cup open[c]}
          /\ open' = [open EXCEPT ![c] = {}]
          /\ link' = [link EXCEPT ![c] = "closed"]
          /\ Goto(q, "rollback")
          /\ UNCHANGED <<session, outcome>>
    /\ UNCHANGED <<pool, held, answers, breaks>>

MutantNoRollback(q) ==
    /\ pc[q] = "rollback"
    /\ outcome' = [outcome EXCEPT ![q] = "query_error"]
    /\ Goto(q, "putconn")
    /\ UNCHANGED <<pool, link, changes, held, answers, committed, breaks>>

MutantCommitOnError(q) ==
    /\ pc[q] = "rollback"
    /\ outcome' = [outcome EXCEPT ![q] = "query_error"]
    /\ committed' = committed \cup open[held[q]]
    /\ open' = [open EXCEPT ![held[q]] = {}]
    /\ Goto(q, "putconn")
    /\ UNCHANGED <<pool, link, session, held, answers, breaks>>

\* The except clause: conn.rollback(), which itself raises on a dead connection, so
\* that the RedshiftQueryError after it is never raised.
Rollback(q) ==
    LET c == held[q] IN
    /\ pc[q] = "rollback"
    /\ open' = [open EXCEPT ![c] = {}]
    /\ \/ /\ link[c] = "live"
          /\ outcome' = [outcome EXCEPT ![q] = "query_error"]
          /\ UNCHANGED link
       \/ /\ link[c] \in {"broken", "closed"}
          /\ link' = [link EXCEPT ![c] = "closed"]
          /\ outcome' = [outcome EXCEPT ![q] = "raw_error"]
    /\ Goto(q, "putconn")
    /\ UNCHANGED <<pool, session, held, answers, committed, breaks>>

MutantPutAfterSuccessOnly(q) ==
    LET w == WorkerOf[q]  c == held[q] IN
    /\ pc[q] = "putconn"
    /\ used' = [used EXCEPT ![w] = IF outcome[q] = "rows" THEN @ \ {c} ELSE @]
    /\ held' = [held EXCEPT ![q] = NoConn]
    /\ Goto(q, "answer")
    /\ UNCHANGED <<client, idle, link, changes, outcome, answers, committed, breaks>>

\* The finally clause: putconn keeps POOL_MIN free connections and closes the others;
\* what it knows to be closed it forgets.
PutConn(q) ==
    LET w == WorkerOf[q]  c == held[q] IN
    /\ pc[q] = "putconn"
    /\ used' = [used EXCEPT ![w] = @ \ {c}]
    /\ held' = [held EXCEPT ![q] = NoConn]
    /\ IF link[c] # "closed" /\ Len(idle[w]) < POOL_MIN
       THEN idle' = [idle EXCEPT ![w] = Append(@, c)] /\ UNCHANGED link
       ELSE link' = [link EXCEPT ![c] = "closed"] /\ UNCHANGED idle
    /\ Goto(q, "answer")
    /\ UNCHANGED <<client, changes, outcome, answers, committed, breaks>>

\* Back on the event loop: mask, log and answer, or turn the error into a response.
\* Rows that JSON cannot express (a NaN) fail after they were logged.
Respond(q) ==
    /\ pc[q] = "answer"
    /\ \/ /\ outcome[q] = "rows" /\ Answer(q, "200", "ok")
          /\ \E row \in Results : shown' = [shown EXCEPT ![q] = mask_record(row)]
       \/ outcome[q] = "rows" /\ Answer(q, "500", "ok") /\ UNCHANGED shown
       \/ outcome[q] = "query_error" /\ Answer(q, "502", "failed") /\ UNCHANGED shown
       \/ outcome[q] = "raw_error" /\ Escape(q) /\ UNCHANGED shown
    /\ UNCHANGED <<pool, link, changes, held, outcome, committed, breaks>>

-----------------------------------------------------------------------------

\* The server or the network drops a connection; Redshift aborts what it had open
\* (unless a commit is under way, see Commit).
ConnBreaks(c) ==
    /\ link[c] = "live" /\ breaks < MaxBreaks
    /\ breaks' = breaks + 1
    /\ link' = [link EXCEPT ![c] = "broken"]
    /\ UNCHANGED <<pool, changes, threads, answers, committed>>

Terminated == (\A q \in Queries : pc[q] = "done") /\ UNCHANGED vars

Step(q) ==
    \/ UseClient(q) \/ CreateClient(q) \/ CreateClientFails(q)
    \/ GetConn(q) \/ GetConnFails(q)
    \/ Execute(q) \/ Commit(q) \/ Rollback(q) \/ PutConn(q) \/ Respond(q)

Next ==
    \/ \E q \in Queries : Step(q)
    \/ \E c \in Conns : ConnBreaks(c)
    \/ Terminated

Spec == Init /\ [][Next]_vars

-----------------------------------------------------------------------------
(* What the code promises.                                                 *)

\* A connection belongs to at most one thread at a time, and exactly the threads
\* inside `with self._connection()` (redshift_client.py:112-120) hold one: whatever
\* fails, none is leaked, so the pool never runs dry for good.
UsedIsHeld ==
    /\ \A w \in Workers :
          used[w] = {held[q] : q \in {p \in Queries : WorkerOf[p] = w /\ pc[p] \in Inside}}
    /\ \A p, q \in Queries :
          pc[p] \in Inside /\ pc[q] \in Inside /\ held[p] = held[q] => p = q
    /\ \A w \in Workers : IsInjective(idle[w]) /\ Range(idle[w]) \cap used[w] = {}

\* No process has more connections than its pool's limit, and none is left open that
\* no pool knows of: a pod holds at most POOL_MAX times its processes, two of which the
\* Dockerfile (:10) starts, however often connections break and pools shrink and grow.
PoolWithinLimit ==
    /\ \A w \in Workers : Len(idle[w]) + Cardinality(used[w]) <= POOL_MAX
    /\ \A c \in Conns : link[c] \in {"live", "broken"} =>
          \E w \in Workers : c \in Range(idle[w]) \cup used[w]

\* No query's half-done work is left in a connection that another query gets: commit or
\* rollback always comes before the connection is free again.  The settings of the
\* queries before do stay, but only of those that were carried out.
CleanHandover ==
    /\ \A w \in Workers : \A c \in Range(idle[w]) : open[c] = {}
    /\ \A q \in Queries : pc[q] \in Inside => open[held[q]] \subseteq {q}
    /\ \A c \in Conns : session[c] \subseteq {q \in Queries : outcome[q] = "rows"}

\* The response says what happened: 200 means the statement is committed, 502 means
\* it is not.
TrueOutcome ==
    \A q \in Queries :
        /\ response[q] = "200" => q \in committed
        /\ response[q] = "502" => q \notin committed

\* A 200 has exactly one audit record, "ok", and a 502 exactly one, "failed"
\* (routes/query.py:28-40); "ok" is recorded only of what is committed.
AuditMatchesResponse ==
    \A q \in Queries :
        /\ response[q] = "200" => audit[q] = <<"ok">>
        /\ response[q] = "502" <=> audit[q] = <<"failed">>
        /\ audit[q] = <<"ok">> => q \in committed

\* Of a sensitive field a response shows at most the last four characters, and nothing
\* of one that is no longer than that (governance/masking.py:24-37).
SensitiveStaysHidden ==
    \A q \in Queries : \A f \in DOMAIN shown[q] \cap Sensitive :
        LET text == shown[q][f] IN
        \A i \in DOMAIN text : text[i] # Star => Len(text) > 4 /\ i > Len(text) - 4

\* Once the client exists, no failure of a query ends in FastAPI's blank 500: "all of
\* these should come back as a real JSON error" (routes/query.py:31-34).
NoBlankError ==
    \A q \in Queries : response[q] = "500" /\ outcome[q] # "rows" => ~client[WorkerOf[q]]
=============================================================================
