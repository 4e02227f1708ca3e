--------------------------- MODULE GatewayClient ----------------------------
(***************************************************************************)
(* What every SharePoint request of one worker process goes through before *)
(* and around its Graph calls: the module-level client that                *)
(* `Depends(get_sharepoint_client)` looks up in a thread, the one-time     *)
(* resolution of the document library (`_resolve`), and the access token   *)
(* that `_send` fetches before every attempt (`_TokenProvider.get`).       *)
(*                                                                         *)
(* Time is a number of ticks.  A token lives LIFETIME from the moment the  *)
(* sign-in was asked for it.  How long the sign-in takes to answer, and an *)
(* attempt to reach Graph, is open: httpx bounds each phase of an exchange *)
(* (sharepoint_timeout_seconds), not the whole of it.                      *)
(***************************************************************************)
EXTENDS Integers, Sequences, FiniteSets

CONSTANTS
    Requests,       \* the requests of the process
    NoClient,       \* `_client is None`
    MARGIN,         \* tokens are refreshed this long before they expire (60 s)
    LIFETIME,       \* expires_in of a token
    MAX_RETRIES,    \* retries of one Graph call
    MaxTime         \* bound: the clock stops here

ASSUME TimeAssumption == {MARGIN, LIFETIME, MAX_RETRIES, MaxTime} \subseteq Nat

ASSUME ClientAssumption == NoClient \notin Requests

\* What _resolve asks Graph for; the libraries come in up to two pages (bound), or are
\* the default one, for which one call is enough.
Lookups == {"site", "libraries", "more_libraries", "root"}

VARIABLES
    has_folder,     \* whether the root URL names a folder in the library
    global,         \* `_client`: a client is named after the request that made it
    client,         \* the client a request was given
    closed,         \* clients whose connections are closed
    drive,          \* per client: whether _drive_id is set
    confirmed,      \* history, per client: what lookups found as it must be
    resolved,       \* history, per client: how often the lookups all succeeded
    resolveLock,    \* per client: _resolve_lock, its holder and then the waiters
    tokenLock,      \* per client: the token provider's _lock
    token,          \* per client: the cached token: its end of life, and _expires_at
    pc,             \* where a request is
    purpose,        \* what its Graph call is for: a lookup, or "operate"
    tries,          \* retries spent on that call
    asked,          \* when the exchange under way began: a sign-in, or an attempt
    carried,        \* the token the attempt under way carries
    now             \* time.monotonic()

global_vars == <<has_folder, global, client, closed>>
remembered == <<drive, confirmed, resolved>>
locks == <<resolveLock, tokenLock>>
call  == <<purpose, tries, asked, carried>>
vars == <<global_vars, remembered, locks, token, pc, call, now>>

NoToken == [ends |-> 0, expires_at |-> 0]

TypeOK ==
    /\ has_folder \in BOOLEAN
    /\ global \in Requests \cup {NoClient}
    /\ client \in [Requests -> Requests \cup {NoClient}]
    /\ closed \subseteq Requests
    /\ drive \in [Requests -> BOOLEAN]
    /\ confirmed \in [Requests -> SUBSET {"site", "library", "root"}]
    /\ resolved \in [Requests -> Nat]
    /\ resolveLock \in [Requests -> Seq(Requests)]
    /\ tokenLock \in [Requests -> Seq(Requests)]
    /\ token \in [Requests -> [ends: Nat, expires_at: Nat]]
    /\ pc \in [Requests -> {"read", "construct", "return", "resolve", "wait_resolve",
                            "wait_token", "fetch", "send", "done"}]
    /\ purpose \in [Requests -> Lookups \cup {"operate"}]
    /\ tries \in [Requests -> 0 .. MAX_RETRIES]
    /\ asked \in [Requests -> 0 .. MaxTime]
    /\ carried \in [Requests -> [ends: Nat, expires_at: Nat]]
    /\ now \in 0 .. MaxTime

Init ==
    /\ has_folder \in BOOLEAN
    /\ global = NoClient
    /\ client = [r \in Requests |-> NoClient]
    /\ closed = {}
    /\ drive = [c \in Requests |-> FALSE]
    /\ confirmed = [c \in Requests |-> {}]
    /\ resolved = [c \in Requests |-> 0]
    /\ resolveLock = [c \in Requests |-> <<>>]
    /\ tokenLock = [c \in Requests |-> <<>>]
    /\ token = [c \in Requests |-> NoToken]
    /\ pc = [r \in Requests |-> "read"]
    /\ purpose = [r \in Requests |-> "operate"]
    /\ tries = [r \in Requests |-> 0]
    /\ asked = [r \in Requests |-> 0]
    /\ carried = [r \in Requests |-> NoToken]
    /\ now = 0

Goto(r, step) == pc' = [pc EXCEPT ![r] = step]

\* The request is answered; nothing of its call is left.
Finish(r) ==
    /\ Goto(r, "done")
    /\ purpose' = [purpose EXCEPT ![r] = "operate"]
    /\ tries' = [tries EXCEPT ![r] = 0]
    /\ asked' = [asked EXCEPT ![r] = 0]
    /\ carried' = [carried EXCEPT ![r] = NoToken]

-----------------------------------------------------------------------------
(* get_sharepoint_client, run by FastAPI in a thread because it is a plain *)
(* function: other threads run between its lines.                          *)

ReadGlobal(r) ==
    /\ pc[r] = "read"
    /\ Goto(r, IF global = NoClient THEN "construct" ELSE "return")
    /\ UNCHANGED <<global_vars, remembered, locks, token, call, now>>

\* `_client = SharePointClient()`.
Construct(r) ==
    /\ pc[r] = "construct"
    /\ global' = r
    /\ Goto(r, "return")
    /\ UNCHANGED <<has_folder, client, closed, remembered, locks, token, call, now>>

\* `return _client` reads the global once more.
ReturnGlobal(r) ==
    /\ pc[r] = "return"
    /\ client' = [client EXCEPT ![r] = global]
    /\ Goto(r, "resolve")
    /\ UNCHANGED <<has_folder, global, closed, remembered, locks, token, call, now>>

-----------------------------------------------------------------------------
(* _resolve: the library is looked up once per client.                     *)

\* A Graph call begins, by asking for a token: it waits for the token lock.
BeginCall(r, why) ==
    /\ Goto(r, "wait_token")
    /\ purpose' = [purpose EXCEPT ![r] = why]
    /\ tries' = [tries EXCEPT ![r] = 0]
    /\ tokenLock' = [tokenLock EXCEPT ![client[r]] = Append(@, r)]
    /\ asked' = [asked EXCEPT ![r] = 0]
    /\ carried' = [carried EXCEPT ![r] = NoToken]

\* The first look, without the lock.
Resolve(r) ==
    /\ pc[r] = "resolve"
    /\ IF drive[client[r]]
       THEN BeginCall(r, "operate") /\ UNCHANGED resolveLock
       ELSE /\ Goto(r, "wait_resolve")
            /\ resolveLock' = [resolveLock EXCEPT ![client[r]] = Append(@, r)]
            /\ UNCHANGED <<tokenLock, call>>
    /\ UNCHANGED <<global_vars, remembered, token, now>>

MutantNoSecondLook(r) ==
    /\ pc[r] = "wait_resolve" /\ Head(resolveLock[client[r]]) = r
    /\ BeginCall(r, "site") /\ UNCHANGED resolveLock
    /\ UNCHANGED <<global_vars, remembered, token, now>>

\* The second look, with the lock.
EnterResolve(r) ==
    /\ pc[r] = "wait_resolve" /\ Head(resolveLock[client[r]]) = r
    /\ IF drive[client[r]]
       THEN /\ BeginCall(r, "operate")
            /\ resolveLock' = [resolveLock EXCEPT ![client[r]] = Tail(@)]
       ELSE BeginCall(r, "site") /\ UNCHANGED resolveLock
    /\ UNCHANGED <<global_vars, remembered, token, now>>

\* An error leaves both `async with` blocks; a failed lookup is not remembered.
MutantLockKept(r) == UNCHANGED resolveLock

ReleaseResolve(r) ==
    resolveLock' = IF purpose[r] \in Lookups
                   THEN [resolveLock EXCEPT ![client[r]] = Tail(@)]
                   ELSE resolveLock

-----------------------------------------------------------------------------
(* _TokenProvider.get.                                                     *)

\* The attempt goes out with a token.
Dispatch(r, t) ==
    /\ Goto(r, "send")
    /\ carried' = [carried EXCEPT ![r] = t]
    /\ asked' = [asked EXCEPT ![r] = now]
    /\ tokenLock' = [tokenLock EXCEPT ![client[r]] = Tail(@)]
    /\ UNCHANGED <<purpose, tries, resolveLock>>

MutantNoMargin(c) == token[c] # NoToken /\ now < token[c].expires_at

StillFresh(c) == token[c] # NoToken /\ now < token[c].expires_at - MARGIN

MutantNoTokenLock(r) == pc[r] = "wait_token"

HasTokenLock(r) == pc[r] = "wait_token" /\ Head(tokenLock[client[r]]) = r

UseCachedToken(r) ==
    /\ HasTokenLock(r) /\ StillFresh(client[r])
    /\ Dispatch(r, token[client[r]])
    /\ UNCHANGED <<global_vars, remembered, token, now>>

AskForToken(r) ==
    /\ HasTokenLock(r) /\ ~StillFresh(client[r])
    /\ Goto(r, "fetch")
    /\ asked' = [asked EXCEPT ![r] = now]
    /\ UNCHANGED <<global_vars, remembered, locks, token, purpose, tries, carried, now>>

\* The token of a sign-in that is answered now: _expires_at counts from the moment the
\* answer is there, the token's life from the moment it was asked for.
TokenOf(r) == [ends |-> asked[r] + LIFETIME, expires_at |-> now + LIFETIME]

TokenArrives(r) ==
    /\ pc[r] = "fetch"
    /\ token' = [token EXCEPT ![client[r]] = TokenOf(r)]
    /\ Dispatch(r, TokenOf(r))
    /\ UNCHANGED <<global_vars, remembered, now>>

\* No network, or the credentials are refused.
TokenFails(r) ==
    /\ pc[r] = "fetch"
    /\ tokenLock' = [tokenLock EXCEPT ![client[r]] = Tail(@)]
    /\ ReleaseResolve(r)
    /\ Finish(r)
    /\ UNCHANGED <<global_vars, remembered, token, now>>

-----------------------------------------------------------------------------
(* _send: one attempt of a Graph call.                                     *)

Confirm(r, what) ==
    /\ purpose[r] \in Lookups
    /\ confirmed' = [confirmed EXCEPT ![client[r]] = @ \cup {what}]

Remember(r) ==
    /\ drive' = [drive EXCEPT ![client[r]] = TRUE]
    /\ resolved' = [resolved EXCEPT ![client[r]] = @ + 1]

\* The next lookup, with the resolve lock still held.
LookUp(r, what) == BeginCall(r, what) /\ UNCHANGED resolveLock

\* All is known: it is remembered, the lock is released, and the operation begins.
Resolved(r) == Remember(r) /\ ReleaseResolve(r) /\ BeginCall(r, "operate")

SiteFound(r) ==
    /\ pc[r] = "send" /\ purpose[r] = "site"
    /\ Confirm(r, "site")
    /\ LookUp(r, "libraries")
    /\ UNCHANGED <<global_vars, drive, resolved, token, now>>

MutantRememberedEarly(r) ==
    /\ pc[r] = "send" /\ purpose[r] \in {"libraries", "more_libraries"}
    /\ Confirm(r, "library")
    /\ IF has_folder THEN Remember(r) /\ LookUp(r, "root") ELSE Resolved(r)
    /\ UNCHANGED <<global_vars, token, now>>

LibraryFound(r) ==
    /\ pc[r] = "send" /\ purpose[r] \in {"libraries", "more_libraries"}
    /\ Confirm(r, "library")
    /\ IF has_folder
       THEN LookUp(r, "root") /\ UNCHANGED <<drive, resolved>>
       ELSE Resolved(r)
    /\ UNCHANGED <<global_vars, token, now>>

\* It is not on this page: "@odata.nextLink".
NextLibraries(r) ==
    /\ pc[r] = "send" /\ purpose[r] = "libraries"
    /\ LookUp(r, "more_libraries")
    /\ UNCHANGED <<global_vars, remembered, token, now>>

RootFound(r) ==
    /\ pc[r] = "send" /\ purpose[r] = "root"
    /\ Confirm(r, "root")
    /\ Resolved(r)
    /\ UNCHANGED <<global_vars, token, now>>

CallSucceeds(r) ==
    /\ pc[r] = "send" /\ purpose[r] = "operate"
    /\ Finish(r)
    /\ UNCHANGED <<global_vars, remembered, locks, token, now>>

MutantRetryForever(r) ==
    /\ pc[r] = "send"
    /\ Goto(r, "wait_token")
    /\ tries' = [tries EXCEPT ![r] = @ + 1]
    /\ tokenLock' = [tokenLock EXCEPT ![client[r]] = Append(@, r)]
    /\ UNCHANGED <<global_vars, remembered, resolveLock, token, purpose, asked,
                   carried, now>>

\* 429, 503 or 504: the next attempt asks for a token anew.
CallThrottled(r) ==
    /\ pc[r] = "send" /\ tries[r] < MAX_RETRIES
    /\ Goto(r, "wait_token")
    /\ tries' = [tries EXCEPT ![r] = @ + 1]
    /\ tokenLock' = [tokenLock EXCEPT ![client[r]] = Append(@, r)]
    /\ UNCHANGED <<global_vars, remembered, resolveLock, token, purpose, asked,
                   carried, now>>

\* The call fails; or what was looked up does not exist, the root is a file, or no
\* library has the name: a SharePointConfigError.
CallFails(r) ==
    /\ pc[r] = "send"
    /\ ReleaseResolve(r)
    /\ Finish(r)
    /\ UNCHANGED <<global_vars, remembered, tokenLock, token, now>>

-----------------------------------------------------------------------------

\* close_sharepoint_client, once uvicorn has let the last request finish.
Shutdown ==
    /\ \A r \in Requests : pc[r] = "done"
    /\ global # NoClient
    /\ closed' = closed \cup {global}
    /\ global' = NoClient
    /\ UNCHANGED <<has_folder, client, remembered, locks, token, pc, call, now>>

\* Time passes, also while a sign-in or an attempt is under way.
Tick ==
    /\ now < MaxTime
    /\ now' = now + 1
    /\ UNCHANGED <<global_vars, remembered, locks, token, pc, call>>

Terminated ==
    /\ global = NoClient /\ \A r \in Requests : pc[r] = "done"
    /\ UNCHANGED vars

Step(r) ==
    \/ ReadGlobal(r) \/ Construct(r) \/ ReturnGlobal(r)
    \/ Resolve(r) \/ EnterResolve(r)
    \/ UseCachedToken(r) \/ AskForToken(r) \/ TokenArrives(r) \/ TokenFails(r)
    \/ SiteFound(r) \/ LibraryFound(r) \/ NextLibraries(r) \/ RootFound(r)
    \/ CallSucceeds(r) \/ CallThrottled(r) \/ CallFails(r)

Next == (\E r \in Requests : Step(r)) \/ Shutdown \/ Tick \/ Terminated

\* Threads are scheduled, the event loop runs what can run, and every exchange ends
\* with an answer or with httpx's timeout.
Spec == Init /\ [][Next]_vars /\ \A r \in Requests : WF_vars(Step(r))

-----------------------------------------------------------------------------
(* What the code promises.                                                 *)

\* How long the sign-in took to hand out a token, by which the code overrates the token's
\* life, and how long the attempt that carries it has been on its way since.
SignInTook(t) == t.expires_at - t.ends
OnItsWay(r) == now - asked[r]

\* "so a token never expires mid-request" (sharepoint_client.py:255), as far as the margin
\* reaches: an attempt that may reach Graph now carries a token that is still alive,
\* unless the sign-in and the attempt together took longer than the margin (or as long as
\* a token lives).  The sign-in counts, for _expires_at is set after it (:276).
TokenAliveOnArrival ==
    \A r \in Requests :
        /\ pc[r] = "send"
        /\ SignInTook(carried[r]) + OnItsWay(r) <= MARGIN
        /\ SignInTook(carried[r]) + OnItsWay(r) < LIFETIME
        => now < carried[r].ends

\* However many requests need a token, one at a time fetches it for them, and those that
\* waited for it do not fetch one again: who fetches found none that is fresh.
OneTokenFetch ==
    /\ \A r, s \in Requests :
          pc[r] = "fetch" /\ pc[s] = "fetch" /\ client[r] = client[s] => r = s
    /\ \A r \in Requests : pc[r] = "fetch" => ~StillFresh(client[r])

\* No request operates, and none that comes later is let through without the lock,
\* before the site, the library and the root folder were all found, and found to be a
\* folder: a lookup that fails half-way leaves nothing behind (:405-438).
UsableMeansChecked ==
    \A c \in Requests : drive[c] =>
        {"site", "library"} \cup (IF has_folder THEN {"root"} ELSE {}) \subseteq confirmed[c]

\* The library is looked up successfully only once per client ("once, then
\* remembers them", sharepoint_client.py:406), however many requests start together.
ResolvedOnce == \A c \in Requests : resolved[c] <= 1

\* No failure of a lookup, a sign-in or a call leaves a lock behind that keeps a
\* later request waiting.
EveryRequestEnds == \A r \in Requests : <>(pc[r] = "done")

\* "Module-level singleton" (sharepoint_client.py:302): all requests of a process
\* are given the same client, hence the same locks.
OneClient ==
    \A r, s \in Requests :
        NoClient \notin {client[r], client[s]} => client[r] = client[s]
=============================================================================
