--------------------------- MODULE GatewayProofs ----------------------------
(***************************************************************************)
(* Theorems about GatewayClient, for any number of requests and retries    *)
(* and any margin and lifetime of a token:                                 *)
(*   - TypeCorrect: the type invariant;                                    *)
(*   - OneFetchAtATime: the token lock works, and who waited for a token   *)
(*     uses the one that came;                                             *)
(*   - ResolvedAtMostOnce, CheckedBeforeUse: the resolve lock works, and   *)
(*     the look without it is safe;                                        *)
(*   - TokenOutlivesCall: how far the margin reaches.                      *)
(* Whoever waits for a lock is in its queue, and whoever has it is in      *)
(* front: this is inductive for both locks, because only the one in front  *)
(* ever leaves.  The time argument is independent of the locks.            *)
(***************************************************************************)
EXTENDS GatewayClient, Functions, SequenceTheorems, TLAPS

-----------------------------------------------------------------------------
(* The invariant.                                                          *)

\* Where a request has been given its client.
Working == {"resolve", "wait_resolve", "wait_token", "fetch", "send"}

\* Where the token lock matters.
Fetching == {"wait_token", "fetch"}

\* Where a Graph call is under way.
Calling == {"wait_token", "fetch", "send"}

\* A request that looks the library up, with the resolve lock held.
Resolving(r) == pc[r] \in Calling /\ purpose[r] \in Lookups

\* Who returns a client finds one, and who works has one.
ClientInv ==
    \A r \in Requests :
        /\ pc[r] = "return" => global # NoClient
        /\ pc[r] \in Working => client[r] \in Requests

\* Who needs the token lock is in its queue, and who fetches is in front.
TokenQueueInv ==
    \A r \in Requests :
        /\ pc[r] \in Fetching => r \in Range(tokenLock[client[r]])
        /\ pc[r] = "fetch" => Head(tokenLock[client[r]]) = r

\* The same of the resolve lock.
ResolveQueueInv ==
    \A r \in Requests :
        /\ pc[r] = "wait_resolve" => r \in Range(resolveLock[client[r]])
        /\ Resolving(r) => /\ r \in Range(resolveLock[client[r]])
                           /\ Head(resolveLock[client[r]]) = r

\* What is known of the library when a request asks for `why`.
Known(why) ==
    CASE why = "root" -> {"site", "library"}
      [] why \in {"libraries", "more_libraries"} -> {"site"}
      [] OTHER -> {}

\* A client is resolved once, by a request that found it unresolved and took all steps.
LibraryInv ==
    /\ \A c \in Requests : resolved[c] = IF drive[c] THEN 1 ELSE 0
    /\ UsableMeansChecked
    /\ \A r \in Requests : Resolving(r) =>
          /\ ~drive[client[r]]
          /\ Known(purpose[r]) \subseteq confirmed[client[r]]
          /\ purpose[r] = "root" => has_folder

\* When it went out, the attempt's token was thought to last MARGIN longer, or it was new.
Lasting(t, since) == since + MARGIN < t.expires_at \/ since + LIFETIME = t.expires_at

\* Who fetches a token still finds none that is fresh, and who carries one has had it for
\* no longer than the attempt.
TimeInv ==
    \A r \in Requests :
        /\ pc[r] = "fetch" => ~StillFresh(client[r])
        /\ pc[r] = "send" => Lasting(carried[r], asked[r])

GatewayInv == TypeOK /\ ClientInv /\ TokenQueueInv /\ ResolveQueueInv /\ LibraryInv /\ TimeInv

-----------------------------------------------------------------------------
(* The queues of the locks.                                                *)

\* Whoever is in a queue, other than r, is still there, and still in front if he was.
Keeps(queue, after, r) ==
    \A c, s \in Requests : s # r /\ s \in Range(queue[c]) =>
        s \in Range(after[c]) /\ (Head(queue[c]) = s => Head(after[c]) = s)

\* Who comes last is in the queue, and nobody's place in it changes.
LEMMA JoinQueue ==
  ASSUME NEW queue \in [Requests -> Seq(Requests)], NEW c \in Requests, NEW r \in Requests,
         NEW after, after = [queue EXCEPT ![c] = Append(queue[c], r)]
  PROVE  /\ after \in [Requests -> Seq(Requests)]
         /\ Keeps(queue, after, r)
         /\ r \in Range(after[c])
  <1>1. /\ queue[c] \in Seq(Requests) /\ Len(queue[c]) \in Nat
        /\ DOMAIN queue[c] = 1 .. Len(queue[c])
        /\ Append(queue[c], r) \in Seq(Requests)
        /\ DOMAIN Append(queue[c], r) = 1 .. Len(queue[c]) + 1
        /\ \A i \in 1 .. Len(queue[c]) : Append(queue[c], r)[i] = queue[c][i]
        /\ Append(queue[c], r)[Len(queue[c]) + 1] = r
    OBVIOUS
  <1>2. r \in Range(Append(queue[c], r))
    <2>1. Len(queue[c]) + 1 \in DOMAIN Append(queue[c], r)
      BY <1>1
    <2> QED BY <1>1, <2>1 DEF Range
  <1>3. ASSUME NEW s \in Range(queue[c])
        PROVE  s \in Range(Append(queue[c], r)) /\ Head(Append(queue[c], r)) = Head(queue[c])
    <2>1. PICK i \in 1 .. Len(queue[c]) : queue[c][i] = s
      BY <1>1, <1>3 DEF Range
    <2>2. s \in Range(Append(queue[c], r))
      BY <1>1, <2>1 DEF Range
    <2>3. Head(Append(queue[c], r)) = Append(queue[c], r)[1] /\ Head(queue[c]) = queue[c][1]
      BY <1>1, <2>1
    <2> QED BY <1>1, <2>1, <2>2, <2>3
  <1>4. after \in [Requests -> Seq(Requests)] /\ after[c] = Append(queue[c], r)
    BY <1>1
  <1>5. \A d \in Requests : d # c => after[d] = queue[d]
    OBVIOUS
  <1>6. Keeps(queue, after, r)
    BY <1>3, <1>4, <1>5 DEF Keeps
  <1> QED BY <1>2, <1>4, <1>6

\* Who leaves from the front moves nobody out of the queue, or away from the front.
LEMMA LeaveQueue ==
  ASSUME NEW queue \in [Requests -> Seq(Requests)], NEW c \in Requests, NEW r \in Requests,
         r \in Range(queue[c]), Head(queue[c]) = r,
         NEW after, after = [queue EXCEPT ![c] = Tail(queue[c])]
  PROVE  /\ after \in [Requests -> Seq(Requests)]
         /\ Keeps(queue, after, r)
  <1>1. /\ queue[c] \in Seq(Requests) /\ Len(queue[c]) \in Nat
        /\ DOMAIN queue[c] = 1 .. Len(queue[c])
    OBVIOUS
  <1>2. queue[c] # <<>>
    BY <1>1 DEF Range
  <1>3. /\ Tail(queue[c]) \in Seq(Requests)
        /\ DOMAIN Tail(queue[c]) = 1 .. Len(queue[c]) - 1
        /\ \A i \in 1 .. Len(queue[c]) - 1 : Tail(queue[c])[i] = queue[c][i + 1]
        /\ queue[c][1] = r
    BY <1>1, <1>2, HeadTailProperties, LenProperties
  <1>4. ASSUME NEW s \in Range(queue[c]), s # r
        PROVE  s \in Range(Tail(queue[c]))
    <2>1. PICK i \in 1 .. Len(queue[c]) : queue[c][i] = s
      BY <1>1, <1>4 DEF Range
    <2>2. i - 1 \in 1 .. Len(queue[c]) - 1 /\ Tail(queue[c])[i - 1] = s
      BY <1>1, <1>3, <1>4, <2>1
    <2> QED BY <1>3, <2>2 DEF Range
  <1>5. after \in [Requests -> Seq(Requests)] /\ after[c] = Tail(queue[c])
    BY <1>3
  <1>6. \A d \in Requests : d # c => after[d] = queue[d]
    OBVIOUS
  <1>7. Keeps(queue, after, r)
    BY <1>4, <1>5, <1>6 DEF Keeps
  <1> QED BY <1>5, <1>7

\* Who leaves a queue alone keeps everybody's place in it.
LEMMA SameQueue ==
  ASSUME NEW queue, NEW r
  PROVE  Keeps(queue, queue, r)
  BY DEF Keeps

-----------------------------------------------------------------------------
(* The steps of a request: what they do to its place in the queues.        *)

\* The service starts with all of it.
LEMMA InitInv == Init => GatewayInv
  <1> SUFFICES ASSUME Init PROVE GatewayInv
    OBVIOUS
  <1> USE TimeAssumption, ClientAssumption DEF Init
  <1>1. TypeOK
    BY DEF TypeOK, NoToken
  <1>2. ClientInv /\ TokenQueueInv /\ ResolveQueueInv
    BY DEF ClientInv, TokenQueueInv, ResolveQueueInv, Working, Fetching, Calling, Resolving
  <1>3. LibraryInv /\ TimeInv
    BY DEF LibraryInv, UsableMeansChecked, Resolving, Calling, TimeInv, NoToken
  <1> QED BY <1>1, <1>2, <1>3 DEF GatewayInv

\* What a request does changes nothing of another request.
LEMMA StepIsLocal ==
  ASSUME TypeOK, NEW r \in Requests, Step(r), NEW s \in Requests, s # r
  PROVE  /\ pc'[s] = pc[s] /\ client'[s] = client[s] /\ purpose'[s] = purpose[s]
         /\ tries'[s] = tries[s] /\ asked'[s] = asked[s] /\ carried'[s] = carried[s]
  <1> USE DEF TypeOK, Goto, BeginCall, Dispatch, Finish, LookUp, Resolved, Remember, Confirm,
              global_vars, remembered, locks, call
  <1>1. CASE ReadGlobal(r)
    BY <1>1 DEF ReadGlobal
  <1>2. CASE Construct(r)
    BY <1>2 DEF Construct
  <1>3. CASE ReturnGlobal(r)
    BY <1>3 DEF ReturnGlobal
  <1>4. CASE Resolve(r)
    <2>1. /\ UNCHANGED client
          /\ \/ BeginCall(r, "operate")
             \/ Goto(r, "wait_resolve") /\ UNCHANGED call
      BY <1>4, Zenon DEF Resolve
    <2> QED BY <2>1
  <1>5. CASE EnterResolve(r)
    <2>1. UNCHANGED client /\ \E why : BeginCall(r, why)
      BY <1>5, Zenon DEF EnterResolve
    <2> QED BY <2>1
  <1>6. CASE UseCachedToken(r)
    BY <1>6 DEF UseCachedToken
  <1>7. CASE AskForToken(r)
    BY <1>7 DEF AskForToken
  <1>8. CASE TokenArrives(r)
    BY <1>8 DEF TokenArrives
  <1>9. CASE TokenFails(r)
    BY <1>9 DEF TokenFails
  <1>10. CASE SiteFound(r)
    BY <1>10 DEF SiteFound
  <1>11. CASE LibraryFound(r)
    <2>1. UNCHANGED client /\ \E why : BeginCall(r, why)
      BY <1>11, Zenon DEF LibraryFound
    <2> QED BY <2>1
  <1>12. CASE NextLibraries(r)
    BY <1>12 DEF NextLibraries
  <1>13. CASE RootFound(r)
    BY <1>13 DEF RootFound
  <1>14. CASE CallSucceeds(r)
    BY <1>14 DEF CallSucceeds
  <1>15. CASE CallThrottled(r)
    BY <1>15 DEF CallThrottled
  <1>16. CASE CallFails(r)
    BY <1>16 DEF CallFails
  <1> QED BY <1>1, <1>2, <1>3, <1>4, <1>5, <1>6, <1>7, <1>8, <1>9,
             <1>10, <1>11, <1>12, <1>13, <1>14, <1>15, <1>16 DEF Step

\* The steps that begin a Graph call or an attempt: the request joins the token's queue.
Asks(r) ==
    \/ Resolve(r) /\ drive[client[r]]
    \/ EnterResolve(r) \/ SiteFound(r) \/ LibraryFound(r) \/ NextLibraries(r) \/ RootFound(r)
    \/ CallThrottled(r)

\* What the request then waits for.
LEMMA AskQueue ==
  ASSUME TypeOK, ClientInv, NEW r \in Requests, Asks(r)
  PROVE  /\ pc[r] \in Working /\ client[r] \in Requests /\ client' = client
         /\ pc' = [pc EXCEPT ![r] = "wait_token"]
         /\ tokenLock' = [tokenLock EXCEPT ![client[r]] = Append(tokenLock[client[r]], r)]
  <1> USE DEF ClientInv, Working, Goto, BeginCall, LookUp, Resolved, global_vars
  <1>1. CASE (Resolve(r) /\ drive[client[r]]) \/ EnterResolve(r)
    BY <1>1 DEF Resolve, EnterResolve
  <1>2. CASE SiteFound(r) \/ LibraryFound(r) \/ NextLibraries(r) \/ RootFound(r)
    BY <1>2 DEF SiteFound, LibraryFound, NextLibraries, RootFound
  <1>3. CASE CallThrottled(r)
    BY <1>3 DEF CallThrottled
  <1> QED BY <1>1, <1>2, <1>3 DEF Asks

\* The steps that end the stay in the token's queue.
LEMMA GetQueue ==
  ASSUME TypeOK, ClientInv, TokenQueueInv, NEW r \in Requests,
         UseCachedToken(r) \/ TokenArrives(r) \/ TokenFails(r)
  PROVE  /\ client[r] \in Requests /\ client' = client
         /\ r \in Range(tokenLock[client[r]]) /\ Head(tokenLock[client[r]]) = r
         /\ pc' \in {[pc EXCEPT ![r] = "send"], [pc EXCEPT ![r] = "done"]}
         /\ tokenLock' = [tokenLock EXCEPT ![client[r]] = Tail(tokenLock[client[r]])]
  BY DEF ClientInv, TokenQueueInv, Working, Fetching, Goto, Dispatch, Finish, global_vars,
         UseCachedToken, HasTokenLock, TokenArrives, TokenFails

\* The other steps, which leave the token's queues alone.
LEMMA TokenQueueSame ==
  ASSUME NEW r \in Requests, Step(r), ~Asks(r),
         ~(UseCachedToken(r) \/ TokenArrives(r) \/ TokenFails(r))
  PROVE  tokenLock' = tokenLock
  BY DEF Step, Asks, ReadGlobal, Construct, ReturnGlobal, Resolve, AskForToken, CallSucceeds,
         CallFails, locks

\* No step moves another request in the token's queues.
LEMMA TokenQueueKept ==
  ASSUME TypeOK, ClientInv, TokenQueueInv, NEW r \in Requests, Step(r)
  PROVE  /\ tokenLock' \in [Requests -> Seq(Requests)]
         /\ Keeps(tokenLock, tokenLock', r)
  <1>0. tokenLock \in [Requests -> Seq(Requests)]
    BY DEF TypeOK
  <1>1. CASE Asks(r)
    <2>1. /\ client[r] \in Requests
          /\ tokenLock' = [tokenLock EXCEPT ![client[r]] = Append(tokenLock[client[r]], r)]
      BY <1>1, AskQueue
    <2> QED BY <1>0, <2>1, JoinQueue
  <1>2. CASE UseCachedToken(r) \/ TokenArrives(r) \/ TokenFails(r)
    BY <1>0, <1>2, GetQueue, LeaveQueue
  <1>3. CASE ~Asks(r) /\ ~(UseCachedToken(r) \/ TokenArrives(r) \/ TokenFails(r))
    BY <1>0, <1>3, TokenQueueSame, SameQueue
  <1> QED BY <1>1, <1>2, <1>3

\* The steps with which a request leaves the queue for the resolve lock.
Releases(r) ==
    \/ EnterResolve(r) /\ drive[client[r]]
    \/ (TokenFails(r) \/ CallFails(r)) /\ purpose[r] \in Lookups
    \/ LibraryFound(r) /\ ~has_folder
    \/ RootFound(r)

\* It had the lock, and no longer looks the library up.
LEMMA ReleaseQueue ==
  ASSUME TypeOK, ClientInv, ResolveQueueInv, NEW r \in Requests, Releases(r)
  PROVE  /\ client[r] \in Requests
         /\ r \in Range(resolveLock[client[r]]) /\ Head(resolveLock[client[r]]) = r
         /\ resolveLock' = [resolveLock EXCEPT ![client[r]] = Tail(resolveLock[client[r]])]
         /\ pc'[r] = "done" \/ (pc'[r] = "wait_token" /\ purpose'[r] = "operate")
  <1> USE DEF TypeOK, ClientInv, ResolveQueueInv, Resolving, Working, Calling, Lookups, Goto,
              BeginCall, Finish, Resolved, ReleaseResolve
  <1>1. CASE EnterResolve(r) /\ drive[client[r]]
    <2>1. /\ pc[r] = "wait_resolve" /\ Head(resolveLock[client[r]]) = r
          /\ pc' = [pc EXCEPT ![r] = "wait_token"]
          /\ purpose' = [purpose EXCEPT ![r] = "operate"]
          /\ resolveLock' = [resolveLock EXCEPT ![client[r]] = Tail(resolveLock[client[r]])]
      BY <1>1 DEF EnterResolve
    <2> QED BY <2>1
  <1>2. CASE TokenFails(r) /\ purpose[r] \in Lookups
    BY <1>2 DEF TokenFails
  <1>3. CASE CallFails(r) /\ purpose[r] \in Lookups
    BY <1>3 DEF CallFails
  <1>4. CASE LibraryFound(r) /\ ~has_folder
    <2>1. pc[r] = "send" /\ purpose[r] \in Lookups /\ ReleaseResolve(r) /\ BeginCall(r, "operate")
      BY <1>4 DEF LibraryFound
    <2> QED BY <2>1
  <1>5. CASE RootFound(r)
    BY <1>5 DEF RootFound
  <1> QED BY <1>1, <1>2, <1>3, <1>4, <1>5 DEF Releases

\* The step with which it joins the queue.
LEMMA JoinsResolve ==
  ASSUME TypeOK, ClientInv, NEW r \in Requests, Resolve(r), ~drive[client[r]]
  PROVE  /\ client[r] \in Requests /\ client' = client
         /\ pc'[r] = "wait_resolve"
         /\ resolveLock' = [resolveLock EXCEPT ![client[r]] = Append(resolveLock[client[r]], r)]
  BY SMTT(30) DEF TypeOK, ClientInv, Working, Resolve, Goto, global_vars

\* The other steps leave the queues for the resolve lock alone, and a request that looks
\* the library up after one of them had the lock before.
LEMMA ResolveQueueSame ==
  ASSUME TypeOK, ClientInv, ResolveQueueInv, NEW r \in Requests, Step(r), ~Releases(r),
         ~(Resolve(r) /\ ~drive[client[r]])
  PROVE  /\ resolveLock' = resolveLock
         /\ pc'[r] # "wait_resolve"
         /\ Resolving(r)' => /\ client'[r] = client[r] /\ client[r] \in Requests
                             /\ r \in Range(resolveLock[client[r]])
                             /\ Head(resolveLock[client[r]]) = r
  <1> USE DEF TypeOK, ClientInv, ResolveQueueInv, Resolving, Working, Calling, Lookups, Goto,
              BeginCall, Dispatch, Finish, LookUp, Resolved, ReleaseResolve, Releases,
              global_vars, remembered, locks, call
  <1>1. CASE ReadGlobal(r)
    BY <1>1 DEF ReadGlobal
  <1>2. CASE Construct(r)
    BY <1>2 DEF Construct
  <1>3. CASE ReturnGlobal(r)
    BY <1>3 DEF ReturnGlobal
  <1>4. CASE Resolve(r)
    <2>1. /\ pc' = [pc EXCEPT ![r] = "wait_token"]
          /\ purpose' = [purpose EXCEPT ![r] = "operate"]
          /\ UNCHANGED resolveLock
      BY <1>4 DEF Resolve
    <2> QED BY <2>1
  <1>5. CASE EnterResolve(r)
    <2>1. /\ pc[r] = "wait_resolve" /\ Head(resolveLock[client[r]]) = r
          /\ pc' = [pc EXCEPT ![r] = "wait_token"]
          /\ UNCHANGED <<client, resolveLock>>
      BY <1>5 DEF EnterResolve
    <2> QED BY <2>1
  <1>6. CASE UseCachedToken(r)
    BY <1>6 DEF UseCachedToken, HasTokenLock
  <1>7. CASE AskForToken(r)
    BY <1>7 DEF AskForToken, HasTokenLock
  <1>8. CASE TokenArrives(r)
    BY <1>8 DEF TokenArrives, HasTokenLock
  <1>9. CASE TokenFails(r)
    BY <1>9 DEF TokenFails, HasTokenLock
  <1>10. CASE SiteFound(r)
    BY <1>10 DEF SiteFound
  <1>11. CASE LibraryFound(r)
    BY <1>11 DEF LibraryFound
  <1>12. CASE NextLibraries(r)
    BY <1>12 DEF NextLibraries
  <1>13. CASE RootFound(r)
    BY <1>13 DEF RootFound
  <1>14. CASE CallSucceeds(r)
    BY <1>14 DEF CallSucceeds
  <1>15. CASE CallThrottled(r)
    BY <1>15 DEF CallThrottled
  <1>16. CASE CallFails(r)
    BY <1>16 DEF CallFails
  <1> QED BY <1>1, <1>2, <1>3, <1>4, <1>6, <1>7, <1>8, <1>9, <1>10, <1>11,
             <1>12, <1>13, <1>14, <1>15, <1>16, <1>5 DEF Step

\* No step moves another request in the resolve lock's queues.
LEMMA ResolveQueueKept ==
  ASSUME TypeOK, ClientInv, ResolveQueueInv, NEW r \in Requests, Step(r)
  PROVE  /\ resolveLock' \in [Requests -> Seq(Requests)]
         /\ Keeps(resolveLock, resolveLock', r)
  <1>0. resolveLock \in [Requests -> Seq(Requests)]
    BY DEF TypeOK
  <1>1. CASE Releases(r)
    <2>1. /\ client[r] \in Requests
          /\ r \in Range(resolveLock[client[r]]) /\ Head(resolveLock[client[r]]) = r
          /\ resolveLock' = [resolveLock EXCEPT ![client[r]] = Tail(resolveLock[client[r]])]
      BY <1>1, ReleaseQueue
    <2> QED BY <1>0, <2>1, LeaveQueue
  <1>2. CASE Resolve(r) /\ ~drive[client[r]]
    <2>1. /\ client[r] \in Requests
          /\ resolveLock' = [resolveLock EXCEPT ![client[r]] = Append(resolveLock[client[r]], r)]
      BY <1>2, JoinsResolve
    <2> QED BY <1>0, <2>1, JoinQueue
  <1>3. CASE ~Releases(r) /\ ~(Resolve(r) /\ ~drive[client[r]])
    BY <1>0, <1>3, ResolveQueueSame, SameQueue
  <1> QED BY <1>1, <1>2, <1>3

-----------------------------------------------------------------------------
(* The steps of a request keep the invariant, part by part.                *)

\* The steps with which a request gets its client.
LEMMA StepClient ==
  ASSUME TypeOK, ClientInv, NEW r \in Requests, Step(r)
  PROVE  ClientInv'
  <1>1. /\ global' \in {global, r}
        /\ pc'[r] = "return" => global' # NoClient
        /\ pc'[r] \in Working => client'[r] \in Requests
    <2> USE ClientAssumption DEF TypeOK, ClientInv, Working, Goto, BeginCall, Dispatch, Finish,
                LookUp, Resolved, global_vars, call
    <2>1. CASE ReadGlobal(r)
      BY <2>1 DEF ReadGlobal
    <2>2. CASE Construct(r)
      BY <2>2 DEF Construct
    <2>3. CASE ReturnGlobal(r)
      BY <2>3 DEF ReturnGlobal
    <2>4. CASE Resolve(r)
      <3>1. /\ pc[r] = "resolve" /\ UNCHANGED <<global, client>>
            /\ \/ BeginCall(r, "operate")
               \/ Goto(r, "wait_resolve")
        BY <2>4, Zenon DEF Resolve
      <3> QED BY <3>1
    <2>5. CASE EnterResolve(r)
      <3>1. /\ pc[r] = "wait_resolve" /\ UNCHANGED <<global, client>>
            /\ \E why : BeginCall(r, why)
        BY <2>5, Zenon DEF EnterResolve
      <3> QED BY <3>1
    <2>6. CASE UseCachedToken(r)
      BY <2>6 DEF UseCachedToken, HasTokenLock
    <2>7. CASE AskForToken(r)
      BY <2>7 DEF AskForToken, HasTokenLock
    <2>8. CASE TokenArrives(r)
      BY <2>8 DEF TokenArrives, HasTokenLock
    <2>9. CASE TokenFails(r)
      BY <2>9 DEF TokenFails, HasTokenLock
    <2>10. CASE SiteFound(r)
      BY <2>10 DEF SiteFound
    <2>11. CASE LibraryFound(r)
      <3>1. /\ pc[r] = "send" /\ UNCHANGED <<global, client>>
            /\ \E why : BeginCall(r, why)
        BY <2>11, Zenon DEF LibraryFound
      <3> QED BY <3>1
    <2>12. CASE NextLibraries(r)
      BY <2>12 DEF NextLibraries
    <2>13. CASE RootFound(r)
      BY <2>13 DEF RootFound
    <2>14. CASE CallSucceeds(r)
      BY <2>14 DEF CallSucceeds
    <2>15. CASE CallThrottled(r)
      BY <2>15 DEF CallThrottled
    <2>16. CASE CallFails(r)
      BY <2>16 DEF CallFails
    <2> QED BY <2>1, <2>2, <2>3, <2>4, <2>5, <2>6, <2>7, <2>8, <2>9,
               <2>10, <2>11, <2>12, <2>13, <2>14, <2>15, <2>16 DEF Step
  <1>2. ASSUME NEW s \in Requests, s # r
        PROVE  pc'[s] = pc[s] /\ client'[s] = client[s]
    BY <1>2, StepIsLocal
  <1>3. ASSUME NEW s \in Requests
        PROVE  /\ pc'[s] = "return" => global' # NoClient
               /\ pc'[s] \in Working => client'[s] \in Requests
    <2>1. CASE s = r
      BY <1>1, <2>1
    <2>2. CASE s # r
      BY <1>1, <1>2, <2>2, ClientAssumption DEF ClientInv
    <2> QED BY <2>1, <2>2
  <1> QED BY <1>3 DEF ClientInv

\* Who asks for a token joins the queue, and who fetches one was in front before.
LEMMA StepTokenQueue ==
  ASSUME TypeOK, ClientInv, TokenQueueInv, NEW r \in Requests, Step(r)
  PROVE  TokenQueueInv'
  <1>1. /\ pc'[r] \in Fetching => r \in Range(tokenLock'[client'[r]])
        /\ pc'[r] = "fetch" => Head(tokenLock'[client'[r]]) = r
    <2>1. CASE Asks(r)
      <3>1. /\ client[r] \in Requests /\ client' = client
            /\ pc' = [pc EXCEPT ![r] = "wait_token"]
            /\ tokenLock' = [tokenLock EXCEPT ![client[r]] = Append(tokenLock[client[r]], r)]
        BY <2>1, AskQueue
      <3>2. r \in Range(tokenLock'[client[r]])
        BY <3>1, JoinQueue DEF TypeOK
      <3> QED BY <3>1, <3>2 DEF TypeOK
    <2>2. CASE UseCachedToken(r) \/ TokenArrives(r) \/ TokenFails(r)
      <3>1. pc' \in {[pc EXCEPT ![r] = "send"], [pc EXCEPT ![r] = "done"]}
        BY <2>2, GetQueue
      <3> QED BY <3>1 DEF TypeOK, Fetching
    <2>3. CASE AskForToken(r)
      BY <2>3 DEF AskForToken, HasTokenLock, Goto, TypeOK, TokenQueueInv, Fetching,
                  global_vars, locks
    <2>4. CASE \/ ReadGlobal(r) \/ Construct(r) \/ ReturnGlobal(r)
               \/ Resolve(r) /\ ~drive[client[r]]
               \/ CallSucceeds(r) \/ CallFails(r)
      BY <2>4 DEF ReadGlobal, Construct, ReturnGlobal, Resolve, CallSucceeds, CallFails, Goto,
                  Finish, TypeOK, Fetching
    <2> QED BY <2>1, <2>2, <2>3, <2>4 DEF Step, Asks
  <1>2. Keeps(tokenLock, tokenLock', r)
    BY TokenQueueKept
  <1>3. ASSUME NEW s \in Requests, s # r
        PROVE  /\ pc'[s] \in Fetching => s \in Range(tokenLock'[client'[s]])
               /\ pc'[s] = "fetch" => Head(tokenLock'[client'[s]]) = s
    <2>1. pc'[s] = pc[s] /\ client'[s] = client[s]
      BY <1>3, StepIsLocal
    <2>2. pc[s] \in Fetching => client[s] \in Requests
      BY DEF ClientInv, Working, Fetching
    <2> QED BY <1>2, <1>3, <2>1, <2>2 DEF Keeps, TokenQueueInv, Fetching
  <1> QED BY <1>1, <1>3 DEF TokenQueueInv

\* Who waits to resolve joins the queue, and who looks the library up stays in front.
LEMMA StepResolveQueue ==
  ASSUME TypeOK, ClientInv, ResolveQueueInv, NEW r \in Requests, Step(r)
  PROVE  ResolveQueueInv'
  <1>1. /\ pc'[r] = "wait_resolve" => r \in Range(resolveLock'[client'[r]])
        /\ Resolving(r)' => /\ r \in Range(resolveLock'[client'[r]])
                            /\ Head(resolveLock'[client'[r]]) = r
    <2>1. CASE Releases(r)
      <3>1. pc'[r] = "done" \/ (pc'[r] = "wait_token" /\ purpose'[r] = "operate")
        BY <2>1, ReleaseQueue
      <3> QED BY <3>1 DEF Resolving, Calling, Lookups
    <2>2. CASE Resolve(r) /\ ~drive[client[r]]
      <3>1. /\ client[r] \in Requests /\ client' = client
            /\ pc'[r] = "wait_resolve"
            /\ resolveLock' = [resolveLock EXCEPT ![client[r]]
                                  = Append(resolveLock[client[r]], r)]
        BY <2>2, JoinsResolve
      <3>2. r \in Range(resolveLock'[client[r]])
        BY <3>1, JoinQueue DEF TypeOK
      <3> QED BY <3>1, <3>2 DEF Resolving, Calling
    <2>3. CASE ~Releases(r) /\ ~(Resolve(r) /\ ~drive[client[r]])
      BY <2>3, ResolveQueueSame
    <2> QED BY <2>1, <2>2, <2>3
  <1>2. Keeps(resolveLock, resolveLock', r)
    BY ResolveQueueKept
  <1>3. ASSUME NEW s \in Requests, s # r
        PROVE  /\ pc'[s] = "wait_resolve" => s \in Range(resolveLock'[client'[s]])
               /\ Resolving(s)' => /\ s \in Range(resolveLock'[client'[s]])
                                   /\ Head(resolveLock'[client'[s]]) = s
    <2>1. pc'[s] = pc[s] /\ client'[s] = client[s] /\ purpose'[s] = purpose[s]
      BY <1>3, StepIsLocal
    <2>2. pc[s] = "wait_resolve" \/ Resolving(s) => client[s] \in Requests
      BY DEF ClientInv, Working, Resolving, Calling
    <2>3. Resolving(s)' <=> Resolving(s)
      BY <2>1 DEF Resolving
    <2> QED BY <1>2, <1>3, <2>1, <2>2, <2>3 DEF Keeps, ResolveQueueInv
  <1> QED BY <1>1, <1>3 DEF ResolveQueueInv

\* The types: of the locks by the queues' lemmas, of the rest step by step.
LEMMA StepType ==
  ASSUME TypeOK, ClientInv, TokenQueueInv, ResolveQueueInv, NEW r \in Requests, Step(r)
  PROVE  TypeOK'
  <1>1. /\ tokenLock' \in [Requests -> Seq(Requests)]
        /\ resolveLock' \in [Requests -> Seq(Requests)]
    BY TokenQueueKept, ResolveQueueKept
  <1>2. pc[r] \in Working => client[r] \in Requests
    BY DEF ClientInv
  <1>3. /\ has_folder' = has_folder /\ closed' = closed /\ now' = now
        /\ global' \in {global, r}
        /\ client' \in {client, [client EXCEPT ![r] = global]}
    BY DEF Step, ReadGlobal, Construct, ReturnGlobal, Resolve, EnterResolve, UseCachedToken,
           AskForToken, TokenArrives, TokenFails, SiteFound, LibraryFound, NextLibraries,
           RootFound, CallSucceeds, CallThrottled, CallFails, global_vars
  <1>4. /\ drive' \in {drive, [drive EXCEPT ![client[r]] = TRUE]}
        /\ resolved' \in {resolved, [resolved EXCEPT ![client[r]] = resolved[client[r]] + 1]}
        /\ confirmed' \in {confirmed} \cup
              {[confirmed EXCEPT ![client[r]] = confirmed[client[r]] \cup {what}] :
                  what \in {"site", "library", "root"}}
        /\ confirmed' # confirmed \/ resolved' # resolved => pc[r] \in Working
    BY DEF Step, ReadGlobal, Construct, ReturnGlobal, Resolve, EnterResolve, UseCachedToken,
           AskForToken, TokenArrives, TokenFails, SiteFound, LibraryFound, NextLibraries,
           RootFound, CallSucceeds, CallThrottled, CallFails, remembered, Confirm, Remember,
           LookUp, Resolved, Working
  <1>5. \/ token' = token
        \/ /\ pc[r] \in Working
           /\ token' = [token EXCEPT ![client[r]] = TokenOf(r)]
    BY DEF Step, ReadGlobal, Construct, ReturnGlobal, Resolve, EnterResolve, UseCachedToken,
           AskForToken, TokenArrives, TokenFails, SiteFound, LibraryFound, NextLibraries,
           RootFound, CallSucceeds, CallThrottled, CallFails, Working
  <1>6. PICK step \in {"construct", "return", "resolve", "wait_resolve", "wait_token", "fetch",
                       "send", "done"} :
            pc' = [pc EXCEPT ![r] = step]
    BY DEF Step, ReadGlobal, Construct, ReturnGlobal, Resolve, EnterResolve, UseCachedToken,
           AskForToken, TokenArrives, TokenFails, SiteFound, LibraryFound, NextLibraries,
           RootFound, CallSucceeds, CallThrottled, CallFails, BeginCall, Dispatch, Finish,
           LookUp, Resolved, Goto
  <1>7. /\ purpose' = purpose \/ \E why \in Lookups \cup {"operate"} :
                                    purpose' = [purpose EXCEPT ![r] = why]
        /\ \/ tries' = tries
           \/ tries' = [tries EXCEPT ![r] = 0]
           \/ tries[r] < MAX_RETRIES /\ tries' = [tries EXCEPT ![r] = tries[r] + 1]
        /\ asked' \in {asked, [asked EXCEPT ![r] = 0], [asked EXCEPT ![r] = now]}
    BY DEF Step, ReadGlobal, Construct, ReturnGlobal, Resolve, EnterResolve, UseCachedToken,
           AskForToken, TokenArrives, TokenFails, SiteFound, LibraryFound, NextLibraries,
           RootFound, CallSucceeds, CallThrottled, CallFails, BeginCall, Dispatch, Finish,
           LookUp, Resolved, Lookups, call
  <1>8. \/ carried' = carried \/ carried' = [carried EXCEPT ![r] = NoToken]
        \/ /\ pc[r] \in Working
           /\ carried' \in {[carried EXCEPT ![r] = token[client[r]]],
                            [carried EXCEPT ![r] = TokenOf(r)]}
    BY DEF Step, ReadGlobal, Construct, ReturnGlobal, Resolve, EnterResolve, UseCachedToken,
           HasTokenLock, AskForToken, TokenArrives, TokenFails, SiteFound, LibraryFound,
           NextLibraries, RootFound, CallSucceeds, CallThrottled, CallFails, BeginCall,
           Dispatch, Finish, LookUp, Resolved, call, Working
  <1> QED
    <2>1. /\ LIFETIME \in Nat /\ MAX_RETRIES \in Nat /\ MaxTime \in Nat
      BY TimeAssumption
    <2>2. /\ client' \in [Requests -> Requests \cup {NoClient}]
          /\ global' \in Requests \cup {NoClient}
      <3>1. /\ client \in [Requests -> Requests \cup {NoClient}]
            /\ global \in Requests \cup {NoClient}
        BY DEF TypeOK
      <3>2. [client EXCEPT ![r] = global] \in [Requests -> Requests \cup {NoClient}]
        BY <3>1
      <3> QED BY <1>3, <3>1, <3>2
    <2>3. /\ drive' \in [Requests -> BOOLEAN]
          /\ resolved' \in [Requests -> Nat]
      <3>1. drive \in [Requests -> BOOLEAN] /\ resolved \in [Requests -> Nat]
        BY DEF TypeOK
      <3>2. drive' \in [Requests -> BOOLEAN]
        BY <1>4, <3>1
      <3>3. CASE resolved' = resolved
        BY <3>1, <3>2, <3>3
      <3>4. CASE resolved' # resolved
        <4>1. client[r] \in Requests
          BY <1>2, <1>4, <3>4
        <4>2. resolved' = [resolved EXCEPT ![client[r]] = resolved[client[r]] + 1]
          BY <1>4, <3>4
        <4>3. resolved[client[r]] + 1 \in Nat
          BY <3>1, <4>1
        <4> QED BY <3>1, <3>2, <4>2, <4>3
      <3> QED BY <3>3, <3>4
    <2>4. confirmed' \in [Requests -> SUBSET {"site", "library", "root"}]
      <3>1. confirmed \in [Requests -> SUBSET {"site", "library", "root"}]
        BY DEF TypeOK
      <3>2. CASE confirmed' = confirmed
        BY <3>1, <3>2
      <3>3. CASE confirmed' # confirmed
        <4>1. PICK what \in {"site", "library", "root"} : confirmed' =
                  [confirmed EXCEPT ![client[r]] = confirmed[client[r]] \cup {what}]
          BY <1>4, <3>3
        <4>2. client[r] \in Requests
          BY <1>2, <1>4, <3>3
        <4>3. confirmed[client[r]] \cup {what} \in SUBSET {"site", "library", "root"}
          BY <3>1, <4>2
        <4> QED BY <3>1, <4>1, <4>2, <4>3
      <3> QED BY <3>2, <3>3
    <2>5. token' \in [Requests -> [ends: Nat, expires_at: Nat]]
      <3>1. /\ token \in [Requests -> [ends: Nat, expires_at: Nat]]
            /\ asked[r] \in Nat /\ now \in Nat
        BY <2>1 DEF TypeOK
      <3>2. TokenOf(r) \in [ends: Nat, expires_at: Nat]
        BY <2>1, <3>1 DEF TokenOf
      <3> QED BY <1>5, <3>1, <3>2
    <2>6. pc' \in [Requests -> {"read", "construct", "return", "resolve", "wait_resolve",
                                "wait_token", "fetch", "send", "done"}]
      BY <1>6 DEF TypeOK
    <2>7. purpose' \in [Requests -> Lookups \cup {"operate"}]
      <3> DEFINE P == Lookups \cup {"operate"}
      <3>1. purpose \in [Requests -> P]
        BY DEF TypeOK
      <3>2. purpose' = purpose \/ \E why \in P : purpose' = [purpose EXCEPT ![r] = why]
        BY <1>7
      <3> HIDE DEF P
      <3>3. purpose' \in [Requests -> P]
        BY <3>1, <3>2
      <3> QED BY <3>3 DEF P
    <2>8. tries' \in [Requests -> 0 .. MAX_RETRIES] /\ asked' \in [Requests -> 0 .. MaxTime]
      <3>1. /\ tries \in [Requests -> 0 .. MAX_RETRIES] /\ asked \in [Requests -> 0 .. MaxTime]
            /\ now \in 0 .. MaxTime
        BY DEF TypeOK
      <3>2. 0 \in 0 .. MAX_RETRIES /\ 0 \in 0 .. MaxTime
        BY <2>1
      <3>3. tries[r] < MAX_RETRIES => tries[r] + 1 \in 0 .. MAX_RETRIES
        BY <2>1, <3>1
      <3>4. tries' \in [Requests -> 0 .. MAX_RETRIES]
        BY <1>7, <3>1, <3>3, <3>2
      <3>5. asked' \in [Requests -> 0 .. MaxTime]
        BY <1>7, <3>1, <3>2
      <3> QED BY <3>4, <3>5
    <2>9. carried' \in [Requests -> [ends: Nat, expires_at: Nat]]
      <3>0. /\ token \in [Requests -> [ends: Nat, expires_at: Nat]]
            /\ carried \in [Requests -> [ends: Nat, expires_at: Nat]]
            /\ asked[r] \in 0 .. MaxTime /\ now \in 0 .. MaxTime
        BY DEF TypeOK
      <3>1. /\ token \in [Requests -> [ends: Nat, expires_at: Nat]]
            /\ carried \in [Requests -> [ends: Nat, expires_at: Nat]]
            /\ asked[r] \in Nat /\ now \in Nat
        BY <2>1, <3>0
      <3>2. /\ TokenOf(r) \in [ends: Nat, expires_at: Nat]
            /\ NoToken \in [ends: Nat, expires_at: Nat]
        BY <2>1, <3>1 DEF TokenOf, NoToken
      <3>3. client[r] \in Requests => token[client[r]] \in [ends: Nat, expires_at: Nat]
        BY <3>1
      <3> QED BY <1>2, <1>8, <3>1, <3>2, <3>3
    <2>10. has_folder' \in BOOLEAN /\ closed' \subseteq Requests /\ now' \in 0 .. MaxTime
      BY <1>3 DEF TypeOK
    <2> QED BY <1>1, <2>2, <2>3, <2>4, <2>5, <2>6, <2>7, <2>8, <2>9, <2>10 DEF TypeOK

\* What a step does to what is known of the libraries: the request either is resolving its
\* client and learns something, or leaves everything as it is.
LEMMA LibrarySteps ==
  ASSUME TypeOK, NEW r \in Requests, Step(r)
  PROVE  /\ has_folder' = has_folder
         /\ \/ SiteFound(r) \/ LibraryFound(r) \/ RootFound(r)
            \/ UNCHANGED <<drive, resolved, confirmed>>
  BY DEF Step, ReadGlobal, Construct, ReturnGlobal, Resolve, EnterResolve, UseCachedToken,
         AskForToken, TokenArrives, TokenFails, SiteFound, LibraryFound, NextLibraries,
         RootFound, CallSucceeds, CallThrottled, CallFails, global_vars, remembered

\* Who looks the library up learns it step by step, and is alone in doing so.
LEMMA StepLibrary ==
  ASSUME TypeOK, ClientInv, ResolveQueueInv, LibraryInv, NEW r \in Requests, Step(r)
  PROVE  LibraryInv'
  <1>1. ASSUME NEW s \in Requests, s # r, Resolving(s), Resolving(r)
        PROVE  client[s] # client[r]
    BY <1>1 DEF ResolveQueueInv
  <1>2. Resolving(r) => client[r] \in Requests
    BY DEF ClientInv, Working, Resolving, Calling
  <1>3. ASSUME NEW s \in Requests, s # r
        PROVE  /\ Resolving(s)' <=> Resolving(s)
               /\ client'[s] = client[s] /\ purpose'[s] = purpose[s]
    BY <1>3, StepIsLocal DEF Resolving
  <1>4. CASE ~(SiteFound(r) \/ LibraryFound(r) \/ RootFound(r))
    <2>1. UNCHANGED <<drive, resolved, confirmed, has_folder>>
      BY <1>4, LibrarySteps
    <2>2. Resolving(r)' =>
             /\ client'[r] = client[r]
             /\ \/ purpose'[r] = "site" /\ ~drive[client[r]]
                \/ Resolving(r) /\ purpose'[r] = purpose[r]
                \/ Resolving(r) /\ purpose[r] = "libraries" /\ purpose'[r] = "more_libraries"
      <3> USE DEF TypeOK, Resolving, Calling, Lookups, Goto, BeginCall, Dispatch, Finish,
                  LookUp, global_vars, call
      <3>1. CASE ReadGlobal(r)
        BY <3>1 DEF ReadGlobal
      <3>2. CASE Construct(r)
        BY <3>2 DEF Construct
      <3>3. CASE ReturnGlobal(r)
        BY <3>3 DEF ReturnGlobal
      <3>4. CASE Resolve(r)
        BY <3>4 DEF Resolve
      <3>5. CASE EnterResolve(r)
        <4>1. /\ pc[r] = "wait_resolve" /\ UNCHANGED client
              /\ \/ purpose' = [purpose EXCEPT ![r] = "operate"]
                 \/ ~drive[client[r]] /\ purpose' = [purpose EXCEPT ![r] = "site"]
          BY <3>5 DEF EnterResolve
        <4> QED BY <4>1
      <3>6. CASE UseCachedToken(r)
        BY <3>6 DEF UseCachedToken, HasTokenLock
      <3>7. CASE AskForToken(r)
        BY <3>7 DEF AskForToken, HasTokenLock
      <3>8. CASE TokenArrives(r)
        BY <3>8 DEF TokenArrives, HasTokenLock
      <3>9. CASE TokenFails(r)
        BY <3>9 DEF TokenFails, HasTokenLock
      <3>10. CASE NextLibraries(r)
        BY <3>10 DEF NextLibraries
      <3>11. CASE CallSucceeds(r)
        BY <3>11 DEF CallSucceeds
      <3>12. CASE CallThrottled(r)
        BY <3>12 DEF CallThrottled
      <3>13. CASE CallFails(r)
        BY <3>13 DEF CallFails
      <3> QED BY <1>4, <3>1, <3>2, <3>3, <3>4, <3>5, <3>6, <3>7, <3>8, <3>9,
                 <3>10, <3>11, <3>12, <3>13 DEF Step
    <2>3. ASSUME NEW s \in Requests, Resolving(s)'
          PROVE  /\ ~drive'[client'[s]]
                 /\ Known(purpose'[s]) \subseteq confirmed'[client'[s]]
                 /\ purpose'[s] = "root" => has_folder'
      <3>1. CASE s = r
        BY <2>1, <2>2, <2>3, <3>1 DEF LibraryInv, Known
      <3>2. CASE s # r
        BY <1>3, <2>1, <2>3, <3>2 DEF LibraryInv
      <3> QED BY <3>1, <3>2
    <2>4. (\A c \in Requests : resolved[c] = IF drive[c] THEN 1 ELSE 0)' /\ UsableMeansChecked'
      BY <2>1 DEF LibraryInv, UsableMeansChecked
    <2> QED BY <2>3, <2>4 DEF LibraryInv
  <1>5. CASE SiteFound(r) \/ (LibraryFound(r) /\ has_folder)
    <2> DEFINE what == IF purpose[r] = "site" THEN "site" ELSE "library"
    <2>1. /\ Resolving(r)
          /\ UNCHANGED <<drive, resolved, has_folder, client>>
          /\ confirmed' = [confirmed EXCEPT ![client[r]] = confirmed[client[r]] \cup {what}]
          /\ \/ purpose[r] = "site" /\ purpose'[r] = "libraries"
             \/ /\ purpose[r] \in {"libraries", "more_libraries"}
                /\ purpose'[r] = "root" /\ has_folder
      <3> USE DEF Resolving, Calling, Lookups, LookUp, BeginCall, Confirm, global_vars, TypeOK
      <3>1. CASE SiteFound(r)
        BY <3>1 DEF SiteFound
      <3>2. CASE LibraryFound(r) /\ has_folder
        <4>1. /\ pc[r] = "send" /\ purpose[r] \in {"libraries", "more_libraries"}
              /\ what = "library" /\ Confirm(r, "library") /\ BeginCall(r, "root")
              /\ UNCHANGED <<drive, resolved, has_folder, client>>
          BY <3>2 DEF LibraryFound
        <4> QED BY <3>2, <4>1
      <3> QED BY <1>5, <3>1, <3>2
    <2>2. \A c \in Requests : confirmed[c] \subseteq confirmed'[c]
      BY <2>1 DEF TypeOK
    <2>3. client[r] \in Requests /\ what \in confirmed'[client[r]]
      BY <1>2, <2>1 DEF TypeOK
    <2>4. Known(purpose'[r]) \subseteq confirmed'[client[r]]
      BY <2>1, <2>2, <2>3 DEF LibraryInv, Known
    <2> HIDE DEF what
    <2>5. ASSUME NEW s \in Requests, Resolving(s)'
          PROVE  /\ ~drive'[client'[s]]
                 /\ Known(purpose'[s]) \subseteq confirmed'[client'[s]]
                 /\ purpose'[s] = "root" => has_folder'
      <3>1. CASE s = r
        BY <2>1, <2>4, <3>1 DEF LibraryInv
      <3>2. CASE s # r
        <4>1. client[s] \in Requests
          BY <1>3, <2>5, <3>2 DEF ClientInv, Working, Resolving, Calling
        <4>2. Known(purpose[s]) \subseteq confirmed[client[s]]
          BY <1>3, <2>5, <3>2 DEF LibraryInv
        <4> QED BY <1>3, <2>1, <2>2, <2>5, <3>2, <4>1, <4>2 DEF LibraryInv
      <3> QED BY <3>1, <3>2
    <2>6. (\A c \in Requests : resolved[c] = IF drive[c] THEN 1 ELSE 0)'
      BY <2>1 DEF LibraryInv
    <2>7. UsableMeansChecked'
      BY <2>1, <2>2 DEF LibraryInv, UsableMeansChecked
    <2> QED BY <2>5, <2>6, <2>7 DEF LibraryInv
  <1>6. CASE (LibraryFound(r) /\ ~has_folder) \/ RootFound(r)
    <2> DEFINE what == IF purpose[r] = "root" THEN "root" ELSE "library"
    <2>1. /\ Resolving(r)
          /\ UNCHANGED <<has_folder, client>>
          /\ drive' = [drive EXCEPT ![client[r]] = TRUE]
          /\ resolved' = [resolved EXCEPT ![client[r]] = resolved[client[r]] + 1]
          /\ confirmed' = [confirmed EXCEPT ![client[r]] = confirmed[client[r]] \cup {what}]
          /\ \/ purpose[r] = "root"
             \/ purpose[r] \in {"libraries", "more_libraries"} /\ ~has_folder
          /\ purpose'[r] = "operate"
      BY <1>6 DEF LibraryFound, RootFound, Resolving, Calling, Lookups, Resolved, Remember,
                  BeginCall, Confirm, global_vars, TypeOK
    <2>2. client[r] \in Requests /\ ~drive[client[r]] /\ resolved[client[r]] = 0
      BY <1>2, <2>1 DEF LibraryInv
    <2>3. \A c \in Requests : c # client[r] =>
             drive'[c] = drive[c] /\ resolved'[c] = resolved[c] /\ confirmed'[c] = confirmed[c]
      BY <2>1 DEF TypeOK
    <2>4. /\ drive'[client[r]] = TRUE /\ resolved'[client[r]] = 1
          /\ confirmed'[client[r]] = confirmed[client[r]] \cup {what}
      BY <2>1, <2>2 DEF TypeOK
    <2>5. {"site", "library"} \cup (IF has_folder THEN {"root"} ELSE {})
              \subseteq confirmed'[client[r]]
      BY <2>1, <2>2, <2>4 DEF LibraryInv, Known
    <2> HIDE DEF what
    <2>6. ASSUME NEW s \in Requests, Resolving(s)'
          PROVE  /\ ~drive'[client'[s]]
                 /\ Known(purpose'[s]) \subseteq confirmed'[client'[s]]
                 /\ purpose'[s] = "root" => has_folder'
      <3>1. s # r
        BY <2>1, <2>6 DEF Resolving, Lookups
      <3>2. client[s] \in Requests /\ client[s] # client[r]
        BY <1>1, <1>3, <2>1, <2>6, <3>1 DEF ClientInv, Working, Resolving, Calling
      <3> QED BY <1>3, <2>1, <2>3, <2>6, <3>1, <3>2 DEF LibraryInv
    <2>7. (\A c \in Requests : resolved[c] = IF drive[c] THEN 1 ELSE 0)'
      BY <2>3, <2>4 DEF LibraryInv
    <2>8. UsableMeansChecked'
      BY <2>1, <2>3, <2>4, <2>5 DEF LibraryInv, UsableMeansChecked
    <2> QED BY <2>6, <2>7, <2>8 DEF LibraryInv
  <1> QED BY <1>4, <1>5, <1>6

\* A token comes to a client only by the request that is in front of its queue, so nobody
\* else is fetching one there; and an attempt goes out with a token that is fresh or new.
LEMMA StepTime ==
  ASSUME TypeOK, ClientInv, TokenQueueInv, TimeInv, NEW r \in Requests, Step(r)
  PROVE  TimeInv'
  <1>0. MARGIN \in Nat /\ LIFETIME \in Nat /\ MaxTime \in Nat
    BY TimeAssumption
  <1>1. now \in Nat /\ now' = now
    BY <1>0 DEF TypeOK, Step, ReadGlobal, Construct, ReturnGlobal, Resolve, EnterResolve,
           UseCachedToken, AskForToken, TokenArrives, TokenFails, SiteFound, LibraryFound,
           NextLibraries, RootFound, CallSucceeds, CallThrottled, CallFails
  <1>2. /\ pc'[r] = "fetch" => ~StillFresh(client[r])'
        /\ pc'[r] = "send" => Lasting(carried'[r], asked'[r])
    <2>1. CASE UseCachedToken(r)
      <3> DEFINE c == client[r]
      <3>1. c \in Requests
        BY <2>1 DEF UseCachedToken, HasTokenLock, ClientInv, Working
      <3>2. /\ now < token[c].expires_at - MARGIN
            /\ pc'[r] = "send" /\ asked'[r] = now /\ carried'[r] = token[c]
        BY <2>1 DEF UseCachedToken, StillFresh, Dispatch, Goto, TypeOK
      <3>3. token[c].expires_at \in Nat
        BY <3>1 DEF TypeOK
      <3>4. now + MARGIN < token[c].expires_at
        BY <1>0, <1>1, <3>2, <3>3
      <3> QED BY <3>2, <3>4 DEF Lasting
    <2>2. CASE AskForToken(r)
      <3>1. ~StillFresh(client[r]) /\ client' = client /\ token' = token
        BY <2>2 DEF AskForToken, global_vars
      <3>2. pc'[r] = "fetch"
        BY <2>2 DEF AskForToken, Goto, TypeOK
      <3> QED BY <1>1, <3>1, <3>2 DEF StillFresh
    <2>3. CASE TokenArrives(r)
      <3>1. pc'[r] = "send" /\ asked'[r] = now /\ carried'[r] = TokenOf(r)
        BY <2>3 DEF TokenArrives, Dispatch, Goto, TypeOK
      <3>2. TokenOf(r).expires_at = now + LIFETIME
        BY DEF TokenOf
      <3> QED BY <3>1, <3>2 DEF Lasting
    <2>4. CASE ~(UseCachedToken(r) \/ AskForToken(r) \/ TokenArrives(r))
      <3>1. pc'[r] \notin {"fetch", "send"}
        BY <2>4 DEF Step, ReadGlobal, Construct, ReturnGlobal, Resolve, EnterResolve,
             TokenFails, SiteFound, LibraryFound, NextLibraries, RootFound, CallSucceeds,
             CallThrottled, CallFails, BeginCall, LookUp, Resolved, Finish, Goto, TypeOK
      <3> QED BY <3>1
    <2> QED BY <2>1, <2>2, <2>3, <2>4
  <1>3. ASSUME NEW s \in Requests, s # r
        PROVE  /\ pc'[s] = pc[s] /\ client'[s] = client[s]
               /\ asked'[s] = asked[s] /\ carried'[s] = carried[s]
    BY <1>3, StepIsLocal
  <1>4. ASSUME NEW s \in Requests, s # r, pc[s] = "fetch"
        PROVE  ~StillFresh(client[s])'
    <2>1. client'[s] = client[s] /\ client[s] \in Requests
      BY <1>3, <1>4 DEF ClientInv, Working
    <2>2. token'[client[s]] = token[client[s]]
      <3>1. CASE TokenArrives(r)
        <4>1. client[r] # client[s]
          BY <1>4, <3>1 DEF TokenArrives, TokenQueueInv
        <4>2. token' = [token EXCEPT ![client[r]] = TokenOf(r)]
          BY <3>1 DEF TokenArrives
        <4> QED BY <2>1, <4>1, <4>2 DEF TypeOK
      <3>2. CASE ~TokenArrives(r)
        <4>1. token' = token
          BY <3>2 DEF Step, ReadGlobal, Construct, ReturnGlobal, Resolve, EnterResolve,
               UseCachedToken, AskForToken, TokenFails, SiteFound, LibraryFound,
               NextLibraries, RootFound, CallSucceeds, CallThrottled, CallFails
        <4> QED BY <4>1
      <3> QED BY <3>1, <3>2
    <2>3. ~StillFresh(client[s])
      BY <1>4 DEF TimeInv
    <2> QED BY <1>1, <2>1, <2>2, <2>3 DEF StillFresh
  <1>5. ASSUME NEW s \in Requests
        PROVE  /\ pc'[s] = "fetch" => ~StillFresh(client[s])'
               /\ pc'[s] = "send" => Lasting(carried'[s], asked'[s])
    <2>1. CASE s = r
      BY <1>2, <2>1
    <2>2. CASE s # r
      <3>1. pc'[s] = "send" => Lasting(carried'[s], asked'[s])
        BY <1>3, <2>2 DEF TimeInv
      <3>2. pc'[s] = "fetch" => ~StillFresh(client[s])'
        BY <1>3, <1>4, <2>2
      <3> QED BY <3>1, <3>2
    <2> QED BY <2>1, <2>2
  <1> QED BY <1>5 DEF TimeInv, Lasting

-----------------------------------------------------------------------------
(* Every step keeps the invariant.                                         *)

\* No token becomes fresh because time passes.
LEMMA TickInv ==
  ASSUME GatewayInv, Tick
  PROVE  GatewayInv'
  <1> USE DEF GatewayInv
  <1>1. UNCHANGED <<has_folder, global, client, closed, drive, confirmed, resolved,
                    resolveLock, tokenLock, token, pc, purpose, tries, asked, carried>>
    BY DEF Tick, global_vars, remembered, locks, call
  <1>2. TypeOK'
    <2>1. now' \in 0 .. MaxTime
      <3>1. now \in 0 .. MaxTime
        BY Zenon DEF TypeOK
      <3>2. now < MaxTime /\ now' = now + 1
        BY DEF Tick
      <3> QED BY <3>1, <3>2, TimeAssumption
    <2> QED BY <1>1, <2>1 DEF TypeOK
  <1>3. ClientInv' /\ TokenQueueInv' /\ ResolveQueueInv' /\ LibraryInv'
    BY <1>1 DEF ClientInv, TokenQueueInv, ResolveQueueInv, LibraryInv, UsableMeansChecked,
                Resolving
  <1>4. TimeInv'
    <2>1. now \in Nat /\ now' = now + 1 /\ MARGIN \in Nat
      BY TimeAssumption DEF Tick, TypeOK
    <2>2. ASSUME NEW r \in Requests, pc[r] = "fetch"
          PROVE  ~StillFresh(client[r])'
      <3>1. client[r] \in Requests /\ ~StillFresh(client[r])
        BY <2>2 DEF ClientInv, Working, TimeInv
      <3>2. token[client[r]].expires_at \in Nat
        BY <3>1 DEF TypeOK
      <3>3. token' = token /\ client' = client
        BY <1>1
      <3> QED BY <2>1, <3>1, <3>2, <3>3 DEF StillFresh
    <2>3. \A r \in Requests : pc[r] = "send" => Lasting(carried[r], asked[r])
      BY DEF TimeInv
    <2> QED BY <1>1, <2>2, <2>3 DEF TimeInv, Lasting
  <1> QED BY <1>2, <1>3, <1>4

\* The last request is gone when the client is closed.
LEMMA ShutdownInv ==
  ASSUME GatewayInv, Shutdown
  PROVE  GatewayInv'
  <1> USE DEF GatewayInv
  <1>1. /\ UNCHANGED <<has_folder, client, drive, confirmed, resolved, resolveLock, tokenLock,
                       token, pc, purpose, tries, asked, carried, now>>
        /\ global' = NoClient /\ closed' = closed \cup {global} /\ global # NoClient
        /\ \A r \in Requests : pc[r] = "done"
    BY DEF Shutdown, remembered, locks, call
  <1>2. TypeOK'
    BY <1>1 DEF TypeOK
  <1>3. ClientInv' /\ TokenQueueInv' /\ ResolveQueueInv'
    BY <1>1 DEF ClientInv, TokenQueueInv, ResolveQueueInv, Resolving, Working, Fetching, Calling
  <1>4. LibraryInv' /\ TimeInv'
    BY <1>1 DEF LibraryInv, UsableMeansChecked, Resolving, TimeInv, StillFresh, Lasting
  <1> QED BY <1>2, <1>3, <1>4

\* The invariant is inductive.
LEMMA NextInv == GatewayInv /\ [Next]_vars => GatewayInv'
  <1> SUFFICES ASSUME GatewayInv, [Next]_vars PROVE GatewayInv'
    OBVIOUS
  <1>1. ASSUME NEW r \in Requests, Step(r) PROVE GatewayInv'
    BY <1>1, StepType, StepClient, StepTokenQueue, StepResolveQueue, StepLibrary, StepTime
       DEF GatewayInv
  <1>2. CASE UNCHANGED vars
    BY <1>2 DEF vars, global_vars, remembered, locks, call, GatewayInv, TypeOK, ClientInv,
                TokenQueueInv, ResolveQueueInv, LibraryInv, UsableMeansChecked, Resolving,
                TimeInv, StillFresh, Lasting
  <1>3. CASE Terminated
    BY <1>2, <1>3 DEF Terminated
  <1> QED BY <1>1, <1>2, <1>3, TickInv, ShutdownInv DEF Next

\* It holds in every state the service reaches.
LEMMA AlwaysInv == Spec => []GatewayInv
  BY InitInv, NextInv, PTL DEF Spec

-----------------------------------------------------------------------------
(* The theorems.                                                           *)

\* Every variable keeps its type.
THEOREM TypeCorrect == Spec => []TypeOK
  <1>1. GatewayInv => TypeOK
    BY DEF GatewayInv
  <1> QED BY <1>1, AlwaysInv, PTL

\* However many requests share a client, one at a time fetches a token for them, and only
\* while none is fresh: who waited uses the one that came (_TokenProvider.get).
THEOREM OneFetchAtATime == Spec => []OneTokenFetch
  <1>1. GatewayInv => OneTokenFetch
    BY DEF GatewayInv, TokenQueueInv, TimeInv, OneTokenFetch
  <1> QED BY <1>1, AlwaysInv, PTL

\* A client's library is looked up successfully at most once (_resolve).
THEOREM ResolvedAtMostOnce == Spec => []ResolvedOnce
  <1>1. GatewayInv => ResolvedOnce
    BY DEF GatewayInv, LibraryInv, ResolvedOnce
  <1> QED BY <1>1, AlwaysInv, PTL

\* A client that lets requests through without the lock has found the site, the library
\* and the root folder (_resolve, _check_root).
THEOREM CheckedBeforeUse == Spec => []UsableMeansChecked
  <1>1. GatewayInv => UsableMeansChecked
    BY DEF GatewayInv, LibraryInv
  <1> QED BY <1>1, AlwaysInv, PTL

\* No attempt can reach Graph with a token that has ended ("so a token never expires
\* mid-request"), unless the sign-in that handed it out and the attempt took longer than
\* the margin, or than the token lives; for any margin and lifetime.
THEOREM TokenOutlivesCall == Spec => []TokenAliveOnArrival
  <1>1. GatewayInv => TokenAliveOnArrival
    <2> SUFFICES ASSUME GatewayInv, NEW r \in Requests, pc[r] = "send",
                        SignInTook(carried[r]) + OnItsWay(r) <= MARGIN,
                        SignInTook(carried[r]) + OnItsWay(r) < LIFETIME
                 PROVE  now < carried[r].ends
      BY DEF TokenAliveOnArrival
    <2> DEFINE ends == carried[r].ends
               thought == carried[r].expires_at
               since == asked[r]
    <2>1. /\ now \in Nat /\ since \in Nat /\ ends \in Nat /\ thought \in Nat
          /\ MARGIN \in Nat /\ LIFETIME \in Nat
      <3>1. /\ now \in 0 .. MaxTime /\ since \in 0 .. MaxTime
            /\ carried[r] \in [ends: Nat, expires_at: Nat]
        BY DEF GatewayInv, TypeOK
      <3>2. MARGIN \in Nat /\ LIFETIME \in Nat /\ MaxTime \in Nat
        BY TimeAssumption
      <3> QED BY <3>1, <3>2
    <2>2. /\ (thought - ends) + (now - since) <= MARGIN
          /\ (thought - ends) + (now - since) < LIFETIME
      BY DEF SignInTook, OnItsWay
    <2>3. since + MARGIN < thought \/ since + LIFETIME = thought
      BY DEF GatewayInv, TimeInv, Lasting
    <2> HIDE DEF ends, thought, since
    <2>4. now < ends
      BY <2>1, <2>2, <2>3
    <2> QED BY <2>4 DEF ends
  <1> QED BY <1>1, AlwaysInv, PTL
=============================================================================
