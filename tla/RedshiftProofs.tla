--------------------------- MODULE RedshiftProofs ---------------------------
(***************************************************************************)
(* Theorems about RedshiftQuery, for every number of queries, processes    *)
(* and connections, every pool size and every row:                         *)
(*   - TypeCorrect: the type invariant;                                    *)
(*   - NoConnectionLeaks: exactly the running queries hold connections;    *)
(*   - PoolLimited: no pool exceeds its limit or loses a connection;       *)
(*   - HandedOverClean, OutcomeIsTrue, AuditIsComplete: transactions;      *)
(*   - SensitiveHidden: what leaves the gateway is masked.                 *)
(* The pools' invariants need nothing of the transactions; the one about   *)
(* transactions rests on them, for a connection in use has one user.       *)
(***************************************************************************)
EXTENDS RedshiftQuery, SequenceTheorems, FiniteSetTheorems, TLAPS

-----------------------------------------------------------------------------
(* Sequences as pools of connections.                                      *)

\* A connection put at the end of a pool joins those in it.
LEMMA AppendToPool ==
  ASSUME NEW S, NEW s \in Seq(S), NEW c \in S
  PROVE  /\ Append(s, c) \in Seq(S)
         /\ Range(Append(s, c)) = Range(s) \cup {c}
         /\ IsInjective(s) /\ c \notin Range(s) => IsInjective(Append(s, c))
         /\ Len(Append(s, c)) = Len(s) + 1
  <1>1. /\ Len(s) \in Nat /\ DOMAIN s = 1 .. Len(s)
        /\ DOMAIN Append(s, c) = 1 .. Len(s) + 1
        /\ \A i \in 1 .. Len(s) : Append(s, c)[i] = s[i]
        /\ Append(s, c)[Len(s) + 1] = c
        /\ Append(s, c) \in Seq(S) /\ Len(Append(s, c)) = Len(s) + 1
    OBVIOUS
  <1>2. 1 .. Len(s) + 1 = (1 .. Len(s)) \cup {Len(s) + 1}
    BY <1>1
  <1>3. Range(Append(s, c)) = Range(s) \cup {c}
    BY <1>1, <1>2 DEF Range
  <1>4. IsInjective(s) /\ c \notin Range(s) => IsInjective(Append(s, c))
    BY <1>1, <1>2 DEF IsInjective, Range
  <1> QED BY <1>1, <1>3, <1>4

\* The connection taken from the end of a pool leaves the others in it.
LEMMA TakeFromPool ==
  ASSUME NEW S, NEW s \in Seq(S), s # <<>>
  PROVE  LET rest == SubSeq(s, 1, Len(s) - 1)  last == s[Len(s)] IN
         /\ rest \in Seq(S) /\ last \in S
         /\ Len(rest) = Len(s) - 1
         /\ Range(s) = Range(rest) \cup {last}
         /\ IsInjective(s) => IsInjective(rest) /\ last \notin Range(rest)
  <1> DEFINE rest == SubSeq(s, 1, Len(s) - 1)
  <1>1. /\ Len(s) \in Nat \ {0} /\ DOMAIN s = 1 .. Len(s)
        /\ rest \in Seq(S) /\ Len(rest) = Len(s) - 1
        /\ DOMAIN rest = 1 .. Len(s) - 1
        /\ \A i \in 1 .. Len(s) - 1 : rest[i] = s[i]
        /\ s[Len(s)] \in S
    <2>1. Len(s) \in Nat \ {0} /\ DOMAIN s = 1 .. Len(s) /\ \A i \in 1 .. Len(s) : s[i] \in S
      BY LenProperties, EmptySeq
    <2>2. \A i \in 1 .. Len(s) - 1 : s[i] \in S
      BY <2>1
    <2>3. /\ rest \in Seq(S) /\ Len(rest) = Len(s) - 1
          /\ \A i \in 1 .. Len(s) - 1 : rest[i] = s[i]
      BY <2>1, <2>2
    <2>4. DOMAIN rest = 1 .. Len(s) - 1
      BY <2>3, LenProperties
    <2> QED BY <2>1, <2>3, <2>4
  <1>2. 1 .. Len(s) = (1 .. Len(s) - 1) \cup {Len(s)} /\ Len(s) \notin 1 .. Len(s) - 1
    BY <1>1
  <1>3. Range(s) = Range(rest) \cup {s[Len(s)]}
    BY <1>1, <1>2 DEF Range
  <1>4. IsInjective(s) => IsInjective(rest) /\ s[Len(s)] \notin Range(rest)
    BY <1>1, <1>2 DEF IsInjective, Range
  <1> QED BY <1>1, <1>3, <1>4

-----------------------------------------------------------------------------
(* The type invariant.                                                     *)

\* A mask keeps a row's fields, and makes texts of texts.
LEMMA MaskType ==
  ASSUME NEW row \in Results
  PROVE  mask_record(row) \in Shown
  <1>1. ASSUME NEW text \in Seq(Nat) PROVE mask_value(text) \in Seq(Nat)
    <2> DEFINE e(i) == IF Len(text) <= 4 \/ i + 4 <= Len(text) THEN Star ELSE text[i]
    <2>1. Len(text) \in Nat /\ DOMAIN text = 1 .. Len(text)
      OBVIOUS
    <2>2. \A i \in 1 .. Len(text) : e(i) \in Nat
      BY <2>1 DEF Star
    <2>3. [i \in 1 .. Len(text) |-> e(i)] \in Seq(Nat)
      BY <2>1, <2>2
    <2> QED BY <2>1, <2>3 DEF mask_value
  <1>2. ASSUME NEW f \in DOMAIN row PROVE row[f] \in Seq(Nat)
    <2>1. row[f] \in Seq(Nat \ {Star})
      BY ResultAssumption
    <2> QED BY <2>1, SeqMonotonic
  <1>3. mask_record(row) \in [DOMAIN row -> Seq(Nat)]
    BY <1>1, <1>2 DEF mask_record
  <1> QED BY <1>3 DEF Shown

\* Inside `with self._connection()` a thread has a connection.
HeldOK == \A q \in Queries : pc[q] \in Inside => held[q] \in Conns

\* The service starts well-typed, with nobody inside a connection.
LEMMA InitTypeOK == Init => TypeOK /\ HeldOK
  BY PoolAssumption DEF Init, TypeOK, HeldOK, Inside, Shown

\* An answer is of the type of the answers, whatever else the step does.
LEMMA AnswerType ==
  ASSUME TypeOK, NEW q \in Queries, NEW code \in {"200", "502", "500"},
         NEW status \in {"ok", "failed"}, Answer(q, code, status)
  PROVE  /\ pc' = [pc EXCEPT ![q] = "done"]
         /\ response' = [response EXCEPT ![q] = code]
         /\ response' \in [Queries -> {"none", "200", "502", "500"}]
         /\ audit' = [audit EXCEPT ![q] = Append(audit[q], status)]
         /\ audit' \in [Queries -> Seq({"ok", "failed"})]
  BY DEF TypeOK, Answer, Goto, log_query

\* So is a blank 500, which leaves the audit records alone.
LEMMA EscapeType ==
  ASSUME TypeOK, NEW q \in Queries, Escape(q)
  PROVE  /\ pc' = [pc EXCEPT ![q] = "done"]
         /\ response' = [response EXCEPT ![q] = "500"]
         /\ response' \in [Queries -> {"none", "200", "502", "500"}]
         /\ audit' = audit
         /\ audit' \in [Queries -> Seq({"ok", "failed"})]
  BY DEF TypeOK, Escape, Goto

\* Every step of a query, and every connection that breaks, keeps the types, and
\* only a thread that has a connection is inside.
LEMMA NextTypeOK == TypeOK /\ HeldOK /\ [Next]_vars => (TypeOK /\ HeldOK)'
  <1> SUFFICES ASSUME TypeOK, HeldOK, [Next]_vars PROVE TypeOK' /\ HeldOK'
    OBVIOUS
  <1> USE DEF Goto, Inside
  <1>1. ASSUME NEW q \in Queries, Step(q) PROVE TypeOK' /\ HeldOK'
    <2> DEFINE w == WorkerOf[q]
               c == held[q]
    <2>0. w \in Workers
      BY QueryAssumption
    <2>1. CASE UseClient(q)
      BY <2>1 DEF UseClient, pool, changes, answers, TypeOK, HeldOK
    <2>2. CASE CreateClient(q)
      <3>1. PICK first \in [1 .. POOL_MIN -> NewConns] :
                /\ idle' = [idle EXCEPT ![w] = first]
                /\ link' = [d \in Conns |-> IF d \in Range(first) THEN "live" ELSE link[d]]
        BY <2>2 DEF CreateClient
      <3>2. first \in Seq(Conns)
        BY PoolAssumption DEF NewConns
      <3> QED BY <2>2, <2>0, <3>1, <3>2 DEF CreateClient, changes, answers, TypeOK, HeldOK
    <2>3. CASE CreateClientFails(q)
      <3>1. UNCHANGED <<pool, link, changes, held, outcome, shown, committed, breaks>>
        BY <2>3 DEF CreateClientFails
      <3>2. /\ pc' = [pc EXCEPT ![q] = "done"]
            /\ response' \in [Queries -> {"none", "200", "502", "500"}]
            /\ audit' \in [Queries -> Seq({"ok", "failed"})]
        BY <2>3, AnswerType, EscapeType DEF CreateClientFails
      <3> QED BY <3>1, <3>2 DEF pool, changes, TypeOK, HeldOK
    <2>4. CASE GetConn(q)
      <3>1. CASE idle[w] # <<>>
        <4> DEFINE rest == SubSeq(idle[w], 1, Len(idle[w]) - 1)
                   last == idle[w][Len(idle[w])]
        <4>1. rest \in Seq(Conns) /\ last \in Conns
          BY <2>0, <3>1, TakeFromPool DEF TypeOK
        <4>2. /\ idle' = [idle EXCEPT ![w] = rest]
              /\ used' = [used EXCEPT ![w] = used[w] \cup {last}]
              /\ held' = [held EXCEPT ![q] = last]
              /\ pc' = [pc EXCEPT ![q] = "execute"]
              /\ UNCHANGED <<client, link, open, session, outcome, response, shown, audit,
                             committed, breaks>>
          BY <2>4, <3>1 DEF GetConn, changes, answers
        <4> HIDE DEF rest, last
        <4> QED BY <2>0, <4>1, <4>2 DEF TypeOK, HeldOK
      <3>2. CASE idle[w] = <<>>
        <4>1. PICK d \in NewConns :
                  /\ link' = [link EXCEPT ![d] = "live"]
                  /\ used' = [used EXCEPT ![w] = used[w] \cup {d}]
                  /\ held' = [held EXCEPT ![q] = d]
          BY <2>4, <3>2 DEF GetConn
        <4>2. /\ pc' = [pc EXCEPT ![q] = "execute"]
              /\ UNCHANGED <<client, idle, open, session, outcome, response, shown, audit,
                             committed, breaks>>
          BY <2>4, <3>2 DEF GetConn, changes, answers
        <4> QED BY <2>0, <4>1, <4>2 DEF TypeOK, HeldOK, NewConns
      <3> QED BY <3>1, <3>2
    <2>5. CASE GetConnFails(q)
      <3>1. UNCHANGED <<pool, link, changes, held, outcome, shown, committed, breaks>>
        BY <2>5 DEF GetConnFails
      <3>2. /\ pc' = [pc EXCEPT ![q] = "done"]
            /\ response' \in [Queries -> {"none", "200", "502", "500"}]
            /\ audit' \in [Queries -> Seq({"ok", "failed"})]
        BY <2>5, AnswerType DEF GetConnFails
      <3> QED BY <3>1, <3>2 DEF pool, changes, TypeOK, HeldOK
    <2>6. CASE Execute(q)
      <3>1. c \in Conns
        BY <2>6 DEF Execute, HeldOK
      <3>2. /\ UNCHANGED <<client, idle, used, session, held, outcome, response, shown, audit,
                           committed, breaks>>
            /\ pc' \in {[pc EXCEPT ![q] = "commit"], [pc EXCEPT ![q] = "rollback"]}
            /\ link' \in {link, [link EXCEPT ![c] = "closed"]}
            /\ open' \in {[open EXCEPT ![c] = open[c] \cup {q}], [open EXCEPT ![c] = {}]}
        BY <2>6 DEF Execute, pool, answers
      <3>3. HeldOK'
        BY <3>1, <3>2 DEF TypeOK, HeldOK
      <3> HIDE DEF c
      <3>4. TypeOK'
        <4>1. link' \in [Conns -> {"new", "live", "broken", "closed"}]
          BY <3>1, <3>2 DEF TypeOK
        <4>2. open' \in [Conns -> SUBSET Queries]
          <5>1. open \in [Conns -> SUBSET Queries] /\ open[c] \cup {q} \in SUBSET Queries
            BY <3>1 DEF TypeOK
          <5> QED BY <3>2, <5>1
        <4>3. pc' \in [Queries -> Inside \cup {"get_client", "getconn", "answer", "done"}]
          BY <3>2 DEF TypeOK
        <4> QED BY <3>2, <4>1, <4>2, <4>3 DEF TypeOK
      <3> QED BY <3>3, <3>4
    <2>7. CASE Commit(q)
      <3>1. c \in Conns
        BY <2>7 DEF Commit, HeldOK
      <3>2. /\ UNCHANGED <<client, idle, used, held, response, shown, audit, breaks>>
            /\ pc' \in {[pc EXCEPT ![q] = "putconn"], [pc EXCEPT ![q] = "rollback"]}
            /\ link' \in {link, [link EXCEPT ![c] = "closed"]}
            /\ open' \in {open, [open EXCEPT ![c] = {}]}
            /\ session' \in {session, [session EXCEPT ![c] = session[c] \cup open[c]]}
            /\ outcome' \in {outcome, [outcome EXCEPT ![q] = "rows"]}
            /\ committed' \in {committed, committed \cup open[c]}
        BY <2>7 DEF Commit, pool, answers, changes
      <3>3. HeldOK'
        BY <3>1, <3>2 DEF TypeOK, HeldOK
      <3> HIDE DEF c
      <3>4. TypeOK'
        <4>1. link' \in [Conns -> {"new", "live", "broken", "closed"}]
          BY <3>1, <3>2 DEF TypeOK
        <4>2. open' \in [Conns -> SUBSET Queries]
          BY <3>1, <3>2 DEF TypeOK
        <4>3. session' \in [Conns -> SUBSET Queries]
          <5>1. /\ session \in [Conns -> SUBSET Queries]
                /\ session[c] \cup open[c] \in SUBSET Queries
            BY <3>1 DEF TypeOK
          <5> QED BY <3>2, <5>1
        <4>4. pc' \in [Queries -> Inside \cup {"get_client", "getconn", "answer", "done"}]
          BY <3>2 DEF TypeOK
        <4>5. outcome' \in [Queries -> {"none", "rows", "query_error", "raw_error"}]
          BY <3>2 DEF TypeOK
        <4>6. committed' \subseteq Queries
          BY <3>1, <3>2 DEF TypeOK
        <4> QED BY <3>2, <4>1, <4>2, <4>3, <4>4, <4>5, <4>6 DEF TypeOK
      <3> QED BY <3>3, <3>4
    <2>8. CASE Rollback(q)
      <3>1. c \in Conns
        BY <2>8 DEF Rollback, HeldOK
      <3>2. /\ UNCHANGED <<client, idle, used, session, held, response, shown, audit,
                           committed, breaks>>
            /\ pc' = [pc EXCEPT ![q] = "putconn"]
            /\ link' \in {link, [link EXCEPT ![c] = "closed"]}
            /\ open' = [open EXCEPT ![c] = {}]
            /\ outcome' \in {[outcome EXCEPT ![q] = "query_error"],
                             [outcome EXCEPT ![q] = "raw_error"]}
        BY <2>8 DEF Rollback, pool, answers
      <3>3. HeldOK'
        BY <3>1, <3>2 DEF TypeOK, HeldOK
      <3> HIDE DEF c
      <3>4. TypeOK'
        BY <3>1, <3>2 DEF TypeOK
      <3> QED BY <3>3, <3>4
    <2>9. CASE PutConn(q)
      <3>1. c \in Conns
        BY <2>9 DEF PutConn, HeldOK
      <3>2. Append(idle[w], c) \in Seq(Conns)
        BY <2>0, <3>1 DEF TypeOK
      <3>3. /\ UNCHANGED <<client, open, session, outcome, response, shown, audit,
                           committed, breaks>>
            /\ pc' = [pc EXCEPT ![q] = "answer"]
            /\ held' = [held EXCEPT ![q] = NoConn]
            /\ used' = [used EXCEPT ![w] = used[w] \ {c}]
            /\ link' \in {link, [link EXCEPT ![c] = "closed"]}
            /\ idle' \in {idle, [idle EXCEPT ![w] = Append(idle[w], c)]}
        BY <2>9 DEF PutConn, answers, changes
      <3> HIDE DEF c
      <3> QED BY <2>0, <3>1, <3>2, <3>3 DEF TypeOK, HeldOK
    <2>10. CASE Respond(q)
      <3>1. UNCHANGED <<pool, link, changes, held, outcome, committed, breaks>>
        BY <2>10 DEF Respond
      <3>2. shown' \in [Queries -> Shown]
        BY <2>10, MaskType DEF Respond, TypeOK
      <3>3. /\ pc' = [pc EXCEPT ![q] = "done"]
            /\ response' \in [Queries -> {"none", "200", "502", "500"}]
            /\ audit' \in [Queries -> Seq({"ok", "failed"})]
        BY <2>10, AnswerType, EscapeType DEF Respond
      <3> QED BY <3>1, <3>2, <3>3 DEF pool, changes, TypeOK, HeldOK
    <2> QED BY <1>1, <2>1, <2>2, <2>3, <2>4, <2>5, <2>6, <2>7, <2>8, <2>9, <2>10 DEF Step
  <1>2. ASSUME NEW c \in Conns, ConnBreaks(c) PROVE TypeOK' /\ HeldOK'
    BY <1>2, PoolAssumption DEF ConnBreaks, pool, changes, threads, answers, TypeOK, HeldOK
  <1>3. CASE UNCHANGED vars
    BY <1>3 DEF vars, pool, changes, threads, answers, TypeOK, HeldOK
  <1> QED BY <1>1, <1>2, <1>3 DEF Next, Terminated

\* The pools, threads, transactions and answers of /query stay well-typed, and no more
\* connections break than the bound says.
THEOREM TypeCorrect == Spec => []TypeOK
  BY InitTypeOK, NextTypeOK, PTL DEF Spec

-----------------------------------------------------------------------------
(* Who has which connection.                                               *)

\* The connections that a process's pool knows of.
Pooled(w) == Range(idle[w]) \cup used[w]

\* A connection is in one place of one pool, and was opened.
PoolInv ==
    /\ \A w \in Workers : IsInjective(idle[w])
    /\ \A w \in Workers : Range(idle[w]) \cap used[w] = {}
    /\ \A v, w \in Workers : v # w => Pooled(v) \cap Pooled(w) = {}
    /\ \A w \in Workers : \A c \in Pooled(w) : link[c] # "new"

\* A running query has a connection of its pool to itself, and every connection that was
\* handed out has its query.
HoldInv ==
    /\ \A q \in Queries : pc[q] \in Inside => held[q] \in used[WorkerOf[q]]
    /\ \A p, q \in Queries : pc[p] \in Inside /\ pc[q] \in Inside /\ held[p] = held[q] => p = q
    /\ \A w \in Workers : \A c \in used[w] :
          \E q \in Queries : WorkerOf[q] = w /\ pc[q] \in Inside /\ held[q] = c

\* At the start there is no connection to be in two places.
LEMMA InitPool == Init => PoolInv /\ HoldInv
  <1> SUFFICES ASSUME Init PROVE PoolInv /\ HoldInv
    OBVIOUS
  <1>1. \A w \in Workers : idle[w] = <<>> /\ used[w] = {}
    BY DEF Init
  <1>2. \A w \in Workers : Range(idle[w]) = {} /\ IsInjective(idle[w])
    BY <1>1 DEF Range, IsInjective
  <1>3. PoolInv
    BY <1>1, <1>2 DEF PoolInv, Pooled
  <1>4. HoldInv
    BY <1>1 DEF HoldInv, Init, Inside
  <1> QED BY <1>3, <1>4

\* A step that moves no connection, and lets no query in or out, changes nothing of this.
LEMMA QuietStep ==
  ASSUME PoolInv, HoldInv, UNCHANGED <<idle, used, held>>,
         \A q \in Queries : pc'[q] \in Inside <=> pc[q] \in Inside,
         \A c \in Conns : link[c] # "new" => link'[c] # "new",
         TypeOK
  PROVE  PoolInv' /\ HoldInv'
  <1>1. \A w \in Workers : Pooled(w)' = Pooled(w) /\ Pooled(w) \subseteq Conns
    <2>1. \A w \in Workers : Range(idle[w]) \subseteq Conns
      BY RangeOfSeq DEF TypeOK
    <2> QED BY <2>1 DEF Pooled, TypeOK
  <1>2. PoolInv'
    BY <1>1 DEF PoolInv
  <1>3. HoldInv'
    BY DEF HoldInv
  <1> QED BY <1>2, <1>3

\* A thread takes a connection that is in no other place.
LEMMA TakeStep ==
  ASSUME TypeOK, PoolInv, HoldInv,
         NEW q \in Queries, ~(pc[q] \in Inside),
         NEW c \in Conns,
         used' = [used EXCEPT ![WorkerOf[q]] = used[WorkerOf[q]] \cup {c}],
         held' = [held EXCEPT ![q] = c],
         pc' = [pc EXCEPT ![q] = "execute"],
         link'[c] # "new", \A d \in Conns : link[d] # "new" => link'[d] # "new",
         \A w \in Workers : IsInjective(idle'[w]) /\ Range(idle'[w]) \subseteq Range(idle[w]) \ {c},
         \A w \in Workers : c \notin used[w],
         \A w \in Workers : w # WorkerOf[q] => c \notin Range(idle[w])
  PROVE  PoolInv' /\ HoldInv'
  <1> DEFINE own == WorkerOf[q]
  <1>0. own \in Workers /\ \A p \in Queries : WorkerOf[p] \in Workers
    BY QueryAssumption
  <1>1. \A w \in Workers : used'[w] = IF w = own THEN used[w] \cup {c} ELSE used[w]
    BY DEF TypeOK
  <1>2. \A w \in Workers : Pooled(w)' \subseteq Pooled(w) \cup (IF w = own THEN {c} ELSE {})
    BY <1>1 DEF Pooled
  <1>3. \A w \in Workers : w # own => c \notin Pooled(w)
    BY DEF Pooled
  <1>4. \A w \in Workers : Pooled(w) \subseteq Conns
    BY RangeOfSeq DEF TypeOK, Pooled
  <1>5. PoolInv'
    <2>1. \A w \in Workers : Range(idle'[w]) \cap used'[w] = {}
      BY <1>1 DEF PoolInv
    <2>2. \A v, w \in Workers : v # w => Pooled(v)' \cap Pooled(w)' = {}
      BY <1>2, <1>3 DEF PoolInv
    <2>3. \A w \in Workers : \A d \in Pooled(w)' : link'[d] # "new"
      BY <1>2, <1>4 DEF PoolInv
    <2> QED BY <2>1, <2>2, <2>3 DEF PoolInv
  <1>6. \A p \in Queries : pc'[p] \in Inside <=> (p = q \/ pc[p] \in Inside)
    BY DEF TypeOK, Inside
  <1>7. \A p \in Queries : held'[p] = IF p = q THEN c ELSE held[p]
    BY DEF TypeOK
  <1>8. \A p \in Queries : pc[p] \in Inside => held[p] # c
    BY <1>0 DEF HoldInv
  <1>9. HoldInv'
    <2>1. \A p \in Queries : pc'[p] \in Inside => held'[p] \in used'[WorkerOf[p]]
      BY <1>0, <1>1, <1>6, <1>7 DEF HoldInv
    <2>2. \A p, r \in Queries :
             pc'[p] \in Inside /\ pc'[r] \in Inside /\ held'[p] = held'[r] => p = r
      BY <1>6, <1>7, <1>8 DEF HoldInv
    <2>3. ASSUME NEW w \in Workers, NEW d \in used'[w]
          PROVE  \E p \in Queries : WorkerOf[p] = w /\ pc'[p] \in Inside /\ held'[p] = d
      <3>1. CASE d \in used[w]
        <4>1. PICK p \in Queries : WorkerOf[p] = w /\ pc[p] \in Inside /\ held[p] = d
          BY <3>1 DEF HoldInv
        <4> QED BY <4>1, <1>6, <1>7
      <3>2. CASE d \notin used[w]
        BY <2>3, <3>2, <1>1, <1>6, <1>7
      <3> QED BY <3>1, <3>2
    <2> QED BY <2>1, <2>2, <2>3 DEF HoldInv
  <1> QED BY <1>5, <1>9

\* The thread's connection goes back to its pool, or out of it.
LEMMA PutStep ==
  ASSUME TypeOK, HeldOK, PoolInv, HoldInv, NEW q \in Queries, PutConn(q)
  PROVE  PoolInv' /\ HoldInv'
  <1> DEFINE own == WorkerOf[q]
             c == held[q]
  <1>0. own \in Workers /\ \A p \in Queries : WorkerOf[p] \in Workers
    BY QueryAssumption
  <1>1. pc[q] \in Inside /\ c \in used[own] /\ c \in Conns
    BY DEF PutConn, HoldInv, HeldOK, Inside
  <1>2. \A w \in Workers : used'[w] = IF w = own THEN used[w] \ {c} ELSE used[w]
    BY DEF PutConn, TypeOK
  <1>3. \A d \in Conns : link[d] # "new" => link'[d] # "new"
    BY DEF PutConn, TypeOK
  <1>4. \A p \in Queries : pc'[p] \in Inside <=> (p # q /\ pc[p] \in Inside)
    BY <1>1 DEF PutConn, Goto, TypeOK, Inside
  <1>5. \A p \in Queries : p # q => held'[p] = held[p]
    BY DEF PutConn, TypeOK
  <1>6. /\ \A w \in Workers : IsInjective(idle'[w])
        /\ \A w \in Workers : w # own => idle'[w] = idle[w]
        /\ Range(idle'[own]) \subseteq Range(idle[own]) \cup {c}
    <2>1. CASE idle' = idle
      BY <2>1, <1>0 DEF PoolInv
    <2>2. CASE idle' = [idle EXCEPT ![own] = Append(@, c)]
      <3>1. idle[own] \in Seq(Conns) /\ IsInjective(idle[own]) /\ c \notin Range(idle[own])
        BY <1>0, <1>1 DEF PoolInv, TypeOK
      <3>2. Range(Append(idle[own], c)) = Range(idle[own]) \cup {c} /\ IsInjective(Append(idle[own], c))
        BY <3>1, <1>1, AppendToPool
      <3> QED BY <2>2, <3>2, <1>0 DEF PoolInv, TypeOK
    <2> QED BY <2>1, <2>2 DEF PutConn
  <1>7. \A w \in Workers : Pooled(w)' \subseteq Pooled(w) /\ Pooled(w) \subseteq Conns
    <2>1. \A w \in Workers : Pooled(w) \subseteq Conns
      BY RangeOfSeq DEF TypeOK, Pooled
    <2> QED BY <2>1, <1>0, <1>1, <1>2, <1>6 DEF Pooled
  <1>8. PoolInv'
    <2>1. \A w \in Workers : Range(idle'[w]) \cap used'[w] = {}
      BY <1>0, <1>2, <1>6 DEF PoolInv
    <2> QED BY <1>3, <1>6, <1>7, <2>1 DEF PoolInv
  <1>9. HoldInv'
    <2>1. \A p \in Queries : p # q /\ pc[p] \in Inside => held[p] # c
      BY <1>1 DEF HoldInv
    <2>2. ASSUME NEW p \in Queries, pc'[p] \in Inside PROVE held'[p] \in used'[WorkerOf[p]]
      <3>1. p # q /\ pc[p] \in Inside /\ held'[p] = held[p]
        BY <2>2, <1>4, <1>5
      <3>2. held[p] \in used[WorkerOf[p]] /\ held[p] # c
        BY <3>1, <2>1 DEF HoldInv
      <3> QED BY <3>1, <3>2, <1>0, <1>2
    <2>3. \A p, r \in Queries :
             pc'[p] \in Inside /\ pc'[r] \in Inside /\ held'[p] = held'[r] => p = r
      BY <1>4, <1>5 DEF HoldInv
    <2>4. ASSUME NEW w \in Workers, NEW d \in used'[w]
          PROVE  \E p \in Queries : WorkerOf[p] = w /\ pc'[p] \in Inside /\ held'[p] = d
      <3>1. d \in used[w] /\ (w = own => d # c)
        BY <2>4, <1>2
      <3>2. PICK p \in Queries : WorkerOf[p] = w /\ pc[p] \in Inside /\ held[p] = d
        BY <3>1 DEF HoldInv
      <3>3. p # q
        BY <3>1, <3>2
      <3> QED BY <3>2, <3>3, <1>4, <1>5
    <2> QED BY <2>2, <2>3, <2>4 DEF HoldInv
  <1> QED BY <1>8, <1>9

\* The pool's first connections are new ones.
LEMMA CreateStep ==
  ASSUME TypeOK, PoolInv, HoldInv, NEW q \in Queries, CreateClient(q)
  PROVE  PoolInv' /\ HoldInv'
  <1> DEFINE own == WorkerOf[q]
  <1>0. own \in Workers
    BY QueryAssumption
  <1>1. PICK first \in [1 .. POOL_MIN -> NewConns] :
            /\ IsInjective(first)
            /\ idle' = [idle EXCEPT ![own] = first]
            /\ link' = [c \in Conns |-> IF c \in Range(first) THEN "live" ELSE link[c]]
    BY DEF CreateClient
  <1>2. Range(first) \subseteq NewConns
    BY DEF Range
  <1>3. \A w \in Workers : Pooled(w) \cap NewConns = {}
    BY DEF PoolInv, NewConns
  <1>4. \A w \in Workers : idle'[w] = IF w = own THEN first ELSE idle[w]
    BY <1>1 DEF TypeOK
  <1>5. UNCHANGED <<used, held>> /\ \A p \in Queries : pc'[p] \in Inside <=> pc[p] \in Inside
    BY DEF CreateClient, Goto, Inside, TypeOK
  <1>6. /\ Pooled(own)' = Range(first) \cup used[own]
        /\ \A w \in Workers : w # own => Pooled(w)' = Pooled(w)
    BY <1>0, <1>4, <1>5 DEF Pooled
  <1>7. \A c \in Conns : c \in Range(first) \/ link[c] # "new" => link'[c] # "new"
    BY <1>1
  <1>8. \A w \in Workers : Pooled(w) \subseteq Conns
    BY RangeOfSeq DEF TypeOK, Pooled
  <1>9. PoolInv'
    <2>1. \A w \in Workers : IsInjective(idle'[w])
      BY <1>1, <1>4 DEF PoolInv
    <2>2. \A w \in Workers : Range(idle'[w]) \cap used'[w] = {}
      BY <1>2, <1>3, <1>4, <1>5 DEF PoolInv, Pooled
    <2>3. ASSUME NEW v \in Workers, NEW w \in Workers, v # w
          PROVE  Pooled(v)' \cap Pooled(w)' = {}
      <3>1. used[own] \subseteq Pooled(own)
        BY DEF Pooled
      <3> QED BY <2>3, <3>1, <1>0, <1>2, <1>3, <1>6 DEF PoolInv
    <2>4. ASSUME NEW w \in Workers, NEW c \in Pooled(w)' PROVE link'[c] # "new"
      <3>1. c \in Range(first) \/ c \in Pooled(w)
        BY <2>4, <1>6 DEF Pooled
      <3>2. c \in Conns /\ (c \in Range(first) \/ link[c] # "new")
        BY <3>1, <1>2, <1>8 DEF PoolInv, NewConns
      <3> QED BY <3>2, <1>7
    <2> QED BY <2>1, <2>2, <2>3, <2>4 DEF PoolInv
  <1>10. HoldInv'
    BY <1>5 DEF HoldInv
  <1> QED BY <1>9, <1>10

\* Every step keeps a connection in one place, with one user.
LEMMA NextPool == TypeOK /\ HeldOK /\ PoolInv /\ HoldInv /\ [Next]_vars => (PoolInv /\ HoldInv)'
  <1> SUFFICES ASSUME TypeOK, HeldOK, PoolInv, HoldInv, [Next]_vars PROVE PoolInv' /\ HoldInv'
    OBVIOUS
  <1> USE DEF Goto, Inside, pool, changes, answers
  <1>1. ASSUME NEW q \in Queries, Step(q) PROVE PoolInv' /\ HoldInv'
    <2> DEFINE w == WorkerOf[q]
    <2>0. w \in Workers
      BY QueryAssumption
    <2>1. CASE UseClient(q)
      BY <2>1, QuietStep DEF UseClient, TypeOK
    <2>2. CASE CreateClient(q)
      BY <2>2, CreateStep
    <2>3. CASE CreateClientFails(q)
      BY <2>3, QuietStep DEF CreateClientFails, Answer, Escape, TypeOK
    <2>4. CASE GetConn(q) /\ idle[w] # <<>>
      <3> DEFINE rest == SubSeq(idle[w], 1, Len(idle[w]) - 1)
                 last == idle[w][Len(idle[w])]
      <3>1. /\ idle' = [idle EXCEPT ![w] = rest]
            /\ used' = [used EXCEPT ![w] = used[w] \cup {last}]
            /\ held' = [held EXCEPT ![q] = last]
            /\ pc[q] = "getconn" /\ pc' = [pc EXCEPT ![q] = "execute"]
            /\ UNCHANGED link
        BY <2>4 DEF GetConn
      <3>2. /\ idle[w] \in Seq(Conns) /\ last \in Conns
            /\ Range(idle[w]) = Range(rest) \cup {last}
            /\ IsInjective(rest) /\ last \notin Range(rest)
        BY <2>0, <2>4, TakeFromPool DEF TypeOK, PoolInv
      <3>3. last \in Pooled(w) /\ last \notin used[w]
        BY <2>0, <3>2 DEF PoolInv, Pooled
      <3> HIDE DEF rest, last
      <3>4. \A v \in Workers : v # w => last \notin Pooled(v)
        BY <2>0, <3>3 DEF PoolInv
      <3>5. \A v \in Workers : last \notin used[v] /\ (v # w => last \notin Range(idle[v]))
        BY <3>3, <3>4 DEF Pooled
      <3>6. \A v \in Workers : IsInjective(idle'[v]) /\ Range(idle'[v]) \subseteq Range(idle[v]) \ {last}
        BY <2>0, <3>1, <3>2, <3>5 DEF PoolInv, TypeOK
      <3>7. link'[last] # "new"
        BY <2>0, <3>1, <3>3 DEF PoolInv
      <3>8. ~(pc[q] \in Inside)
        BY <3>1
      <3> HIDE DEF Inside
      <3> QED BY <3>1, <3>2, <3>5, <3>6, <3>7, <3>8, TakeStep
    <2>5. CASE GetConn(q) /\ idle[w] = <<>>
      <3>1. PICK c \in NewConns :
                /\ link' = [link EXCEPT ![c] = "live"]
                /\ used' = [used EXCEPT ![w] = used[w] \cup {c}]
                /\ held' = [held EXCEPT ![q] = c]
        BY <2>5 DEF GetConn
      <3>2. /\ pc[q] = "getconn" /\ pc' = [pc EXCEPT ![q] = "execute"]
            /\ UNCHANGED idle
        BY <2>5 DEF GetConn
      <3>3. c \in Conns /\ \A v \in Workers : c \notin Pooled(v)
        BY DEF PoolInv, NewConns
      <3>4. \A v \in Workers : c \notin used[v] /\ c \notin Range(idle[v])
        BY <3>3 DEF Pooled
      <3>5. \A v \in Workers : IsInjective(idle'[v]) /\ Range(idle'[v]) \subseteq Range(idle[v]) \ {c}
        BY <3>2, <3>4 DEF PoolInv
      <3>6. link'[c] # "new" /\ \A d \in Conns : link[d] # "new" => link'[d] # "new"
        BY <3>1, <3>3 DEF TypeOK
      <3>7. ~(pc[q] \in Inside)
        BY <3>2
      <3> HIDE DEF Inside
      <3> QED BY <3>1, <3>2, <3>3, <3>4, <3>5, <3>6, <3>7, TakeStep
    <2>6. CASE GetConnFails(q)
      BY <2>6, QuietStep DEF GetConnFails, Answer, TypeOK
    <2>7. CASE Execute(q)
      BY <2>7, QuietStep DEF Execute, TypeOK
    <2>8. CASE Commit(q)
      BY <2>8, QuietStep DEF Commit, TypeOK
    <2>9. CASE Rollback(q)
      BY <2>9, QuietStep DEF Rollback, TypeOK
    <2>10. CASE PutConn(q)
      BY <2>10, PutStep
    <2>11. CASE Respond(q)
      BY <2>11, QuietStep DEF Respond, Answer, Escape, TypeOK
    <2> QED BY <1>1, <2>1, <2>2, <2>3, <2>4, <2>5, <2>6, <2>7, <2>8, <2>9, <2>10, <2>11 DEF Step
  <1>2. ASSUME NEW c \in Conns, ConnBreaks(c) PROVE PoolInv' /\ HoldInv'
    BY <1>2, QuietStep DEF ConnBreaks, threads, TypeOK
  <1>3. CASE UNCHANGED vars
    BY <1>3, QuietStep DEF vars, threads
  <1> QED BY <1>1, <1>2, <1>3 DEF Next, Terminated

\* Exactly the queries inside `with self._connection()` hold a connection, each its own,
\* and what is handed out is not free at the same time: no failure leaks one.
THEOREM NoConnectionLeaks == Spec => []UsedIsHeld
  <1>1. TypeOK /\ PoolInv /\ HoldInv => UsedIsHeld
    <2> SUFFICES ASSUME TypeOK, PoolInv, HoldInv PROVE UsedIsHeld
      OBVIOUS
    <2>1. ASSUME NEW w \in Workers
          PROVE  used[w] = {held[q] : q \in {p \in Queries : WorkerOf[p] = w /\ pc[p] \in Inside}}
      BY DEF HoldInv
    <2> QED BY <2>1 DEF UsedIsHeld, HoldInv, PoolInv
  <1> QED BY InitTypeOK, NextTypeOK, InitPool, NextPool, <1>1, PTL DEF Spec

-----------------------------------------------------------------------------
(* How many connections there are.                                         *)

\* The pool's limit for one process, and what it rests on: without a client there is no
\* connection, and no query gets to the pool.
ProcessLimit(w) ==
    /\ ~client[w] => idle[w] = <<>> /\ used[w] = {}
    /\ IsFiniteSet(used[w])
    /\ Len(idle[w]) + Cardinality(used[w]) <= POOL_MAX

LimitInv ==
    /\ \A w \in Workers : ProcessLimit(w)
    /\ \A q \in Queries : pc[q] \in Inside \cup {"getconn"} => client[WorkerOf[q]]
    /\ \A c \in Conns : link[c] \in {"live", "broken"} => \E w \in Workers : c \in Pooled(w)

\* At the start there are no clients and no connections.
LEMMA InitLimit == Init => LimitInv
  <1> SUFFICES ASSUME Init PROVE LimitInv
    OBVIOUS
  <1>1. ASSUME NEW w \in Workers PROVE ProcessLimit(w)
    <2>1. idle[w] = <<>> /\ used[w] = {}
      BY DEF Init
    <2>2. Len(idle[w]) = 0 /\ Cardinality(used[w]) = 0 /\ IsFiniteSet(used[w])
      BY <2>1, FS_EmptySet
    <2> QED BY <2>1, <2>2, PoolAssumption DEF ProcessLimit
  <1> QED BY <1>1 DEF LimitInv, Init, Inside

\* A step that moves no connection and opens none keeps the limits.
LEMMA QuietLimit ==
  ASSUME LimitInv, UNCHANGED <<client, idle, used>>,
         \A q \in Queries : pc'[q] \in Inside \cup {"getconn"} =>
                               client[WorkerOf[q]] \/ pc[q] \in Inside \cup {"getconn"},
         \A c \in Conns : link'[c] \in {"live", "broken"} => link[c] \in {"live", "broken"}
  PROVE  LimitInv'
  BY DEF LimitInv, ProcessLimit, Pooled

\* Every step keeps the pools within their limits: taking one frees room among the idle
\* ones or is checked against POOL_MAX, and returning one takes no more than it gives.
LEMMA NextLimit ==
  TypeOK /\ HeldOK /\ PoolInv /\ HoldInv /\ LimitInv /\ [Next]_vars => LimitInv'
  <1> SUFFICES ASSUME TypeOK, HeldOK, PoolInv, HoldInv, LimitInv, [Next]_vars PROVE LimitInv'
    OBVIOUS
  <1> USE DEF Goto, pool, changes, answers
  <1>1. ASSUME NEW q \in Queries, Step(q) PROVE LimitInv'
    <2> DEFINE w == WorkerOf[q]
    <2>0. w \in Workers
      BY QueryAssumption
    <2>1. CASE UseClient(q)
      BY <2>1, QuietLimit DEF UseClient, TypeOK
    <2>2. CASE CreateClient(q)
      <3>1. PICK first \in [1 .. POOL_MIN -> NewConns] :
                /\ IsInjective(first)
                /\ idle' = [idle EXCEPT ![w] = first]
                /\ link' = [c \in Conns |-> IF c \in Range(first) THEN "live" ELSE link[c]]
        BY <2>2 DEF CreateClient
      <3>2. /\ ~client[w] /\ client' = [client EXCEPT ![w] = TRUE]
            /\ pc' = [pc EXCEPT ![q] = "getconn"] /\ UNCHANGED used
        BY <2>2 DEF CreateClient
      <3>3. Len(first) = POOL_MIN
        BY PoolAssumption
      <3>4. used[w] = {} /\ idle[w] = <<>> /\ Cardinality(used[w]) = 0 /\ IsFiniteSet(used[w])
        BY <2>0, <3>2, FS_EmptySet DEF LimitInv, ProcessLimit
      <3>5. ProcessLimit(w)'
        BY <2>0, <3>1, <3>2, <3>3, <3>4, PoolAssumption DEF ProcessLimit, TypeOK
      <3>6. ASSUME NEW v \in Workers, v # w PROVE ProcessLimit(v)'
        BY <3>1, <3>2, <3>6 DEF LimitInv, ProcessLimit, TypeOK
      <3>7. ASSUME NEW p \in Queries, pc'[p] \in Inside \cup {"getconn"} PROVE client'[WorkerOf[p]]
        BY <2>0, <3>2, <3>7, QueryAssumption DEF LimitInv, TypeOK
      <3>8. ASSUME NEW c \in Conns, link'[c] \in {"live", "broken"}
            PROVE  \E v \in Workers : c \in Pooled(v)'
        <4>1. CASE c \in Range(first)
          BY <4>1, <2>0, <3>1 DEF Pooled, TypeOK
        <4>2. CASE c \notin Range(first)
          <5>1. PICK v \in Workers : c \in Pooled(v)
            BY <3>1, <3>8, <4>2 DEF LimitInv
          <5>2. v # w
            BY <5>1, <3>4 DEF Pooled, Range
          <5> QED BY <5>1, <5>2, <3>1, <3>2 DEF Pooled, TypeOK
        <4> QED BY <4>1, <4>2
      <3> QED BY <3>5, <3>6, <3>7, <3>8 DEF LimitInv
    <2>3. CASE CreateClientFails(q)
      BY <2>3, QuietLimit DEF CreateClientFails, Answer, Escape, TypeOK, Inside
    <2>4. CASE GetConn(q) /\ idle[w] # <<>>
      <3> DEFINE rest == SubSeq(idle[w], 1, Len(idle[w]) - 1)
                 last == idle[w][Len(idle[w])]
      <3>1. /\ idle' = [idle EXCEPT ![w] = rest]
            /\ used' = [used EXCEPT ![w] = used[w] \cup {last}]
            /\ pc[q] = "getconn" /\ pc' = [pc EXCEPT ![q] = "execute"]
            /\ UNCHANGED <<client, link>>
        BY <2>4 DEF GetConn
      <3>2. /\ Len(rest) = Len(idle[w]) - 1 /\ Len(idle[w]) \in Nat
            /\ Range(idle[w]) = Range(rest) \cup {last}
        BY <2>0, <2>4, TakeFromPool DEF TypeOK
      <3>3. last \notin used[w]
        BY <2>0, <3>2 DEF PoolInv
      <3> HIDE DEF rest, last
      <3>4. /\ IsFiniteSet(used[w] \cup {last})
            /\ Cardinality(used[w] \cup {last}) = Cardinality(used[w]) + 1
            /\ Cardinality(used[w]) \in Nat
        BY <2>0, <3>3, FS_AddElement, FS_CardinalityType DEF LimitInv, ProcessLimit
      <3>5. client[w]
        BY <3>1 DEF LimitInv
      <3>6. ProcessLimit(w)'
        <4>1. idle'[w] = rest /\ used'[w] = used[w] \cup {last} /\ client'[w]
          BY <2>0, <3>1, <3>5 DEF TypeOK
        <4>2. Len(idle[w]) + Cardinality(used[w]) <= POOL_MAX
          BY <2>0 DEF LimitInv, ProcessLimit
        <4>3. Len(rest) + Cardinality(used[w] \cup {last}) <= POOL_MAX
          BY <4>2, <3>2, <3>4
        <4> QED BY <4>1, <4>3, <3>4 DEF ProcessLimit
      <3>7. ASSUME NEW v \in Workers, v # w PROVE ProcessLimit(v)'
        BY <3>1, <3>7 DEF LimitInv, ProcessLimit, TypeOK
      <3>8. \A v \in Workers : Pooled(v)' = Pooled(v)
        BY <2>0, <3>1, <3>2 DEF Pooled, TypeOK
      <3>9. \A p \in Queries : pc'[p] \in Inside \cup {"getconn"} => client'[WorkerOf[p]]
        BY <3>1, <3>5 DEF LimitInv, TypeOK
      <3> QED BY <3>1, <3>6, <3>7, <3>8, <3>9 DEF LimitInv
    <2>5. CASE GetConn(q) /\ idle[w] = <<>>
      <3>1. PICK c \in NewConns :
                /\ link' = [link EXCEPT ![c] = "live"]
                /\ used' = [used EXCEPT ![w] = used[w] \cup {c}]
        BY <2>5 DEF GetConn
      <3>2. /\ pc[q] = "getconn" /\ pc' = [pc EXCEPT ![q] = "execute"]
            /\ UNCHANGED <<client, idle>> /\ Cardinality(used[w]) # POOL_MAX
        BY <2>5 DEF GetConn, HasRoom
      <3>3. c \in Conns /\ c \notin used[w]
        BY <2>0 DEF NewConns, PoolInv, Pooled
      <3>4. /\ IsFiniteSet(used[w] \cup {c})
            /\ Cardinality(used[w] \cup {c}) = Cardinality(used[w]) + 1
            /\ Cardinality(used[w]) \in Nat
        BY <2>0, <3>3, FS_AddElement, FS_CardinalityType DEF LimitInv, ProcessLimit
      <3>5. client[w] /\ Len(idle[w]) = 0
        BY <2>5, <3>2 DEF LimitInv
      <3>6. ProcessLimit(w)'
        <4>1. idle'[w] = idle[w] /\ used'[w] = used[w] \cup {c} /\ client'[w]
          BY <2>0, <3>1, <3>2, <3>5 DEF TypeOK
        <4>2. Len(idle[w]) + Cardinality(used[w]) <= POOL_MAX
          BY <2>0 DEF LimitInv, ProcessLimit
        <4>3. Len(idle[w]) + Cardinality(used[w] \cup {c}) <= POOL_MAX
          BY <4>2, <3>2, <3>4, <3>5, PoolAssumption
        <4> QED BY <4>1, <4>3, <3>4 DEF ProcessLimit
      <3>7. ASSUME NEW v \in Workers, v # w PROVE ProcessLimit(v)'
        BY <3>1, <3>2, <3>7 DEF LimitInv, ProcessLimit, TypeOK
      <3>8. /\ \A v \in Workers : Pooled(v) \subseteq Pooled(v)'
            /\ c \in Pooled(w)'
        BY <2>0, <3>1, <3>2 DEF Pooled, TypeOK
      <3>9. \A d \in Conns : link'[d] \in {"live", "broken"} => \E v \in Workers : d \in Pooled(v)'
        BY <2>0, <3>1, <3>3, <3>8 DEF LimitInv, TypeOK
      <3>10. \A p \in Queries : pc'[p] \in Inside \cup {"getconn"} => client'[WorkerOf[p]]
        BY <3>2, <3>5 DEF LimitInv, TypeOK
      <3> QED BY <3>6, <3>7, <3>9, <3>10 DEF LimitInv
    <2>6. CASE GetConnFails(q)
      BY <2>6, QuietLimit DEF GetConnFails, Answer, TypeOK, Inside
    <2>7. CASE Execute(q)
      BY <2>7, QuietLimit DEF Execute, TypeOK, Inside
    <2>8. CASE Commit(q)
      BY <2>8, QuietLimit DEF Commit, TypeOK, Inside
    <2>9. CASE Rollback(q)
      BY <2>9, QuietLimit DEF Rollback, TypeOK, Inside
    <2>10. CASE PutConn(q)
      <3> DEFINE c == held[q]
      <3>1. pc[q] \in Inside /\ c \in used[w] /\ c \in Conns /\ client[w]
        BY <2>10 DEF PutConn, HoldInv, HeldOK, Inside, LimitInv
      <3>2. /\ used' = [used EXCEPT ![w] = used[w] \ {c}]
            /\ pc' = [pc EXCEPT ![q] = "answer"] /\ UNCHANGED client
        BY <2>10 DEF PutConn
      <3>3. /\ IsFiniteSet(used[w] \ {c})
            /\ Cardinality(used[w] \ {c}) = Cardinality(used[w]) - 1
            /\ Cardinality(used[w]) \in Nat
        BY <2>0, <3>1, FS_RemoveElement, FS_CardinalityType DEF LimitInv, ProcessLimit
      <3>4. idle[w] \in Seq(Conns) /\ Len(idle[w]) \in Nat
        BY <2>0 DEF TypeOK
      <3>5. /\ Len(Append(idle[w], c)) = Len(idle[w]) + 1
            /\ Range(Append(idle[w], c)) = Range(idle[w]) \cup {c}
        BY <3>1, <3>4, AppendToPool
      <3>6. \/ idle' = [idle EXCEPT ![w] = Append(idle[w], c)] /\ UNCHANGED link
            \/ link' = [link EXCEPT ![c] = "closed"] /\ UNCHANGED idle
        BY <2>10 DEF PutConn
      <3> HIDE DEF c
      <3>7. ProcessLimit(w)'
        <4>1. /\ idle'[w] \in {idle[w], Append(idle[w], c)}
              /\ used'[w] = used[w] \ {c} /\ client'[w]
          BY <2>0, <3>1, <3>2, <3>6 DEF TypeOK
        <4>2. Len(idle[w]) + Cardinality(used[w]) <= POOL_MAX
          BY <2>0 DEF LimitInv, ProcessLimit
        <4>3. Len(idle'[w]) \in {Len(idle[w]), Len(idle[w]) + 1}
          BY <4>1, <3>5
        <4>4. Len(idle'[w]) + Cardinality(used[w] \ {c}) <= POOL_MAX
          <5>1. POOL_MAX \in Nat
            BY PoolAssumption
          <5> HIDE DEF c
          <5> QED BY <4>2, <4>3, <3>3, <3>4, <5>1
        <4> QED BY <4>1, <4>4, <3>3 DEF ProcessLimit
      <3>8. ASSUME NEW v \in Workers, v # w PROVE ProcessLimit(v)'
        BY <3>2, <3>6, <3>8 DEF LimitInv, ProcessLimit, TypeOK
      <3>9. ASSUME NEW d \in Conns, link'[d] \in {"live", "broken"}
            PROVE  \E v \in Workers : d \in Pooled(v)'
        <4>1. link[d] \in {"live", "broken"} /\ (d = c => UNCHANGED link)
          BY <3>1, <3>6, <3>9 DEF TypeOK
        <4>2. PICK v \in Workers : d \in Pooled(v)
          BY <4>1 DEF LimitInv
        <4>3. CASE d = c
          <5>1. d \in Range(idle'[w])
            BY <4>1, <4>3, <2>0, <3>1, <3>5, <3>6, <3>9 DEF TypeOK
          <5> QED BY <5>1, <2>0 DEF Pooled
        <4>4. CASE d # c
          <5>1. d \in Range(idle[v]) => d \in Range(idle'[v])
            BY <3>5, <3>6, <2>0 DEF TypeOK
          <5>2. d \in used[v] => d \in used'[v]
            BY <3>2, <4>4 DEF TypeOK
          <5> QED BY <5>1, <5>2, <4>2 DEF Pooled
        <4> QED BY <4>3, <4>4
      <3>10. \A p \in Queries : pc'[p] \in Inside \cup {"getconn"} => client'[WorkerOf[p]]
        BY <3>1, <3>2 DEF LimitInv, TypeOK
      <3> QED BY <3>7, <3>8, <3>9, <3>10 DEF LimitInv
    <2>11. CASE Respond(q)
      BY <2>11, QuietLimit DEF Respond, Answer, Escape, TypeOK, Inside
    <2> QED BY <1>1, <2>1, <2>2, <2>3, <2>4, <2>5, <2>6, <2>7, <2>8, <2>9, <2>10, <2>11 DEF Step
  <1>2. ASSUME NEW c \in Conns, ConnBreaks(c) PROVE LimitInv'
    BY <1>2, QuietLimit DEF ConnBreaks, threads, TypeOK
  <1>3. CASE UNCHANGED vars
    BY <1>3, QuietLimit DEF vars, threads
  <1> QED BY <1>1, <1>2, <1>3 DEF Next, Terminated

\* No pool exceeds its limit, and none loses a connection that is still open.
THEOREM PoolLimited == Spec => []PoolWithinLimit
  <1>1. LimitInv => PoolWithinLimit
    BY DEF LimitInv, ProcessLimit, PoolWithinLimit, Pooled
  <1> QED BY InitTypeOK, NextTypeOK, InitPool, NextPool, InitLimit, NextLimit, <1>1, PTL DEF Spec

-----------------------------------------------------------------------------
(* Transactions.                                                           *)

\* Where a thread is once its `with self._connection()` has an outcome.
After == {"putconn", "answer", "done"}

\* Only the query that holds a connection has work in it, from its statement until commit
\* or rollback.  An outcome is set at the end; "rows" only with the work committed.  Work
\* may be committed without it, by a commit whose answer was lost: that ends in a rollback
\* on a connection that is closed, and so in no RedshiftError.
WorkInv ==
    /\ \A c \in Conns : \A p \in open[c] : pc[p] \in {"commit", "rollback"} /\ held[p] = c
    /\ \A p \in Queries : pc[p] = "commit" => p \in open[held[p]]
    /\ \A p \in Queries : outcome[p] # "none" => pc[p] \in After
    /\ \A p \in Queries : outcome[p] = "rows" => p \in committed
    /\ \A p \in committed : \/ outcome[p] \in {"rows", "raw_error"}
                            \/ pc[p] = "rollback" /\ link[held[p]] = "closed"
    /\ \A c \in Conns : \A p \in session[c] : outcome[p] = "rows"

\* At the start nothing is open, committed or in force.
LEMMA InitWork == Init => WorkInv
  BY DEF Init, WorkInv

\* A step outside a transaction.
LEMMA QuietWork ==
  ASSUME TypeOK, HeldOK, WorkInv, UNCHANGED <<open, session, outcome, committed>>,
         \A p \in Queries : pc[p] \in {"commit", "rollback"} => pc'[p] = pc[p] /\ held'[p] = held[p],
         \A p \in Queries : pc'[p] = "commit" => pc[p] = "commit",
         \A p \in Queries : pc[p] \in After => pc'[p] \in After,
         \A c \in Conns : link[c] = "closed" => link'[c] = "closed"
  PROVE  WorkInv'
  <1>1. \A p \in Queries : pc[p] = "rollback" => held[p] \in Conns
    BY DEF HeldOK, Inside
  <1>2. \A c \in Conns : \A p \in open[c] : p \in Queries
    BY DEF TypeOK
  <1>3. \A p \in committed : p \in Queries
    BY DEF TypeOK
  <1> QED BY <1>1, <1>2, <1>3 DEF WorkInv

\* A query that runs alone uses its connection: nobody else's work is in it.
LEMMA OwnWork ==
  ASSUME TypeOK, HeldOK, HoldInv, WorkInv, NEW q \in Queries, pc[q] \in Inside
  PROVE  /\ held[q] \in Conns /\ open[held[q]] \subseteq {q}
         /\ \A p \in Queries : p # q /\ pc[p] \in Inside => held[p] # held[q]
  <1>1. held[q] \in Conns /\ \A p \in Queries : p # q /\ pc[p] \in Inside => held[p] # held[q]
    BY DEF HeldOK, HoldInv
  <1>2. ASSUME NEW p \in open[held[q]] PROVE p = q
    <2>1. p \in Queries /\ pc[p] \in Inside /\ held[p] = held[q]
      BY <1>1, <1>2 DEF WorkInv, TypeOK, Inside
    <2> QED BY <2>1, <1>1
  <1> QED BY <1>1, <1>2

\* A statement leaves work in the connection of its own query only, or none.
LEMMA ExecuteWork ==
  ASSUME TypeOK, HeldOK, HoldInv, WorkInv, NEW q \in Queries, Execute(q)
  PROVE  WorkInv'
  <1> DEFINE c == held[q]
  <1>1. /\ c \in Conns /\ open[c] \subseteq {q} /\ pc[q] = "execute"
        /\ \A p \in Queries : p # q /\ pc[p] \in Inside => held[p] # c
    BY OwnWork DEF Execute, Inside
  <1>2. /\ UNCHANGED <<session, held, outcome, committed>>
        /\ pc' \in {[pc EXCEPT ![q] = "commit"], [pc EXCEPT ![q] = "rollback"]}
    BY DEF Execute, Goto, answers
  <1>3. \A p \in Queries : p # q => pc'[p] = pc[p]
    BY <1>2 DEF TypeOK
  <1>4. \A d \in Conns : d # c => open'[d] = open[d] /\ link'[d] = link[d]
    BY <1>1 DEF Execute, TypeOK
  <1>5. \/ open'[c] = open[c] \cup {q} /\ pc'[q] \in {"commit", "rollback"} /\ UNCHANGED link
        \/ open'[c] = {} /\ pc'[q] = "rollback" /\ link'[c] = "closed"
    BY <1>1 DEF Execute, Goto, TypeOK
  <1>6. \A d \in Conns : \A p \in open[d] : p \in Queries /\ pc[p] \in {"commit", "rollback"} /\ held[p] = d
    BY DEF WorkInv, TypeOK
  <1>7. \A d \in Conns : \A p \in open'[d] : pc'[p] \in {"commit", "rollback"} /\ held'[p] = d
    BY <1>1, <1>2, <1>3, <1>4, <1>5, <1>6
  <1>8. ASSUME NEW p \in Queries, pc'[p] = "commit" PROVE p \in open'[held'[p]]
    <2>1. CASE p = q
      BY <2>1, <1>2, <1>5, <1>8
    <2>2. CASE p # q
      <3>1. pc[p] = "commit" /\ held[p] \in Conns /\ held[p] # c
        BY <2>2, <1>1, <1>3, <1>8 DEF HeldOK, Inside
      <3> QED BY <3>1, <1>2, <1>4 DEF WorkInv
    <2> QED BY <2>1, <2>2
  <1>9. \A p \in Queries : outcome'[p] # "none" => pc'[p] \in After
    BY <1>1, <1>2, <1>3 DEF WorkInv, After
  <1>10. ASSUME NEW p \in committed'
         PROVE  \/ outcome'[p] \in {"rows", "raw_error"}
                \/ pc'[p] = "rollback" /\ link'[held'[p]] = "closed"
    <2>1. p \in committed /\ p \in Queries
      BY <1>2, <1>10 DEF TypeOK
    <2>2. CASE outcome[p] \in {"rows", "raw_error"}
      BY <2>2, <1>2
    <2>3. CASE pc[p] = "rollback" /\ link[held[p]] = "closed"
      <3>1. p # q /\ held[p] \in Conns /\ held[p] # c
        BY <2>1, <2>3, <1>1 DEF HeldOK, Inside
      <3> QED BY <3>1, <2>1, <2>3, <1>2, <1>3, <1>4
    <2> QED BY <2>1, <2>2, <2>3 DEF WorkInv
  <1> QED BY <1>2, <1>7, <1>8, <1>9, <1>10 DEF WorkInv

\* A commit makes durable the work of its own query only, also when its answer is lost.
LEMMA CommitWork ==
  ASSUME TypeOK, HeldOK, HoldInv, WorkInv, NEW q \in Queries, Commit(q)
  PROVE  WorkInv'
  <1> DEFINE c == held[q]
  <1>1. /\ c \in Conns /\ open[c] = {q} /\ pc[q] = "commit" /\ outcome[q] = "none"
        /\ \A p \in Queries : p # q /\ pc[p] \in Inside => held[p] # c
    <2>1. pc[q] = "commit" /\ pc[q] \in Inside
      BY DEF Commit, Inside
    <2>2. q \in open[c] /\ outcome[q] = "none"
      BY <2>1 DEF WorkInv, After
    <2> QED BY <2>1, <2>2, OwnWork
  <1>2. UNCHANGED held /\ \A p \in Queries : p # q => pc'[p] = pc[p] /\ outcome'[p] = outcome[p]
    BY DEF Commit, Goto, changes, TypeOK
  <1>3. \A d \in Conns : d # c => open'[d] = open[d] /\ link'[d] = link[d] /\ session'[d] = session[d]
    BY <1>1 DEF Commit, changes, TypeOK
  <1>4. \/ /\ committed' = committed \cup {q} /\ session'[c] = session[c] \cup {q}
           /\ open'[c] = {} /\ outcome'[q] = "rows" /\ pc'[q] = "putconn"
        \/ /\ committed' = committed /\ session'[c] = session[c] /\ open'[c] = {q}
           /\ outcome'[q] = "none" /\ pc'[q] = "rollback" /\ UNCHANGED link
        \/ /\ committed' \in {committed, committed \cup {q}} /\ session'[c] = session[c]
           /\ open'[c] = {} /\ outcome'[q] = "none" /\ pc'[q] = "rollback" /\ link'[c] = "closed"
    BY <1>1 DEF Commit, Goto, changes, TypeOK
  <1>5. \A d \in Conns : \A p \in open[d] : p \in Queries /\ pc[p] \in {"commit", "rollback"} /\ held[p] = d
    BY DEF WorkInv, TypeOK
  <1>6. \A d \in Conns : \A p \in open'[d] : pc'[p] \in {"commit", "rollback"} /\ held'[p] = d
    BY <1>1, <1>2, <1>3, <1>4, <1>5
  <1>7. ASSUME NEW p \in Queries, pc'[p] = "commit" PROVE p \in open'[held'[p]]
    <2>1. p # q
      BY <1>4, <1>7
    <2>2. pc[p] = "commit" /\ held[p] \in Conns /\ held[p] # c
      BY <2>1, <1>1, <1>2, <1>7 DEF HeldOK, Inside
    <2> QED BY <2>2, <1>2, <1>3 DEF WorkInv
  <1>8. \A p \in Queries : outcome'[p] # "none" => pc'[p] \in After
    BY <1>2, <1>4 DEF WorkInv, After
  <1>9. \A p \in Queries : outcome'[p] = "rows" => p \in committed'
    BY <1>2, <1>4 DEF WorkInv
  <1>10. ASSUME NEW p \in committed'
         PROVE  \/ outcome'[p] \in {"rows", "raw_error"}
                \/ pc'[p] = "rollback" /\ link'[held'[p]] = "closed"
    <2>1. CASE p \in committed
      <3>1. p \in Queries /\ p # q
        BY <2>1, <1>1 DEF WorkInv, TypeOK
      <3>2. CASE outcome[p] \in {"rows", "raw_error"}
        BY <3>1, <3>2, <1>2
      <3>3. CASE pc[p] = "rollback" /\ link[held[p]] = "closed"
        <4>1. held[p] \in Conns /\ held[p] # c
          BY <3>1, <3>3, <1>1 DEF HeldOK, Inside
        <4> QED BY <4>1, <3>1, <3>3, <1>2, <1>3
      <3> QED BY <2>1, <3>2, <3>3 DEF WorkInv
    <2>2. CASE p \notin committed
      BY <2>2, <1>2, <1>4, <1>10
    <2> QED BY <2>1, <2>2
  <1>11. \A d \in Conns : \A p \in session'[d] : outcome'[p] = "rows"
    <2>1. \A d \in Conns : \A p \in session[d] : p \in Queries /\ p # q /\ outcome[p] = "rows"
      BY <1>1 DEF WorkInv, TypeOK
    <2> QED BY <2>1, <1>2, <1>3, <1>4
  <1> QED BY <1>6, <1>7, <1>8, <1>9, <1>10, <1>11 DEF WorkInv

\* A rollback ends the transaction, and finds committed work only on a closed connection.
LEMMA RollbackWork ==
  ASSUME TypeOK, HeldOK, HoldInv, WorkInv, NEW q \in Queries, Rollback(q)
  PROVE  WorkInv'
  <1> DEFINE c == held[q]
  <1>1. /\ c \in Conns /\ open[c] \subseteq {q} /\ pc[q] = "rollback" /\ outcome[q] = "none"
        /\ \A p \in Queries : p # q /\ pc[p] \in Inside => held[p] # c
    <2>1. pc[q] = "rollback" /\ pc[q] \in Inside
      BY DEF Rollback, Inside
    <2>2. outcome[q] = "none"
      BY <2>1 DEF WorkInv, After
    <2> QED BY <2>1, <2>2, OwnWork
  <1>2. /\ UNCHANGED <<session, held, committed>> /\ pc'[q] = "putconn"
        /\ \A p \in Queries : p # q => pc'[p] = pc[p] /\ outcome'[p] = outcome[p]
    BY DEF Rollback, Goto, TypeOK
  <1>3. open'[c] = {} /\ \A d \in Conns : d # c => open'[d] = open[d] /\ link'[d] = link[d]
    BY <1>1 DEF Rollback, TypeOK
  <1>4. (outcome'[q] = "query_error" /\ link[c] = "live") \/ outcome'[q] = "raw_error"
    BY DEF Rollback, TypeOK
  <1>5. \A d \in Conns : \A p \in open[d] : p \in Queries /\ pc[p] \in {"commit", "rollback"} /\ held[p] = d
    BY DEF WorkInv, TypeOK
  <1>6. \A d \in Conns : \A p \in open'[d] : pc'[p] \in {"commit", "rollback"} /\ held'[p] = d
    BY <1>1, <1>2, <1>3, <1>5
  <1>7. ASSUME NEW p \in Queries, pc'[p] = "commit" PROVE p \in open'[held'[p]]
    <2>1. p # q
      BY <1>2, <1>7
    <2>2. pc[p] = "commit" /\ held[p] \in Conns /\ held[p] # c
      BY <2>1, <1>1, <1>2, <1>7 DEF HeldOK, Inside
    <2> QED BY <2>2, <1>2, <1>3 DEF WorkInv
  <1>8. \A p \in Queries : outcome'[p] # "none" => pc'[p] \in After
    BY <1>2 DEF WorkInv, After
  <1>9. \A p \in Queries : outcome'[p] = "rows" => p \in committed'
    BY <1>2, <1>4 DEF WorkInv
  <1>10. ASSUME NEW p \in committed'
         PROVE  \/ outcome'[p] \in {"rows", "raw_error"}
                \/ pc'[p] = "rollback" /\ link'[held'[p]] = "closed"
    <2>1. p \in Queries /\ p \in committed
      BY <1>2, <1>10 DEF TypeOK
    <2>2. CASE p = q
      <3>1. link[c] = "closed"
        BY <2>1, <2>2, <1>1 DEF WorkInv
      <3> QED BY <3>1, <2>2, <1>4
    <2>3. CASE p # q /\ outcome[p] \in {"rows", "raw_error"}
      BY <2>1, <2>3, <1>2
    <2>4. CASE p # q /\ pc[p] = "rollback" /\ link[held[p]] = "closed"
      <3>1. held[p] \in Conns /\ held[p] # c
        BY <2>1, <2>4, <1>1 DEF HeldOK, Inside
      <3> QED BY <3>1, <2>1, <2>4, <1>2, <1>3
    <2> QED BY <2>1, <2>2, <2>3, <2>4 DEF WorkInv
  <1>11. \A d \in Conns : \A p \in session'[d] : outcome'[p] = "rows"
    <2>1. \A d \in Conns : \A p \in session[d] : p \in Queries /\ p # q /\ outcome[p] = "rows"
      BY <1>1 DEF WorkInv, TypeOK
    <2> QED BY <2>1, <1>2
  <1> QED BY <1>6, <1>7, <1>8, <1>9, <1>10, <1>11 DEF WorkInv

\* Every step keeps the transactions apart.
LEMMA NextWork ==
  TypeOK /\ HeldOK /\ HoldInv /\ WorkInv /\ [Next]_vars => WorkInv'
  <1> SUFFICES ASSUME TypeOK, HeldOK, HoldInv, WorkInv, [Next]_vars PROVE WorkInv'
    OBVIOUS
  <1> USE DEF Goto, After, pool, changes, answers
  <1>1. ASSUME NEW q \in Queries, Step(q) PROVE WorkInv'
    <2>1. CASE UseClient(q)
      BY <2>1, QuietWork DEF UseClient, TypeOK
    <2>2. CASE CreateClient(q)
      <3>1. \A c \in Conns : link[c] = "closed" => link'[c] = "closed"
        <4>1. PICK first \in [1 .. POOL_MIN -> NewConns] :
                  link' = [c \in Conns |-> IF c \in Range(first) THEN "live" ELSE link[c]]
          BY <2>2 DEF CreateClient
        <4>2. \A c \in Range(first) : link[c] = "new"
          BY DEF Range, NewConns
        <4> QED BY <4>1, <4>2
      <3>2. /\ pc[q] = "get_client" /\ pc' = [pc EXCEPT ![q] = "getconn"]
            /\ UNCHANGED <<open, session, held, outcome, committed>>
        BY <2>2 DEF CreateClient
      <3> QED BY <3>1, <3>2, QuietWork DEF TypeOK
    <2>3. CASE CreateClientFails(q)
      BY <2>3, QuietWork DEF CreateClientFails, Answer, Escape, TypeOK
    <2>4. CASE GetConn(q)
      <3>1. \A c \in Conns : link[c] = "closed" => link'[c] = "closed"
        BY <2>4 DEF GetConn, NewConns, TypeOK
      <3>2. /\ pc[q] = "getconn" /\ pc' = [pc EXCEPT ![q] = "execute"]
            /\ UNCHANGED <<open, session, outcome, committed>>
            /\ \A p \in Queries : p # q => held'[p] = held[p]
        BY <2>4 DEF GetConn, TypeOK
      <3> QED BY <3>1, <3>2, QuietWork DEF TypeOK
    <2>5. CASE GetConnFails(q)
      BY <2>5, QuietWork DEF GetConnFails, Answer, TypeOK
    <2>6. CASE Execute(q)
      BY <2>6, ExecuteWork
    <2>7. CASE Commit(q)
      BY <2>7, CommitWork
    <2>8. CASE Rollback(q)
      BY <2>8, RollbackWork
    <2>9. CASE PutConn(q)
      <3>1. \A c \in Conns : link[c] = "closed" => link'[c] = "closed"
        BY <2>9 DEF PutConn, TypeOK
      <3>2. /\ pc[q] = "putconn" /\ pc' = [pc EXCEPT ![q] = "answer"]
            /\ UNCHANGED <<open, session, outcome, committed>>
            /\ \A p \in Queries : p # q => held'[p] = held[p]
        BY <2>9 DEF PutConn, TypeOK
      <3> QED BY <3>1, <3>2, QuietWork DEF TypeOK
    <2>10. CASE Respond(q)
      BY <2>10, QuietWork DEF Respond, Answer, Escape, TypeOK
    <2> QED BY <1>1, <2>1, <2>2, <2>3, <2>4, <2>5, <2>6, <2>7, <2>8, <2>9, <2>10 DEF Step
  <1>2. ASSUME NEW c \in Conns, ConnBreaks(c) PROVE WorkInv'
    BY <1>2, QuietWork DEF ConnBreaks, threads, TypeOK
  <1>3. CASE UNCHANGED vars
    BY <1>3, QuietWork DEF vars, threads
  <1> QED BY <1>1, <1>2, <1>3 DEF Next, Terminated

\* A connection is free again only with its transaction ended, a query works in its own
\* alone, and the settings left in a session are those of queries that were carried out.
THEOREM HandedOverClean == Spec => []CleanHandover
  <1>1. TypeOK /\ HeldOK /\ PoolInv /\ HoldInv /\ WorkInv => CleanHandover
    <2> SUFFICES ASSUME TypeOK, HeldOK, PoolInv, HoldInv, WorkInv PROVE CleanHandover
      OBVIOUS
    <2>1. ASSUME NEW w \in Workers, NEW c \in Range(idle[w]), NEW p \in open[c] PROVE FALSE
      <3>1. c \in Pooled(w) /\ c \in Conns
        BY <2>1, RangeOfSeq DEF Pooled, TypeOK
      <3>2. p \in Queries /\ pc[p] \in Inside /\ held[p] = c
        BY <2>1, <3>1 DEF WorkInv, TypeOK, Inside
      <3>3. c \in used[WorkerOf[p]] /\ WorkerOf[p] \in Workers
        BY <3>2, QueryAssumption DEF HoldInv
      <3>4. WorkerOf[p] = w
        BY <3>1, <3>3 DEF PoolInv, Pooled
      <3> QED BY <2>1, <3>3, <3>4 DEF PoolInv
    <2>2. \A q \in Queries : pc[q] \in Inside => open[held[q]] \subseteq {q}
      BY OwnWork
    <2>3. \A c \in Conns : session[c] \subseteq {q \in Queries : outcome[q] = "rows"}
      BY DEF WorkInv, TypeOK
    <2> QED BY <2>1, <2>2, <2>3 DEF CleanHandover
  <1> QED BY InitTypeOK, NextTypeOK, InitPool, NextPool, InitWork, NextWork, <1>1, PTL DEF Spec

-----------------------------------------------------------------------------
(* Answers.                                                                *)

\* What a query's response and audit record say of one another and of its outcome.
Answered(q) ==
    /\ pc[q] # "done" => response[q] = "none" /\ audit[q] = <<>>
    /\ pc[q] \in {"get_client", "getconn"} => outcome[q] = "none"
    /\ response[q] = "200" => audit[q] = <<"ok">>
    /\ response[q] = "502" <=> audit[q] = <<"failed">>
    /\ response[q] = "502" => outcome[q] \in {"none", "query_error"}
    /\ audit[q] = <<"ok">> => outcome[q] = "rows"

AnswerInv == \A q \in Queries : Answered(q)

\* At the start nothing is answered or recorded.
LEMMA InitAnswer == Init => AnswerInv
  BY DEF Init, AnswerInv, Answered

\* A step of another query, or a step that answers nothing and leaves the outcome alone.
LEMMA QuietAnswer ==
  ASSUME NEW q \in Queries, Answered(q), UNCHANGED <<response, audit>>,
         \/ pc'[q] = pc[q] /\ outcome'[q] = outcome[q]
         \/ /\ pc[q] # "done"
            /\ pc'[q] \in {"get_client", "getconn"} => outcome'[q] = "none"
  PROVE  Answered(q)'
  BY DEF Answered

\* The step that answers.
LEMMA NewAnswer ==
  ASSUME TypeOK, AnswerInv, NEW q \in Queries, pc[q] # "done", UNCHANGED outcome,
         \/ Answer(q, "200", "ok") /\ outcome[q] = "rows"
         \/ Answer(q, "500", "ok") /\ outcome[q] = "rows"
         \/ Answer(q, "502", "failed") /\ outcome[q] \in {"none", "query_error"}
         \/ Escape(q)
  PROVE  AnswerInv'
  <1>1. audit[q] = <<>> /\ response[q] = "none"
    BY DEF AnswerInv, Answered
  <1>2. pc'[q] = "done"
    BY DEF Answer, Escape, Goto, TypeOK
  <1>3. \/ response'[q] \in {"200", "500"} /\ audit'[q] = <<"ok">> /\ outcome[q] = "rows"
        \/ response'[q] = "502" /\ audit'[q] = <<"failed">> /\ outcome[q] \in {"none", "query_error"}
        \/ response'[q] = "500" /\ audit'[q] = <<>>
    BY <1>1 DEF Answer, Escape, log_query, TypeOK
  <1>4. <<"ok">> # <<"failed">> /\ <<"ok">> # <<>> /\ <<"failed">> # <<>>
    OBVIOUS
  <1>5. Answered(q)'
    BY <1>2, <1>3, <1>4 DEF Answered
  <1>6. ASSUME NEW p \in Queries, p # q PROVE Answered(p)'
    <2>1. pc'[p] = pc[p] /\ response'[p] = response[p] /\ audit'[p] = audit[p]
      BY <1>6 DEF Answer, Escape, Goto, log_query, TypeOK
    <2> QED BY <2>1 DEF AnswerInv, Answered
  <1> QED BY <1>5, <1>6 DEF AnswerInv

\* Every step keeps response, record and outcome in agreement.
LEMMA NextAnswer == TypeOK /\ AnswerInv /\ [Next]_vars => AnswerInv'
  <1> SUFFICES ASSUME TypeOK, AnswerInv, [Next]_vars PROVE AnswerInv'
    OBVIOUS
  <1> USE DEF Goto, pool, changes, answers
  <1>1. ASSUME NEW q \in Queries, Step(q) PROVE AnswerInv'
    <2>1. CASE \/ UseClient(q) \/ CreateClient(q) \/ GetConn(q)
      <3>1. /\ pc[q] \in {"get_client", "getconn"} /\ UNCHANGED <<response, audit, outcome>>
            /\ \A p \in Queries : p # q => pc'[p] = pc[p]
        BY <2>1 DEF UseClient, CreateClient, GetConn, TypeOK
      <3> QED BY <3>1 DEF AnswerInv, Answered
    <2>2. CASE Execute(q) \/ Commit(q) \/ Rollback(q) \/ PutConn(q)
      <3>1. /\ UNCHANGED <<response, audit>>
            /\ pc[q] # "done" /\ pc'[q] \in {"commit", "rollback", "putconn", "answer"}
        BY <2>2 DEF Execute, Commit, Rollback, PutConn, TypeOK
      <3>2. \A p \in Queries : p # q => pc'[p] = pc[p] /\ outcome'[p] = outcome[p]
        BY <2>2 DEF Execute, Commit, Rollback, PutConn, TypeOK
      <3> QED BY <3>1, <3>2, QuietAnswer DEF AnswerInv
    <2>3. CASE CreateClientFails(q)
      BY <2>3, NewAnswer DEF CreateClientFails, AnswerInv, Answered
    <2>4. CASE GetConnFails(q)
      BY <2>4, NewAnswer DEF GetConnFails, AnswerInv, Answered
    <2>5. CASE Respond(q)
      BY <2>5, NewAnswer DEF Respond
    <2> QED BY <1>1, <2>1, <2>2, <2>3, <2>4, <2>5 DEF Step
  <1>2. ASSUME NEW c \in Conns, ConnBreaks(c) PROVE AnswerInv'
    BY <1>2 DEF ConnBreaks, threads, AnswerInv, Answered
  <1>3. CASE UNCHANGED vars
    BY <1>3 DEF vars, threads, AnswerInv, Answered
  <1> QED BY <1>1, <1>2, <1>3 DEF Next, Terminated

\* 200 is answered only of what is committed, 502 only of what is not: the commit whose
\* answer is lost ends in neither.
THEOREM OutcomeIsTrue == Spec => []TrueOutcome
  <1>1. TypeOK /\ WorkInv /\ AnswerInv => TrueOutcome
    <2> SUFFICES ASSUME WorkInv, AnswerInv, NEW q \in Queries
                 PROVE  /\ response[q] = "200" => q \in committed
                        /\ response[q] = "502" => q \notin committed
      BY DEF TrueOutcome
    <2>1. response[q] = "200" => q \in committed
      BY DEF WorkInv, AnswerInv, Answered
    <2>2. response[q] = "502" => pc[q] = "done" /\ outcome[q] \in {"none", "query_error"}
      BY DEF AnswerInv, Answered
    <2>3. response[q] = "502" => q \notin committed
      BY <2>2 DEF WorkInv
    <2> QED BY <2>1, <2>3
  <1> QED BY InitTypeOK, NextTypeOK, InitPool, NextPool, InitWork, NextWork, InitAnswer, NextAnswer, <1>1, PTL DEF Spec

\* Every 200 and every 502 has its one audit record, and "ok" is recorded only of
\* what is committed.
THEOREM AuditIsComplete == Spec => []AuditMatchesResponse
  <1>1. WorkInv /\ AnswerInv => AuditMatchesResponse
    BY DEF WorkInv, AnswerInv, Answered, AuditMatchesResponse
  <1> QED BY InitTypeOK, NextTypeOK, InitPool, NextPool, InitWork, NextWork, InitAnswer, NextAnswer, <1>1, PTL DEF Spec

-----------------------------------------------------------------------------
(* What a response shows.                                                  *)

\* A response shows nothing, or a row that was masked.
ShownInv == \A q \in Queries : shown[q] = NoRow \/ \E row \in Results : shown[q] = mask_record(row)

\* Every response is masked.
LEMMA NextShown == TypeOK /\ ShownInv /\ [Next]_vars => ShownInv'
  <1> SUFFICES ASSUME TypeOK, ShownInv, [Next]_vars PROVE ShownInv'
    OBVIOUS
  <1> USE DEF pool, changes, answers
  <1>1. ASSUME NEW q \in Queries, Step(q) PROVE ShownInv'
    <2>1. UNCHANGED shown \/ \E row \in Results : shown' = [shown EXCEPT ![q] = mask_record(row)]
      BY <1>1 DEF Step, UseClient, CreateClient, CreateClientFails, GetConn, GetConnFails,
                  Execute, Commit, Rollback, PutConn, Respond
    <2>2. CASE UNCHANGED shown
      BY <2>2 DEF ShownInv
    <2>3. ASSUME NEW row \in Results, shown' = [shown EXCEPT ![q] = mask_record(row)]
          PROVE  ShownInv'
      BY <2>3 DEF ShownInv, TypeOK
    <2> QED BY <2>1, <2>2, <2>3
  <1>2. ASSUME NEW c \in Conns, ConnBreaks(c) PROVE ShownInv'
    BY <1>2 DEF ConnBreaks, ShownInv
  <1>3. CASE UNCHANGED vars
    BY <1>3 DEF vars, ShownInv
  <1> QED BY <1>1, <1>2, <1>3 DEF Next, Terminated

\* Of a sensitive field nothing but the last four characters is shown, and nothing of a
\* short one, whatever the fields, their texts and the rows.
THEOREM SensitiveHidden == Spec => []SensitiveStaysHidden
  <1>1. ShownInv => SensitiveStaysHidden
    <2> SUFFICES ASSUME ShownInv, NEW q \in Queries, NEW f \in DOMAIN shown[q] \cap Sensitive,
                        NEW i \in DOMAIN shown[q][f], shown[q][f][i] # Star
                 PROVE  Len(shown[q][f]) > 4 /\ i > Len(shown[q][f]) - 4
      BY DEF SensitiveStaysHidden
    <2>1. PICK row \in Results : shown[q] = mask_record(row)
      BY DEF ShownInv, NoRow
    <2> DEFINE text == row[f]
    <2>2. f \in DOMAIN row /\ text \in Seq(Nat \ {Star}) /\ shown[q][f] = mask_value(text)
      BY <2>1, ResultAssumption DEF mask_record
    <2>3. Len(text) \in Nat /\ DOMAIN text = 1 .. Len(text)
      BY <2>2
    <2>4. /\ DOMAIN mask_value(text) = 1 .. Len(text)
          /\ i \in 1 .. Len(text)
          /\ ~(Len(text) <= 4 \/ i + 4 <= Len(text))
      BY <2>2, <2>3 DEF mask_value
    <2>5. mask_value(text) \in Seq(Nat) /\ Len(mask_value(text)) = Len(text)
      <3>1. \A j \in 1 .. Len(text) : text[j] \in Nat
        BY <2>2, <2>3
      <3>2. \A j \in 1 .. Len(text) :
               (IF Len(text) <= 4 \/ j + 4 <= Len(text) THEN Star ELSE text[j]) \in Nat
        BY <3>1 DEF Star
      <3> QED BY <2>3, <3>2 DEF mask_value
    <2> QED BY <2>2, <2>3, <2>4, <2>5
  <1>2. Init => ShownInv
    BY DEF Init, ShownInv
  <1> QED BY InitTypeOK, NextTypeOK, <1>2, NextShown, <1>1, PTL DEF Spec
=============================================================================
