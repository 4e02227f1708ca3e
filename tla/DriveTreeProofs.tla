-------------------------- MODULE DriveTreeProofs ---------------------------
(***************************************************************************)
(* Theorems about DriveTree, for any requests, any set of paths that is    *)
(* closed under parents, and any number of retries and outside changes:    *)
(*   - TypeCorrect: the type invariant;                                    *)
(*   - AnswersTrueAtSomeMoment: no answer is made up;                      *)
(*   - CreatedByItsCaller: created=true is claimed by the maker only;      *)
(*   - EveryChangeAudited: who changed the tree left one honest record;    *)
(*   - DeletedAsAsked: a delete of the wrong kind needs a swap.            *)
(* The heart is what a running request has seen: nothing turns from a file *)
(* into a folder or back without being absent in between, so a request     *)
(* that saw both at one path was told the truth whatever it answers.       *)
(***************************************************************************)
EXTENDS DriveTree, SequenceTheorems, TLAPS

-----------------------------------------------------------------------------
(* The invariant.                                                          *)

Running(r) == pc[r] \notin {"admit", "done"}

Deletes == {"delete_file", "delete_directory"}

\* What a request at each step is there for, and which part of its path it is at.
ControlInv(r) ==
    /\ Running(r) => target[r] \in Paths /\ depth[r] \in 1 .. Len(target[r])
    /\ pc[r] \in {"make", "look_again"} => operation[r] = "create_directory"
    /\ pc[r] = "look" /\ operation[r] = "write_file" => depth[r] = Len(target[r]) - 1
    /\ pc[r] = "put" => operation[r] = "write_file" /\ depth[r] = Len(target[r])
    /\ pc[r] = "delete" => operation[r] \in Deletes
    /\ Running(r) /\ operation[r] \in Deletes => depth[r] = Len(target[r])

\* Whether a request changed the tree.
Changed(r) ==
    (\E p \in Paths : <<r, p>> \in made) \/ (\E kind \in Kinds : <<r, kind>> \in removed)

Good == {"created", "existed", "written", "deleted"}
Bad == {"bad_request", "not_found", "conflict", "upstream"}

\* A request answers and leaves its record together, at its end.
RecordInv(r) ==
    /\ pc[r] # "done" => answer[r] = "none" /\ audit[r] = <<>>
    /\ pc[r] = "done" => \/ answer[r] = "forbidden" /\ audit[r] = <<>> /\ ~Changed(r)
                         \/ answer[r] \in Good /\ audit[r] = <<"ok">>
                         \/ answer[r] \in Bad /\ audit[r] = <<"failed">>
    /\ pc[r] = "admit" => ~Changed(r)

\* A running request has seen the tree as it is, and no swap without the gap.
WatchInv(r) ==
    Running(r) => \A p \in Paths :
        /\ tree[p] \in seen[r][p]
        /\ {"file", "directory"} \subseteq seen[r][p] => "none" \in seen[r][p]

\* What a request at each step has seen.
SightInv(r) ==
    /\ Running(r) /\ operation[r] = "create_directory" =>
          \A n \in 1 .. depth[r] - 1 : "directory" \in seen[r][SubSeq(target[r], 1, n)]
    /\ pc[r] \in {"make", "look_again"} => "none" \in seen[r][Here(r)]
    /\ pc[r] = "look_again" => seen[r][Here(r)] \cap {"file", "directory"} # {}
    /\ pc[r] = "put" /\ Len(target[r]) > 1 => "directory" \in seen[r][Front(target[r])]
    /\ pc[r] = "delete" => Wanted(r) \in seen[r][target[r]]

DriveInv ==
    /\ TypeOK
    /\ \A r \in Requests : ControlInv(r) /\ RecordInv(r) /\ WatchInv(r) /\ SightInv(r)
    /\ AnswersWereTrue /\ CreatedMeansMade /\ DeletesOnlyWhatItSaw

-----------------------------------------------------------------------------
(* Paths and their levels.                                                 *)

\* A path is the last of its levels, which are the paths that are its prefixes.
LEMMA PathLevels ==
  ASSUME NEW t \in Paths
  PROVE  /\ Len(t) \in Nat \ {0} /\ SubSeq(t, 1, Len(t)) = t /\ t # <<>> /\ IsPrefix(t, t)
         /\ \A n \in 1 .. Len(t) : /\ SubSeq(t, 1, n) \in Paths
                                   /\ IsPrefix(SubSeq(t, 1, n), t)
                                   /\ n # Len(t) => SubSeq(t, 1, n) # t
         /\ \A n \in 2 .. Len(t) : Front(SubSeq(t, 1, n)) = SubSeq(t, 1, n - 1)
         /\ \A p \in Paths : IsPrefix(p, t) =>
               Len(p) \in 1 .. Len(t) /\ p = SubSeq(t, 1, Len(p))
  <1> DEFINE Names == UNION {Range(p) : p \in Paths}
  <1>1. ASSUME NEW p \in Paths PROVE p \in Seq(Names) /\ p # <<>> /\ Len(p) \in Nat \ {0}
    BY PathAssumption, EmptySeq
  <1> HIDE DEF Names
  <1>2. ASSUME NEW p \in Paths PROVE SubSeq(p, 1, Len(p)) = p
    BY <1>1, SubSeqFull
  <1>3. ASSUME NEW n \in 1 .. Len(t)
        PROVE  /\ SubSeq(t, 1, n) \in Paths
               /\ Len(SubSeq(t, 1, n)) = n
               /\ SubSeq(SubSeq(t, 1, n), 1, n) = SubSeq(t, 1, n)
    <2>1. SubSeq(t, 1, n) \in Paths
      BY PathAssumption
    <2>2. Len(SubSeq(t, 1, n)) = n
      BY <1>1
    <2> QED BY <1>2, <2>1, <2>2
  <1>4. ASSUME NEW n \in 1 .. Len(t)
        PROVE  IsPrefix(SubSeq(t, 1, n), t) /\ (n # Len(t) => SubSeq(t, 1, n) # t)
    BY <1>1, <1>3 DEF IsPrefix
  <1>5. ASSUME NEW n \in 2 .. Len(t)
        PROVE  Front(SubSeq(t, 1, n)) = SubSeq(t, 1, n - 1)
    <2>1. Len(SubSeq(t, 1, n)) = n
      BY <1>1, <1>3
    <2>2. SubSeq(SubSeq(t, 1, n), 1, n - 1) = SubSeq(t, 1, n - 1)
      BY <1>1
    <2> QED BY <2>1, <2>2 DEF Front
  <1>6. ASSUME NEW p \in Paths, IsPrefix(p, t)
        PROVE  Len(p) \in 1 .. Len(t) /\ p = SubSeq(t, 1, Len(p))
    BY <1>1, <1>2, <1>6 DEF IsPrefix
  <1>7. IsPrefix(t, t)
    BY <1>1 DEF IsPrefix
  <1> QED BY <1>1, <1>2, <1>3, <1>4, <1>5, <1>6, <1>7

\* Where a running request is, and its folders above that.
LEMMA HereLevels ==
  ASSUME TypeOK, NEW r \in Requests, ControlInv(r), Running(r)
  PROVE  /\ target[r] \in Paths /\ Here(r) \in Paths /\ Here(r) \in Lineage(r)
         /\ target[r] \in Lineage(r)
         /\ depth[r] = Len(target[r]) => Here(r) = target[r]
         /\ Len(Here(r)) > 1 => /\ depth[r] \in 2 .. Len(target[r])
                                /\ Front(Here(r)) = SubSeq(target[r], 1, depth[r] - 1)
                                /\ Front(Here(r)) \in Lineage(r)
  <1>1. target[r] \in Paths /\ depth[r] \in 1 .. Len(target[r])
    BY DEF ControlInv
  <1>2. Len(target[r]) \in Nat
    BY <1>1, PathLevels
  <1>3. Here(r) \in Paths /\ Here(r) \in Lineage(r) /\ target[r] \in Lineage(r)
    BY <1>1, PathLevels DEF Here, Lineage
  <1>4. depth[r] = Len(target[r]) => Here(r) = target[r]
    BY <1>1, PathLevels DEF Here
  <1>5. ASSUME Len(Here(r)) > 1
        PROVE  depth[r] \in 2 .. Len(target[r])
    <2>1. ASSUME depth[r] = 1 PROVE FALSE
      <3>1. Len(SubSeq(target[r], 1, 1)) = 1
        BY <1>1, <2>1, PathAssumption
      <3> QED BY <1>5, <2>1, <3>1 DEF Here
    <2> QED BY <1>1, <1>2, <2>1
  <1>6. ASSUME depth[r] \in 2 .. Len(target[r])
        PROVE  /\ Front(Here(r)) = SubSeq(target[r], 1, depth[r] - 1)
               /\ Front(Here(r)) \in Lineage(r)
    <2>1. Front(Here(r)) = SubSeq(target[r], 1, depth[r] - 1)
      BY <1>1, <1>6, PathLevels DEF Here
    <2>2. depth[r] - 1 \in 1 .. Len(target[r])
      BY <1>2, <1>6
    <2>3. /\ SubSeq(target[r], 1, depth[r] - 1) \in Paths
          /\ IsPrefix(SubSeq(target[r], 1, depth[r] - 1), target[r])
      BY <1>1, <2>2, PathLevels
    <2>4. SubSeq(target[r], 1, depth[r] - 1) \in Lineage(r)
      BY <2>3, Zenon DEF Lineage
    <2> QED BY <2>1, <2>4
  <1> QED BY <1>1, <1>3, <1>4, <1>5, <1>6

-----------------------------------------------------------------------------
(* What every step has in common.                                          *)

\* The tree after a change: nothing turns from a file into a folder or back at once.
Gapped(t) == /\ t \in [Paths -> Kinds]
             /\ \A p \in Paths : t[p] = tree[p] \/ t[p] = "none" \/ tree[p] = "none"

Evolves == (tree' = tree /\ seen' = seen) \/ (Gapped(tree') /\ Witness(tree'))

\* A request's step is its own.
LEMMA StepIsLocal ==
  ASSUME TypeOK, NEW r \in Requests, Step(r)
  PROVE  /\ UNCHANGED <<read_only, operation, target, changes>>
         /\ \A s \in Requests : s # r =>
               /\ pc'[s] = pc[s] /\ depth'[s] = depth[s] /\ tries'[s] = tries[s]
               /\ answer'[s] = answer[s] /\ audit'[s] = audit[s]
  <1> USE DEF TypeOK, Goto, Answer, Succeed, Fail, log_sharepoint, NextLevel, Retry, inputs
  <1>1. CASE Refuse(r) \/ RefuseRoot(r) \/ Admit(r)
    BY <1>1 DEF Refuse, RefuseRoot, Admit, Start
  <1>2. CASE LookToCreate(r) \/ MakeDirectory(r)
    BY <1>2 DEF LookToCreate, MakeDirectory
  <1>3. CASE MakeNowhere(r) \/ MakeTaken(r) \/ LookAgain(r)
    BY <1>3 DEF MakeNowhere, MakeTaken, LookAgain
  <1>4. CASE LookAtParent(r) \/ PutFile(r) \/ PutNowhere(r)
    BY <1>4 DEF LookAtParent, PutFile, PutNowhere
  <1>5. CASE LookToDelete(r) \/ Delete(r) \/ DeleteNothing(r)
    BY <1>5 DEF LookToDelete, Delete, DeleteNothing
  <1>6. CASE Throttled(r) \/ CallFails(r)
    BY <1>6 DEF Throttled, CallFails
  <1> QED BY <1>1, <1>2, <1>3, <1>4, <1>5, <1>6 DEF Step

\* Only these steps change the tree, or what requests see of it.
LEMMA StepTree ==
  ASSUME TypeOK, NEW r \in Requests, ControlInv(r), Step(r)
  PROVE  \/ Evolves
         \/ /\ pc[r] = "admit" /\ target[r] \in Paths /\ tree' = tree
            /\ seen' = [seen EXCEPT ![r] = [p \in Paths |-> {tree[p]}]]
  <1>1. CASE Admit(r)
    BY <1>1 DEF Admit, TypeOK
  <1>2. CASE MakeDirectory(r)
    <2>1. Here(r) \in Paths
      BY <1>2, HereLevels DEF MakeDirectory, Running
    <2> DEFINE after == [tree EXCEPT ![Here(r)] = "directory"]
    <2>2. tree' = after /\ Witness(after) /\ tree[Here(r)] = "none"
      BY <1>2 DEF MakeDirectory
    <2>3. Gapped(after)
      BY <2>1, <2>2 DEF Gapped, TypeOK, Kinds
    <2> QED BY <2>2, <2>3 DEF Evolves
  <1>3. CASE PutFile(r)
    <2> DEFINE after == [p \in Paths |-> IF p = target[r] THEN "file"
                                         ELSE IF IsPrefix(p, target[r]) THEN "directory"
                                         ELSE tree[p]]
    <2>1. /\ tree' = after /\ Witness(after) /\ tree[target[r]] # "directory"
          /\ \A p \in Paths : IsStrictPrefix(p, target[r]) => tree[p] # "file"
      BY <1>3 DEF PutFile
    <2>2. ASSUME NEW p \in Paths
          PROVE  /\ after[p] \in Kinds
                 /\ after[p] = tree[p] \/ after[p] = "none" \/ tree[p] = "none"
      BY <2>1 DEF TypeOK, Kinds, IsStrictPrefix
    <2>3. Gapped(after)
      BY <2>2 DEF Gapped
    <2> QED BY <2>1, <2>3 DEF Evolves
  <1>4. CASE Delete(r)
    <2>1. Gapped(Without(Here(r)))
      BY DEF Gapped, Without, TypeOK, Kinds
    <2> QED BY <1>4, <2>1 DEF Delete, Evolves
  <1>5. CASE ~(Admit(r) \/ MakeDirectory(r) \/ PutFile(r) \/ Delete(r))
    BY <1>5 DEF Step, Refuse, RefuseRoot, LookToCreate, MakeNowhere, MakeTaken, LookAgain,
       LookAtParent, PutNowhere, LookToDelete, DeleteNothing, Throttled, CallFails, Remains,
       Evolves
  <1> QED BY <1>1, <1>2, <1>3, <1>4, <1>5

\* A running request sees every change, and loses nothing of what it saw; one that is
\* not running keeps what it saw.
LEMMA EvolveWatch ==
  ASSUME TypeOK, Evolves, NEW r \in Requests
  PROVE  /\ ~Running(r) => seen'[r] = seen[r]
         /\ WatchInv(r) /\ Running(r) => \A p \in Paths :
               /\ seen[r][p] \subseteq seen'[r][p] /\ tree'[p] \in seen'[r][p]
               /\ {"file", "directory"} \subseteq seen'[r][p] => "none" \in seen'[r][p]
  <1>1. CASE tree' = tree /\ seen' = seen
    BY <1>1 DEF WatchInv
  <1>2. CASE Gapped(tree') /\ Witness(tree')
    <2>1. ~Running(r) => seen'[r] = seen[r]
      BY <1>2 DEF Witness, Running
    <2>2. Running(r) => \A p \in Paths : seen'[r][p] = seen[r][p] \cup {tree'[p]}
      BY <1>2 DEF Witness, Running
    <2>3. ASSUME WatchInv(r), Running(r), NEW p \in Paths,
                 {"file", "directory"} \subseteq seen'[r][p]
          PROVE  "none" \in seen'[r][p]
      <3>1. /\ tree[p] \in seen[r][p] /\ tree[p] \in Kinds /\ tree'[p] \in Kinds
            /\ {"file", "directory"} \subseteq seen[r][p] => "none" \in seen[r][p]
        BY <1>2, <2>3 DEF WatchInv, TypeOK, Gapped
      <3>2. tree'[p] = tree[p] \/ tree'[p] = "none" \/ tree[p] = "none"
        BY <1>2 DEF Gapped
      <3> QED BY <2>2, <2>3, <3>1, <3>2 DEF Kinds
    <2> QED BY <2>1, <2>2, <2>3
  <1> QED BY <1>1, <1>2 DEF Evolves

-----------------------------------------------------------------------------
(* The steps keep the invariant, part by part.                             *)

\* The service starts with all of it.
LEMMA InitInv == Init => DriveInv
  <1> SUFFICES ASSUME Init PROVE DriveInv
    OBVIOUS
  <1> USE BoundAssumption DEF Init
  <1>1. TypeOK
    BY DEF TypeOK, Kinds
  <1>2. ASSUME NEW r \in Requests
        PROVE  ControlInv(r) /\ RecordInv(r) /\ WatchInv(r) /\ SightInv(r) /\ AnswerWasTrue(r)
    BY DEF ControlInv, RecordInv, WatchInv, SightInv, AnswerWasTrue, Running, Changed
  <1>3. CreatedMeansMade /\ DeletesOnlyWhatItSaw
    BY DEF CreatedMeansMade, DeletesOnlyWhatItSaw
  <1> QED BY <1>1, <1>2, <1>3 DEF DriveInv, AnswersWereTrue

\* Answers are of their types, and leave one record.
LEMMA AnswerType ==
  ASSUME TypeOK, NEW r \in Requests, NEW result,
         (Succeed(r, result) /\ result \in Good) \/ (Fail(r, result) /\ result \in Bad)
  PROVE  /\ pc' = [pc EXCEPT ![r] = "done"]
         /\ answer' = [answer EXCEPT ![r] = result]
         /\ answer' \in [Requests -> {"none", "created", "existed", "written", "deleted",
                              "forbidden", "bad_request", "not_found", "conflict", "upstream"}]
         /\ audit' \in [Requests -> Seq({"ok", "failed"})]
         /\ audit'[r] = Append(audit[r], IF result \in Good THEN "ok" ELSE "failed")
         /\ UNCHANGED <<depth, tries>>
  <1>1. /\ pc' = [pc EXCEPT ![r] = "done"]
        /\ answer' = [answer EXCEPT ![r] = result]
        /\ UNCHANGED <<depth, tries>>
    BY DEF Succeed, Fail, Answer, Goto
  <1>2. answer' \in [Requests -> {"none", "created", "existed", "written", "deleted",
                              "forbidden", "bad_request", "not_found", "conflict", "upstream"}]
    BY <1>1 DEF TypeOK, Good, Bad
  <1>3. PICK status \in {"ok", "failed"} :
            /\ audit' = [audit EXCEPT ![r] = Append(audit[r], status)]
            /\ status = IF result \in Good THEN "ok" ELSE "failed"
    BY DEF Succeed, Fail, log_sharepoint, Good, Bad
  <1>4. audit' \in [Requests -> Seq({"ok", "failed"})] /\ audit'[r] = Append(audit[r], status)
    BY <1>3 DEF TypeOK
  <1> QED BY <1>1, <1>2, <1>3, <1>4

\* What the outcome of a call does to its request: it answers, goes on, or tries again.
Outcome(r) ==
    \/ \E result \in Good : Succeed(r, result)
    \/ \E result \in Bad : Fail(r, result)
    \/ /\ \E step \in {"look", "make", "look_again", "put", "delete"} :
             pc' = [pc EXCEPT ![r] = step]
       /\ depth' \in {depth, [depth EXCEPT ![r] = depth[r] + 1],
                      [depth EXCEPT ![r] = Len(target[r])]}
       /\ tries' \in {tries, [tries EXCEPT ![r] = 0]}
       /\ UNCHANGED <<answer, audit>>
    \/ Retry(r)

\* Every step that is not the admission has such an outcome.
LEMMA StepOutcome ==
  ASSUME TypeOK, NEW r \in Requests, Step(r), ~Refuse(r), ~Admit(r)
  PROVE  Outcome(r) /\ (Retry(r) => Running(r) \/ pc'[r] = "done")
  <1> USE DEF Outcome, Running, Goto, NextLevel, Good, Bad
  <1>1. CASE RefuseRoot(r) \/ CallFails(r)
    BY <1>1 DEF RefuseRoot, CallFails, Retry, Fail, Answer, TypeOK
  <1>2. CASE LookToCreate(r)
    BY <1>2 DEF LookToCreate
  <1>3. CASE MakeDirectory(r)
    BY <1>3 DEF MakeDirectory
  <1>4. CASE MakeNowhere(r) \/ MakeTaken(r)
    BY <1>4 DEF MakeNowhere, MakeTaken
  <1>5. CASE LookAgain(r)
    BY <1>5 DEF LookAgain
  <1>6. CASE LookAtParent(r)
    BY <1>6 DEF LookAtParent
  <1>7. CASE PutFile(r) \/ PutNowhere(r)
    BY <1>7 DEF PutFile, PutNowhere
  <1>8. CASE LookToDelete(r)
    BY <1>8 DEF LookToDelete
  <1>9. CASE Delete(r) \/ DeleteNothing(r) \/ Throttled(r)
    BY <1>9 DEF Delete, DeleteNothing, Throttled
  <1> QED BY <1>1, <1>2, <1>3, <1>4, <1>5, <1>6, <1>7, <1>8, <1>9 DEF Step

\* It is well-typed, and is an answer with its record or none.
Recorded(r) ==
    /\ pc' \in [Requests -> {"admit", "look", "make", "look_again", "put", "delete", "done"}]
    /\ depth' \in [Requests -> Nat]
    /\ tries' \in [Requests -> 0 .. MAX_RETRIES]
    /\ answer' \in [Requests -> {"none", "created", "existed", "written", "deleted",
                              "forbidden", "bad_request", "not_found", "conflict", "upstream"}]
    /\ audit' \in [Requests -> Seq({"ok", "failed"})]
    /\ \/ /\ pc'[r] = "done" /\ answer'[r] \in Good
          /\ audit'[r] = Append(audit[r], "ok")
       \/ /\ pc'[r] = "done" /\ answer'[r] \in Bad
          /\ audit'[r] = Append(audit[r], "failed")
       \/ /\ pc'[r] \in {pc[r], "look", "make", "look_again", "put", "delete"}
          /\ answer'[r] = answer[r] /\ audit'[r] = audit[r]

\* Every outcome is recorded so.
LEMMA OutcomeType ==
  ASSUME TypeOK, NEW r \in Requests, Outcome(r)
  PROVE  Recorded(r)
  <1>0. /\ depth[r] \in Nat /\ Len(target[r]) \in Nat /\ MAX_RETRIES \in Nat
        /\ depth \in [Requests -> Nat] /\ tries \in [Requests -> 0 .. MAX_RETRIES]
    <2>1. target[r] \in Paths => Len(target[r]) \in Nat
      BY PathLevels
    <2>2. Len(<<>>) = 0
      OBVIOUS
    <2> QED BY <2>1, <2>2, BoundAssumption DEF TypeOK
  <1>1. ASSUME NEW result, (Succeed(r, result) /\ result \in Good)
                           \/ (Fail(r, result) /\ result \in Bad)
        PROVE  Recorded(r)
    <2>1. /\ pc' = [pc EXCEPT ![r] = "done"]
          /\ answer' = [answer EXCEPT ![r] = result]
          /\ answer' \in [Requests -> {"none", "created", "existed", "written", "deleted",
                              "forbidden", "bad_request", "not_found", "conflict", "upstream"}]
          /\ audit' \in [Requests -> Seq({"ok", "failed"})]
          /\ audit'[r] = Append(audit[r], IF result \in Good THEN "ok" ELSE "failed")
          /\ UNCHANGED <<depth, tries>>
      BY <1>1, AnswerType
    <2>2. result \in Good \/ (result \in Bad /\ result \notin Good)
      BY <1>1 DEF Good, Bad
    <2> QED BY <1>0, <2>1, <2>2 DEF TypeOK, Recorded
  <1>2. CASE Retry(r)
    <2>1. tries' \in [Requests -> 0 .. MAX_RETRIES]
      <3>1. tries[r] + 1 \in 0 .. MAX_RETRIES
        BY <1>0, <1>2 DEF Retry
      <3> QED BY <1>0, <1>2, <3>1 DEF Retry
    <2> QED BY <1>2, <2>1 DEF Retry, TypeOK, Recorded
  <1>3. ASSUME NEW step \in {"look", "make", "look_again", "put", "delete"},
               pc' = [pc EXCEPT ![r] = step],
               depth' \in {depth, [depth EXCEPT ![r] = depth[r] + 1],
                           [depth EXCEPT ![r] = Len(target[r])]},
               tries' \in {tries, [tries EXCEPT ![r] = 0]},
               UNCHANGED <<answer, audit>>
        PROVE  Recorded(r)
    <2>1. depth' \in [Requests -> Nat] /\ tries' \in [Requests -> 0 .. MAX_RETRIES]
      <3>1. 0 \in 0 .. MAX_RETRIES /\ depth[r] + 1 \in Nat
        BY <1>0
      <3> QED BY <1>0, <1>3, <3>1
    <2> QED BY <1>3, <2>1 DEF TypeOK, Recorded
  <1> QED BY <1>1, <1>2, <1>3 DEF Outcome

\* What a step adds to the history is its own, and nothing before the admission.
LEMMA StepChanges ==
  ASSUME TypeOK, NEW r \in Requests, ControlInv(r), Step(r)
  PROVE  /\ made \subseteq made' /\ made' \subseteq Requests \X Paths
         /\ removed' \subseteq Requests \X Kinds
         /\ \A s \in Requests : s # r =>
               \A x : (<<s, x>> \in made' <=> <<s, x>> \in made)
                   /\ (<<s, x>> \in removed' <=> <<s, x>> \in removed)
         /\ pc[r] = "admit" => UNCHANGED <<made, removed>>
         /\ removed' \in {removed, removed \cup {<<r, tree[Here(r)]>>}}
  <1>1. CASE MakeDirectory(r)
    <2>1. Here(r) \in Paths
      BY <1>1, HereLevels DEF MakeDirectory, Running
    <2> QED BY <1>1, <2>1 DEF MakeDirectory, TypeOK
  <1>2. CASE PutFile(r)
    BY <1>2 DEF PutFile, TypeOK
  <1>3. CASE Delete(r)
    <2>1. Here(r) \in Paths
      BY <1>3, HereLevels DEF Delete, Running
    <2> QED BY <1>3, <2>1 DEF Delete, TypeOK
  <1>4. CASE ~(MakeDirectory(r) \/ PutFile(r) \/ Delete(r))
    <2>1. UNCHANGED <<made, removed>>
      BY <1>4 DEF Step, Refuse, RefuseRoot, Admit, LookToCreate, MakeNowhere, MakeTaken,
         LookAgain, LookAtParent, PutNowhere, LookToDelete, DeleteNothing, Throttled,
         CallFails, Remains, history
    <2> QED BY <2>1 DEF TypeOK
  <1> QED BY <1>1, <1>2, <1>3, <1>4

\* The types, of a step.
LEMMA StepType ==
  ASSUME TypeOK, NEW r \in Requests, ControlInv(r), Step(r)
  PROVE  TypeOK'
  <1>1. /\ UNCHANGED <<read_only, operation, target, changes>>
        /\ made' \subseteq Requests \X Paths /\ removed' \subseteq Requests \X Kinds
    BY StepIsLocal, StepChanges
  <1>2. tree' \in [Paths -> Kinds]
    BY StepTree DEF Evolves, Gapped, TypeOK
  <1>3. seen' \in [Requests -> [Paths -> SUBSET Kinds]]
    <2>1. seen \in [Requests -> [Paths -> SUBSET Kinds]] /\ tree \in [Paths -> Kinds]
      BY DEF TypeOK
    <2>2. CASE tree' = tree /\ seen' = seen
      BY <2>1, <2>2
    <2>3. CASE Witness(tree')
      <3> DEFINE w(s) == IF pc[s] \in {"admit", "done"} THEN seen[s]
                         ELSE [p \in Paths |-> seen[s][p] \cup {tree'[p]}]
      <3>1. seen' = [s \in Requests |-> w(s)]
        BY <2>3 DEF Witness
      <3>2. ASSUME NEW s \in Requests PROVE w(s) \in [Paths -> SUBSET Kinds]
        <4>1. ASSUME NEW p \in Paths PROVE seen[s][p] \cup {tree'[p]} \in SUBSET Kinds
          BY <1>2, <2>1
        <4> QED BY <2>1, <4>1
      <3> HIDE DEF w
      <3> QED BY <3>1, <3>2
    <2>4. CASE seen' = [seen EXCEPT ![r] = [p \in Paths |-> {tree[p]}]]
      <3>1. [p \in Paths |-> {tree[p]}] \in [Paths -> SUBSET Kinds]
        BY <2>1
      <3> QED BY <2>1, <2>4, <3>1
    <2> QED BY <2>2, <2>3, <2>4, StepTree DEF Evolves
  <1>4. /\ pc' \in [Requests -> {"admit", "look", "make", "look_again", "put", "delete",
                                  "done"}]
        /\ depth' \in [Requests -> Nat]
        /\ tries' \in [Requests -> 0 .. MAX_RETRIES]
        /\ answer' \in [Requests -> {"none", "created", "existed", "written", "deleted",
                              "forbidden", "bad_request", "not_found", "conflict", "upstream"}]
        /\ audit' \in [Requests -> Seq({"ok", "failed"})]
    <2>1. CASE Refuse(r)
      BY <2>1 DEF Refuse, Answer, Goto, TypeOK
    <2>2. CASE Admit(r)
      <3>1. target[r] \in Paths
        BY <2>2 DEF Admit, TypeOK
      <3>2. Len(target[r]) \in Nat \ {0}
        BY <3>1, PathLevels
      <3>3. /\ pc' \in {[pc EXCEPT ![r] = "put"], [pc EXCEPT ![r] = "look"]}
            /\ UNCHANGED <<tries, answer, audit>>
        BY <2>2 DEF Admit, Start, Goto
      <3>4. PICK n \in Nat : depth' = [depth EXCEPT ![r] = n]
        <4> DEFINE n == CASE operation[r] = "create_directory" -> 1
                          [] operation[r] = "write_file" /\ Len(target[r]) - 1 > 0 ->
                                Len(target[r]) - 1
                          [] OTHER -> Len(target[r])
        <4>1. n \in Nat
          BY <3>2
        <4>2. depth' = [depth EXCEPT ![r] = n]
          BY <2>2 DEF Admit, Start
        <4> HIDE DEF n
        <4> QED BY <4>1, <4>2
      <3> QED BY <3>3, <3>4 DEF TypeOK
    <2>3. CASE ~Refuse(r) /\ ~Admit(r)
      BY <2>3, StepOutcome, OutcomeType DEF Recorded
    <2> QED BY <2>1, <2>2, <2>3
  <1> QED BY <1>1, <1>2, <1>3, <1>4 DEF TypeOK

\* No request that has ended takes a step.
LEMMA StepNotDone ==
  ASSUME NEW r \in Requests, Step(r)
  PROVE  pc[r] # "done"
  BY DEF Step, Refuse, RefuseRoot, Admit, LookToCreate, MakeDirectory, MakeNowhere, MakeTaken,
         LookAgain, LookAtParent, PutFile, PutNowhere, LookToDelete, Delete, DeleteNothing,
         Throttled, CallFails

\* The records, of a step.
LEMMA StepRecord ==
  ASSUME TypeOK, NEW r \in Requests, ControlInv(r), Step(r), NEW s \in Requests, RecordInv(s)
  PROVE  RecordInv(s)'
  <1>1. CASE s # r
    <2>1. pc'[s] = pc[s] /\ answer'[s] = answer[s] /\ audit'[s] = audit[s]
      BY <1>1, StepIsLocal
    <2>2. Changed(s)' <=> Changed(s)
      BY <1>1, StepChanges DEF Changed
    <2> QED BY <2>1, <2>2 DEF RecordInv
  <1>2. CASE s = r
    <2>0. pc[r] # "done" /\ answer[r] = "none" /\ audit[r] = <<>>
      BY <1>2, StepNotDone DEF RecordInv
    <2>1. CASE Refuse(r)
      <3>1. pc'[r] = "done" /\ answer'[r] = "forbidden" /\ audit'[r] = audit[r]
        BY <2>1 DEF Refuse, Answer, Goto, TypeOK
      <3>2. ~Changed(r) /\ UNCHANGED <<made, removed>>
        BY <1>2, <2>1 DEF Refuse, Remains, history, RecordInv
      <3>3. ~Changed(r)'
        BY <3>2 DEF Changed
      <3> QED BY <1>2, <2>0, <3>1, <3>3 DEF RecordInv
    <2>2. CASE Admit(r)
      <3>1. pc'[r] \in {"put", "look"} /\ answer'[r] = answer[r] /\ audit'[r] = audit[r]
        BY <2>2 DEF Admit, Start, Goto, TypeOK
      <3> QED BY <1>2, <2>0, <3>1 DEF RecordInv
    <2>3. CASE ~Refuse(r) /\ ~Admit(r)
      <3>1. \/ pc'[r] = "done" /\ answer'[r] \in Good /\ audit'[r] = Append(<<>>, "ok")
            \/ pc'[r] = "done" /\ answer'[r] \in Bad /\ audit'[r] = Append(<<>>, "failed")
            \/ /\ pc'[r] \in {pc[r], "look", "make", "look_again", "put", "delete"}
               /\ answer'[r] = "none" /\ audit'[r] = <<>>
        BY <2>0, <2>3, StepOutcome, OutcomeType DEF Recorded
      <3>2. Append(<<>>, "ok") = <<"ok">> /\ Append(<<>>, "failed") = <<"failed">>
        OBVIOUS
      <3>3. pc[r] = "admit" => ~Changed(r)'
        <4>1. pc[r] = "admit" => ~Changed(r) /\ UNCHANGED <<made, removed>>
          BY <1>2, StepChanges DEF RecordInv
        <4> QED BY <4>1 DEF Changed
      <3>4. CASE pc'[r] = "done"
        BY <1>2, <2>0, <3>1, <3>2, <3>4 DEF RecordInv
      <3>5. CASE pc'[r] # "done"
        BY <1>2, <2>0, <3>1, <3>3, <3>5 DEF RecordInv
      <3> QED BY <3>4, <3>5
    <2> QED BY <2>1, <2>2, <2>3
  <1> QED BY <1>1, <1>2

-----------------------------------------------------------------------------
(* A request that does not move keeps what it knows.                       *)

\* What a request claims.
ClaimInv(r) ==
    /\ AnswerWasTrue(r)
    /\ answer[r] = "created" => <<r, target[r]>> \in made

SelfInv(r) == ControlInv(r) /\ SightInv(r) /\ ClaimInv(r)

\* It only sees more.
LEMMA Unmoved ==
  ASSUME TypeOK, Evolves, NEW r \in Requests, SelfInv(r), WatchInv(r), RecordInv(r),
         UNCHANGED <<operation, target>>, made \subseteq made',
         pc'[r] = pc[r], depth'[r] = depth[r], answer'[r] = answer[r]
  PROVE  SelfInv(r)' /\ WatchInv(r)'
  <1>1. CASE ~Running(r)
    <2>1. seen'[r] = seen[r] /\ ~Running(r)'
      BY <1>1, EvolveWatch DEF Running
    <2>2. Lineage(r)' = Lineage(r) /\ Wanted(r)' = Wanted(r)
      BY DEF Lineage, Wanted
    <2>3. AnswerWasTrue(r)'
      BY <2>1, <2>2 DEF SelfInv, ClaimInv, AnswerWasTrue
    <2> QED BY <2>1, <2>3 DEF SelfInv, ClaimInv, ControlInv, SightInv, WatchInv, Running
  <1>2. CASE Running(r)
    <2>1. Running(r)' /\ \A p \in Paths :
             /\ seen[r][p] \subseteq seen'[r][p] /\ tree'[p] \in seen'[r][p]
             /\ {"file", "directory"} \subseteq seen'[r][p] => "none" \in seen'[r][p]
      BY <1>2, EvolveWatch DEF Running
    <2>2. answer'[r] = "none"
      BY <1>2 DEF RecordInv, Running
    <2>3. ControlInv(r)'
      BY DEF SelfInv, ControlInv, Running
    <2>4. /\ target[r] \in Paths /\ Here(r) \in Paths /\ Here(r)' = Here(r)
          /\ depth[r] \in 1 .. Len(target[r]) /\ Len(target[r]) \in Nat
      BY <1>2, HereLevels, PathLevels DEF SelfInv, ControlInv, Here
    <2>5. \A n \in 1 .. depth[r] - 1 : SubSeq(target[r], 1, n) \in Paths
      BY <2>4, PathLevels
    <2>6. Len(target[r]) > 1 => Front(target[r]) \in Paths
      BY <2>4, PathAssumption DEF Front
    <2>7. SightInv(r)'
      <3>1. ASSUME operation[r] = "create_directory", NEW n \in 1 .. depth[r] - 1
            PROVE  "directory" \in seen'[r][SubSeq(target[r], 1, n)]
        BY <1>2, <2>1, <2>5, <3>1 DEF SelfInv, SightInv
      <3>2. Wanted(r)' = Wanted(r)
        BY DEF Wanted
      <3> QED BY <2>1, <2>4, <2>6, <3>1, <3>2 DEF SelfInv, SightInv
    <2>8. ClaimInv(r)'
      BY <2>2 DEF ClaimInv, AnswerWasTrue
    <2> QED BY <2>1, <2>3, <2>7, <2>8 DEF SelfInv, WatchInv
  <1> QED BY <1>1, <1>2

-----------------------------------------------------------------------------
(* A request that moves.                                                   *)

\* What a running request has seen once the tree has evolved.
LEMMA NowSeen ==
  ASSUME TypeOK, Evolves, NEW r \in Requests, SelfInv(r), WatchInv(r), Running(r)
  PROVE  /\ \A p \in Paths :
               /\ seen[r][p] \subseteq seen'[r][p]
               /\ tree[p] \in seen'[r][p] /\ tree'[p] \in seen'[r][p]
               /\ {"file", "directory"} \subseteq seen'[r][p] => "none" \in seen'[r][p]
         /\ WatchInv(r)'
  <1>1. \A p \in Paths :
               /\ seen[r][p] \subseteq seen'[r][p] /\ tree'[p] \in seen'[r][p]
               /\ {"file", "directory"} \subseteq seen'[r][p] => "none" \in seen'[r][p]
    BY EvolveWatch
  <1>2. \A p \in Paths : tree[p] \in seen[r][p]
    BY DEF WatchInv
  <1> QED BY <1>1, <1>2 DEF WatchInv

\* An error is claimed truly.
FailTrue(r, result) ==
    /\ result = "not_found" => \E p \in Lineage(r) : "none" \in seen'[r][p]
    /\ result = "conflict" =>
          \/ \E p \in Lineage(r) : "file" \in seen'[r][p]
                                   \/ {"none", "directory"} \subseteq seen'[r][p]
          \/ operation[r] = "write_file" /\ "directory" \in seen'[r][target[r]]
    /\ result = "bad_request" /\ target[r] # <<>> =>
          CASE operation[r] = "create_directory" -> \E p \in Lineage(r) : "file" \in seen'[r][p]
            [] operation[r] = "write_file" ->
                 "directory" \in seen'[r][target[r]]
                 \/ \E p \in Lineage(r) \ {target[r]} : "file" \in seen'[r][p]
            [] OTHER -> seen'[r][target[r]] \ {"none", Wanted(r)} # {}

\* A request that fails for a true reason keeps its part of the invariant.
LEMMA FailInv ==
  ASSUME TypeOK, NEW r \in Requests, NEW result \in Bad, Fail(r, result),
         UNCHANGED <<operation, target>>, FailTrue(r, result)
  PROVE  SelfInv(r)'
  <1>1. pc'[r] = "done" /\ answer'[r] = result
    BY DEF Fail, Answer, Goto, TypeOK
  <1>2. Lineage(r)' = Lineage(r) /\ Wanted(r)' = Wanted(r)
    BY DEF Lineage, Wanted
  <1>3. ClaimInv(r)'
    BY <1>1, <1>2 DEF ClaimInv, AnswerWasTrue, FailTrue, Bad
  <1> QED BY <1>1, <1>3 DEF SelfInv, ControlInv, SightInv, Running

\* A request that succeeds, and what it saw then.
SuccessTrue(r, result) ==
    /\ result \in {"created", "existed"} => \A p \in Lineage(r) : "directory" \in seen'[r][p]
    /\ result = "created" => <<r, target[r]>> \in made'
    /\ result = "written" =>
          \A p \in Lineage(r) :
              (IF p = target[r] THEN "file" ELSE "directory") \in seen'[r][p]
    /\ result = "deleted" => "none" \in seen'[r][target[r]]

\* A request that succeeds truly keeps its part of the invariant.
LEMMA SuccessInv ==
  ASSUME TypeOK, NEW r \in Requests, NEW result \in Good, Succeed(r, result),
         UNCHANGED <<operation, target>>, SuccessTrue(r, result)
  PROVE  SelfInv(r)'
  <1>1. pc'[r] = "done" /\ answer'[r] = result
    BY DEF Succeed, Answer, Goto, TypeOK
  <1>2. Lineage(r)' = Lineage(r)
    BY DEF Lineage
  <1>3. ClaimInv(r)'
    BY <1>1, <1>2 DEF ClaimInv, AnswerWasTrue, SuccessTrue, Good
  <1> QED BY <1>1, <1>3 DEF SelfInv, ControlInv, SightInv, Running

\* A folder's level that is there completes the levels above it.
LEMMA NextLevelInv ==
  ASSUME TypeOK, Evolves, NEW r \in Requests, SelfInv(r), WatchInv(r), RecordInv(r),
         Running(r), operation[r] = "create_directory", UNCHANGED <<operation, target>>,
         NEW created \in BOOLEAN, NextLevel(r, created),
         "directory" \in seen'[r][Here(r)], created => <<r, Here(r)>> \in made'
  PROVE  SelfInv(r)'
  <1>0. /\ target[r] \in Paths /\ depth[r] \in 1 .. Len(target[r])
        /\ Len(target[r]) \in Nat \ {0}
    BY PathLevels DEF SelfInv, ControlInv
  <1>1. ASSUME NEW n \in 1 .. depth[r]
        PROVE  "directory" \in seen'[r][SubSeq(target[r], 1, n)]
    <2>1. CASE n = depth[r]
      BY <2>1 DEF Here
    <2>2. CASE n # depth[r]
      <3>1. n \in 1 .. depth[r] - 1 /\ n \in 1 .. Len(target[r])
        BY <1>0, <2>2
      <3>2. SubSeq(target[r], 1, n) \in Paths
        BY <1>0, <3>1, PathLevels
      <3>3. "directory" \in seen[r][SubSeq(target[r], 1, n)]
        BY <3>1 DEF SelfInv, SightInv
      <3> QED BY <3>2, <3>3, NowSeen
    <2> QED BY <2>1, <2>2
  <1>2. CASE depth[r] = Len(target[r])
    <2>1. ASSUME NEW p \in Lineage(r) PROVE "directory" \in seen'[r][p]
      <3>1. Len(p) \in 1 .. depth[r] /\ p = SubSeq(target[r], 1, Len(p))
        BY <1>0, <1>2, PathLevels DEF Lineage
      <3> QED BY <1>1, <3>1
    <2>2. Here(r) = target[r]
      BY <1>0, <1>2, PathLevels DEF Here
    <2>3. CASE created
      <3>1. Succeed(r, "created")
        BY <1>2, <2>3 DEF NextLevel
      <3>2. SuccessTrue(r, "created")
        BY <2>1, <2>2, <2>3 DEF SuccessTrue
      <3> QED BY <3>1, <3>2, SuccessInv DEF Good
    <2>4. CASE ~created
      <3>1. Succeed(r, "existed")
        BY <1>2, <2>4 DEF NextLevel
      <3>2. SuccessTrue(r, "existed")
        BY <2>1 DEF SuccessTrue
      <3> QED BY <3>1, <3>2, SuccessInv DEF Good
    <2> QED BY <2>3, <2>4
  <1>3. CASE depth[r] # Len(target[r])
    <2>1. pc'[r] = "look" /\ depth'[r] = depth[r] + 1 /\ answer'[r] = answer[r]
      BY <1>3 DEF NextLevel, Goto, TypeOK
    <2>2. answer'[r] = "none"
      BY <2>1 DEF RecordInv, Running
    <2>3. depth'[r] \in 1 .. Len(target[r]) /\ depth'[r] - 1 = depth[r]
      BY <1>0, <1>3, <2>1
    <2>4. ControlInv(r)'
      BY <1>0, <2>1, <2>3 DEF ControlInv, Deletes
    <2>5. SightInv(r)'
      BY <1>1, <2>1, <2>3 DEF SightInv
    <2>6. ClaimInv(r)'
      BY <2>2 DEF ClaimInv, AnswerWasTrue
    <2> QED BY <2>4, <2>5, <2>6 DEF SelfInv
  <1> QED BY <1>2, <1>3

\* The admission: the request begins to watch.
LEMMA AdmitInv ==
  ASSUME TypeOK, NEW r \in Requests, RecordInv(r), Admit(r)
  PROVE  SelfInv(r)' /\ WatchInv(r)'
  <1>1. /\ UNCHANGED <<operation, target, tree>> /\ target[r] \in Paths
        /\ seen'[r] = [p \in Paths |-> {tree[p]}]
        /\ pc'[r] = (IF operation[r] = "write_file" /\ Len(target[r]) - 1 = 0
                     THEN "put" ELSE "look")
        /\ depth'[r] = (CASE operation[r] = "create_directory" -> 1
                          [] operation[r] = "write_file" /\ Len(target[r]) - 1 > 0 ->
                                Len(target[r]) - 1
                          [] OTHER -> Len(target[r]))
        /\ answer'[r] = "none"
    BY DEF Admit, Start, Goto, TypeOK, inputs, RecordInv
  <1>2. Len(target[r]) \in Nat \ {0}
    BY <1>1, PathLevels
  <1>3. ControlInv(r)'
    <2>1. CASE operation[r] = "create_directory"
      BY <1>1, <1>2, <2>1 DEF ControlInv, Deletes
    <2>2. CASE operation[r] = "write_file"
      <3>1. CASE Len(target[r]) = 1
        <4>1. pc'[r] = "put" /\ depth'[r] = Len(target[r])
          BY <1>1, <2>2, <3>1
        <4> QED BY <1>1, <2>2, <3>1, <4>1 DEF ControlInv, Deletes
      <3>2. CASE Len(target[r]) # 1
        <4>0. \A n \in Nat \ {0} : n # 1 => n - 1 # 0 /\ n - 1 > 0 /\ n - 1 \in 1 .. n
          OBVIOUS
        <4>1. pc'[r] = "look" /\ depth'[r] = Len(target[r]) - 1
          BY <1>1, <1>2, <2>2, <3>2, <4>0
        <4>2. depth'[r] \in 1 .. Len(target[r])
          BY <1>2, <3>2, <4>0, <4>1
        <4> QED BY <1>1, <2>2, <4>1, <4>2 DEF ControlInv, Deletes
      <3> QED BY <3>1, <3>2
    <2>3. CASE operation[r] \in Deletes
      BY <1>1, <1>2, <2>3 DEF ControlInv, Deletes
    <2> QED BY <2>1, <2>2, <2>3 DEF TypeOK, Operations, Deletes
  <1>4. SightInv(r)'
    <2>1. operation[r] = "create_directory" => 1 .. depth'[r] - 1 = {}
      BY <1>1
    <2>2. pc'[r] = "put" => ~(Len(target[r]) > 1)
      <3>1. pc'[r] = "put" => Len(target[r]) - 1 = 0
        BY <1>1
      <3>2. \A n \in Nat : n - 1 = 0 => ~(n > 1)
        OBVIOUS
      <3> QED BY <1>2, <3>1, <3>2
    <2>3. pc'[r] \in {"put", "look"} /\ UNCHANGED <<operation, target>>
      BY <1>1
    <2> QED BY <2>1, <2>2, <2>3 DEF SightInv
  <1>5. ClaimInv(r)'
    BY <1>1 DEF ClaimInv, AnswerWasTrue
  <1>6. WatchInv(r)'
    BY <1>1 DEF WatchInv, TypeOK
  <1> QED BY <1>3, <1>4, <1>5, <1>6 DEF SelfInv

\* A request that goes on to a call about the same item.
LEMMA AdvanceInv ==
  ASSUME TypeOK, Evolves, NEW r \in Requests, SelfInv(r), WatchInv(r), RecordInv(r), Running(r),
         NEW step \in {"make", "look_again", "delete"}, Goto(r, step),
         UNCHANGED <<operation, target, depth, answer>>,
         step \in {"make", "look_again"} =>
            operation[r] = "create_directory" /\ "none" \in seen'[r][Here(r)],
         step = "look_again" => seen'[r][Here(r)] \cap {"file", "directory"} # {},
         step = "delete" => operation[r] \in Deletes /\ Wanted(r) \in seen'[r][Here(r)]
  PROVE  SelfInv(r)'
  <1>1. pc'[r] = step
    BY DEF Goto, TypeOK
  <1>2. /\ target[r] \in Paths /\ depth[r] \in 1 .. Len(target[r])
        /\ Len(target[r]) \in Nat
        /\ Here(r)' = Here(r) /\ Wanted(r)' = Wanted(r)
        /\ depth[r] = Len(target[r]) => Here(r) = target[r]
    BY HereLevels, PathLevels DEF SelfInv, ControlInv, Here, Wanted
  <1>3. answer'[r] = "none"
    BY DEF RecordInv, Running
  <1>4. ControlInv(r)'
    BY <1>1, <1>2 DEF SelfInv, ControlInv, Running, Deletes
  <1>5. SightInv(r)'
    <2>1. ASSUME operation[r] = "create_directory", NEW n \in 1 .. depth[r] - 1
          PROVE  "directory" \in seen'[r][SubSeq(target[r], 1, n)]
      <3>1. n \in 1 .. Len(target[r])
        BY <1>2
      <3>2. SubSeq(target[r], 1, n) \in Paths
        BY <1>2, <3>1, PathLevels
      <3>3. "directory" \in seen[r][SubSeq(target[r], 1, n)]
        BY <2>1 DEF SelfInv, SightInv
      <3> QED BY <3>2, <3>3, NowSeen
    <2>2. step = "delete" => depth[r] = Len(target[r])
      BY DEF SelfInv, ControlInv
    <2> QED BY <1>1, <1>2, <2>1, <2>2 DEF SightInv
  <1>6. ClaimInv(r)'
    BY <1>3 DEF ClaimInv, AnswerWasTrue
  <1> QED BY <1>4, <1>5, <1>6 DEF SelfInv

\* create_directory.
LEMMA CreateInv ==
  ASSUME TypeOK, Evolves, NEW r \in Requests, SelfInv(r), WatchInv(r), RecordInv(r),
         UNCHANGED <<operation, target>>,
         LookToCreate(r) \/ MakeDirectory(r) \/ MakeNowhere(r) \/ MakeTaken(r) \/ LookAgain(r)
  PROVE  SelfInv(r)'
  <1>1. Running(r) /\ operation[r] = "create_directory"
    BY DEF LookToCreate, MakeDirectory, MakeNowhere, MakeTaken, LookAgain, Running, SelfInv,
           ControlInv
  <1>2. /\ target[r] \in Paths /\ Here(r) \in Paths /\ Here(r) \in Lineage(r)
        /\ Len(Here(r)) > 1 => Front(Here(r)) \in Paths /\ Front(Here(r)) \in Lineage(r)
        /\ target[r] # <<>>
    BY <1>1, HereLevels, PathLevels DEF SelfInv, Lineage
  <1>3. \A p \in Paths : /\ seen[r][p] \subseteq seen'[r][p]
                         /\ tree[p] \in seen'[r][p] /\ tree'[p] \in seen'[r][p]
    BY <1>1, NowSeen
  <1>4. tree[Here(r)] \in Kinds
    BY <1>2 DEF TypeOK
  <1>5. CASE LookToCreate(r)
    <2>1. CASE tree[Here(r)] = "directory" /\ NextLevel(r, FALSE)
      BY <1>1, <1>2, <1>3, <2>1, NextLevelInv
    <2>2. CASE tree[Here(r)] = "file" /\ Fail(r, "conflict")
      <3>1. FailTrue(r, "conflict")
        BY <1>2, <1>3, <2>2 DEF FailTrue
      <3> QED BY <2>2, <3>1, FailInv DEF Bad
    <2>3. CASE tree[Here(r)] = "none" /\ Goto(r, "make") /\ UNCHANGED <<depth, answer>>
      BY <1>1, <1>2, <1>3, <2>3, AdvanceInv
    <2> QED BY <1>5, <2>1, <2>2, <2>3 DEF LookToCreate
  <1>6. CASE MakeDirectory(r)
    <2>1. tree' = [tree EXCEPT ![Here(r)] = "directory"] /\ made' = made \cup {<<r, Here(r)>>}
      BY <1>6 DEF MakeDirectory
    <2>2. "directory" \in seen'[r][Here(r)] /\ <<r, Here(r)>> \in made' /\ made \subseteq made'
      BY <1>2, <1>3, <2>1 DEF TypeOK
    <2>3. CASE NextLevel(r, TRUE)
      BY <1>1, <2>2, <2>3, NextLevelInv
    <2>4. CASE Retry(r)
      BY <2>2, <2>4, Unmoved DEF Retry
    <2>5. CASE Fail(r, "upstream")
      <3>1. FailTrue(r, "upstream")
        BY DEF FailTrue
      <3> QED BY <2>5, <3>1, FailInv DEF Bad
    <2> QED BY <1>6, <2>3, <2>4, <2>5 DEF MakeDirectory
  <1>7. CASE MakeNowhere(r)
    <2>1. Len(Here(r)) > 1 /\ pc[r] = "make"
      BY <1>7 DEF MakeNowhere, Placed
    <2>2. CASE Fail(r, "not_found")
      <3>1. "none" \in seen'[r][Here(r)]
        BY <1>2, <1>3, <2>1 DEF SelfInv, SightInv
      <3>2. FailTrue(r, "not_found")
        BY <1>2, <3>1 DEF FailTrue
      <3> QED BY <2>2, <3>2, FailInv DEF Bad
    <2>3. CASE tree[Front(Here(r))] = "file" /\ Fail(r, "bad_request")
      <3>1. "file" \in seen'[r][Front(Here(r))]
        BY <1>2, <1>3, <2>1, <2>3
      <3>2. FailTrue(r, "bad_request")
        BY <1>1, <1>2, <2>1, <3>1 DEF FailTrue
      <3> QED BY <2>3, <3>2, FailInv DEF Bad
    <2> QED BY <1>7, <2>2, <2>3 DEF MakeNowhere
  <1>8. CASE MakeTaken(r)
    <2>1. /\ pc[r] = "make" /\ tree[Here(r)] # "none" /\ Goto(r, "look_again")
          /\ UNCHANGED <<depth, answer>>
      BY <1>8 DEF MakeTaken
    <2>2. "none" \in seen'[r][Here(r)] /\ seen'[r][Here(r)] \cap {"file", "directory"} # {}
      BY <1>2, <1>3, <1>4, <2>1 DEF SelfInv, SightInv, Kinds
    <2> QED BY <1>1, <2>1, <2>2, AdvanceInv
  <1>9. CASE LookAgain(r)
    <2>1. CASE tree[Here(r)] = "directory" /\ NextLevel(r, FALSE)
      BY <1>1, <1>2, <1>3, <2>1, NextLevelInv
    <2>2. CASE Fail(r, "conflict")
      <3>1. "none" \in seen[r][Here(r)] /\ seen[r][Here(r)] \cap {"file", "directory"} # {}
        BY <1>9 DEF LookAgain, SelfInv, SightInv
      <3>2. \/ "file" \in seen'[r][Here(r)]
            \/ {"none", "directory"} \subseteq seen'[r][Here(r)]
        BY <1>2, <1>3, <3>1
      <3>3. FailTrue(r, "conflict")
        BY <1>2, <3>2 DEF FailTrue
      <3> QED BY <2>2, <3>3, FailInv DEF Bad
    <2> QED BY <1>9, <2>1, <2>2 DEF LookAgain
  <1> QED BY <1>5, <1>6, <1>7, <1>8, <1>9

\* write_file.
LEMMA WriteInv ==
  ASSUME TypeOK, Evolves, NEW r \in Requests, SelfInv(r), WatchInv(r), RecordInv(r),
         UNCHANGED <<operation, target>>,
         LookAtParent(r) \/ PutFile(r) \/ PutNowhere(r)
  PROVE  SelfInv(r)'
  <1>1. Running(r) /\ operation[r] = "write_file"
    BY DEF LookAtParent, PutFile, PutNowhere, Running, SelfInv, ControlInv
  <1>2. /\ target[r] \in Paths /\ target[r] \in Lineage(r) /\ target[r] # <<>>
        /\ Here(r) \in Paths /\ Here(r) \in Lineage(r)
        /\ depth[r] \in 1 .. Len(target[r]) /\ Len(target[r]) \in Nat
    BY <1>1, HereLevels, PathLevels DEF SelfInv, ControlInv
  <1>3. \A p \in Paths : /\ seen[r][p] \subseteq seen'[r][p]
                         /\ tree[p] \in seen'[r][p] /\ tree'[p] \in seen'[r][p]
                         /\ {"file", "directory"} \subseteq seen'[r][p] => "none" \in seen'[r][p]
    BY <1>1, NowSeen
  <1>4. CASE LookAtParent(r)
    <2>1. pc[r] = "look" /\ depth[r] = Len(target[r]) - 1 /\ Here(r) = Front(target[r])
      BY <1>1, <1>4 DEF LookAtParent, SelfInv, ControlInv, Here, Front
    <2>2. CASE tree[Here(r)] = "none" /\ Fail(r, "not_found")
      <3>1. FailTrue(r, "not_found")
        BY <1>2, <1>3, <2>2 DEF FailTrue
      <3> QED BY <2>2, <3>1, FailInv DEF Bad
    <2>3. CASE tree[Here(r)] = "file" /\ Fail(r, "conflict")
      <3>1. FailTrue(r, "conflict")
        BY <1>2, <1>3, <2>3 DEF FailTrue
      <3> QED BY <2>3, <3>1, FailInv DEF Bad
    <2>4. CASE /\ tree[Here(r)] = "directory" /\ Goto(r, "put")
               /\ depth' = [depth EXCEPT ![r] = Len(target[r])] /\ UNCHANGED answer
      <3>1. pc'[r] = "put" /\ depth'[r] = Len(target[r]) /\ answer'[r] = "none"
        BY <1>1, <2>4 DEF Goto, TypeOK, RecordInv, Running
      <3>2. "directory" \in seen'[r][Front(target[r])]
        BY <1>2, <1>3, <2>1, <2>4
      <3>3. Len(target[r]) \in 1 .. Len(target[r])
        BY <1>2
      <3>4. ControlInv(r)'
        BY <1>1, <1>2, <3>1, <3>3 DEF ControlInv, Deletes
      <3>5. SightInv(r)'
        BY <1>1, <3>1, <3>2 DEF SightInv
      <3>6. ClaimInv(r)'
        BY <3>1 DEF ClaimInv, AnswerWasTrue
      <3> QED BY <3>4, <3>5, <3>6 DEF SelfInv
    <2> QED BY <1>4, <2>2, <2>3, <2>4 DEF LookAtParent
  <1>5. CASE PutFile(r)
    <2>1. /\ \A p \in Paths : tree'[p] = IF p = target[r] THEN "file"
                                         ELSE IF IsPrefix(p, target[r]) THEN "directory"
                                         ELSE tree[p]
          /\ made \subseteq made'
      BY <1>5 DEF PutFile
    <2>2. CASE Succeed(r, "written")
      <3>1. SuccessTrue(r, "written")
        BY <1>3, <2>1 DEF SuccessTrue, Lineage
      <3> QED BY <2>2, <3>1, SuccessInv DEF Good
    <2>3. CASE Retry(r)
      BY <2>1, <2>3, Unmoved DEF Retry
    <2>4. CASE Fail(r, "upstream")
      <3>1. FailTrue(r, "upstream")
        BY DEF FailTrue
      <3> QED BY <2>4, <3>1, FailInv DEF Bad
    <2> QED BY <1>5, <2>2, <2>3, <2>4 DEF PutFile
  <1>6. CASE PutNowhere(r)
    <2>1. pc[r] = "put" /\ depth[r] = Len(target[r])
      BY <1>6 DEF PutNowhere, SelfInv, ControlInv
    <2>2. CASE ~Placed(tree, target[r]) /\ Fail(r, "not_found")
      <3>1. Len(target[r]) > 1 /\ tree[Front(target[r])] # "directory"
        BY <2>2 DEF Placed
      <3>2. Here(r) = target[r]
        BY <1>1, <2>1, HereLevels DEF SelfInv
      <3>3. Front(target[r]) \in Lineage(r) /\ Front(target[r]) \in Paths
        BY <1>1, <3>1, <3>2, HereLevels DEF SelfInv, Lineage
      <3>4. "directory" \in seen'[r][Front(target[r])]
        BY <1>3, <2>1, <3>1, <3>3 DEF SelfInv, SightInv
      <3>5. "none" \in seen'[r][Front(target[r])]
        BY <1>3, <3>1, <3>3, <3>4 DEF TypeOK, Kinds
      <3>6. FailTrue(r, "not_found")
        BY <3>3, <3>5 DEF FailTrue
      <3> QED BY <2>2, <3>6, FailInv DEF Bad
    <2>3. ASSUME \/ tree[target[r]] = "directory"
                 \/ \E p \in Paths : IsStrictPrefix(p, target[r]) /\ tree[p] = "file"
          PROVE  FailTrue(r, "conflict") /\ FailTrue(r, "bad_request")
      <3>1. \/ "directory" \in seen'[r][target[r]]
            \/ \E p \in Lineage(r) \ {target[r]} : "file" \in seen'[r][p]
        BY <1>2, <1>3, <2>3 DEF Lineage, IsStrictPrefix
      <3> QED BY <1>1, <3>1 DEF FailTrue
    <2>4. CASE /\ \/ tree[target[r]] = "directory"
                  \/ \E p \in Paths : IsStrictPrefix(p, target[r]) /\ tree[p] = "file"
               /\ Fail(r, "conflict") \/ Fail(r, "bad_request")
      BY <2>3, <2>4, FailInv DEF Bad
    <2> QED BY <1>6, <2>2, <2>4 DEF PutNowhere
  <1> QED BY <1>4, <1>5, <1>6

\* delete_file and delete_directory.
LEMMA DeleteInv ==
  ASSUME TypeOK, Evolves, NEW r \in Requests, SelfInv(r), WatchInv(r), RecordInv(r),
         UNCHANGED <<operation, target>>, made \subseteq made',
         LookToDelete(r) \/ Delete(r) \/ DeleteNothing(r)
  PROVE  SelfInv(r)'
  <1>1. Running(r) /\ operation[r] \in Deletes
    BY DEF LookToDelete, Delete, DeleteNothing, Running, SelfInv, ControlInv, Deletes
  <1>2. /\ target[r] \in Paths /\ target[r] \in Lineage(r) /\ Here(r) = target[r]
    BY <1>1, HereLevels DEF SelfInv, ControlInv
  <1>3. \A p \in Paths : tree[p] \in seen'[r][p] /\ tree'[p] \in seen'[r][p]
    BY <1>1, NowSeen
  <1>4. CASE LookToDelete(r)
    <2>1. CASE tree[Here(r)] = "none" /\ Fail(r, "not_found")
      <3>1. FailTrue(r, "not_found")
        BY <1>2, <1>3, <2>1 DEF FailTrue
      <3> QED BY <2>1, <3>1, FailInv DEF Bad
    <2>2. CASE tree[Here(r)] \notin {"none", Wanted(r)} /\ Fail(r, "bad_request")
      <3>1. FailTrue(r, "bad_request")
        BY <1>1, <1>2, <1>3, <2>2 DEF FailTrue, Deletes
      <3> QED BY <2>2, <3>1, FailInv DEF Bad
    <2>3. CASE /\ tree[Here(r)] = Wanted(r) /\ Goto(r, "delete")
               /\ UNCHANGED <<depth, tries, answer, audit>>
      <3>1. Wanted(r) \in seen'[r][Here(r)]
        BY <1>2, <1>3, <2>3
      <3> QED BY <1>1, <2>3, <3>1, AdvanceInv
    <2> QED BY <1>4, <2>1, <2>2, <2>3 DEF LookToDelete
  <1>5. CASE Delete(r)
    <2>1. tree'[target[r]] = "none"
      BY <1>2, <1>5, PathLevels DEF Delete, Without
    <2>2. CASE Succeed(r, "deleted")
      <3>1. SuccessTrue(r, "deleted")
        BY <1>2, <1>3, <2>1 DEF SuccessTrue
      <3> QED BY <2>2, <3>1, SuccessInv DEF Good
    <2>3. CASE Retry(r)
      BY <2>3, Unmoved DEF Retry
    <2>4. CASE Fail(r, "upstream")
      <3>1. FailTrue(r, "upstream")
        BY DEF FailTrue
      <3> QED BY <2>4, <3>1, FailInv DEF Bad
    <2> QED BY <1>5, <2>2, <2>3, <2>4 DEF Delete
  <1>6. CASE DeleteNothing(r)
    <2>1. FailTrue(r, "not_found")
      BY <1>2, <1>3, <1>6 DEF FailTrue, DeleteNothing
    <2> QED BY <1>6, <2>1, FailInv DEF Bad, DeleteNothing
  <1> QED BY <1>4, <1>5, <1>6

\* The request that takes a step.
LEMMA StepSelf ==
  ASSUME TypeOK, NEW r \in Requests, SelfInv(r), WatchInv(r), RecordInv(r), Step(r)
  PROVE  SelfInv(r)' /\ WatchInv(r)'
  <1>1. UNCHANGED <<operation, target>> /\ made \subseteq made'
    BY StepIsLocal, StepChanges DEF SelfInv
  <1>2. CASE Admit(r)
    BY <1>2, AdmitInv
  <1>3. CASE Refuse(r)
    <2>1. pc'[r] = "done" /\ answer'[r] = "forbidden"
      BY <1>3 DEF Refuse, Answer, Goto, TypeOK
    <2> QED BY <2>1 DEF SelfInv, ControlInv, SightInv, ClaimInv, AnswerWasTrue, WatchInv, Running
  <1>4. CASE RefuseRoot(r)
    <2>1. Fail(r, "bad_request") /\ target[r] = <<>>
      BY <1>4 DEF RefuseRoot
    <2>2. FailTrue(r, "bad_request")
      BY <2>1 DEF FailTrue
    <2>3. SelfInv(r)'
      BY <1>1, <2>1, <2>2, FailInv DEF Bad
    <2>4. pc'[r] = "done"
      BY <2>1 DEF Fail, Answer, Goto, TypeOK
    <2> QED BY <2>3, <2>4 DEF WatchInv, Running
  <1>5. CASE ~Admit(r) /\ ~Refuse(r) /\ ~RefuseRoot(r)
    <2>1. Running(r)
      BY <1>5 DEF Step, Running, LookToCreate, MakeDirectory, MakeNowhere, MakeTaken,
         LookAgain, LookAtParent, PutFile, PutNowhere, LookToDelete, Delete, DeleteNothing,
         Throttled, CallFails
    <2>2. Evolves
      BY <2>1, StepTree DEF SelfInv, Running
    <2>3. WatchInv(r)'
      BY <2>1, <2>2, NowSeen
    <2>4. CASE LookToCreate(r) \/ MakeDirectory(r) \/ MakeNowhere(r) \/ MakeTaken(r)
               \/ LookAgain(r)
      BY <1>1, <2>2, <2>3, <2>4, CreateInv
    <2>5. CASE LookAtParent(r) \/ PutFile(r) \/ PutNowhere(r)
      BY <1>1, <2>2, <2>3, <2>5, WriteInv
    <2>6. CASE LookToDelete(r) \/ Delete(r) \/ DeleteNothing(r)
      BY <1>1, <2>2, <2>3, <2>6, DeleteInv
    <2>7. CASE Throttled(r)
      BY <1>1, <2>2, <2>7, Unmoved DEF Throttled, Retry
    <2>8. CASE CallFails(r)
      <3>1. FailTrue(r, "upstream")
        BY DEF FailTrue
      <3> QED BY <1>1, <2>3, <2>8, <3>1, FailInv DEF CallFails, Bad
    <2> QED BY <1>5, <2>4, <2>5, <2>6, <2>7, <2>8 DEF Step
  <1> QED BY <1>2, <1>3, <1>4, <1>5

\* The other requests.
LEMMA StepOthers ==
  ASSUME TypeOK, NEW r \in Requests, ControlInv(r), Step(r),
         NEW s \in Requests, s # r, SelfInv(s), WatchInv(s), RecordInv(s)
  PROVE  SelfInv(s)' /\ WatchInv(s)'
  <1>1. /\ UNCHANGED <<operation, target>> /\ made \subseteq made'
        /\ pc'[s] = pc[s] /\ depth'[s] = depth[s] /\ answer'[s] = answer[s]
    BY StepIsLocal, StepChanges
  <1>2. CASE Evolves
    BY <1>1, <1>2, Unmoved
  <1>3. CASE ~Evolves
    <2>1. tree' = tree /\ seen' = [seen EXCEPT ![r] = [p \in Paths |-> {tree[p]}]]
      BY <1>3, StepTree
    <2>2. seen'[s] = seen[s]
      BY <2>1 DEF TypeOK
    <2>3. /\ Here(s)' = Here(s) /\ Lineage(s)' = Lineage(s) /\ Wanted(s)' = Wanted(s)
          /\ Running(s)' <=> Running(s)
      BY <1>1 DEF Here, Lineage, Wanted, Running
    <2>4. ControlInv(s)' /\ SightInv(s)'
      BY <1>1, <2>2, <2>3 DEF SelfInv, ControlInv, SightInv
    <2>5. ClaimInv(s)'
      BY <1>1, <2>2, <2>3 DEF SelfInv, ClaimInv, AnswerWasTrue
    <2>6. WatchInv(s)'
      BY <2>1, <2>2, <2>3 DEF WatchInv
    <2> QED BY <2>4, <2>5, <2>6 DEF SelfInv
  <1> QED BY <1>2, <1>3

-----------------------------------------------------------------------------
(* What requests deleted.                                                  *)

\* A delete of the wrong kind needs a swap.
SwapInv(r) ==
    \A kind \in Kinds \ {Wanted(r)} :
        <<r, kind>> \in removed => {"none", Wanted(r), kind} \subseteq seen[r][target[r]]

\* Seeing more, and deleting nothing, changes nothing of that.
LEMMA SwapKept ==
  ASSUME TypeOK, Evolves, NEW r \in Requests, SelfInv(r), WatchInv(r), RecordInv(r), SwapInv(r),
         UNCHANGED <<operation, target>>,
         \A kind \in Kinds : <<r, kind>> \in removed' => <<r, kind>> \in removed
  PROVE  SwapInv(r)'
  <1>1. Wanted(r)' = Wanted(r)
    BY DEF Wanted
  <1>2. CASE ~Running(r)
    BY <1>1, <1>2, EvolveWatch DEF SwapInv
  <1>3. CASE Running(r)
    <2>1. target[r] \in Paths
      BY <1>3 DEF SelfInv, ControlInv
    <2>2. seen[r][target[r]] \subseteq seen'[r][target[r]]
      BY <1>3, <2>1, NowSeen
    <2> QED BY <1>1, <2>2 DEF SwapInv
  <1> QED BY <1>2, <1>3

\* A step keeps it: what a DELETE finds was seen, and so was what it was sent for.
LEMMA StepSwap ==
  ASSUME TypeOK, NEW r \in Requests, SelfInv(r), Step(r), NEW s \in Requests,
         SelfInv(s), WatchInv(s), RecordInv(s), SwapInv(s)
  PROVE  SwapInv(s)'
  <1>1. /\ UNCHANGED <<operation, target>>
        /\ removed' \in {removed, removed \cup {<<r, tree[Here(r)]>>}}
        /\ pc[r] = "admit" => removed' = removed
    BY StepIsLocal, StepChanges DEF SelfInv
  <1>2. Wanted(s)' = Wanted(s)
    BY <1>1 DEF Wanted
  <1>3. CASE ~Evolves
    <2>1. pc[r] = "admit" /\ removed' = removed
      BY <1>1, <1>3, StepTree DEF SelfInv
    <2>2. CASE s = r
      <3>1. ~Changed(r)
        BY <2>1, <2>2 DEF RecordInv
      <3> QED BY <2>1, <2>2, <3>1 DEF SwapInv, Changed
    <2>3. CASE s # r
      <3>1. seen'[s] = seen[s]
        BY <1>3, <2>3, StepTree DEF SelfInv, TypeOK
      <3> QED BY <1>1, <1>2, <2>1, <3>1 DEF SwapInv
    <2> QED BY <2>2, <2>3
  <1>4. CASE Evolves /\ ~(s = r /\ Delete(r))
    <2>1. \A kind \in Kinds : <<s, kind>> \in removed' => <<s, kind>> \in removed
      <3>1. CASE s # r
        BY <1>1, <3>1
      <3>2. CASE ~Delete(r)
        BY <3>2 DEF Step, Refuse, RefuseRoot, Admit, LookToCreate, MakeDirectory, MakeNowhere,
           MakeTaken, LookAgain, LookAtParent, PutFile, PutNowhere, LookToDelete,
           DeleteNothing, Throttled, CallFails, Remains, history
      <3> QED BY <1>4, <3>1, <3>2
    <2> QED BY <1>1, <1>4, <2>1, SwapKept
  <1>5. CASE Evolves /\ s = r /\ Delete(r)
    <2>1. Running(r) /\ Here(r) = target[r] /\ target[r] \in Paths
      <3>1. Running(r) /\ depth[r] = Len(target[r])
        BY <1>5 DEF Delete, Running, SelfInv, ControlInv
      <3> QED BY <3>1, HereLevels DEF SelfInv
    <2>2. /\ Wanted(r) \in seen[r][target[r]] /\ tree[target[r]] # "none"
          /\ removed' = removed \cup {<<r, tree[target[r]]>>}
      BY <1>5, <2>1 DEF Delete, SelfInv, SightInv
    <2>3. /\ seen[r][target[r]] \subseteq seen'[r][target[r]]
          /\ tree[target[r]] \in seen'[r][target[r]]
          /\ {"file", "directory"} \subseteq seen'[r][target[r]]
                => "none" \in seen'[r][target[r]]
      BY <1>5, <2>1, NowSeen
    <2>4. ASSUME NEW kind \in Kinds \ {Wanted(r)}, <<r, kind>> \in removed'
          PROVE  {"none", Wanted(r), kind} \subseteq seen'[r][target[r]]
      <3>1. CASE <<r, kind>> \in removed
        BY <1>5, <2>3, <2>4, <3>1 DEF SwapInv
      <3>2. CASE kind = tree[target[r]]
        BY <2>2, <2>3, <2>4, <3>2 DEF Kinds, Wanted
      <3> QED BY <2>2, <2>4, <3>1, <3>2
    <2> QED BY <1>1, <1>2, <1>5, <2>4 DEF SwapInv
  <1> QED BY <1>3, <1>4, <1>5

-----------------------------------------------------------------------------
(* Every step keeps the invariant.                                         *)

\* People, and other processes, change the tree as requests do.
LEMMA OutsideInv ==
  ASSUME DriveInv,
         \E p \in Paths : OthersDelete(p) \/ \E kind \in Kinds : OthersCreate(p, kind)
  PROVE  DriveInv'
  <1>0. TypeOK
    BY DEF DriveInv
  <1>1. /\ UNCHANGED <<read_only, operation, target, pc, depth, tries, answer, audit, made,
                       removed>>
        /\ changes < MaxChanges /\ changes' = changes + 1
        /\ Gapped(tree') /\ Witness(tree')
    <2>1. CASE \E p \in Paths : OthersDelete(p)
      BY <1>0, <2>1 DEF OthersDelete, Without, Gapped, TypeOK, Kinds, inputs, history
    <2>2. CASE \E p \in Paths : \E kind \in Kinds : OthersCreate(p, kind)
      BY <1>0, <2>2 DEF OthersCreate, Gapped, TypeOK, inputs, history
    <2> QED BY <2>1, <2>2
  <1>2. Evolves
    BY <1>1 DEF Evolves
  <1>3. ASSUME NEW r \in Requests
        PROVE  /\ SelfInv(r)' /\ WatchInv(r)' /\ RecordInv(r)' /\ SwapInv(r)'
    <2>1. SelfInv(r) /\ WatchInv(r) /\ RecordInv(r) /\ SwapInv(r)
      BY DEF DriveInv, SelfInv, ClaimInv, AnswersWereTrue, CreatedMeansMade,
             DeletesOnlyWhatItSaw, SwapInv
    <2>2. SelfInv(r)' /\ WatchInv(r)'
      BY <1>0, <1>1, <1>2, <2>1, Unmoved
    <2>3. RecordInv(r)'
      BY <1>1, <2>1 DEF RecordInv, Changed
    <2>4. SwapInv(r)'
      BY <1>0, <1>1, <1>2, <2>1, SwapKept
    <2> QED BY <2>2, <2>3, <2>4
  <1>4. TypeOK'
    <2>1. tree' \in [Paths -> Kinds] /\ changes' \in 0 .. MaxChanges
      BY <1>0, <1>1, BoundAssumption DEF Gapped, TypeOK
    <2>2. seen' \in [Requests -> [Paths -> SUBSET Kinds]]
      <3> DEFINE w(s) == IF pc[s] \in {"admit", "done"} THEN seen[s]
                         ELSE [p \in Paths |-> seen[s][p] \cup {tree'[p]}]
      <3>1. seen' = [s \in Requests |-> w(s)]
        BY <1>1 DEF Witness
      <3>2. ASSUME NEW s \in Requests PROVE w(s) \in [Paths -> SUBSET Kinds]
        <4>1. seen[s] \in [Paths -> SUBSET Kinds]
          BY <1>0 DEF TypeOK
        <4>2. ASSUME NEW p \in Paths PROVE seen[s][p] \cup {tree'[p]} \in SUBSET Kinds
          BY <2>1, <4>1
        <4> QED BY <4>1, <4>2
      <3> HIDE DEF w
      <3> QED BY <3>1, <3>2
    <2> QED BY <1>0, <1>1, <2>1, <2>2 DEF TypeOK
  <1> QED BY <1>3, <1>4 DEF DriveInv, SelfInv, ClaimInv, AnswersWereTrue, CreatedMeansMade,
                            DeletesOnlyWhatItSaw, SwapInv

\* The invariant is inductive.
LEMMA NextInv == DriveInv /\ [Next]_vars => DriveInv'
  <1> SUFFICES ASSUME DriveInv, [Next]_vars PROVE DriveInv'
    OBVIOUS
  <1>1. ASSUME NEW r \in Requests, Step(r) PROVE DriveInv'
    <2>0. TypeOK /\ \A s \in Requests : SelfInv(s) /\ WatchInv(s) /\ RecordInv(s) /\ SwapInv(s)
      BY DEF DriveInv, SelfInv, ClaimInv, AnswersWereTrue, CreatedMeansMade,
             DeletesOnlyWhatItSaw, SwapInv
    <2>1. ControlInv(r)
      BY <2>0 DEF SelfInv
    <2>2. TypeOK'
      BY <1>1, <2>0, <2>1, StepType
    <2>3. ASSUME NEW s \in Requests
          PROVE  SelfInv(s)' /\ WatchInv(s)' /\ RecordInv(s)' /\ SwapInv(s)'
      <3>1. SelfInv(s)' /\ WatchInv(s)'
        BY <1>1, <2>0, <2>1, StepSelf, StepOthers
      <3>2. RecordInv(s)'
        BY <1>1, <2>0, <2>1, StepRecord
      <3>3. SwapInv(s)'
        BY <1>1, <2>0, StepSwap
      <3> QED BY <3>1, <3>2, <3>3
    <2> QED BY <2>2, <2>3 DEF DriveInv, SelfInv, ClaimInv, AnswersWereTrue, CreatedMeansMade,
                              DeletesOnlyWhatItSaw, SwapInv
  <1>2. CASE UNCHANGED vars
    <2>1. UNCHANGED <<read_only, operation, target, tree, pc, depth, tries, answer, audit,
                      made, removed, seen, changes>>
      BY <1>2 DEF vars, inputs, history
    <2>2. TypeOK /\ TypeOK' /\ Evolves
      BY <2>1 DEF DriveInv, TypeOK, Evolves
    <2>3. ASSUME NEW s \in Requests
          PROVE  SelfInv(s)' /\ WatchInv(s)' /\ RecordInv(s)' /\ SwapInv(s)'
      <3>1. SelfInv(s) /\ WatchInv(s) /\ RecordInv(s) /\ SwapInv(s)
        BY DEF DriveInv, SelfInv, ClaimInv, AnswersWereTrue, CreatedMeansMade,
               DeletesOnlyWhatItSaw, SwapInv
      <3>2. SelfInv(s)' /\ WatchInv(s)'
        BY <2>1, <2>2, <3>1, Unmoved
      <3>3. RecordInv(s)'
        BY <2>1, <3>1 DEF RecordInv, Changed
      <3>4. SwapInv(s)'
        BY <2>1, <2>2, <3>1, SwapKept
      <3> QED BY <3>2, <3>3, <3>4
    <2> QED BY <2>2, <2>3 DEF DriveInv, SelfInv, ClaimInv, AnswersWereTrue, CreatedMeansMade,
                              DeletesOnlyWhatItSaw, SwapInv
  <1>3. CASE Terminated
    BY <1>2, <1>3 DEF Terminated
  <1> QED BY <1>1, <1>2, <1>3, OutsideInv DEF Next

\* It holds in every state the service reaches.
LEMMA AlwaysInv == Spec => []DriveInv
  BY InitInv, NextInv, PTL DEF Spec

-----------------------------------------------------------------------------
(* The theorems.                                                           *)

\* Every variable keeps its type.
THEOREM TypeCorrect == Spec => []TypeOK
  <1>1. DriveInv => TypeOK
    BY DEF DriveInv
  <1> QED BY <1>1, AlwaysInv, PTL

\* Every answer was right at some moment while its request ran, whatever other requests
\* and people do between the calls it is based on.
THEOREM AnswersTrueAtSomeMoment == Spec => []AnswersWereTrue
  <1>1. DriveInv => AnswersWereTrue
    BY DEF DriveInv
  <1> QED BY <1>1, AlwaysInv, PTL

\* created=true is claimed by nobody but the request that made the folder.
THEOREM CreatedByItsCaller == Spec => []CreatedMeansMade
  <1>1. DriveInv => CreatedMeansMade
    BY DEF DriveInv
  <1> QED BY <1>1, AlwaysInv, PTL

\* Whoever changed the tree left one record, which says what the caller was told (_audited).
THEOREM EveryChangeAudited == Spec => []ChangesAreAudited
  <1>1. DriveInv => ChangesAreAudited
    <2> SUFFICES ASSUME DriveInv, NEW r \in Requests
                 PROVE  /\ pc[r] = "done" /\ (\E p \in Paths : <<r, p>> \in made
                                                 \/ \E k \in Kinds : <<r, k>> \in removed)
                              => Len(audit[r]) = 1
                        /\ audit[r] = <<"ok">> <=> answer[r] \in Good
                        /\ pc[r] = "done" /\ audit[r] = <<>> <=> answer[r] = "forbidden"
      BY DEF ChangesAreAudited, Good
    <2>1. RecordInv(r)
      BY DEF DriveInv
    <2>2. /\ Len(<<"ok">>) = 1 /\ Len(<<"failed">>) = 1 /\ <<"ok">> # <<"failed">>
          /\ <<"ok">> # <<>> /\ <<"failed">> # <<>>
      OBVIOUS
    <2> QED BY <2>1, <2>2 DEF RecordInv, Changed, Good, Bad
  <1> QED BY <1>1, AlwaysInv, PTL

\* A delete takes only what it is for, unless that was swapped under its hands.
THEOREM DeletedAsAsked == Spec => []DeletesOnlyWhatItSaw
  <1>1. DriveInv => DeletesOnlyWhatItSaw
    BY DEF DriveInv
  <1> QED BY <1>1, AlwaysInv, PTL
=============================================================================
