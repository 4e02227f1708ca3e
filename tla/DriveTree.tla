----------------------------- MODULE DriveTree ------------------------------
(***************************************************************************)
(* The folder tree below the configured root: create_directory,            *)
(* delete_file, delete_directory, and write_file in mode "w" as far as the *)
(* tree goes (FileUpdate has what it does to a file), from the route that  *)
(* admits and audits them to their single Graph calls.  Each call is a     *)
(* step of its own, so other requests and people working in SharePoint     *)
(* change the tree between a check and the call that relies on it.         *)
(*                                                                         *)
(* Graph is external: it keeps every item under an existing folder, a      *)
(* DELETE takes all that lies under an item with it, and a call that it    *)
(* answers with 503 or 504, or not at all, may have been carried out.      *)
(***************************************************************************)
EXTENDS Naturals, SequencesExt

CONSTANTS
    Requests,       \* the requests
    Paths,          \* the paths below the root: sequences of names
    MAX_RETRIES,    \* retries of one Graph call
    MaxChanges      \* bound: changes that people make

\* With an item's path, those of the folders it lies in.
ASSUME PathAssumption ==
    /\ Paths \subseteq Seq(UNION {Range(p) : p \in Paths}) \ {<<>>}
    /\ \A p \in Paths : \A n \in 1 .. Len(p) : SubSeq(p, 1, n) \in Paths

ASSUME BoundAssumption == MAX_RETRIES \in Nat /\ MaxChanges \in Nat

Kinds == {"none", "file", "directory"}
Operations == {"create_directory", "write_file", "delete_file", "delete_directory"}

VARIABLES
    read_only,  \* GATEWAY_SHAREPOINT_READ_ONLY
    operation,  \* what a request asks for
    target,     \* the segments of its path
    tree,       \* what lies at each path
    pc,         \* where a request is
    depth,      \* how much of its path the call under way is about
    tries,      \* retries spent on the call under way
    answer,     \* how a request was answered
    audit,      \* the statuses of its audit records
    made,       \* history: <<request, path>> of the folders and files that requests made
    removed,    \* history: <<request, kind>> of the items that requests deleted
    seen,       \* history: what lay at each path while a request ran
    changes     \* how many changes people made

inputs == <<read_only, operation, target>>
history == <<made, removed>>
vars == <<inputs, tree, pc, depth, tries, answer, audit, history, seen, changes>>

TypeOK ==
    /\ read_only \in BOOLEAN
    /\ operation \in [Requests -> Operations]
    /\ target \in [Requests -> Paths \cup {<<>>}]
    /\ tree \in [Paths -> Kinds]
    /\ pc \in [Requests -> {"admit", "look", "make", "look_again", "put", "delete", "done"}]
    /\ depth \in [Requests -> Nat]
    /\ tries \in [Requests -> 0 .. MAX_RETRIES]
    /\ answer \in [Requests -> {"none", "created", "existed", "written", "deleted", "forbidden",
                                "bad_request", "not_found", "conflict", "upstream"}]
    /\ audit \in [Requests -> Seq({"ok", "failed"})]
    /\ made \subseteq Requests \X Paths
    /\ removed \subseteq Requests \X Kinds
    /\ seen \in [Requests -> [Paths -> SUBSET Kinds]]
    /\ changes \in 0 .. MaxChanges

\* An item lies in a folder.
Placed(t, p) == Len(p) > 1 => t[Front(p)] = "directory"

Init ==
    /\ read_only \in BOOLEAN
    /\ operation \in [Requests -> Operations]
    /\ target \in [Requests -> Paths \cup {<<>>}]
    /\ tree \in {t \in [Paths -> Kinds] : \A p \in Paths : t[p] # "none" => Placed(t, p)}
    /\ pc = [r \in Requests |-> "admit"]
    /\ depth = [r \in Requests |-> 0]
    /\ tries = [r \in Requests |-> 0]
    /\ answer = [r \in Requests |-> "none"]
    /\ audit = [r \in Requests |-> <<>>]
    /\ made = {}
    /\ removed = {}
    /\ seen = [r \in Requests |-> [p \in Paths |-> {}]]
    /\ changes = 0

-----------------------------------------------------------------------------
(* The route: _audited around the operation.                               *)

Goto(r, step) == pc' = [pc EXCEPT ![r] = step]

Answer(r, result) ==
    /\ Goto(r, "done")
    /\ answer' = [answer EXCEPT ![r] = result]
    /\ UNCHANGED <<depth, tries>>

\* The record names the operation and the path: here it is the request's.
log_sharepoint(r, status) == audit' = [audit EXCEPT ![r] = Append(@, status)]

Succeed(r, result) == Answer(r, result) /\ log_sharepoint(r, "ok")

MutantFailureNotLogged(r, result) == Answer(r, result) /\ UNCHANGED audit

Fail(r, result) == Answer(r, result) /\ log_sharepoint(r, "failed")

\* What every running request sees of a tree that becomes t.
Witness(t) ==
    seen' = [r \in Requests |->
                IF pc[r] \in {"admit", "done"} THEN seen[r]
                ELSE [p \in Paths |-> seen[r][p] \cup {t[p]}]]

Remains == UNCHANGED <<tree, history, seen>>

\* The first call.  write_file looks at the parent, which the root need not be.
Start(r) ==
    LET parents == Len(target[r]) - 1 IN
    /\ Goto(r, IF operation[r] = "write_file" /\ parents = 0 THEN "put" ELSE "look")
    /\ depth' = [depth EXCEPT ![r] =
                    CASE operation[r] = "create_directory" -> 1
                      [] operation[r] = "write_file" /\ parents > 0 -> parents
                      [] OTHER -> Len(target[r])]

\* writes_allowed is a dependency of the route: it refuses before _audited is entered.
Refuse(r) ==
    /\ pc[r] = "admit" /\ read_only
    /\ Answer(r, "forbidden")
    /\ Remains
    /\ UNCHANGED <<inputs, audit, changes>>

RefuseRoot(r) ==
    /\ pc[r] = "admit" /\ ~read_only /\ target[r] = <<>>
    /\ Fail(r, "bad_request")
    /\ Remains
    /\ UNCHANGED <<inputs, changes>>

Admit(r) ==
    /\ pc[r] = "admit" /\ ~read_only /\ target[r] # <<>>
    /\ Start(r)
    /\ seen' = [seen EXCEPT ![r] = [p \in Paths |-> {tree[p]}]]
    /\ UNCHANGED <<inputs, tree, tries, answer, audit, history, changes>>

\* The path that the call under way is about.
Here(r) == SubSeq(target[r], 1, depth[r])

-----------------------------------------------------------------------------
(* create_directory: one level after the other.                            *)

\* `continue`, or the end of the loop.
NextLevel(r, created) ==
    IF depth[r] = Len(target[r])
    THEN Succeed(r, IF created THEN "created" ELSE "existed")
    ELSE /\ Goto(r, "look")
         /\ depth' = [depth EXCEPT ![r] = @ + 1]
         /\ tries' = [tries EXCEPT ![r] = 0]
         /\ UNCHANGED <<answer, audit>>

LookToCreate(r) ==
    /\ pc[r] = "look" /\ operation[r] = "create_directory"
    /\ \/ tree[Here(r)] = "directory" /\ NextLevel(r, FALSE)
       \/ tree[Here(r)] = "file" /\ Fail(r, "conflict")
       \/ tree[Here(r)] = "none" /\ Goto(r, "make") /\ UNCHANGED <<depth, tries, answer, audit>>
    /\ Remains
    /\ UNCHANGED <<inputs, changes>>

\* An answer of 503 or 504 is retried, but only so often.
Retry(r) ==
    /\ tries[r] < MAX_RETRIES
    /\ tries' = [tries EXCEPT ![r] = @ + 1]
    /\ UNCHANGED <<pc, depth, answer, audit>>

\* POST .../children with conflictBehavior "fail", carried out: the answer arrives, or
\* 503 or 504 does, or none.
MakeDirectory(r) ==
    /\ pc[r] = "make" /\ tree[Here(r)] = "none" /\ Placed(tree, Here(r))
    /\ LET after == [tree EXCEPT ![Here(r)] = "directory"] IN
          tree' = after /\ Witness(after)
    /\ made' = made \cup {<<r, Here(r)>>}
    /\ NextLevel(r, TRUE) \/ Retry(r) \/ Fail(r, "upstream")
    /\ UNCHANGED <<inputs, removed, changes>>

\* The parent is gone, or is a file by now.
MakeNowhere(r) ==
    /\ pc[r] = "make" /\ ~Placed(tree, Here(r))
    /\ \/ Fail(r, "not_found")
       \/ tree[Front(Here(r))] = "file" /\ Fail(r, "bad_request")
    /\ Remains
    /\ UNCHANGED <<inputs, changes>>

\* 409.
MakeTaken(r) ==
    /\ pc[r] = "make" /\ tree[Here(r)] # "none"
    /\ Goto(r, "look_again")
    /\ Remains
    /\ UNCHANGED <<inputs, depth, tries, answer, audit, changes>>

MutantTakenIsFine(r) ==
    /\ pc[r] = "look_again"
    /\ NextLevel(r, FALSE)
    /\ Remains
    /\ UNCHANGED <<inputs, changes>>

MutantTakenIsMine(r) ==
    /\ pc[r] = "look_again"
    /\ \/ tree[Here(r)] = "directory" /\ NextLevel(r, TRUE)
       \/ tree[Here(r)] # "directory" /\ Fail(r, "conflict")
    /\ Remains
    /\ UNCHANGED <<inputs, changes>>

\* "fine if it is a folder".
LookAgain(r) ==
    /\ pc[r] = "look_again"
    /\ \/ tree[Here(r)] = "directory" /\ NextLevel(r, FALSE)
       \/ tree[Here(r)] # "directory" /\ Fail(r, "conflict")
    /\ Remains
    /\ UNCHANGED <<inputs, changes>>

-----------------------------------------------------------------------------
(* write_file: _require_directory, and then the PUT by path.               *)

LookAtParent(r) ==
    /\ pc[r] = "look" /\ operation[r] = "write_file"
    /\ \/ tree[Here(r)] = "none" /\ Fail(r, "not_found")
       \/ tree[Here(r)] = "file" /\ Fail(r, "conflict")
       \/ /\ tree[Here(r)] = "directory"
          /\ Goto(r, "put") /\ depth' = [depth EXCEPT ![r] = Len(target[r])]
          /\ UNCHANGED <<tries, answer, audit>>
    /\ Remains
    /\ UNCHANGED <<inputs, changes>>

\* The file is stored; Graph makes the folders that went missing since the look.
PutFile(r) ==
    LET after == [p \in Paths |-> IF p = target[r] THEN "file"
                                  ELSE IF IsPrefix(p, target[r]) THEN "directory" ELSE tree[p]]
    IN
    /\ pc[r] = "put" /\ tree[target[r]] # "directory"
    /\ \A p \in Paths : IsStrictPrefix(p, target[r]) => tree[p] # "file"
    /\ tree' = after /\ Witness(after)
    /\ made' = made \cup {<<r, p>> : p \in {q \in Paths : tree[q] = "none" /\ after[q] # "none"}}
    /\ Succeed(r, "written") \/ Retry(r) \/ Fail(r, "upstream")
    /\ UNCHANGED <<inputs, removed, changes>>

\* Graph refuses: the parent is gone or a file by now, or a folder has the name.
PutNowhere(r) ==
    /\ pc[r] = "put"
    /\ \/ ~Placed(tree, target[r]) /\ Fail(r, "not_found")
       \/ /\ \/ tree[target[r]] = "directory"
             \/ \E p \in Paths : IsStrictPrefix(p, target[r]) /\ tree[p] = "file"
          /\ Fail(r, "conflict") \/ Fail(r, "bad_request")
    /\ Remains
    /\ UNCHANGED <<inputs, changes>>

-----------------------------------------------------------------------------
(* delete_file and delete_directory.                                       *)

Wanted(r) == IF operation[r] = "delete_file" THEN "file" ELSE "directory"

MutantKindNotChecked(r) ==
    /\ pc[r] = "look" /\ operation[r] \in {"delete_file", "delete_directory"}
    /\ \/ tree[Here(r)] = "none" /\ Fail(r, "not_found")
       \/ tree[Here(r)] # "none" /\ Goto(r, "delete") /\ UNCHANGED <<depth, tries, answer, audit>>
    /\ Remains
    /\ UNCHANGED <<inputs, changes>>

LookToDelete(r) ==
    /\ pc[r] = "look" /\ operation[r] \in {"delete_file", "delete_directory"}
    /\ \/ tree[Here(r)] = "none" /\ Fail(r, "not_found")
       \/ tree[Here(r)] \notin {"none", Wanted(r)} /\ Fail(r, "bad_request")
       \/ tree[Here(r)] = Wanted(r) /\ Goto(r, "delete") /\ UNCHANGED <<depth, tries, answer, audit>>
    /\ Remains
    /\ UNCHANGED <<inputs, changes>>

Without(p) == [q \in Paths |-> IF IsPrefix(p, q) THEN "none" ELSE tree[q]]

\* DELETE by path, whatever lies there by now.
Delete(r) ==
    /\ pc[r] = "delete" /\ tree[Here(r)] # "none"
    /\ tree' = Without(Here(r)) /\ Witness(Without(Here(r)))
    /\ removed' = removed \cup {<<r, tree[Here(r)]>>}
    /\ Succeed(r, "deleted") \/ Retry(r) \/ Fail(r, "upstream")
    /\ UNCHANGED <<inputs, made, changes>>

DeleteNothing(r) ==
    /\ pc[r] = "delete" /\ tree[Here(r)] = "none"
    /\ Fail(r, "not_found")
    /\ Remains
    /\ UNCHANGED <<inputs, changes>>

-----------------------------------------------------------------------------

MutantRetryForever(r) ==
    /\ pc[r] \in {"make", "put", "delete"}
    /\ tries' = [tries EXCEPT ![r] = @ + 1]
    /\ Remains
    /\ UNCHANGED <<inputs, pc, depth, answer, audit, changes>>

\* 429, 503 or 504 for a call that was not carried out.
Throttled(r) ==
    /\ pc[r] \in {"make", "put", "delete"}
    /\ Retry(r)
    /\ Remains
    /\ UNCHANGED <<inputs, changes>>

\* Graph cannot be reached, or denies access.
CallFails(r) ==
    /\ pc[r] \notin {"admit", "done"}
    /\ Fail(r, "upstream")
    /\ Remains
    /\ UNCHANGED <<inputs, changes>>

\* People, and the requests of other processes.
OthersCreate(p, kind) ==
    /\ changes < MaxChanges
    /\ tree[p] = "none" /\ Placed(tree, p) /\ kind # "none"
    /\ LET after == [tree EXCEPT ![p] = kind] IN tree' = after /\ Witness(after)
    /\ changes' = changes + 1
    /\ UNCHANGED <<inputs, pc, depth, tries, answer, audit, history>>

OthersDelete(p) ==
    /\ changes < MaxChanges
    /\ tree[p] # "none"
    /\ tree' = Without(p) /\ Witness(Without(p))
    /\ changes' = changes + 1
    /\ UNCHANGED <<inputs, pc, depth, tries, answer, audit, history>>

Terminated == (\A r \in Requests : pc[r] = "done") /\ UNCHANGED vars

Step(r) ==
    \/ Refuse(r) \/ RefuseRoot(r) \/ Admit(r)
    \/ LookToCreate(r) \/ MakeDirectory(r) \/ MakeNowhere(r) \/ MakeTaken(r) \/ LookAgain(r)
    \/ LookAtParent(r) \/ PutFile(r) \/ PutNowhere(r)
    \/ LookToDelete(r) \/ Delete(r) \/ DeleteNothing(r)
    \/ Throttled(r) \/ CallFails(r)

Next ==
    \/ \E r \in Requests : Step(r)
    \/ \E p \in Paths : OthersDelete(p) \/ \E kind \in Kinds : OthersCreate(p, kind)
    \/ Terminated

Spec == Init /\ [][Next]_vars

-----------------------------------------------------------------------------
(* What the code promises.                                                 *)

\* The paths of its folders, and its own.
Lineage(r) == {p \in Paths : IsPrefix(p, target[r])}

\* Whatever happens around a request, its answer was right at some moment while it
\* ran: the folder it calls created or existing and the file it calls written were
\* there with all their parents, what it calls deleted or not found was absent, what
\* it refuses was of the other kind, and a conflict had something standing in the way
\* (write_file :557-579, delete_file and delete_directory :637-657, create_directory
\* :659-688).
AnswerWasTrue(r) ==
    LET was == seen[r] IN
        /\ answer[r] \in {"created", "existed"} =>
              \A p \in Lineage(r) : "directory" \in was[p]
        /\ answer[r] = "written" =>
              \A p \in Lineage(r) : (IF p = target[r] THEN "file" ELSE "directory") \in was[p]
        /\ answer[r] = "deleted" => "none" \in was[target[r]]
        /\ answer[r] = "not_found" => \E p \in Lineage(r) : "none" \in was[p]
        /\ answer[r] = "conflict" =>
              \/ \E p \in Lineage(r) : "file" \in was[p] \/ {"none", "directory"} \subseteq was[p]
              \/ operation[r] = "write_file" /\ "directory" \in was[target[r]]
        /\ answer[r] = "bad_request" /\ target[r] # <<>> =>
              CASE operation[r] = "create_directory" -> \E p \in Lineage(r) : "file" \in was[p]
                [] operation[r] = "write_file" ->
                     "directory" \in was[target[r]]
                     \/ \E p \in Lineage(r) \ {target[r]} : "file" \in was[p]
                [] OTHER -> was[target[r]] \ {"none", Wanted(r)} # {}

AnswersWereTrue == \A r \in Requests : AnswerWasTrue(r)

\* created=true is claimed only by the request that made the folder at its path, so of
\* several callers racing to create one folder only its maker claims it (:664-688).
CreatedMeansMade ==
    \A r \in Requests : answer[r] = "created" => <<r, target[r]>> \in made

\* Whoever changed the tree left exactly one audit record when it ended, and the record
\* says "ok" exactly if the caller was told so, even when the change was carried out
\* and the call failed (routes/sharepoint.py:55-63).  Only what a read-only deployment
\* refuses (:50-52) leaves no record, and it changes nothing.
ChangesAreAudited ==
    \A r \in Requests :
        /\ pc[r] = "done" /\ (\E p \in Paths : <<r, p>> \in made \/ \E k \in Kinds : <<r, k>> \in removed)
              => Len(audit[r]) = 1
        /\ audit[r] = <<"ok">> <=> answer[r] \in {"created", "existed", "written", "deleted"}
        /\ pc[r] = "done" /\ audit[r] = <<>> <=> answer[r] = "forbidden"

\* delete_file and delete_directory take away only what they are for ("Refuses
\* directories", routes/sharepoint.py:149), unless the item that they looked at was
\* itself deleted meanwhile and something of the other kind put in its place
\* (:637-657: the look and the DELETE are two calls, and a DELETE is repeated).
DeletesOnlyWhatItSaw ==
    \A r \in Requests : \A kind \in Kinds \ {Wanted(r)} :
        <<r, kind>> \in removed => {"none", Wanted(r), kind} \subseteq seen[r][target[r]]
=============================================================================
