----------------------------- MODULE RowLedger ------------------------------
(***************************************************************************)
(* What callers of the gateway may rely on: the file is a ledger of rows.  *)
(* A request adds its row in one indivisible step, after everything that   *)
(* is in the ledger at that moment, and a request that is refused leaves   *)
(* the ledger alone.  Only "w" (replace) and people make the ledger        *)
(* shorter.  FileUpdate is shown to implement this module.                 *)
(***************************************************************************)
EXTENDS Naturals, Sequences

CONSTANTS Requests,     \* who may add a row
          Replacing,    \* those that replace the whole ledger ("w")
          Saves         \* people's own additions

VARIABLES rows,     \* the ledger
          answer    \* what each request was told: "none" so far

\* Answers after which nothing of the request is added any more.  (What went before may have
\* added it: an answer that gets lost is followed by a refusal.)
Refusals == {"conflict", "gave_up", "not_found", "too_large"}

Last(s) == s[Len(s)]

\* `new` is `old` with x after it; rows of a wiped ledger may come back before x.
Extends(old, new, x) ==
    /\ new # <<>> /\ Last(new) = x
    /\ old # <<>> => new = Append(old, x)

Init == rows \in Seq(Requests \cup Saves) /\ answer = [r \in Requests |-> "none"]

\* The row is added and the caller told so; or told "failed", or not told (yet),
\* because an answer got lost; or added after the caller was told "failed".
Add(r) ==
    /\ IF r \in Replacing THEN rows' = <<r>> ELSE Extends(rows, rows', r)
    /\ \/ answer[r] = "none"
          /\ \E a \in {"ok", "failed"} : answer' = [answer EXCEPT ![r] = a]
       \/ answer[r] \in {"none", "failed", "dropped"} /\ UNCHANGED answer

Refuse(r) ==
    /\ answer[r] = "none"
    /\ \E a \in Refusals \cup {"failed"} : answer' = [answer EXCEPT ![r] = a]
    /\ UNCHANGED rows

\* Some requests end without an answer: their process was killed.
Drop ==
    /\ \E R \in SUBSET {r \in Requests : answer[r] = "none"} :
          answer' = [r \in Requests |-> IF r \in R THEN "dropped" ELSE answer[r]]
    /\ UNCHANGED rows

PersonAdds(p) == rows' = Append(rows, p) /\ UNCHANGED answer

PersonWipes == rows' = <<>> /\ UNCHANGED answer

Next ==
    \/ \E r \in Requests : Add(r) \/ Refuse(r)
    \/ Drop
    \/ \E p \in Saves : PersonAdds(p)
    \/ PersonWipes

Spec == Init /\ [][Next]_<<rows, answer>>
=============================================================================
