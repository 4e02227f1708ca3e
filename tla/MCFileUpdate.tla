---------------------------- MODULE MCFileUpdate ----------------------------
(***************************************************************************)
(* Instances of FileUpdate for TLC: which requests there are, of which     *)
(* kind, in which worker process, and with which spelling of the path.     *)
(***************************************************************************)
EXTENDS FileUpdate, TLC

CONSTANTS r1, r2, r3, c1, c2, lower

\* Two rows through one process, a third through another one.
TwoProcesses == (r1 :> c1) @@ (r2 :> c1) @@ (r3 :> c2)
ThreeRows == [r \in {r1, r2, r3} |-> "row"]
OneSpelling == [r \in Requests |-> lower]

\* One process serves all.
OneProcess == [r \in Requests |-> c1]

\* Kinds that meet: append, create, overwrite.
AppendCreateReplace == (r1 :> "a") @@ (r2 :> "x") @@ (r3 :> "w")
AppendRowRow == (r1 :> "a") @@ (r2 :> "row") @@ (r3 :> "row")
OneRow == [r \in {r1} |-> "row"]
OneAppend == [r \in {r1} |-> "a"]
=============================================================================
