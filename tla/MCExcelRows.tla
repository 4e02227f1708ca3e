---------------------------- MODULE MCExcelRows -----------------------------
(* Instances of ExcelRows for TLC.                                         *)
EXTENDS ExcelRows, TLC

TwoHeaders == <<"Name", "Amount">>

\* No cells, one, two of which the first is blank, and one column by its name.
SomeRows == {[cells |-> c, names |-> {}] : c \in {<<>>, <<TRUE>>, <<FALSE, TRUE>>}}
            \cup {[cells |-> <<>>, names |-> {"Amount"}]}

\* Requests are interchangeable.
RequestSymmetry == Permutations(Requests)
=============================================================================
