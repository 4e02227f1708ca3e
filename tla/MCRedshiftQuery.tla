-------------------------- MODULE MCRedshiftQuery ---------------------------
(***************************************************************************)
(* Instances of RedshiftQuery for TLC: queries in one or two processes.    *)
(***************************************************************************)
EXTENDS RedshiftQuery, TLC

CONSTANTS w1, w2, q3

OneWorker == [q \in Queries |-> w1]
TwoWorkers == [q \in Queries |-> IF q = q3 THEN w2 ELSE w1]

\* A row with sensitive fields of up to four characters and of more, and one that is not.
SensitiveFields == {"ssn", "phone_number", "email"}
OneRow == {[ssn |-> <<1, 2, 3, 4>>, phone_number |-> <<1>>, email |-> <<1, 2, 3, 4, 5>>,
            city |-> <<1, 2>>]}

\* Connections are interchangeable, and so are the queries of one process.
PoolSymmetry == Permutations(Conns) \cup Permutations(Queries \ {q3})
=============================================================================
