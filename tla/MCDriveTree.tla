---------------------------- MODULE MCDriveTree -----------------------------
(* Instances of DriveTree for TLC.                                         *)
EXTENDS DriveTree, TLC

\* A folder and what lies in it.
NestedPaths == {<<"a">>, <<"a", "b">>}

\* Requests are interchangeable.
RequestSymmetry == Permutations(Requests)
=============================================================================
