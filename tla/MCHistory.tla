------------------------------ MODULE MCHistory ------------------------------
(***************************************************************************)
(* A small instance of History for TLC.                                    *)
(***************************************************************************)
EXTENDS History, TLC

OneDiag == {<<"MISSING">>}

Symmetric == Permutations(Handlers)

\* Nothing that runs reads what clients were told.
WithoutAnswers == <<tables, req, faults, detail, scan>>
=============================================================================
