------------------------------ MODULE MCRegistry ------------------------------
(***************************************************************************)
(* Small instances of Registry for TLC.                                    *)
(***************************************************************************)
EXTENDS Registry, TLC

CONSTANTS a, b, unknown, v1, v2, any, old, bad

Item(n, t) == [name |-> n, text |-> t]

\* Bodies for races on the life of a version: one item, none, a refused one.
LifeBodies == {<< >>, <<Item(a, any)>>, <<Item(a, bad)>>}

\* Bodies for one request at a time: accepted with two items, and with the same
\* targets the other way round, refused for a constraint or for a target at the
\* second item, and one that names a target twice.
AloneBodies == {<<Item(a, any), Item(b, any)>>, <<Item(b, old), Item(a, old)>>,
                <<Item(a, old), Item(a, bad)>>, <<Item(a, old), Item(unknown, any)>>,
                <<Item(b, any), Item(b, old), Item(a, any)>>}

Symmetric == Permutations(Handlers)
=============================================================================
