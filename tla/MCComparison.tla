----------------------------- MODULE MCComparison -----------------------------
(***************************************************************************)
(* A small instance of Comparison for TLC.                                 *)
(***************************************************************************)
EXTENDS Comparison, TLC

CONSTANTS any, old

Item(n, t) == [name |-> n, text |-> t]

\* Bodies that differ in every way, by pairs: an item more, less or changed.
DiffBodies == {<<Item(1, any)>>, <<Item(2, any), Item(1, old)>>}

\* Where it begins: two artifacts and two versions of the first were created.
Created(entity, i, n, v) == [entity |-> entity, action |-> "create", id |-> i, art |-> n, ver |-> v]

MCInit ==
    \E v, w \in Vers :
        /\ v # w /\ artifacts = {1, 2}
        /\ changes = <<Created("artifact", 0, 1, NoVer), Created("artifact", 0, 2, NoVer),
                       Created("version", 1, 1, v), Created("version", 2, 1, w)>>
        /\ versions = [i \in VersionIds |->
                         CASE i = 1 -> NewRow([name |-> 1, ver |-> v])
                           [] i = 2 -> NewRow([name |-> 1, ver |-> w]) [] OTHER -> NoRow]
        /\ nextId = 3 /\ deps = [i \in VersionIds |-> NoDeps]
        /\ req = [h \in Handlers |-> [Idle EXCEPT !.code = "OK"]]
        /\ faults = 0 /\ cmp = NoComparison

MCSpec == MCInit /\ [][ComparisonNext]_comparisonVars

Symmetric == Permutations(Vers)
=============================================================================
