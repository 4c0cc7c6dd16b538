------------------------------ MODULE MCResolver ------------------------------
(***************************************************************************)
(* Small instances of Resolver for TLC.                                    *)
(***************************************************************************)
EXTENDS Resolver

CONSTANTS any, either, low, high

Want(n, t) == [name |-> n, text |-> t]

None == [m \in Names |-> NoText]
On(n, t) == [None EXCEPT ![n] = t]

\* The tables have names 1 to 4, of which 4 is not registered, and versions 1 and 2.
Accepting == [t \in Texts |-> CASE t = low -> {1} [] t = high -> {2} [] OTHER -> {1, 2}]

\* Every graph of dependencies on three artifacts with one version each.
GraphManifests == {<<Want(1, any)>>, <<Want(2, any), Want(1, any)>>,
                   <<Want(4, any), Want(3, any)>>}
GraphStarts ==
    {[status |-> [n \in Names |-> [v \in Vers |->
                    IF n = 4 \/ v = 2 THEN "absent" ELSE "published"]],
      deps |-> [n \in Names |-> [v \in Vers |->
                  [m \in Names |-> IF <<n, m>> \in G /\ v = 1 THEN any ELSE NoText]]],
      manifests |-> GraphManifests] :
        G \in SUBSET ((1 .. 3) \X (1 .. 3))}

\* Three artifacts with two versions each; 1 and 2 depend on each other and,
\* with several constraints, on 3.
VersionManifests == {<<Want(1, any)>>, <<Want(1, low), Want(2, any)>>,
                     <<Want(3, low), Want(1, any)>>, <<Want(3, low), Want(3, high)>>,
                     <<Want(2, any), Want(2, either)>>}
VersionStarts ==
    {[status |-> [n \in Names |-> CASE n = 1 -> [v \in Vers |-> "published"]
                                    [] n = 2 -> [v \in Vers |-> IF v = 2 THEN s2 ELSE "published"]
                                    [] n = 3 -> s3
                                    [] OTHER -> [v \in Vers |-> "absent"]],
      deps |-> [n \in Names |-> CASE n = 1 -> d1 [] n = 2 -> d2
                                  [] OTHER -> [v \in Vers |-> None]],
      manifests |-> VersionManifests] :
        s2 \in {"published", "draft"},
        s3 \in {<<x, y>> : x \in {"published", "revived", "deprecated"},
                         y \in {"published", "revived", "deprecated", "draft"}},
        d1 \in {<<x, y>> : x \in {On(3, high), On(2, high)},
                         y \in {None, [On(3, low) EXCEPT ![2] = any], On(3, high)}},
        d2 \in {<<x, y>> : x \in {On(1, high), On(3, either)},
                         y \in {None, On(1, high), On(3, either)}}}

AllStarts == GraphStarts \cup VersionStarts
=============================================================================
