------------------------------ MODULE Lifecycle ------------------------------
(***************************************************************************)
(* The life of a version as the registry's users see it, with the handlers *)
(* and the database left out: what PROJECT_SPEC.md section 4 promises, and *)
(* the weaker promise the code keeps when requests overlap.                *)
(***************************************************************************)
CONSTANT Ids        \* the ids the versions table can hand out

VARIABLE life       \* the stage of life of every id

Stages == {"unborn", "draft", "published", "deprecated", "gone"}

TypeOK == life \in [Ids -> Stages]

Init == life = [i \in Ids |-> "unborn"]

Move(i, from, to) == life[i] = from /\ life' = [life EXCEPT ![i] = to]

Create(i) == Move(i, "unborn", "draft")

Publish(i) == Move(i, "draft", "published")

Deprecate(i) == Move(i, "published", "deprecated")

Delete(i) == Move(i, "draft", "gone")

\* What no document allows: a deprecated version is published again.
Revive(i) == Move(i, "deprecated", "published")

Next == \E i \in Ids : Create(i) \/ Publish(i) \/ Deprecate(i) \/ Delete(i)

\* The documented life: draft, published, deprecated, and deletion of drafts.
Spec == Init /\ [][Next]_life

\* The documented life, but deprecation is not final.
RelaxedSpec == Init /\ [][Next \/ \E i \in Ids : Revive(i)]_life
=============================================================================
