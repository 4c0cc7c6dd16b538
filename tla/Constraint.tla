------------------------------ MODULE Constraint ------------------------------
(***************************************************************************)
(* Version constraints (internal/constraint): branches joined by "||", each*)
(* a conjunction of terms, each an operator and a version.                 *)
(***************************************************************************)
EXTENDS SemVer

\* The text of a term: op is its longest prefix of operator characters.
Term(op, text) == [op |-> op, text |-> text]

\* The dots after the core.
Dots(t) == (IF t.pre = << >> THEN 0 ELSE Len(t.pre) - 1)
              + (IF t.build = << >> THEN 0 ELSE Len(t.build) - 1)

\* parseNode returns no error.  A "v" is taken off for semver.Parse and then
\* refused as the first component; every dot counts, so that a prerelease of
\* several identifiers is refused.
TermParses(t) ==
    /\ Len(t.text.parts) + Dots(t.text) = 3
    /\ Parses([t.text EXCEPT !.v = FALSE])
    /\ ~t.text.v

\* The node of a term.  The prerelease is not kept.
ParseNode(t) == [op |-> IF t.op = "" THEN "=" ELSE t.op, core |-> t.text.parts]

\* constraint.Parse of a sequence of branches returns no error.
ConstraintParses(c) ==
    /\ c # << >>
    /\ \A i \in DOMAIN c : c[i] # << >> /\ \A j \in DOMAIN c[i] : TermParses(c[i][j])

ParseConstraint(c) ==
    [i \in DOMAIN c |-> [j \in DOMAIN c[i] |-> ParseNode(c[i][j])]]
-----------------------------------------------------------------------------
CompareCore(v, n) == Compare(Release(v.core), Release(n.core))

\* The first release that ^core no longer accepts.
CaretLimit(core) ==
    CASE core[1] > 0 -> <<core[1] + 1, 0, 0>>
      [] core[1] = 0 /\ core[2] > 0 -> <<0, core[2] + 1, 0>>
      [] OTHER -> <<0, 0, core[3] + 1>>

MatchCaret(n, v) ==
    /\ Compare(v, Release(n.core)) >= 0
    /\ Compare(v, Release(CaretLimit(n.core))) < 0

MatchTilde(n, v) ==
    v.core[1] = n.core[1] /\ v.core[2] = n.core[2] /\ v.core[3] >= n.core[3]

\* Mutant: < and <= exchanged.
MatchNodeSwapped(n, v) ==
    CASE n.op = "=" -> v.core = n.core /\ v.pre = << >>
      [] n.op = ">" -> CompareCore(v, n) > 0
      [] n.op = ">=" -> CompareCore(v, n) >= 0
      [] n.op = "<" -> CompareCore(v, n) <= 0
      [] n.op = "<=" -> CompareCore(v, n) < 0
      [] n.op = "^" -> MatchCaret(n, v)
      [] n.op = "~" -> MatchTilde(n, v)
      [] OTHER -> FALSE

\* Any other operator matches nothing.
MatchNode(n, v) ==
    CASE n.op = "=" -> v.core = n.core /\ v.pre = << >>
      [] n.op = ">" -> CompareCore(v, n) > 0
      [] n.op = ">=" -> CompareCore(v, n) >= 0
      [] n.op = "<" -> CompareCore(v, n) < 0
      [] n.op = "<=" -> CompareCore(v, n) <= 0
      [] n.op = "^" -> MatchCaret(n, v)
      [] n.op = "~" -> MatchTilde(n, v)
      [] OTHER -> FALSE

Match(c, v) == \E i \in DOMAIN c : \A j \in DOMAIN c[i] : MatchNode(c[i][j], v)
=============================================================================
