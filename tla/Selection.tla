------------------------------ MODULE Selection ------------------------------
(***************************************************************************)
(* The choice of a version for one manifest item: the constraint is parsed *)
(* when the manifest is checked, and selectVersion of the engine goes      *)
(* through the candidates in the order of the query, which is that of      *)
(* their texts, one per step.                                              *)
(*                                                                         *)
(* Candidates are rows of table versions, whose text createVersion has     *)
(* parsed, so the engine's case of an invalid text cannot arise.           *)
(***************************************************************************)
EXTENDS Constraint

CONSTANTS
    Texts,          \* version texts, in byte order
    Constraints,    \* constraint texts that requests mention
    MaxCandidates   \* bound: versions of an artifact

ASSUME TextsOK ==
    /\ Texts \in Seq(AText) /\ \A i \in DOMAIN Texts : Parses(Texts[i])
    /\ Constraints \subseteq Seq(Seq([op : STRING, text : AText]))
    /\ MaxCandidates \in Nat

VARIABLES
    phase,      \* "parsing", "refused", "scanning", "returned"
    constraint, \* the text of the constraint
    cands,      \* the candidates
    next,       \* the candidate to look at
    best,       \* the best candidate so far, 0 if none
    elims       \* the eliminations: candidates with a reason

vars == <<phase, constraint, cands, next, best, elims>>

\* Subsequences of Texts; no two rows of an artifact have the same text.
CandidateLists ==
    UNION {{[i \in 1 .. k |-> Texts[f[i]]] :
              f \in {g \in [1 .. k -> DOMAIN Texts] :
                       \A i \in 1 .. k - 1 : g[i] < g[i + 1]}} : k \in 0 .. MaxCandidates}

\* by: the candidate that supersedes, 0 for "does not match constraint".
Elim == [cand : 1 .. MaxCandidates, by : 0 .. MaxCandidates]

TypeOK ==
    /\ phase \in {"parsing", "refused", "scanning", "returned"}
    /\ constraint \in Constraints
    /\ cands \in Seq(AText) /\ Len(cands) <= MaxCandidates
    /\ next \in 1 .. Len(cands) + 1 /\ best \in 0 .. Len(cands)
    /\ elims \in Seq(Elim)

Init ==
    /\ phase = "parsing" /\ constraint \in Constraints /\ cands = << >>
    /\ next = 1 /\ best = 0 /\ elims = << >>
-----------------------------------------------------------------------------
\* Resolve refuses the manifest with INVALID_CONSTRAINT.
Refuse ==
    /\ phase = "parsing" /\ ~ConstraintParses(constraint)
    /\ phase' = "refused"
    /\ UNCHANGED <<constraint, cands, next, best, elims>>

\* Or accepts it, and the engine reads the candidates.
Accept ==
    /\ phase = "parsing" /\ ConstraintParses(constraint)
    /\ phase' = "scanning" /\ cands' \in CandidateLists
    /\ UNCHANGED <<constraint, next, best, elims>>

Scanning == phase = "scanning" /\ next <= Len(cands) /\ next' = next + 1

Version(k) == Parse(cands[k])

Matches(k) == Match(ParseConstraint(constraint), Version(k))

Eliminate(k, by) == elims' = Append(elims, [cand |-> k, by |-> by])

NoMatch ==
    /\ Scanning /\ ~Matches(next)
    /\ Eliminate(next, 0)
    /\ UNCHANGED <<phase, constraint, cands, best>>

FirstMatch ==
    /\ Scanning /\ Matches(next) /\ best = 0
    /\ best' = next
    /\ UNCHANGED <<phase, constraint, cands, elims>>

\* Mutant: the candidate at hand is eliminated, not the one it replaces.
HigherEliminatesItself ==
    /\ Scanning /\ Matches(next) /\ best # 0
    /\ Compare(Version(next), Version(best)) > 0
    /\ Eliminate(next, best) /\ best' = next
    /\ UNCHANGED <<phase, constraint, cands>>

Higher ==
    /\ Scanning /\ Matches(next) /\ best # 0
    /\ Compare(Version(next), Version(best)) > 0
    /\ Eliminate(best, next) /\ best' = next
    /\ UNCHANGED <<phase, constraint, cands>>

\* Mutant: the last of equal versions is kept.
NotHigherStrict ==
    /\ Scanning /\ Matches(next) /\ best # 0
    /\ Compare(Version(next), Version(best)) <= 0
    /\ IF Compare(Version(next), Version(best)) = 0
       THEN Eliminate(best, next) /\ best' = next
       ELSE Eliminate(next, best) /\ UNCHANGED best
    /\ UNCHANGED <<phase, constraint, cands>>

NotHigher ==
    /\ Scanning /\ Matches(next) /\ best # 0
    /\ Compare(Version(next), Version(best)) <= 0
    /\ Eliminate(next, best)
    /\ UNCHANGED <<phase, constraint, cands, best>>

\* The loop is over.
Return ==
    /\ phase = "scanning" /\ next > Len(cands)
    /\ phase' = "returned"
    /\ UNCHANGED <<constraint, cands, next, best, elims>>

Done == phase \in {"refused", "returned"} /\ UNCHANGED vars

Next ==
    \/ Refuse \/ Accept \/ NoMatch \/ FirstMatch \/ Higher \/ NotHigher \/ Return
    \/ Done

Spec == Init /\ [][Next]_vars
-----------------------------------------------------------------------------
Order(i, j) == Compare(Version(i), Version(j))

\* Compare orders the candidates: exchanging two versions changes the sign, and
\* the order is transitive across numeric and alphanumeric identifiers,
\* prereleases and releases.  The choice would depend on the order of the rows
\* otherwise.
ComparesLikeAnOrder ==
    phase = "returned" =>
        \A i, j, k \in DOMAIN cands :
            /\ Order(i, j) = -Order(j, i)
            /\ Order(i, j) <= 0 /\ Order(j, k) <= 0 => Order(i, k) <= 0

\* The version chosen is the highest of those that match, though the rows come
\* in the order of their texts (1.10.0 before 1.2.0), and among equals, which
\* differ in build metadata, the first row's.
ChoosesHighest ==
    phase = "returned" =>
        IF best = 0 THEN \A k \in DOMAIN cands : ~Matches(k)
        ELSE /\ Matches(best)
             /\ \A k \in DOMAIN cands : Matches(k) =>
                  Order(k, best) < 0 \/ (Order(k, best) = 0 /\ best <= k)

\* The diagnosis accounts for every candidate that is not chosen exactly once,
\* and for none that is; one "superseded" by another matches, as that one does,
\* and is not higher.
EliminationsExplain ==
    phase = "returned" =>
        /\ \A k \in DOMAIN cands :
             (k # best) <=> (\E e \in DOMAIN elims : elims[e].cand = k)
        /\ \A d, e \in DOMAIN elims : elims[d].cand = elims[e].cand => d = e
        /\ \A e \in DOMAIN elims :
             IF elims[e].by = 0 THEN ~Matches(elims[e].cand)
             ELSE /\ Matches(elims[e].cand) /\ Matches(elims[e].by)
                  /\ Order(elims[e].cand, elims[e].by) <= 0

\* What a term promises of releases: those from Low up to but not Limit.
Low(n) == CASE n.op \in {"=", ">=", "^", "~"} -> n.core
            [] n.op = ">" -> <<n.core[1], n.core[2], n.core[3] + 1>>
            [] OTHER -> <<0, 0, 0>>

Bounded(n) == n.op \notin {">", ">="}

Limit(n) == CASE n.op = "<" -> n.core
              [] n.op \in {"=", "<="} -> <<n.core[1], n.core[2], n.core[3] + 1>>
              [] n.op = "~" -> <<n.core[1], n.core[2] + 1, 0>>
              [] OTHER -> IF n.core[1] > 0 THEN <<n.core[1] + 1, 0, 0>>
                          ELSE IF n.core[2] > 0 THEN <<0, n.core[2] + 1, 0>>
                          ELSE <<0, 0, n.core[3] + 1>>

Below(c, d) ==
    \/ c[1] < d[1]
    \/ c[1] = d[1] /\ c[2] < d[2]
    \/ c[1] = d[1] /\ c[2] = d[2] /\ c[3] < d[3]

KnownOps == {"=", ">", ">=", "<", "<=", "^", "~"}

\* For releases, every known operator means its range; and a constraint without
\* "||" has no gaps: prereleases included, what lies between two versions it
\* accepts is accepted.
TermsAreRanges ==
    phase = "returned" =>
        /\ \A i \in DOMAIN constraint : \A j \in DOMAIN constraint[i] :
             LET n == ParseNode(constraint[i][j]) IN
             n.op \in KnownOps =>
                 \A k \in DOMAIN cands : cands[k].pre = << >> =>
                     (MatchNode(n, Version(k)) <=>
                         /\ ~Below(cands[k].parts, Low(n))
                         /\ Bounded(n) => Below(cands[k].parts, Limit(n)))
        /\ Len(constraint) = 1 =>
             \A i, j, k \in DOMAIN cands :
                 Order(i, j) < 0 /\ Order(j, k) < 0 /\ Matches(i) /\ Matches(k)
                     => Matches(j)
=============================================================================
