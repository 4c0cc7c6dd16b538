------------------------------ MODULE Comparison ------------------------------
(***************************************************************************)
(* The difference of two versions' declarations (CompareVersionDependen-   *)
(* cies and internal/diff), read statement by statement while the requests *)
(* of Registry write.  Names are numbers here, in the order of the texts.  *)
(***************************************************************************)
EXTENDS Registry

ASSUME NamesOrdered == Names \subseteq Nat /\ IsFiniteSet(Names)

VARIABLE cmp        \* the comparison, and how far it is

comparisonVars == <<vars, cmp>>

MaybeDeps == [Names -> Texts \cup {NoText}]

\* One entry of the answer; from and to are absent where omitempty leaves them
\* out.
DependencyChange == [name : Names, kind : {"added", "removed", "changed"},
                     from : Texts \cup {NoText}, to : Texts \cup {NoText}]

\* settled: whether, at the start, both versions were past being drafts with no
\* replacement of their declarations under way.
Comparing == [stage : {"none", "from", "to", "fromDeps", "toAgain", "toDeps", "done"},
              name : Names \cup {NoVer}, from : Vers \cup {NoVer}, to : Vers \cup {NoVer},
              fromId : 0 .. MaxVersions, toId : 0 .. MaxVersions,
              fromDeps : MaybeDeps, changes : Seq(DependencyChange), settled : BOOLEAN]

ComparisonTypeOK == TypeOK /\ cmp \in Comparing

NoComparison == [stage |-> "none", name |-> NoVer, from |-> NoVer, to |-> NoVer,
                 fromId |-> 0, toId |-> 0, fromDeps |-> NoDeps, changes |-> << >>,
                 settled |-> FALSE]

ComparisonInit == Init /\ cmp = NoComparison
-----------------------------------------------------------------------------
\* Mutant: the second loop of diff.Dependencies is missing.
KindsWithoutRemoved(from, to) ==
    [n \in {m \in Names : to[m] # NoText /\ from[m] # to[m]} |->
        IF from[n] = NoText THEN "added" ELSE "changed"]

\* diff.Dependencies: what kind of change each name that differs is.
Kinds(from, to) ==
    [n \in {m \in Names : from[m] # to[m]} |->
        IF from[n] = NoText THEN "added" ELSE IF to[n] = NoText THEN "removed"
        ELSE "changed"]

KindOrder == [added |-> 0, removed |-> 1, changed |-> 2]

\* Its sort, by kind and then by name.
Sorts(x, y) ==
    \/ KindOrder[x.kind] < KindOrder[y.kind]
    \/ x.kind = y.kind /\ x.name < y.name

\* diff.Dependencies: an entry for each name that differs.
Entries(from, to) ==
    LET kinds == Kinds(from, to)
    IN  {[name |-> n, kind |-> kinds[n], from |-> from[n], to |-> to[n]] : n \in DOMAIN kinds}

\* A set of entries as a sorted list.
InOrder(E) ==
    [k \in 1 .. Cardinality(E) |->
        CHOOSE x \in E : 1 + Cardinality({y \in E : Sorts(y, x)}) = k]

Difference(from, to) == InOrder(Entries(from, to))

\* An error is answered, and nothing is left of the comparison.
Refuse == cmp' = NoComparison

\* What a request to replace the declarations of version i has in hand.
BeingReplaced(i) ==
    \E h \in Handlers : /\ req[h].stage \in {"clear", "declare"}
                        /\ req[h].vid = i /\ req[h].call.op = "replace"

Settled(name, ver) ==
    \E i \in VersionIds : /\ versions[i] # NoRow /\ versions[i].status # "draft"
                          /\ versions[i].art = name /\ versions[i].ver = ver
                          /\ ~BeingReplaced(i)

\* GET /artifacts/{name}/versions/diff; without from or to it is refused.
Compare ==
    /\ cmp.stage = "none"
    /\ \E n \in Names, f, t \in Vers :
         cmp' = [cmp EXCEPT
           !.stage = "from", !.name = n, !.from = f, !.to = t,
           !.settled = Settled(n, f) /\ Settled(n, t)]
    /\ UNCHANGED vars

Named2(ver) == Named([name |-> cmp.name, ver |-> ver])

\* getVersion of the first version, of the second, and GetVersion of the second
\* again once the declarations of the first are read.
Find ==
    \/ /\ cmp.stage = "from"
       /\ \/ Named2(cmp.from) = {} /\ Refuse
          \/ \E i \in Named2(cmp.from) : cmp' = [cmp EXCEPT !.stage = "to", !.fromId = i]
    \/ /\ cmp.stage = "to"
       /\ \/ Named2(cmp.to) = {} /\ Refuse
          \/ Named2(cmp.to) # {} /\ cmp' = [cmp EXCEPT !.stage = "fromDeps"]
    \/ /\ cmp.stage = "toAgain"
       /\ \/ Named2(cmp.to) = {} /\ Refuse
          \/ \E i \in Named2(cmp.to) : cmp' = [cmp EXCEPT !.stage = "toDeps", !.toId = i]

\* ListDependencies, for the ids found; the second call gives the answer.
Load ==
    \/ /\ cmp.stage = "fromDeps"
       /\ cmp' = [cmp EXCEPT !.stage = "toAgain", !.fromDeps = deps[cmp.fromId]]
    \/ /\ cmp.stage = "toDeps"
       /\ cmp' = [cmp EXCEPT !.stage = "done", !.fromDeps = NoDeps,
                             !.changes = Difference(cmp.fromDeps, deps[cmp.toId])]

\* A statement of the comparison fails.
CompareFails ==
    /\ cmp.stage \notin {"none", "done"} /\ faults < MaxFaults
    /\ Refuse /\ faults' = faults + 1 /\ UNCHANGED <<tables, req>>

\* A writer steps, or the process dies, and with it the comparison.
Others ==
    \/ (\E h \in Handlers : Step(h)) /\ UNCHANGED cmp
    \/ Crash /\ cmp' = IF cmp.stage = "done" THEN cmp ELSE NoComparison
    \/ Rest /\ cmp.stage \in {"none", "done"} /\ UNCHANGED cmp

ComparisonNext ==
    Compare \/ ((Find \/ Load) /\ UNCHANGED vars) \/ CompareFails \/ Others

ComparisonSpec == ComparisonInit /\ [][ComparisonNext]_comparisonVars
-----------------------------------------------------------------------------
\* The comparison of two versions that were past being drafts when it began,
\* with no replacement of theirs under way, is the difference of what the two
\* declare, then and for good: its eight reads cannot meet half a replacement,
\* or a version deleted and created again under the same name.  Applied to
\* what the first declares it gives what the second declares; each entry tells
\* the old and the new constraint; and the order is that of kinds and names.
DiffExact ==
    cmp.stage = "done" /\ cmp.settled =>
        \E i \in Named2(cmp.from), j \in Named2(cmp.to) :
            LET diff == cmp.changes
                Told(n) == {k \in DOMAIN diff : diff[k].name = n}
            IN  /\ \A n \in Names :
                     deps[j][n] = IF Told(n) = {} THEN deps[i][n]
                                  ELSE diff[CHOOSE k \in Told(n) : TRUE].to
                /\ \A k \in DOMAIN diff :
                     /\ diff[k].from = deps[i][diff[k].name]
                     /\ diff[k].to # diff[k].from
                     /\ (diff[k].kind = "added") = (diff[k].from = NoText)
                     /\ (diff[k].kind = "removed") = (diff[k].to = NoText)
                /\ \A k, l \in DOMAIN diff : k < l => Sorts(diff[k], diff[l])
=============================================================================
