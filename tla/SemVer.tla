-------------------------------- MODULE SemVer --------------------------------
(***************************************************************************)
(* Semantic versions (internal/semver): which texts are versions, and the  *)
(* order of precedence Compare gives them.                                 *)
(*                                                                         *)
(* A text is known by its pieces.  A dot-separated identifier after "-" or *)
(* "+" is a number, its rank among the identifiers in byte order, and 0 is *)
(* the empty one; a component of the core that is not a number in          *)
(* canonical form (a letter, a leading zero, an overflow) is Bad.          *)
(***************************************************************************)
EXTENDS Integers, Sequences

CONSTANTS
    Ids,        \* identifiers, in byte order
    Atoi,       \* the value of each identifier that strconv.Atoi accepts
    ZeroLed,    \* those of several characters that begin with "0"
    Bad         \* a component of the core that is not a number

ASSUME IdentifiersOK ==
    /\ Ids \subseteq Nat \ {0} /\ ZeroLed \subseteq Ids
    /\ DOMAIN Atoi \subseteq Ids /\ \A i \in DOMAIN Atoi : Atoi[i] \in Int
    /\ Bad \notin Nat

\* A text [v]parts[-pre][+build]: << >> is a piece that is not there, <<0>> one
\* that is there and empty.
Text(v, parts, pre, build) == [v |-> v, parts |-> parts, pre |-> pre, build |-> build]

\* Texts, whether they are versions or not.
AText == [v : BOOLEAN, parts : Seq(Nat \cup {Bad}),
          pre : Seq(Ids \cup {0}), build : Seq(Ids \cup {0})]

\* Parse returns no error.
Parses(t) ==
    /\ ~t.v
    /\ Len(t.parts) = 3 /\ \A i \in 1 .. 3 : t.parts[i] # Bad
    /\ \A i \in DOMAIN t.pre : t.pre[i] # 0
    /\ t.build # <<0>>

\* What Parse returns, without the build metadata, which nothing reads.
Parse(t) == [core |-> t.parts, pre |-> t.pre]

Release(core) == [core |-> core, pre |-> << >>]
-----------------------------------------------------------------------------
\* cmpInt, and cmpString on identifiers.
Sign(x, y) == IF x < y THEN -1 ELSE IF x > y THEN 1 ELSE 0

\* tryNum accepts the identifier.
Numeric(id) == id \in DOMAIN Atoi \ ZeroLed

\* Mutant: no case for a number against a word, which are compared as texts.
CompareIdByText(x, y) ==
    IF Numeric(x) /\ Numeric(y) THEN Sign(Atoi[x], Atoi[y]) ELSE Sign(x, y)

CompareId(x, y) ==
    CASE Numeric(x) /\ Numeric(y) -> Sign(Atoi[x], Atoi[y])
      [] Numeric(x) /\ ~Numeric(y) -> -1
      [] ~Numeric(x) /\ Numeric(y) -> 1
      [] OTHER -> Sign(x, y)

\* The first comparison that tells two sequences apart, rest if none does.
FirstDifference(signs, rest) ==
    LET Differ == {i \in DOMAIN signs : signs[i] # 0}
    IN  IF Differ = {} THEN rest
        ELSE signs[CHOOSE i \in Differ : \A j \in Differ : i <= j]

\* Of prereleases equal as far as the shorter one goes, the longer is higher.
ComparePrerelease(p, q) ==
    FirstDifference([i \in DOMAIN p \cap DOMAIN q |-> CompareId(p[i], q[i])],
                    Sign(Len(p), Len(q)))

Compare(a, b) ==
    IF a.core # b.core
    THEN FirstDifference([i \in 1 .. 3 |-> Sign(a.core[i], b.core[i])], 0)
    ELSE CASE a.pre = << >> /\ b.pre # << >> -> 1
           [] a.pre # << >> /\ b.pre = << >> -> -1
           [] OTHER -> ComparePrerelease(a.pre, b.pre)
=============================================================================
