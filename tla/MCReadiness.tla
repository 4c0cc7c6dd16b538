----------------------------- MODULE MCReadiness -----------------------------
(***************************************************************************)
(* A small instance of Readiness for TLC: it asks about versions of 1.    *)
(***************************************************************************)
EXTENDS Readiness

CONSTANTS any, low, high

None == [m \in Names |-> NoText]
On(n, t) == [None EXCEPT ![n] = t]

Accepting == [t \in Texts |-> CASE t = low -> {1} [] t = high -> {2} [] OTHER -> {1, 2}]

AskedAbout == {<<1, 1>>, <<1, 2>>}

\* The draft declares any of its own artifact, 2 and 3; version 1 of 1, all of 2
\* and all of 3 come published, as drafts, revived or deprecated, and depend on
\* each other.
DraftStarts ==
    {[status |-> [n \in Names |-> CASE n = 1 -> [v \in Vers |-> IF v = 1 THEN s1 ELSE "draft"]
                                    [] n = 2 -> [v \in Vers |-> IF v = 1 THEN "published" ELSE s2]
                                    [] n = 3 -> [v \in Vers |-> IF v = 1 THEN s3 ELSE "published"]
                                    [] OTHER -> [v \in Vers |-> "absent"]],
      deps |-> [n \in Names |-> CASE n = 1 -> [v \in Vers |-> IF v = 2 THEN d ELSE None]
                                  [] n = 2 -> [v \in Vers |-> IF v = 2 THEN d2 ELSE None]
                                  [] n = 3 -> [v \in Vers |-> d3]
                                  [] OTHER -> [v \in Vers |-> None]],
      manifests |-> {<<[name |-> 1, text |-> any]>>}] :
        s1 \in {"draft", "published"}, s2 \in {"published", "draft", "revived"},
        s3 \in {"published", "deprecated", "draft"},
        d \in {[m \in Names |-> CASE m = 1 -> t1 [] m = 2 -> t2 [] m = 3 -> t3
                                  [] OTHER -> NoText] :
                 t1 \in {NoText, any}, t2 \in {NoText, any, high},
                 t3 \in {NoText, any, low}},
        d2 \in {None, On(3, low), On(3, high), On(1, high), On(2, any)},
        d3 \in {None, On(2, any), On(2, low)}}
=============================================================================
