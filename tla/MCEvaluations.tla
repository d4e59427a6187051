--------------------------- MODULE MCEvaluations ---------------------------
(***************************************************************************)
(* Instance of Evaluations for TLC.                                        *)
(***************************************************************************)
EXTENDS Evaluations

CONSTANTS w1, w2

MCWorkers == {w1, w2}
MCBudget == [kind \in Kinds |-> 1]

Suffered == {kind \in Kinds : spent[kind] > 0}

\* One mishap of any kind; with one slot and no deletion, two.  A pass that
\* outlives its lease comes alone, with one slot and no deletion.  Workers
\* differ in nothing but their names, and without such a pass one works at a
\* time: then it is w1.
Scenario ==
    /\ \/ Cardinality(Suffered) <= 1
       \/ /\ Cardinality(Suffered) = 2 /\ "slow" \notin Suffered
          /\ concurrency = 1 /\ ~deleting
    /\ spent["slow"] = 0 => pc[w2] = "idle"
    /\ spent["slow"] > 0 => concurrency = 1 /\ ~deleting /\ row # "gone"
=============================================================================
