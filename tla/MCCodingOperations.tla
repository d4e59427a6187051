------------------------- MODULE MCCodingOperations -------------------------
(* Instance of CodingOperations for TLC. *)
EXTENDS CodingOperations

\* Workers are interchangeable in every safety property.
WorkerSymmetry == Permutations(Workers)

Requested == {o \in Ops : st[o] # "absent"}

\* The safety run explores the union of two scenarios, with two mishaps at most:
\* one operation of any kind with an agent that works on; and two operations
\* that race while the project lock may be lost.
Scenarios ==
    /\ edits + pushes + faults + losses <= 2
    /\ \/ Requested \subseteq {1} /\ losses = 0
       \/ /\ \A o \in Requested :
                /\ req[o].action \in {"commit_push", "pull"}
                /\ ~req[o].staged /\ ~req[o].feature
          /\ edits = 0
=============================================================================
