--------------------------- MODULE MCWorkflowRuns ---------------------------
(***************************************************************************)
(* Instances of WorkflowRuns for TLC.                                      *)
(***************************************************************************)
EXTENDS WorkflowRuns

Run(delivery, scheduled, trigger) ==
    [delivery |-> delivery, scheduled |-> scheduled, trigger |-> trigger]

\* A run a person started, a run of a schedule whose result a conversation
\* awaits, and one that records a trigger that failed.
Manual == Run(FALSE, FALSE, FALSE)
Bound == Run(TRUE, TRUE, FALSE)
Untriggered == Run(TRUE, TRUE, TRUE)

MixedRuns == {Manual, Bound, Untriggered}
ManualRuns == {Manual}

\* At most one crash or failed call.  A conversation, or a run it awaits, is
\* deleted, and nodes are reported, where nothing else goes wrong.
Scenarios ==
    /\ crashes + faults <= 1
    /\ ~open \/ (Obj.delivery /\ Obj.deleting) => crashes + faults = 0
    /\ Obj.nodes # <<>> => crashes + faults = 0 /\ ~Obj.deleting /\ ~Obj.delivery
=============================================================================
