------------------------- MODULE MCWorkflowSchedule -------------------------
(***************************************************************************)
(* Instances of WorkflowSchedule for TLC.                                  *)
(***************************************************************************)
EXTENDS WorkflowSchedule

\* Which complications happen together, and how far the watches then lag:
\* without faults, and for one tick and one fault, as far as they can.
ManualRuns == {n \in Manual : created[n] > 0}
Lag == Len(watch.jobs) + Len(watch.runs) + Len(watch.status)

Scenarios ==
    /\ attempts[MaxTicks] > 0 => ManualRuns = {} /\ removed = {} /\ faults = 0 /\ Lag <= 1
    /\ removed # {} => ManualRuns = {} /\ faults = 0 /\ Lag <= 3
    /\ faults > 0 /\ ManualRuns # {} => Lag <= 2
    /\ faults > 1 => ManualRuns = {} /\ Lag <= 2
=============================================================================
