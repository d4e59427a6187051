-------------------------- MODULE WorkflowLifecycle --------------------------
(***************************************************************************)
(* What a workflow run promises to the people who start it and to the      *)
(* conversation that subscribed to it: it is queued, admitted with one     *)
(* session and prompted at most once; its end is final; its result is      *)
(* handed over at most once, and only as it ended.  WorkflowRuns           *)
(* implements this.                                                        *)
(***************************************************************************)
CONSTANTS Sessions, NoSession

VARIABLES phase, session, prompted, result

Ends == {"Succeeded", "Failed", "Unacked"}
NoResult == "None"

Init ==
    /\ phase = "Unknown"
    /\ session = NoSession
    /\ prompted = FALSE
    /\ result = NoResult

Queue ==
    /\ phase = "Unknown"
    /\ phase' = "Pending"
    /\ UNCHANGED <<session, prompted, result>>

Admit ==
    /\ phase = "Pending"
    /\ phase' = "Running"
    /\ session' \in Sessions
    /\ UNCHANGED <<prompted, result>>

Prompt ==
    /\ phase = "Running"
    /\ ~prompted
    /\ prompted' = TRUE
    /\ UNCHANGED <<phase, session, result>>

\* Only an admitted run can succeed or end unacknowledged.
End ==
    /\ phase \notin Ends
    /\ phase' \in Ends
    /\ phase' # "Failed" => phase = "Running"
    /\ UNCHANGED <<session, prompted, result>>

HandOver ==
    /\ phase \in Ends
    /\ result = NoResult
    /\ result' = phase
    /\ UNCHANGED <<phase, session, prompted>>

Next == Queue \/ Admit \/ Prompt \/ End \/ HandOver

Spec == Init /\ [][Next]_<<phase, session, prompted, result>>
=============================================================================
