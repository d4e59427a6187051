---------------------------- MODULE CodingLedger ----------------------------
(***************************************************************************)
(* What the rows of coding_operations promise to the browser: a request is *)
(* accepted once, one operation of the project runs at a time, progress is *)
(* reported only while it runs, and the end is final.  CodingOperations    *)
(* implements this.                                                        *)
(***************************************************************************)
CONSTANTS Ops, Outcomes, NoOutcome

VARIABLES state, outcome

Ends == {"succeeded", "failed", "interrupted"}

Init ==
    /\ state = [o \in Ops |-> "absent"]
    /\ outcome = [o \in Ops |-> NoOutcome]

Accept(o) ==
    /\ state[o] = "absent"
    /\ state' = [state EXCEPT ![o] = "queued"]
    /\ UNCHANGED outcome

Run(o) ==
    /\ state[o] = "queued"
    /\ \A q \in Ops : state[q] # "running"
    /\ state' = [state EXCEPT ![o] = "running"]
    /\ UNCHANGED outcome

Reported(o) ==
    /\ outcome'[o] \in Outcomes
    /\ outcome' = [outcome EXCEPT ![o] = outcome'[o]]

Report(o) ==
    /\ state[o] = "running"
    /\ Reported(o)
    /\ UNCHANGED state

End(o) ==
    /\ state[o] = "running"
    /\ \E e \in Ends : state' = [state EXCEPT ![o] = e]
    /\ Reported(o)

Forget(o) ==
    /\ state[o] \in Ends
    /\ state' = [state EXCEPT ![o] = "pruned"]
    /\ UNCHANGED outcome

Next == \E o \in Ops : Accept(o) \/ Run(o) \/ Report(o) \/ End(o) \/ Forget(o)

Spec == Init /\ [][Next]_<<state, outcome>>
=============================================================================
