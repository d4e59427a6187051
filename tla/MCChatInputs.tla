---------------------------- MODULE MCChatInputs ----------------------------
(* Instance of ChatInputs for TLC. *)
EXTENDS ChatInputs, TLC

\* Goroutines, and direct prompts, are interchangeable in every safety
\* property.
Symmetry == Permutations(Proc) \cup Permutations(Direct)

\* The safety run explores the union of these scenarios.
Scenario(inputs, origins, attempts, failed, stopped, lost, bypassing) ==
    /\ \A i \in Inputs : i > inputs => st[i] = "absent"
    /\ \A i \in Inputs : st[i] # "absent" => origin[i] \in origins
    /\ \A i \in Inputs : att[i] <= attempts
    /\ faults <= failed /\ stops <= stopped /\ losses <= lost
    /\ Cardinality({d \in Direct : direct[d] # "none"}) <= bypassing

Steered == {i \in Inputs : delivery[i] = "steer"}

Scenarios ==
    \* one message of a person: errors, crashes, a lost lock and retries ...
    \/ Scenario(1, {"user"}, 3, 2, 0, 1, 0)
    \* ... and a Stop, with an error or crash or with a lost lock
    \/ Scenario(1, {"user"}, 2, 1, 1, 1, 0) /\ faults + losses <= 1
    \* two messages of people, and a steer or a Stop
    \/ Scenario(2, {"user"}, 1, 0, 1, 0, 0) /\ (stops = 0 \/ Steered = {})
    \* two messages of people, and a lost lock
    \/ Scenario(2, {"user"}, 1, 0, 0, 1, 0)
    \* messages of people among notifications of workflows, and a Stop
    \/ /\ Scenario(2, {"user", "background"}, 1, 0, 1, 0, 0)
       /\ stops = 0 \/ (Steered = {} /\ \E i \in Inputs : ~User(i))
    \* a message and a Stop beside a prompt that bypasses the queue
    \/ Scenario(1, {"user", "background"}, 1, 0, 1, 0, 1)
=============================================================================
