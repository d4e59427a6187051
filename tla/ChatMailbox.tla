---------------------------- MODULE ChatMailbox ----------------------------
(***************************************************************************)
(* What the chat-input queue promises to the people of a conversation: an  *)
(* input is posted, and either arrives at the agent, once and for good, or *)
(* is withdrawn; a withdrawn input is not at the agent, and its author may *)
(* reinstate it.  ChatInputs implements this.                              *)
(***************************************************************************)
CONSTANT Inputs

VARIABLE box    \* fate of each input

Fates == {"absent", "waiting", "arrived", "withdrawn"}

Init == box = [i \in Inputs |-> "absent"]

Post(i) ==
    /\ box[i] = "absent"
    /\ box' = [box EXCEPT ![i] = "waiting"]

Arrive(i) ==
    /\ box[i] = "waiting"
    /\ box' = [box EXCEPT ![i] = "arrived"]

\* One statement (Stop) can take back several inputs together.
Withdraw(S) ==
    /\ \A i \in S : box[i] = "waiting"
    /\ box' = [i \in Inputs |-> IF i \in S THEN "withdrawn" ELSE box[i]]

Reinstate(i) ==
    /\ box[i] = "withdrawn"
    /\ box' = [box EXCEPT ![i] = "waiting"]

Next ==
    \/ \E i \in Inputs : Post(i) \/ Arrive(i) \/ Reinstate(i)
    \/ \E S \in SUBSET Inputs : Withdraw(S)

Spec == Init /\ [][Next]_box
=============================================================================
