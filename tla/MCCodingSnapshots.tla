-------------------------- MODULE MCCodingSnapshots --------------------------
(***************************************************************************)
(* Instances of CodingSnapshots for TLC.                                   *)
(***************************************************************************)
EXTENDS CodingSnapshots

\* The second operation begins after the first, and where nobody removes the
\* worktree.
Scenarios == ops[2].pc # "start" => ops[1].pc # "start" /\ removals = 0
=============================================================================
