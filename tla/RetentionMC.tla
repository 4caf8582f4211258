----------------------------- MODULE RetentionMC ------------------------------
(* Retention on two projects; of the second one only the snapshots matter. *)
EXTENDS Retention

MCNotes == [p \in Projects |-> IF p \in Pruners THEN {1} ELSE {}]

\* Everything that is old goes and one snapshot of a directory stays, or only old
\* operations go.
MCPolicies ==
  {[keep |-> 1, ops |-> TRUE, tombs |-> TRUE], [keep |-> MaxSnaps, ops |-> TRUE, tombs |-> FALSE]}

\* For the claim, operations of both projects.
MCBoth == [p \in Projects |-> {1}]
=============================================================================
