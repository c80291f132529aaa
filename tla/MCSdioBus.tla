----------------------------- MODULE MCSdioBus ------------------------------
(***************************************************************************)
(* SdioBus for TLC: frames of one priority.                                *)
(***************************************************************************)
EXTENDS SdioBus, TLC

MCPrio == [f \in Frames |-> 0]

\* Callers are alike, frames too.
Symmetric == Permutations(Callers) \cup Permutations(Frames)

=============================================================================
