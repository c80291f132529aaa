------------------------------ MODULE MCSdioTx ------------------------------
(***************************************************************************)
(* SdioTx for TLC: four frames of two priorities; callers are alike.      *)
(***************************************************************************)
EXTENDS SdioTx, TLC

CONSTANTS f1, f2, f3, f4

MCFrames == {f1, f2, f3, f4}

MCPrio == (f1 :> 0) @@ (f2 :> 1) @@ (f3 :> 1) @@ (f4 :> 0)

\* Callers are alike, and so are the frames of one priority.
Symmetric == Permutations(Callers) \cup Permutations({f2, f3})
             \cup Permutations({f1, f4})

=============================================================================
