----------------------------- MODULE CmdChannel -----------------------------
(***************************************************************************)
(* What the command manager promises, whoever pushes: a channel to the     *)
(* firmware that carries one command at a time, in the order in which the  *)
(* commands were accepted, confirms the command that is outstanding and no *)
(* other, and accepts nothing more once it is dead.                        *)
(***************************************************************************)
EXTENDS Naturals, Sequences

CONSTANTS Slots     \* the commands

VARIABLES
    pending,        \* accepted, not yet handed to the transmit path, in order
    outstanding,    \* handed over and not confirmed
    answered,       \* confirmed and not yet retired by the waiting thread
    dead            \* a wait timed out

chanVars == <<pending, outstanding, answered, dead>>

Held == {pending[i] : i \in DOMAIN pending} \cup outstanding \cup answered

Init ==
    /\ pending = <<>>
    /\ outstanding = {}
    /\ answered = {}
    /\ dead = FALSE

Accept(c) ==
    /\ ~dead /\ c \notin Held
    /\ pending' = Append(pending, c)
    /\ UNCHANGED <<outstanding, answered, dead>>

\* Nobody is ahead: the command does not wait its turn.
AcceptAndIssue(c) ==
    /\ ~dead /\ c \notin Held
    /\ pending = <<>> /\ outstanding = {}
    /\ outstanding' = {c}
    /\ UNCHANGED <<pending, answered, dead>>

\* The oldest accepted command, once nothing is outstanding or unretired.
Issue ==
    /\ pending # <<>> /\ outstanding = {} /\ answered = {}
    /\ outstanding' = {Head(pending)}
    /\ pending' = Tail(pending)
    /\ UNCHANGED <<answered, dead>>

Confirm(c) ==
    /\ c \in outstanding
    /\ outstanding' = outstanding \ {c}
    /\ answered' = answered \cup {c}
    /\ UNCHANGED <<pending, dead>>

Retire(c) ==
    /\ c \in answered
    /\ answered' = answered \ {c}
    /\ UNCHANGED <<pending, outstanding, dead>>

Die ==
    /\ dead' = TRUE
    /\ UNCHANGED <<pending, outstanding, answered>>

Next ==
    \/ \E c \in Slots : \/ Accept(c)
                        \/ AcceptAndIssue(c)
                        \/ Confirm(c)
                        \/ Retire(c)
    \/ Issue
    \/ Die

Spec == Init /\ [][Next]_chanVars

=============================================================================
