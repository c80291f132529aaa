---------------------------- MODULE FrameCarrier ----------------------------
(***************************************************************************)
(* What the transmit path of the SDIO bus promises its callers: frames     *)
(* wait in one line for each priority, leave in the order of their         *)
(* priorities and within a priority in the order they came, and are lent   *)
(* to the firmware in bundles that never take more than Room of its        *)
(* buffers, those of the bundle being filled included.  A frame is in one  *)
(* place at a time and is handed over once; only a whole bundle is lost.   *)
(* A message overtakes the frames that wait, and never a bundle.           *)
(***************************************************************************)
EXTENDS Integers, Sequences, FiniteSets

CONSTANTS
    Frames,     \* the frames there are
    Prios,      \* the priorities, a set of naturals
    Prio,       \* Prio[f]: the priority of frame f
    Limit,      \* frames that may wait in a line
    Room,       \* buffers of the firmware that frames may occupy
    MayLose     \* TRUE: a bundle may get lost

VARIABLES
    waiting,    \* waiting[p]: the line of priority p
    bundle,     \* the frames taken for the next transfer, in order
    there,      \* the frames that occupy buffers of the firmware
    message     \* TRUE: a message waits

vars == <<waiting, bundle, there, message>>

Members(s) == {s[i] : i \in DOMAIN s}

InLines == UNION {Members(waiting[p]) : p \in Prios}

Held == InLines \cup Members(bundle) \cup there

Init ==
    /\ waiting = [p \in Prios |-> <<>>] /\ bundle = <<>>
    /\ there = {} /\ message = FALSE

Accept(f) ==
    /\ f \notin Held /\ Len(waiting[Prio[f]]) < Limit
    /\ waiting' = [waiting EXCEPT ![Prio[f]] = Append(@, f)]
    /\ UNCHANGED <<bundle, there, message>>

\* The first frame of line p is taken; no line of a higher priority is in use.
Load(p) ==
    /\ waiting[p] # <<>> /\ \A r \in Prios : waiting[r] # <<>> => r <= p
    /\ Cardinality(there) + Len(bundle) < Room
    /\ bundle' = Append(bundle, Head(waiting[p]))
    /\ waiting' = [waiting EXCEPT ![p] = Tail(@)]
    /\ UNCHANGED <<there, message>>

Transfer ==
    /\ bundle' = <<>>
    /\ there' = there \cup Members(bundle) \/ (MayLose /\ there' = there)
    /\ UNCHANGED <<waiting, message>>

Release(f) ==
    /\ f \in there /\ there' = there \ {f}
    /\ UNCHANGED <<waiting, bundle, message>>

Post == message' = TRUE /\ UNCHANGED <<waiting, bundle, there>>

Deliver ==
    /\ bundle = <<>> /\ message' = FALSE
    /\ UNCHANGED <<waiting, bundle, there>>

Next ==
    \/ \E f \in Frames : Accept(f) \/ Release(f)
    \/ \E p \in Prios : Load(p)
    \/ Transfer \/ Post \/ Deliver

Spec == Init /\ [][Next]_vars

=============================================================================
