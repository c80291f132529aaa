--------------------------- MODULE InOrderWindow ---------------------------
(***************************************************************************)
(* What a receive reorder window promises, in terms of the true numbers of *)
(* the frames: what arrives ahead of its turn is held, and is delivered    *)
(* in order as soon as everything before it has been delivered or has been *)
(* given up, because the window moved on or because a timer expired.       *)
(* A frame that was given up and still arrives is delivered at once or     *)
(* dropped; a frame that is held already is dropped.                       *)
(***************************************************************************)
EXTENDS Integers, Sequences

CONSTANTS
    Size,       \* frames from the first of the window to the last
    Numbers     \* the numbers frames may have, a set of naturals

VARIABLES
    next,   \* number of the frame whose turn it is, or None
    held,   \* numbers of the frames held
    out     \* numbers of the frames the last step delivered, in order

None == -1

\* s is the numbers of S in order.
InOrder(s, S) ==
    /\ s \in Seq(S) /\ S = {s[i] : i \in DOMAIN s}
    /\ \A i, j \in DOMAIN s : i < j => s[i] < s[j]

Init == next = None /\ held = {} /\ out = <<>>

\* From n on the held frames H follow each other without a gap up to the result.
EndOfRun(n, H) ==
    CHOOSE m \in {n} \cup {h + 1 : h \in H} :
        m >= n /\ m \notin H /\ n..(m - 1) \subseteq H

\* With H held, everything before n is delivered or given up.
MoveTo(n, H) ==
    LET m == EndOfRun(n, H)
    IN  /\ next' = m
        /\ InOrder(out', {h \in H : h < m})
        /\ held' = {h \in H : h >= m}

\* Frame n arrives in its turn or ahead of it.
Arrive(n) ==
    /\ next <= n /\ n \notin held
    /\ LET first == IF next = None THEN n ELSE next
           start == IF n >= first + Size THEN n - Size + 1 ELSE first
       IN  MoveTo(start, held \cup {n})

\* Frame n is late.
ArriveLate(n) == n < next /\ out' \in {<<>>, <<n>>} /\ UNCHANGED <<next, held>>

\* The frames before the first one held are given up.
GiveUp ==
    /\ held # {}
    /\ MoveTo(CHOOSE n \in held : \A h \in held : n <= h, held)

\* The window is given up.
Flush == next' = None /\ held' = {} /\ InOrder(out', held)

\* Frame n is outside the window's control.
Bypass(n) == next = None /\ out' = <<n>> /\ UNCHANGED <<next, held>>

Quiet == out' = <<>> /\ UNCHANGED <<next, held>>

Next ==
    \/ \E n \in Numbers : Arrive(n) \/ ArriveLate(n) \/ Bypass(n)
    \/ GiveUp \/ Flush \/ Quiet

Spec == Init /\ [][Next]_<<next, held, out>>

=============================================================================
