----------------------------- MODULE AckStream -----------------------------
(***************************************************************************)
(* What thinning TCP acknowledgements must preserve: of the numbers that   *)
(* the network stack offers for a connection not all are transmitted, but  *)
(* the highest one is in the end.                                          *)
(***************************************************************************)
LOCAL INSTANCE Naturals

CONSTANT Conns

VARIABLES offered, sent     \* the highest number of each connection so far

ackVars == <<offered, sent>>

Init == offered \in [Conns -> Nat] /\ sent = offered

Raised(f, g, c) == \A d \in Conns : g[d] = f[d] \/ (d = c /\ g[d] > f[d])

\* The stack offers a number, and it may go out at once.
Offer(c) ==
    /\ offered' \in [Conns -> Nat] /\ Raised(offered, offered', c)
    /\ sent' \in {sent, [sent EXCEPT ![c] = offered'[c]]}

\* What goes out later is the highest number of its connection.
Send(c) ==
    /\ sent[c] < offered[c]
    /\ sent' = [sent EXCEPT ![c] = offered[c]]
    /\ UNCHANGED offered

Next == \E c \in Conns : Offer(c) \/ Send(c)

Spec == Init /\ [][Next]_ackVars
=============================================================================
