----------------------------- MODULE MCTxQueue -----------------------------
(* A station with two data queues of U-APSD, or with a legacy one. *)
EXTENDS TxQueue, TLC

CONSTANTS be, vo, mg, f1, f2, f3, m1

MCData == <<vo, be>>
MCHwq == be :> "BE" @@ vo :> "VO" @@ mg :> "VO"
MCPsId == [q \in {be, vo, mg} |-> "uapsd"]
MCTid == [f \in Frames |-> IF f = f3 THEN vo ELSE IF f = m1 THEN mg ELSE be]

\* One data queue, which shares its hardware queue with the management frames.
MCOneData == <<vo>>
MCOneHwq == [q \in {vo, mg} |-> "VO"]
MCOnePsId == [q \in {vo, mg} |-> "legacy"]
MCOneTid == [f \in Frames |-> IF f = m1 THEN mg ELSE vo]
=============================================================================
