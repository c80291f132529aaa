------------------------------- MODULE SdioTx -------------------------------
(***************************************************************************)
(* The transmit path of the SDIO bus (aicwf_sdio.c): callers hand over     *)
(* data frames (aicwf_sdio_bus_txdata) and command messages                *)
(* (aicwf_sdio_bus_txmsg); the bustx thread sends a pending command first  *)
(* and then collects frames into one aggregation buffer, as many as the    *)
(* firmware has buffers for, and sends the buffer when the last frame is   *)
(* in it, when the credit is used up or when a command is pending.         *)
(*                                                                         *)
(* Every access to a variable that two threads use is a step of its own;   *)
(* what happens under txqlock or cmd_txsema is split where a thread can    *)
(* look without the lock.  The power state of the bus is a parameter of    *)
(* two steps; SdioBus supplies it, here the bus is awake.                  *)
(***************************************************************************)
EXTENDS Integers, Sequences, FiniteSets, FrameQueue

CONSTANTS
    Frames,     \* the data frames the network stack may have in flight
    Prio,       \* Prio[f]: skb->priority & 7 of frame f
    Callers,    \* contexts that call txdata or txmsg
    FwBufs,     \* receive buffers of the firmware
    Thresh,     \* DATA_FLOW_CTRL_THRESH, buffers never asked for
    AggrMax,    \* tx_aggr_counter, upper bound of the credit
    TxMayFail,  \* TRUE: SDIO reads and writes may fail
    TrggMax     \* bound: no call while so many completions are pending

ASSUME SdioTxAssumption ==
    /\ NumPrio \in Nat \ {0}
    /\ QMax \in Nat \ {0}
    /\ Prio \in [Frames -> Prios]
    /\ FwBufs \in Nat /\ Thresh \in Nat /\ AggrMax \in Nat
    /\ Thresh < AggrMax /\ Thresh < FwBufs
    /\ TxMayFail \in BOOLEAN
    /\ TrggMax \in Nat

VARIABLES
    txq,        \* tx_priv->txq
    tx_pktcnt,  \* frames queued or being put into the buffer
    cmd_txstate,\* a command message waits in tx_priv->cmd_buf
    txTrgg,     \* completions of bustx_trgg not yet waited for
    call,       \* where each caller is
    txpc,       \* where the bustx thread is
    avail,      \* fw_avail_bufcnt
    aggr,       \* frames in the aggregation buffer
    txnow,      \* argument of aicwf_sdio_send
    inFw        \* frames that occupy a buffer of the firmware

txVars == <<txq, tx_pktcnt, cmd_txstate, txTrgg, call, txpc, avail, aggr, txnow, inFw>>

InBuffer == {aggr[i] : i \in DOMAIN aggr}

\* Frames the network stack can hand over.
Unsent == Frames \ (FramesIn(txq) \cup InBuffer \cup inFw)

TxTypeOK ==
    /\ txq \in Queues(Frames)
    /\ tx_pktcnt \in Int
    /\ cmd_txstate \in BOOLEAN
    /\ txTrgg \in Nat
    /\ call \in [Callers -> {"idle", "count", "trigger"}]
    /\ txpc \in {"wait", "power", "cmd", "cmdstate", "cmdwrite", "data", "credit",
                 "loop", "pick", "send", "flush", "uncount"}
    /\ avail \in Int
    /\ aggr \in Seq(Frames)
    /\ txnow \in BOOLEAN
    /\ inFw \in SUBSET Frames

TxInit ==
    /\ txq = EmptyQueue
    /\ tx_pktcnt = 0
    /\ cmd_txstate = FALSE
    /\ txTrgg = 0
    /\ call = [c \in Callers |-> "idle"]
    /\ txpc = "wait"
    /\ avail = 0
    /\ aggr = <<>>
    /\ txnow = FALSE
    /\ inFw = {}

-----------------------------------------------------------------------------
(* The callers.                                                            *)

Calling == {c \in Callers : call[c] # "idle"}

MayCall(c) ==
    /\ call[c] = "idle"
    /\ txTrgg + Cardinality(Calling) < TrggMax

\* txqlock is held by a caller between queueing a frame and counting it.
TxqLockFree == \A c \in Callers : call[c] # "count"

\* aicwf_sdio_bus_txdata: queue the frame; a full queue drops it.
Txdata(c) ==
    /\ MayCall(c) /\ TxqLockFree
    /\ \E f \in Unsent :
        /\ Accepts(txq, Prio[f])
        /\ txq' = Enq(txq, Prio[f], f)
        /\ call' = [call EXCEPT ![c] = "count"]
    /\ UNCHANGED <<tx_pktcnt, cmd_txstate, txTrgg, txpc, avail, aggr, txnow, inFw>>

Count(c) ==
    /\ call[c] = "count"
    /\ tx_pktcnt' = tx_pktcnt + 1
    /\ call' = [call EXCEPT ![c] = "trigger"]
    /\ UNCHANGED <<txq, cmd_txstate, txTrgg, txpc, avail, aggr, txnow, inFw>>

\* aicwf_sdio_bus_txmsg, under cmd_txsema: the tx thread is not sending a command.
Txmsg(c) ==
    /\ MayCall(c)
    /\ txpc # "cmdwrite"
    /\ cmd_txstate' = TRUE
    /\ call' = [call EXCEPT ![c] = "trigger"]
    /\ UNCHANGED <<txq, tx_pktcnt, txTrgg, txpc, avail, aggr, txnow, inFw>>

\* complete(&bus_if->bustx_trgg), the last step of both calls.
Trigger(c) ==
    /\ call[c] = "trigger"
    /\ txTrgg' = txTrgg + 1
    /\ call' = [call EXCEPT ![c] = "idle"]
    /\ UNCHANGED <<txq, tx_pktcnt, cmd_txstate, txpc, avail, aggr, txnow, inFw>>

CallerStep(c) == Txdata(c) \/ Count(c) \/ Txmsg(c) \/ Trigger(c)

-----------------------------------------------------------------------------
(* sdio_bustx_thread and aicwf_sdio_tx_process.                            *)

Wake ==
    /\ txpc = "wait" /\ txTrgg > 0
    /\ txTrgg' = txTrgg - 1
    /\ txpc' = IF tx_pktcnt > 0 \/ cmd_txstate THEN "power" ELSE "wait"
    /\ UNCHANGED <<txq, tx_pktcnt, cmd_txstate, call, avail, aggr, txnow, inFw>>

\* aicwf_sdio_pwr_stctl(SDIO_ACTIVE_ST); SdioBus adds what it does.
PowerUp ==
    /\ txpc = "power"
    /\ txpc' = "cmd"
    /\ UNCHANGED <<txq, tx_pktcnt, cmd_txstate, txTrgg, call, avail, aggr, txnow, inFw>>

LookForCmd ==
    /\ txpc = "cmd"
    /\ txpc' = IF cmd_txstate THEN "cmdstate" ELSE "data"
    /\ UNCHANGED <<txq, tx_pktcnt, cmd_txstate, txTrgg, call, avail, aggr, txnow, inFw>>

\* "state err": the thread leaves when the bus is not ACTIVE.
CheckState(active) ==
    /\ \/ /\ txpc = "cmdstate"
          /\ txpc' = IF active THEN "cmdwrite" ELSE "wait"
       \/ /\ txpc = "data"
          /\ txpc' = IF active THEN "credit" ELSE "wait"
    /\ UNCHANGED <<txq, tx_pktcnt, cmd_txstate, txTrgg, call, avail, aggr, txnow, inFw>>

\* aicwf_sdio_tx_msg under cmd_txsema: sent or failed, the command is done with.
TxMsg ==
    /\ txpc = "cmdwrite"
    /\ cmd_txstate' = FALSE
    /\ txpc' = "data"
    /\ UNCHANGED <<txq, tx_pktcnt, txTrgg, call, avail, aggr, txnow, inFw>>

-----------------------------------------------------------------------------
(* The data part.                                                          *)

\* What aicwf_sdio_flow_ctrl returns: a credit above the threshold, or none.
Credits ==
    LET free == FwBufs - Cardinality(inFw)
    IN  {IF free <= Thresh THEN -free ELSE IF free > AggrMax THEN AggrMax ELSE free}
        \cup (IF TxMayFail THEN {-1} ELSE {})

\* The credit is read once before the loop, if there is a frame.
FirstCredit ==
    /\ txpc = "credit"
    /\ IF IsEmpty(txq) THEN UNCHANGED avail ELSE avail' \in Credits
    /\ txpc' = "loop"
    /\ UNCHANGED <<txq, tx_pktcnt, cmd_txstate, txTrgg, call, aggr, txnow, inFw>>

\* The loop goes on as long as the queue, read without its lock, is in use.
Loop ==
    /\ txpc = "loop"
    /\ txpc' = IF IsEmpty(txq) THEN "wait" ELSE "pick"
    /\ UNCHANGED <<txq, tx_pktcnt, cmd_txstate, txTrgg, call, avail, aggr, txnow, inFw>>

\* Wrong variant: the loop waits for credit although a command is pending.
NoCreditMut ==
    /\ txpc = "pick" /\ avail <= Thresh
    /\ avail' \in Credits
    /\ txpc' = "loop"
    /\ UNCHANGED <<txq, tx_pktcnt, cmd_txstate, txTrgg, call, aggr, txnow, inFw>>

\* Without credit the thread asks again, unless a command is pending.
NoCredit ==
    /\ txpc = "pick" /\ avail <= Thresh
    /\ IF cmd_txstate
       THEN txpc' = "wait" /\ UNCHANGED avail
       ELSE txpc' = "loop" /\ avail' \in Credits
    /\ UNCHANGED <<txq, tx_pktcnt, cmd_txstate, txTrgg, call, aggr, txnow, inFw>>

\* Wrong variant: a pending command ends the loop before a frame is sent.
PickMut ==
    /\ txpc = "pick" /\ avail > Thresh
    /\ txnow' = FALSE
    /\ txpc' = IF cmd_txstate THEN "wait" ELSE "send"
    /\ UNCHANGED <<txq, tx_pktcnt, cmd_txstate, txTrgg, call, avail, aggr, inFw>>

\* aicwf_sdio_send is called; a pending command makes it the last call.
Pick ==
    /\ txpc = "pick" /\ avail > Thresh
    /\ txnow' = cmd_txstate
    /\ txpc' = "send"
    /\ UNCHANGED <<txq, tx_pktcnt, cmd_txstate, txTrgg, call, avail, aggr, inFw>>

\* Under txqlock a frame goes from the queue to the aggregation buffer.
TakeFrame ==
    /\ txpc = "send"
    /\ TxqLockFree
    /\ CanDequeue(txq)
    /\ aggr' = Append(aggr, HeadFrame(txq))
    /\ txq' = Dequeue(txq)
    /\ txpc' = "flush"
    /\ UNCHANGED <<tx_pktcnt, cmd_txstate, txTrgg, call, avail, txnow, inFw>>

\* Wrong variant: the counter is taken for one without the frame in hand.
BufferCompleteMut == tx_pktcnt = 0 \/ txnow \/ Len(aggr) = avail - Thresh

\* The buffer is complete: the last frame, a command pending, no more credit.
BufferComplete == tx_pktcnt = 1 \/ txnow \/ Len(aggr) = avail - Thresh

\* Wrong variant: the credit is not used up.
AggrSendMut ==
    /\ txpc = "flush"
    /\ IF BufferComplete
       THEN /\ aggr' = <<>>
            /\ inFw' \in {inFw \cup InBuffer} \cup (IF TxMayFail THEN {inFw} ELSE {})
       ELSE UNCHANGED <<aggr, inFw>>
    /\ txpc' = "uncount"
    /\ UNCHANGED <<txq, tx_pktcnt, cmd_txstate, txTrgg, call, avail, txnow>>

\* aicwf_sdio_aggr_send: when the transfer fails the frames are lost.
AggrSend ==
    /\ txpc = "flush"
    /\ IF BufferComplete
       THEN /\ avail' = avail - Len(aggr)
            /\ aggr' = <<>>
            /\ inFw' \in {inFw \cup InBuffer} \cup (IF TxMayFail THEN {inFw} ELSE {})
       ELSE UNCHANGED <<avail, aggr, inFw>>
    /\ txpc' = "uncount"
    /\ UNCHANGED <<txq, tx_pktcnt, cmd_txstate, txTrgg, call, txnow>>

Uncount ==
    /\ txpc = "uncount"
    /\ tx_pktcnt' = tx_pktcnt - 1
    /\ txpc' = IF txnow THEN "wait" ELSE "loop"
    /\ UNCHANGED <<txq, cmd_txstate, txTrgg, call, avail, aggr, txnow, inFw>>

TxStep(active) ==
    \/ Wake \/ PowerUp \/ LookForCmd \/ CheckState(active) \/ TxMsg
    \/ FirstCredit \/ Loop \/ NoCredit \/ Pick
    \/ TakeFrame \/ AggrSend \/ Uncount

\* The firmware has passed a frame on and its buffer is free again.
FwDone(f) ==
    /\ f \in inFw
    /\ inFw' = inFw \ {f}
    /\ UNCHANGED <<txq, tx_pktcnt, cmd_txstate, txTrgg, call, txpc, avail, aggr, txnow>>

-----------------------------------------------------------------------------

TxNext ==
    \/ \E c \in Callers : CallerStep(c)
    \/ TxStep(TRUE)
    \/ \E f \in Frames : FwDone(f)

TxSpec == TxInit /\ [][TxNext]_txVars

\* A call that was begun ends; the thread runs when it is woken.
ThreadFairness ==
    /\ \A c \in Callers : WF_txVars(Count(c) \/ Trigger(c))
    /\ WF_txVars(TxStep(TRUE))

\* Nothing makes the firmware pass frames on: it may keep its buffers for ever.
TxFairSpec == TxSpec /\ ThreadFairness

-----------------------------------------------------------------------------
(* Safety.                                                                 *)

(***************************************************************************)
(* The hint and the counter of the frame queue agree with its lists in     *)
(* every interleaving of aicwf_sdio_bus_txdata with the thread, which      *)
(* tests the queue for emptiness without the lock.                         *)
(***************************************************************************)
QueueInStep == InStep(txq)

(***************************************************************************)
(* The credit is honoured: what is in the firmware and in the aggregation  *)
(* buffer never takes the last DATA_FLOW_CTRL_THRESH buffers, although     *)
(* fw_avail_bufcnt is read once for many frames.                           *)
(***************************************************************************)
ReserveKept ==
    Cardinality(inFw) + Len(aggr) <= FwBufs - Thresh

(***************************************************************************)
(* Nothing is held back: whenever the thread waits, every frame it took    *)
(* from the queue has been sent.  The test for the last frame, tx_pktcnt   *)
(* = 1, is not atomic with the emptiness test that ends the loop.          *)
(***************************************************************************)
NothingHeldBack ==
    txpc \in {"wait", "power", "cmd", "cmdstate", "cmdwrite", "data"} => aggr = <<>>

(***************************************************************************)
(* Nothing is forgotten: when the thread waits and no wakeup is pending or *)
(* about to come, there is neither a frame nor a command to send, although *)
(* the thread leaves its loop early for a command and drops spurious       *)
(* wakeups on the word of a counter kept apart from the queue.             *)
(***************************************************************************)
NothingForgotten ==
    txpc = "wait" /\ txTrgg = 0 /\ Calling = {} =>
        FramesIn(txq) = {} /\ ~cmd_txstate

-----------------------------------------------------------------------------
(* Steps.                                                                  *)

(***************************************************************************)
(* A frame goes to the firmware before every frame of lower priority that  *)
(* was queued when it was taken (the hint hi_prio is only a hint).         *)
(***************************************************************************)
HighestFirst ==
    [][Len(aggr') > Len(aggr) =>
        \A f \in FramesIn(txq') : Prio[f] <= Prio[aggr'[Len(aggr')]]]_txVars

(***************************************************************************)
(* The callers' view of aicwf_sdio_bus_txdata and aicwf_sdio_bus_txmsg:    *)
(* the queue behind its hint and counter, the credit read once and counted *)
(* down, and the walk of the thread together implement the carrier of      *)
(* FrameCarrier, with every interleaving of callers, thread and firmware.  *)
(***************************************************************************)
Carrier == INSTANCE FrameCarrier WITH
    waiting <- txq.list, bundle <- aggr, there <- inFw, message <- cmd_txstate,
    Limit <- QMax, Room <- FwBufs - Thresh, MayLose <- TxMayFail

ImplementsCarrier == Carrier!Spec

-----------------------------------------------------------------------------
(* Liveness, under TxFairSpec.                                             *)

(***************************************************************************)
(* A command is sent even if the firmware never gives back a data buffer:  *)
(* data that cannot be sent does not hold it up.                           *)
(***************************************************************************)
CommandsGo == cmd_txstate ~> ~cmd_txstate

(***************************************************************************)
(* If the firmware passes frames on and reads of the credit fail finitely  *)
(* often, a frame of the highest priority leaves the queue, although       *)
(* commands may keep coming (lower priorities may starve).                 *)
(***************************************************************************)
UrgentFramesGo ==
    (\A f \in Frames : []<>(f \notin inFw)) /\ <>[](avail # -1) =>
        \A f \in Frames :
            Prio[f] = NumPrio - 1 => (f \in FramesIn(txq) ~> f \notin FramesIn(txq))

=============================================================================
