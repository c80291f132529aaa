------------------------------- MODULE SdioRx -------------------------------
(***************************************************************************)
(* The receive path of the SDIO bus (aicwf_sdio.c, aicwf_txrxif.c): the    *)
(* interrupt handler reads a block and puts it on rx_priv->rxq; the busrx  *)
(* thread takes the blocks off and processes them.  The handler wakes the  *)
(* thread only when the counter rx_cnt, kept apart from the queue and its  *)
(* lock, reads one.                                                        *)
(*                                                                         *)
(* A critical section under rxqlock is one step; what happens before and   *)
(* after it is a step of its own.                                          *)
(***************************************************************************)
EXTENDS Integers

CONSTANTS
    MaxRxQLen,  \* MAX_RXQLEN, the limit of rxq
    MayFail,    \* TRUE: kmalloc of a message may fail in the rx thread
    RxTrggMax   \* bound: no interrupt while so many completions are pending

ASSUME SdioRxAssumption ==
    /\ MaxRxQLen \in Nat \ {0}
    /\ MayFail \in BOOLEAN
    /\ RxTrggMax \in Nat

VARIABLES
    rx_cnt,     \* rx_priv->rx_cnt
    rxq,        \* length of rx_priv->rxq, a frame_queue of one priority
    rxTrgg,     \* completions of busrx_trgg not yet waited for
    irq,        \* where the interrupt handler is
    rxpc        \* where the busrx thread is

rxVars == <<rxq, rx_cnt, rxTrgg, irq, rxpc>>

RxTypeOK ==
    /\ rxq \in 0..MaxRxQLen
    /\ rx_cnt \in Int
    /\ rxTrgg \in Nat
    /\ irq \in {"idle", "enq", "count", "check"}
    /\ rxpc \in {"wait", "loop", "process", "power"}

RxInit ==
    /\ rxq = 0
    /\ rx_cnt = 0
    /\ rxTrgg = 0
    /\ irq = "idle"
    /\ rxpc = "wait"

-----------------------------------------------------------------------------
(* aicwf_sdio_hal_irqhandler, in the one SDIO interrupt thread.            *)

\* An interrupt: a block is read, or there is none (or no memory for it).
Interrupt ==
    /\ irq = "idle"
    /\ rxTrgg < RxTrggMax
    /\ irq' \in {"enq", "check"}
    /\ UNCHANGED <<rxq, rx_cnt, rxTrgg, rxpc>>

\* aicwf_sdio_enq_rxpkt under rxqlock: a full queue drops the block.
EnqRxpkt ==
    /\ irq = "enq"
    /\ IF rxq < MaxRxQLen
       THEN rxq' = rxq + 1 /\ irq' = "count"
       ELSE irq' = "check" /\ UNCHANGED rxq
    /\ UNCHANGED <<rx_cnt, rxTrgg, rxpc>>

\* The counter is raised after rxqlock is released.
CountRxpkt ==
    /\ irq = "count"
    /\ rx_cnt' = rx_cnt + 1
    /\ irq' = "check"
    /\ UNCHANGED <<rxq, rxTrgg, rxpc>>

\* Wrong variant: the thread is woken when a second block is queued.
TriggerRxMut ==
    /\ irq = "check"
    /\ rxTrgg' = IF rx_cnt = 2 THEN rxTrgg + 1 ELSE rxTrgg
    /\ irq' = "idle"
    /\ UNCHANGED <<rxq, rx_cnt, rxpc>>

TriggerRx ==
    /\ irq = "check"
    /\ rxTrgg' = IF rx_cnt = 1 THEN rxTrgg + 1 ELSE rxTrgg
    /\ irq' = "idle"
    /\ UNCHANGED <<rxq, rx_cnt, rxpc>>

-----------------------------------------------------------------------------
(* sdio_busrx_thread and aicwf_process_rxframes.                           *)

RxWake ==
    /\ rxpc = "wait" /\ rxTrgg > 0
    /\ rxTrgg' = rxTrgg - 1
    /\ rxpc' = "loop"
    /\ UNCHANGED <<rxq, rx_cnt, irq>>

RxTake ==
    /\ rxpc = "loop" /\ rxq > 0
    /\ rxq' = rxq - 1
    /\ rxpc' = "process"
    /\ UNCHANGED <<rx_cnt, rxTrgg, irq>>

RxEmpty ==
    /\ rxpc = "loop" /\ rxq = 0
    /\ rxpc' = "power"
    /\ UNCHANGED <<rxq, rx_cnt, rxTrgg, irq>>

\* The block is processed, freed and counted off.
RxDone ==
    /\ rxpc = "process"
    /\ rx_cnt' = rx_cnt - 1
    /\ rxpc' = "loop"
    /\ UNCHANGED <<rxq, rxTrgg, irq>>

\* kmalloc failed: the thread leaves at once and does not count the block off.
RxFail ==
    /\ MayFail
    /\ rxpc = "process"
    /\ rxpc' = "wait"
    /\ UNCHANGED <<rxq, rx_cnt, rxTrgg, irq>>

\* aicwf_sdio_pwr_stctl(SDIO_ACTIVE_ST) once the queue is empty.
RxPower ==
    /\ rxpc = "power"
    /\ rxpc' = "wait"
    /\ UNCHANGED <<rxq, rx_cnt, rxTrgg, irq>>

-----------------------------------------------------------------------------

IrqStep == Interrupt \/ EnqRxpkt \/ CountRxpkt \/ TriggerRx
RxStep == RxWake \/ RxTake \/ RxEmpty \/ RxDone \/ RxFail \/ RxPower

RxNext == IrqStep \/ RxStep

RxSpec == RxInit /\ [][RxNext]_rxVars

\* The handler runs to its end, the thread runs when it is woken.
RxFairness == WF_rxVars(EnqRxpkt \/ CountRxpkt \/ TriggerRx) /\ WF_rxVars(RxStep)

RxFairSpec == RxSpec /\ RxFairness

-----------------------------------------------------------------------------

(***************************************************************************)
(* The counter the wakeup and the power control go by is the number of     *)
(* blocks queued or in process, except between the enqueueing of a block   *)
(* and its counting, when the thread may even count it off first.          *)
(***************************************************************************)
CountInStep ==
    rx_cnt = rxq + (IF rxpc = "process" THEN 1 ELSE 0)
                 - (IF irq = "count" THEN 1 ELSE 0)

(***************************************************************************)
(* No block is stranded: the thread never waits, without a wakeup pending, *)
(* over a queue in use, once the interrupt handler has returned ("rx_cnt   *)
(* == 1" is tested after the queue's lock is released and the thread may   *)
(* have run in between).                                                   *)
(***************************************************************************)
NotStranded ==
    rxpc = "wait" /\ rxTrgg = 0 /\ irq = "idle" => rxq = 0

\* Stronger: a sleeping thread and a used queue mean that the handler is on its way.
OnlyNewBlockWaits ==
    rxpc \in {"wait", "power"} /\ rxTrgg = 0 /\ rxq > 0 =>
        rxq = 1 /\ irq \in {"count", "check"}

\* The inductive invariant, without allocation failures.
RxIndInv ==
    /\ RxTypeOK
    /\ CountInStep
    /\ OnlyNewBlockWaits

(***************************************************************************)
(* Liveness, under RxFairSpec: a queued block is eventually taken by the   *)
(* thread, whatever the interleaving with further interrupts.              *)
(***************************************************************************)
BlocksTaken == rxq > 0 ~> rxpc = "process"

=============================================================================
