------------------------------ MODULE SdioBus ------------------------------
(***************************************************************************)
(* The SDIO bus as a whole: the transmit path (SdioTx), the receive path   *)
(* (SdioRx) and the power control (SdioPwr) with the variables they share. *)
(*                                                                         *)
(*  - both paths request the ACTIVE state: the transmit thread before it   *)
(*    looks for work, the receive thread after it has emptied its queue;   *)
(*  - the transmit thread refuses to go on in any other state;             *)
(*  - the threads that put the bus to sleep go by the counters of the      *)
(*    paths;                                                               *)
(*  - suspend holds txctl_sema, which the transmit thread holds while it   *)
(*    sends; the pwrctl thread does not take it.                           *)
(***************************************************************************)
EXTENDS SdioTx, SdioRx, SdioPwr

vars == <<txVars, rxVars, pwrVars, hold>>

Init == TxInit /\ RxInit /\ PwrInit

-----------------------------------------------------------------------------

\* Steps of one path that leave the others alone.
OnlyTx == UNCHANGED <<rxVars, pwrVars, hold>>
OnlyRx == UNCHANGED <<txVars, pwrVars, hold>>
OnlyPwr == UNCHANGED <<txVars, rxVars, hold>>

\* txctl_sema: the transmit thread holds it while it sends.
Sending == {"cmdwrite", "credit", "loop", "pick", "send", "flush", "uncount"}
Suspending == slpc[Suspender] # "wait"

\* Wrong variant: the transmit thread does not wake the bus.
TxPowerUpMut == PowerUp /\ OnlyTx

\* aicwf_sdio_tx_process wakes the bus ...
TxPowerUp ==
    /\ PowerUp
    /\ Activate
    /\ UNCHANGED <<rxVars, hold>>

\* ... takes txctl_sema and checks the state.
TxCheckState ==
    /\ ~Suspending
    /\ CheckState(state = "active")
    /\ OnlyTx

TxThread ==
    \/ TxPowerUp
    \/ TxCheckState
    \/ /\ \/ Wake \/ LookForCmd \/ TxMsg \/ FirstCredit \/ Loop
          \/ NoCredit \/ Pick \/ TakeFrame \/ AggrSend \/ Uncount
       /\ OnlyTx

\* aicwf_process_rxframes wakes the bus when the queue is empty.
RxPowerUp ==
    /\ RxPower
    /\ Activate
    /\ UNCHANGED <<txVars, hold>>

RxThread ==
    \/ RxPowerUp
    \/ (RxWake \/ RxTake \/ RxEmpty \/ RxDone \/ RxFail) /\ OnlyRx

\* Wrong variant: a pending command is not looked at.
IdleMut == tx_pktcnt <= 0 /\ rx_cnt = 0

\* The counters of both paths, read without their locks.
Idle == tx_pktcnt <= 0 /\ ~cmd_txstate /\ rx_cnt = 0

\* aicwf_sdio_suspend takes txctl_sema for its attempt.
TrySuspend == Suspend /\ txpc \notin Sending

Next ==
    \/ (\E c \in Callers : CallerStep(c)) /\ OnlyTx
    \/ TxThread
    \/ (\E f \in Frames : FwDone(f)) /\ OnlyTx
    \/ RxThread
    \/ IrqStep /\ OnlyRx
    \/ PwrThreadStep(Idle) /\ OnlyPwr
    \/ TimerFires /\ OnlyPwr
    \/ TrySuspend /\ OnlyPwr
    \/ SleeperStep(Suspender, Idle) /\ OnlyPwr
    \/ HoldChanges /\ UNCHANGED <<txVars, rxVars>>

Spec == Init /\ [][Next]_vars

\* Calls and interrupts that have begun end, threads run, the timer expires if
\* it is not rearmed, the firmware passes frames on; nothing makes a caller, an
\* interrupt, a suspend or a scan begin.  A semaphore is given to the thread that
\* waits longest, so whoever waits for one gets it however often others take it.
Fairness ==
    /\ \A c \in Callers : WF_vars((Count(c) \/ Trigger(c)) /\ OnlyTx)
    /\ WF_vars(TxThread) /\ SF_vars(TxPowerUp) /\ SF_vars(TxCheckState)
    /\ \A f \in Frames : WF_vars(FwDone(f) /\ OnlyTx)
    /\ WF_vars(RxThread) /\ SF_vars(RxPowerUp)
    /\ WF_vars((EnqRxpkt \/ CountRxpkt \/ TriggerRx) /\ OnlyRx)
    /\ WF_vars(TimerFires /\ OnlyPwr)
    /\ WF_vars(PwrThreadStep(Idle) /\ OnlyPwr)
    /\ WF_vars(SleeperStep(Suspender, Idle) /\ OnlyPwr)
    /\ \A s \in Sleepers : SF_vars(EnterSleep(s) /\ OnlyPwr)

FairSpec == Spec /\ Fairness

-----------------------------------------------------------------------------
(* Safety: with NothingForgotten of SdioTx, where the thread may now give  *)
(* up ("sdio state err"), and the invariants of SdioRx and SdioPwr.        *)

(***************************************************************************)
(* A command is sent to a chip that is awake: cmd_txstate keeps the        *)
(* threads that put the bus to sleep out until it is cleared.              *)
(***************************************************************************)
CommandToAwakeChip ==
    txpc = "cmdwrite" => state = "active" /\ chip = "awake"

-----------------------------------------------------------------------------
(* Liveness, under FairSpec: with CommandsGo of SdioTx and BlocksTaken of  *)
(* SdioRx, while the bus goes to sleep at any time.                        *)

\* Neither path has anything to do and nothing forbids sleep.
Quiet ==
    /\ Calling = {} /\ txpc = "wait" /\ txTrgg = 0
    /\ irq = "idle" /\ rxpc = "wait" /\ rxTrgg = 0
    /\ ~hold

(***************************************************************************)
(* A bus that is quiet for good goes to sleep and stays asleep.            *)
(***************************************************************************)
QuietBusSleeps == <>[]Quiet => <>[](state = "sleep")

=============================================================================
