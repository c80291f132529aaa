--------------------------- MODULE SdioBus_proofs ---------------------------
(***************************************************************************)
(* What is proved of the receive path and of the power control, each alone *)
(* and as parts of the bus, and of the transmit path in the bus.           *)
(***************************************************************************)
EXTENDS SdioBus, SdioTx_proofs, TLAPS

-----------------------------------------------------------------------------
(***************************************************************************)
(* The receive path strands no block, for every queue limit, as long as    *)
(* the rx thread gets the memory it asks for.                              *)
(*                                                                         *)
(* The counter is kept outside the queue's lock, so it may lag behind the  *)
(* queue or even fall to -1; RxIndInv says by how much, and that a used    *)
(* queue with a sleeping thread holds only the block whose interrupt is    *)
(* still being handled: this block is counted as the first, and "rx_cnt == *)
(* 1" wakes the thread.                                                    *)
(***************************************************************************)

\* The initial state satisfies the invariant.
LEMMA RxInitIndInv == RxInit => RxIndInv
  BY SdioRxAssumption
  DEF RxInit, RxIndInv, RxTypeOK, CountInStep, OnlyNewBlockWaits

\* Steps of the interrupt handler keep the invariant.
LEMMA IrqKeepsIndInv == RxIndInv /\ IrqStep => RxIndInv'
<1> SUFFICES ASSUME RxIndInv, IrqStep PROVE RxIndInv'
  OBVIOUS
<1> USE SdioRxAssumption
    DEF RxIndInv, RxTypeOK, CountInStep, OnlyNewBlockWaits
<1>1. CASE Interrupt
  BY <1>1 DEF Interrupt
<1>2. CASE EnqRxpkt
  BY <1>2 DEF EnqRxpkt
<1>3. CASE CountRxpkt
  BY <1>3 DEF CountRxpkt
<1>4. CASE TriggerRx
  BY <1>4 DEF TriggerRx
<1> QED
  BY <1>1, <1>2, <1>3, <1>4 DEF IrqStep

\* Steps of the rx thread keep it, if no allocation fails.
LEMMA ThreadKeepsIndInv ==
  ASSUME MayFail = FALSE, RxIndInv, RxStep
  PROVE  RxIndInv'
<1> USE SdioRxAssumption
    DEF RxIndInv, RxTypeOK, CountInStep, OnlyNewBlockWaits
<1>1. CASE RxWake
  BY <1>1 DEF RxWake
<1>2. CASE RxTake
  BY <1>2 DEF RxTake
<1>3. CASE RxEmpty
  BY <1>3 DEF RxEmpty
<1>4. CASE RxDone
  BY <1>4 DEF RxDone
<1>5. CASE RxFail
  BY <1>5, MayFail = FALSE DEF RxFail
<1>6. CASE RxPower
  BY <1>6 DEF RxPower
<1> QED
  BY <1>1, <1>2, <1>3, <1>4, <1>5, <1>6 DEF RxStep

(***************************************************************************)
(* Types, the counter and the place of a waiting block, in every state:    *)
(* aicwf_sdio_enq_rxpkt may be interleaved with aicwf_process_rxframes in  *)
(* any way.                                                                *)
(***************************************************************************)
THEOREM RxIndInvHolds == MayFail = FALSE => (RxSpec => []RxIndInv)
<1> SUFFICES ASSUME MayFail = FALSE PROVE RxSpec => []RxIndInv
  OBVIOUS
<1>1. RxIndInv /\ [RxNext]_rxVars => RxIndInv'
  <2> SUFFICES ASSUME RxIndInv, [RxNext]_rxVars PROVE RxIndInv'
    OBVIOUS
  <2>1. CASE IrqStep
    BY <2>1, IrqKeepsIndInv
  <2>2. CASE RxStep
    BY <2>2, ThreadKeepsIndInv
  <2>3. CASE UNCHANGED rxVars
    BY <2>3 DEF rxVars, RxIndInv, RxTypeOK, CountInStep, OnlyNewBlockWaits
  <2> QED
    BY <2>1, <2>2, <2>3 DEF RxNext
<1> QED
  BY RxInitIndInv, <1>1, PTL DEF RxSpec

(***************************************************************************)
(* No block is left on rxq with the rx thread asleep and no wakeup pending *)
(* when the interrupt handler has returned.                                *)
(***************************************************************************)
THEOREM NothingStranded == MayFail = FALSE => (RxSpec => []NotStranded)
<1> SUFFICES ASSUME MayFail = FALSE PROVE RxSpec => []NotStranded
  OBVIOUS
<1>1. RxIndInv => NotStranded
  BY SdioRxAssumption DEF RxIndInv, RxTypeOK, OnlyNewBlockWaits, NotStranded
<1> QED
  BY RxIndInvHolds, <1>1, PTL

-----------------------------------------------------------------------------
(***************************************************************************)
(* The power control leaves no ACTIVE bus unwatched and, as long as        *)
(* wakeups succeed, never believes a sleeping chip to be awake, whatever   *)
(* the two paths do.                                                       *)
(*                                                                         *)
(* PwrIndInv adds what the semaphore gives: one thread at a time is in     *)
(* aicwf_sdio_sleep_allow, and the state is ACTIVE until it leaves.        *)
(***************************************************************************)

allVars == <<pwrVars, hold>>

\* The invariant holds initially.
LEMMA PwrInitIndInv == PwrInit => PwrIndInv
<1> SUFFICES ASSUME PwrInit PROVE PwrIndInv
  OBVIOUS
<1> USE SdioPwrAssumption DEF PwrInit, Sleepers
<1>1. PwrTypeOK
  BY DEF PwrTypeOK
<1>2. OneSleeper /\ ActiveIsWatched
  BY DEF OneSleeper, ActiveIsWatched
<1> QED
  BY <1>1, <1>2 DEF PwrIndInv

\* A request for the ACTIVE state arms the timer and touches no sleeper.
LEMMA ActivateKeeps == PwrIndInv /\ Activate /\ UNCHANGED hold => PwrIndInv'
  BY SdioPwrAssumption
  DEF PwrIndInv, PwrTypeOK, OneSleeper, ActiveIsWatched, Activate, SemaFree, Sleepers

\* The timer hands the watch over to the pwrctl thread.
LEMMA TimerKeeps == PwrIndInv /\ TimerFires /\ UNCHANGED hold => PwrIndInv'
<1> SUFFICES ASSUME PwrIndInv, TimerFires, UNCHANGED hold PROVE PwrIndInv'
  OBVIOUS
<1> USE SdioPwrAssumption DEF PwrIndInv, PwrTypeOK, TimerFires
<1>1. PwrTypeOK'
  <2>1. pwrTrgg' \in Nat
    BY SMT
  <2>2. timer' \in BOOLEAN /\ hold' \in BOOLEAN
    BY Zenon
  <2> QED
    BY <2>1, <2>2
<1>2. OneSleeper' /\ ActiveIsWatched'
  BY DEF OneSleeper, ActiveIsWatched, Sleepers
<1> QED
  BY <1>1, <1>2 DEF Sleepers

\* The pwrctl thread outside the semaphore.
LEMMA PwrThreadKeeps ==
  ASSUME PwrIndInv, NEW idle \in BOOLEAN, PwrWake \/ PwrCheck(idle), UNCHANGED hold
  PROVE  PwrIndInv'
<1> USE SdioPwrAssumption
    DEF PwrIndInv, PwrTypeOK, OneSleeper, ActiveIsWatched, Sleepers
<1>1. CASE PwrWake
  BY <1>1 DEF PwrWake
<1>2. CASE PwrCheck(idle)
  BY <1>2 DEF PwrCheck
<1> QED
  BY <1>1, <1>2

\* The suspend path begins.
LEMMA SuspendKeeps == PwrIndInv /\ Suspend /\ UNCHANGED hold => PwrIndInv'
  BY SdioPwrAssumption
  DEF PwrIndInv, PwrTypeOK, OneSleeper, ActiveIsWatched, Suspend, Sleepers

\* Either thread enters, decides and leaves aicwf_sdio_sleep_allow.
LEMMA SleeperKeeps ==
  ASSUME PwrIndInv, NEW s \in Sleepers, NEW idle \in BOOLEAN,
         SleeperStep(s, idle), UNCHANGED hold
  PROVE  PwrIndInv'
<1> USE SdioPwrAssumption
    DEF PwrIndInv, PwrTypeOK, OneSleeper, ActiveIsWatched, Sleepers
<1>1. CASE EnterSleep(s)
  BY <1>1 DEF EnterSleep, SemaFree
<1>2. CASE SleepAllow(s, idle)
  BY <1>2 DEF SleepAllow
<1>3. CASE SleepDone(s)
  BY <1>3 DEF SleepDone
<1> QED
  BY <1>1, <1>2, <1>3 DEF SleeperStep

\* The invariant reads none of the paths' counters.
LEMMA EnvironmentKeeps ==
  PwrIndInv /\ UNCHANGED pwrVars /\ hold' \in BOOLEAN => PwrIndInv'
  BY DEF PwrIndInv, PwrTypeOK, OneSleeper, ActiveIsWatched, pwrVars

\* Every step keeps the invariant.
LEMMA PwrNextKeeps == PwrIndInv /\ [PwrNext]_allVars => PwrIndInv'
<1> SUFFICES ASSUME PwrIndInv, [PwrNext]_allVars PROVE PwrIndInv'
  OBVIOUS
<1>0. hold \in BOOLEAN
  BY DEF PwrIndInv, PwrTypeOK
<1>1. CASE Activate /\ UNCHANGED hold
  BY <1>1, ActivateKeeps
<1>2. CASE TimerFires /\ UNCHANGED hold
  BY <1>2, TimerKeeps
<1>3. ASSUME NEW idle \in BOOLEAN, UNCHANGED hold,
             PwrThreadStep(idle) \/ SleeperStep(Suspender, idle)
      PROVE  PwrIndInv'
  BY <1>3, PwrThreadKeeps, SleeperKeeps DEF PwrThreadStep, Sleepers
<1>4. CASE Suspend /\ UNCHANGED hold
  BY <1>4, SuspendKeeps
<1>5. CASE HoldChanges
  BY <1>0, <1>5, EnvironmentKeeps DEF HoldChanges, pwrVars
<1>6. CASE UNCHANGED allVars
  BY <1>0, <1>6, EnvironmentKeeps DEF allVars, pwrVars
<1> QED
  BY <1>1, <1>2, <1>3, <1>4, <1>5, <1>6 DEF PwrNext

(***************************************************************************)
(* In every state an ACTIVE bus is watched by the timer or by a thread, so *)
(* it does not stay ACTIVE only because nobody looks.                      *)
(***************************************************************************)
THEOREM PwrIndInvHolds == PwrSpec => []PwrIndInv
  BY PwrInitIndInv, PwrNextKeeps, PTL DEF PwrSpec, allVars


(***************************************************************************)
(* Without failing wakeups the state ACTIVE, outside the handshake that    *)
(* ends it, means that the chip is awake.                                  *)
(***************************************************************************)
THEOREM ActiveChipAwake ==
  WakeMayFail = FALSE => (PwrSpec => []ActiveMeansAwake)
<1> SUFFICES ASSUME WakeMayFail = FALSE PROVE PwrSpec => []ActiveMeansAwake
  OBVIOUS
<1>1. PwrInit => ActiveMeansAwake
  BY DEF PwrInit, ActiveMeansAwake
<1>2. PwrIndInv /\ ActiveMeansAwake /\ [PwrNext]_allVars => ActiveMeansAwake'
  <2> SUFFICES ASSUME PwrIndInv, ActiveMeansAwake, [PwrNext]_allVars
               PROVE  ActiveMeansAwake'
    OBVIOUS
  <2> USE SdioPwrAssumption
      DEF PwrIndInv, PwrTypeOK, OneSleeper, ActiveMeansAwake, SemaFree, Sleepers
  <2>1. CASE Activate
    BY <2>1, WakeMayFail = FALSE DEF Activate
  <2>2. CASE TimerFires
    BY <2>2 DEF TimerFires
  <2>3. ASSUME NEW idle \in BOOLEAN, PwrWake \/ PwrCheck(idle) \/ Suspend
        PROVE  ActiveMeansAwake'
    BY <2>3 DEF PwrWake, PwrCheck, Suspend
  <2>4. ASSUME NEW s \in Sleepers, NEW idle \in BOOLEAN, SleeperStep(s, idle)
        PROVE  ActiveMeansAwake'
    <3>1. CASE EnterSleep(s)
      BY <3>1 DEF EnterSleep
    <3>2. CASE SleepAllow(s, idle)
      BY <3>2 DEF SleepAllow
    <3>3. CASE SleepDone(s)
      BY <3>3 DEF SleepDone
    <3> QED
      BY <2>4, <3>1, <3>2, <3>3 DEF SleeperStep
  <2>5. CASE UNCHANGED pwrVars
    BY <2>5 DEF pwrVars
  <2> QED
    BY <2>1, <2>2, <2>3, <2>4, <2>5
    DEF PwrNext, PwrThreadStep, HoldChanges, allVars, pwrVars, Sleepers
<1> QED
  BY <1>1, <1>2, PwrIndInvHolds, PTL DEF PwrSpec, allVars

-----------------------------------------------------------------------------
(***************************************************************************)
(* What is proved of the receive path and of the power control alone holds *)
(* of the bus: each step of the bus is a step of the component or leaves   *)
(* its variables alone.  And a command never goes to a sleeping chip.      *)
(***************************************************************************)

-----------------------------------------------------------------------------
(* The components within the bus.                                          *)

\* Each step of the bus is a step of the receive path, or none.
LEMMA StepOfRx == [Next]_vars => [RxNext]_rxVars
<1> SUFFICES ASSUME [Next]_vars PROVE [RxNext]_rxVars
  OBVIOUS
<1>1. CASE RxThread
  BY <1>1 DEF RxThread, RxPowerUp, RxNext, RxStep
<1>2. CASE IrqStep
  BY <1>2 DEF RxNext
<1>3. CASE UNCHANGED rxVars
  BY <1>3
<1>4. TxThread => UNCHANGED rxVars
  BY DEF TxThread, TxPowerUp, TxCheckState, OnlyTx
<1>5. TrySuspend /\ OnlyPwr => UNCHANGED rxVars
  BY DEF OnlyPwr
<1> QED
  BY <1>1, <1>2, <1>3, <1>4, <1>5 DEF Next, vars, OnlyTx, OnlyPwr

\* Each step of the bus is a step of the power control, or none.
LEMMA StepOfPwr == [Next]_vars => [PwrNext]_allVars
<1> SUFFICES ASSUME [Next]_vars PROVE [PwrNext]_allVars
  OBVIOUS
<1>1. CASE Activate /\ UNCHANGED hold
  BY <1>1 DEF PwrNext
<1>2. ASSUME NEW idle \in BOOLEAN, UNCHANGED hold,
             PwrThreadStep(idle) \/ SleeperStep(Suspender, idle)
      PROVE  PwrNext
  BY <1>2 DEF PwrNext
<1>3. CASE (TimerFires \/ Suspend) /\ UNCHANGED hold
  BY <1>3 DEF PwrNext
<1>4. CASE HoldChanges
  BY <1>4 DEF PwrNext
<1>5. CASE UNCHANGED allVars
  BY <1>5
<1>6. TxThread => (Activate /\ UNCHANGED hold) \/ UNCHANGED allVars
  BY DEF TxThread, TxPowerUp, TxCheckState, OnlyTx, allVars
<1>7. RxThread => (Activate /\ UNCHANGED hold) \/ UNCHANGED allVars
  BY DEF RxThread, RxPowerUp, OnlyRx, allVars
<1>8. Idle \in BOOLEAN
  BY DEF Idle
<1> QED
  BY <1>1, <1>2, <1>3, <1>4, <1>5, <1>6, <1>7, <1>8
  DEF Next, vars, OnlyTx, OnlyRx, OnlyPwr, TrySuspend, allVars

(***************************************************************************)
(* The bus implements the receive path as specified alone: the power       *)
(* control does not delay or change aicwf_sdio_enq_rxpkt and the thread.   *)
(***************************************************************************)
THEOREM BusImplementsRx == Spec => RxSpec
  BY StepOfRx, PTL DEF Spec, Init, RxSpec

(***************************************************************************)
(* The bus implements the power control as specified alone, with counters  *)
(* that may read anything at any time.                                     *)
(***************************************************************************)
THEOREM BusImplementsPwr == Spec => PwrSpec
  BY StepOfPwr, PTL DEF Spec, Init, PwrSpec, allVars

(***************************************************************************)
(* Between its two looks at cmd_txstate the tx thread relies on what it    *)
(* found before: there is work, so no thread puts the bus to sleep, so the *)
(* bus it has woken is still ACTIVE.                                       *)
(***************************************************************************)
CmdInv ==
    /\ tx_pktcnt \in Int
    /\ cmd_txstate \in BOOLEAN
    /\ txpc \in {"power", "cmd"} => tx_pktcnt > 0 \/ cmd_txstate
    /\ txpc \in {"cmdstate", "cmdwrite"} => cmd_txstate
    /\ txpc \in {"cmd", "cmdstate", "cmdwrite"} =>
        state = "active" /\ \A s \in Sleepers : slpc[s] # "write"

\* Nothing is awaited at first.
LEMMA CmdInitInv == Init => CmdInv
<1> SUFFICES ASSUME TxInit PROVE CmdInv
  BY DEF Init
<1>1. tx_pktcnt = 0 /\ cmd_txstate = FALSE /\ txpc = "wait"
  BY DEF TxInit
<1>2. tx_pktcnt \in Int
  BY <1>1
<1>3. cmd_txstate \in BOOLEAN
  BY <1>1, Zenon
<1> QED
  BY <1>1, <1>2, <1>3, Zenon DEF CmdInv

\* A caller only adds work.
LEMMA CallersKeepCmd ==
  ASSUME CmdInv, NEW c \in Callers, CallerStep(c), OnlyTx
  PROVE  CmdInv'
<1> USE DEF CmdInv, OnlyTx, pwrVars, Sleepers
<1>1. CASE Txdata(c)
  BY <1>1 DEF Txdata
<1>2. CASE Count(c)
  BY <1>2 DEF Count
<1>3. CASE Txmsg(c)
  BY <1>3 DEF Txmsg
<1>4. CASE Trigger(c)
  BY <1>4 DEF Trigger
<1> QED
  BY <1>1, <1>2, <1>3, <1>4 DEF CallerStep

\* The tx thread finds work, wakes the bus, and only then looks at it.
LEMMA ThreadKeepsCmd ==
  ASSUME CmdInv, TxThread
  PROVE  CmdInv'
<1> USE DEF CmdInv
<1>1. CASE TxPowerUp
  BY <1>1 DEF TxPowerUp, PowerUp, Activate, SemaFree
<1>2. CASE TxCheckState
  BY <1>2 DEF TxCheckState, CheckState, OnlyTx, pwrVars
<1>3. CASE (Wake \/ LookForCmd \/ TxMsg) /\ OnlyTx
  BY <1>3 DEF Wake, LookForCmd, TxMsg, OnlyTx, pwrVars
<1>4. CASE (FirstCredit \/ Loop \/ NoCredit \/ Pick \/ TakeFrame \/ AggrSend) /\ OnlyTx
  BY <1>4 DEF FirstCredit, Loop, NoCredit, Pick, TakeFrame, AggrSend, OnlyTx, pwrVars
<1>5. CASE Uncount /\ OnlyTx
  BY <1>5 DEF Uncount, OnlyTx, pwrVars
<1> QED
  BY <1>1, <1>2, <1>3, <1>4, <1>5 DEF TxThread

\* Sleep is begun only without work; the state is SLEEP only after "write".
LEMMA SleepersKeepCmd ==
  ASSUME CmdInv, PwrIndInv, NEW s \in Sleepers, SleeperStep(s, Idle), OnlyPwr
  PROVE  CmdInv'
<1> USE DEF CmdInv, PwrIndInv, PwrTypeOK, OnlyPwr, txVars
<1>1. CASE EnterSleep(s)
  BY <1>1 DEF EnterSleep
<1>2. CASE SleepAllow(s, Idle)
  BY <1>2 DEF SleepAllow, Idle
<1>3. CASE SleepDone(s)
  BY <1>3 DEF SleepDone
<1> QED
  BY <1>1, <1>2, <1>3 DEF SleeperStep

\* The rest of the power control changes neither the state nor "write".
LEMMA PowerKeepsCmd ==
  ASSUME CmdInv, PwrIndInv, UNCHANGED txVars,
         \/ Activate
         \/ PwrWake \/ PwrCheck(Idle) \/ TimerFires \/ Suspend
         \/ UNCHANGED pwrVars
  PROVE  CmdInv'
<1> USE DEF CmdInv, PwrIndInv, PwrTypeOK, txVars
<1>1. CASE Activate
  BY <1>1 DEF Activate
<1>2. CASE PwrWake \/ PwrCheck(Idle)
  BY <1>2 DEF PwrWake, PwrCheck
<1>3. CASE TimerFires \/ Suspend
  BY <1>3 DEF TimerFires, Suspend
<1>4. CASE UNCHANGED pwrVars
  BY <1>4 DEF pwrVars
<1> QED
  BY <1>1, <1>2, <1>3, <1>4

\* Every step keeps the invariant.
LEMMA NextKeepsCmd == CmdInv /\ PwrIndInv /\ [Next]_vars => CmdInv'
<1> SUFFICES ASSUME CmdInv, PwrIndInv, [Next]_vars PROVE CmdInv'
  OBVIOUS
<1>1. ASSUME NEW c \in Callers, CallerStep(c), OnlyTx PROVE CmdInv'
  BY <1>1, CallersKeepCmd
<1>2. CASE TxThread
  BY <1>2, ThreadKeepsCmd
<1>3. ASSUME NEW f \in Frames, FwDone(f), OnlyTx PROVE CmdInv'
  BY <1>3 DEF FwDone, OnlyTx, CmdInv, pwrVars
<1>4. CASE RxThread
  <2>1. CASE RxPowerUp
    BY <2>1, PowerKeepsCmd DEF RxPowerUp
  <2>2. CASE OnlyRx
    BY <2>2, PowerKeepsCmd DEF OnlyRx
  <2> QED
    BY <1>4, <2>1, <2>2 DEF RxThread
<1>5. CASE OnlyRx
  BY <1>5, PowerKeepsCmd DEF OnlyRx
<1>6. CASE PwrThreadStep(Idle) /\ OnlyPwr
  BY <1>6, PowerKeepsCmd, SleepersKeepCmd DEF PwrThreadStep, OnlyPwr, Sleepers
<1>7. CASE (TimerFires \/ TrySuspend) /\ OnlyPwr
  BY <1>7, PowerKeepsCmd DEF TrySuspend, OnlyPwr
<1>8. CASE SleeperStep(Suspender, Idle) /\ OnlyPwr
  BY <1>8, SleepersKeepCmd DEF Sleepers
<1>9. CASE UNCHANGED <<txVars, pwrVars>>
  BY <1>9, PowerKeepsCmd
<1> QED
  BY <1>1, <1>2, <1>3, <1>4, <1>5, <1>6, <1>7, <1>8, <1>9
  DEF Next, HoldChanges, vars

(***************************************************************************)
(* If wakeups succeed, aicwf_sdio_tx_msg writes to a chip that is awake,   *)
(* for any number of callers and frames and whatever the suspend path does *)
(* (the pwrctl thread takes none of the locks of the tx thread).           *)
(***************************************************************************)
THEOREM CommandsReachChip ==
  WakeMayFail = FALSE => (Spec => []CommandToAwakeChip)
<1> SUFFICES ASSUME WakeMayFail = FALSE PROVE Spec => []CommandToAwakeChip
  OBVIOUS
<1>1. CmdInv /\ ActiveMeansAwake => CommandToAwakeChip
  BY DEF CmdInv, ActiveMeansAwake, CommandToAwakeChip
<1> QED
  BY <1>1, CmdInitInv, NextKeepsCmd, BusImplementsPwr, PwrIndInvHolds,
     ActiveChipAwake, PTL DEF Spec

-----------------------------------------------------------------------------
(***************************************************************************)
(* The transmit path within the bus.  The bus does not implement TxSpec:   *)
(* there the thread always finds the bus ACTIVE, here it may give up       *)
(* ("sdio state err") and leave what it was woken for.  It does so only    *)
(* when a wakeup is on its way, or nothing waits: what has been counted    *)
(* keeps the bus awake, and a frame that is queued and not yet counted has *)
(* a caller that is still to trigger the thread.                           *)
(***************************************************************************)
DataInv ==
    txpc = "data" /\ txq.cnt > 0 =>
        WakeupComes \/ (state = "active" /\ \A s \in Sleepers : slpc[s] # "write")

\* The thread leaves for want of an ACTIVE bus.
LEMMA GiveUpKeeps ==
  ASSUME TxIndInv, CmdInv, DataInv, CheckState(FALSE), state # "active"
  PROVE  TxIndInv'
<1>1. txpc = "data" /\ txpc' = "wait"
  BY DEF CheckState, CmdInv
<1>2. UNCHANGED <<txq, tx_pktcnt, cmd_txstate, txTrgg, call, avail, aggr, txnow, inFw>>
  BY DEF CheckState
<1>3. TxTypeOK' /\ QueueSound' /\ LockOwned' /\ Counted' /\ CreditCovers' /\ LastGoes'
  BY <1>1, <1>2
  DEF TxIndInv, TxTypeOK, QueueSound, LockOwned, TxqLockFree, Counted, InHand,
      CreditCovers, LastGoes
<1>4. WakeupKept'
  BY <1>1, <1>2 DEF TxIndInv, WakeupKept, WakeupComes, Calling, DataInv
<1> QED
  BY <1>3, <1>4 DEF TxIndInv

\* Every step of the bus keeps what TxSpec keeps.
LEMMA NextKeepsTx ==
  ASSUME TxIndInv, CmdInv, DataInv, [Next]_vars
  PROVE  TxIndInv'
<1>1. CASE TxCheckState /\ state # "active"
  BY <1>1, GiveUpKeeps DEF TxCheckState
<1>2. CASE TxCheckState /\ state = "active"
  BY <1>2, TxNextKeeps DEF TxCheckState, TxNext, TxStep
<1>3. CASE TxThread /\ ~TxCheckState
  BY <1>3, TxNextKeeps DEF TxThread, TxPowerUp, TxNext, TxStep
<1>4. CASE \/ \E c \in Callers : CallerStep(c)
           \/ \E f \in Frames : FwDone(f)
  BY <1>4, TxNextKeeps DEF TxNext
<1>5. CASE UNCHANGED txVars
  BY <1>5, TxNextKeeps
<1>6. RxThread => UNCHANGED txVars
  BY DEF RxThread, RxPowerUp, OnlyRx
<1> QED
  BY <1>1, <1>2, <1>3, <1>4, <1>5, <1>6 DEF Next, vars, OnlyRx, OnlyPwr

\* A wakeup on its way stays so until the thread waits.
LEMMA WakeupStays ==
  ASSUME TxIndInv, WakeupComes, txpc # "wait",
         \/ \E c \in Callers : CallerStep(c)
         \/ UNCHANGED <<call, txTrgg>>
  PROVE  WakeupComes'
<1>1. call \in [Callers -> {"idle", "count", "trigger"}] /\ txTrgg \in Nat
  BY DEF TxIndInv, TxTypeOK
<1>2. ASSUME NEW c \in Callers, CallerStep(c) PROVE WakeupComes'
  <2>1. CASE Trigger(c)
    BY <1>1, <2>1 DEF Trigger, WakeupComes
  <2>2. CASE Txdata(c) \/ Count(c) \/ Txmsg(c)
    <3>1. call'[c] # "idle"
      BY <1>1, <2>2 DEF Txdata, Count, Txmsg
    <3> QED
      BY <3>1 DEF WakeupComes, Calling
  <2> QED
    BY <1>2, <2>1, <2>2 DEF CallerStep
<1>3. CASE UNCHANGED <<call, txTrgg>>
  BY <1>3 DEF WakeupComes, Calling
<1> QED
  BY <1>2, <1>3

\* The callers: what is queued while the thread is about to look has a wakeup.
LEMMA CallersKeepData ==
  ASSUME TxIndInv, DataInv, NEW c \in Callers, CallerStep(c), OnlyTx
  PROVE  DataInv'
<1>1. txpc' = txpc /\ UNCHANGED pwrVars
  BY DEF CallerStep, Txdata, Count, Txmsg, Trigger, OnlyTx
<1>2. CASE Txdata(c)
  <2>1. call'[c] # "idle"
    BY <1>2 DEF Txdata, TxIndInv, TxTypeOK
  <2> QED
    BY <2>1 DEF DataInv, WakeupComes, Calling
<1>3. CASE ~Txdata(c)
  <2>1. txq' = txq
    BY <1>3 DEF CallerStep, Count, Txmsg, Trigger
  <2> QED
    BY <1>1, <2>1, WakeupStays DEF DataInv, pwrVars
<1> QED
  BY <1>2, <1>3

\* The sleepers: with frames counted they do not begin.
LEMMA SleepersKeepData ==
  ASSUME TxIndInv, PwrIndInv, DataInv, UNCHANGED txVars,
         NEW s \in Sleepers, SleeperStep(s, Idle)
  PROVE  DataInv'
<1> SUFFICES ASSUME txpc = "data", txq.cnt > 0, ~WakeupComes
             PROVE  state' = "active" /\ \A u \in Sleepers : slpc'[u] # "write"
  BY DEF DataInv, txVars, WakeupComes, Calling
<1>1. state = "active" /\ \A u \in Sleepers : slpc[u] # "write"
  BY DEF DataInv
<1>2. TxqLockFree /\ tx_pktcnt > 0
  <2>1. TxqLockFree
    BY DEF TxqLockFree, WakeupComes, Calling
  <2> QED
    BY <2>1 DEF TxIndInv, TxTypeOK, Queues, Counted, InHand
<1>3. ~Idle
  BY <1>2 DEF Idle, TxIndInv, TxTypeOK
<1> QED
  BY <1>1, <1>3 DEF SleeperStep, EnterSleep, SleepAllow, SleepDone, PwrIndInv, PwrTypeOK

\* The rest of the power control.
LEMMA PowerKeepsData ==
  ASSUME PwrIndInv, DataInv, UNCHANGED txVars,
         \/ Activate
         \/ PwrWake \/ PwrCheck(Idle) \/ TimerFires \/ Suspend
         \/ UNCHANGED pwrVars
  PROVE  DataInv'
<1>1. UNCHANGED <<txpc, txq, call, txTrgg>>
  BY DEF txVars
<1>2. (state = "active" /\ \A s \in Sleepers : slpc[s] # "write")
        => (state' = "active" /\ \A s \in Sleepers : slpc'[s] # "write")
  BY DEF Activate, PwrWake, PwrCheck, TimerFires, Suspend, pwrVars, PwrIndInv, PwrTypeOK
<1> QED
  BY <1>1, <1>2 DEF DataInv, WakeupComes, Calling

\* Every step keeps it.
LEMMA NextKeepsData ==
  ASSUME TxIndInv, CmdInv, PwrIndInv, DataInv, [Next]_vars
  PROVE  DataInv'
<1>1. ASSUME NEW c \in Callers, CallerStep(c), OnlyTx PROVE DataInv'
  BY <1>1, CallersKeepData
<1>2. CASE TxThread
  <2>1. CASE txpc' # "data"
    BY <2>1 DEF DataInv
  <2>2. CASE txpc' = "data"
    <3>1. txpc \in {"cmd", "cmdwrite"} /\ UNCHANGED pwrVars
      BY <1>2, <2>2 DEF TxThread, TxPowerUp, TxCheckState, OnlyTx, Wake, PowerUp,
         LookForCmd, CheckState, TxMsg, FirstCredit, Loop, NoCredit, Pick, TakeFrame,
         AggrSend, Uncount
    <3> QED
      BY <3>1 DEF CmdInv, DataInv, pwrVars
  <2> QED
    BY <2>1, <2>2
<1>3. ASSUME NEW f \in Frames, FwDone(f), OnlyTx PROVE DataInv'
  BY <1>3 DEF FwDone, OnlyTx, DataInv, WakeupComes, Calling, pwrVars
<1>4. CASE RxThread \/ (IrqStep /\ OnlyRx)
  BY <1>4, PowerKeepsData DEF RxThread, RxPowerUp, OnlyRx
<1>5. CASE PwrThreadStep(Idle) /\ OnlyPwr
  BY <1>5, PowerKeepsData, SleepersKeepData DEF PwrThreadStep, OnlyPwr, Sleepers
<1>6. CASE (TimerFires \/ TrySuspend) /\ OnlyPwr
  BY <1>6, PowerKeepsData DEF TrySuspend, OnlyPwr
<1>7. CASE SleeperStep(Suspender, Idle) /\ OnlyPwr
  BY <1>7, SleepersKeepData DEF Sleepers, OnlyPwr
<1>8. CASE UNCHANGED <<txVars, pwrVars>>
  BY <1>8, PowerKeepsData
<1> QED
  BY <1>1, <1>2, <1>3, <1>4, <1>5, <1>6, <1>7, <1>8 DEF Next, HoldChanges, vars

\* The invariant of the transmit path is one of the bus.
LEMMA TransmitPathInBus == Spec => []TxIndInv
<1>1. Init => TxIndInv /\ CmdInv /\ DataInv
  BY TxInitIndInv, CmdInitInv DEF Init, TxInit, DataInv
<1>2. TxIndInv /\ CmdInv /\ PwrIndInv /\ DataInv /\ [Next]_vars
        => TxIndInv' /\ CmdInv' /\ DataInv'
  BY NextKeepsTx, NextKeepsCmd, NextKeepsData
<1> QED
  BY <1>1, <1>2, BusImplementsPwr, PwrIndInvHolds, PTL DEF Spec

(***************************************************************************)
(* In the bus, too, whether wakeups succeed or not and although            *)
(* aicwf_sdio_tx_process gives up when it finds the bus asleep, the thread *)
(* never sleeps over a frame or a command without a wakeup on its way.     *)
(***************************************************************************)
THEOREM BusForgetsNothing == Spec => []NothingForgotten
<1>1. TxIndInv => NothingForgotten
  BY WorkIsWoken
<1> QED
  BY <1>1, TransmitPathInBus, PTL

(***************************************************************************)
(* The frame queue, the reserve of the firmware's buffers and the          *)
(* aggregation buffer are in order in the bus as they are alone: giving up *)
(* in aicwf_sdio_tx_process leaves no frame in the buffer.                 *)
(***************************************************************************)
THEOREM BusKeepsFrames ==
  Spec => [](QueueInStep /\ ReserveKept /\ NothingHeldBack)
<1>1. TxIndInv => QueueInStep /\ ReserveKept /\ NothingHeldBack
  BY CreditKeepsReserve
  DEF TxIndInv, QueueSound, Sound, QueueInStep, LastGoes, NothingHeldBack
<1> QED
  BY <1>1, TransmitPathInBus, PTL

\* Every step of the bus is one of the carrier; waking, giving up and sleeping
\* are none.
LEMMA BusStepCarries ==
  ASSUME TxIndInv, [Next]_vars
  PROVE  [Carrier!Next]_Carrier!vars
<1>1. CASE TxThread
  <2>1. CASE TxPowerUp
    BY <2>1, WalkIsQuiet DEF TxPowerUp
  <2>2. CASE TxCheckState
    BY <2>2, WalkIsQuiet DEF TxCheckState
  <2>3. CASE ~TxPowerUp /\ ~TxCheckState
    BY <1>1, <2>3, StepCarries DEF TxThread, TxNext, TxStep
  <2> QED
    BY <2>1, <2>2, <2>3
<1>2. CASE \/ \E c \in Callers : CallerStep(c)
           \/ \E f \in Frames : FwDone(f)
  BY <1>2, StepCarries DEF TxNext
<1>3. CASE UNCHANGED txVars
  BY <1>3, StepCarries
<1>4. RxThread => UNCHANGED txVars
  BY DEF RxThread, RxPowerUp, OnlyRx
<1> QED
  BY <1>1, <1>2, <1>3, <1>4 DEF Next, vars, OnlyRx, OnlyPwr

(***************************************************************************)
(* What aicwf_sdio_bus_txdata and aicwf_sdio_bus_txmsg promise holds in    *)
(* the bus: whatever the receive path, the pwrctl thread, the timer and    *)
(* aicwf_sdio_suspend do, no frame is lost, doubled or reordered by it.    *)
(***************************************************************************)
THEOREM BusImplementsCarrier == Spec => ImplementsCarrier
<1>1. Init => Carrier!Init
  BY StartCarries DEF Init
<1>2. TxIndInv /\ [Next]_vars => [Carrier!Next]_Carrier!vars
  BY BusStepCarries
<1> QED
  BY <1>1, <1>2, TransmitPathInBus, PTL DEF Spec, ImplementsCarrier, Carrier!Spec

=============================================================================
