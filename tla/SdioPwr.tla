------------------------------ MODULE SdioPwr ------------------------------
(***************************************************************************)
(* Power control of the SDIO bus (CONFIG_SDIO_PWRCTRL, aicwf_sdio.c).  The *)
(* transmit and receive paths ask for the ACTIVE state; a timer, rearmed   *)
(* by every such request, wakes the pwrctl thread, which puts the chip to  *)
(* sleep when the counters of both paths read zero; system suspend tries   *)
(* the same.  State changes are serialised by pwrctl_wakeup_sema, but the  *)
(* counters change without it.                                             *)
(*                                                                         *)
(* Whether the counters read zero (idle) is a parameter of two steps;      *)
(* SdioBus supplies it, PwrSpec allows either at any time.                 *)
(***************************************************************************)
EXTENDS Integers

CONSTANTS
    PwrThread,      \* the pwrctl kernel thread
    Suspender,      \* the thread that runs aicwf_sdio_suspend
    WakeMayFail,    \* TRUE: the write of the wakeup register may fail
    PwrTrggMax      \* bound: completions of pwrctrl_trgg pending

Sleepers == {PwrThread, Suspender}

ASSUME SdioPwrAssumption ==
    /\ PwrThread # Suspender
    /\ WakeMayFail \in BOOLEAN
    /\ PwrTrggMax \in Nat \ {0}

VARIABLES
    state,      \* sdiodev->state
    chip,       \* what the chip is doing
    timer,      \* sdiodev->timer is pending
    pwrTrgg,    \* completions of pwrctrl_trgg not yet waited for
    slpc,       \* where each thread that puts the bus to sleep is
    hold        \* scanning, is_p2p_alive or is_p2p_connected

pwrVars == <<state, chip, timer, pwrTrgg, slpc>>

PwrTypeOK ==
    /\ state \in {"sleep", "active"}
    /\ chip \in {"asleep", "awake"}
    /\ timer \in BOOLEAN
    /\ pwrTrgg \in Nat
    /\ slpc \in [Sleepers -> {"wait", "check", "sema", "test", "write"}]
    /\ hold \in BOOLEAN

PwrInit ==
    /\ state = "sleep"
    /\ chip = "awake"
    /\ timer = FALSE
    /\ pwrTrgg = 0
    /\ slpc = [s \in Sleepers |-> "wait"]
    /\ hold = FALSE

\* pwrctl_wakeup_sema is held by a thread in aicwf_sdio_sleep_allow.
SemaFree == \A s \in Sleepers : slpc[s] \notin {"test", "write"}

-----------------------------------------------------------------------------

\* aicwf_sdio_pwr_stctl(SDIO_ACTIVE_ST), from any path: a failed wakeup, too,
\* makes the state ACTIVE.
Activate ==
    /\ SemaFree
    /\ state' = "active"
    /\ chip' \in {IF state = "sleep" THEN "awake" ELSE chip}
                 \cup (IF WakeMayFail THEN {chip} ELSE {})
    /\ timer' = TRUE
    /\ UNCHANGED <<pwrTrgg, slpc>>

\* aicwf_sdio_bus_pwrctl, the handler of the timer.
TimerFires ==
    /\ timer /\ pwrTrgg < PwrTrggMax
    /\ timer' = FALSE
    /\ pwrTrgg' = pwrTrgg + 1
    /\ UNCHANGED <<state, chip, slpc>>

\* aicwf_sdio_pwrctl_thread is woken.
PwrWake ==
    /\ slpc[PwrThread] = "wait" /\ pwrTrgg > 0
    /\ pwrTrgg' = pwrTrgg - 1
    /\ slpc' = [slpc EXCEPT ![PwrThread] = "check"]
    /\ UNCHANGED <<state, chip, timer>>

\* Wrong variant: with work to do the thread does not rearm the timer.
PwrCheckMut(idle) ==
    /\ slpc[PwrThread] = "check"
    /\ slpc' = [slpc EXCEPT ![PwrThread] = IF idle THEN "sema" ELSE "wait"]
    /\ UNCHANGED <<state, chip, timer, pwrTrgg>>

\* The thread looks at the counters, without the semaphore.
PwrCheck(idle) ==
    /\ slpc[PwrThread] = "check"
    /\ IF idle
       THEN slpc' = [slpc EXCEPT ![PwrThread] = "sema"] /\ UNCHANGED timer
       ELSE slpc' = [slpc EXCEPT ![PwrThread] = "wait"] /\ timer' = TRUE
    /\ UNCHANGED <<state, chip, pwrTrgg>>

\* aicwf_sdio_suspend tries to put an ACTIVE bus to sleep.
Suspend ==
    /\ slpc[Suspender] = "wait"
    /\ state = "active"
    /\ slpc' = [slpc EXCEPT ![Suspender] = "sema"]
    /\ UNCHANGED <<state, chip, timer, pwrTrgg>>

\* aicwf_sdio_pwr_stctl(SDIO_SLEEP_ST): nothing to do if asleep already.
EnterSleep(s) ==
    /\ slpc[s] = "sema"
    /\ SemaFree
    /\ slpc' = [slpc EXCEPT ![s] = IF state = "sleep" THEN "wait" ELSE "test"]
    /\ UNCHANGED <<state, chip, timer, pwrTrgg>>

\* aicwf_sdio_sleep_allow: tell the chip to sleep, or rearm the timer.
SleepAllow(s, idle) ==
    /\ slpc[s] = "test"
    /\ IF idle /\ ~hold
       THEN /\ slpc' = [slpc EXCEPT ![s] = "write"]
            /\ chip' = "asleep"
            /\ UNCHANGED timer
       ELSE /\ slpc' = [slpc EXCEPT ![s] = "wait"]
            /\ timer' = TRUE
            /\ UNCHANGED chip
    /\ UNCHANGED <<state, pwrTrgg>>

\* The chip has acknowledged: only now is the state SLEEP.
SleepDone(s) ==
    /\ slpc[s] = "write"
    /\ state' = "sleep"
    /\ timer' = FALSE
    /\ slpc' = [slpc EXCEPT ![s] = "wait"]
    /\ UNCHANGED <<chip, pwrTrgg>>

SleeperStep(s, idle) == EnterSleep(s) \/ SleepAllow(s, idle) \/ SleepDone(s)

PwrThreadStep(idle) == PwrWake \/ PwrCheck(idle) \/ SleeperStep(PwrThread, idle)

\* A scan or a P2P connection begins or ends.
HoldChanges == hold' = ~hold /\ UNCHANGED pwrVars

PwrNext ==
    \/ /\ \/ Activate \/ TimerFires \/ Suspend
          \/ \E idle \in BOOLEAN :
                PwrThreadStep(idle) \/ SleeperStep(Suspender, idle)
       /\ UNCHANGED hold
    \/ HoldChanges

PwrSpec == PwrInit /\ [][PwrNext]_<<pwrVars, hold>>

-----------------------------------------------------------------------------

(***************************************************************************)
(* An ACTIVE bus does not stay so for want of a timer: the timer runs, or  *)
(* has run and the pwrctl thread will look, or the thread is looking, or   *)
(* the suspend path decides; whichever of them decides for sleep or rearms *)
(* while another request comes in.                                         *)
(***************************************************************************)
ActiveIsWatched ==
    state = "active" =>
        \/ timer
        \/ pwrTrgg > 0
        \/ slpc[PwrThread] # "wait"
        \/ slpc[Suspender] \in {"test", "write"}

(***************************************************************************)
(* The driver believes the bus ACTIVE only while the chip is awake, except *)
(* in the course of putting it to sleep ("sdio wakeup fail" is only logged *)
(* when the wakeup fails).                                                 *)
(***************************************************************************)
ActiveMeansAwake ==
    state = "active" /\ (\A s \in Sleepers : slpc[s] # "write") => chip = "awake"

\* At most one thread changes the state.
OneSleeper ==
    \A s, u \in Sleepers :
        slpc[s] \in {"test", "write"} /\ slpc[u] \in {"test", "write"} => s = u

\* The inductive invariant.
PwrIndInv ==
    /\ PwrTypeOK
    /\ OneSleeper
    /\ \A s \in Sleepers : slpc[s] \in {"test", "write"} => state = "active"
    /\ \A s \in Sleepers : slpc[s] = "write" => chip = "asleep"
    /\ slpc[Suspender] # "check"
    /\ ActiveIsWatched

=============================================================================
