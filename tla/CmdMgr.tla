------------------------------- MODULE CmdMgr -------------------------------
(***************************************************************************)
(* The firmware command manager of the AIC8800DC driver: rwnx_cmds.c with  *)
(* its callers rwnx_send_msg and rwnx_send_msg1 in rwnx_msg_tx.c.          *)
(*                                                                         *)
(* Kernel threads (Senders) send messages to the firmware.  A message that *)
(* needs a confirmation gets a command from a static pool and joins the    *)
(* list cmd_mgr->cmds.  Its sender either pushes it at once (and sleeps    *)
(* until the confirmation) or leaves it to the cmd_wq worker (and returns).*)
(* A confirmation names only the message type, so the receive path hands   *)
(* it to the first command of the list that awaits that type.  A wait of   *)
(* more than six seconds per queued command marks the manager CRASHED.     *)
(*                                                                         *)
(* A critical section under cmd_mgr->lock is one step, except the timeout  *)
(* path, which is split so that the lock is seen held.                     *)
(***************************************************************************)
EXTENDS Naturals, Sequences, FiniteSets

CONSTANTS
    Senders,     \* kernel threads that call rwnx_send_msg / rwnx_send_msg1
    Worker,      \* the single thread of the cmd_wq workqueue
    Slots,       \* cmd_array, the static pool of struct rwnx_cmd
    Msgs,        \* message types; each REQ has its own CFM identifier
    Kind,        \* Kind[m]: how the driver sends messages of type m
    MaxQueued,   \* RWNX_CMD_MAX_QUEUED
    FwMayStall,  \* TRUE: an answer may come later than the timeout, or never
    None

(***************************************************************************)
(*  cfm    confirmed, copied to the caller's buffer (cfm # NULL)           *)
(*  plain  confirmed, no buffer                                            *)
(*  ind    ME_TRAFFIC_IND_REQ, MM_SET_ARPOFFLOAD_REQ: no buffer, always    *)
(*         left to the worker                                              *)
(*  defer  MM_REMOVE_IF_REQ, sent through cmd_mgr_queue_force_defer        *)
(*  nocfm  reqcfm = 0: never queued                                        *)
(***************************************************************************)
Kinds == {"cfm", "plain", "ind", "defer", "nocfm"}

Threads == Senders \cup {Worker}

ASSUME CmdMgrAssumption ==
    /\ Worker \notin Senders
    /\ None \notin Threads \cup Slots \cup Msgs
    /\ Kind \in [Msgs -> Kinds]
    /\ IsFiniteSet(Senders) /\ IsFiniteSet(Slots)
    /\ MaxQueued \in Nat \ {0}
    /\ FwMayStall \in BOOLEAN

VARIABLES
    state,      \* cmd_mgr->state
    lock,       \* holder of cmd_mgr->lock between steps
    cmds,       \* cmd_mgr->cmds, oldest first; queue_sz is its length
    msg,        \* msg[s]: the message of command s, None when s is free
    waitPush,   \* commands with RWNX_CMD_FLAG_WAIT_PUSH
    waitCfm,    \* commands with RWNX_CMD_FLAG_WAIT_CFM
    complete,   \* commands whose completion is signalled
    pc,         \* where each thread is
    mine,       \* the command each thread holds a pointer to
    work,       \* cmdWork is pending on cmd_wq
    mbox,       \* the message in bus->cmd_buf not yet sent by the tx thread
    fw          \* messages the firmware has received and not yet confirmed

vars == <<state, lock, cmds, msg, waitPush, waitCfm, complete, pc, mine,
          work, mbox, fw>>

-----------------------------------------------------------------------------

Queued == {cmds[i] : i \in DOMAIN cmds}

\* What the transmit path carries: the type, and (unseen by the code) the command.
Packet(s) == [msg |-> msg[s], slot |-> s]
Packets == [msg : Msgs, slot : Slots]

\* The list without the element at position i.
Without(seq, i) ==
    [j \in 1..(Len(seq) - 1) |-> IF j < i THEN seq[j] ELSE seq[j + 1]]

KindOf(t) == Kind[msg[mine[t]]]

TypeOK ==
    /\ state \in {"inited", "crashed"}
    /\ lock \in Threads \cup {None}
    /\ cmds \in Seq(Slots)
    /\ msg \in [Slots -> Msgs \cup {None}]
    /\ waitPush \in SUBSET Slots
    /\ waitCfm \in SUBSET Slots
    /\ complete \in SUBSET Slots
    /\ pc \in [Threads -> {"idle", "queue", "check", "push", "wait", "wake",
                           "timedout", "complete", "scan", "dead"}]
    /\ mine \in [Threads -> Slots \cup {None}]
    /\ work \in BOOLEAN
    /\ mbox \in Packets \cup {None}
    /\ fw \in SUBSET Packets

Init ==
    /\ state = "inited"
    /\ lock = None
    /\ cmds = <<>>
    /\ msg = [s \in Slots |-> None]
    /\ waitPush = {}
    /\ waitCfm = {}
    /\ complete = {}
    /\ pc = [t \in Threads |-> "idle"]
    /\ mine = [t \in Threads |-> None]
    /\ work = FALSE
    /\ mbox = None
    /\ fw = {}

-----------------------------------------------------------------------------
(* Threads that send.                                                      *)

\* rwnx_send_msg up to the call of queue(): take a free command of the pool.
Send(t) ==
    /\ pc[t] = "idle"
    /\ \E m \in Msgs, s \in {u \in Slots : msg[u] = None} :
        /\ msg' = [msg EXCEPT ![s] = m]
        /\ mine' = [mine EXCEPT ![t] = s]
    /\ pc' = [pc EXCEPT ![t] = "queue"]
    /\ UNCHANGED <<state, lock, cmds, waitPush, waitCfm, complete, work, mbox, fw>>

\* ... which is NULL if every command is used, and written to all the same.
SendNull(t) ==
    /\ pc[t] = "idle"
    /\ \A s \in Slots : msg[s] # None
    /\ pc' = [pc EXCEPT ![t] = "dead"]
    /\ UNCHANGED <<state, lock, cmds, msg, waitPush, waitCfm, complete, mine,
                   work, mbox, fw>>

\* The thread lets go of its command and returns to its caller.
Return(t) ==
    /\ pc' = [pc EXCEPT ![t] = "idle"]
    /\ mine' = [mine EXCEPT ![t] = None]

\* rwnx_send_msg frees a command that was refused (its message is not freed).
FreeRefused(t) ==
    /\ pc[t] = "queue"
    /\ msg' = [msg EXCEPT ![mine[t]] = None]
    /\ Return(t)
    /\ UNCHANGED <<state, cmds, waitPush, waitCfm, complete, work, mbox, fw>>

\* reqcfm = 0: write bus->cmd_buf whatever it holds, free the command.
SendNoCfm(t) ==
    /\ pc[t] = "queue" /\ KindOf(t) = "nocfm"
    /\ mbox' = Packet(mine[t])
    /\ msg' = [msg EXCEPT ![mine[t]] = None]
    /\ Return(t)
    /\ UNCHANGED <<state, lock, cmds, waitPush, waitCfm, complete, work, fw>>

\* A caller with a buffer leaves its polling loop without the lock once the
\* manager is CRASHED, and then unlocks it: whoever holds the lock loses it.
PollCrashed(t) ==
    /\ pc[t] = "queue" /\ KindOf(t) = "cfm"
    /\ state = "crashed"
    /\ lock' = None
    /\ FreeRefused(t)

\* Wrong variant: a caller with a buffer does not wait for the list to empty.
EnteredMut(t) ==
    /\ pc[t] = "queue" /\ KindOf(t) # "nocfm"
    /\ lock = None

\* The lock is taken; a caller with a buffer keeps it only if the list is empty.
Entered(t) ==
    /\ pc[t] = "queue" /\ KindOf(t) # "nocfm"
    /\ lock = None
    /\ KindOf(t) = "cfm" => cmds = <<>>

Full == cmds # <<>> /\ Len(cmds) = MaxQueued

\* -EPIPE and -ENOMEM.
Refuse(t) ==
    /\ Entered(t)
    /\ state = "crashed" \/ Full
    /\ UNCHANGED lock
    /\ FreeRefused(t)

\* Wrong variants: only WAIT_PUSH is looked at; the first command is looked at.
LastBusyMut == cmds # <<>> /\ cmds[Len(cmds)] \in waitPush
FirstBusyMut == cmds # <<>> /\ cmds[1] \in waitPush \cup waitCfm

\* The last command of the list still waits for something.
LastBusy == cmds # <<>> /\ cmds[Len(cmds)] \in waitPush \cup waitCfm

Enqueue(s, defer) ==
    /\ state = "inited" /\ ~Full
    /\ cmds' = Append(cmds, s)
    /\ waitCfm' = waitCfm \cup {s}
    /\ waitPush' = IF defer THEN waitPush \cup {s} ELSE waitPush
    /\ complete' = complete \ {s}
    /\ UNCHANGED <<state, lock, msg, mbox, fw>>

\* cmd_mgr_queue, the command is to be pushed by its own thread.
QueueDirect(t) ==
    /\ Entered(t) /\ KindOf(t) \in {"cfm", "plain"}
    /\ ~LastBusy
    /\ Enqueue(mine[t], FALSE)
    /\ pc' = [pc EXCEPT ![t] = "push"]
    /\ UNCHANGED <<mine, work>>

\* cmd_mgr_queue, the command is left to the worker; the lock is released.
QueueDeferred(t) ==
    /\ Entered(t) /\ KindOf(t) # "defer"
    /\ LastBusy \/ KindOf(t) = "ind"
    /\ Enqueue(mine[t], TRUE)
    /\ pc' = [pc EXCEPT ![t] = "check"]
    /\ mine' = [mine EXCEPT ![t] = None]
    /\ UNCHANGED work

\* ... and only then queue_sz is read to decide whether to wake the worker.
CheckWake(t) ==
    /\ pc[t] = "check"
    /\ work' = (work \/ Len(cmds) <= 1)
    /\ Return(t)
    /\ UNCHANGED <<state, lock, cmds, msg, waitPush, waitCfm, complete, mbox, fw>>

\* Wrong variant: the worker is woken as in cmd_mgr_queue, if alone.
ForceDeferMut(t) ==
    /\ Entered(t) /\ KindOf(t) = "defer"
    /\ Enqueue(mine[t], TRUE)
    /\ UNCHANGED work
    /\ Return(t)

\* cmd_mgr_queue_force_defer: always left to the worker, which is always woken.
ForceDefer(t) ==
    /\ Entered(t) /\ KindOf(t) = "defer"
    /\ Enqueue(mine[t], TRUE)
    /\ work' = TRUE
    /\ Return(t)

-----------------------------------------------------------------------------
(* A command that is being sent, by its own thread or by the worker.       *)

\* aicwf_set_cmd_tx; the worker first clears WAIT_PUSH.
Push(t) ==
    /\ pc[t] = "push"
    /\ waitPush' = waitPush \ {mine[t]}
    /\ mbox' = Packet(mine[t])
    /\ pc' = [pc EXCEPT ![t] = "wait"]
    /\ UNCHANGED <<state, lock, cmds, msg, waitCfm, complete, mine, work, fw>>

\* The completion arrived: list_del and rwnx_cmd_free.  A sender then looks
\* whether to wake the worker, the worker looks at the list again.
Remove(t) ==
    /\ pc[t] = "wait" /\ mine[t] \in complete
    /\ lock = None
    /\ \E i \in DOMAIN cmds :
        /\ cmds[i] = mine[t]
        /\ cmds' = Without(cmds, i)
    /\ msg' = [msg EXCEPT ![mine[t]] = None]
    /\ complete' = complete \ {mine[t]}
    /\ mine' = [mine EXCEPT ![t] = None]
    /\ pc' = [pc EXCEPT ![t] = IF t = Worker THEN "scan" ELSE "wake"]
    /\ UNCHANGED <<state, lock, waitPush, waitCfm, work, mbox, fw>>

\* The list is read without the lock.
WakeNext(t) ==
    /\ pc[t] = "wake"
    /\ work' = (work \/ cmds # <<>>)
    /\ Return(t)
    /\ UNCHANGED <<state, lock, cmds, msg, waitPush, waitCfm, complete, mbox, fw>>

\* Neither the transmit path nor the firmware has the command any more.
Lost(s) == mbox # Packet(s) /\ Packet(s) \notin fw

\* wait_for_completion_timeout returns 0; the card is poked and user space told.
TimeOut(t) ==
    /\ pc[t] = "wait" /\ mine[t] \notin complete
    /\ FwMayStall \/ Lost(mine[t])
    /\ pc' = [pc EXCEPT ![t] = "timedout"]
    /\ UNCHANGED <<state, lock, cmds, msg, waitPush, waitCfm, complete, mine,
                   work, mbox, fw>>

\* The lock is taken and the manager marked; the command stays on the list.
Crash(t) ==
    /\ pc[t] = "timedout" /\ lock = None
    /\ lock' = t
    /\ state' = "crashed"
    /\ pc' = [pc EXCEPT ![t] = "complete"]
    /\ UNCHANGED <<cmds, msg, waitPush, waitCfm, complete, mine, work, mbox, fw>>

\* Wrong variants: the command is freed while linked; the lock is kept.
UnlockFreeMut(t) ==
    /\ pc[t] = "complete"
    /\ lock' = None
    /\ msg' = [msg EXCEPT ![mine[t]] = None]
    /\ pc' = [pc EXCEPT ![t] = IF t = Worker THEN "scan" ELSE "idle"]
    /\ mine' = [mine EXCEPT ![t] = None]
    /\ UNCHANGED <<state, cmds, waitPush, waitCfm, complete, work, mbox, fw>>

UnlockKeepMut(t) ==
    /\ pc[t] = "complete"
    /\ pc' = [pc EXCEPT ![t] = IF t = Worker THEN "scan" ELSE "idle"]
    /\ mine' = [mine EXCEPT ![t] = None]
    /\ UNCHANGED <<state, lock, cmds, msg, waitPush, waitCfm, complete, work,
                   mbox, fw>>

\* cmd_complete, which completes nothing here, and the end of the section.
Unlock(t) ==
    /\ pc[t] = "complete"
    /\ lock' = None
    /\ pc' = [pc EXCEPT ![t] = IF t = Worker THEN "scan" ELSE "idle"]
    /\ mine' = [mine EXCEPT ![t] = None]
    /\ UNCHANGED <<state, cmds, msg, waitPush, waitCfm, complete, work, mbox, fw>>

-----------------------------------------------------------------------------
(* cmd_mgr_task_process.                                                   *)

WorkStart ==
    /\ pc[Worker] = "idle" /\ work
    /\ work' = FALSE
    /\ pc' = [pc EXCEPT ![Worker] = "scan"]
    /\ UNCHANGED <<state, lock, cmds, msg, waitPush, waitCfm, complete, mine,
                   mbox, fw>>

\* Wrong variant: the last command of the list is looked at.
ScanMut ==
    /\ pc[Worker] = "scan" /\ lock = None
    /\ IF cmds # <<>> /\ cmds[Len(cmds)] \in waitPush
         THEN /\ mine' = [mine EXCEPT ![Worker] = cmds[Len(cmds)]]
              /\ pc' = [pc EXCEPT ![Worker] = "push"]
         ELSE Return(Worker)
    /\ UNCHANGED <<state, lock, cmds, msg, waitPush, waitCfm, complete, work,
                   mbox, fw>>

\* Only the first command of the list is looked at.
Scan ==
    /\ pc[Worker] = "scan" /\ lock = None
    /\ IF cmds # <<>> /\ cmds[1] \in waitPush
         THEN /\ mine' = [mine EXCEPT ![Worker] = cmds[1]]
              /\ pc' = [pc EXCEPT ![Worker] = "push"]
         ELSE Return(Worker)
    /\ UNCHANGED <<state, lock, cmds, msg, waitPush, waitCfm, complete, work,
                   mbox, fw>>

-----------------------------------------------------------------------------
(* The tx thread and the firmware, as this code uses them.                 *)

Transmit ==
    /\ mbox # None
    /\ fw' = IF Kind[mbox.msg] = "nocfm" THEN fw ELSE fw \cup {mbox}
    /\ mbox' = None
    /\ UNCHANGED <<state, lock, cmds, msg, waitPush, waitCfm, complete, pc,
                   mine, work>>

Awaits(i, m) == cmds[i] \in waitCfm /\ msg[cmds[i]] = m

\* The command cmd_mgr_msgind hands a confirmation of type m to, if any.
Accepting(m) ==
    {cmds[i] : i \in {k \in DOMAIN cmds :
                        Awaits(k, m) /\ \A j \in 1..(k - 1) : ~Awaits(j, m)}}

\* cmd_mgr_msgind: only the first command that awaits this type is completed.
MsgInd(p) ==
    /\ p \in fw /\ lock = None
    /\ fw' = fw \ {p}
    /\ waitCfm' = waitCfm \ Accepting(p.msg)
    /\ complete' = complete \cup Accepting(p.msg)
    /\ UNCHANGED <<state, lock, cmds, msg, waitPush, pc, mine, work, mbox>>

-----------------------------------------------------------------------------

SenderStep(t) ==
    \/ SendNoCfm(t)
    \/ PollCrashed(t)
    \/ Refuse(t)
    \/ QueueDirect(t)
    \/ QueueDeferred(t)
    \/ CheckWake(t)
    \/ ForceDefer(t)
    \/ WakeNext(t)

ThreadStep(t) ==
    \/ Push(t)
    \/ Remove(t)
    \/ TimeOut(t)
    \/ Crash(t)
    \/ Unlock(t)

Next ==
    \/ \E t \in Senders : Send(t) \/ SendNull(t) \/ SenderStep(t)
    \/ \E t \in Threads : ThreadStep(t)
    \/ WorkStart
    \/ Scan
    \/ Transmit
    \/ \E p \in fw : MsgInd(p)

Spec == Init /\ [][Next]_vars

(***************************************************************************)
(* Threads are scheduled, the tx thread runs when triggered, and firmware  *)
(* that does not stall answers.  No thread has to send.                    *)
(***************************************************************************)
Fairness ==
    /\ \A t \in Senders : WF_vars(SenderStep(t))
    /\ \A t \in Threads : WF_vars(ThreadStep(t))
    /\ WF_vars(WorkStart \/ Scan)
    /\ WF_vars(Transmit)
    /\ ~FwMayStall => \A p \in Packets : WF_vars(MsgInd(p))

FairSpec == Spec /\ Fairness

-----------------------------------------------------------------------------
(* Safety.                                                                 *)

\* On the list, handed to the transmit path, not confirmed.
InFlight == {s \in Queued : s \in waitCfm /\ s \notin waitPush}

(***************************************************************************)
(* The firmware never holds two unconfirmed commands, although senders     *)
(* push their own commands while the worker pushes those of others: the    *)
(* confirmation protocol, which matches on the type only, rests on it.     *)
(***************************************************************************)
OneOutstanding ==
    \A s, u \in InFlight : s = u

(***************************************************************************)
(* No overtaking: behind a command that still waits for its push or for    *)
(* its confirmation every command of the list waits for the worker         *)
(* (cmd_mgr_queue looks at the last command only).                         *)
(***************************************************************************)
DeferredBehindBusy ==
    \A i, j \in DOMAIN cmds :
        i < j /\ cmds[i] \in waitPush \cup waitCfm => cmds[j] \in waitPush

(***************************************************************************)
(* A confirmation reaches the command it was sent for: the first command   *)
(* of the list that cmd_mgr_msgind would accept is the one the firmware    *)
(* answers, even if later commands of the same type are queued.            *)
(***************************************************************************)
ConfirmsItsCommand ==
    \A p \in fw : Accepting(p.msg) = {p.slot}

\* Commands a thread works on and that are not on the list.
Unlisted == {mine[t] : t \in {u \in Senders : pc[u] = "queue"}}

\* A used command is either on the list, once, or held by the one thread that
\* is about to queue or drop it; nothing is freed while linked, nothing is lost.
PoolAgrees ==
    /\ {s \in Slots : msg[s] # None} = Queued \cup Unlisted
    /\ Queued \cap Unlisted = {}
    /\ \A i, j \in DOMAIN cmds : cmds[i] = cmds[j] => i = j
    /\ \A t, u \in Threads : mine[t] = mine[u] /\ mine[t] # None => t = u

\* No sender is given NULL if there is a command for each place of the list
\* and for each sender.
PoolSuffices ==
    Cardinality(Slots) >= MaxQueued + Cardinality(Senders) =>
        \A t \in Senders : pc[t] # "dead"

(***************************************************************************)
(* The pool and the list agree, through refusals, timeouts and late        *)
(* confirmations, so that rwnx_cmd_malloc fails only if more threads send  *)
(* at once than the pool is larger than the list.                          *)
(***************************************************************************)
PoolConsistent ==
    /\ PoolAgrees
    /\ PoolSuffices

(***************************************************************************)
(* A caller that gave a buffer for the confirmation stays in cmd_mgr_queue *)
(* as long as cmd_mgr_msgind may copy into that buffer, unless a wait      *)
(* timed out: a command with a buffer is never left to the worker.         *)
(***************************************************************************)
BufferLive ==
    \A s \in Queued :
        s \in waitCfm /\ Kind[msg[s]] = "cfm" /\ state # "crashed" =>
            \E t \in Senders : mine[t] = s /\ pc[t] \in {"push", "wait", "timedout"}

-----------------------------------------------------------------------------
(* Why the above holds: the inductive invariant.                           *)

Working == {"push", "wait", "timedout", "complete"}

\* A thread holds a command from rwnx_cmd_malloc until it parts with it.
ThreadsConsistent ==
    /\ \A t \in Threads :
        /\ pc[t] \in Working \cup {"queue"} <=> mine[t] # None
        /\ pc[t] \in Working => mine[t] \in Queued
        /\ pc[t] \in {"wait", "timedout", "complete"} => mine[t] \notin waitPush
        /\ pc[t] = "push" => mine[t] \in waitCfm
    /\ \A t \in Senders :
        /\ pc[t] # "scan"
        /\ pc[t] \in Working => mine[t] \notin waitPush
    /\ pc[Worker] \notin {"queue", "check", "wake"}
    /\ pc[Worker] = "push" =>
        cmds # <<>> /\ mine[Worker] = cmds[1] /\ mine[Worker] \in waitPush

\* Only commands of the list have flags; a signalled one awaits nothing.
FlagsConsistent ==
    /\ waitPush \subseteq waitCfm
    /\ waitCfm \subseteq Queued
    /\ complete \subseteq Queued
    /\ complete \cap waitCfm = {}
    /\ \A s \in Queued : Kind[msg[s]] # "nocfm"

\* A packet on its way belongs to a pushed, unconfirmed command of the list.
Carries(p) ==
    /\ p.slot \in InFlight
    /\ msg[p.slot] = p.msg
    /\ \A t \in Threads : pc[t] = "push" => mine[t] # p.slot

PacketsConsistent ==
    /\ \A p \in fw : Carries(p)
    /\ mbox # None /\ Kind[mbox.msg] # "nocfm" => Carries(mbox) /\ mbox \notin fw

(***************************************************************************)
(* The state a command is in shows alike in the list, in its flags, in the *)
(* position of its thread and in the packets on their way.                 *)
(***************************************************************************)
IndInv ==
    /\ TypeOK
    /\ PoolAgrees
    /\ ThreadsConsistent
    /\ FlagsConsistent
    /\ PacketsConsistent
    /\ DeferredBehindBusy

(***************************************************************************)
(* Why BufferLive holds: a command with a buffer is pushed by its own      *)
(* thread, which leaves it behind only after it has marked the manager.    *)
(***************************************************************************)
BufferInv ==
    /\ BufferLive
    /\ \A s \in Queued : Kind[msg[s]] = "cfm" => s \notin waitPush
    /\ \A t \in Threads : pc[t] = "complete" => state = "crashed"

(***************************************************************************)
(* Why the pool suffices: the list keeps to its limit, although a command  *)
(* that timed out stays on it, and the other senders hold one each.        *)
(***************************************************************************)
PoolInv ==
    /\ Len(cmds) <= MaxQueued
    /\ PoolSuffices

-----------------------------------------------------------------------------
(* The channel this manager implements.                                    *)

\* The length of the longest prefix of q that holds no element of P.
PrefixWithout(q, P) ==
    CHOOSE k \in 0..Len(q) :
        /\ \A i \in 1..k : q[i] \notin P
        /\ k < Len(q) => q[k + 1] \in P

\* The commands at the head of the list that are not left to the worker.
Handed == PrefixWithout(cmds, waitPush)

Channel == INSTANCE CmdChannel WITH
    pending     <- SubSeq(cmds, Handed + 1, Len(cmds)),
    outstanding <- InFlight,
    answered    <- {s \in Queued : s \notin waitCfm},
    dead        <- state = "crashed"

(***************************************************************************)
(* The list, the flags and the two pushers together are a channel that     *)
(* carries one command at a time in the order of acceptance.               *)
(***************************************************************************)
ImplementsChannel == Channel!Spec

-----------------------------------------------------------------------------
(* Steps, proved only (CmdMgr_proofs).                                     *)

(***************************************************************************)
(* Once the manager is CRASHED no command joins the list, whichever way it *)
(* is sent and whoever held the lock at that moment.                       *)
(***************************************************************************)
NothingQueuedAfterCrash ==
    [][state = "crashed" => state' = "crashed" /\ Queued' \subseteq Queued]_vars

-----------------------------------------------------------------------------
(* Liveness, under FairSpec.                                               *)

(***************************************************************************)
(* A queued command is eventually pushed, confirmed and retired, also when *)
(* its sender left it to the worker, unless some wait times out.           *)
(***************************************************************************)
QueuedLeaves ==
    \A s \in Slots : s \in Queued ~> s \notin Queued \/ state = "crashed"

(***************************************************************************)
(* A sender that waits for the confirmation of its command returns, by the *)
(* confirmation or by the timeout, even if the firmware stalls.            *)
(***************************************************************************)
WaitersReturn ==
    \A t \in Senders : pc[t] = "wait" ~> pc[t] = "idle"

=============================================================================
