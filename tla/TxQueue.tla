------------------------------ MODULE TxQueue ------------------------------
(***************************************************************************)
(* The transmit queues of one station of an access point: rwnx_txq.c, the  *)
(* power save and push functions of rwnx_tx.c, and the handlers of         *)
(* rwnx_msg_rx.c that stop and start queues.                               *)
(*                                                                         *)
(* The threads are the network stack and the tasklet (softirqs, atomic),   *)
(* the busrx thread that runs the firmware's indications one at a time,    *)
(* cfg80211's mgmt_tx, and the work that removes and adds the station.     *)
(* Everything done under tx_lock is one step.  What rwnx_txdatacfm does is *)
(* not under it, and is several steps.                                     *)
(***************************************************************************)
EXTENDS Integers, Sequences, FiniteSets, FiniteSetsExt, Functions, SequencesExt

CONSTANTS
    Data,        \* the data queues in the order of nx_tid_prio
    Mgmt,        \* the queue of management frames, TID 8
    Hwq,         \* the hardware queue of each
    PsId,        \* the kind of power save of each: legacy or U-APSD
    Frames,      \* the buffers
    Tid,         \* the queue of each
    NeedCfm,     \* those that the firmware confirms
    Credits,     \* NX_TXQ_INITIAL_CREDITS
    CreditMax,   \* the largest value of the credits, an s8
    NdevStop,    \* RWNX_NDEV_FLOW_CTRL_STOP
    NdevRestart, \* RWNX_NDEV_FLOW_CTRL_RESTART
    CreditBound, \* bound: how far retries may raise the credits
    StopBound,   \* bound: how many reasons stop the interface at a time
    CfmInterrupted, \* whether softirqs and threads run inside rwnx_txdatacfm
    None

Txqs == ToSet(Data) \cup {Mgmt}
Hwqs == {Hwq[q] : q \in Txqs}
Ids == {"legacy", "uapsd"}
U16 == 65536

ASSUME TxqAssumption ==
    /\ Data \in Seq(ToSet(Data)) /\ IsInjective(Data) /\ IsFiniteSet(Frames)
    /\ Hwq \in [Txqs -> STRING] /\ PsId \in [Txqs -> Ids]
    /\ Mgmt \notin ToSet(Data) /\ Tid \in [Frames -> Txqs]
    /\ NeedCfm \subseteq Frames /\ None \notin Frames \cup Txqs
    /\ Credits \in 1..CreditMax /\ CreditMax \in Nat
    /\ CreditBound \in Nat /\ StopBound \in Nat
    /\ NdevStop \in Nat /\ NdevRestart \in Nat
    /\ CfmInterrupted \in BOOLEAN

\* The reasons that stop the queues of the whole interface, and all of them.
VifStops == {"chan", "vif_ps", "csa"}
Stops == VifStops \cup {"full", "sta_ps"}

VARIABLES
    tx,      \* struct rwnx_txq of each queue
    need,    \* need_processing of each hardware queue
    task,    \* the tasklet is scheduled
    ps,      \* sta->ps: active, pkt_ready and sp_cnt
    vif,     \* the stops of the interface's own queues
    valid,   \* sta->valid
    subq,    \* the netdev subqueues that are stopped
    fw,      \* the frames that await a confirmation
    rx,      \* the busrx thread inside rwnx_txdatacfm
    csa,     \* the work that ends a channel switch announcement is scheduled
    mgmt,    \* the frame in the hands of rwnx_start_mgmt_xmit
    del,     \* the queue whose frames the removal has still to free
    halted   \* BUG_ON, or a corrupted list

vars == <<tx, need, task, ps, vif, valid, subq, fw, rx, csa, mgmt, del, halted>>

Idle == [pc |-> "idle", f |-> None, last |-> None]

Of(q) == {f \in Frames : Tid[f] = q}
Queued(q) == ToSet(tx[q].frames)
Held == (UNION {Queued(q) : q \in Txqs}) \cup fw \cup ({rx.f, mgmt} \ {None})
Free == Frames \ Held

\* The queues of one kind, and their frames under the queue states t.
Kind(id) == {q \in Txqs : PsId[q] = id}
Ready(t, id) ==
    SumFunctionOnSet([q \in Txqs |-> Len(t[q].frames)], Kind(id))

----------------------------------------------------------------------------
(***************************************************************************)
(* What the functions do to one struct rwnx_txq.                           *)
(***************************************************************************)

Fresh(status) ==
    [frames |-> <<>>, stop |-> status, sched |-> FALSE, credits |-> Credits,
     limit |-> 0, nbRetry |-> 0, last |-> None, flow |-> FALSE, active |-> TRUE]

\* Wrong variant: put on the list although another reason stops it.
StartedMut(t, reason) ==
    IF t.active /\ reason \in t.stop
    THEN [t EXCEPT !.stop = @ \ {reason}, !.sched = @ \/ t.frames # <<>>]
    ELSE t

\* rwnx_txq_start, rwnx_txq_stop
Started(t, reason) ==
    IF t.active /\ reason \in t.stop
    THEN [t EXCEPT !.stop = @ \ {reason},
                   !.sched = @ \/ (t.stop = {reason} /\ t.frames # <<>>)]
    ELSE t

Stopped(t, reason) ==
    IF t.active THEN [t EXCEPT !.stop = @ \cup {reason}, !.sched = FALSE] ELSE t

\* rwnx_txq_queue_skb: the queue with its new list of frames
FlowStopped(q, frames) == q # Mgmt /\ Len(frames) > NdevStop

WithFrames(q, t, frames) ==
    [t EXCEPT !.frames = frames,
              !.flow = @ \/ FlowStopped(q, frames),
              !.sched = @ \/ t.stop = {}]

\* Wrong variant: the limit of a service period is not looked at.
AllowedMut(t) == t.credits

\* rwnx_txq_get_credits, rwnx_txq_get_skb_to_push
Allowed(t) == IF t.limit # 0 /\ t.credits > t.limit THEN t.limit ELSE t.credits

Pushes(t) ==
    IF ~t.active THEN 0
    ELSE IF Allowed(t) >= Len(t.frames) THEN Len(t.frames) ELSE Allowed(t)

\* Wrong variant: a queue that is empty stays on the list.
ServedOutMut(t) == t.limit # 0 /\ Allowed(t) = t.limit

ServedOut(t) ==
    Allowed(t) >= Len(t.frames) \/ (t.limit # 0 /\ Allowed(t) = t.limit)

Less(a, b) == IF a > b THEN a - b ELSE 0

\* rwnx_hwq_process for one queue of the list, rwnx_tx_push for its frames
Served(q, t) ==
    LET n == Pushes(t)
        rest == SubSeq(t.frames, n + 1, Len(t.frames))
        limit == Less(t.limit, n)
    IN IF ~t.active
       THEN [t EXCEPT !.frames = <<>>, !.sched = FALSE]
       ELSE [t EXCEPT !.frames = rest,
                      !.nbRetry = Less(@, n),
                      !.last = IF t.nbRetry \in 1..n THEN None ELSE @,
                      !.sched = ~ServedOut(t),
                      !.limit = IF PsId[q] = "legacy" THEN 0 ELSE limit,
                      !.flow = @ /\ Len(rest) >= NdevRestart]

\* BUG_ON(txq->credits <= 0), BUG_ON(!rwnx_txq_skb_ready(txq))
Bug(t) == t.active /\ (t.credits <= 0 \/ t.frames = <<>>)

\* txq->credits is an s8
Incremented(c) == IF c = CreditMax THEN -CreditMax - 1 ELSE c + 1
----------------------------------------------------------------------------
(***************************************************************************)
(* The steps that several actions share.                                   *)
(***************************************************************************)

\* Wrong variant: the tasklet is not scheduled.
ScheduleMut == UNCHANGED task

\* tasklet_schedule
Schedule == task' = TRUE

\* Who may run: no softirq and no other thread inside rwnx_txdatacfm, unless
\* the instance says so.
MayRun == ~halted /\ (CfmInterrupted \/ rx.pc = "idle")

\* netif_stop_subqueue for the queues that have grown too long
NewlyStopped(t) == {q \in Txqs : t[q].flow /\ ~tx[q].flow}

\* rwnx_hwq_process of the hardware queues hs, on queues t with need n and
\* ready frames r counted for the station.
Process(t, n, r, hs) ==
    LET on == {q \in Txqs : t[q].sched /\ Hwq[q] \in hs}
        pushed(id) == SumFunctionOnSet([q \in on |-> Pushes(t[q])], on \cap Kind(id))
        over(id) == IF id = "legacy"
                    THEN SumFunctionOnSet([q \in on |-> Less(t[q].limit, Pushes(t[q]))],
                                          on \cap Kind(id))
                    ELSE 0
        sent == [q \in on |-> ToSet(SubSeq(t[q].frames, 1, Pushes(t[q])))]
    IN IF \E q \in on : Bug(t[q])
       THEN /\ halted' = TRUE
            /\ UNCHANGED <<tx, need, ps, subq, fw>>
       ELSE /\ tx' = [q \in Txqs |-> IF q \in on THEN Served(q, t[q]) ELSE t[q]]
            /\ need' = [h \in Hwqs |-> h \notin hs /\ n[h]]
            /\ ps' = IF ps.active
                     THEN [ps EXCEPT
                             !.ready = [id \in Ids |-> (r[id] - pushed(id)) % U16],
                             !.sp = [id \in Ids |->
                                       (@[id] - pushed(id) - over(id)) % U16]]
                     ELSE ps
            /\ subq' = (subq \cup NewlyStopped(t))
                         \ {q \in on : t[q].flow /\ ~Served(q, t[q]).flow}
            /\ fw' = fw \cup (NeedCfm \cap UNION {sent[q] : q \in on})
            /\ UNCHANGED halted

\* rwnx_txq_queue_skb of a new frame, and rwnx_hwq_process if it says that the
\* queue is on its list
QueueAndProcess(f) ==
    LET q == Tid[f]
        t == [tx EXCEPT ![q] = WithFrames(q, @, Append(@.frames, f))]
        n == [need EXCEPT ![Hwq[q]] = @ \/ (t[q].sched /\ ~tx[q].sched)]
        r == IF ps.active THEN [ps.ready EXCEPT ![PsId[q]] = (@ + 1) % U16]
             ELSE ps.ready
    IN Process(t, n, r, IF t[q].stop = {} THEN {Hwq[q]} ELSE {})

\* rwnx_txq_vif_start, rwnx_txq_vif_stop: the queues of the interface's own
\* and those of the station while it is on ap.sta_list.
Restart(t) ==
    /\ tx' = t
    /\ need' = [h \in Hwqs |->
                   need[h] \/ \E q \in Txqs :
                                /\ Hwq[q] = h /\ t[q].sched /\ ~tx[q].sched]

VifStart(reason) ==
    /\ vif' = vif \ {reason}
    /\ Restart(IF valid THEN [q \in Txqs |-> Started(tx[q], reason)] ELSE tx)

VifStop(reason) ==
    /\ Cardinality(vif \cup {reason}) <= StopBound
    /\ vif' = vif \cup {reason}
    /\ tx' = IF valid THEN [q \in Txqs |-> Stopped(tx[q], reason)] ELSE tx
    /\ UNCHANGED need
----------------------------------------------------------------------------
Init ==
    /\ tx = [q \in Txqs |-> Fresh({})]
    /\ need = [h \in Hwqs |-> FALSE]
    /\ task = FALSE
    /\ ps = [active |-> FALSE, ready |-> [id \in Ids |-> 0],
             sp |-> [id \in Ids |-> 0]]
    /\ vif = {} /\ valid = TRUE /\ subq = {}
    /\ fw = {}
    /\ rx = Idle /\ csa = FALSE /\ mgmt = None /\ del = None
    /\ halted = FALSE

\* The network stack transmits on a data queue whose subqueue is not stopped:
\* rwnx_start_xmit, intf_tx.  A frame for an inactive queue is freed.
IntfTx(f) ==
    /\ MayRun /\ Tid[f] \notin subq \cup {Mgmt} /\ tx[Tid[f]].active
    /\ QueueAndProcess(f)
    /\ UNCHANGED <<task, vif, valid, rx, csa, mgmt, del>>

\* mgmt_tx: whether the queue is active is tested before the lock is taken
MgmtCheck(f) ==
    /\ MayRun /\ mgmt = None /\ Tid[f] = Mgmt /\ tx[Mgmt].active
    /\ mgmt' = f
    /\ UNCHANGED <<tx, need, task, ps, vif, valid, subq, fw, rx, csa, del, halted>>

MgmtXmit ==
    /\ MayRun /\ mgmt # None
    /\ QueueAndProcess(mgmt)
    /\ mgmt' = None
    /\ UNCHANGED <<task, vif, valid, rx, csa, del>>

\* rwnx_task
Task ==
    /\ MayRun /\ task
    /\ task' = FALSE
    /\ Process(tx, need, ps.ready, {h \in Hwqs : need[h]})
    /\ UNCHANGED <<vif, valid, rx, csa, mgmt, del>>
----------------------------------------------------------------------------
(***************************************************************************)
(* The indications.  cmd_mgr_msgind enables softirqs before it calls the   *)
(* handler, which runs a tasklet that is scheduled.                        *)
(***************************************************************************)
Indication == ~halted /\ rx.pc = "idle" /\ ~task

ChanPreSwitch ==
    /\ Indication /\ "chan" \notin vif
    /\ VifStop("chan")
    /\ UNCHANGED <<task, ps, valid, subq, fw, rx, csa, mgmt, del, halted>>

ChanSwitch ==
    /\ Indication /\ "chan" \in vif
    /\ VifStart("chan")
    /\ Schedule
    /\ UNCHANGED <<ps, valid, subq, fw, rx, csa, mgmt, del, halted>>

P2pVifPsOn ==
    /\ Indication /\ "vif_ps" \notin vif
    /\ VifStop("vif_ps")
    /\ UNCHANGED <<task, ps, valid, subq, fw, rx, csa, mgmt, del, halted>>

P2pVifPsOff ==
    /\ Indication /\ "vif_ps" \in vif
    /\ VifStart("vif_ps")
    /\ Schedule
    /\ UNCHANGED <<ps, valid, subq, fw, rx, csa, mgmt, del, halted>>

CsaTraffic(enable) ==
    /\ Indication /\ enable = ("csa" \in vif)
    /\ IF enable THEN VifStart("csa") ELSE VifStop("csa")
    /\ UNCHANGED <<task, ps, valid, subq, fw, rx, csa, mgmt, del, halted>>

\* Wrong variants: the counters of the last sleep are not reset.
PsOnReadyMut ==
    /\ tx' = [q \in Txqs |-> Stopped(tx[q], "sta_ps")]
    /\ ps' = [active |-> TRUE,
              ready |-> [id \in Ids |-> (ps.ready[id] + Ready(tx, id)) % U16],
              sp |-> [id \in Ids |-> 0]]

PsOnSpMut ==
    /\ tx' = [q \in Txqs |-> Stopped(tx[q], "sta_ps")]
    /\ ps' = [ps EXCEPT !.active = TRUE,
                        !.ready = [id \in Ids |-> Ready(tx, id) % U16]]

\* rwnx_ps_bh_enable
PsOn ==
    /\ tx' = [q \in Txqs |-> Stopped(tx[q], "sta_ps")]
    /\ ps' = [active |-> TRUE,
              ready |-> [id \in Ids |-> Ready(tx, id) % U16],
              sp |-> [id \in Ids |-> 0]]

PsChange(on) ==
    /\ Indication /\ valid /\ on # ps.active
    /\ \/ on /\ PsOn /\ UNCHANGED <<need, task>>
       \/ /\ ~on
          /\ Restart([q \in Txqs |->
                        Started([tx[q] EXCEPT !.limit = 0], "sta_ps")])
          /\ ps' = [ps EXCEPT !.active = FALSE]
          /\ Schedule
    /\ UNCHANGED <<vif, valid, subq, fw, rx, csa, mgmt, del, halted>>

\* rwnx_ps_bh_traffic_req: the request is dealt out to the data queues in the
\* order of their priority; 0 asks for everything.  The firmware asks while the
\* interface may transmit.
TrafficReq(n, id) ==
    LET all == ps.ready[id] - ps.sp[id]
        req == IF n = 0 \/ n > all THEN all ELSE n
        can == [i \in DOMAIN Data |->
                  IF PsId[Data[i]] # id THEN 0
                  ELSE Min({Len(tx[Data[i]].frames), tx[Data[i]].credits})]
        grant == [i \in DOMAIN Data |->
                    Min({can[i], Less(req, SumFunctionOnSet(can, 1..(i - 1)))})]
        granted == {i \in DOMAIN Data : grant[i] > 0}
        t == [q \in Txqs |->
                IF \E i \in granted : Data[i] = q
                THEN [tx[q] EXCEPT !.sched = TRUE,
                        !.limit = grant[CHOOSE i \in granted : Data[i] = q]]
                ELSE tx[q]]
    IN /\ Indication /\ ps.active /\ vif = {} /\ ~csa
       /\ ps.sp[id] = 0 /\ all > 0
       /\ Restart(t)
       /\ ps' = [ps EXCEPT !.sp[id] = SumFunctionOnSet(grant, granted)]
       /\ Schedule
       /\ UNCHANGED <<vif, valid, subq, fw, rx, csa, mgmt, del, halted>>

\* PS_SP_INTERRUPTED ends a U-APSD service period, and every push_limit.
SpInterrupted ==
    /\ Indication /\ ps.active
    /\ ps' = [ps EXCEPT !.sp["uapsd"] = 0]
    /\ tx' = [q \in Txqs |-> [tx[q] EXCEPT !.limit = 0]]
    /\ UNCHANGED <<need, task, vif, valid, subq, fw, rx, csa, mgmt, del, halted>>

\* rwnx_txq_credit_update, which leaves the credits as they are
CreditsUpdate(q) ==
    /\ Indication
    /\ Restart([tx EXCEPT ![q] = IF @.credits <= 0 THEN Stopped(@, "full")
                                 ELSE Started(@, "full")])
    /\ UNCHANGED <<task, ps, vif, valid, subq, fw, rx, csa, mgmt, del, halted>>

\* rwnx_rx_csa_finish_ind schedules rwnx_csa_finish, which runs later: the new
\* channel is the current one by then or not.
CsaFinishInd ==
    /\ Indication /\ csa' = TRUE
    /\ UNCHANGED <<tx, need, task, ps, vif, valid, subq, fw, rx, mgmt, del, halted>>

CsaFinish(current) ==
    /\ MayRun /\ csa /\ csa' = FALSE
    /\ IF current THEN VifStart("chan") ELSE VifStop("chan")
    /\ UNCHANGED <<task, ps, valid, subq, fw, rx, mgmt, del, halted>>
----------------------------------------------------------------------------
(***************************************************************************)
(* rwnx_txdatacfm, which the busrx thread runs without tx_lock.            *)
(***************************************************************************)
CfmDone(f) ==
    LET q == Tid[f] IN
    /\ ~halted /\ rx.pc = "idle" /\ f \in fw
    /\ fw' = fw \ {f}
    /\ tx' = [tx EXCEPT ![q].sched =
                 @ \/ (tx[q].active /\ tx[q].limit # 0 /\ "full" \notin tx[q].stop)]
    /\ need' = [need EXCEPT ![Hwq[q]] = TRUE]
    /\ UNCHANGED <<task, ps, vif, valid, subq, rx, csa, mgmt, del, halted>>

\* rwnx_tx_retry: a data frame comes back.  CreditBound bounds the instance.
CfmRetry(f) ==
    LET q == Tid[f]
        c == Incremented(tx[q].credits)
        t == [tx[q] EXCEPT !.credits = c]
        r == [tx EXCEPT ![q] = IF c > 0 THEN Started(t, "full") ELSE t]
    IN /\ ~halted /\ rx.pc = "idle" /\ f \in fw /\ q # Mgmt /\ tx[q].active
       /\ tx[q].credits < CreditBound
       /\ fw' = fw \ {f}
       /\ tx' = r
       /\ need' = [need EXCEPT ![Hwq[q]] = TRUE]
       /\ ps' = IF ps.active THEN [ps EXCEPT !.ready[PsId[q]] = (@ + 1) % U16]
                ELSE ps
       /\ rx' = [pc |-> "link", f |-> f, last |-> tx[q].last]
       /\ UNCHANGED <<task, vif, valid, subq, csa, mgmt, del, halted>>

\* Wrong variant: always at the head.
RetryLinkMut ==
    /\ ~halted /\ rx.pc = "link"
    /\ tx' = [tx EXCEPT ![Tid[rx.f]].frames = <<rx.f>> \o @]
    /\ rx' = [rx EXCEPT !.pc = "count"]
    /\ UNCHANGED <<need, task, ps, vif, valid, subq, fw, csa, mgmt, del, halted>>

\* skb_append behind the last frame to retry, which has to be in the list, or
\* skb_queue_head
RetryLink ==
    LET frames == tx[Tid[rx.f]].frames
        at == IF rx.last = None THEN 1
              ELSE 1 + CHOOSE i \in DOMAIN frames : frames[i] = rx.last
    IN /\ ~halted /\ rx.pc = "link"
       /\ IF rx.last \notin ToSet(frames) \cup {None}
          THEN halted' = TRUE /\ UNCHANGED <<tx, rx>>
          ELSE /\ tx' = [tx EXCEPT ![Tid[rx.f]].frames = InsertAt(@, at, rx.f)]
               /\ rx' = [rx EXCEPT !.pc = "count"]
               /\ UNCHANGED halted
       /\ UNCHANGED <<need, task, ps, vif, valid, subq, fw, csa, mgmt, del>>

RetryCount ==
    /\ ~halted /\ rx.pc = "count"
    /\ tx' = [tx EXCEPT ![Tid[rx.f]].last = rx.f, ![Tid[rx.f]].nbRetry = @ + 1]
    /\ rx' = [rx EXCEPT !.pc = "list"]
    /\ UNCHANGED <<need, task, ps, vif, valid, subq, fw, csa, mgmt, del, halted>>

RetryList ==
    LET t == [tx EXCEPT ![Tid[rx.f]] = WithFrames(Tid[rx.f], @, @.frames)] IN
    /\ ~halted /\ rx.pc = "list"
    /\ Restart(t)
    /\ subq' = subq \cup NewlyStopped(t)
    /\ rx' = Idle
    /\ UNCHANGED <<task, ps, vif, valid, fw, csa, mgmt, del, halted>>
----------------------------------------------------------------------------
(***************************************************************************)
(* The station goes and another one comes with the same index:             *)
(* apm_staloss_work_process, rwnx_cfg80211_del_station and _add_station.   *)
(***************************************************************************)
DelStation ==
    /\ MayRun /\ valid
    /\ valid' = FALSE
    /\ ps' = [ps EXCEPT !.active = FALSE]
    /\ UNCHANGED <<tx, need, task, vif, subq, fw, rx, csa, mgmt, del, halted>>

\* rwnx_txq_deinit, under the lock and after it
Deinit(q) ==
    /\ MayRun /\ ~valid /\ del = None /\ tx[q].active
    /\ tx' = [tx EXCEPT ![q].active = FALSE, ![q].sched = FALSE]
    /\ del' = q
    /\ UNCHANGED <<need, task, ps, vif, valid, subq, fw, rx, csa, mgmt, halted>>

Flush ==
    /\ MayRun /\ del # None
    /\ tx' = [tx EXCEPT ![del].frames = <<>>]
    /\ del' = None
    /\ UNCHANGED <<need, task, ps, vif, valid, subq, fw, rx, csa, mgmt, halted>>

\* The station may already be asleep.
AddStation(asleep) ==
    /\ MayRun /\ ~valid /\ del = None
    /\ \A q \in Txqs : ~tx[q].active
    /\ valid' = TRUE
    /\ LET status == vif \cap {"chan", "vif_ps"} IN
       tx' = [q \in Txqs |->
                Fresh(IF asleep THEN status \cup {"sta_ps"} ELSE status)]
    /\ ps' = [ps EXCEPT !.active = asleep,
                        !.ready = IF asleep THEN [id \in Ids |-> 0] ELSE @,
                        !.sp = IF asleep THEN [id \in Ids |-> 0] ELSE @]
    /\ task' = (task \/ ~asleep)
    /\ UNCHANGED <<need, vif, subq, fw, rx, csa, mgmt, del, halted>>
----------------------------------------------------------------------------
Next ==
    \/ \E f \in Free : IntfTx(f) \/ MgmtCheck(f)
    \/ MgmtXmit \/ Task
    \/ ChanPreSwitch \/ ChanSwitch \/ P2pVifPsOn \/ P2pVifPsOff
    \/ \E b \in BOOLEAN : CsaTraffic(b) \/ PsChange(b) \/ CsaFinish(b)
    \/ \E n \in 0..1, id \in Ids : TrafficReq(n, id)
    \/ SpInterrupted \/ CsaFinishInd
    \/ \E q \in Txqs : CreditsUpdate(q)
    \/ \E f \in Frames : CfmDone(f) \/ CfmRetry(f)
    \/ RetryLink \/ RetryCount \/ RetryList
    \/ DelStation \/ (\E q \in Txqs : Deinit(q)) \/ Flush
    \/ \E b \in BOOLEAN : AddStation(b)

Spec == Init /\ [][Next]_vars

\* The tasklet runs when it is scheduled, and what a thread has begun goes on.
\* Nothing makes the firmware answer or the network stack transmit.
FairSpec ==
    /\ Spec
    /\ WF_vars(Task) /\ WF_vars(MgmtXmit) /\ WF_vars(Flush)
    /\ WF_vars(RetryLink \/ RetryCount \/ RetryList)
----------------------------------------------------------------------------
Row == [frames : Seq(Frames), stop : SUBSET Stops, sched : BOOLEAN,
        credits : (-CreditMax - 1)..CreditMax, limit : Nat, nbRetry : Nat,
        last : Frames \cup {None}, flow : BOOLEAN, active : BOOLEAN]

TypeOK ==
    /\ \A q \in Txqs : tx[q] \in Row
    /\ need \in [Hwqs -> BOOLEAN] /\ task \in BOOLEAN
    /\ ps \in [active : BOOLEAN, ready : [Ids -> 0..(U16 - 1)],
               sp : [Ids -> 0..(U16 - 1)]]
    /\ vif \subseteq VifStops /\ valid \in BOOLEAN /\ subq \subseteq Txqs
    /\ fw \subseteq Frames /\ csa \in BOOLEAN
    /\ mgmt \in Frames \cup {None} /\ del \in Txqs \cup {None}
    /\ halted \in BOOLEAN

(***************************************************************************)
(* The hardware lists are exact: a queue is on its list if it has frames   *)
(* and nothing stops it, and it is on it only with frames and if either    *)
(* nothing stops it or a service period lets it send.  Five reasons come   *)
(* and go independently (rwnx_txq_start, rwnx_txq_stop), service periods   *)
(* bypass them and rwnx_hwq_process takes queues off.                      *)
(***************************************************************************)
QueuesInService ==
    \A q \in Txqs : tx[q].active =>
        /\ tx[q].sched => tx[q].frames # <<>> /\ (tx[q].stop = {} \/ tx[q].limit > 0)
        /\ tx[q].frames # <<>> /\ tx[q].stop = {} => tx[q].sched \/ rx.f \in Of(q)

(***************************************************************************)
(* rwnx_hwq_process meets neither of its BUG_ON (credits, no frame ready), *)
(* and a frame to retry is linked behind one that is still in the list.    *)
(***************************************************************************)
NeverHalts == ~halted

(***************************************************************************)
(* What a sleeping station is told, pkt_ready of each kind, is the number  *)
(* of frames that wait for it; the counter is a u16 that five functions    *)
(* keep apart from the queues.                                             *)
(***************************************************************************)
ReadyCounted ==
    ps.active => \A id \in Ids :
        ps.ready[id] = Ready(tx, id)
                        + (IF rx.pc = "link" /\ PsId[Tid[rx.f]] = id THEN 1 ELSE 0)

(***************************************************************************)
(* A service period is what its queues may still push, and no more than    *)
(* they hold: sp_cnt, which ends the period with EOSP and bars the next    *)
(* one, agrees with the push_limit of the queues it was dealt out to.      *)
(***************************************************************************)
GrantKept ==
    ps.active =>
        /\ \A id \in Ids :
              ps.sp[id] = SumFunctionOnSet([q \in Txqs |-> tx[q].limit], Kind(id))
        /\ \A q \in Txqs : tx[q].active => tx[q].limit <= Len(tx[q].frames)

(***************************************************************************)
(* Frames to retry are the first nb_retry of the list in the order of      *)
(* their confirmations, and last_retry_skb is the last of them: retried    *)
(* frames stay in order and overtake what was queued meanwhile.            *)
(***************************************************************************)
RetriesFirst ==
    \A q \in Txqs : tx[q].active /\ rx.f \notin Of(q) =>
        /\ tx[q].nbRetry <= Len(tx[q].frames)
        /\ tx[q].last = IF tx[q].nbRetry = 0 THEN None
                        ELSE tx[q].frames[tx[q].nbRetry]

(***************************************************************************)
(* A station's view of its queues, which five reasons stop, the firmware   *)
(* starts and the removal empties: the lines of FrameLines.  What is to be *)
(* sent again are the nb_retry frames that rwnx_tx_retry has counted and   *)
(* the one it has linked and not yet counted.                              *)
(***************************************************************************)
Lists == [q \in Txqs |-> tx[q].frames]

Again ==
    [q \in Txqs |-> IF ~tx[q].active THEN 0
                    ELSE IF rx.pc = "count" /\ Tid[rx.f] = q THEN tx[q].nbRetry + 1
                    ELSE tx[q].nbRetry]

InLine == INSTANCE FrameLines WITH
    Lines <- Txqs, LineOf <- Tid, Confirmed <- NeedCfm,
    line <- Lists, again <- Again, open <- {q \in Txqs : tx[q].active},
    sent <- fw, back <- IF rx.pc = "link" THEN rx.f ELSE None

ImplementsLines == InLine!Spec

(***************************************************************************)
(* A station that sleeps is sent only what its service period allows,      *)
(* whoever processes the hardware queue at that moment.                    *)
(***************************************************************************)
OnlyGranted ==
    [][\A q \in Txqs :
         ps.active /\ ps'.active /\ Len(tx'[q].frames) < Len(tx[q].frames)
           => Len(tx[q].frames) - Len(tx'[q].frames) <= tx[q].limit]_vars

(***************************************************************************)
(* A service period comes to its end ("Don't start SP until previous one   *)
(* is finished" would bar every later one): pushed, aborted by the         *)
(* firmware, or ended because the station wakes up or goes.                *)
(***************************************************************************)
InPeriod == valid /\ \E q \in Txqs : tx[q].active /\ tx[q].limit > 0
GrantServed == InPeriod ~> ~InPeriod
=============================================================================
