----------------------------- MODULE RxReorder -----------------------------
(***************************************************************************)
(* One window of the receive reorder (rwnx_rx.c, AICWF_RX_REORDER): the    *)
(* frames of one station and one traffic class.  The rx thread inserts     *)
(* frames by their sequence numbers, modulo M, and delivers what is in     *)
(* turn; a timer schedules a worker that gives up the gap in front of the  *)
(* first frame held; a frame sent outside aggregation flushes the window.  *)
(*                                                                         *)
(* Frames carry their true number; the code sees only Sn(n).  Critical     *)
(* sections under reord_list_lock are one step.                            *)
(***************************************************************************)
EXTENDS Integers, Sequences, SequencesExt

CONSTANTS
    M,          \* 4096, modulus of the sequence numbers
    W,          \* AICWF_REORDER_WINSIZE
    Pool,       \* MAX_REORD_RXFRAME, recv_msdu on the free queue
    First,      \* sequence number of frame 0
    N,          \* bound: number of frames the sender sends
    SendWin,    \* frames the sender may be ahead of its oldest frame on the air
    Burst,      \* frames the sender may be ahead of the last that arrived
    Rtp         \* frames taken for RTP packets

NoSn == 65535

\* No frame that may arrive is half a cycle from the frame whose turn it is.
ASSUME RxReorderAssumption ==
    /\ M \in 2..NoSn /\ M % 2 = 0
    /\ W \in Nat \ {0} /\ Pool \in Nat \ {0}
    /\ First \in 0..(M - 1)
    /\ N \in Nat \ {0} /\ SendWin \in Nat \ {0} /\ Burst \in Nat \ {0}
    /\ Burst + W <= M \div 2 /\ Burst + SendWin <= M \div 2
    /\ Rtp \subseteq 0..(N - 1)

VARIABLES
    sent,       \* number of the frame the sender sends next
    air,        \* frames sent that may still arrive
    top,        \* highest number that has come to the window
    enable,     \* preorder_ctrl->enable
    ind_sn,     \* preorder_ctrl->ind_sn
    list,       \* preorder_ctrl->reord_list
    free,       \* length of rx_priv->rxframes_freequeue
    timer,      \* reord_timer is pending
    work,       \* reord_timer_work: "none", "queued", "running", or "requeued"
    pc,         \* where the rx thread is
    cur,        \* the frame it has in hand
    out         \* the frames the last step delivered

envVars == <<sent, air>>
vars == <<sent, air, top, enable, ind_sn, list, free, timer, work, pc, cur, out>>

Sn(n) == (n + First) % M

TypeOK ==
    /\ sent \in 0..N /\ air \subseteq 0..(N - 1) /\ top \in -1..(N - 1)
    /\ enable \in BOOLEAN
    /\ ind_sn \in 0..(M - 1) \cup {NoSn}
    /\ list \in Seq(0..(N - 1))
    /\ free \in 0..Pool
    /\ timer \in BOOLEAN
    /\ work \in {"none", "queued", "running", "requeued"}
    /\ pc \in {"idle", "lookup", "unit", "untimer", "unwork", "direct"}
    /\ cur \in 0..(N - 1)
    /\ out \in Seq(0..(N - 1))

Init ==
    /\ sent = 0 /\ air = {} /\ top = -1
    /\ enable = FALSE
    /\ ind_sn = NoSn
    /\ list = <<>>
    /\ free = Pool
    /\ timer = FALSE
    /\ work = "none"
    /\ pc = "idle" /\ cur = 0
    /\ out = <<>>

-----------------------------------------------------------------------------
(* Sequence numbers.                                                       *)

SN_LESS(a, b) == (a - b) % M >= M \div 2

\* Wrong variant: one too low where the start of the window wraps.
WindowStartMut(sn) ==
    IF sn >= W - 1 THEN sn - (W - 1) ELSE (M - 1) - (W - (sn + 1))

\* The start of the window that ends with sn.
WindowStart(sn) ==
    IF sn >= W - 1 THEN sn - (W - 1) ELSE (M - 1) - (W - (sn + 1)) + 1

\* reord_need_check: is the frame late, and what is ind_sn then?
NeedCheck(ind, sn) ==
    LET ind0 == IF ind = NoSn THEN sn ELSE ind
        wend == (ind + W - 1) % M
    IN  [late |-> SN_LESS(sn, ind0),
         ind  |-> IF SN_LESS(sn, ind0) THEN ind0
                  ELSE IF sn = ind0 THEN (ind0 + 1) % M
                  ELSE IF SN_LESS(wend, sn) THEN WindowStart(sn)
                  ELSE ind0]

-----------------------------------------------------------------------------
(* The list.                                                               *)

\* The length of the longest prefix of l all of whose frames are in S.
PrefixIn(l, S) ==
    CHOOSE k \in 0..Len(l) :
        /\ \A i \in 1..k : l[i] \in S
        /\ k < Len(l) => l[k + 1] \notin S

\* Where reord_rxframe_enqueue stops: behind the frames that come before n.
Place(l, n) == PrefixIn(l, {m \in 0..(N - 1) : SN_LESS(Sn(m), Sn(n))})

IsDuplicate(l, n) ==
    LET k == Place(l, n) IN k < Len(l) /\ Sn(l[k + 1]) = Sn(n)

\* One turn of the loop of reord_rxframes_process, which ends at the first gap.
Turn(a, n) ==
    IF a.more THEN a
    ELSE IF SN_LESS(a.ind, Sn(n)) THEN [a EXCEPT !.more = TRUE]
    ELSE IF a.ind = Sn(n) THEN [a EXCEPT !.ind = (@ + 1) % M]
    ELSE a

\* The loop: advance ind over what follows it in l; is there more behind a gap?
Advance(ind, l) ==
    LET a[k \in 0..Len(l)] ==
            IF k = 0 THEN [ind |-> ind, more |-> FALSE] ELSE Turn(a[k - 1], l[k])
    IN  a[Len(l)]

\* reord_rxframes_ind: deliver every frame of the list that ind has passed.
Passed(ind) == {m \in 0..(N - 1) : ~SN_LESS(ind, Sn(m))}

Indicate(ind, l) ==
    LET k == PrefixIn(l, Passed(ind))
    IN  /\ out' = SubSeq(l, 1, k)
        /\ list' = SubSeq(l, k + 1, Len(l))

-----------------------------------------------------------------------------
(* The sender, and the firmware that hands on what arrives.                *)

Send ==
    /\ sent < N
    /\ \A n \in air : sent - n < SendWin
    /\ sent - top <= Burst
    /\ sent' = sent + 1
    /\ air' = air \cup {sent}
    /\ out' = <<>>
    /\ UNCHANGED <<top, enable, ind_sn, list, free, timer, work, pc, cur>>

\* A frame is lost; or it has arrived and arrives no second time.
Lose ==
    /\ \E n \in air : air' = air \ {n}
    /\ out' = <<>>
    /\ UNCHANGED <<sent, top, enable, ind_sn, list, free, timer, work, pc, cur>>

-----------------------------------------------------------------------------
(* The rx thread.                                                          *)

\* reord_process_unit takes a recv_msdu; without one the frame is dropped.
Alloc ==
    /\ pc = "idle"
    /\ cur' \in air
    /\ out' = <<>>
    /\ IF free = 0 THEN UNCHANGED <<free, pc>>
       ELSE free' = free - 1 /\ pc' = "lookup"
    /\ UNCHANGED <<envVars, top, enable, ind_sn, list, timer, work>>

\* The frame is freed, its recv_msdu is not given back.
TurnAway ==
    /\ pc = "lookup" /\ pc' = "idle"
    /\ out' = <<>>
    /\ UNCHANGED <<envVars, top, enable, ind_sn, list, free, timer, work, cur>>

\* The interface has become neither station nor access point since the caller
\* looked, as rwnx_cfg80211_change_iface may have made it at any time.
WrongType == TurnAway

\* The station has no window yet, and reord_init_sta makes none: no memory, or
\* the bus is down.
NoWindow == ~enable /\ ind_sn = NoSn /\ TurnAway

\* Under stas_reord_lock: a new window, or one that was flushed, begins anew.
Lookup ==
    /\ pc = "lookup"
    /\ ind_sn' = IF enable THEN ind_sn ELSE NoSn
    /\ enable' = TRUE
    /\ pc' = "unit"
    /\ out' = <<>>
    /\ UNCHANGED <<envVars, top, list, free, timer, work, cur>>

Check == NeedCheck(ind_sn, Sn(cur))

HandOver == pc = "unit" /\ pc' = "idle" /\ top' = IF cur > top THEN cur ELSE top

\* A late frame is delivered at once, unless it looks like RTP.
UnitLate ==
    /\ HandOver
    /\ Check.late
    /\ ind_sn' = Check.ind
    /\ out' = IF cur \in Rtp THEN <<>> ELSE <<cur>>
    /\ free' = free + 1
    /\ UNCHANGED <<envVars, enable, list, timer, work, cur>>

\* A frame that is on the list already is dropped.
UnitDuplicate ==
    /\ HandOver
    /\ ~Check.late /\ IsDuplicate(list, cur)
    /\ ind_sn' = Check.ind
    /\ out' = <<>>
    /\ free' = free + 1
    /\ UNCHANGED <<envVars, enable, list, timer, work, cur>>

\* Wrong variant: any delivery stops the timer, although a gap may be left.
UnitMut ==
    /\ HandOver
    /\ ~Check.late /\ ~IsDuplicate(list, cur)
    /\ \E l \in {InsertAt(list, Place(list, cur) + 1, cur)} :
       \E a \in {Advance(Check.ind, l)} :
           /\ ind_sn' = a.ind
           /\ Indicate(a.ind, l)
           /\ timer' = (a.more /\ out' = <<>>)
           /\ free' = free + Len(out')
    /\ UNCHANGED <<envVars, enable, work, cur>>

\* Wrong variant: the recv_msdu of the frames delivered are not given back.
UnitLeakMut ==
    /\ HandOver
    /\ ~Check.late /\ ~IsDuplicate(list, cur)
    /\ \E l \in {InsertAt(list, Place(list, cur) + 1, cur)} :
       \E a \in {Advance(Check.ind, l)} :
           /\ ind_sn' = a.ind
           /\ timer' = a.more
           /\ Indicate(a.ind, l)
           /\ free' = IF out' = <<>> THEN free ELSE free + 1
    /\ UNCHANGED <<envVars, enable, work, cur>>

\* The frame is inserted; the timer runs as long as there is a gap.  (The sets of
\* one element name the list and the outcome of the loop.)
Unit ==
    /\ HandOver
    /\ ~Check.late /\ ~IsDuplicate(list, cur)
    /\ \E l \in {InsertAt(list, Place(list, cur) + 1, cur)} :
       \E a \in {Advance(Check.ind, l)} :
           /\ ind_sn' = a.ind
           /\ timer' = a.more
           /\ Indicate(a.ind, l)
           /\ free' = free + Len(out')
    /\ UNCHANGED <<envVars, enable, work, cur>>

\* reord_flush_tid, for a frame that was not sent in an aggregate: nothing to
\* do without a window, or everything held is delivered ...
FlushTid ==
    /\ pc = "idle"
    /\ cur' \in air
    /\ IF enable
       THEN /\ out' = list
            /\ list' = <<>>
            /\ free' = free + Len(list)
            /\ enable' = FALSE
            /\ pc' = "untimer"
       ELSE /\ out' = <<>>
            /\ pc' = "direct"
            /\ UNCHANGED <<list, free, enable>>
    /\ UNCHANGED <<envVars, top, ind_sn, timer, work>>

\* ... the timer is stopped ...
FlushTimer ==
    /\ pc = "untimer"
    /\ timer' = FALSE
    /\ pc' = "unwork"
    /\ out' = <<>>
    /\ UNCHANGED <<envVars, top, enable, ind_sn, list, free, work, cur>>

\* ... and the worker, waiting for one that has begun ...
FlushWork ==
    /\ pc = "unwork"
    /\ work \in {"none", "queued"}
    /\ work' = "none"
    /\ pc' = "direct"
    /\ out' = <<>>
    /\ UNCHANGED <<envVars, top, enable, ind_sn, list, free, timer, cur>>

\* ... before the frame itself is delivered.
Direct ==
    /\ pc = "direct"
    /\ out' = <<cur>>
    /\ top' = IF cur > top THEN cur ELSE top
    /\ pc' = "idle"
    /\ UNCHANGED <<envVars, enable, ind_sn, list, free, timer, work, cur>>

-----------------------------------------------------------------------------
(* The timer and the worker.                                               *)

\* reord_timeout_handler schedules the work, also while it is running.
TimerFires ==
    /\ timer
    /\ timer' = FALSE
    /\ work' = CASE work = "none" -> "queued"
                 [] work = "running" -> "requeued"
                 [] OTHER -> work
    /\ out' = <<>>
    /\ UNCHANGED <<envVars, top, enable, ind_sn, list, free, pc, cur>>

WorkStarts ==
    /\ work = "queued"
    /\ work' = "running"
    /\ out' = <<>>
    /\ UNCHANGED <<envVars, top, enable, ind_sn, list, free, timer, pc, cur>>

\* Nothing is held, or the gap in front of the first frame is passed over.
GivenUp ==
    IF list = <<>> THEN [ind |-> ind_sn, more |-> FALSE]
    ELSE Advance(Sn(Head(list)), list)

WorkEnds == work' = IF work = "requeued" THEN "queued" ELSE "none"

\* Wrong variant: the timer is not started again for what is still held.
WorkerMut ==
    /\ work \in {"running", "requeued"}
    /\ WorkEnds
    /\ \E a \in {GivenUp} :
           /\ ind_sn' = a.ind
           /\ Indicate(a.ind, list)
           /\ free' = free + Len(out')
    /\ UNCHANGED <<envVars, top, enable, timer, pc, cur>>

\* reord_timeout_worker: the gap in front of the first frame is given up.
Worker ==
    /\ work \in {"running", "requeued"}
    /\ WorkEnds
    /\ \E a \in {GivenUp} :
           /\ ind_sn' = a.ind
           /\ timer' = (timer \/ a.more)
           /\ Indicate(a.ind, list)
           /\ free' = free + Len(out')
    /\ UNCHANGED <<envVars, top, enable, pc, cur>>

-----------------------------------------------------------------------------

RxStep ==
    \/ NoWindow \/ WrongType \/ Lookup
    \/ UnitLate \/ UnitDuplicate \/ Unit
    \/ FlushTimer \/ FlushWork \/ Direct

Next ==
    \/ Send \/ Lose
    \/ Alloc \/ FlushTid \/ RxStep
    \/ TimerFires \/ WorkStarts \/ Worker

Spec == Init /\ [][Next]_vars

\* The timer expires, the work is done, a call that was begun ends; nothing
\* makes a frame arrive.
Fairness ==
    /\ WF_vars(TimerFires)
    /\ WF_vars(WorkStarts) /\ WF_vars(Worker)
    /\ WF_vars(RxStep)

FairSpec == Spec /\ Fairness

-----------------------------------------------------------------------------

(* What the window does, in true numbers.                                  *)

Listed == {list[i] : i \in DOMAIN list}

\* The number that ind_sn stands for: none is further from the last frame than M.
TrueNext ==
    IF enable /\ ind_sn # NoSn THEN top + 1 - ((Sn(top + 1) - ind_sn) % M) ELSE -1

Window == INSTANCE InOrderWindow WITH Size <- W, Numbers <- 0..(N - 1), next <- TrueNext, held <- Listed

(***************************************************************************)
(* Refinement: modulo arithmetic, the loops that break off at the first    *)
(* gap, the timer and the flush do to the numbers modulo M what the window *)
(* promises for the true numbers, as long as no more than Burst frames in  *)
(* a row are lost.                                                         *)
(***************************************************************************)
ImplementsWindow == Window!Spec

(***************************************************************************)
(* The list is in order and within the window: a frame that is held lies   *)
(* strictly behind the frame whose turn it is and less than W ahead, so    *)
(* SN_LESS compares true numbers.                                          *)
(***************************************************************************)
WindowOrdered ==
    /\ TypeOK
    /\ \A i, j \in DOMAIN list : i < j => list[i] < list[j]
    /\ \A n \in Listed : enable /\ TrueNext < n /\ n < TrueNext + W

(***************************************************************************)
(* A gap is never forgotten: while a frame is held the timer runs or the   *)
(* worker is on its way, however arrivals stop and start the timer.        *)
(***************************************************************************)
HeldIsTimed == list # <<>> => timer \/ work # "none"

\* The recv_msdu on the free queue, on the list and in hand.
Owned == free + Len(list) + (IF pc \in {"lookup", "unit"} THEN 1 ELSE 0)

\* A step loses nothing of the pool, except that a frame turned away takes its own.
PoolStep ==
    Owned' = IF pc = "lookup" /\ pc' = "idle" THEN Owned - 1 ELSE Owned

(***************************************************************************)
(* Every way out of reord_process_unit behind the look-up, the flush and   *)
(* the worker give each recv_msdu back, once.  The two ways out before it, *)
(* an unsupported type of interface and a station for which no window can  *)
(* be made, lose one each, for good, and nothing else does.                *)
(***************************************************************************)
PoolConserved == [][PoolStep]_vars

(***************************************************************************)
(* Liveness, under FairSpec: the frames that are held are delivered once   *)
(* the sender, which has N frames to send, has no more to add, although    *)
(* the gap in front of them may never be filled, frames may be dropped for *)
(* want of a recv_msdu, turned away or come twice.                         *)
(***************************************************************************)
HeldGoes == list # <<>> ~> list = <<>>

=============================================================================
