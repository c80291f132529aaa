--------------------------- MODULE SdioTx_proofs ----------------------------
(***************************************************************************)
(* The transmit path of the SDIO bus, for any number of callers, frames,   *)
(* priorities and firmware buffers: the frame queue stays in order, the    *)
(* highest priority goes first, the reserve of the firmware's buffers is   *)
(* kept, no frame stays behind in the aggregation buffer, and no wakeup is *)
(* lost.                                                                   *)
(*                                                                         *)
(* tx_pktcnt is the length of the queue, plus the frame in the thread's    *)
(* hand, less the frame that a caller has queued and not yet counted       *)
(* (Counted).  So "tx_pktcnt == 1" with an empty queue means that the      *)
(* frame in hand is the last one, which empties the buffer (LastGoes); and *)
(* a credit that is read once and used up frame by frame stays below what  *)
(* the firmware has free (CreditCovers).                                   *)
(***************************************************************************)
EXTENDS Integers, SdioTx, TLAPS, FiniteSetTheorems, WellFoundedInduction

-----------------------------------------------------------------------------
(***************************************************************************)
(* What the operations of the frame queue do, for every number of          *)
(* priorities: the hint hi_prio never hides a frame, the counter is exact, *)
(* and the frame taken is one of the highest priority.                     *)
(***************************************************************************)

\* A queue in order; the set of its places is finite because it grew by
\* single frames.
Sound(q, Frame) ==
    q \in Queues(Frame) /\ InStep(q) /\ IsFiniteSet(Places(q))

LEMMA PlacesAre ==
  ASSUME NEW q
  PROVE  \A x : x \in Places(q) <=>
            \E p \in Prios : \E i \in DOMAIN q.list[p] : x = <<p, i>>
  BY DEF Places

LEMMA PlaceIs ==
  ASSUME NEW q, NEW p, NEW i
  PROVE  <<p, i>> \in Places(q) <=> p \in Prios /\ i \in DOMAIN q.list[p]
<1>1. ASSUME NEW r, NEW j, <<p, i>> = <<r, j>> PROVE p = r /\ i = j
  BY <1>1
<1> QED
  BY <1>1, PlacesAre

\* A nonempty set of priorities has a highest one.
LEMMA HighestIn ==
  ASSUME NumPrio \in Nat \ {0}, NEW S \in SUBSET Prios, S # {}
  PROVE  \E p \in S : \A r \in S : r <= p
<1> DEFINE above(i) == {j \in S : j > i}
           T == {above(i) : i \in S}
<1>1. S \subseteq Nat
  BY DEF Prios
<1>2. T \subseteq FiniteSubsetsOf(S) /\ T # {}
  <2>1. IsFiniteSet(0..(NumPrio - 1))
    BY FS_Interval
  <2>2. IsFiniteSet(S)
    BY <2>1, FS_Subset DEF Prios
  <2>3. FiniteSubsetsOf(S) = SUBSET S
    BY <2>2, FS_FiniteSubsetsOfFinite
  <2>4. \A i \in S : above(i) \in SUBSET S
    OBVIOUS
  <2> HIDE DEF above
  <2> QED
    BY <2>3, <2>4
<1>3. PICK L \in T : \A M \in T : ~(<<M, L>> \in StrictSubsetOrdering(S))
  BY <1>2, WFMin, FS_StrictSubsetOrderingWellFounded
<1>4. PICK x \in S : L = above(x)
  BY <1>3
<1>5. ASSUME NEW y \in S, y > x
      PROVE  FALSE
  <2>1. \A i \in Nat : i > y /\ y > x => i > x
    BY <1>1
  <2>2. ~(y > y)
    BY <1>1
  <2>3. above(y) \subseteq above(x)
    BY <1>1, <1>5, <2>1
  <2>4. y \in above(x) /\ y \notin above(y)
    BY <1>5, <2>2
  <2>5. <<above(y), above(x)>> \in StrictSubsetOrdering(S)
    BY <2>3, <2>4 DEF StrictSubsetOrdering
  <2> QED
    BY <1>3, <1>4, <2>5
<1>6. \A y \in S : y <= x
  BY <1>1, <1>5
<1> QED
  BY <1>6

\* The list that aicwf_frame_dequeue takes from is the highest one in use.
LEMMA HeadIsHighest ==
  ASSUME NumPrio \in Nat \ {0}, NEW Frame, NEW q \in Queues(Frame), InStep(q)
  PROVE  /\ HeadPrio(q) \in Prios
         /\ \A p \in Prios : q.list[p] # <<>> => p <= HeadPrio(q)
<1>1. q.hi \in Prios /\ \A p \in Prios : q.list[p] # <<>> => p <= q.hi
  BY DEF Queues, InStep
<1>2. UsedBelowHint(q) \in SUBSET Prios
  BY <1>1 DEF UsedBelowHint, Prios
<1>3. CASE UsedBelowHint(q) = {}
  <2>1. HeadPrio(q) = 0
    BY <1>3 DEF HeadPrio
  <2>2. \A p \in Prios : q.list[p] # <<>> => p = 0
    BY <1>1, <1>3 DEF UsedBelowHint, Prios
  <2> QED
    BY <2>1, <2>2 DEF Prios
<1>4. CASE UsedBelowHint(q) # {}
  <2>1. \E p \in UsedBelowHint(q) : \A r \in UsedBelowHint(q) : r <= p
    BY <1>2, <1>4, HighestIn
  <2>2. /\ HeadPrio(q) \in UsedBelowHint(q)
        /\ \A r \in UsedBelowHint(q) : r <= HeadPrio(q)
    BY <1>4, <2>1 DEF HeadPrio
  <2>3. \A p \in Prios : q.list[p] # <<>> => p \in UsedBelowHint(q) \/ p = 0
    BY <1>1 DEF UsedBelowHint, Prios
  <2> QED
    BY <1>2, <2>2, <2>3 DEF Prios
<1> QED
  BY <1>3, <1>4

\* The counter is 0 exactly when aicwf_is_framequeue_empty says so.
LEMMA EmptyCount ==
  ASSUME NumPrio \in Nat \ {0}, NEW Frame, NEW q, Sound(q, Frame)
  PROVE  /\ IsEmpty(q) <=> \A p \in Prios : q.list[p] = <<>>
         /\ IsEmpty(q) <=> q.cnt = 0
<1>1. IsEmpty(q) <=> \A p \in Prios : q.list[p] = <<>>
  BY DEF Sound, Queues, InStep, IsEmpty, Prios
<1>2. q.cnt = 0 <=> Places(q) = {}
  BY FS_EmptySet DEF Sound, InStep
<1>3. \A p \in Prios : q.list[p] \in Seq(Frame)
  BY DEF Sound, Queues
<1>4. Places(q) = {} <=> \A p \in Prios : q.list[p] = <<>>
  <2>1. \A s \in Seq(Frame) : s = <<>> => DOMAIN s = {}
    OBVIOUS
  <2>2. \A s \in Seq(Frame) : s # <<>> => 1 \in DOMAIN s
    OBVIOUS
  <2>3. ASSUME NEW p \in Prios, q.list[p] # <<>> PROVE Places(q) # {}
    <3>1. <<p, 1>> \in Places(q)
      BY <1>3, <2>2, <2>3, PlacesAre
    <3> QED
      BY <3>1
  <2>4. ASSUME \A p \in Prios : q.list[p] = <<>> PROVE Places(q) = {}
    BY <1>3, <2>1, <2>4, PlacesAre
  <2> QED
    BY <2>3, <2>4
<1> QED
  BY <1>1, <1>2, <1>4

\* aicwf_frame_enq
LEMMA EnqSound ==
  ASSUME NumPrio \in Nat \ {0}, NEW Frame, NEW q, Sound(q, Frame),
         NEW prio \in Prios, NEW f \in Frame
  PROVE  /\ Sound(Enq(q, prio, f), Frame) /\ Enq(q, prio, f).cnt = q.cnt + 1
         /\ \A p \in Prios : Enq(q, prio, f).list[p] =
              IF p = prio THEN Append(q.list[p], f) ELSE q.list[p]
<1> DEFINE e == Enq(q, prio, f)
           n == Len(q.list[prio]) + 1
<1>1. /\ q.list \in [Prios -> Seq(Frame)] /\ q.hi \in Prios /\ q.cnt \in Nat
      /\ q.list[prio] \in Seq(Frame)
  BY DEF Sound, Queues
<1>2. /\ e.list = [q.list EXCEPT ![prio] = Append(@, f)]
      /\ e.hi = (IF q.hi < prio THEN prio ELSE q.hi) /\ e.cnt = q.cnt + 1
  BY DEF Enq
<1>3. e = [list |-> e.list, hi |-> e.hi, cnt |-> e.cnt]
  BY DEF Enq
<1> HIDE DEF e
<1>4. Append(q.list[prio], f) \in Seq(Frame)
  BY <1>1
<1>5. \A p \in Prios : e.list[p] =
        IF p = prio THEN Append(q.list[p], f) ELSE q.list[p]
  BY <1>1, <1>2
<1>6. e \in Queues(Frame)
  <2>1. e.list \in [Prios -> Seq(Frame)]
    BY <1>1, <1>2, <1>4
  <2>2. e.hi \in Prios /\ e.cnt \in Nat
    BY <1>1, <1>2
  <2> QED
    BY <1>3, <2>1, <2>2 DEF Queues
<1>7. \A p \in Prios : e.list[p] # <<>> => p <= e.hi
  BY <1>1, <1>2, <1>5 DEF Sound, InStep, Prios
<1>8. Places(e) = Places(q) \cup {<<prio, n>>} /\ <<prio, n>> \notin Places(q)
  <2>1. DOMAIN Append(q.list[prio], f) = DOMAIN q.list[prio] \cup {n}
    BY <1>1
  <2>2. n \notin DOMAIN q.list[prio]
    BY <1>1
  <2> HIDE DEF n
  <2>3. \A p \in Prios : DOMAIN e.list[p] =
          IF p = prio THEN DOMAIN q.list[p] \cup {n} ELSE DOMAIN q.list[p]
    BY <1>5, <2>1
  <2>4. ASSUME NEW x \in Places(e) PROVE x \in Places(q) \cup {<<prio, n>>}
    <3>1. PICK p \in Prios : \E i \in DOMAIN e.list[p] : x = <<p, i>>
      BY PlacesAre
    <3>2. PICK i \in DOMAIN e.list[p] : x = <<p, i>>
      BY <3>1
    <3>3. i \in DOMAIN q.list[p] \/ (p = prio /\ i = n)
      BY <2>3
    <3>4. CASE i \in DOMAIN q.list[p]
      BY <3>2, <3>4, PlaceIs
    <3> QED
      BY <3>2, <3>3, <3>4
  <2>5. ASSUME NEW x \in Places(q) PROVE x \in Places(e)
    <3>1. PICK p \in Prios : \E i \in DOMAIN q.list[p] : x = <<p, i>>
      BY PlacesAre
    <3>2. PICK i \in DOMAIN q.list[p] : x = <<p, i>>
      BY <3>1
    <3>3. i \in DOMAIN e.list[p]
      BY <2>3
    <3> QED
      BY <3>2, <3>3, PlaceIs
  <2>6. <<prio, n>> \in Places(e) /\ <<prio, n>> \notin Places(q)
    BY <2>2, <2>3, PlaceIs
  <2> QED
    BY <2>4, <2>5, <2>6
<1>9. IsFiniteSet(Places(e)) /\ Cardinality(Places(e)) = q.cnt + 1
  <2>1. IsFiniteSet(Places(q)) /\ Cardinality(Places(q)) = q.cnt
    BY DEF Sound, InStep
  <2> DEFINE S == Places(q)
             x == <<prio, n>>
  <2>2. x \notin S /\ Places(e) = S \cup {x}
    BY <1>8
  <2> HIDE DEF S, x
  <2>3. IsFiniteSet(S \cup {x}) /\ Cardinality(S \cup {x}) = Cardinality(S) + 1
    BY <2>1, <2>2, FS_AddElement DEF S
  <2> QED
    BY <2>1, <2>2, <2>3 DEF S
<1> QED
  BY <1>2, <1>5, <1>6, <1>7, <1>9 DEF Sound, InStep, e

\* aicwf_frame_dequeue, when there is a frame to take
LEMMA DequeueSound ==
  ASSUME NumPrio \in Nat \ {0}, NEW Frame, NEW q, Sound(q, Frame),
         CanDequeue(q)
  PROVE  /\ Sound(Dequeue(q), Frame) /\ Dequeue(q).cnt = q.cnt - 1
         /\ HeadPrio(q) \in Prios /\ q.list[HeadPrio(q)] # <<>>
         /\ \A p \in Prios : Dequeue(q).list[p] =
              IF p = HeadPrio(q) THEN Tail(q.list[p]) ELSE q.list[p]
<1> DEFINE h == HeadPrio(q)
           d == Dequeue(q)
           n == Len(q.list[h])
<1>1. /\ h \in Prios /\ q.list[h] # <<>>
      /\ \A p \in Prios : q.list[p] # <<>> => p <= h
  BY HeadIsHighest DEF Sound, CanDequeue
<1>2. /\ q.list \in [Prios -> Seq(Frame)] /\ q.cnt \in Nat /\ q.cnt # 0
      /\ q.list[h] \in Seq(Frame)
  BY <1>1 DEF Sound, Queues, CanDequeue
<1>3. /\ d.list = [q.list EXCEPT ![h] = Tail(@)] /\ d.hi = h /\ d.cnt = q.cnt - 1
      /\ d = [list |-> d.list, hi |-> d.hi, cnt |-> d.cnt]
  BY DEF Dequeue
<1> HIDE DEF d, h
<1>4. Tail(q.list[h]) \in Seq(Frame)
  BY <1>1, <1>2
<1>5. \A p \in Prios : d.list[p] = IF p = h THEN Tail(q.list[p]) ELSE q.list[p]
  BY <1>1, <1>2, <1>3
<1>6. d \in Queues(Frame)
  <2>1. d.list \in [Prios -> Seq(Frame)]
    BY <1>1, <1>2, <1>3, <1>4
  <2>2. d.hi \in Prios /\ d.cnt \in Nat
    BY <1>1, <1>2, <1>3
  <2> QED
    BY <1>3, <2>1, <2>2 DEF Queues
<1>7. \A p \in Prios : d.list[p] # <<>> => p <= d.hi
  BY <1>1, <1>3, <1>5 DEF Prios
<1>8. Places(d) = Places(q) \ {<<h, n>>} /\ <<h, n>> \in Places(q)
  <2>1. DOMAIN Tail(q.list[h]) = DOMAIN q.list[h] \ {n}
    BY <1>1, <1>2
  <2>2. n \in DOMAIN q.list[h]
    BY <1>1, <1>2
  <2> HIDE DEF n
  <2>3. \A p \in Prios : DOMAIN d.list[p] =
          IF p = h THEN DOMAIN q.list[p] \ {n} ELSE DOMAIN q.list[p]
    BY <1>5, <2>1
  <2>4. ASSUME NEW x \in Places(d) PROVE x \in Places(q) \ {<<h, n>>}
    <3>1. PICK p \in Prios : \E i \in DOMAIN d.list[p] : x = <<p, i>>
      BY PlacesAre
    <3>2. PICK i \in DOMAIN d.list[p] : x = <<p, i>>
      BY <3>1
    <3>3. i \in DOMAIN q.list[p] /\ ~(p = h /\ i = n)
      BY <2>3
    <3>4. <<p, i>> # <<h, n>>
      BY <3>3
    <3> QED
      BY <3>2, <3>3, <3>4, PlaceIs
  <2>5. ASSUME NEW x \in Places(q), x # <<h, n>> PROVE x \in Places(d)
    <3>1. PICK p \in Prios : \E i \in DOMAIN q.list[p] : x = <<p, i>>
      BY PlacesAre
    <3>2. PICK i \in DOMAIN q.list[p] : x = <<p, i>>
      BY <3>1
    <3>3. i \in DOMAIN d.list[p]
      BY <2>3, <2>5, <3>2
    <3> QED
      BY <3>2, <3>3, PlacesAre
  <2>6. <<h, n>> \in Places(q)
    BY <1>1, <2>2, PlacesAre
  <2> QED
    BY <2>4, <2>5, <2>6
<1>9. IsFiniteSet(Places(d)) /\ Cardinality(Places(d)) = q.cnt - 1
  BY <1>8, FS_RemoveElement DEF Sound, InStep
<1> QED
  BY <1>1, <1>3, <1>5, <1>6, <1>7, <1>9 DEF Sound, InStep, d, h

-----------------------------------------------------------------------------
(* The transmit path.                                                      *)

\* Each frame is in the list of its priority.
Sorted(q) == \A p \in Prios : \A i \in DOMAIN q.list[p] : Prio[q.list[p][i]] = p

QueueSound == Sound(txq, Frames) /\ Sorted(txq)

\* One caller at a time has txqlock; the frame it has queued is still there.
LockOwned ==
    /\ \A c, d \in Callers : call[c] = "count" /\ call[d] = "count" => c = d
    /\ TxqLockFree \/ txq.cnt > 0

InHand == IF txpc \in {"flush", "uncount"} THEN 1 ELSE 0

Counted == tx_pktcnt = txq.cnt + InHand - (IF TxqLockFree THEN 0 ELSE 1)

CreditCovers ==
    /\ IsFiniteSet(inFw) /\ Cardinality(inFw) \in Nat
    /\ Cardinality(inFw) <= FwBufs - Thresh
    /\ avail + Cardinality(inFw) <= FwBufs
    /\ txpc \in {"send", "flush"} => avail > Thresh
    /\ aggr # <<>> => \/ Len(aggr) < avail - Thresh
                      \/ txpc = "flush" /\ Len(aggr) = avail - Thresh

LastGoes ==
    /\ aggr # <<>> => txpc \in {"loop", "pick", "send", "flush", "uncount"}
    /\ aggr # <<>> /\ txpc # "flush" => txq.cnt > 0
    /\ txpc = "uncount" /\ txnow => aggr = <<>>

\* A wakeup is pending or about to come.
WakeupComes == Calling # {} \/ txTrgg > 0

WakeupKept ==
    /\ txpc \notin {"power", "cmd", "cmdstate", "cmdwrite"} /\ cmd_txstate => WakeupComes
    /\ txpc = "wait" /\ txq.cnt > 0 => WakeupComes
    /\ txpc \in {"send", "flush", "uncount"} /\ txnow => cmd_txstate

TxIndInv ==
    /\ TxTypeOK /\ QueueSound /\ LockOwned /\ Counted
    /\ CreditCovers /\ LastGoes /\ WakeupKept
----------------------------------------------------------------------------
\* The initial state satisfies the invariant.
LEMMA TxInitIndInv == TxInit => TxIndInv
<1> SUFFICES ASSUME TxInit PROVE TxIndInv
  OBVIOUS
<1>1. 0 \in Prios /\ EmptyQueue.cnt = 0 /\ EmptyQueue.hi = 0
      /\ \A p \in Prios : EmptyQueue.list[p] = <<>>
  BY SdioTxAssumption DEF Prios, EmptyQueue
<1>2. EmptyQueue \in Queues(Frames)
  BY <1>1 DEF EmptyQueue, Queues
<1>3. Places(EmptyQueue) = {}
  BY <1>1, PlacesAre
<1>4. QueueSound
  BY <1>1, <1>2, <1>3, FS_EmptySet DEF TxInit, QueueSound, Sound, Sorted, InStep
<1>5. TxTypeOK
  <2>1. <<>> \in Seq(Frames)
    OBVIOUS
  <2>2. cmd_txstate \in BOOLEAN /\ txnow \in BOOLEAN
    BY DEF TxInit
  <2>3. tx_pktcnt \in Int /\ txTrgg \in Nat /\ avail \in Int
    BY DEF TxInit
  <2>4. txq \in Queues(Frames) /\ aggr \in Seq(Frames)
    BY <1>2, <2>1 DEF TxInit
  <2>5. /\ call \in [Callers -> {"idle", "count", "trigger"}]
        /\ inFw \in SUBSET Frames
    BY DEF TxInit
  <2>6. txpc = "wait"
    BY DEF TxInit
  <2> QED
    BY <2>2, <2>3, <2>4, <2>5, <2>6 DEF TxTypeOK
<1>6. LockOwned /\ Counted
  BY <1>1 DEF TxInit, LockOwned, TxqLockFree, Counted, InHand
<1>7. CreditCovers
  BY SdioTxAssumption, FS_EmptySet DEF TxInit, CreditCovers
<1>8. LastGoes /\ WakeupKept
  BY <1>1 DEF TxInit, LastGoes, WakeupKept
<1> QED
  BY <1>4, <1>5, <1>6, <1>7, <1>8 DEF TxIndInv
----------------------------------------------------------------------------
(***************************************************************************)
(* The callers                                                             *)
(***************************************************************************)
LEMMA TxdataKeeps ==
  ASSUME TxIndInv, NEW c \in Callers, Txdata(c)
  PROVE  TxIndInv'
<1>1. PICK f \in Frames : txq' = Enq(txq, Prio[f], f)
  BY DEF Txdata, Unsent
<1>2. /\ call' = [call EXCEPT ![c] = "count"] /\ TxqLockFree /\ call[c] = "idle"
      /\ UNCHANGED <<tx_pktcnt, cmd_txstate, txTrgg, txpc, avail, aggr, txnow, inFw>>
  BY DEF Txdata, MayCall
<1>3. /\ Prio[f] \in Prios /\ NumPrio \in Nat \ {0} /\ txq \in Queues(Frames)
      /\ call \in [Callers -> {"idle", "count", "trigger"}] /\ txq.cnt \in Nat
  BY SdioTxAssumption DEF TxIndInv, TxTypeOK, Queues
<1>4. /\ Sound(txq', Frames) /\ txq'.cnt = txq.cnt + 1
      /\ \A p \in Prios : txq'.list[p] =
           IF p = Prio[f] THEN Append(txq.list[p], f) ELSE txq.list[p]
  BY <1>1, <1>3, EnqSound DEF TxIndInv, QueueSound
<1>5. QueueSound'
  <2>1. \A p \in Prios : txq.list[p] \in Seq(Frames)
    BY <1>3 DEF Queues
  <2>2. ASSUME NEW p \in Prios, NEW i \in DOMAIN txq'.list[p]
        PROVE  Prio[txq'.list[p][i]] = p
    <3>1. CASE p # Prio[f]
      <4>1. txq'.list[p] = txq.list[p]
        BY <1>4, <3>1
      <4> QED
        BY <2>2, <4>1 DEF TxIndInv, QueueSound, Sorted
    <3>2. CASE p = Prio[f]
      <4>1. txq'.list[p] = Append(txq.list[p], f)
        BY <1>4, <3>2
      <4>2. \/ i \in DOMAIN txq.list[p] /\ txq'.list[p][i] = txq.list[p][i]
            \/ txq'.list[p][i] = f
        BY <2>1, <2>2, <4>1
      <4> QED
        BY <3>2, <4>2 DEF TxIndInv, QueueSound, Sorted
    <3> QED
      BY <3>1, <3>2
  <2> QED
    BY <1>4, <2>2 DEF QueueSound, Sorted
<1>6. TxTypeOK'
  BY <1>2, <1>3, <1>4 DEF TxIndInv, TxTypeOK, Sound
<1>7. ~TxqLockFree' /\ LockOwned'
  BY <1>2, <1>3, <1>4 DEF TxqLockFree, LockOwned
<1>8. Counted'
  BY <1>2, <1>3, <1>4, <1>7 DEF TxIndInv, Counted, InHand
<1>9. CreditCovers'
  BY <1>2 DEF TxIndInv, CreditCovers
<1>10. LastGoes'
  BY <1>2, <1>3, <1>4 DEF TxIndInv, LastGoes
<1>11. WakeupKept'
  <2>1. WakeupComes'
    BY <1>2, <1>3 DEF WakeupComes, Calling
  <2> QED
    BY <1>2, <2>1 DEF TxIndInv, WakeupKept
<1> QED
  BY <1>5, <1>6, <1>7, <1>8, <1>9, <1>10, <1>11 DEF TxIndInv

LEMMA OtherCallsKeep ==
  ASSUME TxIndInv, NEW c \in Callers, Count(c) \/ Txmsg(c) \/ Trigger(c)
  PROVE  TxIndInv'
<1>1. /\ call \in [Callers -> {"idle", "count", "trigger"}]
      /\ txTrgg \in Nat /\ tx_pktcnt \in Int /\ txq.cnt \in Nat
  BY DEF TxIndInv, TxTypeOK, Queues
<1>2. UNCHANGED <<txq, txpc, avail, aggr, txnow, inFw>>
  BY DEF Count, Txmsg, Trigger
<1>3. TxTypeOK'
  <2>1. call' \in [Callers -> {"idle", "count", "trigger"}]
    BY <1>1 DEF Count, Txmsg, Trigger
  <2>2. tx_pktcnt' \in Int /\ txTrgg' \in Nat
    BY <1>1 DEF Count, Txmsg, Trigger
  <2>3. cmd_txstate' \in BOOLEAN
    BY Zenon DEF TxIndInv, TxTypeOK, Count, Txmsg, Trigger
  <2>4. TxTypeOK
    BY DEF TxIndInv
  <2> QED
    BY <1>2, <2>1, <2>2, <2>3, <2>4 DEF TxTypeOK
<1>4. QueueSound' /\ LastGoes' /\ CreditCovers'
  BY <1>2 DEF TxIndInv, QueueSound, LastGoes, CreditCovers
<1>5. CASE Count(c)
  <2>1. /\ call' = [call EXCEPT ![c] = "trigger"] /\ call[c] = "count"
        /\ tx_pktcnt' = tx_pktcnt + 1 /\ UNCHANGED <<cmd_txstate, txTrgg>>
    BY <1>5 DEF Count
  <2>2. ~TxqLockFree /\ TxqLockFree'
    BY <1>1, <2>1 DEF TxIndInv, LockOwned, TxqLockFree
  <2>3. LockOwned' /\ Counted'
    BY <1>1, <1>2, <2>1, <2>2
    DEF TxIndInv, LockOwned, TxqLockFree, Counted, InHand
  <2>4. WakeupComes'
    BY <1>1, <2>1 DEF WakeupComes, Calling
  <2>5. WakeupKept'
    BY <1>2, <2>1, <2>4 DEF TxIndInv, WakeupKept
  <2> QED
    BY <1>3, <1>4, <2>3, <2>5 DEF TxIndInv
<1>6. CASE Txmsg(c)
  <2>1. /\ call' = [call EXCEPT ![c] = "trigger"] /\ call[c] = "idle"
        /\ cmd_txstate' = TRUE /\ UNCHANGED <<tx_pktcnt, txTrgg>>
    BY <1>6 DEF Txmsg, MayCall
  <2>2. \A d \in Callers : call'[d] = "count" <=> call[d] = "count"
    BY <1>1, <2>1
  <2>3. LockOwned' /\ Counted'
    BY <1>2, <2>1, <2>2
    DEF TxIndInv, LockOwned, TxqLockFree, Counted, InHand
  <2>4. WakeupComes'
    BY <1>1, <2>1 DEF WakeupComes, Calling
  <2>5. WakeupKept'
    BY <1>2, <2>1, <2>4 DEF TxIndInv, WakeupKept
  <2> QED
    BY <1>3, <1>4, <2>3, <2>5 DEF TxIndInv
<1>7. CASE Trigger(c)
  <2>1. /\ call' = [call EXCEPT ![c] = "idle"] /\ call[c] = "trigger"
        /\ txTrgg' = txTrgg + 1 /\ UNCHANGED <<tx_pktcnt, cmd_txstate>>
    BY <1>7 DEF Trigger
  <2>2. \A d \in Callers : call'[d] = "count" <=> call[d] = "count"
    BY <1>1, <2>1
  <2>3. LockOwned' /\ Counted'
    BY <1>2, <2>1, <2>2
    DEF TxIndInv, LockOwned, TxqLockFree, Counted, InHand
  <2>4. WakeupComes'
    BY <1>1, <2>1 DEF WakeupComes
  <2>5. WakeupKept'
    BY <1>2, <2>1, <2>4 DEF TxIndInv, WakeupKept
  <2> QED
    BY <1>3, <1>4, <2>3, <2>5 DEF TxIndInv
<1> QED
  BY <1>5, <1>6, <1>7
----------------------------------------------------------------------------
(***************************************************************************)
(* The bustx thread                                                        *)
(***************************************************************************)
\* The steps that touch neither frames nor credit
LEMMA WalkKeeps ==
  ASSUME TxIndInv,
         Wake \/ PowerUp \/ LookForCmd \/ CheckState(TRUE) \/ TxMsg \/ Loop \/ Pick
  PROVE  TxIndInv'
<1>1. /\ txq.cnt \in Nat /\ txTrgg \in Nat /\ tx_pktcnt \in Int
      /\ cmd_txstate \in BOOLEAN /\ txnow \in BOOLEAN
      /\ avail \in Int /\ Thresh \in Nat
  BY SdioTxAssumption DEF TxIndInv, TxTypeOK, Queues
<1>2. UNCHANGED <<txq, tx_pktcnt, call, avail, aggr, inFw>>
  BY DEF Wake, PowerUp, LookForCmd, CheckState, TxMsg, Loop, Pick
<1>3. IsEmpty(txq) => txq.cnt = 0
  BY SdioTxAssumption, EmptyCount DEF TxIndInv, QueueSound
<1>4. TxTypeOK'
  <2>1. txpc' \in {"wait", "power", "cmd", "cmdstate", "cmdwrite", "data",
                   "credit", "loop", "pick", "send", "flush", "uncount"}
    BY DEF Wake, PowerUp, LookForCmd, CheckState, TxMsg, Loop, Pick
  <2>2. txTrgg' \in Nat
    BY <1>1 DEF Wake, PowerUp, LookForCmd, CheckState, TxMsg, Loop, Pick
  <2>3. cmd_txstate' \in BOOLEAN /\ txnow' \in BOOLEAN
    BY <1>1, Zenon DEF Wake, PowerUp, LookForCmd, CheckState, TxMsg, Loop, Pick
  <2>4. TxTypeOK
    BY DEF TxIndInv
  <2> QED
    BY <1>2, <2>1, <2>2, <2>3, <2>4 DEF TxTypeOK
<1>5. QueueSound' /\ LockOwned'
  BY <1>2 DEF TxIndInv, QueueSound, LockOwned, TxqLockFree
<1>6. Counted'
  BY <1>2
  DEF TxIndInv, Counted, InHand, TxqLockFree,
      Wake, PowerUp, LookForCmd, CheckState, TxMsg, Loop, Pick
<1>7. CreditCovers'
  BY <1>1, <1>2
  DEF TxIndInv, CreditCovers, Wake, PowerUp, LookForCmd, CheckState, TxMsg, Loop, Pick
<1>8. LastGoes'
  BY <1>1, <1>2, <1>3
  DEF TxIndInv, LastGoes, Wake, PowerUp, LookForCmd, CheckState, TxMsg, Loop, Pick
<1>9. WakeupKept'
  <2>1. CASE Wake
    <3>1. UNCHANGED <<cmd_txstate, txnow>>
          /\ txpc' = IF tx_pktcnt > 0 \/ cmd_txstate THEN "power" ELSE "wait"
      BY <2>1 DEF Wake
    <3>2. CASE txpc' = "power"
      BY <3>1, <3>2 DEF WakeupKept
    <3>3. CASE txpc' = "wait"
      <4>1. ~cmd_txstate /\ tx_pktcnt <= 0
        BY <1>1, <3>1, <3>3
      <4>2. txq.cnt > 0 => ~TxqLockFree
        BY <1>1, <2>1, <4>1 DEF TxIndInv, Counted, InHand, Wake
      <4>3. ~TxqLockFree => Calling' # {}
        BY <1>2 DEF TxqLockFree, Calling
      <4>4. txq'.cnt > 0 => WakeupComes'
        BY <1>2, <4>2, <4>3 DEF WakeupComes
      <4> QED
        BY <3>1, <3>3, <4>1, <4>4 DEF WakeupKept
    <3> QED
      BY <3>1, <3>2, <3>3
  <2>2. CASE PowerUp \/ LookForCmd \/ CheckState(TRUE) \/ TxMsg
    <3>1. WakeupComes' <=> WakeupComes
      BY <1>2, <2>2
      DEF WakeupComes, Calling, PowerUp, LookForCmd, CheckState, TxMsg
    <3> QED
      BY <1>1, <1>2, <2>2, <3>1
      DEF TxIndInv, WakeupKept, PowerUp, LookForCmd, CheckState, TxMsg
  <2>3. CASE Loop
    <3>1. WakeupComes' <=> WakeupComes
      BY <1>2, <2>3 DEF WakeupComes, Calling, Loop
    <3> QED
      BY <1>1, <1>2, <1>3, <2>3, <3>1 DEF TxIndInv, WakeupKept, Loop
  <2>4. CASE Pick
    <3>1. WakeupComes' <=> WakeupComes
      BY <1>2, <2>4 DEF WakeupComes, Calling, Pick
    <3> QED
      BY <1>1, <1>2, <2>4, <3>1 DEF TxIndInv, WakeupKept, Pick
  <2> QED
    BY <2>1, <2>2, <2>3, <2>4
<1> QED
  BY <1>4, <1>5, <1>6, <1>7, <1>8, <1>9 DEF TxIndInv

\* What aicwf_sdio_flow_ctrl returns is covered by free buffers.
LEMMA CreditsCovered ==
  ASSUME TxIndInv, NEW a \in Credits
  PROVE  a \in Int /\ a + Cardinality(inFw) <= FwBufs
<1> DEFINE free == FwBufs - Cardinality(inFw)
<1>1. /\ Cardinality(inFw) \in Nat /\ Cardinality(inFw) <= FwBufs - Thresh
      /\ FwBufs \in Nat /\ Thresh \in Nat /\ AggrMax \in Nat
  BY SdioTxAssumption DEF TxIndInv, CreditCovers
<1>2. a = -free \/ (a = AggrMax /\ free > AggrMax) \/ a = free \/ a = -1
  BY DEF Credits
<1> QED
  BY <1>1, <1>2

\* The steps that ask for credit
LEMMA CreditStepsKeep ==
  ASSUME TxIndInv, FirstCredit \/ NoCredit
  PROVE  TxIndInv'
<1>1. /\ txq.cnt \in Nat /\ avail \in Int /\ Thresh \in Nat
      /\ aggr \in Seq(Frames) /\ cmd_txstate \in BOOLEAN
  BY SdioTxAssumption DEF TxIndInv, TxTypeOK, Queues
<1>2. UNCHANGED <<txq, tx_pktcnt, cmd_txstate, txTrgg, call, aggr, txnow, inFw>>
  BY DEF FirstCredit, NoCredit
<1>3. aggr = <<>>
  <2>1. CASE FirstCredit
    BY <2>1 DEF TxIndInv, LastGoes, FirstCredit
  <2>2. CASE NoCredit
    <3>1. Len(aggr) \in Nat /\ avail <= Thresh /\ txpc = "pick"
      BY <1>1, <2>2 DEF NoCredit
    <3> QED
      BY <1>1, <3>1 DEF TxIndInv, CreditCovers
  <2> QED
    BY <2>1, <2>2
<1>4. avail' \in Int /\ avail' + Cardinality(inFw) <= FwBufs
  <2>1. avail' \in Credits \/ avail' = avail
    BY DEF FirstCredit, NoCredit
  <2> QED
    BY <1>1, <2>1, CreditsCovered DEF TxIndInv, CreditCovers
<1>5. /\ txpc \in {"credit", "pick"} /\ txpc' \in {"wait", "loop"}
      /\ txpc' = "wait" => cmd_txstate
  BY DEF FirstCredit, NoCredit
<1>6. TxTypeOK'
  BY <1>2, <1>4, <1>5 DEF TxIndInv, TxTypeOK
<1>7. QueueSound' /\ LockOwned'
  BY <1>2 DEF TxIndInv, QueueSound, LockOwned, TxqLockFree
<1>8. Counted'
  BY <1>2, <1>5 DEF TxIndInv, Counted, InHand, TxqLockFree
<1>9. CreditCovers'
  BY <1>2, <1>3, <1>4, <1>5 DEF TxIndInv, CreditCovers
<1>10. LastGoes'
  BY <1>2, <1>3 DEF LastGoes
<1>11. WakeupKept'
  <2>1. WakeupComes' <=> WakeupComes
    BY <1>2 DEF WakeupComes, Calling
  <2>2. cmd_txstate => WakeupComes
    BY <1>5 DEF TxIndInv, WakeupKept
  <2> QED
    BY <1>2, <1>5, <2>1, <2>2 DEF WakeupKept
<1> QED
  BY <1>6, <1>7, <1>8, <1>9, <1>10, <1>11 DEF TxIndInv

\* aicwf_sdio_send takes a frame of the highest priority.
LEMMA TakeFrameTakes ==
  ASSUME TxIndInv, TakeFrame
  PROVE  /\ Sound(txq', Frames) /\ txq'.cnt = txq.cnt - 1
         /\ \E h \in Prios :
              /\ txq.list[h] \in Seq(Frames) /\ txq.list[h] # <<>>
              /\ aggr' = Append(aggr, Head(txq.list[h]))
              /\ \A p \in Prios : /\ txq.list[p] # <<>> => p <= h
                                 /\ txq'.list[p] = IF p = h THEN Tail(txq.list[p])
                                                   ELSE txq.list[p]
<1>1. /\ txq' = Dequeue(txq) /\ CanDequeue(txq)
      /\ aggr' = Append(aggr, Head(txq.list[HeadPrio(txq)]))
  BY DEF TakeFrame, HeadFrame
<1>2. Sound(txq, Frames) /\ NumPrio \in Nat \ {0} /\ txq \in Queues(Frames)
  BY SdioTxAssumption DEF TxIndInv, QueueSound, Sound
<1>3. /\ Sound(txq', Frames) /\ txq'.cnt = txq.cnt - 1
      /\ HeadPrio(txq) \in Prios /\ txq.list[HeadPrio(txq)] # <<>>
      /\ \A p \in Prios : txq'.list[p] =
           IF p = HeadPrio(txq) THEN Tail(txq.list[p]) ELSE txq.list[p]
  BY <1>1, <1>2, DequeueSound
<1>4. \A p \in Prios : txq.list[p] # <<>> => p <= HeadPrio(txq)
  BY <1>2, HeadIsHighest DEF Sound
<1>5. txq.list[HeadPrio(txq)] \in Seq(Frames)
  BY <1>2, <1>3 DEF Queues
<1> QED
  BY <1>1, <1>3, <1>4, <1>5

LEMMA TakeFrameKeeps ==
  ASSUME TxIndInv, TakeFrame
  PROVE  TxIndInv'
<1>1. /\ txq.cnt \in Nat /\ avail \in Int /\ Thresh \in Nat
      /\ aggr \in Seq(Frames) /\ txq.list \in [Prios -> Seq(Frames)]
  BY SdioTxAssumption DEF TxIndInv, TxTypeOK, Queues
<1>2. /\ UNCHANGED <<tx_pktcnt, cmd_txstate, txTrgg, call, avail, txnow, inFw>>
      /\ txpc = "send" /\ txpc' = "flush" /\ TxqLockFree
  BY DEF TakeFrame
<1>3. PICK h \in Prios :
        /\ txq.list[h] \in Seq(Frames) /\ txq.list[h] # <<>>
        /\ aggr' = Append(aggr, Head(txq.list[h]))
        /\ \A p \in Prios : txq'.list[p] = IF p = h THEN Tail(txq.list[p])
                                           ELSE txq.list[p]
  BY TakeFrameTakes
<1>4. Sound(txq', Frames) /\ txq'.cnt = txq.cnt - 1
  BY TakeFrameTakes
<1>5. /\ Head(txq.list[h]) \in Frames /\ aggr' \in Seq(Frames)
      /\ Len(aggr') = Len(aggr) + 1 /\ aggr' # <<>> /\ Len(aggr) \in Nat
  BY <1>1, <1>3
<1>6. QueueSound'
  <2>1. ASSUME NEW p \in Prios, NEW i \in DOMAIN txq'.list[p]
        PROVE  Prio[txq'.list[p][i]] = p
    <3>1. CASE p # h
      <4>1. txq'.list[p] = txq.list[p]
        BY <1>3, <3>1
      <4> QED
        BY <2>1, <4>1 DEF TxIndInv, QueueSound, Sorted
    <3>2. CASE p = h
      <4>1. txq'.list[p] = Tail(txq.list[p])
        BY <1>3, <3>2
      <4>2. i + 1 \in DOMAIN txq.list[p] /\ txq'.list[p][i] = txq.list[p][i + 1]
        BY <1>3, <2>1, <3>2, <4>1
      <4> QED
        BY <4>2 DEF TxIndInv, QueueSound, Sorted
    <3> QED
      BY <3>1, <3>2
  <2> QED
    BY <1>4, <2>1 DEF QueueSound, Sorted
<1>7. TxTypeOK'
  BY <1>2, <1>4, <1>5 DEF TxIndInv, TxTypeOK, Sound
<1>8. LockOwned' /\ TxqLockFree'
  BY <1>2 DEF TxIndInv, LockOwned, TxqLockFree
<1>9. Counted'
  BY <1>1, <1>2, <1>4, <1>8 DEF TxIndInv, Counted, InHand
<1>10. CreditCovers'
  <2>1. avail > Thresh /\ (Len(aggr) = 0 \/ Len(aggr) < avail - Thresh)
    BY <1>1, <1>2 DEF TxIndInv, CreditCovers
  <2>2. Len(aggr) < avail - Thresh
    BY <1>1, <2>1
  <2>3. ASSUME NEW l \in Nat, NEW r \in Int, l < r PROVE l + 1 < r \/ l + 1 = r
    BY <2>3
  <2>4. avail - Thresh \in Int
    BY <1>1
  <2>5. Len(aggr') < avail - Thresh \/ Len(aggr') = avail - Thresh
    BY <1>5, <2>2, <2>3, <2>4
  <2> QED
    BY <1>2, <2>1, <2>5 DEF TxIndInv, CreditCovers
<1>11. LastGoes'
  BY <1>2 DEF LastGoes
<1>12. WakeupKept'
  <2>1. WakeupComes' <=> WakeupComes
    BY <1>2 DEF WakeupComes, Calling
  <2> QED
    BY <1>2, <2>1 DEF TxIndInv, WakeupKept
<1> QED
  BY <1>6, <1>7, <1>8, <1>9, <1>10, <1>11, <1>12 DEF TxIndInv

\* As many frames fit into the buffer as it is long.
LEMMA BufferBound ==
  ASSUME aggr \in Seq(Frames)
  PROVE  IsFiniteSet(InBuffer) /\ Cardinality(InBuffer) <= Len(aggr)
         /\ Cardinality(InBuffer) \in Nat
<1>1. Len(aggr) \in Nat /\ DOMAIN aggr = 1..Len(aggr)
  OBVIOUS
<1>2. aggr \in Surjection(1..Len(aggr), InBuffer)
  BY <1>1 DEF Surjection, InBuffer
<1>3. IsFiniteSet(1..Len(aggr)) /\ Cardinality(1..Len(aggr)) = Len(aggr)
  BY <1>1, FS_Interval
<1>4. IsFiniteSet(InBuffer) /\ Cardinality(InBuffer) <= Cardinality(1..Len(aggr))
  BY <1>2, <1>3, FS_Surjection
<1> QED
  BY <1>3, <1>4, FS_CardinalityType

\* aicwf_sdio_aggr_send, if the buffer is complete, and the frame counted off
LEMMA AggrSendKeeps ==
  ASSUME TxIndInv, AggrSend
  PROVE  TxIndInv'
<1>1. /\ txq.cnt \in Nat /\ avail \in Int /\ Thresh \in Nat /\ FwBufs \in Nat
      /\ aggr \in Seq(Frames) /\ Len(aggr) \in Nat /\ txnow \in BOOLEAN
      /\ inFw \in SUBSET Frames
  BY SdioTxAssumption DEF TxIndInv, TxTypeOK, Queues
<1>2. /\ UNCHANGED <<txq, tx_pktcnt, cmd_txstate, txTrgg, call, txnow>>
      /\ txpc = "flush" /\ txpc' = "uncount"
  BY DEF AggrSend
<1>3. QueueSound' /\ LockOwned' /\ Counted'
  BY <1>2 DEF TxIndInv, QueueSound, LockOwned, TxqLockFree, Counted, InHand
<1>4. WakeupKept'
  <2>1. WakeupComes' <=> WakeupComes
    BY <1>2 DEF WakeupComes, Calling
  <2> QED
    BY <1>2, <2>1 DEF TxIndInv, WakeupKept
<1>5. CASE BufferComplete
  <2>1. /\ avail' = avail - Len(aggr) /\ aggr' = <<>>
        /\ inFw' = inFw \cup InBuffer \/ inFw' = inFw
    BY <1>5 DEF AggrSend
  <2>2. inFw' \in SUBSET Frames
    BY <1>1, <2>1 DEF InBuffer
  <2>3. TxTypeOK'
    <3>1. aggr' \in Seq(Frames) /\ avail' \in Int
      BY <1>1, <2>1
    <3> QED
      BY <1>2, <2>2, <3>1 DEF TxIndInv, TxTypeOK
  <2>4. /\ IsFiniteSet(inFw') /\ Cardinality(inFw') \in Nat
        /\ Cardinality(inFw') <= Cardinality(inFw) + Len(aggr)
    <3>1. IsFiniteSet(inFw) /\ Cardinality(inFw) \in Nat
      BY DEF TxIndInv, CreditCovers
    <3>2. CASE inFw' = inFw
      BY <1>1, <3>1, <3>2
    <3>3. CASE inFw' = inFw \cup InBuffer
      <4>1. /\ IsFiniteSet(InBuffer) /\ Cardinality(InBuffer) \in Nat
            /\ Cardinality(InBuffer) <= Len(aggr)
        BY <1>1, BufferBound
      <4>2. /\ IsFiniteSet(inFw \cap InBuffer)
            /\ Cardinality(inFw \cap InBuffer) \in Nat
        BY <3>1, FS_Intersection, FS_CardinalityType
      <4>3. /\ IsFiniteSet(inFw')
            /\ Cardinality(inFw') = Cardinality(inFw) + Cardinality(InBuffer)
                                    - Cardinality(inFw \cap InBuffer)
        BY <3>1, <3>3, <4>1, FS_Union
      <4>4. Cardinality(inFw') \in Nat
        BY <4>3, FS_CardinalityType
      <4> QED
        BY <1>1, <3>1, <4>1, <4>2, <4>3, <4>4
    <3> QED
      BY <2>1, <3>2, <3>3
  <2>5. Cardinality(inFw) + Len(aggr) <= FwBufs - Thresh
    <3>1. CASE aggr = <<>>
      BY <1>1, <3>1 DEF TxIndInv, CreditCovers
    <3>2. CASE aggr # <<>>
      BY <1>1, <3>2 DEF TxIndInv, CreditCovers
    <3> QED
      BY <3>1, <3>2
  <2>6. CreditCovers'
    <3>1. Cardinality(inFw) \in Nat /\ avail + Cardinality(inFw) <= FwBufs
      BY DEF TxIndInv, CreditCovers
    <3>2. avail' + Cardinality(inFw') <= FwBufs
      BY <1>1, <2>1, <2>4, <3>1
    <3>3. Cardinality(inFw') <= FwBufs - Thresh
      BY <1>1, <2>4, <2>5, <3>1
    <3> QED
      BY <1>2, <2>1, <2>4, <3>2, <3>3 DEF CreditCovers
  <2>7. LastGoes'
    BY <2>1 DEF LastGoes
  <2> QED
    BY <1>3, <1>4, <2>3, <2>6, <2>7 DEF TxIndInv
<1>6. CASE ~BufferComplete
  <2>1. UNCHANGED <<avail, aggr, inFw>>
    BY <1>6 DEF AggrSend
  <2>2. tx_pktcnt # 1 /\ ~txnow /\ Len(aggr) # avail - Thresh
    BY <1>6 DEF BufferComplete
  <2>3. TxTypeOK'
    BY <1>2, <2>1 DEF TxIndInv, TxTypeOK
  <2>4. CreditCovers'
    BY <1>2, <2>1, <2>2 DEF TxIndInv, CreditCovers
  <2>5. txq.cnt > 0
    <3>1. CASE TxqLockFree
      BY <1>1, <1>2, <2>2, <3>1 DEF TxIndInv, Counted, InHand
    <3>2. CASE ~TxqLockFree
      BY <3>2 DEF TxIndInv, LockOwned
    <3> QED
      BY <3>1, <3>2
  <2>6. LastGoes'
    BY <1>2, <2>1, <2>2, <2>5 DEF LastGoes
  <2> QED
    BY <1>3, <1>4, <2>3, <2>4, <2>6 DEF TxIndInv
<1> QED
  BY <1>5, <1>6

LEMMA UncountKeeps ==
  ASSUME TxIndInv, Uncount
  PROVE  TxIndInv'
<1>1. /\ txq.cnt \in Nat /\ tx_pktcnt \in Int /\ txnow \in BOOLEAN
      /\ avail \in Int /\ Thresh \in Nat
  BY SdioTxAssumption DEF TxIndInv, TxTypeOK, Queues
<1>2. /\ UNCHANGED <<txq, cmd_txstate, txTrgg, call, avail, aggr, txnow, inFw>>
      /\ tx_pktcnt' = tx_pktcnt - 1
      /\ txpc = "uncount" /\ txpc' = IF txnow THEN "wait" ELSE "loop"
  BY DEF Uncount
<1>3. TxTypeOK'
  BY <1>1, <1>2 DEF TxIndInv, TxTypeOK
<1>4. QueueSound' /\ LockOwned'
  BY <1>2 DEF TxIndInv, QueueSound, LockOwned, TxqLockFree
<1>5. Counted'
  BY <1>1, <1>2 DEF TxIndInv, Counted, InHand, TxqLockFree
<1>6. CreditCovers'
  BY <1>2 DEF TxIndInv, CreditCovers
<1>7. LastGoes'
  BY <1>1, <1>2 DEF TxIndInv, LastGoes
<1>8. WakeupKept'
  <2>1. WakeupComes' <=> WakeupComes
    BY <1>2 DEF WakeupComes, Calling
  <2>2. CASE txnow
    BY <1>2, <2>1, <2>2 DEF TxIndInv, WakeupKept
  <2>3. CASE ~txnow
    BY <1>2, <2>1, <2>3 DEF TxIndInv, WakeupKept
  <2> QED
    BY <2>2, <2>3
<1> QED
  BY <1>3, <1>4, <1>5, <1>6, <1>7, <1>8 DEF TxIndInv

\* The firmware gives a buffer back.
LEMMA FwDoneKeeps ==
  ASSUME TxIndInv, NEW f \in Frames, FwDone(f)
  PROVE  TxIndInv'
<1>1. /\ UNCHANGED <<txq, tx_pktcnt, cmd_txstate, txTrgg, call, txpc, avail,
                     aggr, txnow>>
      /\ inFw' = inFw \ {f}
  BY DEF FwDone
<1>2. TxTypeOK'
  BY <1>1 DEF TxIndInv, TxTypeOK
<1>3. QueueSound' /\ LockOwned' /\ Counted' /\ LastGoes'
  BY <1>1
  DEF TxIndInv, QueueSound, LockOwned, TxqLockFree, Counted, InHand, LastGoes
<1>4. CreditCovers'
  <2>1. IsFiniteSet(inFw) /\ inFw' \in SUBSET inFw /\ Cardinality(inFw) \in Nat
    BY <1>1 DEF TxIndInv, CreditCovers
  <2>2. IsFiniteSet(inFw') /\ Cardinality(inFw') <= Cardinality(inFw)
    BY <2>1, FS_Subset
  <2>3. Cardinality(inFw') \in Nat
    BY <2>2, FS_CardinalityType
  <2>4. avail \in Int /\ FwBufs \in Nat /\ Thresh \in Nat
    BY SdioTxAssumption DEF TxIndInv, TxTypeOK
  <2> QED
    BY <1>1, <2>1, <2>2, <2>3, <2>4 DEF TxIndInv, CreditCovers
<1>5. WakeupKept'
  <2>1. WakeupComes' <=> WakeupComes
    BY <1>1 DEF WakeupComes, Calling
  <2> QED
    BY <1>1, <2>1 DEF TxIndInv, WakeupKept
<1> QED
  BY <1>2, <1>3, <1>4, <1>5 DEF TxIndInv

\* Every step keeps the invariant.
LEMMA TxNextKeeps == TxIndInv /\ [TxNext]_txVars => TxIndInv'
<1> SUFFICES ASSUME TxIndInv, [TxNext]_txVars PROVE TxIndInv'
  OBVIOUS
<1>1. ASSUME NEW c \in Callers, CallerStep(c) PROVE TxIndInv'
  BY <1>1, TxdataKeeps, OtherCallsKeep DEF CallerStep
<1>2. CASE TxStep(TRUE)
  BY <1>2, WalkKeeps, CreditStepsKeep, TakeFrameKeeps, AggrSendKeeps, UncountKeeps
  DEF TxStep
<1>3. ASSUME NEW f \in Frames, FwDone(f) PROVE TxIndInv'
  BY <1>3, FwDoneKeeps
<1>4. CASE UNCHANGED txVars
  BY <1>4
  DEF txVars, TxIndInv, TxTypeOK, QueueSound, LockOwned, TxqLockFree, Counted,
      InHand, CreditCovers, LastGoes, WakeupKept, WakeupComes, Calling
<1> QED
  BY <1>1, <1>2, <1>3, <1>4 DEF TxNext

\* The credit that is left and the buffer fit into what the firmware has free.
LEMMA CreditKeepsReserve ==
  ASSUME TxIndInv
  PROVE  ReserveKept
<1>1. /\ avail \in Int /\ Thresh \in Nat /\ FwBufs \in Nat
      /\ Len(aggr) \in Nat /\ (aggr = <<>> => Len(aggr) = 0)
  BY SdioTxAssumption DEF TxIndInv, TxTypeOK
<1>2. CASE aggr = <<>>
  BY <1>1, <1>2 DEF TxIndInv, CreditCovers, ReserveKept
<1>3. CASE aggr # <<>>
  BY <1>1, <1>3 DEF TxIndInv, CreditCovers, ReserveKept
<1> QED
  BY <1>2, <1>3

\* A thread without a wakeup has nothing to do.
LEMMA WorkIsWoken ==
  ASSUME TxIndInv
  PROVE  NothingForgotten
<1> SUFFICES ASSUME txpc = "wait", ~WakeupComes
             PROVE  FramesIn(txq) = {} /\ ~cmd_txstate
  BY DEF NothingForgotten, WakeupComes, TxIndInv, TxTypeOK
<1>1. txq.cnt = 0 /\ ~cmd_txstate
  BY DEF TxIndInv, WakeupKept, TxTypeOK, Queues
<1>2. \A p \in Prios : txq.list[p] = <<>>
  BY <1>1, SdioTxAssumption, EmptyCount DEF TxIndInv, QueueSound
<1> QED
  BY <1>1, <1>2 DEF FramesIn

\* It holds always.
LEMMA AlwaysTxIndInv == TxSpec => []TxIndInv
<1>1. TxInit => TxIndInv
  BY TxInitIndInv
<1>2. TxIndInv /\ [TxNext]_txVars => TxIndInv'
  BY TxNextKeeps
<1> QED
  BY <1>1, <1>2, PTL DEF TxSpec
----------------------------------------------------------------------------
(***************************************************************************)
(* The frame queue's hint and counter agree with its lists, although       *)
(* aicwf_sdio_bus_txdata and the thread interleave.                        *)
(***************************************************************************)
THEOREM QueueAlwaysInStep == TxSpec => []QueueInStep
<1>1. TxIndInv => QueueInStep
  BY DEF TxIndInv, QueueSound, Sound, QueueInStep
<1> QED
  BY <1>1, AlwaysTxIndInv, PTL

(***************************************************************************)
(* fw_avail_bufcnt is read once and counted down by aicwf_sdio_aggr_send:  *)
(* the last DATA_FLOW_CTRL_THRESH buffers of the firmware are never taken. *)
(***************************************************************************)
THEOREM ReserveAlwaysKept == TxSpec => []ReserveKept
<1>1. TxIndInv => ReserveKept
  BY CreditKeepsReserve
<1> QED
  BY <1>1, AlwaysTxIndInv, PTL

(***************************************************************************)
(* aicwf_sdio_tx_process never returns with frames in the buffer: the test *)
(* of tx_pktcnt in aicwf_sdio_send sees the last frame.                    *)
(***************************************************************************)
THEOREM NothingEverHeldBack == TxSpec => []NothingHeldBack
<1>1. TxIndInv => NothingHeldBack
  BY DEF TxIndInv, LastGoes, NothingHeldBack
<1> QED
  BY <1>1, AlwaysTxIndInv, PTL

(***************************************************************************)
(* The thread never waits with work and without a wakeup on its way.       *)
(***************************************************************************)
THEOREM NothingEverForgotten == TxSpec => []NothingForgotten
<1>1. TxIndInv => NothingForgotten
  BY WorkIsWoken
<1> QED
  BY <1>1, AlwaysTxIndInv, PTL

(***************************************************************************)
(* The frame that aicwf_sdio_send takes is of the highest priority in the  *)
(* queue, although hi_prio is only a hint.                                 *)
(***************************************************************************)
THEOREM HighestAlwaysFirst == TxSpec => HighestFirst
<1> DEFINE Best == Len(aggr') > Len(aggr) =>
                     \A f \in FramesIn(txq') : Prio[f] <= Prio[aggr'[Len(aggr')]]
<1>1. ASSUME TxIndInv, TakeFrame PROVE Best
  <2>1. PICK h \in Prios :
          /\ txq.list[h] \in Seq(Frames) /\ txq.list[h] # <<>>
          /\ aggr' = Append(aggr, Head(txq.list[h]))
          /\ \A p \in Prios : /\ txq.list[p] # <<>> => p <= h
                             /\ txq'.list[p] = IF p = h THEN Tail(txq.list[p])
                                               ELSE txq.list[p]
    BY <1>1, TakeFrameTakes
  <2>2. aggr \in Seq(Frames) /\ \A p \in Prios : txq.list[p] \in Seq(Frames)
    BY <1>1 DEF TxIndInv, TxTypeOK, Queues
  <2>3. aggr'[Len(aggr')] = txq.list[h][1] /\ 1 \in DOMAIN txq.list[h]
    BY <2>1, <2>2
  <2>4. Prio[aggr'[Len(aggr')]] = h
    BY <1>1, <2>3 DEF TxIndInv, QueueSound, Sorted
  <2>5. ASSUME NEW p \in Prios, NEW i \in DOMAIN txq'.list[p]
        PROVE  Prio[txq'.list[p][i]] <= h
    <3>1. Prio[txq'.list[p][i]] = p
      BY <1>1, TakeFrameKeeps DEF TxIndInv, QueueSound, Sorted
    <3>2. txq'.list[p] # <<>>
      BY <2>5
    <3>3. txq.list[p] # <<>>
      BY <2>1, <3>2
    <3> QED
      BY <2>1, <3>1, <3>3
  <2> QED
    BY <2>4, <2>5 DEF FramesIn
<1>2. ASSUME TxIndInv, [TxNext]_txVars, ~TakeFrame PROVE Best
  <2>1. Len(aggr) \in Nat /\ Len(aggr) >= 0
    BY <1>2 DEF TxIndInv, TxTypeOK
  <2>2. aggr' = aggr \/ aggr' = <<>>
    BY <1>2
    DEF TxNext, CallerStep, TxStep, FwDone, txVars, Txdata, Count, Txmsg, Trigger,
        Wake, PowerUp, LookForCmd, CheckState, TxMsg, FirstCredit, Loop, NoCredit,
        Pick, AggrSend, Uncount
  <2>3. ~(Len(aggr') > Len(aggr))
    BY <2>1, <2>2
  <2> QED
    BY <2>3
<1>3. TxIndInv /\ [TxNext]_txVars => [Best]_txVars
  BY <1>1, <1>2
<1> HIDE DEF Best
<1>4. TxSpec => [][Best]_txVars
  BY <1>3, AlwaysTxIndInv, PTL DEF TxSpec
<1> QED
  BY <1>4 DEF HighestFirst, Best
----------------------------------------------------------------------------
(***************************************************************************)
(* The path implements the carrier: what each step of the callers, the     *)
(* thread and the firmware is for the carrier.                             *)
(***************************************************************************)

\* The steps between which the carrier sees nothing.
LEMMA CarrierSees ==
  ASSUME UNCHANGED <<txq, aggr, inFw, cmd_txstate>>
  PROVE  UNCHANGED Carrier!vars
BY DEF Carrier!vars

\* aicwf_sdio_bus_txdata: a frame that is nowhere yet joins its line.
LEMMA TxdataAccepts ==
  ASSUME NEW c \in Callers, Txdata(c)
  PROVE  \E f \in Frames : Carrier!Accept(f)
<1>1. PICK f \in Unsent : Accepts(txq, Prio[f]) /\ txq' = Enq(txq, Prio[f], f)
  BY DEF Txdata
<1>2. UNCHANGED <<aggr, inFw, cmd_txstate>>
  BY DEF Txdata
<1>3. f \in Frames /\ f \notin FramesIn(txq) \cup InBuffer \cup inFw
  BY DEF Unsent
<1>4. FramesIn(txq) = Carrier!InLines
  BY DEF FramesIn, Carrier!InLines, Carrier!Members
<1>5. InBuffer = Carrier!Members(aggr)
  BY DEF InBuffer, Carrier!Members
<1>6. f \notin Carrier!Held
  BY <1>3, <1>4, <1>5 DEF Carrier!Held
<1>7. Len(txq.list[Prio[f]]) < QMax
  BY <1>1 DEF Accepts
<1>8. txq'.list = [txq.list EXCEPT ![Prio[f]] = Append(@, f)]
  BY <1>1 DEF Enq
<1>9. Carrier!Accept(f)
  BY <1>2, <1>6, <1>7, <1>8 DEF Carrier!Accept
<1> QED
  BY <1>3, <1>9

\* aicwf_frame_dequeue in aicwf_sdio_send: the first frame of the highest line,
\* while the firmware has room for it beside the frames of the buffer.
LEMMA TakeFrameLoads ==
  ASSUME TxIndInv, TakeFrame
  PROVE  \E p \in Prios : Carrier!Load(p)
<1> DEFINE h == HeadPrio(txq)
<1>1. /\ CanDequeue(txq) /\ aggr' = Append(aggr, HeadFrame(txq))
      /\ txq' = Dequeue(txq) /\ UNCHANGED <<inFw, cmd_txstate>>
  BY DEF TakeFrame
<1>2. /\ h \in Prios /\ txq.list[h] # <<>>
      /\ \A p \in Prios : txq.list[p] # <<>> => p <= h
  <2>1. txq \in Queues(Frames) /\ InStep(txq) /\ NumPrio \in Nat \ {0}
    BY SdioTxAssumption DEF TxIndInv, QueueSound, Sound
  <2> QED
    BY <1>1, <2>1, HeadIsHighest DEF CanDequeue
<1>3. aggr' = Append(aggr, Head(txq.list[h]))
  BY <1>1 DEF HeadFrame
<1>4. txq'.list = [txq.list EXCEPT ![h] = Tail(@)]
  BY <1>1 DEF Dequeue
<1>5. Cardinality(inFw) + Len(aggr) < FwBufs - Thresh
  <2>1. /\ avail \in Int /\ FwBufs \in Nat /\ Thresh \in Nat
        /\ aggr \in Seq(Frames) /\ Len(aggr) \in Nat
    BY SdioTxAssumption DEF TxIndInv, TxTypeOK
  <2>2. /\ Cardinality(inFw) \in Nat /\ avail + Cardinality(inFw) <= FwBufs
        /\ avail > Thresh /\ (aggr # <<>> => Len(aggr) < avail - Thresh)
    BY DEF TxIndInv, CreditCovers, TakeFrame
  <2>3. aggr = <<>> => Len(aggr) = 0
    OBVIOUS
  <2>4. Len(aggr) < avail - Thresh
    BY <2>1, <2>2, <2>3
  <2> QED
    BY <2>1, <2>2, <2>4
<1> HIDE DEF h
<1>6. Carrier!Load(h)
  BY <1>1, <1>2, <1>3, <1>4, <1>5 DEF Carrier!Load, Cardinality, Carrier!Cardinality
<1> QED
  BY <1>2, <1>6

\* aicwf_sdio_aggr_send: the whole buffer goes, or is lost.
LEMMA AggrSendTransfers ==
  ASSUME AggrSend
  PROVE  Carrier!Transfer \/ UNCHANGED Carrier!vars
<1>1. UNCHANGED <<txq, cmd_txstate>>
  BY DEF AggrSend
<1>2. CASE BufferComplete
  <2>1. aggr' = <<>> /\ (inFw' = inFw \cup InBuffer \/ (TxMayFail /\ inFw' = inFw))
    BY <1>2 DEF AggrSend
  <2> QED
    BY <1>1, <2>1 DEF Carrier!Transfer, Carrier!Members, InBuffer
<1>3. CASE ~BufferComplete
  BY <1>1, <1>3, CarrierSees DEF AggrSend
<1> QED
  BY <1>2, <1>3

\* aicwf_sdio_tx_msg: no frame is in the buffer when a command is sent.
LEMMA TxMsgDelivers ==
  ASSUME TxIndInv, TxMsg
  PROVE  Carrier!Deliver
BY DEF TxIndInv, LastGoes, TxMsg, Carrier!Deliver

\* What is left of the thread's steps moves neither a frame nor a message.
LEMMA WalkIsQuiet ==
  ASSUME NEW active \in BOOLEAN,
         \/ Wake \/ PowerUp \/ LookForCmd \/ CheckState(active)
         \/ FirstCredit \/ Loop \/ NoCredit \/ Pick \/ Uncount
  PROVE  UNCHANGED Carrier!vars
<1>1. UNCHANGED <<txq, aggr, inFw, cmd_txstate>>
  BY DEF Wake, PowerUp, LookForCmd, CheckState, FirstCredit, Loop, NoCredit, Pick,
         Uncount
<1> QED
  BY <1>1, CarrierSees

\* Every step of the path is one of the carrier.
LEMMA StepCarries ==
  ASSUME TxIndInv, [TxNext]_txVars
  PROVE  [Carrier!Next]_Carrier!vars
<1>1. ASSUME NEW c \in Callers, CallerStep(c)
      PROVE  [Carrier!Next]_Carrier!vars
  <2>1. CASE Txdata(c)
    BY <2>1, TxdataAccepts DEF Carrier!Next
  <2>2. CASE Txmsg(c)
    BY <2>2 DEF Txmsg, Carrier!Post, Carrier!Next
  <2>3. CASE Count(c) \/ Trigger(c)
    BY <2>3, CarrierSees DEF Count, Trigger
  <2> QED
    BY <1>1, <2>1, <2>2, <2>3 DEF CallerStep
<1>2. ASSUME TxStep(TRUE)
      PROVE  [Carrier!Next]_Carrier!vars
  <2>1. CASE TakeFrame
    BY <2>1, TakeFrameLoads DEF Carrier!Next
  <2>2. CASE AggrSend
    BY <2>2, AggrSendTransfers DEF Carrier!Next
  <2>3. CASE TxMsg
    BY <2>3, TxMsgDelivers DEF Carrier!Next
  <2>4. CASE ~TakeFrame /\ ~AggrSend /\ ~TxMsg
    BY <1>2, <2>4, WalkIsQuiet DEF TxStep
  <2> QED
    BY <2>1, <2>2, <2>3, <2>4
<1>3. ASSUME NEW f \in Frames, FwDone(f)
      PROVE  [Carrier!Next]_Carrier!vars
  <2>1. Carrier!Release(f)
    BY <1>3 DEF FwDone, Carrier!Release
  <2> QED
    BY <2>1 DEF Carrier!Next
<1>4. CASE UNCHANGED txVars
  BY <1>4, CarrierSees DEF txVars
<1> QED
  BY <1>1, <1>2, <1>3, <1>4 DEF TxNext

LEMMA StartCarries == TxInit => Carrier!Init
BY DEF TxInit, EmptyQueue, Carrier!Init

(***************************************************************************)
(* aicwf_sdio_bus_txdata, aicwf_sdio_bus_txmsg and the thread keep what    *)
(* they promise their callers: the order of the frames by priority and by  *)
(* age, the reserve of the firmware, one place for each frame, and         *)
(* commands between the bundles.                                           *)
(***************************************************************************)
THEOREM PathImplementsCarrier == TxSpec => ImplementsCarrier
<1>1. TxInit => Carrier!Init
  BY StartCarries
<1>2. TxIndInv /\ [TxNext]_txVars => [Carrier!Next]_Carrier!vars
  BY StepCarries
<1> QED
  BY <1>1, <1>2, AlwaysTxIndInv, PTL DEF TxSpec, ImplementsCarrier, Carrier!Spec
=============================================================================
