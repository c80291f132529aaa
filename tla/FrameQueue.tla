----------------------------- MODULE FrameQueue -----------------------------
(***************************************************************************)
(* struct frame_queue of aicwf_txrxif.c: one list per priority, a hint     *)
(* hi_prio at or above the highest list in use, and a frame counter.  The  *)
(* transmit path uses it with eight priorities, the receive path with one. *)
(* The operators are pure; the modules that use them say under which lock. *)
(***************************************************************************)
LOCAL INSTANCE Naturals
LOCAL INSTANCE Sequences
LOCAL INSTANCE FiniteSets

CONSTANTS
    NumPrio,    \* num_prio
    QMax        \* qmax: limit of each list and of the whole queue

Prios == 0..(NumPrio - 1)

Queues(Frame) == [list : [Prios -> Seq(Frame)], hi : Prios, cnt : Nat]

EmptyQueue == [list |-> [p \in Prios |-> <<>>], hi |-> 0, cnt |-> 0]

\* aicwf_frame_enq refuses a frame instead of making room for it.
Accepts(q, prio) == Len(q.list[prio]) < QMax /\ q.cnt < QMax

\* Wrong variant: the hint is not raised.
EnqMut(q, prio, f) ==
    [q EXCEPT !.list[prio] = Append(@, f), !.cnt = @ + 1]

Enq(q, prio, f) ==
    [list |-> [q.list EXCEPT ![prio] = Append(@, f)],
     hi   |-> IF q.hi < prio THEN prio ELSE q.hi,
     cnt  |-> q.cnt + 1]

\* Only the lists up to the hint are looked at.
IsEmpty(q) == \A p \in 0..q.hi : q.list[p] = <<>>

\* The list aicwf_frame_dequeue takes from: the hint goes down to a list in use.
UsedBelowHint(q) == {p \in 1..q.hi : q.list[p] # <<>>}

\* Wrong variant: the lowest list in use.
HeadPrioMut(q) ==
    IF q.list[0] # <<>> \/ UsedBelowHint(q) = {} THEN 0
    ELSE CHOOSE p \in UsedBelowHint(q) : \A r \in UsedBelowHint(q) : r >= p

HeadPrio(q) ==
    IF UsedBelowHint(q) = {} THEN 0
    ELSE CHOOSE p \in UsedBelowHint(q) : \A r \in UsedBelowHint(q) : r <= p

\* Defined when there is a frame to take.
CanDequeue(q) == q.cnt # 0 /\ q.list[HeadPrio(q)] # <<>>

HeadFrame(q) == Head(q.list[HeadPrio(q)])

Dequeue(q) ==
    LET p == HeadPrio(q)
    IN  [list |-> [q.list EXCEPT ![p] = Tail(@)], hi |-> p, cnt |-> q.cnt - 1]

-----------------------------------------------------------------------------

FramesIn(q) == UNION {{q.list[p][i] : i \in DOMAIN q.list[p]} : p \in Prios}

Places(q) == UNION {{p} \X DOMAIN q.list[p] : p \in Prios}

(***************************************************************************)
(* The hint and the counter agree with the lists: no frame hides above the *)
(* hint, where aicwf_is_framequeue_empty does not look, and the counter    *)
(* does not make the queue look full or empty.                             *)
(***************************************************************************)
InStep(q) ==
    /\ \A p \in Prios : q.list[p] # <<>> => p <= q.hi
    /\ q.cnt = Cardinality(Places(q))

=============================================================================
