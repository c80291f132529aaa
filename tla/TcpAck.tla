------------------------------- MODULE TcpAck -------------------------------
(***************************************************************************)
(* The filter of TCP acknowledgements, aicwf_tcp_ack.c, with its calls in  *)
(* rwnx_start_xmit and intf_tx.                                            *)
(*                                                                         *)
(* The transmit path (with softirqs disabled) and the 5 ms timers          *)
(* (softirqs) do not interrupt each other on the one core of the chip.     *)
(* The busrx thread, which looks for pushed segments, and the removal of   *)
(* the filter can be interrupted between any two critical sections.        *)
(*                                                                         *)
(* A segment is its acknowledgement number; numbers are unbounded and      *)
(* positive here; the filter compares them modulo 2^32, of which Wrap is   *)
(* the small version.                                                      *)
(***************************************************************************)
EXTENDS Integers, FiniteSets

CONSTANTS
    Conns,      \* the connections: addresses and ports
    NumSlots,   \* TCP_ACK_NUM
    Wrap,       \* numbers are compared modulo Wrap
    MaxDrop,    \* max_drop_cnt
    FirstSeq,   \* the number that the handshake acknowledged
    MaxSeq,     \* bound: the highest number of each connection
    None

Slots == 1..NumSlots

ASSUME TcpAckAssumption ==
    /\ NumSlots \in Nat \ {0}
    /\ Wrap \in Nat \ {0} /\ MaxDrop \in Nat /\ MaxSeq \in [Conns -> Nat]
    /\ FirstSeq \in Nat \ {0}
    /\ None \notin Conns

VARIABLES
    slot,       \* ack_info[]: conn is None if it is not busy, held is 0 if msgbuf
                \* is NULL, psh is psh_seq if psh_flag is set
    free,       \* free_index
    maxNum,     \* max_num
    offered,    \* the highest number the stack has offered, of each connection
    sent,       \* the highest number transmitted
    rx,         \* the slot the busrx thread has found, and the pushed segment
    enable,
    deinit      \* slots that tcp_ack_deinit has still to clear

vars == <<slot, free, maxNum, offered, sent, rx, enable, deinit>>

\* struct tcp_ack_info
AckInfo == [conn : Conns \cup {None}, seq : 0..(Wrap - 1), held : Nat,
            timer : BOOLEAN, dropCnt : Nat, psh : {None} \cup 0..(Wrap - 1),
            old : BOOLEAN]

Busy(s) == {i \in Slots : s[i].conn # None}
Least(S) == CHOOSE i \in S : \A j \in S : i <= j

\* U32_BEFORE(a, b): not after, as a signed difference
Before(a, b) == LET d == (a - b) % Wrap IN d = 0 \/ 2 * d >= Wrap

Higher(a, b) == IF a > b THEN a ELSE b

Init ==
    /\ slot = [i \in Slots |->
                 [conn |-> None, seq |-> 0, held |-> 0, timer |-> FALSE,
                  dropCnt |-> 0, psh |-> None, old |-> FALSE]]
    /\ free = 1 /\ maxNum = 0
    /\ offered = [c \in Conns |-> FirstSeq]
    /\ sent = offered
    /\ rx = None /\ enable = TRUE /\ deinit = {}
----------------------------------------------------------------------------
\* Wrong variant: max_num is not taken down.
SweptMut(now) ==
    LET gone == {i \in Slots : now /\ slot[i].conn # None /\ slot[i].old} IN
    [slot |-> [i \in Slots |-> IF i \in gone THEN [slot[i] EXCEPT !.conn = None]
                               ELSE slot[i]],
     free |-> IF gone = {} THEN free ELSE Least(gone),
     maxNum |-> maxNum]

\* tcp_ack_update, at most every ACK_OLD_TIME: slots unused for as long are
\* free.  What they keep means nothing, except what is held and the timer.
Swept(now) ==
    LET gone == {i \in Slots : now /\ slot[i].conn # None /\ slot[i].old} IN
    [slot |-> [i \in Slots |-> IF i \in gone
                               THEN [slot[i] EXCEPT !.conn = None, !.seq = 0,
                                       !.dropCnt = 0, !.psh = None, !.old = FALSE]
                               ELSE slot[i]],
     free |-> IF gone = {} THEN free ELSE Least(gone),
     maxNum |-> maxNum - Cardinality(gone)]

\* Wrong variants: what is held is not replaced; it is left behind, without a
\* timer, when a newer one is sent at once.
HeldAfterMut(s, n, now) == IF now THEN 0 ELSE IF s.held # 0 THEN s.held ELSE n
HeldAfterQuickMut(s, n, now) == IF now THEN s.held ELSE n

\* The msgbuf of a slot after a newer acknowledgement
HeldAfter(s, n, now) == IF now THEN 0 ELSE n

\* Wrong variant: a timer that runs is waited for, but none is started.
TimerAfterMut(s, now) == s.timer /\ ~now

TimerAfter(s, now) == ~now

\* tcp_ack_handle_new: the slot after an acknowledgement of its connection.  A
\* newer one replaces what is held; it is sent at once after a pushed segment
\* or as the MaxDrop-th of a row, and held otherwise.
Handled(s, n) ==
    LET newer == Before(s.seq, n)
        quick == s.psh # None /\ ~Before(n, s.psh)
        drop == IF quick THEN s.dropCnt ELSE s.dropCnt + 1
        now == quick \/ drop >= MaxDrop
        t == [s EXCEPT !.old = FALSE]
    IN IF ~newer THEN t
       ELSE [t EXCEPT !.seq = n % Wrap,
                      !.psh = IF quick THEN None ELSE @,
                      !.dropCnt = IF now THEN 0 ELSE drop,
                      !.held = HeldAfter(s, n, now),
                      !.timer = TimerAfter(s, now)]

\* Not filtered: newer, and not held.
PassesOn(s, n) == Before(s.seq, n) /\ Handled(s, n).held = 0

\* The slot of a connection seen for the first time, whose first
\* acknowledgements are not held.  What the slot held is left as it is.
Taken(s, c, n) ==
    [s EXCEPT !.conn = c, !.psh = None, !.old = FALSE, !.dropCnt = MaxDrop,
              !.seq = n % Wrap]

Transmit(c, n) == sent' = [sent EXCEPT ![c] = Higher(@, n)]

\* tcp_ack_alloc_index: the free slot remembered, or the first one found
Allocated(w) == IF w.free # 0 THEN w.free ELSE Least(Slots \ Busy(w.slot))

\* filter_send_tcp_ack for an acknowledgement with no data, numbered n.
SendAck(c, n, sweep) ==
    LET w == Swept(sweep)
        match == {i \in Slots : w.slot[i].conn = c}
        i == Least(match)
        full == w.maxNum = Cardinality(Slots)
    IN /\ offered' = [offered EXCEPT ![c] = n]
       /\ IF match # {} /\ enable
          THEN /\ slot' = [w.slot EXCEPT ![i] = Handled(@, n)]
               /\ IF PassesOn(w.slot[i], n) THEN Transmit(c, n) ELSE UNCHANGED sent
               /\ free' = w.free /\ maxNum' = w.maxNum
          ELSE /\ Transmit(c, n)
               /\ IF match # {} \/ full
                  THEN slot' = w.slot /\ free' = w.free /\ maxNum' = w.maxNum
                  ELSE /\ slot' = [w.slot EXCEPT ![Allocated(w)] = Taken(@, c, n)]
                       /\ free' = 0 /\ maxNum' = w.maxNum + 1
       /\ UNCHANGED <<rx, enable, deinit>>

\* The stack never goes back.  What a slot knows is less than half of the
\* numbers behind.
InWindow(c, n) ==
    /\ n <= MaxSeq[c]
    /\ \A i \in Slots : slot[i].conn = c => Before(slot[i].seq, n)

Xmit(c) ==
    \E n \in offered[c]..(offered[c] + 1), sweep \in BOOLEAN :
        InWindow(c, n) /\ SendAck(c, n, sweep)

\* A segment with data passes, after tcp_ack_update.
XmitData(c) ==
    \E n \in offered[c]..(offered[c] + 1), sweep \in BOOLEAN :
        /\ InWindow(c, n)
        /\ LET w == Swept(sweep)
           IN slot' = w.slot /\ free' = w.free /\ maxNum' = w.maxNum
        /\ offered' = [offered EXCEPT ![c] = n]
        /\ Transmit(c, n)
        /\ UNCHANGED <<rx, enable, deinit>>

\* tcp_ack_timeout, intf_tx
Timeout(i) ==
    /\ slot[i].timer
    /\ LET sends == slot[i].conn # None /\ slot[i].held # 0 IN
       /\ slot' = [slot EXCEPT ![i].timer = FALSE,
                               ![i].held = IF sends THEN 0 ELSE @,
                               ![i].dropCnt = IF sends THEN 0 ELSE @]
       /\ IF sends THEN Transmit(slot[i].conn, slot[i].held) ELSE UNCHANGED sent
    /\ UNCHANGED <<free, maxNum, offered, rx, enable, deinit>>

\* ACK_OLD_TIME passes without an acknowledgement: longer than any timer runs.
Age(i) ==
    /\ slot[i].conn # None /\ ~slot[i].timer /\ ~slot[i].old
    /\ slot' = [slot EXCEPT ![i].old = TRUE]
    /\ UNCHANGED <<free, maxNum, offered, sent, rx, enable, deinit>>

\* filter_rx_tcp_ack finds the slot of a pushed segment without a lock, one
\* that starts at the last number acknowledged or later ...
RxMatch(c) ==
    /\ rx = None /\ enable
    /\ \E i \in Slots, ahead \in 0..1 :
          slot[i].conn = c /\ rx' = [i |-> i, seq |-> (slot[i].seq + ahead) % Wrap]
    /\ UNCHANGED <<slot, free, maxNum, offered, sent, enable, deinit>>

\* ... and marks it under its lock.
RxMark ==
    /\ rx # None
    /\ slot' = [slot EXCEPT ![rx.i].psh = rx.seq]
    /\ rx' = None
    /\ UNCHANGED <<free, maxNum, offered, sent, enable, deinit>>

\* tcp_ack_deinit, slot by slot
Deinit ==
    /\ enable /\ enable' = FALSE /\ deinit' = Slots
    /\ UNCHANGED <<slot, free, maxNum, offered, sent, rx>>

DeinitSlot ==
    LET i == Least(deinit) IN
    /\ deinit # {}
    /\ slot' = [slot EXCEPT ![i].timer = FALSE, ![i].held = 0]
    /\ deinit' = deinit \ {i}
    /\ UNCHANGED <<free, maxNum, offered, sent, rx, enable>>

Next ==
    \/ \E c \in Conns : Xmit(c) \/ XmitData(c) \/ RxMatch(c)
    \/ \E i \in Slots : Timeout(i) \/ Age(i)
    \/ RxMark \/ Deinit \/ DeinitSlot

Spec == Init /\ [][Next]_vars

\* Timers expire.
FairSpec == Spec /\ \A i \in Slots : WF_vars(Timeout(i))
----------------------------------------------------------------------------
TypeOK ==
    /\ slot \in [Slots -> AckInfo]
    /\ free \in Slots \cup {0} /\ maxNum \in Nat
    /\ offered \in [Conns -> Nat] /\ sent \in [Conns -> Nat]
    /\ rx \in {None} \cup [i : Slots, seq : 0..(Wrap - 1)]
    /\ enable \in BOOLEAN /\ deinit \subseteq Slots

(***************************************************************************)
(* The slots are accounted for: max_num counts the busy ones, free_index   *)
(* is not one of them, and no connection has two.                          *)
(***************************************************************************)
SlotsCounted ==
    /\ maxNum = Cardinality(Busy(slot))
    /\ free \notin Busy(slot)
    /\ \A i, j \in Busy(slot) : slot[i].conn = slot[j].conn => i = j

(***************************************************************************)
(* What is held will be sent: its slot is busy, its timer runs, and nothing *)
(* newer of its connection has been offered without being transmitted.     *)
(***************************************************************************)
HeldIsTimed ==
    \A i \in Slots : slot[i].held # 0 =>
        LET c == slot[i].conn IN
        /\ c # None /\ slot[i].timer
        /\ slot[i].held = offered[c] \/ sent[c] = offered[c]

\* The acknowledgements in the filter implement the abstract stream.
Stream == INSTANCE AckStream
ImplementsStream == Stream!Spec

(***************************************************************************)
(* The highest acknowledgement gets out, unless the filter is removed.     *)
(***************************************************************************)
Owed == enable /\ \E c \in Conns : sent[c] < offered[c]
NewestGoes == []<>(~Owed)
=============================================================================
