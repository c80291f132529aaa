---------------------------- MODULE TcpAck_proofs ----------------------------
(***************************************************************************)
(* The acknowledgement filter keeps its slots in order and loses nothing,  *)
(* for any number of connections and slots, and thins the stream as        *)
(* AckStream allows.                                                       *)
(*                                                                         *)
(* A sweep frees a slot without looking at what it holds: this is right    *)
(* because only an old slot is swept, and a slot is not old while its      *)
(* timer runs (QuietWhenOld).  The timer sends what is held because nothing*)
(* held is ahead of what was offered (HeldBounds).                         *)
(***************************************************************************)
EXTENDS TcpAck, TLAPS, FiniteSetTheorems, WellFoundedInduction

\* An old slot is busy and has no timer.
QuietWhenOld ==
    \A i \in Slots : slot[i].old => slot[i].conn # None /\ ~slot[i].timer

\* Nothing is sent or held that was not offered.
HeldBounds ==
    /\ \A c \in Conns : sent[c] <= offered[c]
    /\ \A i \in Slots : slot[i].held # 0 => slot[i].held <= offered[slot[i].conn]

IndInv == TypeOK /\ SlotsCounted /\ HeldIsTimed /\ QuietWhenOld /\ HeldBounds
----------------------------------------------------------------------------
LEMMA SlotsFinite == IsFiniteSet(Slots) /\ Cardinality(Slots) \in Nat
<1>1. IsFiniteSet(1..NumSlots)
  BY FS_Interval, TcpAckAssumption
<1> QED
  BY <1>1, FS_CardinalityType DEF Slots

\* Every nonempty set of slots has a first one.
LEMMA LeastIn ==
  ASSUME NEW S \in SUBSET Slots, S # {}
  PROVE  Least(S) \in S
<1> DEFINE below(i) == {j \in S : j < i}
           T == {below(i) : i \in S}
<1>1. S \subseteq Nat
  BY TcpAckAssumption DEF Slots
<1>2. T \subseteq FiniteSubsetsOf(S) /\ T # {}
  <2>1. IsFiniteSet(S)
    BY SlotsFinite, FS_Subset
  <2>2. FiniteSubsetsOf(S) = SUBSET S
    BY <2>1, FS_FiniteSubsetsOfFinite
  <2>3. \A i \in S : below(i) \in SUBSET S
    OBVIOUS
  <2> HIDE DEF below
  <2> QED
    BY <2>2, <2>3
<1>3. PICK L \in T : \A M \in T : ~(<<M, L>> \in StrictSubsetOrdering(S))
  BY <1>2, WFMin, FS_StrictSubsetOrderingWellFounded
<1>4. PICK x \in S : L = below(x)
  BY <1>3
<1>5. ASSUME NEW y \in S, y < x
      PROVE  FALSE
  <2>1. \A i \in Nat : i < y /\ y < x => i < x
    BY <1>1
  <2>2. ~(y < y)
    BY <1>1
  <2>3. below(y) \subseteq below(x)
    BY <1>1, <1>5, <2>1
  <2>4. y \in below(x) /\ y \notin below(y)
    BY <1>5, <2>2
  <2>5. <<below(y), below(x)>> \in StrictSubsetOrdering(S)
    BY <2>3, <2>4 DEF StrictSubsetOrdering
  <2> QED
    BY <1>3, <1>4, <2>5
<1>6. \A y \in S : x <= y
  BY <1>1, <1>5
<1> QED
  BY <1>6 DEF Least

LEMMA BusyFinite ==
  ASSUME NEW s
  PROVE  /\ Busy(s) \in SUBSET Slots /\ IsFiniteSet(Busy(s))
         /\ Cardinality(Busy(s)) \in Nat
<1>1. Busy(s) \in SUBSET Slots
  BY DEF Busy
<1> QED
  BY <1>1, SlotsFinite, FS_Subset, FS_CardinalityType

LEMMA ModRange == 0 \in 0..(Wrap - 1) /\ \A n \in Int : n % Wrap \in 0..(Wrap - 1)
  BY TcpAckAssumption

\* The initial state satisfies the invariant.
LEMMA InitIndInv == Init => IndInv
<1> SUFFICES ASSUME Init PROVE IndInv
  OBVIOUS
<1>1. Busy(slot) = {}
  BY DEF Init, Busy
<1>2. TypeOK
  BY TcpAckAssumption DEF Init, TypeOK, Slots, AckInfo
<1>3. SlotsCounted
  BY <1>1, FS_EmptySet DEF Init, SlotsCounted
<1>4. HeldIsTimed /\ QuietWhenOld /\ HeldBounds
  BY TcpAckAssumption DEF Init, HeldIsTimed, QuietWhenOld, HeldBounds
<1> QED
  BY <1>2, <1>3, <1>4 DEF IndInv
----------------------------------------------------------------------------
(***************************************************************************)
(* What tcp_ack_update leaves                                              *)
(***************************************************************************)
\* The table after a sweep, as seen by the rest of filter_send_tcp_ack
SweptWell(w) ==
    /\ w.slot \in [Slots -> AckInfo]
    /\ w.free \in Slots \cup {0} /\ w.maxNum \in Nat
    /\ w.maxNum = Cardinality(Busy(w.slot))
    /\ w.free \notin Busy(w.slot)
    /\ \A i \in Slots : w.slot[i].conn # None => w.slot[i] = slot[i]
    /\ \A i \in Slots : w.slot[i].held # 0 => w.slot[i] = slot[i]
    /\ \A i \in Slots : w.slot[i].old => w.slot[i] = slot[i]

\* What is swept is not busy afterwards and held nothing.
LEMMA SweepIsSafe ==
  ASSUME IndInv, NEW sweep \in BOOLEAN
  PROVE  SweptWell(Swept(sweep))
<1> DEFINE gone == {i \in Slots : sweep /\ slot[i].conn # None /\ slot[i].old}
           w == Swept(sweep)
<1> DEFINE freed(s) == [s EXCEPT !.conn = None, !.seq = 0, !.dropCnt = 0,
                                 !.psh = None, !.old = FALSE]
<1>1. /\ w.slot = [i \in Slots |-> IF i \in gone THEN freed(slot[i]) ELSE slot[i]]
      /\ w.free = (IF gone = {} THEN free ELSE Least(gone))
      /\ w.maxNum = maxNum - Cardinality(gone)
  BY DEF Swept
<1> HIDE DEF w
<1>2. gone \in SUBSET Slots
  OBVIOUS
<1>3. \A s \in AckInfo : freed(s) \in AckInfo
  <2>1. 0 \in Nat /\ FALSE \in BOOLEAN /\ 0 \in 0..(Wrap - 1)
    BY ModRange
  <2> QED
    BY <2>1, Zenon DEF AckInfo
<1>4. \A s \in AckInfo : /\ freed(s).conn = None /\ freed(s).old = FALSE
                         /\ freed(s).held = s.held
  BY DEF AckInfo
<1>5. \A i \in Slots : slot[i] \in AckInfo
  BY DEF IndInv, TypeOK
<1>6. \A i \in gone : slot[i].held = 0 /\ slot[i].conn # None
  BY DEF IndInv, QuietWhenOld, HeldIsTimed
<1> HIDE DEF gone, freed
<1>7. w.slot \in [Slots -> AckInfo]
  BY <1>1, <1>3, <1>5
<1>8. \A i \in Slots : i \notin gone => w.slot[i] = slot[i]
  BY <1>1
<1>9. \A i \in gone :
         w.slot[i].conn = None /\ w.slot[i].held = 0 /\ w.slot[i].old = FALSE
  BY <1>1, <1>2, <1>4, <1>5, <1>6
<1>10. Busy(w.slot) = Busy(slot) \ gone
  BY <1>2, <1>8, <1>9 DEF Busy
<1>11. w.maxNum = Cardinality(Busy(w.slot))
  <2>1. Busy(slot) \cap gone = gone
    BY <1>2, <1>6 DEF Busy
  <2>2. Cardinality(Busy(w.slot)) = Cardinality(Busy(slot)) - Cardinality(gone)
    BY <1>10, <2>1, BusyFinite, FS_Difference
  <2> QED
    BY <1>1, <2>2 DEF IndInv, SlotsCounted
<1>12. w.free \in Slots \cup {0} /\ w.free \notin Busy(w.slot)
  <2>1. CASE gone = {}
    BY <1>1, <1>10, <2>1 DEF IndInv, SlotsCounted, TypeOK
  <2>2. CASE gone # {}
    BY <1>1, <1>2, <1>10, <2>2, LeastIn
  <2> QED
    BY <2>1, <2>2
<1>13. w.maxNum \in Nat
  BY <1>11, BusyFinite
<1> QED
  BY <1>7, <1>8, <1>9, <1>11, <1>12, <1>13 DEF SweptWell, w

\* The slot that tcp_ack_alloc_index finds when not all are busy is free.
LEMMA AllocatedIsFree ==
  ASSUME NEW w, SweptWell(w), w.maxNum # Cardinality(Slots)
  PROVE  Allocated(w) \in Slots \ Busy(w.slot)
<1>1. CASE w.free # 0
  BY <1>1 DEF Allocated, SweptWell
<1>2. CASE w.free = 0
  <2>1. Slots \ Busy(w.slot) # {}
    BY BusyFinite DEF SweptWell
  <2> QED
    BY <1>2, <2>1, LeastIn DEF Allocated
<1> QED
  BY <1>1, <1>2
----------------------------------------------------------------------------
(***************************************************************************)
(* The steps of the transmit path                                          *)
(***************************************************************************)
\* A newer acknowledgement is either held under a timer or passed on.
LEMMA HandledNewer ==
  ASSUME NEW s \in AckInfo, NEW n \in Nat, Before(s.seq, n)
  PROVE  /\ Handled(s, n) \in AckInfo
         /\ Handled(s, n).conn = s.conn /\ Handled(s, n).old = FALSE
         /\ Handled(s, n).held \in {0, n}
         /\ Handled(s, n).held # 0 => Handled(s, n).timer
         /\ PassesOn(s, n) <=> Handled(s, n).held = 0
<1> DEFINE quick == s.psh # None /\ ~Before(n, s.psh)
           drop == IF quick THEN s.dropCnt ELSE s.dropCnt + 1
           now == quick \/ drop >= MaxDrop
           psh == IF quick THEN None ELSE [s EXCEPT !.old = FALSE].psh
           cnt == IF now THEN 0 ELSE drop
           held == IF now THEN 0 ELSE n
           timer == ~now
           seq == n % Wrap
<1>1. Handled(s, n) =
        [[s EXCEPT !.old = FALSE] EXCEPT
           !.seq = seq, !.psh = psh, !.dropCnt = cnt, !.held = held,
           !.timer = timer]
  BY DEF Handled, HeldAfter, TimerAfter
<1>2. /\ seq \in 0..(Wrap - 1)
      /\ cnt \in Nat /\ held \in Nat /\ held \in {0, n}
  BY ModRange DEF AckInfo
<1>3. psh \in {None} \cup 0..(Wrap - 1)
  <2>1. [s EXCEPT !.old = FALSE].psh = s.psh
    BY DEF AckInfo
  <2> QED
    BY <2>1 DEF AckInfo
<1>4. timer \in BOOLEAN /\ (held # 0 => timer)
  OBVIOUS
<1> HIDE DEF quick, drop, now, psh, cnt, held, timer, seq
<1>5. Handled(s, n) \in AckInfo
  BY <1>1, <1>2, <1>3, <1>4 DEF AckInfo
<1>6. /\ Handled(s, n).conn = s.conn /\ Handled(s, n).old = FALSE
      /\ Handled(s, n).held = held /\ Handled(s, n).timer = timer
  BY <1>1, <1>2, <1>3, <1>4 DEF AckInfo
<1>7. PassesOn(s, n) <=> Handled(s, n).held = 0
  BY DEF PassesOn
<1> QED
  BY <1>2, <1>4, <1>5, <1>6, <1>7

\* One slot's share of HeldIsTimed and HeldBounds
HeldOK(i) ==
    slot[i].held # 0 =>
      LET c == slot[i].conn IN
      /\ c # None /\ slot[i].timer
      /\ slot[i].held = offered[c] \/ sent[c] = offered[c]
      /\ slot[i].held <= offered[c]

LEMMA IndInvParts ==
  IndInv <=> /\ TypeOK /\ SlotsCounted /\ QuietWhenOld
             /\ \A i \in Slots : HeldOK(i)
             /\ \A c \in Conns : sent[c] <= offered[c]
  BY DEF IndInv, HeldOK, HeldIsTimed, HeldBounds

\* A connection offers the number n, which may go out at once.
Offers(c, n) ==
    /\ n \in Nat /\ offered[c] <= n
    /\ offered' = [offered EXCEPT ![c] = n]
    /\ sent' = sent \/ sent' = [sent EXCEPT ![c] = n]

\* What other connections hold is not touched, and what this one holds may
\* stay if the newer number is sent.
LEMMA HeldStays ==
  ASSUME IndInv, NEW c \in Conns, NEW n, Offers(c, n), NEW j \in Slots,
         slot'[j] = slot[j], slot[j].conn # c \/ sent'[c] = n
  PROVE  HeldOK(j)'
<1> SUFFICES ASSUME slot[j].held # 0 PROVE HeldOK(j)'
  BY DEF HeldOK
<1> DEFINE d == slot[j].conn
<1>1. /\ d \in Conns /\ slot[j].timer /\ slot[j].held <= offered[d]
      /\ slot[j].held = offered[d] \/ sent[d] = offered[d]
      /\ slot[j].held \in Nat
  BY IndInvParts DEF HeldOK, TypeOK, AckInfo
<1>2. offered \in [Conns -> Nat] /\ sent \in [Conns -> Nat]
  BY DEF IndInv, TypeOK
<1>3. CASE d = c
  BY <1>1, <1>2, <1>3, TcpAckAssumption DEF HeldOK, Offers
<1>4. CASE d # c
  BY <1>1, <1>2, <1>4, TcpAckAssumption DEF HeldOK, Offers
<1> QED
  BY <1>3, <1>4

\* The bookkeeping of an offer
LEMMA OfferKeeps ==
  ASSUME IndInv, NEW c \in Conns, NEW n, Offers(c, n)
  PROVE  /\ offered' \in [Conns -> Nat] /\ sent' \in [Conns -> Nat]
         /\ \A d \in Conns : sent'[d] <= offered'[d]
         /\ offered'[c] = n
  BY DEF IndInv, TypeOK, HeldBounds, Offers

\* What passes is the highest number of its connection.
LEMMA TransmitOffered ==
  ASSUME IndInv, NEW c \in Conns, NEW n \in Nat, offered[c] <= n, Transmit(c, n)
  PROVE  sent' = [sent EXCEPT ![c] = n] /\ sent'[c] = n
<1>1. Higher(sent[c], n) = n
  BY DEF IndInv, TypeOK, HeldBounds, Higher
<1>2. sent \in [Conns -> Nat]
  BY DEF IndInv, TypeOK
<1> QED
  BY <1>1, <1>2 DEF Transmit

\* A connection is the owner of the one slot that it has.
LEMMA SweptUnique ==
  ASSUME IndInv, NEW w, SweptWell(w), NEW i \in Slots, NEW j \in Slots,
         w.slot[i].conn = w.slot[j].conn, w.slot[i].conn # None
  PROVE  i = j
<1>1. slot[i].conn = slot[j].conn /\ slot[i].conn # None
  BY DEF SweptWell
<1> QED
  BY <1>1 DEF IndInv, SlotsCounted, Busy

\* Only tcp_ack_update happens to the slots, and the packet passes.
LEMMA SweepKeeps ==
  ASSUME IndInv, NEW c \in Conns, NEW n, NEW sweep \in BOOLEAN,
         Offers(c, n), sent'[c] = n,
         slot' = Swept(sweep).slot, free' = Swept(sweep).free,
         maxNum' = Swept(sweep).maxNum, UNCHANGED <<rx, enable, deinit>>
  PROVE  IndInv'
<1> DEFINE w == Swept(sweep)
<1>1. SweptWell(w)
  BY SweepIsSafe
<1> HIDE DEF w
<1>2. slot' = w.slot /\ free' = w.free /\ maxNum' = w.maxNum
  BY DEF w
<1>3. TypeOK'
  BY <1>1, <1>2, OfferKeeps DEF IndInv, TypeOK, SweptWell
<1>4. SlotsCounted'
  <2>1. \A i, j \in Busy(slot)' : slot'[i].conn = slot'[j].conn => i = j
    BY <1>1, <1>2, SweptUnique DEF Busy
  <2>2. Busy(slot)' = Busy(w.slot)
    BY <1>2 DEF Busy
  <2> QED
    BY <1>1, <1>2, <2>1, <2>2 DEF SlotsCounted, SweptWell
<1>5. QuietWhenOld'
  BY <1>1, <1>2 DEF IndInv, QuietWhenOld, SweptWell
<1>6. ASSUME NEW j \in Slots PROVE HeldOK(j)'
  <2>1. CASE slot'[j] = slot[j]
    BY <2>1, HeldStays
  <2>2. CASE slot'[j] # slot[j]
    BY <1>1, <1>2, <2>2 DEF SweptWell, HeldOK
  <2> QED
    BY <2>1, <2>2
<1>7. \A d \in Conns : sent'[d] <= offered'[d]
  BY OfferKeeps
<1>8. (TypeOK /\ SlotsCounted /\ QuietWhenOld)'
  BY <1>3, <1>4, <1>5
<1> QED
  BY <1>6, <1>7, <1>8 DEF IndInv, HeldOK, HeldIsTimed, HeldBounds

\* tcp_ack_handle_new for the slot i of its connection
LEMMA HandleKeeps ==
  ASSUME IndInv, NEW c \in Conns, NEW n, NEW w, SweptWell(w),
         NEW i \in Slots, w.slot[i].conn = c, Before(w.slot[i].seq, n),
         Offers(c, n),
         Handled(w.slot[i], n).held = 0 => sent'[c] = n,
         slot' = [w.slot EXCEPT ![i] = Handled(@, n)],
         free' = w.free, maxNum' = w.maxNum, UNCHANGED <<rx, enable, deinit>>
  PROVE  IndInv'
<1> DEFINE h == Handled(w.slot[i], n)
<1>1. w.slot \in [Slots -> AckInfo] /\ n \in Nat /\ c # None
  BY TcpAckAssumption DEF SweptWell, Offers
<1>2. /\ h \in AckInfo /\ h.conn = c /\ h.old = FALSE
      /\ h.held \in {0, n} /\ (h.held # 0 => h.timer)
  BY <1>1, HandledNewer
<1>3. h.held = 0 => sent'[c] = n
  OBVIOUS
<1>4. slot' = [w.slot EXCEPT ![i] = h]
  OBVIOUS
<1> HIDE DEF h
<1>5. slot' \in [Slots -> AckInfo]
  BY <1>1, <1>2, <1>4
<1>6. \A j \in Slots : slot'[j] = (IF j = i THEN h ELSE w.slot[j])
  BY <1>1, <1>4
<1>7. \A j \in Slots : slot'[j].conn = w.slot[j].conn
  BY <1>2, <1>6
<1>8. TypeOK'
  BY <1>5, OfferKeeps DEF IndInv, TypeOK, SweptWell
<1>9. SlotsCounted'
  <2>1. \A j, k \in Busy(slot)' : slot'[j].conn = slot'[k].conn => j = k
    BY <1>7, SweptUnique DEF Busy
  <2>2. Busy(slot)' = Busy(w.slot)
    BY <1>7 DEF Busy
  <2> QED
    BY <2>1, <2>2 DEF SlotsCounted, SweptWell
<1>10. QuietWhenOld'
  BY <1>2, <1>6 DEF IndInv, QuietWhenOld, SweptWell
<1>11. ASSUME NEW j \in Slots PROVE HeldOK(j)'
  <2>1. CASE j = i
    BY <1>1, <1>2, <1>6, <2>1, OfferKeeps DEF HeldOK
  <2>2. CASE j # i /\ slot'[j] # slot[j]
    BY <1>6, <2>2 DEF SweptWell, HeldOK
  <2>3. CASE j # i /\ slot'[j] = slot[j]
    <3>1. slot[j].conn # c
      BY <1>1, <1>6, <2>3, SweptUnique
    <3> QED
      BY <2>3, <3>1, HeldStays
  <2> QED
    BY <2>1, <2>2, <2>3
<1>12. \A d \in Conns : sent'[d] <= offered'[d]
  BY OfferKeeps
<1> QED
  BY <1>8, <1>9, <1>10, <1>11, <1>12 DEF IndInv, HeldOK, HeldIsTimed, HeldBounds

\* tcp_ack_handle for a connection without a slot, when there is a free one
LEMMA TakeKeeps ==
  ASSUME IndInv, NEW c \in Conns, NEW n, NEW w, SweptWell(w),
         NEW i \in Slots \ Busy(w.slot),
         \A j \in Slots : w.slot[j].conn # c,
         Offers(c, n), sent'[c] = n,
         slot' = [w.slot EXCEPT ![i] = Taken(@, c, n)],
         free' = 0, maxNum' = w.maxNum + 1, UNCHANGED <<rx, enable, deinit>>
  PROVE  IndInv'
<1> DEFINE t == Taken(w.slot[i], c, n)
<1>1. /\ w.slot \in [Slots -> AckInfo] /\ n \in Nat /\ c # None
      /\ w.slot[i] \in AckInfo /\ w.slot[i].conn = None
  BY TcpAckAssumption DEF SweptWell, Offers, Busy
<1>2. w.slot[i].held = 0
  BY <1>1 DEF SweptWell, IndInv, HeldIsTimed
<1>3. n % Wrap \in 0..(Wrap - 1) /\ MaxDrop \in Nat
  BY <1>1, ModRange, TcpAckAssumption
<1>4. t \in AckInfo
  BY <1>1, <1>3 DEF Taken, AckInfo
<1>5. t.conn = c /\ t.old = FALSE /\ t.held = 0
  BY <1>1, <1>2 DEF Taken, AckInfo
<1>6. slot' = [w.slot EXCEPT ![i] = t]
  OBVIOUS
<1> HIDE DEF t
<1>7. slot' \in [Slots -> AckInfo]
  BY <1>1, <1>4, <1>6
<1>8. \A j \in Slots : slot'[j] = (IF j = i THEN t ELSE w.slot[j])
  BY <1>1, <1>6
<1>9. Busy(slot)' = Busy(w.slot) \cup {i}
  BY <1>1, <1>5, <1>8 DEF Busy
<1>10. TypeOK'
  BY <1>7, OfferKeeps DEF IndInv, TypeOK, SweptWell
<1>11. SlotsCounted'
  <2>1. Cardinality(Busy(slot)') = Cardinality(Busy(w.slot)) + 1
    BY <1>9, BusyFinite, FS_AddElement
  <2>2. 0 \notin Busy(slot)'
    BY <1>9, TcpAckAssumption DEF Busy, Slots
  <2>3. ASSUME NEW j \in Busy(slot)', NEW k \in Busy(slot)',
               slot'[j].conn = slot'[k].conn
        PROVE  j = k
    BY <1>1, <1>5, <1>8, <2>3, SweptUnique DEF Busy
  <2> QED
    BY <2>1, <2>2, <2>3 DEF SlotsCounted, SweptWell
<1>12. QuietWhenOld'
  BY <1>5, <1>8 DEF IndInv, QuietWhenOld, SweptWell
<1>13. ASSUME NEW j \in Slots PROVE HeldOK(j)'
  <2>1. CASE j = i
    BY <1>5, <1>8, <2>1 DEF HeldOK
  <2>2. CASE j # i /\ slot'[j] # slot[j]
    BY <1>8, <2>2 DEF SweptWell, HeldOK
  <2>3. CASE j # i /\ slot'[j] = slot[j]
    BY <2>3, HeldStays
  <2> QED
    BY <2>1, <2>2, <2>3
<1>14. \A d \in Conns : sent'[d] <= offered'[d]
  BY OfferKeeps
<1> QED
  BY <1>10, <1>11, <1>12, <1>13, <1>14
  DEF IndInv, HeldOK, HeldIsTimed, HeldBounds

\* What a step of the transmit path is to AckStream
LEMMA XmitOffers ==
  ASSUME IndInv, NEW c \in Conns, Xmit(c) \/ XmitData(c)
  PROVE  \E n : Offers(c, n)
<1>1. /\ offered \in [Conns -> Nat] /\ sent \in [Conns -> Nat]
      /\ \A n \in offered[c]..(offered[c] + 1) : n \in Nat /\ offered[c] <= n
  BY DEF IndInv, TypeOK
<1>2. ASSUME NEW n \in offered[c]..(offered[c] + 1), NEW sweep \in BOOLEAN,
             SendAck(c, n, sweep)
      PROVE  Offers(c, n)
  <2>1. Transmit(c, n) \/ sent' = sent
    BY <1>2 DEF SendAck
  <2> QED
    BY <1>1, <1>2, <2>1, TransmitOffered DEF Offers, SendAck
<1>3. CASE Xmit(c)
  BY <1>2, <1>3 DEF Xmit
<1>4. CASE XmitData(c)
  BY <1>1, <1>4, TransmitOffered DEF Offers, XmitData
<1> QED
  BY <1>3, <1>4

\* filter_send_tcp_ack keeps the invariant.
LEMMA SendAckKeeps ==
  ASSUME IndInv, NEW c \in Conns, NEW n \in offered[c]..(offered[c] + 1),
         NEW sweep \in BOOLEAN, InWindow(c, n), SendAck(c, n, sweep)
  PROVE  IndInv'
<1> DEFINE w == Swept(sweep)
           match == {i \in Slots : w.slot[i].conn = c}
           i == Least(match)
<1>1. SweptWell(w)
  BY SweepIsSafe
<1>2. n \in Nat /\ offered[c] <= n /\ c # None
  BY TcpAckAssumption DEF IndInv, TypeOK
<1>3. \A j \in match : Before(w.slot[j].seq, n)
  BY <1>1, <1>2 DEF SweptWell, InWindow
<1>4. offered' = [offered EXCEPT ![c] = n] /\ UNCHANGED <<rx, enable, deinit>>
  BY DEF SendAck
<1>5. match \in SUBSET Slots
  OBVIOUS
<1>6. CASE match # {} /\ enable
  <2>1. /\ slot' = [w.slot EXCEPT ![i] = Handled(@, n)]
        /\ IF PassesOn(w.slot[i], n) THEN Transmit(c, n) ELSE UNCHANGED sent
        /\ free' = w.free /\ maxNum' = w.maxNum
    BY <1>6 DEF SendAck
  <2>2. i \in match
    BY <1>5, <1>6, LeastIn
  <2>3. w.slot[i].conn = c /\ i \in Slots /\ Before(w.slot[i].seq, n)
    BY <1>3, <2>2
  <2>4. w.slot[i] \in AckInfo
    BY <1>1, <2>3 DEF SweptWell
  <2> HIDE DEF w, match, i
  <2>5. PassesOn(w.slot[i], n) <=> Handled(w.slot[i], n).held = 0
    BY <1>2, <2>3, <2>4, HandledNewer
  <2>6. Offers(c, n) /\ (Handled(w.slot[i], n).held = 0 => sent'[c] = n)
    BY <1>2, <1>4, <2>1, <2>5, TransmitOffered DEF Offers
  <2> QED
    BY <1>1, <1>4, <2>1, <2>3, <2>6, HandleKeeps
<1>7. CASE ~(match # {} /\ enable)
  <2>1. Transmit(c, n)
    BY <1>7 DEF SendAck
  <2>2. Offers(c, n) /\ sent'[c] = n
    BY <1>2, <1>4, <2>1, TransmitOffered DEF Offers
  <2>3. CASE match # {} \/ w.maxNum = Cardinality(Slots)
    <3>1. slot' = w.slot /\ free' = w.free /\ maxNum' = w.maxNum
      BY <1>7, <2>3 DEF SendAck
    <3> QED
      BY <1>4, <2>2, <3>1, SweepKeeps
  <2>4. CASE ~(match # {} \/ w.maxNum = Cardinality(Slots))
    <3>1. /\ slot' = [w.slot EXCEPT ![Allocated(w)] = Taken(@, c, n)]
          /\ free' = 0 /\ maxNum' = w.maxNum + 1
      BY <1>7, <2>4 DEF SendAck
    <3>2. \A j \in Slots : w.slot[j].conn # c
      BY <2>4
    <3> HIDE DEF w
    <3>3. Allocated(w) \in Slots \ Busy(w.slot)
      BY <1>1, <2>4, AllocatedIsFree
    <3> QED
      BY <1>1, <1>4, <2>2, <3>1, <3>2, <3>3, TakeKeeps
  <2> QED
    BY <2>3, <2>4
<1> QED
  BY <1>6, <1>7

\* The transmit path keeps it.
LEMMA XmitKeeps ==
  ASSUME IndInv, NEW c \in Conns, Xmit(c) \/ XmitData(c)
  PROVE  IndInv'
<1>1. CASE Xmit(c)
  BY <1>1, SendAckKeeps DEF Xmit
<1>2. CASE XmitData(c)
  <2>1. PICK n \in offered[c]..(offered[c] + 1), sweep \in BOOLEAN :
          /\ slot' = Swept(sweep).slot /\ free' = Swept(sweep).free
          /\ maxNum' = Swept(sweep).maxNum
          /\ offered' = [offered EXCEPT ![c] = n] /\ Transmit(c, n)
          /\ UNCHANGED <<rx, enable, deinit>>
    BY <1>2 DEF XmitData
  <2>2. n \in Nat /\ offered[c] <= n
    BY DEF IndInv, TypeOK
  <2>3. Offers(c, n) /\ sent'[c] = n
    BY <2>1, <2>2, TransmitOffered DEF Offers
  <2> QED
    BY <2>1, <2>3, SweepKeeps
<1> QED
  BY <1>1, <1>2
----------------------------------------------------------------------------
(***************************************************************************)
(* The other steps                                                         *)
(***************************************************************************)
\* A step that changes no slot's connection
ConnsKept ==
    /\ \A i \in Slots : slot'[i].conn = slot[i].conn
    /\ UNCHANGED <<free, maxNum>>

LEMMA CountKept == IndInv /\ ConnsKept => SlotsCounted'
<1> SUFFICES ASSUME IndInv, ConnsKept PROVE SlotsCounted'
  OBVIOUS
<1>1. Busy(slot)' = Busy(slot)
  BY DEF Busy, ConnsKept
<1> QED
  BY <1>1 DEF IndInv, SlotsCounted, ConnsKept, Busy

\* A timer that expires leaves its slot empty and quiet.
LEMMA TimeoutSlot ==
  ASSUME IndInv, NEW i \in Slots, Timeout(i)
  PROVE  \E d \in Nat : slot' = [slot EXCEPT ![i] =
           [slot[i] EXCEPT !.timer = FALSE, !.held = 0, !.dropCnt = d]]
<1>1. slot \in [Slots -> AckInfo] /\ slot[i] \in AckInfo
  BY DEF IndInv, TypeOK
<1>2. CASE slot[i].conn # None /\ slot[i].held # 0
  <2>1. slot' = [slot EXCEPT ![i] =
                  [slot[i] EXCEPT !.timer = FALSE, !.held = 0, !.dropCnt = 0]]
    BY <1>1, <1>2 DEF Timeout
  <2> QED
    BY <2>1
<1>3. CASE ~(slot[i].conn # None /\ slot[i].held # 0)
  <2>1. slot[i].held = 0
    BY <1>3 DEF IndInv, HeldIsTimed
  <2>2. slot' = [slot EXCEPT ![i] = [slot[i] EXCEPT !.timer = FALSE,
                   !.held = slot[i].held, !.dropCnt = slot[i].dropCnt]]
    BY <1>1, <1>3 DEF Timeout
  <2>3. slot[i].dropCnt \in Nat
    BY <1>1 DEF AckInfo
  <2>4. slot' = [slot EXCEPT ![i] = [slot[i] EXCEPT !.timer = FALSE,
                   !.held = 0, !.dropCnt = slot[i].dropCnt]]
    BY <2>1, <2>2
  <2> QED
    BY <2>3, <2>4
<1> QED
  BY <1>2, <1>3

\* It sends what the slot held, which is the highest number of its connection
\* or has been overtaken by it.
LEMMA TimeoutSends ==
  ASSUME IndInv, NEW i \in Slots, Timeout(i)
  PROVE  \/ sent' = sent
         \/ \E c \in Conns : /\ sent[c] < offered[c]
                             /\ sent' = [sent EXCEPT ![c] = offered[c]]
<1> DEFINE c == slot[i].conn
<1>1. /\ slot[i] \in AckInfo
      /\ sent \in [Conns -> Nat] /\ offered \in [Conns -> Nat]
  BY DEF IndInv, TypeOK
<1>2. CASE c # None /\ slot[i].held # 0
  <2>1. Transmit(c, slot[i].held)
    BY <1>2 DEF Timeout
  <2>2. /\ c \in Conns /\ slot[i].held <= offered[c] /\ sent[c] <= offered[c]
        /\ slot[i].held = offered[c] \/ sent[c] = offered[c]
        /\ slot[i].held \in Nat
    BY <1>1, <1>2 DEF IndInv, HeldIsTimed, HeldBounds, AckInfo
  <2>3. Higher(sent[c], slot[i].held) = offered[c]
    BY <1>1, <2>2 DEF Higher
  <2> HIDE DEF c
  <2>4. sent' = [sent EXCEPT ![c] = offered[c]]
    BY <2>1, <2>3 DEF Transmit
  <2>5. CASE sent[c] = offered[c]
    BY <1>1, <2>2, <2>4, <2>5
  <2>6. CASE sent[c] < offered[c]
    BY <2>2, <2>4, <2>6
  <2> QED
    BY <1>1, <2>2, <2>5, <2>6
<1>3. CASE ~(c # None /\ slot[i].held # 0)
  BY <1>3 DEF Timeout
<1> QED
  BY <1>2, <1>3

LEMMA TimeoutKeeps ==
  ASSUME IndInv, NEW i \in Slots, Timeout(i)
  PROVE  IndInv'
<1>a. PICK d \in Nat : slot' = [slot EXCEPT ![i] =
        [slot[i] EXCEPT !.timer = FALSE, !.held = 0, !.dropCnt = d]]
  BY TimeoutSlot
<1> DEFINE t == [slot[i] EXCEPT !.timer = FALSE, !.held = 0, !.dropCnt = d]
<1>1. /\ slot \in [Slots -> AckInfo] /\ slot[i] \in AckInfo
      /\ sent \in [Conns -> Nat] /\ offered \in [Conns -> Nat]
      /\ \A c \in Conns : sent[c] <= offered[c]
  BY DEF IndInv, TypeOK, HeldBounds
<1>2. slot' = [slot EXCEPT ![i] = t]
  BY <1>a
<1>3. UNCHANGED <<free, maxNum, offered, rx, enable, deinit>>
  BY DEF Timeout
<1>4. t \in AckInfo /\ t.conn = slot[i].conn /\ t.old = slot[i].old
      /\ t.held = 0 /\ t.timer = FALSE
  BY <1>1, <1>2 DEF AckInfo
<1> HIDE DEF t
<1>5. /\ sent' \in [Conns -> Nat]
      /\ \A c \in Conns : /\ sent[c] <= sent'[c] /\ sent'[c] <= offered[c]
                          /\ sent[c] = offered[c] => sent'[c] = offered[c]
  <2>1. CASE sent' = sent
    BY <1>1, <2>1
  <2>2. CASE \E c \in Conns : /\ sent[c] < offered[c]
                              /\ sent' = [sent EXCEPT ![c] = offered[c]]
    BY <1>1, <2>2
  <2> QED
    BY <2>1, <2>2, TimeoutSends
<1>6. \A j \in Slots : slot'[j] = (IF j = i THEN t ELSE slot[j])
  BY <1>1, <1>2
<1>7. slot' \in [Slots -> AckInfo]
  BY <1>1, <1>2, <1>4
<1>8. TypeOK'
  BY <1>3, <1>5, <1>7 DEF IndInv, TypeOK
<1>9. SlotsCounted'
  BY <1>3, <1>4, <1>6, CountKept DEF ConnsKept
<1>10. QuietWhenOld'
  BY <1>4, <1>6 DEF IndInv, QuietWhenOld
<1>11. ASSUME NEW j \in Slots PROVE HeldOK(j)'
  <2>1. CASE j = i
    BY <1>4, <1>6, <2>1 DEF HeldOK
  <2>2. CASE j # i
    <3>1. slot'[j] = slot[j] /\ slot[j] \in AckInfo
      BY <1>1, <1>6, <2>2
    <3>2. slot[j].conn # None => slot[j].conn \in Conns
      BY <3>1 DEF AckInfo
    <3>3. HeldOK(j)
      BY IndInvParts
    <3> QED
      BY <1>3, <1>5, <3>1, <3>2, <3>3 DEF HeldOK
  <2> QED
    BY <2>1, <2>2
<1>12. \A c \in Conns : sent'[c] <= offered'[c]
  BY <1>3, <1>5
<1> QED
  BY <1>8, <1>9, <1>10, <1>11, <1>12
  DEF IndInv, HeldOK, HeldIsTimed, HeldBounds

\* A step that sends nothing and leaves what the slots hold, or empties them
LEMMA QuietStepKeeps ==
  ASSUME IndInv, slot' \in [Slots -> AckInfo], ConnsKept,
         \A i \in Slots :
            /\ \/ slot'[i].held = 0
               \/ slot'[i].held = slot[i].held /\ slot'[i].timer = slot[i].timer
            /\ slot'[i].old => slot[i].conn # None /\ ~slot'[i].timer,
         rx' \in {None} \cup [i : Slots, seq : 0..(Wrap - 1)],
         enable' \in BOOLEAN, deinit' \subseteq Slots,
         UNCHANGED <<offered, sent>>
  PROVE  IndInv'
<1>1. TypeOK'
  BY DEF IndInv, TypeOK, ConnsKept
<1>2. SlotsCounted'
  BY CountKept
<1>3. HeldIsTimed' /\ HeldBounds'
  BY DEF IndInv, HeldIsTimed, HeldBounds, ConnsKept
<1>4. QuietWhenOld'
  BY DEF QuietWhenOld, ConnsKept
<1> QED
  BY <1>1, <1>2, <1>3, <1>4 DEF IndInv

\* The steps of time, of the busrx thread and of the removal keep it.
LEMMA OtherStepsKeep ==
  ASSUME IndInv,
         \/ \E c \in Conns : RxMatch(c)
         \/ \E i \in Slots : Age(i)
         \/ RxMark \/ Deinit \/ DeinitSlot
  PROVE  IndInv'
<1>1. /\ slot \in [Slots -> AckInfo] /\ \A i \in Slots : slot[i] \in AckInfo
      /\ rx \in {None} \cup [i : Slots, seq : 0..(Wrap - 1)]
      /\ enable \in BOOLEAN /\ deinit \subseteq Slots
      /\ \A i \in Slots : slot[i].old => slot[i].conn # None /\ ~slot[i].timer
  BY DEF IndInv, TypeOK, QuietWhenOld
<1>2. ASSUME NEW c \in Conns, RxMatch(c) PROVE IndInv'
  <2>1. PICK i \in Slots, ahead \in 0..1 :
          rx' = [i |-> i, seq |-> (slot[i].seq + ahead) % Wrap]
    BY <1>2 DEF RxMatch
  <2>2. slot[i].seq + ahead \in Int
    BY <1>1 DEF AckInfo
  <2>3. rx' \in [i : Slots, seq : 0..(Wrap - 1)]
    BY <2>1, <2>2, ModRange
  <2> QED
    BY <1>1, <1>2, <2>3, QuietStepKeeps DEF RxMatch, ConnsKept
<1>3. ASSUME NEW i \in Slots, Age(i) PROVE IndInv'
  <2> DEFINE t == [slot[i] EXCEPT !.old = TRUE]
  <2>1. /\ t \in AckInfo /\ t.conn = slot[i].conn /\ t.held = slot[i].held
        /\ t.timer = slot[i].timer
    BY <1>1 DEF AckInfo
  <2>2. slot' = [slot EXCEPT ![i] = t] /\ slot[i].conn # None /\ ~slot[i].timer
    BY <1>3 DEF Age
  <2> HIDE DEF t
  <2>3. slot' \in [Slots -> AckInfo]
    BY <1>1, <2>1, <2>2
  <2>4. \A j \in Slots : slot'[j] = (IF j = i THEN t ELSE slot[j])
    BY <1>1, <2>2
  <2> QED
    BY <1>1, <1>3, <2>1, <2>2, <2>3, <2>4, QuietStepKeeps DEF Age, ConnsKept
<1>4. CASE RxMark
  <2> DEFINE t == [slot[rx.i] EXCEPT !.psh = rx.seq]
  <2>1. rx.i \in Slots /\ rx.seq \in 0..(Wrap - 1)
    BY <1>1, <1>4 DEF RxMark
  <2>2. /\ t \in AckInfo /\ t.conn = slot[rx.i].conn /\ t.held = slot[rx.i].held
        /\ t.timer = slot[rx.i].timer /\ t.old = slot[rx.i].old
    BY <1>1, <2>1 DEF AckInfo
  <2>3. slot' = [slot EXCEPT ![rx.i] = t]
    BY <1>4 DEF RxMark
  <2> HIDE DEF t
  <2>4. slot' \in [Slots -> AckInfo]
    BY <1>1, <2>1, <2>2, <2>3
  <2>5. \A j \in Slots : slot'[j] = (IF j = rx.i THEN t ELSE slot[j])
    BY <1>1, <2>3
  <2> QED
    BY <1>1, <1>4, <2>1, <2>2, <2>4, <2>5, QuietStepKeeps DEF RxMark, ConnsKept
<1>5. CASE Deinit
  BY <1>1, <1>5, QuietStepKeeps DEF Deinit, ConnsKept
<1>6. CASE DeinitSlot
  <2> DEFINE i == Least(deinit)
             t == [slot[i] EXCEPT !.timer = FALSE, !.held = 0]
  <2>1. i \in Slots
    BY <1>1, <1>6, LeastIn DEF DeinitSlot
  <2>2. slot' = [slot EXCEPT ![i] = t]
    BY <1>1, <1>6, <2>1 DEF DeinitSlot
  <2>3. deinit' \subseteq Slots /\ UNCHANGED <<free, maxNum, offered, sent, rx, enable>>
    BY <1>1, <1>6 DEF DeinitSlot
  <2> HIDE DEF i
  <2>4. /\ t \in AckInfo /\ t.conn = slot[i].conn /\ t.held = 0
        /\ t.timer = FALSE /\ t.old = slot[i].old
    BY <1>1, <2>1 DEF AckInfo
  <2> HIDE DEF t
  <2>5. slot' \in [Slots -> AckInfo]
    BY <1>1, <2>1, <2>2, <2>4
  <2>6. \A j \in Slots : slot'[j] = (IF j = i THEN t ELSE slot[j])
    BY <1>1, <2>2
  <2> QED
    BY <1>1, <2>3, <2>4, <2>5, <2>6, QuietStepKeeps DEF ConnsKept
<1> QED
  BY <1>2, <1>3, <1>4, <1>5, <1>6

\* Every step keeps the invariant.
LEMMA NextKeeps == IndInv /\ [Next]_vars => IndInv'
<1> SUFFICES ASSUME IndInv, [Next]_vars PROVE IndInv'
  OBVIOUS
<1>1. ASSUME NEW c \in Conns, Xmit(c) \/ XmitData(c) PROVE IndInv'
  BY <1>1, XmitKeeps
<1>2. ASSUME NEW i \in Slots, Timeout(i) PROVE IndInv'
  BY <1>2, TimeoutKeeps
<1>3. CASE \/ \E c \in Conns : RxMatch(c)
           \/ \E i \in Slots : Age(i)
           \/ RxMark \/ Deinit \/ DeinitSlot
  BY <1>3, OtherStepsKeep
<1>4. CASE UNCHANGED vars
  BY <1>4 DEF vars, IndInv, TypeOK, SlotsCounted, HeldIsTimed, QuietWhenOld,
              HeldBounds, Busy
<1> QED
  BY <1>1, <1>2, <1>3, <1>4 DEF Next

LEMMA AlwaysIndInv == Spec => []IndInv
<1>1. Init => IndInv
  BY InitIndInv
<1>2. IndInv /\ [Next]_vars => IndInv'
  BY NextKeeps
<1> QED
  BY <1>1, <1>2, PTL DEF Spec
----------------------------------------------------------------------------
(***************************************************************************)
(* max_num and free_index agree with the busy slots, and no connection has *)
(* two, however the sweeps of tcp_ack_update fall between the calls of     *)
(* tcp_ack_handle.                                                         *)
(***************************************************************************)
THEOREM SlotsAlwaysCounted == Spec => []SlotsCounted
<1>1. IndInv => SlotsCounted
  BY DEF IndInv
<1> QED
  BY <1>1, AlwaysIndInv, PTL

(***************************************************************************)
(* What a slot holds has a running timer and is not lost by a sweep, a     *)
(* newer acknowledgement or a new owner of the slot.                       *)
(***************************************************************************)
THEOREM HeldAlwaysTimed == Spec => []HeldIsTimed
<1>1. IndInv => HeldIsTimed
  BY DEF IndInv
<1> QED
  BY <1>1, AlwaysIndInv, PTL

(***************************************************************************)
(* The filter only thins: what goes out late is the highest number of its  *)
(* connection, and nothing is sent that the stack did not offer.           *)
(***************************************************************************)
THEOREM FilterThins == Spec => ImplementsStream
<1>1. Init => Stream!Init
  BY TcpAckAssumption DEF Init, Stream!Init
<1>2. IndInv /\ [Next]_vars => [Stream!Next]_<<offered, sent>>
  <2> SUFFICES ASSUME IndInv, [Next]_vars
               PROVE  Stream!Next \/ UNCHANGED <<offered, sent>>
    OBVIOUS
  <2>1. ASSUME NEW c \in Conns, Xmit(c) \/ XmitData(c) PROVE Stream!Next
    <3>1. PICK n : Offers(c, n)
      BY <2>1, XmitOffers
    <3>2. offered \in [Conns -> Nat]
      BY DEF IndInv, TypeOK
    <3>3. offered' \in [Conns -> Nat] /\ offered'[c] = n
      BY <3>1, OfferKeeps
    <3>4. Stream!Raised(offered, offered', c)
      BY <3>1, <3>2 DEF Offers, Stream!Raised
    <3>5. sent' \in {sent, [sent EXCEPT ![c] = offered'[c]]}
      BY <3>1, <3>3 DEF Offers
    <3> QED
      BY <3>3, <3>4, <3>5 DEF Stream!Next, Stream!Offer
  <2>2. ASSUME NEW i \in Slots, Timeout(i)
        PROVE  Stream!Next \/ UNCHANGED <<offered, sent>>
    <3>1. offered' = offered
      BY <2>2 DEF Timeout
    <3> QED
      BY <2>2, <3>1, TimeoutSends DEF Stream!Next, Stream!Send
  <2>3. CASE \/ \E c \in Conns : RxMatch(c)
             \/ \E i \in Slots : Age(i)
             \/ RxMark \/ Deinit \/ DeinitSlot
    BY <2>3 DEF RxMatch, Age, RxMark, Deinit, DeinitSlot
  <2>4. CASE UNCHANGED vars
    BY <2>4 DEF vars
  <2> QED
    BY <2>1, <2>2, <2>3, <2>4 DEF Next
<1> QED
  BY <1>1, <1>2, AlwaysIndInv, PTL
  DEF Spec, ImplementsStream, Stream!Spec, Stream!ackVars
=============================================================================
