--------------------------- MODULE TxQueue_proofs ---------------------------
(***************************************************************************)
(* The transmit queues of a station, for any queues, frames and credits:   *)
(* as long as nothing runs inside rwnx_txdatacfm and no credits wrap, the  *)
(* hardware lists are exact, no BUG_ON is met, frames to retry come first, *)
(* a sleeping station is sent only what it was granted, and its counters   *)
(* agree with the queues.                                                  *)
(***************************************************************************)
EXTENDS TxQueue, TLAPS, OrderFacts, SequenceTheorems

-----------------------------------------------------------------------------
(* What the theorems suppose, and nothing in the code ensures: no step of  *)
(* another thread or of a softirq falls inside rwnx_txdatacfm, and no      *)
(* retry finds the credits of its queue at the largest value of an s8.     *)
Interrupts == rx.pc # "idle" /\ UNCHANGED rx

Wraps == \E f \in Frames : CfmRetry(f) /\ tx[Tid[f]].credits = CreditMax

Undisturbed == ~Interrupts /\ ~Wraps

-----------------------------------------------------------------------------
(* Lists of frames.                                                        *)

\* No frame is in the list twice.
Apart(l) == \A i, j \in 1..Len(l) : l[i] = l[j] => i = j

LEMMA Elements ==
  ASSUME NEW S, NEW l \in Seq(S)
  PROVE  /\ Len(l) \in Nat /\ DOMAIN l = 1..Len(l)
         /\ \A i \in 1..Len(l) : l[i] \in S /\ l[i] \in ToSet(l)
         /\ \A f \in ToSet(l) : \E i \in 1..Len(l) : l[i] = f
         /\ ToSet(l) \subseteq S
         /\ l # <<>> <=> Len(l) > 0
<1>1. Len(l) \in Nat /\ l \in [1..Len(l) -> S] /\ DOMAIN l = 1..Len(l)
  BY LenProperties
<1>2. l # <<>> => Len(l) > 0
  BY EmptySeq
<1>3. Len(l) > 0 => l # <<>>
  BY EmptySeq
<1> QED
  BY <1>1, <1>2, <1>3 DEF ToSet

\* rwnx_txq_queue_skb appends.
LEMMA Appended ==
  ASSUME NEW l \in Seq(Frames), Apart(l), NEW f \in Frames, f \notin ToSet(l)
  PROVE  /\ Append(l, f) \in Seq(Frames) /\ Len(Append(l, f)) = Len(l) + 1
         /\ Apart(Append(l, f)) /\ ToSet(Append(l, f)) = ToSet(l) \cup {f}
         /\ \A i \in 1..Len(l) : Append(l, f)[i] = l[i]
<1> DEFINE a == Append(l, f)
<1>1. /\ a \in Seq(Frames) /\ Len(a) = Len(l) + 1
      /\ \A i \in 1..Len(l) : a[i] = l[i]
      /\ a[Len(l) + 1] = f
  BY AppendProperties
<1> HIDE DEF a
<1>2. /\ Len(l) \in Nat /\ DOMAIN l = 1..Len(l)
      /\ \A i \in 1..Len(l) : l[i] \in ToSet(l)
      /\ \A g \in ToSet(l) : \E i \in 1..Len(l) : l[i] = g
  BY Elements
<1>3. /\ DOMAIN a = 1..Len(a)
      /\ \A i \in 1..Len(a) : a[i] \in ToSet(a)
      /\ \A g \in ToSet(a) : \E i \in 1..Len(a) : a[i] = g
  BY <1>1, Elements
<1>4. Apart(a)
  <2> SUFFICES ASSUME NEW i \in 1..Len(a), NEW j \in 1..Len(a), a[i] = a[j]
               PROVE  i = j
    BY DEF Apart
  <2>1. CASE i \in 1..Len(l) /\ j \in 1..Len(l)
    BY <2>1, <1>1 DEF Apart
  <2>2. i \in 1..Len(l) \/ i = Len(l) + 1
    BY <1>1, <1>2
  <2>3. j \in 1..Len(l) \/ j = Len(l) + 1
    BY <1>1, <1>2
  <2> QED
    BY <2>1, <2>2, <2>3, <1>1, <1>2
<1>5. ToSet(a) \subseteq ToSet(l) \cup {f}
  BY <1>1, <1>2, <1>3
<1>6. ToSet(l) \cup {f} \subseteq ToSet(a)
  BY <1>1, <1>2, <1>3
<1> QED
  BY <1>1, <1>4, <1>5, <1>6 DEF a

\* rwnx_hwq_process takes the first n.
LEMMA Rest ==
  ASSUME NEW l \in Seq(Frames), Apart(l), NEW n \in 0..Len(l)
  PROVE  LET rest == SubSeq(l, n + 1, Len(l)) IN
         /\ rest \in Seq(Frames) /\ Len(rest) = Len(l) - n
         /\ Apart(rest)
         /\ \A i \in 1..(Len(l) - n) : rest[i] = l[n + i]
         /\ ToSet(rest) \subseteq ToSet(l)
         /\ ToSet(SubSeq(l, 1, n)) \subseteq ToSet(l)
         /\ ToSet(rest) \cap ToSet(SubSeq(l, 1, n)) = {}
<1> DEFINE rest == SubSeq(l, n + 1, Len(l))
           front == SubSeq(l, 1, n)
<1>1. /\ Len(l) \in Nat /\ \A i \in 1..Len(l) : l[i] \in Frames /\ l[i] \in ToSet(l)
  BY Elements
<1>2. /\ rest \in Seq(Frames) /\ Len(rest) = Len(l) - n
      /\ \A i \in 1..(Len(l) - n) : rest[i] = l[n + i]
  <2>1. \A i \in (n + 1)..Len(l) : l[i] \in Frames
    BY <1>1
  <2>2. /\ rest \in Seq(Frames)
        /\ Len(rest) = IF n + 1 <= Len(l) THEN Len(l) - (n + 1) + 1 ELSE 0
        /\ \A i \in 1..(Len(l) - (n + 1) + 1) : rest[i] = l[(n + 1) + i - 1]
    BY <1>1, <2>1, SubSeqProperties
  <2> HIDE DEF rest
  <2> QED
    BY <1>1, <2>2
<1>3. /\ front \in Seq(Frames) /\ Len(front) = n
      /\ \A i \in 1..n : front[i] = l[i]
  <2>1. \A i \in 1..n : l[i] \in Frames
    BY <1>1
  <2>2. /\ front \in Seq(Frames)
        /\ Len(front) = IF 1 <= n THEN n - 1 + 1 ELSE 0
        /\ \A i \in 1..(n - 1 + 1) : front[i] = l[1 + i - 1]
    BY <1>1, <2>1, SubSeqProperties
  <2> HIDE DEF front
  <2> QED
    BY <1>1, <2>2
<1> HIDE DEF rest, front
<1>4. \A g \in ToSet(rest) : \E i \in 1..(Len(l) - n) : g = l[n + i]
  <2>1. ASSUME NEW g \in ToSet(rest)
        PROVE  \E i \in 1..(Len(l) - n) : g = l[n + i]
    <3>1. PICK i \in 1..Len(rest) : rest[i] = g
      BY <1>2, Elements
    <3> QED
      BY <1>2, <3>1
  <2> QED
    BY <2>1
<1>5. \A g \in ToSet(front) : \E i \in 1..n : g = l[i]
  BY <1>3, Elements
<1>6. ToSet(rest) \cap ToSet(front) = {}
  BY <1>1, <1>4, <1>5 DEF Apart
<1>7. Apart(rest)
  BY <1>1, <1>2 DEF Apart
<1>8. ToSet(rest) \subseteq ToSet(l) /\ ToSet(front) \subseteq ToSet(l)
  BY <1>1, <1>4, <1>5
<1> QED
  BY <1>2, <1>6, <1>7, <1>8 DEF rest, front

\* skb_append behind position k, skb_queue_head for k = 0.
LEMMA Inserted ==
  ASSUME NEW l \in Seq(Frames), Apart(l), NEW f \in Frames, f \notin ToSet(l),
         NEW k \in 0..Len(l)
  PROVE  LET a == InsertAt(l, k + 1, f) IN
         /\ a \in Seq(Frames) /\ Len(a) = Len(l) + 1
         /\ Apart(a) /\ ToSet(a) = ToSet(l) \cup {f}
         /\ \A i \in 1..k : a[i] = l[i]
         /\ a[k + 1] = f
<1> DEFINE a == InsertAt(l, k + 1, f)
           p == SubSeq(l, 1, k)
           r == SubSeq(l, k + 1, Len(l))
           m == p \o <<f>>
<1>1. /\ Len(l) \in Nat /\ \A i \in 1..Len(l) : l[i] \in Frames /\ l[i] \in ToSet(l)
      /\ \A g \in ToSet(l) : \E i \in 1..Len(l) : l[i] = g
  BY Elements
<1>2. p \in Seq(Frames) /\ Len(p) = k /\ \A i \in 1..k : p[i] = l[i]
  <2>1. \A i \in 1..k : l[i] \in Frames
    BY <1>1
  <2>2. /\ p \in Seq(Frames)
        /\ Len(p) = IF 1 <= k THEN k - 1 + 1 ELSE 0
        /\ \A i \in 1..(k - 1 + 1) : p[i] = l[1 + i - 1]
    BY <1>1, <2>1, SubSeqProperties
  <2> HIDE DEF p
  <2> QED
    BY <1>1, <2>2
<1>3. /\ r \in Seq(Frames) /\ Len(r) = Len(l) - k
      /\ \A i \in 1..(Len(l) - k) : r[i] = l[k + i]
  BY Rest
<1>4. <<f>> \in Seq(Frames) /\ Len(<<f>>) = 1 /\ <<f>>[1] = f
  OBVIOUS
<1>5. a = m \o r
  <2>1. (k + 1) - 1 = k
    OBVIOUS
  <2> QED
    BY <2>1, Zenon DEF InsertAt
<1> HIDE DEF a, p, r
<1>6. /\ m \in Seq(Frames) /\ Len(m) = k + 1
      /\ \A i \in 1..k : m[i] = l[i]
      /\ m[k + 1] = f
  <2> DEFINE e == <<f>>
  <2>1. e \in Seq(Frames) /\ Len(e) = 1 /\ e[1] = f
    BY <1>4
  <2>2. m = p \o e
    OBVIOUS
  <2> HIDE DEF e, m
  <2>3. /\ p \o e \in Seq(Frames) /\ Len(p \o e) = Len(p) + Len(e)
        /\ \A i \in 1..(Len(p) + Len(e)) :
             (p \o e)[i] = IF i <= Len(p) THEN p[i] ELSE e[i - Len(p)]
    BY <1>2, <2>1, ConcatProperties
  <2> QED
    BY <1>1, <1>2, <2>1, <2>2, <2>3
<1> HIDE DEF m
<1>7. /\ a \in Seq(Frames) /\ Len(a) = Len(l) + 1
      /\ \A i \in 1..k : a[i] = l[i]
      /\ a[k + 1] = f
      /\ \A i \in (k + 2)..(Len(l) + 1) : a[i] = l[i - 1]
  <2>1. /\ m \o r \in Seq(Frames) /\ Len(m \o r) = Len(m) + Len(r)
        /\ \A i \in 1..(Len(m) + Len(r)) :
             (m \o r)[i] = IF i <= Len(m) THEN m[i] ELSE r[i - Len(m)]
    BY <1>3, <1>6, ConcatProperties
  <2>2. Len(a) = Len(l) + 1
    BY <1>1, <1>3, <1>5, <1>6, <2>1
  <2>3. \A i \in 1..(k + 1) : a[i] = m[i]
    BY <1>1, <1>3, <1>5, <1>6, <2>1
  <2>4. \A i \in (k + 2)..(Len(l) + 1) : a[i] = r[i - (k + 1)]
    BY <1>1, <1>3, <1>5, <1>6, <2>1
  <2>5. \A i \in (k + 2)..(Len(l) + 1) : i - (k + 1) \in 1..(Len(l) - k) /\ k + (i - (k + 1)) = i - 1
    BY <1>1
  <2>6. \A i \in (k + 2)..(Len(l) + 1) : a[i] = l[i - 1]
    BY <1>3, <2>4, <2>5
  <2> QED
    BY <1>1, <1>5, <1>6, <2>1, <2>2, <2>3, <2>6
<1> DEFINE from(i) == IF i <= k THEN i ELSE i - 1
<1>8. \A i \in 1..Len(a) : i # k + 1 => from(i) \in 1..Len(l) /\ a[i] = l[from(i)]
  BY <1>1, <1>7
<1>a. \A i, j \in 1..Len(a) : i # k + 1 /\ j # k + 1 /\ from(i) = from(j) => i = j
  BY <1>1, <1>7
<1>b. \A i \in 1..Len(a) : i # k + 1 => a[i] \in ToSet(l)
  BY <1>1, <1>8
<1> HIDE DEF from
<1>9. Apart(a)
  <2> SUFFICES ASSUME NEW i \in 1..Len(a), NEW j \in 1..Len(a), a[i] = a[j]
               PROVE  i = j
    BY DEF Apart
  <2>1. CASE i # k + 1 /\ j # k + 1
    <3>1. from(i) = from(j)
      BY <2>1, <1>8 DEF Apart
    <3> QED
      BY <2>1, <3>1, <1>a
  <2>2. CASE i = k + 1 \/ j = k + 1
    BY <2>2, <1>7, <1>b
  <2> QED
    BY <2>1, <2>2
<1>10. ToSet(a) = ToSet(l) \cup {f}
  <2>1. /\ \A i \in 1..Len(a) : a[i] \in ToSet(a)
        /\ \A g \in ToSet(a) : \E i \in 1..Len(a) : a[i] = g
    BY <1>7, Elements
  <2>2. \A g \in ToSet(a) : g \in ToSet(l) \cup {f}
    BY <1>7, <1>b, <2>1
  <2>3. f \in ToSet(a)
    BY <1>1, <1>7, <2>1
  <2>4. \A i \in 1..Len(l) : \E j \in 1..Len(a) : a[j] = l[i]
    <3> SUFFICES ASSUME NEW i \in 1..Len(l) PROVE \E j \in 1..Len(a) : a[j] = l[i]
      OBVIOUS
    <3>1. CASE i <= k
      BY <3>1, <1>1, <1>7
    <3>2. CASE i > k
      <4>1. i + 1 \in (k + 2)..(Len(l) + 1) /\ i + 1 - 1 = i /\ i + 1 \in 1..Len(a)
        BY <3>2, <1>1, <1>7
      <4>2. a[i + 1] = l[i]
        BY <4>1, <1>7
      <4> QED
        BY <4>1, <4>2
    <3> QED
      BY <3>1, <3>2, <1>1
  <2>5. \A g \in ToSet(l) : g \in ToSet(a)
    BY <1>1, <2>1, <2>4
  <2> QED
    BY <2>2, <2>3, <2>5
<1> QED
  BY <1>7, <1>9, <1>10 DEF a


-----------------------------------------------------------------------------
(* One queue: what its fields say of each other, and what the functions    *)
(* that change one queue keep.                                             *)

\* Whatever the state of the queue q.
Good(q, t) == t \in Row /\ Apart(t.frames) /\ ToSet(t.frames) \subseteq Of(q)

\* The frames to retry come first, and last is the last of them.
Retries(t) ==
    /\ t.nbRetry <= Len(t.frames)
    /\ t.last = IF t.nbRetry = 0 THEN None ELSE t.frames[t.nbRetry]

\* A queue is on its list only if there is something to send now.
OnList(t) == t.sched => t.frames # <<>> /\ (t.stop = {} \/ t.limit > 0)

\* What a service period lets it send is there, and it is on the list.
Granted(t) ==
    /\ t.credits >= 1 /\ t.limit <= Len(t.frames) /\ t.limit <= t.credits
    /\ t.limit > 0 => t.sched = TRUE /\ "sta_ps" \in t.stop

Sane(t) == Retries(t) /\ OnList(t) /\ Granted(t)

\* A queue with frames that nothing stops is on its list.
Listed(t) == t.frames # <<>> /\ t.stop = {} => t.sched = TRUE

LEMMA RowFields ==
  ASSUME NEW t \in Row
  PROVE  /\ t.frames \in Seq(Frames) /\ t.stop \in SUBSET Stops
         /\ t.sched \in BOOLEAN /\ t.flow \in BOOLEAN /\ t.active \in BOOLEAN
         /\ t.credits \in (-CreditMax - 1)..CreditMax /\ t.credits \in Int
         /\ t.limit \in Nat /\ t.nbRetry \in Nat /\ t.last \in Frames \cup {None}
BY TxqAssumption DEF Row

\* rwnx_txq_start
LEMMA StartedIs ==
  ASSUME NEW t \in Row, NEW r \in Stops
  PROVE  LET u == Started(t, r) IN
         /\ u \in Row
         /\ u.frames = t.frames /\ u.credits = t.credits /\ u.limit = t.limit
         /\ u.nbRetry = t.nbRetry /\ u.last = t.last /\ u.flow = t.flow
         /\ u.active = t.active
         /\ t.active => u.stop = t.stop \ {r}
         /\ t.active => (u.sched = TRUE <=> t.sched = TRUE \/
                                  (r \in t.stop /\ t.stop = {r} /\ t.frames # <<>>))
         /\ ~t.active => u = t
BY DEF Started, Row

LEMMA StoppedIs ==
  ASSUME NEW t \in Row, NEW r \in Stops
  PROVE  LET u == Stopped(t, r) IN
         /\ u \in Row
         /\ u.frames = t.frames /\ u.credits = t.credits /\ u.limit = t.limit
         /\ u.nbRetry = t.nbRetry /\ u.last = t.last /\ u.flow = t.flow
         /\ u.active = t.active
         /\ t.active => u.stop = t.stop \cup {r} /\ u.sched = FALSE
         /\ ~t.active => u = t
BY DEF Stopped, Row

\* A start for another reason than the sleep of the station.
LEMMA StartedKeeps ==
  ASSUME NEW q, NEW t, Good(q, t), NEW r \in Stops,
         t.active => Sane(t), t.limit > 0 => r # "sta_ps"
  PROVE  LET u == Started(t, r) IN
         /\ Good(q, u) /\ u.active = t.active /\ u.frames = t.frames
         /\ u.limit = t.limit
         /\ t.active => Sane(u) /\ (Listed(t) => Listed(u))
         /\ u.nbRetry = t.nbRetry /\ u.last = t.last
         /\ t.sched = TRUE => u.sched = TRUE
         /\ r # "sta_ps" /\ "sta_ps" \in t.stop => "sta_ps" \in u.stop
<1> DEFINE u == Started(t, r)
<1>0. t \in Row
  BY DEF Good
<1>1. /\ u \in Row
      /\ u.frames = t.frames /\ u.credits = t.credits /\ u.limit = t.limit
      /\ u.nbRetry = t.nbRetry /\ u.last = t.last /\ u.flow = t.flow
      /\ u.active = t.active
      /\ t.active => u.stop = t.stop \ {r}
      /\ t.active => (u.sched = TRUE <=> t.sched = TRUE \/
                               (r \in t.stop /\ t.stop = {r} /\ t.frames # <<>>))
      /\ ~t.active => u = t
  BY <1>0, StartedIs
<1> HIDE DEF u
<1>2. t.sched \in BOOLEAN /\ u.sched \in BOOLEAN /\ t.limit \in Nat /\ "sta_ps" \in Stops
      /\ t.stop \in SUBSET Stops
  BY <1>0, <1>1, RowFields DEF Stops
<1>3. Good(q, u)
  BY <1>1 DEF Good
<1>4. ASSUME t.active PROVE Sane(u) /\ (Listed(t) => Listed(u))
  <2>1. Retries(u)
    BY <1>1, <1>4 DEF Retries, Sane
  <2>2. OnList(u)
    BY <1>1, <1>2, <1>4 DEF OnList, Sane
  <2>3. Granted(u)
    BY <1>1, <1>2, <1>4 DEF Granted, Sane
  <2>4. Listed(t) => Listed(u)
    <3>1. SUFFICES ASSUME Listed(t), u.frames # <<>>, u.stop = {} PROVE u.sched = TRUE
      BY DEF Listed
    <3>2. t.stop = {} \/ t.stop = {r}
      BY <1>1, <1>4, <3>1
    <3> QED
      BY <1>1, <1>4, <3>1, <3>2 DEF Listed
  <2> QED
    BY <2>1, <2>2, <2>3, <2>4 DEF Sane
<1>5. t.sched = TRUE => u.sched = TRUE
  BY <1>1, <1>2
<1>6. r # "sta_ps" /\ "sta_ps" \in t.stop => "sta_ps" \in u.stop
  BY <1>1
<1> QED
  BY <1>1, <1>3, <1>4, <1>5, <1>6 DEF u

\* A stop, while nothing is granted.
LEMMA StoppedKeeps ==
  ASSUME NEW q, NEW t, Good(q, t), NEW r \in Stops,
         t.active => Sane(t) /\ t.limit = 0
  PROVE  LET u == Stopped(t, r) IN
         /\ Good(q, u) /\ u.active = t.active /\ u.frames = t.frames
         /\ u.limit = t.limit
         /\ t.active => Sane(u) /\ Listed(u) /\ r \in u.stop
         /\ \A s \in Stops : s \in t.stop => s \in u.stop
<1> DEFINE u == Stopped(t, r)
<1>0. t \in Row
  BY DEF Good
<1>1. /\ u \in Row
      /\ u.frames = t.frames /\ u.credits = t.credits /\ u.limit = t.limit
      /\ u.nbRetry = t.nbRetry /\ u.last = t.last /\ u.flow = t.flow
      /\ u.active = t.active
      /\ t.active => u.stop = t.stop \cup {r} /\ u.sched = FALSE
      /\ ~t.active => u = t
  BY <1>0, StoppedIs
<1> HIDE DEF u
<1>3. Good(q, u)
  BY <1>1 DEF Good
<1>4. ASSUME t.active PROVE Sane(u) /\ Listed(u)
  <2>1. Retries(u)
    BY <1>1, <1>4 DEF Retries, Sane
  <2>2. OnList(u) /\ Listed(u)
    BY <1>1, <1>4 DEF OnList, Listed
  <2>3. Granted(u)
    BY <1>1, <1>4 DEF Granted, Sane
  <2> QED
    BY <2>1, <2>2, <2>3 DEF Sane
<1>6. \A s \in Stops : s \in t.stop => s \in u.stop
  BY <1>1
<1> QED
  BY <1>1, <1>3, <1>4, <1>6 DEF u

\* The limit is reset: the station wakes up, or the service period is cut off,
\* when nothing is granted any more.
LEMMA UnlimitedKeeps ==
  ASSUME NEW q, NEW t, Good(q, t), t.active => Sane(t) /\ t.limit = 0
  PROVE  LET u == [t EXCEPT !.limit = 0] IN
         /\ Good(q, u) /\ u.active = t.active /\ u.frames = t.frames
         /\ u.limit = 0 /\ u.stop = t.stop /\ u.sched = t.sched
         /\ t.active => Sane(u) /\ (Listed(t) => Listed(u))
<1> DEFINE u == [t EXCEPT !.limit = 0]
<1>1. /\ u \in Row
      /\ u.frames = t.frames /\ u.credits = t.credits /\ u.limit = 0
      /\ u.nbRetry = t.nbRetry /\ u.last = t.last
      /\ u.active = t.active /\ u.stop = t.stop /\ u.sched = t.sched
  BY DEF Good, Row
<1> HIDE DEF u
<1> QED
  BY <1>1 DEF Good, Retries, Sane, OnList, Granted, Listed, u

\* A service period is granted.
LEMMA LimitKeeps ==
  ASSUME NEW q, NEW t, Good(q, t), Sane(t), "sta_ps" \in t.stop,
         NEW g \in Nat, g > 0, g <= Len(t.frames), g <= t.credits
  PROVE  LET u == [t EXCEPT !.sched = TRUE, !.limit = g] IN
         /\ Good(q, u) /\ u.active = t.active /\ u.frames = t.frames
         /\ u.limit = g /\ u.stop = t.stop /\ u.sched = TRUE
         /\ Sane(u) /\ Listed(u)
<1> DEFINE u == [t EXCEPT !.sched = TRUE, !.limit = g]
<1>1. /\ u \in Row
      /\ u.frames = t.frames /\ u.credits = t.credits /\ u.limit = g
      /\ u.nbRetry = t.nbRetry /\ u.last = t.last
      /\ u.active = t.active /\ u.stop = t.stop /\ u.sched = TRUE
  BY DEF Good, Row
<1>2. Len(t.frames) > 0 => t.frames # <<>>
  BY RowFields, Elements DEF Good
<1>3. Len(t.frames) \in Nat /\ t.credits \in Int
  BY RowFields, Elements DEF Good
<1> HIDE DEF u
<1>4. Good(q, u)
  BY <1>1 DEF Good
<1>5. Retries(u)
  BY <1>1 DEF Sane, Retries
<1>6. OnList(u)
  BY <1>1, <1>2, <1>3 DEF OnList
<1>7. Granted(u)
  BY <1>1, <1>3 DEF Granted, Sane
<1>8. Listed(u)
  BY <1>1 DEF Listed
<1> QED
  BY <1>1, <1>4, <1>5, <1>6, <1>7, <1>8 DEF Sane, u

\* A frame is appended: rwnx_txq_queue_skb.
LEMMA WithFramesIs ==
  ASSUME NEW q, NEW t \in Row, NEW l \in Seq(Frames)
  PROVE  LET u == WithFrames(q, t, l) IN
         /\ u \in Row /\ u.frames = l
         /\ u.credits = t.credits /\ u.limit = t.limit /\ u.stop = t.stop
         /\ u.nbRetry = t.nbRetry /\ u.last = t.last /\ u.active = t.active
         /\ u.sched = TRUE <=> t.sched = TRUE \/ t.stop = {}
<1>1. FlowStopped(q, l) \in BOOLEAN
  BY DEF FlowStopped
<1> QED
  BY <1>1 DEF WithFrames, Row

\* The queue q, from t to u, by the frame f.
Gained(q, t, f, u) ==
    /\ Good(q, u) /\ u.active = t.active
    /\ Len(u.frames) = Len(t.frames) + 1 /\ ToSet(u.frames) = ToSet(t.frames) \cup {f}
    /\ u.limit = t.limit /\ u.stop = t.stop
    /\ t.sched = TRUE => u.sched = TRUE
    /\ u.sched = TRUE => t.sched = TRUE \/ u.stop = {}
    /\ t.active => Sane(u) /\ Listed(u)

LEMMA QueuedKeeps ==
  ASSUME NEW q, NEW t, Good(q, t), t.active => Sane(t),
         NEW f \in Of(q), f \notin ToSet(t.frames)
  PROVE  Gained(q, t, f, WithFrames(q, t, Append(t.frames, f)))
<1> DEFINE l == Append(t.frames, f)
           u == WithFrames(q, t, l)
<1>0. f \in Frames /\ t \in Row
  BY DEF Of, Good
<1>1. t.frames \in Seq(Frames) /\ Apart(t.frames) /\ ToSet(t.frames) \subseteq Of(q)
  BY <1>0, RowFields DEF Good
<1>2. /\ l \in Seq(Frames) /\ Len(l) = Len(t.frames) + 1
      /\ Apart(l) /\ ToSet(l) = ToSet(t.frames) \cup {f}
      /\ \A i \in 1..Len(t.frames) : l[i] = t.frames[i]
  BY <1>0, <1>1, Appended
<1> HIDE DEF l
<1>3. /\ u \in Row /\ u.frames = l
      /\ u.credits = t.credits /\ u.limit = t.limit /\ u.stop = t.stop
      /\ u.nbRetry = t.nbRetry /\ u.last = t.last /\ u.active = t.active
      /\ u.sched = TRUE <=> t.sched = TRUE \/ t.stop = {}
  BY <1>0, <1>2, WithFramesIs
<1> HIDE DEF u
<1>4. Len(t.frames) \in Nat /\ t.nbRetry \in Nat /\ t.credits \in Int /\ t.limit \in Nat
      /\ t.sched \in BOOLEAN /\ u.sched \in BOOLEAN
  BY <1>0, <1>1, <1>3, RowFields, Elements
<1>5. l # <<>>
  BY <1>2, <1>4, Elements
<1>6. Good(q, u)
  BY <1>1, <1>2, <1>3 DEF Good
<1>7. ASSUME t.active PROVE Sane(u) /\ Listed(u)
  <2>1. Retries(u)
    <3>1. u.nbRetry <= Len(u.frames)
      BY <1>2, <1>3, <1>4, <1>7 DEF Sane, Retries
    <3>2. CASE t.nbRetry = 0
      BY <1>3, <1>7, <3>1, <3>2 DEF Sane, Retries
    <3>3. CASE t.nbRetry # 0
      <4>1. t.nbRetry \in 1..Len(t.frames) /\ t.last = t.frames[t.nbRetry]
        BY <1>4, <1>7, <3>3 DEF Sane, Retries
      <4>2. u.last = u.frames[u.nbRetry]
        BY <1>2, <1>3, <4>1
      <4> QED
        BY <1>3, <3>1, <3>3, <4>2 DEF Retries
    <3> QED
      BY <3>2, <3>3
  <2>2. OnList(u)
    BY <1>3, <1>4, <1>5, <1>7 DEF OnList, Sane
  <2>3. Granted(u)
    BY <1>2, <1>3, <1>4, <1>7 DEF Granted, Sane
  <2>4. Listed(u)
    BY <1>3 DEF Listed
  <2> QED
    BY <2>1, <2>2, <2>3, <2>4 DEF Sane
<1> QED
  BY <1>2, <1>3, <1>4, <1>6, <1>7 DEF u, l, Gained

\* A retry puts the queue on its list.
LEMMA RelistedKeeps ==
  ASSUME NEW q, NEW t, Good(q, t), Sane(t), t.frames # <<>>
  PROVE  LET u == WithFrames(q, t, t.frames) IN
         /\ Good(q, u) /\ u.active = t.active /\ u.frames = t.frames
         /\ u.limit = t.limit /\ u.stop = t.stop
         /\ t.sched = TRUE => u.sched = TRUE
         /\ Sane(u) /\ Listed(u)
<1> DEFINE u == WithFrames(q, t, t.frames)
<1>0. t \in Row /\ t.frames \in Seq(Frames)
  BY RowFields DEF Good
<1>3. /\ u \in Row /\ u.frames = t.frames
      /\ u.credits = t.credits /\ u.limit = t.limit /\ u.stop = t.stop
      /\ u.nbRetry = t.nbRetry /\ u.last = t.last /\ u.active = t.active
      /\ u.sched = TRUE <=> t.sched = TRUE \/ t.stop = {}
  BY <1>0, WithFramesIs
<1> HIDE DEF u
<1>4. u.sched \in BOOLEAN /\ t.sched \in BOOLEAN
  BY <1>0, <1>3, RowFields
<1>6. Good(q, u)
  BY <1>3 DEF Good
<1>7. Retries(u)
  BY <1>3 DEF Retries, Sane
<1>8. OnList(u) /\ Listed(u)
  BY <1>3, <1>4 DEF OnList, Sane, Listed
<1>9. Granted(u)
  BY <1>3 DEF Granted, Sane
<1> QED
  BY <1>3, <1>6, <1>7, <1>8, <1>9 DEF Sane, u

\* rwnx_hwq_process and rwnx_txq_get_skb_to_push
LEMMA PushesIs ==
  ASSUME NEW t \in Row, t.active => Sane(t)
  PROVE  /\ Pushes(t) \in 0..Len(t.frames)
         /\ ~t.active => Pushes(t) = 0
         /\ t.active => /\ t.limit > 0 => Pushes(t) = t.limit /\ ServedOut(t)
                        /\ ServedOut(t) => t.limit > 0 \/ Pushes(t) = Len(t.frames)
                        /\ ~ServedOut(t) => Pushes(t) < Len(t.frames)
<1> DEFINE n == Len(t.frames)
<1>1. /\ n \in Nat /\ t.limit \in Nat /\ t.credits \in Int /\ t.active \in BOOLEAN
      /\ t.frames \in Seq(Frames)
  BY RowFields, Elements
<1> HIDE DEF n
<1>2. ASSUME t.active
      PROVE  /\ Allowed(t) \in Nat
             /\ t.limit > 0 => Allowed(t) = t.limit /\ t.limit <= n
             /\ t.limit = 0 => Allowed(t) = t.credits
  BY <1>1, <1>2 DEF Allowed, Sane, Granted, n
<1>3. t.active => Pushes(t) = IF Allowed(t) >= n THEN n ELSE Allowed(t)
  BY DEF Pushes, n
<1>4. ServedOut(t) <=> Allowed(t) >= n \/ (t.limit # 0 /\ Allowed(t) = t.limit)
  BY DEF ServedOut, n
<1>5. ~t.active => Pushes(t) = 0
  BY DEF Pushes
<1> QED
  BY <1>1, <1>2, <1>3, <1>4, <1>5 DEF n

\* The frames that are taken from a queue.
Pushed(t) == ToSet(SubSeq(t.frames, 1, Pushes(t)))

LEMMA ServedKeeps ==
  ASSUME NEW q, NEW t, Good(q, t), t.active => Sane(t)
  PROVE  LET u == Served(q, t) IN
         /\ Good(q, u) /\ u.active = t.active /\ u.stop = t.stop
         /\ Pushed(t) \subseteq ToSet(t.frames)
         /\ ToSet(u.frames) \subseteq ToSet(t.frames) \ Pushed(t)
         /\ t.active => /\ Len(u.frames) = Len(t.frames) - Pushes(t) /\ u.limit = 0
                        /\ t.sched = TRUE => Sane(u) /\ Listed(u)
<1> DEFINE u == Served(q, t)
           n == Pushes(t)
           c == Len(t.frames)
           rest == SubSeq(t.frames, n + 1, c)
           front == SubSeq(t.frames, 1, n)
<1>0. t \in Row /\ t.frames \in Seq(Frames) /\ Apart(t.frames) /\ ToSet(t.frames) \subseteq Of(q)
  BY RowFields DEF Good
<1>1. /\ c \in Nat /\ t.limit \in Nat /\ t.credits \in Int /\ t.active \in BOOLEAN
      /\ t.nbRetry \in Nat /\ t.flow \in BOOLEAN /\ t.last \in Frames \cup {None}
      /\ t.sched \in BOOLEAN
  BY <1>0, RowFields, Elements
<1>2. /\ n \in 0..c
      /\ ~t.active => n = 0
      /\ t.active => /\ t.limit > 0 => n = t.limit /\ ServedOut(t)
                     /\ ServedOut(t) => t.limit > 0 \/ n = c
                     /\ ~ServedOut(t) => n < c
  BY <1>0, PushesIs
<1>3. /\ rest \in Seq(Frames) /\ Len(rest) = c - n /\ Apart(rest)
      /\ \A i \in 1..(c - n) : rest[i] = t.frames[n + i]
      /\ ToSet(rest) \subseteq ToSet(t.frames)
      /\ ToSet(front) \subseteq ToSet(t.frames)
      /\ ToSet(rest) \cap ToSet(front) = {}
  <2> HIDE DEF n
  <2> QED
    BY <1>0, <1>2, Rest
<1>4. ServedOut(t) \in BOOLEAN
  BY DEF ServedOut
<1>5. CASE ~t.active
  <2>1. u = [t EXCEPT !.frames = <<>>, !.sched = FALSE]
    BY <1>5 DEF Served
  <2>2. u \in Row /\ u.frames = <<>> /\ u.active = t.active /\ u.stop = t.stop
    <3>1. <<>> \in Seq(Frames)
      BY EmptySeq
    <3> HIDE DEF u
    <3> QED
      BY <1>0, <2>1, <3>1 DEF Row
  <2>3. ToSet(<<>>) = {} /\ Apart(<<>>)
    BY DEF ToSet, Apart
  <2> HIDE DEF u
  <2> QED
    BY <1>3, <1>5, <2>2, <2>3 DEF Good, u, Pushed
<1>6. CASE t.active
  <2> DEFINE limit == IF PsId[q] = "legacy" THEN 0 ELSE Less(t.limit, n)
             sched == ~ServedOut(t)
             flow == t.flow /\ Len(rest) >= NdevRestart
             last == IF t.nbRetry \in 1..n THEN None ELSE t.last
             retries == Less(t.nbRetry, n)
  <2>1. u = [t EXCEPT !.frames = rest,
                      !.nbRetry = retries,
                      !.last = last,
                      !.sched = sched,
                      !.limit = limit,
                      !.flow = flow]
    BY <1>6 DEF Served
  <2>2. limit = 0
    BY <1>1, <1>2, <1>6 DEF Less
  <2>3. /\ retries \in Nat /\ last \in Frames \cup {None} /\ flow \in BOOLEAN
        /\ retries = IF t.nbRetry > n THEN t.nbRetry - n ELSE 0
    BY <1>1, <1>2 DEF Less
  <2>a. sched \in BOOLEAN
    BY <1>4
  <2> HIDE DEF limit, flow, retries, rest, front, n, c, u, last, sched
  <2>b. limit \in Nat
    BY <2>2
  <2>c. /\ u \in Row /\ u.frames = rest /\ u.active = t.active /\ u.stop = t.stop
        /\ u.nbRetry = retries /\ u.last = last /\ u.sched = sched
        /\ u.limit = limit /\ u.credits = t.credits
    BY <1>0, <1>3, <2>1, <2>a, <2>b, <2>3 DEF Row
  <2>4. /\ u \in Row /\ u.frames = rest /\ u.active = t.active /\ u.stop = t.stop
        /\ u.nbRetry = retries /\ u.last = last /\ u.sched = ~ServedOut(t)
        /\ u.limit = 0 /\ u.credits = t.credits
    BY <2>c, <2>2 DEF sched
  <2>5. Good(q, u)
    BY <1>0, <1>3, <2>4 DEF Good
  <2>6. Retries(u)
    <3>0. t.nbRetry <= c /\ t.last = IF t.nbRetry = 0 THEN None ELSE t.frames[t.nbRetry]
      BY <1>6 DEF Sane, Retries, c
    <3>1. CASE t.nbRetry > n
      <4>1. /\ retries = t.nbRetry - n /\ retries \in 1..(c - n) /\ retries # 0
            /\ n + retries = t.nbRetry /\ t.nbRetry # 0
        BY <1>1, <1>2, <2>3, <3>0, <3>1
      <4>2. last = t.last
        BY <1>1, <1>2, <3>1 DEF last
      <4>3. rest[retries] = t.frames[t.nbRetry]
        BY <1>3, <4>1
      <4>4. u.nbRetry <= Len(u.frames)
        BY <1>3, <2>4, <4>1
      <4>5. u.last = u.frames[u.nbRetry]
        BY <2>4, <3>0, <4>1, <4>2, <4>3
      <4> QED
        BY <2>4, <4>1, <4>4, <4>5 DEF Retries
    <3>2. CASE ~(t.nbRetry > n)
      <4>1. retries = 0
        BY <2>3, <3>2
      <4>2. t.nbRetry = 0 \/ t.nbRetry \in 1..n
        BY <1>1, <1>2, <3>2
      <4>3. last = None
        BY <3>0, <4>2 DEF last
      <4>4. 0 <= c - n
        BY <1>1, <1>2
      <4> QED
        BY <1>3, <2>4, <4>1, <4>3, <4>4 DEF Retries
    <3> QED
      BY <3>1, <3>2
  <2>7. ASSUME t.sched = TRUE PROVE OnList(u) /\ Listed(u)
    <3>1. t.stop = {} \/ t.limit > 0
      BY <1>6, <2>7 DEF Sane, OnList
    <3>2. CASE ServedOut(t)
      <4>1. CASE t.limit > 0
        <5>1. t.stop # {}
          BY <1>6, <4>1 DEF Sane, Granted
        <5> QED
          BY <2>4, <3>2, <5>1 DEF OnList, Listed
      <4>2. CASE ~(t.limit > 0)
        <5>1. n = c
          BY <1>2, <1>6, <3>2, <4>2
        <5>2. Len(rest) = 0
          BY <1>1, <1>3, <5>1
        <5>3. rest = <<>>
          BY <1>3, <5>2, Elements
        <5> QED
          BY <2>4, <3>2, <5>3 DEF OnList, Listed
      <4> QED
        BY <4>1, <4>2
    <3>3. CASE ~ServedOut(t)
      <4>1. n < c /\ ~(t.limit > 0)
        BY <1>2, <1>6, <3>3
      <4>2. Len(rest) > 0
        BY <1>1, <1>2, <1>3, <4>1
      <4>3. rest # <<>>
        BY <1>3, <4>2, Elements
      <4> QED
        BY <2>4, <3>1, <3>3, <4>1, <4>3 DEF OnList, Listed
    <3> QED
      BY <3>2, <3>3
  <2>8. Granted(u)
    <3>1. t.credits >= 1
      BY <1>6 DEF Sane, Granted
    <3>2. 0 <= Len(u.frames) /\ 0 <= t.credits
      BY <1>1, <1>2, <1>3, <2>4, <3>1
    <3> QED
      BY <2>4, <3>1, <3>2 DEF Granted
  <2>9. Len(u.frames) = c - n /\ u.limit = 0
    BY <1>3, <2>4
  <2>10. /\ Pushed(t) \subseteq ToSet(t.frames)
         /\ ToSet(u.frames) \subseteq ToSet(t.frames) \ Pushed(t)
    <3>1. Pushed(t) = ToSet(front)
      BY DEF Pushed, front, n
    <3> QED
      BY <1>3, <2>4, <3>1
  <2> QED
    BY <2>4, <2>5, <2>6, <2>7, <2>8, <2>9, <2>10 DEF Sane, u, n, c
<1> QED
  BY <1>1, <1>5, <1>6

-----------------------------------------------------------------------------
(* The queues of the station together.                                     *)

QueuesSane(t) == \A q \in Txqs : Good(q, t[q]) /\ (t[q].active => Sane(t[q]))
QueuesListed(t) == \A q \in Txqs : t[q].active => Listed(t[q])

\* No frame of a list is with the firmware as well.
Parted(t, w) == \A q \in Txqs : ToSet(t[q].frames) \cap w = {}

Station == [active : BOOLEAN, ready : [Ids -> Int], sp : [Ids -> Int]]

LEMMA TxqsFinite == IsFiniteSet(Txqs) /\ IsFiniteSet(ToSet(Data)) /\ IsFiniteSet(DOMAIN Data)
<1>1. Data \in Seq(ToSet(Data))
  BY TxqAssumption
<1>2. Len(Data) \in Nat /\ DOMAIN Data = 1..Len(Data) /\ Data \in [1..Len(Data) -> ToSet(Data)]
  BY <1>1, LenProperties
<1>3. Data \in Surjection(1..Len(Data), ToSet(Data))
  BY <1>2 DEF Surjection, ToSet
<1>4. IsFiniteSet(1..Len(Data))
  BY <1>2, FS_Interval
<1>5. IsFiniteSet(ToSet(Data))
  BY <1>3, <1>4, FS_Surjection
<1>6. IsFiniteSet(Txqs)
  <2> DEFINE D == ToSet(Data)
  <2>1. IsFiniteSet(D \cup {Mgmt})
    <3> HIDE DEF D
    <3>1. IsFiniteSet(D)
      BY <1>5 DEF D
    <3> QED
      BY <3>1, FS_AddElement
  <2> QED
    BY <2>1 DEF Txqs
<1> QED
  BY <1>2, <1>4, <1>5, <1>6

LEMMA KindsFinite ==
  ASSUME NEW id, NEW S \in SUBSET Txqs
  PROVE  IsFiniteSet(Kind(id)) /\ IsFiniteSet(S) /\ IsFiniteSet(S \cap Kind(id))
<1>1. Kind(id) \in SUBSET Txqs /\ S \cap Kind(id) \in SUBSET Txqs
  BY DEF Kind
<1> QED
  BY <1>1, TxqsFinite, FS_Subset

\* What the queues on of the hardware lists lose.
Popped(t, on) == [q \in on |-> Pushes(t[q])]
Cut(t, on) == [q \in on |-> Less(t[q].limit, Pushes(t[q]))]

LEMMA SumsAreInts ==
  ASSUME NEW t \in [Txqs -> Row], QueuesSane(t), NEW on \in SUBSET Txqs, NEW id
  PROVE  /\ SumFunctionOnSet(Popped(t, on), on \cap Kind(id)) \in Int
         /\ SumFunctionOnSet(Cut(t, on), on \cap Kind(id)) \in Int
<1>1. \A q \in on : Pushes(t[q]) \in Int /\ Less(t[q].limit, Pushes(t[q])) \in Int
  <2> SUFFICES ASSUME NEW q \in on
               PROVE  Pushes(t[q]) \in Int /\ Less(t[q].limit, Pushes(t[q])) \in Int
    OBVIOUS
  <2> DEFINE u == t[q]
  <2>1. u \in Row /\ (u.active => Sane(u))
    BY DEF QueuesSane
  <2> HIDE DEF u
  <2>2. Pushes(u) \in 0..Len(u.frames) /\ u.limit \in Nat /\ Len(u.frames) \in Nat
    BY <2>1, PushesIs, RowFields, Elements
  <2> QED
    BY <2>2 DEF Less, u
<1> DEFINE S == on \cap Kind(id)
<1>2. IsFiniteSet(S)
  BY KindsFinite
<1>3. \A q \in S : Popped(t, on)[q] \in Int /\ Cut(t, on)[q] \in Int
  BY <1>1 DEF Popped, Cut
<1> HIDE DEF S
<1>4. SumFunctionOnSet(Popped(t, on), S) \in Int /\ SumFunctionOnSet(Cut(t, on), S) \in Int
  BY <1>2, <1>3, SumIsInt
<1> QED
  BY <1>4 DEF S

\* The queues that rwnx_hwq_process takes from the lists hs.
OnLists(t, hs) == {q \in Txqs : t[q].sched /\ Hwq[q] \in hs}

\* The counters of the station that sleeps.
StationServed(p, t, r, on) ==
    IF p.active
    THEN [p EXCEPT
            !.ready = [id \in Ids |->
               (r[id] - SumFunctionOnSet(Popped(t, on), on \cap Kind(id))) % U16],
            !.sp = [id \in Ids |->
               (@[id] - SumFunctionOnSet(Popped(t, on), on \cap Kind(id))
                  - (IF id = "legacy"
                     THEN SumFunctionOnSet(Cut(t, on), on \cap Kind(id))
                     ELSE 0)) % U16]]
    ELSE p

\* What Process does to the queues t with the need n, for a station p with
\* the ready frames r and the frames w that await a confirmation.
Processed(p, w, t, n, r, hs, tx1, need1, ps1, fw1) ==
    LET on == OnLists(t, hs) IN
    /\ tx1 = [q \in Txqs |-> IF q \in on THEN Served(q, t[q]) ELSE t[q]]
    /\ need1 = [h \in Hwqs |-> h \notin hs /\ n[h]]
    /\ ps1 = StationServed(p, t, r, on)
    /\ fw1 = w \cup (NeedCfm \cap UNION {Pushed(t[q]) : q \in on})

\* No BUG_ON is met.
LEMMA NoBug ==
  ASSUME NEW t \in [Txqs -> Row], QueuesSane(t), NEW hs
  PROVE  ~ \E q \in OnLists(t, hs) : Bug(t[q])
<1> SUFFICES ASSUME NEW q \in OnLists(t, hs) PROVE ~Bug(t[q])
  OBVIOUS
<1>1. q \in Txqs /\ t[q].sched
  BY DEF OnLists
<1> DEFINE u == t[q]
<1>2. u \in Row /\ u.sched /\ (u.active => Sane(u))
  BY <1>1 DEF QueuesSane
<1> HIDE DEF u
<1>3. u.credits \in Int
  BY <1>2, RowFields
<1>4. u.active => u.credits >= 1 /\ u.frames # <<>>
  BY <1>2 DEF Sane, Granted, OnList
<1>5. ~Bug(u)
  BY <1>3, <1>4 DEF Bug
<1> QED
  BY <1>5 DEF u

\* What becomes of the queues t in rwnx_hwq_process of the lists hs.
OnlyServed(t, tx1, need1, hs) ==
    \A q \in Txqs :
        /\ tx1[q].active = t[q].active /\ tx1[q].stop = t[q].stop
        /\ ToSet(tx1[q].frames) \subseteq ToSet(t[q].frames)
        /\ t[q].active /\ tx1[q].limit > 0 =>
              t[q].limit > 0 /\ need1[Hwq[q]] /\ Hwq[q] \notin hs
        /\ t[q].active =>
              \/ tx1[q] = t[q]
              \/ /\ t[q].sched = TRUE /\ Hwq[q] \in hs
                 /\ Len(tx1[q].frames) = Len(t[q].frames) - Pushes(t[q])

\* The queues after rwnx_hwq_process.
LEMMA ProcessKeeps ==
  ASSUME NEW p \in Station, NEW w, NEW tx1, NEW need1, NEW ps1, NEW fw1,
         NEW t \in [Txqs -> Row], QueuesSane(t), QueuesListed(t), Parted(t, w),
         NEW n \in [Hwqs -> BOOLEAN], NEW r \in [Ids -> Int], NEW hs,
         \A q \in Txqs : t[q].active /\ t[q].limit > 0 => n[Hwq[q]],
         Processed(p, w, t, n, r, hs, tx1, need1, ps1, fw1)
  PROVE  /\ tx1 \in [Txqs -> Row] /\ QueuesSane(tx1) /\ QueuesListed(tx1)
         /\ Parted(tx1, fw1) /\ need1 \in [Hwqs -> BOOLEAN]
         /\ ps1 \in Station /\ ps1.active = p.active
         /\ fw1 \subseteq w \cup UNION {ToSet(t[q].frames) : q \in Txqs}
         /\ OnlyServed(t, tx1, need1, hs)
<1> DEFINE on == OnLists(t, hs)
<1>1. /\ tx1 = [q \in Txqs |-> IF q \in on THEN Served(q, t[q]) ELSE t[q]]
      /\ need1 = [h \in Hwqs |-> h \notin hs /\ n[h]]
      /\ fw1 = w \cup (NeedCfm \cap UNION {Pushed(t[q]) : q \in on})
      /\ ps1 = StationServed(p, t, r, on)
  BY DEF Processed
<1>2. on \in SUBSET Txqs /\ \A q \in on : t[q].sched = TRUE /\ Hwq[q] \in hs
  BY RowFields DEF OnLists
<1>3. \A q \in Txqs : q \notin on /\ Hwq[q] \in hs => t[q].sched = FALSE
  BY RowFields DEF OnLists
<1> HIDE DEF on
<1>4. ASSUME NEW q \in Txqs
      PROVE  /\ Good(q, tx1[q]) /\ tx1[q].active = t[q].active /\ tx1[q].stop = t[q].stop
             /\ t[q].active => Sane(tx1[q]) /\ Listed(tx1[q])
             /\ ToSet(tx1[q].frames) \subseteq ToSet(t[q].frames)
             /\ ToSet(t[q].frames) \subseteq Of(q)
             /\ q \in on => /\ Pushed(t[q]) \subseteq ToSet(t[q].frames)
                            /\ ToSet(tx1[q].frames) \cap Pushed(t[q]) = {}
             /\ t[q].active /\ tx1[q].limit > 0 =>
                   t[q].limit > 0 /\ need1[Hwq[q]] /\ Hwq[q] \notin hs
             /\ t[q].active =>
                   \/ tx1[q] = t[q]
                   \/ /\ t[q].sched = TRUE /\ Hwq[q] \in hs
                      /\ Len(tx1[q].frames) = Len(t[q].frames) - Pushes(t[q])
  <2>1. Good(q, t[q]) /\ (t[q].active => Sane(t[q]) /\ Listed(t[q]))
    BY DEF QueuesSane, QueuesListed
  <2>2. ToSet(t[q].frames) \subseteq Of(q)
    BY <2>1 DEF Good
  <2>3. CASE q \in on
    <3> DEFINE u == Served(q, t[q])
    <3>1. /\ Good(q, u) /\ u.active = t[q].active /\ u.stop = t[q].stop
          /\ Pushed(t[q]) \subseteq ToSet(t[q].frames)
          /\ ToSet(u.frames) \subseteq ToSet(t[q].frames) \ Pushed(t[q])
          /\ t[q].active => /\ Len(u.frames) = Len(t[q].frames) - Pushes(t[q]) /\ u.limit = 0
                            /\ t[q].sched = TRUE => Sane(u) /\ Listed(u)
      BY <2>1, ServedKeeps
    <3>2. tx1[q] = u
      BY <1>1, <2>3
    <3> HIDE DEF u
    <3>3. t[q].sched = TRUE /\ Hwq[q] \in hs
      BY <1>2, <2>3
    <3>4. t[q].active => ~(u.limit > 0)
      BY <3>1
    <3> QED
      BY <2>2, <3>1, <3>2, <3>3, <3>4
  <2>4. CASE q \notin on
    <3>1. tx1[q] = t[q]
      BY <1>1, <2>4
    <3>2. ASSUME t[q].active, t[q].limit > 0
          PROVE  need1[Hwq[q]] /\ Hwq[q] \notin hs
      <4>1. t[q].sched = TRUE
        BY <2>1, <3>2 DEF Sane, Granted
      <4>2. Hwq[q] \notin hs
        BY <1>3, <2>4, <4>1
      <4>3. Hwq[q] \in Hwqs
        BY DEF Hwqs
      <4> QED
        BY <1>1, <3>2, <4>2, <4>3
    <3> QED
      BY <2>1, <2>2, <2>4, <3>1, <3>2
  <2> QED
    BY <2>3, <2>4
<1>5. tx1 \in [Txqs -> Row]
  <2>1. \A q \in Txqs : tx1[q] \in Row
    BY <1>4 DEF Good
  <2>2. DOMAIN tx1 = Txqs /\ tx1 = [q \in Txqs |-> tx1[q]]
    BY <1>1
  <2> QED
    BY <2>1, <2>2
<1>6. QueuesSane(tx1) /\ QueuesListed(tx1)
  BY <1>4, Zenon DEF QueuesSane, QueuesListed
<1>7. Parted(tx1, fw1)
  <2> SUFFICES ASSUME NEW q \in Txqs, NEW f \in ToSet(tx1[q].frames), f \in fw1 PROVE FALSE
    BY DEF Parted
  <2>1. f \in ToSet(t[q].frames) /\ f \in Of(q)
    BY <1>4
  <2>2. f \notin w
    BY <2>1 DEF Parted
  <2>3. PICK o \in on : f \in Pushed(t[o])
    BY <1>1, <2>2
  <2>4. o \in Txqs /\ f \in ToSet(t[o].frames) /\ f \in Of(o)
    BY <1>2, <1>4, <2>3
  <2>5. o = q
    BY <2>1, <2>4 DEF Of
  <2> QED
    BY <1>4, <2>3, <2>5
<1>8. need1 \in [Hwqs -> BOOLEAN]
  BY <1>1
<1>9. fw1 \subseteq w \cup UNION {ToSet(t[q].frames) : q \in Txqs}
  <2> SUFFICES ASSUME NEW f \in fw1, f \notin w
               PROVE  f \in UNION {ToSet(t[q].frames) : q \in Txqs}
    OBVIOUS
  <2>1. PICK q \in on : f \in Pushed(t[q])
    BY <1>1
  <2>2. q \in Txqs /\ f \in ToSet(t[q].frames)
    BY <1>2, <1>4, <2>1
  <2> QED
    BY <2>2
<1>10. ps1 \in Station /\ ps1.active = p.active
  <2> DEFINE a(id) == SumFunctionOnSet(Popped(t, on), on \cap Kind(id))
             b(id) == IF id = "legacy" THEN SumFunctionOnSet(Cut(t, on), on \cap Kind(id)) ELSE 0
             ready == [id \in Ids |-> (r[id] - a(id)) % U16]
             sp == [id \in Ids |-> (p.sp[id] - a(id) - b(id)) % U16]
  <2>1. \A id \in Ids : a(id) \in Int /\ b(id) \in Int
    BY <1>2, SumsAreInts
  <2>2. ps1 = IF p.active THEN [p EXCEPT !.ready = ready, !.sp = sp] ELSE p
    <3> QED
      BY <1>1, Zenon DEF StationServed
  <2> HIDE DEF a, b
  <2>3. ready \in [Ids -> Int] /\ sp \in [Ids -> Int]
    <3>1. \A id \in Ids : p.sp[id] \in Int /\ r[id] \in Int
      BY DEF Station
    <3>2. \A id \in Ids : (r[id] - a(id)) % U16 \in Int /\ (p.sp[id] - a(id) - b(id)) % U16 \in Int
      BY <2>1, <3>1 DEF U16
    <3> QED
      BY <3>2
  <2> HIDE DEF ready, sp
  <2> QED
    BY <2>2, <2>3 DEF Station
<1>11. OnlyServed(t, tx1, need1, hs)
  BY <1>4, Zenon DEF OnlyServed
<1> QED
  BY <1>5, <1>6, <1>7, <1>8, <1>9, <1>10, <1>11

-----------------------------------------------------------------------------
(* Queues to which nothing is granted, as the handlers of the firmware's   *)
(* indications find them.                                                  *)

NoGrant(t) == \A q \in Txqs : t[q].active => t[q].limit = 0
Quiet(t) == t \in [Txqs -> Row] /\ QueuesSane(t) /\ QueuesListed(t) /\ NoGrant(t)
SameFrames(t, u) ==
    \A q \in Txqs : u[q].frames = t[q].frames /\ u[q].active = t[q].active
StillAsleep(t, u) ==
    \A q \in Txqs : t[q].active /\ "sta_ps" \in t[q].stop => "sta_ps" \in u[q].stop
Asleep(t) == \A q \in Txqs : t[q].active => "sta_ps" \in t[q].stop
Quietly(t, u) == Quiet(t) /\ Quiet(u) /\ SameFrames(t, u)

LEMMA QuietRow ==
  ASSUME NEW t, Quiet(t), NEW q \in Txqs
  PROVE  Good(q, t[q]) /\ (t[q].active => Sane(t[q]) /\ Listed(t[q]) /\ t[q].limit = 0)
BY DEF Quiet, QueuesSane, QueuesListed, NoGrant

LEMMA QuietIf ==
  ASSUME NEW u, DOMAIN u = Txqs, u = [q \in Txqs |-> u[q]],
         \A q \in Txqs : Good(q, u[q]) /\ (u[q].active => Sane(u[q]) /\ Listed(u[q]) /\ u[q].limit = 0)
  PROVE  Quiet(u)
<1>1. u \in [Txqs -> Row]
  BY DEF Good
<1>2. QueuesSane(u) /\ QueuesListed(u) /\ NoGrant(u)
  BY Zenon DEF QueuesSane, QueuesListed, NoGrant
<1> QED
  BY <1>1, <1>2 DEF Quiet

LEMMA AllStarted ==
  ASSUME NEW t, Quiet(t), NEW r \in Stops, r # "sta_ps"
  PROVE  LET u == [q \in Txqs |-> Started(t[q], r)] IN
         Quiet(u) /\ SameFrames(t, u) /\ StillAsleep(t, u)
<1> DEFINE u == [q \in Txqs |-> Started(t[q], r)]
<1>1. ASSUME NEW q \in Txqs
      PROVE  /\ Good(q, u[q]) /\ u[q].active = t[q].active /\ u[q].frames = t[q].frames
             /\ t[q].active => Sane(u[q]) /\ Listed(u[q]) /\ u[q].limit = 0
             /\ "sta_ps" \in t[q].stop => "sta_ps" \in u[q].stop
  <2> DEFINE v == t[q]
             w == Started(v, r)
  <2>1. Good(q, v) /\ (v.active => Sane(v) /\ Listed(v) /\ v.limit = 0)
    BY QuietRow
  <2>2. u[q] = w /\ "sta_ps" \in Stops
    BY DEF Stops
  <2> HIDE DEF v
  <2>3. /\ Good(q, w) /\ w.active = v.active /\ w.frames = v.frames
        /\ w.limit = v.limit
        /\ v.active => Sane(w) /\ (Listed(v) => Listed(w))
        /\ r # "sta_ps" /\ "sta_ps" \in v.stop => "sta_ps" \in w.stop
    <3>1. v.limit > 0 => r # "sta_ps"
      OBVIOUS
    <3>2. v.active => Sane(v)
      BY <2>1
    <3>3. Good(q, v)
      BY <2>1
    <3> QED
      BY <3>1, <3>2, <3>3, StartedKeeps, Zenon
  <2> HIDE DEF w, u
  <2>4. /\ Good(q, w) /\ w.active = v.active /\ w.frames = v.frames
        /\ v.active => Sane(w) /\ Listed(w) /\ w.limit = 0
        /\ "sta_ps" \in v.stop => "sta_ps" \in w.stop
    BY <2>1, <2>2, <2>3
  <2> QED
    BY <2>2, <2>4 DEF v
<1>2. DOMAIN u = Txqs /\ u = [q \in Txqs |-> u[q]]
  OBVIOUS
<1> HIDE DEF u
<1>3. Quiet(u)
  BY <1>1, <1>2, QuietIf
<1>4. SameFrames(t, u) /\ StillAsleep(t, u)
  BY <1>1, Zenon DEF SameFrames, StillAsleep
<1> QED
  BY <1>3, <1>4 DEF u

LEMMA AllStopped ==
  ASSUME NEW t, Quiet(t), NEW r \in Stops
  PROVE  LET u == [q \in Txqs |-> Stopped(t[q], r)] IN
         /\ Quiet(u) /\ SameFrames(t, u) /\ StillAsleep(t, u)
         /\ r = "sta_ps" => Asleep(u)
<1> DEFINE u == [q \in Txqs |-> Stopped(t[q], r)]
<1>1. ASSUME NEW q \in Txqs
      PROVE  /\ Good(q, u[q]) /\ u[q].active = t[q].active /\ u[q].frames = t[q].frames
             /\ t[q].active => Sane(u[q]) /\ Listed(u[q]) /\ u[q].limit = 0
             /\ "sta_ps" \in t[q].stop => "sta_ps" \in u[q].stop
             /\ t[q].active => r \in u[q].stop
  <2> DEFINE v == t[q]
             w == Stopped(v, r)
  <2>1. Good(q, v) /\ (v.active => Sane(v) /\ Listed(v) /\ v.limit = 0)
    BY QuietRow
  <2>2. u[q] = w /\ "sta_ps" \in Stops
    BY DEF Stops
  <2> HIDE DEF v
  <2>3. /\ Good(q, w) /\ w.active = v.active /\ w.frames = v.frames
        /\ w.limit = v.limit
        /\ v.active => Sane(w) /\ Listed(w) /\ r \in w.stop
        /\ \A s \in Stops : s \in v.stop => s \in w.stop
    BY <2>1, StoppedKeeps
  <2> HIDE DEF w, u
  <2>4. /\ Good(q, w) /\ w.active = v.active /\ w.frames = v.frames
        /\ v.active => Sane(w) /\ Listed(w) /\ w.limit = 0
        /\ "sta_ps" \in v.stop => "sta_ps" \in w.stop
        /\ v.active => r \in w.stop
    BY <2>1, <2>2, <2>3
  <2> QED
    BY <2>2, <2>4 DEF v
<1>2. DOMAIN u = Txqs /\ u = [q \in Txqs |-> u[q]]
  OBVIOUS
<1> HIDE DEF u
<1>3. Quiet(u)
  BY <1>1, <1>2, QuietIf
<1>4. SameFrames(t, u) /\ StillAsleep(t, u) /\ (r = "sta_ps" => Asleep(u))
  BY <1>1, Zenon DEF SameFrames, StillAsleep, Asleep
<1> QED
  BY <1>3, <1>4 DEF u

\* The service period is cut off, and perhaps the station wakes up.
LEMMA AllUnlimited ==
  ASSUME NEW t, Quiet(t)
  PROVE  LET u == [q \in Txqs |-> [t[q] EXCEPT !.limit = 0]]
             w == [q \in Txqs |-> Started([t[q] EXCEPT !.limit = 0], "sta_ps")]
         IN  /\ Quiet(u) /\ SameFrames(t, u) /\ StillAsleep(t, u)
             /\ Quiet(w) /\ SameFrames(t, w)
<1> DEFINE u == [q \in Txqs |-> [t[q] EXCEPT !.limit = 0]]
           w == [q \in Txqs |-> Started([t[q] EXCEPT !.limit = 0], "sta_ps")]
<1>1. ASSUME NEW q \in Txqs
      PROVE  /\ Good(q, u[q]) /\ u[q].active = t[q].active /\ u[q].frames = t[q].frames
             /\ t[q].active => Sane(u[q]) /\ Listed(u[q])
             /\ u[q].stop = t[q].stop /\ u[q].limit = 0
  <2> DEFINE v == t[q]
  <2>1. Good(q, v) /\ (v.active => Sane(v) /\ Listed(v) /\ v.limit = 0)
    BY QuietRow
  <2>2. u[q] = [v EXCEPT !.limit = 0]
    OBVIOUS
  <2> HIDE DEF v, u
  <2>3. v.active => Sane(v) /\ v.limit = 0
    BY <2>1
  <2> DEFINE x == [v EXCEPT !.limit = 0]
  <2>4. /\ Good(q, x) /\ x.active = v.active /\ x.frames = v.frames
        /\ x.limit = 0 /\ x.stop = v.stop
        /\ v.active => Sane(x) /\ (Listed(v) => Listed(x))
    BY <2>1, <2>3, UnlimitedKeeps, Zenon
  <2> HIDE DEF x
  <2>5. /\ Good(q, x) /\ x.active = v.active /\ x.frames = v.frames
        /\ v.active => Sane(x) /\ Listed(x)
        /\ x.stop = v.stop /\ x.limit = 0
    BY <2>1, <2>4
  <2> QED
    BY <2>2, <2>5 DEF v, x
<1>2. DOMAIN u = Txqs /\ u = [q \in Txqs |-> u[q]] /\ DOMAIN w = Txqs
  OBVIOUS
<1>3. \A q \in Txqs : w[q] = Started(u[q], "sta_ps")
  OBVIOUS
<1>4. w = [q \in Txqs |-> w[q]]
  OBVIOUS
<1> HIDE DEF u, w
<1>5. ASSUME NEW q \in Txqs
      PROVE  /\ Good(q, w[q]) /\ w[q].active = t[q].active /\ w[q].frames = t[q].frames
             /\ t[q].active => Sane(w[q]) /\ Listed(w[q]) /\ w[q].limit = 0
  <2> DEFINE v == u[q]
             x == Started(v, "sta_ps")
  <2>1. /\ Good(q, v) /\ v.active = t[q].active /\ v.frames = t[q].frames
        /\ v.active => Sane(v) /\ Listed(v)
        /\ v.limit = 0
    BY <1>1
  <2>2. w[q] = x
    BY <1>3
  <2> HIDE DEF v
  <2>3. v.limit > 0 => "sta_ps" # "sta_ps"
    BY <2>1
  <2>4. v.active => Sane(v)
    BY <2>1
  <2>5. "sta_ps" \in Stops
    BY DEF Stops
  <2>6. /\ Good(q, x) /\ x.active = v.active /\ x.frames = v.frames
        /\ x.limit = v.limit
        /\ v.active => Sane(x) /\ (Listed(v) => Listed(x))
    BY <2>1, <2>3, <2>4, <2>5, StartedKeeps, ZenonT(30)
  <2> HIDE DEF x
  <2>7. /\ Good(q, x) /\ x.active = t[q].active /\ x.frames = t[q].frames
        /\ t[q].active => Sane(x) /\ Listed(x) /\ x.limit = 0
    BY <2>1, <2>6
  <2> QED
    BY <2>2, <2>7
<1>6. Quiet(u) /\ Quiet(w)
  BY <1>1, <1>2, <1>4, <1>5, QuietIf
<1>7. SameFrames(t, u) /\ StillAsleep(t, u) /\ SameFrames(t, w)
  BY <1>1, <1>5, Zenon DEF SameFrames, StillAsleep
<1> QED
  BY <1>6, <1>7 DEF u, w

\* The firmware updates the credits of one queue.
LEMMA OneUpdated ==
  ASSUME NEW t, Quiet(t), NEW p \in Txqs
  PROVE  LET u == [t EXCEPT ![p] = IF @.credits <= 0 THEN Stopped(@, "full")
                                   ELSE Started(@, "full")]
         IN  Quiet(u) /\ SameFrames(t, u) /\ StillAsleep(t, u)
<1> DEFINE u == [t EXCEPT ![p] = IF @.credits <= 0 THEN Stopped(@, "full")
                                 ELSE Started(@, "full")]
           s == [q \in Txqs |-> Stopped(t[q], "full")]
           g == [q \in Txqs |-> Started(t[q], "full")]
<1>1. "full" \in Stops /\ "full" # "sta_ps"
  BY DEF Stops
<1>2. Quiet(s) /\ SameFrames(t, s) /\ StillAsleep(t, s)
  BY <1>1, AllStopped
<1>3. Quiet(g) /\ SameFrames(t, g) /\ StillAsleep(t, g)
  BY <1>1, AllStarted
<1>4. t \in [Txqs -> Row]
  BY DEF Quiet
<1>5. /\ DOMAIN u = Txqs /\ u = [q \in Txqs |-> u[q]]
      /\ \A q \in Txqs : u[q] = t[q] \/ u[q] = s[q] \/ u[q] = g[q]
  BY <1>4
<1> HIDE DEF u, s, g
<1>6. \A q \in Txqs : /\ Good(q, t[q]) /\ Good(q, s[q]) /\ Good(q, g[q])
                      /\ t[q].active => Sane(t[q]) /\ Listed(t[q]) /\ t[q].limit = 0
                      /\ s[q].active => Sane(s[q]) /\ Listed(s[q]) /\ s[q].limit = 0
                      /\ g[q].active => Sane(g[q]) /\ Listed(g[q]) /\ g[q].limit = 0
  BY <1>2, <1>3, QuietRow
<1>7. \A q \in Txqs : /\ Good(q, u[q])
                      /\ u[q].active => Sane(u[q]) /\ Listed(u[q]) /\ u[q].limit = 0
  BY <1>5, <1>6
<1>8. Quiet(u)
  BY <1>5, <1>7, QuietIf
<1>9. SameFrames(t, u)
  <2>1. ASSUME NEW q \in Txqs
        PROVE  u[q].frames = t[q].frames /\ u[q].active = t[q].active
    <3>1. s[q].frames = t[q].frames /\ s[q].active = t[q].active
      BY <1>2 DEF SameFrames
    <3>2. g[q].frames = t[q].frames /\ g[q].active = t[q].active
      BY <1>3 DEF SameFrames
    <3>3. u[q] = t[q] \/ u[q] = s[q] \/ u[q] = g[q]
      BY <1>5
    <3> QED
      BY <3>1, <3>2, <3>3
  <2> QED
    BY <2>1 DEF SameFrames
<1>10. StillAsleep(t, u)
  <2>1. ASSUME NEW q \in Txqs, t[q].active, "sta_ps" \in t[q].stop
        PROVE  "sta_ps" \in u[q].stop
    <3>1. "sta_ps" \in s[q].stop
      BY <1>2, <2>1 DEF StillAsleep
    <3>2. "sta_ps" \in g[q].stop
      BY <1>3, <2>1 DEF StillAsleep
    <3>3. u[q] = t[q] \/ u[q] = s[q] \/ u[q] = g[q]
      BY <1>5
    <3> QED
      BY <2>1, <3>1, <3>2, <3>3
  <2> QED
    BY <2>1 DEF StillAsleep
<1> QED
  BY <1>8, <1>9, <1>10 DEF u

-----------------------------------------------------------------------------
(* The inductive invariant.                                                *)

TypeInv ==
    /\ tx \in [Txqs -> Row] /\ need \in [Hwqs -> BOOLEAN] /\ task \in BOOLEAN
    /\ ps \in Station /\ valid \in BOOLEAN /\ csa \in BOOLEAN
    /\ vif \in SUBSET VifStops /\ fw \in SUBSET Frames
    /\ mgmt \in Frames \cup {None} /\ del \in Txqs \cup {None}
    /\ rx \in [pc : {"idle", "link", "count", "list"}, f : Frames \cup {None},
               last : Frames \cup {None}]
    /\ halted = FALSE

\* A queue with frames that nothing stops is on its list, except for the one
\* to which a frame is just coming back.
ListedInv == \A q \in Txqs : tx[q].active /\ rx.f \notin Of(q) => Listed(tx[q])

\* What is granted to a queue is pushed by the tasklet before anything else.
GrantInv ==
    \A q \in Txqs : tx[q].active /\ tx[q].limit > 0 => task = TRUE /\ csa = FALSE /\ need[Hwq[q]]

\* Every frame is in one place: a list, the firmware, or the hands of a thread.
PlaceInv ==
    /\ Parted(tx, fw)
    /\ mgmt # None => /\ mgmt \in Of(Mgmt) /\ mgmt \notin fw
                      /\ mgmt \notin ToSet(tx[Mgmt].frames)

\* The station is served only as long as it is known.
StationInv ==
    /\ ps.active => valid = TRUE /\ Asleep(tx)
    /\ valid => \A q \in Txqs : tx[q].active = TRUE
    /\ del # None => tx[del].active = FALSE

\* The frame that comes back for a retry, and where it is put.
RetryInv ==
    /\ rx.pc = "idle" => rx = Idle
    /\ rx.pc # "idle" =>
          LET t == tx[Tid[rx.f]] IN
          /\ rx.f \in Frames /\ rx.f \notin fw /\ Tid[rx.f] # Mgmt /\ t.active = TRUE
          /\ rx.pc = "link" => rx.f \notin ToSet(t.frames) /\ rx.last = t.last
          /\ rx.pc = "count" => t.nbRetry + 1 <= Len(t.frames) /\ t.frames[t.nbRetry + 1] = rx.f
          /\ rx.pc = "list" => t.frames # <<>>

IndInv ==
    /\ TypeInv /\ QueuesSane(tx) /\ ListedInv /\ GrantInv
    /\ PlaceInv /\ StationInv /\ RetryInv

-----------------------------------------------------------------------------
(* The steps.                                                              *)

LEMMA Constants ==
  /\ None \notin Frames /\ None \notin Txqs /\ Tid \in [Frames -> Txqs]
  /\ Mgmt \in Txqs /\ Hwq \in [Txqs -> STRING] /\ PsId \in [Txqs -> Ids]
  /\ \A q \in Txqs : Hwq[q] \in Hwqs /\ None \notin Of(q) /\ q # None
  /\ VifStops \subseteq Stops
BY TxqAssumption DEF Txqs, Hwqs, Of, Stops

LEMMA IdleIs ==
  ASSUME IndInv, rx.pc = "idle"
  PROVE  rx = Idle /\ rx.f = None /\ QueuesListed(tx)
<1>1. rx = Idle /\ rx.f = None
  BY DEF IndInv, RetryInv, Idle
<1> QED
  BY <1>1, Constants DEF IndInv, ListedInv, QueuesListed

LEMMA NothingGranted ==
  ASSUME IndInv, rx.pc = "idle", task = FALSE \/ csa = TRUE
  PROVE  Quiet(tx)
<1>1. \A q \in Txqs : tx[q].active => ~(tx[q].limit > 0)
  BY DEF IndInv, GrantInv
<1>2. \A q \in Txqs : tx[q].limit \in Nat
  BY RowFields DEF IndInv, TypeInv
<1>3. NoGrant(tx)
  BY <1>1, <1>2 DEF NoGrant
<1> QED
  BY <1>3, IdleIs DEF Quiet, IndInv, TypeInv

\* A step outside rwnx_txdatacfm that leaves nothing granted, and the frames
\* where they are.
LEMMA QuietStep ==
  ASSUME IndInv, rx.pc = "idle", Quiet(tx'), SameFrames(tx, tx'),
         need' \in [Hwqs -> BOOLEAN], task' \in BOOLEAN, ps' \in Station,
         valid' \in BOOLEAN, csa' \in BOOLEAN, vif' \in SUBSET VifStops,
         UNCHANGED <<fw, mgmt, del, rx, halted>>, StationInv'
  PROVE  IndInv'
<1>1. TypeInv'
  BY DEF IndInv, TypeInv, Quiet
<1>2. QueuesSane(tx') /\ QueuesListed(tx') /\ NoGrant(tx')
  BY DEF Quiet
<1>3. ListedInv'
  BY <1>2 DEF ListedInv, QueuesListed
<1>4. GrantInv'
  <2>1. \A q \in Txqs : tx'[q].active => tx'[q].limit = 0
    BY <1>2 DEF NoGrant
  <2> QED
    BY <2>1 DEF GrantInv
<1>5. PlaceInv'
  <2>1. \A q \in Txqs : tx'[q].frames = tx[q].frames
    BY DEF SameFrames
  <2>2. Parted(tx', fw')
    BY <2>1 DEF Parted, IndInv, PlaceInv
  <2>3. mgmt' # None => /\ mgmt' \in Of(Mgmt) /\ mgmt' \notin fw'
                        /\ mgmt' \notin ToSet(tx'[Mgmt].frames)
    BY <2>1, Constants DEF IndInv, PlaceInv
  <2> QED
    BY <2>2, <2>3 DEF PlaceInv
<1>6. RetryInv'
  BY DEF IndInv, RetryInv
<1> QED
  BY <1>1, <1>2, <1>3, <1>4, <1>5, <1>6 DEF IndInv

LEMMA StationKept ==
  ASSUME IndInv, SameFrames(tx, tx'), StillAsleep(tx, tx'),
         ps'.active = ps.active, UNCHANGED <<valid, del>>
  PROVE  StationInv'
<1>1. \A q \in Txqs : tx'[q].active = tx[q].active
  BY DEF SameFrames
<1>2. ps'.active => valid' = TRUE /\ Asleep(tx')
  <2>1. ps.active => valid = TRUE /\ Asleep(tx)
    BY DEF IndInv, StationInv
  <2>2. Asleep(tx) => Asleep(tx')
    BY <1>1 DEF Asleep, StillAsleep
  <2> QED
    BY <2>1, <2>2
<1>3. del' # None => tx'[del'].active = FALSE
  BY <1>1 DEF IndInv, TypeInv, StationInv
<1>4. valid' => \A q \in Txqs : tx'[q].active = TRUE
  BY <1>1 DEF IndInv, StationInv
<1> QED
  BY <1>2, <1>3, <1>4 DEF StationInv

\* The reasons that concern the whole interface.
LEMMA VifKeeps ==
  ASSUME IndInv, rx.pc = "idle", Quiet(tx), NEW r \in VifStops,
         \/ tx' = IF valid THEN [q \in Txqs |-> Started(tx[q], r)] ELSE tx
         \/ tx' = IF valid THEN [q \in Txqs |-> Stopped(tx[q], r)] ELSE tx,
         need' \in [Hwqs -> BOOLEAN], vif' \in SUBSET VifStops,
         task' \in BOOLEAN, csa' \in BOOLEAN,
         UNCHANGED <<ps, valid, fw, mgmt, del, rx, halted>>
  PROVE  IndInv' /\ Quietly(tx, tx')
<1> DEFINE g == [q \in Txqs |-> Started(tx[q], r)]
           s == [q \in Txqs |-> Stopped(tx[q], r)]
<1>1. r \in Stops /\ r # "sta_ps"
  BY DEF VifStops, Stops
<1>2. Quiet(g) /\ SameFrames(tx, g) /\ StillAsleep(tx, g)
  BY <1>1, AllStarted
<1>3. Quiet(s) /\ SameFrames(tx, s) /\ StillAsleep(tx, s)
  BY <1>1, AllStopped
<1>4. SameFrames(tx, tx) /\ StillAsleep(tx, tx)
  BY DEF SameFrames, StillAsleep
<1>5. tx' = tx \/ tx' = g \/ tx' = s
  OBVIOUS
<1> HIDE DEF g, s
<1>6. Quiet(tx') /\ SameFrames(tx, tx') /\ StillAsleep(tx, tx')
  BY <1>2, <1>3, <1>4, <1>5, Zenon
<1>7. StationInv'
  BY <1>6, StationKept
<1>8. ps' \in Station /\ valid' \in BOOLEAN
  BY DEF IndInv, TypeInv
<1>9. IndInv'
  BY <1>6, <1>7, <1>8, QuietStep
<1> QED
  BY <1>6, <1>9 DEF Quietly

LEMMA RestartNeed ==
  ASSUME IndInv, NEW t, Restart(t)
  PROVE  /\ tx' = t /\ need' \in [Hwqs -> BOOLEAN]
         /\ \A h \in Hwqs : need[h] => need'[h]
         /\ \A q \in Txqs : t[q].sched = TRUE /\ tx[q].sched = FALSE => need'[Hwq[q]]
BY Constants DEF IndInv, TypeInv, Restart

LEMMA VifStartKeeps ==
  ASSUME IndInv, NEW r \in VifStops, VifStart(r)
  PROVE  /\ tx' = IF valid THEN [q \in Txqs |-> Started(tx[q], r)] ELSE tx
         /\ need' \in [Hwqs -> BOOLEAN] /\ vif' \in SUBSET VifStops
BY DEF VifStart, Restart, IndInv, TypeInv

LEMMA VifStopKeeps ==
  ASSUME IndInv, NEW r \in VifStops, VifStop(r)
  PROVE  /\ tx' = IF valid THEN [q \in Txqs |-> Stopped(tx[q], r)] ELSE tx
         /\ need' \in [Hwqs -> BOOLEAN] /\ vif' \in SUBSET VifStops
BY DEF VifStop, IndInv, TypeInv

LEMMA ChanKeeps ==
  ASSUME IndInv, ChanPreSwitch \/ ChanSwitch \/ P2pVifPsOn \/ P2pVifPsOff
  PROVE  IndInv' /\ Quietly(tx, tx')
<1>1. rx.pc = "idle" /\ task = FALSE
  BY DEF ChanPreSwitch, ChanSwitch, P2pVifPsOn, P2pVifPsOff, Indication, IndInv, TypeInv
<1>2. Quiet(tx)
  BY <1>1, NothingGranted
<1>3. "chan" \in VifStops /\ "vif_ps" \in VifStops
  BY DEF VifStops
<1>4. \E r \in VifStops :
        /\ \/ tx' = IF valid THEN [q \in Txqs |-> Started(tx[q], r)] ELSE tx
           \/ tx' = IF valid THEN [q \in Txqs |-> Stopped(tx[q], r)] ELSE tx
        /\ need' \in [Hwqs -> BOOLEAN] /\ vif' \in SUBSET VifStops
  <2>1. CASE ChanPreSwitch
    BY <1>3, <2>1, VifStopKeeps DEF ChanPreSwitch
  <2>2. CASE ChanSwitch
    BY <1>3, <2>2, VifStartKeeps DEF ChanSwitch
  <2>3. CASE P2pVifPsOn
    BY <1>3, <2>3, VifStopKeeps DEF P2pVifPsOn
  <2>4. CASE P2pVifPsOff
    BY <1>3, <2>4, VifStartKeeps DEF P2pVifPsOff
  <2> QED
    BY <2>1, <2>2, <2>3, <2>4
<1>5. task' \in BOOLEAN /\ csa' \in BOOLEAN
      /\ UNCHANGED <<ps, valid, fw, mgmt, del, rx, halted>>
  BY DEF ChanPreSwitch, ChanSwitch, P2pVifPsOn, P2pVifPsOff, Schedule, IndInv, TypeInv
<1> QED
  BY <1>1, <1>2, <1>4, <1>5, VifKeeps

LEMMA CsaKeeps ==
  ASSUME IndInv, Undisturbed, NEW b \in BOOLEAN, CsaTraffic(b) \/ CsaFinish(b)
  PROVE  IndInv' /\ Quietly(tx, tx')
<1>1. rx.pc = "idle" /\ (task = FALSE \/ csa = TRUE)
  BY DEF CsaTraffic, CsaFinish, Indication, Undisturbed, Interrupts, IndInv, TypeInv
<1>2. Quiet(tx)
  BY <1>1, NothingGranted
<1>3. "chan" \in VifStops /\ "csa" \in VifStops
  BY DEF VifStops
<1>4. \E r \in VifStops :
        /\ \/ tx' = IF valid THEN [q \in Txqs |-> Started(tx[q], r)] ELSE tx
           \/ tx' = IF valid THEN [q \in Txqs |-> Stopped(tx[q], r)] ELSE tx
        /\ need' \in [Hwqs -> BOOLEAN] /\ vif' \in SUBSET VifStops
  <2>1. CASE CsaTraffic(b)
    <3>1. VifStart("csa") \/ VifStop("csa")
      BY <2>1 DEF CsaTraffic
    <3> QED
      BY <1>3, <3>1, VifStartKeeps, VifStopKeeps
  <2>2. CASE CsaFinish(b)
    <3>1. VifStart("chan") \/ VifStop("chan")
      BY <2>2 DEF CsaFinish
    <3> QED
      BY <1>3, <3>1, VifStartKeeps, VifStopKeeps
  <2> QED
    BY <2>1, <2>2
<1>5. task' \in BOOLEAN /\ csa' \in BOOLEAN
      /\ UNCHANGED <<ps, valid, fw, mgmt, del, rx, halted>>
  BY DEF CsaTraffic, CsaFinish, IndInv, TypeInv
<1> QED
  BY <1>1, <1>2, <1>4, <1>5, VifKeeps

LEMMA CsaFinishIndKeeps ==
  ASSUME IndInv, CsaFinishInd
  PROVE  IndInv'
<1>1. rx.pc = "idle" /\ task = FALSE /\ csa' = TRUE
      /\ UNCHANGED <<tx, need, task, ps, vif, valid, subq, fw, rx, mgmt, del, halted>>
  BY DEF CsaFinishInd, Indication, IndInv, TypeInv
<1>2. Quiet(tx) /\ Quiet(tx')
  BY <1>1, NothingGranted
<1>3. SameFrames(tx, tx') /\ StillAsleep(tx, tx')
  BY <1>1 DEF SameFrames, StillAsleep
<1>4. StationInv'
  BY <1>1, <1>3, StationKept
<1>5. /\ need' \in [Hwqs -> BOOLEAN] /\ task' \in BOOLEAN /\ ps' \in Station
      /\ valid' \in BOOLEAN /\ csa' \in BOOLEAN /\ vif' \in SUBSET VifStops
  BY <1>1 DEF IndInv, TypeInv
<1> QED
  BY <1>1, <1>2, <1>3, <1>4, <1>5, QuietStep

LEMMA CreditsUpdateKeeps ==
  ASSUME IndInv, NEW q \in Txqs, CreditsUpdate(q)
  PROVE  IndInv' /\ Quietly(tx, tx')
<1> DEFINE u == [tx EXCEPT ![q] = IF @.credits <= 0 THEN Stopped(@, "full")
                                  ELSE Started(@, "full")]
<1>1. rx.pc = "idle" /\ task = FALSE /\ Restart(u)
      /\ UNCHANGED <<task, ps, vif, valid, subq, fw, rx, csa, mgmt, del, halted>>
  BY DEF CreditsUpdate, Indication, IndInv, TypeInv
<1>2. Quiet(tx)
  BY <1>1, NothingGranted
<1>3. Quiet(u) /\ SameFrames(tx, u) /\ StillAsleep(tx, u)
  BY <1>2, OneUpdated
<1> HIDE DEF u
<1>4. tx' = u /\ need' \in [Hwqs -> BOOLEAN]
  BY <1>1, RestartNeed
<1>5. Quiet(tx') /\ SameFrames(tx, tx') /\ StillAsleep(tx, tx')
  BY <1>3, <1>4
<1>6. StationInv'
  BY <1>1, <1>5, StationKept
<1>7. /\ task' \in BOOLEAN /\ ps' \in Station
      /\ valid' \in BOOLEAN /\ csa' \in BOOLEAN /\ vif' \in SUBSET VifStops
  BY <1>1 DEF IndInv, TypeInv
<1>8. IndInv'
  BY <1>1, <1>4, <1>5, <1>6, <1>7, QuietStep
<1> QED
  BY <1>2, <1>5, <1>8 DEF Quietly

LEMMA SpInterruptedKeeps ==
  ASSUME IndInv, SpInterrupted
  PROVE  IndInv' /\ Quietly(tx, tx')
<1> DEFINE u == [q \in Txqs |-> [tx[q] EXCEPT !.limit = 0]]
<1>1. rx.pc = "idle" /\ task = FALSE /\ tx' = u
      /\ ps' = [ps EXCEPT !.sp["uapsd"] = 0]
      /\ UNCHANGED <<need, task, vif, valid, subq, fw, rx, csa, mgmt, del, halted>>
  BY DEF SpInterrupted, Indication, IndInv, TypeInv
<1>2. Quiet(tx)
  BY <1>1, NothingGranted
<1>3. Quiet(u) /\ SameFrames(tx, u) /\ StillAsleep(tx, u)
  BY <1>2, AllUnlimited
<1> HIDE DEF u
<1>5. Quiet(tx') /\ SameFrames(tx, tx') /\ StillAsleep(tx, tx')
  BY <1>1, <1>3
<1>4. ps' \in Station /\ ps'.active = ps.active
  BY <1>1 DEF IndInv, TypeInv, Station
<1>6. StationInv'
  BY <1>1, <1>4, <1>5, StationKept
<1>7. /\ task' \in BOOLEAN /\ need' \in [Hwqs -> BOOLEAN]
      /\ valid' \in BOOLEAN /\ csa' \in BOOLEAN /\ vif' \in SUBSET VifStops
  BY <1>1 DEF IndInv, TypeInv
<1>8. IndInv'
  BY <1>1, <1>4, <1>5, <1>6, <1>7, QuietStep
<1> QED
  BY <1>2, <1>5, <1>8 DEF Quietly

\* The number of frames of one kind.
LEMMA ReadyIsInt ==
  ASSUME NEW t \in [Txqs -> Row], NEW id
  PROVE  Ready(t, id) \in Int
<1> DEFINE f == [q \in Txqs |-> Len(t[q].frames)]
           K == Kind(id)
<1>1. IsFiniteSet(K) /\ K \subseteq Txqs
  BY KindsFinite DEF Kind
<1>2. \A q \in Txqs : Len(t[q].frames) \in Int
  BY RowFields, Elements
<1>3. \A q \in K : f[q] \in Int
  BY <1>1, <1>2
<1> HIDE DEF f, K
<1>4. SumFunctionOnSet(f, K) \in Int
  BY <1>1, <1>3, SumIsInt
<1> QED
  BY <1>4 DEF Ready, f, K

LEMMA PsChangeKeeps ==
  ASSUME IndInv, NEW on \in BOOLEAN, PsChange(on)
  PROVE  IndInv' /\ Quietly(tx, tx')
<1>1. rx.pc = "idle" /\ task = FALSE /\ valid = TRUE
      /\ UNCHANGED <<vif, valid, subq, fw, rx, csa, mgmt, del, halted>>
  BY DEF PsChange, Indication, IndInv, TypeInv
<1>2. Quiet(tx)
  BY <1>1, NothingGranted
<1>3. /\ Quiet(tx') /\ SameFrames(tx, tx') /\ need' \in [Hwqs -> BOOLEAN]
      /\ task' \in BOOLEAN /\ ps' \in Station /\ (ps'.active => Asleep(tx'))
  <2>1. CASE on
    <3> DEFINE s == [q \in Txqs |-> Stopped(tx[q], "sta_ps")]
               ready == [id \in Ids |-> Ready(tx, id) % U16]
               sp == [id \in Ids |-> 0]
    <3>1. PsOn /\ UNCHANGED <<need, task>>
      BY <2>1 DEF PsChange
    <3>2. tx' = s /\ ps' = [active |-> TRUE, ready |-> ready, sp |-> sp]
      BY <3>1 DEF PsOn
    <3>3. "sta_ps" \in Stops
      BY DEF Stops
    <3>4. Quiet(s) /\ SameFrames(tx, s) /\ Asleep(s)
      BY <1>2, <3>3, AllStopped
    <3>5. ready \in [Ids -> Int] /\ sp \in [Ids -> Int]
      <4>1. \A id \in Ids : Ready(tx, id) % U16 \in Int
        BY ReadyIsInt DEF U16, IndInv, TypeInv
      <4> QED
        BY <4>1
    <3> HIDE DEF s, ready, sp
    <3>6. ps' \in Station
      BY <3>2, <3>5 DEF Station
    <3> QED
      BY <3>1, <3>2, <3>4, <3>6 DEF IndInv, TypeInv
  <2>2. CASE ~on
    <3> DEFINE w == [q \in Txqs |-> Started([tx[q] EXCEPT !.limit = 0], "sta_ps")]
    <3>1. Restart(w) /\ ps' = [ps EXCEPT !.active = FALSE] /\ task' = TRUE
      BY <2>2 DEF PsChange, Schedule
    <3>2. Quiet(w) /\ SameFrames(tx, w)
      BY <1>2, AllUnlimited
    <3> HIDE DEF w
    <3>3. tx' = w /\ need' \in [Hwqs -> BOOLEAN]
      BY <3>1, RestartNeed
    <3>4. ps' \in Station /\ ps'.active = FALSE
      BY <3>1 DEF IndInv, TypeInv, Station
    <3> QED
      BY <3>1, <3>2, <3>3, <3>4
  <2> QED
    BY <2>1, <2>2
<1>4. StationInv'
  <2>1. \A q \in Txqs : tx'[q].active = tx[q].active
    BY <1>3 DEF SameFrames
  <2>2. del' # None => tx'[del'].active = FALSE
    BY <1>1, <2>1 DEF IndInv, TypeInv, StationInv
  <2>3. valid' => \A q \in Txqs : tx'[q].active = TRUE
    BY <1>1, <2>1 DEF IndInv, StationInv
  <2> QED
    BY <1>1, <1>3, <2>2, <2>3 DEF StationInv
<1>5. valid' \in BOOLEAN /\ csa' \in BOOLEAN /\ vif' \in SUBSET VifStops
  BY <1>1 DEF IndInv, TypeInv
<1>6. IndInv'
  BY <1>1, <1>3, <1>4, <1>5, QuietStep
<1> QED
  BY <1>2, <1>3, <1>6 DEF Quietly

\* What the station is told of a new frame.
ReadyWith(f) ==
    IF ps.active THEN [ps.ready EXCEPT ![PsId[Tid[f]]] = (@ + 1) % U16] ELSE ps.ready

\* The processing of the lists hs leaves the queues u, the counters of p and
\* the frames w with the firmware.
ProcessedNow(t, r, hs, u, m, p, w) ==
    \E n \in [Hwqs -> BOOLEAN] : Processed(ps, fw, t, n, r, hs, u, m, p, w)

\* rwnx_hwq_process, on queues t that have at most gained a frame.
LEMMA AfterProcess ==
  ASSUME IndInv, rx.pc = "idle",
         NEW t \in [Txqs -> Row], QueuesSane(t), QueuesListed(t), Parted(t, fw),
         NEW n \in [Hwqs -> BOOLEAN], NEW r \in [Ids -> Int], NEW hs,
         \A q \in Txqs : t[q].active /\ t[q].limit > 0 => task /\ csa = FALSE /\ n[Hwq[q]],
         \A q \in Txqs : t[q].active = tx[q].active /\ t[q].stop = tx[q].stop,
         Processed(ps, fw, t, n, r, hs, tx', need', ps', fw'),
         task' = TRUE \/ (task' = FALSE /\ ~task) \/
            (task' = FALSE /\ \A q \in Txqs : t[q].active /\ t[q].limit > 0 => Hwq[q] \in hs),
         mgmt' \in Frames \cup {None},
         mgmt' # None => /\ mgmt' \in Of(Mgmt) /\ mgmt' \notin fw
                         /\ mgmt' \notin ToSet(t[Mgmt].frames),
         UNCHANGED <<vif, valid, rx, csa, del, halted>>
  PROVE  IndInv' /\ OnlyServed(t, tx', need', hs)
<1>1. /\ ps \in Station /\ fw \in SUBSET Frames /\ task \in BOOLEAN /\ csa \in BOOLEAN
      /\ StationInv /\ PlaceInv /\ RetryInv /\ rx.f = None
  BY IdleIs DEF IndInv, TypeInv
<1>2. \A q \in Txqs : t[q].active /\ t[q].limit > 0 => n[Hwq[q]]
  OBVIOUS
<1>3. /\ tx' \in [Txqs -> Row] /\ QueuesSane(tx') /\ QueuesListed(tx')
      /\ Parted(tx', fw') /\ need' \in [Hwqs -> BOOLEAN]
      /\ ps' \in Station /\ ps'.active = ps.active
      /\ fw' \subseteq fw \cup UNION {ToSet(t[q].frames) : q \in Txqs}
      /\ OnlyServed(t, tx', need', hs)
  BY <1>1, <1>2, ProcessKeeps
<1>4. ASSUME NEW q \in Txqs
      PROVE  /\ tx'[q].active = tx[q].active /\ tx'[q].stop = tx[q].stop
             /\ ToSet(tx'[q].frames) \subseteq ToSet(t[q].frames)
             /\ tx'[q].active /\ tx'[q].limit > 0 =>
                   t[q].limit > 0 /\ t[q].active /\ need'[Hwq[q]] /\ Hwq[q] \notin hs
  BY <1>3 DEF OnlyServed
<1>5. \A q \in Txqs : ToSet(t[q].frames) \subseteq Of(q)
  BY DEF QueuesSane, Good
<1>6. TypeInv'
  <2>1. fw' \in SUBSET Frames
    BY <1>1, <1>3, <1>5 DEF Of
  <2> QED
    BY <1>3, <2>1 DEF IndInv, TypeInv
<1>7. ListedInv'
  BY <1>3 DEF ListedInv, QueuesListed
<1>8. GrantInv'
  <2> SUFFICES ASSUME NEW q \in Txqs, tx'[q].active, tx'[q].limit > 0
               PROVE  task' = TRUE /\ csa' = FALSE /\ need'[Hwq[q]]
    BY DEF GrantInv
  <2>1. t[q].limit > 0 /\ t[q].active /\ need'[Hwq[q]] /\ Hwq[q] \notin hs
    BY <1>4
  <2>2. task /\ csa = FALSE
    BY <2>1
  <2> QED
    BY <2>1, <2>2
<1>9. PlaceInv'
  <2> SUFFICES ASSUME mgmt' # None
               PROVE  /\ mgmt' \in Of(Mgmt) /\ mgmt' \notin fw'
                      /\ mgmt' \notin ToSet(tx'[Mgmt].frames)
    BY <1>3 DEF PlaceInv
  <2>1. mgmt' \in Of(Mgmt) /\ mgmt' \notin fw /\ mgmt' \notin ToSet(t[Mgmt].frames)
    OBVIOUS
  <2>2. \A q \in Txqs : mgmt' \notin ToSet(t[q].frames)
    BY <1>5, <2>1 DEF Of
  <2>3. mgmt' \notin fw'
    BY <1>3, <2>1, <2>2
  <2> QED
    BY <1>4, <2>1, <2>3, Constants
<1>10. StationInv'
  <2>1. ps'.active => valid' = TRUE /\ Asleep(tx')
    BY <1>1, <1>3, <1>4 DEF StationInv, Asleep
  <2>2. del' # None => tx'[del'].active = FALSE
    BY <1>1, <1>4 DEF StationInv, IndInv, TypeInv
  <2>3. valid' => \A q \in Txqs : tx'[q].active = TRUE
    BY <1>1, <1>4 DEF StationInv
  <2> QED
    BY <2>1, <2>2, <2>3 DEF StationInv
<1>11. RetryInv'
  BY <1>1 DEF RetryInv
<1> QED
  BY <1>3, <1>6, <1>7, <1>8, <1>9, <1>10, <1>11 DEF IndInv

\* rwnx_task serves every hardware queue that needs it: nothing that was
\* granted is left.
LEMMA TaskKeeps ==
  ASSUME IndInv, Undisturbed, Task
  PROVE  /\ IndInv' /\ OnlyServed(tx, tx', need', {h \in Hwqs : need[h]})
         /\ ProcessedNow(tx, ps.ready, {h \in Hwqs : need[h]}, tx', need', ps', fw')
<1> DEFINE hs == {h \in Hwqs : need[h]}
<1>1. rx.pc = "idle" /\ task' = FALSE /\ Process(tx, need, ps.ready, hs)
      /\ UNCHANGED <<vif, valid, rx, csa, mgmt, del>>
  BY DEF Task, Undisturbed, Interrupts
<1>2. /\ tx \in [Txqs -> Row] /\ QueuesSane(tx) /\ need \in [Hwqs -> BOOLEAN]
      /\ ps.ready \in [Ids -> Int] /\ Parted(tx, fw) /\ halted = FALSE
  BY DEF IndInv, TypeInv, PlaceInv, Station
<1>3. QueuesListed(tx)
  BY <1>1, IdleIs
<1>4. \A q \in Txqs : tx[q].active /\ tx[q].limit > 0 =>
                         task /\ csa = FALSE /\ need[Hwq[q]]
  BY DEF IndInv, GrantInv
<1>5. \A q \in Txqs : tx[q].active /\ tx[q].limit > 0 => Hwq[q] \in hs
  BY <1>4, Constants
<1> HIDE DEF hs
<1>6. Processed(ps, fw, tx, need, ps.ready, hs, tx', need', ps', fw') /\ halted' = halted
  <2>1. ~ \E q \in OnLists(tx, hs) : Bug(tx[q])
    BY <1>2, NoBug
  <2>2. UNION {[p \in OnLists(tx, hs) |-> Pushed(tx[p])][q] : q \in OnLists(tx, hs)}
          = UNION {Pushed(tx[q]) : q \in OnLists(tx, hs)}
    OBVIOUS
  <2> QED
    BY <1>1, <2>1, <2>2, Zenon
    DEF Process, Processed, OnLists, Popped, Cut, Pushed, StationServed
<1>7. /\ mgmt' \in Frames \cup {None}
      /\ mgmt' # None => /\ mgmt' \in Of(Mgmt) /\ mgmt' \notin fw
                         /\ mgmt' \notin ToSet(tx[Mgmt].frames)
  BY <1>1 DEF IndInv, TypeInv, PlaceInv
<1>8. IndInv' /\ OnlyServed(tx, tx', need', hs)
  BY <1>1, <1>2, <1>3, <1>4, <1>5, <1>6, <1>7, AfterProcess
<1>9. ProcessedNow(tx, ps.ready, hs, tx', need', ps', fw')
  BY <1>2, <1>6 DEF ProcessedNow
<1> QED
  BY <1>8, <1>9 DEF hs

\* The queues with the frame f that is new, and the lists that are processed.
WithNew(f) ==
    [tx EXCEPT ![Tid[f]] = WithFrames(Tid[f], @, Append(@.frames, f))]
ListsOf(f) == IF WithNew(f)[Tid[f]].stop = {} THEN {Hwq[Tid[f]]} ELSE {}

LEMMA WithNewIs ==
  ASSUME IndInv, rx.pc = "idle", NEW f \in Frames, f \notin fw,
         f \notin ToSet(tx[Tid[f]].frames)
  PROVE  LET t == WithNew(f) IN
         /\ t \in [Txqs -> Row] /\ QueuesSane(t) /\ QueuesListed(t) /\ Parted(t, fw)
         /\ \A q \in Txqs : /\ t[q].active = tx[q].active /\ t[q].stop = tx[q].stop
                            /\ t[q].limit = tx[q].limit
                            /\ q # Tid[f] => t[q] = tx[q]
                            /\ ToSet(t[q].frames) \subseteq ToSet(tx[q].frames) \cup {f}
                            /\ Len(t[q].frames) \in Nat /\ Len(t[q].frames) >= Len(tx[q].frames)
<1> DEFINE t == WithNew(f)
           p == Tid[f]
           v == tx[p]
           u == WithFrames(p, v, Append(v.frames, f))
<1>1. p \in Txqs /\ f \in Of(p)
  BY Constants DEF Of
<1>2. /\ tx \in [Txqs -> Row] /\ QueuesListed(tx) /\ Parted(tx, fw)
      /\ \A q \in Txqs : Good(q, tx[q]) /\ (tx[q].active => Sane(tx[q]))
  BY IdleIs DEF IndInv, TypeInv, PlaceInv, QueuesSane
<1>3. DOMAIN t = Txqs /\ t = [q \in Txqs |-> t[q]] /\ t[p] = u
      /\ \A q \in Txqs : q # p => t[q] = tx[q]
  BY <1>1, <1>2 DEF WithNew
<1> HIDE DEF t
<1>4. /\ Good(p, u) /\ u.active = v.active
      /\ Len(u.frames) = Len(v.frames) + 1 /\ ToSet(u.frames) = ToSet(v.frames) \cup {f}
      /\ u.limit = v.limit /\ u.stop = v.stop
      /\ v.active => Sane(u) /\ Listed(u)
  <2>1. Good(p, v)
    BY <1>1, <1>2
  <2>2. v.active => Sane(v)
    BY <1>1, <1>2
  <2>3. f \notin ToSet(v.frames) /\ f \in Of(p)
    BY <1>1
  <2> HIDE DEF p, v
  <2> QED
    <3>1. Gained(p, v, f, u)
      BY <2>1, <2>2, <2>3, QueuedKeeps
    <3> HIDE DEF u
    <3> QED
      BY <3>1 DEF Gained
<1>5. \A q \in Txqs : Len(tx[q].frames) \in Nat
  BY <1>2, RowFields, Elements
<1>6. ASSUME NEW q \in Txqs
      PROVE  /\ Good(q, t[q]) /\ t[q].active = tx[q].active /\ t[q].stop = tx[q].stop
             /\ t[q].limit = tx[q].limit
             /\ t[q].active => Sane(t[q]) /\ Listed(t[q])
             /\ q # p => t[q] = tx[q]
             /\ ToSet(t[q].frames) \subseteq ToSet(tx[q].frames) \cup {f}
             /\ Len(t[q].frames) \in Nat /\ Len(t[q].frames) >= Len(tx[q].frames)
  <2> HIDE DEF p, v, u
  <2>1. CASE q = p
    <3>1. v = tx[q] /\ t[q] = u
      BY <1>3, <2>1 DEF v
    <3>2. Len(u.frames) \in Nat /\ Len(u.frames) >= Len(v.frames)
      BY <1>4, <1>5, <3>1
    <3> QED
      BY <1>4, <2>1, <3>1, <3>2
  <2>2. CASE q # p
    <3>1. t[q] = tx[q] /\ (tx[q].active => Listed(tx[q]))
      BY <1>2, <1>3, <2>2 DEF QueuesListed
    <3>2. Len(tx[q].frames) >= Len(tx[q].frames)
      BY <1>5
    <3> QED
      BY <1>2, <1>5, <2>2, <3>1, <3>2
  <2> QED
    BY <2>1, <2>2
<1> HIDE DEF p, v, u
<1>7. t \in [Txqs -> Row]
  BY <1>3, <1>6 DEF Good
<1>8. QueuesSane(t) /\ QueuesListed(t)
  BY <1>6, Zenon DEF QueuesSane, QueuesListed
<1>9. Parted(t, fw)
  BY <1>2, <1>6 DEF Parted
<1> QED
  BY <1>6, <1>7, <1>8, <1>9 DEF t, p

LEMMA QueueKeeps ==
  ASSUME IndInv, rx.pc = "idle", NEW f \in Frames, f \notin fw,
         f \notin ToSet(tx[Tid[f]].frames), QueueAndProcess(f),
         (mgmt' = mgmt /\ mgmt # f) \/ mgmt' = None,
         UNCHANGED <<task, vif, valid, rx, csa, del>>
  PROVE  /\ IndInv' /\ OnlyServed(WithNew(f), tx', need', ListsOf(f))
         /\ ProcessedNow(WithNew(f), ReadyWith(f), ListsOf(f), tx', need', ps', fw')
<1> DEFINE t == WithNew(f)
           q0 == Tid[f]
           n == [need EXCEPT ![Hwq[q0]] = @ \/ (t[q0].sched /\ ~tx[q0].sched)]
           r == ReadyWith(f)
           hs == ListsOf(f)
<1>1. Process(t, n, r, hs)
  BY DEF QueueAndProcess, WithNew, ListsOf, ReadyWith
<1>2. /\ t \in [Txqs -> Row] /\ QueuesSane(t) /\ QueuesListed(t) /\ Parted(t, fw)
      /\ \A q \in Txqs : /\ t[q].active = tx[q].active /\ t[q].stop = tx[q].stop
                         /\ t[q].limit = tx[q].limit
                         /\ q # Tid[f] => t[q] = tx[q]
                         /\ ToSet(t[q].frames) \subseteq ToSet(tx[q].frames) \cup {f}
  BY WithNewIs
<1> HIDE DEF t
<1>3. need \in [Hwqs -> BOOLEAN] /\ ps \in Station /\ q0 \in Txqs /\ tx \in [Txqs -> Row]
      /\ task \in BOOLEAN
  BY Constants DEF IndInv, TypeInv
<1>4. /\ n \in [Hwqs -> BOOLEAN]
      /\ \A h \in Hwqs : need[h] => n[h]
  <2>1. t[q0].sched \in BOOLEAN /\ tx[q0].sched \in BOOLEAN /\ Hwq[q0] \in Hwqs
    BY <1>2, <1>3, RowFields, Constants
  <2> HIDE DEF q0
  <2> QED
    BY <1>3, <2>1
<1>5. r \in [Ids -> Int]
  <2>1. PsId[q0] \in Ids /\ ps.ready \in [Ids -> Int]
    BY <1>3, Constants DEF Station
  <2>2. (ps.ready[PsId[q0]] + 1) % U16 \in Int
    BY <2>1 DEF U16
  <2>3. r = IF ps.active THEN [ps.ready EXCEPT ![PsId[q0]] = (@ + 1) % U16]
            ELSE ps.ready
    BY DEF ReadyWith
  <2> HIDE DEF q0, r
  <2> QED
    BY <2>1, <2>2, <2>3
<1>6. Processed(ps, fw, t, n, r, hs, tx', need', ps', fw') /\ halted' = halted
  <2> HIDE DEF n, r, hs, q0
  <2>1. ~ \E q \in OnLists(t, hs) : Bug(t[q])
    BY <1>2, NoBug
  <2>2. UNION {[p \in OnLists(t, hs) |-> Pushed(t[p])][q] : q \in OnLists(t, hs)}
          = UNION {Pushed(t[q]) : q \in OnLists(t, hs)}
    OBVIOUS
  <2> QED
    BY <1>1, <2>1, <2>2, Zenon
    DEF Process, Processed, OnLists, Popped, Cut, Pushed, StationServed
<1>7. \A q \in Txqs : t[q].active /\ t[q].limit > 0 => task /\ csa = FALSE /\ n[Hwq[q]]
  <2>1. \A q \in Txqs : tx[q].active /\ tx[q].limit > 0 =>
                           task /\ csa = FALSE /\ need[Hwq[q]]
    BY DEF IndInv, GrantInv
  <2> HIDE DEF n
  <2> QED
    BY <1>2, <1>4, <2>1, Constants
<1>8. \A q \in Txqs : t[q].active = tx[q].active /\ t[q].stop = tx[q].stop
  BY <1>2
<1>9. /\ mgmt' \in Frames \cup {None}
      /\ mgmt' # None => /\ mgmt' \in Of(Mgmt) /\ mgmt' \notin fw
                         /\ mgmt' \notin ToSet(t[Mgmt].frames)
  <2>1. CASE mgmt' = None
    BY <2>1
  <2>2. CASE mgmt' # None
    <3>1. mgmt' = mgmt /\ mgmt # f /\ mgmt # None
      BY <2>2
    <3>2. /\ mgmt \in Frames \cup {None} /\ mgmt \in Of(Mgmt) /\ mgmt \notin fw
          /\ mgmt \notin ToSet(tx[Mgmt].frames)
      BY <3>1 DEF IndInv, TypeInv, PlaceInv
    <3>3. ToSet(t[Mgmt].frames) \subseteq ToSet(tx[Mgmt].frames) \cup {f}
      BY <1>2, Constants
    <3> QED
      BY <3>1, <3>2, <3>3
  <2> QED
    BY <2>1, <2>2
<1>10. task' = TRUE \/ (task' = FALSE /\ ~task)
  BY <1>3
<1> HIDE DEF n, r, hs, q0
<1>11. IndInv' /\ OnlyServed(t, tx', need', hs)
  BY <1>2, <1>4, <1>5, <1>6, <1>7, <1>8, <1>9, <1>10, AfterProcess
<1>12. ProcessedNow(t, r, hs, tx', need', ps', fw')
  BY <1>4, <1>6 DEF ProcessedNow
<1> QED
  BY <1>11, <1>12 DEF t, hs, r

LEMMA FreeIs ==
  ASSUME NEW f \in Free
  PROVE  /\ f \in Frames /\ f \notin fw /\ f # mgmt /\ f # rx.f
         /\ \A q \in Txqs : f \notin ToSet(tx[q].frames)
<1>1. f # None
  BY Constants DEF Free
<1> QED
  BY <1>1 DEF Free, Held, Queued

LEMMA IntfTxKeeps ==
  ASSUME IndInv, Undisturbed, NEW f \in Free, IntfTx(f)
  PROVE  /\ IndInv' /\ OnlyServed(WithNew(f), tx', need', ListsOf(f))
         /\ ProcessedNow(WithNew(f), ReadyWith(f), ListsOf(f), tx', need', ps', fw')
<1>1. rx.pc = "idle" /\ QueueAndProcess(f)
      /\ UNCHANGED <<task, vif, valid, rx, csa, mgmt, del>>
  BY DEF IntfTx, Undisturbed, Interrupts
<1>2. f \in Frames /\ f \notin fw /\ f # mgmt /\ f \notin ToSet(tx[Tid[f]].frames)
  BY FreeIs, Constants
<1> QED
  BY <1>1, <1>2, QueueKeeps

LEMMA MgmtXmitKeeps ==
  ASSUME IndInv, Undisturbed, MgmtXmit
  PROVE  /\ IndInv' /\ OnlyServed(WithNew(mgmt), tx', need', ListsOf(mgmt))
         /\ ProcessedNow(WithNew(mgmt), ReadyWith(mgmt), ListsOf(mgmt), tx', need', ps', fw')
<1>1. rx.pc = "idle" /\ QueueAndProcess(mgmt) /\ mgmt # None /\ mgmt' = None
      /\ UNCHANGED <<task, vif, valid, rx, csa, del>>
  BY DEF MgmtXmit, Undisturbed, Interrupts
<1>2. mgmt \in Frames /\ mgmt \notin fw /\ mgmt \notin ToSet(tx[Tid[mgmt]].frames)
  BY <1>1 DEF IndInv, TypeInv, PlaceInv, Of
<1> QED
  BY <1>1, <1>2, QueueKeeps

LEMMA MgmtCheckKeeps ==
  ASSUME IndInv, Undisturbed, NEW f \in Free, MgmtCheck(f)
  PROVE  IndInv'
<1>1. /\ rx.pc = "idle" /\ mgmt' = f /\ Tid[f] = Mgmt
      /\ UNCHANGED <<tx, need, task, ps, vif, valid, subq, fw, rx, csa, del, halted>>
  BY DEF MgmtCheck, Undisturbed, Interrupts
<1>2. f \in Frames /\ f \notin fw /\ f \notin ToSet(tx[Mgmt].frames)
  BY FreeIs, Constants
<1>3. TypeInv' /\ QueuesSane(tx')
  BY <1>1, <1>2 DEF IndInv, TypeInv
<1>4. ListedInv' /\ GrantInv'
  BY <1>1 DEF IndInv, ListedInv, GrantInv
<1>5. PlaceInv'
  BY <1>1, <1>2 DEF IndInv, PlaceInv, Of
<1>6. StationInv'
  BY <1>1 DEF IndInv, StationInv
<1>7. RetryInv'
  BY <1>1 DEF IndInv, RetryInv
<1> QED
  BY <1>3, <1>4, <1>5, <1>6, <1>7 DEF IndInv

-----------------------------------------------------------------------------
(* rwnx_txdatacfm.                                                         *)

LEMMA OneRow ==
  ASSUME NEW t \in [Txqs -> Row], QueuesSane(t), NEW p \in Txqs, NEW u,
         Good(p, u), u.active => Sane(u)
  PROVE  LET s == [t EXCEPT ![p] = u] IN
         /\ s \in [Txqs -> Row] /\ QueuesSane(s) /\ s[p] = u
         /\ \A q \in Txqs : q # p => s[q] = t[q]
<1> DEFINE s == [t EXCEPT ![p] = u]
<1>1. s \in [Txqs -> Row] /\ s[p] = u /\ \A q \in Txqs : q # p => s[q] = t[q]
  BY DEF Good
<1> HIDE DEF s
<1>2. \A q \in Txqs : Good(q, s[q]) /\ (s[q].active => Sane(s[q]))
  BY <1>1 DEF QueuesSane
<1>3. QueuesSane(s)
  BY <1>2, Zenon DEF QueuesSane
<1> QED
  BY <1>1, <1>3 DEF s

\* A confirmed frame leaves the queue as it is: what is granted is on its list.
LEMMA CfmDoneKeeps ==
  ASSUME IndInv, NEW f \in Frames, CfmDone(f)
  PROVE  IndInv' /\ tx' = tx
<1> DEFINE q == Tid[f]
<1>1. /\ q \in Txqs /\ Hwq[q] \in Hwqs /\ tx \in [Txqs -> Row] /\ need \in [Hwqs -> BOOLEAN]
  BY Constants DEF IndInv, TypeInv
<1>2. /\ rx.pc = "idle" /\ fw' = fw \ {f}
      /\ tx' = [tx EXCEPT ![q].sched =
                   @ \/ (tx[q].active /\ tx[q].limit # 0 /\ "full" \notin tx[q].stop)]
      /\ need' = [need EXCEPT ![Hwq[q]] = TRUE]
      /\ UNCHANGED <<task, ps, vif, valid, subq, rx, csa, mgmt, del, halted>>
  BY DEF CfmDone
<1> HIDE DEF q
<1>3. tx[q].active /\ tx[q].limit # 0 => tx[q].sched = TRUE
  <2>1. tx[q].limit \in Nat
    BY <1>1, RowFields
  <2>2. tx[q].active => Sane(tx[q])
    BY <1>1 DEF IndInv, QueuesSane
  <2> QED
    BY <2>1, <2>2 DEF Sane, Granted
<1>4. tx' = tx
  <2>1. tx[q].sched \in BOOLEAN
    BY <1>1, RowFields
  <2>2. (tx[q].sched \/ (tx[q].active /\ tx[q].limit # 0 /\ "full" \notin tx[q].stop)) = tx[q].sched
    BY <1>3, <2>1
  <2>3. tx' = [tx EXCEPT ![q].sched = tx[q].sched]
    BY <1>2, <2>2
  <2> QED
    BY <1>1, <2>3 DEF Row
<1>5. need' \in [Hwqs -> BOOLEAN] /\ \A h \in Hwqs : need[h] => need'[h]
  BY <1>1, <1>2
<1>6. TypeInv'
  BY <1>2, <1>4, <1>5 DEF IndInv, TypeInv
<1>7. QueuesSane(tx') /\ ListedInv' /\ StationInv' /\ RetryInv'
  <2>1. QueuesSane(tx')
    BY <1>4 DEF IndInv
  <2>2. ListedInv'
    BY <1>2, <1>4 DEF IndInv, ListedInv
  <2>3. StationInv'
    BY <1>2, <1>4 DEF IndInv, StationInv
  <2>4. RetryInv'
    BY <1>2 DEF IndInv, RetryInv
  <2> QED
    BY <2>1, <2>2, <2>3, <2>4
<1>8. GrantInv'
  BY <1>2, <1>4, <1>5, Constants DEF IndInv, GrantInv
<1>9. PlaceInv'
  BY <1>2, <1>4 DEF IndInv, PlaceInv, Parted
<1> QED
  BY <1>4, <1>6, <1>7, <1>8, <1>9 DEF IndInv

\* The frames and the grants stay as they are, or p gains a frame.
SameCounts(t, u) ==
    \A q \in Txqs : u[q].frames = t[q].frames /\ u[q].limit = t[q].limit
LinkedIn(t, p, w) ==
    \A q \in Txqs : /\ w[q].limit = t[q].limit
                    /\ q # p => Len(w[q].frames) = Len(t[q].frames)
                    /\ q = p => Len(w[q].frames) = Len(t[q].frames) + 1

\* The frame f is linked behind the retries of p, and not yet counted.
Relinked(t, p, f, w) ==
    /\ w[p].frames = InsertAt(t[p].frames, t[p].nbRetry + 1, f)
    /\ w[p].nbRetry = t[p].nbRetry /\ w[p].active = t[p].active
    /\ \A q \in Txqs : q # p => w[q] = t[q]

LEMMA LinkedInIs ==
  ASSUME NEW t, NEW p \in Txqs, NEW w, \A q \in Txqs : q # p => w[q] = t[q],
         Len(w[p].frames) = Len(t[p].frames) + 1, w[p].limit = t[p].limit
  PROVE  LinkedIn(t, p, w)
BY Zenon DEF LinkedIn

LEMMA CreditedKeeps ==
  ASSUME NEW q, NEW t, Good(q, t), Sane(t), NEW c \in Nat, c >= t.credits, c <= CreditMax
  PROVE  LET u == [t EXCEPT !.credits = c] IN
         /\ Good(q, u) /\ Sane(u) /\ (Listed(t) => Listed(u)) /\ u.credits = c
         /\ u.frames = t.frames /\ u.stop = t.stop /\ u.limit = t.limit
         /\ u.active = t.active /\ u.last = t.last /\ u.sched = t.sched
<1> DEFINE u == [t EXCEPT !.credits = c]
<1>0. t \in Row /\ CreditMax \in Nat /\ t.credits >= 1 /\ t.credits \in Int /\ t.limit \in Nat
  BY TxqAssumption, RowFields DEF Good, Sane, Granted
<1>1. c \in (-CreditMax - 1)..CreditMax
  BY <1>0
<1>2. /\ u \in Row /\ u.credits = c
      /\ u.frames = t.frames /\ u.stop = t.stop /\ u.limit = t.limit /\ u.nbRetry = t.nbRetry
      /\ u.active = t.active /\ u.last = t.last /\ u.sched = t.sched
  BY <1>0, <1>1 DEF Row
<1> HIDE DEF u
<1>3. Good(q, u)
  BY <1>2 DEF Good
<1>4. Granted(u)
  BY <1>0, <1>2 DEF Sane, Granted
<1>5. Retries(u)
  BY <1>2 DEF Sane, Retries
<1>6. OnList(u)
  BY <1>2 DEF Sane, OnList
<1>7. Listed(t) => Listed(u)
  BY <1>2 DEF Listed
<1> QED
  BY <1>2, <1>3, <1>4, <1>5, <1>6, <1>7 DEF Sane, u

\* rwnx_tx_retry, up to the list.
LEMMA CfmRetryKeeps ==
  ASSUME IndInv, Undisturbed, NEW f \in Frames, CfmRetry(f)
  PROVE  IndInv' /\ SameCounts(tx, tx')
<1> DEFINE p == Tid[f]
           c == Incremented(tx[p].credits)
           v == [tx[p] EXCEPT !.credits = c]
           u == Started(v, "full")
<1>1. p \in Txqs /\ Hwq[p] \in Hwqs /\ tx \in [Txqs -> Row] /\ need \in [Hwqs -> BOOLEAN]
      /\ ps \in Station
  BY Constants DEF IndInv, TypeInv
<1>2. /\ rx.pc = "idle" /\ f \in fw /\ p # Mgmt /\ tx[p].active /\ tx[p].credits # CreditMax
      /\ fw' = fw \ {f}
      /\ tx' = [tx EXCEPT ![p] = IF c > 0 THEN u ELSE v]
      /\ need' = [need EXCEPT ![Hwq[p]] = TRUE]
      /\ ps' = (IF ps.active THEN [ps EXCEPT !.ready[PsId[p]] = (@ + 1) % U16] ELSE ps)
      /\ rx' = [pc |-> "link", f |-> f, last |-> tx[p].last]
      /\ UNCHANGED <<task, vif, valid, subq, csa, mgmt, del, halted>>
  BY DEF CfmRetry, Undisturbed, Wraps
<1>3. Good(p, tx[p]) /\ Sane(tx[p]) /\ Listed(tx[p]) /\ QueuesListed(tx)
  BY <1>1, <1>2, IdleIs DEF IndInv, QueuesSane, QueuesListed
<1>4. c = tx[p].credits + 1 /\ c \in Nat /\ c <= CreditMax /\ c > 0 /\ c >= tx[p].credits
  <2>1. /\ CreditMax \in Nat /\ tx[p].credits \in Int /\ tx[p].credits >= 1
        /\ tx[p].credits <= CreditMax
    BY <1>1, <1>3, TxqAssumption, RowFields DEF Sane, Granted
  <2> QED
    BY <1>2, <2>1 DEF Incremented
<1> HIDE DEF p, c
<1>5. /\ Good(p, v) /\ Sane(v) /\ Listed(v)
      /\ v.frames = tx[p].frames /\ v.stop = tx[p].stop /\ v.limit = tx[p].limit
      /\ v.active = tx[p].active /\ v.last = tx[p].last /\ v.sched = tx[p].sched
  BY <1>3, <1>4, CreditedKeeps
<1> HIDE DEF v
<1>6. /\ Good(p, u) /\ Sane(u) /\ Listed(u) /\ u.active = v.active /\ u.frames = v.frames
      /\ u.limit = v.limit /\ u.last = v.last
      /\ "sta_ps" \in v.stop => "sta_ps" \in u.stop
  <2>1. "full" \in Stops /\ "full" # "sta_ps" /\ v.active
    BY <1>2, <1>5 DEF Stops
  <2>2. v.active => Sane(v)
    BY <1>5
  <2>3. v.limit > 0 => "full" # "sta_ps"
    OBVIOUS
  <2> DEFINE w == Started(v, "full")
  <2>4. /\ Good(p, w) /\ w.active = v.active /\ w.frames = v.frames
        /\ w.limit = v.limit
        /\ v.active => Sane(w) /\ (Listed(v) => Listed(w))
        /\ w.nbRetry = v.nbRetry /\ w.last = v.last
        /\ v.sched = TRUE => w.sched = TRUE
        /\ "full" # "sta_ps" /\ "sta_ps" \in v.stop => "sta_ps" \in w.stop
    BY <1>5, <2>1, <2>2, <2>3, StartedKeeps, Zenon
  <2> HIDE DEF w
  <2>5. u = w
    BY DEF w
  <2> HIDE DEF u
  <2> QED
    BY <1>5, <2>1, <2>4, <2>5
<1> HIDE DEF u
<1>7. tx' = [tx EXCEPT ![p] = u]
  BY <1>2, <1>4
<1>8. /\ tx' \in [Txqs -> Row] /\ QueuesSane(tx') /\ tx'[p] = u
      /\ \A q \in Txqs : q # p => tx'[q] = tx[q]
  BY <1>1, <1>6, <1>7, OneRow DEF IndInv
<1>9. ASSUME NEW q \in Txqs
      PROVE  /\ tx'[q].frames = tx[q].frames /\ tx'[q].active = tx[q].active
             /\ tx'[q].limit = tx[q].limit
             /\ "sta_ps" \in tx[q].stop => "sta_ps" \in tx'[q].stop
             /\ tx'[q].active => Listed(tx'[q])
  BY <1>3, <1>5, <1>6, <1>8 DEF QueuesListed
<1>10. need' \in [Hwqs -> BOOLEAN] /\ \A h \in Hwqs : need[h] => need'[h]
  BY <1>1, <1>2
<1>11. ps' \in Station /\ ps'.active = ps.active
  <2>1. PsId[p] \in Ids /\ ps.ready \in [Ids -> Int]
    BY <1>1, Constants DEF Station
  <2>2. (ps.ready[PsId[p]] + 1) % U16 \in Int
    BY <2>1 DEF U16
  <2> DEFINE a == (ps.ready[PsId[p]] + 1) % U16
             ready == [ps.ready EXCEPT ![PsId[p]] = a]
  <2>3. ready \in [Ids -> Int]
    BY <2>1, <2>2
  <2>4. ps' = IF ps.active THEN [ps EXCEPT !.ready = ready] ELSE ps
    BY <1>1, <1>2 DEF Station
  <2> HIDE DEF ready
  <2> QED
    BY <1>1, <2>3, <2>4 DEF Station
<1>12. TypeInv'
  <2>1. tx[p].last \in Frames \cup {None} /\ fw' \in SUBSET Frames
    BY <1>1, <1>2, RowFields DEF IndInv, TypeInv
  <2> QED
    BY <1>2, <1>8, <1>10, <1>11, <2>1 DEF IndInv, TypeInv
<1>13. ListedInv'
  BY <1>9 DEF ListedInv
<1>14. GrantInv'
  BY <1>2, <1>9, <1>10, Constants DEF IndInv, GrantInv
<1>15. PlaceInv'
  BY <1>2, <1>9, Constants DEF IndInv, PlaceInv, Parted
<1>16. StationInv'
  <2>1. \A q \in Txqs : tx'[q].active = tx[q].active
    BY <1>9
  <2>2. ps'.active => valid' = TRUE /\ Asleep(tx')
    BY <1>2, <1>9, <1>11 DEF IndInv, StationInv, Asleep
  <2>3. del' # None => tx'[del'].active = FALSE
    BY <1>2, <2>1 DEF IndInv, TypeInv, StationInv
  <2>4. valid' => \A q \in Txqs : tx'[q].active = TRUE
    BY <1>2, <2>1 DEF IndInv, StationInv
  <2> QED
    BY <2>2, <2>3, <2>4 DEF StationInv
<1>17. RetryInv'
  <2>1. rx'.pc = "link" /\ rx'.f = f /\ rx'.last = tx[p].last
    BY <1>2
  <2>2. f \notin ToSet(tx[p].frames)
    BY <1>1, <1>2 DEF IndInv, PlaceInv, Parted
  <2>3. /\ f \notin fw' /\ p # Mgmt /\ u.active = TRUE
        /\ f \notin ToSet(u.frames) /\ tx[p].last = u.last
    <3>1. u.active \in BOOLEAN
      BY <1>1, <1>8, RowFields
    <3> QED
      BY <1>2, <1>5, <1>6, <2>2, <3>1
  <2>4. Tid[rx'.f] = p
    BY <2>1 DEF p
  <2> QED
    BY <1>8, <2>1, <2>3, <2>4 DEF RetryInv
<1>18. SameCounts(tx, tx')
  BY <1>9 DEF SameCounts
<1> QED
  BY <1>8, <1>18, <1>12, <1>13, <1>14, <1>15, <1>16, <1>17 DEF IndInv

\* A step of rwnx_tx_retry changes the one queue p of the frame.
LEMMA RetryStep ==
  ASSUME IndInv, rx.pc # "idle", NEW u, tx' = [tx EXCEPT ![Tid[rx.f]] = u],
         Good(Tid[rx.f], u), Sane(u),
         u.active = tx[Tid[rx.f]].active, u.limit = tx[Tid[rx.f]].limit,
         u.stop = tx[Tid[rx.f]].stop,
         ToSet(u.frames) \subseteq ToSet(tx[Tid[rx.f]].frames) \cup {rx.f},
         need' \in [Hwqs -> BOOLEAN], \A h \in Hwqs : need[h] => need'[h],
         UNCHANGED <<task, ps, vif, valid, fw, csa, mgmt, del, halted>>,
         rx' \in [pc : {"idle", "link", "count", "list"}, f : Frames \cup {None},
                  last : Frames \cup {None}]
  PROVE  /\ TypeInv' /\ QueuesSane(tx') /\ GrantInv' /\ PlaceInv' /\ StationInv'
         /\ tx'[Tid[rx.f]] = u /\ Tid[rx.f] \in Txqs
         /\ \A q \in Txqs : q # Tid[rx.f] => tx'[q] = tx[q]
<1> DEFINE p == Tid[rx.f]
<1>1. p \in Txqs /\ p # Mgmt /\ tx \in [Txqs -> Row] /\ rx.f \in Frames /\ rx.f \notin fw
      /\ rx.f \in Of(p)
  BY Constants DEF IndInv, TypeInv, RetryInv, Of
<1> HIDE DEF p
<1>2. Good(p, u) /\ tx' = [tx EXCEPT ![p] = u] /\ u.active = tx[p].active
      /\ u.limit = tx[p].limit /\ u.stop = tx[p].stop
  BY DEF p
<1>3. u.active => Sane(u)
  OBVIOUS
<1>4. /\ tx' \in [Txqs -> Row] /\ QueuesSane(tx') /\ tx'[p] = u
      /\ \A q \in Txqs : q # p => tx'[q] = tx[q]
  <2> DEFINE s == [tx EXCEPT ![p] = u]
  <2>1. QueuesSane(tx)
    BY DEF IndInv
  <2>2. /\ s \in [Txqs -> Row] /\ QueuesSane(s) /\ s[p] = u
        /\ \A q \in Txqs : q # p => s[q] = tx[q]
    BY <1>1, <1>2, <1>3, <2>1, OneRow, Zenon
  <2> QED
    BY <1>2, <2>2, Zenon
<1>5. \A q \in Txqs : /\ tx'[q].active = tx[q].active /\ tx'[q].limit = tx[q].limit
                      /\ tx'[q].stop = tx[q].stop
  BY <1>2, <1>4
<1>6. TypeInv'
  BY <1>4 DEF IndInv, TypeInv
<1>7. GrantInv'
  BY <1>5, Constants DEF IndInv, GrantInv
<1>9. StationInv'
  <2>1. ps'.active => valid' = TRUE /\ Asleep(tx')
    BY <1>5 DEF IndInv, StationInv, Asleep
  <2>2. del' # None => tx'[del'].active = FALSE
    BY <1>5 DEF IndInv, TypeInv, StationInv
  <2>3. valid' => \A q \in Txqs : tx'[q].active = TRUE
    BY <1>5 DEF IndInv, StationInv
  <2> QED
    BY <2>1, <2>2, <2>3 DEF StationInv
<1>8. PlaceInv'
  <2>1. ToSet(u.frames) \subseteq ToSet(tx[p].frames) \cup {rx.f}
    BY DEF p
  <2>2. Parted(tx', fw')
    BY <1>1, <1>4, <2>1 DEF IndInv, PlaceInv, Parted
  <2>3. tx'[Mgmt] = tx[Mgmt]
    BY <1>1, <1>4, Constants
  <2> QED
    BY <2>2, <2>3 DEF IndInv, PlaceInv
<1> QED
  BY <1>1, <1>4, <1>6, <1>7, <1>8, <1>9 DEF p

\* The frame is linked behind the last frame to retry, which is in the list.
LEMMA RetryLinkKeeps ==
  ASSUME IndInv, RetryLink
  PROVE  IndInv' /\ LinkedIn(tx, Tid[rx.f], tx') /\ Relinked(tx, Tid[rx.f], rx.f, tx')
<1> DEFINE p == Tid[rx.f]
           t == tx[p]
           l == t.frames
           k == t.nbRetry
           at == IF rx.last = None THEN 1
                 ELSE 1 + CHOOSE i \in DOMAIN l : l[i] = rx.last
           a == InsertAt(l, k + 1, rx.f)
           u == [t EXCEPT !.frames = a]
<1>1. /\ rx.pc = "link" /\ p \in Txqs /\ tx \in [Txqs -> Row] /\ rx.f \in Frames
      /\ rx.f \notin ToSet(l) /\ rx.last = t.last /\ t.active = TRUE /\ rx.f \in Of(p)
      /\ p # Mgmt /\ rx.f \notin fw
  BY Constants DEF RetryLink, IndInv, TypeInv, RetryInv, Of
<1>2. Good(p, t) /\ Sane(t)
  BY <1>1 DEF IndInv, QueuesSane
<1>3. /\ l \in Seq(Frames) /\ Apart(l) /\ k \in Nat /\ k <= Len(l) /\ Len(l) \in Nat
      /\ DOMAIN l = 1..Len(l) /\ t \in Row
      /\ t.last = IF k = 0 THEN None ELSE l[k]
      /\ \A i \in 1..Len(l) : l[i] \in Frames /\ l[i] \in ToSet(l)
  <2>1. t \in Row /\ Apart(l) /\ Retries(t)
    BY <1>2 DEF Good, Sane
  <2>2. l \in Seq(Frames) /\ k \in Nat
    BY <2>1, RowFields
  <2>3. k <= Len(l) /\ t.last = IF k = 0 THEN None ELSE l[k]
    BY <2>1 DEF Retries
  <2> HIDE DEF l, k, t
  <2>4. /\ Len(l) \in Nat /\ DOMAIN l = 1..Len(l)
        /\ \A i \in 1..Len(l) : l[i] \in Frames /\ l[i] \in ToSet(l)
    BY <2>2, Elements
  <2> QED
    BY <2>1, <2>2, <2>3, <2>4
<1>4. at = k + 1 /\ rx.last \in ToSet(l) \cup {None}
  <2> HIDE DEF l, k, t, p
  <2>1. CASE k = 0
    BY <1>1, <1>3, <2>1
  <2>2. CASE k # 0
    <3>1. k \in 1..Len(l) /\ rx.last = l[k] /\ rx.last # None
      BY <1>1, <1>3, <2>2, Constants
    <3>2. (CHOOSE i \in DOMAIN l : l[i] = rx.last) = k
      <4>1. k \in DOMAIN l /\ l[k] = rx.last /\ \A i \in DOMAIN l : l[i] = rx.last => i = k
        BY <1>3, <3>1 DEF Apart
      <4> QED
        BY <4>1
    <3>3. at = 1 + k
      BY <3>1, <3>2
    <3> QED
      BY <1>3, <3>1, <3>3
  <2> QED
    BY <2>1, <2>2
<1>5. /\ tx' = [tx EXCEPT ![p].frames = InsertAt(@, at, rx.f)]
      /\ rx' = [rx EXCEPT !.pc = "count"]
      /\ UNCHANGED <<need, task, ps, vif, valid, subq, fw, csa, mgmt, del, halted>>
  <2>1. ~(rx.last \notin ToSet(l) \cup {None})
    BY <1>4
  <2> QED
    BY <2>1, Zenon DEF RetryLink
<1>6. tx' = [tx EXCEPT ![p] = u]
  <2> HIDE DEF at
  <2> QED
    BY <1>1, <1>4, <1>5
<1> HIDE DEF at
<1>7. /\ a \in Seq(Frames) /\ Len(a) = Len(l) + 1
      /\ Apart(a) /\ ToSet(a) = ToSet(l) \cup {rx.f}
      /\ \A i \in 1..k : a[i] = l[i]
      /\ a[k + 1] = rx.f
  <2> HIDE DEF l, k, t, p
  <2>1. k \in 0..Len(l) /\ rx.f \notin ToSet(l)
    BY <1>1, <1>3
  <2> QED
    BY <1>1, <1>3, <2>1, Inserted
<1> HIDE DEF a
<1>8. /\ u \in Row /\ u.frames = a /\ u.stop = t.stop /\ u.limit = t.limit
      /\ u.credits = t.credits /\ u.nbRetry = k /\ u.last = t.last
      /\ u.active = t.active /\ u.sched = t.sched
  BY <1>3, <1>7 DEF Row
<1> HIDE DEF u
<1>9. Good(p, u)
  BY <1>1, <1>2, <1>7, <1>8 DEF Good
<1>10. Sane(u)
  <2> HIDE DEF k
  <2>1. Retries(u)
    <3>1. u.nbRetry <= Len(u.frames)
      BY <1>3, <1>7, <1>8
    <3>2. u.last = IF u.nbRetry = 0 THEN None ELSE u.frames[u.nbRetry]
      BY <1>3, <1>7, <1>8
    <3> QED
      BY <3>1, <3>2 DEF Retries
  <2>2. OnList(u)
    <3>1. a # <<>>
      BY <1>3, <1>7, Elements
    <3> QED
      BY <1>2, <1>8, <3>1 DEF Sane, OnList
  <2>3. Granted(u)
    <3>1. t.limit \in Nat /\ t.limit <= Len(l)
      BY <1>2, <1>3, RowFields DEF Sane, Granted
    <3>2. u.limit <= Len(u.frames)
      BY <1>3, <1>7, <1>8, <3>1
    <3> QED
      BY <1>2, <1>8, <3>2 DEF Sane, Granted
  <2> QED
    BY <2>1, <2>2, <2>3 DEF Sane
<1>11. rx'.pc = "count" /\ rx'.f = rx.f
       /\ rx' \in [pc : {"idle", "link", "count", "list"}, f : Frames \cup {None},
                    last : Frames \cup {None}]
  BY <1>5 DEF IndInv, TypeInv
<1>12. need' \in [Hwqs -> BOOLEAN] /\ \A h \in Hwqs : need[h] => need'[h]
  BY <1>5 DEF IndInv, TypeInv
<1>13. rx.pc # "idle"
  BY <1>1
<1>14. ToSet(u.frames) \subseteq ToSet(tx[p].frames) \cup {rx.f}
  BY <1>7, <1>8
<1>15. u.active = tx[p].active /\ u.limit = tx[p].limit /\ u.stop = tx[p].stop
  BY <1>8
<1>16. /\ TypeInv' /\ QueuesSane(tx') /\ GrantInv' /\ PlaceInv' /\ StationInv'
       /\ tx'[p] = u /\ \A q \in Txqs : q # p => tx'[q] = tx[q]
  BY <1>5, <1>6, <1>9, <1>10, <1>11, <1>12, <1>13, <1>14, <1>15, RetryStep
<1>17. ListedInv'
  <2>1. \A q \in Txqs : rx.f \notin Of(q) => q # p
    BY <1>1
  <2> QED
    BY <1>11, <1>16, <2>1 DEF IndInv, ListedInv
<1>18. RetryInv'
  <2>1. u.nbRetry + 1 <= Len(u.frames) /\ u.frames[u.nbRetry + 1] = rx.f /\ u.active = TRUE
    <3> HIDE DEF k
    <3>1. u.nbRetry = k /\ u.frames = a /\ u.active = t.active
      BY <1>8
    <3>2. k + 1 <= Len(a)
      BY <1>3, <1>7
    <3>3. a[k + 1] = rx.f /\ t.active = TRUE
      BY <1>1, <1>7
    <3> QED
      BY <3>1, <3>2, <3>3
  <2>2. Tid[rx'.f] = p /\ rx'.f \in Frames /\ rx'.f \notin fw' /\ p # Mgmt
    BY <1>1, <1>5, <1>11
  <2> QED
    BY <1>11, <1>16, <2>1, <2>2 DEF RetryInv
<1>19. LinkedIn(tx, p, tx')
  <2>1. Len(tx'[p].frames) = Len(tx[p].frames) + 1 /\ tx'[p].limit = tx[p].limit
    BY <1>7, <1>8, <1>16
  <2> QED
    BY <1>1, <1>16, <2>1, LinkedInIs
<1>20. Relinked(tx, p, rx.f, tx')
  <2>1. tx'[p].frames = a /\ tx'[p].nbRetry = k /\ tx'[p].active = t.active
    BY <1>8, <1>16
  <2> QED
    BY <1>16, <2>1 DEF Relinked, a
<1> QED
  BY <1>16, <1>17, <1>18, <1>19, <1>20 DEF IndInv

\* It is counted among the frames to retry, and is the last of them.
LEMMA RetryCountKeeps ==
  ASSUME IndInv, RetryCount
  PROVE  IndInv' /\ SameCounts(tx, tx')
<1> DEFINE p == Tid[rx.f]
           t == tx[p]
           u == [t EXCEPT !.last = rx.f, !.nbRetry = t.nbRetry + 1]
<1>1. /\ rx.pc = "count" /\ p \in Txqs /\ tx \in [Txqs -> Row] /\ rx.f \in Frames
      /\ t.active = TRUE /\ rx.f \in Of(p) /\ p # Mgmt /\ rx.f \notin fw
      /\ t.nbRetry + 1 <= Len(t.frames) /\ t.frames[t.nbRetry + 1] = rx.f
  BY Constants DEF RetryCount, IndInv, TypeInv, RetryInv, Of
<1>2. Good(p, t) /\ Sane(t) /\ t \in Row
  BY <1>1 DEF IndInv, QueuesSane
<1>3. /\ tx' = [tx EXCEPT ![p].last = rx.f, ![p].nbRetry = @ + 1]
      /\ rx' = [rx EXCEPT !.pc = "list"]
      /\ UNCHANGED <<need, task, ps, vif, valid, subq, fw, csa, mgmt, del, halted>>
  BY DEF RetryCount
<1>4. tx' = [tx EXCEPT ![p] = u]
  <2> HIDE DEF p
  <2> QED
    BY <1>1, <1>2, <1>3 DEF Row
<1>6. t.nbRetry \in Nat /\ t.frames \in Seq(Frames) /\ Len(t.frames) \in Nat
  BY <1>2, RowFields, Elements
<1>5. /\ u \in Row /\ u.frames = t.frames /\ u.stop = t.stop /\ u.limit = t.limit
      /\ u.credits = t.credits /\ u.nbRetry = t.nbRetry + 1 /\ u.last = rx.f
      /\ u.active = t.active /\ u.sched = t.sched
  <2> DEFINE k == t.nbRetry + 1
             f == rx.f
  <2>1. k \in Nat /\ f \in Frames \cup {None}
    BY <1>1, <1>6
  <2>2. u = [t EXCEPT !.last = f, !.nbRetry = k]
    OBVIOUS
  <2> HIDE DEF p, t, k, f, u
  <2>3. /\ u \in Row /\ u.frames = t.frames /\ u.stop = t.stop /\ u.limit = t.limit
        /\ u.credits = t.credits /\ u.nbRetry = k /\ u.last = f
        /\ u.active = t.active /\ u.sched = t.sched
    BY <1>2, <2>1, <2>2 DEF Row
  <2> QED
    BY <2>3 DEF k, f
<1> HIDE DEF u
<1>7. Good(p, u)
  BY <1>2, <1>5 DEF Good
<1>8. Sane(u)
  <2>1. Retries(u)
    BY <1>1, <1>5, <1>6 DEF Retries
  <2>2. OnList(u) /\ Granted(u)
    BY <1>2, <1>5 DEF Sane, OnList, Granted
  <2> QED
    BY <2>1, <2>2 DEF Sane
<1>9. rx'.pc = "list" /\ rx'.f = rx.f
      /\ rx' \in [pc : {"idle", "link", "count", "list"}, f : Frames \cup {None},
                  last : Frames \cup {None}]
  BY <1>3 DEF IndInv, TypeInv
<1>10. need' \in [Hwqs -> BOOLEAN] /\ \A h \in Hwqs : need[h] => need'[h]
  BY <1>3 DEF IndInv, TypeInv
<1>11. rx.pc # "idle"
  BY <1>1
<1>12. ToSet(u.frames) \subseteq ToSet(tx[p].frames) \cup {rx.f}
  BY <1>5
<1>13. u.active = tx[p].active /\ u.limit = tx[p].limit /\ u.stop = tx[p].stop
  BY <1>5
<1>14. /\ TypeInv' /\ QueuesSane(tx') /\ GrantInv' /\ PlaceInv' /\ StationInv'
       /\ tx'[p] = u /\ \A q \in Txqs : q # p => tx'[q] = tx[q]
  BY <1>3, <1>4, <1>7, <1>8, <1>9, <1>10, <1>11, <1>12, <1>13, RetryStep
<1>15. ListedInv'
  <2>1. \A q \in Txqs : rx.f \notin Of(q) => q # p
    BY <1>1
  <2> QED
    BY <1>9, <1>14, <2>1 DEF IndInv, ListedInv
<1>16. RetryInv'
  <2>1. u.frames # <<>> /\ u.active = TRUE
    BY <1>1, <1>5, <1>6, Elements
  <2>2. Tid[rx'.f] = p /\ rx'.f \in Frames /\ rx'.f \notin fw' /\ p # Mgmt
    BY <1>1, <1>3, <1>9
  <2> QED
    BY <1>9, <1>14, <2>1, <2>2 DEF RetryInv
<1>17. SameCounts(tx, tx')
  BY <1>5, <1>14 DEF SameCounts
<1> QED
  BY <1>14, <1>15, <1>16, <1>17 DEF IndInv

\* The queue is put on its list again.
LEMMA RetryListKeeps ==
  ASSUME IndInv, RetryList
  PROVE  IndInv' /\ SameCounts(tx, tx')
<1> DEFINE p == Tid[rx.f]
           t == tx[p]
           u == WithFrames(p, t, t.frames)
           s == [tx EXCEPT ![p] = u]
<1>1. /\ rx.pc = "list" /\ p \in Txqs /\ tx \in [Txqs -> Row] /\ rx.f \in Frames
      /\ t.active = TRUE /\ rx.f \in Of(p) /\ p # Mgmt /\ rx.f \notin fw
      /\ t.frames # <<>>
  BY Constants DEF RetryList, IndInv, TypeInv, RetryInv, Of
<1>2. Good(p, t) /\ Sane(t)
  BY <1>1 DEF IndInv, QueuesSane
<1>3. /\ Restart(s) /\ rx' = Idle
      /\ UNCHANGED <<task, ps, vif, valid, fw, csa, mgmt, del, halted>>
  BY <1>1 DEF RetryList
<1>4. /\ Good(p, u) /\ u.active = t.active /\ u.frames = t.frames
      /\ u.limit = t.limit /\ u.stop = t.stop
      /\ Sane(u) /\ Listed(u)
  <2> HIDE DEF p, t
  <2> QED
    BY <1>1, <1>2, RelistedKeeps
<1>5. /\ tx' = s /\ need' \in [Hwqs -> BOOLEAN]
      /\ \A h \in Hwqs : need[h] => need'[h]
  <2> HIDE DEF s
  <2> QED
    BY <1>3, RestartNeed
<1> HIDE DEF u
<1>9. rx'.pc = "idle" /\ rx'.f = None
      /\ rx' \in [pc : {"idle", "link", "count", "list"}, f : Frames \cup {None},
                  last : Frames \cup {None}]
  BY <1>3 DEF Idle
<1>11. rx.pc # "idle"
  BY <1>1
<1>12. ToSet(u.frames) \subseteq ToSet(tx[p].frames) \cup {rx.f}
  BY <1>4
<1>13. u.active = tx[p].active /\ u.limit = tx[p].limit /\ u.stop = tx[p].stop
  BY <1>4
<1>14. /\ TypeInv' /\ QueuesSane(tx') /\ GrantInv' /\ PlaceInv' /\ StationInv'
       /\ tx'[p] = u /\ \A q \in Txqs : q # p => tx'[q] = tx[q]
  BY <1>3, <1>4, <1>5, <1>9, <1>11, <1>12, <1>13, RetryStep
<1>15. ListedInv'
  <2>1. \A q \in Txqs : rx.f \in Of(q) => q = p
    BY <1>1 DEF Of
  <2> QED
    BY <1>4, <1>14, <2>1 DEF IndInv, ListedInv
<1>16. RetryInv'
  BY <1>3, <1>9 DEF RetryInv
<1>17. SameCounts(tx, tx')
  BY <1>4, <1>14 DEF SameCounts
<1> QED
  BY <1>14, <1>15, <1>16, <1>17 DEF IndInv

-----------------------------------------------------------------------------
(* The station goes and comes.                                             *)

LEMMA DelStationKeeps ==
  ASSUME IndInv, Undisturbed, DelStation
  PROVE  IndInv'
<1>1. /\ rx.pc = "idle" /\ valid' = FALSE /\ ps' = [ps EXCEPT !.active = FALSE]
      /\ UNCHANGED <<tx, need, task, vif, subq, fw, rx, csa, mgmt, del, halted>>
  BY DEF DelStation, Undisturbed, Interrupts
<1>2. ps' \in Station /\ ps'.active = FALSE
  BY <1>1 DEF IndInv, TypeInv, Station
<1>3. TypeInv'
  BY <1>1, <1>2 DEF IndInv, TypeInv
<1>4. QueuesSane(tx') /\ ListedInv' /\ GrantInv' /\ PlaceInv'
  <2>1. QueuesSane(tx') /\ ListedInv'
    BY <1>1 DEF IndInv, ListedInv
  <2>2. GrantInv'
    BY <1>1 DEF IndInv, GrantInv
  <2>3. PlaceInv'
    BY <1>1 DEF IndInv, PlaceInv
  <2> QED
    BY <2>1, <2>2, <2>3
<1>5. StationInv'
  BY <1>1, <1>2 DEF IndInv, StationInv
<1>6. RetryInv'
  BY <1>1 DEF IndInv, RetryInv
<1> QED
  BY <1>3, <1>4, <1>5, <1>6 DEF IndInv

LEMMA DeinitKeeps ==
  ASSUME IndInv, Undisturbed, NEW p \in Txqs, Deinit(p)
  PROVE  IndInv' /\ \A q \in Txqs : tx'[q].frames = tx[q].frames
<1> DEFINE u == [tx[p] EXCEPT !.active = FALSE, !.sched = FALSE]
           s == [tx EXCEPT ![p] = u]
<1>1. /\ rx.pc = "idle" /\ ~valid /\ del' = p
      /\ tx' = [tx EXCEPT ![p].active = FALSE, ![p].sched = FALSE]
      /\ UNCHANGED <<need, task, ps, vif, valid, subq, fw, rx, csa, mgmt, halted>>
  BY DEF Deinit, Undisturbed, Interrupts
<1>2. tx \in [Txqs -> Row] /\ Good(p, tx[p]) /\ QueuesSane(tx) /\ QueuesListed(tx)
      /\ rx = Idle /\ rx.f = None
  BY <1>1, IdleIs DEF IndInv, TypeInv, QueuesSane
<1>3. tx' = s
  BY <1>1, <1>2 DEF Row
<1>4. /\ u \in Row /\ u.frames = tx[p].frames /\ u.active = FALSE
  <2>1. tx[p] \in Row
    BY <1>2
  <2> QED
    BY <2>1 DEF Row
<1> HIDE DEF u
<1>5. Good(p, u) /\ (u.active => Sane(u))
  BY <1>2, <1>4 DEF Good
<1>6. /\ s \in [Txqs -> Row] /\ QueuesSane(s) /\ s[p] = u
      /\ \A q \in Txqs : q # p => s[q] = tx[q]
  BY <1>2, <1>5, OneRow, Zenon
<1> HIDE DEF s
<1>7. \A q \in Txqs : /\ tx'[q].frames = tx[q].frames
                      /\ q = p => tx'[q].active = FALSE
                      /\ q # p => tx'[q] = tx[q]
  BY <1>3, <1>4, <1>6
<1>8. TypeInv'
  BY <1>1, <1>3, <1>6 DEF IndInv, TypeInv
<1>9. QueuesSane(tx')
  BY <1>3, <1>6
<1>10. ListedInv'
  BY <1>2, <1>7 DEF ListedInv, QueuesListed
<1>11. GrantInv'
  BY <1>1, <1>7 DEF IndInv, GrantInv
<1>12. PlaceInv'
  BY <1>1, <1>7, Constants DEF IndInv, PlaceInv, Parted
<1>13. StationInv'
  BY <1>1, <1>7 DEF IndInv, StationInv
<1>14. RetryInv'
  BY <1>1, <1>2 DEF RetryInv, Idle
<1> QED
  BY <1>7, <1>8, <1>9, <1>10, <1>11, <1>12, <1>13, <1>14 DEF IndInv

LEMMA FlushKeeps ==
  ASSUME IndInv, Undisturbed, Flush
  PROVE  IndInv' /\ \A q \in Txqs : q # del => tx'[q] = tx[q]
<1> DEFINE p == del
           u == [tx[p] EXCEPT !.frames = <<>>]
           s == [tx EXCEPT ![p] = u]
<1>1. /\ rx.pc = "idle" /\ del # None /\ del' = None
      /\ tx' = [tx EXCEPT ![p].frames = <<>>]
      /\ UNCHANGED <<need, task, ps, vif, valid, subq, fw, rx, csa, mgmt, halted>>
  BY DEF Flush, Undisturbed, Interrupts
<1>2. p \in Txqs /\ tx[p].active = FALSE /\ tx \in [Txqs -> Row] /\ Good(p, tx[p])
      /\ QueuesSane(tx) /\ QueuesListed(tx) /\ rx = Idle /\ rx.f = None
  BY <1>1, IdleIs DEF IndInv, TypeInv, QueuesSane, StationInv
<1> HIDE DEF p
<1>3. tx' = s
  BY <1>1, <1>2
<1>4. u \in Row /\ u.frames = <<>> /\ u.active = FALSE
  <2>1. <<>> \in Seq(Frames)
    BY EmptySeq
  <2>2. tx[p] \in Row /\ tx[p].active = FALSE
    BY <1>2
  <2> QED
    BY <2>1, <2>2 DEF Row
<1> HIDE DEF u
<1>5. Good(p, u) /\ (u.active => Sane(u))
  <2>1. ToSet(<<>>) = {} /\ Apart(<<>>)
    BY DEF ToSet, Apart
  <2> QED
    BY <1>4, <2>1 DEF Good
<1>6. /\ s \in [Txqs -> Row] /\ QueuesSane(s) /\ s[p] = u
      /\ \A q \in Txqs : q # p => s[q] = tx[q]
  BY <1>2, <1>5, OneRow, Zenon
<1> HIDE DEF s
<1>7. \A q \in Txqs : /\ ToSet(tx'[q].frames) \subseteq ToSet(tx[q].frames)
                      /\ tx'[q].active = tx[q].active
                      /\ q = p => tx'[q].active = FALSE
                      /\ q # p => tx'[q] = tx[q]
  <2>1. ToSet(<<>>) = {}
    BY DEF ToSet
  <2> QED
    BY <1>2, <1>3, <1>4, <1>6, <2>1
<1>8. TypeInv'
  BY <1>1, <1>3, <1>6 DEF IndInv, TypeInv
<1>9. QueuesSane(tx')
  BY <1>3, <1>6
<1>10. ListedInv'
  BY <1>2, <1>7 DEF ListedInv, QueuesListed
<1>11. GrantInv'
  BY <1>1, <1>7 DEF IndInv, GrantInv
<1>12. PlaceInv'
  BY <1>1, <1>7, Constants DEF IndInv, PlaceInv, Parted
<1>13. StationInv'
  <2>1. ps'.active => valid' = TRUE /\ Asleep(tx')
    BY <1>1, <1>2, <1>7 DEF IndInv, StationInv, Asleep
  <2>2. valid' => \A q \in Txqs : tx'[q].active = TRUE
    BY <1>1, <1>7 DEF IndInv, StationInv
  <2> QED
    BY <1>1, <2>1, <2>2 DEF StationInv
<1>14. RetryInv'
  BY <1>1, <1>2 DEF RetryInv, Idle
<1> QED
  BY <1>7, <1>8, <1>9, <1>10, <1>11, <1>12, <1>13, <1>14 DEF IndInv, p

LEMMA FreshIs ==
  ASSUME NEW q, NEW status \in SUBSET Stops
  PROVE  LET u == Fresh(status) IN
         /\ Good(q, u) /\ Sane(u) /\ Listed(u) /\ u.limit = 0 /\ u.active = TRUE
         /\ u.frames = <<>> /\ ToSet(u.frames) = {} /\ u.stop = status
<1> DEFINE u == Fresh(status)
<1>1. Credits \in (-CreditMax - 1)..CreditMax /\ Credits >= 1
  BY TxqAssumption
<1>2. <<>> \in Seq(Frames) /\ Len(<<>>) = 0
  BY EmptySeq
<1>3. /\ u \in Row /\ u.frames = <<>> /\ u.stop = status /\ u.limit = 0 /\ u.active = TRUE
      /\ u.credits = Credits /\ u.nbRetry = 0 /\ u.last = None /\ u.sched = FALSE
  BY <1>1, <1>2 DEF Fresh, Row
<1> HIDE DEF u
<1>4. ToSet(<<>>) = {} /\ Apart(<<>>)
  BY DEF ToSet, Apart
<1>5. Good(q, u)
  BY <1>3, <1>4 DEF Good
<1>6. Retries(u)
  BY <1>2, <1>3 DEF Retries
<1>7. OnList(u) /\ Listed(u)
  BY <1>3 DEF OnList, Listed
<1>8. Granted(u)
  BY <1>1, <1>2, <1>3 DEF Granted
<1> QED
  BY <1>3, <1>4, <1>5, <1>6, <1>7, <1>8 DEF Sane, u

LEMMA AllFresh ==
  ASSUME NEW status \in SUBSET Stops
  PROVE  LET t == [q \in Txqs |-> Fresh(status)] IN
         /\ t \in [Txqs -> Row] /\ QueuesSane(t) /\ QueuesListed(t)
         /\ \A q \in Txqs : /\ t[q].limit = 0 /\ t[q].active = TRUE /\ t[q].stop = status
                            /\ t[q].frames = <<>> /\ ToSet(t[q].frames) = {}
<1> DEFINE t == [q \in Txqs |-> Fresh(status)]
<1>1. ASSUME NEW q \in Txqs
      PROVE  /\ Good(q, t[q]) /\ Sane(t[q]) /\ Listed(t[q]) /\ t[q].limit = 0
             /\ t[q].active = TRUE /\ t[q].stop = status
             /\ t[q].frames = <<>> /\ ToSet(t[q].frames) = {}
  <2> DEFINE u == Fresh(status)
  <2>1. t[q] = u
    OBVIOUS
  <2>2. /\ Good(q, u) /\ Sane(u) /\ Listed(u) /\ u.limit = 0 /\ u.active = TRUE
        /\ u.frames = <<>> /\ ToSet(u.frames) = {} /\ u.stop = status
    BY FreshIs
  <2> HIDE DEF u, t
  <2> QED
    BY <2>1, <2>2
<1>2. t \in [Txqs -> Row]
  <2>1. \A q \in Txqs : Fresh(status) \in Row
    BY <1>1 DEF Good
  <2> QED
    BY <2>1
<1> HIDE DEF t
<1>3. QueuesSane(t) /\ QueuesListed(t)
  BY <1>1, Zenon DEF QueuesSane, QueuesListed
<1> QED
  BY <1>1, <1>2, <1>3 DEF t

LEMMA AddStationKeeps ==
  ASSUME IndInv, Undisturbed, NEW asleep \in BOOLEAN, AddStation(asleep)
  PROVE  IndInv'
<1> DEFINE status == vif \cap {"chan", "vif_ps"}
           st == IF asleep THEN status \cup {"sta_ps"} ELSE status
           t == [q \in Txqs |-> Fresh(st)]
           zero == [id \in Ids |-> 0]
<1>1. /\ rx.pc = "idle" /\ del = None /\ valid' = TRUE /\ tx' = t
      /\ ps' = [ps EXCEPT !.active = asleep,
                          !.ready = IF asleep THEN zero ELSE @,
                          !.sp = IF asleep THEN zero ELSE @]
      /\ task' = (task \/ ~asleep)
      /\ UNCHANGED <<need, vif, subq, fw, rx, csa, mgmt, del, halted>>
  BY DEF AddStation, Undisturbed, Interrupts
<1>2. st \in SUBSET Stops /\ (asleep => "sta_ps" \in st)
  <2>1. status \in SUBSET Stops /\ "sta_ps" \in Stops
    BY DEF Stops, VifStops
  <2> HIDE DEF status
  <2> QED
    BY <2>1
<1> HIDE DEF st
<1>3. /\ t \in [Txqs -> Row] /\ QueuesSane(t) /\ QueuesListed(t)
      /\ \A q \in Txqs : /\ t[q].limit = 0 /\ t[q].active = TRUE /\ t[q].stop = st
                         /\ t[q].frames = <<>> /\ ToSet(t[q].frames) = {}
  BY <1>2, AllFresh
<1>4. zero \in [Ids -> Int]
  OBVIOUS
<1> HIDE DEF t, zero
<1>5. ps' \in Station /\ ps'.active = asleep
  BY <1>1, <1>4 DEF IndInv, TypeInv, Station
<1>6. rx = Idle /\ rx.f = None
  BY <1>1, IdleIs
<1>7. task' \in BOOLEAN
  BY <1>1
<1>8. TypeInv'
  BY <1>1, <1>3, <1>5, <1>7 DEF IndInv, TypeInv
<1>9. QueuesSane(tx')
  BY <1>1, <1>3
<1>10. ListedInv'
  BY <1>1, <1>3 DEF ListedInv, QueuesListed
<1>11. GrantInv'
  BY <1>1, <1>3 DEF GrantInv
<1>12. PlaceInv'
  BY <1>1, <1>3, Constants DEF IndInv, PlaceInv, Parted
<1>13. StationInv'
  BY <1>1, <1>2, <1>3, <1>5 DEF StationInv, Asleep
<1>14. RetryInv'
  BY <1>1, <1>6 DEF RetryInv, Idle
<1> QED
  BY <1>8, <1>9, <1>10, <1>11, <1>12, <1>13, <1>14 DEF IndInv

-----------------------------------------------------------------------------
(* A service period is dealt out: rwnx_ps_bh_traffic_req.                  *)

LEMMA MinIs ==
  ASSUME NEW a \in Int, NEW b \in Int
  PROVE  Min({a, b}) = IF a <= b THEN a ELSE b
<1> DEFINE m == IF a <= b THEN a ELSE b
           P(x) == x \in {a, b} /\ \A y \in {a, b} : x <= y
<1>1. P(m) /\ \A x : P(x) => x = m
  OBVIOUS
<1>2. Min({a, b}) = CHOOSE x : P(x)
  BY DEF Min
<1> HIDE DEF m, P
<1>3. P(CHOOSE x : P(x))
  BY <1>1
<1> QED
  BY <1>1, <1>2, <1>3 DEF m

\* What the queues can take, what they are granted, and which are granted.
Can(t, id) == [i \in DOMAIN Data |->
                 IF PsId[Data[i]] # id THEN 0
                 ELSE Min({Len(t[Data[i]].frames), t[Data[i]].credits})]
Grant(t, id, req) ==
    [i \in DOMAIN Data |->
       Min({Can(t, id)[i], Less(req, SumFunctionOnSet(Can(t, id), 1..(i - 1)))})]
GrantedAt(g) == {i \in DOMAIN Data : g[i] > 0}
Dealt(t, g) ==
    [q \in Txqs |-> IF \E i \in GrantedAt(g) : Data[i] = q
                    THEN [t[q] EXCEPT !.sched = TRUE,
                            !.limit = g[CHOOSE i \in GrantedAt(g) : Data[i] = q]]
                    ELSE t[q]]

\* Nobody is granted more than it can take.
Bearable(t, id, g) ==
    \A i \in DOMAIN Data : /\ g[i] \in Nat /\ g[i] <= Len(t[Data[i]].frames)
                           /\ g[i] <= t[Data[i]].credits
                           /\ g[i] > 0 => PsId[Data[i]] = id

LEMMA DataIs ==
  /\ \A i \in DOMAIN Data : i \in Nat /\ Data[i] \in Txqs /\ Data[i] # Mgmt
                            /\ \A j \in 1..(i - 1) : j \in DOMAIN Data
  /\ \A i, j \in DOMAIN Data : Data[i] = Data[j] => i = j
<1>1. Data \in Seq(ToSet(Data)) /\ IsInjective(Data) /\ Mgmt \notin ToSet(Data)
  BY TxqAssumption
<1>2. Len(Data) \in Nat /\ DOMAIN Data = 1..Len(Data) /\ \A i \in 1..Len(Data) : Data[i] \in ToSet(Data)
  BY <1>1, LenProperties
<1>3. \A i, j \in DOMAIN Data : Data[i] = Data[j] => i = j
  BY <1>1 DEF IsInjective
<1> QED
  BY <1>1, <1>2, <1>3 DEF Txqs

LEMMA GrantIs ==
  ASSUME NEW t \in [Txqs -> Row], NEW id, NEW req \in Int,
         \A q \in Txqs : t[q].credits >= 1
  PROVE  Bearable(t, id, Grant(t, id, req))
<1> DEFINE c == Can(t, id)
           before(i) == SumFunctionOnSet(c, 1..(i - 1))
<1>1. ASSUME NEW i \in DOMAIN Data
      PROVE  /\ Len(t[Data[i]].frames) \in Nat /\ t[Data[i]].credits \in Nat /\ c[i] \in Nat
             /\ c[i] <= Len(t[Data[i]].frames) /\ c[i] <= t[Data[i]].credits
             /\ c[i] > 0 => PsId[Data[i]] = id
  <2>1. Data[i] \in Txqs
    BY DataIs
  <2> DEFINE n == Len(t[Data[i]].frames)
             m == t[Data[i]].credits
             x == Min({n, m})
  <2>2. n \in Nat /\ m \in Int /\ m >= 1
    BY <2>1, RowFields, Elements
  <2>3. c[i] = IF PsId[Data[i]] # id THEN 0 ELSE x
    BY DEF Can
  <2> HIDE DEF n, m, c
  <2>4. x = IF n <= m THEN n ELSE m
    BY <2>2, MinIs
  <2> HIDE DEF x
  <2>5. /\ n \in Nat /\ m \in Nat /\ c[i] \in Nat
        /\ c[i] <= n /\ c[i] <= m /\ (c[i] > 0 => PsId[Data[i]] = id)
    BY <2>2, <2>3, <2>4
  <2> QED
    BY <2>5 DEF n, m
<1> HIDE DEF c
<1>2. ASSUME NEW i \in DOMAIN Data
      PROVE  before(i) \in Int
  <2> DEFINE S == 1..(i - 1)
  <2>1. IsFiniteSet(S) /\ S \subseteq DOMAIN Data
    BY DataIs, FS_Interval
  <2>2. \A j \in S : c[j] \in Int
    BY <1>1, <2>1
  <2> HIDE DEF S
  <2>3. SumFunctionOnSet(c, S) \in Int
    BY <2>1, <2>2, SumIsInt
  <2> QED
    BY <2>3 DEF S
<1> HIDE DEF before
<1> DEFINE g == Grant(t, id, req)
<1>3. \A i \in DOMAIN Data : g[i] = Min({c[i], Less(req, before(i))})
  BY DEF Grant, c, before
<1> HIDE DEF g
<1>4. ASSUME NEW i \in DOMAIN Data
      PROVE  g[i] \in Nat /\ g[i] <= c[i]
  <2> DEFINE a == c[i]
             b == Less(req, before(i))
             x == Min({a, b})
  <2>1. a \in Nat
    BY <1>1
  <2>2. b \in Nat
    BY <1>2 DEF Less
  <2>3. g[i] = x
    BY <1>3
  <2> HIDE DEF a, b
  <2>4. x = IF a <= b THEN a ELSE b
    BY <2>1, <2>2, MinIs
  <2> HIDE DEF x
  <2>5. g[i] \in Nat /\ g[i] <= a
    BY <2>1, <2>2, <2>3, <2>4
  <2> QED
    BY <2>5 DEF a
<1>5. ASSUME NEW i \in DOMAIN Data
      PROVE  /\ g[i] \in Nat /\ g[i] <= Len(t[Data[i]].frames)
             /\ g[i] <= t[Data[i]].credits
             /\ g[i] > 0 => PsId[Data[i]] = id
  <2> DEFINE n == Len(t[Data[i]].frames)
             m == t[Data[i]].credits
             x == g[i]
             y == c[i]
  <2>1. /\ n \in Nat /\ m \in Nat /\ y \in Nat /\ y <= n /\ y <= m
        /\ y > 0 => PsId[Data[i]] = id
    BY <1>1
  <2>2. x \in Nat /\ x <= y
    BY <1>4
  <2> HIDE DEF n, m, x, y
  <2>3. x \in Nat /\ x <= n /\ x <= m /\ (x > 0 => PsId[Data[i]] = id)
    BY <2>1, <2>2
  <2> QED
    BY <2>3 DEF n, m, x
<1> QED
  BY <1>5, Zenon DEF Bearable, g

InUse(t) == \A q \in Txqs : t[q].active = TRUE

\* The queues u have what g grants, and are put on their lists for it.
Endowed(t, g, u) ==
    /\ \A q \in Txqs : u[q].limit > 0 =>
          /\ u[q].sched = TRUE /\ t[q].sched = FALSE
          /\ \E i \in DOMAIN Data : Data[i] = q
    /\ \A i \in DOMAIN Data : u[Data[i]].limit = g[i]

LEMMA DealtIs ==
  ASSUME NEW t, Quiet(t), Asleep(t), InUse(t),
         NEW id, NEW g, Bearable(t, id, g)
  PROVE  LET u == Dealt(t, g) IN
         /\ u \in [Txqs -> Row] /\ QueuesSane(u) /\ QueuesListed(u)
         /\ SameFrames(t, u) /\ StillAsleep(t, u) /\ Endowed(t, g, u)
<1> DEFINE u == Dealt(t, g)
<1>1. ASSUME NEW q \in Txqs
      PROVE  /\ Good(q, t[q]) /\ Sane(t[q]) /\ Listed(t[q]) /\ t[q].limit = 0
             /\ "sta_ps" \in t[q].stop /\ t[q].sched = FALSE
  <2>1. Good(q, t[q]) /\ Sane(t[q]) /\ Listed(t[q]) /\ t[q].limit = 0
    BY QuietRow DEF InUse
  <2>2. "sta_ps" \in t[q].stop
    BY DEF Asleep, InUse
  <2>3. t[q].sched \in BOOLEAN
    BY <2>1, RowFields DEF Good
  <2>4. t[q].sched = FALSE
    BY <2>1, <2>2, <2>3 DEF Sane, OnList
  <2> QED
    BY <2>1, <2>2, <2>4
<1>2. ASSUME NEW i \in DOMAIN Data, g[i] > 0
      PROVE  u[Data[i]] = [t[Data[i]] EXCEPT !.sched = TRUE, !.limit = g[i]]
  <2>1. i \in GrantedAt(g) /\ Data[i] \in Txqs
    BY <1>2, DataIs DEF GrantedAt
  <2>2. (CHOOSE j \in GrantedAt(g) : Data[j] = Data[i]) = i
    BY <2>1, DataIs DEF GrantedAt
  <2> QED
    BY <2>1, <2>2 DEF Dealt
<1>3. ASSUME NEW q \in Txqs, ~ \E i \in DOMAIN Data : Data[i] = q /\ g[i] > 0
      PROVE  u[q] = t[q]
  BY <1>3 DEF Dealt, GrantedAt
<1>4. DOMAIN u = Txqs /\ u = [q \in Txqs |-> u[q]]
  BY DEF Dealt
<1> HIDE DEF u
<1>5. ASSUME NEW q \in Txqs
      PROVE  /\ Good(q, u[q]) /\ u[q].active = t[q].active /\ u[q].frames = t[q].frames
             /\ Sane(u[q]) /\ Listed(u[q]) /\ u[q].stop = t[q].stop
             /\ u[q].limit > 0 => u[q].sched = TRUE /\ \E i \in DOMAIN Data : Data[i] = q
  <2>1. CASE \E i \in DOMAIN Data : Data[i] = q /\ g[i] > 0
    <3>1. PICK i \in DOMAIN Data : Data[i] = q /\ g[i] > 0
      BY <2>1
    <3> DEFINE v == t[q]
               k == g[i]
               x == [v EXCEPT !.sched = TRUE, !.limit = k]
    <3>2. u[q] = x
      BY <1>2, <3>1
    <3>3. k \in Nat \ {0} /\ k <= Len(v.frames) /\ k <= v.credits
      BY <3>1 DEF Bearable
    <3>4. Good(q, v) /\ Sane(v) /\ "sta_ps" \in v.stop
      BY <1>1
    <3> HIDE DEF v, k, x
    <3>5. /\ Good(q, x) /\ x.active = v.active /\ x.frames = v.frames
          /\ x.limit = k /\ x.stop = v.stop /\ x.sched = TRUE
          /\ Sane(x) /\ Listed(x)
      <4>1. Good(q, v)
        BY <3>4
      <4>2. Sane(v)
        BY <3>4
      <4>3. "sta_ps" \in v.stop
        BY <3>4
      <4>4. k \in Nat /\ k > 0
        BY <3>3
      <4>5. k <= Len(v.frames)
        BY <3>3
      <4>6. k <= v.credits
        BY <3>3
      <4> QED
        BY <4>1, <4>2, <4>3, <4>4, <4>5, <4>6, LimitKeeps, Zenon DEF x
    <3> QED
      BY <3>1, <3>2, <3>5 DEF v
  <2>2. CASE ~ \E i \in DOMAIN Data : Data[i] = q /\ g[i] > 0
    <3>1. u[q] = t[q]
      BY <1>3, <2>2, Zenon
    <3>2. ~(t[q].limit > 0)
      <4>1. t[q].limit = 0
        BY <1>1
      <4> QED
        BY <4>1
    <3> QED
      BY <1>1, <3>1, <3>2
  <2> QED
    BY <2>1, <2>2
<1>6. u \in [Txqs -> Row]
  BY <1>4, <1>5 DEF Good
<1>7. QueuesSane(u) /\ QueuesListed(u)
  BY <1>5, Zenon DEF QueuesSane, QueuesListed
<1>8. SameFrames(t, u) /\ StillAsleep(t, u)
  BY <1>5, Zenon DEF SameFrames, StillAsleep
<1>9. ASSUME NEW i \in DOMAIN Data
      PROVE  u[Data[i]].limit = g[i]
  <2>1. Data[i] \in Txqs
    BY DataIs
  <2>2. CASE g[i] > 0
    <3> DEFINE v == t[Data[i]]
               k == g[i]
    <3>1. v \in Row
      BY <1>1, <2>1 DEF Good
    <3>2. u[Data[i]] = [v EXCEPT !.sched = TRUE, !.limit = k]
      BY <1>2, <2>2
    <3> HIDE DEF v, k
    <3>3. u[Data[i]].limit = k
      BY <3>1, <3>2 DEF Row
    <3> QED
      BY <3>3 DEF k
  <2>3. CASE ~(g[i] > 0)
    <3>1. g[i] = 0
      BY <2>3 DEF Bearable
    <3>2. ~ \E j \in DOMAIN Data : Data[j] = Data[i] /\ g[j] > 0
      BY <2>3, DataIs
    <3> QED
      BY <1>1, <1>3, <2>1, <3>1, <3>2
  <2> QED
    BY <2>2, <2>3
<1>10. Endowed(t, g, u)
  BY <1>1, <1>5, <1>9, Zenon DEF Endowed
<1> QED
  BY <1>6, <1>7, <1>8, <1>10 DEF u

\* What the request grants, in the state as it is.
Requested(n, id) ==
    LET all == ps.ready[id] - ps.sp[id] IN IF n = 0 \/ n > all THEN all ELSE n
GrantNow(n, id) == Grant(tx, id, Requested(n, id))

\* Nothing was granted before, and now is what g says.
DealtOut(t, id, g, u) == Quiet(t) /\ Bearable(t, id, g) /\ Endowed(t, g, u)

LEMMA TrafficReqKeeps ==
  ASSUME IndInv, NEW n \in 0..1, NEW id \in Ids, TrafficReq(n, id)
  PROVE  /\ IndInv' /\ SameFrames(tx, tx')
         /\ DealtOut(tx, id, GrantNow(n, id), tx')
<1> DEFINE g == GrantNow(n, id)
           u == Dealt(tx, g)
<1>1. /\ rx.pc = "idle" /\ task = FALSE /\ ps.active /\ csa = FALSE
      /\ Restart(u) /\ ps' = [ps EXCEPT !.sp[id] = SumFunctionOnSet(g, GrantedAt(g))]
      /\ task' = TRUE
      /\ UNCHANGED <<vif, valid, subq, fw, rx, csa, mgmt, del, halted>>
  BY Zenon DEF TrafficReq, Indication, Schedule, IndInv, TypeInv, GrantNow, Requested,
     Grant, Can, GrantedAt, Dealt
<1>2. Quiet(tx)
  BY <1>1, NothingGranted
<1>3. valid = TRUE /\ Asleep(tx) /\ \A q \in Txqs : tx[q].active = TRUE
  BY <1>1 DEF IndInv, StationInv
<1>4. Bearable(tx, id, g)
  <2>1. \A q \in Txqs : tx[q].credits >= 1
    BY <1>2, <1>3, QuietRow DEF Sane, Granted
  <2>2. tx \in [Txqs -> Row]
    BY DEF IndInv, TypeInv
  <2>3. Requested(n, id) \in Int
    BY DEF Requested, IndInv, TypeInv, Station
  <2> QED
    BY <2>1, <2>2, <2>3, GrantIs DEF GrantNow
<1> HIDE DEF g
<1>5. /\ u \in [Txqs -> Row] /\ QueuesSane(u) /\ QueuesListed(u)
      /\ SameFrames(tx, u) /\ StillAsleep(tx, u) /\ Endowed(tx, g, u)
  <2>1. Asleep(tx)
    BY <1>3
  <2>2. InUse(tx)
    BY <1>3 DEF InUse
  <2> QED
    BY <1>2, <1>4, <2>1, <2>2, DealtIs, Zenon
<1> HIDE DEF u
<1>6. /\ tx' = u /\ need' \in [Hwqs -> BOOLEAN]
      /\ \A q \in Txqs : u[q].sched = TRUE /\ tx[q].sched = FALSE => need'[Hwq[q]]
  BY <1>1, RestartNeed
<1>7. SameFrames(tx, tx') /\ StillAsleep(tx, tx')
  BY <1>5, <1>6
<1>8. ps' \in Station /\ ps'.active = ps.active
  <2> DEFINE x == SumFunctionOnSet(g, GrantedAt(g))
  <2>1. x \in Int
    <3> DEFINE S == GrantedAt(g)
    <3>1. S \subseteq DOMAIN Data
      BY DEF GrantedAt
    <3>2. IsFiniteSet(S)
      BY <3>1, TxqsFinite, FS_Subset
    <3>3. \A i \in S : g[i] \in Int
      BY <1>4, <3>1 DEF Bearable
    <3> HIDE DEF S
    <3>4. SumFunctionOnSet(g, S) \in Int
      BY <3>2, <3>3, SumIsInt
    <3> QED
      BY <3>4 DEF S
  <2> HIDE DEF x
  <2> QED
    BY <1>1, <2>1 DEF IndInv, TypeInv, Station, x
<1>9. TypeInv'
  BY <1>1, <1>5, <1>6, <1>8 DEF IndInv, TypeInv
<1>10. QueuesSane(tx') /\ QueuesListed(tx')
  BY <1>5, <1>6
<1>11. ListedInv'
  BY <1>10 DEF ListedInv, QueuesListed
<1>12. GrantInv'
  <2>1. \A q \in Txqs : tx'[q].limit > 0 => need'[Hwq[q]]
    BY <1>5, <1>6 DEF Endowed
  <2> QED
    BY <1>1, <2>1 DEF GrantInv
<1>13. \A q \in Txqs : tx'[q].frames = tx[q].frames
  BY <1>7 DEF SameFrames
<1>14. PlaceInv'
  BY <1>1, <1>13, Constants DEF IndInv, PlaceInv, Parted
<1>15. StationInv'
  BY <1>1, <1>7, <1>8, StationKept
<1>16. RetryInv'
  BY <1>1 DEF IndInv, RetryInv
<1>17. DealtOut(tx, id, g, tx')
  BY <1>2, <1>4, <1>5, <1>6 DEF DealtOut
<1> QED
  BY <1>7, <1>17, <1>9, <1>10, <1>11, <1>12, <1>14, <1>15, <1>16 DEF IndInv, g

-----------------------------------------------------------------------------
(* The invariant holds, in the builds and environments where nothing runs  *)
(* inside rwnx_txdatacfm, and as long as the credits do not wrap around.   *)

LEMMA InitIndInv ==
  ASSUME Init
  PROVE  IndInv
<1> DEFINE t == [q \in Txqs |-> Fresh({})]
           zero == [id \in Ids |-> 0]
<1>1. /\ tx = t /\ need = [h \in Hwqs |-> FALSE] /\ task = FALSE
      /\ ps = [active |-> FALSE, ready |-> zero, sp |-> zero]
      /\ vif = {} /\ valid = TRUE /\ fw = {}
      /\ rx = Idle /\ csa = FALSE /\ mgmt = None /\ del = None /\ halted = FALSE
  BY DEF Init
<1>2. {} \in SUBSET Stops
  OBVIOUS
<1>3. /\ t \in [Txqs -> Row] /\ QueuesSane(t) /\ QueuesListed(t)
      /\ \A q \in Txqs : /\ t[q].limit = 0 /\ t[q].active = TRUE /\ t[q].stop = {}
                         /\ t[q].frames = <<>> /\ ToSet(t[q].frames) = {}
  BY <1>2, AllFresh
<1>4. zero \in [Ids -> Int]
  OBVIOUS
<1> HIDE DEF t, zero
<1>5. TypeInv
  <2>1. ps \in Station
    BY <1>1, <1>4 DEF Station
  <2>2. rx \in [pc : {"idle", "link", "count", "list"}, f : Frames \cup {None},
                last : Frames \cup {None}]
    BY <1>1 DEF Idle
  <2>3. need \in [Hwqs -> BOOLEAN]
    BY <1>1
  <2> QED
    BY <1>1, <1>3, <2>1, <2>2, <2>3 DEF TypeInv
<1>6. QueuesSane(tx)
  BY <1>1, <1>3
<1>7. ListedInv
  BY <1>1, <1>3 DEF ListedInv, QueuesListed
<1>8. GrantInv
  BY <1>1, <1>3 DEF GrantInv
<1>9. PlaceInv
  BY <1>1 DEF PlaceInv, Parted
<1>10. StationInv
  BY <1>1, <1>3 DEF StationInv
<1>11. RetryInv
  BY <1>1 DEF RetryInv, Idle
<1> QED
  BY <1>5, <1>6, <1>7, <1>8, <1>9, <1>10, <1>11 DEF IndInv

LEMMA StutterKeeps ==
  ASSUME IndInv, UNCHANGED vars
  PROVE  IndInv'
<1>1. UNCHANGED <<tx, need, task, ps, vif, valid, subq, fw, rx, csa, mgmt, del, halted>>
  BY DEF vars
<1>2. TypeInv' /\ QueuesSane(tx')
  BY <1>1 DEF IndInv, TypeInv
<1>3. ListedInv' /\ GrantInv' /\ PlaceInv'
  <2>1. ListedInv'
    BY <1>1 DEF IndInv, ListedInv
  <2>2. GrantInv'
    BY <1>1 DEF IndInv, GrantInv
  <2>3. PlaceInv'
    BY <1>1 DEF IndInv, PlaceInv
  <2> QED
    BY <2>1, <2>2, <2>3
<1>4. StationInv' /\ RetryInv'
  <2>1. StationInv'
    BY <1>1 DEF IndInv, StationInv
  <2>2. RetryInv'
    BY <1>1 DEF IndInv, RetryInv
  <2> QED
    BY <2>1, <2>2
<1> QED
  BY <1>2, <1>3, <1>4 DEF IndInv

LEMMA StepKeeps ==
  ASSUME IndInv, Undisturbed, [Next]_vars
  PROVE  IndInv'
<1>1. ASSUME NEW f \in Free, IntfTx(f) PROVE IndInv'
  BY <1>1, IntfTxKeeps
<1>2. ASSUME NEW f \in Free, MgmtCheck(f) PROVE IndInv'
  BY <1>2, MgmtCheckKeeps
<1>3. CASE MgmtXmit
  BY <1>3, MgmtXmitKeeps
<1>4. CASE Task
  BY <1>4, TaskKeeps
<1>5. CASE ChanPreSwitch \/ ChanSwitch \/ P2pVifPsOn \/ P2pVifPsOff
  BY <1>5, ChanKeeps
<1>6. ASSUME NEW b \in BOOLEAN, CsaTraffic(b) \/ CsaFinish(b) PROVE IndInv'
  BY <1>6, CsaKeeps
<1>7. ASSUME NEW b \in BOOLEAN, PsChange(b) PROVE IndInv'
  BY <1>7, PsChangeKeeps
<1>8. ASSUME NEW n \in 0..1, NEW id \in Ids, TrafficReq(n, id) PROVE IndInv'
  BY <1>8, TrafficReqKeeps
<1>9. CASE SpInterrupted
  BY <1>9, SpInterruptedKeeps
<1>10. CASE CsaFinishInd
  BY <1>10, CsaFinishIndKeeps
<1>11. ASSUME NEW q \in Txqs, CreditsUpdate(q) PROVE IndInv'
  BY <1>11, CreditsUpdateKeeps
<1>12. ASSUME NEW f \in Frames, CfmDone(f) PROVE IndInv'
  BY <1>12, CfmDoneKeeps
<1>13. ASSUME NEW f \in Frames, CfmRetry(f) PROVE IndInv'
  BY <1>13, CfmRetryKeeps
<1>14. CASE RetryLink
  BY <1>14, RetryLinkKeeps
<1>15. CASE RetryCount
  BY <1>15, RetryCountKeeps
<1>16. CASE RetryList
  BY <1>16, RetryListKeeps
<1>17. CASE DelStation
  BY <1>17, DelStationKeeps
<1>18. ASSUME NEW q \in Txqs, Deinit(q) PROVE IndInv'
  BY <1>18, DeinitKeeps
<1>19. CASE Flush
  BY <1>19, FlushKeeps
<1>20. ASSUME NEW b \in BOOLEAN, AddStation(b) PROVE IndInv'
  BY <1>20, AddStationKeeps
<1>21. CASE UNCHANGED vars
  BY <1>21, StutterKeeps
<1> QED
  BY <1>1, <1>2, <1>3, <1>4, <1>5, <1>6, <1>7, <1>8, <1>9, <1>10, <1>11, <1>12,
     <1>13, <1>14, <1>15, <1>16, <1>17, <1>18, <1>19, <1>20, <1>21, Zenon DEF Next

LEMMA NextKeeps ==
  ASSUME IndInv, [Next]_vars, [Undisturbed]_vars
  PROVE  IndInv'
<1>1. CASE Undisturbed
  BY <1>1, StepKeeps
<1>2. CASE UNCHANGED vars
  BY <1>2, StutterKeeps
<1> QED
  BY <1>1, <1>2

LEMMA SpecIndInv ==
  Spec /\ [][Undisturbed]_vars => []IndInv
<1>1. Init => IndInv
  BY InitIndInv
<1>2. IndInv /\ [Next]_vars /\ [Undisturbed]_vars => IndInv'
  BY NextKeeps
<1> QED
  BY <1>1, <1>2, PTL DEF Spec

\* The BUGs have two causes.  rwnx_hwq_process meets one of its BUG_ON, or
\* rwnx_tx_retry links a frame behind one that has left the list, only after
\* something ran inside rwnx_txdatacfm, which takes no tx_lock, or a retry found
\* the credits of its queue, an s8, at their largest value; nothing in the code
\* prevents either.  Stops, starts, service periods, retries and the removal of
\* the station, in any order and number, are no third.
THEOREM BugsHaveTwoCauses ==
  Spec /\ [][Undisturbed]_vars => []NeverHalts
<1>1. IndInv => NeverHalts
  BY DEF IndInv, TypeInv, NeverHalts
<1> QED
  BY <1>1, SpecIndInv, PTL

\* A queue is on its hardware list exactly if it has frames and either nothing
\* stops it or a service period lets it send, whatever the order in which
\* rwnx_txq_start, rwnx_txq_stop, service periods and retries touch it.
THEOREM ListsAreExact ==
  Spec /\ [][Undisturbed]_vars => []QueuesInService
<1>1. IndInv => QueuesInService
  <2> SUFFICES ASSUME IndInv, NEW q \in Txqs, tx[q].active
               PROVE  /\ tx[q].sched => /\ tx[q].frames # <<>>
                                        /\ tx[q].stop = {} \/ tx[q].limit > 0
                      /\ tx[q].frames # <<>> /\ tx[q].stop = {} =>
                            tx[q].sched \/ rx.f \in Of(q)
    BY Zenon DEF QueuesInService
  <2>1. OnList(tx[q])
    BY DEF IndInv, QueuesSane, Sane
  <2>2. rx.f \notin Of(q) => Listed(tx[q])
    BY DEF IndInv, ListedInv
  <2> QED
    BY <2>1, <2>2 DEF OnList, Listed
<1> QED
  BY <1>1, SpecIndInv, PTL

\* The frames that rwnx_tx_retry takes back are the first nb_retry of the
\* list, and last_retry_skb is the last of them, also when rwnx_tx_push takes
\* some of them from the head.
THEOREM RetriesStayFirst ==
  Spec /\ [][Undisturbed]_vars => []RetriesFirst
<1>1. IndInv => RetriesFirst
  BY DEF IndInv, QueuesSane, Sane, Retries, RetriesFirst
<1> QED
  BY <1>1, SpecIndInv, PTL

-----------------------------------------------------------------------------
(* What a station that sleeps is sent.                                     *)

LEMMA AsleepIs ==
  ASSUME IndInv, ps.active
  PROVE  /\ valid = TRUE /\ InUse(tx)
         /\ \A q \in Txqs : /\ Good(q, tx[q]) /\ Sane(tx[q]) /\ "sta_ps" \in tx[q].stop
                            /\ Len(tx[q].frames) \in Nat /\ tx[q].limit \in Nat
<1>1. valid = TRUE /\ Asleep(tx) /\ \A q \in Txqs : tx[q].active = TRUE
  BY DEF IndInv, StationInv
<1>2. \A q \in Txqs : Good(q, tx[q]) /\ Sane(tx[q]) /\ "sta_ps" \in tx[q].stop
  BY <1>1 DEF IndInv, QueuesSane, Asleep
<1>3. \A q \in Txqs : Len(tx[q].frames) \in Nat /\ tx[q].limit \in Nat
  BY <1>2, RowFields, Elements DEF Good
<1> QED
  BY <1>1, <1>2, <1>3 DEF InUse

\* A new frame waits: its queue is stopped.
LEMMA NewWaits ==
  ASSUME IndInv, ps.active, rx.pc = "idle", NEW f \in Frames, f \notin fw,
         f \notin ToSet(tx[Tid[f]].frames), NEW u, NEW n,
         OnlyServed(WithNew(f), u, n, ListsOf(f))
  PROVE  \A q \in Txqs : u[q] = WithNew(f)[q] /\ Len(u[q].frames) >= Len(tx[q].frames)
<1> DEFINE t == WithNew(f)
<1>1. \A q \in Txqs : /\ t[q].active = tx[q].active /\ t[q].stop = tx[q].stop
                      /\ Len(t[q].frames) >= Len(tx[q].frames)
  BY WithNewIs
<1>2. \A q \in Txqs : t[q].active = TRUE /\ t[q].stop # {}
  BY <1>1, AsleepIs DEF InUse
<1>3. ListsOf(f) = {}
  BY <1>2, Constants DEF ListsOf
<1> HIDE DEF t
<1>4. \A q \in Txqs : u[q] = t[q]
  BY <1>2, <1>3 DEF OnlyServed, t
<1> QED
  BY <1>1, <1>4 DEF t

\* The tasklet pushes exactly what was granted.
LEMMA GrantedPushed ==
  ASSUME IndInv, ps.active, NEW u, NEW n, NEW hs, OnlyServed(tx, u, n, hs),
         NEW q \in Txqs
  PROVE  \/ u[q] = tx[q]
         \/ tx[q].limit > 0 /\ Len(u[q].frames) = Len(tx[q].frames) - tx[q].limit
<1>1. tx[q].active = TRUE /\ Sane(tx[q]) /\ "sta_ps" \in tx[q].stop /\ tx[q] \in Row
  BY AsleepIs DEF InUse, Good
<1>2. \/ u[q] = tx[q]
      \/ /\ tx[q].sched = TRUE
         /\ Len(u[q].frames) = Len(tx[q].frames) - Pushes(tx[q])
  BY <1>1 DEF OnlyServed
<1>3. tx[q].sched = TRUE => tx[q].limit > 0
  BY <1>1 DEF Sane, OnList
<1>4. tx[q].limit > 0 => Pushes(tx[q]) = tx[q].limit
  BY <1>1, PushesIs
<1> QED
  BY <1>2, <1>3, <1>4

Longer(t, u) == \A q \in Txqs : Len(u[q].frames) >= Len(t[q].frames)

LEMMA SameIsLonger ==
  ASSUME IndInv, NEW u, \A q \in Txqs : u[q].frames = tx[q].frames
  PROVE  Longer(tx, u)
<1>1. \A q \in Txqs : Len(tx[q].frames) \in Nat
  BY RowFields, Elements DEF IndInv, TypeInv
<1> QED
  BY <1>1 DEF Longer

LEMMA QuietlyIsLonger ==
  ASSUME IndInv, NEW u, SameFrames(tx, u)
  PROVE  Longer(tx, u)
BY SameIsLonger DEF SameFrames

\* Only the tasklet shortens the list of a station that sleeps.
LEMMA OnlyTaskletPushes ==
  ASSUME IndInv, Undisturbed, [Next]_vars,
         ps.active, ps'.active, ~Task
  PROVE  Longer(tx, tx')
<1>0. valid = TRUE
  BY AsleepIs
<1>1. ASSUME NEW f \in Free, IntfTx(f) PROVE Longer(tx, tx')
  <2>1. f \in Frames /\ f \notin fw /\ f \notin ToSet(tx[Tid[f]].frames) /\ rx.pc = "idle"
    BY <1>1, FreeIs, Constants DEF IntfTx, Undisturbed, Interrupts
  <2>2. OnlyServed(WithNew(f), tx', need', ListsOf(f))
    BY <1>1, IntfTxKeeps
  <2>3. \A q \in Txqs : Len(tx'[q].frames) >= Len(tx[q].frames)
    BY <2>1, <2>2, NewWaits
  <2> QED
    BY <2>3 DEF Longer
<1>2. ASSUME NEW f \in Free, MgmtCheck(f) PROVE Longer(tx, tx')
  BY <1>2, SameIsLonger DEF MgmtCheck
<1>3. CASE MgmtXmit
  <2>1. mgmt \in Frames /\ mgmt \notin fw /\ mgmt \notin ToSet(tx[Tid[mgmt]].frames)
        /\ rx.pc = "idle"
    BY <1>3 DEF MgmtXmit, Undisturbed, Interrupts, IndInv, TypeInv, PlaceInv, Of
  <2>2. OnlyServed(WithNew(mgmt), tx', need', ListsOf(mgmt))
    BY <1>3, MgmtXmitKeeps
  <2>3. \A q \in Txqs : Len(tx'[q].frames) >= Len(tx[q].frames)
    BY <2>1, <2>2, NewWaits
  <2> QED
    BY <2>3 DEF Longer
<1>5. CASE ChanPreSwitch \/ ChanSwitch \/ P2pVifPsOn \/ P2pVifPsOff
  BY <1>5, ChanKeeps, QuietlyIsLonger DEF Quietly
<1>6. ASSUME NEW b \in BOOLEAN, CsaTraffic(b) \/ CsaFinish(b) PROVE Longer(tx, tx')
  BY <1>6, CsaKeeps, QuietlyIsLonger DEF Quietly
<1>7. ASSUME NEW b \in BOOLEAN, PsChange(b) PROVE Longer(tx, tx')
  BY <1>7, PsChangeKeeps, QuietlyIsLonger DEF Quietly
<1>8. ASSUME NEW n \in 0..1, NEW id \in Ids, TrafficReq(n, id) PROVE Longer(tx, tx')
  BY <1>8, TrafficReqKeeps, QuietlyIsLonger
<1>9. CASE SpInterrupted
  BY <1>9, SpInterruptedKeeps, QuietlyIsLonger DEF Quietly
<1>10. CASE CsaFinishInd
  BY <1>10, SameIsLonger DEF CsaFinishInd
<1>11. ASSUME NEW q \in Txqs, CreditsUpdate(q) PROVE Longer(tx, tx')
  BY <1>11, CreditsUpdateKeeps, QuietlyIsLonger DEF Quietly
<1>12. ASSUME NEW f \in Frames, CfmDone(f) PROVE Longer(tx, tx')
  BY <1>12, CfmDoneKeeps, SameIsLonger
<1>13. ASSUME NEW f \in Frames, CfmRetry(f) PROVE Longer(tx, tx')
  BY <1>13, CfmRetryKeeps, SameIsLonger DEF SameCounts
<1>14. CASE RetryLink
  <2>1. \A q \in Txqs : Len(tx[q].frames) \in Nat
    BY RowFields, Elements DEF IndInv, TypeInv
  <2>2. LinkedIn(tx, Tid[rx.f], tx')
    BY <1>14, RetryLinkKeeps
  <2>3. ASSUME NEW q \in Txqs
        PROVE  Len(tx'[q].frames) >= Len(tx[q].frames)
    <3>1. \/ Len(tx'[q].frames) = Len(tx[q].frames)
          \/ Len(tx'[q].frames) = Len(tx[q].frames) + 1
      BY <2>2, Zenon DEF LinkedIn
    <3> QED
      BY <2>1, <3>1
  <2> QED
    BY <2>3, Zenon DEF Longer
<1>15. CASE RetryCount
  BY <1>15, RetryCountKeeps, SameIsLonger DEF SameCounts
<1>16. CASE RetryList
  BY <1>16, RetryListKeeps, SameIsLonger DEF SameCounts
<1>17. CASE DelStation
  BY <1>17, SameIsLonger DEF DelStation
<1>18. ASSUME NEW q \in Txqs, Deinit(q) PROVE Longer(tx, tx')
  BY <1>18, DeinitKeeps, SameIsLonger
<1>19. CASE Flush
  <2>1. FALSE
    BY <1>19, AsleepIs DEF Flush, IndInv, TypeInv, StationInv, InUse
  <2> QED
    BY <2>1
<1>20. ASSUME NEW b \in BOOLEAN, AddStation(b) PROVE Longer(tx, tx')
  BY <1>0, <1>20 DEF AddStation
<1>21. CASE UNCHANGED vars
  BY <1>21, SameIsLonger DEF vars
<1> QED
  BY <1>1, <1>2, <1>3, <1>5, <1>6, <1>7, <1>8, <1>9, <1>10, <1>11, <1>12,
     <1>13, <1>14, <1>15, <1>16, <1>17, <1>18, <1>19, <1>20, <1>21, Zenon DEF Next

\* A station that sleeps is sent no more than its service period allows: new
\* frames, confirmations, retries and the processing of a hardware queue for
\* another queue push nothing of it, and the tasklet pushes exactly push_limit.
THEOREM SleeperIsSentItsGrant ==
  Spec /\ [][Undisturbed]_vars => OnlyGranted
<1> DEFINE Act == \A q \in Txqs :
             ps.active /\ ps'.active /\ Len(tx'[q].frames) < Len(tx[q].frames)
               => Len(tx[q].frames) - Len(tx'[q].frames) <= tx[q].limit
<1>1. IndInv /\ [Next]_vars /\ [Undisturbed]_vars => [Act]_vars
  <2> SUFFICES ASSUME IndInv, [Next]_vars, Undisturbed, NEW q \in Txqs, ps.active, ps'.active,
                      Len(tx'[q].frames) < Len(tx[q].frames)
               PROVE  Len(tx[q].frames) - Len(tx'[q].frames) <= tx[q].limit
    OBVIOUS
  <2>0. IndInv'
    BY StepKeeps
  <2> DEFINE a == Len(tx[q].frames)
             b == Len(tx'[q].frames)
             m == tx[q].limit
  <2>1. a \in Nat /\ m \in Nat /\ b \in Nat
    <3>1. tx'[q] \in Row
      BY <2>0 DEF IndInv, TypeInv
    <3> QED
      BY <3>1, AsleepIs, RowFields, Elements
  <2>2. CASE Task
    <3>1. \/ tx'[q] = tx[q]
          \/ m > 0 /\ b = a - m
      BY <2>2, TaskKeeps, GrantedPushed
    <3>2. b < a
      OBVIOUS
    <3>3. tx'[q] = tx[q] => b = a
      OBVIOUS
    <3> HIDE DEF a, b, m
    <3>4. a - b <= m
      BY <2>1, <3>1, <3>2, <3>3
    <3> QED
      BY <3>4 DEF a, b, m
  <2>3. CASE ~Task
    <3>1. Longer(tx, tx')
      BY <2>3, OnlyTaskletPushes
    <3>2. b < a
      OBVIOUS
    <3>3. b >= a
      BY <3>1 DEF Longer
    <3> HIDE DEF a, b
    <3>4. FALSE
      BY <2>1, <3>2, <3>3
    <3> QED
      BY <3>4
  <2> QED
    BY <2>2, <2>3
<1>2. Spec /\ [][Undisturbed]_vars => [][Act]_vars
  BY <1>1, SpecIndInv, PTL DEF Spec
<1> QED
  BY <1>2 DEF OnlyGranted

-----------------------------------------------------------------------------
(* The counters of the station: pkt_ready and sp_cnt are 16 bits wide and  *)
(* kept apart from the queues.                                             *)

Lens(t) == [q \in Txqs |-> Len(t[q].frames)]
Limits(t) == [q \in Txqs |-> t[q].limit]
Granting(t, id) == SumFunctionOnSet(Limits(t), Kind(id))

\* A frame that comes back is counted before it is linked.
Back(r, id) == IF r.pc = "link" /\ PsId[Tid[r.f]] = id THEN 1 ELSE 0

Counted(p, r, t) ==
    p.active => \A id \in Ids : /\ p.ready[id] = Ready(t, id) + Back(r, id)
                                /\ p.sp[id] = Granting(t, id)

LEMMA SumOfZeros ==
  ASSUME NEW f, NEW S, IsFiniteSet(S), \A x \in S : f[x] = 0
  PROVE  SumFunctionOnSet(f, S) = 0
<1>1. {} \in SUBSET S /\ \A x \in {} : f[x] \in Int /\ f[x] = f[x]
  OBVIOUS
<1>2. \A x \in S \ {} : f[x] = 0
  OBVIOUS
<1>3. SumFunctionOnSet(f, S) = SumFunctionOnSet(f, {})
  BY <1>1, <1>2, SumSame
<1> QED
  BY <1>3, SumOfNone

LEMMA SumOfOne ==
  ASSUME NEW f, NEW S, IsFiniteSet(S), NEW y, \A x \in S : x # y => f[x] = 0,
         y \in S => f[y] = 1
  PROVE  SumFunctionOnSet(f, S) = IF y \in S THEN 1 ELSE 0
<1>1. CASE y \notin S
  <2>1. \A x \in S : f[x] = 0
    BY <1>1
  <2> QED
    BY <1>1, <2>1, SumOfZeros
<1>2. CASE y \in S
  <2>1. \A x \in S : f[x] \in Int
    BY <1>2
  <2>2. SumFunctionOnSet(f, S) = f[y] + SumFunctionOnSet(f, S \ {y})
    BY <1>2, <2>1, SumTake
  <2>3. IsFiniteSet(S \ {y}) /\ \A x \in S \ {y} : f[x] = 0
    BY FS_Subset
  <2>4. SumFunctionOnSet(f, S \ {y}) = 0
    BY <2>3, SumOfZeros
  <2> QED
    BY <1>2, <2>2, <2>4
<1> QED
  BY <1>1, <1>2

\* No more frames are counted than there are.
LEMMA ListSize ==
  ASSUME NEW l \in Seq(Frames), Apart(l)
  PROVE  Len(l) \in Nat /\ IsFiniteSet(ToSet(l)) /\ Len(l) <= Cardinality(ToSet(l))
<1>1. Len(l) \in Nat /\ DOMAIN l = 1..Len(l) /\ l \in [1..Len(l) -> Frames]
  BY LenProperties
<1>2. ToSet(l) \subseteq Frames /\ \A i \in 1..Len(l) : l[i] \in ToSet(l)
  BY Elements
<1>3. IsFiniteSet(ToSet(l))
  BY <1>2, TxqAssumption, FS_Subset
<1>4. l \in [1..Len(l) -> ToSet(l)]
  BY <1>1, <1>2
<1>5. l \in Injection(1..Len(l), ToSet(l))
  BY <1>1, <1>4 DEF Injection, IsInjective, Apart
<1>6. Cardinality(1..Len(l)) = Len(l)
  BY <1>1, FS_Interval
<1>7. Cardinality(1..Len(l)) <= Cardinality(ToSet(l))
  BY <1>3, <1>5, FS_Injection
<1> QED
  BY <1>1, <1>3, <1>6, <1>7

LEMMA Bounded ==
  ASSUME NEW t \in [Txqs -> Row], QueuesSane(t), NEW B \in SUBSET Frames,
         \A q \in Txqs : ToSet(t[q].frames) \subseteq B, NEW g,
         \A q \in Txqs : g[q] \in Nat /\ g[q] <= Len(t[q].frames), NEW id
  PROVE  /\ SumFunctionOnSet(g, Kind(id)) \in Nat
         /\ SumFunctionOnSet(g, Kind(id)) <= Cardinality(B)
<1> DEFINE K == Kind(id)
           A == [q \in Txqs |-> ToSet(t[q].frames)]
<1>1. IsFiniteSet(K) /\ K \subseteq Txqs
  BY KindsFinite DEF Kind
<1>2. IsFiniteSet(B)
  BY TxqAssumption, FS_Subset
<1>3. ASSUME NEW q \in Txqs
      PROVE  g[q] \in Nat /\ g[q] <= Cardinality(A[q]) /\ A[q] \in SUBSET B /\ A[q] \subseteq Of(q)
  <2> DEFINE l == t[q].frames
             c == Cardinality(ToSet(l))
             n == Len(l)
             k == g[q]
  <2>1. l \in Seq(Frames) /\ Apart(l) /\ ToSet(l) \subseteq Of(q)
    BY RowFields DEF QueuesSane, Good
  <2>2. n \in Nat /\ n <= c /\ c \in Nat
    <3> HIDE DEF l
    <3> QED
      BY <2>1, ListSize, FS_CardinalityType
  <2>3. k \in Nat /\ k <= n
    OBVIOUS
  <2> HIDE DEF n, c, k
  <2>4. k \in Nat /\ k <= c
    BY <2>2, <2>3
  <2> QED
    BY <2>1, <2>4 DEF k, c
<1>4. \A x, y \in K : x # y => A[x] \cap A[y] = {}
  <2>1. \A x, y \in Txqs : x # y => Of(x) \cap Of(y) = {}
    BY DEF Of
  <2> QED
    BY <1>1, <1>3, <2>1
<1> HIDE DEF A, K
<1>5. \A x \in K : A[x] \in SUBSET B /\ g[x] \in Nat /\ g[x] <= Cardinality(A[x])
  BY <1>1, <1>3
<1>6. SumFunctionOnSet(g, K) <= Cardinality(B)
  BY <1>1, <1>2, <1>4, <1>5, SumOfSizes
<1>7. SumFunctionOnSet(g, K) \in Nat
  BY <1>1, <1>5, SumIsNat
<1> QED
  BY <1>6, <1>7 DEF K

LEMMA CountsBounded ==
  ASSUME NEW t \in [Txqs -> Row], QueuesSane(t), InUse(t), NEW id
  PROVE  /\ Ready(t, id) \in Nat /\ Ready(t, id) <= Cardinality(Frames)
         /\ Granting(t, id) \in Nat /\ Granting(t, id) <= Cardinality(Frames)
<1>1. \A q \in Txqs : /\ ToSet(t[q].frames) \subseteq Frames
                      /\ Len(t[q].frames) \in Nat /\ t[q].limit \in Nat
                      /\ t[q].limit <= Len(t[q].frames)
  BY RowFields, Elements DEF QueuesSane, Sane, Granted, InUse
<1> DEFINE f == Lens(t)
           g == Limits(t)
<1>2. \A q \in Txqs : /\ f[q] \in Nat /\ f[q] <= Len(t[q].frames)
                      /\ g[q] \in Nat /\ g[q] <= Len(t[q].frames)
  BY <1>1 DEF Lens, Limits
<1> HIDE DEF f, g
<1>3. SumFunctionOnSet(f, Kind(id)) \in Nat /\ SumFunctionOnSet(f, Kind(id)) <= Cardinality(Frames)
  BY <1>1, <1>2, Bounded
<1>4. SumFunctionOnSet(g, Kind(id)) \in Nat /\ SumFunctionOnSet(g, Kind(id)) <= Cardinality(Frames)
  BY <1>1, <1>2, Bounded
<1> QED
  BY <1>3, <1>4 DEF f, g, Ready, Lens, Granting

\* Another frame that is in no list is still among the frames there are.
LEMMA RoomForOne ==
  ASSUME NEW t \in [Txqs -> Row], QueuesSane(t), NEW id, NEW f \in Frames,
         \A q \in Txqs : f \notin ToSet(t[q].frames)
  PROVE  Ready(t, id) \in Nat /\ Ready(t, id) + 1 <= Cardinality(Frames)
<1> DEFINE B == Frames \ {f}
           g == Lens(t)
<1>1. \A q \in Txqs : ToSet(t[q].frames) \subseteq B /\ Len(t[q].frames) \in Nat
  BY RowFields, Elements
<1>2. \A q \in Txqs : g[q] \in Nat /\ g[q] <= Len(t[q].frames)
  BY <1>1 DEF Lens
<1> HIDE DEF g
<1>3. SumFunctionOnSet(g, Kind(id)) \in Nat /\ SumFunctionOnSet(g, Kind(id)) <= Cardinality(B)
  BY <1>1, <1>2, Bounded
<1>4. Cardinality(Frames) \in Nat /\ Cardinality(B) = Cardinality(Frames) - 1
  BY TxqAssumption, FS_CardinalityType, FS_RemoveElement
<1>5. Ready(t, id) = SumFunctionOnSet(g, Kind(id))
  BY DEF Ready, g, Lens
<1> HIDE DEF B
<1> QED
  BY <1>3, <1>4, <1>5

LEMMA SameCounted ==
  ASSUME NEW t, NEW u, SameCounts(t, u), NEW id
  PROVE  Ready(u, id) = Ready(t, id) /\ Granting(u, id) = Granting(t, id)
<1>1. Lens(u) = Lens(t) /\ Limits(u) = Limits(t)
  BY DEF SameCounts, Lens, Limits
<1> QED
  BY <1>1, Zenon DEF Ready, Lens, Granting

LEMMA NoneGranting ==
  ASSUME NEW t, NEW id, \A q \in Kind(id) : t[q].limit = 0
  PROVE  Granting(t, id) = 0
<1>1. IsFiniteSet(Kind(id)) /\ Kind(id) \subseteq Txqs
  BY KindsFinite DEF Kind
<1>2. \A q \in Kind(id) : Limits(t)[q] = 0
  BY <1>1 DEF Limits
<1> QED
  BY <1>1, <1>2, SumOfZeros DEF Granting

LEMMA LinkedCounts ==
  ASSUME NEW t \in [Txqs -> Row], NEW p \in Txqs, NEW u \in [Txqs -> Row], LinkedIn(t, p, u), NEW id
  PROVE  /\ Ready(u, id) = Ready(t, id) + (IF PsId[p] = id THEN 1 ELSE 0)
         /\ Granting(u, id) = Granting(t, id)
<1> DEFINE K == Kind(id)
           a == Lens(t)
           b == Lens(u)
           h == [q \in Txqs |-> IF q = p THEN 1 ELSE 0]
<1>1. IsFiniteSet(K) /\ K \subseteq Txqs /\ (p \in K <=> PsId[p] = id)
  BY KindsFinite DEF Kind
<1>2. \A q \in Txqs : a[q] \in Int /\ a[q] = Len(t[q].frames) /\ b[q] = Len(u[q].frames)
  BY RowFields, Elements DEF Lens
<1>3. \A q \in Txqs : h[q] = IF q = p THEN 1 ELSE 0
  OBVIOUS
<1> HIDE DEF K, a, b, h
<1>4. \A q \in K : a[q] \in Int /\ h[q] \in Int /\ b[q] = a[q] + h[q]
  <2> SUFFICES ASSUME NEW q \in K
               PROVE  a[q] \in Int /\ h[q] \in Int /\ b[q] = a[q] + h[q]
    OBVIOUS
  <2>1. /\ q # p => b[q] = a[q]
        /\ q = p => b[q] = a[q] + 1
    BY <1>1, <1>2 DEF LinkedIn
  <2> QED
    BY <1>1, <1>2, <1>3, <2>1
<1>5. SumFunctionOnSet(b, K) = SumFunctionOnSet(a, K) + SumFunctionOnSet(h, K)
  BY <1>1, <1>4, SumOfSums
<1>6. SumFunctionOnSet(h, K) = IF p \in K THEN 1 ELSE 0
  <2>1. \A x \in K : x # p => h[x] = 0
    BY <1>1, <1>3
  <2>2. p \in K => h[p] = 1
    BY <1>3
  <2> QED
    BY <1>1, <2>1, <2>2, SumOfOne
<1>7. Granting(u, id) = Granting(t, id)
  <2>1. Limits(u) = Limits(t)
    BY DEF LinkedIn, Limits
  <2> QED
    BY <2>1, Zenon DEF Granting
<1>8. Ready(u, id) = SumFunctionOnSet(b, K) /\ Ready(t, id) = SumFunctionOnSet(a, K)
  BY DEF Ready, a, b, K, Lens
<1> QED
  BY <1>1, <1>5, <1>6, <1>7, <1>8

LEMMA Small ==
  ASSUME NEW x \in Nat, NEW n \in Nat, x <= n, n < U16
  PROVE  x % U16 = x
BY DEF U16

\* rwnx_hwq_process takes what it pushes of a station that sleeps from
\* pkt_ready and sp_cnt, and from the push_limit of its queues.
LEMMA ProcessCounts ==
  ASSUME Cardinality(Frames) < U16,
         NEW t \in [Txqs -> Row], QueuesSane(t), InUse(t), Asleep(t),
         NEW p \in Station, p.active, NEW w, NEW n, NEW r \in [Ids -> Int], NEW hs,
         NEW u \in [Txqs -> Row], QueuesSane(u), InUse(u), NEW m, NEW p1, NEW w1,
         Processed(p, w, t, n, r, hs, u, m, p1, w1),
         NEW id \in Ids, r[id] = Ready(t, id), p.sp[id] = Granting(t, id)
  PROVE  p1.ready[id] = Ready(u, id) /\ p1.sp[id] = Granting(u, id)
<1> DEFINE on == OnLists(t, hs)
           K == Kind(id)
           R == on \cap K
           pop == Popped(t, on)
           cut == Cut(t, on)
           less == [q \in Txqs |-> IF q \in on THEN t[q].limit ELSE 0]
           a == Lens(t)
           b == Lens(u)
           c == Limits(t)
           d == Limits(u)
<1>1. /\ u = [q \in Txqs |-> IF q \in on THEN Served(q, t[q]) ELSE t[q]]
      /\ p1 = StationServed(p, t, r, on)
  BY DEF Processed
<1>2. on \in SUBSET Txqs /\ IsFiniteSet(K) /\ K \subseteq Txqs /\ R \in SUBSET K /\ IsFiniteSet(R)
  <2>1. on \in SUBSET Txqs
    BY DEF OnLists
  <2> HIDE DEF on
  <2> QED
    BY <2>1, KindsFinite DEF Kind
<1>3. \A q \in on : t[q].sched = TRUE
  BY RowFields DEF OnLists
<1> HIDE DEF on
<1>4. ASSUME NEW q \in Txqs
      PROVE  /\ Len(t[q].frames) \in Nat /\ t[q].limit \in Nat
             /\ q \in on => /\ Pushes(t[q]) = t[q].limit
                            /\ Len(u[q].frames) = Len(t[q].frames) - t[q].limit
                            /\ u[q].limit = 0
             /\ q \notin on => u[q] = t[q]
  <2>1. /\ Good(q, t[q]) /\ Sane(t[q]) /\ t[q].active = TRUE /\ "sta_ps" \in t[q].stop
        /\ t[q] \in Row
    BY DEF QueuesSane, InUse, Asleep
  <2>2. Len(t[q].frames) \in Nat /\ t[q].limit \in Nat
    BY <2>1, RowFields, Elements
  <2>3. ASSUME q \in on
        PROVE  /\ Pushes(t[q]) = t[q].limit
               /\ Len(u[q].frames) = Len(t[q].frames) - t[q].limit
               /\ u[q].limit = 0
    <3> DEFINE v == t[q]
               x == Served(q, v)
    <3>0. Good(q, v) /\ (v.active => Sane(v))
      BY <2>1
    <3> HIDE DEF v
    <3>1. v.active => Len(x.frames) = Len(v.frames) - Pushes(v) /\ x.limit = 0
      BY <3>0, ServedKeeps
    <3> USE DEF v
    <3>2. v.limit > 0
      BY <1>3, <2>1, <2>3 DEF Sane, OnList
    <3>3. Pushes(v) = v.limit
      BY <2>1, <3>2, PushesIs
    <3>4. u[q] = x
      BY <1>1, <2>3
    <3> HIDE DEF x
    <3> QED
      BY <2>1, <3>1, <3>3, <3>4
  <2>4. q \notin on => u[q] = t[q]
    BY <1>1
  <2> QED
    BY <2>2, <2>3, <2>4
<1>5. ASSUME NEW q \in Txqs
      PROVE  /\ a[q] \in Int /\ b[q] \in Int /\ c[q] \in Int /\ d[q] \in Int /\ less[q] \in Int
             /\ a[q] = b[q] + less[q] /\ c[q] = d[q] + less[q]
  <2>1. /\ a[q] = Len(t[q].frames) /\ b[q] = Len(u[q].frames)
        /\ c[q] = t[q].limit /\ d[q] = u[q].limit
        /\ less[q] = IF q \in on THEN t[q].limit ELSE 0
    BY DEF Lens, Limits
  <2> HIDE DEF a, b, c, d, less
  <2>2. CASE q \in on
    BY <1>4, <2>1, <2>2
  <2>3. CASE q \notin on
    BY <1>4, <2>1, <2>3
  <2> QED
    BY <2>2, <2>3
<1>6. \A q \in R : pop[q] \in Int /\ less[q] = pop[q] /\ cut[q] = 0
  <2> SUFFICES ASSUME NEW q \in R
               PROVE  pop[q] \in Int /\ less[q] = pop[q] /\ cut[q] = 0
    OBVIOUS
  <2>1. q \in on /\ q \in Txqs
    BY <1>2
  <2>2. pop[q] = Pushes(t[q]) /\ cut[q] = Less(t[q].limit, Pushes(t[q])) /\ less[q] = t[q].limit
    BY <2>1 DEF Popped, Cut
  <2>3. Pushes(t[q]) = t[q].limit /\ t[q].limit \in Nat
    BY <1>4, <2>1
  <2> HIDE DEF pop, cut, less
  <2> QED
    BY <2>2, <2>3 DEF Less
<1>7. \A q \in K \ R : less[q] = 0
  BY <1>2
<1> HIDE DEF a, b, c, d, less, pop, cut, K, R
<1>8. SumFunctionOnSet(a, K) = SumFunctionOnSet(b, K) + SumFunctionOnSet(less, K)
  <2>1. \A q \in K : b[q] \in Int /\ less[q] \in Int /\ a[q] = b[q] + less[q]
    BY <1>2, <1>5
  <2> QED
    BY <1>2, <2>1, SumOfSums
<1>9. SumFunctionOnSet(c, K) = SumFunctionOnSet(d, K) + SumFunctionOnSet(less, K)
  <2>1. \A q \in K : d[q] \in Int /\ less[q] \in Int /\ c[q] = d[q] + less[q]
    BY <1>2, <1>5
  <2> QED
    BY <1>2, <2>1, SumOfSums
<1>10. SumFunctionOnSet(less, K) = SumFunctionOnSet(pop, R)
  BY <1>2, <1>6, <1>7, SumSame
<1>11. SumFunctionOnSet(cut, R) = 0
  BY <1>2, <1>6, SumOfZeros
<1> DEFINE x == SumFunctionOnSet(pop, R)
           y == SumFunctionOnSet(cut, R)
<1>12. /\ Ready(t, id) = SumFunctionOnSet(a, K) /\ Ready(u, id) = SumFunctionOnSet(b, K)
       /\ Granting(t, id) = SumFunctionOnSet(c, K) /\ Granting(u, id) = SumFunctionOnSet(d, K)
  BY DEF Ready, Granting, Lens, a, b, c, d, K
<1>13. /\ Ready(u, id) \in Nat /\ Ready(u, id) <= Cardinality(Frames)
       /\ Granting(u, id) \in Nat /\ Granting(u, id) <= Cardinality(Frames)
       /\ Cardinality(Frames) \in Nat
  BY CountsBounded, TxqAssumption, FS_CardinalityType
<1>14. x \in Int
  <2>1. \A q \in R : pop[q] \in Int
    BY <1>6
  <2> QED
    BY <1>2, <2>1, SumIsInt
<1>15. /\ p1.ready[id] = (r[id] - x) % U16
       /\ p1.sp[id] = (p.sp[id] - x - (IF id = "legacy" THEN y ELSE 0)) % U16
  <2> DEFINE ready == [i \in Ids |->
                 (r[i] - SumFunctionOnSet(Popped(t, on), on \cap Kind(i))) % U16]
             sp == [i \in Ids |->
               (p.sp[i] - SumFunctionOnSet(Popped(t, on), on \cap Kind(i))
                  - (IF i = "legacy"
                     THEN SumFunctionOnSet(Cut(t, on), on \cap Kind(i))
                     ELSE 0)) % U16]
  <2>1. p1 = [p EXCEPT !.ready = ready, !.sp = sp]
    BY <1>1, Zenon DEF StationServed
  <2>2. /\ ready[id] = (r[id] - x) % U16
        /\ sp[id] = (p.sp[id] - x - (IF id = "legacy" THEN y ELSE 0)) % U16
    BY Zenon DEF pop, cut, R, K
  <2> HIDE DEF ready, sp, x, y
  <2>3. p1.ready = ready /\ p1.sp = sp
    BY <2>1 DEF Station
  <2> QED
    BY <2>2, <2>3
<1>16. y = 0
  BY <1>11
<1> DEFINE e == Ready(u, id)
           g == Granting(u, id)
           z == Cardinality(Frames)
<1>17. r[id] = e + x /\ p.sp[id] = g + x
  BY <1>8, <1>9, <1>10, <1>12
<1>18. e \in Nat /\ e <= z /\ g \in Nat /\ g <= z /\ z \in Nat /\ z < U16
  BY <1>13
<1> HIDE DEF e, g, z, x, y
<1>19. r[id] - x = e /\ p.sp[id] - x - (IF id = "legacy" THEN y ELSE 0) = g
  BY <1>14, <1>16, <1>17, <1>18
<1>20. p1.ready[id] = e /\ p1.sp[id] = g
  BY <1>15, <1>18, <1>19, Small
<1> QED
  BY <1>20 DEF e, g

LEMMA WithNewLinked ==
  ASSUME IndInv, NEW f \in Frames
  PROVE  LinkedIn(tx, Tid[f], WithNew(f))
<1> DEFINE p == Tid[f]
           l == tx[p].frames
           a == Append(l, f)
           u == WithFrames(p, tx[p], a)
<1>1. p \in Txqs /\ tx \in [Txqs -> Row]
  BY Constants DEF IndInv, TypeInv
<1>2. l \in Seq(Frames)
  BY <1>1, RowFields
<1>3. a \in Seq(Frames) /\ Len(a) = Len(l) + 1
  <2> HIDE DEF l
  <2> QED
    BY <1>2, AppendProperties
<1> DEFINE v == tx[p]
<1>4. u.frames = a /\ u.limit = v.limit
  <2>1. v \in Row
    BY <1>1
  <2> HIDE DEF a, v, p
  <2>2. WithFrames(p, v, a).frames = a /\ WithFrames(p, v, a).limit = v.limit
    BY <2>1 DEF WithFrames, Row
  <2> QED
    BY <2>2 DEF v
<1> DEFINE t == WithNew(f)
<1>5. t[p] = u /\ \A q \in Txqs : q # p => t[q] = tx[q]
  BY <1>1 DEF WithNew
<1> HIDE DEF t, u, a, l
<1>6. Len(t[p].frames) = Len(tx[p].frames) + 1 /\ t[p].limit = tx[p].limit
  BY <1>3, <1>4, <1>5 DEF l
<1> HIDE DEF v, p
<1>7. LinkedIn(tx, p, t)
  BY <1>1, <1>5, <1>6, LinkedInIs
<1> QED
  BY <1>7 DEF t, p

LEMMA CountsStay ==
  ASSUME NEW p, NEW r, NEW t, Counted(p, r, t), NEW u, SameCounts(t, u),
         NEW s, \A id \in Ids : Back(s, id) = Back(r, id)
  PROVE  Counted(p, s, u)
<1>1. \A id \in Ids : Ready(u, id) = Ready(t, id) /\ Granting(u, id) = Granting(t, id)
  BY SameCounted
<1> QED
  BY <1>1 DEF Counted

LEMMA IdleBack ==
  ASSUME NEW r, r.pc # "link", NEW id
  PROVE  Back(r, id) = 0
BY DEF Back

\* The indications find and leave nothing granted.
LEMMA QuietCounts ==
  ASSUME IndInv, ps.active, NEW u, Quietly(tx, u)
  PROVE  /\ SameCounts(tx, u)
         /\ \A id : Granting(tx, id) = 0 /\ Granting(u, id) = 0
<1>1. \A q \in Txqs : tx[q].active /\ u[q].active
  BY AsleepIs DEF Quietly, SameFrames, InUse
<1>2. \A q \in Txqs : /\ tx[q].limit = 0 /\ u[q].limit = 0
                      /\ u[q].frames = tx[q].frames
  BY <1>1 DEF Quietly, SameFrames, Quiet, NoGrant
<1>3. SameCounts(tx, u)
  BY <1>2 DEF SameCounts
<1>4. \A id : Granting(tx, id) = 0 /\ Granting(u, id) = 0
  BY <1>2, NoneGranting DEF Kind
<1> QED
  BY <1>3, <1>4

LEMMA QuietStay ==
  ASSUME IndInv, Counted(ps, rx, tx), NEW u, Quietly(tx, u)
  PROVE  Counted(ps, rx, u)
<1>1. CASE ps.active
  BY <1>1, QuietCounts, CountsStay
<1>2. CASE ~ps.active
  BY <1>2 DEF Counted
<1> QED
  BY <1>1, <1>2

LEMMA SameReady ==
  ASSUME NEW t, NEW u, SameFrames(t, u), NEW id
  PROVE  Ready(u, id) = Ready(t, id)
<1>1. Lens(u) = Lens(t)
  BY DEF SameFrames, Lens
<1> QED
  BY <1>1, Zenon DEF Ready, Lens

LEMMA PsChangeCounted ==
  ASSUME IndInv, Cardinality(Frames) < U16, NEW on \in BOOLEAN, PsChange(on), ps'.active
  PROVE  Counted(ps', rx', tx')
<1>1. IndInv' /\ Quietly(tx, tx') /\ rx' = rx /\ rx.pc = "idle" /\ valid
  BY PsChangeKeeps DEF PsChange, Indication
<1>2. ps' = [active |-> TRUE, ready |-> [id \in Ids |-> Ready(tx, id) % U16],
             sp |-> [id \in Ids |-> 0]]
  <2>1. CASE on
    BY <2>1 DEF PsChange, PsOn
  <2>2. CASE ~on
    <3>1. ps' = [ps EXCEPT !.active = FALSE] /\ ps \in Station
      BY <2>2 DEF PsChange, IndInv, TypeInv
    <3>2. ps'.active = FALSE
      BY <3>1 DEF Station
    <3> QED
      BY <3>2
  <2> QED
    BY <2>1, <2>2
<1>3. InUse(tx) /\ InUse(tx') /\ tx \in [Txqs -> Row] /\ QueuesSane(tx)
  BY <1>1 DEF IndInv, StationInv, InUse, TypeInv
<1> SUFFICES ASSUME NEW id \in Ids
             PROVE  ps'.ready[id] = Ready(tx', id) + Back(rx', id) /\ ps'.sp[id] = Granting(tx', id)
  BY DEF Counted
<1>4. Granting(tx', id) = 0
  <2>1. \A q \in Kind(id) : tx'[q].limit = 0
    BY <1>1, <1>3 DEF Quietly, Quiet, NoGrant, InUse, Kind
  <2> QED
    BY <2>1, NoneGranting
<1>5. Ready(tx', id) = Ready(tx, id)
  BY <1>1, SameReady DEF Quietly
<1>6. Ready(tx, id) % U16 = Ready(tx, id) /\ Ready(tx, id) \in Nat
  BY <1>3, CountsBounded, TxqAssumption, FS_CardinalityType, Small
<1>7. Back(rx', id) = 0
  BY <1>1, IdleBack
<1> QED
  BY <1>2, <1>4, <1>5, <1>6, <1>7

\* Of the queues t, when rwnx_hwq_process has run.
LEMMA StationProcessed ==
  ASSUME IndInv, Cardinality(Frames) < U16, IndInv', rx.pc = "idle", rx' = rx, ps'.active,
         NEW t \in [Txqs -> Row], QueuesSane(t),
         \A q \in Txqs : t[q].active = tx[q].active /\ t[q].stop = tx[q].stop,
         NEW r \in [Ids -> Int],
         ps.active => \A id \in Ids : r[id] = Ready(t, id) /\ ps.sp[id] = Granting(t, id),
         NEW hs, ProcessedNow(t, r, hs, tx', need', ps', fw')
  PROVE  Counted(ps', rx', tx')
<1>1. PICK n \in [Hwqs -> BOOLEAN] : Processed(ps, fw, t, n, r, hs, tx', need', ps', fw')
  BY DEF ProcessedNow
<1>2. ps \in Station
  BY DEF IndInv, TypeInv
<1>3. ps' = StationServed(ps, t, r, OnLists(t, hs))
  BY <1>1 DEF Processed
<1>4. ps.active
  <2>1. ~ps.active => ps' = ps
    BY <1>3 DEF StationServed
  <2> QED
    BY <2>1
<1>5. InUse(tx') /\ tx' \in [Txqs -> Row] /\ QueuesSane(tx')
  BY DEF IndInv, StationInv, TypeInv, InUse
<1>6. InUse(t) /\ Asleep(t)
  BY <1>4, AsleepIs DEF InUse, Asleep
<1> SUFFICES ASSUME NEW id \in Ids
             PROVE  ps'.ready[id] = Ready(tx', id) + Back(rx', id) /\ ps'.sp[id] = Granting(tx', id)
  BY DEF Counted
<1>7. ps'.ready[id] = Ready(tx', id) /\ ps'.sp[id] = Granting(tx', id)
  <2>1. r[id] = Ready(t, id) /\ ps.sp[id] = Granting(t, id)
    BY <1>4
  <2> QED
    BY <1>1, <1>2, <1>4, <1>5, <1>6, <2>1, ProcessCounts
<1>8. Back(rx', id) = 0 /\ Ready(tx', id) \in Nat
  BY <1>5, IdleBack, CountsBounded
<1> QED
  BY <1>7, <1>8

LEMMA TaskCounted ==
  ASSUME IndInv, Undisturbed, Cardinality(Frames) < U16,
         Counted(ps, rx, tx), Task, ps'.active
  PROVE  Counted(ps', rx', tx')
<1> DEFINE hs == {h \in Hwqs : need[h]}
<1>1. rx.pc = "idle" /\ rx' = rx
  BY DEF Task, Undisturbed, Interrupts
<1>2. IndInv' /\ ProcessedNow(tx, ps.ready, hs, tx', need', ps', fw')
  BY TaskKeeps
<1> HIDE DEF hs
<1>3. tx \in [Txqs -> Row] /\ QueuesSane(tx) /\ ps.ready \in [Ids -> Int]
  BY DEF IndInv, TypeInv, Station
<1>4. ps.active => \A id \in Ids : ps.ready[id] = Ready(tx, id) /\ ps.sp[id] = Granting(tx, id)
  <2> SUFFICES ASSUME ps.active, NEW id \in Ids
               PROVE  ps.ready[id] = Ready(tx, id) /\ ps.sp[id] = Granting(tx, id)
    OBVIOUS
  <2>1. Back(rx, id) = 0
    BY <1>1, IdleBack
  <2>2. Ready(tx, id) \in Nat
    BY <1>3, AsleepIs, CountsBounded
  <2>3. ps.ready[id] = Ready(tx, id) + Back(rx, id) /\ ps.sp[id] = Granting(tx, id)
    BY DEF Counted
  <2> QED
    BY <2>1, <2>2, <2>3
<1> QED
  BY <1>1, <1>2, <1>3, <1>4, StationProcessed

LEMMA NewCounted ==
  ASSUME IndInv, IndInv', Cardinality(Frames) < U16, Counted(ps, rx, tx), ps'.active,
         rx.pc = "idle", rx' = rx, NEW f \in Frames, f \notin fw,
         f \notin ToSet(tx[Tid[f]].frames),
         ProcessedNow(WithNew(f), ReadyWith(f), ListsOf(f), tx', need', ps', fw')
  PROVE  Counted(ps', rx', tx')
<1> DEFINE t == WithNew(f)
           r == ReadyWith(f)
           p == Tid[f]
<1>1. /\ t \in [Txqs -> Row] /\ QueuesSane(t)
      /\ \A q \in Txqs : t[q].active = tx[q].active /\ t[q].stop = tx[q].stop
  BY WithNewIs
<1>2. p \in Txqs /\ PsId[p] \in Ids /\ ps \in Station /\ tx \in [Txqs -> Row] /\ QueuesSane(tx)
  BY Constants DEF IndInv, TypeInv
<1>3. LinkedIn(tx, p, t)
  BY WithNewLinked
<1>4. \A q \in Txqs : f \notin ToSet(tx[q].frames)
  BY <1>2 DEF QueuesSane, Good, Of
<1>5. r = IF ps.active THEN [ps.ready EXCEPT ![PsId[p]] = (@ + 1) % U16] ELSE ps.ready
  BY DEF ReadyWith
<1> HIDE DEF t, r, p
<1>6. r \in [Ids -> Int]
  <2>1. ps.ready \in [Ids -> Int]
    BY <1>2 DEF Station
  <2>2. (ps.ready[PsId[p]] + 1) % U16 \in Int
    BY <1>2, <2>1 DEF U16
  <2> QED
    BY <1>5, <2>1, <2>2
<1>7. ps.active => \A id \in Ids : r[id] = Ready(t, id) /\ ps.sp[id] = Granting(t, id)
  <2> SUFFICES ASSUME ps.active, NEW id \in Ids
               PROVE  r[id] = Ready(t, id) /\ ps.sp[id] = Granting(t, id)
    OBVIOUS
  <2>1. Back(rx, id) = 0
    BY IdleBack
  <2>2. Ready(tx, id) \in Nat /\ Ready(tx, id) + 1 <= Cardinality(Frames)
        /\ Cardinality(Frames) \in Nat
    BY <1>2, <1>4, RoomForOne, TxqAssumption, FS_CardinalityType
  <2>3. ps.ready[id] = Ready(tx, id) + Back(rx, id) /\ ps.sp[id] = Granting(tx, id)
    BY DEF Counted
  <2>4. /\ Ready(t, id) = Ready(tx, id) + (IF PsId[p] = id THEN 1 ELSE 0)
        /\ Granting(t, id) = Granting(tx, id)
    BY <1>1, <1>2, <1>3, LinkedCounts
  <2>5. (Ready(tx, id) + 1) % U16 = Ready(tx, id) + 1
    BY <2>2, Small
  <2>6. ps.ready[id] = Ready(tx, id)
    BY <2>1, <2>2, <2>3
  <2>7. r[id] = IF PsId[p] = id THEN (ps.ready[id] + 1) % U16 ELSE ps.ready[id]
    BY <1>2, <1>5 DEF Station
  <2> QED
    BY <2>2, <2>3, <2>4, <2>5, <2>6, <2>7
<1>8. ProcessedNow(t, r, ListsOf(f), tx', need', ps', fw')
  BY DEF t, r
<1> QED
  BY <1>1, <1>6, <1>7, <1>8, StationProcessed

\* sp_cnt is what was dealt out.
LEMMA DealtCounts ==
  ASSUME NEW t, NEW u \in [Txqs -> Row], NEW id \in Ids, NEW g, DealtOut(t, id, g, u),
         NEW i \in Ids
  PROVE  Granting(u, i) = IF i = id THEN SumFunctionOnSet(g, GrantedAt(g)) ELSE 0
<1>1. /\ \A q \in Txqs : /\ u[q].limit \in Nat
                         /\ u[q].limit > 0 => \E j \in DOMAIN Data : Data[j] = q
      /\ \A j \in DOMAIN Data : /\ u[Data[j]].limit = g[j] /\ g[j] \in Nat
                                /\ g[j] > 0 => PsId[Data[j]] = id
                                /\ Data[j] \in Txqs
      /\ \A j, k \in DOMAIN Data : Data[j] = Data[k] => j = k
  BY RowFields, DataIs DEF DealtOut, Endowed, Bearable
<1>2. CASE i # id
  <2>1. ASSUME NEW q \in Kind(i) PROVE u[q].limit = 0
    <3>1. q \in Txqs /\ PsId[q] # id
      BY <1>2 DEF Kind
    <3>2. ~(u[q].limit > 0)
      BY <1>1, <3>1
    <3>3. u[q].limit \in Nat
      BY <1>1, <3>1
    <3> DEFINE x == u[q].limit
    <3>4. x \in Nat /\ ~(x > 0)
      BY <3>2, <3>3
    <3> HIDE DEF x
    <3>5. x = 0
      BY <3>4
    <3> QED
      BY <3>5 DEF x
  <2> QED
    BY <1>2, <2>1, NoneGranting
<1>3. CASE i = id
  <2> DEFINE S == GrantedAt(g)
             lim == Limits(u)
             K == Kind(id)
             Im == {Data[j] : j \in S}
  <2>1. S \subseteq DOMAIN Data /\ \A j \in DOMAIN Data : j \in S <=> g[j] > 0
    BY DEF GrantedAt
  <2>2. IsFiniteSet(S) /\ IsFiniteSet(K) /\ K \subseteq Txqs
    BY <2>1, TxqsFinite, FS_Subset, KindsFinite DEF Kind
  <2>3. \A q \in Txqs : lim[q] = u[q].limit
    BY DEF Limits
  <2>4. Im \in SUBSET K
    BY <1>1, <2>1 DEF Kind
  <2> HIDE DEF lim, S
  <2>5. \A q \in Im : lim[q] \in Int /\ lim[q] = lim[q]
    BY <1>1, <2>2, <2>3, <2>4
  <2> HIDE DEF K
  <2>6. \A q \in K \ Im : lim[q] = 0
    <3> SUFFICES ASSUME NEW q \in K, q \notin Im PROVE lim[q] = 0
      OBVIOUS
    <3>1. q \in Txqs /\ lim[q] = u[q].limit /\ u[q].limit \in Nat
      BY <1>1, <2>2, <2>3
    <3>2. ~(u[q].limit > 0)
      <4> SUFFICES ASSUME u[q].limit > 0 PROVE FALSE
        OBVIOUS
      <4>1. PICK j \in DOMAIN Data : Data[j] = q
        BY <1>1, <3>1
      <4>2. g[j] > 0
        BY <1>1, <4>1
      <4>3. j \in S
        BY <2>1, <4>2
      <4> QED
        BY <4>1, <4>3
    <3> DEFINE x == u[q].limit
    <3>3. x \in Nat /\ ~(x > 0) /\ lim[q] = x
      BY <3>1, <3>2
    <3> HIDE DEF x
    <3> QED
      BY <3>3
  <2>7. SumFunctionOnSet(lim, K) = SumFunctionOnSet(lim, Im)
    <3> HIDE DEF Im
    <3> QED
      BY <2>2, <2>4, <2>5, <2>6, SumSame
  <2>8. SumFunctionOnSet(lim, Im) = SumFunctionOnSet(g, S)
    <3>1. \A x, y \in S : Data[x] = Data[y] => x = y
      BY <1>1, <2>1
    <3>2. \A x \in S : g[x] \in Int /\ lim[Data[x]] = g[x]
      BY <1>1, <2>1, <2>3
    <3> QED
      BY <2>2, <3>1, <3>2, SumOverImage
  <2>9. Granting(u, id) = SumFunctionOnSet(lim, K)
    BY DEF Granting, lim, K
  <2> QED
    BY <1>3, <2>7, <2>8, <2>9 DEF S
<1> QED
  BY <1>2, <1>3

LEMMA TrafficReqCounted ==
  ASSUME IndInv, Counted(ps, rx, tx), NEW n \in 0..1, NEW id \in Ids, TrafficReq(n, id)
  PROVE  Counted(ps', rx', tx')
<1> DEFINE g == GrantNow(n, id)
<1>1. IndInv' /\ SameFrames(tx, tx') /\ DealtOut(tx, id, g, tx')
  BY TrafficReqKeeps
<1>2. /\ ps.active /\ ps \in Station /\ rx' = rx
      /\ ps' = [ps EXCEPT !.sp[id] = SumFunctionOnSet(g, GrantedAt(g))]
  BY Zenon DEF TrafficReq, Indication, IndInv, TypeInv, GrantNow, Requested,
     Grant, Can, GrantedAt
<1> HIDE DEF g
<1>3. tx' \in [Txqs -> Row]
  BY <1>1 DEF IndInv, TypeInv
<1> DEFINE x == SumFunctionOnSet(g, GrantedAt(g))
<1> SUFFICES ASSUME NEW i \in Ids
             PROVE  ps'.ready[i] = Ready(tx', i) + Back(rx', i) /\ ps'.sp[i] = Granting(tx', i)
  BY DEF Counted
<1>4. ps.ready[i] = Ready(tx, i) + Back(rx, i) /\ ps.sp[i] = Granting(tx, i)
  BY <1>2 DEF Counted
<1>5. Ready(tx', i) = Ready(tx, i)
  BY <1>1, SameReady
<1>6. Granting(tx, i) = 0
  <2>1. \A q \in Kind(i) : tx[q].limit = 0
    BY <1>1, <1>2, AsleepIs DEF DealtOut, Quiet, NoGrant, InUse, Kind
  <2> QED
    BY <2>1, NoneGranting
<1>7. Granting(tx', i) = IF i = id THEN x ELSE 0
  BY <1>1, <1>3, DealtCounts
<1> HIDE DEF x
<1>8. ps'.ready[i] = ps.ready[i] /\ ps'.sp[i] = IF i = id THEN x ELSE ps.sp[i]
  BY <1>2 DEF Station, x
<1> QED
  BY <1>2, <1>4, <1>5, <1>6, <1>7, <1>8

LEMMA SpInterruptedCounted ==
  ASSUME IndInv, Counted(ps, rx, tx), SpInterrupted
  PROVE  Counted(ps', rx', tx')
<1>1. /\ ps.active /\ ps \in Station /\ rx' = rx /\ ps' = [ps EXCEPT !.sp["uapsd"] = 0]
      /\ Quietly(tx, tx')
  BY SpInterruptedKeeps DEF SpInterrupted, IndInv, TypeInv
<1> SUFFICES ASSUME NEW i \in Ids
             PROVE  ps'.ready[i] = Ready(tx', i) + Back(rx', i) /\ ps'.sp[i] = Granting(tx', i)
  BY DEF Counted
<1>2. ps.ready[i] = Ready(tx, i) + Back(rx, i) /\ ps.sp[i] = Granting(tx, i)
  BY <1>1 DEF Counted
<1>3. Ready(tx', i) = Ready(tx, i)
  BY <1>1, SameReady DEF Quietly
<1>4. Granting(tx, i) = 0 /\ Granting(tx', i) = 0
  BY <1>1, QuietCounts
<1>5. ps'.ready[i] = ps.ready[i] /\ (ps'.sp[i] = 0 \/ ps'.sp[i] = ps.sp[i])
  BY <1>1 DEF Station
<1> QED
  BY <1>1, <1>2, <1>3, <1>4, <1>5

\* A frame that comes back is counted, and then linked.
LEMMA CfmRetryCounted ==
  ASSUME IndInv, Undisturbed, Cardinality(Frames) < U16, Counted(ps, rx, tx),
         NEW f \in Frames, CfmRetry(f), ps'.active
  PROVE  Counted(ps', rx', tx')
<1> DEFINE p == Tid[f]
<1>1. SameCounts(tx, tx')
  BY CfmRetryKeeps
<1>2. /\ rx.pc = "idle" /\ f \in fw /\ rx'.pc = "link" /\ rx'.f = f
      /\ ps' = (IF ps.active THEN [ps EXCEPT !.ready[PsId[p]] = (@ + 1) % U16] ELSE ps)
  BY DEF CfmRetry
<1>3. p \in Txqs /\ PsId[p] \in Ids /\ ps \in Station /\ tx \in [Txqs -> Row] /\ QueuesSane(tx)
  BY Constants DEF IndInv, TypeInv
<1>4. \A q \in Txqs : f \notin ToSet(tx[q].frames)
  BY <1>2 DEF IndInv, PlaceInv, Parted
<1>5. ps.active
  <2>1. ~ps.active => ps' = ps
    BY <1>2
  <2> QED
    BY <2>1
<1>6. \A i \in Ids : Back(rx', i) = IF PsId[p] = i THEN 1 ELSE 0
  BY <1>2 DEF Back
<1> HIDE DEF p
<1> SUFFICES ASSUME NEW i \in Ids
             PROVE  ps'.ready[i] = Ready(tx', i) + Back(rx', i) /\ ps'.sp[i] = Granting(tx', i)
  BY DEF Counted
<1>7. ps.ready[i] = Ready(tx, i) + Back(rx, i) /\ ps.sp[i] = Granting(tx, i)
  BY <1>5 DEF Counted
<1>8. Back(rx, i) = 0
  BY <1>2, IdleBack
<1>9. Ready(tx, i) \in Nat /\ Ready(tx, i) + 1 <= Cardinality(Frames)
      /\ Cardinality(Frames) \in Nat
  BY <1>3, <1>4, RoomForOne, TxqAssumption, FS_CardinalityType
<1>10. (Ready(tx, i) + 1) % U16 = Ready(tx, i) + 1
  BY <1>9, Small
<1>11. Ready(tx', i) = Ready(tx, i) /\ Granting(tx', i) = Granting(tx, i)
  BY <1>1, SameCounted
<1>12. ps.ready[i] = Ready(tx, i)
  BY <1>7, <1>8, <1>9
<1>13. /\ ps'.ready[i] = IF PsId[p] = i THEN (ps.ready[i] + 1) % U16 ELSE ps.ready[i]
       /\ ps'.sp[i] = ps.sp[i]
  <2> DEFINE ready == [ps.ready EXCEPT ![PsId[p]] = (@ + 1) % U16]
  <2>1. ps.ready \in [Ids -> Int]
    BY <1>3 DEF Station
  <2>2. ready[i] = IF PsId[p] = i THEN (ps.ready[i] + 1) % U16 ELSE ps.ready[i]
    BY <1>3, <2>1
  <2>3. ps' = [ps EXCEPT !.ready = ready]
    BY <1>2, <1>3, <1>5 DEF Station
  <2> HIDE DEF ready
  <2>4. ps'.ready = ready /\ ps'.sp = ps.sp
    BY <1>3, <2>3 DEF Station
  <2> QED
    BY <2>2, <2>4
<1> QED
  BY <1>6, <1>7, <1>9, <1>10, <1>11, <1>12, <1>13

LEMMA RetryLinkCounted ==
  ASSUME IndInv, Counted(ps, rx, tx), RetryLink
  PROVE  Counted(ps', rx', tx')
<1> DEFINE p == Tid[rx.f]
<1>1. IndInv' /\ LinkedIn(tx, p, tx')
  BY RetryLinkKeeps
<1>2. halted' = FALSE /\ p \in Txqs /\ tx \in [Txqs -> Row] /\ tx' \in [Txqs -> Row]
      /\ QueuesSane(tx)
  BY <1>1, Constants DEF IndInv, TypeInv, RetryInv, RetryLink
<1>3. rx.pc = "link" /\ rx' = [rx EXCEPT !.pc = "count"] /\ ps' = ps
  BY <1>2 DEF RetryLink
<1>4. rx'.pc = "count"
  BY <1>3 DEF IndInv, TypeInv
<1>5. \A i : Back(rx', i) = 0 /\ Back(rx, i) = IF PsId[p] = i THEN 1 ELSE 0
  BY <1>3, <1>4, IdleBack DEF Back
<1> HIDE DEF p
<1> SUFFICES ASSUME ps.active, NEW i \in Ids
             PROVE  ps'.ready[i] = Ready(tx', i) + Back(rx', i) /\ ps'.sp[i] = Granting(tx', i)
  BY <1>3 DEF Counted
<1>6. ps.ready[i] = Ready(tx, i) + Back(rx, i) /\ ps.sp[i] = Granting(tx, i)
  BY DEF Counted
<1>7. /\ Ready(tx', i) = Ready(tx, i) + (IF PsId[p] = i THEN 1 ELSE 0)
      /\ Granting(tx', i) = Granting(tx, i)
  BY <1>1, <1>2, LinkedCounts
<1>8. Ready(tx, i) \in Nat
  BY <1>2, AsleepIs, CountsBounded
<1> QED
  BY <1>3, <1>5, <1>6, <1>7, <1>8

LEMMA AddStationCounted ==
  ASSUME IndInv, Undisturbed, NEW asleep \in BOOLEAN, AddStation(asleep), ps'.active
  PROVE  Counted(ps', rx', tx')
<1> DEFINE zero == [id \in Ids |-> 0]
<1>1. /\ rx.pc = "idle" /\ rx' = rx /\ ps \in Station
      /\ ps' = [ps EXCEPT !.active = asleep,
                          !.ready = IF asleep THEN zero ELSE @,
                          !.sp = IF asleep THEN zero ELSE @]
      /\ \E status : tx' = [q \in Txqs |-> Fresh(status)]
  BY DEF AddStation, Undisturbed, Interrupts, IndInv, TypeInv
<1> HIDE DEF zero
<1>2. asleep
  BY <1>1 DEF Station
<1>3. ps'.ready = zero /\ ps'.sp = zero
  BY <1>1, <1>2 DEF Station
<1>4. \A q \in Txqs : tx'[q].frames = <<>> /\ tx'[q].limit = 0
  BY <1>1 DEF Fresh
<1> SUFFICES ASSUME NEW i \in Ids
             PROVE  ps'.ready[i] = Ready(tx', i) + Back(rx', i) /\ ps'.sp[i] = Granting(tx', i)
  BY DEF Counted
<1>5. Ready(tx', i) = 0
  <2>1. IsFiniteSet(Kind(i)) /\ Kind(i) \subseteq Txqs
    BY KindsFinite DEF Kind
  <2>2. \A q \in Kind(i) : Lens(tx')[q] = 0
    BY <1>4, <2>1, EmptySeq DEF Lens
  <2>3. SumFunctionOnSet(Lens(tx'), Kind(i)) = 0
    BY <2>1, <2>2, SumOfZeros
  <2> QED
    BY <2>3 DEF Ready, Lens
<1>6. Granting(tx', i) = 0
  BY <1>4, NoneGranting DEF Kind
<1>7. Back(rx', i) = 0
  BY <1>1, IdleBack
<1> QED
  BY <1>3, <1>5, <1>6, <1>7 DEF zero

\* What changes neither the station nor rwnx_txdatacfm nor the counts.
LEMMA SameStays ==
  ASSUME Counted(ps, rx, tx), ps' = ps, rx' = rx, tx' = tx
  PROVE  Counted(ps', rx', tx')
OBVIOUS

LEMMA QuietlyStays ==
  ASSUME IndInv, Counted(ps, rx, tx), ps' = ps, rx' = rx, Quietly(tx, tx')
  PROVE  Counted(ps', rx', tx')
<1>1. Counted(ps, rx, tx')
  BY QuietStay
<1> QED
  BY <1>1

\* The two last steps of rwnx_tx_retry.
LEMMA RetryEndCounted ==
  ASSUME IndInv, Counted(ps, rx, tx), RetryCount \/ RetryList
  PROVE  Counted(ps', rx', tx')
<1>1. SameCounts(tx, tx')
  BY RetryCountKeeps, RetryListKeeps
<1>2. ps' = ps /\ rx.pc # "link" /\ rx'.pc # "link"
  BY DEF RetryCount, RetryList, Idle, IndInv, TypeInv
<1>3. \A id \in Ids : Back(rx', id) = Back(rx, id)
  BY <1>2, IdleBack
<1>4. Counted(ps, rx', tx')
  BY <1>1, <1>3, CountsStay
<1> QED
  BY <1>2, <1>4

CountInv == Counted(ps, rx, tx)

LEMMA StepCounts ==
  ASSUME IndInv, CountInv, Undisturbed,
         Cardinality(Frames) < U16, [Next]_vars
  PROVE  CountInv'
<1>0. Counted(ps, rx, tx) /\ IndInv'
  BY StepKeeps DEF CountInv
<1> SUFFICES ASSUME ps'.active
             PROVE  Counted(ps', rx', tx')
  BY DEF CountInv, Counted
<1>1. ASSUME NEW f \in Free, IntfTx(f) PROVE Counted(ps', rx', tx')
  <2>1. f \in Frames /\ f \notin fw /\ f \notin ToSet(tx[Tid[f]].frames)
        /\ rx.pc = "idle" /\ rx' = rx
    BY <1>1, FreeIs, Constants DEF IntfTx, Undisturbed, Interrupts
  <2>2. ProcessedNow(WithNew(f), ReadyWith(f), ListsOf(f), tx', need', ps', fw')
    BY <1>1, IntfTxKeeps
  <2> QED
    BY <1>0, <2>1, <2>2, NewCounted
<1>2. ASSUME NEW f \in Free, MgmtCheck(f) PROVE Counted(ps', rx', tx')
  BY <1>0, <1>2, SameStays DEF MgmtCheck
<1>3. CASE MgmtXmit
  <2>1. mgmt \in Frames /\ mgmt \notin fw /\ mgmt \notin ToSet(tx[Tid[mgmt]].frames)
        /\ rx.pc = "idle" /\ rx' = rx
    BY <1>3 DEF MgmtXmit, Undisturbed, Interrupts, IndInv, TypeInv, PlaceInv, Of
  <2>2. ProcessedNow(WithNew(mgmt), ReadyWith(mgmt), ListsOf(mgmt), tx', need', ps', fw')
    BY <1>3, MgmtXmitKeeps
  <2> QED
    BY <1>0, <2>1, <2>2, NewCounted
<1>4. CASE Task
  BY <1>0, <1>4, TaskCounted
<1>5. CASE ChanPreSwitch \/ ChanSwitch \/ P2pVifPsOn \/ P2pVifPsOff
  <2>1. ps' = ps /\ rx' = rx
    BY <1>5 DEF ChanPreSwitch, ChanSwitch, P2pVifPsOn, P2pVifPsOff
  <2> QED
    BY <1>0, <1>5, <2>1, ChanKeeps, QuietlyStays
<1>6. ASSUME NEW b \in BOOLEAN, CsaTraffic(b) \/ CsaFinish(b) PROVE Counted(ps', rx', tx')
  <2>1. ps' = ps /\ rx' = rx
    BY <1>6 DEF CsaTraffic, CsaFinish
  <2> QED
    BY <1>0, <1>6, <2>1, CsaKeeps, QuietlyStays
<1>7. ASSUME NEW b \in BOOLEAN, PsChange(b) PROVE Counted(ps', rx', tx')
  BY <1>7, PsChangeCounted
<1>8. ASSUME NEW n \in 0..1, NEW id \in Ids, TrafficReq(n, id) PROVE Counted(ps', rx', tx')
  BY <1>0, <1>8, TrafficReqCounted
<1>9. CASE SpInterrupted
  BY <1>0, <1>9, SpInterruptedCounted
<1>10. CASE CsaFinishInd
  BY <1>0, <1>10, SameStays DEF CsaFinishInd
<1>11. ASSUME NEW q \in Txqs, CreditsUpdate(q) PROVE Counted(ps', rx', tx')
  <2>1. ps' = ps /\ rx' = rx
    BY <1>11 DEF CreditsUpdate
  <2> QED
    BY <1>0, <1>11, <2>1, CreditsUpdateKeeps, QuietlyStays
<1>12. ASSUME NEW f \in Frames, CfmDone(f) PROVE Counted(ps', rx', tx')
  <2>1. ps' = ps /\ rx' = rx
    BY <1>12 DEF CfmDone
  <2> QED
    BY <1>0, <1>12, <2>1, CfmDoneKeeps, SameStays
<1>13. ASSUME NEW f \in Frames, CfmRetry(f) PROVE Counted(ps', rx', tx')
  BY <1>0, <1>13, CfmRetryCounted
<1>14. CASE RetryLink
  BY <1>0, <1>14, RetryLinkCounted
<1>15. CASE RetryCount
  BY <1>0, <1>15, RetryEndCounted
<1>15b. CASE RetryList
  BY <1>0, <1>15b, RetryEndCounted
<1>16. CASE DelStation
  <2>1. ~ps'.active
    BY <1>16 DEF DelStation, IndInv, TypeInv, Station
  <2> QED
    BY <2>1
<1>17. ASSUME NEW q \in Txqs, Deinit(q) PROVE Counted(ps', rx', tx')
  <2>1. ps' = ps /\ ~valid
    BY <1>17 DEF Deinit
  <2>2. FALSE
    BY <2>1, AsleepIs
  <2> QED
    BY <2>2
<1>18. CASE Flush
  <2>1. ps' = ps
    BY <1>18 DEF Flush
  <2>2. FALSE
    BY <1>18, <2>1, AsleepIs DEF Flush, IndInv, TypeInv, StationInv, InUse
  <2> QED
    BY <2>2
<1>19. ASSUME NEW b \in BOOLEAN, AddStation(b) PROVE Counted(ps', rx', tx')
  BY <1>19, AddStationCounted
<1>20. CASE UNCHANGED vars
  BY <1>0, <1>20, SameStays DEF vars
<1> QED
  BY <1>1, <1>2, <1>3, <1>4, <1>5, <1>6, <1>7, <1>8, <1>9, <1>10, <1>11, <1>12,
     <1>13, <1>14, <1>15, <1>15b, <1>16, <1>17, <1>18, <1>19, <1>20, Zenon DEF Next

LEMMA NextCounts ==
  ASSUME IndInv, CountInv, Cardinality(Frames) < U16, [Next]_vars, [Undisturbed]_vars
  PROVE  CountInv'
<1>1. CASE Undisturbed
  BY <1>1, StepCounts
<1>2. CASE UNCHANGED vars
  BY <1>2, SameStays DEF vars, CountInv
<1> QED
  BY <1>1, <1>2

LEMMA SpecCounts ==
  ASSUME Cardinality(Frames) < U16
  PROVE  Spec /\ [][Undisturbed]_vars => [](IndInv /\ CountInv)
<1>1. Init => IndInv /\ CountInv
  <2>1. Init => ~ps.active
    BY DEF Init
  <2>2. ~ps.active => CountInv
    BY DEF CountInv, Counted
  <2> QED
    BY <2>1, <2>2, InitIndInv
<1>2. IndInv /\ CountInv /\ [Next]_vars /\ [Undisturbed]_vars => IndInv' /\ CountInv'
  BY NextKeeps, NextCounts
<1> QED
  BY <1>1, <1>2, PTL DEF Spec

\* What a sleeping station is told is ready, pkt_ready of each kind, is the
\* number of frames that wait for it (and the one rwnx_tx_retry has counted
\* and not linked yet), although five functions keep the counters apart from
\* the queues and they are 16 bits wide: the driver has fewer buffers.
THEOREM PktReadyIsExact ==
  ASSUME Cardinality(Frames) < U16
  PROVE  Spec /\ [][Undisturbed]_vars => []ReadyCounted
<1>1. CountInv => ReadyCounted
  BY Zenon DEF CountInv, Counted, ReadyCounted, Back
<1> QED
  BY <1>1, SpecCounts, PTL

\* sp_cnt, which ends a service period with EOSP and bars the next one, is
\* what the queues of its kind may still push, and no queue may push more than
\* it holds.
THEOREM PeriodIsItsGrant ==
  ASSUME Cardinality(Frames) < U16
  PROVE  Spec /\ [][Undisturbed]_vars => []GrantKept
<1>1. IndInv /\ CountInv => GrantKept
  <2> SUFFICES ASSUME IndInv, CountInv, ps.active
               PROVE  /\ \A id \in Ids : ps.sp[id] = SumFunctionOnSet([q \in Txqs |-> tx[q].limit], Kind(id))
                      /\ \A q \in Txqs : tx[q].active => tx[q].limit <= Len(tx[q].frames)
    BY Zenon DEF GrantKept
  <2>1. \A id \in Ids : ps.sp[id] = SumFunctionOnSet([q \in Txqs |-> tx[q].limit], Kind(id))
    BY Zenon DEF CountInv, Counted, Granting, Limits
  <2>2. \A q \in Txqs : tx[q].active => tx[q].limit <= Len(tx[q].frames)
    BY AsleepIs DEF Sane, Granted
  <2> QED
    BY <2>1, <2>2
<1> QED
  BY <1>1, SpecCounts, PTL

-----------------------------------------------------------------------------
(* The queues as lines.                                                    *)

\* What of a queue is seen in its line.
SameLine(t, u) == u.frames = t.frames /\ u.active = t.active /\ u.nbRetry = t.nbRetry
SameLines(u) == \A q \in Txqs : SameLine(tx[q], u[q])

\* Nothing is seen of what only stops, starts, grants or schedules.
LEMMA LinesUnmoved ==
  ASSUME SameLines(tx'), fw' = fw,
         rx' = rx \/ (rx.pc = "list" /\ rx'.pc = "idle")
  PROVE  UNCHANGED InLine!vars
<1>1. \A q \in Txqs : /\ tx'[q].frames = tx[q].frames /\ tx'[q].active = tx[q].active
                      /\ tx'[q].nbRetry = tx[q].nbRetry
  BY DEF SameLines, SameLine
<1>2. Lists' = Lists
  BY <1>1 DEF Lists
<1>3. {q \in Txqs : tx'[q].active} = {q \in Txqs : tx[q].active}
  BY <1>1
<1>4. /\ (IF rx.pc = "link" THEN rx.f ELSE None)' = (IF rx.pc = "link" THEN rx.f ELSE None)
      /\ \A q \in Txqs : rx'.pc = "count" /\ Tid[rx'.f] = q <=> rx.pc = "count" /\ Tid[rx.f] = q
  OBVIOUS
<1>5. Again' = Again
  BY <1>1, <1>4 DEF Again
<1> QED
  BY <1>2, <1>3, <1>4, <1>5 DEF InLine!vars

LEMMA StartedSame ==
  ASSUME NEW t \in Row, NEW r \in Stops
  PROVE  SameLine(t, Started(t, r)) /\ SameLine(t, Stopped(t, r))
<1> DEFINE u == Started(t, r)
           v == Stopped(t, r)
<1>1. u.frames = t.frames /\ u.active = t.active /\ u.nbRetry = t.nbRetry
  BY StartedIs
<1>2. v.frames = t.frames /\ v.active = t.active /\ v.nbRetry = t.nbRetry
  BY StoppedIs
<1> HIDE DEF u, v
<1>3. SameLine(t, u) /\ SameLine(t, v)
  BY <1>1, <1>2 DEF SameLine
<1> QED
  BY <1>3 DEF u, v

LEMMA WithFramesLine ==
  ASSUME NEW q, NEW t \in Row, NEW l \in Seq(Frames), NEW u, u = WithFrames(q, t, l)
  PROVE  u.frames = l /\ u.active = t.active /\ u.nbRetry = t.nbRetry
<1>1. FlowStopped(q, l) \in BOOLEAN
  BY DEF FlowStopped
<1> QED
  BY <1>1 DEF WithFrames, Row

LEMMA VifSame ==
  ASSUME IndInv, NEW r \in VifStops, VifStart(r) \/ VifStop(r)
  PROVE  SameLines(tx')
<1>1. /\ r \in Stops /\ \A q \in Txqs : tx[q] \in Row
  BY Constants DEF IndInv, TypeInv
<1>2. \/ tx' = IF valid THEN [q \in Txqs |-> Started(tx[q], r)] ELSE tx
      \/ tx' = IF valid THEN [q \in Txqs |-> Stopped(tx[q], r)] ELSE tx
  BY VifStartKeeps, VifStopKeeps
<1>3. CASE tx' = tx
  BY <1>3 DEF SameLines, SameLine
<1>4. CASE tx' = [q \in Txqs |-> Started(tx[q], r)]
  BY <1>1, <1>4, StartedSame DEF SameLines
<1>5. CASE tx' = [q \in Txqs |-> Stopped(tx[q], r)]
  BY <1>1, <1>5, StartedSame DEF SameLines
<1> QED
  BY <1>2, <1>3, <1>4, <1>5

\* The stops of the interface
LEMMA StopsUnmoved ==
  ASSUME IndInv, NEW b \in BOOLEAN,
         \/ ChanPreSwitch \/ ChanSwitch \/ P2pVifPsOn \/ P2pVifPsOff
         \/ CsaTraffic(b) \/ CsaFinish(b)
  PROVE  UNCHANGED InLine!vars
<1>1. /\ \E r \in VifStops : VifStart(r) \/ VifStop(r)
      /\ UNCHANGED <<fw, rx>>
  BY DEF ChanPreSwitch, ChanSwitch, P2pVifPsOn, P2pVifPsOff, CsaTraffic, CsaFinish,
         VifStops
<1> QED
  BY <1>1, VifSame, LinesUnmoved

\* The sleep of the station
LEMMA SleepUnmoved ==
  ASSUME IndInv, NEW on \in BOOLEAN, PsChange(on)
  PROVE  UNCHANGED InLine!vars
<1>1. /\ "sta_ps" \in Stops /\ \A q \in Txqs : tx[q] \in Row
  BY DEF IndInv, TypeInv, Stops
<1>2. /\ \/ tx' = [q \in Txqs |-> Stopped(tx[q], "sta_ps")]
         \/ tx' = [q \in Txqs |-> Started([tx[q] EXCEPT !.limit = 0], "sta_ps")]
      /\ UNCHANGED <<fw, rx>>
  BY DEF PsChange, PsOn, Restart
<1>3. CASE tx' = [q \in Txqs |-> Stopped(tx[q], "sta_ps")]
  <2>1. SameLines(tx')
    BY <1>1, <1>3, StartedSame DEF SameLines
  <2> QED
    BY <1>2, <2>1, LinesUnmoved
<1>4. CASE tx' = [q \in Txqs |-> Started([tx[q] EXCEPT !.limit = 0], "sta_ps")]
  <2>1. ASSUME NEW t \in Row
        PROVE  SameLine(t, Started([t EXCEPT !.limit = 0], "sta_ps"))
    <3> DEFINE u == [t EXCEPT !.limit = 0]
    <3>1. u \in Row /\ SameLine(t, u)
      BY DEF Row, SameLine
    <3> HIDE DEF u
    <3>2. SameLine(u, Started(u, "sta_ps"))
      BY <1>1, <3>1, StartedSame
    <3> QED
      BY <3>1, <3>2 DEF SameLine, u
  <2>2. SameLines(tx')
    BY <1>1, <1>4, <2>1 DEF SameLines
  <2> QED
    BY <1>2, <2>2, LinesUnmoved
<1> QED
  BY <1>2, <1>3, <1>4

\* The service periods
LEMMA PeriodsUnmoved ==
  ASSUME IndInv,
         SpInterrupted \/ \E n \in 0..1, id \in Ids : TrafficReq(n, id)
  PROVE  UNCHANGED InLine!vars
<1>1. \A q \in Txqs : tx[q] \in Row
  BY DEF IndInv, TypeInv
<1>2. CASE SpInterrupted
  <2>1. tx' = [q \in Txqs |-> [tx[q] EXCEPT !.limit = 0]] /\ UNCHANGED <<fw, rx>>
    BY <1>2 DEF SpInterrupted
  <2>2. SameLines(tx')
    BY <1>1, <2>1 DEF SameLines, SameLine, Row
  <2> QED
    BY <2>1, <2>2, LinesUnmoved
<1>3. ASSUME NEW n \in 0..1, NEW id \in Ids, TrafficReq(n, id)
      PROVE  UNCHANGED InLine!vars
  <2>1. tx' = Dealt(tx, GrantNow(n, id)) /\ UNCHANGED <<fw, rx>>
    BY <1>3, Zenon
    DEF TrafficReq, Restart, GrantNow, Requested, Grant, Can, GrantedAt, Dealt
  <2>2. SameLines(tx')
    BY <1>1, <2>1 DEF Dealt, SameLines, SameLine, Row
  <2> QED
    BY <2>1, <2>2, LinesUnmoved
<1> QED
  BY <1>2, <1>3

LEMMA CreditsUnmoved ==
  ASSUME IndInv, NEW p \in Txqs, CreditsUpdate(p)
  PROVE  UNCHANGED InLine!vars
<1>1. "full" \in Stops /\ tx \in [Txqs -> Row]
  BY DEF IndInv, TypeInv, Stops
<1>2. /\ tx' = [tx EXCEPT ![p] = IF @.credits <= 0 THEN Stopped(@, "full")
                                 ELSE Started(@, "full")]
      /\ UNCHANGED <<fw, rx>>
  BY DEF CreditsUpdate, Restart
<1>3. SameLine(tx[p], Started(tx[p], "full")) /\ SameLine(tx[p], Stopped(tx[p], "full"))
  BY <1>1, StartedSame
<1>4. ASSUME NEW q \in Txqs PROVE SameLine(tx[q], tx'[q])
  <2>1. CASE q = p
    <3>1. tx'[p] = Stopped(tx[p], "full") \/ tx'[p] = Started(tx[p], "full")
      BY <1>1, <1>2
    <3> QED
      BY <1>3, <2>1, <3>1
  <2>2. CASE q # p
    <3>1. tx'[q] = tx[q]
      BY <1>1, <1>2, <2>2
    <3> QED
      BY <3>1 DEF SameLine
  <2> QED
    BY <2>1, <2>2
<1> QED
  BY <1>2, <1>4, LinesUnmoved DEF SameLines

\* rwnx_tx_retry at its end: the queue is put on its list.
LEMMA RelistUnmoved ==
  ASSUME IndInv, RetryList
  PROVE  UNCHANGED InLine!vars
<1> DEFINE p == Tid[rx.f]
           u == WithFrames(p, tx[p], tx[p].frames)
<1>1. /\ rx.pc = "list" /\ rx' = Idle /\ fw' = fw
      /\ tx' = [tx EXCEPT ![p] = u]
  BY DEF RetryList, Restart
<1>2. p \in Txqs /\ tx \in [Txqs -> Row] /\ tx[p] \in Row
  BY <1>1, Constants DEF IndInv, TypeInv, RetryInv
<1> HIDE DEF p
<1>3. SameLine(tx[p], u)
  <2> DEFINE t == tx[p]
  <2>1. t \in Row /\ t.frames \in Seq(Frames)
    BY <1>2, RowFields
  <2> HIDE DEF t
  <2>2. u = WithFrames(p, t, t.frames)
    BY DEF t
  <2> HIDE DEF u
  <2>3. u.frames = t.frames /\ u.active = t.active /\ u.nbRetry = t.nbRetry
    BY <2>1, <2>2, WithFramesLine
  <2> QED
    BY <2>3 DEF SameLine, t
<1> HIDE DEF u
<1>4. ASSUME NEW q \in Txqs PROVE SameLine(tx[q], tx'[q])
  <2>1. CASE q = p
    BY <1>1, <1>2, <1>3, <2>1
  <2>2. CASE q # p
    BY <1>1, <1>2, <2>2 DEF SameLine
  <2> QED
    BY <2>1, <2>2
<1>5. rx'.pc = "idle"
  BY <1>1 DEF Idle
<1> QED
  BY <1>1, <1>4, <1>5, LinesUnmoved DEF SameLines

\* What leaves the queues as they are.
LEMMA OthersUnmoved ==
  ASSUME UNCHANGED <<tx, fw, rx>>
  PROVE  UNCHANGED InLine!vars
BY LinesUnmoved DEF SameLines, SameLine

-----------------------------------------------------------------------------
(* Confirmations and retries.                                              *)

LEMMA DoneConfirms ==
  ASSUME IndInv, NEW f \in Frames, CfmDone(f)
  PROVE  InLine!Confirm(f)
<1>1. tx' = tx /\ rx' = rx /\ f \in fw /\ fw' = fw \ {f}
  BY CfmDoneKeeps DEF CfmDone
<1>2. Lists' = Lists /\ Again' = Again
  BY <1>1 DEF Lists, Again
<1> QED
  BY <1>1, <1>2 DEF InLine!Confirm

\* rwnx_tx_retry takes the frame back ...
LEMMA RetryRefuses ==
  ASSUME IndInv, NEW f \in Frames, CfmRetry(f)
  PROVE  InLine!Refuse(f)
<1> DEFINE p == Tid[f]
           v == [tx[p] EXCEPT !.credits = Incremented(tx[p].credits)]
           u == Started(v, "full")
<1>1. /\ rx.pc = "idle" /\ f \in fw /\ tx[p].active /\ fw' = fw \ {f}
      /\ tx' = [tx EXCEPT ![p] = u] \/ tx' = [tx EXCEPT ![p] = v]
      /\ rx' = [pc |-> "link", f |-> f, last |-> tx[p].last]
  BY DEF CfmRetry
<1>2. /\ p \in Txqs /\ tx \in [Txqs -> Row] /\ tx[p] \in Row /\ "full" \in Stops
      /\ tx[p].credits < CreditBound
  BY Constants DEF IndInv, TypeInv, Stops, CfmRetry
<1> HIDE DEF p
<1>3. SameLine(tx[p], v) /\ SameLine(tx[p], u)
  <2>1. SameLine(tx[p], v)
    BY <1>2 DEF SameLine, Row
  <2>2. SameLine(v, u)
    BY DEF Started, SameLine
  <2> QED
    BY <2>1, <2>2 DEF SameLine
<1> HIDE DEF u, v
<1>4. ASSUME NEW q \in Txqs
      PROVE  /\ tx'[q].frames = tx[q].frames /\ tx'[q].active = tx[q].active
             /\ tx'[q].nbRetry = tx[q].nbRetry
  <2>1. CASE q = p
    BY <1>1, <1>2, <1>3, <2>1 DEF SameLine
  <2>2. CASE q # p
    BY <1>1, <1>2, <2>2
  <2> QED
    BY <2>1, <2>2
<1>5. Lists' = Lists /\ {q \in Txqs : tx'[q].active} = {q \in Txqs : tx[q].active}
  BY <1>4 DEF Lists
<1>6. Again' = Again
  BY <1>1, <1>4 DEF Again
<1>7. (IF rx.pc = "link" THEN rx.f ELSE None) = None
      /\ (IF rx'.pc = "link" THEN rx'.f ELSE None) = f
  BY <1>1
<1>8. Tid[f] \in {q \in Txqs : tx[q].active}
  BY <1>1, <1>2 DEF p
<1> QED
  BY <1>1, <1>5, <1>6, <1>7, <1>8 DEF InLine!Refuse

\* ... links it behind the retries of its queue ...
LEMMA LinkReturns ==
  ASSUME IndInv, RetryLink
  PROVE  InLine!Return
<1> DEFINE p == Tid[rx.f]
           k == tx[p].nbRetry
           l == tx[p].frames
<1>1. /\ rx.pc = "link" /\ rx.f \in Frames /\ rx.f # None /\ p \in Txqs
      /\ tx[p].active = TRUE /\ tx \in [Txqs -> Row]
  BY Constants DEF RetryLink, IndInv, TypeInv, RetryInv
<1>2. Relinked(tx, p, rx.f, tx') /\ IndInv'
  BY RetryLinkKeeps
<1>3. UNCHANGED fw /\ rx'.pc = "count" /\ rx'.f = rx.f
  BY <1>2 DEF RetryLink, IndInv, TypeInv
<1>4. /\ tx'[p].frames = InsertAt(l, k + 1, rx.f)
      /\ tx'[p].nbRetry = k /\ tx'[p].active = TRUE
      /\ \A q \in Txqs : q # p => tx'[q] = tx[q]
  BY <1>1, <1>2 DEF Relinked
<1>5. l \in Seq(Frames) /\ k \in Nat
  BY <1>1, RowFields
<1>6. InsertAt(l, k + 1, rx.f) = SubSeq(l, 1, k) \o <<rx.f>> \o SubSeq(l, k + 1, Len(l))
  <2> HIDE DEF k, l
  <2>1. (k + 1) - 1 = k
    BY <1>5
  <2> QED
    BY <2>1, Zenon DEF InsertAt
<1>7. Lists[p] = l /\ Again[p] = k
  BY <1>1 DEF Lists, Again
<1> HIDE DEF p, k, l
<1>8. Lists' = [Lists EXCEPT ![p] = InLine!First(@, Again[p]) \o <<rx.f>>
                                      \o InLine!Rest(@, Again[p])]
  <2>1. /\ InLine!First(l, k) = SubSeq(l, 1, k)
        /\ InLine!Rest(l, k) = SubSeq(l, k + 1, Len(l))
    BY DEF InLine!First, InLine!Rest
  <2>2. Lists'[p] = InLine!First(l, k) \o <<rx.f>> \o InLine!Rest(l, k)
    BY <1>1, <1>4, <1>6, <2>1 DEF Lists
  <2>3. \A q \in Txqs : q # p => Lists'[q] = Lists[q]
    BY <1>4 DEF Lists
  <2>4. /\ Lists = [q \in Txqs |-> Lists[q]] /\ Lists' = [q \in Txqs |-> Lists'[q]]
    BY DEF Lists
  <2> QED
    BY <1>1, <1>7, <2>2, <2>3, <2>4
<1>9. Again' = [Again EXCEPT ![p] = @ + 1]
  <2>1. Again'[p] = k + 1
    BY <1>1, <1>3, <1>4 DEF Again, p
  <2>2. \A q \in Txqs : q # p => Again'[q] = Again[q]
    BY <1>1, <1>3, <1>4 DEF Again, p
  <2>3. Again = [q \in Txqs |-> Again[q]] /\ Again' = [q \in Txqs |-> Again'[q]]
    BY DEF Again
  <2> QED
    BY <1>1, <1>7, <2>1, <2>2, <2>3
<1>10. {q \in Txqs : tx'[q].active} = {q \in Txqs : tx[q].active}
  BY <1>1, <1>4
<1>11. (IF rx.pc = "link" THEN rx.f ELSE None) = rx.f
       /\ (IF rx'.pc = "link" THEN rx'.f ELSE None) = None
  BY <1>1, <1>3
<1> QED
  BY <1>1, <1>3, <1>8, <1>9, <1>10, <1>11 DEF InLine!Return, p

\* ... and counts it.
LEMMA CountUnmoved ==
  ASSUME IndInv, RetryCount
  PROVE  UNCHANGED InLine!vars
<1> DEFINE p == Tid[rx.f]
<1>1. /\ rx.pc = "count" /\ rx'.pc = "list" /\ fw' = fw /\ rx \in [pc : {"idle", "link", "count", "list"}, f : Frames \cup {None}, last : Frames \cup {None}]
      /\ tx' = [tx EXCEPT ![p].last = rx.f, ![p].nbRetry = @ + 1]
  BY DEF RetryCount, IndInv, TypeInv
<1>2. p \in Txqs /\ tx \in [Txqs -> Row] /\ tx[p] \in Row /\ tx[p].active = TRUE
  BY <1>1, Constants DEF IndInv, TypeInv, RetryInv
<1>3. tx'[p] = [tx[p] EXCEPT !.last = rx.f, !.nbRetry = @ + 1]
      /\ \A q \in Txqs : q # p => tx'[q] = tx[q]
  BY <1>1, <1>2
<1>4. /\ tx'[p].frames = tx[p].frames /\ tx'[p].active = TRUE
      /\ tx'[p].nbRetry = tx[p].nbRetry + 1
  BY <1>2, <1>3 DEF Row
<1>5. Lists' = Lists /\ {q \in Txqs : tx'[q].active} = {q \in Txqs : tx[q].active}
  <2> HIDE DEF p
  <2>1. \A q \in Txqs : tx'[q].frames = tx[q].frames /\ tx'[q].active = tx[q].active
    BY <1>2, <1>3, <1>4
  <2> QED
    BY <2>1 DEF Lists
<1>6. Again' = Again
  <2>1. Again'[p] = Again[p]
    BY <1>1, <1>2, <1>4 DEF Again
  <2>2. \A q \in Txqs : q # p => Again'[q] = Again[q]
    <3>1. rx.pc = "count" /\ rx'.pc # "count"
      BY <1>1
    <3>2. ASSUME NEW q \in Txqs, q # p PROVE Again'[q] = Again[q]
      <4>1. /\ Again[q] = IF ~tx[q].active THEN 0 ELSE tx[q].nbRetry
            /\ Again'[q] = IF ~tx'[q].active THEN 0 ELSE tx'[q].nbRetry
        BY <3>1, <3>2 DEF Again
      <4> QED
        BY <1>3, <3>2, <4>1
    <3> QED
      BY <3>2
  <2>3. Again = [q \in Txqs |-> Again[q]] /\ Again' = [q \in Txqs |-> Again'[q]]
    BY DEF Again
  <2> HIDE DEF p
  <2> QED
    BY <2>1, <2>2, <2>3
<1>7. (IF rx.pc = "link" THEN rx.f ELSE None) = None
      /\ (IF rx'.pc = "link" THEN rx'.f ELSE None) = None
  BY <1>1
<1> QED
  BY <1>1, <1>5, <1>6, <1>7 DEF InLine!vars

-----------------------------------------------------------------------------
(* The removal and the next station.                                       *)

LEMMA DeinitCloses ==
  ASSUME IndInv, Undisturbed, NEW p \in Txqs, Deinit(p)
  PROVE  InLine!Close(p)
<1>1. /\ rx.pc = "idle" /\ UNCHANGED <<fw, rx>> /\ tx[p].active /\ tx \in [Txqs -> Row]
      /\ tx' = [tx EXCEPT ![p].active = FALSE, ![p].sched = FALSE]
  BY DEF Deinit, Undisturbed, Interrupts, IndInv, TypeInv
<1>2. tx[p] \in Row
  BY <1>1
<1>3. /\ tx'[p] = [tx[p] EXCEPT !.active = FALSE, !.sched = FALSE]
      /\ \A q \in Txqs : q # p => tx'[q] = tx[q]
  BY <1>1
<1>4. tx'[p].frames = tx[p].frames /\ tx'[p].active = FALSE
  BY <1>2, <1>3 DEF Row
<1>5. Lists' = Lists
  <2>1. \A q \in Txqs : tx'[q].frames = tx[q].frames
    BY <1>3, <1>4
  <2> QED
    BY <2>1 DEF Lists
<1>6. {q \in Txqs : tx'[q].active} = {q \in Txqs : tx[q].active} \ {p}
  BY <1>3, <1>4
<1>7. Again' = [Again EXCEPT ![p] = 0]
  <2>1. Again'[p] = 0 /\ \A q \in Txqs : q # p => Again'[q] = Again[q]
    BY <1>1, <1>3, <1>4 DEF Again
  <2>2. Again = [q \in Txqs |-> Again[q]] /\ Again' = [q \in Txqs |-> Again'[q]]
    BY DEF Again
  <2> QED
    BY <2>1, <2>2
<1> QED
  BY <1>1, <1>5, <1>6, <1>7 DEF InLine!Close

LEMMA FlushClears ==
  ASSUME IndInv, Undisturbed, Flush
  PROVE  \E p \in Txqs : InLine!Clear(p)
<1>1. /\ rx.pc = "idle" /\ UNCHANGED <<fw, rx>> /\ tx \in [Txqs -> Row]
      /\ del \in Txqs /\ tx[del] \in Row /\ tx[del].active = FALSE
      /\ tx' = [tx EXCEPT ![del].frames = <<>>]
  BY DEF Flush, Undisturbed, Interrupts, IndInv, TypeInv, StationInv
<1>2. /\ tx'[del] = [tx[del] EXCEPT !.frames = <<>>]
      /\ \A q \in Txqs : q # del => tx'[q] = tx[q]
  BY <1>1
<1>3. tx'[del].frames = <<>> /\ tx'[del].active = FALSE
  BY <1>1, <1>2 DEF Row
<1>4. Lists' = [Lists EXCEPT ![del] = <<>>]
  <2>1. Lists'[del] = <<>> /\ \A q \in Txqs : q # del => Lists'[q] = Lists[q]
    BY <1>1, <1>2, <1>3 DEF Lists
  <2>2. Lists = [q \in Txqs |-> Lists[q]] /\ Lists' = [q \in Txqs |-> Lists'[q]]
    BY DEF Lists
  <2> QED
    BY <1>1, <2>1, <2>2
<1>5. {q \in Txqs : tx'[q].active} = {q \in Txqs : tx[q].active}
  BY <1>1, <1>2, <1>3
<1>6. Again' = Again
  BY <1>1, <1>2, <1>3 DEF Again
<1>7. InLine!Clear(del)
  BY <1>1, <1>4, <1>5, <1>6 DEF InLine!Clear
<1> QED
  BY <1>1, <1>7

LEMMA AddReopens ==
  ASSUME IndInv, Undisturbed, NEW asleep \in BOOLEAN, AddStation(asleep)
  PROVE  InLine!Reopen
<1>1. /\ rx.pc = "idle" /\ UNCHANGED <<fw, rx>> /\ \A q \in Txqs : ~tx[q].active
      /\ \E st : tx' = [q \in Txqs |-> Fresh(st)]
  BY DEF AddStation, Undisturbed, Interrupts
<1>2. \A q \in Txqs : /\ tx'[q].frames = <<>> /\ tx'[q].active = TRUE
                      /\ tx'[q].nbRetry = 0
  BY <1>1 DEF Fresh
<1>3. Lists' = [q \in Txqs |-> <<>>]
  BY <1>2 DEF Lists
<1>4. {q \in Txqs : tx[q].active} = {} /\ {q \in Txqs : tx'[q].active} = Txqs
  BY <1>1, <1>2
<1>5. Again' = Again
  BY <1>1, <1>2 DEF Again
<1> QED
  BY <1>1, <1>3, <1>4, <1>5 DEF InLine!Reopen

-----------------------------------------------------------------------------
(* The frames that leave.                                                  *)

LEMMA ServedTakes ==
  ASSUME NEW q, NEW t \in Row, NEW u, u = Served(q, t)
  PROVE  /\ u.active = t.active
         /\ ~t.active => u.frames = <<>>
         /\ t.active => /\ u.frames = SubSeq(t.frames, Pushes(t) + 1, Len(t.frames))
                        /\ u.nbRetry = Less(t.nbRetry, Pushes(t))
<1>1. CASE ~t.active
  BY <1>1 DEF Served, Row
<1>2. CASE t.active
  <2> DEFINE n == Pushes(t)
             rest == SubSeq(t.frames, n + 1, Len(t.frames))
             retries == Less(t.nbRetry, n)
             last == IF t.nbRetry \in 1..n THEN None ELSE t.last
             sched == ~ServedOut(t)
             limit == IF PsId[q] = "legacy" THEN 0 ELSE Less(t.limit, n)
             flow == t.flow /\ Len(rest) >= NdevRestart
  <2>1. u = [t EXCEPT !.frames = rest, !.nbRetry = retries, !.last = last,
                      !.sched = sched, !.limit = limit, !.flow = flow]
    BY <1>2 DEF Served
  <2> HIDE DEF rest, retries, last, sched, limit, flow
  <2>2. u.frames = rest /\ u.nbRetry = retries /\ u.active = t.active
    BY <2>1 DEF Row
  <2> QED
    BY <1>2, <2>2 DEF rest, retries
<1> QED
  BY <1>1, <1>2

\* One queue, that is not on a list or is served: n frames leave it.
Leaves(t, u, n) ==
    /\ n \in 0..Len(t.frames) /\ Len(u.frames) = Len(t.frames) - n
    /\ u.frames = SubSeq(t.frames, n + 1, Len(t.frames))
    /\ u.active = t.active /\ (~t.active => u.frames \in {t.frames, <<>>})
    /\ t.active => u.nbRetry = IF t.nbRetry > n THEN t.nbRetry - n ELSE 0

LEMMA QueueLeaves ==
  ASSUME NEW q, NEW t \in Row, t.active => Sane(t), NEW u
  PROVE  /\ u = t => Leaves(t, u, 0)
         /\ u = Served(q, t) => \/ t.active /\ Leaves(t, u, Pushes(t))
                                \/ ~t.active /\ Leaves(t, u, Len(t.frames))
<1> DEFINE l == t.frames
           c == Len(l)
           n == Pushes(t)
           k == t.nbRetry
<1>1. l \in Seq(Frames) /\ c \in Nat /\ k \in Nat /\ t.active \in BOOLEAN
  BY RowFields, Elements
<1>2. n \in 0..c
  BY PushesIs
<1>3. ASSUME u = t PROVE Leaves(t, u, 0)
  <2>1. SubSeq(l, 0 + 1, c) = l
    <3> HIDE DEF l
    <3> QED
      BY <1>1
  <2> HIDE DEF c, l, k
  <2>2. k = IF k > 0 THEN k - 0 ELSE 0
    BY <1>1
  <2>3. 0 \in 0..c /\ c = c - 0
    BY <1>1
  <2> QED
    BY <1>3, <2>1, <2>2, <2>3 DEF Leaves, c, l, k
<1>4. ASSUME u = Served(q, t), t.active PROVE Leaves(t, u, n)
  <2>1. u.active = t.active /\ u.frames = SubSeq(l, n + 1, c) /\ u.nbRetry = Less(k, n)
    BY <1>4, ServedTakes
  <2> HIDE DEF n, k, l
  <2>2. Len(SubSeq(l, n + 1, c)) = c - n
    BY <1>1, <1>2
  <2>3. Less(k, n) = IF k > n THEN k - n ELSE 0
    BY <1>1, <1>2 DEF Less
  <2> QED
    BY <1>2, <1>4, <2>1, <2>2, <2>3 DEF Leaves, l, k
<1>5. ASSUME u = Served(q, t), ~t.active PROVE Leaves(t, u, c)
  <2>1. u.active = t.active /\ u.frames = <<>>
    BY <1>5, ServedTakes
  <2>2. SubSeq(l, c + 1, c) = <<>> /\ Len(<<>>) = c - c /\ c \in 0..c
    <3> HIDE DEF l
    <3> QED
      BY <1>1
  <2> QED
    BY <1>5, <2>1, <2>2 DEF Leaves
<1> QED
  BY <1>3, <1>4, <1>5

\* rwnx_hwq_process: every queue t[q] becomes tx'[q] as n[q] frames leave it,
\* and those that the firmware will confirm are sent.
LEMMA QueuesSend ==
  ASSUME IndInv, rx.pc = "idle", rx' = rx, NEW t, NEW n,
         \A q \in Txqs : /\ t[q] \in Row /\ Leaves(t[q], tx'[q], n[q])
                         /\ t[q].active = tx[q].active /\ t[q].nbRetry = tx[q].nbRetry,
         fw' = fw \cup (NeedCfm \cap
                 UNION {ToSet(SubSeq(t[q].frames, 1, n[q])) : q \in {p \in Txqs : t[p].active}}),
         NEW l, l = [q \in Txqs |-> t[q].frames]
  PROVE  InLine!Send(l)
<1> DEFINE gone(q) == Len(l[q]) - Len(Lists'[q])
           used == {q \in Txqs : tx[q].active}
<1>1. (IF rx.pc = "link" THEN rx.f ELSE None) = None
      /\ (IF rx'.pc = "link" THEN rx'.f ELSE None) = None
  OBVIOUS
<1>2. ASSUME NEW q \in Txqs
      PROVE  /\ gone(q) = n[q] /\ n[q] >= 0 /\ tx'[q].active = tx[q].active
             /\ Lists'[q] = SubSeq(l[q], n[q] + 1, Len(l[q]))
             /\ q \in used \/ Lists'[q] \in {l[q], <<>>}
             /\ Again'[q] = IF Again[q] > n[q] THEN Again[q] - n[q] ELSE 0
  <2> DEFINE a == t[q]
             b == tx'[q]
             m == n[q]
             c == Len(a.frames)
  <2>1. /\ m \in 0..c /\ Len(b.frames) = c - m /\ a.active = tx[q].active
        /\ b.frames = SubSeq(a.frames, m + 1, c)
        /\ b.active = a.active /\ (~a.active => b.frames \in {a.frames, <<>>})
        /\ a.active => b.nbRetry = IF a.nbRetry > m THEN a.nbRetry - m ELSE 0
        /\ a.nbRetry = tx[q].nbRetry /\ a \in Row
    BY DEF Leaves
  <2>2. c \in Nat /\ m \in Nat /\ c - (c - m) = m
    <3>1. c \in Nat
      BY <2>1, RowFields, Elements
    <3> HIDE DEF c, m
    <3> QED
      BY <2>1, <3>1
  <2>3. l[q] = a.frames /\ Lists'[q] = b.frames
    BY DEF Lists
  <2>4. /\ Again[q] = IF ~tx[q].active THEN 0 ELSE tx[q].nbRetry
        /\ Again'[q] = IF ~b.active THEN 0 ELSE b.nbRetry
    BY DEF Again
  <2> HIDE DEF a, b, m, c
  <2>5. Again'[q] = IF Again[q] > m THEN Again[q] - m ELSE 0
    BY <2>1, <2>2, <2>4
  <2>6. gone(q) = m /\ m >= 0
    <3>1. Len(l[q]) = c /\ Len(Lists'[q]) = c - m
      BY <2>1, <2>3, Zenon DEF c
    <3>2. gone(q) = c - (c - m)
      BY <3>1, Zenon
    <3> HIDE DEF gone
    <3> QED
      BY <2>2, <3>2
  <2>7. /\ Lists'[q] = SubSeq(l[q], m + 1, Len(l[q]))
        /\ q \in used \/ Lists'[q] \in {l[q], <<>>}
    BY <2>1, <2>3, Zenon DEF c
  <2> QED
    BY <2>1, <2>5, <2>6, <2>7 DEF m, b
<1> HIDE DEF gone, used
<1>3. Lists' = [q \in Txqs |-> InLine!Rest(l[q], gone(q))]
  <2>1. Lists' = [q \in Txqs |-> Lists'[q]]
    BY DEF Lists
  <2>2. \A q \in Txqs : Lists'[q] = InLine!Rest(l[q], gone(q))
    BY <1>2 DEF InLine!Rest
  <2> QED
    BY <2>1, <2>2
<1>4. Again' = [q \in Txqs |-> IF Again[q] > gone(q) THEN Again[q] - gone(q) ELSE 0]
  <2>1. Again' = [q \in Txqs |-> Again'[q]]
    BY DEF Again
  <2>2. \A q \in Txqs : Again'[q] = IF Again[q] > gone(q) THEN Again[q] - gone(q) ELSE 0
    BY <1>2
  <2> QED
    BY <2>1, <2>2
<1>5. fw' = fw \cup (NeedCfm \cap
               UNION {InLine!Members(InLine!First(l[q], gone(q))) : q \in used})
  <2>1. {p \in Txqs : t[p].active} = used /\ used \subseteq Txqs
    BY DEF used
  <2>2. \A q \in used : InLine!Members(InLine!First(l[q], gone(q)))
                          = ToSet(SubSeq(t[q].frames, 1, n[q]))
    <3> SUFFICES ASSUME NEW q \in used
                 PROVE  InLine!Members(InLine!First(l[q], gone(q)))
                          = ToSet(SubSeq(t[q].frames, 1, n[q]))
      OBVIOUS
    <3>1. l[q] = t[q].frames /\ gone(q) = n[q]
      BY <1>2, <2>1
    <3>2. InLine!Members(InLine!First(l[q], gone(q))) = ToSet(SubSeq(l[q], 1, gone(q)))
      BY Zenon DEF InLine!Members, InLine!First, ToSet
    <3> QED
      BY <3>1, <3>2
  <2> QED
    BY <2>1, <2>2
<1>6. {q \in Txqs : tx'[q].active} = {q \in Txqs : tx[q].active}
  BY <1>2
<1>7. \A q \in Txqs : gone(q) >= 0 /\ (q \in used \/ Lists'[q] \in {l[q], <<>>})
  BY <1>2
<1>8. \A q : gone(q) = InLine!Gone(l, q)
  BY DEF gone, InLine!Gone
<1> QED
  BY <1>1, <1>3, <1>4, <1>5, <1>6, <1>7, <1>8 DEF InLine!Send, used

LEMMA ProcessSends ==
  ASSUME IndInv, rx.pc = "idle", rx' = rx, NEW t \in [Txqs -> Row], QueuesSane(t),
         \A q \in Txqs : t[q].active = tx[q].active /\ t[q].nbRetry = tx[q].nbRetry,
         NEW r, NEW hs, ProcessedNow(t, r, hs, tx', need', ps', fw'),
         NEW l, l = [q \in Txqs |-> t[q].frames]
  PROVE  InLine!Send(l)
<1> DEFINE on == OnLists(t, hs)
           n == [q \in Txqs |-> IF q \notin on THEN 0
                                ELSE IF t[q].active THEN Pushes(t[q])
                                ELSE Len(t[q].frames)]
<1>1. /\ tx' = [q \in Txqs |-> IF q \in on THEN Served(q, t[q]) ELSE t[q]]
      /\ fw' = fw \cup (NeedCfm \cap UNION {Pushed(t[q]) : q \in on})
      /\ on \subseteq Txqs
  BY DEF ProcessedNow, Processed, OnLists
<1> HIDE DEF on
<1>2. ASSUME NEW q \in Txqs PROVE t[q] \in Row /\ Leaves(t[q], tx'[q], n[q])
  <2>1. t[q] \in Row /\ (t[q].active => Sane(t[q]))
    BY DEF QueuesSane
  <2>2. CASE q \notin on
    <3>1. tx'[q] = t[q] /\ n[q] = 0
      BY <1>1, <2>2
    <3> HIDE DEF n
    <3> QED
      BY <2>1, <3>1, QueueLeaves
  <2>3. CASE q \in on
    <3>1. /\ tx'[q] = Served(q, t[q])
          /\ t[q].active => n[q] = Pushes(t[q])
          /\ ~t[q].active => n[q] = Len(t[q].frames)
      BY <1>1, <2>3
    <3> HIDE DEF n
    <3>2. \/ t[q].active /\ Leaves(t[q], tx'[q], Pushes(t[q]))
          \/ ~t[q].active /\ Leaves(t[q], tx'[q], Len(t[q].frames))
      BY <2>1, <3>1, QueueLeaves
    <3> QED
      BY <2>1, <3>1, <3>2
  <2> QED
    BY <2>2, <2>3
<1> DEFINE used == {p \in Txqs : t[p].active}
           part(q) == ToSet(SubSeq(t[q].frames, 1, n[q]))
<1>3. UNION {Pushed(t[q]) : q \in on} = UNION {part(q) : q \in used}
  <2>0. \A l1 : SubSeq(l1, 1, 0) = <<>> /\ ToSet(<<>>) = {}
    BY DEF ToSet
  <2>1. ASSUME NEW q \in on, q \in used PROVE Pushed(t[q]) = part(q)
    <3>1. n[q] = Pushes(t[q])
      BY <1>1, <2>1
    <3> HIDE DEF n
    <3> QED
      BY <3>1 DEF Pushed
  <2>2. ASSUME NEW q \in on, q \notin used PROVE Pushed(t[q]) = {}
    <3>1. Pushes(t[q]) = 0
      BY <1>1, <2>2 DEF Pushes
    <3> QED
      BY <2>0, <3>1 DEF Pushed
  <2>3. ASSUME NEW q \in used, q \notin on PROVE part(q) = {}
    <3>1. n[q] = 0
      BY <2>3
    <3> HIDE DEF n
    <3> QED
      BY <2>0, <3>1
  <2> HIDE DEF used, part, n
  <2> QED
    BY <2>1, <2>2, <2>3
<1>4. fw' = fw \cup (NeedCfm \cap UNION {part(q) : q \in used})
  <2> HIDE DEF used, part, n
  <2> QED
    BY <1>1, <1>3
<1> HIDE DEF n
<1> QED
  BY <1>2, <1>4, QueuesSend

LEMMA TaskSends ==
  ASSUME IndInv, Undisturbed, Task
  PROVE  InLine!Send(Lists)
<1>1. rx.pc = "idle" /\ rx' = rx
  BY DEF Task, Undisturbed, Interrupts
<1>2. tx \in [Txqs -> Row] /\ QueuesSane(tx)
  BY DEF IndInv, TypeInv
<1>3. ProcessedNow(tx, ps.ready, {h \in Hwqs : need[h]}, tx', need', ps', fw')
  BY TaskKeeps
<1>4. Lists = [q \in Txqs |-> tx[q].frames]
  BY DEF Lists
<1> QED
  BY <1>1, <1>2, <1>3, <1>4, ProcessSends

\* A new frame joins its line at the end, and the line may go at once.
LEMMA NewSends ==
  ASSUME IndInv, rx.pc = "idle", rx' = rx, NEW f \in Frames, f \notin fw,
         \A q \in Txqs : f \notin ToSet(tx[q].frames),
         ProcessedNow(WithNew(f), ReadyWith(f), ListsOf(f), tx', need', ps', fw')
  PROVE  InLine!Outside(f) /\ InLine!Send(InLine!With(f))
<1> DEFINE t == WithNew(f)
           p == Tid[f]
           v == tx[p]
           s == Append(v.frames, f)
           u == WithFrames(p, v, s)
<1>1. p \in Txqs /\ tx \in [Txqs -> Row] /\ v \in Row /\ f # None
  BY Constants DEF IndInv, TypeInv
<1>2. t \in [Txqs -> Row] /\ QueuesSane(t)
  <2>1. f \notin ToSet(tx[Tid[f]].frames)
    BY <1>1
  <2> QED
    BY <2>1, WithNewIs
<1>3. t[p] = u /\ \A q \in Txqs : q # p => t[q] = tx[q]
  BY <1>1 DEF WithNew
<1>4. v.frames \in Seq(Frames) /\ s \in Seq(Frames)
  BY <1>1, RowFields, AppendProperties
<1>5. u.frames = s /\ u.active = v.active /\ u.nbRetry = v.nbRetry
  <2> HIDE DEF u, v, s, p
  <2>1. u = WithFrames(p, v, s)
    BY DEF u
  <2> QED
    BY <1>1, <1>4, <2>1, WithFramesLine
<1> HIDE DEF t, u
<1>6. ASSUME NEW q \in Txqs
      PROVE  /\ t[q].active = tx[q].active /\ t[q].nbRetry = tx[q].nbRetry
             /\ t[q].frames = IF q = p THEN s ELSE tx[q].frames
  BY <1>3, <1>5
<1>7. InLine!With(f) = [q \in Txqs |-> t[q].frames]
  <2>1. InLine!With(f) = [Lists EXCEPT ![p] = Append(@, f)]
    BY DEF InLine!With
  <2>2. Lists = [q \in Txqs |-> tx[q].frames]
    BY DEF Lists
  <2>3. \A q \in Txqs : InLine!With(f)[q] = t[q].frames
    BY <1>1, <1>6, <2>1, <2>2
  <2> HIDE DEF p
  <2> QED
    BY <2>1, <2>2, <2>3
<1>8. InLine!Send(InLine!With(f))
  <2>1. \A q \in Txqs : t[q].active = tx[q].active /\ t[q].nbRetry = tx[q].nbRetry
    BY <1>6
  <2>2. ProcessedNow(t, ReadyWith(f), ListsOf(f), tx', need', ps', fw')
    BY DEF t
  <2> QED
    BY <1>2, <1>7, <2>1, <2>2, ProcessSends
<1>9. InLine!Outside(f)
  <2>1. \A q \in Txqs : Lists[q] = tx[q].frames
    BY DEF Lists
  <2>2. \A q \in Txqs : f \notin InLine!Members(Lists[q])
    BY <2>1 DEF InLine!Members, ToSet
  <2> QED
    BY <1>1, <2>2 DEF InLine!Outside
<1> QED
  BY <1>8, <1>9

LEMMA StackSends ==
  ASSUME IndInv, Undisturbed, NEW f \in Free, IntfTx(f)
  PROVE  f \in Frames /\ InLine!Outside(f) /\ InLine!Send(InLine!With(f))
<1>1. rx.pc = "idle" /\ rx' = rx
  BY DEF IntfTx, Undisturbed, Interrupts
<1>2. f \in Frames /\ f \notin fw /\ \A q \in Txqs : f \notin ToSet(tx[q].frames)
  BY FreeIs
<1>3. ProcessedNow(WithNew(f), ReadyWith(f), ListsOf(f), tx', need', ps', fw')
  BY IntfTxKeeps
<1> QED
  BY <1>1, <1>2, <1>3, NewSends

LEMMA MgmtSends ==
  ASSUME IndInv, Undisturbed, MgmtXmit
  PROVE  mgmt \in Frames /\ InLine!Outside(mgmt) /\ InLine!Send(InLine!With(mgmt))
<1>1. rx.pc = "idle" /\ rx' = rx /\ mgmt # None
  BY DEF MgmtXmit, Undisturbed, Interrupts
<1>2. /\ mgmt \in Of(Mgmt) /\ mgmt \notin fw /\ mgmt \notin ToSet(tx[Mgmt].frames)
      /\ \A q \in Txqs : ToSet(tx[q].frames) \subseteq Of(q)
  BY <1>1 DEF IndInv, PlaceInv, QueuesSane, Good
<1>3. mgmt \in Frames /\ \A q \in Txqs : mgmt \notin ToSet(tx[q].frames)
  BY <1>2 DEF Of
<1>4. ProcessedNow(WithNew(mgmt), ReadyWith(mgmt), ListsOf(mgmt), tx', need', ps', fw')
  BY MgmtXmitKeeps
<1> QED
  BY <1>1, <1>2, <1>3, <1>4, NewSends

-----------------------------------------------------------------------------
(* The refinement.                                                         *)

LEMMA StepInLine ==
  ASSUME IndInv, Undisturbed, [Next]_vars
  PROVE  [InLine!Next]_InLine!vars
<1> DEFINE Line == InLine!Next \/ UNCHANGED InLine!vars
<1> SUFFICES Line
  OBVIOUS
<1>1. ASSUME NEW f \in Free, IntfTx(f) PROVE Line
  BY <1>1, StackSends DEF InLine!Next
<1>2. ASSUME NEW f \in Free, MgmtCheck(f) PROVE Line
  BY <1>2, OthersUnmoved DEF MgmtCheck
<1>3. CASE MgmtXmit
  BY <1>3, MgmtSends DEF InLine!Next
<1>4. CASE Task
  BY <1>4, TaskSends DEF InLine!Next
<1>5. CASE ChanPreSwitch \/ ChanSwitch \/ P2pVifPsOn \/ P2pVifPsOff
  <2>1. TRUE \in BOOLEAN
    OBVIOUS
  <2> QED
    BY <1>5, <2>1, StopsUnmoved
<1>6. ASSUME NEW b \in BOOLEAN, CsaTraffic(b) \/ CsaFinish(b) PROVE Line
  BY <1>6, StopsUnmoved
<1>7. ASSUME NEW b \in BOOLEAN, PsChange(b) PROVE Line
  BY <1>7, SleepUnmoved
<1>8. ASSUME NEW n \in 0..1, NEW id \in Ids, TrafficReq(n, id) PROVE Line
  BY <1>8, PeriodsUnmoved
<1>9. CASE SpInterrupted
  BY <1>9, PeriodsUnmoved
<1>10. CASE CsaFinishInd
  BY <1>10, OthersUnmoved DEF CsaFinishInd
<1>11. ASSUME NEW q \in Txqs, CreditsUpdate(q) PROVE Line
  BY <1>11, CreditsUnmoved
<1>12. ASSUME NEW f \in Frames, CfmDone(f) PROVE Line
  BY <1>12, DoneConfirms DEF InLine!Next
<1>13. ASSUME NEW f \in Frames, CfmRetry(f) PROVE Line
  BY <1>13, RetryRefuses DEF InLine!Next
<1>14. CASE RetryLink
  BY <1>14, LinkReturns DEF InLine!Next
<1>15. CASE RetryCount
  BY <1>15, CountUnmoved
<1>16. CASE RetryList
  BY <1>16, RelistUnmoved
<1>17. CASE DelStation
  BY <1>17, OthersUnmoved DEF DelStation
<1>18. ASSUME NEW q \in Txqs, Deinit(q) PROVE Line
  BY <1>18, DeinitCloses DEF InLine!Next
<1>19. CASE Flush
  BY <1>19, FlushClears DEF InLine!Next
<1>20. ASSUME NEW b \in BOOLEAN, AddStation(b) PROVE Line
  BY <1>20, AddReopens DEF InLine!Next
<1>21. CASE UNCHANGED vars
  BY <1>21, OthersUnmoved DEF vars
<1> HIDE DEF Line
<1> QED
  BY <1>1, <1>2, <1>3, <1>4, <1>5, <1>6, <1>7, <1>8, <1>9, <1>10, <1>11, <1>12,
     <1>13, <1>14, <1>15, <1>16, <1>17, <1>18, <1>19, <1>20, <1>21, Zenon DEF Next

LEMMA NextInLine ==
  ASSUME IndInv, [Next]_vars, [Undisturbed]_vars
  PROVE  [InLine!Next]_InLine!vars
<1>1. CASE Undisturbed
  BY <1>1, StepInLine
<1>2. CASE UNCHANGED vars
  BY <1>2, OthersUnmoved DEF vars
<1> QED
  BY <1>1, <1>2

LEMMA StartInLine ==
  ASSUME Init
  PROVE  InLine!Init
<1>1. /\ tx = [q \in Txqs |-> Fresh({})] /\ fw = {} /\ rx = Idle /\ rx.pc = "idle"
  BY DEF Init, Idle
<1>2. \A q \in Txqs : /\ tx[q].frames = <<>> /\ tx[q].nbRetry = 0
                      /\ tx[q].active = TRUE
  BY <1>1 DEF Fresh
<1>3. Lists = [q \in Txqs |-> <<>>] /\ Again = [q \in Txqs |-> 0]
  BY <1>1, <1>2 DEF Lists, Again
<1>4. {q \in Txqs : tx[q].active} = Txqs
  BY <1>2
<1> QED
  BY <1>1, <1>3, <1>4 DEF InLine!Init

\* The transmit queues of a station are lines: whatever stops, starts, grants
\* or serves them, a queue gives its frames to the firmware from its front and
\* takes new ones at its end, a frame that rwnx_tx_retry takes back goes behind
\* those that came back before it and before all others, and frames are thrown
\* away only with the queue they are in (rwnx_txq_deinit).
THEOREM QueuesAreLines ==
  Spec /\ [][Undisturbed]_vars => ImplementsLines
<1>1. Init => InLine!Init
  BY StartInLine
<1>2. IndInv /\ [Next]_vars /\ [Undisturbed]_vars => [InLine!Next]_InLine!vars
  BY NextInLine
<1> QED
  BY <1>1, <1>2, SpecIndInv, PTL DEF Spec, ImplementsLines, InLine!Spec

=============================================================================
