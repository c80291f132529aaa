-------------------------- MODULE RxReorder_proofs --------------------------
(***************************************************************************)
(* The receive reorder is right for every modulus, window and number of    *)
(* frames, as long as no frame that may arrive is half a cycle away.       *)
(***************************************************************************)
EXTENDS RxReorder, TLAPS, OrderFacts, SequenceTheorems

-----------------------------------------------------------------------------
(* Sequence numbers.  Everything about % that is used follows from the     *)
(* division with remainder and its uniqueness.                             *)

LEMMA DivMod ==
  ASSUME NEW m \in Nat \ {0}, NEW x \in Int
  PROVE  x % m \in 0..(m - 1) /\ x \div m \in Int /\ x = m * (x \div m) + (x % m)
OBVIOUS

LEMMA SmallMultiple ==
  ASSUME NEW m \in Nat \ {0}, NEW q \in Int, m * q < m, m * q > -m
  PROVE  q = 0
OBVIOUS

LEMMA ModUnique ==
  ASSUME NEW m \in Nat \ {0}, NEW q \in Int, NEW r \in 0..(m - 1)
  PROVE  (m * q + r) % m = r
<1> DEFINE x == m * q + r
<1>1. x \in Int /\ m * q \in Int
  OBVIOUS
<1>2. x % m \in 0..(m - 1) /\ x \div m \in Int /\ x = m * (x \div m) + (x % m)
  BY <1>1, DivMod
<1>3. m * (q - (x \div m)) = m * q - m * (x \div m)
  BY <1>2
<1>4. m * (q - (x \div m)) < m /\ m * (q - (x \div m)) > -m
  BY <1>1, <1>2, <1>3
<1>5. q - (x \div m) = 0
  BY <1>2, <1>4, SmallMultiple
<1>6. q = x \div m
  BY <1>2, <1>5
<1> QED
  BY <1>2, <1>6

\* Multiples of m do not change the remainder.
LEMMA ModShift ==
  ASSUME NEW m \in Nat \ {0}, NEW q \in Int, NEW x \in Int
  PROVE  (m * q + x) % m = x % m
<1> DEFINE p == x \div m
           r == x % m
<1>1. r \in 0..(m - 1) /\ p \in Int /\ x = m * p + r
  BY DivMod
<1> HIDE DEF p, r
<1>2. m * q + x = m * (q + p) + r
  BY <1>1
<1>3. (m * (q + p) + r) % m = r
  BY <1>1, ModUnique
<1> QED
  BY <1>2, <1>3 DEF r

\* What the assumption says of the constants used here.
LEMMA Constants ==
  /\ M \in Nat \ {0} /\ M >= 4 /\ M <= NoSn
  /\ M \div 2 \in Nat /\ M = 2 * (M \div 2)
  /\ W \in Nat \ {0} /\ W < M \div 2 /\ First \in Int
  /\ N \in Nat \ {0} /\ Pool \in Nat \ {0}
  /\ SendWin \in Nat \ {0} /\ SendWin < M \div 2
  /\ Burst \in Nat \ {0}
  /\ Burst + W <= M \div 2 /\ Burst + SendWin <= M \div 2
<1>1. /\ M \in Nat /\ M >= 2 /\ M <= NoSn /\ M % 2 = 0
      /\ W \in Nat \ {0} /\ Pool \in Nat \ {0} /\ First \in Int
      /\ N \in Nat \ {0} /\ SendWin \in Nat \ {0} /\ Burst \in Nat \ {0}
      /\ Burst + W <= M \div 2 /\ Burst + SendWin <= M \div 2
  <2>1. /\ M \in 2..NoSn /\ M % 2 = 0 /\ First \in 0..(M - 1)
        /\ W \in Nat \ {0} /\ Pool \in Nat \ {0}
        /\ N \in Nat \ {0} /\ SendWin \in Nat \ {0} /\ Burst \in Nat \ {0}
        /\ Burst + W <= M \div 2 /\ Burst + SendWin <= M \div 2
    BY RxReorderAssumption, Zenon
  <2>2. NoSn \in Nat
    BY DEF NoSn
  <2>3. M \in Nat /\ M >= 2 /\ M <= NoSn /\ First \in Int
    BY <2>1, <2>2
  <2> QED
    BY <2>1, <2>3, Zenon
<1>2. M \div 2 \in Nat /\ M = 2 * (M \div 2)
  BY <1>1
<1> DEFINE h == M \div 2
<1>3. h \in Nat /\ M = 2 * h /\ Burst + W <= h /\ Burst + SendWin <= h
  BY <1>1, <1>2
<1> HIDE DEF h
<1>4. M >= 4 /\ W < h /\ SendWin < h
  BY <1>1, <1>3
<1> QED
  BY <1>1, <1>2, <1>4 DEF h

\* A sequence number, and the number of cycles before it.
LEMMA SnIs ==
  ASSUME NEW n \in Int
  PROVE  /\ Sn(n) \in 0..(M - 1) /\ Sn(n) # NoSn
         /\ \E q \in Int : n + First = M * q + Sn(n)
<1>1. M \in Nat \ {0} /\ n + First \in Int
  BY Constants
<1>2. Sn(n) \in 0..(M - 1) /\ n + First = M * ((n + First) \div M) + Sn(n)
  BY <1>1, DivMod DEF Sn
<1>3. (n + First) \div M \in Int
  BY <1>1, DivMod
<1>4. Sn(n) # NoSn
  BY <1>2, Constants DEF NoSn
<1> QED
  BY <1>2, <1>3, <1>4

\* Arithmetic with sequence numbers is arithmetic with numbers.
LEMMA SnMinus ==
  ASSUME NEW a \in Int, NEW b \in Int
  PROVE  (Sn(a) - Sn(b)) % M = (a - b) % M
<1>1. PICK p \in Int : a + First = M * p + Sn(a)
  BY SnIs
<1>2. PICK q \in Int : b + First = M * q + Sn(b)
  BY SnIs
<1>3. Sn(a) \in Int /\ Sn(b) \in Int /\ M \in Nat \ {0} /\ First \in Int
  BY SnIs, Constants
<1>4. a - b = M * (p - q) + (Sn(a) - Sn(b))
  BY <1>1, <1>2, <1>3
<1>5. (M * (p - q) + (Sn(a) - Sn(b))) % M = (Sn(a) - Sn(b)) % M
  <2> DEFINE d == p - q
             s == Sn(a) - Sn(b)
  <2>1. d \in Int /\ s \in Int /\ M \in Nat \ {0}
    BY <1>3
  <2> HIDE DEF d, s
  <2>2. (M * d + s) % M = s % M
    BY <2>1, ModShift
  <2> QED
    BY <2>2 DEF d, s
<1> QED
  BY <1>4, <1>5

LEMMA SnPlus ==
  ASSUME NEW a \in Int, NEW k \in Int
  PROVE  (Sn(a) + k) % M = Sn(a + k)
<1>1. PICK p \in Int : a + First = M * p + Sn(a)
  BY SnIs
<1>3. Sn(a) \in Int /\ M \in Nat \ {0} /\ First \in Int
  BY SnIs, Constants
<1> DEFINE s == Sn(a)
           c == M * p
<1>4. (a + k) + First = c + (s + k)
  <2>1. a + First = c + s /\ s \in Int /\ c \in Int
    BY <1>1, <1>3
  <2> HIDE DEF s, c
  <2> QED
    BY <1>3, <2>1
<1>5. (M * p + (s + k)) % M = (s + k) % M
  <2>1. s + k \in Int
    BY <1>3
  <2> HIDE DEF s
  <2> QED
    BY <1>3, <2>1, ModShift
<1> QED
  BY <1>4, <1>5 DEF Sn

\* What is less than a cycle apart is told apart.
LEMMA SnSame ==
  ASSUME NEW a \in Int, NEW b \in Int, a - b < M, b - a < M
  PROVE  Sn(a) = Sn(b) <=> a = b
<1> SUFFICES ASSUME Sn(a) = Sn(b) PROVE a = b
  OBVIOUS
<1>1. PICK p \in Int : a + First = M * p + Sn(a)
  BY SnIs
<1>2. PICK q \in Int : b + First = M * q + Sn(b)
  BY SnIs
<1>3. Sn(a) \in Int /\ M \in Nat \ {0} /\ First \in Int
  BY SnIs, Constants
<1>4. a - b = M * (p - q)
  BY <1>1, <1>2, <1>3
<1>5. p - q \in Int /\ M * (p - q) < M /\ M * (p - q) > -M
  BY <1>3, <1>4
<1>6. p - q = 0
  BY <1>3, <1>5, SmallMultiple
<1> QED
  BY <1>4, <1>6, <1>3

\* What is less than half a cycle apart is put in order by SN_LESS.
LEMMA SnLess ==
  ASSUME NEW a \in Int, NEW b \in Int, a - b < M \div 2, b - a <= M \div 2
  PROVE  SN_LESS(Sn(a), Sn(b)) <=> a < b
<1> DEFINE h == M \div 2
<1>1. (Sn(a) - Sn(b)) % M = (a - b) % M
  BY SnMinus
<1>2. h \in Nat /\ M = 2 * h /\ M \in Nat \ {0} /\ a - b < h /\ b - a <= h
  BY Constants
<1>3. SN_LESS(Sn(a), Sn(b)) <=> (a - b) % M >= h
  BY <1>1 DEF SN_LESS
<1> HIDE DEF h
<1>4. CASE a < b
  <2>1. M * (-1) + (M + (a - b)) = a - b
    BY <1>2
  <2>2. M + (a - b) \in 0..(M - 1) /\ M + (a - b) >= h
    BY <1>2, <1>4
  <2>3. (M * (-1) + (M + (a - b))) % M = M + (a - b)
    BY <1>2, <2>2, ModUnique
  <2> QED
    BY <1>3, <1>4, <2>1, <2>2, <2>3
<1>5. CASE ~(a < b)
  <2>1. M * 0 + (a - b) = a - b
    BY <1>2
  <2>2. a - b \in 0..(M - 1) /\ ~(a - b >= h)
    BY <1>2, <1>5
  <2>3. (M * 0 + (a - b)) % M = a - b
    BY <1>2, <2>2, ModUnique
  <2> QED
    BY <1>3, <1>5, <2>1, <2>2, <2>3
<1> QED
  BY <1>4, <1>5

\* The window that ends with frame n starts with frame n - W + 1.
LEMMA WindowStartIs ==
  ASSUME NEW n \in Int
  PROVE  WindowStart(Sn(n)) = Sn(n - W + 1)
<1> DEFINE s == Sn(n)
<1>1. PICK q \in Int : n + First = M * q + s
  BY SnIs
<1>2. s \in 0..(M - 1) /\ M \in Nat \ {0} /\ First \in Int /\ W \in Nat \ {0} /\ W < M
  <2>1. M \in Nat \ {0} /\ First \in Int /\ W \in Nat \ {0} /\ W < M
    BY Constants
  <2>2. s \in 0..(M - 1)
    BY SnIs
  <2> QED
    BY <2>1, <2>2
<1> HIDE DEF s
<1>3. CASE s >= W - 1
  <2>1. (n - W + 1) + First = M * q + (s - (W - 1)) /\ s - (W - 1) \in 0..(M - 1)
    BY <1>1, <1>2, <1>3
  <2>2. (M * q + (s - (W - 1))) % M = s - (W - 1)
    BY <1>2, <2>1, ModUnique
  <2>3. WindowStart(s) = s - (W - 1)
    BY <1>3 DEF WindowStart
  <2> QED
    BY <2>1, <2>2, <2>3 DEF Sn, s
<1>4. CASE ~(s >= W - 1)
  <2> DEFINE r == (M - 1) - (W - (s + 1)) + 1
  <2>1. (n - W + 1) + First = M * (q - 1) + r /\ r \in 0..(M - 1) /\ q - 1 \in Int
    BY <1>1, <1>2, <1>4
  <2>3. WindowStart(s) = r
    BY <1>4 DEF WindowStart
  <2> HIDE DEF r
  <2>2. (M * (q - 1) + r) % M = r
    BY <1>2, <2>1, ModUnique
  <2> QED
    BY <2>1, <2>2, <2>3 DEF Sn, s
<1> QED
  BY <1>3, <1>4

-----------------------------------------------------------------------------
(* Lists of frames.                                                        *)

Frames == 0..(N - 1)
Increasing(l) == \A i, j \in DOMAIN l : i < j => l[i] < l[j]
ElementsOf(l) == {l[i] : i \in DOMAIN l}

\* The first k elements of l are those below u.
Splits(l, k, u) == k \in 0..Len(l) /\ \A i \in 1..Len(l) : i <= k <=> l[i] < u

LEMMA FramesAreInts == Frames \subseteq Int /\ 0 \in Frames
  BY Constants DEF Frames

LEMMA ListOfFrames ==
  ASSUME NEW l \in Seq(Frames)
  PROVE  /\ Len(l) \in Nat /\ DOMAIN l = 1..Len(l)
         /\ \A i \in 1..Len(l) : l[i] \in Frames
         /\ \A i \in 1..Len(l) : l[i] \in Int
<1>1. Len(l) \in Nat /\ DOMAIN l = 1..Len(l) /\ \A i \in 1..Len(l) : l[i] \in Frames
  OBVIOUS
<1>2. \A x \in Frames : x \in Int
  BY FramesAreInts
<1> QED
  BY <1>1, <1>2

\* The CHOOSE of PrefixIn has something to choose.
LEMMA PrefixInIs ==
  ASSUME NEW l \in Seq(Frames), NEW S
  PROVE  /\ PrefixIn(l, S) \in 0..Len(l)
         /\ \A i \in 1..PrefixIn(l, S) : l[i] \in S
         /\ PrefixIn(l, S) < Len(l) => l[PrefixIn(l, S) + 1] \notin S
<1> DEFINE P(k) == /\ \A i \in 1..k : l[i] \in S
                   /\ k < Len(l) => l[k + 1] \notin S
           n == Len(l)
           T == {i \in 1..n : l[i] \in S}
<1>1. n \in Nat
  OBVIOUS
<1> HIDE DEF n
<1>2. PICK k \in 0..n : (\A i \in 1..k : i \in T) /\ (k < n => k + 1 \notin T)
  BY <1>1, PrefixExists
<1>3. k < n => k + 1 \in 1..n
  BY <1>1
<1>4. P(k)
  BY <1>2, <1>3 DEF n
<1>5. k \in 0..Len(l)
  BY DEF n
<1>6. PrefixIn(l, S) = CHOOSE j \in 0..Len(l) : P(j)
  BY DEF PrefixIn
<1> HIDE DEF P
<1>7. PrefixIn(l, S) \in 0..Len(l) /\ P(PrefixIn(l, S))
  BY <1>4, <1>5, <1>6
<1> QED
  BY <1>7 DEF P

\* The elements below u are a prefix of an increasing list.
LEMMA PrefixBelow ==
  ASSUME NEW l \in Seq(Frames), Increasing(l), NEW S, NEW u \in Int,
         \A i \in 1..Len(l) : l[i] \in S <=> l[i] < u
  PROVE  Splits(l, PrefixIn(l, S), u)
<1> DEFINE k == PrefixIn(l, S)
<1>1. k \in 0..Len(l) /\ (\A i \in 1..k : l[i] \in S) /\ (k < Len(l) => l[k + 1] \notin S)
  BY PrefixInIs
<1>2. Len(l) \in Nat /\ DOMAIN l = 1..Len(l) /\ \A i \in 1..Len(l) : l[i] \in Int
  BY ListOfFrames
<1> HIDE DEF k
<1> SUFFICES ASSUME NEW i \in 1..Len(l) PROVE i <= k <=> l[i] < u
  BY <1>1 DEF k, Splits
<1>3. CASE i <= k
  BY <1>1, <1>3
<1>4. CASE ~(i <= k)
  <2>1. k + 1 \in 1..Len(l) /\ k < Len(l) /\ k + 1 <= i
    BY <1>1, <1>2, <1>4
  <2>2. ~(l[k + 1] < u)
    BY <1>1, <2>1
  <2>3. k + 1 = i \/ l[k + 1] < l[i]
    BY <1>2, <2>1 DEF Increasing
  <2> QED
    BY <1>2, <1>4, <2>1, <2>2, <2>3
<1> QED
  BY <1>3, <1>4

LEMMA Parts ==
  ASSUME NEW l \in Seq(Frames), NEW k \in 0..Len(l)
  PROVE  /\ SubSeq(l, 1, k) \in Seq(Frames) /\ Len(SubSeq(l, 1, k)) = k
         /\ \A i \in 1..k : SubSeq(l, 1, k)[i] = l[i]
         /\ SubSeq(l, k + 1, Len(l)) \in Seq(Frames)
         /\ Len(SubSeq(l, k + 1, Len(l))) = Len(l) - k
         /\ \A i \in 1..(Len(l) - k) : SubSeq(l, k + 1, Len(l))[i] = l[k + i]
<1>1. SubSeq(l, 1, k) \in Seq(Frames) /\ SubSeq(l, k + 1, Len(l)) \in Seq(Frames)
  BY SubSeqProperties
<1>2. Len(SubSeq(l, 1, k)) = k /\ \A i \in 1..k : SubSeq(l, 1, k)[i] = l[i]
  OBVIOUS
<1>3. /\ Len(SubSeq(l, k + 1, Len(l))) = Len(l) - k
      /\ \A i \in 1..(Len(l) - k) : SubSeq(l, k + 1, Len(l))[i] = l[k + i]
  OBVIOUS
<1> QED
  BY <1>1, <1>2, <1>3

\* Where the list is cut at such a prefix.
LEMMA Cut ==
  ASSUME NEW l \in Seq(Frames), Increasing(l), NEW k, NEW u \in Int, Splits(l, k, u)
  PROVE  /\ SubSeq(l, 1, k) \in Seq(Frames) /\ Increasing(SubSeq(l, 1, k))
         /\ Len(SubSeq(l, 1, k)) = k
         /\ ElementsOf(SubSeq(l, 1, k)) = {h \in ElementsOf(l) : h < u}
         /\ SubSeq(l, k + 1, Len(l)) \in Seq(Frames)
         /\ Increasing(SubSeq(l, k + 1, Len(l)))
         /\ Len(SubSeq(l, k + 1, Len(l))) = Len(l) - k
         /\ ElementsOf(SubSeq(l, k + 1, Len(l))) = {h \in ElementsOf(l) : h >= u}
<1> DEFINE n == Len(l)
           a == SubSeq(l, 1, k)
           b == SubSeq(l, k + 1, n)
<1>1. n \in Nat /\ DOMAIN l = 1..n /\ k \in 0..n
  BY DEF Splits
<1>2. \A i \in 1..n : l[i] \in Frames /\ l[i] \in Int
  BY ListOfFrames
<1>3. Len(a) = k /\ DOMAIN a = 1..k /\ \A i \in 1..k : a[i] = l[i]
  BY <1>1
<1>4. Len(b) = n - k /\ DOMAIN b = 1..(n - k) /\ \A i \in 1..(n - k) : b[i] = l[k + i]
  BY <1>1
<1>5. a \in Seq(Frames) /\ b \in Seq(Frames)
  BY SubSeqProperties, <1>1
<1> HIDE DEF n, a, b
<1>6. Increasing(a)
  BY <1>1, <1>3 DEF Increasing
<1>7. Increasing(b)
  <2> SUFFICES ASSUME NEW i \in 1..(n - k), NEW j \in 1..(n - k), i < j PROVE b[i] < b[j]
    BY <1>4 DEF Increasing
  <2>1. k + i \in 1..n /\ k + j \in 1..n /\ k + i < k + j
    BY <1>1
  <2> QED
    BY <1>1, <1>4, <2>1 DEF Increasing
<1>8. ElementsOf(a) = {h \in ElementsOf(l) : h < u}
  <2>1. \A i \in 1..n : i <= k <=> l[i] < u
    BY DEF n, Splits
  <2>2. \A i \in 1..k : i \in 1..n
    BY <1>1
  <2>3. \A i \in 1..n : i <= k => i \in 1..k
    BY <1>1
  <2>4. \A i \in 1..k : i <= k
    BY <1>1
  <2> QED
    BY <1>1, <1>3, <2>1, <2>2, <2>3, <2>4 DEF ElementsOf
<1>9. ElementsOf(b) = {h \in ElementsOf(l) : h >= u}
  <2>1. \A i \in 1..n : ~(i <= k) <=> l[i] >= u
    BY <1>2 DEF n, Splits
  <2>2. \A i \in 1..(n - k) : k + i \in 1..n /\ ~(k + i <= k)
    BY <1>1
  <2>3. \A i \in 1..n : ~(i <= k) => i - k \in 1..(n - k) /\ k + (i - k) = i
    BY <1>1
  <2>4. ASSUME NEW h, h \in ElementsOf(b) PROVE h \in ElementsOf(l) /\ h >= u
    <3>1. PICK i \in 1..(n - k) : h = b[i]
      BY <1>4, <2>4 DEF ElementsOf
    <3> QED
      BY <1>1, <1>4, <2>1, <2>2, <3>1 DEF ElementsOf
  <2>5. ASSUME NEW h, h \in ElementsOf(l), h >= u PROVE h \in ElementsOf(b)
    <3>1. PICK i \in 1..n : h = l[i]
      BY <1>1, <2>5 DEF ElementsOf
    <3>2. ~(i <= k)
      BY <2>1, <2>5, <3>1
    <3> QED
      BY <1>4, <2>3, <3>1, <3>2 DEF ElementsOf
  <2> QED
    BY <2>4, <2>5
<1> QED
  BY <1>3, <1>4, <1>5, <1>6, <1>7, <1>8, <1>9 DEF a, b, n

\* A frame inserted behind the smaller ones leaves the list in order.
LEMMA Insert ==
  ASSUME NEW l \in Seq(Frames), Increasing(l), NEW n \in Frames, n \notin ElementsOf(l),
         NEW k \in 0..Len(l), Splits(l, k, n)
  PROVE  /\ InsertAt(l, k + 1, n) \in Seq(Frames)
         /\ Increasing(InsertAt(l, k + 1, n))
         /\ Len(InsertAt(l, k + 1, n)) = Len(l) + 1
         /\ ElementsOf(InsertAt(l, k + 1, n)) = ElementsOf(l) \cup {n}
<1> DEFINE c == Len(l)
           s == InsertAt(l, k + 1, n)
<1>1. c \in Nat /\ DOMAIN l = 1..c /\ k \in 0..c
  BY DEF Splits
<1>2. (\A i \in 1..c : l[i] \in Frames /\ l[i] \in Int) /\ n \in Int
  BY ListOfFrames, FramesAreInts
<1> DEFINE x == SubSeq(l, 1, k)
           y == SubSeq(l, k + 1, c)
<1>3. s = x \o <<n>> \o y
  <2>1. (k + 1) - 1 = k
    BY <1>1
  <2> QED
    BY <2>1, Zenon DEF InsertAt
<1>4. /\ s \in Seq(Frames) /\ Len(s) = c + 1 /\ DOMAIN s = 1..(c + 1)
      /\ \A i \in 1..(c + 1) :
            s[i] = IF i <= k THEN l[i] ELSE IF i = k + 1 THEN n ELSE l[i - 1]
  <2>1. x \in Seq(Frames) /\ Len(x) = k /\ \A i \in 1..k : x[i] = l[i]
    BY Parts
  <2>2. y \in Seq(Frames) /\ Len(y) = c - k /\ \A i \in 1..(c - k) : y[i] = l[k + i]
    BY Parts
  <2> HIDE DEF x, y, c, s
  <2>3. x \o <<n>> \in Seq(Frames) /\ Len(x \o <<n>>) = k + 1
        /\ \A i \in 1..(k + 1) : (x \o <<n>>)[i] = IF i <= k THEN x[i] ELSE n
    BY <1>1, <2>1
  <2> DEFINE z == x \o <<n>>
  <2>4. s = z \o y
    BY <1>3
  <2> HIDE DEF z
  <2>5. z \in Seq(Frames) /\ Len(z) = k + 1
    BY <2>3 DEF z
  <2>6. s \in Seq(Frames) /\ Len(s) = c + 1 /\ DOMAIN s = 1..(c + 1)
    <3>1. s \in Seq(Frames) /\ Len(s) = (k + 1) + (c - k)
      <4>1. z \o y \in Seq(Frames) /\ Len(z \o y) = Len(z) + Len(y)
        BY <2>2, <2>5, ConcatProperties, Zenon
      <4> QED
        BY <2>2, <2>4, <2>5, <4>1, Zenon
    <3>2. (k + 1) + (c - k) = c + 1
      BY <1>1
    <3>3. DOMAIN s = 1..Len(s)
      BY <3>1
    <3> QED
      BY <3>1, <3>2, <3>3, Zenon
  <2>7. \A i \in 1..(c + 1) : s[i] = IF i <= k + 1 THEN z[i] ELSE y[i - (k + 1)]
    BY <1>1, <2>2, <2>4, <2>5
  <2>9. \A i \in 1..(k + 1) : z[i] = IF i <= k THEN x[i] ELSE n
    BY <2>3 DEF z
  <2>8. ASSUME NEW i \in 1..(c + 1)
        PROVE  s[i] = IF i <= k THEN l[i] ELSE IF i = k + 1 THEN n ELSE l[i - 1]
    <3>1. CASE i <= k
      <4>1. i \in 1..k /\ i <= k + 1 /\ i \in 1..(k + 1)
        BY <1>1, <3>1
      <4> QED
        BY <4>1, <2>1, <2>7, <2>9
    <3>2. CASE i = k + 1
      <4>1. i \in 1..(k + 1) /\ ~(i <= k)
        BY <1>1, <3>2
      <4> QED
        BY <3>2, <4>1, <2>7, <2>9
    <3>3. CASE i > k + 1
      <4>1. i - (k + 1) \in 1..(c - k) /\ k + (i - (k + 1)) = i - 1 /\ ~(i <= k + 1)
            /\ ~(i <= k) /\ i # k + 1
        BY <1>1, <3>3
      <4> QED
        BY <4>1, <2>2, <2>7
    <3> QED
      BY <1>1, <3>1, <3>2, <3>3
  <2> QED
    BY <2>6, <2>8
<1> HIDE DEF s, c, x, y
<1>5. \A i \in 1..(c + 1) : s[i] = IF i <= k THEN l[i] ELSE IF i = k + 1 THEN n ELSE l[i - 1]
  BY <1>4
<1>6. \A i \in 1..c : i <= k <=> l[i] < n
  BY DEF c, Splits
<1>7. \A i \in 1..c : ~(i <= k) => l[i] > n
  BY <1>1, <1>2, <1>6 DEF ElementsOf
<1>8. \A i, j \in 1..c : i < j => l[i] < l[j]
  BY <1>1 DEF Increasing
<1>9. Increasing(s)
  <2> SUFFICES ASSUME NEW i \in 1..(c + 1), NEW j \in 1..(c + 1), i < j PROVE s[i] < s[j]
    BY <1>4 DEF Increasing
  <2>1. CASE j <= k
    BY <2>1, <1>1, <1>5, <1>8
  <2>2. CASE j = k + 1
    <3>1. i \in 1..c /\ i <= k
      BY <2>2, <1>1
    <3> QED
      BY <2>2, <3>1, <1>1, <1>5, <1>6
  <2>3. CASE j > k + 1
    <3>1. j - 1 \in 1..c /\ ~(j - 1 <= k) /\ s[j] = l[j - 1]
      BY <2>3, <1>1, <1>5
    <3>2. CASE i <= k
      <4>1. i \in 1..c /\ i < j - 1 /\ s[i] = l[i]
        BY <3>2, <2>3, <1>1, <1>5
      <4> QED
        BY <3>1, <4>1, <1>8
    <3>3. CASE i = k + 1
      BY <3>1, <3>3, <1>1, <1>5, <1>7, <1>2
    <3>4. CASE i > k + 1
      <4>1. i - 1 \in 1..c /\ i - 1 < j - 1 /\ s[i] = l[i - 1]
        BY <3>4, <1>1, <1>5
      <4> QED
        BY <3>1, <4>1, <1>8
    <3> QED
      BY <3>2, <3>3, <3>4, <1>1
  <2> QED
    BY <2>1, <2>2, <2>3, <1>1
<1>10. ElementsOf(s) = ElementsOf(l) \cup {n}
  <2>1. ASSUME NEW h, h \in ElementsOf(s) PROVE h \in ElementsOf(l) \cup {n}
    <3>1. PICK i \in 1..(c + 1) : h = s[i]
      BY <1>4, <2>1 DEF ElementsOf
    <3>2. CASE i <= k
      <4>1. i \in 1..c /\ h = l[i]
        BY <3>1, <3>2, <1>1, <1>5
      <4> QED
        BY <4>1, <1>1 DEF ElementsOf
    <3>3. CASE i = k + 1
      BY <3>1, <3>3, <1>1, <1>5
    <3>4. CASE i > k + 1
      <4>1. i - 1 \in 1..c /\ h = l[i - 1]
        BY <3>1, <3>4, <1>1, <1>5
      <4> QED
        BY <4>1, <1>1 DEF ElementsOf
    <3> QED
      BY <3>2, <3>3, <3>4, <1>1
  <2>2. n \in ElementsOf(s)
    <3>1. k + 1 \in 1..(c + 1) /\ ~(k + 1 <= k)
      BY <1>1
    <3> QED
      BY <3>1, <1>4, <1>5 DEF ElementsOf
  <2>3. ASSUME NEW i \in 1..c PROVE l[i] \in ElementsOf(s)
    <3>1. CASE i <= k
      <4>1. i \in 1..(c + 1) /\ s[i] = l[i]
        BY <3>1, <1>1, <1>5
      <4> QED
        BY <4>1, <1>4 DEF ElementsOf
    <3>2. CASE ~(i <= k)
      <4>1. i + 1 \in 1..(c + 1) /\ s[i + 1] = l[i]
        <5>1. i + 1 \in 1..(c + 1) /\ ~(i + 1 <= k) /\ i + 1 # k + 1 /\ (i + 1) - 1 = i
          BY <3>2, <1>1
        <5> QED
          BY <5>1, <1>5
      <4> QED
        BY <4>1, <1>4 DEF ElementsOf
    <3> QED
      BY <3>1, <3>2
  <2> QED
    BY <2>1, <2>2, <2>3, <1>1 DEF ElementsOf
<1> QED
  BY <1>4, <1>9, <1>10 DEF s, c

-----------------------------------------------------------------------------
(* The loop of reord_rxframes_process.                                     *)

\* The recursive definition of Advance has a solution.
LEMMA TurnsExist ==
  ASSUME NEW l \in Seq(Frames), NEW ind, NEW n \in 0..Len(l)
  PROVE  \E f : f = [k \in 0..n |-> IF k = 0 THEN [ind |-> ind, more |-> FALSE]
                                    ELSE Turn(f[k - 1], l[k])]
<1> DEFINE begin == [ind |-> ind, more |-> FALSE]
           IsRun(f, m) == f = [k \in 0..m |-> IF k = 0 THEN begin ELSE Turn(f[k - 1], l[k])]
           S == {m \in 0..Len(l) : ~\E f : IsRun(f, m)}
<1>1. Len(l) \in Nat
  OBVIOUS
<1>2. ASSUME S # {} PROVE FALSE
  <2>1. PICK x \in S : \A y \in S : x <= y
    BY <1>1, <1>2, LeastExists
  <2>2. CASE x = 0
    <3> DEFINE f == [k \in 0..0 |-> begin]
    <3>1. IsRun(f, 0)
      OBVIOUS
    <3> HIDE DEF f, IsRun
    <3> QED
      BY <2>1, <2>2, <3>1
  <2>3. CASE x # 0
    <3>1. x \in 0..Len(l) /\ x - 1 \in 0..Len(l) /\ ~(x <= x - 1)
      BY <1>1, <2>1, <2>3
    <3>2. PICK f : IsRun(f, x - 1)
      BY <2>1, <3>1
    <3> DEFINE g == [k \in 0..x |-> IF k = x THEN Turn(f[x - 1], l[x]) ELSE f[k]]
    <3>3. \A k \in 0..x : g[k] = IF k = 0 THEN begin ELSE Turn(g[k - 1], l[k])
      <4> HIDE DEF begin
      <4> SUFFICES ASSUME NEW k \in 0..x
                   PROVE  g[k] = IF k = 0 THEN begin ELSE Turn(g[k - 1], l[k])
        OBVIOUS
      <4>1. k = 0 \/ (k - 1 \in 0..x /\ k - 1 # x)
        BY <3>1
      <4>2. CASE k = x
        <5>1. k # 0 /\ g[k] = Turn(f[k - 1], l[k])
          BY <2>3, <4>2
        <5>2. g[k - 1] = f[k - 1]
          BY <4>1, <5>1
        <5> QED
          BY <5>1, <5>2
      <4>3. CASE k # x
        <5>1. k \in 0..(x - 1) /\ g[k] = f[k]
          BY <3>1, <4>3
        <5>2. f[k] = IF k = 0 THEN begin ELSE Turn(f[k - 1], l[k])
          BY <3>2, <5>1
        <5>3. k # 0 => g[k - 1] = f[k - 1]
          BY <4>1
        <5> QED
          BY <5>1, <5>2, <5>3
      <4> QED
        BY <4>2, <4>3
    <3>4. g = [k \in 0..x |-> IF k = 0 THEN begin ELSE Turn(g[k - 1], l[k])]
      <4> DEFINE b(k) == IF k = 0 THEN begin ELSE Turn(g[k - 1], l[k])
      <4>1. g = [k \in 0..x |-> g[k]]
        OBVIOUS
      <4>2. \A k \in 0..x : g[k] = b(k)
        BY <3>3
      <4> HIDE DEF g, b
      <4>3. g = [k \in 0..x |-> b(k)]
        BY <4>1, <4>2
      <4> QED
        BY <4>3 DEF b
    <3>5. IsRun(g, x)
      BY <3>4
    <3> HIDE DEF g, IsRun
    <3> QED
      BY <2>1, <3>1, <3>5
  <2> QED
    BY <2>2, <2>3
<1> HIDE DEF IsRun
<1>3. \E f : IsRun(f, n)
  BY <1>2
<1> QED
  BY <1>3 DEF IsRun

LEMMA AdvanceTurns ==
  ASSUME NEW l \in Seq(Frames), NEW ind
  PROVE  \E f : /\ f[0] = [ind |-> ind, more |-> FALSE]
                /\ \A k \in 1..Len(l) : f[k] = Turn(f[k - 1], l[k])
                /\ Advance(ind, l) = f[Len(l)]
<1> DEFINE a[k \in 0..Len(l)] ==
               IF k = 0 THEN [ind |-> ind, more |-> FALSE] ELSE Turn(a[k - 1], l[k])
<1>1. Len(l) \in Nat /\ Len(l) \in 0..Len(l)
  OBVIOUS
<1>2. \E f : f = [k \in 0..Len(l) |-> IF k = 0 THEN [ind |-> ind, more |-> FALSE]
                                      ELSE Turn(f[k - 1], l[k])]
  <2>1. \A n \in 0..Len(l) :
          \E f : f = [k \in 0..n |-> IF k = 0 THEN [ind |-> ind, more |-> FALSE]
                                     ELSE Turn(f[k - 1], l[k])]
    BY TurnsExist, Zenon
  <2> QED
    BY <1>1, <2>1, Zenon
<1>3. a = [k \in 0..Len(l) |-> IF k = 0 THEN [ind |-> ind, more |-> FALSE]
                               ELSE Turn(a[k - 1], l[k])]
  BY <1>2
<1>4. Advance(ind, l) = a[Len(l)]
  BY DEF Advance
<1> HIDE DEF a
<1>5. a[0] = [ind |-> ind, more |-> FALSE]
  BY <1>1, <1>3
<1>6. ASSUME NEW k \in 1..Len(l) PROVE a[k] = Turn(a[k - 1], l[k])
  <2>1. k \in 0..Len(l) /\ k # 0
    BY <1>1
  <2> DEFINE b(i) == IF i = 0 THEN [ind |-> ind, more |-> FALSE] ELSE Turn(a[i - 1], l[i])
  <2>2. a = [i \in 0..Len(l) |-> b(i)]
    BY <1>3
  <2> HIDE DEF b
  <2>3. a[k] = b(k)
    BY <2>1, <2>2
  <2> QED
    BY <2>1, <2>3 DEF b
<1> QED
  BY <1>4, <1>5, <1>6

\* The loop is at the number u.
IsAt(a, u) == {"ind", "more"} \subseteq DOMAIN a /\ a.ind = Sn(u)

LEMMA LoopBegins ==
  ASSUME NEW u
  PROVE  /\ IsAt([ind |-> Sn(u), more |-> FALSE], u)
         /\ [ind |-> Sn(u), more |-> FALSE].more = FALSE
  BY DEF IsAt

LEMMA TurnFields ==
  ASSUME NEW a, NEW x, {"ind", "more"} \subseteq DOMAIN a
  PROVE  /\ {"ind", "more"} \subseteq DOMAIN [a EXCEPT !.more = TRUE]
         /\ [a EXCEPT !.more = TRUE].ind = a.ind /\ [a EXCEPT !.more = TRUE].more = TRUE
         /\ {"ind", "more"} \subseteq DOMAIN [a EXCEPT !.ind = x]
         /\ [a EXCEPT !.ind = x].ind = x /\ [a EXCEPT !.ind = x].more = a.more
OBVIOUS

\* What one turn does.
Goes(a, n, u) ==
    /\ n > u => IsAt(Turn(a, n), u) /\ Turn(a, n).more = TRUE
    /\ n = u => IsAt(Turn(a, n), u + 1) /\ Turn(a, n).more = FALSE
    /\ n < u => Turn(a, n) = a

LEMMA TurnIs ==
  ASSUME NEW u \in Int, NEW n \in Int, u - n < M \div 2, n - u < M \div 2,
         NEW a, IsAt(a, u), a.more = FALSE
  PROVE  Goes(a, n, u)
<1> USE DEF Goes
<1>1. SN_LESS(Sn(u), Sn(n)) <=> u < n
  BY SnLess, Constants
<1>2. Sn(u) = Sn(n) <=> u = n
  <2>1. u - n < M /\ n - u < M
    BY Constants
  <2> QED
    BY <2>1, SnSame
<1>3. (Sn(u) + 1) % M = Sn(u + 1)
  BY SnPlus
<1>4. a.ind = Sn(u) /\ {"ind", "more"} \subseteq DOMAIN a
  BY DEF IsAt
<1>5. CASE n > u
  <2>1. SN_LESS(a.ind, Sn(n)) /\ ~(n = u) /\ ~(n < u)
    BY <1>1, <1>4, <1>5
  <2>2. Turn(a, n) = [a EXCEPT !.more = TRUE]
    BY <2>1, Zenon DEF Turn
  <2> QED
    BY <1>4, <2>1, <2>2, TurnFields, Zenon DEF IsAt
<1>6. CASE n = u
  <2>1. ~SN_LESS(a.ind, Sn(n)) /\ a.ind = Sn(n) /\ ~(n > u) /\ ~(n < u)
    BY <1>1, <1>4, <1>6
  <2> DEFINE x == (a.ind + 1) % M
  <2>2. Turn(a, n) = [a EXCEPT !.ind = x]
    BY <2>1, Zenon DEF Turn
  <2>3. x = Sn(u + 1)
    BY <1>3, <1>4
  <2> HIDE DEF x
  <2>4. IsAt(Turn(a, n), u + 1) /\ Turn(a, n).more = FALSE
    BY <1>4, <2>2, <2>3, TurnFields, Zenon DEF IsAt
  <2> QED
    BY <2>1, <2>4
<1>7. CASE n < u
  <2>1. ~SN_LESS(a.ind, Sn(n)) /\ a.ind # Sn(n) /\ ~(n > u) /\ ~(n = u)
    BY <1>1, <1>2, <1>4, <1>7
  <2> QED
    BY <1>4, <2>1, Zenon DEF Turn
<1> QED
  BY <1>5, <1>6, <1>7

\* From Sn(t) the loop goes to the end of the run of frames that starts at t,
\* and finds out whether a frame is held behind it.
LEMMA AdvanceIs ==
  ASSUME NEW l \in Seq(Frames), Increasing(l),
         NEW t \in Int, NEW lo \in Int, NEW hi \in Int,
         lo - 1 <= t, t <= hi + 1, hi + 1 - lo < M \div 2,
         \A i \in 1..Len(l) : lo <= l[i] /\ l[i] <= hi
  PROVE  \E u \in t..(hi + 1) :
            /\ Advance(Sn(t), l).ind = Sn(u)
            /\ Advance(Sn(t), l).more = \E h \in ElementsOf(l) : h > u
            /\ t..(u - 1) \subseteq ElementsOf(l) /\ u \notin ElementsOf(l)
<1> DEFINE c == Len(l)
<1>1. c \in Nat /\ DOMAIN l = 1..c /\ \A i \in 1..c : l[i] \in Int /\ lo <= l[i] /\ l[i] <= hi
  BY ListOfFrames
<1>2. PICK f : /\ f[0] = [ind |-> Sn(t), more |-> FALSE]
               /\ \A k \in 1..c : f[k] = Turn(f[k - 1], l[k])
               /\ Advance(Sn(t), l) = f[c]
  BY AdvanceTurns
<1> DEFINE Running(k, u) ==
               /\ IsAt(f[k], u) /\ f[k].more = FALSE
               /\ \A i \in 1..k : l[i] < u
           Broken(k, u) ==
               /\ IsAt(f[k], u) /\ f[k].more = TRUE
               /\ \E i \in 1..k : l[i] > u
               /\ u \notin ElementsOf(l)
           Good(k) == \E u \in t..(hi + 1) :
                          (t..(u - 1) \subseteq ElementsOf(l)) /\ (Running(k, u) \/ Broken(k, u))
           S == {k \in 0..c : ~Good(k)}
<1> HIDE DEF c
<1>3. Good(0)
  <2>1. t \in t..(hi + 1) /\ t..(t - 1) = {}
    OBVIOUS
  <2>2. Running(0, t)
    BY <1>2, LoopBegins
  <2> HIDE DEF Running, Broken
  <2> QED
    BY <2>1, <2>2
<1>4. ASSUME NEW k \in 1..c, Good(k - 1) PROVE Good(k)
  <2>1. PICK u \in t..(hi + 1) :
            (t..(u - 1) \subseteq ElementsOf(l)) /\ (Running(k - 1, u) \/ Broken(k - 1, u))
    BY <1>4
  <2>2. f[k] = Turn(f[k - 1], l[k])
    BY <1>2
  <2>3. k - 1 \in 0..c /\ u \in Int /\ l[k] \in Int /\ (\A i \in 1..(k - 1) : i \in 1..k)
        /\ k \in 1..k /\ (\A i \in 1..k : i \in 1..(k - 1) \/ i = k) /\ 1..k \subseteq 1..c
    BY <1>1
  <2>4. CASE Broken(k - 1, u)
    <3>1. f[k] = f[k - 1]
      BY <2>2, <2>4 DEF Turn
    <3>2. Broken(k, u)
      BY <2>3, <2>4, <3>1
    <3> HIDE DEF Running, Broken
    <3> QED
      BY <2>1, <3>2
  <2>5. CASE Running(k - 1, u)
    <3>1. u - l[k] < M \div 2 /\ l[k] - u < M \div 2
      BY <1>1, Constants
    <3>2. /\ l[k] > u => IsAt(f[k], u) /\ f[k].more = TRUE
          /\ l[k] = u => IsAt(f[k], u + 1) /\ f[k].more = FALSE
          /\ l[k] < u => f[k] = f[k - 1]
      <4>1. IsAt(f[k - 1], u) /\ f[k - 1].more = FALSE
        BY <2>5
      <4> HIDE DEF Running, Broken, Good
      <4> QED
        <5>2. u \in Int /\ l[k] \in Int
          BY <2>3
        <5>1. Goes(f[k - 1], l[k], u)
          BY <5>2, <3>1, <4>1, TurnIs
        <5> QED
          BY <2>2, <5>1, Zenon DEF Goes
    <3>3. \A i \in 1..(k - 1) : l[i] < u
      BY <2>5
    <3>4. CASE l[k] > u
      <4>1. ASSUME NEW i \in 1..c PROVE l[i] # u
        <5>1. CASE i \in 1..(k - 1)
          <6>1. l[i] < u /\ l[i] \in Int
            BY <1>1, <3>3, <5>1
          <6> QED
            BY <6>1, <2>3
        <5>2. CASE i = k
          BY <2>3, <3>4, <5>2
        <5>3. CASE i > k
          <6>1. l[k] < l[i] /\ l[i] \in Int
            BY <1>1, <2>3, <5>3 DEF Increasing
          <6> QED
            BY <2>3, <3>4, <6>1
        <5> QED
          BY <1>1, <5>1, <5>2, <5>3
      <4>2. u \notin ElementsOf(l)
        BY <1>1, <4>1 DEF ElementsOf
      <4>3. Broken(k, u)
        BY <2>3, <3>2, <3>4, <4>2
      <4> HIDE DEF Running, Broken
      <4> QED
        BY <2>1, <4>3
    <3>5. CASE l[k] = u
      <4>1. u \in ElementsOf(l) /\ u <= hi
        BY <1>1, <2>3, <3>5 DEF ElementsOf
      <4>2. u + 1 \in t..(hi + 1) /\ \A j \in t..((u + 1) - 1) : j = u \/ j \in t..(u - 1)
        BY <2>3, <4>1
      <4>3. t..((u + 1) - 1) \subseteq ElementsOf(l)
        BY <2>1, <4>1, <4>2
      <4>4. \A i \in 1..k : l[i] < u + 1
        <5> SUFFICES ASSUME NEW i \in 1..k PROVE l[i] < u + 1
          OBVIOUS
        <5>1. l[i] \in Int /\ (l[i] < u \/ l[i] = u)
          BY <1>1, <2>3, <3>3, <3>5
        <5> QED
          BY <2>3, <5>1
      <4>5. Running(k, u + 1)
        BY <3>2, <3>5, <4>4
      <4> HIDE DEF Running, Broken
      <4> QED
        BY <4>2, <4>3, <4>5
    <3>6. CASE l[k] < u
      <4>1. Running(k, u)
        BY <2>3, <2>5, <3>2, <3>3, <3>6
      <4> HIDE DEF Running, Broken
      <4> QED
        BY <2>1, <4>1
    <3>7. l[k] > u \/ l[k] = u \/ l[k] < u
      BY <2>3
    <3> HIDE DEF Good
    <3> QED
      BY <3>4, <3>5, <3>6, <3>7
  <2> QED
    BY <2>1, <2>4, <2>5
<1> HIDE DEF Good
<1>5. Good(c)
  <2>1. ASSUME S # {} PROVE FALSE
    <3>1. PICK x \in S : \A y \in S : x <= y
      BY <1>1, <2>1, LeastExists
    <3>2. x # 0
      BY <1>3, <3>1
    <3>3. x \in 1..c /\ x - 1 \in 0..c /\ ~(x <= x - 1)
      BY <1>1, <3>1, <3>2
    <3>4. Good(x - 1)
      BY <3>1, <3>3
    <3> QED
      BY <1>4, <3>1, <3>3, <3>4
  <2> QED
    BY <1>1, <2>1
<1>6. PICK u \in t..(hi + 1) :
          (t..(u - 1) \subseteq ElementsOf(l)) /\ (Running(c, u) \/ Broken(c, u))
  BY <1>5 DEF Good
<1>7. CASE Running(c, u)
  <2>1. \A h \in ElementsOf(l) : h \in Int /\ h < u
    BY <1>1, <1>7 DEF ElementsOf
  <2>2. u \in Int
    OBVIOUS
  <2>3. u \notin ElementsOf(l) /\ ~\E h \in ElementsOf(l) : h > u
    BY <2>1, <2>2
  <2>4. Advance(Sn(t), l).ind = Sn(u) /\ Advance(Sn(t), l).more = FALSE
    BY <1>2, <1>7 DEF IsAt
  <2> QED
    BY <1>6, <2>3, <2>4
<1>8. CASE Broken(c, u)
  <2>1. u \notin ElementsOf(l) /\ \E h \in ElementsOf(l) : h > u
    BY <1>1, <1>8 DEF ElementsOf
  <2>2. Advance(Sn(t), l).ind = Sn(u) /\ Advance(Sn(t), l).more = TRUE
    BY <1>2, <1>8 DEF IsAt
  <2> QED
    BY <1>6, <2>1, <2>2
<1> QED
  BY <1>6, <1>7, <1>8

-----------------------------------------------------------------------------
(* What the operations do, in true numbers.                                *)

\* Where the window begins when frame n arrives and frame t is next.
StartFor(t, n) ==
    IF n = t THEN t + 1 ELSE IF n > t + W - 1 THEN n - W + 1 ELSE t

\* reord_need_check tells late frames from others and moves the window on.
LEMMA CheckIs ==
  ASSUME NEW t \in Int, NEW n \in Int, t - n < M \div 2, n - t < M \div 2
  PROVE  /\ NeedCheck(Sn(t), Sn(n)).late <=> n < t
         /\ n < t => NeedCheck(Sn(t), Sn(n)).ind = Sn(t)
         /\ n >= t => NeedCheck(Sn(t), Sn(n)).ind = Sn(StartFor(t, n))
<1> DEFINE r == NeedCheck(Sn(t), Sn(n))
<1>1. Sn(t) # NoSn
  BY SnIs
<1>2. SN_LESS(Sn(n), Sn(t)) <=> n < t
  BY SnLess, Constants
<1>3. Sn(n) = Sn(t) <=> n = t
  <2>1. n - t < M /\ t - n < M
    BY Constants
  <2> QED
    BY <2>1, SnSame
<1>4. (Sn(t) + 1) % M = Sn(t + 1)
  BY SnPlus
<1>5. (Sn(t) + W - 1) % M = Sn(t + W - 1)
  <2>1. Sn(t) \in Int /\ W \in Int
    BY SnIs, Constants
  <2>2. W - 1 \in Int
    BY <2>1
  <2>3. (Sn(t) + (W - 1)) % M = Sn(t + (W - 1))
    BY <2>2, SnPlus
  <2>4. Sn(t) + W - 1 = Sn(t) + (W - 1) /\ t + W - 1 = t + (W - 1)
    BY <2>1
  <2> QED
    BY <2>3, <2>4
<1>6. n > t => (SN_LESS(Sn(t + W - 1), Sn(n)) <=> t + W - 1 < n)
  <2> SUFFICES ASSUME n > t PROVE SN_LESS(Sn(t + W - 1), Sn(n)) <=> t + W - 1 < n
    OBVIOUS
  <2>1. t + W - 1 \in Int /\ (t + W - 1) - n < M \div 2 /\ n - (t + W - 1) <= M \div 2
    BY Constants
  <2> QED
    BY <2>1, SnLess
<1>7. WindowStart(Sn(n)) = Sn(n - W + 1)
  BY WindowStartIs
<1>8. r.late = SN_LESS(Sn(n), Sn(t))
  BY <1>1 DEF NeedCheck
<1>9. r.ind = IF SN_LESS(Sn(n), Sn(t)) THEN Sn(t)
              ELSE IF Sn(n) = Sn(t) THEN Sn(t + 1)
              ELSE IF SN_LESS(Sn(t + W - 1), Sn(n)) THEN Sn(n - W + 1)
              ELSE Sn(t)
  BY <1>1, <1>4, <1>5, <1>7 DEF NeedCheck
<1> HIDE DEF r
<1>10. CASE n < t
  <2>1. ~(n >= t)
    BY <1>10
  <2> QED
    BY <1>2, <1>8, <1>9, <1>10, <2>1 DEF r
<1>11. CASE n = t
  <2>1. ~(n < t)
    BY <1>11
  <2> QED
    BY <1>2, <1>3, <1>8, <1>9, <1>11, <2>1 DEF r, StartFor
<1>12. CASE n > t
  <2>1. ~(n < t) /\ n # t
    BY <1>12
  <2>2. n > t + W - 1 <=> t + W - 1 < n
    BY Constants
  <2> QED
    BY <1>2, <1>3, <1>6, <1>8, <1>9, <1>12, <2>1, <2>2 DEF r, StartFor
<1> QED
  BY <1>10, <1>11, <1>12

\* The first frame of a window is in its turn.
LEMMA CheckFirst ==
  ASSUME NEW n \in Int
  PROVE  /\ ~NeedCheck(NoSn, Sn(n)).late
         /\ NeedCheck(NoSn, Sn(n)).ind = Sn(n + 1)
<1>1. ~SN_LESS(Sn(n), Sn(n))
  <2>1. n - n < M \div 2 /\ n - n <= M \div 2 /\ ~(n < n)
    BY Constants
  <2> QED
    BY <2>1, SnLess
<1>2. (Sn(n) + 1) % M = Sn(n + 1)
  BY SnPlus
<1> QED
  BY <1>1, <1>2 DEF NeedCheck

\* reord_rxframe_enqueue finds the place of a frame, and its duplicate.
LEMMA PlaceIs ==
  ASSUME NEW l \in Seq(Frames), Increasing(l), NEW n \in Frames,
         \A i \in 1..Len(l) : l[i] - n < M \div 2 /\ n - l[i] < M \div 2
  PROVE  /\ Splits(l, Place(l, n), n)
         /\ IsDuplicate(l, n) <=> n \in ElementsOf(l)
<1> DEFINE S == {m \in Frames : SN_LESS(Sn(m), Sn(n))}
           k == Place(l, n)
<1>1. Len(l) \in Nat /\ DOMAIN l = 1..Len(l)
      /\ (\A i \in 1..Len(l) : l[i] \in Frames /\ l[i] \in Int) /\ n \in Int
  BY ListOfFrames, FramesAreInts
<1>2. k = PrefixIn(l, S)
  BY DEF Place, Frames
<1>3. \A i \in 1..Len(l) : l[i] \in S <=> l[i] < n
  <2> SUFFICES ASSUME NEW i \in 1..Len(l) PROVE l[i] \in S <=> l[i] < n
    OBVIOUS
  <2>1. l[i] \in Int /\ l[i] \in Frames /\ l[i] - n < M \div 2 /\ n - l[i] <= M \div 2
    BY <1>1, Constants
  <2>2. SN_LESS(Sn(l[i]), Sn(n)) <=> l[i] < n
    BY <1>1, <2>1, SnLess
  <2> QED
    BY <2>1, <2>2
<1> HIDE DEF S
<1>4. k \in 0..Len(l)
  BY <1>2, PrefixInIs
<1>12. Splits(l, k, n)
  BY <1>1, <1>2, <1>3, PrefixBelow
<1>5. \A i \in 1..Len(l) : i <= k <=> l[i] < n
  BY <1>12 DEF Splits
<1> HIDE DEF k
<1>6. ASSUME NEW i \in 1..Len(l) PROVE Sn(l[i]) = Sn(n) <=> l[i] = n
  <2>1. l[i] \in Int /\ l[i] - n < M /\ n - l[i] < M
    BY <1>1, Constants
  <2> QED
    BY <1>1, <2>1, SnSame
<1>7. IsDuplicate(l, n) <=> k < Len(l) /\ Sn(l[k + 1]) = Sn(n)
  BY DEF IsDuplicate, k
<1>8. k < Len(l) => k + 1 \in 1..Len(l)
  BY <1>1, <1>4
<1>9. IsDuplicate(l, n) => n \in ElementsOf(l)
  BY <1>1, <1>6, <1>7, <1>8 DEF ElementsOf
<1>10. ASSUME n \in ElementsOf(l) PROVE IsDuplicate(l, n)
  <2>1. PICK i \in 1..Len(l) : l[i] = n
    BY <1>1, <1>10 DEF ElementsOf
  <2>2. ~(i <= k)
    BY <1>1, <1>5, <2>1
  <2>3. k < Len(l) /\ k + 1 <= i
    BY <1>1, <1>4, <2>2
  <2>4. ~(l[k + 1] < n)
    BY <1>4, <1>5, <1>8, <2>3
  <2>5. k + 1 = i \/ l[k + 1] < l[i]
    <3>1. k + 1 = i \/ k + 1 < i
      BY <1>4, <2>3
    <3> QED
      BY <1>1, <1>8, <2>3, <3>1 DEF Increasing
  <2>6. l[k + 1] = n
    BY <2>1, <2>4, <2>5
  <2> QED
    BY <1>7, <2>3, <2>6
<1> QED
  BY <1>9, <1>10, <1>12 DEF k

\* The list is cut in two as Indicate cuts it.
Halves(ind, l, now, rest) ==
    LET k == PrefixIn(l, Passed(ind))
    IN  now = SubSeq(l, 1, k) /\ rest = SubSeq(l, k + 1, Len(l))

\* The loop and reord_rxframes_ind: from Sn(t), the run of frames at t and what
\* comes before it is delivered; "more" says whether anything is left.
Near(l, t, lo, hi) ==
    /\ l \in Seq(Frames) /\ Increasing(l)
    /\ t \in Int /\ lo \in Int /\ hi \in Int
    /\ lo - 1 <= t /\ t <= hi + 1 /\ hi + 1 - lo < M \div 2
    /\ \A i \in 1..Len(l) : lo <= l[i] /\ l[i] <= hi

Delivered(l, t, hi, u, now, rest) ==
    /\ u \in t..(hi + 1)
    /\ Advance(Sn(t), l).ind = Sn(u) /\ Advance(Sn(t), l).more = (rest # <<>>)
    /\ t..(u - 1) \subseteq ElementsOf(l) /\ u \notin ElementsOf(l)
    /\ now \in Seq(Frames) /\ Increasing(now)
    /\ ElementsOf(now) = {h \in ElementsOf(l) : h < u}
    /\ rest \in Seq(Frames) /\ Increasing(rest)
    /\ ElementsOf(rest) = {h \in ElementsOf(l) : h >= u}
    /\ Len(now) + Len(rest) = Len(l)

LEMMA Deliver ==
  ASSUME NEW l, NEW t, NEW lo, NEW hi, Near(l, t, lo, hi),
         NEW now, NEW rest, Halves(Advance(Sn(t), l).ind, l, now, rest)
  PROVE  \E u : Delivered(l, t, hi, u, now, rest)
<1> DEFINE a == Advance(Sn(t), l)
<1>0. /\ l \in Seq(Frames) /\ Increasing(l)
      /\ t \in Int /\ lo \in Int /\ hi \in Int
      /\ lo - 1 <= t /\ t <= hi + 1 /\ hi + 1 - lo < M \div 2
      /\ \A i \in 1..Len(l) : lo <= l[i] /\ l[i] <= hi
  BY DEF Near
<1>1. Len(l) \in Nat /\ DOMAIN l = 1..Len(l)
      /\ \A i \in 1..Len(l) : l[i] \in Frames /\ l[i] \in Int
  BY <1>0, ListOfFrames
<1>2. PICK u \in t..(hi + 1) :
            /\ a.ind = Sn(u)
            /\ a.more = \E h \in ElementsOf(l) : h > u
            /\ t..(u - 1) \subseteq ElementsOf(l) /\ u \notin ElementsOf(l)
  BY <1>0, AdvanceIs
<1>3. \A i \in 1..Len(l) : l[i] \in Passed(Sn(u)) <=> l[i] < u
  <2> SUFFICES ASSUME NEW i \in 1..Len(l) PROVE l[i] \in Passed(Sn(u)) <=> l[i] < u
    OBVIOUS
  <2>1. l[i] \in Int /\ l[i] \in Frames /\ u \in Int
        /\ u - l[i] < M \div 2 /\ l[i] - u <= M \div 2
    BY <1>0, <1>1, Constants
  <2>2. SN_LESS(Sn(u), Sn(l[i])) <=> u < l[i]
    BY <2>1, SnLess
  <2>3. l[i] # u
    BY <1>1, <1>2 DEF ElementsOf
  <2>4. l[i] < u <=> ~(u < l[i])
    BY <2>1, <2>3
  <2> QED
    BY <2>1, <2>2, <2>4 DEF Passed, Frames
<1> DEFINE k == PrefixIn(l, Passed(Sn(u)))
<1>5. u \in Int
  BY <1>0
<1>9. Splits(l, k, u)
  BY <1>0, <1>2, <1>3, <1>5, PrefixBelow
<1>4. k \in 0..Len(l)
  BY <1>9 DEF Splits
<1>10. now = SubSeq(l, 1, k) /\ rest = SubSeq(l, k + 1, Len(l))
  BY <1>2 DEF Halves
<1> HIDE DEF k
<1>6. /\ now \in Seq(Frames) /\ Increasing(now) /\ Len(now) = k
      /\ ElementsOf(now) = {h \in ElementsOf(l) : h < u}
      /\ rest \in Seq(Frames) /\ Increasing(rest) /\ Len(rest) = Len(l) - k
      /\ ElementsOf(rest) = {h \in ElementsOf(l) : h >= u}
  <2>1. /\ SubSeq(l, 1, k) \in Seq(Frames) /\ Increasing(SubSeq(l, 1, k))
        /\ Len(SubSeq(l, 1, k)) = k
        /\ ElementsOf(SubSeq(l, 1, k)) = {h \in ElementsOf(l) : h < u}
    BY <1>0, <1>5, <1>9, Cut
  <2>2. /\ SubSeq(l, k + 1, Len(l)) \in Seq(Frames)
        /\ Increasing(SubSeq(l, k + 1, Len(l)))
        /\ Len(SubSeq(l, k + 1, Len(l))) = Len(l) - k
        /\ ElementsOf(SubSeq(l, k + 1, Len(l))) = {h \in ElementsOf(l) : h >= u}
    BY <1>0, <1>5, <1>9, Cut
  <2> QED
    BY <1>10, <2>1, <2>2, Zenon
<1>7. Len(now) + Len(rest) = Len(l)
  <2>1. k + (Len(l) - k) = Len(l)
    BY <1>1, <1>4
  <2> QED
    BY <1>6, <2>1, Zenon
<1>8. a.more = (rest # <<>>)
  <2>1. \A h \in ElementsOf(l) : h \in Int
    BY <1>1 DEF ElementsOf
  <2>2. (\E h \in ElementsOf(l) : h > u) <=> ElementsOf(rest) # {}
    <3>1. \A h \in ElementsOf(l) : h > u <=> h >= u
      <4> SUFFICES ASSUME NEW h \in ElementsOf(l) PROVE h > u <=> h >= u
        OBVIOUS
      <4>1. h \in Int /\ h # u
        BY <1>2, <2>1
      <4> QED
        BY <1>5, <4>1
    <3> QED
      BY <1>6, <3>1
  <2>3. ElementsOf(rest) # {} <=> rest # <<>>
    <3>1. DOMAIN rest = 1..Len(rest) /\ Len(rest) \in Nat
      BY <1>6
    <3>2. rest # <<>> => 1 \in DOMAIN rest
      BY <1>6, <3>1
    <3>3. rest = <<>> => DOMAIN rest = {}
      <4>1. DOMAIN <<>> = {}
        OBVIOUS
      <4> QED
        BY <4>1, Zenon
    <3> QED
      BY <3>2, <3>3 DEF ElementsOf
  <2> QED
    BY <1>2, <2>2, <2>3
<1>11. Delivered(l, t, hi, u, now, rest)
  BY <1>2, <1>6, <1>7, <1>8, Zenon DEF Delivered
<1> QED
  BY <1>11

-----------------------------------------------------------------------------
(* The inductive invariant.                                                *)

\* The furthest that the frame whose turn it is lies behind the last frame.
Back == IF W >= SendWin THEN W ELSE SendWin

\* The window is in use.
On == enable /\ ind_sn # NoSn

\* How far the frames on the air and the frame in hand are from the last frame.
SenderInv ==
    /\ top < sent /\ sent <= top + Burst + 1
    /\ \A n \in air : sent - SendWin <= n /\ n < sent
    /\ pc # "idle" => top + 1 - SendWin <= cur /\ cur < sent

\* ind_sn is near the last frame, so it is known which frame it stands for.
AnchorInv ==
    On => /\ ind_sn = Sn(TrueNext)
          /\ 0 <= TrueNext /\ top + 1 - Back <= TrueNext /\ TrueNext <= top + 1

\* The list is in order, and within the window.
ListInv ==
    /\ Increasing(list)
    /\ \A n \in Listed : On /\ TrueNext < n /\ n < TrueNext + W /\ n <= top

\* The flush leaves no window; who looks at the window has found one.
ControlInv ==
    /\ pc = "unit" => enable
    /\ pc \in {"untimer", "unwork", "direct"} => ~enable

\* What is owned of the pool; frames turned away make it less.
PoolInv == Owned <= Pool

IndInv ==
    /\ TypeOK /\ SenderInv /\ AnchorInv /\ ListInv /\ ControlInv
    /\ HeldIsTimed /\ PoolInv

LEMMA BackIs == Back \in Nat \ {0} /\ W <= Back /\ SendWin <= Back /\ Burst + Back <= M \div 2
  BY Constants DEF Back

\* The number found from the last frame p and Sn(t) is t.
LEMMA Anchor ==
  ASSUME NEW p \in Int, NEW t \in Int, p + 1 - t >= 0, p + 1 - t < M
  PROVE  p + 1 - ((Sn(p + 1) - Sn(t)) % M) = t
<1>1. (Sn(p + 1) - Sn(t)) % M = ((p + 1) - t) % M
  BY SnMinus
<1>2. M \in Nat \ {0} /\ (p + 1) - t \in 0..(M - 1) /\ M * 0 + ((p + 1) - t) = (p + 1) - t
  BY Constants
<1>3. (M * 0 + ((p + 1) - t)) % M = (p + 1) - t
  BY <1>2, ModUnique
<1> QED
  BY <1>1, <1>2, <1>3

LEMMA TrueNextIs ==
  ASSUME TypeOK
  PROVE  /\ TrueNext \in Int
         /\ ~On => TrueNext = -1
<1>1. top \in Int /\ On => ind_sn \in Int
  BY DEF TypeOK, On
<1>2. TrueNext = IF On THEN top + 1 - ((Sn(top + 1) - ind_sn) % M) ELSE -1
  BY DEF TrueNext, On
<1>3. On => (Sn(top + 1) - ind_sn) % M \in Int
  <2> SUFFICES ASSUME On PROVE (Sn(top + 1) - ind_sn) % M \in Int
    OBVIOUS
  <2>1. top + 1 \in Int /\ ind_sn \in Int
    BY DEF TypeOK, On
  <2>2. Sn(top + 1) \in Int
    BY <2>1, SnIs
  <2>3. Sn(top + 1) - ind_sn \in Int /\ M \in Nat \ {0}
    BY <2>1, <2>2, Constants
  <2> QED
    BY <2>3, DivMod
<1>4. top \in Int
  BY DEF TypeOK
<1> QED
  BY <1>2, <1>3, <1>4

\* The invariant holds initially.
LEMMA InitIndInv == Init => IndInv
<1> SUFFICES ASSUME Init PROVE IndInv
  OBVIOUS
<1> USE DEF Init
<1>1. TypeOK
  <2>1. enable \in BOOLEAN /\ timer \in BOOLEAN
    BY Zenon
  <2>2. list \in Seq(0..(N - 1)) /\ out \in Seq(0..(N - 1))
    OBVIOUS
  <2>3. sent \in 0..N /\ air \subseteq 0..(N - 1) /\ top \in -1..(N - 1)
        /\ free \in 0..Pool /\ cur \in 0..(N - 1)
    BY Constants
  <2>4. /\ ind_sn \in 0..(M - 1) \cup {NoSn}
        /\ work \in {"none", "queued", "running", "requeued"}
        /\ pc \in {"idle", "lookup", "unit", "untimer", "unwork", "direct"}
    OBVIOUS
  <2> QED
    BY <2>1, <2>2, <2>3, <2>4 DEF TypeOK
<1>2. SenderInv /\ ControlInv
  BY Constants DEF SenderInv, ControlInv
<1>3. ~On /\ Listed = {} /\ Increasing(list)
  BY DEF On, Listed, Increasing
<1>4. AnchorInv /\ ListInv
  BY <1>3 DEF AnchorInv, ListInv
<1>5. HeldIsTimed /\ PoolInv
  BY Constants DEF HeldIsTimed, PoolInv, Owned
<1> QED
  BY <1>1, <1>2, <1>4, <1>5 DEF IndInv

\* What holds of the window as long as nobody touches it.
LEMMA WindowKept ==
  ASSUME AnchorInv, ListInv, UNCHANGED <<top, enable, ind_sn, list>>
  PROVE  AnchorInv' /\ ListInv' /\ TrueNext' = TrueNext /\ Listed' = Listed
<1>1. TrueNext' = TrueNext /\ Listed' = Listed /\ On' = On
  BY DEF TrueNext, Listed, On
<1> QED
  BY <1>1 DEF AnchorInv, ListInv, Increasing

\* Steps of the sender and of the air.
LEMMA SendKeeps == IndInv /\ Send => IndInv'
<1> SUFFICES ASSUME IndInv, Send PROVE IndInv'
  OBVIOUS
<1> USE DEF IndInv, Send
<1>1. TypeOK'
  BY Constants DEF TypeOK
<1>2. SenderInv'
  <2>1. sent \in Int /\ air \subseteq Int /\ cur \in Int /\ top \in Int
    BY DEF TypeOK
  <2> QED
    BY <2>1, Constants DEF SenderInv
<1>3. AnchorInv' /\ ListInv'
  BY WindowKept
<1>4. ControlInv' /\ HeldIsTimed' /\ PoolInv'
  BY DEF ControlInv, HeldIsTimed, PoolInv, Owned
<1> QED
  BY <1>1, <1>2, <1>3, <1>4

LEMMA LoseKeeps == IndInv /\ Lose => IndInv'
<1> SUFFICES ASSUME IndInv, Lose PROVE IndInv'
  OBVIOUS
<1> USE DEF IndInv, Lose
<1>1. TypeOK'
  BY DEF TypeOK
<1>2. SenderInv'
  BY DEF SenderInv
<1>3. AnchorInv' /\ ListInv'
  BY WindowKept
<1>4. ControlInv' /\ HeldIsTimed' /\ PoolInv'
  BY DEF ControlInv, HeldIsTimed, PoolInv, Owned
<1> QED
  BY <1>1, <1>2, <1>3, <1>4

\* The thread takes a frame off the air.
LEMMA AllocKeeps == IndInv /\ Alloc => IndInv'
<1> SUFFICES ASSUME IndInv, Alloc PROVE IndInv'
  OBVIOUS
<1> USE DEF IndInv, Alloc, envVars
<1>1. TypeOK'
  BY Constants DEF TypeOK
<1>2. SenderInv'
  <2>1. sent \in Int /\ cur' \in Int /\ top \in Int
    BY DEF TypeOK
  <2>2. sent - SendWin <= cur' /\ cur' < sent /\ top < sent
    BY DEF SenderInv
  <2>3. top + 1 - SendWin <= cur'
    BY <2>1, <2>2, Constants
  <2>4. UNCHANGED <<top, sent, air>>
    OBVIOUS
  <2> QED
    BY <2>2, <2>3, <2>4 DEF SenderInv
<1>3. AnchorInv' /\ ListInv'
  BY WindowKept
<1>4. ControlInv' /\ HeldIsTimed'
  BY DEF ControlInv, HeldIsTimed
<1>5. PoolInv'
  <2>1. free \in Nat /\ Len(list) \in Nat
    BY DEF TypeOK
  <2> QED
    BY <2>1, Constants DEF PoolInv, Owned
<1> QED
  BY <1>1, <1>2, <1>3, <1>4, <1>5

\* The flushes, the timer and the start of the work.
LEMMA LookupKeeps == IndInv /\ Lookup => IndInv'
<1> SUFFICES ASSUME IndInv, Lookup PROVE IndInv'
  OBVIOUS
<1> USE DEF IndInv, Lookup, envVars
<1>1. TypeOK'
  BY DEF TypeOK
<1>2. SenderInv'
  BY DEF SenderInv
<1>3. AnchorInv' /\ ListInv'
  <2>1. CASE enable
    <3>1. enable' = enable
      BY <2>1 DEF TypeOK
    <3>2. UNCHANGED <<top, enable, ind_sn, list>>
      BY <2>1, <3>1
    <3> QED
      BY <3>2, WindowKept
  <2>2. CASE ~enable
    <3>1. ~On' /\ Listed = {} /\ Listed' = Listed
      BY <2>2 DEF On, ListInv, Listed
    <3> QED
      BY <3>1 DEF AnchorInv, ListInv, Increasing
  <2> QED
    BY <2>1, <2>2
<1>4. ControlInv' /\ HeldIsTimed' /\ PoolInv'
  BY DEF ControlInv, HeldIsTimed, PoolInv, Owned
<1> QED
  BY <1>1, <1>2, <1>3, <1>4

\* A frame turned away leaves the window alone and takes its recv_msdu with it.
LEMMA TurnAwayKeeps == IndInv /\ TurnAway => IndInv'
<1> SUFFICES ASSUME IndInv, TurnAway PROVE IndInv'
  OBVIOUS
<1> USE DEF IndInv, TurnAway, envVars
<1>1. TypeOK'
  BY DEF TypeOK
<1>2. SenderInv'
  BY DEF SenderInv
<1>3. AnchorInv' /\ ListInv'
  BY WindowKept
<1>4. ControlInv' /\ HeldIsTimed'
  BY DEF ControlInv, HeldIsTimed
<1>5. PoolInv'
  <2>1. free \in Nat /\ Len(list) \in Nat
    BY DEF TypeOK
  <2> QED
    BY <2>1, Constants DEF PoolInv, Owned
<1> QED
  BY <1>1, <1>2, <1>3, <1>4, <1>5

LEMMA FlushTidKeeps == IndInv /\ FlushTid => IndInv'
<1> SUFFICES ASSUME IndInv, FlushTid PROVE IndInv'
  OBVIOUS
<1> USE DEF IndInv, FlushTid, envVars
<1>1. free \in Nat /\ Len(list) \in Nat /\ list \in Seq(0..(N - 1))
      /\ sent \in Int /\ cur' \in 0..(N - 1) /\ top \in Int
  BY DEF TypeOK
<1>2. free + Len(list) <= Pool /\ Len(<<>>) = 0 /\ <<>> \in Seq(0..(N - 1))
  BY <1>1 DEF PoolInv, Owned
<1>3. SenderInv'
  <2>2. sent - SendWin <= cur' /\ cur' < sent /\ top < sent
    BY DEF SenderInv
  <2>3. top + 1 - SendWin <= cur'
    BY <1>1, <2>2, Constants
  <2>4. UNCHANGED <<top, sent, air>>
    OBVIOUS
  <2> QED
    BY <2>2, <2>3, <2>4 DEF SenderInv
<1>4. CASE enable
  <2>1. /\ out' = list /\ list' = <<>> /\ free' = free + Len(list)
        /\ enable' = FALSE /\ pc' = "untimer"
    BY <1>4
  <2>2. TypeOK'
    <3>1. free' \in 0..Pool /\ out' \in Seq(0..(N - 1)) /\ list' \in Seq(0..(N - 1))
      BY <1>1, <1>2, <2>1, Constants
    <3>2. enable' \in BOOLEAN
      BY <2>1, Zenon
    <3> QED
      BY <1>1, <2>1, <3>1, <3>2 DEF TypeOK
  <2>3. ~On' /\ Listed' = {} /\ Increasing(list')
    BY <2>1 DEF On, Listed, Increasing
  <2>4. AnchorInv' /\ ListInv'
    BY <2>3 DEF AnchorInv, ListInv
  <2>5. ControlInv' /\ HeldIsTimed'
    BY <2>1 DEF ControlInv, HeldIsTimed
  <2>6. PoolInv'
    BY <1>1, <1>2, <2>1 DEF PoolInv, Owned
  <2> QED
    BY <1>3, <2>2, <2>4, <2>5, <2>6
<1>5. CASE ~enable
  <2>1. out' = <<>> /\ pc' = "direct" /\ UNCHANGED <<list, free, enable>>
    BY <1>5
  <2>2. TypeOK'
    BY <1>1, <1>2, <2>1 DEF TypeOK
  <2>3. AnchorInv' /\ ListInv'
    BY <2>1, WindowKept
  <2>4. ControlInv' /\ HeldIsTimed' /\ PoolInv'
    BY <1>5, <2>1 DEF ControlInv, HeldIsTimed, PoolInv, Owned
  <2> QED
    BY <1>3, <2>2, <2>3, <2>4
<1> QED
  BY <1>4, <1>5

LEMMA TimerAndWorkKeep ==
  ASSUME IndInv, FlushTimer \/ FlushWork \/ TimerFires \/ WorkStarts
  PROVE  IndInv'
<1> USE DEF IndInv, envVars
<1>1. UNCHANGED <<sent, air, top, enable, ind_sn, list, free, cur>> /\ out' = <<>>
  BY DEF FlushTimer, FlushWork, TimerFires, WorkStarts
<1>2. /\ timer' \in BOOLEAN /\ work' \in {"none", "queued", "running", "requeued"}
      /\ pc' \in {"idle", "lookup", "unit", "untimer", "unwork", "direct"}
  BY DEF TypeOK, FlushTimer, FlushWork, TimerFires, WorkStarts
<1>3. <<>> \in Seq(0..(N - 1))
  OBVIOUS
<1>4. TypeOK'
  BY <1>1, <1>2, <1>3 DEF TypeOK
<1>5. pc' = pc \/ (pc \in {"untimer", "unwork"} /\ pc' \in {"unwork", "direct"})
  BY DEF FlushTimer, FlushWork, TimerFires, WorkStarts
<1>6. SenderInv'
  BY <1>1, <1>5 DEF SenderInv
<1>7. AnchorInv' /\ ListInv'
  BY <1>1, WindowKept
<1>8. ControlInv' /\ PoolInv'
  BY <1>1, <1>5 DEF ControlInv, PoolInv, Owned
<1>9. HeldIsTimed'
  <2>1. CASE list = <<>>
    BY <1>1, <2>1 DEF HeldIsTimed
  <2>2. CASE list # <<>>
    <3>1. 1 \in DOMAIN list
      BY <2>2 DEF TypeOK
    <3>2. enable /\ (timer \/ work # "none")
      BY <2>2, <3>1 DEF ListInv, Listed, On, HeldIsTimed
    <3>3. TimerFires \/ WorkStarts
      BY <3>2 DEF ControlInv, FlushTimer, FlushWork
    <3> QED
      BY <3>2, <3>3 DEF HeldIsTimed, TimerFires, WorkStarts, TypeOK
  <2> QED
    BY <2>1, <2>2
<1> QED
  BY <1>4, <1>6, <1>7, <1>8, <1>9

\* A frame that does not go through the window.
LEMMA DirectKeeps == IndInv /\ Direct => IndInv'
<1> SUFFICES ASSUME IndInv, Direct PROVE IndInv'
  OBVIOUS
<1> USE DEF IndInv, Direct, envVars
<1>1. ~enable /\ ~On /\ Listed = {} /\ ~On' /\ Listed' = Listed
  BY DEF ControlInv, On, ListInv, Listed
<1>2. /\ cur \in 0..(N - 1) /\ cur \in Int /\ top \in Int /\ sent \in Int
      /\ top + 1 - SendWin <= cur /\ cur < sent /\ top < sent /\ sent <= top + Burst + 1
  BY DEF TypeOK, SenderInv
<1>3. TypeOK'
  <2>1. out' \in Seq(0..(N - 1))
    BY <1>2
  <2>2. top' \in -1..(N - 1)
    BY <1>2 DEF TypeOK
  <2> QED
    BY <2>1, <2>2 DEF TypeOK
<1>4. SenderInv'
  <2>1. top' < sent /\ sent <= top' + Burst + 1
    BY <1>2, Constants
  <2> QED
    BY <2>1 DEF SenderInv
<1>5. AnchorInv' /\ ListInv'
  BY <1>1 DEF AnchorInv, ListInv, Increasing
<1>6. ControlInv' /\ HeldIsTimed' /\ PoolInv'
  BY DEF ControlInv, HeldIsTimed, PoolInv, Owned
<1> QED
  BY <1>3, <1>4, <1>5, <1>6

-----------------------------------------------------------------------------
(* The window when the thread looks at it with a frame in hand.            *)

\* The frame whose turn it is; the frame in hand begins a new window.
Turning == IF On THEN TrueNext ELSE cur

LEMMA TypesOfWindow ==
  ASSUME IndInv
  PROVE  /\ top \in Int /\ cur \in Int /\ cur \in Frames /\ sent \in Int
         /\ list \in Seq(Frames) /\ Increasing(list) /\ Listed = ElementsOf(list)
         /\ Listed \subseteq Frames /\ Listed \subseteq Int
         /\ DOMAIN list = 1..Len(list) /\ Len(list) \in Nat /\ free \in Int
         /\ TrueNext \in Int
<1>1. list \in Seq(Frames) /\ cur \in Frames
  BY DEF IndInv, TypeOK, Frames
<1>2. Listed = ElementsOf(list)
  BY DEF Listed, ElementsOf
<1>3. /\ DOMAIN list = 1..Len(list) /\ Len(list) \in Nat
      /\ (\A i \in 1..Len(list) : list[i] \in Frames) /\ cur \in Int
  BY <1>1, ListOfFrames, FramesAreInts
<1>4. Listed \subseteq Frames /\ Listed \subseteq Int
  BY <1>2, <1>3, FramesAreInts DEF ElementsOf
<1>5. top \in Int /\ sent \in Int /\ free \in Int
  BY DEF IndInv, TypeOK
<1>6. TrueNext \in Int /\ Increasing(list)
  BY TrueNextIs DEF IndInv, ListInv
<1> QED
  BY <1>1, <1>2, <1>3, <1>4, <1>5, <1>6

LEMMA UnitSetting ==
  ASSUME IndInv, pc = "unit"
  PROVE  /\ Turning \in Nat
         /\ Turning <= top + 1 \/ Turning = cur
         /\ \A n \in Listed : On /\ Turning < n /\ n < Turning + W /\ n <= top
         /\ Turning - cur < M \div 2 /\ cur - Turning < M \div 2
         /\ Check.late <=> cur < Turning
         /\ cur < Turning => Check.ind = ind_sn /\ cur <= top /\ On
         /\ cur >= Turning => Check.ind = Sn(StartFor(Turning, cur))
         /\ cur >= Turning =>
              /\ \A n \in Listed : n - cur < M \div 2 /\ cur - n < M \div 2
              /\ IsDuplicate(list, cur) <=> cur \in Listed
              /\ Splits(list, Place(list, cur), cur)
<1> DEFINE t == Turning
<1>1. /\ top \in Int /\ cur \in Int /\ cur \in Frames /\ sent \in Int
      /\ list \in Seq(Frames) /\ Increasing(list) /\ Listed = ElementsOf(list)
      /\ Listed \subseteq Int /\ DOMAIN list = 1..Len(list) /\ TrueNext \in Int
  BY TypesOfWindow
<1>2. cur >= 0
  BY <1>1 DEF Frames
<1>3. top + 1 - SendWin <= cur /\ cur <= top + Burst
  BY <1>1, Constants DEF IndInv, SenderInv
<1>4. /\ t \in Nat /\ (t <= top + 1 \/ t = cur)
      /\ \A n \in Listed : On /\ t < n /\ n < t + W /\ n <= top
      /\ On => t <= top + 1 /\ top + 1 - Back <= t /\ ind_sn = Sn(t)
      /\ ~On => t = cur /\ ind_sn = NoSn
  <2>1. CASE On
    BY <1>1, <2>1 DEF Turning, IndInv, AnchorInv, ListInv
  <2>2. CASE ~On
    <3>1. t = cur /\ Listed = {}
      BY <2>2 DEF Turning, IndInv, ListInv
    <3>2. ind_sn = NoSn
      BY <2>2 DEF On, IndInv, ControlInv
    <3> QED
      BY <1>1, <1>2, <2>2, <3>1, <3>2
  <2> QED
    BY <2>1, <2>2
<1> HIDE DEF t
<1>5. t - cur < M \div 2 /\ cur - t < M \div 2
  <2>1. CASE On
    BY <1>1, <1>3, <1>4, <2>1, Constants, BackIs
  <2>2. CASE ~On
    BY <1>1, <1>4, <2>2, Constants
  <2> QED
    BY <2>1, <2>2
<1>6. /\ Check.late <=> cur < t
      /\ cur < t => Check.ind = ind_sn /\ On
      /\ cur >= t => Check.ind = Sn(StartFor(t, cur))
  <2>1. CASE On
    <3>1. Check = NeedCheck(Sn(t), Sn(cur)) /\ t \in Int /\ ind_sn = Sn(t)
      BY <1>4, <2>1 DEF Check
    <3>2. /\ NeedCheck(Sn(t), Sn(cur)).late <=> cur < t
          /\ cur < t => NeedCheck(Sn(t), Sn(cur)).ind = Sn(t)
          /\ cur >= t => NeedCheck(Sn(t), Sn(cur)).ind = Sn(StartFor(t, cur))
      BY <1>1, <1>5, <3>1, CheckIs
    <3> QED
      BY <2>1, <3>1, <3>2, Zenon
  <2>2. CASE ~On
    <3>1. Check = NeedCheck(NoSn, Sn(cur)) /\ t = cur
      BY <1>4, <2>2 DEF Check
    <3>2. ~NeedCheck(NoSn, Sn(cur)).late /\ NeedCheck(NoSn, Sn(cur)).ind = Sn(cur + 1)
      BY <1>1, CheckFirst
    <3>3. ~(cur < t) /\ cur >= t /\ StartFor(t, cur) = cur + 1
      BY <1>1, <3>1 DEF StartFor
    <3> QED
      BY <3>1, <3>2, <3>3, Zenon
  <2> QED
    BY <2>1, <2>2
<1>7. cur < t => cur <= top
  BY <1>1, <1>4
<1>8. ASSUME cur >= t
      PROVE  \A n \in Listed : n - cur < M \div 2 /\ cur - n < M \div 2
  <2> SUFFICES ASSUME NEW n \in Listed PROVE n - cur < M \div 2 /\ cur - n < M \div 2
    OBVIOUS
  <2>1. n \in Int /\ On /\ t < n /\ n < t + W /\ n <= top /\ top + 1 - Back <= t
    BY <1>1, <1>4
  <2> QED
    BY <1>1, <1>3, <1>4, <1>8, <2>1, Constants, BackIs
<1>9. ASSUME cur >= t
      PROVE  (IsDuplicate(list, cur) <=> cur \in Listed) /\ Splits(list, Place(list, cur), cur)
  <2>1. \A i \in 1..Len(list) : list[i] - cur < M \div 2 /\ cur - list[i] < M \div 2
    BY <1>1, <1>8, <1>9 DEF Listed
  <2> QED
    BY <1>1, <2>1, PlaceIs
<1> QED
  BY <1>4, <1>5, <1>6, <1>7, <1>8, <1>9 DEF t

\* A late frame and a duplicate leave the window as it is.
LEMMA LateKeeps ==
  ASSUME IndInv, UnitLate
  PROVE  IndInv' /\ UNCHANGED <<top, enable, ind_sn, list>> /\ cur < TrueNext
         /\ out' \in {<<>>, <<cur>>}
<1> USE DEF UnitLate, HandOver, envVars
<1>1. pc = "unit" /\ Check.late
  OBVIOUS
<1>2. cur < Turning /\ Check.ind = ind_sn /\ cur <= top /\ On
  BY <1>1, UnitSetting
<1>3. top \in Int /\ cur \in Int /\ cur \in Frames
  BY TypesOfWindow
<1>4. top' = top
  BY <1>2, <1>3
<1>5. UNCHANGED <<top, enable, ind_sn, list>> /\ cur < TrueNext
  BY <1>2, <1>4 DEF Turning
<1>6. out' \in {<<>>, <<cur>>}
  OBVIOUS
<1>7. AnchorInv' /\ ListInv'
  BY <1>5, WindowKept DEF IndInv
<1>8. free + Len(list) + 1 <= Pool /\ free \in Nat /\ Len(list) \in Nat
  BY DEF IndInv, PoolInv, Owned, TypeOK
<1>9. PoolInv'
  BY <1>5, <1>8 DEF PoolInv, Owned
<1>10. TypeOK'
  <2>1. free' \in 0..Pool
    BY <1>8, Constants
  <2>2. <<>> \in Seq(0..(N - 1)) /\ <<cur>> \in Seq(0..(N - 1))
    BY <1>3 DEF Frames
  <2>3. out' \in Seq(0..(N - 1))
    BY <1>6, <2>2
  <2> QED
    BY <1>5, <2>1, <2>3 DEF IndInv, TypeOK
<1>11. SenderInv' /\ ControlInv' /\ HeldIsTimed'
  BY <1>5 DEF IndInv, SenderInv, ControlInv, HeldIsTimed
<1> QED
  BY <1>5, <1>6, <1>7, <1>9, <1>10, <1>11 DEF IndInv

LEMMA DuplicateKeeps ==
  ASSUME IndInv, UnitDuplicate
  PROVE  IndInv' /\ UNCHANGED <<top, enable, ind_sn, list>>
<1> USE DEF UnitDuplicate, HandOver, envVars
<1>1. pc = "unit" /\ ~Check.late /\ IsDuplicate(list, cur)
  OBVIOUS
<1>2. top \in Int /\ cur \in Int /\ cur \in Frames /\ TrueNext \in Int
  BY TypesOfWindow
<1>3. /\ Turning \in Nat /\ ~(cur < Turning)
      /\ \A n \in Listed : On /\ Turning < n /\ n < Turning + W /\ n <= top
      /\ cur >= Turning => Check.ind = Sn(StartFor(Turning, cur))
      /\ cur >= Turning => (IsDuplicate(list, cur) <=> cur \in Listed)
  BY <1>1, UnitSetting
<1>4. cur \in Listed /\ Check.ind = Sn(StartFor(Turning, cur))
  BY <1>1, <1>2, <1>3
<1>5. On /\ Turning < cur /\ cur < Turning + W /\ cur <= top
  BY <1>3, <1>4
<1>6. StartFor(Turning, cur) = Turning
  BY <1>2, <1>3, <1>5, Constants DEF StartFor
<1>7. Check.ind = ind_sn
  BY <1>4, <1>5, <1>6 DEF Turning, IndInv, AnchorInv
<1>8. UNCHANGED <<top, enable, ind_sn, list>>
  BY <1>2, <1>5, <1>7
<1>9. AnchorInv' /\ ListInv'
  BY <1>8, WindowKept DEF IndInv
<1>10. free + Len(list) + 1 <= Pool /\ free \in Nat /\ Len(list) \in Nat
  BY DEF IndInv, PoolInv, Owned, TypeOK
<1>11. PoolInv'
  BY <1>8, <1>10 DEF PoolInv, Owned
<1>12. TypeOK'
  <2>1. free' \in 0..Pool
    BY <1>10, Constants
  <2>2. <<>> \in Seq(0..(N - 1))
    OBVIOUS
  <2> QED
    BY <1>8, <2>1, <2>2 DEF IndInv, TypeOK
<1>13. SenderInv' /\ ControlInv' /\ HeldIsTimed'
  BY <1>8 DEF IndInv, SenderInv, ControlInv, HeldIsTimed
<1> QED
  BY <1>8, <1>9, <1>11, <1>12, <1>13 DEF IndInv

-----------------------------------------------------------------------------
(* The steps that move the window.                                         *)

\* With H held the window moved from frame s to frame u.
Moved(s, u, H) ==
    /\ u \in Int /\ s <= u /\ u <= top' + 1
    /\ ind_sn' = Sn(u)
    /\ s..(u - 1) \subseteq H /\ u \notin H
    /\ out' \in Seq(Frames) /\ Increasing(out')
    /\ ElementsOf(out') = {h \in H : h < u}
    /\ list' \in Seq(Frames) /\ Increasing(list')
    /\ ElementsOf(list') = {h \in H : h >= u}

\* The frame the window starts with when frame n arrives and frame t is next.
Start(t, n) == IF n > t + W - 1 THEN n - W + 1 ELSE t

\* The frames on the list and in hand are near enough to be told apart.
LEMMA UnitRange ==
  ASSUME IndInv, pc = "unit", cur >= Turning, NEW hi, hi = IF cur > top THEN cur ELSE top
  PROVE  \E lo \in Int : /\ lo - 1 <= StartFor(Turning, cur)
                         /\ StartFor(Turning, cur) <= hi + 1
                         /\ hi \in Int /\ hi + 1 - lo < M \div 2
                         /\ \A n \in Listed \cup {cur} : lo <= n /\ n <= hi
<1> DEFINE t == Turning
<1>1. top \in Int /\ cur \in Int /\ Listed \subseteq Int /\ t \in Int /\ sent \in Int
  BY TypesOfWindow, UnitSetting
<1>2. /\ t <= top + 1 \/ t = cur
      /\ \A n \in Listed : On /\ t < n /\ n < t + W /\ n <= top
  BY UnitSetting
<1>3. top + 1 - SendWin <= cur /\ cur <= top + Burst
  BY <1>1, Constants DEF IndInv, SenderInv
<1>4. (On => top + 1 - Back <= t) /\ (~On => t = cur)
  BY DEF Turning, IndInv, AnchorInv
<1>5. hi \in Int /\ cur <= hi /\ top <= hi /\ (hi = cur \/ hi = top)
  BY <1>1
<1> HIDE DEF t
<1>6. CASE cur = t
  <2>1. StartFor(t, cur) = t + 1
    BY <1>6 DEF StartFor
  <2>2. hi + 1 - t < M \div 2
    <3>1. CASE hi = cur
      BY <1>1, <1>6, <3>1, Constants
    <3>2. CASE hi = top
      BY <1>1, <1>3, <1>6, <3>2, Constants
    <3> QED
      BY <1>5, <3>1, <3>2
  <2>3. \A n \in Listed \cup {cur} : t <= n /\ n <= hi
    <3> SUFFICES ASSUME NEW n \in Listed \cup {cur} PROVE t <= n /\ n <= hi
      OBVIOUS
    <3>1. CASE n = cur
      BY <1>1, <1>5, <1>6, <3>1
    <3>2. CASE n \in Listed
      <4>1. n \in Int /\ t < n /\ n <= top
        BY <1>1, <1>2, <3>2
      <4> QED
        BY <1>1, <1>5, <4>1
    <3> QED
      BY <3>1, <3>2
  <2>4. t - 1 <= t + 1 /\ t + 1 <= hi + 1
    BY <1>1, <1>5, <1>6
  <2> QED
    BY <1>1, <1>5, <2>1, <2>2, <2>3, <2>4 DEF t
<1>7. CASE cur > t
  <2>1. On
    BY <1>1, <1>4, <1>7
  <2>2. t <= StartFor(t, cur) /\ StartFor(t, cur) <= hi + 1
    BY <1>1, <1>5, <1>7, Constants DEF StartFor
  <2>3. hi + 1 - (t + 1) < M \div 2
    <3>1. hi <= top + Burst
      BY <1>1, <1>3, <1>5, Constants
    <3>2. top + 1 - Back <= t
      BY <1>4, <2>1
    <3> QED
      BY <1>1, <1>5, <3>1, <3>2, BackIs, Constants
  <2>4. \A n \in Listed \cup {cur} : t + 1 <= n /\ n <= hi
    <3> SUFFICES ASSUME NEW n \in Listed \cup {cur} PROVE t + 1 <= n /\ n <= hi
      OBVIOUS
    <3>1. CASE n = cur
      BY <1>1, <1>5, <1>7, <3>1
    <3>2. CASE n \in Listed
      <4>1. n \in Int /\ t < n /\ n <= top
        BY <1>1, <1>2, <3>2
      <4> QED
        BY <1>1, <1>5, <4>1
    <3> QED
      BY <3>1, <3>2
  <2>5. t + 1 \in Int /\ (t + 1) - 1 = t
    BY <1>1
  <2> QED
    BY <1>5, <2>2, <2>3, <2>4, <2>5 DEF t
<1> QED
  BY <1>1, <1>6, <1>7 DEF t

\* A frame in its turn or ahead of it moves the window as far as it can.
LEMMA UnitMoves ==
  ASSUME IndInv, Unit
  PROVE  /\ cur >= Turning /\ cur \notin Listed
         /\ \E u \in Int : /\ Moved(Start(Turning, cur), u, Listed \cup {cur})
                           /\ u > StartFor(Turning, cur) - 1
         /\ Len(out') + Len(list') = Len(list) + 1
         /\ timer' = (list' # <<>>)
<1> DEFINE t == Turning
           l == InsertAt(list, Place(list, cur) + 1, cur)
           a == Advance(Check.ind, l)
           H == Listed \cup {cur}
           s == StartFor(t, cur)
<1>1. /\ pc = "unit" /\ ~Check.late /\ ~IsDuplicate(list, cur)
      /\ top' = IF cur > top THEN cur ELSE top
      /\ ind_sn' = a.ind /\ timer' = a.more /\ Indicate(a.ind, l)
  BY DEF Unit, HandOver
<1>2. /\ top \in Int /\ cur \in Int /\ cur \in Frames /\ t \in Int
      /\ list \in Seq(Frames) /\ Increasing(list) /\ Listed = ElementsOf(list)
  BY TypesOfWindow, UnitSetting, <1>1
<1>3. cur >= t
  BY <1>1, <1>2, UnitSetting
<1>4. /\ Check.ind = Sn(StartFor(t, cur)) /\ cur \notin Listed
      /\ Splits(list, Place(list, cur), cur)
  BY <1>1, <1>3, UnitSetting
<1>5. l \in Seq(Frames) /\ Increasing(l) /\ Len(l) = Len(list) + 1 /\ ElementsOf(l) = H
  <2>1. Place(list, cur) \in 0..Len(list)
    BY <1>4 DEF Splits
  <2> HIDE DEF H
  <2>2. /\ l \in Seq(Frames) /\ Increasing(l) /\ Len(l) = Len(list) + 1
        /\ ElementsOf(l) = ElementsOf(list) \cup {cur}
    BY <1>2, <1>4, <2>1, Insert
  <2> QED
    BY <1>2, <2>2 DEF H
<1>6. PICK lo \in Int : /\ lo - 1 <= s /\ s <= top' + 1
                        /\ top' \in Int /\ top' + 1 - lo < M \div 2
                        /\ \A n \in H : lo <= n /\ n <= top'
  BY <1>1, <1>3, UnitRange
<1>7. s \in Int
  BY <1>2, Constants DEF StartFor
<1>8. Halves(a.ind, l, out', list')
  BY <1>1 DEF Halves, Indicate
<1>9. a = Advance(Sn(s), l)
  BY <1>4
<1> HIDE DEF l, a, H, s
<1>10. \A i \in 1..Len(l) : lo <= l[i] /\ l[i] <= top'
  <2>1. \A i \in 1..Len(l) : l[i] \in H
    BY <1>5 DEF ElementsOf
  <2> QED
    BY <1>6, <2>1
<1>18. Near(l, s, lo, top')
  BY <1>5, <1>6, <1>7, <1>10 DEF Near
<1>19. PICK u : Delivered(l, s, top', u, out', list')
  BY <1>8, <1>9, <1>18, Deliver, Zenon
<1>11. /\ u \in s..(top' + 1)
       /\ a.ind = Sn(u) /\ a.more = (list' # <<>>)
       /\ s..(u - 1) \subseteq ElementsOf(l) /\ u \notin ElementsOf(l)
       /\ out' \in Seq(Frames) /\ Increasing(out')
       /\ ElementsOf(out') = {h \in ElementsOf(l) : h < u}
       /\ list' \in Seq(Frames) /\ Increasing(list')
       /\ ElementsOf(list') = {h \in ElementsOf(l) : h >= u}
       /\ Len(out') + Len(list') = Len(l)
  BY <1>9, <1>19, Zenon DEF Delivered
<1>12. u \in Int /\ s <= u /\ u <= top' + 1
  <2>1. top' + 1 \in Int
    BY <1>6
  <2> QED
    BY <1>7, <1>11, <2>1
<1>13. Start(t, cur) <= u /\ Start(t, cur)..(u - 1) \subseteq H
  <2>1. CASE cur = t
    <3>1. Start(t, cur) = t /\ StartFor(t, cur) = t + 1
      BY <2>1, <1>2, Constants DEF Start, StartFor
    <3>4. t + 1 <= u /\ (t + 1)..(u - 1) \subseteq H
      BY <1>5, <1>11, <1>12, <3>1 DEF s
    <3>2. \A j \in t..(u - 1) : j = cur \/ j \in (t + 1)..(u - 1)
      BY <2>1, <1>2, <1>12
    <3>3. cur \in H
      BY DEF H
    <3>5. t <= u
      BY <1>2, <1>12, <3>4
    <3>6. t..(u - 1) \subseteq H
      BY <3>2, <3>3, <3>4
    <3> QED
      BY <3>1, <3>5, <3>6
  <2>2. CASE cur # t
    <3>1. Start(t, cur) = StartFor(t, cur)
      BY <2>2 DEF Start, StartFor
    <3> QED
      BY <1>5, <1>11, <1>12, <3>1 DEF s
  <2> QED
    BY <2>1, <2>2
<1>14. Moved(Start(t, cur), u, H)
  BY <1>1, <1>5, <1>11, <1>12, <1>13 DEF Moved
<1>15. timer' = (list' # <<>>)
  BY <1>1, <1>11, Zenon
<1>16. u > StartFor(t, cur) - 1
  BY <1>7, <1>12 DEF s
<1>17. \E v \in Int : Moved(Start(t, cur), v, H) /\ v > StartFor(t, cur) - 1
  BY <1>12, <1>14, <1>16
<1> QED
  BY <1>3, <1>4, <1>5, <1>11, <1>15, <1>17, Zenon DEF t, H

\* The frames of H are in the window that starts with s; b is the last frame.
Within(H, s, b) == H \subseteq Int /\ \A n \in H : n < s + W /\ n <= b

\* After the window has moved, the invariant holds of it again.
LEMMA MovedKeeps ==
  ASSUME NEW s \in Int, NEW H, NEW u, Moved(s, u, H), enable', top' \in Int,
         0 <= s, top' + 1 - Back <= u, Within(H, s, top')
  PROVE  AnchorInv' /\ ListInv' /\ On' /\ TrueNext' = u /\ Listed' = {h \in H : h >= u}
<1>1. /\ u \in Int /\ s <= u /\ u <= top' + 1 /\ ind_sn' = Sn(u) /\ u \notin H
      /\ list' \in Seq(Frames) /\ Increasing(list')
      /\ ElementsOf(list') = {h \in H : h >= u}
  BY DEF Moved
<1>2. ind_sn' # NoSn
  BY <1>1, SnIs
<1>3. On'
  BY <1>2 DEF On
<1>4. TrueNext' = top' + 1 - ((Sn(top' + 1) - ind_sn') % M)
  BY <1>2 DEF TrueNext
<1>5. top' + 1 - ((Sn(top' + 1) - Sn(u)) % M) = u
  <2> DEFINE p == top'
  <2>1. p \in Int /\ u \in Int /\ u <= p + 1 /\ p + 1 - Back <= u
    BY <1>1
  <2>2. Back \in Int /\ Back < M
    BY BackIs, Constants
  <2> HIDE DEF p
  <2>3. p + 1 - u >= 0 /\ p + 1 - u < M
    BY <2>1, <2>2, Constants
  <2>4. p + 1 - ((Sn(p + 1) - Sn(u)) % M) = u
    BY <2>1, <2>3, Anchor
  <2> QED
    BY <2>4 DEF p
<1>6. TrueNext' = u
  BY <1>1, <1>4, <1>5
<1>7. AnchorInv'
  <2>1. 0 <= u
    BY <1>1
  <2>2. 0 <= TrueNext' /\ top' + 1 - Back <= TrueNext' /\ TrueNext' <= top' + 1
    BY <1>1, <1>6, <2>1, Zenon
  <2>3. ind_sn' = Sn(TrueNext)'
    BY <1>1, <1>6 DEF Sn
  <2> QED
    BY <2>2, <2>3, Zenon DEF AnchorInv
<1>8. Listed' = {h \in H : h >= u}
  BY <1>1 DEF Listed, ElementsOf
<1>9. \A n \in Listed' : u < n /\ n < u + W /\ n <= top'
  <2> SUFFICES ASSUME NEW n \in Listed' PROVE u < n /\ n < u + W /\ n <= top'
    OBVIOUS
  <2>1. n \in H /\ n >= u /\ n \in Int /\ n # u /\ n < s + W /\ n <= top'
    BY <1>1, <1>8 DEF Within
  <2> QED
    BY <1>1, <2>1, Constants
<1>10. ListInv'
  BY <1>1, <1>3, <1>6, <1>9 DEF ListInv, Increasing
<1> QED
  BY <1>3, <1>6, <1>7, <1>8, <1>10

\* What Unit does to the window.
LEMMA UnitWindow ==
  ASSUME IndInv, Unit
  PROVE  /\ AnchorInv' /\ ListInv' /\ On'
         /\ \E u \in Int : /\ Moved(Start(Turning, cur), u, Listed \cup {cur})
                           /\ TrueNext' = u
                           /\ Listed' = {h \in Listed \cup {cur} : h >= u}
<1> DEFINE t == Turning
           s == Start(t, cur)
           H == Listed \cup {cur}
<1>1. pc = "unit" /\ top' = (IF cur > top THEN cur ELSE top) /\ enable'
  BY DEF Unit, HandOver, IndInv, ControlInv
<1>2. /\ top \in Int /\ cur \in Int /\ t \in Int /\ t >= 0 /\ sent \in Int
      /\ Listed \subseteq Int
  BY <1>1, TypesOfWindow, UnitSetting
<1>3. PICK u \in Int : Moved(s, u, H) /\ u > StartFor(t, cur) - 1
  BY UnitMoves
<1>4. cur >= t /\ cur \notin Listed
  BY UnitMoves
<1>5. \A n \in Listed : On /\ t < n /\ n < t + W /\ n <= top
  BY <1>1, UnitSetting
<1>6. s \in Int /\ 0 <= s /\ t <= s /\ cur < s + W /\ cur - W + 1 <= s
  BY <1>2, <1>4, Constants DEF Start
<1>7. top' \in Int /\ cur <= top' /\ top <= top' /\ (top' = cur \/ top' = top)
  BY <1>1, <1>2
<1> HIDE DEF t, s
<1>8. \A n \in H : n < s + W /\ n <= top'
  <2> SUFFICES ASSUME NEW n \in H PROVE n < s + W /\ n <= top'
    OBVIOUS
  <2>1. CASE n = cur
    BY <1>6, <1>7, <2>1
  <2>2. CASE n \in Listed
    <3>1. n \in Int /\ n < t + W /\ n <= top
      BY <1>2, <1>5, <2>2
    <3> QED
      BY <1>2, <1>6, <1>7, <3>1, Constants
  <2> QED
    BY <2>1, <2>2
<1>9. H \subseteq Int
  BY <1>2
<1>10. top' + 1 - Back <= u
  <2>1. s <= u
    BY <1>3 DEF Moved
  <2>2. CASE top' = cur
    BY <1>2, <1>6, <2>1, <2>2, BackIs, Constants
  <2>3. CASE top' = top /\ On
    <3>1. top + 1 - Back <= t
      BY <2>3 DEF t, Turning, IndInv, AnchorInv
    <3> QED
      BY <1>2, <1>6, <2>1, <2>3, <3>1, BackIs
  <2>4. CASE top' = top /\ ~On
    <3>1. t = cur /\ top + 1 - SendWin <= cur
      BY <1>1, <2>4 DEF t, Turning, IndInv, SenderInv
    <3> QED
      BY <1>2, <1>6, <2>1, <2>4, <3>1, BackIs, Constants
  <2> QED
    BY <1>7, <2>2, <2>3, <2>4
<1>12. Within(H, s, top')
  BY <1>8, <1>9 DEF Within
<1> HIDE DEF H
<1>11. /\ AnchorInv' /\ ListInv' /\ On' /\ TrueNext' = u
       /\ Listed' = {h \in H : h >= u}
  BY <1>1, <1>3, <1>6, <1>7, <1>10, <1>12, MovedKeeps
<1> QED
  BY <1>3, <1>11 DEF t, s, H

LEMMA UnitKeeps == IndInv /\ Unit => IndInv'
<1> SUFFICES ASSUME IndInv, Unit PROVE IndInv'
  OBVIOUS
<1>1. AnchorInv' /\ ListInv' /\ On'
  BY UnitWindow
<1>2. /\ pc = "unit" /\ pc' = "idle" /\ top' = (IF cur > top THEN cur ELSE top)
      /\ free' = free + Len(out')
      /\ UNCHANGED <<sent, air, enable, work, cur>>
  BY DEF Unit, HandOver, envVars
<1>3. Len(out') + Len(list') = Len(list) + 1 /\ timer' = (list' # <<>>)
  BY UnitMoves
<1>4. PICK u \in Int : Moved(Start(Turning, cur), u, Listed \cup {cur})
  BY UnitWindow
<1>5. /\ out' \in Seq(0..(N - 1)) /\ list' \in Seq(0..(N - 1)) /\ ind_sn' \in 0..(M - 1)
      /\ Len(out') \in Nat /\ Len(list') \in Nat
  <2>1. out' \in Seq(Frames) /\ list' \in Seq(Frames) /\ u \in Int /\ ind_sn' = Sn(u)
    BY <1>4, Zenon DEF Moved
  <2>2. Sn(u) \in 0..(M - 1)
    BY <2>1, SnIs
  <2> QED
    BY <2>1, <2>2 DEF Frames
<1>6. free + Len(list) + 1 <= Pool /\ free \in Nat /\ Len(list) \in Nat
  BY <1>2 DEF IndInv, PoolInv, Owned, TypeOK
<1>7. free' + Len(list') <= Pool /\ free' \in 0..Pool
  <2> DEFINE o == Len(out')
             r == Len(list')
             q == Len(list)
  <2>1. o \in Nat /\ r \in Nat /\ q \in Nat /\ free \in Nat
        /\ free' = free + o /\ o + r = q + 1 /\ free + q + 1 <= Pool
    BY <1>2, <1>3, <1>5, <1>6
  <2> HIDE DEF o, r, q
  <2>2. (free + o) + r <= Pool /\ free + o \in 0..Pool
    BY <2>1, Constants
  <2> QED
    BY <2>1, <2>2 DEF r
<1>8. PoolInv'
  BY <1>2, <1>7 DEF PoolInv, Owned
<1>9. TypeOK'
  <2>1. timer' \in BOOLEAN
    BY <1>3, Zenon
  <2>2. top' \in -1..(N - 1)
    BY <1>2 DEF IndInv, TypeOK
  <2> QED
    BY <1>2, <1>5, <1>7, <2>1, <2>2 DEF IndInv, TypeOK
<1>10. SenderInv'
  <2>1. top \in Int /\ cur \in Int /\ sent \in Int
    BY DEF IndInv, TypeOK
  <2>2. top < sent /\ sent <= top + Burst + 1 /\ cur < sent
    BY <1>2 DEF IndInv, SenderInv
  <2>3. top' < sent /\ sent <= top' + Burst + 1
    BY <1>2, <2>1, <2>2, Constants
  <2> QED
    BY <1>2, <2>3 DEF IndInv, SenderInv
<1>11. ControlInv' /\ HeldIsTimed'
  BY <1>2, <1>3 DEF ControlInv, HeldIsTimed
<1> QED
  BY <1>1, <1>8, <1>9, <1>10, <1>11 DEF IndInv

-----------------------------------------------------------------------------
(* The worker.                                                             *)

\* What the worker finds: the first frame of the list is the least one held.
LEMMA FirstHeld ==
  ASSUME IndInv, list # <<>>
  PROVE  /\ On /\ 1 \in DOMAIN list /\ Head(list) = list[1]
         /\ list[1] \in Listed /\ list[1] \in Int /\ 0 <= list[1]
         /\ \A h \in Listed : list[1] <= h
         /\ TrueNext < list[1] /\ list[1] <= top
<1>1. /\ list \in Seq(Frames) /\ Increasing(list) /\ Listed \subseteq Int
      /\ Listed \subseteq Frames /\ DOMAIN list = 1..Len(list) /\ Len(list) \in Nat
  BY TypesOfWindow
<1>2. 1 \in DOMAIN list /\ Head(list) = list[1]
  BY <1>1
<1>3. list[1] \in Listed
  BY <1>2 DEF Listed
<1>4. list[1] \in Int /\ 0 <= list[1]
  <2>1. \A x \in Frames : x \in Int /\ 0 <= x
    BY Constants DEF Frames
  <2> QED
    BY <1>1, <1>3, <2>1
<1>5. \A h \in Listed : list[1] <= h
  <2> SUFFICES ASSUME NEW h \in Listed PROVE list[1] <= h
    OBVIOUS
  <2>1. PICK i \in DOMAIN list : h = list[i]
    BY DEF Listed
  <2>2. i = 1 \/ 1 < i
    BY <1>1, <2>1
  <2>3. i = 1 \/ list[1] < list[i]
    BY <1>2, <1>1, <2>1, <2>2 DEF Increasing
  <2>4. h \in Int
    BY <1>1
  <2> QED
    BY <1>4, <2>1, <2>3, <2>4
<1>6. On /\ TrueNext < list[1] /\ list[1] <= top
  BY <1>3 DEF IndInv, ListInv
<1> QED
  BY <1>2, <1>3, <1>4, <1>5, <1>6

LEMMA WorkerMoves ==
  ASSUME IndInv, Worker, list # <<>>
  PROVE  /\ \E u \in Int : Moved(list[1], u, Listed)
         /\ Len(out') + Len(list') = Len(list)
         /\ timer' = (timer \/ list' # <<>>)
<1> DEFINE s == list[1]
           a == Advance(Sn(s), list)
<1>1. /\ list \in Seq(Frames) /\ Increasing(list) /\ Listed = ElementsOf(list)
      /\ top \in Int /\ TrueNext \in Int /\ DOMAIN list = 1..Len(list)
      /\ Listed \subseteq Int
  BY TypesOfWindow
<1>2. /\ On /\ Head(list) = s /\ s \in Int /\ 0 <= s
      /\ (\A h \in Listed : s <= h) /\ TrueNext < s /\ s <= top
  BY FirstHeld
<1>3. /\ ind_sn' = a.ind /\ timer' = (timer \/ a.more) /\ Indicate(a.ind, list)
      /\ top' = top
  BY <1>2 DEF Worker, GivenUp
<1>4. Halves(a.ind, list, out', list')
  BY <1>3 DEF Halves, Indicate
<1> HIDE DEF a, s
<1>5. top + 1 - s < M \div 2
  <2>1. top + 1 - Back <= TrueNext
    BY <1>2 DEF IndInv, AnchorInv
  <2> QED
    BY <1>1, <1>2, <2>1, BackIs, Constants
<1>6. \A i \in 1..Len(list) : s <= list[i] /\ list[i] <= top
  <2> SUFFICES ASSUME NEW i \in 1..Len(list) PROVE s <= list[i] /\ list[i] <= top
    OBVIOUS
  <2>1. list[i] \in Listed
    BY <1>1 DEF ElementsOf
  <2> QED
    BY <1>2, <2>1 DEF IndInv, ListInv
<1>7. s - 1 <= s /\ s <= top + 1
  BY <1>1, <1>2
<1>8. Near(list, s, s, top)
  BY <1>1, <1>2, <1>5, <1>6, <1>7 DEF Near
<1>9. PICK u : Delivered(list, s, top, u, out', list')
  BY <1>4, <1>8, Deliver DEF a
<1>10. /\ u \in s..(top + 1)
       /\ a.ind = Sn(u) /\ a.more = (list' # <<>>)
       /\ s..(u - 1) \subseteq Listed /\ u \notin Listed
       /\ out' \in Seq(Frames) /\ Increasing(out')
       /\ ElementsOf(out') = {h \in Listed : h < u}
       /\ list' \in Seq(Frames) /\ Increasing(list')
       /\ ElementsOf(list') = {h \in Listed : h >= u}
       /\ Len(out') + Len(list') = Len(list)
  BY <1>1, <1>9, Zenon DEF Delivered, a
<1>11. u \in Int /\ s <= u /\ u <= top' + 1
  BY <1>1, <1>2, <1>3, <1>10
<1>12. Moved(s, u, Listed)
  BY <1>3, <1>10, <1>11, Zenon DEF Moved
<1>13. timer' = (timer \/ list' # <<>>)
  BY <1>3, <1>10, Zenon
<1> QED
  BY <1>10, <1>11, <1>12, <1>13, Zenon DEF s

\* What the worker does to the window when a frame is held, and when none is.
LEMMA WorkerWindow ==
  ASSUME IndInv, Worker, list # <<>>
  PROVE  /\ AnchorInv' /\ ListInv'
         /\ \E u \in Int : /\ Moved(list[1], u, Listed)
                           /\ TrueNext' = u /\ Listed' = {h \in Listed : h >= u}
<1> DEFINE s == list[1]
           H == Listed
<1>1. /\ top \in Int /\ TrueNext \in Int /\ Listed \subseteq Int
  BY TypesOfWindow
<1>2. /\ On /\ s \in Int /\ 0 <= s /\ TrueNext < s
  BY FirstHeld
<1>3. PICK u \in Int : Moved(s, u, Listed)
  BY WorkerMoves
<1>4. top' = top /\ enable'
  BY <1>2 DEF Worker, On
<1> HIDE DEF s
<1>5. \A n \in Listed : n < s + W /\ n <= top'
  <2> SUFFICES ASSUME NEW n \in Listed PROVE n < s + W /\ n <= top'
    OBVIOUS
  <2>1. n \in Int /\ n < TrueNext + W /\ n <= top
    BY <1>1 DEF IndInv, ListInv
  <2> QED
    BY <1>1, <1>2, <1>4, <2>1, Constants
<1>6. top' + 1 - Back <= u
  <2>1. s <= u /\ top + 1 - Back <= TrueNext
    BY <1>2, <1>3 DEF Moved, IndInv, AnchorInv
  <2> QED
    BY <1>1, <1>2, <1>4, <2>1, BackIs
<1>7. top' \in Int
  BY <1>1, <1>4
<1>8. Moved(s, u, H) /\ Within(H, s, top')
  BY <1>1, <1>3, <1>5 DEF Within
<1> HIDE DEF H
<1>9. AnchorInv' /\ ListInv' /\ TrueNext' = u /\ Listed' = {h \in H : h >= u}
  <2>1. s \in Int /\ 0 <= s /\ enable'
    BY <1>2, <1>4
  <2> QED
    BY <2>1, <1>6, <1>7, <1>8, MovedKeeps
<1> QED
  BY <1>3, <1>9 DEF s, H

LEMMA WorkerFindsNone ==
  ASSUME IndInv, Worker, list = <<>>
  PROVE  UNCHANGED <<top, enable, ind_sn, list, timer, free>> /\ out' = <<>>
<1>1. /\ ind_sn' = ind_sn /\ timer' = (timer \/ FALSE) /\ Indicate(ind_sn, list)
      /\ free' = free + Len(out') /\ UNCHANGED <<top, enable>>
  BY DEF Worker, GivenUp
<1>2. list \in Seq(Frames) /\ Len(list) = 0
  BY TypesOfWindow
<1>3. PrefixIn(list, Passed(ind_sn)) = 0
  <2>1. PrefixIn(list, Passed(ind_sn)) \in 0..Len(list)
    BY <1>2, PrefixInIs
  <2> QED
    BY <1>2, <2>1
<1>4. out' = SubSeq(list, 1, 0) /\ list' = SubSeq(list, 0 + 1, Len(list))
  BY <1>1, <1>3 DEF Indicate
<1>5. out' \in Seq(Frames) /\ Len(out') = 0 /\ list' \in Seq(Frames) /\ Len(list') = 0
  BY <1>2, <1>4, Parts
<1>6. out' = <<>> /\ list' = <<>>
  BY <1>5
<1>7. free' = free
  BY <1>1, <1>5 DEF IndInv, TypeOK
<1>8. timer' = timer
  BY <1>1, Zenon DEF IndInv, TypeOK
<1> QED
  BY <1>1, <1>6, <1>7, <1>8

LEMMA WorkerKeeps == IndInv /\ Worker => IndInv'
<1> SUFFICES ASSUME IndInv, Worker PROVE IndInv'
  OBVIOUS
<1>1. /\ free' = free + Len(out') /\ UNCHANGED <<sent, air, top, enable, pc, cur>>
      /\ work' \in {"none", "queued", "running", "requeued"}
  BY DEF Worker, WorkEnds, envVars
<1>2. AnchorInv' /\ ListInv'
  <2>1. CASE list = <<>>
    BY <2>1, WorkerFindsNone, WindowKept DEF IndInv
  <2>2. CASE list # <<>>
    BY <2>2, WorkerWindow
  <2> QED
    BY <2>1, <2>2
<1>3. /\ out' \in Seq(Frames) /\ list' \in Seq(Frames) /\ ind_sn' \in 0..(M - 1) \cup {NoSn}
      /\ Len(out') + Len(list') = Len(list)
      /\ timer' \in BOOLEAN /\ (list' # <<>> => timer' = TRUE \/ (list = <<>> /\ list' = list))
  <2>1. CASE list = <<>>
    <3>1. UNCHANGED <<ind_sn, list, timer>> /\ out' = <<>>
      BY <2>1, WorkerFindsNone
    <3>2. timer' \in BOOLEAN
      BY <3>1, Zenon DEF IndInv, TypeOK
    <3>3. <<>> \in Seq(Frames) /\ Len(<<>>) = 0
      OBVIOUS
    <3>4. Len(out') + Len(list') = Len(list)
      BY <2>1, <3>1, <3>3
    <3>5. ind_sn' \in 0..(M - 1) \cup {NoSn}
      BY <3>1 DEF IndInv, TypeOK
    <3> QED
      BY <2>1, <3>1, <3>2, <3>3, <3>4, <3>5, Zenon
  <2>2. CASE list # <<>>
    <3>1. PICK u \in Int : Moved(list[1], u, Listed)
      BY <2>2, WorkerMoves
    <3>2. out' \in Seq(Frames) /\ list' \in Seq(Frames) /\ ind_sn' = Sn(u)
      BY <3>1, Zenon DEF Moved
    <3>3. Sn(u) \in 0..(M - 1)
      BY SnIs
    <3>4. Len(out') + Len(list') = Len(list) /\ timer' = (timer \/ list' # <<>>)
      BY <2>2, WorkerMoves
    <3>5. timer' \in BOOLEAN /\ (list' # <<>> => timer' = TRUE)
      BY <3>4, Zenon DEF IndInv, TypeOK
    <3>6. ind_sn' \in 0..(M - 1) \cup {NoSn}
      BY <3>2, <3>3
    <3> QED
      BY <3>2, <3>4, <3>5, <3>6, Zenon
  <2> QED
    BY <2>1, <2>2, Zenon
<1>4. /\ Len(out') \in Nat /\ Len(list') \in Nat /\ Len(list) \in Nat /\ free \in Nat
      /\ free + Len(list) + (IF pc \in {"lookup", "unit"} THEN 1 ELSE 0) <= Pool
  BY <1>3 DEF IndInv, TypeOK, PoolInv, Owned
<1>5. free' + Len(list') = free + Len(list) /\ free' \in Nat
  <2> DEFINE o == Len(out')
             r == Len(list')
             q == Len(list)
  <2>1. o \in Nat /\ r \in Nat /\ q \in Nat /\ free \in Nat /\ free' = free + o /\ o + r = q
    BY <1>1, <1>3, <1>4
  <2> HIDE DEF o, r, q
  <2>2. (free + o) + r = free + q /\ free + o \in Nat
    BY <2>1
  <2> QED
    BY <2>1, <2>2 DEF r, q
<1>6. PoolInv'
  BY <1>1, <1>4, <1>5 DEF PoolInv, Owned
<1>7. free' \in 0..Pool
  BY <1>1, <1>4, <1>5, Constants
<1>8. TypeOK'
  <2>1. timer' \in BOOLEAN
    BY <1>3, Zenon
  <2>2. out' \in Seq(0..(N - 1)) /\ list' \in Seq(0..(N - 1))
    BY <1>3 DEF Frames
  <2> QED
    BY <1>1, <1>3, <1>7, <2>1, <2>2 DEF IndInv, TypeOK
<1>9. SenderInv' /\ ControlInv'
  BY <1>1 DEF IndInv, SenderInv, ControlInv
<1>10. HeldIsTimed'
  BY <1>3, Zenon DEF HeldIsTimed
<1> QED
  BY <1>2, <1>6, <1>8, <1>9, <1>10 DEF IndInv

-----------------------------------------------------------------------------
(* The invariants of the specification.                                    *)

LEMMA NextKeeps == IndInv /\ [Next]_vars => IndInv'
<1> SUFFICES ASSUME IndInv, [Next]_vars PROVE IndInv'
  OBVIOUS
<1>1. CASE UNCHANGED vars
  <2>1. UNCHANGED <<sent, air, top, enable, ind_sn, list, free, timer, work, pc, cur, out>>
    BY <1>1 DEF vars
  <2>2. AnchorInv' /\ ListInv'
    BY <2>1, WindowKept DEF IndInv
  <2>3. TypeOK'
    BY <2>1 DEF IndInv, TypeOK
  <2>4. SenderInv' /\ ControlInv' /\ HeldIsTimed' /\ PoolInv'
    BY <2>1 DEF IndInv, SenderInv, ControlInv, HeldIsTimed, PoolInv, Owned
  <2> QED
    BY <2>2, <2>3, <2>4 DEF IndInv
<1>2. CASE Send \/ Lose \/ Alloc \/ FlushTid
  BY <1>2, SendKeeps, LoseKeeps, AllocKeeps, FlushTidKeeps
<1>3. CASE RxStep
  BY <1>3, TurnAwayKeeps, LookupKeeps, LateKeeps, DuplicateKeeps, UnitKeeps,
     TimerAndWorkKeep, DirectKeeps
     DEF RxStep, WrongType, NoWindow
<1>4. CASE TimerFires \/ WorkStarts \/ Worker
  BY <1>4, TimerAndWorkKeep, WorkerKeeps
<1> QED
  BY <1>1, <1>2, <1>3, <1>4 DEF Next

LEMMA SpecIndInv == Spec => []IndInv
<1>1. Init => IndInv
  BY InitIndInv
<1>2. IndInv /\ [Next]_vars => IndInv'
  BY NextKeeps
<1> QED
  BY <1>1, <1>2, PTL DEF Spec

\* What the steps do to the pool: what is delivered goes back to the free queue.
LEMMA UnitConserves == IndInv /\ Unit => PoolStep
<1> SUFFICES ASSUME IndInv, Unit PROVE PoolStep
  OBVIOUS
<1>1. pc = "unit" /\ pc' = "idle" /\ free' = free + Len(out')
  BY DEF Unit, HandOver
<1>2. Len(out') + Len(list') = Len(list) + 1
  BY UnitMoves
<1>3. PICK u \in Int : Moved(Start(Turning, cur), u, Listed \cup {cur})
  BY UnitWindow
<1>4. out' \in Seq(Frames) /\ list' \in Seq(Frames) /\ list \in Seq(Frames) /\ free \in Nat
  BY <1>3, TypesOfWindow DEF Moved, IndInv, TypeOK
<1>5. Len(out') \in Nat /\ Len(list') \in Nat /\ Len(list) \in Nat
  BY <1>4
<1> QED
  BY <1>1, <1>2, <1>4, <1>5 DEF PoolStep, Owned

LEMMA WorkerConserves == IndInv /\ Worker => PoolStep
<1> SUFFICES ASSUME IndInv, Worker PROVE PoolStep
  OBVIOUS
<1>1. pc' = pc /\ free' = free + Len(out') /\ free \in Nat
  BY DEF Worker, IndInv, TypeOK
<1>2. CASE list = <<>>
  BY <1>1, <1>2, WorkerFindsNone DEF PoolStep, Owned
<1>3. CASE list # <<>>
  <2>1. Len(out') + Len(list') = Len(list)
    BY <1>3, WorkerMoves
  <2>2. PICK u \in Int : Moved(list[1], u, Listed)
    BY <1>3, WorkerMoves
  <2>3. out' \in Seq(Frames) /\ list' \in Seq(Frames) /\ list \in Seq(Frames)
    BY <2>2, TypesOfWindow DEF Moved
  <2>4. Len(out') \in Nat /\ Len(list') \in Nat /\ Len(list) \in Nat
    BY <2>3
  <2> QED
    BY <1>1, <2>1, <2>4 DEF PoolStep, Owned
<1> QED
  BY <1>2, <1>3

LEMMA NextConserves == IndInv /\ [Next]_vars => [PoolStep]_vars
<1> SUFFICES ASSUME IndInv, Next PROVE PoolStep
  OBVIOUS
<1>1. /\ free \in Nat /\ Len(list) \in Nat
      /\ Len(<<>>) = 0
  BY DEF IndInv, TypeOK
<1>2. CASE Send \/ Lose \/ TimerFires \/ WorkStarts
  <2>1. UNCHANGED <<free, list, pc>>
    BY <1>2 DEF Send, Lose, TimerFires, WorkStarts
  <2> QED
    BY <1>1, <2>1 DEF PoolStep, Owned
<1>3. CASE FlushTimer \/ FlushWork \/ Direct
  <2>1. UNCHANGED <<free, list>> /\ {pc, pc'} \subseteq {"untimer", "unwork", "direct", "idle"}
    BY <1>3 DEF FlushTimer, FlushWork, Direct
  <2> QED
    BY <1>1, <2>1 DEF PoolStep, Owned
<1>4. CASE Alloc
  BY <1>1, <1>4 DEF Alloc, PoolStep, Owned
<1>5. CASE FlushTid
  BY <1>1, <1>5 DEF FlushTid, PoolStep, Owned
<1>6. CASE WrongType \/ NoWindow
  <2>1. TurnAway
    BY <1>6 DEF WrongType, NoWindow
  <2> QED
    BY <1>1, <2>1 DEF TurnAway, PoolStep, Owned
<1>7. CASE Lookup
  BY <1>1, <1>7 DEF Lookup, PoolStep, Owned
<1>8. CASE UnitLate
  BY <1>1, <1>8, LateKeeps DEF UnitLate, HandOver, PoolStep, Owned
<1>9. CASE UnitDuplicate
  BY <1>1, <1>9, DuplicateKeeps DEF UnitDuplicate, HandOver, PoolStep, Owned
<1> QED
  BY <1>2, <1>3, <1>4, <1>5, <1>6, <1>7, <1>8, <1>9, UnitConserves, WorkerConserves
     DEF Next, RxStep

\* The ways out of reord_process_unit behind the look-up, reord_flush_tid and the
\* worker give back every recv_msdu, whatever they deliver; the two ways out
\* before it lose one each, and no step loses another.
THEOREM PoolIsConserved == Spec => PoolConserved
<1>1. IndInv /\ [Next]_vars => [PoolStep]_vars
  BY NextConserves
<1> QED
  BY <1>1, SpecIndInv, PTL DEF Spec, PoolConserved

\* A frame behind a gap never waits without the timer or the worker.
THEOREM GapsAreTimed == Spec => []HeldIsTimed
<1>1. IndInv => HeldIsTimed
  BY DEF IndInv
<1> QED
  BY <1>1, SpecIndInv, PTL

\* The frames held are in order, ahead of the frame whose turn it is and less
\* than a window ahead, so that the comparisons modulo M are those of numbers.
THEOREM WindowStaysOrdered == Spec => []WindowOrdered
<1>1. IndInv => WindowOrdered
  BY DEF IndInv, ListInv, Increasing, WindowOrdered, On
<1> QED
  BY <1>1, SpecIndInv, PTL

-----------------------------------------------------------------------------
(* Refinement: the window delivers in order (InOrderWindow).               *)

LEMMA ListInOrder ==
  ASSUME NEW l \in Seq(Frames), Increasing(l)
  PROVE  Window!InOrder(l, ElementsOf(l))
<1>1. Len(l) \in Nat /\ DOMAIN l = 1..Len(l)
  BY ListOfFrames
<1>2. \A i \in 1..Len(l) : l[i] \in ElementsOf(l)
  BY <1>1 DEF ElementsOf
<1>3. l \in Seq(ElementsOf(l))
  BY <1>1, <1>2
<1> QED
  BY <1>3 DEF Window!InOrder, ElementsOf, Increasing

\* The end of a run is where the frames held break off.
LEMMA RunEnds ==
  ASSUME NEW s \in Int, NEW u \in Int, NEW H, H \subseteq Int,
         s <= u, u \notin H, s..(u - 1) \subseteq H
  PROVE  Window!EndOfRun(s, H) = u
<1> DEFINE C == {s} \cup {h + 1 : h \in H}
           P(m) == m >= s /\ m \notin H /\ s..(m - 1) \subseteq H
<1>1. u \in C
  <2>1. CASE u = s
    BY <2>1
  <2>2. CASE u # s
    <3>1. u - 1 \in s..(u - 1) /\ (u - 1) + 1 = u
      BY <2>2
    <3> QED
      BY <3>1
  <2> QED
    BY <2>1, <2>2
<1>2. P(u)
  OBVIOUS
<1>3. ASSUME NEW m \in C, P(m) PROVE m = u
  <2>1. m \in Int
    OBVIOUS
  <2>2. CASE m < u
    <3>1. m \in s..(u - 1)
      BY <1>3, <2>1, <2>2
    <3> QED
      BY <1>3, <3>1
  <2>3. CASE u < m
    <3>1. u \in s..(m - 1)
      BY <2>1, <2>3
    <3> QED
      BY <1>3, <3>1
  <2> QED
    BY <2>1, <2>2, <2>3
<1>4. Window!EndOfRun(s, H) = CHOOSE m \in C : P(m)
  BY DEF Window!EndOfRun
<1> HIDE DEF C, P
<1> QED
  BY <1>1, <1>2, <1>3, <1>4

\* A window that has moved has moved as the abstract one does.
LEMMA MoveIsMoveTo ==
  ASSUME NEW s \in Int, NEW u \in Int, NEW H, H \subseteq Int, Moved(s, u, H),
         TrueNext' = u, Listed' = {h \in H : h >= u}
  PROVE  Window!MoveTo(s, H)
<1>1. Window!EndOfRun(s, H) = u
  BY RunEnds DEF Moved
<1>2. out' \in Seq(Frames) /\ Increasing(out') /\ ElementsOf(out') = {h \in H : h < u}
  BY DEF Moved
<1>3. \A l \in Seq(Frames) : Increasing(l) => Window!InOrder(l, ElementsOf(l))
  BY ListInOrder
<1>4. Window!InOrder(out', {h \in H : h < u})
  BY <1>2, <1>3
<1> QED
  BY <1>1, <1>4 DEF Window!MoveTo

LEMMA InitWindow == Init => Window!Init
<1> SUFFICES ASSUME Init PROVE Window!Init
  OBVIOUS
<1>1. TrueNext = -1 /\ Listed = {} /\ out = <<>>
  BY DEF Init, TrueNext, Listed
<1> QED
  BY <1>1 DEF Window!Init, Window!None

\* A frame that goes into the window arrives in it.
LEMMA UnitArrives ==
  ASSUME IndInv, Unit
  PROVE  Window!Arrive(cur)
<1>1. pc = "unit"
  BY DEF Unit, HandOver
<1>2. /\ cur \in Int /\ TrueNext \in Int /\ Listed \subseteq Int /\ cur >= 0
      /\ Turning \in Int
  <2>1. \A x \in Frames : x >= 0
    BY Constants DEF Frames
  <2> QED
    BY <1>1, <2>1, TypesOfWindow, UnitSetting
<1>3. cur >= Turning /\ cur \notin Listed
  BY UnitMoves
<1>4. Turning = IF TrueNext = -1 THEN cur ELSE TrueNext
  <2>1. CASE On
    BY <1>2, <2>1 DEF Turning, IndInv, AnchorInv
  <2>2. CASE ~On
    BY <2>2, TrueNextIs DEF Turning, IndInv
  <2> QED
    BY <2>1, <2>2
<1>5. TrueNext <= cur
  BY <1>2, <1>3, <1>4
<1> DEFINE t == Turning
           H == Listed \cup {cur}
           s == IF cur >= t + W THEN cur - W + 1 ELSE t
<1>6. Start(t, cur) = s /\ s \in Int
  BY <1>2, Constants DEF Start
<1>7. PICK u \in Int : /\ Moved(Start(t, cur), u, H) /\ TrueNext' = u
                       /\ Listed' = {h \in H : h >= u}
  BY UnitWindow
<1>8. H \subseteq Int
  BY <1>2
<1>9. Window!MoveTo(s, H)
  <2> HIDE DEF H, s
  <2> QED
    BY <1>6, <1>7, <1>8, MoveIsMoveTo
<1> QED
  BY <1>3, <1>4, <1>5, <1>9 DEF Window!Arrive, Window!None

\* The worker gives up the gap in front of the first frame held.
LEMMA WorkerGivesUp ==
  ASSUME IndInv, Worker, list # <<>>
  PROVE  Window!GiveUp
<1> DEFINE s == list[1]
           H == Listed
           P(n) == \A h \in H : n <= h
<1>1. /\ s \in H /\ s \in Int /\ P(s)
  BY FirstHeld
<1>2. H \subseteq Int
  BY TypesOfWindow
<1>3. \A n \in H : P(n) => n = s
  BY <1>1, <1>2
<1>4. PICK u \in Int : Moved(s, u, H) /\ TrueNext' = u /\ Listed' = {h \in H : h >= u}
  BY WorkerWindow
<1>5. Window!MoveTo(s, H)
  <2> HIDE DEF H, s
  <2> QED
    BY <1>1, <1>2, <1>4, MoveIsMoveTo
<1>6. (CHOOSE n \in H : P(n)) = s
  <2> HIDE DEF H, s, P
  <2> QED
    BY <1>1, <1>3
<1> QED
  BY <1>1, <1>5, <1>6 DEF Window!GiveUp

\* Steps that deliver nothing and leave the window alone.
LEMMA StaysQuiet ==
  ASSUME IndInv, \/ Send \/ Lose \/ Alloc \/ WrongType \/ NoWindow \/ Lookup \/ UnitDuplicate
                 \/ FlushTimer \/ FlushWork \/ TimerFires \/ WorkStarts
                 \/ FlushTid /\ ~enable
                 \/ Worker /\ list = <<>>
  PROVE  Window!Quiet
<1>1. out' = <<>> /\ UNCHANGED list
  BY WorkerFindsNone DEF Send, Lose, Alloc, WrongType, NoWindow, TurnAway, Lookup,
     UnitDuplicate, FlushTimer, FlushWork, TimerFires, WorkStarts, FlushTid
<1>2. \/ UNCHANGED <<top, enable, ind_sn>>
      \/ Lookup /\ ~On /\ ~On'
  <2>1. CASE Lookup
    <3>1. CASE enable
      BY <2>1, <3>1, Zenon DEF Lookup, IndInv, TypeOK
    <3>2. CASE ~enable
      BY <2>1, <3>2 DEF Lookup, On
    <3> QED
      BY <3>1, <3>2
  <2>2. CASE UnitDuplicate
    BY <2>2, DuplicateKeeps
  <2>3. CASE Worker /\ list = <<>>
    BY <2>3, WorkerFindsNone
  <2>4. CASE \/ Send \/ Lose \/ Alloc \/ WrongType \/ NoWindow
             \/ FlushTimer \/ FlushWork \/ TimerFires \/ WorkStarts
             \/ FlushTid /\ ~enable
    BY <2>4 DEF Send, Lose, Alloc, WrongType, NoWindow, TurnAway, FlushTimer, FlushWork,
       TimerFires, WorkStarts, FlushTid
  <2> QED
    BY <2>1, <2>2, <2>3, <2>4
<1>3. TrueNext' = TrueNext
  BY <1>2 DEF TrueNext, On
<1>4. Listed' = Listed
  BY <1>1 DEF Listed
<1> QED
  BY <1>1, <1>3, <1>4 DEF Window!Quiet

\* The flush gives the window up and delivers what it held.
LEMMA FlushTidFlushes ==
  ASSUME IndInv, FlushTid, enable
  PROVE  Window!Flush
<1>1. out' = list /\ list' = <<>> /\ ~enable'
  BY DEF FlushTid
<1>2. TrueNext' = -1 /\ Listed' = {}
  BY <1>1 DEF TrueNext, Listed
<1>3. Window!InOrder(list, Listed)
  BY TypesOfWindow, ListInOrder
<1>4. Window!InOrder(out', Listed)
  BY <1>1, <1>3
<1> QED
  BY <1>2, <1>4 DEF Window!Flush, Window!None

LEMMA NextWindow ==
  ASSUME IndInv, [Next]_vars
  PROVE  [Window!Next]_<<TrueNext, Listed, out>>
<1>1. cur \in 0..(N - 1)
  BY DEF IndInv, TypeOK
<1>2. CASE UNCHANGED vars
  BY <1>2 DEF vars, TrueNext, Listed
<1>3. CASE \/ Send \/ Lose \/ Alloc \/ WrongType \/ NoWindow \/ Lookup \/ UnitDuplicate
           \/ FlushTimer \/ FlushWork \/ TimerFires \/ WorkStarts
  BY <1>3, StaysQuiet DEF Window!Next
<1>4. CASE FlushTid
  BY <1>4, StaysQuiet, FlushTidFlushes DEF Window!Next
<1>5. CASE Worker
  BY <1>5, StaysQuiet, WorkerGivesUp DEF Window!Next
<1>6. CASE UnitLate
  <2>1. cur < TrueNext /\ out' \in {<<>>, <<cur>>} /\ TrueNext' = TrueNext /\ Listed' = Listed
    BY <1>6, LateKeeps, WindowKept DEF IndInv
  <2>2. Window!ArriveLate(cur)
    BY <2>1 DEF Window!ArriveLate
  <2> QED
    BY <1>1, <2>2 DEF Window!Next
<1>7. CASE Unit
  BY <1>1, <1>7, UnitArrives DEF Window!Next
<1>8. CASE Direct
  <2>1. ~enable /\ ~enable' /\ out' = <<cur>> /\ UNCHANGED list
    BY <1>8 DEF Direct, IndInv, ControlInv
  <2>2. Window!Bypass(cur)
    BY <2>1 DEF Window!Bypass, Window!None, TrueNext, Listed
  <2> QED
    BY <1>1, <2>2 DEF Window!Next
<1> QED
  BY <1>2, <1>3, <1>4, <1>5, <1>6, <1>7, <1>8 DEF Next, RxStep

\* Arithmetic modulo M, the loops that break off at the first gap, the timer, the
\* worker and the flush do for the sequence numbers what the abstract window does
\* for the true numbers of the frames.
THEOREM WindowDeliversInOrder == Spec => ImplementsWindow
<1>1. Init => Window!Init
  BY InitWindow
<1>2. IndInv /\ [Next]_vars => [Window!Next]_<<TrueNext, Listed, out>>
  BY NextWindow
<1> QED
  BY <1>1, <1>2, SpecIndInv, PTL DEF Spec, ImplementsWindow, Window!Spec

=============================================================================
