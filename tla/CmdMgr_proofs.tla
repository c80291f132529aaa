---------------------------- MODULE CmdMgr_proofs ----------------------------
(***************************************************************************)
(* Proofs about CmdMgr for every number of senders, commands and message   *)
(* types, and every limit of the list.                                     *)
(***************************************************************************)
EXTENDS CmdMgr, TLAPS, OrderFacts, SequenceTheorems, FiniteSetTheorems

-----------------------------------------------------------------------------
(* The two operations on the list.                                         *)

\* list_add_tail: the old elements keep their places, the new one is last.
LEMMA AppendFacts ==
    ASSUME NEW S, NEW q \in Seq(S), NEW e \in S
    PROVE  /\ Append(q, e) \in Seq(S)
           /\ DOMAIN Append(q, e) = DOMAIN q \cup {Len(q) + 1}
           /\ \A i \in DOMAIN q : Append(q, e)[i] = q[i]
           /\ Append(q, e)[Len(q) + 1] = e
           /\ \A i \in DOMAIN q : i < Len(q) + 1
           /\ DOMAIN q = 1..Len(q)
  OBVIOUS

\* list_del: every element but one, in the same order.
LEMMA WithoutFacts ==
    ASSUME NEW S, NEW q \in Seq(S), NEW i \in DOMAIN q
    PROVE  /\ Without(q, i) \in Seq(S)
           /\ DOMAIN Without(q, i) = 1..(Len(q) - 1)
           /\ \A j \in DOMAIN Without(q, i) :
                /\ j < i => j \in DOMAIN q /\ Without(q, i)[j] = q[j]
                /\ ~(j < i) => j + 1 \in DOMAIN q /\ Without(q, i)[j] = q[j + 1]
           /\ \A k \in DOMAIN q :
                /\ k < i => k \in DOMAIN Without(q, i)
                /\ k > i => k - 1 \in DOMAIN Without(q, i)
  <1>1. DOMAIN q = 1..Len(q) /\ Len(q) \in Nat /\ \A k \in 1..Len(q) : q[k] \in S
    OBVIOUS
  <1>2. DOMAIN Without(q, i) = 1..(Len(q) - 1)
    BY DEF Without
  <1>3. \A j \in 1..(Len(q) - 1) :
            Without(q, i)[j] = IF j < i THEN q[j] ELSE q[j + 1]
    BY DEF Without
  <1>4. \A j \in 1..(Len(q) - 1) : Without(q, i)[j] \in S
    BY <1>1, <1>3
  <1>5. Len(q) - 1 \in Nat
    BY <1>1
  <1>6. Without(q, i) \in [1..(Len(q) - 1) -> S]
    BY <1>2, <1>4 DEF Without
  <1>7. Without(q, i) \in Seq(S)
    BY <1>5, <1>6
  <1> QED
    BY <1>1, <1>2, <1>3, <1>7

\* The elements after list_del are the elements before, less the removed one.
LEMMA WithoutElements ==
    ASSUME NEW S, NEW q \in Seq(S), NEW i \in DOMAIN q,
           \A j, k \in DOMAIN q : q[j] = q[k] => j = k
    PROVE  /\ {Without(q, i)[j] : j \in DOMAIN Without(q, i)}
                = {q[j] : j \in DOMAIN q} \ {q[i]}
           /\ \A j, k \in DOMAIN Without(q, i) :
                Without(q, i)[j] = Without(q, i)[k] => j = k
  <1> DEFINE w == Without(q, i)
  <1>1. DOMAIN q = 1..Len(q) /\ Len(q) \in Nat
    OBVIOUS
  <1>2. ASSUME NEW j \in DOMAIN w
        PROVE  w[j] \in {q[k] : k \in DOMAIN q} \ {q[i]}
    <2>0. j \in Nat /\ i \in Nat
      BY <1>1, WithoutFacts
    <2>1. CASE j < i
      <3>1. j \in DOMAIN q /\ w[j] = q[j] /\ j # i
        BY <2>0, <2>1, WithoutFacts
      <3> QED BY <3>1
    <2>2. CASE ~(j < i)
      <3>1. j + 1 \in DOMAIN q /\ w[j] = q[j + 1] /\ j + 1 # i
        BY <2>0, <2>2, WithoutFacts
      <3> QED BY <3>1
    <2> QED BY <2>1, <2>2
  <1>3. ASSUME NEW k \in DOMAIN q, q[k] # q[i]
        PROVE  \E j \in DOMAIN w : w[j] = q[k]
    <2>1. CASE k < i
      BY <2>1, <1>1, WithoutFacts
    <2>2. CASE k > i
      <3>1. k - 1 \in DOMAIN w /\ ~(k - 1 < i) /\ (k - 1) + 1 = k
        BY <2>2, <1>1, WithoutFacts
      <3> QED BY <3>1, WithoutFacts
    <2> QED BY <2>1, <2>2, <1>1, <1>3
  <1>4. ASSUME NEW j \in DOMAIN w, NEW k \in DOMAIN w, w[j] = w[k]
        PROVE  j = k
    <2>1. j \in Nat /\ k \in Nat /\ i \in Nat
      BY <1>1, WithoutFacts
    <2>2. CASE j < i /\ k < i
      BY <2>1, <2>2, <1>4, WithoutFacts
    <2>3. CASE j < i /\ ~(k < i)
      BY <2>1, <2>3, <1>4, WithoutFacts
    <2>4. CASE ~(j < i) /\ k < i
      BY <2>1, <2>4, <1>4, WithoutFacts
    <2>5. CASE ~(j < i) /\ ~(k < i)
      BY <2>1, <2>5, <1>4, WithoutFacts
    <2> QED BY <2>2, <2>3, <2>4, <2>5
  <1> QED BY <1>2, <1>3, <1>4

-----------------------------------------------------------------------------
(* The inductive invariant, one lemma per action.                          *)

LEMMA InitIndInv == Init => IndInv
  <1> SUFFICES ASSUME Init PROVE IndInv
    OBVIOUS
  <1> USE CmdMgrAssumption DEF Init, Queued
  <1>1. TypeOK
    <2>1. cmds \in Seq(Slots) /\ state \in {"inited", "crashed"}
      OBVIOUS
    <2>2. msg \in [Slots -> Msgs \cup {None}] /\ mine \in [Threads -> Slots \cup {None}]
      OBVIOUS
    <2> QED BY <2>1, <2>2 DEF TypeOK
  <1>2. PoolAgrees
    BY DEF PoolAgrees, Unlisted, Threads
  <1>3. ThreadsConsistent
    BY DEF ThreadsConsistent, Threads, Working
  <1>4. FlagsConsistent /\ PacketsConsistent /\ DeferredBehindBusy
    BY DEF FlagsConsistent, PacketsConsistent, DeferredBehindBusy
  <1> QED BY <1>1, <1>2, <1>3, <1>4 DEF IndInv

LEMMA SendIndInv ==
    ASSUME IndInv, NEW t \in Senders, Send(t)
    PROVE  IndInv'
  <1> USE CmdMgrAssumption DEF IndInv, Send, TypeOK, Threads
  <1>1. PICK m \in Msgs, s \in Slots :
            /\ msg[s] = None
            /\ msg' = [msg EXCEPT ![s] = m]
            /\ mine' = [mine EXCEPT ![t] = s]
    OBVIOUS
  <1>2. Queued' = Queued /\ s \notin Queued
    BY <1>1 DEF Queued, PoolAgrees
  <1>3. TypeOK'
    BY <1>1
  <1>4. PoolAgrees'
    BY <1>1, <1>2 DEF PoolAgrees, Unlisted, ThreadsConsistent, Working
  <1>5. ThreadsConsistent'
    BY <1>1, <1>2 DEF ThreadsConsistent, Working
  <1>6. FlagsConsistent'
    BY <1>1, <1>2 DEF FlagsConsistent
  <1>7. PacketsConsistent'
    BY <1>1, <1>2 DEF PacketsConsistent, Carries, InFlight
  <1>8. DeferredBehindBusy'
    BY DEF DeferredBehindBusy
  <1> QED BY <1>3, <1>4, <1>5, <1>6, <1>7, <1>8

LEMMA RefusedIndInv ==
    ASSUME IndInv, NEW t \in Senders, FreeRefused(t), lock' \in Threads \cup {None}
    PROVE  IndInv'
  <1> USE CmdMgrAssumption DEF IndInv, TypeOK, Threads, FreeRefused, Return
  <1>2. Queued' = Queued
    BY DEF Queued
  <1>3. TypeOK'
    OBVIOUS
  <1>4. PoolAgrees'
    BY <1>2 DEF PoolAgrees, Unlisted, ThreadsConsistent, Working
  <1>5. ThreadsConsistent'
    BY <1>2 DEF ThreadsConsistent, Working, PoolAgrees, Unlisted
  <1>6. FlagsConsistent'
    BY <1>2 DEF FlagsConsistent, PoolAgrees, Unlisted
  <1>7. PacketsConsistent'
    BY <1>2 DEF PacketsConsistent, Carries, InFlight, PoolAgrees, Unlisted
  <1>8. DeferredBehindBusy'
    BY DEF DeferredBehindBusy
  <1> QED BY <1>3, <1>4, <1>5, <1>6, <1>7, <1>8

LEMMA SendNullIndInv ==
    ASSUME IndInv, NEW t \in Senders, SendNull(t)
    PROVE  IndInv'
  <1> USE CmdMgrAssumption DEF IndInv, TypeOK, Threads, SendNull
  <1>2. Queued' = Queued
    BY DEF Queued
  <1>3. TypeOK'
    OBVIOUS
  <1>4. PoolAgrees'
    BY <1>2 DEF PoolAgrees, Unlisted, ThreadsConsistent, Working
  <1>5. ThreadsConsistent'
    BY <1>2 DEF ThreadsConsistent, Working, PoolAgrees, Unlisted
  <1>6. FlagsConsistent'
    BY <1>2 DEF FlagsConsistent, PoolAgrees, Unlisted
  <1>7. PacketsConsistent'
    BY <1>2 DEF PacketsConsistent, Carries, InFlight, PoolAgrees, Unlisted
  <1>8. DeferredBehindBusy'
    BY DEF DeferredBehindBusy
  <1> QED BY <1>3, <1>4, <1>5, <1>6, <1>7, <1>8

LEMMA SendNoCfmIndInv ==
    ASSUME IndInv, NEW t \in Senders, SendNoCfm(t)
    PROVE  IndInv'
  <1> USE CmdMgrAssumption DEF IndInv, TypeOK, Threads, SendNoCfm, Return, KindOf, Packet, Packets
  <1>2. Queued' = Queued
    BY DEF Queued
  <1>1. mine[t] \in Slots /\ msg[mine[t]] \in Msgs
    BY DEF ThreadsConsistent, PoolAgrees, Unlisted
  <1>3. TypeOK'
    BY <1>1
  <1>4. PoolAgrees'
    BY <1>2 DEF PoolAgrees, Unlisted, ThreadsConsistent, Working
  <1>5. ThreadsConsistent'
    BY <1>2 DEF ThreadsConsistent, Working, PoolAgrees, Unlisted
  <1>6. FlagsConsistent'
    BY <1>2 DEF FlagsConsistent, PoolAgrees, Unlisted
  <1>7. PacketsConsistent'
    BY <1>2 DEF PacketsConsistent, Carries, InFlight, PoolAgrees, Unlisted
  <1>8. DeferredBehindBusy'
    BY DEF DeferredBehindBusy
  <1> QED BY <1>3, <1>4, <1>5, <1>6, <1>7, <1>8

\* All the ways into the list; the last command decides whether to defer.
LEMMA EnqueueIndInv ==
    ASSUME IndInv, NEW t \in Senders, NEW defer \in BOOLEAN,
           pc[t] = "queue", KindOf(t) # "nocfm",
           Enqueue(mine[t], defer), defer \/ ~LastBusy, work' \in BOOLEAN,
           \/ /\ ~defer
              /\ pc' = [pc EXCEPT ![t] = "push"]
              /\ mine' = mine
           \/ /\ defer
              /\ \E c \in {"idle", "check"} : pc' = [pc EXCEPT ![t] = c]
              /\ mine' = [mine EXCEPT ![t] = None]
    PROVE  IndInv'
  <1> USE CmdMgrAssumption DEF IndInv, TypeOK, Threads, Enqueue
  <1> DEFINE s == mine[t]
  <1>1. s \in Slots /\ msg[s] \in Msgs /\ s \notin Queued /\ s \in Unlisted
    BY DEF ThreadsConsistent, PoolAgrees, Unlisted
  <1>2. /\ cmds' \in Seq(Slots)
        /\ DOMAIN cmds' = DOMAIN cmds \cup {Len(cmds) + 1}
        /\ \A i \in DOMAIN cmds : cmds'[i] = cmds[i]
        /\ cmds'[Len(cmds) + 1] = s
    BY <1>1, AppendFacts
  <1>3. Queued' = Queued \cup {s}
    BY <1>2 DEF Queued
  <1>4. s \notin waitPush /\ s \notin waitCfm /\ s \notin complete
    BY <1>1 DEF FlagsConsistent
  <1>5. TypeOK'
    <2>1. pc' \in [Threads -> {"idle", "queue", "check", "push", "wait", "wake",
                               "timedout", "complete", "scan", "dead"}]
      OBVIOUS
    <2> QED BY <1>1, <1>2, <2>1
  <1>6. PoolAgrees'
    <2>1. Unlisted' = Unlisted \ {s}
      BY <1>1 DEF Unlisted, PoolAgrees
    <2>2. \A i, j \in DOMAIN cmds' : cmds'[i] = cmds'[j] => i = j
      BY <1>1, <1>2 DEF Queued, PoolAgrees
    <2>3. {u \in Slots : msg'[u] # None} = Queued' \cup Unlisted'
      BY <1>1, <1>3, <2>1 DEF PoolAgrees
    <2> QED BY <1>1, <1>3, <2>1, <2>2, <2>3 DEF PoolAgrees
  <1>7. ThreadsConsistent'
    <2>1. pc'[Worker] = "push" =>
            cmds' # <<>> /\ mine'[Worker] = cmds'[1] /\ mine'[Worker] \in waitPush'
      <3>1. SUFFICES ASSUME pc'[Worker] = "push"
                     PROVE  cmds' # <<>> /\ mine'[Worker] = cmds'[1]
                                /\ mine'[Worker] \in waitPush'
        OBVIOUS
      <3>2. cmds # <<>> /\ mine[Worker] = cmds[1] /\ mine[Worker] \in waitPush
        BY <3>1 DEF ThreadsConsistent
      <3>3. 1 \in DOMAIN cmds
        BY <3>2
      <3> QED BY <1>2, <3>2, <3>3
    <2> QED
      BY <1>1, <1>3, <1>4, <2>1 DEF ThreadsConsistent, Working, PoolAgrees
  <1>8. FlagsConsistent'
    BY <1>1, <1>3, <1>4 DEF FlagsConsistent, KindOf
  <1>9. PacketsConsistent'
    <2>1. ASSUME NEW p \in Packets, Carries(p) PROVE Carries(p)'
      BY <1>1, <1>3, <1>4, <2>1 DEF Carries, InFlight, ThreadsConsistent
    <2> QED BY <2>1 DEF PacketsConsistent
  <1>10. DeferredBehindBusy'
    <2>1. SUFFICES ASSUME NEW i \in DOMAIN cmds', NEW j \in DOMAIN cmds', i < j,
                          cmds'[i] \in waitPush' \cup waitCfm'
                   PROVE  cmds'[j] \in waitPush'
      BY DEF DeferredBehindBusy
    <2>2. i \in DOMAIN cmds
      BY <1>2, <2>1, AppendFacts
    <2>3. cmds[i] \in waitPush \cup waitCfm
      BY <1>1, <1>2, <2>1, <2>2 DEF Queued
    <2>4. CASE j \in DOMAIN cmds
      BY <1>2, <2>1, <2>2, <2>3, <2>4 DEF DeferredBehindBusy
    <2>5. CASE j = Len(cmds) + 1
      <3>1. cmds # <<>> /\ Len(cmds) \in DOMAIN cmds /\ i <= Len(cmds)
        BY <2>2
      <3>2. LastBusy
        BY <2>2, <2>3, <3>1 DEF LastBusy, DeferredBehindBusy
      <3> QED BY <1>2, <2>5, <3>2
    <2> QED BY <1>2, <2>4, <2>5
  <1> QED BY <1>5, <1>6, <1>7, <1>8, <1>9, <1>10

LEMMA CheckWakeIndInv ==
    ASSUME IndInv, NEW t \in Senders, CheckWake(t)
    PROVE  IndInv'
  <1> USE CmdMgrAssumption DEF IndInv, TypeOK, Threads, CheckWake, Return
  <1>2. Queued' = Queued
    BY DEF Queued
  <1>3. TypeOK'
    OBVIOUS
  <1>4. PoolAgrees'
    BY <1>2 DEF PoolAgrees, Unlisted, ThreadsConsistent, Working
  <1>5. ThreadsConsistent'
    BY <1>2 DEF ThreadsConsistent, Working, PoolAgrees, Unlisted
  <1>6. FlagsConsistent'
    BY <1>2 DEF FlagsConsistent, PoolAgrees, Unlisted
  <1>7. PacketsConsistent'
    BY <1>2 DEF PacketsConsistent, Carries, InFlight, PoolAgrees, Unlisted
  <1>8. DeferredBehindBusy'
    BY DEF DeferredBehindBusy
  <1> QED BY <1>3, <1>4, <1>5, <1>6, <1>7, <1>8

LEMMA WakeNextIndInv ==
    ASSUME IndInv, NEW t \in Senders, WakeNext(t)
    PROVE  IndInv'
  <1> USE CmdMgrAssumption DEF IndInv, TypeOK, Threads, WakeNext, Return
  <1>2. Queued' = Queued
    BY DEF Queued
  <1>3. TypeOK'
    OBVIOUS
  <1>4. PoolAgrees'
    BY <1>2 DEF PoolAgrees, Unlisted, ThreadsConsistent, Working
  <1>5. ThreadsConsistent'
    BY <1>2 DEF ThreadsConsistent, Working, PoolAgrees, Unlisted
  <1>6. FlagsConsistent'
    BY <1>2 DEF FlagsConsistent, PoolAgrees, Unlisted
  <1>7. PacketsConsistent'
    BY <1>2 DEF PacketsConsistent, Carries, InFlight, PoolAgrees, Unlisted
  <1>8. DeferredBehindBusy'
    BY DEF DeferredBehindBusy
  <1> QED BY <1>3, <1>4, <1>5, <1>6, <1>7, <1>8

LEMMA PushIndInv ==
    ASSUME IndInv, NEW t \in Threads, Push(t)
    PROVE  IndInv'
  <1> USE CmdMgrAssumption DEF IndInv, TypeOK, Threads, Push, Packet, Packets
  <1>2. Queued' = Queued
    BY DEF Queued
  <1>1. mine[t] \in Slots /\ msg[mine[t]] \in Msgs /\ mine[t] \in Queued
    BY DEF ThreadsConsistent, PoolAgrees, Working
  <1>3. TypeOK'
    BY <1>1
  <1>4. PoolAgrees'
    BY <1>2 DEF PoolAgrees, Unlisted, ThreadsConsistent, Working
  <1>5. ThreadsConsistent'
    BY <1>2 DEF ThreadsConsistent, Working, PoolAgrees, Unlisted
  <1>6. FlagsConsistent'
    BY <1>2 DEF FlagsConsistent, PoolAgrees, Unlisted
  <1>7. PacketsConsistent'
    <2>1. \A q \in fw : Carries(q)'
      BY <1>2 DEF PacketsConsistent, Carries, InFlight
    <2>2. mine[t] \in waitCfm
      BY DEF ThreadsConsistent
    <2>3. Carries(Packet(mine[t]))'
      BY <1>1, <1>2, <2>2 DEF Carries, InFlight, PoolAgrees
    <2>4. Packet(mine[t]) \notin fw
      BY DEF PacketsConsistent, Carries
    <2> QED BY <2>1, <2>3, <2>4 DEF PacketsConsistent
  <1>8. DeferredBehindBusy'
    <2>1. CASE t \in Senders
      <3>1. waitPush' = waitPush
        BY <2>1 DEF ThreadsConsistent, Working
      <3> QED BY <3>1 DEF DeferredBehindBusy
    <2>2. CASE t = Worker
      <3>1. cmds # <<>> /\ mine[t] = cmds[1]
        BY <2>2 DEF ThreadsConsistent
      <3>2. DOMAIN cmds = 1..Len(cmds) /\ Len(cmds) \in Nat \ {0}
        BY <3>1
      <3>3. ASSUME NEW i \in DOMAIN cmds, NEW j \in DOMAIN cmds, i < j,
                   cmds[i] \in waitPush' \cup waitCfm
            PROVE  cmds[j] \in waitPush'
        <4>1. cmds[j] \in waitPush
          BY <3>3 DEF DeferredBehindBusy
        <4>2. j # 1 /\ 1 \in DOMAIN cmds
          BY <3>2, <3>3
        <4>3. cmds[j] # cmds[1]
          BY <4>2 DEF PoolAgrees
        <4> QED BY <3>1, <4>1, <4>3
      <3> QED BY <3>3 DEF DeferredBehindBusy
    <2> QED BY <2>1, <2>2
  <1> QED BY <1>3, <1>4, <1>5, <1>6, <1>7, <1>8

\* The same for the commands of the list.
LEMMA QueuedAfterRemove ==
    ASSUME NEW n \in DOMAIN cmds, cmds \in Seq(Slots), cmds' = Without(cmds, n),
           \A j, k \in DOMAIN cmds : cmds[j] = cmds[k] => j = k
    PROVE  Queued' = Queued \ {cmds[n]}
  <1>1. {Without(cmds, n)[j] : j \in DOMAIN Without(cmds, n)}
          = {cmds[j] : j \in DOMAIN cmds} \ {cmds[n]}
    BY WithoutElements
  <1> QED BY <1>1 DEF Queued

LEMMA RemoveIndInv ==
    ASSUME IndInv, NEW t \in Threads, Remove(t)
    PROVE  IndInv'
  <1> USE CmdMgrAssumption DEF IndInv, TypeOK, Threads, Remove
  <1> DEFINE s == mine[t]
  <1>1. PICK n \in DOMAIN cmds : cmds[n] = s /\ cmds' = Without(cmds, n)
    OBVIOUS
  <1>2. s \in Slots /\ s \in Queued /\ s \notin waitCfm /\ s \notin waitPush
    BY DEF FlagsConsistent
  <1>3. /\ cmds' \in Seq(Slots)
        /\ DOMAIN cmds' = 1..(Len(cmds) - 1)
        /\ \A j \in DOMAIN cmds' :
             /\ j < n => j \in DOMAIN cmds /\ cmds'[j] = cmds[j]
             /\ ~(j < n) => j + 1 \in DOMAIN cmds /\ cmds'[j] = cmds[j + 1]
        /\ \A k \in DOMAIN cmds : k < n => k \in DOMAIN cmds'
    BY <1>1, WithoutFacts
  <1>4. Queued' = Queued \ {s}
    <2>1. \A j, k \in DOMAIN cmds : cmds[j] = cmds[k] => j = k
      BY DEF PoolAgrees
    <2> QED BY <1>1, <2>1, QueuedAfterRemove
  <1>5. TypeOK'
    BY <1>3
  <1>6. PoolAgrees'
    <2>1. \A i, j \in DOMAIN cmds' : cmds'[i] = cmds'[j] => i = j
      BY <1>1, WithoutElements DEF PoolAgrees
    <2>2. Unlisted' = Unlisted
      BY DEF Unlisted
    <2> QED BY <1>2, <1>4, <2>1, <2>2 DEF PoolAgrees
  <1>7. ThreadsConsistent'
    <2>1. pc'[Worker] = "push" =>
            cmds' # <<>> /\ mine'[Worker] = cmds'[1] /\ mine'[Worker] \in waitPush'
      <3>1. SUFFICES ASSUME pc'[Worker] = "push"
                     PROVE  cmds' # <<>> /\ mine'[Worker] = cmds'[1]
                                /\ mine'[Worker] \in waitPush'
        OBVIOUS
      <3>2. t # Worker /\ pc[Worker] = "push"
        BY <3>1
      <3>3. cmds # <<>> /\ mine[Worker] = cmds[1] /\ mine[Worker] \in waitPush
        BY <3>2 DEF ThreadsConsistent
      <3>4. 1 \in DOMAIN cmds /\ n # 1 /\ n \in Nat /\ 1 < n
        BY <1>1, <1>2, <3>3
      <3>5. 1 \in DOMAIN cmds' /\ cmds'[1] = cmds[1]
        BY <1>3, <3>4
      <3>6. cmds' # <<>>
        BY <3>5
      <3> QED BY <3>2, <3>3, <3>5, <3>6
    <2> QED
      BY <1>2, <1>4, <2>1 DEF ThreadsConsistent, Working, PoolAgrees
  <1>8. FlagsConsistent'
    BY <1>2, <1>4 DEF FlagsConsistent
  <1>9. PacketsConsistent'
    <2>1. ASSUME NEW p \in Packets, Carries(p) PROVE Carries(p)'
      BY <1>2, <1>4, <2>1 DEF Carries, InFlight
    <2> QED BY <2>1 DEF PacketsConsistent
  <1>10. DeferredBehindBusy'
    <2>1. SUFFICES ASSUME NEW i \in DOMAIN cmds', NEW j \in DOMAIN cmds', i < j,
                          cmds'[i] \in waitPush \cup waitCfm
                   PROVE  cmds'[j] \in waitPush
      BY DEF DeferredBehindBusy
    <2>2. \E k, l \in DOMAIN cmds :
            k < l /\ cmds[k] = cmds'[i] /\ cmds[l] = cmds'[j]
      <3>1. i \in Nat /\ j \in Nat /\ n \in Nat
        BY <1>3
      <3>2. CASE j < n
        BY <1>3, <2>1, <3>1, <3>2
      <3>3. CASE i < n /\ ~(j < n)
        <4>1. i \in DOMAIN cmds /\ j + 1 \in DOMAIN cmds /\ i < j + 1
          BY <1>3, <2>1, <3>1, <3>3
        <4> QED BY <1>3, <3>3, <4>1
      <3>4. CASE ~(i < n) /\ ~(j < n)
        <4>1. i + 1 \in DOMAIN cmds /\ j + 1 \in DOMAIN cmds /\ i + 1 < j + 1
          BY <1>3, <2>1, <3>1, <3>4
        <4> QED BY <1>3, <3>4, <4>1
      <3> QED BY <2>1, <3>1, <3>2, <3>3, <3>4
    <2> QED BY <2>1, <2>2 DEF DeferredBehindBusy
  <1> QED BY <1>5, <1>6, <1>7, <1>8, <1>9, <1>10

LEMMA TimeOutIndInv ==
    ASSUME IndInv, NEW t \in Threads, TimeOut(t)
    PROVE  IndInv'
  <1> USE CmdMgrAssumption DEF IndInv, TypeOK, Threads, TimeOut
  <1>2. Queued' = Queued
    BY DEF Queued
  <1>3. TypeOK'
    OBVIOUS
  <1>4. PoolAgrees'
    BY <1>2 DEF PoolAgrees, Unlisted, ThreadsConsistent, Working
  <1>5. ThreadsConsistent'
    BY <1>2 DEF ThreadsConsistent, Working, PoolAgrees, Unlisted
  <1>6. FlagsConsistent'
    BY <1>2 DEF FlagsConsistent, PoolAgrees, Unlisted
  <1>7. PacketsConsistent'
    BY <1>2 DEF PacketsConsistent, Carries, InFlight, PoolAgrees, Unlisted
  <1>8. DeferredBehindBusy'
    BY DEF DeferredBehindBusy
  <1> QED BY <1>3, <1>4, <1>5, <1>6, <1>7, <1>8

LEMMA CrashIndInv ==
    ASSUME IndInv, NEW t \in Threads, Crash(t)
    PROVE  IndInv'
  <1> USE CmdMgrAssumption DEF IndInv, TypeOK, Threads, Crash
  <1>2. Queued' = Queued
    BY DEF Queued
  <1>3. TypeOK'
    OBVIOUS
  <1>4. PoolAgrees'
    BY <1>2 DEF PoolAgrees, Unlisted, ThreadsConsistent, Working
  <1>5. ThreadsConsistent'
    BY <1>2 DEF ThreadsConsistent, Working, PoolAgrees, Unlisted
  <1>6. FlagsConsistent'
    BY <1>2 DEF FlagsConsistent, PoolAgrees, Unlisted
  <1>7. PacketsConsistent'
    BY <1>2 DEF PacketsConsistent, Carries, InFlight, PoolAgrees, Unlisted
  <1>8. DeferredBehindBusy'
    BY DEF DeferredBehindBusy
  <1> QED BY <1>3, <1>4, <1>5, <1>6, <1>7, <1>8

LEMMA UnlockIndInv ==
    ASSUME IndInv, NEW t \in Threads, Unlock(t)
    PROVE  IndInv'
  <1> USE CmdMgrAssumption DEF IndInv, TypeOK, Threads, Unlock
  <1>2. Queued' = Queued
    BY DEF Queued
  <1>3. TypeOK'
    OBVIOUS
  <1>4. PoolAgrees'
    BY <1>2 DEF PoolAgrees, Unlisted, ThreadsConsistent, Working
  <1>5. ThreadsConsistent'
    BY <1>2 DEF ThreadsConsistent, Working, PoolAgrees, Unlisted
  <1>6. FlagsConsistent'
    BY <1>2 DEF FlagsConsistent, PoolAgrees, Unlisted
  <1>7. PacketsConsistent'
    BY <1>2 DEF PacketsConsistent, Carries, InFlight, PoolAgrees, Unlisted
  <1>8. DeferredBehindBusy'
    BY DEF DeferredBehindBusy
  <1> QED BY <1>3, <1>4, <1>5, <1>6, <1>7, <1>8

LEMMA WorkStartIndInv ==
    ASSUME IndInv, WorkStart
    PROVE  IndInv'
  <1> USE CmdMgrAssumption DEF IndInv, TypeOK, Threads, WorkStart
  <1>2. Queued' = Queued
    BY DEF Queued
  <1>3. TypeOK'
    OBVIOUS
  <1>4. PoolAgrees'
    BY <1>2 DEF PoolAgrees, Unlisted, ThreadsConsistent, Working
  <1>5. ThreadsConsistent'
    BY <1>2 DEF ThreadsConsistent, Working, PoolAgrees, Unlisted
  <1>6. FlagsConsistent'
    BY <1>2 DEF FlagsConsistent, PoolAgrees, Unlisted
  <1>7. PacketsConsistent'
    BY <1>2 DEF PacketsConsistent, Carries, InFlight, PoolAgrees, Unlisted
  <1>8. DeferredBehindBusy'
    BY DEF DeferredBehindBusy
  <1> QED BY <1>3, <1>4, <1>5, <1>6, <1>7, <1>8

LEMMA ScanIndInv ==
    ASSUME IndInv, Scan
    PROVE  IndInv'
  <1> USE CmdMgrAssumption DEF IndInv, TypeOK, Threads, Scan, Return
  <1>2. Queued' = Queued
    BY DEF Queued
  <1>3. TypeOK'
    BY <1>2
  <1>1. ASSUME cmds # <<>>, cmds[1] \in waitPush
        PROVE  /\ cmds[1] \in Queued
               /\ cmds[1] \in waitCfm
               /\ \A t \in Senders : mine[t] # cmds[1]
    <2>1. 1 \in DOMAIN cmds
      BY <1>1
    <2>2. cmds[1] \in Queued
      BY <2>1 DEF Queued
    <2>3. cmds[1] # None
      BY <2>1
    <2> QED
      BY <1>1, <2>2, <2>3 DEF FlagsConsistent, PoolAgrees, Unlisted,
                              ThreadsConsistent, Working
  <1>4. PoolAgrees'
    BY <1>1, <1>2 DEF PoolAgrees, Unlisted, ThreadsConsistent, Working
  <1>5. ThreadsConsistent'
    BY <1>1, <1>2 DEF ThreadsConsistent, Working, PoolAgrees, Unlisted
  <1>6. FlagsConsistent'
    BY <1>2 DEF FlagsConsistent, PoolAgrees, Unlisted
  <1>7. PacketsConsistent'
    BY <1>2 DEF PacketsConsistent, Carries, InFlight, PoolAgrees, Unlisted
  <1>8. DeferredBehindBusy'
    BY DEF DeferredBehindBusy
  <1> QED BY <1>3, <1>4, <1>5, <1>6, <1>7, <1>8

LEMMA TransmitIndInv ==
    ASSUME IndInv, Transmit
    PROVE  IndInv'
  <1> USE CmdMgrAssumption DEF IndInv, TypeOK, Threads, Transmit, Packets
  <1>2. Queued' = Queued
    BY DEF Queued
  <1>3. TypeOK'
    OBVIOUS
  <1>4. PoolAgrees'
    BY <1>2 DEF PoolAgrees, Unlisted, ThreadsConsistent, Working
  <1>5. ThreadsConsistent'
    BY <1>2 DEF ThreadsConsistent, Working, PoolAgrees, Unlisted
  <1>6. FlagsConsistent'
    BY <1>2 DEF FlagsConsistent, PoolAgrees, Unlisted
  <1>7. PacketsConsistent'
    BY <1>2 DEF PacketsConsistent, Carries, InFlight, PoolAgrees, Unlisted
  <1>8. DeferredBehindBusy'
    BY DEF DeferredBehindBusy
  <1> QED BY <1>3, <1>4, <1>5, <1>6, <1>7, <1>8

\* At most one command is pushed and unconfirmed, because those behind wait.
LEMMA OutstandingUnique ==
    ASSUME TypeOK, DeferredBehindBusy
    PROVE  OneOutstanding
  <1> SUFFICES ASSUME NEW s \in InFlight, NEW u \in InFlight PROVE s = u
    BY DEF OneOutstanding
  <1>1. PICK i \in DOMAIN cmds : cmds[i] = s
    BY DEF InFlight, Queued
  <1>2. PICK j \in DOMAIN cmds : cmds[j] = u
    BY DEF InFlight, Queued
  <1>3. i \in Nat /\ j \in Nat
    BY DEF TypeOK
  <1>4. ~(i < j) /\ ~(j < i)
    BY <1>1, <1>2 DEF DeferredBehindBusy, InFlight
  <1> QED BY <1>1, <1>2, <1>3, <1>4

\* The command that accepts a packet's confirmation is the packet's own.
LEMMA AcceptingOwn ==
    ASSUME IndInv, NEW p \in fw
    PROVE  Accepting(p.msg) = {p.slot}
  <1> USE DEF IndInv
  <1>1. p.slot \in InFlight /\ msg[p.slot] = p.msg
    BY DEF PacketsConsistent, Carries
  <1>2. PICK k \in DOMAIN cmds : cmds[k] = p.slot
    BY <1>1 DEF InFlight, Queued
  <1>3. Awaits(k, p.msg)
    BY <1>1, <1>2 DEF Awaits, InFlight
  <1>4. DOMAIN cmds = 1..Len(cmds) /\ Len(cmds) \in Nat
    BY DEF TypeOK
  <1>5. ASSUME NEW i \in DOMAIN cmds, i < k PROVE ~Awaits(i, p.msg)
    BY <1>1, <1>2, <1>5 DEF Awaits, DeferredBehindBusy, InFlight
  <1>6. \A j \in 1..(k - 1) : ~Awaits(j, p.msg)
    BY <1>4, <1>5
  <1>7. ASSUME NEW i \in DOMAIN cmds, Awaits(i, p.msg),
               \A j \in 1..(i - 1) : ~Awaits(j, p.msg)
        PROVE  i = k
    <2>1. ~(i < k)
      BY <1>5, <1>7
    <2>2. ~(k < i)
      BY <1>3, <1>4, <1>7
    <2> QED BY <1>4, <2>1, <2>2
  <1> QED BY <1>2, <1>3, <1>6, <1>7 DEF Accepting

LEMMA MsgIndIndInv ==
    ASSUME IndInv, NEW p \in fw, MsgInd(p)
    PROVE  IndInv'
  <1> USE CmdMgrAssumption DEF IndInv, TypeOK, Threads, MsgInd, Packets
  <1>1. waitCfm' = waitCfm \ {p.slot} /\ complete' = complete \cup {p.slot}
    BY AcceptingOwn
  <1>2. Queued' = Queued
    BY DEF Queued
  <1>3. Carries(p) /\ p.slot \in InFlight
    BY DEF PacketsConsistent, Carries
  <1>4. TypeOK'
    BY <1>1
  <1>5. PoolAgrees'
    BY <1>2 DEF PoolAgrees, Unlisted
  <1>6. ThreadsConsistent'
    BY <1>1, <1>2, <1>3 DEF ThreadsConsistent, Carries
  <1>7. FlagsConsistent'
    BY <1>1, <1>2, <1>3 DEF FlagsConsistent, InFlight
  <1>8. PacketsConsistent'
    <2>1. ASSUME NEW q \in Packets, Carries(q) PROVE q = p
      BY <1>3, <2>1, OutstandingUnique DEF Carries, OneOutstanding
    <2>2. fw' = {}
      BY <2>1 DEF PacketsConsistent
    <2>3. mbox # None => Kind[mbox.msg] = "nocfm"
      BY <2>1 DEF PacketsConsistent
    <2> QED BY <2>2, <2>3 DEF PacketsConsistent
  <1>9. DeferredBehindBusy'
    BY <1>1 DEF DeferredBehindBusy
  <1> QED BY <1>4, <1>5, <1>6, <1>7, <1>8, <1>9

-----------------------------------------------------------------------------
(* The size of the pool.                                                   *)

\* The commands of the list are no more than its places.
LEMMA QueuedCount ==
    ASSUME cmds \in Seq(Slots)
    PROVE  IsFiniteSet(Queued) /\ Cardinality(Queued) <= Len(cmds)
  <1>1. Len(cmds) \in Nat /\ DOMAIN cmds = 1..Len(cmds)
    OBVIOUS
  <1>2. IsFiniteSet(1..Len(cmds)) /\ Cardinality(1..Len(cmds)) = Len(cmds)
    BY <1>1, FS_Interval
  <1> DEFINE f == [i \in 1..Len(cmds) |-> cmds[i]]
  <1>3. f \in Surjection(1..Len(cmds), Queued)
    BY <1>1 DEF Surjection, Queued
  <1> HIDE DEF f
  <1> QED BY <1>2, <1>3, FS_Surjection

\* While one sender holds none, the others hold at most one each.
LEMMA UnlistedCount ==
    ASSUME NEW t \in Senders, pc[t] # "queue"
    PROVE  /\ IsFiniteSet(Unlisted)
           /\ Cardinality(Unlisted) <= Cardinality(Senders) - 1
  <1> DEFINE Q == {u \in Senders : pc[u] = "queue"}
             f == [u \in Q |-> mine[u]]
  <1>1. IsFiniteSet(Senders \ {t}) /\ Cardinality(Senders) \in Nat
        /\ Cardinality(Senders \ {t}) = Cardinality(Senders) - 1
    BY CmdMgrAssumption, FS_RemoveElement, FS_CardinalityType
  <1>2. Q \in SUBSET (Senders \ {t})
    OBVIOUS
  <1>3. f \in Surjection(Q, Unlisted)
    BY DEF Surjection, Unlisted
  <1> HIDE DEF Q, f
  <1>4. /\ IsFiniteSet(Q) /\ Cardinality(Q) \in Nat
        /\ Cardinality(Q) <= Cardinality(Senders) - 1
    BY <1>1, <1>2, FS_Subset, FS_CardinalityType
  <1>5. /\ IsFiniteSet(Unlisted) /\ Cardinality(Unlisted) \in Nat
        /\ Cardinality(Unlisted) <= Cardinality(Q)
    BY <1>3, <1>4, FS_Surjection, FS_CardinalityType
  <1> QED BY <1>1, <1>4, <1>5

\* rwnx_cmd_malloc finds a command if there are as many as list and senders need.
LEMMA PoolLarge ==
    ASSUME IndInv, Len(cmds) <= MaxQueued, NEW t \in Senders, SendNull(t)
    PROVE  Cardinality(Slots) < MaxQueued + Cardinality(Senders)
  <1>1. Slots = Queued \cup Unlisted
    BY DEF SendNull, IndInv, PoolAgrees
  <1>2. cmds \in Seq(Slots) /\ Len(cmds) \in Nat /\ MaxQueued \in Nat
    BY CmdMgrAssumption DEF IndInv, TypeOK
  <1>3. pc[t] # "queue"
    BY DEF SendNull
  <1>4. IsFiniteSet(Queued) /\ Cardinality(Queued) <= Len(cmds)
    BY <1>2, QueuedCount
  <1>5. IsFiniteSet(Unlisted) /\ Cardinality(Unlisted) <= Cardinality(Senders) - 1
    BY <1>3, UnlistedCount
  <1>6. Cardinality(Slots) <= Cardinality(Queued) + Cardinality(Unlisted)
    <2>1. IsFiniteSet(Queued \cap Unlisted)
      BY <1>4, FS_Subset
    <2>2. Cardinality(Queued \cup Unlisted)
            = Cardinality(Queued) + Cardinality(Unlisted) - Cardinality(Queued \cap Unlisted)
      BY <1>4, <1>5, FS_Union
    <2>3. /\ Cardinality(Queued) \in Nat /\ Cardinality(Unlisted) \in Nat
          /\ Cardinality(Queued \cap Unlisted) \in Nat
      BY <1>4, <1>5, <2>1, FS_CardinalityType
    <2> QED BY <1>1, <2>2, <2>3
  <1>7. /\ Cardinality(Slots) \in Nat /\ Cardinality(Senders) \in Nat
        /\ Cardinality(Queued) \in Nat /\ Cardinality(Unlisted) \in Nat
    BY <1>4, <1>5, CmdMgrAssumption, FS_CardinalityType
  <1> QED BY <1>2, <1>4, <1>5, <1>6, <1>7

LEMMA InitPoolInv == Init => PoolInv
  <1> SUFFICES ASSUME Init PROVE PoolInv
    OBVIOUS
  <1>1. Len(cmds) <= MaxQueued
    BY CmdMgrAssumption DEF Init
  <1>2. \A t \in Senders : pc[t] # "dead"
    BY DEF Init, Threads
  <1> QED BY <1>1, <1>2 DEF PoolInv, PoolSuffices

LEMMA NextPoolInv == IndInv /\ PoolInv /\ [Next]_vars => PoolInv'
  <1> SUFFICES ASSUME IndInv, PoolInv, [Next]_vars PROVE PoolInv'
    OBVIOUS
  <1> DEFINE Listed == Len(cmds') <= MaxQueued
             Alive == \A u \in Senders : pc'[u] = "dead" => pc[u] = "dead"
  <1>0. /\ cmds \in Seq(Slots) /\ Len(cmds) \in Nat /\ Len(cmds) <= MaxQueued
        /\ MaxQueued \in Nat \ {0}
    BY CmdMgrAssumption DEF IndInv, TypeOK, PoolInv
  <1>1. ASSUME Alive, Listed PROVE PoolInv'
    BY <1>1 DEF PoolInv, PoolSuffices
  <1> DEFINE PcType == pc \in [Threads -> {"idle", "queue", "check", "push", "wait",
                            "wake", "timedout", "complete", "scan", "dead"}]
  <1>2. PcType /\ Senders \subseteq Threads /\ Worker \in Threads
    BY DEF IndInv, TypeOK, Threads
  <1> HIDE DEF PcType
  <1>3. ASSUME NEW t \in Senders, Send(t) PROVE PoolInv'
    BY <1>0, <1>1, <1>2, <1>3 DEF Send, PcType
  <1>4. ASSUME NEW t \in Senders, SendNull(t) PROVE PoolInv'
    <2>1. Cardinality(Slots) < MaxQueued + Cardinality(Senders)
      BY <1>0, <1>4, PoolLarge
    <2>2. ~(Cardinality(Slots) >= MaxQueued + Cardinality(Senders))
      BY <1>0, <2>1, CmdMgrAssumption, FS_CardinalityType
    <2>3. cmds' = cmds
      BY <1>4 DEF SendNull
    <2> QED BY <1>0, <2>2, <2>3 DEF PoolInv, PoolSuffices
  <1>5. ASSUME NEW t \in Senders,
               SendNoCfm(t) \/ PollCrashed(t) \/ Refuse(t) \/ CheckWake(t) \/ WakeNext(t)
        PROVE  PoolInv'
    BY <1>0, <1>1, <1>2, <1>5 DEF SendNoCfm, PollCrashed, Refuse, FreeRefused, CheckWake,
        WakeNext, Return, PcType
  <1>6. ASSUME NEW t \in Senders,
               QueueDirect(t) \/ QueueDeferred(t) \/ ForceDefer(t)
        PROVE  PoolInv'
    <2>1. cmds' = Append(cmds, mine[t]) /\ ~Full
      BY <1>6 DEF QueueDirect, QueueDeferred, ForceDefer, Enqueue
    <2>2. Len(cmds') = Len(cmds) + 1
      BY <1>0, <2>1
    <2>3. cmds = <<>> \/ Len(cmds) # MaxQueued
      BY <2>1 DEF Full
    <2>4. cmds = <<>> => Len(cmds) = 0
      OBVIOUS
    <2>5. Listed
      BY <1>0, <2>2, <2>3, <2>4
    <2>6. Alive
      BY <1>2, <1>6 DEF QueueDirect, QueueDeferred, ForceDefer, Return, PcType
    <2> QED BY <1>1, <2>5, <2>6
  <1>7. ASSUME NEW t \in Threads, Remove(t) PROVE PoolInv'
    <2>1. PICK i \in DOMAIN cmds : cmds' = Without(cmds, i)
      BY <1>7 DEF Remove
    <2>2. Len(cmds') = Len(cmds) - 1
      <3>1. Without(cmds, i) \in Seq(Slots) /\ DOMAIN Without(cmds, i) = 1..(Len(cmds) - 1)
        BY <1>0, WithoutFacts
      <3>2. Len(cmds) - 1 \in Nat
        BY <1>0
      <3> QED BY <2>1, <3>1, <3>2, LenProperties
    <2>3. Alive
      BY <1>2, <1>7 DEF Remove, PcType
    <2> QED BY <1>0, <1>1, <2>2, <2>3
  <1>8. ASSUME NEW t \in Threads, Push(t) \/ TimeOut(t) \/ Crash(t) \/ Unlock(t)
        PROVE  PoolInv'
    BY <1>0, <1>1, <1>2, <1>8 DEF Push, TimeOut, Crash, Unlock, PcType
  <1>9. ASSUME WorkStart \/ Scan \/ Transmit \/ (\E p \in fw : MsgInd(p))
               \/ UNCHANGED vars
        PROVE  PoolInv'
    BY <1>0, <1>1, <1>2, <1>9 DEF WorkStart, Scan, Transmit, MsgInd, Return, vars, PcType
  <1> HIDE DEF Listed, Alive
  <1> QED
    BY <1>3, <1>4, <1>5, <1>6, <1>7, <1>8, <1>9 DEF Next, SenderStep, ThreadStep

-----------------------------------------------------------------------------
(* The invariant of the specification.                                     *)

LEMMA NextIndInv == IndInv /\ [Next]_vars => IndInv'
  <1> SUFFICES ASSUME IndInv, [Next]_vars PROVE IndInv'
    OBVIOUS
  <1>1. ASSUME NEW t \in Senders, Send(t) PROVE IndInv'
    BY <1>1, SendIndInv
  <1>0. ASSUME NEW t \in Senders, SendNull(t) PROVE IndInv'
    BY <1>0, SendNullIndInv
  <1>2. ASSUME NEW t \in Senders, SendNoCfm(t) PROVE IndInv'
    BY <1>2, SendNoCfmIndInv
  <1>3. ASSUME NEW t \in Senders, PollCrashed(t) PROVE IndInv'
    BY <1>3, RefusedIndInv DEF PollCrashed
  <1>4. ASSUME NEW t \in Senders, Refuse(t) PROVE IndInv'
    BY <1>4, RefusedIndInv DEF Refuse, IndInv, TypeOK
  <1>5. ASSUME NEW t \in Senders, QueueDirect(t) PROVE IndInv'
    <2>1. work' \in BOOLEAN
      BY <1>5 DEF QueueDirect, IndInv, TypeOK
    <2>2. /\ pc[t] = "queue" /\ KindOf(t) # "nocfm"
          /\ Enqueue(mine[t], FALSE) /\ ~LastBusy
          /\ pc' = [pc EXCEPT ![t] = "push"] /\ mine' = mine
      BY <1>5 DEF QueueDirect, Entered
    <2> QED BY <2>1, <2>2, EnqueueIndInv
  <1>6. ASSUME NEW t \in Senders, QueueDeferred(t) PROVE IndInv'
    <2>1. work' \in BOOLEAN
      BY <1>6 DEF QueueDeferred, IndInv, TypeOK
    <2>2. /\ pc[t] = "queue" /\ KindOf(t) # "nocfm"
          /\ Enqueue(mine[t], TRUE)
          /\ pc' = [pc EXCEPT ![t] = "check"]
          /\ mine' = [mine EXCEPT ![t] = None]
      BY <1>6 DEF QueueDeferred, Entered
    <2> QED BY <2>1, <2>2, EnqueueIndInv
  <1>7. ASSUME NEW t \in Senders, CheckWake(t) PROVE IndInv'
    BY <1>7, CheckWakeIndInv
  <1>8. ASSUME NEW t \in Senders, ForceDefer(t) PROVE IndInv'
    <2>1. /\ pc[t] = "queue" /\ KindOf(t) # "nocfm" /\ work' \in BOOLEAN
          /\ Enqueue(mine[t], TRUE)
          /\ pc' = [pc EXCEPT ![t] = "idle"]
          /\ mine' = [mine EXCEPT ![t] = None]
      BY <1>8 DEF ForceDefer, Entered, Return
    <2> QED BY <2>1, EnqueueIndInv
  <1>9. ASSUME NEW t \in Senders, WakeNext(t) PROVE IndInv'
    BY <1>9, WakeNextIndInv
  <1>10. ASSUME NEW t \in Threads, Push(t) PROVE IndInv'
    BY <1>10, PushIndInv
  <1>11. ASSUME NEW t \in Threads, Remove(t) PROVE IndInv'
    BY <1>11, RemoveIndInv
  <1>12. ASSUME NEW t \in Threads, TimeOut(t) PROVE IndInv'
    BY <1>12, TimeOutIndInv
  <1>13. ASSUME NEW t \in Threads, Crash(t) PROVE IndInv'
    BY <1>13, CrashIndInv
  <1>14. ASSUME NEW t \in Threads, Unlock(t) PROVE IndInv'
    BY <1>14, UnlockIndInv
  <1>15. CASE WorkStart
    BY <1>15, WorkStartIndInv
  <1>16. CASE Scan
    BY <1>16, ScanIndInv
  <1>17. CASE Transmit
    BY <1>17, TransmitIndInv
  <1>18. ASSUME NEW p \in fw, MsgInd(p) PROVE IndInv'
    BY <1>18, MsgIndIndInv
  <1>19. CASE UNCHANGED vars
    <2> USE <1>19 DEF vars, IndInv
    <2>1. Queued' = Queued /\ Unlisted' = Unlisted
      BY DEF Queued, Unlisted
    <2>2. InFlight' = InFlight
      BY <2>1 DEF InFlight
    <2>3. TypeOK'
      BY DEF TypeOK
    <2>4. PoolAgrees'
      BY <2>1 DEF PoolAgrees
    <2>5. ThreadsConsistent'
      BY <2>1 DEF ThreadsConsistent
    <2>6. FlagsConsistent'
      BY <2>1 DEF FlagsConsistent
    <2>7. PacketsConsistent'
      BY <2>2 DEF PacketsConsistent, Carries
    <2>8. DeferredBehindBusy'
      BY DEF DeferredBehindBusy
    <2> QED BY <2>3, <2>4, <2>5, <2>6, <2>7, <2>8
  <1> QED
    BY <1>0, <1>1, <1>2, <1>3, <1>4, <1>5, <1>6, <1>7, <1>8, <1>9, <1>10, <1>11, <1>12,
       <1>13, <1>14, <1>15, <1>16, <1>17, <1>18, <1>19
    DEF Next, SenderStep, ThreadStep

(***************************************************************************)
(* In every reachable state the list, the flags, the threads and the       *)
(* packets on their way agree about every command (cmd_mgr_queue,          *)
(* cmd_mgr_task_process, cmd_mgr_msgind and the timeout paths).            *)
(***************************************************************************)
THEOREM IndInvHolds == Spec => []IndInv
  <1>1. Init => IndInv
    BY InitIndInv
  <1>2. IndInv /\ [Next]_vars => IndInv'
    BY NextIndInv
  <1> QED BY <1>1, <1>2, PTL DEF Spec

(***************************************************************************)
(* The variables keep their types whatever the number of senders.          *)
(***************************************************************************)
THEOREM TypeCorrect == Spec => []TypeOK
  <1>1. IndInv => TypeOK
    BY DEF IndInv
  <1> QED BY <1>1, IndInvHolds, PTL

(***************************************************************************)
(* At no time does the firmware hold two unconfirmed commands, although    *)
(* cmd_mgr_queue pushes in its callers' threads and cmd_mgr_task_process   *)
(* in the worker, each outside the lock.                                   *)
(***************************************************************************)
THEOREM OneOutstandingHolds == Spec => []OneOutstanding
  <1>1. IndInv => OneOutstanding
    BY OutstandingUnique DEF IndInv
  <1> QED BY <1>1, IndInvHolds, PTL

(***************************************************************************)
(* cmd_mgr_queue never lets a command overtake a deferred one.             *)
(***************************************************************************)
THEOREM NoOvertaking == Spec => []DeferredBehindBusy
  <1>1. IndInv => DeferredBehindBusy
    BY DEF IndInv
  <1> QED BY <1>1, IndInvHolds, PTL

(***************************************************************************)
(* Although cmd_mgr_msgind matches on the message type only, it gives      *)
(* every confirmation to the command the firmware answers.                 *)
(***************************************************************************)
THEOREM ConfirmationsMatch == Spec => []ConfirmsItsCommand
  <1>1. IndInv => ConfirmsItsCommand
    BY AcceptingOwn DEF ConfirmsItsCommand
  <1> QED BY <1>1, IndInvHolds, PTL

(***************************************************************************)
(* No command is freed while linked, linked twice or lost, and none is     *)
(* held by two threads, through refusals, timeouts and retirement; and no  *)
(* sender is given NULL by rwnx_cmd_malloc as long as the pool is no       *)
(* smaller than the list and the number of senders together.               *)
(***************************************************************************)
THEOREM PoolStaysConsistent == Spec => []PoolConsistent
  <1>1. Init => PoolInv
    BY InitPoolInv
  <1>2. IndInv /\ PoolInv /\ [Next]_vars => PoolInv'
    BY NextPoolInv
  <1>3. IndInv /\ PoolInv => PoolConsistent
    BY DEF IndInv, PoolInv, PoolConsistent
  <1> QED BY <1>1, <1>2, <1>3, IndInvHolds, PTL DEF Spec

(***************************************************************************)
(* A CRASHED manager accepts nothing more.                                 *)
(***************************************************************************)
THEOREM CrashIsFinal == Spec => NothingQueuedAfterCrash
  <1>1. ASSUME IndInv, [Next]_vars, state = "crashed"
        PROVE  state' = "crashed" /\ Queued' \subseteq Queued
    <2> USE <1>1
    <2>1. ASSUME NEW t \in Threads, Remove(t) PROVE Queued' \subseteq Queued
      <3>1. PICK n \in DOMAIN cmds : cmds' = Without(cmds, n)
        BY <2>1 DEF Remove
      <3>2. /\ cmds \in Seq(Slots)
            /\ \A j, k \in DOMAIN cmds : cmds[j] = cmds[k] => j = k
        BY DEF IndInv, TypeOK, PoolAgrees
      <3> QED BY <3>1, <3>2, QueuedAfterRemove
    <2>2. ASSUME NEW t \in Threads, Remove(t) PROVE state' = state
      BY <2>2 DEF Remove
    <2>3. CASE UNCHANGED vars
      BY <2>3 DEF vars, Queued
    <2>4. ASSUME NEW t \in Senders, Send(t) \/ SendNull(t) \/ SenderStep(t)
          PROVE  state' = "crashed" /\ Queued' \subseteq Queued
      BY <2>4 DEF Send, SendNull, SenderStep, SendNoCfm, PollCrashed, Refuse, QueueDirect,
                  QueueDeferred, CheckWake, ForceDefer, WakeNext, FreeRefused,
                  Enqueue, Queued
    <2>5. ASSUME NEW t \in Threads, Push(t) \/ TimeOut(t) \/ Crash(t) \/ Unlock(t)
          PROVE  state' = "crashed" /\ Queued' \subseteq Queued
      BY <2>5 DEF Push, TimeOut, Crash, Unlock, Queued
    <2>6. CASE WorkStart \/ Scan \/ Transmit \/ \E p \in fw : MsgInd(p)
      BY <2>6 DEF WorkStart, Scan, Transmit, MsgInd, Queued
    <2> QED
      BY <2>1, <2>2, <2>3, <2>4, <2>5, <2>6 DEF Next, ThreadStep
  <1>2. IndInv /\ [Next]_vars =>
            [state = "crashed" => state' = "crashed" /\ Queued' \subseteq Queued]_vars
    BY <1>1
  <1> QED BY <1>2, IndInvHolds, PTL DEF Spec, NothingQueuedAfterCrash

-----------------------------------------------------------------------------
(* The caller's buffer.                                                    *)

\* Steps that touch neither the list nor the flags, and let no thread leave
\* its command while it works on it.
LEMMA BufferUntouched ==
    ASSUME IndInv, BufferInv,
           UNCHANGED <<cmds, waitPush>>, waitCfm' \subseteq waitCfm,
           state' = state \/ state' = "crashed",
           \A s \in Queued : msg'[s] = msg[s],
           \A t \in Senders :
              pc[t] \in {"push", "wait", "timedout"} =>
                \/ pc'[t] \in {"push", "wait", "timedout"} /\ mine'[t] = mine[t]
                \/ state' = "crashed",
           \A t \in Threads : pc'[t] = "complete" =>
                pc[t] = "complete" \/ state' = "crashed"
    PROVE  BufferInv'
  <1>1. Queued' = Queued
    BY DEF Queued
  <1>2. BufferLive'
    <2> SUFFICES ASSUME NEW s \in Queued, s \in waitCfm', Kind[msg'[s]] = "cfm",
                        state' # "crashed"
                 PROVE  \E t \in Senders :
                          mine'[t] = s /\ pc'[t] \in {"push", "wait", "timedout"}
      BY <1>1 DEF BufferLive
    <2>1. PICK t \in Senders : mine[t] = s /\ pc[t] \in {"push", "wait", "timedout"}
      BY DEF BufferInv, BufferLive
    <2> QED BY <2>1
  <1>3. \A s \in Queued' : Kind[msg'[s]] = "cfm" => s \notin waitPush'
    BY <1>1 DEF BufferInv
  <1>4. \A t \in Threads : pc'[t] = "complete" => state' = "crashed"
    BY DEF BufferInv
  <1> QED BY <1>2, <1>3, <1>4 DEF BufferInv

LEMMA NextBufferInv == IndInv /\ BufferInv /\ [Next]_vars => BufferInv'
  <1> SUFFICES ASSUME IndInv, BufferInv, [Next]_vars PROVE BufferInv'
    OBVIOUS
  <1> USE CmdMgrAssumption DEF Threads
  <1> DEFINE Types == /\ msg \in [Slots -> Msgs \cup {None}]
                      /\ pc \in [Senders \cup {Worker} ->
                               {"idle", "queue", "check", "push", "wait", "wake",
                                "timedout", "complete", "scan", "dead"}]
                      /\ mine \in [Senders \cup {Worker} -> Slots \cup {None}]
                      /\ waitPush \subseteq Queued /\ waitCfm \subseteq Queued
  <1>0. Types
    BY DEF IndInv, TypeOK, FlagsConsistent
  <1> HIDE DEF Types
  <1>1. ASSUME NEW t \in Senders, Send(t) PROVE BufferInv'
    <2>1. PICK m \in Msgs, s \in Slots : msg[s] = None /\ msg' = [msg EXCEPT ![s] = m]
      BY <1>1 DEF Send
    <2>2. s \notin Queued
      BY <2>1 DEF IndInv, PoolAgrees
    <2>3. /\ \A u \in Queued : msg'[u] = msg[u]
          /\ \A u \in Senders : u # t => pc'[u] = pc[u] /\ mine'[u] = mine[u]
          /\ pc[t] = "idle" /\ pc'[t] = "queue" /\ pc'[Worker] = pc[Worker]
      BY <1>0, <1>1, <2>1, <2>2 DEF Send, Types
    <2> QED BY <1>1, <2>3, BufferUntouched DEF Send
  <1>2. ASSUME NEW t \in Senders, SendNoCfm(t) \/ PollCrashed(t) \/ Refuse(t)
        PROVE  BufferInv'
    <2>1. /\ pc[t] = "queue" /\ msg' = [msg EXCEPT ![mine[t]] = None]
          /\ Return(t)
          /\ UNCHANGED <<state, cmds, waitPush, waitCfm>>
      BY <1>2 DEF SendNoCfm, PollCrashed, Refuse, FreeRefused
    <2>2. mine[t] \notin Queued
      BY <2>1 DEF IndInv, PoolAgrees, Unlisted
    <2>3. /\ \A u \in Queued : msg'[u] = msg[u]
          /\ \A u \in Senders : u # t => pc'[u] = pc[u] /\ mine'[u] = mine[u]
          /\ pc'[t] = "idle" /\ pc'[Worker] = pc[Worker]
      BY <1>0, <2>1, <2>2 DEF Return, Types
    <2> QED BY <2>1, <2>3, BufferUntouched
  <1>3. ASSUME NEW t \in Senders, QueueDirect(t) PROVE BufferInv'
    <2>1. /\ Enqueue(mine[t], FALSE) /\ pc' = [pc EXCEPT ![t] = "push"] /\ mine' = mine
          /\ pc[t] = "queue"
      BY <1>3 DEF QueueDirect, Entered
    <2>2. mine[t] \in Slots /\ mine[t] \notin Queued
      BY <2>1 DEF IndInv, PoolAgrees, Unlisted, ThreadsConsistent
    <2>3. Queued' = Queued \cup {mine[t]}
      BY <2>1, <2>2, AppendFacts DEF Queued, Enqueue, IndInv, TypeOK
    <2>4. /\ pc'[t] = "push" /\ pc'[Worker] = pc[Worker]
          /\ \A u \in Senders : u # t => pc'[u] = pc[u]
      BY <1>0, <2>1 DEF Types
    <2>5. BufferLive'
      <3> SUFFICES ASSUME NEW s \in Queued', s \in waitCfm', Kind[msg'[s]] = "cfm",
                          state' # "crashed"
                   PROVE  \E u \in Senders :
                            mine'[u] = s /\ pc'[u] \in {"push", "wait", "timedout"}
        BY DEF BufferLive
      <3>1. CASE s = mine[t]
        BY <2>1, <2>4, <3>1
      <3>2. CASE s # mine[t]
        <4>1. s \in Queued /\ s \in waitCfm /\ msg'[s] = msg[s] /\ state # "crashed"
          BY <2>1, <2>3, <3>2 DEF Enqueue
        <4>2. PICK u \in Senders : mine[u] = s /\ pc[u] \in {"push", "wait", "timedout"}
          BY <4>1 DEF BufferInv, BufferLive
        <4> QED BY <2>1, <2>4, <4>2
      <3> QED BY <3>1, <3>2
    <2>6. \A s \in Queued' : Kind[msg'[s]] = "cfm" => s \notin waitPush'
      BY <1>0, <2>1, <2>2, <2>3 DEF Enqueue, BufferInv, Types
    <2>7. \A u \in Threads : pc'[u] = "complete" => state' = "crashed"
      BY <2>1, <2>4 DEF Enqueue, BufferInv
    <2> QED BY <2>5, <2>6, <2>7 DEF BufferInv
  <1>4. ASSUME NEW t \in Senders, QueueDeferred(t) \/ ForceDefer(t) PROVE BufferInv'
    <2>1. /\ Enqueue(mine[t], TRUE)
          /\ \E c \in {"check", "idle"} : pc' = [pc EXCEPT ![t] = c]
          /\ mine' = [mine EXCEPT ![t] = None] /\ pc[t] = "queue"
      BY <1>4 DEF QueueDeferred, ForceDefer, Entered, Return
    <2>2. mine[t] \in Slots /\ mine[t] \notin Queued
      BY <2>1 DEF IndInv, PoolAgrees, Unlisted, ThreadsConsistent
    <2>3. Queued' = Queued \cup {mine[t]}
      BY <2>1, <2>2, AppendFacts DEF Queued, Enqueue, IndInv, TypeOK
    <2>4. /\ pc'[t] \in {"check", "idle"} /\ pc'[Worker] = pc[Worker]
          /\ \A u \in Senders : u # t => pc'[u] = pc[u] /\ mine'[u] = mine[u]
      BY <1>0, <2>1 DEF Types
    <2>5. Kind[msg[mine[t]]] # "cfm"
      BY <1>4 DEF QueueDeferred, ForceDefer, Entered, LastBusy, KindOf
    <2>6. BufferLive'
      <3> SUFFICES ASSUME NEW s \in Queued', s \in waitCfm', Kind[msg'[s]] = "cfm",
                          state' # "crashed"
                   PROVE  \E u \in Senders :
                            mine'[u] = s /\ pc'[u] \in {"push", "wait", "timedout"}
        BY DEF BufferLive
      <3>1. s # mine[t]
        BY <2>1, <2>5 DEF Enqueue
      <3>2. s \in Queued /\ s \in waitCfm /\ msg'[s] = msg[s] /\ state # "crashed"
        BY <2>1, <2>3, <3>1 DEF Enqueue
      <3>3. PICK u \in Senders : mine[u] = s /\ pc[u] \in {"push", "wait", "timedout"}
        BY <3>2 DEF BufferInv, BufferLive
      <3> QED BY <2>1, <2>4, <3>3
    <2>7. \A s \in Queued' : Kind[msg'[s]] = "cfm" => s \notin waitPush'
      BY <2>1, <2>3, <2>5 DEF Enqueue, BufferInv
    <2>8. \A u \in Threads : pc'[u] = "complete" => state' = "crashed"
      BY <2>1, <2>4 DEF Enqueue, BufferInv
    <2> QED BY <2>6, <2>7, <2>8 DEF BufferInv
  <1>5. ASSUME NEW t \in Senders, CheckWake(t) \/ WakeNext(t) PROVE BufferInv'
    <2>1. /\ pc[t] \in {"check", "wake"} /\ Return(t)
          /\ UNCHANGED <<state, cmds, waitPush, waitCfm, msg>>
      BY <1>5 DEF CheckWake, WakeNext
    <2>2. /\ \A u \in Senders : u # t => pc'[u] = pc[u] /\ mine'[u] = mine[u]
          /\ pc'[t] = "idle" /\ pc'[Worker] = pc[Worker]
      BY <1>0, <2>1 DEF Return, Types
    <2> QED BY <2>1, <2>2, BufferUntouched
  <1>6. ASSUME NEW t \in Threads, Push(t) PROVE BufferInv'
    <2>1. /\ pc[t] = "push" /\ waitPush' = waitPush \ {mine[t]}
          /\ pc' = [pc EXCEPT ![t] = "wait"] /\ mine' = mine
          /\ UNCHANGED <<state, cmds, msg, waitCfm>>
      BY <1>6 DEF Push
    <2>2. Queued' = Queued
      BY <2>1 DEF Queued
    <2>3. \A u \in Threads : pc'[u] = IF u = t THEN "wait" ELSE pc[u]
      BY <1>0, <2>1 DEF Types
    <2>4. BufferLive'
      <3> SUFFICES ASSUME NEW s \in Queued, s \in waitCfm, Kind[msg[s]] = "cfm",
                          state # "crashed"
                   PROVE  \E u \in Senders :
                            mine[u] = s /\ pc'[u] \in {"push", "wait", "timedout"}
        BY <2>1, <2>2 DEF BufferLive
      <3>1. PICK u \in Senders : mine[u] = s /\ pc[u] \in {"push", "wait", "timedout"}
        BY DEF BufferInv, BufferLive
      <3> QED BY <2>3, <3>1
    <2>5. \A s \in Queued' : Kind[msg'[s]] = "cfm" => s \notin waitPush'
      BY <2>1, <2>2 DEF BufferInv
    <2>6. \A u \in Threads : pc'[u] = "complete" => state' = "crashed"
      BY <2>1, <2>3 DEF BufferInv
    <2> QED BY <2>4, <2>5, <2>6 DEF BufferInv
  <1>7. ASSUME NEW t \in Threads, Remove(t) PROVE BufferInv'
    <2>1. PICK n \in DOMAIN cmds : cmds[n] = mine[t] /\ cmds' = Without(cmds, n)
      BY <1>7 DEF Remove
    <2>2. Queued' = Queued \ {mine[t]}
      BY <2>1, QueuedAfterRemove DEF IndInv, TypeOK, PoolAgrees
    <2>3. /\ pc'[t] \in {"scan", "wake"} /\ state' = state
          /\ \A u \in Threads : u # t => pc'[u] = pc[u] /\ mine'[u] = mine[u]
          /\ \A s \in Queued' : msg'[s] = msg[s]
          /\ UNCHANGED <<waitPush, waitCfm>>
      BY <1>0, <1>7, <2>2 DEF Remove, Types
    <2>4. BufferLive'
      <3> SUFFICES ASSUME NEW s \in Queued', s \in waitCfm, Kind[msg[s]] = "cfm",
                          state # "crashed"
                   PROVE  \E u \in Senders :
                            mine'[u] = s /\ pc'[u] \in {"push", "wait", "timedout"}
        BY <2>3 DEF BufferLive
      <3>1. PICK u \in Senders : mine[u] = s /\ pc[u] \in {"push", "wait", "timedout"}
        BY <2>2 DEF BufferInv, BufferLive
      <3>2. u # t
        BY <2>2, <3>1
      <3> QED BY <2>3, <3>1, <3>2
    <2>5. \A s \in Queued' : Kind[msg'[s]] = "cfm" => s \notin waitPush'
      BY <2>2, <2>3 DEF BufferInv
    <2>6. \A u \in Threads : pc'[u] = "complete" => state' = "crashed"
      BY <2>3 DEF BufferInv
    <2> QED BY <2>4, <2>5, <2>6 DEF BufferInv
  <1>8. ASSUME NEW t \in Threads, TimeOut(t) \/ Crash(t) PROVE BufferInv'
    <2>1. /\ UNCHANGED <<cmds, waitPush, waitCfm, msg, mine>>
          /\ \/ pc' = [pc EXCEPT ![t] = "timedout"] /\ state' = state
             \/ pc' = [pc EXCEPT ![t] = "complete"] /\ state' = "crashed"
      BY <1>8 DEF TimeOut, Crash
    <2>2. \/ /\ \A u \in Threads : pc'[u] = IF u = t THEN "timedout" ELSE pc[u]
             /\ state' = state
          \/ state' = "crashed"
      BY <1>0, <2>1 DEF Types
    <2> QED BY <2>1, <2>2, BufferUntouched
  <1>9. ASSUME NEW t \in Threads, Unlock(t) PROVE BufferInv'
    <2>1. state = "crashed" /\ UNCHANGED <<state, cmds, waitPush, waitCfm, msg>>
      BY <1>9 DEF Unlock, BufferInv
    <2> QED BY <2>1, BufferUntouched
  <1>10. CASE WorkStart \/ Scan
    <2>1. /\ UNCHANGED <<state, cmds, waitPush, waitCfm, msg>>
          /\ \A u \in Senders : pc'[u] = pc[u] /\ mine'[u] = mine[u]
          /\ pc'[Worker] # "complete"
      BY <1>0, <1>10 DEF WorkStart, Scan, Return, Types
    <2> QED BY <2>1, BufferUntouched
  <1>11. CASE Transmit \/ (\E p \in fw : MsgInd(p)) \/ UNCHANGED vars
    <2>1. /\ UNCHANGED <<state, cmds, waitPush, msg, pc, mine>>
          /\ waitCfm' \subseteq waitCfm
      BY <1>11 DEF Transmit, MsgInd, vars
    <2> QED BY <2>1, BufferUntouched
  <1>12. ASSUME NEW t \in Senders, SendNull(t) PROVE BufferInv'
    <2>1. /\ \A u \in Senders : pc[u] # "idle" => pc'[u] = pc[u]
          /\ pc[t] = "idle" /\ pc'[t] = "dead" /\ pc'[Worker] = pc[Worker]
          /\ \A u \in Senders : u # t => pc'[u] = pc[u]
      BY <1>0, <1>12 DEF SendNull, Types
    <2> QED BY <1>12, <2>1, BufferUntouched DEF SendNull
  <1> QED
    BY <1>1, <1>2, <1>3, <1>4, <1>5, <1>6, <1>7, <1>8, <1>9, <1>10, <1>11,
       <1>12
    DEF Next, SenderStep, ThreadStep

(***************************************************************************)
(* As long as no wait times out cmd_mgr_msgind copies a confirmation only  *)
(* into the buffer of a caller that is still inside cmd_mgr_queue.         *)
(***************************************************************************)
THEOREM BuffersStayLive == Spec => []BufferLive
  <1>1. Init => BufferInv
    BY CmdMgrAssumption DEF Init, BufferInv, BufferLive, Queued, Threads
  <1>2. BufferInv => BufferLive
    BY DEF BufferInv
  <1> QED BY <1>1, <1>2, NextBufferInv, IndInvHolds, PTL DEF Spec

-----------------------------------------------------------------------------
(* The channel.                                                            *)

Pending == SubSeq(cmds, Handed + 1, Len(cmds))
Answered == {s \in Queued : s \notin waitCfm}

\* In a list whose elements of P come last, they begin behind PrefixWithout ...
LEMMA PrefixSplits ==
    ASSUME NEW S, NEW q \in Seq(S), NEW P,
           \A i, j \in 1..Len(q) : i < j /\ q[i] \in P => q[j] \in P
    PROVE  /\ PrefixWithout(q, P) \in 0..Len(q)
           /\ \A i \in 1..Len(q) : q[i] \in P <=> i > PrefixWithout(q, P)
  <1>1. Len(q) \in Nat
    OBVIOUS
  <1> DEFINE T == {i \in 1..Len(q) : q[i] \notin P}
             First(k) == /\ \A i \in 1..k : q[i] \notin P
                         /\ k < Len(q) => q[k + 1] \in P
             p == PrefixWithout(q, P)
  <1>2. \E k \in 0..Len(q) : First(k)
    <2>1. PICK k \in 0..Len(q) : /\ \A i \in 1..k : i \in T
                                 /\ k < Len(q) => k + 1 \notin T
      BY <1>1, PrefixExists
    <2> QED BY <1>1, <2>1
  <1>3. p \in 0..Len(q) /\ First(p)
    BY <1>2 DEF PrefixWithout
  <1>4. ASSUME NEW i \in 1..Len(q), i > p PROVE q[i] \in P
    <2>1. p + 1 \in 1..Len(q) /\ q[p + 1] \in P
      BY <1>1, <1>3, <1>4
    <2>2. CASE i = p + 1
      BY <2>1, <2>2
    <2>3. CASE i > p + 1
      BY <1>1, <2>1, <2>3
    <2> QED BY <1>1, <1>3, <1>4, <2>2, <2>3
  <1>5. ASSUME NEW i \in 1..Len(q), q[i] \in P PROVE i > p
    BY <1>1, <1>3, <1>5
  <1> QED BY <1>3, <1>4, <1>5

\* ... and this tells where.
LEMMA PrefixUnique ==
    ASSUME NEW S, NEW q \in Seq(S), NEW P, NEW k \in 0..Len(q),
           \A i \in 1..Len(q) : q[i] \in P <=> i > k
    PROVE  PrefixWithout(q, P) = k
  <1> DEFINE p == PrefixWithout(q, P)
  <1>1. Len(q) \in Nat
    OBVIOUS
  <1>2. \A i, j \in 1..Len(q) : i < j /\ q[i] \in P => q[j] \in P
    BY <1>1
  <1>3. p \in 0..Len(q) /\ \A i \in 1..Len(q) : q[i] \in P <=> i > p
    BY <1>2, PrefixSplits
  <1> HIDE DEF p
  <1>4. \A i \in 1..Len(q) : i > k <=> i > p
    BY <1>3
  <1>5. ~(p < k) /\ ~(k < p)
    BY <1>1, <1>3, <1>4
  <1> QED BY <1>1, <1>3, <1>5 DEF p

\* The commands left to the worker are those from Handed + 1 to the end.
LEMMA HandedSplits ==
    ASSUME TypeOK, FlagsConsistent, DeferredBehindBusy
    PROVE  /\ Handed \in 0..Len(cmds) /\ Len(cmds) \in Nat
           /\ \A i \in 1..Len(cmds) : cmds[i] \in waitPush <=> i > Handed
  <1>1. cmds \in Seq(Slots) /\ Len(cmds) \in Nat /\ DOMAIN cmds = 1..Len(cmds)
    BY DEF TypeOK
  <1>2. \A i, j \in 1..Len(cmds) : i < j /\ cmds[i] \in waitPush => cmds[j] \in waitPush
    BY <1>1 DEF DeferredBehindBusy
  <1> QED BY <1>1, <1>2, PrefixSplits DEF Handed

\* What the channel holds is on the list.
LEMMA HeldQueued ==
    ASSUME IndInv
    PROVE  Channel!Held \subseteq Queued
  <1>1. Handed \in 0..Len(cmds) /\ Len(cmds) \in Nat /\ cmds \in Seq(Slots)
    BY HandedSplits DEF IndInv, TypeOK
  <1>2. /\ Len(Pending) = IF Handed + 1 <= Len(cmds) THEN Len(cmds) - Handed ELSE 0
        /\ DOMAIN Pending = 1..Len(Pending)
        /\ \A i \in 1..(Len(cmds) - Handed) : Pending[i] = cmds[Handed + i]
    <2>1. \A i \in (Handed + 1)..Len(cmds) : cmds[i] \in Slots
      BY <1>1
    <2>2. /\ Pending \in Seq(Slots)
          /\ Len(Pending) = IF Handed + 1 <= Len(cmds) THEN Len(cmds) - (Handed + 1) + 1 ELSE 0
          /\ \A i \in 1..(Len(cmds) - (Handed + 1) + 1) :
                Pending[i] = cmds[(Handed + 1) + i - 1]
      BY <1>1, <2>1, SubSeqProperties DEF Pending
    <2>3. DOMAIN Pending = 1..Len(Pending)
      BY <2>2
    <2>4. \A i \in 1..(Len(cmds) - Handed) : (Handed + 1) + i - 1 = Handed + i
      BY <1>1
    <2> QED BY <1>1, <2>2, <2>3, <2>4
  <1>3. \A i \in DOMAIN Pending : Pending[i] \in Queued
    <2> SUFFICES ASSUME NEW i \in DOMAIN Pending PROVE Pending[i] \in Queued
      OBVIOUS
    <2>1. i \in 1..(Len(cmds) - Handed) /\ Handed + i \in DOMAIN cmds
      BY <1>1, <1>2
    <2> QED BY <1>2, <2>1 DEF Queued
  <1> QED BY <1>3 DEF Channel!Held, Pending, InFlight

\* A command that joins the list is accepted ...
LEMMA EnqueueIsAccept ==
    ASSUME IndInv, IndInv', NEW t \in Senders, NEW defer \in BOOLEAN,
           pc[t] = "queue", Enqueue(mine[t], defer), defer \/ ~LastBusy
    PROVE  Channel!Next
  <1> DEFINE s == mine[t]
             n == Len(cmds)
  <1>1. /\ s \in Slots /\ s \notin Queued
        /\ s \notin waitPush /\ s \notin waitCfm
    BY DEF IndInv, ThreadsConsistent, PoolAgrees, Unlisted, FlagsConsistent, TypeOK,
           Threads
  <1>2. /\ cmds \in Seq(Slots) /\ cmds' \in Seq(Slots) /\ n \in Nat
        /\ cmds' = Append(cmds, s) /\ Len(cmds') = n + 1
        /\ DOMAIN cmds = 1..n /\ DOMAIN cmds' = 1..(n + 1)
        /\ \A i \in 1..n : cmds'[i] = cmds[i]
        /\ cmds'[n + 1] = s
    BY <1>1 DEF IndInv, TypeOK, Enqueue
  <1>3. Queued' = Queued \cup {s}
    BY <1>2 DEF Queued
  <1>4. s \notin Channel!Held /\ state = "inited" /\ state' = state
    BY <1>1, HeldQueued DEF Enqueue
  <1>5. Answered' = Answered
    BY <1>1, <1>3 DEF Answered, Enqueue
  <1>6. /\ Handed \in 0..n
        /\ \A i \in 1..n : cmds[i] \in waitPush <=> i > Handed
    BY <1>2, HandedSplits DEF IndInv
  <1>7. \A i \in 1..n : cmds[i] \in waitPush' <=> cmds[i] \in waitPush
    <2>1. \A i \in 1..n : cmds[i] # s
      BY <1>1, <1>2 DEF Queued
    <2> QED BY <2>1 DEF Enqueue
  <1>8. ASSUME NEW k \in 0..(n + 1),
               \A i \in 1..(n + 1) : cmds'[i] \in waitPush' <=> i > k
        PROVE  Handed' = k
    <2>1. k \in 0..Len(cmds') /\ \A i \in 1..Len(cmds') : cmds'[i] \in waitPush' <=> i > k
      BY <1>2, <1>8
    <2>2. PrefixWithout(cmds', waitPush') = k
      BY <1>2, <2>1, PrefixUnique
    <2> QED BY <2>2 DEF Handed
  <1>9. CASE defer
    <2>1. InFlight' = InFlight
      BY <1>1, <1>3, <1>9 DEF InFlight, Enqueue
    <2>2. s \in waitPush'
      BY <1>9 DEF Enqueue
    <2>3. Handed' = Handed
      <3>1. \A i \in 1..(n + 1) : i \in 1..n \/ i = n + 1
        BY <1>2
      <3>2. Handed \in 0..(n + 1) /\ n + 1 > Handed
        BY <1>2, <1>6
      <3>3. \A i \in 1..(n + 1) : cmds'[i] \in waitPush' <=> i > Handed
        BY <1>2, <1>6, <1>7, <2>2, <3>1, <3>2
      <3> QED BY <1>8, <3>2, <3>3
    <2>4. Pending' = Append(Pending, s)
      <3>1. Pending' = SubSeq(cmds', Handed + 1, n + 1)
        BY <1>2, <2>3 DEF Pending
      <3>2. SubSeq(cmds', Handed + 1, n + 1)
              = SubSeq(cmds', Handed + 1, (n + 1) - 1) \o <<cmds'[n + 1]>>
        <4>1. Handed + 1 \in 1..Len(cmds') /\ n + 1 \in (Handed + 1)..Len(cmds')
          BY <1>2, <1>6
        <4> QED BY <1>2, <4>1, SubSeqRecursiveSecond
      <3>3. (n + 1) - 1 = n
        BY <1>2
      <3>4. SubSeq(cmds', Handed + 1, n) = SubSeq(cmds, Handed + 1, n)
        <4>1. CASE Handed = n
          <5>1. Handed + 1 \in Int /\ n \in Int /\ n < Handed + 1
            BY <1>2, <4>1
          <5> QED BY <5>1, SubSeqEmpty
        <4>2. CASE Handed < n
          <5>1. Handed + 1 \in 1..Len(cmds) /\ n \in 1..Len(cmds) /\ <<s>> \in Seq(Slots)
            BY <1>1, <1>2, <1>6, <4>2
          <5>2. cmds' = cmds \o <<s>>
            BY <1>1, <1>2, AppendIsConcat
          <5> QED BY <1>2, <5>1, <5>2, SubSeqOfConcat1
        <4>3. Handed = n \/ Handed < n
          <5>1. n \in Nat /\ Handed \in 0..n
            BY <1>2, <1>6
          <5> HIDE DEF n
          <5> QED BY <5>1
        <4> QED BY <4>1, <4>2, <4>3
      <3>5. Pending \in Seq(Slots)
        <4>1. Handed + 1 \in Int /\ n \in Int /\ \A i \in (Handed + 1)..n : cmds[i] \in Slots
          BY <1>2, <1>6
        <4> QED BY <4>1, SubSeqProperties DEF Pending
      <3>6. Pending \o <<s>> = Append(Pending, s)
        BY <1>1, <3>5, AppendIsConcat
      <3> QED BY <1>2, <3>1, <3>2, <3>3, <3>4, <3>6 DEF Pending
    <2>5. Channel!Accept(s)
      BY <1>4, <1>5, <2>1, <2>4 DEF Channel!Accept, Pending, Answered
    <2> QED BY <1>1, <2>5 DEF Channel!Next
  <1>10. CASE ~defer
    <2>1. ~LastBusy /\ waitPush' = waitPush /\ waitCfm' = waitCfm \cup {s}
      BY <1>10 DEF Enqueue
    <2>2. \A i \in 1..n : cmds[i] \notin waitPush /\ cmds[i] \notin waitCfm
      <3> SUFFICES ASSUME NEW i \in 1..n, cmds[i] \in waitPush \cup waitCfm
                   PROVE  FALSE
        OBVIOUS
      <3>1. n \in DOMAIN cmds /\ i \in DOMAIN cmds /\ cmds # <<>>
        BY <1>2
      <3>2. i # n
        BY <2>1, <3>1 DEF LastBusy
      <3>3. i < n
        <4>1. n \in Nat
          BY <1>2
        <4> HIDE DEF n
        <4> QED BY <3>2, <4>1
      <3> QED BY <2>1, <3>1, <3>3 DEF LastBusy, IndInv, DeferredBehindBusy
    <2>3. InFlight = {} /\ InFlight' = {s}
      BY <1>1, <1>2, <1>3, <2>1, <2>2 DEF InFlight, Queued
    <2>4. Handed = n
      <3>1. \A i \in 1..Len(cmds) : cmds[i] \in waitPush <=> i > n
        BY <1>2, <2>2
      <3>2. n \in 0..Len(cmds)
        BY <1>2
      <3> QED BY <1>2, <3>1, <3>2, PrefixUnique DEF Handed
    <2>5. Handed' = n + 1
      <3>1. \A i \in 1..(n + 1) : i \in 1..n \/ i = n + 1
        BY <1>2
      <3>2. \A i \in 1..(n + 1) : cmds'[i] \in waitPush' <=> i > n + 1
        BY <1>1, <1>2, <2>1, <2>2, <3>1
      <3> QED BY <1>2, <1>8, <3>2
    <2>6. Pending = <<>> /\ Pending' = <<>>
      <3>1. SubSeq(cmds, n + 1, n) = <<>>
        BY <1>2, SubSeqEmpty
      <3>2. SubSeq(cmds', (n + 1) + 1, n + 1) = <<>>
        BY <1>2, SubSeqEmpty
      <3> QED BY <1>2, <2>4, <2>5, <3>1, <3>2 DEF Pending
    <2>7. Channel!AcceptAndIssue(s)
      BY <1>4, <1>5, <2>3, <2>6 DEF Channel!AcceptAndIssue, Pending, Answered
    <2> QED BY <1>1, <2>7 DEF Channel!Next
  <1> QED BY <1>9, <1>10

\* A step that changes neither the list, nor the flags, nor the state.
LEMMA ChannelUntouched ==
    ASSUME UNCHANGED <<cmds, waitPush, waitCfm, state>>
    PROVE  UNCHANGED Channel!chanVars
  <1>1. Handed' = Handed /\ Queued' = Queued
    BY DEF Handed, Queued
  <1>2. InFlight' = InFlight
    BY <1>1 DEF InFlight
  <1> QED BY <1>1, <1>2 DEF Channel!chanVars

\* ... the worker hands over the first command left to it ...
LEMMA PushIsIssue ==
    ASSUME IndInv, NEW t \in Threads, Push(t)
    PROVE  [Channel!Next]_(Channel!chanVars)
  <1>1. CASE t \in Senders
    <2>1. waitPush' = waitPush
      BY <1>1 DEF Push, IndInv, ThreadsConsistent, Working
    <2> QED BY <2>1, ChannelUntouched DEF Push
  <1>2. CASE t = Worker
    <2> DEFINE n == Len(cmds)
               s == cmds[1]
    <2>1. /\ cmds # <<>> /\ mine[t] = s /\ s \in waitPush
          /\ waitPush' = waitPush \ {s}
          /\ UNCHANGED <<cmds, waitCfm, state>>
      BY <1>2 DEF Push, IndInv, ThreadsConsistent
    <2>2. /\ cmds \in Seq(Slots) /\ n \in Nat \ {0}
          /\ DOMAIN cmds = 1..n /\ 1 \in 1..n
      BY <2>1 DEF IndInv, TypeOK
    <2>3. Queued' = Queued
      BY <2>1 DEF Queued
    <2>4. ASSUME NEW i \in 1..n, i # 1
          PROVE  cmds[i] \in waitPush /\ cmds[i] # s
      <3>1. 1 < i
        BY <2>2, <2>4
      <3> QED BY <2>1, <2>2, <2>4, <3>1 DEF IndInv, DeferredBehindBusy, PoolAgrees
    <2>5. /\ 0 \in 0..n /\ 1 \in 0..n
          /\ \A i \in 1..n : i > 0 /\ (i > 1 <=> i # 1)
      BY <2>2
    <2>6. Handed = 0
      BY <2>1, <2>2, <2>4, <2>5, PrefixUnique DEF Handed
    <2>7. Handed' = 1
      <3>1. \A i \in 1..Len(cmds) : cmds[i] \in waitPush' <=> i > 1
        BY <2>1, <2>2, <2>4, <2>5
      <3>2. PrefixWithout(cmds, waitPush') = 1
        BY <2>2, <2>5, <3>1, PrefixUnique
      <3> QED BY <2>1, <3>2 DEF Handed
    <2>8. Pending = cmds
      <3>1. Pending = SubSeq(cmds, 1, Len(cmds))
        BY <2>6 DEF Pending
      <3> QED BY <2>2, <3>1, SubSeqFull
    <2>9. Pending' = Tail(Pending)
      <3>1. Pending' = SubSeq(cmds, 2, Len(cmds))
        BY <2>1, <2>7 DEF Pending
      <3> QED BY <2>1, <2>2, <2>8, <3>1, TailIsSubSeq
    <2>10. \A u \in Queued : u \in waitPush
      BY <2>1, <2>2, <2>4 DEF Queued
    <2>11. InFlight = {} /\ Answered = {} /\ Answered' = {}
      BY <2>1, <2>3, <2>10 DEF InFlight, Answered, IndInv, FlagsConsistent
    <2>12. s \in Queued /\ s \in waitCfm
      BY <2>1, <2>2 DEF Queued, IndInv, FlagsConsistent
    <2>13. InFlight' = {s}
      BY <2>1, <2>3, <2>10, <2>12 DEF InFlight
    <2>14. s = Head(Pending) /\ Pending # <<>>
      BY <2>1, <2>2, <2>8
    <2>15. Channel!Issue
      BY <2>1, <2>9, <2>11, <2>13, <2>14 DEF Channel!Issue, Pending, Answered
    <2> QED BY <2>15 DEF Channel!Next
  <1> QED BY <1>1, <1>2 DEF Threads

\* ... a thread retires its confirmed command ...
LEMMA RemoveIsRetire ==
    ASSUME IndInv, NEW t \in Threads, Remove(t)
    PROVE  Channel!Next
  <1> DEFINE n == Len(cmds)
  <1>0. PICK s \in Slots : s = mine[t]
    BY DEF Remove, IndInv, TypeOK
  <1>1. PICK r \in DOMAIN cmds : cmds[r] = s /\ cmds' = Without(cmds, r)
    BY <1>0 DEF Remove
  <1>2. /\ s \in complete /\ s \in Queued /\ s \notin waitCfm /\ s \notin waitPush
    BY <1>0 DEF Remove, IndInv, FlagsConsistent
  <1>3. /\ cmds \in Seq(Slots) /\ n \in Nat /\ DOMAIN cmds = 1..n /\ r \in 1..n
        /\ \A i, j \in 1..n : cmds[i] = cmds[j] => i = j
    BY DEF IndInv, TypeOK, PoolAgrees
  <1>4. /\ cmds' \in Seq(Slots) /\ DOMAIN cmds' = 1..(n - 1) /\ n - 1 \in Nat
        /\ Len(cmds') = n - 1
        /\ \A j \in 1..(n - 1) : j < r => cmds'[j] = cmds[j]
        /\ \A j \in 1..(n - 1) : ~(j < r) => cmds'[j] = cmds[j + 1]
    <2>1. /\ cmds' \in Seq(Slots) /\ DOMAIN cmds' = 1..(n - 1)
          /\ \A j \in 1..(n - 1) : j < r => cmds'[j] = cmds[j]
          /\ \A j \in 1..(n - 1) : ~(j < r) => cmds'[j] = cmds[j + 1]
      BY <1>1, <1>3, WithoutFacts
    <2>2. n - 1 \in Nat
      BY <1>3
    <2>3. Len(cmds') = n - 1
      BY <2>1, <2>2
    <2> QED BY <2>1, <2>2, <2>3
  <1>5. Queued' = Queued \ {s}
    BY <1>1, <1>3, QueuedAfterRemove
  <1>6. waitPush' = waitPush /\ waitCfm' = waitCfm /\ state' = state
    BY DEF Remove
  <1>7. s \in Answered /\ Answered' = Answered \ {s} /\ InFlight' = InFlight
    BY <1>2, <1>5, <1>6 DEF Answered, InFlight
  <1>8. /\ Handed \in 0..n
        /\ \A i \in 1..n : cmds[i] \in waitPush <=> i > Handed
    BY HandedSplits DEF IndInv
  <1> HIDE DEF n
  <1>9. r <= Handed /\ Handed - 1 \in 0..(n - 1)
    <2>1. ~(r > Handed)
      BY <1>1, <1>2, <1>3, <1>8
    <2> QED BY <1>3, <1>8, <2>1
  <1>10. Handed' = Handed - 1
    <2>1. ASSUME NEW j \in 1..(n - 1)
          PROVE  cmds'[j] \in waitPush <=> j > Handed - 1
      <3>1. CASE j < r
        <4>1. j \in 1..n /\ ~(j > Handed) /\ ~(j > Handed - 1)
          BY <1>3, <1>8, <1>9, <3>1
        <4> QED BY <1>4, <1>8, <3>1, <4>1
      <3>2. CASE ~(j < r)
        <4>1. j + 1 \in 1..n /\ (j + 1 > Handed <=> j > Handed - 1)
          BY <1>3, <1>8
        <4> QED BY <1>4, <1>8, <3>2, <4>1
      <3> QED BY <3>1, <3>2
    <2>2. PrefixWithout(cmds', waitPush) = Handed - 1
      BY <1>4, <1>9, <2>1, PrefixUnique
    <2> QED BY <1>6, <2>2 DEF Handed
  <1>11. Pending' = Pending
    <2> DEFINE h == Handed
    <2>1. Pending' = SubSeq(cmds', h, n - 1)
      <3>1. (Handed - 1) + 1 = Handed
        BY <1>8
      <3> QED BY <1>4, <1>10, <3>1 DEF Pending
    <2>2. Pending = SubSeq(cmds, h + 1, n)
      BY DEF Pending, n
    <2>3. h \in Nat \ {0} /\ h <= n /\ r <= h /\ r \in Nat
      BY <1>3, <1>8, <1>9
    <2> HIDE DEF h
    <2>4. /\ \A i \in h..(n - 1) : i \in 1..(n - 1) /\ ~(i < r)
          /\ \A i \in (h + 1)..n : i \in 1..n
          /\ (n - 1) - h + 1 = n - h /\ n - (h + 1) + 1 = n - h
          /\ h \in Int /\ n \in Int /\ n - 1 \in Int /\ h + 1 \in Int
          /\ (h <= n - 1 <=> h + 1 <= n)
      BY <1>3, <2>3
    <2>5. /\ SubSeq(cmds', h, n - 1) \in Seq(Slots)
          /\ Len(SubSeq(cmds', h, n - 1)) = IF h + 1 <= n THEN n - h ELSE 0
          /\ \A i \in 1..(n - h) : SubSeq(cmds', h, n - 1)[i] = cmds'[h + i - 1]
      <3>1. \A i \in h..(n - 1) : cmds'[i] \in Slots
        BY <1>4, <2>4
      <3> QED BY <2>4, <3>1, SubSeqProperties
    <2>6. /\ SubSeq(cmds, h + 1, n) \in Seq(Slots)
          /\ Len(SubSeq(cmds, h + 1, n)) = IF h + 1 <= n THEN n - h ELSE 0
          /\ \A i \in 1..(n - h) : SubSeq(cmds, h + 1, n)[i] = cmds[(h + 1) + i - 1]
      <3>1. \A i \in (h + 1)..n : cmds[i] \in Slots
        BY <1>3, <2>4
      <3> QED BY <2>4, <3>1, SubSeqProperties
    <2>7. \A i \in 1..(n - h) :
            /\ h + i - 1 \in 1..(n - 1) /\ ~(h + i - 1 < r)
            /\ (h + i - 1) + 1 = (h + 1) + i - 1
      BY <1>3, <2>3
    <2>8. \A i \in 1..(n - h) : cmds'[h + i - 1] = cmds[(h + 1) + i - 1]
      BY <1>4, <2>7
    <2> DEFINE p == SubSeq(cmds', h, n - 1)
               q == SubSeq(cmds, h + 1, n)
    <2>9. /\ p \in Seq(Slots) /\ q \in Seq(Slots) /\ Len(p) = Len(q)
          /\ \A i \in 1..Len(p) : p[i] = q[i]
      <3>1. Len(p) = Len(q)
        BY <2>5, <2>6
      <3>2. CASE h + 1 <= n
        BY <2>5, <2>6, <2>8, <3>1, <3>2
      <3>3. CASE ~(h + 1 <= n)
        <4>1. Len(p) = 0
          BY <2>5, <3>3
        <4>2. 1..0 = {}
          OBVIOUS
        <4> HIDE DEF p, q
        <4>3. \A i \in 1..Len(p) : p[i] = q[i]
          BY <4>1, <4>2
        <4> QED BY <2>5, <2>6, <3>1, <4>3 DEF p, q
      <3> QED BY <3>2, <3>3
    <2> HIDE DEF p, q
    <2>10. p = q
      BY <2>9, SeqEqual
    <2> QED BY <2>1, <2>2, <2>10 DEF p, q
  <1>12. Channel!Retire(s)
    BY <1>6, <1>7, <1>11 DEF Channel!Retire, Pending, Answered
  <1> QED BY <1>12 DEF Channel!Next

\* ... and a confirmation reaches the command that is outstanding.
LEMMA MsgIndIsConfirm ==
    ASSUME IndInv, NEW p \in fw, MsgInd(p)
    PROVE  Channel!Next
  <1>1. p.slot \in InFlight /\ p.slot \in Slots
    BY DEF IndInv, PacketsConsistent, Carries, TypeOK, Packets
  <1>2. /\ waitCfm' = waitCfm \ {p.slot}
        /\ UNCHANGED <<cmds, waitPush, state>>
    BY AcceptingOwn DEF MsgInd
  <1>3. Queued' = Queued /\ Handed' = Handed
    BY <1>2 DEF Queued, Handed
  <1>4. InFlight' = InFlight \ {p.slot} /\ Answered' = Answered \cup {p.slot}
    BY <1>1, <1>2, <1>3 DEF InFlight, Answered
  <1>5. Channel!Confirm(p.slot)
    BY <1>1, <1>2, <1>3, <1>4 DEF Channel!Confirm, Answered
  <1> QED BY <1>1, <1>5 DEF Channel!Next

\* A step of the manager is a step of the channel, or none.
LEMMA NextIsChannel ==
    ASSUME IndInv, IndInv', [Next]_vars
    PROVE  [Channel!Next]_(Channel!chanVars)
  <1>1. ASSUME NEW t \in Senders, Send(t) \/ SendNull(t)
        PROVE  UNCHANGED Channel!chanVars
    BY <1>1, ChannelUntouched DEF Send, SendNull
  <1>2. ASSUME NEW t \in Senders,
               SendNoCfm(t) \/ PollCrashed(t) \/ Refuse(t) \/ CheckWake(t) \/ WakeNext(t)
        PROVE  UNCHANGED Channel!chanVars
    BY <1>2, ChannelUntouched
    DEF SendNoCfm, PollCrashed, Refuse, FreeRefused, CheckWake, WakeNext
  <1>3. ASSUME NEW t \in Senders, QueueDirect(t) PROVE Channel!Next
    <2>1. pc[t] = "queue" /\ Enqueue(mine[t], FALSE) /\ ~LastBusy
      BY <1>3 DEF QueueDirect, Entered
    <2> QED BY <2>1, EnqueueIsAccept
  <1>4. ASSUME NEW t \in Senders, QueueDeferred(t) \/ ForceDefer(t) PROVE Channel!Next
    <2>1. pc[t] = "queue" /\ Enqueue(mine[t], TRUE)
      BY <1>4 DEF QueueDeferred, ForceDefer, Entered
    <2> QED BY <2>1, EnqueueIsAccept
  <1>5. ASSUME NEW t \in Threads, Push(t) PROVE [Channel!Next]_(Channel!chanVars)
    BY <1>5, PushIsIssue
  <1>6. ASSUME NEW t \in Threads, Remove(t) PROVE Channel!Next
    BY <1>6, RemoveIsRetire
  <1>7. ASSUME NEW t \in Threads, TimeOut(t) \/ Unlock(t) PROVE UNCHANGED Channel!chanVars
    BY <1>7, ChannelUntouched DEF TimeOut, Unlock
  <1>8. ASSUME NEW t \in Threads, Crash(t) PROVE Channel!Next
    <2>1. state' = "crashed" /\ UNCHANGED <<cmds, waitPush, waitCfm>>
      BY <1>8 DEF Crash
    <2>2. Handed' = Handed /\ Queued' = Queued
      BY <2>1 DEF Handed, Queued
    <2>3. InFlight' = InFlight
      BY <2>1, <2>2 DEF InFlight
    <2>4. Channel!Die
      BY <2>1, <2>2, <2>3 DEF Channel!Die
    <2> QED BY <2>4 DEF Channel!Next
  <1>9. CASE WorkStart \/ Scan \/ Transmit \/ UNCHANGED vars
    <2>1. UNCHANGED <<cmds, waitPush, waitCfm, state>>
      BY <1>9 DEF WorkStart, Scan, Transmit, vars
    <2> QED BY <2>1, ChannelUntouched
  <1>10. ASSUME NEW p \in fw, MsgInd(p) PROVE Channel!Next
    BY <1>10, MsgIndIsConfirm
  <1> QED
    BY <1>1, <1>2, <1>3, <1>4, <1>5, <1>6, <1>7, <1>8, <1>9, <1>10
    DEF Next, SenderStep, ThreadStep

(***************************************************************************)
(* The list, its flags, the worker and the pushing callers of              *)
(* cmd_mgr_queue implement a channel that carries one command at a time in *)
(* the order of acceptance and dies with the first timeout.                *)
(***************************************************************************)
THEOREM ManagerIsChannel == Spec => ImplementsChannel
  <1>1. Init => Channel!Init
    <2> SUFFICES ASSUME Init PROVE Channel!Init
      OBVIOUS
    <2>1. cmds = <<>> /\ Queued = {} /\ state = "inited"
      BY DEF Init, Queued
    <2>2. Handed = 0
      <3>1. cmds \in Seq(Slots) /\ Len(cmds) = 0
        BY <2>1
      <3>2. 0 \in 0..Len(cmds) /\ \A i \in 1..Len(cmds) : cmds[i] \in waitPush <=> i > 0
        BY <3>1
      <3> QED BY <3>1, <3>2, PrefixUnique DEF Handed
    <2>3. SubSeq(cmds, Handed + 1, Len(cmds)) = <<>>
      <3>1. Handed + 1 \in Int /\ Len(cmds) \in Int /\ Len(cmds) < Handed + 1
        BY <2>1, <2>2
      <3> QED BY <3>1, SubSeqEmpty
    <2> QED BY <2>1, <2>3 DEF Channel!Init, InFlight
  <1>2. IndInv /\ IndInv' /\ [Next]_vars => [Channel!Next]_(Channel!chanVars)
    BY NextIsChannel
  <1> QED BY <1>1, <1>2, IndInvHolds, PTL DEF Spec, ImplementsChannel, Channel!Spec

=============================================================================
