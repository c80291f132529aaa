---------------------------- MODULE Iface_proofs ----------------------------
(***************************************************************************)
(* One interface, for any number of channels, stations and indices, and    *)
(* any messages under way: no indication comes too late for the structures *)
(* it uses, every channel context has exactly the links of the interface,  *)
(* at rest all parties agree about the connection, and about the stations  *)
(* of an access point.                                                     *)
(*                                                                         *)
(* The driver learns of the firmware's link only by the messages that it   *)
(* takes, in order.  The argument follows the link that the messages taken *)
(* so far amount to, k: the messages that are still under way lead from k  *)
(* to the link that the firmware has now (Explains).  Everything the       *)
(* driver holds for a connection is related to k, never to the firmware's  *)
(* link itself.  At rest no message is under way, and k is that link.      *)
(*                                                                         *)
(* The stations of an access point are compared directly: a station on one *)
(* side only is in the hands of the call or of the work that has taken it  *)
(* from the list, or given to the firmware, and sleeps (HeldInv).          *)
(***************************************************************************)
EXTENDS ApIface, Integers, OrderFacts, TLAPS

\* The link of the firmware, and the messages it sends.
Links == {"none", "idle", "joining", "up", "roaming", "rejoining"}

ConnMsgs ==
    [type : {"conn"}, st : {"ok"}, re : BOOLEAN, ch : Chans]
    \cup [type : {"conn"}, st : {"failed"}, re : BOOLEAN, ch : {None}]
DiscMsgs == [type : {"disc"}, re : BOOLEAN]
Msgs ==
    [type : {"cfm"}, st : {"ok", "refused"}] \cup ConnMsgs \cup DiscMsgs
    \cup [type : {"loss"}, mac : Peers \cup {None}]
    \cup [type : {"scan", "roc_end", "loss_cfm"}]

\* Where the busrx thread may be.
ConnPcs == {"conn", "conn_test", "conn_tell", "conn_end"}
DiscPcs == {"disc", "disc_ap", "disc_end"}
RxPcs ==
    {"idle", "cfm", "scan", "roc_end", "loss", "loss_cfm"} \cup ConnPcs \cup DiscPcs

FwType == [link : Links, leave : BOOLEAN, scan : BOOLEAN, roc : BOOLEAN]
RxType == [pc : RxPcs, m : Msgs \cup {None}]
VifType ==
    [type : {"sta", "ap"}, up : BOOLEAN, table : BOOLEAN,
     conn : {"disconnected", "connecting", "connected", "roaming", "disconnecting"},
     roam : BOOLEAN, ap : BOOLEAN, carrier : BOOLEAN, ch : Chans \cup {None}]
KernType == [run : BOOLEAN, ssid : BOOLEAN, bss : BOOLEAN]
ApType ==
    [beacon : BOOLEAN, stopping : BOOLEAN,
     wq : {"none", "live", "destroyed"}, probing : BOOLEAN]
ArgType == [mac : Peers \cup {None}, id : Ids \cup {None}]

Typed ==
    /\ env \in Environments
    /\ evq \in Seq(Msgs)
    /\ fw \in FwType /\ rx \in RxType /\ vif \in VifType
    /\ ctx \in [Chans -> Nat]
    /\ kern \in KernType /\ ap \in ApType /\ arg \in ArgType
    /\ list \subseteq Ids \cup {None}
    /\ fwSta \in [Ids -> Peers \cup {None}]
-----------------------------------------------------------------------------
(* Messages and the link.                                                  *)

\* What the confirmation of the call u says: the link was a, and is b.
CfmStep(u, st, a, b) ==
    /\ u \in {"open", "change_add"} => a = "none" /\ b = "idle"
    /\ u \in {"close_rem", "change_rem"} => b = "none"
    /\ u = "conn_cfm" => \/ st = "refused" /\ b = a
                         \/ st = "ok" /\ a = "idle" /\ b = "joining"
                         \/ st = "ok" /\ a = "up" /\ b = "roaming"
    /\ u \notin {"open", "change_add", "close_rem", "change_rem", "conn_cfm"} => b = a

\* The message m, during the call u, leads from the link a to the link b.
Leads(u, m, a, b) ==
    /\ m.type = "cfm" => CfmStep(u, m.st, a, b)
    /\ m.type = "conn" => /\ a = IF m.re THEN "rejoining" ELSE "joining"
                          /\ b = IF m.st = "ok" THEN "up" ELSE "idle"
    /\ m.type = "disc" => /\ a = IF m.re THEN "roaming" ELSE "up"
                          /\ b = IF m.re THEN "rejoining" ELSE "idle"
    /\ m.type \notin {"cfm", "conn", "disc"} => b = a

\* The messages of q lead from a to b, one link after the other.
Explains(u, q, a, b) ==
    \E h \in [0..Len(q) -> Links] :
       /\ h[0] = a /\ h[Len(q)] = b
       /\ \A i \in 1..Len(q) : Leads(u, q[i], h[i - 1], h[i])

NoCfm(q) == \A i \in 1..Len(q) : q[i].type # "cfm"
OneCfm(q) == \A i, j \in 1..Len(q) : q[i].type = "cfm" /\ q[j].type = "cfm" => i = j
-----------------------------------------------------------------------------
(* The inductive invariant.                                                *)

\* Points of a call without and with a command, and which command it is.
Waits == {"idle", "conn_set", "disc", "disc_set", "close", "close_roc",
          "ap_stop", "ap_reord"}
Asks == {"open", "conn_cfm", "disc_cfm", "close_cfm", "close_disc", "close_rem",
         "close_reset", "wait", "roc_cfm", "change_scan", "change_rem",
         "change_add", "ap_start", "ap_stop_cfm", "ap_add", "ap_del"}
Asked ==
    {<<"open", "add_if">>, <<"change_add", "add_if">>,
     <<"close_rem", "remove_if">>, <<"change_rem", "remove_if">>,
     <<"conn_cfm", "connect">>, <<"disc_cfm", "disconnect">>,
     <<"close_disc", "disconnect">>, <<"close_cfm", "cancel_scan">>,
     <<"change_scan", "cancel_scan">>, <<"close_reset", "reset">>,
     <<"wait", "scan">>, <<"wait", "cancel_roc">>, <<"roc_cfm", "roc">>,
     <<"ap_start", "apm_start">>, <<"ap_stop_cfm", "apm_stop">>,
     <<"ap_add", "sta_add">>, <<"ap_del", "sta_del">>}

\* One confirmation is under way, in the queue or with the busrx thread,
\* exactly while the command is sent.
CmdInv ==
    /\ user \in Waits \cup Asks /\ then \in {"idle", "close"}
    /\ user \in Waits => cmd = "none"
    /\ user \in Asks => <<user, cmd>> \in Asked \/ cmd \in {"sent", "ok", "refused"}
    /\ cmd # "sent" => NoCfm(evq)
    /\ rx.pc = "cfm" => cmd = "sent" /\ NoCfm(evq) /\ rx.m.st \in {"ok", "refused"}
    /\ OneCfm(evq)

\* What the call in progress says of the interface.
UserInv ==
    /\ vif.up = (kern.run /\ user \notin {"close_disc", "close_rem", "close_reset"})
    /\ user = "open" => ~kern.run
    /\ user \notin {"idle", "open"} => kern.run
    /\ kern.run /\ user \notin {"close_reset", "change_add"} => vif.table
    /\ user \in {"close_cfm", "close_roc", "close", "close_reset", "close_rem",
                 "change_scan", "change_rem", "change_add"} => ~ap.beacon
    /\ user \in {"conn_set", "conn_cfm", "disc", "disc_set", "disc_cfm", "close_disc"} =>
           vif.type = "sta"
    /\ then = "close" => user \in {"disc", "disc_set", "disc_cfm"}
    /\ user \in {"ap_stop", "ap_stop_cfm", "ap_add", "ap_reord", "ap_del"} => ap.beacon
    /\ user = "ap_start" => vif.type = "ap" /\ ~ap.beacon /\ ap.wq = "live"
    /\ ap.beacon => vif.type = "ap" /\ kern.run /\ ap.wq = "live"

\* The firmware has no link for an interface that it has removed.
FwInv ==
    /\ (user = "idle" /\ ~kern.run) \/ user = "close_reset" => fw.link = "none"
    /\ user \in {"close_rem", "change_rem"} /\ cmd # "remove_if" => fw.link = "none"
    /\ user \in {"open", "change_add"} /\ cmd = "add_if" => fw.link = "none"

Linked == {"up", "roaming"}

\* The link that is known, with the call, the busrx thread and the state of the
\* connection: once a call has seen the interface removed, nothing more comes
\* for it; while a disconnection is known of or due, the state says so.
KnownInv(k) ==
    /\ (user = "idle" /\ ~kern.run) \/ user = "close_reset" => k = "none"
    /\ user \in {"close_rem", "change_rem"}
       /\ (rx.pc = "cfm" \/ cmd \in {"ok", "refused"}) => k = "none"
    /\ user \in {"open", "change_add", "change_scan", "change_rem"} =>
           k \in {"none", "idle"} /\ rx.pc \notin ConnPcs \cup DiscPcs
    /\ k \in Linked /\ rx.pc \notin {"conn", "conn_test", "conn_tell"} =>
           vif.conn # "disconnected"
    /\ rx.pc \in ConnPcs =>
           /\ rx.m \in ConnMsgs
           /\ k = IF rx.m.st = "ok" THEN "up" ELSE "idle"
           /\ vif.type = "sta"
    /\ rx.pc \in DiscPcs =>
           /\ rx.m \in DiscMsgs
           /\ k = (IF rx.m.re THEN "rejoining" ELSE "idle") /\ vif.type = "sta"
    /\ rx.pc \in {"disc", "disc_ap"} => vif.conn # "disconnected"
    /\ vif.type = "ap" => k \in {"none", "idle"}

\* An access point has a channel only while it is started; a station has one,
\* and the station structure of its peer, exactly while the known link needs
\* it, up to the indication in progress and the removal that rwnx_close waits
\* for.
ChanInv(k) ==
    /\ vif.type = "ap" => (vif.ch # None => ap.beacon)
    /\ vif.type = "sta" =>
         /\ vif.ch # None => vif.ap = TRUE
         /\ vif.ch # None => \/ k \in Linked /\ rx.pc # "conn"
                             \/ rx.pc \in {"disc", "disc_ap"}
                             \/ k = "none" /\ user = "close_rem"
         /\ k \in Linked /\ rx.pc # "conn" => vif.ch # None
         /\ rx.pc \in {"disc", "disc_ap"} => vif.ch # None

\* Everything, for the known link k.
Inv(k) ==
    /\ Typed /\ CmdInv /\ UserInv /\ FwInv /\ KnownInv(k) /\ ChanInv(k)
    /\ Explains(user, evq, k, fw.link)
    /\ ~halted /\ ContextsCounted

\* There is a link that is known.
IndInv == \E k \in Links : Inv(k)

\* cfg80211 changes the type of a running interface only when it is not
\* connected and nothing is under way.
NoRetype == \A e \in Environments : "retype" \notin e
-----------------------------------------------------------------------------
(* Lemmas about the messages under way.                                    *)

\* No message, no change.
LEMMA EmptyExplains ==
  ASSUME NEW u, NEW a, NEW b, Explains(u, <<>>, a, b)
  PROVE  a = b
BY DEF Explains

\* Without a confirmation the messages mean the same to every call.
LEMMA NoCfmOfAnyCall ==
  ASSUME NEW u, NEW v, NEW a, NEW b, NEW q \in Seq(Msgs), NoCfm(q),
         Explains(u, q, a, b)
  PROVE  Explains(v, q, a, b)
<1>1. \A i \in 1..Len(q) : \A c, d : Leads(u, q[i], c, d) => Leads(v, q[i], c, d)
  BY DEF NoCfm, Leads
<1> QED
  BY <1>1 DEF Explains

\* A message more leads on from where the others end.
LEMMA SaidExplains ==
  ASSUME NEW u, NEW a, NEW b, NEW c \in Links, NEW q \in Seq(Msgs),
         NEW m \in Msgs, Explains(u, q, a, b), Leads(u, m, b, c)
  PROVE  Explains(u, Append(q, m), a, c)
<1> DEFINE n == Len(q)
<1>1. n \in Nat /\ Len(Append(q, m)) = n + 1 /\ Append(q, m)[n + 1] = m
  OBVIOUS
<1>2. \A i \in 1..n : Append(q, m)[i] = q[i]
  OBVIOUS
<1>3. PICK h \in [0..n -> Links] :
         /\ h[0] = a /\ h[n] = b
         /\ \A i \in 1..n : Leads(u, q[i], h[i - 1], h[i])
  BY DEF Explains
<1> DEFINE g == [i \in 0..(n + 1) |-> IF i = n + 1 THEN c ELSE h[i]]
<1> HIDE DEF n
<1>4. g \in [0..(n + 1) -> Links]
  BY <1>1
<1>5. g[0] = a /\ g[n] = b /\ g[n + 1] = c
  BY <1>1, <1>3
<1>6. ASSUME NEW i \in 1..(n + 1)
      PROVE  Leads(u, Append(q, m)[i], g[i - 1], g[i])
  <2>1. CASE i = n + 1
    <3>1. i - 1 = n
      BY <1>1, <2>1
    <3> QED
      BY <1>1, <1>5, <2>1, <3>1
  <2>2. CASE i # n + 1
    <3>1. i \in 1..n /\ i \in 0..(n + 1) /\ i - 1 \in 0..(n + 1) /\ i - 1 # n + 1
      BY <1>1, <2>2
    <3>2. g[i] = h[i] /\ g[i - 1] = h[i - 1]
      BY <2>2, <3>1
    <3> QED
      BY <1>2, <1>3, <3>1, <3>2
  <2> QED
    BY <2>1, <2>2
<1> HIDE DEF g
<1> QED
  BY <1>1, <1>4, <1>5, <1>6 DEF Explains

\* The first message leads to a link from which the others go on.
LEMMA TakenExplains ==
  ASSUME NEW u, NEW a, NEW b, NEW q \in Seq(Msgs), q # <<>>,
         Explains(u, q, a, b)
  PROVE  \E c \in Links : Leads(u, Head(q), a, c) /\ Explains(u, Tail(q), c, b)
<1> DEFINE n == Len(q)
<1>1. n \in Nat /\ n >= 1 /\ Len(Tail(q)) = n - 1 /\ Head(q) = q[1]
  OBVIOUS
<1>2. \A i \in 1..(n - 1) : Tail(q)[i] = q[i + 1]
  OBVIOUS
<1>3. PICK h \in [0..n -> Links] :
         /\ h[0] = a /\ h[n] = b
         /\ \A i \in 1..n : Leads(u, q[i], h[i - 1], h[i])
  BY DEF Explains
<1> DEFINE g == [i \in 0..(n - 1) |-> h[i + 1]]
<1> HIDE DEF n
<1>4. g \in [0..(n - 1) -> Links]
  BY <1>1
<1>5. g[0] = h[1] /\ g[n - 1] = b
  BY <1>1, <1>3
<1>6. h[1] \in Links /\ Leads(u, q[1], a, h[1])
  <2>1. 1 \in 1..n /\ 1 - 1 = 0 /\ 1 \in 0..n
    BY <1>1
  <2> QED
    BY <1>3, <2>1
<1>7. ASSUME NEW i \in 1..(n - 1)
      PROVE  Leads(u, Tail(q)[i], g[i - 1], g[i])
  <2>1. i + 1 \in 1..n /\ i \in 0..(n - 1) /\ i - 1 \in 0..(n - 1) /\ (i + 1) - 1 = i
        /\ (i - 1) + 1 = i
    BY <1>1
  <2>2. g[i] = h[i + 1] /\ g[i - 1] = h[i]
    BY <2>1
  <2> QED
    BY <1>2, <1>3, <2>1, <2>2
<1> HIDE DEF g
<1> QED
  BY <1>1, <1>4, <1>5, <1>6, <1>7 DEF Explains

\* A message that is no confirmation, put at the end.
LEMMA SaidOther ==
  ASSUME NEW q \in Seq(Msgs), NEW m \in Msgs, m.type # "cfm"
  PROVE  /\ Append(q, m) \in Seq(Msgs)
         /\ NoCfm(q) => NoCfm(Append(q, m))
         /\ OneCfm(q) => OneCfm(Append(q, m))
BY DEF NoCfm, OneCfm

\* A confirmation, put at the end of messages that are none.
LEMMA SaidCfm ==
  ASSUME NEW q \in Seq(Msgs), NEW m \in Msgs, NoCfm(q)
  PROVE  Append(q, m) \in Seq(Msgs) /\ OneCfm(Append(q, m))
BY DEF NoCfm, OneCfm

\* The first message is taken.
LEMMA TakenCfm ==
  ASSUME NEW q \in Seq(Msgs), q # <<>>, OneCfm(q)
  PROVE  /\ Tail(q) \in Seq(Msgs) /\ Head(q) \in Msgs
         /\ OneCfm(Tail(q))
         /\ NoCfm(q) => NoCfm(Tail(q)) /\ Head(q).type # "cfm"
         /\ Head(q).type = "cfm" => NoCfm(Tail(q))
BY DEF NoCfm, OneCfm
-----------------------------------------------------------------------------
(* Calls.                                                                  *)

\* What the steps of StaIface leave alone of the access point.
Side ==
    /\ UNCHANGED ap
    /\ arg' \in ArgType
    /\ list' \subseteq Ids \cup {None}
    /\ fwSta' \in [Ids -> Peers \cup {None}]
    /\ user' \in {"close", "change_scan", "change_rem"} => ~ap.beacon

\* A step of a call sends nothing and has no confirmation under way.
LEMMA CallExplains ==
  ASSUME NEW k \in Links, Inv(k), cmd # "sent", UNCHANGED <<evq, fw>>
  PROVE  Explains(user, evq, k, fw.link)'
<1>1. NoCfm(evq)
  BY DEF Inv, CmdInv
<1> QED
  BY <1>1, NoCfmOfAnyCall DEF Inv, Typed

\* rwnx_open finds no link, so nothing of an earlier connection comes.
LEMMA OpenStep ==
  ASSUME NEW k \in Links, Inv(k), Side,
         Open
  PROVE  Inv(k)'
<1>1. cmd # "sent"
  BY DEF Inv, CmdInv, Waits, Open, Call
<1>2. Explains(user, evq, k, fw.link)'
  BY <1>1, CallExplains DEF Open, Call
<1>3. Typed'
  <2>1. (vif \in VifType)'
    BY DEF Inv, Typed, VifType, Open, Call
  <2> QED
    BY <2>1 DEF Inv, Typed, Side, Open
<1>4. CmdInv'
  BY DEF Inv, CmdInv, Asked, Waits, Asks, Open, Call
<1>5. UserInv'
  BY DEF Inv, UserInv, Side, Open
<1>6. FwInv'
  BY DEF Inv, FwInv, Open, Call
<1>7. KnownInv(k)'
  BY DEF Inv, KnownInv, DiscPcs, Linked, Open, Call
<1>8. ChanInv(k)'
  BY DEF Inv, ChanInv, Side, Open, Call
<1>9. ~halted' /\ ContextsCounted'
  BY DEF Inv, ContextsCounted, Open
<1> QED
  BY <1>2, <1>3, <1>4, <1>5, <1>6, <1>7, <1>8, <1>9 DEF Inv

\* rwnx_cfg80211_connect, up to the test of the state.
LEMMA ConnectStep ==
  ASSUME NEW k \in Links, Inv(k), Side,
         Connect
  PROVE  Inv(k)'
<1>1. cmd # "sent"
  BY DEF Inv, CmdInv, Waits, Connect, Call
<1>2. Explains(user, evq, k, fw.link)'
  BY <1>1, CallExplains DEF Connect, Call
<1>3. Typed'
  <2>1. (vif \in VifType)'
    BY DEF Inv, Typed, VifType, Connect, Call
  <2>2. (kern \in KernType)'
    BY DEF Inv, Typed, KernType, Connect, Call
  <2> QED
    BY <2>1, <2>2 DEF Inv, Typed, Side, Connect
<1>4. CmdInv'
  BY DEF Inv, CmdInv, Waits, Asks, Connect, Call
<1>5. UserInv'
  BY DEF Inv, UserInv, Side, Connect, Call
<1>6. FwInv'
  BY DEF FwInv, Connect
<1>7. KnownInv(k)'
  BY DEF Inv, KnownInv, Connect
<1>8. ChanInv(k)'
  BY DEF Inv, ChanInv, Connect, Call
<1>9. ~halted' /\ ContextsCounted'
  BY DEF Inv, ContextsCounted, Connect
<1> QED
  BY <1>2, <1>3, <1>4, <1>5, <1>6, <1>7, <1>8, <1>9 DEF Inv

\* cfg80211 begins to disconnect.
LEMMA DisconnectStep ==
  ASSUME NEW k \in Links, Inv(k), Side, NoRetype,
         (\E x \in {"idle", "close", "change"} : Disconnect(x))
  PROVE  Inv(k)'
<1>1. cmd # "sent"
  BY DEF Inv, CmdInv, Waits, Call, Disconnect
<1>2. Explains(user, evq, k, fw.link)'
  BY <1>1, CallExplains DEF Call, Disconnect
<1>3. Typed'
  BY DEF Inv, Typed, Side, Disconnect
<1>4. CmdInv'
  BY DEF Inv, Typed, CmdInv, Waits, Asks, NoRetype, Call, Disconnect
<1>5. UserInv'
  BY DEF Inv, UserInv, Side, Call, Disconnect
<1>6. FwInv'
  BY DEF FwInv, Disconnect
<1>7. KnownInv(k)'
  BY DEF Inv, KnownInv, Disconnect
<1>8. ChanInv(k)'
  BY DEF Inv, ChanInv, Call, Disconnect
<1>9. ~halted' /\ ContextsCounted'
  BY DEF Inv, ContextsCounted, Disconnect
<1> QED
  BY <1>2, <1>3, <1>4, <1>5, <1>6, <1>7, <1>8, <1>9 DEF Inv

\* The calls that send a command or begin to close the interface.
LEMMA BeginStep ==
  ASSUME NEW k \in Links, Inv(k), Side,
         Down \/ Scan \/ RemainOnChannel \/ CancelRemain
  PROVE  Inv(k)'
<1>1. cmd # "sent"
  BY DEF Inv, CmdInv, Waits, Down, Scan, RemainOnChannel, CancelRemain, Call
<1>2. Explains(user, evq, k, fw.link)'
  BY <1>1, CallExplains DEF Down, Scan, RemainOnChannel, CancelRemain
<1>3. Typed'
  BY DEF Inv, Typed, Side, Down, Scan, RemainOnChannel, CancelRemain
<1>4. CmdInv'
  BY DEF Inv, CmdInv, Asked, Waits, Asks, Down, Scan, RemainOnChannel,
         CancelRemain, Call
<1>5. UserInv'
  BY DEF Inv, UserInv, Side, Down, Scan, RemainOnChannel, CancelRemain, Call
<1>6. FwInv'
  BY DEF FwInv, Down, Scan, RemainOnChannel, CancelRemain
<1>7. KnownInv(k)'
  BY DEF Inv, KnownInv, Down, Scan, RemainOnChannel, CancelRemain
<1>8. ChanInv(k)'
  BY DEF Inv, ChanInv, Side, Down, Scan, RemainOnChannel, CancelRemain, Call
<1>9. ~halted' /\ ContextsCounted'
  BY DEF Inv, ContextsCounted, Down, Scan, RemainOnChannel, CancelRemain
<1> QED
  BY <1>2, <1>3, <1>4, <1>5, <1>6, <1>7, <1>8, <1>9 DEF Inv

\* rwnx_cfg80211_connect sends its command.
LEMMA ConnectSendStep ==
  ASSUME NEW k \in Links, Inv(k), Side,
         ConnectSend
  PROVE  Inv(k)'
<1>1. cmd # "sent"
  BY DEF Inv, CmdInv, Waits, ConnectSend
<1>2. Explains(user, evq, k, fw.link)'
  BY <1>1, CallExplains DEF ConnectSend
<1>3. Typed'
  <2>1. (vif \in VifType)'
    BY DEF Inv, Typed, VifType, ConnectSend
  <2> QED
    BY <2>1 DEF Inv, Typed, Side, ConnectSend
<1>4. CmdInv'
  BY DEF Inv, CmdInv, Asked, Waits, Asks, ConnectSend
<1>5. UserInv'
  BY DEF Inv, UserInv, Side, ConnectSend
<1>6. FwInv'
  BY DEF FwInv, ConnectSend
<1>7. KnownInv(k)'
  BY DEF Inv, KnownInv, ConnectSend
<1>8. ChanInv(k)'
  BY DEF Inv, UserInv, ChanInv, ConnectSend
<1>9. ~halted' /\ ContextsCounted'
  BY DEF Inv, ContextsCounted, ConnectSend
<1> QED
  BY <1>2, <1>3, <1>4, <1>5, <1>6, <1>7, <1>8, <1>9 DEF Inv

\* rwnx_cfg80211_disconnect tests the state ...
LEMMA DisconnectTestStep ==
  ASSUME NEW k \in Links, Inv(k), Side,
         DisconnectTest
  PROVE  Inv(k)'
<1>1. cmd # "sent"
  BY DEF Inv, CmdInv, Waits, DisconnectTest
<1>2. Explains(user, evq, k, fw.link)'
  BY <1>1, CallExplains DEF DisconnectTest, Disconnected
<1>3. Typed'
  <2>1. (kern \in KernType)'
    BY DEF Inv, Typed, KernType, DisconnectTest, Disconnected
  <2> QED
    BY <2>1 DEF Inv, Typed, Side, DisconnectTest
<1>4. CmdInv'
  BY DEF Inv, CmdInv, Waits, Asks, DisconnectTest, Disconnected
<1>5. UserInv'
  BY DEF Inv, Typed, KernType, CmdInv, UserInv, ChanInv, Asks, Side,
         DisconnectTest, Disconnected
<1>6. FwInv'
  BY DEF Inv, Typed, KernType, CmdInv, UserInv, FwInv, Side, DisconnectTest,
         Disconnected
<1>7. KnownInv(k)'
  BY DEF Inv, Typed, KernType, RxType, CmdInv, UserInv, KnownInv, Waits, Asks,
         DiscPcs, Linked, DisconnectTest, Disconnected
<1>8. ChanInv(k)'
  BY DEF Inv, ChanInv, Side, DisconnectTest
<1>9. ~halted' /\ ContextsCounted'
  BY DEF Inv, ContextsCounted, DisconnectTest
<1> QED
  BY <1>2, <1>3, <1>4, <1>5, <1>6, <1>7, <1>8, <1>9 DEF Inv

\* ... sets it and sends its command ...
LEMMA DisconnectSendStep ==
  ASSUME NEW k \in Links, Inv(k), Side,
         DisconnectSend
  PROVE  Inv(k)'
<1>1. cmd # "sent"
  BY DEF Inv, CmdInv, Waits, DisconnectSend
<1>2. Explains(user, evq, k, fw.link)'
  BY <1>1, CallExplains DEF DisconnectSend
<1>3. Typed'
  <2>1. (vif \in VifType)'
    BY DEF Inv, Typed, VifType, DisconnectSend
  <2> QED
    BY <2>1 DEF Inv, Typed, Side, DisconnectSend
<1>4. CmdInv'
  BY DEF Inv, CmdInv, Asked, Waits, Asks, DisconnectSend
<1>5. UserInv'
  BY DEF Inv, UserInv, Side, DisconnectSend
<1>6. FwInv'
  BY DEF FwInv, DisconnectSend
<1>7. KnownInv(k)'
  BY DEF Inv, KnownInv, DisconnectSend
<1>8. ChanInv(k)'
  BY DEF Inv, UserInv, ChanInv, DisconnectSend
<1>9. ~halted' /\ ContextsCounted'
  BY DEF Inv, ContextsCounted, DisconnectSend
<1> QED
  BY <1>2, <1>3, <1>4, <1>5, <1>6, <1>7, <1>8, <1>9 DEF Inv

\* ... and returns.
LEMMA DisconnectDoneStep ==
  ASSUME NEW k \in Links, Inv(k), Side,
         DisconnectDone
  PROVE  Inv(k)'
<1>1. cmd # "sent"
  BY DEF DisconnectDone, Answered
<1>2. Explains(user, evq, k, fw.link)'
  BY <1>1, CallExplains DEF DisconnectDone, Answered, Disconnected
<1>3. Typed'
  <2>1. (kern \in KernType)'
    BY DEF Inv, Typed, KernType, DisconnectDone, Disconnected
  <2> QED
    BY <2>1 DEF Inv, Typed, Side, DisconnectDone
<1>4. CmdInv'
  BY DEF Inv, CmdInv, Waits, Asks, DisconnectDone, Answered, Disconnected
<1>5. UserInv'
  BY DEF Inv, CmdInv, UserInv, Side, DisconnectDone, Disconnected
<1>6. FwInv'
  BY DEF Inv, CmdInv, UserInv, FwInv, DisconnectDone, Disconnected
<1>7. KnownInv(k)'
  BY DEF Inv, CmdInv, UserInv, KnownInv, DisconnectDone, Disconnected
<1>8. ChanInv(k)'
  BY DEF Inv, ChanInv, Side, DisconnectDone
<1>9. ~halted' /\ ContextsCounted'
  BY DEF Inv, ContextsCounted, DisconnectDone
<1> QED
  BY <1>2, <1>3, <1>4, <1>5, <1>6, <1>7, <1>8, <1>9 DEF Inv

\* rwnx_open has its interface.
LEMMA OpenedStep ==
  ASSUME NEW k \in Links, Inv(k), Side,
         Opened
  PROVE  Inv(k)'
<1>1. cmd # "sent"
  BY DEF Opened, Answered
<1>2. Explains(user, evq, k, fw.link)'
  BY <1>1, CallExplains DEF Opened, Answered
<1>3. Typed'
  <2>1. (vif \in VifType)'
    BY DEF Inv, Typed, VifType, Opened, Answered
  <2>2. (kern \in KernType)'
    BY DEF Inv, Typed, KernType, Opened, Answered
  <2> QED
    BY <2>1, <2>2 DEF Inv, Typed, Side, Opened
<1>4. CmdInv'
  BY DEF Inv, CmdInv, Waits, Asks, Opened, Answered
<1>5. UserInv'
  BY DEF Inv, Typed, VifType, KernType, CmdInv, UserInv, Side, Opened
<1>6. FwInv'
  BY DEF FwInv, Opened
<1>7. KnownInv(k)'
  BY DEF Inv, KnownInv, Opened
<1>8. ChanInv(k)'
  BY DEF Inv, ChanInv, Side, Opened
<1>9. ~halted' /\ ContextsCounted'
  BY DEF Inv, ContextsCounted, Opened
<1> QED
  BY <1>2, <1>3, <1>4, <1>5, <1>6, <1>7, <1>8, <1>9 DEF Inv

\* rwnx_close aborts the scan.
LEMMA CloseScanStep ==
  ASSUME NEW k \in Links, Inv(k), Side,
         CloseScan
  PROVE  Inv(k)'
<1>1. cmd # "sent"
  BY DEF Inv, CmdInv, Waits, CloseScan
<1>2. Explains(user, evq, k, fw.link)'
  BY <1>1, CallExplains DEF CloseScan
<1>3. Typed'
  BY DEF Inv, Typed, Side, CloseScan
<1>4. CmdInv'
  BY DEF Inv, CmdInv, Asked, Waits, Asks, CloseScan
<1>5. UserInv'
  BY DEF Inv, UserInv, Side, CloseScan
<1>6. FwInv'
  BY DEF FwInv, CloseScan
<1>7. KnownInv(k)'
  BY DEF Inv, KnownInv, CloseScan
<1>8. ChanInv(k)'
  BY DEF Inv, ChanInv, Side, CloseScan
<1>9. ~halted' /\ ContextsCounted'
  BY DEF Inv, ContextsCounted, CloseScan
<1> QED
  BY <1>2, <1>3, <1>4, <1>5, <1>6, <1>7, <1>8, <1>9 DEF Inv

\* rwnx_close marks the interface down and may disconnect.
LEMMA CloseRocStep ==
  ASSUME NEW k \in Links, Inv(k), Side,
         CloseRoc
  PROVE  Inv(k)'
<1>1. cmd # "sent"
  BY DEF Inv, CmdInv, Waits, CloseRoc, Answered
<1>2. Explains(user, evq, k, fw.link)'
  BY <1>1, CallExplains DEF CloseRoc, Answered, Lowered
<1>3. Typed'
  <2>1. (vif \in VifType)'
    BY DEF Inv, Typed, VifType, CloseRoc, Answered, Lowered
  <2> QED
    BY <2>1 DEF Inv, Typed, Side, CloseRoc
<1>4. CmdInv'
  BY DEF Inv, CmdInv, Asked, Waits, Asks, CloseRoc, Answered
<1>5. UserInv'
  BY DEF Inv, Typed, VifType, UserInv, Side, CloseRoc, Lowered
<1>6. FwInv'
  BY DEF FwInv, CloseRoc
<1>7. KnownInv(k)'
  BY DEF Inv, CmdInv, KnownInv, Waits, CloseRoc, Answered, Lowered
<1>8. ChanInv(k)'
  BY DEF Inv, ChanInv, Side, CloseRoc, Lowered
<1>9. ~halted' /\ ContextsCounted'
  BY DEF Inv, ContextsCounted, CloseRoc, Lowered
<1> QED
  BY <1>2, <1>3, <1>4, <1>5, <1>6, <1>7, <1>8, <1>9 DEF Inv

\* rwnx_close removes the interface from the firmware.
LEMMA CloseRemoveStep ==
  ASSUME NEW k \in Links, Inv(k), Side,
         CloseRemove
  PROVE  Inv(k)'
<1>1. cmd # "sent"
  BY DEF CloseRemove, Answered
<1>2. Explains(user, evq, k, fw.link)'
  BY <1>1, CallExplains DEF CloseRemove, Answered
<1>3. Typed'
  BY DEF Inv, Typed, Side, CloseRemove
<1>4. CmdInv'
  BY DEF Inv, CmdInv, Asked, Waits, Asks, CloseRemove, Answered
<1>5. UserInv'
  BY DEF Inv, UserInv, Side, CloseRemove
<1>6. FwInv'
  BY DEF FwInv, CloseRemove
<1>7. KnownInv(k)'
  BY DEF Inv, CmdInv, KnownInv, CloseRemove, Answered
<1>8. ChanInv(k)'
  BY DEF Inv, ChanInv, Side, CloseRemove
<1>9. ~halted' /\ ContextsCounted'
  BY DEF Inv, ContextsCounted, CloseRemove
<1> QED
  BY <1>2, <1>3, <1>4, <1>5, <1>6, <1>7, <1>8, <1>9 DEF Inv

\* The firmware has removed the interface: no link is known, so no indication
\* needs the entry of vif_table, and the channel is unlinked once.
LEMMA CloseUnlinkStep ==
  ASSUME NEW k \in Links, Inv(k), Side,
         CloseUnlink
  PROVE  Inv(k)'
<1>1. cmd # "sent"
  BY DEF CloseUnlink, Answered
<1>2. Explains(user, evq, k, fw.link)'
  BY <1>1, CallExplains DEF CloseUnlink, Answered, Unlinked
<1>3. Typed'
  <2>1. (vif \in VifType)'
    BY DEF Inv, Typed, VifType, CloseUnlink, Answered, Unlinked
  <2>2. (ctx \in [Chans -> Nat])'
    BY DEF Inv, Typed, VifType, CloseUnlink, Unlinked
  <2> QED
    BY <2>1, <2>2 DEF Inv, Typed, Side, CloseUnlink
<1>4. CmdInv'
  BY DEF Inv, CmdInv, Asked, Waits, Asks, CloseUnlink, Answered
<1>5. UserInv'
  BY DEF Inv, UserInv, Side, CloseUnlink
<1>6. FwInv'
  BY DEF Inv, FwInv, CloseUnlink, Answered
<1>7. KnownInv(k)'
  BY DEF Inv, KnownInv, CloseUnlink, Answered
<1>8. ChanInv(k)'
  BY DEF Inv, KnownInv, ChanInv, DiscPcs, Linked, CloseUnlink, Answered
<1>9. ~halted' /\ ContextsCounted'
  <2>1. vif'.ch = None /\ ctx' = Unlinked /\ ~halted'
    BY DEF Inv, CloseUnlink
  <2>2. ASSUME NEW c \in Chans
        PROVE  ctx'[c] = 0
    <3>1. ctx[c] = (IF vif.ch = c THEN 1 ELSE 0) /\ ctx \in [Chans -> Nat]
      BY DEF Inv, Typed, ContextsCounted
    <3>2. c # None
      BY IfaceAssumption
    <3> QED
      BY <2>1, <3>1, <3>2 DEF Unlinked
  <2>3. None \notin Chans
    BY IfaceAssumption
  <2> QED
    BY <2>1, <2>2, <2>3 DEF ContextsCounted
<1> QED
  BY <1>2, <1>3, <1>4, <1>5, <1>6, <1>7, <1>8, <1>9 DEF Inv

\* rwnx_close returns.
LEMMA ClosedStep ==
  ASSUME NEW k \in Links, Inv(k), Side,
         Closed
  PROVE  Inv(k)'
<1>1. cmd # "sent"
  BY DEF Closed, Answered
<1>2. Explains(user, evq, k, fw.link)'
  BY <1>1, CallExplains DEF Closed, Answered
<1>3. Typed'
  <2>1. (kern \in KernType)'
    BY DEF Inv, Typed, KernType, Closed, Answered
  <2> QED
    BY <2>1 DEF Inv, Typed, Side, Closed
<1>4. CmdInv'
  BY DEF Inv, CmdInv, Waits, Asks, Closed, Answered
<1>5. UserInv'
  BY DEF Inv, UserInv, Side, Closed
<1>6. FwInv'
  BY DEF Inv, FwInv, Closed
<1>7. KnownInv(k)'
  BY DEF Inv, KnownInv, Closed
<1>8. ChanInv(k)'
  BY DEF Inv, ChanInv, Side, Closed
<1>9. ~halted' /\ ContextsCounted'
  BY DEF Inv, ContextsCounted, Closed
<1> QED
  BY <1>2, <1>3, <1>4, <1>5, <1>6, <1>7, <1>8, <1>9 DEF Inv

\* The calls whose answer changes nothing of the link.
LEMMA AnsweredStep ==
  ASSUME NEW k \in Links, Inv(k), Side,
         ConnectDone \/ RemainDone \/ Waited \/ ChangeScan
  PROVE  Inv(k)'
<1>1. cmd # "sent"
  BY DEF ConnectDone, RemainDone, Waited, ChangeScan, Answered
<1>2. Explains(user, evq, k, fw.link)'
  BY <1>1, CallExplains DEF ConnectDone, RemainDone, Waited, ChangeScan
<1>3. Typed'
  <2>1. (kern \in KernType)'
    BY DEF Inv, Typed, KernType, ConnectDone, RemainDone, Waited, ChangeScan
  <2> QED
    BY <2>1 DEF Inv, Typed, Side, ConnectDone, RemainDone, Waited, ChangeScan
<1>4. CmdInv'
  BY DEF Inv, CmdInv, Asked, Waits, Asks, ConnectDone, RemainDone, Waited,
         ChangeScan, Answered
<1>5. UserInv'
  BY DEF Inv, Typed, KernType, UserInv, Waits, Side, ConnectDone, RemainDone,
         Waited, ChangeScan
<1>6. FwInv'
  BY DEF Inv, Typed, KernType, UserInv, FwInv, ConnectDone, RemainDone, Waited,
         ChangeScan
<1>7. KnownInv(k)'
  BY DEF Inv, Typed, KernType, CmdInv, UserInv, KnownInv, ConnectDone,
         RemainDone, Waited, ChangeScan, Answered
<1>8. ChanInv(k)'
  BY DEF Inv, ChanInv, Side, ConnectDone, RemainDone, Waited, ChangeScan
<1>9. ~halted' /\ ContextsCounted'
  BY DEF Inv, ContextsCounted, ConnectDone, RemainDone, Waited, ChangeScan
<1> QED
  BY <1>2, <1>3, <1>4, <1>5, <1>6, <1>7, <1>8, <1>9 DEF Inv

\* rwnx_cfg80211_change_iface takes the entry away ...
LEMMA ChangeRemovedStep ==
  ASSUME NEW k \in Links, Inv(k), Side,
         ChangeRemoved
  PROVE  Inv(k)'
<1>1. cmd # "sent"
  BY DEF ChangeRemoved, Answered
<1>2. Explains(user, evq, k, fw.link)'
  BY <1>1, CallExplains DEF ChangeRemoved, Answered
<1>3. Typed'
  <2>1. (vif \in VifType)'
    BY DEF Inv, Typed, VifType, ChangeRemoved, Answered
  <2> QED
    BY <2>1 DEF Inv, Typed, Side, ChangeRemoved
<1>4. CmdInv'
  BY DEF Inv, CmdInv, Asked, Waits, Asks, ChangeRemoved, Answered
<1>5. UserInv'
  BY DEF Inv, UserInv, Side, ChangeRemoved
<1>6. FwInv'
  BY DEF Inv, FwInv, ChangeRemoved, Answered
<1>7. KnownInv(k)'
  BY DEF Inv, KnownInv, ChangeRemoved
<1>8. ChanInv(k)'
  BY DEF Inv, ChanInv, Side, ChangeRemoved
<1>9. ~halted' /\ ContextsCounted'
  BY DEF Inv, ContextsCounted, ChangeRemoved
<1> QED
  BY <1>2, <1>3, <1>4, <1>5, <1>6, <1>7, <1>8, <1>9 DEF Inv

\* ... and has a new one.
LEMMA ChangedStep ==
  ASSUME NEW k \in Links, Inv(k), Side,
         Changed
  PROVE  Inv(k)'
<1>1. cmd # "sent"
  BY DEF Changed, Answered
<1>2. Explains(user, evq, k, fw.link)'
  BY <1>1, CallExplains DEF Changed, Answered
<1>3. Typed'
  <2>1. (vif \in VifType)'
    BY DEF Inv, Typed, VifType, Changed, Answered
  <2> QED
    BY <2>1 DEF Inv, Typed, Side, Changed
<1>4. CmdInv'
  BY DEF Inv, CmdInv, Waits, Asks, Changed, Answered
<1>5. UserInv'
  BY DEF Inv, UserInv, Side, Changed
<1>6. FwInv'
  BY DEF Inv, UserInv, FwInv, Changed
<1>7. KnownInv(k)'
  BY DEF Inv, UserInv, KnownInv, Changed
<1>8. ChanInv(k)'
  BY DEF Inv, ChanInv, Side, Changed
<1>9. ~halted' /\ ContextsCounted'
  BY DEF Inv, ContextsCounted, Changed
<1> QED
  BY <1>2, <1>3, <1>4, <1>5, <1>6, <1>7, <1>8, <1>9 DEF Inv
-----------------------------------------------------------------------------
(* cfg80211 and the busrx thread.                                          *)

\* cfg80211's work.
LEMMA KernEventStep ==
  ASSUME NEW k \in Links, Inv(k), Side, KernEvent
  PROVE  Inv(k)'
<1>1. Explains(user, evq, k, fw.link)'
  BY DEF Inv, KernEvent
<1>2. Typed'
  <2>1. (kern \in KernType)'
    BY DEF Inv, Typed, KernType, KernEvent
  <2> QED
    BY <2>1 DEF Inv, Typed, Side, KernEvent
<1>3. CmdInv'
  BY DEF Inv, CmdInv, KernEvent
<1>4. UserInv'
  BY DEF Inv, UserInv, Side, KernEvent
<1>5. FwInv'
  BY DEF Inv, FwInv, KernEvent
<1>6. KnownInv(k)'
  BY DEF Inv, KnownInv, KernEvent
<1>7. ChanInv(k)'
  BY DEF Inv, ChanInv, Side, KernEvent
<1>8. ~halted' /\ ContextsCounted'
  BY DEF Inv, ContextsCounted, KernEvent
<1> QED
  BY <1>1, <1>2, <1>3, <1>4, <1>5, <1>6, <1>7, <1>8 DEF Inv

\* cmd_mgr_msgind: the command is no longer sent.
LEMMA ConfirmStep ==
  ASSUME NEW k \in Links, Inv(k), Side, Confirm
  PROVE  Inv(k)'
<1>1. Explains(user, evq, k, fw.link)'
  BY DEF Inv, Confirm, Return
<1>2. Typed'
  <2>1. (rx \in RxType)'
    BY DEF RxType, RxPcs, Confirm, Return
  <2> QED
    BY <2>1 DEF Inv, Typed, Side, Confirm
<1>3. CmdInv'
  BY DEF Inv, CmdInv, Confirm, Return
<1>4. UserInv'
  BY DEF Inv, UserInv, Side, Confirm
<1>5. FwInv'
  BY DEF Inv, CmdInv, FwInv, Confirm
<1>6. KnownInv(k)'
  BY DEF Inv, KnownInv, ConnPcs, DiscPcs, Confirm, Return
<1>7. ChanInv(k)'
  BY DEF Inv, ChanInv, Side, Confirm, Return
<1>8. ~halted' /\ ContextsCounted'
  BY DEF Inv, ContextsCounted, Confirm
<1> QED
  BY <1>1, <1>2, <1>3, <1>4, <1>5, <1>6, <1>7, <1>8 DEF Inv

\* The end of a scan.
LEMMA ScanDoneStep ==
  ASSUME NEW k \in Links, Inv(k), Side, ScanDone
  PROVE  Inv(k)'
<1>1. Explains(user, evq, k, fw.link)'
  BY DEF Inv, ScanDone, Return
<1>2. Typed'
  <2>1. (rx \in RxType)'
    BY DEF RxType, RxPcs, ScanDone, Return
  <2> QED
    BY <2>1 DEF Inv, Typed, Side, ScanDone
<1>3. CmdInv'
  BY DEF Inv, CmdInv, ScanDone, Return
<1>4. UserInv'
  BY DEF Inv, UserInv, Side, ScanDone
<1>5. FwInv'
  BY DEF Inv, FwInv, ScanDone
<1>6. KnownInv(k)'
  BY DEF Inv, KnownInv, ConnPcs, DiscPcs, ScanDone, Return
<1>7. ChanInv(k)'
  BY DEF Inv, ChanInv, Side, ScanDone, Return
<1>8. ~halted' /\ ContextsCounted'
  BY DEF Inv, ContextsCounted, ScanDone
<1> QED
  BY <1>1, <1>2, <1>3, <1>4, <1>5, <1>6, <1>7, <1>8 DEF Inv

\* The end of a stay on a channel.
LEMMA RemainExpiredStep ==
  ASSUME NEW k \in Links, Inv(k), Side, RemainExpired
  PROVE  Inv(k)'
<1>1. Explains(user, evq, k, fw.link)'
  BY DEF Inv, RemainExpired, Return
<1>2. Typed'
  <2>1. (rx \in RxType)'
    BY DEF RxType, RxPcs, RemainExpired, Return
  <2> QED
    BY <2>1 DEF Inv, Typed, Side, RemainExpired
<1>3. CmdInv'
  BY DEF Inv, CmdInv, RemainExpired, Return
<1>4. UserInv'
  BY DEF Inv, UserInv, Side, RemainExpired
<1>5. FwInv'
  BY DEF Inv, FwInv, RemainExpired
<1>6. KnownInv(k)'
  BY DEF Inv, KnownInv, ConnPcs, DiscPcs, RemainExpired, Return
<1>7. ChanInv(k)'
  BY DEF Inv, ChanInv, Side, RemainExpired, Return
<1>8. ~halted' /\ ContextsCounted'
  BY DEF Inv, ContextsCounted, RemainExpired
<1> QED
  BY <1>1, <1>2, <1>3, <1>4, <1>5, <1>6, <1>7, <1>8 DEF Inv

\* The loss of a station is noted.
LEMMA LossIndStep ==
  ASSUME NEW k \in Links, Inv(k), Side, LossInd
  PROVE  Inv(k)'
<1>1. Explains(user, evq, k, fw.link)'
  BY DEF Inv, LossInd, Return
<1>2. Typed'
  <2>1. (rx \in RxType)'
    BY DEF RxType, RxPcs, LossInd, Return
  <2> QED
    BY <2>1 DEF Inv, Typed, LossInd
<1>3. CmdInv'
  BY DEF Inv, CmdInv, LossInd, Return
<1>4. UserInv'
  BY DEF Inv, UserInv, LossInd
<1>5. FwInv'
  BY DEF Inv, FwInv, LossInd
<1>6. KnownInv(k)'
  BY DEF Inv, KnownInv, ConnPcs, DiscPcs, LossInd, Return
<1>7. ChanInv(k)'
  BY DEF Inv, ChanInv, LossInd, Return
<1>8. ~halted' /\ ContextsCounted'
  BY DEF Inv, ContextsCounted, LossInd
<1> QED
  BY <1>1, <1>2, <1>3, <1>4, <1>5, <1>6, <1>7, <1>8 DEF Inv

\* The work's command is confirmed.
LEMMA LossConfirmStep ==
  ASSUME NEW k \in Links, Inv(k), Side, LossConfirm
  PROVE  Inv(k)'
<1>1. Explains(user, evq, k, fw.link)'
  BY DEF Inv, LossConfirm, Return
<1>2. Typed'
  <2>1. (rx \in RxType)'
    BY DEF RxType, RxPcs, LossConfirm, Return
  <2> QED
    BY <2>1 DEF Inv, Typed, LossConfirm
<1>3. CmdInv'
  BY DEF Inv, CmdInv, LossConfirm, Return
<1>4. UserInv'
  BY DEF Inv, UserInv, LossConfirm
<1>5. FwInv'
  BY DEF Inv, FwInv, LossConfirm
<1>6. KnownInv(k)'
  BY DEF Inv, KnownInv, ConnPcs, DiscPcs, LossConfirm, Return
<1>7. ChanInv(k)'
  BY DEF Inv, ChanInv, LossConfirm, Return
<1>8. ~halted' /\ ContextsCounted'
  BY DEF Inv, ContextsCounted, LossConfirm
<1> QED
  BY <1>1, <1>2, <1>3, <1>4, <1>5, <1>6, <1>7, <1>8 DEF Inv

\* A connect or disconnect indication finds the interface in vif_table: a link
\* is known, or has just been lost, so no call has taken the entry away.
LEMMA IndicationFindsIface ==
  ASSUME NEW k \in Links, Inv(k), rx.pc \in ConnPcs \cup DiscPcs
  PROVE  vif.table = TRUE /\ vif.type = "sta" /\ k # "none"
<1>1. vif.type = "sta" /\ k # "none"
  BY DEF Inv, KnownInv
<1>2. kern.run /\ user \notin {"close_reset", "change_add"}
  BY <1>1 DEF Inv, KnownInv, UserInv
<1> QED
  BY <1>1, <1>2 DEF Inv, UserInv

\* rwnx_rx_sm_connect_ind links a channel when the interface has none.
LEMMA ConnectIndStep ==
  ASSUME NEW k \in Links, Inv(k), Side, ConnectInd
  PROVE  Inv(k)'
<1>1. vif.table = TRUE /\ vif.type = "sta" /\ k # "none" /\ vif.ch = None
      /\ (rx.m.st = "ok" => rx.m.ch \in Chans)
  <2>1. rx.pc \in ConnPcs \cup DiscPcs
    BY DEF ConnectInd, ConnPcs, DiscPcs
  <2>2. vif.table = TRUE /\ vif.type = "sta" /\ k # "none"
    BY <2>1, IndicationFindsIface
  <2> QED
    BY <2>2 DEF Inv, KnownInv, ChanInv, ConnectInd, ConnMsgs, ConnPcs
<1>2. Explains(user, evq, k, fw.link)'
  BY DEF Inv, ConnectInd
<1>3. Typed'
  <2>1. (rx \in RxType)'
    BY <1>1 DEF Inv, Typed, RxType, RxPcs, ConnPcs, ConnectInd
  <2>2. (vif \in VifType)'
    <3>1. CASE rx.m.st = "ok"
      <4>1. vif' = [vif EXCEPT !.ap = TRUE, !.ch = rx.m.ch] /\ rx.m.ch \in Chans
        BY <1>1, <3>1 DEF ConnectInd
      <4> QED
        BY <4>1 DEF Inv, Typed, VifType
    <3>2. CASE rx.m.st # "ok"
      <4>1. vif' = [vif EXCEPT !.conn = "disconnected"]
        BY <1>1, <3>2 DEF ConnectInd
      <4> QED
        BY <4>1 DEF Inv, Typed, VifType
    <3> QED
      BY <3>1, <3>2
  <2>3. (ctx \in [Chans -> Nat])'
    BY <1>1 DEF Inv, Typed, ConnectInd
  <2> QED
    BY <2>1, <2>2, <2>3 DEF Inv, Typed, Side, ConnectInd
<1>4. CmdInv'
  BY DEF Inv, CmdInv, ConnectInd
<1>5. UserInv'
  <2>1. /\ vif'.up = vif.up /\ vif'.table = vif.table /\ vif'.type = vif.type
        /\ UNCHANGED <<user, then, kern, ap>>
    BY <1>1 DEF Inv, Typed, VifType, Side, ConnectInd
  <2> QED
    BY <2>1 DEF Inv, UserInv
<1>6. FwInv'
  BY DEF Inv, FwInv, ConnectInd
<1>7. KnownInv(k)'
  <2>1. /\ UNCHANGED <<user, cmd, kern, fw>> /\ rx.pc = "conn"
        /\ rx'.pc = "conn_test" /\ rx'.m = rx.m /\ vif'.type = "sta"
    BY <1>1 DEF Inv, Typed, VifType, RxType, ConnectInd
  <2> QED
    BY <1>1, <2>1 DEF Inv, KnownInv, ConnPcs, DiscPcs
<1>8. ChanInv(k)'
  <2>1. CASE rx.m.st = "ok"
    <3>1. vif'.ch \in Chans /\ vif'.ap = TRUE /\ vif'.type = "sta"
      BY <1>1, <2>1 DEF Inv, Typed, VifType, ConnectInd
    <3>2. k \in Linked /\ rx'.pc = "conn_test"
      BY <2>1 DEF Inv, KnownInv, ConnectInd, ConnPcs, Linked
    <3> QED
      BY <3>1, <3>2, IfaceAssumption DEF ChanInv, Linked
  <2>2. CASE rx.m.st # "ok"
    <3>1. vif'.ch = None /\ vif'.type = "sta"
      BY <1>1, <2>2 DEF Inv, Typed, VifType, ConnectInd
    <3>2. k = "idle" /\ rx'.pc = "conn_test"
      BY <2>2 DEF Inv, KnownInv, ConnectInd, ConnPcs
    <3> QED
      BY <3>1, <3>2 DEF ChanInv, Linked
  <2> QED
    BY <2>1, <2>2
<1>9. ~halted' /\ ContextsCounted'
  <2>1. CASE rx.m.st = "ok"
    <3>1. /\ vif'.ch = rx.m.ch /\ ctx' = [ctx EXCEPT ![rx.m.ch] = @ + 1] /\ halted' = halted
      BY <1>1, <2>1 DEF Inv, Typed, VifType, ConnectInd
    <3>2. \A c \in Chans : ctx[c] = 0 /\ ctx \in [Chans -> Nat]
      BY <1>1, IfaceAssumption DEF Inv, Typed, ContextsCounted
    <3> QED
      BY <1>1, <2>1, <3>1, <3>2 DEF Inv, ContextsCounted
  <2>2. CASE rx.m.st # "ok"
    BY <1>1, <2>2 DEF Inv, Typed, VifType, ContextsCounted, ConnectInd
  <2> QED
    BY <2>1, <2>2
<1> QED
  BY <1>2, <1>3, <1>4, <1>5, <1>6, <1>7, <1>8, <1>9 DEF Inv

\* ... looks whether a disconnection is wanted ...
LEMMA ConnectIndTestStep ==
  ASSUME NEW k \in Links, Inv(k), Side, ConnectIndTest
  PROVE  Inv(k)'
<1>1. vif.table = TRUE /\ vif.type = "sta" /\ k # "none"
      /\ vif'.conn = vif.conn /\ vif'.ch = vif.ch /\ vif'.ap = vif.ap /\ vif'.type = vif.type
  <2>1. rx.pc \in ConnPcs \cup DiscPcs
    BY DEF ConnectIndTest, ConnPcs, DiscPcs
  <2>2. vif.table = TRUE /\ vif.type = "sta" /\ k # "none"
    BY <2>1, IndicationFindsIface
  <2> QED
    BY <2>2 DEF Inv, Typed, VifType, ConnectIndTest
<1>2. Explains(user, evq, k, fw.link)'
  BY DEF Inv, ConnectIndTest, Return
<1>3. Typed'
  <2>1. (rx \in RxType)'
    BY DEF Inv, Typed, RxType, RxPcs, ConnPcs, ConnectIndTest, Return
  <2>2. (vif \in VifType)'
    BY DEF Inv, Typed, VifType, ConnectIndTest, Return
  <2> QED
    BY <2>1, <2>2 DEF Inv, Typed, Side, ConnectIndTest
<1>4. CmdInv'
  BY DEF Inv, Typed, RxType, CmdInv, ConnectIndTest, Return
<1>5. UserInv'
  BY <1>1 DEF Inv, Typed, VifType, UserInv, Side, ConnectIndTest
<1>6. FwInv'
  BY DEF Inv, FwInv, ConnectIndTest
<1>7. KnownInv(k)'
  <2>1. CASE rx'.pc = "idle"
    BY <1>1, <2>1 DEF Inv, Typed, RxType, KnownInv, ConnPcs, DiscPcs, ConnectIndTest
  <2>2. CASE rx'.pc # "idle"
    BY <1>1, <2>2 DEF Inv, Typed, RxType, KnownInv, ConnPcs, DiscPcs, Linked,
          ConnectIndTest, Return
  <2> QED
    BY <2>1, <2>2
<1>8. ChanInv(k)'
  BY <1>1 DEF Inv, Typed, RxType, ChanInv, ConnectIndTest, Return
<1>9. ~halted' /\ ContextsCounted'
  BY <1>1 DEF Inv, ContextsCounted, ConnectIndTest
<1> QED
  BY <1>2, <1>3, <1>4, <1>5, <1>6, <1>7, <1>8, <1>9 DEF Inv

\* ... tells cfg80211 and sets the state ...
LEMMA ConnectIndTellStep ==
  ASSUME NEW k \in Links, Inv(k), Side, ConnectIndTell
  PROVE  Inv(k)'
<1>1. vif.table = TRUE /\ vif.type = "sta" /\ k # "none"
  BY IndicationFindsIface DEF ConnectIndTell, ConnPcs, DiscPcs
<1>2. Explains(user, evq, k, fw.link)'
  BY DEF Inv, ConnectIndTell
<1>3. Typed'
  <2>1. (rx \in RxType)'
    BY DEF Inv, Typed, RxType, RxPcs, ConnPcs, DiscPcs, ConnectIndTell
  <2>2. (vif \in VifType)'
    BY DEF Inv, Typed, VifType, ConnectIndTell
  <2> QED
    BY <2>1, <2>2 DEF Inv, Typed, Side, ConnectIndTell
<1>4. CmdInv'
  BY DEF Inv, CmdInv, ConnectIndTell
<1>5. UserInv'
  BY <1>1 DEF Inv, UserInv, Side, ConnectIndTell
<1>6. FwInv'
  BY DEF Inv, FwInv, ConnectIndTell
<1>7. KnownInv(k)'
  BY <1>1 DEF Inv, KnownInv, ConnPcs, DiscPcs, Linked, ConnectIndTell
<1>8. ChanInv(k)'
  BY <1>1 DEF Inv, ChanInv, ConnectIndTell
<1>9. ~halted' /\ ContextsCounted'
  BY <1>1 DEF Inv, ContextsCounted, ConnectIndTell
<1> QED
  BY <1>2, <1>3, <1>4, <1>5, <1>6, <1>7, <1>8, <1>9 DEF Inv

\* ... and returns.
LEMMA ConnectIndEndStep ==
  ASSUME NEW k \in Links, Inv(k), Side, ConnectIndEnd
  PROVE  Inv(k)'
<1>1. vif.table = TRUE /\ vif.type = "sta" /\ k # "none"
  BY IndicationFindsIface DEF ConnectIndEnd, ConnPcs, DiscPcs
<1>2. Explains(user, evq, k, fw.link)'
  BY DEF Inv, ConnectIndEnd, Return
<1>3. Typed'
  <2>1. (rx \in RxType)'
    BY DEF RxType, RxPcs, ConnectIndEnd, Return
  <2>2. (vif \in VifType)'
    BY DEF Inv, Typed, VifType, ConnectIndEnd, Return
  <2> QED
    BY <2>1, <2>2 DEF Inv, Typed, Side, ConnectIndEnd
<1>4. CmdInv'
  BY DEF Inv, CmdInv, ConnectIndEnd, Return
<1>5. UserInv'
  BY <1>1 DEF Inv, UserInv, Side, ConnectIndEnd
<1>6. FwInv'
  BY DEF Inv, FwInv, ConnectIndEnd
<1>7. KnownInv(k)'
  BY <1>1 DEF Inv, KnownInv, ConnPcs, DiscPcs, ConnectIndEnd, Return
<1>8. ChanInv(k)'
  BY <1>1 DEF Inv, ChanInv, ConnectIndEnd, Return
<1>9. ~halted' /\ ContextsCounted'
  BY <1>1 DEF Inv, ContextsCounted, ConnectIndEnd
<1> QED
  BY <1>2, <1>3, <1>4, <1>5, <1>6, <1>7, <1>8, <1>9 DEF Inv

\* rwnx_rx_sm_disconnect_ind finds the interface a station.
LEMMA DisconnectIndStep ==
  ASSUME NEW k \in Links, Inv(k), Side, DisconnectInd
  PROVE  Inv(k)'
<1>1. vif.table = TRUE /\ vif.type = "sta" /\ k # "none"
  BY IndicationFindsIface DEF DisconnectInd, ConnPcs, DiscPcs
<1>2. Explains(user, evq, k, fw.link)'
  BY DEF Inv, DisconnectInd
<1>3. Typed'
  <2>1. (rx \in RxType)'
    BY DEF Inv, Typed, RxType, RxPcs, DiscPcs, DisconnectInd, Return
  <2>2. (vif \in VifType)'
    BY DEF Inv, Typed, VifType, DisconnectInd, Return, Told
  <2> QED
    BY <2>1, <2>2 DEF Inv, Typed, Side, DisconnectInd
<1>4. CmdInv'
  BY DEF Inv, Typed, RxType, CmdInv, DisconnectInd, Return
<1>5. UserInv'
  BY <1>1 DEF Inv, Typed, VifType, UserInv, Side, DisconnectInd, Told
<1>6. FwInv'
  BY DEF Inv, FwInv, DisconnectInd
<1>7. KnownInv(k)'
  BY <1>1 DEF Inv, Typed, VifType, RxType, KnownInv, ConnPcs, DiscPcs, Linked,
        DisconnectInd
<1>8. ChanInv(k)'
  BY <1>1 DEF Inv, Typed, VifType, RxType, KnownInv, ChanInv, DisconnectInd
<1>9. ~halted' /\ ContextsCounted'
  <2>1. ~halted'
    BY <1>1 DEF Inv, DisconnectInd
  <2>2. vif'.ch = vif.ch /\ ctx' = ctx
    BY DEF Inv, Typed, VifType, DisconnectInd
  <2> QED
    BY <2>1, <2>2 DEF Inv, ContextsCounted
<1> QED
  BY <1>2, <1>3, <1>4, <1>5, <1>6, <1>7, <1>8, <1>9 DEF Inv

\* It finds the station of the access point, and unlinks its channel.
LEMMA DisconnectIndApStep ==
  ASSUME NEW k \in Links, Inv(k), Side, DisconnectIndAp
  PROVE  Inv(k)'
<1>1. vif.table = TRUE /\ vif.type = "sta" /\ k # "none" /\ vif.ap = TRUE /\ vif.ch \in Chans
  <2>1. rx.pc \in ConnPcs \cup DiscPcs
    BY DEF DisconnectIndAp, ConnPcs, DiscPcs
  <2>2. vif.table = TRUE /\ vif.type = "sta" /\ k # "none"
    BY <2>1, IndicationFindsIface
  <2> QED
    BY <2>2 DEF Inv, Typed, VifType, ChanInv, DisconnectIndAp
<1>2. Explains(user, evq, k, fw.link)'
  BY DEF Inv, DisconnectIndAp, Unlinked
<1>3. Typed'
  <2>1. (rx \in RxType)'
    BY DEF Inv, Typed, RxType, RxPcs, DiscPcs, DisconnectIndAp
  <2>2. (vif \in VifType)'
    BY DEF Inv, Typed, VifType, DisconnectIndAp, Unlinked
  <2>3. (ctx \in [Chans -> Nat])'
    BY DEF Inv, Typed, DisconnectIndAp, Unlinked
  <2> QED
    BY <2>1, <2>2, <2>3 DEF Inv, Typed, Side, DisconnectIndAp
<1>4. CmdInv'
  BY DEF Inv, CmdInv, DisconnectIndAp
<1>5. UserInv'
  BY <1>1 DEF Inv, Typed, VifType, KernType, UserInv, Side, DisconnectIndAp,
        Unlinked
<1>6. FwInv'
  BY DEF Inv, FwInv, DisconnectIndAp
<1>7. KnownInv(k)'
  BY <1>1 DEF Inv, Typed, VifType, KernType, RxType, CmdInv, KnownInv, ConnPcs,
        DiscPcs, Linked, DisconnectIndAp, Unlinked
<1>8. ChanInv(k)'
  BY <1>1 DEF Inv, Typed, VifType, RxType, UserInv, KnownInv, ChanInv, Side,
        ConnPcs, DiscPcs, Linked, DisconnectIndAp, Unlinked
<1>9. ~halted' /\ ContextsCounted'
  <2>1. vif'.ch = None /\ ctx' = Unlinked /\ halted' = halted
    BY <1>1 DEF Inv, Typed, VifType, DisconnectIndAp
  <2>2. ASSUME NEW c \in Chans
        PROVE  ctx'[c] = 0
    <3>1. ctx[c] = (IF vif.ch = c THEN 1 ELSE 0) /\ ctx \in [Chans -> Nat]
      BY DEF Inv, Typed, ContextsCounted
    <3>2. c # None
      BY IfaceAssumption
    <3> QED
      BY <2>1, <3>1, <3>2 DEF Unlinked
  <2> QED
    BY <2>1, <2>2, IfaceAssumption DEF Inv, ContextsCounted
<1> QED
  BY <1>2, <1>3, <1>4, <1>5, <1>6, <1>7, <1>8, <1>9 DEF Inv

\* ... and sets the state.
LEMMA DisconnectIndEndStep ==
  ASSUME NEW k \in Links, Inv(k), Side, DisconnectIndEnd
  PROVE  Inv(k)'
<1>1. vif.table = TRUE /\ vif.type = "sta" /\ k # "none"
  BY IndicationFindsIface DEF DisconnectIndEnd, ConnPcs, DiscPcs
<1>2. Explains(user, evq, k, fw.link)'
  BY DEF Inv, DisconnectIndEnd
<1>3. Typed'
  <2>1. (rx \in RxType)'
    BY DEF RxType, RxPcs, DisconnectIndEnd, Return
  <2>2. (vif \in VifType)'
    BY DEF Inv, Typed, VifType, DisconnectIndEnd, Gone
  <2> QED
    BY <2>1, <2>2 DEF Inv, Typed, Side, DisconnectIndEnd
<1>4. CmdInv'
  BY DEF Inv, CmdInv, DisconnectIndEnd, Return
<1>5. UserInv'
  BY <1>1 DEF Inv, UserInv, Side, DisconnectIndEnd, Gone
<1>6. FwInv'
  BY DEF Inv, FwInv, DisconnectIndEnd
<1>7. KnownInv(k)'
  BY <1>1 DEF Inv, KnownInv, ConnPcs, DiscPcs, Linked, DisconnectIndEnd, Return,
        Gone
<1>8. ChanInv(k)'
  BY <1>1 DEF Inv, ChanInv, DisconnectIndEnd, Return, Gone
<1>9. ~halted' /\ ContextsCounted'
  BY <1>1 DEF Inv, ContextsCounted, DisconnectIndEnd, Gone
<1> QED
  BY <1>2, <1>3, <1>4, <1>5, <1>6, <1>7, <1>8, <1>9 DEF Inv

\* The message taken leads from the known link k to a new one, c.
LEMMA TakeLeads ==
  ASSUME NEW k \in Links, Inv(k), Side, Take
  PROVE  \E c \in Links : Leads(user, Head(evq), k, c) /\ Inv(c)'
<1> DEFINE m == Head(evq)
<1>1. evq \in Seq(Msgs) /\ evq # <<>> /\ OneCfm(evq) /\ rx.pc = "idle"
  BY DEF Inv, Typed, CmdInv, Take
<1>2. PICK c \in Links : Leads(user, m, k, c) /\ Explains(user, Tail(evq), c, fw.link)
  BY <1>1, TakenExplains DEF Inv
<1>3. /\ Tail(evq) \in Seq(Msgs) /\ m \in Msgs /\ OneCfm(Tail(evq))
      /\ NoCfm(evq) => NoCfm(Tail(evq)) /\ m.type # "cfm"
      /\ m.type = "cfm" => NoCfm(Tail(evq))
  BY <1>1, TakenCfm
<1>4. evq' = Tail(evq) /\ rx' = [pc |-> m.type, m |-> m] /\ rx'.pc = m.type /\ rx'.m = m
  BY DEF Take
<1> HIDE DEF m
<1>5. m.type = "cfm" => user \in Asks /\ cmd = "sent" /\ m.st \in {"ok", "refused"}
  BY <1>3 DEF Inv, CmdInv, Msgs, ConnMsgs, DiscMsgs
<1>6. /\ m.type \in {"cfm", "conn", "disc", "loss", "scan", "roc_end", "loss_cfm"}
      /\ m.type = "conn" => m \in ConnMsgs
      /\ m.type = "disc" => m \in DiscMsgs
  BY <1>3 DEF Msgs, ConnMsgs, DiscMsgs
<1>7. Explains(user, evq, c, fw.link)'
  BY <1>2, <1>4 DEF Take
<1>8. Typed'
  <2>1. (rx \in RxType)'
    BY <1>3, <1>4, <1>6 DEF RxType, RxPcs, ConnPcs, DiscPcs
  <2> QED
    BY <1>3, <1>4, <2>1 DEF Inv, Typed, Side, Take
<1>9. CmdInv'
  BY <1>3, <1>4, <1>5 DEF Inv, CmdInv, Take
<1>10. (UserInv /\ FwInv)'
  BY DEF Inv, UserInv, FwInv, Side, Take
<1>11. ~halted' /\ ContextsCounted'
  BY DEF Inv, ContextsCounted, Take
<1>12. KnownInv(c)' /\ ChanInv(c)'
  <2>0. /\ UNCHANGED <<user, cmd, kern, vif, ap>>
        /\ vif.type \in {"sta", "ap"} /\ (rx'.pc = m.type) /\ (rx'.m = m)
    BY <1>4 DEF Inv, Typed, VifType, Side, Take
  <2>1. CASE m.type = "cfm"
    <3>1. CfmStep(user, m.st, k, c)
      BY <1>2, <2>1 DEF Leads
    <3>2. KnownInv(c)'
      BY <1>1, <1>5, <2>0, <2>1, <3>1
        DEF Inv, KnownInv, UserInv, CfmStep, Linked, ConnPcs, DiscPcs
    <3>3. ChanInv(c)'
      BY <1>1, <1>5, <2>0, <2>1, <3>1 DEF Inv, KnownInv, ChanInv, CfmStep, Linked
    <3> QED
      BY <3>2, <3>3
  <2>2. CASE m.type = "conn"
    <3>1. /\ k \in {"rejoining", "joining"} /\ m \in ConnMsgs
          /\ c = IF m.st = "ok" THEN "up" ELSE "idle"
      BY <1>2, <1>6, <2>2 DEF Leads
    <3>2. KnownInv(c)'
      BY <1>1, <2>0, <2>2, <3>1 DEF Inv, KnownInv, DiscPcs
    <3>3. ChanInv(c)'
      BY <1>1, <2>0, <2>2, <3>1 DEF Inv, ChanInv, Linked
    <3> QED
      BY <3>2, <3>3
  <2>3. CASE m.type = "disc"
    <3>1. /\ k \in Linked /\ m \in DiscMsgs
          /\ c = IF m.re THEN "rejoining" ELSE "idle"
      BY <1>2, <1>6, <2>3 DEF Leads, Linked
    <3>2. KnownInv(c)'
      BY <1>1, <2>0, <2>3, <3>1 DEF Inv, KnownInv, Linked, ConnPcs
    <3>3. ChanInv(c)'
      BY <1>1, <2>0, <2>3, <3>1 DEF Inv, ChanInv
    <3> QED
      BY <3>2, <3>3
  <2>4. CASE m.type \notin {"cfm", "conn", "disc"}
    <3>1. c = k
      BY <1>2, <2>4 DEF Leads
    <3>2. KnownInv(c)'
      BY <1>1, <1>6, <2>0, <2>4, <3>1 DEF Inv, KnownInv, ConnPcs, DiscPcs
    <3>3. ChanInv(c)'
      BY <1>1, <1>6, <2>0, <2>4, <3>1 DEF Inv, ChanInv
    <3> QED
      BY <3>2, <3>3
  <2> QED
    BY <2>1, <2>2, <2>3, <2>4
<1>13. Inv(c)'
  BY <1>7, <1>8, <1>9, <1>10, <1>11, <1>12 DEF Inv
<1> QED
  BY <1>2, <1>13 DEF m
-----------------------------------------------------------------------------
(* The firmware.                                                           *)

\* The firmware sends a message that is no confirmation.
LEMMA SaysStep ==
  ASSUME NEW k \in Links, Inv(k), Side,
         NEW m \in Msgs, m.type # "cfm",
         evq' = Append(evq, m), (fw \in FwType)',
         Leads(user, m, fw.link, fw'.link),
         fw.link = "none" => fw'.link = "none",
         UNCHANGED <<env, user, then, cmd, rx, vif, ctx, kern, halted>>
  PROVE  Inv(k)'
<1>1. /\ evq' \in Seq(Msgs)
      /\ NoCfm(evq) => NoCfm(evq')
      /\ OneCfm(evq) => OneCfm(evq')
  BY SaidOther DEF Inv, Typed
<1>2. fw'.link \in Links
  BY DEF FwType
<1>3. Explains(user, evq, k, fw.link)'
  BY <1>2, SaidExplains DEF Inv, Typed
<1>4. Typed'
  BY <1>1 DEF Inv, Typed, Side
<1>5. (CmdInv /\ UserInv /\ FwInv)'
  BY <1>1 DEF Inv, CmdInv, UserInv, FwInv, Side
<1>6. (KnownInv(k) /\ ChanInv(k))'
  BY DEF Inv, KnownInv, ChanInv, Side
<1>7. ~halted' /\ ContextsCounted'
  BY DEF Inv, ContextsCounted
<1> QED
  BY <1>3, <1>4, <1>5, <1>6, <1>7 DEF Inv

\* The firmware answers a command.
LEMMA AnswerStep ==
  ASSUME NEW k \in Links, Inv(k), Side,
         NEW st \in {"ok", "refused"}, cmd # "sent", user \in Asks,
         evq' = Append(evq, Cfm(st)), cmd' = "sent", (fw \in FwType)',
         CfmStep(user, st, fw.link, fw'.link), FwInv',
         UNCHANGED <<env, user, then, rx, vif, ctx, kern, halted>>
  PROVE  Inv(k)'
<1>1. Cfm(st) \in Msgs /\ Cfm(st).type = "cfm" /\ Cfm(st).st = st
  BY DEF Cfm, Msgs
<1>2. evq' \in Seq(Msgs) /\ OneCfm(evq')
  BY <1>1, SaidCfm DEF Inv, Typed, CmdInv
<1>3. Explains(user, evq, k, fw.link)'
  <2>1. fw'.link \in Links
    BY DEF FwType
  <2>2. Leads(user, Cfm(st), fw.link, fw'.link)
    BY <1>1 DEF Leads
  <2> QED
    BY <1>1, <2>1, <2>2, SaidExplains DEF Inv, Typed
<1>4. Typed'
  BY <1>2 DEF Inv, Typed, Side
<1>5. CmdInv'
  BY <1>2 DEF Inv, CmdInv, Waits, Asks
<1>6. UserInv'
  BY DEF Inv, UserInv, Side
<1>7. (KnownInv(k) /\ ChanInv(k))'
  BY DEF Inv, KnownInv, ChanInv, Side
<1>8. ~halted' /\ ContextsCounted'
  BY DEF Inv, ContextsCounted
<1> QED
  BY <1>3, <1>4, <1>5, <1>6, <1>7, <1>8 DEF Inv

\* It does what the command says.
LEMMA FwAcceptsStep ==
  ASSUME NEW k \in Links, Inv(k), Side, FwAccepts
  PROVE  Inv(k)'
<1>1. cmd \in Requests /\ cmd \notin {"sent", "ok", "refused", "none"}
  BY DEF FwAccepts, Requests
<1>2. user \in Asks /\ <<user, cmd>> \in Asked
  BY <1>1 DEF Inv, CmdInv
<1>3. fw \in FwType
  BY DEF Inv, Typed
<1>4. (fw \in FwType)'
  BY <1>1, <1>3 DEF FwType, FwAccepts, Links, Requests
<1>5. /\ cmd = "add_if" => fw'.link = "idle"
      /\ cmd = "remove_if" => fw'.link = "none"
      /\ cmd = "connect" => \/ fw.link = "idle" /\ fw'.link = "joining"
                            \/ fw.link = "up" /\ fw'.link = "roaming"
      /\ cmd \notin {"add_if", "remove_if", "connect"} => fw'.link = fw.link
  BY <1>1, <1>3 DEF FwType, FwAccepts, Requests
<1>6. CfmStep(user, "ok", fw.link, fw'.link)
  BY <1>1, <1>2, <1>5 DEF Inv, FwInv, CfmStep, Asked
<1>7. FwInv'
  BY <1>1, <1>2, <1>5 DEF Inv, FwInv, Asked, FwAccepts
<1> QED
  BY <1>1, <1>2, <1>4, <1>6, <1>7, AnswerStep DEF FwAccepts, Says

\* It refuses.
LEMMA FwRefusesStep ==
  ASSUME NEW k \in Links, Inv(k), Side, FwRefuses
  PROVE  Inv(k)'
<1>1. cmd \in {"connect", "roc"}
  BY DEF FwRefuses
<1>2. user \in {"conn_cfm", "roc_cfm"}
  BY <1>1 DEF Inv, CmdInv, Asked
<1>3. fw' = fw /\ fw \in FwType
  BY DEF Inv, Typed, FwRefuses
<1>4. CfmStep(user, "refused", fw.link, fw'.link)
  BY <1>2, <1>3 DEF CfmStep
<1>5. FwInv'
  BY <1>2, <1>3 DEF FwInv, FwRefuses
<1>6. user \in Asks /\ cmd # "sent"
  BY <1>1, <1>2 DEF Asks
<1> QED
  BY <1>3, <1>4, <1>5, <1>6, AnswerStep DEF FwRefuses, Says

\* It speaks on its own.
LEMMA FwSpeaksStep ==
  ASSUME NEW k \in Links, Inv(k), Side,
         \/ FwFailed \/ FwLeaves \/ FwScanned \/ FwRemained
         \/ \E c \in Chans : FwConnected(c)
  PROVE  Inv(k)'
<1>1. fw \in FwType
  BY DEF Inv, Typed
<1>2. CASE \E c \in Chans : FwConnected(c)
  <2>1. PICK c \in Chans : FwConnected(c)
    BY <1>2
  <2> DEFINE m == Conn("ok", fw.link = "rejoining", c)
  <2>2. m \in Msgs /\ m.type = "conn" /\ m.st = "ok" /\ m.re = (fw.link = "rejoining")
    BY DEF Conn, Msgs, ConnMsgs
  <2>3. fw.link \in {"joining", "rejoining"} /\ (fw \in FwType)' /\ fw'.link = "up"
    BY <1>1, <2>1 DEF FwConnected, Fw, FwType, Links
  <2>4. Leads(user, m, fw.link, fw'.link)
    BY <2>2, <2>3 DEF Leads
  <2>5. evq' = Append(evq, m) /\ UNCHANGED <<env, user, then, cmd, rx, vif, ctx, kern, halted>>
    BY <2>1 DEF FwConnected, Fw, Says
  <2> HIDE DEF m
  <2> QED
    BY <2>2, <2>3, <2>4, <2>5, SaysStep
<1>3. CASE FwFailed
  <2> DEFINE m == Conn("failed", fw.link = "rejoining", None)
  <2>2. m \in Msgs /\ m.type = "conn" /\ m.st = "failed" /\ m.re = (fw.link = "rejoining")
    BY DEF Conn, Msgs, ConnMsgs
  <2>3. fw.link \in {"joining", "rejoining"} /\ (fw \in FwType)' /\ fw'.link = "idle"
    BY <1>1, <1>3 DEF FwFailed, Fw, FwType, Links
  <2>4. Leads(user, m, fw.link, fw'.link)
    BY <2>2, <2>3 DEF Leads
  <2>5. evq' = Append(evq, m) /\ UNCHANGED <<env, user, then, cmd, rx, vif, ctx, kern, halted>>
    BY <1>3 DEF FwFailed, Fw, Says
  <2> HIDE DEF m
  <2> QED
    BY <2>2, <2>3, <2>4, <2>5, SaysStep
<1>4. CASE FwLeaves
  <2> DEFINE re == fw.link = "roaming"
             m == Disc(re)
  <2>2. m \in Msgs /\ m.type = "disc" /\ m.re = (fw.link = "roaming")
    BY DEF Disc, Msgs, DiscMsgs
  <2>3. /\ fw.link \in {"roaming", "up"} /\ (fw \in FwType)'
        /\ fw'.link = IF re THEN "rejoining" ELSE "idle"
    BY <1>1, <1>4 DEF FwLeaves, Fw, FwType, Links
  <2>4. Leads(user, m, fw.link, fw'.link)
    BY <2>2, <2>3 DEF Leads
  <2>5. evq' = Append(evq, m) /\ UNCHANGED <<env, user, then, cmd, rx, vif, ctx, kern, halted>>
    BY <1>4 DEF FwLeaves, Fw, Says
  <2> HIDE DEF m
  <2> QED
    BY <2>2, <2>3, <2>4, <2>5, SaysStep
<1>5. CASE FwScanned \/ FwRemained
  <2>1. PICK m \in Msgs : /\ m.type \in {"scan", "roc_end"}
                          /\ evq' = Append(evq, m)
    BY <1>5 DEF FwScanned, FwRemained, Fw, Says, Msgs
  <2>2. (fw \in FwType)' /\ fw'.link = fw.link
    BY <1>1, <1>5 DEF FwScanned, FwRemained, Fw, FwType
  <2>3. Leads(user, m, fw.link, fw'.link)
    BY <2>1, <2>2 DEF Leads
  <2>4. UNCHANGED <<env, user, then, cmd, rx, vif, ctx, kern, halted>>
    BY <1>5 DEF FwScanned, FwRemained, Fw
  <2> QED
    BY <2>1, <2>2, <2>3, <2>4, SaysStep
<1> QED
  BY <1>2, <1>3, <1>4, <1>5
-----------------------------------------------------------------------------
(* Changes of type, and the access point.                                  *)

\* rwnx_cfg80211_change_iface, of an interface that is not connected.
LEMMA ChangeStep ==
  ASSUME NEW k \in Links, Inv(k), Side, NoRetype, Change
  PROVE  Inv(k)'
<1>1. user = "idle" /\ Bare
  BY DEF Inv, Typed, CmdInv, Waits, Asks, NoRetype, Change, Call
<1>2. evq = <<>> /\ rx.pc = "idle" /\ vif.conn = "disconnected"
  BY <1>1 DEF Bare, Silent
<1>3. k \in {"none", "idle"} /\ vif.ch = None
  <2>1. k = fw.link
    BY <1>2, EmptyExplains DEF Inv
  <2>2. k \in {"none", "idle"}
    BY <1>1, <1>2, <2>1 DEF Inv, KnownInv, Linked, Bare, Silent
  <2>3. ~ap.beacon
    BY <1>1 DEF Inv, Typed, VifType, UserInv, Change, Side
  <2> QED
    BY <1>1, <1>2, <2>2, <2>3 DEF Inv, Typed, VifType, ChanInv, Linked
<1>4. cmd = "none"
  BY <1>1 DEF Inv, CmdInv, Waits
<1>5. Explains(user, evq, k, fw.link)'
  BY <1>4, CallExplains DEF Change
<1>6. Typed'
  <2>1. (vif \in VifType)'
    BY DEF Inv, Typed, VifType, Change
  <2> QED
    BY <2>1 DEF Inv, Typed, Side, Change
<1>7. CmdInv'
  BY <1>1, <1>4 DEF Inv, CmdInv, Waits, Asks, Asked, Change
<1>8. UserInv'
  BY <1>1 DEF Inv, Typed, VifType, UserInv, Side, Change
<1>9. FwInv'
  BY <1>1, <1>4 DEF Inv, FwInv, Change
<1>10. KnownInv(k)'
  BY <1>1, <1>2, <1>3, <1>4 DEF Inv, KnownInv, ConnPcs, DiscPcs, Change
<1>11. ChanInv(k)'
  BY <1>1, <1>2, <1>3 DEF ChanInv, Linked, Change
<1>12. ~halted' /\ ContextsCounted'
  BY DEF Inv, ContextsCounted, Change
<1> QED
  BY <1>5, <1>6, <1>7, <1>8, <1>9, <1>10, <1>11, <1>12 DEF Inv

\* rwnx_cfg80211_start_ap
LEMMA StartApStep ==
  ASSUME NEW k \in Links, Inv(k),
         StartAp
  PROVE  Inv(k)'
<1>1. cmd # "sent"
  BY DEF Inv, CmdInv, Waits, StartAp, Call
<1>2. Explains(user, evq, k, fw.link)'
  BY <1>1, CallExplains DEF StartAp, Call
<1>3. Typed'
  <2>1. (ap \in ApType)'
    BY DEF Inv, Typed, ApType, StartAp
  <2> QED
    BY <2>1 DEF Inv, Typed, StartAp
<1>4. CmdInv'
  BY DEF Inv, CmdInv, Asked, Waits, Asks, StartAp, Call
<1>5. UserInv'
  BY DEF Inv, UserInv, StartAp, Call
<1>6. FwInv'
  BY DEF FwInv, StartAp
<1>7. KnownInv(k)'
  BY DEF Inv, KnownInv, StartAp
<1>8. ChanInv(k)'
  BY DEF Inv, ChanInv, StartAp
<1>9. ~halted' /\ ContextsCounted'
  BY DEF Inv, ContextsCounted, StartAp
<1> QED
  BY <1>2, <1>3, <1>4, <1>5, <1>6, <1>7, <1>8, <1>9 DEF Inv

\* ... links the channel of an interface that has none.
LEMMA ApStartedStep ==
  ASSUME NEW k \in Links, Inv(k),
         \E c \in Chans : ApStarted(c)
  PROVE  Inv(k)'
<1>1. cmd # "sent"
  BY DEF Answered, ApStarted
<1>2. Explains(user, evq, k, fw.link)'
  BY <1>1, CallExplains DEF Answered, ApStarted
<1>3. Typed'
  <2>1. (vif \in VifType)'
    <3>1. PICK c \in Chans : ApStarted(c)
      OBVIOUS
    <3>2. vif' = [vif EXCEPT !.ch = c, !.carrier = TRUE] \/ vif' = vif
      BY <3>1 DEF ApStarted
    <3> QED
      BY <3>2 DEF Inv, Typed, VifType
  <2>2. (ctx \in [Chans -> Nat])'
    BY DEF Inv, Typed, ApStarted
  <2>3. (ap \in ApType)'
    BY DEF Inv, Typed, ApType, Answered, ApStarted
  <2> QED
    BY <2>1, <2>2, <2>3 DEF Inv, Typed, ApStarted
<1>4. CmdInv'
  BY DEF Inv, CmdInv, Waits, Asks, Answered, ApStarted
<1>5. UserInv'
  <2>1. /\ vif'.up = vif.up /\ vif'.table = vif.table /\ vif'.type = vif.type
        /\ user = "ap_start" /\ user' = "idle" /\ UNCHANGED <<then, kern>>
    BY DEF Inv, Typed, VifType, ApStarted
  <2>2. vif.type = "ap" /\ kern.run = TRUE /\ ap'.wq = ap.wq /\ ap.wq = "live"
    BY <2>1 DEF Inv, Typed, ApType, KernType, UserInv, ApStarted
  <2> QED
    BY <2>1, <2>2 DEF Inv, UserInv
<1>6. FwInv'
  BY DEF Inv, UserInv, FwInv, ApStarted
<1>7. KnownInv(k)'
  BY DEF Inv, UserInv, KnownInv, DiscPcs, Linked, ApStarted
<1>8. ChanInv(k)'
  <2>1. vif.type = "ap" /\ vif'.type = "ap"
    BY DEF Inv, Typed, VifType, UserInv, ApStarted
  <2>2. vif'.ch # None => ap'.beacon
    BY <2>1 DEF Inv, Typed, VifType, ApType, ChanInv, ApStarted
  <2> QED
    BY <2>1, <2>2 DEF ChanInv
<1>9. ~halted' /\ ContextsCounted'
  <2>1. PICK c \in Chans : ApStarted(c)
    OBVIOUS
  <2>2. vif.ch = None /\ halted' = halted
    BY <2>1 DEF Inv, UserInv, ChanInv, ApStarted
  <2>3. CASE cmd = "ok"
    <3>1. vif'.ch = c /\ ctx' = [ctx EXCEPT ![c] = @ + 1]
      BY <2>1, <2>3 DEF Inv, Typed, VifType, ApStarted
    <3>2. \A x \in Chans : ctx[x] = 0 /\ ctx \in [Chans -> Nat]
      BY <2>2, IfaceAssumption DEF Inv, Typed, ContextsCounted
    <3> QED
      BY <2>2, <3>1, <3>2 DEF Inv, ContextsCounted
  <2>4. CASE cmd # "ok"
    BY <2>1, <2>2, <2>4 DEF Inv, ContextsCounted, ApStarted
  <2> QED
    BY <2>3, <2>4
<1> QED
  BY <1>2, <1>3, <1>4, <1>5, <1>6, <1>7, <1>8, <1>9 DEF Inv

\* rwnx_cfg80211_stop_ap begins ...
LEMMA StopApStep ==
  ASSUME NEW k \in Links, Inv(k),
         StopAp
  PROVE  Inv(k)'
<1>1. cmd # "sent"
  BY DEF Inv, CmdInv, Waits, StopAp, ApCall, Call
<1>2. Explains(user, evq, k, fw.link)'
  BY <1>1, CallExplains DEF StopAp, ApCall, Call
<1>3. Typed'
  <2>1. (vif \in VifType)'
    BY DEF Inv, Typed, VifType, StopAp, ApCall, Call
  <2>2. (ap \in ApType)'
    BY DEF Inv, Typed, ApType, StopAp, ApCall, Call
  <2> QED
    BY <2>1, <2>2 DEF Inv, Typed, StopAp
<1>4. CmdInv'
  BY DEF Inv, CmdInv, Waits, Asks, StopAp, ApCall, Call
<1>5. UserInv'
  BY DEF Inv, UserInv, StopAp, ApCall
<1>6. FwInv'
  BY DEF FwInv, StopAp
<1>7. KnownInv(k)'
  BY DEF Inv, KnownInv, StopAp
<1>8. ChanInv(k)'
  BY DEF Inv, UserInv, ChanInv, StopAp, ApCall
<1>9. ~halted' /\ ContextsCounted'
  BY DEF Inv, ContextsCounted, StopAp
<1> QED
  BY <1>2, <1>3, <1>4, <1>5, <1>6, <1>7, <1>8, <1>9 DEF Inv

\* ... has deleted all stations ...
LEMMA StopSendStep ==
  ASSUME NEW k \in Links, Inv(k),
         StopSend
  PROVE  Inv(k)'
<1>1. cmd # "sent"
  BY DEF Inv, CmdInv, Waits, StopSend
<1>2. Explains(user, evq, k, fw.link)'
  BY <1>1, CallExplains DEF StopSend, apVars
<1>3. Typed'
  BY DEF Inv, Typed, StopSend, apVars
<1>4. CmdInv'
  BY DEF Inv, CmdInv, Asked, Waits, Asks, StopSend
<1>5. UserInv'
  BY DEF Inv, UserInv, StopSend, apVars
<1>6. FwInv'
  BY DEF FwInv, StopSend
<1>7. KnownInv(k)'
  BY DEF Inv, KnownInv, StopSend
<1>8. ChanInv(k)'
  BY DEF Inv, ChanInv, StopSend, apVars
<1>9. ~halted' /\ ContextsCounted'
  BY DEF Inv, ContextsCounted, StopSend
<1> QED
  BY <1>2, <1>3, <1>4, <1>5, <1>6, <1>7, <1>8, <1>9 DEF Inv

\* ... and unlinks the channel.
LEMMA ApStoppedStep ==
  ASSUME NEW k \in Links, Inv(k),
         ApStopped
  PROVE  Inv(k)'
<1>1. cmd # "sent"
  BY DEF ApStopped, Answered
<1>2. Explains(user, evq, k, fw.link)'
  BY <1>1, CallExplains DEF ApStopped, Answered, Unlinked
<1>3. Typed'
  <2>1. (vif \in VifType)'
    BY DEF Inv, Typed, VifType, ApStopped, Answered, Unlinked
  <2>2. (ctx \in [Chans -> Nat])'
    BY DEF Inv, Typed, VifType, ApStopped, Unlinked
  <2>3. (ap \in ApType)'
    BY DEF Inv, Typed, ApType, ApStopped, Answered, Unlinked
  <2> QED
    BY <2>1, <2>2, <2>3 DEF Inv, Typed, ApStopped
<1>4. CmdInv'
  BY DEF Inv, CmdInv, Waits, Asks, ApStopped, Answered
<1>5. UserInv'
  BY DEF Inv, UserInv, ApStopped
<1>6. FwInv'
  BY DEF Inv, UserInv, FwInv, ApStopped
<1>7. KnownInv(k)'
  BY DEF Inv, UserInv, KnownInv, ApStopped
<1>8. ChanInv(k)'
  <2>1. vif'.ch = None /\ vif'.type = "ap"
    BY DEF Inv, UserInv, ApStopped
  <2> QED
    BY <2>1 DEF ChanInv
<1>9. ~halted' /\ ContextsCounted'
  <2>1. vif'.ch = None /\ ctx' = Unlinked /\ ~halted'
    BY DEF Inv, ApStopped
  <2>2. ASSUME NEW c \in Chans
        PROVE  ctx'[c] = 0
    <3>1. ctx[c] = (IF vif.ch = c THEN 1 ELSE 0) /\ ctx \in [Chans -> Nat]
      BY DEF Inv, Typed, ContextsCounted
    <3>2. c # None
      BY IfaceAssumption
    <3> QED
      BY <2>1, <3>1, <3>2 DEF Unlinked
  <2> QED
    BY <2>1, <2>2, IfaceAssumption DEF ContextsCounted
<1> QED
  BY <1>2, <1>3, <1>4, <1>5, <1>6, <1>7, <1>8, <1>9 DEF Inv

\* rwnx_cfg80211_add_station sends its command ...
LEMMA AddStationStep ==
  ASSUME NEW k \in Links, Inv(k),
         \E p \in Peers : AddStation(p)
  PROVE  Inv(k)'
<1>1. cmd # "sent"
  BY DEF Inv, CmdInv, Waits, AddStation, ApCall, Call
<1>2. Explains(user, evq, k, fw.link)'
  BY <1>1, CallExplains DEF AddStation, ApCall, Call
<1>3. Typed'
  <2>1. (arg \in ArgType)'
    BY DEF ArgType, Nobody, AddStation
  <2> QED
    BY <2>1 DEF Inv, Typed, AddStation
<1>4. CmdInv'
  BY DEF Inv, CmdInv, Asked, Waits, Asks, AddStation, ApCall, Call
<1>5. UserInv'
  BY DEF Inv, UserInv, AddStation, ApCall
<1>6. FwInv'
  BY DEF FwInv, AddStation
<1>7. KnownInv(k)'
  BY DEF Inv, KnownInv, AddStation
<1>8. ChanInv(k)'
  BY DEF Inv, UserInv, ChanInv, AddStation, ApCall
<1>9. ~halted' /\ ContextsCounted'
  BY DEF Inv, ContextsCounted, AddStation
<1> QED
  BY <1>2, <1>3, <1>4, <1>5, <1>6, <1>7, <1>8, <1>9 DEF Inv

\* ... and puts the station in the list.
LEMMA StationAddedStep ==
  ASSUME NEW k \in Links, Inv(k),
         StationAdded
  PROVE  Inv(k)'
<1>1. cmd # "sent"
  BY DEF StationAdded, Answered
<1>2. Explains(user, evq, k, fw.link)'
  BY <1>1, CallExplains DEF StationAdded, Answered
<1>3. Typed'
  <2>1. (arg \in ArgType)'
    BY DEF ArgType, Nobody, StationAdded
  <2> QED
    BY <2>1 DEF Inv, Typed, ArgType, StationAdded
<1>4. CmdInv'
  BY DEF Inv, CmdInv, Waits, Asks, StationAdded, Answered
<1>5. UserInv'
  BY DEF Inv, UserInv, StationAdded
<1>6. FwInv'
  BY DEF Inv, UserInv, FwInv, StationAdded
<1>7. KnownInv(k)'
  BY DEF Inv, UserInv, KnownInv, StationAdded
<1>8. ChanInv(k)'
  BY DEF Inv, ChanInv, StationAdded
<1>9. ~halted' /\ ContextsCounted'
  BY DEF Inv, ContextsCounted, StationAdded
<1> QED
  BY <1>2, <1>3, <1>4, <1>5, <1>6, <1>7, <1>8, <1>9 DEF Inv

\* A station is taken from the list ...
LEMMA UnlistStep ==
  ASSUME NEW k \in Links, Inv(k),
         \/ StopDel
         \/ \E p \in Peers : DelStation(p)
  PROVE  Inv(k)'
<1>1. cmd # "sent"
  BY DEF Inv, CmdInv, Waits, StopDel, DelStation, ApCall, Call
<1>2. Explains(user, evq, k, fw.link)'
  BY <1>1, CallExplains DEF StopDel, DelStation, Unlist, vars
<1>3. Typed'
  <2>1. (arg \in ArgType)'
    BY DEF Inv, Typed, ArgType, Nobody, StopDel, DelStation, Unlist, At
  <2> QED
    BY <2>1 DEF Inv, Typed, StopDel, DelStation, Unlist, Left, vars
<1>4. CmdInv'
  BY DEF Inv, CmdInv, Waits, Asks, StopDel, DelStation, ApCall, Call, Unlist, vars
<1>5. UserInv'
  BY DEF Inv, UserInv, StopDel, DelStation, ApCall, Unlist, vars
<1>6. FwInv'
  BY DEF Inv, FwInv, StopDel, DelStation, Unlist, vars
<1>7. KnownInv(k)'
  BY DEF Inv, KnownInv, StopDel, DelStation, Unlist, vars
<1>8. ChanInv(k)'
  BY DEF Inv, UserInv, ChanInv, StopDel, DelStation, ApCall, Unlist, vars
<1>9. ~halted' /\ ContextsCounted'
  BY DEF Inv, ContextsCounted, StopDel, DelStation, Unlist, vars
<1> QED
  BY <1>2, <1>3, <1>4, <1>5, <1>6, <1>7, <1>8, <1>9 DEF Inv

\* ... and from the firmware.
LEMMA DelStep ==
  ASSUME NEW k \in Links, Inv(k),
         \/ DelSend
         \/ DelDone
  PROVE  Inv(k)'
<1>1. cmd # "sent"
  BY DEF Inv, CmdInv, Waits, DelSend, DelDone, Answered
<1>2. Explains(user, evq, k, fw.link)'
  BY <1>1, CallExplains DEF DelSend, DelDone, Answered
<1>3. Typed'
  <2>1. (arg \in ArgType)'
    BY DEF Inv, Typed, ArgType, Nobody, DelSend, DelDone
  <2> QED
    BY <2>1 DEF Inv, Typed, DelSend, DelDone
<1>4. CmdInv'
  BY DEF Inv, CmdInv, Asked, Waits, Asks, DelSend, DelDone, Answered
<1>5. UserInv'
  BY DEF Inv, UserInv, DelSend, DelDone
<1>6. FwInv'
  BY DEF Inv, UserInv, FwInv, DelSend, DelDone
<1>7. KnownInv(k)'
  BY DEF Inv, UserInv, KnownInv, DelSend, DelDone
<1>8. ChanInv(k)'
  BY DEF Inv, ChanInv, DelSend, DelDone
<1>9. ~halted' /\ ContextsCounted'
  BY DEF Inv, ContextsCounted, DelSend, DelDone
<1> QED
  BY <1>2, <1>3, <1>4, <1>5, <1>6, <1>7, <1>8, <1>9 DEF Inv

\* rwnx_cfg80211_probe_client finds its work queue.
LEMMA ProbeStep ==
  ASSUME NEW k \in Links, Inv(k),
         \E p \in Peers : Probe(p)
  PROVE  Inv(k)'
<1>1. cmd # "sent"
  BY DEF Inv, CmdInv, Waits, Probe, ApCall, Call
<1>2. Explains(user, evq, k, fw.link)'
  BY <1>1, CallExplains DEF Probe, ApCall, Call
<1>3. Typed'
  <2>1. (ap \in ApType)'
    BY DEF Inv, Typed, ApType, Probe, ApCall, Call
  <2> QED
    BY <2>1 DEF Inv, Typed, Probe
<1>4. CmdInv'
  BY DEF Inv, CmdInv, Probe
<1>5. UserInv'
  BY DEF Inv, UserInv, Probe
<1>6. FwInv'
  BY DEF FwInv, Probe, ApCall, Call
<1>7. KnownInv(k)'
  BY DEF Inv, KnownInv, Probe
<1>8. ChanInv(k)'
  BY DEF Inv, ChanInv, Probe
<1>9. ~halted' /\ ContextsCounted'
  <2>1. ap.wq = "live" /\ vif' = vif /\ ctx' = ctx
    BY DEF Inv, UserInv, Probe, ApCall
  <2>2. ~halted'
    BY <2>1 DEF Probe
  <2> QED
    BY <2>1, <2>2 DEF Inv, ContextsCounted
<1> QED
  BY <1>2, <1>3, <1>4, <1>5, <1>6, <1>7, <1>8, <1>9 DEF Inv

\* The works touch stations only.
LEMMA WorksStep ==
  ASSUME NEW k \in Links, Inv(k), ApWorks
  PROVE  Inv(k)'
<1>1. UNCHANGED vars /\ arg' = arg /\ fwSta' = fwSta
  BY DEF ApWorks, LossWork, LossSend, LossDone, Probed
<1>2. list' \subseteq Ids \cup {None}
  BY DEF Inv, Typed, ApWorks, LossWork, LossSend, LossDone, Probed, At, Left
<1>3. (ap \in ApType)' /\ ap'.beacon = ap.beacon /\ ap'.wq = ap.wq
  BY DEF Inv, Typed, ApType, ApWorks, LossWork, LossSend, LossDone, Probed
<1>4. Explains(user, evq, k, fw.link)' /\ CmdInv' /\ FwInv'
  BY <1>1 DEF Inv, CmdInv, FwInv, vars
<1>5. Typed'
  BY <1>1, <1>2, <1>3 DEF Inv, Typed, vars
<1>6. UserInv'
  BY <1>1, <1>3 DEF Inv, UserInv, vars
<1>7. (KnownInv(k) /\ ChanInv(k))'
  BY <1>1, <1>3 DEF Inv, KnownInv, ChanInv, vars
<1>8. ~halted' /\ ContextsCounted'
  BY <1>1 DEF Inv, ContextsCounted, vars
<1> QED
  BY <1>4, <1>5, <1>6, <1>7, <1>8 DEF Inv

\* The firmware answers a command of an access point ...
LEMMA FwApAnswersStep ==
  ASSUME NEW k \in Links, Inv(k), FwApAccepts \/ FwApRefuses
  PROVE  Inv(k)'
<1>1. cmd \in ApRequests
  BY DEF FwApAccepts, FwApRefuses, ApRequests
<1>2. user \in {"ap_start", "ap_stop_cfm", "ap_add", "ap_del"} /\ user \in Asks /\ cmd # "sent"
  BY <1>1 DEF Inv, CmdInv, Asked, ApRequests
<1>3. UNCHANGED <<env, user, then, fw, rx, vif, ctx, kern, halted, ap, list>> /\ cmd' = "sent"
  BY DEF FwApAccepts, FwApRefuses
<1>4. PICK st \in {"ok", "refused"} : evq' = Append(evq, Cfm(st))
  BY DEF FwApAccepts, FwApRefuses, Says
<1>5. (arg \in ArgType)'
  BY <1>1 DEF Inv, Typed, ArgType, FwApAccepts, FwApRefuses
<1>6. (fwSta \in [Ids -> Peers \cup {None}])'
  <2>1. arg.mac \in Peers \cup {None} /\ fwSta \in [Ids -> Peers \cup {None}]
    BY DEF Inv, Typed, ArgType
  <2> QED
    BY <1>1, <2>1 DEF FwApAccepts, FwApRefuses, Dropped
<1>7. Side
  BY <1>2, <1>3, <1>5, <1>6 DEF Inv, Typed, Side
<1>8. CfmStep(user, st, fw.link, fw'.link) /\ FwInv' /\ (fw \in FwType)'
  BY <1>2, <1>3 DEF Inv, Typed, FwInv, CfmStep
<1> QED
  BY <1>2, <1>3, <1>4, <1>7, <1>8, AnswerStep

\* ... or speaks of its stations.
LEMMA FwApSpeaksStep ==
  ASSUME NEW k \in Links, Inv(k),
         FwLossAccepts \/ \E i \in Ids : FwLoses(i)
  PROVE  Inv(k)'
<1>1. UNCHANGED <<env, user, then, cmd, fw, rx, vif, ctx, kern, halted, ap, arg, list>>
  BY DEF FwLossAccepts, FwLoses
<1>2. (fwSta \in [Ids -> Peers \cup {None}])'
  BY DEF Inv, Typed, FwLossAccepts, FwLoses, Dropped
<1>3. Side
  BY <1>1, <1>2 DEF Inv, Typed, UserInv, Side
<1>4. PICK m \in Msgs : m.type \in {"loss", "loss_cfm"} /\ evq' = Append(evq, m)
  BY DEF Inv, Typed, FwLossAccepts, FwLoses, Says, Msgs
<1>5. Leads(user, m, fw.link, fw'.link) /\ (fw \in FwType)' /\ fw'.link = fw.link
  BY <1>1, <1>4 DEF Inv, Typed, Leads
<1> QED
  BY <1>1, <1>3, <1>4, <1>5, SaysStep
-----------------------------------------------------------------------------
(* All steps together.                                                     *)

\* What a step of StaIface leaves alone, within ApIface.
LEMMA SideOf ==
  ASSUME NEW k \in Links, Inv(k), StaNext
  PROVE  Side
<1>1. UNCHANGED <<ap, arg, list>> /\ (fwSta' = fwSta \/ fwSta' = [i \in Ids |-> None])
  BY DEF StaNext
<1> QED
  BY <1>1 DEF Inv, Typed, Side, StaNext

\* Every step of StaIface, but that the busrx thread takes a message: the known
\* link stays.
LEMMA StationStep ==
  ASSUME NEW k \in Links, Inv(k), NoRetype, StaNext, ~Take
  PROVE  Inv(k)'
<1>1. Side
  BY SideOf
<1>2. Next
  BY DEF StaNext
<1>3. CASE Begin
  BY <1>1, <1>3, OpenStep, ConnectStep, DisconnectStep, BeginStep, ChangeStep
    DEF Begin
<1>4. CASE Continue
  BY <1>1, <1>4, OpenedStep, ConnectSendStep, DisconnectTestStep,
     DisconnectSendStep, DisconnectDoneStep, CloseScanStep, CloseRocStep,
     CloseRemoveStep, CloseUnlinkStep, ClosedStep, AnsweredStep,
     ChangeRemovedStep, ChangedStep
    DEF Continue
<1>5. CASE Busrx
  BY <1>1, <1>5, ConfirmStep, ConnectIndStep, ConnectIndTestStep,
     ConnectIndTellStep, ConnectIndEndStep, DisconnectIndStep,
     DisconnectIndApStep, DisconnectIndEndStep, ScanDoneStep, RemainExpiredStep
    DEF Busrx
<1>6. CASE Firmware
  BY <1>1, <1>6, FwAcceptsStep, FwRefusesStep, FwSpeaksStep DEF Firmware
<1>7. CASE KernEvent
  BY <1>1, <1>7, KernEventStep
<1> QED
  BY <1>2, <1>3, <1>4, <1>5, <1>6, <1>7 DEF Next

\* Every call on the access point.
LEMMA ApStep ==
  ASSUME NEW k \in Links, Inv(k), ApBegin \/ ApContinue
  PROVE  Inv(k)'
<1>1. CASE ApBegin
  BY <1>1, StartApStep, StopApStep, AddStationStep, UnlistStep, ProbeStep
    DEF ApBegin
<1>2. CASE ApContinue
  BY <1>2, StopSendStep, ApStoppedStep, StationAddedStep, UnlistStep, DelStep,
     ApStartedStep
    DEF ApContinue
<1> QED
  BY <1>1, <1>2

\* What is under way on the busrx thread for the access point.
LEMMA LossStep ==
  ASSUME NEW k \in Links, Inv(k), LossInd \/ LossConfirm
  PROVE  Side /\ Inv(k)'
<1>1. UNCHANGED <<ap, arg, list, fwSta, user>>
  BY DEF LossInd, LossConfirm
<1>2. Side
  BY <1>1 DEF Inv, Typed, UserInv, Side
<1> QED
  BY <1>2, LossIndStep, LossConfirmStep

\* Nothing.
LEMMA SameStep ==
  ASSUME NEW k \in Links, Inv(k), UNCHANGED allVars
  PROVE  Inv(k)'
BY DEF allVars, apVars, vars, Inv, Typed, CmdInv, UserInv, FwInv, KnownInv,
       ChanInv, ContextsCounted

\* Every step.
LEMMA InterfaceStep ==
  ASSUME IndInv, NoRetype, [ApNext]_allVars
  PROVE  IndInv'
<1>1. PICK k \in Links : Inv(k)
  BY DEF IndInv
<1>2. CASE StaNext /\ Take
  BY <1>1, <1>2, SideOf, TakeLeads DEF IndInv
<1>3. CASE StaNext /\ ~Take
  BY <1>1, <1>3, StationStep DEF IndInv
<1>4. CASE ApBegin \/ ApContinue
  BY <1>1, <1>4, ApStep DEF IndInv
<1>5. CASE ApWorks
  BY <1>1, <1>5, WorksStep DEF IndInv
<1>6. CASE ApFirmware
  BY <1>1, <1>6, FwApAnswersStep, FwApSpeaksStep DEF ApFirmware, IndInv
<1>7. CASE LossInd \/ LossConfirm
  BY <1>1, <1>7, LossStep DEF IndInv
<1>8. CASE UNCHANGED allVars
  BY <1>1, <1>8, SameStep DEF IndInv
<1> QED
  BY <1>2, <1>3, <1>4, <1>5, <1>6, <1>7, <1>8 DEF ApNext

\* At first nothing is known and nothing under way.
LEMMA InterfaceInit ==
  ASSUME ApInit
  PROVE  Inv("none")
<1> DEFINE h == [i \in 0..0 |-> "none"]
<1>1. h \in [0..Len(<<>>) -> Links] /\ h[0] = "none" /\ h[Len(<<>>)] = "none"
  BY DEF Links
<1>2. \A i \in 1..Len(<<>>) : FALSE
  OBVIOUS
<1> HIDE DEF h
<1>3. Explains(user, <<>>, "none", "none")
  BY <1>1, <1>2 DEF Explains
<1>4. Typed
  <2>1. vif \in VifType
    BY DEF ApInit, Init, VifType
  <2>2. fw \in FwType /\ kern \in KernType
    BY DEF ApInit, Init, FwType, KernType, Links
  <2>3. rx \in RxType
    BY DEF ApInit, Init, RxType, RxPcs
  <2>4. ap \in ApType /\ arg \in ArgType
    BY DEF ApInit, ApType, ArgType, Nobody
  <2> QED
    BY <2>1, <2>2, <2>3, <2>4 DEF ApInit, Init, Typed
<1>5. CmdInv /\ UserInv /\ FwInv
  <2>1. NoCfm(evq) /\ OneCfm(evq)
    BY <1>2 DEF ApInit, Init, NoCfm, OneCfm
  <2>2. CmdInv
    BY <2>1 DEF ApInit, Init, CmdInv, Waits, Asks
  <2> QED
    BY <2>2 DEF ApInit, Init, UserInv, FwInv
<1>6. KnownInv("none") /\ ChanInv("none")
  BY DEF ApInit, Init, KnownInv, ChanInv, Linked, ConnPcs, DiscPcs
<1>7. ~halted /\ ContextsCounted
  BY IfaceAssumption DEF ApInit, Init, ContextsCounted
<1>8. Explains(user, evq, "none", fw.link)
  BY <1>3 DEF ApInit, Init
<1> QED
  BY <1>4, <1>5, <1>6, <1>7, <1>8 DEF Inv

\* The invariant always holds.
LEMMA InterfaceInvariant == NoRetype /\ ApSpec => []IndInv
<1>1. ApInit => IndInv
  BY InterfaceInit DEF IndInv, Links
<1>2. ASSUME NoRetype PROVE IndInv /\ [ApNext]_allVars => IndInv'
  BY <1>2, InterfaceStep
<1>3. CASE NoRetype
  BY <1>1, <1>2, <1>3, PTL DEF ApSpec
<1> QED
  BY <1>3

\* Whatever the two threads, the firmware and the works do, no indication finds
\* the interface gone from vif_table, its station freed, or an access point
\* where a station should be; and no probe finds its work queue destroyed
\* (rwnx_rx_sm_connect_ind, rwnx_rx_sm_disconnect_ind, rwnx_close,
\* rwnx_cfg80211_probe_client).
THEOREM NoIndicationIsLate ==
  ASSUME NoRetype
  PROVE  ApSpec => []NoOops
<1>1. IndInv => NoOops
  BY DEF IndInv, Inv, NoOops
<1> QED
  BY <1>1, InterfaceInvariant, PTL

\* Every channel context has exactly the links of the interface: connecting,
\* losing the connection, closing, and starting and stopping an access point
\* link and unlink in pairs (rwnx_chanctx_link, rwnx_chanctx_unlink).
THEOREM LinksAreCounted ==
  ASSUME NoRetype
  PROVE  ApSpec => []ContextsCounted
<1>1. IndInv => ContextsCounted
  BY DEF IndInv, Inv
<1> QED
  BY <1>1, InterfaceInvariant, PTL
-----------------------------------------------------------------------------
(* Agreement, for surroundings in which the firmware refuses nothing, the   *)
(* waits of rwnx_close do not run out and no thread loses the processor     *)
(* where it does not sleep (with any of these it is violated).              *)

\* The firmware may lose the access point; cfg80211 may start one of its own.
Calm == env \subseteq {"drop", "ap"}

\* The busrx thread is in an indication of the connection.
IndPcs == ConnPcs \cup DiscPcs
\* rwnx_close and change_iface, once the connection is given up ...
Closing == {"close_disc", "close_rem", "close_reset"}
\* ... and from the removal of the interface to its return.
Removing == {"close_rem", "close_reset", "change_rem", "change_add"}

\* The command to connect is out and not known to have been taken.
Trying == user = "conn_cfm" /\ (cmd = "connect" \/ (cmd = "sent" /\ rx.pc # "cfm"))

\* The state of the connection follows the known link: it is what that link
\* asks for, or what an indication in progress, a command to connect or a
\* disconnection under way is about to make of it.
ConnInv(k) ==
    /\ vif.roam = FALSE /\ vif.conn # "roaming"
    /\ k \notin {"roaming", "rejoining"} /\ fw.link \notin {"roaming", "rejoining"}
    /\ rx.pc \in IndPcs => rx.m.re = FALSE
    /\ k = "joining" => vif.conn \in {"connecting", "disconnecting"}
    /\ k = "up" =>
           \/ vif.conn \in {"connected", "disconnecting"}
           \/ vif.conn = "connecting" /\ rx.pc \in {"conn", "conn_test", "conn_tell"}
    /\ k \in {"none", "idle"} /\ rx.pc \notin DiscPcs \cup {"conn"} =>
           vif.conn = "disconnected" \/ Trying
    /\ vif.conn = "disconnecting" => cmd = "disconnect" \/ fw.leave \/ fw.link = "idle"
    /\ vif.ap = (vif.type = "sta" /\ vif.ch # None)
    /\ vif.type = "sta" /\ vif.ch # None => k = "up" \/ rx.pc \in {"disc", "disc_ap"}

\* No command is refused.
AllOk(q) == \A i \in 1..Len(q) : q[i].type = "cfm" => q[i].st = "ok"

\* What a call has seen of the connection still holds while it sleeps.
CallInv(k) ==
    /\ user = "conn_set" => vif.conn = "disconnected" /\ rx.pc = "idle"
    /\ user = "disc_set" => vif.conn # "disconnected" /\ rx.pc = "idle"
    /\ Trying => vif.conn = "connecting" /\ k = "idle" /\ rx.pc \notin IndPcs
    /\ user = "conn_cfm" /\ cmd = "connect" => fw.link = "idle"
    /\ user = "conn_cfm" =>
           cmd # "refused" /\ AllOk(evq) /\ (rx.pc = "cfm" => rx.m.st = "ok")
    /\ k = "none" => ~kern.run \/ user \in Removing
    /\ user \in {"open", "change_add"} /\ (rx.pc = "cfm" \/ cmd \in {"ok", "refused"}) =>
           k = "idle"
    /\ user \in {"close_cfm", "close_roc"} => vif.conn \in {"connected", "disconnected"}
    /\ user = "close_disc" => vif.conn \in {"disconnecting", "disconnected"}
    /\ user \in {"close_rem", "close_reset"} => vif.conn = "disconnected"
    /\ user \in Closing => k # "joining" /\ rx.pc \notin ConnPcs

\* cfg80211 believes, or will when its work has run, that it is connected.
LastEvent == IF kev = <<>> THEN kern.bss = TRUE ELSE kev[Len(kev)] = "connected"

\* The carrier, and what cfg80211 has been told, follow the known link: the
\* one stays behind only while a disconnection is handled, the other only
\* while it is about to be told.
CarrierInv(k) ==
    /\ kev \in Seq({"connected", "failed", "lost"})
    /\ vif.type = "ap" => (vif.carrier => ap.beacon) /\ ~LastEvent
    /\ vif.type = "sta" =>
         /\ vif.carrier => k = "up" \/ rx.pc = "disc"
         /\ LastEvent <=> vif.carrier \/ (rx.pc = "conn_end" /\ rx.m.st = "ok")
         /\ ~vif.up => ~vif.carrier
    /\ vif.conn = "connected" /\ rx.pc \notin {"conn_end", "disc_ap", "disc_end"} =>
           vif.carrier

\* rwnx_cfg80211_stop_ap
Stops == {"ap_stop", "ap_stop_cfm", "ap_reord", "ap_del"}

\* An access point that is being stopped has no carrier.
StopInv ==
    /\ ap.stopping => ap.beacon /\ ~vif.carrier /\ user \in Stops
    /\ user \in {"ap_stop", "ap_stop_cfm"} => ap.stopping

\* The driver and cfg80211 follow the known link.
Agr(k) == ConnInv(k) /\ CallInv(k) /\ CarrierInv(k) /\ StopInv

\* Without a confirmation nothing leads away from an interface without a link.
LEMMA NothingComes ==
  ASSUME NEW u, NEW a \in {"none", "idle"}, NEW b, NEW q \in Seq(Msgs), NoCfm(q),
         Explains(u, q, a, b)
  PROVE  b = a
<1> DEFINE n == Len(q)
<1>1. PICK h \in [0..n -> Links] :
         /\ h[0] = a /\ h[n] = b
         /\ \A i \in 1..n : Leads(u, q[i], h[i - 1], h[i])
  BY DEF Explains
<1>2. n \in Nat
  OBVIOUS
<1> DEFINE S == {i \in 0..n : h[i] # a}
<1>3. ASSUME S # {} PROVE FALSE
  <2>1. PICK i \in S : \A j \in S : i <= j
    <3>1. S \in SUBSET (0..n)
      OBVIOUS
    <3> HIDE DEF S
    <3> QED
      BY <1>2, <1>3, <3>1, LeastExists
  <2>2. i \in 1..n /\ i - 1 \in 0..n /\ i - 1 < i
    BY <1>1, <1>2
  <2>3. h[i - 1] = a
    BY <1>2, <2>1, <2>2
  <2>4. Leads(u, q[i], h[i - 1], h[i]) /\ q[i].type # "cfm"
    BY <1>1, <2>2 DEF NoCfm
  <2>5. h[i] = a
    BY <2>3, <2>4 DEF Leads
  <2> QED
    BY <2>1, <2>5
<1> QED
  BY <1>1, <1>2, <1>3

\* An interface that is opened has nothing to disagree about.
LEMMA OpenAgrees ==
  ASSUME NEW k \in Links, Inv(k), Agr(k), Calm, Side,
         Open
  PROVE  Agr(k)'
<1>1. ConnInv(k)'
  BY DEF Inv, KnownInv, UserInv, Agr, ConnInv, Open
<1>2. CallInv(k)'
  BY DEF Inv, KnownInv, CallInv, Trying, Calm, UserRuns, Open, Call
<1>3. CarrierInv(k)'
  BY DEF Inv, UserInv, Agr, CarrierInv, LastEvent, Open
<1>4. StopInv'
  BY DEF Agr, StopInv, Stops, Side, Open, Call
<1> QED
  BY <1>1, <1>2, <1>3, <1>4 DEF Agr

\* rwnx_cfg80211_connect
LEMMA ConnectAgrees ==
  ASSUME NEW k \in Links, Inv(k), Agr(k), Calm, Side,
         Connect
  PROVE  Agr(k)'
<1>1. ConnInv(k)'
  BY DEF Inv, Typed, VifType, KernType, Agr, ConnInv, Trying, Calm, Connect, Call
<1>2. CallInv(k)'
  <2>1. /\ user = "idle" /\ user' \in {"idle", "conn_set"} /\ kern'.run = kern.run
        /\ UNCHANGED <<cmd, evq, fw, rx>> /\ vif'.conn = vif.conn
    BY DEF Inv, Typed, VifType, KernType, Connect, Call
  <2>2. user' = "conn_set" => vif.conn = "disconnected" /\ rx.pc = "idle"
    BY DEF Inv, Typed, VifType, Agr, ConnInv, Calm, UserRuns, Connect, Call,
           Unsettled
  <2> QED
    BY <2>1, <2>2 DEF Agr, CallInv, Trying, Closing, Removing
<1>3. CarrierInv(k)'
  BY DEF Agr, CarrierInv, LastEvent, Connect
<1>4. StopInv'
  BY DEF Agr, StopInv, Stops, Side, Connect, Call
<1> QED
  BY <1>1, <1>2, <1>3, <1>4 DEF Agr

\* cfg80211 begins to disconnect ...
LEMMA DisconnectAgrees ==
  ASSUME NEW k \in Links, Inv(k), Agr(k), Calm, Side,
         \E x \in {"idle", "close", "change"} : Disconnect(x)
  PROVE  Agr(k)'
<1>1. ConnInv(k)'
  BY DEF Agr, ConnInv, Trying, Call, Disconnect
<1>2. CallInv(k)'
  BY DEF Agr, CallInv, Trying, Closing, Removing, Call, Disconnect
<1>3. CarrierInv(k)'
  BY DEF Agr, CarrierInv, LastEvent, Disconnect
<1>4. StopInv'
  BY DEF Agr, StopInv, Stops, Side, Call, Disconnect
<1> QED
  BY <1>1, <1>2, <1>3, <1>4 DEF Agr

\* ... and what else it begins.
LEMMA BeginAgrees ==
  ASSUME NEW k \in Links, Inv(k), Agr(k), Calm, Side,
         \/ Down
         \/ Scan
         \/ RemainOnChannel
         \/ CancelRemain
  PROVE  Agr(k)'
<1>1. /\ UNCHANGED <<vif, rx, fw, kern, kev, ap>>
      /\ user = "idle" /\ user' \in {"close", "wait", "roc_cfm"} /\ cmd = "none"
  BY DEF Inv, CmdInv, Waits, Side, Down, Scan, RemainOnChannel, CancelRemain, Call
<1>2. ConnInv(k)'
  BY <1>1 DEF Agr, ConnInv, Trying
<1>3. CallInv(k)'
  BY <1>1 DEF Agr, CallInv, Trying, Closing, Removing
<1>4. CarrierInv(k)'
  BY <1>1 DEF Agr, CarrierInv, LastEvent
<1>5. StopInv'
  BY <1>1 DEF Agr, StopInv, Stops
<1> QED
  BY <1>2, <1>3, <1>4, <1>5 DEF Agr

\* The command to connect is sent when there is no link and nothing is coming.
LEMMA ConnectSendAgrees ==
  ASSUME NEW k \in Links, Inv(k), Agr(k), Calm, Side,
         ConnectSend
  PROVE  Agr(k)'
<1>1. k = "idle" /\ fw.link = "idle" /\ AllOk(evq)
  <2>1. k = "idle"
    BY DEF Inv, UserInv, Agr, ConnInv, CallInv, ConnectSend, Links, Removing
  <2>2. NoCfm(evq) /\ evq \in Seq(Msgs) /\ Explains(user, evq, k, fw.link)
    BY DEF Inv, Typed, CmdInv, Waits, ConnectSend
  <2> QED
    BY <2>1, <2>2, NothingComes DEF NoCfm, AllOk
<1>2. ConnInv(k)'
  BY <1>1 DEF Agr, ConnInv, Trying, ConnectSend
<1>3. CallInv(k)'
  BY <1>1 DEF Agr, ConnInv, CallInv, IndPcs, ConnPcs, DiscPcs, ConnectSend
<1>4. CarrierInv(k)'
  BY <1>1 DEF Inv, UserInv, Agr, CarrierInv, LastEvent, ConnectSend
<1>5. StopInv'
  BY <1>1 DEF Agr, StopInv, Stops, Side, ConnectSend
<1> QED
  BY <1>2, <1>3, <1>4, <1>5 DEF Agr

\* rwnx_cfg80211_disconnect finds the state as the known link has made it ...
LEMMA DisconnectTestAgrees ==
  ASSUME NEW k \in Links, Inv(k), Agr(k), Calm, Side,
         DisconnectTest
  PROVE  Agr(k)'
<1>1. UNCHANGED <<evq, fw, rx, vif, kev, cmd>> /\ user = "disc" /\ kern'.bss = kern.bss
      /\ kern'.run = kern.run
  BY DEF Inv, Typed, KernType, DisconnectTest, Disconnected
<1>2. user' = "disc_set" => vif.conn # "disconnected" /\ rx.pc = "idle"
  BY DEF Inv, CmdInv, Calm, UserRuns, DisconnectTest, Disconnected
<1>3. user' \in {"disc_set", "idle", "close"}
  BY DEF Inv, CmdInv, DisconnectTest, Disconnected
<1>4. ConnInv(k)'
  BY <1>1, <1>3 DEF Agr, ConnInv, Trying
<1>5. CallInv(k)'
  BY <1>1, <1>2, <1>3 DEF Agr, CallInv, Trying, Closing, Removing
<1>6. CarrierInv(k)'
  BY <1>1 DEF Agr, CarrierInv, LastEvent, Side
<1>7. StopInv'
  BY DEF Inv, CmdInv, UserInv, Agr, StopInv, Side, DisconnectTest, Disconnected
<1> QED
  BY <1>4, <1>5, <1>6, <1>7 DEF Agr

\* ... notes that it disconnects ...
LEMMA DisconnectSendAgrees ==
  ASSUME NEW k \in Links, Inv(k), Agr(k), Calm, Side,
         DisconnectSend
  PROVE  Agr(k)'
<1>1. ConnInv(k)'
  BY DEF Agr, CallInv, ConnInv, Trying, DisconnectSend
<1>2. CallInv(k)'
  BY DEF Agr, CallInv, ConnInv, Trying, DiscPcs, Closing, DisconnectSend
<1>3. CarrierInv(k)'
  BY DEF Inv, UserInv, Agr, CarrierInv, LastEvent, DisconnectSend
<1>4. StopInv'
  BY DEF Agr, StopInv, Stops, Side, DisconnectSend
<1> QED
  BY <1>1, <1>2, <1>3, <1>4 DEF Agr

\* ... and returns.
LEMMA DisconnectDoneAgrees ==
  ASSUME NEW k \in Links, Inv(k), Agr(k), Calm, Side,
         DisconnectDone
  PROVE  Agr(k)'
<1>1. ConnInv(k)'
  BY DEF Agr, ConnInv, Trying, DisconnectDone, Answered
<1>2. CallInv(k)'
  BY DEF Inv, CmdInv, Agr, CallInv, Trying, Closing, Removing, DisconnectDone,
         Disconnected
<1>3. CarrierInv(k)'
  BY DEF Inv, UserInv, Agr, CarrierInv, LastEvent, DisconnectDone, Disconnected
<1>4. StopInv'
  BY DEF Inv, CmdInv, UserInv, Agr, StopInv, Side, DisconnectDone, Disconnected
<1> QED
  BY <1>1, <1>2, <1>3, <1>4 DEF Agr

\* rwnx_open returns.
LEMMA OpenedAgrees ==
  ASSUME NEW k \in Links, Inv(k), Agr(k), Calm, Side,
         Opened
  PROVE  Agr(k)'
<1>1. ConnInv(k)'
  BY DEF Agr, ConnInv, Trying, Opened, Answered
<1>2. CallInv(k)'
  BY DEF Inv, KnownInv, Agr, CallInv, Trying, Opened, Answered
<1>3. CarrierInv(k)'
  BY DEF Inv, UserInv, Agr, CarrierInv, LastEvent, Opened
<1>4. StopInv'
  BY DEF Agr, StopInv, Stops, Side, Opened
<1> QED
  BY <1>1, <1>2, <1>3, <1>4 DEF Agr

\* rwnx_close goes on when the connection is settled ...
LEMMA CloseScanAgrees ==
  ASSUME NEW k \in Links, Inv(k), Agr(k), Calm, Side,
         CloseScan
  PROVE  Agr(k)'
<1>1. vif.conn \notin {"connecting", "disconnecting"}
  <2>1. ASSUME Silent PROVE vif.conn \notin {"connecting", "disconnecting"}
    <3>1. k = fw.link
      BY <2>1, EmptyExplains DEF Inv, Silent
    <3> QED
      BY <2>1, <3>1 DEF Silent, Requests, Agr, ConnInv, Trying, DiscPcs
  <2> QED
    BY <2>1 DEF Unsettled, Calm, CloseScan
<1>2. ConnInv(k)'
  BY <1>1 DEF Agr, CallInv, ConnInv, CloseScan
<1>3. CallInv(k)'
  BY <1>1 DEF Inv, Typed, VifType, Agr, CallInv, ConnInv, Trying, Closing, Removing,
        CloseScan
<1>4. CarrierInv(k)'
  BY <1>1 DEF Inv, UserInv, Agr, CarrierInv, LastEvent, CloseScan
<1>5. StopInv'
  BY <1>1 DEF Agr, StopInv, Stops, Side, CloseScan
<1> QED
  BY <1>2, <1>3, <1>4, <1>5 DEF Agr

\* ... takes the carrier down and tells cfg80211 ...
LEMMA CloseRocAgrees ==
  ASSUME NEW k \in Links, Inv(k), Agr(k), Calm, Side,
         CloseRoc
  PROVE  Agr(k)'
<1>1. ConnInv(k)'
  BY DEF Agr, CallInv, ConnInv, CloseRoc, Lowered
<1>2. CallInv(k)'
  <2>1. /\ user \in {"close_roc", "close_cfm"} /\ rx.pc = "idle"
        /\ UNCHANGED <<evq, fw, rx, kern>> /\ user' \in {"close_disc", "close_rem"}
        /\ vif.conn \in {"connected", "disconnected"} /\ vif.type \in {"sta", "ap"}
    BY DEF Inv, Typed, VifType, Agr, CallInv, Calm, UserRuns, CloseRoc
  <2>2. IF vif.conn = "connected" /\ vif.type = "sta"
        THEN vif'.conn = "disconnecting" /\ user' = "close_disc"
        ELSE vif'.conn = vif.conn /\ user' = "close_rem"
    BY DEF Inv, Typed, VifType, CloseRoc, Lowered
  <2>3. k # "joining" /\ (vif.type = "ap" => vif.conn # "connected")
    BY <2>1 DEF Inv, KnownInv, Agr, ConnInv, CarrierInv, Trying, DiscPcs
  <2> QED
    BY <2>1, <2>2, <2>3 DEF Agr, CallInv, Trying, Closing, Removing, ConnPcs
<1>3. CarrierInv(k)'
  <2>1. vif'.carrier = FALSE /\ vif'.conn # "connected" /\ vif'.type = vif.type /\ rx.pc = "idle"
        /\ kern' = kern /\ rx' = rx /\ ap' = ap
    BY DEF Inv, Typed, VifType, KnownInv, Agr, ConnInv, Trying, Calm, UserRuns,
           Side, ConnPcs, CloseRoc, Lowered
  <2>2. kev' \in Seq({"connected", "failed", "lost"}) /\ ~LastEvent'
    <3>1. CASE vif.carrier
      BY <3>1 DEF Agr, CarrierInv, LastEvent, CloseRoc
    <3>2. CASE ~vif.carrier
      BY <2>1, <3>2 DEF Inv, Typed, VifType, Agr, CarrierInv, LastEvent, CloseRoc
    <3> QED
      BY <3>1, <3>2
  <2> QED
    BY <2>1, <2>2 DEF CarrierInv
<1>4. StopInv'
  BY DEF Agr, StopInv, Stops, Side, CloseRoc
<1> QED
  BY <1>1, <1>2, <1>3, <1>4 DEF Agr

\* ... removes the interface when the disconnection has come ...
LEMMA CloseRemoveAgrees ==
  ASSUME NEW k \in Links, Inv(k), Agr(k), Calm, Side,
         CloseRemove
  PROVE  Agr(k)'
<1>1. vif.conn # "disconnecting"
  <2>1. ASSUME Silent PROVE vif.conn # "disconnecting"
    <3>1. k = fw.link
      BY <2>1, EmptyExplains DEF Inv, Silent
    <3> QED
      BY <2>1, <3>1 DEF Silent, Requests, Agr, ConnInv, CallInv, DiscPcs
  <2> QED
    BY <2>1 DEF Calm, CloseRemove
<1>2. ConnInv(k)'
  BY <1>1 DEF Agr, CallInv, ConnInv, CloseRemove
<1>3. CallInv(k)'
  BY <1>1 DEF Agr, CallInv, Trying, Closing, Removing, CloseRemove
<1>4. CarrierInv(k)'
  BY <1>1 DEF Inv, UserInv, Agr, CarrierInv, LastEvent, CloseRemove
<1>5. StopInv'
  BY <1>1 DEF Agr, StopInv, Stops, Side, CloseRemove
<1> QED
  BY <1>2, <1>3, <1>4, <1>5 DEF Agr

\* ... gives its channel back ...
LEMMA CloseUnlinkAgrees ==
  ASSUME NEW k \in Links, Inv(k), Agr(k), Calm, Side,
         CloseUnlink
  PROVE  Agr(k)'
<1>1. ConnInv(k)'
  BY DEF Inv, KnownInv, Agr, CallInv, ConnInv, CloseUnlink
<1>2. CallInv(k)'
  BY DEF Agr, CallInv, Trying, Closing, Removing, CloseUnlink
<1>3. CarrierInv(k)'
  BY DEF Inv, UserInv, Agr, CarrierInv, LastEvent, CloseUnlink
<1>4. StopInv'
  BY DEF Agr, StopInv, Stops, Side, CloseUnlink
<1> QED
  BY <1>1, <1>2, <1>3, <1>4 DEF Agr

\* ... and is done.
LEMMA ClosedAgrees ==
  ASSUME NEW k \in Links, Inv(k), Agr(k), Calm, Side,
         Closed
  PROVE  Agr(k)'
<1>1. ConnInv(k)'
  BY DEF Agr, CallInv, ConnInv, Closed
<1>2. CallInv(k)'
  BY DEF Inv, KnownInv, CallInv, Trying, Closed
<1>3. CarrierInv(k)'
  BY DEF Inv, UserInv, Agr, CarrierInv, LastEvent, Closed
<1>4. StopInv'
  BY DEF Agr, StopInv, Stops, Side, Closed
<1> QED
  BY <1>1, <1>2, <1>3, <1>4 DEF Agr

\* Calls that find their answer and change nothing of the connection.
LEMMA AnsweredAgrees ==
  ASSUME NEW k \in Links, Inv(k), Agr(k), Calm, Side,
         \/ ConnectDone
         \/ RemainDone
         \/ Waited
         \/ ChangeScan
  PROVE  Agr(k)'
<1>1. ConnInv(k)'
  BY DEF Agr, ConnInv, Trying, ConnectDone, RemainDone, Waited, ChangeScan, Answered
<1>2. CallInv(k)'
  BY DEF Agr, CallInv, Trying, Closing, Removing, ConnectDone, RemainDone,
         Waited, ChangeScan, Answered
<1>3. CarrierInv(k)'
  <2>1. UNCHANGED <<vif, rx, kev, ap>> /\ kern'.bss = kern.bss
    BY DEF Inv, Typed, KernType, Side, ConnectDone, RemainDone, Waited, ChangeScan
  <2> QED
    BY <2>1 DEF Agr, CarrierInv, LastEvent
<1>4. StopInv'
  BY DEF Agr, StopInv, Stops, Side, ConnectDone, RemainDone, Waited, ChangeScan
<1> QED
  BY <1>1, <1>2, <1>3, <1>4 DEF Agr

\* change_iface removes the interface ...
LEMMA ChangeRemovedAgrees ==
  ASSUME NEW k \in Links, Inv(k), Agr(k), Calm, Side,
         ChangeRemoved
  PROVE  Agr(k)'
<1>1. ConnInv(k)'
  BY DEF Inv, KnownInv, Agr, CallInv, ConnInv, ChangeRemoved, Answered
<1>2. CallInv(k)'
  BY DEF Inv, CmdInv, KnownInv, CallInv, Trying, Removing, ChangeRemoved, Answered
<1>3. CarrierInv(k)'
  BY DEF Inv, UserInv, Agr, CarrierInv, LastEvent, ChangeRemoved
<1>4. StopInv'
  BY DEF Agr, StopInv, Stops, Side, ChangeRemoved
<1> QED
  BY <1>1, <1>2, <1>3, <1>4 DEF Agr

\* ... adds it again ...
LEMMA ChangedAgrees ==
  ASSUME NEW k \in Links, Inv(k), Agr(k), Calm, Side,
         Changed
  PROVE  Agr(k)'
<1>1. ConnInv(k)'
  BY DEF Agr, ConnInv, Trying, Changed, Answered
<1>2. CallInv(k)'
  BY DEF Inv, KnownInv, Agr, CallInv, Trying, Changed, Answered
<1>3. CarrierInv(k)'
  BY DEF Inv, UserInv, Agr, CarrierInv, LastEvent, Changed
<1>4. StopInv'
  BY DEF Agr, StopInv, Stops, Side, Changed
<1> QED
  BY <1>1, <1>2, <1>3, <1>4 DEF Agr

\* ... of another type, which it does only to an interface at rest.
LEMMA ChangeAgrees ==
  ASSUME NEW k \in Links, Inv(k), Agr(k), Calm, Side,
         Change
  PROVE  Agr(k)'
<1>1. user = "idle" /\ Bare /\ kev = <<>> /\ k \in {"none", "idle"} /\ vif.ch = None
      /\ evq = <<>> /\ rx.pc = "idle" /\ vif.conn = "disconnected" /\ kern.bss = FALSE
  <2>1. user = "idle" /\ Bare /\ kev = <<>> /\ kern.bss = FALSE
    BY DEF Inv, CmdInv, Waits, Asks, Calm, Change, Call, Bare
  <2>2. k = fw.link /\ rx.pc = "idle" /\ vif.conn = "disconnected" /\ evq = <<>>
    BY <2>1, EmptyExplains DEF Inv, Bare, Silent
  <2>3. k \in {"none", "idle"}
    BY <2>1, <2>2 DEF Agr, ConnInv, Bare, Silent
  <2>4. vif.type = "ap" => ~ap.beacon
    BY <2>1 DEF Inv, Typed, VifType, UserInv, Change, Side
  <2> QED
    BY <2>1, <2>2, <2>3, <2>4 DEF Inv, Typed, VifType, ChanInv, Agr, ConnInv
<1>2. ConnInv(k)'
  BY <1>1 DEF Inv, Typed, VifType, Agr, ConnInv, Change
<1>3. CallInv(k)'
  BY <1>1 DEF Agr, CallInv, Trying, ConnPcs, Removing, Change
<1>4. CarrierInv(k)'
  <2>1. vif'.carrier = vif.carrier /\ vif'.type \in {"sta", "ap"} /\ kev' = kev /\ kern' = kern
        /\ rx' = rx /\ vif'.conn = vif.conn
    BY DEF Change
  <2>2. ~vif.carrier
    BY <1>1 DEF Inv, Typed, VifType, Agr, CarrierInv, UserInv, Side, Change
  <2> QED
    BY <1>1, <2>1, <2>2 DEF Agr, CarrierInv, LastEvent
<1>5. StopInv'
  BY <1>1 DEF Agr, StopInv, Side, Change
<1> QED
  BY <1>2, <1>3, <1>4, <1>5 DEF Agr

\* cfg80211's work takes the oldest event: the last one is what counts.
LEMMA KernEventAgrees ==
  ASSUME NEW k \in Links, Inv(k), Agr(k), Calm, Side,
         KernEvent
  PROVE  Agr(k)'
<1>1. ConnInv(k)'
  BY DEF Agr, ConnInv, Trying, KernEvent
<1>2. CallInv(k)'
  BY DEF Agr, CallInv, Trying, KernEvent
<1>3. CarrierInv(k)'
  <2>1. kev \in Seq({"connected", "failed", "lost"}) /\ kev # <<>> /\ kern \in KernType
    BY DEF Inv, Typed, Agr, CarrierInv, KernEvent
  <2>2. kev' = Tail(kev) /\ Len(kev') = Len(kev) - 1 /\ Head(kev) = kev[1] /\ Len(kev) \in Nat
        /\ kev' \in Seq({"connected", "failed", "lost"})
        /\ Head(kev) \in {"connected", "failed", "lost"}
    BY <2>1 DEF KernEvent
  <2>3. LastEvent' <=> LastEvent
    <3>1. CASE kev' = <<>>
      <4>0. Len(kev) = 1
        <5>1. Len(kev') = 0
          BY <3>1
        <5> QED
          BY <2>1, <2>2, <5>1
      <4>1. LastEvent <=> Head(kev) = "connected"
        BY <2>1, <2>2, <4>0 DEF LastEvent
      <4>2. kern'.bss = TRUE <=> (Head(kev) = "connected")
        BY <2>1, <2>2 DEF KernEvent, KernType
      <4> QED
        BY <3>1, <4>1, <4>2 DEF LastEvent
    <3>2. CASE kev' # <<>>
      <4>1. kev'[Len(kev')] = kev[Len(kev)]
        BY <2>1, <2>2, <3>2
      <4> QED
        BY <2>1, <3>2, <4>1 DEF LastEvent
    <3> QED
      BY <3>1, <3>2
  <2>4. UNCHANGED <<vif, rx, ap>>
    BY DEF KernEvent, Side
  <2> QED
    BY <2>2, <2>3, <2>4 DEF Agr, CarrierInv
<1>4. StopInv'
  BY DEF Agr, StopInv, Side, KernEvent
<1> QED
  BY <1>1, <1>2, <1>3, <1>4 DEF Agr

\* The busrx thread confirms the command.
LEMMA ConfirmAgrees ==
  ASSUME NEW k \in Links, Inv(k), Agr(k), Calm, Side,
         Confirm
  PROVE  Agr(k)'
<1>1. ConnInv(k)'
  BY DEF Inv, CmdInv, Agr, ConnInv, Trying, IndPcs, ConnPcs, DiscPcs, Confirm,
         Return
<1>2. CallInv(k)'
  BY DEF Agr, CallInv, Trying, ConnPcs, Confirm, Return
<1>3. CarrierInv(k)'
  <2>1. UNCHANGED <<vif, kern, kev, ap>> /\ rx.pc \notin IndPcs /\ rx'.pc = "idle"
    BY DEF Side, IndPcs, ConnPcs, DiscPcs, Confirm, Return
  <2> QED
    BY <2>1 DEF Agr, CarrierInv, LastEvent, IndPcs, ConnPcs, DiscPcs
<1>4. StopInv'
  BY DEF Agr, StopInv, Side, Confirm
<1> QED
  BY <1>1, <1>2, <1>3, <1>4 DEF Agr

\* Messages that are not about the connection.
LEMMA OtherMessagesAgree ==
  ASSUME NEW k \in Links, Inv(k), Agr(k), Calm, Side,
         \/ ScanDone
         \/ RemainExpired
         \/ LossInd
         \/ LossConfirm
  PROVE  Agr(k)'
<1>1. /\ UNCHANGED <<env, user, cmd, evq, fw, vif, kern, kev, ap>>
      /\ rx.pc \notin IndPcs \cup {"cfm"} /\ rx'.pc = "idle"
  BY DEF Side, IndPcs, ConnPcs, DiscPcs, Return, ScanDone, RemainExpired,
         LossInd, LossConfirm
<1>2. ConnInv(k)'
  BY <1>1 DEF Agr, ConnInv, Trying, IndPcs, ConnPcs, DiscPcs
<1>3. CallInv(k)'
  BY <1>1 DEF Agr, CallInv, Trying, IndPcs, ConnPcs, DiscPcs
<1>4. CarrierInv(k)'
  BY <1>1 DEF Agr, CarrierInv, LastEvent, IndPcs, ConnPcs, DiscPcs
<1>5. StopInv'
  BY <1>1 DEF Agr, StopInv
<1> QED
  BY <1>2, <1>3, <1>4, <1>5 DEF Agr

\* rwnx_rx_sm_connect_ind notes the channel and the station, or that there is
\* no connection ...
LEMMA ConnectIndAgrees ==
  ASSUME NEW k \in Links, Inv(k), Agr(k), Calm, Side,
         ConnectInd
  PROVE  Agr(k)'
<1>1. /\ rx.pc = "conn" /\ rx'.pc = "conn_test" /\ rx'.m = rx.m /\ vif.type = "sta"
      /\ UNCHANGED <<user, cmd, evq, fw, kern, kev, ap>>
      /\ vif'.type = "sta" /\ vif'.roam = vif.roam /\ vif'.carrier = vif.carrier
      /\ vif'.up = vif.up
      /\ \/ rx.m.st = "ok" /\ k = "up" /\ vif'.conn = vif.conn /\ vif'.ap = TRUE
            /\ vif'.ch # None
         \/ rx.m.st # "ok" /\ k = "idle" /\ vif'.conn = "disconnected"
            /\ vif'.ap = vif.ap /\ vif'.ch = vif.ch
  <2>1. vif.table = TRUE /\ vif.type = "sta"
    BY IndicationFindsIface DEF ConnectInd, ConnPcs, DiscPcs
  <2>2. /\ rx.m.st = "ok" => rx.m.ch # None /\ k = "up"
        /\ rx.m.st # "ok" => k = "idle"
    BY IfaceAssumption DEF Inv, KnownInv, ConnPcs, ConnMsgs, ConnectInd
  <2>3. rx' = [rx EXCEPT !.pc = "conn_test"] /\ rx \in RxType
    BY DEF Inv, Typed, ConnectInd
  <2>4. rx'.pc = "conn_test" /\ rx'.m = rx.m
    BY <2>3 DEF RxType
  <2>5. rx.pc = "conn" /\ UNCHANGED <<user, cmd, evq, fw, kern, kev, ap>>
    BY DEF ConnectInd, Side
  <2>6. CASE rx.m.st = "ok"
    BY <2>1, <2>2, <2>4, <2>5, <2>6 DEF Inv, Typed, VifType, ConnectInd
  <2>7. CASE rx.m.st # "ok"
    BY <2>1, <2>2, <2>4, <2>5, <2>7 DEF Inv, Typed, VifType, ConnectInd
  <2> QED
    BY <2>6, <2>7
<1>2. ConnInv(k)'
  BY <1>1 DEF Agr, ConnInv, Trying, IndPcs, ConnPcs, DiscPcs
<1>3. CallInv(k)'
  <2>1. user \notin {"conn_set", "disc_set"} \cup Closing
    BY <1>1 DEF Agr, CallInv, ConnPcs
  <2> QED
    BY <1>1, <2>1 DEF Agr, CallInv, Trying, IndPcs, ConnPcs
<1>4. CarrierInv(k)'
  BY <1>1 DEF Agr, CarrierInv, LastEvent
<1>5. StopInv'
  BY <1>1 DEF Agr, StopInv
<1> QED
  BY <1>2, <1>3, <1>4, <1>5 DEF Agr

\* ... returns early while a disconnection is under way ...
LEMMA ConnectIndTestAgrees ==
  ASSUME NEW k \in Links, Inv(k), Agr(k), Calm, Side,
         ConnectIndTest
  PROVE  Agr(k)'
<1>1. /\ rx.pc = "conn_test"
      /\ UNCHANGED <<user, cmd, evq, fw, kern, kev, ap>>
      /\ vif'.type = vif.type /\ vif'.carrier = vif.carrier /\ vif'.up = vif.up
      /\ vif'.conn = vif.conn /\ vif'.ap = vif.ap /\ vif'.ch = vif.ch
      /\ vif.roam = FALSE => vif'.roam = FALSE
      /\ \/ rx'.pc = "idle" /\ vif.conn = "disconnecting"
         \/ rx'.pc = "conn_tell" /\ rx'.m = rx.m
  BY DEF Inv, Typed, VifType, RxType, Side, ConnectIndTest, Return
<1>2. ConnInv(k)'
  BY <1>1 DEF Agr, CallInv, ConnInv, IndPcs, ConnPcs, DiscPcs
<1>3. CallInv(k)'
  BY <1>1 DEF Agr, CallInv, Trying, IndPcs, ConnPcs
<1>4. CarrierInv(k)'
  BY <1>1 DEF Agr, CarrierInv, LastEvent
<1>5. StopInv'
  BY <1>1 DEF Agr, StopInv
<1> QED
  BY <1>2, <1>3, <1>4, <1>5 DEF Agr

\* ... sets the state and the carrier ...
LEMMA ConnectIndTellAgrees ==
  ASSUME NEW k \in Links, Inv(k), Agr(k), Calm, Side,
         ConnectIndTell
  PROVE  Agr(k)'
<1>1. vif.table = TRUE /\ vif.type = "sta"
  BY IndicationFindsIface DEF ConnectIndTell, ConnPcs, DiscPcs
<1>2. ConnInv(k)'
  BY <1>1 DEF Inv, KnownInv, Agr, ConnInv, IndPcs, ConnPcs, ConnectIndTell
<1>3. CallInv(k)'
  BY <1>1 DEF Agr, CallInv, Trying, IndPcs, ConnPcs, Closing, ConnectIndTell
<1>4. CarrierInv(k)'
  BY <1>1 DEF Inv, KnownInv, Agr, ConnInv, CarrierInv, LastEvent, IndPcs, ConnPcs,
        ConnectIndTell
<1>5. StopInv'
  BY <1>1 DEF Agr, StopInv, Side, ConnectIndTell
<1> QED
  BY <1>2, <1>3, <1>4, <1>5 DEF Agr

\* ... and tells cfg80211.
LEMMA ConnectIndEndAgrees ==
  ASSUME NEW k \in Links, Inv(k), Agr(k), Calm, Side,
         ConnectIndEnd
  PROVE  Agr(k)'
<1>1. vif.table = TRUE /\ vif.type = "sta"
  BY IndicationFindsIface DEF ConnectIndEnd, ConnPcs, DiscPcs
<1>2. ConnInv(k)'
  BY <1>1 DEF Agr, CallInv, ConnInv, IndPcs, ConnPcs, DiscPcs, ConnectIndEnd, Return
<1>3. CallInv(k)'
  BY <1>1 DEF Agr, CallInv, Trying, IndPcs, ConnPcs, ConnectIndEnd, Return
<1>4. CarrierInv(k)'
  <2>1. /\ rx.pc = "conn_end" /\ rx.m \in ConnMsgs /\ rx'.pc = "idle"
        /\ k = (IF rx.m.st = "ok" THEN "up" ELSE "idle") /\ user \notin Closing
    BY DEF Inv, KnownInv, Agr, CallInv, ConnPcs, ConnectIndEnd, Return
  <2>2. /\ UNCHANGED <<kern, kev>> /\ vif'.type = "sta" /\ vif'.up = vif.up
        /\ vif'.carrier = (vif.carrier \/ rx.m.st = "ok") /\ vif'.conn = vif.conn
    BY <1>1 DEF Inv, Typed, VifType, ConnectIndEnd
  <2>3. vif.up \in BOOLEAN /\ (rx.m.st = "ok" => vif.up)
    BY <1>1, <2>1 DEF Inv, Typed, VifType, KnownInv, UserInv, Closing
  <2>4. vif.conn = "connected" => k = "up"
    BY <2>1 DEF Agr, CallInv, ConnInv, Trying, DiscPcs
  <2> QED
    BY <1>1, <2>1, <2>2, <2>3, <2>4 DEF Agr, CarrierInv, LastEvent
<1>5. StopInv'
  BY <1>1 DEF Inv, UserInv, Agr, StopInv, Side, ConnectIndEnd
<1> QED
  BY <1>2, <1>3, <1>4, <1>5 DEF Agr

\* rwnx_rx_sm_disconnect_ind takes the carrier down and tells cfg80211 ...
LEMMA DisconnectIndAgrees ==
  ASSUME NEW k \in Links, Inv(k), Agr(k), Calm, Side,
         DisconnectInd
  PROVE  Agr(k)'
<1>1. vif.table = TRUE /\ vif.type = "sta"
  BY IndicationFindsIface DEF DisconnectInd, ConnPcs, DiscPcs
<1>2. ConnInv(k)'
  <2>1. rx.pc = "disc" /\ rx.m.re = FALSE /\ k = "idle" /\ vif.conn # "disconnected"
    BY DEF Inv, KnownInv, Agr, ConnInv, IndPcs, DiscPcs, DisconnectInd
  <2>2. /\ UNCHANGED <<user, cmd, fw>> /\ rx'.pc = "disc_ap" /\ rx'.m = rx.m
        /\ vif'.type = vif.type /\ vif'.ap = vif.ap /\ vif'.ch = vif.ch
        /\ vif'.conn = vif.conn /\ vif'.roam = vif.roam
    BY <1>1, <2>1 DEF Inv, Typed, VifType, RxType, DisconnectInd
  <2> QED
    BY <2>1, <2>2 DEF Agr, ConnInv, IndPcs, ConnPcs, DiscPcs
<1>3. CallInv(k)'
  BY <1>1 DEF Inv, Typed, VifType, RxType, Agr, CallInv, Trying, IndPcs, ConnPcs,
        DiscPcs, DisconnectInd, Return
<1>4. CarrierInv(k)'
  <2>1. /\ vif.conn # "disconnected" /\ rx.pc = "disc" /\ vif.up \in BOOLEAN
        /\ kern' = kern /\ rx.m.re = FALSE /\ k # "up"
    BY DEF Inv, Typed, VifType, KnownInv, Agr, ConnInv, DiscPcs, DisconnectInd
  <2>2. vif'.carrier = (vif.carrier /\ ~vif.up) /\ vif'.type = "sta" /\ rx'.pc = "disc_ap"
    BY <1>1, <2>1 DEF Inv, Typed, VifType, RxType, DisconnectInd
  <2>3. kev' = IF vif.up THEN Append(kev, "lost") ELSE kev
    BY <1>1, <2>1 DEF DisconnectInd, Told
  <2>4. ~vif'.carrier
    BY <1>1, <2>1, <2>2 DEF Agr, CarrierInv
  <2>5. kev' \in Seq({"connected", "failed", "lost"}) /\ ~LastEvent'
    <3>1. CASE vif.up
      BY <2>3, <3>1 DEF Agr, CarrierInv, LastEvent
    <3>2. CASE ~vif.up
      BY <1>1, <2>1, <2>3, <3>2 DEF Agr, CarrierInv, LastEvent
    <3> QED
      BY <3>1, <3>2
  <2> QED
    BY <2>2, <2>4, <2>5 DEF CarrierInv
<1>5. StopInv'
  BY <1>1 DEF Inv, UserInv, Agr, StopInv, Side, DisconnectInd
<1> QED
  BY <1>2, <1>3, <1>4, <1>5 DEF Agr

\* ... gives up the station and the channel ...
LEMMA DisconnectIndApAgrees ==
  ASSUME NEW k \in Links, Inv(k), Agr(k), Calm, Side,
         DisconnectIndAp
  PROVE  Agr(k)'
<1>1. vif.table = TRUE /\ vif.type = "sta"
  BY IndicationFindsIface DEF DisconnectIndAp, ConnPcs, DiscPcs
<1>2. vif.ap = TRUE /\ rx.pc = "disc_ap" /\ rx.m.re = FALSE /\ k = "idle"
  BY <1>1 DEF Inv, KnownInv, ChanInv, Agr, ConnInv, DiscPcs, IndPcs, DisconnectIndAp
<1>3. /\ UNCHANGED <<user, cmd, fw, evq, kev, kern>>
      /\ rx'.pc = "disc_end" /\ rx'.m = rx.m
      /\ vif'.type = "sta" /\ vif'.ap = FALSE /\ vif'.ch = None
      /\ vif'.conn = vif.conn /\ vif'.roam = vif.roam
      /\ vif'.carrier = vif.carrier /\ vif'.up = vif.up
  BY <1>1, <1>2 DEF Inv, Typed, VifType, RxType, DisconnectIndAp
<1>4. ConnInv(k)'
  BY <1>2, <1>3 DEF Agr, ConnInv, IndPcs, ConnPcs, DiscPcs
<1>5. CallInv(k)'
  BY <1>2, <1>3
    DEF Agr, CallInv, AllOk, Trying, IndPcs, ConnPcs, DiscPcs, Closing,
        Removing
<1>6. CarrierInv(k)'
  BY <1>1, <1>2, <1>3 DEF Agr, CarrierInv, LastEvent
<1>7. StopInv'
  BY <1>3 DEF Agr, StopInv, Stops, Side
<1> QED
  BY <1>4, <1>5, <1>6, <1>7 DEF Agr

\* ... and is disconnected.
LEMMA DisconnectIndEndAgrees ==
  ASSUME NEW k \in Links, Inv(k), Agr(k), Calm, Side,
         DisconnectIndEnd
  PROVE  Agr(k)'
<1>1. vif.table = TRUE /\ vif.type = "sta"
  BY IndicationFindsIface DEF DisconnectIndEnd, ConnPcs, DiscPcs
<1>2. ConnInv(k)'
  BY <1>1 DEF Inv, KnownInv, Agr, ConnInv, IndPcs, ConnPcs, DiscPcs,
        DisconnectIndEnd, Return, Gone
<1>3. CallInv(k)'
  BY <1>1 DEF Agr, CallInv, Trying, IndPcs, ConnPcs, DiscPcs, DisconnectIndEnd,
        Return, Gone
<1>4. CarrierInv(k)'
  BY <1>1 DEF Agr, ConnInv, CarrierInv, LastEvent, DisconnectIndEnd, Return, Gone
<1>5. StopInv'
  BY <1>1 DEF Agr, StopInv, Side, DisconnectIndEnd, Gone
<1> QED
  BY <1>2, <1>3, <1>4, <1>5 DEF Agr

\* The busrx thread takes a message: the known link changes, and what lags
\* behind it is what the indication now in progress will bring.
LEMMA TakeAgrees ==
  ASSUME NEW k \in Links, Inv(k), Agr(k), Calm, Side, Take
  PROVE  \E c \in Links : Inv(c)' /\ Agr(c)'
<1> DEFINE m == Head(evq)
<1>1. evq \in Seq(Msgs) /\ evq # <<>> /\ OneCfm(evq) /\ rx.pc = "idle"
  BY DEF Inv, Typed, CmdInv, Take
<1>2. PICK c \in Links : Leads(user, m, k, c) /\ Inv(c)'
  BY TakeLeads
<1>3. m \in Msgs /\ (NoCfm(evq) => m.type # "cfm")
  BY <1>1, TakenCfm
<1>4. evq' = Tail(evq) /\ rx' = [pc |-> m.type, m |-> m] /\ rx'.pc = m.type /\ rx'.m = m
  BY DEF Take
<1>5. UNCHANGED <<user, cmd, fw, vif, kern, kev, ap>>
  BY DEF Take, Side
<1>6. AllOk(evq) => AllOk(evq') /\ (m.type = "cfm" => m.st = "ok")
  BY <1>1, <1>4 DEF AllOk
<1> HIDE DEF m
<1>7. m.type = "cfm" => user \in Asks /\ cmd = "sent"
  BY <1>3 DEF Inv, CmdInv, Waits
<1>8. /\ m.type \in {"cfm", "conn", "disc", "loss", "scan", "roc_end", "loss_cfm"}
      /\ m.type = "conn" => m.re \in BOOLEAN
      /\ m.type = "disc" => m.re \in BOOLEAN
  BY <1>3 DEF Msgs, ConnMsgs, DiscMsgs
<1>9. user \notin {"conn_set", "disc_set"}
  BY DEF Calm, RxRuns, Running, Take
<1>14. StopInv'
  BY <1>5 DEF Agr, StopInv, Stops
<1>10. CASE m.type = "cfm"
  <2>1. CfmStep(user, m.st, k, c)
    BY <1>2, <1>10 DEF Leads
  <2>2. user = "conn_cfm" => m.st = "ok"
    BY <1>6, <1>10 DEF Agr, CallInv
  <2>0. /\ user \in {"close_rem", "change_rem"} => k # "up" /\ k # "joining" /\ vif.conn = "disconnected"
        /\ user = "conn_cfm" => c = "joining" /\ k = "idle" /\ vif.conn = "connecting" /\ ~vif.carrier
        /\ user \in {"open", "change_add"} => vif.conn = "disconnected" /\ k = "none" /\ c = "idle"
    BY <1>1, <1>7, <1>10, <2>1, <2>2
      DEF CfmStep, Inv, KnownInv, UserInv, Agr, ConnInv, CallInv, CarrierInv,
          Trying
  <2>3. ConnInv(c)'
    BY <1>1, <1>4, <1>5, <1>7, <1>10, <2>0, <2>1, <2>2
      DEF CfmStep, Agr, ConnInv, Trying, IndPcs, ConnPcs, DiscPcs
  <2>4. CallInv(c)'
    BY <1>1, <1>4, <1>5, <1>6, <1>7, <1>10, <2>0, <2>1, <2>2
      DEF CfmStep, Agr, CallInv, Trying, ConnPcs, Asks, Closing, Removing
  <2>5. CarrierInv(c)'
    BY <1>1, <1>4, <1>5, <1>10, <2>0, <2>1, <2>2
      DEF CfmStep, Agr, CarrierInv, LastEvent
  <2> QED
    BY <1>2, <1>14, <2>3, <2>4, <2>5 DEF Agr
<1>11. CASE m.type = "conn"
  <2>1. /\ k = "joining" /\ m.re = FALSE
        /\ c = IF m.st = "ok" THEN "up" ELSE "idle"
    BY <1>2, <1>8, <1>11 DEF Leads, Agr, ConnInv
  <2>2. ConnInv(c)'
    BY <1>1, <1>4, <1>5, <1>11, <2>1 DEF Agr, ConnInv
  <2>3. CallInv(c)'
    BY <1>1, <1>4, <1>5, <1>6, <1>9, <1>11, <2>1 DEF Agr, CallInv, Trying
  <2>4. CarrierInv(c)'
    BY <1>1, <1>4, <1>5, <1>11, <2>1 DEF Agr, CarrierInv, LastEvent
  <2> QED
    BY <1>2, <1>14, <2>2, <2>3, <2>4 DEF Agr
<1>12. CASE m.type = "disc"
  <2>1. k = "up" /\ m.re = FALSE /\ c = "idle"
    BY <1>2, <1>8, <1>12 DEF Leads, Agr, ConnInv
  <2>2. ConnInv(c)'
    BY <1>1, <1>4, <1>5, <1>12, <2>1 DEF Agr, ConnInv, DiscPcs
  <2>3. CallInv(c)'
    BY <1>1, <1>4, <1>5, <1>6, <1>9, <1>12, <2>1 DEF Agr, CallInv, Trying, ConnPcs
  <2>4. CarrierInv(c)'
    BY <1>1, <1>4, <1>5, <1>12, <2>1 DEF Agr, CarrierInv, LastEvent
  <2> QED
    BY <1>2, <1>14, <2>2, <2>3, <2>4 DEF Agr
<1>13. CASE m.type \notin {"cfm", "conn", "disc"}
  <2>1. c = k
    BY <1>2, <1>13 DEF Leads
  <2>2. m.type \notin IndPcs
    BY <1>8, <1>13 DEF IndPcs, ConnPcs, DiscPcs
  <2>3. ConnInv(c)'
    BY <1>1, <1>4, <1>5, <1>13, <2>1, <2>2 DEF Agr, ConnInv, Trying, DiscPcs
  <2>4. CallInv(c)'
    BY <1>1, <1>4, <1>5, <1>6, <1>9, <1>13, <2>1, <2>2
      DEF Agr, CallInv, Trying, IndPcs
  <2>5. CarrierInv(c)'
    BY <1>1, <1>4, <1>5, <1>13, <2>1, <2>2
      DEF Agr, CarrierInv, LastEvent, IndPcs, ConnPcs
  <2> QED
    BY <1>2, <1>14, <2>3, <2>4, <2>5 DEF Agr
<1> QED
  BY <1>10, <1>11, <1>12, <1>13
-----------------------------------------------------------------------------
(* The firmware.                                                           *)

\* It says something that confirms nothing: the known link stays.
LEMMA SaysAgrees ==
  ASSUME NEW k \in Links, Inv(k), Agr(k), Calm, Side,
         NEW m \in Msgs, m.type # "cfm",
         evq' = Append(evq, m),
         fw'.link \notin {"roaming", "rejoining"},
         \/ fw'.link = fw.link /\ fw'.leave = fw.leave
         \/ fw.link # "idle" /\ (fw'.leave = fw.leave \/ fw'.link = "idle"),
         UNCHANGED <<user, cmd, rx, vif, kern, kev>>
  PROVE  Agr(k)'
<1>1. AllOk(evq) => AllOk(evq')
  BY DEF Inv, Typed, AllOk
<1>2. ConnInv(k)'
  BY DEF Agr, ConnInv, Trying
<1>3. CallInv(k)'
  BY <1>1 DEF Agr, CallInv, Trying
<1>4. CarrierInv(k)' /\ StopInv'
  BY DEF Agr, CarrierInv, LastEvent, StopInv, Side
<1> QED
  BY <1>2, <1>3, <1>4 DEF Agr

\* It answers a command.
LEMMA AnswerAgrees ==
  ASSUME NEW k \in Links, Inv(k), Agr(k), Calm, Side,
         NEW st \in {"ok", "refused"}, cmd \notin {"sent", "ok", "refused"}, user \in Asks,
         user = "conn_cfm" => st = "ok" /\ cmd = "connect",
         evq' = Append(evq, Cfm(st)), cmd' = "sent",
         fw'.link \notin {"roaming", "rejoining"},
         vif.conn = "disconnecting" => fw'.leave \/ fw'.link = "idle",
         UNCHANGED <<user, rx, vif, kern, kev>>
  PROVE  Agr(k)'
<1>1. user = "conn_cfm" => AllOk(evq')
  <2>1. evq \in Seq(Msgs) /\ NoCfm(evq) /\ Cfm(st).st = st
    BY DEF Inv, Typed, CmdInv, Cfm
  <2> QED
    BY <2>1 DEF AllOk, NoCfm
<1>2. rx.pc # "cfm"
  BY DEF Inv, CmdInv
<1>3. ConnInv(k)'
  BY <1>2 DEF Agr, ConnInv, Trying
<1>4. CallInv(k)'
  BY <1>1, <1>2 DEF Agr, CallInv, Trying
<1>5. CarrierInv(k)' /\ StopInv'
  BY DEF Agr, CarrierInv, LastEvent, StopInv, Side
<1> QED
  BY <1>3, <1>4, <1>5 DEF Agr

\* It accepts one of StaIface: after a disconnection is asked for one is due,
\* or there is no link to lose.
LEMMA FwAcceptsAgrees ==
  ASSUME NEW k \in Links, Inv(k), Agr(k), Calm, Side, FwAccepts
  PROVE  Agr(k)'
<1>1. cmd \in Requests /\ cmd \notin {"sent", "ok", "refused", "none"}
  BY DEF FwAccepts, Requests
<1>2. user \in Asks /\ <<user, cmd>> \in Asked
  BY <1>1 DEF Inv, CmdInv
<1>3. fw \in FwType
  BY DEF Inv, Typed
<1>4. cmd = "connect" => fw.link = "idle"
  BY <1>2 DEF Agr, CallInv, Asked
<1>5. /\ cmd = "add_if" => fw'.link = "idle"
      /\ cmd = "remove_if" => fw'.link = "none"
      /\ cmd = "connect" => fw'.link = "joining"
      /\ cmd \notin {"add_if", "remove_if", "connect"} => fw'.link = fw.link
      /\ cmd = "disconnect" => fw'.leave \/ fw'.link = "idle"
      /\ cmd \notin {"remove_if", "disconnect"} => fw'.leave = fw.leave
  BY <1>1, <1>3, <1>4 DEF FwType, FwAccepts, Requests
<1>6. fw'.link \notin {"roaming", "rejoining"}
  BY <1>5 DEF Agr, ConnInv
<1>7. cmd = "remove_if" => vif.conn = "disconnected"
  <2>1. user \in {"close_rem", "change_rem"} => vif.conn = "disconnected"
    BY DEF Inv, KnownInv, Agr, ConnInv, CallInv, Trying, ConnPcs
  <2> QED
    BY <1>2, <2>1 DEF Asked
<1>8. cmd = "connect" => vif.conn = "connecting"
  BY <1>2 DEF Agr, CallInv, Trying, Asked
<1>9. vif.conn = "disconnecting" => fw'.leave \/ fw'.link = "idle"
  BY <1>5, <1>7, <1>8 DEF Agr, ConnInv
<1>10. user = "conn_cfm" => cmd = "connect"
  BY <1>2 DEF Asked
<1>11. evq' = Append(evq, Cfm("ok")) /\ cmd' = "sent" /\ UNCHANGED <<user, rx, vif, kern, kev>>
  BY DEF FwAccepts, Says
<1> QED
  BY <1>1, <1>2, <1>6, <1>9, <1>10, <1>11, AnswerAgrees

\* It refuses to stay on a channel; in calm surroundings nothing else.
LEMMA FwRefusesAgrees ==
  ASSUME NEW k \in Links, Inv(k), Agr(k), Calm, Side, FwRefuses
  PROVE  Agr(k)'
<1>1. cmd = "roc"
  <2>1. cmd = "connect" => user = "conn_cfm"
    BY DEF Inv, CmdInv, Asked
  <2> QED
    BY <2>1 DEF Agr, CallInv, Calm, FwRefuses
<1>2. user = "roc_cfm" /\ user \in Asks
  BY <1>1 DEF Inv, CmdInv, Asked
<1>3. evq' = Append(evq, Cfm("refused")) /\ cmd' = "sent" /\ UNCHANGED <<user, fw, rx, vif, kern, kev>>
  BY DEF FwRefuses, Says
<1>4. fw'.link \notin {"roaming", "rejoining"} /\ (vif.conn = "disconnecting" => fw'.leave \/ fw'.link = "idle")
  BY <1>1, <1>3 DEF Agr, ConnInv
<1> QED
  BY <1>1, <1>2, <1>3, <1>4, AnswerAgrees

\* It ends an attempt, a link, a scan or a stay.
LEMMA FwSpeaksAgrees ==
  ASSUME NEW k \in Links, Inv(k), Agr(k), Calm, Side,
         \/ FwFailed \/ FwLeaves \/ FwScanned \/ FwRemained
         \/ \E c \in Chans : FwConnected(c)
  PROVE  Agr(k)'
<1>1. fw \in FwType /\ fw.link \notin {"roaming", "rejoining"}
  BY DEF Inv, Typed, Agr, ConnInv
<1>2. PICK m \in Msgs : m.type # "cfm" /\ evq' = Append(evq, m)
  BY DEF FwFailed, FwLeaves, FwScanned, FwRemained, FwConnected, Fw, Says, Conn,
         Disc, Msgs, ConnMsgs, DiscMsgs
<1>3. UNCHANGED <<user, cmd, rx, vif, kern, kev>>
  BY DEF FwFailed, FwLeaves, FwScanned, FwRemained, FwConnected, Fw
<1>4. /\ fw'.link \notin {"roaming", "rejoining"}
      /\ \/ fw'.link = fw.link /\ fw'.leave = fw.leave
         \/ fw.link # "idle" /\ (fw'.leave = fw.leave \/ fw'.link = "idle")
  BY <1>1 DEF FwFailed, FwLeaves, FwScanned, FwRemained, FwConnected, Fw, FwType
<1> QED
  BY <1>2, <1>3, <1>4, SaysAgrees
-----------------------------------------------------------------------------
(* The access point.                                                       *)

\* What its calls leave alone ...
LEMMA ApCallsAgree ==
  ASSUME NEW k \in Links, Inv(k), Agr(k), Calm,
         \/ StartAp
         \/ StopSend
         \/ \E p \in Peers : AddStation(p)
         \/ StationAdded
         \/ StopDel
         \/ \E p \in Peers : DelStation(p)
         \/ DelSend
         \/ DelDone
         \/ \E p \in Peers : Probe(p)
  PROVE  Agr(k)'
<1>1. /\ UNCHANGED <<evq, fw, rx, vif, kern, kev>> /\ ap'.beacon = ap.beacon
      /\ user \in {"idle", "ap_start", "ap_stop", "ap_stop_cfm", "ap_add", "ap_reord", "ap_del"}
      /\ user' \in {"idle", "ap_start", "ap_stop", "ap_stop_cfm", "ap_add", "ap_reord", "ap_del"}
      /\ cmd # "disconnect"
  <2>1. UNCHANGED <<evq, fw, rx, vif, kern, kev>> /\ ap'.beacon = ap.beacon
    BY DEF Inv, Typed, ApType, StartAp, StopSend, AddStation, StationAdded,
           StopDel, DelStation, DelSend, DelDone, Probe, Unlist, apVars, vars
  <2>2. user \in {"idle", "ap_start", "ap_stop", "ap_stop_cfm", "ap_add", "ap_reord", "ap_del"}
    BY DEF StartAp, StopSend, AddStation, StationAdded, StopDel, DelStation,
           DelSend, DelDone, Probe, ApCall, Call
  <2>3. user' \in {"idle", "ap_start", "ap_stop", "ap_stop_cfm", "ap_add", "ap_reord", "ap_del"}
    BY <2>2 DEF StartAp, StopSend, AddStation, StationAdded, StopDel, DelStation,
          DelSend, DelDone, Probe, Unlist, vars
  <2>4. cmd # "disconnect"
    BY <2>2 DEF Inv, CmdInv, Asked
  <2> QED
    BY <2>1, <2>2, <2>3, <2>4
<1>2. ConnInv(k)'
  BY <1>1 DEF Agr, ConnInv, Trying
<1>3. CallInv(k)'
  BY <1>1 DEF Agr, CallInv, Trying, Closing, Removing
<1>4. CarrierInv(k)'
  BY <1>1 DEF Agr, CarrierInv, LastEvent
<1>5. StopInv'
  BY DEF Inv, Typed, ApType, Agr, StopInv, Stops, StartAp, StopSend, AddStation,
         StationAdded, StopDel, DelStation, DelSend, DelDone, Probe, Unlist,
         ApCall, Call, apVars, vars
<1> QED
  BY <1>2, <1>3, <1>4, <1>5 DEF Agr

\* ... and its carrier.
LEMMA ApChangesAgree ==
  ASSUME NEW k \in Links, Inv(k), Agr(k), Calm,
         \/ StopAp
         \/ ApStopped
         \/ \E c \in Chans : ApStarted(c)
  PROVE  Agr(k)'
<1>1. /\ user \in {"idle", "ap_stop_cfm", "ap_start"} /\ vif.type = "ap" /\ vif.ap = FALSE
      /\ k \in {"none", "idle"} /\ rx.pc \notin IndPcs /\ vif.conn = "disconnected"
      /\ cmd # "disconnect"
  <2>1. user \in {"idle", "ap_stop_cfm", "ap_start"} /\ vif.type = "ap"
    BY DEF Inv, UserInv, StopAp, ApStopped, ApStarted, ApCall, Call
  <2>2. k \in {"none", "idle"} /\ rx.pc \notin IndPcs
    BY <2>1 DEF Inv, KnownInv, IndPcs
  <2>3. vif.conn = "disconnected" /\ vif.ap = FALSE
    BY <2>1, <2>2 DEF Agr, ConnInv, Trying, IndPcs, ConnPcs, DiscPcs
  <2>4. cmd # "disconnect"
    BY <2>1 DEF Inv, CmdInv, Asked
  <2> QED
    BY <2>1, <2>2, <2>3, <2>4
<1>2. /\ UNCHANGED <<evq, fw, rx, kern, kev>> /\ user' \in {"idle", "ap_stop"}
      /\ vif'.type = vif.type /\ vif'.ap = vif.ap /\ vif'.conn = vif.conn
      /\ vif'.roam = vif.roam /\ (vif'.carrier => ap'.beacon)
  <2>1. /\ UNCHANGED <<evq, fw, rx, kern, kev>> /\ user' \in {"idle", "ap_stop"}
        /\ vif'.type = vif.type /\ vif'.ap = vif.ap /\ vif'.conn = vif.conn
        /\ vif'.roam = vif.roam
    BY DEF Inv, Typed, VifType, StopAp, ApStopped, ApStarted, ApCall, Call
  <2>2. CASE StopAp
    BY <2>2 DEF StopAp
  <2>3. CASE ApStopped
    BY <2>3 DEF Agr, StopInv, ApStopped
  <2>4. CASE \E c \in Chans : ApStarted(c)
    <3>1. CASE cmd = "ok"
      <4>1. ap' = [ap EXCEPT !.beacon = TRUE]
        BY <2>4, <3>1 DEF ApStarted
      <4> QED
        BY <2>1, <4>1 DEF Inv, Typed, ApType
    <3>2. CASE cmd # "ok"
      BY <1>1, <2>1, <2>4, <3>2 DEF Agr, CarrierInv, ApStarted
    <3> QED
      BY <3>1, <3>2
  <2> QED
    BY <2>1, <2>2, <2>3, <2>4
<1>3. ConnInv(k)'
  BY <1>1, <1>2 DEF Agr, ConnInv
<1>4. CallInv(k)'
  BY <1>1, <1>2 DEF Agr, CallInv, Trying, IndPcs, Removing
<1>5. CarrierInv(k)'
  BY <1>1, <1>2 DEF Agr, CarrierInv, LastEvent
<1>6. StopInv'
  BY <1>1 DEF Inv, Typed, VifType, ApType, UserInv, Agr, StopInv, Stops, StopAp,
        ApStopped, ApStarted, ApCall, Call
<1> QED
  BY <1>3, <1>4, <1>5, <1>6 DEF Agr

\* The firmware answers them ...
LEMMA ApAnswersAgree ==
  ASSUME NEW k \in Links, Inv(k), Agr(k), Calm, FwApAccepts \/ FwApRefuses
  PROVE  Agr(k)'
<1>1. cmd \in ApRequests
  BY DEF FwApAccepts, FwApRefuses, ApRequests
<1>2. user \in {"ap_start", "ap_stop_cfm", "ap_add", "ap_del"} /\ user \in Asks
      /\ cmd \notin {"sent", "ok", "refused", "disconnect"}
  BY <1>1 DEF Inv, CmdInv, Asked, ApRequests
<1>3. UNCHANGED <<user, fw, rx, vif, kern, kev, ap, list>> /\ cmd' = "sent"
  BY DEF FwApAccepts, FwApRefuses
<1>4. PICK st \in {"ok", "refused"} : evq' = Append(evq, Cfm(st))
  BY DEF FwApAccepts, FwApRefuses, Says
<1>5. (Typed)'
  BY FwApAnswersStep DEF Inv
<1>6. Side
  BY <1>2, <1>3, <1>5 DEF Typed, Side
<1>7. fw'.link \notin {"roaming", "rejoining"} /\ (vif.conn = "disconnecting" => fw'.leave \/ fw'.link = "idle")
  BY <1>2, <1>3 DEF Agr, ConnInv
<1> QED
  BY <1>2, <1>3, <1>4, <1>6, <1>7, AnswerAgrees

\* ... and loses stations.
LEMMA ApSpeaksAgree ==
  ASSUME NEW k \in Links, Inv(k), Agr(k), Calm,
         FwLossAccepts \/ \E i \in Ids : FwLoses(i)
  PROVE  Agr(k)'
<1>1. UNCHANGED <<user, cmd, fw, rx, vif, kern, kev, ap, list>>
  BY DEF FwLossAccepts, FwLoses
<1>2. (Typed)'
  BY FwApSpeaksStep DEF Inv
<1>3. Side
  BY <1>1, <1>2 DEF Inv, UserInv, Typed, Side
<1>4. PICK m \in Msgs : m.type \in {"loss", "loss_cfm"} /\ evq' = Append(evq, m)
  BY DEF Inv, Typed, FwLossAccepts, FwLoses, Says, Msgs
<1>5. fw'.link \notin {"roaming", "rejoining"}
  BY <1>1 DEF Agr, ConnInv
<1> QED
  BY <1>1, <1>3, <1>4, <1>5, SaysAgrees

\* The works touch nothing of it.
LEMMA SameAgrees ==
  ASSUME NEW k \in Links, Agr(k), UNCHANGED vars,
         ap'.beacon = ap.beacon /\ ap'.stopping = ap.stopping
  PROVE  Agr(k)'
<1>1. UNCHANGED <<user, cmd, evq, fw, rx, vif, kern, kev>>
  BY DEF vars
<1> QED
  BY <1>1 DEF Agr, ConnInv, CallInv, CarrierInv, StopInv, Trying, LastEvent
-----------------------------------------------------------------------------
(* All steps together.                                                     *)

\* The steps of StaIface.
LEMMA StationAgrees ==
  ASSUME NEW k \in Links, Inv(k), Agr(k), Calm, NoRetype, StaNext
  PROVE  \E c \in Links : Inv(c)' /\ Agr(c)'
<1>1. Side
  BY SideOf
<1>2. CASE Take
  BY <1>1, <1>2, TakeAgrees
<1>3. CASE ~Take
  <2>1. Inv(k)'
    BY <1>3, StationStep
  <2>2. Next
    BY DEF StaNext
  <2>3. CASE Begin
    BY <1>1, <2>3, OpenAgrees, ConnectAgrees, DisconnectAgrees, BeginAgrees,
       ChangeAgrees, <2>1
      DEF Begin
  <2>4. CASE Continue
    BY <1>1, <2>1, <2>4, OpenedAgrees, ConnectSendAgrees, DisconnectTestAgrees,
       DisconnectSendAgrees, DisconnectDoneAgrees, CloseScanAgrees,
       CloseRocAgrees, CloseRemoveAgrees, CloseUnlinkAgrees, ClosedAgrees,
       AnsweredAgrees, ChangeRemovedAgrees, ChangedAgrees
      DEF Continue
  <2>5. CASE Busrx
    BY <1>1, <1>3, <2>1, <2>5, ConfirmAgrees, ConnectIndAgrees,
       ConnectIndTestAgrees, ConnectIndTellAgrees, ConnectIndEndAgrees,
       DisconnectIndAgrees, DisconnectIndApAgrees, DisconnectIndEndAgrees,
       OtherMessagesAgree
      DEF Busrx
  <2>6. CASE Firmware
    BY <1>1, <2>1, <2>6, FwAcceptsAgrees, FwRefusesAgrees, FwSpeaksAgrees
      DEF Firmware
  <2>7. CASE KernEvent
    BY <1>1, <2>1, <2>7, KernEventAgrees
  <2> QED
    BY <2>2, <2>3, <2>4, <2>5, <2>6, <2>7 DEF Next
<1> QED
  BY <1>2, <1>3

\* All steps.
LEMMA InterfaceAgrees ==
  ASSUME NEW k \in Links, Inv(k), Agr(k), Calm, NoRetype, [ApNext]_allVars
  PROVE  \E c \in Links : Inv(c)' /\ Agr(c)'
<1>1. CASE StaNext
  BY <1>1, StationAgrees
<1>2. CASE ApBegin \/ ApContinue
  <2>1. Inv(k)'
    BY <1>2, ApStep
  <2>2. Agr(k)'
    BY <1>2, ApCallsAgree, ApChangesAgree DEF ApBegin, ApContinue
  <2> QED
    BY <2>1, <2>2
<1>3. CASE ApWorks
  <2>1. UNCHANGED vars /\ ap'.beacon = ap.beacon /\ ap'.stopping = ap.stopping
    BY <1>3 DEF Inv, Typed, ApType, ApWorks, LossWork, LossSend, LossDone, Probed
  <2> QED
    BY <1>3, <2>1, WorksStep, SameAgrees
<1>4. CASE ApFirmware
  BY <1>4, FwApAnswersStep, FwApSpeaksStep, ApAnswersAgree, ApSpeaksAgree
    DEF ApFirmware
<1>5. CASE LossInd \/ LossConfirm
  BY <1>5, LossStep, OtherMessagesAgree
<1>6. CASE UNCHANGED allVars
  <2>1. UNCHANGED vars /\ ap' = ap
    BY <1>6 DEF allVars, apVars
  <2> QED
    BY <1>6, <2>1, SameAgrees, SameStep
<1> QED
  BY <1>1, <1>2, <1>3, <1>4, <1>5, <1>6 DEF ApNext

\* The inductive invariant of all surroundings.
CalmInv == \E k \in Links : Inv(k) /\ (Calm => Agr(k))

\* The surroundings do not change.
LEMMA EnvIsConstant ==
  ASSUME [ApNext]_allVars
  PROVE  env' = env
<1>1. CASE UNCHANGED allVars
  BY <1>1 DEF allVars, vars
<1>2. CASE StaNext
  BY <1>2 DEF StaNext, Next, Begin, Continue, Busrx, Firmware, Open, Connect, Down,
        Scan, RemainOnChannel, CancelRemain, Change, Disconnect, Opened,
        ConnectSend, ConnectDone, DisconnectTest, DisconnectSend,
        DisconnectDone, CloseScan, CloseRoc, CloseRemove, CloseUnlink, Closed,
        RemainDone, Waited, ChangeScan, ChangeRemoved, Changed, Take, Confirm,
        ConnectInd, ConnectIndTest, ConnectIndTell, ConnectIndEnd,
        DisconnectInd, DisconnectIndAp, DisconnectIndEnd, ScanDone,
        RemainExpired, FwAccepts, FwRefuses, Fw, FwFailed, FwLeaves,
        FwScanned, FwRemained, FwConnected, KernEvent
<1>3. CASE ApBegin \/ ApContinue
  BY <1>3 DEF ApBegin, ApContinue, StartAp, StopAp, AddStation, DelStation, Probe,
        StopSend, ApStopped, StationAdded, StopDel, DelSend, DelDone,
        ApStarted, Unlist, vars
<1>4. CASE ApWorks
  BY <1>4 DEF ApWorks, LossWork, LossSend, LossDone, Probed, vars
<1>5. CASE ApFirmware \/ LossInd \/ LossConfirm
  BY <1>5 DEF ApFirmware, FwApAccepts, FwApRefuses, FwLossAccepts, FwLoses, LossInd,
        LossConfirm
<1> QED
  BY <1>1, <1>2, <1>3, <1>4, <1>5 DEF ApNext

\* Every step keeps it ...
LEMMA CalmStep ==
  ASSUME CalmInv, NoRetype, [ApNext]_allVars
  PROVE  CalmInv'
<1>1. PICK k \in Links : Inv(k) /\ (Calm => Agr(k))
  BY DEF CalmInv
<1>2. env' = env
  BY EnvIsConstant
<1>3. CASE Calm
  BY <1>1, <1>2, <1>3, InterfaceAgrees DEF CalmInv, Calm
<1>4. CASE ~Calm
  BY <1>1, <1>2, <1>4, InterfaceStep DEF CalmInv, IndInv, Calm
<1> QED
  BY <1>3, <1>4

\* ... and it holds at first.
LEMMA CalmInit ==
  ASSUME ApInit
  PROVE  CalmInv
<1>1. Inv("none")
  BY InterfaceInit
<1>2. ConnInv("none")
  BY DEF ApInit, Init, ConnInv, IndPcs, ConnPcs, DiscPcs
<1>3. CallInv("none")
  BY DEF ApInit, Init, CallInv, Trying, Closing
<1>4. CarrierInv("none") /\ StopInv
  BY DEF ApInit, Init, CarrierInv, LastEvent, StopInv
<1> QED
  BY <1>1, <1>2, <1>3, <1>4 DEF CalmInv, Agr, Links

\* When nothing is under way the known link is the firmware's, and nothing lags
\* behind it.
LEMMA QuietAgrees ==
  ASSUME NEW k \in Links, Inv(k), Agr(k)
  PROVE  Agreement
<1> SUFFICES ASSUME Quiet
             PROVE  /\ vif.conn = IF fw.link = "up" THEN "connected" ELSE "disconnected"
                    /\ vif.ap = (fw.link = "up")
                    /\ vif.carrier = (fw.link = "up")
                    /\ kern.bss = (fw.link = "up")
  BY DEF Agreement
<1>1. /\ evq = <<>> /\ rx.pc = "idle" /\ ~fw.leave /\ cmd \notin {"disconnect", "connect", "sent"}
      /\ user = "idle" /\ kev = <<>> /\ kern.run /\ vif.type = "sta"
      /\ fw.link \in {"none", "idle", "up"}
  BY DEF Quiet, Silent, Requests
<1>2. k = fw.link
  BY <1>1, EmptyExplains DEF Inv
<1>3. vif.conn = IF k = "up" THEN "connected" ELSE "disconnected"
  BY <1>1, <1>2 DEF Agr, ConnInv, Trying, DiscPcs
<1>4. vif.ch # None <=> k = "up"
  BY <1>1, <1>2 DEF Inv, ChanInv, Linked
<1>5. vif.ap = (k = "up")
  BY <1>1, <1>4 DEF Agr, ConnInv
<1>6. vif.carrier = (k = "up")
  BY <1>1, <1>3 DEF Inv, Typed, VifType, Agr, CarrierInv
<1>7. kern.bss = (k = "up")
  BY <1>1, <1>6 DEF Inv, Typed, KernType, Agr, CarrierInv, LastEvent
<1> QED
  BY <1>2, <1>3, <1>5, <1>6, <1>7

\* When no call, no message and no event is under way, driver, network core,
\* cfg80211 and firmware hold the same opinion of the connection: the state, the
\* station and the carrier that rwnx_rx_sm_connect_ind, rwnx_rx_sm_disconnect_ind
\* and rwnx_close leave, whichever of them came first, are those of the
\* firmware's link, and cfg80211 has been told as much.  The firmware may drop
\* the link at any time; that cfg80211 never reassociates is supposed.
THEOREM OpinionsAgree ==
  ASSUME \A e \in Environments : e \subseteq {"drop", "ap"}
  PROVE  ApSpec => []Agreement
<1>0. NoRetype
  BY DEF NoRetype
<1>1. ApInit => CalmInv
  BY CalmInit
<1>2. CalmInv /\ [ApNext]_allVars => CalmInv'
  BY <1>0, CalmStep
<1>3. CalmInv => Agreement
  <2> SUFFICES ASSUME CalmInv PROVE Agreement
    OBVIOUS
  <2>1. PICK k \in Links : Inv(k) /\ (Calm => Agr(k))
    BY DEF CalmInv
  <2>2. Calm
    BY <2>1 DEF Inv, Typed, Calm
  <2> QED
    BY <2>1, <2>2, QuietAgrees
<1> QED
  BY <1>1, <1>2, <1>3, PTL DEF ApSpec
-----------------------------------------------------------------------------
(* Stations: driver and firmware hold the same.                            *)

\* The works wait for a worker that does not sleep, so the firmware answers
\* nothing in between.
NoHaste == \A e \in Environments : "haste" \notin e

\* Calls that have a station in hand.
ApUsers == {"ap_add", "ap_reord", "ap_del"}

\* The confirmation of the work's command is under way not at all, or once.
NoLossCfm(q) == \A i \in 1..Len(q) : q[i].type # "loss_cfm"
OneLossCfm(q) ==
    \A i, j \in 1..Len(q) : q[i].type = "loss_cfm" /\ q[j].type = "loss_cfm" => i = j

\* A confirmation in q accepts exactly if b.
Answers(q, b) == \A i \in 1..Len(q) : q[i].type = "cfm" => (q[i].st = "ok" <=> b)

\* The work has taken a station from the list, and the firmware still has it ...
Pending == work.pc = "reord" \/ work.cmd = "sta_del"

\* ... unless it has removed the interface; then the command of the work is the
\* next one, so that it is taken before the index can be given to another
\* station.
WorkInv ==
    /\ work \in [pc : {"idle", "reord", "cfm"}, id : Ids \cup {None},
                cmd : {"none", "sta_del", "sent", "ok"}]
    /\ work.pc # "cfm" => work.cmd = "none"
    /\ work.pc = "cfm" => work.cmd \in {"sta_del", "sent", "ok"}
    /\ work.cmd # "sent" => NoLossCfm(evq)
    /\ rx.pc = "loss_cfm" => work.cmd = "sent" /\ NoLossCfm(evq)
    /\ OneLossCfm(evq)
    /\ Pending => /\ work.id \in Ids /\ work.id \notin list /\ arg.id # work.id
                  /\ fwSta[work.id] # None \/ (work.cmd = "sta_del" /\ next)

\* The station in hand is in no list; one to add has an index once the firmware
\* has accepted it.
ArgInv ==
    /\ user \notin ApUsers => arg.id = None
    /\ arg.id # None => arg.id \in Ids /\ arg.id \notin list
    /\ user \in {"ap_reord", "ap_del"} => arg.id # None
    /\ user = "ap_add" =>
         /\ arg.mac \in Peers /\ arg.mac \notin host
         /\ arg.id # None => fwSta[arg.id] = arg.mac
         /\ cmd = "ok" => arg.id # None
         /\ cmd \in {"sta_add", "refused"} => arg.id = None
         /\ Answers(evq, arg.id # None)
         /\ rx.pc = "cfm" => (rx.m.st = "ok" <=> arg.id # None)

\* The stations of the list are those of the firmware, but for the one that the
\* call and the one that the work has in hand; hostapd holds all of them.
HeldInv ==
    /\ list \subseteq Ids /\ host \subseteq Peers /\ mac \in [Ids -> Peers \cup {None}]
    /\ list # {} => ap.beacon /\ user # "ap_stop_cfm"
    /\ \A i \in list : fwSta[i] = mac[i] /\ mac[i] \in host
    /\ \A i, j \in list : mac[i] = mac[j] => i = j
    /\ \A i \in Ids \ list : fwSta[i] # None =>
         \/ i = arg.id /\ (user \in {"ap_add", "ap_reord"} \/ cmd = "sta_del")
         \/ i = work.id /\ Pending

\* Between the list and the queues is what waits for the worker.
QueueInv ==
    /\ list \subseteq queues
    /\ \A i \in queues : \/ i \in list
                         \/ user = "ap_reord" /\ i = arg.id
                         \/ work.pc = "reord" /\ i = work.id

\* Together.
StaInv == WorkInv /\ ArgInv /\ HeldInv /\ QueueInv

\* A message more ...
LEMMA SaidMore ==
  ASSUME NEW q \in Seq(Msgs), NEW m \in Msgs, NEW b \in BOOLEAN
  PROVE  /\ m.type # "loss_cfm" /\ NoLossCfm(q) => NoLossCfm(Append(q, m))
         /\ m.type # "loss_cfm" /\ OneLossCfm(q) => OneLossCfm(Append(q, m))
         /\ NoLossCfm(q) => OneLossCfm(Append(q, m))
         /\ Answers(q, b) /\ m.type # "cfm" => Answers(Append(q, m), b)
         /\ NoCfm(q) /\ (m.st = "ok" <=> b) => Answers(Append(q, m), b)
BY DEF NoLossCfm, OneLossCfm, Answers, NoCfm

\* ... and one less.
LEMMA TakenMore ==
  ASSUME NEW q \in Seq(Msgs), q # <<>>, NEW b \in BOOLEAN
  PROVE  /\ NoLossCfm(q) => NoLossCfm(Tail(q)) /\ Head(q).type # "loss_cfm"
         /\ OneLossCfm(q) => OneLossCfm(Tail(q))
         /\ OneLossCfm(q) /\ Head(q).type = "loss_cfm" => NoLossCfm(Tail(q))
         /\ Answers(q, b) =>
              /\ Answers(Tail(q), b)
              /\ Head(q).type = "cfm" => (Head(q).st = "ok" <=> b)
<1>1. /\ Len(Tail(q)) = Len(q) - 1 /\ Len(q) \in Nat /\ Len(q) >= 1 /\ Head(q) = q[1]
      /\ \A i \in 1..Len(Tail(q)) : Tail(q)[i] = q[i + 1]
  OBVIOUS
<1> QED
  BY <1>1 DEF NoLossCfm, OneLossCfm, Answers

\* A call without a station in hand.
LEMMA CallKeeps ==
  ASSUME StaInv, UNCHANGED <<evq, rx, list, mac, queues, fwSta, arg, work, next>>,
         user \notin ApUsers, user' \notin ApUsers, host' \subseteq Peers,
         list # {} => host' = host /\ ap'.beacon /\ user' # "ap_stop_cfm"
  PROVE  StaInv'
<1>1. WorkInv'
  BY DEF StaInv, WorkInv, Pending, NoLossCfm, OneLossCfm
<1>2. ArgInv'
  BY DEF StaInv, ArgInv, ApUsers
<1>3. HeldInv'
  BY ApAssumption DEF StaInv, ArgInv, HeldInv, Pending
<1>4. QueueInv'
  BY DEF StaInv, QueueInv, ApUsers
<1> QED
  BY <1>1, <1>2, <1>3, <1>4 DEF StaInv

\* The calls of StaIface have none.
LEMMA StaCallsKeep ==
  ASSUME NEW k \in Links, Inv(k), StaInv, StaNext, Begin \/ Continue \/ KernEvent
  PROVE  StaInv'
<1>1. /\ UNCHANGED <<evq, rx>> /\ user \notin ApUsers \cup {"ap_stop"}
      /\ user' \notin ApUsers \cup {"ap_stop_cfm"} /\ cmd' # "sent"
  BY DEF Inv, CmdInv, Waits, Asks, ApUsers, Begin, Continue, KernEvent, Call,
         Answered, Open, Connect, Down, Scan, RemainOnChannel, CancelRemain,
         Change, Disconnect, Opened, ConnectSend, ConnectDone, DisconnectTest,
         DisconnectSend, DisconnectDone, Disconnected, CloseScan, CloseRoc,
         CloseRemove, CloseUnlink, Closed, RemainDone, Waited, ChangeScan,
         ChangeRemoved, Changed
<1>2. UNCHANGED <<ap, arg, list, mac, queues, host, work, next, fwSta>>
  BY <1>1 DEF StaNext
<1> QED
  BY <1>1, <1>2, CallKeeps DEF StaInv, HeldInv

\* The busrx thread takes a message.
LEMMA TakeKeeps ==
  ASSUME NEW k \in Links, Inv(k), StaInv, Take,
         UNCHANGED <<list, mac, queues, host, fwSta, arg, work, next, ap>>
  PROVE  StaInv'
<1>1. evq \in Seq(Msgs) /\ evq # <<>> /\ rx.pc = "idle" /\ UNCHANGED <<user, cmd>>
  BY DEF Inv, Typed, Take
<1>2. evq' = Tail(evq) /\ rx'.pc = Head(evq).type /\ rx'.m = Head(evq)
  BY DEF Take
<1>3. WorkInv'
  BY <1>1, <1>2, TakenMore DEF StaInv, WorkInv, Pending
<1>4. ArgInv'
  BY <1>1, <1>2, TakenMore DEF StaInv, ArgInv, ApUsers
<1>5. HeldInv' /\ QueueInv'
  BY <1>1 DEF StaInv, HeldInv, QueueInv, Pending
<1> QED
  BY <1>3, <1>4, <1>5 DEF StaInv

\* The confirmation of the call.
LEMMA ConfirmKeeps ==
  ASSUME NEW k \in Links, Inv(k), StaInv, Confirm,
         UNCHANGED <<list, mac, queues, host, fwSta, arg, work, next, ap>>
  PROVE  StaInv'
<1>1. /\ rx.pc = "cfm" /\ rx'.pc = "idle" /\ UNCHANGED <<user, evq>>
      /\ cmd = "sent" /\ cmd' = rx.m.st /\ cmd' \in {"ok", "refused"}
  BY DEF Inv, CmdInv, Confirm, Return
<1>2. WorkInv'
  BY <1>1 DEF StaInv, WorkInv, Pending, NoLossCfm, OneLossCfm
<1>3. ArgInv'
  BY <1>1 DEF StaInv, ArgInv, ApUsers, Answers
<1>4. HeldInv' /\ QueueInv'
  BY <1>1 DEF StaInv, HeldInv, QueueInv, Pending
<1> QED
  BY <1>2, <1>3, <1>4 DEF StaInv

\* Any other message is worked on.
LEMMA WorkedOnKeeps ==
  ASSUME StaInv, rx.pc # "cfm", rx'.pc \notin {"cfm", "loss_cfm"},
         UNCHANGED <<user, cmd, evq, list, mac, queues, host, fwSta, arg, next>>,
         work' = work \/ (rx.pc = "loss_cfm" /\ work' = [work EXCEPT !.cmd = "ok"]),
         ap' = ap
  PROVE  StaInv'
<1>1. WorkInv'
  BY DEF StaInv, WorkInv, Pending, NoLossCfm, OneLossCfm
<1>2. ArgInv'
  BY DEF StaInv, ArgInv, ApUsers, Answers
<1>3. HeldInv'
  BY DEF StaInv, WorkInv, HeldInv, Pending
<1>4. QueueInv'
  BY DEF StaInv, WorkInv, QueueInv
<1> QED
  BY <1>1, <1>2, <1>3, <1>4 DEF StaInv

\* The firmware says something that confirms nothing.
LEMMA SpeechKeeps ==
  ASSUME NEW k \in Links, Inv(k), StaInv,
         NEW m \in Msgs, m.type \notin {"cfm", "loss_cfm"}, evq' = Append(evq, m),
         UNCHANGED <<user, cmd, rx, ap, list, mac, queues, host, fwSta, arg, work, next>>
  PROVE  StaInv'
<1>1. evq \in Seq(Msgs)
  BY DEF Inv, Typed
<1>2. WorkInv'
  BY <1>1, SaidMore DEF StaInv, WorkInv, Pending
<1>3. ArgInv'
  BY <1>1, SaidMore DEF StaInv, ArgInv, ApUsers
<1>4. HeldInv' /\ QueueInv'
  BY DEF StaInv, HeldInv, QueueInv, Pending
<1> QED
  BY <1>2, <1>3, <1>4 DEF StaInv

\* The firmware answers a command that is about no station, in its turn: as
\* nothing waits between list and firmware, an interface that is removed leaves
\* no station behind.
LEMMA AnswerKeeps ==
  ASSUME NEW k \in Links, Inv(k), StaInv, "haste" \notin env,
         cmd \notin {"sent", "sta_del"}, user \notin ApUsers, UsersTurn,
         NEW st \in {"ok", "refused"}, evq' = Append(evq, Cfm(st)),
         cmd' = "sent", next' = TRUE,
         UNCHANGED <<user, rx, ap, list, mac, queues, host, arg, work>>,
         fwSta' = fwSta \/ (list = {} /\ fwSta' = [i \in Ids |-> None])
  PROVE  StaInv'
<1>1. evq \in Seq(Msgs) /\ Cfm(st) \in Msgs /\ Cfm(st).type = "cfm"
  BY DEF Inv, Typed, Cfm, Msgs
<1>2. WorkInv'
  BY <1>1, SaidMore DEF StaInv, WorkInv, Pending, UsersTurn, Pausing
<1>3. ArgInv'
  BY DEF StaInv, ArgInv, ApUsers
<1>4. HeldInv'
  BY DEF StaInv, ArgInv, HeldInv, Pending
<1>5. QueueInv'
  BY DEF StaInv, QueueInv
<1> QED
  BY <1>2, <1>3, <1>4, <1>5 DEF StaInv

\* ... such are those of StaIface.
LEMMA StaAnswersKeep ==
  ASSUME NEW k \in Links, Inv(k), StaInv, "haste" \notin env, StaNext,
         FwAccepts \/ FwRefuses
  PROVE  StaInv'
<1>1. cmd \in Requests /\ cmd \notin {"sent", "sta_del"} /\ cmd' = "sent"
  BY DEF FwAccepts, FwRefuses, Requests
<1>2. user \notin ApUsers
  BY <1>1 DEF Inv, CmdInv, Asked, Waits, Asks, ApUsers, Requests
<1>3. PICK st \in {"ok", "refused"} : evq' = Append(evq, Cfm(st))
  BY DEF FwAccepts, FwRefuses, Says
<1>4. /\ UNCHANGED <<user, rx, ap, list, mac, queues, host, arg, work>>
      /\ UsersTurn /\ next' = TRUE
  BY <1>1 DEF FwAccepts, FwRefuses, StaNext
<1>5. fwSta' = fwSta \/ (list = {} /\ fwSta' = [i \in Ids |-> None])
  <2>1. CASE cmd \in {"remove_if", "reset"}
    <3>1. user \in {"close_rem", "change_rem", "close_reset"}
      BY <2>1 DEF Inv, CmdInv, Asked, Waits, Asks
    <3>2. list = {}
      BY <3>1 DEF Inv, UserInv, StaInv, HeldInv
    <3> QED
      BY <1>1, <2>1, <3>2 DEF StaNext
  <2>2. CASE cmd \notin {"remove_if", "reset"}
    BY <2>2 DEF StaNext
  <2> QED
    BY <2>1, <2>2
<1> QED
  BY <1>1, <1>2, <1>3, <1>4, <1>5, AnswerKeeps

\* Everything that StaIface does.
LEMMA StaNextKeeps ==
  ASSUME NEW k \in Links, Inv(k), StaInv, "haste" \notin env, StaNext
  PROVE  StaInv'
<1>1. Next /\ UNCHANGED <<ap, arg, list, mac, queues, host, work>>
  BY DEF StaNext
<1>2. CASE Begin \/ Continue \/ KernEvent
  BY <1>2, StaCallsKeep
<1>3. CASE Take
  <2>1. cmd' = cmd
    BY <1>3 DEF Take
  <2>2. UNCHANGED <<next, fwSta>>
    BY <2>1 DEF StaNext
  <2> QED
    BY <1>1, <1>3, <2>2, TakeKeeps
<1>4. CASE Confirm
  <2>1. cmd' # "sent"
    BY <1>4 DEF Inv, CmdInv, Confirm
  <2>2. UNCHANGED <<next, fwSta>>
    BY <2>1 DEF StaNext
  <2> QED
    BY <1>1, <1>4, <2>2, ConfirmKeeps
<1>5. CASE Busrx /\ ~Take /\ ~Confirm
  <2>1. /\ UNCHANGED <<user, cmd, evq>>
        /\ rx.pc # "cfm" /\ rx'.pc \notin {"cfm", "loss_cfm"}
    BY <1>5 DEF Inv, Typed, RxType, Busrx, ConnectInd, ConnectIndTest,
          ConnectIndTell, ConnectIndEnd, DisconnectInd, DisconnectIndAp,
          DisconnectIndEnd, ScanDone, RemainExpired, Return
  <2>2. UNCHANGED <<next, fwSta>>
    BY <2>1 DEF StaNext
  <2> QED
    BY <1>1, <2>1, <2>2, WorkedOnKeeps
<1>6. CASE FwAccepts \/ FwRefuses
  BY <1>6, StaAnswersKeep
<1>7. CASE \/ FwFailed \/ FwLeaves \/ FwScanned \/ FwRemained
           \/ \E c \in Chans : FwConnected(c)
  <2>1. PICK m \in Msgs : m.type \notin {"cfm", "loss_cfm"} /\ evq' = Append(evq, m)
    BY <1>7 DEF FwFailed, FwLeaves, FwScanned, FwRemained, FwConnected, Fw, Says,
          Conn, Disc, Msgs, ConnMsgs, DiscMsgs
  <2>2. UNCHANGED <<user, cmd, rx>>
    BY <1>7 DEF FwFailed, FwLeaves, FwScanned, FwRemained, FwConnected, Fw
  <2>3. UNCHANGED <<next, fwSta>>
    BY <2>2 DEF StaNext
  <2> QED
    BY <1>1, <2>1, <2>2, <2>3, SpeechKeeps
<1> QED
  BY <1>1, <1>2, <1>3, <1>4, <1>5, <1>6, <1>7 DEF Next, Busrx, Firmware

\* Starting and stopping the access point, which is empty when it stops.
LEMMA ApCallsKeep ==
  ASSUME NEW k \in Links, Inv(k), StaInv,
         \/ StartAp \/ StopAp \/ StopSend \/ ApStopped
         \/ \E c \in Chans : ApStarted(c)
         \/ \E p \in Peers : Probe(p)
  PROVE  StaInv'
<1>1. /\ UNCHANGED <<evq, rx, list, mac, queues, fwSta, arg, work, next>>
      /\ user \notin ApUsers /\ user' \notin ApUsers
      /\ user = "ap_stop_cfm" \/ (host' = host /\ (ap.beacon => ap'.beacon))
      /\ host' = host \/ host' = {}
      /\ user' = "ap_stop_cfm" => list = {}
  BY DEF Inv, Typed, ApType, ApUsers, StartAp, StopAp, StopSend, ApStopped,
         ApStarted, Probe, ApCall, Call, apVars
<1> QED
  BY <1>1, CallKeeps DEF StaInv, HeldInv

\* rwnx_cfg80211_add_station ...
LEMMA AddKeeps ==
  ASSUME NEW k \in Links, Inv(k), StaInv, NEW p \in Peers, AddStation(p)
  PROVE  StaInv'
<1>1. /\ user = "idle" /\ cmd = "none" /\ NoCfm(evq) /\ rx.pc # "cfm" /\ arg.id = None
  BY DEF Inv, CmdInv, Waits, StaInv, ArgInv, ApUsers, AddStation, ApCall, Call
<1>2. arg' = [mac |-> p, id |-> None] /\ cmd' = "sta_add" /\ user' = "ap_add" /\ p \notin host
      /\ UNCHANGED <<evq, rx, ap, list, mac, queues, host, work, next, fwSta>>
  BY DEF AddStation, Nobody
<1>3. WorkInv'
  BY <1>1, <1>2 DEF StaInv, WorkInv, Pending
<1>4. ArgInv'
  BY <1>1, <1>2 DEF ArgInv, ApUsers, Answers, NoCfm
<1>5. HeldInv' /\ QueueInv'
  BY <1>1, <1>2, ApAssumption DEF StaInv, HeldInv, QueueInv, Pending
<1> QED
  BY <1>3, <1>4, <1>5 DEF StaInv

\* ... puts the station at the index that the firmware has given it.
LEMMA AddedKeeps ==
  ASSUME NEW k \in Links, Inv(k), StaInv, StationAdded
  PROVE  StaInv'
<1>1. /\ user = "ap_add" /\ user' = "idle" /\ cmd \in {"ok", "refused"} /\ cmd' = "none"
      /\ UNCHANGED <<evq, rx, ap, work, next, fwSta>> /\ arg' = Nobody
  BY DEF StationAdded, Answered
<1>2. ap.beacon
  BY <1>1 DEF Inv, UserInv
<1>3. CASE cmd = "ok"
  <2>1. /\ arg.id \in Ids /\ arg.id \notin list /\ fwSta[arg.id] = arg.mac
        /\ arg.mac \in Peers /\ arg.mac \notin host
    BY <1>1, <1>3 DEF StaInv, ArgInv
  <2>2. /\ list' = list \cup {arg.id} /\ queues' = queues \cup {arg.id}
        /\ mac' = [mac EXCEPT ![arg.id] = arg.mac] /\ host' = host \cup {arg.mac}
    BY <1>3 DEF StationAdded
  <2>3. WorkInv'
    BY <1>1, <2>2, ApAssumption DEF StaInv, WorkInv, Pending, Nobody
  <2>4. ArgInv'
    BY <1>1 DEF ArgInv, ApUsers, Nobody
  <2>5. \A i \in list : mac'[i] = mac[i]
    BY <2>1, <2>2
  <2>6. mac'[arg.id] = arg.mac /\ mac' \in [Ids -> Peers \cup {None}]
    BY <2>1, <2>2 DEF StaInv, HeldInv
  <2>7. HeldInv'
    BY <1>1, <1>2, <2>1, <2>2, <2>5, <2>6 DEF StaInv, HeldInv, Pending
  <2>8. QueueInv'
    BY <1>1, <2>2 DEF StaInv, QueueInv
  <2> QED
    BY <2>3, <2>4, <2>7, <2>8 DEF StaInv
<1>4. CASE cmd = "refused"
  <2>1. UNCHANGED <<list, mac, queues, host>> /\ arg.id = None
    BY <1>1, <1>4 DEF StationAdded, StaInv, ArgInv
  <2>2. WorkInv' /\ ArgInv'
    BY <1>1, <2>1 DEF StaInv, WorkInv, ArgInv, ApUsers, Pending, Nobody
  <2>3. HeldInv' /\ QueueInv'
    BY <1>1, <1>2, <2>1, ApAssumption DEF StaInv, HeldInv, QueueInv, Pending
  <2> QED
    BY <2>2, <2>3 DEF StaInv
<1> QED
  BY <1>1, <1>3, <1>4

\* A station leaves the list, for the call ...
LEMMA UnlistKeeps ==
  ASSUME NEW k \in Links, Inv(k), StaInv, user \in {"idle", "ap_stop"},
         NEW i \in list, Unlist(i), host' \subseteq host,
         \A j \in list \ {i} : mac[j] \in host'
  PROVE  StaInv'
<1>1. cmd = "none" /\ arg.id = None /\ i \in Ids /\ fwSta[i] # None
  BY ApAssumption DEF Inv, CmdInv, Waits, StaInv, ArgInv, ApUsers, HeldInv
<1>2. /\ list' = list \ {i} /\ arg' = [mac |-> None, id |-> i] /\ user' = "ap_reord"
      /\ UNCHANGED <<cmd, evq, rx, ap, mac, queues, work, next, fwSta>>
  BY DEF Unlist, Left, Nobody
<1>3. WorkInv'
  BY <1>1, <1>2 DEF StaInv, WorkInv, Pending
<1>4. ArgInv'
  BY <1>1, <1>2, ApAssumption DEF ArgInv, ApUsers
<1>5. HeldInv'
  BY <1>1, <1>2, ApAssumption DEF StaInv, HeldInv, Pending
<1>6. QueueInv'
  BY <1>1, <1>2 DEF StaInv, QueueInv
<1> QED
  BY <1>3, <1>4, <1>5, <1>6 DEF StaInv

\* ... of hostapd, which forgets the address, if a station has it ...
LEMMA DelStationKeeps ==
  ASSUME NEW k \in Links, Inv(k), StaInv, NEW p \in Peers, DelStation(p)
  PROVE  StaInv'
<1>1. user = "idle" /\ p \in host /\ host' = host \ {p}
  BY DEF DelStation, ApCall, Call
<1>2. CASE At(p) # {}
  <2>1. PICK i \in At(p) : Unlist(i)
    BY <1>2 DEF DelStation
  <2>2. i \in list /\ \A j \in list \ {i} : mac[j] \in host'
    BY <1>1, <2>1 DEF At, StaInv, HeldInv
  <2> QED
    BY <1>1, <2>1, <2>2, UnlistKeeps
<1>3. CASE At(p) = {}
  <2>1. UNCHANGED <<user, cmd, evq, rx, ap, arg, list, mac, queues, work, next, fwSta>>
    BY <1>3 DEF DelStation, vars
  <2>2. \A j \in list : mac[j] \in host'
    BY <1>1, <1>3 DEF At, StaInv, HeldInv
  <2>3. WorkInv' /\ QueueInv'
    BY <2>1 DEF StaInv, WorkInv, Pending, QueueInv
  <2>4. ArgInv'
    BY <1>1, <2>1 DEF StaInv, ArgInv, ApUsers
  <2>5. HeldInv'
    BY <1>1, <2>1, <2>2 DEF StaInv, HeldInv, Pending
  <2> QED
    BY <2>3, <2>4, <2>5 DEF StaInv
<1> QED
  BY <1>2, <1>3

\* ... or while the access point is stopped.
LEMMA StopDelKeeps ==
  ASSUME NEW k \in Links, Inv(k), StaInv, StopDel
  PROVE  StaInv'
<1>1. PICK i \in list : Unlist(i)
  BY DEF StopDel
<1>2. user = "ap_stop" /\ host' = host
  BY DEF StopDel
<1> QED
  BY <1>1, <1>2, UnlistKeeps DEF StaInv, HeldInv

\* Its queues go, then the firmware is told ...
LEMMA DelSendKeeps ==
  ASSUME NEW k \in Links, Inv(k), StaInv, DelSend
  PROVE  StaInv'
<1>1. /\ user = "ap_reord" /\ user' = "ap_del" /\ cmd = "none" /\ cmd' = "sta_del"
      /\ queues' = queues \ {arg.id}
      /\ UNCHANGED <<evq, rx, ap, arg, list, mac, host, work, next, fwSta>>
  BY DEF Inv, CmdInv, Waits, DelSend
<1>2. WorkInv'
  BY <1>1 DEF StaInv, WorkInv, Pending
<1>3. ArgInv'
  BY <1>1 DEF StaInv, ArgInv, ApUsers
<1>4. HeldInv'
  BY <1>1 DEF StaInv, HeldInv, Pending
<1>5. QueueInv'
  BY <1>1 DEF StaInv, ArgInv, ApUsers, QueueInv
<1> QED
  BY <1>2, <1>3, <1>4, <1>5 DEF StaInv

\* ... and has dropped it when the call goes on.
LEMMA DelDoneKeeps ==
  ASSUME NEW k \in Links, Inv(k), StaInv, DelDone
  PROVE  StaInv'
<1>1. /\ user = "ap_del" /\ user' \in {"idle", "ap_stop"} /\ cmd \in {"ok", "refused"}
      /\ cmd' = "none" /\ arg' = Nobody
      /\ UNCHANGED <<evq, rx, ap, list, mac, queues, host, work, next, fwSta>>
  BY DEF DelDone, Answered
<1>2. WorkInv'
  BY <1>1, ApAssumption DEF StaInv, WorkInv, Pending, Nobody
<1>3. ArgInv'
  BY <1>1 DEF ArgInv, ApUsers, Nobody
<1>4. HeldInv'
  BY <1>1 DEF StaInv, HeldInv, Pending
<1>5. QueueInv'
  BY <1>1 DEF StaInv, QueueInv
<1> QED
  BY <1>2, <1>3, <1>4, <1>5 DEF StaInv

\* The firmware takes a station in the turn of the call: the work does not wait
\* for it to drop the one whose index it gives ...
LEMMA FwAddKeeps ==
  ASSUME NEW k \in Links, Inv(k), StaInv, FwApAccepts, cmd = "sta_add"
  PROVE  StaInv'
<1>1. PICK i \in Ids : /\ fwSta[i] = None /\ fwSta' = [fwSta EXCEPT ![i] = arg.mac]
                       /\ arg' = [arg EXCEPT !.id = i]
  BY DEF FwApAccepts
<1>2. /\ user = "ap_add" /\ evq \in Seq(Msgs) /\ NoCfm(evq) /\ rx.pc # "cfm"
      /\ arg \in ArgType
  BY DEF Inv, Typed, CmdInv, Asked, Waits
<1>3. /\ evq' = Append(evq, Cfm("ok")) /\ cmd' = "sent" /\ next' = TRUE /\ UsersTurn
      /\ UNCHANGED <<user, rx, ap, list, mac, queues, host, work>>
  BY DEF FwApAccepts, Says
<1>4. Cfm("ok") \in Msgs /\ Cfm("ok").type = "cfm" /\ Cfm("ok").st = "ok"
  BY DEF Cfm, Msgs
<1>5. arg.mac \in Peers /\ arg.mac \notin host /\ arg.id = None
  BY <1>2 DEF StaInv, ArgInv
<1>6. i \notin list /\ arg'.id = i /\ arg'.mac = arg.mac /\ i # None
  BY <1>1, <1>2, ApAssumption DEF StaInv, HeldInv, ArgType
<1>7. fwSta'[i] = arg.mac /\ \A j \in Ids \ {i} : fwSta'[j] = fwSta[j]
  BY <1>1 DEF Inv, Typed
<1>8. Pending => i # work.id
  BY <1>1, <1>3 DEF StaInv, WorkInv, UsersTurn, Pending
<1>9. WorkInv'
  BY <1>2, <1>3, <1>4, <1>6, <1>7, <1>8, SaidMore DEF StaInv, WorkInv, Pending
<1>10. ArgInv'
  BY <1>2, <1>3, <1>4, <1>5, <1>6, <1>7, SaidMore DEF ArgInv, ApUsers
<1>11. HeldInv'
  BY <1>2, <1>3, <1>5, <1>6, <1>7, ApAssumption DEF StaInv, HeldInv, Pending
<1>12. QueueInv'
  BY <1>2, <1>3 DEF StaInv, QueueInv
<1> QED
  BY <1>9, <1>10, <1>11, <1>12 DEF StaInv

\* ... it drops one, whose index is free from then on ...
LEMMA FwDelKeeps ==
  ASSUME NEW k \in Links, Inv(k), StaInv, FwApAccepts, cmd = "sta_del"
  PROVE  StaInv'
<1>1. /\ user = "ap_del" /\ evq \in Seq(Msgs) /\ NoCfm(evq) /\ rx.pc # "cfm"
  BY DEF Inv, Typed, CmdInv, Asked, Waits
<1>2. /\ evq' = Append(evq, Cfm("ok")) /\ cmd' = "sent" /\ next' = TRUE /\ UsersTurn
      /\ UNCHANGED <<user, rx, ap, arg, list, mac, queues, host, work>>
      /\ fwSta' = [fwSta EXCEPT ![arg.id] = None]
  BY DEF FwApAccepts, Says, Dropped
<1>3. Cfm("ok") \in Msgs /\ Cfm("ok").type = "cfm" /\ Cfm("ok").st = "ok"
  BY DEF Cfm, Msgs
<1>4. arg.id \in Ids /\ arg.id \notin list
  BY <1>1 DEF StaInv, ArgInv
<1>5. fwSta'[arg.id] = None /\ \A j \in Ids \ {arg.id} : fwSta'[j] = fwSta[j]
  BY <1>2, <1>4 DEF Inv, Typed
<1>6. WorkInv'
  BY <1>1, <1>2, <1>3, <1>5, SaidMore DEF StaInv, WorkInv, Pending
<1>7. ArgInv'
  BY <1>1, <1>2 DEF StaInv, ArgInv, ApUsers
<1>8. HeldInv'
  BY <1>1, <1>2, <1>4, <1>5 DEF StaInv, HeldInv, Pending
<1>9. QueueInv'
  BY <1>1, <1>2 DEF StaInv, QueueInv
<1> QED
  BY <1>6, <1>7, <1>8, <1>9 DEF StaInv

\* ... or it accepts a command about none.
LEMMA FwApAcceptsKeeps ==
  ASSUME NEW k \in Links, Inv(k), StaInv, "haste" \notin env, FwApAccepts
  PROVE  StaInv'
<1>1. CASE cmd = "sta_add"
  BY <1>1, FwAddKeeps
<1>2. CASE cmd = "sta_del"
  BY <1>2, FwDelKeeps
<1>3. CASE cmd \in {"apm_start", "apm_stop"}
  <2>1. user \notin ApUsers
    BY <1>3 DEF Inv, CmdInv, Asked, Waits, ApUsers
  <2>2. /\ evq' = Append(evq, Cfm("ok")) /\ cmd' = "sent" /\ next' = TRUE /\ UsersTurn
        /\ UNCHANGED <<user, rx, ap, arg, list, mac, queues, host, work, fwSta>>
    BY <1>3 DEF FwApAccepts, Says
  <2> QED
    BY <1>3, <2>1, <2>2, AnswerKeeps
<1> QED
  BY <1>1, <1>2, <1>3 DEF FwApAccepts, ApRequests

\* It refuses a station only when it has no index for it.
LEMMA FwApRefusesKeeps ==
  ASSUME NEW k \in Links, Inv(k), StaInv, "haste" \notin env, FwApRefuses
  PROVE  StaInv'
<1>1. /\ evq' = Append(evq, Cfm("refused")) /\ cmd' = "sent" /\ next' = TRUE /\ UsersTurn
      /\ UNCHANGED <<user, rx, ap, arg, list, mac, queues, host, work, fwSta>>
  BY DEF FwApRefuses, Says
<1>2. CASE cmd = "apm_start"
  <2>1. user \notin ApUsers
    BY <1>2 DEF Inv, CmdInv, Asked, Waits, ApUsers
  <2> QED
    BY <1>1, <1>2, <2>1, AnswerKeeps
<1>3. CASE cmd = "sta_add"
  <2>1. user = "ap_add" /\ evq \in Seq(Msgs) /\ NoCfm(evq) /\ rx.pc # "cfm" /\ arg.id = None
    BY <1>3 DEF Inv, Typed, CmdInv, Asked, Waits, StaInv, ArgInv
  <2>2. Cfm("refused") \in Msgs /\ Cfm("refused").type = "cfm" /\ Cfm("refused").st = "refused"
    BY DEF Cfm, Msgs
  <2>3. WorkInv'
    BY <1>1, <2>1, <2>2, SaidMore DEF StaInv, WorkInv, Pending, UsersTurn, Pausing
  <2>4. Answers(evq', FALSE)
    BY <1>1, <2>1, <2>2, SaidMore
  <2>5. ArgInv'
    BY <1>1, <2>1, <2>4 DEF StaInv, ArgInv, ApUsers, Answers
  <2>6. HeldInv'
    BY <1>1, <2>1 DEF StaInv, HeldInv, Pending
  <2>7. QueueInv'
    BY <1>1, <2>1 DEF StaInv, QueueInv
  <2> QED
    BY <2>3, <2>5, <2>6, <2>7 DEF StaInv
<1> QED
  BY <1>2, <1>3 DEF FwApRefuses

\* The firmware drops the station of the work.
LEMMA FwLossAcceptsKeeps ==
  ASSUME NEW k \in Links, Inv(k), StaInv, FwLossAccepts
  PROVE  StaInv'
<1>1. /\ work.cmd = "sta_del" /\ work' = [work EXCEPT !.cmd = "sent"]
      /\ fwSta' = [fwSta EXCEPT ![work.id] = None]
      /\ evq' = Append(evq, [type |-> "loss_cfm"])
      /\ UNCHANGED <<user, cmd, rx, ap, arg, list, mac, queues, host, next>>
  BY DEF FwLossAccepts, WorksTurn, Dropped, Says
<1> DEFINE m == [type |-> "loss_cfm"]
<1>2. evq \in Seq(Msgs) /\ m \in Msgs /\ m.type = "loss_cfm"
  BY DEF Inv, Typed, Msgs
<1>3. /\ work.pc = "cfm" /\ work.id \in Ids /\ work.id \notin list /\ arg.id # work.id
      /\ NoLossCfm(evq) /\ rx.pc # "loss_cfm" /\ work'.pc = "cfm" /\ work'.cmd = "sent"
      /\ work'.id = work.id
  BY <1>1 DEF StaInv, WorkInv, Pending
<1>4. fwSta'[work.id] = None /\ \A j \in Ids \ {work.id} : fwSta'[j] = fwSta[j]
  BY <1>1, <1>3 DEF Inv, Typed
<1> HIDE DEF m
<1>5. WorkInv'
  <2>1. OneLossCfm(evq')
    BY <1>1, <1>2, <1>3, SaidMore DEF m
  <2> QED
    BY <1>1, <1>3, <2>1 DEF StaInv, WorkInv, Pending
<1>6. ArgInv'
  <2>1. \A b \in BOOLEAN : Answers(evq, b) => Answers(evq', b)
    BY <1>1, <1>2, SaidMore DEF m
  <2> QED
    BY <1>1, <1>3, <1>4, <2>1 DEF StaInv, ArgInv, ApUsers
<1>7. HeldInv'
  BY <1>1, <1>3, <1>4 DEF StaInv, HeldInv, Pending
<1>8. QueueInv'
  BY <1>1, <1>3 DEF StaInv, QueueInv
<1> QED
  BY <1>5, <1>6, <1>7, <1>8 DEF StaInv

\* It indicates the loss of a station.
LEMMA FwLosesKeeps ==
  ASSUME NEW k \in Links, Inv(k), StaInv, NEW i \in Ids, FwLoses(i)
  PROVE  StaInv'
<1> DEFINE m == [type |-> "loss", mac |-> fwSta[i]]
<1>1. m \in Msgs /\ m.type \notin {"cfm", "loss_cfm"}
  BY DEF Inv, Typed, Msgs
<1>2. /\ evq' = Append(evq, m)
      /\ UNCHANGED <<user, cmd, rx, ap, list, mac, queues, host, fwSta, arg, work, next>>
  BY DEF FwLoses, Says
<1> HIDE DEF m
<1> QED
  BY <1>1, <1>2, SpeechKeeps

\* The busrx thread queues the work, or confirms its command.
LEMMA LossMessagesKeep ==
  ASSUME NEW k \in Links, Inv(k), StaInv, LossInd \/ LossConfirm
  PROVE  StaInv'
<1>1. /\ rx.pc \in {"loss", "loss_cfm"} /\ rx'.pc = "idle"
      /\ UNCHANGED <<user, cmd, evq, list, mac, queues, host, fwSta, arg, next, ap>>
      /\ work' = work \/ (rx.pc = "loss_cfm" /\ work' = [work EXCEPT !.cmd = "ok"])
  BY DEF LossInd, LossConfirm, Return
<1> QED
  BY <1>1, WorkedOnKeeps

\* The work takes a lost station from the list ...
LEMMA LossWorkKeeps ==
  ASSUME NEW k \in Links, Inv(k), StaInv, LossWork
  PROVE  StaInv'
<1>1. /\ work.pc = "idle" /\ work.cmd = "none"
      /\ UNCHANGED <<user, cmd, evq, rx, ap, arg, mac, queues, host, fwSta, next>>
  BY DEF LossWork, vars, StaInv, WorkInv
<1>2. CASE UNCHANGED <<list, work>>
  BY <1>1, <1>2 DEF StaInv, WorkInv, ArgInv, HeldInv, QueueInv, Pending, ApUsers
<1>3. ASSUME NEW i \in At(loss.mac), list' = Left(i),
             work' = [work EXCEPT !.pc = "reord", !.id = i]
      PROVE  StaInv'
  <2>1. /\ i \in list /\ i \in Ids /\ fwSta[i] # None /\ list' = list \ {i}
        /\ work'.pc = "reord" /\ work'.id = i /\ work'.cmd = "none"
    BY <1>1, <1>3, ApAssumption DEF At, Left, StaInv, WorkInv, HeldInv
  <2>2. arg.id # i
    BY <2>1, ApAssumption DEF StaInv, ArgInv
  <2>3. WorkInv'
    BY <1>1, <1>3, <2>1, <2>2 DEF StaInv, WorkInv, Pending
  <2>4. ArgInv'
    BY <1>1, <2>1 DEF StaInv, ArgInv, ApUsers
  <2>5. HeldInv'
    BY <1>1, <2>1 DEF StaInv, HeldInv, Pending
  <2>6. QueueInv'
    BY <1>1, <2>1 DEF StaInv, QueueInv
  <2> QED
    BY <2>3, <2>4, <2>5, <2>6 DEF StaInv
<1> QED
  BY <1>2, <1>3 DEF LossWork

\* ... frees its queues and tells the firmware ...
LEMMA LossSendKeeps ==
  ASSUME NEW k \in Links, Inv(k), StaInv, LossSend
  PROVE  StaInv'
<1>1. /\ work.pc = "reord" /\ work' = [work EXCEPT !.pc = "cfm", !.cmd = "sta_del"]
      /\ queues' = queues \ {work.id}
      /\ UNCHANGED <<user, cmd, evq, rx, ap, arg, list, mac, host, fwSta>>
  BY DEF LossSend, vars
<1>2. /\ work.cmd = "none" /\ work'.pc = "cfm" /\ work'.cmd = "sta_del" /\ work'.id = work.id
      /\ work.id \in Ids /\ work.id \notin list /\ arg.id # work.id /\ fwSta[work.id] # None
  BY <1>1 DEF StaInv, WorkInv, Pending
<1>3. WorkInv'
  BY <1>1, <1>2 DEF StaInv, WorkInv, Pending
<1>4. ArgInv'
  BY <1>1 DEF StaInv, ArgInv, ApUsers
<1>5. HeldInv'
  BY <1>1, <1>2 DEF StaInv, HeldInv, Pending
<1>6. QueueInv'
  BY <1>1, <1>2 DEF StaInv, QueueInv
<1> QED
  BY <1>3, <1>4, <1>5, <1>6 DEF StaInv

\* ... until that has confirmed.
LEMMA LossDoneKeeps ==
  ASSUME NEW k \in Links, Inv(k), StaInv, LossDone
  PROVE  StaInv'
<1>1. /\ work.pc = "cfm" /\ work.cmd = "ok"
      /\ work' = [pc |-> "idle", id |-> None, cmd |-> "none"]
      /\ UNCHANGED <<user, cmd, evq, rx, ap, arg, list, mac, queues, host, fwSta, next>>
  BY DEF LossDone, vars
<1>2. WorkInv'
  BY <1>1 DEF StaInv, WorkInv, Pending
<1>3. ArgInv'
  BY <1>1 DEF StaInv, ArgInv, ApUsers
<1>4. HeldInv' /\ QueueInv'
  BY <1>1 DEF StaInv, HeldInv, QueueInv, Pending
<1> QED
  BY <1>2, <1>3, <1>4 DEF StaInv

\* What changes none of it.
LEMMA SameKeeps ==
  ASSUME StaInv, ap'.beacon = ap.beacon,
         UNCHANGED <<user, cmd, evq, rx, arg, list, mac, queues, host, fwSta, work, next>>
  PROVE  StaInv'
BY DEF StaInv, WorkInv, ArgInv, HeldInv, QueueInv, Pending, ApUsers

\* Every step keeps it ...
LEMMA StationsKept ==
  ASSUME NEW k \in Links, Inv(k), StaInv, "haste" \notin env, [ApNext]_allVars
  PROVE  StaInv'
<1>1. CASE StaNext
  BY <1>1, StaNextKeeps
<1>2. CASE ApBegin
  BY <1>2, ApCallsKeep, AddKeeps, DelStationKeeps DEF ApBegin
<1>3. CASE ApContinue
  BY <1>3, ApCallsKeep, AddedKeeps, StopDelKeeps, DelSendKeeps, DelDoneKeeps
    DEF ApContinue
<1>4. CASE LossWork \/ LossSend \/ LossDone
  BY <1>4, LossWorkKeeps, LossSendKeeps, LossDoneKeeps
<1>5. CASE Probed
  <2>1. ap'.beacon = ap.beacon
    BY <1>5 DEF Probed, Inv, Typed, ApType
  <2> QED
    BY <1>5, <2>1, SameKeeps DEF Probed, vars
<1>6. CASE ApFirmware
  BY <1>6, FwApAcceptsKeeps, FwApRefusesKeeps, FwLossAcceptsKeeps, FwLosesKeeps
    DEF ApFirmware
<1>7. CASE LossInd \/ LossConfirm
  BY <1>7, LossMessagesKeep
<1>8. CASE UNCHANGED allVars
  BY <1>8, SameKeeps DEF allVars, apVars, vars
<1> QED
  BY <1>1, <1>2, <1>3, <1>4, <1>5, <1>6, <1>7, <1>8 DEF ApNext, ApWorks

\* ... and it holds at first.
LEMMA StationsInit == ApInit => StaInv
<1> SUFFICES ASSUME ApInit PROVE StaInv
  OBVIOUS
<1>1. /\ user = "idle" /\ evq = <<>> /\ rx.pc = "idle" /\ cmd = "none" /\ arg.id = None
      /\ list = {} /\ mac = [i \in Ids |-> None] /\ queues = {} /\ host = {}
      /\ work = [pc |-> "idle", id |-> None, cmd |-> "none"]
      /\ fwSta = [i \in Ids |-> None]
  BY DEF ApInit, Init, Nobody
<1>2. WorkInv
  BY <1>1 DEF WorkInv, Pending, NoLossCfm, OneLossCfm
<1>3. ArgInv
  BY <1>1 DEF ArgInv, ApUsers
<1>4. HeldInv /\ QueueInv
  BY <1>1 DEF HeldInv, QueueInv
<1> QED
  BY <1>2, <1>3, <1>4 DEF StaInv

\* Of a quiet interface: neither the call nor the work has a station in hand.
LEMMA QuietStations ==
  ASSUME StaInv
  PROVE  StationsAgree
<1>1. ASSUME ApQuiet
      PROVE  /\ \A i \in Ids : fwSta[i] = IF i \in list THEN mac[i] ELSE None
             /\ list \subseteq queues /\ queues \subseteq list
             /\ list # {} => ap.beacon
  <2>1. user = "idle" /\ work.pc = "idle" /\ ~Pending /\ arg.id = None
    BY <1>1 DEF ApQuiet, StaInv, WorkInv, ArgInv, ApUsers, Pending
  <2> QED
    BY <2>1, ApAssumption DEF StaInv, HeldInv, QueueInv
<1> QED
  BY <1>1 DEF StationsAgree, StaInv, HeldInv

\* When no call, no loss and no message is under way, the driver and the firmware
\* hold the same stations at the same indices, with their queues: although
\* rwnx_cfg80211_del_station_compat and apm_staloss_work_process take a station
\* from the list, sleep, and tell the firmware later, and the firmware gives an
\* index away as soon as it has dropped the station.
THEOREM StationsStayAgreed ==
  ASSUME NoRetype, NoHaste
  PROVE  ApSpec => []StationsAgree
<1>1. ApSpec => []IndInv
  BY InterfaceInvariant
<1>2. ApInit => StaInv
  BY StationsInit
<1>3. IndInv /\ StaInv /\ [ApNext]_allVars => StaInv'
  <2> SUFFICES ASSUME IndInv, StaInv, [ApNext]_allVars
               PROVE  StaInv'
    OBVIOUS
  <2>1. PICK k \in Links : Inv(k)
    BY DEF IndInv
  <2>2. "haste" \notin env
    BY <2>1 DEF NoHaste, Inv, Typed
  <2> QED
    BY <2>1, <2>2, StationsKept
<1>4. StaInv => StationsAgree
  BY QuietStations
<1> QED
  BY <1>1, <1>2, <1>3, <1>4, PTL DEF ApSpec
=============================================================================
