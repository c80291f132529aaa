------------------------------ MODULE StaIface ------------------------------
(***************************************************************************)
(* One station interface: opening, closing, connecting, scanning, staying  *)
(* on a channel and changing its type (rwnx_main.c), with the indications  *)
(* that the busrx thread runs (rwnx_msg_rx.c).                             *)
(*                                                                         *)
(* cfg80211 and the network core call under the RTNL, one call at a time:  *)
(* user is where that call stands.  It sleeps while a command is out and   *)
(* in the waits of rwnx_close; the busrx thread delivers confirmations and *)
(* indications in the order in which the firmware sent them.               *)
(***************************************************************************)
EXTENDS Naturals, Sequences

CONSTANTS
    Chans,          \* channel contexts
    Environments,   \* what the firmware and cfg80211 may do, see Habits
    None

\* "drop": the firmware may lose the access point; "refuse": it may refuse to
\* connect; "roam": cfg80211 reassociates; "retype": it changes the type of a
\* running interface; "haste": the waits of rwnx_close run out; "preempt":
\* threads lose the processor also where they do not sleep; "ap": the interface
\* may be an access point (ApIface), and is not used as a station.
Habits == {"drop", "refuse", "roam", "retype", "haste", "preempt", "ap"}

ASSUME IfaceAssumption == None \notin Chans /\ Environments \subseteq SUBSET Habits

VARIABLES
    env,     \* the habits of the surroundings
    user,    \* where the call under the RTNL stands
    then,    \* what follows when it is a disconnect
    cmd,     \* its command: none, a request, sent, or the answer
    evq,     \* messages of the firmware that the busrx thread has not taken
    fw,      \* firmware: the link, a disconnect to do, a scan, a stay
    rx,      \* busrx thread: where it is, with which message
    vif,     \* struct rwnx_vif
    ctx,     \* links to each channel context
    scan,    \* scan_request, scanning, and the request that cfg80211 waits for
    roc,     \* roc_elem is allocated
    kern,    \* cfg80211: running, connection wanted, connected
    kev,     \* events for cfg80211's work
    halted   \* BUG(), or a null pointer used

vars == <<env, user, then, cmd, evq, fw, rx, vif, ctx, scan, roc, kern, kev,
          halted>>

Requests == {"add_if", "remove_if", "reset", "connect", "disconnect", "scan",
             "cancel_scan", "roc", "cancel_roc"}

Init ==
    /\ env \in Environments
    /\ user = "idle" /\ then = "idle" /\ cmd = "none" /\ evq = <<>>
    /\ fw = [link |-> "none", leave |-> FALSE, scan |-> FALSE, roc |-> FALSE]
    /\ rx = [pc |-> "idle", m |-> None]
    /\ vif = [type |-> "sta", up |-> FALSE, table |-> FALSE,
              conn |-> "disconnected", roam |-> FALSE, ap |-> FALSE,
              carrier |-> FALSE, ch |-> None]
    /\ ctx = [c \in Chans |-> 0]
    /\ scan = [req |-> FALSE, scanning |-> FALSE, kreq |-> FALSE]
    /\ roc = FALSE
    /\ kern = [run |-> FALSE, ssid |-> FALSE, bss |-> FALSE]
    /\ kev = <<>>
    /\ halted = FALSE

\* Points of a call that another thread reaches only by preemption.
Running == {"disc_set", "conn_set", "close_roc"}
UserRuns == ("preempt" \in env \/ rx.pc = "idle") /\ ~halted
RxRuns == ("preempt" \in env \/ user \notin Running) /\ ~halted

Answered == cmd \in {"ok", "refused"}
Unsettled == vif.conn \in {"connecting", "disconnecting"}
Silent == evq = <<>> /\ rx.pc = "idle" /\ cmd \notin Requests \cup {"sent"}
          /\ fw.link \in {"none", "idle", "up"} /\ ~fw.leave
-----------------------------------------------------------------------------
(* Calls.                                                                  *)

Call == user = "idle" /\ UserRuns /\ kev = <<>>

\* rwnx_open; the commands before rwnx_send_add_if change nothing modelled.
Open ==
    /\ Call /\ ~kern.run
    /\ vif' = [vif EXCEPT !.conn = "disconnected"]
    /\ cmd' = "add_if" /\ user' = "open"
    /\ UNCHANGED <<env, then, evq, fw, rx, ctx, scan, roc, kern, kev, halted>>

Opened ==
    /\ user = "open" /\ Answered /\ UserRuns
    /\ vif' = [vif EXCEPT !.up = TRUE, !.table = TRUE]
    /\ kern' = [kern EXCEPT !.run = TRUE]
    /\ cmd' = "none" /\ user' = "idle"
    /\ UNCHANGED <<env, then, evq, fw, rx, ctx, scan, roc, kev, halted>>

\* rwnx_cfg80211_connect: cfg80211 has noted the attempt.
Connect ==
    /\ Call /\ kern.run /\ vif.type = "sta"
    /\ vif.conn = "connected" => "roam" \in env
    /\ vif.conn = "roaming" => "refuse" \in env
    /\ kern' = [kern EXCEPT !.ssid = TRUE]
    /\ vif' = [vif EXCEPT !.roam = vif.conn = "connected"]
    /\ user' = IF Unsettled THEN "idle" ELSE "conn_set"
    /\ UNCHANGED <<env, then, cmd, evq, fw, rx, ctx, scan, roc, kev, halted>>

ConnectSend ==
    /\ user = "conn_set" /\ UserRuns
    /\ vif' = [vif EXCEPT !.conn = IF vif.roam THEN "roaming" ELSE "connecting"]
    /\ cmd' = "connect" /\ user' = "conn_cfm"
    /\ UNCHANGED <<env, then, evq, fw, rx, ctx, scan, roc, kern, kev, halted>>

\* A refusal leaves the state; cfg80211 forgets the attempt.
ConnectDone ==
    /\ user = "conn_cfm" /\ Answered /\ UserRuns
    /\ kern' = IF cmd = "ok" THEN kern ELSE [kern EXCEPT !.ssid = kern.bss]
    /\ cmd' = "none" /\ user' = "idle"
    /\ UNCHANGED <<env, then, evq, fw, rx, vif, ctx, scan, roc, kev, halted>>

\* cfg80211 disconnects because it is told to, or before it closes the
\* interface or changes its type.
Disconnect(next) ==
    /\ Call /\ kern.run /\ vif.type = "sta" /\ kern.ssid
    /\ next = "change" => "retype" \in env
    /\ then' = next /\ user' = "disc"
    /\ UNCHANGED <<env, cmd, evq, fw, rx, vif, ctx, scan, roc, kern, kev, halted>>

\* What cfg80211 does when the driver has returned.
Disconnected ==
    /\ kern' = [kern EXCEPT !.ssid = kern.bss]
    /\ user' = then /\ then' = "idle"

\* rwnx_cfg80211_disconnect.
DisconnectTest ==
    /\ user = "disc" /\ UserRuns
    /\ IF vif.conn \in {"disconnected", "disconnecting"}
       THEN Disconnected
       ELSE user' = "disc_set" /\ UNCHANGED <<kern, then>>
    /\ UNCHANGED <<env, cmd, evq, fw, rx, vif, ctx, scan, roc, kev, halted>>

DisconnectSend ==
    /\ user = "disc_set" /\ UserRuns
    /\ vif' = [vif EXCEPT !.conn = "disconnecting"]
    /\ cmd' = "disconnect" /\ user' = "disc_cfm"
    /\ UNCHANGED <<env, then, evq, fw, rx, ctx, scan, roc, kern, kev, halted>>

DisconnectDone ==
    /\ user = "disc_cfm" /\ Answered /\ UserRuns
    /\ Disconnected /\ cmd' = "none"
    /\ UNCHANGED <<env, evq, fw, rx, vif, ctx, scan, roc, kev, halted>>

\* The network core closes the interface when nothing is to be disconnected.
Down ==
    /\ Call /\ kern.run /\ ~kern.ssid
    /\ user' = "close"
    /\ UNCHANGED <<env, then, cmd, evq, fw, rx, vif, ctx, scan, roc, kern, kev, halted>>

\* The scan is aborted and reported.  Wrong variant: the driver stays busy.
AbortedMut == [req |-> FALSE, scanning |-> scan.scanning, kreq |-> scan.kreq /\ ~scan.req]
Aborted == [req |-> FALSE, scanning |-> FALSE, kreq |-> scan.kreq /\ ~scan.req]

\* rwnx_close waits up to 4 s, then aborts the scan.
CloseScan ==
    /\ user = "close" /\ UserRuns
    /\ Unsettled => "haste" \in env \/ Silent
    /\ scan' = Aborted
    /\ IF scan.req
       THEN cmd' = "cancel_scan" /\ user' = "close_cfm"
       ELSE user' = "close_roc" /\ UNCHANGED cmd
    /\ UNCHANGED <<env, then, evq, fw, rx, vif, ctx, roc, kern, kev, halted>>

\* The interface is marked down, not yet taken from the table.
LoweredMut(leave) ==
    [vif EXCEPT !.up = FALSE, !.carrier = FALSE, !.table = FALSE,
                !.conn = IF leave THEN "disconnecting" ELSE @]
Lowered(leave) ==
    [vif EXCEPT !.up = FALSE, !.carrier = FALSE,
                !.conn = IF leave THEN "disconnecting" ELSE @]

\* The stay, the carrier, and the connection that cfg80211 did not end.
CloseRoc ==
    /\ user = "close_roc" \/ (user = "close_cfm" /\ Answered)
    /\ UserRuns
    /\ roc' = FALSE
    /\ kev' = IF vif.carrier THEN Append(kev, "lost") ELSE kev
    /\ LET leave == vif.type = "sta" /\ vif.conn = "connected" IN
       /\ vif' = Lowered(leave)
       /\ cmd' = IF leave THEN "disconnect" ELSE "remove_if"
       /\ user' = IF leave THEN "close_disc" ELSE "close_rem"
    /\ UNCHANGED <<env, then, evq, fw, rx, ctx, scan, kern, halted>>

\* ... which takes up to 2 s.
CloseRemove ==
    /\ user = "close_disc" /\ Answered /\ UserRuns
    /\ vif.conn = "disconnecting" => "haste" \in env \/ Silent
    /\ cmd' = "remove_if" /\ user' = "close_rem"
    /\ UNCHANGED <<env, then, evq, fw, rx, vif, ctx, scan, roc, kern, kev, halted>>

\* rwnx_chanctx_unlink.
UnlinkedMut == ctx
Unlinked ==
    IF vif.ch = None THEN ctx ELSE [ctx EXCEPT ![vif.ch] = IF @ = 0 THEN 0 ELSE @ - 1]

CloseUnlink ==
    /\ user = "close_rem" /\ Answered /\ UserRuns
    /\ vif' = [vif EXCEPT !.table = FALSE, !.ch = None]
    /\ ctx' = Unlinked
    /\ cmd' = "reset" /\ user' = "close_reset"
    /\ UNCHANGED <<env, then, evq, fw, rx, scan, roc, kern, kev, halted>>

Closed ==
    /\ user = "close_reset" /\ Answered /\ UserRuns
    /\ kern' = [kern EXCEPT !.run = FALSE]
    /\ cmd' = "none" /\ user' = "idle"
    /\ UNCHANGED <<env, then, evq, fw, rx, vif, ctx, scan, roc, kev, halted>>
-----------------------------------------------------------------------------
(* Scan, remain on channel, change of type.                                *)

\* rwnx_cfg80211_scan, rwnx_send_scanu_req.
Scan ==
    /\ Call /\ kern.run /\ ~scan.kreq
    /\ vif.conn # "connecting" /\ ~scan.scanning
    /\ scan' = [req |-> TRUE, scanning |-> TRUE, kreq |-> TRUE]
    /\ cmd' = "scan" /\ user' = "wait"
    /\ UNCHANGED <<env, then, evq, fw, rx, vif, ctx, roc, kern, kev, halted>>

\* rwnx_cfg80211_remain_on_channel_, for cfg80211 or for a frame to send
\* (rwnx_cfg80211_mgmt_tx): one stay at a time.
RemainOnChannel ==
    /\ Call /\ kern.run /\ ~roc
    /\ roc' = TRUE
    /\ cmd' = "roc" /\ user' = "roc_cfm"
    /\ UNCHANGED <<env, then, evq, fw, rx, vif, ctx, scan, kern, kev, halted>>

RemainDone ==
    /\ user = "roc_cfm" /\ Answered /\ UserRuns
    /\ roc' = (roc /\ cmd = "ok")
    /\ cmd' = "none" /\ user' = "idle"
    /\ UNCHANGED <<env, then, evq, fw, rx, vif, ctx, scan, kern, kev, halted>>

CancelRemain ==
    /\ Call /\ kern.run /\ roc
    /\ cmd' = "cancel_roc" /\ user' = "wait"
    /\ UNCHANGED <<env, then, evq, fw, rx, vif, ctx, scan, roc, kern, kev, halted>>

Waited ==
    /\ user = "wait" /\ Answered /\ UserRuns
    /\ cmd' = "none" /\ user' = "idle"
    /\ UNCHANGED <<env, then, evq, fw, rx, vif, ctx, scan, roc, kern, kev, halted>>

\* No connection, and none under way.
Bare == Silent /\ vif.conn = "disconnected" /\ ~kern.bss

\* rwnx_cfg80211_change_iface, station to access point and back.
Change ==
    /\ \/ user = "change" /\ UserRuns
       \/ Call /\ ~kern.ssid /\ (Bare \/ "retype" \in env)
    /\ vif' = [vif EXCEPT !.type = IF @ = "sta" THEN "ap" ELSE "sta",
                          !.ap = @ /\ vif.type = "sta"]
    /\ IF ~vif.up THEN user' = "idle" /\ UNCHANGED cmd
       ELSE IF scan.req THEN cmd' = "cancel_scan" /\ user' = "change_scan"
       ELSE cmd' = "remove_if" /\ user' = "change_rem"
    /\ UNCHANGED <<env, then, evq, fw, rx, ctx, scan, roc, kern, kev, halted>>

ChangeScan ==
    /\ user = "change_scan" /\ Answered /\ UserRuns
    /\ cmd' = "remove_if" /\ user' = "change_rem"
    /\ UNCHANGED <<env, then, evq, fw, rx, vif, ctx, scan, roc, kern, kev, halted>>

ChangeRemoved ==
    /\ user = "change_rem" /\ Answered /\ UserRuns
    /\ vif' = [vif EXCEPT !.table = FALSE]
    /\ cmd' = "add_if" /\ user' = "change_add"
    /\ UNCHANGED <<env, then, evq, fw, rx, ctx, scan, roc, kern, kev, halted>>

Changed ==
    /\ user = "change_add" /\ Answered /\ UserRuns
    /\ vif' = [vif EXCEPT !.table = TRUE]
    /\ cmd' = "none" /\ user' = "idle"
    /\ UNCHANGED <<env, then, evq, fw, rx, ctx, scan, roc, kern, kev, halted>>
-----------------------------------------------------------------------------
(* The busrx thread.                                                       *)

\* It takes a message; one for an interface that is gone is not looked for.
Take ==
    /\ rx.pc = "idle" /\ evq # <<>> /\ RxRuns
    /\ LET m == Head(evq) IN
       /\ evq' = Tail(evq)
       /\ rx' = [pc |-> m.type, m |-> m]
    /\ UNCHANGED <<env, user, then, cmd, fw, vif, ctx, scan, roc, kern, kev, halted>>

Return == rx' = [pc |-> "idle", m |-> None]

\* cmd_mgr_msgind: the confirmation of the command.
Confirm ==
    /\ rx.pc = "cfm" /\ RxRuns
    /\ cmd' = rx.m.st
    /\ Return
    /\ UNCHANGED <<env, user, then, evq, fw, vif, ctx, scan, roc, kern, kev, halted>>

\* rwnx_rx_sm_connect_ind: the station, its context and its queues.
ConnectInd ==
    /\ rx.pc = "conn" /\ RxRuns
    /\ IF ~vif.table
       THEN halted' = TRUE /\ UNCHANGED <<vif, ctx>>
       ELSE /\ IF rx.m.st = "ok"
               THEN /\ vif' = [vif EXCEPT !.ap = TRUE, !.ch = rx.m.ch]
                    /\ ctx' = [ctx EXCEPT ![rx.m.ch] = @ + 1]
               ELSE vif' = [vif EXCEPT !.conn = "disconnected"] /\ UNCHANGED ctx
            /\ UNCHANGED halted
    /\ rx' = [rx EXCEPT !.pc = "conn_test"]
    /\ UNCHANGED <<env, user, then, cmd, evq, fw, scan, roc, kern, kev>>

\* "the disconnection has been requested, return it"
ConnectIndTest ==
    /\ rx.pc = "conn_test" /\ RxRuns
    /\ IF rx.m.st = "ok" /\ vif.conn = "disconnecting"
       THEN vif' = [vif EXCEPT !.roam = FALSE] /\ Return
       ELSE rx' = [rx EXCEPT !.pc = "conn_tell"] /\ UNCHANGED vif
    /\ UNCHANGED <<env, user, then, cmd, evq, fw, ctx, scan, roc, kern, kev, halted>>

ConnectIndTell ==
    /\ rx.pc = "conn_tell" /\ RxRuns
    /\ kev' = Append(kev, CASE rx.m.st = "ok" /\ rx.m.re -> "roamed"
                            [] rx.m.st = "ok" /\ ~rx.m.re -> "connected"
                            [] rx.m.st # "ok" /\ rx.m.re -> "lost"
                            [] OTHER -> "failed")
    /\ vif' = [vif EXCEPT
                 !.conn = IF rx.m.st = "ok" THEN "connected" ELSE "disconnected"]
    /\ rx' = [rx EXCEPT !.pc = "conn_end"]
    /\ UNCHANGED <<env, user, then, cmd, evq, fw, ctx, scan, roc, kern, halted>>

ConnectIndEnd ==
    /\ rx.pc = "conn_end" /\ RxRuns
    /\ vif' = [vif EXCEPT !.roam = FALSE, !.carrier = @ \/ rx.m.st = "ok"]
    /\ Return
    /\ UNCHANGED <<env, user, then, cmd, evq, fw, ctx, scan, roc, kern, kev, halted>>

\* cfg80211 is told of the end of a connection of an interface that is up,
\* unless the firmware associates anew.
ToldMut == vif.up /\ ~rx.m.re /\ vif.conn = "connected"
Told == vif.up /\ ~rx.m.re

\* rwnx_rx_sm_disconnect_ind.
DisconnectInd ==
    /\ rx.pc = "disc" /\ RxRuns
    /\ \/ /\ ~vif.table
          /\ halted' = TRUE /\ UNCHANGED <<rx, vif, kev>>
       \/ /\ vif.table /\ vif.conn = "disconnected"
          /\ Return /\ UNCHANGED <<vif, kev, halted>>
       \/ /\ vif.table /\ vif.conn # "disconnected"
          /\ kev' = IF Told THEN Append(kev, "lost") ELSE kev
          /\ vif' = [vif EXCEPT !.carrier = @ /\ ~vif.up]
          /\ halted' = (vif.type = "ap")
          /\ rx' = [rx EXCEPT !.pc = "disc_ap"]
    /\ UNCHANGED <<env, user, then, cmd, evq, fw, ctx, scan, roc, kern>>

\* The queues of the station, the station and its channel context.
DisconnectIndAp ==
    /\ rx.pc = "disc_ap" /\ RxRuns
    /\ IF ~vif.ap
       THEN halted' = TRUE /\ UNCHANGED <<vif, ctx>>
       ELSE /\ vif' = [vif EXCEPT !.ap = FALSE, !.ch = None]
            /\ ctx' = Unlinked
            /\ UNCHANGED halted
    /\ rx' = [rx EXCEPT !.pc = "disc_end"]
    /\ UNCHANGED <<env, user, then, cmd, evq, fw, scan, roc, kern, kev>>

GoneMut == IF vif.roam THEN [vif EXCEPT !.conn = "disconnected"] ELSE vif
Gone == IF vif.roam THEN vif ELSE [vif EXCEPT !.conn = "disconnected"]

DisconnectIndEnd ==
    /\ rx.pc = "disc_end" /\ RxRuns
    /\ vif' = Gone
    /\ Return
    /\ UNCHANGED <<env, user, then, cmd, evq, fw, ctx, scan, roc, kern, kev, halted>>

\* rwnx_rx_scanu_start_cfm: the request that the driver holds is done.
ScanDone ==
    /\ rx.pc = "scan" /\ RxRuns
    /\ scan' = [req |-> FALSE, scanning |-> FALSE, kreq |-> scan.kreq /\ ~scan.req]
    /\ Return
    /\ UNCHANGED <<env, user, then, cmd, evq, fw, vif, ctx, roc, kern, kev, halted>>

\* rwnx_rx_remain_on_channel_exp_ind.
RemainExpired ==
    /\ rx.pc = "roc_end" /\ RxRuns
    /\ roc' = FALSE
    /\ Return
    /\ UNCHANGED <<env, user, then, cmd, evq, fw, vif, ctx, scan, kern, kev, halted>>
-----------------------------------------------------------------------------
(* The firmware and cfg80211's work.                                       *)

Says(m) == evq' = Append(evq, m)
Cfm(st) == [type |-> "cfm", st |-> st]
Conn(st, re, ch) == [type |-> "conn", st |-> st, re |-> re, ch |-> ch]
Disc(re) == [type |-> "disc", re |-> re]

FwAccepts ==
    /\ cmd \in Requests
    /\ cmd = "connect" => fw.link \in {"idle", "up"}
    /\ fw' = CASE cmd = "add_if" -> [fw EXCEPT !.link = "idle"]
               [] cmd = "remove_if" -> [fw EXCEPT !.link = "none", !.leave = FALSE]
               [] cmd = "reset" -> [fw EXCEPT !.scan = FALSE, !.roc = FALSE]
               [] cmd = "connect" ->
                    [fw EXCEPT !.link = IF @ = "up" THEN "roaming" ELSE "joining"]
               [] cmd = "disconnect" -> [fw EXCEPT !.leave = fw.link # "idle"]
               [] cmd = "scan" -> [fw EXCEPT !.scan = TRUE]
               [] cmd = "roc" -> [fw EXCEPT !.roc = TRUE]
               [] OTHER -> fw
    /\ Says(Cfm("ok")) /\ cmd' = "sent"
    /\ UNCHANGED <<env, user, then, rx, vif, ctx, scan, roc, kern, kev, halted>>

FwRefuses ==
    /\ cmd \in {"connect", "roc"}
    /\ cmd = "connect" => "refuse" \in env \/ fw.link \notin {"idle", "up"}
    /\ Says(Cfm("refused")) /\ cmd' = "sent"
    /\ UNCHANGED <<env, user, then, fw, rx, vif, ctx, scan, roc, kern, kev, halted>>

Fw(m, f) ==
    /\ Says(m) /\ fw' = f
    /\ UNCHANGED <<env, user, then, cmd, rx, vif, ctx, scan, roc, kern, kev, halted>>

\* A connection attempt ends, one that replaces a connection by ending that first.
FwConnected(c) ==
    /\ fw.link \in {"joining", "rejoining"}
    /\ Fw(Conn("ok", fw.link = "rejoining", c), [fw EXCEPT !.link = "up"])

FwFailed ==
    /\ fw.link \in {"joining", "rejoining"}
    /\ Fw(Conn("failed", fw.link = "rejoining", None),
          [fw EXCEPT !.link = "idle", !.leave = FALSE])

FwLeaves ==
    \/ fw.link = "roaming" /\ Fw(Disc(TRUE), [fw EXCEPT !.link = "rejoining"])
    \/ /\ fw.link = "up" /\ (fw.leave \/ "drop" \in env)
       /\ Fw(Disc(FALSE), [fw EXCEPT !.link = "idle", !.leave = FALSE])

FwScanned == fw.scan /\ Fw([type |-> "scan"], [fw EXCEPT !.scan = FALSE])
FwRemained == fw.roc /\ Fw([type |-> "roc_end"], [fw EXCEPT !.roc = FALSE])

\* cfg80211_event_work, under the RTNL.
KernEvent ==
    /\ user = "idle" /\ kev # <<>> /\ UserRuns
    /\ kern' = CASE Head(kev) = "connected" -> [kern EXCEPT !.bss = TRUE]
                 [] Head(kev) = "roamed" -> kern
                 [] OTHER -> [kern EXCEPT !.ssid = FALSE, !.bss = FALSE]
    /\ kev' = Tail(kev)
    /\ UNCHANGED <<env, user, then, cmd, evq, fw, rx, vif, ctx, scan, roc, halted>>
-----------------------------------------------------------------------------
Continue ==
    \/ Opened \/ ConnectSend \/ ConnectDone
    \/ DisconnectTest \/ DisconnectSend \/ DisconnectDone
    \/ CloseScan \/ CloseRoc \/ CloseRemove \/ CloseUnlink \/ Closed
    \/ RemainDone \/ Waited \/ ChangeScan \/ ChangeRemoved \/ Changed

Begin ==
    \/ Open \/ Connect \/ Down \/ Scan \/ RemainOnChannel \/ CancelRemain \/ Change
    \/ \E next \in {"idle", "close", "change"} : Disconnect(next)

Busrx ==
    \/ Take \/ Confirm \/ ConnectInd \/ ConnectIndTest \/ ConnectIndTell
    \/ ConnectIndEnd \/ DisconnectInd \/ DisconnectIndAp \/ DisconnectIndEnd
    \/ ScanDone \/ RemainExpired

Firmware ==
    \/ FwAccepts \/ FwRefuses \/ FwFailed \/ FwLeaves
    \/ FwScanned \/ FwRemained
    \/ \E c \in Chans : FwConnected(c)

Next == Begin \/ Continue \/ Busrx \/ Firmware \/ KernEvent

Spec == Init /\ [][Next]_vars

\* The call in progress, the busrx thread and cfg80211's work go on; the
\* firmware answers, and ends what it has begun.
Fairness ==
    /\ WF_vars(Continue) /\ WF_vars(Busrx) /\ WF_vars(KernEvent)
    /\ WF_vars(FwAccepts \/ FwRefuses)
    /\ WF_vars(FwFailed \/ \E c \in Chans : FwConnected(c))
    /\ WF_vars(FwLeaves /\ (fw.leave \/ fw.link = "roaming"))
    /\ WF_vars(FwScanned) /\ WF_vars(FwRemained)

FairSpec == Spec /\ Fairness
-----------------------------------------------------------------------------
(* Properties.                                                             *)

\* No indication finds the interface gone from vif_table, its station already
\* freed, or an access point where the code says "should be not here":
\* rwnx_close and change_iface take the entry away only when the firmware has
\* removed the interface and said all it had to say.
NoOops == ~halted

\* A channel context has exactly the links of the interface: one indication
\* links, another or rwnx_close unlinks, in whatever order the two threads run.
ContextsCounted == \A c \in Chans : ctx[c] = IF vif.ch = c THEN 1 ELSE 0

\* When nothing is under way, driver, network core, cfg80211 and firmware hold
\* the same opinion of the connection.  (Not so once cfg80211 reassociates.)
Quiet == Silent /\ user = "idle" /\ kev = <<>> /\ kern.run /\ vif.type = "sta"

Agreement ==
    Quiet /\ "roam" \notin env =>
       /\ vif.conn = IF fw.link = "up" THEN "connected" ELSE "disconnected"
       /\ vif.ap = (fw.link = "up")
       /\ vif.carrier = (fw.link = "up")
       /\ kern.bss = (fw.link = "up")

\* cfg80211 learns the end of every attempt to connect, from the indication or
\* from the refusal of the command, unless it has given up itself.
AttemptsEnd == kern.ssid /\ ~kern.bss ~> kern.bss \/ ~kern.ssid

\* Every scan is reported to cfg80211, by the firmware's end of it or by the
\* abort in rwnx_close, the flag that refuses further scans as busy falls, and
\* the one place for a stay on a channel frees itself.
RequestsEnd ==
    /\ scan.kreq ~> ~scan.kreq
    /\ scan.scanning ~> ~scan.scanning
    /\ roc ~> ~roc
=============================================================================
