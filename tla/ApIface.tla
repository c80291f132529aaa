------------------------------- MODULE ApIface -------------------------------
(***************************************************************************)
(* The interface of StaIface as an access point: starting and stopping it, *)
(* adding, deleting and probing stations (rwnx_main.c), and the loss of a  *)
(* station, which the firmware indicates and a work item handles without   *)
(* the RTNL (apm_staloss_work_process).                                    *)
(*                                                                         *)
(* Calls and work delete stations by address and sleep half way.           *)
(***************************************************************************)
EXTENDS StaIface

CONSTANTS
    Peers,      \* addresses of stations
    Ids         \* indices that the firmware gives to stations

ASSUME ApAssumption == None \notin Peers \cup Ids

VARIABLES
    ap,     \* beacon: cfg80211 holds it started; stopping: rwnx_cfg80211_stop_ap
            \* runs; wq and probing: apmprobe_wq and its work
    arg,    \* the station of the call: its address, its index
    list,   \* ap.sta_list, by index
    mac,    \* mac_addr in sta_table
    queues, \* stations whose queues are initialised
    host,   \* stations that hostapd holds
    loss,   \* sta_mac_addr, and whether apmStalossWork is queued
    work,   \* apm_staloss_work_process: where it is, its station, its command
    next,   \* the command of the work is the next one for the firmware
    fwSta,  \* firmware: its stations by index
    lost    \* ... and those whose loss it has indicated

apVars == <<ap, arg, list, mac, queues, host, loss, work, next, fwSta, lost>>
allVars == <<vars, apVars>>

ApRequests == {"apm_start", "apm_stop", "sta_add", "sta_del"}

Nobody == [mac |-> None, id |-> None]

ApInit ==
    /\ Init
    /\ ap = [beacon |-> FALSE, stopping |-> FALSE, wq |-> "none", probing |-> FALSE]
    /\ arg = Nobody
    /\ list = {} /\ mac = [i \in Ids |-> None] /\ queues = {} /\ host = {}
    /\ loss = [mac |-> None, queued |-> FALSE]
    /\ work = [pc |-> "idle", id |-> None, cmd |-> "none"] /\ next = TRUE
    /\ fwSta = [i \in Ids |-> None] /\ lost = {}

\* A call of cfg80211 on the access point it has started.
ApCall == Call /\ kern.run /\ ap.beacon

At(p) == {i \in list : mac[i] = p}
-----------------------------------------------------------------------------
(* Starting and stopping.                                                  *)

\* rwnx_cfg80211_start_ap
StartAp ==
    /\ "ap" \in env /\ Call /\ kern.run /\ vif.type = "ap" /\ ~ap.beacon
    /\ ap' = [ap EXCEPT !.wq = "live"]
    /\ cmd' = "apm_start" /\ user' = "ap_start"
    /\ UNCHANGED <<env, then, evq, fw, rx, vif, ctx, scan, roc, kern, kev, halted>>
    /\ UNCHANGED <<arg, list, mac, queues, host, loss, work, next, fwSta, lost>>

ApStarted(c) ==
    /\ user = "ap_start" /\ Answered /\ UserRuns
    /\ IF cmd = "ok"
       THEN /\ vif' = [vif EXCEPT !.ch = c, !.carrier = TRUE]
            /\ ctx' = [ctx EXCEPT ![c] = @ + 1]
            /\ ap' = [ap EXCEPT !.beacon = TRUE]
       ELSE UNCHANGED <<vif, ctx, ap>>
    /\ cmd' = "none" /\ user' = "idle"
    /\ UNCHANGED <<env, then, evq, fw, rx, scan, roc, kern, kev, halted>>
    /\ UNCHANGED <<arg, list, mac, queues, host, loss, work, next, fwSta, lost>>

\* rwnx_cfg80211_stop_ap, also before the interface is closed or changed:
\* one station after the other is deleted ...
StopAp ==
    /\ ApCall
    /\ vif' = [vif EXCEPT !.carrier = FALSE]
    /\ ap' = [ap EXCEPT !.stopping = TRUE] /\ user' = "ap_stop"
    /\ UNCHANGED <<env, then, cmd, evq, fw, rx, ctx, scan, roc, kern, kev, halted>>
    /\ UNCHANGED <<arg, list, mac, queues, host, loss, work, next, fwSta, lost>>

\* ... until the list is empty
StopSend ==
    /\ user = "ap_stop" /\ list = {} /\ UserRuns
    /\ cmd' = "apm_stop" /\ user' = "ap_stop_cfm"
    /\ UNCHANGED <<env, then, evq, fw, rx, vif, ctx, scan, roc, kern, kev, halted>>
    /\ UNCHANGED apVars

\* The work queue is flushed, so it is seen to be idle, before it is destroyed.
ApStopped ==
    /\ user = "ap_stop_cfm" /\ Answered /\ UserRuns /\ ~ap.probing
    /\ vif' = [vif EXCEPT !.ch = None] /\ ctx' = Unlinked
    /\ ap' = [ap EXCEPT !.beacon = FALSE, !.stopping = FALSE, !.wq = "destroyed"]
    /\ host' = {}
    /\ cmd' = "none" /\ user' = "idle"
    /\ UNCHANGED <<env, then, evq, fw, rx, scan, roc, kern, kev, halted>>
    /\ UNCHANGED <<arg, list, mac, queues, loss, work, next, fwSta, lost>>
-----------------------------------------------------------------------------
(* Stations.                                                               *)

\* rwnx_cfg80211_add_station: hostapd has deleted what it held of the station.
AddStation(p) ==
    /\ ApCall /\ p \notin host
    /\ arg' = [Nobody EXCEPT !.mac = p] /\ cmd' = "sta_add" /\ user' = "ap_add"
    /\ UNCHANGED <<env, then, evq, fw, rx, vif, ctx, scan, roc, kern, kev, halted>>
    /\ UNCHANGED <<ap, list, mac, queues, host, loss, work, next, fwSta, lost>>

StationAdded ==
    /\ user = "ap_add" /\ Answered /\ UserRuns
    /\ IF cmd = "ok"
       THEN /\ list' = list \cup {arg.id} /\ queues' = queues \cup {arg.id}
            /\ mac' = [mac EXCEPT ![arg.id] = arg.mac]
            /\ host' = host \cup {arg.mac}
       ELSE UNCHANGED <<list, mac, queues, host>>
    /\ arg' = Nobody /\ cmd' = "none" /\ user' = "idle"
    /\ UNCHANGED <<env, then, evq, fw, rx, vif, ctx, scan, roc, kern, kev, halted>>
    /\ UNCHANGED <<ap, loss, work, next, fwSta, lost>>

\* The station is taken from the list, under cb_lock.  Wrong variant: it stays.
LeftMut(i) == list
Left(i) == list \ {i}

\* rwnx_cfg80211_del_station_compat takes a station from the list
\* and then waits for the worker of its reorder windows.
Unlist(i) ==
    /\ list' = Left(i) /\ arg' = [Nobody EXCEPT !.id = i] /\ user' = "ap_reord"
    /\ UNCHANGED <<env, then, cmd, evq, fw, rx, vif, ctx, scan, roc, kern, kev, halted>>
    /\ UNCHANGED <<ap, mac, queues, loss, work, next, fwSta, lost>>

DelStation(p) ==
    /\ ApCall /\ p \in host /\ host' = host \ {p}
    /\ IF At(p) # {}
       THEN \E i \in At(p) : Unlist(i)
       ELSE /\ UNCHANGED vars
            /\ UNCHANGED <<ap, arg, list, mac, queues, loss, work, next, fwSta, lost>>

StopDel ==
    /\ user = "ap_stop" /\ UserRuns /\ UNCHANGED host
    /\ \E i \in list : Unlist(i)

DelSend ==
    /\ user = "ap_reord" /\ UserRuns
    /\ queues' = queues \ {arg.id}
    /\ cmd' = "sta_del" /\ user' = "ap_del"
    /\ UNCHANGED <<env, then, evq, fw, rx, vif, ctx, scan, roc, kern, kev, halted>>
    /\ UNCHANGED <<ap, arg, list, mac, host, loss, work, next, fwSta, lost>>

DelDone ==
    /\ user = "ap_del" /\ Answered /\ UserRuns
    /\ arg' = Nobody /\ cmd' = "none"
    /\ user' = IF ap.stopping THEN "ap_stop" ELSE "idle"
    /\ UNCHANGED <<env, then, evq, fw, rx, vif, ctx, scan, roc, kern, kev, halted>>
    /\ UNCHANGED <<ap, list, mac, queues, host, loss, work, next, fwSta, lost>>

\* rwnx_cfg80211_probe_client queues the work whether or not it finds the
\* station; apm_probe_sta_work_process reports what it finds.
Probe(p) ==
    /\ ApCall /\ p \in host
    /\ ap' = [ap EXCEPT !.probing = TRUE]
    /\ halted' = (ap.wq # "live")
    /\ UNCHANGED <<env, user, then, cmd, evq, fw, rx, vif, ctx, scan, roc, kern, kev>>
    /\ UNCHANGED <<arg, list, mac, queues, host, loss, work, next, fwSta, lost>>

Probed ==
    /\ ap.probing /\ ap' = [ap EXCEPT !.probing = FALSE]
    /\ UNCHANGED <<arg, list, mac, queues, host, loss, work, next, fwSta, lost>>
    /\ UNCHANGED vars
-----------------------------------------------------------------------------
(* The loss of a station.                                                  *)

\* rwnx_apm_staloss_ind: the address is kept in one place.
LossInd ==
    /\ rx.pc = "loss" /\ RxRuns
    /\ loss' = [mac |-> rx.m.mac, queued |-> TRUE]
    /\ Return
    /\ UNCHANGED <<env, user, then, cmd, evq, fw, vif, ctx, scan, roc, kern, kev, halted>>
    /\ UNCHANGED <<ap, arg, list, mac, queues, host, work, next, fwSta, lost>>

\* apm_staloss_work_process: as in rwnx_cfg80211_del_station_compat.
LossWork ==
    /\ loss.queued /\ work.pc = "idle" /\ ~halted
    /\ loss' = [loss EXCEPT !.queued = FALSE]
    /\ IF vif.type = "ap" /\ At(loss.mac) # {}
       THEN \E i \in At(loss.mac) :
              /\ list' = Left(i)
              /\ work' = [work EXCEPT !.pc = "reord", !.id = i]
       ELSE UNCHANGED <<list, work>>
    /\ UNCHANGED vars
    /\ UNCHANGED <<ap, arg, mac, queues, host, next, fwSta, lost>>

LossSend ==
    /\ work.pc = "reord" /\ ~halted
    /\ queues' = queues \ {work.id}
    /\ work' = [work EXCEPT !.pc = "cfm", !.cmd = "sta_del"]
    /\ next' = (cmd \notin Requests \cup ApRequests)
    /\ UNCHANGED vars
    /\ UNCHANGED <<ap, arg, list, mac, host, loss, fwSta, lost>>

LossConfirm ==
    /\ rx.pc = "loss_cfm" /\ RxRuns
    /\ work' = [work EXCEPT !.cmd = "ok"]
    /\ Return
    /\ UNCHANGED <<env, user, then, cmd, evq, fw, vif, ctx, scan, roc, kern, kev, halted>>
    /\ UNCHANGED <<ap, arg, list, mac, queues, host, loss, next, fwSta, lost>>

LossDone ==
    /\ work.pc = "cfm" /\ work.cmd = "ok" /\ ~halted
    /\ work' = [pc |-> "idle", id |-> None, cmd |-> "none"]
    /\ UNCHANGED vars
    /\ UNCHANGED <<ap, arg, list, mac, queues, host, loss, next, fwSta, lost>>
-----------------------------------------------------------------------------
(* The firmware takes commands in the order in which they were queued.     *)

\* It does not answer while the work waits for a worker that never sleeps.
Pausing == work.pc = "reord" /\ "haste" \notin env
UsersTurn == (work.cmd # "sta_del" \/ ~next) /\ ~Pausing
WorksTurn == work.cmd = "sta_del" /\ (next \/ cmd \notin Requests \cup ApRequests)

Dropped(i) == fwSta' = [fwSta EXCEPT ![i] = None] /\ lost' = lost \ {i}

FwApAccepts ==
    /\ cmd \in ApRequests /\ UsersTurn
    /\ CASE cmd = "sta_add" -> \E i \in Ids :
              /\ fwSta[i] = None
              /\ fwSta' = [fwSta EXCEPT ![i] = arg.mac] /\ arg' = [arg EXCEPT !.id = i]
              /\ UNCHANGED lost
         [] cmd = "sta_del" -> Dropped(arg.id) /\ UNCHANGED arg
         [] OTHER -> UNCHANGED <<fwSta, lost, arg>>
    /\ Says(Cfm("ok")) /\ cmd' = "sent" /\ next' = TRUE
    /\ UNCHANGED <<env, user, then, fw, rx, vif, ctx, scan, roc, kern, kev, halted>>
    /\ UNCHANGED <<ap, list, mac, queues, host, loss, work>>

FwApRefuses ==
    /\ UsersTurn
    /\ \/ cmd = "apm_start"
       \/ cmd = "sta_add" /\ None \notin {fwSta[i] : i \in Ids}
    /\ Says(Cfm("refused")) /\ cmd' = "sent" /\ next' = TRUE
    /\ UNCHANGED <<env, user, then, fw, rx, vif, ctx, scan, roc, kern, kev, halted>>
    /\ UNCHANGED <<ap, arg, list, mac, queues, host, loss, work, fwSta, lost>>

FwLossAccepts ==
    /\ WorksTurn
    /\ Dropped(work.id)
    /\ Says([type |-> "loss_cfm"]) /\ work' = [work EXCEPT !.cmd = "sent"]
    /\ UNCHANGED <<env, user, then, cmd, fw, rx, vif, ctx, scan, roc, kern, kev, halted>>
    /\ UNCHANGED <<ap, arg, list, mac, queues, host, loss, next>>

FwLoses(i) ==
    /\ fwSta[i] # None /\ i \notin lost
    /\ lost' = lost \cup {i}
    /\ Says([type |-> "loss", mac |-> fwSta[i]])
    /\ UNCHANGED <<env, user, then, cmd, fw, rx, vif, ctx, scan, roc, kern, kev, halted>>
    /\ UNCHANGED <<ap, arg, list, mac, queues, host, loss, work, next, fwSta>>
-----------------------------------------------------------------------------
\* The interface as a station, or going up, down and to another type; the access
\* point is stopped first.
StaNext ==
    /\ Next
    /\ user' \in {"close", "change_scan", "change_rem"} => ~ap.beacon
    /\ "ap" \in env => user' \notin {"conn_set", "roc_cfm", "wait"}
    /\ IF cmd' = "sent" /\ cmd # "sent"
       THEN UsersTurn /\ next' = TRUE
       ELSE UNCHANGED next
    /\ IF cmd' = "sent" /\ cmd \in {"remove_if", "reset"}
       THEN fwSta' = [i \in Ids |-> None] /\ lost' = {}
       ELSE UNCHANGED <<fwSta, lost>>
    /\ UNCHANGED <<ap, arg, list, mac, queues, host, loss, work>>

ApContinue ==
    \/ StopSend \/ ApStopped \/ StationAdded \/ StopDel \/ DelSend \/ DelDone
    \/ \E c \in Chans : ApStarted(c)

ApBegin ==
    \/ StartAp \/ StopAp
    \/ \E p \in Peers : AddStation(p) \/ DelStation(p) \/ Probe(p)

ApWorks == LossWork \/ LossSend \/ LossDone \/ Probed

ApFirmware ==
    \/ FwApAccepts \/ FwApRefuses \/ FwLossAccepts
    \/ \E i \in Ids : FwLoses(i)

ApNext ==
    \/ StaNext \/ ApBegin \/ ApContinue \/ ApWorks \/ ApFirmware
    \/ LossInd \/ LossConfirm

ApSpec == ApInit /\ [][ApNext]_allVars
ApFairSpec ==
    /\ ApSpec /\ Fairness
    /\ WF_allVars(ApContinue) /\ WF_allVars(ApWorks)
    /\ WF_allVars(LossInd \/ LossConfirm)
    /\ WF_allVars(FwApAccepts \/ FwApRefuses) /\ WF_allVars(FwLossAccepts)
-----------------------------------------------------------------------------
(* Properties.                                                             *)

ApQuiet ==
    /\ Silent /\ user = "idle" /\ kern.run
    /\ work.pc = "idle" /\ ~loss.queued

\* When nothing is under way, driver and firmware hold the same stations at the
\* same indices, each with its queues and of an address of its own, although
\* calls and the work that handles a loss delete them by address and reuse
\* indices while the other sleeps.
StationsAgree ==
    /\ ApQuiet =>
         /\ \A i \in Ids : fwSta[i] = IF i \in list THEN mac[i] ELSE None
         /\ list \subseteq queues /\ queues \subseteq list
         /\ list # {} => ap.beacon
    /\ \A i, j \in list : mac[i] = mac[j] => i = j
=============================================================================
