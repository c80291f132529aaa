------------------------------ MODULE MCCmdMgr ------------------------------
(***************************************************************************)
(* CmdMgr for TLC: the message types of the runs, and their symmetry.      *)
(***************************************************************************)
EXTENDS CmdMgr, TLC

\* One type per way of sending that the run allows (Msgs \subseteq DOMAIN).
MCKind ==
    [m \in Msgs |->
        CASE m = "SCANU_START_REQ"           -> "plain"
          [] m = "MM_ADD_IF_REQ"             -> "cfm"
          [] m = "ME_TRAFFIC_IND_REQ"        -> "ind"
          [] m = "MM_REMOVE_IF_REQ"          -> "defer"
          [] m = "MESH_PATH_CREATE_REQ"     -> "nocfm"
          [] OTHER                           -> "plain"]

\* The code treats senders alike and commands of the pool alike.
Symmetric == Permutations(Senders) \cup Permutations(Slots)

=============================================================================
