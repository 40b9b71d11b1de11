---------------------------- MODULE QuorumSafety ----------------------------
(***************************************************************************)
(* What the quorum/fencing safety engine promises the cluster (spec.md    *)
(* 4.5, 4.6, 9), stated over cluster-wide facts only: how many nodes,      *)
(* whether a quorum device is configured, whether auto_tie_breaker is on,  *)
(* and how SBD fences ("off", with "devices" on every node, or watchdog-  *)
(* only).  An even cluster without a quorum device that fences by watchdog *)
(* only is symmetrically splittable and needs auto_tie_breaker.            *)
(*                                                                         *)
(* A topology change or an SBD enable switches auto_tie_breaker on exactly *)
(* when the cluster it leaves behind needs it; switching it off is refused *)
(* while it is needed; the SBD mode is all-or-nothing across the cluster   *)
(* and does not change while SBD runs.  None of this depends on which node *)
(* a command runs on.                                                      *)
(***************************************************************************)
EXTENDS Naturals

VARIABLES
    size,     \* number of cluster nodes
    qdevice,  \* a quorum device is configured
    atb,      \* auto_tie_breaker is on
    fencing   \* "off" | "devices" | "watchdog"

absVars == <<size, qdevice, atb, fencing>>

NeedsAtb(n, hasQdevice, mode) == mode = "watchdog" /\ ~hasQdevice /\ n % 2 = 0

\* Nodes join or leave; the SBD mode stays.
Resize ==
    /\ size' # size /\ size' \in Nat /\ size' > 0
    /\ atb' = (atb \/ NeedsAtb(size', qdevice, fencing))
    /\ UNCHANGED <<qdevice, fencing>>

\* A quorum device is added or removed.
SetQdevice ==
    /\ qdevice' = ~qdevice
    /\ atb' = (atb \/ NeedsAtb(size, qdevice', fencing))
    /\ UNCHANGED <<size, fencing>>

EnableFencing ==
    /\ fencing = "off"
    /\ fencing' \in {"devices", "watchdog"}
    /\ atb' = (atb \/ NeedsAtb(size, qdevice, fencing'))
    /\ UNCHANGED <<size, qdevice>>

DisableFencing ==
    /\ fencing # "off" /\ fencing' = "off"
    /\ UNCHANGED <<size, qdevice, atb>>

AtbOn ==
    /\ ~atb /\ atb'
    /\ UNCHANGED <<size, qdevice, fencing>>

AtbOff ==
    /\ atb /\ ~NeedsAtb(size, qdevice, fencing) /\ ~atb'
    /\ UNCHANGED <<size, qdevice, fencing>>

Init ==
    /\ size \in Nat /\ size > 0
    /\ qdevice = FALSE
    /\ atb = FALSE
    /\ fencing = "off"

Next == Resize \/ SetQdevice \/ EnableFencing \/ DisableFencing \/ AtbOn \/ AtbOff

Spec == Init /\ [][Next]_absVars

=============================================================================
