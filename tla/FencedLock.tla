---------------------------- MODULE FencedLock ----------------------------
(***************************************************************************)
(* What the leader store of hiveplane promises to its users: leadership is *)
(* handed out in numbered epochs, each epoch belongs to exactly one        *)
(* replica, and an epoch once handed out is never handed out again.        *)
(* Module LeaderElection, the lease row and the electors that use it, is   *)
(* shown to implement this specification.                                  *)
(***************************************************************************)
EXTENDS Naturals

CONSTANTS
    Replicas,   \* the control-plane replicas
    MaxEpoch    \* bound on the number of epochs handed out

VARIABLES
    epoch,      \* the newest epoch handed out, 0 before the first
    owner       \* the replica each epoch was handed to, "none" if not yet

fvars == <<epoch, owner>>

Init ==
    /\ epoch = 0
    /\ owner = [e \in 1..MaxEpoch |-> "none"]

\* A replica becomes the leader of the next epoch.
Elect(r) ==
    /\ epoch < MaxEpoch
    /\ epoch' = epoch + 1
    /\ owner' = [owner EXCEPT ![epoch + 1] = r]

Next == \E r \in Replicas : Elect(r)

Spec == Init /\ [][Next]_fvars
=============================================================================
