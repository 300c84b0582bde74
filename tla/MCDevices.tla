----------------------------- MODULE MCDevices ------------------------------
(* Small instances of the two devices one process polls: of a behaviour    *)
(* one of them is chosen at the start and the other rests.                 *)
EXTENDS Keyboard, Ata

VARIABLE device

DevicesInit ==
    /\ KeyInit /\ Init
    /\ device \in {"keyboard", "disk"}
    /\ device = "disk" \/ phase = [d \in Drive |-> "none"]

DevicesNext ==
    \/ device = "keyboard" /\ KeyNext /\ UNCHANGED <<device, vars>>
    \/ device = "disk"     /\ Next    /\ UNCHANGED <<device, keyVars>>

DevicesSpec ==
    /\ DevicesInit /\ [][DevicesNext]_<<device, keyVars, vars>>
    /\ device = "keyboard" => KeyFairness
    /\ device = "disk" => Fairness

(* The calls that must end are those of the disk, where it is there.       *)
DiskCallsEnd == device = "disk" => CallsEnd
=============================================================================
