----------------------------- MODULE TaskingNic -----------------------------
(***************************************************************************)
(* Tasking with the network card's interrupt.  The last process late_init  *)
(* starts, "pci", brings the card up and then calls _kill with the card's  *)
(* interrupt enabled.  The handler runs on the stack of whoever it         *)
(* interrupts; icmp_recv prints "Echo request from ..." there, and         *)
(* printing takes a mutex, whose lock and unlock both call                 *)
(* schedule_noirq.  set_task(0) does not stop that switch: it only stops   *)
(* the PIT.                                                                *)
(***************************************************************************)
EXTENDS MCTasking

\* eth_intel_init has run: "pci" has reached the _kill that ends its body.
NicUp ==
    /\ lpid = Len(Starts) + 2
    /\ \A s \in Slots : pid[s] = lpid => pc[s] # "body"

(* An echo request arrives between two statements of the current process:  *)
(* the handler's print hands the CPU on; when c gets it back the handler   *)
(* returns to the statement it interrupted.                                *)
EchoRequest ==
    /\ c \in Slots /\ iflag[c]
    /\ NicUp
    /\ schedule_noirq
    /\ UNCHANGED <<links, heap, pit, boot, pc, iflag, task>>

NicSpec == Init /\ [][Next \/ EchoRequest]_vars

(* "adds process but take care of thers also" (src/src/tasking.c:242): the *)
(* set_task(0) ... set_task(1) around the link updates, which _kill uses   *)
(* too, keeps the other processes from seeing them half done.              *)
OthersSeeARing ==
    pc[c] \notin Adding \cup Killing =>
        \A s \in Linked :
            /\ next[s] \in Linked /\ prev[next[s]] = s
            /\ prev[s] \in Linked /\ next[prev[s]] = s
=============================================================================
