------------------------- MODULE TaskingRoundRobin -------------------------
(***************************************************************************)
(* The ring of Tasking read as the queue of RoundRobin, by walking `next`  *)
(* from the current process.                                               *)
(***************************************************************************)
EXTENDS Tasking, FiniteSets, FiniteSetsExt

\* The n-th process after c in the links.
follower[n \in Nat] == IF n = 0 THEN next[c] ELSE next[follower[n - 1]]

\* c has left the ring: its predecessor skips it.
Leaving == next[prev[c]] # c

\* The walk ends where it meets c or, when c is leaving, where it began.
QueueLength ==
    IF Leaving THEN Min({n \in 1 .. Cardinality(Slots) : follower[n] = next[c]})
               ELSE Min({n \in 0 .. Cardinality(Slots) : follower[n] = c})

Queue == [i \in 1 .. QueueLength |-> follower[i - 1]]

RR == INSTANCE RoundRobin WITH
          Proc <- Slots, cur <- c, queue <- Queue, leaving <- Leaving

(* The PCB ring implements a round-robin queue: every step of the kernel,  *)
(* the half-done link updates included, admits, removes or rotates, or is  *)
(* invisible to the scheduler.                                             *)
RoundRobinSpec == RR!RRSpec
=============================================================================
