---------------------------- MODULE RoundRobin ----------------------------
(***************************************************************************)
(* What a round-robin scheduler promises: one process runs, the others     *)
(* wait in a queue and get the CPU in its order.  A new process is served  *)
(* next.  A process that exits keeps the CPU until the next rotation and   *)
(* does not come back.  src/tasking.c implements this queue by a circular  *)
(* doubly linked list of PCBs.                                             *)
(***************************************************************************)
EXTENDS Sequences

CONSTANT Proc
VARIABLES cur, queue, leaving

rrvars == <<cur, queue, leaving>>

InQueue(q) == \E i \in DOMAIN queue : queue[i] = q

RRInit ==
    /\ cur \in Proc
    /\ \E q \in Proc \ {cur} : queue = <<q>>
    /\ leaving = FALSE

Admit(q) ==
    /\ ~leaving /\ q # cur /\ ~InQueue(q)
    /\ queue' = <<q>> \o queue
    /\ UNCHANGED <<cur, leaving>>

Exit ==
    /\ ~leaving /\ queue # <<>>
    /\ leaving' = TRUE
    /\ UNCHANGED <<cur, queue>>

Rotate ==
    LET q == IF leaving THEN queue ELSE Append(queue, cur)
    IN  cur' = Head(q) /\ queue' = Tail(q) /\ leaving' = FALSE

RRNext == Exit \/ Rotate \/ \E q \in Proc : Admit(q)

RRSpec == RRInit /\ [][RRNext]_rrvars
=============================================================================
