--------------------------- MODULE TaskingProofs ---------------------------
(***************************************************************************)
(* Safety of the scheduler for any number of blocks and any boot script.   *)
(*                                                                         *)
(* The links are only a ring between two updates.  The strengthened        *)
(* invariant says, for each statement of an update, of which links they    *)
(* are the half-done version; Insert and Remove show that completing the   *)
(* update gives a ring again, on one more or one fewer process.            *)
(*                                                                         *)
(* The last part shows that the ring implements the queue of RoundRobin,   *)
(* for any finite number of blocks, any boot script and any faults.  The   *)
(* walk from the current process is described by a function w that lists   *)
(* the processes in the order in which `next` reaches them; one lemma      *)
(* shows that TaskingRoundRobin's Queue is that list, and the rest says    *)
(* what each write to the links does to it.                                *)
(***************************************************************************)
EXTENDS TaskingRoundRobin, FiniteSetTheorems, WellFoundedInduction, TLAPS

-----------------------------------------------------------------------------
(* Rings                                                                   *)

Closed(S, N) == \A s \in S : N[s] \in S

\* N and P are mutually inverse on M, and M is a single cycle of N.
Ring(M, N, P) ==
    /\ \A s \in M : N[s] \in M /\ P[N[s]] = s /\ P[s] \in M /\ N[P[s]] = s
    /\ \A S \in SUBSET M : S # {} /\ Closed(S, N) => S = M

(* Linking a new process behind a linked one keeps a ring: the four writes *)
(* of __addProcess, from c->next to p and back.                            *)
LEMMA InsertRing ==
    ASSUME NEW D, NEW M \in SUBSET D, NEW N \in [D -> D \cup {Null}], NEW P \in [D -> D \cup {Null}],
           NEW x \in M, NEW y \in D \ M, Ring(M, N, P)
    PROVE  Ring(M \cup {y},
                [N EXCEPT ![y] = N[x], ![x] = y],
                [P EXCEPT ![N[x]] = y, ![y] = x])
<1> DEFINE N2 == [N EXCEPT ![y] = N[x], ![x] = y]
           P2 == [P EXCEPT ![N[x]] = y, ![y] = x]
           M2 == M \cup {y}
<1>1. /\ x # y /\ N[x] \in M /\ N[x] # y /\ N2[y] = N[x] /\ N2[x] = y
      /\ \A s \in M \ {x} : N2[s] = N[s]
      /\ P2[N[x]] = y /\ P2[y] = x
      /\ \A s \in M \ {N[x]} : P2[s] = P[s]
  BY DEF Ring
<1>2. ASSUME NEW s \in M2
      PROVE  N2[s] \in M2 /\ P2[N2[s]] = s /\ P2[s] \in M2 /\ N2[P2[s]] = s
  <2>1. CASE s = y
    BY <1>1, <2>1
  <2>2. CASE s \in M
    <3>1. N2[s] \in M2 /\ P2[N2[s]] = s
      <4>1. CASE s = x
        BY <1>1, <4>1
      <4>2. CASE s # x
        <5>1. N2[s] = N[s] /\ N[s] \in M /\ P[N[s]] = s
          BY <1>1, <2>2, <4>2 DEF Ring
        <5>2. N[s] # N[x]
          BY <5>1, <4>2 DEF Ring
        <5> QED BY <1>1, <5>1, <5>2
      <4> QED BY <4>1, <4>2
    <3>2. P2[s] \in M2 /\ N2[P2[s]] = s
      <4>1. CASE s = N[x]
        BY <1>1, <4>1
      <4>2. CASE s # N[x]
        <5>1. P2[s] = P[s] /\ P[s] \in M /\ N[P[s]] = s
          BY <1>1, <2>2, <4>2 DEF Ring
        <5>2. P[s] # x
          BY <5>1, <4>2
        <5> QED BY <1>1, <5>1, <5>2
      <4> QED BY <4>1, <4>2
    <3> QED BY <3>1, <3>2
  <2> QED BY <1>2, <2>1, <2>2
<1>3. ASSUME NEW S \in SUBSET M2, S # {}, Closed(S, N2)
      PROVE  S = M2
  <2> DEFINE T == S \ {y}
  <2>1. T # {}
    BY <1>1, <1>3 DEF Closed
  <2>2. Closed(T, N)
    <3> SUFFICES ASSUME NEW s \in T PROVE N[s] \in T
      BY DEF Closed
    <3>1. s \in M /\ N[s] \in M /\ N[s] # y
      BY <1>3 DEF Ring
    <3>2. CASE s = x
      BY <1>1, <1>3, <3>1, <3>2 DEF Closed
    <3>3. CASE s # x
      BY <1>1, <1>3, <3>1, <3>3 DEF Closed
    <3> QED BY <3>2, <3>3
  <2>3. T = M
    BY <1>3, <2>1, <2>2 DEF Ring
  <2>4. y \in S
    BY <1>1, <1>3, <2>3 DEF Closed
  <2> QED BY <1>3, <2>3, <2>4
<1> HIDE DEF N2, P2, M2
<1>4. Ring(M2, N2, P2)
  BY <1>2, <1>3 DEF Ring
<1> QED BY <1>4 DEF N2, P2, M2

(* Unlinking a process that is not alone keeps a ring: the two writes of   *)
(* _kill, c->prev->next and c->next->prev.                                 *)
LEMMA RemoveRing ==
    ASSUME NEW D, NEW M \in SUBSET D, NEW N \in [D -> D \cup {Null}], NEW P \in [D -> D \cup {Null}],
           NEW x \in M, M # {x}, Ring(M, N, P)
    PROVE  /\ Ring(M \ {x}, [N EXCEPT ![P[x]] = N[x]], [P EXCEPT ![N[x]] = P[x]])
           /\ N[x] \in M \ {x} /\ P[x] \in M \ {x}
<1> DEFINE N2 == [N EXCEPT ![P[x]] = N[x]]
           P2 == [P EXCEPT ![N[x]] = P[x]]
           M2 == M \ {x}
<1>1. N[x] \in M /\ P[x] \in M /\ N[P[x]] = x /\ P[N[x]] = x
  BY DEF Ring
<1>2. N[x] # x
  <2> SUFFICES ASSUME N[x] = x PROVE FALSE
    OBVIOUS
  <2>1. Closed({x}, N)
    BY DEF Closed
  <2> QED BY <2>1 DEF Ring
<1>3. P[x] # x
  BY <1>1, <1>2
<1>4. /\ N2[P[x]] = N[x] /\ P2[N[x]] = P[x]
      /\ \A s \in M2 : s # P[x] => N2[s] = N[s]
      /\ \A s \in M2 : s # N[x] => P2[s] = P[s]
  BY <1>1
<1>5. ASSUME NEW s \in M2
      PROVE  N2[s] \in M2 /\ P2[N2[s]] = s /\ P2[s] \in M2 /\ N2[P2[s]] = s
  <2>1. N[s] \in M /\ P[N[s]] = s /\ P[s] \in M /\ N[P[s]] = s
    BY DEF Ring
  <2>2. N2[s] \in M2 /\ P2[N2[s]] = s
    <3>1. CASE s = P[x]
      BY <1>1, <1>2, <1>4, <3>1
    <3>2. CASE s # P[x]
      <4>1. N[s] # x /\ N[s] # N[x]
        BY <1>1, <2>1, <3>2
      <4> QED BY <1>4, <2>1, <3>2, <4>1
    <3> QED BY <3>1, <3>2
  <2>3. P2[s] \in M2 /\ N2[P2[s]] = s
    <3>1. CASE s = N[x]
      BY <1>1, <1>3, <1>4, <3>1
    <3>2. CASE s # N[x]
      <4>1. P[s] # x /\ P[s] # P[x]
        BY <1>1, <2>1, <3>2
      <4> QED BY <1>4, <2>1, <3>2, <4>1
    <3> QED BY <3>1, <3>2
  <2> QED BY <2>2, <2>3
<1>6. ASSUME NEW S \in SUBSET M2, S # {}, Closed(S, N2)
      PROVE  S = M2
  <2>1. CASE P[x] \in S
    <3>1. N[x] \in S
      BY <1>4, <1>6, <2>1 DEF Closed
    <3>2. Closed(S \cup {x}, N)
      <4> SUFFICES ASSUME NEW s \in S \cup {x} PROVE N[s] \in S \cup {x}
        BY DEF Closed
      <4>1. CASE s = x
        BY <3>1, <4>1
      <4>2. CASE s = P[x]
        BY <1>1, <4>2
      <4>3. CASE s # x /\ s # P[x]
        BY <1>4, <1>6, <4>3 DEF Closed
      <4> QED BY <4>1, <4>2, <4>3
    <3>3. S \cup {x} = M
      BY <1>6, <3>2 DEF Ring
    <3> QED BY <1>6, <3>3
  <2>2. CASE P[x] \notin S
    <3>1. Closed(S, N)
      BY <1>4, <1>6, <2>2 DEF Closed
    <3>2. S = M
      BY <1>6, <3>1 DEF Ring
    <3> QED BY <1>6, <3>2
  <2> QED BY <2>1, <2>2
<1> HIDE DEF N2, P2, M2
<1>7. Ring(M2, N2, P2)
  BY <1>5, <1>6 DEF Ring
<1>8. N[x] \in M2 /\ P[x] \in M2
  BY <1>1, <1>2, <1>3 DEF M2
<1> QED BY <1>7, <1>8 DEF N2, P2, M2

-----------------------------------------------------------------------------
(* The inductive invariant                                                 *)

IdleLabels == {"enable_task", "set_enabled", "create", "created", "add_off",
               "add_ret", "wait_off", "wait_yield"} \cup Adding \cup Walking
Starting   == {"create", "created", "add_off", "add_ret"} \cup Adding
Freed      == {"kill_next", "kill_prev", "kill_on", "kill_switch", "gone"}

\* Only kIdle starts and waits, it is never killed, a block is free from
\* kill_free on, and the statements under set_task(0) are c's alone.
Control ==
    /\ \A s \in Slots :
        /\ pc[s] \in IdleLabels => s = IdleSlot
        /\ s \in used <=> pc[s] \notin Freed
        /\ pc[s] \in Critical => s = c /\ ~task
    /\ pc[IdleSlot] \notin {"kill_off", "kill_free"} \cup Freed
    /\ pc[c] # "gone"
    /\ ~enabled <=> pc[IdleSlot] \in {"enable_task", "set_enabled"}
    /\ ~task_was_on <=> pc[IdleSlot] = "enable_task"
    /\ pc[IdleSlot] = "set_enabled" => task
    /\ ~enabled => c = IdleSlot /\ started = 0
    /\ pc[IdleSlot] \in Starting => started < Len(Starts)

Pids ==
    /\ pid[IdleSlot] = 1
    /\ \A s \in Slots : pid[s] <= lpid
    /\ \A s, t \in used : pid[s] = pid[t] => s = t

\* The process that createProcess made and addProcess has not linked yet.
Pending ==
    pc[IdleSlot] \in Unlinked =>
        p \in used /\ p # IdleSlot /\ p # c /\ pc[p] = "body"

\* What the links are at each statement of an update.
Links ==
    /\ pc[c] \notin Freed => c \in Linked
    /\ pc[c] \in {"kill_on", "kill_switch"} => next[c] \in Linked
    /\ pc[c] \in {"add_nextprev", "add_prev", "add_link"} => next[p] = next[c]
    /\ pc[c] \in {"add_prev", "add_link"} => prev[next[c]] = p
    /\ pc[c] = "add_link" => prev[p] = c
    /\ CASE pc[c] \in {"add_prev", "add_link"} ->
                Ring(Linked, next, [prev EXCEPT ![next[c]] = c])
         [] pc[c] = "kill_next" ->
                Ring(Linked \cup {c}, next, prev)
         [] pc[c] = "kill_prev" ->
                /\ next[prev[c]] = next[c]
                /\ Ring(Linked \cup {c}, [next EXCEPT ![prev[c]] = c], prev)
         [] OTHER -> Ring(Linked, next, prev)

\* is_pid_running has seen a stretch of the ring that starts at c.
Walk ==
    /\ pc[IdleSlot] = "wait_walk" =>
        /\ ~ret /\ p \in Linked
        /\ \E S \in SUBSET Linked :
            /\ c \in S \cup {p}
            /\ \A s \in S : pid[s] # wpid /\ next[s] \in S \cup {p}
    /\ WaitExact

IInv == TypeOK /\ Control /\ Pids /\ Pending /\ Links /\ Walk /\ PreemptionOff

-----------------------------------------------------------------------------
(* IInv is inductive                                                       *)

LEMMA LinkedUsed == Linked \subseteq used
BY DEF Linked

(* Outside an update, schedule() finds a linked process in c->next.        *)
LEMMA NextLinked ==
    ASSUME IInv, pc[c] \notin Adding \cup Killing
    PROVE  next[c] \in Linked /\ next[c] \in Slots
<1>1. c \in Slots /\ Linked \subseteq Slots
  BY LinkedUsed DEF IInv, TypeOK
<1>2. Ring(Linked, next, prev)
  BY DEF IInv, Links, Adding, Killing
<1>3. next[c] \in Linked
  <2>1. CASE pc[c] = "kill_switch"
    BY <2>1 DEF IInv, Links
  <2>2. CASE pc[c] # "kill_switch"
    <3>1. c \in Linked
      BY <1>1, <2>2 DEF IInv, Links, Control, Freed, Killing
    <3> QED BY <1>2, <3>1 DEF Ring
  <2> QED BY <2>1, <2>2
<1> QED BY <1>1, <1>3

(* While preemption is on, c is not in an update.                          *)
LEMMA TaskOutside ==
    ASSUME IInv, task
    PROVE  pc[c] \notin Adding \cup Killing
BY DEF IInv, TypeOK, Control, Critical

LEMMA InitIInv ==
    ASSUME Init
    PROVE  IInv
<1> PICK t1 \in Slots \ {IdleSlot} :
        /\ used = {IdleSlot, t1}
        /\ next = [[s \in Slots |-> Null] EXCEPT ![IdleSlot] = t1, ![t1] = IdleSlot]
        /\ prev = next
        /\ pid = [[s \in Slots |-> 0] EXCEPT ![IdleSlot] = 1, ![t1] = 2]
        /\ pc = [[s \in Slots |-> "gone"] EXCEPT ![IdleSlot] = "enable_task", ![t1] = "body"]
        /\ iflag = [s \in Slots |-> TRUE]
        /\ c = IdleSlot /\ lpid = 2
        /\ enabled = FALSE /\ task = FALSE /\ task_was_on = FALSE
        /\ irq0 = FALSE
        /\ started = 0 /\ p = IdleSlot /\ wpid = 0 /\ ret = FALSE
  BY DEF Init
<1> USE SlotsAssumption, StartsAssumption
<1>1. TypeOK
  <2>1. next \in [Slots -> Slots \cup {Null}] /\ pid \in [Slots -> Nat] /\ pc \in [Slots -> Labels]
    BY DEF Labels
  <2>2. 0 \in 0 .. Len(Starts)
    OBVIOUS
  <2> QED BY <2>1, <2>2 DEF TypeOK
<1>2. Linked = {IdleSlot, t1} /\ pc[IdleSlot] = "enable_task" /\ pc[t1] = "body"
  BY DEF Linked, Unlinked
<1>3. Control
  <2>1. \A s \in Slots : pc[s] = IF s = IdleSlot THEN "enable_task" ELSE IF s = t1 THEN "body" ELSE "gone"
    OBVIOUS
  <2> QED BY <1>2, <2>1 DEF Control, IdleLabels, Adding, Walking, Killing, Critical, Freed, Starting
<1>4. Pids /\ Pending /\ Walk /\ PreemptionOff
  BY <1>2 DEF Pids, Pending, Walk, PreemptionOff, WaitExact, Unlinked
<1>5. Ring(Linked, next, prev)
  <2>1. next[IdleSlot] = t1 /\ next[t1] = IdleSlot /\ prev[IdleSlot] = t1 /\ prev[t1] = IdleSlot
    OBVIOUS
  <2>2. \A s \in Linked : next[s] \in Linked /\ prev[next[s]] = s /\ prev[s] \in Linked /\ next[prev[s]] = s
    BY <1>2, <2>1
  <2>3. ASSUME NEW S \in SUBSET Linked, S # {}, Closed(S, next)
        PROVE  S = Linked
    <3>1. S \subseteq {IdleSlot, t1} /\ \A s \in S : next[s] \in S
      BY <1>2, <2>3 DEF Closed
    <3>2. IdleSlot \in S /\ t1 \in S
      <4>1. IdleSlot \in S => t1 \in S
        BY <2>1, <3>1
      <4>2. t1 \in S => IdleSlot \in S
        BY <2>1, <3>1
      <4>3. IdleSlot \in S \/ t1 \in S
        BY <2>3, <3>1
      <4> QED BY <4>1, <4>2, <4>3
    <3> QED BY <1>2, <3>1, <3>2
  <2> QED BY <2>2, <2>3 DEF Ring
<1>6. Links
  BY <1>2, <1>5 DEF Links
<1> QED BY <1>1, <1>3, <1>4, <1>6 DEF IInv

LEMMA TypeStep ==
    ASSUME IInv, [Next]_vars
    PROVE  TypeOK'
<1> USE SlotsAssumption, StartsAssumption DEF IInv, TypeOK, links, heap, pit, boot, At, Goto,
        set_task, Labels
<1>1. CASE UNCHANGED vars
  BY <1>1 DEF vars
<1>2. CASE Tick
  BY <1>2, NextLinked, TaskOutside DEF Tick, schedule
<1>3. CASE IdleEnableTask \/ IdleSetEnabled
  BY <1>3 DEF IdleEnableTask, IdleSetEnabled, AfterStarts
<1>4. CASE CreateProcess
  <2> PICK s \in Slots \ used :
        /\ used' = used \cup {s} /\ p' = s
        /\ next' = [next EXCEPT ![s] = Null]
        /\ prev' = [prev EXCEPT ![s] = Null]
        /\ pid' = [pid EXCEPT ![s] = lpid + 1]
        /\ lpid' = lpid + 1
        /\ pc' = [pc EXCEPT ![c] = "created", ![s] = "body"]
        /\ iflag' = [iflag EXCEPT ![s] = TRUE]
    BY <1>4 DEF CreateProcess
  <2> QED BY <1>4 DEF CreateProcess
<1>5. CASE CreateOutOfMemory \/ AddOff \/ AddOn \/ WaitOff \/ WaitFound \/ WaitOn \/ BodyEnd \/ BodyFault
           \/ KillIdle \/ KillOff \/ KillFree \/ KillOn
  <2>1. CASE CreateOutOfMemory \/ BodyEnd \/ BodyFault
    BY <2>1 DEF CreateOutOfMemory, BodyEnd, BodyFault
  <2>4. CASE AddOff \/ AddOn
    BY <2>4 DEF AddOff, AddOn
  <2>2. CASE WaitOff \/ WaitFound \/ WaitOn
    BY <2>2 DEF WaitOff, WaitFound, WaitOn, AfterStarts
  <2>3. CASE KillIdle \/ KillOff \/ KillFree \/ KillOn
    BY <2>3 DEF KillIdle, KillOff, KillFree, KillOn
  <2> QED BY <1>5, <2>1, <2>2, <2>3, <2>4
<1>6. CASE Created \/ WaitYield \/ PrintYield \/ Notified \/ KillPrint \/ KillSwitch \/ Panic
  <2>1. CASE Created
    BY <2>1, NextLinked DEF Created, schedule_noirq, schedule, Adding, Killing
  <2>4. CASE WaitYield
    BY <2>4, NextLinked DEF WaitYield, schedule_noirq, schedule, Adding, Killing
  <2>2. CASE PrintYield \/ KillSwitch
    BY <2>2, NextLinked DEF PrintYield, Printing, KillSwitch, schedule_noirq, schedule, Adding, Killing
  <2>3. CASE Notified \/ KillPrint \/ Panic
    BY <2>3, NextLinked DEF Notified, KillPrint, Panic, schedule_noirq, schedule, Adding, Killing
  <2> QED BY <1>6, <2>1, <2>2, <2>3, <2>4
<1>7. CASE AddNext \/ AddNextPrev \/ AddPrev \/ AddLink
  <2>1. CASE AddNext
    BY <2>1 DEF AddNext
  <2>2. CASE AddNextPrev
    BY <2>2 DEF AddNextPrev
  <2>3. CASE AddPrev
    BY <2>3 DEF AddPrev
  <2>4. CASE AddLink
    BY <2>4 DEF AddLink
  <2> QED BY <1>7, <2>1, <2>2, <2>3, <2>4
<1>8. CASE AddReturn
  <2>1. started < Len(Starts) /\ Len(Starts) \in Nat
    BY <1>8 DEF AddReturn, Control, Starting, IdleLabels
  <2>2. started' \in 0 .. Len(Starts)
    BY <1>8, <2>1 DEF AddReturn
  <2>3. wpid' \in Nat
    BY <1>8, ScrapsAssumption DEF AddReturn
  <2> QED BY <1>8, <2>2, <2>3 DEF AddReturn, AfterStarts
<1>9. CASE WaitNext
  <2>1. c = IdleSlot /\ p \in Linked /\ Ring(Linked, next, prev)
    BY <1>9 DEF WaitNext, Control, IdleLabels, Walking, Walk, Links
  <2>2. next[p] \in Slots
    BY <2>1, LinkedUsed DEF Ring
  <2> QED BY <1>9, <2>2 DEF WaitNext
<1>10. CASE KillNext \/ KillPrev
  <2>1. CASE KillNext
    BY <2>1 DEF KillNext
  <2>2. CASE KillPrev
    BY <2>2 DEF KillPrev
  <2> QED BY <1>10, <2>1, <2>2
<1>11. CASE Halt
  BY <1>11 DEF Halt, vars
<1> QED BY <1>1, <1>2, <1>3, <1>4, <1>5, <1>6, <1>7, <1>8, <1>9, <1>10, <1>11 DEF Next, Work

LEMMA ControlStep ==
    ASSUME IInv, [Next]_vars
    PROVE  Control'
<1> USE SlotsAssumption DEF At, Goto, links, heap, pit, boot
<1>c. TypeOK /\ Control /\ c \in Slots /\ Linked \subseteq used
  BY LinkedUsed DEF IInv, TypeOK
<1>l. Adding = {"add_next", "add_nextprev", "add_prev", "add_link", "add_on"}
      /\ Walking = {"wait_walk", "wait_on"}
      /\ Killing = {"kill_free", "kill_next", "kill_prev", "kill_on"}
  BY DEF Adding, Walking, Killing
<1> USE <1>c, <1>l DEF TypeOK, Control, IdleLabels, Starting, Freed, Critical, set_task
<1>1. CASE UNCHANGED vars
  BY <1>1 DEF vars
<1>2. CASE Tick
  BY <1>2, NextLinked, TaskOutside DEF Tick, schedule
<1>3. CASE IdleEnableTask
  BY <1>3 DEF IdleEnableTask
<1>4. CASE IdleSetEnabled
  BY <1>4, StartsAssumption DEF IdleSetEnabled, AfterStarts
<1>5. CASE CreateProcess
  BY <1>5 DEF CreateProcess
<1>6. CASE CreateOutOfMemory
  BY <1>6 DEF CreateOutOfMemory
<1>7. CASE Created
  BY <1>7, NextLinked DEF Created, schedule_noirq, schedule
<1>8. CASE AddOff
  BY <1>8 DEF AddOff
<1>9. CASE AddNext \/ AddNextPrev \/ AddPrev \/ AddLink
  BY <1>9 DEF AddNext, AddNextPrev, AddPrev, AddLink
<1>10. CASE AddOn
  BY <1>10 DEF AddOn
<1>11. CASE AddReturn
  BY <1>11, StartsAssumption DEF AddReturn, AfterStarts
<1>12. CASE WaitOff
  BY <1>12 DEF WaitOff
<1>13. CASE WaitFound \/ WaitNext
  BY <1>13 DEF WaitFound, WaitNext
<1>14. CASE WaitOn
  BY <1>14, StartsAssumption DEF WaitOn, AfterStarts
<1>15. CASE WaitYield
  BY <1>15, NextLinked DEF WaitYield, schedule_noirq, schedule
<1>16. CASE PrintYield \/ Notified
  BY <1>16, NextLinked DEF PrintYield, Printing, Notified, schedule_noirq, schedule
<1>17. CASE BodyEnd \/ BodyFault
  BY <1>17 DEF BodyEnd, BodyFault
<1>18. CASE KillIdle
  BY <1>18 DEF KillIdle
<1>19. CASE KillPrint
  BY <1>19, NextLinked DEF KillPrint, schedule_noirq, schedule, IInv, Pids
<1>20. CASE KillOff
  BY <1>20 DEF KillOff
<1>21. CASE KillFree
  BY <1>21 DEF KillFree
<1>22. CASE KillNext \/ KillPrev
  BY <1>22 DEF KillNext, KillPrev
<1>23. CASE KillOn
  BY <1>23 DEF KillOn
<1>24. CASE KillSwitch
  BY <1>24, NextLinked DEF KillSwitch, schedule_noirq, schedule
<1>25. CASE Panic
  BY <1>25, NextLinked DEF Panic, schedule_noirq, schedule
<1>26. CASE Halt
  BY <1>26 DEF Halt, vars
<1> QED BY <1>1, <1>2, <1>3, <1>4, <1>5, <1>6, <1>7, <1>8, <1>9, <1>10, <1>11, <1>12, <1>13,
           <1>14, <1>15, <1>16, <1>17, <1>18, <1>19, <1>20, <1>21, <1>22, <1>23, <1>24, <1>25,
           <1>26 DEF Next, Work

LEMMA PidsStep ==
    ASSUME IInv, [Next]_vars
    PROVE  Pids'
<1> USE SlotsAssumption DEF At, Goto, links, heap, pit, boot
<1>c. TypeOK /\ Pids /\ IdleSlot \in used
  BY DEF IInv, Control
<1> USE <1>c DEF TypeOK, Pids
<1>1. CASE UNCHANGED <<pid, used, lpid>>
  BY <1>1
<1>2. CASE CreateProcess
  <2> PICK s \in Slots \ used :
        used' = used \cup {s} /\ pid' = [pid EXCEPT ![s] = lpid + 1] /\ lpid' = lpid + 1
    BY <1>2 DEF CreateProcess
  <2>1. pid'[s] = lpid + 1 /\ \A t \in Slots : t # s => pid'[t] = pid[t]
    OBVIOUS
  <2>2. \A t \in used : t # s /\ pid'[t] < lpid + 1
    BY <2>1
  <2> QED BY <2>1, <2>2
<1>3. CASE KillFree
  BY <1>3 DEF KillFree, IInv, Control
<1>4. CASE [Next]_vars /\ ~CreateProcess /\ ~KillFree
  <2> UNCHANGED <<pid, used, lpid>>
    BY <1>4 DEF Next, Work, vars, Tick, IdleEnableTask, IdleSetEnabled, CreateOutOfMemory, Created,
         AddOff, AddNext, AddNextPrev, AddPrev, AddLink, AddOn, AddReturn, WaitOff, WaitFound,
         WaitNext, WaitOn, WaitYield, PrintYield, BodyEnd, BodyFault, Notified, KillIdle, KillPrint,
         KillOff, KillNext, KillPrev, KillOn, KillSwitch, Panic, Halt
  <2> QED BY <1>1
<1> QED BY <1>2, <1>3, <1>4

(* Only p's own creation and linking touch the pending process, and it is  *)
(* never current: schedule() only goes to linked processes.                *)
LEMMA PendingStep ==
    ASSUME IInv, [Next]_vars
    PROVE  Pending'
<1> USE SlotsAssumption DEF At, Goto, links, heap, pit, boot
<1>c. TypeOK /\ Control /\ Pending /\ c \in Slots /\ Linked \subseteq used
  BY LinkedUsed DEF IInv, TypeOK
<1> USE <1>c DEF TypeOK, Control, IdleLabels, Freed, Pending, Unlinked, Adding, Walking, Critical
<1>n. pc[c] \notin Adding \cup Killing /\ pc[IdleSlot] \in Unlinked => next[c] # p
  BY NextLinked DEF Linked
<1>1. CASE UNCHANGED vars
  BY <1>1 DEF vars
<1>2. CASE Tick
  BY <1>2, <1>n, TaskOutside DEF Tick, schedule
<1>3. CASE IdleEnableTask \/ IdleSetEnabled
  BY <1>3 DEF IdleEnableTask, IdleSetEnabled, AfterStarts
<1>4. CASE CreateProcess
  BY <1>4 DEF CreateProcess
<1>5. CASE CreateOutOfMemory
  BY <1>5 DEF CreateOutOfMemory
<1>6. CASE Created
  BY <1>6, <1>n DEF Created, schedule_noirq, schedule, Killing
<1>7. CASE AddOff \/ AddNext \/ AddNextPrev \/ AddPrev \/ AddLink \/ AddOn
  <2>1. CASE AddOff
    BY <2>1 DEF AddOff
  <2>2. CASE AddNext
    BY <2>2 DEF AddNext
  <2>3. CASE AddNextPrev
    BY <2>3 DEF AddNextPrev
  <2>4. CASE AddPrev
    BY <2>4 DEF AddPrev
  <2>5. CASE AddLink
    BY <2>5 DEF AddLink
  <2>6. CASE AddOn
    BY <2>6 DEF AddOn
  <2> QED BY <1>7, <2>1, <2>2, <2>3, <2>4, <2>5, <2>6
<1>8. CASE AddReturn \/ WaitOff \/ WaitFound \/ WaitNext \/ WaitOn
  <2>1. CASE AddReturn
    BY <2>1 DEF AddReturn, AfterStarts
  <2>2. CASE WaitOff
    BY <2>2 DEF WaitOff
  <2>3. CASE WaitFound
    BY <2>3 DEF WaitFound
  <2>4. CASE WaitNext
    BY <2>4 DEF WaitNext
  <2>5. CASE WaitOn
    BY <2>5 DEF WaitOn, AfterStarts
  <2> QED BY <1>8, <2>1, <2>2, <2>3, <2>4, <2>5
<1>9. CASE WaitYield \/ Panic
  BY <1>9, <1>n DEF WaitYield, Panic, schedule_noirq, schedule, Killing
<1>10. CASE PrintYield \/ Notified \/ KillPrint
  BY <1>10, <1>n DEF PrintYield, Printing, Notified, KillPrint, schedule_noirq, schedule, Killing
<1>11. CASE KillSwitch
  BY <1>11, <1>n DEF KillSwitch, schedule_noirq, schedule, Killing
<1>12. CASE BodyEnd \/ BodyFault \/ KillIdle \/ KillOff \/ KillFree \/ KillNext \/ KillPrev \/ KillOn
  <2>1. CASE BodyEnd
    BY <2>1 DEF BodyEnd
  <2>2. CASE BodyFault
    BY <2>2 DEF BodyFault
  <2>3. CASE KillIdle
    BY <2>3 DEF KillIdle
  <2>4. CASE KillOff
    BY <2>4 DEF KillOff
  <2>5. CASE KillFree
    BY <2>5 DEF KillFree
  <2>6. CASE KillNext
    BY <2>6 DEF KillNext
  <2>7. CASE KillPrev
    BY <2>7 DEF KillPrev
  <2>8. CASE KillOn
    BY <2>8 DEF KillOn
  <2> QED BY <1>12, <2>1, <2>2, <2>3, <2>4, <2>5, <2>6, <2>7, <2>8
<1>13. CASE Halt
  BY <1>13 DEF Halt, vars
<1> QED BY <1>1, <1>2, <1>3, <1>4, <1>5, <1>6, <1>7, <1>8, <1>9, <1>10, <1>11, <1>12, <1>13
        DEF Next, Work

LEMMA PreemptionStep ==
    ASSUME IInv, [Next]_vars
    PROVE  PreemptionOff'
<1> USE SlotsAssumption DEF At, Goto, links, heap, pit, boot
<1>c. TypeOK /\ Control /\ PreemptionOff /\ c \in Slots
  BY DEF IInv, TypeOK
<1> USE <1>c DEF TypeOK, Control, PreemptionOff, Critical, Adding, Walking, Killing, set_task
<1>1. CASE UNCHANGED vars
  BY <1>1 DEF vars
<1>2. CASE Tick
  BY <1>2 DEF Tick
<1>3. CASE IdleEnableTask \/ IdleSetEnabled
  BY <1>3 DEF IdleEnableTask, IdleSetEnabled
<1>4. CASE CreateProcess
  <2> PICK s \in Slots \ used : pc' = [pc EXCEPT ![c] = "created", ![s] = "body"]
    BY <1>4 DEF CreateProcess
  <2>1. \A t \in Slots : pc[t] \in {"panic", "halt"} => pc'[t] = pc[t]
    BY <1>4 DEF CreateProcess, Freed
  <2> QED BY <1>4, <2>1 DEF CreateProcess
<1>5. CASE CreateOutOfMemory \/ KillIdle
  BY <1>5 DEF CreateOutOfMemory, KillIdle
<1>6. CASE Created \/ WaitYield \/ PrintYield
  BY <1>6 DEF Created, WaitYield, PrintYield, Printing
<1>7. CASE AddOff \/ AddNext \/ AddNextPrev \/ AddPrev \/ AddLink \/ AddOn
  <2>1. CASE AddOff
    BY <2>1 DEF AddOff
  <2>2. CASE AddNext
    BY <2>2 DEF AddNext
  <2>3. CASE AddNextPrev
    BY <2>3 DEF AddNextPrev
  <2>4. CASE AddPrev
    BY <2>4 DEF AddPrev
  <2>5. CASE AddLink
    BY <2>5 DEF AddLink
  <2>6. CASE AddOn
    BY <2>6 DEF AddOn
  <2> QED BY <1>7, <2>1, <2>2, <2>3, <2>4, <2>5, <2>6
<1>8. CASE AddReturn \/ WaitOff \/ WaitFound \/ WaitNext \/ WaitOn
  <2>1. CASE AddReturn
    BY <2>1 DEF AddReturn, AfterStarts
  <2>2. CASE WaitOff
    BY <2>2 DEF WaitOff
  <2>3. CASE WaitFound
    BY <2>3 DEF WaitFound
  <2>4. CASE WaitNext
    BY <2>4 DEF WaitNext
  <2>5. CASE WaitOn
    BY <2>5 DEF WaitOn, AfterStarts
  <2> QED BY <1>8, <2>1, <2>2, <2>3, <2>4, <2>5
<1>9. CASE BodyEnd \/ BodyFault \/ Notified \/ KillPrint \/ KillSwitch \/ Panic
  BY <1>9 DEF BodyEnd, BodyFault, Notified, KillPrint, KillSwitch, Panic
<1>10. CASE KillOff \/ KillFree \/ KillNext \/ KillPrev \/ KillOn
  <2>1. CASE KillOff
    BY <2>1 DEF KillOff
  <2>2. CASE KillFree
    BY <2>2 DEF KillFree
  <2>3. CASE KillNext
    BY <2>3 DEF KillNext
  <2>4. CASE KillPrev
    BY <2>4 DEF KillPrev
  <2>5. CASE KillOn
    BY <2>5 DEF KillOn
  <2> QED BY <1>10, <2>1, <2>2, <2>3, <2>4, <2>5
<1>11. CASE Halt
  BY <1>11 DEF Halt, vars
<1> QED BY <1>1, <1>2, <1>3, <1>4, <1>5, <1>6, <1>7, <1>8, <1>9, <1>10, <1>11 DEF Next, Work

(* A switch outside an update resumes a linked process that is itself      *)
(* outside any update.                                                     *)
LEMMA SwitchLinks ==
    ASSUME IInv, NEW l, l \notin Critical \cup Freed \/ pc[c] = "kill_switch",
           pc[c] \notin Adding \cup Killing,
           UNCHANGED <<next, prev>>, Linked' = Linked,
           c' = next[c], pc' = [pc EXCEPT ![c] = l]
    PROVE  Links'
<1>1. TypeOK /\ Control /\ Linked \subseteq used /\ next[c] \in Linked /\ c \in Slots
  BY NextLinked, LinkedUsed DEF IInv, TypeOK
<1>2. pc'[c'] \notin Critical \cup Freed
  <2>1. CASE c' = c
    <3>1. pc[c] # "kill_switch"
      BY <1>1, <2>1 DEF Control, Freed, TypeOK
    <3> QED BY <1>1, <2>1, <3>1 DEF TypeOK
  <2>2. CASE c' # c
    BY <1>1, <2>2 DEF TypeOK, Control, Freed
  <2> QED BY <2>1, <2>2
<1>3. Ring(Linked, next, prev)
  BY DEF IInv, Links, Adding, Killing
<1>4. Ring(Linked', next', prev')
  BY <1>3
<1> QED BY <1>1, <1>2, <1>4 DEF Links, Critical, Adding, Killing, Freed

LEMMA LinksStep ==
    ASSUME IInv, [Next]_vars
    PROVE  Links'
<1> USE SlotsAssumption DEF At, Goto, links, heap, pit, boot
<1>c. TypeOK /\ Control /\ Pending /\ Links /\ c \in Slots /\ Linked \subseteq used
  BY LinkedUsed DEF IInv, TypeOK
<1>i. \A s \in Slots : pc[s] \in IdleLabels => s = IdleSlot
  BY <1>c DEF Control
<1>1. CASE UNCHANGED vars \/ Halt
  BY <1>1, <1>c DEF Halt, vars, Links, Linked
<1>2. CASE Tick
  <2>1. pc[c] \notin Adding \cup Killing
    BY <1>2, TaskOutside DEF Tick
  <2>2. pc' = [pc EXCEPT ![c] = pc[c]] /\ Linked' = Linked /\ UNCHANGED <<next, prev>>
    BY <1>2, <1>c DEF Tick, Linked, TypeOK
  <2>3. CASE enabled
    <3>1. pc[c] \notin Critical \cup Freed \/ pc[c] = "kill_switch"
      BY <1>2, <1>c, <2>1 DEF Tick, Control, Freed, Killing, TypeOK
    <3> QED BY <1>2, <2>1, <2>2, <2>3, <3>1, SwitchLinks DEF Tick, schedule
  <2>4. CASE ~enabled
    <3>1. c' = c /\ pc' = pc /\ p' = p
      BY <1>2, <2>4 DEF Tick
    <3> QED BY <1>c, <2>2, <3>1 DEF Links
  <2> QED BY <2>3, <2>4
<1>3. CASE IdleEnableTask \/ IdleSetEnabled
  BY <1>3, <1>c DEF IdleEnableTask, IdleSetEnabled, AfterStarts, Links, Linked, Unlinked, Freed, TypeOK,
     Control, IdleLabels
<1>4. CASE CreateProcess
  <2> PICK s \in Slots \ used :
        /\ used' = used \cup {s} /\ p' = s
        /\ next' = [next EXCEPT ![s] = Null]
        /\ prev' = [prev EXCEPT ![s] = Null]
        /\ pc' = [pc EXCEPT ![c] = "created", ![s] = "body"]
    BY <1>4 DEF CreateProcess
  <2>1. c = IdleSlot /\ pc[c] = "create" /\ c' = c /\ IdleSlot \in used /\ pc'[c] = "created"
    BY <1>4, <1>c, <1>i DEF CreateProcess, IdleLabels, Control, Freed, TypeOK
  <2>2. Linked = used /\ Linked' = used
    BY <2>1 DEF Linked, Unlinked
  <2>3. Ring(used, next, prev)
    BY <1>c, <2>1, <2>2 DEF Links
  <2>4. \A t \in used : next'[t] = next[t] /\ prev'[t] = prev[t]
    BY <1>c DEF TypeOK
  <2>5. Ring(used, next', prev')
    BY <2>3, <2>4 DEF Ring, Closed
  <2> QED BY <2>1, <2>2, <2>5 DEF Links, Freed
<1>5. CASE CreateOutOfMemory
  BY <1>5, <1>c, <1>i DEF CreateOutOfMemory, Links, Linked, Unlinked, Freed, TypeOK, Control, IdleLabels
<1>6. CASE Created
  <2>1. Linked' = Linked /\ enabled
    BY <1>6, <1>c, <1>i DEF Created, Linked, Unlinked, TypeOK, Control, IdleLabels
  <2> QED BY <1>6, <2>1, SwitchLinks
          DEF Created, schedule_noirq, schedule, Critical, Adding, Walking, Killing, Freed
<1>7. CASE AddOff
  BY <1>7, <1>c, <1>i DEF AddOff, Links, Linked, Unlinked, Freed, TypeOK, Control, IdleLabels
<1>p. pc[c] \in Adding => c = IdleSlot /\ (pc[c] # "add_on" => p \in used /\ p # c /\ Linked = used \ {p})
  BY <1>c, <1>i DEF IdleLabels, Pending, Linked, Unlinked, Adding
<1>8. CASE AddNext
  <2>1. c = IdleSlot /\ Linked = used \ {p} /\ Linked' = Linked /\ p # c /\ p \in Slots /\ c \in Linked
    BY <1>8, <1>c, <1>p DEF AddNext, Adding, Linked, Unlinked, TypeOK, Links, Freed
  <2>2. Ring(Linked, next, prev)
    BY <1>8, <1>c DEF AddNext, Links
  <2>3. \A s \in Linked : next'[s] = next[s]
    BY <1>8, <1>c, <2>1 DEF AddNext, TypeOK
  <2>4. Ring(Linked, next', prev)
    BY <2>2, <2>3 DEF Ring, Closed
  <2>5. next'[p] = next'[c]
    BY <1>8, <1>c, <2>1 DEF AddNext, TypeOK
  <2> QED BY <1>8, <1>c, <2>1, <2>4, <2>5 DEF AddNext, Links, TypeOK
<1>9. CASE AddNextPrev
  <2>1. c = IdleSlot /\ Linked' = Linked /\ c \in Linked /\ next[p] = next[c]
    BY <1>9, <1>c, <1>p DEF AddNextPrev, Adding, Linked, Unlinked, TypeOK, Links, Freed
  <2>2. Ring(Linked, next, prev)
    BY <1>9, <1>c DEF AddNextPrev, Links
  <2>3. prev[next[c]] = c /\ next[c] \in Slots
    BY <1>c, <2>1, <2>2 DEF Ring, TypeOK
  <2>4. [prev' EXCEPT ![next[c]] = c] = prev
    BY <1>9, <1>c, <2>1, <2>3 DEF AddNextPrev, TypeOK
  <2>5. Ring(Linked', next', [prev' EXCEPT ![next'[c']] = c'])
    BY <1>9, <2>1, <2>2, <2>4 DEF AddNextPrev
  <2> QED BY <1>9, <1>c, <2>1, <2>3, <2>5 DEF AddNextPrev, Links, TypeOK
<1>10. CASE AddPrev
  <2>1. /\ c = IdleSlot /\ Linked' = Linked /\ c \in Linked /\ next[p] = next[c] /\ p \notin Linked
        /\ prev[next[c]] = p
        /\ Ring(Linked, next, [prev EXCEPT ![next[c]] = c])
    BY <1>10, <1>c, <1>p DEF AddPrev, Adding, Linked, Unlinked, TypeOK, Links, Freed
  <2>2. next[c] \in Linked
    BY <2>1 DEF Ring
  <2>3. \A s \in Linked : [prev' EXCEPT ![next[c]] = c][s] = [prev EXCEPT ![next[c]] = c][s]
    BY <1>10, <1>c, <2>1, <2>2 DEF AddPrev, TypeOK
  <2>4. Ring(Linked, next, [prev' EXCEPT ![next[c]] = c])
    BY <2>1, <2>3 DEF Ring
  <2>5. Ring(Linked', next', [prev' EXCEPT ![next'[c']] = c'])
    BY <1>10, <2>1, <2>4 DEF AddPrev
  <2> QED BY <1>10, <1>c, <2>1, <2>2, <2>5 DEF AddPrev, Links, TypeOK
<1>11. CASE AddLink
  <2> DEFINE P == [prev EXCEPT ![next[c]] = c]
             M == Linked
  <2>1. /\ c = IdleSlot /\ Linked = used \ {p} /\ c \in Linked /\ p \in used /\ next[p] = next[c]
        /\ prev[next[c]] = p /\ prev[p] = c
        /\ Ring(Linked, next, P)
    BY <1>11, <1>c, <1>p DEF AddLink, Adding, TypeOK, Links, Freed
  <2>2. next[c] \in Linked /\ next[c] # p /\ used \subseteq Slots
    BY <1>c, <2>1 DEF Ring, TypeOK
  <2>3. Ring(Linked \cup {p}, [next EXCEPT ![p] = next[c], ![c] = p], [P EXCEPT ![next[c]] = p, ![p] = c])
    <3>1. P \in [Slots -> Slots \cup {Null}] /\ next \in [Slots -> Slots \cup {Null}]
      BY <1>c DEF TypeOK
    <3>2. M \in SUBSET Slots /\ p \in Slots \ M /\ c \in M /\ Ring(M, next, P)
      BY <2>1, <2>2
    <3>3. Ring(M \cup {p}, [next EXCEPT ![p] = next[c], ![c] = p], [P EXCEPT ![next[c]] = p, ![p] = c])
      <4> HIDE DEF P, M
      <4> QED BY <3>1, <3>2, InsertRing
    <3> QED BY <3>3
  <2>4. [next EXCEPT ![p] = next[c], ![c] = p] = next'
    BY <1>11, <1>c, <2>1, <2>2 DEF AddLink, TypeOK
  <2>5. [P EXCEPT ![next[c]] = p, ![p] = c] = prev
    BY <1>c, <2>1, <2>2 DEF TypeOK
  <2>6. Linked' = Linked \cup {p} /\ pc'[c'] = "add_on" /\ c' \in Linked' /\ prev' = prev
    BY <1>11, <1>c, <2>1 DEF AddLink, Linked, Unlinked, TypeOK
  <2>7. Ring(Linked', next', prev')
    BY <2>3, <2>4, <2>5, <2>6
  <2> QED BY <2>6, <2>7 DEF Links
<1>12. CASE AddOn \/ AddReturn
  <2>1. CASE AddOn
    BY <2>1, <1>c, <1>i DEF AddOn, Links, Linked, Unlinked, Freed, TypeOK,
       IdleLabels, Adding, Walking
  <2>2. CASE AddReturn
    BY <2>2, <1>c, <1>i DEF AddReturn, AfterStarts, Links, Linked, Unlinked, Freed, TypeOK,
       IdleLabels, Adding, Walking
  <2> QED BY <1>12, <2>1, <2>2
<1>13. CASE WaitOff \/ WaitFound \/ WaitNext \/ WaitOn
  <2>1. CASE WaitOff
    BY <2>1, <1>c, <1>i DEF WaitOff, Links, Linked, Unlinked, Freed, TypeOK,
       IdleLabels, Adding, Walking
  <2>2. CASE WaitFound
    BY <2>2, <1>c, <1>i DEF WaitFound, Links, Linked, Unlinked, Freed, TypeOK,
       IdleLabels, Adding, Walking
  <2>3. CASE WaitNext
    BY <2>3, <1>c, <1>i DEF WaitNext, Links, Linked, Unlinked, Freed, TypeOK,
       IdleLabels, Adding, Walking
  <2>4. CASE WaitOn
    BY <2>4, <1>c, <1>i DEF WaitOn, AfterStarts, Links, Linked, Unlinked, Freed, TypeOK,
       IdleLabels, Adding, Walking
  <2> QED BY <1>13, <2>1, <2>2, <2>3, <2>4
<1>14. CASE WaitYield
  <2>1. Linked' = Linked /\ enabled
    BY <1>14, <1>c, <1>i DEF WaitYield, Linked, Unlinked, TypeOK, Control, IdleLabels
  <2> QED BY <1>14, <2>1, SwitchLinks
          DEF WaitYield, schedule_noirq, schedule, Critical, Adding, Walking, Killing, Freed
<1>e. pc[c] \notin IdleLabels => enabled
  BY <1>c DEF Control, IdleLabels
<1>15. CASE PrintYield
  <2>1. Linked' = Linked /\ enabled /\ pc' = [pc EXCEPT ![c] = pc[c]]
    <3>1. enabled
      BY <1>15, <1>c DEF PrintYield, Printing, Control
    <3>2. pc' = pc /\ UNCHANGED <<used, p>>
      BY <1>15 DEF PrintYield
    <3> QED BY <3>1, <3>2, <1>c DEF Linked, Unlinked, TypeOK
  <2> QED BY <1>15, <2>1, SwitchLinks
          DEF PrintYield, Printing, schedule_noirq, schedule, Critical, Adding, Walking, Killing, Freed
<1>16. CASE BodyEnd \/ BodyFault
  BY <1>16, <1>c DEF BodyEnd, BodyFault, Links, Linked, Unlinked, Freed, TypeOK
<1>17. CASE Notified
  <2>1. Linked' = Linked /\ enabled
    BY <1>17, <1>c, <1>e DEF Notified, Linked, Unlinked, TypeOK, IdleLabels, Adding, Walking
  <2> QED BY <1>17, <2>1, SwitchLinks
          DEF Notified, schedule_noirq, schedule, Critical, Adding, Walking, Killing, Freed
<1>18. CASE KillIdle \/ KillOff
  BY <1>18, <1>c DEF KillIdle, KillOff, Links, Linked, Unlinked, Freed, TypeOK
<1>19. CASE KillPrint
  <2>1. Linked' = Linked /\ enabled
    BY <1>19, <1>c, <1>e DEF KillPrint, Linked, Unlinked, TypeOK, IdleLabels, Adding, Walking
  <2> QED BY <1>19, <2>1, SwitchLinks
          DEF KillPrint, schedule_noirq, schedule, Critical, Adding, Walking, Killing, Freed
<1>20. CASE KillFree
  <2>1. c # IdleSlot /\ c \in Linked /\ Ring(Linked, next, prev)
    BY <1>20, <1>c DEF KillFree, Control, Links, Freed
  <2>2. Linked' = Linked \ {c} /\ c' = c /\ pc'[c] = "kill_next"
    BY <1>20, <1>c, <2>1 DEF KillFree, Linked, TypeOK
  <2>3. Linked' \cup {c'} = Linked /\ UNCHANGED <<next, prev>>
    BY <1>20, <2>1, <2>2 DEF KillFree
  <2>4. Ring(Linked' \cup {c'}, next', prev')
    BY <2>1, <2>3
  <2> QED BY <2>2, <2>4 DEF Links, Freed
<1>k. pc[c] \in {"kill_next", "kill_prev"} =>
        c # IdleSlot /\ c \notin Linked /\ IdleSlot \in Linked
  BY <1>c DEF Control, Freed, Linked, Pending
<1>21. CASE KillNext
  <2>1. Ring(Linked \cup {c}, next, prev) /\ Linked' = Linked /\ c' = c /\ pc'[c] = "kill_prev"
    BY <1>21, <1>c, <1>k DEF KillNext, Links, Linked, TypeOK
  <2>2. prev[c] \in Linked \cup {c} /\ next[c] \in Linked \cup {c} /\ next[prev[c]] = c
        /\ prev[next[c]] = c /\ prev[c] \in Slots
    BY <1>c, <2>1 DEF Ring, TypeOK
  <2>3. prev[c] # c
    <3>1. ASSUME prev[c] = c PROVE FALSE
      <4>1. Closed({c}, next)
        BY <2>2, <3>1 DEF Closed
      <4>2. {c} = Linked \cup {c}
        BY <2>1, <4>1 DEF Ring
      <4> QED BY <4>2, <1>21, <1>k DEF KillNext
    <3> QED BY <3>1
  <2>4. next'[prev[c]] = next'[c] /\ [next' EXCEPT ![prev[c]] = c] = next
    BY <1>21, <1>c, <2>2, <2>3 DEF KillNext, TypeOK
  <2>5. prev' = prev
    BY <1>21 DEF KillNext
  <2>6. Ring(Linked' \cup {c'}, [next' EXCEPT ![prev'[c']] = c'], prev')
    BY <2>1, <2>4, <2>5
  <2> QED BY <2>1, <2>4, <2>5, <2>6 DEF Links, Freed
<1>22. CASE KillPrev
  <2> DEFINE M == Linked \cup {c}
             N == [next EXCEPT ![prev[c]] = c]
  <2>1. /\ Ring(M, N, prev) /\ Linked' = Linked /\ c' = c /\ pc'[c] = "kill_on"
        /\ next[prev[c]] = next[c] /\ next' = next
    BY <1>22, <1>c, <1>k DEF KillPrev, Links, Linked, TypeOK
  <2>2. M \ {c} = Linked /\ M # {c} /\ c \in M /\ M \in SUBSET Slots
    BY <1>22, <1>c, <1>k DEF KillPrev, TypeOK
  <2>3. N \in [Slots -> Slots \cup {Null}] /\ prev \in [Slots -> Slots \cup {Null}]
    BY <1>c DEF TypeOK
  <2>4. /\ Ring(M \ {c}, [N EXCEPT ![prev[c]] = N[c]], [prev EXCEPT ![N[c]] = prev[c]])
        /\ N[c] \in M \ {c} /\ prev[c] \in M \ {c}
    <3> HIDE DEF M, N
    <3> QED BY <2>1, <2>2, <2>3, RemoveRing
  <2>5. N[c] = next[c] /\ [N EXCEPT ![prev[c]] = N[c]] = next
    BY <1>c, <2>1, <2>2, <2>4 DEF TypeOK
  <2>6. prev' = [prev EXCEPT ![N[c]] = prev[c]]
    BY <1>22, <2>5 DEF KillPrev
  <2>7. Ring(Linked', next', prev') /\ next'[c'] \in Linked'
    <3> HIDE DEF M, N
    <3> QED BY <2>1, <2>2, <2>4, <2>5, <2>6
  <2> QED BY <2>1, <2>7 DEF Links, Freed
<1>23. CASE KillOn
  BY <1>23, <1>c DEF KillOn, Links, Linked, Unlinked, Freed, TypeOK, Control
<1>24. CASE KillSwitch
  <2>1. Linked' = Linked /\ enabled
    BY <1>24, <1>c, <1>e DEF KillSwitch, Linked, Unlinked, TypeOK, IdleLabels, Adding, Walking, Control, Freed
  <2> QED BY <1>24, <2>1, SwitchLinks
          DEF KillSwitch, schedule_noirq, schedule, Adding, Killing
<1>25. CASE Panic
  <2>1. Linked' = Linked /\ enabled
    BY <1>25, <1>c, <1>e DEF Panic, Linked, Unlinked, TypeOK, IdleLabels, Adding, Walking
  <2> QED BY <1>25, <2>1, SwitchLinks
          DEF Panic, schedule_noirq, schedule, Critical, Adding, Walking, Killing, Freed
<1> QED BY <1>1, <1>2, <1>3, <1>4, <1>5, <1>6, <1>7, <1>8, <1>9, <1>10, <1>11, <1>12, <1>13,
           <1>14, <1>15, <1>16, <1>17, <1>18, <1>19, <1>20, <1>21, <1>22, <1>23, <1>24, <1>25
        DEF Next, Work

(* The walk sees the whole ring: the stretch it has seen, once closed, is  *)
(* all of it, because the ring is one cycle.                               *)
LEMMA WalkStep ==
    ASSUME IInv, [Next]_vars
    PROVE  Walk'
<1> USE SlotsAssumption DEF At, Goto, links, heap, pit, boot
<1>c. TypeOK /\ Control /\ Links /\ Walk /\ c \in Slots /\ Linked \subseteq used
  BY LinkedUsed DEF IInv, TypeOK
<1>w. pc[IdleSlot] \in Walking => c = IdleSlot /\ ~task
  BY <1>c DEF Control, Critical
<1>i. pc[c] \in IdleLabels => c = IdleSlot
  BY <1>c DEF Control
<1>1. CASE UNCHANGED vars
  BY <1>1, <1>c DEF vars, Walk, WaitExact, Linked
<1>2. CASE WaitOff
  <2>1. c = IdleSlot /\ p' = c /\ ret' = FALSE /\ pc'[IdleSlot] = "wait_walk" /\ Linked' = Linked
    BY <1>2, <1>c, <1>i DEF WaitOff, TypeOK, Linked, Unlinked, IdleLabels
  <2>2. c \in Linked
    BY <1>2, <1>c DEF WaitOff, Links, Freed
  <2>3. \E S \in SUBSET Linked' :
            /\ c' \in S \cup {p'}
            /\ \A s \in S : pid'[s] # wpid' /\ next'[s] \in S \cup {p'}
    <3> WITNESS {} \in SUBSET Linked'
    <3> QED BY <1>2, <2>1 DEF WaitOff
  <2> QED BY <2>1, <2>2, <2>3 DEF Walk, WaitExact
<1>3. CASE WaitFound
  <2>1. c = IdleSlot /\ pid[p] = wpid /\ p \in Linked
    BY <1>3, <1>c, <1>i DEF WaitFound, Walk, IdleLabels, Walking
  <2>2. ret' = TRUE /\ pc'[IdleSlot] = "wait_on" /\ Linked' = Linked /\ UNCHANGED <<pid, wpid>>
    BY <1>3, <1>c, <2>1 DEF WaitFound, TypeOK, Linked, Unlinked
  <2> QED BY <2>1, <2>2 DEF Walk, WaitExact
<1>4. CASE WaitNext
  <2>1. c = IdleSlot /\ pid[p] # wpid /\ p \in Linked /\ ~ret /\ p' = next[p]
    BY <1>4, <1>c, <1>i DEF WaitNext, Walk, IdleLabels, Walking
  <2>2. Ring(Linked, next, prev)
    BY <1>4, <1>c DEF WaitNext, Links
  <2>3. next[p] \in Linked
    BY <2>1, <2>2 DEF Ring
  <2>4. PICK S \in SUBSET Linked :
            /\ c \in S \cup {p}
            /\ \A s \in S : pid[s] # wpid /\ next[s] \in S \cup {p}
    BY <1>4, <1>c, <2>1 DEF WaitNext, Walk
  <2> DEFINE T == S \cup {p}
  <2>5. T \in SUBSET Linked /\ c \in T /\ \A s \in T : pid[s] # wpid /\ next[s] \in T \cup {next[p]}
    BY <2>1, <2>4
  <2>6. UNCHANGED <<next, pid, wpid, ret, c>>
    BY <1>4 DEF WaitNext
  <2>7. CASE next[p] = c
    <3>1. pc'[IdleSlot] = "wait_on" /\ Linked' = Linked
      BY <1>4, <1>c, <2>1, <2>7 DEF WaitNext, TypeOK, Linked, Unlinked
    <3>2. T = Linked
      BY <2>2, <2>5, <2>7 DEF Ring, Closed
    <3>3. ret' = FALSE /\ \A s \in Linked' : pid'[s] # wpid'
      BY <2>1, <2>5, <2>6, <3>1, <3>2
    <3> QED BY <3>1, <3>3 DEF Walk, WaitExact
  <2>8. CASE next[p] # c
    <3>1. pc'[IdleSlot] = "wait_walk" /\ Linked' = Linked
      BY <1>4, <1>c, <2>1, <2>8 DEF WaitNext, TypeOK, Linked, Unlinked
    <3>2. \E S1 \in SUBSET Linked' :
            /\ c' \in S1 \cup {p'}
            /\ \A s \in S1 : pid'[s] # wpid' /\ next'[s] \in S1 \cup {p'}
      <4>1. T \in SUBSET Linked'
        BY <2>5, <3>1
      <4> QED BY <2>1, <2>5, <2>6, <4>1
    <3> QED BY <2>1, <2>3, <2>6, <3>1, <3>2 DEF Walk, WaitExact
  <2> QED BY <2>7, <2>8
<1>5. CASE [Next]_vars /\ ~UNCHANGED vars /\ ~WaitOff /\ ~WaitFound /\ ~WaitNext
  <2>1. pc[IdleSlot] \in Walking => pc'[IdleSlot] \notin Walking
    <3>1. pc[IdleSlot] \in Walking => WaitOn
      BY <1>5, <1>w DEF Next, Work, vars, Walking, Tick, IdleEnableTask, IdleSetEnabled, CreateProcess,
         CreateOutOfMemory, Created, AddOff, AddNext, AddNextPrev, AddPrev, AddLink, AddOn, AddReturn,
         WaitYield, PrintYield, Printing, BodyEnd, BodyFault, Notified, KillIdle, KillPrint, KillOff,
         KillFree, KillNext, KillPrev, KillOn, KillSwitch, Panic, Halt
    <3> QED BY <3>1, <1>c, <1>w DEF WaitOn, AfterStarts, Walking, TypeOK
  <2>2. pc[IdleSlot] \notin Walking => pc'[IdleSlot] \notin Walking
    <3> SUFFICES ASSUME pc[IdleSlot] \notin Walking PROVE pc'[IdleSlot] \notin Walking
      OBVIOUS
    <3>1. CASE Tick \/ Halt \/ PrintYield
      BY <3>1 DEF Tick, Halt, vars, PrintYield
    <3>2. CASE CreateProcess
      BY <3>2, <1>c DEF CreateProcess, Walking, TypeOK
    <3>3. CASE AddReturn
      BY <3>3, <1>c DEF AddReturn, AfterStarts, Walking, TypeOK
    <3>4. CASE IdleSetEnabled \/ WaitOn
      BY <3>4, <1>c DEF IdleSetEnabled, WaitOn, AfterStarts, Walking, TypeOK
    <3>5. CASE \E l \in Labels \ Walking : Goto(l)
      BY <3>5, <1>c DEF TypeOK
    <3>6. CASE Work /\ ~(CreateProcess \/ AddReturn \/ IdleSetEnabled \/ WaitOn)
      <4>1. \E l \in Labels \ Walking : Goto(l)
        BY <3>6, <1>5 DEF Labels, Work, Walking, IdleEnableTask,
           CreateOutOfMemory, Created, AddOff, AddNext, AddNextPrev, AddPrev, AddLink, AddOn,
           WaitYield, BodyEnd, BodyFault, Notified, KillIdle, KillPrint, KillOff,
           KillFree, KillNext, KillPrev, KillOn, KillSwitch, Panic
      <4> QED BY <3>5, <4>1
    <3> QED BY <1>5, <3>1, <3>2, <3>3, <3>4, <3>6 DEF Next
  <2> QED BY <2>1, <2>2 DEF Walk, WaitExact, Walking
<1> QED BY <1>1, <1>2, <1>3, <1>4, <1>5

-----------------------------------------------------------------------------
(* The theorems                                                            *)

LEMMA IInvStep == IInv /\ [Next]_vars => IInv'
BY TypeStep, ControlStep, PidsStep, PendingStep, LinksStep, WalkStep, PreemptionStep DEF IInv

(* Every reachable state satisfies the strengthened invariant: src/tasking.c*)
(* keeps its control state, pids, links and ring walk as IInv describes.   *)
THEOREM Inductive == Spec => []IInv
<1>1. Init => IInv
  BY InitIInv
<1> QED BY <1>1, IInvStep, PTL DEF Spec

(* What IInv says of the ring when another process may run next.           *)
LEMMA RingWhenSwitchable ==
    ASSUME IInv, Switchable
    PROVE  Ring(Linked, next, prev)
<1>1. pc[c] \notin Adding \cup Killing
  BY TaskOutside DEF Switchable
<1> QED BY <1>1 DEF IInv, Links, Adding, Killing

(* Type correctness of the scheduler's state; c is always a PCB.           *)
THEOREM TypeCorrect == Spec => []TypeOK
<1>1. IInv => TypeOK
  BY DEF IInv
<1> QED BY <1>1, Inductive, PTL

(* No other process ever sees the links half updated by addProcess or      *)
(* _kill, whatever the number of processes.                                *)
THEOREM RingIsConsistent == Spec => []RingConsistent
<1>1. IInv => RingConsistent
  BY RingWhenSwitchable DEF RingConsistent, Ring
<1> QED BY <1>1, Inductive, PTL

(* The links always form a single ring through every live process.         *)
THEOREM RingIsOne == Spec => []OneRing
<1>1. IInv => OneRing
  BY RingWhenSwitchable DEF OneRing, Ring, Closed
<1> QED BY <1>1, Inductive, PTL

(* Both of it: what schedule() follows is one sound ring.                  *)
THEOREM RingIsSound == Spec => []RingSound
  BY RingIsConsistent, RingIsOne, PTL DEF RingSound

(* c is a live process, or one that is just taking itself down.            *)
THEOREM CurrentIsOwned == Spec => []CurrentOwned
<1>1. IInv => CurrentOwned
  BY DEF CurrentOwned, IInv, TypeOK, Control, Links, Freed
<1> QED BY <1>1, Inductive, PTL

(* Pids of live processes are distinct although their blocks are reused.   *)
THEOREM PidsAreUnique == Spec => []PidsUnique
<1>1. IInv => PidsUnique
  BY DEF PidsUnique, IInv, Pids
<1> QED BY <1>1, Inductive, PTL

(* is_pid_running is right about the whole ring.                           *)
THEOREM WaitIsExact == Spec => []WaitExact
<1>1. IInv => WaitExact
  BY DEF IInv, Walk
<1> QED BY <1>1, Inductive, PTL

(* Preemption is off only inside a section that turns it on, or after a    *)
(* panic.                                                                  *)
THEOREM PreemptionIsBounded == Spec => []PreemptionOff
<1>1. IInv => PreemptionOff
  BY DEF IInv
<1> QED BY <1>1, Inductive, PTL

(* schedule() only resumes blocks that are allocated.                      *)
THEOREM ResumesOnlyAllocated == Spec => NeverResumesFreed
<1>1. IInv /\ [Next]_vars => [c' # c => c' \in used']_vars
  <2> SUFFICES ASSUME IInv, [Next]_vars, c' # c PROVE c' \in used'
    OBVIOUS
  <2> USE DEF At, heap, schedule, schedule_noirq
  <2>1. pc[c] \notin Adding \cup Killing /\ c' = next[c] /\ used' = used
    BY TaskOutside DEF Next, Work, vars, Adding, Killing, Tick, IdleEnableTask, IdleSetEnabled, CreateProcess,
       CreateOutOfMemory, Created, AddOff, AddNext, AddNextPrev, AddPrev, AddLink, AddOn, AddReturn,
       WaitOff, WaitFound, WaitNext, WaitOn, WaitYield, PrintYield, BodyEnd, BodyFault, Notified,
       KillIdle, KillPrint, KillOff, KillFree, KillNext, KillPrev, KillOn, KillSwitch, Panic, Halt,
       Printing
  <2> QED BY <2>1, NextLinked, LinkedUsed
<1> QED BY <1>1, Inductive, PTL DEF Spec, NeverResumesFreed

-----------------------------------------------------------------------------
(* What late_init waits for                                                *)

\* lpid is the pid of the process started last, and late_init polls lpid or
\* that process is gone: the block p points at keeps its pid until it is
\* overwritten, which nobody does before the process has freed it.
Awaited ==
    /\ pc[IdleSlot] \in Unlinked \cup {"add_on", "add_ret"} =>
        pid[p] = lpid /\ \A s \in used : pid[s] = lpid => s = p
    /\ pc[IdleSlot] \in {"wait_off", "wait_yield"} \cup Walking =>
        wpid = lpid \/ \A s \in used : pid[s] # lpid

LEMMA AwaitedStep ==
    ASSUME IInv, Awaited, [Next]_vars
    PROVE  Awaited'
<1> USE SlotsAssumption DEF At, Goto, links, heap, pit, boot
<1>c. TypeOK /\ Control /\ Pids /\ Awaited
  BY DEF IInv
<1>i. pc[c] \in IdleLabels => c = IdleSlot
  BY <1>c DEF TypeOK, Control
<1> USE <1>c DEF TypeOK, Awaited, Unlinked, Adding, Walking
<1>1. CASE UNCHANGED vars
  BY <1>1 DEF vars
<1>2. CASE Tick \/ PrintYield
  BY <1>2 DEF Tick, PrintYield
<1>3. CASE IdleEnableTask \/ IdleSetEnabled \/ CreateOutOfMemory
  BY <1>3, <1>i DEF IdleEnableTask, IdleSetEnabled, CreateOutOfMemory, AfterStarts, IdleLabels
<1>4. CASE CreateProcess
  <2>1. c = IdleSlot /\ IdleSlot \in used
    BY <1>4, <1>i DEF CreateProcess, IdleLabels, Control, Freed
  <2> PICK s \in Slots \ used :
        /\ used' = used \cup {s} /\ p' = s
        /\ pid' = [pid EXCEPT ![s] = lpid + 1]
        /\ lpid' = lpid + 1
        /\ pc' = [pc EXCEPT ![c] = "created", ![s] = "body"]
    BY <1>4 DEF CreateProcess
  <2>2. pc'[IdleSlot] = "created"
    BY <2>1
  <2>3. pid'[s] = lpid + 1 /\ \A t \in used : pid'[t] = pid[t] /\ pid[t] # lpid + 1
    <3>1. \A t \in used : pid[t] \in Nat /\ pid[t] <= lpid
      BY DEF Pids
    <3> QED BY <3>1
  <2> QED BY <2>2, <2>3
<1>5. CASE Created \/ AddOff
  BY <1>5, <1>i DEF Created, AddOff, IdleLabels
<1>6. CASE AddNext \/ AddNextPrev \/ AddPrev \/ AddLink
  BY <1>6, <1>i DEF AddNext, AddNextPrev, AddPrev, AddLink, IdleLabels
<1>7. CASE AddOn
  BY <1>7, <1>i DEF AddOn, IdleLabels
<1>8. CASE AddReturn
  <2>1. c = IdleSlot /\ pid[p] = lpid /\ \A s \in used : pid[s] = lpid => s = p
    BY <1>8, <1>i DEF AddReturn, IdleLabels
  <2>2. pc'[IdleSlot] \in {"wait_off", "create", "body"}
    BY <1>8, <2>1 DEF AddReturn, AfterStarts
  <2>3. wpid' = lpid \/ p \notin used
    BY <1>8, <2>1 DEF AddReturn
  <2>4. UNCHANGED <<pid, used, lpid>>
    BY <1>8 DEF AddReturn
  <2> QED BY <2>1, <2>2, <2>3, <2>4
<1>9. CASE WaitOff \/ WaitFound \/ WaitNext
  BY <1>9, <1>i DEF WaitOff, WaitFound, WaitNext, IdleLabels
<1>10. CASE WaitOn \/ WaitYield
  BY <1>10, <1>i DEF WaitOn, WaitYield, AfterStarts, IdleLabels
<1>11. CASE BodyEnd \/ BodyFault \/ Notified \/ KillIdle \/ KillPrint \/ KillOff
  BY <1>11 DEF BodyEnd, BodyFault, Notified, KillIdle, KillPrint, KillOff
<1>12. CASE KillFree
  BY <1>12 DEF KillFree
<1>13. CASE KillNext \/ KillPrev \/ KillOn \/ KillSwitch \/ Panic
  BY <1>13 DEF KillNext, KillPrev, KillOn, KillSwitch, Panic
<1>14. CASE Halt
  BY <1>14 DEF Halt, vars
<1> QED BY <1>1, <1>2, <1>3, <1>4, <1>5, <1>6, <1>7, <1>8, <1>9, <1>10, <1>11, <1>12, <1>13, <1>14
        DEF Next, Work

(* late_init proceeds past a wait only when the process it started last is *)
(* gone, whatever another malloc wrote over the pid it read.               *)
THEOREM WaitersWait == Spec => WaitsForExit
<1> DEFINE A == pc[IdleSlot] = "wait_on" /\ pc'[IdleSlot] \in {"create", "body"}
                   => \A s \in used' : pid'[s] # lpid
<1>1. Init => Awaited
  BY SlotsAssumption DEF Init, Awaited, Unlinked, Walking
<1>2. Spec => []Awaited
  BY <1>1, Inductive, AwaitedStep, PTL DEF Spec
<1>3. IInv /\ Awaited /\ [Next]_vars => [A]_vars
  <2> SUFFICES ASSUME IInv, Awaited, [Next]_vars, ~UNCHANGED vars,
                      pc[IdleSlot] = "wait_on", pc'[IdleSlot] \in {"create", "body"}
               PROVE  \A s \in used' : pid'[s] # lpid
    OBVIOUS
  <2>1. c = IdleSlot /\ ~task /\ TypeOK
    BY SlotsAssumption DEF IInv, Control, Critical, Walking
  <2>2. WaitOn
    BY <2>1 DEF Next, Work, At, Tick, IdleEnableTask, IdleSetEnabled, CreateProcess,
       CreateOutOfMemory, Created, AddOff, AddNext, AddNextPrev, AddPrev, AddLink, AddOn, AddReturn,
       WaitOff, WaitFound, WaitNext, WaitOn, WaitYield, PrintYield, BodyEnd, BodyFault, Notified,
       KillIdle, KillPrint, KillOff, KillFree, KillNext, KillPrev, KillOn, KillSwitch, Panic, Halt
  <2>3. ~ret
    BY <2>1, <2>2 DEF WaitOn, Goto, TypeOK
  <2>4. Linked = used /\ used' = used /\ pid' = pid
    BY <2>2 DEF WaitOn, heap, Linked, Unlinked
  <2>5. \A s \in used : pid[s] # wpid
    BY <2>3, <2>4 DEF IInv, Walk, WaitExact
  <2>6. wpid = lpid \/ \A s \in used : pid[s] # lpid
    BY DEF Awaited, Walking
  <2> QED BY <2>4, <2>5, <2>6
<1> QED BY <1>2, <1>3, Inductive, PTL DEF Spec, WaitsForExit

-----------------------------------------------------------------------------
(* The ring implements a queue.                                            *)

\* Since kill_next wrote c->prev->next, nobody leads to c any more.
Skipped == pc[c] \in {"kill_prev", "kill_on", "kill_switch"}

\* The n processes that wait, in the order in which `next` reaches them.
Circuit(n, w) ==
    /\ n \in Nat /\ w \in [0 .. n -> Slots] /\ w[0] = c
    /\ \A k \in 1 .. n : w[k] = next[w[k - 1]]
    /\ \A j, k \in 0 .. n : w[j] = w[k] => j = k
    /\ \A k \in 1 .. n : w[k] \in Linked
    /\ ~Skipped => next[w[n]] = c
    /\ Skipped => n > 0 /\ next[w[n]] = w[1] /\ prev[c] = w[n]

HasCircuit == \E n, w : Circuit(n, w)

-----------------------------------------------------------------------------
(* Walking a function                                                      *)

(* Every set of numbers that is not empty has a least one.                 *)
LEMMA Least ==
    ASSUME NEW T \in SUBSET Nat, T # {}
    PROVE  \E m \in T : \A k \in T : m <= k
<1> DEFINE F == {0 .. m : m \in T}
           R == StrictSubsetOrdering(Nat)
           S == FiniteSubsetsOf(Nat)
<1>1. F \subseteq S /\ F # {}
  <2>1. \A m \in T : IsFiniteSet(0 .. m) /\ 0 .. m \in SUBSET Nat
    BY FS_Interval
  <2> QED BY <2>1 DEF FiniteSubsetsOf
<1>2. IsWellFoundedOn(R, S)
  BY FS_StrictSubsetOrderingWellFounded
<1>3. PICK x \in F : \A y \in F : ~ (<<y, x>> \in R)
  <2> HIDE DEF F, R, S
  <2> QED BY <1>1, <1>2, WFMin
<1>4. PICK m \in T : x = 0 .. m
  OBVIOUS
<1>5. ASSUME NEW k \in T, k < m PROVE FALSE
  <2>1. 0 .. k \in F /\ 0 .. k \subseteq 0 .. m /\ 0 .. k \in SUBSET Nat /\ 0 .. m \in SUBSET Nat
    BY <1>5
  <2>2. m \in 0 .. m /\ m \notin 0 .. k
    BY <1>5
  <2>3. <<0 .. k, 0 .. m>> \in R
    BY <2>1, <2>2 DEF StrictSubsetOrdering
  <2> QED BY <1>3, <1>4, <2>1, <2>3
<1> QED BY <1>5

\* g follows N from x for n steps.
Walks(N, x, n, g) == g[0] = x /\ \A k \in 1 .. n : g[k] = N[g[k - 1]]

(* There is a walk of every length: the shortest that is missing would be  *)
(* one step longer than one that is not.                                   *)
LEMMA WalkExists ==
    ASSUME NEW N, NEW x, NEW n \in Nat
    PROVE  \E g : Walks(N, x, n, g)
<1> DEFINE T == {m \in Nat : ~ \E g : Walks(N, x, m, g)}
<1> SUFFICES ASSUME T # {} PROVE FALSE
  OBVIOUS
<1>1. PICK m \in T : \A k \in T : m <= k
  <2>1. T \in SUBSET Nat
    OBVIOUS
  <2> HIDE DEF T
  <2> QED BY <2>1, Least
<1>2. CASE m = 0
  <2>1. Walks(N, x, 0, [k \in Nat |-> x])
    BY DEF Walks
  <2> QED BY <1>1, <1>2, <2>1
<1>3. CASE m # 0
  <2>1. m - 1 \in Nat /\ m - 1 \notin T
    BY <1>1, <1>3
  <2>2. PICK g : Walks(N, x, m - 1, g)
    BY <2>1
  <2> DEFINE h == [k \in Nat |-> IF k = m THEN N[g[m - 1]] ELSE g[k]]
  <2>3. Walks(N, x, m, h)
    <3>1. h[0] = x
      BY <1>3, <2>2 DEF Walks
    <3>2. ASSUME NEW k \in 1 .. m PROVE h[k] = N[h[k - 1]]
      <4>1. h[k - 1] = g[k - 1]
        BY <1>1
      <4>2. CASE k = m
        BY <4>1, <4>2
      <4>3. CASE k # m
        <5>1. k \in 1 .. m - 1 /\ h[k] = g[k]
          BY <1>1, <4>3
        <5> QED BY <2>2, <4>1, <5>1 DEF Walks
      <4> QED BY <4>2, <4>3
    <3> QED BY <3>1, <3>2 DEF Walks
  <2> QED BY <1>1, <2>3
<1> QED BY <1>2, <1>3

(* Two walks from one place are the same.                                  *)
LEMMA WalkUnique ==
    ASSUME NEW N, NEW x, NEW n \in Nat, NEW g, NEW h, Walks(N, x, n, g), Walks(N, x, n, h)
    PROVE  \A k \in 0 .. n : g[k] = h[k]
<1> DEFINE T == {k \in 0 .. n : g[k] # h[k]}
<1> SUFFICES ASSUME T # {} PROVE FALSE
  OBVIOUS
<1>1. PICK m \in T : \A k \in T : m <= k
  <2>1. T \in SUBSET Nat
    OBVIOUS
  <2> HIDE DEF T
  <2> QED BY <2>1, Least
<1>2. m # 0
  BY <1>1 DEF Walks
<1>3. m \in 1 .. n /\ m - 1 \in 0 .. n /\ m - 1 \notin T
  BY <1>1, <1>2
<1>4. g[m - 1] = h[m - 1] /\ g[m] = N[g[m - 1]] /\ h[m] = N[h[m - 1]]
  BY <1>3 DEF Walks
<1> QED BY <1>1, <1>4

(* The recursive function of the mapping is such a walk.                   *)
LEMMA FollowerWalks == \A n \in Nat : Walks(next, next[c], n, follower)
<1> DEFINE W(n) == CHOOSE g : Walks(next, next[c], n, g)
           f == [n \in Nat |-> W(n)[n]]
           E(g) == [n \in Nat |-> IF n = 0 THEN next[c] ELSE next[g[n - 1]]]
<1>1. \A n \in Nat : Walks(next, next[c], n, W(n))
  BY WalkExists
<1>2. f = E(f)
  <2>1. ASSUME NEW n \in Nat PROVE f[n] = E(f)[n]
    <3>1. CASE n = 0
      <4>1. f[0] = W(0)[0] /\ E(f)[0] = next[c]
        OBVIOUS
      <4>2. Walks(next, next[c], 0, W(0))
        BY <1>1
      <4>3. W(0)[0] = next[c]
        <5> HIDE DEF W
        <5> QED BY <4>2 DEF Walks
      <4> QED BY <3>1, <4>1, <4>3
    <3>2. CASE n # 0
      <4>1. n - 1 \in Nat /\ f[n] = W(n)[n] /\ f[n - 1] = W(n - 1)[n - 1] /\ E(f)[n] = next[f[n - 1]]
        BY <3>2
      <4> HIDE DEF f, E, W
      <4>2. Walks(next, next[c], n, W(n)) /\ Walks(next, next[c], n - 1, W(n - 1))
        BY <1>1, <4>1
      <4>3. Walks(next, next[c], n - 1, W(n))
        BY <4>1, <4>2 DEF Walks
      <4>4. W(n)[n - 1] = W(n - 1)[n - 1]
        <5>1. n - 1 \in 0 .. n - 1
          BY <4>1
        <5> QED BY <4>1, <4>2, <4>3, <5>1, WalkUnique
      <4>5. W(n)[n] = next[W(n)[n - 1]]
        <5>1. n \in 1 .. n
          BY <3>2
        <5> QED BY <4>2, <5>1 DEF Walks
      <4> QED BY <4>1, <4>4, <4>5
    <3> QED BY <3>1, <3>2
  <2>2. f = [n \in Nat |-> f[n]] /\ E(f) = [n \in Nat |-> E(f)[n]]
    OBVIOUS
  <2> HIDE DEF f, E
  <2> QED BY <2>1, <2>2
<1>3. follower = E(follower)
  <2>1. \E g : g = E(g)
    BY <1>2
  <2> QED BY <2>1 DEF follower
<1>4. follower[0] = next[c] /\ \A k \in Nat \ {0} : follower[k] = next[follower[k - 1]]
  <2> DEFINE e == E(follower)
  <2>1. e[0] = next[c] /\ \A k \in Nat \ {0} : e[k] = next[follower[k - 1]]
    OBVIOUS
  <2> HIDE DEF e
  <2>2. follower = e
    BY <1>3 DEF e
  <2> QED BY <2>1, <2>2
<1> QED BY <1>4 DEF Walks

-----------------------------------------------------------------------------
(* The queue that the ring stands for                                      *)

(* A circuit is no longer than there are blocks.                           *)
LEMMA CircuitFits ==
    ASSUME IsFiniteSet(Slots), NEW n, NEW w, Circuit(n, w)
    PROVE  Cardinality(Slots) \in Nat /\ n < Cardinality(Slots)
<1>1. Cardinality(Slots) \in Nat
  BY FS_CardinalityType
<1>2. n \in Nat /\ w \in Injection(0 .. n, Slots)
  BY DEF Circuit, Injection, IsInjective
<1>3. Cardinality(0 .. n) <= Cardinality(Slots)
  BY <1>2, FS_Injection
<1>4. Cardinality(0 .. n) = n + 1
  BY <1>2, FS_Interval
<1> QED BY <1>1, <1>2, <1>3, <1>4

(* c is skipped by its predecessor exactly after kill_next.                *)
LEMMA LeavingSkipped ==
    ASSUME IInv, NEW n, NEW w, Circuit(n, w)
    PROVE  Leaving <=> Skipped
<1>1. CASE Skipped
  <2>1. next[prev[c]] = w[1] /\ 1 \in 0 .. n /\ 0 \in 0 .. n /\ w[0] = c
    BY <1>1 DEF Circuit
  <2>2. w[1] # w[0]
    BY <2>1 DEF Circuit
  <2> QED BY <1>1, <2>1, <2>2 DEF Leaving
<1>2. CASE ~Skipped
  <2>1. TypeOK /\ Links /\ c \in Slots /\ prev \in [Slots -> Slots \cup {Null}]
    BY DEF IInv, TypeOK
  <2>2. CASE pc[c] \in {"add_prev", "add_link"}
    <3>1. /\ c \in Linked /\ next[p] = next[c] /\ prev[next[c]] = p
          /\ Ring(Linked, next, [prev EXCEPT ![next[c]] = c])
      BY <2>1, <2>2 DEF Links, Freed
    <3>2. CASE next[c] = c
      BY <3>1, <3>2, <1>2 DEF Leaving
    <3>3. CASE next[c] # c
      <4>1. [prev EXCEPT ![next[c]] = c][c] = prev[c]
        BY <2>1, <3>3
      <4>2. next[prev[c]] = c
        BY <3>1, <4>1 DEF Ring
      <4> QED BY <1>2, <4>2 DEF Leaving
    <3> QED BY <3>2, <3>3
  <2>3. CASE pc[c] \notin {"add_prev", "add_link"}
    <3>1. \E M : c \in M /\ Ring(M, next, prev)
      <4>1. CASE pc[c] = "kill_next"
        BY <2>1, <4>1 DEF Links
      <4>2. CASE pc[c] # "kill_next"
        <5>1. pc[c] \notin Freed
          BY <1>2, <4>2 DEF IInv, Control, Freed, Skipped
        <5> QED BY <2>1, <2>3, <4>2, <5>1 DEF Links, Freed
      <4> QED BY <4>1, <4>2
    <3> QED BY <1>2, <3>1 DEF Ring, Leaving
  <2> QED BY <2>2, <2>3
<1> QED BY <1>1, <1>2

(* Min picks the least member, when one is known.                          *)
LEMMA MinIs ==
    ASSUME NEW T \in SUBSET Nat, NEW m \in T, \A k \in T : m <= k
    PROVE  Min(T) = m
<1>1. \A x, y \in T : (\A k \in T : x <= k) /\ (\A k \in T : y <= k) => x = y
  OBVIOUS
<1> QED BY <1>1 DEF Min

(* The mapping's queue is the circuit without c.                           *)
LEMMA QueueIs ==
    ASSUME IInv, IsFiniteSet(Slots), NEW n, NEW w, Circuit(n, w)
    PROVE  Queue = [k \in 1 .. n |-> w[k]]
<1> DEFINE N == Cardinality(Slots)
<1>1. n \in Nat /\ N \in Nat /\ n < N
  BY CircuitFits DEF Circuit
<1>2. \A k \in 1 .. n : follower[k - 1] = w[k]
  <2> DEFINE h == [k \in Nat |-> w[k + 1]]
  <2>1. CASE n = 0
    BY <2>1
  <2>2. CASE n > 0
    <3>1. Walks(next, next[c], n - 1, h)
      <4>1. h[0] = next[c]
        BY <1>1, <2>2 DEF Circuit
      <4>2. ASSUME NEW k \in 1 .. n - 1 PROVE h[k] = next[h[k - 1]]
        <5>1. k + 1 \in 1 .. n /\ h[k] = w[k + 1] /\ h[k - 1] = w[k] /\ (k + 1) - 1 = k
          BY <1>1
        <5> QED BY <5>1 DEF Circuit
      <4> QED BY <4>1, <4>2 DEF Walks
    <3>2. n - 1 \in Nat /\ Walks(next, next[c], n - 1, follower)
      BY <1>1, <2>2, FollowerWalks
    <3>3. \A k \in 0 .. n - 1 : follower[k] = h[k]
      <4> HIDE DEF h
      <4> QED BY <3>1, <3>2, WalkUnique
    <3>4. ASSUME NEW k \in 1 .. n PROVE follower[k - 1] = w[k]
      <4>1. k - 1 \in 0 .. n - 1 /\ h[k - 1] = w[k]
        BY <1>1
      <4> QED BY <3>3, <4>1
    <3> QED BY <3>4
  <2> QED BY <1>1, <2>1, <2>2
<1>3. follower[n] = next[w[n]]
  <2>1. CASE n = 0
    BY <2>1, FollowerWalks DEF Walks, Circuit
  <2>2. CASE n > 0
    <3>1. follower[n] = next[follower[n - 1]]
      BY <1>1, <2>2, FollowerWalks DEF Walks
    <3> QED BY <1>1, <1>2, <2>2, <3>1
  <2> QED BY <1>1, <2>1, <2>2
<1>4. QueueLength = n
  <2>1. CASE Leaving
    <3> DEFINE T == {k \in 1 .. N : follower[k] = next[c]}
    <3>1. n > 0 /\ next[w[n]] = w[1] /\ w[1] = next[c]
      BY <1>1, <2>1, LeavingSkipped DEF Circuit
    <3>2. n \in T /\ T \in SUBSET Nat
      BY <1>1, <1>3, <3>1
    <3>3. ASSUME NEW k \in T PROVE n <= k
      <4> SUFFICES ASSUME k < n PROVE FALSE
        BY <1>1
      <4>1. k + 1 \in 1 .. n /\ (k + 1) - 1 = k /\ 1 \in 0 .. n /\ k + 1 \in 0 .. n
        BY <1>1
      <4>2. w[k + 1] = w[1]
        BY <1>2, <3>1, <4>1
      <4> QED BY <4>1, <4>2 DEF Circuit
    <3>4. Min(T) = n
      <4> HIDE DEF T
      <4> QED BY <3>2, <3>3, MinIs
    <3> QED BY <2>1, <3>4 DEF QueueLength
  <2>2. CASE ~Leaving
    <3> DEFINE T == {k \in 0 .. N : follower[k] = c}
    <3>1. next[w[n]] = c
      BY <2>2, LeavingSkipped DEF Circuit
    <3>2. n \in T /\ T \in SUBSET Nat
      BY <1>1, <1>3, <3>1
    <3>3. ASSUME NEW k \in T PROVE n <= k
      <4> SUFFICES ASSUME k < n PROVE FALSE
        BY <1>1
      <4>1. k + 1 \in 1 .. n /\ (k + 1) - 1 = k /\ 0 \in 0 .. n /\ k + 1 \in 0 .. n /\ k + 1 # 0
        BY <1>1
      <4>2. w[k + 1] = w[0]
        BY <1>2, <4>1 DEF Circuit
      <4> QED BY <4>1, <4>2 DEF Circuit
    <3>4. Min(T) = n
      <4> HIDE DEF T
      <4> QED BY <3>2, <3>3, MinIs
    <3> QED BY <2>2, <3>4 DEF QueueLength
  <2> QED BY <2>1, <2>2
<1> QED BY <1>2, <1>4 DEF Queue

(* What the mapping makes of a state, once its circuit is known.           *)
LEMMA Mapped ==
    \A n, w : IInv /\ IsFiniteSet(Slots) /\ Circuit(n, w)
        => Queue = [k \in 1 .. n |-> w[k]] /\ (Leaving <=> Skipped)
BY QueueIs, LeavingSkipped

-----------------------------------------------------------------------------
(* What a step does to the circuit                                         *)

\* The walk from c is as it was.
Quiet ==
    /\ c' = c
    /\ \A s \in Linked \cup {c} : next'[s] = next[s]
    /\ Linked \ {c} \subseteq Linked'
    /\ Skipped' <=> Skipped
    /\ Skipped => prev'[c] = prev[c]

\* schedule(), outside every update.
Switch ==
    /\ pc[c] \notin Adding \cup Killing
    /\ c' = next[c] /\ UNCHANGED <<next, prev>> /\ Linked' = Linked

(* A statement that calls schedule_noirq switches, since only kIdle runs   *)
(* before tasking is enabled.                                              *)
LEMMA YieldSwitches ==
    ASSUME IInv, schedule_noirq, UNCHANGED <<next, prev, used, p>>,
           pc[c] \notin Adding \cup Killing, pc[c] \notin {"enable_task", "set_enabled"},
           pc[IdleSlot] \in Unlinked <=> pc'[IdleSlot] \in Unlinked
    PROVE  Switch
<1>1. enabled
  BY DEF IInv, Control
<1> QED BY <1>1 DEF Switch, schedule_noirq, schedule, Linked

(* Every step leaves the walk alone, or links p, or skips c, or switches.  *)
LEMMA StepKinds ==
    ASSUME IInv, [Next]_vars
    PROVE  Quiet \/ AddLink \/ KillNext \/ Switch
<1> USE SlotsAssumption DEF At, Goto, links, heap, pit, boot
<1>c. TypeOK /\ Control /\ Pending /\ Links /\ c \in Slots /\ Linked \subseteq used
  BY LinkedUsed DEF IInv, TypeOK
<1>i. \A s \in Slots : pc[s] \in IdleLabels => s = IdleSlot
  BY <1>c DEF Control
<1>1. CASE UNCHANGED vars \/ Halt
  BY <1>1 DEF Halt, vars, Quiet, Linked, Skipped
<1>2. CASE Tick
  <2>1. pc[c] \notin Adding \cup Killing
    BY <1>2, TaskOutside DEF Tick
  <2>2. Linked' = Linked /\ UNCHANGED <<next, prev, pc>>
    BY <1>2 DEF Tick, Linked
  <2>3. CASE enabled
    BY <1>2, <2>1, <2>2, <2>3 DEF Tick, schedule, Switch
  <2>4. CASE ~enabled
    BY <1>2, <2>2, <2>4 DEF Tick, Quiet, Skipped
  <2> QED BY <2>3, <2>4
<1>3. CASE IdleEnableTask \/ IdleSetEnabled
  BY <1>3, <1>c, <1>i DEF IdleEnableTask, IdleSetEnabled, AfterStarts, Quiet, Skipped, Linked, Unlinked, TypeOK, IdleLabels
<1>4. CASE CreateProcess
  <2> PICK s \in Slots \ used :
        /\ used' = used \cup {s}
        /\ next' = [next EXCEPT ![s] = Null]
        /\ pc' = [pc EXCEPT ![c] = "created", ![s] = "body"]
        /\ p' = s
    BY <1>4 DEF CreateProcess
  <2>1. c = IdleSlot /\ pc[c] = "create" /\ c' = c /\ IdleSlot \in used /\ pc'[c] = "created"
    BY <1>4, <1>c, <1>i DEF CreateProcess, IdleLabels, Control, Freed, TypeOK
  <2>2. Linked = used /\ Linked' = used
    BY <2>1 DEF Linked, Unlinked
  <2>3. \A t \in used : next'[t] = next[t]
    BY <1>c DEF TypeOK
  <2> QED BY <2>1, <2>2, <2>3 DEF Quiet, Skipped
<1>5. CASE CreateOutOfMemory
  BY <1>5, <1>c, <1>i DEF CreateOutOfMemory, Quiet, Skipped, Linked, Unlinked, TypeOK, IdleLabels
<1>6. CASE Created
  BY <1>6, <1>c, <1>i, YieldSwitches DEF Created, Unlinked, Adding, Killing, TypeOK, IdleLabels
<1>7. CASE AddOff
  BY <1>7, <1>c, <1>i DEF AddOff, Quiet, Skipped, Linked, Unlinked, TypeOK, IdleLabels
<1>p. pc[c] \in Adding \ {"add_on"} => c = IdleSlot /\ p \in used /\ p # c /\ Linked = used \ {p} /\ c \in Linked
  BY <1>c, <1>i DEF IdleLabels, Pending, Linked, Unlinked, Adding, Links, Freed
<1>8. CASE AddNext
  <2>1. c = IdleSlot /\ p \notin Linked /\ p # c /\ Linked' = Linked /\ c' = c
    BY <1>8, <1>c, <1>p DEF AddNext, Adding, Linked, Unlinked, TypeOK
  <2> QED BY <1>8, <1>c, <2>1 DEF AddNext, Quiet, Skipped, TypeOK
<1>9. CASE AddNextPrev \/ AddPrev
  <2>1. c = IdleSlot /\ Linked' = Linked /\ c' = c /\ next' = next
    BY <1>9, <1>c, <1>p DEF AddNextPrev, AddPrev, Adding, Linked, Unlinked, TypeOK
  <2> QED BY <1>9, <1>c, <2>1 DEF AddNextPrev, AddPrev, Quiet, Skipped, TypeOK
<1>10. CASE AddOn \/ AddReturn
  <2>1. /\ c = IdleSlot /\ pc[c] \in {"add_on", "add_ret"}
        /\ pc'[c] \in {"add_ret", "wait_off", "create", "body"}
        /\ UNCHANGED <<c, next, prev, used>>
    <3>1. CASE AddOn
      BY <3>1, <1>c, <1>i DEF AddOn, TypeOK, IdleLabels, Adding
    <3>2. CASE AddReturn
      BY <3>2, <1>c, <1>i DEF AddReturn, AfterStarts, TypeOK, IdleLabels
    <3> QED BY <1>10, <3>1, <3>2
  <2> QED BY <2>1 DEF Quiet, Skipped, Linked, Unlinked
<1>11. CASE WaitOff \/ WaitFound \/ WaitNext \/ WaitOn
  <2>1. /\ c = IdleSlot /\ pc[c] \in {"wait_off", "wait_walk", "wait_on"}
        /\ pc'[c] \in {"wait_walk", "wait_on", "wait_yield", "create", "body"}
        /\ UNCHANGED <<c, next, prev, used>>
    BY <1>11, <1>c, <1>i DEF WaitOff, WaitFound, WaitNext, WaitOn, AfterStarts, TypeOK, IdleLabels, Walking
  <2> QED BY <2>1 DEF Quiet, Skipped, Linked, Unlinked
<1>12. CASE WaitYield
  BY <1>12, <1>c, <1>i, YieldSwitches DEF WaitYield, Unlinked, Adding, Killing, TypeOK, IdleLabels
<1>13. CASE BodyEnd \/ BodyFault
  BY <1>13, <1>c DEF BodyEnd, BodyFault, Quiet, Skipped, Linked, Unlinked, TypeOK
<1>14. CASE Notified
  BY <1>14, <1>c, YieldSwitches DEF Notified, Unlinked, Adding, Killing, TypeOK
<1>15. CASE KillIdle
  BY <1>15, <1>c DEF KillIdle, Quiet, Skipped, Linked, Unlinked, TypeOK
<1>16. CASE KillPrint
  BY <1>16, <1>c, YieldSwitches DEF KillPrint, Unlinked, Adding, Killing, TypeOK
<1>17. CASE KillOff \/ KillFree
  BY <1>17, <1>c DEF KillOff, KillFree, Quiet, Skipped, Linked, Unlinked, TypeOK
<1>18. CASE KillPrev
  <2>1. next[c] # c
    <3>1. /\ Ring(Linked \cup {c}, [next EXCEPT ![prev[c]] = c], prev)
          /\ next[prev[c]] = next[c] /\ c \notin Linked
      BY <1>18, <1>c DEF KillPrev, Links, Control, Freed
    <3>2. prev[c] \in Slots /\ [next EXCEPT ![prev[c]] = c][c] = IF prev[c] = c THEN c ELSE next[c]
      BY <1>c, <3>1 DEF Ring, TypeOK
    <3>3. IdleSlot \in Linked /\ IdleSlot # c
      BY <1>18, <1>c, <3>1 DEF KillPrev, Control, Pending, Linked
    <3>4. [next EXCEPT ![prev[c]] = c][c] # c
      <4> DEFINE N == [next EXCEPT ![prev[c]] = c]
      <4> HIDE DEF N
      <4>1. Ring(Linked \cup {c}, N, prev)
        BY <3>1 DEF N
      <4>2. N[c] # c
        <5> SUFFICES ASSUME N[c] = c PROVE FALSE
          OBVIOUS
        <5>1. Closed({c}, N)
          BY DEF Closed
        <5> QED BY <3>3, <4>1, <5>1 DEF Ring
      <4> QED BY <4>2 DEF N
    <3> QED BY <3>2, <3>4
  <2>2. pc[c] = "kill_prev" /\ pc'[c] = "kill_on" /\ UNCHANGED <<c, next, used, p>> /\ prev'[c] = prev[c]
    BY <1>18, <1>c, <2>1 DEF KillPrev, TypeOK
  <2>3. Linked' = Linked
    BY <1>18, <1>c, <2>2 DEF KillPrev, Linked, Unlinked, TypeOK
  <2> QED BY <2>2, <2>3 DEF Quiet, Skipped
<1>19. CASE KillOn
  BY <1>19, <1>c DEF KillOn, Quiet, Skipped, Linked, Unlinked, TypeOK
<1>20. CASE KillSwitch
  BY <1>20, <1>c, YieldSwitches DEF KillSwitch, Unlinked, Adding, Killing, TypeOK
<1>21. CASE Panic
  BY <1>21, <1>c, YieldSwitches DEF Panic, Unlinked, Adding, Killing, TypeOK
<1>22. CASE PrintYield
  BY <1>22, <1>c, YieldSwitches DEF PrintYield, Printing, Unlinked, Adding, Killing, TypeOK
<1> QED BY <1>1, <1>2, <1>3, <1>4, <1>5, <1>6, <1>7, <1>8, <1>9, <1>10, <1>11, <1>12, <1>13, <1>14,
           <1>15, <1>16, <1>17, <1>18, <1>19, <1>20, <1>21, <1>22 DEF Next, Work

(* A quiet step keeps the circuit.                                         *)
LEMMA QuietCircuit ==
    ASSUME Quiet, NEW n, NEW w, Circuit(n, w)
    PROVE  Circuit(n, w)'
<1>1. n \in Nat /\ w[0] = c /\ \A k \in 1 .. n : w[k] \in Linked /\ w[k] # c
  BY DEF Circuit
<1>2. \A k \in 0 .. n : next'[w[k]] = next[w[k]]
  BY <1>1 DEF Quiet
<1>3. \A k \in 1 .. n : k - 1 \in 0 .. n
  BY <1>1
<1>4. n \in 0 .. n
  BY <1>1
<1>5. \A k \in 1 .. n : w[k] = next'[w[k - 1]]
  BY <1>2, <1>3 DEF Circuit
<1>6. next'[w[n]] = next[w[n]]
  BY <1>2, <1>4
<1> QED BY <1>1, <1>5, <1>6 DEF Quiet, Circuit

\* p comes in front of those that wait.
Admitted(n, w) == [k \in 0 .. n + 1 |-> IF k = 0 THEN c ELSE IF k = 1 THEN p ELSE w[k - 1]]

(* c->next = p: p is the first to be served now.                           *)
LEMMA LinkCircuit ==
    ASSUME IInv, AddLink, NEW n, NEW w, Circuit(n, w)
    PROVE  /\ ~Skipped /\ ~Skipped' /\ c' = c /\ p \in Slots /\ p # c
           /\ \A k \in 1 .. n : w[k] # p
           /\ \E v : v = Admitted(n, w) /\ Circuit(n + 1, v)'
<1> USE SlotsAssumption
<1>c. TypeOK /\ Control /\ Pending /\ Links /\ c \in Slots
  BY DEF IInv, TypeOK
<1>1. /\ c = IdleSlot /\ c \in Linked /\ p \in used /\ p # c /\ Linked = used \ {p} /\ p \in Slots
      /\ next[p] = next[c]
  BY <1>c DEF AddLink, At, Control, IdleLabels, Pending, Links, Linked, Unlinked, Adding, Freed, TypeOK
<1>2. /\ c' = c /\ next' = [next EXCEPT ![c] = p] /\ prev' = prev /\ p' = p
      /\ pc[c] = "add_link" /\ pc'[c] = "add_on"
  BY <1>c DEF AddLink, At, Goto, TypeOK, boot
<1>3. Linked' = used
  BY <1>1, <1>2 DEF AddLink, heap, Linked, Unlinked
<1>4. ~Skipped /\ ~Skipped'
  BY <1>2 DEF Skipped
<1>5. /\ n \in Nat /\ w \in [0 .. n -> Slots] /\ w[0] = c
      /\ \A k \in 1 .. n : w[k] \in Linked /\ w[k] # c /\ w[k] # p
  BY <1>1 DEF Circuit
<1> PICK v : v = Admitted(n, w)
  OBVIOUS
<1>6. /\ v \in [0 .. n + 1 -> Slots] /\ v[0] = c /\ v[1] = p
      /\ \A k \in 2 .. n + 1 : v[k] = w[k - 1]
  BY <1>1, <1>5 DEF Admitted
<1>7. next'[c] = p /\ \A s \in Slots \ {c} : next'[s] = next[s]
  BY <1>c, <1>2 DEF TypeOK
<1>8. ASSUME NEW k \in 1 .. n + 1 PROVE v[k] = next'[v[k - 1]]
  <2>1. CASE k = 1
    BY <1>6, <1>7, <2>1
  <2>2. CASE k = 2
    <3>1. v[2] = w[1] /\ n > 0
      BY <1>5, <1>6, <2>2
    <3>2. w[1] = next[c]
      BY <3>1, <1>5 DEF Circuit
    <3> QED BY <1>1, <1>6, <1>7, <2>2, <3>1, <3>2
  <2>3. CASE k > 2
    <3>1. k - 1 \in 1 .. n /\ k - 1 \in 2 .. n + 1 /\ k \in 2 .. n + 1 /\ (k - 1) - 1 \in 1 .. n
      BY <1>5, <2>3
    <3>2. v[k] = w[k - 1] /\ v[k - 1] = w[(k - 1) - 1]
      BY <1>6, <3>1
    <3>3. w[k - 1] = next[w[(k - 1) - 1]]
      BY <3>1 DEF Circuit
    <3>4. w[(k - 1) - 1] \in Slots \ {c}
      BY <1>5, <3>1
    <3> QED BY <1>7, <3>2, <3>3, <3>4
  <2> QED BY <1>5, <2>1, <2>2, <2>3
<1>9. ASSUME NEW j \in 0 .. n + 1, NEW k \in 0 .. n + 1, v[j] = v[k] PROVE j = k
  <2>1. \A i \in 2 .. n + 1 : i - 1 \in 1 .. n /\ v[i] = w[i - 1] /\ v[i] # c /\ v[i] # p
    BY <1>5, <1>6
  <2>2. CASE j \in 2 .. n + 1 /\ k \in 2 .. n + 1
    <3>1. w[j - 1] = w[k - 1] /\ j - 1 \in 0 .. n /\ k - 1 \in 0 .. n
      BY <1>9, <2>1, <2>2
    <3>2. j - 1 = k - 1
      BY <3>1 DEF Circuit
    <3> QED BY <3>2
  <2>3. CASE j \in {0, 1} /\ k \in {0, 1}
    BY <1>1, <1>6, <1>9, <2>3
  <2>4. CASE j \in {0, 1} /\ k \in 2 .. n + 1
    BY <1>6, <1>9, <2>1, <2>4
  <2>5. CASE j \in 2 .. n + 1 /\ k \in {0, 1}
    BY <1>6, <1>9, <2>1, <2>5
  <2>6. j \in {0, 1} \cup 2 .. n + 1 /\ k \in {0, 1} \cup 2 .. n + 1
    BY <1>5
  <2> QED BY <2>2, <2>3, <2>4, <2>5, <2>6
<1>10. ASSUME NEW k \in 1 .. n + 1 PROVE v[k] \in Linked'
  <2>1. CASE k = 1
    BY <1>1, <1>3, <1>6, <2>1
  <2>2. CASE k # 1
    <3>1. k \in 2 .. n + 1 /\ k - 1 \in 1 .. n
      BY <1>5, <2>2
    <3> QED BY <1>1, <1>3, <1>5, <1>6, <3>1
  <2> QED BY <2>1, <2>2
<1>11. next'[v[n + 1]] = c
  <2>1. CASE n = 0
    <3>1. next[c] = c
      BY <1>4, <1>5, <2>1 DEF Circuit
    <3> QED BY <1>1, <1>6, <1>7, <2>1, <3>1
  <2>2. CASE n # 0
    <3>1. n + 1 \in 2 .. n + 1 /\ n \in 1 .. n /\ (n + 1) - 1 = n
      BY <1>5, <2>2
    <3>2. v[n + 1] = w[n] /\ w[n] \in Slots \ {c}
      BY <1>5, <1>6, <3>1
    <3>3. next[w[n]] = c
      BY <1>4 DEF Circuit
    <3> QED BY <1>7, <3>2, <3>3
  <2> QED BY <2>1, <2>2
<1>12. Circuit(n + 1, v)'
  BY <1>2, <1>4, <1>5, <1>6, <1>8, <1>9, <1>10, <1>11 DEF Circuit
<1> QED BY <1>1, <1>2, <1>4, <1>5, <1>12

(* c->prev->next = c->next: the same processes wait, and c does not.       *)
LEMMA SkipCircuit ==
    ASSUME IInv, KillNext, NEW n, NEW w, Circuit(n, w)
    PROVE  ~Skipped /\ Skipped' /\ c' = c /\ n > 0 /\ Circuit(n, w)'
<1> USE SlotsAssumption
<1>c. TypeOK /\ Control /\ Pending /\ Links /\ c \in Slots
  BY DEF IInv, TypeOK
<1>1. /\ pc[c] = "kill_next" /\ pc'[c] = "kill_prev" /\ c' = c /\ prev' = prev
      /\ next' = [next EXCEPT ![prev[c]] = next[c]]
  BY <1>c DEF KillNext, At, Goto, TypeOK
<1>2. Ring(Linked \cup {c}, next, prev)
  BY <1>1, <1>c DEF Links
<1>3. Linked' = Linked
  BY <1>1, <1>c DEF KillNext, At, Goto, heap, boot, Linked, Unlinked, TypeOK
<1>4. ~Skipped /\ Skipped'
  BY <1>1 DEF Skipped
<1>5. /\ n \in Nat /\ w \in [0 .. n -> Slots] /\ w[0] = c /\ next[w[n]] = c
      /\ \A k \in 1 .. n : w[k] \in Linked
  BY <1>4 DEF Circuit
<1>6. n > 0
  <2> SUFFICES ASSUME n = 0 PROVE FALSE
    BY <1>5
  <2>1. Closed({c}, next)
    BY <1>5 DEF Closed
  <2>2. IdleSlot \in Linked /\ IdleSlot # c
    BY <1>1, <1>c DEF Control, Pending, Linked, Freed
  <2> QED BY <1>2, <2>1, <2>2 DEF Ring
<1>7. prev[c] = w[n]
  <2>1. n \in 1 .. n
    BY <1>5, <1>6
  <2>2. w[n] \in Linked \cup {c}
    BY <1>5, <2>1
  <2> QED BY <1>2, <1>5, <2>2 DEF Ring
<1>8. next'[w[n]] = next[c] /\ \A k \in 0 .. n - 1 : next'[w[k]] = next[w[k]]
  <2>1. \A k \in 0 .. n - 1 : k \in 0 .. n /\ n \in 0 .. n /\ k # n
    BY <1>5
  <2>2. \A k \in 0 .. n - 1 : w[k] # w[n] /\ w[k] \in Slots
    BY <2>1 DEF Circuit
  <2>3. w[n] \in Slots
    BY <1>5
  <2> QED BY <1>1, <1>7, <1>c, <2>2, <2>3 DEF TypeOK
<1>9. w[1] = next[c]
  <2>1. 1 \in 1 .. n /\ 1 - 1 = 0
    BY <1>5, <1>6
  <2> QED BY <1>5, <2>1 DEF Circuit
<1>10. \A k \in 1 .. n : w[k] = next'[w[k - 1]]
  <2>1. \A k \in 1 .. n : k - 1 \in 0 .. n - 1
    BY <1>5
  <2> QED BY <1>8, <2>1 DEF Circuit
<1>11. Circuit(n, w)'
  BY <1>1, <1>3, <1>4, <1>5, <1>6, <1>7, <1>8, <1>9, <1>10 DEF Circuit
<1> QED BY <1>1, <1>4, <1>6, <1>11

\* The first that waits runs, and c comes last unless it is skipped.
Rest(n)       == IF Skipped THEN n - 1 ELSE n
Rotated(n, w) == [k \in 0 .. Rest(n) |-> IF k = n THEN c ELSE w[k + 1]]

(* schedule() takes the first of the queue.                                *)
LEMMA SwitchCircuit ==
    ASSUME IInv, IInv', Switch, NEW n, NEW w, Circuit(n, w)
    PROVE  /\ ~Skipped' /\ (Skipped => n > 0)
           /\ \E v, m : v = Rotated(n, w) /\ m = Rest(n) /\ c' = v[0] /\ Circuit(m, v)'
<1> USE SlotsAssumption
<1>c. TypeOK /\ Control /\ Links /\ c \in Slots
  BY DEF IInv, TypeOK
<1>1. pc[c] \notin Adding \cup Killing /\ c' = next[c] /\ next' = next /\ prev' = prev /\ Linked' = Linked
  BY DEF Switch
<1>2. c' \in Linked
  BY <1>1, NextLinked
<1>3. ~Skipped'
  <2>1. Linked' \subseteq used'
    BY DEF Linked
  <2>2. Control' /\ TypeOK'
    BY DEF IInv
  <2>3. c' \in used' /\ c' \in Slots
    BY <1>1, <1>2, <2>1, <2>2 DEF TypeOK
  <2>4. pc'[c'] \notin Freed
    BY <2>2, <2>3 DEF Control
  <2> QED BY <2>4 DEF Skipped, Freed
<1>4. ~Skipped => c \in Linked
  BY <1>1, <1>c DEF Skipped, Links, Control, Freed, Killing
<1>5. /\ n \in Nat /\ w \in [0 .. n -> Slots] /\ w[0] = c
      /\ \A k \in 1 .. n : w[k] \in Linked
      /\ Skipped => n > 0
  BY DEF Circuit
<1> PICK m : m = Rest(n)
  OBVIOUS
<1> PICK v : v = Rotated(n, w)
  OBVIOUS
<1>6. /\ m \in Nat /\ m <= n /\ m + 1 >= n
      /\ Skipped => m + 1 = n
      /\ ~Skipped => m = n
  BY <1>5 DEF Rest
<1>7. \A k \in 0 .. m : k \in 0 .. n /\ (k # n => k + 1 \in 0 .. n /\ k + 1 \in 1 .. n)
  BY <1>5, <1>6
<1>8. /\ v \in [0 .. m -> Slots]
      /\ \A k \in 0 .. m : v[k] = IF k = n THEN c ELSE w[k + 1]
  <2>1. v = [k \in 0 .. m |-> IF k = n THEN c ELSE w[k + 1]]
    BY DEF Rotated
  <2>2. \A k \in 0 .. m : k # n => w[k + 1] \in Slots
    BY <1>5, <1>7
  <2> QED BY <1>c, <2>1, <2>2
<1>9. v[0] = c'
  <2>1. 0 \in 0 .. m
    BY <1>6
  <2>2. CASE n = 0
    <3>1. next[c] = c
      BY <1>5, <2>2 DEF Circuit
    <3> QED BY <1>1, <1>8, <2>1, <2>2, <3>1
  <2>3. CASE n # 0
    <3>1. 1 \in 1 .. n /\ v[0] = w[1]
      BY <1>5, <1>8, <2>1, <2>3
    <3>2. w[1] = next[c]
      BY <1>5, <3>1 DEF Circuit
    <3> QED BY <1>1, <3>1, <3>2
  <2> QED BY <2>2, <2>3
<1>10. ASSUME NEW k \in 1 .. m PROVE v[k] = next[v[k - 1]]
  <2>1. k - 1 \in 0 .. m /\ k \in 0 .. m /\ k - 1 # n /\ (k - 1) + 1 = k /\ k \in 1 .. n
    BY <1>6
  <2>2. v[k - 1] = w[k]
    BY <1>8, <2>1
  <2>3. CASE k = n
    <3>1. ~Skipped /\ v[k] = c
      BY <1>6, <1>8, <2>1, <2>3
    <3>2. next[w[n]] = c
      BY <3>1 DEF Circuit
    <3> QED BY <2>2, <2>3, <3>1, <3>2
  <2>4. CASE k # n
    <3>1. k + 1 \in 1 .. n /\ (k + 1) - 1 = k /\ v[k] = w[k + 1]
      BY <1>7, <1>8, <2>1, <2>4
    <3>2. w[k + 1] = next[w[k]]
      BY <3>1 DEF Circuit
    <3> QED BY <2>2, <3>1, <3>2
  <2> QED BY <2>3, <2>4
<1>11. ASSUME NEW j \in 0 .. m, NEW k \in 0 .. m, v[j] = v[k] PROVE j = k
  <2> DEFINE e(i) == IF i = n THEN 0 ELSE i + 1
  <2>1. \A i \in 0 .. m : e(i) \in 0 .. n /\ v[i] = w[e(i)]
    BY <1>5, <1>7, <1>8
  <2>2. e(j) = e(k)
    <3>1. e(j) \in 0 .. n /\ e(k) \in 0 .. n /\ w[e(j)] = w[e(k)]
      BY <1>11, <2>1
    <3> HIDE DEF e
    <3> QED BY <3>1 DEF Circuit
  <2> QED BY <2>2
<1>12. \A k \in 1 .. m : v[k] \in Linked
  <2> SUFFICES ASSUME NEW k \in 1 .. m PROVE v[k] \in Linked
    OBVIOUS
  <2>1. k \in 0 .. m
    OBVIOUS
  <2>2. CASE k = n
    <3>1. ~Skipped
      BY <1>6, <2>2
    <3> QED BY <1>4, <1>8, <2>1, <2>2, <3>1
  <2>3. CASE k # n
    BY <1>5, <1>7, <1>8, <2>1, <2>3
  <2> QED BY <2>2, <2>3
<1>13. next[v[m]] = c'
  <2>1. m \in 0 .. m
    BY <1>6
  <2>2. CASE Skipped
    <3>1. v[m] = w[n] /\ next[w[n]] = w[1] /\ 1 \in 1 .. n
      BY <1>5, <1>6, <1>8, <2>1, <2>2 DEF Circuit
    <3>2. w[1] = next[c]
      BY <1>5, <3>1 DEF Circuit
    <3> QED BY <1>1, <3>1, <3>2
  <2>3. CASE ~Skipped
    BY <1>1, <1>6, <1>8, <2>1, <2>3
  <2> QED BY <2>2, <2>3
<1>14. Circuit(m, v)'
  BY <1>1, <1>3, <1>6, <1>8, <1>9, <1>10, <1>11, <1>12, <1>13 DEF Circuit
<1> QED BY <1>3, <1>5, <1>9, <1>14

-----------------------------------------------------------------------------
(* The refinement                                                          *)

(* A circuit survives every step.                                          *)
LEMMA CircuitStep ==
    ASSUME IInv, IInv', [Next]_vars, HasCircuit
    PROVE  HasCircuit'
<1> PICK n, w : Circuit(n, w)
  BY DEF HasCircuit
<1>1. CASE Quiet
  BY <1>1, QuietCircuit DEF HasCircuit
<1>2. CASE AddLink
  BY <1>2, LinkCircuit DEF HasCircuit
<1>3. CASE KillNext
  BY <1>3, SkipCircuit DEF HasCircuit
<1>4. CASE Switch
  BY <1>4, SwitchCircuit DEF HasCircuit
<1> QED BY <1>1, <1>2, <1>3, <1>4, StepKinds

(* At first one process waits.                                             *)
LEMMA InitCircuit ==
    ASSUME Init
    PROVE  \E t1 \in Slots \ {c} : c \in Slots /\ Circuit(1, [k \in 0 .. 1 |-> IF k = 0 THEN c ELSE t1])
<1> PICK t1 \in Slots \ {IdleSlot} :
        /\ used = {IdleSlot, t1}
        /\ next = [[s \in Slots |-> Null] EXCEPT ![IdleSlot] = t1, ![t1] = IdleSlot]
        /\ pc = [[s \in Slots |-> "gone"] EXCEPT ![IdleSlot] = "enable_task", ![t1] = "body"]
        /\ c = IdleSlot
  BY DEF Init
<1> USE SlotsAssumption
<1> DEFINE w == [k \in 0 .. 1 |-> IF k = 0 THEN c ELSE t1]
<1>1. next[c] = t1 /\ next[t1] = c /\ pc[c] = "enable_task" /\ c # t1
  OBVIOUS
<1>2. t1 \in Linked /\ ~Skipped
  BY <1>1 DEF Linked, Unlinked, Skipped
<1>3. w \in [0 .. 1 -> Slots] /\ w[0] = c /\ w[1] = t1
  OBVIOUS
<1> HIDE DEF w
<1>4. \A k \in 1 .. 1 : k = 1 /\ k - 1 = 0
  OBVIOUS
<1>5. \A j, k \in 0 .. 1 : w[j] = w[k] => j = k
  BY <1>1, <1>3
<1>6. Circuit(1, w)
  BY <1>1, <1>2, <1>3, <1>4, <1>5 DEF Circuit
<1> QED BY <1>6 DEF w

(* What Admit and Rotate do to a sequence, element by element.             *)
LEMMA QueueMoves ==
    ASSUME NEW n \in Nat, NEW w \in [0 .. n -> Slots], NEW x \in Slots
    PROVE  LET q == [k \in 1 .. n |-> w[k]]
           IN  /\ q \in Seq(Slots) /\ Len(q) = n
               /\ <<x>> \o q = [k \in 1 .. n + 1 |-> IF k = 1 THEN x ELSE w[k - 1]]
               /\ n > 0 => Head(q) = w[1] /\ Tail(q) = [k \in 1 .. n - 1 |-> w[k + 1]]
               /\ Head(Append(q, x)) = IF n = 0 THEN x ELSE w[1]
               /\ Tail(Append(q, x)) = [k \in 1 .. n |-> IF k = n THEN x ELSE w[k + 1]]
<1> DEFINE q == [k \in 1 .. n |-> w[k]]
           a == <<x>> \o q
           b == Append(q, x)
<1>1. q \in Seq(Slots) /\ Len(q) = n /\ \A k \in 1 .. n : q[k] = w[k]
  <2>1. q \in [1 .. n -> Slots]
    OBVIOUS
  <2> QED BY <2>1
<1> HIDE DEF q
<1>2. a = [k \in 1 .. n + 1 |-> IF k = 1 THEN x ELSE w[k - 1]]
  <2>1. a \in Seq(Slots) /\ Len(a) = n + 1 /\ <<x>> \in Seq(Slots) /\ Len(<<x>>) = 1
    BY <1>1
  <2>2. \A k \in 1 .. n + 1 : a[k] = IF k = 1 THEN x ELSE q[k - 1]
    BY <1>1, <2>1
  <2>3. \A k \in 1 .. n + 1 : k # 1 => k - 1 \in 1 .. n
    OBVIOUS
  <2>4. a = [k \in 1 .. n + 1 |-> a[k]]
    BY <2>1
  <2> HIDE DEF a
  <2> QED BY <1>1, <2>2, <2>3, <2>4
<1>3. n > 0 => Head(q) = w[1] /\ Tail(q) = [k \in 1 .. n - 1 |-> w[k + 1]]
  <2> SUFFICES ASSUME n > 0 PROVE Head(q) = w[1] /\ Tail(q) = [k \in 1 .. n - 1 |-> w[k + 1]]
    OBVIOUS
  <2>1. Head(q) = q[1] /\ Len(Tail(q)) = n - 1 /\ Tail(q) \in Seq(Slots)
    BY <1>1
  <2>2. \A k \in 1 .. n - 1 : Tail(q)[k] = q[k + 1] /\ k + 1 \in 1 .. n
    BY <1>1
  <2>3. Tail(q) = [k \in 1 .. n - 1 |-> Tail(q)[k]]
    <3> DEFINE t == Tail(q)
    <3> HIDE DEF t
    <3>1. t \in Seq(Slots) /\ Len(t) = n - 1
      BY <2>1 DEF t
    <3>2. t = [k \in 1 .. n - 1 |-> t[k]]
      BY <3>1
    <3> QED BY <3>2 DEF t
  <2> QED BY <1>1, <2>1, <2>2, <2>3
<1>4. b \in Seq(Slots) /\ Len(b) = n + 1 /\ b[n + 1] = x /\ \A k \in 1 .. n : b[k] = w[k]
  BY <1>1
<1> HIDE DEF b
<1>5. Head(b) = IF n = 0 THEN x ELSE w[1]
  <2>1. Head(b) = b[1]
    BY <1>4
  <2> QED BY <1>4, <2>1
<1>6. Tail(b) = [k \in 1 .. n |-> IF k = n THEN x ELSE w[k + 1]]
  <2>1. Len(Tail(b)) = n /\ Tail(b) \in Seq(Slots)
    BY <1>4
  <2>2. \A k \in 1 .. n : Tail(b)[k] = b[k + 1]
    BY <1>4
  <2>3. \A k \in 1 .. n : b[k + 1] = IF k = n THEN x ELSE w[k + 1]
    BY <1>4
  <2>4. Tail(b) = [k \in 1 .. n |-> Tail(b)[k]]
    <3> DEFINE t == Tail(b)
    <3> HIDE DEF t
    <3>1. t \in Seq(Slots) /\ Len(t) = n
      BY <2>1 DEF t
    <3>2. t = [k \in 1 .. n |-> t[k]]
      BY <3>1
    <3> QED BY <3>2 DEF t
  <2> QED BY <2>2, <2>3, <2>4
<1> QED BY <1>1, <1>2, <1>3, <1>5, <1>6 DEF q, a, b

(* The same of the state after a step.                                     *)
LEMMA MappedNext ==
    \A n, w : IInv' /\ IsFiniteSet(Slots) /\ Circuit(n, w)'
        => Queue' = [k \in 1 .. n |-> w[k]] /\ (Leaving' <=> Skipped')
<1>1. (\A n, w : IInv /\ IsFiniteSet(Slots) /\ Circuit(n, w)
          => Queue = [k \in 1 .. n |-> w[k]] /\ (Leaving <=> Skipped))'
  BY Mapped, PTL
<1> QED BY <1>1

(* Every step of the kernel is a step of the queue or does not touch it.   *)
LEMMA RoundRobinStep ==
    ASSUME IsFiniteSet(Slots), IInv, IInv', [Next]_vars, HasCircuit
    PROVE  [RR!RRNext]_RR!rrvars
<1> PICK n, w : Circuit(n, w)
  BY DEF HasCircuit
<1>1. n \in Nat /\ w \in [0 .. n -> Slots] /\ w[0] = c /\ c \in Slots
  BY DEF Circuit, IInv, TypeOK
<1>2. Queue = [k \in 1 .. n |-> w[k]] /\ (Leaving <=> Skipped)
  BY Mapped
<1> DEFINE q == [k \in 1 .. n |-> w[k]]
<1>3. CASE Quiet
  <2>1. Queue' = Queue /\ (Leaving' <=> Skipped')
    BY <1>2, <1>3, QuietCircuit, MappedNext
  <2>2. (Skipped' <=> Skipped) /\ c' = c
    BY <1>3 DEF Quiet
  <2>3. Leaving' = Leaving
    BY <1>2, <2>1, <2>2 DEF Leaving
  <2> QED BY <2>1, <2>2, <2>3 DEF RR!rrvars
<1>4. CASE AddLink
  <2>1. PICK v : /\ v = Admitted(n, w) /\ Circuit(n + 1, v)'
                 /\ ~Skipped /\ ~Skipped' /\ c' = c /\ p \in Slots /\ p # c
                 /\ \A k \in 1 .. n : w[k] # p
    BY <1>4, LinkCircuit
  <2>2. Queue' = [k \in 1 .. n + 1 |-> v[k]] /\ ~Leaving' /\ ~Leaving
    BY <1>2, <2>1, MappedNext
  <2>3. \A k \in 1 .. n + 1 : v[k] = IF k = 1 THEN p ELSE w[k - 1]
    BY <1>1, <2>1 DEF Admitted
  <2>4. Queue' = <<p>> \o q
    <3>1. <<p>> \o q = [k \in 1 .. n + 1 |-> IF k = 1 THEN p ELSE w[k - 1]]
      BY <1>1, <2>1, QueueMoves
    <3> HIDE DEF q
    <3> QED BY <2>2, <2>3, <3>1
  <2>5. ~RR!InQueue(p)
    BY <1>2, <2>1 DEF RR!InQueue
  <2>6. Leaving' = Leaving
    BY <2>2 DEF Leaving
  <2>7. RR!Admit(p)
    BY <1>2, <2>1, <2>2, <2>4, <2>5, <2>6 DEF RR!Admit
  <2> QED BY <2>1, <2>7 DEF RR!RRNext
<1>5. CASE KillNext
  <2>1. ~Skipped /\ Skipped' /\ c' = c /\ n > 0 /\ Circuit(n, w)'
    BY <1>5, SkipCircuit
  <2>2. Queue' = q /\ Leaving' /\ ~Leaving
    BY <1>2, <2>1, MappedNext
  <2>3. q # <<>>
    <3>1. Len(q) = n
      BY <1>1, QueueMoves
    <3> HIDE DEF q
    <3> QED BY <2>1, <3>1
  <2>4. Leaving' = TRUE
    BY <2>2 DEF Leaving
  <2> QED BY <1>2, <2>1, <2>2, <2>3, <2>4 DEF RR!RRNext, RR!Exit
<1>6. CASE Switch
  <2>1. PICK v, m : /\ v = Rotated(n, w) /\ m = Rest(n) /\ c' = v[0] /\ Circuit(m, v)'
                    /\ ~Skipped' /\ (Skipped => n > 0)
    BY <1>6, SwitchCircuit
  <2>2. Queue' = [k \in 1 .. m |-> v[k]] /\ ~Leaving'
    BY <2>1, MappedNext
  <2>3. Leaving' = FALSE
    BY <2>2 DEF Leaving
  <2>4. v = [k \in 0 .. m |-> IF k = n THEN c ELSE w[k + 1]]
    BY <2>1 DEF Rotated
  <2>5. CASE Skipped
    <3>1. m = n - 1 /\ n > 0
      BY <2>1, <2>5 DEF Rest
    <3>2. Head(q) = w[1] /\ Tail(q) = [k \in 1 .. n - 1 |-> w[k + 1]]
      BY <1>1, <3>1, QueueMoves
    <3>3. v[0] = w[1] /\ \A k \in 1 .. m : v[k] = w[k + 1]
      BY <1>1, <2>4, <3>1
    <3>4. c' = Head(q) /\ Queue' = Tail(q)
      <4> HIDE DEF q
      <4> QED BY <2>1, <2>2, <3>1, <3>2, <3>3
    <3> QED BY <1>2, <2>3, <2>5, <3>4 DEF RR!RRNext, RR!Rotate
  <2>6. CASE ~Skipped
    <3>1. m = n
      BY <2>1, <2>6 DEF Rest
    <3>2. /\ Head(Append(q, c)) = IF n = 0 THEN c ELSE w[1]
          /\ Tail(Append(q, c)) = [k \in 1 .. n |-> IF k = n THEN c ELSE w[k + 1]]
      BY <1>1, QueueMoves
    <3>3. /\ v[0] = IF n = 0 THEN c ELSE w[1]
          /\ \A k \in 1 .. n : v[k] = IF k = n THEN c ELSE w[k + 1]
      BY <1>1, <2>4, <3>1
    <3>4. c' = Head(Append(q, c)) /\ Queue' = Tail(Append(q, c))
      <4> HIDE DEF q
      <4> QED BY <2>1, <2>2, <3>1, <3>2, <3>3
    <3> QED BY <1>2, <2>3, <2>6, <3>4 DEF RR!RRNext, RR!Rotate
  <2> QED BY <2>5, <2>6
<1> QED BY <1>3, <1>4, <1>5, <1>6, StepKinds

(* src/tasking.c is a round-robin scheduler, with any number of blocks:    *)
(* addProcess puts a process in front of those that wait, _kill takes c    *)
(* out, schedule() rotates, and no other statement changes who runs when.  *)
THEOREM RingIsAQueue ==
    ASSUME IsFiniteSet(Slots)
    PROVE  Spec => RoundRobinSpec
<1>1. Init => RR!RRInit
  <2> SUFFICES ASSUME Init PROVE RR!RRInit
    OBVIOUS
  <2>1. PICK t1 \in Slots \ {c} : c \in Slots /\ Circuit(1, [k \in 0 .. 1 |-> IF k = 0 THEN c ELSE t1])
    BY InitCircuit
  <2> DEFINE w == [k \in 0 .. 1 |-> IF k = 0 THEN c ELSE t1]
  <2>2. Queue = [k \in 1 .. 1 |-> w[k]] /\ (Leaving <=> Skipped)
    BY <2>1, InitIInv, Mapped
  <2>3. Queue = <<t1>>
    <3>1. [k \in 1 .. 1 |-> w[k]] = <<t1>>
      OBVIOUS
    <3> QED BY <2>2, <3>1
  <2>4. Leaving = FALSE
    BY <2>2, SlotsAssumption DEF Init, Skipped, Leaving
  <2> QED BY <2>1, <2>3, <2>4 DEF RR!RRInit
<1>2. Init => HasCircuit
  BY InitCircuit DEF HasCircuit
<1>3. IInv /\ IInv' /\ [Next]_vars /\ HasCircuit => HasCircuit'
  BY CircuitStep
<1>4. IInv /\ IInv' /\ [Next]_vars /\ HasCircuit => [RR!RRNext]_RR!rrvars
  BY RoundRobinStep
<1> QED BY <1>1, <1>2, <1>3, <1>4, Inductive, PTL DEF Spec, RoundRobinSpec, RR!RRSpec

=============================================================================
