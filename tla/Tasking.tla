------------------------------ MODULE Tasking ------------------------------
(***************************************************************************)
(* The scheduler of aijak: src/tasking.c with the timer interrupt of       *)
(* src/pit.c and the boot script late_init of src/kernel.c.                *)
(*                                                                         *)
(* Processes are PCBs linked into a circular doubly linked ring; the CPU   *)
(* always executes the PCB c.  Every process can be preempted by the PIT   *)
(* while task is 1, and every mprint yields.  The only protection of the   *)
(* ring is set_task(0), which keeps the PIT from switching.  A step of     *)
(* this module is one statement that touches the shared ring, so that a    *)
(* preemption can fall between any two of them.                            *)
(*                                                                         *)
(* Slots are the heap blocks a PCB (with its stack) can occupy: a block is *)
(* in `used` from malloc to free and may then hold another process, or     *)
(* what some other malloc is for: late_init still reads p->pid there.      *)
(***************************************************************************)
EXTENDS Naturals, Sequences

\* An operator marked "Mutant" is the definition that follows it with a slip
\* in it; no specification uses it.

CONSTANTS
    Slots,      \* heap blocks for a PCB and its stack
    Null,       \* the null pointer
    IdleSlot,   \* the block of kIdle, the first process
    Starts,     \* late_init: one START per element, TRUE if it waits for it
    Faulty,     \* the pids whose body may raise a fatal exception
    Scraps      \* what others write where a freed PCB had its pid

ASSUME SlotsAssumption == IdleSlot \in Slots /\ Null \notin Slots
ASSUME StartsAssumption == Starts \in Seq(BOOLEAN)
ASSUME FaultyAssumption == Faulty \subseteq Nat
ASSUME ScrapsAssumption == Scraps \subseteq Nat

VARIABLES
    next, prev,     \* the links of each PCB
    pid,            \* PROCESS.pid of each PCB
    used,           \* the blocks that malloc has handed out
    pc,             \* where the context saved in (or running on) a PCB is
    iflag,          \* the interrupt flag of that context
    c,              \* the current process
    lpid,           \* last pid given
    enabled,        \* __enabled
    task,           \* pit.c: TRUE if the PIT may switch
    task_was_on,    \* pit.c: set_task works only after enable_task
    irq0,           \* IRQ0 is in service at the PIC: no EOI sent yet
    started,        \* how many STARTs of late_init are done
    p,              \* late_init's local PROCESS pointer
    wpid, ret       \* is_pid_running's argument and result

links == <<next, prev>>
heap  == <<pid, used, lpid>>
pit   == <<enabled, task_was_on>>
boot  == <<started, p, wpid, ret>>
vars  == <<next, prev, pid, used, pc, iflag, c, lpid, enabled, task,
           task_was_on, irq0, started, p, wpid, ret>>

Labels ==
    {"enable_task", "set_enabled",                        \* idle_thread
     "create", "created",                                 \* createProcess
     "add_off", "add_next", "add_nextprev", "add_prev",   \* addProcess
     "add_link", "add_on", "add_ret",
     "wait_off", "wait_walk", "wait_on", "wait_yield",    \* is_pid_running
     "body", "signal",                                    \* the process itself
     "kill", "kill_off", "kill_free", "kill_next",        \* _kill
     "kill_prev", "kill_on", "kill_switch", "gone",
     "panic", "halt"}                                     \* panic

\* The statements between set_task(0) and set_task(1).
Adding   == {"add_next", "add_nextprev", "add_prev", "add_link", "add_on"}
Walking  == {"wait_walk", "wait_on"}
Killing  == {"kill_free", "kill_next", "kill_prev", "kill_on"}
Critical == Adding \cup Walking \cup Killing

TypeOK ==
    /\ next \in [Slots -> Slots \cup {Null}]
    /\ prev \in [Slots -> Slots \cup {Null}]
    /\ pid \in [Slots -> Nat]
    /\ used \subseteq Slots
    /\ pc \in [Slots -> Labels]
    /\ iflag \in [Slots -> BOOLEAN]
    /\ c \in Slots
    /\ lpid \in Nat
    /\ enabled \in BOOLEAN /\ task \in BOOLEAN /\ task_was_on \in BOOLEAN
    /\ irq0 \in BOOLEAN
    /\ started \in 0 .. Len(Starts)
    /\ p \in Slots /\ wpid \in Nat /\ ret \in BOOLEAN

-----------------------------------------------------------------------------
(* Helpers                                                                 *)

At(l)   == c \in Slots /\ pc[c] = l
Goto(l) == pc' = [pc EXCEPT ![c] = l]

set_task(i) == task' = IF task_was_on THEN i ELSE task

\* Mutant: walks the ring backwards.
schedule_back == c' = prev[c] /\ irq0' = FALSE

\* Mutant: switches without the EOI.
schedule_no_eoi == c' = next[c] /\ UNCHANGED irq0

(* schedule(): save the context in c, take c->next whatever its state, send*)
(* an EOI to the master PIC, resume.                                       *)
schedule == c' = next[c] /\ irq0' = FALSE

schedule_noirq ==
    IF enabled THEN schedule ELSE UNCHANGED <<c, irq0>>

(* tasking_init: kIdle linked to itself, then task1 added behind it.       *)
Init ==
    \E t1 \in Slots \ {IdleSlot} :
        /\ used = {IdleSlot, t1}
        /\ next = [[s \in Slots |-> Null] EXCEPT ![IdleSlot] = t1, ![t1] = IdleSlot]
        /\ prev = next
        /\ pid = [[s \in Slots |-> 0] EXCEPT ![IdleSlot] = 1, ![t1] = 2]
        /\ pc = [[s \in Slots |-> "gone"] EXCEPT ![IdleSlot] = "enable_task", ![t1] = "body"]
        /\ iflag = [s \in Slots |-> TRUE]
        /\ c = IdleSlot /\ lpid = 2
        /\ enabled = FALSE /\ task = FALSE /\ task_was_on = FALSE
        /\ irq0 = FALSE
        /\ started = 0 /\ p = IdleSlot /\ wpid = 0 /\ ret = FALSE

-----------------------------------------------------------------------------
(* The timer interrupt: pit_irq through irq_handler.                       *)

Tick ==
    /\ c \in Slots /\ iflag[c] /\ ~irq0
    /\ task                     \* with task = 0 it only sends its EOI
    /\ IF enabled THEN schedule ELSE irq0' = TRUE /\ UNCHANGED c
    /\ UNCHANGED <<links, heap, pit, boot, pc, iflag, task>>

-----------------------------------------------------------------------------
(* idle_thread                                                             *)

IdleEnableTask ==
    /\ At("enable_task") /\ Goto("set_enabled")
    /\ task_was_on' = TRUE /\ task' = TRUE
    /\ UNCHANGED <<links, heap, boot, enabled, iflag, c, irq0>>

(* late_init follows: its first START, or what comes after the last one.   *)
AfterStarts(k) == IF k < Len(Starts) THEN "create" ELSE "body"

IdleSetEnabled ==
    /\ At("set_enabled") /\ Goto(AfterStarts(0))
    /\ enabled' = TRUE
    /\ UNCHANGED <<links, heap, boot, task, task_was_on, iflag, c, irq0>>

-----------------------------------------------------------------------------
\* Mutant: p->pid = lpid++.
CreateProcess_postfix ==
    /\ At("create")
    /\ \E s \in Slots \ used :
        /\ used' = used \cup {s} /\ p' = s
        /\ next' = [next EXCEPT ![s] = Null]
        /\ prev' = [prev EXCEPT ![s] = Null]
        /\ pid' = [pid EXCEPT ![s] = lpid]
        /\ lpid' = lpid + 1
        /\ pc' = [pc EXCEPT ![c] = "created", ![s] = "body"]
        /\ iflag' = [iflag EXCEPT ![s] = TRUE]
    /\ UNCHANGED <<pit, started, wpid, ret, task, c, irq0>>

(* createProcess: a zeroed block with a fresh pid and a context at its     *)
(* entry with interrupts on (eflags 0x202).  Then its mprint yields.       *)
CreateProcess ==
    /\ At("create")
    /\ \E s \in Slots \ used :
        /\ used' = used \cup {s} /\ p' = s
        /\ next' = [next EXCEPT ![s] = Null]
        /\ prev' = [prev EXCEPT ![s] = Null]
        /\ pid' = [pid EXCEPT ![s] = lpid + 1]
        /\ lpid' = lpid + 1
        /\ pc' = [pc EXCEPT ![c] = "created", ![s] = "body"]
        /\ iflag' = [iflag EXCEPT ![s] = TRUE]
    /\ UNCHANGED <<pit, started, wpid, ret, task, c, irq0>>

(* malloc finds no room: set_task(0), panic.                               *)
CreateOutOfMemory ==
    /\ At("create") /\ Goto("panic")
    /\ used = Slots
    /\ set_task(FALSE)
    /\ UNCHANGED <<links, heap, pit, boot, iflag, c, irq0>>

Created ==
    /\ At("created") /\ Goto("add_off")
    /\ schedule_noirq
    /\ UNCHANGED <<links, heap, pit, boot, iflag, task>>

-----------------------------------------------------------------------------
(* addProcess: __addProcess's four writes between set_task(0) and 1.       *)

\* Mutant: no set_task(0).
AddOff_missing ==
    /\ At("add_off") /\ Goto("add_next")
    /\ UNCHANGED <<links, heap, pit, boot, iflag, c, irq0, task>>

AddOff ==
    /\ At("add_off") /\ Goto("add_next")
    /\ set_task(FALSE)
    /\ UNCHANGED <<links, heap, pit, boot, iflag, c, irq0>>

\* Mutant: p->next is never set.
AddNext_missing ==
    /\ At("add_next") /\ Goto("add_nextprev")
    /\ UNCHANGED <<links, heap, pit, boot, iflag, c, irq0, task>>

\* Mutant: after c->next = p instead of before it.
AddNext_late ==
    /\ At("add_next") /\ Goto("add_nextprev")
    /\ next' = [next EXCEPT ![c] = p, ![p] = p]
    /\ UNCHANGED <<prev, heap, pit, boot, iflag, c, irq0, task>>

AddNext ==                      \* p->next = c->next
    /\ At("add_next") /\ Goto("add_nextprev")
    /\ next' = [next EXCEPT ![p] = next[c]]
    /\ UNCHANGED <<prev, heap, pit, boot, iflag, c, irq0, task>>

AddNextPrev ==                  \* p->next->prev = p
    /\ At("add_nextprev") /\ Goto("add_prev")
    /\ prev' = [prev EXCEPT ![next[p]] = p]
    /\ UNCHANGED <<next, heap, pit, boot, iflag, c, irq0, task>>

AddPrev ==                      \* p->prev = c
    /\ At("add_prev") /\ Goto("add_link")
    /\ prev' = [prev EXCEPT ![p] = c]
    /\ UNCHANGED <<next, heap, pit, boot, iflag, c, irq0, task>>

AddLink ==                      \* c->next = p
    /\ At("add_link") /\ Goto("add_on")
    /\ next' = [next EXCEPT ![c] = p]
    /\ UNCHANGED <<prev, heap, pit, boot, iflag, c, irq0, task>>

\* Mutant: no set_task(1).
AddOn_missing ==
    /\ At("add_on") /\ Goto("add_ret")
    /\ UNCHANGED <<links, heap, pit, boot, iflag, c, irq0, task>>

AddOn ==
    /\ At("add_on") /\ Goto("add_ret")
    /\ set_task(TRUE)
    /\ UNCHANGED <<links, heap, pit, boot, iflag, c, irq0>>

(* return p->pid, read with preemption on: p may be gone by now, and its   *)
(* block may have been handed to another malloc and written.               *)
AddReturn ==
    /\ At("add_ret")
    /\ wpid' \in {pid[p]} \cup (IF p \in used THEN {} ELSE Scraps)
    /\ started' = started + 1
    /\ Goto(IF Starts[started + 1] THEN "wait_off" ELSE AfterStarts(started + 1))
    /\ UNCHANGED <<links, heap, pit, p, ret, iflag, c, irq0, task>>

-----------------------------------------------------------------------------
(* while (is_pid_running(pid)) schedule_noirq();                           *)

\* Mutant: ret keeps the answer of the walk before.
WaitOff_no_reset ==
    /\ At("wait_off") /\ Goto("wait_walk")
    /\ set_task(FALSE)
    /\ p' = c /\ UNCHANGED ret
    /\ UNCHANGED <<links, heap, pit, started, wpid, iflag, c, irq0>>

WaitOff ==
    /\ At("wait_off") /\ Goto("wait_walk")
    /\ set_task(FALSE)
    /\ p' = c /\ ret' = FALSE
    /\ UNCHANGED <<links, heap, pit, started, wpid, iflag, c, irq0>>

WaitFound ==                    \* p->pid == pid
    /\ At("wait_walk") /\ Goto("wait_on")
    /\ pid[p] = wpid
    /\ ret' = TRUE
    /\ UNCHANGED <<links, heap, pit, started, p, wpid, iflag, c, irq0, task>>

\* Mutant: stops one process early.
WaitNext_short ==
    /\ At("wait_walk")
    /\ pid[p] # wpid
    /\ p' = next[p]
    /\ Goto(IF next[next[p]] = c THEN "wait_on" ELSE "wait_walk")
    /\ UNCHANGED <<links, heap, pit, started, wpid, ret, iflag, c, irq0, task>>

WaitNext ==                     \* p = p->next, until it is orig again
    /\ At("wait_walk")
    /\ pid[p] # wpid
    /\ p' = next[p]
    /\ Goto(IF next[p] = c THEN "wait_on" ELSE "wait_walk")
    /\ UNCHANGED <<links, heap, pit, started, wpid, ret, iflag, c, irq0, task>>

WaitOn ==
    /\ At("wait_on")
    /\ set_task(TRUE)
    /\ Goto(IF ret THEN "wait_yield" ELSE AfterStarts(started))
    /\ UNCHANGED <<links, heap, pit, boot, iflag, c, irq0>>

WaitYield ==
    /\ At("wait_yield") /\ Goto("wait_off")
    /\ schedule_noirq
    /\ UNCHANGED <<links, heap, pit, boot, iflag, task>>

-----------------------------------------------------------------------------
(* A print takes and releases mutexes, and each of these yields: any       *)
(* number of yields before the one after which the process moves on.       *)

Printing == {"created", "body", "signal", "kill", "panic"}

PrintYield ==
    /\ c \in Slots /\ pc[c] \in Printing /\ pc' = pc
    /\ schedule_noirq
    /\ UNCHANGED <<links, heap, pit, boot, iflag, task>>

-----------------------------------------------------------------------------
(* The body of a process.  Every process but kIdle ends by calling _kill;  *)
(* an exception 0 or 13 signals it instead, with interrupts off, and       *)
(* __notified prints and calls _kill.                                      *)

BodyEnd ==
    /\ At("body") /\ Goto("kill")
    /\ c # IdleSlot
    /\ UNCHANGED <<links, heap, pit, boot, iflag, c, irq0, task>>

BodyFault ==
    /\ At("body") /\ Goto("signal")
    /\ enabled /\ pid[c] \in Faulty
    /\ iflag' = [iflag EXCEPT ![c] = FALSE]
    /\ UNCHANGED <<links, heap, pit, boot, c, irq0, task>>

Notified ==
    /\ At("signal") /\ Goto("kill")
    /\ schedule_noirq
    /\ UNCHANGED <<links, heap, pit, boot, iflag, task>>

-----------------------------------------------------------------------------
(* _kill                                                                   *)

KillIdle ==                     \* set_task(0); panic
    /\ At("kill") /\ Goto("panic")
    /\ pid[c] = 1
    /\ set_task(FALSE)
    /\ UNCHANGED <<links, heap, pit, boot, iflag, c, irq0>>

KillPrint ==                    \* mprint yields
    /\ At("kill") /\ Goto("kill_off")
    /\ pid[c] # 1
    /\ schedule_noirq
    /\ UNCHANGED <<links, heap, pit, boot, iflag, task>>

KillOff ==
    /\ At("kill_off") /\ Goto("kill_free")
    /\ set_task(FALSE)
    /\ UNCHANGED <<links, heap, pit, boot, iflag, c, irq0>>

KillFree ==                     \* free(c->stacktop); free(c): still running on both
    /\ At("kill_free") /\ Goto("kill_next")
    /\ used' = used \ {c}
    /\ UNCHANGED <<links, pid, lpid, pit, boot, iflag, c, irq0, task>>

\* Mutant: c->prev->next still points at the freed PCB.
KillNext_missing ==
    /\ At("kill_next") /\ Goto("kill_prev")
    /\ UNCHANGED <<links, heap, pit, boot, iflag, c, irq0, task>>

KillNext ==                     \* c->prev->next = c->next
    /\ At("kill_next") /\ Goto("kill_prev")
    /\ next' = [next EXCEPT ![prev[c]] = next[c]]
    /\ UNCHANGED <<prev, heap, pit, boot, iflag, c, irq0, task>>

KillPrev ==                     \* c->next->prev = c->prev
    /\ At("kill_prev") /\ Goto("kill_on")
    /\ prev' = [prev EXCEPT ![next[c]] = prev[c]]
    /\ UNCHANGED <<next, heap, pit, boot, iflag, c, irq0, task>>

\* Mutant: no set_task(1).
KillOn_missing ==
    /\ At("kill_on") /\ Goto("kill_switch")
    /\ UNCHANGED <<links, heap, pit, boot, iflag, c, irq0, task>>

KillOn ==
    /\ At("kill_on") /\ Goto("kill_switch")
    /\ set_task(TRUE)
    /\ UNCHANGED <<links, heap, pit, boot, iflag, c, irq0>>

KillSwitch ==                   \* the last schedule_noirq: reads c->next of a freed PCB
    /\ At("kill_switch") /\ Goto("gone")
    /\ schedule_noirq
    /\ UNCHANGED <<links, heap, pit, boot, iflag, task>>

-----------------------------------------------------------------------------
(* panic: its kprintf yields, then for (;;).                               *)

Panic ==
    /\ At("panic") /\ Goto("halt")
    /\ schedule_noirq
    /\ UNCHANGED <<links, heap, pit, boot, iflag, task>>

Halt == At("halt") /\ UNCHANGED vars

-----------------------------------------------------------------------------
\* What the current process can do, apart from printing on.
Work ==
    \/ IdleEnableTask \/ IdleSetEnabled
    \/ CreateProcess \/ CreateOutOfMemory \/ Created
    \/ AddOff \/ AddNext \/ AddNextPrev \/ AddPrev \/ AddLink \/ AddOn \/ AddReturn
    \/ WaitOff \/ WaitFound \/ WaitNext \/ WaitOn \/ WaitYield
    \/ BodyEnd \/ BodyFault \/ Notified
    \/ KillIdle \/ KillPrint \/ KillOff \/ KillFree \/ KillNext \/ KillPrev
    \/ KillOn \/ KillSwitch
    \/ Panic

Next == Tick \/ Work \/ PrintYield \/ Halt

Spec == Init /\ [][Next]_vars

(* The PIT keeps ticking, and a process that gets the CPU again and again  *)
(* advances: a time slice is longer than one statement, and every driver's *)
(* init function ends.  Nobody has to fault.                               *)
Fairness ==
    /\ WF_vars(Tick)
    /\ \A s \in Slots : SF_vars(c = s /\ Work /\ pc'[s] # "signal")

FairSpec == Spec /\ Fairness
-----------------------------------------------------------------------------
(* What must hold                                                          *)

\* A process is linked from the last write of addProcess to its free.
Unlinked == {"created", "add_off", "add_next", "add_nextprev", "add_prev", "add_link"}
Linked   == IF pc[IdleSlot] \in Unlinked THEN used \ {p} ELSE used

\* Somebody else may run next: the PIT may switch, or c is not in an update.
Switchable == task \/ pc[c] \notin Adding \cup Killing

(* The doubly linked ring is consistent whenever a switch can happen: the  *)
(* four writes of __addProcess and the two of _kill are never seen half    *)
(* done by another process.                                                *)
RingConsistent ==
    Switchable =>
        \A s \in Linked :
            /\ next[s] \in Linked /\ prev[next[s]] = s
            /\ prev[s] \in Linked /\ next[prev[s]] = s

(* The ring is one ring: a set of linked processes closed under `next`     *)
(* holds all of them, so that schedule() starves nobody and the walk of    *)
(* is_pid_running misses nobody.                                           *)
OneRing ==
    Switchable =>
        \A S \in SUBSET Linked :
            S # {} /\ (\A s \in S : next[s] \in S) => S = Linked

(* Both: whatever schedule() and is_pid_running may walk is one sound ring.*)
RingSound == RingConsistent /\ OneRing

(* The CPU runs on a PCB that is not allocated only while _kill takes down *)
(* its own: after the free and before the last schedule_noirq.             *)
CurrentOwned ==
    c \in Linked \/ pc[c] \in {"kill_next", "kill_prev", "kill_on", "kill_switch"}

(* No two live processes share a pid, though blocks are reused: a waiter   *)
(* that polls a pid polls the process it started.                          *)
PidsUnique ==
    \A s, t \in used : pid[s] = pid[t] => s = t

(* is_pid_running answers what is true of the whole ring at that moment.   *)
WaitExact ==
    pc[IdleSlot] = "wait_on" => (ret <=> \E s \in Linked : pid[s] = wpid)

(* Once tasking runs, preemption is off only inside a section that turns   *)
(* it on again, or after a panic.                                          *)
PreemptionOff ==
    enabled /\ ~task => pc[c] \in Critical \/ \E s \in Slots : pc[s] \in {"panic", "halt"}

(* schedule() never resumes a freed PCB.                                   *)
NeverResumesFreed == [][c' # c => c' \in used']_vars

(* late_init goes on after a wait only when the process it started last    *)
(* has freed itself, whatever it read from p->pid: the next driver never   *)
(* starts beside it.                                                       *)
WaitsForExit ==
    [][pc[IdleSlot] = "wait_on" /\ pc'[IdleSlot] \in {"create", "body"}
          => \A s \in used' : pid'[s] # lpid]_vars

\* panic stops the kernel for good.
Stopped == \E s \in Slots : pc[s] \in {"panic", "halt"}

\* late_init polls a pid it read from a PCB that was freed and overwritten,
\* and the pid found there is its own: is_pid_running always finds it.
WaitsForItself ==
    pc[IdleSlot] \in {"wait_off", "wait_yield"} \cup Walking
        /\ wpid = pid[IdleSlot]

(* late_init gets through its script, unless the kernel panics or the one  *)
(* stale pid that never goes away keeps it: any other is either gone or    *)
(* that of a process that ends.                                            *)
BootCompletes == <>(pc[IdleSlot] = "body" \/ Stopped) \/ <>[]WaitsForItself

(* A linked process runs again, or ends, unless the kernel panics: also    *)
(* when a tick fell between enable_task and __enabled, got no EOI from     *)
(* pit_irq and blocked the timer until some switch sent it.                *)
Runs(s) == s \in Linked ~> (c = s \/ s \notin Linked \/ Stopped)
=============================================================================
