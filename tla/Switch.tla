------------------------------- MODULE Switch -------------------------------
(***************************************************************************)
(* What a process finds when it gets the CPU back: the stacks and the      *)
(* registers under createProcess, __exec, schedule_noirq and schedule of   *)
(* src/tasking.c and the interrupt stub of src/kernel.asm.  Tasking says   *)
(* who runs next; here there is a fixed ring of processes, and every       *)
(* statement that moves a word between a register and a stack counts.      *)
(*                                                                         *)
(* The functions are compiled as the Makefile says, OPTIMIZATION=0: each   *)
(* begins with push ebp; mov esp, ebp.  schedule is an interrupt gate of   *)
(* its own, so its prologue runs on the interrupted stack as well.         *)
(***************************************************************************)
EXTENDS Integers, Sequences, SequencesExt

CONSTANT N                  \* processes on the ring
ASSUME NAssumption == N \in Nat \ {0, 1}
Proc == 1 .. N

VARIABLES
    c,                      \* the current process
    cpu,                    \* register -> value
    stack,                  \* process -> its stack, top last; esp is its length
    called,                 \* process -> registers and stack at its last yield (history)
    interrupted             \* process -> the same at its last interrupt (history)
switchVars == <<c, cpu, stack, called, interrupted>>

General  == {"eax", "ebx", "ecx", "edx", "esi", "edi"}
Segments == {"ds", "es", "fs", "gs"}

\* Words are tagged: an address is a depth of the process's own stack.
Addr(n)   == <<"addr", n>>
Code(l)   == <<"code", l>>
Own(p, r) == <<"own", r, p>>
Zero      == <<"int", 0>>
Sel       == <<"sel", 16>>
Kernel    == <<"sel", 8>>
Flags(on) == <<"flags", on>>    \* are interrupts enabled?

\* iret and the interrupt move these three.
Gate == <<"eflags", "cs", "eip">>

Push(s, m, regs) == s \o [k \in DOMAIN regs |-> m[regs[k]]]
Drop(s, n)       == SubSeq(s, 1, Len(s) - n)
\* Registers regs popped from s, the first of them first.
Popped(s, m, regs) ==
    [r \in DOMAIN m |-> IF \E k \in DOMAIN regs : regs[k] = r
                        THEN s[Len(s) + 1 - CHOOSE k \in DOMAIN regs : regs[k] = r]
                        ELSE m[r]]

-----------------------------------------------------------------------------
\* What schedule and __exec pop before iret: eleven words.
Pops == <<"gs", "fs", "es", "ds", "ebp", "edi", "esi", "edx", "ecx", "ebx", "eax">>

\* Mutant: edi is pushed as well.
Pushes_edi == <<"eax", "ebx", "ecx", "edx", "esi", "edi", "ebp", "ds", "es", "fs", "gs">>

\* What schedule pushes: ten words.
Pushes == <<"eax", "ebx", "ecx", "edx", "esi", "ebp", "ds", "es", "fs", "gs">>

\* The interrupt stub: pusha and the segments; its place of esp is never read.
Saved == <<"eax", "ecx", "edx", "ebx", "eax", "ebp", "esi", "edi", "ds", "es", "fs", "gs">>

createProcess ==
    <<Flags(TRUE), Kernel, Code("entry"), Zero, Zero, Zero, Zero, Zero, Zero, Addr(0), Sel, Sel, Sel, Sel>>

\* __exec dispatches the first process from its frame.
SwitchInit ==
    LET none == [r \in General \cup Segments \cup {"ebp", "eip", "cs", "eflags"} |-> Zero]
        all  == Pops \o Reverse(Gate)
    IN  /\ c = 1
        /\ cpu = Popped(createProcess, none, all)
        /\ stack = [p \in Proc |-> IF p = 1 THEN Drop(createProcess, Len(all)) ELSE createProcess]
        /\ called = [p \in Proc |-> <<>>] /\ interrupted = [p \in Proc |-> <<>>]

At(l) == cpu.eip = Code(l)

\* A C function is entered: ret is the address it returns to.
Entered(s, m, ret) == s \o <<ret, m.ebp>>

\* The process's own function: prologue, then values in every register.
Start ==
    /\ At("entry")
    /\ stack' = [stack EXCEPT ![c] = Append(@, cpu.ebp)]
    /\ cpu' = [r \in DOMAIN cpu |->
                  IF r \in General THEN Own(c, r)
                  ELSE IF r = "ebp" THEN Addr(Len(stack'[c]))
                  ELSE IF r = "eip" THEN Code("body") ELSE cpu[r]]
    /\ UNCHANGED <<c, called, interrupted>>

\* A yield: the call of schedule_noirq.
Yield ==
    /\ At("body")
    /\ stack' = [stack EXCEPT ![c] = Entered(@, cpu, Code("body"))]
    /\ cpu' = [cpu EXCEPT !.ebp = Addr(Len(stack'[c])), !.eip = Code("noirq")]
    /\ called' = [called EXCEPT ![c] = <<cpu, stack[c]>>]
    /\ UNCHANGED <<c, interrupted>>

\* A tick, or another interrupt whose handler yields: the stub saves what
\* was running and calls irq_handler, which gets to schedule_noirq.
Interrupt ==
    /\ cpu.eflags = Flags(TRUE) /\ ~At("entry")
    /\ LET s == Push(Push(stack[c], cpu, Gate) \o <<Zero, Zero>>, cpu, Saved)
           h == Entered(Append(s, Addr(Len(s))), cpu, Code("stub"))
           q == Entered(h, [cpu EXCEPT !.ebp = Addr(Len(h))], Code("handler"))
       IN  /\ stack' = [stack EXCEPT ![c] = q]
           /\ cpu' = [r \in DOMAIN cpu |->
                         IF r \in Segments THEN Sel
                         ELSE IF r = "ebp" THEN Addr(Len(q))
                         ELSE IF r = "eip" THEN Code("noirq")
                         ELSE IF r = "eflags" THEN Flags(FALSE) ELSE cpu[r]]
    /\ interrupted' = [interrupted EXCEPT ![c] = <<cpu, stack[c]>>]
    /\ UNCHANGED <<c, called>>

\* int 0x79 and schedule: the prologue's ebp is the eleventh word.
schedule ==
    /\ At("noirq")
    /\ LET s    == Append(Push(stack[c], [cpu EXCEPT !.eip = Code("switched")], Gate), cpu.ebp)
           out  == [stack EXCEPT ![c] = Push(s, [cpu EXCEPT !.ebp = Addr(Len(s))], Pushes)]
           next == (c % N) + 1
           all  == Pops \o Reverse(Gate)
       IN  /\ c' = next
           /\ cpu' = Popped(out[next], cpu, all)
           /\ stack' = [out EXCEPT ![next] = Drop(@, Len(all))]
    /\ UNCHANGED <<called, interrupted>>

\* schedule_noirq returns: pop ebp; ret.
NoirqReturn ==
    /\ At("switched")
    /\ cpu' = Popped(stack[c], cpu, <<"ebp", "eip">>)
    /\ stack' = [stack EXCEPT ![c] = Drop(@, 2)]
    /\ UNCHANGED <<c, called, interrupted>>

\* irq_handler returns (leave; ret), and the stub restores everything.
HandlerReturn ==
    /\ At("handler")
    /\ LET s    == Drop(stack[c], 3)
           back == Popped(s, cpu, Reverse(Saved))
           s2   == Drop(s, Len(Saved) + 2)
       IN  /\ cpu' = Popped(s2, [back EXCEPT !.eax = s[Len(s) - Len(Saved) + 1]], Reverse(Gate))
           /\ stack' = [stack EXCEPT ![c] = Drop(s2, 3)]
    /\ UNCHANGED <<c, called, interrupted>>

SwitchNext == Start \/ Yield \/ Interrupt \/ schedule \/ NoirqReturn \/ HandlerReturn

SwitchSpec == SwitchInit /\ [][SwitchNext]_switchVars

-----------------------------------------------------------------------------
(* A process gets back what it relies on.  After an interrupt that is      *)
(* everything: all registers, its stack and its flags.  After a yield it   *)
(* is its stack, its frame pointer, the place it called from, the segments *)
(* and enabled interrupts: the registers a function may not change are     *)
(* handed on shifted by one, and the frame pointer schedule pops is its    *)
(* own.  What makes up for that is the epilogue of schedule_noirq.         *)
ComesBack ==
    [][ LET returns == Len(stack'[c]) < Len(stack[c]) IN
        /\ c' # c => cpu'.eip \in {Code("entry"), Code("switched")}
        /\ At("entry") => cpu.ebp = Addr(Len(stack[c])) /\ cpu.eflags = Flags(TRUE)
        /\ At("handler") => <<cpu', stack'[c]>> = interrupted[c]
        /\ At("switched") /\ returns => cpu'.eip \in {Code("body"), Code("handler")}
        /\ At("switched") /\ cpu'.eip = Code("body") =>
              /\ stack'[c] = called[c][2]
              /\ \A r \in Segments \cup {"ebp", "eip", "cs", "eflags"} : cpu'[r] = called[c][1][r] ]_switchVars
=============================================================================
