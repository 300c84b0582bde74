------------------------------ MODULE Console ------------------------------
(***************************************************************************)
(* Printing: kprintf (src/display/display.c) on the text screen            *)
(* (src/display/textmode/dispi_textmode.c), with the two mutexes of        *)
(* src/mutex.c it takes: m_display around a whole message and, when the    *)
(* screen scrolls, m_memcpy (src/memory/memutils.c) around every row.      *)
(* memcpy is also called on its own by the network code.                   *)
(*                                                                         *)
(* Any process may be preempted between two steps; which one runs next is  *)
(* Tasking's business, so a step here is a step of any process that is not *)
(* held up by an interrupt or exception handler on its own stack.          *)
(***************************************************************************)
EXTENDS Integers, Sequences

CONSTANTS
    Proc,           \* threads of control that print or copy
    Handler,        \* those of them that are interrupt or exception handlers
    None,           \* no host
    Script,         \* [Proc -> what each one prints: a sequence of messages]
    Outcomes,       \* of building mutex_lock: may cmpxchg see the zeroed EAX, or not?
    W, H            \* TEXTMODE_WIDTH and TEXTMODE_HEIGHT

CONSTANTS
    Chars,          \* the characters printed
    NL, TAB, BS,    \* those of them that move the cursor: '\n', '\t', '\r'
    Blank,          \* an empty cell
    Copy            \* in a script: a memcpy instead of a message

ASSUME ProcAssumption   == Handler \subseteq Proc /\ None \notin Proc
ASSUME ScriptAssumption == Script \in [Proc -> Seq(Seq(Chars) \cup {Copy})] /\ Copy \notin Seq(Chars)
ASSUME ScreenAssumption == W \in Nat \ {0} /\ H \in Nat \ {0, 1}
ASSUME OutcomesAssumption == Outcomes \subseteq BOOLEAN

VARIABLES
    stores,         \* this build's cmpxchg stores the 1, as its source intends
    locked,         \* the two mutex bytes
    mixed,          \* history: somebody entered a section another was inside
    pc, todo,       \* per process: where it is, the calls it has left
    msg, i,         \* __kprint_va_list's message and character index
    host,           \* the process on whose stack a handler runs
    y,              \* textmode_scrollup's row counter (one per process)
    cell,           \* video memory: rows 0 .. H, of which 0 .. H - 2 are used
    cx, cy,         \* the cursor
    log             \* every character put so far, in order (history)

mutexes == <<stores, locked, mixed>>
print   == <<msg, i>>
screen  == <<cell, cx, cy, log>>
vars    == <<stores, locked, mixed, pc, todo, msg, i, host, y, cell, cx, cy, log>>

Mutexes == {"m_display", "m_memcpy"}
Rows    == 0 .. H
Columns == 0 .. W - 1

\* In textmode_putc, in a row copy of memcpy, and under each mutex.
InPutc    == {"putc", "scroll", "scroll_copy", "scroll_unlock", "scrolled", "write", "advance"}
InCopy    == {"scroll_copy", "scroll_unlock", "copy", "copy_unlock"}
InDisplay == InPutc \cup {"next", "unlock"}
Inside(m) == IF m = "m_display" THEN InDisplay ELSE InCopy
Labels    == {"idle", "lock", "copy_lock"} \cup InCopy \cup InDisplay

\* Two processes that move one cursor can take it anywhere.
TypeOK ==
    /\ stores \in Outcomes /\ mixed \in BOOLEAN
    /\ locked \in [Mutexes -> BOOLEAN]
    /\ pc \in [Proc -> Labels]
    /\ todo \in [Proc -> Seq(Seq(Chars) \cup {Copy})]
    /\ msg \in [Proc -> Seq(Chars)] /\ i \in [Proc -> Nat \ {0}]
    /\ host \in [Handler -> Proc \cup {None}]
    /\ y \in [Proc -> 0 .. H]
    /\ cell \in [Rows -> [Columns -> Chars \cup {Blank}]]
    /\ cx \in Int /\ cy \in Int
    /\ ~mixed => cx \in 0 .. W /\ cy \in 0 .. H - 1
    /\ log \in Seq(Chars)

Init ==
    /\ stores \in Outcomes /\ mixed = FALSE
    /\ locked = [m \in Mutexes |-> FALSE]
    /\ pc = [q \in Proc |-> "idle"]
    /\ todo = Script
    /\ msg = [q \in Proc |-> <<>>] /\ i = [q \in Proc |-> 1]
    /\ host = [h \in Handler |-> None]
    /\ y = [q \in Proc |-> 0]
    /\ cell = [r \in Rows |-> [x \in Columns |-> Blank]]
    /\ cx = 0 /\ cy = 0 /\ log = <<>>

-----------------------------------------------------------------------------
\* A handler needs a host, and its host does not run until it returns.
Runs(q) ==
    /\ q \in Handler => host[q] # None
    /\ \A h \in Handler : host[h] # q

At(q, l)   == Runs(q) /\ pc[q] = l
Goto(q, l) == pc' = [pc EXCEPT ![q] = l]

Enter(m) == mixed' = (mixed \/ \E r \in Proc : pc[r] \in Inside(m))

\* Mutant: takes the mutex but leaves it unmarked.
mutex_lock_unmarked(q, m, l) ==
    /\ ~locked[m]
    /\ UNCHANGED <<stores, locked>>
    /\ Enter(m) /\ Goto(q, l)

(* mutex_lock: lock cmpxchg until the byte was 0.  An attempt that finds   *)
(* the byte set yields and retries, which changes nothing here.  If the    *)
(* compiler reloads EAX between the two asm statements the compare always  *)
(* fails: AL still becomes the byte, so a free mutex is entered without    *)
(* being marked.                                                           *)
mutex_lock(q, m, l) ==
    /\ ~locked[m]
    /\ locked' = [locked EXCEPT ![m] = stores] /\ UNCHANGED stores
    /\ Enter(m) /\ Goto(q, l)

\* Mutant: leaves the mutex marked.
mutex_unlock_missing(q, m, l) ==
    /\ UNCHANGED mutexes
    /\ Goto(q, l)

mutex_unlock(q, m, l) ==
    /\ locked' = [locked EXCEPT ![m] = FALSE] /\ UNCHANGED <<stores, mixed>>
    /\ Goto(q, l)

-----------------------------------------------------------------------------
(* An interrupt or exception handler starts on the stack of q.             *)
Interrupt(h, q) ==
    /\ h \in Handler /\ host[h] = None /\ todo[h] # <<>>
    /\ q \notin Handler /\ Runs(q)
    /\ host' = [host EXCEPT ![h] = q]
    /\ UNCHANGED <<mutexes, pc, todo, print, y, screen>>

HandlerReturn(h) ==
    /\ h \in Handler /\ At(h, "idle") /\ todo[h] = <<>>
    /\ host' = [host EXCEPT ![h] = None]
    /\ UNCHANGED <<mutexes, pc, todo, print, y, screen>>

-----------------------------------------------------------------------------
(* __kprint_va_list: the whole message under m_display.                    *)

Call(q) ==
    /\ At(q, "idle") /\ todo[q] # <<>>
    /\ todo' = [todo EXCEPT ![q] = Tail(@)]
    /\ \/ /\ Head(todo[q]) = Copy
          /\ Goto(q, "copy_lock") /\ UNCHANGED print
       \/ /\ Head(todo[q]) # Copy
          /\ msg' = [msg EXCEPT ![q] = Head(todo[q])] /\ i' = [i EXCEPT ![q] = 1]
          /\ Goto(q, "lock")
    /\ UNCHANGED <<mutexes, host, y, screen>>

\* Mutant: prints without the mutex.
LockDisplay_missing(q) ==
    /\ At(q, "lock") /\ Goto(q, "next")
    /\ UNCHANGED <<mutexes, todo, print, host, y, screen>>

LockDisplay(q) ==
    /\ At(q, "lock") /\ mutex_lock(q, "m_display", "next")
    /\ UNCHANGED <<todo, print, host, y, screen>>

NextChar(q) ==
    /\ At(q, "next")
    /\ Goto(q, IF i[q] > Len(msg[q]) THEN "unlock" ELSE "putc")
    /\ UNCHANGED <<mutexes, todo, print, host, y, screen>>

UnlockDisplay(q) ==
    /\ At(q, "unlock") /\ mutex_unlock(q, "m_display", "idle")
    /\ UNCHANGED <<todo, print, host, y, screen>>

-----------------------------------------------------------------------------
(* textmode_putc of the next character of the message.                     *)

Char(q) == msg[q][i[q]]

\* cx after the '\t' and '\r' adjustments.
Moved(q) ==
    CASE Char(q) = TAB -> cx + 4
      [] Char(q) = BS  -> cx - 1
      [] OTHER         -> cx

\* Mutant: a signed cx, left of the first column.
Wraps_signed(q) == Moved(q) >= W \/ Char(q) = NL

\* cx is unsigned: a '\r' in column 0 makes it huge, and the cursor wraps.
Wraps(q) == Moved(q) \notin Columns \/ Char(q) = NL

Putc(q) ==
    /\ At(q, "putc")
    /\ cx' = IF Wraps(q) THEN 0 ELSE Moved(q)
    /\ cy' = IF Wraps(q) THEN cy + 1 ELSE cy
    /\ Goto(q, IF cy' >= H - 1 THEN "scroll" ELSE "write")
    /\ y' = [y EXCEPT ![q] = 0]
    /\ UNCHANGED <<mutexes, todo, print, host, cell, log>>

(* __textmode_scrollup: row y gets row y + 1, one memcpy each, then the    *)
(* row below the last is blanked.                                          *)
ScrollLock(q) ==
    /\ At(q, "scroll") /\ y[q] < H
    /\ mutex_lock(q, "m_memcpy", "scroll_copy")
    /\ UNCHANGED <<todo, print, host, y, screen>>

\* Mutant: source and destination swapped.
ScrollCopy_swapped(q) ==
    /\ At(q, "scroll_copy") /\ Goto(q, "scroll_unlock")
    /\ cell' = [cell EXCEPT ![y[q] + 1] = cell[y[q]]]
    /\ UNCHANGED <<mutexes, todo, print, host, y, cx, cy, log>>

ScrollCopy(q) ==
    /\ At(q, "scroll_copy") /\ Goto(q, "scroll_unlock")
    /\ cell' = [cell EXCEPT ![y[q]] = cell[y[q] + 1]]
    /\ UNCHANGED <<mutexes, todo, print, host, y, cx, cy, log>>

ScrollUnlock(q) ==
    /\ At(q, "scroll_unlock") /\ mutex_unlock(q, "m_memcpy", "scroll")
    /\ y' = [y EXCEPT ![q] = @ + 1]
    /\ UNCHANGED <<todo, print, host, screen>>

ScrollBlank(q) ==
    /\ At(q, "scroll") /\ y[q] = H
    /\ Goto(q, "scrolled")
    /\ cell' = [cell EXCEPT ![H] = [x \in Columns |-> Blank]]
    /\ UNCHANGED <<mutexes, todo, print, host, y, cx, cy, log>>

\* Mutant: the cursor stays on the row scrolled away.
Scrolled_missing(q) ==
    /\ At(q, "scrolled") /\ Goto(q, "write")
    /\ UNCHANGED <<mutexes, todo, print, host, y, screen>>

Scrolled(q) ==                  \* d.con.cy--
    /\ At(q, "scrolled") /\ Goto(q, "write")
    /\ cy' = cy - 1
    /\ UNCHANGED <<mutexes, todo, print, host, y, cell, cx, log>>

Put(q) == log' = Append(log, Char(q)) /\ i' = [i EXCEPT ![q] = @ + 1] /\ UNCHANGED msg

WriteNothing(q) ==
    /\ At(q, "write") /\ Goto(q, "next")
    /\ Char(q) \in {NL, TAB}
    /\ Put(q)
    /\ UNCHANGED <<mutexes, todo, host, y, cell, cx, cy>>

WriteCell(q) ==
    /\ At(q, "write") /\ Goto(q, "advance")
    /\ Char(q) \notin {NL, TAB}
    /\ cell' = [cell EXCEPT ![cy][cx] = IF Char(q) = BS THEN Blank ELSE Char(q)]
    /\ UNCHANGED <<mutexes, todo, print, host, y, cx, cy, log>>

Advance(q) ==
    /\ At(q, "advance") /\ Goto(q, "next")
    /\ cx' = IF Char(q) = BS THEN cx ELSE cx + 1
    /\ Put(q)
    /\ UNCHANGED <<mutexes, todo, host, y, cell, cy>>

-----------------------------------------------------------------------------
(* memcpy called on its own.                                               *)

CopyLock(q) ==
    /\ At(q, "copy_lock") /\ mutex_lock(q, "m_memcpy", "copy")
    /\ UNCHANGED <<todo, print, host, y, screen>>

CopyBytes(q) ==
    /\ At(q, "copy") /\ Goto(q, "copy_unlock")
    /\ UNCHANGED <<mutexes, todo, print, host, y, screen>>

CopyUnlock(q) ==
    /\ At(q, "copy_unlock") /\ mutex_unlock(q, "m_memcpy", "idle")
    /\ UNCHANGED <<todo, print, host, y, screen>>

-----------------------------------------------------------------------------
Step(q) ==
    \/ Call(q) \/ LockDisplay(q) \/ NextChar(q) \/ UnlockDisplay(q)
    \/ Putc(q) \/ ScrollLock(q) \/ ScrollCopy(q) \/ ScrollUnlock(q)
    \/ ScrollBlank(q) \/ Scrolled(q) \/ WriteNothing(q) \/ WriteCell(q) \/ Advance(q)
    \/ CopyLock(q) \/ CopyBytes(q) \/ CopyUnlock(q)

Next ==
    \/ \E q \in Proc : Step(q)
    \/ \E h \in Handler : HandlerReturn(h) \/ \E q \in Proc : Interrupt(h, q)

Spec == Init /\ [][Next]_vars

(* Round robin: every process gets the CPU again and again (NobodyStarves  *)
(* of Tasking), and one that spins on a mutex yields after every attempt.  *)
(* Weak fairness does not promise a spinner that it finds the mutex free   *)
(* while others keep taking it; scripts are finite, so they stop.          *)
Fairness ==
    /\ \A q \in Proc : WF_vars(Step(q))
    /\ \A h \in Handler : WF_vars(HandlerReturn(h))

FairSpec == Spec /\ Fairness
-----------------------------------------------------------------------------
(* What must hold                                                          *)

\* At most one process is inside a message, and one inside a copy.
Alone ==
    \A q, r \in Proc :
        \/ pc[q] \in InDisplay /\ pc[r] \in InDisplay
        \/ pc[q] \in InCopy /\ pc[r] \in InCopy
        => q = r

(* The mutexes exclude, although a lock is taken in the middle of a        *)
(* message when it scrolls: two are inside only where one went in beside   *)
(* the other, which a build whose cmpxchg stores the 1 never lets happen.  *)
MutualExclusion == (mixed \/ Alone) /\ (mixed => ~stores)

(* textmode_putc never writes a cell outside the rows it scrolls, in any   *)
(* build, before two messages mix.                                         *)
WritesOnScreen ==
    ~mixed => \A q \in Proc : pc[q] = "write" => cy <= H - 2 /\ cx \in Columns

\* The text of the log as lines: a new one at '\n' or past the last column.
Feed(lines, ch) ==
    LET last == lines[Len(lines)] IN
    IF ch = NL THEN Append(lines, <<>>)
    ELSE IF Len(last) = W THEN Append(lines, <<ch>>)
    ELSE [lines EXCEPT ![Len(lines)] = Append(last, ch)]

Lines ==
    LET upto[k \in 0 .. Len(log)] == IF k = 0 THEN <<<<>>>> ELSE Feed(upto[k - 1], log[k])
    IN  upto[Len(log)]

\* A full last line wraps only when the next character comes.
Shown(line) == [x \in Columns |-> IF x < Len(line) THEN line[x + 1] ELSE Blank]

(* Between two characters the screen shows the last H - 1 lines printed,   *)
(* in order, with the cursor behind the last character: scrolling loses    *)
(* and repeats nothing.  (Stated while no '\t' and no '\r' was printed,     *)
(* and no two messages mixed.)                                             *)
ScreenShowsLog ==
    ~mixed /\ (\A q \in Proc : pc[q] \notin InPutc) /\ (\A k \in DOMAIN log : log[k] \notin {TAB, BS}) =>
        LET n == Len(Lines)
        IN  /\ cy = (IF n < H THEN n ELSE H - 1) - 1
            /\ cx = Len(Lines[n])
            /\ \A r \in 0 .. H - 2 :
                   cell[r] = IF r <= cy THEN Shown(Lines[n - cy + r]) ELSE Shown(<<>>)

\* q cannot go on before r does: r holds the mutex q spins on, or runs on
\* top of q.
WaitsFor(q, r) ==
    \/ pc[q] = "lock" /\ locked["m_display"] /\ pc[r] \in InDisplay
    \/ /\ pc[q] = "copy_lock" \/ (pc[q] = "scroll" /\ y[q] < H)
       /\ locked["m_memcpy"] /\ pc[r] \in InCopy
    \/ r \in Handler /\ host[r] = q

\* A circular wait that goes through a handler and its host.
HandlerDeadlock ==
    \E S \in SUBSET Proc :
        /\ S \cap Handler # {}
        /\ \A q \in S : \E r \in S : WaitsFor(q, r)

(* Every call to kprintf and memcpy returns, unless a handler prints or    *)
(* copies on the stack of a process that holds a mutex: then it can wait   *)
(* for ever, for its host or for one that waits for its host.  Processes   *)
(* alone never deadlock, though a scroll takes m_memcpy inside m_display.  *)
ReturnsUnlessHandlerWaits ==
    <>((\A q \in Proc \ Handler : todo[q] = <<>> /\ pc[q] = "idle") \/ HandlerDeadlock)

-----------------------------------------------------------------------------
(* The console as an atomic printer: see Printer.                          *)

\* The message a process is in the middle of counts as not yet printed.
Left(q) ==
    IF pc[q] \in InDisplay \cup {"lock"} THEN <<msg[q]>> \o todo[q]
    ELSE IF pc[q] \in {"copy_lock", "copy", "copy_unlock"} THEN <<Copy>> \o todo[q]
    ELSE todo[q]

\* How much of the message in progress is on the screen.
Printing == {q \in Proc : pc[q] \in InDisplay}
Partial  == IF Printing = {} THEN 0 ELSE i[CHOOSE q \in Printing : TRUE] - 1

Atomic == INSTANCE Printer WITH
              left <- [q \in Proc |-> Left(q)],
              out  <- SubSeq(log, 1, Len(log) - Partial)

(* kprintf prints whole messages: whatever the interleaving, the output is *)
(* that of processes that print one message at a time.                     *)
PrintsAtomically == Atomic!PSpec

(* The same as far as the mutex goes: in any build, every step is one of   *)
(* that printer until a message begins inside another.                     *)
AtomicUntilMixed ==
    Atomic!PInit /\ [][(\E q \in Proc : Atomic!PrintNext(q)) \/ mixed']_Atomic!pvars

=============================================================================
