--------------------------- MODULE ConsoleProofs ---------------------------
(***************************************************************************)
(* What Console promises for any number of processes and handlers, any     *)
(* scripts, any screen and any build of mutex_lock.                        *)
(***************************************************************************)
EXTENDS Console, SequenceTheorems, FiniteSetTheorems, WellFoundedInduction, TLAPS

Scrolling == {"scroll", "scroll_copy", "scroll_unlock", "scrolled"}

\* The mutex byte is set while somebody is inside, where cmpxchg stores it.
Marked ==
    stores => \A q \in Proc :
        /\ pc[q] \in InDisplay => locked["m_display"]
        /\ pc[q] \in InCopy => locked["m_memcpy"]

\* The character being put is one of the message, the row one of the screen.
InRange ==
    \A q \in Proc :
        /\ pc[q] \in InPutc => i[q] <= Len(msg[q])
        /\ pc[q] \in {"scroll_copy", "scroll_unlock"} => y[q] < H

\* The cursor is below the last row exactly while textmode_putc scrolls, and
\* in a column from the wrap test to the end of the character.
Cursor ==
    /\ (\A q \in Proc : pc[q] \notin Scrolling) => cy <= H - 2
    /\ \A q \in Proc : pc[q] \in Scrolling => cy = H - 1
    /\ \A q \in Proc : pc[q] \in InPutc \ {"putc"} => cx \in Columns

IInv == TypeOK /\ Marked /\ MutualExclusion /\ InRange /\ (~mixed => Cursor)

\* The invariant as long as nobody went in beside another.
Calm == TypeOK /\ ~mixed /\ Alone /\ InRange /\ Cursor

USE DEF Labels, InDisplay, InPutc, InCopy, Mutexes

LEMMA IsCalm == IInv /\ ~mixed => Calm
BY DEF IInv, Calm, MutualExclusion

(* The boot state satisfies the invariant.                                 *)
LEMMA InitIInv == Init => IInv
<1>. SUFFICES ASSUME Init PROVE IInv
  OBVIOUS
<1>1. TypeOK
  <2>1. cx \in Int /\ cy \in Int /\ cx \in 0 .. W /\ cy \in 0 .. H - 1
    BY ScreenAssumption DEF Init
  <2>2. y \in [Proc -> 0 .. H] /\ log \in Seq(Chars)
    BY ScreenAssumption DEF Init
  <2>3. /\ stores \in Outcomes /\ mixed \in BOOLEAN /\ locked \in [Mutexes -> BOOLEAN]
        /\ pc \in [Proc -> Labels]
    BY Zenon DEF Init
  <2>4. msg \in [Proc -> Seq(Chars)] /\ i \in [Proc -> Nat \ {0}]
    BY DEF Init
  <2>5. todo \in [Proc -> Seq(Seq(Chars) \cup {Copy})] /\ host \in [Handler -> Proc \cup {None}]
    BY ScriptAssumption DEF Init
  <2>6. cell \in [Rows -> [Columns -> Chars \cup {Blank}]]
    BY DEF Init
  <2>. QED BY <2>1, <2>2, <2>3, <2>4, <2>5, <2>6 DEF TypeOK
<1>2. Marked /\ MutualExclusion /\ InRange
  BY DEF Init, Marked, MutualExclusion, Alone, InRange
<1>3. Cursor
  BY ScreenAssumption DEF Init, Cursor, Scrolling
<1>. QED BY <1>1, <1>2, <1>3 DEF IInv

-----------------------------------------------------------------------------
(* Every step keeps the types.                                             *)
LEMMA TypeStep ==
  ASSUME IInv, NEW q \in Proc, Step(q)
  PROVE  TypeOK'
<1>. USE DEF TypeOK, At, Goto, Enter, mutex_lock, mutex_unlock, mutexes, print, screen, Columns, Rows
<1>. TypeOK /\ InRange /\ stores \in BOOLEAN
  BY OutcomesAssumption DEF IInv
<1>0. ~mixed => Cursor /\ Alone
  BY DEF IInv, MutualExclusion
<1>1. CASE Call(q)
  <2>. DEFINE M == Seq(Chars) \cup {Copy}
  <2>1. todo[q] \in Seq(M) /\ todo[q] # <<>>
    BY <1>1 DEF Call
  <2>2. Head(todo[q]) \in M /\ Tail(todo[q]) \in Seq(M)
    <3>. HIDE DEF M
    <3>. QED BY <2>1
  <2>3. todo' \in [Proc -> Seq(M)]
    BY <1>1, <2>2 DEF Call
  <2>4. msg' \in [Proc -> Seq(Chars)] /\ i' \in [Proc -> Nat \ {0}]
    <3>1. CASE Head(todo[q]) = Copy
      BY <1>1, <3>1 DEF Call
    <3>2. CASE Head(todo[q]) # Copy
      <4>1. Head(todo[q]) \in Seq(Chars)
        BY <2>2, <3>2
      <4>. DEFINE m == Head(todo[q])
      <4>2. msg' = [msg EXCEPT ![q] = m] /\ i' = [i EXCEPT ![q] = 1]
        BY <1>1, <3>2 DEF Call
      <4>. HIDE DEF m
      <4>. QED BY <4>1, <4>2 DEF m
    <3>. QED BY <3>1, <3>2
  <2>. HIDE DEF M
  <2>5. pc' \in [Proc -> Labels]
    BY <1>1 DEF Call
  <2>. QED BY <1>1, <2>3, <2>4, <2>5 DEF Call, M
<1>2. CASE LockDisplay(q)
  BY <1>2 DEF LockDisplay
<1>3. CASE NextChar(q)
  BY <1>3 DEF NextChar
<1>4. CASE UnlockDisplay(q)
  BY <1>4 DEF UnlockDisplay
<1>5. CASE Putc(q)
  <2>1. ~mixed => cy <= H - 2
    BY <1>0, <1>5, ScreenAssumption DEF Alone, Putc, Cursor, Scrolling
  <2>2. cx' \in Int /\ cy' \in Int /\ (~mixed => cx' \in 0 .. W /\ cy' \in 0 .. H - 1)
    <3>1. CASE Wraps(q)
      BY <1>5, <2>1, <3>1, ScreenAssumption DEF Putc
    <3>2. CASE ~Wraps(q)
      BY <1>5, <2>1, <3>2, ScreenAssumption DEF Putc, Wraps
    <3>. QED BY <3>1, <3>2
  <2>. QED BY <1>5, <2>2, ScreenAssumption DEF Putc
<1>6. CASE ScrollLock(q)
  BY <1>6 DEF ScrollLock
<1>7. CASE ScrollCopy(q)
  <2>1. y[q] \in Rows /\ y[q] + 1 \in Rows
    BY <1>7, ScreenAssumption DEF ScrollCopy, InRange
  <2>. DEFINE R == [Columns -> Chars \cup {Blank}]
  <2>2. cell \in [Rows -> R]
    OBVIOUS
  <2>3. cell' = [cell EXCEPT ![y[q]] = cell[y[q] + 1]]
    BY <1>7 DEF ScrollCopy
  <2>4. cell' \in [Rows -> R]
    <3>. HIDE DEF R, Rows
    <3>. QED BY <2>1, <2>2, <2>3
  <2>. QED BY <1>7, <2>4 DEF ScrollCopy
<1>8. CASE ScrollUnlock(q)
  <2>1. y[q] + 1 \in 0 .. H
    BY <1>8, ScreenAssumption DEF ScrollUnlock, InRange
  <2>. QED BY <1>8, <2>1 DEF ScrollUnlock
<1>9. CASE ScrollBlank(q)
  BY <1>9 DEF ScrollBlank
<1>10. CASE Scrolled(q)
  BY <1>0, <1>10, ScreenAssumption DEF Scrolled, Cursor, Scrolling
<1>11. CASE WriteNothing(q)
  BY <1>11 DEF WriteNothing, Put, Char, InRange
<1>12. CASE WriteCell(q)
  <2>1. Char(q) \in Chars
    BY <1>12 DEF WriteCell, Char, InRange
  <2>. DEFINE V == Chars \cup {Blank}
              v == IF Char(q) = BS THEN Blank ELSE Char(q)
  <2>2. v \in V
    BY <2>1
  <2>3. cell \in [Rows -> [Columns -> V]] /\ cell' = [cell EXCEPT ![cy][cx] = v]
    BY <1>12 DEF WriteCell
  <2>4. cell' \in [Rows -> [Columns -> V]]
    <3>. HIDE DEF V, v, Rows, Columns
    <3>. QED BY <2>2, <2>3
  <2>. QED BY <1>12, <2>4 DEF WriteCell
<1>13. CASE Advance(q)
  <2>1. Char(q) \in Chars
    BY <1>13 DEF Advance, Char, InRange
  <2>2. ~mixed => cx \in 0 .. W - 1
    BY <1>0, <1>13 DEF Advance, Cursor
  <2>3. cx' \in Int /\ (~mixed => cx' \in 0 .. W)
    BY <1>13, <2>2, ScreenAssumption DEF Advance
  <2>. QED BY <1>13, <2>1, <2>3 DEF Advance, Put
<1>14. CASE CopyLock(q)
  BY <1>14 DEF CopyLock
<1>15. CASE CopyBytes(q)
  BY <1>15 DEF CopyBytes
<1>16. CASE CopyUnlock(q)
  BY <1>16 DEF CopyUnlock
<1>. QED BY <1>1, <1>2, <1>3, <1>4, <1>5, <1>6, <1>7, <1>8, <1>9, <1>10, <1>11, <1>12, <1>13, <1>14, <1>15, <1>16 DEF Step

-----------------------------------------------------------------------------
(* Whoever enters a section is alone in it, or it is remembered; where the *)
(* byte is marked nobody is inside when it is found unmarked, and whoever  *)
(* clears it was the one inside.                                           *)
LEMMA ExclusionStep ==
  ASSUME IInv, NEW q \in Proc, Step(q)
  PROVE  (Marked /\ MutualExclusion)'
<1>. USE DEF At, Goto, Enter, Inside, Alone, mutex_lock, mutex_unlock, mutexes, screen
<1>1. /\ locked \in [Mutexes -> BOOLEAN] /\ pc \in [Proc -> Labels]
      /\ stores \in BOOLEAN /\ mixed \in BOOLEAN
  BY OutcomesAssumption DEF IInv, TypeOK
<1>2. Marked /\ MutualExclusion
  BY DEF IInv
<1>3. CASE Call(q)
  BY <1>1, <1>2, <1>3 DEF Call, Marked, MutualExclusion
<1>4. CASE LockDisplay(q)
  BY <1>1, <1>2, <1>4 DEF LockDisplay, Marked, MutualExclusion
<1>5. CASE NextChar(q)
  BY <1>1, <1>2, <1>5 DEF NextChar, Marked, MutualExclusion
<1>6. CASE UnlockDisplay(q)
  BY <1>1, <1>2, <1>6 DEF UnlockDisplay, Marked, MutualExclusion
<1>7. CASE Putc(q)
  BY <1>1, <1>2, <1>7 DEF Putc, Marked, MutualExclusion
<1>8. CASE ScrollLock(q)
  <2>1. /\ pc[q] = "scroll" /\ pc' = [pc EXCEPT ![q] = "scroll_copy"] /\ ~locked["m_memcpy"]
        /\ locked' = [locked EXCEPT !["m_memcpy"] = stores] /\ stores' = stores
        /\ mixed' = (mixed \/ \E r \in Proc : pc[r] \in InCopy)
    BY <1>8 DEF ScrollLock
  <2>2. Marked'
    BY <1>1, <1>2, <2>1 DEF Marked
  <2>3. stores => \A r \in Proc : pc[r] \notin InCopy
    BY <1>2, <2>1 DEF Marked
  <2>4. mixed' => ~stores'
    BY <1>2, <2>1, <2>3 DEF MutualExclusion
  <2>5. ASSUME ~mixed' PROVE Alone'
    <3>1. Alone /\ \A r \in Proc : pc[r] \notin InCopy
      BY <1>2, <2>1, <2>5 DEF MutualExclusion
    <3>2. \A r \in Proc : pc'[r] \in InDisplay <=> pc[r] \in InDisplay
      BY <1>1, <2>1
    <3>3. \A r \in Proc : pc'[r] \in InCopy => r = q
      BY <1>1, <2>1, <3>1
    <3>. QED BY <3>1, <3>2, <3>3 DEF Alone
  <2>. QED BY <2>2, <2>4, <2>5 DEF MutualExclusion
<1>9. CASE ScrollCopy(q)
  BY <1>1, <1>2, <1>9 DEF ScrollCopy, Marked, MutualExclusion
<1>10. CASE ScrollUnlock(q)
  BY <1>1, <1>2, <1>10 DEF ScrollUnlock, Marked, MutualExclusion
<1>11. CASE ScrollBlank(q)
  BY <1>1, <1>2, <1>11 DEF ScrollBlank, Marked, MutualExclusion
<1>12. CASE Scrolled(q)
  BY <1>1, <1>2, <1>12 DEF Scrolled, Marked, MutualExclusion
<1>13. CASE WriteNothing(q)
  BY <1>1, <1>2, <1>13 DEF WriteNothing, Marked, MutualExclusion
<1>14. CASE WriteCell(q)
  BY <1>1, <1>2, <1>14 DEF WriteCell, Marked, MutualExclusion
<1>15. CASE Advance(q)
  BY <1>1, <1>2, <1>15 DEF Advance, Marked, MutualExclusion
<1>16. CASE CopyLock(q)
  BY <1>1, <1>2, <1>16 DEF CopyLock, Marked, MutualExclusion
<1>17. CASE CopyBytes(q)
  BY <1>1, <1>2, <1>17 DEF CopyBytes, Marked, MutualExclusion
<1>18. CASE CopyUnlock(q)
  BY <1>1, <1>2, <1>18 DEF CopyUnlock, Marked, MutualExclusion
<1>. QED BY <1>3, <1>4, <1>5, <1>6, <1>7, <1>8, <1>9, <1>10, <1>11, <1>12, <1>13, <1>14, <1>15, <1>16, <1>17, <1>18 DEF Step

-----------------------------------------------------------------------------
(* The indices of a message and of a scroll are the process's own.         *)
LEMMA RangeStep ==
  ASSUME IInv, NEW q \in Proc, Step(q)
  PROVE  InRange'
<1>. USE DEF At, Goto, mutex_lock, mutex_unlock, mutexes, print, screen, InRange
<1>. /\ pc \in [Proc -> Labels] /\ i \in [Proc -> Nat \ {0}]
     /\ y \in [Proc -> 0 .. H] /\ msg \in [Proc -> Seq(Chars)] /\ InRange
  BY DEF IInv, TypeOK
<1>. USE ScreenAssumption
<1>1. CASE Call(q) \/ LockDisplay(q) \/ NextChar(q) \/ UnlockDisplay(q)
  BY <1>1 DEF Call, LockDisplay, NextChar, UnlockDisplay
<1>2. CASE Putc(q)
  BY <1>2 DEF Putc
<1>3. CASE ScrollLock(q) \/ ScrollCopy(q) \/ ScrollUnlock(q)
  BY <1>3 DEF ScrollLock, ScrollCopy, ScrollUnlock
<1>4. CASE ScrollBlank(q) \/ Scrolled(q) \/ WriteCell(q)
  BY <1>4 DEF ScrollBlank, Scrolled, WriteCell
<1>5. CASE WriteNothing(q) \/ Advance(q)
  BY <1>5 DEF WriteNothing, Advance, Put
<1>6. CASE CopyLock(q) \/ CopyBytes(q) \/ CopyUnlock(q)
  BY <1>6 DEF CopyLock, CopyBytes, CopyUnlock
<1>. QED BY <1>1, <1>2, <1>3, <1>4, <1>5, <1>6 DEF Step

(* What was mixed stays mixed.                                             *)
LEMMA StaysMixed ==
  ASSUME [Next]_vars
  PROVE  mixed => mixed'
<1>. USE DEF mutex_lock, mutex_unlock, Enter, mutexes
<1>1. ASSUME NEW q \in Proc, Step(q) PROVE mixed => mixed'
  <2>1. CASE Call(q) \/ LockDisplay(q) \/ NextChar(q) \/ UnlockDisplay(q)
    BY <2>1 DEF Call, LockDisplay, NextChar, UnlockDisplay
  <2>2. CASE Putc(q) \/ ScrollLock(q) \/ ScrollCopy(q) \/ ScrollUnlock(q) \/ ScrollBlank(q)
    BY <2>2 DEF Putc, ScrollLock, ScrollCopy, ScrollUnlock, ScrollBlank
  <2>3. CASE Scrolled(q) \/ WriteNothing(q) \/ WriteCell(q) \/ Advance(q)
    BY <2>3 DEF Scrolled, WriteNothing, WriteCell, Advance
  <2>4. CASE CopyLock(q) \/ CopyBytes(q) \/ CopyUnlock(q)
    BY <2>4 DEF CopyLock, CopyBytes, CopyUnlock
  <2>. QED BY <1>1, <2>1, <2>2, <2>3, <2>4 DEF Step
<1>2. ASSUME NEW h \in Handler, HandlerReturn(h) \/ \E q \in Proc : Interrupt(h, q)
      PROVE  mixed => mixed'
  BY <1>2 DEF HandlerReturn, Interrupt
<1>. QED BY <1>1, <1>2 DEF Next, vars

-----------------------------------------------------------------------------
(* Only the process in the message moves the cursor and its own indices.   *)
LEMMA CursorStep ==
  ASSUME Calm, NEW q \in Proc, Step(q)
  PROVE  Cursor'
<1>. USE DEF At, Goto, mutex_lock, mutex_unlock, mutexes, screen
<1>1. /\ pc \in [Proc -> Labels] /\ i \in [Proc -> Nat \ {0}]
      /\ y \in [Proc -> 0 .. H] /\ cx \in 0 .. W /\ cy \in 0 .. H - 1
      /\ msg \in [Proc -> Seq(Chars)]
  BY DEF Calm, TypeOK
<1>2. Alone /\ InRange /\ Cursor
  BY DEF Calm
<1>. USE <1>1, <1>2, ScreenAssumption DEF InRange
<1>3. CASE Call(q)
  BY <1>3 DEF Call, print, Cursor, Scrolling, Alone, Columns
<1>4. CASE LockDisplay(q)
  BY <1>4 DEF LockDisplay, print, Cursor, Scrolling, Alone, Columns
<1>5. CASE NextChar(q)
  BY <1>5 DEF NextChar, print, Cursor, Scrolling, Alone, Columns
<1>6. CASE UnlockDisplay(q)
  BY <1>6 DEF UnlockDisplay, print, Cursor, Scrolling, Alone, Columns
<1>7. CASE Putc(q)
  <2>1. cx' \in Columns
    BY <1>7 DEF Putc, Wraps, Columns
  <2>2. \A r \in Proc \ {q} : pc[r] \notin InPutc /\ pc'[r] = pc[r]
    BY <1>7 DEF Putc, Alone
  <2>3. /\ cy \in Nat /\ cy <= H - 2 /\ cy' \in {cy, cy + 1}
        /\ pc'[q] = IF cy' >= H - 1 THEN "scroll" ELSE "write"
    BY <1>7, <2>2 DEF Putc, Cursor, Scrolling
  <2>. QED BY <2>1, <2>2, <2>3 DEF Cursor, Scrolling
<1>8. CASE ScrollLock(q)
  BY <1>8 DEF ScrollLock, print, Cursor, Scrolling, Alone, Columns
<1>9. CASE ScrollCopy(q)
  BY <1>9 DEF ScrollCopy, print, Cursor, Scrolling, Alone, Columns
<1>10. CASE ScrollUnlock(q)
  BY <1>10 DEF ScrollUnlock, print, Cursor, Scrolling, Alone, Columns
<1>11. CASE ScrollBlank(q)
  BY <1>11 DEF ScrollBlank, print, Cursor, Scrolling, Alone, Columns
<1>12. CASE Scrolled(q)
  BY <1>12 DEF Scrolled, print, Cursor, Scrolling, Alone, Columns
<1>13. CASE WriteNothing(q)
  BY <1>13 DEF WriteNothing, Put, Cursor, Scrolling, Alone, Columns
<1>14. CASE WriteCell(q)
  BY <1>14 DEF WriteCell, print, Cursor, Scrolling, Alone, Columns
<1>15. CASE Advance(q)
  BY <1>15 DEF Advance, Put, Cursor, Scrolling, Alone, Columns
<1>16. CASE CopyLock(q)
  BY <1>16 DEF CopyLock, print, Cursor, Scrolling, Alone, Columns
<1>17. CASE CopyBytes(q)
  BY <1>17 DEF CopyBytes, print, Cursor, Scrolling, Alone, Columns
<1>18. CASE CopyUnlock(q)
  BY <1>18 DEF CopyUnlock, print, Cursor, Scrolling, Alone, Columns
<1>. QED BY <1>3, <1>4, <1>5, <1>6, <1>7, <1>8, <1>9, <1>10, <1>11, <1>12, <1>13, <1>14, <1>15, <1>16, <1>17, <1>18 DEF Step

-----------------------------------------------------------------------------
(* A handler that starts or returns moves nothing but its host.            *)
LEMMA HandlerStep ==
  ASSUME IInv, NEW h \in Handler,
         HandlerReturn(h) \/ \E q \in Proc : Interrupt(h, q)
  PROVE  IInv'
<1>1. UNCHANGED <<mutexes, pc, todo, print, y, screen>>
  BY DEF HandlerReturn, Interrupt
<1>2. host' \in [Handler -> Proc \cup {None}]
  BY DEF HandlerReturn, Interrupt, IInv, TypeOK
<1>3. TypeOK'
  BY <1>1, <1>2 DEF IInv, TypeOK, mutexes, print, screen, Rows, Columns
<1>4. (Marked /\ MutualExclusion /\ InRange /\ (~mixed => Cursor))'
  BY <1>1 DEF IInv, Marked, MutualExclusion, Alone, InRange, Cursor, Scrolling, mutexes, print, screen, Columns
<1>. QED BY <1>3, <1>4 DEF IInv

LEMMA StutterStep ==
  ASSUME IInv, UNCHANGED vars
  PROVE  IInv'
<1>1. TypeOK'
  BY DEF IInv, TypeOK, vars, Rows, Columns
<1>2. (Marked /\ MutualExclusion /\ InRange /\ (~mixed => Cursor))'
  BY DEF IInv, Marked, MutualExclusion, Alone, InRange, Cursor, Scrolling, vars, Columns
<1>. QED BY <1>1, <1>2 DEF IInv

-----------------------------------------------------------------------------
(* The invariant holds in every reachable state of every build.            *)
THEOREM ConsoleInductive == Spec => []IInv
<1>1. Init => IInv
  BY InitIInv
<1>2. IInv /\ [Next]_vars => IInv'
  <2>. SUFFICES ASSUME IInv, [Next]_vars PROVE IInv'
    OBVIOUS
  <2>1. ASSUME NEW q \in Proc, Step(q) PROVE IInv'
    <3>1. mixed => mixed'
      BY StaysMixed
    <3>. QED BY <2>1, <3>1, TypeStep, ExclusionStep, RangeStep, CursorStep, IsCalm DEF IInv
  <2>2. ASSUME NEW h \in Handler, HandlerReturn(h) \/ \E q \in Proc : Interrupt(h, q)
        PROVE  IInv'
    BY <2>2, HandlerStep
  <2>3. CASE UNCHANGED vars
    BY <2>3, StutterStep
  <2>. QED BY <2>1, <2>2, <2>3 DEF Next
<1>. QED BY <1>1, <1>2, PTL DEF Spec

(* Two messages, or two copies, are in progress at once only after one was *)
(* entered beside the other, and that only in a build whose cmpxchg does   *)
(* not store: mutex_lock and mutex_unlock around __kprint_va_list and      *)
(* memcpy exclude exactly where the byte is marked.                        *)
THEOREM MessagesExclude == Spec => []MutualExclusion
<1>1. IInv => MutualExclusion
  BY DEF IInv
<1>. QED BY <1>1, ConsoleInductive, PTL

(* Every variable keeps to its range, the cursor to the rows and columns   *)
(* of the screen until two messages mix.                                   *)
THEOREM ConsoleTypes == Spec => []TypeOK
<1>1. IInv => TypeOK
  BY DEF IInv
<1>. QED BY <1>1, ConsoleInductive, PTL

(* In any build, until two messages mix, textmode_putc writes only cells   *)
(* of the rows it scrolls, on a screen of any size, with any text:         *)
(* wrapping and scrolling keep the cursor inside.                          *)
THEOREM CellsOnScreen == Spec => []WritesOnScreen
<1>1. IInv => WritesOnScreen
  <2>. SUFFICES ASSUME IInv, ~mixed, NEW q \in Proc, pc[q] = "write"
                PROVE  cy <= H - 2 /\ cx \in Columns
    BY DEF WritesOnScreen
  <2>1. Calm
    BY IsCalm
  <2>2. \A r \in Proc : pc[r] \notin Scrolling
    BY <2>1 DEF Calm, Alone, Scrolling
  <2>. QED BY <2>1, <2>2 DEF Calm, Cursor
<1>. QED BY <1>1, ConsoleInductive, PTL
-----------------------------------------------------------------------------
(* kprintf as an atomic printer (Printer).                                 *)

\* The index runs through the message, and what it has passed is what was
\* put last.
Progress ==
    \A q \in Proc :
        /\ pc[q] = "lock" => i[q] = 1
        /\ pc[q] = "next" => i[q] <= Len(msg[q]) + 1
        /\ pc[q] = "unlock" => i[q] = Len(msg[q]) + 1
        /\ pc[q] \in InDisplay =>
               /\ i[q] - 1 <= Len(log)
               /\ \A k \in 1 .. i[q] - 1 : log[Len(log) - (i[q] - 1) + k] = msg[q][k]

(* The message in progress is the only one: Partial is its index.          *)
LEMMA PartialOf ==
  ASSUME Alone, NEW q \in Proc, pc[q] \in InDisplay
  PROVE  Partial = i[q] - 1
<1>1. Printing = {q}
  BY DEF Alone, Printing
<1>2. (CHOOSE r \in Printing : TRUE) = q
  BY <1>1
<1>. QED BY <1>1, <1>2 DEF Partial

(* A step that puts no character keeps Progress.                           *)
LEMMA QuietStep ==
  ASSUME Progress, UNCHANGED <<msg, i, log>>, NEW q \in Proc,
         \A r \in Proc \ {q} : pc'[r] = pc[r],
         pc'[q] \notin {"lock", "next", "unlock"},
         pc'[q] \in InDisplay => pc[q] \in InDisplay
  PROVE  Progress'
<1>. SUFFICES ASSUME NEW r \in Proc
              PROVE  /\ pc'[r] = "lock" => i[r] = 1
                     /\ pc'[r] = "next" => i[r] <= Len(msg[r]) + 1
                     /\ pc'[r] = "unlock" => i[r] = Len(msg[r]) + 1
                     /\ pc'[r] \in InDisplay =>
                            /\ i[r] - 1 <= Len(log)
                            /\ \A k \in 1 .. i[r] - 1 : log[Len(log) - (i[r] - 1) + k] = msg[r][k]
  BY DEF Progress
<1>1. CASE r = q
  BY <1>1 DEF Progress
<1>2. CASE r # q
  BY <1>2 DEF Progress
<1>. QED BY <1>1, <1>2

(* A character put by the process inside the display goes to the end of    *)
(* what it has printed of its message.                                     *)
LEMMA PutStep ==
  ASSUME Calm, Progress, NEW q \in Proc, pc[q] \in InPutc, Put(q), pc'[q] = "next",
         \A r \in Proc \ {q} : pc'[r] = pc[r]
  PROVE  Progress'
<1>. /\ Alone /\ InRange /\ log \in Seq(Chars)
     /\ msg \in [Proc -> Seq(Chars)] /\ i \in [Proc -> Nat \ {0}]
  BY DEF Calm, TypeOK
<1>1. \A r \in Proc \ {q} : pc[r] \notin InDisplay
  BY DEF Alone
<1>2. /\ msg' = msg /\ i'[q] = i[q] + 1 /\ \A r \in Proc \ {q} : i'[r] = i[r]
  BY DEF Put
<1>3. i[q] \in Nat \ {0} /\ i[q] <= Len(msg[q]) /\ Len(log) \in Nat /\ Len(msg[q]) \in Nat
  BY DEF InRange
<1>4. Len(log') = Len(log) + 1 /\ log'[Len(log) + 1] = msg[q][i[q]]
      /\ \A k \in 1 .. Len(log) : log'[k] = log[k]
  <2>1. Char(q) \in Chars
    BY <1>3 DEF Char
  <2>. QED BY <2>1 DEF Put, Char
<1>5. \A k \in 1 .. i[q] : log'[Len(log') - i[q] + k] = msg[q][k]
  <2>. SUFFICES ASSUME NEW k \in 1 .. i[q]
                PROVE  log'[Len(log') - i[q] + k] = msg[q][k]
    OBVIOUS
  <2>1. CASE k = i[q]
    BY <2>1, <1>3, <1>4
  <2>2. CASE k < i[q]
    <3>1. k \in 1 .. i[q] - 1 /\ i[q] - 1 <= Len(log)
      BY <2>2, <1>3 DEF Progress
    <3>2. log[Len(log) - (i[q] - 1) + k] = msg[q][k]
      BY <3>1 DEF Progress
    <3>3. Len(log) - (i[q] - 1) + k \in 1 .. Len(log)
      BY <3>1, <1>3
    <3>4. Len(log') - i[q] + k = Len(log) - (i[q] - 1) + k
      BY <1>3, <1>4
    <3>. QED BY <3>2, <3>3, <3>4, <1>4
  <2>. QED BY <2>1, <2>2, <1>3
<1>6. i[q] - 1 <= Len(log)
  BY DEF Progress
<1>7. \A r \in Proc \ {q} : pc'[r] \notin InDisplay /\ pc'[r] = pc[r]
  BY <1>1
<1>8. \A r \in Proc \ {q} : pc'[r] = "lock" => i'[r] = 1
  BY <1>2, <1>7 DEF Progress
<1>. QED BY <1>2, <1>3, <1>4, <1>5, <1>6, <1>7, <1>8 DEF Progress

(* Every step keeps Progress.                                              *)
LEMMA ProgressStep ==
  ASSUME Calm, Progress, NEW q \in Proc, Step(q)
  PROVE  Progress'
<1>. /\ Alone /\ InRange /\ log \in Seq(Chars) /\ pc \in [Proc -> Labels]
     /\ msg \in [Proc -> Seq(Chars)] /\ i \in [Proc -> Nat \ {0}]
  BY DEF Calm, TypeOK
<1>0. \A r \in Proc : i[r] \in Nat \ {0} /\ Len(msg[r]) \in Nat
  OBVIOUS
<1>. USE DEF At, Goto, mutex_lock, mutex_unlock, mutexes, print, screen
<1>1. CASE Call(q)
  <2>1. CASE pc' = [pc EXCEPT ![q] = "copy_lock"] /\ UNCHANGED <<msg, i, log>>
    BY <2>1, QuietStep
  <2>2. CASE /\ pc' = [pc EXCEPT ![q] = "lock"] /\ i' = [i EXCEPT ![q] = 1]
             /\ msg' = [msg EXCEPT ![q] = Head(todo[q])] /\ log' = log
    BY <2>2, <1>0 DEF Progress
  <2>. QED BY <1>1, <2>1, <2>2 DEF Call
<1>2. CASE LockDisplay(q)
  BY <1>2, <1>0 DEF LockDisplay, Progress
<1>3. CASE NextChar(q)
  BY <1>3, <1>0 DEF NextChar, Progress
<1>4. CASE UnlockDisplay(q)
  BY <1>4, <1>0 DEF UnlockDisplay, Progress
<1>5. CASE Putc(q)
  <2>1. pc' = [pc EXCEPT ![q] = "scroll"] \/ pc' = [pc EXCEPT ![q] = "write"]
    BY <1>5 DEF Putc
  <2>. QED BY <1>5, <2>1, QuietStep DEF Putc
<1>6. CASE ScrollLock(q) \/ ScrollCopy(q) \/ ScrollUnlock(q)
  <2>1. CASE ScrollLock(q)
    BY <2>1, QuietStep DEF ScrollLock
  <2>2. CASE ScrollCopy(q)
    BY <2>2, QuietStep DEF ScrollCopy
  <2>3. CASE ScrollUnlock(q)
    BY <2>3, QuietStep DEF ScrollUnlock
  <2>. QED BY <1>6, <2>1, <2>2, <2>3
<1>7. CASE ScrollBlank(q) \/ Scrolled(q)
  BY <1>7, QuietStep DEF ScrollBlank, Scrolled
<1>8. CASE WriteCell(q)
  BY <1>8, QuietStep DEF WriteCell
<1>9. CASE WriteNothing(q) \/ Advance(q)
  BY <1>9, PutStep DEF WriteNothing, Advance
<1>10. CASE CopyLock(q) \/ CopyBytes(q) \/ CopyUnlock(q)
  <2>1. CASE CopyLock(q)
    BY <2>1, QuietStep DEF CopyLock
  <2>2. CASE CopyBytes(q)
    BY <2>2, QuietStep DEF CopyBytes
  <2>3. CASE CopyUnlock(q)
    BY <2>3, QuietStep DEF CopyUnlock
  <2>. QED BY <1>10, <2>1, <2>2, <2>3
<1>. QED BY <1>1, <1>2, <1>3, <1>4, <1>5, <1>6, <1>7, <1>8, <1>9, <1>10 DEF Step

\* The variables of Printer, as Console's refinement mapping gives them.
ToPrint == [q \in Proc |-> Left(q)]
Printed == SubSeq(log, 1, Len(log) - Partial)

(* A step that neither begins nor ends a message, and puts no character,   *)
(* is no step of the printer.                                              *)
LEMMA PrinterStutters ==
  ASSUME Printing' = Printing, log' = log, \A r \in Printing : i'[r] = i[r],
         \A r \in Proc : Left(r)' = Left(r)
  PROVE  ToPrint' = ToPrint /\ Printed' = Printed
<1>1. Partial' = Partial
  <2>1. CASE Printing = {}
    BY <2>1 DEF Partial
  <2>2. CASE Printing # {}
    <3>1. (CHOOSE r \in Printing : TRUE) \in Printing
      BY <2>2
    <3>. QED BY <2>2, <3>1 DEF Partial
  <2>. QED BY <2>1, <2>2
<1>. QED BY <1>1 DEF ToPrint, Printed

(* Such a step of one process, which moves between labels that stand for   *)
(* the same thing.                                                         *)
LEMMA MoveStutters ==
  ASSUME Calm, NEW q \in Proc, UNCHANGED <<todo, msg, i, log>>,
         \A r \in Proc \ {q} : pc'[r] = pc[r],
         pc[q] \in InDisplay <=> pc'[q] \in InDisplay,
         pc[q] \in InDisplay \cup {"lock"} <=> pc'[q] \in InDisplay \cup {"lock"},
         pc[q] \in {"copy_lock", "copy", "copy_unlock"} <=> pc'[q] \in {"copy_lock", "copy", "copy_unlock"}
  PROVE  ToPrint' = ToPrint /\ Printed' = Printed
<1>1. \A r \in Proc : pc[r] \in InDisplay <=> pc'[r] \in InDisplay
  BY Zenon
<1>2. Printing' = Printing
  BY <1>1 DEF Printing
<1>3. \A r \in Proc : Left(r)' = Left(r)
  <2>. SUFFICES ASSUME NEW r \in Proc PROVE Left(r)' = Left(r)
    OBVIOUS
  <2>1. CASE r = q
    BY <2>1 DEF Left
  <2>2. CASE r # q
    BY <2>2 DEF Left
  <2>. QED BY <2>1, <2>2
<1>. QED BY <1>2, <1>3, PrinterStutters

(* Putting a character is no step of the printer: the message counts as    *)
(* printed when it is whole.                                               *)
LEMMA PutStutters ==
  ASSUME Calm, Calm', NEW q \in Proc, pc[q] \in InPutc, pc'[q] = "next",
         \A r \in Proc \ {q} : pc'[r] = pc[r], todo' = todo, Put(q), Progress
  PROVE  ToPrint' = ToPrint /\ Printed' = Printed
<1>. /\ Alone /\ InRange /\ log \in Seq(Chars)
     /\ msg \in [Proc -> Seq(Chars)] /\ i \in [Proc -> Nat \ {0}]
  BY DEF Calm, TypeOK
<1>1. Partial = i[q] - 1
  BY PartialOf
<1>2. Partial' = i'[q] - 1
  <2>1. Alone'
    BY DEF Calm
  <2>2. \A r \in Proc : pc'[r] \in InDisplay <=> r = q
    BY DEF Alone
  <2>3. Printing' = {q}
    BY <2>2 DEF Printing
  <2>. QED BY <2>3 DEF Partial
<1>3. i[q] \in Nat \ {0} /\ i[q] <= Len(msg[q]) /\ i[q] - 1 <= Len(log)
  BY DEF InRange, Progress
<1>4. Char(q) \in Chars
  BY <1>3 DEF Char
<1>5. i'[q] = i[q] + 1 /\ log' = Append(log, Char(q)) /\ msg' = msg
  BY DEF Put
<1>6. Printed' = Printed
  <2>1. Len(log') = Len(log) + 1
    BY <1>4, <1>5
  <2>2. Len(log') - Partial' = Len(log) - Partial
    BY <1>1, <1>2, <1>3, <1>5, <2>1
  <2>3. Len(log) - Partial \in 0 .. Len(log)
    BY <1>1, <1>3
  <2>4. \A n \in 0 .. Len(log) : SubSeq(log', 1, n) = SubSeq(log, 1, n)
    BY <1>4, <1>5
  <2>. QED BY <2>2, <2>3, <2>4 DEF Printed
<1>7. \A r \in Proc : Left(r)' = Left(r)
  <2>. SUFFICES ASSUME NEW r \in Proc PROVE Left(r)' = Left(r)
    OBVIOUS
  <2>1. CASE r = q
    BY <2>1, <1>5 DEF Left
  <2>2. CASE r # q
    BY <2>2, <1>5 DEF Left
  <2>. QED BY <2>1, <2>2
<1>. QED BY <1>6, <1>7 DEF ToPrint

(* Releasing m_display at the end of the message is the printer's step.    *)
LEMMA UnlockPrints ==
  ASSUME Calm, Calm', Progress, NEW q \in Proc, UnlockDisplay(q)
  PROVE  Atomic!PrintNext(q)
<1>. /\ Alone /\ log \in Seq(Chars) /\ pc \in [Proc -> Labels]
     /\ msg \in [Proc -> Seq(Chars)] /\ i \in [Proc -> Nat \ {0}]
     /\ todo \in [Proc -> Seq(Seq(Chars) \cup {Copy})]
  BY DEF Calm, TypeOK
<1>. USE DEF At, Goto, mutex_unlock, print, screen
<1>1. /\ pc[q] = "unlock" /\ pc' = [pc EXCEPT ![q] = "idle"]
      /\ UNCHANGED <<todo, msg, i, log>>
  BY DEF UnlockDisplay
<1>2. Partial = i[q] - 1 /\ i[q] = Len(msg[q]) + 1 /\ i[q] - 1 <= Len(log)
  BY <1>1, PartialOf DEF Progress
<1>3. Partial' = 0
  <2>1. \A r \in Proc : pc'[r] \notin InDisplay
    BY <1>1 DEF Alone
  <2>. QED BY <2>1 DEF Printing, Partial
<1>4. msg[q] \in Seq(Chars) /\ msg[q] # Copy /\ Len(msg[q]) \in Nat /\ Len(log) \in Nat
  BY ScriptAssumption
<1>5. Printed' = Printed \o msg[q]
  <2>. DEFINE n == Len(log) - Len(msg[q])
  <2>1. n \in 0 .. Len(log) /\ Printed = SubSeq(log, 1, n)
    BY <1>2, <1>4 DEF Printed
  <2>2. Printed' = log
    BY <1>1, <1>3, <1>4 DEF Printed
  <2>3. \A k \in 1 .. Len(msg[q]) : log[n + k] = msg[q][k]
    <3>1. i[q] - 1 = Len(msg[q])
      BY <1>2, <1>4
    <3>2. \A k \in 1 .. i[q] - 1 : log[Len(log) - (i[q] - 1) + k] = msg[q][k]
      BY <1>1 DEF Progress
    <3>. QED BY <3>1, <3>2
  <2>4. SubSeq(log, 1, n) \in Seq(Chars) /\ Len(SubSeq(log, 1, n)) = n
        /\ \A k \in 1 .. n : SubSeq(log, 1, n)[k] = log[k]
    BY <2>1
  <2>. DEFINE t == SubSeq(log, 1, n) \o msg[q]
  <2>5. t \in Seq(Chars) /\ Len(t) = Len(log)
    BY <2>1, <2>4, <1>4
  <2>6. \A k \in 1 .. Len(log) : t[k] = log[k]
    <3>. SUFFICES ASSUME NEW k \in 1 .. Len(log) PROVE t[k] = log[k]
      OBVIOUS
    <3>1. CASE k <= n
      BY <3>1, <2>1, <2>4, <1>4
    <3>2. CASE k > n
      <4>1. k - n \in 1 .. Len(msg[q])
        BY <3>2, <2>1, <1>4
      <4>2. t[k] = msg[q][k - n]
        BY <4>1, <3>2, <2>1, <2>4, <1>4
      <4>3. log[n + (k - n)] = msg[q][k - n]
        BY <4>1, <2>3
      <4>. QED BY <4>2, <4>3, <2>1, <1>4
    <3>. QED BY <3>1, <3>2, <2>1, <1>4
  <2>7. t = log
    <3>. HIDE DEF t
    <3>. QED BY <2>5, <2>6, SeqEqual
  <2>. QED BY <2>1, <2>2, <2>7
<1>6. /\ Left(q) = <<msg[q]>> \o todo[q] /\ Left(q)' = todo[q]
      /\ \A r \in Proc \ {q} : Left(r)' = Left(r)
  BY <1>1 DEF Left
<1>7. /\ Left(q) # <<>> /\ Head(Left(q)) = msg[q] /\ Tail(Left(q)) = todo[q]
  BY <1>6, <1>4
<1>8. ToPrint' = [ToPrint EXCEPT ![q] = Tail(@)]
  BY <1>6, <1>7 DEF ToPrint
<1>9. ToPrint[q] # <<>> /\ Head(ToPrint[q]) = msg[q]
  BY <1>7 DEF ToPrint
<1>. QED BY <1>4, <1>5, <1>8, <1>9 DEF Atomic!PrintNext, ToPrint, Printed

(* Every step of Console is a step of the printer or changes nothing it    *)
(* sees.                                                                   *)
LEMMA StepPrints ==
  ASSUME Calm, Calm', Progress, NEW q \in Proc, Step(q)
  PROVE  Atomic!PrintNext(q) \/ (ToPrint' = ToPrint /\ Printed' = Printed)
<1>. /\ Alone /\ InRange /\ pc \in [Proc -> Labels]
     /\ msg \in [Proc -> Seq(Chars)] /\ i \in [Proc -> Nat \ {0}]
     /\ todo \in [Proc -> Seq(Seq(Chars) \cup {Copy})]
  BY DEF Calm, TypeOK
<1>. USE DEF At, Goto, mutex_lock, mutex_unlock, mutexes, print, screen
<1>1. CASE Call(q)
  <2>. DEFINE M == Seq(Chars) \cup {Copy}
  <2>1. todo[q] \in Seq(M) /\ todo[q] # <<>>
    BY <1>1 DEF Call
  <2>2. <<Head(todo[q])>> \o Tail(todo[q]) = todo[q]
    <3>. HIDE DEF M
    <3>1. Head(todo[q]) \in M /\ Tail(todo[q]) \in Seq(M)
      BY <2>1
    <3>. DEFINE t == <<Head(todo[q])>> \o Tail(todo[q])
    <3>2. t \in Seq(M) /\ Len(t) = Len(todo[q])
      BY <2>1, <3>1
    <3>3. \A k \in 1 .. Len(t) : t[k] = todo[q][k]
      BY <2>1, <3>1
    <3>. HIDE DEF t
    <3>4. t = todo[q]
      BY <2>1, <3>2, <3>3, SeqEqual
    <3>. QED BY <3>4 DEF t
  <2>3. Left(q) = todo[q] /\ Left(q)' = <<Head(todo[q])>> \o Tail(todo[q])
    <3>1. pc[q] = "idle" /\ todo'[q] = Tail(todo[q])
      BY <1>1 DEF Call
    <3>2. \/ pc'[q] = "copy_lock" /\ Head(todo[q]) = Copy
          \/ pc'[q] = "lock" /\ msg'[q] = Head(todo[q])
      BY <1>1 DEF Call
    <3>. QED BY <3>1, <3>2 DEF Left
  <2>4. \A r \in Proc \ {q} : pc'[r] = pc[r] /\ todo'[r] = todo[r] /\ msg'[r] = msg[r] /\ i'[r] = i[r]
    BY <1>1 DEF Call
  <2>5. \A r \in Proc : Left(r)' = Left(r)
    <3>1. \A r \in Proc \ {q} : Left(r)' = Left(r)
      BY <2>4 DEF Left
    <3>. QED BY <2>2, <2>3, <3>1
  <2>6. pc[q] \notin InDisplay /\ pc'[q] \notin InDisplay /\ log' = log
    BY <1>1 DEF Call
  <2>7. Printing' = Printing /\ \A r \in Printing : i'[r] = i[r]
    BY <2>4, <2>6 DEF Printing
  <2>. QED BY <2>5, <2>6, <2>7, PrinterStutters
<1>2. CASE LockDisplay(q)
  <2>1. /\ pc[q] = "lock" /\ pc' = [pc EXCEPT ![q] = "next"] /\ ~locked["m_display"]
        /\ UNCHANGED <<todo, msg, i, log>> /\ Enter("m_display")
    BY <1>2 DEF LockDisplay
  <2>2. \A r \in Proc : pc[r] \notin InDisplay
    BY <2>1 DEF Enter, Inside, Calm
  <2>3. Partial = 0
    BY <2>2 DEF Partial, Printing
  <2>4. i[q] = 1
    BY <2>1 DEF Progress
  <2>5. \A r \in Proc : pc'[r] \in InDisplay <=> r = q
    BY <2>1, <2>2
  <2>6. Printing' = {q}
    BY <2>5 DEF Printing
  <2>7. Partial' = 0
    BY <2>1, <2>4, <2>6 DEF Partial
  <2>8. \A r \in Proc : Left(r)' = Left(r)
    BY <2>1 DEF Left
  <2>. QED BY <2>1, <2>3, <2>7, <2>8 DEF ToPrint, Printed
<1>3. CASE NextChar(q)
  BY <1>3, MoveStutters DEF NextChar
<1>4. CASE UnlockDisplay(q)
  BY <1>4, UnlockPrints
<1>5. CASE Putc(q)
  <2>1. pc' = [pc EXCEPT ![q] = "scroll"] \/ pc' = [pc EXCEPT ![q] = "write"]
    BY <1>5 DEF Putc
  <2>. QED BY <1>5, <2>1, MoveStutters DEF Putc
<1>6. CASE ScrollLock(q) \/ ScrollCopy(q) \/ ScrollUnlock(q)
  <2>1. CASE ScrollLock(q)
    BY <2>1, MoveStutters DEF ScrollLock
  <2>2. CASE ScrollCopy(q)
    BY <2>2, MoveStutters DEF ScrollCopy
  <2>3. CASE ScrollUnlock(q)
    BY <2>3, MoveStutters DEF ScrollUnlock
  <2>. QED BY <1>6, <2>1, <2>2, <2>3
<1>7. CASE ScrollBlank(q) \/ Scrolled(q) \/ WriteCell(q)
  <2>1. CASE ScrollBlank(q)
    BY <2>1, MoveStutters DEF ScrollBlank
  <2>2. CASE Scrolled(q)
    BY <2>2, MoveStutters DEF Scrolled
  <2>3. CASE WriteCell(q)
    BY <2>3, MoveStutters DEF WriteCell
  <2>. QED BY <1>7, <2>1, <2>2, <2>3
<1>8. CASE WriteNothing(q) \/ Advance(q)
  BY <1>8, PutStutters DEF WriteNothing, Advance
<1>9. CASE CopyLock(q) \/ CopyBytes(q)
  <2>1. CASE CopyLock(q)
    BY <2>1, MoveStutters DEF CopyLock
  <2>2. CASE CopyBytes(q)
    BY <2>2, MoveStutters DEF CopyBytes
  <2>. QED BY <1>9, <2>1, <2>2
<1>10. CASE CopyUnlock(q)
  <2>1. /\ pc[q] = "copy_unlock" /\ pc' = [pc EXCEPT ![q] = "idle"]
        /\ UNCHANGED <<todo, msg, i, log>>
    BY <1>10 DEF CopyUnlock
  <2>2. Left(q) = <<Copy>> \o todo[q] /\ Left(q)' = todo[q]
        /\ \A r \in Proc \ {q} : Left(r)' = Left(r)
    BY <2>1 DEF Left
  <2>3. Left(q) # <<>> /\ Head(Left(q)) = Copy /\ Tail(Left(q)) = todo[q]
    BY <2>2
  <2>4. Printing' = Printing /\ \A r \in Printing : i'[r] = i[r]
    BY <2>1 DEF Printing
  <2>5. Printed' = Printed
    <3>1. Partial' = Partial
      <4>1. CASE Printing = {}
        BY <2>4, <4>1 DEF Partial
      <4>2. CASE Printing # {}
        <5>1. (CHOOSE r \in Printing : TRUE) \in Printing
          BY <4>2
        <5>. QED BY <2>4, <4>2, <5>1 DEF Partial
      <4>. QED BY <4>1, <4>2
    <3>. QED BY <2>1, <3>1 DEF Printed
  <2>6. ToPrint' = [ToPrint EXCEPT ![q] = Tail(@)] /\ ToPrint[q] # <<>> /\ Head(ToPrint[q]) = Copy
    BY <2>2, <2>3 DEF ToPrint
  <2>. QED BY <2>5, <2>6 DEF Atomic!PrintNext, ToPrint, Printed
<1>. QED BY <1>1, <1>2, <1>3, <1>4, <1>5, <1>6, <1>7, <1>8, <1>9, <1>10 DEF Step

(* kprintf prints whole messages, in every build and every interleaving of *)
(* any number of processes and handlers, until a message begins inside     *)
(* another: so far Console implements Printer.                             *)
THEOREM MessagesPrintAtomically == Spec => AtomicUntilMixed
<1>1. Init => Progress /\ Atomic!PInit
  <2>. SUFFICES ASSUME Init PROVE Progress /\ Atomic!PInit
    OBVIOUS
  <2>1. Progress
    BY DEF Init, Progress
  <2>2. \A q \in Proc : Left(q) = Script[q]
    BY DEF Init, Left
  <2>3. ToPrint = Script
    BY <2>2, ScriptAssumption DEF ToPrint
  <2>4. Partial = 0 /\ log = <<>>
    BY DEF Init, Partial, Printing
  <2>5. Printed = <<>>
    BY <2>4 DEF Printed
  <2>. QED BY <2>1, <2>3, <2>5 DEF Atomic!PInit, ToPrint, Printed
<1>2. IInv /\ (~mixed => Progress) /\ [Next]_vars => (~mixed => Progress)'
  <2>. SUFFICES ASSUME Calm, Progress, [Next]_vars PROVE Progress'
    BY IsCalm, StaysMixed
  <2>1. ASSUME NEW h \in Handler, HandlerReturn(h) \/ \E q \in Proc : Interrupt(h, q)
        PROVE  Progress'
    BY <2>1 DEF HandlerReturn, Interrupt, Progress, mutexes, print, screen
  <2>2. CASE UNCHANGED vars
    BY <2>2 DEF vars, Progress
  <2>. QED BY <2>1, <2>2, ProgressStep DEF Next
<1>3. IInv /\ IInv' /\ (~mixed => Progress) /\ [Next]_vars
      => [(\E q \in Proc : Atomic!PrintNext(q)) \/ mixed']_Atomic!pvars
  <2>. SUFFICES ASSUME Calm, Calm', Progress, [Next]_vars
                PROVE  (\E q \in Proc : Atomic!PrintNext(q)) \/ (ToPrint' = ToPrint /\ Printed' = Printed)
    <3>1. ASSUME IInv, IInv', ~mixed => Progress, [Next]_vars, ~mixed'
          PROVE  Calm /\ Calm' /\ Progress
      BY <3>1, IsCalm, StaysMixed DEF IInv, Calm, MutualExclusion
    <3>. QED BY <3>1 DEF ToPrint, Printed, Atomic!pvars
  <2>1. ASSUME NEW h \in Handler, HandlerReturn(h) \/ \E q \in Proc : Interrupt(h, q)
        PROVE  ToPrint' = ToPrint /\ Printed' = Printed
    BY <2>1 DEF HandlerReturn, Interrupt, ToPrint, Printed, Left, Partial, Printing, mutexes, print, screen
  <2>2. CASE UNCHANGED vars
    BY <2>2 DEF vars, ToPrint, Printed, Left, Partial, Printing
  <2>. QED BY <2>1, <2>2, StepPrints DEF Next
<1>. QED BY <1>1, <1>2, <1>3, ConsoleInductive, PTL DEF Spec, AtomicUntilMixed

-----------------------------------------------------------------------------
(* The lines of the log.                                                   *)

\* f[k] are the lines of the first k characters of s, up to the n-th.
Fed(s, n, f) == f[0] = <<<<>>>> /\ \A k \in 1 .. n : f[k] = Feed(f[k - 1], s[k])

(* Every set of numbers that is not empty has a least one.                 *)
LEMMA LeastNumber ==
  ASSUME NEW T \in SUBSET Nat, T # {}
  PROVE  \E m \in T : \A k \in T : m <= k
<1>. DEFINE F == {0 .. m : m \in T}
            R == StrictSubsetOrdering(Nat)
            S == FiniteSubsetsOf(Nat)
<1>1. F \subseteq S /\ F # {}
  <2>1. \A m \in T : IsFiniteSet(0 .. m) /\ 0 .. m \in SUBSET Nat
    BY FS_Interval
  <2>. QED BY <2>1 DEF FiniteSubsetsOf
<1>2. IsWellFoundedOn(R, S)
  BY FS_StrictSubsetOrderingWellFounded
<1>3. PICK x \in F : \A z \in F : ~ (<<z, x>> \in R)
  <2>. HIDE DEF F, R, S
  <2>. QED BY <1>1, <1>2, WFMin
<1>4. PICK m \in T : x = 0 .. m
  OBVIOUS
<1>5. ASSUME NEW k \in T, k < m PROVE FALSE
  <2>1. 0 .. k \in F /\ 0 .. k \subseteq 0 .. m /\ 0 .. k \in SUBSET Nat /\ 0 .. m \in SUBSET Nat
    BY <1>5
  <2>2. m \in 0 .. m /\ m \notin 0 .. k
    BY <1>5
  <2>3. <<0 .. k, 0 .. m>> \in R
    BY <2>1, <2>2 DEF StrictSubsetOrdering
  <2>. QED BY <1>3, <1>4, <2>1, <2>3
<1>. QED BY <1>5

(* The lines of a prefix of every length exist: the shortest prefix        *)
(* without would be one character longer than one that has them.           *)
LEMMA FedExists ==
  ASSUME NEW s, NEW n \in Nat
  PROVE  \E f : Fed(s, n, f)
<1>. DEFINE T == {m \in Nat : ~ \E f : Fed(s, m, f)}
<1>. SUFFICES ASSUME T # {} PROVE FALSE
  OBVIOUS
<1>1. PICK m \in T : \A k \in T : m <= k
  <2>1. T \in SUBSET Nat
    OBVIOUS
  <2>. HIDE DEF T
  <2>. QED BY <2>1, LeastNumber
<1>2. CASE m = 0
  <2>. DEFINE g == [k \in Nat |-> <<<<>>>>]
  <2>1. g[0] = <<<<>>>> /\ 1 .. 0 = {}
    OBVIOUS
  <2>. HIDE DEF g
  <2>2. Fed(s, 0, g)
    BY <2>1 DEF Fed
  <2>. QED BY <1>1, <1>2, <2>2
<1>3. CASE m # 0
  <2>1. m - 1 \in Nat /\ m - 1 \notin T
    BY <1>1, <1>3
  <2>2. PICK f : Fed(s, m - 1, f)
    BY <2>1
  <2>. DEFINE g == [k \in Nat |-> IF k = m THEN Feed(f[m - 1], s[m]) ELSE f[k]]
  <2>3. g[0] = <<<<>>>>
    BY <1>3, <2>2 DEF Fed
  <2>4. ASSUME NEW k \in 1 .. m PROVE g[k] = Feed(g[k - 1], s[k])
    <3>1. g[k - 1] = f[k - 1]
      BY <1>1
    <3>2. CASE k = m
      BY <3>1, <3>2
    <3>3. CASE k # m
      <4>1. k \in 1 .. m - 1 /\ g[k] = f[k]
        BY <1>1, <3>3
      <4>2. f[k] = Feed(f[k - 1], s[k])
        BY <2>2, <4>1 DEF Fed
      <4>. HIDE DEF g
      <4>. QED BY <3>1, <4>1, <4>2
    <3>. QED BY <3>2, <3>3
  <2>. HIDE DEF g
  <2>5. Fed(s, m, g)
    BY <2>3, <2>4 DEF Fed
  <2>. QED BY <1>1, <2>5
<1>. QED BY <1>2, <1>3

(* They depend on the prefix alone.                                        *)
LEMMA FedUnique ==
  ASSUME NEW s, NEW t, NEW n \in Nat, NEW f, NEW g, Fed(s, n, f), Fed(t, n, g),
         \A k \in 1 .. n : s[k] = t[k]
  PROVE  f[n] = g[n]
<1>. DEFINE T == {m \in 0 .. n : f[m] # g[m]}
<1>. SUFFICES ASSUME T # {} PROVE FALSE
  OBVIOUS
<1>1. PICK m \in T : \A k \in T : m <= k
  <2>1. T \in SUBSET Nat
    OBVIOUS
  <2>. HIDE DEF T
  <2>. QED BY <2>1, LeastNumber
<1>2. m # 0
  BY <1>1 DEF Fed
<1>3. m \in 1 .. n /\ m - 1 \in 0 .. n /\ m - 1 \notin T
  BY <1>1, <1>2
<1>4. f[m - 1] = g[m - 1] /\ f[m] = Feed(f[m - 1], s[m]) /\ g[m] = Feed(g[m - 1], t[m])
  BY <1>3 DEF Fed
<1>. QED BY <1>1, <1>3, <1>4

LEMMA LinesFed == log \in Seq(Chars) => \E f : Fed(log, Len(log), f) /\ Lines = f[Len(log)]
<1>. SUFFICES ASSUME log \in Seq(Chars)
              PROVE  \E f : Fed(log, Len(log), f) /\ Lines = f[Len(log)]
  OBVIOUS
<1>. DEFINE n == Len(log)
            E(f) == [k \in 0 .. n |-> IF k = 0 THEN <<<<>>>> ELSE Feed(f[k - 1], log[k])]
            u == CHOOSE f : f = E(f)
<1>1. n \in Nat
  OBVIOUS
<1>2. PICK g : Fed(log, n, g)
  <2>. HIDE DEF n
  <2>. QED BY <1>1, FedExists
<1>. HIDE DEF n
<1>. DEFINE h == [k \in 0 .. n |-> g[k]]
<1>3. h = E(h)
  <2>1. ASSUME NEW k \in 0 .. n PROVE h[k] = E(h)[k]
    <3>1. CASE k = 0
      BY <1>2, <3>1 DEF Fed
    <3>2. CASE k # 0
      <4>1. k \in 1 .. n /\ k - 1 \in 0 .. n
        BY <1>1, <3>2
      <4>2. g[k] = Feed(g[k - 1], log[k])
        BY <1>2, <4>1 DEF Fed
      <4>3. h[k] = g[k] /\ h[k - 1] = g[k - 1]
        BY <4>1
      <4>. HIDE DEF h
      <4>4. E(h)[k] = Feed(h[k - 1], log[k])
        BY <3>2
      <4>. QED BY <4>2, <4>3, <4>4
    <3>. QED BY <3>1, <3>2
  <2>. QED BY <2>1
<1>4. u = E(u)
  <2>. HIDE DEF h, E
  <2>. QED BY <1>3
<1>. HIDE DEF u
<1>5. Fed(log, n, u)
  <2>1. u[0] = E(u)[0] /\ E(u)[0] = <<<<>>>>
    <3>1. 0 \in 0 .. n
      BY <1>1
    <3>2. E(u)[0] = <<<<>>>>
      BY <3>1
    <3>. HIDE DEF E
    <3>. QED BY <1>4, <3>2
  <2>2. ASSUME NEW k \in 1 .. n PROVE u[k] = Feed(u[k - 1], log[k])
    <3>1. k \in 0 .. n /\ k # 0
      BY <1>1
    <3>2. E(u)[k] = Feed(u[k - 1], log[k])
      BY <3>1
    <3>. HIDE DEF E
    <3>. QED BY <1>4, <3>2
  <2>. HIDE DEF E
  <2>. QED BY <2>1, <2>2 DEF Fed
<1>6. Lines = u[n]
  BY DEF Lines, u, n
<1>. QED BY <1>5, <1>6 DEF n

LEMMA LinesFedAfter == (log \in Seq(Chars) => \E f : Fed(log, Len(log), f) /\ Lines = f[Len(log)])'
<1>1. (log \in Seq(Chars) => \E f : Fed(log, Len(log), f) /\ Lines = f[Len(log)])'
  BY LinesFed, PTL
<1>. QED BY <1>1

(* The empty log is one empty line, and a character put feeds them.        *)
LEMMA LinesOfNothing ==
  ASSUME log = <<>>
  PROVE  Lines = <<<<>>>>
<1>1. PICK f : Fed(log, Len(log), f) /\ Lines = f[Len(log)]
  BY LinesFed
<1>. QED BY <1>1 DEF Fed

LEMMA LinesGrow ==
  ASSUME log \in Seq(Chars), NEW ch \in Chars, log' = Append(log, ch)
  PROVE  Lines' = Feed(Lines, ch)
<1>. DEFINE n == Len(log)
<1>1. n \in Nat /\ log' \in Seq(Chars) /\ Len(log') = n + 1 /\ log'[n + 1] = ch
      /\ \A k \in 1 .. n : log'[k] = log[k]
  OBVIOUS
<1>2. PICK f : Fed(log, n, f) /\ Lines = f[n]
  BY LinesFed
<1>3. PICK g : Fed(log', n + 1, g) /\ Lines' = g[n + 1]
  BY <1>1, LinesFedAfter
<1>. HIDE DEF n
<1>4. Fed(log', n, g) /\ g[n + 1] = Feed(g[n], ch)
  <2>1. n + 1 \in 1 .. n + 1 /\ (n + 1) - 1 = n /\ 1 .. n \subseteq 1 .. n + 1
    BY <1>1
  <2>2. g[n + 1] = Feed(g[n], log'[n + 1])
    BY <1>3, <2>1 DEF Fed
  <2>. QED BY <1>1, <1>3, <2>1, <2>2 DEF Fed
<1>5. f[n] = g[n]
  <2>1. PICK s : s = log
    OBVIOUS
  <2>2. PICK t : t = log'
    OBVIOUS
  <2>3. Fed(s, n, f) /\ Fed(t, n, g)
    BY <1>2, <1>4, <2>1, <2>2
  <2>4. \A k \in 1 .. n : s[k] = t[k]
    BY <1>1, <2>1, <2>2
  <2>. QED BY <1>1, <2>3, <2>4, FedUnique
<1>. QED BY <1>2, <1>3, <1>4, <1>5

-----------------------------------------------------------------------------
(* The screen shows the log.                                               *)

\* The lines with the one that ch is put on, and what the k-th looks like.
Begun(lines, ch) == IF ch = NL \/ Len(lines[Len(lines)]) = W THEN Append(lines, <<>>) ELSE lines
Image(lines, k)  == IF k \in 1 .. Len(lines) THEN Shown(lines[k]) ELSE Shown(<<>>)

\* The row of the last line, and the rows of the last H - 1.
LastRow(lines)  == (IF Len(lines) < H THEN Len(lines) ELSE H - 1) - 1
RowsShow(lines) == cy = LastRow(lines) /\ \A r \in 0 .. H - 2 : cell[r] = Image(lines, Len(lines) - cy + r)
Shows(lines)    == cx = Len(lines[Len(lines)]) /\ RowsShow(lines)

\* From the wrap test to the end of the character.
Busy == InPutc \ {"putc"}

\* Rows of the scroll that have got the row below.
Done(q) == IF pc[q] = "scrolled" THEN H ELSE IF pc[q] = "scroll_unlock" THEN y[q] + 1 ELSE y[q]

Scrolls(q, lines) ==
    /\ cx = Len(lines[Len(lines)]) /\ Len(lines) >= H
    /\ \A r \in 0 .. H - 1 :
           cell[r] = Image(lines, Len(lines) - (H - 1) + r + IF r < Done(q) THEN 1 ELSE 0)

\* In the middle of a character: the screen while it scrolls, before the
\* character is written, and before the cursor moves on.
Midway(q) ==
    /\ pc[q] \in Scrolling => Scrolls(q, Begun(Lines, Char(q)))
    /\ pc[q] = "write" => Shows(Begun(Lines, Char(q)))
    /\ pc[q] = "advance" =>
           LET lines == Feed(Lines, Char(q))
           IN  cx + 1 = Len(lines[Len(lines)]) /\ RowsShow(lines)

Plain == \A k \in DOMAIN log : log[k] \notin {TAB, BS}
Texts == Seq(Seq(Chars)) \ {<<>>}

\* The two rows below the text stay empty: a scroll moves them into it.
BelowEmpty == cell[H - 1] = Shown(<<>>) /\ cell[H] = Shown(<<>>)

ScreenInv ==
    /\ Lines \in Texts
    /\ BelowEmpty
    /\ Plain /\ (\A q \in Proc : pc[q] \notin Busy) => Shows(Lines)
    /\ Plain => \A q \in Proc : pc[q] \in Busy /\ Char(q) \notin {TAB, BS} => Midway(q)

(* What a character does to the lines: it begins a line or not, and unless *)
(* it is '\n' it ends up behind the last.                                  *)
LEMMA BegunLines ==
  ASSUME NEW lines \in Texts, NEW ch \in Chars
  PROVE  /\ Begun(lines, ch) \in Texts /\ Feed(lines, ch) \in Texts
         /\ \A k \in Int : Image(Begun(lines, ch), k) = Image(lines, k)
         /\ ch = NL => Feed(lines, ch) = Begun(lines, ch)
         /\ ch # NL =>
              LET m == Len(Begun(lines, ch))
              IN  /\ Len(Feed(lines, ch)) = m
                  /\ Feed(lines, ch)[m] = Append(Begun(lines, ch)[m], ch)
                  /\ \A k \in 1 .. m - 1 : Feed(lines, ch)[k] = Begun(lines, ch)[k]
<1>. DEFINE S == Seq(Chars)
<1>1. <<>> \in S /\ <<ch>> \in S /\ \A line \in S : Append(line, ch) \in S
  OBVIOUS
<1>2. Append(<<>>, ch) = <<ch>>
  OBVIOUS
<1>. DEFINE n == Len(lines)
            last == lines[n]
<1>3. lines \in Seq(S) /\ n \in Nat \ {0} /\ n \in 1 .. n /\ last \in S
  <2>1. lines \in Seq(S) /\ lines # <<>>
    BY DEF Texts
  <2>. HIDE DEF S
  <2>. QED BY <2>1
<1>. HIDE DEF S
<1>4. CASE ch # NL /\ Len(last) # W
  <2>. DEFINE t == [lines EXCEPT ![n] = Append(last, ch)]
  <2>1. Begun(lines, ch) = lines /\ Feed(lines, ch) = t
    BY <1>4 DEF Begun, Feed
  <2>2. t \in Seq(S) /\ Len(t) = n /\ t[n] = Append(last, ch) /\ \A k \in 1 .. n - 1 : t[k] = lines[k]
    <3>1. Append(last, ch) \in S
      BY <1>1, <1>3
    <3>. HIDE DEF last
    <3>. QED BY <1>3, <3>1
  <2>3. t # <<>>
    <3>. HIDE DEF t
    <3>. QED BY <2>2, <1>3
  <2>. HIDE DEF t
  <2>. QED BY <1>3, <1>4, <2>1, <2>2, <2>3 DEF Texts, S
<1>5. CASE ch = NL \/ Len(last) = W
  <2>. DEFINE b == Append(lines, <<>>)
              t == Append(lines, <<ch>>)
  <2>1. Begun(lines, ch) = b /\ Feed(lines, ch) = IF ch = NL THEN b ELSE t
    BY <1>5 DEF Begun, Feed
  <2>2. /\ b \in Seq(S) /\ Len(b) = n + 1 /\ b[n + 1] = <<>> /\ \A k \in 1 .. n : b[k] = lines[k]
        /\ t \in Seq(S) /\ Len(t) = n + 1 /\ t[n + 1] = <<ch>> /\ \A k \in 1 .. n : t[k] = lines[k]
    BY <1>1, <1>3
  <2>. HIDE DEF b, t
  <2>3. b # <<>> /\ t # <<>>
    BY <2>2, <1>3
  <2>4. ASSUME NEW k \in Int PROVE Image(b, k) = Image(lines, k)
    <3>1. CASE k \in 1 .. n
      BY <3>1, <2>2, <1>3 DEF Image
    <3>2. CASE k = n + 1
      BY <3>2, <2>2, <1>3 DEF Image
    <3>3. CASE k \notin 1 .. n + 1
      BY <3>3, <2>2, <1>3 DEF Image
    <3>. QED BY <3>1, <3>2, <3>3, <1>3
  <2>5. t[n + 1] = Append(b[n + 1], ch) /\ \A k \in 1 .. (n + 1) - 1 : t[k] = b[k]
    BY <1>2, <1>3, <2>2
  <2>. HIDE DEF n
  <2>. QED BY <2>1, <2>2, <2>3, <2>4, <2>5 DEF Texts, S
<1>. QED BY <1>4, <1>5

(* Whoever puts a character is alone with the screen.                      *)
LEMMA AloneInPutc ==
  ASSUME Calm, NEW q \in Proc, pc[q] \in InPutc
  PROVE  /\ \A r \in Proc \ {q} : pc[r] \notin InDisplay
         /\ Char(q) \in Chars
<1>1. \A r \in Proc \ {q} : pc[r] \notin InDisplay
  BY DEF Calm, Alone
<1>2. i[q] \in 1 .. Len(msg[q]) /\ msg[q] \in Seq(Chars)
  BY DEF Calm, TypeOK, InRange
<1>. QED BY <1>1, <1>2 DEF Char

LEMMA SameLines == log' = log => Lines' = Lines
  BY DEF Lines

(* A step that leaves the screen alone, and every character put as far as  *)
(* it was.                                                                 *)
LEMMA QuietScreen ==
  ASSUME Calm, ScreenInv, UNCHANGED screen,
         \A p \in Proc : pc[p] \in Busy <=> pc'[p] \in Busy,
         \A p \in Proc : pc[p] \in Busy =>
             /\ msg'[p] = msg[p] /\ i'[p] = i[p]
             /\ pc'[p] \in Scrolling <=> pc[p] \in Scrolling
             /\ pc'[p] = "write" <=> pc[p] = "write"
             /\ pc'[p] = "advance" <=> pc[p] = "advance"
             /\ pc[p] \in Scrolling => Done(p)' = Done(p)
  PROVE  ScreenInv'
<1>1. cell' = cell /\ cx' = cx /\ cy' = cy /\ log' = log
  BY DEF screen
<1>2. Lines' = Lines
  BY <1>1, SameLines
<1>3. Plain' = Plain /\ BelowEmpty' = BelowEmpty
  BY <1>1 DEF Plain, BelowEmpty
<1>4. Shows(Lines)' = Shows(Lines)
  BY <1>1, <1>2 DEF Shows, RowsShow
<1>5. ASSUME NEW p \in Proc, pc[p] \in Busy, Midway(p)
      PROVE  Midway(p)' /\ Char(p)' = Char(p)
  <2>1. Char(p)' = Char(p)
    BY <1>5 DEF Char
  <2>2. Begun(Lines, Char(p))' = Begun(Lines, Char(p)) /\ Feed(Lines, Char(p))' = Feed(Lines, Char(p))
    BY <1>2, <2>1
  <2>3. ASSUME pc'[p] \in Scrolling PROVE Scrolls(p, Begun(Lines, Char(p)))'
    <3>1. Scrolls(p, Begun(Lines, Char(p))) /\ Done(p)' = Done(p)
      BY <1>5, <2>3 DEF Midway
    <3>. QED BY <1>1, <2>2, <3>1 DEF Scrolls
  <2>4. ASSUME pc'[p] = "write" PROVE Shows(Begun(Lines, Char(p)))'
    <3>1. Shows(Begun(Lines, Char(p)))
      BY <1>5, <2>4 DEF Midway
    <3>. QED BY <1>1, <2>2, <3>1 DEF Shows, RowsShow
  <2>5. ASSUME pc'[p] = "advance"
        PROVE  (LET lines == Feed(Lines, Char(p))
                IN  cx + 1 = Len(lines[Len(lines)]) /\ RowsShow(lines))'
    <3>1. pc[p] = "advance"
      BY <1>5, <2>5
    <3>2. LET lines == Feed(Lines, Char(p)) IN cx + 1 = Len(lines[Len(lines)]) /\ RowsShow(lines)
      BY <1>5, <3>1 DEF Midway
    <3>. QED BY <1>1, <2>2, <3>2 DEF RowsShow
  <2>. QED BY <2>1, <2>3, <2>4, <2>5 DEF Midway
<1>6. \A p \in Proc : pc[p] \in Busy => Char(p)' = Char(p)
  BY DEF Char
<1>7. Lines' \in Texts /\ BelowEmpty'
  BY <1>2, <1>3 DEF ScreenInv
<1>8. Plain' /\ (\A p \in Proc : pc'[p] \notin Busy) => Shows(Lines)'
  BY <1>3, <1>4 DEF ScreenInv
<1>9. Plain' => \A p \in Proc : pc'[p] \in Busy /\ Char(p)' \notin {TAB, BS} => Midway(p)'
  BY <1>3, <1>5, <1>6 DEF ScreenInv
<1>. QED BY <1>7, <1>8, <1>9 DEF ScreenInv

(* A step within a character.                                              *)
LEMMA MidwayStep ==
  ASSUME Calm, ScreenInv, NEW q \in Proc, pc[q] \in InPutc, pc'[q] \in Busy,
         \A r \in Proc \ {q} : pc'[r] = pc[r], UNCHANGED <<log, msg, i>>,
         BelowEmpty', Plain /\ Char(q) \notin {TAB, BS} => Midway(q)'
  PROVE  ScreenInv'
<1>1. Lines' = Lines /\ Plain' = Plain /\ Char(q)' = Char(q)
  BY SameLines DEF Plain, Char
<1>2. \A r \in Proc \ {q} : pc'[r] \notin Busy
  BY AloneInPutc DEF Busy
<1>3. Lines' \in Texts
  BY <1>1 DEF ScreenInv
<1>4. Plain' => \A p \in Proc : pc'[p] \in Busy /\ Char(p)' \notin {TAB, BS} => Midway(p)'
  BY <1>1, <1>2
<1>. QED BY <1>3, <1>4 DEF ScreenInv

(* A step that ends a character.                                           *)
LEMMA PutScreen ==
  ASSUME Calm, ScreenInv, NEW q \in Proc, pc[q] \in Busy, pc'[q] = "next",
         \A r \in Proc \ {q} : pc'[r] = pc[r], Put(q), BelowEmpty',
         ASSUME Plain, Char(q) \notin {TAB, BS}, Midway(q), Lines' = Feed(Lines, Char(q))
         PROVE  Shows(Lines)'
  PROVE  ScreenInv'
<1>1. Char(q) \in Chars /\ \A r \in Proc \ {q} : pc[r] \notin InDisplay
  BY AloneInPutc DEF Busy
<1>2. log \in Seq(Chars) /\ log' = Append(log, Char(q))
  BY DEF Calm, TypeOK, Put
<1>3. Lines' = Feed(Lines, Char(q))
  BY <1>1, <1>2, LinesGrow
<1>4. Lines' \in Texts
  BY <1>1, <1>3, BegunLines DEF ScreenInv
<1>5. \A r \in Proc : pc'[r] \notin Busy
  BY <1>1 DEF Busy
<1>6. Plain' => Plain /\ Char(q) \notin {TAB, BS}
  <2>. DEFINE c == Char(q)
  <2>1. /\ DOMAIN log' = 1 .. Len(log) + 1 /\ DOMAIN log = 1 .. Len(log) /\ Len(log) \in Nat
        /\ log'[Len(log) + 1] = c
        /\ \A k \in 1 .. Len(log) : log'[k] = log[k]
    <3>. HIDE DEF c
    <3>1. c \in Chars /\ log' = Append(log, c)
      BY <1>1, <1>2 DEF c
    <3>. QED BY <1>2, <3>1
  <2>2. Len(log) + 1 \in DOMAIN log' /\ DOMAIN log \subseteq DOMAIN log'
    BY <2>1
  <2>. HIDE DEF c
  <2>. QED BY <2>1, <2>2 DEF Plain, c
<1>7. Plain' => Shows(Lines)'
  BY <1>3, <1>6 DEF ScreenInv
<1>. QED BY <1>4, <1>5, <1>7 DEF ScreenInv

(* The wrap test begins the line of the next character, and leaves the     *)
(* text on the screen, or ready to scroll.                                 *)
LEMMA PutcScreen ==
  ASSUME Calm, ScreenInv, NEW q \in Proc, Putc(q)
  PROVE  ScreenInv'
<1>1. /\ pc[q] = "putc" /\ pc' = [pc EXCEPT ![q] = IF cy' >= H - 1 THEN "scroll" ELSE "write"]
      /\ cx' = (IF Wraps(q) THEN 0 ELSE Moved(q)) /\ cy' = (IF Wraps(q) THEN cy + 1 ELSE cy)
      /\ y' = [y EXCEPT ![q] = 0] /\ UNCHANGED <<msg, i, cell, log>>
  BY DEF Putc, At, Goto, print
<1>2. /\ \A r \in Proc \ {q} : pc[r] \notin InDisplay
      /\ Char(q) \in Chars
  BY <1>1, AloneInPutc
<1>3. pc \in [Proc -> Labels] /\ y \in [Proc -> 0 .. H] /\ cx \in 0 .. W /\ cy \in 0 .. H - 1
  BY DEF Calm, TypeOK
<1>4. cy <= H - 2
  BY <1>1, <1>2 DEF Calm, Cursor, Scrolling
<1>5. \A r \in Proc : pc[r] \notin Busy
  BY <1>1, <1>2 DEF Busy
<1>6. ASSUME Plain, Char(q) \notin {TAB, BS} PROVE Midway(q)'
  <2>1. Shows(Lines) /\ Lines \in Texts /\ BelowEmpty
    BY <1>5, <1>6 DEF ScreenInv
  <2>2. PICK ch : ch = Char(q)
    OBVIOUS
  <2>3. PICK lines : lines = Lines
    OBVIOUS
  <2>4. PICK b : b = Begun(lines, ch)
    OBVIOUS
  <2>5. Lines' = lines /\ Char(q)' = ch /\ Begun(Lines, Char(q))' = b
    BY <1>1, <2>2, <2>3, <2>4, SameLines DEF Char
  <2>6. Wraps(q) <=> ch = NL \/ cx = W
    BY <1>3, <1>6, <2>2, ScreenAssumption DEF Wraps, Moved, Columns
  <2>. DEFINE n == Len(lines)
  <2>7. lines \in Seq(Seq(Chars)) /\ n \in Nat \ {0} /\ cx = Len(lines[n])
    BY <2>1, <2>3 DEF Shows, Texts
  <2>8. cy = LastRow(lines) /\ \A r \in 0 .. H - 2 : cell[r] = Image(lines, n - cy + r)
    BY <2>1, <2>3 DEF Shows, RowsShow
  <2>9. \A k \in Int : Image(b, k) = Image(lines, k)
    BY <1>2, <2>1, <2>2, <2>3, <2>4, BegunLines
  <2>10. H \in Nat \ {0, 1} /\ W \in Nat \ {0}
    BY ScreenAssumption
  <2>11. CASE ~Wraps(q)
    <3>1. b = lines /\ cx' = cx /\ cy' = cy /\ pc'[q] = "write"
      BY <1>1, <1>3, <1>4, <1>6, <2>2, <2>4, <2>6, <2>7, <2>10, <2>11 DEF Begun, Moved
    <3>2. Shows(b)'
      BY <1>1, <2>7, <2>8, <3>1 DEF Shows, RowsShow
    <3>. QED BY <2>5, <3>1, <3>2 DEF Midway, Scrolling
  <2>12. CASE Wraps(q)
    <3>1. b = Append(lines, <<>>)
      BY <2>4, <2>6, <2>7, <2>12 DEF Begun
    <3>2. Len(b) = n + 1 /\ b[n + 1] = <<>> /\ b \in Seq(Seq(Chars))
      BY <2>7, <3>1
    <3>3. cx' = 0 /\ cy' = cy + 1 /\ cx' = Len(b[Len(b)])
      BY <1>1, <2>12, <3>2
    <3>. HIDE DEF n
    <3>4. \A r \in 0 .. H - 2 : cell'[r] = Image(b, n - cy + r)
      BY <1>1, <1>3, <2>7, <2>8, <2>9, <2>10
    <3>5. CASE cy + 1 < H - 1
      <4>1. pc'[q] = "write"
        BY <1>1, <1>3, <3>3, <3>5, <2>10
      <4>2. n < H - 1 /\ cy = n - 1
        BY <2>7, <2>8, <2>10, <3>5 DEF LastRow, n
      <4>3. cy' = LastRow(b) /\ Len(b) - cy' = n - cy
        BY <1>3, <3>2, <3>3, <4>2, <2>7, <2>10 DEF LastRow
      <4>4. Shows(b)'
        BY <3>3, <3>4, <4>3 DEF Shows, RowsShow
      <4>. QED BY <2>5, <4>1, <4>4 DEF Midway, Scrolling
    <3>6. CASE cy + 1 >= H - 1
      <4>1. pc'[q] = "scroll" /\ y'[q] = 0 /\ cy = H - 2
        BY <1>1, <1>3, <1>4, <3>3, <3>6, <2>10
      <4>2. n >= H - 1
        BY <2>7, <2>8, <2>10, <4>1 DEF LastRow, n
      <4>3. Done(q)' = 0
        BY <4>1 DEF Done
      <4>4. ASSUME NEW r \in 0 .. H - 1
            PROVE  cell'[r] = Image(b, Len(b) - (H - 1) + r + IF r < Done(q)' THEN 1 ELSE 0)
        <5>1. Len(b) - (H - 1) + r + (IF r < Done(q)' THEN 1 ELSE 0) = n - cy + r
          BY <3>2, <4>1, <4>3, <2>7, <2>10
        <5>2. CASE r = H - 1
          <6>1. n - cy + r = n + 1 /\ n + 1 \in Int
            BY <5>2, <4>1, <2>7, <2>10
          <6>2. Image(b, n + 1) = Shown(<<>>)
            BY <3>2, <6>1 DEF Image
          <6>. QED BY <1>1, <2>1, <5>1, <5>2, <6>1, <6>2 DEF BelowEmpty
        <5>3. CASE r # H - 1
          <6>1. r \in 0 .. H - 2
            BY <5>3, <2>10
          <6>. QED BY <3>4, <5>1, <6>1
        <5>. QED BY <5>2, <5>3
      <4>5. Scrolls(q, b)'
        BY <3>2, <3>3, <4>2, <4>4, <2>7, <2>10 DEF Scrolls
      <4>. QED BY <2>5, <4>1, <4>5 DEF Midway
    <3>7. cy \in Int /\ H \in Int
      BY <1>3, <2>10
    <3>. QED BY <3>5, <3>6, <3>7
  <2>. QED BY <2>11, <2>12
<1>7. BelowEmpty'
  BY <1>1 DEF ScreenInv, BelowEmpty
<1>8. pc'[q] \in Busy /\ \A r \in Proc \ {q} : pc'[r] = pc[r]
  BY <1>1, <1>3 DEF Busy
<1>. QED BY <1>1, <1>6, <1>7, <1>8, MidwayStep

(* Copying a row of the scroll moves it up by one; the row the last one    *)
(* gets is empty.                                                          *)
LEMMA ScrollCopyScreen ==
  ASSUME Calm, ScreenInv, NEW q \in Proc, ScrollCopy(q)
  PROVE  ScreenInv'
<1>1. /\ pc[q] = "scroll_copy" /\ pc' = [pc EXCEPT ![q] = "scroll_unlock"]
      /\ cell' = [cell EXCEPT ![y[q]] = cell[y[q] + 1]]
      /\ UNCHANGED <<msg, i, y, cx, cy, log>>
  BY DEF ScrollCopy, At, Goto, print
<1>2. pc \in [Proc -> Labels] /\ y[q] \in 0 .. H - 1 /\ DOMAIN cell = Rows /\ H \in Nat \ {0, 1}
  BY <1>1, ScreenAssumption DEF Calm, TypeOK, InRange
<1>3. /\ cell'[y[q]] = cell[y[q] + 1]
      /\ \A r \in 0 .. H : r # y[q] => cell'[r] = cell[r]
  BY <1>1, <1>2 DEF Rows
<1>4. BelowEmpty
  BY DEF ScreenInv
<1>5. BelowEmpty'
  <2>1. H \in 0 .. H /\ H - 1 \in 0 .. H /\ H # y[q]
    BY <1>2
  <2>2. cell'[H] = cell[H]
    BY <1>3, <2>1
  <2>3. cell'[H - 1] = Shown(<<>>)
    <3>1. CASE y[q] = H - 1
      <4>1. y[q] + 1 = H
        BY <1>2, <3>1
      <4>. QED BY <1>3, <1>4, <3>1, <4>1 DEF BelowEmpty
    <3>2. CASE y[q] # H - 1
      BY <1>3, <1>4, <2>1, <3>2 DEF BelowEmpty
    <3>. QED BY <3>1, <3>2
  <2>. QED BY <1>4, <2>2, <2>3 DEF BelowEmpty
<1>6. pc'[q] = "scroll_unlock" /\ \A r \in Proc \ {q} : pc'[r] = pc[r]
  BY <1>1, <1>2
<1>7. ASSUME Plain, Char(q) \notin {TAB, BS} PROVE Midway(q)'
  <2>1. PICK b : b = Begun(Lines, Char(q))
    OBVIOUS
  <2>2. Begun(Lines, Char(q))' = b
    BY <1>1, <2>1, SameLines DEF Char
  <2>3. Char(q) \in Chars /\ Lines \in Texts
    BY <1>1, AloneInPutc DEF ScreenInv
  <2>4. b \in Texts /\ Len(b) \in Nat
    <3>1. b \in Texts
      BY <2>1, <2>3, BegunLines
    <3>. QED BY <3>1 DEF Texts
  <2>5. Scrolls(q, b)
    BY <1>1, <1>7, <2>1 DEF ScreenInv, Midway, Scrolling, Busy
  <2>6. Done(q) = y[q] /\ Done(q)' = y[q] + 1
    BY <1>1, <1>6 DEF Done
  <2>7. ASSUME NEW r \in 0 .. H - 1
        PROVE  cell'[r] = Image(b, Len(b) - (H - 1) + r + IF r < y[q] + 1 THEN 1 ELSE 0)
    <3>1. CASE r # y[q]
      <4>1. r \in 0 .. H /\ (r < y[q] + 1 <=> r < y[q])
        BY <1>2, <3>1
      <4>2. cell[r] = Image(b, Len(b) - (H - 1) + r + IF r < y[q] THEN 1 ELSE 0)
        BY <2>5, <2>6 DEF Scrolls
      <4>. QED BY <1>3, <3>1, <4>1, <4>2
    <3>2. CASE r = y[q] /\ r < H - 1
      <4>1. cell'[r] = cell[r + 1] /\ r + 1 \in 0 .. H - 1 /\ ~ (r + 1 < y[q])
        BY <1>2, <1>3, <3>2
      <4>2. cell[r + 1] = Image(b, Len(b) - (H - 1) + (r + 1) + 0)
        BY <2>5, <2>6, <4>1 DEF Scrolls
      <4>3. Len(b) - (H - 1) + (r + 1) + 0 = Len(b) - (H - 1) + r + 1 /\ r < y[q] + 1
        BY <1>2, <2>4, <3>2
      <4>. QED BY <4>1, <4>2, <4>3
    <3>3. CASE r = y[q] /\ r = H - 1
      <4>1. cell'[r] = Shown(<<>>)
        BY <1>5, <3>3 DEF BelowEmpty
      <4>2. Len(b) - (H - 1) + r + (IF r < y[q] + 1 THEN 1 ELSE 0) = Len(b) + 1
        BY <1>2, <2>4, <3>3
      <4>3. Image(b, Len(b) + 1) = Shown(<<>>)
        BY <2>4 DEF Image
      <4>. QED BY <4>1, <4>2, <4>3
    <3>. QED BY <1>2, <3>1, <3>2, <3>3
  <2>8. Scrolls(q, b)'
    BY <1>1, <2>5, <2>6, <2>7 DEF Scrolls
  <2>. QED BY <1>6, <2>2, <2>8 DEF Midway
<1>8. pc[q] \in InPutc /\ pc'[q] \in Busy
  BY <1>1, <1>6 DEF Busy
<1>. QED BY <1>1, <1>5, <1>6, <1>7, <1>8, MidwayStep

(* Blanking the row below the last, which is empty already.                *)
LEMMA ScrollBlankScreen ==
  ASSUME Calm, ScreenInv, NEW q \in Proc, ScrollBlank(q)
  PROVE  ScreenInv'
<1>1. /\ pc[q] = "scroll" /\ y[q] = H /\ pc' = [pc EXCEPT ![q] = "scrolled"]
      /\ cell' = [cell EXCEPT ![H] = [x \in Columns |-> Blank]]
      /\ UNCHANGED <<msg, i, y, cx, cy, log>>
  BY DEF ScrollBlank, At, Goto, print
<1>2. pc \in [Proc -> Labels] /\ cell \in [Rows -> [Columns -> Chars \cup {Blank}]] /\ H \in Nat \ {0, 1}
  BY ScreenAssumption DEF Calm, TypeOK
<1>3. Shown(<<>>) = [x \in Columns |-> Blank]
  <2>1. \A x \in Columns : ~ (x < Len(<<>>))
    BY ScreenAssumption DEF Columns
  <2>. QED BY <2>1 DEF Shown
<1>4. BelowEmpty
  BY DEF ScreenInv
<1>5. cell' = cell
  BY <1>1, <1>2, <1>3, <1>4 DEF BelowEmpty
<1>6. pc'[q] = "scrolled" /\ \A r \in Proc \ {q} : pc'[r] = pc[r]
  BY <1>1, <1>2
<1>7. Done(q) = H /\ Done(q)' = H
  BY <1>1, <1>6 DEF Done
<1>8. \A p \in Proc \ {q} : pc[p] \notin Busy /\ pc'[p] = pc[p]
  BY <1>1, <1>6, AloneInPutc DEF Busy
<1>9. \A p \in Proc : pc[p] \in Busy <=> pc'[p] \in Busy
  BY <1>1, <1>6, <1>8 DEF Busy
<1>10. \A p \in Proc : pc[p] \in Busy => p = q
  BY <1>8
<1>. QED BY <1>1, <1>5, <1>6, <1>7, <1>9, <1>10, QuietScreen DEF screen, Scrolling

(* With the cursor moved up the scrolled text is where it belongs.         *)
LEMMA ScrolledScreen ==
  ASSUME Calm, ScreenInv, NEW q \in Proc, Scrolled(q)
  PROVE  ScreenInv'
<1>1. /\ pc[q] = "scrolled" /\ pc' = [pc EXCEPT ![q] = "write"] /\ cy' = cy - 1
      /\ UNCHANGED <<msg, i, y, cx, cell, log>>
  BY DEF Scrolled, At, Goto, print
<1>2. pc \in [Proc -> Labels] /\ H \in Nat \ {0, 1} /\ cy = H - 1
  BY <1>1, ScreenAssumption DEF Calm, TypeOK, Cursor, Scrolling
<1>3. pc'[q] = "write" /\ \A r \in Proc \ {q} : pc'[r] = pc[r]
  BY <1>1, <1>2
<1>4. ASSUME Plain, Char(q) \notin {TAB, BS} PROVE Midway(q)'
  <2>1. PICK b : b = Begun(Lines, Char(q))
    OBVIOUS
  <2>2. Begun(Lines, Char(q))' = b
    BY <1>1, <2>1, SameLines DEF Char
  <2>3. Char(q) \in Chars /\ Lines \in Texts
    BY <1>1, AloneInPutc DEF ScreenInv
  <2>4. b \in Texts
    BY <2>1, <2>3, BegunLines
  <2>5. Len(b) \in Nat
    BY <2>4 DEF Texts
  <2>6. Scrolls(q, b) /\ Done(q) = H
    BY <1>1, <1>4, <2>1 DEF ScreenInv, Midway, Scrolling, Busy, Done
  <2>7. cy' = LastRow(b)
    BY <1>1, <1>2, <2>5, <2>6 DEF LastRow, Scrolls
  <2>8. ASSUME NEW r \in 0 .. H - 2 PROVE cell'[r] = Image(b, Len(b) - cy' + r)
    <3>1. r \in 0 .. H - 1 /\ r < H
      BY <1>2
    <3>2. cell[r] = Image(b, Len(b) - (H - 1) + r + 1)
      BY <2>6, <3>1 DEF Scrolls
    <3>3. Len(b) - (H - 1) + r + 1 = Len(b) - cy' + r
      BY <1>1, <1>2, <2>5
    <3>. QED BY <1>1, <3>2, <3>3
  <2>9. Shows(b)'
    BY <1>1, <2>6, <2>7, <2>8 DEF Shows, RowsShow, Scrolls
  <2>. QED BY <1>3, <2>2, <2>9 DEF Midway, Scrolling
<1>5. BelowEmpty'
  BY <1>1 DEF ScreenInv, BelowEmpty
<1>6. pc[q] \in InPutc /\ pc'[q] \in Busy
  BY <1>1, <1>3 DEF Busy
<1>. QED BY <1>1, <1>3, <1>4, <1>5, <1>6, MidwayStep

(* A '\n' writes nothing: the line it begins is on the screen already.     *)
LEMMA WriteNothingScreen ==
  ASSUME Calm, ScreenInv, NEW q \in Proc, WriteNothing(q)
  PROVE  ScreenInv'
<1>1. /\ pc[q] = "write" /\ pc' = [pc EXCEPT ![q] = "next"]
      /\ Char(q) \in {NL, TAB} /\ Put(q) /\ UNCHANGED <<cell, cx, cy>>
  BY DEF WriteNothing, At, Goto
<1>2. pc'[q] = "next" /\ \A r \in Proc \ {q} : pc'[r] = pc[r]
  BY <1>1 DEF Calm, TypeOK
<1>3. BelowEmpty'
  BY <1>1 DEF ScreenInv, BelowEmpty
<1>4. ASSUME Plain, Char(q) \notin {TAB, BS}, Midway(q), Lines' = Feed(Lines, Char(q))
      PROVE  Shows(Lines)'
  <2>1. Char(q) = NL /\ Char(q) \in Chars /\ Lines \in Texts
    BY <1>1, <1>4, AloneInPutc DEF ScreenInv
  <2>2. PICK b : b = Begun(Lines, Char(q))
    OBVIOUS
  <2>3. Shows(b)
    BY <1>1, <1>4, <2>2 DEF Midway
  <2>4. Lines' = b
    BY <1>4, <2>1, <2>2, BegunLines
  <2>. QED BY <1>1, <2>3, <2>4 DEF Shows, RowsShow
<1>. QED BY <1>1, <1>2, <1>3, <1>4, PutScreen DEF Busy

(* Writing the cell puts the character on the screen, in the row of the    *)
(* last line and behind what it shows.                                     *)
LEMMA WriteCellScreen ==
  ASSUME Calm, ScreenInv, NEW q \in Proc, WriteCell(q)
  PROVE  ScreenInv'
<1>1. /\ pc[q] = "write" /\ pc' = [pc EXCEPT ![q] = "advance"] /\ Char(q) \notin {NL, TAB}
      /\ cell' = [cell EXCEPT ![cy][cx] = IF Char(q) = BS THEN Blank ELSE Char(q)]
      /\ UNCHANGED <<msg, i, cx, cy, log>>
  BY DEF WriteCell, At, Goto, print
<1>2. /\ pc \in [Proc -> Labels] /\ cell \in [Rows -> [Columns -> Chars \cup {Blank}]]
      /\ H \in Nat \ {0, 1} /\ W \in Nat \ {0}
  BY ScreenAssumption DEF Calm, TypeOK
<1>3. pc'[q] = "advance" /\ \A r \in Proc \ {q} : pc'[r] = pc[r]
  BY <1>1, <1>2
<1>4. Char(q) \in Chars /\ \A r \in Proc \ {q} : pc[r] \notin InDisplay
  BY <1>1, AloneInPutc
<1>5. cx \in Columns /\ cy \in 0 .. H - 2
  BY <1>1, <1>2, <1>4 DEF Calm, TypeOK, Cursor, Scrolling
<1>6. /\ cell'[cy] = [cell[cy] EXCEPT ![cx] = IF Char(q) = BS THEN Blank ELSE Char(q)]
      /\ \A r \in 0 .. H : r # cy => cell'[r] = cell[r]
  BY <1>1, <1>2, <1>5 DEF Rows
<1>7. BelowEmpty'
  <2>1. H \in 0 .. H /\ H # cy /\ H - 1 \in 0 .. H /\ H - 1 # cy
    BY <1>2, <1>5
  <2>. QED BY <1>6, <2>1 DEF ScreenInv, BelowEmpty
<1>8. ASSUME Plain, Char(q) \notin {TAB, BS} PROVE Midway(q)'
  <2>1. PICK ch : ch = Char(q)
    OBVIOUS
  <2>2. PICK b : b = Begun(Lines, ch)
    OBVIOUS
  <2>3. PICK t : t = Feed(Lines, ch)
    OBVIOUS
  <2>4. Feed(Lines, Char(q))' = t
    BY <1>1, <2>1, <2>3, SameLines DEF Char
  <2>5. ch \in Chars /\ ch # NL /\ Lines \in Texts
    BY <1>1, <1>4, <2>1 DEF ScreenInv
  <2>. DEFINE m == Len(b)
  <2>6. /\ b \in Texts /\ t \in Texts /\ Len(t) = m /\ t[m] = Append(b[m], ch)
        /\ \A k \in 1 .. m - 1 : t[k] = b[k]
    BY <2>2, <2>3, <2>5, BegunLines
  <2>7. m \in Nat \ {0} /\ b[m] \in Seq(Chars)
    <3>. DEFINE S == Seq(Chars)
    <3>1. b \in Seq(S) /\ b # <<>>
      BY <2>6 DEF Texts
    <3>. HIDE DEF S
    <3>2. m \in Nat \ {0} /\ b[m] \in S
      BY <3>1
    <3>. QED BY <3>2 DEF S
  <2>8. Shows(b)
    BY <1>1, <1>8, <2>1, <2>2 DEF ScreenInv, Midway, Busy
  <2>9. cx = Len(b[m]) /\ cy = LastRow(b) /\ \A r \in 0 .. H - 2 : cell[r] = Image(b, m - cy + r)
    BY <2>8 DEF Shows, RowsShow
  <2>10. Len(t[m]) = cx + 1 /\ t[m][cx + 1] = ch /\ \A k \in 1 .. cx : t[m][k] = b[m][k]
    <3>1. PICK line : line = b[m]
      OBVIOUS
    <3>2. line \in Seq(Chars) /\ cx = Len(line) /\ t[m] = Append(line, ch)
      BY <2>6, <2>7, <2>9, <3>1
    <3>3. Len(Append(line, ch)) = cx + 1 /\ Append(line, ch)[cx + 1] = ch
          /\ \A k \in 1 .. cx : Append(line, ch)[k] = line[k]
      BY <3>2, <2>5
    <3>. QED BY <3>1, <3>2, <3>3
  <2>. HIDE DEF m
  <2>11. cell'[cy] = Shown(t[m])
    <3>1. cell[cy] = Shown(b[m])
      <4>1. m - cy + cy = m /\ m \in 1 .. m
        BY <1>5, <2>7
      <4>2. cell[cy] = Image(b, m)
        BY <1>5, <2>9, <4>1
      <4>. QED BY <4>1, <4>2 DEF Image, m
    <3>2. cell'[cy] = [Shown(b[m]) EXCEPT ![cx] = ch]
      BY <1>6, <1>8, <2>1, <3>1
    <3>3. ASSUME NEW x \in Columns
          PROVE  [Shown(b[m]) EXCEPT ![cx] = ch][x] = Shown(t[m])[x]
      <4>1. x \in Int /\ x >= 0 /\ cx \in Nat /\ Len(b[m]) = cx
        BY <1>2, <1>5, <2>9 DEF Columns, m
      <4>2. Shown(t[m])[x] = IF x < cx + 1 THEN t[m][x + 1] ELSE Blank
        BY <2>10 DEF Shown
      <4>3. Shown(b[m])[x] = IF x < cx THEN b[m][x + 1] ELSE Blank
        BY <4>1 DEF Shown
      <4>4. CASE x = cx
        BY <1>5, <2>10, <4>1, <4>2, <4>4 DEF Shown
      <4>5. CASE x # cx
        <5>1. [Shown(b[m]) EXCEPT ![cx] = ch][x] = Shown(b[m])[x]
          BY <4>5 DEF Shown
        <5>2. x < cx + 1 <=> x < cx
          BY <4>1, <4>5
        <5>3. CASE x < cx
          <6>1. x + 1 \in 1 .. cx
            BY <4>1, <5>3
          <6>. QED BY <2>10, <4>2, <4>3, <5>1, <5>2, <5>3, <6>1
        <5>4. CASE ~ (x < cx)
          BY <4>2, <4>3, <5>1, <5>2, <5>4
        <5>. QED BY <5>3, <5>4
      <4>. QED BY <4>4, <4>5
    <3>4. DOMAIN Shown(b[m]) = Columns /\ DOMAIN Shown(t[m]) = Columns
      BY DEF Shown
    <3>5. [Shown(b[m]) EXCEPT ![cx] = ch] = Shown(t[m])
      <4>1. PICK f : f = Shown(b[m])
        OBVIOUS
      <4>2. PICK g : g = Shown(t[m])
        OBVIOUS
      <4>3. f = [x \in Columns |-> f[x]] /\ g = [x \in Columns |-> g[x]]
        BY <4>1, <4>2 DEF Shown
      <4>4. \A x \in Columns : [f EXCEPT ![cx] = ch][x] = g[x]
        BY <3>3, <4>1, <4>2
      <4>5. [f EXCEPT ![cx] = ch] = g
        BY <4>3, <4>4
      <4>. QED BY <4>1, <4>2, <4>5
    <3>. QED BY <3>2, <3>5
  <2>12. ASSUME NEW r \in 0 .. H - 2 PROVE cell'[r] = Image(t, m - cy + r)
    <3>1. CASE r = cy
      <4>1. m - cy + r = m /\ m \in 1 .. m
        BY <1>5, <2>7, <3>1
      <4>. QED BY <2>6, <2>11, <3>1, <4>1 DEF Image, m
    <3>2. CASE r # cy
      <4>1. cell'[r] = Image(b, m - cy + r)
        <5>1. r \in 0 .. H
          BY <1>2
        <5>. QED BY <1>6, <2>9, <3>2, <5>1
      <4>2. m - cy + r \in Int /\ m - cy + r # m
        BY <1>5, <2>7, <3>2
      <4>3. Image(t, m - cy + r) = Image(b, m - cy + r)
        <5>1. CASE m - cy + r \in 1 .. m
          <6>1. m - cy + r \in 1 .. m - 1
            BY <2>7, <4>2, <5>1
          <6>. QED BY <2>6, <5>1, <6>1 DEF Image, m
        <5>2. CASE m - cy + r \notin 1 .. m
          BY <2>6, <5>2 DEF Image, m
        <5>. QED BY <5>1, <5>2
      <4>. QED BY <4>1, <4>3
    <3>. QED BY <3>1, <3>2
  <2>13. LastRow(t) = LastRow(b)
    BY <2>6 DEF LastRow, m
  <2>14. cx' + 1 = Len(t[Len(t)]) /\ RowsShow(t)'
    BY <1>1, <2>6, <2>9, <2>10, <2>12, <2>13 DEF RowsShow, m
  <2>. QED BY <1>3, <2>4, <2>14 DEF Midway, Scrolling
<1>9. pc[q] \in InPutc /\ pc'[q] \in Busy
  BY <1>1, <1>3 DEF Busy
<1>. QED BY <1>1, <1>3, <1>7, <1>8, <1>9, MidwayStep

(* Moving on puts the cursor behind it.                                    *)
LEMMA AdvanceScreen ==
  ASSUME Calm, ScreenInv, NEW q \in Proc, Advance(q)
  PROVE  ScreenInv'
<1>1. /\ pc[q] = "advance" /\ pc' = [pc EXCEPT ![q] = "next"]
      /\ cx' = (IF Char(q) = BS THEN cx ELSE cx + 1)
      /\ Put(q) /\ UNCHANGED <<cell, cy>>
  BY DEF Advance, At, Goto
<1>2. pc'[q] = "next" /\ \A r \in Proc \ {q} : pc'[r] = pc[r]
  BY <1>1 DEF Calm, TypeOK
<1>3. BelowEmpty'
  BY <1>1 DEF ScreenInv, BelowEmpty
<1>4. ASSUME Plain, Char(q) \notin {TAB, BS}, Midway(q), Lines' = Feed(Lines, Char(q))
      PROVE  Shows(Lines)'
  <2>1. PICK t : t = Feed(Lines, Char(q))
    OBVIOUS
  <2>2. cx + 1 = Len(t[Len(t)]) /\ RowsShow(t)
    BY <1>1, <1>4, <2>1 DEF Midway
  <2>. QED BY <1>1, <1>4, <2>1, <2>2 DEF Shows, RowsShow
<1>. QED BY <1>1, <1>2, <1>3, <1>4, PutScreen DEF Busy

(* The other steps leave the screen alone.                                 *)
LEMMA ScreenStep ==
  ASSUME Calm, ScreenInv, NEW q \in Proc, Step(q)
  PROVE  ScreenInv'
<1>. pc \in [Proc -> Labels] /\ y \in [Proc -> 0 .. H]
     /\ msg \in [Proc -> Seq(Chars)] /\ i \in [Proc -> Nat \ {0}]
  BY DEF Calm, TypeOK
<1>. USE DEF At, Goto, mutex_lock, mutex_unlock, mutexes, print, Busy, Scrolling, Done
<1>1. CASE Call(q)
  <2>1. \A p \in Proc : pc[p] \in Busy => msg'[p] = msg[p] /\ i'[p] = i[p] /\ pc'[p] = pc[p]
    BY <1>1 DEF Call
  <2>2. UNCHANGED screen /\ y' = y /\ \A p \in Proc : pc'[p] \in Busy <=> pc[p] \in Busy
    BY <1>1 DEF Call
  <2>. QED BY <2>1, <2>2, QuietScreen
<1>2. CASE LockDisplay(q)
  <2>1. UNCHANGED <<screen, msg, i, y>> /\ \A p \in Proc \ {q} : pc'[p] = pc[p]
    BY <1>2 DEF LockDisplay
  <2>2. pc[q] \notin Busy /\ pc'[q] \notin Busy
    BY <1>2 DEF LockDisplay
  <2>. QED BY <2>1, <2>2, QuietScreen
<1>3. CASE NextChar(q)
  <2>1. UNCHANGED <<screen, msg, i, y>> /\ \A p \in Proc \ {q} : pc'[p] = pc[p]
    BY <1>3 DEF NextChar
  <2>2. pc[q] \notin Busy /\ pc'[q] \notin Busy
    BY <1>3 DEF NextChar
  <2>. QED BY <2>1, <2>2, QuietScreen
<1>4. CASE UnlockDisplay(q) \/ CopyLock(q) \/ CopyBytes(q) \/ CopyUnlock(q)
  <2>1. UNCHANGED <<screen, msg, i, y>> /\ \A p \in Proc \ {q} : pc'[p] = pc[p]
    BY <1>4 DEF UnlockDisplay, CopyLock, CopyBytes, CopyUnlock
  <2>2. pc[q] \notin Busy /\ pc'[q] \notin Busy
    BY <1>4 DEF UnlockDisplay, CopyLock, CopyBytes, CopyUnlock
  <2>. QED BY <2>1, <2>2, QuietScreen
<1>5. CASE ScrollLock(q)
  <2>1. UNCHANGED <<screen, msg, i, y>> /\ \A p \in Proc \ {q} : pc'[p] = pc[p]
    BY <1>5 DEF ScrollLock
  <2>2. pc[q] = "scroll" /\ pc'[q] = "scroll_copy"
    BY <1>5 DEF ScrollLock
  <2>. QED BY <2>1, <2>2, QuietScreen
<1>6. CASE ScrollUnlock(q)
  <2>1. UNCHANGED <<screen, msg, i>> /\ \A p \in Proc \ {q} : pc'[p] = pc[p] /\ y'[p] = y[p]
    BY <1>6 DEF ScrollUnlock
  <2>2. pc[q] = "scroll_unlock" /\ pc'[q] = "scroll" /\ y'[q] = y[q] + 1
    BY <1>6 DEF ScrollUnlock
  <2>. QED BY <2>1, <2>2, QuietScreen
<1>. QED BY <1>1, <1>2, <1>3, <1>4, <1>5, <1>6, PutcScreen, ScrollCopyScreen, ScrollBlankScreen,
            ScrolledScreen, WriteNothingScreen, WriteCellScreen, AdvanceScreen DEF Step

(* The text screen shows the last lines printed, in order, with the cursor *)
(* behind them: textmode_putc and __textmode_scrollup lose and repeat      *)
(* nothing, on a screen of any size, in any build, whatever is printed by  *)
(* whoever, as long as no '\t' and no '\r' is and no two messages mix.      *)
THEOREM ScreenIsLog == Spec => []ScreenShowsLog
<1>1. Init => ScreenInv
  <2>. SUFFICES ASSUME Init PROVE ScreenInv
    OBVIOUS
  <2>1. Lines = <<<<>>>>
    BY LinesOfNothing DEF Init
  <2>2. H \in Nat \ {0, 1} /\ W \in Nat \ {0}
    BY ScreenAssumption
  <2>3. Shown(<<>>) = [x \in Columns |-> Blank]
    BY <2>2 DEF Shown, Columns
  <2>4. \A r \in 0 .. H : cell[r] = Shown(<<>>)
    BY <2>3 DEF Init, Rows
  <2>5. BelowEmpty
    BY <2>2, <2>4 DEF BelowEmpty
  <2>6. Len(<<<<>>>>) = 1 /\ <<<<>>>>[1] = <<>> /\ <<<<>>>> \in Texts
    BY DEF Texts
  <2>7. \A k \in Int : Image(<<<<>>>>, k) = Shown(<<>>)
    BY <2>6 DEF Image
  <2>8. cy = LastRow(<<<<>>>>) /\ cy = 0 /\ cx = 0
    BY <2>2, <2>6 DEF Init, LastRow
  <2>9. Shows(<<<<>>>>)
    BY <2>2, <2>4, <2>6, <2>7, <2>8 DEF Shows, RowsShow
  <2>10. \A q \in Proc : pc[q] \notin Busy
    BY DEF Init, Busy
  <2>. QED BY <2>1, <2>5, <2>6, <2>9, <2>10 DEF ScreenInv
<1>2. IInv /\ (~mixed => ScreenInv) /\ [Next]_vars => (~mixed => ScreenInv)'
  <2>. SUFFICES ASSUME Calm, ScreenInv, [Next]_vars PROVE ScreenInv'
    BY IsCalm, StaysMixed
  <2>1. ASSUME NEW q \in Proc, Step(q) PROVE ScreenInv'
    BY <2>1, ScreenStep
  <2>2. ASSUME NEW h \in Handler, HandlerReturn(h) \/ \E q \in Proc : Interrupt(h, q)
        PROVE  ScreenInv'
    BY <2>2, QuietScreen DEF HandlerReturn, Interrupt, print, Done
  <2>3. CASE UNCHANGED vars
    BY <2>3, QuietScreen DEF vars, screen, Done
  <2>. QED BY <2>1, <2>2, <2>3 DEF Next
<1>3. IInv /\ (~mixed => ScreenInv) => ScreenShowsLog
  <2>. SUFFICES ASSUME Calm, ScreenInv, \A q \in Proc : pc[q] \notin InPutc,
                       \A k \in DOMAIN log : log[k] \notin {TAB, BS}
                PROVE  LET n == Len(Lines)
                       IN  /\ cy = (IF n < H THEN n ELSE H - 1) - 1
                           /\ cx = Len(Lines[n])
                           /\ \A r \in 0 .. H - 2 :
                                 cell[r] = IF r <= cy THEN Shown(Lines[n - cy + r]) ELSE Shown(<<>>)
    BY IsCalm DEF ScreenShowsLog
  <2>1. Shows(Lines) /\ Lines \in Texts
    BY DEF ScreenInv, Plain, Busy
  <2>2. PICK n : n = Len(Lines)
    OBVIOUS
  <2>3. n \in Nat \ {0} /\ H \in Nat \ {0, 1}
    BY <2>1, <2>2, ScreenAssumption DEF Texts
  <2>4. cx = Len(Lines[n]) /\ cy = (IF n < H THEN n ELSE H - 1) - 1
    BY <2>1, <2>2 DEF Shows, RowsShow, LastRow
  <2>5. ASSUME NEW r \in 0 .. H - 2
        PROVE  cell[r] = IF r <= cy THEN Shown(Lines[n - cy + r]) ELSE Shown(<<>>)
    <3>1. cell[r] = Image(Lines, n - cy + r)
      BY <2>1, <2>2 DEF Shows, RowsShow
    <3>2. n - cy + r \in 1 .. n <=> r <= cy
      BY <2>3, <2>4
    <3>. QED BY <2>2, <3>1, <3>2 DEF Image
  <2>. QED BY <2>2, <2>4, <2>5
<1>. QED BY <1>1, <1>2, <1>3, ConsoleInductive, PTL DEF Spec

=============================================================================
