----------------------------- MODULE MCConsole -----------------------------
(* Small instances of Console.                                             *)
EXTENDS Console, TLC

CONSTANTS p1, p2, irq

Letters == {p1, p2, irq, NL, TAB, BS}

\* Two processes that print lines longer than the screen is wide, until it
\* scrolls, and copy; and an interrupt handler with a '\t' and two '\r'.
PrintScript ==
    p1 :> <<<<p1, p1, p1, NL>>, Copy>> @@ p2 :> <<<<p2, NL>>, Copy, <<p2, p2>>>>
        @@ irq :> <<<<irq, BS, BS, TAB>>, Copy>>

\* The two demonstration tasks, task2 and task3, one line each.
GameScript == p1 :> <<<<p1, NL>>>> @@ p2 :> <<<<p2, NL>>>>

\* Both builds, as far as no section is entered beside another process: what
\* comes after that nothing is said of.
UntilMixed == Init /\ [][~mixed /\ Next]_vars /\ Fairness
=============================================================================
