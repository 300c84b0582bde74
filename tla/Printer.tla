------------------------------ MODULE Printer ------------------------------
(***************************************************************************)
(* What src/display/display.c promises to its callers: each call of        *)
(* kprintf puts its whole message at the end of what was printed before.   *)
(***************************************************************************)
EXTENDS Sequences

CONSTANTS
    Proc,       \* who prints
    Script,     \* what each one prints, in order
    Copy        \* a call that prints nothing (memcpy)

VARIABLES left, out

pvars == <<left, out>>

PInit == left = Script /\ out = <<>>

PrintNext(q) ==
    /\ left[q] # <<>>
    /\ left' = [left EXCEPT ![q] = Tail(@)]
    /\ out' = IF Head(left[q]) = Copy THEN out ELSE out \o Head(left[q])

PSpec == PInit /\ [][\E q \in Proc : PrintNext(q)]_pvars
=============================================================================
