------------------------------ MODULE Keyboard ------------------------------
(***************************************************************************)
(* The key cache of src/drivers/keyboard.c: keyboard_irq appends what was  *)
(* typed, the shell takes the first key with keyboard_get_key and moves    *)
(* the others up.  m_getkey keeps readers apart, of which there is one     *)
(* (src/kshell.c), and does not keep the interrupt away.                   *)
(***************************************************************************)
EXTENDS Integers, Sequences, SequencesExt

CONSTANTS
    Size,           \* bytes of keycache
    Keys,           \* bound: keys typed
    Other           \* what lies behind the block, somebody else's

ASSUME CacheAssumption == Size \in Nat \ {0} /\ Keys \in Nat
ASSUME OtherAssumption == Other \notin 0 .. Keys

VARIABLES
    keycache,       \* the block, and the memory behind it that Keys keys reach
    key_loc,        \* keys in the cache
    ch,             \* the key keyboard_get_key returns
    label,          \* the reader: before which statement it is
    count, shifted, \* key_loc as it loaded it, bytes the loop has moved
    typed, read,    \* history: bytes appended, bytes taken and returned
    due,            \* history: what the reader is to return, read or not
    waited          \* history: the most keys that were waiting

keyVars == <<keycache, key_loc, ch, label, count, shifted, typed, read, due, waited>>

\* Keys are numbered as they are typed; a scan code without a character,
\* such as most releases, is a 0 in the cache.
Key  == 1 .. Keys
Byte == Key \cup {0, Other}
Cell == 0 .. Size + Keys

KeyTypeOK ==
    /\ keycache \in [Cell -> Byte] /\ key_loc \in 0 .. Keys
    /\ ch \in Byte /\ label \in {"idle", "first", "load", "store", "shift", "out"}
    /\ count \in 0 .. Keys /\ shifted \in 0 .. Size
    /\ {typed, read, due} \subseteq Seq(Byte) /\ waited \in 0 .. Keys

KeyInit ==
    /\ keycache = [c \in Cell |-> IF c < Size THEN 0 ELSE Other]
    /\ key_loc = 0 /\ ch = 0
    /\ label = "idle" /\ count = 0 /\ shifted = 0
    /\ typed = <<>> /\ read = <<>> /\ due = <<>> /\ waited = 0

-----------------------------------------------------------------------------
(* What the key typed while keyboard_get_key runs does to the keys due.    *)
(* Between the load and the store of key_loc it is counted and forgotten.  *)
(* Put where the loop has still to pass, it takes the place of the last    *)
(* key, which was there, and the byte behind it moves to its own; put just *)
(* where the loop is, it is lost to that byte alone.                       *)
Due(k) ==
    CASE label = "store" -> due
      [] label = "shift" /\ shifted <= key_loc ->
             Append(IF shifted < key_loc THEN [due EXCEPT ![Len(due)] = k] ELSE due,
                    keycache[key_loc + 1])
      [] OTHER -> Append(due, k)

\* How many keys wait with it, those about to be forgotten among them.
Waiting(k) == IF label = "store" THEN key_loc + 1 ELSE Len(Due(k)) - Len(read)

Record(k) ==
    /\ typed' = Append(typed, k)
    /\ due' = Due(k)
    /\ waited' = IF Waiting(k) > waited THEN Waiting(k) ELSE waited

\* Mutant: writes behind the place for the next key.
keyboard_irq_skip(k) ==
    /\ Len(typed) < Keys
    /\ keycache' = [keycache EXCEPT ![key_loc + 1] = k]
    /\ key_loc' = key_loc + 1
    /\ Record(k)
    /\ UNCHANGED <<ch, label, count, shifted, read>>

keyboard_irq(k) ==
    /\ Len(typed) < Keys
    /\ keycache' = [keycache EXCEPT ![key_loc] = k]
    /\ key_loc' = key_loc + 1
    /\ Record(k)
    /\ UNCHANGED <<ch, label, count, shifted, read>>

-----------------------------------------------------------------------------
(* keyboard_get_key, with m_getkey held.                                   *)

\* With nothing in the cache 0 is returned at once.
Test ==
    /\ label = "idle"
    /\ ch' = 0
    /\ label' = IF key_loc = 0 THEN "idle" ELSE "first"
    /\ UNCHANGED <<keycache, key_loc, count, shifted, typed, read, due, waited>>

TakeFirst ==
    /\ label = "first" /\ label' = "load"
    /\ ch' = keycache[0]
    /\ UNCHANGED <<keycache, key_loc, count, shifted, typed, read, due, waited>>

\* key_loc--
Load ==
    /\ label = "load" /\ label' = "store"
    /\ count' = key_loc
    /\ UNCHANGED <<keycache, key_loc, ch, shifted, typed, read, due, waited>>

Store ==
    /\ label = "store" /\ label' = "shift" /\ shifted' = 0
    /\ key_loc' = count - 1
    /\ UNCHANGED <<keycache, ch, count, typed, read, due, waited>>

\* Mutant: the loop stops one key early.
ShiftEnd_early == Size - 1

ShiftEnd == Size

Shift ==
    /\ label = "shift" /\ shifted < ShiftEnd
    /\ keycache' = [keycache EXCEPT ![shifted] = keycache[shifted + 1]]
    /\ shifted' = shifted + 1
    /\ UNCHANGED <<key_loc, ch, label, count, typed, read, due, waited>>

ShiftDone ==
    /\ label = "shift" /\ shifted = ShiftEnd /\ label' = "out"
    /\ UNCHANGED <<keycache, key_loc, ch, count, shifted, typed, read, due, waited>>

\* The shell calls again at once for a 0, whether it was in the cache or not.
ReturnKey ==
    /\ label = "out" /\ label' = "idle"
    /\ read' = Append(read, ch)
    /\ UNCHANGED <<keycache, key_loc, ch, count, shifted, typed, due, waited>>

Reader == Test \/ TakeFirst \/ Load \/ Store \/ Shift \/ ShiftDone \/ ReturnKey

KeyNext == Reader \/ \E k \in {0, Len(typed) + 1} : keyboard_irq(k)

KeySpec == KeyInit /\ [][KeyNext]_keyVars

\* The shell polls for ever and is scheduled again and again (NobodyStarves
\* of Tasking).
KeyFairness == WF_keyVars(Reader)

-----------------------------------------------------------------------------
(* What must hold                                                          *)

(* The shell reads what is due, in order, as long as no more than Size + 1 *)
(* keys wait: without a key in one of the two gaps of keyboard_get_key     *)
(* that is what was typed, and each gap costs what Due says and no more.   *)
KeysInOrder == waited <= Size + 1 => IsPrefix(read, due)

(* keyboard_irq writes behind the block, but no byte there changes before  *)
(* that many keys and one more wait; keyboard_get_key changes none.        *)
BehindUntouched == \A c \in Cell : c >= Size /\ c >= waited => keycache[c] = Other

CacheSound == KeyTypeOK /\ KeysInOrder /\ BehindUntouched

(* Every key that is due is read in the end, as long as no more wait.      *)
KeysArrive == <>[](waited > Size + 1 \/ (Len(typed) = Keys => read = due))
=============================================================================
