--------------------------- MODULE KeyboardProofs ---------------------------
(***************************************************************************)
(* The key cache for every size and any number of keys.                    *)
(***************************************************************************)
EXTENDS Keyboard, TLAPS

\* Keys returned, and the one in ch.
Taken  == IF label \in {"load", "store", "shift", "out"} THEN Len(read) + 1 ELSE Len(read)
\* The first key in the cache while it is still in two places.
Before == IF label \in {"load", "store"} THEN Len(read) ELSE Taken
\* Keys in the cache; in the gap, as many as were loaded.
InCache == IF label = "store" THEN count ELSE key_loc

\* key_loc counts the keys that are due; only the reader takes any away.
\* In the gap it may have grown since it was loaded.
Counted ==
    /\ InCache = Len(due) - Before
    /\ label \in {"first", "load", "store"} => InCache > 0
    /\ label = "store" => count <= key_loc
    /\ Len(due) <= Len(typed) /\ Len(typed) <= Keys
    /\ key_loc <= Len(typed) /\ key_loc <= waited
    /\ Len(due) - Len(read) <= waited

\* The cache holds what is due and not taken, in order.  While the loop
\* runs the places it has passed hold the key of the place behind them.
InPlace ==
    /\ \A k \in 0 .. InCache - 1 :
           (label = "shift" => k < shifted) => keycache[k] = due[Before + 1 + k]
    /\ label = "shift" => \A k \in shifted + 1 .. InCache : keycache[k] = due[Before + k]
    /\ label \in {"load", "store", "shift", "out"} => ch = due[Taken]

\* What was returned is what was due first.
ReadFirst == Len(read) <= Len(due) /\ \A k \in 1 .. Len(read) : read[k] = due[k]

IInv ==
    /\ KeyTypeOK /\ Counted /\ BehindUntouched
    /\ waited <= Size + 1 => InPlace /\ ReadFirst

-----------------------------------------------------------------------------
LEMMA InitIInv == KeyInit => IInv
<1> SUFFICES ASSUME KeyInit PROVE IInv
  OBVIOUS
<1> USE CacheAssumption DEF KeyInit, Byte, Key
<1>1. KeyTypeOK
  BY DEF KeyTypeOK, Cell
<1>2. Counted /\ InPlace /\ ReadFirst
  BY DEF Counted, InPlace, ReadFirst, Before, Taken, InCache
<1>3. BehindUntouched
  BY DEF BehindUntouched, Cell
<1> QED BY <1>1, <1>2, <1>3 DEF IInv

(* What a key does to the keys that are due.                               *)
LEMMA DueIs ==
    ASSUME KeyTypeOK, Counted, NEW k \in Byte, Len(typed) < Keys
    PROVE  /\ Due(k) \in Seq(Byte)
           /\ label = "store" => Due(k) = due
           /\ label # "store" => /\ Len(Due(k)) = Len(due) + 1
                              /\ \A j \in 1 .. Len(due) - 1 : Due(k)[j] = due[j]
           /\ label # "store" /\ ~(label = "shift" /\ shifted <= key_loc) =>
                  /\ \A j \in 1 .. Len(due) : Due(k)[j] = due[j]
                  /\ Due(k)[Len(due) + 1] = k
           /\ label = "shift" /\ shifted <= key_loc =>
                  /\ Due(k)[Len(due) + 1] = keycache[key_loc + 1]
                  /\ shifted = key_loc => \A j \in 1 .. Len(due) : Due(k)[j] = due[j]
                  /\ shifted < key_loc /\ Len(due) > 0 => Due(k)[Len(due)] = k
<1> USE DEF KeyTypeOK
<1>0. due \in Seq(Byte) /\ Len(due) \in Nat /\ shifted \in Nat /\ key_loc \in Nat
  OBVIOUS
<1>1. CASE label = "store"
  BY <1>0, <1>1 DEF Due
<1>2. CASE label = "shift" /\ shifted <= key_loc
  <2>1. key_loc + 1 \in Cell
    BY CacheAssumption DEF Counted, Cell
  <2>2. PICK v \in Byte : v = keycache[key_loc + 1]
    BY <2>1
  <2>3. PICK w \in Seq(Byte) : /\ w = (IF shifted < key_loc THEN [due EXCEPT ![Len(due)] = k] ELSE due)
                               /\ Len(w) = Len(due)
                               /\ \A j \in 1 .. Len(due) - 1 : w[j] = due[j]
                               /\ shifted = key_loc => w = due
                               /\ shifted < key_loc /\ Len(due) > 0 => w[Len(due)] = k
    <3>1. CASE shifted < key_loc
      <4>1. Len(due) \in 1 .. Len(due)
        BY <1>0, <1>2, <3>1 DEF Counted, InCache, Before, Taken
      <4>2. [due EXCEPT ![Len(due)] = k] \in Seq(Byte)
        BY <1>0, <4>1
      <4>3. Len([due EXCEPT ![Len(due)] = k]) = Len(due)
        BY <1>0, <4>1
      <4>4. \A j \in 1 .. Len(due) - 1 : [due EXCEPT ![Len(due)] = k][j] = due[j]
        BY <1>0, <4>1
      <4>5. [due EXCEPT ![Len(due)] = k][Len(due)] = k
        BY <1>0, <4>1
      <4>6. ~(shifted = key_loc)
        BY <3>1, <1>0
      <4> DEFINE w == [due EXCEPT ![Len(due)] = k]
      <4>7. w = (IF shifted < key_loc THEN w ELSE due)
        BY <3>1
      <4> HIDE DEF w
      <4> QED BY <4>2, <4>3, <4>4, <4>5, <4>6, <4>7 DEF w
    <3>2. CASE ~(shifted < key_loc)
      BY <1>0, <3>2
    <3> QED BY <3>1, <3>2
  <2>4. Due(k) = Append(w, v)
    BY <1>2, <2>2, <2>3 DEF Due
  <2>5. /\ Append(w, v) \in Seq(Byte) /\ Len(Append(w, v)) = Len(w) + 1
        /\ Append(w, v)[Len(w) + 1] = v
        /\ \A j \in 1 .. Len(w) : Append(w, v)[j] = w[j]
    <3>1. Append(w, v) \in Seq(Byte) /\ Len(Append(w, v)) = Len(w) + 1
      OBVIOUS
    <3>2. Append(w, v)[Len(w) + 1] = v
      OBVIOUS
    <3>3. \A j \in 1 .. Len(w) : Append(w, v)[j] = w[j]
      OBVIOUS
    <3> QED BY <3>1, <3>2, <3>3
  <2>6. /\ \A j \in 1 .. Len(due) - 1 : j \in 1 .. Len(due)
        /\ Len(due) > 0 => Len(due) \in 1 .. Len(due)
    BY <1>0
  <2> QED BY <1>0, <1>2, <2>2, <2>3, <2>4, <2>5, <2>6
<1>3. CASE label # "store" /\ ~(label = "shift" /\ shifted <= key_loc)
  <2>1. Due(k) = Append(due, k)
    BY <1>3 DEF Due
  <2> QED BY <1>0, <1>3, <2>1
<1> QED BY <1>1, <1>2, <1>3

(* An interrupt appends: its key is counted, written at key_loc, and, but  *)
(* for the gap of key_loc, is due or makes another byte due.               *)
LEMMA KeyStep ==
    ASSUME IInv, NEW k \in {0, Len(typed) + 1}, keyboard_irq(k)
    PROVE  (KeyTypeOK /\ Counted /\ BehindUntouched)'
<1> USE CacheAssumption
<1>1. /\ KeyTypeOK /\ Counted /\ BehindUntouched /\ Len(typed) < Keys /\ k \in Byte
      /\ k # Other
  BY OtherAssumption DEF IInv, KeyTypeOK, keyboard_irq, Byte, Key
<1>2. /\ typed \in Seq(Byte) /\ due \in Seq(Byte) /\ read \in Seq(Byte)
      /\ key_loc \in Nat /\ count \in Nat /\ shifted \in Nat /\ waited \in 0 .. Keys
      /\ Len(typed) \in Nat /\ Len(due) \in Nat /\ Len(read) \in Nat /\ Keys \in Nat
  BY <1>1 DEF KeyTypeOK
<1>3. /\ typed' = Append(typed, k) /\ due' = Due(k) /\ key_loc' = key_loc + 1
      /\ keycache' = [keycache EXCEPT ![key_loc] = k]
      /\ UNCHANGED <<ch, label, count, shifted, read>>
  BY DEF keyboard_irq, Record
<1>4. /\ typed' \in Seq(Byte) /\ Len(typed') = Len(typed) + 1 /\ due' \in Seq(Byte)
      /\ Len(due') = IF label = "store" THEN Len(due) ELSE Len(due) + 1
  BY <1>1, <1>2, <1>3, DueIs
<1>5. PICK n \in Int : n = Waiting(k) /\ n = (IF label = "store" THEN key_loc + 1 ELSE Len(due') - Len(read))
  <2>1. Len(due') \in Nat
    BY <1>4
  <2>2. Waiting(k) = (IF label = "store" THEN key_loc + 1 ELSE Len(due') - Len(read))
    BY <1>3 DEF Waiting
  <2>3. Waiting(k) \in Int
    BY <2>1, <2>2, <1>2
  <2> QED BY <2>2, <2>3
<1>6. waited' = IF n > waited THEN n ELSE waited
  BY <1>5 DEF keyboard_irq, Record
<1>7. Before' = Before /\ Before \in {Len(read), Len(read) + 1}
  BY <1>2, <1>3 DEF Before, Taken
<1>8. InCache' = (IF label = "store" THEN InCache ELSE InCache + 1)
  BY <1>3 DEF InCache
<1>9. InCache = Len(due) - Before /\ Len(due) <= Len(typed) /\ key_loc <= Len(typed) /\ key_loc <= waited
      /\ Len(due) - Len(read) <= waited
  BY <1>1 DEF Counted
<1>10. label # "store" => key_loc + 1 <= n
  BY <1>2, <1>4, <1>5, <1>7, <1>9 DEF InCache
<1>11. n <= Keys /\ waited' \in 0 .. Keys /\ waited' >= n /\ waited' >= waited
  BY <1>1, <1>2, <1>4, <1>5, <1>6, <1>9
<1>12. key_loc' <= waited' /\ Len(due') - Len(read') <= waited'
  BY <1>2, <1>3, <1>4, <1>5, <1>9, <1>10, <1>11
<1>13. Counted'
  <2>1. /\ label \in {"first", "load", "store"} => InCache > 0
        /\ label = "store" => count <= key_loc
    BY <1>1 DEF Counted
  <2>2. InCache \in Nat /\ Before \in Nat
    BY <1>2, <1>7 DEF InCache
  <2>3. InCache' = Len(due') - Before'
    BY <2>2, <1>2, <1>4, <1>7, <1>8, <1>9
  <2>4. label' \in {"first", "load", "store"} => InCache' > 0
    BY <2>1, <2>2, <1>3, <1>8
  <2>5. label' = "store" => count' <= key_loc'
    BY <2>1, <1>2, <1>3
  <2>6. Len(due') <= Len(typed') /\ Len(typed') <= Keys /\ key_loc' <= Len(typed')
    BY <1>1, <1>2, <1>3, <1>4, <1>9
  <2> QED BY <2>3, <2>4, <2>5, <2>6, <1>12 DEF Counted
<1>14. keycache' \in [Cell -> Byte]
  BY <1>1, <1>3 DEF KeyTypeOK
<1>15. key_loc' \in 0 .. Keys
  BY <1>1, <1>2, <1>3, <1>9
<1>16. KeyTypeOK'
  BY <1>1, <1>3, <1>4, <1>2, <1>11, <1>14, <1>15 DEF KeyTypeOK
<1>17. BehindUntouched'
  <2> SUFFICES ASSUME NEW c \in Cell, c >= Size, c >= waited' PROVE keycache'[c] = Other
    BY DEF BehindUntouched
  <2>1. c \in Nat /\ c # key_loc /\ c >= waited
    BY <1>2, <1>3, <1>11, <1>12 DEF Cell
  <2>2. keycache[c] = Other
    BY <1>1, <2>1 DEF BehindUntouched
  <2> QED BY <1>1, <1>3, <2>1, <2>2 DEF KeyTypeOK
<1> QED BY <1>13, <1>16, <1>17

(* The keys stay in place: behind the others, or where the gaps put them.  *)
LEMMA TypedStep ==
    ASSUME IInv, NEW k \in {0, Len(typed) + 1}, keyboard_irq(k), waited' <= Size + 1
    PROVE  (InPlace /\ ReadFirst)'
<1> USE CacheAssumption
<1>1. /\ KeyTypeOK /\ Counted /\ Len(typed) < Keys /\ k \in Byte
  BY DEF IInv, KeyTypeOK, keyboard_irq, Byte, Key
<1>2. /\ typed \in Seq(Byte) /\ due \in Seq(Byte) /\ read \in Seq(Byte)
      /\ key_loc \in Nat /\ count \in Nat /\ shifted \in 0 .. Size /\ waited \in Nat
      /\ Len(typed) \in Nat /\ Len(due) \in Nat /\ Len(read) \in Nat
  BY <1>1 DEF KeyTypeOK
<1>3. /\ due' = Due(k) /\ key_loc' = key_loc + 1
      /\ keycache' = [keycache EXCEPT ![key_loc] = k]
      /\ UNCHANGED <<ch, label, count, shifted, read>>
  BY DEF keyboard_irq, Record
<1>4. waited' = (IF Waiting(k) > waited THEN Waiting(k) ELSE waited) /\ Waiting(k) \in Int
  BY <1>1, <1>2, DueIs DEF keyboard_irq, Record, Waiting
<1>5. InPlace /\ ReadFirst
  BY <1>2, <1>4 DEF IInv
<1>6. Before' = Before /\ Taken' = Taken /\ Before \in Nat /\ Taken \in Nat
  BY <1>2, <1>3 DEF Before, Taken
<1>7. InCache \in Nat /\ InCache = Len(due) - Before /\ InCache' = (IF label = "store" THEN InCache ELSE InCache + 1)
  BY <1>1, <1>2, <1>3 DEF InCache, Counted
<1>8. /\ \A j \in 0 .. InCache - 1 : (label = "shift" => j < shifted) => keycache[j] = due[Before + 1 + j]
      /\ label = "shift" => \A j \in shifted + 1 .. InCache : keycache[j] = due[Before + j]
      /\ label \in {"load", "store", "shift", "out"} => ch = due[Taken]
      /\ Len(read) <= Len(due) /\ \A j \in 1 .. Len(read) : read[j] = due[j]
  BY <1>5 DEF InPlace, ReadFirst
<1>9. /\ keycache'[key_loc] = k
      /\ \A j \in Cell \ {key_loc} : keycache'[j] = keycache[j]
      /\ 0 .. key_loc + 1 \subseteq Cell
  <2>1. keycache \in [Cell -> Byte] /\ key_loc \in Cell /\ 0 .. key_loc + 1 \subseteq Cell
    BY <1>1, <1>2 DEF KeyTypeOK, Counted, Cell
  <2> QED BY <1>3, <2>1
<1>10. \A j \in 0 .. key_loc + 1 : j # key_loc => keycache'[j] = keycache[j]
  BY <1>9
<1>11. CASE label = "store"
  <2>1. due' = due /\ InCache' = InCache /\ InCache = count /\ count > 0
    BY <1>1, <1>3, <1>7, <1>11, DueIs DEF InCache, Counted
  <2>2. count <= key_loc
    BY <1>1, <1>11 DEF Counted
  <2>3. \A j \in 0 .. count - 1 : j \in 0 .. key_loc + 1 /\ j # key_loc
    BY <2>2, <1>2
  <2>4. InPlace'
    BY <2>1, <2>3, <1>3, <1>6, <1>8, <1>10, <1>11 DEF InPlace
  <2>5. ReadFirst'
    BY <2>1, <1>3, <1>8 DEF ReadFirst
  <2> QED BY <2>4, <2>5
<1>12. CASE label # "store" /\ ~(label = "shift" /\ shifted <= key_loc)
  <2>1. /\ InCache = key_loc /\ InCache' = key_loc + 1
        /\ Before + key_loc = Len(due)
        /\ label \in {"load", "store", "shift", "out"} => Taken \in 1 .. Len(due)
    BY <1>1, <1>2, <1>7, <1>12 DEF InCache, Counted, Before, Taken
  <2>2. /\ \A j \in 1 .. Len(due) : due'[j] = due[j]
        /\ due'[Before + 1 + key_loc] = k
        /\ Len(due') = Len(due) + 1
    <3>1. Before + 1 + key_loc = Len(due) + 1
      BY <2>1, <1>2, <1>6
    <3> QED BY <3>1, <1>1, <1>3, <1>12, DueIs
  <2>3. \A j \in 0 .. InCache' - 1 :
            (label' = "shift" => j < shifted') => keycache'[j] = due'[Before' + 1 + j]
    <3> SUFFICES ASSUME NEW j \in 0 .. key_loc, j # key_loc, label = "shift" => j < shifted
                 PROVE  keycache'[j] = due'[Before + 1 + j]
      <4>1. (key_loc + 1) - 1 = key_loc
        BY <1>2
      <4> QED BY <4>1, <2>1, <2>2, <1>3, <1>6, <1>9
    <3>1. j \in 0 .. InCache - 1 /\ Before + 1 + j \in 1 .. Len(due) /\ j \in 0 .. key_loc + 1
      BY <2>1, <1>2, <1>6
    <3> QED BY <3>1, <2>2, <1>8, <1>10
  <2>4. label' = "shift" => \A j \in shifted' + 1 .. InCache' : keycache'[j] = due'[Before' + j]
    BY <2>1, <1>2, <1>3, <1>12
  <2>5. label' \in {"load", "store", "shift", "out"} => ch' = due'[Taken']
    BY <2>1, <2>2, <1>3, <1>6, <1>8
  <2>6. ReadFirst'
    BY <2>2, <1>2, <1>3, <1>8 DEF ReadFirst
  <2> QED BY <2>3, <2>4, <2>5, <2>6 DEF InPlace
<1>13. CASE label = "shift" /\ shifted <= key_loc
  <2>1. /\ InCache = key_loc /\ InCache' = key_loc + 1
        /\ Before + key_loc = Len(due) /\ Before = Taken /\ Taken = Len(read) + 1
    BY <1>1, <1>2, <1>7, <1>13 DEF InCache, Counted, Before, Taken
  <2>2. /\ \A j \in 1 .. Len(due) - 1 : due'[j] = due[j]
        /\ shifted = key_loc => due'[Len(due)] = due[Len(due)]
        /\ shifted < key_loc => due'[Len(due)] = k
        /\ due'[Before + (key_loc + 1)] = keycache[key_loc + 1]
        /\ Len(due') = Len(due) + 1
    <3>1. Before + (key_loc + 1) = Len(due) + 1 /\ Len(due) > 0
      BY <2>1, <1>2, <1>6
    <3>2. Len(due') = Len(due) + 1 /\ \A j \in 1 .. Len(due) - 1 : due'[j] = due[j]
      BY <1>1, <1>3, <1>13, DueIs
    <3>3. /\ due'[Len(due) + 1] = keycache[key_loc + 1]
          /\ shifted = key_loc => \A j \in 1 .. Len(due) : due'[j] = due[j]
          /\ shifted < key_loc => due'[Len(due)] = k
      BY <3>1, <1>1, <1>3, <1>13, DueIs
    <3>4. Len(due) \in 1 .. Len(due)
      BY <3>1, <1>2
    <3> QED BY <3>1, <3>2, <3>3, <3>4
  <2>3. \A j \in 1 .. Len(due) : j < Before + key_loc \/ shifted = key_loc => due'[j] = due[j]
    BY <2>1, <2>2, <1>2
  <2>4. \A j \in 0 .. InCache' - 1 :
            (label' = "shift" => j < shifted') => keycache'[j] = due'[Before' + 1 + j]
    <3>. label' = "shift" /\ shifted' = shifted /\ Before' = Before /\ InCache' - 1 = key_loc
      BY <2>1, <1>2, <1>3, <1>6, <1>13
    <3> SUFFICES ASSUME NEW j \in 0 .. key_loc, j < shifted
                 PROVE  keycache'[j] = due'[Before + 1 + j]
      OBVIOUS
    <3>1. /\ j \in 0 .. InCache - 1 /\ j \in 0 .. key_loc + 1 /\ j # key_loc
          /\ Before + 1 + j \in 1 .. Len(due)
          /\ Before + 1 + j < Before + key_loc \/ shifted = key_loc
      BY <2>1, <1>2, <1>6, <1>13
    <3> QED BY <3>1, <2>3, <1>8, <1>10
  <2>5. label' = "shift" => \A j \in shifted' + 1 .. InCache' : keycache'[j] = due'[Before' + j]
    <3> SUFFICES ASSUME NEW j \in shifted + 1 .. key_loc + 1 PROVE keycache'[j] = due'[Before + j]
      BY <2>1, <1>3, <1>6
    <3>1. CASE j = key_loc + 1
      BY <3>1, <2>2, <1>2, <1>10
    <3>2. CASE j = key_loc
      <4>1. shifted < key_loc /\ Before + j = Len(due)
        BY <3>2, <2>1, <1>2
      <4> QED BY <3>2, <4>1, <2>2, <1>9
    <3>3. CASE j < key_loc
      <4>1. /\ j \in shifted + 1 .. InCache /\ j \in 0 .. key_loc + 1 /\ j # key_loc
            /\ Before + j \in 1 .. Len(due) /\ Before + j < Before + key_loc
        BY <3>3, <2>1, <1>2, <1>6
      <4> QED BY <4>1, <2>3, <1>8, <1>10, <1>13
    <3> QED BY <3>1, <3>2, <3>3, <1>2
  <2>6. /\ ch' = due'[Taken'] /\ \A j \in 1 .. Len(read) : due'[j] = due[j]
    <3>1. Taken \in 1 .. Len(due) /\ (Taken < Before + key_loc \/ shifted = key_loc)
      BY <2>1, <1>2, <1>6, <1>13
    <3>2. \A j \in 1 .. Len(read) : j \in 1 .. Len(due) /\ (j < Before + key_loc \/ shifted = key_loc)
      BY <2>1, <1>2, <1>6, <1>13
    <3> QED BY <3>1, <3>2, <2>3, <1>3, <1>6, <1>8, <1>13
  <2>7. ReadFirst'
    BY <2>2, <2>6, <1>2, <1>3, <1>8 DEF ReadFirst
  <2> QED BY <2>4, <2>5, <2>6, <2>7 DEF InPlace
<1> QED BY <1>2, <1>11, <1>12, <1>13

-----------------------------------------------------------------------------
(* A statement of keyboard_get_key counts the keys right and touches       *)
(* nothing behind the block.                                               *)
LEMMA ReaderTypes ==
    ASSUME IInv, Reader
    PROVE  (KeyTypeOK /\ Counted /\ BehindUntouched)'
<1> USE CacheAssumption
<1>1. KeyTypeOK /\ Counted /\ BehindUntouched
  BY DEF IInv
<1>2. /\ key_loc \in 0 .. Keys /\ count \in 0 .. Keys /\ shifted \in 0 .. Size /\ waited \in 0 .. Keys
      /\ read \in Seq(Byte) /\ ch \in Byte
      /\ Len(typed) \in Nat /\ Len(due) \in Nat /\ Len(read) \in Nat
      /\ keycache \in [Cell -> Byte] /\ Keys \in Nat
  BY <1>1 DEF KeyTypeOK
<1>3. ASSUME Test \/ TakeFirst \/ Load \/ ShiftDone
      PROVE  (KeyTypeOK /\ Counted /\ BehindUntouched)'
  <2>1. keycache[0] \in Byte /\ 0 \in Byte
    BY <1>2 DEF Cell, Byte
  <2>2. KeyTypeOK'
    BY <1>1, <1>2, <1>3, <2>1 DEF KeyTypeOK, Test, TakeFirst, Load, ShiftDone
  <2>3. Counted'
    <3>1. CASE Test
      BY <1>1, <1>2, <3>1 DEF Counted, InCache, Before, Taken, Test
    <3>2. CASE TakeFirst \/ ShiftDone
      BY <1>1, <1>2, <3>2 DEF Counted, InCache, Before, Taken, TakeFirst, ShiftDone
    <3>3. CASE Load
      BY <1>1, <1>2, <3>3 DEF Counted, InCache, Before, Taken, Load
    <3> QED BY <1>3, <3>1, <3>2, <3>3
  <2>4. BehindUntouched'
    BY <1>1, <1>3 DEF BehindUntouched, Test, TakeFirst, Load, ShiftDone
  <2> QED BY <2>2, <2>3, <2>4
<1>4. ASSUME Store
      PROVE  (KeyTypeOK /\ Counted /\ BehindUntouched)'
  <2>1. count > 0 /\ count <= key_loc /\ key_loc' \in 0 .. Keys
    BY <1>1, <1>2, <1>4 DEF Counted, InCache, Store
  <2>2. KeyTypeOK'
    BY <1>1, <2>1, <1>4 DEF KeyTypeOK, Store
  <2>3. Counted'
    BY <1>1, <1>2, <1>4, <2>1 DEF Counted, InCache, Before, Taken, Store
  <2>4. BehindUntouched'
    BY <1>1, <1>4 DEF BehindUntouched, Store
  <2> QED BY <2>2, <2>3, <2>4
<1>5. ASSUME Shift
      PROVE  (KeyTypeOK /\ Counted /\ BehindUntouched)'
  <2>1. /\ shifted < Size /\ shifted \in Cell /\ shifted + 1 \in Cell /\ shifted' = shifted + 1 /\ shifted' \in 0 .. Size
        /\ keycache' = [keycache EXCEPT ![shifted] = keycache[shifted + 1]]
        /\ UNCHANGED <<key_loc, ch, label, count, typed, read, due, waited>>
    BY <1>2, <1>5 DEF Shift, ShiftEnd, Cell
  <2>2. keycache' \in [Cell -> Byte] /\ \A c \in Cell : c >= Size => keycache'[c] = keycache[c]
    BY <2>1, <1>2 DEF Cell
  <2>3. KeyTypeOK'
    BY <1>1, <2>1, <2>2 DEF KeyTypeOK
  <2>4. Counted'
    BY <1>1, <2>1 DEF Counted, InCache, Before, Taken
  <2>5. BehindUntouched'
    BY <1>1, <2>1, <2>2 DEF BehindUntouched
  <2> QED BY <2>3, <2>4, <2>5
<1>6. ASSUME ReturnKey
      PROVE  (KeyTypeOK /\ Counted /\ BehindUntouched)'
  <2>1. /\ label = "out" /\ label' = "idle" /\ read' \in Seq(Byte) /\ Len(read') = Len(read) + 1
        /\ UNCHANGED <<keycache, key_loc, ch, count, shifted, typed, due, waited>>
    BY <1>2, <1>6 DEF ReturnKey
  <2>2. KeyTypeOK'
    BY <1>1, <2>1 DEF KeyTypeOK
  <2>3. Counted'
    BY <1>1, <1>2, <2>1 DEF Counted, InCache, Before, Taken
  <2>4. BehindUntouched'
    BY <1>1, <2>1 DEF BehindUntouched
  <2> QED BY <2>2, <2>3, <2>4
<1> QED BY <1>3, <1>4, <1>5, <1>6 DEF Reader

(* Each statement of keyboard_get_key keeps the keys in place.             *)
LEMMA ReaderStep ==
    ASSUME IInv, Reader, waited <= Size + 1
    PROVE  (InPlace /\ ReadFirst)'
<1> USE CacheAssumption
<1>0. KeyTypeOK /\ InPlace /\ ReadFirst /\ Counted
  BY DEF IInv
<1>1. /\ keycache \in [Cell -> Byte] /\ key_loc \in Nat /\ count \in Nat /\ shifted \in 0 .. Size
      /\ due \in Seq(Byte) /\ read \in Seq(Byte) /\ Len(due) \in Nat /\ Len(read) \in Nat
      /\ label \in {"idle", "first", "load", "store", "shift", "out"}
  BY <1>0 DEF KeyTypeOK
<1>9. waited \in Nat
  BY <1>0 DEF KeyTypeOK
<1>2. CASE Test
  BY <1>0, <1>1, <1>2 DEF Test, InPlace, ReadFirst, Before, Taken, InCache
<1>3. CASE TakeFirst
  <2>1. /\ label = "first" /\ label' = "load" /\ ch' = keycache[0]
        /\ UNCHANGED <<keycache, key_loc, count, due, read>>
    BY <1>3 DEF TakeFirst
  <2>2. Taken' = Len(read) + 1 /\ Before = Len(read) /\ Before' = Len(read)
    BY <2>1 DEF Before, Taken
  <2>3. 0 \in 0 .. InCache - 1 /\ label # "shift" /\ InCache' = InCache
    BY <2>1, <1>0, <1>1 DEF Counted, InCache
  <2>4. keycache[0] = due[Before + 1 + 0]
    BY <2>3, <1>0 DEF InPlace
  <2>5. keycache[0] = due[Len(read) + 1]
    BY <2>2, <2>4, <1>1
  <2> QED BY <2>1, <2>2, <2>3, <2>5, <1>0, <1>1 DEF InPlace, ReadFirst
<1>4. CASE Load
  BY <1>0, <1>1, <1>4 DEF Load, InPlace, ReadFirst, Before, Taken, InCache
<1>5. CASE Store
  <2>1. /\ label = "store" /\ label' = "shift" /\ shifted' = 0 /\ key_loc' = count - 1
        /\ UNCHANGED <<keycache, ch, due, read>>
    BY <1>5 DEF Store
  <2>2. Taken' = Len(read) + 1 /\ Taken = Len(read) + 1 /\ Before = Len(read) /\ Before' = Len(read) + 1
    BY <2>1 DEF Before, Taken
  <2>3. InCache = count /\ InCache' = count - 1 /\ ch = due[Taken]
    BY <2>1, <1>0 DEF InPlace, InCache
  <2>4. \A k \in 0 .. count - 1 : keycache[k] = due[Len(read) + 1 + k]
    BY <2>1, <2>2, <2>3, <1>0 DEF InPlace
  <2>5. \A k \in 0 + 1 .. count - 1 : keycache[k] = due[Len(read) + 1 + k]
    BY <2>3, <2>4, <1>1
  <2> QED BY <2>1, <2>2, <2>3, <2>4, <2>5, <1>0, <1>1 DEF InPlace, ReadFirst
<1>6. CASE Shift
  <2>1. /\ label = "shift" /\ label' = "shift" /\ shifted < Size /\ shifted' = shifted + 1
        /\ keycache' = [keycache EXCEPT ![shifted] = keycache[shifted + 1]]
        /\ UNCHANGED <<key_loc, ch, count, due, read>>
    BY <1>6 DEF Shift, ShiftEnd
  <2>2. /\ Taken' = Taken /\ Before' = Before /\ Before = Len(read) + 1 /\ Taken = Len(read) + 1
        /\ InCache = key_loc /\ InCache' = key_loc
    BY <2>1 DEF Before, Taken, InCache
  <2>3. /\ keycache'[shifted] = keycache[shifted + 1]
        /\ \A j \in 0 .. key_loc : j # shifted => keycache'[j] = keycache[j]
    BY <2>1, <1>0, <1>1 DEF KeyTypeOK, Cell
  <2>4. /\ \A j \in 0 .. key_loc - 1 : j < shifted => keycache[j] = due[Before + 1 + j]
        /\ \A j \in shifted + 1 .. key_loc : keycache[j] = due[Before + j]
    BY <2>1, <2>2, <1>0 DEF InPlace
  <2>5. \A j \in 0 .. key_loc - 1 : j < shifted + 1 => keycache'[j] = due[Before + 1 + j]
    <3> SUFFICES ASSUME NEW j \in 0 .. key_loc - 1, j < shifted + 1
                 PROVE  keycache'[j] = due[Before + 1 + j]
      OBVIOUS
    <3>1. CASE j = shifted
      <4>1. shifted + 1 \in shifted + 1 .. key_loc
        BY <3>1, <1>1
      <4>2. keycache[shifted + 1] = due[Before + (shifted + 1)]
        BY <2>4, <4>1
      <4>3. Before + (shifted + 1) = Before + 1 + shifted
        BY <2>2, <1>1
      <4> QED BY <3>1, <4>2, <4>3, <2>3
    <3>2. CASE j # shifted
      BY <3>2, <2>3, <2>4, <1>1
    <3> QED BY <3>1, <3>2
  <2>6. \A j \in (shifted + 1) + 1 .. key_loc : keycache'[j] = due[Before + j]
    BY <2>3, <2>4, <1>1
  <2> QED BY <2>1, <2>2, <2>5, <2>6, <1>0 DEF InPlace, ReadFirst
<1>7. CASE ShiftDone
  <2>1. /\ label = "shift" /\ label' = "out" /\ shifted = Size
        /\ UNCHANGED <<keycache, key_loc, ch, count, due, read>>
    BY <1>7 DEF ShiftDone, ShiftEnd
  <2>2. /\ Taken' = Taken /\ Before' = Before /\ Before = Len(read) + 1
        /\ InCache = key_loc /\ InCache' = key_loc
    BY <2>1 DEF Before, Taken, InCache
  <2>3. key_loc <= Size
    BY <2>1, <2>2, <1>0, <1>1, <1>9 DEF Counted
  <2>4. \A j \in 0 .. key_loc - 1 : j < shifted
    BY <2>1, <2>3, <1>1
  <2> QED BY <2>1, <2>2, <2>4, <1>0, <1>1 DEF InPlace, ReadFirst
<1>8. CASE ReturnKey
  <2>1. /\ label = "out" /\ label' = "idle" /\ read' = Append(read, ch)
        /\ UNCHANGED <<keycache, key_loc, count, due>>
    BY <1>8 DEF ReturnKey
  <2>2. /\ Taken = Len(read) + 1 /\ Before = Len(read) + 1 /\ Len(read') = Len(read) + 1
        /\ Taken' = Len(read) + 1 /\ Before' = Len(read) + 1
        /\ InCache = key_loc /\ InCache' = key_loc
    BY <2>1, <1>1 DEF Before, Taken, InCache
  <2>3. ch = due[Len(read) + 1] /\ key_loc = Len(due) - (Len(read) + 1)
    BY <2>1, <2>2, <1>0 DEF InPlace, Counted
  <2>4. /\ read'[Len(read) + 1] = ch /\ \A j \in 1 .. Len(read) : read'[j] = read[j]
    BY <2>1, <1>1, <1>0 DEF KeyTypeOK
  <2>5. ReadFirst'
    BY <2>1, <2>2, <2>3, <2>4, <1>0, <1>1 DEF ReadFirst
  <2>6. InPlace'
    BY <2>1, <2>2, <1>0, <1>1 DEF InPlace
  <2> QED BY <2>5, <2>6
<1> QED BY <1>2, <1>3, <1>4, <1>5, <1>6, <1>7, <1>8 DEF Reader

-----------------------------------------------------------------------------
(* The cache holds what is due and not yet taken, at every statement of    *)
(* keyboard_get_key and after every interrupt, those in the gaps included. *)
THEOREM KeyboardInductive == KeySpec => []IInv
<1>1. IInv /\ [KeyNext]_keyVars => IInv'
  <2> SUFFICES ASSUME IInv, [KeyNext]_keyVars PROVE IInv'
    OBVIOUS
  <2>1. CASE UNCHANGED keyVars
    BY <2>1 DEF keyVars, IInv, KeyTypeOK, Counted, BehindUntouched, InPlace, ReadFirst,
                Before, Taken, InCache
  <2>2. CASE Reader
    <3>1. waited' = waited
      BY <2>2 DEF Reader, Test, TakeFirst, Load, Store, Shift, ShiftDone, ReturnKey
    <3> QED BY <2>2, <3>1, ReaderTypes, ReaderStep DEF IInv
  <2>3. ASSUME NEW k \in {0, Len(typed) + 1}, keyboard_irq(k) PROVE IInv'
    BY <2>3, KeyStep, TypedStep DEF IInv
  <2> QED BY <2>1, <2>2, <2>3 DEF KeyNext
<1> QED BY <1>1, InitIInv, PTL DEF KeySpec

(* While no more than Size + 1 keys wait the shell reads those due, in     *)
(* order, without loss or repetition; and until then nothing behind the    *)
(* block is written but the one byte of the last of them.                  *)
THEOREM KeysStayInOrder == KeySpec => []CacheSound
<1>1. IInv => CacheSound
  <2> SUFFICES ASSUME IInv, waited <= Size + 1 PROVE IsPrefix(read, due)
    BY DEF IInv, CacheSound, KeysInOrder
  <2>1. read \in Seq(Byte) /\ due \in Seq(Byte) /\ ReadFirst
    BY DEF IInv, KeyTypeOK
  <2> QED BY <2>1 DEF ReadFirst, IsPrefix
<1> QED BY <1>1, KeyboardInductive, PTL
=============================================================================
