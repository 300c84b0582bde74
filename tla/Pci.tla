-------------------------------- MODULE Pci --------------------------------
(***************************************************************************)
(* The walk over the PCI bus and the reading of base address registers:    *)
(* pci_init, pci_visit, pci_get_bar and the accesses to the configuration  *)
(* space they are built from (src/drivers/pci.c), with the registers of    *)
(* the functions that are there.                                           *)
(*                                                                         *)
(* A register has two halves of HalfBits bits: an address is written in    *)
(* full, a value with outportw and so into its lower half.  A 64-bit       *)
(* address takes two registers, BAR 0 and BAR 1.  "pci" is one             *)
(* process and the only user of the two ports: a write of the address port *)
(* and the access of the data port that follows are one step.              *)
(***************************************************************************)
EXTENDS Integers, Sequences, FiniteSets

CONSTANTS
    HalfBits,               \* 16 on the machine
    Devices, Functions,     \* of the one bus: 0 .. 31 and 0 .. 7
    Bars,                   \* functions: [card, io, wide, base, size], of BAR 0
    Mac                     \* a card's hardware address, as three words

Half == 2 ^ HalfBits
Full == Half * Half

\* A size is a power of two, and an address a multiple of it that does not
\* reach behind the last one.  The firmware has given every card an address,
\* and ports are fewer than half a word counts.
ASSUME PciAssumption ==
    /\ HalfBits \in Nat /\ Devices \in Nat \ {0} /\ Functions \in Nat \ {0}
    /\ Half \in Nat \ {0} /\ Half % 16 = 0
    /\ \A b \in Bars :
          /\ b.card \in BOOLEAN /\ b.io \in BOOLEAN /\ b.wide \in BOOLEAN
          /\ b.base \in Nat /\ b.size \in Nat \ {0} /\ b.base + b.size <= Full
          /\ b.base % b.size = 0 /\ b.size % (IF b.io THEN 4 ELSE 16) = 0
          /\ Half % b.size = 0 \/ b.size % Half = 0
          /\ b.card => b.base > 0
          /\ b.io => b.size < Half /\ ~ b.wide

Dev  == 0 .. Devices - 1
Func == 0 .. Functions - 1
Id   == Dev \X Func

VARIABLES
    there,                  \* the functions that are there: id -> function, and which devices are multi-function
    bar, bar1,              \* id -> what its BAR 0 and BAR 1 hold
    pc, dev, func, funcCount,
    low, high,              \* addressLow and addressHigh of pci_get_bar
    ral,                    \* does the card show its address in RAL, too?
    found                   \* the functions set up, in order
pciVars == <<there, bar, bar1, pc, dev, func, funcCount, low, high, ral, found>>

id == <<dev, func>>
Present(i) == i \in DOMAIN there.bars

\* A base address with its flags in the low bits.
FlagBits(b) == IF b.io THEN 1 ELSE IF b.wide THEN 4 ELSE 0
Register(b) == b.base + FlagBits(b)

\* External: a function keeps the bits of an address above its size, and all
\* of the upper word of a 64-bit one.  The others have no BAR 1.
Kept(b, value)  == value - (value % b.size) + FlagBits(b)
Kept1(b, value) == IF b.wide THEN value ELSE 0

PciInit ==
    /\ \E ids \in SUBSET Id, multi \in SUBSET Dev :
          \E bars \in [ids -> Bars] :
             \* a function other than 0 is only behind a function 0 that says so
             /\ \A i \in ids : i[2] # 0 => i[1] \in multi /\ <<i[1], 0>> \in ids
             /\ there = [bars |-> bars, multi |-> multi]
             /\ bar = [i \in ids |-> Register(bars[i])]
             \* the firmware's addresses are below the end of one word
             /\ bar1 = [i \in ids |-> 0]
    /\ pc = "header" /\ dev = 0 /\ func = 0 /\ funcCount = 0
    /\ low = 0 /\ high = 0 /\ ral \in BOOLEAN /\ found = <<>>

-----------------------------------------------------------------------------
(* Configuration space                                                     *)

\* What is read where nothing is.
Absent == Full - 1

\* Mutant: the lower half is cleared instead of written.
Written_cleared(i, value) == Kept(there.bars[i], bar[i] - (bar[i] % Half))

\* pci_write32: the upper half stays as it is.
Written(i, value) == Kept(there.bars[i], bar[i] - (bar[i] % Half) + (value % Half))

Written1(i, value) == Kept1(there.bars[i], bar1[i] - (bar1[i] % Half) + (value % Half))

-----------------------------------------------------------------------------
(* The walk                                                                *)

\* pci_init reads the header type of function 0: all ones has the bit set.
Header ==
    /\ pc = "header"
    /\ funcCount' = IF ~Present(<<dev, 0>>) \/ dev \in there.multi THEN Functions ELSE 1
    /\ func' = 0 /\ pc' = "vendor"
    /\ UNCHANGED <<there, bar, bar1, dev, low, high, ral, found>>

NextFunction ==
    IF func + 1 < funcCount THEN func' = func + 1 /\ pc' = "vendor" /\ UNCHANGED dev
    ELSE IF dev + 1 < Devices THEN dev' = dev + 1 /\ func' = 0 /\ pc' = "header"
    ELSE pc' = "end" /\ UNCHANGED <<dev, func>>

\* pci_visit: nobody has the vendor 0xffff, and only the card is set up.
Vendor ==
    /\ pc = "vendor"
    /\ IF Present(id) /\ there.bars[id].card THEN pc' = "address" /\ UNCHANGED <<dev, func>> ELSE NextFunction
    /\ UNCHANGED <<there, bar, bar1, funcCount, low, high, ral, found>>

\* pci_read_bar: the address, all ones, what is left of them, the address.
ReadAddress ==
    /\ pc = "address" /\ pc' = "ones"
    /\ low' = bar[id]
    /\ UNCHANGED <<there, bar, bar1, dev, func, funcCount, high, ral, found>>

WriteOnes ==
    /\ pc = "ones" /\ pc' = "mask"
    /\ bar' = [bar EXCEPT ![id] = Written(id, Absent)]
    /\ UNCHANGED <<there, bar1, dev, func, funcCount, low, high, ral, found>>

\* The flag of a 64-bit register, looked at whatever the register is.
Wide(address) == (address \div 4) % 2 = 1

\* The three kinds of pci_get_bar.  What addressHigh << 32 is in a word does
\* not matter, as it is 0; `high` is the upper word of the size.
Decoded(mask) ==
    LET io   == ~ Wide(low) /\ low % 2 = 1
        drop == IF io THEN 4 ELSE 16
    IN  [address |-> low - (low % drop),
         size    |-> (Full - (mask - (mask % drop))) % (IF io THEN Half ELSE Full),
         high    |-> 0,
         flags   |-> low % drop]

ReadMask ==
    /\ pc = "mask" /\ pc' = "restore"
    /\ found' = Append(found, [id |-> id, decoded |-> Decoded(bar[id]), mac |-> <<>>])
    /\ UNCHANGED <<there, bar, bar1, dev, func, funcCount, low, high, ral>>

Restore ==
    /\ pc = "restore" /\ pc' = IF Wide(low) THEN "upper" ELSE "card"
    /\ bar' = [bar EXCEPT ![id] = Written(id, low)]
    /\ UNCHANGED <<there, bar1, dev, func, funcCount, low, high, ral, found>>

\* The same of the register behind a 64-bit one: the address, all ones ...
UpperOnes ==
    /\ pc = "upper" /\ pc' = "upperMask"
    /\ high' = bar1[id]
    /\ bar1' = [bar1 EXCEPT ![id] = Written1(id, Absent)]
    /\ UNCHANGED <<there, bar, dev, func, funcCount, low, ral, found>>

\* ... and what is left of them, of which only the lower half is ones.  The
\* word that is added carries when the lower word of the size is 0.
UpperMask ==
    /\ pc = "upperMask" /\ pc' = "card"
    /\ LET n     == Len(found)
           carry == IF found[n].decoded.size = 0 THEN 1 ELSE 0
       IN  found' = [found EXCEPT ![n].decoded.high = (Absent - bar1[id] + carry) % Full]
    /\ bar1' = [bar1 EXCEPT ![id] = Written1(id, high)]
    /\ UNCHANGED <<there, bar, dev, func, funcCount, low, high, ral>>

\* The register of a card is one for ports: eth_intel_init returned at once.
Ports(n) == found[n].decoded.flags % 2 = 1

\* pci_visit sends a request behind eth_intel_init, whatever that did.  With
\* no card set up the descriptor is the one at the null pointer: what lies
\* there is overwritten, or taken for a frame not sent yet and waited for.
FirstRequest ==
    \/ NextFunction
    \/ (\A n \in DOMAIN found : Ports(n)) /\ pc' = "spin" /\ UNCHANGED <<dev, func>>

\* eth_intel_init goes on unless the register is one for ports.  A card
\* without RAL is asked for its words; the second is shifted too far.
Card ==
    /\ pc = "card"
    /\ LET n == Len(found) IN
       found' = IF Ports(n) THEN found
                ELSE [found EXCEPT ![n].mac = IF ral THEN Mac ELSE [Mac EXCEPT ![2] = 0]]
    /\ FirstRequest
    /\ UNCHANGED <<there, bar, bar1, funcCount, low, high, ral>>

PciNext ==
    Header \/ Vendor \/ ReadAddress \/ WriteOnes \/ ReadMask \/ Restore
    \/ UpperOnes \/ UpperMask \/ Card

PciSpec == PciInit /\ [][PciNext]_pciVars

-----------------------------------------------------------------------------
\* The last entry is being made.
Making == {"restore", "upper", "upperMask", "card"}

(* The walk finds every card once, in order, and leaves each register      *)
(* as it was.  A register's address is right, its size is right for ports  *)
(* and never less than it is for memory: pci_write32 reaches only the lower*)
(* half, so that the upper half of the mask is the address, and the upper  *)
(* half of a 64-bit size is ones.  Four ports at a place with the flag of  *)
(* a 64-bit register are taken for memory.  A card is known by its own     *)
(* hardware address when it shows it in RAL.  The walk gets stuck at       *)
(* nothing but a card of ports.                                            *)
CardsFound ==
    /\ \A i \in DOMAIN bar :
          /\ (pc \in {"mask", "restore"} /\ i = id) \/ bar[i] = Register(there.bars[i])
          /\ (pc = "upperMask" /\ i = id) \/ bar1[i] = 0
    /\ pc = "end" => Len(found) = Cardinality({i \in DOMAIN bar : there.bars[i].card})
    /\ pc = "spin" => there.bars[id].io
    /\ \A m, n \in DOMAIN found :
          m < n => LET i == found[m].id j == found[n].id
                   IN  i[1] < j[1] \/ (i[1] = j[1] /\ i[2] < j[2])
    /\ \A n \in DOMAIN found :
          LET b == there.bars[found[n].id]
              d == found[n].decoded
          IN  \/ b.io /\ Wide(b.base)
              \/ /\ d.address = b.base /\ d.flags = FlagBits(b)
                 /\ IF b.io THEN d.size = b.size ELSE d.size >= b.size
                 /\ n < Len(found) \/ pc \notin Making =>
                       /\ d.high = IF b.wide THEN Full - Half ELSE 0
                       /\ found[n].mac = IF b.io THEN <<>> ELSE IF ral THEN Mac ELSE [Mac EXCEPT ![2] = 0]
=============================================================================
