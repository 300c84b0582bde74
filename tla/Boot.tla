-------------------------------- MODULE Boot --------------------------------
(***************************************************************************)
(* Where things lie in memory when kmain has set it up: mm_init            *)
(* (src/memory/malloc.c), called with kernel_end (src/kernel.c), and       *)
(* paging_init (src/memory/paging.c).  Both run alone, before tasking.     *)
(*                                                                         *)
(* Memory is addressed in octets, a word has four.  A page directory has   *)
(* Entries words, and so has a page table; everything else follows.        *)
(***************************************************************************)
EXTENDS Integers

CONSTANTS
    Entries,                \* 1024 on the machine
    MaxPages,               \* MAX_PAGE_ALIGNED_ALLOCS
    KernelBase, KernelEnd,  \* the kernel's place, from link.ld
    EndWords,               \* what the word at kernel_end may be
    Rams                    \* sizes of memory

Page  == 4 * Entries
Super == Entries * Page     \* what a directory entry maps: 4 MB
Space == Entries * Super    \* addresses are taken modulo Space

ASSUME BootAssumption ==
    /\ Entries \in Nat /\ Entries >= 8 /\ MaxPages \in 1 .. Entries - 1
    /\ KernelBase \in Nat /\ KernelEnd \in Nat
    /\ KernelBase < KernelEnd /\ KernelEnd <= Super - MaxPages * Page
    /\ EndWords \subseteq 0 .. Space - 1
    /\ Rams \subseteq Super .. Space /\ \A r \in Rams : r % 4 = 0

VARIABLES
    ram, word,              \* the machine: its memory, the word at kernel_end
    step,                   \* how far kmain has come
    heap_begin,
    tables,                 \* address of a word -> what paging wrote there
    last_page, mapped       \* next table, directory entries filled
bootVars == <<ram, word, step, heap_begin, tables, last_page, mapped>>

heap_end       == Super - MaxPages * Page
page_directory == Super
first_page     == Super + 4 * Page

BootInit ==
    /\ ram \in Rams /\ word \in EndWords
    /\ step = "mm_init" /\ heap_begin = 0 /\ tables = <<>>
    /\ last_page = 0 /\ mapped = 0

-----------------------------------------------------------------------------
(* mm_init                                                                 *)

\* memset counts from a size that is taken modulo Space, and so do the
\* addresses it writes.
Zeroed(from, a) == (a - from) % Space < (heap_end - from) % Space

\* kmain passes the word that lies at kernel_end, not the address: nothing
\* in the source says what that is.  A kernel that is zeroed does not go on.
mm_init ==
    /\ step = "mm_init"
    /\ heap_begin' = (word + Page) % Space
    /\ step' = IF \E a \in KernelBase .. KernelEnd - 1 : Zeroed(heap_begin', a) THEN "lost"
               ELSE IF heap_begin' + MaxPages + 8 >= heap_end THEN "panic"
               ELSE "paging_init"
    /\ UNCHANGED <<ram, word, tables, last_page, mapped>>

-----------------------------------------------------------------------------
(* paging_init                                                             *)

\* Words written where there is no memory are lost.
Stored(f) == [a \in {b \in DOMAIN f : b < ram} |-> f[a]]
Over(f, g) == [a \in DOMAIN f \cup DOMAIN g |-> IF a \in DOMAIN f THEN f[a] ELSE g[a]]

Words(at) == {at + 4 * k : k \in 0 .. Entries - 1}

ClearDirectory ==
    /\ step = "paging_init" /\ step' = "map"
    /\ tables' = Stored([a \in Words(page_directory) |-> 2])
    /\ last_page' = first_page
    /\ UNCHANGED <<ram, word, heap_begin, mapped>>

Table(phys) == [a \in Words(last_page) |-> ((phys + Page * ((a - last_page) \div 4)) % Space) + 3]
Entry(virt) == [a \in {page_directory + 4 * (virt \div Super)} |-> last_page + 3]

\* Mutant: the next table is taken from the same place.
paging_map_same(virt, phys) ==
    /\ tables' = Over(Stored(Over(Table(phys), Entry(virt))), tables)
    /\ last_page' = last_page

\* A table, its entry, and the place of the next: Page words further on,
\* which is four pages.
paging_map_virtual_to_phys(virt, phys) ==
    /\ tables' = Over(Stored(Over(Table(phys), Entry(virt))), tables)
    /\ last_page' = (last_page + 4 * Page) % Space

\* i * 0x400000 overflows an int from i = 512 on: at -O0 it wraps to the
\* address meant.
Map ==
    /\ step = "map" /\ mapped < Entries
    /\ paging_map_virtual_to_phys(mapped * Super, mapped * Super)
    /\ mapped' = mapped + 1
    /\ UNCHANGED <<ram, word, step, heap_begin>>

paging_enable ==
    /\ step = "map" /\ mapped = Entries /\ step' = "enabled"
    /\ UNCHANGED <<ram, word, heap_begin, tables, last_page, mapped>>

BootNext == mm_init \/ ClearDirectory \/ Map \/ paging_enable

BootSpec == BootInit /\ [][BootNext]_bootVars

-----------------------------------------------------------------------------
Fault == -1

\* External: how the CPU translates an address.
Translate(v) ==
    LET Read(a)  == IF a \in DOMAIN tables THEN tables[a] ELSE 0
        Frame(e) == e - (e % Page)
        d == Read(page_directory + 4 * (v \div Super))
        t == Read(Frame(d) + 4 * ((v \div Page) % Entries))
    IN  IF d % 2 = 1 /\ t % 2 = 1 THEN Frame(t) + (v % Page) ELSE Fault

\* Behind the last table.
TablesEnd == first_page + 4 * Page * (Entries - 1) + Page

(* The heap never begins in the kernel unnoticed: mm_init zeroes the       *)
(* kernel, and nothing goes on, for just the words at kernel_end that do   *)
(* not put the heap between the kernel and the heap's end.  No table       *)
(* overwrites another, the directory, the kernel or the heap, so that with *)
(* paging on every address is its own as soon as there is memory for all   *)
(* of them, and no sooner.  That this takes memory up to TablesEnd is not  *)
(* what paging.c says of itself: see PagingReserved.                       *)
MemoryLaidOut ==
    /\ step # "mm_init" =>
          (step = "lost" <=> heap_begin \notin KernelEnd .. heap_end)
    /\ \A a \in DOMAIN tables : a >= Super
    /\ step = "enabled" =>
          ( (\A v \in 0 .. Entries * Entries - 1 : Translate(v * Page) = v * Page)
            <=> ram >= TablesEnd )

(* What paging.c:12-14 says: 0-8mb is for the kernel, and what paging      *)
(* needs lies from 4mb on in it.  It does not.                             *)
PagingReserved == \A a \in DOMAIN tables : a < 2 * Super
=============================================================================
