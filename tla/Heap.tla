-------------------------------- MODULE Heap --------------------------------
(***************************************************************************)
(* The kernel heap: malloc, free, pmalloc and pfree (src/memory/malloc.c). *)
(*                                                                         *)
(* Blocks follow one another from heap_begin to last_alloc, a header, the  *)
(* payload and four bytes of padding each.  malloc takes the first free    *)
(* block that is big enough, or grows the heap; nothing is split or merged.*)
(* No lock protects any of it: a step is one statement, and Preemptive     *)
(* says whether another process can run between two of them.               *)
(***************************************************************************)
EXTENDS Integers, FiniteSets, Functions

CONSTANTS
    Client,         \* the processes that allocate
    Sizes,          \* the sizes they ask malloc for
    Pages,          \* MAX_PAGE_ALIGNED_ALLOCS
    heap_begin, heap_end,
    Preemptive,     \* TRUE once tasking runs, FALSE before
    MaxCalls        \* bound: calls to malloc

Header  == 8        \* sizeof(alloc_t)
Padding == 4

ASSUME SizesAssumption == Sizes \subseteq Nat \ {0} /\ Pages \in Nat \ {0}
ASSUME HeapAssumption  == heap_begin \in Nat /\ heap_end \in Nat
                          /\ heap_begin + Pages + Header + Padding <= heap_end
ASSUME BoundAssumption == Preemptive \in BOOLEAN /\ MaxCalls \in Nat

VARIABLES
    status, size,   \* alloc_t of the blocks: functions of the header's address
    last_alloc, memory_used,
    desc,           \* pheap_desc, with the byte behind it (index Pages)
    pc, mem, want,  \* per client: where it is, its pointer, the size it asked
    owned,          \* the blocks handed out to each client: [at, bytes]
    frames,         \* the pages handed out to each client
    panicked, calls

headers == <<status, size, last_alloc>>
local   == <<mem, want>>
pages   == <<desc, frames>>
vars    == <<status, size, last_alloc, memory_used, desc, pc, mem, want,
             owned, frames, panicked, calls>>

Blocks    == DOMAIN size
Behind(a) == a + size[a] + Header + Padding

Labels == {"idle", "scan", "take", "count", "nalloc", "grow", "count_fresh",
           "free_status", "page", "page_take"}

TypeOK ==
    /\ status \in [Blocks -> BOOLEAN] /\ size \in [Blocks -> Nat \ {0}]
    /\ Blocks \subseteq Nat
    /\ last_alloc \in Nat /\ memory_used \in Int
    /\ desc \in [0 .. Pages -> BOOLEAN]
    /\ pc \in [Client -> Labels]
    /\ mem \in [Client -> Nat] /\ want \in [Client -> Nat]
    /\ owned \in [Client -> SUBSET [at : Nat, bytes : Nat]]
    /\ frames \in [Client -> SUBSET (0 .. Pages - 1)]
    /\ panicked \in BOOLEAN /\ calls \in 0 .. MaxCalls

(* mm_init: the heap holds pheap_desc and nothing else.                    *)
Init ==
    /\ status = [a \in {heap_begin} |-> TRUE]
    /\ size = [a \in {heap_begin} |-> Pages]
    /\ last_alloc = Behind(heap_begin)
    /\ memory_used = Pages + Header + Padding
    /\ desc = [i \in 0 .. Pages |-> FALSE]
    /\ pc = [q \in Client |-> "idle"]
    /\ mem = [q \in Client |-> heap_begin] /\ want = [q \in Client |-> 0]
    /\ owned = [q \in Client |-> {}]
    /\ frames = [q \in Client |-> {}]
    /\ panicked = FALSE /\ calls = 0

-----------------------------------------------------------------------------
(* The CPU is q's; after a panic nothing runs.                             *)
Runs(q) ==
    /\ ~panicked
    /\ Preemptive \/ \A r \in Client \ {q} : pc[r] = "idle"

At(q, l)   == Runs(q) /\ pc[q] = l
Goto(q, l) == pc' = [pc EXCEPT ![q] = l]

HandOut(q) == owned' = [owned EXCEPT ![q] = @ \cup {[at |-> mem[q], bytes |-> want[q]]}]

-----------------------------------------------------------------------------
(* malloc                                                                  *)

Malloc(q, n) ==
    /\ At(q, "idle") /\ Goto(q, "scan")
    /\ calls < MaxCalls /\ calls' = calls + 1
    /\ mem' = [mem EXCEPT ![q] = heap_begin]
    /\ want' = [want EXCEPT ![q] = n]
    /\ UNCHANGED <<headers, memory_used, pages, owned, panicked>>

\* The end of the blocks, or memory nobody wrote a header to (still zero).
AtEnd(q) == mem[q] >= last_alloc \/ mem[q] \notin Blocks
\* Mutant: > instead of >=.
Fits_strict(q) == ~status[mem[q]] /\ size[mem[q]] > want[q]
Fits(q) == ~status[mem[q]] /\ size[mem[q]] >= want[q]

ScanEnd(q) ==
    /\ At(q, "scan") /\ Goto(q, "nalloc")
    /\ AtEnd(q)
    /\ UNCHANGED <<headers, memory_used, pages, local, owned, panicked, calls>>

ScanSkip(q) ==
    /\ At(q, "scan") /\ pc' = pc
    /\ ~AtEnd(q) /\ ~Fits(q)
    /\ mem' = [mem EXCEPT ![q] = Behind(mem[q])]
    /\ UNCHANGED <<headers, memory_used, pages, want, owned, panicked, calls>>

ScanFound(q) ==
    /\ At(q, "scan") /\ Goto(q, "take")
    /\ ~AtEnd(q) /\ Fits(q)
    /\ UNCHANGED <<headers, memory_used, pages, local, owned, panicked, calls>>

\* Mutant: the block found stays marked free.
Take_unmarked(q) ==
    /\ At(q, "take") /\ Goto(q, "count")
    /\ UNCHANGED <<headers, memory_used, pages, local, owned, panicked, calls>>

Take(q) ==
    /\ At(q, "take") /\ Goto(q, "count")
    /\ status' = [status EXCEPT ![mem[q]] = TRUE]
    /\ UNCHANGED <<size, last_alloc, memory_used, pages, local, owned, panicked, calls>>

Count(q) ==                     \* the block keeps its size; only size bytes are counted
    /\ At(q, "count") /\ Goto(q, "idle")
    /\ memory_used' = memory_used + want[q] + Header
    /\ HandOut(q)
    /\ UNCHANGED <<headers, pages, local, panicked, calls>>

OutOfMemory(q) ==
    /\ At(q, "nalloc") /\ pc' = pc
    /\ last_alloc + want[q] + Header >= heap_end
    /\ panicked' = TRUE
    /\ UNCHANGED <<headers, memory_used, pages, local, owned, calls>>

NewHeader(q) ==
    /\ At(q, "nalloc") /\ Goto(q, "grow")
    /\ last_alloc + want[q] + Header < heap_end
    /\ mem' = [mem EXCEPT ![q] = last_alloc]
    /\ status' = [a \in Blocks \cup {last_alloc} |-> IF a = last_alloc THEN TRUE ELSE status[a]]
    /\ size' = [a \in Blocks \cup {last_alloc} |-> IF a = last_alloc THEN want[q] ELSE size[a]]
    /\ UNCHANGED <<last_alloc, memory_used, pages, want, owned, panicked, calls>>

\* Mutant: forgets the padding.
Grow_unpadded(q) ==
    /\ At(q, "grow") /\ Goto(q, "count_fresh")
    /\ last_alloc' = last_alloc + want[q] + Header
    /\ UNCHANGED <<status, size, memory_used, pages, local, owned, panicked, calls>>

Grow(q) ==
    /\ At(q, "grow") /\ Goto(q, "count_fresh")
    /\ last_alloc' = last_alloc + want[q] + Header + Padding
    /\ UNCHANGED <<status, size, memory_used, pages, local, owned, panicked, calls>>

CountFresh(q) ==
    /\ At(q, "count_fresh") /\ Goto(q, "idle")
    /\ memory_used' = memory_used + want[q] + Header + Padding
    /\ HandOut(q)
    /\ UNCHANGED <<headers, pages, local, panicked, calls>>

-----------------------------------------------------------------------------
(* free of a block the client was given                                    *)

Free(q, b) ==
    /\ At(q, "idle") /\ Goto(q, "free_status")
    /\ b \in owned[q]
    /\ owned' = [owned EXCEPT ![q] = @ \ {b}]
    /\ memory_used' = memory_used - size[b.at] - Header
    /\ mem' = [mem EXCEPT ![q] = b.at]
    /\ UNCHANGED <<headers, pages, want, panicked, calls>>

\* Mutant: the block stays marked allocated.
FreeStatus_missing(q) ==
    /\ At(q, "free_status") /\ Goto(q, "idle")
    /\ UNCHANGED <<headers, memory_used, pages, local, owned, panicked, calls>>

FreeStatus(q) ==
    /\ At(q, "free_status") /\ Goto(q, "idle")
    /\ status' = [status EXCEPT ![mem[q]] = FALSE]
    /\ UNCHANGED <<size, last_alloc, memory_used, pages, local, owned, panicked, calls>>

-----------------------------------------------------------------------------
(* pmalloc: one page, whatever the size.  mem is its index.                *)

Pmalloc(q) ==
    /\ At(q, "idle") /\ Goto(q, "page")
    /\ mem' = [mem EXCEPT ![q] = 0]
    /\ UNCHANGED <<headers, memory_used, pages, want, owned, panicked, calls>>

PageSkip(q) ==
    /\ At(q, "page") /\ pc' = pc
    /\ mem[q] < Pages /\ desc[mem[q]]
    /\ mem' = [mem EXCEPT ![q] = @ + 1]
    /\ UNCHANGED <<headers, memory_used, pages, want, owned, panicked, calls>>

\* Mutant: i <= MAX_PAGE_ALIGNED_ALLOCS.
PageFound_beyond(q) ==
    /\ At(q, "page") /\ Goto(q, "page_take")
    /\ mem[q] <= Pages /\ ~desc[mem[q]]
    /\ UNCHANGED <<headers, memory_used, pages, local, owned, panicked, calls>>

PageFound(q) ==
    /\ At(q, "page") /\ Goto(q, "page_take")
    /\ mem[q] < Pages /\ ~desc[mem[q]]
    /\ UNCHANGED <<headers, memory_used, pages, local, owned, panicked, calls>>

\* Mutant: the page stays marked free.
PageTake_unmarked(q) ==
    /\ At(q, "page_take") /\ Goto(q, "idle")
    /\ frames' = [frames EXCEPT ![q] = @ \cup {mem[q]}]
    /\ UNCHANGED <<headers, memory_used, desc, local, owned, panicked, calls>>

PageTake(q) ==
    /\ At(q, "page_take") /\ Goto(q, "idle")
    /\ desc' = [desc EXCEPT ![mem[q]] = TRUE]
    /\ frames' = [frames EXCEPT ![q] = @ \cup {mem[q]}]
    /\ UNCHANGED <<headers, memory_used, local, owned, panicked, calls>>

PageFail(q) ==                  \* return 0
    /\ At(q, "page") /\ Goto(q, "idle")
    /\ mem[q] = Pages
    /\ UNCHANGED <<headers, memory_used, pages, local, owned, panicked, calls>>

\* i = Pages is _kill's pfree(c->cr3): the page directory is at pheap_end,
\* which the range check lets through.
Pfree(q, i) ==
    /\ At(q, "idle")
    /\ i \in frames[q] \/ i = Pages
    /\ desc' = [desc EXCEPT ![i] = FALSE]
    /\ frames' = [frames EXCEPT ![q] = @ \ {i}]
    /\ UNCHANGED <<headers, memory_used, pc, local, owned, panicked, calls>>

-----------------------------------------------------------------------------
Step(q) ==
    \/ \E n \in Sizes : Malloc(q, n)
    \/ ScanEnd(q) \/ ScanSkip(q) \/ ScanFound(q) \/ Take(q) \/ Count(q)
    \/ OutOfMemory(q) \/ NewHeader(q) \/ Grow(q) \/ CountFresh(q)
    \/ \E b \in owned[q] : Free(q, b)
    \/ FreeStatus(q)
    \/ Pmalloc(q) \/ PageSkip(q) \/ PageFound(q) \/ PageTake(q) \/ PageFail(q)
    \/ \E i \in 0 .. Pages : Pfree(q, i)

Next == \E q \in Client : Step(q)

Spec == Init /\ [][Next]_vars
-----------------------------------------------------------------------------
(* What must hold                                                          *)

\* From the header to the end of the bytes asked for.
Apart(b, d) == b.at + Header + b.bytes <= d.at \/ d.at + Header + d.bytes <= b.at

(* Two blocks handed out never share a byte of payload or header, and each *)
(* lies between pheap_desc and the page heap.                              *)
NoSharing ==
    \A q \in Client : \A b \in owned[q] :
        /\ heap_begin < b.at /\ b.at + Header + b.bytes < heap_end
        /\ \A r \in Client : \A d \in owned[r] : <<q, b>> = <<r, d>> \/ Apart(b, d)

(* The chain of headers: from heap_begin, size by size, to last_alloc, so  *)
(* that a scan reads headers and never payload.                            *)
Chained ==
    (\A q \in Client : pc[q] # "grow") =>
        /\ heap_begin \in Blocks
        /\ \A a \in Blocks :
               /\ a < last_alloc
               /\ Behind(a) \in Blocks \cup {last_alloc}
               /\ \A b \in Blocks : a < b => Behind(a) <= b

(* No block is lost and none is given back early: between calls, those     *)
(* marked allocated are those somebody owns, and they are big enough.      *)
StatusIsOwned ==
    (\A q \in Client : pc[q] = "idle") =>
        \A a \in Blocks :
            status[a] <=> a = heap_begin \/ \E q \in Client : \E b \in owned[q] :
                                                b.at = a /\ b.bytes <= size[a]

(* What a scan relies on: it walks headers only, and what they say of a    *)
(* block is true.                                                          *)
ChainSound == Chained /\ StatusIsOwned

(* A page belongs to one client, and is marked while it does.              *)
PagesExclusive ==
    \A q \in Client : \A i \in frames[q] :
        desc[i] /\ \A r \in Client \ {q} : i \notin frames[r]

(* First fit before growth: the heap grows, and the kernel panics for want *)
(* of memory, only when no free block was big enough.                      *)
GrowsWhenFull ==
    [][\A q \in Client :
           pc[q] = "nalloc" /\ (pc'[q] = "grow" \/ panicked')
               => \A a \in Blocks : status[a] \/ size[a] < want[q]]_vars
=============================================================================
