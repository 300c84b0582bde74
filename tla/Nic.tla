-------------------------------- MODULE Nic --------------------------------
(***************************************************************************)
(* The network card's driver (src/drivers/intel_e1000.c) with the packet   *)
(* buffers of src/net/buf.c: the receive and the transmit ring shared with *)
(* the card, the list of free buffers, and the mark the heap keeps of each *)
(* buffer's block.                                                         *)
(*                                                                         *)
(* Two threads of control use the driver: one task (pci sends first, then  *)
(* the shell's pings) and the card's interrupt handler, which answers      *)
(* requests from inside eth_recv.  The handler runs with interrupts off:   *)
(* the task gets a step in between only where the handler yields, in a     *)
(* print.  Waiting for a descriptor does not yield: _sleep(1) is no tick   *)
(* at 200 Hz and returns at once, so nobody but the card gets a step.      *)
(* The handler can interrupt the task between any two steps.               *)
(***************************************************************************)
EXTENDS Integers, Sequences, SequencesExt, FiniteSetsExt

CONSTANTS
    RX, TX,         \* RX_DESC_COUNT and TX_DESC_COUNT, powers of two
    Blocks,         \* blocks of the heap big enough for a buffer, by address
    Sends,          \* bound: packets the task sends
    Frames          \* bound: frames the card accepts

ASSUME RingAssumption  == RX \in Nat \ {0} /\ TX \in Nat \ {0}
ASSUME BlockAssumption == Blocks \in Nat /\ Blocks >= RX
ASSUME BoundAssumption == Sends \in Nat /\ Frames \in Nat

None   == 0                     \* the null pointer; blocks count from 1
Block  == 1 .. Blocks
Thread == {"task", "irq"}
RxSlot == 0 .. RX - 1
TxSlot == 0 .. TX - 1

VARIABLES
    status, ref, free, mem,         \* heap marks, refCount, s_netFreeBufs, contents
    rxDesc, rxBufs, rxRead,         \* receive ring, driver's side
    RDH, RDT, cause,                \* receive registers, receive interrupt pending
    txDesc, txBufs, txWrite,        \* transmit ring, driver's side
    TDH, TDT, busy,                 \* transmit registers, is the card sending?
    pc, buf, slot, old,             \* per thread: label, pkt, descriptor, oldBuf
    accepted, seen,                 \* frames accepted; what eth_recv was given
    posted, wire,                   \* packets given to the card; packets sent
    raced, shared                   \* did two calls overlap; had a buffer two owners?

heap  == <<status, ref, free, mem>>
rx    == <<rxDesc, rxBufs, rxRead, RDH, RDT, cause, accepted, seen>>
tx    == <<txDesc, txBufs, txWrite, TDH, TDT, busy, posted, wire>>
local == <<buf, slot, old>>
vars  == <<heap, rx, tx, pc, local, raced, shared>>

\* What a buffer can hold; a packet is named by who built it and how many
\* came before.
Content == {<<>>} \cup (Thread \cup {"frame"}) \X (0 .. Sends + Frames)

Allocating == {"unlink", "fill"}
Sending    == {"test", "free", "write", "store", "advance", "tail"}
Labels     == {"idle", "alloc", "begin", "poll", "print", "skip", "swap"} \cup Allocating \cup Sending

TypeOK ==
    /\ status \in [Block -> BOOLEAN] /\ ref \in [Block -> Int]
    /\ free \in Seq(Block) /\ mem \in [Block -> Content]
    /\ rxDesc \in [RxSlot -> [addr : Block, done : BOOLEAN, errors : BOOLEAN]]
    /\ rxBufs \in [RxSlot -> Block] /\ {rxRead, RDH, RDT} \subseteq RxSlot
    /\ txDesc \in [TxSlot -> [addr : Block \cup {None}, done : BOOLEAN]]
    /\ txBufs \in [TxSlot -> Block \cup {None}] /\ {txWrite, TDH, TDT} \subseteq TxSlot
    /\ pc \in [Thread -> Labels]
    /\ buf \in [Thread -> Block \cup {None}] /\ old \in [Thread -> Block \cup {None}]
    /\ slot \in [Thread -> TxSlot]
    /\ accepted \in 0 .. Frames /\ {cause, busy, raced, shared} \subseteq BOOLEAN
    /\ \A s \in {seen, posted, wire} : s \in Seq(Content)

\* eth_intel_init: a buffer per receive descriptor, every transmit
\* descriptor done.
Init ==
    /\ status = [b \in Block |-> b <= RX] /\ ref = [b \in Block |-> IF b <= RX THEN 1 ELSE 0]
    /\ free = <<>> /\ mem = [b \in Block |-> <<>>]
    /\ rxDesc = [s \in RxSlot |-> [addr |-> s + 1, done |-> FALSE, errors |-> FALSE]]
    /\ rxBufs = [s \in RxSlot |-> s + 1]
    /\ rxRead = 0 /\ RDH = 0 /\ RDT = RX - 1 /\ cause = FALSE
    /\ txDesc = [s \in TxSlot |-> [addr |-> None, done |-> TRUE]]
    /\ txBufs = [s \in TxSlot |-> None]
    /\ txWrite = 0 /\ TDH = 0 /\ TDT = 0 /\ busy = FALSE
    /\ pc = [t \in Thread |-> "idle"]
    /\ buf = [t \in Thread |-> None] /\ old = [t \in Thread |-> None]
    /\ slot = [t \in Thread |-> 0]
    /\ accepted = 0 /\ seen = <<>> /\ posted = <<>> /\ wire = <<>>
    /\ raced = FALSE /\ shared = FALSE

-----------------------------------------------------------------------------
At(t, l) ==
    /\ pc[t] = l
    /\ t = "task" => pc["irq"] \in {"idle", "print", "skip"}

Goto(t, l) == pc' = [pc EXCEPT ![t] = l]

\* Does t enter a section the other thread is in the middle of?
Enters(t, section) == raced' = (raced \/ \E u \in Thread \ {t} : pc[u] \in section)

\* How many packets t has built.
Built(t) == Cardinality({k \in DOMAIN posted : posted[k][1] = t})

\* malloc(NET_BUF_SIZE): first fit, among the blocks that are big enough.
FirstFree == Min({b \in Block : ~status[b]})

\* refCount is unsigned: below 0 it is as far from 0 as it can be.
Releases(b) == ref[b] = 1

net_release_buf(b) ==
    /\ ref' = [ref EXCEPT ![b] = @ - 1]
    /\ free' = IF Releases(b) THEN <<b>> \o free ELSE free
    /\ status' = IF Releases(b) THEN [status EXCEPT ![b] = FALSE] ELSE status

-----------------------------------------------------------------------------
(* The card.                                                               *)

\* The ring has no room when RDH reaches RDT: further frames are dropped.
CardReceive(bad) ==
    /\ accepted < Frames /\ RDH # RDT
    /\ accepted' = accepted + 1
    /\ mem' = [mem EXCEPT ![rxDesc[RDH].addr] = <<"frame", accepted>>]
    /\ rxDesc' = [rxDesc EXCEPT ![RDH].done = TRUE, ![RDH].errors = bad]
    /\ RDH' = (RDH + 1) % RX
    /\ cause' = TRUE
    /\ UNCHANGED <<status, ref, free, rxBufs, rxRead, RDT, seen, tx, pc, local, raced>>

\* A descriptor nobody has written yet has address 0 and length 0.
Packet(d) == IF d.addr = None THEN <<>> ELSE mem[d.addr]

\* TDH = TDT says the ring is empty.
CardFetch ==
    /\ ~busy /\ TDH # TDT
    /\ busy' = TRUE
    /\ UNCHANGED <<heap, rx, txDesc, txBufs, txWrite, TDH, TDT, posted, wire, pc, local, raced>>

CardSent ==
    /\ busy /\ busy' = FALSE
    /\ wire' = Append(wire, Packet(txDesc[TDH]))
    /\ txDesc' = [txDesc EXCEPT ![TDH].done = TRUE]
    /\ TDH' = (TDH + 1) % TX
    /\ UNCHANGED <<heap, rx, txBufs, txWrite, TDT, posted, pc, local, raced>>

-----------------------------------------------------------------------------
(* net_alloc_buf, and the packet built in the buffer.                      *)

\* icmp_echo_request, or pci_visit's first packet.
Send ==
    /\ At("task", "idle") /\ Built("task") < Sends
    /\ Goto("task", "alloc")
    /\ UNCHANGED <<heap, rx, tx, local, raced>>

AllocFresh(t) ==
    /\ At(t, "alloc") /\ free = <<>> /\ \E b \in Block : ~status[b]
    /\ Goto(t, "fill")
    /\ buf' = [buf EXCEPT ![t] = FirstFree]
    /\ status' = [status EXCEPT ![FirstFree] = TRUE]
    /\ Enters(t, Allocating)
    /\ UNCHANGED <<ref, free, mem, rx, tx, slot, old>>

AllocListed(t) ==
    /\ At(t, "alloc") /\ free # <<>>
    /\ Goto(t, "unlink")
    /\ buf' = [buf EXCEPT ![t] = Head(free)]
    /\ Enters(t, Allocating)
    /\ UNCHANGED <<heap, rx, tx, slot, old>>

\* Mutant: the buffer stays on the list.
Unlink_missing(t) ==
    /\ At(t, "unlink") /\ Goto(t, "fill")
    /\ UNCHANGED <<heap, rx, tx, local, raced>>

\* link_remove, as one step.  A buffer that somebody else took off the list
\* in between is gone already.
Unlink(t) ==
    /\ At(t, "unlink") /\ Goto(t, "fill")
    /\ \/ \E k \in DOMAIN free : free[k] = buf[t] /\ free' = RemoveAt(free, k)
       \/ (\A k \in DOMAIN free : free[k] # buf[t]) /\ UNCHANGED free
    /\ UNCHANGED <<status, ref, mem, rx, tx, local, raced>>

Fill(t) ==
    /\ At(t, "fill") /\ Goto(t, "begin")
    /\ ref' = [ref EXCEPT ![buf[t]] = 1]
    /\ mem' = [mem EXCEPT ![buf[t]] = <<t, Built(t)>>]
    /\ UNCHANGED <<status, free, rx, tx, local, raced>>

-----------------------------------------------------------------------------
(* eth_intel_send.                                                         *)

Begin(t) ==
    /\ At(t, "begin") /\ Goto(t, "test")
    /\ slot' = [slot EXCEPT ![t] = txWrite]
    /\ old' = [old EXCEPT ![t] = txBufs[txWrite]]
    /\ Enters(t, Sending)
    /\ UNCHANGED <<heap, rx, tx, buf>>

\* Mutant: does not wait for the descriptor.
DescriptorDone_always(t) == TRUE

DescriptorDone(t) == txDesc[slot[t]].done

\* Loops until the descriptor is done.
Wait(t) ==
    /\ At(t, "test") /\ DescriptorDone(t)
    /\ Goto(t, "free")
    /\ UNCHANGED <<heap, rx, tx, local, raced>>

FreeSent(t) ==
    /\ At(t, "free") /\ Goto(t, "write")
    /\ IF old[t] = None THEN UNCHANGED <<status, ref, free>> ELSE net_release_buf(old[t])
    /\ UNCHANGED <<mem, rx, tx, local, raced>>

Write(t) ==
    /\ At(t, "write") /\ Goto(t, "store")
    /\ txDesc' = [txDesc EXCEPT ![slot[t]] = [addr |-> buf[t], done |-> FALSE]]
    /\ UNCHANGED <<heap, rx, txBufs, txWrite, TDH, TDT, busy, posted, wire, local, raced>>

Store(t) ==
    /\ At(t, "store") /\ Goto(t, "advance")
    /\ txBufs' = [txBufs EXCEPT ![txWrite] = buf[t]]
    /\ UNCHANGED <<heap, rx, txDesc, txWrite, TDH, TDT, busy, posted, wire, local, raced>>

\* Mutant: runs off the end of the ring.
AdvanceTx_unmasked(t) ==
    /\ At(t, "advance") /\ Goto(t, "tail")
    /\ txWrite' = txWrite + 1
    /\ UNCHANGED <<heap, rx, txDesc, txBufs, TDH, TDT, busy, posted, wire, local, raced>>

\* Mutant: stays on the descriptor.
AdvanceTx_missing(t) ==
    /\ At(t, "advance") /\ Goto(t, "tail")
    /\ UNCHANGED <<heap, rx, tx, local, raced>>

AdvanceTx(t) ==
    /\ At(t, "advance") /\ Goto(t, "tail")
    /\ txWrite' = (txWrite + 1) % TX
    /\ UNCHANGED <<heap, rx, txDesc, txBufs, TDH, TDT, busy, posted, wire, local, raced>>

WriteTail(t) ==
    /\ At(t, "tail") /\ Goto(t, IF t = "irq" THEN "swap" ELSE "idle")
    /\ TDT' = txWrite
    /\ posted' = Append(posted, <<t, Built(t)>>)
    /\ UNCHANGED <<heap, rx, txDesc, txBufs, txWrite, TDH, busy, wire, local, raced>>

-----------------------------------------------------------------------------
(* eth_intel_irq and eth_intel_poll.                                       *)

Interrupt ==
    /\ pc["irq"] = "idle" /\ cause
    /\ cause' = FALSE
    /\ Goto("irq", "poll")
    /\ UNCHANGED <<heap, rxDesc, rxBufs, rxRead, RDH, RDT, accepted, seen, tx, local, raced>>

PollEnd ==
    /\ At("irq", "poll") /\ ~rxDesc[rxRead].done
    /\ Goto("irq", "idle")
    /\ UNCHANGED <<heap, rx, tx, local, raced>>

\* A frame the card found bad is reported, which yields, and its buffer stays.
PollBad ==
    /\ At("irq", "poll") /\ rxDesc[rxRead].done /\ rxDesc[rxRead].errors
    /\ Goto("irq", "skip")
    /\ seen' = Append(seen, <<>>)
    /\ UNCHANGED <<heap, rxDesc, rxBufs, rxRead, RDH, RDT, cause, accepted, tx, local, raced>>

(* eth_recv: nothing comes of the frame, or it is answered at once (an ARP *)
(* request), or after a print (an echo request).                           *)
PollFrame(l) ==
    /\ At("irq", "poll") /\ rxDesc[rxRead].done /\ ~rxDesc[rxRead].errors
    /\ l \in {"swap", "alloc", "print"} /\ Goto("irq", l)
    /\ seen' = Append(seen, mem[rxBufs[rxRead]])
    /\ UNCHANGED <<heap, rxDesc, rxBufs, rxRead, RDH, RDT, cause, accepted, tx, local, raced>>

Printed ==
    /\ At("irq", "print") /\ Goto("irq", "alloc")
    /\ UNCHANGED <<heap, rx, tx, local, raced>>

\* Mutant: gives the card the descriptor after the one just handled.
PassOn_early(d) ==
    /\ rxDesc' = [rxDesc EXCEPT ![rxRead] = [d EXCEPT !.done = FALSE]]
    /\ RDT' = (rxRead + 1) % RX
    /\ rxRead' = (rxRead + 1) % RX

\* Mutant: leaves the done bit of the descriptor set.
PassOn_stale(d) ==
    /\ rxDesc' = [rxDesc EXCEPT ![rxRead] = d]
    /\ RDT' = rxRead
    /\ rxRead' = (rxRead + 1) % RX

\* The descriptor goes back to the card, the last one it may use.
PassOn(d) ==
    /\ rxDesc' = [rxDesc EXCEPT ![rxRead] = [d EXCEPT !.done = FALSE]]
    /\ RDT' = rxRead
    /\ rxRead' = (rxRead + 1) % RX

Skip ==
    /\ At("irq", "skip") /\ Goto("irq", "poll")
    /\ PassOn(rxDesc[rxRead])
    /\ UNCHANGED <<heap, rxBufs, RDH, cause, accepted, seen, tx, local, raced>>

\* Releases the buffer read from and takes one for the descriptor, which is
\* the same one while the release puts it first on the list.  rxBufs keeps
\* the old one.
Swap ==
    /\ At("irq", "swap") /\ Goto("irq", "poll")
    /\ LET b    == rxBufs[rxRead]
           list == IF Releases(b) THEN <<b>> \o free ELSE free
           new  == IF list # <<>> THEN Head(list) ELSE FirstFree
       IN  /\ list # <<>> \/ \E k \in Block : ~status[k]
           /\ free' = IF list # <<>> THEN Tail(list) ELSE free
           /\ status' = IF list = <<>> THEN [status EXCEPT ![new] = TRUE]
                        ELSE IF Releases(b) THEN [status EXCEPT ![b] = FALSE] ELSE status
           /\ ref' = [[ref EXCEPT ![b] = @ - 1] EXCEPT ![new] = 1]
           /\ PassOn([rxDesc[rxRead] EXCEPT !.addr = new])
    /\ Enters("irq", Allocating)
    /\ UNCHANGED <<mem, rxBufs, RDH, cause, accepted, seen, tx, local>>

-----------------------------------------------------------------------------
\* Who may read, write or free block b: a descriptor of the card, a sent
\* packet kept for its release, the list, or a thread that builds a packet.
Owners(b) ==
    {<<"rx", s>> : s \in {r \in RxSlot : rxDesc[r].addr = b}}
    \cup {<<"tx", s>> : s \in {r \in TxSlot : txBufs[r] = b /\
                              \A t \in Thread : pc[t] \in {"write", "store"} => slot[t] # r}}
    \cup {<<"list", 0>> : k \in {j \in DOMAIN free : free[j] = b}}
    \cup {<<t, 0>> : t \in {u \in Thread : buf[u] = b /\
                            pc[u] \in {"fill", "begin", "test", "free", "write", "store"}}}

Exclusive == \A b \in Block : Cardinality(Owners(b)) <= 1

Step(t) ==
    \/ AllocFresh(t) \/ AllocListed(t) \/ Unlink(t) \/ Fill(t)
    \/ Begin(t) \/ Wait(t) \/ FreeSent(t) \/ Write(t) \/ Store(t) \/ AdvanceTx(t) \/ WriteTail(t)

Task    == Send \/ Step("task")
Handler == \/ Interrupt \/ PollEnd \/ PollBad \/ Printed \/ Skip \/ Swap \/ Step("irq")
           \/ \E l \in Labels : PollFrame(l)
Card    == CardFetch \/ CardSent

Recorded(A) == A /\ shared' = (shared \/ ~Exclusive')

Next == Recorded(Task \/ Handler \/ Card \/ \E bad \in BOOLEAN : CardReceive(bad))

Spec == Init /\ [][Next]_vars

(* The scheduler runs the task again and again (NobodyStarves of Tasking), *)
(* a handler runs when its interrupt is pending, the card works off its    *)
(* ring.  Nothing obliges a frame to arrive.                               *)
FairSpec ==
    Spec /\ WF_vars(Recorded(Task)) /\ WF_vars(Recorded(Handler)) /\ WF_vars(Recorded(Card))

-----------------------------------------------------------------------------
(* What must hold                                                          *)

(* Driver and card agree on the receive ring: the descriptors with the     *)
(* done bit are those from rxRead up to RDH, as many as frames wait, and   *)
(* one descriptor stays between RDT and rxRead, so the card never          *)
(* overwrites a frame the driver has not read.                             *)
RingsAgree ==
    LET waiting == (RDH - rxRead + RX) % RX
        taken   == IF pc["irq"] \in {"idle", "poll"} THEN 0 ELSE 1
    IN  /\ \A s \in RxSlot : rxDesc[s].done <=> (s - rxRead + RX) % RX < waiting
        /\ waiting = accepted - Len(seen) + taken
        /\ (RDT + 1) % RX = rxRead

(* eth_intel_poll gives eth_recv every good frame once, in the order they  *)
(* came, out of the buffer the card wrote it to, although rxBufs is never  *)
(* updated: as long as no buffer has had two owners.                       *)
RxInOrder == ~shared => \A k \in DOMAIN seen : seen[k] \in {<<>>, <<"frame", k - 1>>}

(* What leaves the card is what eth_intel_send was given, in that order,   *)
(* uncorrupted, as long as no buffer has had two owners and the handler    *)
(* did not allocate or send in the middle of the task's doing so.          *)
TxInOrder == ~shared /\ ~raced => IsPrefix(wire, posted)

(* Both ways, the order of frames is kept.                                 *)
FramesInOrder == RxInOrder /\ TxInOrder

(* The free list never holds a buffer twice, even when a buffer has two    *)
(* owners that both release it: its count passes 0 only once.  It takes a  *)
(* handler that allocates in the middle of the task's allocation to break  *)
(* this.                                                                   *)
ListSound == ~raced => \A j, k \in DOMAIN free : free[j] = free[k] => j = k

\* TX packets outstanding: the tail has caught up with the head, which the
\* card takes for an empty ring unless it is in the middle of sending.
Stalled == TDH = TDT /\ ~busy /\ \A s \in TxSlot : ~txDesc[s].done

(* Every send returns and every packet goes out, unless two sends overlap  *)
(* or the transmit ring fills up while the card is idle: eth_intel_send    *)
(* tests the descriptor it is about to write, one too late to keep the     *)
(* ring from looking empty, and then waits for ever.                       *)
SendsComplete ==
    <>(\/ raced \/ Stalled
       \/ /\ \A t \in Thread : pc[t] = "idle"
          /\ Built("task") = Sends /\ ~cause /\ Len(wire) = Len(posted))

(* intel_e1000.c:217: "free packet that was sent with this descriptor".    *)
OnlySentIsFreed ==
    \A t \in Thread : pc[t] = "free" => \A s \in RxSlot : rxDesc[s].addr # old[t]

=============================================================================
