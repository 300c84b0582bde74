# A verification model of the aijak kernel

aijak is a small 32-bit kernel in C: a round-robin scheduler, a text console, a heap, a
PS/2 keyboard, an ATA driver, an e1000 driver and a network stack up to ICMP. There is
no user mode and no second CPU. All the concurrency comes from three sources: the timer
interrupt that preempts a process, device interrupts whose handlers run on the stack of
whoever they interrupt, and the fact that *every print yields* (taking and releasing a
mutex both call `schedule_noirq`, `src/src/mutex.c:20,27`), in a handler too.

This directory holds TLA+ modules of the parts of the kernel where that concurrency
matters and of the conversions and layouts the rest depends on, TLC configurations that
check them on small instances, and TLAPS proofs of the safety properties of the
scheduler, the console, the heap, the e1000 driver, ARP, the keyboard and the disk
driver for every value of their constants. Paths are relative to the root of the
repository, so the kernel's own sources are in `src/src/`.

1. [The system](#1-the-system)
2. [The modules](#2-the-modules-and-the-code)
3. [The runs](#3-the-runs)
4. [Fairness](#4-fairness)
5. [The proofs](#5-the-proofs)
6. [Where the code and its comments disagree](#6-where-the-code-and-its-comments-disagree)
7. [What the properties except, and why](#7-what-the-properties-except-and-why)
8. [Abstractions, and what is not modelled](#8-abstractions-and-what-is-not-modelled)
9. [Plan](#9-plan)

To run: `tlc -config MCTasking.cfg MCTasking`, and so on for the table in section 3;
`tlapm TaskingProofs.tla` for the proofs.

## 1. The system

For each component: its state, its operations, who it interacts with, what is hard about
it, and what makes it correct.

**Scheduler** (`src/src/tasking.c`). State: a circular doubly linked ring of PCBs
(`next`, `prev`), the current process `c`, the last pid `lpid`, the flag `__enabled`.
Operations: `createProcess`, `addProcess`/`__addProcess`, `is_pid_running`, `schedule`,
`schedule_noirq`, `send_sig` and `__notified`, `_kill`, `panic`. The timer calls
`schedule`; every mutex calls `schedule_noirq`; `late_init` creates processes and polls
for their end. Hard: the ring is changed in several dependent writes protected by
nothing but `set_task(0)`; `_kill` frees the stack and the PCB it still runs on; blocks
and their PCBs are reused while somebody polls a pid. Correct if nobody ever sees half
an update, the ring is one ring, a freed PCB is never resumed, a wait ends exactly when
the awaited process is gone, and nobody starves.

**Timer** (`src/src/pit.c`). State: `task`, `task_was_on`, and at the PIC whether IRQ0
is in service. Operations: `pit_irq`, `set_task`, `enable_task`. Hard: `set_task` does
not nest, and a tick taken between `enable_task` and `__enabled = 1` gets no EOI of its
own. Correct if preemption is always turned on again and the timer is never blocked for
good.

**Boot script** (`late_init` in `src/src/kernel.c`). Starts drivers one after another,
some awaited and some not. Correct if it gets to its end, and never goes on beside a
process it should have waited for.

**Console** (`src/src/display/display.c`, `src/src/display/textmode/`). State: the mutex
`m_display`, the cursor, the video memory. Operations: `kprintf` and the functions
behind it, `textmode_putc`, `__textmode_scrollup`. Called by everybody, handlers
included; the scroll calls `memcpy`, which takes a second mutex. Hard: nested mutexes,
unsigned cursor arithmetic, handlers that print. Correct if messages come out whole,
nothing is written off the screen and the screen shows what was printed.

**Mutexes and memcpy** (`src/src/mutex.c`, `src/src/memory/memutils.c`). One byte each.
Hard: the inline assembly depends on what the compiler does between two statements; a
waiter yields instead of sleeping.

**Heap** (`src/src/memory/malloc.c`). State: the chain of `alloc_t` headers from
`heap_begin` to `last_alloc`, and the 32 page descriptors `pheap_desc`. Operations:
`malloc`, `free`, `pmalloc`, `pfree`. Hard: sizes and padding, long sequences of calls,
the boundary of the page heap, and no lock. Correct if blocks never overlap, the chain
can be walked, and nothing is lost or handed out twice.

**Network buffers and the e1000 driver** (`src/src/net/buf.c`,
`src/src/drivers/intel_e1000.c`). State: the free list of buffers and their reference
counts, the receive and transmit descriptor rings shared with the card, the driver's
copies of the buffer pointers, the head and tail registers. Operations: `net_alloc_buf`,
`net_release_buf`, `eth_intel_send`, `eth_intel_irq`, `eth_intel_poll`. Hard: a second
party (the card) that works on the same rings, a handler that sends from inside a
receive, index arithmetic at the ends of a ring. Correct if every good frame is handed
up once and in order, and every packet leaves once, in order and uncorrupted.

**ARP and what uses it** (`src/src/net/arp.c`, `eth.c`, `ipv4.c`, `icmp.c`,
`src/src/kshell.c`, the end of `eth_intel_init`). State: the ARP cache with one deferred
packet per entry; the interface being set up; the default route. Hard: the shell and the
handler both search and then add; frames arrive before the interface has its functions;
a packet can be owned by a sender, an entry or the driver. Correct if an address has one
entry, a packet leaves for the hardware address its next hop claimed last, a deferred
packet is not left behind, a buffer is in one place and ends in one way, and no answer
leaves half set up.

**What is on the wire** (`src/src/net/eth.c`, `ipv4.c`, `icmp.c`, `checksum.c`,
`route.c`). No state but the route table; decoding, lengths, checksums, the content of
an answer. Hard: lengths that disagree, offsets, carries and octet order. Correct if an
answer goes back to who asked, with lengths and checksums that verify and nothing of the
memory around it but what section 7 names, and a route is the best one.

**Text** (`src/src/stdlib/`, `src/src/net/addr.c`, the line of `kshell.c`). Pure:
numbers and addresses to text and back. Hard: the least int, field widths, words that
are not numbers. Correct if what is printed reads back.

**PCI enumeration** (`src/src/drivers/pci.c`, with the MAC of `intel_e1000.c`). State:
the registers of the devices, restored after they were probed. Hard: 16-bit writes to
32-bit registers, flag bits whose meaning depends on other flag bits. Correct if every
card is found once with its own address.

**Memory layout** (`mm_init` in `malloc.c`, `src/src/memory/paging.c`). Runs once,
before tasking. Hard: `kmain` passes what *lies at* `kernel_end` and not the address;
address arithmetic wraps. Correct if heap, kernel and page tables are apart and every
address is mapped to itself, in the memory the comments set aside for it: the first
holds under a condition, the last does not (section 6).

**Register switch** (`createProcess`, `__exec`, `schedule`, `schedule_noirq` of
`tasking.c`, the stub of `kernel.asm`). State: stacks and registers. Hard: ten registers
are pushed and eleven popped, and the interrupt path and the yield path nest in each
other. Correct if a process finds what it relies on.

**Keyboard** (`src/src/drivers/keyboard.c`). State: `keycache`, `key_loc`.
`keyboard_irq` appends, `keyboard_get_key` takes the first key and shifts the rest,
under a mutex that the interrupt does not know. Correct if the shell reads what was
typed, in order, and nothing behind the cache is written; neither holds without
conditions, which section 7 gives.

**ATA** (`src/src/drivers/ata.c`). Polled; the drive is the second party. Correct if
what was written is what is read, and every call ends.

**Interrupt and exception dispatch** and the **shell** are present in the modules above
by what they do to the others. **VFS and device table** and **VGA and system calls** are
not modelled (section 8).

`PROJECT.json` lists, under `hazards`, every place where this code can go wrong in a way
a test would hardly reach, with the properties that watch it.

## 2. The modules and the code

In every module a step is one statement, or one run of statements, that touches state
somebody else can see; the shared variables keep the names of the source, and program
counters stand for where a process is. An operator whose comment starts with "Mutant" is
the definition that follows it with a plausible slip in it. No specification uses it; it
is there to show that the property it belongs to can fail.

| module | models | remarks |
|---|---|---|
| `Tasking` | `tasking.c`, the tick of `pit.c`, `late_init` | the process body is "does something, prints, ends or faults" |
| `RoundRobin` | what a round-robin scheduler promises | abstract: a current process and a queue |
| `TaskingRoundRobin` | the refinement mapping | the ring walked from `c` is the queue |
| `TaskingNic` | `Tasking` with a device handler that prints | one more action, `EchoRequest` |
| `Console` | `kprintf`, `textmode_putc`, the scroll, the mutexes, `memcpy` | |
| `Printer` | what `kprintf` promises | abstract: one whole message at a time |
| `Heap` | `malloc.c` | |
| `Nic` | `intel_e1000.c` and `buf.c`, with the card | |
| `Arp` | `arp.c` with `eth_send_intf`, the set-up of the interface, the default route, pings and echo replies | |
| `Keyboard` | `keyboard_irq` and `keyboard_get_key` | |
| `Ata` | the probe and the sector transfers of `ata.c`, with the drives | |
| `Wire` | decoding of frames, echo replies, checksums, the route table | |
| `Text` | `itoa`, `snprintf`, `sscanf`, `strtok`, addresses as text, the shell's line | |
| `Pci` | `pci_init`, `pci_visit`, `pci_get_bar`, reading the card's hardware address | |
| `Boot` | `mm_init`, `paging_init`, and how the CPU translates | |
| `Switch` | registers and stacks under a yield and an interrupt | who runs next is Tasking's subject |
| `MCData` | the last five, each alone in its behaviours | they share no state |
| `MCDevices` | `Keyboard` and `Ata`, each alone in its behaviours | they share no state either |
| `MC*` | instances for TLC: scripts, claims, numbers, frames | |
| `TaskingProofs`, `ConsoleProofs`, `HeapProofs`, `NicProofs`, `ArpProofs`, `KeyboardProofs`, `AtaProofs` | theorems | section 5; each extends the module it is named after, the first one `TaskingRoundRobin` too |
| `DataProofs` | theorems of `Wire`, `Switch`, `Pci` and `Boot` | each of the four as a behaviour of its own (`WireSpec`, `SwitchSpec`, `PciSpec`, `BootSpec`) |

**Tasking.** `Slots` are the heap blocks in which a PCB (with its stack) can live, so
that a block freed by one process can be the PCB of the next. `Init` is the state
`tasking_init` leaves: kIdle and task1 in the ring. `CreateProcess` is `createProcess`;
`AddOff`, `AddNext`, `AddNextPrev`, `AddPrev`, `AddLink`, `AddOn` and `AddReturn` are
`addProcess` write by write; `WaitOff` .. `WaitYield` are the loop over
`is_pid_running`, PCB by PCB; `KillPrint` .. `KillSwitch` are `_kill`, statement by
statement; `Tick` is `pit_irq` as `irq_handler` runs it, with the EOI that `schedule`
sends. `PrintYield` is one of the yields inside a print. A fatal exception (`BodyFault`,
`Notified`) runs `__notified` with interrupts off on the stack of the process and then
`_kill`. `malloc` is one step here; a heap with no room panics. A process switch happens
only in `schedule`; which context it resumes is `next[c]`, *whatever* the state of that
PCB, as in the code. A freed PCB can also become part of somebody else's block: nobody
but `addProcess` still reads such a PCB, once, for the pid it returns, and `AddReturn`
reads there what the PCB held or any of `Scraps`.

**Console.** Every process has a script of messages and bare `memcpy` calls. `Putc` is
the cursor part of `textmode_putc`, with the cursor unsigned; the scroll is a row copy
at a time, each under `m_memcpy`. `mutex_lock` has the two outcomes its inline assembly
can have, `stores`, chosen at the start among `Outcomes` as the build chooses it: the
intended one, and the one where the compiler reloads EAX between the two statements, so
that a free mutex is entered without being marked. The Makefile's `-O0` gives the
second. `mixed` remembers that somebody went in beside another. From then on two
processes are inside `textmode_putc`, whose statements would interleave more finely than
the steps here, and nothing is said; up to then the model is as fine as the code. An
interrupt or exception handler is a thread of its own with a host, which does not run
until it returns. Who runs next is left open here: that is Tasking's subject.

**Heap.** Addresses are numbers; `status` and `size` are functions of the address of a
header, so that memory nobody has written a header to is outside their domain. A step is
one statement of `malloc`, `free`, `pmalloc` or `pfree`; `Preemptive` says whether
another process can run in between, which is how it is once tasking runs. `owned` and
`frames` record what each client was given, and are what the properties compare the
heap's own marks with. `desc` has one entry more than there are pages: the byte behind
it that `pfree(c->cr3)` writes.

**Nic.** Two threads, the task that sends and the interrupt handler, and the card.
`Send` .. `WriteTail` are `net_alloc_buf` followed by `eth_intel_send`, `Interrupt` ..
`Swap` are `eth_intel_irq` and `eth_intel_poll`, with `eth_recv` reduced to its effect
on the driver: nothing, an answer at once, or an answer after a print. `CardReceive`,
`CardFetch` and `CardSent` are the card, from the way the driver uses its registers. The
heap appears as the mark it keeps for the block of each buffer. `seen`, `posted`, `wire`
and `accepted` are histories; `raced` and `shared` remember that two calls overlapped
and that a buffer had two owners.

**Arp.** `Init` is the moment `eth_intel_init` has enabled the receiver: `SetUp` makes
the interface store by store, in the order of `IntfStores`, then `arp_init` and the
first question, and only then the shell. All of it, and the shell's path (`Ping`,
`Lookup`, `Header`, or `Request` and `arp_add` store by store, then `ReleaseDeferred`,
`Attach` and `Ask`), can be interrupted between any two steps; the handler's is one
step, as it runs with interrupts off, up to a print, which yields: between an echo
request and its reply (`echo`), before `arp_recv` clears an entry whose packet it
dropped, and behind the message that the cache is full (`rest`, finished by `Resume`).
`dead` says that a function that is not there was called, after which nothing is known.
`fate` is where a packet's buffer went, `Holders` where it is: with the shell, with the
handler, on an entry, or gone.

**Keyboard.** One byte of the cache at a time; keys are numbered as they are typed, and
0 is a scan code without a character: it is put into the cache and taken out like a key,
and the shell that gets it asks again at once. The load and the store of `key_loc--` are
separate steps, since an interrupt can fall between them. The memory behind the block
holds `Other` until `keyboard_irq` writes there, which it does. `due` is the history of
what the reader is to return: what was typed, but for the keys typed in a gap of
`keyboard_get_key`, where `Due` says what the code makes of them. `waited` is the most
keys that were waiting at any time.

**Ata.** The driver reads the status register and moves one word at a time; a drive
accepts a command when it is not busy, can fail any command, and commits a written
sector some time after its last word.

**Text.** `given` is what a conversion was asked, `made` what came of it. `kprintf`
converts with `itoa` and `snprintf` with `uitoa` of the absolute value, so that they
differ for the least int; both are here, at `Bits` bits. Text is a sequence of
characters because the one property, that what was printed reads back, is about digits,
signs, field widths and separators; nothing else in the project looks at a character.
`addr_strto_ipv4` stores each number octet by octet over its place in the array and the
octets behind it (`StoreInt`), in the order of `sscanf`.

**Wire.** `Receive` is `eth_recv` down to the answer: which decoding steps let the frame
through, and an echo reply as the code builds it, with the length, the header the ICMP
message begins with and the two checksums word by word. Where the data should be the
reply has copies of its own header (`EchoHeader`), as it was before the checksum was
stored, and it is one octet longer than the request (that octet is whatever the buffer
held, `Old`). `net_route_add` and `net_route_find` are on the same list; an address has
`Width` bits.

**Pci.** One bus of `Devices` by `Functions`, each with a header, BAR 0 and, behind a
64-bit one, BAR 1. A register access through the ports is one step; `pci_write32` writes
with `outportw` and so reaches the lower half only. `Decoded` is the three branches of
`pci_get_bar` as they are tested; `UpperOnes` and `UpperMask` size the upper word.
`FirstRequest` is what `pci_visit` does behind `eth_intel_init`, whether or not that
returned early: `eth_intel_send` with a null ring overwrites what lies there, or waits
there for ever (`spin`).

**Boot.** `mm_init` with the word found at `kernel_end`, which can be anything, and
`memset` with its wrap; `paging_init` directory entry by entry, with a memory of `ram`
octets behind it, up to `TablesEnd`. `Translate` is the CPU's walk through what was
written.

**Switch.** A stack is a sequence of tagged words, and a step is a function entered,
left or switched. The prologues are those of the Makefile's `-O0`, by a compiler that
does not make position-independent code of its own accord. `schedule` pushes ten
registers on top of its own prologue's `ebp`, and pops eleven.

**How they fit together.** `Tasking` gives every process the CPU again and again
(`NobodyStarves`, in the run `tasking`), and the other modules take that as the fairness
of their processes. `Switch` supports Tasking's assumption that a context is a place to
go on from: a yield does not keep `ebx`, `esi` and `edi`, which the unoptimised code
does not count on either. `Console` supports the assumption that a print is a number of
yields that ends. `Nic` and `Arp` share the handler's structure: what is one step in
`Arp` is a run of steps in `Nic`, and the buffer a packet of `Arp` is handed over in is
one `Nic` releases once sent. `Wire` says which of the frames `Arp` calls echo requests
are answered, and `Text` which address the shell's `Ping` goes to. `Pci` ends where
`Arp` begins, and `Boot` gives `Heap` its bounds.

## 3. The runs

| run | configuration, module | states | checks |
|---|---|---|---|
| `tasking` | `MCTasking.cfg`, `MCTasking` | 553,734 | `TypeOK` `RingSound` `PidsUnique` `PreemptionOff`, `NeverResumesFreed` `WaitsForExit` `RoundRobinSpec` `BootCompletes` `NobodyStarves` |
| `tasking_nic` | `TaskingNic.cfg`, `TaskingNic` | violated | `OthersSeeARing` |
| `console` | `MCConsole.cfg`, `MCConsole` | 30,768 | `TypeOK` `MutualExclusion` `WritesOnScreen` `ScreenShowsLog`, `AtomicUntilMixed` `ReturnsUnlessHandlerWaits` |
| `console_mutex` | `MCConsoleMutex.cfg`, `MCConsole` | violated | `PrintsAtomically` |
| `heap` | `MCHeap.cfg`, `MCHeap` | 1,026,164 | `TypeOK` `NoSharing` `ChainSound` `PagesExclusive`, `GrowsWhenFull` |
| `heap_race` | `MCHeapRace.cfg`, `MCHeap` | violated | `NoSharing` |
| `nic` | `MCNic.cfg`, `MCNic` | 966,398 | `TypeOK` `RingsAgree` `FramesInOrder` `ListSound`, `SendsComplete` |
| `nic_buffers` | `MCNicBuffers.cfg`, `MCNic` | violated | `OnlySentIsFreed` |
| `arp` | `MCArp.cfg`, `MCArp` | 298,512 | `EntriesSound` `BuffersAccounted` `AnswersWhole`, `SentRight` `DeferredLeaves` |
| `devices` | `MCDevices.cfg`, `MCDevices` | 295,999 | `CacheSound` `DiskSound`, `KeysArrive` `DiskCallsEnd` |
| `data` | `MCData.cfg`, `MCData` | 187,732 | `TextReadsBack` `EchoAnswers` `FindsBest` `CardsFound` `MemoryLaidOut`, `ComesBack` |
| `paging` | `MCDataPaging.cfg`, `MCData` | violated | `PagingReserved` |

What they show, and why their bounds are enough:

- **tasking.** Four blocks and the shape of `late_init`'s script: three processes of
  which the last is awaited. Blocks are fewer than processes, so they are reused, and
  the heap can run out, which panics in the middle of the script; pids 1 and 4 may
  fault, kIdle and a started process. A tick can fall between any two steps (while
  `task` is 0 it only sends its EOI, which is no step), so a link update outside
  `set_task(0)` would be seen. `RoundRobinSpec` says that all of it, half-done updates
  included, is a current process and a queue that is admitted to, left and rotated.
  `BootCompletes` and `NobodyStarves` say that the script gets to its end and that a
  linked process runs again, unless the kernel stopped in a panic, or late_init was told
  its own pid and waits for itself. `Scraps` is that pid, the one value that makes a
  difference: any other is a process that ends or nobody's. The blocks other than
  kIdle's are alike, so following one of them (`Watched`) is enough for `NobodyStarves`.
  Symmetry is not used, since the run checks liveness. Deadlock is checked: `Halt` is
  the only state that stays, after a panic.
- **console.** Two processes and one handler on a screen of 2 columns and 3 rows (of
  which two show text), with lines longer than the screen is wide, enough characters to
  scroll, a tab, two backspaces, one at column 0, and bare copies. Both builds of the
  mutex are among the behaviours. `MutualExclusion` says that somebody enters beside
  another in the second build only. `AtomicUntilMixed` says that until then `Console`
  implements `Printer`: with the characters of an unfinished message left out, the
  output is that of whole messages printed one at a time. In the first build that is all
  of the behaviour; in the second it lasts until a second caller comes, and
  `console_mutex` shows one come. The run follows a behaviour up to the step that mixes,
  and not beyond (`UntilMixed`). A handler may deadlock with its host (section 7), so
  the run does not check deadlock and states termination as `ReturnsUnlessHandlerWaits`.
- **heap.** Two clients, requests of 4 and 8 bytes, two pages, a heap of 64 bytes that
  four calls of `malloc` can fill: a block of 8 reused for 4, growth, exhaustion, every
  order of calls and frees by two owners. One call at a time, as before tasking and in
  every call no switch interrupts.
- **nic.** Three receive descriptors, of which one always stays with the driver, so that
  two frames can wait, in the order of the ring and around its end; two transmit
  descriptors, which two packets fill; seven blocks; three packets from the task; three
  frames, each good or bad, each answered or not. With more sends than descriptors both
  the wait for a descriptor and its release are exercised. A second frame can arrive
  while the first is handled, and a third once the first is passed on. The wait is a
  busy loop: it sleeps one millisecond, which at 200 Hz is no tick at all.
- **arp.** A cache of two, so that it fills; the gateway, its replacement with a new
  hardware address, two peers and a host without an address; three packets (one
  deferred, one that replaces it, one echo reply), three unasked frames, each of them
  possible from the first store of the set-up on. The shell goes on while the handler is
  in a print.
- **devices.** A cache of 3 and 5 keys, any of which may be a scan code without a
  character: enough for the cache to be full, for a key written to the byte behind it,
  which the loop still moves up, and for one written behind that, which it does not; and
  for two keys in the gaps of one call. Three sectors of two words, calls of one or two
  sectors, three calls: write, overwrite in part, read back. In a behaviour one of the
  two devices runs and the other rests.
- **data.** Numbers at every change of length and at both ends of an int of 16 bits;
  octets 0, 9, 10 and 255 in every place of an address; lines with and without a word
  too many or too few. Frames at every boundary of the decoding, echo requests of every
  small length, odd and even, and the largest. Up to three routes over addresses of two
  bits. Two processes that yield and are interrupted in any order, handlers that yield
  included. Two devices of two functions, of six kinds of BAR 0, one of 64 bits, in
  halves of 8 bits. Page tables of 8 entries, so that a directory maps 8 tables, with
  words at `kernel_end` and memories at each side of every comparison. In a behaviour
  one of the five parts runs and the others rest, so the states add up and do not
  multiply. `MemoryLaidOut` says what the memory has to be for paging to work, which is
  four times what the tables need; that it is not what the comment says is `paging`.

Every property of a passing run comes with a mutant of the model that breaks it
(`PROJECT.json`, `mutants`), so none of them holds by the shape of the model alone. The
runs other than `tasking` end when their scripts or bounds do, so they do not check
deadlock.

## 4. Fairness

Liveness is checked under the following assumptions, each with its reason.

- *Tasking*: `WF(Tick)`, since the PIT runs freely and interrupts when it may; and for
  every block `SF(c = s /\ Work /\ pc'[s] # "signal")`: a process that gets the CPU
  again and again moves on, since a time slice is longer than a statement, a print is a
  finite number of yields, and the init functions of the drivers end. The last is an
  assumption about the devices: `ide_identify` does not end with a drive that is busy
  when it is first looked at and ready later (`Spinning` of `Ata`), and then
  `late_init`, which waits for `ata_init`, starts neither `pci_init` nor the shell.
  `BootCompletes` holds where the drives do not do that. A fault is never obliged to
  happen. Strong fairness is needed because a process loses the CPU, and with it the
  action, again and again.
- *Console*: `WF(Step(q))` per process and `WF(HandlerReturn(h))`. Every process is
  scheduled again and again (`NobodyStarves`). A process that spins on a mutex yields
  after each failed attempt, which changes nothing in this module and is therefore not a
  step. Weak fairness does not promise a spinner that it finds the mutex free while
  others keep taking it; scripts are finite, so at some point they stop. No stronger
  fairness of the lock is assumed: the code has no queue.
- *Nic*: weak fairness of the task, of the handler (a pending interrupt is delivered)
  and of the card (it works off its transmit ring). No frame has to arrive.
- *Arp*: weak fairness of the process that sets up and then is the shell, of the
  handler's returns from its prints (`EchoReply`, `Resume`), and of `Answer`: the
  gateway answers a question. That is an assumption about the network; `DeferredLeaves`
  is what the code owes its callers under it.
- *Keyboard*: weak fairness of the reader; the shell polls for ever.
- *Ata*: weak fairness of the driver and of the drives, which finish or fail what they
  were told. Nobody has to call.
- *Heap* and the parts of `MCData` have no liveness property: their loops are bounded.

## 5. The proofs

All theorems are proved by TLAPS, without the bounds of the runs.

**TaskingProofs**, from `SlotsAssumption`, `StartsAssumption`, `FaultyAssumption` and
`ScrapsAssumption` only: any set of blocks, any boot script, any faults, anything
written over a freed PCB.

| theorem | of every behaviour of `Spec` |
|---|---|
| `Inductive` | the strengthened invariant `IInv` |
| `TypeCorrect` | `TypeOK` |
| `RingIsSound` | `RingSound`, which is the next two together |
| `RingIsConsistent` | `RingConsistent`: links are mutually inverse whenever a switch may happen |
| `RingIsOne` | `OneRing`: a set closed under `next` is all of them |
| `CurrentIsOwned` | `CurrentOwned`: `c` is linked, or is in the last statements of its own `_kill` |
| `PidsAreUnique` | `PidsUnique` |
| `WaitIsExact` | `WaitExact`: `is_pid_running` tells the truth about the whole ring |
| `PreemptionIsBounded` | `PreemptionOff` |
| `ResumesOnlyAllocated` | `NeverResumesFreed` |
| `WaitersWait` | `WaitsForExit` |

`RingConsistent` is not inductive. It says nothing in the middle of an update, where the
next statement relies on what the last one did. `IInv` therefore has a part `Links` that
says, for each statement of `__addProcess` and `_kill`, *of which ring the present links
are the half-done version*: after `p->next->prev = p`, for instance, the links are a
ring but for that one `prev`. Two lemmas about functions alone, `InsertRing` and
`RemoveRing`, show that completing the writes gives a ring on one more or one fewer
process, and that it is still a single cycle. The other parts: `Control` (only kIdle
starts and waits, a block is free exactly from `kill_free` on, whoever is at a statement
of an update is `c` with `task` 0), `Pids`, `Pending` (the process created and not yet
linked), and `Walk` (what `is_pid_running` has passed is a stretch of the ring without
the pid, so that when it is back at `c` the stretch is closed under `next` and `OneRing`
makes it everything). `WaitersWait` needs `Awaited` on top: while the process started
last is linked, the pid `late_init` waits for is that process's, since only a PCB that
was freed is read wrongly.

With `IsFiniteSet(Slots)` besides, which any memory satisfies, `RingIsAQueue` proves
`RoundRobinSpec`, that `Tasking` implements `RoundRobin`. `Circuit(n, w)` says that `w`
lists, after `c`, the `n` processes that `next` reaches before it is back at `c`, or,
once `kill_next` has been done (`Skipped`), at the first of them; all different and all
linked. That there is such a circuit is inductive on top of `IInv`. `QueueIs` shows that
the mapping's `Queue`, a recursive walk of a length that is a minimum, is that list:
`FollowerWalks` constructs the recursive function, `WalkUnique` compares the two, and
`CircuitFits`, a pigeonhole argument, bounds the length, which is where the finiteness
is needed. `StepKinds` sorts every step of the kernel into four: `AddLink` puts `p` in
front (`Admit`), `KillNext` takes `c` out (`Exit`), a switch outside an update rotates
(`Rotate`), and all others, the other writes to the links included, leave the walk as it
is.

**ConsoleProofs**, from the assumptions of `Console`, which leave open how `mutex_lock`
was compiled: either build, any processes and handlers, any scripts, any screen of at
least one column and two rows. `ConsoleTypes` proves `TypeOK`, `MessagesExclude` proves
`MutualExclusion`, `CellsOnScreen` proves `WritesOnScreen`. `IInv` adds that, in the
build that stores the 1, the byte of a mutex is set while somebody is inside (`Marked`),
and, until somebody enters beside another, where the cursor is at each point of
`textmode_putc` (`Cursor`: on the row below the last exactly while it scrolls). Without
`Marked` one could not say that this build never mixes; without the exclusion `Cursor`
is not inductive, since another process could move the cursor between the test and the
write. In the other build the theorems say that whatever goes wrong on the screen begins
with an entry beside another process: `console_mutex` shows such an entry.

`MessagesPrintAtomically` proves `AtomicUntilMixed`, that `Console` implements `Printer`
until a message begins inside another; with `MessagesExclude`, that is for ever in the
build that stores the 1. The mapping takes back the characters of the message in
progress (`Partial`), so that a message appears in `Printed` in the step that finishes
it and every other step stutters. Its part of the invariant, `Progress`, says that the
log ends with the part of its message that the process inside `kprintf` has written so
far, and nothing of anybody else's in between, which again rests on the exclusion. One
lemma per statement says whether it stutters or prints.

`ScreenIsLog` proves `ScreenShowsLog`, again until messages mix. `ScreenInv` says what
the screen shows *in the middle of a character*: while it scrolls, which rows already
hold the line below theirs (`Done`) and which do not; before the character is written,
that the screen shows the lines with the one the character will begin (`Begun`); before
the cursor moves on, that the character is there. It also says that the two rows below
the text stay empty (`BelowEmpty`), since the scroll moves them into the text, and no
statement clears them on the way. What the screen should show, `Lines`, is a recursive
function of the position in the log. That such a function exists, and that there is one
only, is proved by a least counterexample (`FedUnique`, `LinesFedAfter`), so that a step
only needs the last position.

**HeapProofs**, from the assumptions of `Heap` and `Preemptive = FALSE`: any clients,
sizes, number of pages, heap bounds and number of calls. `HeapTypes` (`TypeOK`),
`BlocksApart` (`NoSharing`), `ScansAreSound` (`ChainSound`, from `HeadersChained` for
`Chained` and `MarkedIsHeld` for `StatusIsOwned`), `PagesApart` (`PagesExclusive`),
`FirstFit` (`GrowsWhenFull`). The parts of `IInv`: one call at a time (`Serial`); the
blocks in address order without overlap and below `heap_end` (`Layout`, `Frontier`);
that a block between a test and a hand-out is nobody's (`InHand`, `PagesInHand`); that
blocks handed out are marked and long enough, and marked blocks handed out (`Held`,
`Accounted`); that the blocks a scan has passed do not fit (`Scanned`). `Serial` is the
one the kernel does not guarantee once tasking runs: `heap_race` shows what then becomes
of `NoSharing`.

**NicProofs**, from `RingAssumption`, `BlockAssumption` and `BoundAssumption`: rings of
any size, a heap of any size that holds the receive buffers, any number of frames and
packets. `NicTypes` (`TypeOK`), `RingsStayAgreed` (`RingsAgree`), `FramesStayInOrder`
(`FramesInOrder`), `ListStaysSound` (`ListSound`). `IInv` states the rings by distances,
so that nothing depends on where an index wraps: `Ahead(n, x, y)` is how far `x` is
ahead of `y`, and a descriptor's state follows from its distance to the index the driver
(`RxAhead`) or the card (`TxAhead`) comes to next. The lemmas `Gaps`, `GapMoves` and
`Walks` are all the arithmetic there is. The parts are layered the way section 7 excepts
things:

- always: types, `RingsAgree`, a frame is in hand only while one waits (`InHand`),
  whoever builds a packet has a block (`HasBlock`), and the counts that bound the
  packets (`Counted`);
- while no buffer had two owners: `RxSound`, that `rxBufs` is right although nobody
  updates it, because the buffer released is the one allocated next, and that the
  waiting frames lie, in order, where the card put them;
- while no call overlapped another: the sections of the two threads exclude each other
  (`Apart`), the list holds what is free, once (`ListOwned`), and the transmit ring
  holds `Pending` packets and at most one written descriptor more (`TxRing`);
- while neither: `TxHeld`, that what the descriptors point to is what was posted.

**ArpProofs**, from the four assumptions of `Arp`: a cache of any size, any addresses,
any claims and any number of frames and packets. `EntriesStaySound` (`EntriesSound`),
`BuffersStayAccounted` (`BuffersAccounted`), `AnswersStayWhole` (`AnswersWhole`), and
the action property `FramesSentRight` (`SentRight`). `IInv` says what each point of the
shell's path has found (`PathOK`); that only the gateway's entry holds a deferred packet
(`DeferredOK`); that while no frame fell into the shell's `arp_add` an address has one
entry and the gateway's says what the gateway claimed last or waits (`EntryOK`); that a
deferred packet has an interface (`IntfOK`); that no buffer is in two places (`BufOK`);
and that an entry the handler is still to clear when its print returns is the gateway's,
and answered (`RestOK`): while the handler yields the shell may send, and what it sends
is not lost with the entry. Without "or waits" the last claim would not be inductive: it
is the packet sent to the null address that section 7 names.

**KeyboardProofs**, from `CacheAssumption` and `OtherAssumption`: `KeysStayInOrder`
(`CacheSound`). `IInv` says which of the keys due is at each place of the cache, at each
statement of `keyboard_get_key` and every index of the shifting loop (`InPlace`),
wherever a key was typed, in the gaps too; what the reader has had is the beginning of
what is due (`ReadFirst`); and `key_loc` counts keys due and not read (`Counted`), which
is why it never becomes negative. That nothing behind the cache changes early follows
from where the next key goes.

**AtaProofs**, from the two assumptions of `Ata`: `SectorsStayRight` (`DiskSound`).
`IInv` says what the drive asked will do with the status the driver last read
(`ProbeOK`), that a command that was not taken is followed by no word (`CallOK`), and
how far the sector, the drive's buffer and the caller's agree after each word
(`DataOK`).

**DataProofs**, from the assumptions of the four modules it extends.

- `ProcessComesBack` (`ComesBack`), for any number of processes. `SwitchInv` says that
  the process that runs holds what it was called with or interrupted with, at the depth
  its code is at (`Held`), and that on the stack of every other process lies a frame of
  14 words (`Frame`), from which `schedule` restores a context that holds just that
  (`Parked`). `Leaves` and `Resumes` say that a frame is left and taken back word by
  word; `Interrupted`, `Grows` and `Returns` that a handler's words go on top of it and
  off again. A handler runs with interrupts off, so that nothing nests deeper; this is
  part of `Held`.
- `EveryCardIsFound` (`CardsFound`), for a bus of any size and registers of any width.
  `PciInv` says where the walk is (`Place`), that exactly the cards behind it have an
  entry, in order (`Found`), that every register but the one being measured holds its
  address (`Registers`), and what an entry says (`EntryRight`). What the mask tells of
  the size is arithmetic modulo half a word, by cases on whether the size is less than
  that (`SmallMask`, `LargeMask`); the upper word of a 64-bit size is not one of the
  card's but what 16 written ones leave of a word, whatever the card. That the walk gets
  stuck with a card of ports only comes from the order: a card set up before has rings.
  `PciAssumption` is what a PCI function keeps to: sizes are powers of two, of which it
  uses that one divides the other of a size and half a word; the address is a multiple
  of the size, and fits. Two of its clauses are about the set-up before the kernel: a
  card has been given an address, and ports are fewer than half a word counts.
- `RepliesAreRight` (`EchoAnswers`), for requests of any length that an Ethernet frame
  has (`WireAssumption`: up to 1514 octets). The sum over the words is a recursive
  function that halves an interval; `SumIs` shows, again by a least counterexample, that
  it is the sum word by word. Folding the carry back keeps the remainder by 65535 and
  loses no sum that is not 0 (`FoldedIs`). So the sum of the words, the complement of
  their checksum among them, folds to 65535 and its own checksum is 0 (`SummedIsZero`):
  for the octets in the order in which `net_checksum_final` swaps them. Nothing of the
  frame goes out but what its header says, and of the buffer one octet: the message is
  its header, over and over, and one of `Old`. The limit on the length keeps the sum
  small enough for the two foldings of the code.
- `RouteFoundIsBest` (`FindsBest`), for addresses of any width: the table of two is in
  the order of the masks, whichever comes first.
- `MemoryIsLaidOut` (`MemoryLaidOut`), for tables of any size from 8 entries on, any
  word at `kernel_end` and any memory of whole words. `BootInv` says what each word of
  the directory and of the tables written so far holds, where there is memory for it
  (`Mapped`). A table never overlaps the directory or an earlier table (`WordsApart`),
  so that what was written stays; `Translated` walks the directory and the table as the
  CPU does, and finds a page where it was exactly when both words are in memory, of
  which the last word of the last table comes last (`LastIs`), just below `TablesEnd`.
  `KernelZeroed` does the comparison of `memset` with its wrap in the three places the
  heap can begin.

`Least`, that a set of numbers that is not empty has a least one, takes the place of an
induction in most of these: "the first free block" and "the first entry that matches"
are least elements, and two walks differ at a first place or nowhere. It follows from
the well-foundedness of strict inclusion of finite sets, a theorem of the library
without an operator parameter.

**Only model-checked:**

- the liveness properties `BootCompletes`, `NobodyStarves`, `ReturnsUnlessHandlerWaits`,
  `SendsComplete`, `DeferredLeaves`, `KeysArrive`, `DiskCallsEnd`: temporal proof under
  fairness and `ENABLED` are outside what the prover does;
- `TextReadsBack`. What `itoa`, `sscanf` and `strtok` compute is recursion over the
  characters of a text, through the library's folds over sequences, whose theorems take
  an operator as a parameter, which the installed provers cannot instantiate. It is also
  bound to a width: the 32 characters of `snprintf`'s buffer hold an int of the machine
  and not one of any `Bits`.

With this exception every invariant and every action property that a passing run checks,
the two refinements included, is a theorem.

## 6. Where the code and its comments disagree

Five runs are expected to end with a counterexample. In each the property says what a
comment or a demonstration in the code says, and the code does otherwise.

- **tasking_nic.** `addProcess` "adds process but take care of thers also"
  (`src/src/tasking.c:242`), by `set_task(0)`; `_kill` does the same. But `set_task`
  only stops the *timer* from switching. A device handler that prints hands the CPU on,
  on the stack of the process it interrupted. The run shows the last driver's `_kill`
  interrupted between freeing its PCB and unlinking it.
- **console_mutex.** `mutex_lock` zeroes EAX in one `asm` statement and compares with
  EAX in the next, and neither tells the compiler. Without optimisation the compiler
  loads `m` into EAX in between: the comparison fails and stores nothing, but AL then
  holds the byte, 0 for a free mutex, and the caller goes in without having marked it.
  The run shows two messages mixed, in the demonstration that is called "my mutex game"
  (`src/src/tasking.c:31`).
- **heap_race.** A block with status 1 is to be passed over
  (`src/src/memory/malloc.c:89-90`). Nothing keeps a process switch out of `malloc`,
  between the test and the mark or around `last_alloc`. The run shows two clients with
  overlapping memory.
- **nic_buffers.** `eth_intel_send` is to "free packet that was sent with this
  descriptor" (`src/src/drivers/intel_e1000.c:217`). `net_release_buf` puts a buffer on
  its own free list *and* gives the block back to the heap, so the heap may hand out a
  block that the list hands out too. The run shows a sent packet's buffer freed while it
  is also a receive descriptor's.
- **paging.** "reserve 0-8mb for kernel stuff", "and paging stuff will be from 4mb"
  (`src/src/memory/paging.c:12-14`). `last_page` is a pointer to words, and `last_page
  += 4096` (26) goes on by four pages where one was written: the 1024 tables lie over 16
  MB, and the last ends behind 20 MB. The run shows a table behind the 8 MB. Nothing
  else has been put there, so that paging works on a machine with that much memory
  (`MemoryLaidOut`), and with less some address is not its own.

Further comments that the code does not keep to, which the modules model as the code is,
without a run of their own:

- `src/src/memory/malloc.c:97-98`, "then adjust its size": a free block that is big
  enough is handed out whole. Its size stays, the rest of it is not given back, and
  `memory_used` counts the size asked for.
- `src/src/drivers/pci.c:62`, "get size of the bar": `pci_write32` reaches 16 bits, so
  that for memory the mask has the address in its upper half. The size read is the right
  one or larger; the upper word of a 64-bit size is 0xffff0000. (`CardsFound`)
- `src/src/net/route.c:37`, "insert route at appropriate priority in the table": behind
  the first route with a longer mask, instead of behind all of them, and in front when
  there is none. With two routes that is right, with a third it need not be: masks of
  24, 16 and 8 bits, added as 24, 8, 16, are right, and as 24, 16, 8 are in the order
  24, 8, 16. (`FindsBest`)
- `src/src/net/icmp.c:59` copies the header where the data of the request should go.
  (`EchoAnswers`)

## 7. What the properties except, and why

Some properties hold under a condition. Each condition names something the code really
lets happen and is itself a fact about the kernel worth knowing; the model contains the
excepted behaviour, and the property says that nothing *else* goes wrong. Such a
property characterises the hazard it is listed for and does not rule it out; the notes
of the hazards in `PROJECT.json` say which ones these are.

- `ReturnsUnlessHandlerWaits` (`HandlerDeadlock`): a handler that prints or copies on
  the stack of a process inside `kprintf` or `memcpy` waits for its host, and the host
  for it. The property shows that every deadlock goes through a handler: processes alone
  never deadlock, although the scroll takes `m_memcpy` inside `m_display`.
- `TypeOK` (the cursor), `WritesOnScreen`, `ScreenShowsLog`, `AtomicUntilMixed`
  (`mixed`): once a process is inside a message beside another, which the build that
  does not mark the mutex lets happen, nothing is said of the screen.
  `ReturnsUnlessHandlerWaits` is stated of the behaviours that do not mix, too.
- `ScreenShowsLog` is stated until the first tab or backspace, whose effect on the text
  is not a line of characters; `WritesOnScreen` covers both.
- `BootCompletes`, `NobodyStarves` (`Stopped`): a fault of kIdle or a full heap stops
  the kernel. `BootCompletes` (`WaitsForItself`): `addProcess` reads the pid it returns
  from a PCB that may have been freed and overwritten. If the word there is kIdle's own
  pid, `late_init` waits for itself; with any other it waits for a process that ends, or
  for none. `WaitsForExit` excepts nothing here: a PCB is only freed by its own process,
  so that the process meant is gone.
- `FramesInOrder` (sending), `ListSound`, `SendsComplete` (`raced`): the handler answers
  a request from inside the receive path, and can so enter `eth_intel_send` or
  `net_alloc_buf` while the task is in the middle of it.
- `FramesInOrder` (`shared`): a buffer had two owners, which is what `nic_buffers`
  shows. The receive path itself is right although `rxBufs` is never updated, because a
  released buffer is the next one allocated.
- `SendsComplete` (`Stalled`): `eth_intel_send` waits for the descriptor it is about to
  write. So all of the ring can be outstanding, and then the tail equals the head, which
  the card reads as "empty". A card that is not already sending then never does, and the
  send waits for ever.
- `EntriesSound`, `SentRight`, `DeferredLeaves` (`"add"` in `raced`): a frame handled
  between the search and the stores of the shell's `arp_add` may add the same address or
  take the same slot.
- `BuffersAccounted`, `AnswersWhole`, `DeferredLeaves` (`"attach"` in `raced`): a frame
  handled between the release of an entry's deferred packet and the store of the one
  that takes its place sends the released packet, or clears the interface the shell has
  just stored.
- `AnswersWhole` (`dead`): a question that arrives before `send` and `devSend` are set
  calls a null pointer. The property shows that the window closes with the set-up and
  that no answer leaves with an unset address in it: the functions are stored last.
  `DeferredLeaves` ends there too.
- `BuffersAccounted` counts "lost" as a way to end: with the cache full, or no route
  yet, neither `arp_request` nor `ipv4_send` releases the packet.
- `SentRight` also allows the null hardware address while an earlier packet waits for
  the answer: `arp_lookup` finds an entry that was asked for and not answered, and
  `eth_send_intf` sends to whatever it holds.
- `CacheSound`, `KeysArrive` (`due`): a key that arrives between the load and the store
  of `key_loc` is lost; one put at a place the shifting loop has still to pass takes the
  place of the last key in the cache, or is lost to what lay behind it. The properties
  contain these cases and say what each costs, and that it costs no more. (`waited`):
  when more than `Size + 1` keys wait, those beyond the byte behind the cache are not
  moved up, and of the order nothing is said. `keyboard_irq` writes behind the block
  from the `Size + 1`st on; `CacheSound` says when, and which bytes are still untouched.
- `DiskSound`, `DiskCallsEnd` (`early`): the driver does not wait for a drive that still
  commits the sector before it sends the next command. (`lost`): a commit that fails
  after `ata_write_one` has returned is not seen. (`Spinning`): `ide_identify` looks at
  the first status only, and if that has neither ERR nor DRQ it loops for good.
- `FindsBest` is stated of at most two routes: `net_route_add` puts a route behind the
  first one with a longer mask, so that a third can land before another it should follow
  (section 6).
- `EchoAnswers`: a reply is one octet longer than the request, of what the buffer held,
  and repeats its own ICMP header where the data of the request should be. The property
  says so, and that both checksums verify all the same.
- `TextReadsBack`: `kprintf` does not print the least int, since `itoa` negates it.
  `addr_strto_ipv4` writes behind its array; the property says that it writes zeros.
- `CardsFound`: the size of a memory BAR is only bounded from below, since the write of
  ones reaches half of the register; a BAR of four ports at an address with bit 2 set is
  read as memory; a card without RAL loses the middle word of its address. The upper
  word of a 64-bit size is always the same. The walk may end at a card of ports that
  comes before any other card (`spin`).
- `MemoryLaidOut`: `mm_init` zeroes the kernel for exactly those words at `kernel_end`
  that are not addresses between the kernel and the end of the heap, and paging works
  exactly with memory up to the last table (`TablesEnd`), about 20 MB, where the tables
  alone would need 8. This is what the code needs and not what its comment says
  (`paging`).
- `ComesBack` does not promise `ebx`, `esi`, `edi` after a yield.

## 8. Abstractions, and what is not modelled

Abstractions in the modules:

- A context is the program counter and the interrupt flag everywhere but in `Switch`.
- `malloc` and `free` are one step everywhere but in `Heap`; `link_remove` is one step
  in `Nic`; searches of the ARP cache are one step in `Arp`; a register access is one
  step.
- Stores of six-byte hardware addresses are not torn.
- A handler's wait for a transmit descriptor is in `Nic` and not in `Arp`; a frame's
  content is in `Wire` and not in `Nic`.
- The probe and the transfers of `Ata` have one caller at a time. `ata_read` and
  `ata_write` are offered through the device table, and nothing in the kernel calls them
  yet.
- The keyboard has one reader, the shell.
- The callers of `pmalloc` do not test for the 0 it returns when the pages run out; what
  they would do with that page is not in `Heap`.
- `Console` stops being as fine as the code once messages mix.
- In `Arp` only pings and echo replies send IPv4 frames, by the default route, which is
  the only route the kernel adds for them.

Not modelled:

- `kill` and `jack_the_ripper` (no caller), `tasking_print_all`, `mm_print_out` and the
  other functions that only print; `keyboard_read_key` (no caller).
- Time: `_sleep` has callers that ask for one millisecond, which is no tick at 200 Hz,
  so that nothing depends on the count.
- VFS and the device table: `device_try_to_mount` always returns 0, so nothing is ever
  mounted, and no function on paths has a caller; the mount table they would walk is not
  cleared either, so that there is no state to start from. `device_add` runs once, in
  one process.
- VGA graphics mode and system calls: the `START` of `vga_init` is commented out
  (`src/src/kernel.c:40`) and `syscall_init` has no caller.
- The remapping of the PIC and the gates of the interrupt table, which are written once
  with constants. Exceptions other than 0 and 13 return while tasking is on
  (`src/src/interrupt/isr.c:50-61`).
- Single I/O instructions, and string helpers that are one expression.

## 9. Plan

The order was: the scheduler first, because everything else is written on top of its
guarantees; then the console, because every print is a scheduling point; the heap; the
driver and its buffers; ARP; the keyboard; the disk; then the set-up of the interface
with the fate of its buffers, the liveness of the boot in the same run as its safety,
and the parts without shared state: the register switch, text, the wire, PCI, memory
layout. These are built. What is left, most useful first:

1. *Proofs.* `TextReadsBack`, with recursive functions of a position for its folds, as
   in `Lines` of Console and `net_checksum_acc` of Wire, and a bound on `Bits`.
2. *Composition.* A process that faults inside a mutex: `__notified` prints while the
   mutex stays locked (Tasking with Console). ARP over the driver's buffers (Arp with
   Nic).
3. *A second reader of the keyboard*, for `m_getkey` and for the static `ch` that is
   returned after the unlock; and `cmpxchg` on four bytes where the mutex is one.
