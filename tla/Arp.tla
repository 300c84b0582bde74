-------------------------------- MODULE Arp --------------------------------
(***************************************************************************)
(* Address resolution: src/net/arp.c between eth_send_intf and eth_recv    *)
(* (src/net/eth.c), with what reaches it: the end of the card's set-up     *)
(* (eth_intel_init and pci_visit), the shell's pings (ipv4_send of         *)
(* src/net/ipv4.c through the default route of src/kshell.c), the answers  *)
(* to echo requests (src/net/icmp.c) and the ARP frames that arrive.       *)
(*                                                                         *)
(* The process that sets the card up ends before the shell starts, so one  *)
(* program counter serves both.  Frames are received from the start: the   *)
(* receiver is enabled before the interface exists.  That process can be   *)
(* interrupted between any two steps.  The handler runs with interrupts    *)
(* off, so what it does with a frame is one step up to a print, which      *)
(* yields: before an echo reply, and in arp_recv when a packet is dropped  *)
(* or the cache is full.  The rings below are Nic's business.              *)
(***************************************************************************)
EXTENDS Integers, Sequences, FiniteSets, FiniteSetsExt

CONSTANTS
    ARP_CACHE_SIZE,
    Me, Gw, Zero,       \* our address, the default route's gateway, 0.0.0.0
    Peers,              \* further addresses on the link
    Null,               \* g_nullEthAddr
    Claims,             \* who may claim what: <<hardware address, address>>
    GwMac,              \* the gateway's own hardware address
    Packets, Frames     \* bounds: packets built; frames nobody asked for

ASSUME SizeAssumption    == ARP_CACHE_SIZE \in Nat \ {0}
ASSUME AddressAssumption == Zero \notin Peers \cup {Me, Gw} /\ Gw # Me /\ {Gw, Me} \cap Peers = {}
ASSUME ClaimAssumption   == \A c \in Claims \cup {<<GwMac, Gw>>} : c[1] # Null /\ c[2] \in Peers \cup {Gw, Zero}
ASSUME BoundAssumption   == Packets \in Nat /\ Frames \in Nat

Slot == 1 .. ARP_CACHE_SIZE
IP   == Peers \cup {Me, Gw, Zero}
Mac  == {c[1] : c \in Claims} \cup {GwMac, Null}
Pkt  == 1 .. Packets
None == 0               \* no slot, no packet

\* Mutant: the functions are there before the addresses.
IntfStores_swapped == <<"created", "send", "devSend", "ethAddr", "ipAddr">>

\* The stores that make the interface, in their order.
IntfStores == <<"created", "ethAddr", "ipAddr", "send", "devSend">>

VARIABLES
    arpCache,           \* per slot [ha, pa, intf, type, pkt]
    stores,             \* how many of IntfStores are done
    routed,             \* has kshell_init added the default route?
    pc, entry, pkt,     \* set-up, then shell: label, entry, the packet it sends
    echo,               \* the reply the handler owes once its print returns
    rest,               \* what arp_recv has left to do once its print returns
    asked,              \* a question for Gw is on its way, not yet answered
    dead,               \* the kernel has called a function that is not there
    built, heard,       \* packets built, unasked frames handled
    last,               \* the claim for Gw handled last (history)
    out,                \* the IPv4 frame sent last (history)
    source,             \* the fields in place when the last ARP answer left (history)
    fate,               \* per packet, where its buffer went (history)
    raced               \* parts of arp_request a frame was handled in (history)

task    == <<stores, routed, pc, entry, pkt>>
history == <<last, out, source, fate, raced>>
vars    == <<arpCache, task, echo, rest, asked, dead, built, heard, history>>

Labels == {"setup", "clear", "first", "boot", "idle", "lookup", "header", "request",
           "add", "ha", "pa", "attach", "intf", "type", "store", "ask"}

\* The entry to clear, if any, and is an answer to follow?
Rests  == [slot : Slot \cup {None}, answers : BOOLEAN]
NoRest == [slot |-> None]

\* An entry is only used after it was found.
TypeOK ==
    /\ pc \in {"header", "ha", "pa", "attach", "intf", "type", "store"} => entry # None
    /\ arpCache \in [Slot -> [ha : Mac, pa : IP, intf : BOOLEAN, type : BOOLEAN, pkt : Pkt \cup {None}]]
    /\ pc \in Labels /\ entry \in Slot \cup {None} /\ pkt \in Pkt \cup {None}
    /\ {routed, asked, dead} \subseteq BOOLEAN /\ echo \in Pkt \cup {None} /\ rest \in Rests \cup {NoRest}
    /\ stores \in 0 .. Len(IntfStores) /\ built \in 0 .. Packets /\ heard \in 0 .. Frames
    /\ last \in Mac /\ out \in [to : Mac, pkt : Pkt \cup {None}]
    /\ source \subseteq {"ethAddr", "ipAddr"}
    /\ fate \in [Pkt -> SUBSET {"sent", "released", "lost"}] /\ raced \subseteq {"add", "attach"}

Empty == [ha |-> Null, pa |-> Zero, intf |-> FALSE, type |-> FALSE, pkt |-> None]

\* eth_intel_init has just enabled the receiver.
Init ==
    /\ arpCache = [s \in Slot |-> Empty]
    /\ stores = 0 /\ routed = FALSE /\ pc = "setup" /\ entry = None /\ pkt = None
    /\ echo = None /\ rest = NoRest /\ asked = FALSE /\ dead = FALSE /\ built = 0 /\ heard = 0
    /\ last = Null /\ out = [to |-> Null, pkt |-> None] /\ source = {"ethAddr", "ipAddr"}
    /\ fate = [p \in Pkt |-> {}] /\ raced = {}

-----------------------------------------------------------------------------
\* The first slot with this address, or None.
First(cache, pa) ==
    LET S == {s \in Slot : cache[s].pa = pa} IN IF S = {} THEN None ELSE Min(S)

arp_lookup(pa) == First(arpCache, pa)

\* When the cache is full nothing is added.
arp_add(cache, ha, pa) ==
    LET s == First(cache, Zero)
    IN  IF s = None THEN cache ELSE [cache EXCEPT ![s].ha = ha, ![s].pa = pa]

InPlace == {IntfStores[k] : k \in 1 .. stores}

Ends(p, how) == fate' = [fate EXCEPT ![p] = @ \cup {how}]

-----------------------------------------------------------------------------
(* The end of the set-up: eth_intel_init from the receiver on, then        *)
(* pci_visit: arp_init, and a question for the gateway.                    *)

At(l) == ~dead /\ pc = l

SetUp ==
    /\ At("setup") /\ stores' = stores + 1
    /\ IF stores' = Len(IntfStores) THEN pc' = "clear" /\ entry' = 1 ELSE UNCHANGED <<pc, entry>>
    /\ UNCHANGED <<arpCache, routed, pkt, echo, rest, asked, dead, built, heard, history>>

\* arp_init leaves the deferred packet alone.
ArpInit ==
    /\ At("clear")
    /\ arpCache' = [arpCache EXCEPT ![entry].ha = Null, ![entry].pa = Zero]
    /\ IF entry = ARP_CACHE_SIZE THEN pc' = "first" /\ entry' = None ELSE entry' = entry + 1 /\ UNCHANGED pc
    /\ UNCHANGED <<stores, routed, pkt, echo, rest, asked, dead, built, heard, history>>

FirstPacket ==
    /\ At("first") /\ pc' = "boot"
    /\ asked' = TRUE
    /\ UNCHANGED <<arpCache, stores, routed, entry, pkt, echo, rest, dead, built, heard, history>>

-----------------------------------------------------------------------------
(* The shell: kshell_init, then ping after ping.  ipv4_send's next address *)
(* is the gateway whatever the destination.                                *)

AddRoute ==
    /\ At("boot") /\ pc' = "idle" /\ routed' = TRUE
    /\ UNCHANGED <<arpCache, stores, entry, pkt, echo, rest, asked, dead, built, heard, history>>

Ping ==
    /\ At("idle") /\ built < Packets
    /\ built' = built + 1 /\ pkt' = built + 1
    /\ pc' = "lookup"
    /\ UNCHANGED <<arpCache, stores, routed, entry, echo, rest, asked, dead, heard, history>>

\* eth_send_intf: the entry may still wait for its answer.
Lookup ==
    /\ At("lookup")
    /\ entry' = arp_lookup(Gw)
    /\ pc' = IF entry' = None THEN "request" ELSE "header"
    /\ UNCHANGED <<arpCache, stores, routed, pkt, echo, rest, asked, dead, built, heard, history>>

Header ==
    /\ At("header") /\ pc' = "idle"
    /\ out' = [to |-> arpCache[entry].ha, pkt |-> pkt]
    /\ Ends(pkt, "sent")
    /\ UNCHANGED <<arpCache, stores, routed, entry, pkt, echo, rest, asked, dead, built, heard, last, source, raced>>

\* arp_request.
Request ==
    /\ At("request")
    /\ entry' = arp_lookup(Gw)
    /\ pc' = IF entry' = None THEN "add" ELSE "attach"
    /\ UNCHANGED <<arpCache, stores, routed, pkt, echo, rest, asked, dead, built, heard, history>>

\* Mutant: uses what the search found without a look at it.
AddSearch_unchecked ==
    /\ At("add") /\ pc' = "ha"
    /\ entry' = arp_lookup(Zero)
    /\ UNCHANGED <<arpCache, stores, routed, pkt, echo, rest, asked, dead, built, heard, history>>

\* arp_add, in the shell: the search, then the two stores.  When the cache
\* is full nobody sends or releases the packet.
AddSearch ==
    /\ At("add")
    /\ entry' = arp_lookup(Zero)
    /\ pc' = IF entry' = None THEN "idle" ELSE "ha"
    /\ IF entry' = None THEN Ends(pkt, "lost") ELSE UNCHANGED fate
    /\ UNCHANGED <<arpCache, stores, routed, pkt, echo, rest, asked, dead, built, heard, last, out, source, raced>>

AddHa ==
    /\ At("ha") /\ pc' = "pa"
    /\ arpCache' = [arpCache EXCEPT ![entry].ha = Null]
    /\ UNCHANGED <<stores, routed, entry, pkt, echo, rest, asked, dead, built, heard, history>>

AddPa ==
    /\ At("pa") /\ pc' = "attach"
    /\ arpCache' = [arpCache EXCEPT ![entry].pa = Gw]
    /\ UNCHANGED <<stores, routed, entry, pkt, echo, rest, asked, dead, built, heard, history>>

\* Mutant: a packet deferred before is forgotten.
ReleaseDeferred_missing ==
    /\ At("attach") /\ pc' = "intf"
    /\ UNCHANGED <<arpCache, stores, routed, entry, pkt, echo, rest, asked, dead, built, heard, history>>

\* A packet deferred before is released; the entry still points at it.
ReleaseDeferred ==
    /\ At("attach") /\ pc' = "intf"
    /\ IF arpCache[entry].pkt # None THEN Ends(arpCache[entry].pkt, "released") ELSE UNCHANGED fate
    /\ UNCHANGED <<arpCache, stores, routed, entry, pkt, echo, rest, asked, dead, built, heard, last, out, source, raced>>

\* entry->intf, entry->etherType, entry->pkt.
Attach ==
    /\ \/ At("intf")  /\ pc' = "type"  /\ arpCache' = [arpCache EXCEPT ![entry].intf = TRUE]
       \/ At("type")  /\ pc' = "store" /\ arpCache' = [arpCache EXCEPT ![entry].type = TRUE]
       \/ At("store") /\ pc' = "ask"   /\ arpCache' = [arpCache EXCEPT ![entry].pkt = pkt]
    /\ UNCHANGED <<stores, routed, entry, pkt, echo, rest, asked, dead, built, heard, history>>

\* Mutant: the question is never sent.
Ask_missing ==
    /\ At("ask") /\ pc' = "idle"
    /\ UNCHANGED <<arpCache, stores, routed, entry, pkt, echo, rest, asked, dead, built, heard, history>>

Ask ==
    /\ At("ask") /\ pc' = "idle"
    /\ asked' = TRUE
    /\ UNCHANGED <<arpCache, stores, routed, entry, pkt, echo, rest, dead, built, heard, history>>

Task ==
    \/ SetUp \/ ArpInit \/ FirstPacket
    \/ AddRoute \/ Ping \/ Lookup \/ Header \/ Request
    \/ AddSearch \/ AddHa \/ AddPa \/ ReleaseDeferred \/ Attach \/ Ask

-----------------------------------------------------------------------------
(* The handler.                                                            *)

Adding    == {"add", "ha", "pa"}
Attaching == {"intf", "type", "store"}

Races == raced' = raced \cup (IF pc \in Adding THEN {"add"} ELSE IF pc \in Attaching THEN {"attach"} ELSE {})

\* Mutant: the new address is not taken over.
Merge_stale(cache, s, sha) == [cache EXCEPT ![s].intf = FALSE, ![s].type = FALSE, ![s].pkt = None]

\* The address is updated and the deferred packet leaves.
Merge(cache, s, sha) ==
    LET new == [cache EXCEPT ![s].ha = sha]
    IN  IF cache[s].pkt = None THEN new
        ELSE [new EXCEPT ![s].intf = FALSE, ![s].type = FALSE, ![s].pkt = None]

\* Mutant: adds the address although it was merged.
Learn_unmerged(sha, spa, forUs) ==
    LET s    == arp_lookup(spa)
        upto == IF s # None THEN Merge(arpCache, s, sha) ELSE arpCache
    IN  IF forUs THEN arp_add(upto, sha, spa) ELSE upto

Learn(sha, spa, forUs) ==
    LET s == arp_lookup(spa)
    IN  IF s # None THEN Merge(arpCache, s, sha)
        ELSE IF forUs THEN arp_add(arpCache, sha, spa)
        ELSE arpCache

\* arp_reply, which goes through intf->send and intf->devSend.
Reply(answers) ==
    /\ dead' = (answers /\ ~({"send", "devSend"} \subseteq InPlace))
    /\ source' = IF answers /\ ~dead' THEN InPlace \cap {"ethAddr", "ipAddr"} ELSE source

\* arp_recv of a well-formed frame: sha claims spa; is it for our address,
\* and does it ask?  A deferred packet leaves through the interface its entry
\* names.  A packet without a type is dropped with a print before the entry
\* is cleared; one more print says that the cache is full.
Recv(sha, spa, forUs, asks) ==
    LET s        == arp_lookup(spa)
        deferred == IF s = None THEN None ELSE arpCache[s].pkt
        sends    == deferred # None /\ arpCache[s].type
        drops    == deferred # None /\ ~arpCache[s].type
        full     == s = None /\ forUs /\ arp_lookup(Zero) = None
        wild     == sends /\ ~arpCache[s].intf
        answers  == forUs /\ asks
    IN  /\ arpCache' = IF drops THEN [arpCache EXCEPT ![s].ha = sha] ELSE Learn(sha, spa, forUs)
        /\ out' = IF sends /\ ~wild THEN [to |-> sha, pkt |-> deferred] ELSE out
        /\ IF deferred = None THEN UNCHANGED fate
           ELSE Ends(deferred, IF sends THEN "sent" ELSE "lost")
        /\ rest' = IF drops THEN [slot |-> s, answers |-> answers]
                   ELSE IF full THEN [slot |-> None, answers |-> answers] ELSE NoRest
        /\ IF wild THEN dead' = TRUE /\ UNCHANGED source
           ELSE Reply(answers /\ rest' = NoRest)
        /\ last' = IF spa = Gw THEN sha ELSE last
        /\ Races

\* arp_recv after its print: whatever waits on the entry by then is cleared.
Resume ==
    /\ ~dead /\ rest # NoRest /\ rest' = NoRest
    /\ LET s == rest.slot
       IN  \/ s = None /\ UNCHANGED <<arpCache, fate>>
           \/ /\ s # None
              /\ arpCache' = [arpCache EXCEPT ![s].intf = FALSE, ![s].type = FALSE, ![s].pkt = None]
              /\ IF arpCache[s].pkt = None THEN UNCHANGED fate ELSE Ends(arpCache[s].pkt, "lost")
    /\ Reply(rest.answers)
    /\ UNCHANGED <<task, echo, asked, built, heard, last, out, raced>>

\* A frame nobody asked for: another host's question or announcement.
ArpFrame(c, forUs, asks) ==
    /\ ~dead /\ echo = None /\ rest = NoRest /\ heard < Frames
    /\ heard' = heard + 1
    /\ Recv(c[1], c[2], forUs, asks)
    /\ UNCHANGED <<task, echo, asked, built>>

Answer ==
    /\ ~dead /\ echo = None /\ rest = NoRest /\ asked
    /\ asked' = FALSE
    /\ Recv(GwMac, Gw, TRUE, FALSE)
    /\ UNCHANGED <<task, echo, built, heard>>

EchoRequest ==
    /\ ~dead /\ echo = None /\ rest = NoRest /\ built < Packets
    /\ built' = built + 1 /\ echo' = built + 1
    /\ UNCHANGED <<arpCache, task, rest, asked, dead, heard, history>>

\* icmp_echo_reply, when the print has returned: without a route, or with
\* no room in the cache, nobody sends or releases the packet.
EchoReply ==
    /\ ~dead /\ echo # None /\ echo' = None
    /\ LET s    == arp_lookup(Gw)
           with == arp_add(arpCache, Null, Gw)
           new  == First(with, Gw)
       IN  \/ /\ ~routed \/ new = None
              /\ Ends(echo, "lost")
              /\ UNCHANGED <<arpCache, out, asked>>
           \/ /\ routed /\ s # None
              /\ out' = [to |-> arpCache[s].ha, pkt |-> echo]
              /\ Ends(echo, "sent")
              /\ UNCHANGED <<arpCache, asked>>
           \/ /\ routed /\ s = None /\ new # None
              /\ arpCache' = [with EXCEPT ![new].intf = TRUE, ![new].type = TRUE, ![new].pkt = echo]
              /\ asked' = TRUE /\ UNCHANGED <<out, fate>>
    /\ Races
    /\ UNCHANGED <<task, rest, dead, built, heard, last, source>>

Next ==
    \/ Task \/ Answer \/ Resume \/ EchoRequest \/ EchoReply
    \/ \E c \in Claims, forUs, asks \in BOOLEAN : ArpFrame(c, forUs, asks)

Spec == Init /\ [][Next]_vars

(* The process runs again and again, a handler returns from its print, and *)
(* the gateway answers: the last is an assumption about the network, under *)
(* which the code owes its callers the packet.                             *)
FairSpec == Spec /\ WF_vars(Task) /\ WF_vars(Answer)
                 /\ WF_vars(Resume) /\ WF_vars(EchoReply)

-----------------------------------------------------------------------------
(* What must hold                                                          *)

(* An address has one entry, although the shell and the handler both add   *)
(* entries after a search of their own; only a frame that is handled in    *)
(* the middle of the shell's arp_add leads to a second one, which no       *)
(* lookup ever finds.                                                      *)
OneEntry ==
    "add" \notin raced => \A s, t \in Slot : arpCache[s].pa = arpCache[t].pa => s = t \/ arpCache[s].pa = Zero

(* The cache stays within its size, and says one thing of an address.      *)
EntriesSound == TypeOK /\ OneEntry

(* An IPv4 frame leaves for the hardware address its next hop claimed last *)
(* or, while an earlier packet waits for the answer, for the null address: *)
(* eth_send_intf does not see that the entry it finds is unanswered.       *)
SentRight ==
    [][out' # out /\ "add" \notin raced' =>
          \/ out'.to = last' /\ out'.to # Null
          \/ /\ out'.to = Null
             /\ \/ pc \in Attaching \cup {"attach"}
                \/ \E s \in Slot : arpCache[s].pa = Gw /\ arpCache[s].pkt # None]_vars

(* A deferred packet leaves, or is replaced by a later one, once the       *)
(* gateway answers: it is never left behind on an entry that is resolved.  *)
DeferredLeaves ==
    \A p \in Pkt :
        (\E s \in Slot : arpCache[s].pkt = p) ~> (raced # {} \/ dead \/ \A s \in Slot : arpCache[s].pkt # p)

\* Where the buffer of packet p is: with the one who sends it, on an entry,
\* or where it went.
Holders(p) ==
    {w \in {<<0, "task">>} : pkt = p /\ pc \in {"lookup", "header", "request"} \cup Adding \cup Attaching \cup {"attach"}}
    \cup {w \in {<<0, "handler">>} : echo = p}
    \cup {<<s, "entry">> : s \in {t \in Slot : arpCache[t].pkt = p /\ ~(t = entry /\ pc \in Attaching)}}
    \cup {<<0, f>> : f \in fate[p]}

(* A packet's buffer is in one place at a time and goes one way in the end:*)
(* to the card's driver, which releases it once it is sent, back to the    *)
(* list because a later packet took its place, or nowhere, when there is   *)
(* no room in the cache or no route.  A frame that is handled while        *)
(* arp_request replaces a deferred packet breaks this: it sends the one    *)
(* that was just released.                                                 *)
BuffersAccounted == "attach" \notin raced => \A p \in 1 .. built : Cardinality(Holders(p)) = 1

(* Frames are handled from the moment the receiver is enabled.  No answer  *)
(* leaves with an address of ours that is not set, and a function that is  *)
(* not there is only called before the set-up ends, or by a frame that     *)
(* cleared the interface of a deferred packet while arp_request stored it. *)
AnswersWhole ==
    /\ source = {"ethAddr", "ipAddr"}
    /\ dead => stores < Len(IntfStores) \/ "attach" \in raced

=============================================================================
