----------------------------- MODULE ArpProofs -----------------------------
(***************************************************************************)
(* Address resolution with a cache of any size, any addresses, and any     *)
(* number of packets and frames.                                           *)
(***************************************************************************)
EXTENDS Arp, TLAPS, FiniteSetTheorems, WellFoundedInduction

Starting == {"setup", "clear", "first", "boot"}
Placing  == {"attach"} \cup Attaching
Sending  == {"lookup", "header", "request"} \cup Adding \cup Placing

\* The shell's path: what it has found, and the packet it brings.
PathOK ==
    /\ pc = "setup" <=> stores < Len(IntfStores)
    /\ ~routed <=> pc \in Starting
    /\ pc = "clear" => entry \in Slot
    /\ pc \in Sending => pkt \in 1 .. built
    /\ pc \in {"header"} \cup Placing => arpCache[entry].pa = Gw
    /\ echo \in 0 .. built
    /\ \A p \in Pkt : p > built => fate[p] = {}

\* Packets are deferred for the gateway only, and only by way of a route.
DeferredOK ==
    \A s \in Slot : arpCache[s].pkt # None =>
        arpCache[s].pa = Gw /\ arpCache[s].pkt \in 1 .. built /\ routed

\* The gateway's entry says what the gateway claimed last, or waits.
Waits(s)    == arpCache[s].ha = Null /\ (pc \in Placing \/ arpCache[s].pkt # None)
Resolved(s) == arpCache[s].ha # Null /\ arpCache[s].ha = last

EntryOK ==
    "add" \notin raced =>
        /\ \A s, t \in Slot : arpCache[s].pa = arpCache[t].pa => s = t \/ arpCache[s].pa = Zero
        /\ pc \in Adding => \A s \in Slot : arpCache[s].pa # Gw
        /\ pc \in {"ha", "pa"} => arpCache[entry].pa = Zero
        /\ pc = "pa" => arpCache[entry].ha = Null
        /\ \A s \in Slot : arpCache[s].pa = Gw => Waits(s) \/ Resolved(s)

\* A deferred packet has the interface it leaves through.
IntfOK ==
    "attach" \notin raced =>
        /\ \A s \in Slot : arpCache[s].pkt # None => arpCache[s].intf /\ arpCache[s].type
        /\ pc \in {"type", "store"} => arpCache[entry].intf
        /\ pc = "store" => arpCache[entry].type

\* One place holds a packet's buffer.
BufOK == "attach" \notin raced => \A p \in 1 .. built : \E h \in Holders(p) : \A g \in Holders(p) : g = h

\* While arp_recv prints, the entry it is about to clear is the gateway's and
\* has the address just heard; only a frame handled in the middle of
\* arp_request leaves a packet without a type there.
RestOK ==
    rest # NoRest =>
        /\ echo = None
        /\ rest.slot # None =>
               /\ "attach" \in raced /\ routed
               /\ "add" \notin raced => arpCache[rest.slot].pa = Gw /\ Resolved(rest.slot)

CacheOK == TypeOK /\ PathOK /\ DeferredOK /\ EntryOK /\ IntfOK /\ BufOK /\ AnswersWhole
IInv    == CacheOK /\ RestOK

-----------------------------------------------------------------------------
(* Every set of numbers that is not empty has a least one: the intervals   *)
(* from 0 to its members are finite sets, ordered by inclusion.            *)
LEMMA Least ==
    ASSUME NEW T \in SUBSET Nat, T # {}
    PROVE  \E m \in T : \A k \in T : m <= k
<1> DEFINE F == {0 .. m : m \in T}
           R == StrictSubsetOrdering(Nat)
           S == FiniteSubsetsOf(Nat)
<1>1. F \subseteq S /\ F # {}
  <2>1. \A m \in T : IsFiniteSet(0 .. m) /\ 0 .. m \in SUBSET Nat
    BY FS_Interval
  <2> QED BY <2>1 DEF FiniteSubsetsOf
<1>2. IsWellFoundedOn(R, S)
  BY FS_StrictSubsetOrderingWellFounded
<1>3. PICK x \in F : \A y \in F : ~ (<<y, x>> \in R)
  <2> HIDE DEF F, R, S
  <2> QED BY <1>1, <1>2, WFMin
<1>4. PICK m \in T : x = 0 .. m
  OBVIOUS
<1>5. ASSUME NEW k \in T, k < m PROVE FALSE
  <2>1. 0 .. k \in F /\ 0 .. k \subseteq 0 .. m /\ 0 .. k \in SUBSET Nat /\ 0 .. m \in SUBSET Nat
    BY <1>5
  <2>2. m \in 0 .. m /\ m \notin 0 .. k
    BY <1>5
  <2>3. <<0 .. k, 0 .. m>> \in R
    BY <2>1, <2>2 DEF StrictSubsetOrdering
  <2> QED BY <1>3, <1>4, <2>1, <2>3
<1> QED BY <1>5

(* arp_lookup finds an entry with the address exactly when there is one.   *)
LEMMA FirstFound ==
    ASSUME NEW cache, NEW pa
    PROVE  \/ First(cache, pa) = None /\ \A t \in Slot : cache[t].pa # pa
           \/ First(cache, pa) \in Slot /\ cache[First(cache, pa)].pa = pa
<1> DEFINE S == {s \in Slot : cache[s].pa = pa}
<1>1. CASE S = {}
  BY <1>1 DEF First
<1>2. CASE S # {}
  <2>1. S \in SUBSET Nat
    BY SizeAssumption DEF Slot
  <2>2. PICK m \in S : \A k \in S : m <= k
    BY <1>2, <2>1, Least
  <2>3. Min(S) \in S
    <3> HIDE DEF S
    <3> QED BY <2>2 DEF Min
  <2>4. First(cache, pa) = Min(S)
    BY <1>2 DEF First
  <2> QED BY <2>3, <2>4
<1> QED BY <1>1, <1>2

LEMMA Constants ==
    /\ None \notin Slot /\ None \notin Pkt /\ Slot \subseteq Nat /\ Pkt \subseteq Nat /\ ARP_CACHE_SIZE \in Slot
    /\ Null \in Mac /\ GwMac \in Mac /\ Gw \in IP /\ Zero \in IP /\ Gw # Zero /\ GwMac # Null
    /\ \A c \in Claims : c[1] \in Mac /\ c[1] # Null /\ c[2] \in IP
<1>1. None \notin Slot /\ None \notin Pkt /\ Slot \subseteq Nat /\ Pkt \subseteq Nat /\ ARP_CACHE_SIZE \in Slot
  BY SizeAssumption, BoundAssumption DEF None, Slot, Pkt
<1>2. Null \in Mac /\ GwMac \in Mac /\ Gw \in IP /\ Zero \in IP /\ Gw # Zero
  BY AddressAssumption DEF Mac, IP
<1>3. GwMac # Null
  <2> DEFINE c == <<GwMac, Gw>>
  <2>1. c[1] # Null
    BY ClaimAssumption, Zenon
  <2> QED BY <2>1
<1>4. ASSUME NEW c \in Claims PROVE c[1] \in Mac /\ c[1] # Null /\ c[2] \in IP
  BY ClaimAssumption DEF Mac, IP
<1> QED BY <1>1, <1>2, <1>3, <1>4

LEMMA InitIInv == Init => IInv
<1> SUFFICES ASSUME Init PROVE IInv
  OBVIOUS
<1>1. TypeOK
  <2>1. Empty \in [ha : Mac, pa : IP, intf : BOOLEAN, type : BOOLEAN, pkt : Pkt \cup {None}]
    BY Constants DEF Empty
  <2>2. arpCache \in [Slot -> [ha : Mac, pa : IP, intf : BOOLEAN, type : BOOLEAN, pkt : Pkt \cup {None}]]
    BY <2>1 DEF Init
  <2>3. fate \in [Pkt -> SUBSET {"sent", "released", "lost"}]
    BY DEF Init
  <2>4. out \in [to : Mac, pkt : Pkt \cup {None}] /\ last \in Mac
    BY Constants DEF Init
  <2>5. stores \in 0 .. Len(IntfStores) /\ built \in 0 .. Packets /\ heard \in 0 .. Frames
    BY BoundAssumption DEF Init, IntfStores
  <2> QED BY <2>2, <2>3, <2>4, <2>5 DEF Init, TypeOK, Labels
<1>2. \A s \in Slot : arpCache[s].pkt = None /\ arpCache[s].pa = Zero
  BY DEF Init, Empty
<1>4. PathOK
  BY Constants DEF Init, PathOK, Starting, Sending, Placing, Adding, Attaching, IntfStores, None
<1>5. DeferredOK /\ IntfOK /\ EntryOK
  BY <1>2, Constants DEF Init, DeferredOK, IntfOK, EntryOK, Adding
<1>3. BufOK /\ AnswersWhole /\ RestOK
  BY DEF Init, BufOK, AnswersWhole, RestOK
<1> QED BY <1>1, <1>3, <1>4, <1>5 DEF IInv, CacheOK

-----------------------------------------------------------------------------
Entry == [ha : Mac, pa : IP, intf : BOOLEAN, type : BOOLEAN, pkt : Pkt \cup {None}]

(* What a frame does to the cache: it updates the entry of its sender and  *)
(* takes the packet that waits there, or it makes an entry, or neither.  A *)
(* packet without a type is left there until the print returns.            *)
LEMMA RecvCache ==
    ASSUME CacheOK, NEW sha \in Mac, NEW spa \in IP, NEW forUs, NEW asks, Recv(sha, spa, forUs, asks)
    PROVE  LET s == arp_lookup(spa) IN
           /\ arpCache' \in [Slot -> Entry]
           /\ \/ /\ s \in Slot /\ arpCache[s].pa = spa
                 /\ arpCache'[s].ha = sha /\ arpCache'[s].pa = spa /\ arpCache'[s].pkt = None
                 /\ arpCache[s].pkt = None =>
                        arpCache'[s].intf = arpCache[s].intf /\ arpCache'[s].type = arpCache[s].type
                 /\ \A t \in Slot : t # s => arpCache'[t] = arpCache[t]
              \/ /\ s = None /\ \A t \in Slot : arpCache[t].pa # spa
                 /\ \E z \in Slot :
                        /\ arpCache[z].pa = Zero /\ arpCache'[z].pa = spa /\ arpCache'[z].ha = sha
                        /\ arpCache'[z].intf = arpCache[z].intf /\ arpCache'[z].type = arpCache[z].type
                        /\ arpCache'[z].pkt = arpCache[z].pkt
                        /\ \A t \in Slot : t # z => arpCache'[t] = arpCache[t]
              \/ s = None /\ arpCache' = arpCache /\ \A t \in Slot : arpCache[t].pa # spa
              \/ /\ s \in Slot /\ arpCache[s].pa = spa /\ arpCache[s].pkt # None /\ ~arpCache[s].type
                 /\ arpCache'[s].ha = sha /\ arpCache'[s].pa = spa /\ arpCache'[s].pkt = arpCache[s].pkt
                 /\ arpCache'[s].intf = arpCache[s].intf /\ arpCache'[s].type = arpCache[s].type
                 /\ \A t \in Slot : t # s => arpCache'[t] = arpCache[t]
<1> DEFINE s == arp_lookup(spa)
           drops == s # None /\ arpCache[s].pkt # None /\ ~arpCache[s].type
<1>1. arpCache' = IF drops THEN [arpCache EXCEPT ![s].ha = sha] ELSE Learn(sha, spa, forUs)
  BY DEF Recv
<1>2. arpCache \in [Slot -> Entry]
  BY DEF CacheOK, TypeOK, Entry
<1>3. \/ s = None /\ \A t \in Slot : arpCache[t].pa # spa
      \/ s \in Slot /\ arpCache[s].pa = spa
  BY FirstFound DEF arp_lookup
<1> HIDE DEF s
<1>4. CASE s = None
  <2> DEFINE z == First(arpCache, Zero)
  <2>1. arpCache' = IF forUs THEN arp_add(arpCache, sha, spa) ELSE arpCache
    BY <1>1, <1>4 DEF Learn, s
  <2>2. z = None \/ (z \in Slot /\ arpCache[z].pa = Zero)
    BY FirstFound
  <2>3. arpCache' = arpCache \/ (z # None /\ arpCache' = [arpCache EXCEPT ![z].ha = sha, ![z].pa = spa])
    BY <2>1 DEF arp_add
  <2> HIDE DEF z
  <2>4. CASE arpCache' = arpCache
    BY <1>2, <1>3, <1>4, <2>4, Constants DEF s
  <2>5. CASE z # None /\ arpCache' = [arpCache EXCEPT ![z].ha = sha, ![z].pa = spa]
    <3>1. z \in Slot /\ arpCache[z].pa = Zero
      BY <2>2, <2>5
    <3>2. /\ arpCache' \in [Slot -> Entry]
          /\ arpCache'[z].pa = spa /\ arpCache'[z].ha = sha
          /\ arpCache'[z].intf = arpCache[z].intf /\ arpCache'[z].type = arpCache[z].type
          /\ arpCache'[z].pkt = arpCache[z].pkt
          /\ \A t \in Slot : t # z => arpCache'[t] = arpCache[t]
      BY <1>2, <2>5, <3>1 DEF Entry
    <3> QED BY <1>3, <1>4, <3>1, <3>2, Constants DEF s
  <2> QED BY <2>3, <2>4, <2>5
<1>5. CASE s # None /\ ~drops
  <2>1. s \in Slot /\ arpCache[s].pa = spa /\ arpCache' = Merge(arpCache, s, sha)
    BY <1>1, <1>3, <1>5 DEF Learn, s
  <2>2. CASE arpCache[s].pkt = None
    <3>1. arpCache' = [arpCache EXCEPT ![s].ha = sha]
      BY <2>1, <2>2 DEF Merge
    <3> QED BY <1>2, <2>1, <2>2, <3>1 DEF Entry, s
  <2>3. CASE arpCache[s].pkt # None
    <3>1. arpCache' = [[arpCache EXCEPT ![s].ha = sha] EXCEPT
                          ![s].intf = FALSE, ![s].type = FALSE, ![s].pkt = None]
      BY <2>1, <2>3 DEF Merge
    <3> QED BY <1>2, <2>1, <2>3, <3>1 DEF Entry, s
  <2> QED BY <2>2, <2>3
<1>6. CASE drops
  <2>1. s \in Slot /\ arpCache[s].pa = spa /\ arpCache' = [arpCache EXCEPT ![s].ha = sha]
    BY <1>1, <1>3, <1>6, Constants
  <2> QED BY <1>2, <1>6, <2>1 DEF Entry, s
<1> QED BY <1>4, <1>5, <1>6

(* Where the buffer of a packet may be.                                    *)
LEMMA Held ==
    ASSUME NEW p, NEW h
    PROVE  h \in Holders(p) <=>
               \/ h = <<0, "task">> /\ pkt = p /\ pc \in Sending
               \/ h = <<0, "handler">> /\ echo = p
               \/ \E t \in Slot : h = <<t, "entry">> /\ arpCache[t].pkt = p /\ ~(t = entry /\ pc \in Attaching)
               \/ \E f \in fate[p] : h = <<0, f>>
BY DEF Holders, Sending, Placing, Adding, Attaching

LEMMA HeldNext ==
    ASSUME NEW p, NEW h
    PROVE  h \in Holders(p)' <=>
               \/ h = <<0, "task">> /\ pkt' = p /\ pc' \in Sending
               \/ h = <<0, "handler">> /\ echo' = p
               \/ \E t \in Slot : h = <<t, "entry">> /\ arpCache'[t].pkt = p /\ ~(t = entry' /\ pc' \in Attaching)
               \/ \E f \in fate'[p] : h = <<0, f>>
BY DEF Holders, Sending, Placing, Adding, Attaching

(* A packet whose places did not change has one if it had one.             *)
LEMMA HeldStill ==
    ASSUME NEW p \in 1 .. built, BufOK, "attach" \notin raced,
           pkt' = p /\ pc' \in Sending <=> pkt = p /\ pc \in Sending,
           echo' = p <=> echo = p,
           \A t \in Slot : arpCache'[t].pkt = p /\ ~(t = entry' /\ pc' \in Attaching)
                       <=> arpCache[t].pkt = p /\ ~(t = entry /\ pc \in Attaching),
           fate'[p] = fate[p]
    PROVE  \E h \in Holders(p)' : \A g \in Holders(p)' : g = h
<1>1. \A h : h \in Holders(p)' <=> h \in Holders(p)
  BY Held, HeldNext
<1>2. \E h \in Holders(p) : \A g \in Holders(p) : g = h
  BY DEF BufOK
<1> QED BY <1>1, <1>2

(* The one place a packet is in.                                           *)
LEMMA HeldOnce ==
    ASSUME NEW p \in 1 .. built, BufOK, "attach" \notin raced, TypeOK
    PROVE  /\ pkt = p /\ pc \in Sending =>
                  echo # p /\ fate[p] = {} /\ \A t \in Slot : arpCache[t].pkt = p => t = entry /\ pc \in Attaching
           /\ echo = p => ~(pkt = p /\ pc \in Sending) /\ fate[p] = {}
                          /\ \A t \in Slot : arpCache[t].pkt = p => t = entry /\ pc \in Attaching
           /\ \A s \in Slot : arpCache[s].pkt = p /\ ~(s = entry /\ pc \in Attaching) =>
                  /\ ~(pkt = p /\ pc \in Sending) /\ echo # p /\ fate[p] = {}
                  /\ \A t \in Slot : arpCache[t].pkt = p /\ t # s => t = entry /\ pc \in Attaching
<1>1. PICK h \in Holders(p) : \A g \in Holders(p) : g = h
  BY DEF BufOK
<1>2. pkt = p /\ pc \in Sending => h = <<0, "task">>
  BY <1>1, Held
<1>3. echo = p => h = <<0, "handler">>
  BY <1>1, Held
<1>4. \A t \in Slot : arpCache[t].pkt = p /\ ~(t = entry /\ pc \in Attaching) => h = <<t, "entry">>
  BY <1>1, Held
<1>5. \A f \in fate[p] : h = <<0, f>>
  BY <1>1, Held
<1>6. fate[p] \subseteq {"sent", "released", "lost"}
  BY BoundAssumption DEF TypeOK, Pkt
<1> QED BY <1>2, <1>3, <1>4, <1>5, <1>6

-----------------------------------------------------------------------------
(* A frame that is handled: the cache, the packet that waited for it, and  *)
(* the answer.                                                             *)
LEMMA RecvStep ==
    ASSUME CacheOK, ~dead, NEW sha \in Mac, sha # Null, NEW spa \in IP,
           NEW forUs \in BOOLEAN, NEW asks \in BOOLEAN, Recv(sha, spa, forUs, asks),
           UNCHANGED <<task, echo, built>>, heard' \in 0 .. Frames, asked' \in BOOLEAN
    PROVE  CacheOK'
<1> DEFINE s == arp_lookup(spa)
           d == IF s = None THEN None ELSE arpCache[s].pkt
           Updated == /\ s \in Slot /\ arpCache[s].pa = spa
                      /\ arpCache'[s].ha = sha /\ arpCache'[s].pa = spa /\ arpCache'[s].pkt = None
                      /\ arpCache[s].pkt = None =>
                             arpCache'[s].intf = arpCache[s].intf /\ arpCache'[s].type = arpCache[s].type
                      /\ \A t \in Slot : t # s => arpCache'[t] = arpCache[t]
           Added(z) == /\ arpCache[z].pa = Zero /\ arpCache'[z].pa = spa /\ arpCache'[z].ha = sha
                       /\ arpCache'[z].intf = arpCache[z].intf /\ arpCache'[z].type = arpCache[z].type
                       /\ arpCache'[z].pkt = arpCache[z].pkt
                       /\ \A t \in Slot : t # z => arpCache'[t] = arpCache[t]
           Kept == /\ s \in Slot /\ arpCache[s].pa = spa /\ arpCache[s].pkt # None /\ ~arpCache[s].type
                   /\ arpCache'[s].ha = sha /\ arpCache'[s].pa = spa /\ arpCache'[s].pkt = arpCache[s].pkt
                   /\ arpCache'[s].intf = arpCache[s].intf /\ arpCache'[s].type = arpCache[s].type
                   /\ \A t \in Slot : t # s => arpCache'[t] = arpCache[t]
           Unknown == s = None /\ \A t \in Slot : arpCache[t].pa # spa
<1>1. arpCache' \in [Slot -> Entry]
  BY RecvCache
<1>2. \/ Updated
      \/ Unknown /\ \E z \in Slot : Added(z)
      \/ Unknown /\ arpCache' = arpCache
      \/ Kept
  BY RecvCache
<1>3. UNCHANGED <<stores, routed, pc, entry, pkt, echo, built>>
  BY DEF task
<1>4. /\ raced \subseteq raced' /\ raced' \subseteq {"add", "attach"}
      /\ pc \in Adding => "add" \in raced'
      /\ pc \in Attaching => "attach" \in raced'
      /\ "attach" \in raced' => "attach" \in raced \/ pc \in Attaching
  BY DEF Recv, Races, CacheOK, TypeOK, Adding, Attaching
<1>5. \E how \in {"sent", "lost"} :
          fate' = IF d = None THEN fate ELSE [fate EXCEPT ![d] = @ \cup {how}]
  BY DEF Recv, Ends
<1>6. last' = IF spa = Gw THEN sha ELSE last
  BY DEF Recv
<1>7. out' = out \/ (out' = [to |-> sha, pkt |-> d] /\ d # None)
  BY DEF Recv
<1>8. /\ dead' \in BOOLEAN
      /\ dead' => \/ d # None /\ arpCache[s].type /\ ~arpCache[s].intf
                  \/ ~({"send", "devSend"} \subseteq InPlace)
      /\ \/ source' = source
         \/ source' = InPlace \cap {"ethAddr", "ipAddr"} /\ {"send", "devSend"} \subseteq InPlace
  BY DEF Recv, Reply
<1>21. rest' \in Rests \cup {NoRest}
  <2>1. s = None \/ s \in Slot
    BY <1>2
  <2>2. \/ rest' = [slot |-> s, answers |-> forUs /\ asks]
        \/ rest' = [slot |-> None, answers |-> forUs /\ asks]
        \/ rest' = NoRest
    BY DEF Recv
  <2> QED BY <2>1, <2>2 DEF Rests
<1>9. TypeOK /\ PathOK /\ DeferredOK /\ EntryOK /\ IntfOK /\ BufOK /\ AnswersWhole
  BY DEF CacheOK
<1>10. d \in Pkt \cup {None} /\ (d # None => s \in Slot /\ arpCache[s].pkt = d /\ d \in 1 .. built)
  <2>1. d # None => s \in Slot
    BY <1>2
  <2> QED BY <1>9, <2>1 DEF TypeOK, DeferredOK
<1>11. spa # Zero \/ Gw # spa
  BY Constants
<1> HIDE DEF s, d
<1>12. TypeOK'
  <2>1. arpCache' \in [Slot -> [ha : Mac, pa : IP, intf : BOOLEAN, type : BOOLEAN, pkt : Pkt \cup {None}]]
    BY <1>1 DEF Entry
  <2>2. fate' \in [Pkt -> SUBSET {"sent", "released", "lost"}]
    BY <1>5, <1>9, <1>10 DEF TypeOK
  <2>3. out' \in [to : Mac, pkt : Pkt \cup {None}] /\ last' \in Mac
    BY <1>6, <1>7, <1>9, <1>10 DEF TypeOK
  <2>5. source' \subseteq {"ethAddr", "ipAddr"}
    BY <1>8, <1>9 DEF TypeOK
  <2> QED BY <2>1, <2>2, <2>3, <2>5, <1>3, <1>4, <1>8, <1>9, <1>21 DEF TypeOK
<1>13. \A t \in Slot : arpCache[t].pa = Gw => arpCache'[t].pa = Gw
  BY <1>2, Constants
<1>14. PathOK'
  <2>1. pc \in {"header"} \cup Placing => entry \in Slot /\ arpCache'[entry].pa = Gw
    BY <1>9, <1>13 DEF PathOK, TypeOK, Placing, Attaching
  <2>2. \A p \in Pkt : p > built => fate'[p] = {}
    BY <1>5, <1>9, <1>10 DEF PathOK, TypeOK
  <2> QED BY <2>1, <2>2, <1>3, <1>9 DEF PathOK
<1>15. \A t \in Slot : arpCache'[t].pkt # None =>
           arpCache'[t].pkt = arpCache[t].pkt
  BY <1>2
<1>16. DeferredOK'
  BY <1>3, <1>9, <1>13, <1>15 DEF DeferredOK
<1>17. EntryOK'
  <2> SUFFICES ASSUME "add" \notin raced' PROVE EntryOK'
    BY DEF EntryOK
  <2>1. "add" \notin raced /\ pc \notin Adding
    BY <1>4
  <2>2. \A t, u \in Slot : arpCache[t].pa = arpCache[u].pa => t = u \/ arpCache[t].pa = Zero
    BY <1>9, <2>1 DEF EntryOK
  <2>3. \A t, u \in Slot : arpCache'[t].pa = arpCache'[u].pa => t = u \/ arpCache'[t].pa = Zero
    BY <1>2, <2>2
  <2>4. ASSUME NEW t \in Slot, arpCache'[t].pa = Gw
        PROVE  Waits(t)' \/ Resolved(t)'
    <3>1. CASE arpCache'[t].ha = sha /\ spa = Gw
      BY <1>6, <3>1 DEF Resolved
    <3>2. CASE ~(arpCache'[t].ha = sha /\ spa = Gw)
      <4>1. arpCache'[t] = arpCache[t] /\ spa # Gw
        BY <1>2, <2>2, <2>4, <3>2, Constants
      <4> QED BY <1>3, <1>6, <1>9, <2>1, <2>4, <4>1 DEF EntryOK, Waits, Resolved
    <3> QED BY <3>1, <3>2
  <2> QED BY <1>3, <2>1, <2>3, <2>4 DEF EntryOK, Adding
<1>18. IntfOK'
  <2> SUFFICES ASSUME "attach" \notin raced' PROVE IntfOK'
    BY DEF IntfOK
  <2>1. "attach" \notin raced /\ pc \notin Attaching
    BY <1>4
  <2>2. \A t \in Slot : arpCache[t].pkt # None => arpCache[t].intf /\ arpCache[t].type
    BY <1>9, <2>1 DEF IntfOK
  <2>3. \A t \in Slot : arpCache'[t].pkt # None => arpCache'[t].intf /\ arpCache'[t].type
    BY <1>2, <2>2
  <2> QED BY <1>3, <2>1, <2>3 DEF IntfOK, Attaching
<1>19. BufOK'
  <2> SUFFICES ASSUME "attach" \notin raced', NEW p \in 1 .. built
               PROVE  \E h \in Holders(p)' : \A g \in Holders(p)' : g = h
    BY <1>3 DEF BufOK
  <2>1. "attach" \notin raced /\ pc \notin Attaching
    BY <1>4
  <2>2. p \in Pkt /\ p # None
    BY <1>9, Constants, BoundAssumption DEF TypeOK, Pkt
  <2>5. ~Kept
    BY <1>9, <2>1 DEF IntfOK
  <2>3. CASE p # d
    <3>1. fate'[p] = fate[p]
      BY <1>5, <1>9, <1>10, <2>2, <2>3 DEF TypeOK
    <3>2. \A t \in Slot : arpCache'[t].pkt = p <=> arpCache[t].pkt = p
      BY <1>2, <2>2, <2>3, <2>5, Constants DEF d
    <3> QED BY <1>3, <1>9, <2>1, <3>1, <3>2, HeldStill
  <2>4. CASE p = d
    <3>1. s \in Slot /\ arpCache[s].pkt = p /\ Updated
      BY <1>2, <1>10, <2>2, <2>4, <2>5 DEF d
    <3>2. /\ ~(pkt = p /\ pc \in Sending) /\ echo # p /\ fate[p] = {}
          /\ \A t \in Slot : t # s => arpCache[t].pkt # p
      BY <1>9, <2>1, <3>1, HeldOnce
    <3>3. \A t \in Slot : arpCache'[t].pkt # p
      BY <2>2, <3>1, <3>2
    <3>4. PICK how \in {"sent", "lost"} : fate' = [fate EXCEPT ![d] = @ \cup {how}]
      BY <1>5, <2>2, <2>4
    <3>5. fate'[p] = {how}
      BY <1>9, <2>2, <2>4, <3>2, <3>4 DEF TypeOK
    <3>6. \A h : h \in Holders(p)' <=> h = <<0, how>>
      BY <1>3, <3>2, <3>3, <3>5, HeldNext
    <3>7. <<0, how>> \in Holders(p)'
      BY <3>6
    <3> QED BY <3>6, <3>7, Zenon
  <2> QED BY <2>3, <2>4
<1>20. AnswersWhole'
  <2>1. {"send", "devSend"} \subseteq InPlace => stores = Len(IntfStores) /\ {"ethAddr", "ipAddr"} \subseteq InPlace
    BY <1>9 DEF InPlace, IntfStores, TypeOK
  <2>2. source' = {"ethAddr", "ipAddr"}
    BY <1>8, <1>9, <2>1 DEF AnswersWhole
  <2>3. ASSUME dead', stores = Len(IntfStores) PROVE "attach" \in raced'
    <3>1. {"send", "devSend"} \subseteq InPlace
      BY <2>3 DEF InPlace, IntfStores
    <3>2. d # None /\ ~arpCache[s].intf
      BY <1>8, <2>3, <3>1
    <3>3. "attach" \in raced
      BY <1>9, <1>10, <3>2 DEF IntfOK
    <3> QED BY <1>4, <3>3
  <2>4. stores < Len(IntfStores) \/ stores = Len(IntfStores)
    BY <1>9 DEF TypeOK, IntfStores
  <2> QED BY <1>3, <2>2, <2>3, <2>4 DEF AnswersWhole
<1> QED BY <1>12, <1>14, <1>16, <1>17, <1>18, <1>19, <1>20 DEF CacheOK

(* The reply to an echo request leaves for the gateway's entry, waits on a *)
(* new one, or is lost.                                                    *)
LEMMA EchoStep ==
    ASSUME CacheOK, EchoReply
    PROVE  CacheOK'
<1> DEFINE s    == arp_lookup(Gw)
           z    == First(arpCache, Zero)
           with == arp_add(arpCache, Null, Gw)
           new  == First(with, Gw)
           Gone(how) == fate' = [fate EXCEPT ![echo] = @ \cup {how}]
           Lost == Gone("lost") /\ UNCHANGED <<arpCache, out, asked>>
           Sent == /\ s \in Slot /\ arpCache[s].pa = Gw
                   /\ out' = [to |-> arpCache[s].ha, pkt |-> echo]
                   /\ Gone("sent") /\ UNCHANGED <<arpCache, asked>>
           Deferred == /\ routed /\ z \in Slot /\ arpCache[z].pa = Zero
                       /\ \A t \in Slot : arpCache[t].pa # Gw
                       /\ arpCache'[z].ha = Null /\ arpCache'[z].pa = Gw /\ arpCache'[z].pkt = echo
                       /\ arpCache'[z].intf /\ arpCache'[z].type
                       /\ \A t \in Slot : t # z => arpCache'[t] = arpCache[t]
                       /\ asked' = TRUE /\ UNCHANGED <<out, fate>>
<1>1. TypeOK /\ PathOK /\ DeferredOK /\ EntryOK /\ IntfOK /\ BufOK /\ AnswersWhole
  BY DEF CacheOK
<1>2. arpCache \in [Slot -> Entry]
  BY <1>1 DEF TypeOK, Entry
<1>3. echo' = None /\ echo \in Pkt /\ echo \in 1 .. built /\ built \in Nat
  BY <1>1, BoundAssumption DEF EchoReply, TypeOK, PathOK, None
<1>4. UNCHANGED <<stores, routed, pc, entry, pkt, rest, dead, built, heard, last, source>>
  BY DEF EchoReply, task
<1>5. /\ raced \subseteq raced' /\ raced' \subseteq {"add", "attach"}
      /\ pc \in Adding => "add" \in raced'
      /\ pc \in Attaching => "attach" \in raced'
  BY <1>1 DEF EchoReply, Races, TypeOK, Adding, Attaching
<1>6. \/ s = None /\ \A t \in Slot : arpCache[t].pa # Gw
      \/ s \in Slot /\ arpCache[s].pa = Gw
  BY FirstFound DEF arp_lookup
<1>7. \/ z = None \/ (z \in Slot /\ arpCache[z].pa = Zero)
  BY FirstFound
<1>8. \/ new = None /\ \A t \in Slot : with[t].pa # Gw
      \/ new \in Slot /\ with[new].pa = Gw
  BY FirstFound
<1>9. with = IF z = None THEN arpCache ELSE [arpCache EXCEPT ![z].ha = Null, ![z].pa = Gw]
  BY DEF arp_add
<1>10. \/ Lost
       \/ routed /\ s # None /\ out' = [to |-> arpCache[s].ha, pkt |-> echo]
          /\ Gone("sent") /\ UNCHANGED <<arpCache, asked>>
       \/ /\ routed /\ s = None /\ new # None
          /\ arpCache' = [with EXCEPT ![new].intf = TRUE, ![new].type = TRUE, ![new].pkt = echo]
          /\ asked' = TRUE /\ UNCHANGED <<out, fate>>
  BY DEF EchoReply, Ends
<1> HIDE DEF s, z, with, new
<1>11. (Lost \/ Sent \/ Deferred) /\ arpCache' \in [Slot -> Entry]
  <2>1. CASE Lost
    BY <1>2, <2>1
  <2>2. CASE s # None /\ out' = [to |-> arpCache[s].ha, pkt |-> echo]
             /\ Gone("sent") /\ UNCHANGED <<arpCache, asked>>
    BY <1>2, <1>6, <2>2
  <2>3. CASE /\ routed /\ s = None /\ new # None
             /\ arpCache' = [with EXCEPT ![new].intf = TRUE, ![new].type = TRUE, ![new].pkt = echo]
             /\ asked' = TRUE /\ UNCHANGED <<out, fate>>
    <3>1. \A t \in Slot : arpCache[t].pa # Gw
      BY <1>6, <2>3, Constants
    <3>2. new \in Slot /\ with[new].pa = Gw
      BY <1>8, <2>3
    <3>3. z \in Slot /\ arpCache[z].pa = Zero /\ with = [arpCache EXCEPT ![z].ha = Null, ![z].pa = Gw]
      BY <1>7, <1>9, <3>1, <3>2, Constants
    <3>4. \A t \in Slot : t # z => with[t] = arpCache[t]
      BY <1>2, <3>3
    <3>5. new = z
      BY <3>1, <3>2, <3>4
    <3>6. with \in [Slot -> Entry] /\ with[z].ha = Null /\ with[z].pa = Gw
      BY <1>2, <3>3, Constants DEF Entry
    <3>7. /\ arpCache' \in [Slot -> Entry]
          /\ arpCache'[z].ha = with[z].ha /\ arpCache'[z].pa = with[z].pa
          /\ arpCache'[z].intf = TRUE /\ arpCache'[z].type = TRUE /\ arpCache'[z].pkt = echo
          /\ \A t \in Slot : t # z => arpCache'[t] = with[t]
      <4>1. arpCache' = [with EXCEPT ![z].intf = TRUE, ![z].type = TRUE, ![z].pkt = echo]
        BY <2>3, <3>5
      <4>2. /\ arpCache'[z].ha = with[z].ha /\ arpCache'[z].pa = with[z].pa
            /\ arpCache'[z].intf = TRUE /\ arpCache'[z].type = TRUE /\ arpCache'[z].pkt = echo
        BY <1>3, <3>3, <3>6, <4>1 DEF Entry
      <4>3. \A t \in Slot : t # z => arpCache'[t] = with[t]
        BY <3>3, <3>6, <4>1
      <4>4. arpCache' \in [Slot -> Entry]
        <5>1. with[z] \in Entry
          BY <3>3, <3>6
        <5>2. [with[z] EXCEPT !.intf = TRUE, !.type = TRUE, !.pkt = echo] \in Entry
          BY <1>3, <5>1 DEF Entry
        <5>3. arpCache' = [with EXCEPT ![z] = [with[z] EXCEPT !.intf = TRUE, !.type = TRUE, !.pkt = echo]]
          BY <3>3, <3>6, <4>1
        <5> QED BY <3>3, <3>6, <5>2, <5>3
      <4> QED BY <4>2, <4>3, <4>4
    <3> QED BY <2>3, <3>1, <3>3, <3>4, <3>6, <3>7
  <2> QED BY <1>10, <2>1, <2>2, <2>3
<1>12. TypeOK'
  <2>1. fate' \in [Pkt -> SUBSET {"sent", "released", "lost"}]
    BY <1>1, <1>11 DEF TypeOK
  <2>2. out' \in [to : Mac, pkt : Pkt \cup {None}]
    BY <1>1, <1>2, <1>3, <1>11 DEF TypeOK, Entry
  <2>3. asked' \in BOOLEAN
    BY <1>1, <1>11 DEF TypeOK
  <2> QED BY <1>1, <1>3, <1>4, <1>5, <1>11, <2>1, <2>2, <2>3 DEF TypeOK, Entry
<1>13. \A t \in Slot : arpCache[t].pa = Gw => arpCache'[t].pa = Gw
  BY <1>11
<1>14. PathOK'
  <2>1. pc \in {"header"} \cup Placing => entry \in Slot /\ arpCache'[entry].pa = Gw
    BY <1>1, <1>13 DEF PathOK, TypeOK, Placing, Attaching
  <2>2. \A p \in Pkt : p > built => fate'[p] = {}
    BY <1>1, <1>3, <1>11 DEF PathOK, TypeOK
  <2>3. echo' \in 0 .. built
    BY <1>3 DEF None
  <2> QED BY <2>1, <2>2, <2>3, <1>1, <1>4 DEF PathOK
<1>15. DeferredOK'
  BY <1>1, <1>3, <1>4, <1>11 DEF DeferredOK
<1>16. EntryOK'
  <2> SUFFICES ASSUME "add" \notin raced' PROVE EntryOK'
    BY DEF EntryOK
  <2>1. "add" \notin raced /\ pc \notin Adding
    BY <1>5
  <2>2. \A t, u \in Slot : arpCache[t].pa = arpCache[u].pa => t = u \/ arpCache[t].pa = Zero
    BY <1>1, <2>1 DEF EntryOK
  <2>3. \A t, u \in Slot : arpCache'[t].pa = arpCache'[u].pa => t = u \/ arpCache'[t].pa = Zero
    BY <1>11, <2>2
  <2>4. ASSUME NEW t \in Slot, arpCache'[t].pa = Gw
        PROVE  Waits(t)' \/ Resolved(t)'
    <3>1. CASE Deferred
      <4>1. t = z
        BY <2>4, <3>1
      <4> QED BY <1>3, <3>1, <4>1, Constants DEF Waits
    <3>2. CASE arpCache' = arpCache
      BY <1>1, <1>4, <2>1, <2>4, <3>2 DEF EntryOK, Waits, Resolved
    <3> QED BY <1>11, <3>1, <3>2
  <2> QED BY <1>4, <2>1, <2>3, <2>4 DEF EntryOK, Adding
<1>17. IntfOK'
  <2> SUFFICES ASSUME "attach" \notin raced' PROVE IntfOK'
    BY DEF IntfOK
  <2>1. "attach" \notin raced /\ pc \notin Attaching
    BY <1>5
  <2>2. \A t \in Slot : arpCache[t].pkt # None => arpCache[t].intf /\ arpCache[t].type
    BY <1>1, <2>1 DEF IntfOK
  <2>3. \A t \in Slot : arpCache'[t].pkt # None => arpCache'[t].intf /\ arpCache'[t].type
    BY <1>11, <2>2
  <2> QED BY <1>4, <2>1, <2>3 DEF IntfOK, Attaching
<1>18. BufOK'
  <2> SUFFICES ASSUME "attach" \notin raced', NEW p \in 1 .. built
               PROVE  \E h \in Holders(p)' : \A g \in Holders(p)' : g = h
    BY <1>4 DEF BufOK
  <2>1. "attach" \notin raced /\ pc \notin Attaching
    BY <1>5
  <2>2. p \in Pkt /\ p # None
    BY <1>1, <1>3, Constants, BoundAssumption DEF TypeOK, Pkt
  <2>3. CASE p # echo
    <3>1. fate'[p] = fate[p]
      BY <1>1, <1>3, <1>11, <2>2, <2>3 DEF TypeOK
    <3>2. \A t \in Slot : arpCache'[t].pkt = p <=> arpCache[t].pkt = p
      <4>1. CASE Deferred
        <5>1. arpCache[z].pkt = None
          BY <1>1, <4>1, Constants DEF DeferredOK
        <5> QED BY <2>2, <2>3, <4>1, <5>1
      <4> QED BY <1>11, <4>1
    <3> QED BY <1>1, <1>3, <1>4, <2>1, <2>2, <2>3, <3>1, <3>2, HeldStill
  <2>4. CASE p = echo
    <3>1. /\ ~(pkt = p /\ pc \in Sending) /\ fate[p] = {}
          /\ \A t \in Slot : arpCache[t].pkt # p
      BY <1>1, <2>1, <2>4, HeldOnce
    <3>2. echo' # p
      BY <1>3, <2>2
    <3>3. CASE Lost \/ Sent
      <4>1. PICK how \in {"sent", "lost"} : Gone(how)
        BY <3>3
      <4>2. fate'[p] = {how}
        BY <1>1, <2>2, <2>4, <3>1, <4>1 DEF TypeOK
      <4>3. \A h : h \in Holders(p)' <=> h = <<0, how>>
        BY <1>4, <3>1, <3>2, <3>3, <4>2, HeldNext
      <4>4. <<0, how>> \in Holders(p)'
        BY <4>3
      <4> QED BY <4>3, <4>4, Zenon
    <3>4. CASE Deferred
      <4>1. z \in Slot /\ arpCache'[z].pkt = p /\ \A t \in Slot : t # z => arpCache'[t].pkt # p
        BY <2>4, <3>1, <3>4
      <4>2. \A h : h \in Holders(p)' <=> h = <<z, "entry">>
        BY <1>4, <2>1, <3>1, <3>2, <3>4, <4>1, HeldNext
      <4>3. <<z, "entry">> \in Holders(p)'
        BY <4>2
      <4> QED BY <4>2, <4>3, Zenon
    <3> QED BY <1>11, <3>3, <3>4
  <2> QED BY <2>3, <2>4
<1>19. AnswersWhole'
  BY <1>1, <1>4, <1>5 DEF AnswersWhole
<1> QED BY <1>12, <1>14, <1>15, <1>16, <1>17, <1>18, <1>19 DEF CacheOK

-----------------------------------------------------------------------------
(* The steps of the process that leave the cache alone.                    *)
LEMMA ControlStep ==
    ASSUME CacheOK, SetUp \/ FirstPacket \/ AddRoute \/ Ping \/ Lookup \/ Request \/ Ask
    PROVE  CacheOK'
<1>1. TypeOK /\ PathOK /\ DeferredOK /\ EntryOK /\ IntfOK /\ BufOK /\ AnswersWhole /\ built \in Nat
  BY BoundAssumption DEF CacheOK, TypeOK
<1>2. UNCHANGED <<arpCache, echo, rest, dead, heard, last, out, source, fate, raced>>
  BY DEF SetUp, FirstPacket, AddRoute, Ping, Lookup, Request, Ask, history
<1>3. \/ arp_lookup(Gw) = None /\ \A t \in Slot : arpCache[t].pa # Gw
      \/ arp_lookup(Gw) \in Slot /\ arpCache[arp_lookup(Gw)].pa = Gw
  BY FirstFound DEF arp_lookup
<1>4. /\ pc \in {"setup", "first", "boot", "idle", "lookup", "request", "ask"} /\ pc' \in Labels
      /\ pc' \notin Attaching \cup {"ha", "pa"}
      /\ pc' \in Adding => \A t \in Slot : arpCache[t].pa # Gw
      /\ pc' \in {"header"} \cup Placing => entry' \in Slot /\ arpCache[entry'].pa = Gw
      /\ entry' \in Slot \cup {None}
  <2>1. CASE SetUp
    BY <1>1, <2>1, Constants DEF SetUp, At, Labels, Attaching, Adding, Placing, TypeOK, Slot, None
  <2>2. CASE FirstPacket \/ AddRoute \/ Ping \/ Ask
    BY <1>1, <2>2 DEF FirstPacket, AddRoute, Ping, Ask, At, Labels, Attaching, Adding, Placing, TypeOK
  <2>3. CASE Lookup \/ Request
    BY <1>1, <1>3, <2>3, Constants DEF Lookup, Request, At, Labels, Attaching, Adding, Placing, TypeOK
  <2> QED BY <2>1, <2>2, <2>3
<1>5. /\ stores' \in 0 .. Len(IntfStores) /\ (stores = Len(IntfStores) => stores' = stores)
      /\ pc' = "setup" <=> stores' < Len(IntfStores)
      /\ ~routed' <=> pc' \in Starting
      /\ routed' \in BOOLEAN /\ (routed => routed')
      /\ pc' = "clear" => entry' \in Slot
  <2>1. CASE SetUp
    BY <1>1, <2>1, Constants, SizeAssumption DEF SetUp, At, Starting, TypeOK, PathOK, IntfStores, Slot
  <2>2. CASE FirstPacket \/ AddRoute \/ Ping \/ Lookup \/ Request \/ Ask
    <3>1. pc # "setup" /\ pc' # "setup" /\ pc' # "clear" /\ stores' = stores
      BY <2>2 DEF FirstPacket, AddRoute, Ping, Lookup, Request, Ask, At
    <3>2. stores = Len(IntfStores)
      BY <1>1, <3>1 DEF TypeOK, PathOK, IntfStores
    <3>3. routed' \in BOOLEAN /\ (routed => routed') /\ (~routed' <=> pc' \in Starting)
      <4>1. CASE AddRoute
        BY <4>1 DEF AddRoute, Starting
      <4>2. CASE FirstPacket
        BY <1>1, <4>2 DEF FirstPacket, At, Starting, PathOK, TypeOK
      <4>3. CASE Ping \/ Lookup \/ Request \/ Ask
        BY <1>1, <4>3 DEF Ping, Lookup, Request, Ask, At, Starting, PathOK, TypeOK
      <4> QED BY <2>2, <4>1, <4>2, <4>3
    <3> QED BY <1>1, <3>1, <3>2, <3>3 DEF TypeOK
  <2> QED BY <2>1, <2>2
<1>6. /\ built' \in built .. Packets /\ pkt' \in Pkt \cup {None} /\ asked' \in BOOLEAN
      /\ pc' \in Sending => pkt' \in 1 .. built'
  <2>1. CASE Ping
    BY <1>1, <2>1, BoundAssumption DEF Ping, At, TypeOK, Pkt
  <2>2. CASE SetUp \/ FirstPacket \/ AddRoute \/ Lookup \/ Request \/ Ask
    <3>1. built' = built /\ pkt' = pkt
      BY <2>2 DEF SetUp, FirstPacket, AddRoute, Lookup, Request, Ask
    <3>3. asked' \in BOOLEAN
      BY <1>1, <2>2 DEF SetUp, FirstPacket, AddRoute, Lookup, Request, Ask, TypeOK
    <3>2. pc' \in Sending => pc \in Sending
      BY <2>2 DEF SetUp, FirstPacket, AddRoute, Lookup, Request, Ask, At, Sending, Placing, Adding, Attaching
    <3> QED BY <1>1, <3>1, <3>2, <3>3, BoundAssumption DEF TypeOK, PathOK
  <2> QED BY <2>1, <2>2
<1>7. TypeOK'
  <2>1. pc' \in {"header", "ha", "pa", "attach", "intf", "type", "store"} => entry' # None
    BY <1>4, Constants DEF Placing, Attaching
  <2>2. built' \in 0 .. Packets
    BY <1>1, <1>6, BoundAssumption DEF TypeOK
  <2>3. {routed', asked', dead'} \subseteq BOOLEAN
    BY <1>1, <1>2, <1>5, <1>6 DEF TypeOK
  <2> QED BY <1>1, <1>2, <1>4, <1>5, <1>6, <2>1, <2>2, <2>3 DEF TypeOK
<1>8. PathOK'
  <2>1. echo' \in 0 .. built'
    BY <1>1, <1>2, <1>6, BoundAssumption DEF PathOK
  <2>2. \A p \in Pkt : p > built' => fate'[p] = {}
    BY <1>1, <1>2, <1>6, BoundAssumption, Constants DEF PathOK, Pkt
  <2>3. pc' \in {"header"} \cup Placing => arpCache'[entry'].pa = Gw
    BY <1>2, <1>4
  <2> QED BY <1>5, <1>6, <2>1, <2>2, <2>3 DEF PathOK
<1>9. DeferredOK'
  BY <1>1, <1>2, <1>5, <1>6 DEF DeferredOK
<1>10. EntryOK'
  <2>1. pc \notin Placing
    BY <1>4 DEF Placing, Attaching
  <2>2. \A t \in Slot : Waits(t) \/ Resolved(t) => Waits(t)' \/ Resolved(t)'
    BY <1>2, <2>1 DEF Waits, Resolved
  <2> QED BY <1>1, <1>2, <1>4, <2>2 DEF EntryOK
<1>11. IntfOK'
  BY <1>1, <1>2, <1>4 DEF IntfOK, Attaching
<1>12. BufOK'
  <2> SUFFICES ASSUME "attach" \notin raced, NEW p \in 1 .. built'
               PROVE  \E h \in Holders(p)' : \A g \in Holders(p)' : g = h
    BY <1>2 DEF BufOK
  <2>1. pc \notin Attaching
    BY <1>4 DEF Attaching
  <2>2. CASE p \in 1 .. built
    <3>1. pkt' = p /\ pc' \in Sending <=> pkt = p /\ pc \in Sending
      <4>1. CASE Ping
        BY <1>1, <2>2, <4>1 DEF Ping, At, Sending, Placing, Adding, Attaching
      <4>2. CASE SetUp \/ FirstPacket \/ AddRoute \/ Lookup \/ Request \/ Ask
        BY <4>2 DEF SetUp, FirstPacket, AddRoute, Lookup, Request, Ask, At, Sending, Placing, Adding, Attaching
      <4> QED BY <4>1, <4>2
    <3> QED BY <1>1, <1>2, <1>4, <2>1, <2>2, <3>1, HeldStill
  <2>3. CASE p \notin 1 .. built
    <3>1. Ping /\ p = built + 1 /\ pkt' = p /\ pc' \in Sending /\ p \in Pkt /\ p # None
      <4>1. built' # built
        BY <1>1, <2>3
      <4>2. Ping
        BY <4>1 DEF SetUp, FirstPacket, AddRoute, Lookup, Request, Ask
      <4> QED BY <1>1, <2>3, <4>2, BoundAssumption DEF Ping, Pkt, None, Sending, TypeOK
    <3>2. echo' # p /\ fate'[p] = {} /\ \A t \in Slot : arpCache'[t].pkt # p
      BY <1>1, <1>2, <3>1 DEF PathOK, DeferredOK
    <3>3. \A h : h \in Holders(p)' <=> h = <<0, "task">>
      BY <3>1, <3>2, HeldNext
    <3>4. <<0, "task">> \in Holders(p)'
      BY <3>3
    <3> QED BY <3>3, <3>4, Zenon
  <2> QED BY <2>2, <2>3
<1>13. AnswersWhole'
  <2>1. dead => ~(SetUp \/ FirstPacket \/ AddRoute \/ Ping \/ Lookup \/ Request \/ Ask)
    BY DEF SetUp, FirstPacket, AddRoute, Ping, Lookup, Request, Ask, At
  <2> QED BY <1>1, <1>2, <2>1 DEF AnswersWhole
<1> QED BY <1>7, <1>8, <1>9, <1>10, <1>11, <1>12, <1>13 DEF CacheOK

(* A packet's way ends: it leaves, or there is no room in the cache.       *)
LEMMA EndStep ==
    ASSUME CacheOK, Header \/ AddSearch
    PROVE  CacheOK'
<1>1. TypeOK /\ PathOK /\ DeferredOK /\ EntryOK /\ IntfOK /\ BufOK /\ AnswersWhole /\ built \in Nat
  BY BoundAssumption DEF CacheOK, TypeOK
<1>2. UNCHANGED <<arpCache, stores, routed, pkt, echo, rest, asked, dead, built, heard, last, source, raced>>
  BY DEF Header, AddSearch
<1>3. \/ arp_lookup(Zero) = None
      \/ arp_lookup(Zero) \in Slot /\ arpCache[arp_lookup(Zero)].pa = Zero
  BY FirstFound DEF arp_lookup
<1>4. /\ pc \in {"header", "add"} /\ pc' \in {"idle", "ha"}
      /\ entry' \in Slot \cup {None}
      /\ pc' = "ha" => pc = "add" /\ entry' \in Slot /\ arpCache[entry'].pa = Zero /\ fate' = fate
      /\ pc' = "idle" => \E how \in {"sent", "lost"} : fate' = [fate EXCEPT ![pkt] = @ \cup {how}]
  BY <1>1, <1>3, Constants DEF Header, AddSearch, At, Ends, TypeOK
<1>5. pkt \in 1 .. built /\ pkt \in Pkt /\ pc \in Sending
  BY <1>1, <1>4, BoundAssumption DEF PathOK, Sending, Adding, TypeOK, Pkt
<1>6. out' \in [to : Mac, pkt : Pkt \cup {None}]
  BY <1>1, <1>5 DEF Header, AddSearch, At, TypeOK
<1>7. TypeOK'
  <2>1. fate' \in [Pkt -> SUBSET {"sent", "released", "lost"}]
    BY <1>1, <1>4, <1>5 DEF TypeOK
  <2> QED BY <1>1, <1>2, <1>4, <1>6, <2>1, Constants DEF TypeOK, Labels
<1>8. PathOK'
  <2>1. \A p \in Pkt : p > built => fate'[p] = {}
    BY <1>1, <1>4, <1>5 DEF PathOK, TypeOK
  <2>2. pc' \notin {"header"} \cup Placing \cup Starting /\ pc \notin Starting
    BY <1>4 DEF Placing, Attaching, Starting
  <2> QED BY <1>1, <1>2, <1>4, <1>5, <2>1, <2>2 DEF PathOK, Starting
<1>9. DeferredOK'
  BY <1>1, <1>2 DEF DeferredOK
<1>10. EntryOK'
  <2>1. pc \notin Placing /\ (pc' \in Adding => pc \in Adding) /\ pc' # "pa"
    BY <1>4 DEF Placing, Attaching, Adding
  <2>2. \A t \in Slot : Waits(t) \/ Resolved(t) => Waits(t)' \/ Resolved(t)'
    BY <1>2, <2>1 DEF Waits, Resolved
  <2> QED BY <1>1, <1>2, <1>4, <2>1, <2>2 DEF EntryOK
<1>11. IntfOK'
  BY <1>1, <1>2, <1>4 DEF IntfOK
<1>12. BufOK'
  <2> SUFFICES ASSUME "attach" \notin raced, NEW p \in 1 .. built
               PROVE  \E h \in Holders(p)' : \A g \in Holders(p)' : g = h
    BY <1>2 DEF BufOK
  <2>1. pc \notin Attaching /\ pc' \notin Attaching /\ p \in Pkt
    BY <1>1, <1>4, BoundAssumption DEF Attaching, TypeOK, Pkt
  <2>2. CASE p # pkt \/ pc' = "ha"
    <3>1. fate'[p] = fate[p]
      BY <1>1, <1>4, <1>5, <2>1, <2>2 DEF TypeOK
    <3>2. pc' = "ha" => pc' \in Sending
      BY DEF Sending, Adding
    <3> QED BY <1>1, <1>2, <1>5, <2>1, <2>2, <3>1, <3>2, HeldStill
  <2>3. CASE p = pkt /\ pc' = "idle"
    <3>1. echo # p /\ fate[p] = {} /\ \A t \in Slot : arpCache[t].pkt # p
      BY <1>1, <1>5, <2>1, <2>3, HeldOnce
    <3>2. PICK how \in {"sent", "lost"} : fate' = [fate EXCEPT ![pkt] = @ \cup {how}]
      BY <1>4, <2>3
    <3>3. fate'[p] = {how}
      BY <1>1, <1>5, <2>3, <3>1, <3>2 DEF TypeOK
    <3>4. pc' \notin Sending
      BY <2>3 DEF Sending, Placing, Adding, Attaching
    <3>5. \A h : h \in Holders(p)' <=> h = <<0, how>>
      BY <1>2, <3>1, <3>3, <3>4, HeldNext
    <3>6. <<0, how>> \in Holders(p)'
      BY <3>5
    <3> QED BY <3>5, <3>6, Zenon
  <2> QED BY <1>4, <2>2, <2>3
<1>13. AnswersWhole'
  BY <1>1, <1>2 DEF AnswersWhole
<1> QED BY <1>7, <1>8, <1>9, <1>10, <1>11, <1>12, <1>13 DEF CacheOK

(* arp_init clears the addresses before anything can wait for one.         *)
LEMMA ClearStep ==
    ASSUME CacheOK, ArpInit
    PROVE  CacheOK'
<1>1. TypeOK /\ PathOK /\ DeferredOK /\ EntryOK /\ IntfOK /\ BufOK /\ AnswersWhole
  BY DEF CacheOK
<1>2. /\ pc = "clear" /\ pc' \in {"clear", "first"} /\ (pc' = "clear" => entry' \in Slot)
      /\ entry \in Slot /\ entry' \in Slot \cup {None}
      /\ arpCache' = [arpCache EXCEPT ![entry].ha = Null, ![entry].pa = Zero]
      /\ UNCHANGED <<stores, routed, pkt, echo, rest, asked, dead, built, heard, last, out, source, fate, raced>>
  BY <1>1, SizeAssumption DEF ArpInit, At, history, PathOK, Slot
<1>3. arpCache \in [Slot -> Entry]
  BY <1>1 DEF TypeOK, Entry
<1>4. /\ arpCache' \in [Slot -> Entry]
      /\ arpCache'[entry].pa = Zero /\ arpCache'[entry].pkt = arpCache[entry].pkt
      /\ \A t \in Slot : t # entry => arpCache'[t] = arpCache[t]
  BY <1>2, <1>3, Constants DEF Entry
<1>5. ~routed /\ \A t \in Slot : arpCache[t].pkt = None
  BY <1>1, <1>2 DEF PathOK, DeferredOK, Starting
<1>6. \A t \in Slot : arpCache'[t].pkt = None
  BY <1>2, <1>4, <1>5
<1>7. TypeOK'
  BY <1>1, <1>2, <1>4 DEF TypeOK, Labels, Entry
<1>8. PathOK'
  <2>1. pc' \in Starting /\ pc' \notin Sending /\ pc' # "setup" /\ pc' \notin {"header"} \cup Placing
    BY <1>2 DEF Starting, Sending, Placing, Adding, Attaching
  <2>2. pc \in Starting /\ pc # "setup"
    BY <1>2 DEF Starting
  <2> QED BY <1>1, <1>2, <2>1, <2>2 DEF PathOK
<1>9. DeferredOK' /\ IntfOK'
  BY <1>2, <1>6 DEF DeferredOK, IntfOK
<1>10. EntryOK'
  <2> SUFFICES ASSUME "add" \notin raced PROVE EntryOK'
    BY <1>2 DEF EntryOK
  <2>1. \A t, u \in Slot : arpCache'[t].pa = arpCache'[u].pa => t = u \/ arpCache'[t].pa = Zero
    BY <1>1, <1>2, <1>4 DEF EntryOK
  <2>2. ASSUME NEW t \in Slot, arpCache'[t].pa = Gw
        PROVE  Waits(t)' \/ Resolved(t)'
    <3>1. t # entry /\ arpCache'[t] = arpCache[t]
      BY <1>2, <1>4, <2>2, Constants
    <3>2. Resolved(t)
      BY <1>1, <1>2, <1>5, <2>2, <3>1 DEF EntryOK, Waits, Placing, Attaching
    <3> QED BY <1>2, <3>1, <3>2 DEF Resolved
  <2> QED BY <1>2, <2>1, <2>2 DEF EntryOK, Adding
<1>11. BufOK'
  <2> SUFFICES ASSUME "attach" \notin raced, NEW p \in 1 .. built
               PROVE  \E h \in Holders(p)' : \A g \in Holders(p)' : g = h
    BY <1>2 DEF BufOK
  <2>1. pc \notin Sending /\ pc' \notin Sending /\ p # None
    BY <1>2 DEF Sending, Placing, Adding, Attaching, None
  <2> QED BY <1>1, <1>2, <1>5, <1>6, <2>1, HeldStill
<1>12. AnswersWhole'
  BY <1>1, <1>2 DEF AnswersWhole
<1> QED BY <1>7, <1>8, <1>9, <1>10, <1>11, <1>12 DEF CacheOK

(* arp_add, in the process: the two stores of a new entry.                 *)
LEMMA AddStep ==
    ASSUME CacheOK, AddHa \/ AddPa
    PROVE  CacheOK'
<1>1. TypeOK /\ PathOK /\ DeferredOK /\ EntryOK /\ IntfOK /\ BufOK /\ AnswersWhole
  BY DEF CacheOK
<1>2. /\ UNCHANGED <<stores, routed, entry, pkt, echo, rest, asked, dead, built, heard, last, out, source, fate, raced>>
      /\ \/ pc = "ha" /\ pc' = "pa" /\ arpCache' = [arpCache EXCEPT ![entry].ha = Null]
         \/ pc = "pa" /\ pc' = "attach" /\ arpCache' = [arpCache EXCEPT ![entry].pa = Gw]
  BY DEF AddHa, AddPa, At, history
<1>3. arpCache \in [Slot -> Entry] /\ entry \in Slot
  BY <1>1, <1>2 DEF TypeOK, Entry
<1>4. /\ arpCache' \in [Slot -> Entry]
      /\ pc = "ha" => arpCache'[entry].ha = Null /\ arpCache'[entry].pa = arpCache[entry].pa
      /\ pc = "pa" => arpCache'[entry].pa = Gw /\ arpCache'[entry].ha = arpCache[entry].ha
      /\ arpCache'[entry].pkt = arpCache[entry].pkt
      /\ arpCache'[entry].intf = arpCache[entry].intf /\ arpCache'[entry].type = arpCache[entry].type
      /\ \A t \in Slot : t # entry => arpCache'[t] = arpCache[t]
  BY <1>2, <1>3, Constants DEF Entry
<1>5. TypeOK'
  BY <1>1, <1>2, <1>3, <1>4, Constants DEF TypeOK, Labels, Entry
<1>6. PathOK'
  <2>1. pc \in Sending /\ pc' \notin Starting \cup {"header"} /\ pc \notin Starting
    BY <1>2 DEF Starting, Sending, Placing, Adding, Attaching
  <2>2. pc' \in Placing => arpCache'[entry].pa = Gw
    BY <1>2, <1>4 DEF Placing, Attaching
  <2> QED BY <1>1, <1>2, <2>1, <2>2 DEF PathOK, Starting
<1>7. DeferredOK'
  BY <1>1, <1>2, <1>3, <1>4 DEF DeferredOK
<1>8. IntfOK'
  <2>1. \A t \in Slot : arpCache'[t].pkt = arpCache[t].pkt /\ arpCache'[t].intf = arpCache[t].intf
                       /\ arpCache'[t].type = arpCache[t].type
    BY <1>3, <1>4
  <2> QED BY <1>1, <1>2, <2>1 DEF IntfOK
<1>9. EntryOK'
  <2> SUFFICES ASSUME "add" \notin raced PROVE EntryOK'
    BY <1>2 DEF EntryOK
  <2>1. /\ \A t \in Slot : arpCache[t].pa # Gw
        /\ arpCache[entry].pa = Zero /\ (pc = "pa" => arpCache[entry].ha = Null)
        /\ \A t, u \in Slot : arpCache[t].pa = arpCache[u].pa => t = u \/ arpCache[t].pa = Zero
    BY <1>1, <1>2 DEF EntryOK, Adding
  <2>2. \A t, u \in Slot : arpCache'[t].pa = arpCache'[u].pa => t = u \/ arpCache'[t].pa = Zero
    BY <1>2, <1>3, <1>4, <2>1
  <2>3. CASE pc = "ha"
    <3>1. \A t \in Slot : arpCache'[t].pa # Gw
      BY <1>3, <1>4, <2>1, <2>3
    <3> QED BY <1>2, <1>4, <2>1, <2>2, <2>3, <3>1 DEF EntryOK
  <2>4. CASE pc = "pa"
    <3>1. pc' = "attach" /\ pc' \in Placing /\ pc' \notin Adding
      BY <1>2, <2>4 DEF Placing, Adding
    <3>2. ASSUME NEW t \in Slot, arpCache'[t].pa = Gw PROVE Waits(t)'
      <4>1. t = entry
        BY <1>4, <2>1, <3>2
      <4> QED BY <1>4, <2>1, <2>4, <3>1, <4>1 DEF Waits
    <3> QED BY <2>2, <3>1, <3>2 DEF EntryOK
  <2> QED BY <1>2, <2>3, <2>4
<1>10. BufOK'
  <2> SUFFICES ASSUME "attach" \notin raced, NEW p \in 1 .. built
               PROVE  \E h \in Holders(p)' : \A g \in Holders(p)' : g = h
    BY <1>2 DEF BufOK
  <2>1. pc \in Sending /\ pc' \in Sending /\ pc \notin Attaching /\ pc' \notin Attaching
    BY <1>2 DEF Sending, Placing, Adding, Attaching
  <2>2. \A t \in Slot : arpCache'[t].pkt = arpCache[t].pkt
    BY <1>3, <1>4
  <2> QED BY <1>1, <1>2, <2>1, <2>2, HeldStill
<1>11. AnswersWhole'
  BY <1>1, <1>2 DEF AnswersWhole
<1> QED BY <1>5, <1>6, <1>7, <1>8, <1>9, <1>10, <1>11 DEF CacheOK

(* arp_request: the packet that waited is released, and the new one takes  *)
(* its place.                                                              *)
LEMMA AttachStep ==
    ASSUME CacheOK, ReleaseDeferred \/ Attach
    PROVE  CacheOK'
<1> DEFINE q == arpCache[entry].pkt
<1>1. TypeOK /\ PathOK /\ DeferredOK /\ EntryOK /\ IntfOK /\ BufOK /\ AnswersWhole
  BY DEF CacheOK
<1>2. /\ UNCHANGED <<stores, routed, entry, pkt, echo, rest, asked, dead, built, heard, last, out, source, raced>>
      /\ \/ /\ pc = "attach" /\ pc' = "intf" /\ arpCache' = arpCache
            /\ fate' = IF q = None THEN fate ELSE [fate EXCEPT ![q] = @ \cup {"released"}]
         \/ pc = "intf" /\ pc' = "type" /\ arpCache' = [arpCache EXCEPT ![entry].intf = TRUE] /\ fate' = fate
         \/ pc = "type" /\ pc' = "store" /\ arpCache' = [arpCache EXCEPT ![entry].type = TRUE] /\ fate' = fate
         \/ pc = "store" /\ pc' = "ask" /\ arpCache' = [arpCache EXCEPT ![entry].pkt = pkt] /\ fate' = fate
  BY DEF ReleaseDeferred, Attach, At, history, Ends
<1>3. /\ arpCache \in [Slot -> Entry] /\ entry \in Slot /\ pkt \in Pkt /\ pkt \in 1 .. built /\ pkt # None
      /\ arpCache[entry].pa = Gw /\ pc \in Placing /\ pc \in Sending /\ pc \notin Starting
      /\ q \in Pkt \cup {None} /\ (q # None => q \in 1 .. built)
  <2>1. pc \in Placing /\ pc \in Sending /\ pc \notin Starting
    BY <1>2 DEF Placing, Sending, Adding, Attaching, Starting
  <2>2. arpCache \in [Slot -> Entry] /\ entry \in Slot
    BY <1>1, <2>1 DEF TypeOK, Entry, Placing, Attaching
  <2> QED BY <1>1, <2>1, <2>2, BoundAssumption, Constants DEF TypeOK, PathOK, DeferredOK, Entry, Pkt
<1>4. /\ arpCache' \in [Slot -> Entry]
      /\ arpCache'[entry].ha = arpCache[entry].ha /\ arpCache'[entry].pa = arpCache[entry].pa
      /\ arpCache'[entry].pkt = IF pc = "store" THEN pkt ELSE q
      /\ arpCache[entry].intf \/ pc = "intf" => arpCache'[entry].intf
      /\ arpCache[entry].type \/ pc = "type" => arpCache'[entry].type
      /\ \A t \in Slot : t # entry => arpCache'[t] = arpCache[t]
  <2>1. CASE pc = "attach"
    BY <1>2, <1>3, <2>1
  <2>2. CASE pc = "intf"
    <3> DEFINE e == [arpCache[entry] EXCEPT !.intf = TRUE]
    <3>1. /\ e \in Entry /\ e.intf = TRUE /\ e.ha = arpCache[entry].ha /\ e.pa = arpCache[entry].pa
          /\ e.type = arpCache[entry].type /\ e.pkt = q
      BY <1>3 DEF Entry
    <3>2. arpCache' = [arpCache EXCEPT ![entry] = e]
      BY <1>2, <1>3, <2>2
    <3> HIDE DEF e
    <3> QED BY <1>3, <2>2, <3>1, <3>2
  <2>3. CASE pc = "type"
    <3> DEFINE e == [arpCache[entry] EXCEPT !.type = TRUE]
    <3>1. /\ e \in Entry /\ e.type = TRUE /\ e.ha = arpCache[entry].ha /\ e.pa = arpCache[entry].pa
          /\ e.intf = arpCache[entry].intf /\ e.pkt = q
      BY <1>3 DEF Entry
    <3>2. arpCache' = [arpCache EXCEPT ![entry] = e]
      BY <1>2, <1>3, <2>3
    <3> HIDE DEF e
    <3> QED BY <1>3, <2>3, <3>1, <3>2
  <2>4. CASE pc = "store"
    <3> DEFINE e == [arpCache[entry] EXCEPT !.pkt = pkt]
    <3>1. /\ e \in Entry /\ e.pkt = pkt /\ e.ha = arpCache[entry].ha /\ e.pa = arpCache[entry].pa
          /\ e.intf = arpCache[entry].intf /\ e.type = arpCache[entry].type
      BY <1>3 DEF Entry
    <3>2. arpCache' = [arpCache EXCEPT ![entry] = e]
      BY <1>2, <1>3, <2>4
    <3> HIDE DEF e
    <3> QED BY <1>3, <2>4, <3>1, <3>2
  <2> QED BY <1>2, <2>1, <2>2, <2>3, <2>4
<1> HIDE DEF q
<1>5. TypeOK'
  <2>1. fate' \in [Pkt -> SUBSET {"sent", "released", "lost"}]
    BY <1>1, <1>2, <1>3 DEF TypeOK
  <2> QED BY <1>1, <1>2, <1>3, <1>4, <2>1, Constants DEF TypeOK, Labels, Entry
<1>6. PathOK'
  <2>1. \A p \in Pkt : p > built => fate'[p] = {}
    BY <1>1, <1>2, <1>3 DEF PathOK, TypeOK
  <2>2. pc' \notin Starting \cup {"header"}
    BY <1>2 DEF Starting
  <2> QED BY <1>1, <1>2, <1>3, <1>4, <2>1, <2>2 DEF PathOK, Starting
<1>7. DeferredOK'
  <2>1. routed
    BY <1>1, <1>3 DEF PathOK
  <2> QED BY <1>1, <1>2, <1>3, <1>4, <2>1 DEF DeferredOK, q
<1>8. IntfOK'
  <2> SUFFICES ASSUME "attach" \notin raced PROVE IntfOK'
    BY <1>2 DEF IntfOK
  <2>1. /\ \A t \in Slot : arpCache[t].pkt # None => arpCache[t].intf /\ arpCache[t].type
        /\ pc \in {"type", "store"} => arpCache[entry].intf
        /\ pc = "store" => arpCache[entry].type
    BY <1>1 DEF IntfOK
  <2>2. \A t \in Slot : arpCache'[t].pkt # None => arpCache'[t].intf /\ arpCache'[t].type
    BY <1>3, <1>4, <2>1 DEF q
  <2> QED BY <1>2, <1>4, <2>1, <2>2 DEF IntfOK
<1>9. EntryOK'
  <2> SUFFICES ASSUME "add" \notin raced PROVE EntryOK'
    BY <1>2 DEF EntryOK
  <2>1. \A t, u \in Slot : arpCache[t].pa = arpCache[u].pa => t = u \/ arpCache[t].pa = Zero
    BY <1>1 DEF EntryOK
  <2>2. \A t \in Slot : arpCache'[t].pa = arpCache[t].pa /\ arpCache'[t].ha = arpCache[t].ha
    BY <1>3, <1>4
  <2>3. ASSUME NEW t \in Slot, arpCache'[t].pa = Gw
        PROVE  Waits(t)' \/ Resolved(t)'
    <3>1. t = entry /\ (Waits(t) \/ Resolved(t))
      BY <1>1, <1>3, <2>1, <2>2, <2>3, Constants DEF EntryOK
    <3>2. CASE Resolved(t)
      BY <1>2, <2>2, <3>2 DEF Resolved
    <3>3. CASE Waits(t)
      <4>1. pc' \in Placing \/ arpCache'[t].pkt # None
        BY <1>2, <1>3, <1>4, <3>1 DEF Placing, Attaching
      <4> QED BY <2>2, <3>3, <4>1 DEF Waits
    <3> QED BY <3>1, <3>2, <3>3
  <2>4. pc' \notin Adding
    BY <1>2 DEF Adding
  <2> QED BY <2>1, <2>2, <2>3, <2>4 DEF EntryOK, Adding
<1>10. BufOK'
  <2> SUFFICES ASSUME "attach" \notin raced, NEW p \in 1 .. built
               PROVE  \E h \in Holders(p)' : \A g \in Holders(p)' : g = h
    BY <1>2 DEF BufOK
  <2>1. p \in Pkt /\ p # None
    BY <1>1, Constants, BoundAssumption DEF TypeOK, Pkt
  <2>2. CASE pc = "attach"
    <3>1. pc' \in Attaching /\ pc' \in Sending /\ pc \notin Attaching /\ arpCache' = arpCache
      BY <1>2, <2>2 DEF Attaching, Sending, Placing
    <3>2. CASE p # q
      <4>1. fate'[p] = fate[p]
        BY <1>1, <1>2, <1>3, <2>1, <2>2, <3>2 DEF TypeOK
      <4>2. arpCache[entry].pkt # p
        BY <3>2 DEF q
      <4> QED BY <1>1, <1>2, <1>3, <3>1, <4>1, <4>2, HeldStill
    <3>3. CASE p = q
      <4>1. /\ ~(pkt = p /\ pc \in Sending) /\ echo # p /\ fate[p] = {}
            /\ \A t \in Slot : t # entry => arpCache[t].pkt # p
        <5>1. arpCache[entry].pkt = p
          BY <3>3 DEF q
        <5> QED BY <1>1, <1>3, <3>1, <5>1, HeldOnce
      <4>2. fate'[p] = {"released"}
        BY <1>1, <1>2, <1>3, <2>1, <2>2, <3>3, <4>1 DEF TypeOK
      <4>3. \A h : h \in Holders(p)' <=> h = <<0, "released">>
        BY <1>2, <1>3, <3>1, <4>1, <4>2, HeldNext
      <4>4. <<0, "released">> \in Holders(p)'
        BY <4>3
      <4> QED BY <4>3, <4>4, Zenon
    <3> QED BY <3>2, <3>3
  <2>3. CASE pc \in {"intf", "type"}
    <3>1. pc \in Attaching /\ pc' \in Attaching /\ pc' \in Sending /\ fate' = fate
      BY <1>2, <2>3 DEF Attaching, Sending, Placing
    <3> QED BY <1>1, <1>2, <1>3, <1>4, <3>1, HeldStill
  <2>4. CASE pc = "store"
    <3>1. pc \in Attaching /\ pc' \notin Attaching /\ pc' \notin Sending /\ fate' = fate
          /\ arpCache'[entry].pkt = pkt
      BY <1>2, <1>4, <2>4 DEF Attaching, Sending, Placing, Adding
    <3>2. CASE p # pkt
      BY <1>1, <1>2, <1>3, <1>4, <3>1, <3>2, HeldStill
    <3>3. CASE p = pkt
      <4>1. echo # p /\ fate[p] = {} /\ \A t \in Slot : t # entry => arpCache[t].pkt # p
        BY <1>1, <1>3, <3>3, HeldOnce
      <4>2. \A h : h \in Holders(p)' <=> h = <<entry, "entry">>
        BY <1>2, <1>3, <1>4, <3>1, <3>3, <4>1, HeldNext
      <4>3. <<entry, "entry">> \in Holders(p)'
        BY <4>2
      <4> QED BY <4>2, <4>3, Zenon
    <3> QED BY <3>2, <3>3
  <2> QED BY <1>2, <2>2, <2>3, <2>4
<1>11. AnswersWhole'
  BY <1>1, <1>2 DEF AnswersWhole
<1> QED BY <1>5, <1>6, <1>7, <1>8, <1>9, <1>10, <1>11 DEF CacheOK

-----------------------------------------------------------------------------
(* Every frame, whatever claims it makes.                                  *)
LEMMA FrameStep ==
    ASSUME CacheOK, Answer \/ \E c \in Claims, forUs, asks \in BOOLEAN : ArpFrame(c, forUs, asks)
    PROVE  CacheOK'
<1>1. CASE Answer
  BY <1>1, RecvStep, Constants DEF Answer, CacheOK, TypeOK
<1>2. ASSUME NEW c \in Claims, NEW forUs \in BOOLEAN, NEW asks \in BOOLEAN, ArpFrame(c, forUs, asks)
      PROVE  CacheOK'
  <2>1. heard' \in 0 .. Frames /\ asked' \in BOOLEAN
    BY <1>2, BoundAssumption DEF ArpFrame, CacheOK, TypeOK
  <2>2. c[1] \in Mac /\ c[1] # Null /\ c[2] \in IP
    BY Constants
  <2>3. ~dead /\ Recv(c[1], c[2], forUs, asks) /\ UNCHANGED <<task, echo, built>>
    BY <1>2 DEF ArpFrame
  <2> QED BY <2>1, <2>2, <2>3, RecvStep
<1> QED BY <1>1, <1>2

(* The handler goes on after its print: the entry is cleared, whatever     *)
(* waits there by now.                                                     *)
LEMMA ResumeStep ==
    ASSUME CacheOK, RestOK, Resume
    PROVE  CacheOK'
<1> DEFINE s == rest.slot
           q == arpCache[s].pkt
<1>1. TypeOK /\ PathOK /\ DeferredOK /\ EntryOK /\ IntfOK /\ BufOK /\ AnswersWhole
  BY DEF CacheOK
<1>2. /\ UNCHANGED <<stores, routed, pc, entry, pkt, echo, asked, built, heard, last, out, raced>>
      /\ ~dead /\ rest # NoRest /\ rest' = NoRest
  BY DEF Resume, task
<1>3. s \in Slot \cup {None} /\ arpCache \in [Slot -> Entry]
  BY <1>1, <1>2 DEF TypeOK, Rests, Entry
<1>4. \/ s = None /\ UNCHANGED <<arpCache, fate>>
      \/ /\ s \in Slot
         /\ arpCache' = [arpCache EXCEPT ![s].intf = FALSE, ![s].type = FALSE, ![s].pkt = None]
         /\ fate' = IF q = None THEN fate ELSE [fate EXCEPT ![q] = @ \cup {"lost"}]
  BY <1>3 DEF Resume, Ends
<1>5. /\ dead' \in BOOLEAN
      /\ dead' => ~({"send", "devSend"} \subseteq InPlace)
      /\ \/ source' = source
         \/ source' = InPlace \cap {"ethAddr", "ipAddr"} /\ {"send", "devSend"} \subseteq InPlace
  BY DEF Resume, Reply
<1>6. s \in Slot => /\ "attach" \in raced
                    /\ "add" \notin raced => arpCache[s].pa = Gw /\ Resolved(s)
  BY <1>2, Constants DEF RestOK
<1> HIDE DEF s
<1>7. /\ arpCache' \in [Slot -> Entry]
      /\ \A t \in Slot : /\ arpCache'[t].pa = arpCache[t].pa /\ arpCache'[t].ha = arpCache[t].ha
                         /\ arpCache'[t].pkt # None => arpCache'[t].pkt = arpCache[t].pkt
                         /\ t # s => arpCache'[t] = arpCache[t]
  <2>1. CASE s = None
    BY <1>3, <1>4, <2>1, Constants
  <2>2. CASE s # None
    <3> DEFINE e == [arpCache[s] EXCEPT !.intf = FALSE, !.type = FALSE, !.pkt = None]
    <3>1. s \in Slot /\ arpCache' = [arpCache EXCEPT ![s] = e]
      BY <1>3, <1>4, <2>2
    <3>2. e \in Entry /\ e.pa = arpCache[s].pa /\ e.ha = arpCache[s].ha /\ e.pkt = None
      BY <1>3, <3>1 DEF Entry
    <3> HIDE DEF e
    <3> QED BY <1>3, <3>1, <3>2
  <2> QED BY <2>1, <2>2
<1>8. s \in Slot => q \in Pkt \cup {None} /\ (q # None => q \in 1 .. built)
  BY <1>1, <1>3 DEF DeferredOK, Entry
<1> HIDE DEF q
<1>9. TypeOK'
  <2>1. fate' \in [Pkt -> SUBSET {"sent", "released", "lost"}]
    BY <1>1, <1>4, <1>8 DEF TypeOK
  <2>2. source' \subseteq {"ethAddr", "ipAddr"}
    BY <1>1, <1>5 DEF TypeOK
  <2> QED BY <1>1, <1>2, <1>5, <1>7, <2>1, <2>2 DEF TypeOK, Entry
<1>10. PathOK'
  <2>1. \A p \in Pkt : p > built => fate'[p] = {}
    BY <1>1, <1>4, <1>8 DEF PathOK, TypeOK
  <2>2. pc \in {"header"} \cup Placing => arpCache'[entry].pa = Gw
    BY <1>1, <1>7 DEF PathOK, TypeOK, Placing, Attaching
  <2> QED BY <1>1, <1>2, <2>1, <2>2 DEF PathOK
<1>11. DeferredOK'
  BY <1>1, <1>2, <1>7 DEF DeferredOK
<1>12. IntfOK' /\ BufOK'
  <2>1. CASE s \in Slot
    BY <1>2, <1>6, <2>1 DEF IntfOK, BufOK
  <2>2. CASE s \notin Slot
    <3>1. UNCHANGED <<arpCache, fate>>
      BY <1>4, <2>2
    <3> QED BY <1>1, <1>2, <3>1 DEF IntfOK, BufOK, Holders
  <2> QED BY <2>1, <2>2
<1>13. EntryOK'
  <2> SUFFICES ASSUME "add" \notin raced PROVE EntryOK'
    BY <1>2 DEF EntryOK
  <2>1. ASSUME NEW t \in Slot, arpCache'[t].pa = Gw
        PROVE  Waits(t)' \/ Resolved(t)'
    <3>1. CASE t = s
      BY <1>2, <1>6, <1>7, <3>1 DEF Resolved
    <3>2. CASE t # s
      <4>1. arpCache'[t] = arpCache[t] /\ (Waits(t) \/ Resolved(t))
        BY <1>1, <1>7, <2>1, <3>2 DEF EntryOK
      <4> QED BY <1>2, <4>1 DEF Waits, Resolved
    <3> QED BY <3>1, <3>2
  <2>2. pc \in {"ha", "pa"} => entry \in Slot
    BY <1>1 DEF TypeOK
  <2>3. /\ \A t, u \in Slot : arpCache[t].pa = arpCache[u].pa => t = u \/ arpCache[t].pa = Zero
        /\ pc \in Adding => \A t \in Slot : arpCache[t].pa # Gw
        /\ pc \in {"ha", "pa"} => arpCache[entry].pa = Zero
        /\ pc = "pa" => arpCache[entry].ha = Null
    BY <1>1 DEF EntryOK
  <2>4. /\ \A t, u \in Slot : arpCache'[t].pa = arpCache'[u].pa => t = u \/ arpCache'[t].pa = Zero
        /\ pc \in Adding => \A t \in Slot : arpCache'[t].pa # Gw
        /\ pc \in {"ha", "pa"} => arpCache'[entry].pa = Zero
        /\ pc = "pa" => arpCache'[entry].ha = Null
    BY <1>7, <2>2, <2>3
  <2> QED BY <1>2, <2>1, <2>4 DEF EntryOK
<1>14. AnswersWhole'
  <2>1. {"send", "devSend"} \subseteq InPlace <=> stores = Len(IntfStores)
    BY <1>1 DEF InPlace, IntfStores, TypeOK
  <2>2. stores = Len(IntfStores) => {"ethAddr", "ipAddr"} \subseteq InPlace
    BY DEF InPlace, IntfStores
  <2>3. stores < Len(IntfStores) \/ stores = Len(IntfStores)
    BY <1>1 DEF TypeOK, IntfStores
  <2> QED BY <1>1, <1>2, <1>5, <2>1, <2>2, <2>3 DEF AnswersWhole
<1> QED BY <1>9, <1>10, <1>11, <1>12, <1>13, <1>14 DEF CacheOK

(* Nothing touches the address of the entry that is about to be cleared.   *)
LEMMA RestStep ==
    ASSUME CacheOK, RestOK, Next
    PROVE  RestOK'
<1>1. TypeOK /\ PathOK /\ DeferredOK /\ EntryOK /\ IntfOK
  BY DEF CacheOK
<1> DEFINE Safe(t) == "add" \notin raced => arpCache[t].pa = Gw /\ Resolved(t)
<1>2. ASSUME UNCHANGED <<rest, echo, raced>>, routed => routed',
             ASSUME NEW t \in Slot, routed, Safe(t) PROVE Safe(t)'
      PROVE  RestOK'
  <2> SUFFICES ASSUME rest # NoRest PROVE RestOK'
    BY <1>2 DEF RestOK
  <2>1. rest.slot \in Slot \cup {None}
    BY <1>1 DEF TypeOK, Rests
  <2>2. CASE rest.slot = None
    BY <1>2, <2>2 DEF RestOK
  <2>3. CASE rest.slot # None
    <3> DEFINE t == rest.slot
    <3>1. t \in Slot /\ routed /\ "attach" \in raced /\ Safe(t) /\ echo = None
      BY <2>1, <2>3 DEF RestOK
    <3>2. t' = t
      BY <1>2
    <3> HIDE DEF t
    <3>3. PICK u \in Slot : u = t
      BY <3>1
    <3>4. Safe(u)'
      <4>1. Safe(u)
        BY <3>1, <3>3
      <4> QED BY <1>2, <3>1, <4>1
    <3>5. "add" \notin raced' => arpCache'[t'].pa = Gw /\ arpCache'[t'].ha # Null /\ arpCache'[t'].ha = last'
      BY <3>2, <3>3, <3>4 DEF Resolved
    <3> QED BY <1>2, <3>1, <3>5 DEF RestOK, Resolved, t
  <2> QED BY <2>2, <2>3
<1>3. CASE Task
  <2>1. UNCHANGED <<rest, echo, raced, last>> /\ (routed => routed')
    BY <1>3 DEF Task, SetUp, ArpInit, FirstPacket, AddRoute, Ping, Lookup, Header, Request, AddSearch,
                AddHa, AddPa, ReleaseDeferred, Attach, Ask, history
  <2>2. ASSUME NEW t \in Slot, routed, Safe(t) PROVE Safe(t)'
    <3>1. arpCache \in [Slot -> Entry]
      BY <1>1 DEF TypeOK, Entry
    <3>2. CASE arpCache' = arpCache
      BY <2>1, <2>2, <3>2 DEF Resolved
    <3>3. CASE ArpInit
      BY <1>1, <2>2, <3>3 DEF ArpInit, At, PathOK, Starting
    <3>4. CASE AddHa \/ AddPa
      <4> SUFFICES ASSUME "add" \notin raced PROVE Safe(t)'
        BY <2>1
      <4>1. pc \in {"ha", "pa"} /\ arpCache[t].pa = Gw /\ Resolved(t)
        BY <2>2, <3>4 DEF AddHa, AddPa, At
      <4>2. arpCache[t].pa # Gw
        BY <1>1, <4>1 DEF EntryOK, Adding
      <4> QED BY <4>1, <4>2
    <3>5. CASE Attach
      <4>1. entry \in Slot
        BY <1>1, <3>5 DEF TypeOK, Attach, At
      <4>2. arpCache'[t].pa = arpCache[t].pa /\ arpCache'[t].ha = arpCache[t].ha
        BY <3>1, <3>5, <4>1 DEF Attach, Entry
      <4> QED BY <2>1, <2>2, <4>2 DEF Resolved
    <3>6. arpCache' = arpCache \/ ArpInit \/ AddHa \/ AddPa \/ Attach
      BY <1>3 DEF Task, SetUp, FirstPacket, AddRoute, Ping, Lookup, Header, Request, AddSearch,
                  ReleaseDeferred, Ask
    <3> QED BY <3>2, <3>3, <3>4, <3>5, <3>6
  <2> HIDE DEF Safe
  <2> QED BY <1>2, <2>1, <2>2
<1>4. ASSUME NEW sha \in Mac, sha # Null, NEW spa \in IP, NEW forUs \in BOOLEAN, NEW asks \in BOOLEAN,
             Recv(sha, spa, forUs, asks), echo = None, UNCHANGED <<task, echo>>
      PROVE  RestOK'
  <2> DEFINE s == arp_lookup(spa)
             drops == s # None /\ arpCache[s].pkt # None /\ ~arpCache[s].type
  <2>1. \/ drops /\ rest' = [slot |-> s, answers |-> forUs /\ asks]
              /\ arpCache' = [arpCache EXCEPT ![s].ha = sha]
        \/ rest' = [slot |-> None, answers |-> forUs /\ asks]
        \/ rest' = NoRest
    BY <1>4 DEF Recv
  <2>2. CASE rest' = NoRest \/ rest' = [slot |-> None, answers |-> forUs /\ asks]
    BY <1>4, <2>2 DEF RestOK
  <2>3. CASE drops /\ rest' = [slot |-> s, answers |-> forUs /\ asks]
                   /\ arpCache' = [arpCache EXCEPT ![s].ha = sha]
    <3>1. s \in Slot /\ arpCache[s].pa = spa
      BY <2>3, FirstFound, Constants DEF arp_lookup
    <3> HIDE DEF s
    <3>2. "attach" \in raced /\ spa = Gw /\ routed
      BY <1>1, <2>3, <3>1 DEF IntfOK, DeferredOK
    <3>3. raced \subseteq raced' /\ last' = sha /\ routed'
      BY <1>4, <3>2 DEF Recv, Races, task
    <3>4. arpCache'[s].pa = Gw /\ arpCache'[s].ha = sha
      <4>1. arpCache \in [Slot -> Entry]
        BY <1>1 DEF TypeOK, Entry
      <4> QED BY <2>3, <3>1, <3>2, <4>1 DEF Entry
    <3>5. rest'.slot = s
      BY <2>3
    <3> QED BY <1>4, <3>2, <3>3, <3>4, <3>5 DEF RestOK, Resolved
  <2> QED BY <2>1, <2>2, <2>3
<1>5. CASE Answer
  BY <1>4, <1>5, Constants DEF Answer
<1>6. ASSUME NEW c \in Claims, NEW forUs \in BOOLEAN, NEW asks \in BOOLEAN, ArpFrame(c, forUs, asks)
      PROVE  RestOK'
  <2>1. c[1] \in Mac /\ c[1] # Null /\ c[2] \in IP
    BY Constants
  <2>2. Recv(c[1], c[2], forUs, asks) /\ echo = None /\ UNCHANGED <<task, echo>>
    BY <1>6 DEF ArpFrame
  <2> QED BY <1>4, <2>1, <2>2
<1>7. CASE Resume \/ EchoRequest \/ EchoReply
  <2>1. rest' = NoRest
    BY <1>7 DEF Resume, EchoRequest, EchoReply, RestOK
  <2> QED BY <2>1 DEF RestOK
<1> QED BY <1>3, <1>5, <1>6, <1>7 DEF Next

(* An echo request takes a buffer of its own.                              *)
LEMMA EchoRequestStep ==
    ASSUME CacheOK, EchoRequest
    PROVE  CacheOK'
<1>1. TypeOK /\ PathOK /\ DeferredOK /\ EntryOK /\ IntfOK /\ BufOK /\ AnswersWhole /\ built \in Nat
  BY BoundAssumption DEF CacheOK, TypeOK
<1>2. /\ UNCHANGED <<arpCache, stores, routed, pc, entry, pkt, rest, asked, dead, heard, last, out, source, fate, raced>>
      /\ echo = None /\ echo' = built + 1 /\ built' = built + 1 /\ echo' \in Pkt /\ built' \in 0 .. Packets
  BY <1>1, BoundAssumption DEF EchoRequest, task, history, Pkt
<1>3. TypeOK'
  BY <1>1, <1>2 DEF TypeOK
<1>4. PathOK'
  BY <1>1, <1>2, Constants DEF PathOK
<1>5. DeferredOK'
  BY <1>1, <1>2 DEF DeferredOK
<1>6. EntryOK' /\ IntfOK'
  BY <1>1, <1>2 DEF EntryOK, IntfOK, Waits, Resolved
<1>7. BufOK'
  <2> SUFFICES ASSUME "attach" \notin raced, NEW p \in 1 .. built'
               PROVE  \E h \in Holders(p)' : \A g \in Holders(p)' : g = h
    BY <1>2 DEF BufOK
  <2>1. p # None
    BY <1>1 DEF None
  <2>2. CASE p # built + 1
    BY <1>1, <1>2, <2>1, <2>2, HeldStill
  <2>3. CASE p = built + 1
    <3>1. ~(pkt' = p /\ pc' \in Sending) /\ fate'[p] = {} /\ \A t \in Slot : arpCache'[t].pkt # p
      BY <1>1, <1>2, <2>1, <2>3 DEF PathOK, DeferredOK
    <3>2. \A h : h \in Holders(p)' <=> h = <<0, "handler">>
      BY <1>2, <2>3, <3>1, HeldNext
    <3>3. <<0, "handler">> \in Holders(p)'
      BY <3>2
    <3> QED BY <3>2, <3>3, Zenon
  <2> QED BY <2>2, <2>3
<1>8. AnswersWhole'
  BY <1>1, <1>2 DEF AnswersWhole
<1> QED BY <1>3, <1>4, <1>5, <1>6, <1>7, <1>8 DEF CacheOK

(* Entries, deferred packets and buffers agree after every step of the     *)
(* process and every frame that is handled.                                *)
THEOREM ArpInductive == Spec => []IInv
<1>1. IInv /\ [Next]_vars => IInv'
  <2> SUFFICES ASSUME IInv, [Next]_vars PROVE IInv'
    OBVIOUS
  <2>1. CASE UNCHANGED vars
    BY <2>1 DEF vars, task, history, IInv, RestOK, CacheOK, TypeOK, PathOK, DeferredOK, EntryOK, Waits, Resolved, IntfOK,
                BufOK, Holders, AnswersWhole
  <2>2. CASE Task
    BY <2>2, RestStep, ControlStep, EndStep, ClearStep, AddStep, AttachStep DEF Task, Next, IInv
  <2>3. CASE ~Task /\ Next
    BY <2>3, RestStep, FrameStep, ResumeStep, EchoRequestStep, EchoStep DEF Next, IInv
  <2> QED BY <2>1, <2>2, <2>3
<1> QED BY <1>1, InitIInv, PTL DEF Spec

(* The cache stays within its size, and an address has one entry: arp_add  *)
(* is only reached after a search in vain, unless a frame comes in the     *)
(* middle of the process's.                                                *)
THEOREM EntriesStaySound == Spec => []EntriesSound
<1>1. IInv => EntriesSound
  BY DEF IInv, CacheOK, EntriesSound, OneEntry, EntryOK
<1> QED BY <1>1, ArpInductive, PTL

(* A packet's buffer is in one place at a time, whoever sends, defers,     *)
(* replaces or loses it.                                                   *)
THEOREM BuffersStayAccounted == Spec => []BuffersAccounted
<1>1. IInv => BuffersAccounted
  <2> SUFFICES ASSUME IInv, "attach" \notin raced, NEW p \in 1 .. built
               PROVE  Cardinality(Holders(p)) = 1
    BY DEF BuffersAccounted
  <2>1. PICK h \in Holders(p) : \A g \in Holders(p) : g = h
    BY DEF IInv, CacheOK, BufOK
  <2>2. Holders(p) = {h}
    BY <2>1
  <2> QED BY <2>2, FS_Singleton
<1> QED BY <1>1, ArpInductive, PTL

(* No answer leaves before our addresses are set, and no function is       *)
(* called that is not there, but for the two cases named.                  *)
THEOREM AnswersStayWhole == Spec => []AnswersWhole
<1>1. IInv => AnswersWhole
  BY DEF IInv, CacheOK
<1> QED BY <1>1, ArpInductive, PTL

(* An IPv4 frame leaves for the hardware address the gateway claimed last, *)
(* or for the null address while an earlier packet waits for the answer.   *)
THEOREM FramesSentRight == Spec => SentRight
<1> DEFINE Right == out' # out /\ "add" \notin raced' =>
                       \/ out'.to = last' /\ out'.to # Null
                       \/ /\ out'.to = Null
                          /\ \/ pc \in Attaching \cup {"attach"}
                             \/ \E s \in Slot : arpCache[s].pa = Gw /\ arpCache[s].pkt # None
<1>1. IInv /\ [Next]_vars => [Right]_vars
  <2> SUFFICES ASSUME IInv, Next, out' # out, "add" \notin raced' PROVE Right
    OBVIOUS
  <2>1. TypeOK /\ PathOK /\ DeferredOK /\ EntryOK
    BY DEF IInv, CacheOK
  <2>2. CASE Header
    <3>1. /\ pc = "header" /\ out'.to = arpCache[entry].ha /\ UNCHANGED <<last, raced>>
          /\ entry \in Slot /\ arpCache[entry].pa = Gw
      BY <2>1, <2>2 DEF Header, At, TypeOK, PathOK
    <3>2. Waits(entry) \/ Resolved(entry)
      BY <2>1, <3>1 DEF EntryOK
    <3> QED BY <3>1, <3>2 DEF Waits, Resolved, Placing, Attaching
  <2>3. CASE EchoReply
    <3> DEFINE s == arp_lookup(Gw)
    <3>1. /\ out'.to = arpCache[s].ha /\ s # None /\ last' = last /\ raced \subseteq raced'
      BY <2>3 DEF EchoReply, Races
    <3>2. s \in Slot /\ arpCache[s].pa = Gw
      BY <3>1, FirstFound DEF arp_lookup
    <3> HIDE DEF s
    <3>3. Waits(s) \/ Resolved(s)
      BY <2>1, <3>1, <3>2 DEF EntryOK
    <3> QED BY <3>1, <3>2, <3>3 DEF Waits, Resolved, Placing
  <2>4. ASSUME NEW sha \in Mac, sha # Null, NEW spa \in IP, NEW forUs \in BOOLEAN, NEW asks \in BOOLEAN,
               Recv(sha, spa, forUs, asks)
        PROVE  Right
    <3> DEFINE s == arp_lookup(spa)
    <3>1. s # None /\ arpCache[s].pkt # None /\ out'.to = sha /\ last' = (IF spa = Gw THEN sha ELSE last)
      BY <2>4 DEF Recv
    <3>2. s \in Slot /\ arpCache[s].pa = spa
      BY <3>1, FirstFound DEF arp_lookup
    <3> HIDE DEF s
    <3>3. spa = Gw
      BY <2>1, <3>1, <3>2 DEF DeferredOK
    <3> QED BY <2>4, <3>1, <3>3
  <2>5. CASE Answer
    BY <2>4, <2>5, Constants DEF Answer
  <2>6. ASSUME NEW c \in Claims, NEW forUs \in BOOLEAN, NEW asks \in BOOLEAN, ArpFrame(c, forUs, asks)
        PROVE  Right
    <3>1. c[1] \in Mac /\ c[1] # Null /\ c[2] \in IP
      BY Constants
    <3>2. Recv(c[1], c[2], forUs, asks)
      BY <2>6 DEF ArpFrame
    <3> QED BY <2>4, <3>1, <3>2
  <2>7. ~(Task /\ ~Header) /\ ~EchoRequest /\ ~Resume
    BY DEF Task, SetUp, ArpInit, FirstPacket, AddRoute, Ping, Lookup, Request, AddSearch, AddHa, AddPa,
           ReleaseDeferred, Attach, Ask, EchoRequest, Resume, history
  <2> QED BY <2>2, <2>3, <2>5, <2>6, <2>7 DEF Next
<1> QED BY <1>1, ArpInductive, PTL DEF Spec, SentRight
=============================================================================
