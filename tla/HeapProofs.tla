----------------------------- MODULE HeapProofs -----------------------------
(***************************************************************************)
(* What Heap promises for any clients, sizes and heap bounds, as long as   *)
(* no client is preempted inside a call.                                   *)
(***************************************************************************)
EXTENDS Heap, TLAPS

\* A call is over before the next one begins.
Serial == \A q, r \in Client : pc[q] # "idle" /\ pc[r] # "idle" => q = r

\* The blocks follow one another and end before heap_end.
Layout ==
    /\ heap_begin \in Blocks /\ status[heap_begin]
    /\ \A a \in Blocks : heap_begin <= a /\ a + Header + size[a] < heap_end
    /\ \A a, b \in Blocks : a < b => Behind(a) <= b

\* Only a block that is being added is not yet below last_alloc.
Frontier ==
    \A a \in Blocks :
        \/ a = last_alloc /\ \E q \in Client : pc[q] = "grow"
        \/ Behind(a) <= last_alloc /\ Behind(a) \in Blocks \cup {last_alloc}

\* What a client is about to hand out or to free: its own for the moment.
Fresh   == {"count", "grow", "count_fresh"}
Pending == Fresh \cup {"take", "free_status"}

InHand ==
    \A q \in Client :
        /\ pc[q] \in Labels \ {"idle", "free_status", "page", "page_take"} => want[q] > 0
        /\ pc[q] \in Pending =>
               /\ mem[q] \in Blocks /\ mem[q] # heap_begin
               /\ \A r \in Client : \A b \in owned[r] : b.at # mem[q]
        /\ pc[q] \in Fresh => status[mem[q]]
        /\ pc[q] \in Fresh \cup {"take"} => want[q] <= size[mem[q]]
        /\ pc[q] = "grow" => mem[q] = last_alloc /\ want[q] = size[mem[q]]
        /\ pc[q] = "page_take" => mem[q] < Pages

\* Every block handed out is marked, long enough, and handed out once.
Held ==
    \A q \in Client : \A b \in owned[q] :
        /\ b.at \in Blocks /\ b.at # heap_begin
        /\ status[b.at] /\ b.bytes <= size[b.at]
        /\ \A r \in Client : \A d \in owned[r] : b.at = d.at => <<q, b>> = <<r, d>>

\* And every marked block is somebody's.
Accounted ==
    \A a \in Blocks : status[a] =>
        \/ a = heap_begin
        \/ \E q \in Client : \E b \in owned[q] : b.at = a
        \/ \E q \in Client : pc[q] \in Fresh \cup {"free_status"} /\ mem[q] = a

\* The blocks a scan has passed do not fit.
Unfit(q, a) == status[a] \/ size[a] < want[q]

Scanned ==
    \A q \in Client :
        /\ pc[q] = "scan" =>
               /\ mem[q] \in Blocks \cup {last_alloc}
               /\ \A a \in Blocks : a < mem[q] => Unfit(q, a)
        /\ pc[q] = "nalloc" => \A a \in Blocks : Unfit(q, a)

\* A page about to be marked is nobody's.
PagesInHand ==
    /\ PagesExclusive
    /\ \A q \in Client : pc[q] = "page_take" => ~desc[mem[q]]

IInv ==
    /\ TypeOK /\ Serial /\ Layout /\ Frontier /\ InHand /\ Held
    /\ Accounted /\ Scanned /\ PagesInHand

USE DEF Header, Padding, Labels

(* mm_init leaves one block, pheap_desc, that ends below heap_end.         *)
LEMMA InitIInv == Init => IInv
<1>. SUFFICES ASSUME Init PROVE IInv
  OBVIOUS
<1>. USE SizesAssumption, HeapAssumption, BoundAssumption
<1>1. Blocks = {heap_begin} /\ size[heap_begin] = Pages
  BY DEF Init, Blocks
<1>2. TypeOK
  <2>1. /\ status \in [Blocks -> BOOLEAN] /\ size \in [Blocks -> Nat \ {0}]
        /\ Blocks \subseteq Nat
    BY <1>1 DEF Init, Blocks
  <2>2. last_alloc \in Nat /\ memory_used \in Int
    BY <1>1 DEF Init, Behind
  <2>3. /\ desc \in [0 .. Pages -> BOOLEAN] /\ pc \in [Client -> Labels]
        /\ mem \in [Client -> Nat] /\ want \in [Client -> Nat]
    BY DEF Init
  <2>5. panicked \in BOOLEAN
    BY DEF Init
  <2>6. calls \in 0 .. MaxCalls
    BY DEF Init
  <2>4. /\ owned \in [Client -> SUBSET [at : Nat, bytes : Nat]]
        /\ frames \in [Client -> SUBSET (0 .. Pages - 1)]
    BY DEF Init
  <2>. QED BY <2>1, <2>2, <2>3, <2>4, <2>5, <2>6 DEF TypeOK
<1>3. Layout /\ Frontier
  BY <1>1 DEF Init, Layout, Frontier, Behind, Blocks
<1>4. Serial /\ InHand /\ Held /\ Accounted
  BY <1>1 DEF Init, Serial, InHand, Held, Accounted, Fresh, Pending, Blocks
<1>5. Scanned /\ PagesInHand
  BY DEF Init, Scanned, PagesInHand, PagesExclusive
<1>. QED BY <1>2, <1>3, <1>4, <1>5 DEF IInv

-----------------------------------------------------------------------------
(* Every step keeps the types, part by part.                               *)
HeaderTypes ==
    /\ status \in [Blocks -> BOOLEAN] /\ size \in [Blocks -> Nat \ {0}]
    /\ Blocks \subseteq Nat
    /\ last_alloc \in Nat

CallTypes ==
    /\ pc \in [Client -> Labels]
    /\ mem \in [Client -> Nat] /\ want \in [Client -> Nat]

OwnTypes == owned \in [Client -> SUBSET [at : Nat, bytes : Nat]]

OtherTypes ==
    /\ memory_used \in Int
    /\ desc \in [0 .. Pages -> BOOLEAN]
    /\ frames \in [Client -> SUBSET (0 .. Pages - 1)]
    /\ panicked \in BOOLEAN
    /\ calls \in 0 .. MaxCalls

LEMMA TypeParts == TypeOK <=> HeaderTypes /\ CallTypes /\ OwnTypes /\ OtherTypes
  BY DEF TypeOK, HeaderTypes, CallTypes, OwnTypes, OtherTypes

-----------------------------------------------------------------------------
LEMMA TypeStep ==
  ASSUME Preemptive = FALSE, IInv, NEW q \in Client, Step(q)
  PROVE  (HeaderTypes /\ CallTypes /\ OwnTypes /\ OtherTypes)'
<1>. USE DEF At, Goto, Runs, headers, local, pages
<1>. HeaderTypes /\ CallTypes /\ OwnTypes /\ OtherTypes /\ InHand /\ Held
  BY TypeParts DEF IInv
<1>. USE SizesAssumption, HeapAssumption, BoundAssumption DEF Blocks
<1>1. ASSUME NEW n \in Sizes, Malloc(q, n) PROVE (HeaderTypes /\ CallTypes /\ OwnTypes /\ OtherTypes)'
  <2>1. HeaderTypes'
    BY <1>1 DEF Malloc, HeaderTypes
  <2>2. CallTypes'
    BY <1>1 DEF Malloc, CallTypes
  <2>3. OwnTypes'
    BY <1>1 DEF Malloc, OwnTypes
  <2>4. OtherTypes'
    BY <1>1 DEF Malloc, OtherTypes
  <2>. QED BY <2>1, <2>2, <2>3, <2>4
<1>2. CASE ScanEnd(q)
  <2>1. HeaderTypes'
    BY <1>2 DEF ScanEnd, HeaderTypes
  <2>2. CallTypes'
    BY <1>2 DEF ScanEnd, CallTypes
  <2>3. OwnTypes'
    BY <1>2 DEF ScanEnd, OwnTypes
  <2>4. OtherTypes'
    BY <1>2 DEF ScanEnd, OtherTypes
  <2>. QED BY <2>1, <2>2, <2>3, <2>4
<1>3. CASE ScanSkip(q)
  <2>1. HeaderTypes'
    BY <1>3 DEF ScanSkip, HeaderTypes
  <2>2. CallTypes'
    BY <1>3 DEF ScanSkip, CallTypes, HeaderTypes, AtEnd, Behind
  <2>3. OwnTypes'
    BY <1>3 DEF ScanSkip, OwnTypes
  <2>4. OtherTypes'
    BY <1>3 DEF ScanSkip, OtherTypes
  <2>. QED BY <2>1, <2>2, <2>3, <2>4
<1>4. CASE ScanFound(q)
  <2>1. HeaderTypes'
    BY <1>4 DEF ScanFound, HeaderTypes
  <2>2. CallTypes'
    BY <1>4 DEF ScanFound, CallTypes
  <2>3. OwnTypes'
    BY <1>4 DEF ScanFound, OwnTypes
  <2>4. OtherTypes'
    BY <1>4 DEF ScanFound, OtherTypes
  <2>. QED BY <2>1, <2>2, <2>3, <2>4
<1>5. CASE Take(q)
  <2>1. HeaderTypes'
    BY <1>5 DEF Take, HeaderTypes
  <2>2. CallTypes'
    BY <1>5 DEF Take, CallTypes
  <2>3. OwnTypes'
    BY <1>5 DEF Take, OwnTypes
  <2>4. OtherTypes'
    BY <1>5 DEF Take, OtherTypes
  <2>. QED BY <2>1, <2>2, <2>3, <2>4
<1>6. CASE Count(q)
  <2>1. HeaderTypes'
    BY <1>6 DEF Count, HeaderTypes
  <2>2. CallTypes'
    BY <1>6 DEF Count, CallTypes
  <2>3. OwnTypes'
    <3>. DEFINE b == [at |-> mem[q], bytes |-> want[q]]
    <3>1. b \in [at : Nat, bytes : Nat]
      BY DEF CallTypes
    <3>2. owned' = [owned EXCEPT ![q] = @ \cup {b}]
      BY <1>6 DEF Count, HandOut
    <3>. HIDE DEF b
    <3>. QED BY <3>1, <3>2 DEF OwnTypes
  <2>4. OtherTypes'
    BY <1>6 DEF Count, OtherTypes, CallTypes
  <2>. QED BY <2>1, <2>2, <2>3, <2>4
<1>7. CASE OutOfMemory(q)
  <2>1. HeaderTypes'
    BY <1>7 DEF OutOfMemory, HeaderTypes
  <2>2. CallTypes'
    BY <1>7 DEF OutOfMemory, CallTypes
  <2>3. OwnTypes'
    BY <1>7 DEF OutOfMemory, OwnTypes
  <2>4. OtherTypes'
    BY <1>7 DEF OutOfMemory, OtherTypes
  <2>. QED BY <2>1, <2>2, <2>3, <2>4
<1>8. CASE NewHeader(q)
  <2>1. HeaderTypes'
    <3>1. Blocks' = Blocks \cup {last_alloc}
      BY <1>8 DEF NewHeader
    <3>2. want[q] \in Nat \ {0}
      BY <1>8 DEF NewHeader, InHand, CallTypes
    <3>. QED BY <1>8, <3>1, <3>2 DEF NewHeader, HeaderTypes
  <2>2. CallTypes'
    BY <1>8 DEF NewHeader, CallTypes, HeaderTypes
  <2>3. OwnTypes'
    BY <1>8 DEF NewHeader, OwnTypes
  <2>4. OtherTypes'
    BY <1>8 DEF NewHeader, OtherTypes
  <2>. QED BY <2>1, <2>2, <2>3, <2>4
<1>9. CASE Grow(q)
  <2>1. HeaderTypes'
    BY <1>9 DEF Grow, HeaderTypes, CallTypes
  <2>2. CallTypes'
    BY <1>9 DEF Grow, CallTypes
  <2>3. OwnTypes'
    BY <1>9 DEF Grow, OwnTypes
  <2>4. OtherTypes'
    BY <1>9 DEF Grow, OtherTypes
  <2>. QED BY <2>1, <2>2, <2>3, <2>4
<1>10. CASE CountFresh(q)
  <2>1. HeaderTypes'
    BY <1>10 DEF CountFresh, HeaderTypes
  <2>2. CallTypes'
    BY <1>10 DEF CountFresh, CallTypes
  <2>3. OwnTypes'
    <3>. DEFINE b == [at |-> mem[q], bytes |-> want[q]]
    <3>1. b \in [at : Nat, bytes : Nat]
      BY DEF CallTypes
    <3>2. owned' = [owned EXCEPT ![q] = @ \cup {b}]
      BY <1>10 DEF CountFresh, HandOut
    <3>. HIDE DEF b
    <3>. QED BY <3>1, <3>2 DEF OwnTypes
  <2>4. OtherTypes'
    BY <1>10 DEF CountFresh, OtherTypes, CallTypes
  <2>. QED BY <2>1, <2>2, <2>3, <2>4
<1>11. ASSUME NEW b \in owned[q], Free(q, b) PROVE (HeaderTypes /\ CallTypes /\ OwnTypes /\ OtherTypes)'
  <2>1. HeaderTypes'
    BY <1>11 DEF Free, HeaderTypes
  <2>2. CallTypes'
    BY <1>11 DEF Free, CallTypes, OwnTypes
  <2>3. OwnTypes'
    BY <1>11 DEF Free, OwnTypes
  <2>4. OtherTypes'
    <3>1. size[b.at] \in Int
      BY DEF Held, HeaderTypes
    <3>. QED BY <1>11, <3>1 DEF Free, OtherTypes
  <2>. QED BY <2>1, <2>2, <2>3, <2>4
<1>12. CASE FreeStatus(q)
  <2>1. HeaderTypes'
    BY <1>12 DEF FreeStatus, HeaderTypes
  <2>2. CallTypes'
    BY <1>12 DEF FreeStatus, CallTypes
  <2>3. OwnTypes'
    BY <1>12 DEF FreeStatus, OwnTypes
  <2>4. OtherTypes'
    BY <1>12 DEF FreeStatus, OtherTypes
  <2>. QED BY <2>1, <2>2, <2>3, <2>4
<1>13. CASE Pmalloc(q)
  <2>1. HeaderTypes'
    BY <1>13 DEF Pmalloc, HeaderTypes
  <2>2. CallTypes'
    BY <1>13 DEF Pmalloc, CallTypes
  <2>3. OwnTypes'
    BY <1>13 DEF Pmalloc, OwnTypes
  <2>4. OtherTypes'
    BY <1>13 DEF Pmalloc, OtherTypes
  <2>. QED BY <2>1, <2>2, <2>3, <2>4
<1>14. CASE PageSkip(q)
  <2>1. HeaderTypes'
    BY <1>14 DEF PageSkip, HeaderTypes
  <2>2. CallTypes'
    BY <1>14 DEF PageSkip, CallTypes
  <2>3. OwnTypes'
    BY <1>14 DEF PageSkip, OwnTypes
  <2>4. OtherTypes'
    BY <1>14 DEF PageSkip, OtherTypes
  <2>. QED BY <2>1, <2>2, <2>3, <2>4
<1>15. CASE PageFound(q)
  <2>1. HeaderTypes'
    BY <1>15 DEF PageFound, HeaderTypes
  <2>2. CallTypes'
    BY <1>15 DEF PageFound, CallTypes
  <2>3. OwnTypes'
    BY <1>15 DEF PageFound, OwnTypes
  <2>4. OtherTypes'
    BY <1>15 DEF PageFound, OtherTypes
  <2>. QED BY <2>1, <2>2, <2>3, <2>4
<1>16. CASE PageTake(q)
  <2>1. HeaderTypes'
    BY <1>16 DEF PageTake, HeaderTypes
  <2>2. CallTypes'
    BY <1>16 DEF PageTake, CallTypes
  <2>3. OwnTypes'
    BY <1>16 DEF PageTake, OwnTypes
  <2>4. OtherTypes'
    <3>1. mem[q] \in 0 .. Pages - 1
      BY <1>16 DEF PageTake, InHand, CallTypes
    <3>. QED BY <1>16, <3>1 DEF PageTake, OtherTypes
  <2>. QED BY <2>1, <2>2, <2>3, <2>4
<1>17. CASE PageFail(q)
  <2>1. HeaderTypes'
    BY <1>17 DEF PageFail, HeaderTypes
  <2>2. CallTypes'
    BY <1>17 DEF PageFail, CallTypes
  <2>3. OwnTypes'
    BY <1>17 DEF PageFail, OwnTypes
  <2>4. OtherTypes'
    BY <1>17 DEF PageFail, OtherTypes
  <2>. QED BY <2>1, <2>2, <2>3, <2>4
<1>18. ASSUME NEW i \in 0 .. Pages, Pfree(q, i) PROVE (HeaderTypes /\ CallTypes /\ OwnTypes /\ OtherTypes)'
  <2>1. HeaderTypes'
    BY <1>18 DEF Pfree, HeaderTypes
  <2>2. CallTypes'
    BY <1>18 DEF Pfree, CallTypes
  <2>3. OwnTypes'
    BY <1>18 DEF Pfree, OwnTypes
  <2>4. OtherTypes'
    BY <1>18 DEF Pfree, OtherTypes
  <2>. QED BY <2>1, <2>2, <2>3, <2>4
<1>. QED BY <1>1, <1>2, <1>3, <1>4, <1>5, <1>6, <1>7, <1>8, <1>9, <1>10, <1>11, <1>12, <1>13, <1>14, <1>15, <1>16, <1>17, <1>18 DEF Step

-----------------------------------------------------------------------------
(* No preemption: the other clients are idle while q is in a call.         *)
LEMMA SerialStep ==
  ASSUME Preemptive = FALSE, IInv, NEW q \in Client, Step(q)
  PROVE  Serial'
<1>. USE DEF At, Goto, Runs, headers, local, pages
<1>. CallTypes /\ Serial
  BY TypeParts DEF IInv
<1>. USE DEF CallTypes, Serial
<1>1. ASSUME NEW n \in Sizes, Malloc(q, n) PROVE Serial'
  BY <1>1 DEF Malloc
<1>2. CASE ScanEnd(q)
  BY <1>2 DEF ScanEnd
<1>3. CASE ScanSkip(q)
  BY <1>3 DEF ScanSkip
<1>4. CASE ScanFound(q)
  BY <1>4 DEF ScanFound
<1>5. CASE Take(q)
  BY <1>5 DEF Take
<1>6. CASE Count(q)
  BY <1>6 DEF Count
<1>7. CASE OutOfMemory(q)
  BY <1>7 DEF OutOfMemory
<1>8. CASE NewHeader(q)
  BY <1>8 DEF NewHeader
<1>9. CASE Grow(q)
  BY <1>9 DEF Grow
<1>10. CASE CountFresh(q)
  BY <1>10 DEF CountFresh
<1>11. ASSUME NEW b \in owned[q], Free(q, b) PROVE Serial'
  BY <1>11 DEF Free
<1>12. CASE FreeStatus(q)
  BY <1>12 DEF FreeStatus
<1>13. CASE Pmalloc(q)
  BY <1>13 DEF Pmalloc
<1>14. CASE PageSkip(q)
  BY <1>14 DEF PageSkip
<1>15. CASE PageFound(q)
  BY <1>15 DEF PageFound
<1>16. CASE PageTake(q)
  BY <1>16 DEF PageTake
<1>17. CASE PageFail(q)
  BY <1>17 DEF PageFail
<1>18. ASSUME NEW i \in 0 .. Pages, Pfree(q, i) PROVE Serial'
  BY <1>18 DEF Pfree
<1>. QED BY <1>1, <1>2, <1>3, <1>4, <1>5, <1>6, <1>7, <1>8, <1>9, <1>10, <1>11, <1>12, <1>13, <1>14, <1>15, <1>16, <1>17, <1>18 DEF Step

-----------------------------------------------------------------------------
(* The layout changes only when a header is written behind the last block. *)
LEMMA LayoutStep ==
  ASSUME Preemptive = FALSE, IInv, NEW q \in Client, Step(q)
  PROVE  (Layout /\ Frontier)'
<1>. USE DEF At, Goto, Runs, headers, local, pages
<1>. CallTypes /\ HeaderTypes /\ Layout /\ Frontier /\ InHand /\ Serial /\ Held
  BY TypeParts DEF IInv
<1>. USE DEF CallTypes, HeaderTypes
<1>1. ASSUME NEW n \in Sizes, Malloc(q, n) PROVE (Layout /\ Frontier)'
  BY <1>1 DEF Malloc, Layout, Frontier, Behind, Blocks
<1>2. CASE ScanEnd(q)
  BY <1>2 DEF ScanEnd, Layout, Frontier, Behind, Blocks
<1>3. CASE ScanSkip(q)
  BY <1>3 DEF ScanSkip, Layout, Frontier, Behind, Blocks
<1>4. CASE ScanFound(q)
  BY <1>4 DEF ScanFound, Layout, Frontier, Behind, Blocks
<1>5. CASE Take(q)
  BY <1>5 DEF Take, Layout, Frontier, Behind, Blocks
<1>6. CASE Count(q)
  BY <1>6 DEF Count, Layout, Frontier, Behind, Blocks
<1>7. CASE OutOfMemory(q)
  BY <1>7 DEF OutOfMemory, Layout, Frontier, Behind, Blocks
<1>8. CASE NewHeader(q)
  <2>. DEFINE l == last_alloc
  <2>1. /\ Blocks' = Blocks \cup {l} /\ size'[l] = want[q] /\ status'[l]
        /\ \A a \in Blocks : a # l => size'[a] = size[a] /\ status'[a] = status[a]
        /\ last_alloc' = l /\ l + want[q] + 8 < heap_end /\ pc'[q] = "grow" /\ want[q] > 0
    BY <1>8 DEF NewHeader, Blocks, InHand
  <2>2. \A r \in Client : pc[r] # "grow"
    BY <1>8 DEF NewHeader, Serial
  <2>3. \A a \in Blocks : Behind(a) <= l /\ a < l /\ Behind(a) \in Blocks \cup {l}
    BY <2>2 DEF Frontier, Behind
  <2>4. \A a \in Blocks : Behind(a)' = Behind(a)
    BY <2>1, <2>3 DEF Behind
  <2>5. Layout'
    BY <2>1, <2>3, <2>4 DEF Layout
  <2>6. Frontier'
    BY <2>1, <2>3, <2>4 DEF Frontier
  <2>. QED BY <2>5, <2>6
<1>9. CASE Grow(q)
  <2>1. /\ mem[q] = last_alloc /\ last_alloc \in Blocks /\ size[last_alloc] = want[q]
        /\ last_alloc' = Behind(last_alloc) /\ UNCHANGED <<status, size>>
    BY <1>9 DEF Grow, InHand, Pending, Fresh, Behind
  <2>2. \A a \in Blocks : a # last_alloc => Behind(a) <= last_alloc /\ Behind(a) \in Blocks
    BY <2>1 DEF Frontier
  <2>3. Layout'
    BY <2>1 DEF Layout, Behind, Blocks
  <2>4. last_alloc <= Behind(last_alloc)
    BY <2>1 DEF Behind
  <2>5. ASSUME NEW a \in Blocks
        PROVE  Behind(a) <= last_alloc' /\ Behind(a) \in Blocks \cup {last_alloc'}
    <3>1. Behind(a) \in Nat /\ Behind(last_alloc) \in Nat
      BY <2>1 DEF Behind
    <3>2. CASE a = last_alloc
      BY <2>1, <3>1, <3>2
    <3>3. CASE a # last_alloc
      <4>1. Behind(a) <= last_alloc /\ Behind(a) \in Blocks
        BY <2>2, <3>3
      <4>2. last_alloc \in Nat
        OBVIOUS
      <4>3. Behind(a) <= Behind(last_alloc)
        BY <2>4, <3>1, <4>1, <4>2
      <4>. QED BY <2>1, <4>1, <4>3
    <3>. QED BY <3>2, <3>3
  <2>6. Frontier'
    BY <2>1, <2>5 DEF Frontier, Behind, Blocks
  <2>. QED BY <2>3, <2>6
<1>10. CASE CountFresh(q)
  BY <1>10 DEF CountFresh, Layout, Frontier, Behind, Blocks
<1>11. ASSUME NEW b \in owned[q], Free(q, b) PROVE (Layout /\ Frontier)'
  BY <1>11 DEF Free, Layout, Frontier, Behind, Blocks
<1>12. CASE FreeStatus(q)
  BY <1>12 DEF FreeStatus, Layout, Frontier, Behind, Blocks, InHand, Pending, Fresh
<1>13. CASE Pmalloc(q)
  BY <1>13 DEF Pmalloc, Layout, Frontier, Behind, Blocks
<1>14. CASE PageSkip(q)
  BY <1>14 DEF PageSkip, Layout, Frontier, Behind, Blocks
<1>15. CASE PageFound(q)
  BY <1>15 DEF PageFound, Layout, Frontier, Behind, Blocks
<1>16. CASE PageTake(q)
  BY <1>16 DEF PageTake, Layout, Frontier, Behind, Blocks
<1>17. CASE PageFail(q)
  BY <1>17 DEF PageFail, Layout, Frontier, Behind, Blocks
<1>18. ASSUME NEW i \in 0 .. Pages, Pfree(q, i) PROVE (Layout /\ Frontier)'
  BY <1>18 DEF Pfree, Layout, Frontier, Behind, Blocks
<1>. QED BY <1>1, <1>2, <1>3, <1>4, <1>5, <1>6, <1>7, <1>8, <1>9, <1>10, <1>11, <1>12, <1>13, <1>14, <1>15, <1>16, <1>17, <1>18 DEF Step

-----------------------------------------------------------------------------
(* What a client holds in hand stays its own: others cannot take it.       *)
LEMMA InHandStep ==
  ASSUME Preemptive = FALSE, IInv, NEW q \in Client, Step(q)
  PROVE  InHand'
<1>. USE DEF At, Goto, Runs, headers, local, pages
<1>. CallTypes /\ HeaderTypes /\ OwnTypes /\ Layout /\ Frontier /\ InHand /\ Serial /\ Held
  BY TypeParts DEF IInv
<1>. USE SizesAssumption DEF CallTypes, HeaderTypes, OwnTypes
<1>1. ASSUME NEW n \in Sizes, Malloc(q, n) PROVE InHand'
  BY <1>1 DEF Malloc, InHand, Pending, Fresh, Serial
<1>2. CASE ScanEnd(q)
  BY <1>2 DEF ScanEnd, InHand, Pending, Fresh, Serial, HandOut, Blocks, AtEnd, Fits, Layout
<1>3. CASE ScanSkip(q)
  BY <1>3 DEF ScanSkip, InHand, Pending, Fresh, Serial, HandOut, Blocks, AtEnd, Fits, Layout
<1>4. CASE ScanFound(q)
  BY <1>4 DEF ScanFound, InHand, Pending, Fresh, Serial, Blocks, AtEnd, Fits, Layout, Held
<1>5. CASE Take(q)
  BY <1>5 DEF Take, InHand, Pending, Fresh, Serial, HandOut, Blocks, AtEnd, Fits, Layout
<1>6. CASE Count(q)
  BY <1>6 DEF Count, InHand, Pending, Fresh, Serial, HandOut, Blocks, AtEnd, Fits, Layout
<1>7. CASE OutOfMemory(q)
  BY <1>7 DEF OutOfMemory, InHand, Pending, Fresh, Serial, HandOut, Blocks, AtEnd, Fits, Layout
<1>8. CASE NewHeader(q)
  <2>1. \A r \in Client : r # q => pc[r] = "idle"
    BY <1>8 DEF NewHeader
  <2>2. last_alloc \notin Blocks
    BY <1>8, <2>1 DEF NewHeader, Frontier, Behind
  <2>3. \A r \in Client : \A b \in owned[r] : b.at \in Blocks
    BY DEF Held
  <2>4. /\ Blocks' = Blocks \cup {last_alloc} /\ size'[last_alloc] = want[q] /\ status'[last_alloc]
        /\ mem'[q] = last_alloc /\ pc'[q] = "grow"
        /\ UNCHANGED <<want, owned, last_alloc>>
    BY <1>8 DEF NewHeader, Blocks
  <2>5. \A r \in Client : r # q => pc'[r] = "idle"
    BY <1>8, <2>1 DEF NewHeader
  <2>6. heap_begin # last_alloc
    BY <2>2 DEF Layout
  <2>7. want[q] > 0
    BY <1>8 DEF NewHeader, InHand
  <2>. QED BY <2>2, <2>3, <2>4, <2>5, <2>6, <2>7 DEF InHand, Pending, Fresh
<1>9. CASE Grow(q)
  BY <1>9 DEF Grow, InHand, Pending, Fresh, Serial, HandOut, Blocks, AtEnd, Fits, Layout
<1>10. CASE CountFresh(q)
  BY <1>10 DEF CountFresh, InHand, Pending, Fresh, Serial, HandOut, Blocks, AtEnd, Fits, Layout
<1>11. ASSUME NEW b \in owned[q], Free(q, b) PROVE InHand'
  <2>1. /\ b.at \in Blocks /\ b.at # heap_begin
        /\ \A r \in Client : \A d \in owned[r] : b.at = d.at => <<q, b>> = <<r, d>>
    BY DEF Held
  <2>2. \A r \in Client : \A d \in owned'[r] : d \in owned[r] /\ <<q, b>> # <<r, d>>
    BY <1>11 DEF Free
  <2>3. \A r \in Client : \A d \in owned'[r] : d.at # b.at
    BY <2>1, <2>2
  <2>4. /\ pc'[q] = "free_status" /\ mem'[q] = b.at
        /\ \A r \in Client : r # q => pc'[r] = "idle"
        /\ UNCHANGED <<status, size, last_alloc, want>>
    BY <1>11 DEF Free
  <2>. QED BY <2>1, <2>3, <2>4 DEF InHand, Pending, Fresh, Blocks
<1>12. CASE FreeStatus(q)
  BY <1>12 DEF FreeStatus, InHand, Pending, Fresh, Serial, HandOut, Blocks, AtEnd, Fits, Layout
<1>13. CASE Pmalloc(q)
  BY <1>13 DEF Pmalloc, InHand, Pending, Fresh, Serial, HandOut, Blocks, AtEnd, Fits, Layout
<1>14. CASE PageSkip(q)
  BY <1>14 DEF PageSkip, InHand, Pending, Fresh, Serial, HandOut, Blocks, AtEnd, Fits, Layout
<1>15. CASE PageFound(q)
  BY <1>15 DEF PageFound, InHand, Pending, Fresh, Serial, HandOut, Blocks, AtEnd, Fits, Layout
<1>16. CASE PageTake(q)
  BY <1>16 DEF PageTake, InHand, Pending, Fresh, Serial, HandOut, Blocks, AtEnd, Fits, Layout
<1>17. CASE PageFail(q)
  BY <1>17 DEF PageFail, InHand, Pending, Fresh, Serial, HandOut, Blocks, AtEnd, Fits, Layout
<1>18. ASSUME NEW i \in 0 .. Pages, Pfree(q, i) PROVE InHand'
  BY <1>18 DEF Pfree, InHand, Pending, Fresh, Serial, HandOut, Blocks, AtEnd, Fits, Layout
<1>. QED BY <1>1, <1>2, <1>3, <1>4, <1>5, <1>6, <1>7, <1>8, <1>9, <1>10, <1>11, <1>12, <1>13, <1>14, <1>15, <1>16, <1>17, <1>18 DEF Step

-----------------------------------------------------------------------------
(* Blocks held stay marked; a block is handed out only by who has it in    *)
(* hand.                                                                   *)
LEMMA HeldStep ==
  ASSUME Preemptive = FALSE, IInv, NEW q \in Client, Step(q)
  PROVE  Held'
<1>. USE DEF At, Goto, Runs, headers, local, pages
<1>. CallTypes /\ HeaderTypes /\ OwnTypes /\ Layout /\ Frontier /\ InHand /\ Serial /\ Held
  BY TypeParts DEF IInv
<1>. USE DEF CallTypes, HeaderTypes, OwnTypes
<1>1. ASSUME NEW n \in Sizes, Malloc(q, n) PROVE Held'
  BY <1>1 DEF Malloc, Held, Blocks
<1>2. CASE ScanEnd(q)
  BY <1>2 DEF ScanEnd, Held, Blocks
<1>3. CASE ScanSkip(q)
  BY <1>3 DEF ScanSkip, Held, Blocks
<1>4. CASE ScanFound(q)
  BY <1>4 DEF ScanFound, Held, Blocks
<1>5. CASE Take(q)
  BY <1>5 DEF Take, Held, Blocks
<1>6. CASE Count(q)
  <2>. DEFINE m == [at |-> mem[q], bytes |-> want[q]]
  <2>1. owned' = [owned EXCEPT ![q] = @ \cup {m}] /\ UNCHANGED <<status, size>>
    BY <1>6 DEF Count, HandOut
  <2>2. /\ m.at \in Blocks /\ m.at # heap_begin /\ status[m.at] /\ m.bytes <= size[m.at]
        /\ \A r \in Client : \A b \in owned[r] : b.at # m.at
    BY <1>6 DEF Count, InHand, Pending, Fresh
  <2>3. \A r \in Client : \A b \in owned'[r] : b \in owned[r] \/ (r = q /\ b = m)
    <3>. HIDE DEF m
    <3>1. owned'[q] = owned[q] \cup {m} /\ \A r \in Client : r # q => owned'[r] = owned[r]
      BY <2>1
    <3>. SUFFICES ASSUME NEW r \in Client, NEW b \in owned'[r]
                  PROVE  b \in owned[r] \/ (r = q /\ b = m)
      OBVIOUS
    <3>2. CASE r = q
      BY <3>1, <3>2
    <3>3. CASE r # q
      BY <3>1, <3>3
    <3>. QED BY <3>2, <3>3
  <2>. HIDE DEF m
  <2>. QED BY <2>1, <2>2, <2>3 DEF Held, Blocks
<1>7. CASE OutOfMemory(q)
  BY <1>7 DEF OutOfMemory, Held, Blocks
<1>8. CASE NewHeader(q)
  <2>1. last_alloc \notin Blocks
    BY <1>8 DEF NewHeader, Frontier, Behind
  <2>. QED BY <1>8, <2>1 DEF NewHeader, Held, Blocks
<1>9. CASE Grow(q)
  BY <1>9 DEF Grow, Held, Blocks
<1>10. CASE CountFresh(q)
  <2>. DEFINE m == [at |-> mem[q], bytes |-> want[q]]
  <2>1. owned' = [owned EXCEPT ![q] = @ \cup {m}] /\ UNCHANGED <<status, size>>
    BY <1>10 DEF CountFresh, HandOut
  <2>2. /\ m.at \in Blocks /\ m.at # heap_begin /\ status[m.at] /\ m.bytes <= size[m.at]
        /\ \A r \in Client : \A b \in owned[r] : b.at # m.at
    BY <1>10 DEF CountFresh, InHand, Pending, Fresh
  <2>3. \A r \in Client : \A b \in owned'[r] : b \in owned[r] \/ (r = q /\ b = m)
    <3>. HIDE DEF m
    <3>1. owned'[q] = owned[q] \cup {m} /\ \A r \in Client : r # q => owned'[r] = owned[r]
      BY <2>1
    <3>. SUFFICES ASSUME NEW r \in Client, NEW b \in owned'[r]
                  PROVE  b \in owned[r] \/ (r = q /\ b = m)
      OBVIOUS
    <3>2. CASE r = q
      BY <3>1, <3>2
    <3>3. CASE r # q
      BY <3>1, <3>3
    <3>. QED BY <3>2, <3>3
  <2>. HIDE DEF m
  <2>. QED BY <2>1, <2>2, <2>3 DEF Held, Blocks
<1>11. ASSUME NEW b \in owned[q], Free(q, b) PROVE Held'
  BY <1>11 DEF Free, Held, Blocks
<1>12. CASE FreeStatus(q)
  BY <1>12 DEF FreeStatus, Held, InHand, Pending, Blocks
<1>13. CASE Pmalloc(q)
  BY <1>13 DEF Pmalloc, Held, Blocks
<1>14. CASE PageSkip(q)
  BY <1>14 DEF PageSkip, Held, Blocks
<1>15. CASE PageFound(q)
  BY <1>15 DEF PageFound, Held, Blocks
<1>16. CASE PageTake(q)
  BY <1>16 DEF PageTake, Held, Blocks
<1>17. CASE PageFail(q)
  BY <1>17 DEF PageFail, Held, Blocks
<1>18. ASSUME NEW i \in 0 .. Pages, Pfree(q, i) PROVE Held'
  BY <1>18 DEF Pfree, Held, Blocks
<1>. QED BY <1>1, <1>2, <1>3, <1>4, <1>5, <1>6, <1>7, <1>8, <1>9, <1>10, <1>11, <1>12, <1>13, <1>14, <1>15, <1>16, <1>17, <1>18 DEF Step

-----------------------------------------------------------------------------
(* A block stays marked only while somebody has it.                        *)
LEMMA AccountedStep ==
  ASSUME Preemptive = FALSE, IInv, NEW q \in Client, Step(q)
  PROVE  Accounted'
<1>. USE DEF At, Goto, Runs, headers, local, pages
<1>. CallTypes /\ HeaderTypes /\ OwnTypes /\ Layout /\ Frontier /\ InHand /\ Serial /\ Accounted
  BY TypeParts DEF IInv
<1>. USE DEF CallTypes, HeaderTypes, OwnTypes, Fresh
<1>1. ASSUME NEW n \in Sizes, Malloc(q, n) PROVE Accounted'
  BY <1>1 DEF Malloc, Accounted, Blocks
<1>2. CASE ScanEnd(q)
  BY <1>2 DEF ScanEnd, Accounted, Blocks
<1>3. CASE ScanSkip(q)
  BY <1>3 DEF ScanSkip, Accounted, Blocks
<1>4. CASE ScanFound(q)
  BY <1>4 DEF ScanFound, Accounted, Blocks
<1>5. CASE Take(q)
  BY <1>5 DEF Take, Accounted, Blocks
<1>6. CASE Count(q)
  <2>1. \E b \in owned'[q] : b.at = mem[q]
    <3>. DEFINE m == [at |-> mem[q], bytes |-> want[q]]
    <3>1. m \in owned'[q]
      BY <1>6 DEF Count, HandOut
    <3>. QED BY <3>1
  <2>2. /\ \A r \in Client : owned[r] \subseteq owned'[r]
        /\ \A r \in Client : r # q => pc'[r] = pc[r]
        /\ UNCHANGED <<status, size, mem>>
    BY <1>6 DEF Count, HandOut
  <2>. QED BY <2>1, <2>2 DEF Accounted, Blocks
<1>7. CASE OutOfMemory(q)
  BY <1>7 DEF OutOfMemory, Accounted, Blocks
<1>8. CASE NewHeader(q)
  BY <1>8 DEF NewHeader, Accounted, Blocks
<1>9. CASE Grow(q)
  BY <1>9 DEF Grow, Accounted, Blocks
<1>10. CASE CountFresh(q)
  <2>1. \E b \in owned'[q] : b.at = mem[q]
    <3>. DEFINE m == [at |-> mem[q], bytes |-> want[q]]
    <3>1. m \in owned'[q]
      BY <1>10 DEF CountFresh, HandOut
    <3>. QED BY <3>1
  <2>2. /\ \A r \in Client : owned[r] \subseteq owned'[r]
        /\ \A r \in Client : r # q => pc'[r] = pc[r]
        /\ UNCHANGED <<status, size, mem>>
    BY <1>10 DEF CountFresh, HandOut
  <2>. QED BY <2>1, <2>2 DEF Accounted, Blocks
<1>11. ASSUME NEW b \in owned[q], Free(q, b) PROVE Accounted'
  BY <1>11 DEF Free, Accounted, Blocks
<1>12. CASE FreeStatus(q)
  BY <1>12 DEF FreeStatus, Accounted, Blocks
<1>13. CASE Pmalloc(q)
  BY <1>13 DEF Pmalloc, Accounted, Blocks
<1>14. CASE PageSkip(q)
  BY <1>14 DEF PageSkip, Accounted, Blocks
<1>15. CASE PageFound(q)
  BY <1>15 DEF PageFound, Accounted, Blocks
<1>16. CASE PageTake(q)
  BY <1>16 DEF PageTake, Accounted, Blocks
<1>17. CASE PageFail(q)
  BY <1>17 DEF PageFail, Accounted, Blocks
<1>18. ASSUME NEW i \in 0 .. Pages, Pfree(q, i) PROVE Accounted'
  BY <1>18 DEF Pfree, Accounted, Blocks
<1>. QED BY <1>1, <1>2, <1>3, <1>4, <1>5, <1>6, <1>7, <1>8, <1>9, <1>10, <1>11, <1>12, <1>13, <1>14, <1>15, <1>16, <1>17, <1>18 DEF Step

-----------------------------------------------------------------------------
(* A scan passes a block only when it does not fit, and passes every one.  *)
LEMMA ScannedStep ==
  ASSUME Preemptive = FALSE, IInv, NEW q \in Client, Step(q)
  PROVE  Scanned'
<1>. USE DEF At, Goto, Runs, headers, local, pages
<1>. CallTypes /\ HeaderTypes /\ Layout /\ Frontier /\ Serial /\ Scanned
  BY TypeParts DEF IInv
<1>. USE DEF CallTypes, HeaderTypes
<1>1. ASSUME NEW n \in Sizes, Malloc(q, n) PROVE Scanned'
  BY <1>1, SizesAssumption DEF Malloc, Scanned, Unfit, Layout, Blocks
<1>2. CASE ScanEnd(q)
  <2>1. mem[q] \in Blocks \cup {last_alloc} /\ (mem[q] >= last_alloc \/ mem[q] \notin Blocks)
    BY <1>2 DEF ScanEnd, AtEnd, Scanned
  <2>2. \A r \in Client : pc[r] # "grow"
    BY <1>2 DEF ScanEnd, Serial
  <2>3. \A a \in Blocks : a < last_alloc
    BY <2>2 DEF Frontier, Behind
  <2>4. \A a \in Blocks : a < mem[q]
    BY <2>1, <2>3
  <2>5. \A a \in Blocks : Unfit(q, a)
    BY <1>2, <2>4 DEF ScanEnd, Scanned
  <2>. QED BY <1>2, <2>5 DEF ScanEnd, Scanned, Unfit, Blocks
<1>3. CASE ScanSkip(q)
  <2>. DEFINE a == mem[q]
  <2>1. a \in Blocks /\ Unfit(q, a) /\ \A b \in Blocks : b < a => Unfit(q, b)
    BY <1>3 DEF ScanSkip, AtEnd, Fits, Scanned, Unfit
  <2>2. \A r \in Client : pc[r] # "grow"
    BY <1>3 DEF ScanSkip, Serial
  <2>3. Behind(a) \in Blocks \cup {last_alloc}
    BY <2>1, <2>2 DEF Frontier
  <2>4. Behind(a) \in Nat
    BY <2>1 DEF Behind
  <2>5. ASSUME NEW b \in Blocks, b < Behind(a) PROVE Unfit(q, b)
    <3>1. a \in Nat /\ b \in Nat
      BY <2>1
    <3>2. CASE b < a
      BY <2>1, <3>2
    <3>3. CASE b = a
      BY <2>1, <3>3
    <3>4. CASE a < b
      <4>1. Behind(a) <= b
        BY <2>1, <3>4 DEF Layout
      <4>. QED BY <2>4, <2>5, <3>1, <4>1
    <3>. QED BY <3>1, <3>2, <3>3, <3>4
  <2>6. /\ mem' = [mem EXCEPT ![q] = Behind(a)]
        /\ UNCHANGED <<pc, status, size, last_alloc, want>>
    BY <1>3 DEF ScanSkip
  <2>. HIDE DEF a
  <2>. QED BY <2>3, <2>5, <2>6 DEF Scanned, Unfit, Blocks
<1>4. CASE ScanFound(q)
  BY <1>4 DEF ScanFound, Scanned, Unfit, Serial, Blocks
<1>5. CASE Take(q)
  BY <1>5 DEF Take, Scanned, Unfit, Serial, Blocks
<1>6. CASE Count(q)
  BY <1>6 DEF Count, Scanned, Unfit, Serial, Blocks
<1>7. CASE OutOfMemory(q)
  BY <1>7 DEF OutOfMemory, Scanned, Unfit, Serial, Blocks
<1>8. CASE NewHeader(q)
  BY <1>8 DEF NewHeader, Scanned, Unfit, Serial, Blocks
<1>9. CASE Grow(q)
  BY <1>9 DEF Grow, Scanned, Unfit, Serial, Blocks
<1>10. CASE CountFresh(q)
  BY <1>10 DEF CountFresh, Scanned, Unfit, Serial, Blocks
<1>11. ASSUME NEW b \in owned[q], Free(q, b) PROVE Scanned'
  BY <1>11 DEF Free, Scanned, Unfit, Serial, Blocks
<1>12. CASE FreeStatus(q)
  BY <1>12 DEF FreeStatus, Scanned, Unfit, Serial, Blocks
<1>13. CASE Pmalloc(q)
  BY <1>13 DEF Pmalloc, Scanned, Unfit, Serial, Blocks
<1>14. CASE PageSkip(q)
  BY <1>14 DEF PageSkip, Scanned, Unfit, Serial, Blocks
<1>15. CASE PageFound(q)
  BY <1>15 DEF PageFound, Scanned, Unfit, Serial, Blocks
<1>16. CASE PageTake(q)
  BY <1>16 DEF PageTake, Scanned, Unfit, Serial, Blocks
<1>17. CASE PageFail(q)
  BY <1>17 DEF PageFail, Scanned, Unfit, Serial, Blocks
<1>18. ASSUME NEW i \in 0 .. Pages, Pfree(q, i) PROVE Scanned'
  BY <1>18 DEF Pfree, Scanned, Unfit, Serial, Blocks
<1>. QED BY <1>1, <1>2, <1>3, <1>4, <1>5, <1>6, <1>7, <1>8, <1>9, <1>10, <1>11, <1>12, <1>13, <1>14, <1>15, <1>16, <1>17, <1>18 DEF Step

-----------------------------------------------------------------------------
(* A page is marked before it is handed out and until it is given back.    *)
LEMMA PagesStep ==
  ASSUME Preemptive = FALSE, IInv, NEW q \in Client, Step(q)
  PROVE  PagesInHand'
<1>. USE DEF At, Goto, Runs, headers, local, pages
<1>. CallTypes /\ OtherTypes /\ Serial /\ InHand /\ PagesInHand
  BY TypeParts DEF IInv
<1>. USE DEF CallTypes, OtherTypes
<1>1. ASSUME NEW n \in Sizes, Malloc(q, n) PROVE PagesInHand'
  BY <1>1 DEF Malloc, PagesInHand, PagesExclusive, Serial
<1>2. CASE ScanEnd(q)
  BY <1>2 DEF ScanEnd, PagesInHand, PagesExclusive, Serial
<1>3. CASE ScanSkip(q)
  BY <1>3 DEF ScanSkip, PagesInHand, PagesExclusive, Serial
<1>4. CASE ScanFound(q)
  BY <1>4 DEF ScanFound, PagesInHand, PagesExclusive, Serial
<1>5. CASE Take(q)
  BY <1>5 DEF Take, PagesInHand, PagesExclusive, Serial
<1>6. CASE Count(q)
  BY <1>6 DEF Count, PagesInHand, PagesExclusive, Serial
<1>7. CASE OutOfMemory(q)
  BY <1>7 DEF OutOfMemory, PagesInHand, PagesExclusive, Serial
<1>8. CASE NewHeader(q)
  BY <1>8 DEF NewHeader, PagesInHand, PagesExclusive, Serial
<1>9. CASE Grow(q)
  BY <1>9 DEF Grow, PagesInHand, PagesExclusive, Serial
<1>10. CASE CountFresh(q)
  BY <1>10 DEF CountFresh, PagesInHand, PagesExclusive, Serial
<1>11. ASSUME NEW b \in owned[q], Free(q, b) PROVE PagesInHand'
  BY <1>11 DEF Free, PagesInHand, PagesExclusive, Serial
<1>12. CASE FreeStatus(q)
  BY <1>12 DEF FreeStatus, PagesInHand, PagesExclusive, Serial
<1>13. CASE Pmalloc(q)
  BY <1>13 DEF Pmalloc, PagesInHand, PagesExclusive, Serial
<1>14. CASE PageSkip(q)
  BY <1>14 DEF PageSkip, PagesInHand, PagesExclusive, Serial
<1>15. CASE PageFound(q)
  BY <1>15 DEF PageFound, PagesInHand, PagesExclusive, Serial
<1>16. CASE PageTake(q)
  <2>1. ~desc[mem[q]] /\ mem[q] \in 0 .. Pages
    BY <1>16, SizesAssumption DEF PageTake, PagesInHand, InHand
  <2>2. /\ desc'[mem[q]] /\ \A i \in 0 .. Pages : desc[i] => desc'[i]
        /\ \A r \in Client : r # q => pc'[r] = "idle"
        /\ pc'[q] = "idle"
    BY <1>16, <2>1 DEF PageTake
  <2>3. \A r \in Client : mem[q] \notin frames[r]
    BY <2>1 DEF PagesInHand, PagesExclusive
  <2>4. /\ frames'[q] = frames[q] \cup {mem[q]}
        /\ \A r \in Client : r # q => frames'[r] = frames[r]
    BY <1>16 DEF PageTake
  <2>5. \A r \in Client : \A i \in frames[r] : i \in 0 .. Pages
    BY SizesAssumption
  <2>6. ASSUME NEW r \in Client, NEW i \in frames'[r]
        PROVE  desc'[i] /\ \A t \in Client \ {r} : i \notin frames'[t]
    <3>1. CASE i = mem[q]
      <4>1. r = q
        BY <2>3, <2>4, <3>1
      <4>. QED BY <2>2, <2>3, <2>4, <3>1, <4>1
    <3>2. CASE i # mem[q]
      <4>1. i \in frames[r]
        BY <2>4, <3>2
      <4>2. desc[i] /\ \A t \in Client \ {r} : i \notin frames[t]
        BY <4>1 DEF PagesInHand, PagesExclusive
      <4>. QED BY <2>2, <2>4, <2>5, <3>2, <4>1, <4>2
    <3>. QED BY <3>1, <3>2
  <2>. QED BY <2>2, <2>6 DEF PagesInHand, PagesExclusive
<1>17. CASE PageFail(q)
  BY <1>17 DEF PageFail, PagesInHand, PagesExclusive, Serial
<1>18. ASSUME NEW i \in 0 .. Pages, Pfree(q, i) PROVE PagesInHand'
  BY <1>18 DEF Pfree, PagesInHand, PagesExclusive, Serial
<1>. QED BY <1>1, <1>2, <1>3, <1>4, <1>5, <1>6, <1>7, <1>8, <1>9, <1>10, <1>11, <1>12, <1>13, <1>14, <1>15, <1>16, <1>17, <1>18 DEF Step

-----------------------------------------------------------------------------
(* The invariant holds in every reachable state when calls are not         *)
(* preempted.                                                              *)
THEOREM HeapInductive ==
  ASSUME Preemptive = FALSE
  PROVE  Spec => []IInv
<1>1. Init => IInv
  BY InitIInv
<1>2. IInv /\ [Next]_vars => IInv'
  <2>. SUFFICES ASSUME IInv, [Next]_vars PROVE IInv'
    OBVIOUS
  <2>1. ASSUME NEW q \in Client, Step(q) PROVE IInv'
    <3>1. TypeOK'
      BY <2>1, TypeStep DEF TypeOK, HeaderTypes, CallTypes, OwnTypes, OtherTypes
    <3>. QED BY <2>1, <3>1, SerialStep, LayoutStep, InHandStep, HeldStep,
                AccountedStep, ScannedStep, PagesStep DEF IInv
  <2>2. CASE UNCHANGED vars
    <3>1. TypeOK'
      BY <2>2 DEF IInv, TypeOK, vars, Blocks
    <3>2. (Serial /\ Layout /\ Frontier)'
      BY <2>2 DEF IInv, Serial, Layout, Frontier, vars, Blocks, Behind
    <3>3. (InHand /\ Held /\ Accounted)'
      BY <2>2 DEF IInv, InHand, Held, Accounted, Pending, Fresh, vars, Blocks
    <3>4. (Scanned /\ PagesInHand)'
      BY <2>2 DEF IInv, Scanned, Unfit, PagesInHand, PagesExclusive, vars, Blocks
    <3>. QED BY <3>1, <3>2, <3>3, <3>4 DEF IInv
  <2>. QED BY <2>1, <2>2 DEF Next
<1>. QED BY <1>1, <1>2, PTL DEF Spec

(* Every variable keeps to its range: headers at addresses of the heap,    *)
(* sizes and requests natural numbers, a frontier that is an address.      *)
THEOREM HeapTypes ==
  ASSUME Preemptive = FALSE
  PROVE  Spec => []TypeOK
<1>1. IInv => TypeOK
  BY DEF IInv
<1>. QED BY <1>1, HeapInductive, PTL

(* No two blocks handed out by malloc overlap, for any request sizes.      *)
THEOREM BlocksApart ==
  ASSUME Preemptive = FALSE
  PROVE  Spec => []NoSharing
<1>1. IInv => NoSharing
  <2>. SUFFICES ASSUME IInv PROVE NoSharing
    OBVIOUS
  <2>. HeaderTypes /\ OwnTypes /\ Layout /\ Held
    BY TypeParts DEF IInv
  <2>1. ASSUME NEW q \in Client, NEW b \in owned[q]
        PROVE  /\ b.at \in Nat /\ b.bytes \in Nat /\ b.at \in Blocks
               /\ size[b.at] \in Nat /\ b.bytes <= size[b.at] /\ b.at # heap_begin
    BY DEF HeaderTypes, OwnTypes, Held
  <2>2. ASSUME NEW q \in Client, NEW b \in owned[q]
        PROVE  heap_begin < b.at /\ b.at + Header + b.bytes < heap_end
    BY <2>1, HeapAssumption DEF Layout
  <2>3. ASSUME NEW q \in Client, NEW b \in owned[q], NEW r \in Client, NEW d \in owned[r],
               <<q, b>> # <<r, d>>
        PROVE  Apart(b, d)
    <3>1. b.at # d.at
      BY <2>3 DEF Held
    <3>2. /\ b.at \in Nat /\ b.bytes \in Nat /\ b.at \in Blocks
          /\ size[b.at] \in Nat /\ b.bytes <= size[b.at]
      BY <2>1
    <3>3. /\ d.at \in Nat /\ d.bytes \in Nat /\ d.at \in Blocks
          /\ size[d.at] \in Nat /\ d.bytes <= size[d.at]
      BY <2>1
    <3>4. CASE b.at < d.at
      BY <3>2, <3>3, <3>4 DEF Layout, Behind, Apart
    <3>5. CASE d.at < b.at
      BY <3>2, <3>3, <3>5 DEF Layout, Behind, Apart
    <3>. QED BY <3>1, <3>2, <3>3, <3>4, <3>5
  <2>. QED BY <2>2, <2>3 DEF NoSharing
<1>. QED BY <1>1, HeapInductive, PTL

(* The headers form one chain from heap_begin to last_alloc.               *)
THEOREM HeadersChained ==
  ASSUME Preemptive = FALSE
  PROVE  Spec => []Chained
<1>1. IInv => Chained
  <2>. SUFFICES ASSUME IInv, \A q \in Client : pc[q] # "grow" PROVE Chained
    BY DEF Chained
  <2>. QED BY TypeParts DEF IInv, HeaderTypes, Layout, Frontier, Chained, Behind
<1>. QED BY <1>1, HeapInductive, PTL

(* Between calls a block is marked allocated exactly when it is held.      *)
THEOREM MarkedIsHeld ==
  ASSUME Preemptive = FALSE
  PROVE  Spec => []StatusIsOwned
<1>1. IInv => StatusIsOwned
  BY DEF IInv, StatusIsOwned, Layout, Held, Accounted, Fresh
<1>. QED BY <1>1, HeapInductive, PTL

(* A scan of malloc walks headers only, and what they say is true.         *)
THEOREM ScansAreSound ==
  ASSUME Preemptive = FALSE
  PROVE  Spec => []ChainSound
BY HeadersChained, MarkedIsHeld, PTL DEF ChainSound

(* No page of pmalloc is handed out twice.                                 *)
THEOREM PagesApart ==
  ASSUME Preemptive = FALSE
  PROVE  Spec => []PagesExclusive
<1>1. IInv => PagesExclusive
  BY DEF IInv, PagesInHand
<1>. QED BY <1>1, HeapInductive, PTL

(* The heap grows, and the kernel panics, only when no free block fits.    *)
THEOREM FirstFit ==
  ASSUME Preemptive = FALSE
  PROVE  Spec => GrowsWhenFull
<1>1. IInv => [\A q \in Client :
                   pc[q] = "nalloc" /\ (pc'[q] = "grow" \/ panicked')
                       => \A a \in Blocks : status[a] \/ size[a] < want[q]]_vars
  BY DEF IInv, Scanned, Unfit
<1>. QED BY <1>1, HeapInductive, PTL DEF GrowsWhenFull
=============================================================================
