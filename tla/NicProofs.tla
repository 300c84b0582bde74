------------------------------ MODULE NicProofs ------------------------------
(***************************************************************************)
(* What Nic promises for rings of any size, any heap and any number of     *)
(* frames and packets.                                                     *)
(***************************************************************************)
EXTENDS Nic, FiniteSetTheorems, SequenceTheorems, WellFoundedInduction, TLAPS

\* k places on from y, and how far x is ahead of y, in a ring of n places.
Plus(n, y, k)  == (y + k) % n
Ahead(n, x, y) == (x - y + n) % n

\* How many receive descriptors wait for the driver, whether it holds one
\* of them, and how far a descriptor is from the next one it reads.
Waiting    == Ahead(RX, RDH, rxRead)
Taken      == IF pc["irq"] \in {"idle", "poll"} THEN 0 ELSE 1
RxAhead(s) == Ahead(RX, s, rxRead)

\* How many packets wait for the card, and how far a descriptor is from the
\* one it sends next.
Pending    == Len(posted) - Len(wire)
TxAhead(s) == Ahead(TX, s, TDH)

Building   == Allocating \cup {"begin"} \cup Sending
Written    == {"store", "advance", "tail"}

\* A frame is in hand only while one waits.
InHand == Taken <= Waiting

\* A thread that builds a packet has a block for it.
HasBlock == \A t \in Thread : pc[t] \in Building => buf[t] \in Block

\* The task stops at Sends packets; the handler answers at most each frame.
Counted ==
    /\ Built("task") <= Sends /\ (pc["task"] # "idle" => Built("task") < Sends)
    /\ Built("irq") + (IF pc["irq"] \in Building \cup {"alloc", "print"} THEN 1 ELSE 0) <= Len(seen)

\* Receive: while no buffer had two owners, rxBufs is right although nobody
\* updates it, and the waiting frames are where the card put them.
RxSound ==
    /\ Exclusive
    /\ \A s \in RxSlot :
           /\ rxDesc[s].addr = rxBufs[s] /\ ref[rxBufs[s]] = 1
           /\ rxDesc[s].done => mem[rxBufs[s]] = <<"frame", accepted - Waiting + RxAhead(s)>>

\* The sections exclude each other while no call overlapped another.
Apart ==
    /\ pc["task"] \in Allocating => pc["irq"] \notin Building
    /\ pc["task"] \in Sending => pc["irq"] \notin Sending

\* The list holds what is free, once.
ListOwned ==
    /\ \A j, k \in DOMAIN free : free[j] = free[k] => j = k
    /\ \A k \in DOMAIN free : ref[free[k]] <= 0
    /\ \A t \in Thread :
           /\ pc[t] = "unlink" => free # <<>> /\ Head(free) = buf[t]
           /\ pc[t] = "fill" => \A k \in DOMAIN free : free[k] # buf[t]

\* The transmit ring holds Pending packets from TDH on, and up to one more
\* descriptor that is written but not yet given to the card.
TxRing ==
    /\ Pending \in 0 .. TX /\ TDT = Plus(TX, TDH, Pending)
    /\ busy => Pending >= 1
    /\ txWrite = IF \E t \in Thread : pc[t] = "tail" THEN Plus(TX, TDT, 1) ELSE TDT
    /\ \A t \in Thread :
           /\ pc[t] \in Sending => slot[t] = TDT
           /\ pc[t] \in Sending \ {"test"} => Pending < TX
    /\ \A s \in TxSlot :
           txDesc[s].done <=> TxAhead(s) >= Pending /\ \A t \in Thread : pc[t] \in Written => slot[t] # s

\* What the ring's descriptors point to is what was posted.
TxHeld ==
    /\ \A t \in Thread :
           /\ pc[t] \in {"begin"} \cup Sending => mem[buf[t]] = <<t, Built(t)>>
           /\ pc[t] \in Written => txDesc[slot[t]].addr = buf[t]
           /\ pc[t] \in {"advance", "tail"} => txBufs[slot[t]] = buf[t]
    /\ \A s \in TxSlot : TxAhead(s) < Pending =>
           /\ txDesc[s].addr \in Block /\ txBufs[s] = txDesc[s].addr
           /\ mem[txBufs[s]] = posted[Len(wire) + TxAhead(s) + 1]

IInv ==
    /\ TypeOK /\ RingsAgree /\ InHand /\ HasBlock /\ Counted
    /\ ~shared => RxSound
    /\ RxInOrder
    /\ ~raced => Apart /\ ListOwned /\ TxRing
    /\ ~raced /\ ~shared => TxHeld
    /\ TxInOrder
-----------------------------------------------------------------------------
(* Arithmetic of a ring.                                                   *)

(* How far x is ahead of y.                                                *)
LEMMA Gap ==
    ASSUME NEW n \in Nat \ {0}, NEW x \in 0 .. n - 1, NEW y \in 0 .. n - 1
    PROVE  (x - y + n) % n = IF x >= y THEN x - y ELSE x - y + n
<1>1. CASE x >= y
  <2>1. x - y \in 0 .. n - 1 /\ x - y + n = (x - y) + 1 * n
    BY <1>1
  <2> QED BY <1>1, <2>1
<1>2. CASE x < y
  BY <1>2
<1> QED BY <1>1, <1>2

(* The place after x.                                                      *)
LEMMA NextPlace ==
    ASSUME NEW n \in Nat \ {0}, NEW x \in 0 .. n - 1
    PROVE  (x + 1) % n = IF x = n - 1 THEN 0 ELSE x + 1
OBVIOUS

(* A place is as far ahead of y as it says, and no two are equally far.    *)
LEMMA Gaps ==
    ASSUME NEW n \in Nat \ {0}, NEW x \in 0 .. n - 1, NEW y \in 0 .. n - 1, NEW z \in 0 .. n - 1
    PROVE  /\ Ahead(n, x, y) \in 0 .. n - 1
           /\ Ahead(n, x, y) = 0 <=> x = y
           /\ Ahead(n, x, y) = Ahead(n, z, y) => x = z
BY Gap DEF Ahead

(* Moving one on at either end.                                            *)
LEMMA GapMoves ==
    ASSUME NEW n \in Nat \ {0}, NEW x \in 0 .. n - 1, NEW y \in 0 .. n - 1
    PROVE  /\ Plus(n, x, 1) \in 0 .. n - 1
           /\ Ahead(n, x, Plus(n, y, 1)) = IF x = y THEN n - 1 ELSE Ahead(n, x, y) - 1
           /\ Ahead(n, Plus(n, x, 1), y) = IF Plus(n, x, 1) = y THEN 0 ELSE Ahead(n, x, y) + 1
           /\ Ahead(n, x, y) = n - 1 <=> Plus(n, x, 1) = y
<1> DEFINE a == Plus(n, x, 1)
           b == Plus(n, y, 1)
<1>1. a \in 0 .. n - 1 /\ b \in 0 .. n - 1
  BY NextPlace DEF Plus
<1>2. Ahead(n, x, b) = IF x >= b THEN x - b ELSE x - b + n
  BY <1>1, Gap DEF Ahead
<1>3. Ahead(n, a, y) = IF a >= y THEN a - y ELSE a - y + n
  BY <1>1, Gap DEF Ahead
<1>4. a = IF x = n - 1 THEN 0 ELSE x + 1
  BY NextPlace DEF Plus
<1>5. b = IF y = n - 1 THEN 0 ELSE y + 1
  BY NextPlace DEF Plus
<1>6. Ahead(n, x, y) = IF x >= y THEN x - y ELSE x - y + n
  BY Gap DEF Ahead
<1> HIDE DEF a, b
<1>7. Ahead(n, x, b) = IF x = y THEN n - 1 ELSE Ahead(n, x, y) - 1
  BY <1>2, <1>5, <1>6
<1>8. Ahead(n, a, y) = IF a = y THEN 0 ELSE Ahead(n, x, y) + 1
  BY <1>3, <1>4, <1>6
<1>9. Ahead(n, x, y) = n - 1 <=> a = y
  BY <1>4, <1>6
<1> QED BY <1>1, <1>7, <1>8, <1>9 DEF a, b

(* k places on from y, the ring is k ahead of y.                           *)
LEMMA Walks ==
    ASSUME NEW n \in Nat \ {0}, NEW y \in 0 .. n - 1, NEW k \in 0 .. n
    PROVE  /\ Plus(n, y, k) \in 0 .. n - 1
           /\ k < n => Ahead(n, Plus(n, y, k), y) = k
           /\ k < n => Plus(n, y, k + 1) = Plus(n, Plus(n, y, k), 1)
           /\ k > 0 => Plus(n, Plus(n, y, 1), k - 1) = Plus(n, y, k)
<1>1. \A z \in 0 .. n - 1, j \in 0 .. n : Plus(n, z, j) = IF z + j < n THEN z + j ELSE z + j - n
  <2> SUFFICES ASSUME NEW z \in 0 .. n - 1, NEW j \in 0 .. n
               PROVE  (z + j) % n = IF z + j < n THEN z + j ELSE z + j - n
    BY DEF Plus
  <2>1. CASE z + j < n
    BY <2>1
  <2>2. CASE z + j >= n
    <3>1. z + j - n \in 0 .. n - 1
      BY <2>2
    <3> QED BY <2>2, <3>1
  <2> QED BY <2>1, <2>2
<1>2. Plus(n, y, k) \in 0 .. n - 1 /\ Plus(n, y, 1) \in 0 .. n - 1
  BY <1>1
<1>3. ASSUME k < n PROVE Ahead(n, Plus(n, y, k), y) = k
  <2> DEFINE z == Plus(n, y, k)
  <2>1. Ahead(n, z, y) = IF z >= y THEN z - y ELSE z - y + n
    BY <1>2, Gap DEF Ahead
  <2>2. z = IF y + k < n THEN y + k ELSE y + k - n
    BY <1>1
  <2> HIDE DEF z
  <2>3. Ahead(n, z, y) = k
    BY <1>3, <2>1, <2>2
  <2> QED BY <2>3 DEF z
<1>4. ASSUME k < n PROVE Plus(n, y, k + 1) = Plus(n, Plus(n, y, k), 1)
  <2> DEFINE z == Plus(n, y, k)
  <2>1. z \in 0 .. n - 1 /\ z = IF y + k < n THEN y + k ELSE y + k - n
    BY <1>1, <1>2
  <2>2. k + 1 \in 0 .. n /\ 1 \in 0 .. n
    BY <1>4
  <2> HIDE DEF z
  <2>3. Plus(n, z, 1) = IF z + 1 < n THEN z + 1 ELSE z + 1 - n
    BY <1>1, <2>1, <2>2
  <2>4. Plus(n, y, k + 1) = IF y + (k + 1) < n THEN y + (k + 1) ELSE y + (k + 1) - n
    BY <1>1, <2>2
  <2>5. Plus(n, y, k + 1) = Plus(n, z, 1)
    BY <1>4, <2>1, <2>3, <2>4
  <2> QED BY <2>5 DEF z
<1>5. ASSUME k > 0 PROVE Plus(n, Plus(n, y, 1), k - 1) = Plus(n, y, k)
  BY <1>1, <1>2, <1>5
<1> QED BY <1>2, <1>3, <1>4, <1>5

-----------------------------------------------------------------------------
(* The model's operators.                                                  *)

(* Every set of numbers that is not empty has a least one.                 *)
LEMMA Least ==
    ASSUME NEW T \in SUBSET Nat, T # {}
    PROVE  \E m \in T : \A k \in T : m <= k
<1> DEFINE F == {0 .. m : m \in T}
           R == StrictSubsetOrdering(Nat)
           S == FiniteSubsetsOf(Nat)
<1>1. F \subseteq S /\ F # {}
  <2>1. \A m \in T : IsFiniteSet(0 .. m) /\ 0 .. m \in SUBSET Nat
    BY FS_Interval
  <2> QED BY <2>1 DEF FiniteSubsetsOf
<1>2. IsWellFoundedOn(R, S)
  BY FS_StrictSubsetOrderingWellFounded
<1>3. PICK x \in F : \A y \in F : ~ (<<y, x>> \in R)
  <2> HIDE DEF F, R, S
  <2> QED BY <1>1, <1>2, WFMin
<1>4. PICK m \in T : x = 0 .. m
  OBVIOUS
<1>5. ASSUME NEW k \in T, k < m PROVE FALSE
  <2>1. 0 .. k \in F /\ 0 .. k \subseteq 0 .. m /\ 0 .. k \in SUBSET Nat /\ 0 .. m \in SUBSET Nat
    BY <1>5
  <2>2. m \in 0 .. m /\ m \notin 0 .. k
    BY <1>5
  <2>3. <<0 .. k, 0 .. m>> \in R
    BY <2>1, <2>2 DEF StrictSubsetOrdering
  <2> QED BY <1>3, <1>4, <2>1, <2>3
<1> QED BY <1>5

(* malloc's first fit is a block marked free, when there is one.           *)
LEMMA FirstFits ==
    ASSUME \E b \in Block : ~status[b]
    PROVE  FirstFree \in Block /\ ~status[FirstFree]
<1> DEFINE S == {b \in Block : ~status[b]}
<1>1. S \in SUBSET Nat /\ S # {}
  BY BlockAssumption DEF Block
<1>2. PICK m \in S : \A k \in S : m <= k
  BY <1>1, Least
<1>3. Min(S) \in S
  <2> HIDE DEF S
  <2> QED BY <1>2 DEF Min
<1> QED BY <1>3 DEF FirstFree

(* Packets built are counted when they are posted.                         *)
LEMMA BuiltSoFar ==
    ASSUME posted \in Seq(Content), NEW t \in Thread
    PROVE  Built(t) \in Nat
<1> DEFINE S == {k \in DOMAIN posted : posted[k][1] = t}
<1>1. DOMAIN posted = 1 .. Len(posted) /\ Len(posted) \in Nat
  OBVIOUS
<1>2. IsFiniteSet(S)
  BY <1>1, FS_Interval, FS_Subset
<1> QED BY <1>2, FS_CardinalityType DEF Built

(* Posting a packet counts it for the thread that built it only.           *)
LEMMA BuiltPosted ==
    ASSUME posted \in Seq(Content), NEW u \in Thread, NEW n,
           <<u, n>> \in Content, posted' = Append(posted, <<u, n>>)
    PROVE  /\ Built(u)' = Built(u) + 1
           /\ \A t \in Thread \ {u} : Built(t)' = Built(t)
<1> DEFINE S(t) == {k \in DOMAIN posted : posted[k][1] = t}
<1>1. /\ DOMAIN posted = 1 .. Len(posted) /\ Len(posted) \in Nat
      /\ DOMAIN posted' = 1 .. Len(posted) + 1
      /\ \A k \in 1 .. Len(posted) : posted'[k] = posted[k]
      /\ posted'[Len(posted) + 1] = <<u, n>>
  OBVIOUS
<1>2. {k \in DOMAIN posted' : posted'[k][1] = u} = S(u) \cup {Len(posted) + 1}
  BY <1>1
<1>3. \A t \in Thread \ {u} : {k \in DOMAIN posted' : posted'[k][1] = t} = S(t)
  BY <1>1
<1>4. IsFiniteSet(S(u)) /\ Len(posted) + 1 \notin S(u)
  <2>1. S(u) \in SUBSET (1 .. Len(posted)) /\ IsFiniteSet(1 .. Len(posted))
    BY <1>1, FS_Interval
  <2>2. Len(posted) + 1 \notin 1 .. Len(posted)
    BY <1>1
  <2> HIDE DEF S
  <2> QED BY <2>1, <2>2, FS_Subset
<1>5. Cardinality(S(u) \cup {Len(posted) + 1}) = Cardinality(S(u)) + 1
  BY <1>4, FS_AddElement
<1> QED BY <1>2, <1>3, <1>5 DEF Built

\* Whoever owns a block owns it alone.
Alone == \A b \in Block : \A x, y \in Owners(b) : x = y

(* A block with at most one owner has only one.                            *)
LEMMA OneOwner == Exclusive => Alone
<1> SUFFICES ASSUME Exclusive, NEW b \in Block, NEW x \in Owners(b), NEW y \in Owners(b)
             PROVE  x = y
  BY DEF Alone
<1> DEFINE Who == {"rx", "tx", "list", "task", "irq"}
           Where == 0 .. RX + TX
<1>1. IsFiniteSet(Who \X Where)
  <2>1. IsFiniteSet({"rx"}) /\ IsFiniteSet({"tx"}) /\ IsFiniteSet({"list"})
        /\ IsFiniteSet({"task"}) /\ IsFiniteSet({"irq"})
    BY FS_Singleton
  <2>2. IsFiniteSet({"rx"} \cup {"tx"} \cup {"list"} \cup {"task"} \cup {"irq"})
    BY <2>1, FS_Union
  <2>3. Who = {"rx"} \cup {"tx"} \cup {"list"} \cup {"task"} \cup {"irq"}
    OBVIOUS
  <2>4. IsFiniteSet(Who)
    BY <2>2, <2>3
  <2>5. IsFiniteSet(Where)
    BY FS_Interval, RingAssumption
  <2> HIDE DEF Who, Where
  <2> QED BY <2>4, <2>5, FS_Product
<1>2. Owners(b) \subseteq Who \X Where
  <2>1. RxSlot \subseteq Where /\ TxSlot \subseteq Where /\ 0 \in Where
    BY RingAssumption DEF RxSlot, TxSlot
  <2> HIDE DEF Where
  <2> QED BY <2>1 DEF Owners, Thread
<1>3. IsFiniteSet(Owners(b)) /\ Cardinality(Owners(b)) <= 1
  BY <1>1, <1>2, FS_Subset DEF Exclusive
<1>4. Cardinality(Owners(b)) \in Nat
  BY <1>3, FS_CardinalityType
<1>5. Cardinality(Owners(b)) # 0
  BY <1>3, FS_EmptySet
<1>6. PICK z : Owners(b) = {z}
  BY <1>3, <1>4, <1>5, FS_Singleton
<1> QED BY <1>6

-----------------------------------------------------------------------------
(* Types.                                                                  *)

HeapTypes ==
    /\ status \in [Block -> BOOLEAN] /\ ref \in [Block -> Int]
    /\ free \in Seq(Block) /\ mem \in [Block -> Content]

RxTypes ==
    /\ rxDesc \in [RxSlot -> [addr : Block, done : BOOLEAN, errors : BOOLEAN]]
    /\ rxBufs \in [RxSlot -> Block]
    /\ rxRead \in RxSlot /\ RDH \in RxSlot /\ RDT \in RxSlot
    /\ cause \in BOOLEAN /\ accepted \in 0 .. Frames /\ seen \in Seq(Content)

TxTypes ==
    /\ txDesc \in [TxSlot -> [addr : Block \cup {None}, done : BOOLEAN]]
    /\ txBufs \in [TxSlot -> Block \cup {None}]
    /\ txWrite \in TxSlot /\ TDH \in TxSlot /\ TDT \in TxSlot
    /\ busy \in BOOLEAN /\ posted \in Seq(Content) /\ wire \in Seq(Content)

ThreadTypes ==
    /\ pc \in [Thread -> Labels]
    /\ buf \in [Thread -> Block \cup {None}] /\ old \in [Thread -> Block \cup {None}]
    /\ slot \in [Thread -> TxSlot]
    /\ raced \in BOOLEAN /\ shared \in BOOLEAN

(* The types by what holds the variables.                                  *)
LEMMA TypeParts == TypeOK <=> HeapTypes /\ RxTypes /\ TxTypes /\ ThreadTypes
BY DEF TypeOK, HeapTypes, RxTypes, TxTypes, ThreadTypes

\* One step of a thread or of the card, whatever Recorded adds to it.
Act == Task \/ Handler \/ Card \/ \E bad \in BOOLEAN : CardReceive(bad)

(* The places of the rings.                                                *)
LEMMA Places ==
    /\ RX \in Nat \ {0} /\ TX \in Nat \ {0} /\ RxSlot = 0 .. RX - 1 /\ TxSlot = 0 .. TX - 1
    /\ Blocks \in Nat /\ Block = 1 .. Blocks /\ None \notin Block
    /\ "task" \in Thread /\ "irq" \in Thread
    /\ \A s \in RxSlot : (s + 1) % RX \in RxSlot
    /\ \A s \in TxSlot : (s + 1) % TX \in TxSlot
<1>1. /\ \A s \in RxSlot : (s + 1) % RX \in RxSlot
      /\ \A s \in TxSlot : (s + 1) % TX \in TxSlot
  BY RingAssumption, NextPlace DEF RxSlot, TxSlot
<1> QED BY <1>1, RingAssumption, BlockAssumption DEF RxSlot, TxSlot, Block, None, Thread

(* What a packet or a frame may hold is a content.                         *)
LEMMA Contents ==
    ASSUME TypeOK, RingsAgree, InHand, Counted
    PROVE  /\ <<>> \in Content
           /\ accepted < Frames => <<"frame", accepted>> \in Content
           /\ \A t \in Thread : pc[t] \in Building => <<t, Built(t)>> \in Content
           /\ Len(seen) <= accepted
<1> RxTypes /\ TxTypes
  BY TypeParts
<1>0. Sends \in Nat /\ Frames \in Nat /\ accepted \in 0 .. Frames /\ Len(seen) \in Nat
  BY BoundAssumption DEF RxTypes
<1>1. Len(seen) <= accepted
  <2>1. Waiting = accepted - Len(seen) + Taken
    BY DEF RingsAgree, Waiting, Ahead, Taken
  <2>2. Taken \in Nat
    BY DEF Taken
  <2>3. Waiting \in Nat
    <3>1. RX \in Nat \ {0} /\ RDH \in 0 .. RX - 1 /\ rxRead \in 0 .. RX - 1
      BY Places DEF RxTypes
    <3> QED BY <3>1, Gaps DEF Waiting
  <2> QED BY <1>0, <2>1, <2>2, <2>3 DEF InHand
<1>2. \A t \in Thread : Built(t) \in Nat
  BY BuiltSoFar DEF TxTypes
<1>3. pc["task"] \in Building => Built("task") \in 0 .. Sends + Frames
  <2>1. Built("task") <= Sends
    BY DEF Counted
  <2> QED BY <1>0, <1>2, <2>1 DEF Thread
<1>4. pc["irq"] \in Building => Built("irq") \in 0 .. Sends + Frames
  <2>1. Built("irq") <= Len(seen) \/ Built("irq") + 1 <= Len(seen)
    BY <1>0, <1>2 DEF Counted, Thread
  <2> QED BY <1>0, <1>1, <1>2, <2>1 DEF Thread
<1> QED BY <1>0, <1>1, <1>3, <1>4 DEF Content, Thread

\* The types a step has to keep, shared apart.
StepTypes == HeapTypes /\ RxTypes /\ TxTypes
             /\ pc \in [Thread -> Labels]
             /\ buf \in [Thread -> Block \cup {None}] /\ old \in [Thread -> Block \cup {None}]
             /\ slot \in [Thread -> TxSlot] /\ raced \in BOOLEAN

(* Releasing a buffer keeps the heap's types.                              *)
LEMMA ReleaseTypes ==
    ASSUME HeapTypes, NEW b \in Block, net_release_buf(b)
    PROVE  /\ ref' \in [Block -> Int] /\ free' \in Seq(Block)
           /\ status' \in [Block -> BOOLEAN]
<1>1. ref' \in [Block -> Int]
  BY DEF net_release_buf, HeapTypes
<1>2. free' \in Seq(Block)
  BY DEF net_release_buf, HeapTypes
<1>3. status' \in [Block -> BOOLEAN]
  BY DEF net_release_buf, HeapTypes
<1> QED BY <1>1, <1>2, <1>3

(* Taking an element out of the list leaves a list.                        *)
LEMMA RemoveTypes ==
    ASSUME NEW f \in Seq(Block), NEW k \in DOMAIN f
    PROVE  /\ RemoveAt(f, k) \in Seq(Block) /\ Len(RemoveAt(f, k)) = Len(f) - 1
           /\ \A j \in 1 .. Len(f) - 1 : RemoveAt(f, k)[j] = f[IF j < k THEN j ELSE j + 1]
<1>1. k \in 1 .. Len(f) /\ Len(f) \in Nat
  OBVIOUS
<1> DEFINE a == SubSeq(f, 1, k - 1)
           b == SubSeq(f, k + 1, Len(f))
<1>2. a \in Seq(Block) /\ Len(a) = k - 1 /\ \A j \in 1 .. k - 1 : a[j] = f[j]
  BY <1>1
<1>3. b \in Seq(Block) /\ Len(b) = Len(f) - k /\ \A j \in 1 .. Len(f) - k : b[j] = f[k + j]
  BY <1>1
<1>4. RemoveAt(f, k) = a \o b
  BY DEF RemoveAt
<1> HIDE DEF a, b
<1>5. a \o b \in Seq(Block) /\ Len(a \o b) = Len(f) - 1
  BY <1>1, <1>2, <1>3
<1>6. \A j \in 1 .. Len(f) - 1 : (a \o b)[j] = f[IF j < k THEN j ELSE j + 1]
  <2> SUFFICES ASSUME NEW j \in 1 .. Len(f) - 1
               PROVE  (a \o b)[j] = f[IF j < k THEN j ELSE j + 1]
    OBVIOUS
  <2>1. CASE j < k
    BY <1>1, <1>2, <1>3, <2>1
  <2>2. CASE j >= k
    <3>1. j - (k - 1) \in 1 .. Len(f) - k
      BY <1>1, <2>2
    <3>2. (a \o b)[j] = b[j - (k - 1)]
      BY <1>1, <1>2, <1>3, <2>2
    <3>3. k + (j - (k - 1)) = j + 1
      BY <1>1
    <3> QED BY <1>3, <2>2, <3>1, <3>2, <3>3
  <2>3. j < k \/ j >= k
    BY <1>1
  <2> QED BY <2>1, <2>2, <2>3
<1> QED BY <1>4, <1>5, <1>6

(* A step of a thread through net_alloc_buf and eth_intel_send keeps the   *)
(* types.                                                                  *)
LEMMA ThreadTypeStep ==
    ASSUME TypeOK, RingsAgree, InHand, Counted, HasBlock, NEW t \in Thread, Step(t)
    PROVE  StepTypes'
<1> HeapTypes /\ RxTypes /\ TxTypes /\ ThreadTypes
  BY TypeParts
<1> USE DEF At, Goto, StepTypes, Allocating, Sending, Labels
<1>1. CASE AllocFresh(t)
  <2>1. FirstFree \in Block
    BY <1>1, FirstFits DEF AllocFresh
  <2>2. raced' \in BOOLEAN
    BY <1>1 DEF AllocFresh, Enters, ThreadTypes
  <2>3. HeapTypes'
    BY <1>1, <2>1 DEF AllocFresh, HeapTypes
  <2> QED BY <1>1, <2>1, <2>2, <2>3 DEF AllocFresh, RxTypes, TxTypes, ThreadTypes, rx, tx
<1>2. CASE AllocListed(t)
  <2>1. Head(free) \in Block
    BY <1>2 DEF AllocListed, HeapTypes
  <2>2. raced' \in BOOLEAN
    BY <1>2 DEF AllocListed, Enters, ThreadTypes
  <2> QED BY <1>2, <2>1, <2>2 DEF AllocListed, HeapTypes, RxTypes, TxTypes, ThreadTypes, heap, rx, tx
<1>3. CASE Unlink(t)
  <2>1. free' \in Seq(Block)
    BY <1>3, RemoveTypes DEF Unlink, HeapTypes
  <2> QED BY <1>3, <2>1 DEF Unlink, HeapTypes, RxTypes, TxTypes, ThreadTypes, rx, tx, local
<1>4. CASE Fill(t)
  <2>1. <<t, Built(t)>> \in Content /\ buf[t] \in Block
    BY <1>4, Contents DEF Fill, Building, HasBlock
  <2>2. HeapTypes'
    BY <1>4, <2>1 DEF Fill, HeapTypes
  <2> QED BY <1>4, <2>2 DEF Fill, RxTypes, TxTypes, ThreadTypes, rx, tx, local
<1>5. CASE Begin(t)
  <2>1. raced' \in BOOLEAN
    BY <1>5 DEF Begin, Enters, ThreadTypes
  <2> QED BY <1>5, <2>1 DEF Begin, HeapTypes, RxTypes, TxTypes, ThreadTypes, heap, rx, tx
<1>6. CASE Wait(t)
  BY <1>6 DEF Wait, HeapTypes, RxTypes, TxTypes, ThreadTypes, heap, rx, tx, local
<1>7. CASE FreeSent(t)
  <2>1. HeapTypes'
    <3>1. CASE old[t] = None
      BY <1>7, <3>1 DEF FreeSent, HeapTypes
    <3>2. CASE old[t] # None
      <4>1. old[t] \in Block /\ net_release_buf(old[t]) /\ mem' = mem
        BY <1>7, <3>2 DEF FreeSent, ThreadTypes
      <4> QED BY <4>1, ReleaseTypes DEF HeapTypes
    <3> QED BY <3>1, <3>2
  <2> QED BY <1>7, <2>1 DEF FreeSent, RxTypes, TxTypes, ThreadTypes, rx, tx, local
<1>8. CASE Write(t)
  <2>1. buf[t] \in Block
    BY <1>8 DEF Write, HasBlock, Building
  <2>2. txDesc' \in [TxSlot -> [addr : Block \cup {None}, done : BOOLEAN]]
    BY <1>8, <2>1 DEF Write, TxTypes
  <2> QED BY <1>8, <2>2 DEF Write, HeapTypes, RxTypes, TxTypes, ThreadTypes, heap, rx, local
<1>9. CASE Store(t)
  BY <1>9 DEF Store, HeapTypes, RxTypes, TxTypes, ThreadTypes, heap, rx, local
<1>10. CASE AdvanceTx(t)
  <2>1. txWrite' \in TxSlot
    BY <1>10, Places DEF AdvanceTx, TxTypes
  <2> QED BY <1>10, <2>1 DEF AdvanceTx, HeapTypes, RxTypes, TxTypes, ThreadTypes, heap, rx, local
<1>11. CASE WriteTail(t)
  <2>1. <<t, Built(t)>> \in Content
    BY <1>11, Contents DEF WriteTail, Building
  <2>2. posted' \in Seq(Content)
    BY <1>11, <2>1 DEF WriteTail, TxTypes
  <2>3. pc' \in [Thread -> Labels]
    BY <1>11 DEF WriteTail, ThreadTypes
  <2> QED BY <1>11, <2>2, <2>3 DEF WriteTail, HeapTypes, RxTypes, TxTypes, ThreadTypes, heap, rx, local
<1> QED BY <1>1, <1>2, <1>3, <1>4, <1>5, <1>6, <1>7, <1>8, <1>9, <1>10, <1>11 DEF Step

(* What the driver does to the heap between two frames: it releases the    *)
(* buffer it read from and takes one for the descriptor.                   *)
LEMMA SwapTakes ==
    ASSUME HeapTypes, RxTypes, Swap
    PROVE  LET b    == rxBufs[rxRead]
               list == IF Releases(b) THEN <<b>> \o free ELSE free
           IN  \E new \in Block :
                   /\ b \in Block /\ list \in Seq(Block)
                   /\ list # <<>> => new = Head(list)
                   /\ list = <<>> => ~status[new]
                   /\ free' = IF list # <<>> THEN Tail(list) ELSE free
                   /\ status' = IF list = <<>> THEN [status EXCEPT ![new] = TRUE]
                                ELSE IF Releases(b) THEN [status EXCEPT ![b] = FALSE] ELSE status
                   /\ ref' = [[ref EXCEPT ![b] = @ - 1] EXCEPT ![new] = 1]
                   /\ PassOn([rxDesc[rxRead] EXCEPT !.addr = new])
<1> DEFINE b    == rxBufs[rxRead]
           list == IF Releases(b) THEN <<b>> \o free ELSE free
           new  == IF list # <<>> THEN Head(list) ELSE FirstFree
<1>1. b \in Block
  BY DEF RxTypes
<1>2. list \in Seq(Block)
  BY <1>1 DEF HeapTypes
<1>3. /\ list # <<>> \/ \E k \in Block : ~status[k]
      /\ free' = IF list # <<>> THEN Tail(list) ELSE free
      /\ status' = IF list = <<>> THEN [status EXCEPT ![new] = TRUE]
                   ELSE IF Releases(b) THEN [status EXCEPT ![b] = FALSE] ELSE status
      /\ ref' = [[ref EXCEPT ![b] = @ - 1] EXCEPT ![new] = 1]
      /\ PassOn([rxDesc[rxRead] EXCEPT !.addr = new])
  BY DEF Swap
<1> HIDE DEF b, list
<1>4. new \in Block /\ (list # <<>> => new = Head(list)) /\ (list = <<>> => ~status[new])
  BY <1>2, <1>3, FirstFits
<1> HIDE DEF new
<1>5. \E n \in Block :
          /\ b \in Block /\ list \in Seq(Block)
          /\ list # <<>> => n = Head(list)
          /\ list = <<>> => ~status[n]
          /\ free' = IF list # <<>> THEN Tail(list) ELSE free
          /\ status' = IF list = <<>> THEN [status EXCEPT ![n] = TRUE]
                       ELSE IF Releases(b) THEN [status EXCEPT ![b] = FALSE] ELSE status
          /\ ref' = [[ref EXCEPT ![b] = @ - 1] EXCEPT ![n] = 1]
          /\ PassOn([rxDesc[rxRead] EXCEPT !.addr = n])
  BY <1>1, <1>2, <1>3, <1>4
<1> QED BY <1>5 DEF b, list

(* The descriptor handed back has the types of the ring.                   *)
LEMMA PassOnTypes ==
    ASSUME RxTypes, PassOn(rxDesc[rxRead]) \/ \E b \in Block : PassOn([rxDesc[rxRead] EXCEPT !.addr = b])
    PROVE  /\ rxDesc' \in [RxSlot -> [addr : Block, done : BOOLEAN, errors : BOOLEAN]]
           /\ RDT' \in RxSlot /\ rxRead' \in RxSlot
<1> DEFINE D == [addr : Block, done : BOOLEAN, errors : BOOLEAN]
<1>1. PICK d \in D : PassOn(d)
  <2>1. rxDesc[rxRead] \in D
    BY DEF RxTypes
  <2>2. \A b \in Block : [rxDesc[rxRead] EXCEPT !.addr = b] \in D
    BY <2>1
  <2> HIDE DEF D
  <2> QED BY <2>1, <2>2
<1>2. [d EXCEPT !.done = FALSE] \in D
  OBVIOUS
<1>3. rxDesc \in [RxSlot -> D] /\ rxRead \in RxSlot
  BY DEF RxTypes
<1>4. rxDesc' = [rxDesc EXCEPT ![rxRead] = [d EXCEPT !.done = FALSE]]
      /\ RDT' = rxRead /\ rxRead' = (rxRead + 1) % RX
  BY <1>1 DEF PassOn
<1>5. rxDesc' \in [RxSlot -> D]
  <2> HIDE DEF D
  <2> QED BY <1>2, <1>3, <1>4
<1> QED BY <1>3, <1>4, <1>5, Places

(* The rest of eth_intel_irq keeps the types.                              *)
LEMMA HandlerTypeStep ==
    ASSUME TypeOK, RingsAgree, InHand, Counted, HasBlock, Handler, ~Step("irq")
    PROVE  StepTypes'
<1> HeapTypes /\ RxTypes /\ TxTypes /\ ThreadTypes /\ "irq" \in Thread
  BY TypeParts, Places
<1> USE DEF At, Goto, StepTypes, Allocating, Sending, Labels
<1>1. CASE Interrupt
  BY <1>1 DEF Interrupt, HeapTypes, RxTypes, TxTypes, ThreadTypes, heap, tx, local
<1>2. CASE PollEnd
  BY <1>2 DEF PollEnd, HeapTypes, RxTypes, TxTypes, ThreadTypes, heap, rx, tx, local
<1>3. CASE PollBad
  <2>1. seen' \in Seq(Content)
    BY <1>3, Contents DEF PollBad, RxTypes
  <2> QED BY <1>3, <2>1 DEF PollBad, HeapTypes, RxTypes, TxTypes, ThreadTypes, heap, tx, local
<1>4. ASSUME NEW l \in Labels, PollFrame(l) PROVE StepTypes'
  <2>1. mem[rxBufs[rxRead]] \in Content
    BY DEF HeapTypes, RxTypes
  <2>2. seen' \in Seq(Content)
    BY <1>4, <2>1 DEF PollFrame, RxTypes
  <2> QED BY <1>4, <2>2 DEF PollFrame, HeapTypes, RxTypes, TxTypes, ThreadTypes, heap, tx, local
<1>5. CASE Printed
  BY <1>5 DEF Printed, HeapTypes, RxTypes, TxTypes, ThreadTypes, heap, rx, tx, local
<1>6. CASE Skip
  <2>1. RxTypes'
    BY <1>6, PassOnTypes DEF Skip, RxTypes
  <2> QED BY <1>6, <2>1 DEF Skip, HeapTypes, TxTypes, ThreadTypes, heap, tx, local
<1>7. CASE Swap
  <2> DEFINE b    == rxBufs[rxRead]
             list == IF Releases(b) THEN <<b>> \o free ELSE free
  <2>3. PICK new \in Block :
            /\ b \in Block /\ list \in Seq(Block)
            /\ free' = IF list # <<>> THEN Tail(list) ELSE free
            /\ status' = IF list = <<>> THEN [status EXCEPT ![new] = TRUE]
                         ELSE IF Releases(b) THEN [status EXCEPT ![b] = FALSE] ELSE status
            /\ ref' = [[ref EXCEPT ![b] = @ - 1] EXCEPT ![new] = 1]
            /\ PassOn([rxDesc[rxRead] EXCEPT !.addr = new])
    BY <1>7, SwapTakes
  <2> HIDE DEF b, list
  <2>5. free' \in Seq(Block)
    BY <2>3 DEF HeapTypes
  <2>6. status' \in [Block -> BOOLEAN]
    BY <2>3 DEF HeapTypes
  <2>7. ref' \in [Block -> Int]
    BY <2>3 DEF HeapTypes
  <2>8. RxTypes'
    BY <1>7, <2>3, PassOnTypes DEF Swap, RxTypes
  <2>9. raced' \in BOOLEAN
    BY <1>7 DEF Swap, Enters, ThreadTypes
  <2>10. HeapTypes'
    BY <1>7, <2>5, <2>6, <2>7 DEF Swap, HeapTypes
  <2> QED BY <1>7, <2>8, <2>9, <2>10 DEF Swap, TxTypes, ThreadTypes, tx, local
<1> QED BY <1>1, <1>2, <1>3, <1>4, <1>5, <1>6, <1>7 DEF Handler

(* The card keeps the types.                                               *)
LEMMA CardTypeStep ==
    ASSUME TypeOK, RingsAgree, InHand, Counted, HasBlock,
           Send \/ Card \/ \E bad \in BOOLEAN : CardReceive(bad)
    PROVE  StepTypes'
<1> HeapTypes /\ RxTypes /\ TxTypes /\ ThreadTypes /\ "task" \in Thread
  BY TypeParts, Places
<1> USE DEF StepTypes
<1>1. CASE Send
  BY <1>1 DEF Send, At, Goto, Labels, HeapTypes, RxTypes, TxTypes, ThreadTypes, heap, rx, tx, local
<1>2. CASE CardFetch
  BY <1>2 DEF CardFetch, HeapTypes, RxTypes, TxTypes, ThreadTypes, heap, rx, local
<1>3. CASE CardSent
  <2>1. Packet(txDesc[TDH]) \in Content
    BY Contents DEF Packet, TxTypes, HeapTypes
  <2>2. wire' \in Seq(Content)
    BY <1>3, <2>1 DEF CardSent, TxTypes
  <2>3. txDesc' \in [TxSlot -> [addr : Block \cup {None}, done : BOOLEAN]]
    <3> DEFINE D == [addr : Block \cup {None}, done : BOOLEAN]
               e == [txDesc[TDH] EXCEPT !.done = TRUE]
    <3>1. txDesc \in [TxSlot -> D] /\ TDH \in TxSlot
      BY DEF TxTypes
    <3>2. e \in D
      BY <3>1
    <3>3. txDesc' = [txDesc EXCEPT ![TDH] = e]
      BY <1>3 DEF CardSent
    <3> HIDE DEF D, e
    <3>4. txDesc' \in [TxSlot -> D]
      BY <3>1, <3>2, <3>3
    <3> QED BY <3>4 DEF D
  <2>4. TDH' \in TxSlot
    BY <1>3, Places DEF CardSent, TxTypes
  <2> QED BY <1>3, <2>2, <2>3, <2>4 DEF CardSent, HeapTypes, RxTypes, TxTypes, ThreadTypes, heap, rx, local
<1>4. ASSUME NEW bad \in BOOLEAN, CardReceive(bad) PROVE StepTypes'
  <2>1. accepted' \in 0 .. Frames
    <3>1. accepted' = accepted + 1 /\ accepted < Frames
      BY <1>4 DEF CardReceive
    <3>2. accepted \in 0 .. Frames
      BY DEF RxTypes
    <3> QED BY <3>1, <3>2, BoundAssumption
  <2>2. <<"frame", accepted>> \in Content
    BY <1>4, Contents DEF CardReceive
  <2>3. mem' \in [Block -> Content]
    BY <1>4, <2>2 DEF CardReceive, HeapTypes
  <2>4. rxDesc' \in [RxSlot -> [addr : Block, done : BOOLEAN, errors : BOOLEAN]]
    <3> DEFINE D == [addr : Block, done : BOOLEAN, errors : BOOLEAN]
               e == [rxDesc[RDH] EXCEPT !.done = TRUE, !.errors = bad]
    <3>1. rxDesc \in [RxSlot -> D] /\ RDH \in RxSlot
      BY DEF RxTypes
    <3>2. e \in D
      BY <1>4, <3>1
    <3>3. rxDesc' = [rxDesc EXCEPT ![RDH] = e]
      BY <1>4, <3>1 DEF CardReceive
    <3> HIDE DEF D, e
    <3>4. rxDesc' \in [RxSlot -> D]
      BY <3>1, <3>2, <3>3
    <3> QED BY <3>4 DEF D
  <2>5. RDH' \in RxSlot
    BY <1>4, Places DEF CardReceive, RxTypes
  <2> QED BY <1>4, <2>1, <2>3, <2>4, <2>5 DEF CardReceive, HeapTypes, RxTypes, TxTypes, ThreadTypes, tx, local
<1> QED BY <1>1, <1>2, <1>3, <1>4 DEF Card

(* Every step keeps the types.                                             *)
LEMMA TypeStep ==
    ASSUME TypeOK, RingsAgree, InHand, Counted, HasBlock, Recorded(Act)
    PROVE  TypeOK'
<1>1. Act /\ shared' = (shared \/ ~Exclusive')
  BY DEF Recorded
<1>2. StepTypes'
  BY <1>1, ThreadTypeStep, HandlerTypeStep, CardTypeStep, Places DEF Act, Task, Handler
<1>3. shared' \in BOOLEAN
  BY <1>1
<1>4. (HeapTypes /\ RxTypes /\ TxTypes /\ ThreadTypes)'
  BY <1>2, <1>3 DEF StepTypes, ThreadTypes
<1> QED BY <1>4, TypeParts, PTL

-----------------------------------------------------------------------------
(* The receive ring.                                                       *)

(* What the ring's numbers say, in terms of the distances.                 *)
LEMMA RingNumbers ==
    ASSUME RxTypes
    PROVE  /\ Waiting \in 0 .. RX - 1 /\ Taken \in {0, 1}
           /\ \A s \in RxSlot : RxAhead(s) \in 0 .. RX - 1 /\ (RxAhead(s) = 0 <=> s = rxRead)
           /\ Waiting = RxAhead(RDH)
<1> RX \in Nat \ {0} /\ RxSlot = 0 .. RX - 1 /\ rxRead \in RxSlot /\ RDH \in RxSlot
  BY Places DEF RxTypes
<1>1. \A s \in RxSlot : RxAhead(s) \in 0 .. RX - 1 /\ (RxAhead(s) = 0 <=> s = rxRead)
  BY Gaps DEF RxAhead
<1> QED BY <1>1 DEF Waiting, RxAhead, Taken

(* Reading on brings every descriptor one nearer, but the one just read.   *)
LEMMA RingMoves ==
    ASSUME RxTypes, rxRead' = (rxRead + 1) % RX, NEW s \in RxSlot
    PROVE  RxAhead(s)' = IF s = rxRead THEN RX - 1 ELSE RxAhead(s) - 1
<1>1. RX \in Nat \ {0} /\ s \in 0 .. RX - 1 /\ rxRead \in 0 .. RX - 1
  BY Places DEF RxTypes
<1>2. rxRead' = Plus(RX, rxRead, 1)
  BY DEF Plus
<1> QED BY <1>1, <1>2, GapMoves DEF RxAhead

(* A step that neither moves the ring nor takes a frame in hand keeps it.  *)
LEMMA RingRests ==
    ASSUME RingsAgree, InHand, UNCHANGED rx,
           pc["irq"] \in {"idle", "poll"} <=> pc'["irq"] \in {"idle", "poll"}
    PROVE  RingsAgree' /\ InHand'
BY DEF RingsAgree, InHand, Taken, Waiting, Ahead, rx

(* The card fills one more descriptor.                                     *)
LEMMA RingFills ==
    ASSUME RxTypes, RingsAgree, InHand, NEW bad, CardReceive(bad)
    PROVE  /\ RingsAgree' /\ InHand' /\ Waiting' = Waiting + 1
           /\ \A s \in RxSlot : RxAhead(s)' = RxAhead(s)
<1> RX \in Nat \ {0} /\ RxSlot = 0 .. RX - 1 /\ rxRead \in RxSlot /\ RDH \in RxSlot /\ RDT \in RxSlot
  BY Places DEF RxTypes
<1>1. /\ RDH # RDT /\ accepted' = accepted + 1 /\ RDH' = (RDH + 1) % RX
      /\ rxDesc' = [rxDesc EXCEPT ![RDH].done = TRUE, ![RDH].errors = bad]
      /\ rxRead' = rxRead /\ RDT' = RDT /\ seen' = seen /\ pc' = pc
  BY DEF CardReceive
<1>2. Plus(RX, RDH, 1) # rxRead
  <2>1. (RDT + 1) % RX = rxRead
    BY DEF RingsAgree
  <2>2. (RDT + 1) % RX = IF RDT = RX - 1 THEN 0 ELSE RDT + 1
    BY NextPlace
  <2>3. (RDH + 1) % RX = IF RDH = RX - 1 THEN 0 ELSE RDH + 1
    BY NextPlace
  <2>4. (RDT + 1) % RX # (RDH + 1) % RX
    BY <1>1, <2>2, <2>3
  <2> QED BY <2>1, <2>4 DEF Plus
<1>3. Waiting' = Waiting + 1
  <2>1. RDH' = Plus(RX, RDH, 1)
    BY <1>1 DEF Plus
  <2> QED BY <1>1, <1>2, <2>1, GapMoves DEF Waiting
<1>4. \A s \in RxSlot : RxAhead(s)' = RxAhead(s)
  BY <1>1 DEF RxAhead
<1>5. \A s \in RxSlot : rxDesc'[s].done <=> (s = RDH \/ rxDesc[s].done)
  BY <1>1 DEF RxTypes
<1>6. \A s \in RxSlot : rxDesc[s].done <=> RxAhead(s) < Waiting
  BY DEF RingsAgree, RxAhead, Waiting, Ahead
<1>7. \A s \in RxSlot : RxAhead(s) = Waiting => s = RDH
  BY Gaps DEF RxAhead, Waiting
<1>8. \A s \in RxSlot : rxDesc'[s].done <=> RxAhead(s) < Waiting + 1
  <2> SUFFICES ASSUME NEW s \in RxSlot PROVE rxDesc'[s].done <=> RxAhead(s) < Waiting + 1
    OBVIOUS
  <2>1. RxAhead(s) \in Nat /\ Waiting \in Nat /\ (s = RDH => RxAhead(s) = Waiting)
    BY RingNumbers
  <2>2. rxDesc'[s].done <=> RxAhead(s) = Waiting \/ RxAhead(s) < Waiting
    BY <1>5, <1>6, <1>7, <2>1
  <2> QED BY <2>1, <2>2
<1>9. Waiting = accepted - Len(seen) + Taken /\ Taken' = Taken
  BY <1>1 DEF RingsAgree, Waiting, Ahead, Taken
<1>10. Waiting' = accepted' - Len(seen') + Taken'
  BY <1>1, <1>3, <1>9, RingNumbers DEF RxTypes
<1>11. \A s \in RxSlot : rxDesc'[s].done <=> (s - rxRead' + RX) % RX < (RDH' - rxRead' + RX) % RX
  BY <1>3, <1>4, <1>8 DEF RxAhead, Ahead, Waiting
<1>12. RingsAgree'
  BY <1>1, <1>10, <1>11 DEF RingsAgree, Waiting, Ahead, Taken
<1>13. InHand'
  BY <1>3, <1>9, RingNumbers DEF InHand
<1> QED BY <1>3, <1>4, <1>12, <1>13

(* The driver hands the descriptor in its hand back.                       *)
LEMMA RingPasses ==
    ASSUME RxTypes, RingsAgree, InHand, pc["irq"] \notin {"idle", "poll"}, pc'["irq"] = "poll",
           NEW d, PassOn(d), d.done = rxDesc[rxRead].done,
           d \in [addr : Block, done : BOOLEAN, errors : BOOLEAN],
           RDH' = RDH, accepted' = accepted, seen' = seen
    PROVE  /\ RingsAgree' /\ InHand' /\ Waiting' = Waiting - 1 /\ rxDesc[rxRead].done
           /\ \A s \in RxSlot \ {rxRead} : RxAhead(s)' = RxAhead(s) - 1
           /\ ~rxDesc'[rxRead].done
<1> RX \in Nat \ {0} /\ RxSlot = 0 .. RX - 1 /\ rxRead \in RxSlot /\ RDH \in RxSlot /\ RDT \in RxSlot
  BY Places DEF RxTypes
<1> DEFINE e == [d EXCEPT !.done = FALSE]
<1>0. rxDesc' = [rxDesc EXCEPT ![rxRead] = e] /\ e.done = FALSE
  BY DEF PassOn
<1>1. RDT' = rxRead /\ rxRead' = (rxRead + 1) % RX
  BY DEF PassOn
<1> HIDE DEF e
<1>2. Taken = 1 /\ Taken' = 0
  BY DEF Taken
<1>3. Waiting >= 1
  BY <1>2, RingNumbers DEF InHand
<1>4. RDH # rxRead
  <2>1. Waiting = RxAhead(RDH) /\ (RxAhead(RDH) = 0 <=> RDH = rxRead)
    BY RingNumbers
  <2> QED BY <1>3, <2>1
<1>5. Waiting' = Waiting - 1
  <2>1. Waiting' = RxAhead(RDH)'
    BY DEF Waiting, RxAhead
  <2> QED BY <1>1, <1>4, <2>1, RingMoves, RingNumbers
<1>6. \A s \in RxSlot : RxAhead(s)' = IF s = rxRead THEN RX - 1 ELSE RxAhead(s) - 1
  BY <1>1, RingMoves
<1>7. \A s \in RxSlot : rxDesc[s].done <=> RxAhead(s) < Waiting
  BY DEF RingsAgree, RxAhead, Waiting, Ahead
<1>8. rxDesc[rxRead].done
  BY <1>3, <1>7, RingNumbers
<1>9. \A s \in RxSlot : rxDesc'[s].done <=> (s # rxRead /\ rxDesc[s].done)
  BY <1>0 DEF RxTypes
<1>10. \A s \in RxSlot : rxDesc'[s].done <=> RxAhead(s)' < Waiting - 1
  <2> SUFFICES ASSUME NEW s \in RxSlot PROVE rxDesc'[s].done <=> RxAhead(s)' < Waiting - 1
    OBVIOUS
  <2>1. CASE s = rxRead
    BY <1>6, <1>9, <2>1, RingNumbers
  <2>2. CASE s # rxRead
    <3>1. RxAhead(s)' = RxAhead(s) - 1 /\ (rxDesc'[s].done <=> RxAhead(s) < Waiting)
      BY <1>6, <1>7, <1>9, <2>2
    <3>2. RxAhead(s) \in Nat /\ Waiting \in Nat
      BY RingNumbers
    <3> QED BY <3>1, <3>2
  <2> QED BY <2>1, <2>2
<1>11. Waiting = accepted - Len(seen) + Taken
  BY DEF RingsAgree, Waiting, Ahead, Taken
<1>12. Waiting' = accepted' - Len(seen') + Taken'
  BY <1>2, <1>5, <1>11, RingNumbers DEF RxTypes
<1>13. \A s \in RxSlot : rxDesc'[s].done <=> (s - rxRead' + RX) % RX < (RDH' - rxRead' + RX) % RX
  BY <1>5, <1>10 DEF RxAhead, Ahead, Waiting
<1>14. RingsAgree'
  <2>1. (RDT' + 1) % RX = rxRead'
    BY <1>1
  <2> QED BY <1>12, <1>13, <2>1 DEF RingsAgree, Waiting, Ahead, Taken
<1>15. InHand'
  BY <1>2, <1>3, <1>5, RingNumbers DEF InHand
<1> QED BY <1>5, <1>6, <1>8, <1>9, <1>14, <1>15

(* The driver takes the next frame in hand.                                *)
LEMMA RingTakes ==
    ASSUME RxTypes, RingsAgree, InHand, NEW l \in Labels \ {"idle", "poll"},
           pc["irq"] = "poll", pc'["irq"] = l, rxDesc[rxRead].done,
           NEW x \in Content, seen' = Append(seen, x),
           UNCHANGED <<rxDesc, rxRead, RDH, RDT, accepted>>
    PROVE  RingsAgree' /\ InHand'
<1>1. Waiting' = Waiting /\ Taken = 0 /\ Taken' = 1 /\ Len(seen') = Len(seen) + 1 /\ Len(seen) \in Nat
  BY DEF Waiting, Taken, RxTypes
<1>2. Waiting = accepted - Len(seen) + Taken
  BY DEF RingsAgree, Waiting, Ahead, Taken
<1>3. Waiting' = accepted' - Len(seen') + Taken'
  BY <1>1, <1>2, RingNumbers DEF RxTypes
<1>4. RxAhead(rxRead) < Waiting
  BY Places DEF RingsAgree, RxAhead, Waiting, Ahead, RxTypes
<1>5. Waiting >= 1
  BY <1>4, RingNumbers, Places DEF RxTypes
<1>6. InHand'
  BY <1>1, <1>5, RingNumbers DEF InHand
<1>7. RingsAgree'
  BY <1>1, <1>3 DEF RingsAgree, Waiting, Ahead, Taken
<1> QED BY <1>6, <1>7

(* Every step keeps driver and card agreed.                                *)
LEMMA RingStep ==
    ASSUME IInv, Act
    PROVE  RingsAgree' /\ InHand'
<1> TypeOK /\ RingsAgree /\ InHand /\ RxTypes /\ HeapTypes /\ pc \in [Thread -> Labels] /\ "irq" \in Thread
  BY TypeParts, Places DEF IInv, ThreadTypes
<1> USE DEF At, Goto, Allocating, Sending, Labels
<1>1. ASSUME NEW t \in Thread, Step(t) PROVE RingsAgree' /\ InHand'
  <2>1. UNCHANGED rx
    BY <1>1 DEF Step, AllocFresh, AllocListed, Unlink, Fill, Begin, Wait, FreeSent, Write, Store, AdvanceTx, WriteTail
  <2>2. /\ pc[t] \notin {"idle", "poll"} /\ \A u \in Thread \ {t} : pc'[u] = pc[u]
        /\ t = "irq" => pc'[t] \notin {"idle", "poll"}
    BY <1>1 DEF Step, AllocFresh, AllocListed, Unlink, Fill, Begin, Wait, FreeSent, Write, Store, AdvanceTx, WriteTail
  <2> QED BY <2>1, <2>2, RingRests
<1>2. CASE Send
  <2>1. UNCHANGED rx /\ pc'["irq"] = pc["irq"]
    BY <1>2, Places DEF Send
  <2> QED BY <2>1, RingRests
<1>3. CASE Interrupt
  BY <1>3 DEF Interrupt, RingsAgree, InHand, Waiting, Ahead, Taken
<1>4. CASE PollEnd \/ Printed
  BY <1>4, RingRests DEF PollEnd, Printed
<1>5. CASE PollBad
  BY <1>5, RingTakes, Contents DEF PollBad, Content
<1>6. ASSUME NEW l \in Labels, PollFrame(l) PROVE RingsAgree' /\ InHand'
  <2>1. mem[rxBufs[rxRead]] \in Content
    BY DEF HeapTypes, RxTypes
  <2>2. l \in Labels \ {"idle", "poll"} /\ pc["irq"] = "poll" /\ pc'["irq"] = l
    BY <1>6 DEF PollFrame
  <2>3. rxDesc[rxRead].done /\ seen' = Append(seen, mem[rxBufs[rxRead]])
        /\ UNCHANGED <<rxDesc, rxRead, RDH, RDT, accepted>>
    BY <1>6 DEF PollFrame
  <2> QED BY <2>1, <2>2, <2>3, RingTakes
<1>7. CASE Skip
  <2>1. rxDesc[rxRead] \in [addr : Block, done : BOOLEAN, errors : BOOLEAN]
    BY DEF RxTypes
  <2> QED BY <1>7, <2>1, RingPasses DEF Skip
<1>8. CASE Swap
  <2>1. PICK b \in Block : PassOn([rxDesc[rxRead] EXCEPT !.addr = b])
    BY <1>8, SwapTakes
  <2>2. rxDesc[rxRead] \in [addr : Block, done : BOOLEAN, errors : BOOLEAN]
    BY DEF RxTypes
  <2>3. [rxDesc[rxRead] EXCEPT !.addr = b] \in [addr : Block, done : BOOLEAN, errors : BOOLEAN]
        /\ [rxDesc[rxRead] EXCEPT !.addr = b].done = rxDesc[rxRead].done
    BY <2>2
  <2> QED BY <1>8, <2>1, <2>3, RingPasses DEF Swap
<1>9. CASE Card
  <2>1. UNCHANGED rx /\ pc' = pc
    BY <1>9 DEF Card, CardFetch, CardSent
  <2> QED BY <2>1, RingRests
<1>10. ASSUME NEW bad \in BOOLEAN, CardReceive(bad) PROVE RingsAgree' /\ InHand'
  BY <1>10, RingFills
<1> QED BY <1>1, <1>2, <1>3, <1>4, <1>5, <1>6, <1>7, <1>8, <1>9, <1>10, Places DEF Act, Task, Handler

-----------------------------------------------------------------------------
(* Blocks and counts.                                                      *)

(* The handler's own steps, outside net_alloc_buf and eth_intel_send, and  *)
(* the card's leave what a thread builds alone.                            *)
LEMMA OthersLeave ==
    ASSUME TypeOK, Act, ~Send, \A t \in Thread : ~Step(t)
    PROVE  /\ buf' = buf /\ slot' = slot /\ old' = old /\ posted' = posted
           /\ UNCHANGED <<txBufs, txWrite, TDT>> /\ pc'["task"] = pc["task"]
           /\ pc'["irq"] \in Building => pc["irq"] \in Building
<1> "irq" \in Thread /\ "task" \in Thread /\ "irq" # "task" /\ pc \in [Thread -> Labels]
  BY Places, TypeParts DEF ThreadTypes
<1> USE DEF At, Goto, local, tx, Allocating, Sending, Building, Labels
<1>1. CASE Interrupt \/ PollEnd \/ Printed
  BY <1>1 DEF Interrupt, PollEnd, Printed
<1>2. CASE PollBad \/ Skip \/ Swap
  BY <1>2 DEF PollBad, Skip, Swap
<1>3. ASSUME NEW l \in Labels, PollFrame(l)
      PROVE  /\ buf' = buf /\ slot' = slot /\ old' = old /\ posted' = posted
             /\ UNCHANGED <<txBufs, txWrite, TDT>> /\ pc'["task"] = pc["task"]
             /\ pc'["irq"] \in Building => pc["irq"] \in Building
  BY <1>3 DEF PollFrame
<1>4. CASE Card
  BY <1>4 DEF Card, CardFetch, CardSent
<1>5. ASSUME NEW bad, CardReceive(bad)
      PROVE  /\ buf' = buf /\ slot' = slot /\ old' = old /\ posted' = posted
             /\ UNCHANGED <<txBufs, txWrite, TDT>> /\ pc' = pc
  BY <1>5 DEF CardReceive
<1> QED BY <1>1, <1>2, <1>3, <1>4, <1>5 DEF Act, Task, Handler

(* Every step leaves a thread that builds a packet with a block.           *)
LEMMA BlockStep ==
    ASSUME IInv, Act
    PROVE  HasBlock'
<1> TypeOK /\ HasBlock /\ HeapTypes /\ pc \in [Thread -> Labels] /\ buf \in [Thread -> Block \cup {None}]
  BY TypeParts DEF IInv, ThreadTypes
<1> USE DEF At, Goto, local, Allocating, Sending, Building, Labels
<1>1. ASSUME NEW t \in Thread, Step(t) PROVE HasBlock'
  <2>1. CASE AllocFresh(t)
    <3>1. FirstFree \in Block
      BY <2>1, FirstFits DEF AllocFresh
    <3> QED BY <2>1, <3>1 DEF AllocFresh, HasBlock
  <2>2. CASE AllocListed(t)
    <3>1. Head(free) \in Block
      BY <2>2 DEF AllocListed, HeapTypes
    <3> QED BY <2>2, <3>1 DEF AllocListed, HasBlock
  <2>3. CASE Unlink(t) \/ Fill(t) \/ Begin(t) \/ Wait(t) \/ FreeSent(t)
    BY <2>3 DEF Unlink, Fill, Begin, Wait, FreeSent, HasBlock
  <2>4. CASE Write(t) \/ Store(t) \/ AdvanceTx(t)
    BY <2>4 DEF Write, Store, AdvanceTx, HasBlock
  <2>5. CASE WriteTail(t)
    BY <2>5 DEF WriteTail, HasBlock
  <2> QED BY <1>1, <2>1, <2>2, <2>3, <2>4, <2>5 DEF Step
<1>2. CASE Send
  BY <1>2 DEF Send, HasBlock
<1>3. CASE ~Send /\ \A t \in Thread : ~Step(t)
  <2>1. buf' = buf /\ \A t \in Thread : pc'[t] \in Building => pc[t] \in Building
    BY <1>3, OthersLeave DEF Thread
  <2> QED BY <2>1 DEF HasBlock
<1> QED BY <1>1, <1>2, <1>3

\* The handler answers a frame that it has been given.
Answering == Building \cup {"alloc", "print"}

(* Every step keeps the counts.                                            *)
LEMMA CountStep ==
    ASSUME IInv, Act
    PROVE  Counted'
<1> /\ TypeOK /\ Counted /\ RxTypes /\ TxTypes /\ pc \in [Thread -> Labels]
    /\ "task" \in Thread /\ "irq" \in Thread
  BY TypeParts, Places DEF IInv, ThreadTypes
<1>0. /\ Built("task") \in Nat /\ Built("irq") \in Nat /\ Len(seen) \in Nat /\ Sends \in Nat
      /\ Built("task") <= Sends /\ (pc["task"] # "idle" => Built("task") < Sends)
      /\ Built("irq") + (IF pc["irq"] \in Answering THEN 1 ELSE 0) <= Len(seen)
  BY BuiltSoFar, BoundAssumption DEF Counted, TxTypes, RxTypes, Answering
<1>p. ASSUME posted' = posted PROVE \A t \in Thread : Built(t)' = Built(t)
  BY <1>p DEF Built
<1> USE DEF At, Goto, Allocating, Sending, Building, Labels, Answering
<1>1. ASSUME NEW t \in Thread, Step(t), ~WriteTail(t) PROVE Counted'
  <2>1. /\ posted' = posted /\ seen' = seen
        /\ \A u \in Thread \ {t} : pc'[u] = pc[u]
        /\ pc[t] \in Answering /\ pc'[t] \in Answering
    BY <1>1 DEF Step, AllocFresh, AllocListed, Unlink, Fill, Begin, Wait, FreeSent, Write, Store,
                AdvanceTx, tx, rx
  <2>2. pc[t] # "idle" /\ pc'[t] # "idle"
    BY <2>1
  <2>3. pc'["task"] # "idle" => pc["task"] # "idle"
    BY <2>1, <2>2 DEF Thread
  <2>4. pc'["irq"] \in Answering <=> pc["irq"] \in Answering
    BY <2>1 DEF Thread
  <2> HIDE DEF Answering
  <2> QED BY <1>0, <1>p, <2>1, <2>3, <2>4 DEF Counted, Answering
<1>2. ASSUME NEW t \in Thread, WriteTail(t) PROVE Counted'
  <2>1. /\ pc[t] = "tail" /\ pc' = [pc EXCEPT ![t] = IF t = "irq" THEN "swap" ELSE "idle"]
        /\ posted' = Append(posted, <<t, Built(t)>>) /\ seen' = seen
    BY <1>2 DEF WriteTail, rx
  <2>2. <<t, Built(t)>> \in Content
    BY <2>1, Contents DEF IInv
  <2>3. /\ Built(t)' = Built(t) + 1
        /\ \A u \in Thread \ {t} : Built(u)' = Built(u)
    BY <2>1, <2>2, BuiltPosted DEF TxTypes
  <2>4. CASE t = "task"
    BY <1>0, <2>1, <2>3, <2>4 DEF Counted
  <2>5. CASE t = "irq"
    BY <1>0, <2>1, <2>3, <2>5 DEF Counted
  <2> QED BY <2>4, <2>5 DEF Thread
<1>3. CASE Send
  <2>1. /\ posted' = posted /\ seen' = seen /\ pc'["irq"] = pc["irq"] /\ Built("task") < Sends
    BY <1>3 DEF Send, tx, rx
  <2> QED BY <1>0, <1>p, <2>1 DEF Counted
<1>4. CASE ~Send /\ \A t \in Thread : ~Step(t)
  <2>1. posted' = posted /\ pc'["task"] = pc["task"]
    BY <1>4, OthersLeave
  <2>2. CASE seen' = seen /\ (pc'["irq"] \in Answering => pc["irq"] \in Answering)
    BY <1>0, <1>p, <2>1, <2>2 DEF Counted
  <2>3. CASE Len(seen') = Len(seen) + 1
    BY <1>0, <1>p, <2>1, <2>3 DEF Counted
  <2>4. CASE Interrupt \/ PollEnd \/ Printed
    BY <2>2, <2>4 DEF Interrupt, PollEnd, Printed, rx
  <2>5. CASE PollBad
    <3>1. <<>> \in Content /\ seen \in Seq(Content) /\ seen' = Append(seen, <<>>)
      BY <2>5 DEF PollBad, Content, RxTypes
    <3> QED BY <2>3, <3>1
  <2>6. ASSUME NEW l \in Labels, PollFrame(l) PROVE Counted'
    <3>1. mem[rxBufs[rxRead]] \in Content
      BY TypeParts DEF HeapTypes, RxTypes
    <3>2. seen \in Seq(Content) /\ seen' = Append(seen, mem[rxBufs[rxRead]])
      BY <2>6 DEF PollFrame, RxTypes
    <3> QED BY <2>3, <3>1, <3>2
  <2>7. CASE Skip \/ Swap
    BY <2>2, <2>7 DEF Skip, Swap
  <2>8. CASE Card
    BY <2>2, <2>8 DEF Card, CardFetch, CardSent, rx
  <2>9. ASSUME NEW bad \in BOOLEAN, CardReceive(bad) PROVE Counted'
    BY <2>2, <2>9 DEF CardReceive
  <2> QED BY <1>4, <2>4, <2>5, <2>6, <2>7, <2>8, <2>9 DEF Act, Task, Handler
<1> QED BY <1>1, <1>2, <1>3, <1>4

-----------------------------------------------------------------------------
(* The list of free buffers.                                               *)

(* A step is recorded as a race when it enters a section the other thread  *)
(* is in.                                                                  *)
LEMMA Unraced ==
    ASSUME TypeOK, NEW t \in Thread, NEW u \in Thread \ {t}, NEW section,
           Enters(t, section), ~raced'
    PROVE  ~raced /\ pc[u] \notin section
BY DEF Enters

(* raced stays set.                                                        *)
LEMMA RacedStays ==
    ASSUME TypeOK, Act, ~raced'
    PROVE  ~raced
<1> raced \in BOOLEAN
  BY TypeParts DEF ThreadTypes
<1>1. CASE Card
  BY <1>1 DEF Card, CardFetch, CardSent
<1>2. ASSUME NEW bad, CardReceive(bad) PROVE ~raced
  BY <1>2 DEF CardReceive
<1>3. CASE Send \/ Interrupt \/ PollEnd \/ PollBad \/ Printed \/ Skip
  BY <1>3 DEF Send, Interrupt, PollEnd, PollBad, Printed, Skip
<1>4. CASE Swap
  BY <1>4 DEF Swap, Enters
<1>5. ASSUME NEW l, PollFrame(l) PROVE ~raced
  BY <1>5 DEF PollFrame
<1>6. ASSUME NEW t \in Thread, Step(t) PROVE ~raced
  <2>1. CASE AllocFresh(t) \/ AllocListed(t) \/ Begin(t)
    BY <2>1 DEF AllocFresh, AllocListed, Begin, Enters
  <2>2. CASE Unlink(t) \/ Fill(t) \/ Wait(t) \/ FreeSent(t)
    BY <2>2 DEF Unlink, Fill, Wait, FreeSent
  <2>3. CASE Write(t) \/ Store(t) \/ AdvanceTx(t) \/ WriteTail(t)
    BY <2>3 DEF Write, Store, AdvanceTx, WriteTail
  <2> QED BY <1>6, <2>1, <2>2, <2>3 DEF Step
<1> QED BY <1>1, <1>2, <1>3, <1>4, <1>5, <1>6, Places DEF Act, Task, Handler

(* While nothing overlapped, a step keeps the sections apart.              *)
LEMMA ApartStep ==
    ASSUME TypeOK, Apart, Act, ~raced'
    PROVE  Apart'
<1> pc \in [Thread -> Labels] /\ "task" \in Thread /\ "irq" \in Thread
  BY TypeParts, Places DEF ThreadTypes
<1> USE DEF At, Goto, Allocating, Sending, Building, Labels
<1>1. CASE Step("task") \/ Send
  <2>1. pc["irq"] \in {"idle", "print", "skip"} /\ pc'["irq"] = pc["irq"]
    BY <1>1 DEF Send, Step, AllocFresh, AllocListed, Unlink, Fill, Begin, Wait, FreeSent, Write, Store,
                AdvanceTx, WriteTail
  <2> QED BY <2>1 DEF Apart
<1>2. CASE Step("irq")
  <2>0. pc'["task"] = pc["task"]
    BY <1>2 DEF Step, AllocFresh, AllocListed, Unlink, Fill, Begin, Wait, FreeSent, Write, Store,
                AdvanceTx, WriteTail
  <2>1. CASE AllocFresh("irq") \/ AllocListed("irq")
    <3>1. Enters("irq", Allocating) /\ pc'["irq"] \in Allocating
      BY <2>1 DEF AllocFresh, AllocListed
    <3>2. pc["task"] \notin Allocating
      BY <3>1, Unraced
    <3> QED BY <2>0, <3>1, <3>2 DEF Apart
  <2>2. CASE Unlink("irq") \/ Fill("irq")
    <3>1. pc["irq"] \in Building /\ pc'["irq"] \in {"fill", "begin"}
      BY <2>2 DEF Unlink, Fill
    <3> QED BY <2>0, <3>1 DEF Apart
  <2>3. CASE Begin("irq")
    <3>1. pc["irq"] = "begin" /\ Enters("irq", Sending)
      BY <2>3 DEF Begin
    <3>2. pc["task"] \notin Sending
      BY <3>1, Unraced
    <3> QED BY <2>0, <3>1, <3>2 DEF Apart
  <2>4. CASE Wait("irq") \/ FreeSent("irq") \/ Write("irq") \/ Store("irq") \/ AdvanceTx("irq") \/ WriteTail("irq")
    <3>1. pc["irq"] \in Sending
      BY <2>4 DEF Wait, FreeSent, Write, Store, AdvanceTx, WriteTail
    <3> QED BY <2>0, <3>1 DEF Apart
  <2> QED BY <1>2, <2>1, <2>2, <2>3, <2>4 DEF Step
<1>3. CASE ~Send /\ \A t \in Thread : ~Step(t)
  <2>1. pc'["task"] = pc["task"] /\ (pc'["irq"] \in Building => pc["irq"] \in Building)
    BY <1>3, OthersLeave
  <2>2. pc'["irq"] \in Sending => pc["irq"] \in Sending
    <3>1. \/ pc'["irq"] = pc["irq"]
          \/ pc'["irq"] \notin Sending
      BY <1>3 DEF Act, Task, Handler, Card, Interrupt, PollEnd, PollBad, PollFrame, Printed, Skip, Swap,
                  CardReceive, CardFetch, CardSent
    <3> QED BY <3>1
  <2> QED BY <2>1, <2>2 DEF Apart
<1> QED BY <1>1, <1>2, <1>3 DEF Thread

(* A step that changes neither the list nor the counts of references, and  *)
(* brings nobody to unlink or fill, keeps the list sound.                  *)
LEMMA ListRests ==
    ASSUME ListOwned, UNCHANGED <<free, ref, buf>>,
           \A t \in Thread : pc'[t] \in Allocating => pc'[t] = pc[t]
    PROVE  ListOwned'
BY DEF ListOwned, Allocating

(* A buffer released for the last time was not on the list.                *)
LEMMA ListReleases ==
    ASSUME HeapTypes, ListOwned, NEW b \in Block, net_release_buf(b),
           \A t \in Thread : pc'[t] \notin Allocating
    PROVE  ListOwned'
<1> free \in Seq(Block) /\ ref \in [Block -> Int] /\ Len(free) \in Nat
  BY DEF HeapTypes
<1>1. ref' = [ref EXCEPT ![b] = @ - 1]
  BY DEF net_release_buf
<1>2. \A k \in DOMAIN free : ref[free[k]] <= 0 /\ free[k] \in Block
  BY DEF ListOwned
<1>3. CASE ref[b] = 1
  <2>1. free' = <<b>> \o free
    BY <1>3 DEF net_release_buf, Releases
  <2>2. \A k \in DOMAIN free : free[k] # b
    BY <1>2, <1>3
  <2>3. /\ DOMAIN free' = 1 .. Len(free) + 1 /\ free'[1] = b
        /\ \A k \in 2 .. Len(free) + 1 : k - 1 \in DOMAIN free /\ free'[k] = free[k - 1]
    BY <2>1
  <2>4. \A j, k \in DOMAIN free' : free'[j] = free'[k] => j = k
    <3> SUFFICES ASSUME NEW j \in 1 .. Len(free) + 1, NEW k \in 1 .. Len(free) + 1, free'[j] = free'[k]
                 PROVE  j = k
      BY <2>3
    <3>1. \A x, y \in DOMAIN free : free[x] = free[y] => x = y
      BY DEF ListOwned
    <3>2. CASE j = 1 \/ k = 1
      BY <2>2, <2>3, <3>2
    <3>3. CASE j # 1 /\ k # 1
      <4>1. j - 1 \in DOMAIN free /\ k - 1 \in DOMAIN free /\ free[j - 1] = free[k - 1]
        BY <2>3, <3>3
      <4>2. j - 1 = k - 1
        BY <3>1, <4>1
      <4> QED BY <4>2
    <3> QED BY <3>2, <3>3
  <2>5. \A k \in DOMAIN free' : ref'[free'[k]] <= 0
    <3> SUFFICES ASSUME NEW k \in 1 .. Len(free) + 1 PROVE ref'[free'[k]] <= 0
      BY <2>3
    <3>1. CASE k = 1
      BY <1>1, <1>3, <2>3, <3>1
    <3>2. CASE k # 1
      BY <1>1, <1>2, <2>2, <2>3, <3>2
    <3> QED BY <3>1, <3>2
  <2> QED BY <2>4, <2>5 DEF ListOwned, Allocating
<1>4. CASE ref[b] # 1
  <2>1. free' = free
    BY <1>4 DEF net_release_buf, Releases
  <2>2. \A k \in DOMAIN free : ref'[free[k]] <= 0
    BY <1>1, <1>2
  <2> QED BY <2>1, <2>2 DEF ListOwned, Allocating
<1> QED BY <1>3, <1>4

(* The head of a list without duplicates is not in its tail.               *)
LEMMA HeadOff ==
    ASSUME HeapTypes, ListOwned, free # <<>>
    PROVE  /\ Tail(free) \in Seq(Block) /\ Len(Tail(free)) = Len(free) - 1
           /\ DOMAIN Tail(free) = 1 .. Len(free) - 1
           /\ \A k \in 1 .. Len(free) - 1 :
                  /\ Tail(free)[k] = free[k + 1] /\ Tail(free)[k] # Head(free)
                  /\ ref[Tail(free)[k]] <= 0 /\ Tail(free)[k] \in Block
           /\ \A j, k \in 1 .. Len(free) - 1 : Tail(free)[j] = Tail(free)[k] => j = k
<1>1. free \in Seq(Block) /\ Len(free) \in Nat \ {0} /\ DOMAIN free = 1 .. Len(free) /\ Head(free) = free[1]
  BY DEF HeapTypes
<1>2. /\ Tail(free) \in Seq(Block) /\ Len(Tail(free)) = Len(free) - 1
      /\ DOMAIN Tail(free) = 1 .. Len(free) - 1
      /\ \A k \in 1 .. Len(free) - 1 : Tail(free)[k] = free[k + 1]
  BY <1>1
<1>3. \A j, k \in 1 .. Len(free) : free[j] = free[k] => j = k
  BY <1>1 DEF ListOwned
<1>4. \A k \in 1 .. Len(free) - 1 : k + 1 \in 1 .. Len(free) /\ 1 \in 1 .. Len(free) /\ k + 1 # 1
  BY <1>1
<1>5. \A k \in 1 .. Len(free) - 1 : Tail(free)[k] # Head(free)
  BY <1>1, <1>2, <1>3, <1>4
<1>6. \A k \in 1 .. Len(free) - 1 : ref[Tail(free)[k]] <= 0 /\ Tail(free)[k] \in Block
  BY <1>1, <1>2, <1>4 DEF ListOwned
<1>7. \A j, k \in 1 .. Len(free) - 1 : Tail(free)[j] = Tail(free)[k] => j = k
  <2> SUFFICES ASSUME NEW j \in 1 .. Len(free) - 1, NEW k \in 1 .. Len(free) - 1,
                      Tail(free)[j] = Tail(free)[k]
               PROVE  j = k
    OBVIOUS
  <2>1. j + 1 = k + 1
    BY <1>2, <1>3, <1>4
  <2> QED BY <2>1
<1> QED BY <1>2, <1>5, <1>6, <1>7

(* The list without its head, after a step that leaves nobody at unlink    *)
(* and keeps what is on the list unreferenced.                             *)
LEMMA ListShrinks ==
    ASSUME HeapTypes, ListOwned, free # <<>>, free' = Tail(free),
           \A b \in Block : b # Head(free) => (ref[b] <= 0 => ref'[b] <= 0),
           \A t \in Thread : pc'[t] # "unlink" /\ (pc'[t] = "fill" => buf'[t] = Head(free))
    PROVE  ListOwned'
<1> DEFINE n == Len(free) - 1
           f == Tail(free)
<1>1. /\ DOMAIN f = 1 .. n
      /\ \A k \in 1 .. n : f[k] # Head(free) /\ ref[f[k]] <= 0 /\ f[k] \in Block
      /\ \A j, k \in 1 .. n : f[j] = f[k] => j = k
  BY HeadOff
<1> HIDE DEF n, f
<1>2. free' = f
  BY DEF f
<1>3. \A j, k \in DOMAIN free' : free'[j] = free'[k] => j = k
  BY <1>1, <1>2
<1>4. \A k \in DOMAIN free' : ref'[free'[k]] <= 0
  BY <1>1, <1>2
<1>5. \A t \in Thread :
          /\ pc'[t] = "unlink" => free' # <<>> /\ Head(free') = buf'[t]
          /\ pc'[t] = "fill" => \A k \in DOMAIN free' : free'[k] # buf'[t]
  BY <1>1, <1>2
<1> QED BY <1>3, <1>4, <1>5 DEF ListOwned

(* While nothing overlapped, every step keeps the list sound.              *)
LEMMA ListStep ==
    ASSUME TypeOK, HasBlock, Apart, ListOwned, Act, ~raced'
    PROVE  ListOwned'
<1> /\ HeapTypes /\ RxTypes /\ pc \in [Thread -> Labels] /\ buf \in [Thread -> Block \cup {None}]
    /\ old \in [Thread -> Block \cup {None}]
    /\ free \in Seq(Block) /\ ref \in [Block -> Int]
    /\ "task" \in Thread /\ "irq" \in Thread
  BY TypeParts, Places DEF ThreadTypes, HeapTypes
<1> USE DEF At, Goto, Allocating, Labels
<1>0. ASSUME NEW t \in Thread, NEW u \in Thread \ {t}, pc[t] \in Building, Step(t), pc[t] # "begin"
      PROVE  pc[u] \notin Allocating
  <2>1. CASE t = "task"
    <3>1. pc["irq"] \in {"idle", "print", "skip"}
      BY <1>0, <2>1 DEF Step, AllocFresh, AllocListed, Unlink, Fill, Begin, Wait, FreeSent, Write, Store,
                        AdvanceTx, WriteTail
    <3> QED BY <2>1, <3>1 DEF Thread
  <2>2. CASE t = "irq"
    BY <1>0, <2>2 DEF Apart, Thread
  <2> QED BY <2>1, <2>2 DEF Thread
<1>1. ASSUME NEW t \in Thread, AllocFresh(t) PROVE ListOwned'
  <2>1. /\ free = <<>> /\ free' = <<>> /\ pc' = [pc EXCEPT ![t] = "fill"]
    BY <1>1 DEF AllocFresh
  <2>2. \A u \in Thread : pc[u] # "unlink"
    BY <2>1 DEF ListOwned
  <2> QED BY <2>1, <2>2 DEF ListOwned
<1>2. ASSUME NEW t \in Thread, AllocListed(t) PROVE ListOwned'
  <2>1. /\ free # <<>> /\ pc' = [pc EXCEPT ![t] = "unlink"] /\ buf' = [buf EXCEPT ![t] = Head(free)]
        /\ UNCHANGED <<free, ref>>
    BY <1>2 DEF AllocListed, heap
  <2> QED BY <2>1 DEF ListOwned
<1>3. ASSUME NEW t \in Thread, Unlink(t) PROVE ListOwned'
  <2>1. pc[t] = "unlink" /\ pc' = [pc EXCEPT ![t] = "fill"] /\ UNCHANGED <<ref, buf>>
    BY <1>3 DEF Unlink, local
  <2>2. free # <<>> /\ Head(free) = buf[t] /\ Len(free) \in Nat \ {0} /\ free[1] = buf[t]
        /\ DOMAIN free = 1 .. Len(free)
    BY <2>1 DEF ListOwned
  <2>3. \A u \in Thread \ {t} : pc[u] \notin Allocating
    BY <1>0, <1>3, <2>1 DEF Building, Step
  <2>4. PICK k \in DOMAIN free : free[k] = buf[t] /\ free' = RemoveAt(free, k)
    BY <1>3, <2>2 DEF Unlink
  <2>5. k = 1
    BY <2>2, <2>4 DEF ListOwned
  <2>6. free' = Tail(free)
    <3> DEFINE g == RemoveAt(free, 1)
               f == Tail(free)
    <3>1. /\ g \in Seq(Block) /\ Len(g) = Len(free) - 1
          /\ \A j \in 1 .. Len(free) - 1 : g[j] = free[IF j < 1 THEN j ELSE j + 1]
      BY <2>4, <2>5, RemoveTypes
    <3>2. /\ f \in Seq(Block) /\ Len(f) = Len(free) - 1
          /\ \A j \in 1 .. Len(free) - 1 : f[j] = free[j + 1]
      BY <2>2, HeadOff
    <3>0. \A j \in 1 .. Len(free) - 1 : j >= 1
      BY <2>2
    <3> HIDE DEF g, f
    <3>3. \A j \in 1 .. Len(g) : g[j] = f[j]
      BY <2>2, <3>0, <3>1, <3>2
    <3>4. g = f
      BY <3>1, <3>2, <3>3, SeqEqual
    <3> QED BY <2>4, <2>5, <3>4 DEF g, f
  <2> QED BY <2>1, <2>2, <2>3, <2>6, ListShrinks
<1>4. ASSUME NEW t \in Thread, Fill(t) PROVE ListOwned'
  <2>1. /\ pc[t] = "fill" /\ pc' = [pc EXCEPT ![t] = "begin"] /\ UNCHANGED <<free, buf>>
        /\ ref' = [ref EXCEPT ![buf[t]] = 1]
    BY <1>4 DEF Fill, local
  <2>2. \A k \in DOMAIN free : free[k] # buf[t]
    BY <2>1 DEF ListOwned
  <2>3. \A k \in DOMAIN free : ref'[free[k]] <= 0
    BY <2>1, <2>2 DEF ListOwned
  <2> QED BY <2>1, <2>3 DEF ListOwned
<1>5. ASSUME NEW t \in Thread, FreeSent(t) PROVE ListOwned'
  <2>1. pc[t] = "free" /\ pc' = [pc EXCEPT ![t] = "write"] /\ buf' = buf
    BY <1>5 DEF FreeSent, local
  <2>2. \A u \in Thread : pc'[u] \notin Allocating
    BY <1>0, <1>5, <2>1 DEF Building, Sending, Step
  <2>3. CASE old[t] = None
    BY <1>5, <2>1, <2>3, ListRests DEF FreeSent
  <2>4. CASE old[t] # None
    <3>1. old[t] \in Block /\ net_release_buf(old[t])
      BY <1>5, <2>4 DEF FreeSent
    <3> QED BY <2>2, <3>1, ListReleases
  <2> QED BY <2>3, <2>4
<1>6. CASE Swap
  <2>1. pc["irq"] = "swap" /\ pc' = [pc EXCEPT !["irq"] = "poll"] /\ Enters("irq", Allocating) /\ buf' = buf
    BY <1>6 DEF Swap, local
  <2>2. pc["task"] \notin Allocating
    BY <2>1, Unraced
  <2>3. \A t \in Thread : pc'[t] \notin Allocating
    BY <2>1, <2>2 DEF Thread
  <2> DEFINE b    == rxBufs[rxRead]
             list == IF Releases(b) THEN <<b>> \o free ELSE free
  <2>4. PICK new \in Block :
            /\ b \in Block /\ list \in Seq(Block)
            /\ list # <<>> => new = Head(list)
            /\ free' = IF list # <<>> THEN Tail(list) ELSE free
            /\ ref' = [[ref EXCEPT ![b] = @ - 1] EXCEPT ![new] = 1]
    BY <1>6, SwapTakes
  <2>5. CASE Releases(b)
    <3>1. list = <<b>> \o free /\ ref[b] = 1
      BY <2>5 DEF Releases
    <3> HIDE DEF b, list
    <3>2. list # <<>> /\ Head(list) = b /\ Len(list) = Len(free) + 1
      BY <2>4, <3>1
    <3>3. free' = free
      <4>1. Tail(list) \in Seq(Block) /\ Len(Tail(list)) = Len(free)
            /\ \A j \in 1 .. Len(free) : Tail(list)[j] = free[j]
        BY <2>4, <3>1, <3>2
      <4>2. Tail(list) = free
        BY <4>1, SeqEqual
      <4> QED BY <2>4, <3>2, <4>2
    <3>4. new = b
      BY <2>4, <3>2
    <3>5. \A c \in Block : ref[c] <= 0 => ref'[c] <= 0
      BY <2>4, <3>1, <3>4
    <3>6. \A k \in DOMAIN free : free[k] \in Block /\ ref[free[k]] <= 0
      BY DEF ListOwned
    <3> QED BY <2>3, <3>3, <3>5, <3>6 DEF ListOwned
  <2>6. CASE ~Releases(b)
    <3>1. list = free
      BY <2>6
    <3> HIDE DEF b, list
    <3>2. CASE free = <<>>
      BY <2>3, <2>4, <3>1, <3>2 DEF ListOwned
    <3>3. CASE free # <<>>
      <4>1. new = Head(free) /\ free' = Tail(free)
        BY <2>4, <3>1, <3>3
      <4>2. \A c \in Block : c # Head(free) => (ref[c] <= 0 => ref'[c] <= 0)
        BY <2>4, <4>1
      <4> QED BY <2>3, <3>3, <4>1, <4>2, ListShrinks
    <3> QED BY <3>2, <3>3
  <2> QED BY <2>5, <2>6
<1>7. ASSUME NEW t \in Thread, Begin(t) \/ Wait(t) \/ Write(t) \/ Store(t) \/ AdvanceTx(t) \/ WriteTail(t)
      PROVE  ListOwned'
  <2>1. UNCHANGED <<free, ref, buf>>
    BY <1>7 DEF Begin, Wait, Write, Store, AdvanceTx, WriteTail, heap, local
  <2>2. pc'[t] \notin Allocating /\ \A u \in Thread \ {t} : pc'[u] = pc[u]
    BY <1>7 DEF Begin, Wait, Write, Store, AdvanceTx, WriteTail
  <2> QED BY <2>1, <2>2, ListRests
<1>8. CASE Send
  <2>1. UNCHANGED <<free, ref, buf>> /\ \A t \in Thread : pc'[t] \in Allocating => pc'[t] = pc[t]
    BY <1>8 DEF Send, heap, local
  <2> QED BY <2>1, ListRests
<1>9. CASE ~Send /\ ~Swap /\ \A t \in Thread : ~Step(t)
  <2>1. UNCHANGED <<free, ref>>
    BY <1>9 DEF Act, Task, Handler, Card, Interrupt, PollEnd, PollBad, PollFrame, Printed, Skip,
                CardReceive, CardFetch, CardSent, heap
  <2>2. buf' = buf /\ \A t \in Thread : pc'[t] \in Allocating => pc'[t] = pc[t]
    <3>1. buf' = buf /\ pc'["task"] = pc["task"]
      BY <1>9, OthersLeave
    <3>2. pc'["irq"] = pc["irq"] \/ pc'["irq"] \notin Allocating
      BY <1>9 DEF Act, Task, Handler, Card, Interrupt, PollEnd, PollBad, PollFrame, Printed, Skip,
                  CardReceive, CardFetch, CardSent
    <3> QED BY <3>1, <3>2 DEF Thread
  <2> QED BY <2>1, <2>2, ListRests
<1> QED BY <1>1, <1>2, <1>3, <1>4, <1>5, <1>6, <1>7, <1>8, <1>9 DEF Step

-----------------------------------------------------------------------------
(* Frames received.                                                        *)

\* A receive descriptor's buffer is no other's, and nobody builds a packet
\* in it or has it on the list.
RxOnly ==
    \A s \in RxSlot :
        /\ \A r \in RxSlot : rxDesc[r].addr = rxDesc[s].addr => r = s
        /\ \A t \in Thread : pc[t] \in {"fill", "begin", "test", "free", "write", "store"}
                             => buf[t] # rxDesc[s].addr
        /\ \A k \in DOMAIN free : free[k] # rxDesc[s].addr

(* So it is as long as every buffer has one owner.                         *)
LEMMA RxAlone == Alone /\ RxTypes /\ HeapTypes => RxOnly
<1> SUFFICES ASSUME Alone, RxTypes, HeapTypes, NEW s \in RxSlot
             PROVE  /\ \A r \in RxSlot : rxDesc[r].addr = rxDesc[s].addr => r = s
                    /\ \A t \in Thread : pc[t] \in {"fill", "begin", "test", "free", "write", "store"}
                                         => buf[t] # rxDesc[s].addr
                    /\ \A k \in DOMAIN free : free[k] # rxDesc[s].addr
  BY DEF RxOnly
<1> DEFINE b == rxDesc[s].addr
<1>1. b \in Block /\ <<"rx", s>> \in Owners(b)
  BY DEF RxTypes, Owners
<1>2. \A x \in Owners(b) : x = <<"rx", s>>
  BY <1>1 DEF Alone
<1>3. \A r \in RxSlot : rxDesc[r].addr = b => <<"rx", r>> \in Owners(b)
  BY DEF Owners
<1>4. \A t \in Thread : pc[t] \in {"fill", "begin", "test", "free", "write", "store"} /\ buf[t] = b
                        => <<t, 0>> \in Owners(b)
  BY DEF Owners
<1>5. \A k \in DOMAIN free : free[k] = b => <<"list", 0>> \in Owners(b)
  BY DEF Owners
<1> HIDE DEF b
<1>6. \A r \in RxSlot : rxDesc[r].addr = b => r = s
  BY <1>2, <1>3
<1>7. \A t \in Thread : pc[t] \in {"fill", "begin", "test", "free", "write", "store"} => buf[t] # b
  BY <1>2, <1>4 DEF Thread
<1>8. \A k \in DOMAIN free : free[k] # b
  BY <1>2, <1>5
<1> QED BY <1>6, <1>7, <1>8 DEF b

\* The waiting frames, without the owners.
RxSlots ==
    \A s \in RxSlot :
        /\ rxDesc[s].addr = rxBufs[s] /\ ref[rxBufs[s]] = 1
        /\ rxDesc[s].done => mem[rxBufs[s]] = <<"frame", accepted - Waiting + RxAhead(s)>>

(* A step that leaves the ring, its counts and its contents alone.         *)
LEMMA RxRests ==
    ASSUME RxSlots, RxTypes, UNCHANGED <<rxDesc, rxBufs, rxRead, RDH, accepted>>,
           \A s \in RxSlot : ref'[rxBufs[s]] = ref[rxBufs[s]] /\ mem'[rxBufs[s]] = mem[rxBufs[s]]
    PROVE  RxSlots'
BY DEF RxSlots, Waiting, RxAhead

(* Handing the descriptor back with the same buffer.                       *)
LEMMA RxPasses ==
    ASSUME RxSlots, RxTypes, RingsAgree, InHand,
           NEW d \in [addr : Block, done : BOOLEAN, errors : BOOLEAN], PassOn(d),
           d.done = rxDesc[rxRead].done, d.addr = rxDesc[rxRead].addr,
           pc["irq"] \notin {"idle", "poll"}, pc'["irq"] = "poll",
           UNCHANGED <<rxBufs, RDH, accepted, seen, mem>>,
           \A s \in RxSlot : ref'[rxBufs[s]] = 1
    PROVE  RxSlots'
<1>1. /\ Waiting' = Waiting - 1 /\ ~rxDesc'[rxRead].done
      /\ \A s \in RxSlot \ {rxRead} : RxAhead(s)' = RxAhead(s) - 1
  BY RingPasses
<1> DEFINE e == [d EXCEPT !.done = FALSE]
<1>2. rxDesc' = [rxDesc EXCEPT ![rxRead] = e] /\ e.addr = d.addr
  BY DEF PassOn
<1> HIDE DEF e
<1>3. \A s \in RxSlot : rxDesc'[s].addr = rxDesc[s].addr
  BY <1>2 DEF RxTypes
<1>4. \A s \in RxSlot \ {rxRead} : rxDesc'[s] = rxDesc[s]
  BY <1>2 DEF RxTypes
<1>5. \A s \in RxSlot \ {rxRead} : accepted - Waiting + RxAhead(s) = accepted' - Waiting' + RxAhead(s)'
  <2> SUFFICES ASSUME NEW s \in RxSlot \ {rxRead}
               PROVE  accepted - Waiting + RxAhead(s) = accepted' - Waiting' + RxAhead(s)'
    OBVIOUS
  <2>1. accepted \in Int /\ Waiting \in Int /\ RxAhead(s) \in Int
    BY RingNumbers DEF RxTypes
  <2> QED BY <1>1, <2>1
<1> SUFFICES ASSUME NEW s \in RxSlot
             PROVE  /\ rxDesc'[s].addr = rxBufs'[s] /\ ref'[rxBufs'[s]] = 1
                    /\ rxDesc'[s].done => mem'[rxBufs'[s]] = <<"frame", accepted' - Waiting' + RxAhead(s)'>>
  BY DEF RxSlots
<1>6. CASE s = rxRead
  BY <1>1, <1>3, <1>6 DEF RxSlots
<1>7. CASE s # rxRead
  BY <1>3, <1>4, <1>5, <1>7 DEF RxSlots
<1> QED BY <1>6, <1>7

(* The card writes a frame into a buffer of its own.                       *)
LEMMA RxFills ==
    ASSUME RxSlots, RxTypes, HeapTypes, Alone, RingsAgree, InHand, NEW bad \in BOOLEAN, CardReceive(bad)
    PROVE  RxSlots'
<1>1. /\ rxDesc' = [rxDesc EXCEPT ![RDH].done = TRUE, ![RDH].errors = bad]
      /\ mem' = [mem EXCEPT ![rxDesc[RDH].addr] = <<"frame", accepted>>]
      /\ accepted' = accepted + 1 /\ rxBufs' = rxBufs /\ ref' = ref
  BY DEF CardReceive
<1>2. Waiting' = Waiting + 1 /\ \A s \in RxSlot : RxAhead(s)' = RxAhead(s)
  BY RingFills
<1>3. \A s \in RxSlot : rxDesc'[s].addr = rxDesc[s].addr /\ (s # RDH => rxDesc'[s].done = rxDesc[s].done)
  BY <1>1 DEF RxTypes
<1>4. RDH \in RxSlot /\ rxDesc[RDH].addr \in Block
  BY DEF RxTypes
<1> SUFFICES ASSUME NEW s \in RxSlot
             PROVE  /\ rxDesc'[s].addr = rxBufs'[s] /\ ref'[rxBufs'[s]] = 1
                    /\ rxDesc'[s].done => mem'[rxBufs'[s]] = <<"frame", accepted' - Waiting' + RxAhead(s)'>>
  BY DEF RxSlots
<1>5. accepted' - Waiting' + RxAhead(s)' = accepted - Waiting + RxAhead(s)
      /\ (s = RDH => accepted - Waiting + RxAhead(s) = accepted)
  <2>1. accepted \in Int /\ Waiting \in Int /\ RxAhead(s) \in Int /\ (s = RDH => RxAhead(s) = Waiting)
    BY RingNumbers DEF RxTypes
  <2> QED BY <1>1, <1>2, <2>1
<1>6. CASE s = RDH
  <2>1. mem'[rxBufs[s]] = <<"frame", accepted>>
    BY <1>1, <1>4, <1>6 DEF RxSlots, HeapTypes
  <2> QED BY <1>1, <1>3, <1>5, <1>6, <2>1 DEF RxSlots
<1>7. CASE s # RDH
  <2>1. rxDesc[s].addr # rxDesc[RDH].addr
    BY <1>4, <1>7, RxAlone DEF RxOnly
  <2>2. mem'[rxBufs[s]] = mem[rxBufs[s]]
    BY <1>1, <2>1 DEF RxSlots, RxTypes, HeapTypes
  <2> QED BY <1>1, <1>3, <1>5, <1>7, <2>2 DEF RxSlots
<1> QED BY <1>6, <1>7

(* A frame given to eth_recv is the next one.                              *)
LEMMA RxNext ==
    ASSUME TypeOK, RingsAgree, InHand, RxSlots, RxInOrder, ~shared, pc["irq"] = "poll", rxDesc[rxRead].done,
           NEW x \in {<<>>, mem[rxBufs[rxRead]]}, seen' = Append(seen, x)
    PROVE  RxInOrder'
<1> RxTypes /\ HeapTypes
  BY TypeParts
<1>1. accepted - Waiting + RxAhead(rxRead) = Len(seen)
  <2>1. Waiting = accepted - Len(seen) + Taken /\ Taken = 0
    BY DEF RingsAgree, Waiting, Ahead, Taken
  <2>2. rxRead \in RxSlot /\ RxAhead(rxRead) = 0
    BY RingNumbers DEF RxTypes
  <2> QED BY <2>1, <2>2, RingNumbers DEF RxTypes
<1>2. mem[rxBufs[rxRead]] = <<"frame", Len(seen)>>
  BY <1>1 DEF RxSlots, RxTypes
<1>3. /\ x \in Content /\ seen \in Seq(Content) /\ Len(seen) \in Nat
      /\ rxBufs[rxRead] \in Block /\ x \in {<<>>, <<"frame", Len(seen)>>}
  <2>1. rxBufs[rxRead] \in Block /\ seen \in Seq(Content) /\ Len(seen) \in Nat
    BY DEF RxTypes
  <2>2. mem[rxBufs[rxRead]] \in Content /\ <<>> \in Content
    BY <2>1 DEF HeapTypes, Content
  <2> QED BY <1>2, <2>1, <2>2
<1>4. /\ DOMAIN seen' = 1 .. Len(seen) + 1 /\ DOMAIN seen = 1 .. Len(seen)
      /\ seen'[Len(seen) + 1] = x
      /\ \A k \in 1 .. Len(seen) : seen'[k] = seen[k]
  BY <1>3
<1>5. \A k \in 1 .. Len(seen) : seen[k] \in {<<>>, <<"frame", k - 1>>}
  BY <1>4 DEF RxInOrder
<1>6. \A k \in 1 .. Len(seen) + 1 : seen'[k] \in {<<>>, <<"frame", k - 1>>}
  <2> SUFFICES ASSUME NEW k \in 1 .. Len(seen) + 1
               PROVE  seen'[k] \in {<<>>, <<"frame", k - 1>>}
    OBVIOUS
  <2>1. CASE k = Len(seen) + 1
    <3>1. k - 1 = Len(seen)
      BY <1>3, <2>1
    <3> QED BY <1>3, <1>4, <2>1, <3>1
  <2>2. CASE k # Len(seen) + 1
    <3>1. k \in 1 .. Len(seen)
      BY <1>3, <2>2
    <3> QED BY <1>4, <1>5, <3>1
  <2> QED BY <2>1, <2>2
<1> QED BY <1>4, <1>6 DEF RxInOrder

(* While every buffer has one owner, every step keeps the waiting frames   *)
(* in order and eth_recv gets the next one.                                *)
LEMMA RxStep ==
    ASSUME TypeOK, RingsAgree, InHand, HasBlock, Alone, Alone', TypeOK', RxSlots, RxInOrder, ~shared, Act
    PROVE  RxSlots' /\ RxInOrder'
<1> /\ HeapTypes /\ RxTypes /\ ThreadTypes /\ RxTypes' /\ HeapTypes'
    /\ "task" \in Thread /\ "irq" \in Thread
  <2>1. (HeapTypes /\ RxTypes)'
    BY TypeParts, PTL
  <2> QED BY <2>1, TypeParts, Places
<1> USE DEF At, Goto, Labels
<1>1. ASSUME NEW t \in Thread, Step(t) PROVE RxSlots' /\ RxInOrder'
  <2>1. UNCHANGED <<rxDesc, rxBufs, rxRead, RDH, accepted, seen>>
    BY <1>1 DEF Step, AllocFresh, AllocListed, Unlink, Fill, Begin, Wait, FreeSent, Write, Store,
                AdvanceTx, WriteTail, rx
  <2>2. CASE Fill(t)
    <3>1. /\ pc[t] = "fill" /\ ref' = [ref EXCEPT ![buf[t]] = 1]
          /\ mem' = [mem EXCEPT ![buf[t]] = <<t, Built(t)>>]
      BY <2>2 DEF Fill
    <3>2. \A s \in RxSlot : buf[t] # rxBufs[s]
      BY <3>1, RxAlone DEF RxSlots, RxOnly
    <3>3. \A s \in RxSlot : rxBufs[s] \in Block
      BY DEF RxTypes
    <3>4. \A s \in RxSlot : ref'[rxBufs[s]] = ref[rxBufs[s]] /\ mem'[rxBufs[s]] = mem[rxBufs[s]]
      BY <3>1, <3>2, <3>3 DEF HeapTypes
    <3> QED BY <2>1, <3>4, RxRests DEF RxInOrder
  <2>3. CASE FreeSent(t)
    <3>1. CASE old[t] = None
      BY <2>1, <2>3, <3>1, RxRests DEF FreeSent, RxInOrder
    <3>2. CASE old[t] # None
      <4>1. old[t] \in Block /\ net_release_buf(old[t]) /\ mem' = mem
        BY <2>3, <3>2 DEF FreeSent, ThreadTypes
      <4>2. ASSUME NEW s \in RxSlot, rxBufs[s] = old[t] PROVE FALSE
        <5>1. ref[old[t]] = 1 /\ rxDesc'[s].addr = old[t]
          BY <2>1, <4>2 DEF RxSlots
        <5>2. free' = <<old[t]>> \o free
          BY <4>1, <5>1 DEF net_release_buf, Releases
        <5>3. 1 \in DOMAIN free' /\ free'[1] = old[t]
          BY <4>1, <5>2 DEF HeapTypes
        <5>4. \A r \in RxSlot : \A k \in DOMAIN free' : free'[k] # rxDesc'[r].addr
          <6>1. (Alone /\ RxTypes /\ HeapTypes)'
            OBVIOUS
          <6>2. RxOnly'
            BY <6>1, RxAlone, PTL
          <6> QED BY <6>2 DEF RxOnly
        <5> QED BY <5>1, <5>3, <5>4
      <4>3. \A s \in RxSlot : rxBufs[s] \in Block /\ rxBufs[s] # old[t]
        BY <4>2 DEF RxTypes
      <4>4. \A s \in RxSlot : ref'[rxBufs[s]] = ref[rxBufs[s]]
        BY <4>1, <4>3 DEF net_release_buf, HeapTypes
      <4> QED BY <2>1, <4>1, <4>4, RxRests DEF RxInOrder
    <3> QED BY <3>1, <3>2
  <2>4. CASE ~Fill(t) /\ ~FreeSent(t)
    <3>1. ref' = ref /\ mem' = mem
      BY <1>1, <2>4 DEF Step, AllocFresh, AllocListed, Unlink, Begin, Wait, Write, Store,
                AdvanceTx, WriteTail, heap
    <3> QED BY <2>1, <3>1, RxRests DEF RxInOrder
  <2> QED BY <2>2, <2>3, <2>4
<1>2. CASE Send \/ Interrupt \/ PollEnd \/ Printed \/ Card
  <2>1. UNCHANGED <<rxDesc, rxBufs, rxRead, RDH, accepted, seen, ref, mem>>
    BY <1>2 DEF Send, Interrupt, PollEnd, Printed, Card, CardFetch, CardSent, heap, rx
  <2> QED BY <2>1, RxRests DEF RxInOrder
<1>3. CASE PollBad
  <2>1. /\ UNCHANGED <<rxDesc, rxBufs, rxRead, RDH, accepted, ref, mem>>
        /\ pc["irq"] = "poll" /\ rxDesc[rxRead].done /\ seen' = Append(seen, <<>>)
    BY <1>3 DEF PollBad, heap
  <2> QED BY <2>1, RxRests, RxNext
<1>4. ASSUME NEW l \in Labels, PollFrame(l) PROVE RxSlots' /\ RxInOrder'
  <2>1. /\ UNCHANGED <<rxDesc, rxBufs, rxRead, RDH, accepted, ref, mem>>
        /\ pc["irq"] = "poll" /\ rxDesc[rxRead].done /\ seen' = Append(seen, mem[rxBufs[rxRead]])
    BY <1>4 DEF PollFrame, heap
  <2> QED BY <2>1, RxRests, RxNext
<1>5. CASE Skip
  <2>1. /\ UNCHANGED <<rxBufs, RDH, accepted, seen, ref, mem>> /\ PassOn(rxDesc[rxRead])
        /\ pc["irq"] = "skip" /\ pc'["irq"] = "poll"
    BY <1>5 DEF Skip, heap, ThreadTypes
  <2>2. rxDesc[rxRead] \in [addr : Block, done : BOOLEAN, errors : BOOLEAN]
    BY DEF RxTypes
  <2>3. \A s \in RxSlot : ref'[rxBufs[s]] = 1
    BY <2>1 DEF RxSlots
  <2> QED BY <2>1, <2>2, <2>3, RxPasses DEF RxInOrder
<1>6. CASE Swap
  <2> DEFINE b    == rxBufs[rxRead]
             list == IF Releases(b) THEN <<b>> \o free ELSE free
  <2>1. PICK new \in Block :
            /\ b \in Block /\ list \in Seq(Block)
            /\ list # <<>> => new = Head(list)
            /\ ref' = [[ref EXCEPT ![b] = @ - 1] EXCEPT ![new] = 1]
            /\ PassOn([rxDesc[rxRead] EXCEPT !.addr = new])
    BY <1>6, SwapTakes
  <2>2. list = <<b>> \o free /\ rxDesc[rxRead].addr = b
    BY DEF RxSlots, RxTypes, Releases
  <2>3. new = b
    <3> HIDE DEF b, list
    <3> QED BY <2>1, <2>2 DEF HeapTypes
  <2>4. \A s \in RxSlot : ref'[rxBufs[s]] = 1
    <3>1. \A s \in RxSlot : ref[rxBufs[s]] = 1 /\ rxBufs[s] \in Block
      BY DEF RxSlots, RxTypes
    <3> HIDE DEF b, list
    <3> QED BY <2>1, <2>3, <3>1 DEF HeapTypes
  <2> DEFINE d == [rxDesc[rxRead] EXCEPT !.addr = new]
  <2>5. /\ d \in [addr : Block, done : BOOLEAN, errors : BOOLEAN]
        /\ d.done = rxDesc[rxRead].done /\ d.addr = rxDesc[rxRead].addr /\ PassOn(d)
    <3>1. rxDesc[rxRead] \in [addr : Block, done : BOOLEAN, errors : BOOLEAN]
      BY DEF RxTypes
    <3>2. PassOn(d)
      BY <2>1
    <3>3. /\ d \in [addr : Block, done : BOOLEAN, errors : BOOLEAN]
          /\ d.done = rxDesc[rxRead].done /\ d.addr = new
      BY <3>1
    <3> QED BY <2>2, <2>3, <3>2, <3>3
  <2> HIDE DEF d, b, list
  <2>6. UNCHANGED <<rxBufs, RDH, accepted, seen, mem>> /\ pc["irq"] = "swap" /\ pc'["irq"] = "poll"
    BY <1>6 DEF Swap, ThreadTypes
  <2> QED BY <2>4, <2>5, <2>6, RxPasses DEF RxInOrder
<1>7. ASSUME NEW bad \in BOOLEAN, CardReceive(bad) PROVE RxSlots' /\ RxInOrder'
  <2>1. seen' = seen
    BY <1>7 DEF CardReceive
  <2> QED BY <1>7, <2>1, RxFills DEF RxInOrder
<1> QED BY <1>1, <1>2, <1>3, <1>4, <1>5, <1>6, <1>7 DEF Act, Task, Handler

-----------------------------------------------------------------------------
(* The transmit ring.                                                      *)

(* What the ring's numbers say, in terms of the distances.                 *)
LEMMA TxNumbers ==
    ASSUME TxTypes, TxRing
    PROVE  /\ Pending \in 0 .. TX /\ Len(posted) \in Nat /\ Len(wire) \in Nat
           /\ TX \in Nat \ {0} /\ TxSlot = 0 .. TX - 1
           /\ TDH \in TxSlot /\ TDT \in TxSlot /\ txWrite \in TxSlot
           /\ \A s \in TxSlot : TxAhead(s) \in 0 .. TX - 1 /\ (TxAhead(s) = 0 <=> s = TDH)
           /\ Pending < TX => \A s \in TxSlot : TxAhead(s) = Pending <=> s = TDT
           /\ Pending = 0 => TDT = TDH
<1>1. /\ TX \in Nat \ {0} /\ TxSlot = 0 .. TX - 1 /\ TDH \in TxSlot /\ TDT \in TxSlot /\ txWrite \in TxSlot
      /\ Len(posted) \in Nat /\ Len(wire) \in Nat
  BY Places DEF TxTypes
<1>2. Pending \in 0 .. TX /\ TDT = Plus(TX, TDH, Pending)
  BY DEF TxRing
<1>3. \A s \in TxSlot : TxAhead(s) \in 0 .. TX - 1 /\ (TxAhead(s) = 0 <=> s = TDH)
  BY <1>1, Gaps DEF TxAhead
<1>4. Pending < TX => TxAhead(TDT) = Pending
  BY <1>1, <1>2, Walks DEF TxAhead
<1>5. \A s \in TxSlot : TxAhead(s) = TxAhead(TDT) <=> s = TDT
  <2> SUFFICES ASSUME NEW s \in TxSlot, Ahead(TX, s, TDH) = Ahead(TX, TDT, TDH) PROVE s = TDT
    BY DEF TxAhead
  <2>1. s \in 0 .. TX - 1 /\ TDT \in 0 .. TX - 1 /\ TDH \in 0 .. TX - 1
    BY <1>1
  <2> QED BY <1>1, <2>1, Gaps
<1>6. Pending = 0 => TDT = TDH
  BY <1>1, <1>3, <1>4
<1> QED BY <1>1, <1>2, <1>3, <1>4, <1>5, <1>6

(* A step outside eth_intel_send.                                          *)
LEMMA TxRests ==
    ASSUME TxRing, UNCHANGED <<txDesc, txWrite, TDH, TDT, busy, posted, wire, slot>>,
           \A t \in Thread : pc'[t] = pc[t] \/ (pc[t] \notin Sending /\ pc'[t] \notin Sending)
    PROVE  TxRing'
<1>1. \A t \in Thread : /\ pc'[t] = "tail" <=> pc[t] = "tail"
                        /\ pc'[t] \in Sending <=> pc[t] \in Sending
                        /\ pc'[t] \in Sending \ {"test"} <=> pc[t] \in Sending \ {"test"}
                        /\ pc'[t] \in Written <=> pc[t] \in Written
  BY DEF Sending, Written
<1>2. Pending' = Pending /\ \A s : TxAhead(s)' = TxAhead(s)
  BY DEF Pending, TxAhead
<1>3. /\ Pending \in 0 .. TX /\ TDT = Plus(TX, TDH, Pending) /\ (busy => Pending >= 1)
      /\ txWrite = IF \E t \in Thread : pc[t] = "tail" THEN Plus(TX, TDT, 1) ELSE TDT
  BY DEF TxRing
<1>4. (\E t \in Thread : pc'[t] = "tail") <=> (\E t \in Thread : pc[t] = "tail")
  BY <1>1
<1>5. \A t \in Thread : /\ pc'[t] \in Sending => slot'[t] = TDT'
                        /\ pc'[t] \in Sending \ {"test"} => Pending' < TX
  BY <1>1, <1>2 DEF TxRing
<1>6. \A s \in TxSlot :
          txDesc'[s].done <=> TxAhead(s)' >= Pending' /\ \A t \in Thread : pc'[t] \in Written => slot'[t] # s
  BY <1>1, <1>2 DEF TxRing
<1> QED BY <1>2, <1>3, <1>4, <1>5, <1>6 DEF TxRing

(* eth_intel_send of one thread, the other outside it.                     *)
LEMMA TxSends ==
    ASSUME TypeOK, TxRing, NEW t \in Thread,
           Begin(t) \/ Wait(t) \/ FreeSent(t) \/ Write(t) \/ Store(t) \/ AdvanceTx(t) \/ WriteTail(t),
           \A u \in Thread \ {t} : pc[u] \notin Sending
    PROVE  TxRing'
<1> TxTypes /\ ThreadTypes
  BY TypeParts
<1> DEFINE Alike == /\ Pending' = Pending /\ UNCHANGED <<TDH, TDT, busy>>
                    /\ \A s \in TxSlot : TxAhead(s)' = TxAhead(s)
<1>0. /\ TDT = Plus(TX, TDH, Pending) /\ (busy => Pending >= 1)
      /\ txWrite = IF pc[t] = "tail" THEN Plus(TX, TDT, 1) ELSE TDT
      /\ pc[t] \in Sending => slot[t] = TDT
      /\ pc[t] \in Sending \ {"test"} => Pending < TX
      /\ \A s \in TxSlot : txDesc[s].done <=> TxAhead(s) >= Pending /\ ~(pc[t] \in Written /\ slot[t] = s)
  <2>1. (\E u \in Thread : pc[u] = "tail") <=> pc[t] = "tail"
    BY DEF Sending
  <2>2. \A s : (\A u \in Thread : pc[u] \in Written => slot[u] # s) <=> ~(pc[t] \in Written /\ slot[t] = s)
    BY DEF Sending, Written
  <2> QED BY <2>1, <2>2 DEF TxRing
<1>1. ASSUME \A u \in Thread \ {t} : pc'[u] \notin Sending,
             Pending' \in 0 .. TX, TDT' = Plus(TX, TDH', Pending'), busy' => Pending' >= 1,
             txWrite' = IF pc'[t] = "tail" THEN Plus(TX, TDT', 1) ELSE TDT',
             pc'[t] \in Sending => slot'[t] = TDT',
             pc'[t] \in Sending \ {"test"} => Pending' < TX,
             \A s \in TxSlot : txDesc'[s].done <=> TxAhead(s)' >= Pending' /\ ~(pc'[t] \in Written /\ slot'[t] = s)
      PROVE  TxRing'
  <2>1. (\E u \in Thread : pc'[u] = "tail") <=> pc'[t] = "tail"
    BY <1>1 DEF Sending
  <2>2. \A s : (\A u \in Thread : pc'[u] \in Written => slot'[u] # s) <=> ~(pc'[t] \in Written /\ slot'[t] = s)
    BY <1>1 DEF Sending, Written
  <2>3. \A u \in Thread : /\ pc'[u] \in Sending => slot'[u] = TDT'
                          /\ pc'[u] \in Sending \ {"test"} => Pending' < TX
    BY <1>1
  <2> QED BY <1>1, <2>1, <2>2, <2>3 DEF TxRing
<1> USE DEF At, Goto
<1>2. \A u \in Thread \ {t} : pc'[u] \notin Sending
  BY DEF Begin, Wait, FreeSent, Write, Store, AdvanceTx, WriteTail, ThreadTypes
<1>3. ASSUME UNCHANGED <<TDH, TDT, busy, posted, wire>> PROVE Alike
  BY <1>3 DEF Pending, TxAhead
<1>4. Pending \in 0 .. TX
  BY TxNumbers
<1>5. CASE Begin(t)
  <2>1. /\ pc[t] = "begin" /\ pc'[t] = "test" /\ slot'[t] = txWrite
        /\ UNCHANGED <<txDesc, txWrite, TDH, TDT, busy, posted, wire>>
    BY <1>5 DEF Begin, tx, ThreadTypes
  <2> QED BY <1>0, <1>1, <1>2, <1>3, <1>4, <2>1 DEF Written, Sending
<1>6. CASE Wait(t)
  <2>1. /\ pc[t] = "test" /\ pc'[t] = "free" /\ txDesc[slot[t]].done
        /\ UNCHANGED <<slot, txDesc, txWrite, TDH, TDT, busy, posted, wire>>
    BY <1>6 DEF Wait, DescriptorDone, tx, local, ThreadTypes
  <2>2. TxAhead(slot[t]) >= Pending /\ TxAhead(slot[t]) \in 0 .. TX - 1
    BY <1>0, <2>1, TxNumbers DEF ThreadTypes
  <2>3. Pending < TX
    BY <1>4, <2>2, TxNumbers
  <2> QED BY <1>0, <1>1, <1>2, <1>3, <1>4, <2>1, <2>3 DEF Written, Sending
<1>7. CASE FreeSent(t)
  <2>1. /\ pc[t] = "free" /\ pc'[t] = "write"
        /\ UNCHANGED <<slot, txDesc, txWrite, TDH, TDT, busy, posted, wire>>
    BY <1>7 DEF FreeSent, tx, local, ThreadTypes
  <2> QED BY <1>0, <1>1, <1>2, <1>3, <1>4, <2>1 DEF Written, Sending
<1>8. CASE Write(t)
  <2>1. /\ pc[t] = "write" /\ pc'[t] = "store"
        /\ txDesc' = [txDesc EXCEPT ![slot[t]] = [addr |-> buf[t], done |-> FALSE]]
        /\ UNCHANGED <<slot, txWrite, TDH, TDT, busy, posted, wire>>
    BY <1>8 DEF Write, local, ThreadTypes
  <2>2. \A s \in TxSlot : txDesc'[s].done <=> (s # slot[t] /\ txDesc[s].done)
    BY <2>1 DEF TxTypes
  <2> QED BY <1>0, <1>1, <1>2, <1>3, <1>4, <2>1, <2>2 DEF Written, Sending
<1>9. CASE Store(t)
  <2>1. /\ pc[t] = "store" /\ pc'[t] = "advance"
        /\ UNCHANGED <<slot, txDesc, txWrite, TDH, TDT, busy, posted, wire>>
    BY <1>9 DEF Store, local, ThreadTypes
  <2> QED BY <1>0, <1>1, <1>2, <1>3, <1>4, <2>1 DEF Written, Sending
<1>10. CASE AdvanceTx(t)
  <2>1. /\ pc[t] = "advance" /\ pc'[t] = "tail" /\ txWrite' = Plus(TX, txWrite, 1)
        /\ UNCHANGED <<slot, txDesc, TDH, TDT, busy, posted, wire>>
    BY <1>10 DEF AdvanceTx, local, ThreadTypes, Plus
  <2> QED BY <1>0, <1>1, <1>2, <1>3, <1>4, <2>1 DEF Written, Sending
<1>11. CASE WriteTail(t)
  <2>1. /\ pc[t] = "tail" /\ pc'[t] \notin Sending /\ TDT' = txWrite
        /\ posted' = Append(posted, <<t, Built(t)>>)
        /\ UNCHANGED <<slot, txDesc, txWrite, TDH, busy, wire>>
    BY <1>11 DEF WriteTail, local, ThreadTypes, Sending
  <2>2. Pending' = Pending + 1 /\ Pending < TX /\ slot[t] = TDT /\ txWrite = Plus(TX, TDT, 1)
    <3>1. Len(posted') = Len(posted) + 1 /\ Len(posted) \in Nat /\ Len(wire) \in Nat
      BY <2>1 DEF TxTypes
    <3> QED BY <1>0, <2>1, <3>1 DEF Pending, Sending
  <2>3. TDT' = Plus(TX, TDH, Pending + 1)
    BY <1>0, <2>1, <2>2, TxNumbers, Walks
  <2>4. \A s \in TxSlot : TxAhead(s)' = TxAhead(s)
    BY <2>1 DEF TxAhead
  <2>5. \A s \in TxSlot : txDesc'[s].done <=> TxAhead(s)' >= Pending'
    <3> SUFFICES ASSUME NEW s \in TxSlot PROVE txDesc[s].done <=> TxAhead(s) >= Pending + 1
      BY <2>1, <2>2, <2>4
    <3>1. TxAhead(s) = Pending <=> s = TDT
      BY <2>2, TxNumbers
    <3>2. txDesc[s].done <=> TxAhead(s) >= Pending /\ s # TDT
      BY <1>0, <2>1, <2>2 DEF Written
    <3>3. TxAhead(s) \in Nat
      BY TxNumbers
    <3> QED BY <1>4, <3>1, <3>2, <3>3
  <2>6. Pending' \in 0 .. TX /\ Pending' >= 1
    BY <1>4, <2>2, TxNumbers
  <2>7. pc'[t] \notin Written /\ pc'[t] # "tail"
    BY <2>1 DEF Written, Sending
  <2> QED BY <1>1, <1>2, <2>1, <2>2, <2>3, <2>5, <2>6, <2>7
<1> QED BY <1>5, <1>6, <1>7, <1>8, <1>9, <1>10, <1>11

(* The card takes the next packet, and has sent it.                        *)
LEMMA TxDrains ==
    ASSUME TypeOK, TxRing, Card
    PROVE  TxRing' /\ (CardSent => /\ Pending' = Pending - 1 /\ Pending >= 1
                                  /\ \A s \in TxSlot : TxAhead(s)' = IF s = TDH THEN TX - 1 ELSE TxAhead(s) - 1)
<1> TxTypes
  BY TypeParts
<1>0. /\ Pending \in 0 .. TX /\ TX \in Nat \ {0} /\ TxSlot = 0 .. TX - 1 /\ TDH \in TxSlot
      /\ TDH \in 0 .. TX - 1
  BY TxNumbers
<1>1. CASE CardFetch
  <2>1. /\ TDH # TDT /\ ~busy
        /\ UNCHANGED <<txDesc, txWrite, TDH, TDT, posted, wire, slot, pc>>
    BY <1>1 DEF CardFetch, local
  <2>2. Pending >= 1
    BY <1>0, <2>1, TxNumbers
  <2>3. Pending' = Pending /\ \A s : TxAhead(s)' = TxAhead(s)
    BY <2>1 DEF Pending, TxAhead
  <2>4. ~CardSent
    BY <2>1 DEF CardSent
  <2> QED BY <2>1, <2>2, <2>3, <2>4 DEF TxRing
<1>2. CASE CardSent
  <2>1. /\ busy /\ ~busy' /\ wire' = Append(wire, Packet(txDesc[TDH]))
        /\ txDesc' = [txDesc EXCEPT ![TDH].done = TRUE]
        /\ TDH' = Plus(TX, TDH, 1)
        /\ UNCHANGED <<txWrite, TDT, posted, slot, pc>>
    BY <1>2 DEF CardSent, local, Plus
  <2>2. Pending >= 1
    BY <2>1 DEF TxRing
  <2>3. Pending' = Pending - 1
    <3>1. Packet(txDesc[TDH]) \in Content
      BY TypeParts, <1>0 DEF Packet, HeapTypes, TxTypes, Content
    <3>2. Len(wire') = Len(wire) + 1
      BY <2>1, <3>1 DEF TxTypes
    <3> QED BY <2>1, <3>2, TxNumbers DEF Pending
  <2>4. \A s \in TxSlot : TxAhead(s)' = IF s = TDH THEN TX - 1 ELSE TxAhead(s) - 1
    BY <1>0, <2>1, GapMoves DEF TxAhead
  <2>5. TDT' = Plus(TX, TDH', Pending')
    <3>1. TDT = Plus(TX, TDH, Pending)
      BY DEF TxRing
    <3>2. Plus(TX, Plus(TX, TDH, 1), Pending - 1) = Plus(TX, TDH, Pending)
      BY <1>0, <2>2, Walks
    <3> QED BY <2>1, <2>3, <3>1, <3>2
  <2>6. \A t \in Thread : pc[t] \in Written => slot[t] # TDH
    <3> SUFFICES ASSUME NEW t \in Thread, pc[t] \in Written PROVE slot[t] # TDH
      OBVIOUS
    <3>1. slot[t] = TDT /\ Pending < TX
      BY DEF TxRing, Written, Sending
    <3> QED BY <1>0, <2>2, <3>1, TxNumbers
  <2>7. \A s \in TxSlot : txDesc'[s].done <=> s = TDH \/ txDesc[s].done
    BY <2>1 DEF TxTypes
  <2>8. \A s \in TxSlot :
            txDesc'[s].done <=> TxAhead(s)' >= Pending' /\ \A t \in Thread : pc'[t] \in Written => slot'[t] # s
    <3> SUFFICES ASSUME NEW s \in TxSlot
                 PROVE  txDesc'[s].done <=> TxAhead(s)' >= Pending - 1 /\ \A t \in Thread : pc[t] \in Written => slot[t] # s
      BY <2>1, <2>3
    <3>1. CASE s = TDH
      BY <1>0, <2>4, <2>6, <2>7, <3>1
    <3>2. CASE s # TDH
      <4>1. TxAhead(s)' = TxAhead(s) - 1 /\ TxAhead(s) \in Nat
        BY <2>4, <3>2, TxNumbers
      <4>2. txDesc[s].done <=> TxAhead(s) >= Pending /\ \A t \in Thread : pc[t] \in Written => slot[t] # s
        BY DEF TxRing
      <4>3. TxAhead(s)' >= Pending - 1 <=> TxAhead(s) >= Pending
        BY <1>0, <4>1
      <4> QED BY <2>7, <3>2, <4>2, <4>3
    <3> QED BY <3>1, <3>2
  <2>9. Pending' \in 0 .. TX
    BY <1>0, <2>2, <2>3
  <2>10. \A t \in Thread : /\ pc'[t] \in Sending => slot'[t] = TDT'
                           /\ pc'[t] \in Sending \ {"test"} => Pending' < TX
    <3> SUFFICES ASSUME NEW t \in Thread
                 PROVE  /\ pc[t] \in Sending => slot[t] = TDT
                        /\ pc[t] \in Sending \ {"test"} => Pending - 1 < TX
      BY <2>1, <2>3
    <3> QED BY <1>0 DEF TxRing
  <2>11. txWrite' = IF \E t \in Thread : pc'[t] = "tail" THEN Plus(TX, TDT', 1) ELSE TDT'
    BY <2>1 DEF TxRing
  <2> QED BY <2>1, <2>2, <2>3, <2>4, <2>5, <2>8, <2>9, <2>10, <2>11 DEF TxRing
<1> QED BY <1>1, <1>2 DEF Card

(* While nothing overlapped, nobody else is in eth_intel_send.             *)
LEMMA SendsAlone ==
    ASSUME TypeOK, Apart, ~raced', NEW t \in Thread,
           Begin(t) \/ Wait(t) \/ FreeSent(t) \/ Write(t) \/ Store(t) \/ AdvanceTx(t) \/ WriteTail(t)
    PROVE  \A u \in Thread \ {t} : pc[u] \notin Sending
<1> USE DEF At
<1>1. CASE t = "task"
  <2>1. pc["irq"] \in {"idle", "print", "skip"}
    BY <1>1 DEF Begin, Wait, FreeSent, Write, Store, AdvanceTx, WriteTail
  <2> QED BY <1>1, <2>1 DEF Thread, Sending
<1>2. CASE t = "irq"
  <2>1. CASE Begin("irq")
    BY <1>2, <2>1, Unraced DEF Begin, Thread
  <2>2. CASE ~Begin("irq")
    <3>1. pc["irq"] \in Sending
      BY <1>2, <2>2 DEF Wait, FreeSent, Write, Store, AdvanceTx, WriteTail, Sending
    <3> QED BY <1>2, <3>1 DEF Apart, Thread
  <2> QED BY <2>1, <2>2
<1> QED BY <1>1, <1>2 DEF Thread

(* While nothing overlapped, every step keeps the transmit ring.           *)
LEMMA TxRingStep ==
    ASSUME TypeOK, Apart, TxRing, Act, ~raced'
    PROVE  TxRing'
<1> pc \in [Thread -> Labels] /\ "task" \in Thread /\ "irq" \in Thread
  BY TypeParts, Places DEF ThreadTypes
<1> USE DEF At, Goto
<1>1. ASSUME NEW t \in Thread,
             Begin(t) \/ Wait(t) \/ FreeSent(t) \/ Write(t) \/ Store(t) \/ AdvanceTx(t) \/ WriteTail(t)
      PROVE  TxRing'
  <2>1. \A u \in Thread \ {t} : pc[u] \notin Sending
    BY <1>1, SendsAlone
  <2> QED BY <1>1, <2>1, TxSends
<1>2. ASSUME NEW t \in Thread, AllocFresh(t) \/ AllocListed(t) \/ Unlink(t) \/ Fill(t)
      PROVE  TxRing'
  <2>1. UNCHANGED <<txDesc, txWrite, TDH, TDT, busy, posted, wire, slot>>
    BY <1>2 DEF AllocFresh, AllocListed, Unlink, Fill, tx, local
  <2>2. pc[t] \notin Sending /\ pc'[t] \notin Sending /\ \A u \in Thread \ {t} : pc'[u] = pc[u]
    BY <1>2 DEF AllocFresh, AllocListed, Unlink, Fill, Sending
  <2> QED BY <2>1, <2>2, TxRests
<1>3. CASE Send
  <2>1. /\ UNCHANGED <<txDesc, txWrite, TDH, TDT, busy, posted, wire, slot>>
        /\ pc["task"] \notin Sending /\ pc'["task"] \notin Sending /\ pc'["irq"] = pc["irq"]
    BY <1>3 DEF Send, tx, local, Sending
  <2> QED BY <2>1, TxRests DEF Thread
<1>4. ASSUME Handler, ~Step("irq") PROVE TxRing'
  <2>1. /\ UNCHANGED <<txDesc, txWrite, TDH, TDT, busy, posted, wire, slot>>
        /\ pc'["task"] = pc["task"] /\ pc["irq"] \notin Sending
    BY <1>4 DEF Handler, Interrupt, PollEnd, PollBad, PollFrame, Printed, Skip, Swap, tx, local, Sending
  <2>2. pc'["irq"] \notin Sending
    BY <1>4 DEF Handler, Interrupt, PollEnd, PollBad, PollFrame, Printed, Skip, Swap, Sending
  <2> QED BY <2>1, <2>2, TxRests DEF Thread
<1>5. CASE Card
  BY <1>5, TxDrains
<1>6. ASSUME NEW bad, CardReceive(bad) PROVE TxRing'
  <2>1. UNCHANGED <<txDesc, txWrite, TDH, TDT, busy, posted, wire, slot, pc>>
    BY <1>6 DEF CardReceive, tx, local
  <2> QED BY <2>1, TxRests
<1> QED BY <1>1, <1>2, <1>3, <1>4, <1>5, <1>6 DEF Act, Task, Handler, Step

-----------------------------------------------------------------------------
(* Packets sent.                                                           *)

\* A thread that keeps a packet it has built.
Keeping == {"begin"} \cup Sending

(* A packet that was built or posted is in no block of another owner.      *)
LEMMA TxOwned ==
    ASSUME TypeOK, HasBlock, Apart, TxRing, TxHeld, Alone,
           NEW b \in Block, NEW x \in Owners(b), \A s \in TxSlot : x # <<"tx", s>>
    PROVE  /\ \A t \in Thread : pc[t] \in Keeping /\ x # <<t, 0>> => buf[t] # b
           /\ \A s \in TxSlot : TxAhead(s) < Pending => txBufs[s] # b
<1> TxTypes /\ ThreadTypes
  BY TypeParts
<1>1. \A y \in Owners(b) : y = x
  BY DEF Alone
<1>2. \A s \in TxSlot : (\A t \in Thread : pc[t] \in {"write", "store"} => slot[t] # s) => txBufs[s] # b
  <2> SUFFICES ASSUME NEW s \in TxSlot, txBufs[s] = b,
                      \A t \in Thread : pc[t] \in {"write", "store"} => slot[t] # s
               PROVE  FALSE
    OBVIOUS
  <2>1. <<"tx", s>> \in Owners(b)
    BY DEF Owners
  <2> QED BY <1>1, <2>1
<1>3. \A t \in Thread : pc[t] \in {"begin", "test", "free", "write", "store"} /\ x # <<t, 0>> => buf[t] # b
  <2> SUFFICES ASSUME NEW t \in Thread, pc[t] \in {"begin", "test", "free", "write", "store"}, buf[t] = b
               PROVE  x = <<t, 0>>
    OBVIOUS
  <2>1. <<t, 0>> \in Owners(b)
    BY DEF Owners
  <2> QED BY <1>1, <2>1
<1>4. \A t \in Thread : pc[t] \in {"advance", "tail"} => buf[t] # b
  <2> SUFFICES ASSUME NEW t \in Thread, pc[t] \in {"advance", "tail"} PROVE buf[t] # b
    OBVIOUS
  <2>1. txBufs[slot[t]] = buf[t] /\ slot[t] \in TxSlot
    BY DEF TxHeld, ThreadTypes
  <2>2. \A u \in Thread : pc[u] \notin {"write", "store"}
    BY DEF Apart, Thread, Sending
  <2> QED BY <1>2, <2>1, <2>2
<1>5. \A s \in TxSlot : TxAhead(s) < Pending => txBufs[s] # b
  <2> SUFFICES ASSUME NEW s \in TxSlot, TxAhead(s) < Pending PROVE txBufs[s] # b
    OBVIOUS
  <2>1. \A t \in Thread : pc[t] \in {"write", "store"} => slot[t] # s
    <3> SUFFICES ASSUME NEW t \in Thread, pc[t] \in {"write", "store"} PROVE slot[t] # s
      OBVIOUS
    <3>1. slot[t] = TDT /\ Pending < TX
      BY DEF TxRing, Sending
    <3>2. TxAhead(s) # Pending
      BY TxNumbers
    <3> QED BY <3>1, <3>2, TxNumbers
  <2> QED BY <1>2, <2>1
<1> QED BY <1>3, <1>4, <1>5 DEF Keeping, Sending

(* A step that leaves the packets where they are, or builds one.           *)
LEMMA HeldRests ==
    ASSUME TxHeld, UNCHANGED <<txDesc, txBufs, TDH, posted, wire>>,
           \A t \in Thread :
               /\ pc'[t] \in Keeping =>
                      \/ mem'[buf'[t]] = <<t, Built(t)>>
                      \/ pc[t] \in Keeping /\ mem'[buf'[t]] = mem[buf[t]]
               /\ pc'[t] \in Written => pc[t] \in Written /\ slot'[t] = slot[t] /\ buf'[t] = buf[t]
               /\ pc'[t] \in {"advance", "tail"} => pc[t] \in {"advance", "tail"},
           \A s \in TxSlot : TxAhead(s) < Pending => mem'[txBufs[s]] = mem[txBufs[s]]
    PROVE  TxHeld'
<1>1. \A t \in Thread : Built(t)' = Built(t)
  BY DEF Built
<1>2. Pending' = Pending /\ \A s \in TxSlot : TxAhead(s)' = TxAhead(s)
  BY DEF Pending, TxAhead
<1>3. \A t \in Thread : pc'[t] \in Keeping => mem'[buf'[t]] = <<t, Built(t)>>
  BY DEF TxHeld, Keeping
<1>4. \A t \in Thread : /\ pc'[t] \in Written => txDesc[slot'[t]].addr = buf'[t]
                        /\ pc'[t] \in {"advance", "tail"} => txBufs[slot'[t]] = buf'[t]
  BY DEF TxHeld, Written
<1>5. \A s \in TxSlot : TxAhead(s) < Pending =>
           /\ txDesc[s].addr \in Block /\ txBufs[s] = txDesc[s].addr
           /\ mem'[txBufs[s]] = posted[Len(wire) + TxAhead(s) + 1]
  BY DEF TxHeld
<1> QED BY <1>1, <1>2, <1>3, <1>4, <1>5 DEF TxHeld, Keeping

(* A prefix, element by element.                                           *)
LEMMA PrefixElements ==
    ASSUME NEW x \in Seq(Content), NEW y \in Seq(Content)
    PROVE  IsPrefix(x, y) <=> Len(x) <= Len(y) /\ \A k \in 1 .. Len(x) : x[k] = y[k]
<1>1. Len(x) \in Nat /\ Len(y) \in Nat
  OBVIOUS
<1>2. SubSeq(x, 1, Len(x)) = x
  OBVIOUS
<1>3. ASSUME Len(x) <= Len(y)
      PROVE  /\ SubSeq(y, 1, Len(x)) \in Seq(Content) /\ Len(SubSeq(y, 1, Len(x))) = Len(x)
             /\ \A k \in 1 .. Len(x) : SubSeq(y, 1, Len(x))[k] = y[k]
  BY <1>1, <1>3
<1>4. ASSUME Len(x) <= Len(y), \A k \in 1 .. Len(x) : x[k] = y[k]
      PROVE  x = SubSeq(y, 1, Len(x))
  BY <1>1, <1>3, <1>4, SeqEqual
<1>5. IsPrefix(x, y) <=> Len(x) <= Len(y) /\ x = SubSeq(y, 1, Len(x))
  BY <1>2 DEF IsPrefix
<1>6. ASSUME Len(x) <= Len(y), x = SubSeq(y, 1, Len(x))
      PROVE  \A k \in 1 .. Len(x) : x[k] = y[k]
  BY <1>3, <1>6
<1> QED BY <1>4, <1>5, <1>6

(* A packet leaves the card: the next one that was posted.                 *)
LEMMA HeldDrains ==
    ASSUME TypeOK, TxRing, TxHeld, CardSent
    PROVE  TxHeld' /\ wire' = Append(wire, posted[Len(wire) + 1]) /\ Len(wire) < Len(posted)
<1> TxTypes /\ HeapTypes
  BY TypeParts
<1>1. /\ Pending' = Pending - 1 /\ Pending >= 1
      /\ \A s \in TxSlot : TxAhead(s)' = IF s = TDH THEN TX - 1 ELSE TxAhead(s) - 1
  BY TxDrains DEF Card
<1>2. /\ wire' = Append(wire, Packet(txDesc[TDH])) /\ txDesc' = [txDesc EXCEPT ![TDH].done = TRUE]
      /\ UNCHANGED <<mem, txBufs, posted, buf, slot, pc>>
  BY DEF CardSent, heap, local
<1>3. /\ Pending \in 0 .. TX /\ Len(wire) \in Nat /\ Len(posted) \in Nat /\ TDH \in TxSlot
      /\ TX \in Nat \ {0} /\ \A s \in TxSlot : TxAhead(s) \in 0 .. TX - 1
      /\ TxAhead(TDH) = 0
  BY TxNumbers
<1>4. \A s \in TxSlot : txDesc'[s].addr = txDesc[s].addr
  BY <1>2 DEF TxTypes
<1>5. Packet(txDesc[TDH]) = posted[Len(wire) + 1] /\ Len(wire) < Len(posted)
  <2>1. txDesc[TDH].addr \in Block /\ mem[txDesc[TDH].addr] = posted[Len(wire) + 0 + 1]
    BY <1>1, <1>3 DEF TxHeld
  <2>2. txDesc[TDH].addr # None
    BY <2>1, Places
  <2>3. Len(wire) + 0 + 1 = Len(wire) + 1 /\ Len(wire) < Len(posted)
    BY <1>1, <1>3 DEF Pending
  <2> QED BY <2>1, <2>2, <2>3 DEF Packet
<1>6. Len(wire') = Len(wire) + 1
  <2>1. Packet(txDesc[TDH]) \in Content
    BY <1>3 DEF Packet, HeapTypes, TxTypes, Content
  <2> QED BY <1>2, <2>1 DEF TxTypes
<1>7. \A t \in Thread : Built(t)' = Built(t)
  BY <1>2 DEF Built
<1>8. \A s \in TxSlot : TxAhead(s)' < Pending' =>
           /\ txDesc'[s].addr \in Block /\ txBufs'[s] = txDesc'[s].addr
           /\ mem'[txBufs'[s]] = posted'[Len(wire') + TxAhead(s)' + 1]
  <2> SUFFICES ASSUME NEW s \in TxSlot, TxAhead(s)' < Pending'
               PROVE  /\ txDesc[s].addr \in Block /\ txBufs[s] = txDesc[s].addr
                      /\ mem[txBufs[s]] = posted[Len(wire') + TxAhead(s)' + 1]
    BY <1>2, <1>4
  <2>1. TxAhead(s)' = TxAhead(s) - 1
    BY <1>1, <1>3
  <2>2. TxAhead(s) < Pending /\ Len(wire') + TxAhead(s)' + 1 = Len(wire) + TxAhead(s) + 1
    BY <1>1, <1>3, <1>6, <2>1
  <2> QED BY <2>2 DEF TxHeld
<1>9. \A t \in Thread :
           /\ pc'[t] \in {"begin"} \cup Sending => mem'[buf'[t]] = <<t, Built(t)'>>
           /\ pc'[t] \in Written => txDesc'[slot'[t]].addr = buf'[t]
           /\ pc'[t] \in {"advance", "tail"} => txBufs'[slot'[t]] = buf'[t]
  <2>1. \A t \in Thread : slot[t] \in TxSlot
    BY TypeParts DEF ThreadTypes
  <2> QED BY <1>2, <1>4, <1>7, <2>1 DEF TxHeld
<1> QED BY <1>2, <1>5, <1>8, <1>9 DEF TxHeld

(* The tail is written: what the thread built is posted.                   *)
LEMMA HeldPosts ==
    ASSUME TypeOK, RingsAgree, InHand, Counted, HasBlock, TxRing, TxHeld, NEW t \in Thread, WriteTail(t),
           \A u \in Thread \ {t} : pc[u] \notin Sending
    PROVE  TxHeld' /\ <<t, Built(t)>> \in Content /\ posted' = Append(posted, <<t, Built(t)>>) /\ wire' = wire
<1> TxTypes /\ ThreadTypes
  BY TypeParts
<1>1. /\ pc[t] = "tail" /\ pc'[t] \in {"swap", "idle"} /\ \A u \in Thread \ {t} : pc'[u] = pc[u]
      /\ posted' = Append(posted, <<t, Built(t)>>)
      /\ UNCHANGED <<mem, txDesc, txBufs, TDH, wire, buf, slot>>
  BY DEF WriteTail, At, Goto, heap, local, ThreadTypes
<1>2. <<t, Built(t)>> \in Content /\ buf[t] \in Block
  BY <1>1, Contents DEF Building, Sending, HasBlock
<1>3. \A u \in Thread \ {t} : Built(u)' = Built(u)
  BY <1>1, <1>2, BuiltPosted DEF TxTypes
<1>4. /\ Pending \in 0 .. TX /\ Len(wire) \in Nat /\ Len(posted) \in Nat /\ TX \in Nat \ {0}
      /\ \A s \in TxSlot : TxAhead(s) \in 0 .. TX - 1
      /\ slot[t] = TDT /\ Pending < TX /\ \A s \in TxSlot : TxAhead(s) = Pending <=> s = TDT
  BY <1>1, TxNumbers DEF TxRing, Sending
<1>5. /\ Len(posted') = Len(posted) + 1 /\ posted'[Len(posted) + 1] = <<t, Built(t)>>
      /\ \A k \in 1 .. Len(posted) : posted'[k] = posted[k]
  BY <1>1, <1>2 DEF TxTypes
<1>6. Pending' = Pending + 1 /\ \A s \in TxSlot : TxAhead(s)' = TxAhead(s)
  BY <1>1, <1>4, <1>5 DEF Pending, TxAhead
<1>7. \A s \in TxSlot : TxAhead(s)' < Pending' =>
           /\ txDesc'[s].addr \in Block /\ txBufs'[s] = txDesc'[s].addr
           /\ mem'[txBufs'[s]] = posted'[Len(wire') + TxAhead(s)' + 1]
  <2> SUFFICES ASSUME NEW s \in TxSlot, TxAhead(s) < Pending + 1
               PROVE  /\ txDesc[s].addr \in Block /\ txBufs[s] = txDesc[s].addr
                      /\ mem[txBufs[s]] = posted'[Len(wire) + TxAhead(s) + 1]
    BY <1>1, <1>6
  <2>1. CASE TxAhead(s) = Pending
    <3>1. s = slot[t]
      BY <1>4, <2>1
    <3>2. txDesc[s].addr = buf[t] /\ txBufs[s] = buf[t] /\ mem[buf[t]] = <<t, Built(t)>>
      BY <1>1, <3>1 DEF TxHeld, Written, Sending
    <3>3. Len(wire) + TxAhead(s) + 1 = Len(posted) + 1
      BY <1>4, <2>1 DEF Pending
    <3> QED BY <1>2, <1>5, <3>2, <3>3
  <2>2. CASE TxAhead(s) # Pending
    <3>1. TxAhead(s) < Pending /\ Len(wire) + TxAhead(s) + 1 \in 1 .. Len(posted)
      BY <1>4, <2>2 DEF Pending
    <3> QED BY <1>5, <3>1 DEF TxHeld
  <2> QED BY <2>1, <2>2
<1>8. \A u \in Thread :
           /\ pc'[u] \in {"begin"} \cup Sending => mem'[buf'[u]] = <<u, Built(u)'>>
           /\ pc'[u] \in Written => txDesc'[slot'[u]].addr = buf'[u]
           /\ pc'[u] \in {"advance", "tail"} => txBufs'[slot'[u]] = buf'[u]
  BY <1>1, <1>3 DEF TxHeld, Written, Sending
<1> QED BY <1>1, <1>2, <1>7, <1>8 DEF TxHeld

(* The packet's descriptor or its place among the sent ones is written.    *)
LEMMA HeldWrites ==
    ASSUME TypeOK, HasBlock, TxRing, TxHeld, NEW t \in Thread, Write(t) \/ Store(t),
           \A u \in Thread \ {t} : pc[u] \notin Sending
    PROVE  TxHeld' /\ posted' = posted /\ wire' = wire
<1> TxTypes /\ ThreadTypes
  BY TypeParts
<1>1. /\ pc[t] \in {"write", "store"} /\ \A u \in Thread \ {t} : pc'[u] = pc[u]
      /\ UNCHANGED <<mem, TDH, posted, wire, buf, slot>>
      /\ Write(t) => /\ pc[t] = "write" /\ pc'[t] = "store" /\ txBufs' = txBufs
                     /\ txDesc' = [txDesc EXCEPT ![slot[t]] = [addr |-> buf[t], done |-> FALSE]]
      /\ Store(t) => /\ pc[t] = "store" /\ pc'[t] = "advance" /\ txDesc' = txDesc
                     /\ txBufs' = [txBufs EXCEPT ![txWrite] = buf[t]]
  BY DEF Write, Store, At, Goto, heap, local, ThreadTypes
<1>2. slot[t] = TDT /\ Pending < TX /\ txWrite = TDT /\ buf[t] \in Block /\ slot[t] \in TxSlot
  <2>1. \A u \in Thread : pc[u] # "tail"
    BY <1>1 DEF Sending
  <2> QED BY <1>1, <2>1 DEF TxRing, Sending, HasBlock, Building, ThreadTypes
<1>3. \A s \in TxSlot : TxAhead(s) = Pending <=> s = TDT
  BY <1>2, TxNumbers
<1>4. Pending' = Pending /\ \A s \in TxSlot : TxAhead(s)' = TxAhead(s)
  BY <1>1 DEF Pending, TxAhead
<1>5. \A u \in Thread : Built(u)' = Built(u)
  BY <1>1 DEF Built
<1>6. \A s \in TxSlot \ {TDT} : txDesc'[s] = txDesc[s] /\ txBufs'[s] = txBufs[s]
  BY <1>1, <1>2 DEF TxTypes
<1>7. /\ pc'[t] \in Written => txDesc'[slot[t]].addr = buf[t]
      /\ pc'[t] \in {"advance", "tail"} => txBufs'[slot[t]] = buf[t]
  <2>1. CASE Write(t)
    BY <1>1, <1>2, <2>1 DEF TxTypes
  <2>2. CASE Store(t)
    BY <1>1, <1>2, <2>2 DEF TxTypes, TxHeld, Written
  <2> QED BY <2>1, <2>2
<1>8. \A s \in TxSlot : TxAhead(s)' < Pending' =>
           /\ txDesc'[s].addr \in Block /\ txBufs'[s] = txDesc'[s].addr
           /\ mem'[txBufs'[s]] = posted'[Len(wire') + TxAhead(s)' + 1]
  <2> SUFFICES ASSUME NEW s \in TxSlot, TxAhead(s) < Pending
               PROVE  /\ txDesc'[s].addr \in Block /\ txBufs'[s] = txDesc'[s].addr
                      /\ mem[txBufs'[s]] = posted[Len(wire) + TxAhead(s) + 1]
    BY <1>1, <1>4
  <2>1. s # TDT
    BY <1>3, TxNumbers
  <2> QED BY <1>6, <2>1 DEF TxHeld
<1>9. \A u \in Thread :
           /\ pc'[u] \in {"begin"} \cup Sending => mem'[buf'[u]] = <<u, Built(u)'>>
           /\ pc'[u] \in Written => txDesc'[slot'[u]].addr = buf'[u]
           /\ pc'[u] \in {"advance", "tail"} => txBufs'[slot'[u]] = buf'[u]
  BY <1>1, <1>5, <1>7 DEF TxHeld, Written, Sending
<1> QED BY <1>1, <1>8, <1>9 DEF TxHeld

(* While every buffer has one owner and nothing overlapped, every step     *)
(* keeps the packets that wait, and what leaves is what was posted.        *)
LEMMA TxStep ==
    ASSUME TypeOK, RingsAgree, InHand, Counted, HasBlock, Apart, TxRing, TxHeld, Alone,
           IsPrefix(wire, posted), Act, ~raced'
    PROVE  TxHeld' /\ IsPrefix(wire', posted')
<1> /\ HeapTypes /\ RxTypes /\ TxTypes /\ ThreadTypes
    /\ "task" \in Thread /\ "irq" \in Thread
  BY TypeParts, Places
<1>0. ASSUME UNCHANGED <<wire, posted>> PROVE IsPrefix(wire', posted')
  BY <1>0
<1>m. ASSUME NEW b \in Block, NEW x \in Owners(b), \A s \in TxSlot : x # <<"tx", s>>, NEW new,
             mem' = [mem EXCEPT ![b] = new]
      PROVE  /\ \A t \in Thread : pc[t] \in Keeping /\ x # <<t, 0>> => mem'[buf[t]] = mem[buf[t]]
             /\ \A s \in TxSlot : TxAhead(s) < Pending => mem'[txBufs[s]] = mem[txBufs[s]]
  <2>1. /\ \A t \in Thread : pc[t] \in Keeping /\ x # <<t, 0>> => buf[t] # b
        /\ \A s \in TxSlot : TxAhead(s) < Pending => txBufs[s] # b
    BY <1>m, TxOwned
  <2>2. /\ \A t \in Thread : pc[t] \in Keeping => buf[t] \in Block
        /\ \A s \in TxSlot : TxAhead(s) < Pending => txBufs[s] \in Block
    BY DEF HasBlock, Keeping, Building, TxHeld
  <2> QED BY <1>m, <2>1, <2>2 DEF HeapTypes
<1> USE DEF At, Goto
<1>1. ASSUME NEW t \in Thread, Fill(t) PROVE TxHeld' /\ IsPrefix(wire', posted')
  <2>1. /\ pc[t] = "fill" /\ pc'[t] = "begin" /\ \A u \in Thread \ {t} : pc'[u] = pc[u]
        /\ mem' = [mem EXCEPT ![buf[t]] = <<t, Built(t)>>]
        /\ UNCHANGED <<txDesc, txBufs, TDH, posted, wire, buf, slot>>
    BY <1>1 DEF Fill, tx, local, ThreadTypes
  <2>2. buf[t] \in Block /\ <<t, 0>> \in Owners(buf[t]) /\ \A s \in TxSlot : <<t, 0>> # <<"tx", s>>
    BY <2>1 DEF HasBlock, Building, Allocating, Owners, Thread
  <2>3. /\ \A u \in Thread : pc[u] \in Keeping /\ <<t, 0>> # <<u, 0>> => mem'[buf[u]] = mem[buf[u]]
        /\ \A s \in TxSlot : TxAhead(s) < Pending => mem'[txBufs[s]] = mem[txBufs[s]]
    BY <1>m, <2>1, <2>2
  <2>4. mem'[buf[t]] = <<t, Built(t)>>
    BY <2>1, <2>2 DEF HeapTypes
  <2>5. \A u \in Thread :
            /\ pc'[u] \in Keeping =>
                   \/ mem'[buf'[u]] = <<u, Built(u)>>
                   \/ pc[u] \in Keeping /\ mem'[buf'[u]] = mem[buf[u]]
            /\ pc'[u] \in Written => pc[u] \in Written /\ slot'[u] = slot[u] /\ buf'[u] = buf[u]
            /\ pc'[u] \in {"advance", "tail"} => pc[u] \in {"advance", "tail"}
    BY <2>1, <2>3, <2>4 DEF Written
  <2> QED BY <1>0, <2>1, <2>3, <2>5, HeldRests
<1>2. ASSUME NEW t \in Thread, AllocFresh(t) \/ AllocListed(t) \/ Unlink(t)
      PROVE  TxHeld' /\ IsPrefix(wire', posted')
  <2>1. /\ pc'[t] \notin Keeping /\ \A u \in Thread \ {t} : pc'[u] = pc[u] /\ buf'[u] = buf[u]
        /\ UNCHANGED <<mem, txDesc, txBufs, TDH, posted, wire, slot>>
    BY <1>2 DEF AllocFresh, AllocListed, Unlink, heap, tx, local, ThreadTypes, Keeping, Sending
  <2>2. pc'[t] \notin Written /\ pc'[t] \notin {"advance", "tail"}
    BY <2>1 DEF Keeping, Sending, Written
  <2> QED BY <1>0, <2>1, <2>2, HeldRests
<1>3. ASSUME NEW t \in Thread, Begin(t) \/ Wait(t) \/ FreeSent(t)
      PROVE  TxHeld' /\ IsPrefix(wire', posted')
  <2>1. /\ pc[t] \in Keeping /\ pc'[t] \in {"test", "free", "write"}
        /\ \A u \in Thread \ {t} : pc'[u] = pc[u] /\ slot'[u] = slot[u]
        /\ UNCHANGED <<mem, txDesc, txBufs, TDH, posted, wire, buf>>
    BY <1>3 DEF Begin, Wait, FreeSent, heap, tx, local, ThreadTypes, Keeping, Sending
  <2>2. pc'[t] \notin Written /\ pc'[t] \notin {"advance", "tail"}
    BY <2>1 DEF Written
  <2> QED BY <1>0, <2>1, <2>2, HeldRests
<1>4. ASSUME NEW t \in Thread, AdvanceTx(t) PROVE TxHeld' /\ IsPrefix(wire', posted')
  <2>1. /\ pc[t] = "advance" /\ pc'[t] = "tail" /\ \A u \in Thread \ {t} : pc'[u] = pc[u]
        /\ UNCHANGED <<mem, txDesc, txBufs, TDH, posted, wire, buf, slot>>
    BY <1>4 DEF AdvanceTx, heap, local, ThreadTypes
  <2>2. pc[t] \in Keeping /\ pc[t] \in Written
    BY <2>1 DEF Keeping, Sending, Written
  <2> QED BY <1>0, <2>1, <2>2, HeldRests
<1>5. ASSUME NEW t \in Thread, Write(t) \/ Store(t) PROVE TxHeld' /\ IsPrefix(wire', posted')
  <2>1. \A u \in Thread \ {t} : pc[u] \notin Sending
    BY <1>5, SendsAlone
  <2> QED BY <1>0, <1>5, <2>1, HeldWrites
<1>6. ASSUME NEW t \in Thread, WriteTail(t) PROVE TxHeld' /\ IsPrefix(wire', posted')
  <2>1. \A u \in Thread \ {t} : pc[u] \notin Sending
    BY <1>6, SendsAlone
  <2>2. TxHeld' /\ <<t, Built(t)>> \in Content /\ posted' = Append(posted, <<t, Built(t)>>) /\ wire' = wire
    BY <1>6, <2>1, HeldPosts
  <2>3. /\ posted \in Seq(Content) /\ posted' \in Seq(Content) /\ wire \in Seq(Content)
        /\ Len(posted') = Len(posted) + 1 /\ \A k \in 1 .. Len(posted) : posted'[k] = posted[k]
    BY <2>2 DEF TxTypes
  <2>4. Len(wire) <= Len(posted) /\ \A k \in 1 .. Len(wire) : wire[k] = posted[k]
    BY <2>3, PrefixElements
  <2>5. Len(wire) <= Len(posted') /\ \A k \in 1 .. Len(wire) : wire[k] = posted'[k]
    BY <2>3, <2>4
  <2>6. IsPrefix(wire, posted')
    BY <2>3, <2>5, PrefixElements
  <2> QED BY <2>2, <2>6
<1>7. CASE Send
  <2>1. /\ pc'["task"] = "alloc" /\ pc'["irq"] = pc["irq"]
        /\ UNCHANGED <<mem, txDesc, txBufs, TDH, posted, wire, buf, slot>>
    BY <1>7 DEF Send, heap, tx, local, ThreadTypes
  <2>2. pc'["task"] \notin Keeping /\ pc'["task"] \notin Written
    BY <2>1 DEF Keeping, Sending, Written
  <2> QED BY <1>0, <2>1, <2>2, HeldRests DEF Thread
<1>8. ASSUME Handler, ~Step("irq") PROVE TxHeld' /\ IsPrefix(wire', posted')
  <2>1. /\ pc'["task"] = pc["task"]
        /\ UNCHANGED <<mem, txDesc, txBufs, TDH, posted, wire, buf, slot>>
    <3>1. CASE Interrupt \/ PollEnd \/ PollBad \/ Printed \/ Skip
      BY <3>1 DEF Interrupt, PollEnd, PollBad, Printed, Skip, heap, tx, local, ThreadTypes
    <3>2. CASE Swap
      BY <3>2 DEF Swap, tx, local
    <3>3. ASSUME NEW l \in Labels, PollFrame(l)
          PROVE  /\ pc'["task"] = pc["task"]
                 /\ UNCHANGED <<mem, txDesc, txBufs, TDH, posted, wire, buf, slot>>
      BY <3>3 DEF PollFrame, heap, tx, local
    <3> QED BY <1>8, <3>1, <3>2, <3>3 DEF Handler
  <2>2. pc'["irq"] \notin Keeping /\ pc'["irq"] \notin Written /\ pc'["irq"] \notin {"advance", "tail"}
    BY <1>8 DEF Handler, Interrupt, PollEnd, PollBad, PollFrame, Printed, Skip, Swap, ThreadTypes,
                Keeping, Sending, Written
  <2> QED BY <1>0, <2>1, <2>2, HeldRests DEF Thread
<1>9. CASE CardFetch
  <2>1. UNCHANGED <<mem, txDesc, txBufs, TDH, posted, wire, buf, slot, pc>>
    BY <1>9 DEF CardFetch, heap, local
  <2> QED BY <1>0, <2>1, HeldRests
<1>10. CASE CardSent
  <2>1. /\ TxHeld' /\ wire' = Append(wire, posted[Len(wire) + 1]) /\ Len(wire) < Len(posted)
        /\ posted' = posted
    BY <1>10, HeldDrains DEF CardSent
  <2>2. /\ wire \in Seq(Content) /\ posted \in Seq(Content) /\ Len(wire) \in Nat /\ Len(posted) \in Nat
        /\ posted[Len(wire) + 1] \in Content
    BY <2>1 DEF TxTypes
  <2>3. /\ wire' \in Seq(Content) /\ Len(wire') = Len(wire) + 1 /\ wire'[Len(wire) + 1] = posted[Len(wire) + 1]
        /\ \A k \in 1 .. Len(wire) : wire'[k] = wire[k]
    BY <2>1, <2>2
  <2>4. \A k \in 1 .. Len(wire) : wire[k] = posted[k]
    BY <2>2, PrefixElements
  <2>5. Len(wire') <= Len(posted) /\ \A k \in 1 .. Len(wire') : wire'[k] = posted[k]
    BY <2>1, <2>2, <2>3, <2>4
  <2>6. IsPrefix(wire', posted)
    BY <2>2, <2>3, <2>5, PrefixElements
  <2> QED BY <2>1, <2>6
<1>11. ASSUME NEW bad \in BOOLEAN, CardReceive(bad) PROVE TxHeld' /\ IsPrefix(wire', posted')
  <2> DEFINE b == rxDesc[RDH].addr
  <2>1. /\ mem' = [mem EXCEPT ![b] = <<"frame", accepted>>]
        /\ UNCHANGED <<txDesc, txBufs, TDH, posted, wire, buf, slot, pc>>
    BY <1>11 DEF CardReceive, tx, local
  <2>2. /\ b \in Block /\ <<"rx", RDH>> \in Owners(b) /\ \A s \in TxSlot : <<"rx", RDH>> # <<"tx", s>>
        /\ \A t \in Thread : <<"rx", RDH>> # <<t, 0>>
    BY DEF Owners, RxTypes, Thread
  <2> HIDE DEF b
  <2>3. /\ \A t \in Thread : pc[t] \in Keeping => mem'[buf[t]] = mem[buf[t]]
        /\ \A s \in TxSlot : TxAhead(s) < Pending => mem'[txBufs[s]] = mem[txBufs[s]]
    BY <1>m, <2>1, <2>2
  <2> QED BY <1>0, <2>1, <2>3, HeldRests
<1> QED BY <1>1, <1>2, <1>3, <1>4, <1>5, <1>6, <1>7, <1>8, <1>9, <1>10, <1>11
        DEF Act, Task, Handler, Card, Step

-----------------------------------------------------------------------------
(* All of it together.                                                     *)

(* It holds at first.                                                      *)
LEMMA InitIInv == Init => IInv
<1> SUFFICES ASSUME Init PROVE IInv
  OBVIOUS
<1>1. /\ RX \in Nat \ {0} /\ TX \in Nat \ {0} /\ RxSlot = 0 .. RX - 1 /\ TxSlot = 0 .. TX - 1
      /\ Blocks \in Nat /\ Blocks >= RX /\ Block = 1 .. Blocks /\ Sends \in Nat /\ Frames \in Nat
  BY Places, BlockAssumption, BoundAssumption
<1>2. TypeOK
  <2>1. HeapTypes
    BY <1>1 DEF Init, HeapTypes, Content
  <2>2. RxTypes
    <3>1. /\ rxRead = 0 /\ RDH = 0 /\ RDT = RX - 1 /\ cause = FALSE /\ accepted = 0 /\ seen = <<>>
          /\ rxDesc = [s \in RxSlot |-> [addr |-> s + 1, done |-> FALSE, errors |-> FALSE]]
          /\ rxBufs = [s \in RxSlot |-> s + 1]
      BY DEF Init
    <3>2. \A s \in RxSlot : s + 1 \in Block
      BY <1>1
    <3>3. 0 \in RxSlot /\ RX - 1 \in RxSlot /\ 0 \in 0 .. Frames
      BY <1>1
    <3>4. rxDesc \in [RxSlot -> [addr : Block, done : BOOLEAN, errors : BOOLEAN]]
      BY <3>1, <3>2
    <3>5. rxBufs \in [RxSlot -> Block] /\ seen \in Seq(Content)
      BY <3>1, <3>2
    <3> QED BY <3>1, <3>3, <3>4, <3>5 DEF RxTypes
  <2>3. TxTypes
    <3>1. /\ txWrite = 0 /\ TDH = 0 /\ TDT = 0 /\ busy = FALSE /\ posted = <<>> /\ wire = <<>>
          /\ txDesc = [s \in TxSlot |-> [addr |-> None, done |-> TRUE]]
          /\ txBufs = [s \in TxSlot |-> None]
      BY DEF Init
    <3>2. 0 \in TxSlot
      BY <1>1
    <3>3. txDesc \in [TxSlot -> [addr : Block \cup {None}, done : BOOLEAN]]
      BY <3>1
    <3>4. txBufs \in [TxSlot -> Block \cup {None}] /\ posted \in Seq(Content) /\ wire \in Seq(Content)
      BY <3>1
    <3> QED BY <3>1, <3>2, <3>3, <3>4 DEF TxTypes
  <2>4. ThreadTypes
    <3>1. /\ pc = [t \in Thread |-> "idle"] /\ raced = FALSE /\ shared = FALSE
          /\ buf = [t \in Thread |-> None] /\ old = [t \in Thread |-> None]
          /\ slot = [t \in Thread |-> 0]
      BY DEF Init
    <3>2. 0 \in TxSlot /\ "idle" \in Labels
      BY <1>1 DEF Labels
    <3> QED BY <3>1, <3>2 DEF ThreadTypes
  <2> QED BY <2>1, <2>2, <2>3, <2>4, TypeParts
<1>3. Waiting = 0 /\ Taken = 0 /\ \A s \in RxSlot : RxAhead(s) \in 0 .. RX - 1
  <2>1. RDH = rxRead
    BY DEF Init
  <2> QED BY <1>2, <2>1, TypeParts, RingNumbers DEF Taken, Init, Thread, RxTypes
<1>4. RingsAgree /\ InHand
  <2>1. \A s \in RxSlot : rxDesc[s].done <=> RxAhead(s) < Waiting
    BY <1>3 DEF Init
  <2>2. (RDT + 1) % RX = rxRead
    BY <1>1, NextPlace DEF Init
  <2>3. Waiting = accepted - Len(seen) + Taken
    <3>1. accepted = 0 /\ Len(seen) = 0
      BY DEF Init
    <3> QED BY <1>3, <3>1
  <2> QED BY <1>3, <2>1, <2>2, <2>3 DEF RingsAgree, InHand, Waiting, Taken, RxAhead, Ahead
<1>5. HasBlock /\ Counted
  <2>1. \A t \in Thread : Built(t) = 0
    <3>1. \A t \in Thread : {k \in DOMAIN posted : posted[k][1] = t} = {}
      BY DEF Init
    <3> QED BY <3>1, FS_EmptySet DEF Built
  <2> QED BY <1>1, <2>1 DEF Init, HasBlock, Counted, Building, Allocating, Sending, Thread
<1>6. RxSlots
  BY <1>1 DEF Init, RxSlots
<1>7. Exclusive
  <2> SUFFICES ASSUME NEW b \in Block PROVE Cardinality(Owners(b)) <= 1
    BY DEF Exclusive
  <2>1. \A x \in Owners(b) : x = <<"rx", b - 1>>
    <3>1. /\ \A s \in RxSlot : rxDesc[s].addr = s + 1
          /\ \A s \in TxSlot : txBufs[s] # b
          /\ DOMAIN free = {} /\ \A t \in Thread : pc[t] = "idle"
      BY <1>1 DEF Init, None
    <3>2. \A s \in RxSlot : s + 1 = b => s = b - 1
      BY <1>1
    <3> QED BY <3>1, <3>2 DEF Owners
  <2>2. Owners(b) = {} \/ Owners(b) = {<<"rx", b - 1>>}
    BY <2>1
  <2>3. CASE Owners(b) = {}
    BY <2>3, FS_EmptySet
  <2>4. CASE Owners(b) = {<<"rx", b - 1>>}
    <3>1. Cardinality({<<"rx", b - 1>>}) = 1
      BY FS_Singleton
    <3> QED BY <2>4, <3>1
  <2> QED BY <2>2, <2>3, <2>4
<1>8. RxInOrder /\ TxInOrder
  BY DEF Init, RxInOrder, TxInOrder, IsPrefix
<1>9. Apart /\ ListOwned
  BY DEF Init, Apart, ListOwned, Allocating, Sending, Thread
<1>10. Pending = 0
  BY DEF Init, Pending
<1>11. TxRing
  <2>1. TDT = Plus(TX, TDH, Pending)
    BY <1>1, <1>10 DEF Init, Plus
  <2>2. \A s \in TxSlot : TxAhead(s) \in 0 .. TX - 1
    <3>1. TDH \in 0 .. TX - 1
      BY <1>1 DEF Init
    <3> QED BY <1>1, <3>1, Gaps DEF TxAhead
  <2>3. \A t \in Thread : pc[t] = "idle"
    BY DEF Init
  <2>4. \A t \in Thread : pc[t] # "tail" /\ pc[t] \notin Sending /\ pc[t] \notin Written
    BY <2>3 DEF Sending, Written
  <2>5. txWrite = TDT /\ ~busy /\ \A s \in TxSlot : txDesc[s].done
    BY DEF Init
  <2>6. \A s \in TxSlot : TxAhead(s) >= Pending
    BY <1>10, <2>2
  <2>7. Pending \in 0 .. TX
    BY <1>1, <1>10
  <2> HIDE DEF Pending, TxAhead, Plus
  <2> QED BY <2>1, <2>4, <2>5, <2>6, <2>7 DEF TxRing
<1>12. TxHeld
  <2>1. \A s \in TxSlot : ~(TxAhead(s) < Pending)
    <3>1. TDH \in 0 .. TX - 1
      BY <1>1 DEF Init
    <3>2. \A s \in TxSlot : TxAhead(s) \in 0 .. TX - 1
      BY <1>1, <3>1, Gaps DEF TxAhead
    <3> QED BY <1>1, <1>10, <3>2
  <2> QED BY <2>1 DEF TxHeld, Init, Sending, Written
<1> QED BY <1>2, <1>4, <1>5, <1>6, <1>7, <1>8, <1>9, <1>11, <1>12 DEF IInv, RxSound, RxSlots

(* Every step keeps it.                                                    *)
LEMMA StepIInv == IInv /\ [Next]_vars => IInv'
<1>1. ASSUME IInv, Recorded(Act) PROVE IInv'
  <2>1. /\ TypeOK /\ RingsAgree /\ InHand /\ HasBlock /\ Counted /\ RxInOrder /\ TxInOrder
        /\ (~shared => Exclusive /\ RxSlots)
        /\ (~raced => Apart /\ ListOwned /\ TxRing)
        /\ (~raced /\ ~shared => TxHeld)
    BY <1>1 DEF IInv, RxSound, RxSlots
  <2>2. Act /\ shared' = (shared \/ ~Exclusive')
    BY <1>1 DEF Recorded
  <2>3. TypeOK' /\ RingsAgree' /\ InHand' /\ HasBlock' /\ Counted'
    BY <1>1, <2>1, <2>2, TypeStep, RingStep, BlockStep, CountStep
  <2>4. ASSUME ~shared'
        PROVE  ~shared /\ Alone /\ Exclusive' /\ Alone' /\ RxSlots
    <3>1. ~shared /\ Exclusive'
      BY <2>2, <2>4
    <3>2. Alone'
      BY <3>1, OneOwner, PTL
    <3> QED BY <2>1, <3>1, <3>2, OneOwner
  <2>5. ~shared' => RxSlots' /\ Exclusive' /\ RxInOrder'
    BY <2>1, <2>2, <2>3, <2>4, RxStep
  <2>6. ~raced' => ~raced /\ Apart' /\ ListOwned' /\ TxRing'
    BY <2>1, <2>2, RacedStays, ApartStep, ListStep, TxRingStep
  <2>7. ~raced' /\ ~shared' => TxHeld' /\ IsPrefix(wire', posted')
    BY <2>1, <2>2, <2>4, <2>6, TxStep DEF TxInOrder
  <2>8. RxInOrder' /\ TxInOrder'
    BY <2>5, <2>7 DEF RxInOrder, TxInOrder
  <2> QED BY <2>3, <2>5, <2>6, <2>7, <2>8 DEF IInv, RxSound, RxSlots
<1>2. ASSUME IInv, UNCHANGED vars PROVE IInv'
  <2>1. UNCHANGED <<heap, rx, tx, pc, local, raced, shared>>
    BY <1>2 DEF vars
  <2>2. (TypeOK /\ RingsAgree /\ InHand /\ HasBlock /\ Counted)'
    BY <1>2, <2>1 DEF IInv, TypeOK, RingsAgree, InHand, HasBlock, Counted, Built, Waiting, Ahead, Taken,
                      heap, rx, tx, local
  <2>3. (~shared => RxSound)' /\ (RxInOrder /\ TxInOrder)'
    BY <1>2, <2>1 DEF IInv, RxSound, Exclusive, Owners, RxInOrder, TxInOrder, Waiting, RxAhead, Ahead,
                      heap, rx, tx, local
  <2>4. (~raced => Apart /\ ListOwned /\ TxRing)' /\ (~raced /\ ~shared => TxHeld)'
    <3>1. /\ UNCHANGED <<pc, raced, shared, ref, free, mem, txDesc, txBufs, txWrite, TDH, TDT, busy>>
          /\ UNCHANGED <<posted, wire, buf, slot>>
      BY <2>1 DEF heap, tx, local
    <3>2. (~raced => Apart /\ ListOwned)'
      BY <1>2, <3>1 DEF IInv, Apart, ListOwned
    <3>3. (~raced => TxRing)'
      BY <1>2, <3>1, TxRests DEF IInv
    <3>4. (~raced /\ ~shared => TxHeld)'
      BY <1>2, <3>1, HeldRests DEF IInv
    <3> QED BY <3>2, <3>3, <3>4
  <2> QED BY <2>2, <2>3, <2>4 DEF IInv
<1> QED BY <1>1, <1>2 DEF Next, Act

(* The ring invariant, the accounts of frames, packets and blocks hold of  *)
(* the driver for rings of any size.                                       *)
THEOREM NicInductive == Spec => []IInv
BY InitIInv, StepIInv, PTL DEF Spec

(* Every register stays inside its ring and every descriptor names a block *)
(* of the heap.                                                            *)
THEOREM NicTypes == Spec => []TypeOK
<1>1. IInv => TypeOK
  BY DEF IInv
<1> QED BY <1>1, NicInductive, PTL

(* eth_intel_poll and the card agree about the receive ring in every       *)
(* state: the card has no descriptor whose frame was not read.             *)
THEOREM RingsStayAgreed == Spec => []RingsAgree
<1>1. IInv => RingsAgree
  BY DEF IInv
<1> QED BY <1>1, NicInductive, PTL

(* Frames are read and packets leave in order, uncorrupted, as long as no  *)
(* buffer had two owners, and for packets no call overlapped another.      *)
THEOREM FramesStayInOrder == Spec => []FramesInOrder
<1>1. IInv => FramesInOrder
  BY DEF IInv, FramesInOrder
<1> QED BY <1>1, NicInductive, PTL

(* net_alloc_buf and net_release_buf never put a buffer on the list twice, *)
(* unless the handler allocates in the middle of the task's allocation.    *)
THEOREM ListStaysSound == Spec => []ListSound
<1>1. IInv => ListSound
  BY DEF IInv, ListOwned, ListSound
<1> QED BY <1>1, NicInductive, PTL

=============================================================================
