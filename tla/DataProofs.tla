----------------------------- MODULE DataProofs -----------------------------
(***************************************************************************)
(* What the parts that share no state with the others promise, for every   *)
(* value of their constants: the route table, the checksum and the reply   *)
(* to an echo request (Wire), the context switch (Switch), the walk over   *)
(* the PCI bus (Pci) and the layout of memory (Boot).                      *)
(***************************************************************************)
EXTENDS Wire, Switch, Pci, Boot, SequenceTheorems, FiniteSetTheorems, WellFoundedInduction, TLAPS

-----------------------------------------------------------------------------
(* Numbers                                                                 *)

(* Every set of numbers that is not empty has a least one.                 *)
LEMMA LeastNumber ==
  ASSUME NEW T \in SUBSET Nat, T # {}
  PROVE  \E m \in T : \A k \in T : m <= k
<1>. DEFINE F == {0 .. m : m \in T}
            R == StrictSubsetOrdering(Nat)
            S == FiniteSubsetsOf(Nat)
<1>1. F \subseteq S /\ F # {}
  <2>1. \A m \in T : IsFiniteSet(0 .. m) /\ 0 .. m \in SUBSET Nat
    BY FS_Interval
  <2>. QED BY <2>1 DEF FiniteSubsetsOf
<1>2. IsWellFoundedOn(R, S)
  BY FS_StrictSubsetOrderingWellFounded
<1>3. PICK x \in F : \A z \in F : ~ (<<z, x>> \in R)
  <2>. HIDE DEF F, R, S
  <2>. QED BY <1>1, <1>2, WFMin
<1>4. PICK m \in T : x = 0 .. m
  OBVIOUS
<1>5. ASSUME NEW k \in T, k < m PROVE FALSE
  <2>1. 0 .. k \in F /\ 0 .. k \subseteq 0 .. m /\ 0 .. k \in SUBSET Nat /\ 0 .. m \in SUBSET Nat
    BY <1>5
  <2>2. m \in 0 .. m /\ m \notin 0 .. k
    BY <1>5
  <2>3. <<0 .. k, 0 .. m>> \in R
    BY <2>1, <2>2 DEF StrictSubsetOrdering
  <2>. QED BY <1>3, <1>4, <2>1, <2>3
<1>. QED BY <1>5

LEMMA MinIsLeast ==
  ASSUME NEW T \in SUBSET Nat, T # {}
  PROVE  Min(T) \in T /\ \A k \in T : Min(T) <= k
BY LeastNumber DEF Min

-----------------------------------------------------------------------------
(* The route table                                                         *)

Route == [dst : Address, mask : 0 .. Width]

\* Two routes are in the order of their masks.
WireInv ==
    /\ s_routeTable \in Seq(Route)
    /\ Len(s_routeTable) = 2 => s_routeTable[1].mask >= s_routeTable[2].mask

(* What is inserted behind the p-th element comes next.                    *)
LEMMA Inserted ==
  ASSUME NEW V, NEW s \in Seq(V), NEW e \in V, NEW p \in 1 .. Len(s)
  PROVE  /\ InsertAt(s, p + 1, e) \in Seq(V)
         /\ Len(InsertAt(s, p + 1, e)) = Len(s) + 1
         /\ InsertAt(s, p + 1, e)[p + 1] = e
         /\ \A k \in 1 .. p : InsertAt(s, p + 1, e)[k] = s[k]
<1>1. PICK n : n = Len(s)
  OBVIOUS
<1>2. n \in Nat /\ p \in Nat /\ 1 <= p /\ p <= n
  BY <1>1
<1>3. PICK front : front = SubSeq(s, 1, p)
  OBVIOUS
<1>4. PICK back : back = SubSeq(s, p + 1, n)
  OBVIOUS
<1>5. PICK mid : mid = <<e>>
  OBVIOUS
<1>6. front \in Seq(V) /\ Len(front) = p /\ \A k \in 1 .. p : front[k] = s[k]
  BY <1>1, <1>2, <1>3
<1>7. back \in Seq(V) /\ Len(back) = n - p
  BY <1>1, <1>2, <1>4
<1>8. mid \in Seq(V) /\ Len(mid) = 1 /\ mid[1] = e
  BY <1>5
<1>9. PICK t : t = front \o mid
  OBVIOUS
<1>10. t \in Seq(V) /\ Len(t) = p + 1
       /\ \A k \in 1 .. p + 1 : t[k] = IF k <= p THEN front[k] ELSE mid[k - p]
  <2>1. t \in Seq(V) /\ Len(t) = Len(front) + Len(mid)
        /\ \A k \in 1 .. Len(front) + Len(mid) :
              t[k] = IF k <= Len(front) THEN front[k] ELSE mid[k - Len(front)]
    BY <1>6, <1>8, <1>9, ConcatProperties
  <2>2. Len(front) = p /\ Len(mid) = 1
    BY <1>6, <1>8
  <2>. QED BY <2>1, <2>2
<1>11. PICK u : u = t \o back
  OBVIOUS
<1>12. u \in Seq(V) /\ Len(u) = Len(t) + Len(back)
       /\ \A k \in 1 .. Len(t) + Len(back) : u[k] = IF k <= Len(t) THEN t[k] ELSE back[k - Len(t)]
  BY <1>7, <1>10, <1>11, ConcatProperties
<1>13. Len(u) = n + 1 /\ \A k \in 1 .. p + 1 : u[k] = t[k]
  <2>1. Len(t) + Len(back) = n + 1
    BY <1>2, <1>7, <1>10
  <2>2. \A k \in 1 .. p + 1 : k \in 1 .. n + 1 /\ k <= p + 1
    BY <1>2
  <2>. QED BY <1>10, <1>12, <2>1, <2>2
<1>14. t[p + 1] = mid[1]
  <2>1. p + 1 \in 1 .. p + 1 /\ ~ (p + 1 <= p) /\ (p + 1) - p = 1
    BY <1>2
  <2>. QED BY <1>10, <2>1
<1>15. \A k \in 1 .. p : k \in 1 .. p + 1 /\ k <= p
  BY <1>2
<1>16. p + 1 \in 1 .. p + 1
  BY <1>2
<1>17. u[p + 1] = e /\ \A k \in 1 .. p : u[k] = s[k]
  BY <1>6, <1>8, <1>10, <1>13, <1>14, <1>15, <1>16
<1>18. u = InsertAt(s, p + 1, e)
  <2>1. (p + 1) - 1 = p
    BY <1>2
  <2>. QED BY <1>1, <1>3, <1>4, <1>5, <1>9, <1>11, <2>1 DEF InsertAt
<1>. QED BY <1>1, <1>12, <1>13, <1>17, <1>18

(* Adding a route makes the table one longer, and puts the second of two   *)
(* where its mask wants it.                                                *)
LEMMA RouteAdded ==
  ASSUME NEW table \in Seq(Route), NEW r \in Route
  PROVE  LET new == net_route_add(table, r)
         IN  /\ new \in Seq(Route) /\ Len(new) = Len(table) + 1
             /\ Len(table) = 1 => new[1].mask >= new[2].mask
<1>. DEFINE S == {k \in DOMAIN table : table[k].mask > r.mask}
            new == net_route_add(table, r)
<1>1. Len(table) \in Nat /\ DOMAIN table = 1 .. Len(table) /\ Width \in Nat
  BY WireAssumption
<1>2. r.mask \in Int /\ \A k \in DOMAIN table : table[k].mask \in Int
  <2>1. \A k \in DOMAIN table : table[k] \in Route
    BY <1>1
  <2>. QED BY <1>1, <2>1 DEF Route
<1>3. CASE S = {}
  <2>1. new = <<r>> \o table
    BY <1>3 DEF net_route_add
  <2>2. new \in Seq(Route) /\ Len(new) = Len(table) + 1 /\ new[1] = r
        /\ \A k \in 1 .. Len(table) : new[k + 1] = table[k]
    <3>. HIDE DEF new
    <3>. QED BY <2>1
  <2>3. ASSUME Len(table) = 1 PROVE new[1].mask >= new[2].mask
    <3>1. 1 \in DOMAIN table /\ new[2] = table[1]
      BY <2>2, <2>3
    <3>2. ~ (table[1].mask > r.mask)
      BY <1>3, <3>1
    <3>. HIDE DEF new
    <3>. QED BY <1>2, <2>2, <3>1, <3>2
  <2>. HIDE DEF new
  <2>. QED BY <2>2, <2>3 DEF new
<1>4. CASE S # {}
  <2>1. PICK p : p = Min(S)
    OBVIOUS
  <2>2. p \in S /\ p \in 1 .. Len(table)
    <3>1. S \in SUBSET Nat
      BY <1>1
    <3>2. Min(S) \in S
      <4>. HIDE DEF S
      <4>. QED BY <1>4, <3>1, MinIsLeast
    <3>. QED BY <1>1, <2>1, <3>2
  <2>3. new = InsertAt(table, p + 1, r)
    BY <1>4, <2>1 DEF net_route_add
  <2>5. new \in Seq(Route) /\ Len(new) = Len(table) + 1
        /\ new[p + 1] = r /\ \A k \in 1 .. p : new[k] = table[k]
    <3>. HIDE DEF new
    <3>. QED BY <2>2, <2>3, Inserted
  <2>6. ASSUME Len(table) = 1 PROVE new[1].mask >= new[2].mask
    <3>1. p = 1 /\ table[p].mask > r.mask
      BY <2>2, <2>6
    <3>2. new[1] = table[1] /\ new[2] = r
      <4>. HIDE DEF new
      <4>. QED BY <2>5, <3>1
    <3>. HIDE DEF new
    <3>. QED BY <1>1, <1>2, <2>6, <3>1, <3>2
  <2>. HIDE DEF new
  <2>. QED BY <2>5, <2>6 DEF new
<1>. QED BY <1>3, <1>4

(* With at most two routes net_route_find returns the one with the longest *)
(* mask of all that match, for addresses of any width: net_route_add puts  *)
(* the second in order, although it looks for its place behind the first   *)
(* route with a longer mask.                                               *)
THEOREM RouteFoundIsBest == WireSpec => []FindsBest
<1>1. WireInit => WireInv
  BY DEF WireInit, WireInv
<1>2. WireInv /\ [WireNext]_wireVars => WireInv'
  <2>. SUFFICES ASSUME WireInv, [WireNext]_wireVars PROVE WireInv'
    OBVIOUS
  <2>1. CASE AddRoute
    <3>1. PICK r \in Route : s_routeTable' = net_route_add(s_routeTable, r)
      BY <2>1 DEF AddRoute, Route
    <3>2. s_routeTable \in Seq(Route)
      BY DEF WireInv
    <3>3. /\ s_routeTable' \in Seq(Route) /\ Len(s_routeTable') = Len(s_routeTable) + 1
          /\ Len(s_routeTable) = 1 => s_routeTable'[1].mask >= s_routeTable'[2].mask
      BY <3>1, <3>2, RouteAdded
    <3>4. Len(s_routeTable) \in Nat
      BY <3>2
    <3>5. Len(s_routeTable') = 2 => Len(s_routeTable) = 1
      <4>1. PICK n : n = Len(s_routeTable)
        OBVIOUS
      <4>2. PICK m : m = Len(s_routeTable')
        OBVIOUS
      <4>3. n \in Nat /\ m = n + 1
        BY <3>3, <3>4, <4>1, <4>2
      <4>4. m = 2 => n = 1
        BY <4>3
      <4>. QED BY <4>1, <4>2, <4>4
    <3>. QED BY <3>3, <3>5 DEF WireInv
  <2>2. CASE Receive \/ UNCHANGED wireVars
    BY <2>2 DEF Receive, wireVars, WireInv
  <2>. QED BY <2>1, <2>2 DEF WireNext
<1>3. WireInv => FindsBest
  <2>. SUFFICES ASSUME WireInv, Len(s_routeTable) <= 2, NEW dst \in Address
                PROVE  LET k == net_route_find(s_routeTable, dst)
                           S == {j \in DOMAIN s_routeTable : Matches(dst, s_routeTable[j])}
                       IN  /\ k = 0 <=> S = {}
                           /\ k # 0 => \A j \in S : s_routeTable[j].mask <= s_routeTable[k].mask
    BY DEF FindsBest
  <2>. DEFINE S == {j \in DOMAIN s_routeTable : Matches(dst, s_routeTable[j])}
              k == net_route_find(s_routeTable, dst)
  <2>1. /\ s_routeTable \in Seq(Route) /\ Len(s_routeTable) \in 0 .. 2
        /\ DOMAIN s_routeTable = 1 .. Len(s_routeTable)
    <3>1. s_routeTable \in Seq(Route)
      BY DEF WireInv
    <3>2. Len(s_routeTable) \in Nat
      BY <3>1
    <3>3. PICK n : n = Len(s_routeTable)
      OBVIOUS
    <3>4. n \in 0 .. 2
      BY <3>2, <3>3
    <3>. QED BY <3>1, <3>3, <3>4
  <2>2. S \in SUBSET Nat /\ 0 \notin S /\ \A j \in S : j \in 1 .. Len(s_routeTable)
    BY <2>1
  <2>3. k = IF S = {} THEN 0 ELSE Min(S)
    BY DEF net_route_find
  <2>4. CASE S = {}
    BY <2>3, <2>4
  <2>5. CASE S # {}
    <3>1. Min(S) \in S /\ \A j \in S : Min(S) <= j
      <4>. HIDE DEF S
      <4>. QED BY <2>2, <2>5, MinIsLeast
    <3>2. k \in S /\ k # 0 /\ \A j \in S : k <= j
      BY <2>2, <2>3, <2>5, <3>1
    <3>. HIDE DEF k, S
    <3>3. ASSUME NEW j \in S PROVE s_routeTable[j].mask <= s_routeTable[k].mask
      <4>1. j \in 1 .. Len(s_routeTable) /\ k \in 1 .. Len(s_routeTable) /\ k <= j
        BY <2>2, <3>2
      <4>2. s_routeTable[j].mask \in Int /\ s_routeTable[k].mask \in Int
        <5>1. s_routeTable[j] \in Route /\ s_routeTable[k] \in Route
          BY <2>1, <4>1
        <5>. QED BY <5>1, WireAssumption DEF Route
      <4>3. CASE j = k
        BY <4>2, <4>3
      <4>4. CASE j # k
        <5>1. k = 1 /\ j = 2 /\ Len(s_routeTable) = 2
          BY <2>1, <4>1, <4>4
        <5>. QED BY <4>2, <5>1 DEF WireInv
      <4>. QED BY <4>3, <4>4
    <3>. QED BY <2>5, <3>2, <3>3 DEF k, S
  <2>. QED BY <2>4, <2>5
<1>. QED BY <1>1, <1>2, <1>3, PTL DEF WireSpec

-----------------------------------------------------------------------------
(* The checksum                                                            *)

\* The words of data, and each of them.
WordCount(data) == (Len(data) + 1) \div 2
WordAt(data, k) == data[2 * k - 1] + (IF 2 * k <= Len(data) THEN 256 * data[2 * k] ELSE 0)

\* The equation of the sum over the words from p[1] to p[2].
Tree(data, s) ==
    [p \in (1 .. WordCount(data) + 1) \X (0 .. WordCount(data)) |->
        IF p[1] > p[2] THEN 0 ELSE IF p[1] = p[2] THEN WordAt(data, p[1])
        ELSE s[<<p[1], (p[1] + p[2]) \div 2>>] + s[<<((p[1] + p[2]) \div 2) + 1, p[2]>>]]

(* The sum is one that satisfies its equation, when there is one.          *)
LEMMA AccIs ==
  ASSUME NEW data, NEW g, g = Tree(data, g)
  PROVE  \E s : s = Tree(data, s) /\ net_checksum_acc(data) = s[<<1, WordCount(data)>>]
<1>. DEFINE u == CHOOSE s : s = Tree(data, s)
<1>1. u = Tree(data, u)
  <2>. HIDE DEF Tree
  <2>. QED OBVIOUS
<1>2. net_checksum_acc(data) = u[<<1, WordCount(data)>>]
  BY DEF net_checksum_acc, Tree, WordCount, WordAt
<1>. QED BY <1>1, <1>2

\* The sums of the first words, up to the n-th.
PrefixTo(data, s, n) ==
    /\ s \in [0 .. WordCount(data) -> Nat] /\ s[0] = 0
    /\ \A k \in 1 .. n : s[k] = s[k - 1] + WordAt(data, k) /\ s[k] <= 65535 * k
Prefix(data, s) == PrefixTo(data, s, WordCount(data))

\* The same, however large.
Sums(data, s) ==
    /\ s \in [0 .. WordCount(data) -> Nat] /\ s[0] = 0
    /\ \A k \in 1 .. WordCount(data) : s[k] = s[k - 1] + WordAt(data, k)

(* How many words there are.                                               *)
LEMMA CountIs ==
  ASSUME NEW data \in Seq(Octet)
  PROVE  WordCount(data) \in Nat /\ WordCount(data) = (Len(data) + 1) \div 2
<1>1. PICK l \in Nat : l = Len(data)
  OBVIOUS
<1>. QED BY <1>1 DEF WordCount

(* An octet is a small number.                                             *)
LEMMA OctetIs ==
  ASSUME NEW a \in Octet
  PROVE  a \in Nat /\ a <= 255
BY DEF Octet

(* A word is at most 65535.                                                *)
LEMMA WordAtIs ==
  ASSUME NEW data \in Seq(Octet), NEW k \in 1 .. WordCount(data)
  PROVE  WordAt(data, k) \in Nat /\ WordAt(data, k) <= 65535
<1>1. PICK l \in Nat : l = Len(data)
  OBVIOUS
<1>2. k \in Nat /\ 2 * k - 1 \in 1 .. l
  BY <1>1, CountIs
<1>3. \A n \in 1 .. l : data[n] \in Octet
  BY <1>1
<1>4. PICK a, b : a = data[2 * k - 1] /\ b = data[2 * k]
  OBVIOUS
<1>5. a \in Octet
  BY <1>2, <1>3, <1>4
<1>6. 2 * k <= l => b \in Octet
  <2>1. 2 * k <= l => 2 * k \in 1 .. l
    BY <1>2
  <2>. QED BY <1>3, <1>4, <2>1
<1>7. PICK w : w = WordAt(data, k)
  OBVIOUS
<1>8. w = a + (IF 2 * k <= l THEN 256 * b ELSE 0)
  BY <1>1, <1>4, <1>7 DEF WordAt
<1>9. w \in Nat /\ w <= 65535
  <2>1. a \in Nat /\ a <= 255 /\ (2 * k <= l => b \in Nat /\ b <= 255)
    BY <1>5, <1>6, OctetIs
  <2>2. CASE 2 * k <= l
    BY <1>8, <2>1, <2>2
  <2>3. CASE ~ (2 * k <= l)
    BY <1>8, <2>1, <2>3
  <2>. QED BY <2>2, <2>3
<1>. QED BY <1>7, <1>9

(* So are all of them.                                                     *)
LEMMA WordsAre ==
  ASSUME NEW data \in Seq(Octet), NEW W, W = WordCount(data)
  PROVE  W \in Nat /\ \A k \in 1 .. W : WordAt(data, k) \in Nat /\ WordAt(data, k) <= 65535
BY CountIs, WordAtIs

(* There are sums of the first words.                                      *)
LEMMA PrefixExists ==
  ASSUME NEW data \in Seq(Octet)
  PROVE  \E s : Prefix(data, s)
<1>1. PICK W : W = WordCount(data)
  OBVIOUS
<1>2. W \in Nat /\ \A k \in 1 .. W : WordAt(data, k) \in Nat /\ WordAt(data, k) <= 65535
  BY <1>1, WordsAre
<1>. DEFINE T == {n \in 0 .. W : ~ \E s : PrefixTo(data, s, n)}
<1>. SUFFICES ASSUME T # {} PROVE FALSE
  <2>1. W \in 0 .. W
    BY <1>2
  <2>. QED BY <1>1, <2>1 DEF Prefix
<1>3. PICK m \in T : \A k \in T : m <= k
  <2>1. T \in SUBSET Nat
    OBVIOUS
  <2>. HIDE DEF T
  <2>. QED BY <2>1, LeastNumber
<1>4. m \in 0 .. W /\ ~ \E s : PrefixTo(data, s, m)
  BY <1>3
<1>5. CASE m = 0
  <2>1. PICK g : g = [k \in 0 .. W |-> 0]
    OBVIOUS
  <2>2. g \in [0 .. W -> Nat] /\ g[0] = 0 /\ 1 .. 0 = {}
    BY <1>2, <2>1
  <2>3. PrefixTo(data, g, 0)
    BY <1>1, <2>2 DEF PrefixTo
  <2>. QED BY <1>4, <1>5, <2>3
<1>6. CASE m # 0
  <2>1. m - 1 \in 0 .. W /\ m \in 1 .. W /\ m - 1 \in Nat
    BY <1>2, <1>4, <1>6
  <2>2. m - 1 \notin T
    BY <1>3, <2>1
  <2>3. PICK s : PrefixTo(data, s, m - 1)
    BY <2>1, <2>2
  <2>. HIDE DEF T
  <2>4. /\ s \in [0 .. W -> Nat] /\ s[0] = 0
        /\ \A k \in 1 .. (m - 1) : s[k] = s[k - 1] + WordAt(data, k) /\ s[k] <= 65535 * k
    BY <1>1, <2>3 DEF PrefixTo
  <2>5. PICK x : x = s[m - 1] + WordAt(data, m)
    OBVIOUS
  <2>6. s[m - 1] \in Nat /\ s[m - 1] <= 65535 * (m - 1)
    <3>1. CASE m = 1
      BY <2>1, <2>4, <3>1
    <3>2. CASE m # 1
      <4>1. m - 1 \in 1 .. (m - 1)
        BY <2>1, <3>2
      <4>. QED BY <2>1, <2>4, <4>1
    <3>. QED BY <3>1, <3>2
  <2>7. x \in Nat /\ x <= 65535 * m
    <3>1. WordAt(data, m) \in Nat /\ WordAt(data, m) <= 65535
      BY <1>2, <2>1
    <3>. QED BY <2>1, <2>5, <2>6, <3>1
  <2>8. PICK g : g = [s EXCEPT ![m] = x]
    OBVIOUS
  <2>9. g \in [0 .. W -> Nat] /\ g[m] = x /\ \A k \in 0 .. W : k # m => g[k] = s[k]
    BY <2>1, <2>4, <2>7, <2>8
  <2>10. g[0] = 0
    BY <1>2, <1>6, <2>4, <2>9
  <2>11. ASSUME NEW k \in 1 .. m
         PROVE  g[k] = g[k - 1] + WordAt(data, k) /\ g[k] <= 65535 * k
    <3>1. k \in 0 .. W /\ k - 1 \in 0 .. W /\ k - 1 # m
      BY <1>2, <2>1
    <3>2. g[k - 1] = s[k - 1]
      BY <2>9, <3>1
    <3>3. CASE k = m
      BY <2>5, <2>7, <2>9, <3>2, <3>3
    <3>4. CASE k # m
      <4>1. k \in 1 .. (m - 1) /\ g[k] = s[k]
        BY <2>1, <2>9, <3>1, <3>4
      <4>. QED BY <2>4, <3>2, <4>1
    <3>. QED BY <3>3, <3>4
  <2>12. PrefixTo(data, g, m)
    BY <1>1, <2>9, <2>10, <2>11 DEF PrefixTo
  <2>. QED BY <1>4, <2>12
<1>. QED BY <1>5, <1>6

(* The middle of an interval lies in it, and not at its end.               *)
LEMMA Middle ==
  ASSUME NEW i \in Int, NEW j \in Int, i < j
  PROVE  (i + j) \div 2 \in Int /\ i <= (i + j) \div 2 /\ (i + j) \div 2 < j
OBVIOUS

(* Summed by halves or word by word, the sum is the same.                  *)
LEMMA SumIs ==
  ASSUME NEW data \in Seq(Octet), NEW t, Sums(data, t)
  PROVE  net_checksum_acc(data) = t[WordCount(data)]
<1>1. PICK W : W = WordCount(data)
  OBVIOUS
<1>2. W \in Nat /\ \A k \in 1 .. W : WordAt(data, k) \in Nat /\ WordAt(data, k) <= 65535
  BY <1>1, WordsAre
<1>3. t \in [0 .. W -> Nat] /\ t[0] = 0 /\ \A k \in 1 .. W : t[k] = t[k - 1] + WordAt(data, k)
  BY <1>1 DEF Sums
<1>4. PICK g : g = [p \in (1 .. W + 1) \X (0 .. W) |-> IF p[1] > p[2] THEN 0 ELSE t[p[2]] - t[p[1] - 1]]
  OBVIOUS
<1>5. ASSUME NEW i \in 1 .. W + 1, NEW j \in 0 .. W
      PROVE  g[<<i, j>>] = IF i > j THEN 0 ELSE t[j] - t[i - 1]
  BY <1>4
<1>6. g = Tree(data, g)
  <2>1. ASSUME NEW p \in (1 .. W + 1) \X (0 .. W)
        PROVE  g[p] = IF p[1] > p[2] THEN 0 ELSE IF p[1] = p[2] THEN WordAt(data, p[1])
                      ELSE g[<<p[1], (p[1] + p[2]) \div 2>>] + g[<<((p[1] + p[2]) \div 2) + 1, p[2]>>]
    <3>1. PICK i \in 1 .. W + 1, j \in 0 .. W : p = <<i, j>> /\ p[1] = i /\ p[2] = j
      BY <2>1
    <3>2. g[p] = IF i > j THEN 0 ELSE t[j] - t[i - 1]
      BY <1>5, <3>1
    <3>3. CASE i > j
      BY <3>1, <3>2, <3>3
    <3>4. CASE i = j
      <4>1. i \in 1 .. W /\ i - 1 \in 0 .. W
        BY <1>2, <3>4
      <4>2. t[i - 1] \in Nat /\ WordAt(data, i) \in Nat /\ t[i] = t[i - 1] + WordAt(data, i)
        BY <1>2, <1>3, <4>1
      <4>3. g[p] = WordAt(data, i)
        BY <3>2, <3>4, <4>2
      <4>. QED BY <3>1, <3>4, <4>3
    <3>5. CASE i < j
      <4>1. PICK m : m = (i + j) \div 2
        OBVIOUS
      <4>2. m \in Int /\ i <= m /\ m < j
        BY <3>5, <4>1, Middle
      <4>3. m \in 0 .. W /\ m + 1 \in 1 .. W + 1 /\ i - 1 \in 0 .. W
        BY <1>2, <4>2
      <4>4. g[<<i, m>>] = t[m] - t[i - 1]
        BY <1>5, <4>2, <4>3
      <4>5. g[<<m + 1, j>>] = t[j] - t[m]
        <5>1. ~ (m + 1 > j) /\ (m + 1) - 1 = m
          BY <4>2, <4>3
        <5>2. g[<<m + 1, j>>] = IF m + 1 > j THEN 0 ELSE t[j] - t[(m + 1) - 1]
          BY <1>5, <4>3
        <5>. QED BY <5>1, <5>2
      <4>6. t[m] \in Nat /\ t[j] \in Nat /\ t[i - 1] \in Nat
        BY <1>3, <4>3
      <4>7. g[p] = g[<<i, m>>] + g[<<m + 1, j>>]
        BY <3>2, <3>5, <4>4, <4>5, <4>6
      <4>. QED BY <3>1, <3>5, <4>1, <4>7
    <3>. QED BY <3>3, <3>4, <3>5
  <2>. QED BY <1>1, <1>4, <2>1 DEF Tree
<1>7. PICK s : s = Tree(data, s) /\ net_checksum_acc(data) = s[<<1, W>>]
  BY <1>1, <1>6, AccIs
<1>8. ASSUME NEW i \in 1 .. W + 1, NEW j \in 0 .. W
      PROVE  s[<<i, j>>] = IF i > j THEN 0 ELSE IF i = j THEN WordAt(data, i)
                           ELSE s[<<i, (i + j) \div 2>>] + s[<<((i + j) \div 2) + 1, j>>]
  <2>1. PICK p : p = <<i, j>>
    OBVIOUS
  <2>2. p \in (1 .. W + 1) \X (0 .. W) /\ p[1] = i /\ p[2] = j
    BY <2>1
  <2>3. Tree(data, s)[p] = IF p[1] > p[2] THEN 0 ELSE IF p[1] = p[2] THEN WordAt(data, p[1])
                           ELSE s[<<p[1], (p[1] + p[2]) \div 2>>] + s[<<((p[1] + p[2]) \div 2) + 1, p[2]>>]
    BY <1>1, <2>2 DEF Tree
  <2>. QED BY <1>7, <2>1, <2>2, <2>3
<1>. DEFINE T == {n \in Nat : \E i \in 1 .. W, j \in 1 .. W : j - i = n /\ s[<<i, j>>] # t[j] - t[i - 1]}
<1>9. T = {}
  <2>. SUFFICES ASSUME T # {} PROVE FALSE
    OBVIOUS
  <2>1. PICK n \in T : \A k \in T : n <= k
    <3>1. T \in SUBSET Nat
      OBVIOUS
    <3>. HIDE DEF T
    <3>. QED BY <3>1, LeastNumber
  <2>2. PICK i \in 1 .. W, j \in 1 .. W : j - i = n /\ s[<<i, j>>] # t[j] - t[i - 1]
    BY <2>1
  <2>3. n \in Nat
    BY <2>1
  <2>4. ASSUME NEW a \in 1 .. W, NEW b \in 1 .. W, a <= b, b - a < n
        PROVE  s[<<a, b>>] = t[b] - t[a - 1]
    <3>1. PICK d : d = b - a
      OBVIOUS
    <3>2. d \in Nat /\ d < n
      BY <1>2, <2>4, <3>1
    <3>3. d \notin T
      <4>. HIDE DEF T
      <4>. QED BY <2>1, <2>3, <3>2
    <3>. QED BY <2>4, <3>1, <3>2, <3>3
  <2>. HIDE DEF T
  <2>5. i \in 1 .. W + 1 /\ j \in 0 .. W /\ i - 1 \in 0 .. W /\ ~ (i > j)
    BY <1>2, <2>2, <2>3
  <2>6. CASE i = j
    <3>1. s[<<i, j>>] = WordAt(data, i)
      BY <1>8, <2>5, <2>6
    <3>2. t[i - 1] \in Nat /\ WordAt(data, i) \in Nat /\ t[i] = t[i - 1] + WordAt(data, i)
      BY <1>2, <1>3, <2>2, <2>5
    <3>. QED BY <2>2, <2>6, <3>1, <3>2
  <2>7. CASE i # j
    <3>0. i < j
      BY <2>5, <2>7
    <3>1. PICK m : m = (i + j) \div 2
      OBVIOUS
    <3>2. m \in Int /\ i <= m /\ m < j
      BY <3>0, <3>1, Middle
    <3>3. m \in 1 .. W /\ m + 1 \in 1 .. W
      BY <1>2, <3>2
    <3>4. s[<<i, j>>] = s[<<i, m>>] + s[<<m + 1, j>>]
      BY <1>8, <2>5, <2>7, <3>1
    <3>5. s[<<i, m>>] = t[m] - t[i - 1]
      <4>1. m - i < n
        BY <2>2, <3>2
      <4>. QED BY <2>4, <3>2, <3>3, <4>1
    <3>6. s[<<m + 1, j>>] = t[j] - t[m]
      <4>1. j - (m + 1) < n /\ m + 1 <= j /\ (m + 1) - 1 = m
        BY <2>2, <3>2
      <4>2. s[<<m + 1, j>>] = t[j] - t[(m + 1) - 1]
        BY <2>4, <3>3, <4>1
      <4>. QED BY <4>1, <4>2
    <3>7. t[m] \in Nat /\ t[j] \in Nat /\ t[i - 1] \in Nat
      BY <1>3, <2>5, <3>3
    <3>. QED BY <2>2, <3>4, <3>5, <3>6, <3>7
  <2>. QED BY <2>6, <2>7
<1>10. CASE W = 0
  BY <1>2, <1>3, <1>7, <1>8, <1>10, <1>1
<1>11. CASE W # 0
  <2>1. 1 \in 1 .. W /\ W \in 1 .. W /\ W - 1 \in Nat
    BY <1>2, <1>11
  <2>2. s[<<1, W>>] = t[W] - t[1 - 1]
    BY <1>9, <2>1
  <2>3. t[W] \in Nat /\ 1 - 1 = 0 /\ W \in 0 .. W
    BY <1>2, <1>3
  <2>. QED BY <1>1, <1>3, <1>7, <2>2, <2>3
<1>. QED BY <1>10, <1>11

\* What is left of a when its halves are added, twice.
Folded(a) == ((((a % 65536) + a \div 65536) + (((a % 65536) + a \div 65536) \div 65536)) % 65536)

\* A number is d times 65535, and c.
Congruent(a, d, v) == d \in Int /\ v \in Nat /\ v <= 65535 /\ a = 65535 * d + v

(* Folding keeps the remainder by 65535, and does not lose a sum.          *)
LEMMA FoldedIs ==
  ASSUME NEW a \in Nat, a <= 65535 * 65535
  PROVE  (\E d : Congruent(a, d, Folded(a))) /\ (a > 0 => Folded(a) > 0)
<1>1. PICK q, r : q = a \div 65536 /\ r = a % 65536
  OBVIOUS
<1>2. q \in Nat /\ r \in Nat /\ r <= 65535 /\ a = 65536 * q + r
  BY <1>1
<1>3. q <= 65534
  BY <1>2
<1>4. PICK o : o = r + q
  OBVIOUS
<1>5. o \in Nat /\ o <= 131069 /\ a = 65535 * q + o
  BY <1>2, <1>3, <1>4
<1>6. PICK x : x = (o + (o \div 65536)) % 65536
  OBVIOUS
<1>7. Folded(a) = x
  BY <1>1, <1>4, <1>6 DEF Folded
<1>8. CASE o < 65536
  <2>1. x = o
    BY <1>5, <1>6, <1>8
  <2>2. Congruent(a, q, x)
    BY <1>2, <1>5, <1>8, <2>1 DEF Congruent
  <2>3. a > 0 => x > 0
    BY <1>2, <1>4, <2>1
  <2>. QED BY <1>7, <2>2, <2>3
<1>9. CASE o >= 65536
  <2>1. o \div 65536 = 1
    BY <1>5, <1>9
  <2>2. x = o + 1 - 65536
    BY <1>5, <1>6, <1>9, <2>1
  <2>3. Congruent(a, q + 1, x) /\ x > 0
    BY <1>2, <1>5, <1>9, <2>2 DEF Congruent
  <2>. QED BY <1>7, <2>3
<1>. QED BY <1>5, <1>8, <1>9

\* A word with its octets in the other order.
Swapped(t) == (t % 256) * 256 + t \div 256

(* The final checksum is the complement of what is folded, swapped.        *)
LEMMA FinalIs ==
  ASSUME NEW a \in Nat, NEW temp, Folded(a) \in Nat, Folded(a) <= 65535, temp = 65535 - Folded(a)
  PROVE  net_checksum_final(a) = Swapped(temp)
BY DEF net_checksum_final, Folded, Swapped

(* Put high octet first and read low octet first, it is the complement.    *)
LEMMA OctetsOf ==
  ASSUME NEW t \in Nat, t <= 65535
  PROVE  /\ Swapped(t) \div 256 \in Octet /\ Swapped(t) % 256 \in Octet
         /\ (Swapped(t) \div 256) + 256 * (Swapped(t) % 256) = t
<1>1. PICK l, h : l = t % 256 /\ h = t \div 256
  OBVIOUS
<1>2. l \in 0 .. 255 /\ h \in 0 .. 255 /\ t = l + 256 * h
  BY <1>1
<1>3. PICK s : s = Swapped(t)
  OBVIOUS
<1>4. s = 256 * l + h
  BY <1>1, <1>2, <1>3 DEF Swapped
<1>5. s \div 256 = l /\ s % 256 = h
  BY <1>2, <1>4
<1>. QED BY <1>2, <1>3, <1>5 DEF Octet

(* A sum with the complement of what it is folded to has checksum 0.       *)
LEMMA CompletedIsZero ==
  ASSUME NEW a \in Nat, a <= 65535 * 65534
  PROVE  /\ Folded(a) \in Nat /\ Folded(a) <= 65535
         /\ net_checksum_final(a + (65535 - Folded(a))) = 0
<1>1. PICK v : v = Folded(a)
  OBVIOUS
<1>2. PICK d : Congruent(a, d, v)
  BY <1>1, FoldedIs
<1>3. d \in Int /\ v \in Nat /\ v <= 65535 /\ a = 65535 * d + v
  BY <1>2 DEF Congruent
<1>4. PICK b : b = a + (65535 - v)
  OBVIOUS
<1>5. b \in Nat /\ b <= 65535 * 65535 /\ b = 65535 * (d + 1)
  BY <1>3, <1>4
<1>6. b > 0
  <2>1. a > 0 => b > 0
    BY <1>3, <1>4
  <2>2. a = 0 => v = 0
    <3>1. a = 0 => Folded(a) = 0
      BY DEF Folded
    <3>. QED BY <1>1, <3>1
  <2>. QED BY <1>3, <1>4, <2>1, <2>2
<1>7. PICK y : y = Folded(b)
  OBVIOUS
<1>8. PICK e : Congruent(b, e, y)
  BY <1>5, <1>7, FoldedIs
<1>9. y > 0
  BY <1>5, <1>6, <1>7, FoldedIs
<1>10. e \in Int /\ y \in Nat /\ y <= 65535 /\ b = 65535 * e + y
  BY <1>8 DEF Congruent
<1>11. y = 65535
  <2>1. y = 65535 * (d + 1 - e)
    BY <1>3, <1>5, <1>10
  <2>. QED BY <1>3, <1>9, <1>10, <2>1
<1>12. net_checksum_final(b) = Swapped(0)
  BY <1>5, <1>7, <1>11, FinalIs
<1>13. Swapped(0) = 0
  BY DEF Swapped
<1>14. net_checksum_final(b) = 0
  BY <1>12, <1>13
<1>15. a + (65535 - Folded(a)) = b
  BY <1>1, <1>4
<1>. QED BY <1>1, <1>3, <1>14, <1>15

\* The k-th word of data is where the checksum goes, and is 0.
Open(data, k) ==
    /\ data \in Seq(Octet) /\ k \in Nat /\ k > 0 /\ 2 * k <= Len(data)
    /\ data[2 * k - 1] = 0 /\ data[2 * k] = 0 /\ Len(data) <= 4000

(* What is summed has checksum 0, and keeps its other octets.              *)
LEMMA SummedIsZero ==
  ASSUME NEW data, NEW k, Open(data, k)
  PROVE  LET e == Summed(data, 2 * k - 1)
         IN  /\ e \in Seq(Octet) /\ Len(e) = Len(data)
             /\ \A n \in 1 .. Len(data) : n \notin {2 * k - 1, 2 * k} => e[n] = data[n]
             /\ net_checksum(e) = 0
<1>1. PICK l \in Nat : l = Len(data)
  BY DEF Open
<1>2. /\ data \in Seq(Octet) /\ k \in Nat /\ k > 0 /\ 2 * k <= l
      /\ data[2 * k - 1] = 0 /\ data[2 * k] = 0 /\ l <= 4000
  BY <1>1 DEF Open
<1>3. PICK W : W = WordCount(data)
  OBVIOUS
<1>4. W \in Nat /\ W = (l + 1) \div 2
  BY <1>1, <1>2, <1>3, CountIs
<1>5. k \in 1 .. W /\ W <= 2000
  BY <1>2, <1>4
<1>6. PICK t : Prefix(data, t)
  BY <1>2, PrefixExists
<1>7. /\ t \in [0 .. W -> Nat] /\ t[0] = 0
      /\ \A m \in 1 .. W : t[m] = t[m - 1] + WordAt(data, m) /\ t[m] <= 65535 * m
  BY <1>3, <1>6 DEF Prefix, PrefixTo
<1>8. PICK a : a = t[W]
  OBVIOUS
<1>9. a \in Nat /\ a <= 65535 * 2000 /\ net_checksum_acc(data) = a
  <2>1. W \in 1 .. W
    BY <1>4, <1>5
  <2>2. a \in Nat /\ a <= 65535 * W
    BY <1>7, <1>8, <2>1
  <2>3. Sums(data, t)
    BY <1>3, <1>7 DEF Sums
  <2>4. net_checksum_acc(data) = a
    BY <1>2, <1>3, <1>8, <2>3, SumIs
  <2>5. a <= 65535 * 2000
    BY <1>4, <1>5, <2>2
  <2>. QED BY <2>2, <2>4, <2>5
<1>10. PICK temp : temp = 65535 - Folded(a)
  OBVIOUS
<1>11. Folded(a) \in Nat /\ Folded(a) <= 65535 /\ net_checksum_final(a + temp) = 0
  <2>1. a <= 65535 * 65534
    BY <1>9
  <2>. QED BY <1>9, <1>10, <2>1, CompletedIsZero
<1>12. temp \in Nat /\ temp <= 65535
  BY <1>10, <1>11
<1>13. PICK v : v = net_checksum(data)
  OBVIOUS
<1>14. v = Swapped(temp)
  BY <1>9, <1>10, <1>11, <1>13, FinalIs DEF net_checksum
<1>15. PICK h, o : h = v \div 256 /\ o = v % 256
  OBVIOUS
<1>16. h \in Octet /\ o \in Octet /\ h + 256 * o = temp
  BY <1>12, <1>14, <1>15, OctetsOf
<1>17. PICK p, q : p = 2 * k - 1 /\ q = 2 * k
  OBVIOUS
<1>18. p \in 1 .. l /\ q \in 1 .. l /\ q = p + 1 /\ p # q
  BY <1>2, <1>17
<1>19. PICK e : e = Summed(data, p)
  OBVIOUS
<1>20. e = [data EXCEPT ![p] = h, ![q] = o]
  BY <1>13, <1>15, <1>18, <1>19 DEF Summed
<1>21. /\ e \in Seq(Octet) /\ Len(e) = l /\ e[p] = h /\ e[q] = o
       /\ \A n \in 1 .. l : n # p /\ n # q => e[n] = data[n]
  <2>1. PICK d : d = [data EXCEPT ![p] = h]
    OBVIOUS
  <2>2. d \in Seq(Octet) /\ Len(d) = l /\ d[p] = h /\ \A n \in 1 .. l : n # p => d[n] = data[n]
    BY <1>1, <1>2, <1>16, <1>18, <2>1, ExceptSeq
  <2>3. e = [d EXCEPT ![q] = o]
    BY <1>20, <2>1
  <2>. QED BY <1>16, <1>18, <2>2, <2>3, ExceptSeq
<1>22. WordCount(e) = W
  BY <1>1, <1>3, <1>21 DEF WordCount
<1>23. ASSUME NEW m \in 1 .. W
       PROVE  WordAt(e, m) = IF m = k THEN temp ELSE WordAt(data, m)
  <2>1. m \in Nat /\ 2 * m - 1 \in 1 .. l /\ (2 * m <= l => 2 * m \in 1 .. l)
    BY <1>4
  <2>2. CASE m = k
    <3>1. WordAt(e, k) = e[p] + 256 * e[q]
      BY <1>2, <1>17, <1>21 DEF WordAt
    <3>. QED BY <1>16, <1>21, <2>2, <3>1
  <2>3. CASE m # k
    <3>1. 2 * m - 1 # p /\ 2 * m - 1 # q /\ 2 * m # p /\ 2 * m # q
      BY <1>2, <1>17, <2>1, <2>3
    <3>2. e[2 * m - 1] = data[2 * m - 1] /\ (2 * m <= l => e[2 * m] = data[2 * m])
      BY <1>21, <2>1, <3>1
    <3>. QED BY <1>1, <1>21, <2>3, <3>2 DEF WordAt
  <2>. QED BY <2>2, <2>3
<1>24. WordAt(data, k) = 0
  BY <1>1, <1>2 DEF WordAt
<1>25. PICK s : s = [m \in 0 .. W |-> IF m < k THEN t[m] ELSE t[m] + temp]
  OBVIOUS
<1>26. s \in [0 .. W -> Nat] /\ s[0] = 0 /\ s[W] = a + temp
  <2>1. 0 \in 0 .. W /\ W \in 0 .. W /\ 0 < k /\ ~ (W < k)
    BY <1>2, <1>4, <1>5
  <2>2. \A m \in 0 .. W : t[m] \in Nat /\ t[m] + temp \in Nat
    BY <1>7, <1>12
  <2>3. s \in [0 .. W -> Nat]
    BY <1>25, <2>2
  <2>4. s[0] = t[0] /\ s[W] = t[W] + temp
    BY <1>25, <2>1
  <2>. QED BY <1>7, <1>8, <2>3, <2>4
<1>27. ASSUME NEW m \in 1 .. W
       PROVE  s[m] = s[m - 1] + WordAt(e, m)
  <2>1. m \in 0 .. W /\ m - 1 \in 0 .. W
    BY <1>4
  <2>2. t[m - 1] \in Nat /\ WordAt(data, m) \in Nat /\ t[m] = t[m - 1] + WordAt(data, m)
    BY <1>2, <1>3, <1>7, <2>1, WordAtIs
  <2>3. CASE m < k
    <3>1. s[m] = t[m] /\ s[m - 1] = t[m - 1] /\ m # k
      BY <1>2, <1>25, <2>1, <2>3
    <3>. QED BY <1>23, <2>2, <3>1
  <2>4. CASE m = k
    <3>1. s[m] = t[m] + temp /\ s[m - 1] = t[m - 1]
      BY <1>2, <1>25, <2>1, <2>4
    <3>. QED BY <1>12, <1>23, <1>24, <2>2, <2>4, <3>1
  <2>5. CASE m > k
    <3>1. s[m] = t[m] + temp /\ s[m - 1] = t[m - 1] + temp /\ m # k
      BY <1>2, <1>25, <2>1, <2>5
    <3>2. WordAt(e, m) = WordAt(data, m)
      BY <1>23, <3>1
    <3>. QED BY <1>12, <2>2, <3>1, <3>2
  <2>. QED BY <1>2, <2>3, <2>4, <2>5
<1>28. net_checksum_acc(e) = a + temp
  BY <1>21, <1>22, <1>26, <1>27, SumIs DEF Sums
<1>29. net_checksum(e) = 0
  BY <1>11, <1>28 DEF net_checksum
<1>. QED BY <1>1, <1>17, <1>19, <1>21, <1>29

-----------------------------------------------------------------------------
(* The reply to an echo request                                            *)

\* A row of n octets.
Row(a, n) == a \in Seq(Octet) /\ n \in Nat /\ Len(a) = n

(* A function of 1 .. n is a row.                                          *)
LEMMA RowOfFunction ==
  ASSUME NEW n \in Nat, NEW a \in [1 .. n -> Octet]
  PROVE  Row(a, n)
BY DEF Row

(* So is a function of 1 .. 2.                                             *)
LEMMA PairIs ==
  ASSUME NEW a \in [1 .. 2 -> Octet]
  PROVE  Row(a, 2)
BY RowOfFunction

(* What is in a row.                                                       *)
LEMMA RowHas ==
  ASSUME NEW n, NEW a, Row(a, n), NEW k \in 1 .. n
  PROVE  a[k] \in Octet
BY DEF Row

\* One row behind another.
Join(a, b) == a \o b

(* Two rows make one.                                                      *)
LEMMA JoinedRow ==
  ASSUME NEW a, NEW b, NEW m, NEW n, Row(a, m), Row(b, n)
  PROVE  Row(Join(a, b), m + n)
<1>1. a \in Seq(Octet) /\ b \in Seq(Octet) /\ m \in Nat /\ n \in Nat /\ Len(a) = m /\ Len(b) = n
  BY DEF Row
<1>2. a \o b \in Seq(Octet) /\ Len(a \o b) = m + n
  BY <1>1, ConcatProperties
<1>. QED BY <1>1, <1>2 DEF Row, Join

(* Its first octets are those of the first.                                *)
LEMMA JoinedHead ==
  ASSUME NEW a, NEW b, NEW m, NEW n, Row(a, m), Row(b, n), NEW k \in 1 .. m
  PROVE  Join(a, b)[k] = a[k]
<1>1. a \in Seq(Octet) /\ b \in Seq(Octet) /\ m \in Nat /\ n \in Nat /\ Len(a) = m /\ Len(b) = n
  BY DEF Row
<1>. QED BY <1>1 DEF Join

(* Its last octets are those of the second.                                *)
LEMMA JoinedTail ==
  ASSUME NEW a, NEW b, NEW m, NEW n, Row(a, m), Row(b, n), NEW k \in 1 .. n
  PROVE  Join(a, b)[m + k] = b[k]
<1>1. a \in Seq(Octet) /\ b \in Seq(Octet) /\ m \in Nat /\ n \in Nat /\ Len(a) = m /\ Len(b) = n
  BY DEF Row
<1>. QED BY <1>1 DEF Join

(* Behind a row, a pair.                                                   *)
LEMMA JoinedPair ==
  ASSUME NEW a, NEW b, NEW m, Row(a, m), Row(b, 2)
  PROVE  Join(a, b)[m + 1] = b[1] /\ Join(a, b)[m + 2] = b[2]
<1>1. PICK x, y : x = 1 /\ y = 2
  OBVIOUS
<1>2. x \in 1 .. 2 /\ y \in 1 .. 2
  BY <1>1
<1>3. Join(a, b)[m + x] = b[x] /\ Join(a, b)[m + y] = b[y]
  BY <1>2, JoinedTail
<1>. QED BY <1>1, <1>3

(* What the header holds.                                                  *)
LEMMA EchoHeaderIs ==
  ASSUME NEW i \in [1 .. 2 -> Octet], NEW q \in [1 .. 2 -> Octet]
  PROVE  LET h == EchoHeader(i, q)
         IN  /\ \A k \in 1 .. 8 : h[k] \in Octet
             /\ h[3] = 0 /\ h[4] = 0 /\ h[5] = i[1] /\ h[6] = i[2] /\ h[7] = q[1] /\ h[8] = q[2]
<1>1. PICK z : z = <<0, 0, 0, 0>>
  OBVIOUS
<1>2. Row(z, 4) /\ z[3] = 0 /\ z[4] = 0
  BY <1>1 DEF Octet, Row
<1>3. Row(i, 2) /\ Row(q, 2)
  BY PairIs
<1>4. PICK u : u = Join(z, i)
  OBVIOUS
<1>5. Row(u, 6)
  <2>1. Row(Join(z, i), 4 + 2)
    BY <1>2, <1>3, JoinedRow
  <2>. QED BY <1>4, <2>1
<1>6. u[3] = 0 /\ u[4] = 0
  <2>1. \A k \in 1 .. 4 : Join(z, i)[k] = z[k]
    BY <1>2, <1>3, JoinedHead
  <2>. QED BY <1>2, <1>4, <2>1
<1>7. u[5] = i[1] /\ u[6] = i[2]
  <2>1. Join(z, i)[4 + 1] = i[1] /\ Join(z, i)[4 + 2] = i[2]
    BY <1>2, <1>3, JoinedPair
  <2>. QED BY <1>4, <2>1
<1>8. PICK h : h = Join(u, q)
  OBVIOUS
<1>9. Row(h, 8)
  <2>1. Row(Join(u, q), 6 + 2)
    BY <1>3, <1>5, JoinedRow
  <2>. QED BY <1>8, <2>1
<1>10. h[3] = 0 /\ h[4] = 0 /\ h[5] = i[1] /\ h[6] = i[2]
  <2>1. \A k \in 1 .. 6 : Join(u, q)[k] = u[k]
    BY <1>3, <1>5, JoinedHead
  <2>. QED BY <1>6, <1>7, <1>8, <2>1
<1>11. h[7] = q[1] /\ h[8] = q[2]
  <2>1. Join(u, q)[6 + 1] = q[1] /\ Join(u, q)[6 + 2] = q[2]
    BY <1>3, <1>5, JoinedPair
  <2>. QED BY <1>8, <2>1
<1>12. h = EchoHeader(i, q)
  BY <1>1, <1>4, <1>8 DEF EchoHeader, Join
<1>13. \A k \in 1 .. 8 : h[k] \in Octet
  BY <1>9, RowHas
<1>. QED BY <1>10, <1>11, <1>12, <1>13

\* But for the checksum, the first n octets of m are h over and over.
Repeats(m, h, n) == \A k \in (1 .. n) \ {3, 4} : m[k] = h[((k - 1) % 8) + 1]

(* The ICMP message of a reply.                                            *)
LEMMA EchoMessageIs ==
  ASSUME NEW i \in [1 .. 2 -> Octet], NEW q \in [1 .. 2 -> Octet], NEW n \in Nat, n <= 1600, NEW old \in Octet
  PROVE  LET e == EchoMessage(i, q, n, old)
         IN  /\ Len(e) = n + 9 /\ e[n + 9] = old /\ net_checksum(e) = 0
             /\ Repeats(e, EchoHeader(i, q), n + 8)
<1>1. PICK h : h = EchoHeader(i, q)
  OBVIOUS
<1>2. /\ \A k \in 1 .. 8 : h[k] \in Octet
      /\ h[3] = 0 /\ h[4] = 0 /\ h[5] = i[1] /\ h[6] = i[2] /\ h[7] = q[1] /\ h[8] = q[2]
  BY <1>1, EchoHeaderIs
<1>3. PICK l : l = n + 9
  OBVIOUS
<1>4. l \in Nat /\ l >= 9 /\ l <= 4000
  BY <1>3
<1>5. PICK d : d = [k \in 1 .. l |-> IF k = l THEN old ELSE h[((k - 1) % 8) + 1]]
  OBVIOUS
<1>6. Row(d, l)
  <2>1. \A k \in 1 .. l : ((k - 1) % 8) + 1 \in 1 .. 8
    BY <1>4
  <2>2. d \in [1 .. l -> Octet]
    BY <1>2, <1>5, <2>1
  <2>. QED BY <1>4, <2>2, RowOfFunction
<1>7. d[3] = 0 /\ d[4] = 0
  <2>1. \A k \in 3 .. 4 : k \in 1 .. l /\ k # l /\ ((k - 1) % 8) + 1 = k
    BY <1>4
  <2>2. \A k \in 3 .. 4 : d[k] = h[k]
    BY <1>5, <2>1
  <2>. QED BY <1>2, <2>2
<1>8. d[l] = old /\ \A k \in 1 .. l : k # l => d[k] = h[((k - 1) % 8) + 1]
  BY <1>4, <1>5
<1>9. Open(d, 2)
  BY <1>4, <1>6, <1>7 DEF Open, Row
<1>10. PICK e : e = EchoMessage(i, q, n, old)
  OBVIOUS
<1>11. e = Summed(d, 3)
  BY <1>1, <1>3, <1>5, <1>10 DEF EchoMessage
<1>12. Row(e, l) /\ net_checksum(e) = 0 /\ \A m \in 1 .. l : m # 3 /\ m # 4 => e[m] = d[m]
  <2>1. 2 * 2 - 1 = 3 /\ 2 * 2 = 4
    OBVIOUS
  <2>2. LET g == Summed(d, 2 * 2 - 1)
        IN  /\ g \in Seq(Octet) /\ Len(g) = Len(d)
            /\ \A m \in 1 .. Len(d) : m \notin {2 * 2 - 1, 2 * 2} => g[m] = d[m]
            /\ net_checksum(g) = 0
    BY <1>9, SummedIsZero
  <2>3. Len(d) = l
    BY <1>6 DEF Row
  <2>. QED BY <1>4, <1>11, <2>1, <2>2, <2>3 DEF Row
<1>13. e[l] = old
  <2>1. l \in 1 .. l /\ l # 3 /\ l # 4
    BY <1>4
  <2>. QED BY <1>8, <1>12, <2>1
<1>14. Repeats(e, h, n + 8)
  <2>1. \A k \in (1 .. n + 8) \ {3, 4} : k \in 1 .. l /\ k # l /\ k # 3 /\ k # 4
    BY <1>3
  <2>. QED BY <1>8, <1>12, <2>1 DEF Repeats
<1>15. Len(e) = n + 9
  <2>1. Len(e) = l
    BY <1>12 DEF Row
  <2>. QED BY <1>3, <2>1
<1>. QED BY <1>1, <1>3, <1>10, <1>12, <1>13, <1>14, <1>15

(* The IP header of a reply.                                               *)
LEMMA IpHeaderIs ==
  ASSUME NEW len \in Nat, len \div 256 \in Octet, NEW dst \in [1 .. 4 -> Octet]
  PROVE  LET e == IpHeader(len, dst)
         IN  e[3] * 256 + e[4] = len /\ net_checksum(e) = 0
<1>1. PICK hi, lo : hi = len \div 256 /\ lo = len % 256
  OBVIOUS
<1>2. hi \in Octet /\ lo \in Octet /\ hi * 256 + lo = len
  BY <1>1 DEF Octet
<1>3. PICK z : z = <<69, 0, hi, lo, 0, 0, 0, 0, 64, 1, 0, 0>>
  OBVIOUS
<1>4. Row(z, 12) /\ z[3] = hi /\ z[4] = lo /\ z[11] = 0 /\ z[12] = 0
  <2>1. 0 \in Octet /\ 1 \in Octet /\ 64 \in Octet /\ 69 \in Octet
    BY DEF Octet
  <2>. QED BY <1>2, <1>3, <2>1 DEF Row
<1>5. Row(Me, 4) /\ Row(dst, 4)
  <2>1. Me \in [1 .. 4 -> Octet]
    BY WireAssumption
  <2>. QED BY <2>1, RowOfFunction
<1>6. PICK u : u = Join(z, Me)
  OBVIOUS
<1>7. Row(u, 16)
  <2>1. Row(Join(z, Me), 12 + 4)
    BY <1>4, <1>5, JoinedRow
  <2>. QED BY <1>6, <2>1
<1>8. u[3] = hi /\ u[4] = lo /\ u[11] = 0 /\ u[12] = 0
  <2>1. \A k \in 1 .. 12 : Join(z, Me)[k] = z[k]
    BY <1>4, <1>5, JoinedHead
  <2>. QED BY <1>4, <1>6, <2>1
<1>9. PICK d : d = Join(u, dst)
  OBVIOUS
<1>10. Row(d, 20)
  <2>1. Row(Join(u, dst), 16 + 4)
    BY <1>5, <1>7, JoinedRow
  <2>. QED BY <1>9, <2>1
<1>11. d[3] = hi /\ d[4] = lo /\ d[11] = 0 /\ d[12] = 0
  <2>1. \A k \in 1 .. 16 : Join(u, dst)[k] = u[k]
    BY <1>5, <1>7, JoinedHead
  <2>. QED BY <1>8, <1>9, <2>1
<1>12. Open(d, 6)
  BY <1>10, <1>11 DEF Open, Row
<1>13. PICK e : e = IpHeader(len, dst)
  OBVIOUS
<1>14. e = Summed(d, 11)
  BY <1>1, <1>3, <1>6, <1>9, <1>13 DEF IpHeader, Join
<1>15. net_checksum(e) = 0 /\ \A m \in 1 .. 20 : m # 11 /\ m # 12 => e[m] = d[m]
  <2>1. 2 * 6 - 1 = 11 /\ 2 * 6 = 12
    OBVIOUS
  <2>2. LET g == Summed(d, 2 * 6 - 1)
        IN  /\ g \in Seq(Octet) /\ Len(g) = Len(d)
            /\ \A m \in 1 .. Len(d) : m \notin {2 * 6 - 1, 2 * 6} => g[m] = d[m]
            /\ net_checksum(g) = 0
    BY <1>12, SummedIsZero
  <2>3. Len(d) = 20
    BY <1>10 DEF Row
  <2>. QED BY <1>14, <2>1, <2>2, <2>3
<1>16. e[3] = d[3] /\ e[4] = d[4]
  BY <1>15
<1>. QED BY <1>2, <1>11, <1>13, <1>15, <1>16

\* What the ICMP message m of a reply with n octets of data holds.
RightMessage(f, m, n) ==
    /\ Len(m) = n + 9
    /\ Repeats(m, EchoHeader(f.id, f.sequence), Len(m) - 1)
    /\ m[Len(m)] \in Old

\* What EchoAnswers says of a frame f and the reply r to it.
RightReply(f, r) ==
    /\ r.read <= r.end /\ r.end <= f.len
    /\ r.to = f.src /\ RightMessage(f, r.icmp, r.end - r.read)
    /\ NET_BUF_START + Len(r.icmp) <= NET_BUF_SIZE
    /\ r.ip[3] * 256 + r.ip[4] = IpHeaderSize + Len(r.icmp)
    /\ net_checksum(r.ip) = 0 /\ net_checksum(r.icmp) = 0

(* Every answer is right.                                                  *)
LEMMA AnswerIsRight ==
  ASSUME NEW f \in Frames, NEW old \in Old, Answer(f, old).sent
  PROVE  RightReply(f, Answer(f, old))
<1>1. /\ f.len \in Nat /\ f.len <= 1514 /\ f.ipLen \in Nat /\ f.ihl \in Nat
      /\ f.src \in [1 .. 4 -> Octet]
      /\ f.id \in [1 .. 2 -> Octet] /\ f.sequence \in [1 .. 2 -> Octet] /\ old \in Octet
  BY WireAssumption
<1>2. PICK e : e = eth_decode(f)
  OBVIOUS
<1>3. PICK m : m = IF e.sent /\ e.type = "IPv4" THEN ipv4_recv(f, e.start) ELSE None
  OBVIOUS
<1>4. None.sent = FALSE
  BY DEF None
<1>5. Answer(f, old) = IF m.sent THEN icmp_recv(f, m, old) ELSE None
  BY <1>2, <1>3 DEF Answer
<1>6. m.sent /\ Answer(f, old) = icmp_recv(f, m, old)
  BY <1>4, <1>5
<1>7. e.sent /\ m = ipv4_recv(f, e.start)
  BY <1>3, <1>4, <1>6
<1>8. e.start \in {14, 22}
  BY <1>2, <1>4, <1>7 DEF eth_decode, SnapSize, EthHeaderSize
<1>9. PICK a : a = e.start
  OBVIOUS
<1>10. m.start = a + 4 * f.ihl /\ m.end = a + f.ipLen /\ a + f.ipLen <= f.len
  BY <1>4, <1>6, <1>7, <1>9 DEF ipv4_recv
<1>11. PICK x, y : x = m.start /\ y = m.end
  OBVIOUS
<1>12. x \in Nat /\ y \in Nat /\ x >= 14 /\ y <= f.len /\ y <= 1514
  BY <1>1, <1>8, <1>9, <1>10, <1>11
<1>13. PICK r : r = icmp_recv(f, m, old)
  OBVIOUS
<1>14. r.sent
  BY <1>6, <1>13
<1>15. ~ (x + 8 > y)
  BY <1>4, <1>11, <1>13, <1>14 DEF icmp_recv
<1>16. PICK n : n = y - x - 8
  OBVIOUS
<1>17. n \in Nat /\ n <= 1600
  BY <1>12, <1>15, <1>16
<1>18. PICK g : g = EchoMessage(f.id, f.sequence, n, old)
  OBVIOUS
<1>19. /\ r.to = f.src /\ r.read = x + 8 /\ r.end = y
       /\ r.ip = IpHeader(IpHeaderSize + Len(g), f.src) /\ r.icmp = g
  BY <1>4, <1>11, <1>13, <1>14, <1>16, <1>18 DEF icmp_recv
<1>20. Len(g) = n + 9 /\ RightMessage(f, g, n) /\ net_checksum(g) = 0
  <2>1. PICK i, q : i = f.id /\ q = f.sequence
    OBVIOUS
  <2>2. i \in [1 .. 2 -> Octet] /\ q \in [1 .. 2 -> Octet] /\ old \in Octet
    BY <1>1, <2>1
  <2>3. g = EchoMessage(i, q, n, old)
    BY <1>18, <2>1
  <2>4. /\ Len(g) = n + 9 /\ g[n + 9] = old /\ net_checksum(g) = 0
        /\ Repeats(g, EchoHeader(i, q), n + 8)
    BY <1>17, <2>2, <2>3, EchoMessageIs
  <2>5. (n + 9) - 1 = n + 8
    BY <1>17
  <2>6. RightMessage(f, g, n)
    BY <2>1, <2>4, <2>5 DEF RightMessage
  <2>. QED BY <2>4, <2>6
<1>21. PICK w : w = IpHeaderSize + Len(g)
  OBVIOUS
<1>22. w \in Nat /\ w \div 256 \in Octet
  <2>1. w = n + 29
    BY <1>17, <1>20, <1>21 DEF IpHeaderSize
  <2>. QED BY <1>17, <2>1 DEF Octet
<1>23. r.ip[3] * 256 + r.ip[4] = w /\ net_checksum(r.ip) = 0
  BY <1>1, <1>19, <1>21, <1>22, IpHeaderIs
<1>24. NET_BUF_START + Len(g) <= NET_BUF_SIZE
  BY <1>12, <1>16, <1>17, <1>20 DEF NET_BUF_START, NET_BUF_SIZE
<1>25. r.read <= r.end /\ r.end <= f.len /\ r.end - r.read = n
  BY <1>12, <1>15, <1>16, <1>19
<1>26. RightReply(f, r)
  BY <1>19, <1>20, <1>21, <1>23, <1>24, <1>25 DEF RightReply
<1>. QED BY <1>6, <1>13, <1>26

(* A reply goes back to who asked with what it asked by, carries the       *)
(* length of the data and not the data, lets out one octet of what the     *)
(* buffer held, fits it and has checksums that verify, for every frame     *)
(* (eth_recv, ipv4_recv, icmp_recv, icmp_echo_reply, ipv4_send_intf,       *)
(* net_checksum).                                                          *)
THEOREM RepliesAreRight == WireSpec => []EchoAnswers
<1>1. WireInit => EchoAnswers
  <2>. SUFFICES ASSUME WireInit PROVE EchoAnswers
    OBVIOUS
  <2>1. reply.sent = FALSE
    BY DEF WireInit, None
  <2>. QED BY <2>1 DEF EchoAnswers
<1>2. EchoAnswers /\ [WireNext]_wireVars => EchoAnswers'
  <2>. SUFFICES ASSUME EchoAnswers, [WireNext]_wireVars PROVE EchoAnswers'
    OBVIOUS
  <2>1. CASE Receive
    <3>1. PICK f \in Frames, old \in Old : got' = <<f>> /\ reply' = Answer(f, old)
      BY <2>1 DEF Receive
    <3>2. got'[1] = f
      BY <3>1
    <3>3. reply'.sent => RightReply(f, reply')
      BY <3>1, AnswerIsRight
    <3>. QED BY <3>2, <3>3 DEF EchoAnswers, RightReply, RightMessage, Repeats
  <2>2. CASE UNCHANGED <<got, reply>>
    BY <2>2 DEF EchoAnswers
  <2>. QED BY <2>1, <2>2 DEF WireNext, AddRoute, wireVars
<1>. QED BY <1>1, <1>2, PTL DEF WireSpec

-----------------------------------------------------------------------------
(* The words of a stack                                                    *)

Regs   == General \cup Segments \cup {"ebp", "eip", "cs", "eflags"}
Labels == {"entry", "body", "noirq", "switched", "handler", "stub"}
Depths == {Addr(n) : n \in Nat}
Places == {Code(l) : l \in Labels}
Values == {Own(p, r) : p \in Proc, r \in General}
Word   == Depths \cup Places \cup Values \cup {Zero, Sel, Kernel, Flags(TRUE), Flags(FALSE)}

\* t is s with n words on top.
Above(t, s, n) ==
    /\ t \in Seq(Word) /\ s \in Seq(Word) /\ Len(t) = Len(s) + n
    /\ \A k \in 1 .. Len(s) : t[k] = s[k]

LEMMA WordIs ==
  /\ \A n \in Nat : Addr(n) \in Word
  /\ \A l \in Labels : Code(l) \in Word
  /\ \A p \in Proc, r \in General : Own(p, r) \in Word
  /\ Zero \in Word /\ Sel \in Word /\ Kernel \in Word
  /\ Flags(TRUE) \in Word /\ Flags(FALSE) \in Word
<1>1. \A n \in Nat : Addr(n) \in Word
  BY DEF Word, Depths
<1>2. \A l \in Labels : Code(l) \in Word
  BY DEF Word, Places
<1>3. \A p \in Proc, r \in General : Own(p, r) \in Word
  <2>1. \A p \in Proc, r \in General : Own(p, r) \in Values
    BY DEF Values
  <2>. QED BY <2>1 DEF Word
<1>4. Zero \in Word /\ Sel \in Word /\ Kernel \in Word
  BY DEF Word
<1>5. Flags(TRUE) \in Word /\ Flags(FALSE) \in Word
  BY DEF Word
<1>. QED BY <1>1, <1>2, <1>3, <1>4, <1>5

(* Words put on top of a stack stay above it, whatever is put on them.     *)
LEMMA AboveAbove ==
  ASSUME NEW u, NEW t, NEW s, NEW m \in Nat, NEW n \in Nat, NEW k, k = n + m,
         Above(u, t, m), Above(t, s, n)
  PROVE  Above(u, s, k)
<1>1. PICK a : a = Len(s)
  OBVIOUS
<1>2. PICK b : b = Len(t)
  OBVIOUS
<1>3. a \in Nat /\ b \in Nat /\ b = a + n /\ Len(u) = b + m
  BY <1>1, <1>2 DEF Above
<1>4. Len(u) = a + k
  BY <1>3
<1>5. \A j \in 1 .. a : j \in 1 .. b
  BY <1>3
<1>. QED BY <1>1, <1>2, <1>4, <1>5 DEF Above

(* Dropping them leaves what is below.                                     *)
LEMMA DropIs ==
  ASSUME NEW t, NEW s, NEW n \in Nat, Above(t, s, n)
  PROVE  Drop(t, n) = s
<1>1. PICK a : a = Len(s)
  OBVIOUS
<1>2. t \in Seq(Word) /\ s \in Seq(Word) /\ Len(t) = a + n /\ a \in Nat
      /\ \A k \in 1 .. a : t[k] = s[k]
  BY <1>1 DEF Above
<1>3. Len(t) - n = a
  BY <1>2
<1>4. PICK u : u = SubSeq(t, 1, a)
  OBVIOUS
<1>5. u \in Seq(Word) /\ Len(u) = a /\ \A k \in 1 .. a : u[k] = t[k]
  BY <1>2, <1>4
<1>6. u = s
  BY <1>1, <1>2, <1>5, SeqEqual
<1>. QED BY <1>3, <1>4, <1>6 DEF Drop

\* Dropping some of them leaves the others.
LEMMA DropSome ==
  ASSUME NEW t, NEW s, NEW n \in Nat, NEW d \in 0 .. n, Above(t, s, n)
  PROVE  /\ Above(Drop(t, d), s, n - d)
         /\ \A k \in 1 .. Len(s) + (n - d) : Drop(t, d)[k] = t[k]
<1>1. PICK a : a = Len(s)
  OBVIOUS
<1>2. t \in Seq(Word) /\ s \in Seq(Word) /\ Len(t) = a + n /\ a \in Nat
      /\ \A k \in 1 .. a : t[k] = s[k]
  BY <1>1 DEF Above
<1>3. Len(t) - d = a + (n - d) /\ a + (n - d) \in 0 .. Len(t) /\ n - d \in Nat
  BY <1>2
<1>4. PICK u : u = SubSeq(t, 1, a + (n - d))
  OBVIOUS
<1>5. u \in Seq(Word) /\ Len(u) = a + (n - d) /\ \A k \in 1 .. a + (n - d) : u[k] = t[k]
  BY <1>2, <1>3, <1>4
<1>6. \A k \in 1 .. a : k \in 1 .. a + (n - d)
  BY <1>2, <1>3
<1>7. u = Drop(t, d)
  BY <1>3, <1>4 DEF Drop
<1>. QED BY <1>1, <1>2, <1>5, <1>6, <1>7 DEF Above

(* A sequence put on top of a stack.                                       *)
LEMMA PutOn ==
  ASSUME NEW s \in Seq(Word), NEW v \in Seq(Word), NEW n \in Nat, Len(v) = n
  PROVE  /\ Above(s \o v, s, n)
         /\ \A k \in 1 .. n : (s \o v)[Len(s) + k] = v[k]
<1>1. PICK a : a = Len(s)
  OBVIOUS
<1>2. PICK t : t = s \o v
  OBVIOUS
<1>3. t \in Seq(Word) /\ Len(t) = Len(s) + Len(v)
      /\ \A k \in 1 .. Len(s) + Len(v) : t[k] = IF k <= Len(s) THEN s[k] ELSE v[k - Len(s)]
  BY <1>2, ConcatProperties
<1>4. Len(t) = a + n /\ a \in Nat /\ \A k \in 1 .. a + n : t[k] = IF k <= a THEN s[k] ELSE v[k - a]
  <2>1. a \in Nat
    BY <1>1
  <2>2. Len(s) = a /\ Len(v) = n
    BY <1>1
  <2>. QED BY <1>3, <2>1, <2>2
<1>5. \A k \in 1 .. a : t[k] = s[k]
  BY <1>4
<1>6. \A k \in 1 .. n : t[a + k] = v[k]
  BY <1>4
<1>. QED BY <1>1, <1>2, <1>3, <1>4, <1>5, <1>6 DEF Above

(* A push of registers: their values, in that order.                       *)
LEMMA PushIs ==
  ASSUME NEW s \in Seq(Word), NEW m \in [Regs -> Word], NEW regs \in Seq(Regs)
  PROVE  /\ Above(Push(s, m, regs), s, Len(regs))
         /\ \A k \in 1 .. Len(regs) : Push(s, m, regs)[Len(s) + k] = m[regs[k]]
<1>1. PICK n : n = Len(regs)
  OBVIOUS
<1>2. PICK v : v = [k \in DOMAIN regs |-> m[regs[k]]]
  OBVIOUS
<1>3. n \in Nat /\ DOMAIN regs = 1 .. n /\ \A k \in 1 .. n : regs[k] \in Regs
  BY <1>1
<1>4. v = [k \in 1 .. n |-> m[regs[k]]] /\ \A k \in 1 .. n : m[regs[k]] \in Word
  BY <1>2, <1>3
<1>5. v \in Seq(Word) /\ Len(v) = n /\ \A k \in 1 .. n : v[k] = m[regs[k]]
  BY <1>3, <1>4
<1>6. Push(s, m, regs) = s \o v
  BY <1>2 DEF Push
<1>. QED BY <1>1, <1>3, <1>5, <1>6, PutOn

(* A call, and the prologue of what is called.                             *)
LEMMA EnteredIs ==
  ASSUME NEW s \in Seq(Word), NEW m, m.ebp \in Word, NEW ret \in Word
  PROVE  /\ Above(Entered(s, m, ret), s, 2)
         /\ Entered(s, m, ret)[Len(s) + 1] = ret
         /\ Entered(s, m, ret)[Len(s) + 2] = m.ebp
<1>1. PICK v : v = <<ret, m.ebp>>
  OBVIOUS
<1>2. v \in Seq(Word) /\ Len(v) = 2 /\ v[1] = ret /\ v[2] = m.ebp
  BY <1>1
<1>3. Entered(s, m, ret) = s \o v
  BY <1>1 DEF Entered
<1>4. Above(s \o v, s, 2) /\ \A k \in 1 .. 2 : (s \o v)[Len(s) + k] = v[k]
  BY <1>2, PutOn
<1>5. 1 \in 1 .. 2 /\ 2 \in 1 .. 2
  OBVIOUS
<1>6. (s \o v)[Len(s) + 1] = v[1] /\ (s \o v)[Len(s) + 2] = v[2]
  BY <1>4, <1>5
<1>. QED BY <1>2, <1>3, <1>4, <1>6

(* Three words on an empty stack.                                          *)
LEMMA Three ==
  ASSUME NEW s, NEW x \in Word, Len(s) = 3, s \in Seq(Word), NEW y \in Word, NEW z \in Word,
         s[1] = x, s[2] = y, s[3] = z
  PROVE  s = <<x, y, z>>
<1>1. PICK t : t = <<x, y, z>>
  OBVIOUS
<1>2. t \in Seq(Word) /\ Len(t) = 3 /\ t[1] = x /\ t[2] = y /\ t[3] = z
  BY <1>1
<1>. QED BY <1>1, <1>2, SeqEqual

(* A depth is a word.                                                      *)
LEMMA DepthIs ==
  ASSUME NEW s \in Seq(Word)
  PROVE  Addr(Len(s)) \in Word
<1>1. PICK n \in Nat : n = Len(s)
  OBVIOUS
<1>. QED BY <1>1, WordIs

(* One more word.                                                          *)
LEMMA AppendIs ==
  ASSUME NEW s \in Seq(Word), NEW x \in Word
  PROVE  Above(Append(s, x), s, 1) /\ Append(s, x)[Len(s) + 1] = x
BY DEF Above

\* The words on top of s are the values that m has in regs.
Tops(s, m, regs) == \A k \in DOMAIN regs : s[Len(s) + 1 - k] = m[regs[k]]

\* Only in regs does x differ from m.
Agree(x, m, regs) == \A r \in Regs : (\A k \in DOMAIN regs : regs[k] # r) => x[r] = m[r]

(* Popping registers whose values are those of m, and leaving the others,  *)
(* which are those of m already, gives m.                                  *)
LEMMA PoppedIs ==
  ASSUME NEW s, NEW x, NEW m \in [Regs -> Word], NEW regs, DOMAIN x = Regs,
         Tops(s, m, regs), Agree(x, m, regs)
  PROVE  Popped(s, x, regs) = m
<1>. DEFINE P(r) == IF \E k \in DOMAIN regs : regs[k] = r
                    THEN s[Len(s) + 1 - CHOOSE k \in DOMAIN regs : regs[k] = r] ELSE x[r]
<1>1. ASSUME NEW r \in Regs PROVE P(r) = m[r]
  <2>1. CASE \E k \in DOMAIN regs : regs[k] = r
    <3>1. PICK j : j = CHOOSE k \in DOMAIN regs : regs[k] = r
      OBVIOUS
    <3>2. j \in DOMAIN regs /\ regs[j] = r
      BY <2>1, <3>1
    <3>3. P(r) = s[Len(s) + 1 - j]
      BY <2>1, <3>1
    <3>. QED BY <3>2, <3>3 DEF Tops
  <2>2. CASE ~ \E k \in DOMAIN regs : regs[k] = r
    BY <2>2 DEF Agree
  <2>. QED BY <2>1, <2>2
<1>2. Popped(s, x, regs) = [r \in Regs |-> P(r)]
  BY DEF Popped
<1>. HIDE DEF P
<1>. QED BY <1>1, <1>2

-----------------------------------------------------------------------------
(* Frames                                                                  *)

LEMMA RegsAre ==
  /\ Regs = {"eax", "ebx", "ecx", "edx", "esi", "edi", "ds", "es", "fs", "gs", "ebp", "eip", "cs", "eflags"}
  /\ General = {"eax", "ebx", "ecx", "edx", "esi", "edi"} /\ Segments = {"ds", "es", "fs", "gs"}
  /\ General \subseteq Regs /\ Segments \subseteq Regs
BY DEF Regs, General, Segments

(* The three words of an interrupt gate.                                   *)
LEMMA GateIs ==
  /\ Gate \in Seq(Regs) /\ Len(Gate) = 3
  /\ Gate[1] = "eflags" /\ Gate[2] = "cs" /\ Gate[3] = "eip"
  /\ Reverse(Gate) \in Seq(Regs) /\ Len(Reverse(Gate)) = 3 /\ DOMAIN Reverse(Gate) = 1 .. 3
  /\ Reverse(Gate)[1] = "eip" /\ Reverse(Gate)[2] = "cs" /\ Reverse(Gate)[3] = "eflags"
<1>1. Len(Gate) = 3 /\ Gate[1] = "eflags" /\ Gate[2] = "cs" /\ Gate[3] = "eip"
  BY DEF Gate
<1>2. Gate \in Seq(Regs)
  BY RegsAre DEF Gate
<1>3. PICK g : g = Reverse(Gate)
  OBVIOUS
<1>4. g = [k \in 1 .. 3 |-> Gate[(3 - k) + 1]]
  BY <1>1, <1>3 DEF Reverse
<1>5. \A k \in 1 .. 3 : Gate[(3 - k) + 1] \in Regs
  BY <1>1, RegsAre
<1>6. g \in Seq(Regs) /\ Len(g) = 3 /\ DOMAIN g = 1 .. 3
  BY <1>4, <1>5
<1>7. g[1] = "eip" /\ g[2] = "cs" /\ g[3] = "eflags"
  BY <1>1, <1>4
<1>. QED BY <1>1, <1>2, <1>3, <1>6, <1>7

(* The twelve words the stub saves: eleven registers, eax at two places.   *)
LEMMA SavedIs ==
  /\ Saved \in Seq(Regs) /\ Len(Saved) = 12
  /\ Saved[1] = "eax" /\ Saved[2] = "ecx" /\ Saved[3] = "edx" /\ Saved[4] = "ebx" /\ Saved[5] = "eax"
  /\ Saved[6] = "ebp" /\ Saved[7] = "esi" /\ Saved[8] = "edi" /\ Saved[9] = "ds" /\ Saved[10] = "es"
  /\ Saved[11] = "fs" /\ Saved[12] = "gs"
  /\ DOMAIN Reverse(Saved) = 1 .. 12 /\ \A k \in 1 .. 12 : Reverse(Saved)[k] = Saved[13 - k]
<1>1. PICK q : q = Saved
  OBVIOUS
<1>2. /\ Len(q) = 12
      /\ q[1] = "eax" /\ q[2] = "ecx" /\ q[3] = "edx" /\ q[4] = "ebx" /\ q[5] = "eax"
      /\ q[6] = "ebp" /\ q[7] = "esi" /\ q[8] = "edi" /\ q[9] = "ds" /\ q[10] = "es"
      /\ q[11] = "fs" /\ q[12] = "gs"
  BY <1>1 DEF Saved
<1>3. q \in Seq(Regs)
  BY <1>1, RegsAre DEF Saved
<1>4. PICK g : g = Reverse(Saved)
  OBVIOUS
<1>5. g = [k \in 1 .. 12 |-> q[(12 - k) + 1]]
  BY <1>1, <1>2, <1>4 DEF Reverse
<1>6. \A k \in 1 .. 12 : (12 - k) + 1 = 13 - k
  OBVIOUS
<1>7. DOMAIN g = 1 .. 12 /\ \A k \in 1 .. 12 : g[k] = q[13 - k]
  BY <1>5, <1>6
<1>. QED BY <1>1, <1>2, <1>3, <1>4, <1>7

\* What a process is dispatched from, popped from its top down.
Order == Pops \o Reverse(Gate)

LEMMA OrderIs ==
  /\ Order \in Seq(Regs) /\ Len(Order) = 14 /\ DOMAIN Order = 1 .. 14
  /\ Order[1] = "gs" /\ Order[2] = "fs" /\ Order[3] = "es" /\ Order[4] = "ds"
  /\ Order[5] = "ebp" /\ Order[6] = "edi" /\ Order[7] = "esi" /\ Order[8] = "edx"
  /\ Order[9] = "ecx" /\ Order[10] = "ebx" /\ Order[11] = "eax"
  /\ Order[12] = "eip" /\ Order[13] = "cs" /\ Order[14] = "eflags"
<1>1. PICK g : g = Reverse(Gate)
  OBVIOUS
<1>2. g \in Seq(Regs) /\ Len(g) = 3 /\ g[1] = "eip" /\ g[2] = "cs" /\ g[3] = "eflags"
  BY <1>1, GateIs
<1>3. PICK q : q = Pops
  OBVIOUS
<1>4. /\ q \in Seq(Regs) /\ Len(q) = 11
      /\ q[1] = "gs" /\ q[2] = "fs" /\ q[3] = "es" /\ q[4] = "ds"
      /\ q[5] = "ebp" /\ q[6] = "edi" /\ q[7] = "esi" /\ q[8] = "edx"
      /\ q[9] = "ecx" /\ q[10] = "ebx" /\ q[11] = "eax"
  BY <1>3, RegsAre DEF Pops
<1>5. PICK o : o = q \o g
  OBVIOUS
<1>6. o \in Seq(Regs) /\ Len(o) = 14 /\ \A k \in 1 .. 14 : o[k] = IF k <= 11 THEN q[k] ELSE g[k - 11]
  <2>1. /\ o \in Seq(Regs) /\ Len(o) = Len(q) + Len(g)
        /\ \A k \in 1 .. Len(q) + Len(g) : o[k] = IF k <= Len(q) THEN q[k] ELSE g[k - Len(q)]
    BY <1>2, <1>4, <1>5, ConcatProperties
  <2>2. Len(q) = 11 /\ Len(g) = 3
    BY <1>2, <1>4
  <2>. QED BY <2>1, <2>2
<1>7. o = Order
  BY <1>1, <1>3, <1>5 DEF Order
<1>8. \A k \in 1 .. 11 : o[k] = q[k]
  BY <1>6
<1>9. o[12] = g[1] /\ o[13] = g[2] /\ o[14] = g[3]
  BY <1>6
<1>. QED BY <1>2, <1>4, <1>6, <1>7, <1>8, <1>9

-----------------------------------------------------------------------------
(* What a process holds                                                    *)

Sane(m) == m \in [Regs -> Word] /\ (\A r \in Segments : m[r] = Sel) /\ m.cs = Kernel

\* m and s are registers and stack of a process that runs its own code, or
\* has yielded: it does not notice interrupts.  a is what it had then.
AtEntry(m, s) == m.eip = Code("entry") /\ m.ebp = Addr(0) /\ s = <<>>
InBody(m, s)  == m.eip = Code("body") /\ m.ebp = Addr(1) /\ s = <<Addr(0)>>
InYield(a, m, s) ==
    /\ m.eip \in {Code("noirq"), Code("switched")}
    /\ s = <<Addr(0), Code("body"), Addr(1)>>
    /\ \E m1 : /\ a = <<m1, <<Addr(0)>>>> /\ Sane(m1)
               /\ m1.eflags = Flags(TRUE) /\ InBody(m1, <<Addr(0)>>)
Free(a, m, s) == m.eflags = Flags(TRUE) /\ (AtEntry(m, s) \/ InBody(m, s) \/ InYield(a, m, s))

\* h is the stack s with what an interrupt saves of m on top.
IntFrame(h, s, m) ==
    /\ Above(h, s, 20)
    /\ h[Len(s) + 1] = m.eflags /\ h[Len(s) + 2] = m.cs /\ h[Len(s) + 3] = m.eip
    /\ \A j \in 1 .. 12 : h[Len(s) + 5 + j] = m[Saved[j]]

\* An interrupt has stopped it: b is what it had then.
Stopped(a, b, m, s) ==
    /\ m.eflags = Flags(FALSE)
    /\ \E m0, s0, h :
          /\ b = <<m0, s0>> /\ Sane(m0) /\ Free(a, m0, s0) /\ m0.eip # Code("entry")
          /\ IntFrame(h, s0, m0)
          /\ \/ m.eip = Code("handler") /\ s = h
             \/ /\ m.eip \in {Code("noirq"), Code("switched")}
                /\ Above(s, h, 2) /\ s[Len(h) + 1] = Code("handler")

Held(a, b, m, s) == Sane(m) /\ s \in Seq(Word) /\ (Free(a, m, s) \/ Stopped(a, b, m, s))

LEMMA CodesDiffer ==
  ASSUME NEW k, NEW l, Code(k) = Code(l) PROVE k = l
BY DEF Code

LEMMA FlagsDiffer == Flags(TRUE) # Flags(FALSE)
BY DEF Flags

\* The registers process p starts with, and those its handler starts with.
Started(p, m, s) ==
    [r \in DOMAIN m |->
        IF r \in General THEN Own(p, r)
        ELSE IF r = "ebp" THEN Addr(Len(s)) ELSE IF r = "eip" THEN Code("body") ELSE m[r]]
Halted(m, s) ==
    [r \in DOMAIN m |->
        IF r \in Segments THEN Sel
        ELSE IF r = "ebp" THEN Addr(Len(s)) ELSE IF r = "eip" THEN Code("noirq")
        ELSE IF r = "eflags" THEN Flags(FALSE) ELSE m[r]]

(* The prologue of the process's own function.                             *)
LEMMA Starts ==
  ASSUME NEW p \in Proc, NEW m, NEW s, NEW s2, NEW m2, Sane(m), AtEntry(m, s), m.eflags = Flags(TRUE),
         s2 = Append(s, m.ebp), m2 = Started(p, m, s2)
  PROVE  Sane(m2) /\ m2.eflags = Flags(TRUE) /\ InBody(m2, s2) /\ s2 \in Seq(Word)
<1>1. s2 = <<Addr(0)>> /\ Len(s2) = 1
  BY DEF AtEntry
<1>2. DOMAIN m = Regs /\ \A r \in Regs : m[r] \in Word
  BY DEF Sane
<1>3. Code("body") \in Word /\ Addr(1) \in Word /\ Addr(0) \in Word /\ \A r \in General : Own(p, r) \in Word
  BY WordIs DEF Labels
<1>4. m2 \in [Regs -> Word]
  BY <1>1, <1>2, <1>3 DEF Started
<1>5. /\ m2.eflags = m.eflags /\ m2.cs = m.cs /\ m2.eip = Code("body") /\ m2.ebp = Addr(1)
      /\ \A r \in Segments : m2[r] = m[r]
  BY <1>1, <1>2, RegsAre DEF Started
<1>6. s2 \in Seq(Word)
  BY <1>1, <1>3
<1>. QED BY <1>1, <1>4, <1>5, <1>6 DEF Sane, InBody

(* A yield: what the process has is what it called with.                   *)
LEMMA Yields ==
  ASSUME NEW b, NEW m, NEW s, NEW s2, NEW m2, Sane(m), InBody(m, s), m.eflags = Flags(TRUE),
         s2 = Entered(s, m, Code("body")),
         m2 = [m EXCEPT !.ebp = Addr(Len(s2)), !.eip = Code("noirq")]
  PROVE  Held(<<m, s>>, b, m2, s2)
<1>1. s2 = <<Addr(0), Code("body"), Addr(1)>> /\ Len(s2) = 3 /\ s2 \in Seq(Word)
  <2>1. s \in Seq(Word) /\ Len(s) = 1 /\ s[1] = Addr(0) /\ m.ebp = Addr(1)
        /\ Addr(0) \in Word /\ Addr(1) \in Word /\ Code("body") \in Word
    BY WordIs DEF InBody, Labels
  <2>2. Above(s2, s, 2) /\ s2[Len(s) + 1] = Code("body") /\ s2[Len(s) + 2] = m.ebp
    BY <2>1, EnteredIs
  <2>3. s2 \in Seq(Word) /\ Len(s2) = 3 /\ s2[1] = Addr(0) /\ s2[2] = Code("body") /\ s2[3] = Addr(1)
    BY <2>1, <2>2 DEF Above
  <2>. QED BY <2>1, <2>3, Three
<1>2. Code("body") \in Word /\ Code("noirq") \in Word /\ Addr(1) \in Word /\ Addr(0) \in Word /\ Addr(3) \in Word
  BY WordIs DEF Labels
<1>3. DOMAIN m = Regs /\ m \in [Regs -> Word]
  BY DEF Sane
<1>4. m2 \in [Regs -> Word]
  BY <1>1, <1>2, <1>3
<1>5. /\ m2.eflags = m.eflags /\ m2.cs = m.cs /\ m2.eip = Code("noirq")
      /\ \A r \in Segments : m2[r] = m[r]
  BY <1>1, <1>3, RegsAre
<1>7. Sane(m2)
  BY <1>4, <1>5 DEF Sane
<1>8. InYield(<<m, s>>, m2, s2)
  BY <1>1, <1>5 DEF InYield, InBody
<1>. QED BY <1>1, <1>5, <1>7, <1>8 DEF Held, Free

(* The words an interrupt puts on a stack, from one part to the next.      *)
LEMMA Parts ==
  ASSUME NEW s, NEW g, NEW z, NEW v, Above(g, s, 3), Above(z, g, 2), Above(v, z, 12)
  PROVE  Above(z, s, 5) /\ Above(v, g, 14) /\ Above(v, s, 17)
<1>1. Above(z, s, 5)
  BY AboveAbove
<1>2. Above(v, g, 14)
  BY AboveAbove
<1>3. Above(v, s, 17)
  BY <1>1, AboveAbove
<1>. QED BY <1>1, <1>2, <1>3

\* The stack an interrupt of the registers m leaves: what the gate and the
\* stub save, the call of irq_handler, and its call of schedule_noirq.
Filled(s, m) == Push(Push(s, m, Gate) \o <<Zero, Zero>>, m, Saved)
Nested(v, m) == Entered(Append(v, Addr(Len(v))), m, Code("stub"))
Called(h, m) == Entered(h, [m EXCEPT !.ebp = Addr(Len(h))], Code("handler"))

LEMMA FilledIs ==
  ASSUME NEW s \in Seq(Word), NEW m \in [Regs -> Word]
  PROVE  /\ Above(Filled(s, m), s, 17)
         /\ Filled(s, m)[Len(s) + 1] = m.eflags /\ Filled(s, m)[Len(s) + 2] = m.cs
         /\ Filled(s, m)[Len(s) + 3] = m.eip
         /\ \A j \in 1 .. 12 : Filled(s, m)[Len(s) + 5 + j] = m[Saved[j]]
<1>. PICK l, v : l = Len(s) /\ v = Filled(s, m)
  OBVIOUS
<1>1. l \in Nat
  OBVIOUS
<1>2. PICK g : g = Push(s, m, Gate)
  OBVIOUS
<1>3. Above(g, s, 3) /\ \A k \in 1 .. 3 : g[l + k] = m[Gate[k]]
  BY <1>2, GateIs, PushIs
<1>4. PICK y : y = <<Zero, Zero>>
  OBVIOUS
<1>5. PICK z : z = g \o y
  OBVIOUS
<1>6. Above(z, g, 2)
  <2>1. y \in Seq(Word) /\ Len(y) = 2 /\ g \in Seq(Word)
    BY <1>3, <1>4, WordIs DEF Above
  <2>. QED BY <1>5, <2>1, PutOn
<1>7. v = Push(z, m, Saved)
  BY <1>2, <1>4, <1>5 DEF Filled
<1>8. Above(v, z, 12) /\ \A j \in 1 .. 12 : v[Len(z) + j] = m[Saved[j]]
  <2>1. z \in Seq(Word)
    BY <1>6 DEF Above
  <2>2. Above(Push(z, m, Saved), z, Len(Saved))
        /\ \A j \in 1 .. Len(Saved) : Push(z, m, Saved)[Len(z) + j] = m[Saved[j]]
    BY <2>1, SavedIs, PushIs
  <2>3. Len(Saved) = 12
    BY SavedIs
  <2>. QED BY <1>7, <2>2, <2>3
<1>9. Above(z, s, 5) /\ Above(v, g, 14) /\ Above(v, s, 17)
  BY <1>3, <1>6, <1>8, Parts
<1>10. Len(g) = l + 3 /\ Len(z) = l + 5
  BY <1>3, <1>9 DEF Above
<1>11. \A k \in 1 .. 3 : v[l + k] = g[l + k]
  <2>1. \A i \in 1 .. l + 3 : v[i] = g[i]
    BY <1>9, <1>10 DEF Above
  <2>2. \A k \in 1 .. 3 : l + k \in 1 .. l + 3
    BY <1>1
  <2>. QED BY <2>1, <2>2
<1>12. 1 \in 1 .. 3 /\ 2 \in 1 .. 3 /\ 3 \in 1 .. 3
  OBVIOUS
<1>13. v[l + 1] = m.eflags /\ v[l + 2] = m.cs /\ v[l + 3] = m.eip
  BY <1>3, <1>11, <1>12, GateIs
<1>. QED BY <1>8, <1>9, <1>10, <1>13

LEMMA NestedIs ==
  ASSUME NEW v \in Seq(Word), NEW m \in [Regs -> Word]
  PROVE  Above(Nested(v, m), v, 3)
<1>1. PICK w : w = Append(v, Addr(Len(v)))
  OBVIOUS
<1>2. Above(w, v, 1)
  BY <1>1, DepthIs, AppendIs
<1>3. w \in Seq(Word) /\ Code("stub") \in Word /\ m.ebp \in Word
  BY <1>2, WordIs, RegsAre DEF Above, Labels
<1>4. PICK h : h = Entered(w, m, Code("stub"))
  OBVIOUS
<1>5. Above(h, w, 2)
  BY <1>3, <1>4, EnteredIs
<1>6. Above(h, v, 3)
  BY <1>2, <1>5, AboveAbove
<1>. QED BY <1>1, <1>4, <1>6 DEF Nested

LEMMA CalledIs ==
  ASSUME NEW h \in Seq(Word), NEW m \in [Regs -> Word]
  PROVE  Above(Called(h, m), h, 2) /\ Called(h, m)[Len(h) + 1] = Code("handler")
<1>1. PICK x : x = [m EXCEPT !.ebp = Addr(Len(h))]
  OBVIOUS
<1>2. Addr(Len(h)) \in Word /\ Code("handler") \in Word
  BY DepthIs, WordIs DEF Labels
<1>3. x.ebp \in Word
  BY <1>1, <1>2, RegsAre
<1>4. Above(Entered(h, x, Code("handler")), h, 2) /\ Entered(h, x, Code("handler"))[Len(h) + 1] = Code("handler")
  BY <1>2, <1>3, EnteredIs
<1>. QED BY <1>1, <1>4 DEF Called

LEMMA Interrupted ==
  ASSUME NEW s \in Seq(Word), NEW m \in [Regs -> Word], NEW v, NEW h, v = Filled(s, m), h = Nested(v, m)
  PROVE  IntFrame(h, s, m)
<1>1. PICK l : l = Len(s)
  OBVIOUS
<1>2. l \in Nat
  BY <1>1
<1>3. /\ Above(v, s, 17)
      /\ v[l + 1] = m.eflags /\ v[l + 2] = m.cs /\ v[l + 3] = m.eip
      /\ \A j \in 1 .. 12 : v[l + 5 + j] = m[Saved[j]]
  BY <1>1, FilledIs
<1>4. Above(h, v, 3)
  BY <1>3, NestedIs DEF Above
<1>5. Above(h, s, 20)
  <2>1. Above(v, s, 17)
    BY <1>3
  <2>2. 17 \in Nat /\ 3 \in Nat /\ 20 = 17 + 3
    OBVIOUS
  <2>. QED BY <1>4, <2>1, <2>2, AboveAbove
<1>6. Len(v) = l + 17
  BY <1>1, <1>3 DEF Above
<1>7. \A k \in 1 .. 17 : h[l + k] = v[l + k]
  <2>1. \A i \in 1 .. l + 17 : h[i] = v[i]
    BY <1>4, <1>6 DEF Above
  <2>2. \A k \in 1 .. 17 : l + k \in 1 .. l + 17
    BY <1>2
  <2>. QED BY <2>1, <2>2
<1>8. 1 \in 1 .. 17 /\ 2 \in 1 .. 17 /\ 3 \in 1 .. 17
  OBVIOUS
<1>9. h[l + 1] = m.eflags /\ h[l + 2] = m.cs /\ h[l + 3] = m.eip
  BY <1>3, <1>7, <1>8
<1>10. \A j \in 1 .. 12 : h[l + 5 + j] = m[Saved[j]]
  <2>1. \A j \in 1 .. 12 : 5 + j \in 1 .. 17 /\ l + 5 + j = l + (5 + j)
    BY <1>2
  <2>. QED BY <1>3, <1>7, <2>1
<1>. QED BY <1>1, <1>5, <1>9, <1>10 DEF IntFrame

(* An interrupt: the process has, and can be given back, what it stopped.  *)
LEMMA Stops ==
  ASSUME NEW a, NEW b, NEW m, NEW s, NEW q, NEW m2,
         Held(a, b, m, s), m.eflags = Flags(TRUE), m.eip # Code("entry"),
         q = Called(Nested(Filled(s, m), m), m), m2 = Halted(m, q)
  PROVE  Held(a, <<m, s>>, m2, q)
<1>. PICK v, h : v = Filled(s, m) /\ h = Nested(v, m) /\ q = Called(h, m)
  OBVIOUS
<1>1. /\ Sane(m) /\ s \in Seq(Word) /\ Free(a, m, s)
      /\ m \in [Regs -> Word] /\ DOMAIN m = Regs /\ m.cs = Kernel
  <2>1. ~ Stopped(a, b, m, s)
    BY FlagsDiffer DEF Stopped
  <2>. QED BY <2>1 DEF Held, Sane
<1>2. IntFrame(h, s, m)
  BY <1>1, Interrupted
<1>3. h \in Seq(Word) /\ Above(h, s, 20)
  BY <1>2 DEF IntFrame, Above
<1>4. Above(q, h, 2) /\ q[Len(h) + 1] = Code("handler")
  BY <1>1, <1>3, CalledIs
<1>5. q \in Seq(Word) /\ Addr(Len(q)) \in Word
  BY <1>4, DepthIs DEF Above
<1>6. Sane(m2) /\ m2.eflags = Flags(FALSE) /\ m2.eip = Code("noirq")
  <2>1. Sel \in Word /\ Code("noirq") \in Word /\ Flags(FALSE) \in Word
    BY WordIs DEF Labels
  <2>2. m2 \in [Regs -> Word]
    BY <1>1, <1>5, <2>1 DEF Halted
  <2>3. /\ m2.eflags = Flags(FALSE) /\ m2.cs = m.cs /\ m2.eip = Code("noirq")
        /\ \A r \in Segments : m2[r] = Sel
    BY <1>1, RegsAre DEF Halted
  <2>. QED BY <1>1, <2>2, <2>3 DEF Sane
<1>7. Stopped(a, <<m, s>>, m2, q)
  BY <1>1, <1>2, <1>4, <1>6 DEF Stopped
<1>. QED BY <1>5, <1>6, <1>7 DEF Held

\* Its stack has grown.
LEMMA Grows ==
  ASSUME NEW s \in Seq(Word), NEW m \in [Regs -> Word]
  PROVE  Len(Called(Nested(Filled(s, m), m), m)) > Len(s)
<1>1. PICK v, h, q : v = Filled(s, m) /\ h = Nested(v, m) /\ q = Called(h, m)
  OBVIOUS
<1>2. Above(v, s, 17)
  BY <1>1, FilledIs
<1>3. Above(h, v, 3)
  BY <1>1, <1>2, NestedIs DEF Above
<1>4. Above(q, h, 2)
  BY <1>1, <1>3, CalledIs DEF Above
<1>5. PICK l, n : l = Len(s) /\ n = Len(q)
  OBVIOUS
<1>6. l \in Nat /\ n = l + 17 + 3 + 2
  BY <1>2, <1>3, <1>4, <1>5 DEF Above
<1>7. n > l
  BY <1>6
<1>. QED BY <1>1, <1>5, <1>7

(* schedule_noirq returns: to the process's own function, which has what   *)
(* it called with, or to the handler of an interrupt.                      *)
LEMMA Returns ==
  ASSUME NEW a, NEW b, NEW m, NEW s, NEW s2, NEW m2,
         Held(a, b, m, s), m.eip = Code("switched"),
         m2 = Popped(s, m, <<"ebp", "eip">>), s2 = Drop(s, 2)
  PROVE  /\ Held(a, b, m2, s2) /\ m2.eip \in {Code("body"), Code("handler")}
         /\ m2.eip = Code("body") =>
               /\ s2 = a[2]
               /\ \A r \in Segments \cup {"ebp", "eip", "cs", "eflags"} : m2[r] = a[1][r]
<1>1. /\ Sane(m) /\ s \in Seq(Word) /\ m \in [Regs -> Word] /\ DOMAIN m = Regs /\ m.cs = Kernel
      /\ \A r \in Segments : m[r] = Sel
  BY RegsAre DEF Held, Sane
<1>2. PICK l : l = Len(s)
  OBVIOUS
<1>3. l \in Nat
  BY <1>1, <1>2
<1>4. ASSUME l > 1, s[l] \in Word, s[l - 1] \in Word
      PROVE  /\ m2 \in [Regs -> Word] /\ m2.ebp = s[l] /\ m2.eip = s[l - 1] /\ m2.eflags = m.eflags
             /\ m2.cs = m.cs /\ \A r \in Segments : m2[r] = m[r]
  <2>1. PICK x : x = [m EXCEPT !.ebp = s[l], !.eip = s[l - 1]]
    OBVIOUS
  <2>2. /\ x \in [Regs -> Word] /\ x.ebp = s[l] /\ x.eip = s[l - 1]
        /\ \A r \in Regs : r # "ebp" /\ r # "eip" => x[r] = m[r]
    BY <1>1, <1>4, <2>1, RegsAre
  <2>3. PICK e : e = <<"ebp", "eip">>
    OBVIOUS
  <2>4. DOMAIN e = 1 .. 2 /\ e[1] = "ebp" /\ e[2] = "eip"
    BY <2>3
  <2>5. Tops(s, x, e)
    <3>1. l + 1 - 1 = l /\ l + 1 - 2 = l - 1
      BY <1>3
    <3>. QED BY <1>2, <2>2, <2>4, <3>1 DEF Tops
  <2>6. Agree(m, x, e)
    <3>1. 1 \in DOMAIN e /\ 2 \in DOMAIN e
      BY <2>4
    <3>. QED BY <2>2, <2>4, <3>1 DEF Agree
  <2>7. m2 = x
    <3>1. Popped(s, m, e) = x
      BY <1>1, <2>2, <2>5, <2>6, PoppedIs
    <3>. QED BY <2>3, <3>1
  <2>. QED BY <2>2, <2>7, RegsAre
<1>5. CASE Free(a, m, s)
  <2>1. PICK m1 : /\ a = <<m1, <<Addr(0)>>>> /\ Sane(m1)
                  /\ m1.eflags = Flags(TRUE) /\ InBody(m1, <<Addr(0)>>)
    BY <1>5, CodesDiffer DEF Free, AtEntry, InBody, InYield
  <2>2. s = <<Addr(0), Code("body"), Addr(1)>> /\ m.eflags = Flags(TRUE)
    BY <1>5, CodesDiffer DEF Free, AtEntry, InBody, InYield
  <2>3. l = 3 /\ s[1] = Addr(0) /\ s[2] = Code("body") /\ s[3] = Addr(1)
    BY <1>2, <2>2
  <2>4. Addr(0) \in Word /\ Code("body") \in Word /\ Addr(1) \in Word
    BY WordIs DEF Labels
  <2>5. /\ m2 \in [Regs -> Word] /\ m2.ebp = Addr(1) /\ m2.eip = Code("body") /\ m2.eflags = Flags(TRUE)
        /\ m2.cs = Kernel /\ \A r \in Segments : m2[r] = Sel
    <3>1. l > 1 /\ l - 1 = 2
      BY <2>3
    <3>2. s[l] = Addr(1) /\ s[l - 1] = Code("body")
      BY <2>3, <3>1
    <3>. QED BY <1>1, <1>4, <2>2, <2>4, <3>1, <3>2
  <2>6. s2 = <<Addr(0)>>
    <3>1. PICK o : o = <<Addr(0)>>
      OBVIOUS
    <3>2. o \in Seq(Word) /\ Len(o) = 1 /\ o[1] = Addr(0)
      BY <2>4, <3>1
    <3>3. Above(s, o, 2)
      BY <1>1, <1>2, <2>3, <3>2 DEF Above
    <3>. QED BY <3>1, <3>3, DropIs
  <2>7. s2 \in Seq(Word)
    BY <2>4, <2>6
  <2>8. Sane(m2)
    BY <2>5 DEF Sane
  <2>9. InBody(m2, s2)
    BY <2>5, <2>6 DEF InBody
  <2>10. Held(a, b, m2, s2)
    BY <2>5, <2>7, <2>8, <2>9 DEF Held, Free
  <2>11. s2 = a[2]
    BY <2>1, <2>6
  <2>12. \A r \in Segments \cup {"ebp", "eip", "cs", "eflags"} : m2[r] = a[1][r]
    <3>1. a[1] = m1
      BY <2>1
    <3>. QED BY <2>1, <2>5, <3>1 DEF Sane, InBody
  <2>. QED BY <2>5, <2>10, <2>11, <2>12
<1>6. CASE Stopped(a, b, m, s)
  <2>1. PICK m0, s0, h :
          /\ b = <<m0, s0>> /\ Sane(m0) /\ Free(a, m0, s0) /\ m0.eip # Code("entry")
          /\ IntFrame(h, s0, m0) /\ Above(s, h, 2) /\ s[Len(h) + 1] = Code("handler")
    BY <1>6, CodesDiffer DEF Stopped
  <2>2. PICK n : n = Len(h)
    OBVIOUS
  <2>3. n \in Nat /\ l = n + 2 /\ h \in Seq(Word) /\ s[n + 1] = Code("handler")
    BY <1>2, <2>1, <2>2 DEF Above
  <2>4. l > 1 /\ l - 1 = n + 1 /\ s[l] \in Word /\ s[l - 1] \in Word
    <3>1. l > 1 /\ l - 1 = n + 1 /\ l \in 1 .. l /\ l - 1 \in 1 .. l
      BY <1>3, <2>3
    <3>. QED BY <1>1, <1>2, <3>1
  <2>5. /\ m2 \in [Regs -> Word] /\ m2.eip = Code("handler") /\ m2.eflags = m.eflags
        /\ m2.cs = Kernel /\ \A r \in Segments : m2[r] = Sel
    BY <1>1, <1>4, <2>3, <2>4
  <2>6. s2 = h
    BY <2>1, DropIs
  <2>7. Sane(m2)
    BY <2>5 DEF Sane
  <2>8. Stopped(a, b, m2, s2)
    <3>1. m.eflags = Flags(FALSE)
      BY <1>6 DEF Stopped
    <3>. QED BY <2>1, <2>5, <2>6, <3>1 DEF Stopped
  <2>9. Held(a, b, m2, s2)
    BY <2>3, <2>6, <2>7, <2>8 DEF Held
  <2>10. m2.eip # Code("body")
    BY <2>5, CodesDiffer
  <2>. QED BY <2>5, <2>9, <2>10
<1>. QED BY <1>5, <1>6 DEF Held

\* The places of the saved registers, from the bottom and from the top.
LEMMA SavedPlaces ==
  ASSUME NEW l \in Nat
  PROVE  /\ \A j \in 1 .. 12 : l + 5 + j \in 1 .. l + 17
         /\ \A k \in 1 .. 12 : 13 - k \in 1 .. 12 /\ l + 17 + 1 - k = l + 5 + (13 - k)
OBVIOUS

(* The handler returns: the process has what the interrupt stopped.        *)
LEMMA Restores ==
  ASSUME NEW a, NEW b, NEW m, NEW s, NEW s1, NEW back, NEW s2, NEW m2, NEW s3,
         Held(a, b, m, s), m.eip = Code("handler"),
         s1 = Drop(s, 3),
         back = Popped(s1, m, Reverse(Saved)),
         s2 = Drop(s1, Len(Saved) + 2),
         m2 = Popped(s2, [back EXCEPT !.eax = s1[Len(s1) - Len(Saved) + 1]], Reverse(Gate)),
         s3 = Drop(s2, 3)
  PROVE  b = <<m2, s3>> /\ Held(a, b, m2, s3)
<1>1. PICK m0, s0 : b = <<m0, s0>> /\ Sane(m0) /\ Free(a, m0, s0) /\ IntFrame(s, s0, m0)
  BY CodesDiffer DEF Held, Free, AtEntry, InBody, InYield, Stopped
<1>2. m \in [Regs -> Word] /\ m0 \in [Regs -> Word] /\ DOMAIN m = Regs /\ DOMAIN m0 = Regs
  BY <1>1 DEF Held, Sane
<1>3. PICK l : l = Len(s0)
  OBVIOUS
<1>4. l \in Nat /\ Above(s, s0, 20)
  BY <1>1, <1>3 DEF IntFrame, Above
<1>0. l \in Nat
  BY <1>4
<1>5. /\ s[l + 1] = m0.eflags /\ s[l + 2] = m0.cs /\ s[l + 3] = m0.eip
      /\ \A j \in 1 .. 12 : s[l + 5 + j] = m0[Saved[j]]
  BY <1>1, <1>3 DEF IntFrame
<1>6. Above(s1, s0, 17) /\ \A k \in 1 .. l + 17 : s1[k] = s[k]
  <2>1. 20 \in Nat /\ 3 \in 0 .. 20 /\ 20 - 3 = 17
    OBVIOUS
  <2>. QED BY <1>3, <1>4, <2>1, DropSome
<1>7. Above(s2, s0, 3) /\ \A k \in 1 .. l + 3 : s2[k] = s1[k]
  <2>1. 17 \in Nat /\ 14 \in 0 .. 17 /\ 17 - 14 = 3 /\ Len(Saved) + 2 = 14
    BY SavedIs
  <2>2. s2 = Drop(s1, 14) /\ Above(s1, s0, 17)
    BY <1>6, <2>1
  <2>3. Above(s2, s0, 17 - 14) /\ \A k \in 1 .. Len(s0) + (17 - 14) : s2[k] = s1[k]
    BY <2>1, <2>2, DropSome
  <2>. QED BY <1>3, <2>1, <2>3
<1>8. s3 = s0
  BY <1>7, DropIs
<1>9. Len(s1) = l + 17 /\ Len(s2) = l + 3
  BY <1>3, <1>6, <1>7 DEF Above
<1>10. \A j \in 1 .. 12 : s1[l + 5 + j] = m0[Saved[j]]
  <2>1. \A j \in 1 .. 12 : l + 5 + j \in 1 .. l + 17
    BY <1>0, SavedPlaces
  <2>. QED BY <1>5, <1>6, <2>1
<1>11. PICK x : x = [m0 EXCEPT !.eip = m.eip, !.cs = m.cs, !.eflags = m.eflags]
  OBVIOUS
<1>12. /\ x \in [Regs -> Word] /\ DOMAIN x = Regs
       /\ x.eip = m.eip /\ x.cs = m.cs /\ x.eflags = m.eflags
       /\ \A r \in Regs : r \notin {"eip", "cs", "eflags"} => x[r] = m0[r]
  BY <1>2, <1>11, RegsAre
<1>13. back = x
  <2>1. PICK g : g = Reverse(Saved)
    OBVIOUS
  <2>2. DOMAIN g = 1 .. 12 /\ \A k \in 1 .. 12 : g[k] = Saved[13 - k]
    BY <2>1, SavedIs
  <2>3. \A j \in 1 .. 12 : m0[Saved[j]] = x[Saved[j]]
    <3>1. \A j \in 1 .. 12 : Saved[j] \in Regs /\ Saved[j] \notin {"eip", "cs", "eflags"}
      BY SavedIs, RegsAre
    <3>. QED BY <1>12, <3>1
  <2>4. Tops(s1, x, g)
    <3>1. ASSUME NEW k \in 1 .. 12 PROVE s1[Len(s1) + 1 - k] = x[g[k]]
      <4>1. PICK j : j = 13 - k
        OBVIOUS
      <4>2. j \in 1 .. 12 /\ l + 17 + 1 - k = l + 5 + j
        <5>1. 13 - k \in 1 .. 12 /\ l + 17 + 1 - k = l + 5 + (13 - k)
          BY <1>0, <3>1, SavedPlaces
        <5>. QED BY <4>1, <5>1
      <4>3. s1[l + 17 + 1 - k] = m0[Saved[j]]
        BY <1>10, <4>2
      <4>. QED BY <1>9, <2>2, <2>3, <4>1, <4>2, <4>3
    <3>. QED BY <2>2, <3>1 DEF Tops
  <2>5. Agree(m, x, g)
    <3>1. /\ g[12] = "eax" /\ g[11] = "ecx" /\ g[10] = "edx" /\ g[9] = "ebx" /\ g[7] = "ebp"
          /\ g[6] = "esi" /\ g[5] = "edi" /\ g[4] = "ds" /\ g[3] = "es" /\ g[2] = "fs" /\ g[1] = "gs"
      BY <2>2, SavedIs
    <3>. QED BY <1>12, <2>2, <3>1, RegsAre DEF Agree
  <2>. QED BY <1>2, <1>12, <2>1, <2>4, <2>5, PoppedIs
<1>14. PICK y : y = [back EXCEPT !.eax = s1[Len(s1) - Len(Saved) + 1]]
  OBVIOUS
<1>15. DOMAIN y = Regs /\ \A r \in Regs : r \notin {"eip", "cs", "eflags"} => y[r] = m0[r]
  <2>1. Len(s1) - Len(Saved) + 1 = l + 5 + 1
    <3>1. PICK n : n = Len(s1)
      OBVIOUS
    <3>2. PICK d : d = Len(Saved)
      OBVIOUS
    <3>3. n = l + 17 /\ d = 12
      BY <1>9, <3>1, <3>2, SavedIs
    <3>4. n - d + 1 = l + 5 + 1
      BY <1>0, <3>3
    <3>. QED BY <3>1, <3>2, <3>4
  <2>2. s1[l + 5 + 1] = m0.eax
    BY <1>10, SavedIs
  <2>3. y = [x EXCEPT !.eax = m0.eax]
    BY <1>13, <1>14, <2>1, <2>2
  <2>. QED BY <1>12, <2>3, RegsAre
<1>16. m2 = m0
  <2>1. PICK g : g = Reverse(Gate)
    OBVIOUS
  <2>2. DOMAIN g = 1 .. 3 /\ g[1] = "eip" /\ g[2] = "cs" /\ g[3] = "eflags"
    BY <2>1, GateIs
  <2>3. s2[l + 1] = m0.eflags /\ s2[l + 2] = m0.cs /\ s2[l + 3] = m0.eip
    <3>1. /\ l + 1 \in 1 .. l + 3 /\ l + 2 \in 1 .. l + 3 /\ l + 3 \in 1 .. l + 3
          /\ l + 1 \in 1 .. l + 17 /\ l + 2 \in 1 .. l + 17 /\ l + 3 \in 1 .. l + 17
      BY <1>0
    <3>. QED BY <1>5, <1>6, <1>7, <3>1
  <2>4. Tops(s2, m0, g)
    <3>1. l + 3 + 1 - 1 = l + 3 /\ l + 3 + 1 - 2 = l + 2 /\ l + 3 + 1 - 3 = l + 1
      BY <1>0
    <3>. QED BY <1>9, <2>2, <2>3, <3>1 DEF Tops
  <2>5. Agree(y, m0, g)
    <3>1. 1 \in DOMAIN g /\ 2 \in DOMAIN g /\ 3 \in DOMAIN g
      BY <2>2
    <3>. QED BY <1>15, <2>2, <3>1 DEF Agree
  <2>. QED BY <1>2, <1>14, <1>15, <2>1, <2>4, <2>5, PoppedIs
<1>17. s0 \in Seq(Word)
  BY <1>4 DEF Above
<1>. QED BY <1>1, <1>8, <1>16, <1>17 DEF Held

-----------------------------------------------------------------------------
(* The switch                                                              *)

\* t is the stack s with the frame m is dispatched from on top.
Frame(t, s, m) == Above(t, s, 14) /\ Tops(t, m, Order)

(* A process that is dispatched has what its frame holds.                  *)
LEMMA Resumes ==
  ASSUME NEW t, NEW s, NEW m, NEW x, m \in [Regs -> Word], DOMAIN x = Regs, Frame(t, s, m)
  PROVE  Popped(t, x, Order) = m /\ Drop(t, Len(Order)) = s
<1>1. Agree(x, m, Order)
  <2>1. \A r \in Regs : \E k \in 1 .. 14 : Order[k] = r
    BY OrderIs, RegsAre
  <2>. QED BY <2>1, OrderIs DEF Agree
<1>2. Popped(t, x, Order) = m
  BY <1>1, PoppedIs DEF Frame
<1>3. Drop(t, 14) = s
  BY DropIs DEF Frame
<1>. QED BY <1>2, <1>3, OrderIs

LEMMA PushesIs ==
  /\ Pushes \in Seq(Regs) /\ Len(Pushes) = 10
  /\ Pushes[1] = "eax" /\ Pushes[2] = "ebx" /\ Pushes[3] = "ecx" /\ Pushes[4] = "edx" /\ Pushes[5] = "esi"
  /\ Pushes[6] = "ebp" /\ Pushes[7] = "ds" /\ Pushes[8] = "es" /\ Pushes[9] = "fs" /\ Pushes[10] = "gs"
BY RegsAre DEF Pushes

(* The words schedule puts on a stack, from one part to the next.          *)
LEMMA FrameParts ==
  ASSUME NEW s, NEW g, NEW f, NEW t, Above(g, s, 3), Above(f, g, 1), Above(t, f, 10)
  PROVE  Above(t, g, 11) /\ Above(f, s, 4) /\ Above(t, s, 14)
<1>1. Above(t, g, 11)
  BY AboveAbove
<1>2. Above(f, s, 4)
  BY AboveAbove
<1>3. Above(t, s, 14)
  BY <1>1, AboveAbove
<1>. QED BY <1>1, <1>2, <1>3

\* The stack a process with the stack s leaves.
Left(s, m) ==
    LET f == Append(Push(s, [m EXCEPT !.eip = Code("switched")], Gate), m.ebp)
    IN  Push(f, [m EXCEPT !.ebp = Addr(Len(f))], Pushes)

(* A process that calls schedule leaves a frame it can be dispatched from: *)
(* the eleven words popped are the prologue's frame pointer and the ten    *)
(* pushed, shifted by one below the segments.                              *)
LEMMA Leaves ==
  ASSUME NEW a, NEW b, NEW m, NEW s, NEW t,
         Held(a, b, m, s), m.eip = Code("noirq"), t = Left(s, m)
  PROVE  \E m2 : Held(a, b, m2, s) /\ m2.eip = Code("switched") /\ Frame(t, s, m2)
<1>. PICK f : f = Append(Push(s, [m EXCEPT !.eip = Code("switched")], Gate), m.ebp)
  OBVIOUS
<1>0. t = Push(f, [m EXCEPT !.ebp = Addr(Len(f))], Pushes)
  BY DEF Left
<1>1. m \in [Regs -> Word] /\ s \in Seq(Word) /\ \A r \in Regs : m[r] \in Word
  BY DEF Held, Sane
<1>2. PICK l : l = Len(s)
  OBVIOUS
<1>3. l \in Nat
  BY <1>1, <1>2
<1>4. PICK x : x = [m EXCEPT !.eip = Code("switched")]
  OBVIOUS
<1>5. x \in [Regs -> Word] /\ x.eip = Code("switched") /\ x.cs = m.cs /\ x.eflags = m.eflags
  <2>1. Code("switched") \in Word
    BY WordIs DEF Labels
  <2>. QED BY <1>1, <1>4, <2>1, RegsAre
<1>6. PICK g : g = Push(s, x, Gate)
  OBVIOUS
<1>7. Above(g, s, 3) /\ g[l + 1] = m.eflags /\ g[l + 2] = m.cs /\ g[l + 3] = Code("switched")
  <2>1. Above(g, s, Len(Gate)) /\ \A k \in 1 .. Len(Gate) : g[l + k] = x[Gate[k]]
    BY <1>1, <1>2, <1>5, <1>6, GateIs, PushIs
  <2>2. Above(g, s, 3) /\ \A k \in 1 .. 3 : g[l + k] = x[Gate[k]]
    BY <2>1, GateIs
  <2>3. 1 \in 1 .. 3 /\ 2 \in 1 .. 3 /\ 3 \in 1 .. 3
    OBVIOUS
  <2>. QED BY <1>5, <2>2, <2>3, GateIs
<1>8. Above(f, g, 1) /\ f[Len(g) + 1] = m.ebp
  <2>1. g \in Seq(Word) /\ m.ebp \in Word /\ f = Append(g, m.ebp)
    BY <1>1, <1>4, <1>6, <1>7, RegsAre DEF Above
  <2>. QED BY <2>1, AppendIs
<1>9. PICK y : y = [m EXCEPT !.ebp = Addr(Len(f))]
  OBVIOUS
<1>10. f \in Seq(Word) /\ Addr(Len(f)) \in Word
  BY <1>8, DepthIs DEF Above
<1>11. /\ y \in [Regs -> Word] /\ y.ebp = Addr(Len(f))
       /\ \A r \in Regs : r # "ebp" => y[r] = m[r]
  BY <1>1, <1>9, <1>10, RegsAre
<1>12. Above(t, f, 10) /\ \A k \in 1 .. 10 : t[Len(f) + k] = y[Pushes[k]]
  <2>1. PICK u : u = Push(f, y, Pushes)
    OBVIOUS
  <2>2. Above(u, f, Len(Pushes)) /\ \A k \in 1 .. Len(Pushes) : u[Len(f) + k] = y[Pushes[k]]
    BY <1>10, <1>11, <2>1, PushesIs, PushIs
  <2>3. t = u
    BY <1>0, <1>9, <2>1
  <2>. QED BY <2>2, <2>3, PushesIs
<1>13. Above(t, g, 11) /\ Above(f, s, 4)
  BY <1>7, <1>8, <1>12, FrameParts
<1>14. Above(t, s, 14)
  BY <1>7, <1>8, <1>12, FrameParts
<1>15. Len(g) = l + 3 /\ Len(f) = l + 4 /\ Len(t) = l + 14
  BY <1>2, <1>7, <1>13, <1>14 DEF Above
<1>16. /\ t[l + 1] = m.eflags /\ t[l + 2] = m.cs /\ t[l + 3] = Code("switched") /\ t[l + 4] = m.ebp
       /\ \A k \in 1 .. 10 : t[l + 4 + k] = y[Pushes[k]]
  <2>1. (\A k \in 1 .. l + 3 : t[k] = g[k]) /\ \A k \in 1 .. l + 4 : t[k] = f[k]
    BY <1>12, <1>13, <1>15 DEF Above
  <2>2. /\ l + 1 \in 1 .. l + 3 /\ l + 2 \in 1 .. l + 3 /\ l + 3 \in 1 .. l + 3
        /\ l + 4 \in 1 .. l + 4 /\ l + 3 + 1 = l + 4
    BY <1>3
  <2>. QED BY <1>7, <1>8, <1>12, <1>15, <2>1, <2>2
<1>17. PICK m2 : m2 = [r \in Regs |->
                          IF r = "eip" THEN Code("switched") ELSE IF r = "ebp" THEN Addr(Len(f))
                          ELSE IF r = "edi" THEN m.esi ELSE IF r = "esi" THEN m.edx
                          ELSE IF r = "edx" THEN m.ecx ELSE IF r = "ecx" THEN m.ebx
                          ELSE IF r = "ebx" THEN m.eax ELSE IF r = "eax" THEN m.ebp ELSE m[r]]
  OBVIOUS
<1>18. /\ m2 \in [Regs -> Word] /\ m2.eip = Code("switched") /\ m2.ebp = Addr(Len(f))
       /\ m2.edi = m.esi /\ m2.esi = m.edx /\ m2.edx = m.ecx /\ m2.ecx = m.ebx
       /\ m2.ebx = m.eax /\ m2.eax = m.ebp /\ m2.cs = m.cs /\ m2.eflags = m.eflags
       /\ m2.gs = m.gs /\ m2.fs = m.fs /\ m2.es = m.es /\ m2.ds = m.ds
  <2>1. Code("switched") \in Word
    BY WordIs DEF Labels
  <2>. QED BY <1>1, <1>10, <1>17, <2>1, RegsAre
<1>19. Tops(t, m2, Order)
  <2>1. \A k \in 1 .. 10 : t[Len(t) + 1 - (11 - k)] = y[Pushes[k]]
    <3>1. \A k \in 1 .. 10 : l + 14 + 1 - (11 - k) = l + 4 + k
      BY <1>3
    <3>. QED BY <1>15, <1>16, <3>1
  <2>2. /\ y.eax = m.eax /\ y.ebx = m.ebx /\ y.ecx = m.ecx /\ y.edx = m.edx /\ y.esi = m.esi
        /\ y.ds = m.ds /\ y.es = m.es /\ y.fs = m.fs /\ y.gs = m.gs
    BY <1>11, RegsAre
  <2>3. /\ 11 - 1 = 10 /\ 11 - 2 = 9 /\ 11 - 3 = 8 /\ 11 - 4 = 7 /\ 11 - 5 = 6 /\ 11 - 6 = 5
        /\ 11 - 7 = 4 /\ 11 - 8 = 3 /\ 11 - 9 = 2 /\ 11 - 10 = 1
    OBVIOUS
  <2>4. /\ t[Len(t) + 1 - 10] = m.eax /\ t[Len(t) + 1 - 9] = m.ebx /\ t[Len(t) + 1 - 8] = m.ecx
        /\ t[Len(t) + 1 - 7] = m.edx /\ t[Len(t) + 1 - 6] = m.esi /\ t[Len(t) + 1 - 5] = Addr(Len(f))
        /\ t[Len(t) + 1 - 4] = m.ds /\ t[Len(t) + 1 - 3] = m.es /\ t[Len(t) + 1 - 2] = m.fs
        /\ t[Len(t) + 1 - 1] = m.gs
    BY <1>11, <2>1, <2>2, <2>3, PushesIs
  <2>5. /\ t[Len(t) + 1 - 11] = m.ebp /\ t[Len(t) + 1 - 12] = Code("switched")
        /\ t[Len(t) + 1 - 13] = m.cs /\ t[Len(t) + 1 - 14] = m.eflags
    <3>1. /\ l + 14 + 1 - 11 = l + 4 /\ l + 14 + 1 - 12 = l + 3
          /\ l + 14 + 1 - 13 = l + 2 /\ l + 14 + 1 - 14 = l + 1
      BY <1>3
    <3>. QED BY <1>15, <1>16, <3>1
  <2>6. /\ m2[Order[1]] = m.gs /\ m2[Order[2]] = m.fs /\ m2[Order[3]] = m.es /\ m2[Order[4]] = m.ds
        /\ m2[Order[5]] = Addr(Len(f)) /\ m2[Order[6]] = m.esi /\ m2[Order[7]] = m.edx
        /\ m2[Order[8]] = m.ecx /\ m2[Order[9]] = m.ebx /\ m2[Order[10]] = m.eax
        /\ m2[Order[11]] = m.ebp /\ m2[Order[12]] = Code("switched")
        /\ m2[Order[13]] = m.cs /\ m2[Order[14]] = m.eflags
    BY <1>18, OrderIs
  <2>. DEFINE P(k) == t[Len(t) + 1 - k] = m2[Order[k]]
  <2>7. P(1) /\ P(2) /\ P(3) /\ P(4) /\ P(5) /\ P(6) /\ P(7)
    BY <2>4, <2>6
  <2>8. P(8) /\ P(9) /\ P(10) /\ P(11) /\ P(12) /\ P(13) /\ P(14)
    BY <2>4, <2>5, <2>6
  <2>9. (\A k \in 1 .. 14 : P(k)) => Tops(t, m2, Order)
    BY OrderIs DEF Tops
  <2>. HIDE DEF P
  <2>. QED BY <2>7, <2>8, <2>9
<1>20. Held(a, b, m2, s)
  <2>1. Sane(m2)
    BY <1>18, RegsAre DEF Held, Sane
  <2>2. Code("noirq") # Code("entry") /\ Code("noirq") # Code("body") /\ Code("noirq") # Code("handler")
    BY CodesDiffer
  <2>3. Free(a, m, s) => Free(a, m2, s)
    BY <1>18, <2>2 DEF Free, AtEntry, InBody, InYield
  <2>4. Stopped(a, b, m, s) => Stopped(a, b, m2, s)
    BY <1>18, <2>2 DEF Stopped
  <2>. QED BY <2>1, <2>3, <2>4 DEF Held
<1>. QED BY <1>14, <1>18, <1>19, <1>20 DEF Frame

\* Process p waits: its frame is on its stack.
Parked(p) ==
    \E m, s : /\ Held(called[p], interrupted[p], m, s)
              /\ m.eip \in {Code("entry"), Code("switched")}
              /\ Frame(stack[p], s, m)

SwitchInv ==
    /\ c \in Proc
    /\ stack \in [Proc -> Seq(Word)] /\ DOMAIN called = Proc /\ DOMAIN interrupted = Proc
    /\ Held(called[c], interrupted[c], cpu, stack[c])
    /\ \A p \in Proc \ {c} : Parked(p)

(* What createProcess leaves on a stack is a frame.                        *)
LEMMA FirstFrame ==
  \E m : Sane(m) /\ m.eflags = Flags(TRUE) /\ AtEntry(m, <<>>) /\ Frame(createProcess, <<>>, m)
<1>1. PICK m : m = [r \in Regs |->
                       IF r \in Segments THEN Sel ELSE IF r = "ebp" THEN Addr(0)
                       ELSE IF r = "eip" THEN Code("entry") ELSE IF r = "cs" THEN Kernel
                       ELSE IF r = "eflags" THEN Flags(TRUE) ELSE Zero]
  OBVIOUS
<1>2. Addr(0) \in Word /\ Code("entry") \in Word
      /\ Zero \in Word /\ Sel \in Word /\ Kernel \in Word /\ Flags(TRUE) \in Word
  BY WordIs DEF Labels
<1>3. /\ m \in [Regs -> Word] /\ m.eflags = Flags(TRUE) /\ m.cs = Kernel /\ m.eip = Code("entry")
      /\ m.ebp = Addr(0) /\ m.ds = Sel /\ m.es = Sel /\ m.fs = Sel /\ m.gs = Sel
      /\ m.eax = Zero /\ m.ebx = Zero /\ m.ecx = Zero /\ m.edx = Zero /\ m.esi = Zero /\ m.edi = Zero
  BY <1>1, <1>2, RegsAre
<1>4. PICK t : t = createProcess
  OBVIOUS
<1>5. /\ t \in Seq(Word) /\ Len(t) = 14
      /\ t[1] = Flags(TRUE) /\ t[2] = Kernel /\ t[3] = Code("entry") /\ t[4] = Zero /\ t[5] = Zero
      /\ t[6] = Zero /\ t[7] = Zero /\ t[8] = Zero /\ t[9] = Zero /\ t[10] = Addr(0)
      /\ t[11] = Sel /\ t[12] = Sel /\ t[13] = Sel /\ t[14] = Sel
  <2>1. PICK fl, ke, en, ze, ad, se : /\ fl = Flags(TRUE) /\ ke = Kernel /\ en = Code("entry")
                                      /\ ze = Zero /\ ad = Addr(0) /\ se = Sel
    OBVIOUS
  <2>2. t = <<fl, ke, en, ze, ze, ze, ze, ze, ze, ad, se, se, se, se>>
    BY <1>4, <2>1, Zenon DEF createProcess
  <2>3. fl \in Word /\ ke \in Word /\ en \in Word /\ ze \in Word /\ ad \in Word /\ se \in Word
    BY <1>2, <2>1
  <2>4. t \in Seq(Word) /\ Len(t) = 14
    BY <2>2, <2>3
  <2>5. /\ t[1] = fl /\ t[2] = ke /\ t[3] = en /\ t[4] = ze /\ t[5] = ze /\ t[6] = ze /\ t[7] = ze
        /\ t[8] = ze /\ t[9] = ze /\ t[10] = ad /\ t[11] = se /\ t[12] = se /\ t[13] = se /\ t[14] = se
    BY <2>2
  <2>. QED BY <2>1, <2>4, <2>5
<1>6. Above(t, <<>>, 14)
  <2>1. PICK e : e = <<>>
    OBVIOUS
  <2>2. e \in Seq(Word) /\ Len(e) = 0
    BY <2>1
  <2>. QED BY <1>5, <2>1, <2>2 DEF Above
<1>7. Tops(t, m, Order)
  <2>1. \A k \in 1 .. 14 : t[15 - k] = m[Order[k]]
    <3>1. /\ t[15 - 1] = m.gs /\ t[15 - 2] = m.fs /\ t[15 - 3] = m.es /\ t[15 - 4] = m.ds
          /\ t[15 - 5] = m.ebp /\ t[15 - 6] = m.edi /\ t[15 - 7] = m.esi /\ t[15 - 8] = m.edx
          /\ t[15 - 9] = m.ecx /\ t[15 - 10] = m.ebx /\ t[15 - 11] = m.eax
          /\ t[15 - 12] = m.eip /\ t[15 - 13] = m.cs /\ t[15 - 14] = m.eflags
      <4>1. /\ 15 - 1 = 14 /\ 15 - 2 = 13 /\ 15 - 3 = 12 /\ 15 - 4 = 11 /\ 15 - 5 = 10 /\ 15 - 6 = 9
            /\ 15 - 7 = 8 /\ 15 - 8 = 7 /\ 15 - 9 = 6 /\ 15 - 10 = 5 /\ 15 - 11 = 4 /\ 15 - 12 = 3
            /\ 15 - 13 = 2 /\ 15 - 14 = 1
        OBVIOUS
      <4>. QED BY <1>3, <1>5, <4>1
    <3>. DEFINE P(k) == t[15 - k] = m[Order[k]]
    <3>2. P(1) /\ P(2) /\ P(3) /\ P(4) /\ P(5) /\ P(6) /\ P(7)
      BY <3>1, OrderIs
    <3>3. P(8) /\ P(9) /\ P(10) /\ P(11) /\ P(12) /\ P(13) /\ P(14)
      BY <3>1, OrderIs
    <3>4. (\A k \in 1 .. 14 : P(k)) => \A k \in 1 .. 14 : t[15 - k] = m[Order[k]]
      OBVIOUS
    <3>. HIDE DEF P
    <3>. QED BY <3>2, <3>3, <3>4
  <2>2. \A k \in 1 .. 14 : Len(t) + 1 - k = 15 - k
    BY <1>5
  <2>3. \A k \in DOMAIN Order : t[Len(t) + 1 - k] = m[Order[k]]
    BY <2>1, <2>2, OrderIs
  <2>. QED BY <2>3 DEF Tops
<1>8. Sane(m)
  BY <1>3, RegsAre DEF Sane
<1>. QED BY <1>3, <1>4, <1>6, <1>7, <1>8 DEF AtEntry, Frame

LEMMA SwitchStarts == SwitchInit => SwitchInv
<1>. SUFFICES ASSUME SwitchInit PROVE SwitchInv
  OBVIOUS
<1>1. PICK m : Sane(m) /\ m.eflags = Flags(TRUE) /\ AtEntry(m, <<>>) /\ Frame(createProcess, <<>>, m)
  BY FirstFrame
<1>2. PICK none : none = [r \in General \cup Segments \cup {"ebp", "eip", "cs", "eflags"} |-> Zero]
  OBVIOUS
<1>3. DOMAIN none = Regs /\ m \in [Regs -> Word]
  BY <1>1, <1>2 DEF Regs, Sane
<1>4. Popped(createProcess, none, Order) = m /\ Drop(createProcess, Len(Order)) = <<>>
  <2>1. PICK e : e = <<>>
    OBVIOUS
  <2>. QED BY <1>1, <1>3, <2>1, Resumes
<1>5. c = 1 /\ cpu = m /\ stack = [p \in Proc |-> IF p = 1 THEN <<>> ELSE createProcess]
  BY <1>2, <1>4 DEF SwitchInit, Order
<1>6. createProcess \in Seq(Word) /\ <<>> \in Seq(Word)
  BY <1>1 DEF Frame, Above
<1>7. 1 \in Proc
  BY NAssumption DEF Proc
<1>8. stack \in [Proc -> Seq(Word)] /\ stack[1] = <<>> /\ \A p \in Proc \ {1} : stack[p] = createProcess
  BY <1>5, <1>6, <1>7
<1>9. \A a, b : Held(a, b, m, <<>>)
  BY <1>1, <1>6 DEF Held, Free
<1>10. m.eip = Code("entry")
  BY <1>1 DEF AtEntry
<1>11. \A p \in Proc \ {1} : Parked(p)
  BY <1>1, <1>8, <1>9, <1>10 DEF Parked
<1>12. DOMAIN called = Proc /\ DOMAIN interrupted = Proc
  BY DEF SwitchInit
<1>. QED BY <1>5, <1>7, <1>8, <1>9, <1>11, <1>12 DEF SwitchInv

(* The next process on the ring is another one.                            *)
LEMMA NextProcess ==
  ASSUME NEW p \in Proc
  PROVE  (p % N) + 1 \in Proc /\ (p % N) + 1 # p
<1>1. N \in Nat /\ N > 1 /\ p \in 1 .. N
  BY NAssumption DEF Proc
<1>2. CASE p = N
  BY <1>1, <1>2 DEF Proc
<1>3. CASE p < N
  <2>1. p % N = p
    BY <1>1, <1>3
  <2>. QED BY <1>1, <1>3, <2>1 DEF Proc
<1>. QED BY <1>1, <1>2, <1>3

\* What ComesBack says of one step.
Back ==
    LET returns == Len(stack'[c]) < Len(stack[c]) IN
    /\ c' # c => cpu'.eip \in {Code("entry"), Code("switched")}
    /\ At("entry") => cpu.ebp = Addr(Len(stack[c])) /\ cpu.eflags = Flags(TRUE)
    /\ At("handler") => <<cpu', stack'[c]>> = interrupted[c]
    /\ At("switched") /\ returns => cpu'.eip \in {Code("body"), Code("handler")}
    /\ At("switched") /\ cpu'.eip = Code("body") =>
          /\ stack'[c] = called[c][2]
          /\ \A r \in Segments \cup {"ebp", "eip", "cs", "eflags"} : cpu'[r] = called[c][1][r]

(* A step of the current process leaves the frames of the others alone.    *)
LEMMA SameProcess ==
  ASSUME SwitchInv, NEW u \in Seq(Word), c' = c, stack' = [stack EXCEPT ![c] = u],
         DOMAIN called' = Proc, DOMAIN interrupted' = Proc,
         \A p \in Proc \ {c} : called'[p] = called[p] /\ interrupted'[p] = interrupted[p],
         Held(called'[c], interrupted'[c], cpu', u)
  PROVE  SwitchInv' /\ stack'[c] = u
<1>1. /\ c \in Proc /\ stack' \in [Proc -> Seq(Word)] /\ stack'[c] = u
      /\ \A p \in Proc \ {c} : stack'[p] = stack[p]
  BY DEF SwitchInv
<1>2. ASSUME NEW p \in Proc \ {c} PROVE Parked(p)'
  <2>1. Parked(p)
    BY <1>2 DEF SwitchInv
  <2>. QED BY <1>1, <1>2, <2>1 DEF Parked
<1>. QED BY <1>1, <1>2 DEF SwitchInv

(* The first statement of a process finds an empty stack.                  *)
LEMMA EntryIs ==
  ASSUME SwitchInv, At("entry")
  PROVE  /\ Sane(cpu) /\ AtEntry(cpu, stack[c]) /\ cpu.eflags = Flags(TRUE)
         /\ cpu.ebp = Addr(Len(stack[c]))
<1>1. Held(called[c], interrupted[c], cpu, stack[c]) /\ cpu.eip = Code("entry")
  BY DEF SwitchInv, At
<1>2. ~ InBody(cpu, stack[c]) /\ ~ InYield(called[c], cpu, stack[c])
      /\ ~ Stopped(called[c], interrupted[c], cpu, stack[c])
  BY <1>1, CodesDiffer DEF InBody, InYield, Stopped
<1>3. Sane(cpu) /\ AtEntry(cpu, stack[c]) /\ cpu.eflags = Flags(TRUE)
  BY <1>1, <1>2 DEF Held, Free
<1>4. PICK s : s = stack[c]
  OBVIOUS
<1>5. s = <<>> /\ cpu.ebp = Addr(0)
  BY <1>3, <1>4 DEF AtEntry
<1>6. Len(s) = 0
  BY <1>5
<1>. QED BY <1>3, <1>4, <1>5, <1>6

(* No two of the places a process can be at are the same.                  *)
LEMMA OnePlace ==
  ASSUME NEW l, At(l)
  PROVE  \A k : At(k) => k = l
BY CodesDiffer DEF At

LEMMA StartStep == SwitchInv /\ Start => SwitchInv' /\ Back
<1>. SUFFICES ASSUME SwitchInv, Start PROVE SwitchInv' /\ Back
  OBVIOUS
<1>1. At("entry") /\ c \in Proc /\ stack \in [Proc -> Seq(Word)]
  BY DEF Start, SwitchInv
<1>2. Sane(cpu) /\ AtEntry(cpu, stack[c]) /\ cpu.eflags = Flags(TRUE) /\ cpu.ebp = Addr(Len(stack[c]))
  BY <1>1, EntryIs
<1>3. PICK u : u = Append(stack[c], cpu.ebp)
  OBVIOUS
<1>4. stack' = [stack EXCEPT ![c] = u] /\ stack'[c] = u
      /\ c' = c /\ called' = called /\ interrupted' = interrupted
  BY <1>1, <1>3 DEF Start
<1>5. cpu' = Started(c, cpu, u)
  BY <1>4 DEF Start, Started
<1>6. PICK m, m2, s, p : m = cpu /\ m2 = cpu' /\ s = stack[c] /\ p = c
  OBVIOUS
<1>7. Sane(m2) /\ m2.eflags = Flags(TRUE) /\ InBody(m2, u) /\ u \in Seq(Word)
  <2>1. p \in Proc /\ Sane(m) /\ AtEntry(m, s) /\ m.eflags = Flags(TRUE) /\ u = Append(s, m.ebp)
    BY <1>1, <1>2, <1>3, <1>6
  <2>2. m2 = Started(p, m, u)
    BY <1>5, <1>6
  <2>. QED BY <2>1, <2>2, Starts
<1>8. Held(called[c], interrupted[c], cpu', u)
  BY <1>6, <1>7 DEF Held, Free
<1>9. SwitchInv'
  BY <1>4, <1>7, <1>8, SameProcess DEF SwitchInv
<1>10. Back
  BY <1>1, <1>2, <1>4, OnePlace DEF Back
<1>. QED BY <1>9, <1>10

LEMMA YieldStep == SwitchInv /\ Yield => SwitchInv' /\ Back
<1>. SUFFICES ASSUME SwitchInv, Yield PROVE SwitchInv' /\ Back
  OBVIOUS
<1>1. At("body") /\ c \in Proc /\ stack \in [Proc -> Seq(Word)]
      /\ Held(called[c], interrupted[c], cpu, stack[c])
      /\ DOMAIN called = Proc /\ DOMAIN interrupted = Proc
  BY DEF Yield, SwitchInv
<1>2. Sane(cpu) /\ InBody(cpu, stack[c]) /\ cpu.eflags = Flags(TRUE)
  BY <1>1, CodesDiffer DEF At, Held, Free, AtEntry, InYield, Stopped
<1>3. PICK u : u = Entered(stack[c], cpu, Code("body"))
  OBVIOUS
<1>4. stack' = [stack EXCEPT ![c] = u] /\ stack'[c] = u
      /\ c' = c /\ called' = [called EXCEPT ![c] = <<cpu, stack[c]>>] /\ interrupted' = interrupted
  BY <1>1, <1>3 DEF Yield
<1>5. cpu' = [cpu EXCEPT !.ebp = Addr(Len(u)), !.eip = Code("noirq")]
  BY <1>4 DEF Yield
<1>6. PICK m, m2, s, b : m = cpu /\ m2 = cpu' /\ s = stack[c] /\ b = interrupted[c]
  OBVIOUS
<1>7. Held(<<m, s>>, b, m2, u)
  BY <1>2, <1>3, <1>5, <1>6, Yields
<1>8. called'[c] = <<m, s>> /\ interrupted'[c] = b
      /\ DOMAIN called' = Proc /\ \A p \in Proc \ {c} : called'[p] = called[p]
  BY <1>1, <1>4, <1>6
<1>9. SwitchInv'
  BY <1>1, <1>4, <1>6, <1>7, <1>8, SameProcess DEF Held
<1>10. Back
  <2>1. ~ At("entry") /\ ~ At("handler") /\ ~ At("switched")
    BY <1>1, OnePlace
  <2>. QED BY <1>4, <2>1 DEF Back
<1>. QED BY <1>9, <1>10

LEMMA InterruptStep == SwitchInv /\ Interrupt => SwitchInv' /\ Back
<1>. SUFFICES ASSUME SwitchInv, Interrupt PROVE SwitchInv' /\ Back
  OBVIOUS
<1>1. c \in Proc /\ stack \in [Proc -> Seq(Word)]
      /\ Held(called[c], interrupted[c], cpu, stack[c])
      /\ DOMAIN called = Proc /\ DOMAIN interrupted = Proc
  BY DEF SwitchInv
<1>2. cpu.eflags = Flags(TRUE) /\ cpu.eip # Code("entry")
  BY DEF Interrupt, At
<1>3. PICK v : v = Filled(stack[c], cpu)
  OBVIOUS
<1>4. PICK h : h = Nested(v, cpu)
  OBVIOUS
<1>5. PICK q : q = Called(h, cpu)
  OBVIOUS
<1>6. /\ stack' = [stack EXCEPT ![c] = q]
      /\ cpu' = Halted(cpu, q)
      /\ interrupted' = [interrupted EXCEPT ![c] = <<cpu, stack[c]>>]
      /\ c' = c /\ called' = called
  BY <1>3, <1>4, <1>5 DEF Interrupt, Halted, Filled, Nested, Called
<1>7. PICK m, m2, s, a, b : m = cpu /\ m2 = cpu' /\ s = stack[c] /\ a = called[c] /\ b = interrupted[c]
  OBVIOUS
<1>8. Held(a, <<m, s>>, m2, q)
  <2>1. Held(a, b, m, s) /\ m.eflags = Flags(TRUE) /\ m.eip # Code("entry")
    BY <1>1, <1>2, <1>7
  <2>2. q = Called(Nested(Filled(s, m), m), m)
    BY <1>3, <1>4, <1>5, <1>7
  <2>3. m2 = Halted(m, q)
    BY <1>6, <1>7
  <2>. QED BY <2>1, <2>2, <2>3, Stops
<1>9. interrupted'[c] = <<m, s>> /\ called'[c] = a
      /\ DOMAIN interrupted' = Proc /\ \A p \in Proc \ {c} : interrupted'[p] = interrupted[p]
  BY <1>1, <1>6, <1>7
<1>10. SwitchInv' /\ stack'[c] = q
  BY <1>1, <1>6, <1>7, <1>8, <1>9, SameProcess DEF Held
<1>11. ~ At("entry") /\ ~ At("handler")
  <2>1. ASSUME At("handler") PROVE FALSE
    BY <1>1, <1>2, <2>1, CodesDiffer, FlagsDiffer DEF At, Held, Free, AtEntry, InBody, InYield, Stopped
  <2>. QED BY <1>2, <2>1 DEF At
<1>12. ~ (Len(stack'[c]) < Len(stack[c])) /\ cpu'.eip # Code("body")
  <2>1. PICK i, j : i = Len(q) /\ j = Len(s)
    OBVIOUS
  <2>2. s \in Seq(Word) /\ m \in [Regs -> Word] /\ q \in Seq(Word)
    BY <1>1, <1>7, <1>8 DEF Held, Sane
  <2>3. i \in Nat /\ j \in Nat /\ i > j
    BY <1>3, <1>4, <1>5, <1>7, <2>1, <2>2, Grows
  <2>4. ~ (i < j)
    BY <2>3
  <2>5. cpu'.eip = Code("noirq")
    BY <1>6, <1>7, <2>2, RegsAre DEF Halted
  <2>. QED BY <1>7, <1>10, <2>1, <2>4, <2>5, CodesDiffer
<1>13. Back
  BY <1>6, <1>11, <1>12 DEF Back
<1>. QED BY <1>10, <1>13

LEMMA NoirqReturnStep == SwitchInv /\ NoirqReturn => SwitchInv' /\ Back
<1>. SUFFICES ASSUME SwitchInv, NoirqReturn PROVE SwitchInv' /\ Back
  OBVIOUS
<1>1. At("switched") /\ c \in Proc /\ Held(called[c], interrupted[c], cpu, stack[c])
      /\ DOMAIN called = Proc /\ DOMAIN interrupted = Proc
      /\ c' = c /\ called' = called /\ interrupted' = interrupted
  BY DEF NoirqReturn, SwitchInv
<1>2. PICK u : u = Drop(stack[c], 2)
  OBVIOUS
<1>3. stack' = [stack EXCEPT ![c] = u] /\ cpu' = Popped(stack[c], cpu, <<"ebp", "eip">>)
  BY <1>2 DEF NoirqReturn
<1>4. PICK m, m2, s, a, b : m = cpu /\ m2 = cpu' /\ s = stack[c] /\ a = called[c] /\ b = interrupted[c]
  OBVIOUS
<1>5. Held(a, b, m, s) /\ m.eip = Code("switched")
      /\ m2 = Popped(s, m, <<"ebp", "eip">>) /\ u = Drop(s, 2)
  BY <1>1, <1>2, <1>3, <1>4 DEF At
<1>6. /\ Held(a, b, m2, u) /\ m2.eip \in {Code("body"), Code("handler")}
      /\ m2.eip = Code("body") =>
            /\ u = a[2]
            /\ \A r \in Segments \cup {"ebp", "eip", "cs", "eflags"} : m2[r] = a[1][r]
  BY <1>5, Returns
<1>7. SwitchInv' /\ stack'[c] = u
  BY <1>1, <1>3, <1>4, <1>6, SameProcess DEF Held
<1>8. ~ At("entry") /\ ~ At("handler")
  BY <1>1, OnePlace
<1>9. Back
  BY <1>1, <1>4, <1>6, <1>7, <1>8 DEF Back
<1>. QED BY <1>7, <1>9

LEMMA HandlerReturnStep == SwitchInv /\ HandlerReturn => SwitchInv' /\ Back
<1>. SUFFICES ASSUME SwitchInv, HandlerReturn PROVE SwitchInv' /\ Back
  OBVIOUS
<1>1. At("handler") /\ c \in Proc /\ Held(called[c], interrupted[c], cpu, stack[c])
      /\ DOMAIN called = Proc /\ DOMAIN interrupted = Proc
      /\ c' = c /\ called' = called /\ interrupted' = interrupted
  BY DEF HandlerReturn, SwitchInv
<1>2. PICK m, m2, s, a, b : m = cpu /\ m2 = cpu' /\ s = stack[c] /\ a = called[c] /\ b = interrupted[c]
  OBVIOUS
<1>3. PICK s1 : s1 = Drop(s, 3)
  OBVIOUS
<1>4. PICK back : back = Popped(s1, m, Reverse(Saved))
  OBVIOUS
<1>5. PICK s2 : s2 = Drop(s1, Len(Saved) + 2)
  OBVIOUS
<1>6. PICK u : u = Drop(s2, 3)
  OBVIOUS
<1>7. /\ stack' = [stack EXCEPT ![c] = u]
      /\ m2 = Popped(s2, [back EXCEPT !.eax = s1[Len(s1) - Len(Saved) + 1]], Reverse(Gate))
  BY <1>2, <1>3, <1>4, <1>5, <1>6 DEF HandlerReturn
<1>8. Held(a, b, m, s) /\ m.eip = Code("handler")
  BY <1>1, <1>2 DEF At
<1>9. b = <<m2, u>> /\ Held(a, b, m2, u)
  BY <1>3, <1>4, <1>5, <1>6, <1>7, <1>8, Restores
<1>10. SwitchInv' /\ stack'[c] = u
  BY <1>1, <1>2, <1>7, <1>9, SameProcess DEF Held
<1>11. ~ At("entry") /\ ~ At("switched")
  BY <1>1, OnePlace
<1>12. Back
  BY <1>1, <1>2, <1>9, <1>10, <1>11 DEF Back
<1>. QED BY <1>10, <1>12

LEMMA ScheduleStep == SwitchInv /\ schedule => SwitchInv' /\ Back
<1>. SUFFICES ASSUME SwitchInv, schedule PROVE SwitchInv' /\ Back
  OBVIOUS
<1>1. At("noirq") /\ c \in Proc /\ Held(called[c], interrupted[c], cpu, stack[c])
      /\ stack \in [Proc -> Seq(Word)] /\ DOMAIN called = Proc /\ DOMAIN interrupted = Proc
      /\ called' = called /\ interrupted' = interrupted
  BY DEF schedule, SwitchInv
<1>2. PICK n : n = (c % N) + 1
  OBVIOUS
<1>3. n \in Proc /\ n # c
  BY <1>1, <1>2, NextProcess
<1>4. PICK t : t = Left(stack[c], cpu)
  OBVIOUS
<1>5. PICK out : out = [stack EXCEPT ![c] = t]
  OBVIOUS
<1>6. c' = n /\ cpu' = Popped(out[n], cpu, Order) /\ stack' = [out EXCEPT ![n] = Drop(out[n], Len(Order))]
  BY <1>2, <1>4, <1>5 DEF schedule, Order, Left
<1>7. PICK m0 : Held(called[c], interrupted[c], m0, stack[c]) /\ m0.eip = Code("switched") /\ Frame(t, stack[c], m0)
  <2>1. PICK m, s, a, b : m = cpu /\ s = stack[c] /\ a = called[c] /\ b = interrupted[c]
    OBVIOUS
  <2>2. t = Left(s, m)
    BY <1>4, <2>1
  <2>3. Held(a, b, m, s) /\ m.eip = Code("noirq")
    BY <1>1, <2>1 DEF At
  <2>4. \E m2 : Held(a, b, m2, s) /\ m2.eip = Code("switched") /\ Frame(t, s, m2)
    BY <2>2, <2>3, Leaves
  <2>. QED BY <2>1, <2>4
<1>8. t \in Seq(Word)
  BY <1>7 DEF Frame, Above
<1>9. PICK m, s : /\ Held(called[n], interrupted[n], m, s)
                  /\ m.eip \in {Code("entry"), Code("switched")} /\ Frame(stack[n], s, m)
  BY <1>3 DEF SwitchInv, Parked
<1>10. out[n] = stack[n] /\ out \in [Proc -> Seq(Word)] /\ out[c] = t
       /\ \A p \in Proc \ {c} : out[p] = stack[p]
  BY <1>1, <1>3, <1>5, <1>8
<1>11. cpu' = m /\ Drop(out[n], Len(Order)) = s
  <2>1. PICK x, w : x = cpu /\ w = stack[n]
    OBVIOUS
  <2>2. m \in [Regs -> Word] /\ DOMAIN x = Regs /\ Frame(w, s, m)
    BY <1>1, <1>9, <2>1 DEF Held, Sane
  <2>3. Popped(w, x, Order) = m /\ Drop(w, Len(Order)) = s
    BY <2>2, Resumes
  <2>. QED BY <1>6, <1>10, <2>1, <2>3
<1>12. s \in Seq(Word)
  BY <1>9 DEF Held
<1>13. /\ stack' \in [Proc -> Seq(Word)] /\ stack'[n] = s /\ stack'[c] = t
       /\ \A p \in Proc \ {c, n} : stack'[p] = stack[p]
  BY <1>1, <1>3, <1>6, <1>10, <1>11, <1>12
<1>14. ASSUME NEW p \in Proc \ {n} PROVE Parked(p)'
  <2>1. CASE p = c
    BY <1>1, <1>7, <1>13, <2>1 DEF Parked
  <2>2. CASE p # c
    <3>1. Parked(p) /\ stack'[p] = stack[p]
      BY <1>13, <1>14, <2>2 DEF SwitchInv
    <3>. QED BY <1>1, <3>1 DEF Parked
  <2>. QED BY <2>1, <2>2
<1>15. SwitchInv'
  BY <1>1, <1>3, <1>6, <1>9, <1>11, <1>13, <1>14 DEF SwitchInv
<1>16. ~ At("entry") /\ ~ At("handler") /\ ~ At("switched")
  BY <1>1, OnePlace
<1>17. Back
  BY <1>9, <1>11, <1>16 DEF Back
<1>. QED BY <1>15, <1>17

(* A process gets back what it relies on, for every number of processes:   *)
(* after an interrupt all its registers, its stack and its flags, after a  *)
(* yield what a call leaves to its caller.  Of a process that waits the    *)
(* invariant says which frame is on its stack, and of a process that an    *)
(* interrupt has stopped, below that, what the interrupt saved.            *)
THEOREM ProcessComesBack == SwitchSpec => ComesBack
<1>1. SwitchInit => SwitchInv
  BY SwitchStarts
<1>2. SwitchInv /\ [SwitchNext]_switchVars => SwitchInv' /\ [Back]_switchVars
  <2>. SUFFICES ASSUME SwitchInv, [SwitchNext]_switchVars PROVE SwitchInv' /\ [Back]_switchVars
    OBVIOUS
  <2>1. CASE SwitchNext
    BY <2>1, StartStep, YieldStep, InterruptStep, ScheduleStep, NoirqReturnStep, HandlerReturnStep
       DEF SwitchNext
  <2>2. CASE UNCHANGED switchVars
    BY <2>2 DEF switchVars, SwitchInv, Parked
  <2>. QED BY <2>1, <2>2
<1>. QED BY <1>1, <1>2, PTL DEF SwitchSpec, ComesBack, Back

-----------------------------------------------------------------------------
(* Remainders                                                              *)

(* Division leaves a remainder, and there is only one.                     *)
LEMMA Division ==
  ASSUME NEW n \in Nat \ {0}, NEW a \in Int
  PROVE  a = n * (a \div n) + (a % n) /\ a % n \in 0 .. n - 1 /\ a \div n \in Int
OBVIOUS

LEMMA OneRemainder ==
  ASSUME NEW n \in Nat \ {0}, NEW q \in Int, NEW r \in 0 .. n - 1, NEW p \in Int, NEW s \in 0 .. n - 1,
         n * q + r = n * p + s
  PROVE  q = p /\ r = s
<1>1. CASE q > p
  <2>1. n * (q - p) >= n
    BY <1>1
  <2>2. n * q = n * p + n * (q - p)
    OBVIOUS
  <2>. QED BY <2>1, <2>2
<1>2. CASE q < p
  <2>1. n * (p - q) >= n
    BY <1>2
  <2>2. n * p = n * q + n * (p - q)
    OBVIOUS
  <2>. QED BY <2>1, <2>2
<1>. QED BY <1>1, <1>2

\* a is q times n, and r.
Divided(a, n, q, r) == q \in Int /\ r \in 0 .. n - 1 /\ a = n * q + r

(* What a sum of a multiple and a rest leaves.                              *)
LEMMA Remainder ==
  ASSUME NEW n \in Nat \ {0}, NEW q, NEW r, NEW a, Divided(a, n, q, r)
  PROVE  a % n = r /\ a \div n = q
<1>0. q \in Int /\ r \in 0 .. n - 1 /\ a = n * q + r
  BY DEF Divided
<1>1. a \in Int /\ a = n * (a \div n) + (a % n) /\ a % n \in 0 .. n - 1 /\ a \div n \in Int
  BY <1>0, Division
<1>. QED BY <1>0, <1>1, OneRemainder

(* What leaves no remainder is a multiple.                                 *)
LEMMA Multiple ==
  ASSUME NEW n \in Nat \ {0}, NEW a \in Nat, a % n = 0
  PROVE  \E q \in Nat : a = n * q
<1>1. PICK q : q = a \div n
  OBVIOUS
<1>2. q \in Int /\ a = n * q
  BY <1>1, Division
<1>3. q >= 0
  BY <1>2
<1>. QED BY <1>2, <1>3

(* Half a word goes into itself once less than into a word.                *)
LEMMA Ones == Absent % Half = Half - 1
<1>1. PICK h : h = Half
  OBVIOUS
<1>2. h \in Nat \ {0}
  BY <1>1, PciAssumption
<1>3. Divided(h * h - 1, h, h - 1, h - 1)
  BY <1>2 DEF Divided
<1>4. (h * h - 1) % h = h - 1
  BY <1>2, <1>3, Remainder
<1>. QED BY <1>1, <1>4 DEF Absent, Full

\* An address x, a multiple of the size z, and a word half of k of them.
Small(h, z, k, q, f, x) ==
    /\ h \in Nat \ {0} /\ z \in Nat \ {0} /\ k \in Nat /\ q \in Nat
    /\ f \in 0 .. z - 1 /\ x = z * q /\ h = z * k

\* The two halves u and w of x, and what is read back in each.
Halves(h, z, f, x, u, w) ==
    /\ x = h * u + w /\ w + z <= h
    /\ (x + f) % h = w + f
    /\ (h * u + (h - 1)) % z = z - 1
    /\ (h * u + (h - z + f)) % h = h - z + f
    /\ (x + f) % z = f

(* An address is in two halves, and its size goes into the lower one.      *)
LEMMA SmallMask ==
  ASSUME NEW h, NEW z, NEW k, NEW q, NEW f, NEW x, Small(h, z, k, q, f, x)
  PROVE  \E u \in Nat, w \in Nat : Halves(h, z, f, x, u, w)
<1>0. /\ h \in Nat \ {0} /\ z \in Nat \ {0} /\ k \in Nat /\ q \in Nat
      /\ f \in 0 .. z - 1 /\ x = z * q /\ h = z * k
  BY DEF Small
<1>1. k \in Nat \ {0}
  BY <1>0
<1>2. PICK u, v : u = q \div k /\ v = q % k
  OBVIOUS
<1>3. u \in Int /\ v \in 0 .. k - 1 /\ q = k * u + v
  <2>1. q \in Int
    BY <1>0
  <2>. QED BY <1>1, <1>2, <2>1, Division
<1>4. u >= 0
  BY <1>0, <1>1, <1>3
<1>5. PICK w : w = z * v
  OBVIOUS
<1>6. w \in Nat
  BY <1>0, <1>3, <1>5
<1>7. x = h * u + w
  <2>1. z * (k * u + v) = (z * k) * u + z * v
    BY <1>0, <1>3
  <2>. QED BY <1>0, <1>3, <1>5, <2>1
<1>8. w + z <= h
  <2>1. z * (v + 1) <= z * k
    BY <1>0, <1>3
  <2>2. z * (v + 1) = z * v + z
    BY <1>0, <1>3
  <2>. QED BY <1>0, <1>5, <2>1, <2>2
<1>9. (x + f) % h = w + f
  <2>1. Divided(x + f, h, u, w + f)
    BY <1>0, <1>3, <1>6, <1>7, <1>8 DEF Divided
  <2>. QED BY <1>0, <2>1, Remainder
<1>10. (h * u + (h - 1)) % z = z - 1
  <2>1. PICK j : j = k * u + (k - 1)
    OBVIOUS
  <2>2. j \in Int
    BY <1>0, <1>3, <2>1
  <2>3. z * (k * u + (k - 1)) = (z * k) * u + (z * k) - z
    BY <1>0, <1>3
  <2>4. h * u + (h - 1) = z * j + (z - 1)
    BY <1>0, <1>3, <2>1, <2>3
  <2>5. Divided(h * u + (h - 1), z, j, z - 1)
    BY <1>0, <2>2, <2>4 DEF Divided
  <2>. QED BY <1>0, <2>5, Remainder
<1>11. (h * u + (h - z + f)) % h = h - z + f
  <2>1. h - z + f \in 0 .. h - 1
    BY <1>0, <1>6, <1>8
  <2>2. Divided(h * u + (h - z + f), h, u, h - z + f)
    BY <1>0, <1>3, <2>1 DEF Divided
  <2>. QED BY <1>0, <2>2, Remainder
<1>12. (x + f) % z = f
  <2>1. Divided(x + f, z, q, f)
    BY <1>0 DEF Divided
  <2>. QED BY <1>0, <2>1, Remainder
<1>. QED BY <1>3, <1>4, <1>6, <1>7, <1>8, <1>9, <1>10, <1>11, <1>12 DEF Halves

(* An address is a multiple of whole halves: the lower half is its flags.  *)
LEMMA LargeMask ==
  ASSUME NEW h \in Nat \ {0}, NEW z \in Nat \ {0}, NEW k \in Nat, NEW q \in Nat, NEW f \in 0 .. h - 1,
         NEW x, x = z * q, z = h * k
  PROVE  /\ (x + f) % h = f
         /\ (x + (h - 1)) % z = h - 1
         /\ (x + f) % z = f
<1>1. k \in Nat \ {0}
  OBVIOUS
<1>2. h <= z
  <2>1. h * k >= h
    BY <1>1
  <2>. QED BY <2>1
<1>3. PICK j : j = k * q
  OBVIOUS
<1>4. j \in Int
  BY <1>3
<1>5. x = h * j
  <2>1. (h * k) * q = h * (k * q)
    OBVIOUS
  <2>. QED BY <1>3, <2>1
<1>6. Divided(x + f, h, j, f)
  BY <1>4, <1>5 DEF Divided
<1>7. Divided(x + (h - 1), z, q, h - 1)
  BY <1>2 DEF Divided
<1>8. Divided(x + f, z, q, f)
  BY <1>2 DEF Divided
<1>. QED BY <1>6, <1>7, <1>8, Remainder

-----------------------------------------------------------------------------
(* Base address registers                                                  *)

\* What pci_read_bar finds when it has written all ones.
Masked(b) == Kept(b, Register(b) - (Register(b) % Half) + (Absent % Half))

\* An address of b is a multiple of this.
Align(b) == IF b.io THEN 4 ELSE 16

(* What is known of a register.                                            *)
LEMMA BarIs ==
  ASSUME NEW b \in Bars
  PROVE  /\ (b.io => ~ b.wide)
         /\ b.io \in BOOLEAN /\ b.wide \in BOOLEAN /\ b.card \in BOOLEAN
         /\ b.base \in Nat /\ b.size \in Nat \ {0} /\ b.base + b.size <= Full
         /\ b.base % b.size = 0 /\ b.size % Align(b) = 0
         /\ Align(b) \in {4, 16} /\ b.size >= Align(b)
         /\ FlagBits(b) \in Nat /\ FlagBits(b) < Align(b)
         /\ Half \in Nat \ {0} /\ Half % 16 = 0 /\ Half >= 16
<1>1. /\ (b.io => ~ b.wide)
      /\ b.io \in BOOLEAN /\ b.wide \in BOOLEAN /\ b.card \in BOOLEAN
      /\ b.base \in Nat /\ b.size \in Nat \ {0} /\ b.base + b.size <= Full
      /\ b.base % b.size = 0 /\ b.size % Align(b) = 0
      /\ Half \in Nat \ {0} /\ Half % 16 = 0
  BY PciAssumption DEF Align
<1>2. Align(b) \in {4, 16} /\ FlagBits(b) \in Nat /\ FlagBits(b) < Align(b)
  BY DEF Align, FlagBits
<1>3. \A n \in Nat \ {0} : (n % 4 = 0 => n >= 4) /\ (n % 16 = 0 => n >= 16)
  OBVIOUS
<1>4. b.size >= Align(b) /\ Half >= 16
  BY <1>1, <1>2, <1>3
<1>. QED BY <1>1, <1>2, <1>4

\* Sums of multiples.
LEMMA Aligned ==
  ASSUME NEW i \in Nat, NEW u \in Nat, NEW j \in Nat
  PROVE  /\ (16 * i * u + 16 * i - 16 * j) % 16 = 0
         /\ (16 * i * u + 16 * i - 4 * j) % 4 = 0
<1>1. PICK p : p = i * u
  OBVIOUS
<1>2. p \in Nat /\ 16 * i * u = 16 * p
  BY <1>1
<1>. QED BY <1>2

\* The mask is an aligned t and the flags; written back, the address is what
\* it was; and t tells the size.
MaskTells(b, t) ==
    /\ t \in Nat /\ t % Align(b) = 0 /\ Masked(b) = t + FlagBits(b)
    /\ Kept(b, Masked(b) - (Masked(b) % Half) + (Register(b) % Half)) = Register(b)
    /\ b.io => (Full - t) % Half = b.size
    /\ b.card /\ ~ b.io => (Full - t) % Full >= b.size

(* A register for less than half a word counts: the lower half is a mask.  *)
LEMMA SmallBar ==
  ASSUME NEW b \in Bars, Half % b.size = 0
  PROVE  \E t : MaskTells(b, t)
<1>1. PICK h, z, x, f : h = Half /\ z = b.size /\ x = b.base /\ f = FlagBits(b)
  OBVIOUS
<1>2. /\ h \in Nat \ {0} /\ z \in Nat \ {0} /\ x \in Nat /\ f \in 0 .. z - 1
      /\ x % z = 0 /\ h % z = 0 /\ x + z <= h * h
  BY <1>1, BarIs DEF Full
<1>3. PICK k \in Nat : h = z * k
  BY <1>2, Multiple
<1>4. PICK q \in Nat : x = z * q
  BY <1>2, Multiple
<1>5. PICK u \in Nat, w \in Nat :
            /\ x = h * u + w /\ w + z <= h
            /\ (x + f) % h = w + f
            /\ (h * u + (h - 1)) % z = z - 1
            /\ (h * u + (h - z + f)) % h = h - z + f
            /\ (x + f) % z = f
  <2>1. Small(h, z, k, q, f, x)
    BY <1>2, <1>3, <1>4 DEF Small
  <2>2. PICK u \in Nat, w \in Nat : Halves(h, z, f, x, u, w)
    BY <2>1, SmallMask
  <2>. QED BY <2>2 DEF Halves
<1>6. PICK t : t = h * u + h - z
  OBVIOUS
<1>7. Register(b) = x + f
  BY <1>1 DEF Register
<1>8. h * u \in Nat /\ z <= h
  BY <1>2, <1>5
<1>9. t \in Nat
  BY <1>2, <1>6, <1>8
<1>10. Masked(b) = t + f
  <2>1. (x + f) - (w + f) + (h - 1) = h * u + (h - 1)
    BY <1>2, <1>5, <1>8
  <2>2. Register(b) - (Register(b) % Half) + (Absent % Half) = h * u + (h - 1)
    BY <1>1, <1>5, <1>7, <2>1, Ones
  <2>3. PICK v : v = h * u + (h - 1)
    OBVIOUS
  <2>4. v % z = z - 1
    BY <1>5, <2>3
  <2>5. Kept(b, v) = v - (z - 1) + f
    BY <1>1, <2>4 DEF Kept
  <2>6. Masked(b) = v - (z - 1) + f
    BY <2>2, <2>3, <2>5 DEF Masked
  <2>. QED BY <1>2, <1>6, <1>8, <2>3, <2>6
<1>11. Kept(b, Masked(b) - (Masked(b) % Half) + (Register(b) % Half)) = Register(b)
  <2>1. t + f = h * u + (h - z + f)
    BY <1>2, <1>6, <1>8
  <2>2. (t + f) - (h - z + f) + (w + f) = x + f
    BY <1>2, <1>5, <1>8, <2>1
  <2>3. Masked(b) - (Masked(b) % Half) + (Register(b) % Half) = x + f
    BY <1>1, <1>5, <1>7, <1>10, <2>1, <2>2
  <2>4. Kept(b, x + f) = (x + f) - f + f
    BY <1>1, <1>5 DEF Kept
  <2>. QED BY <1>2, <1>7, <2>3, <2>4
<1>12. t % Align(b) = 0
  <2>1. PICK i \in Nat : h = 16 * i
    BY <1>1, <1>2, BarIs, Multiple
  <2>2. CASE b.io
    <3>1. Align(b) = 4
      BY <2>2 DEF Align
    <3>2. PICK j \in Nat : z = 4 * j
      BY <1>1, <1>2, <3>1, BarIs, Multiple
    <3>3. t = 16 * i * u + 16 * i - 4 * j
      BY <1>6, <2>1, <3>2
    <3>. QED BY <3>1, <3>3, Aligned
  <2>3. CASE ~ b.io
    <3>1. Align(b) = 16
      BY <2>3 DEF Align
    <3>2. PICK j \in Nat : z = 16 * j
      BY <1>1, <1>2, <3>1, BarIs, Multiple
    <3>3. t = 16 * i * u + 16 * i - 16 * j
      BY <1>6, <2>1, <3>2
    <3>. QED BY <3>1, <3>3, Aligned
  <2>. QED BY <2>2, <2>3
<1>13. h * h - t = h * (h - u - 1) + z
  <2>1. h * (h - u - 1) = h * h - h * u - h
    BY <1>2
  <2>. QED BY <1>2, <1>6, <1>8, <2>1
<1>14. ASSUME b.io PROVE (Full - t) % Half = b.size
  <2>1. z < h
    BY <1>1, <1>14, PciAssumption
  <2>2. Divided(h * h - t, h, h - u - 1, z)
    BY <1>2, <1>13, <2>1 DEF Divided
  <2>. QED BY <1>1, <1>2, <2>2, Remainder DEF Full
<1>15. ASSUME b.card PROVE (Full - t) % Full >= b.size
  <2>1. x > 0
    BY <1>1, <1>15, PciAssumption
  <2>2. u < h
    <3>1. CASE u >= h
      <4>1. h * u >= h * h
        BY <1>2, <3>1
      <4>. QED BY <1>2, <1>5, <4>1
    <3>. QED BY <1>2, <3>1
  <2>3. h * (h - u - 1) >= 0 /\ h * h \in Nat /\ h * h > 0
    BY <1>2, <2>2
  <2>4. t > 0
    <3>1. CASE u = 0
      <4>1. h * u = 0 /\ w = x
        BY <1>2, <1>5, <3>1
      <4>. QED BY <1>2, <1>5, <1>6, <2>1, <4>1
    <3>2. CASE u > 0
      <4>1. h * u >= h
        BY <1>2, <3>2
      <4>. QED BY <1>2, <1>6, <1>8, <4>1
    <3>. QED BY <3>1, <3>2
  <2>5. h * h - t >= z /\ h * h - t \in 0 .. h * h - 1
    BY <1>2, <1>9, <1>13, <2>3, <2>4
  <2>6. Divided(h * h - t, h * h, 0, h * h - t)
    BY <2>3, <2>5 DEF Divided
  <2>. QED BY <1>1, <2>3, <2>5, <2>6, Remainder DEF Full
<1>. QED BY <1>1, <1>9, <1>10, <1>11, <1>12, <1>14, <1>15 DEF MaskTells

(* A register for more: what is written keeps none of the ones.            *)
LEMMA LargeBar ==
  ASSUME NEW b \in Bars, b.size % Half = 0
  PROVE  \E t : MaskTells(b, t)
<1>1. PICK h, z, x, f : h = Half /\ z = b.size /\ x = b.base /\ f = FlagBits(b)
  OBVIOUS
<1>2. /\ h \in Nat \ {0} /\ z \in Nat \ {0} /\ x \in Nat /\ f \in Nat /\ f \in 0 .. h - 1
      /\ x % z = 0 /\ z % h = 0 /\ x + z <= h * h
  BY <1>1, BarIs DEF Full
<1>3. PICK k \in Nat : z = h * k
  BY <1>2, Multiple
<1>4. PICK q \in Nat : x = z * q
  BY <1>2, Multiple
<1>5. (x + f) % h = f /\ (x + (h - 1)) % z = h - 1 /\ (x + f) % z = f
  BY <1>2, <1>3, <1>4, LargeMask
<1>6. Register(b) = x + f
  BY <1>1 DEF Register
<1>7. Masked(b) = x + f
  <2>1. Register(b) - (Register(b) % Half) + (Absent % Half) = x + (h - 1)
    BY <1>1, <1>2, <1>5, <1>6, Ones
  <2>2. PICK v : v = x + (h - 1)
    OBVIOUS
  <2>3. Kept(b, v) = v - (h - 1) + f
    BY <1>1, <1>5, <2>2 DEF Kept
  <2>4. Masked(b) = v - (h - 1) + f
    BY <2>1, <2>2, <2>3 DEF Masked
  <2>. QED BY <1>2, <2>2, <2>4
<1>8. Kept(b, Masked(b) - (Masked(b) % Half) + (Register(b) % Half)) = Register(b)
  <2>1. Masked(b) - (Masked(b) % Half) + (Register(b) % Half) = x + f
    BY <1>1, <1>2, <1>5, <1>6, <1>7
  <2>2. Kept(b, x + f) = (x + f) - f + f
    BY <1>1, <1>5 DEF Kept
  <2>. QED BY <1>2, <1>6, <2>1, <2>2
<1>9. x % Align(b) = 0
  <2>0. PICK n : n = Align(b)
    OBVIOUS
  <2>2. n \in Nat \ {0} /\ z \in Nat /\ z % n = 0
    BY <1>1, <2>0, BarIs
  <2>1. PICK j \in Nat : z = n * j
    BY <2>2, Multiple
  <2>3. x = n * (j * q) + 0
    <3>1. (n * j) * q = n * (j * q)
      BY <2>2
    <3>. QED BY <1>2, <1>4, <2>1, <2>2, <3>1
  <2>4. Divided(x, n, j * q, 0)
    BY <2>2, <2>3 DEF Divided
  <2>. QED BY <2>0, <2>2, <2>4, Remainder
<1>10. ~ b.io
  <2>1. h <= z
    <3>1. k \in Nat \ {0}
      BY <1>2, <1>3
    <3>. QED BY <1>2, <1>3, <3>1
  <2>2. b.io => z < h
    BY <1>1, PciAssumption
  <2>. QED BY <1>2, <2>1, <2>2
<1>11. ASSUME b.card PROVE (Full - x) % Full >= b.size
  <2>1. x > 0
    BY <1>1, <1>11, PciAssumption
  <2>2. h * h \in Nat \ {0}
    BY <1>2
  <2>3. h * h - x >= z /\ h * h - x \in 0 .. h * h - 1
    BY <1>2, <2>1, <2>2
  <2>4. Divided(h * h - x, h * h, 0, h * h - x)
    BY <2>2, <2>3 DEF Divided
  <2>. QED BY <1>1, <2>2, <2>3, <2>4, Remainder DEF Full
<1>. QED BY <1>1, <1>2, <1>7, <1>8, <1>9, <1>10, <1>11 DEF MaskTells

(* Either way the mask tells the size.                                     *)
LEMMA BarTells ==
  ASSUME NEW b \in Bars
  PROVE  \E t : MaskTells(b, t)
<1>1. Half % b.size = 0 \/ b.size % Half = 0
  BY PciAssumption
<1>. QED BY <1>1, SmallBar, LargeBar

\* What pci_get_bar makes of the register and the mask.
DecodedRight(b, d) ==
    /\ d.address = b.base /\ d.flags = FlagBits(b)
    /\ IF b.io THEN d.size = b.size ELSE d.size >= b.size

\* The upper word of the size in the end.
HighOf(b) == IF b.wide THEN Full - Half ELSE 0

\* An address for which the flag of a 64-bit register is looked at in vain.
Mistaken(b) == b.io /\ Wide(b.base)

(* The flags below an address for ports.                                   *)
LEMMA PortBits ==
  ASSUME NEW n \in Nat, n % 2 # 1
  PROVE  /\ ((4 * n + 1) \div 4) % 2 # 1 /\ (4 * n + 1) % 2 = 1 /\ (4 * n + 1) % 4 = 1
OBVIOUS

(* The flags below an address for memory.                                  *)
LEMMA MemoryBits ==
  ASSUME NEW n \in Nat
  PROVE  /\ (16 * n) % 2 # 1 /\ (16 * n) % 16 = 0 /\ (16 * n + 4) % 2 # 1 /\ (16 * n + 4) % 16 = 4
OBVIOUS

(* An address leaves its low bits to the flags.                            *)
LEMMA BaseAligned ==
  ASSUME NEW b \in Bars
  PROVE  \E n \in Nat : b.base = Align(b) * n
<1>1. PICK a, x, z : a = Align(b) /\ x = b.base /\ z = b.size
  OBVIOUS
<1>2. a \in Nat \ {0} /\ x \in Nat /\ z \in Nat \ {0} /\ x % z = 0 /\ z % a = 0
  BY <1>1, BarIs
<1>3. PICK q \in Nat : x = z * q
  BY <1>2, Multiple
<1>4. PICK j \in Nat : z = a * j
  BY <1>2, Multiple
<1>5. x = a * (j * q)
  <2>1. (a * j) * q = a * (j * q)
    BY <1>2
  <2>. QED BY <1>3, <1>4, <2>1
<1>6. j * q \in Nat
  OBVIOUS
<1>. QED BY <1>1, <1>5, <1>6

(* The third kind of pci_get_bar, for ports.                               *)
LEMMA DecodesPorts ==
  ASSUME NEW b \in Bars, b.io, ~ Mistaken(b), low = Register(b), NEW t, MaskTells(b, t)
  PROVE  DecodedRight(b, Decoded(Masked(b))) /\ (Wide(low) <=> b.wide)
<1>1. Align(b) = 4 /\ FlagBits(b) = 1
  BY DEF Align, FlagBits
<1>2. PICK n \in Nat : b.base = 4 * n
  BY <1>1, BaseAligned
<1>3. n % 2 # 1
  <2>1. (4 * n) \div 4 = n
    OBVIOUS
  <2>. QED BY <1>2, <2>1 DEF Mistaken, Wide
<1>4. low = 4 * n + 1
  BY <1>1, <1>2 DEF Register
<1>5. PICK m : m = Masked(b)
  OBVIOUS
<1>6. m \in Nat /\ t \in Nat /\ m - (m % 4) = t
  BY <1>1, <1>5 DEF MaskTells
<1>7. (Full - t) % Half = b.size
  BY DEF MaskTells
<1>8. ((low \div 4) % 2 = 1) = FALSE /\ low % 2 = 1 /\ low % 4 = 1
  BY <1>3, <1>4, PortBits
<1>9. Decoded(m) = [address |-> low - (low % 4), size |-> (Full - (m - (m % 4))) % Half, high |-> 0, flags |-> low % 4]
  BY <1>8 DEF Decoded, Wide
<1>10. Decoded(m).address = 4 * n /\ Decoded(m).size = b.size /\ Decoded(m).flags = 1
  BY <1>4, <1>6, <1>7, <1>8, <1>9
<1>11. ~ Wide(low) /\ ~ b.wide
  BY <1>8, BarIs DEF Wide
<1>. QED BY <1>1, <1>2, <1>5, <1>10, <1>11 DEF DecodedRight

(* The other two kinds, for memory.                                        *)
LEMMA DecodesMemory ==
  ASSUME NEW b \in Bars, b.card, ~ b.io, low = Register(b), NEW t, MaskTells(b, t)
  PROVE  DecodedRight(b, Decoded(Masked(b))) /\ (Wide(low) <=> b.wide)
<1>1. PICK f : f = FlagBits(b)
  OBVIOUS
<1>2. Align(b) = 16 /\ f \in {0, 4}
  BY <1>1 DEF Align, FlagBits
<1>3. PICK n \in Nat : b.base = 16 * n
  BY <1>2, BaseAligned
<1>4. low = 16 * n + f
  BY <1>1, <1>3 DEF Register
<1>5. PICK m : m = Masked(b)
  OBVIOUS
<1>6. m \in Nat /\ t \in Nat /\ m - (m % 16) = t
  BY <1>1, <1>2, <1>5 DEF MaskTells
<1>7. (Full - t) % Full >= b.size
  BY DEF MaskTells
<1>8. low % 2 # 1 /\ low % 16 = f
  BY <1>2, <1>4, MemoryBits
<1>9. Decoded(m) = [address |-> low - (low % 16), size |-> (Full - (m - (m % 16))) % Full, high |-> 0, flags |-> low % 16]
  BY <1>8 DEF Decoded
<1>10. Decoded(m).address = 16 * n /\ Decoded(m).size >= b.size /\ Decoded(m).flags = f
  BY <1>2, <1>4, <1>6, <1>7, <1>8, <1>9
<1>11. Wide(low) <=> b.wide
  <2>1. (16 * n) \div 4 = 4 * n /\ (16 * n + 4) \div 4 = 4 * n + 1
    OBVIOUS
  <2>2. (4 * n) % 2 # 1 /\ (4 * n + 1) % 2 = 1
    OBVIOUS
  <2>3. b.wide \in BOOLEAN /\ f = IF b.wide THEN 4 ELSE 0
    BY <1>1, BarIs DEF FlagBits
  <2>. QED BY <1>4, <2>1, <2>2, <2>3 DEF Wide
<1>. QED BY <1>1, <1>3, <1>5, <1>10, <1>11 DEF DecodedRight

(* What pci_get_bar answers of a card is right.                            *)
LEMMA DecodedIsRight ==
  ASSUME NEW b \in Bars, b.card, low = Register(b)
  PROVE  Mistaken(b) \/ (DecodedRight(b, Decoded(Masked(b))) /\ (Wide(low) <=> b.wide))
BY BarTells, DecodesPorts, DecodesMemory

\* An answer of pci_get_bar is four numbers.
LEMMA DecodedType ==
  ASSUME NEW m \in Int, low \in Int
  PROVE  Decoded(m) \in [address : Int, size : Int, high : Int, flags : Int]
<1>1. PICK h, g : h = Half /\ g = Full
  OBVIOUS
<1>2. h \in Nat \ {0} /\ g \in Nat \ {0}
  BY <1>1, PciAssumption DEF Full
<1>3. \A d \in {4, 16}, n \in {Half, Full} :
         low - (low % d) \in Int /\ low % d \in Int /\ (Full - (m - (m % d))) % n \in Int
  BY <1>1, <1>2
<1>. QED BY <1>3 DEF Decoded

-----------------------------------------------------------------------------
(* The walk over the bus                                                   *)

\* One function comes before another in the walk.
Before(i, j) == i[1] < j[1] \/ (i[1] = j[1] /\ i[2] < j[2])

\* A card behind which the walk is: it has an entry.
Passed(i) ==
    /\ i \in DOMAIN there.bars /\ there.bars[i].card
    /\ pc = "end" \/ Before(i, id) \/ (i = id /\ pc \in Making \cup {"spin"})

Macs    == {<<>>, Mac, [Mac EXCEPT ![2] = 0]}
Records == [id : Id, decoded : [address : Int, size : Int, high : Int, flags : Int], mac : Macs]

\* The mac an entry of a card ends with.
MacOf(b) == IF b.io THEN <<>> ELSE IF ral THEN Mac ELSE [Mac EXCEPT ![2] = 0]

\* The bus is what it was.
Bus ==
    /\ there.bars \in [DOMAIN there.bars -> Bars] /\ DOMAIN there.bars \subseteq Id
    /\ \A i \in DOMAIN there.bars : i[2] # 0 => i[1] \in there.multi /\ <<i[1], 0>> \in DOMAIN there.bars

\* Every register holds its address, except the one that shows its mask.
Registers ==
    /\ DOMAIN bar = DOMAIN there.bars
    /\ \A i \in DOMAIN there.bars :
          bar[i] = IF i = id /\ pc \in {"mask", "restore"} THEN Masked(there.bars[i]) ELSE Register(there.bars[i])

\* So does BAR 1, of which the lower half is ones.
Uppers ==
    /\ DOMAIN bar1 = DOMAIN there.bars
    /\ \A i \in DOMAIN there.bars :
          bar1[i] = IF i = id /\ pc = "upperMask" /\ there.bars[i].wide THEN Half - 1 ELSE 0
    /\ pc = "upperMask" => high = 0

\* Where the walk is.
Place ==
    /\ pc \in {"header", "vendor", "address", "ones", "mask", "end", "spin"} \cup Making
    /\ dev \in Dev /\ func \in Func /\ funcCount \in Nat /\ ral \in BOOLEAN
    /\ pc = "header" => func = 0
    /\ pc \notin {"header", "end", "spin"} =>
          /\ func < funcCount
          /\ funcCount = IF ~ Present(<<dev, 0>>) \/ dev \in there.multi THEN Functions ELSE 1
    /\ pc \in {"address", "ones", "mask", "spin"} \cup Making => id \in DOMAIN there.bars /\ there.bars[id].card
    /\ pc \in {"ones", "mask", "restore", "upper", "upperMask"} => low = Register(there.bars[id])
    /\ pc \in {"upper", "upperMask"} => Wide(low)

\* Who has an entry, and in which order.
Found ==
    /\ found \in Seq(Records)
    /\ \A i \in Id : Passed(i) <=> \E n \in 1 .. Len(found) : found[n].id = i
    /\ \A m, n \in 1 .. Len(found) : m < n => Before(found[m].id, found[n].id)
    /\ pc \in Making => Len(found) > 0 /\ found[Len(found)].id = id /\ found[Len(found)].mac = <<>>

\* What an entry says.
EntryRight(n) ==
    LET b == there.bars[found[n].id]
    IN  \/ Mistaken(b)
        \/ /\ DecodedRight(b, found[n].decoded)
           /\ found[n].decoded.high = IF n < Len(found) \/ pc \notin {"restore", "upper", "upperMask"}
                                      THEN HighOf(b) ELSE 0
           /\ n < Len(found) \/ pc \notin Making => found[n].mac = MacOf(b)

\* The walk gets stuck at ports.
Stuck == pc = "spin" => there.bars[id].io

PciInv == Bus /\ Registers /\ Uppers /\ Stuck /\ Place /\ Found /\ (\A n \in 1 .. Len(found) : EntryRight(n))

USE DEF Making

(* A function has a device and a number.                                   *)
LEMMA IdParts ==
  ASSUME NEW i \in Id
  PROVE  i[1] \in 0 .. Devices - 1 /\ i[2] \in 0 .. Functions - 1 /\ i = <<i[1], i[2]>>
BY DEF Id, Dev, Func

(* The walk is at a function.                                             *)
LEMMA IdIs ==
  ASSUME Place
  PROVE  /\ id \in Id /\ id[1] = dev /\ id[2] = func
         /\ dev \in 0 .. Devices - 1 /\ func \in 0 .. Functions - 1 /\ Devices \in Nat \ {0} /\ Functions \in Nat \ {0}
BY PciAssumption DEF Place, id, Id, Dev, Func

\* Going on to the next function, the walk is behind this one and those
\* before it.
LEMMA Walk ==
  ASSUME Bus, Place, pc \in {"vendor", "card"}, NextFunction, UNCHANGED <<there, funcCount, low, high, ral>>
  PROVE  /\ Place'
         /\ pc' \in {"vendor", "header", "end"}
         /\ \A i \in DOMAIN there.bars : (pc' = "end" \/ Before(i, id')) <=> (Before(i, id) \/ i = id)
<1>1. /\ id \in Id /\ id[1] = dev /\ id[2] = func
      /\ dev \in 0 .. Devices - 1 /\ func \in 0 .. Functions - 1 /\ Devices \in Nat \ {0} /\ Functions \in Nat \ {0}
  BY IdIs
<1>2. func < funcCount /\ funcCount = IF ~ Present(<<dev, 0>>) \/ dev \in there.multi THEN Functions ELSE 1
  BY DEF Place
<1>3. funcCount \in 1 .. Functions
  BY <1>1, <1>2
<1>4. id' = <<dev', func'>> /\ id'[1] = dev' /\ id'[2] = func' /\ id = <<dev, func>>
  BY DEF id
<1>5. \A i \in DOMAIN there.bars : i[1] = dev => i[2] < funcCount
  <2>1. TAKE i \in DOMAIN there.bars
  <2>2. HAVE i[1] = dev
  <2>3. i \in Id
    BY <2>1 DEF Bus
  <2>4. i[2] \in 0 .. Functions - 1
    BY <2>3, IdParts
  <2>5. CASE funcCount = Functions
    BY <1>1, <2>4, <2>5
  <2>6. CASE funcCount # Functions
    <3>1. Present(<<dev, 0>>) /\ dev \notin there.multi /\ funcCount = 1
      BY <1>2, <2>6
    <3>2. i[2] = 0
      BY <2>1, <2>2, <3>1 DEF Bus
    <3>. QED BY <3>1, <3>2
  <2>. QED BY <2>5, <2>6
<1>6. CASE func + 1 < funcCount
  <2>1. func' = func + 1 /\ pc' = "vendor" /\ dev' = dev
    BY <1>6 DEF NextFunction
  <2>2. Place'
    <3>1. func' \in Func /\ func' < funcCount'
      BY <1>1, <1>3, <1>6, <2>1 DEF Func
    <3>. QED BY <1>2, <2>1, <3>1 DEF Place, Present
  <2>3. ASSUME NEW i \in DOMAIN there.bars
        PROVE  Before(i, id') <=> (Before(i, id) \/ i = id)
    <3>1. i \in Id
      BY <2>3 DEF Bus
    <3>2. i[1] \in Int /\ i[2] \in Int /\ i = <<i[1], i[2]>>
      BY <3>1, IdParts
    <3>3. i = id <=> i[1] = dev /\ i[2] = func
      BY <1>4, <3>2
    <3>. QED BY <1>1, <1>4, <2>1, <3>2, <3>3 DEF Before
  <2>. QED BY <2>1, <2>2, <2>3
<1>7. CASE ~ (func + 1 < funcCount) /\ dev + 1 < Devices
  <2>1. dev' = dev + 1 /\ func' = 0 /\ pc' = "header"
    BY <1>7 DEF NextFunction
  <2>2. Place'
    <3>1. dev' \in Dev /\ func' \in Func
      BY <1>1, <1>7, <2>1 DEF Dev, Func
    <3>. QED BY <2>1, <3>1 DEF Place
  <2>3. ASSUME NEW i \in DOMAIN there.bars
        PROVE  Before(i, id') <=> (Before(i, id) \/ i = id)
    <3>1. i \in Id
      BY <2>3 DEF Bus
    <3>2. i[1] \in Int /\ i[2] \in Nat /\ i = <<i[1], i[2]>>
      BY <1>1, <3>1, IdParts
    <3>3. i = id <=> i[1] = dev /\ i[2] = func
      BY <1>4, <3>2
    <3>4. i[1] = dev => i[2] < funcCount
      BY <1>5, <2>3
    <3>. QED BY <1>1, <1>3, <1>4, <1>7, <2>1, <3>2, <3>3, <3>4 DEF Before
  <2>. QED BY <2>1, <2>2, <2>3
<1>8. CASE ~ (func + 1 < funcCount) /\ ~ (dev + 1 < Devices)
  <2>1. pc' = "end" /\ dev' = dev /\ func' = func
    BY <1>8 DEF NextFunction
  <2>2. Place'
    BY <2>1 DEF Place
  <2>3. ASSUME NEW i \in DOMAIN there.bars
        PROVE  Before(i, id) \/ i = id
    <3>1. i \in Id
      BY <2>3 DEF Bus
    <3>2. i[1] \in 0 .. Devices - 1 /\ i[2] \in Nat /\ i = <<i[1], i[2]>>
      BY <1>1, <3>1, IdParts
    <3>3. i = id <=> i[1] = dev /\ i[2] = func
      BY <1>4, <3>2
    <3>4. i[1] = dev => i[2] < funcCount
      BY <1>5, <2>3
    <3>. QED BY <1>1, <1>3, <1>8, <3>2, <3>3, <3>4 DEF Before
  <2>. QED BY <2>1, <2>2, <2>3
<1>. QED BY <1>6, <1>7, <1>8

\* An entry that does not change and is not the last one being made.
LEMMA EntryStays ==
  ASSUME NEW n, EntryRight(n), UNCHANGED <<there, ral>>, found'[n] = found[n],
         n < Len(found') \/ pc' \notin Making => n < Len(found) \/ pc \notin Making,
         n < Len(found') \/ pc' \notin {"restore", "upper", "upperMask"}
            <=> n < Len(found) \/ pc \notin {"restore", "upper", "upperMask"}
  PROVE  EntryRight(n)'
BY DEF EntryRight, MacOf

(* pci_init reads a header.                                                *)
LEMMA HeaderStep ==
  ASSUME PciInv, Header
  PROVE  PciInv'
<1>1. /\ pc = "header" /\ pc' = "vendor" /\ func' = 0
      /\ funcCount' = IF ~ Present(<<dev, 0>>) \/ dev \in there.multi THEN Functions ELSE 1
      /\ UNCHANGED <<there, bar, bar1, dev, low, high, ral, found>>
  BY DEF Header
<1>2. func = 0 /\ id' = id
  BY <1>1 DEF PciInv, Place, id
<1>3. Bus' /\ Registers' /\ Uppers' /\ Stuck'
  BY <1>1, <1>2 DEF PciInv, Bus, Registers, Uppers, Stuck
<1>4. Place'
  <2>1. func' < funcCount' /\ funcCount' \in Nat
    BY <1>1, PciAssumption
  <2>. QED BY <1>1, <1>2, <2>1 DEF PciInv, Place, Present
<1>5. Found'
  <2>1. \A i : Passed(i)' <=> Passed(i)
    BY <1>1, <1>2 DEF Passed
  <2>. QED BY <1>1, <2>1 DEF PciInv, Found
<1>6. \A n \in 1 .. Len(found') : EntryRight(n)'
  BY <1>1, EntryStays DEF PciInv
<1>. QED BY <1>3, <1>4, <1>5, <1>6 DEF PciInv

(* pci_visit reads a vendor.                                               *)
LEMMA VendorStep ==
  ASSUME PciInv, Vendor
  PROVE  PciInv'
<1>1. pc = "vendor" /\ UNCHANGED <<there, bar, bar1, funcCount, low, high, ral, found>>
  BY DEF Vendor
<1>2. CASE Present(id) /\ there.bars[id].card
  <2>1. pc' = "address" /\ UNCHANGED <<dev, func>> /\ id' = id
    BY <1>2 DEF Vendor, id
  <2>2. Bus' /\ Registers' /\ Uppers' /\ Stuck'
    BY <1>1, <2>1 DEF PciInv, Bus, Registers, Uppers, Stuck
  <2>3. Place'
    BY <1>1, <1>2, <2>1 DEF PciInv, Place, Present
  <2>4. Found'
    <3>1. \A i : Passed(i)' <=> Passed(i)
      BY <1>1, <2>1 DEF Passed
    <3>. QED BY <1>1, <2>1, <3>1 DEF PciInv, Found
  <2>5. \A n \in 1 .. Len(found') : EntryRight(n)'
    BY <1>1, <2>1, EntryStays DEF PciInv
  <2>. QED BY <2>2, <2>3, <2>4, <2>5 DEF PciInv
<1>3. CASE ~ (Present(id) /\ there.bars[id].card)
  <2>1. NextFunction
    BY <1>3 DEF Vendor
  <2>2. /\ Place' /\ pc' \in {"vendor", "header", "end"}
        /\ \A i \in DOMAIN there.bars : (pc' = "end" \/ Before(i, id')) <=> (Before(i, id) \/ i = id)
    BY <1>1, <2>1, Walk DEF PciInv
  <2>3. Bus' /\ Registers' /\ Uppers' /\ Stuck'
    BY <1>1, <2>2 DEF PciInv, Bus, Registers, Uppers, Stuck
  <2>4. Found'
    <3>1. ASSUME NEW i PROVE Passed(i)' <=> Passed(i)
      <4>1. Before(i, id)' <=> Before(i, id')
        BY DEF Before
      <4>. QED BY <1>1, <1>3, <2>2, <4>1 DEF Passed, Present
    <3>. QED BY <1>1, <2>2, <3>1 DEF PciInv, Found
  <2>5. \A n \in 1 .. Len(found') : EntryRight(n)'
    BY <1>1, <2>2, EntryStays DEF PciInv
  <2>. QED BY <2>2, <2>3, <2>4, <2>5 DEF PciInv
<1>. QED BY <1>2, <1>3

(* pci_read_bar reads the address.                                         *)
LEMMA ReadAddressStep ==
  ASSUME PciInv, ReadAddress
  PROVE  PciInv'
<1>1. /\ pc = "address" /\ pc' = "ones" /\ low' = bar[id]
      /\ UNCHANGED <<there, bar, bar1, dev, func, funcCount, high, ral, found>> /\ id' = id
  BY DEF ReadAddress, id
<1>2. Bus' /\ Registers' /\ Uppers' /\ Stuck'
  BY <1>1 DEF PciInv, Bus, Registers, Uppers, Stuck
<1>3. Place'
  <2>1. low' = Register(there.bars[id])
    BY <1>1 DEF PciInv, Place, Registers
  <2>. QED BY <1>1, <2>1 DEF PciInv, Place, Present
<1>4. Found'
  <2>1. \A i : Passed(i)' <=> Passed(i)
    BY <1>1 DEF Passed
  <2>. QED BY <1>1, <2>1 DEF PciInv, Found
<1>5. \A n \in 1 .. Len(found') : EntryRight(n)'
  BY <1>1, EntryStays DEF PciInv
<1>. QED BY <1>2, <1>3, <1>4, <1>5 DEF PciInv

(* pci_read_bar writes all ones.                                           *)
LEMMA WriteOnesStep ==
  ASSUME PciInv, WriteOnes
  PROVE  PciInv'
<1>1. /\ pc = "ones" /\ pc' = "mask" /\ bar' = [bar EXCEPT ![id] = Written(id, Absent)]
      /\ UNCHANGED <<there, bar1, dev, func, funcCount, low, high, ral, found>> /\ id' = id
  BY DEF WriteOnes, id
<1>2. Bus' /\ Uppers' /\ Stuck'
  BY <1>1 DEF PciInv, Bus, Uppers, Stuck
<1>3. Registers'
  <2>1. id \in DOMAIN bar /\ bar[id] = Register(there.bars[id])
    BY <1>1 DEF PciInv, Place, Registers
  <2>2. Written(id, Absent) = Masked(there.bars[id])
    BY <2>1 DEF Written, Masked
  <2>. QED BY <1>1, <2>1, <2>2 DEF PciInv, Registers
<1>4. Place'
  BY <1>1 DEF PciInv, Place, Present
<1>5. Found'
  <2>1. \A i : Passed(i)' <=> Passed(i)
    BY <1>1 DEF Passed
  <2>. QED BY <1>1, <2>1 DEF PciInv, Found
<1>6. \A n \in 1 .. Len(found') : EntryRight(n)'
  BY <1>1, EntryStays DEF PciInv
<1>. QED BY <1>2, <1>3, <1>4, <1>5, <1>6 DEF PciInv

(* pci_read_bar writes the address back.                                   *)
LEMMA RestoreStep ==
  ASSUME PciInv, Restore
  PROVE  PciInv'
<1>1. /\ pc = "restore" /\ pc' = (IF Wide(low) THEN "upper" ELSE "card") /\ bar' = [bar EXCEPT ![id] = Written(id, low)]
      /\ UNCHANGED <<there, bar1, dev, func, funcCount, low, high, ral, found>> /\ id' = id
  BY DEF Restore, id
<1>2. Bus' /\ Uppers' /\ Stuck' /\ pc' \in {"upper", "card"}
  BY <1>1 DEF PciInv, Bus, Uppers, Stuck
<1>3. Registers'
  <2>1. /\ id \in DOMAIN bar /\ id \in DOMAIN there.bars /\ bar[id] = Masked(there.bars[id])
        /\ low = Register(there.bars[id]) /\ there.bars[id] \in Bars
    BY <1>1 DEF PciInv, Place, Registers, Bus
  <2>2. PICK b : b = there.bars[id]
    OBVIOUS
  <2>3. PICK t : MaskTells(b, t)
    BY <2>1, <2>2, BarTells
  <2>4. Kept(b, Masked(b) - (Masked(b) % Half) + (Register(b) % Half)) = Register(b)
    BY <2>3 DEF MaskTells
  <2>5. Written(id, low) = Register(there.bars[id])
    BY <2>1, <2>2, <2>4 DEF Written
  <2>. QED BY <1>1, <2>1, <2>5 DEF PciInv, Registers
<1>4. Place'
  BY <1>1, <1>2 DEF PciInv, Place, Present
<1>5. Found'
  <2>1. \A i : Passed(i)' <=> Passed(i)
    BY <1>1, <1>2 DEF Passed
  <2>. QED BY <1>1, <1>2, <2>1 DEF PciInv, Found
<1>6. ASSUME NEW n \in 1 .. Len(found')
      PROVE  EntryRight(n)'
  <2>1. n \in 1 .. Len(found) /\ EntryRight(n) /\ found' = found
    BY <1>1, <1>6 DEF PciInv
  <2>2. CASE pc' = "upper" \/ n < Len(found)
    BY <1>1, <1>2, <2>1, <2>2, EntryStays
  <2>3. CASE pc' = "card" /\ ~ (n < Len(found))
    <3>1. n = Len(found) /\ found[n].id = id /\ ~ Wide(low)
      BY <1>1, <2>1, <2>3 DEF PciInv, Found
    <3>2. PICK b : b = there.bars[id]
      OBVIOUS
    <3>3. b \in Bars /\ low = Register(b) /\ b.card
      BY <1>1, <3>2 DEF PciInv, Place, Bus
    <3>4. Mistaken(b) \/ (DecodedRight(b, found[n].decoded) /\ found[n].decoded.high = 0)
      BY <1>1, <2>1, <2>3, <3>1, <3>2 DEF EntryRight
    <3>5. Mistaken(b) \/ ~ b.wide
      BY <3>1, <3>3, DecodedIsRight
    <3>6. Mistaken(b) \/ found[n].decoded.high = HighOf(b)
      BY <3>4, <3>5 DEF HighOf
    <3>7. n = Len(found') /\ pc' \in Making /\ found'[n] = found[n] /\ there' = there
      BY <1>1, <2>3, <3>1
    <3>. QED BY <2>3, <3>1, <3>2, <3>4, <3>6, <3>7 DEF EntryRight
  <2>. QED BY <1>2, <2>2, <2>3
<1>. QED BY <1>2, <1>3, <1>4, <1>5, <1>6 DEF PciInv

(* pci_get_bar makes an entry of the mask.                                 *)
LEMMA ReadMaskStep ==
  ASSUME PciInv, ReadMask
  PROVE  PciInv'
<1>1. /\ pc = "mask" /\ pc' = "restore"
      /\ found' = Append(found, [id |-> id, decoded |-> Decoded(bar[id]), mac |-> <<>>])
      /\ UNCHANGED <<there, bar, bar1, dev, func, funcCount, low, high, ral>> /\ id' = id
  BY DEF ReadMask, id
<1>2. Bus' /\ Registers' /\ Uppers' /\ Stuck'
  BY <1>1 DEF PciInv, Bus, Registers, Uppers, Stuck
<1>3. Place'
  BY <1>1 DEF PciInv, Place, Present
<1>4. /\ id \in DOMAIN there.bars /\ bar[id] = Masked(there.bars[id]) /\ there.bars[id].card
      /\ low = Register(there.bars[id]) /\ there.bars[id] \in Bars
  BY <1>1 DEF PciInv, Place, Registers, Bus
<1>5. PICK b : b = there.bars[id]
  OBVIOUS
<1>6. PICK e : e = [id |-> id, decoded |-> Decoded(bar[id]), mac |-> <<>>]
  OBVIOUS
<1>7. e.id = id /\ e.decoded = Decoded(Masked(b)) /\ e.mac = <<>>
  BY <1>4, <1>5, <1>6
<1>8. PICK l \in Nat : l = Len(found)
  BY DEF PciInv, Found
<1>9. e \in Records
  <2>1. PICK t : MaskTells(b, t)
    BY <1>4, <1>5, BarTells
  <2>2. Masked(b) \in Int
    <3>1. t \in Nat /\ FlagBits(b) \in Nat /\ Masked(b) = t + FlagBits(b)
      BY <1>4, <1>5, <2>1, BarIs DEF MaskTells
    <3>. QED BY <3>1
  <2>3. low \in Int
    <3>1. b.base \in Nat /\ FlagBits(b) \in Nat /\ low = b.base + FlagBits(b)
      BY <1>4, <1>5, BarIs DEF Register
    <3>. QED BY <3>1
  <2>4. Decoded(bar[id]) \in [address : Int, size : Int, high : Int, flags : Int]
    BY <1>4, <1>5, <2>2, <2>3, DecodedType
  <2>5. id \in Id /\ <<>> \in Macs
    BY <1>4 DEF PciInv, Bus, Macs
  <2>. QED BY <1>6, <2>4, <2>5 DEF Records
<1>10. /\ found' \in Seq(Records) /\ Len(found') = l + 1 /\ found'[l + 1] = e
       /\ \A n \in 1 .. l : found'[n] = found[n]
  BY <1>1, <1>6, <1>8, <1>9, AppendProperties DEF PciInv, Found
<1>11. Found'
  <2>1. ASSUME NEW i \in Id
        PROVE  Passed(i)' <=> Passed(i) \/ i = id
    <3>1. Before(i, id)' <=> Before(i, id)
      BY <1>1 DEF Before
    <3>. QED BY <1>1, <1>4, <3>1 DEF Passed
  <2>2. ASSUME NEW i \in Id
        PROVE  Passed(i)' <=> \E n \in 1 .. Len(found') : found'[n].id = i
    <3>1. Passed(i) <=> \E n \in 1 .. l : found[n].id = i
      BY <1>8 DEF PciInv, Found
    <3>. QED BY <1>7, <1>10, <2>1, <3>1
  <2>3. ASSUME NEW m \in 1 .. Len(found'), NEW n \in 1 .. Len(found'), m < n
        PROVE  Before(found'[m].id, found'[n].id)
    <3>1. CASE n \in 1 .. l
      <4>1. m \in 1 .. l
        BY <2>3, <3>1
      <4>. QED BY <1>8, <1>10, <2>3, <3>1, <4>1 DEF PciInv, Found
    <3>2. CASE n = l + 1
      <4>1. m \in 1 .. l
        BY <2>3, <3>2
      <4>2. found[m].id \in Id
        <5>1. found[m] \in Records
          BY <1>8, <4>1 DEF PciInv, Found
        <5>. QED BY <5>1 DEF Records
      <4>3. Passed(found[m].id)
        BY <1>8, <4>1, <4>2 DEF PciInv, Found
      <4>4. Before(found[m].id, id)
        BY <1>1, <4>3 DEF Passed
      <4>. QED BY <1>7, <1>10, <3>2, <4>1, <4>4
    <3>. QED BY <1>10, <2>3, <3>1, <3>2
  <2>4. Len(found') > 0 /\ found'[Len(found')].id = id' /\ found'[Len(found')].mac = <<>>
    BY <1>1, <1>7, <1>10
  <2>. QED BY <1>10, <2>2, <2>3, <2>4 DEF Found, Before
<1>12. ASSUME NEW n \in 1 .. Len(found')
       PROVE  EntryRight(n)'
  <2>1. CASE n \in 1 .. l
    <3>1. EntryRight(n)
      BY <1>8, <2>1 DEF PciInv
    <3>2. found'[n] = found[n]
      BY <1>10, <2>1
    <3>3. n < Len(found')
      BY <1>8, <1>10, <2>1
    <3>. QED BY <1>1, <3>1, <3>2, <3>3, EntryStays
  <2>2. CASE n = l + 1
    <3>1. Mistaken(b) \/ DecodedRight(b, e.decoded)
      BY <1>4, <1>5, <1>7, DecodedIsRight
    <3>2. ~ (n < Len(found') \/ pc' \notin {"restore"})
      BY <1>1, <1>10, <2>2
    <3>3. found'[n] = e /\ there.bars[e.id] = b /\ there' = there
      BY <1>1, <1>5, <1>7, <1>10, <2>2
    <3>4. e.decoded.high = 0
      BY <1>7 DEF Decoded
    <3>. QED BY <3>1, <3>2, <3>3, <3>4 DEF EntryRight
  <2>. QED BY <1>10, <1>12, <2>1, <2>2
<1>. QED BY <1>2, <1>3, <1>11, <1>12 DEF PciInv

(* pci_read_bar writes all ones to the register behind.                    *)
LEMMA UpperOnesStep ==
  ASSUME PciInv, UpperOnes
  PROVE  PciInv'
<1>1. /\ pc = "upper" /\ pc' = "upperMask" /\ high' = bar1[id] /\ bar1' = [bar1 EXCEPT ![id] = Written1(id, Absent)]
      /\ UNCHANGED <<there, bar, dev, func, funcCount, low, ral, found>> /\ id' = id
  BY DEF UpperOnes, id
<1>2. Bus' /\ Registers' /\ Stuck'
  BY <1>1 DEF PciInv, Bus, Registers, Stuck
<1>3. Uppers'
  <2>1. id \in DOMAIN bar1 /\ bar1[id] = 0 /\ DOMAIN bar1 = DOMAIN there.bars
    BY <1>1 DEF PciInv, Place, Uppers
  <2>2. 0 % Half = 0 /\ Absent % Half = Half - 1 /\ Half \in Nat
    BY Ones, PciAssumption
  <2>3. Written1(id, Absent) = IF there.bars[id].wide THEN Half - 1 ELSE 0
    BY <2>1, <2>2 DEF Written1, Kept1
  <2>. QED BY <1>1, <2>1, <2>3 DEF PciInv, Uppers
<1>4. Place'
  BY <1>1 DEF PciInv, Place, Present
<1>5. Found'
  <2>1. \A i : Passed(i)' <=> Passed(i)
    BY <1>1 DEF Passed
  <2>. QED BY <1>1, <2>1 DEF PciInv, Found
<1>6. \A n \in 1 .. Len(found') : EntryRight(n)'
  BY <1>1, EntryStays DEF PciInv
<1>. QED BY <1>2, <1>3, <1>4, <1>5, <1>6 DEF PciInv

(* pci_get_bar adds the upper word of the size.                            *)
LEMMA UpperMaskStep ==
  ASSUME PciInv, UpperMask
  PROVE  PciInv'
<1>1. /\ pc = "upperMask" /\ pc' = "card" /\ bar1' = [bar1 EXCEPT ![id] = Written1(id, high)]
      /\ UNCHANGED <<there, bar, dev, func, funcCount, low, high, ral>> /\ id' = id
  BY DEF UpperMask, id
<1>2. Bus' /\ Registers' /\ Stuck'
  BY <1>1 DEF PciInv, Bus, Registers, Stuck
<1>3. /\ id \in DOMAIN bar1 /\ DOMAIN bar1 = DOMAIN there.bars /\ high = 0
      /\ bar1[id] = IF there.bars[id].wide THEN Half - 1 ELSE 0
  BY <1>1 DEF PciInv, Place, Uppers
<1>4. PICK h, g : h = Half /\ g = Full
  OBVIOUS
<1>5. h \in Nat \ {0} /\ h >= 16 /\ g = h * h /\ Absent = g - 1 /\ g \in Nat
  <2>1. h \in Nat \ {0} /\ h % 16 = 0
    BY <1>4, PciAssumption
  <2>. QED BY <1>4, <2>1 DEF Full, Absent
<1>6. Uppers'
  <2>1. 0 % h = 0 /\ (h - 1) % h = h - 1
    BY <1>5
  <2>2. Written1(id, high) = 0
    BY <1>3, <1>4, <1>5, <2>1 DEF Written1, Kept1
  <2>. QED BY <1>1, <1>3, <2>2 DEF PciInv, Uppers
<1>7. Place'
  BY <1>1 DEF PciInv, Place, Present
<1>8. PICK l \in Nat : l = Len(found)
  BY DEF PciInv, Found
<1>9. l > 0 /\ found[l].id = id /\ found[l].mac = <<>> /\ l \in 1 .. l
  BY <1>1, <1>8 DEF PciInv, Found
<1>10. PICK e : e = found[l]
  OBVIOUS
<1>11. PICK b : b = there.bars[id]
  OBVIOUS
<1>12. e \in Records /\ b \in Bars /\ b.card /\ low = Register(b) /\ Wide(low)
  BY <1>1, <1>8, <1>9, <1>10, <1>11 DEF PciInv, Found, Bus, Place
<1>13. PICK u : u = (Absent - bar1[id] + (IF e.decoded.size = 0 THEN 1 ELSE 0)) % Full
  OBVIOUS
<1>m. PICK m : m = bar1[id]
  OBVIOUS
<1>c. PICK s \in {0, 1} : s = IF e.decoded.size = 0 THEN 1 ELSE 0
  OBVIOUS
<1>n. u = ((g - 1) - m + s) % g
  BY <1>4, <1>5, <1>13, <1>m, <1>c
<1>14. u \in Int
  <2>1. m \in Int
    BY <1>3, <1>4, <1>5, <1>m
  <2>2. (g - 1) - m + s \in Int
    BY <1>5, <2>1
  <2>. QED BY <1>5, <1>n, <2>2
<1>15. PICK k : k = [e EXCEPT !.decoded.high = u]
  OBVIOUS
<1>16. /\ k \in Records /\ k.id = e.id /\ k.mac = e.mac /\ k.decoded.high = u
       /\ k.decoded.address = e.decoded.address /\ k.decoded.size = e.decoded.size
       /\ k.decoded.flags = e.decoded.flags
  BY <1>12, <1>14, <1>15 DEF Records
<1>17. found' = [found EXCEPT ![l] = k]
  BY <1>8, <1>10, <1>13, <1>15 DEF UpperMask
<1>18. /\ found' \in Seq(Records) /\ Len(found') = l /\ found'[l] = k
       /\ \A n \in 1 .. l : n # l => found'[n] = found[n]
  <2>1. found \in Seq(Records)
    BY DEF PciInv, Found
  <2>. QED BY <1>8, <1>9, <1>16, <1>17, <2>1, ExceptSeq
<1>19. \A n \in 1 .. l : found'[n].id = found[n].id
  BY <1>9, <1>10, <1>16, <1>18
<1>20. Found'
  <2>1. \A i : Passed(i)' <=> Passed(i)
    BY <1>1 DEF Passed
  <2>2. \A i \in Id : Passed(i)' <=> \E n \in 1 .. Len(found') : found'[n].id = i
    BY <1>8, <1>18, <1>19, <2>1 DEF PciInv, Found
  <2>3. \A o, n \in 1 .. Len(found') : o < n => Before(found'[o].id, found'[n].id)
    BY <1>8, <1>18, <1>19 DEF PciInv, Found
  <2>4. found'[Len(found')].id = id' /\ found'[Len(found')].mac = <<>> /\ Len(found') > 0
    BY <1>1, <1>9, <1>10, <1>16, <1>18
  <2>. QED BY <1>18, <2>2, <2>3, <2>4 DEF Found, Before
<1>21. ASSUME NEW n \in 1 .. Len(found')
       PROVE  EntryRight(n)'
  <2>1. n \in 1 .. l /\ EntryRight(n)
    BY <1>8, <1>18, <1>21 DEF PciInv
  <2>2. CASE n # l
    <3>1. found'[n] = found[n] /\ n < Len(found) /\ n < Len(found')
      BY <1>8, <1>18, <2>1, <2>2
    <3>. QED BY <1>1, <2>1, <3>1, EntryStays
  <2>3. CASE n = l
    <3>1. found'[n] = k /\ k.id = id /\ there'.bars[id] = b /\ ~ (n < Len(found')) /\ ~ (n < Len(found))
      BY <1>1, <1>8, <1>9, <1>10, <1>11, <1>16, <1>18, <2>3
    <3>2. Mistaken(b) \/ DecodedRight(b, e.decoded)
      BY <1>9, <1>10, <1>11, <2>1, <2>3 DEF EntryRight
    <3>3. Mistaken(b) \/ DecodedRight(b, k.decoded)
      BY <1>16, <3>2 DEF DecodedRight
    <3>4. ASSUME ~ Mistaken(b)
          PROVE  u = HighOf(b)
      <4>1. b.wide
        BY <1>12, <3>4, DecodedIsRight
      <4>2. e.decoded.size >= b.size /\ b.size > 0
        BY <1>12, <3>2, <3>4, <4>1, BarIs DEF DecodedRight
      <4>3. e.decoded.size # 0
        BY <1>12, <4>2, BarIs
      <4>4. u = ((g - 1) - (h - 1)) % g
        <5>1. m = h - 1 /\ s = 0
          BY <1>3, <1>4, <1>11, <1>m, <1>c, <4>1, <4>3
        <5>2. (g - 1) - m + s = (g - 1) - (h - 1)
          BY <1>5, <5>1
        <5>. QED BY <1>n, <5>2
      <4>5. g - h \in 0 .. g - 1 /\ (g - 1) - (h - 1) = g - h
        <5>1. h * h >= h
          BY <1>5
        <5>. QED BY <1>5, <5>1
      <4>6. (g - h) % g = g - h
        BY <1>5, <4>5
      <4>. QED BY <1>4, <4>1, <4>4, <4>5, <4>6 DEF HighOf
    <3>. QED BY <1>1, <1>16, <3>1, <3>3, <3>4 DEF EntryRight
  <2>. QED BY <2>2, <2>3
<1>. QED BY <1>2, <1>6, <1>7, <1>20, <1>21 DEF PciInv

(* the driver looks for its own address.                                   *)
LEMMA CardStep ==
  ASSUME PciInv, Card, NextFunction
  PROVE  PciInv'
<1>1. pc = "card" /\ NextFunction /\ UNCHANGED <<there, bar, bar1, funcCount, low, high, ral>>
  BY DEF Card
<1>2. /\ Place' /\ pc' \in {"vendor", "header", "end"}
      /\ \A i \in DOMAIN there.bars : (pc' = "end" \/ Before(i, id')) <=> (Before(i, id) \/ i = id)
  BY <1>1, Walk DEF PciInv
<1>3. Bus' /\ Registers' /\ Uppers' /\ Stuck'
  BY <1>1, <1>2 DEF PciInv, Bus, Registers, Uppers, Stuck
<1>4. PICK l \in Nat : l = Len(found)
  BY DEF PciInv, Found
<1>5. l > 0 /\ found[l].id = id /\ found[l].mac = <<>> /\ l \in 1 .. l
  BY <1>1, <1>4 DEF PciInv, Found
<1>6. PICK e : e = found[l]
  OBVIOUS
<1>7. PICK b : b = there.bars[id]
  OBVIOUS
<1>8. e \in Records /\ b \in Bars
  BY <1>1, <1>4, <1>5, <1>6, <1>7 DEF PciInv, Found, Bus, Place
<1>9. PICK g : g = IF e.decoded.flags % 2 = 1 THEN <<>> ELSE IF ral THEN Mac ELSE [Mac EXCEPT ![2] = 0]
  OBVIOUS
<1>p. Ports(l) <=> e.decoded.flags % 2 = 1
  BY <1>6 DEF Ports
<1>10. /\ found' \in Seq(Records) /\ Len(found') = l
       /\ found'[l].id = id /\ found'[l].decoded = e.decoded /\ found'[l].mac = g
       /\ \A n \in 1 .. l : n # l => found'[n] = found[n]
  <2>1. CASE e.decoded.flags % 2 = 1
    <3>1. found' = found
      BY <1>4, <1>p, <2>1 DEF Card
    <3>. QED BY <1>4, <1>5, <1>6, <1>9, <2>1, <3>1 DEF PciInv, Found
  <2>2. CASE ~ (e.decoded.flags % 2 = 1)
    <3>1. found' = [found EXCEPT ![l].mac = IF ral THEN Mac ELSE [Mac EXCEPT ![2] = 0]]
      BY <1>4, <1>p, <2>2 DEF Card
    <3>2. found' = [found EXCEPT ![l].mac = g]
      BY <1>9, <2>2, <3>1
    <3>3. PICK k : k = [e EXCEPT !.mac = g]
      OBVIOUS
    <3>4. found' = [found EXCEPT ![l] = k]
      BY <1>6, <3>2, <3>3
    <3>5. g \in Macs
      BY <1>9 DEF Macs
    <3>6. k \in Records /\ k.id = e.id /\ k.decoded = e.decoded /\ k.mac = g
      BY <1>8, <3>3, <3>5 DEF Records
    <3>7. found \in Seq(Records)
      BY DEF PciInv, Found
    <3>8. found' \in Seq(Records) /\ Len(found') = l /\ found'[l] = k /\ \A n \in 1 .. l : n # l => found'[n] = found[n]
      BY <1>4, <1>5, <3>4, <3>6, <3>7, ExceptSeq
    <3>. QED BY <1>5, <1>6, <3>6, <3>8
  <2>. QED BY <2>1, <2>2
<1>11. \A n \in 1 .. l : found'[n].id = found[n].id
  BY <1>5, <1>10
<1>12. Found'
  <2>1. ASSUME NEW i PROVE Passed(i)' <=> Passed(i)
    <3>1. Before(i, id)' <=> Before(i, id')
      BY DEF Before
    <3>. QED BY <1>1, <1>2, <3>1 DEF Passed
  <2>2. \A i \in Id : Passed(i)' <=> \E n \in 1 .. Len(found') : found'[n].id = i
    BY <1>4, <1>10, <1>11, <2>1 DEF PciInv, Found
  <2>3. \A m, n \in 1 .. Len(found') : m < n => Before(found'[m].id, found'[n].id)
    BY <1>4, <1>10, <1>11 DEF PciInv, Found
  <2>. QED BY <1>2, <1>10, <2>2, <2>3 DEF Found, Before
<1>13. ASSUME NEW n \in 1 .. Len(found')
       PROVE  EntryRight(n)'
  <2>1. n \in 1 .. l /\ EntryRight(n)
    BY <1>4, <1>10, <1>13 DEF PciInv
  <2>2. CASE n # l
    <3>1. found'[n] = found[n] /\ n < Len(found)
      BY <1>4, <1>10, <2>1, <2>2
    <3>2. n < Len(found')
      BY <1>4, <1>10, <3>1
    <3>. QED BY <1>1, <2>1, <3>1, <3>2, EntryStays
  <2>3. CASE n = l
    <3>1. CASE Mistaken(b)
      <4>1. Mistaken(there.bars[found[n].id])'
        BY <1>1, <1>5, <1>7, <1>10, <2>3, <3>1 DEF Mistaken
      <4>. QED BY <4>1 DEF EntryRight
    <3>2. CASE ~ Mistaken(b)
      <4>1. DecodedRight(b, e.decoded)
        BY <1>5, <1>6, <1>7, <2>1, <2>3, <3>2 DEF EntryRight
      <4>2. e.decoded.flags % 2 = 1 <=> b.io
        <5>1. e.decoded.flags = FlagBits(b)
          BY <4>1 DEF DecodedRight
        <5>2. b.io \in BOOLEAN
          BY <1>8, BarIs
        <5>. QED BY <5>1, <5>2 DEF FlagBits
      <4>3. g = MacOf(b)
        BY <1>9, <4>2 DEF MacOf
      <4>4. e.decoded.high = HighOf(b)
        BY <1>1, <1>5, <1>6, <1>7, <2>1, <2>3, <3>2 DEF EntryRight
      <4>5. found'[n].id = id /\ found'[n].decoded = e.decoded /\ found'[n].mac = g /\ there'.bars[id] = b
        BY <1>1, <1>7, <1>10, <2>3
      <4>6. MacOf(b)' = MacOf(b)
        BY <1>1 DEF MacOf
      <4>7. pc' \notin Making
        BY <1>2
      <4>. QED BY <4>1, <4>3, <4>4, <4>5, <4>6, <4>7 DEF EntryRight, DecodedRight, HighOf
    <3>. QED BY <3>1, <3>2
  <2>. QED BY <2>2, <2>3
<1>. QED BY <1>2, <1>3, <1>12, <1>13 DEF PciInv

(* The walk gets stuck behind a card of ports.                             *)
LEMMA SpinStep ==
  ASSUME PciInv, Card, pc' = "spin", ~ NextFunction
  PROVE  PciInv'
<1>1. /\ pc = "card" /\ UNCHANGED <<there, bar, bar1, dev, func, funcCount, low, high, ral>> /\ id' = id
      /\ \A n \in DOMAIN found : Ports(n)
  BY DEF Card, FirstRequest, id
<1>2. PICK l \in Nat : l = Len(found) /\ DOMAIN found = 1 .. l
  BY DEF PciInv, Found
<1>3. l > 0 /\ found[l].id = id /\ found[l].mac = <<>> /\ l \in 1 .. l
  BY <1>1, <1>2 DEF PciInv, Found
<1>4. Ports(l) /\ found' = found
  BY <1>1, <1>2, <1>3 DEF Card
<1>5. PICK b : b = there.bars[id]
  OBVIOUS
<1>6. b \in Bars /\ b.io \in BOOLEAN
  BY <1>1, <1>5, BarIs DEF PciInv, Bus, Place
<1>7. b.io
  <2>1. EntryRight(l)
    BY <1>2, <1>3 DEF PciInv
  <2>2. CASE Mistaken(b)
    BY <2>2 DEF Mistaken
  <2>3. CASE ~ Mistaken(b)
    <3>1. found[l].decoded.flags = FlagBits(b)
      BY <1>3, <1>5, <2>1, <2>3 DEF EntryRight, DecodedRight
    <3>2. FlagBits(b) % 2 = 1
      BY <1>4, <3>1 DEF Ports
    <3>. QED BY <1>6, <3>2 DEF FlagBits
  <2>. QED BY <2>2, <2>3
<1>8. Bus' /\ Registers' /\ Uppers' /\ Stuck'
  BY <1>1, <1>5, <1>7 DEF PciInv, Bus, Registers, Uppers, Stuck
<1>9. Place'
  BY <1>1 DEF PciInv, Place, Present
<1>10. Found'
  <2>1. \A i : Passed(i)' <=> Passed(i)
    BY <1>1 DEF Passed
  <2>. QED BY <1>1, <1>4, <2>1 DEF PciInv, Found
<1>11. ASSUME NEW n \in 1 .. Len(found')
       PROVE  EntryRight(n)'
  <2>1. n \in 1 .. l /\ EntryRight(n)
    BY <1>2, <1>4, <1>11 DEF PciInv
  <2>2. CASE n # l
    <3>1. n < Len(found) /\ n < Len(found')
      BY <1>2, <1>4, <2>1, <2>2
    <3>. QED BY <1>1, <1>4, <2>1, <3>1, EntryStays
  <2>3. CASE n = l
    <3>1. MacOf(b)' = <<>>
      BY <1>7 DEF MacOf
    <3>. QED BY <1>1, <1>3, <1>4, <1>5, <2>1, <2>3, <3>1 DEF EntryRight
  <2>. QED BY <2>2, <2>3
<1>. QED BY <1>8, <1>9, <1>10, <1>11 DEF PciInv

(* The invariant holds at the start.                                       *)
LEMMA PciStart ==
  ASSUME PciInit
  PROVE  PciInv
<1>1. PICK ids \in SUBSET Id, multi \in SUBSET Dev :
         \E bars \in [ids -> Bars] :
            /\ \A i \in ids : i[2] # 0 => i[1] \in multi /\ <<i[1], 0>> \in ids
            /\ there = [bars |-> bars, multi |-> multi]
            /\ bar = [i \in ids |-> Register(bars[i])] /\ bar1 = [i \in ids |-> 0]
  BY DEF PciInit
<1>2. PICK bars \in [ids -> Bars] :
            /\ \A i \in ids : i[2] # 0 => i[1] \in multi /\ <<i[1], 0>> \in ids
            /\ there = [bars |-> bars, multi |-> multi]
            /\ bar = [i \in ids |-> Register(bars[i])] /\ bar1 = [i \in ids |-> 0]
  BY <1>1
<1>3. there.bars = bars /\ there.multi = multi /\ DOMAIN bars = ids
  BY <1>2
<1>4. pc = "header" /\ dev = 0 /\ func = 0 /\ funcCount = 0 /\ ral \in BOOLEAN /\ found = <<>>
  BY DEF PciInit
<1>5. Bus
  BY <1>2, <1>3 DEF Bus
<1>6. Registers /\ Uppers /\ Stuck
  BY <1>2, <1>3, <1>4 DEF Registers, Uppers, Stuck
<1>7. Place
  BY <1>4, PciAssumption DEF Place, Dev, Func
<1>8. Found
  <2>1. ASSUME NEW i \in Id, Passed(i) PROVE FALSE
    <3>1. i[1] \in Nat /\ i[2] \in Nat
      BY IdParts, PciAssumption
    <3>2. Before(i, id)
      BY <1>4, <2>1 DEF Passed
    <3>. QED BY <1>4, <3>1, <3>2 DEF Before, id
  <2>2. found \in Seq(Records) /\ Len(found) = 0 /\ 1 .. Len(found) = {}
    BY <1>4
  <2>. QED BY <1>4, <2>1, <2>2 DEF Found
<1>9. 1 .. Len(found) = {}
  BY <1>4
<1>. QED BY <1>5, <1>6, <1>7, <1>8, <1>9 DEF PciInv

(* Every step preserves it.                                                *)
LEMMA PciStep ==
  ASSUME PciInv, [PciNext]_pciVars
  PROVE  PciInv'
<1>1. CASE UNCHANGED pciVars
  <2>1. UNCHANGED <<there, bar, bar1, pc, dev, func, funcCount, low, high, ral, found>> /\ id' = id
    BY <1>1 DEF pciVars, id
  <2>2. (Bus /\ Registers /\ Uppers /\ Stuck /\ Place)'
    BY <2>1 DEF PciInv, Bus, Registers, Uppers, Stuck, Place, Present
  <2>3. Found'
    <3>1. \A i : Passed(i)' <=> Passed(i)
      BY <2>1 DEF Passed
    <3>. QED BY <2>1, <3>1 DEF PciInv, Found
  <2>4. \A n \in 1 .. Len(found') : EntryRight(n)'
    BY <2>1, EntryStays DEF PciInv
  <2>. QED BY <2>2, <2>3, <2>4 DEF PciInv
<1>2. ASSUME Card
      PROVE  PciInv'
  <2>1. NextFunction \/ pc' = "spin"
    BY <1>2 DEF Card, FirstRequest
  <2>. QED BY <1>2, <2>1, CardStep, SpinStep
<1>. QED BY <1>1, <1>2, HeaderStep, VendorStep, ReadAddressStep, WriteOnesStep, ReadMaskStep, RestoreStep,
            UpperOnesStep, UpperMaskStep
         DEF PciNext

\* At the end there is one entry for each card.
LEMMA AllCards ==
  ASSUME PciInv, pc = "end"
  PROVE  Len(found) = Cardinality({i \in DOMAIN bar : there.bars[i].card})
<1>1. PICK l \in Nat : l = Len(found)
  BY DEF PciInv, Found
<1>2. PICK C : C = {i \in DOMAIN bar : there.bars[i].card}
  OBVIOUS
<1>3. \A i \in Id : Passed(i) <=> i \in C
  BY <1>2 DEF PciInv, Passed, Registers
<1>4. C \subseteq Id
  BY <1>2 DEF PciInv, Registers, Bus
<1>5. \A n \in 1 .. l : found[n].id \in Id
  <2>1. \A n \in 1 .. l : found[n] \in Records
    BY <1>1 DEF PciInv, Found
  <2>. QED BY <2>1 DEF Records
<1>6. \A n \in 1 .. l : found[n].id \in C
  <2>1. \A i \in Id : (\E n \in 1 .. l : found[n].id = i) => i \in C
    BY <1>1, <1>3 DEF PciInv, Found
  <2>. QED BY <1>5, <2>1
<1>7. \A i \in C : \E n \in 1 .. l : found[n].id = i
  BY <1>1, <1>3, <1>4 DEF PciInv, Found
<1>8. ASSUME NEW m \in 1 .. l, NEW n \in 1 .. l, m < n
      PROVE  found[m].id # found[n].id
  <2>1. Before(found[m].id, found[n].id)
    BY <1>1, <1>8 DEF PciInv, Found
  <2>2. PICK i, j : i = found[m].id /\ j = found[n].id
    OBVIOUS
  <2>3. i \in Id /\ j \in Id
    BY <1>5, <2>2
  <2>4. i[1] \in Int /\ i[2] \in Int /\ j[1] \in Int /\ j[2] \in Int
    BY <2>3, IdParts
  <2>5. Before(i, j)
    BY <2>1, <2>2
  <2>6. i # j
    BY <2>4, <2>5 DEF Before
  <2>. QED BY <2>2, <2>6
<1>9. PICK f : f = [n \in 1 .. l |-> found[n].id]
  OBVIOUS
<1>10. f \in Bijection(1 .. l, C)
  <2>1. f \in [1 .. l -> C]
    BY <1>6, <1>9
  <2>2. ASSUME NEW m \in 1 .. l, NEW n \in 1 .. l, f[m] = f[n] PROVE m = n
    <3>1. found[m].id = found[n].id
      BY <1>9, <2>2
    <3>. QED BY <1>8, <3>1
  <2>3. \A i \in C : \E n \in 1 .. l : f[n] = i
    BY <1>7, <1>9
  <2>. QED BY <2>1, <2>2, <2>3 DEF Bijection, Injection, Surjection, IsInjective
<1>11. ExistsBijection(1 .. l, C)
  BY <1>10 DEF ExistsBijection
<1>. QED BY <1>1, <1>2, <1>11, FS_CountingElements

(* The invariant is what CardsFound says, and more.                        *)
LEMMA CardsAre ==
  ASSUME PciInv
  PROVE  CardsFound
<1>1. \A i \in DOMAIN bar :
         /\ (pc \in {"mask", "restore"} /\ i = id) \/ bar[i] = Register(there.bars[i])
         /\ (pc = "upperMask" /\ i = id) \/ bar1[i] = 0
  BY DEF PciInv, Registers, Uppers
<1>2. PICK l \in Nat : l = Len(found) /\ DOMAIN found = 1 .. l
  BY DEF PciInv, Found
<1>3. \A m, n \in DOMAIN found : m < n => Before(found[m].id, found[n].id)
  BY <1>2 DEF PciInv, Found
<1>4. ASSUME NEW n \in DOMAIN found
      PROVE  LET b == there.bars[found[n].id]
                 d == found[n].decoded
             IN  \/ b.io /\ Wide(b.base)
                 \/ /\ d.address = b.base /\ d.flags = FlagBits(b)
                    /\ IF b.io THEN d.size = b.size ELSE d.size >= b.size
                    /\ n < Len(found) \/ pc \notin Making =>
                          /\ d.high = IF b.wide THEN Full - Half ELSE 0
                          /\ found[n].mac = IF b.io THEN <<>> ELSE IF ral THEN Mac ELSE [Mac EXCEPT ![2] = 0]
  <2>1. EntryRight(n)
    BY <1>2, <1>4 DEF PciInv
  <2>. QED BY <2>1 DEF EntryRight, Mistaken, DecodedRight, HighOf, MacOf
<1>5. pc = "spin" => there.bars[id].io
  BY DEF PciInv, Stuck
<1>. QED BY <1>1, <1>3, <1>4, <1>5, AllCards DEF CardsFound, Before

HIDE DEF Making

\* The walk over the bus finds every card once, in order, gives the drivers
\* its address and a size that is right, and leaves the registers as they
\* were (pci_init, pci_visit and pci_get_bar).
THEOREM EveryCardIsFound == PciSpec => []CardsFound
<1>1. PciInit => PciInv
  BY PciStart
<1>2. PciInv /\ [PciNext]_pciVars => PciInv'
  BY PciStep
<1>3. PciInv => CardsFound
  BY CardsAre
<1>. QED BY <1>1, <1>2, <1>3, PTL DEF PciSpec

-----------------------------------------------------------------------------
(* The layout of memory                                                    *)

\* The k-th word of the page directory, and of the j-th table.
Dir(k)   == page_directory + 4 * k
Tab(j, k) == first_page + 4 * Page * j + 4 * k

\* What paging_init has written so far, where there is memory.
Mapped ==
    /\ \A k \in 0 .. Entries - 1 : Dir(k) < ram =>
          Dir(k) \in DOMAIN tables /\ tables[Dir(k)] = IF k < mapped THEN Tab(k, 0) + 3 ELSE 2
    /\ \A j \in 0 .. mapped - 1, k \in 0 .. Entries - 1 : Tab(j, k) < ram =>
          Tab(j, k) \in DOMAIN tables /\ tables[Tab(j, k)] = Super * j + Page * k + 3

Placed == step # "mm_init" => (step = "lost" <=> heap_begin \notin KernelEnd .. heap_end)

BootInv ==
    /\ ram \in Rams /\ word \in EndWords /\ mapped \in 0 .. Entries
    /\ Placed
    /\ \A a \in DOMAIN tables : a \in Nat /\ a >= Super /\ a < ram
    /\ step \notin {"map", "enabled"} => DOMAIN tables = {} /\ mapped = 0
    /\ step \in {"map", "enabled"} => last_page = Tab(mapped, 0) /\ Mapped
    /\ step = "enabled" => mapped = Entries

(* How the sizes go with each other.                                       *)
LEMMA Sizes ==
  /\ Entries \in Nat /\ Entries >= 8 /\ Page = 4 * Entries
  /\ Page \in Nat /\ Page >= 32 /\ Super \in Nat /\ Super > 0 /\ Space \in Nat
  /\ Super = Page * Entries /\ Space = Super * Entries
  /\ 8 * Page <= Super /\ 8 * Super <= Space
<1>1. PICK e : e = Entries
  OBVIOUS
<1>2. e \in Nat /\ e >= 8
  BY <1>1, BootAssumption
<1>3. PICK p : p = 4 * e
  OBVIOUS
<1>4. p \in Nat /\ p >= 32
  BY <1>2, <1>3
<1>5. PICK s : s = e * p
  OBVIOUS
<1>6. s \in Nat /\ s = p * e
  BY <1>2, <1>4, <1>5
<1>7. 8 * p <= s
  <2>1. p * (e - 8) >= 0
    BY <1>2, <1>4
  <2>. QED BY <1>2, <1>4, <1>6, <2>1
<1>8. PICK z : z = e * s
  OBVIOUS
<1>9. z \in Nat /\ z = s * e
  BY <1>2, <1>6, <1>8
<1>10. 8 * s <= z
  <2>1. s * (e - 8) >= 0
    BY <1>2, <1>6
  <2>. QED BY <1>2, <1>6, <1>9, <2>1
<1>11. Entries = e /\ Page = p /\ Super = s /\ Space = z
  BY <1>1, <1>3, <1>5, <1>8 DEF Page, Super, Space
<1>. QED BY <1>2, <1>3, <1>4, <1>6, <1>7, <1>9, <1>10, <1>11

(* Multiples keep their distance.                                          *)
LEMMA Multiples ==
  ASSUME NEW n \in Nat, NEW j \in Int, NEW m \in Int, j < m
  PROVE  n * j + n <= n * m
<1>1. n * (m - j - 1) >= 0
  OBVIOUS
<1>. QED BY <1>1

(* Where the words lie: the directory behind the kernel's own, the tables  *)
(* behind the directory, one behind the other.                             *)
LEMMA WordsApart ==
  ASSUME NEW j \in Nat, NEW k \in 0 .. Entries - 1
  PROVE  /\ Dir(k) \in Nat /\ Super <= Dir(k) /\ Dir(k) < Tab(j, 0) /\ Dir(k) < Super + Page
         /\ Tab(j, k) \in Nat /\ Super <= Tab(j, k)
         /\ \A m \in Nat : j < m => Tab(j, k) < Tab(m, 0)
         /\ Tab(j, k) = Tab(j, 0) + 4 * k
<1>1. PICK p : p = Page
  OBVIOUS
<1>2. PICK s : s = Super
  OBVIOUS
<1>3. PICK e : e = Entries
  OBVIOUS
<1>4. e \in Nat /\ p \in Nat /\ p = 4 * e /\ p >= 32 /\ s \in Nat /\ k \in 0 .. e - 1
  BY <1>1, <1>2, <1>3, Sizes
<1>5. PICK x : x = 4 * p
  OBVIOUS
<1>6. x \in Nat /\ 4 * k < x /\ 4 * k < p
  BY <1>4, <1>5
<1>7. Dir(k) = s + 4 * k /\ \A i, n : Tab(i, n) = s + x + x * i + 4 * n
  BY <1>1, <1>2, <1>5 DEF Dir, Tab, page_directory, first_page
<1>8. x * j \in Nat
  BY <1>6
<1>9. ASSUME NEW m \in Nat, j < m
      PROVE  x * j + x <= x * m /\ x * m \in Nat
  BY <1>6, <1>9, Multiples
<1>10. Dir(k) \in Nat /\ s <= Dir(k) /\ Dir(k) < Tab(j, 0) /\ Dir(k) < s + p
  BY <1>4, <1>6, <1>7, <1>8
<1>11. Tab(j, k) \in Nat /\ s <= Tab(j, k) /\ Tab(j, k) = Tab(j, 0) + 4 * k
  BY <1>4, <1>6, <1>7, <1>8
<1>12. \A m \in Nat : j < m => Tab(j, k) < Tab(m, 0)
  BY <1>4, <1>6, <1>7, <1>8, <1>9
<1>. QED BY <1>1, <1>2, <1>10, <1>11, <1>12

(* The tables lie within the address space.                                *)
LEMMA TablesFit ==
  ASSUME NEW j \in 0 .. Entries
  PROVE  Tab(j, 0) \in Nat /\ Tab(j, 0) < Space
<1>1. PICK p : p = Page
  OBVIOUS
<1>2. PICK s : s = Super
  OBVIOUS
<1>3. PICK e : e = Entries
  OBVIOUS
<1>4. PICK z : z = Space
  OBVIOUS
<1>5. /\ e \in Nat /\ p \in Nat /\ s \in Nat /\ z \in Nat /\ j \in 0 .. e /\ s > 0
      /\ s = p * e /\ 8 * p <= s /\ 8 * s <= z
  BY <1>1, <1>2, <1>3, <1>4, Sizes
<1>6. p * j \in Nat /\ p * j <= s
  <2>1. p * (e - j) >= 0 /\ p * j >= 0
    BY <1>5
  <2>2. p * (e - j) = p * e - p * j
    BY <1>5
  <2>. QED BY <1>5, <2>1, <2>2
<1>7. 4 * p * j = 4 * (p * j)
  BY <1>5
<1>8. Tab(j, 0) = s + 4 * p + 4 * (p * j)
  BY <1>1, <1>2, <1>5, <1>6, <1>7 DEF Tab, first_page
<1>. QED BY <1>4, <1>5, <1>6, <1>8

(* What a table says is within the address space, too.                     *)
LEMMA FramesFit ==
  ASSUME NEW j \in 0 .. Entries - 1, NEW k \in 0 .. Entries - 1
  PROVE  /\ Super * j + Page * k \in 0 .. Space - 1
         /\ (Super * j + Page * k) % Space = Super * j + Page * k
         /\ Super * j \in Nat /\ Page * k \in 0 .. Super - 1
<1>1. PICK p : p = Page
  OBVIOUS
<1>2. PICK s : s = Super
  OBVIOUS
<1>3. PICK e : e = Entries
  OBVIOUS
<1>4. PICK z : z = Space
  OBVIOUS
<1>5. /\ e \in Nat /\ p \in Nat /\ s \in Nat /\ z \in Nat /\ j \in 0 .. e - 1 /\ k \in 0 .. e - 1
      /\ p > 0 /\ s > 0 /\ s = p * e /\ z = s * e /\ 8 * s <= z
  BY <1>1, <1>2, <1>3, <1>4, Sizes
<1>6. p * k \in Nat /\ p * k + p <= s
  BY <1>5, Multiples
<1>7. s * j \in Nat /\ s * j + s <= z
  BY <1>5, Multiples
<1>8. PICK a : a = s * j + p * k
  OBVIOUS
<1>9. a \in 0 .. z - 1 /\ z > 0
  BY <1>5, <1>6, <1>7, <1>8
<1>10. Divided(a, z, 0, a)
  <2>1. z * 0 = 0 /\ a \in Int
    BY <1>5, <1>9
  <2>2. a = z * 0 + a
    BY <2>1
  <2>. QED BY <1>9, <2>2 DEF Divided
<1>11. a % z = a
  BY <1>5, <1>9, <1>10, Remainder
<1>. QED BY <1>1, <1>2, <1>4, <1>5, <1>6, <1>7, <1>8, <1>9, <1>11

-----------------------------------------------------------------------------
(* mm_init                                                                 *)

(* The kernel is zeroed unless the heap begins behind it, before its end.  *)
LEMMA KernelZeroed ==
  ASSUME NEW b \in 0 .. Space - 1
  PROVE  (\E a \in KernelBase .. KernelEnd - 1 : Zeroed(b, a)) <=> b \notin KernelEnd .. heap_end
<1>1. PICK z : z = Space
  OBVIOUS
<1>2. PICK h : h = heap_end
  OBVIOUS
<1>3. /\ z \in Nat \ {0} /\ h \in Nat /\ h < z /\ b \in 0 .. z - 1
      /\ KernelBase \in Nat /\ KernelEnd \in Nat /\ KernelBase < KernelEnd /\ KernelEnd <= h
  <2>1. PICK s : s = Super
    OBVIOUS
  <2>2. PICK x : x = MaxPages * Page
    OBVIOUS
  <2>3. MaxPages \in Nat /\ Page \in Nat /\ s \in Nat /\ s > 0 /\ 8 * s <= z
    BY <1>1, <2>1, Sizes, BootAssumption
  <2>4. x \in Nat
    BY <2>2, <2>3
  <2>5. h = s - x
    BY <1>2, <2>1, <2>2 DEF heap_end
  <2>6. KernelBase \in Nat /\ KernelEnd \in Nat /\ KernelBase < KernelEnd /\ KernelEnd <= s - x
    BY <2>1, <2>2, BootAssumption
  <2>7. z \in Nat /\ b \in 0 .. z - 1
    BY <1>1, Sizes
  <2>. QED BY <2>3, <2>4, <2>5, <2>6, <2>7
\* The remainder of a difference of two addresses.
<1>4. ASSUME NEW d \in Int, 0 - z < d, d < z
      PROVE  d % z = IF d < 0 THEN d + z ELSE d
  <2>1. CASE d < 0
    <3>1. d + z \in 0 .. z - 1 /\ d = z * (0 - 1) + (d + z)
      BY <1>3, <1>4, <2>1
    <3>2. Divided(d, z, 0 - 1, d + z)
      BY <3>1 DEF Divided
    <3>. QED BY <1>3, <2>1, <3>2, Remainder
  <2>2. CASE d >= 0
    <3>1. d \in 0 .. z - 1 /\ d = z * 0 + d
      BY <1>3, <1>4, <2>2
    <3>2. Divided(d, z, 0, d)
      BY <3>1 DEF Divided
    <3>. QED BY <1>3, <2>2, <3>2, Remainder
  <2>. QED BY <2>1, <2>2
<1>5. ASSUME NEW a \in KernelBase .. KernelEnd - 1
      PROVE  Zeroed(b, a) <=> (IF a < b THEN a - b + z ELSE a - b) < (IF h < b THEN h - b + z ELSE h - b)
  <2>1. (a - b) % z = IF a < b THEN a - b + z ELSE a - b
    <3>1. a - b \in Int /\ 0 - z < a - b /\ a - b < z /\ (a - b < 0 <=> a < b)
      BY <1>3
    <3>. QED BY <1>4, <3>1
  <2>2. (h - b) % z = IF h < b THEN h - b + z ELSE h - b
    <3>1. h - b \in Int /\ 0 - z < h - b /\ h - b < z /\ (h - b < 0 <=> h < b)
      BY <1>3
    <3>. QED BY <1>4, <3>1
  <2>. QED BY <1>1, <1>2, <2>1, <2>2 DEF Zeroed
<1>6. CASE b < KernelEnd
  <2>1. KernelEnd - 1 \in KernelBase .. KernelEnd - 1 /\ ~ (KernelEnd - 1 < b) /\ ~ (h < b)
    BY <1>3, <1>6
  <2>2. Zeroed(b, KernelEnd - 1)
    BY <1>3, <1>5, <2>1
  <2>. QED BY <1>2, <1>3, <1>6, <2>1, <2>2
<1>7. CASE b > h
  <2>1. KernelEnd - 1 \in KernelBase .. KernelEnd - 1 /\ KernelEnd - 1 < b /\ h < b
    BY <1>3, <1>7
  <2>2. Zeroed(b, KernelEnd - 1)
    BY <1>3, <1>5, <2>1
  <2>. QED BY <1>2, <1>3, <1>7, <2>1, <2>2
<1>8. CASE KernelEnd <= b /\ b <= h
  <2>1. ASSUME NEW a \in KernelBase .. KernelEnd - 1
        PROVE  ~ Zeroed(b, a)
    <3>1. a < b /\ ~ (h < b) /\ ~ (a - b + z < h - b)
      BY <1>3, <1>8
    <3>. QED BY <1>5, <3>1
  <2>. QED BY <1>2, <1>3, <1>8, <2>1
<1>. QED BY <1>3, <1>6, <1>7, <1>8

(* What mm_init sets up.                                                   *)
LEMMA InitStep == BootInv /\ mm_init => BootInv'
<1>. SUFFICES ASSUME BootInv, mm_init PROVE BootInv'
  OBVIOUS
<1>1. PICK z : z = Space
  OBVIOUS
<1>2. PICK b : b = (word + Page) % Space
  OBVIOUS
<1>3. b \in 0 .. Space - 1
  <2>1. word \in Int
    BY BootAssumption, Sizes DEF BootInv
  <2>2. z \in Nat \ {0} /\ Page \in Int
    BY <1>1, Sizes
  <2>3. word + Page \in Int
    BY <2>1, <2>2
  <2>4. (word + Page) % z \in 0 .. z - 1
    BY <2>2, <2>3, Division
  <2>. QED BY <1>1, <1>2, <2>4
<1>4. /\ step = "mm_init" /\ heap_begin' = b
      /\ step' \in {"lost", "panic", "paging_init"}
      /\ step' = "lost" <=> \E a \in KernelBase .. KernelEnd - 1 : Zeroed(b, a)
  BY <1>2 DEF mm_init
<1>5. step' = "lost" <=> heap_begin' \notin KernelEnd .. heap_end
  BY <1>3, <1>4, KernelZeroed
<1>6. Placed'
  BY <1>5 DEF Placed, heap_end, Page, Super
<1>7. ram' = ram /\ word' = word /\ tables' = tables /\ mapped' = mapped
  BY DEF mm_init
<1>. QED BY <1>4, <1>6, <1>7 DEF BootInv

-----------------------------------------------------------------------------
(* paging_init                                                             *)

(* The words of the directory and of the next table.                       *)
LEMMA WordsOf ==
  ASSUME NEW a
  PROVE  /\ a \in Words(page_directory) <=> \E k \in 0 .. Entries - 1 : a = Dir(k)
         /\ \A m \in 0 .. Entries : last_page = Tab(m, 0) =>
               (a \in Words(last_page) <=> \E k \in 0 .. Entries - 1 : a = Tab(m, k))
<1>1. a \in Words(page_directory) <=> \E k \in 0 .. Entries - 1 : a = Dir(k)
  BY DEF Words, Dir
<1>2. ASSUME NEW m \in 0 .. Entries, last_page = Tab(m, 0)
      PROVE  a \in Words(last_page) <=> \E k \in 0 .. Entries - 1 : a = Tab(m, k)
  <2>1. m \in Nat
    BY <1>2, Sizes
  <2>2. \A k \in 0 .. Entries - 1 : Tab(m, k) = last_page + 4 * k
    BY <1>2, <2>1, WordsApart
  <2>. QED BY <2>2 DEF Words
<1>. QED BY <1>1, <1>2

(* The directory is cleared, where it is in memory.                        *)
LEMMA ClearStep == BootInv /\ ClearDirectory => BootInv'
<1>. SUFFICES ASSUME BootInv, ClearDirectory PROVE BootInv'
  OBVIOUS
<1>1. /\ ram' = ram /\ word' = word /\ heap_begin' = heap_begin /\ mapped' = mapped
      /\ step = "paging_init" /\ step' = "map" /\ mapped = 0 /\ last_page' = first_page
  BY DEF BootInv, ClearDirectory
<1>2. \A a : a \in DOMAIN tables' <=> a < ram /\ a \in Words(page_directory)
  BY DEF ClearDirectory, Stored
<1>3. \A a \in DOMAIN tables' : tables'[a] = 2
  BY DEF ClearDirectory, Stored
<1>4. \A a \in DOMAIN tables' : a \in Nat /\ a >= Super /\ a < ram
  <2>1. \A k \in 0 .. Entries - 1 : Dir(k) \in Nat /\ Super <= Dir(k)
    BY WordsApart
  <2>. QED BY <1>2, <2>1, WordsOf
<1>5. last_page' = Tab(0, 0)
  BY <1>1, Sizes DEF Tab, first_page
<1>6. \A k \in 0 .. Entries - 1 : Dir(k) < ram => Dir(k) \in DOMAIN tables' /\ tables'[Dir(k)] = 2
  BY <1>2, <1>3, WordsOf
<1>7. (\A k \in 0 .. Entries - 1 : ~ (k < 0)) /\ 0 .. (0 - 1) = {}
  BY Sizes
<1>8. Mapped'
  BY <1>1, <1>6, <1>7 DEF Mapped, Dir, Tab, page_directory, first_page, Page, Super
<1>9. Placed'
  BY <1>1 DEF BootInv, Placed, heap_end, Page, Super
<1>. QED BY <1>1, <1>4, <1>5, <1>8, <1>9 DEF BootInv, Tab, first_page, Page, Super

(* What one call of paging_map_virtual_to_phys writes.                     *)
LEMMA MapWrites ==
  ASSUME NEW virt, NEW phys, paging_map_virtual_to_phys(virt, phys),
         NEW e, e = page_directory + 4 * (virt \div Super), e \notin Words(last_page)
  PROVE  /\ \A a : a \in DOMAIN tables' <=>
                      a \in DOMAIN tables \/ (a < ram /\ (a \in Words(last_page) \/ a = e))
         /\ \A a \in Words(last_page) : a < ram =>
               tables'[a] = ((phys + Page * ((a - last_page) \div 4)) % Space) + 3
         /\ e < ram => tables'[e] = last_page + 3
         /\ \A a \in DOMAIN tables : a \notin Words(last_page) /\ a # e => tables'[a] = tables[a]
<1>1. PICK f : f = Table(phys)
  OBVIOUS
<1>2. PICK g : g = Entry(virt)
  OBVIOUS
<1>3. PICK h : h = Over(f, g)
  OBVIOUS
<1>4. PICK s : s = Stored(h)
  OBVIOUS
<1>5. /\ DOMAIN f = Words(last_page)
      /\ \A a \in DOMAIN f : f[a] = ((phys + Page * ((a - last_page) \div 4)) % Space) + 3
  BY <1>1 DEF Table
<1>6. DOMAIN g = {e} /\ g[e] = last_page + 3
  BY <1>2 DEF Entry
<1>7. /\ DOMAIN h = Words(last_page) \cup {e}
      /\ \A a \in DOMAIN h : h[a] = IF a \in DOMAIN f THEN f[a] ELSE g[a]
  BY <1>3, <1>5, <1>6 DEF Over
<1>8. /\ \A a : a \in DOMAIN s <=> a < ram /\ (a \in Words(last_page) \/ a = e)
      /\ \A a \in DOMAIN s : s[a] = h[a]
  BY <1>4, <1>7 DEF Stored
<1>9. tables' = Over(s, tables)
  BY <1>1, <1>2, <1>3, <1>4 DEF paging_map_virtual_to_phys
<1>10. /\ DOMAIN tables' = DOMAIN s \cup DOMAIN tables
       /\ \A a \in DOMAIN tables' : tables'[a] = IF a \in DOMAIN s THEN s[a] ELSE tables[a]
  BY <1>9 DEF Over
<1>11. \A a \in Words(last_page) : a < ram =>
          tables'[a] = ((phys + Page * ((a - last_page) \div 4)) % Space) + 3
  BY <1>5, <1>7, <1>8, <1>10
<1>12. e < ram => tables'[e] = last_page + 3
  BY <1>5, <1>6, <1>7, <1>8, <1>10
<1>. QED BY <1>8, <1>10, <1>11, <1>12

(* A table more.                                                           *)
LEMMA MapStep == BootInv /\ Map => BootInv'
<1>. SUFFICES ASSUME BootInv, Map PROVE BootInv'
  OBVIOUS
<1>1. PICK m : m = mapped
  OBVIOUS
<1>2. /\ ram' = ram /\ word' = word /\ heap_begin' = heap_begin /\ step' = step
      /\ step = "map" /\ m \in 0 .. Entries - 1 /\ m \in Nat /\ mapped' = m + 1
  BY <1>1, Sizes DEF BootInv, Map
<1>3. last_page = Tab(m, 0) /\ Mapped
  BY <1>1, <1>2 DEF BootInv
<1>4. paging_map_virtual_to_phys(m * Super, m * Super)
  BY <1>1 DEF Map
<1>5. PICK s : s = Super
  OBVIOUS
<1>6. (m * s) \div s = m
  <2>1. s \in Nat \ {0}
    BY <1>5, Sizes
  <2>2. m * s = s * m + 0 /\ 0 \in 0 .. s - 1 /\ m \in Int
    BY <1>2, <2>1
  <2>3. Divided(m * s, s, m, 0)
    BY <2>2 DEF Divided
  <2>. QED BY <2>1, <2>3, Remainder
<1>7. Dir(m) = page_directory + 4 * ((m * Super) \div Super)
  BY <1>5, <1>6 DEF Dir
<1>8. \A a : a \in Words(last_page) <=> \E k \in 0 .. Entries - 1 : a = Tab(m, k)
  <2>1. m \in 0 .. Entries
    BY <1>2, Sizes
  <2>. QED BY <1>3, <2>1, WordsOf
\* The words of the directory and of earlier tables are others.
<1>9. \A k, l \in 0 .. Entries - 1 : Dir(k) # Tab(m, l) /\ (Dir(k) = Dir(l) => k = l)
  <2>1. TAKE k, l \in 0 .. Entries - 1
  <2>2. Dir(k) \in Nat /\ Dir(k) < Tab(m, 0) /\ Tab(m, 0) \in Nat /\ Tab(m, l) = Tab(m, 0) + 4 * l
    <3>1. 0 \in 0 .. Entries - 1
      BY Sizes
    <3>. QED BY <1>2, <3>1, WordsApart
  <2>3. Dir(k) = Dir(l) => k = l
    <3>1. page_directory \in Nat
      BY Sizes DEF page_directory
    <3>. QED BY <3>1 DEF Dir
  <2>. QED BY <2>2, <2>3
<1>10. \A j \in 0 .. m - 1, k, l \in 0 .. Entries - 1 : Tab(j, k) # Tab(m, l) /\ Tab(j, k) # Dir(l)
  <2>1. TAKE j \in 0 .. m - 1
  <2>2. TAKE k, l \in 0 .. Entries - 1
  <2>3. j \in Nat /\ j < m /\ 0 \in 0 .. Entries - 1
    BY <1>2, Sizes
  <2>4. Tab(j, k) \in Nat /\ Tab(j, k) < Tab(m, 0) /\ Tab(m, 0) \in Nat /\ Tab(m, l) = Tab(m, 0) + 4 * l
    BY <1>2, <2>3, WordsApart
  <2>5. Dir(l) \in Nat /\ Dir(l) < Tab(j, 0) /\ Tab(j, 0) \in Nat /\ Tab(j, k) = Tab(j, 0) + 4 * k
    BY <2>3, WordsApart
  <2>. QED BY <2>4, <2>5
<1>11. Dir(m) \notin Words(last_page)
  BY <1>2, <1>8, <1>9
<1>12. /\ \A a : a \in DOMAIN tables' <=>
                    a \in DOMAIN tables \/ (a < ram /\ (a \in Words(last_page) \/ a = Dir(m)))
       /\ \A a \in Words(last_page) : a < ram =>
             tables'[a] = ((m * Super + Page * ((a - last_page) \div 4)) % Space) + 3
       /\ Dir(m) < ram => tables'[Dir(m)] = last_page + 3
       /\ \A a \in DOMAIN tables : a \notin Words(last_page) /\ a # Dir(m) => tables'[a] = tables[a]
  BY <1>4, <1>7, <1>11, MapWrites
<1>13. \A a \in DOMAIN tables' : a \in Nat /\ a >= Super /\ a < ram
  <2>1. Dir(m) \in Nat /\ Super <= Dir(m)
    BY <1>2, WordsApart
  <2>2. \A k \in 0 .. Entries - 1 : Tab(m, k) \in Nat /\ Super <= Tab(m, k)
    BY <1>2, WordsApart
  <2>3. \A a \in DOMAIN tables : a \in Nat /\ a >= Super /\ a < ram
    BY DEF BootInv
  <2>4. \A a \in Words(last_page) : a \in Nat /\ a >= Super
    BY <1>8, <2>2, Sizes
  <2>. QED BY <1>12, <2>1, <2>3, <2>4, Sizes
<1>14. last_page' = Tab(m + 1, 0)
  <2>1. PICK p : p = Page
    OBVIOUS
  <2>2. p \in Nat /\ s \in Nat
    BY <1>5, <2>1, Sizes
  <2>3. \A i : Tab(i, 0) = s + 4 * p + 4 * p * i + 4 * 0
    BY <1>5, <2>1 DEF Tab, first_page
  <2>4. 4 * p * (m + 1) = 4 * p * m + 4 * p /\ 4 * p * m \in Nat
    BY <1>2, <2>2
  <2>5. Tab(m + 1, 0) = Tab(m, 0) + 4 * p
    BY <2>2, <2>3, <2>4
  <2>6. PICK z : z = Space
    OBVIOUS
  <2>7. Tab(m + 1, 0) \in 0 .. z - 1 /\ z \in Nat \ {0}
    <3>1. m + 1 \in 0 .. Entries
      BY <1>2, Sizes
    <3>2. Tab(m + 1, 0) \in Nat /\ Tab(m + 1, 0) < z /\ z \in Nat
      BY <2>6, <3>1, TablesFit, Sizes
    <3>. QED BY <3>2
  <2>8. Divided(Tab(m + 1, 0), z, 0, Tab(m + 1, 0))
    <3>1. z * 0 = 0
      BY <2>7
    <3>2. Tab(m + 1, 0) = z * 0 + Tab(m + 1, 0)
      BY <2>7, <3>1
    <3>. QED BY <2>7, <3>2 DEF Divided
  <2>9. Tab(m + 1, 0) % z = Tab(m + 1, 0)
    BY <2>7, <2>8, Remainder
  <2>. QED BY <1>3, <1>4, <2>1, <2>5, <2>6, <2>9 DEF paging_map_virtual_to_phys
<1>15. ASSUME NEW k \in 0 .. Entries - 1, Dir(k) < ram
       PROVE  Dir(k) \in DOMAIN tables' /\ tables'[Dir(k)] = IF k < m + 1 THEN Tab(k, 0) + 3 ELSE 2
  <2>1. CASE k = m
    <3>1. tables'[Dir(k)] = Tab(k, 0) + 3 /\ k < m + 1
      BY <1>2, <1>3, <1>12, <1>15, <2>1
    <3>. QED BY <1>12, <1>15, <2>1, <3>1
  <2>2. CASE k # m
    <3>1. Dir(k) \in DOMAIN tables /\ tables[Dir(k)] = IF k < m THEN Tab(k, 0) + 3 ELSE 2
      BY <1>1, <1>3, <1>15 DEF Mapped
    <3>2. Dir(k) # Dir(m) /\ Dir(k) \notin Words(last_page)
      BY <1>2, <1>8, <1>9, <2>2
    <3>3. k < m + 1 <=> k < m
      BY <1>2, <2>2
    <3>. QED BY <1>12, <3>1, <3>2, <3>3
  <2>. QED BY <2>1, <2>2
<1>16. ASSUME NEW j \in 0 .. m, NEW k \in 0 .. Entries - 1, Tab(j, k) < ram
       PROVE  Tab(j, k) \in DOMAIN tables' /\ tables'[Tab(j, k)] = Super * j + Page * k + 3
  <2>1. CASE j = m
    <3>1. Tab(m, k) \in Words(last_page)
      BY <1>8
    <3>2. Tab(m, k) - last_page = 4 * k
      <4>1. Tab(m, k) = Tab(m, 0) + 4 * k /\ Tab(m, 0) \in Nat
        <5>1. 0 \in 0 .. Entries - 1
          BY Sizes
        <5>. QED BY <1>2, <5>1, WordsApart
      <4>. QED BY <1>3, <4>1
    <3>3. (4 * k) \div 4 = k
      BY Sizes
    <3>4. m * Super = Super * m
      BY <1>2, Sizes
    <3>5. (Super * m + Page * k) % Space = Super * m + Page * k
      BY <1>2, FramesFit
    <3>. QED BY <1>12, <1>16, <2>1, <3>1, <3>2, <3>3, <3>4, <3>5
  <2>2. CASE j # m
    <3>1. j \in 0 .. m - 1
      BY <1>2, <2>2
    <3>2. Tab(j, k) \in DOMAIN tables /\ tables[Tab(j, k)] = Super * j + Page * k + 3
      BY <1>1, <1>3, <1>16, <3>1 DEF Mapped
    <3>3. Tab(j, k) # Dir(m) /\ Tab(j, k) \notin Words(last_page)
      BY <1>2, <1>8, <1>10, <3>1
    <3>. QED BY <1>12, <3>2, <3>3
  <2>. QED BY <2>1, <2>2
<1>17. 0 .. mapped' - 1 = 0 .. m
  BY <1>2
<1>18. Mapped'
  <2>1. \A k \in 0 .. Entries - 1 : Dir(k) < ram' =>
           Dir(k) \in DOMAIN tables' /\ tables'[Dir(k)] = IF k < mapped' THEN Tab(k, 0) + 3 ELSE 2
    BY <1>2, <1>15
  <2>2. \A j \in 0 .. mapped' - 1, k \in 0 .. Entries - 1 : Tab(j, k) < ram' =>
           Tab(j, k) \in DOMAIN tables' /\ tables'[Tab(j, k)] = Super * j + Page * k + 3
    BY <1>2, <1>16, <1>17
  <2>. QED BY <2>1, <2>2 DEF Mapped, Dir, Tab, page_directory, first_page, Page, Super
<1>19. Placed'
  BY <1>2 DEF BootInv, Placed, heap_end, Page, Super
<1>20. last_page' = Tab(mapped', 0) /\ mapped' \in 0 .. Entries
  BY <1>2, <1>14, Sizes
<1>. QED BY <1>2, <1>13, <1>18, <1>19, <1>20 DEF BootInv, Tab, first_page, Page, Super

(* The invariant holds at the start.                                       *)
LEMMA BootStart == BootInit => BootInv
<1>1. BootInit => DOMAIN tables = {}
  BY DEF BootInit
<1>. QED BY <1>1, Sizes DEF BootInit, BootInv, Placed

(* Every step preserves it.                                                *)
LEMMA BootStep == BootInv /\ [BootNext]_bootVars => BootInv'
<1>1. BootInv /\ paging_enable => BootInv'
  BY DEF BootInv, Placed, Mapped, paging_enable, Dir, Tab, page_directory, first_page, heap_end, Page, Super
<1>2. BootInv /\ UNCHANGED bootVars => BootInv'
  BY DEF BootInv, Placed, Mapped, bootVars, Dir, Tab, page_directory, first_page, heap_end, Page, Super
<1>. QED BY <1>1, <1>2, InitStep, ClearStep, MapStep DEF BootNext

-----------------------------------------------------------------------------
(* Paging                                                                  *)

(* What lies at a multiple of a page, and the flags 3: the frame is the    *)
(* multiple, and the entry is present.                                     *)
LEMMA FrameOf ==
  ASSUME NEW x, NEW q \in Nat, x = Page * q
  PROVE  (x + 3) - ((x + 3) % Page) = x /\ (x + 3) % 2 = 1
<1>1. PICK p, e : p = Page /\ e = Entries
  OBVIOUS
<1>2. p \in Nat /\ p >= 32 /\ e \in Nat /\ p = 4 * e
  BY <1>1, Sizes
<1>3. x \in Nat /\ x = p * q
  BY <1>1, <1>2
<1>4. Divided(x + 3, p, q, 3)
  BY <1>2, <1>3 DEF Divided
<1>5. (x + 3) % p = 3
  BY <1>2, <1>4, Remainder
<1>6. PICK t : t = e * q
  OBVIOUS
<1>7. t \in Nat /\ x = 4 * t
  BY <1>2, <1>3, <1>6
<1>. QED BY <1>1, <1>3, <1>5, <1>7

(* A table begins at a page.                                               *)
LEMMA TableAtPage ==
  ASSUME NEW j \in Nat
  PROVE  \E q \in Nat : Tab(j, 0) = Page * q
<1>1. PICK p, e : p = Page /\ e = Entries
  OBVIOUS
<1>2. p \in Nat /\ e \in Nat /\ Super = p * e
  BY <1>1, Sizes
<1>3. p * (e + 4 + 4 * j) = p * e + 4 * p + 4 * p * j
  BY <1>2
<1>4. Tab(j, 0) = p * e + 4 * p + 4 * p * j + 4 * 0
  BY <1>1, <1>2 DEF Tab, first_page
<1>5. p * e \in Nat /\ 4 * p * j \in Nat
  BY <1>2
<1>6. Tab(j, 0) = p * (e + 4 + 4 * j)
  BY <1>2, <1>3, <1>4, <1>5
<1>7. e + 4 + 4 * j \in Nat
  BY <1>2
<1>. QED BY <1>1, <1>6, <1>7

\* The page at word k of table j.
Number(j, k) == j * Entries + k

(* Every page is at a word of a table, and the CPU finds it there.         *)
LEMMA PageAt ==
  ASSUME NEW v \in 0 .. Entries * Entries - 1
  PROVE  \E j, k \in 0 .. Entries - 1 : v = Number(j, k)
<1>1. PICK e : e = Entries
  OBVIOUS
<1>2. e \in Nat \ {0} /\ v \in 0 .. e * e - 1
  BY <1>1, Sizes
<1>3. PICK j, k : j = v \div e /\ k = v % e
  OBVIOUS
<1>4. v = e * j + k /\ k \in 0 .. e - 1 /\ j \in Int
  BY <1>2, <1>3, Division
<1>5. j >= 0
  <2>1. CASE j < 0
    <3>1. e * j + e <= e * 0
      BY <1>2, <1>4, <2>1, Multiples
    <3>. QED BY <1>2, <1>4, <3>1
  <2>. QED BY <1>4, <2>1
<1>6. j < e
  <2>1. CASE j >= e
    <3>1. e * (j - e) >= 0
      BY <1>2, <1>4, <2>1
    <3>2. e * j >= e * e
      BY <1>2, <1>4, <3>1
    <3>. QED BY <1>2, <1>4, <3>2
  <2>. QED BY <1>2, <1>4, <2>1
<1>7. j * e = e * j
  BY <1>2, <1>4
<1>8. v = Number(j, k)
  BY <1>1, <1>4, <1>7 DEF Number
<1>9. j \in 0 .. Entries - 1 /\ k \in 0 .. Entries - 1
  BY <1>1, <1>2, <1>4, <1>5, <1>6
<1>. QED BY <1>8, <1>9

LEMMA WordOfPage ==
  ASSUME NEW j \in 0 .. Entries - 1, NEW k \in 0 .. Entries - 1, NEW v, v = Number(j, k)
  PROVE  /\ v \in 0 .. Entries * Entries - 1
         /\ (v * Page) \div Super = j /\ ((v * Page) \div Page) % Entries = k
         /\ (v * Page) % Page = 0 /\ v * Page = Super * j + Page * k /\ v \in Nat
<1>1. PICK e, p, s : e = Entries /\ p = Page /\ s = Super
  OBVIOUS
<1>2. /\ e \in Nat \ {0} /\ p \in Nat \ {0} /\ s \in Nat \ {0} /\ s = p * e
      /\ j \in 0 .. e - 1 /\ k \in 0 .. e - 1
  BY <1>1, Sizes
<1>3. v = e * j + k /\ v \in Nat
  <2>1. j * e = e * j /\ j * e \in Nat
    BY <1>2
  <2>. QED BY <1>1, <1>2, <2>1 DEF Number
<1>4. v \in 0 .. e * e - 1
  <2>1. e * j + e <= e * e
    BY <1>2, Multiples
  <2>2. e * e \in Nat /\ e * j \in Nat
    BY <1>2
  <2>. QED BY <1>2, <1>3, <2>1, <2>2
<1>5. PICK x : x = v * p
  OBVIOUS
<1>6. x = p * v /\ x \in Nat
  BY <1>2, <1>3, <1>5
<1>7. x = s * j + p * k
  <2>1. p * (e * j + k) = (p * e) * j + p * k
    BY <1>2
  <2>. QED BY <1>2, <1>3, <1>6, <2>1
<1>8. x \div s = j
  <2>1. p * k + p <= p * e /\ p * k \in Nat
    BY <1>2, Multiples
  <2>2. Divided(x, s, j, p * k)
    BY <1>2, <1>7, <2>1 DEF Divided
  <2>. QED BY <1>2, <2>2, Remainder
<1>9. x \div p = v /\ x % p = 0
  <2>1. x = p * v + 0 /\ 0 \in 0 .. p - 1
    BY <1>2, <1>6
  <2>2. Divided(x, p, v, 0)
    BY <1>3, <2>1 DEF Divided
  <2>. QED BY <1>2, <2>2, Remainder
<1>10. v % e = k
  <2>1. Divided(v, e, j, k)
    BY <1>2, <1>3 DEF Divided
  <2>. QED BY <1>2, <2>1, Remainder
<1>. QED BY <1>1, <1>3, <1>4, <1>5, <1>7, <1>8, <1>9, <1>10

(* A page is where it was exactly when both words the CPU reads are in     *)
(* memory.                                                                 *)
LEMMA Translated ==
  ASSUME BootInv, step = "enabled", NEW j \in 0 .. Entries - 1, NEW k \in 0 .. Entries - 1,
         NEW v, v = Number(j, k)
  PROVE  Translate(v * Page) = v * Page <=> Dir(j) < ram /\ Tab(j, k) < ram
<1>1. PICK x : x = v * Page
  OBVIOUS
<1>2. /\ x \div Super = j /\ (x \div Page) % Entries = k /\ x % Page = 0
      /\ x = Super * j + Page * k /\ x \in Nat
  <2>1. /\ x \div Super = j /\ (x \div Page) % Entries = k /\ x % Page = 0
        /\ x = Super * j + Page * k /\ v \in Nat
    BY <1>1, WordOfPage
  <2>2. Page \in Nat
    BY Sizes
  <2>3. x \in Nat
    BY <1>1, <2>1, <2>2
  <2>. QED BY <2>1, <2>3
<1>3. PICK q \in Nat : x = Page * q
  <2>1. v \in Nat /\ x = Page * v
    <3>1. v \in Nat /\ Page \in Nat
      BY WordOfPage, Sizes
    <3>. QED BY <1>1, <3>1
  <2>. QED BY <2>1
<1>4. mapped = Entries /\ Mapped /\ \A a \in DOMAIN tables : a < ram /\ a \in Nat
  BY DEF BootInv
<1>5. ram \in Nat
  BY BootAssumption, Sizes DEF BootInv
<1>6. PICK d : d = IF Dir(j) \in DOMAIN tables THEN tables[Dir(j)] ELSE 0
  OBVIOUS
<1>7. PICK r : r = d - (d % Page)
  OBVIOUS
<1>8. PICK t : t = IF r + 4 * k \in DOMAIN tables THEN tables[r + 4 * k] ELSE 0
  OBVIOUS
<1>9. Translate(x) = IF d % 2 = 1 /\ t % 2 = 1 THEN (t - (t % Page)) + 0 ELSE Fault
  BY <1>2, <1>6, <1>7, <1>8 DEF Translate, Dir
<1>10. x # Fault
  BY <1>2 DEF Fault
<1>11. CASE ~ (Dir(j) < ram)
  <2>1. d = 0
    BY <1>4, <1>6, <1>11
  <2>2. Translate(x) = Fault
    BY <1>9, <2>1
  <2>. QED BY <1>1, <1>10, <1>11, <2>2
<1>12. CASE Dir(j) < ram
  <2>1. d = Tab(j, 0) + 3
    <3>1. j < mapped
      BY <1>4, Sizes
    <3>. QED BY <1>4, <1>6, <1>12, <3>1 DEF Mapped
  <2>2. r = Tab(j, 0) /\ d % 2 = 1
    <3>1. j \in Nat
      BY Sizes
    <3>2. PICK n \in Nat : Tab(j, 0) = Page * n
      BY <3>1, TableAtPage
    <3>. QED BY <1>7, <2>1, <3>2, FrameOf
  <2>3. r + 4 * k = Tab(j, k)
    <3>1. j \in Nat
      BY Sizes
    <3>. QED BY <2>2, <3>1, WordsApart
  <2>4. CASE Tab(j, k) < ram
    <3>1. j \in 0 .. mapped - 1
      BY <1>4
    <3>2. t = x + 3
      BY <1>2, <1>4, <1>8, <2>3, <2>4, <3>1 DEF Mapped
    <3>3. t - (t % Page) = x /\ t % 2 = 1
      BY <1>3, <3>2, FrameOf
    <3>4. Translate(x) = x
      BY <1>2, <1>9, <2>2, <3>3
    <3>. QED BY <1>1, <1>12, <2>4, <3>4
  <2>5. CASE ~ (Tab(j, k) < ram)
    <3>1. t = 0
      BY <1>4, <1>8, <2>3, <2>5
    <3>2. Translate(x) = Fault
      BY <1>9, <3>1
    <3>. QED BY <1>1, <1>10, <2>5, <3>2
  <2>. QED BY <2>4, <2>5
<1>. QED BY <1>11, <1>12

\* The last word of the last table.
LastWord == Tab(Entries - 1, Entries - 1)

(* The last word lies behind all others, and ends where memory must.       *)
LEMMA LastIs ==
  /\ LastWord \in Nat /\ LastWord + 4 = first_page + 4 * Page * (Entries - 1) + Page
  /\ \A j, k \in 0 .. Entries - 1 : Dir(j) < LastWord /\ Tab(j, k) <= LastWord /\ Dir(j) \in Nat /\ Tab(j, k) \in Nat
<1>1. PICK e, p : e = Entries /\ p = Page
  OBVIOUS
<1>2. e \in Nat /\ e >= 8 /\ p = 4 * e /\ 0 \in 0 .. e - 1 /\ e - 1 \in 0 .. e - 1 /\ e - 1 \in Nat
  BY <1>1, Sizes
<1>3. LastWord \in Nat /\ LastWord = Tab(e - 1, 0) + 4 * (e - 1) /\ Tab(e - 1, 0) \in Nat
  BY <1>1, <1>2, WordsApart DEF LastWord
<1>4. LastWord + 4 = first_page + 4 * Page * (Entries - 1) + Page
  <2>1. PICK f : f = first_page + 4 * Page * (Entries - 1)
    OBVIOUS
  <2>2. Tab(e - 1, 0) = f + 4 * 0
    BY <1>1, <2>1 DEF Tab
  <2>3. f \in Int
    <3>1. Super \in Int /\ p \in Int /\ 4 * p * (e - 1) \in Int
      BY <1>2, Sizes
    <3>. QED BY <1>1, <2>1, <3>1 DEF first_page
  <2>4. LastWord + 4 = f + p
    BY <1>2, <1>3, <2>2, <2>3
  <2>. QED BY <1>1, <2>1, <2>4
<1>5. ASSUME NEW j \in 0 .. e - 1, NEW k \in 0 .. e - 1
      PROVE  Dir(j) < LastWord /\ Tab(j, k) <= LastWord /\ Dir(j) \in Nat /\ Tab(j, k) \in Nat
  <2>1. j \in Nat
    BY <1>2
  <2>2. Dir(j) \in Nat /\ Dir(j) < Tab(e - 1, 0)
    BY <1>1, <1>2, WordsApart
  <2>3. Tab(j, k) \in Nat /\ Tab(j, k) = Tab(j, 0) + 4 * k /\ Tab(j, 0) \in Nat
    BY <1>1, <1>2, <2>1, WordsApart
  <2>4. CASE j < e - 1
    <3>1. Tab(j, k) < Tab(e - 1, 0)
      BY <1>1, <1>2, <2>1, <2>4, WordsApart
    <3>. QED BY <1>2, <1>3, <2>2, <2>3, <3>1
  <2>5. CASE j = e - 1
    BY <1>2, <1>3, <2>2, <2>3, <2>5
  <2>. QED BY <1>2, <2>4, <2>5
<1>. QED BY <1>1, <1>3, <1>4, <1>5

(* The invariant is what MemoryLaidOut says, and more.                     *)
LEMMA LaidOut == BootInv => MemoryLaidOut
<1>. SUFFICES ASSUME BootInv PROVE MemoryLaidOut
  OBVIOUS
<1>1. ASSUME step = "enabled"
      PROVE  (\A v \in 0 .. Entries * Entries - 1 : Translate(v * Page) = v * Page)
             <=> ram >= TablesEnd
  <2>1. ram \in Nat /\ ram % 4 = 0
    BY BootAssumption, Sizes DEF BootInv
  <2>2. LastWord < ram <=> ram >= LastWord + 4
    <3>1. PICK l \in Nat : l = LastWord
      BY LastIs
    <3>2. l % 4 = 0
      <4>1. PICK n : n = first_page + 4 * Page * (Entries - 1) + Page
        OBVIOUS
      <4>2. PICK q \in Nat : Tab(Entries - 1, 0) = Page * q
        <5>1. Entries - 1 \in Nat
          BY Sizes
        <5>. QED BY <5>1, TableAtPage
      <4>3. PICK e : e = Entries
        OBVIOUS
      <4>4. e \in Nat /\ e >= 8 /\ Page = 4 * e /\ e - 1 \in Nat
        BY <4>3, Sizes
      <4>5. LastWord = Tab(e - 1, 0) + 4 * (e - 1)
        <5>1. e - 1 \in 0 .. Entries - 1
          BY <4>3, <4>4
        <5>. QED BY <4>3, <4>4, <5>1, WordsApart DEF LastWord
      <4>6. PICK u : u = e * q
        OBVIOUS
      <4>7. u \in Nat /\ (4 * e) * q = 4 * u
        BY <4>2, <4>4, <4>6
      <4>8. l = 4 * (u + e - 1)
        BY <3>1, <4>2, <4>3, <4>4, <4>5, <4>7
      <4>. QED BY <4>4, <4>7, <4>8
    <3>. QED BY <2>1, <3>1, <3>2
  <2>3. ASSUME LastWord < ram, NEW v \in 0 .. Entries * Entries - 1
        PROVE  Translate(v * Page) = v * Page
    <3>1. PICK j \in 0 .. Entries - 1, k \in 0 .. Entries - 1 : v = Number(j, k)
      BY PageAt
    <3>2. Dir(j) < ram /\ Tab(j, k) < ram
      BY <2>1, <2>3, LastIs
    <3>. QED BY <1>1, <3>1, <3>2, Translated
  <2>4. ASSUME ~ (LastWord < ram)
        PROVE  \E v \in 0 .. Entries * Entries - 1 : Translate(v * Page) # v * Page
    <3>1. Entries - 1 \in 0 .. Entries - 1
      BY Sizes
    <3>2. PICK v : v = Number(Entries - 1, Entries - 1)
      OBVIOUS
    <3>3. v \in 0 .. Entries * Entries - 1
      BY <3>1, <3>2, WordOfPage
    <3>4. Translate(v * Page) # v * Page
      BY <1>1, <2>4, <3>1, <3>2, Translated DEF LastWord
    <3>. QED BY <3>3, <3>4
  <2>. QED BY <2>2, <2>3, <2>4, LastIs DEF TablesEnd
<1>. QED BY <1>1 DEF MemoryLaidOut, BootInv, Placed

(* The heap lies behind the kernel exactly when the kernel survives, no    *)
(* table overwrites anything, and paging leaves every address what it is   *)
(* from the memory on that ends behind the last table: for tables of any   *)
(* size from 8 entries on, and any word at kernel_end (mm_init,            *)
(* paging_init).                                                           *)
THEOREM MemoryIsLaidOut == BootSpec => []MemoryLaidOut
<1>. QED BY BootStart, BootStep, LaidOut, PTL DEF BootSpec
=============================================================================
