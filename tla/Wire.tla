-------------------------------- MODULE Wire --------------------------------
(***************************************************************************)
(* What a received frame makes the kernel send: eth_decode and eth_recv    *)
(* (src/net/eth.c), ipv4_recv and ipv4_send (src/net/ipv4.c), icmp_recv    *)
(* and icmp_echo_reply (src/net/icmp.c), the checksum                      *)
(* (src/net/checksum.c) and the route table (src/net/route.c).  ARP frames *)
(* are Arp's, buffers and rings are Nic's.                                 *)
(*                                                                         *)
(* A frame is the fields its decoding looks at, its length and the ICMP    *)
(* message it ends in; offsets and lengths are what the code computes.     *)
(***************************************************************************)
EXTENDS Integers, Sequences, SequencesExt, FiniteSetsExt

CONSTANTS
    Me,                     \* our address, four octets
    Sources,                \* addresses echo requests come from
    Frames,                 \* the frames that arrive
    Old,                    \* octets a buffer may hold from earlier use
    Bit, Width,             \* routes: the addresses are Width bits
    MaxRoutes               \* bound: routes added

Octet   == 0 .. 255
Address == [1 .. Width -> Bit]

\* External: an Ethernet frame has at most 1514 octets without its checksum.
ASSUME WireAssumption ==
    /\ Me \in [1 .. 4 -> Octet] /\ Sources \subseteq [1 .. 4 -> Octet] /\ Old \subseteq Octet
    /\ Bit = {0, 1} /\ Width \in Nat /\ MaxRoutes \in Nat
    /\ \A f \in Frames :
          /\ f.len \in Nat /\ f.len <= 1514 /\ f.ipLen \in Nat /\ f.ihl \in Nat
          /\ f.src \in [1 .. 4 -> Octet]
          /\ f.id \in [1 .. 2 -> Octet] /\ f.sequence \in [1 .. 2 -> Octet]

EthHeaderSize == 14
SnapSize      == 22
IpHeaderSize  == 20
NET_BUF_SIZE  == 2048
NET_BUF_START == 256

VARIABLES
    got,                    \* the frame handled
    reply,                  \* what was sent because of it
    s_routeTable            \* routes in the order net_route_find looks at them
wireVars == <<got, reply, s_routeTable>>

None == [sent |-> FALSE]

-----------------------------------------------------------------------------
(* The checksum                                                            *)

\* Words are read as the CPU does, low octet first; a last odd octet counts
\* as it is.
net_checksum_acc(data) ==
    LET words   == (Len(data) + 1) \div 2
        word(k) == data[2 * k - 1] + (IF 2 * k <= Len(data) THEN 256 * data[2 * k] ELSE 0)
        \* of the words from p[1] to p[2]
        sum[p \in (1 .. words + 1) \X (0 .. words)] ==
            LET m == (p[1] + p[2]) \div 2
            IN  IF p[1] > p[2] THEN 0 ELSE IF p[1] = p[2] THEN word(p[1])
                ELSE sum[<<p[1], m>>] + sum[<<m + 1, p[2]>>]
    IN  sum[<<1, words>>]

\* Two folds, the complement, and the octets change places.
net_checksum_final(sum) ==
    LET once  == (sum % 65536) + sum \div 65536
        twice == once + once \div 65536
        temp  == 65535 - (twice % 65536)
    IN  (temp % 256) * 256 + temp \div 256

net_checksum(data) == net_checksum_final(net_checksum_acc(data))

\* The checksum of data with zero at k and k + 1, put there high octet first.
Summed(data, k) ==
    LET sum == net_checksum(data) IN [data EXCEPT ![k] = sum \div 256, ![k + 1] = sum % 256]

-----------------------------------------------------------------------------
(* Receiving.  start and end are offsets in the frame.                     *)

\* A type of at most 1500 is a length, when there is room for the longer
\* header: only 0xaa access points are known.  None for a bad frame.
eth_decode(f) ==
    IF f.len < EthHeaderSize THEN None
    ELSE IF f.type = "length" /\ f.len >= SnapSize
         THEN IF f.snap THEN [sent |-> TRUE, type |-> f.snapType, start |-> SnapSize] ELSE None
    ELSE [sent |-> TRUE, type |-> f.type, start |-> EthHeaderSize]

\* Mutant: takes the header's word for its length.
ipv4_recv_trusting(f, start) ==
    IF /\ start + IpHeaderSize <= f.len
       /\ f.version = 4 /\ f.fragment = 0
       /\ f.protocol = "ICMP"
    THEN [sent |-> TRUE, start |-> start + 4 * f.ihl, end |-> start + f.ipLen]
    ELSE None

\* Where the ICMP message lies, or None: ihl is taken as it is, the length
\* may not lie behind the end of the frame.
ipv4_recv(f, start) ==
    IF /\ start + IpHeaderSize <= f.len
       /\ f.version = 4 /\ f.fragment = 0
       /\ start + f.ipLen <= f.len
       /\ f.protocol = "ICMP"
    THEN [sent |-> TRUE, start |-> start + 4 * f.ihl, end |-> start + f.ipLen]
    ELSE None

\* The header of the reply, its checksum not there yet.
EchoHeader(id, sequence) == <<0, 0, 0, 0>> \o id \o sequence

\* The octets of the reply: memcpy reads what it has just written, so that the
\* header is there over and over where the data should be, and one octet too
\* many is sent with what the buffer held.
EchoMessage(id, sequence, echoLen, old) ==
    Summed([k \in 1 .. echoLen + 9 |->
               IF k = echoLen + 9 THEN old ELSE EchoHeader(id, sequence)[((k - 1) % 8) + 1]], 3)

IpHeader(len, dst) ==
    Summed(<<69, 0, len \div 256, len % 256, 0, 0, 0, 0, 64, 1, 0, 0>> \o Me \o dst, 11)

\* icmp_recv, icmp_echo_reply and ipv4_send_intf, given a route.
icmp_recv(f, m, old) ==
    IF m.start + 8 > m.end \/ ~f.request THEN None
    ELSE LET e == EchoMessage(f.id, f.sequence, m.end - m.start - 8, old)
         IN  [sent |-> TRUE, to |-> f.src, read |-> m.start + 8, end |-> m.end,
              ip |-> IpHeader(IpHeaderSize + Len(e), f.src), icmp |-> e]

\* eth_recv.
Answer(f, old) ==
    LET e == eth_decode(f)
        m == IF e.sent /\ e.type = "IPv4" THEN ipv4_recv(f, e.start) ELSE None
    IN  IF m.sent THEN icmp_recv(f, m, old) ELSE None

-----------------------------------------------------------------------------
(* Routes.  A mask of so many bits is its length: masks compare as their   *)
(* lengths do, also with the first octet lowest.                           *)

Matches(dst, r) == [k \in 1 .. Width |-> IF k <= r.mask THEN dst[k] ELSE 0] = r.dst

\* The first that matches, or 0.
net_route_find(table, dst) ==
    LET S == {k \in DOMAIN table : Matches(dst, table[k])} IN IF S = {} THEN 0 ELSE Min(S)

\* Mutant: before the first route with a longer mask.
net_route_add_before(table, r) ==
    LET S == {k \in DOMAIN table : table[k].mask > r.mask}
    IN  IF S = {} THEN Append(table, r) ELSE InsertAt(table, Min(S), r)

\* Behind the first route with a longer mask; without one the loop ends at
\* the list's head, and the route becomes the first.
net_route_add(table, r) ==
    LET S == {k \in DOMAIN table : table[k].mask > r.mask}
    IN  IF S = {} THEN <<r>> \o table ELSE InsertAt(table, Min(S) + 1, r)

-----------------------------------------------------------------------------
WireInit == got = <<>> /\ reply = None /\ s_routeTable = <<>>

Receive ==
    /\ got = <<>> /\ s_routeTable = <<>>
    /\ \E f \in Frames, old \in Old :
          /\ got' = <<f>> /\ reply' = Answer(f, old)
    /\ UNCHANGED s_routeTable

AddRoute ==
    /\ got = <<>> /\ Len(s_routeTable) < MaxRoutes
    /\ \E dst \in Address, mask \in 0 .. Width :
          s_routeTable' = net_route_add(s_routeTable, [dst |-> dst, mask |-> mask])
    /\ UNCHANGED <<got, reply>>

WireNext == Receive \/ AddRoute

WireSpec == WireInit /\ [][WireNext]_wireVars

-----------------------------------------------------------------------------
(* A reply goes back to the sender with its id and sequence.  The data of  *)
(* the request lies in the frame, but only its length comes back: what     *)
(* follows the header is the header again, before its checksum was put     *)
(* there (icmp.c:59), and the last octet, one more than was asked for, is  *)
(* the only one of what the buffer held.  It all fits the buffer, the IP   *)
(* header has its length, and both checksums verify.                       *)
EchoAnswers ==
    reply.sent =>
        LET f    == got[1]
            last == Len(reply.icmp)
        IN
        /\ reply.read <= reply.end /\ reply.end <= f.len
        /\ reply.to = f.src
        /\ last = reply.end - reply.read + 9
        /\ \A k \in (1 .. last - 1) \ {3, 4} :
               reply.icmp[k] = EchoHeader(f.id, f.sequence)[((k - 1) % 8) + 1]
        /\ reply.icmp[last] \in Old
        /\ NET_BUF_START + Len(reply.icmp) <= NET_BUF_SIZE
        /\ reply.ip[3] * 256 + reply.ip[4] = IpHeaderSize + Len(reply.icmp)
        /\ net_checksum(reply.ip) = 0 /\ net_checksum(reply.icmp) = 0

(* With at most two routes the one that is found has the longest mask of   *)
(* all that match; a third may be put between the two it should follow.    *)
FindsBest ==
    Len(s_routeTable) <= 2 =>
        \A dst \in Address :
            LET k == net_route_find(s_routeTable, dst)
                S == {j \in DOMAIN s_routeTable : Matches(dst, s_routeTable[j])}
            IN  /\ k = 0 <=> S = {}
                /\ k # 0 => \A j \in S : s_routeTable[j].mask <= s_routeTable[k].mask
=============================================================================
