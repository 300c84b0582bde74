------------------------------- MODULE MCData -------------------------------
(* Small instances of the parts that share no state with anything else: of *)
(* a behaviour one of them is chosen at the start and the others rest.     *)
EXTENDS Text, Wire, Switch, Pci, Boot

VARIABLE part

Init ==
    /\ TextInit /\ WireInit /\ SwitchInit /\ PciInit /\ BootInit
    /\ part \in {"text", "wire", "switch", "pci", "boot"}
    /\ part = "pci" \/ (there = [bars |-> <<>>, multi |-> {}] /\ ~ral)
    /\ part = "boot" \/ (ram = Space /\ word = 0)

Next ==
    \/ part = "text"   /\ TextNext   /\ UNCHANGED <<part, wireVars, switchVars, pciVars, bootVars>>
    \/ part = "wire"   /\ WireNext   /\ UNCHANGED <<part, textVars, switchVars, pciVars, bootVars>>
    \/ part = "switch" /\ SwitchNext /\ UNCHANGED <<part, textVars, wireVars, pciVars, bootVars>>
    \/ part = "pci"    /\ PciNext    /\ UNCHANGED <<part, textVars, wireVars, switchVars, bootVars>>
    \/ part = "boot"   /\ BootNext   /\ UNCHANGED <<part, textVars, wireVars, switchVars, pciVars>>

Spec == Init /\ [][Next]_<<part, textVars, wireVars, switchVars, pciVars, bootVars>>

\* Numbers at every change of length and at both ends.
MCNumbers == {IntMin, IntMin + 1, -100, -7, -1, 0, 1, 9, 10, 15, 16, 99, 100, 255, 256, -IntMin - 1}
MCOctets  == {0, 9, 10, 255}

\* Lines that ping an address, and lines with empty words, no argument,
\* an octet too large, or an address that is not one.
MCLines ==
    {Ping \o <<" ">> \o addr_ipv4_tostr(16, a) : a \in [1 .. 4 -> {0, 10, 255}]}
    \cup {<<>>, <<" ">>, Ping, Ping \o <<" ">>, <<" ">> \o Ping, <<"s", " ", " ", "x">>,
          Ping \o <<" ", "1", ".", "2", ".", "3", ".", "3", "0", "0">>, Ping \o <<" ", ".", ".", ".", "x">>}

MCMe      == <<192, 168, 2, 123>>
MCSources == {<<192, 168, 2, 1>>, <<255, 255, 255, 255>>, <<0, 0, 0, 1>>}

EchoFrame ==
    [type |-> "IPv4", snap |-> FALSE, snapType |-> "IPv4", len |-> 60, version |-> 4, fragment |-> 0,
     ipLen |-> 36, ihl |-> 5, protocol |-> "ICMP", request |-> TRUE,
     src |-> <<192, 168, 2, 1>>, id |-> <<0, 1>>, sequence |-> <<255, 255>>]

\* Lengths at every boundary, requests of all small sizes and the largest,
\* and each reason to drop a frame.
MCFrames ==
    {[EchoFrame EXCEPT !.type = t, !.snap = s, !.len = l, !.ipLen = n, !.ihl = h] :
        t \in {"IPv4", "length", "other"}, s \in BOOLEAN, l \in {13, 14, 21, 22, 33, 34, 42, 43, 60},
        n \in {0, 20, 27, 28, 29, 36, 46, 47}, h \in {0, 5, 6, 15}}
    \cup {[EchoFrame EXCEPT !.len = 42 + n, !.ipLen = 28 + n, !.src = a, !.id = i, !.sequence = q] :
              n \in {0, 1, 7, 8, 9}, a \in MCSources,
              i \in {<<0, 0>>, <<18, 52>>, <<255, 255>>}, q \in {<<0, 1>>, <<255, 255>>}}
    \cup {[EchoFrame EXCEPT !.len = 1514, !.ipLen = 1500], [EchoFrame EXCEPT !.len = 1514, !.ipLen = 65535],
          [EchoFrame EXCEPT !.version = 6], [EchoFrame EXCEPT !.fragment = 1],
          [EchoFrame EXCEPT !.protocol = "TCP"], [EchoFrame EXCEPT !.request = FALSE]}

\* A function that is no card, and cards with ports or memory, smaller and
\* larger than half a word, below a flag bit and with it.
MCBars ==
    {[card |-> FALSE, io |-> FALSE, wide |-> FALSE, base |-> 0,     size |-> 16],
     [card |-> TRUE,  io |-> TRUE,  wide |-> FALSE, base |-> 192,   size |-> 64],
     [card |-> TRUE,  io |-> TRUE,  wide |-> FALSE, base |-> 4,     size |-> 4],
     [card |-> TRUE,  io |-> FALSE, wide |-> FALSE, base |-> 4096,  size |-> 4096],
     [card |-> TRUE,  io |-> FALSE, wide |-> FALSE, base |-> 61184, size |-> 32],
     [card |-> TRUE,  io |-> FALSE, wide |-> TRUE,  base |-> 32768, size |-> 256]}

MCMac == <<1, 2, 3>>

\* Before, in and behind the kernel, at both ends of the heap and outside.
MCEndWords == {0, 31, 32, 40, 66, 67, 68, 100, 149, 150, 151, 159, 160, 161, 2000, 2016, 2047}
MCRams == {256, 380, 384, 1280, 1308, 1312, 2048}
=============================================================================
