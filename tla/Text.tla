-------------------------------- MODULE Text --------------------------------
(***************************************************************************)
(* Texts: what kprintf, snprintf and sscanf make of a number               *)
(* (src/util.c, src/stdlib/format.c), addresses as texts (src/net/addr.c), *)
(* the words of a line (strtok of src/string.c) and what the shell does    *)
(* with them (src/kshell.c).                                               *)
(*                                                                         *)
(* A text is the sequence of its characters up to the NUL.  A format is    *)
(* the sequence of its items, with the arguments in place: the kernel has  *)
(* only formats that are written out in the source.  An int has Bits bits, *)
(* and lies in memory with its lowest octet first.                         *)
(***************************************************************************)
EXTENDS Integers, Sequences, SequencesExt

CONSTANTS
    Bits,                   \* of an int, a number of octets
    Numbers, Octets,        \* what is printed
    Lines                   \* what is typed
ASSUME BitsAssumption   == Bits \in Nat /\ Bits >= 8 /\ Bits % 8 = 0
ASSUME NumberAssumption ==
    /\ Numbers \subseteq -(2 ^ (Bits - 1)) .. 2 ^ (Bits - 1) - 1
    /\ Octets \subseteq 0 .. 255

VARIABLES
    given,                  \* what the last call was given
    made                    \* what it made of it
textVars == <<given, made>>

IntMin  == -(2 ^ (Bits - 1))
Wrap(n) == ((n - IntMin) % (2 ^ Bits)) + IntMin
Word(n) == n % (2 ^ Bits)    \* an int as unsigned

Digit      == <<"0","1","2","3","4","5","6","7","8","9","a","b","c","d","e","f">>
Value(ch)  == CHOOSE v \in 0 .. 15 : Digit[v + 1] = ch
IsDigit(ch) == \E v \in 0 .. 9 : Digit[v + 1] = ch

-----------------------------------------------------------------------------
(* Printing                                                                *)

\* The digits of a number that is not negative.
uitoa(n, base) ==
    LET digits[k \in Nat] ==
            IF k < base THEN <<Digit[k + 1]>>
            ELSE Append(digits[k \div base], Digit[(k % base) + 1])
    IN  digits[n]

\* kprintf: the least int has no negative of its own, so that the loop
\* over its digits ends after the last one.
itoa(n, base) ==
    IF n >= 0 THEN uitoa(n, base)
    ELSE <<"-">> \o uitoa(IF n = IntMin THEN (-n) % base ELSE -n, base)

\* Mutant: the padding is counted from the other end.
_outs_right(s, flag, width) ==
    LET pad == [k \in 1 .. width - Len(s) |-> IF flag = "0" THEN "0" ELSE " "]
    IN  s \o pad

\* A text in a field: flag is "-", "0" or none.
_outs(s, flag, width) ==
    LET pad == [k \in 1 .. width - Len(s) |-> IF flag = "0" THEN "0" ELSE " "]
    IN  IF flag = "-" THEN s \o pad ELSE pad \o s

_outdec(n, flag, width) == _outs(uitoa(n, 10), flag, width)
_outhex(n, flag, width) == _outs(uitoa(n, 16), flag, width)

\* An item of a format; the sign is no part of the field.
Convert(item) ==
    CASE item.type = "c" -> <<item.arg>>
      [] item.type = "s" -> _outs(item.arg, item.flag, item.width)
      [] item.type = "u" -> _outdec(item.arg, item.flag, item.width)
      [] item.type = "x" -> _outhex(item.arg, item.flag, item.width)
      [] item.type = "d" -> (IF item.arg < 0 THEN <<"-">> ELSE <<>>)
                            \o _outdec(IF item.arg < 0 THEN -item.arg ELSE item.arg, item.flag, item.width)

\* The last place of the buffer is for the NUL.
snprintf(size, fmt) ==
    LET all == FlattenSeq([k \in DOMAIN fmt |-> Convert(fmt[k])])
    IN  SubSeq(all, 1, IF Len(all) < size THEN Len(all) ELSE size - 1)

\* Items with a separator between each two.
Separated(type, flag, width, args, sep) ==
    [k \in 1 .. 2 * Len(args) - 1 |->
        IF k % 2 = 0 THEN [type |-> "c", arg |-> sep]
        ELSE [type |-> type, flag |-> flag, width |-> width, arg |-> args[(k + 1) \div 2]]]

addr_ipv4_tostr(size, a) == snprintf(size, Separated("d", "", 0, a, "."))
addr_eth_tostr(size, a)  == snprintf(size, Separated("x", "0", 2, a, ":"))

-----------------------------------------------------------------------------
(* Reading                                                                 *)

\* The numbers read before the end of the format, the end of the text or
\* the first character that does not match.  %d is content with no digit.
sscanf(str, fmt) ==
    LET After(i) == CHOOSE e \in i .. Len(str) + 1 :
                        /\ \A k \in i .. e - 1 : IsDigit(str[k])
                        /\ e > Len(str) \/ ~IsDigit(str[e])
        Number(i, e) == FoldLeft(LAMBDA n, ch : Wrap(n * 10 + Value(ch)), 0, SubSeq(str, i, e - 1))
        read[i \in 1 .. Len(str) + 1, k \in 1 .. Len(fmt) + 1] ==
            IF i > Len(str) \/ k > Len(fmt) THEN <<>>
            ELSE IF fmt[k] = "%d"
                 THEN LET sign == IF str[i] = "-" THEN -1 ELSE 1
                          from == IF str[i] = "-" THEN i + 1 ELSE i
                          to   == After(from)
                      IN  <<Wrap(sign * Number(from, to))>> \o read[to, k + 1]
            ELSE IF str[i] = fmt[k] THEN read[i + 1, k + 1]
            ELSE <<>>
    IN  read[1, 1]

NoAddr == <<>>

\* An int stored at octet k covers the octets behind it.
IntSize == Bits \div 8
StoreInt(memory, n, k) ==
    [m \in DOMAIN memory |-> IF m \in k .. k + IntSize - 1 THEN (Word(n) \div 256 ^ (m - k)) % 256
                             ELSE memory[m]]

\* The array of four octets and what lies behind it: sscanf stores the
\* numbers in order, as ints, at one octet after the other.
AddrArray(n) ==
    FoldLeft(LAMBDA memory, k : StoreInt(memory, n[k], k),
             [m \in 1 .. 4 + IntSize - 1 |-> "old"], [k \in 1 .. Len(n) |-> k])

AddrNumbers(str) == sscanf(str, <<"%d", ".", "%d", ".", "%d", ".", "%d">>)

addr_strto_ipv4(str) ==
    LET n == AddrNumbers(str) IN IF Len(n) = 4 THEN SubSeq(AddrArray(n), 1, 4) ELSE NoAddr

\* The words between delimiters, empty ones included.
strtok(str, delim) ==
    LET cuts  == {k \in DOMAIN str : str[k] \in delim}
        ends  == SetToSortSeq(cuts \cup {Len(str) + 1}, <)
        begin == <<1>> \o [k \in DOMAIN ends |-> ends[k] + 1]
    IN  [k \in DOMAIN ends |-> SubSeq(str, begin[k], ends[k] - 1)]

-----------------------------------------------------------------------------
(* The calls                                                               *)

Ping == <<"p", "i", "n", "g">>

Join(words) == FoldLeft(LAMBDA l, w : l \o <<" ">> \o w, words[1], Tail(words))

TextInit == given = <<"nothing">> /\ made = <<>>

PrintNumber ==
    /\ given = <<"nothing">>
    /\ \E n \in Numbers, flag \in {"", "-", "0"}, width \in {0, 1, 3, 8} :
        /\ given' = <<"number", n, flag, width>>
        /\ made' = [kprintf  |-> itoa(n, 10),
                    snprintf |-> snprintf(32, <<[type |-> "d", flag |-> flag, width |-> width, arg |-> n]>>),
                    hex      |-> snprintf(32, <<[type |-> "x", flag |-> flag, width |-> width, arg |-> Word(n)]>>)]

PrintAddress ==
    /\ given = <<"nothing">>
    /\ \E a \in [1 .. 4 -> Octets] :
        /\ given' = <<"address", a>>
        /\ made' = [ipv4 |-> addr_ipv4_tostr(16, a),
                    eth  |-> addr_eth_tostr(18, a \o <<a[4], a[1]>>)]

\* A line of the shell: its words and the address pinged.  The shell does
\* not look whether the text was one, and an argument that is missing is
\* read from behind the words: then the address is whatever was there.
Line ==
    /\ given = <<"nothing">>
    /\ \E l \in Lines :
        LET w    == strtok(l, {" "})
            ping == w[1] = Ping /\ Len(w) > 1
        IN
        /\ given' = <<"line", l>>
        /\ made' = [words  |-> w,
                    ping   |-> IF ping THEN addr_strto_ipv4(w[2]) ELSE NoAddr,
                    behind |-> IF ping THEN SubSeq(AddrArray(AddrNumbers(w[2])), 5, IntSize + 3) ELSE <<>>]

\* One call a behaviour: nothing is kept from one to the next.
TextNext == PrintNumber \/ PrintAddress \/ Line

-----------------------------------------------------------------------------
(* A text says what it was made from: the two ways to print a number agree *)
(* and read back as the number, in any field that the sign and the spaces  *)
(* leave readable; only kprintf does not print the least int.  An address  *)
(* fits the buffer its callers have for it and reads back, so that the     *)
(* shell pings the address that was typed, although every int is stored    *)
(* over the next octets; the last one puts zeros behind the array.  The    *)
(* words of a line are the line.                                           *)
TextReadsBack ==
    /\ given[1] = "number" =>
          LET n == given[2] flag == given[3] width == given[4]
              digits == uitoa(IF n < 0 THEN -n ELSE n, 10)
              field  == IF width > Len(digits) THEN width ELSE Len(digits)
          IN  /\ n # IntMin => sscanf(made.kprintf, <<"%d">>) = <<n>>
              /\ field = Len(digits) /\ n # IntMin => made.snprintf = made.kprintf
              /\ flag # "" \/ field = Len(digits) => sscanf(made.snprintf, <<"%d">>) = <<n>>
              /\ Len(made.snprintf) = field + (IF n < 0 THEN 1 ELSE 0)
    /\ given[1] = "address" =>
          LET parts == [k \in DOMAIN made.eth |-> IF made.eth[k] = ":" THEN " " ELSE made.eth[k]]
              bytes == strtok(parts, {" "})
          IN  /\ addr_strto_ipv4(made.ipv4) = given[2]
              /\ Len(bytes) = 6
              /\ \A k \in 1 .. 4 : Len(bytes[k]) = 2 /\ 16 * Value(bytes[k][1]) + Value(bytes[k][2]) = given[2][k]
    /\ given[1] = "line" =>
          /\ Join(made.words) = given[2]
          /\ \A k \in DOMAIN made.words : " " \notin ToSet(made.words[k])
          /\ \A a \in [1 .. 4 -> Octets] :
                given[2] = Ping \o <<" ">> \o addr_ipv4_tostr(16, a) =>
                    made.ping = a /\ made.behind = [m \in 1 .. IntSize - 1 |-> 0]
=============================================================================
