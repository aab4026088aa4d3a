------------------------------ MODULE NetTools ------------------------------
(***************************************************************************)
(* The arithmetic of the networking tools (utils/ipv4.ts, cidrCalculator,   *)
(* subnetSplitter, cidrMatch, ipv6.ts).  A text is the list of its parts:   *)
(* an IPv4 block is its octets and its prefix, an IPv6 address its groups   *)
(* with Gap for "::".  The widths are parameters; the code has 32-bit       *)
(* addresses of 8-bit octets, and 8 groups of 16 bits.                      *)
(***************************************************************************)
EXTENDS Outcomes, Integers, Sequences, FiniteSets, SequencesExt

CONSTANTS Width,        \* bits of an IPv4 address
          OctetBits,    \* bits of one of its octets
          MaxListed,    \* subnets a split lists at most
          GroupCount,   \* groups of an IPv6 address
          GroupBits,    \* bits of one of them
          AddressTypes  \* the well-known IPv6 prefixes, in the order they are tried

ASSUME NetAssumption ==
  /\ Width \in Nat \ {0} /\ OctetBits \in Nat \ {0} /\ Width % OctetBits = 0
  /\ MaxListed \in Nat \ {0}
  /\ GroupCount \in Nat \ {0} /\ Width = 2 * GroupBits

Absent == -1            \* no prefix was written, or no value was parsed
Gap    == -2            \* "::"

\* big-endian digits of a base, and back
FromDigits(s, base) ==
  LET upTo[i \in 0..Len(s)] == IF i = 0 THEN 0 ELSE upTo[i - 1] * base + s[i] IN upTo[Len(s)]
ToDigits(n, base, count) == [i \in 1..count |-> (n \div base^(count - i)) % base]

-----------------------------------------------------------------------------
(* IPv4 *)

\* The address as an unsigned number: exactly so many octets, none too large.
ipToInt(octets) ==
  IF Len(octets) # Width \div OctetBits \/ \E i \in DOMAIN octets : octets[i] >= 2^OctetBits
    THEN Absent
    ELSE FromDigits(octets, 2^OctetBits)

intToIp(n) == ToDigits(n, 2^OctetBits, Width \div OctetBits)

netmaskForPrefix(p) == IF p = 0 THEN 0 ELSE 2^Width - 2^(Width - p)

\* A block, or an address alone where that is allowed (a host route).
Block(t, ip, p, size) ==
  [input |-> t, address |-> ip, prefix |-> p, mask |-> netmaskForPrefix(p), size |-> size,
   network |-> ip - (ip % size), broadcast |-> ip - (ip % size) + size - 1, hasHostBits |-> ip % size # 0]

parseCidr(t, allowBareIp) ==
  LET p  == IF t.prefix = Absent THEN Width ELSE t.prefix
      ip == ipToInt(t.octets)
  IN OkIf((t.prefix # Absent \/ allowBareIp) /\ p <= Width /\ ip # Absent, Block(t, ip, p, 2^(Width - p)))

\* A point-to-point link and a single host reserve no network/broadcast pair.
usableHostCount(p) == IF p >= Width - 1 THEN 2^(Width - p) ELSE 2^(Width - p) - 2

usableRange(network, broadcast, p) ==
  IF p >= Width - 1 THEN <<network, broadcast>> ELSE <<network + 1, broadcast - 1>>

\* Classes A to E: how many leading ones, up to four.
ipClass(n) == Cardinality({k \in 1..4 : n >= 2^Width - 2^(Width - k)})

\* The neighbours of a block wrap around the address space.
calculateCidr(t) ==
  Then(parseCidr(t, FALSE), LAMBDA b :
    Ok([network |-> b.network, broadcast |-> b.broadcast, netmask |-> b.mask,
        wildcard |-> 2^Width - 1 - b.mask,
        usable |-> usableRange(b.network, b.broadcast, b.prefix),
        usableHosts |-> usableHostCount(b.prefix), total |-> b.size,
        class |-> ipClass(b.address),
        previous |-> (b.network - b.size) % 2^Width,
        next |-> (b.network + b.size) % 2^Width, prefix |-> b.prefix]))

-----------------------------------------------------------------------------
(* The subnet splitter *)

\* What the splitter needs for n subnets: the least power of two that reaches n.
bitsNeeded(n) == CHOOSE b \in 0..n : 2^b >= n /\ \A c \in 0..(b - 1) : 2^c < n

\* Mutant of Subnet: the broadcast address is one too far.
SubnetOneTooFar(network, step, p) ==
  [network |-> network, broadcast |-> network + step, prefix |-> p,
   usable |-> usableRange(network, network + step - 1, p)]

Subnet(network, step, p) ==
  [network |-> network, broadcast |-> network + step - 1, prefix |-> p,
   usable |-> usableRange(network, network + step - 1, p)]

Subnets(b, p, step, total) ==
  [prefix |-> p, totalSubnets |-> total, listTruncated |-> total > MaxListed,
   subnets |-> [i \in 1..(IF total < MaxListed THEN total ELSE MaxListed) |->
                  Subnet(b.network + (i - 1) * step, step, p)],
   hostsPerSubnet |-> usableHostCount(p), normalized |-> b.hasHostBits]

splitCidr(t, mode, value) ==
  LET Into(b, p) == IF p > Width \/ p < b.prefix THEN Failed
                    ELSE Ok(Subnets(b, p, 2^(Width - p), b.size \div 2^(Width - p)))
  IN IF value < 1 THEN Failed
     ELSE Then(parseCidr(t, FALSE), LAMBDA b :
            Into(b, IF mode = "prefix" THEN value ELSE b.prefix + bitsNeeded(value)))

-----------------------------------------------------------------------------
(* The overlap checker *)

\* Mutant of contains: blocks that share an end are not nested.
ContainsInside(a, b) == a.network < b.network /\ a.broadcast > b.broadcast

contains(a, b) == a.network <= b.network /\ a.broadcast >= b.broadcast

Relation2(a, b) ==
  IF a.network = b.network /\ a.prefix = b.prefix THEN "identical"
  ELSE IF contains(a, b) THEN "contains"
  ELSE IF contains(b, a) THEN "contained" ELSE "disjoint"

\* Entries that do not parse are listed with their error and take no part; the
\* blocks around a target are ordered longest prefix first, ties as listed.
Around(valid, target) ==
  LET nearer(i, j) == valid[i].prefix > valid[j].prefix \/ (valid[i].prefix = valid[j].prefix /\ i < j)
      hits == SetToSortSeq({i \in DOMAIN valid : contains(valid[i], target)}, nearer)
  IN [k \in DOMAIN hits |-> valid[hits[k]]]

Overlaps(valid) ==
  {o \in {[a |-> i, b |-> j, relation |-> Relation2(valid[i], valid[j])] : i, j \in DOMAIN valid} :
     o.a < o.b /\ o.relation # "disjoint"}

analyzeCidrs(cidrs, tests) ==
  LET parsed(list) == [i \in DOMAIN list |-> parseCidr(list[i], TRUE)]
      values(list) == [i \in DOMAIN list |-> list[i].value]
      row(p, valid) == [ok |-> p.ok, target |-> p, matchedBy |-> IF p.ok THEN Around(valid, p.value) ELSE <<>>]
      Of(blocks, targets, valid) ==
        [rows |-> [i \in DOMAIN targets |-> row(targets[i], valid)],
         errors |-> {i \in DOMAIN blocks : ~blocks[i].ok},
         overlaps |-> Overlaps(valid), valid |-> valid,
         unnormalized |-> SelectSeq(valid, LAMBDA v : v.hasHostBits)]
  IN Of(parsed(cidrs), parsed(tests), values(SelectSeq(parsed(cidrs), LAMBDA p : p.ok)))

-----------------------------------------------------------------------------
(* IPv6 *)

Bits6 == GroupCount * GroupBits

\* Groups with at most one "::", which stands for one zero group at least; an
\* embedded IPv4 tail is rewritten as the two last groups.  A group that is too
\* long (or not hexadecimal) spoils the address.
parseAddress(groups, v4tail) ==
  LET v4   == ipToInt(v4tail)
      all  == IF v4tail = <<>> THEN groups ELSE groups \o ToDigits(v4, 2^GroupBits, 2)
      gaps == {i \in DOMAIN all : all[i] = Gap}
      fill == GroupCount - (Len(all) - 1)
      full == IF gaps = {} THEN all
              ELSE LET g == CHOOSE i \in gaps : TRUE
                   IN SubSeq(all, 1, g - 1) \o [i \in 1..fill |-> 0] \o SubSeq(all, g + 1, Len(all))
  IN IF \/ v4tail # <<>> /\ v4 = Absent
        \/ Cardinality(gaps) > 1
        \/ gaps # {} /\ fill < 1
        \/ gaps = {} /\ Len(all) # GroupCount
        \/ \E i \in (DOMAIN all) \ gaps : all[i] >= 2^GroupBits
       THEN Absent
       ELSE FromDigits(full, 2^GroupBits)

toGroups(v)   == ToDigits(v, 2^GroupBits, GroupCount)
expandIpv6(v) == toGroups(v)

\* The zero run that "::" replaces: the longest, the leftmost of equals, of two
\* groups at least.
\* Mutant of LongestRun: the rightmost of equals.
LastLongestRun(runs) == CHOOSE r \in runs : \A q \in runs : q[2] < r[2] \/ (q[2] = r[2] /\ q[1] <= r[1])

LongestRun(runs) == CHOOSE r \in runs : \A q \in runs : q[2] < r[2] \/ (q[2] = r[2] /\ q[1] >= r[1])

compressIpv6(v) ==
  LET g == toGroups(v)
      runs == {<<a, n>> \in (1..GroupCount) \X (2..GroupCount) :
                 a + n - 1 <= GroupCount /\ \A i \in a..(a + n - 1) : g[i] = 0}
      best == LongestRun(runs)
  IN IF runs = {} THEN g
     ELSE SubSeq(g, 1, best[1] - 1) \o <<Gap>> \o SubSeq(g, best[1] + best[2], GroupCount)

NetworkOf(v, p) == v - (v % 2^(Bits6 - p))

\* The first well-known prefix that holds the address.
classify(v) ==
  LET hits == {i \in DOMAIN AddressTypes :
                 NetworkOf(v, AddressTypes[i].length) =
                 NetworkOf(parseAddress(AddressTypes[i].prefix, <<>>), AddressTypes[i].length)}
  IN IF hits = {} THEN "Reserved / unassigned"
     ELSE AddressTypes[CHOOSE i \in hits : \A j \in hits : i <= j].label

\* Bit for bit reversed digits: the name of a reverse lookup.
ip6Arpa(v) == Reverse(expandIpv6(v))

analyzeIpv6(t) ==
  LET p == IF t.prefix = Absent THEN Bits6 ELSE t.prefix
      Of(v, n) == [value |-> v, expanded |-> expandIpv6(v), compressed |-> compressIpv6(v), prefix |-> p,
                   hasPrefix |-> t.prefix # Absent, first |-> compressIpv6(n),
                   last |-> compressIpv6(n + 2^(Bits6 - p) - 1), hostBits |-> Bits6 - p, type |-> classify(v),
                   ptrName |-> ip6Arpa(v), hasHostBits |-> v # n]
      At(v) == OkIf(p <= Bits6 /\ v # Absent, Of(v, NetworkOf(v, p)))
  IN At(parseAddress(t.groups, t.tail))
=============================================================================
