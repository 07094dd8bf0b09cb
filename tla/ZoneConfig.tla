------------------------------ MODULE ZoneConfig ------------------------------
(***************************************************************************)
(* From the zones of the configuration file to the zone an event is counted *)
(* for: Validate and assignZoneIDs of internal/config/config.go, the two    *)
(* lists of prefixes, Load and lpmKeyFromNet of internal/bpf/load.go, the   *)
(* lookups of path_egress, and buildZoneIndex of main.go.                   *)
(*                                                                         *)
(* A zone name is a natural number, in the order of sort.Strings; 0 is the  *)
(* empty name.  An address is a sequence of AddrBytes bytes of ByteBits     *)
(* bits, as on the wire; a uint32 is the sequence of its bytes from the     *)
(* most significant one.  A zone identifier has IdValues values.  Go visits *)
(* the zones of a map in any order.                                         *)
(***************************************************************************)
EXTENDS Integers, Sequences, FiniteSets, SequencesExt

CONSTANTS Configs,          \* configurations an operator may write, and hosts
          ByteBits,         \* bits of a byte (8)
          AddrBytes,        \* bytes of an IPv4 address (4)
          IdValues,         \* values of a zone identifier, a uint8 (256)
          MAX_ZONE_ENTRIES  \* capacity of a prefix table (64)

Byte == [1..ByteBits -> {0, 1}]
Addr == [1..AddrBytes -> Byte]
AddrBits == ByteBits * AddrBytes

\* What net.ParseCIDR makes of a subnet: an IPv4 prefix ("v4"), an IPv6 one
\* ("v6"), an IPv4 prefix in IPv6 notation ("mapped", whose length counts from
\* bit 0 of the 128) or an error ("bad").
Subnet ==
  {s \in [kind : {"v4", "v6", "mapped", "bad"}, addr : Addr, len : Nat] :
     /\ s.kind = "v4" => s.len <= AddrBits
     /\ s.kind = "mapped" => s.len > AddrBits}

ASSUME ZoneAssumption ==
  /\ ByteBits \in Nat \ {0} /\ AddrBytes \in Nat \ {0}
  /\ IdValues \in Nat \ {0} /\ MAX_ZONE_ENTRIES \in Nat \ {0}
  /\ \A c \in Configs :
       /\ c.little \in BOOLEAN
       /\ IsFiniteSet(DOMAIN c.zones) /\ DOMAIN c.zones \subseteq Nat
       /\ \A n \in DOMAIN c.zones : c.zones[n] \in Seq(Subnet)

VARIABLES cfg,          \* the configuration file; little: the host is little-endian
          pc,           \* how far main has come
          dstEntries,   \* what is left of the entries for zone_lpm
          srcEntries,   \* what is left of the entries for src_zone_lpm
          zone_lpm,     \* prefix table of the destinations
          src_zone_lpm, \* prefix table of the sources
          packet        \* the last packet, and the zone it was counted for

loading == <<dstEntries, srcEntries>>
tables == <<zone_lpm, src_zone_lpm>>
configVars == <<cfg, pc, loading, tables, packet>>

NoZone == -1
NothingCounted == [saddr |-> <<>>, daddr |-> <<>>, zone |-> NoZone]

-----------------------------------------------------------------------------
(* config.go *)

Names == DOMAIN cfg.zones
Remote == Names \ {cfg.source}

Parses(s) == s.kind # "bad"

MaxZones == IdValues - 1

Validate ==
  /\ cfg.source # 0
  /\ Names # {}
  /\ cfg.source \in Names
  /\ \A n \in Names : cfg.zones[n] # <<>> /\ \A s \in ToSet(cfg.zones[n]) : Parses(s)
  /\ Remote # {}
  /\ Cardinality(Names) <= MaxZones

\* The place of n among the sorted names, as a uint8.
ZoneID(n) == Cardinality({k \in Names : k <= n}) % IdValues

EntriesOf(n) == [i \in DOMAIN cfg.zones[n] |-> [zone |-> ZoneID(n), prefix |-> cfg.zones[n][i]]]

\* One list for every order in which the range loop may meet the zones.
ZoneLPMEntries ==
  {FlattenSeq([i \in DOMAIN order |-> EntriesOf(order[i])]) : order \in SetToSeqs(Remote)}

SourceZoneLPMEntries == EntriesOf(cfg.source)

\* RemoteZones: the remote names as sort.Strings leaves them, with their
\* identifiers.
SortedNames ==
  CHOOSE names \in SetToSeqs(Remote) : \A i, j \in DOMAIN names : i < j => names[i] < names[j]

RemoteZones ==
  LET names == SortedNames
  IN  [i \in DOMAIN names |-> [name |-> names[i], id |-> ZoneID(names[i])]]

\* Mutant: the index counts the remote zones only.
IndexByPosition(id) == {i \in DOMAIN RemoteZones : i = id}

\* buildZoneIndex: the places of the accumulator an identifier leads to.
zoneByID(id) == {i \in DOMAIN RemoteZones : RemoteZones[i].id = id}

-----------------------------------------------------------------------------
(* load.go *)

\* The number a uint32 field holds, and the bytes it has in memory.
Uint(bytes, little) == IF little THEN Reverse(bytes) ELSE bytes
InMemory(n) == IF cfg.little THEN Reverse(n) ELSE n
Zero == [i \in 1..AddrBytes |-> [j \in 1..ByteBits |-> 0]]

\* Bit i of an address in memory, from the first one the kernel compares.
Bit(bytes, i) == bytes[((i - 1) \div ByteBits) + 1][((i - 1) % ByteBits) + 1]

\* Mutant: the address is read as a big-endian number on every host.
KeyInNetworkOrder(s) ==
  IF s.kind = "v6" THEN [len |-> 0, addr |-> Zero] ELSE [len |-> s.len, addr |-> Uint(s.addr, FALSE)]

\* The zero key for what is not IPv4.
lpmKeyFromNet(s) ==
  IF s.kind = "v6" THEN [len |-> 0, addr |-> Zero]
  ELSE [len |-> s.len, addr |-> Uint(s.addr, cfg.little)]

\* What the kernel tells two keys apart by: the first len bits.
Bits(key) == [i \in 1..key.len |-> Bit(InMemory(key.addr), i)]

\* bpf(BPF_MAP_UPDATE_ELEM) on a prefix table: a prefix longer than an
\* address is an error, and so is a new one when the table is full.  A kernel
\* may also refuse to replace one in a full table.
TooLong(e) == lpmKeyFromNet(e.prefix).len > AddrBits
KeyOf(e) == Bits(lpmKeyFromNet(e.prefix))
Full(table) == Cardinality(DOMAIN table) = MAX_ZONE_ENTRIES
Stored(table, e) ==
  [k \in DOMAIN table \union {KeyOf(e)} |-> IF k = KeyOf(e) THEN e.zone ELSE table[k]]
MayStore(table, e) ==
  ~TooLong(e) /\ (Full(table) => KeyOf(e) \in DOMAIN table)
MayRefuse(table, e) == TooLong(e) \/ Full(table)

\* Mutant: the error of Put is ignored.
FailOpen == pc

\* Load closes what it has loaded and main ends.
Fail == "failed"

ConfigInit ==
  /\ cfg \in Configs
  /\ pc = "config"
  /\ dstEntries = <<>> /\ srcEntries = <<>>
  /\ zone_lpm = <<>> /\ src_zone_lpm = <<>>
  /\ packet = NothingCounted

LoadConfig ==
  /\ pc = "config"
  /\ IF Validate
     THEN pc' = "load" /\ dstEntries' \in ZoneLPMEntries /\ srcEntries' = SourceZoneLPMEntries
     ELSE pc' = "failed" /\ UNCHANGED loading
  /\ UNCHANGED <<cfg, tables, packet>>

PutZone ==
  /\ pc = "load" /\ dstEntries # <<>>
  /\ \/ /\ MayStore(zone_lpm, Head(dstEntries))
        /\ zone_lpm' = Stored(zone_lpm, Head(dstEntries))
        /\ UNCHANGED pc
     \/ /\ MayRefuse(zone_lpm, Head(dstEntries))
        /\ pc' = Fail
        /\ UNCHANGED zone_lpm
  /\ dstEntries' = Tail(dstEntries)
  /\ UNCHANGED <<cfg, srcEntries, src_zone_lpm, packet>>

PutSrcZone ==
  /\ pc = "load" /\ dstEntries = <<>> /\ srcEntries # <<>>
  /\ \/ /\ MayStore(src_zone_lpm, Head(srcEntries))
        /\ src_zone_lpm' = Stored(src_zone_lpm, Head(srcEntries))
        /\ UNCHANGED pc
     \/ /\ MayRefuse(src_zone_lpm, Head(srcEntries))
        /\ pc' = Fail
        /\ UNCHANGED src_zone_lpm
  /\ srcEntries' = Tail(srcEntries)
  /\ UNCHANGED <<cfg, dstEntries, zone_lpm, packet>>

Attach ==
  /\ pc = "load" /\ dstEntries = <<>> /\ srcEntries = <<>>
  /\ pc' = "running"
  /\ UNCHANGED <<cfg, loading, tables, packet>>

-----------------------------------------------------------------------------
(* path_egress and the reader *)

\* bpf_map_lookup_elem with prefix length 32: the values of the longest
\* stored prefix of the address as it is in the packet; none if there is none.
Matches(table, a) == {k \in DOMAIN table : \A i \in DOMAIN k : k[i] = Bit(a, i)}

Lookup(table, a) ==
  {table[k] : k \in {l \in Matches(table, a) : \A m \in Matches(table, a) : Len(l) >= Len(m)}}

\* The name an event with this identifier is counted under.
CountedUnder(id) ==
  IF zoneByID(id) = {} THEN NoZone ELSE RemoteZones[CHOOSE i \in zoneByID(id) : TRUE].name

path_egress(s, d) ==
  /\ pc = "running"
  /\ Lookup(src_zone_lpm, s) # {}
  /\ \E id \in Lookup(zone_lpm, d) :
       packet' = [saddr |-> s, daddr |-> d, zone |-> CountedUnder(id)]
  /\ UNCHANGED <<cfg, pc, loading, tables>>

ConfigNext == LoadConfig \/ PutZone \/ PutSrcZone \/ Attach \/ \E s, d \in Addr : path_egress(s, d)

ConfigSpec == ConfigInit /\ [][ConfigNext]_configVars

-----------------------------------------------------------------------------
(* Reference: what the configuration says of an address *)

\* The addresses of packets are IPv4: no other subnet has any of them in it.
Covers(s, a) == s.kind = "v4" /\ \A i \in 1..s.len : Bit(s.addr, i) = Bit(a, i)

CoveredBy(n, a) == \E s \in ToSet(cfg.zones[n]) : Covers(s, a)

\* The remote zones with the longest subnet around an address.
Around(a) == {p \in UNION {{n} \X ToSet(cfg.zones[n]) : n \in Remote} : Covers(p[2], a)}
Owners(a) == {p[1] : p \in {q \in Around(a) : \A r \in Around(a) : q[2].len >= r[2].len}}

\* Some remote subnet around an address is not the whole of IPv4.
Claimed(a) == \E p \in Around(a) : p[2].len > 0

\* Validate lets IPv6 subnets pass; these zones have none.
IPv4Only(zones) == \A n \in zones : \A s \in ToSet(cfg.zones[n]) : s.kind # "v6"

\* Every variable has its type and the tables stay within their capacity.
ConfigTypeOK ==
  /\ cfg \in Configs
  /\ pc \in {"config", "load", "running", "failed"}
  /\ \A table \in {zone_lpm, src_zone_lpm} :
       IsFiniteSet(DOMAIN table) /\ Cardinality(DOMAIN table) <= MAX_ZONE_ENTRIES

\* Every event carries an identifier that the index of the accumulator knows,
\* whatever the configuration, the order of its zones and the byte order:
\* identifiers count all zones and accumulator places only the remote ones,
\* and the counter of unknown zones stays zero.
EveryEventHasItsZone == packet # NothingCounted => packet.zone \in Remote

\* Where the zones are IPv4, a packet is counted only if its source is in a
\* subnet of the source zone, and for a zone with the longest subnet around its
\* destination.  Where they share no subnet there is one such zone, whatever
\* order the prefixes were stored in.  IPv6 subnets of other zones do not take
\* the packets of an IPv4 subnet, unless that is the whole of IPv4.
LongestSubnetWins ==
  packet # NothingCounted =>
    /\ IPv4Only({cfg.source}) => CoveredBy(cfg.source, packet.saddr)
    /\ IPv4Only(Remote) \/ Claimed(packet.daddr) => packet.zone \in Owners(packet.daddr)

\* "Counts TCP segments between `source_zone` subnets and each remote zone's
\* subnets" (README.md): both ends of a counted packet are in a subnet of the
\* zone it is counted for, whatever Validate has let pass.
CountedBetweenSubnets ==
  packet # NothingCounted =>
    CoveredBy(cfg.source, packet.saddr) /\ CoveredBy(packet.zone, packet.daddr)

\* A program that runs has stored every subnet: an address inside a remote
\* zone is found by the destination lookup and one inside the source zone by
\* the source lookup, however full the tables are.
NothingSilentlyUnzoned ==
  pc = "running" =>
    \A a \in Addr :
      /\ Owners(a) # {} => Lookup(zone_lpm, a) # {}
      /\ CoveredBy(cfg.source, a) => Lookup(src_zone_lpm, a) # {}

-----------------------------------------------------------------------------
(* What the proofs need besides *)

\* What the key of a subnet stands for: all addresses, if it is not IPv4.
KeyLength(s) == IF s.kind = "v6" THEN 0 ELSE s.len
KeyCovers(s, a) == s.kind \in {"v4", "v6"} /\ \A i \in 1..KeyLength(s) : Bit(s.addr, i) = Bit(a, i)

\* The entries of some zones.
Entries(zones) == UNION {ToSet(EntriesOf(n)) : n \in zones}

\* While a table is filled from a list, an entry is on the list or its prefix
\* is in the table, and a prefix in the table is that of an entry.
FillInv(table, list, zones) ==
  /\ list \in Seq(Entries(zones))
  /\ \A e \in Entries(zones) : e \in ToSet(list) \/ (~TooLong(e) /\ KeyOf(e) \in DOMAIN table)
  /\ \A k \in DOMAIN table :
       \E e \in Entries(zones) : ~TooLong(e) /\ k = KeyOf(e) /\ table[k] = e.zone

LoadInv ==
  /\ pc = "config" => zone_lpm = <<>> /\ src_zone_lpm = <<>>
  /\ pc \in {"load", "running"} =>
       /\ Validate
       /\ FillInv(zone_lpm, dstEntries, Remote)
       /\ FillInv(src_zone_lpm, srcEntries, {cfg.source})
  /\ pc = "running" => dstEntries = <<>> /\ srcEntries = <<>>
  /\ packet # NothingCounted => pc = "running"

ZoneInv == ConfigTypeOK /\ LoadInv /\ EveryEventHasItsZone /\ LongestSubnetWins
=============================================================================
