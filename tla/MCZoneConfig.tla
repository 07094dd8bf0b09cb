----------------------------- MODULE MCZoneConfig -----------------------------
(* Two-byte addresses of one bit per byte, so that byte order matters, and   *)
(* up to four names of which three fit the identifiers.  Configurations:     *)
(* every way to give two or three zones a list of subnets from the pool,     *)
(* nested and shared prefixes, IPv6, mapped and malformed ones, more         *)
(* subnets than a table holds, and zones without subnets.                    *)
EXTENDS ZoneConfig

\* The bytes of one bit each.
Bytes(bits) == [i \in DOMAIN bits |-> <<bits[i]>>]

v4(bits, n) == [kind |-> "v4", addr |-> Bytes(bits), len |-> n]
Half0 == v4(<<0, 0>>, 1)
Host01 == v4(<<0, 1>>, 2)
Host10 == v4(<<1, 0>>, 2)
Default == v4(<<0, 0>>, 0)
HostBits == v4(<<1, 1>>, 1)
IPv6 == [kind |-> "v6", addr |-> Bytes(<<0, 0>>), len |-> 1]
Mapped == [kind |-> "mapped", addr |-> Bytes(<<0, 0>>), len |-> 3]
Malformed == [kind |-> "bad", addr |-> Bytes(<<0, 0>>), len |-> 0]

Pool == {<<>>, <<Half0>>, <<Host01>>, <<Host10>>, <<Default>>, <<HostBits>>, <<Mapped>>, <<Malformed>>,
         <<Host10, Half0>>, <<Host01, Host10, Default>>, <<Half0, Half0>>}
WithNames(names, pool) == [little : BOOLEAN, source : {0, 1, 2, 3}, zones : [names -> pool]]

MCConfigs ==
  WithNames({}, Pool) \union WithNames({1}, Pool) \union WithNames({1, 2}, Pool)
    \union WithNames({1, 2, 3}, Pool \union {<<IPv6>>}) \union WithNames({0, 2}, {<<Half0>>, <<Host01>>})
    \union WithNames({0, 1, 2, 3}, {<<Half0>>, <<Host10>>})

\* Two zones, of which either may have an IPv6 subnet.
MCIPv6Configs == WithNames({1, 2}, {<<Half0>>, <<Host10>>, <<IPv6>>})
=============================================================================
