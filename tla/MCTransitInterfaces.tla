------------------------- MODULE MCTransitInterfaces -------------------------
(* A WireGuard interface, two Ethernet ones, a bridge that the patterns      *)
(* exclude, and the loopback; names configured twice, empty or unknown.      *)
EXTENDS TransitInterfaces

MCKind == <<"wireguard", "ethernet", "ethernet", "loopback", "ethernet">>
MCLists == {<<>>, <<1>>, <<2, 1>>, <<2, 0, 2>>, <<0>>, <<3, 1, 3>>}
=============================================================================
