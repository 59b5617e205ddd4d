------------------------------- MODULE MCAddrAds -------------------------------
(* AddrAds with a routable and a loopback IPv4 address, and no IPv6 interface. *)
EXTENDS AddrAds

CONSTANTS any4, any6, lan, lo

Families == [a \in Addrs |-> a # any6]

HostIfaces ==
    <<[internal |-> TRUE, addr |-> <<lo>>], [internal |-> FALSE, addr |-> <<lan>>]>>

\* Both wildcards; one address; a wildcard and an address that it covers.
StartLists == {<<any4, any6>>, <<lo>>, <<any4, lan>>}

\* The lists of which every address can be bound.
ServeLists == {<<any4, any6>>, <<lo>>}
=============================================================================
