------------------------------ MODULE MCSession ------------------------------
(* Instances of Session for TLC: an IPv4 and an IPv6 address a record may      *)
(* offer, and an IPv4 address with a privileged port, which it may not.        *)
EXTENDS Session

CONSTANTS a4, c6, p4

MCIpv4 == {a4, p4}

MCUsable == {a4, c6}

\* Two that give different addresses, so that no_clear has one to retain.  The
\* first fits MaxRemote, and gives none with filter_ipv6.  The second has an entry
\* that is never usable, a repeated one, and is too long for MaxRemote.
MCAddrLists == {<<c6>>, <<p4, a4, a4, c6>>}

\* One family, both families, no address.
MCFamilies == {<<>>, <<a4>>, <<c6, a4>>}
=============================================================================
