--------------------------- MODULE MCInternetSocket ---------------------------
(* InternetSocket with stray datagrams. *)
EXTENDS InternetSocket

Stray(magic, len, cookie, host) ==
  [magic |-> magic, len |-> len, cookie |-> cookie, id |-> 0, body |-> <<>>,
   source |-> [host |-> host, mapped |-> TRUE]]

\* One with the cookie that is too short for an id, and a response of some other
\* server.
MCWild == {Stray(FALSE, 12, TRUE, "server"), Stray(FALSE, 32, TRUE, "other")}

\* IPv6 comes and goes.
MCRoutes == {{"server"}, Destination}
=============================================================================
