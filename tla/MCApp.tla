-------------------------------- MODULE MCApp --------------------------------
(* App with up to two connections and two peers for run, and two paths for     *)
(* generate, where one command's public file may be another's private one.     *)
EXTENDS App

MCPath == {"a", "a.pub"}
MCPubOf == [p \in {"a"} |-> "a.pub"]

Peer(port) == [local_port |-> port, public_key |-> TRUE]
Connect(peers) == [secret_key |-> TRUE, peers |-> peers]
Run(out_port, connections) == [out_port |-> out_port, connections |-> connections]

\* One connection with two peers, two with one, a second connection without
\* peers, none at all, two peers on one local port, and keys that do not parse.
MCCommands ==
  {Run(port, <<Connect(<<Peer(1), Peer(2)>>)>>) : port \in {0, 3}}
  \cup {Run(port, <<Connect(<<Peer(1)>>), Connect(<<Peer(2)>>)>>) : port \in {0, 3}}
  \cup {Run(port, <<Connect(<<Peer(1)>>), Connect(<<>>)>>) : port \in {0, 1, 3}}
  \cup {Run(0, <<>>), Run(0, <<Connect(<<Peer(1)>>), Connect(<<Peer(1)>>)>>),
        Run(0, <<[Connect(<<Peer(1)>>) EXCEPT !.secret_key = FALSE]>>),
        Run(0, <<Connect(<<[Peer(1) EXCEPT !.public_key = FALSE]>>)>>)}
=============================================================================
