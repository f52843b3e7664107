--------------------------- MODULE TwoPeers_proofs ---------------------------
(***************************************************************************)
(* What a frame can mean, for any number of addresses, restarts, moves and *)
(* frames in flight.  A frame only carries a token, so that a probe and an *)
(* echo look the same; what tells them apart is whose address they come    *)
(* from.  The invariant that carries the argument: a frame that is not an  *)
(* echo never comes from an address of the token's owner, and an echo      *)
(* never goes to one.                                                      *)
(***************************************************************************)
EXTENDS TwoPeers, FiniteSetTheorems, TLAPS

AnyToken == Peer \X Nat

Frame == [from : Addr, to : Addr, token : AnyToken, hop : Nat]

\* The types the argument needs.
Typed ==
  /\ run \in [Peer -> Nat]
  /\ at \in [Peer -> Addr]
  /\ addresses \in [Peer -> SUBSET Addr]
  /\ dht \in [Peer -> Seq(Nat \X SUBSET Addr)]
  /\ control \in [Peer -> [token : AnyToken \cup {None}, status : [Addr -> Control!Status]]]
  /\ frames \subseteq Frame

Owned(p, set) == \A a \in set : Owner[a] = p

\* A peer is at, publishes and has published its own addresses only.
OwnAddresses ==
  \A p \in Peer :
    /\ Owner[at[p]] = p
    /\ Owned(p, addresses[p])
    /\ \A i \in 1..Len(dht[p]) : Owned(p, dht[p][i][2])

\* A controller's paths are the other's, under a token of the other's.
PathsOfOther ==
  \A p \in Peer : \A a \in Control!Known(control[p]) :
    /\ Owner[a] = Other(p)
    /\ control[p].token \in {Other(p)} \X Nat

IsProbe(f) == f.hop = 0 /\ Owner[f.from] # f.token[1]

IsEcho(f, sent) ==
  f.hop = 1 /\ Owner[f.to] # f.token[1] /\ <<f.token, f.from>> \in sent

\* What a frame in flight is.
FrameMeaning(f, sent) == IsProbe(f) \/ IsEcho(f, sent)

\* The inductive invariant.
Inv ==
  /\ Typed
  /\ OwnAddresses
  /\ PathsOfOther
  /\ \A f \in frames : FrameMeaning(f, answered)
  /\ VerifiedMeansAnswered

\* There are two peers.
LEMMA OtherPeer ==
  ASSUME NEW p \in Peer
  PROVE  Other(p) \in Peer /\ Other(p) # p
<1>1. \E q \in Peer : q # p
  <2>1. Cardinality({p}) = 1
    BY FS_Singleton, ZenonT(60)
  <2>2. Cardinality(Peer) = 2
    BY PeersAssumption
  <2>3. Peer # {p}
    BY <2>1, <2>2
  <2> QED
    BY <2>3
<1> QED
  BY <1>1 DEF Other

\* What an update leaves known was selected; what it leaves verified was so
\* under the same token.
LEMMA UpdatedControl ==
  ASSUME NEW c \in [token : AnyToken \cup {None}, status : [Addr -> Control!Status]],
         NEW token \in AnyToken, NEW list \in SUBSET Addr
  PROVE  LET u == Control!Updated(c, token, list)
         IN  /\ u \in [token : AnyToken \cup {None}, status : [Addr -> Control!Status]]
             /\ u.token = token
             /\ Control!Known(u) \subseteq list
             /\ \A a \in Control!VerifiedPaths(u) :
                  c.token = token /\ a \in Control!VerifiedPaths(c)
<1> DEFINE kept == IF c.token = token THEN c.status ELSE Control!NoStatus
           status == [a \in Addr |->
                        CASE token = None \/ a \notin list -> "absent"
                          [] token # None /\ a \in list /\ kept[a] = "absent" -> "new"
                          [] OTHER -> kept[a]]
<1>1. kept \in [Addr -> Control!Status]
  BY DEF Control!NoStatus, Control!Status
<1>2. Control!Updated(c, token, list) = [token |-> token, status |-> status]
  BY DEF Control!Updated
<1>3. \A a \in Addr : \/ status[a] = "absent"
                      \/ a \in list /\ status[a] \in {"new", kept[a]}
  OBVIOUS
<1>4. status \in [Addr -> Control!Status]
  BY <1>1 DEF Control!Status
<1>5. ASSUME NEW a \in Addr, status[a] \in {"verified", "checking"}
      PROVE  c.token = token /\ c.status[a] \in {"verified", "checking"}
  BY <1>3, <1>5 DEF Control!NoStatus
<1> HIDE DEF status, kept
<1> QED
  BY <1>2, <1>3, <1>4, <1>5 DEF Control!Known, Control!VerifiedPaths

\* Probing known paths makes none known or verified.
LEMMA ProbedControl ==
  ASSUME NEW c \in [token : AnyToken \cup {None}, status : [Addr -> Control!Status]],
         NEW due, due \subseteq Control!Known(c)
  PROVE  LET d == Control!Probed(c, due)
         IN  /\ d \in [token : AnyToken \cup {None}, status : [Addr -> Control!Status]]
             /\ d.token = c.token
             /\ Control!Known(d) \subseteq Control!Known(c)
             /\ Control!VerifiedPaths(d) \subseteq Control!VerifiedPaths(c)
<1> DEFINE status == [a \in Addr |->
      IF a \notin due THEN c.status[a]
      ELSE IF c.status[a] = "verified" THEN "checking" ELSE "waiting"]
<1>1. status \in [Addr -> Control!Status]
  BY DEF Control!Status
<1>2. \A a \in Addr : /\ status[a] # "absent" => c.status[a] # "absent"
                      /\ status[a] \in {"verified", "checking"}
                           => c.status[a] \in {"verified", "checking"}
  BY DEF Control!Known
<1>3. Control!Probed(c, due) = [c EXCEPT !.status = status]
  BY DEF Control!Probed
<1>4. Control!Probed(c, due) = [token |-> c.token, status |-> status]
  BY <1>1, <1>3
<1> HIDE DEF status
<1> QED
  BY <1>1, <1>2, <1>4 DEF Control!Known, Control!VerifiedPaths

\* A process that has just been started knows no path.
LEMMA NewControllerType ==
  /\ Control!New \in [token : AnyToken \cup {None}, status : [Addr -> Control!Status]]
  /\ Control!Known(Control!New) = {}
  /\ Control!VerifiedPaths(Control!New) = {}
BY DEF Control!New, Control!NoStatus, Control!Status, Control!Known, Control!VerifiedPaths

\* The processes start in Inv.
LEMMA InitInv == Init => Inv
<1> SUFFICES ASSUME Init PROVE Inv
  OBVIOUS
<1>1. Typed
  BY PeersAssumption, NewControllerType DEF Init, Typed
<1>2. OwnAddresses
  BY PeersAssumption DEF Init, OwnAddresses, Owned
<1>3. PathsOfOther
  BY NewControllerType DEF Init, PathsOfOther
<1>4. VerifiedMeansAnswered
  BY NewControllerType DEF Init, VerifiedMeansAnswered
<1> QED
  BY <1>1, <1>2, <1>3, <1>4 DEF Inv, Init

\* Publishing, lookups, restarts and moves.
LEMMA PeerSteps ==
  ASSUME Inv, NEW p \in Peer,
         Publish(p) \/ LookupSucceeds(p) \/ LookupFails(p) \/ Restart(p) \/ Move(p)
  PROVE  Inv'
<1> USE DEF Inv
<1>1. CASE Publish(p)
  <2>1. Record(p) \in Nat \X SUBSET Addr /\ Record(p)[2] = addresses[p]
    BY DEF Record, Typed
  <2>2. Typed'
    BY <1>1, <2>1 DEF Publish, Typed
  <2>3. \A q \in Peer : \A i \in 1..Len(dht'[q]) : Owned(q, dht'[q][i][2])
    <3> SUFFICES ASSUME NEW q \in Peer, NEW i \in 1..Len(dht'[q])
                 PROVE  Owned(q, dht'[q][i][2])
      OBVIOUS
    <3>1. CASE q # p
      BY <1>1, <3>1 DEF Publish, Typed, OwnAddresses
    <3>2. CASE q = p
      <4>1. dht'[q] = Append(dht[p], Record(p)) /\ dht[p] \in Seq(Nat \X SUBSET Addr)
        BY <1>1, <3>2 DEF Publish, Typed
      <4>2. \/ i \in 1..Len(dht[p]) /\ dht'[q][i] = dht[p][i]
            \/ dht'[q][i] = Record(p)
        BY <4>1, <2>1
      <4> QED
        BY <4>2, <2>1, <3>2 DEF OwnAddresses
    <3> QED
      BY <3>1, <3>2
  <2>4. OwnAddresses'
    <3>1. at' = at /\ addresses' = addresses
      BY <1>1 DEF Publish
    <3>2. \A q \in Peer : Owner[at'[q]] = q /\ Owned(q, addresses'[q])
      BY <3>1 DEF OwnAddresses
    <3> QED
      BY <3>2, <2>3 DEF OwnAddresses, Owned
  <2> QED
    BY <1>1, <2>2, <2>4 DEF Publish, PathsOfOther, FrameMeaning, VerifiedMeansAnswered
<1>2. CASE LookupSucceeds(p) \/ LookupFails(p)
  <2>1. Typed'
    <3>1. addresses' \in [Peer -> SUBSET Addr]
      <4>1. CASE LookupSucceeds(p)
        BY <4>1 DEF LookupSucceeds, Typed
      <4>2. CASE LookupFails(p)
        BY <4>2 DEF LookupFails, Typed
      <4> QED
        BY <1>2, <4>1, <4>2
    <3>2. /\ run' = run /\ at' = at /\ dht' = dht
          /\ control' = control /\ frames' = frames
      BY <1>2 DEF LookupSucceeds, LookupFails
    <3> QED
      BY <3>1, <3>2 DEF Typed
  <2>2. OwnAddresses'
    <3>1. at' = at /\ dht' = dht
      BY <1>2 DEF LookupSucceeds, LookupFails
    <3>2. \A q \in Peer : addresses'[q] \in {addresses[q], {}, {at[q]}}
      BY <1>2 DEF LookupSucceeds, LookupFails, Typed
    <3> QED
      BY <3>1, <3>2 DEF OwnAddresses, Owned
  <2> QED
    BY <1>2, <2>1, <2>2 DEF LookupSucceeds, LookupFails, Trouble, PathsOfOther, FrameMeaning,
       VerifiedMeansAnswered
<1>3. CASE Restart(p)
  <2>1. Typed'
    BY <1>3, NewControllerType DEF Restart, Typed
  <2>2. OwnAddresses'
    BY <1>3 DEF Restart, OwnAddresses, Owned, Typed
  <2>3. \A q \in Peer : control'[q] = control[q] \/ control'[q] = Control!New
    BY <1>3 DEF Restart, Typed
  <2>4. PathsOfOther'
    <3> SUFFICES ASSUME NEW q \in Peer, NEW a \in Control!Known(control'[q])
                 PROVE  Owner[a] = Other(q) /\ control'[q].token \in {Other(q)} \X Nat
      BY DEF PathsOfOther, Control!Known, Other
    <3>1. control'[q] = control[q]
      BY <2>3, NewControllerType
    <3> QED
      BY <3>1 DEF PathsOfOther
  <2>5. VerifiedMeansAnswered'
    <3>1. answered' = answered
      BY <1>3 DEF Restart
    <3> SUFFICES ASSUME NEW q \in Peer, NEW a \in Control!VerifiedPaths(control'[q])
                 PROVE  <<control'[q].token, a>> \in answered'
      BY Zenon DEF VerifiedMeansAnswered, Control!VerifiedPaths
    <3>2. control'[q] = control[q]
      BY <2>3, NewControllerType
    <3> QED
      BY <3>1, <3>2 DEF VerifiedMeansAnswered
  <2> QED
    BY <1>3, <2>1, <2>2, <2>4, <2>5 DEF Restart, FrameMeaning
<1>4. CASE Move(p)
  <2>1. Typed' /\ OwnAddresses'
    BY <1>4 DEF Move, Typed, OwnAddresses, Owned
  <2> QED
    BY <1>4, <2>1 DEF Move, PathsOfOther, FrameMeaning, VerifiedMeansAnswered
<1> QED
  BY <1>1, <1>2, <1>3, <1>4

\* Taking a record.
LEMMA ListenStep ==
  ASSUME Inv, NEW p \in Peer, NEW n \in 1..Len(dht[Other(p)]), Listen(p, n)
  PROVE  Inv'
<1> DEFINE q == Other(p)
           token == <<q, dht[q][n][1]>>
           list == dht[q][n][2]
<1> USE DEF Inv
<1>1. q \in Peer
  BY OtherPeer
<1>2. token \in AnyToken /\ token \in {q} \X Nat /\ list \in SUBSET Addr /\ Owned(q, list)
  BY <1>1 DEF Typed, OwnAddresses, AnyToken
<1>3. control' = [control EXCEPT ![p] = Control!Updated(@, token, list)]
  BY DEF Listen, NewControl
<1> DEFINE u == Control!Updated(control[p], token, list)
<1>4. control[p] \in [token : AnyToken \cup {None}, status : [Addr -> Control!Status]]
  BY DEF Typed
<1>5. control'[p] = u /\ \A r \in Peer \ {p} : control'[r] = control[r]
  BY <1>3 DEF Typed
<1> HIDE DEF token, list, q
<1>6. /\ u \in [token : AnyToken \cup {None}, status : [Addr -> Control!Status]]
      /\ u.token = token
      /\ Control!Known(u) \subseteq list
      /\ \A a \in Control!VerifiedPaths(u) :
           control[p].token = token /\ a \in Control!VerifiedPaths(control[p])
  BY <1>2, <1>4, UpdatedControl
<1> HIDE DEF u
<1>7. Typed'
  BY <1>3, <1>6, ZenonT(60) DEF Typed, Listen, u
<1>8. OwnAddresses'
  BY DEF OwnAddresses, Owned, Listen
<1>9. PathsOfOther'
  BY <1>2, <1>5, <1>6, ZenonT(60) DEF PathsOfOther, Owned, q
<1>10. VerifiedMeansAnswered'
  BY <1>5, <1>6, SMTT(30) DEF VerifiedMeansAnswered, Listen
<1> QED
  BY <1>7, <1>8, <1>9, <1>10 DEF Listen, FrameMeaning

\* Sending a probe.
LEMMA ProbeStep ==
  ASSUME Inv, NEW p \in Peer, NEW due \in SUBSET Addr, Probe(p, due)
  PROVE  Inv'
<1> USE DEF Inv
<1> DEFINE c == control[p]
           new == {[from |-> at[p], to |-> a, token |-> c.token, hop |-> 0] : a \in due}
<1>1. due # {} /\ due \subseteq Control!Known(c)
  BY DEF Probe
<1>2. c \in [token : AnyToken \cup {None}, status : [Addr -> Control!Status]]
  BY DEF Typed
<1>3. c.token \in AnyToken /\ c.token[1] = Other(p)
  <2>1. c.token \in {Other(p)} \X Nat
    BY <1>1 DEF PathsOfOther
  <2> QED
    BY <2>1, OtherPeer DEF AnyToken
<1>4. \A f \in new : f \in Frame /\ FrameMeaning(f, answered)
  <2> SUFFICES ASSUME NEW a \in due,
                      NEW f, f = [from |-> at[p], to |-> a, token |-> c.token, hop |-> 0]
               PROVE  f \in Frame /\ FrameMeaning(f, answered)
    OBVIOUS
  <2>1. at[p] \in Addr /\ a \in Addr /\ Owner[at[p]] = p /\ p # Other(p)
    BY OtherPeer DEF Typed, OwnAddresses
  <2> HIDE DEF c
  <2>2. f \in Frame
    BY <1>3, <2>1 DEF Frame
  <2>3. IsProbe(f)
    BY <1>3, <2>1 DEF IsProbe
  <2> QED
    BY <2>2, <2>3 DEF FrameMeaning
<1>5. frames' \subseteq frames \cup new
  BY DEF Probe, Sends
<1> DEFINE d == Control!Probed(c, due)
<1>6. /\ d \in [token : AnyToken \cup {None}, status : [Addr -> Control!Status]]
      /\ d.token = c.token
      /\ Control!Known(d) \subseteq Control!Known(c)
      /\ Control!VerifiedPaths(d) \subseteq Control!VerifiedPaths(c)
  BY <1>1, <1>2, ProbedControl
<1>7. control' = [control EXCEPT ![p] = d]
  BY DEF Probe
<1> HIDE DEF d, new
<1>8. Typed'
  BY <1>4, <1>5, <1>6, <1>7, ZenonT(60) DEF Typed, Probe
<1>9. OwnAddresses'
  BY DEF OwnAddresses, Owned, Probe
<1>10. \A q \in Peer : /\ control'[q].token = control[q].token
                       /\ Control!Known(control'[q]) \subseteq Control!Known(control[q])
                       /\ Control!VerifiedPaths(control'[q])
                            \subseteq Control!VerifiedPaths(control[q])
  BY <1>6, <1>7 DEF Typed
<1>11. PathsOfOther'
  <2> SUFFICES ASSUME NEW q \in Peer, NEW a \in Control!Known(control'[q])
               PROVE  Owner[a] = Other(q) /\ control'[q].token \in {Other(q)} \X Nat
    BY DEF PathsOfOther, Control!Known, Other
  <2> QED
    BY <1>10 DEF PathsOfOther
<1>12. answered' = answered
  BY DEF Probe
<1>13. VerifiedMeansAnswered'
  <2> SUFFICES ASSUME NEW q \in Peer, NEW a \in Control!VerifiedPaths(control'[q])
               PROVE  <<control'[q].token, a>> \in answered'
    BY Zenon DEF VerifiedMeansAnswered, Control!VerifiedPaths
  <2> QED
    BY <1>10, <1>12 DEF VerifiedMeansAnswered
<1>14. \A f \in frames' : FrameMeaning(f, answered')
  BY <1>4, <1>5, <1>12 DEF FrameMeaning
<1> QED
  BY <1>8, <1>9, <1>11, <1>13, <1>14

\* Answering a probe: the frame is one, because it came to the token's owner.
LEMMA EchoStep ==
  ASSUME Inv, NEW p \in Peer, NEW f \in frames, Echo(p, f)
  PROVE  Inv'
<1> USE DEF Inv
<1>1. /\ f \in Frame /\ FrameMeaning(f, answered)
      /\ f.to = at[p] /\ f.token = <<p, run[p]>> /\ Owner[at[p]] = p /\ at[p] \in Addr
  BY DEF Echo, IsRequest, LocalToken, Typed, OwnAddresses
<1>2. f.hop = 0 /\ Owner[f.from] # f.token[1]
  BY <1>1 DEF FrameMeaning, IsProbe, IsEcho
<1> DEFINE e == [from |-> at[p], to |-> f.from, token |-> f.token, hop |-> f.hop + 1]
<1>3. answered' = answered \cup {<<f.token, at[p]>>}
  BY DEF Echo
<1>4. e \in Frame /\ FrameMeaning(e, answered')
  <2>1. e \in Frame
    BY <1>1, <1>2 DEF Frame
  <2>2. e.hop = 1 /\ e.to = f.from /\ e.token = f.token /\ e.from = at[p]
    BY <1>2
  <2>3. IsEcho(e, answered')
    BY <1>2, <1>3, <2>2 DEF IsEcho
  <2> QED
    BY <2>1, <2>3 DEF FrameMeaning
<1>5. frames' \subseteq frames \cup {e}
  BY DEF Echo, Sends
<1> HIDE DEF e
<1>6. \A g \in frames' : FrameMeaning(g, answered')
  BY <1>3, <1>4, <1>5, Zenon DEF FrameMeaning, IsEcho
<1>7. Typed'
  BY <1>4, <1>5 DEF Typed, Echo
<1>8. OwnAddresses' /\ PathsOfOther'
  BY SMTT(30) DEF OwnAddresses, Owned, PathsOfOther, Echo
<1>9. VerifiedMeansAnswered'
  BY <1>3 DEF VerifiedMeansAnswered, Echo
<1> QED
  BY <1>6, <1>7, <1>8, <1>9

\* Being answered: the frame is an echo, because it came from the token's owner.
LEMMA AcknowledgeStep ==
  ASSUME Inv, NEW p \in Peer, NEW f \in frames, Acknowledge(p, f)
  PROVE  Inv'
<1> USE DEF Inv
<1> DEFINE c == control[p]
           d == Control!Acknowledged(c, f.from)
<1>1. f \in Frame /\ FrameMeaning(f, answered) /\ f.from \in Addr
  BY DEF Typed, Frame
<1>2. f.token = c.token /\ f.from \in Control!Known(c)
  BY <1>1 DEF Acknowledge, IsAnswer, Control!CanAcknowledge, Control!Known
<1>3. Owner[f.from] = f.token[1]
  BY <1>2 DEF PathsOfOther
<1>4. <<c.token, f.from>> \in answered
  BY <1>1, <1>2, <1>3 DEF FrameMeaning, IsProbe, IsEcho
<1>5. c \in [token : AnyToken \cup {None}, status : [Addr -> Control!Status]]
  BY DEF Typed
<1>6. d = [c EXCEPT !.status[f.from] = "verified"]
  BY DEF Control!Acknowledged
<1>7. /\ d \in [token : AnyToken \cup {None}, status : [Addr -> Control!Status]]
      /\ d.token = c.token
      /\ \A a \in Addr : d.status[a] = IF a = f.from THEN "verified" ELSE c.status[a]
  BY <1>1, <1>5, <1>6 DEF Control!Status
<1> HIDE DEF c, d
<1>8. /\ Control!Known(d) \subseteq Control!Known(c)
      /\ Control!VerifiedPaths(d) \subseteq Control!VerifiedPaths(c) \cup {f.from}
  BY <1>2, <1>7 DEF Control!Known, Control!VerifiedPaths
<1>9. /\ control' = [control EXCEPT ![p] = d]
      /\ UNCHANGED <<run, at, addresses, dht, frames, answered>>
  BY DEF Acknowledge, c, d
<1>10. Typed'
  BY <1>7, <1>9, SMTT(30) DEF Typed
<1>11. OwnAddresses' /\ \A g \in frames' : FrameMeaning(g, answered')
  BY <1>9 DEF OwnAddresses, Owned, FrameMeaning
<1>12. control'[p] = d /\ \A q \in Peer \ {p} : control'[q] = control[q]
  BY <1>9 DEF Typed
<1>13. PathsOfOther'
  <2> SUFFICES ASSUME NEW q \in Peer, NEW a \in Control!Known(control'[q])
               PROVE  Owner[a] = Other(q) /\ control'[q].token \in {Other(q)} \X Nat
    BY DEF PathsOfOther, Control!Known, Other
  <2> QED
    BY <1>7, <1>8, <1>12 DEF PathsOfOther, c
<1>14. VerifiedMeansAnswered'
  <2> SUFFICES ASSUME NEW q \in Peer, NEW a \in Control!VerifiedPaths(control'[q])
               PROVE  <<control'[q].token, a>> \in answered
    BY <1>9 DEF VerifiedMeansAnswered, Control!VerifiedPaths
  <2> QED
    BY <1>4, <1>7, <1>8, <1>12 DEF VerifiedMeansAnswered, c
<1> QED
  BY <1>10, <1>11, <1>13, <1>14

\* Every step of either peer, of the DHT and of the network keeps Inv.
LEMMA NextInv == Inv /\ [Next]_vars => Inv'
<1> SUFFICES ASSUME Inv, [Next]_vars PROVE Inv'
  OBVIOUS
<1>1. ASSUME NEW p \in Peer, NEW n \in 1..Len(dht[Other(p)]), Listen(p, n) PROVE Inv'
  BY <1>1, ListenStep
<1>2. ASSUME NEW p \in Peer, NEW due \in SUBSET Addr, Probe(p, due) PROVE Inv'
  BY <1>2, ProbeStep
<1>3. ASSUME NEW p \in Peer, Handle(p) PROVE Inv'
  BY <1>3, EchoStep, AcknowledgeStep, SMTT(30) DEF Handle
<1>4. CASE UNCHANGED vars
  BY <1>4 DEF vars, Inv, Typed, OwnAddresses, Owned, PathsOfOther, FrameMeaning,
     VerifiedMeansAnswered
<1> QED
  BY <1>1, <1>2, <1>3, <1>4, PeerSteps DEF Next

\* A path is verified only when the run whose token the controller holds has
\* answered from that address, whatever the network delivers and whoever was
\* restarted in between (probe.rs, packet_action).
THEOREM VerifiedByTheRun == Spec => []VerifiedMeansAnswered
<1>1. Inv => VerifiedMeansAnswered
  BY DEF Inv
<1> QED
  BY <1>1, InitInv, NextInv, PTL DEF Spec

\* No echo is ever echoed: the two peers cannot keep a frame going between them
\* (control-plane-probes.md, "cannot create a ping-pong loop").
THEOREM NoPingPong == Spec => []EchoEndsExchange
<1>1. Inv => EchoEndsExchange
  <2> SUFFICES ASSUME Inv, NEW f \in frames PROVE f.hop <= 1
    BY DEF EchoEndsExchange
  <2>1. f.hop \in {0, 1}
    BY ZenonT(60) DEF Inv, FrameMeaning, IsProbe, IsEcho
  <2> QED
    BY <2>1
<1> QED
  BY <1>1, InitInv, NextInv, PTL DEF Spec
=============================================================================
