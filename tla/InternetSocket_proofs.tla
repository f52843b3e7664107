------------------------ MODULE InternetSocket_proofs ------------------------
(***************************************************************************)
(* The socket tasks and the lookup, for queues of every capacity and any   *)
(* number of lookups, datagrams, strays and changes of the public address. *)
(***************************************************************************)
EXTENDS InternetSocket, SequencesExt, TLAPS

Datagram == [number : Nat, dst : Destination, id : Nat]

Outcome ==
  {<<>>, <<"not sent">>, <<"no response">>} \cup ({"undecodable", "address"} \X Nat)

Types ==
  /\ outq \in Seq(Datagram) /\ left \in Seq(Nat) /\ accepted \in Nat
  /\ sender \in [pc : {"idle", "sending", "sleeping", "stopped"}, held : Seq(Datagram),
                 left : Nat]
  /\ asked \in SUBSET Nat /\ responses \in SUBSET Packet
  /\ public \in Nat /\ since \in SUBSET Nat
  /\ sockq \in Seq(Packet) /\ stunq \in Seq(Packet)
  /\ lookup \in [pc : {"idle", "waiting"}, id : Nat, elapsed : Nat, result : Outcome]

\* The sender task holds a datagram while it sends or sleeps, and only then.
Holding ==
  Len(sender.held) = IF sender.pc \in {"sending", "sleeping"} THEN 1 ELSE 0

\* SentInOrder, place by place.
Ordered ==
  sender.pc # "stopped" =>
    /\ accepted = Len(left) + Len(sender.held) + Len(outq)
    /\ \A i \in 1..Len(left) : left[i] = i
    /\ \A i \in 1..Len(sender.held) : sender.held[i].number = Len(left) + i
    /\ \A i \in 1..Len(outq) : outq[i].number = Len(left) + Len(sender.held) + i

\* No request is ahead of the lookup: what is queued, held, or on its way to
\* the server has the id of this lookup or of an earlier one.
Requests ==
  /\ lookup.id <= MaxLookups
  /\ lookup.pc = "waiting" => lookup.id > 0
  /\ lookup.id > 0 => public \in since
  /\ \A d \in ToSet(outq) \cup ToSet(sender.held) : d.id <= lookup.id
  /\ asked \subseteq 1..lookup.id

\* An answer that has the id of this lookup was given after the lookup began.
Current(packet) ==
  packet.id \in 1..MaxLookups =>
    /\ packet.id <= lookup.id
    /\ packet.id = lookup.id /\ packet.body # <<>> => packet.body[1] \in since

Answers ==
  /\ \A packet \in responses \cup ToSet(sockq) \cup ToSet(stunq) : Current(packet)
  /\ \A packet \in ToSet(stunq) : packet.len > HEADER_LEN

Inv == Types /\ Holding /\ Ordered /\ Requests /\ Answers
       /\ AddressIsCurrent /\ StrayNeverEndsLookup

-----------------------------------------------------------------------------
\* try_send adds the message at the end, or nothing.
LEMMA TrySendFacts ==
  ASSUME NEW S, NEW queue \in Seq(S), NEW message \in S
  PROVE  /\ TrySend(queue, message) \in Seq(S)
         /\ ToSet(TrySend(queue, message)) \subseteq ToSet(queue) \cup {message}
  BY DEF TrySend, ToSet

\* Taking the first message leaves messages that were there.
LEMMA TailFacts ==
  ASSUME NEW S, NEW queue \in Seq(S), queue # <<>>
  PROVE  /\ Tail(queue) \in Seq(S) /\ Head(queue) \in S
         /\ Head(queue) \in ToSet(queue)
         /\ ToSet(Tail(queue)) \subseteq ToSet(queue)
  BY DEF ToSet

\* The element of a sequence of length one.
LEMMA OneElement ==
  ASSUME NEW S, NEW queue \in Seq(S), Len(queue) = 1
  PROVE  queue[1] \in S
<1>1. queue \in [1..Len(queue) -> S]
  OBVIOUS
<1>2. 1 \in 1..Len(queue)
  OBVIOUS
<1> QED
  BY <1>1, <1>2

\* The first of one.
LEMMA First ==
  ASSUME NEW element
  PROVE  <<element>>[1] = element
  OBVIOUS

\* The initial state satisfies the invariant.
LEMMA InitInv == Init => Inv
<1> SUFFICES ASSUME Init PROVE Inv
  OBVIOUS
<1>1. Types
  BY DEF Init, Types, Outcome
<1>2. Holding /\ Ordered
  BY DEF Init, Holding, Ordered
<1>3. Requests /\ Answers
  BY SocketAssumption DEF Init, Requests, Answers, ToSet
<1>4. AddressIsCurrent /\ StrayNeverEndsLookup
  BY DEF Init, AddressIsCurrent, StrayNeverEndsLookup
<1> QED
  BY <1>1, <1>2, <1>3, <1>4 DEF Inv

-----------------------------------------------------------------------------
\* A datagram is offered to the sender, for this lookup, for an earlier one, or
\* for another task.
LEMMA OfferStep ==
  ASSUME Types, Holding, Ordered, sender.pc # "stopped",
         NEW dst \in Destination, NEW id \in Nat, Offer(dst, id)
  PROVE  /\ Ordered'
         /\ outq' \in Seq(Datagram) /\ accepted' \in Nat
         /\ UNCHANGED <<sender, asked, left>>
         /\ \A d \in ToSet(outq') : d \in ToSet(outq) \/ d.id = id
<1> DEFINE d == [number |-> accepted + 1, dst |-> dst, id |-> id]
<1>1. d \in Datagram /\ d.id = id /\ d.number = accepted + 1
  BY DEF Types, Datagram
<1>2. /\ outq' = TrySend(outq, d) /\ accepted' = accepted + Len(outq') - Len(outq)
      /\ UNCHANGED <<sender, asked, left>>
  BY DEF Offer
<1> HIDE DEF d
<1>3. CASE outq' = outq
  BY <1>2, <1>3 DEF Types, Ordered
<1>4. CASE outq' = Append(outq, d)
  <2>1. outq \in Seq(Datagram) /\ accepted \in Nat
    BY DEF Types
  <2>2. outq' \in Seq(Datagram) /\ Len(outq') = Len(outq) + 1
    BY <1>1, <1>4, <2>1
  <2>3. /\ \A i \in 1..Len(outq) : outq'[i] = outq[i]
        /\ outq'[Len(outq) + 1] = d
    BY <1>1, <1>4, <2>1
  <2>4. accepted' = accepted + 1
    BY <1>2, <2>1, <2>2
  <2>5. Ordered'
    <3>1. accepted = Len(left) + Len(sender.held) + Len(outq)
      BY DEF Ordered
    <3>2. \A i \in 1..Len(outq) : outq[i].number = Len(left) + Len(sender.held) + i
      BY DEF Ordered
    <3>3. Len(left) \in Nat /\ Len(sender.held) \in Nat /\ Len(outq) \in Nat
      BY DEF Types
    <3>4. accepted + 1 = Len(left) + Len(sender.held) + (Len(outq) + 1)
      <4>1. \A l, m, n \in Nat : l + m + n + 1 = l + m + (n + 1)
        OBVIOUS
      <4>2. Len(left) + Len(sender.held) + Len(outq) + 1
              = Len(left) + Len(sender.held) + (Len(outq) + 1)
        BY <3>3, <4>1, ZenonT(60)
      <4> QED
        BY <3>1, <4>2, Zenon
    <3>5. ASSUME NEW i \in 1..Len(outq')
          PROVE  outq'[i].number = Len(left) + Len(sender.held) + i
      <4>1. CASE i \in 1..Len(outq)
        BY <2>3, <3>2, <4>1
      <4>2. CASE i = Len(outq) + 1
        BY <1>1, <2>3, <3>4, <4>2, Zenon
      <4> QED
        BY <2>2, <3>3, <3>5, <4>1, <4>2
    <3> QED
      BY <1>2, <2>2, <2>4, <3>4, <3>5, Zenon DEF Ordered
  <2>6. \A e \in ToSet(outq') : e \in ToSet(outq) \/ e = d
    BY <1>1, <1>2, <2>1, TrySendFacts
  <2> QED
    BY <1>1, <1>2, <2>1, <2>2, <2>4, <2>5, <2>6
<1> QED
  BY <1>2, <1>3, <1>4 DEF TrySend

\* What the sender task does leaves the rest alone.
LEMMA SenderFrame ==
  ASSUME SenderTakes \/ SenderSends \/ SenderWakes
  PROVE  UNCHANGED <<accepted, responses, public, since, sockq, stunq, lookup>>
  BY DEF SenderTakes, SenderSends, SenderWakes, inVars, netVars

\* The sender task takes a datagram.
LEMMA TakesStep ==
  ASSUME Types, Holding, Ordered, Requests, SenderTakes
  PROVE  Types' /\ Holding' /\ Ordered' /\ Requests'
<1>1. /\ sender.pc = "idle" /\ outq # <<>>
      /\ sender' = [pc |-> "sending", held |-> <<Head(outq)>>, left |-> 0]
      /\ outq' = Tail(outq) /\ UNCHANGED <<asked, left>>
  BY DEF SenderTakes
<1>2. /\ outq \in Seq(Datagram) /\ outq' \in Seq(Datagram) /\ Head(outq) \in Datagram
      /\ Head(outq) \in ToSet(outq) /\ ToSet(outq') \subseteq ToSet(outq)
  BY <1>1, TailFacts DEF Types
<1>3. sender'.pc = "sending" /\ sender'.held = <<Head(outq)>>
  BY <1>1
<1>4. Types'
  <2>1. \A d \in Datagram : <<d>> \in Seq(Datagram)
    OBVIOUS
  <2>2. sender' \in [pc : {"idle", "sending", "sleeping", "stopped"}, held : Seq(Datagram),
                     left : Nat]
    BY <1>1, <1>2, <2>1
  <2> QED
    BY <1>1, <1>2, <2>2, SenderFrame DEF Types
<1>5. Holding'
  BY <1>3 DEF Holding
<1>6. Requests'
  <2>1. ToSet(sender'.held) = {Head(outq)}
    BY <1>3 DEF ToSet
  <2> QED
    BY <1>1, <1>2, <2>1, SenderFrame DEF Requests
<1>7. Ordered'
  <2>1. Len(sender.held) = 0 /\ Len(sender'.held) = 1 /\ sender'.held[1] = Head(outq)
    BY <1>1, <1>3 DEF Holding
  <2>2. Len(outq) \in Nat /\ Len(left) \in Nat /\ accepted \in Nat
    BY DEF Types
  <2>3. Len(outq) = Len(outq') + 1 /\ Len(outq') \in Nat /\ Head(outq) = outq[1]
    BY <1>1, <1>2
  <2>4. \A i \in 1..Len(outq') : outq'[i] = outq[i + 1]
    BY <1>1, <1>2
  <2>5. /\ accepted = Len(left) + Len(outq)
        /\ \A i \in 1..Len(left) : left[i] = i
        /\ \A i \in 1..Len(outq) : outq[i].number = Len(left) + i
    <3>1. \A l, n \in Nat : l + 0 = l /\ l + 0 + n = l + n
      OBVIOUS
    <3>2. /\ Len(left) + Len(sender.held) = Len(left)
          /\ Len(left) + Len(sender.held) + Len(outq) = Len(left) + Len(outq)
      BY <2>1, <2>2, <3>1
    <3> QED
      BY <1>1, <3>2, Zenon DEF Ordered
  <2>6. accepted = Len(left) + 1 + Len(outq')
    <3>1. \A l, m, n \in Nat : m = n + 1 => l + m = l + 1 + n
      OBVIOUS
    <3>2. Len(left) + Len(outq) = Len(left) + 1 + Len(outq')
      BY <2>2, <2>3, <3>1
    <3> QED
      BY <2>5, <3>2
  <2>7. sender'.held[1].number = Len(left) + 1
    BY <2>1, <2>2, <2>3, <2>5
  <2>8. ASSUME NEW i \in 1..Len(outq')
        PROVE  outq'[i].number = Len(left) + 1 + i
    <3>1. \A l, m, n \in Nat : \A j \in 1..n : m = n + 1 =>
            j + 1 \in 1..m /\ l + (j + 1) = l + 1 + j
      OBVIOUS
    <3>2. i + 1 \in 1..Len(outq) /\ Len(left) + (i + 1) = Len(left) + 1 + i
      BY <2>2, <2>3, <3>1
    <3>3. outq'[i].number = outq[i + 1].number
      BY <2>4
    <3> QED
      BY <2>5, <3>2, <3>3
  <2> QED
    BY <1>1, <2>1, <2>5, <2>6, <2>7, <2>8, SenderFrame DEF Ordered
<1> QED
  BY <1>4, <1>5, <1>6, <1>7

\* The sender task hands its datagram to the network.
LEMMA LeavesStep ==
  ASSUME Types, Holding, Ordered, sender.pc = "sending",
         left' = Append(left, sender.held[1].number), UNCHANGED <<outq, accepted>>,
         sender' = [pc |-> "idle", held |-> <<>>, left |-> 0]
  PROVE  left' \in Seq(Nat) /\ Holding' /\ Ordered'
<1>1. Len(sender.held) = 1 /\ sender.held \in Seq(Datagram)
  BY DEF Holding, Types
<1>2. sender.held[1] \in Datagram /\ sender.held[1].number \in Nat
  BY <1>1, OneElement, Zenon DEF Datagram
<1>3. /\ left' \in Seq(Nat) /\ Len(left') = Len(left) + 1 /\ Len(left) \in Nat
      /\ \A i \in 1..Len(left) : left'[i] = left[i]
      /\ left'[Len(left) + 1] = sender.held[1].number
  BY <1>2 DEF Types
<1>4. Len(sender'.held) = 0 /\ sender'.pc = "idle"
  OBVIOUS
<1>5. Ordered'
  <2>1. sender.held[1].number = Len(left) + 1
    BY <1>1 DEF Ordered
  <2>2. /\ accepted = Len(left) + 1 + Len(outq)
        /\ \A i \in 1..Len(left) : left[i] = i
        /\ \A i \in 1..Len(outq) : outq[i].number = Len(left) + 1 + i
    BY <1>1 DEF Ordered
  <2>3. Len(left') + Len(sender'.held) = Len(left) + 1
    BY <1>3, <1>4
  <2>4. \A i \in 1..Len(left') : left'[i] = i
    BY <1>3, <2>1, <2>2
  <2> QED
    BY <1>3, <1>4, <2>2, <2>3, <2>4 DEF Ordered
<1> QED
  BY <1>3, <1>4, <1>5 DEF Holding

\* send_to: the datagram leaves, the task sleeps, or the task ends.
LEMMA SendsStep ==
  ASSUME Types, Holding, Ordered, Requests, SenderSends
  PROVE  Types' /\ Holding' /\ Ordered' /\ Requests'
<1> DEFINE d == sender.held[1]
<1>1. sender.pc = "sending" /\ UNCHANGED <<accepted, responses, public, since, sockq, stunq, lookup>>
  BY SenderFrame DEF SenderSends
<1>2. Len(sender.held) = 1 /\ sender.held \in Seq(Datagram)
  BY <1>1 DEF Holding, Types
<1>3. d \in Datagram /\ d.number \in Nat /\ d.id \in Nat /\ d \in ToSet(sender.held)
  <2>1. d \in Datagram
    BY <1>2, OneElement
  <2> QED
    BY <1>2, <2>1 DEF Datagram, ToSet
<1>4. CASE /\ left' = Append(left, d.number)
           /\ asked' = IF d.id = 0 THEN asked ELSE asked \cup {d.id}
           /\ sender' = [pc |-> "idle", held |-> <<>>, left |-> 0]
           /\ UNCHANGED outq
  <2>1. left' \in Seq(Nat) /\ Holding' /\ Ordered'
    BY <1>1, <1>4, LeavesStep
  <2>2. d.id <= lookup.id
    BY <1>3 DEF Requests
  <2>3. asked' \subseteq 1..lookup.id
    <3>1. lookup.id \in Nat /\ asked \subseteq 1..lookup.id
      BY DEF Types, Requests
    <3>2. \A m, n \in Nat : m # 0 /\ m <= n => m \in 1..n
      OBVIOUS
    <3>3. d.id # 0 => d.id \in 1..lookup.id
      BY <1>3, <2>2, <3>1, <3>2
    <3> QED
      BY <1>4, <3>1, <3>3, Zenon
  <2>4. sender'.held = <<>> /\ ToSet(sender'.held) = {}
    BY <1>4 DEF ToSet
  <2>5. Requests'
    BY <1>1, <1>4, <2>3, <2>4 DEF Requests
  <2>6. asked' \in SUBSET Nat
    BY <1>3, <1>4, Zenon DEF Types
  <2>7. Types'
    BY <1>1, <1>4, <2>1, <2>6 DEF Types
  <2> QED
    BY <2>1, <2>5, <2>7
<1>5. CASE Retry /\ UNCHANGED <<left, asked>>
  <2>1. /\ sender' = [sender EXCEPT !.pc = "sleeping", !.left = RetryDelay]
        /\ UNCHANGED outq /\ RetryDelay \in Nat
    BY <1>5, SocketAssumption DEF Retry
  <2>2. sender'.held = sender.held /\ sender'.pc = "sleeping"
    BY <2>1 DEF Types
  <2>3. Types'
    BY <1>1, <1>5, <2>1, Zenon DEF Types
  <2> QED
    BY <1>1, <1>2, <1>5, <2>1, <2>2, <2>3, Zenon DEF Holding, Ordered, Requests
<1>6. CASE /\ sender' = [pc |-> "stopped", held |-> <<>>, left |-> 0]
           /\ outq' = <<>>
           /\ UNCHANGED <<left, asked>>
  <2>1. sender'.held = <<>> /\ sender'.pc = "stopped" /\ ToSet(sender'.held) = {} /\ ToSet(outq') = {}
    BY <1>6 DEF ToSet
  <2>2. Types'
    BY <1>1, <1>6 DEF Types
  <2>3. Holding' /\ Ordered'
    BY <2>1 DEF Holding, Ordered
  <2>4. Requests'
    BY <1>1, <1>6, <2>1 DEF Requests
  <2> QED
    BY <2>2, <2>3, <2>4
<1> QED
  BY <1>4, <1>5, <1>6 DEF SenderSends

\* The sender task wakes.
LEMMA WakesStep ==
  ASSUME Types, Holding, Ordered, Requests, SenderWakes
  PROVE  Types' /\ Holding' /\ Ordered' /\ Requests'
<1>1. /\ sender' = [sender EXCEPT !.pc = "sending"] /\ sender.pc = "sleeping"
      /\ UNCHANGED <<outq, asked, accepted, left, responses, public, since, sockq, stunq, lookup>>
  BY SenderFrame DEF SenderWakes, Wake
<1>2. sender'.held = sender.held /\ sender'.pc = "sending"
  BY <1>1 DEF Types
<1>3. Types'
  BY <1>1, Zenon DEF Types
<1> QED
  BY <1>1, <1>2, <1>3, Zenon DEF Holding, Ordered, Requests

\* No packet is new: what was true of the packets and of the lookup still is.
LEMMA Quiet ==
  ASSUME Answers, AddressIsCurrent, StrayNeverEndsLookup, UNCHANGED <<lookup, since>>,
         responses' \cup ToSet(sockq') \cup ToSet(stunq')
           \subseteq responses \cup ToSet(sockq) \cup ToSet(stunq),
         \A packet \in ToSet(stunq') : packet.len > HEADER_LEN
  PROVE  Answers' /\ AddressIsCurrent' /\ StrayNeverEndsLookup'
  BY DEF Answers, Current, AddressIsCurrent, StrayNeverEndsLookup, HEADER_LEN

\* Nothing of what is sent changes.
LEMMA OutFrame ==
  ASSUME Holding, Ordered, Requests, UNCHANGED outVars, UNCHANGED <<lookup, public, since>>
  PROVE  Holding' /\ Ordered' /\ Requests'
  BY Zenon DEF Holding, Ordered, Requests, outVars

\* The steps of the sender task.
LEMMA SenderSteps ==
  ASSUME Inv, SenderTakes \/ SenderSends \/ SenderWakes
  PROVE  Inv'
<1>1. Types' /\ Holding' /\ Ordered' /\ Requests'
  BY TakesStep, SendsStep, WakesStep DEF Inv
<1>2. UNCHANGED <<responses, since, sockq, stunq, lookup>>
  BY SenderFrame
<1>3. Answers' /\ AddressIsCurrent' /\ StrayNeverEndsLookup'
  BY <1>2, Quiet DEF Inv, Answers
<1> QED
  BY <1>1, <1>3 DEF Inv

\* Another task offers a datagram.
LEMMA OtherSendsStep ==
  ASSUME Inv, OtherSends
  PROVE  Inv'
<1>1. PICK dst \in Destination : Offer(dst, 0)
  BY DEF OtherSends
<1>2. UNCHANGED <<responses, public, since, sockq, stunq, lookup>> /\ sender.pc # "stopped"
  BY DEF OtherSends, inVars, netVars
<1>3. /\ Ordered' /\ outq' \in Seq(Datagram) /\ accepted' \in Nat
      /\ UNCHANGED <<sender, asked, left>>
      /\ \A d \in ToSet(outq') : d \in ToSet(outq) \/ d.id = 0
  BY <1>1, <1>2, OfferStep DEF Inv
<1>4. Types'
  BY <1>2, <1>3 DEF Inv, Types
<1>5. Holding'
  BY <1>3 DEF Inv, Holding
<1>6. Requests'
  <2>1. 0 <= lookup.id
    BY DEF Inv, Types
  <2> QED
    BY <1>2, <1>3, <2>1 DEF Inv, Requests
<1>7. Answers' /\ AddressIsCurrent' /\ StrayNeverEndsLookup'
  BY <1>2, Quiet DEF Inv, Answers
<1> QED
  BY <1>3, <1>4, <1>5, <1>6, <1>7 DEF Inv

\* The server answers a request with the address of this moment, or mangled.
LEMMA ServerStep ==
  ASSUME Inv, ServerAnswers
  PROVE  Inv'
<1>1. PICK id \in asked, body \in {<<public>>, <<>>} :
        responses' = responses \cup {Response(id, body)} /\ asked' = asked \ {id}
  BY DEF ServerAnswers
<1>2. UNCHANGED <<outq, sender, accepted, left, public, lookup, since, sockq, stunq>>
  BY DEF ServerAnswers, inVars
<1>3. id \in 1..lookup.id /\ id \in Nat /\ public \in since /\ body \in Seq(Nat)
      /\ (body # <<>> => body[1] = public)
  <2>1. public \in Nat /\ lookup.id \in Nat /\ asked \subseteq 1..lookup.id
    BY DEF Inv, Types, Requests
  <2>2. id \in 1..lookup.id /\ id \in Nat /\ lookup.id > 0
    BY <1>1, <2>1
  <2>3. public \in since
    BY <2>2 DEF Inv, Requests
  <2>4. body \in Seq(Nat) /\ (body # <<>> => body[1] = public)
    <3>1. CASE body = <<>>
      BY <3>1
    <3>2. CASE body = <<public>>
      BY <2>1, <3>2
    <3> QED
      BY <1>1, <3>1, <3>2
  <2> QED
    BY <2>2, <2>3, <2>4
<1>4. Response(id, body) \in Packet /\ Response(id, body).id = id /\ Response(id, body).body = body
  <2>1. [Server EXCEPT !.mapped = TRUE] \in [host : {"server", "other"}, mapped : BOOLEAN]
    <3>1. Server \in [host : {"server", "other"}, mapped : BOOLEAN]
      BY DEF Server
    <3> QED
      BY <3>1, Zenon
  <2> HIDE DEF Server
  <2> QED
    BY <1>3, <2>1 DEF Response, Packet
<1>5. Types'
  BY <1>1, <1>2, <1>4 DEF Inv, Types
<1>6. Holding' /\ Ordered'
  BY <1>2, Zenon DEF Inv, Holding, Ordered
<1>7. Requests'
  BY <1>1, <1>2 DEF Inv, Requests
<1>8. Current(Response(id, body))
  BY <1>3, <1>4 DEF Current
<1>9. Answers'
  BY <1>1, <1>2, <1>8 DEF Inv, Answers, Current
<1> QED
  BY <1>2, <1>5, <1>6, <1>7, <1>9 DEF Inv, AddressIsCurrent, StrayNeverEndsLookup

\* The public address changes, or the routes do.
LEMMA NetworkSteps ==
  ASSUME Inv, PublicChanges \/ RouteChanges
  PROVE  Inv'
<1>1. /\ UNCHANGED outVars /\ UNCHANGED <<responses, sockq, stunq, lookup>>
      /\ public' \in Nat /\ since' \in SUBSET Nat /\ since \subseteq since'
      /\ (public \in since => public' \in since')
  <2>1. public \in Nat /\ since \in SUBSET Nat
    BY DEF Inv, Types
  <2>2. CASE PublicChanges
    <3>1. public' = public + 1 /\ since' = since \cup {public'}
      BY <2>2 DEF PublicChanges
    <3>2. public' \in Nat
      BY <2>1, <3>1
    <3>3. UNCHANGED outVars /\ UNCHANGED <<responses, sockq, stunq, lookup>>
      BY <2>2 DEF PublicChanges, inVars
    <3> QED
      BY <2>1, <3>1, <3>2, <3>3, Zenon
  <2>3. CASE RouteChanges
    BY <2>1, <2>3 DEF RouteChanges, inVars
  <2> QED
    BY <2>2, <2>3
<1>2. Types'
  BY <1>1 DEF Inv, Types, outVars
<1>3. Holding' /\ Ordered' /\ Requests'
  BY <1>1, Zenon DEF Inv, Holding, Ordered, Requests, outVars
<1>4. Answers'
  BY <1>1, Zenon DEF Inv, Answers, Current
<1>5. AddressIsCurrent' /\ StrayNeverEndsLookup'
  BY <1>1, Zenon DEF Inv, AddressIsCurrent, StrayNeverEndsLookup
<1> QED
  BY <1>2, <1>3, <1>4, <1>5 DEF Inv

\* The receiver task receives an answer or a datagram of somebody else.
LEMMA ReceivesStep ==
  ASSUME Inv, ReceiverReceives
  PROVE  Inv'
<1>1. PICK packet \in responses \cup Wild :
        sockq' = TrySend(sockq, packet) /\ responses' \in {responses, responses \ {packet}}
  BY DEF ReceiverReceives
<1>2. UNCHANGED outVars /\ UNCHANGED <<stunq, public, lookup, since>>
  BY DEF ReceiverReceives
<1>3. packet \in Packet /\ responses' \subseteq responses
  BY <1>1, SocketAssumption DEF Inv, Types
<1>4. Current(packet)
  BY SocketAssumption DEF Inv, Answers, Current
<1>5. sockq' \in Seq(Packet) /\ ToSet(sockq') \subseteq ToSet(sockq) \cup {packet}
  BY <1>1, <1>3, TrySendFacts DEF Inv, Types
<1>6. Types'
  BY <1>2, <1>3, <1>5 DEF Inv, Types, outVars
<1>7. Holding' /\ Ordered' /\ Requests'
  BY <1>2, OutFrame DEF Inv
<1>8. Answers'
  BY <1>2, <1>3, <1>4, <1>5 DEF Inv, Answers, Current
<1> QED
  BY <1>2, <1>6, <1>7, <1>8 DEF Inv, AddressIsCurrent, StrayNeverEndsLookup

\* The router lets into the STUN queue only what is longer than a header.
LEMMA RoutesStep ==
  ASSUME Inv, RouterRoutes
  PROVE  Inv'
<1> DEFINE packet == [Head(sockq) EXCEPT !.source = Normalize(@)]
<1>1. /\ sockq # <<>> /\ sockq' = Tail(sockq)
      /\ stunq' = IF Classify(packet) = "Stun" THEN TrySend(stunq, packet) ELSE stunq
      /\ UNCHANGED outVars /\ UNCHANGED <<responses, public, lookup, since>>
  BY DEF RouterRoutes, netVars
<1>2. /\ sockq' \in Seq(Packet) /\ Head(sockq) \in Packet /\ Head(sockq) \in ToSet(sockq)
      /\ ToSet(sockq') \subseteq ToSet(sockq)
  BY <1>1, TailFacts DEF Inv, Types
<1>3. /\ packet \in Packet /\ packet.id = Head(sockq).id /\ packet.body = Head(sockq).body
  <2>1. Normalize(Head(sockq).source) \in [host : {"server", "other"}, mapped : BOOLEAN]
    BY <1>2, Zenon DEF Packet, Normalize
  <2> QED
    BY <1>2, <2>1, Zenon DEF Packet
<1> HIDE DEF packet
<1>4. Current(packet)
  BY <1>2, <1>3 DEF Inv, Answers, Current
<1>5. /\ stunq' \in Seq(Packet) /\ ToSet(stunq') \subseteq ToSet(stunq) \cup {packet}
      /\ (Classify(packet) # "Stun" => stunq' = stunq)
  BY <1>1, <1>3, TrySendFacts, Zenon DEF Inv, Types
<1>6. Classify(packet) = "Stun" => packet.len > HEADER_LEN
  BY DEF Classify
<1>7. Types'
  BY <1>1, <1>2, <1>5 DEF Inv, Types, outVars
<1>8. Holding' /\ Ordered' /\ Requests'
  BY <1>1, OutFrame, SMTT(30) DEF Inv
<1>9. Answers'
  BY <1>1, <1>2, <1>4, <1>5, <1>6 DEF Inv, Answers, Current, HEADER_LEN
<1> QED
  BY <1>1, <1>7, <1>8, <1>9 DEF Inv, AddressIsCurrent, StrayNeverEndsLookup

\* Steps that touch nothing the invariant speaks of.
LEMMA OtherSteps ==
  ASSUME Inv, UNCHANGED outVars,
         UNCHANGED <<responses, public, sockq, stunq, lookup, since>>
  PROVE  Inv'
<1>1. Types'
  BY DEF Inv, Types, outVars
<1>2. Holding' /\ Ordered' /\ Requests'
  BY OutFrame DEF Inv
<1>3. Answers' /\ AddressIsCurrent' /\ StrayNeverEndsLookup'
  BY Quiet DEF Inv, Answers
<1> QED
  BY <1>1, <1>2, <1>3 DEF Inv

\* A lookup begins with an id no datagram has.
LEMMA StartsStep ==
  ASSUME Inv, LookupStarts
  PROVE  Inv'
<1> DEFINE id == lookup.id + 1
<1>1. /\ since' = {public} /\ lookup.id < MaxLookups
      /\ UNCHANGED <<responses, public, sockq, stunq>>
  BY Zenon DEF LookupStarts, inVars, netVars
<1>2. /\ lookup.id \in Nat /\ MaxLookups \in Nat /\ public \in Nat /\ lookup.elapsed \in Nat
  BY SocketAssumption DEF Inv, Types
<1>3. id \in Nat /\ lookup.id <= id /\ id > 0 /\ id <= MaxLookups /\ lookup.id < id
  BY <1>1, <1>2
<1>4. /\ lookup'.id = id /\ lookup'.result \in {<<>>, <<"not sent">>}
      /\ lookup' \in [pc : {"idle", "waiting"}, id : Nat, elapsed : Nat, result : Outcome]
  <2>1. CASE lookup' = [Returns(<<"not sent">>) EXCEPT !.id = id]
    <3>1. Returns(<<"not sent">>) \in [pc : {"idle", "waiting"}, id : Nat, elapsed : Nat, result : Outcome]
          /\ Returns(<<"not sent">>).result = <<"not sent">>
      BY Zenon DEF Returns, Inv, Types, Outcome
    <3> QED
      BY <1>3, <2>1, <3>1, Zenon
  <2>2. CASE lookup' = [pc |-> "waiting", id |-> id, elapsed |-> 0, result |-> <<>>]
    BY <1>3, <2>2 DEF Outcome
  <2> QED
    BY <2>1, <2>2, Zenon DEF LookupStarts
<1>5. /\ Ordered' /\ outq' \in Seq(Datagram) /\ accepted' \in Nat
      /\ UNCHANGED <<sender, asked, left>>
      /\ \A d \in ToSet(outq') : d \in ToSet(outq) \/ d.id = id
  <2>1. CASE UNCHANGED outVars
    BY <2>1 DEF Inv, Types, Ordered, outVars
  <2>2. CASE sender.pc # "stopped" /\ Offer("server", id)
    <3>1. "server" \in Destination
      BY DEF Destination
    <3> QED
      BY <1>3, <2>2, <3>1, OfferStep DEF Inv
  <2> QED
    BY <2>1, <2>2, Zenon DEF LookupStarts
<1> HIDE DEF id
<1>6. Types'
  BY <1>1, <1>2, <1>4, <1>5, Zenon DEF Inv, Types
<1>7. Holding'
  BY <1>5 DEF Inv, Holding
<1>8. Requests'
  <2>1. asked' \subseteq 1..id
    BY <1>2, <1>3, <1>5 DEF Inv, Requests
  <2>2. \A d \in ToSet(outq) \cup ToSet(sender.held) : d.id <= lookup.id
    BY DEF Inv, Requests
  <2>3. ASSUME NEW d \in ToSet(outq') \cup ToSet(sender'.held)
        PROVE  d.id <= id
    <3>1. CASE d.id = id
      BY <1>3, <3>1
    <3>2. CASE d \in ToSet(outq) \cup ToSet(sender.held)
      <4>1. d \in Datagram
        BY <3>2 DEF Inv, Types, ToSet
      <4>2. d.id \in Nat
        BY <4>1 DEF Datagram
      <4> QED
        BY <1>2, <1>3, <2>2, <3>2, <4>2
    <3> QED
      BY <1>5, <3>1, <3>2
  <2> QED
    BY <1>1, <1>3, <1>4, <2>1, <2>3, Zenon DEF Requests
<1>9. Answers'
  <2>1. ASSUME NEW packet \in responses' \cup ToSet(sockq') \cup ToSet(stunq')
        PROVE  Current(packet)'
    <3>1. packet \in responses \cup ToSet(sockq) \cup ToSet(stunq)
      BY <1>1
    <3>2. Current(packet)
      BY <3>1 DEF Inv, Answers
    <3>3. packet.id \in 1..MaxLookups => packet.id < id /\ packet.id <= id /\ packet.id # id
      BY <1>2, <1>3, <3>2 DEF Current
    <3> QED
      BY <1>4, <3>3, Zenon DEF Current
  <2> QED
    BY <1>1, <2>1 DEF Inv, Answers, HEADER_LEN
<1>10. AddressIsCurrent' /\ StrayNeverEndsLookup'
  <2>1. lookup'.result = <<>> \/ lookup'.result[1] = "not sent"
    BY <1>4, First, Zenon
  <2> QED
    BY <2>1, Zenon DEF AddressIsCurrent, StrayNeverEndsLookup
<1> QED
  BY <1>5, <1>6, <1>7, <1>8, <1>9, <1>10 DEF Inv

\* A lookup that returns, or goes on waiting, asks for nothing new.
LEMMA LookupFrame ==
  ASSUME Inv, UNCHANGED outVars, UNCHANGED <<public, since>>, UNCHANGED lookup.id,
         lookup'.pc = "waiting" => lookup.pc = "waiting"
  PROVE  Holding' /\ Ordered' /\ Requests'
<1>1. lookup'.id = lookup.id
  OBVIOUS
<1> QED
  BY <1>1, Zenon DEF Inv, Holding, Ordered, Requests, outVars

\* The lookup takes a datagram from its queue.
LEMMA LookupReceivesStep ==
  ASSUME Inv, LookupReceives
  PROVE  Inv'
<1> DEFINE packet == Head(stunq)
<1>1. /\ lookup.pc = "waiting" /\ stunq # <<>> /\ stunq' = Tail(stunq)
      /\ UNCHANGED outVars /\ UNCHANGED <<responses, public, sockq, since>>
  BY DEF LookupReceives, netVars
<1>2. /\ stunq' \in Seq(Packet) /\ packet \in Packet /\ packet \in ToSet(stunq)
      /\ ToSet(stunq') \subseteq ToSet(stunq)
  BY <1>1, TailFacts DEF Inv, Types
<1> HIDE DEF packet
<1>3. packet.len \in Nat /\ packet.id \in Nat /\ packet.body \in Seq(Nat)
  BY <1>2 DEF Packet
<1>4. packet.len > HEADER_LEN /\ Current(packet)
  BY <1>2 DEF Inv, Answers
<1>5. lookup.id \in 1..MaxLookups
  <2>1. lookup.id \in Nat
    BY DEF Inv, Types
  <2>2. lookup.id > 0 /\ lookup.id <= MaxLookups
    BY <1>1 DEF Inv, Requests
  <2>3. MaxLookups \in Nat
    BY SocketAssumption
  <2> QED
    BY <2>1, <2>2, <2>3
<1>6. \/ lookup' = lookup
      \/ lookup' = Returns(<<"undecodable", packet.id>>) /\ packet.id = lookup.id
      \/ /\ lookup' = Returns(<<"address", packet.body[1]>>)
         /\ packet.id = lookup.id /\ packet.body # <<>>
  <2>1. Decode(lookup.id, packet) # "foreign" => packet.id = lookup.id
    BY <1>3, <1>4 DEF Decode, HEADER_LEN
  <2>2. Decode(lookup.id, packet) \notin {"foreign", "error"} => packet.body # <<>>
    BY DEF Decode
  <2> QED
    BY <2>1, <2>2 DEF LookupReceives, WaitsAgain, packet
<1>7. /\ lookup' \in [pc : {"idle", "waiting"}, id : Nat, elapsed : Nat, result : Outcome]
      /\ lookup'.id = lookup.id
      /\ AddressIsCurrent' /\ StrayNeverEndsLookup'
  <2>1. CASE lookup' = lookup
    BY <1>1, <2>1 DEF Inv, Types, AddressIsCurrent, StrayNeverEndsLookup
  <2>2. CASE lookup' = Returns(<<"undecodable", packet.id>>) /\ packet.id = lookup.id
    <3>1. <<"undecodable", packet.id>> \in Outcome
      BY <1>3 DEF Outcome
    <3>2. /\ lookup' \in [pc : {"idle", "waiting"}, id : Nat, elapsed : Nat, result : Outcome]
          /\ lookup'.id = lookup.id /\ lookup'.result = <<"undecodable", packet.id>>
      BY <2>2, <3>1, Zenon DEF Returns, Inv, Types
    <3> QED
      BY <2>2, <3>2 DEF AddressIsCurrent, StrayNeverEndsLookup
  <2>3. CASE /\ lookup' = Returns(<<"address", packet.body[1]>>)
             /\ packet.id = lookup.id /\ packet.body # <<>>
    <3>1. packet.body[1] \in since /\ packet.body[1] \in Nat
      BY <1>4, <1>5, <2>3, Zenon DEF Current, Inv, Types
    <3>2. <<"address", packet.body[1]>> \in Outcome
      BY <3>1 DEF Outcome
    <3>3. /\ lookup' \in [pc : {"idle", "waiting"}, id : Nat, elapsed : Nat, result : Outcome]
          /\ lookup'.id = lookup.id /\ lookup'.result = <<"address", packet.body[1]>>
      BY <2>3, <3>2, Zenon DEF Returns, Inv, Types
    <3> QED
      BY <1>1, <3>1, <3>3 DEF AddressIsCurrent, StrayNeverEndsLookup
  <2> QED
    BY <1>6, <2>1, <2>2, <2>3
<1>8. Types'
  BY <1>1, <1>2, <1>7 DEF Inv, Types, outVars
<1>9. Holding' /\ Ordered' /\ Requests'
  BY <1>1, <1>7, LookupFrame, SMTT(30)
<1>10. Answers'
  BY <1>1, <1>2, <1>7, SMTT(30) DEF Inv, Answers, Current, HEADER_LEN
<1> QED
  BY <1>7, <1>8, <1>9, <1>10 DEF Inv

\* The lookup gives up, or time passes.
LEMMA TimeSteps ==
  ASSUME Inv, LookupGivesUp \/ Tick
  PROVE  Inv'
<1>1. /\ UNCHANGED <<outq, asked, accepted, left, responses, public, sockq, stunq, since>>
      /\ sender' \in [pc : {"idle", "sending", "sleeping", "stopped"}, held : Seq(Datagram),
                      left : Nat]
      /\ sender'.held = sender.held /\ sender'.pc = sender.pc
  <2>1. CASE LookupGivesUp
    BY <2>1, Zenon DEF LookupGivesUp, outVars, inVars, netVars, Inv, Types
  <2>2. CASE Tick
    <3>1. PICK n \in Nat : sender' = [sender EXCEPT !.left = n]
      <4>1. \A n \in Nat : (IF n > 0 THEN n - 1 ELSE 0) \in Nat
        OBVIOUS
      <4> QED
        BY <2>2, <4>1, Zenon DEF Tick, Inv, Types
    <3>2. UNCHANGED <<outq, asked, accepted, left, responses, public, sockq, stunq, since>>
      BY <2>2 DEF Tick, netVars
    <3> QED
      BY <3>1, <3>2, Zenon DEF Inv, Types
  <2> QED
    BY <2>1, <2>2
<1>2. /\ lookup' \in [pc : {"idle", "waiting"}, id : Nat, elapsed : Nat, result : Outcome]
      /\ lookup'.id = lookup.id
      /\ (lookup'.pc = "waiting" => lookup.pc = "waiting")
      /\ (lookup'.result = lookup.result \/ lookup'.result = <<"no response">>)
  <2>1. CASE LookupGivesUp
    <3>1. <<"no response">> \in Outcome
      BY DEF Outcome
    <3> QED
      BY <2>1, <3>1, Zenon DEF LookupGivesUp, Returns, Inv, Types
  <2>2. CASE Tick
    <3>1. PICK n \in Nat : lookup' = [lookup EXCEPT !.elapsed = n]
      <4>1. \A n \in Nat : n + 1 \in Nat
        OBVIOUS
      <4> QED
        BY <2>2, <4>1, Zenon DEF Tick, Inv, Types
    <3> QED
      BY <3>1, Zenon DEF Inv, Types
  <2> QED
    BY <2>1, <2>2, Zenon
<1>3. Types'
  BY <1>1, <1>2, Zenon DEF Inv, Types
<1>4. Holding' /\ Ordered' /\ Requests'
  BY <1>1, <1>2, Zenon DEF Inv, Holding, Ordered, Requests
<1>5. Answers'
  BY <1>1, <1>2, Zenon DEF Inv, Answers, Current, HEADER_LEN
<1>6. AddressIsCurrent' /\ StrayNeverEndsLookup'
  <2>1. CASE lookup'.result = lookup.result
    BY <1>1, <1>2, <2>1 DEF Inv, AddressIsCurrent, StrayNeverEndsLookup
  <2>2. CASE lookup'.result = <<"no response">>
    <3>1. lookup'.result[1] = "no response"
      BY <2>2, First, Zenon
    <3> QED
      BY <3>1, Zenon DEF AddressIsCurrent, StrayNeverEndsLookup
  <2> QED
    BY <1>2, <2>1, <2>2, Zenon
<1> QED
  BY <1>3, <1>4, <1>5, <1>6 DEF Inv

\* A count to m, continued from there to m + n, is a count to m + n.
LEMMA Counted ==
  \A s, t \in Seq(Nat) :
    (\A i \in 1..Len(s) : s[i] = i) /\ (\A i \in 1..Len(t) : t[i] = Len(s) + i) =>
      /\ s \o t \in Seq(Nat) /\ Len(s \o t) = Len(s) + Len(t)
      /\ \A i \in 1..(Len(s) + Len(t)) : (s \o t)[i] = i
<1> SUFFICES ASSUME NEW s \in Seq(Nat), NEW t \in Seq(Nat), NEW m \in Nat, NEW n \in Nat,
                    m = Len(s), n = Len(t),
                    \A i \in 1..m : s[i] = i, \A i \in 1..n : t[i] = m + i
             PROVE  /\ s \o t \in Seq(Nat) /\ Len(s \o t) = m + n
                    /\ \A i \in 1..(m + n) : (s \o t)[i] = i
  <2>1. \A s \in Seq(Nat) : Len(s) \in Nat
    OBVIOUS
  <2> QED
    BY <2>1, ZenonT(60)
<1>1. s \o t \in Seq(Nat) /\ Len(s \o t) = m + n
  OBVIOUS
<1>2. ASSUME NEW i \in 1..(m + n)
      PROVE  (s \o t)[i] = i
  <2>1. CASE i <= m
    BY <2>1
  <2>2. CASE i > m
    <3>1. i - m \in 1..n /\ m + (i - m) = i
      BY <2>2
    <3>2. (s \o t)[i] = t[i - m]
      BY <2>2
    <3> QED
      BY <3>1, <3>2, Zenon
  <2> QED
    BY <2>1, <2>2
<1> QED
  BY <1>1, <1>2

\* What has left, what the task holds and what is queued are all that was
\* accepted, in order.
LEMMA Order ==
  ASSUME Types, Holding, Ordered
  PROVE  SentInOrder
<1> SUFFICES ASSUME sender.pc # "stopped"
             PROVE  left \o [i \in 1..Len(sender.held) |-> sender.held[i].number]
                      \o [i \in 1..Len(outq) |-> outq[i].number] = [i \in 1..accepted |-> i]
  BY Zenon DEF SentInOrder
<1> DEFINE l == Len(left)
           h == Len(sender.held)
           q == Len(outq)
           held == [i \in 1..h |-> sender.held[i].number]
           queued == [i \in 1..q |-> outq[i].number]
           all == [i \in 1..accepted |-> i]
<1>1. l \in Nat /\ h \in Nat /\ q \in Nat /\ accepted = l + h + q /\ accepted \in Nat
  BY DEF Types, Ordered
<1>2. /\ \A i \in 1..l : left[i] = i
      /\ \A i \in 1..h : sender.held[i].number = l + i
      /\ \A i \in 1..q : outq[i].number = l + h + i
  BY DEF Ordered
<1>3. /\ left \in Seq(Nat)
      /\ held = [i \in 1..h |-> l + i]
      /\ queued = [i \in 1..q |-> l + h + i]
  BY <1>2, Zenon DEF Types
<1> HIDE DEF l, h, q, held, queued, all
<1>4. /\ held \in Seq(Nat) /\ Len(held) = h /\ queued \in Seq(Nat) /\ Len(queued) = q
      /\ Len(left) = l
  BY <1>1, <1>3 DEF l
<1>5. /\ left \o held \in Seq(Nat) /\ Len(left \o held) = l + h
      /\ \A i \in 1..(l + h) : (left \o held)[i] = i
  <2>1. \A i \in 1..h : held[i] = l + i
    BY <1>3
  <2>2. left \in Seq(Nat)
    BY <1>3
  <2> QED
    BY <1>2, <1>4, <2>1, <2>2, Counted, ZenonT(60)
<1>6. /\ (left \o held) \o queued \in Seq(Nat)
      /\ Len((left \o held) \o queued) = accepted
      /\ \A i \in 1..accepted : ((left \o held) \o queued)[i] = i
  <2>1. \A i \in 1..q : queued[i] = (l + h) + i
    BY <1>3
  <2>2. /\ (left \o held) \o queued \in Seq(Nat)
        /\ Len((left \o held) \o queued) = (l + h) + q
        /\ \A i \in 1..((l + h) + q) : ((left \o held) \o queued)[i] = i
    <3>1. PICK s \in Seq(Nat) : /\ s = left \o held /\ Len(s) = l + h
                                /\ \A i \in 1..(l + h) : s[i] = i
      BY <1>5, Zenon
    <3>2. queued \in Seq(Nat) /\ Len(queued) = q
      BY <1>4
    <3>3. /\ \A i \in 1..Len(s) : s[i] = i
          /\ \A i \in 1..Len(queued) : queued[i] = Len(s) + i
      BY <2>1, <3>1, <3>2, ZenonT(60)
    <3>4. /\ s \o queued \in Seq(Nat) /\ Len(s \o queued) = Len(s) + Len(queued)
          /\ \A i \in 1..(Len(s) + Len(queued)) : (s \o queued)[i] = i
      BY <3>2, <3>3, Counted, ZenonT(60)
    <3> QED
      BY <3>1, <3>2, <3>4, ZenonT(60)
  <2>3. accepted = (l + h) + q
    BY <1>1
  <2> QED
    BY <2>2, <2>3, ZenonT(60)
<1>7. (left \o held) \o queued = all
  <2>1. \A s \in Seq(Nat) : s = [i \in 1..Len(s) |-> s[i]]
    OBVIOUS
  <2>2. (left \o held) \o queued = [i \in 1..accepted |-> ((left \o held) \o queued)[i]]
    BY <1>6, <2>1, Zenon
  <2> QED
    BY <1>6, <2>2, ZenonT(60) DEF all
<1> QED
  BY <1>7, Zenon DEF held, queued, all, h, q

\* Every step keeps the invariant.
LEMMA Step == Inv /\ [Next]_vars => Inv'
<1> SUFFICES ASSUME Inv, [Next]_vars PROVE Inv'
  OBVIOUS
<1>1. CASE SenderTakes \/ SenderSends \/ SenderWakes
  BY <1>1, SenderSteps
<1>2. CASE RouterRoutes
  BY <1>2, RoutesStep
<1>3. CASE RouterEnds \/ ReceiverFails \/ OthersConsume
  BY <1>3, OtherSteps DEF RouterEnds, ReceiverFails, OthersConsume, netVars
<1>4. CASE LookupReceives
  BY <1>4, LookupReceivesStep
<1>5. CASE LookupGivesUp \/ Tick
  BY <1>5, TimeSteps
<1>6. CASE LookupStarts
  BY <1>6, StartsStep
<1>7. CASE OtherSends
  BY <1>7, OtherSendsStep
<1>8. CASE ReceiverReceives
  BY <1>8, ReceivesStep
<1>9. CASE ServerAnswers
  BY <1>9, ServerStep
<1>10. CASE PublicChanges \/ RouteChanges
  BY <1>10, NetworkSteps
<1>11. CASE UNCHANGED vars
  BY <1>11, OtherSteps DEF vars, inVars, netVars
<1> QED
  BY <1>1, <1>2, <1>3, <1>4, <1>5, <1>6, <1>7, <1>8, <1>9, <1>10, <1>11 DEF Next

\* The invariant holds throughout.
LEMMA Invariant == Spec => []Inv
  BY InitInv, Step, PTL DEF Spec

\* The address a lookup returns is one the socket had since the lookup began,
\* for any number of lookups, late answers and address changes (send_request).
THEOREM AddressAlwaysCurrent == Spec => []AddressIsCurrent
<1>1. Inv => AddressIsCurrent
  BY DEF Inv
<1> QED
  BY <1>1, Invariant, PTL

\* No stray datagram ends a lookup, whatever others send (the classifier of
\* setup_connection and decode_const).
THEOREM StrayNeverEnds == Spec => []StrayNeverEndsLookup
<1>1. Inv => StrayNeverEndsLookup
  BY DEF Inv
<1> QED
  BY <1>1, Invariant, PTL

\* What the socket's queue accepts leaves in that order, each datagram once,
\* whatever the capacity and the number of retries (split_udp_socket).
THEOREM AlwaysSentInOrder == Spec => []SentInOrder
<1>1. Inv => SentInOrder
  BY Order DEF Inv
<1> QED
  BY <1>1, Invariant, PTL
=============================================================================
