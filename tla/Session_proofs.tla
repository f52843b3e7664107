--------------------------- MODULE Session_proofs ---------------------------
(***************************************************************************)
(* The invariants of one connection, for any addresses, records, tokens    *)
(* and limits.  The candidate set and the probe controller agree because   *)
(* no record gives more addresses than the controller has paths for, so    *)
(* first the size of what a record gives is bounded; then an invariant     *)
(* follows the listener through its two updates, and a last one follows    *)
(* the addresses on their way to the data plane.                           *)
(***************************************************************************)
EXTENDS Session, FiniteSetTheorems, TLAPS

-----------------------------------------------------------------------------
(* Sizes.                                                                  *)

\* The acceptable entries of a list are numbered without a repetition.
LEMMA RankInjective ==
  ASSUME NEW acc, NEW n \in Nat, NEW i \in 1..n, NEW j \in 1..n, i \in acc, j \in acc,
         Cardinality({k \in 1..i : k \in acc}) = Cardinality({k \in 1..j : k \in acc})
  PROVE  i = j
<1>1. ASSUME NEW x \in 1..n, NEW y \in 1..n, y \in acc, x < y,
             Cardinality({k \in 1..x : k \in acc}) = Cardinality({k \in 1..y : k \in acc})
      PROVE  FALSE
  <2> DEFINE X == {k \in 1..x : k \in acc}
             Y == {k \in 1..y : k \in acc}
  <2>1. IsFiniteSet(1..y)
    BY FS_Interval
  <2>2. IsFiniteSet(Y)
    BY <2>1, FS_Subset
  <2>3. X \in SUBSET Y
    BY <1>1
  <2>4. X # Y
    BY <1>1
  <2>5. Cardinality(Y) # Cardinality(X)
    BY <2>2, <2>3, <2>4, FS_Subset
  <2> QED
    BY <1>1, <2>5
<1>2. ~(i < j) /\ ~(j < i)
  BY <1>1
<1> QED
  BY <1>2

\* A record gives at most MaxRemote addresses, all acceptable and all listed.
LEMMA LearnedBounded ==
  ASSUME NEW list \in Seq(Addr)
  PROVE  /\ IsFiniteSet(Learned(list))
         /\ Cardinality(Learned(list)) <= MaxRemote
         /\ \A a \in Learned(list) :
              a \in Addr /\ Acceptable(a) /\ \E i \in DOMAIN list : a = list[i]
<1> DEFINE acc == {i \in DOMAIN list : Acceptable(list[i])}
           rank(i) == Cardinality({k \in 1..i : k \in acc})
           I == {i \in acc : rank(i) <= MaxRemote}
           pick(a) == CHOOSE i \in I : list[i] = a
           g == [a \in Learned(list) |-> rank(pick(a))]
<1>1. DOMAIN list = 1..Len(list) /\ Len(list) \in Nat
  OBVIOUS
<1>2. \A i \in DOMAIN list : {j \in 1..i : Acceptable(list[j])} = {k \in 1..i : k \in acc}
  BY <1>1
<1>3. Learned(list) = {list[i] : i \in I}
  BY <1>2, ZenonT(60) DEF Learned
<1>4. \A a \in Learned(list) : pick(a) \in I /\ list[pick(a)] = a
  BY <1>3, ZenonT(60)
<1>5. \A i \in I : rank(i) \in 1..MaxRemote
  <2> SUFFICES ASSUME NEW i \in I PROVE rank(i) \in 1..MaxRemote
    OBVIOUS
  <2>1. i \in 1..Len(list)
    BY <1>1
  <2>2. IsFiniteSet(1..i)
    BY <2>1, FS_Interval
  <2> DEFINE X == {k \in 1..i : k \in acc}
  <2>3. IsFiniteSet(X)
    BY <2>2, FS_Subset
  <2>4. X # {}
    BY <2>1
  <2>5. Cardinality(X) \in Nat /\ Cardinality(X) # 0
    BY <2>3, <2>4, FS_CardinalityType, FS_EmptySet
  <2> QED
    BY <2>5, SessionAssumption
<1>6. \A i \in I, j \in I : rank(i) = rank(j) => i = j
  BY <1>1, RankInjective, ZenonT(60)
<1> HIDE DEF I, rank, pick
<1>7. g \in [Learned(list) -> 1..MaxRemote]
  BY <1>4, <1>5
<1>8. \A a \in Learned(list), b \in Learned(list) : g[a] = g[b] => a = b
  BY <1>4, <1>6
<1>9. g \in Injection(Learned(list), 1..MaxRemote)
  BY <1>7, <1>8 DEF Injection, IsInjective
<1>10. IsFiniteSet(1..MaxRemote) /\ Cardinality(1..MaxRemote) = MaxRemote
  BY FS_Interval, SessionAssumption, SMTT(30)
<1>11. IsFiniteSet(Learned(list)) /\ Cardinality(Learned(list)) <= MaxRemote
  BY <1>9, <1>10, FS_Injection
<1>12. \A a \in Learned(list) :
         a \in Addr /\ Acceptable(a) /\ \E i \in DOMAIN list : a = list[i]
  BY <1>3 DEF I
<1> QED
  BY <1>11, <1>12

\* The controller has a path for each of the addresses the listener gives it.
LEMMA SelectsAll ==
  ASSUME NEW peers, IsFiniteSet(peers), Cardinality(peers) <= MaxRemote
  PROVE  Control!Selections(peers) = {peers}
<1>1. \A s : Control!Cardinality(s) = Cardinality(s)
  BY Zenon DEF Cardinality, Control!Cardinality
<1>2. Cardinality(peers) <= MaxProbePaths /\ Cardinality(peers) \in Nat
  BY SessionAssumption, FS_CardinalityType
<1>3. ASSUME NEW s \in SUBSET peers, Cardinality(s) = MaxProbePaths
      PROVE  s = peers
  <2>1. Cardinality(s) <= Cardinality(peers) /\ (Cardinality(peers) = Cardinality(s) => s = peers)
    BY FS_Subset
  <2> QED
    BY <1>2, <1>3, <2>1, SessionAssumption
<1> QED
  BY <1>1, <1>2, <1>3 DEF Control!Selections
\* A short list gives all of its acceptable addresses.
LEMMA LearnedAll ==
  ASSUME NEW list \in Seq(Addr), Len(list) <= MaxRemote,
         NEW i \in DOMAIN list, Acceptable(list[i])
  PROVE  list[i] \in Learned(list)
<1> DEFINE X == {j \in 1..i : Acceptable(list[j])}
<1>1. i \in 1..Len(list) /\ Len(list) \in Nat
  OBVIOUS
<1>2. IsFiniteSet(1..i) /\ Cardinality(1..i) = i
  BY <1>1, FS_Interval
<1>3. Cardinality(X) <= i /\ Cardinality(X) \in Nat
  BY <1>2, FS_Subset, FS_CardinalityType
<1>4. Cardinality(X) <= MaxRemote
  BY <1>1, <1>3, SessionAssumption
<1> QED
  BY <1>4, ZenonT(60) DEF Learned

-----------------------------------------------------------------------------
(* The controller.                                                         *)

ControlType == [token : RemoteToken \cup {None}, status : [Addr -> Control!Status]]

\* After an update the known paths are the selected ones, if there is a token.
LEMMA UpdatedControl ==
  ASSUME NEW c \in ControlType, NEW token \in RemoteToken \cup {None}, NEW peers \in SUBSET Addr
  PROVE  LET u == Control!Updated(c, token, peers)
         IN  /\ u \in ControlType
             /\ u.token = token
             /\ token = None => Control!Known(u) = {}
             /\ token # None => Control!Known(u) = peers
<1> DEFINE kept == IF c.token = token THEN c.status ELSE Control!NoStatus
           status == [a \in Addr |->
                        CASE token = None \/ a \notin peers -> "absent"
                          [] token # None /\ a \in peers /\ kept[a] = "absent" -> "new"
                          [] OTHER -> kept[a]]
<1>1. kept \in [Addr -> Control!Status]
  BY DEF Control!NoStatus, Control!Status, ControlType
<1>2. Control!Updated(c, token, peers) = [token |-> token, status |-> status]
  BY DEF Control!Updated
<1>3. \A a \in Addr : status[a] = "absent" <=> token = None \/ a \notin peers
  OBVIOUS
<1>4. status \in [Addr -> Control!Status]
  BY <1>1 DEF Control!Status
<1> HIDE DEF status, kept
<1> QED
  BY <1>2, <1>3, <1>4 DEF Control!Known, ControlType

\* Probes of known paths, and acknowledgements, change neither token nor paths.
LEMMA ProbedControl ==
  ASSUME NEW c \in ControlType, NEW due \in SUBSET Control!Known(c)
  PROVE  LET d == Control!Probed(c, due)
         IN  d \in ControlType /\ d.token = c.token /\ Control!Known(d) = Control!Known(c)
<1> DEFINE status == [a \in Addr |->
      IF a \notin due THEN c.status[a]
      ELSE IF c.status[a] = "verified" THEN "checking" ELSE "waiting"]
<1>1. status \in [Addr -> Control!Status]
  BY DEF Control!Status, ControlType
<1>2. \A a \in Addr : status[a] = "absent" <=> c.status[a] = "absent"
  BY DEF Control!Known
<1>3. Control!Probed(c, due) = [c EXCEPT !.status = status]
  BY DEF Control!Probed
<1>4. Control!Probed(c, due) = [token |-> c.token, status |-> status]
  BY <1>1, <1>3 DEF ControlType
<1> HIDE DEF status
<1> QED
  BY <1>1, <1>2, <1>4 DEF Control!Known, ControlType

\* An acknowledgement is for a known path.
LEMMA AcknowledgedControl ==
  ASSUME NEW c \in ControlType, NEW source \in Addr, Control!CanAcknowledge(c, source)
  PROVE  LET d == Control!Acknowledged(c, source)
         IN  d \in ControlType /\ d.token = c.token /\ Control!Known(d) = Control!Known(c)
<1> DEFINE status == [c.status EXCEPT ![source] = "verified"]
<1>1. status \in [Addr -> Control!Status]
  BY DEF Control!Status, ControlType
<1>2. \A a \in Addr : status[a] = "absent" <=> c.status[a] = "absent"
  BY DEF Control!CanAcknowledge, ControlType
<1>3. Control!Acknowledged(c, source) = [token |-> c.token, status |-> status]
  BY DEF Control!Acknowledged, ControlType
<1> HIDE DEF status
<1> QED
  BY <1>1, <1>2, <1>3 DEF Control!Known, ControlType

-----------------------------------------------------------------------------
(* The invariant.                                                          *)

\* Addresses a record, and what was retained of earlier ones, may give.
Given(peers) ==
  /\ peers \subseteq Addr /\ IsFiniteSet(peers) /\ Cardinality(peers) <= MaxRemote
  /\ \A a \in peers : Acceptable(a)

\* The record in force says to hold this token and these addresses.
SaidBy(rec, token, peers) ==
  LET listed == {rec.ip_addr_list[i] : i \in DOMAIN rec.ip_addr_list}
  IN  /\ token = rec.token
      /\ ~flags.no_clear => peers \subseteq listed
      /\ Len(rec.ip_addr_list) <= MaxRemote => {a \in listed : Acceptable(a)} \subseteq peers

\* Where the addresses of the candidate set come from, and how many there are.
CandidatesInv ==
  /\ Given(connections.advertised) /\ connections.advertised \subseteq offered
  /\ IsFiniteSet(connections.peer_reflexive)
  /\ Cardinality(connections.peer_reflexive) <= MaxPeerReflexive
  /\ connections.peer_reflexive \subseteq presented

\* The listener between its two updates, and what it leaves behind.
ListenerInv ==
  /\ listener.pc # "idle" =>
       /\ Given(listener.peers) /\ listener.peers \subseteq offered
       /\ SaidBy(record, listener.token, listener.peers)
  /\ listener.pc = "probes" => connections.advertised = listener.peers
  /\ \A a \in Control!Known(control) : FamilyAllowed(a)
  /\ PlanesAgree
  /\ listener.pc = "idle" /\ record # None =>
       SaidBy(record, control.token, connections.advertised)

\* What the tasks hold between two critical sections, and what they send.
DataInv ==
  /\ handler # None => handler \in presented
  /\ inbound # None => inbound \in offered \cup presented
  /\ sent.data \cup sent.delivered \subseteq offered \cup presented
  /\ IsFiniteSet(sent.data) /\ FanOutBounded
  /\ flags.filter_ipv6 => sent.probe \subseteq Ipv4
  /\ NewestWins

\* The inductive invariant.
Inv == TypeOK /\ CandidatesInv /\ ListenerInv /\ DataInv

\* What the listener makes of a record.
LEMMA RetainedGiven ==
  ASSUME TypeOK, CandidatesInv, NEW list \in Seq(Addr), NEW peers \in Retained(Learned(list))
  PROVE  /\ Given(peers)
         /\ peers \subseteq offered \cup {list[i] : i \in DOMAIN list}
         /\ \A token : SaidBy([ip_addr_list |-> list, token |-> token], token, peers)
<1> DEFINE known == {a \in connections.advertised : FamilyAllowed(a)}
           listed == {list[i] : i \in DOMAIN list}
<1>1. Given(Learned(list)) /\ Learned(list) \subseteq listed
  BY LearnedBounded DEF Given
<1>2. PICK extra \in SUBSET known :
        /\ peers = Learned(list) \cup extra
        /\ Cardinality(peers) <= MaxRemote
        /\ ~flags.no_clear => extra = {}
  <2>1. CASE ~flags.no_clear
    <3>1. peers = Learned(list)
      BY <2>1 DEF Retained
    <3> QED
      BY <1>1, <3>1, ZenonT(60) DEF Given
  <2>2. CASE flags.no_clear
    <3>1. peers \in {Learned(list) \cup e : e \in
            {e \in SUBSET (known \ Learned(list)) :
               /\ Cardinality(Learned(list) \cup e) <= MaxRemote
               /\ \/ e = known \ Learned(list)
                  \/ Cardinality(Learned(list) \cup e) = MaxRemote}}
      BY <2>2 DEF Retained
    <3> QED
      BY <2>2, <3>1, ZenonT(60)
  <2> QED
    BY <2>1, <2>2, ZenonT(60)
<1>3. IsFiniteSet(known) /\ known \subseteq Addr /\ known \subseteq offered
  BY FS_Subset DEF CandidatesInv, Given
<1>4. IsFiniteSet(extra)
  BY <1>3, FS_Subset
<1>5. IsFiniteSet(peers)
  BY <1>1, <1>2, <1>4, FS_Union, ZenonT(60) DEF Given
<1>6. \A a \in known : Acceptable(a)
  BY DEF CandidatesInv, Given
<1> HIDE DEF known
<1>7. Given(peers)
  BY <1>1, <1>2, <1>3, <1>5, <1>6 DEF Given
<1>8. Len(list) <= MaxRemote => {a \in listed : Acceptable(a)} \subseteq peers
  BY <1>2, LearnedAll
<1>9. ~flags.no_clear => peers \subseteq listed
  BY <1>1, <1>2
<1>10. ASSUME NEW token
       PROVE  SaidBy([ip_addr_list |-> list, token |-> token], token, peers)
  BY <1>8, <1>9 DEF SaidBy
<1> QED
  BY <1>1, <1>2, <1>3, <1>7, <1>10, ZenonT(60)

\* The connection starts in Inv.
LEMMA InitInv == Init => Inv
<1> SUFFICES ASSUME Init PROVE Inv
  OBVIOUS
<1> USE DEF Init
<1>1. Control!New \in ControlType /\ Control!Known(Control!New) = {} /\ Control!New.token = None
  BY DEF Control!New, ControlType, Control!NoStatus, Control!Status, Control!Known
<1>2. TypeOK
  BY <1>1, SessionAssumption DEF TypeOK, ControlType, EmptyCandidates, Nothing
<1>3. IsFiniteSet({}) /\ Cardinality({}) = 0
  BY FS_EmptySet
<1>4. CandidatesInv
  BY <1>3, SessionAssumption DEF CandidatesInv, Given, EmptyCandidates
<1>5. ListenerInv
  BY <1>1 DEF ListenerInv, PlanesAgree, EmptyCandidates
<1>6. DataInv
  BY <1>3, SessionAssumption DEF DataInv, FanOutBounded, NewestWins, Nothing
<1> QED
  BY <1>2, <1>4, <1>5, <1>6 DEF Inv

\* A step that sends nothing to the network.
LEMMA SilentData ==
  ASSUME sent' = Nothing, NewestWins',
         handler' # None => handler' \in presented',
         inbound' # None => inbound' \in offered' \cup presented'
  PROVE  DataInv'
<1>1. IsFiniteSet({}) /\ Cardinality({}) = 0
  BY FS_EmptySet
<1>2. FanOutBounded'
  BY <1>1, SessionAssumption DEF FanOutBounded, Nothing
<1> QED
  BY <1>1, <1>2 DEF DataInv, Nothing

-----------------------------------------------------------------------------
(* The listener's steps.                                                   *)

\* Taking a record.
LEMMA AcceptStep ==
  ASSUME Inv, NEW m \in Message, ListenerAccept(m)
  PROVE  Inv'
<1> USE DEF Inv
<1> DEFINE list == m.ip_addr_list
<1>1. /\ list \in Seq(Addr) /\ m.token \in RemoteToken \cup {None}
      /\ m.timestamp \in Int /\ IsFresh(m.timestamp) /\ IsNew(m.timestamp)
  BY SessionAssumption DEF Message, ListenerAccept
<1>2. PICK peers \in Retained(Learned(list)) :
        listener' = [pc    |-> IF peers = connections.advertised THEN "probes" ELSE "write",
                     token |-> m.token, peers |-> peers]
  BY DEF ListenerAccept
<1>3. /\ Given(peers)
      /\ peers \subseteq offered \cup {list[i] : i \in DOMAIN list}
      /\ SaidBy([ip_addr_list |-> list, token |-> m.token], m.token, peers)
  BY <1>1, <1>2, RetainedGiven
<1>4. /\ UNCHANGED <<flags, connections, control, handler, local_peer, loopback, inbound, presented>>
      /\ last_timestamp' = m.timestamp /\ newest' = Newest(m.timestamp)
      /\ offered' = offered \cup {list[i] : i \in DOMAIN list}
      /\ record' = [ip_addr_list |-> list, token |-> m.token]
      /\ sent' = Nothing /\ listener.pc = "idle"
  BY DEF ListenerAccept
<1> HIDE DEF list
<1>5. /\ listener'.pc \in {"write", "probes"} /\ listener'.token = m.token
      /\ listener'.peers = peers
      /\ listener'.pc = "probes" => peers = connections.advertised
  BY <1>2, SMTT(30)
<1>6. TypeOK'
  <2>1. m.timestamp \in -(MaxAge + 1)..MaxSkew
    BY <1>1, SessionAssumption DEF IsFresh
  <2>2. listener' \in [pc : {"idle", "write", "probes"}, token : RemoteToken \cup {None},
                       peers : SUBSET Addr]
    BY <1>1, <1>2, <1>3 DEF Given
  <2>3. offered' \in SUBSET Addr
    BY <1>1, <1>4, SMTT(60) DEF TypeOK
  <2> QED
    BY <1>4, <2>1, <2>2, <2>3 DEF TypeOK, Nothing
<1>7. CandidatesInv'
  BY <1>4, SMTT(30) DEF CandidatesInv, Given, Acceptable, FamilyAllowed
<1>8. ListenerInv'
  <2>1. (Given(listener.peers) /\ SaidBy(record, listener.token, listener.peers))'
    BY <1>3, <1>4, <1>5, SMTT(60) DEF Given, Acceptable, FamilyAllowed, SaidBy
  <2>2. (\A a \in Control!Known(control) : FamilyAllowed(a))'
    BY <1>4, SMTT(30) DEF ListenerInv, FamilyAllowed
  <2>3. PlanesAgree'
    BY <1>4, <1>5 DEF ListenerInv, PlanesAgree
  <2> QED
    BY <1>3, <1>4, <1>5, <2>1, <2>2, <2>3 DEF ListenerInv
<1>9. newest' = m.timestamp
  <2>1. newest = last_timestamp
    BY SMTT(30) DEF DataInv, NewestWins
  <2>2. CASE last_timestamp = None
    BY <1>4, <2>1, <2>2 DEF Newest
  <2>3. CASE last_timestamp # None
    <3>1. last_timestamp \in Int /\ last_timestamp < m.timestamp
      BY <1>1, <2>3, SessionAssumption DEF TypeOK, IsNew
    <3> QED
      BY <1>4, <2>1, <3>1 DEF Newest
  <2> QED
    BY <2>2, <2>3
<1>10. DataInv'
  BY <1>4, <1>9, SilentData DEF DataInv, NewestWins
<1> QED
  BY <1>6, <1>7, <1>8, <1>10

\* A step that leaves the listener, the candidate set and the controller's paths.
LEMMA SameControl ==
  ASSUME Inv, UNCHANGED <<flags, connections, listenerVars, presented>>,
         control'.token = control.token, Control!Known(control') = Control!Known(control)
  PROVE  CandidatesInv' /\ ListenerInv' /\ NewestWins'
<1>1. CandidatesInv'
  BY DEF Inv, CandidatesInv, Given, Acceptable, FamilyAllowed, listenerVars
<1>2. ListenerInv'
  <2>1. (listener.pc # "idle" => Given(listener.peers)
                                /\ SaidBy(record, listener.token, listener.peers))'
    BY DEF Inv, ListenerInv, Given, SaidBy, Acceptable, FamilyAllowed, listenerVars
  <2>2. (\A a \in Control!Known(control) : FamilyAllowed(a))' /\ PlanesAgree'
    BY DEF Inv, ListenerInv, PlanesAgree, FamilyAllowed, listenerVars
  <2>3. (listener.pc = "idle" /\ record # None =>
           SaidBy(record, control.token, connections.advertised))'
    BY DEF Inv, ListenerInv, SaidBy, Acceptable, FamilyAllowed, listenerVars
  <2> QED
    BY <2>1, <2>2, <2>3 DEF Inv, ListenerInv, listenerVars
<1> QED
  BY <1>1, <1>2 DEF Inv, DataInv, NewestWins, listenerVars

\* Ignoring a record, replacing the addresses, and telling the controller.
LEMMA ListenerSteps ==
  ASSUME Inv,
         \/ \E m \in Message : ListenerIgnore(m)
         \/ ListenerReplace \/ ListenerUpdateProbes
  PROVE  Inv'
<1> USE DEF Inv
<1>1. ASSUME NEW m \in Message, ListenerIgnore(m) PROVE Inv'
  <2>1. /\ UNCHANGED <<flags, connections, control, last_timestamp, listener, handler,
                       local_peer, loopback, inbound, record, offered, presented>>
        /\ sent' = Nothing
        /\ newest' = IF IsFresh(m.timestamp) THEN Newest(m.timestamp) ELSE newest
        /\ IsFresh(m.timestamp) => ~IsNew(m.timestamp)
    BY <1>1 DEF ListenerIgnore
  <2>2. newest' = newest
    <3>1. newest = last_timestamp
      BY DEF DataInv, NewestWins
    <3>2. CASE IsFresh(m.timestamp)
      <4>1. last_timestamp # None /\ ~(m.timestamp > last_timestamp)
        BY <2>1, <3>2 DEF IsNew
      <4>2. last_timestamp \in Int /\ m.timestamp \in Int
        BY <4>1, SessionAssumption DEF TypeOK, Message
      <4> QED
        BY <2>1, <3>1, <3>2, <4>1, <4>2 DEF Newest
    <3> QED
      BY <2>1, <3>2
  <2>3. TypeOK'
    BY <2>1, ZenonT(60) DEF TypeOK, Nothing
  <2>4. CandidatesInv' /\ ListenerInv' /\ NewestWins'
    BY <2>1, <2>2, SameControl DEF listenerVars
  <2>5. DataInv'
    BY <2>1, <2>4, SilentData DEF DataInv
  <2> QED
    BY <2>3, <2>4, <2>5
<1>2. CASE ListenerReplace
  <2>1. /\ UNCHANGED <<flags, control, last_timestamp, handler, local_peer, loopback, inbound,
                       newest, record, offered, presented>>
        /\ sent' = Nothing /\ listener.pc = "write"
        /\ listener' = [listener EXCEPT !.pc = "probes"]
        /\ connections' = [connections EXCEPT !.advertised = listener.peers]
    BY <1>2 DEF ListenerReplace, ReplaceAdvertised
  <2>2. /\ listener'.pc = "probes" /\ listener'.token = listener.token
        /\ listener'.peers = listener.peers
        /\ connections'.advertised = listener.peers
        /\ connections'.peer_reflexive = connections.peer_reflexive
    BY <2>1 DEF TypeOK
  <2>3. TypeOK'
    BY <2>1, ZenonT(60) DEF TypeOK, Nothing
  <2>4. CandidatesInv'
    BY <2>1, <2>2 DEF CandidatesInv, ListenerInv, Given, Acceptable, FamilyAllowed
  <2>5. ListenerInv'
    BY <2>1, <2>2 DEF ListenerInv, PlanesAgree, Given, SaidBy, Acceptable, FamilyAllowed
  <2>6. DataInv'
    BY <2>1, SilentData DEF DataInv, NewestWins
  <2> QED
    BY <2>3, <2>4, <2>5, <2>6
<1>3. CASE ListenerUpdateProbes
  <2>1. /\ UNCHANGED <<flags, connections, last_timestamp, handler, local_peer, loopback,
                       inbound, newest, record, offered, presented>>
        /\ sent' = Nothing /\ listener.pc = "probes"
        /\ listener' = [pc |-> "idle", token |-> None, peers |-> {}]
        /\ \E selected \in Control!Selections(listener.peers) :
              control' = Control!Updated(control, listener.token, selected)
    BY <1>3, SMTT(30) DEF ListenerUpdateProbes
  <2>2. Given(listener.peers) /\ connections.advertised = listener.peers
    BY <2>1 DEF ListenerInv
  <2>3. control' = Control!Updated(control, listener.token, listener.peers)
    BY <2>1, <2>2, SelectsAll DEF Given
  <2>4. /\ control' \in ControlType /\ control'.token = listener.token
        /\ Control!Known(control') = IF listener.token = None THEN {} ELSE listener.peers
    <3>1. control \in ControlType /\ listener.token \in RemoteToken \cup {None}
      BY DEF TypeOK, ControlType
    <3>2. listener.peers \in SUBSET Addr
      BY <2>2 DEF Given
    <3> DEFINE u == Control!Updated(control, listener.token, listener.peers)
    <3>3. /\ u \in ControlType /\ u.token = listener.token
          /\ listener.token = None => Control!Known(u) = {}
          /\ listener.token # None => Control!Known(u) = listener.peers
      BY <3>1, <3>2, UpdatedControl, SMTT(30)
    <3> QED
      BY <2>3, <3>3
  <2>5. TypeOK'
    BY <2>1, <2>4 DEF TypeOK, Nothing, ControlType
  <2>6. CandidatesInv'
    BY <2>1 DEF CandidatesInv, Given, Acceptable, FamilyAllowed
  <2>7. listener'.pc = "idle"
    BY <2>1, SMTT(30)
  <2>8. ListenerInv'
    BY <2>1, <2>2, <2>4, <2>7 DEF ListenerInv, PlanesAgree, Given, SaidBy, Acceptable, FamilyAllowed
  <2>9. DataInv'
    BY <2>1, SilentData DEF DataInv, NewestWins
  <2> QED
    BY <2>5, <2>6, <2>8, <2>9
<1> QED
  BY <1>1, <1>2, <1>3

-----------------------------------------------------------------------------
(* The other tasks' steps.                                                 *)

\* The control handler and the probe scheduler.
LEMMA ControlSteps ==
  ASSUME Inv,
         \/ \E source \in Addr : HandlerRequest(source)
         \/ HandlerAdmit
         \/ \E token \in RemoteToken, source \in Addr : HandlerAcknowledge(token, source)
         \/ SchedulerDue
  PROVE  Inv'
<1> USE DEF Inv
<1>1. ASSUME NEW source \in Addr, HandlerRequest(source) PROVE Inv'
  <2>1. /\ UNCHANGED <<flags, connections, control, listenerVars, local_peer, loopback, inbound>>
        /\ sent' = Nothing /\ handler' = source /\ presented' = presented \cup {source}
    BY <1>1 DEF HandlerRequest
  <2>2. TypeOK'
    BY <2>1, ZenonT(60) DEF TypeOK, Nothing, listenerVars
  <2>3. CandidatesInv'
    BY <2>1 DEF CandidatesInv, Given, Acceptable, FamilyAllowed, listenerVars
  <2>4. ListenerInv'
    BY <2>1, SMTT(30) DEF ListenerInv, PlanesAgree, Given, SaidBy, Acceptable, FamilyAllowed, listenerVars
  <2>5. DataInv'
    BY <2>1, SilentData DEF DataInv, NewestWins, listenerVars
  <2> QED
    BY <2>2, <2>3, <2>4, <2>5
<1>2. CASE HandlerAdmit
  <2>1. /\ UNCHANGED <<flags, control, listenerVars, local_peer, loopback, inbound, presented>>
        /\ handler \in Addr /\ handler \in presented /\ handler' = None
        /\ sent' = [Nothing EXCEPT !.echo = {handler}]
        /\ connections' = AddPeerReflexive(connections, handler)
    BY <1>2 DEF HandlerAdmit, TypeOK, DataInv
  <2>2. /\ connections'.advertised = connections.advertised
        /\ connections'.peer_reflexive \in SUBSET Addr
        /\ connections' \in [advertised : SUBSET Addr, peer_reflexive : SUBSET Addr]
        /\ IsFiniteSet(connections'.peer_reflexive)
        /\ Cardinality(connections'.peer_reflexive) <= MaxPeerReflexive
        /\ connections'.peer_reflexive \subseteq presented
    <3>1. CASE connections' = connections
      BY <3>1 DEF TypeOK, CandidatesInv
    <3>2. CASE connections' # connections
      <4> DEFINE reflexive == connections.peer_reflexive \cup {handler}
      <4>1. /\ connections' = [connections EXCEPT !.peer_reflexive = reflexive]
            /\ Cardinality(connections.peer_reflexive) # MaxPeerReflexive
            /\ handler \notin connections.peer_reflexive
        BY <2>1, <3>2 DEF AddPeerReflexive, Contains, Addresses
      <4>2. IsFiniteSet(connections.peer_reflexive)
        BY DEF CandidatesInv
      <4>3. Cardinality(connections.peer_reflexive) \in Nat
        BY <4>2, FS_CardinalityType
      <4>4. /\ IsFiniteSet(reflexive)
            /\ Cardinality(reflexive) = Cardinality(connections.peer_reflexive) + 1
        BY <4>1, <4>2, FS_AddElement
      <4>5. Cardinality(reflexive) <= MaxPeerReflexive
        BY <4>1, <4>3, <4>4, SessionAssumption DEF CandidatesInv
      <4>6. reflexive \in SUBSET Addr /\ reflexive \subseteq presented
        BY <2>1 DEF TypeOK, CandidatesInv
      <4> HIDE DEF reflexive
      <4> QED
        BY <4>1, <4>4, <4>5, <4>6 DEF TypeOK
    <3> QED
      BY <3>1, <3>2
  <2>3. TypeOK'
    BY <2>1, <2>2, SessionAssumption DEF TypeOK, Nothing, listenerVars
  <2>4. CandidatesInv'
    BY <2>1, <2>2 DEF CandidatesInv, Given, Acceptable, FamilyAllowed, listenerVars
  <2>5. ListenerInv'
    BY <2>1, <2>2 DEF ListenerInv, PlanesAgree, Given, SaidBy, Acceptable, FamilyAllowed,
       listenerVars
  <2>6. sent'.data = {} /\ sent'.delivered = {} /\ sent'.probe = {}
    BY <2>1 DEF Nothing
  <2>7. IsFiniteSet({}) /\ Cardinality({}) = 0
    BY FS_EmptySet
  <2>8. FanOutBounded'
    BY <2>6, <2>7, SessionAssumption DEF FanOutBounded
  <2>9. DataInv'
    BY <2>1, <2>6, <2>7, <2>8, SMTT(60) DEF DataInv, NewestWins, listenerVars
  <2> QED
    BY <2>3, <2>4, <2>5, <2>9
<1>3. ASSUME NEW token \in RemoteToken, NEW source \in Addr, HandlerAcknowledge(token, source)
      PROVE  Inv'
  <2>1. /\ UNCHANGED <<flags, connections, listenerVars, handler, local_peer, loopback, inbound,
                       presented>>
        /\ sent' = Nothing /\ Control!CanAcknowledge(control, source)
        /\ control' = Control!Acknowledged(control, source)
    BY <1>3 DEF HandlerAcknowledge
  <2>2. control \in ControlType
    BY DEF TypeOK, ControlType
  <2>3. /\ control' \in ControlType /\ control'.token = control.token
        /\ Control!Known(control') = Control!Known(control)
    BY <2>1, <2>2, AcknowledgedControl, SMTT(30)
  <2>4. TypeOK'
    BY <2>1, <2>3 DEF TypeOK, Nothing, ControlType, listenerVars
  <2>5. CandidatesInv' /\ ListenerInv' /\ NewestWins'
    BY <2>1, <2>3, SameControl, SMTT(30)
  <2>6. DataInv'
    BY <2>1, <2>5, SilentData DEF DataInv, listenerVars
  <2> QED
    BY <2>4, <2>5, <2>6
<1>4. CASE SchedulerDue
  <2>1. PICK due \in SUBSET Control!Known(control) :
          /\ UNCHANGED <<flags, connections, listenerVars, handler, local_peer, loopback, inbound,
                         presented>>
          /\ sent' = [Nothing EXCEPT !.probe = due]
          /\ control' = Control!Probed(control, due)
    BY <1>4 DEF SchedulerDue
  <2>2. control \in ControlType /\ due \subseteq Addr
    BY DEF TypeOK, ControlType, Control!Known
  <2>3. /\ control' \in ControlType /\ control'.token = control.token
        /\ Control!Known(control') = Control!Known(control)
    BY <2>1, <2>2, ProbedControl
  <2>4. TypeOK'
    BY <2>1, <2>2, <2>3 DEF TypeOK, Nothing, ControlType, listenerVars
  <2>5. CandidatesInv' /\ ListenerInv' /\ NewestWins'
    BY <2>1, <2>3, SameControl
  <2>6. sent'.data = {} /\ sent'.delivered = {} /\ sent'.probe = due
    BY <2>1 DEF Nothing
  <2>7. flags.filter_ipv6 => due \subseteq Ipv4
    BY DEF ListenerInv, FamilyAllowed
  <2>8. IsFiniteSet({}) /\ Cardinality({}) = 0
    BY FS_EmptySet
  <2>9. FanOutBounded'
    BY <2>6, <2>8, SessionAssumption DEF FanOutBounded
  <2>10. DataInv'
    BY <2>1, <2>5, <2>6, <2>7, <2>8, <2>9 DEF DataInv, listenerVars
  <2> QED
    BY <2>4, <2>5, <2>10
<1> QED
  BY <1>1, <1>2, <1>3, <1>4

\* The data plane and the clock.
LEMMA DataSteps ==
  ASSUME Inv,
         \/ \E wireguard_addr \in WgAddr : LoopbackReceive(wireguard_addr)
         \/ LoopbackForward
         \/ \E source \in Addr : InboundCheck(source)
         \/ InboundForward
         \/ Tick
  PROVE  Inv'
<1> USE DEF Inv
<1>1. ASSUME NEW wireguard_addr \in WgAddr, LoopbackReceive(wireguard_addr) PROVE Inv'
  <2>1. TypeOK'
    BY <1>1 DEF LoopbackReceive, TypeOK, Nothing, listenerVars
  <2>2. CandidatesInv' /\ ListenerInv' /\ NewestWins'
    BY <1>1, SameControl, SMTT(30) DEF LoopbackReceive
  <2>3. DataInv'
    BY <1>1, <2>2, SilentData DEF LoopbackReceive, DataInv, listenerVars
  <2> QED
    BY <2>1, <2>2, <2>3, SMTT(30)
<1>2. CASE LoopbackForward
  <2>1. /\ UNCHANGED <<flags, connections, control, listenerVars, handler, local_peer, inbound,
                       presented>>
        /\ loopback' = None
        /\ sent' = [Nothing EXCEPT !.data = Addresses(connections)]
    BY <1>2 DEF LoopbackForward
  <2>2. sent'.data = Addresses(connections) /\ sent'.delivered = {} /\ sent'.probe = {}
    BY <2>1 DEF Nothing
  <2>3. Addresses(connections) \subseteq Addr /\ Addresses(connections) \subseteq offered \cup presented
    BY DEF TypeOK, CandidatesInv, Addresses
  <2>4. /\ IsFiniteSet(Addresses(connections))
        /\ Cardinality(Addresses(connections)) <= MaxRemote + MaxPeerReflexive
    <3> DEFINE a == connections.advertised
               r == connections.peer_reflexive
    <3>1. /\ IsFiniteSet(a) /\ Cardinality(a) <= MaxRemote
          /\ IsFiniteSet(r) /\ Cardinality(r) <= MaxPeerReflexive
      BY DEF CandidatesInv, Given
    <3>2. IsFiniteSet(a \cap r)
      BY <3>1, FS_Subset
    <3>3. Cardinality(a) \in Nat /\ Cardinality(r) \in Nat /\ Cardinality(a \cap r) \in Nat
      BY <3>1, <3>2, FS_CardinalityType, SMTT(30)
    <3>4. /\ IsFiniteSet(a \cup r)
          /\ Cardinality(a \cup r) = Cardinality(a) + Cardinality(r) - Cardinality(a \cap r)
      BY <3>1, FS_Union
    <3> QED
      BY <3>1, <3>3, <3>4, SessionAssumption DEF Addresses
  <2>5. TypeOK'
    BY <2>1, <2>3, SessionAssumption DEF TypeOK, Nothing, listenerVars
  <2>6. CandidatesInv' /\ ListenerInv' /\ NewestWins'
    BY <2>1, SameControl
  <2>7. FanOutBounded'
    BY <2>2, <2>4 DEF FanOutBounded
  <2>8. DataInv'
    BY <2>1, <2>2, <2>3, <2>4, <2>6, <2>7 DEF DataInv, listenerVars
  <2> QED
    BY <2>5, <2>6, <2>8
<1>3. ASSUME NEW source \in Addr, InboundCheck(source) PROVE Inv'
  <2>1. source \in offered \cup presented
    BY <1>3 DEF InboundCheck, Contains, Addresses, CandidatesInv
  <2>2. TypeOK'
    BY <1>3, ZenonT(60) DEF InboundCheck, TypeOK, Nothing, listenerVars
  <2>3. CandidatesInv' /\ ListenerInv' /\ NewestWins'
    BY <1>3, SameControl DEF InboundCheck
  <2>4. DataInv'
    BY <1>3, <2>1, <2>3, SilentData DEF InboundCheck, DataInv, listenerVars
  <2> QED
    BY <2>2, <2>3, <2>4, SMTT(30)
<1>4. CASE InboundForward
  <2>1. /\ UNCHANGED <<flags, connections, control, listenerVars, handler, local_peer, loopback,
                       presented>>
        /\ inbound' = None /\ inbound \in Addr /\ inbound \in offered \cup presented
        /\ sent' = IF local_peer = None THEN Nothing
                   ELSE [Nothing EXCEPT !.delivered = {inbound}]
    BY <1>4 DEF InboundForward, TypeOK, DataInv
  <2>2. sent'.data = {} /\ sent'.delivered \subseteq {inbound} /\ sent'.probe = {}
    BY <2>1 DEF Nothing
  <2>3. TypeOK'
    BY <2>1, SessionAssumption DEF TypeOK, Nothing, listenerVars
  <2>4. CandidatesInv' /\ ListenerInv' /\ NewestWins'
    BY <2>1, SameControl
  <2>5. IsFiniteSet({}) /\ Cardinality({}) = 0
    BY FS_EmptySet
  <2>6. FanOutBounded'
    BY <2>2, <2>5, SessionAssumption DEF FanOutBounded
  <2>7. DataInv'
    BY <2>1, <2>2, <2>4, <2>5, <2>6 DEF DataInv, listenerVars
  <2> QED
    BY <2>3, <2>4, <2>7
<1>5. CASE Tick
  <2>1. /\ UNCHANGED <<flags, connections, control, listener, handler, local_peer, loopback,
                       inbound, record, offered, presented>>
        /\ sent' = Nothing /\ last_timestamp' = last_timestamp - 1 /\ newest' = newest - 1
        /\ last_timestamp # None /\ last_timestamp >= -MaxAge
    BY <1>5 DEF Tick
  <2>2. last_timestamp' \in -(MaxAge + 1)..MaxSkew
    <3>1. last_timestamp \in Int /\ last_timestamp <= MaxSkew
      BY <2>1, SessionAssumption DEF TypeOK
    <3> QED
      BY <2>1, <3>1, SessionAssumption
  <2>3. TypeOK'
    BY <2>1, <2>2, ZenonT(60) DEF TypeOK, Nothing
  <2>4. CandidatesInv'
    BY <2>1, Zenon DEF CandidatesInv, Given, Acceptable, FamilyAllowed
  <2>5. ListenerInv'
    BY <2>1, Zenon DEF ListenerInv, PlanesAgree, Given, SaidBy, Acceptable, FamilyAllowed
  <2>6. NewestWins'
    BY <2>1 DEF DataInv, NewestWins
  <2>7. DataInv'
    BY <2>1, <2>6, SilentData DEF DataInv
  <2> QED
    BY <2>3, <2>4, <2>5, <2>7
<1> QED
  BY <1>1, <1>2, <1>3, <1>4, <1>5

\* Every step of every task keeps Inv.
LEMMA NextInv == Inv /\ [Next]_vars => Inv'
<1> SUFFICES ASSUME Inv, [Next]_vars PROVE Inv'
  OBVIOUS
<1>1. ASSUME NEW m \in Message, ListenerAccept(m) PROVE Inv'
  BY <1>1, AcceptStep
<1>2. ASSUME NEW m \in Message, ListenerIgnore(m) PROVE Inv'
  BY <1>2, ListenerSteps
<1>3. CASE ListenerReplace \/ ListenerUpdateProbes
  BY <1>3, ListenerSteps
<1>4. ASSUME NEW source \in Addr, HandlerRequest(source) \/ InboundCheck(source) PROVE Inv'
  BY <1>4, ControlSteps, DataSteps
<1>5. ASSUME NEW token \in RemoteToken, NEW source \in Addr, HandlerAcknowledge(token, source)
      PROVE  Inv'
  BY <1>5, ControlSteps
<1>6. CASE HandlerAdmit \/ SchedulerDue
  BY <1>6, ControlSteps
<1>7. ASSUME NEW wireguard_addr \in WgAddr, LoopbackReceive(wireguard_addr) PROVE Inv'
  BY <1>7, DataSteps
<1>8. CASE LoopbackForward \/ InboundForward \/ Tick
  BY <1>8, DataSteps
<1>9. CASE UNCHANGED vars
  <2> USE <1>9 DEF vars, listenerVars, Inv
  <2>1. TypeOK'
    BY ZenonT(60) DEF TypeOK
  <2>2. CandidatesInv'
    BY DEF CandidatesInv, Given, Acceptable, FamilyAllowed
  <2>3. ListenerInv'
    BY SMTT(30) DEF ListenerInv, PlanesAgree, Given, SaidBy, Acceptable, FamilyAllowed
  <2>4. DataInv'
    BY DEF DataInv, FanOutBounded, NewestWins
  <2> QED
    BY <2>1, <2>2, <2>3, <2>4
<1> QED
  BY <1>1, <1>2, <1>3, <1>4, <1>5, <1>6, <1>7, <1>8, <1>9 DEF Next

-----------------------------------------------------------------------------
(* The theorems.                                                           *)

\* The inductive invariant holds of every behaviour.
LEMMA Invariant == Spec => []Inv
BY InitInv, NextInv, PTL DEF Spec

\* Every variable of the connection keeps its type.
THEOREM TypeCorrect == Spec => []TypeOK
<1>1. Inv => TypeOK
  BY DEF Inv
<1> QED
  BY <1>1, Invariant, PTL

\* The candidate set and the probe controller, which the listener updates under
\* different locks, agree whenever it is not between the two updates.
THEOREM PlanesAlwaysAgree == Spec => []PlanesAgree
<1>1. Inv => PlanesAgree
  BY DEF Inv, ListenerInv
<1> QED
  BY <1>1, Invariant, PTL

\* When the listener is idle, what the process holds is what the last record it
\* took says.
THEOREM RecordAlwaysInForce == Spec => []RecordInForce
<1>1. Inv => RecordInForce
  BY DEF Inv, ListenerInv, RecordInForce, SaidBy
<1> QED
  BY <1>1, Invariant, PTL

\* The record taken is the newest fresh one delivered, in whatever order the DHT
\* delivers them.
THEOREM NewestAlwaysWins == Spec => []NewestWins
<1>1. Inv => NewestWins
  BY DEF Inv, DataInv
<1> QED
  BY <1>1, Invariant, PTL

\* WireGuard datagrams only go to and come from addresses the peer vouched for.
THEOREM DataAlwaysJustified == Spec => []DataPlaneJustified
<1>1. Inv => DataPlaneJustified
  BY DEF Inv, CandidatesInv, DataInv, Given, Acceptable, Addresses, DataPlaneJustified
<1> QED
  BY <1>1, Invariant, PTL

\* One datagram is copied to at most MaxRemote + MaxPeerReflexive addresses.
THEOREM FanOutAlwaysBounded == Spec => []FanOutBounded
<1>1. Inv => FanOutBounded
  BY DEF Inv, DataInv
<1> QED
  BY <1>1, Invariant, PTL

\* With filter_ipv6 no IPv6 address is ever probed.
THEOREM ProbesAlwaysIpv4 == Spec => []Ipv4OnlyProbes
<1>1. Inv => Ipv4OnlyProbes
  BY DEF Inv, CandidatesInv, DataInv, Given, Acceptable, FamilyAllowed, Ipv4OnlyProbes
<1> QED
  BY <1>1, Invariant, PTL

-----------------------------------------------------------------------------
(* The connection uses the controller as PathControl allows.               *)

Controller == INSTANCE PathControl WITH out <- [echo |-> sent.echo, probe |-> sent.probe]

\* A step that leaves the controller alone and sends no frame of its own.
LEMMA QuietStep ==
  ASSUME control' = control, sent'.echo = {}, sent'.probe = {}
  PROVE  Controller!Next
<1>1. Controller!Quiet
  BY DEF Controller!Quiet, Controller!Silent
<1> QED
  BY <1>1, SMTT(30) DEF Controller!Next

\* Between the locks, the awaits and the queues of lib.rs, everything that
\* happens to the shared controller, and every echo and probe that leaves the
\* process, is a step PathControl allows: the listener's update with addresses
\* read before the lock, the echo sent after the admission, the scheduler.
THEOREM ConnectionImplementsPathControl == Spec => Controller!Spec
<1>1. Init => Controller!Init
  BY DEF Init, Nothing, Control!New, Control!NoStatus, Controller!Init, Controller!New,
         Controller!NoStatus, Controller!Silent
<1>2. Inv /\ [Next]_vars => [Controller!Next]_(Controller!vars)
  <2> SUFFICES ASSUME Inv, [Next]_vars PROVE [Controller!Next]_(Controller!vars)
    OBVIOUS
  <2>1. TypeOK
    BY DEF Inv
  <2>2. /\ Nothing.echo = {} /\ Nothing.probe = {}
        /\ \A d : /\ [Nothing EXCEPT !.data = d].echo = {}
                  /\ [Nothing EXCEPT !.data = d].probe = {}
        /\ \A d : /\ [Nothing EXCEPT !.delivered = d].echo = {}
                  /\ [Nothing EXCEPT !.delivered = d].probe = {}
    BY DEF Nothing
  <2>3. ASSUME NEW m \in Message, ListenerAccept(m) \/ ListenerIgnore(m)
        PROVE  Controller!Next
    BY <2>2, <2>3, QuietStep DEF ListenerAccept, ListenerIgnore
  <2>4. ASSUME NEW source \in Addr, HandlerRequest(source) \/ InboundCheck(source)
        PROVE  Controller!Next
    BY <2>2, <2>4, QuietStep DEF HandlerRequest, InboundCheck
  <2>5. ASSUME NEW wireguard_addr \in WgAddr, LoopbackReceive(wireguard_addr)
        PROVE  Controller!Next
    BY <2>2, <2>5, QuietStep DEF LoopbackReceive
  <2>6. CASE ListenerReplace \/ LoopbackForward \/ InboundForward \/ Tick
    <3>1. control' = control
      BY <2>6 DEF ListenerReplace, LoopbackForward, InboundForward, Tick
    <3>2. sent'.echo = {} /\ sent'.probe = {}
      BY <2>2, <2>6, Zenon DEF ListenerReplace, LoopbackForward, InboundForward, Tick
    <3> QED
      BY <3>1, <3>2, QuietStep
  <2>7. CASE ListenerUpdateProbes
    <3>1. listener.token \in RemoteToken \cup {None} /\ listener.peers \in SUBSET Addr
      BY <2>1 DEF TypeOK
    <3>2. PICK selected \in Control!Selections(listener.peers) :
            control' = Control!Updated(control, listener.token, selected)
      BY <2>7 DEF ListenerUpdateProbes
    <3>3. selected \in Controller!Selections(listener.peers)
      BY DEF Control!Selections, Controller!Selections, Control!Cardinality, Controller!Cardinality
    <3>4. control' = Controller!Updated(control, listener.token, selected)
      BY <3>2 DEF Control!Updated, Controller!Updated, Control!NoStatus, Controller!NoStatus
    <3>5. sent'.echo = {} /\ sent'.probe = {}
      BY <2>2, <2>7 DEF ListenerUpdateProbes
    <3>6. Controller!UpdateRemote(listener.token, listener.peers)
      BY <3>3, <3>4, <3>5 DEF Controller!UpdateRemote, Controller!Silent
    <3> QED
      BY <3>1, <3>6 DEF Controller!Next
  <2>8. CASE HandlerAdmit
    <3>1. handler \in Addr
      BY <2>1, <2>8 DEF TypeOK, HandlerAdmit
    <3>2. sent'.echo = {handler} /\ sent'.probe = {} /\ control' = control
      BY <2>8 DEF HandlerAdmit, Nothing
    <3>3. Controller!Request(handler)
      BY <3>2 DEF Controller!Request, Controller!Silent
    <3> QED
      BY <3>1, <3>3 DEF Controller!Next
  <2>9. ASSUME NEW token \in RemoteToken, NEW source \in Addr, HandlerAcknowledge(token, source)
        PROVE  Controller!Next
    <3>1. sent'.echo = {} /\ sent'.probe = {}
      BY <2>2, <2>9 DEF HandlerAcknowledge
    <3>2. Controller!Acknowledge(source)
      BY <2>9, <3>1 DEF HandlerAcknowledge, Control!CanAcknowledge, Control!Acknowledged,
                        Controller!Acknowledge, Controller!CanAcknowledge,
                        Controller!Acknowledged, Controller!Silent
    <3> QED
      BY <3>2 DEF Controller!Next
  <2>10. CASE SchedulerDue
    <3>1. PICK due \in SUBSET Control!Known(control) :
            control' = Control!Probed(control, due) /\ sent' = [Nothing EXCEPT !.probe = due]
      BY <2>10 DEF SchedulerDue
    <3>2. due \in SUBSET Controller!Known(control)
      BY DEF Control!Known, Controller!Known
    <3>3. control' = Controller!Probed(control, due)
      BY <3>1 DEF Control!Probed, Controller!Probed
    <3>4. sent'.echo = {} /\ sent'.probe = due
      BY <3>1 DEF Nothing
    <3>5. Controller!DueFrames
      BY <3>2, <3>3, <3>4 DEF Controller!DueFrames, Controller!Silent
    <3> QED
      BY <3>5 DEF Controller!Next
  <2>11. CASE UNCHANGED vars
    BY <2>11 DEF vars, Controller!vars
  <2> QED
    BY <2>3, <2>4, <2>5, <2>6, <2>7, <2>8, <2>9, <2>10, <2>11 DEF Next
<1> QED
  BY <1>1, <1>2, Invariant, PTL DEF Spec, Controller!Spec
=============================================================================
