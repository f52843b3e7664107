# Verification of p2p-tunnler

p2p-tunnler lets two WireGuard endpoints behind NATs find each other: each peer
learns its own public addresses, publishes them encrypted in OpenDHT, listens
for the other peer's record, forwards WireGuard datagrams to every address it
learnt, and probes the addresses to find out which of them work. This directory
models that machinery in TLA+, model-checks it with TLC and proves the central
results with TLAPS. `PROJECT.json` maps every definition to its source lines.

## The system

| part | source | what it does | here |
| --- | --- | --- | --- |
| probe controller | `probe.rs` | per connection: remote run token, path table with timers, rate-limited echoes | `ProbeController`, `PathControl` |
| candidate set | `transport.rs` | addresses from the last DHT record, and sources that presented the token | `CandidateSet` |
| peer session | `candidates.rs`, `probe.rs`, `transport.rs`, `service.rs` | the five tasks that share these two: DHT listener, control handler, probe scheduler, loopback and inbound forwarding | `Session` |
| gathering, publishing | `candidates.rs` | STUN lookups, the list of own addresses, the DHT record | `Gather` |
| router mapping | `nat.rs` | a thread that creates, renews and removes a port mapping | `NatMapping` |
| UDP queues, STUN exchange | `utils.rs`, `transport.rs`, `service.rs`, `stun/mod.rs` | bounded queues around the socket, classification of datagrams, one request and its answer | `InternetSocket` |
| STUN codec | `stun/codec.rs` | requests and responses as bytes | `StunCodec` |
| supervision | `utils.rs`, `service.rs`, `dht.rs` | concurrent set-up; the first task that ends takes the process down | `Supervisor` |
| key generation | `keygen.rs`, `config.rs` | two files, the private one first | `Keygen` |
| two processes | `candidates.rs`, `probe.rs`, `transport.rs` | what the parts achieve together, across restarts | `Rendezvous`, `TwoPeers` |
| OpenDHT, cryptography | `dht.rs`, `crypto.rs` | wrappers of external libraries | environment of the modules above |
| command line | `config.rs`, `app.rs`, `main.rs` | parsing and dispatch | `App` has the dispatch |

How they fit together: `InternetSocket` delivers frames to the handler and data
to the inbound task of `Session`, and answers to the lookups of `Gather`.
`Gather` takes the state of its mapping from the worker of `NatMapping` and
publishes records, which `Session` listens for. `ProbeController` implements the
`PathControl` that `Session` and `TwoPeers` use. `Supervisor` starts all of these
tasks and ends the process when one of them ends. `App` is the program, which
executes either `Supervisor` or `Keygen`.

## Modules

**PathControl** is the probe controller without time. A controller is a record
of a token and a status for each address (`absent`, `new`, `waiting`,
`verified`, `checking`). Its operations are operators on that record, so that
`Session` uses them for its own controller.

**ProbeController** is the controller with its timers. `paths`, `remote_token`
and `reply_sources` are the fields of `State`; `UpdateRemote`, `PacketAction`
and `DueFrames` are the three methods. Each method holds the mutex throughout
and is one action. `Instant`s are kept relative to now (ages, or time left), and
`Tick` moves all of them. Three variables are not in the code: `out` is what the
last call returned to be sent, `lag` is the time since the scheduler last ran,
`echo_age` remembers when each source was last echoed. Frames are represented by
the token they carry. Datagrams are lost, duplicated and delayed without further
machinery: any frame may arrive at any time, or not at all.

**CandidateSet** has the operations of the `CandidateSet` type.

**Session** composes the two with the tasks around them. The runtime is
multi-threaded, and the candidate set, the controller and the local peer have
a lock each, so every critical section is an action of its own: the listener
decides under a read lock (`ListenerAccept`), writes under a write lock
(`ListenerReplace`) and then tells the controller (`ListenerUpdateProbes`);
the handler asks the controller (`HandlerRequest`) and then admits the source
(`HandlerAdmit`); the inbound task checks a source (`InboundCheck`) and then
delivers (`InboundForward`); the loopback task notes WireGuard's endpoint
(`LoopbackReceive`) and then sends (`LoopbackForward`). DHT records are any
member of `Message`, in any order and any number of times. The local clock moves
forward only. `newest`, `record`, `offered` and `presented` are history variables.

**Gather** has the two tasks behind the published record, the one-place
overflowing broadcast channel between them and the watch of the mapping worker.
A lookup takes up to `MaxLookup`, a put up to `MaxPut`, and a task that is ready
runs before time passes. `run_once` is false, as `service.rs` sets it.

**NatMapping** has the mapping worker, the `Mapping` handle, the shutdown
channel and the router's lease. Requests to the router succeed or fail and take
no time. Not followed: a NAT-PMP mapping given up because its external address
cannot be read, when UPnP IGD then succeeds (the first lease just expires).

**InternetSocket** has the path of a datagram out of and into one socket: the queue
and the sender task with its retry (`SenderTakes`, `SenderSends`, `SenderWakes`), the
receiver task, the router with the classifier of `setup_connection`, its three queues
(`stunq`, and `others` for probes and data), and `send_request` on top
(`LookupStarts`, `LookupReceives`, `LookupGivesUp`). Every `try_send` drops what does
not fit. A datagram is a record of what the classifier and the lookup tell apart:
whether it starts with the probe magic, its length, the cookie, the id, the body, the
source. The network delays, repeats and loses; the public address changes, and the
routes do (`Routes` lists the sets of reachable destinations). A task ready to run
needs no time. Not followed: a reader of one of the three queues that has ended, which
also ends the router; the process is then ending (`Supervisor`).

**StunCodec** is `stun/codec.rs` on sequences of bytes, because padding, length
fields and the XOR are what can go wrong. Encoding is a set of operators; the
decoder's loop is a state machine with one step per attribute. An index outside
of a slice, which panics in the code, is an evaluation error in TLC. What a datagram
means is told without a cursor, from the parts its bytes are put together from
(`IsDatagram`, `Cut`, `Says`, `Meaning`). The exclusive or of two bytes is the
constant `ByteXor`; `MCStunCodec` gives it its value.

**Supervisor** has `run`: validation, the start of the DHT, the futures that
`join_all` drives (the steps of each are the stretches between two points where
`setup_connection` may wait or fail), and `TaskMonitor`. A task may end at any
time from its spawning on (`TaskEnds`) and reports afterwards (`TaskReports`),
whether it failed, returned or panicked.

**Keygen** has `generate` on a small file system with old files and symbolic
links. Each call to the operating system is an action that may fail, a write may
fail half-way, and several commands run at once.

**App** is `app::run`: a process hands over to `generate` or to `run`. The two share
no state, so each behaviour is one of `Keygen` or one of `Supervisor`.

**Rendezvous** follows one peer's records to the other: `publish_candidates`, a
DHT that keeps every record and delivers any of them at any time, and the
freshness and replay checks of `listen_for_peer_candidates`. Either side may be
restarted, lookups fail, the address moves, the publisher's clock is wrong and is
stepped. Timestamps are relative to the listener's clock. A record that is delivered
while it is too far in the future, or not newer than the last one, is dropped. `owed`
is not in the code: it is the one record the DHT still has to deliver a first time,
and serves only to state what the DHT is assumed to do.

**TwoPeers** has two whole processes, from the operators of `PathControl` and
`CandidateSet`: records, tokens, probes and echoes, with restarts, moves and
failed lookups of either and a network that loses, repeats and reorders: a frame in
flight arrives any number of times, or never, until later frames of its sender take its
place (`Sends`, `MaxFrames`). In some behaviours all lookups of a peer fail, from the
first one on (`mute`). It leaves timers to `ProbeController`, critical sections to `Session` and the age of records
to `Rendezvous`.

## Runs

| run | specification | properties | bounds |
| --- | --- | --- | --- |
| `probe` | `ProbeController` | `TypeOK`, `VerifiedIsRecent`, `ProbingNeverStops`, `TrafficBounded`, `EchoSpacing`, `ImplementsPathControl`, `EveryCheckResolves` | two addresses, two tokens, one place in each table, the code's schedule in seconds but for a `ReplyInterval` of 2, so that a request dropped within it refreshes its entry, a scheduler up to 2 s late |
| `session` | `Session` | `TypeOK`, `PlanesAgree`, `RecordInForce`, `NewestWins`, `Ipv4OnlyProbes`, `DataPlaneJustified`, `FanOutBounded` | an IPv4, an IPv6 and an unusable address, room for one peer-reflexive address, two lists that give different addresses, so that `no_clear` has something to retain, one of them just as long as the limit, the other longer and with a repeated entry; one remote token or none, timestamps on both sides of each limit |
| `gather` | `Gather` | `PublicationCatchesUp`, `DeadMappingWithdrawn`, `NoBusyLookup`, `StopTogether` | unit of 3 s: 15 s and 60 s waits, lookups up to 3 s, puts up to 6 s |
| `nat_mapping` | `NatMapping` | `ActiveMeansLeased`, `DroppedMappingExpires` | unit of 30 s: 60 s minimum, leases of 90 s to 30 min, 2 h for UPnP |
| `stun_codec` | `StunCodec` | `DecodesTheMeaning`, `EncodesTheRequest`, `CallReturns` | every response of up to three out of 22 sample attributes, one for each way an attribute can be read or refused; damaged headers; requests of every shape with user names around the padding and the 16-bit limit |
| `socket` | `InternetSocket` | `AddressIsCurrent`, `StrayNeverEndsLookup`, `SentInOrder`, `LookupEnds`, `HeldDatagramsLeave` | two lookups, two public addresses, queues of one place, a retry as long as the deadline, so that a request can leave after its lookup has ended; a foreign response and one too short for an id arrive |
| `app` | `App` | `NoHalfStart`, `FirstReportIsTheReason`, `FailureEndsRun`, `SecretNotExposed`, `SuccessLeavesPair`, `OldFilesKept` | up to two connections and two peers, with and without a fixed port, a shared local port, bad keys; two tasks fail. Two `generate` commands with all flags on two paths, one the public name of the other |
| `rendezvous` | `Rendezvous` | `EventuallyCurrent`, `RunsNeverGoBack` | two addresses, two runs of each side, a clock that is right or ahead by more than the accepted skew, one further trouble; the code's delays scaled down in their order |
| `two_peers` | `TwoPeers` | `VerifiedMeansAnswered`, `EchoEndsExchange`, `BothReachable`, `BothVerify` | a peer with one address and one with two, whose lookups may all fail; one frame of each peer in flight, one restart, move or failure |

Paths do not influence each other except through the two limits, so one address
more than the limits is enough. In `InternetSocket` a queue of one place is full
and empty in turn, and a second lookup is enough for an answer to be late; a
datagram of another task takes the place of a lookup's. With one frame of each peer in
flight the network of `two_peers` is the most lossy one, and it still repeats and
delays: an echo of an earlier run arrives while a probe of the present one is on its
way to be answered, which is the case `VerifiedMeansAnswered` is about. The two safety
properties are proved for any number of frames. `CatchUp` and
`WithdrawLimit` in `Gather` are tight: with one unit less TLC finds a violation.
The code sets no limit on a put. `PublicationCatchesUp` needs none: it is about a list
that stays the newest for as long as three puts take. `DeadMappingWithdrawn` has
`ShortPuts` as its premise, that two puts take less than the shortest gathering wait,
which the run's values satisfy; with slower ones the overflow branch could put the old
list for ever.

Three runs show where the code and its documentation disagree:

- `session_ipv4_only`: the documentation says an IPv4-only peer must not send to
  an IPv6 address. The filter is applied to records, but a source that presents
  the token is admitted whatever its family, and receives WireGuard data.
- `session_recovered`: the documentation says a source that presents the token
  becomes a peer-reflexive candidate that a DHT refresh does not remove. One that
  is advertised at that moment is not added, so the next record removes it.
- `nat_short_lease`: the documentation says a mapping is renewed before its lease
  expires. The renewal waits for at least 60 s, so a lease of 60 s or less has
  expired by then, and is published meanwhile.

Another difference has no run: `docs/architecture.md` says the binary uses a
current-thread runtime, and `main` builds a multi-threaded one. This is why `Session`
interleaves its tasks at every lock and not only where a task awaits something that
is not ready.

## Fairness

`ProbeController`: time passes, and the scheduler's interval timer fires
(`MissedTickBehavior::Delay` delays a tick and drops none). Nothing is assumed
about frames or records. `Gather`: the runtime runs a ready task, and time
passes; which outcome a lookup or a put has is not constrained. `NatMapping`: the
worker is a thread of its own, and time passes; renewals may succeed for ever as
long as the handle is held. `Session` and `Keygen` are
only checked for safety.

`InternetSocket`: the runtime runs the sender, the router and the lookup when
they can run, and time passes; the network owes nothing, and the readers of the
other queues may stop reading. `LookupEnds` rests on `MaxArrivals`: datagrams do
not arrive faster than the lookup can skip them. `HeldDatagramsLeave` has routes
that come back for good as its premise. `Supervisor`: the runtime polls `run`, each
set-up and each task that has something to report; nothing makes a task end.
`StunCodec`: a call runs to its end. `Rendezvous`: both programs run, lookups
succeed in the end, and of the records that the publisher puts again and again the DHT
delivers some before they are too old, whether the listener then takes them or drops
them. `EventuallyCurrent` has as its premise that the last clock step leaves a clock the
listener believes. `TwoPeers`: the newest record is delivered in the end, all paths are probed
again and again (which `ProbingContinues` proves of the controller), and of the
frames a peer sends again and again from its present address some arrive. The restarts,
moves and failures are finitely many, so the liveness properties say what happens after the last one.
`BothReachable` needs fewer addresses than the peer-reflexive set holds: the set
never shrinks, and a peer without lookups that moves more often than that is not
admitted again.

## Proofs

`ProbeController_proofs`, for all sets of addresses and tokens and all
intervals, bounds and lateness its assumptions allow:

- `TypeCorrect`, `VerifiedPathsAreRecent` and `ProbingContinues` follow from one
  inductive invariant, `Inv`. `VerifiedIsRecent` is not inductive: the age of an
  acknowledgement is bounded only together with the timer. `Scheduled` therefore
  bounds the sum of the age of the last acknowledgement and the time left to the
  next probe, and, once that probe is out, bounds the acknowledgement by the age
  of the probe. It also needs that a check is over before the next probe is due,
  which is `TimingAssumption` (13.5 s against 3 s in the code).
- `EchoesAreSpaced` uses the last conjunct of `Inv`: a source echoed within
  the interval has an entry in the reply table at least as recent.
- `TrafficIsBounded` follows from it: the recently echoed sources are among the
  recent entries of the table, and their number is checked before one is added.

- `Refinement`: the timed controller implements `PathControl`, with `StatusOf` as
  the mapping. The step that needs `Inv` is `DueFrames`: a path under check comes up
  for a probe only after it was demoted.

`Gather_proofs` has the router mapping first, for all lifetimes and intervals. It
proves `LeaseOutlastsRenewal`: `ActiveMeansLeased` holds whenever every lifetime
granted is longer than the renewal minimum (`LongLeases`), from the invariant that the
time left of the lease exceeds the time left to the renewal. The assumption is needed:
`nat_short_lease`.

`TypeCorrect` and `MappingAsGathered` need no such assumption. The second connects the
two models of the mapping: what `Gather` assumes of the worker (it starts with a mapping
that is active, ends only after reporting it inactive, and never reports one active
again) is what the worker of `NatMapping` does.

`Session_proofs`, for all sets of addresses, records, limits and flags, proves
every property that `session` checks, from one invariant with four
parts. `CandidatesInv` says what may be in the candidate set and in the history
variables. `ListenerInv` describes the listener between its three critical
sections: while it is about to replace the set or to tell the controller, its
local copy is what the set is, or is about to be. It is what makes `PlanesAgree`
and `RecordInForce` inductive: both speak only of moments when the listener is
elsewhere. `DataInv` does the same for the inbound and the loopback task, whose
check is stale when they act on it. `ConnectionImplementsPathControl` closes the
chain between the two levels: `ProbeController` implements `PathControl`, and all
that a connection does to its controller, and every echo and probe it sends, is a
step of `PathControl`. (The peers of `TwoPeers` use the same operators, but a restart
of the process is not a step of one controller.)

`TwoPeers_proofs` proves `VerifiedByTheRun` and `NoPingPong` for any addresses and
any number of restarts, moves and frames. The invariant says what a frame in flight
means, whatever has happened since it was sent (`FrameMeaning`): a probe comes from
the peer whose token it does not carry, and an echo goes to that peer and is on
record as sent. A frame with a peer's own token that reaches it is therefore never
an echo. This needs that addresses of one peer are never taken for those of the
other (`OwnAddresses`, `PathsOfOther`).

`Gather_proofs` then has `Gather` itself, for all intervals, in two parts. The first
(`Base`) is for puts of any length and gives `PublicationAlwaysCatchesUp`,
`LookupsAreNeverBusy` and `DeadMappingLeavesLists`: from one lookup after a mapping's end
no list that is announced names it. The age of a list, or of a mapping's end, is bounded
only together with the time left of the put in progress (`Rest`): `Progress` allows
their sum one, two or three puts, as the newest list is behind an overflow, in the
channel or being put. `Renewed` bounds the time until a list without the mapping is
announced. The second part (`Inv`) gives `DeadMappingAlwaysWithdrawn`, that the published
record drops the mapping too, from the premise `ShortPuts`, which stands in the theorem.
It is needed so that the channel does not overflow again and again (`Spacing`): between
two lookups there is a wait longer than two puts, which empties the channel, except for
the one lookup that the end of the mapping starts early. `Debt` bounds the puts of the
lists before the one without the mapping.

`InternetSocket_proofs` proves `AddressAlwaysCurrent`, `StrayNeverEnds` and
`AlwaysSentInOrder` for all queue lengths, timeouts and stray datagrams. An answer is
current because of its id, so the invariant follows the ids: no request, queued, held
by the sender or on the network, has an id ahead of the lookup's (`Requests`), and
wherever an answer with the id of the present lookup is, the address in it is one the
socket had since that lookup began (`Answers`). What is in the STUN queue is longer
than the header, since the classifier let it in; this is why no stray datagram makes
the decoder fail. `SentInOrder` compares whole sequences and is proved place by place
(`Ordered`): what has left, what is held and what is queued are consecutive numbers.

`Rendezvous_proofs` proves `RunsAlwaysAdvance`, an action property, for all ages,
skews and clock errors. While the clock is not set back, the timestamps in the DHT are
in the order of the runs that wrote them (`StampsInOrder`), hence a record of an
earlier run is shut out by the timestamp the listener remembers (`EarlierShutOut`),
until it is too old to be fresh.

`StunCodec_proofs`, for all bytes:

- `AlwaysDecodesTheMeaning`: the decoder returns what a datagram means, with any number
  of attributes of any length, whole or cut short. The inductive invariant `CodecInv`
  says that the loop, at a cursor, has read the pieces before it (`HasRead`): the
  cursor is where the next piece starts, none was refused, and each address found is the
  first of its kind among them. A round of the loop reads one more piece (`PieceRead`),
  which rests on what is read at a place of the body being what the piece itself holds
  (`HeadRead`, `WholeRead`, `StumpRead`), and on the mask being undone (`MaskedRead`).
- `EveryDatagram`: all bytes are such a datagram, so the theorem leaves no input out.
  Among the ways to begin cutting a body there is one that leaves the fewest bytes
  (`Least`), and it leaves none, since at every place before the end another piece
  can be cut off (`NextPiece`).
- `AlwaysEncodesTheRequest`: a request is written as a message whose fields and
  attributes read back, and refused only for the three stated reasons. `Parts` has
  where each attribute is; `NameEncoded` has the padding and the 16-bit limit.

`App_proofs` proves the properties of both commands of the process, as theorems about
`AppSpec`. A command that is not the one dispatched to changes nothing (`Unused`,
`NothingRuns`).

- The run command, for any number of connections, peers and failures:
  `NeverHalfStarted` and `FirstReportIsAlwaysTheReason`. `SetUp` says which tasks a
  set-up in progress has started, by where it is and by the peer it is at; a task,
  once started, is alive, has ended or has reported (`Progress`), and what the
  shared slot holds is the first report (`Reason`). That `run` supervises only when no
  set-up failed uses that a failed one would have been found: the first of them is
  the least element of a non-empty set of numbers (`Least`, `FirstError`).
- Key generation, for any number of commands and paths: `SecretsStayPrivate`,
  `SuccessMeansPair` and `OldFilesStay`. A file that a command has opened is there,
  is not an old one unless it overrides, and is restricted from the next step on
  (`OpenInv`); two commands that are `Apart` have no opened file in common
  (`ApartInv`), because creation is exclusive; hence what a command wrote stays
  (`PairInv`).

Assumed of the constants: addresses are finitely many; `None` is none of the other
values; the local token is not a remote token; intervals are positive; there are two
peers, each with an address of its own; the mapping's address is not also one that STUN
reports (if it is, it is rightly published when the mapping has ended); a stray datagram does not
carry the id of a STUN request, which is drawn from 2^64; clock errors are integers;
exclusive or yields a byte and undoes itself (`XorAssumption`, which TLC evaluates for
all pairs of bytes); a request has the fields of its Rust type; a run command has the
shape its configuration file is parsed to.

Only model-checked: all liveness properties, which are outside the prover's reach
(`EveryCheckResolves`, `StopTogether`, `DroppedMappingExpires`, `CallReturns`,
`LookupEnds`, `HeldDatagramsLeave`, `FailureEndsRun`, `EventuallyCurrent`,
`BothReachable`, `BothVerify`). Every safety invariant and action property that a run
checks is also proved.

## Not modelled

- `crypto.rs`: the box is external. A value that does not decrypt is skipped by the
  listener and changes nothing; nonces are drawn at random.
- The inside of OpenDHT, of the PCP, NAT-PMP and UPnP libraries and of the name
  resolver: their calls succeed or fail, and the DHT delivers what it likes.
- The parsing in `config.rs` and the parsing of records in `message.rs` beyond their limits and
  flags: declarative, without state.
- Of `app.rs`, logging and the two diagnostic commands, which run one lookup
  (`InternetSocket`, with `run_once`) or only the DHT, and print the result.
- `StunCodec::encode_sink`, which nothing calls.
- Two open questions the models state as assumptions: the code sets no limit on how
  long `dht.put` takes (`Gather` assumes one), and a listener's own clock that is set
  back shuts out records for as long as it was set back (`Rendezvous` has this for
  the publisher's clock only, since only the difference of the two matters).
