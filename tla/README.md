# TLA+ models of LNP Node

LNP Node is a Lightning node made of daemons that talk over a ZMQ service bus.
This directory models how those daemons open channels together, watch the
chain, spend the node's coins, keep connections to peers, store and restore
channels across crashes, and answer their clients. It checks the models with TLC
on small instances, and proves their safety properties with TLAPS, for any number of channels, peers, clients, transactions and faults.

Paths below are relative to the repository.

## The system

| Part | Source | Role |
| --- | --- | --- |
| lnpd | `src/lnpd/` | broker of the bus; starts the other daemons; launches channels (`automata/launch.rs`); holds the funding wallet (`funding.rs`) |
| channeld | `src/channeld/` | one per channel; proposes (`automata/propose.rs`) or accepts (`automata/accept.rs`) it; keeps its state in a file |
| peerd | `src/peerd/` | one per connection to a remote node; a listener thread and a runtime |
| signd | `src/signd/` | derives keys, signs |
| watchd | `src/watchd/` | reports transactions the Electrum server knows; four threads |
| routed | `src/routed/` | knows the channels, computes routes |
| bus | `src/service.rs`, `src/bus/`, `src/automata.rs` | messages, event loop, `Event` |
| client | `rpc/`, `cli/` | sends requests, prints answers |

Each daemon handles one message at a time, so a handler is one atomic action.
An error a handler returns is logged and swallowed by the event loop; a `panic!`
or `expect` ends the daemon. A message to a daemon that is not connected comes
back to its sender from the broker as `EsbError`.

An opening runs like this. A client sends `CreateChannel` to lnpd, which starts a
channeld and asks signd for keys. lnpd hands the keys to channeld, which proposes
the channel to the remote node through peerd. When it is accepted, lnpd's wallet
constructs the funding transaction, the two channelds exchange signatures, and
channeld asks lnpd to publish. lnpd has signd sign, broadcasts, and reports
success. watchd tells channeld once the funding is known, both ends exchange
`FundingLocked`, and the channel is active.

## Modules

| Module | Models | State and actions |
| --- | --- | --- |
| `Services` | what the daemons share | `ctl`, `actl`: messages in flight at the proposing and the accepting node; `p2p`: BOLT messages; `published` |
| `ChannelLauncher` | lnpd | `creating_channels`, `funding_channels`, `channels`, `pending_fundings`; one action per control message |
| `Signd` | signd | a reply to each request, used at both nodes |
| `ChannelPropose` | proposing channeld | `proposal` (the `ChannelPropose` state), `identity`, `remote_sig`; one action per transition |
| `ChannelAccept` | accepting channeld and the lnpd and routed beside it | `acceptance`, `aidentity`, ... ; one action per transition |
| `ChannelOpening` | all of these, with routed, watchd and the network | the composition, fairness and properties |
| `ChannelHandshake` | what an opening promises | phases of a channel; implemented by `ChannelOpening` |
| `Watchd` | watchd's four threads | `track_list`, `cmds`, `tracks`, `updates`, `bridge` |
| `TxTracker` | what watchd promises | implemented by `Watchd` |
| `FundingWallet` | lnpd's wallet and its file | `pending_fundings`, `last_change_index`, `disk`; restarts |
| `PeerLink` | the peerds at both ends of a connection | `wire`, `bridge`, `awaited_pong`, `channels`, counters |
| `NodeRequests` | clients, and what fails around a node | `asks`, `told`, `mishaps`; shared by the next four |
| `PeerRegistry` | lnpd's `Listen`, `ConnectPeer`, `handle_hello`; peer daemons as lnpd sees them | `listens`, `spawning_peers`, `connections`; `launched`, `peerds`, `phellos` |
| `ChannelStore` | channeld's file, `set_identity`, `save_state`, restore; lnpd's registry of channels and `ChannelReestablish` | `file`, `state`, `sent`, `pc`; `channels`, `reestablishing_channels` |
| `Payments` | routed's `PayInvoice` and channeld's `Payment` and `EsbError` | `enquirer`, `payments`, `bounced`; `chan_enquirer`, `undelivered`, `htlcs` |
| `NodeRuntime` | a node with all of these, crashes and restarts | the composition, fairness and properties |
| `ChannelOpeningProofs`, `ChannelLauncherProofs`, `ChannelProposerProofs`, `ChannelBatonProofs`, `FundingWalletProofs`, `WatchdProofs`, `PeerLinkProofs`, `NodeRuntimeProofs` | - | the theorems |

`MCFundingWallet` and `MCNodeRuntime` give constant values for TLC. Definitions marked "Mutant" are plausible bugs; each is used to make sure
that a property would notice it.

Abstractions. A channel stands for its temporary id, its permanent id and its
funding txid. A service id is a pair of a kind and a channel. A signature is the
node that made it. Buses are sets, since each message of an opening is sent at
most once per channel and those in flight together between two daemons commute
(`Services` names them). Failing branches are taken only if `Faults` has their
kind; `Services` lists the kinds. After a panic of lnpd, the broker, the daemons
of its node take no more steps.

`NodeRuntime` looks at the same daemons from another side. `ChannelOpening` has
what each stage of an opening sends and checks, with handlers as atomic actions
and without crashes of channeld. `ChannelStore` reduces a stage to its number and
splits the handler of a message into the steps that touch the disk or send
something: the transition, the three parts of `set_identity`, and the beginning
and end of `save_state`. A file holds a stage, or is absent, or does not decode
(empty, or partly overwritten). `sent` is the last stage whose messages have left
the daemon, so that a crash can be seen to lose what comes after the file. A
report of a daemon to a client, which goes through lnpd, is one step.

watchd appears in `ChannelOpening` as its clients see it, and in full in
`Watchd`. `TxTracker` states the promise that connects the two.

## Runs

All runs turn off the deadlock check: the requests are finitely many, and a model
that has served them rightly stops.

| Run | Checks |
| --- | --- |
| `opening_safety` | two channels, all faults, both orders of `Hello` and `Keyset`: `TypeOK`, `PublishedIsRefundable`, `LauncherIsFiledOnce`, `P2pIsExpected`, `ActiveAgreement`, `ImplementsHandshake`, `OnlyErrorsPanic`, `NoPublishAfterFailure` |
| `opening_progress` | fair daemons, the faults the code reports: `OpeningCompletes` |
| `watchd_safety` | two services, two transactions that get published, `Track` and `Untrack`, failing requests: `TypeOK`, `TrackedIsPolled`, `ImplementsTracker`, `WorkerRuns`, `PublishedIsFound` |
| `wallet_safety` | three channels, three coins, two restarts: `TypeOK`, `LiveFundingIsSpendable`, `ChangeIsFresh`, `OnlyHeavyFundingPanics` |
| `link_safety` | two peerds, one channel opened and one reestablished, two timeouts, closing or silent connection: `TypeOK`, `AwaitedIsUnderWay`, `MessagesAreCounted`, `ChannelsAgree`, `LinkServes` |
| `node_safety` | one channel opened from either side, one peer, two clients, two mishaps: `TypeOK`, `RunningIsRegistered`, `EnquirerIsWaiting`, `SuccessIsEarned`, `StoreLagsByOne`, `IdleIsSaved`, `RestoredIsRecent`, `ConnectAnswered`, `ReestablishCompletes` |

Six runs show where the code and its documentation disagree; `PROJECT.json`
quotes the lines.

| Run | Shows |
| --- | --- |
| `opening_race` | `Hello` before `Keyset`: `OpenChannelWith` goes to signd, and lnpd panics on signd's error |
| `opening_sign_error` | signd cannot sign: its error names lnpd, for which no launcher is filed, and lnpd panics |
| `opening_locked` | a channel locks on a funding that is not mined |
| `watchd_starved` | a tracked transaction that is never published keeps the others from being found |
| `wallet_fee` | seven small coins cover the estimated fee of a funding and not the precise one, and lnpd panics |
| `payment_hang` | the error for a payment over an absent channel goes to whichever client asked routed last, and the client concerned waits for ever |

`opening_race` is why some runs have `KeysFirst`. channeld sleeps a second before
it connects, and signd normally answers sooner, so that is the usual order; the
constant makes it an assumption that can be dropped. `OnlyErrorsPanic` holds
without it: in the two runs with `NoPanic` it is an `Error` of signd that lnpd
panics on, and no other message of an opening can do that.

Four more disagreements came up and have no run. The client hears "Channel
created and active" (`launch.rs:501`) when the funding is broadcast, before
either end has locked it; `ChannelHandshake` says so. The acceptor answers
`FundingCreated` with the signature it got (`accept.rs:168`), which `remote_sig`
records. peerd takes `PingPeer` from its own listener only and refuses the one of
the client's `ping` command (`peerd/runtime.rs:494`), which does not wait for an
answer. The record of a pending funding enters the wallet after its file was saved
(`funding.rs:412`), so that a restart loses it, although the file is to hold the
fundings "used in channels pending negotiation or signature" (`funding.rs:94-95`);
`disk` says so, and the launcher is lost with it.

### Bounds

- Two channels show all interference there is between openings: they share only
  lnpd's maps, keyed by channel. The theorems need no bound.
- `MaxRequests = 3` in `Watchd` lets a transaction be tracked, tracked again by
  another service, and withdrawn. `MaxQueue = 2` bounds the polls the pacemaker
  adds while others are waiting.
- Three channels and three coins in `FundingWallet` make coins scarce: two
  channels compete for a coin while a third one waits, and change is spent again.
  Two restarts allow one before and one after a funding is published. Its inputs
  weigh what those of a 3-of-5 multisig wallet do, three of which exceed the two
  kilo-weight units of the fee estimate, so that lnpd's panic happens in
  `wallet_safety`. `wallet_fee` has the weights of a single-key wallet, and as many
  coins as it takes there.
- `MaxTimeouts = 2` in `PeerLink` lets one end ping twice before the first pong
  comes, or both ends ping at once; two lengths of pongs tell the answers apart.
- `MaxFailures = 2` in `Watchd` bounds requests that fail although every tracked
  transaction is known.
- `MaxMishaps = 2` in `NodeRuntime` bounds failed launches, refused messages,
  daemons that end and restarts together: a daemon dies while it writes its file,
  and its node is restarted; or a restored channel dies again. The peer daemons,
  and the daemons of one channel, share nothing with those of another peer or
  channel but lnpd's maps, which are keyed by them. Two clients compete for a
  connection, and for routed's `enquirer`. The theorems need no bound.

### Fairness

`ChannelOpening` assumes weak fairness of each daemon's event loop
(`Service::run_loop`), of the connection of a started channeld, and of watchd's
poll. Nothing is assumed of clients or miners. `Watchd` assumes it of its four
threads, each a loop, and of the arrival at the server of published transactions.
`PeerLink` assumes it of a daemon's two threads; timeouts and breaks of the
connection are not fair. `NodeRuntime` assumes it of the event loops of lnpd,
routed and running channel daemons, and that a launched peer daemon connects,
unless a mishap ends it. Its liveness properties start when the mishaps are used
up (`Calm`), and nothing is assumed of clients, of the peer or of the progress of
openings. `ReestablishCompletes` is about channels that lnpd does not have on
record, as after a restart: lnpd never forgets a channel whose daemon died, so
it would send the message to nobody, and only a restart helps. `ConnectAnswered`
is about daemons that are starting: one that fails to reach its peer leaves its
client waiting.

`OpeningCompletes` leaves out three kinds of fault that the code does not report
to the client: an error of signd when it signs (`sign`), upon which lnpd panics as
`opening_sign_error` shows, a broadcast that fails (`broadcast`, `launch.rs:500`),
and a failure at the remote node (`remote`). `NoPublishAfterFailure` makes an exception for a missing
watchd: channeld asks for publication before it asks for tracking
(`propose.rs:283-287`), so the failure is reported with the publication under
way. `WorkerRuns` makes one for `Untrack`, which no daemon sends: withdrawing a
transaction that the worker does not have ends it (`worker.rs:213`), and
`PublishedIsFound` then promises nothing.

## Proofs

`ChannelOpeningProofs` proves, for any set `Chan`, any `Faults` and both values of
`KeysFirst`:

- `TypeCorrectness`: `Spec => []TypeOK`;
- `Refundability`: `Spec => []PublishedIsRefundable`;
- `Agreement`: `Spec => []ActiveAgreement`;
- `Implementation`: `Spec => ImplementsHandshake`.

The only assumptions are the two named ones on the constants, that `Faults` has
known kinds of fault and `KeysFirst` is a Boolean.

All four follow from `Invariance`, `Spec => []IInv`. Neither refundability nor
agreement is inductive by itself. A funding is published by lnpd, which knows nothing of the
proposer's state, so `IInv` follows the request to publish on its way: it is with
lnpd as `PublishFunding`, with signd as `Sign`, back with lnpd as `Signed`, or
carried out, in one of these places at a time, and the proposer is in `PUBLISHED`
until it is carried out (`TokenOK`). For the agreement, `P2pOK` ties each
`FundingLocked` in flight to the state of its sender, and `CtlOK` has watchd
report only what was published. `ChanOK` relates stages, ids and signature of one
channel.

The proof has one lemma per action, and frame lemmas for what other channels and
the other node keep: `BusFrame`, `LnpdQuietStep`, `ProposerFrame`,
`AcceptorFrame` and `AcceptorQuietStep`.

For the refinement, `NextSeen` reduces the many steps of the daemons to those the
handshake can see: a stage of the proposer, the broadcast, and the acceptor's
activation. All others stutter (`UnseenStutters`). `IInv` is needed for what the
steps do not say themselves: that success is told exactly of what was published,
and that a channel the acceptor activates is funded and not yet open.

`ChannelLauncherProofs` builds on it, under the same assumptions:

- `LaunchersAreFiledOnce`: `Spec => []LauncherIsFiledOnce`. A launcher moves from
  one place to the next, so the property is inductive once it also says that
  there is none before the client asks (`FilingInv`).

`ChannelBatonProofs` goes on from there, still under the same assumptions:

- `P2pExpected`: `Spec => []P2pIsExpected`;
- `PanicsAreErrors`: `Spec => OnlyErrorsPanic`;
- `NoneAfterFailure`: `Spec => NoPublishAfterFailure`.

They follow from a second inductive invariant, `OneBaton`: `Spec => []BatonInv`. An
opening passes a baton along: a message, a started daemon or a tracked
transaction, and each hands on to the next. `BatonInv` names the batons of a
channel in their order and says of each where the launcher, the proposer and the
acceptor are while it is under way, and which others are not: `LaunchOK` up to
`OpenChannelWith`, where keys and daemon come in either order, `OfferOK` up to
`AcceptChannel`, `FundOK` up to `FundingSigned`, `LockOK` after that. `FormOK` has
type, sender and receiver of a message determine it. `Clean` says that no failure
was told or is about to be; it comes with every baton that may lead to the
funding, as the one who fails is the one who holds the baton and does not pass it
on. Invariants about one daemon do not suffice: that a `FundingSigned` finds the
proposer in `FUNDING` under its permanent id depends on what the acceptor was
sent, and that on the signature signd gave.

The proof has a lemma per handler. Those of lnpd, signd, routed and watchd, and
the definition of `BatonInv`, are in `ChannelLauncherProofs`; those of the
proposing channeld are in `ChannelProposerProofs`, those of the accepting node in
`ChannelBatonProofs`. For the panics, `PanicsOnError` goes through lnpd's handlers: a message that is no `Error` of signd is a baton, whose launcher
`BatonInv` knows. For the publication, `NotPublishedStep` uses that only a `Clean`
proposer asks for it.

`FundingWalletProofs` proves, for any finite sets of channels and coins, any
amounts, rates and weights and any number of restarts, from `WalletAssumption`:

- `TypeCorrect`: `Spec => []TypeOK`;
- `CoinsAreSpendable`: `Spec => []LiveFundingIsSpendable`;
- `ChangeAddressesAreFresh`: `Spec => []ChangeIsFresh`;
- `HeavyFundingsPanic`: `Spec => OnlyHeavyFundingPanics`.

The file is behind memory after each new
funding, and a restart makes the wallet forget that one. This is harmless to
launchers, which the restart ends as well. What must survive is the index of
unspent change that is on record as taken, as the scan does not look at it
(`ChangeOK`, for memory and file alike). That the scan's maximum exists is proved
from the well-foundedness of the subsets of a finite set (`MaxExists`). So is that
the value of some coins is a natural number (`TotalType`), which the types of change
and fee need: a smallest set of coins without a sum (`SumsExist`), or with two
(`SumsAgree`), would have a smaller one.

lnpd's `expect` on `Psbt::construct` can be met, as `wallet_fee` shows. The theorem
says when: coins selected for amount and estimate cover the precise fee, rounded
as the code rounds it, if their transaction weighs at most the 2000 weight units
the estimate allows for (`LightIsCovered`). A selection that makes lnpd panic is
therefore heavier, and nothing else about coins, amounts or rates leads there.

`WatchdProofs` proves, for any sets of transactions and services, any bounds and
queues of any length, from `WatchdAssumption`:

- `TypeCorrect`: `Spec => []TypeOK`;
- `TrackedArePolled`: `Spec => []TrackedIsPolled`;
- `WorkerKeepsRunning`: `Spec => WorkerRuns`;
- `TrackerImplemented`: `Spec => ImplementsTracker`.

The runtime's `track_list` and the worker's `tracks` are joined only by the
commands between them, so the invariant reads these in their order. `Polled` says
of a tracked transaction that it is in `tracks` with no untrack command to come,
or that a track command follows the last of those; `Matched` says of a
transaction that was not withdrawn that each untrack command finds an entry of its
own. `KnownOK` has everything on its way back seen by the server, which is what
the abstract tracker asks of an answer. `RemoveFirstKeeps` is the lemma about the
worker's removal from its list.

`PeerLinkProofs` proves, for any set of channels, any number of timeouts and queues
of any length, from `PeerLinkAssumption`:

- `TypeCorrect`: `Spec => []TypeOK`;
- `AwaitedUnderWay`: `Spec => []AwaitedIsUnderWay`;
- `CountersAgree`: `Spec => []MessagesAreCounted`;
- `ListsAgree`: `Spec => []ChannelsAgree`.

The two queues of a direction, the listener's bridge and the wire, are read as one
sequence, `Under(s)`: reading the socket leaves it as it is, the runtime takes its
head, a message sent or a timeout adds to its end, and a break cuts it. Lemmas
about these four operations carry the proof. The pongs and the counters are
inductive together with the types. The lists are not: `ChanOK` adds that at most
one message of a channel is under way, that it is the last one its channelds
handed over, and how each end lists the channel (`ListedAs`) after the last
message that it sent or got.

`NodeRuntimeProofs` proves, for any sets of channels, peers, clients and addresses
and any number of mishaps, from the named assumptions that `NoClient` is no
client, that every channel has a peer, that `MaxMishaps` is a natural number and
that configured addresses are addresses:

- `FilesLagByOne`: `Spec => []StoreLagsByOne`;
- `IdleDaemonsAreSaved`: `Spec => []IdleIsSaved`;
- `RestoredDaemonsAreRecent`: `Spec => []RestoredIsRecent`;
- `SuccessesAreEarned`: `Spec => []SuccessIsEarned`;
- `EnquirersWait`: `Spec => []EnquirerIsWaiting`;
- `DaemonsAreRegistered`: `Spec => []RunningIsRegistered`;
- `TypeCorrect`: `Spec => []TypeOK`.

The first three follow from `StoreInvariance`, `Spec => []IInv`. A daemon's files
can only be compared with what it sent by knowing where it is in its handler:
`FileOK` says so for the permanent file and for the one under the daemon's id,
`RenameOK` for the steps of `set_identity`, `StageOK` relates stage, id and the
messages sent, and `RelaunchOK` has only channels with a permanent id that the
peer knows relaunched. A channel's part of `IInv` mentions no other channel, which
`OtherChannel` turns into one frame lemma. The next two follow from
`AnswerInvariance`: reports of payments go, if not to the client concerned, then
at least to one that asked for a payment (`AskedOK`), and so never to a client
that waits for a connection. `RunningIsRegistered` is inductive as it stands.
Type correctness combines the two invariants with `SetsOK`, the types of the
registries.

Only model-checked is liveness (`OpeningCompletes`, `PublishedIsFound`,
`LinkServes`, `ConnectAnswered`, `ReestablishCompletes`), as the prover handles
neither fairness nor `ENABLED`.

## Not modelled

- Requests that only read: `GetInfo`, `ListPeers`, `ListChannels`, `ListFunds`.
- Balances of a channel and their loss when a payment is not saved: commitments
  and HTLCs are a library's, and a file is abstracted to the stage it holds.
- Daemons in processes of their own that survive a crash of lnpd: a restart ends
  all of them, as it does when they are threads of lnpd.
- A second daemon under an id in use. lnpd starts one for a `ChannelReestablish` that
  arrives while the first is starting (`lnpd/runtime.rs:226-234`), and an incoming
  connection may bring one for a peer that has one. What the broker does with two
  daemons of one id is the library's; the model keeps one of them.
- A wallet file left half written. The file is overwritten in place
  (`funding.rs:204-210`), which `FundingWallet` takes as one step. `ChannelStore`
  does model this for the files of channels.
- `ChannelReestablish` among the messages that `sent` counts: it belongs to no stage
  of the workflow, and a daemon sends it again after each restart.
- The `expect` on `remote_id` when a pong is overdue (`peerd/runtime.rs:505-508`). The
  library's supervisor of connections hands peerd the id, or none; `PeerLink` takes
  it as known, and says nothing of a runtime that would end there.
- `channeld/storage/`: nothing calls it.
- routed's route computation: the router is a library.
- Bifrost connections beyond their registration: no daemon here sends or takes
  Bifrost messages.
- The ZMQ transport, the noise protocol and the supervisor that accepts
  connections: libraries.
- Parsing of options, printing by the command-line client, creation of key files.
- Scripts, keys and amounts in channels: their logic is in a library.

## Plan

1. `PeerLink` under `ChannelOpening`: the set `p2p` implemented by two peerds.
2. `ChannelOpening` with the crashes of `ChannelStore`, at the size TLC allows.
