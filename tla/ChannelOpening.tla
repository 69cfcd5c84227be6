--------------------------- MODULE ChannelOpening ---------------------------
(***************************************************************************)
(* The opening of channels between two nodes: lnpd, signd, channeld, routed *)
(* and watchd of the proposing node, the daemons of the accepting node and *)
(* the bitcoin network, composed over the buses they share.                *)
(***************************************************************************)
EXTENDS ChannelLauncher, ChannelPropose, ChannelAccept

CONSTANT
    KeysFirst   \* TRUE: a new channeld connects after signd's Keyset reply

ASSUME KeysFirstAssumption == KeysFirst \in BOOLEAN

VARIABLES
    tracking,   \* services and the channels whose funding watchd tracks
    mined,      \* channels whose funding is in a block
    routes      \* channels routed of the proposing node knows of

vars == <<sharedVars, lnpdVars, proposeVars, acceptVars, tracking, mined,
          routes>>

Init ==
    /\ SharedInit
    /\ LnpdInit
    /\ ProposeInit
    /\ AcceptInit
    /\ tracking = {}
    /\ mined = {}
    /\ routes = {}

(* Type correctness of the whole node pair.                                  *)
TypeOK ==
    /\ SharedTypeOK
    /\ LnpdTypeOK
    /\ ProposeTypeOK
    /\ AcceptTypeOK
    /\ tracking \subseteq ChannelIds \X Chan
    /\ mined \subseteq Chan
    /\ routes \subseteq Chan

-----------------------------------------------------------------------------
(* lnpd                                                                      *)

othersThanLnpd == <<proposeVars, acceptVars, tracking, mined, routes>>

ClientCreatesChannel(c) == CreateChannel(c) /\ UNCHANGED othersThanLnpd

LnpdHandles(m) == HandleCtl(m) /\ UNCHANGED othersThanLnpd

(* signd                                                                     *)
SigndHandles(m) ==
    /\ ~panicked
    /\ SigndAnswers(ctl, m, ctl')
    /\ UNCHANGED <<actl, p2p, published, lnpdVars, othersThanLnpd>>

(* channeld.  It sleeps a second before it connects, while signd answers at  *)
(* once; KeysFirst makes that delay an ordering.                             *)
KeysPending(c) ==
    \E m \in ctl : m.type \in {"DeriveKeyset", "Keyset"} /\ m.chan = c

ChanneldStarts(c) ==
    /\ ~panicked
    /\ c \in spawned
    /\ KeysFirst => ~KeysPending(c)
    /\ spawned' = spawned \ {c}
    /\ ChanneldConnects(c)
    /\ UNCHANGED <<requested, told, creating_channels, funding_channels,
                   channels, pending_fundings, panicked, acceptVars, tracking,
                   mined, routes>>

ProposerHandles(c) ==
    /\ ~panicked
    /\ \/ \E m \in ctl : ProposerHandlesCtl(c, m)
       \/ \E m \in p2p : ProposerHandlesP2p(c, m)
    /\ UNCHANGED <<lnpdVars, acceptVars, tracking, mined, routes>>

(* routed of the proposing node                                              *)
RoutedHandles(m) ==
    /\ Receive(m, "ChannelCreated", Router)
    /\ ctl' = ctl \ {m}
    /\ routes' = routes \cup {m.chan}
    /\ UNCHANGED <<actl, p2p, published, lnpdVars, proposeVars, acceptVars,
                   tracking, mined>>

(* watchd, as its clients see it: a tracked transaction is reported once to  *)
(* the service that asked, as soon as the Electrum server knows of it, be it *)
(* in a block or in the mempool.  Module Watchd has the daemon itself.       *)
WatchdTracks(m) ==
    /\ Receive(m, "Track", Watch)
    /\ ctl' = ctl \ {m}
    /\ tracking' = tracking \cup {<<m.src, m.chan>>}
    /\ UNCHANGED <<actl, p2p, published, lnpdVars, proposeVars, acceptVars,
                   mined, routes>>

WatchdFinds(service, c) ==
    /\ ~panicked
    /\ <<service, c>> \in tracking
    /\ c \in published
    /\ tracking' = tracking \ {<<service, c>>}
    /\ ctl' = ctl \cup {CtlMsg("TxFound", Watch, service, c)}
    /\ UNCHANGED <<actl, p2p, published, lnpdVars, proposeVars, acceptVars,
                   mined, routes>>

(* The bitcoin network.                                                      *)
Mine(c) ==
    /\ c \in published \ mined
    /\ mined' = mined \cup {c}
    /\ UNCHANGED <<sharedVars, lnpdVars, proposeVars, acceptVars, tracking,
                   routes>>

(* The daemons of the accepting node.                                        *)
othersThanAcceptor == <<lnpdVars, proposeVars, tracking, mined, routes>>

AcceptorHandles(c) ==
    /\ \/ AcceptorConnects(c)
       \/ \E m \in actl : AcceptorHandlesCtl(c, m)
       \/ \E m \in p2p : AcceptorHandlesP2p(c, m)
    /\ UNCHANGED othersThanAcceptor

AcceptorSigndHandles(m) == AcceptorSignd(m) /\ UNCHANGED othersThanAcceptor

Next ==
    \/ \E c \in Chan : ClientCreatesChannel(c)
    \/ \E m \in ctl : LnpdHandles(m)
    \/ \E m \in ctl : SigndHandles(m)
    \/ \E c \in Chan : ChanneldStarts(c)
    \/ \E c \in Chan : ProposerHandles(c)
    \/ \E m \in ctl : RoutedHandles(m)
    \/ \E m \in ctl : WatchdTracks(m)
    \/ \E service \in ChannelIds, c \in Chan : WatchdFinds(service, c)
    \/ \E c \in Chan : Mine(c)
    \/ \E c \in Chan : AcceptorHandles(c)
    \/ \E m \in actl : AcceptorSigndHandles(m)

Spec == Init /\ [][Next]_vars

(* Every daemon runs its own event loop (or the broker's run_or_panic) and   *)
(* keeps taking messages; started daemons connect; the Electrum poll of      *)
(* watchd recurs.  Nothing makes a client ask or a block be found.           *)
Fairness ==
    /\ WF_vars(\E m \in ctl : LnpdHandles(m))
    /\ WF_vars(\E m \in ctl : SigndHandles(m))
    /\ WF_vars(\E m \in ctl : RoutedHandles(m))
    /\ WF_vars(\E m \in ctl : WatchdTracks(m))
    /\ WF_vars(\E m \in actl : AcceptorSigndHandles(m))
    /\ \A c \in Chan :
           /\ WF_vars(ChanneldStarts(c))
           /\ WF_vars(ProposerHandles(c))
           /\ WF_vars(\E service \in ChannelIds : WatchdFinds(service, c))
           /\ WF_vars(AcceptorHandles(c))

FairSpec == Spec /\ Fairness

-----------------------------------------------------------------------------
(* Whenever a funding transaction has been broadcast, the proposing channeld *)
(* had saved a signature of the refund transaction before (complete_funding  *)
(* saves it and only then asks lnpd to publish): funds never move into the   *)
(* 2-of-2 output while the workflow is still at an earlier stage.            *)
PublishedIsRefundable ==
    \A c \in published :
        /\ remote_sig[c] # "none"
        /\ proposal[c] \in {"PUBLISHED", "LOCKED", "ACTIVE"}

(* A channel has at most one launcher, filed where the next message of its   *)
(* state will look for it: under the temporary id until the funding is       *)
(* constructed, then under the permanent id, then under the funding txid.    *)
(* This is what the panics "unregistered channel launcher" rely on.          *)
LauncherIsFiledOnce ==
    \A c \in Chan :
        /\ creating_channels[Temp(c)]
               \in {"NONE", "INIT", "LAUNCHING", "DERIVING", "NEGOTIATING"}
        /\ creating_channels[Perm(c)] \in {"NONE", "COMMITTING"}
        /\ funding_channels[c] \in {"NONE", "SIGNING"}
        /\ creating_channels[Temp(c)] # "NONE" =>
               creating_channels[Perm(c)] = "NONE" /\ funding_channels[c] = "NONE"
        /\ creating_channels[Perm(c)] # "NONE" => funding_channels[c] = "NONE"

(* lnpd meets none of its panics: each message finds its launcher.           *)
NoPanic == ~panicked

(* A BOLT message in flight is addressed to the id its channeld has at that  *)
(* moment and is the one the workflow there waits for, although both daemons *)
(* change their id from temporary to permanent during the exchange.          *)
P2pIsExpected ==
    \A m \in p2p :
        CASE m.type = "OpenChannel" ->
                 acceptance[m.chan] = "LAUNCH" /\ m.chan \notin aspawned
          [] m.type = "AcceptChannel" ->
                 m.id = identity[m.chan] /\ proposal[m.chan] = "PROPOSED"
          [] m.type = "FundingCreated" ->
                 m.id = aidentity[m.chan] /\ acceptance[m.chan] = "SIGNED"
          [] m.type = "FundingSigned" ->
                 m.id = identity[m.chan] /\ proposal[m.chan] = "FUNDING"
          [] m.type = "FundingLocked" ->
                 IF m.to = "acceptor"
                 THEN m.id = aidentity[m.chan] /\ acceptance[m.chan] = "FUNDED"
                 ELSE m.id = identity[m.chan] /\ proposal[m.chan] = "LOCKED"

(* The two ends agree on an active channel: when the proposer is active so   *)
(* is the acceptor, when the acceptor is active the proposer has locked the  *)
(* funding, and then both are reachable under the permanent id.              *)
ActiveAgreement ==
    \A c \in Chan :
        /\ proposal[c] = "ACTIVE" => acceptance[c] = "ACTIVE"
        /\ acceptance[c] = "ACTIVE" =>
               /\ proposal[c] \in {"LOCKED", "ACTIVE"}
               /\ c \in published
               /\ identity[c] = Perm(c)
               /\ aidentity[c] = Perm(c)

(* A message without launcher, at which lnpd panics, is always an Error of   *)
(* signd: no other message of an opening misses its launcher, whatever fails *)
(* and in whatever order Hello and Keyset come.                              *)
OnlyErrorsPanic ==
    [][~panicked /\ panicked' =>
          \E m \in ctl \ ctl' : m.type = "Error" /\ m.src = Signer]_vars

(* The funding of a channel is on its way to being broadcast.                *)
Publishing(c) ==
    \E m \in ctl :
        /\ m.chan = c
        /\ \/ m.type = "PublishFunding"
           \/ m.type = "Sign" /\ m.src = LnpBroker
           \/ m.type = "Signed" /\ m.dst = LnpBroker

(* Once a client was told that the opening of its channel has failed, the    *)
(* funding transaction is not broadcast, unless that was under way already;  *)
(* and then the channel had taken the peer's signature, and just its funding *)
(* could not be tracked.                                                     *)
NoPublishAfterFailure ==
    [][\A c \in Chan :
          /\ "failure" \in told[c] /\ ~Publishing(c) =>
                 ~Publishing(c)' /\ (c \in published' => c \in published)
          /\ told'[c] # told[c] /\ "failure" \in told'[c] /\ Publishing(c)' =>
                 proposal[c] = "PUBLISHED"]_vars

(* Every client that asks for a channel is told of a failure, as each        *)
(* failing branch of the launcher and of channeld reports, or it is told of  *)
(* success and the channel is active at both nodes and known to both routers. *)
OpeningCompletes ==
    \A c \in Chan :
        c \in requested ~>
            \/ "failure" \in told[c]
            \/ /\ "success" \in told[c]
               /\ proposal[c] = "ACTIVE"
               /\ acceptance[c] = "ACTIVE"
               /\ c \in routes
               /\ c \in aroutes

(* The comment on ChannelPropose::Locked and on ChannelAccept::Locked:       *)
(* "funding transaction is mined".                                           *)
LockedIsMined ==
    \A c \in Chan :
        proposal[c] = "LOCKED" \/ acceptance[c] = "LOCKED" => c \in mined

-----------------------------------------------------------------------------
(* The abstract handshake, see ChannelHandshake.                             *)

PhaseOf(c) ==
    CASE proposal[c] = "ACTIVE"                          -> "open"
      [] proposal[c] # "ACTIVE" /\ c \in published       -> "funded"
      [] c \notin published /\ proposal[c] = "PUBLISHED" -> "committed"
      [] proposal[c] \in {"ACCEPTED", "SIGNING", "FUNDING"} -> "accepted"
      [] proposal[c] = "PROPOSED"                        -> "proposed"
      [] OTHER                                           -> "idle"

Handshake ==
    INSTANCE ChannelHandshake
        WITH phase <- [c \in Chan |-> PhaseOf(c)],
             success <- {c \in Chan : "success" \in told[c]},
             peer <- [c \in Chan |-> acceptance[c] = "ACTIVE"]

(* The opening implements the abstract handshake: the phases of a channel    *)
(* follow each other one at a time, the client hears of success exactly when *)
(* the funding is broadcast, and a channel opens once its peer is active.    *)
ImplementsHandshake == Handshake!HandshakeSpec

=============================================================================
