---------------------------- MODULE NodeRuntime -----------------------------
(***************************************************************************)
(* A running node: lnpd's registries, peer daemons, channel daemons with   *)
(* their state files, routed and the clients, with daemons that crash and  *)
(* restarts of the whole node.  Composes PeerRegistry, ChannelStore and    *)
(* Payments.                                                               *)
(***************************************************************************)
EXTENDS Payments

vars == <<clientVars, mishaps, registryVars, storeVars, paymentVars>>

Init ==
    /\ RequestsInit
    /\ mishaps = 0
    /\ RegistryInit
    /\ StoreInit
    /\ PaymentsInit

-----------------------------------------------------------------------------
(* Steps of lnpd and of peer daemons that concern connections.               *)
ClientConnects(cl, p) ==
    HandleConnectPeer(cl, p) /\ UNCHANGED <<storeVars, paymentVars>>

ClientListens(cl, a) ==
    HandleListen(cl, a) /\ UNCHANGED <<storeVars, paymentVars>>

PeerdStep(p) ==
    /\ PeerdConnects(p) \/ HandlePeerHello(p)
    /\ UNCHANGED <<storeVars, paymentVars>>

PeerdMayStep(p) ==
    /\ PeerArrives(p) \/ PeerdFails(p)
    /\ UNCHANGED <<storeVars, paymentVars>>

(* With its daemon the connection ends, for every channel with the peer.     *)
ConnectionEnds(p) ==
    /\ PeerdStops(p)
    /\ on_link' = {c \in on_link : PeerOf[c] # p}
    /\ UNCHANGED <<channels, reestablishing_channels, hellos, role, daemon,
                   identity, state, pc, file, sent, wire, inbox, paymentVars>>

-----------------------------------------------------------------------------
(* Channels are opened and re-established over a connection.                 *)
ChannelOpens(c) ==
    /\ PeerOf[c] \in peerds
    /\ \E side \in {"propose", "accept"} : LaunchChannel(c, side)
    /\ UNCHANGED <<clientVars, registryVars, paymentVars>>

PeerAsks(c) ==
    /\ PeerOf[c] \in peerds
    /\ PeerReestablishes(c)
    /\ UNCHANGED <<clientVars, registryVars, paymentVars>>

(* Steps of channel daemons without messages to the peer, and of lnpd.       *)
StoreStep(c) ==
    /\ \/ ChanneldCreates(c) \/ ChanneldRestores(c)
       \/ LnpdConstructs(c) \/ HandleChannelUpdate(c)
       \/ HandleChannelHello(Temp(c)) \/ HandleChannelHello(Perm(c))
       \/ RenameSaves(c) \/ RenameRemoves(c) \/ SaveBegins(c) \/ SaveEnds(c)
       \/ ForwardReestablish(c) \/ LaunchReestablish(c)
    /\ UNCHANGED <<clientVars, registryVars, paymentVars>>

StoreMayStep(c) ==
    /\ \/ RenameCreates(c) \/ RenameRefuses(c)
       \/ LaunchReestablishFails(c) \/ RefuseReestablish(c)
    /\ UNCHANGED <<clientVars, registryVars, paymentVars>>

(* Transitions, most of which send the peer a message.                       *)
Sends(c) ==
    /\ IF state[c] + 1 \in ToPeer(c) THEN SendP2p(c) ELSE UNCHANGED undelivered
    /\ UNCHANGED <<clientVars, registryVars, enquirer, payments, bounced,
                   chan_enquirer, htlcs>>

WorkflowStep(c) == ProcessEvent(c) /\ Sends(c)

WorkflowGoesOn(c) == RenameProcesses(c) /\ Sends(c)

ChannelReestablished(c) ==
    /\ CompleteReestablish(c)
    /\ SendP2p(c)
    /\ UNCHANGED <<clientVars, registryVars, enquirer, payments, bounced,
                   chan_enquirer, htlcs>>

ChannelCrashes(c) ==
    /\ ChanneldCrashes(c)
    /\ chan_enquirer' = [chan_enquirer EXCEPT ![c] = NoClient]
    /\ undelivered' = undelivered \ {c}
    /\ UNCHANGED <<clientVars, registryVars, enquirer, payments, bounced, htlcs>>

-----------------------------------------------------------------------------
ClientPays(cl, c) ==
    HandlePayInvoice(cl, c) /\ UNCHANGED <<mishaps, registryVars, storeVars>>

PaymentStep(cl) ==
    \/ /\ RoutedReportsError(cl) \/ \E c \in Chan : PaymentBounces(cl, c)
       /\ UNCHANGED <<mishaps, registryVars, storeVars>>
    \/ /\ \E c \in Chan : HandlePayment(cl, c)
       /\ UNCHANGED <<registryVars, storeVars>>

EsbErrorStep(c) ==
    /\ HandleEsbError(c)
    /\ UNCHANGED <<mishaps, registryVars, channels, reestablishing_channels,
                   hellos, role, daemon, identity, state, file, sent, on_link,
                   wire, inbox>>

(* All daemons end and lnpd is started again; its clients are gone.          *)
NodeRestarts ==
    /\ Mishap
    /\ asks' = [cl \in Client |-> NoRequest]
    /\ told' = [cl \in Client |-> {}]
    /\ RegistryReset
    /\ StoreReset
    /\ PaymentsReset

Next ==
    \/ \E cl \in Client :
           \/ \E p \in Peer : ClientConnects(cl, p)
           \/ \E a \in Addr : ClientListens(cl, a)
           \/ \E c \in Chan : ClientPays(cl, c)
           \/ PaymentStep(cl)
    \/ \E p \in Peer : PeerdStep(p) \/ PeerdMayStep(p) \/ ConnectionEnds(p)
    \/ \E c \in Chan :
           \/ ChannelOpens(c) \/ PeerAsks(c)
           \/ StoreStep(c) \/ StoreMayStep(c)
           \/ WorkflowStep(c) \/ WorkflowGoesOn(c)
           \/ ChannelReestablished(c) \/ ChannelCrashes(c)
           \/ EsbErrorStep(c)
    \/ NodeRestarts

Spec == Init /\ [][Next]_vars

(* A daemon that runs takes the messages of its bus one after the other, and *)
(* finishes a handler it has begun.  Nothing is assumed of clients, of the   *)
(* peer, of the events of the opening and of mishaps.                        *)
FairSpec ==
    /\ Spec
    /\ \A p \in Peer : WF_vars(PeerdConnects(p) /\ PeerdStep(p))
                       /\ WF_vars(HandlePeerHello(p) /\ PeerdStep(p))
    /\ \A c \in Chan : WF_vars(StoreStep(c)) /\ WF_vars(WorkflowGoesOn(c))
                       /\ WF_vars(ChannelReestablished(c))
                       /\ WF_vars(EsbErrorStep(c))
    /\ \A cl \in Client : WF_vars(PaymentStep(cl))

-----------------------------------------------------------------------------
(* Type invariant.                                                           *)
TypeOK ==
    /\ asks \in [Client -> Request]
    /\ told \in [Client -> SUBSET {"success", "failure"}]
    /\ mishaps \in 0..MaxMishaps
    /\ listens \subseteq Addr /\ listening \subseteq Addr
    /\ spawning_peers \in [Peer -> Client \cup {NoClient}]
    /\ connections \subseteq Peer /\ launched \subseteq Peer
    /\ peerds \subseteq Peer /\ phellos \subseteq Peer
    /\ channels \subseteq ChannelIds /\ hellos \subseteq ChannelIds
    /\ reestablishing_channels \subseteq Chan
    /\ role \in [Chan -> {"none", "propose", "accept"}]
    /\ daemon \in [Chan -> {"none", "launching", "fresh", "relaunching", "restored"}]
    /\ identity \in [Chan -> {"temp", "perm"}]
    /\ state \in [Chan -> 0..7] /\ sent \in [Chan -> 0..7]
    /\ pc \in [Chan -> {"idle", "created", "renamed", "removed", "handled", "saving"}]
    /\ file \in [Chan -> [temp : -2..7, perm : -2..7]]
    /\ on_link \subseteq Chan /\ wire \subseteq Chan /\ inbox \subseteq Chan
    /\ enquirer \in Client \cup {NoClient}
    /\ payments \subseteq Client \X Chan /\ htlcs \subseteq Client \X Chan
    /\ bounced \subseteq Client /\ undelivered \subseteq Chan
    /\ chan_enquirer \in [Chan -> Client \cup {NoClient}]

(* A daemon that serves a peer or a channel is in lnpd's registry, or its    *)
(* Hello is on its way: through handle_hello, the two renamings of a channel *)
(* and restarts no daemon that runs drops out of the lists lnpd shows.       *)
RunningIsRegistered ==
    /\ peerds \subseteq connections \cup phellos
    /\ \A c \in Chan :
           Running(c) => {Temp(c), Perm(c)} \cap (channels \cup hellos) # {}

(* A client is filed in spawning_peers while it waits for that very          *)
(* connection, and until it gets its final answer.                           *)
EnquirerIsWaiting ==
    \A p \in Peer :
        spawning_peers[p] # NoClient =>
            /\ asks[spawning_peers[p]] = ConnectPeer(p)
            /\ ~Answered(spawning_peers[p])

(* A client that is told Success has what it asked for: the HTLC of its own  *)
(* payment has left, or its address is filed; for ConnectPeer the peer is    *)
(* registered or another client still waits for it.                          *)
SuccessIsEarned ==
    \A cl \in Client : "success" \in told[cl] =>
        /\ \A c \in Chan : asks[cl] = PayInvoice(c) => <<cl, c>> \in htlcs
        /\ \A a \in Addr : asks[cl] = Listen(a) => a \in listens
        /\ \A p \in Peer : asks[cl] = ConnectPeer(p) => KnownPeer(p)

(* Once a message under the permanent id has left, the channel's file is at  *)
(* most one stage behind what the peer was sent, wherever the daemon dies;   *)
(* or it is being overwritten, or was when the daemon died.                  *)
StoreLagsByOne ==
    \A c \in Chan :
        (role[c] # "none" /\ sent[c] >= Renaming(c)) =>
            \/ file[c].perm >= sent[c] - 1
            \/ file[c].perm = Broken /\ (pc[c] = "saving" \/ ~Running(c))

(* Between two messages the file of a channel daemon, under the id the       *)
(* daemon has on the bus, holds the stage the daemon is in.                  *)
IdleIsSaved ==
    \A c \in Chan :
        (Running(c) /\ pc[c] = "idle" /\ state[c] > 0) =>
            file[c][identity[c]] = state[c]

(* A daemon relaunched after a crash or a restart knows of all but the last  *)
(* stage the peer was sent messages of: run takes no file that would put the *)
(* channel further back.                                                     *)
RestoredIsRecent ==
    \A c \in Chan : daemon[c] = "restored" => state[c] >= sent[c] - 1

-----------------------------------------------------------------------------
(* Nothing fails any more.                                                   *)
Calm == mishaps = MaxMishaps

(* A client whose connection is under way gets its final answer once nothing *)
(* fails any more: two daemons that race for one peer, or a peer that        *)
(* connects first, never leave it waiting.                                   *)
ConnectAnswered ==
    \A cl \in Client, p \in Peer :
        (Calm /\ spawning_peers[p] = cl /\ p \in launched \cup phellos)
            ~> Answered(cl)

(* After a restart of the node, a ChannelReestablish for a channel whose     *)
(* file can be read brings its daemon back, active and saved, once nothing   *)
(* fails any more.                                                           *)
ReestablishCompletes ==
    \A c \in Chan :
        (/\ Calm /\ c \in wire /\ file[c].perm >= 0 /\ daemon[c] = "none"
         /\ {Temp(c), Perm(c)} \cap (channels \cup hellos) = {})
            ~> (Running(c) /\ state[c] = Active(c) /\ file[c].perm = Active(c))

(* lnpd reports an absent daemon to the sender "so the client will not hang  *)
(* waiting for updates forever": a payment gets a final answer, if nothing   *)
(* fails but its channel's daemon being absent.                              *)
PaymentAnswered ==
    \A cl \in Client, c \in Chan :
        asks[cl] = PayInvoice(c) ~> Answered(cl)

=============================================================================
