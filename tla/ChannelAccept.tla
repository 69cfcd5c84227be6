---------------------------- MODULE ChannelAccept ---------------------------
(***************************************************************************)
(* The accepting node: lnpd starting a channeld for an OpenChannel from    *)
(* the peer, the ChannelAccept workflow of that channeld, and routed,      *)
(* whose echo of Hello lets the workflow finish.                           *)
(*                                                                         *)
(* No client asked for the channel, so a failed step is reported to nobody *)
(* and a message to a peer that is gone is lost.  All of these failures    *)
(* are the fault "remote" of the proposing node.                           *)
(***************************************************************************)
EXTENDS Signd

VARIABLES
    accepting_channels,  \* channels whose channeld lnpd waits for
    aspawned,            \* channeld processes started, not yet connected
    achannels,           \* ids of the channel daemons lnpd knows of
    acceptance,          \* state of the ChannelStateMachine of each channel
    aidentity,           \* service id under which each channeld is reachable
    aroutes              \* channels routed knows of

acceptVars == <<accepting_channels, aspawned, achannels, acceptance, aidentity,
                aroutes>>

AcceptStates == {"LAUNCH", "ACCEPTED", "SIGNED", "FUNDED", "LOCKED", "ACTIVE"}

AcceptInit ==
    /\ accepting_channels = {}
    /\ aspawned = {}
    /\ achannels = {}
    /\ acceptance = [c \in Chan |-> "LAUNCH"]
    /\ aidentity = [c \in Chan |-> Temp(c)]
    /\ aroutes = {}

AcceptTypeOK ==
    /\ accepting_channels \subseteq Chan
    /\ aspawned \subseteq Chan
    /\ achannels \subseteq ChannelIds
    /\ acceptance \in [Chan -> AcceptStates]
    /\ aidentity \in [Chan -> ChannelIds]
    /\ aroutes \subseteq Chan

-----------------------------------------------------------------------------
(* lnpd of the accepting node.                                               *)

(* handle_p2p on OpenChannel: the request is remembered once the daemon is   *)
(* started; if it does not start the peer is told nothing.                   *)
AcceptorLaunches(c, m) ==
    /\ m \in p2p
    /\ m.type = "OpenChannel"
    /\ m.id = LnpBroker
    /\ m.chan = c
    /\ p2p' = p2p \ {m}
    /\ \/ /\ aspawned' = aspawned \cup {c}
          /\ accepting_channels' = accepting_channels \cup {c}
       \/ "remote" \in Faults /\ UNCHANGED <<aspawned, accepting_channels>>
    /\ UNCHANGED <<achannels, acceptance, aidentity, aroutes, ctl, actl,
                   published>>

AcceptorConnects(c) ==
    /\ c \in aspawned
    /\ aspawned' = aspawned \ {c}
    /\ actl' = actl \cup {CtlMsg("Hello", Temp(c), LnpBroker, c)}
    /\ UNCHANGED <<accepting_channels, achannels, acceptance, aidentity,
                   aroutes, ctl, p2p, published>>

(* handle_hello of a channeld that lnpd waits for.                           *)
AcceptorHello(c, m) ==
    /\ m \in actl
    /\ m.type = "Hello"
    /\ m.dst = LnpBroker
    /\ m.chan = c
    /\ achannels' = achannels \cup {m.src}
    /\ accepting_channels' = accepting_channels \ {c}
    /\ actl' = (actl \ {m}) \cup
               (IF c \in accepting_channels
                THEN {CtlMsg("AcceptChannelFrom", LnpBroker, m.src, c)}
                ELSE {})
    /\ UNCHANGED <<aspawned, acceptance, aidentity, aroutes, ctl, p2p,
                   published>>

AcceptorChannelUpdate(c, m) ==
    /\ m \in actl
    /\ m.type = "ChannelUpdate"
    /\ m.chan = c
    /\ actl' = actl \ {m}
    /\ achannels' = (achannels \ {Temp(c)}) \cup {Perm(c)}
    /\ UNCHANGED <<accepting_channels, aspawned, acceptance, aidentity, aroutes,
                   ctl, p2p, published>>

(* signd of the accepting node.                                              *)
AcceptorSignd(m) ==
    /\ SigndAnswers(actl, m, actl')
    /\ UNCHANGED <<acceptVars, ctl, p2p, published>>

(* routed: a channel is added to the graph; Hello is echoed to its sender.   *)
AcceptorRouted(c, m) ==
    /\ m \in actl
    /\ m.dst = Router
    /\ m.chan = c
    /\ aroutes' = IF m.type = "ChannelCreated" THEN aroutes \cup {c} ELSE aroutes
    /\ actl' = (actl \ {m}) \cup
               (IF m.type = "Hello" THEN {CtlMsg("Hello", Router, m.src, c)}
                                    ELSE {})
    /\ UNCHANGED <<accepting_channels, aspawned, achannels, acceptance,
                   aidentity, ctl, p2p, published>>

-----------------------------------------------------------------------------
(* channeld of the accepting node.                                           *)

AcceptorGets(c, m, type) ==
    /\ m \in actl
    /\ m.type = type
    /\ m.dst = aidentity[c]

AcceptorHears(c, m, type) ==
    /\ m \in p2p
    /\ m.type = type
    /\ m.to = "acceptor"
    /\ m.id = aidentity[c]

AcceptTo(c, state) == acceptance' = [acceptance EXCEPT ![c] = state]

(* send_p2p: lost when there is no peerd; the EsbError that bounces is       *)
(* logged and changes nothing.                                               *)
AnswerP2p(links, msg) ==
    \/ p2p' = links \cup {msg}
    \/ "remote" \in Faults /\ p2p' = links

(* ChannelAccept::with                                                       *)
AcceptChannel(c, m) ==
    /\ AcceptorGets(c, m, "AcceptChannelFrom")
    /\ acceptance[c] = "LAUNCH"
    /\ \/ /\ actl' = (actl \ {m})
                 \cup {CtlMsg("DeriveKeyset", aidentity[c], Signer, c)}
          /\ AcceptTo(c, "ACCEPTED")
       \/ /\ "remote" \in Faults
          /\ actl' = actl \ {m}
          /\ UNCHANGED acceptance
    /\ UNCHANGED <<accepting_channels, aspawned, achannels, aidentity, aroutes,
                   ctl, p2p, published>>

FinishAccepted(c, m) ==
    /\ AcceptorGets(c, m, "Keyset")
    /\ acceptance[c] = "ACCEPTED"
    /\ actl' = actl \ {m}
    /\ \/ /\ AnswerP2p(p2p, P2pMsg("AcceptChannel", "proposer", Temp(c), c,
                                   "none"))
          /\ AcceptTo(c, "SIGNED")
       \/ "remote" \in Faults /\ UNCHANGED <<p2p, acceptance>>
    /\ UNCHANGED <<accepting_channels, aspawned, achannels, aidentity, aroutes,
                   ctl, published>>

(* The daemon takes the permanent id before it checks the message.  The      *)
(* FundingSigned it answers with carries the signature it was sent.          *)
FinishSigned(c, m) ==
    /\ AcceptorHears(c, m, "FundingCreated")
    /\ acceptance[c] = "SIGNED"
    /\ aidentity' = [aidentity EXCEPT ![c] = Perm(c)]
    /\ \/ /\ actl' = actl \cup {CtlMsg("ChannelUpdate", Perm(c), LnpBroker, c)}
          /\ AnswerP2p(p2p \ {m}, P2pMsg("FundingSigned", "proposer", Perm(c), c,
                                         m.sig))
          /\ AcceptTo(c, "FUNDED")
       \/ /\ "remote" \in Faults
          /\ p2p' = p2p \ {m}
          /\ UNCHANGED <<actl, acceptance>>
    /\ UNCHANGED <<accepting_channels, aspawned, achannels, aroutes, ctl,
                   published>>

(* Mutant: FundingLocked is answered at once, before the channel is active.  *)
FinishFundedEarly(c, m) ==
    /\ AcceptorHears(c, m, "FundingLocked")
    /\ acceptance[c] = "FUNDED"
    /\ p2p' = (p2p \ {m}) \cup
              {P2pMsg("FundingLocked", "proposer", aidentity[c], c, "none")}
    /\ actl' = actl \cup
           { CtlMsg("ChannelCreated", aidentity[c], Router, c),
             CtlMsg("Hello", aidentity[c], Router, c) }
    /\ AcceptTo(c, "LOCKED")
    /\ UNCHANGED <<accepting_channels, aspawned, achannels, aidentity, aroutes,
                   ctl, published>>

FinishFunded(c, m) ==
    /\ AcceptorHears(c, m, "FundingLocked")
    /\ acceptance[c] = "FUNDED"
    /\ p2p' = p2p \ {m}
    /\ \/ /\ actl' = actl \cup
                 { CtlMsg("ChannelCreated", aidentity[c], Router, c),
                   CtlMsg("Hello", aidentity[c], Router, c) }
          /\ AcceptTo(c, "LOCKED")
       \/ "remote" \in Faults /\ UNCHANGED <<actl, acceptance>>
    /\ UNCHANGED <<accepting_channels, aspawned, achannels, aidentity, aroutes,
                   ctl, published>>

FinishLocked(c, m) ==
    /\ AcceptorGets(c, m, "Hello")
    /\ acceptance[c] = "LOCKED"
    /\ actl' = actl \ {m}
    /\ AnswerP2p(p2p, P2pMsg("FundingLocked", "proposer", aidentity[c], c,
                             "none"))
    /\ AcceptTo(c, "ACTIVE")
    /\ UNCHANGED <<accepting_channels, aspawned, achannels, aidentity, aroutes,
                   ctl, published>>

AcceptorHandlesCtl(c, m) ==
    \/ AcceptorHello(c, m)
    \/ AcceptorChannelUpdate(c, m)
    \/ AcceptorRouted(c, m)
    \/ AcceptChannel(c, m)
    \/ FinishAccepted(c, m)
    \/ FinishLocked(c, m)

AcceptorHandlesP2p(c, m) ==
    \/ AcceptorLaunches(c, m)
    \/ FinishSigned(c, m)
    \/ FinishFunded(c, m)

=============================================================================
