--------------------------- MODULE ChannelPropose ---------------------------
(***************************************************************************)
(* channeld at the proposing node: the launch of the daemon and the        *)
(* ChannelPropose workflow, from OpenChannelWith to an active channel.     *)
(*                                                                         *)
(* One message is handled at a time: the workflow advances, sends what the *)
(* step calls for and stays where it was when the step fails, in which     *)
(* case the failure is reported to the client through lnpd.                *)
(***************************************************************************)
EXTENDS Services

VARIABLES
    proposal,   \* state of the ChannelStateMachine of each channel
    identity,   \* service id under which each channeld is reachable
    remote_sig  \* whose signature of the refund transaction it has saved

proposeVars == <<proposal, identity, remote_sig>>

ProposeStates ==
    { "LAUNCH", "PROPOSED", "ACCEPTED", "SIGNING", "FUNDING", "PUBLISHED",
      "LOCKED", "ACTIVE" }

ProposeInit ==
    /\ proposal = [c \in Chan |-> "LAUNCH"]
    /\ identity = [c \in Chan |-> Temp(c)]
    /\ remote_sig = [c \in Chan |-> "none"]

ProposeTypeOK ==
    /\ proposal \in [Chan -> ProposeStates]
    /\ identity \in [Chan -> ChannelIds]
    /\ remote_sig \in [Chan -> Signatures]

-----------------------------------------------------------------------------
(* Receiving and sending.  A message reaches the daemon that answers to its *)
(* destination.                                                             *)

ProposerGets(c, m, type) ==
    /\ m \in ctl
    /\ m.type = type
    /\ m.dst = identity[c]

ProposerHears(c, m, type) ==
    /\ m \in p2p
    /\ m.type = type
    /\ m.to = "proposer"
    /\ m.id = identity[c]

ToLnpd(type, id, c) == CtlMsg(type, id, LnpBroker, c)

(* send_p2p: when there is no peerd for the remote node the broker bounces   *)
(* the message and channeld gets an EsbError.                                *)
SendP2p(c, id, rest, links, msg) ==
    \/ p2p' = links \cup {msg} /\ ctl' = rest
    \/ /\ "peer" \in Faults
       /\ p2p' = links
       /\ ctl' = rest \cup {CtlMsg("EsbError", LnpBroker, id, c)}

(* Runtime::process on an error: report_failure, state machine unchanged.    *)
StepFails(c, rest, links) ==
    /\ ctl' = rest \cup {ToLnpd("Report", identity[c], c)}
    /\ p2p' = links
    /\ UNCHANGED <<proposal, identity, remote_sig>>

StepTo(c, state) == proposal' = [proposal EXCEPT ![c] = state]

-----------------------------------------------------------------------------
(* ChannelPropose::with                                                      *)
ProposeChannel(c, m) ==
    /\ ProposerGets(c, m, "OpenChannelWith")
    /\ proposal[c] = "LAUNCH"
    /\ \/ /\ SendP2p(c, identity[c], ctl \ {m}, p2p,
                     P2pMsg("OpenChannel", "acceptor", LnpBroker, c, "none"))
          /\ StepTo(c, "PROPOSED")
          /\ UNCHANGED <<identity, remote_sig>>
       \/ "protocol" \in Faults /\ StepFails(c, ctl \ {m}, p2p)
    /\ UNCHANGED <<actl, published>>

CompleteProposed(c, m) ==
    /\ ProposerHears(c, m, "AcceptChannel")
    /\ proposal[c] = "PROPOSED"
    /\ \/ /\ ctl' = ctl \cup {ToLnpd("ConstructFunding", identity[c], c)}
          /\ p2p' = p2p \ {m}
          /\ StepTo(c, "ACCEPTED")
          /\ UNCHANGED <<identity, remote_sig>>
       \/ "protocol" \in Faults /\ StepFails(c, ctl, p2p \ {m})
    /\ UNCHANGED <<actl, published>>

CompleteAccepted(c, m) ==
    /\ ProposerGets(c, m, "FundingConstructed")
    /\ proposal[c] = "ACCEPTED"
    /\ \/ /\ ctl' = (ctl \ {m}) \cup {CtlMsg("Sign", identity[c], Signer, c)}
          /\ StepTo(c, "SIGNING")
          /\ UNCHANGED <<identity, remote_sig, p2p>>
       \/ "protocol" \in Faults /\ StepFails(c, ctl \ {m}, p2p)
    /\ UNCHANGED <<actl, published>>

(* Mutant: channeld says Hello under the permanent id but does not take it.  *)
CompleteSigningTemp(c, m) ==
    /\ ProposerGets(c, m, "Signed")
    /\ proposal[c] = "SIGNING"
    /\ SendP2p(c, Perm(c),
               (ctl \ {m}) \cup {ToLnpd("Hello", Perm(c), c)}, p2p,
               P2pMsg("FundingCreated", "acceptor", Temp(c), c, "proposer"))
    /\ StepTo(c, "FUNDING")
    /\ UNCHANGED <<identity, remote_sig, actl, published>>

(* The refund transaction is signed: channeld takes the permanent id, says   *)
(* Hello under it and sends its signature to the peer.                       *)
CompleteSigning(c, m) ==
    /\ ProposerGets(c, m, "Signed")
    /\ proposal[c] = "SIGNING"
    /\ \/ /\ identity' = [identity EXCEPT ![c] = Perm(c)]
          /\ SendP2p(c, Perm(c),
                     (ctl \ {m}) \cup {ToLnpd("Hello", Perm(c), c)}, p2p,
                     P2pMsg("FundingCreated", "acceptor", Temp(c), c,
                            "proposer"))
          /\ StepTo(c, "FUNDING")
          /\ UNCHANGED remote_sig
       \/ "protocol" \in Faults /\ StepFails(c, ctl \ {m}, p2p)
    /\ UNCHANGED <<actl, published>>

(* Mutant: the signature of the peer is not saved.                           *)
CompleteFundingUnsaved(c, m) ==
    /\ ProposerHears(c, m, "FundingSigned")
    /\ proposal[c] = "FUNDING"
    /\ ctl' = ctl \cup { ToLnpd("PublishFunding", identity[c], c),
                        CtlMsg("Track", identity[c], Watch, c) }
    /\ p2p' = p2p \ {m}
    /\ StepTo(c, "PUBLISHED")
    /\ UNCHANGED <<identity, remote_sig, actl, published>>

(* Mutant: lnpd is asked to publish before the message is verified.          *)
CompleteFundingUnverified(c, m) ==
    LET publish == ToLnpd("PublishFunding", identity[c], c)
    IN  /\ ProposerHears(c, m, "FundingSigned")
        /\ proposal[c] = "FUNDING"
        /\ \/ /\ remote_sig' = [remote_sig EXCEPT ![c] = m.sig]
              /\ p2p' = p2p \ {m}
              /\ ctl' = ctl \cup
                     {publish, CtlMsg("Track", identity[c], Watch, c)}
              /\ StepTo(c, "PUBLISHED")
              /\ UNCHANGED identity
           \/ "protocol" \in Faults /\ StepFails(c, ctl \cup {publish}, p2p \ {m})
        /\ UNCHANGED <<actl, published>>

(* The peer has signed: its signature is saved before lnpd is asked to       *)
(* publish the funding and watchd to follow it.                              *)
CompleteFunding(c, m) ==
    /\ ProposerHears(c, m, "FundingSigned")
    /\ proposal[c] = "FUNDING"
    /\ \/ /\ remote_sig' = [remote_sig EXCEPT ![c] = m.sig]
          /\ p2p' = p2p \ {m}
          /\ \E track \in {CtlMsg("Track", identity[c], Watch, c)} \cup
                 (IF "watch" \in Faults
                  THEN {CtlMsg("EsbError", LnpBroker, identity[c], c)}
                  ELSE {}) :
                ctl' = ctl \cup {ToLnpd("PublishFunding", identity[c], c), track}
          /\ StepTo(c, "PUBLISHED")
          /\ UNCHANGED identity
       \/ "protocol" \in Faults /\ StepFails(c, ctl, p2p \ {m})
    /\ UNCHANGED <<actl, published>>

CompletePublished(c, m) ==
    /\ ProposerGets(c, m, "TxFound")
    /\ proposal[c] = "PUBLISHED"
    /\ SendP2p(c, identity[c], ctl \ {m}, p2p,
               P2pMsg("FundingLocked", "acceptor", identity[c], c, "none"))
    /\ StepTo(c, "LOCKED")
    /\ UNCHANGED <<identity, remote_sig, actl, published>>

(* The router hears of the channel before the step can still fail.           *)
CompleteLocked(c, m) ==
    LET created == CtlMsg("ChannelCreated", identity[c], Router, c)
    IN  /\ ProposerHears(c, m, "FundingLocked")
        /\ proposal[c] = "LOCKED"
        /\ \/ /\ ctl' = ctl \cup {created}
              /\ p2p' = p2p \ {m}
              /\ StepTo(c, "ACTIVE")
              /\ UNCHANGED <<identity, remote_sig>>
           \/ /\ "protocol" \in Faults
              /\ StepFails(c, ctl \cup {created}, p2p \ {m})
        /\ UNCHANGED <<actl, published>>

(* Error and EsbError are expected in no state of the workflow: the failure  *)
(* is reported and the workflow stays where it is.                           *)
ProposerError(c, m) ==
    /\ ProposerGets(c, m, "Error") \/ ProposerGets(c, m, "EsbError")
    /\ StepFails(c, ctl \ {m}, p2p)
    /\ UNCHANGED <<actl, published>>

ProposerHandlesCtl(c, m) ==
    \/ ProposeChannel(c, m)
    \/ CompleteAccepted(c, m)
    \/ CompleteSigning(c, m)
    \/ CompletePublished(c, m)
    \/ ProposerError(c, m)

ProposerHandlesP2p(c, m) ==
    \/ CompleteProposed(c, m)
    \/ CompleteFunding(c, m)
    \/ CompleteLocked(c, m)

(* Service::run_loop: a started daemon waits, then says Hello to lnpd under  *)
(* its temporary id.                                                         *)
ChanneldConnects(c) ==
    /\ ctl' = ctl \cup {ToLnpd("Hello", Temp(c), c)}
    /\ UNCHANGED <<proposeVars, actl, p2p, published>>

=============================================================================
