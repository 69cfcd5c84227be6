----------------------- MODULE ChannelProposerProofs ------------------------
(***************************************************************************)
(* The steps of the channeld of the proposing node keep the invariant of   *)
(* the baton (BatonInv of ChannelLauncherProofs): each step of its         *)
(* workflow takes the baton where the step before left it and passes it    *)
(* on, to lnpd, signd, routed, watchd or the peer, or drops it upon an     *)
(* error.                                                                  *)
(***************************************************************************)
EXTENDS ChannelLauncherProofs

-----------------------------------------------------------------------------
(* channeld of the proposing node                                            *)

(* A step of the workflow of channel c leaves the other channels alone.      *)
LEMMA ProposerMove ==
    ASSUME BatonInv, NEW c \in Chan,
           UNCHANGED <<actl, lnpdVars, acceptVars, tracking>>,
           \A d \in Chan \ {c} :
               proposal'[d] = proposal[d] /\ identity'[d] = identity[d],
           \A t, s, r, d :
               d # c =>
                   (CtlMsg(t, s, r, d) \in ctl' <=> CtlMsg(t, s, r, d) \in ctl),
           \A t, to, id, d, sig :
               d # c =>
                   (P2pMsg(t, to, id, d, sig) \in p2p'
                        <=> P2pMsg(t, to, id, d, sig) \in p2p),
           \A x \in ctl' \ ctl : CtlForm(x), \A x \in p2p' \ p2p : P2pForm(x),
           LaunchOK(c)', OfferOK(c)', FundOK(c)', LockOK(c)'
    PROVE  BatonInv'
<1> USE DEF lnpdVars, acceptVars
<1>1. FormOK'
  <2>1. \A x \in ctl' : CtlForm(x)'
    BY Zenon DEF BatonInv, FormOK, CtlForm
  <2>2. \A x \in p2p' : P2pForm(x)'
    BY Zenon DEF BatonInv, FormOK, P2pForm
  <2>3. (\A x \in actl' : ActlForm(x)') /\ (\A x \in tracking' : x[1] = Perm(x[2]))
    BY Zenon DEF BatonInv, FormOK, ActlForm
  <2> QED
    BY Zenon, <2>1, <2>2, <2>3 DEF FormOK
<1>2. \A d \in Chan \ {c} : SameCtl(d) /\ SameP2p(d)
  BY Zenon DEF SameCtl, SameP2p
<1>3. \A d \in Chan \ {c} :
          SameActl(d) /\ SameLnpd(d) /\ SameChanneld(d) /\ SamePeer(d)
  BY Zenon DEF SameActl, SameLnpd, SameChanneld, SamePeer
<1>4. BatonOK(c)'
  BY Zenon DEF BatonOK
<1> QED
  BY Zenon, <1>1, <1>2, <1>3, <1>4, ChannelMove

(* No baton of channel c is left.                                            *)
Batonless(c) ==
    /\ c \in requested
    /\ c \in spawned \/ Greeted(c) => creating_channels[Temp(c)] = "NONE"
    /\ ~ToldToOpen(c)
    /\ ~Offered(c) /\ c \notin aspawned /\ ~PeerGreeted(c) /\ ~ToldToAccept(c)
    /\ ~PeerKeysAsked(c) /\ ~PeerKeysSent(c) /\ ~OfferTaken(c)
    /\ ~FundingAsked(c) /\ ~FundingSent(c)
    /\ ~RefundAsked(c) /\ ~RefundSigned(c)
    /\ ~SignatureSent(c) /\ ~SignatureTaken(c)

(* A step of the workflow that fails drops the baton and reports it.         *)
LEMMA ProposerFails ==
    ASSUME IInv, BatonInv, NEW c \in Chan,
           NEW old, NEW oldp, NEW new,
           ctl' = (ctl \ old) \cup new, p2p' = p2p \ oldp,
           \A x \in old : x.chan = c, \A x \in oldp : x.chan = c,
           \A x \in new : x \in { CtlMsg("Report", identity[c], LnpBroker, c),
                                  CtlMsg("ChannelCreated", identity[c], Router, c) },
           UNCHANGED <<proposal, identity>>,
           UNCHANGED <<actl, lnpdVars, acceptVars, tracking>>,
           Batonless(c)'
    PROVE  BatonInv'
<1> USE DEF lnpdVars, acceptVars
<1>1. BatonOK(c) /\ identity[c] \in {Temp(c), Perm(c)}
  BY Zenon DEF BatonInv, IInv, ChanOK
<1>2. \A x \in new : /\ x.chan = c /\ CtlForm(x)
                     /\ x.type \in {"Report", "ChannelCreated"}
  BY SMTT(30), <1>1, CtlFields, IdsApart DEF CtlForm
<1>3. /\ \A t, s, r, d :
             d # c =>
                 (CtlMsg(t, s, r, d) \in ctl' <=> CtlMsg(t, s, r, d) \in ctl)
      /\ \A t, s, r :
             t \notin {"Report", "ChannelCreated"} /\ CtlMsg(t, s, r, c) \in ctl'
                 => CtlMsg(t, s, r, c) \in ctl
  BY SMTT(30), <1>2, CtlFields
<1>4. \A t, to, id, d, sig :
          d # c => (P2pMsg(t, to, id, d, sig) \in p2p'
                        <=> P2pMsg(t, to, id, d, sig) \in p2p)
  BY P2pFields
<1>5. LaunchOK(c)'
  BY Zenon, <1>1, <1>3
     DEF BatonOK, LaunchOK, Batonless, KeysAsked, KeysSent, Greeted
<1>6. OfferOK(c)'
  BY Zenon, <1>1 DEF BatonOK, OfferOK, Batonless
<1>7. FundOK(c)'
  BY Zenon, <1>1, <1>3
     DEF BatonOK, FundOK, Batonless, AskedToPublish, AskedToSign,
         FundingSignedBySignd
<1>8. LockOK(c)'
  BY Zenon, <1>1, <1>3
     DEF BatonOK, LockOK, TrackAsked, Tracked, TxSeen, LockSent,
         RouterGreeted, RouterEchoed, LockTaken
<1>9. (\A x \in ctl' \ ctl : CtlForm(x)) /\ (\A x \in p2p' \ p2p : P2pForm(x))
  BY Zenon, <1>2
<1> QED
  BY ZenonT(30), <1>3, <1>4, <1>5, <1>6, <1>7, <1>8, <1>9, ProposerMove

(* What a bus step about channel c and messages of types T leaves alone.     *)
Kept(c, T, TP) ==
    /\ \A t, s, r, d :
           (t \notin T \/ d # c) =>
               (CtlMsg(t, s, r, d) \in ctl' <=> CtlMsg(t, s, r, d) \in ctl)
    /\ \A t, to, id, d, sig :
           (t \notin TP \/ d # c) =>
               (P2pMsg(t, to, id, d, sig) \in p2p'
                    <=> P2pMsg(t, to, id, d, sig) \in p2p)

LEMMA BothMoved ==
    ASSUME NEW c, NEW T, NEW TP, NEW old, NEW new, NEW oldp, NEW newp,
           ctl' = (ctl \ old) \cup new, p2p' = (p2p \ oldp) \cup newp,
           \A x \in old \cup new : x.chan = c /\ x.type \in T,
           \A x \in oldp \cup newp : x.chan = c /\ x.type \in TP
    PROVE  Kept(c, T, TP)
BY Zenon, CtlMoved, P2pMoved DEF Kept

LEMMA ProposerKept ==
    ASSUME BatonInv, NEW c \in Chan, NEW T, NEW TP, Kept(c, T, TP),
           UNCHANGED <<actl, lnpdVars, acceptVars, tracking>>,
           \A d \in Chan \ {c} :
               proposal'[d] = proposal[d] /\ identity'[d] = identity[d],
           \A x \in ctl' \ ctl : CtlForm(x), \A x \in p2p' \ p2p : P2pForm(x),
           LaunchOK(c)', OfferOK(c)', FundOK(c)', LockOK(c)'
    PROVE  BatonInv'
<1>1. /\ \A t, s, r, d :
             d # c =>
                 (CtlMsg(t, s, r, d) \in ctl' <=> CtlMsg(t, s, r, d) \in ctl)
      /\ \A t, to, id, d, sig :
             d # c => (P2pMsg(t, to, id, d, sig) \in p2p'
                           <=> P2pMsg(t, to, id, d, sig) \in p2p)
  BY Zenon DEF Kept
<1> QED
  BY Zenon, <1>1, ProposerMove

(* What channeld of c knows of a message it gets.                            *)
LEMMA ProposerFacts ==
    ASSUME IInv, FilingInv, BatonInv, NEW c \in Chan
    PROVE  /\ BatonOK(c) /\ FiledOnce(c)
           /\ identity[c] \in {Temp(c), Perm(c)} /\ identity[c] \in ChannelIds
           /\ proposal \in [Chan -> ProposeStates] /\ identity \in [Chan -> ChannelIds]
           /\ \A m \in ctl :
                  m.dst = identity[c] =>
                      m.chan = c /\ CtlForm(m) /\ m = CtlMsg(m.type, m.src, m.dst, c)
           /\ \A m \in p2p :
                  m.id = identity[c] =>
                      /\ m.chan = c /\ P2pForm(m)
                      /\ m = P2pMsg(m.type, m.to, m.id, c, m.sig)
<1>1. /\ BatonOK(c) /\ FiledOnce(c)
      /\ identity[c] \in {Temp(c), Perm(c)} /\ identity[c] \in ChannelIds
      /\ proposal \in [Chan -> ProposeStates] /\ identity \in [Chan -> ChannelIds]
  BY Zenon, IdsDiffer
     DEF BatonInv, FilingInv, IInv, ChanOK, TypeOK, ProposeTypeOK
<1>2. \A m \in ctl : m.dst = identity[c] =>
          m.chan = c /\ CtlForm(m) /\ m = CtlMsg(m.type, m.src, m.dst, c)
  BY ZenonT(30), ProposerAddressed, BatonFacts
<1>3. ASSUME NEW m \in p2p
      PROVE  m = P2pMsg(m.type, m.to, m.id, m.chan, m.sig)
  BY Zenon DEF IInv, TypeOK, SharedTypeOK, P2pMsgs, P2pMsg
<1>4. \A m \in p2p : m.id = identity[c] =>
          /\ m.chan = c /\ P2pForm(m)
          /\ m = P2pMsg(m.type, m.to, m.id, c, m.sig)
  BY Zenon, <1>3, ProposerAddressed DEF BatonInv, FormOK
<1> QED
  BY Zenon, <1>1, <1>2, <1>4

(* StepFails, after a message m from the bus or the link.                    *)
LEMMA StepFailsBaton ==
    ASSUME IInv, FilingInv, BatonInv, NEW c \in Chan, NEW m, m.chan = c,
           \/ StepFails(c, ctl \ {m}, p2p)
           \/ StepFails(c, ctl, p2p \ {m}),
           UNCHANGED <<actl, lnpdVars, acceptVars, tracking>>,
           Batonless(c)'
    PROVE  BatonInv'
<1> DEFINE report == CtlMsg("Report", identity[c], LnpBroker, c)
<1>1. PICK new : new = {report}
  BY Zenon
<1>2. \A x \in new : x \in { CtlMsg("Report", identity[c], LnpBroker, c),
                             CtlMsg("ChannelCreated", identity[c], Router, c) }
  BY Zenon, <1>1
<1>3. \E old, oldp \in { {}, {m} } :
          ctl' = (ctl \ old) \cup new /\ p2p' = p2p \ oldp
  <2>1. CASE StepFails(c, ctl \ {m}, p2p)
    <3>1. ctl' = (ctl \ {m}) \cup new /\ p2p' = p2p \ {}
      BY Zenon, <1>1, <2>1 DEF StepFails, ToLnpd
    <3> QED
      BY Zenon, <3>1
  <2>2. CASE StepFails(c, ctl, p2p \ {m})
    <3>1. ctl' = (ctl \ {}) \cup new /\ p2p' = p2p \ {m}
      BY Zenon, <1>1, <2>2 DEF StepFails, ToLnpd
    <3> QED
      BY Zenon, <3>1
  <2> QED
    BY Zenon, <2>1, <2>2
<1>4. PICK old, oldp \in { {}, {m} } :
          ctl' = (ctl \ old) \cup new /\ p2p' = p2p \ oldp
  BY Zenon, <1>3
<1>5. (\A x \in old : x.chan = c) /\ (\A x \in oldp : x.chan = c)
  BY Zenon, <1>4
<1>6. UNCHANGED <<proposal, identity>>
  BY Zenon DEF StepFails
<1> HIDE DEF report
<1> QED
  BY Zenon, <1>2, <1>4, <1>5, <1>6, ProposerFails

(* send_p2p: the message is on the link, or an EsbError on the bus.          *)
LEMMA Sent ==
    ASSUME NEW c, NEW id, NEW rest, NEW links, NEW msg,
           SendP2p(c, id, rest, links, msg)
    PROVE  \E new \in { {}, {CtlMsg("EsbError", LnpBroker, id, c)} },
              newp \in { {}, {msg} } :
               /\ ctl' = rest \cup new /\ p2p' = links \cup newp
               /\ new = {} <=> newp # {}
<1> DEFINE esb == CtlMsg("EsbError", LnpBroker, id, c)
<1>1. CASE p2p' = links \cup {msg} /\ ctl' = rest
  <2>1. ctl' = rest \cup {} /\ p2p' = links \cup {msg}
    BY Zenon, <1>1
  <2> QED
    BY Zenon, <2>1
<1>2. CASE p2p' = links /\ ctl' = rest \cup {esb}
  <2>1. ctl' = rest \cup {esb} /\ p2p' = links \cup {}
    BY Zenon, <1>2
  <2> QED
    BY Zenon, <2>1
<1> QED
  BY Zenon, <1>1, <1>2 DEF SendP2p

LEMMA ProposeChannelBaton ==
    ASSUME IInv, FilingInv, BatonInv, NEW c \in Chan, NEW m \in ctl,
           ProposeChannel(c, m),
           UNCHANGED <<lnpdVars, acceptVars, tracking>>
    PROVE  BatonInv'
<1> DEFINE msg == P2pMsg("OpenChannel", "acceptor", LnpBroker, c, "none")
           T == {"OpenChannelWith", "EsbError"}
           TP == {"OpenChannel"}
<1>1. /\ BatonOK(c) /\ FiledOnce(c)
      /\ m = CtlMsg("OpenChannelWith", LnpBroker, Temp(c), c)
      /\ identity[c] = Temp(c) /\ m.chan = c
      /\ proposal[c] = "LAUNCH" /\ proposal \in [Chan -> ProposeStates]
      /\ actl' = actl
  BY ProposerFacts, ServicesAreNoChannels
     DEF ProposeChannel, ProposerGets, CtlForm
<1>2. /\ ToldToOpen(c) /\ creating_channels[Temp(c)] = "NEGOTIATING" /\ Clean(c)
      /\ c \notin spawned /\ ~Greeted(c) /\ c \in requested
      /\ acceptance[c] = "LAUNCH"
  BY Zenon, <1>1 DEF BatonOK, LaunchOK, OfferOK, ToldToOpen, FiledOnce
<1>3. /\ ~Offered(c) /\ c \notin aspawned /\ ~PeerGreeted(c) /\ ~ToldToAccept(c)
      /\ ~PeerKeysAsked(c) /\ ~PeerKeysSent(c) /\ ~OfferTaken(c)
      /\ ~FundingAsked(c) /\ ~FundingSent(c)
      /\ ~RefundAsked(c) /\ ~RefundSigned(c)
      /\ ~SignatureSent(c) /\ ~SignatureTaken(c)
  BY Zenon, <1>1 DEF BatonOK, OfferOK, FundOK
<1>4. /\ ~KeysAsked(c) /\ ~KeysSent(c)
      /\ ~TrackAsked(c) /\ ~Tracked(c) /\ ~TxSeen(c) /\ ~LockSent(c)
      /\ ~RouterGreeted(c) /\ ~RouterEchoed(c) /\ ~LockTaken(c)
      /\ ~AskedToPublish(c)
  BY ZenonT(30), <1>1, <1>2 DEF BatonOK, LaunchOK, LockOK, IInv, TokenOK
<1> USE DEF lnpdVars, acceptVars
<1>5. CASE StepFails(c, ctl \ {m}, p2p)
  <2>1. /\ \A t, s, r : t # "Report" /\ CtlMsg(t, s, r, c) \in ctl' =>
                            CtlMsg(t, s, r, c) \in ctl \ {m}
        /\ p2p' = p2p
    BY SMTT(30), <1>5, CtlFields DEF StepFails, ToLnpd
  <2>2. Batonless(c)'
    BY ZenonT(30), <1>1, <1>2, <1>3, <2>1
       DEF Batonless, Greeted, ToldToOpen, Offered, PeerGreeted, ToldToAccept,
           PeerKeysAsked, PeerKeysSent, OfferTaken, FundingAsked, FundingSent,
           RefundAsked, RefundSigned, SignatureSent, SignatureTaken
  <2> HIDE DEF lnpdVars, acceptVars
  <2> QED
    BY Zenon, <1>1, <1>5, <2>2, StepFailsBaton
<1>6. CASE /\ SendP2p(c, identity[c], ctl \ {m}, p2p, msg)
           /\ StepTo(c, "PROPOSED") /\ UNCHANGED identity
  <2>1. PICK new \in { {}, {CtlMsg("EsbError", LnpBroker, Temp(c), c)} },
             newp \in { {}, {msg} } :
            /\ ctl' = (ctl \ {m}) \cup new /\ p2p' = p2p \cup newp
            /\ new = {} <=> newp # {}
    BY SMTT(30), <1>1, <1>6, Sent
  <2>2. /\ p2p' = (p2p \ {}) \cup newp
        /\ \A x \in {m} \cup new : x.chan = c /\ x.type \in T
        /\ \A x \in {} \cup newp : x.chan = c /\ x.type \in TP
    BY SMTT(30), <1>1, <2>1, CtlFields, P2pFields
  <2>3. Kept(c, T, TP)
    <3> HIDE DEF T, TP, msg
    <3> QED
      BY ZenonT(30), <2>1, <2>2, BothMoved
  <2>4. /\ proposal'[c] = "PROPOSED" /\ identity' = identity
        /\ \A d \in Chan \ {c} : proposal'[d] = proposal[d]
    BY Zenon, <1>1, <1>6 DEF StepTo
  <2>5. ~ToldToOpen(c)' /\ (Offered(c)' => Clean(c)')
    BY ZenonT(30), <1>1, <1>2, <1>3, <2>1, <2>2, <2>3, CtlFields, P2pFields
       DEF ToldToOpen, Offered, Clean, Kept
  <2>6. LaunchOK(c)'
    BY Zenon, <1>1, <1>2, <1>4, <2>3, <2>5
       DEF LaunchOK, KeysAsked, KeysSent, Greeted, Kept
  <2>7. OfferOK(c)'
    BY ZenonT(30), <1>1, <1>2, <1>3, <2>3, <2>4, <2>5
       DEF OfferOK, PeerGreeted, ToldToAccept, PeerKeysAsked, PeerKeysSent,
           OfferTaken, Kept
  <2>8. FundOK(c)'
    BY ZenonT(30), <1>1, <1>2, <1>3, <1>4, <2>3, <2>4
       DEF BatonOK, FundOK, FundingAsked, FundingSent, RefundAsked,
           RefundSigned, SignatureSent, SignatureTaken, AskedToPublish,
           AskedToSign, FundingSignedBySignd, Kept
  <2>9. LockOK(c)'
    BY ZenonT(30), <1>1, <1>4, <2>3, <2>4
       DEF LockOK, TrackAsked, Tracked, TxSeen, LockSent, RouterGreeted,
           RouterEchoed, LockTaken, Kept
  <2>10. /\ \A x \in ctl' \ ctl : CtlForm(x)
         /\ \A x \in p2p' \ p2p : P2pForm(x)
    BY SMTT(30), <2>1, CtlFields, P2pFields, IdsApart DEF CtlForm, P2pForm
  <2>11. UNCHANGED <<actl, lnpdVars, acceptVars, tracking>>
    BY Zenon, <1>1
  <2> HIDE DEF T, TP, msg, lnpdVars, acceptVars
  <2> QED
    BY ZenonT(30), <2>3, <2>4, <2>6, <2>7, <2>8, <2>9, <2>10, <2>11,
       ProposerKept
<1> QED
  BY Zenon, <1>5, <1>6 DEF ProposeChannel

LEMMA CompleteProposedBaton ==
    ASSUME IInv, FilingInv, BatonInv, NEW c \in Chan, NEW m \in p2p,
           CompleteProposed(c, m),
           UNCHANGED <<lnpdVars, acceptVars, tracking>>
    PROVE  BatonInv'
<1> DEFINE n == CtlMsg("ConstructFunding", Temp(c), LnpBroker, c)
           T == {"ConstructFunding"}
           TP == {"AcceptChannel"}
<1>1. /\ BatonOK(c) /\ m = P2pMsg("AcceptChannel", "proposer", Temp(c), c, "none")
      /\ identity[c] = Temp(c) /\ m.chan = c
      /\ proposal[c] = "PROPOSED" /\ proposal \in [Chan -> ProposeStates]
      /\ actl' = actl
  BY ProposerFacts DEF CompleteProposed, ProposerHears, P2pForm
<1>2. /\ OfferTaken(c) /\ acceptance[c] = "SIGNED" /\ Clean(c)
      /\ creating_channels[Temp(c)] = "NEGOTIATING"
      /\ c \in requested /\ c \notin spawned /\ ~Greeted(c) /\ ~ToldToOpen(c)
      /\ ~KeysAsked(c) /\ ~KeysSent(c)
  BY Zenon, <1>1 DEF BatonOK, LaunchOK, OfferOK, OfferTaken
<1>3. /\ ~Offered(c) /\ c \notin aspawned /\ ~PeerGreeted(c) /\ ~ToldToAccept(c)
      /\ ~PeerKeysAsked(c) /\ ~PeerKeysSent(c)
      /\ ~FundingAsked(c) /\ ~FundingSent(c)
      /\ ~RefundAsked(c) /\ ~RefundSigned(c)
      /\ ~SignatureSent(c) /\ ~SignatureTaken(c)
  BY Zenon, <1>1, <1>2 DEF BatonOK, OfferOK, FundOK
<1>4. /\ ~TrackAsked(c) /\ ~Tracked(c) /\ ~TxSeen(c) /\ ~LockSent(c)
      /\ ~RouterGreeted(c) /\ ~RouterEchoed(c) /\ ~LockTaken(c)
      /\ ~AskedToPublish(c)
  BY Zenon, <1>1, <1>2 DEF BatonOK, LockOK, IInv, TokenOK
<1> USE DEF lnpdVars, acceptVars
<1>5. CASE StepFails(c, ctl, p2p \ {m})
  <2>1. /\ \A t, s, r : t # "Report" /\ CtlMsg(t, s, r, c) \in ctl' =>
                            CtlMsg(t, s, r, c) \in ctl
        /\ p2p' = p2p \ {m}
    BY SMTT(30), <1>5, CtlFields DEF StepFails, ToLnpd
  <2>2. Batonless(c)'
    BY Zenon, <1>1, <1>2, <1>3, <2>1
       DEF Batonless, Greeted, ToldToOpen, Offered, PeerGreeted, ToldToAccept,
           PeerKeysAsked, PeerKeysSent, OfferTaken, FundingAsked, FundingSent,
           RefundAsked, RefundSigned, SignatureSent, SignatureTaken
  <2> HIDE DEF lnpdVars, acceptVars
  <2> QED
    BY ZenonT(30), <1>1, <1>5, <2>2, StepFailsBaton
<1>6. CASE /\ ctl' = ctl \cup {ToLnpd("ConstructFunding", identity[c], c)}
           /\ p2p' = p2p \ {m}
           /\ StepTo(c, "ACCEPTED") /\ UNCHANGED identity
  <2>1. /\ ctl' = (ctl \ {}) \cup {n} /\ p2p' = (p2p \ {m}) \cup {}
    BY Zenon, <1>1, <1>6 DEF ToLnpd
  <2>2. /\ \A x \in {} \cup {n} : x.chan = c /\ x.type \in T
        /\ \A x \in {m} \cup {} : x.chan = c /\ x.type \in TP
    BY SMTT(30), <1>1, CtlFields, P2pFields
  <2>3. Kept(c, T, TP)
    <3> HIDE DEF T, TP, n
    <3> QED
      BY Zenon, <2>1, <2>2, BothMoved
  <2>4. /\ proposal'[c] = "ACCEPTED" /\ identity' = identity
        /\ \A d \in Chan \ {c} : proposal'[d] = proposal[d]
    BY Zenon, <1>1, <1>6 DEF StepTo
  <2>5. ~OfferTaken(c)' /\ Clean(c)'
    BY ZenonT(30), <1>1, <1>2, <2>1, <2>3 DEF OfferTaken, Clean, Kept
  <2>6. LaunchOK(c)'
    BY Zenon, <1>1, <1>2, <2>3
       DEF LaunchOK, KeysAsked, KeysSent, Greeted, ToldToOpen, Kept
  <2>7. OfferOK(c)'
    BY ZenonT(30), <1>1, <1>3, <2>3, <2>4, <2>5
       DEF OfferOK, Offered, PeerGreeted, ToldToAccept, PeerKeysAsked,
           PeerKeysSent, Kept
  <2>8. FundOK(c)'
    BY ZenonT(30), <1>1, <1>2, <1>3, <1>4, <2>3, <2>4, <2>5
       DEF BatonOK, FundOK, FundingSent, RefundAsked,
           RefundSigned, SignatureSent, SignatureTaken, AskedToPublish,
           AskedToSign, FundingSignedBySignd, Kept
  <2>9. LockOK(c)'
    BY ZenonT(30), <1>1, <1>4, <2>3, <2>4
       DEF LockOK, TrackAsked, Tracked, TxSeen, LockSent, RouterGreeted,
           RouterEchoed, LockTaken, Kept
  <2>10. /\ \A x \in ctl' \ ctl : CtlForm(x)
         /\ \A x \in p2p' \ p2p : P2pForm(x)
    BY SMTT(30), <2>1, CtlFields, IdsApart DEF CtlForm
  <2>11. UNCHANGED <<actl, lnpdVars, acceptVars, tracking>>
    BY Zenon, <1>1
  <2> HIDE DEF T, TP, n, lnpdVars, acceptVars
  <2> QED
    BY ZenonT(30), <2>3, <2>4, <2>6, <2>7, <2>8, <2>9, <2>10, <2>11,
       ProposerKept
<1> QED
  BY Zenon, <1>5, <1>6 DEF CompleteProposed

(* The refund transaction goes to signd once the funding is constructed.     *)
LEMMA CompleteAcceptedBaton ==
    ASSUME IInv, FilingInv, BatonInv, NEW c \in Chan, NEW m \in ctl,
           CompleteAccepted(c, m),
           UNCHANGED <<lnpdVars, acceptVars, tracking>>
    PROVE  BatonInv'
<1> DEFINE n == CtlMsg("Sign", Temp(c), Signer, c)
           T == {"FundingConstructed", "Sign"}
<1>1. /\ BatonOK(c) /\ FiledOnce(c)
      /\ m = CtlMsg("FundingConstructed", LnpBroker, Temp(c), c)
      /\ identity[c] = Temp(c) /\ m.chan = c
      /\ proposal[c] = "ACCEPTED" /\ proposal \in [Chan -> ProposeStates]
      /\ actl' = actl
  BY ProposerFacts DEF CompleteAccepted, ProposerGets, CtlForm
<1>2. /\ FundingSent(c) /\ acceptance[c] = "SIGNED" /\ Clean(c)
      /\ creating_channels[Perm(c)] = "COMMITTING" /\ c \in pending_fundings
      /\ creating_channels[Temp(c)] = "NONE" /\ ~FundingAsked(c)
      /\ c \in requested /\ c \notin spawned /\ ~Greeted(c) /\ ~ToldToOpen(c)
      /\ ~KeysAsked(c) /\ ~KeysSent(c)
  BY Zenon, <1>1 DEF BatonOK, LaunchOK, FundOK, FundingSent, FiledOnce
<1>3. /\ ~Offered(c) /\ c \notin aspawned /\ ~PeerGreeted(c) /\ ~ToldToAccept(c)
      /\ ~PeerKeysAsked(c) /\ ~PeerKeysSent(c) /\ ~OfferTaken(c)
      /\ ~RefundAsked(c) /\ ~RefundSigned(c)
      /\ ~SignatureSent(c) /\ ~SignatureTaken(c)
  BY Zenon, <1>1 DEF BatonOK, OfferOK, FundOK
<1>4. /\ ~TrackAsked(c) /\ ~Tracked(c) /\ ~TxSeen(c) /\ ~LockSent(c)
      /\ ~RouterGreeted(c) /\ ~RouterEchoed(c) /\ ~LockTaken(c)
  BY Zenon, <1>1, <1>2 DEF BatonOK, LockOK
<1> USE DEF lnpdVars, acceptVars
<1>5. CASE StepFails(c, ctl \ {m}, p2p)
  <2>1. /\ \A t, s, r : t # "Report" /\ CtlMsg(t, s, r, c) \in ctl' =>
                            CtlMsg(t, s, r, c) \in ctl \ {m}
        /\ p2p' = p2p
    BY <1>5, CtlFields DEF StepFails, ToLnpd
  <2>2. Batonless(c)'
    BY Zenon, <1>1, <1>2, <1>3, <2>1
       DEF Batonless, Greeted, ToldToOpen, Offered, PeerGreeted, ToldToAccept,
           PeerKeysAsked, PeerKeysSent, OfferTaken, FundingAsked, FundingSent,
           RefundAsked, RefundSigned, SignatureSent, SignatureTaken
  <2> HIDE DEF lnpdVars, acceptVars
  <2> QED
    BY Zenon, <1>1, <1>5, <2>2, StepFailsBaton
<1>6. CASE /\ ctl' = (ctl \ {m}) \cup {CtlMsg("Sign", identity[c], Signer, c)}
           /\ StepTo(c, "SIGNING") /\ UNCHANGED <<identity, p2p>>
  <2>1. /\ ctl' = (ctl \ {m}) \cup {n} /\ p2p' = (p2p \ {}) \cup {}
    BY ZenonT(30), <1>1, <1>6
  <2>2. /\ \A x \in {m} \cup {n} : x.chan = c /\ x.type \in T
        /\ \A x \in {} \cup {} : x.chan = c /\ x.type \in {}
    BY SMTT(30), <1>1, CtlFields
  <2>3. Kept(c, T, {})
    <3> HIDE DEF T, n
    <3> QED
      BY Zenon, <2>1, <2>2, BothMoved
  <2>4. /\ proposal'[c] = "SIGNING" /\ identity' = identity
        /\ \A d \in Chan \ {c} : proposal'[d] = proposal[d]
    BY ZenonT(30), <1>1, <1>6 DEF StepTo
  <2>5. /\ ~FundingSent(c)' /\ (AskedToSign(c)' <=> AskedToSign(c)) /\ Clean(c)'
    BY SMTT(30), <1>1, <1>2, <2>1, <2>3, CtlFields, IdsApart
       DEF FundingSent, AskedToSign, Clean, Kept
  <2>6. LaunchOK(c)'
    BY Zenon, <1>1, <1>2, <2>3
       DEF LaunchOK, KeysAsked, KeysSent, Greeted, ToldToOpen, Kept
  <2>7. OfferOK(c)'
    BY ZenonT(30), <1>1, <1>3, <2>3, <2>4, <2>5
       DEF OfferOK, Offered, PeerGreeted, ToldToAccept, PeerKeysAsked,
           PeerKeysSent, OfferTaken, Kept
  <2>8. FundOK(c)'
    BY ZenonT(30), <1>1, <1>2, <1>3, <2>3, <2>4, <2>5
       DEF BatonOK, FundOK, FundingAsked, RefundSigned, SignatureSent,
           SignatureTaken, AskedToPublish, FundingSignedBySignd, Kept
  <2>9. LockOK(c)'
    BY ZenonT(30), <1>1, <1>4, <2>3, <2>4
       DEF LockOK, TrackAsked, Tracked, TxSeen, LockSent, RouterGreeted,
           RouterEchoed, LockTaken, Kept
  <2>10. /\ \A x \in ctl' \ ctl : CtlForm(x)
         /\ \A x \in p2p' \ p2p : P2pForm(x)
    BY SMTT(30), <2>1, CtlFields, IdsApart DEF CtlForm
  <2>11. UNCHANGED <<actl, lnpdVars, acceptVars, tracking>>
    BY Zenon, <1>1
  <2> HIDE DEF T, n, lnpdVars, acceptVars
  <2> QED
    BY ZenonT(30), <2>3, <2>4, <2>6, <2>7, <2>8, <2>9, <2>10, <2>11,
       ProposerKept
<1> QED
  BY Zenon, <1>5, <1>6 DEF CompleteAccepted

(* The signature goes to the peer once signd has signed the refund.          *)
LEMMA CompleteSigningBaton ==
    ASSUME IInv, FilingInv, BatonInv, NEW c \in Chan, NEW m \in ctl,
           CompleteSigning(c, m),
           UNCHANGED <<lnpdVars, acceptVars, tracking>>
    PROVE  BatonInv'
<1> DEFINE msg == P2pMsg("FundingCreated", "acceptor", Temp(c), c, "proposer")
           hello == CtlMsg("Hello", Perm(c), LnpBroker, c)
           T == {"Signed", "Hello", "EsbError"}
           TP == {"FundingCreated"}
<1>1. /\ BatonOK(c) /\ m.type = "Signed" /\ m.dst = identity[c] /\ m.chan = c
      /\ m = CtlMsg(m.type, m.src, m.dst, c) /\ CtlForm(m)
      /\ identity[c] \in ChannelIds /\ identity \in [Chan -> ChannelIds]
      /\ proposal[c] = "SIGNING" /\ proposal \in [Chan -> ProposeStates]
      /\ actl' = actl
  BY Zenon, ProposerFacts DEF CompleteSigning, ProposerGets
<1>2. m = CtlMsg("Signed", Signer, Temp(c), c) /\ identity[c] = Temp(c)
  BY Zenon, <1>1, CtlFacts, ServicesAreNoChannels DEF CtlOK, CtlForm
<1>3. /\ RefundSigned(c) /\ acceptance[c] = "SIGNED" /\ Clean(c) /\ ~RefundAsked(c)
      /\ aidentity[c] = Temp(c)
      /\ creating_channels[Perm(c)] = "COMMITTING" /\ c \in pending_fundings
      /\ c \in requested /\ c \notin spawned /\ ~Greeted(c) /\ ~ToldToOpen(c)
  BY Zenon, <1>1, <1>2 DEF BatonOK, LaunchOK, FundOK, RefundSigned
<1>4. /\ ~Offered(c) /\ c \notin aspawned /\ ~PeerGreeted(c) /\ ~ToldToAccept(c)
      /\ ~PeerKeysAsked(c) /\ ~PeerKeysSent(c) /\ ~OfferTaken(c)
      /\ ~FundingAsked(c) /\ ~FundingSent(c)
      /\ ~SignatureSent(c) /\ ~SignatureTaken(c)
  BY Zenon, <1>1 DEF BatonOK, OfferOK, FundOK
<1>5. /\ ~TrackAsked(c) /\ ~Tracked(c) /\ ~TxSeen(c) /\ ~LockSent(c)
      /\ ~RouterGreeted(c) /\ ~RouterEchoed(c) /\ ~LockTaken(c)
  BY Zenon, <1>1, <1>3 DEF BatonOK, LockOK
<1> USE DEF lnpdVars, acceptVars
<1>6. CASE StepFails(c, ctl \ {m}, p2p)
  <2>1. /\ \A t, s, r : t # "Report" /\ CtlMsg(t, s, r, c) \in ctl' =>
                            CtlMsg(t, s, r, c) \in ctl \ {m}
        /\ p2p' = p2p
    BY <1>6, CtlFields DEF StepFails, ToLnpd
  <2>2. Batonless(c)'
    BY ZenonT(30), <1>1, <1>2, <1>3, <1>4, <2>1
       DEF Batonless, Greeted, ToldToOpen, Offered, PeerGreeted, ToldToAccept,
           PeerKeysAsked, PeerKeysSent, OfferTaken, FundingAsked, FundingSent,
           RefundAsked, RefundSigned, SignatureSent, SignatureTaken
  <2> HIDE DEF lnpdVars, acceptVars
  <2> QED
    BY ZenonT(30), <1>1, <1>6, <2>2, StepFailsBaton
<1>7. CASE /\ identity' = [identity EXCEPT ![c] = Perm(c)]
           /\ SendP2p(c, Perm(c),
                      (ctl \ {m}) \cup {ToLnpd("Hello", Perm(c), c)}, p2p, msg)
           /\ StepTo(c, "FUNDING")
  <2>1. PICK esb \in { {}, {CtlMsg("EsbError", LnpBroker, Perm(c), c)} },
             newp \in { {}, {msg} } :
            /\ ctl' = ((ctl \ {m}) \cup {hello}) \cup esb /\ p2p' = p2p \cup newp
            /\ esb = {} <=> newp # {}
    BY <1>7, Sent DEF ToLnpd
  <2>2. PICK new : new = {hello} \cup esb
    BY Zenon
  <2>3. /\ ctl' = (ctl \ {m}) \cup new /\ p2p' = (p2p \ {}) \cup newp
        /\ \A x \in {m} \cup new : x.chan = c /\ x.type \in T
        /\ \A x \in {} \cup newp : x.chan = c /\ x.type \in TP
    BY SMTT(30), <1>2, <2>1, <2>2, CtlFields, P2pFields
  <2>4. Kept(c, T, TP)
    <3> HIDE DEF T, TP, msg, hello, lnpdVars, acceptVars
    <3>1. PICK oldp : oldp = {}
      BY Zenon
    <3>2. /\ p2p' = (p2p \ oldp) \cup newp
          /\ \A x \in oldp \cup newp : x.chan = c /\ x.type \in TP
      BY Zenon, <2>3, <3>1
    <3> QED
      BY Zenon, <2>3, <3>2, BothMoved
  <2>5. /\ proposal'[c] = "FUNDING" /\ identity'[c] = Perm(c)
        /\ \A d \in Chan \ {c} :
               proposal'[d] = proposal[d] /\ identity'[d] = identity[d]
    BY ZenonT(30), <1>1, <1>7 DEF StepTo
  <2>6. /\ ~RefundSigned(c)' /\ ~Greeted(c)'
        /\ FundingSignedBySignd(c)' <=> FundingSignedBySignd(c)
        /\ SignatureSent(c)' => Clean(c)'
    <3> HIDE DEF lnpdVars, acceptVars
    <3>1. ~RefundSigned(c)' /\ ~Greeted(c)'
      BY SMTT(30), <1>2, <1>3, <2>1, CtlFields, IdsApart
         DEF RefundSigned, Greeted
    <3>2. FundingSignedBySignd(c)' <=> FundingSignedBySignd(c)
      BY SMTT(30), <1>2, <2>1, CtlFields, IdsApart DEF FundingSignedBySignd
    <3>3. SignatureSent(c)' => esb = {}
      BY Zenon, <1>4, <2>1 DEF SignatureSent
    <3>4. ASSUME esb = {}
          PROVE  Clean(c)'
      BY SMTT(30), <1>1, <1>3, <2>1, <3>4, CtlFields DEF Clean, lnpdVars
    <3> QED
      BY Zenon, <3>1, <3>2, <3>3, <3>4
  <2>7. LaunchOK(c)'
    BY Zenon, <1>1, <1>3, <2>4, <2>6
       DEF BatonOK, LaunchOK, KeysAsked, KeysSent, ToldToOpen, Kept
  <2>8. OfferOK(c)'
    BY Zenon, <1>1, <1>4, <2>4, <2>5
       DEF OfferOK, Offered, PeerGreeted, ToldToAccept, PeerKeysAsked,
           PeerKeysSent, OfferTaken, Kept
  <2>9. FundOK(c)'
    BY ZenonT(30), <1>1, <1>3, <1>4, <2>4, <2>5, <2>6
       DEF BatonOK, FundOK, FundingAsked, FundingSent, RefundAsked,
           SignatureTaken, AskedToSign, Kept
  <2>10. LockOK(c)'
    BY ZenonT(30), <1>1, <1>5, <2>4, <2>5
       DEF LockOK, TrackAsked, Tracked, TxSeen, LockSent, RouterGreeted,
           RouterEchoed, LockTaken, Kept
  <2>11. /\ \A x \in ctl' \ ctl : CtlForm(x)
         /\ \A x \in p2p' \ p2p : P2pForm(x)
    BY SMTT(30), <2>1, CtlFields, P2pFields, IdsApart DEF CtlForm, P2pForm
  <2>12. UNCHANGED <<actl, lnpdVars, acceptVars, tracking>>
    BY Zenon, <1>1
  <2> HIDE DEF T, TP, msg, hello, lnpdVars, acceptVars
  <2> QED
    BY ZenonT(30), <2>4, <2>5, <2>7, <2>8, <2>9, <2>10, <2>11, <2>12,
       ProposerKept
<1> QED
  BY Zenon, <1>6, <1>7 DEF CompleteSigning

(* With the peer's signature lnpd is asked to publish, watchd to track.      *)
LEMMA CompleteFundingBaton ==
    ASSUME IInv, FilingInv, BatonInv, NEW c \in Chan, NEW m \in p2p,
           CompleteFunding(c, m),
           UNCHANGED <<lnpdVars, acceptVars, tracking>>
    PROVE  BatonInv' /\ SignatureTaken(c) /\ Clean(c)
<1> DEFINE publish == CtlMsg("PublishFunding", Perm(c), LnpBroker, c)
           T == {"PublishFunding", "Track", "EsbError"}
           TP == {"FundingSigned"}
<1>1. /\ BatonOK(c)
      /\ m = P2pMsg("FundingSigned", "proposer", Perm(c), c, "proposer")
      /\ identity[c] = Perm(c) /\ m.chan = c
      /\ proposal[c] = "FUNDING" /\ proposal \in [Chan -> ProposeStates]
      /\ actl' = actl
  BY ProposerFacts DEF CompleteFunding, ProposerHears, P2pForm
<1>2. /\ SignatureTaken(c) /\ acceptance[c] = "FUNDED" /\ Clean(c)
      /\ creating_channels[Perm(c)] = "COMMITTING" /\ c \in pending_fundings
      /\ c \in requested /\ c \notin spawned /\ ~Greeted(c) /\ ~ToldToOpen(c)
  BY Zenon, <1>1 DEF BatonOK, LaunchOK, FundOK, SignatureTaken
<1>3. /\ ~Offered(c) /\ c \notin aspawned /\ ~PeerGreeted(c) /\ ~ToldToAccept(c)
      /\ ~PeerKeysAsked(c) /\ ~PeerKeysSent(c) /\ ~OfferTaken(c)
      /\ ~FundingAsked(c) /\ ~FundingSent(c)
      /\ ~RefundAsked(c) /\ ~RefundSigned(c) /\ ~SignatureSent(c)
  BY Zenon, <1>1, <1>2 DEF BatonOK, OfferOK, FundOK
<1>4. /\ ~TrackAsked(c) /\ ~Tracked(c) /\ ~TxSeen(c) /\ ~LockSent(c)
      /\ ~RouterGreeted(c) /\ ~RouterEchoed(c) /\ ~LockTaken(c)
  BY Zenon, <1>1, <1>2 DEF BatonOK, LockOK
<1> USE DEF lnpdVars, acceptVars
<1>5. CASE StepFails(c, ctl, p2p \ {m})
  <2>1. /\ \A t, s, r : t # "Report" /\ CtlMsg(t, s, r, c) \in ctl' =>
                            CtlMsg(t, s, r, c) \in ctl
        /\ p2p' = p2p \ {m}
    BY <1>5, CtlFields DEF StepFails, ToLnpd
  <2>2. Batonless(c)'
    BY ZenonT(30), <1>1, <1>2, <1>3, <2>1
       DEF Batonless, Greeted, ToldToOpen, Offered, PeerGreeted, ToldToAccept,
           PeerKeysAsked, PeerKeysSent, OfferTaken, FundingAsked, FundingSent,
           RefundAsked, RefundSigned, SignatureSent, SignatureTaken
  <2> HIDE DEF lnpdVars, acceptVars
  <2> QED
    BY ZenonT(30), <1>1, <1>2, <1>5, <2>2, StepFailsBaton
<1>6. CASE /\ p2p' = p2p \ {m}
           /\ \E track \in {CtlMsg("Track", identity[c], Watch, c)} \cup
                  (IF "watch" \in Faults
                   THEN {CtlMsg("EsbError", LnpBroker, identity[c], c)}
                   ELSE {}) :
                 ctl' = ctl \cup {ToLnpd("PublishFunding", identity[c], c), track}
           /\ StepTo(c, "PUBLISHED") /\ UNCHANGED identity
  <2>1. PICK track \in { CtlMsg("Track", Perm(c), Watch, c),
                         CtlMsg("EsbError", LnpBroker, Perm(c), c) } :
            ctl' = ctl \cup {publish, track}
    BY Zenon, <1>1, <1>6 DEF ToLnpd
  <2>2. PICK new : new = {publish, track}
    BY Zenon
  <2>3. /\ ctl' = (ctl \ {}) \cup new /\ p2p' = (p2p \ {m}) \cup {}
        /\ \A x \in {} \cup new : x.chan = c /\ x.type \in T
        /\ \A x \in {m} \cup {} : x.chan = c /\ x.type \in TP
    BY SMTT(30), <1>1, <1>6, <2>1, <2>2, CtlFields, P2pFields
  <2>4. Kept(c, T, TP)
    <3> HIDE DEF T, TP, publish
    <3> QED
      BY Zenon, <2>3, BothMoved
  <2>5. /\ proposal'[c] = "PUBLISHED" /\ identity' = identity
        /\ \A d \in Chan \ {c} : proposal'[d] = proposal[d]
    BY Zenon, <1>1, <1>6 DEF StepTo
  <2>6. ~SignatureTaken(c)'
    BY Zenon, <1>1, <2>3 DEF SignatureTaken
  <2>7. LaunchOK(c)'
    BY Zenon, <1>1, <1>2, <2>4
       DEF BatonOK, LaunchOK, KeysAsked, KeysSent, Greeted, ToldToOpen, Kept
  <2>8. OfferOK(c)'
    BY Zenon, <1>1, <1>3, <2>4, <2>5
       DEF OfferOK, Offered, PeerGreeted, ToldToAccept, PeerKeysAsked,
           PeerKeysSent, OfferTaken, Kept
  <2>9. FundOK(c)'
    BY ZenonT(30), <1>1, <1>2, <1>3, <2>4, <2>5, <2>6
       DEF BatonOK, FundOK, FundingAsked, FundingSent, RefundAsked,
           RefundSigned, SignatureSent, AskedToSign, FundingSignedBySignd, Kept
  <2>10. LockOK(c)'
    BY ZenonT(30), <1>1, <1>2, <1>4, <2>4, <2>5
       DEF LockOK, Tracked, TxSeen, LockSent, RouterGreeted,
           RouterEchoed, LockTaken, Kept
  <2>11. /\ \A x \in ctl' \ ctl : CtlForm(x)
         /\ \A x \in p2p' \ p2p : P2pForm(x)
    BY SMTT(30), <2>1, <2>3, CtlFields, IdsApart DEF CtlForm
  <2>12. UNCHANGED <<actl, lnpdVars, acceptVars, tracking>>
    BY Zenon, <1>1
  <2> HIDE DEF T, TP, publish, lnpdVars, acceptVars
  <2> QED
    BY ZenonT(30), <1>2, <2>4, <2>5, <2>7, <2>8, <2>9, <2>10, <2>11, <2>12,
       ProposerKept
<1> QED
  BY ZenonT(30), <1>5, <1>6 DEF CompleteFunding

(* The funding is seen, and the peer is told so.                             *)
LEMMA CompletePublishedBaton ==
    ASSUME IInv, FilingInv, BatonInv, NEW c \in Chan, NEW m \in ctl,
           CompletePublished(c, m),
           UNCHANGED <<lnpdVars, acceptVars, tracking>>
    PROVE  BatonInv'
<1> DEFINE msg == P2pMsg("FundingLocked", "acceptor", Perm(c), c, "none")
           T == {"TxFound", "EsbError"}
           TP == {"FundingLocked"}
<1>1. /\ BatonOK(c) /\ m = CtlMsg("TxFound", Watch, Perm(c), c)
      /\ identity[c] = Perm(c) /\ m.chan = c
      /\ proposal[c] = "PUBLISHED" /\ proposal \in [Chan -> ProposeStates]
      /\ actl' = actl
  BY ProposerFacts DEF CompletePublished, ProposerGets, CtlForm
<1>2. /\ TxSeen(c) /\ acceptance[c] = "FUNDED" /\ ~TrackAsked(c) /\ ~Tracked(c)
      /\ ~LockSent(c) /\ ~RouterGreeted(c) /\ ~RouterEchoed(c) /\ ~LockTaken(c)
      /\ c \in requested /\ c \notin spawned /\ ~Greeted(c) /\ ~ToldToOpen(c)
  BY Zenon, <1>1 DEF BatonOK, LaunchOK, LockOK, TxSeen
<1>3. /\ ~Offered(c) /\ c \notin aspawned /\ ~PeerGreeted(c) /\ ~ToldToAccept(c)
      /\ ~PeerKeysAsked(c) /\ ~PeerKeysSent(c) /\ ~OfferTaken(c)
      /\ ~FundingAsked(c) /\ ~FundingSent(c)
      /\ ~RefundAsked(c) /\ ~RefundSigned(c)
      /\ ~SignatureSent(c) /\ ~SignatureTaken(c)
  BY ZenonT(30), <1>1 DEF BatonOK, OfferOK, FundOK
<1>4. PICK new \in { {}, {CtlMsg("EsbError", LnpBroker, Perm(c), c)} },
           newp \in { {}, {msg} } :
          /\ ctl' = (ctl \ {m}) \cup new /\ p2p' = p2p \cup newp
          /\ new = {} <=> newp # {}
  BY SMTT(30), <1>1, Sent DEF CompletePublished
<1>5. /\ p2p' = (p2p \ {}) \cup newp
      /\ \A x \in {m} \cup new : x.chan = c /\ x.type \in T
      /\ \A x \in {} \cup newp : x.chan = c /\ x.type \in TP
  BY SMTT(30), <1>1, <1>4, CtlFields, P2pFields
<1>6. Kept(c, T, TP)
  <2> HIDE DEF T, TP, msg
  <2> QED
    BY Zenon, <1>4, <1>5, BothMoved
<1>7. /\ proposal'[c] = "LOCKED" /\ identity' = identity
      /\ \A d \in Chan \ {c} : proposal'[d] = proposal[d]
  BY ZenonT(30), <1>1 DEF CompletePublished, StepTo
<1> USE DEF lnpdVars, acceptVars
<1>8. ~TxSeen(c)' /\ ~LockTaken(c)'
  BY SMTT(30), <1>1, <1>2, <1>4, CtlFields, P2pFields DEF TxSeen, LockTaken
<1>9. LaunchOK(c)'
  BY Zenon, <1>1, <1>2, <1>6
     DEF BatonOK, LaunchOK, KeysAsked, KeysSent, Greeted, ToldToOpen, Kept
<1>10. OfferOK(c)'
  BY Zenon, <1>1, <1>3, <1>6, <1>7
     DEF OfferOK, Offered, PeerGreeted, ToldToAccept, PeerKeysAsked,
         PeerKeysSent, OfferTaken, Kept
<1>11. FundOK(c)'
  BY Zenon, <1>1, <1>3, <1>6, <1>7
     DEF BatonOK, FundOK, FundingAsked, FundingSent, RefundAsked,
         RefundSigned,
         SignatureSent, SignatureTaken, AskedToPublish, AskedToSign,
         FundingSignedBySignd, Kept
<1>12. LockOK(c)'
  BY ZenonT(30), <1>1, <1>2, <1>6, <1>7, <1>8
     DEF LockOK, TrackAsked, Tracked, RouterGreeted, RouterEchoed, Kept
<1>13. /\ \A x \in ctl' \ ctl : CtlForm(x)
       /\ \A x \in p2p' \ p2p : P2pForm(x)
  BY SMTT(30), <1>4, CtlFields, P2pFields, IdsApart DEF CtlForm, P2pForm
<1>14. UNCHANGED <<actl, lnpdVars, acceptVars, tracking>>
  BY Zenon, <1>1
<1> HIDE DEF T, TP, msg, lnpdVars, acceptVars
<1> QED
  BY ZenonT(30), <1>6, <1>7, <1>9, <1>10, <1>11, <1>12, <1>13, <1>14,
     ProposerKept

(* The peer is active, and so is the channel.                                *)
LEMMA CompleteLockedBaton ==
    ASSUME IInv, FilingInv, BatonInv, NEW c \in Chan, NEW m \in p2p,
           CompleteLocked(c, m),
           UNCHANGED <<lnpdVars, acceptVars, tracking>>
    PROVE  BatonInv'
<1> DEFINE created == CtlMsg("ChannelCreated", Perm(c), Router, c)
           T == {"ChannelCreated"}
           TP == {"FundingLocked"}
<1>1. /\ BatonOK(c)
      /\ m = P2pMsg("FundingLocked", "proposer", Perm(c), c, "none")
      /\ identity[c] = Perm(c) /\ m.chan = c
      /\ proposal[c] = "LOCKED" /\ proposal \in [Chan -> ProposeStates]
      /\ actl' = actl
  BY ProposerFacts DEF CompleteLocked, ProposerHears, P2pForm
<1>2. /\ LockTaken(c) /\ acceptance[c] = "ACTIVE" /\ ~LockSent(c)
      /\ ~TrackAsked(c) /\ ~Tracked(c) /\ ~TxSeen(c)
      /\ ~RouterGreeted(c) /\ ~RouterEchoed(c)
      /\ c \in requested /\ c \notin spawned /\ ~Greeted(c) /\ ~ToldToOpen(c)
  BY Zenon, <1>1 DEF BatonOK, LaunchOK, LockOK, LockTaken
<1>3. /\ ~Offered(c) /\ c \notin aspawned /\ ~PeerGreeted(c) /\ ~ToldToAccept(c)
      /\ ~PeerKeysAsked(c) /\ ~PeerKeysSent(c) /\ ~OfferTaken(c)
      /\ ~FundingAsked(c) /\ ~FundingSent(c)
      /\ ~RefundAsked(c) /\ ~RefundSigned(c)
      /\ ~SignatureSent(c) /\ ~SignatureTaken(c)
  BY Zenon, <1>1 DEF BatonOK, OfferOK, FundOK
<1> USE DEF lnpdVars, acceptVars
<1>4. CASE StepFails(c, ctl \cup {created}, p2p \ {m})
  <2> DEFINE report == CtlMsg("Report", Perm(c), LnpBroker, c)
  <2>1. PICK new : new = {created, report}
    BY Zenon
  <2>2. /\ ctl' = (ctl \ {}) \cup new /\ p2p' = p2p \ {m}
        /\ UNCHANGED <<proposal, identity>>
    BY Zenon, <1>1, <1>4, <2>1 DEF StepFails, ToLnpd
  <2>3. \A x \in new : x \in { CtlMsg("Report", identity[c], LnpBroker, c),
                           CtlMsg("ChannelCreated", identity[c], Router, c) }
    BY Zenon, <1>1, <2>1
  <2>4. \A t, s, r : /\ t \notin {"Report", "ChannelCreated"}
                     /\ CtlMsg(t, s, r, c) \in ctl'
                     => CtlMsg(t, s, r, c) \in ctl
    BY SMTT(30), <2>1, <2>2, CtlFields
  <2>5. Batonless(c)'
    BY ZenonT(30), <1>1, <1>2, <1>3, <2>2, <2>4
       DEF Batonless, Greeted, ToldToOpen, Offered, PeerGreeted, ToldToAccept,
           PeerKeysAsked, PeerKeysSent, OfferTaken, FundingAsked, FundingSent,
           RefundAsked, RefundSigned, SignatureSent, SignatureTaken
  <2>6. PICK old, oldp : old = {} /\ oldp = {m}
    BY Zenon
  <2>7. /\ ctl' = (ctl \ old) \cup new /\ p2p' = p2p \ oldp
        /\ \A x \in old : x.chan = c
        /\ \A x \in oldp : x.chan = c
    BY ZenonT(30), <1>1, <2>2, <2>6
  <2> HIDE DEF report, created, lnpdVars, acceptVars
  <2> QED
    BY ZenonT(30), <1>1, <2>2, <2>3, <2>5, <2>7, ProposerFails
<1>5. CASE /\ ctl' = ctl \cup {created} /\ p2p' = p2p \ {m}
           /\ StepTo(c, "ACTIVE") /\ UNCHANGED identity
  <2>1. /\ ctl' = (ctl \ {}) \cup {created} /\ p2p' = (p2p \ {m}) \cup {}
    BY Zenon, <1>5
  <2>2. /\ \A x \in {} \cup {created} : x.chan = c /\ x.type \in T
        /\ \A x \in {m} \cup {} : x.chan = c /\ x.type \in TP
    BY SMTT(30), <1>1, CtlFields, P2pFields
  <2>3. Kept(c, T, TP)
    <3> HIDE DEF T, TP, created, lnpdVars, acceptVars
    <3> QED
      BY ZenonT(30), <2>1, <2>2, BothMoved
  <2>4. /\ proposal'[c] = "ACTIVE" /\ identity' = identity
        /\ \A d \in Chan \ {c} : proposal'[d] = proposal[d]
    BY Zenon, <1>1, <1>5 DEF StepTo
  <2>5. ~LockTaken(c)' /\ ~LockSent(c)'
    BY ZenonT(30), <1>1, <1>2, <2>1 DEF LockTaken, LockSent
  <2>6. LaunchOK(c)'
    BY Zenon, <1>1, <1>2, <2>3
       DEF BatonOK, LaunchOK, KeysAsked, KeysSent, Greeted, ToldToOpen, Kept
  <2>7. OfferOK(c)'
    BY ZenonT(30), <1>1, <1>3, <2>3, <2>4
       DEF OfferOK, Offered, PeerGreeted, ToldToAccept, PeerKeysAsked,
           PeerKeysSent, OfferTaken, Kept
  <2>8. FundOK(c)'
    BY ZenonT(30), <1>1, <1>3, <2>3, <2>4
       DEF BatonOK, FundOK, FundingAsked, FundingSent, RefundAsked,
           RefundSigned, SignatureSent, SignatureTaken, AskedToPublish,
           AskedToSign, FundingSignedBySignd, Kept
  <2>9. LockOK(c)'
    BY ZenonT(30), <1>1, <1>2, <2>3, <2>4, <2>5
       DEF LockOK, TrackAsked, Tracked, TxSeen, RouterGreeted, RouterEchoed,
           Kept
  <2>10. /\ \A x \in ctl' \ ctl : CtlForm(x)
         /\ \A x \in p2p' \ p2p : P2pForm(x)
    BY SMTT(30), <2>1, CtlFields, IdsApart DEF CtlForm
  <2>11. UNCHANGED <<actl, lnpdVars, acceptVars, tracking>>
    BY Zenon, <1>1
  <2> HIDE DEF T, TP, created, lnpdVars, acceptVars
  <2> QED
    BY ZenonT(30), <2>3, <2>4, <2>6, <2>7, <2>8, <2>9, <2>10, <2>11,
       ProposerKept
<1> QED
  BY ZenonT(30), <1>1, <1>4, <1>5 DEF CompleteLocked

(* An error of signd or of the broker has taken the baton already.           *)
LEMMA ProposerErrorBaton ==
    ASSUME IInv, FilingInv, BatonInv, NEW c \in Chan, NEW m \in ctl,
           ProposerError(c, m),
           UNCHANGED <<lnpdVars, acceptVars, tracking>>
    PROVE  BatonInv'
<1>1. /\ BatonOK(c) /\ m.chan = c /\ actl' = actl
      /\ identity[c] \in {Temp(c), Perm(c)}
      /\ \/ m = CtlMsg("Error", Signer, identity[c], c)
         \/ m = CtlMsg("EsbError", LnpBroker, identity[c], c)
      /\ StepFails(c, ctl \ {m}, p2p)
  BY ZenonT(30), ProposerFacts DEF ProposerError, ProposerGets, CtlForm
<1>2. ~Clean(c)
  BY Zenon, <1>1 DEF Clean
<1>3. /\ \A t, s, r : t # "Report" /\ CtlMsg(t, s, r, c) \in ctl' =>
                          CtlMsg(t, s, r, c) \in ctl
      /\ p2p' = p2p
  BY <1>1, CtlFields DEF StepFails, ToLnpd
<1>4. Batonless(c)
  BY Zenon, <1>1, <1>2 DEF BatonOK, LaunchOK, OfferOK, FundOK, Batonless
<1>5. Batonless(c)'
  BY Zenon, <1>1, <1>3, <1>4
     DEF Batonless, Greeted, ToldToOpen, Offered, PeerGreeted, ToldToAccept,
         PeerKeysAsked, PeerKeysSent, OfferTaken, FundingAsked, FundingSent,
         RefundAsked, RefundSigned, SignatureSent, SignatureTaken, lnpdVars,
         acceptVars
<1> QED
  BY Zenon, <1>1, <1>5, StepFailsBaton

LEMMA ProposerBaton ==
    ASSUME IInv, FilingInv, BatonInv, NEW c \in Chan, ProposerHandles(c)
    PROVE  BatonInv'
BY ZenonT(30), ProposeChannelBaton, CompleteProposedBaton,
   CompleteAcceptedBaton,
   CompleteSigningBaton, CompleteFundingBaton, CompletePublishedBaton,
   CompleteLockedBaton, ProposerErrorBaton
   DEF ProposerHandles, ProposerHandlesCtl, ProposerHandlesP2p

=============================================================================
