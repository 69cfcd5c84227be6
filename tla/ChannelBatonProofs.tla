------------------------- MODULE ChannelBatonProofs -------------------------
(***************************************************************************)
(* Proof that the opening of a channel passes one baton along: what is     *)
(* under way for a channel, at either node or between them, is what the    *)
(* daemon it is for waits for, and nothing follows upon a failure.  Hence  *)
(* every BOLT message is expected where it arrives, lnpd panics upon       *)
(* errors of signd only, and a failed opening publishes no funding.  For   *)
(* any set of channels, any faults and both orders of Hello and Keyset.    *)
(***************************************************************************)
EXTENDS ChannelProposerProofs

-----------------------------------------------------------------------------
(* The daemons of the accepting node                                         *)

KeptByPeer(c, T, TP) ==
    /\ \A t, s, r, d :
           (t \notin T \/ d # c) =>
               (CtlMsg(t, s, r, d) \in actl' <=> CtlMsg(t, s, r, d) \in actl)
    /\ \A t, to, id, d, sig :
           (t \notin TP \/ d # c) =>
               (P2pMsg(t, to, id, d, sig) \in p2p'
                    <=> P2pMsg(t, to, id, d, sig) \in p2p)

LEMMA PeerBothMoved ==
    ASSUME NEW c, NEW T, NEW TP, NEW old, NEW new, NEW oldp, NEW newp,
           actl' = (actl \ old) \cup new, p2p' = (p2p \ oldp) \cup newp,
           \A x \in old \cup new : x.chan = c /\ x.type \in T,
           \A x \in oldp \cup newp : x.chan = c /\ x.type \in TP
    PROVE  KeptByPeer(c, T, TP)
BY Zenon, ActlMoved, P2pMoved DEF KeptByPeer

(* A step of the accepting node about c leaves the other channels alone.     *)
LEMMA AcceptorMove ==
    ASSUME BatonInv, NEW c \in Chan, NEW T, NEW TP, KeptByPeer(c, T, TP),
           UNCHANGED <<ctl, lnpdVars, proposeVars, tracking>>,
           \A d \in Chan \ {c} : SamePeer(d),
           \A x \in actl' \ actl : ActlForm(x), \A x \in p2p' \ p2p : P2pForm(x),
           OfferOK(c)', FundOK(c)', LockOK(c)'
    PROVE  BatonInv'
<1> USE DEF lnpdVars, proposeVars
<1>1. FormOK'
  <2>1. \A x \in actl' : ActlForm(x)'
    BY Zenon DEF BatonInv, FormOK, ActlForm
  <2>2. \A x \in p2p' : P2pForm(x)'
    BY Zenon DEF BatonInv, FormOK, P2pForm
  <2>3. (\A x \in ctl' : CtlForm(x)') /\ (\A x \in tracking' : x[1] = Perm(x[2]))
    BY Zenon DEF BatonInv, FormOK, CtlForm
  <2> QED
    BY Zenon, <2>1, <2>2, <2>3 DEF FormOK
<1>2. \A d \in Chan \ {c} : SameActl(d) /\ SameP2p(d)
  BY Zenon DEF KeptByPeer, SameActl, SameP2p
<1>3. \A d \in Chan \ {c} : SameCtl(d) /\ SameLnpd(d) /\ SameChanneld(d)
  BY Zenon DEF SameCtl, SameLnpd, SameChanneld
<1>4. LaunchOK(c)'
  BY Zenon DEF BatonInv, BatonOK, LaunchOK, Clean, KeysAsked, KeysSent,
     Greeted,
         ToldToOpen
<1>5. BatonOK(c)'
  BY Zenon, <1>4 DEF BatonOK
<1> QED
  BY Zenon, <1>1, <1>2, <1>3, <1>5, ChannelMove

(* What the daemons of the accepting node know of a message they get.        *)
LEMMA PeerFacts ==
    ASSUME IInv, BatonInv, NEW c \in Chan
    PROVE  /\ BatonOK(c) /\ AcceptTypeOK /\ ChanOK(c)
           /\ aidentity[c] \in {Temp(c), Perm(c)}
           /\ \A m \in actl :
                  /\ ActlForm(m) /\ m.chan \in Chan
                  /\ m = CtlMsg(m.type, m.src, m.dst, m.chan)
                  /\ m.dst = aidentity[c] => m.chan = c
           /\ \A m \in p2p :
                  /\ P2pForm(m) /\ m = P2pMsg(m.type, m.to, m.id, m.chan, m.sig)
                  /\ m.id = aidentity[c] => m.chan = c
<1>1. /\ BatonOK(c) /\ AcceptTypeOK /\ ChanOK(c)
      /\ aidentity[c] \in {Temp(c), Perm(c)}
  BY Zenon DEF BatonInv, IInv, TypeOK, ChanOK
<1>2. ASSUME NEW m \in actl
      PROVE  /\ ActlForm(m) /\ m.chan \in Chan
             /\ m = CtlMsg(m.type, m.src, m.dst, m.chan)
  BY Zenon, CtlMsgFields DEF BatonInv, FormOK, IInv, TypeOK, SharedTypeOK
<1>3. ASSUME NEW m \in actl, m.dst = aidentity[c] PROVE m.chan = c
  <2>1. m.dst \in {LnpBroker, Signer, Router, Temp(m.chan), Perm(m.chan)}
    BY Zenon, <1>2 DEF ActlForm
  <2>2. m.dst \in {Temp(c), Perm(c)}
    BY Zenon, <1>1, <1>3
  <2>3. m.dst \in {Temp(m.chan), Perm(m.chan)}
    BY Zenon, <2>1, <2>2, IdsApart
  <2> QED
    BY Zenon, <1>2, <2>2, <2>3, IdsDiffer
<1>4. ASSUME NEW m \in p2p
      PROVE  P2pForm(m) /\ m = P2pMsg(m.type, m.to, m.id, m.chan, m.sig)
  BY Zenon DEF BatonInv, FormOK, IInv, TypeOK, SharedTypeOK, P2pMsgs, P2pMsg
<1>5. \A m \in p2p : m.id = aidentity[c] => m.chan = c
  BY Zenon, AcceptorAddressed
<1> QED
  BY ZenonT(30), <1>1, <1>2, <1>3, <1>4, <1>5

(* FundOK and LockOK of a step before the funding, OfferOK of a later one.   *)
LEMMA PeerFund ==
    ASSUME NEW c \in Chan, FundOK(c), NEW T, NEW TP, KeptByPeer(c, T, TP),
           "FundingCreated" \notin TP, "FundingSigned" \notin TP,
           UNCHANGED <<ctl, lnpdVars, proposeVars>>,
           aidentity'[c] = aidentity[c],
           \/ acceptance'[c] = acceptance[c]
           \/ /\ proposal[c] = "PROPOSED"
              /\ acceptance'[c] \in {"LAUNCH", "ACCEPTED", "SIGNED"}
           \/ proposal[c] = "LOCKED"
    PROVE  FundOK(c)'
BY Zenon DEF FundOK, FundingAsked, FundingSent, RefundAsked, RefundSigned,
   Clean,
       SignatureSent, SignatureTaken, AskedToPublish, AskedToSign,
       FundingSignedBySignd, KeptByPeer, lnpdVars, proposeVars

LEMMA PeerLock ==
    ASSUME NEW c \in Chan, LockOK(c), NEW T, NEW TP, KeptByPeer(c, T, TP),
           "FundingLocked" \notin TP, ~RouterGreeted(c)', ~RouterEchoed(c)',
           UNCHANGED <<ctl, lnpdVars, proposeVars, tracking>>,
           \/ acceptance'[c] = acceptance[c]
           \/ proposal[c] \in {"PROPOSED", "FUNDING"}
    PROVE  LockOK(c)'
BY Zenon DEF LockOK, TrackAsked, Tracked, TxSeen, LockSent, LockTaken,
   KeptByPeer,
       proposeVars

LEMMA PeerOffer ==
    ASSUME NEW c \in Chan, OfferOK(c), proposal[c] \notin {"LAUNCH", "PROPOSED"},
           NEW T, NEW TP, KeptByPeer(c, T, TP),
           "Hello" \notin T \/ ~PeerGreeted(c)',
           T \cap {"AcceptChannelFrom", "DeriveKeyset", "Keyset"} = {},
           TP \cap {"OpenChannel", "AcceptChannel"} = {},
           UNCHANGED <<ctl, lnpdVars, proposeVars, aspawned>>
    PROVE  OfferOK(c)'
BY Zenon DEF OfferOK, Offered, PeerGreeted, ToldToAccept, PeerKeysAsked,
   PeerKeysSent,
       OfferTaken, KeptByPeer, lnpdVars, proposeVars

(* Before the funding routed has nothing to do for the channel.              *)
LEMMA NoRouter ==
    ASSUME NEW c \in Chan, LockOK(c), acceptance[c] # "LOCKED"
    PROVE  ~RouterGreeted(c) /\ ~RouterEchoed(c)
BY Zenon DEF LockOK

LEMMA CleanStays ==
    ASSUME NEW c \in Chan, UNCHANGED <<ctl, lnpdVars>>
    PROVE  Clean(c)' <=> Clean(c)
BY Zenon DEF Clean, lnpdVars

(* lnpd starts a channeld for the offer.                                     *)
LEMMA AcceptorLaunchesBaton ==
    ASSUME IInv, BatonInv, NEW c \in Chan, NEW m \in p2p,
           AcceptorLaunches(c, m), UNCHANGED othersThanAcceptor
    PROVE  BatonInv'
<1> DEFINE TP == {"OpenChannel"}
<1>1. /\ BatonOK(c) /\ m.chan = c
      /\ m = P2pMsg("OpenChannel", "acceptor", LnpBroker, c, "none")
      /\ p2p' = p2p \ {m} /\ aspawned' \in {aspawned, aspawned \cup {c}}
      /\ UNCHANGED <<acceptance, aidentity, ctl, actl>>
      /\ UNCHANGED <<lnpdVars, proposeVars, tracking>>
  BY PeerFacts DEF AcceptorLaunches, P2pForm, othersThanAcceptor
<1>2. /\ Offered(c) /\ proposal[c] = "PROPOSED" /\ acceptance[c] = "LAUNCH"
      /\ Clean(c) /\ ~PeerGreeted(c) /\ ~ToldToAccept(c)
  BY Zenon, <1>1 DEF BatonOK, OfferOK, Offered
<1>3. KeptByPeer(c, {}, TP)
  BY SMTT(30), <1>1, P2pFields DEF KeptByPeer
<1>4. \A d \in Chan \ {c} : SamePeer(d)
  BY Zenon, <1>1 DEF SamePeer
<1>5. ~Offered(c)' /\ Clean(c)'
  BY Zenon, <1>1, <1>2, CleanStays DEF Offered
<1>6. OfferOK(c)'
  BY ZenonT(30), <1>1, <1>2, <1>3, <1>5
     DEF BatonOK, OfferOK, PeerGreeted, ToldToAccept, PeerKeysAsked,
         PeerKeysSent, OfferTaken, KeptByPeer, proposeVars, lnpdVars
<1>7. ~RouterGreeted(c)' /\ ~RouterEchoed(c)'
  BY ZenonT(30), <1>1, <1>2, NoRouter DEF BatonOK, RouterGreeted, RouterEchoed
<1>8. FundOK(c)' /\ LockOK(c)'
  BY ZenonT(30), <1>1, <1>3, <1>7, PeerFund, PeerLock DEF BatonOK
<1>9. (\A x \in actl' \ actl : ActlForm(x)) /\ (\A x \in p2p' \ p2p : P2pForm(x))
  BY Zenon, <1>1
<1>10. UNCHANGED <<ctl, lnpdVars, proposeVars, tracking>>
  BY Zenon, <1>1
<1> HIDE DEF TP
<1> QED
  BY ZenonT(30), <1>3, <1>4, <1>6, <1>8, <1>9, <1>10, AcceptorMove

LEMMA AcceptorConnectsBaton ==
    ASSUME IInv, BatonInv, NEW c \in Chan,
           AcceptorConnects(c), UNCHANGED othersThanAcceptor
    PROVE  BatonInv'
<1> DEFINE n == CtlMsg("Hello", Temp(c), LnpBroker, c)
           T == {"Hello"}
<1>1. /\ BatonOK(c) /\ c \in aspawned /\ aspawned' = aspawned \ {c}
      /\ actl' = actl \cup {n}
      /\ UNCHANGED <<acceptance, aidentity, ctl, p2p>>
      /\ UNCHANGED <<lnpdVars, proposeVars, tracking>>
  BY Zenon, PeerFacts DEF AcceptorConnects, othersThanAcceptor
<1>2. /\ proposal[c] = "PROPOSED" /\ acceptance[c] = "LAUNCH" /\ Clean(c)
      /\ ~Offered(c) /\ ~PeerGreeted(c) /\ ~ToldToAccept(c)
  BY Zenon, <1>1 DEF BatonOK, OfferOK
<1>3. KeptByPeer(c, T, {})
  BY SMTT(30), <1>1, CtlFields DEF KeptByPeer
<1>4. \A d \in Chan \ {c} : SamePeer(d)
  BY Zenon, <1>1 DEF SamePeer
<1>5. OfferOK(c)'
  BY ZenonT(30), <1>1, <1>2, <1>3, CleanStays
     DEF BatonOK, OfferOK, Offered, ToldToAccept, PeerKeysAsked,
         PeerKeysSent, OfferTaken, KeptByPeer, proposeVars, lnpdVars
<1>6. ~RouterGreeted(c)' /\ ~RouterEchoed(c)'
  BY SMTT(30), <1>1, <1>2, NoRouter, CtlFields, IdsApart
     DEF BatonOK, RouterGreeted, RouterEchoed
<1>7. FundOK(c)' /\ LockOK(c)'
  BY ZenonT(30), <1>1, <1>3, <1>6, PeerFund, PeerLock DEF BatonOK
<1>8. (\A x \in actl' \ actl : ActlForm(x)) /\ (\A x \in p2p' \ p2p : P2pForm(x))
  BY <1>1, CtlFields DEF ActlForm
<1>9. UNCHANGED <<ctl, lnpdVars, proposeVars, tracking>>
  BY Zenon, <1>1
<1> HIDE DEF T, n
<1> QED
  BY ZenonT(30), <1>3, <1>4, <1>5, <1>7, <1>8, <1>9, AcceptorMove

(* The channeld that lnpd waits for is handed the offer.                     *)
LEMMA AcceptorHelloBaton ==
    ASSUME IInv, BatonInv, NEW c \in Chan, NEW m \in actl,
           AcceptorHello(c, m), UNCHANGED othersThanAcceptor
    PROVE  BatonInv'
<1> DEFINE n == CtlMsg("AcceptChannelFrom", LnpBroker, Temp(c), c)
           T == {"Hello", "AcceptChannelFrom"}
<1>1. /\ BatonOK(c) /\ m = CtlMsg("Hello", Temp(c), LnpBroker, c)
      /\ m.src = Temp(c)
      /\ UNCHANGED <<acceptance, aidentity, aspawned, ctl, p2p>>
      /\ UNCHANGED <<lnpdVars, proposeVars, tracking>>
  BY ZenonT(30), PeerFacts, IdsApart DEF AcceptorHello, ActlForm,
     othersThanAcceptor
<1>2. PICK new \in { {}, {n} } : actl' = (actl \ {m}) \cup new
  BY Zenon, <1>1 DEF AcceptorHello
<1>3. /\ PeerGreeted(c) /\ proposal[c] = "PROPOSED" /\ acceptance[c] = "LAUNCH"
      /\ Clean(c) /\ ~Offered(c) /\ c \notin aspawned /\ ~ToldToAccept(c)
  BY Zenon, <1>1 DEF BatonOK, OfferOK, PeerGreeted
<1>4. KeptByPeer(c, T, {})
  BY SMTT(30), <1>1, <1>2, CtlFields DEF KeptByPeer
<1>5. \A d \in Chan \ {c} : SamePeer(d)
  BY Zenon, <1>1 DEF SamePeer
<1>6. ~PeerGreeted(c)'
  BY SMTT(30), <1>1, <1>2, CtlFields DEF PeerGreeted
<1>7. OfferOK(c)'
  BY ZenonT(30), <1>1, <1>3, <1>4, <1>6, CleanStays
     DEF BatonOK, OfferOK, Offered, PeerKeysAsked,
         PeerKeysSent, OfferTaken, KeptByPeer, proposeVars, lnpdVars
<1>8. ~RouterGreeted(c)' /\ ~RouterEchoed(c)'
  BY SMTT(30), <1>1, <1>2, <1>3, NoRouter, CtlFields
     DEF BatonOK, RouterGreeted, RouterEchoed
<1>9. FundOK(c)' /\ LockOK(c)'
  BY ZenonT(30), <1>1, <1>4, <1>8, PeerFund, PeerLock DEF BatonOK
<1>10. (\A x \in actl' \ actl : ActlForm(x)) /\ (\A x \in p2p' \ p2p : P2pForm(x))
  BY SMTT(30), <1>1, <1>2, CtlFields DEF ActlForm
<1>11. UNCHANGED <<ctl, lnpdVars, proposeVars, tracking>>
  BY Zenon, <1>1
<1> HIDE DEF T, n
<1> QED
  BY ZenonT(30), <1>4, <1>5, <1>7, <1>9, <1>10, <1>11, AcceptorMove

(* The registry of daemons carries no baton.                                 *)
LEMMA AcceptorUpdateBaton ==
    ASSUME IInv, BatonInv, NEW c \in Chan, NEW m \in actl,
           AcceptorChannelUpdate(c, m), UNCHANGED othersThanAcceptor
    PROVE  BatonInv'
<1> USE DEF lnpdVars, proposeVars
<1>1. /\ m.type = "ChannelUpdate" /\ actl' = actl \ {m}
      /\ UNCHANGED <<acceptance, aidentity, aspawned, ctl, p2p>>
      /\ UNCHANGED <<lnpdVars, proposeVars, tracking>>
  BY Zenon DEF AcceptorChannelUpdate, othersThanAcceptor
<1>2. FormOK'
  BY Zenon, <1>1 DEF BatonInv, FormOK, CtlForm, ActlForm, P2pForm
<1>3. \A d \in Chan : SameActl(d)
  BY <1>1, CtlFields DEF SameActl
<1>4. \A d \in Chan : SameCtl(d) /\ SameP2p(d) /\ SameLnpd(d)
                      /\ SameChanneld(d) /\ SamePeer(d)
  BY ZenonT(30), <1>1 DEF SameCtl, SameP2p, SameLnpd, SameChanneld, SamePeer
<1> QED
  BY Zenon, <1>2, <1>3, <1>4, QuietMove

(* signd derives the keys of the accepting channeld, or does not answer.     *)
LEMMA AcceptorSigndBaton ==
    ASSUME IInv, BatonInv, NEW m \in actl, AcceptorSigndHandles(m)
    PROVE  BatonInv'
<1>1. PICK c \in Chan : c = m.chan
  BY ZenonT(30), CtlMsgFields DEF IInv, TypeOK, SharedTypeOK
<1> DEFINE n == CtlMsg("Keyset", Signer, Temp(c), c)
           T == {"DeriveKeyset", "Keyset"}
<1>2. /\ BatonOK(c) /\ m = CtlMsg("DeriveKeyset", Temp(c), Signer, c)
      /\ m.src = Temp(c) /\ m.type = "DeriveKeyset"
      /\ UNCHANGED <<acceptance, aidentity, aspawned, ctl, p2p>>
      /\ UNCHANGED <<lnpdVars, proposeVars, tracking>>
  BY SMTT(30), <1>1, PeerFacts, IdsApart
     DEF AcceptorSigndHandles, AcceptorSignd, SigndAnswers, ActlForm,
         othersThanAcceptor, acceptVars
<1>3. PICK new \in SigndReplies(m) : actl' = (actl \ {m}) \cup new
  BY ZenonT(30) DEF AcceptorSigndHandles, AcceptorSignd, SigndAnswers
<1>4. new \in { {}, {n} }
  BY Zenon, <1>1, <1>2, SigndRepliesWhat
<1>5. /\ PeerKeysAsked(c) /\ proposal[c] = "PROPOSED"
      /\ acceptance[c] = "ACCEPTED" /\ Clean(c) /\ ~PeerKeysSent(c)
  BY Zenon, <1>2 DEF BatonOK, OfferOK, PeerKeysAsked
<1>6. KeptByPeer(c, T, {})
  BY SMTT(30), <1>2, <1>3, <1>4, CtlFields DEF KeptByPeer
<1>7. \A d \in Chan \ {c} : SamePeer(d)
  BY Zenon, <1>2 DEF SamePeer
<1>8. ~PeerKeysAsked(c)'
  BY SMTT(30), <1>2, <1>3, <1>4, CtlFields DEF PeerKeysAsked
<1>9. OfferOK(c)'
  BY ZenonT(30), <1>2, <1>5, <1>6, <1>8, CleanStays
     DEF BatonOK, OfferOK, Offered, PeerGreeted, ToldToAccept, OfferTaken,
         KeptByPeer, proposeVars, lnpdVars
<1>10. ~RouterGreeted(c)' /\ ~RouterEchoed(c)'
  BY ZenonT(30), <1>2, <1>5, <1>6, NoRouter
     DEF BatonOK, RouterGreeted, RouterEchoed, KeptByPeer
<1>11. FundOK(c)' /\ LockOK(c)'
  BY ZenonT(30), <1>2, <1>6, <1>10, PeerFund, PeerLock DEF BatonOK
<1>12. (\A x \in actl' \ actl : ActlForm(x)) /\ (\A x \in p2p' \ p2p : P2pForm(x))
  BY SMTT(30), <1>2, <1>3, <1>4, CtlFields DEF ActlForm
<1>13. UNCHANGED <<ctl, lnpdVars, proposeVars, tracking>>
  BY Zenon, <1>2
<1> HIDE DEF T, n
<1> QED
  BY Zenon, <1>6, <1>7, <1>9, <1>11, <1>12, <1>13, AcceptorMove

(* routed adds the channel to its graph, or echoes a Hello.                  *)
LEMMA AcceptorRoutedBaton ==
    ASSUME IInv, BatonInv, NEW c \in Chan, NEW m \in actl,
           AcceptorRouted(c, m), UNCHANGED othersThanAcceptor
    PROVE  BatonInv'
<1> DEFINE n == CtlMsg("Hello", Router, Perm(c), c)
           T == {"Hello", "ChannelCreated"}
<1>1. /\ BatonOK(c) /\ m.chan = c /\ m.dst = Router
      /\ m = CtlMsg(m.type, m.src, Router, c) /\ ActlForm(m) /\ ChanOK(c)
      /\ UNCHANGED <<acceptance, aidentity, aspawned, ctl, p2p>>
      /\ UNCHANGED <<lnpdVars, proposeVars, tracking>>
  BY Zenon, PeerFacts DEF AcceptorRouted, othersThanAcceptor
<1>2. \/ m.type = "Hello" /\ m = CtlMsg("Hello", Perm(c), Router, c) /\ m.src = Perm(c)
      \/ m.type = "ChannelCreated"
  BY Zenon, <1>1, IdsApart DEF ActlForm
<1>3. /\ m.type = "Hello" => actl' = (actl \ {m}) \cup {n}
      /\ m.type = "ChannelCreated" => actl' = (actl \ {m}) \cup {}
  BY Zenon, <1>1, <1>2 DEF AcceptorRouted
<1>4. PICK new \in { {}, {n} } : actl' = (actl \ {m}) \cup new
  BY Zenon, <1>2, <1>3
<1>5. KeptByPeer(c, T, {})
  BY SMTT(30), <1>1, <1>2, <1>4, CtlFields DEF KeptByPeer
<1>6. \A d \in Chan \ {c} : SamePeer(d)
  BY Zenon, <1>1 DEF SamePeer
<1>7. PeerGreeted(c)' <=> PeerGreeted(c)
  BY SMTT(30), <1>1, <1>4, CtlFields, IdsApart DEF PeerGreeted
<1>8. OfferOK(c)'
  BY ZenonT(30), <1>1, <1>5, <1>7, CleanStays
     DEF BatonOK, OfferOK, Offered, ToldToAccept, PeerKeysAsked,
         PeerKeysSent, OfferTaken, KeptByPeer, proposeVars, lnpdVars
<1>9. FundOK(c)'
  BY ZenonT(30), <1>1, <1>5, PeerFund DEF BatonOK
<1>10. LockOK(c)'
  <2>1. CASE m.type = "Hello"
    <3>1. RouterGreeted(c) /\ acceptance[c] = "LOCKED"
      BY ZenonT(30), <1>1, <1>2, <2>1 DEF RouterGreeted, BatonOK, LockOK
    <3>2. ~RouterGreeted(c)'
      BY SMTT(30), <1>2, <1>3, <2>1, CtlFields, IdsApart DEF RouterGreeted
    <3> QED
      BY ZenonT(30), <1>1, <3>1, <3>2
         DEF BatonOK, LockOK, TrackAsked, Tracked, TxSeen, LockSent,
             LockTaken,
             proposeVars
  <2>2. CASE m.type = "ChannelCreated"
    <3>1. /\ RouterGreeted(c)' <=> RouterGreeted(c)
          /\ RouterEchoed(c)' <=> RouterEchoed(c)
      BY SMTT(30), <1>1, <1>3, <2>2, CtlFields DEF RouterGreeted, RouterEchoed
    <3> QED
      BY ZenonT(30), <1>1, <3>1
         DEF BatonOK, LockOK, TrackAsked, Tracked, TxSeen, LockSent,
             LockTaken,
             proposeVars
  <2> QED
    BY ZenonT(30), <1>2, <2>1, <2>2
<1>11. (\A x \in actl' \ actl : ActlForm(x)) /\ (\A x \in p2p' \ p2p : P2pForm(x))
  BY SMTT(30), <1>1, <1>4, CtlFields DEF ActlForm
<1>12. UNCHANGED <<ctl, lnpdVars, proposeVars, tracking>>
  BY ZenonT(30), <1>1
<1> HIDE DEF T, n
<1> QED
  BY ZenonT(30), <1>5, <1>6, <1>8, <1>9, <1>10, <1>11, <1>12, AcceptorMove

(* channeld takes the offer and asks for its keys, or refuses.               *)
LEMMA AcceptChannelBaton ==
    ASSUME IInv, BatonInv, NEW c \in Chan, NEW m \in actl,
           AcceptChannel(c, m), UNCHANGED othersThanAcceptor
    PROVE  BatonInv'
<1> DEFINE n == CtlMsg("DeriveKeyset", Temp(c), Signer, c)
           T == {"AcceptChannelFrom", "DeriveKeyset"}
<1>1. /\ BatonOK(c) /\ m.chan = c /\ AcceptTypeOK
      /\ m = CtlMsg("AcceptChannelFrom", LnpBroker, Temp(c), c)
      /\ aidentity[c] = Temp(c)
      /\ UNCHANGED <<aidentity, aspawned, ctl, p2p>>
      /\ UNCHANGED <<lnpdVars, proposeVars, tracking>>
  BY SMTT(30), PeerFacts DEF AcceptChannel, AcceptorGets, ActlForm,
     othersThanAcceptor
<1>2. \/ actl' = (actl \ {m}) \cup {n} /\ AcceptTo(c, "ACCEPTED")
      \/ actl' = (actl \ {m}) \cup {} /\ UNCHANGED acceptance
  BY Zenon, <1>1 DEF AcceptChannel
<1>3. PICK new \in { {}, {n} } : actl' = (actl \ {m}) \cup new
  BY Zenon, <1>2
<1>4. /\ ToldToAccept(c) /\ proposal[c] = "PROPOSED" /\ acceptance[c] = "LAUNCH"
      /\ Clean(c) /\ ~Offered(c) /\ c \notin aspawned /\ ~PeerGreeted(c)
      /\ ~PeerKeysAsked(c) /\ ~PeerKeysSent(c) /\ ~OfferTaken(c)
  BY Zenon, <1>1 DEF BatonOK, OfferOK, ToldToAccept
<1>5. KeptByPeer(c, T, {})
  BY SMTT(30), <1>1, <1>3, CtlFields DEF KeptByPeer
<1>6. \A d \in Chan \ {c} : SamePeer(d)
  BY ZenonT(30), <1>1, <1>2 DEF SamePeer, AcceptTo, AcceptTypeOK
<1>7. ~ToldToAccept(c)'
  BY SMTT(30), <1>1, <1>3, CtlFields DEF ToldToAccept
<1>8. /\ acceptance'[c] \in {"LAUNCH", "ACCEPTED"}
      /\ PeerKeysAsked(c)' => acceptance'[c] = "ACCEPTED"
  BY ZenonT(30), <1>1, <1>2, <1>4 DEF AcceptTo, AcceptTypeOK, PeerKeysAsked
<1>9. OfferOK(c)'
  BY ZenonT(30), <1>1, <1>4, <1>5, <1>7, <1>8, CleanStays
     DEF BatonOK, OfferOK, Offered, PeerGreeted, PeerKeysSent, OfferTaken,
         KeptByPeer, proposeVars, lnpdVars
<1>10. ~RouterGreeted(c)' /\ ~RouterEchoed(c)'
  BY Zenon, <1>1, <1>4, <1>5, NoRouter DEF BatonOK, RouterGreeted,
     RouterEchoed, KeptByPeer
<1>11. FundOK(c)' /\ LockOK(c)'
  BY ZenonT(30), <1>1, <1>4, <1>5, <1>8, <1>10, PeerFund, PeerLock DEF BatonOK
<1>12. (\A x \in actl' \ actl : ActlForm(x)) /\ (\A x \in p2p' \ p2p : P2pForm(x))
  BY SMTT(30), <1>1, <1>3, CtlFields DEF ActlForm
<1>13. UNCHANGED <<ctl, lnpdVars, proposeVars, tracking>>
  BY Zenon, <1>1
<1> HIDE DEF T, n
<1> QED
  BY Zenon, <1>5, <1>6, <1>9, <1>11, <1>12, <1>13, AcceptorMove

(* channeld answers the offer once it has its keys.                          *)
LEMMA FinishAcceptedBaton ==
    ASSUME IInv, BatonInv, NEW c \in Chan, NEW m \in actl,
           FinishAccepted(c, m), UNCHANGED othersThanAcceptor
    PROVE  BatonInv'
<1> DEFINE n == P2pMsg("AcceptChannel", "proposer", Temp(c), c, "none")
           T == {"Keyset"}
           TP == {"AcceptChannel"}
<1>1. /\ BatonOK(c) /\ m.chan = c /\ AcceptTypeOK
      /\ m = CtlMsg("Keyset", Signer, Temp(c), c)
      /\ actl' = actl \ {m}
      /\ UNCHANGED <<aidentity, aspawned, ctl>>
      /\ UNCHANGED <<lnpdVars, proposeVars, tracking>>
  BY PeerFacts DEF FinishAccepted, AcceptorGets, ActlForm, othersThanAcceptor
<1>2. \/ p2p' \in {p2p \cup {n}, p2p} /\ AcceptTo(c, "SIGNED")
      \/ p2p' = p2p /\ UNCHANGED acceptance
  BY Zenon DEF FinishAccepted, AnswerP2p
<1>3. PICK new \in { {}, {n} } : p2p' = p2p \cup new
  BY Zenon, <1>2
<1>4. /\ PeerKeysSent(c) /\ proposal[c] = "PROPOSED" /\ acceptance[c] = "ACCEPTED"
      /\ Clean(c) /\ ~Offered(c) /\ c \notin aspawned /\ ~PeerGreeted(c)
      /\ ~ToldToAccept(c) /\ ~PeerKeysAsked(c) /\ ~OfferTaken(c)
  BY Zenon, <1>1 DEF BatonOK, OfferOK, PeerKeysSent
<1>5. KeptByPeer(c, T, TP)
  <2>1. PICK gone : gone = {m}
    BY Zenon
  <2>2. actl' = (actl \ gone) \cup {} /\ p2p' = (p2p \ {}) \cup new
    BY ZenonT(30), <1>1, <1>3, <2>1
  <2>3. /\ \A x \in gone \cup {} : x.chan = c /\ x.type \in T
        /\ \A x \in {} \cup new : x.chan = c /\ x.type \in TP
    BY SMTT(30), <1>1, <1>3, <2>1, CtlFields, P2pFields
  <2> HIDE DEF T, TP, n
  <2> QED
    BY ZenonT(30), <2>2, <2>3, PeerBothMoved
<1>6. \A d \in Chan \ {c} : SamePeer(d)
  BY Zenon, <1>1, <1>2 DEF SamePeer, AcceptTo, AcceptTypeOK
<1>7. ~PeerKeysSent(c)'
  BY Zenon, <1>1 DEF PeerKeysSent
<1>8. /\ acceptance'[c] \in {"ACCEPTED", "SIGNED"}
      /\ OfferTaken(c)' => acceptance'[c] = "SIGNED"
  BY ZenonT(30), <1>1, <1>2, <1>4 DEF AcceptTo, AcceptTypeOK, OfferTaken
<1>9. OfferOK(c)'
  BY ZenonT(30), <1>1, <1>4, <1>5, <1>7, <1>8, CleanStays
     DEF BatonOK, OfferOK, Offered, PeerGreeted, ToldToAccept, PeerKeysAsked,
         KeptByPeer, proposeVars, lnpdVars
<1>10. ~RouterGreeted(c)' /\ ~RouterEchoed(c)'
  BY ZenonT(30), <1>1, <1>4, <1>5, NoRouter
     DEF BatonOK, RouterGreeted, RouterEchoed, KeptByPeer
<1>11. FundOK(c)' /\ LockOK(c)'
  BY ZenonT(30), <1>1, <1>4, <1>5, <1>8, <1>10, PeerFund, PeerLock DEF BatonOK
<1>12. (\A x \in actl' \ actl : ActlForm(x)) /\ (\A x \in p2p' \ p2p : P2pForm(x))
  BY SMTT(30), <1>1, <1>3, P2pFields DEF P2pForm
<1>13. UNCHANGED <<ctl, lnpdVars, proposeVars, tracking>>
  BY Zenon, <1>1
<1> HIDE DEF T, TP, n
<1> QED
  BY ZenonT(30), <1>5, <1>6, <1>9, <1>11, <1>12, <1>13, AcceptorMove

(* channeld takes the permanent id and signs the funding, or fails.          *)
LEMMA FinishSignedBaton ==
    ASSUME IInv, BatonInv, NEW c \in Chan, NEW m \in p2p,
           FinishSigned(c, m), UNCHANGED othersThanAcceptor
    PROVE  BatonInv'
<1> DEFINE n == P2pMsg("FundingSigned", "proposer", Perm(c), c, "proposer")
           u == CtlMsg("ChannelUpdate", Perm(c), LnpBroker, c)
           T == {"ChannelUpdate"}
           TP == {"FundingCreated", "FundingSigned"}
<1>1. /\ BatonOK(c) /\ m.chan = c /\ AcceptTypeOK /\ m.sig = "proposer"
      /\ m = P2pMsg("FundingCreated", "acceptor", Temp(c), c, "proposer")
      /\ aidentity' = [aidentity EXCEPT ![c] = Perm(c)]
      /\ UNCHANGED <<aspawned, ctl>>
      /\ UNCHANGED <<lnpdVars, proposeVars, tracking>>
  BY SMTT(30), PeerFacts DEF FinishSigned, AcceptorHears, P2pForm,
     othersThanAcceptor
<1>2. \/ /\ actl' = actl \cup {u} /\ AcceptTo(c, "FUNDED")
         /\ p2p' \in {(p2p \ {m}) \cup {n}, (p2p \ {m}) \cup {}}
      \/ /\ actl' = actl \cup {} /\ UNCHANGED acceptance
         /\ p2p' = (p2p \ {m}) \cup {}
  BY Zenon, <1>1 DEF FinishSigned, AnswerP2p
<1>3. PICK newc \in { {}, {u} } : actl' = actl \cup newc
  BY Zenon, <1>2
<1>4. PICK new \in { {}, {n} } : p2p' = (p2p \ {m}) \cup new
  BY Zenon, <1>2
<1>5. /\ SignatureSent(c) /\ proposal[c] = "FUNDING" /\ acceptance[c] = "SIGNED"
      /\ aidentity[c] = Temp(c) /\ Clean(c) /\ ~SignatureTaken(c)
  BY Zenon, <1>1 DEF BatonOK, FundOK, SignatureSent
<1>6. KeptByPeer(c, T, TP)
  <2>1. PICK gone : gone = {m}
    BY Zenon
  <2>2. actl' = (actl \ {}) \cup newc /\ p2p' = (p2p \ gone) \cup new
    BY Zenon, <1>3, <1>4, <2>1
  <2>3. /\ \A x \in {} \cup newc : x.chan = c /\ x.type \in T
        /\ \A x \in gone \cup new : x.chan = c /\ x.type \in TP
    BY <1>1, <1>3, <1>4, <2>1, CtlFields, P2pFields
  <2> HIDE DEF T, TP, n, u
  <2> QED
    BY ZenonT(30), <2>2, <2>3, PeerBothMoved
<1>7. \A d \in Chan \ {c} : SamePeer(d)
  BY Zenon, <1>1, <1>2 DEF SamePeer, AcceptTo, AcceptTypeOK
<1>8. ~SignatureSent(c)'
  BY <1>1, <1>4, P2pFields DEF SignatureSent
<1>9. /\ acceptance'[c] \in {"SIGNED", "FUNDED"}
      /\ SignatureTaken(c)' => acceptance'[c] = "FUNDED"
  BY Zenon, <1>1, <1>2, <1>5 DEF AcceptTo, AcceptTypeOK, SignatureTaken
<1>10. OfferOK(c)'
  <2> HIDE DEF n, u
  <2> QED
    BY ZenonT(30), <1>1, <1>5, <1>6, PeerOffer DEF BatonOK
<1>11. FundOK(c)'
  BY ZenonT(30), <1>1, <1>5, <1>8, <1>9, CleanStays
     DEF BatonOK, FundOK, FundingAsked, FundingSent, RefundAsked,
         RefundSigned,
         AskedToPublish, AskedToSign, FundingSignedBySignd, lnpdVars, proposeVars
<1>12. ~RouterGreeted(c)' /\ ~RouterEchoed(c)'
  BY Zenon, <1>1, <1>5, <1>6, NoRouter DEF BatonOK, RouterGreeted,
     RouterEchoed, KeptByPeer
<1>13. LockOK(c)'
  BY ZenonT(30), <1>1, <1>5, <1>6, <1>12, PeerLock DEF BatonOK
<1>14. (\A x \in actl' \ actl : ActlForm(x)) /\ (\A x \in p2p' \ p2p : P2pForm(x))
  BY SMTT(30), <1>3, <1>4, CtlFields, P2pFields DEF ActlForm, P2pForm
<1>15. UNCHANGED <<ctl, lnpdVars, proposeVars, tracking>>
  BY Zenon, <1>1
<1> HIDE DEF T, TP, n, u
<1> QED
  BY ZenonT(30), <1>6, <1>7, <1>10, <1>11, <1>13, <1>14, <1>15, AcceptorMove

(* channeld tells routed of the locked channel, or fails.                    *)
LEMMA FinishFundedBaton ==
    ASSUME IInv, BatonInv, NEW c \in Chan, NEW m \in p2p,
           FinishFunded(c, m), UNCHANGED othersThanAcceptor
    PROVE  BatonInv'
<1> DEFINE both == { CtlMsg("ChannelCreated", Perm(c), Router, c),
                     CtlMsg("Hello", Perm(c), Router, c) }
           T == {"ChannelCreated", "Hello"}
           TP == {"FundingLocked"}
<1>1. /\ BatonOK(c) /\ m.chan = c /\ AcceptTypeOK /\ ChanOK(c)
      /\ acceptance[c] = "FUNDED" /\ aidentity[c] = Perm(c)
      /\ m = P2pMsg("FundingLocked", "acceptor", Perm(c), c, "none")
      /\ p2p' = p2p \ {m}
      /\ UNCHANGED <<aidentity, aspawned, ctl>>
      /\ UNCHANGED <<lnpdVars, proposeVars, tracking>>
  BY SMTT(30), PeerFacts
     DEF FinishFunded, AcceptorHears, P2pForm, ChanOK, othersThanAcceptor
<1>2. \/ actl' = actl \cup both /\ AcceptTo(c, "LOCKED")
      \/ actl' = actl \cup {} /\ UNCHANGED acceptance
  BY Zenon, <1>1 DEF FinishFunded
<1>3. PICK new \in { {}, both } : actl' = actl \cup new
  BY Zenon, <1>2
<1>4. /\ LockSent(c) /\ proposal[c] = "LOCKED" /\ ~LockTaken(c)
      /\ ~RouterGreeted(c) /\ ~RouterEchoed(c)
  BY Zenon, <1>1 DEF BatonOK, LockOK, LockSent
<1>5. \A x \in new : x.chan = c /\ x.type \in T
  BY SMTT(30), <1>3, CtlFields
<1>6. KeptByPeer(c, T, TP)
  <2>1. PICK gone : gone = {m}
    BY Zenon
  <2>2. actl' = (actl \ {}) \cup new /\ p2p' = (p2p \ gone) \cup {}
    BY ZenonT(30), <1>1, <1>3, <2>1
  <2>3. /\ \A x \in {} \cup new : x.chan = c /\ x.type \in T
        /\ \A x \in gone \cup {} : x.chan = c /\ x.type \in TP
    BY SMTT(30), <1>1, <1>5, <2>1, P2pFields
  <2> HIDE DEF T, TP, both
  <2> QED
    BY ZenonT(30), <2>2, <2>3, PeerBothMoved
<1>7. \A d \in Chan \ {c} : SamePeer(d)
  BY ZenonT(30), <1>1, <1>2 DEF SamePeer, AcceptTo, AcceptTypeOK
<1>8. ~LockSent(c)' /\ (LockTaken(c)' <=> LockTaken(c))
  BY SMTT(30), <1>1, P2pFields DEF LockSent, LockTaken
<1>9. /\ acceptance'[c] \in {"FUNDED", "LOCKED"}
      /\ RouterGreeted(c)' => acceptance'[c] = "LOCKED"
  BY ZenonT(30), <1>1, <1>2, <1>4 DEF AcceptTo, AcceptTypeOK, RouterGreeted
<1>10. ~RouterEchoed(c)'
  BY SMTT(30), <1>3, <1>4, CtlFields, IdsApart DEF RouterEchoed
<1>11. PeerGreeted(c)' <=> PeerGreeted(c)
  BY SMTT(30), <1>3, CtlFields, IdsApart DEF PeerGreeted
<1>12. ~PeerGreeted(c)'
  BY ZenonT(30), <1>1, <1>4, <1>11 DEF BatonOK, OfferOK
<1>13. OfferOK(c)'
  <2> HIDE DEF both
  <2> QED
    BY ZenonT(30), <1>1, <1>4, <1>6, <1>12, PeerOffer DEF BatonOK
<1>14. FundOK(c)'
  <2>1. aidentity'[c] = aidentity[c] /\ FundOK(c)
    BY Zenon, <1>1 DEF BatonOK
  <2>2. "FundingCreated" \notin TP /\ "FundingSigned" \notin TP
    BY Zenon
  <2> HIDE DEF both, T, TP
  <2> QED
    BY ZenonT(30), <1>1, <1>4, <1>6, <2>1, <2>2, PeerFund
<1>15. LockOK(c)'
  BY ZenonT(30), <1>1, <1>4, <1>8, <1>9, <1>10
     DEF BatonOK, LockOK, TrackAsked, Tracked, TxSeen, proposeVars
<1>16. (\A x \in actl' \ actl : ActlForm(x)) /\ (\A x \in p2p' \ p2p : P2pForm(x))
  BY SMTT(30), <1>1, <1>3, CtlFields DEF ActlForm
<1>17. UNCHANGED <<ctl, lnpdVars, proposeVars, tracking>>
  BY Zenon, <1>1
<1> HIDE DEF T, TP, both
<1> QED
  BY ZenonT(30), <1>6, <1>7, <1>13, <1>14, <1>15, <1>16, <1>17, AcceptorMove

(* channeld, answered by routed, is active and locks the channel in turn.    *)
LEMMA FinishLockedBaton ==
    ASSUME IInv, BatonInv, NEW c \in Chan, NEW m \in actl,
           FinishLocked(c, m), UNCHANGED othersThanAcceptor
    PROVE  BatonInv'
<1> DEFINE n == P2pMsg("FundingLocked", "proposer", Perm(c), c, "none")
           T == {"Hello"}
           TP == {"FundingLocked"}
<1>1. /\ BatonOK(c) /\ m.chan = c /\ AcceptTypeOK /\ ChanOK(c)
      /\ acceptance[c] = "LOCKED" /\ aidentity[c] = Perm(c)
      /\ m.type = "Hello" /\ m.dst = Perm(c) /\ ActlForm(m)
      /\ m = CtlMsg(m.type, m.src, m.dst, m.chan)
      /\ actl' = actl \ {m} /\ AcceptTo(c, "ACTIVE")
      /\ UNCHANGED <<aidentity, aspawned, ctl>>
      /\ UNCHANGED <<lnpdVars, proposeVars, tracking>>
  BY ZenonT(30), PeerFacts DEF FinishLocked, AcceptorGets, ChanOK,
     othersThanAcceptor
<1>2. m = CtlMsg("Hello", Router, Perm(c), c)
  BY Zenon, <1>1, IdsApart DEF ActlForm
<1>3. PICK new \in { {}, {n} } : p2p' = p2p \cup new
  BY Zenon, <1>1 DEF FinishLocked, AnswerP2p
<1>4. RouterEchoed(c) /\ ~RouterGreeted(c) /\ proposal[c] = "LOCKED" /\ ~LockSent(c)
  BY ZenonT(30), <1>1, <1>2 DEF BatonOK, LockOK, RouterEchoed, ChanOK
<1>5. KeptByPeer(c, T, TP)
  <2>1. PICK gone : gone = {m}
    BY Zenon
  <2>2. actl' = (actl \ gone) \cup {} /\ p2p' = (p2p \ {}) \cup new
    BY ZenonT(30), <1>1, <1>3, <2>1
  <2>3. /\ \A x \in gone \cup {} : x.chan = c /\ x.type \in T
        /\ \A x \in {} \cup new : x.chan = c /\ x.type \in TP
    BY SMTT(30), <1>1, <1>3, <2>1, CtlFields, P2pFields
  <2> HIDE DEF T, TP, n
  <2> QED
    BY ZenonT(30), <2>2, <2>3, PeerBothMoved
<1>6. \A d \in Chan \ {c} : SamePeer(d)
  BY Zenon, <1>1 DEF SamePeer, AcceptTo, AcceptTypeOK
<1>7. acceptance'[c] = "ACTIVE"
  BY ZenonT(30), <1>1 DEF AcceptTo, AcceptTypeOK
<1>8. ~RouterGreeted(c)' /\ ~RouterEchoed(c)' /\ ~LockSent(c)'
  BY SMTT(30), <1>1, <1>2, <1>3, <1>4, P2pFields
     DEF RouterGreeted, RouterEchoed, LockSent
<1>9. ~PeerGreeted(c)'
  BY Zenon, <1>1, <1>4 DEF BatonOK, OfferOK, PeerGreeted
<1>10. OfferOK(c)'
  <2> HIDE DEF n
  <2> QED
    BY ZenonT(30), <1>1, <1>4, <1>5, <1>9, PeerOffer DEF BatonOK
<1>11. FundOK(c)'
  <2>1. aidentity'[c] = aidentity[c] /\ FundOK(c)
    BY Zenon, <1>1 DEF BatonOK
  <2>2. "FundingCreated" \notin TP /\ "FundingSigned" \notin TP
    BY Zenon
  <2> HIDE DEF n, T, TP
  <2> QED
    BY ZenonT(30), <1>1, <1>4, <1>5, <2>1, <2>2, PeerFund
<1>12. LockOK(c)'
  BY ZenonT(30), <1>1, <1>4, <1>7, <1>8
     DEF BatonOK, LockOK, TrackAsked, Tracked, TxSeen, proposeVars
<1>13. (\A x \in actl' \ actl : ActlForm(x)) /\ (\A x \in p2p' \ p2p : P2pForm(x))
  BY SMTT(30), <1>1, <1>3, P2pFields DEF P2pForm
<1>14. UNCHANGED <<ctl, lnpdVars, proposeVars, tracking>>
  BY Zenon, <1>1
<1> HIDE DEF T, TP, n
<1> QED
  BY ZenonT(30), <1>5, <1>6, <1>10, <1>11, <1>12, <1>13, <1>14, AcceptorMove

LEMMA AcceptorBaton ==
    ASSUME IInv, BatonInv, NEW c \in Chan, AcceptorHandles(c)
    PROVE  BatonInv'
BY ZenonT(30), AcceptorConnectsBaton, AcceptorHelloBaton, AcceptorUpdateBaton,
   AcceptorRoutedBaton, AcceptChannelBaton, FinishAcceptedBaton,
   FinishLockedBaton, AcceptorLaunchesBaton, FinishSignedBaton,
   FinishFundedBaton
   DEF AcceptorHandles, AcceptorHandlesCtl, AcceptorHandlesP2p

-----------------------------------------------------------------------------
(* The invariant, and what follows from it                                   *)

LEMMA BatonInit == Init => BatonInv
<1> SUFFICES ASSUME Init PROVE BatonInv
  BY Zenon
<1>1. /\ ctl = {} /\ actl = {} /\ p2p = {} /\ tracking = {}
      /\ spawned = {} /\ aspawned = {} /\ requested = {}
      /\ told = [c \in Chan |-> {}]
      /\ proposal = [c \in Chan |-> "LAUNCH"]
      /\ acceptance = [c \in Chan |-> "LAUNCH"]
      /\ identity = [c \in Chan |-> Temp(c)]
      /\ aidentity = [c \in Chan |-> Temp(c)]
  BY Zenon DEF Init, SharedInit, LnpdInit, ProposeInit, AcceptInit
<1>2. FormOK
  BY Zenon, <1>1 DEF FormOK
<1>3. ASSUME NEW c \in Chan PROVE BatonOK(c)
  <2>1. Clean(c)
    BY Zenon, <1>1 DEF Clean
  <2>2. LaunchOK(c)
    BY Zenon, <1>1, <2>1 DEF LaunchOK, KeysAsked, KeysSent, Greeted,
       ToldToOpen
  <2>3. OfferOK(c)
    BY Zenon, <1>1 DEF OfferOK, Offered, PeerGreeted, ToldToAccept,
       PeerKeysAsked,
                PeerKeysSent, OfferTaken
  <2>4. FundOK(c)
    BY Zenon, <1>1 DEF FundOK, FundingAsked, FundingSent, RefundAsked,
       RefundSigned,
                SignatureSent, SignatureTaken, AskedToPublish, AskedToSign,
                FundingSignedBySignd
  <2>5. LockOK(c)
    BY Zenon, <1>1 DEF LockOK, TrackAsked, Tracked, TxSeen, LockSent,
       RouterGreeted,
                RouterEchoed, LockTaken
  <2> QED
    BY ZenonT(30), <2>2, <2>3, <2>4, <2>5 DEF BatonOK
<1> QED
  BY Zenon, <1>2, <1>3 DEF BatonInv

LEMMA BatonNext ==
    ASSUME IInv, FilingInv, BatonInv, [Next]_vars
    PROVE  BatonInv'
<1>1. ASSUME NEW c \in Chan, Mine(c) PROVE BatonInv'
  BY Zenon, <1>1, IdleBaton DEF Mine
<1>2. CASE UNCHANGED vars
  BY Zenon, <1>2, IdleBaton DEF vars
<1> QED
  BY ZenonT(30), <1>1, <1>2, CreateChannelBaton, LnpdBaton, SigndBaton,
     ChanneldStartsBaton, ProposerBaton, RoutedBaton, WatchdTracksBaton,
     WatchdFindsBaton, AcceptorBaton, AcceptorSigndBaton
     DEF Next

(* The opening of every channel passes one baton along, whatever fails: what *)
(* is in flight for a channel at either node is what the state of its        *)
(* launcher and of its two channel daemons calls for, and a baton before the *)
(* broadcast is in flight only while no failure was reported.                *)
THEOREM OneBaton == Spec => []BatonInv
BY BatonInit, BatonNext, FilingInit, FilingNext, Invariance, PTL DEF Spec

LEMMA BatonExpected ==
    ASSUME IInv, BatonInv
    PROVE  P2pIsExpected
<1> SUFFICES ASSUME NEW m \in p2p
             PROVE  CASE m.type = "OpenChannel" ->
                             acceptance[m.chan] = "LAUNCH" /\ m.chan \notin aspawned
                      [] m.type = "AcceptChannel" ->
                             m.id = identity[m.chan] /\ proposal[m.chan] = "PROPOSED"
                      [] m.type = "FundingCreated" ->
                             m.id = aidentity[m.chan] /\ acceptance[m.chan] = "SIGNED"
                      [] m.type = "FundingSigned" ->
                             m.id = identity[m.chan] /\ proposal[m.chan] = "FUNDING"
                      [] m.type = "FundingLocked" ->
                             IF m.to = "acceptor"
                             THEN m.id = aidentity[m.chan] /\ acceptance[m.chan] = "FUNDED"
                             ELSE m.id = identity[m.chan] /\ proposal[m.chan] = "LOCKED"
  BY Zenon DEF P2pIsExpected
<1>1. /\ m.type \in P2pTypes /\ m.to \in Sides /\ m.chan \in Chan
      /\ m = P2pMsg(m.type, m.to, m.id, m.chan, m.sig) /\ P2pForm(m)
  BY ZenonT(30), P2pMsgFields, PeerFacts DEF IInv, TypeOK, SharedTypeOK
<1>2. PICK c \in Chan : c = m.chan
  BY Zenon, <1>1
<1>3. BatonOK(c) /\ ChanOK(c)
  BY Zenon, PeerFacts
<1>4. CASE m.type = "OpenChannel"
  <2>1. Offered(c)
    BY Zenon, <1>1, <1>2, <1>4 DEF P2pForm, Offered
  <2> QED
    BY Zenon, <1>2, <1>3, <1>4, <2>1 DEF BatonOK, OfferOK
<1>5. CASE m.type = "AcceptChannel"
  <2>1. OfferTaken(c) /\ m.id = Temp(c)
    BY Zenon, <1>1, <1>2, <1>5 DEF P2pForm, OfferTaken
  <2> QED
    BY ZenonT(30), <1>2, <1>3, <1>5, <2>1 DEF BatonOK, OfferOK, FundOK
<1>6. CASE m.type = "FundingCreated"
  <2>1. SignatureSent(c) /\ m.id = Temp(c)
    BY Zenon, <1>1, <1>2, <1>6 DEF P2pForm, SignatureSent
  <2> QED
    BY ZenonT(30), <1>2, <1>3, <1>6, <2>1 DEF BatonOK, FundOK
<1>7. CASE m.type = "FundingSigned"
  <2>1. SignatureTaken(c) /\ m.id = Perm(c)
    BY Zenon, <1>1, <1>2, <1>7 DEF P2pForm, SignatureTaken
  <2> QED
    BY ZenonT(30), <1>2, <1>3, <1>7, <2>1 DEF BatonOK, FundOK, ChanOK
<1>8. CASE m.type = "FundingLocked" /\ m.to = "acceptor"
  <2>1. LockSent(c) /\ m.id = Perm(c)
    BY ZenonT(30), <1>1, <1>2, <1>8 DEF P2pForm, LockSent
  <2> QED
    BY ZenonT(30), <1>2, <1>3, <1>8, <2>1 DEF BatonOK, LockOK, ChanOK
<1>9. CASE m.type = "FundingLocked" /\ m.to = "proposer"
  <2>1. LockTaken(c) /\ m.id = Perm(c)
    BY ZenonT(30), <1>1, <1>2, <1>9 DEF P2pForm, LockTaken
  <2> QED
    BY ZenonT(30), <1>2, <1>3, <1>9, <2>1 DEF BatonOK, LockOK, ChanOK
<1> QED
  BY ZenonT(30), <1>1, <1>4, <1>5, <1>6, <1>7, <1>8, <1>9 DEF P2pTypes, Sides

(* A BOLT message in flight finds the channel daemon it is for under the id  *)
(* it bears and in the state that waits for it, although complete_signing    *)
(* and finish_signed change the ids on both sides while messages under the   *)
(* old ones may be on their way.                                             *)
THEOREM P2pExpected == Spec => []P2pIsExpected
BY BatonExpected, OneBaton, Invariance, PTL

LEMMA PanicsOnError ==
    ASSUME IInv, FilingInv, BatonInv, [Next]_vars, panicked' # panicked
    PROVE  \E m \in ctl \ ctl' : m.type = "Error" /\ m.src = Signer
<1>1. PICK e \in ctl : LnpdHandles(e)
  BY Zenon DEF Next, vars, lnpdVars, othersThanAcceptor, ClientCreatesChannel,
         CreateChannel, SigndHandles, ChanneldStarts, ProposerHandles,
         RoutedHandles, WatchdTracks, WatchdFinds, Mine, AcceptorHandles,
         AcceptorSigndHandles
<1>2. HandleError(e)
  BY Zenon, <1>1, LnpdBaton
<1>3. e.type = "Error" /\ ctl' = ctl \ {e}
  BY Zenon, <1>2 DEF HandleError, Receive, Panic
<1>4. e.src = Signer
  BY Zenon, <1>3, BatonFacts DEF CtlForm
<1> QED
  BY ZenonT(30), <1>3, <1>4

(* The only message at which lnpd panics for want of a launcher is an Error  *)
(* of signd; Keyset, ConstructFunding, PublishFunding and Signed always find *)
(* the launcher that handle_ctl looks up for them.                           *)
THEOREM PanicsAreErrors == Spec => OnlyErrorsPanic
<1>1. IInv /\ FilingInv /\ BatonInv /\ [Next]_vars =>
          [~panicked /\ panicked' =>
              \E m \in ctl \ ctl' : m.type = "Error" /\ m.src = Signer]_vars
  <2> SUFFICES ASSUME IInv, FilingInv, BatonInv, [Next]_vars, ~panicked, panicked'
               PROVE  \E m \in ctl \ ctl' : m.type = "Error" /\ m.src = Signer
    BY Zenon
  <2>1. panicked' # panicked
    BY Zenon
  <2> QED
    BY Zenon, <2>1, PanicsOnError
<1> QED
  BY <1>1, BatonInit, BatonNext, FilingInit, FilingNext, Invariance, PTL
     DEF Spec, OnlyErrorsPanic

-----------------------------------------------------------------------------
(* No publication upon a failure                                             *)

LEMMA NotPublishing ==
    ASSUME NEW c \in Chan, ~Publishing(c),
           \A x \in ctl' \ ctl : x.chan = c => Harmless(x)
    PROVE  ~Publishing(c)'
BY Zenon DEF Publishing, Harmless

(* lnpd asks signd for the signature, or broadcasts, only when asked to.     *)
LEMMA LnpdPublishes ==
    ASSUME IInv, FilingInv, BatonInv, NEW m \in ctl, LnpdHandles(m),
           NEW c \in Chan, ~Publishing(c)
    PROVE  ~Publishing(c)' /\ (c \in published' => c \in published)
<1>1. CASE HandleHello(m)
  <2>1. \A x \in ctl' \ ctl : x.type = "OpenChannelWith"
    BY SMTT(30), <1>1, CtlFields DEF HandleHello, OpenChannelWith
  <2> QED
    BY ZenonT(30), <1>1, <2>1, NotPublishing DEF HandleHello, Harmless
<1>2. CASE HandleKeyset(m)
  <2>1. \A x \in ctl' \ ctl : x.type = "OpenChannelWith"
    BY SMTT(30), <1>2, CtlFields DEF HandleKeyset, OpenChannelWith, Panic
  <2> QED
    BY ZenonT(30), <1>2, <2>1, NotPublishing DEF HandleKeyset, Panic, Harmless
<1>3. CASE HandleConstructFunding(m)
  <2>1. \A x \in ctl' \ ctl : x.type = "FundingConstructed"
    BY SMTT(30), <1>3, CtlFields
       DEF HandleConstructFunding, FundingIsConstructed, LauncherFails, Panic
  <2> QED
    BY ZenonT(30), <1>3, <2>1, NotPublishing
       DEF HandleConstructFunding, Panic, Harmless
<1>4. CASE HandlePublishFunding(m)
  <2>1. m.chan # c
    BY ZenonT(30), <1>4 DEF HandlePublishFunding, Receive, Publishing
  <2>2. \A x \in ctl' \ ctl : x.chan = m.chan
    BY SMTT(30), <1>4, CtlFields DEF HandlePublishFunding, LauncherFails,
       Panic
  <2> QED
    BY ZenonT(30), <1>4, <2>1, <2>2, NotPublishing
       DEF HandlePublishFunding, Panic
<1>5. CASE HandleSigned(m)
  <2>1. m.chan # c
    BY Zenon, <1>5 DEF HandleSigned, Receive, Publishing
  <2>2. ctl' \subseteq ctl /\ published' \subseteq published \cup {m.chan}
    BY Zenon, <1>5 DEF HandleSigned, Panic
  <2> QED
    BY Zenon, <2>1, <2>2, NotPublishing
<1>6. CASE HandleError(m) \/ HandleReport(m)
  <2>1. ctl' \subseteq ctl /\ published' = published
    BY Zenon, <1>6 DEF HandleError, HandleReport, Panic
  <2> QED
    BY Zenon, <2>1, NotPublishing
<1> QED
  BY ZenonT(30), <1>1, <1>2, <1>3, <1>4, <1>5, <1>6 DEF LnpdHandles, HandleCtl

(* signd returns the funding to lnpd only if lnpd has sent it.               *)
LEMMA SigndPublishes ==
    ASSUME IInv, FilingInv, BatonInv, NEW m \in ctl, SigndHandles(m),
           NEW c \in Chan, ~Publishing(c)
    PROVE  ~Publishing(c)' /\ published' = published
<1>1. PICK new \in SigndReplies(m) : ctl' = (ctl \ {m}) \cup new
  BY ZenonT(30) DEF SigndHandles, SigndAnswers
<1>2. \A x \in new : x.chan = m.chan
  BY SMTT(30), SigndRepliesWhat, CtlFields
<1>3. m.chan = c => \A x \in new : Harmless(x)
  <2> SUFFICES ASSUME m.chan = c, NEW x \in new PROVE Harmless(x)
    BY Zenon
  <2>1. m.type = "Sign" => m.src # LnpBroker
    BY Zenon DEF Publishing
  <2>2. \/ x.type \in {"Keyset", "Error"}
        \/ m.type = "Sign" /\ x.type = "Signed" /\ x.dst = m.src
    BY SMTT(30), SigndRepliesWhat, CtlFields
  <2> QED
    BY Zenon, <2>1, <2>2 DEF Harmless
<1>4. \A x \in ctl' \ ctl : x.chan = c => Harmless(x)
  BY ZenonT(30), <1>1, <1>2, <1>3
<1> QED
  BY Zenon, <1>4, NotPublishing DEF SigndHandles

(* channeld asks for the publication only while no failure was reported.     *)
LEMMA ProposerPublishes ==
    ASSUME IInv, FilingInv, BatonInv, NEW d \in Chan, ProposerHandles(d),
           NEW c \in Chan, ~Publishing(c), "failure" \in told[c]
    PROVE  ~Publishing(c)' /\ published' = published
<1>1. /\ identity[d] \in ChannelIds /\ identity[d] # LnpBroker
      /\ Perm(d) # LnpBroker
  BY SMTT(30), ProposerFacts, ServicesAreNoChannels, IdsDiffer
<1>2. ASSUME NEW m \in p2p, CompleteFunding(d, m)
      PROVE  (\A x \in ctl' \ ctl : x.chan = d) /\ d # c
  <2>1. Clean(d)
    BY Zenon, <1>2, CompleteFundingBaton DEF ProposerHandles
  <2>2. d # c
    BY ZenonT(30), <2>1 DEF Clean
  <2>3. \A x \in ctl' \ ctl : x.chan = d
    BY SMTT(30), <1>2, CtlFields DEF CompleteFunding, StepFails, ToLnpd
  <2> QED
    BY Zenon, <2>2, <2>3
<1>3. ASSUME NEW m \in p2p, CompleteProposed(d, m) \/ CompleteLocked(d, m)
      PROVE  \A x \in ctl' \ ctl : Harmless(x)
  BY SMTT(30), <1>3, CtlFields
     DEF CompleteProposed, CompleteLocked, StepFails, ToLnpd, Harmless
<1>4. ASSUME NEW m \in ctl, ProposerHandlesCtl(d, m)
      PROVE  \A x \in ctl' \ ctl : Harmless(x)
  <2>1. CASE ProposeChannel(d, m)
    BY SMTT(30), <2>1, CtlFields
       DEF ProposeChannel, SendP2p, StepFails, ToLnpd, Harmless
  <2>2. CASE CompleteAccepted(d, m)
    BY SMTT(30), <1>1, <2>2, CtlFields DEF CompleteAccepted, StepFails,
       ToLnpd, Harmless
  <2>3. CASE CompleteSigning(d, m)
    BY SMTT(30), <2>3, CtlFields
       DEF CompleteSigning, SendP2p, StepFails, ToLnpd, Harmless
  <2>4. CASE CompletePublished(d, m)
    BY SMTT(30), <2>4, CtlFields DEF CompletePublished, SendP2p, Harmless
  <2>5. CASE ProposerError(d, m)
    BY SMTT(30), <2>5, CtlFields DEF ProposerError, StepFails, ToLnpd,
       Harmless
  <2> QED
    BY ZenonT(30), <1>4, <2>1, <2>2, <2>3, <2>4, <2>5 DEF ProposerHandlesCtl
<1>5. \A x \in ctl' \ ctl : x.chan = c => Harmless(x)
  BY Zenon, <1>2, <1>3, <1>4 DEF ProposerHandles, ProposerHandlesP2p
<1>6. published' = published
  BY Zenon DEF ProposerHandles, ProposerHandlesCtl, ProposerHandlesP2p,
         ProposeChannel, CompleteProposed, CompleteAccepted, CompleteSigning,
         CompleteFunding, CompletePublished, CompleteLocked, ProposerError
<1> QED
  BY ZenonT(30), <1>5, <1>6, NotPublishing

LEMMA NotPublishedStep ==
    ASSUME IInv, FilingInv, BatonInv, Next,
           NEW c \in Chan, ~Publishing(c), "failure" \in told[c]
    PROVE  ~Publishing(c)' /\ (c \in published' => c \in published)
<1>1. ASSUME NEW d \in Chan, ClientCreatesChannel(d)
      PROVE  /\ \A x \in ctl' \ ctl : Harmless(x)
             /\ published' = published
  BY SMTT(30), <1>1, CtlFields
     DEF ClientCreatesChannel, CreateChannel, CreateChannelLaunches, Harmless
<1>2. ASSUME NEW d \in Chan, ChanneldStarts(d)
      PROVE  /\ \A x \in ctl' \ ctl : Harmless(x)
             /\ published' = published
  BY SMTT(30), <1>2, CtlFields DEF ChanneldStarts, ChanneldConnects, ToLnpd,
     Harmless
<1>3. ASSUME NEW service \in ChannelIds, NEW d \in Chan, WatchdFinds(service, d)
      PROVE  /\ \A x \in ctl' \ ctl : Harmless(x)
             /\ published' = published
  BY SMTT(30), <1>3, CtlFields DEF WatchdFinds, Harmless
<1>4. ASSUME \/ \E m \in ctl : RoutedHandles(m) \/ WatchdTracks(m)
             \/ \E d \in Chan : Mine(d)
      PROVE  ctl' \subseteq ctl /\ published' = published
  BY ZenonT(30), <1>4 DEF RoutedHandles, WatchdTracks, Mine, sharedVars
<1>5. ASSUME \/ \E d \in Chan : AcceptorHandles(d)
             \/ \E m \in actl : AcceptorSigndHandles(m)
      PROVE  ctl' = ctl /\ published' = published
  <2>1. ASSUME NEW d \in Chan, NEW m \in actl, AcceptorHandlesCtl(d, m)
        PROVE  ctl' = ctl /\ published' = published
    BY ZenonT(30), <2>1
       DEF AcceptorHandlesCtl, AcceptorHello, AcceptorChannelUpdate,
           AcceptorRouted, AcceptChannel, FinishAccepted, FinishLocked
  <2>2. ASSUME NEW d \in Chan, NEW m \in p2p, AcceptorHandlesP2p(d, m)
        PROVE  ctl' = ctl /\ published' = published
    BY ZenonT(30), <2>2
       DEF AcceptorHandlesP2p, AcceptorLaunches, FinishSigned, FinishFunded
  <2>3. ASSUME NEW d \in Chan, AcceptorConnects(d)
        PROVE  ctl' = ctl /\ published' = published
    BY Zenon, <2>3 DEF AcceptorConnects
  <2>4. ASSUME NEW m \in actl, AcceptorSignd(m)
        PROVE  ctl' = ctl /\ published' = published
    BY Zenon, <2>4 DEF AcceptorSignd
  <2> QED
    BY Zenon, <1>5, <2>1, <2>2, <2>3, <2>4
       DEF AcceptorHandles, AcceptorSigndHandles
<1>6. CASE /\ \A x \in ctl' \ ctl : Harmless(x)
           /\ published' = published
  BY Zenon, <1>6, NotPublishing
<1>7. CASE \/ \E m \in ctl : LnpdHandles(m) \/ SigndHandles(m)
           \/ \E d \in Chan : ProposerHandles(d)
  BY Zenon, <1>7, LnpdPublishes, SigndPublishes, ProposerPublishes
<1> QED
  BY ZenonT(30), <1>1, <1>2, <1>3, <1>4, <1>5, <1>6, <1>7 DEF Next

(* A request to publish belongs to a channel that awaits the broadcast.      *)
LEMMA PublishingAfter ==
    ASSUME IInv', NEW c \in Chan, Publishing(c)'
    PROVE  proposal'[c] = "PUBLISHED"
<1>1. PICK m \in ctl' :
          /\ m.chan = c
          /\ \/ m.type = "PublishFunding"
             \/ m.type = "Sign" /\ m.src = LnpBroker
             \/ m.type = "Signed" /\ m.dst = LnpBroker
  BY Zenon DEF Publishing
<1>2. CtlOK(m)' /\ m = CtlMsg(m.type, m.src, m.dst, c)
  BY ZenonT(30), <1>1, CtlMsgFields DEF IInv, TypeOK, SharedTypeOK
<1>3. AskedToPublish(c)' \/ AskedToSign(c)' \/ FundingSignedBySignd(c)'
  BY Zenon, <1>1, <1>2 DEF CtlOK, AskedToPublish, AskedToSign,
     FundingSignedBySignd
<1> QED
  BY Zenon, <1>3 DEF IInv, TokenOK

LEMMA ToldStep ==
    ASSUME IInv, Next, NEW c \in Chan, told'[c] # told[c], Publishing(c)'
    PROVE  proposal[c] = "PUBLISHED"
<1>1. UNCHANGED proposal
  BY Zenon DEF Next, lnpdVars, proposeVars, othersThanLnpd,
     othersThanAcceptor,
         ClientCreatesChannel, LnpdHandles, SigndHandles, ChanneldStarts,
         ProposerHandles, RoutedHandles, WatchdTracks, WatchdFinds, Mine,
         AcceptorHandles, AcceptorSigndHandles
<1>2. proposal'[c] = "PUBLISHED"
  BY Zenon, NextInv, PublishingAfter
<1> QED
  BY Zenon, <1>1, <1>2

(* After a client was told of the failure of its opening no daemon asks for  *)
(* the funding to be signed and broadcast, and it is not broadcast unless    *)
(* that was under way; a failure told while it is under way comes from a     *)
(* channel that had saved the peer's signature (complete_funding).           *)
THEOREM NoneAfterFailure == Spec => NoPublishAfterFailure
<1>1. IInv /\ FilingInv /\ BatonInv /\ [Next]_vars =>
          [\A c \in Chan :
              /\ "failure" \in told[c] /\ ~Publishing(c) =>
                     ~Publishing(c)' /\ (c \in published' => c \in published)
              /\ told'[c] # told[c] /\ "failure" \in told'[c] /\ Publishing(c)' =>
                     proposal[c] = "PUBLISHED"]_vars
  BY Zenon, NotPublishedStep, ToldStep
<1> QED
  BY <1>1, BatonInit, BatonNext, FilingInit, FilingNext, Invariance, PTL
     DEF Spec, NoPublishAfterFailure

=============================================================================
