------------------------ MODULE ChannelOpeningProofs ------------------------
(***************************************************************************)
(* Proofs about ChannelOpening, for any set of channels, any faults and    *)
(* both orders of Hello and Keyset.                                        *)
(***************************************************************************)
EXTENDS ChannelOpening, TLAPS

-----------------------------------------------------------------------------
(* Service ids.                                                             *)

(* The ids of different services and of different channels are different.   *)
LEMMA IdsDiffer ==
    ASSUME NEW c \in Chan, NEW d \in Chan
    PROVE  /\ Temp(c) \in ChannelIds /\ Perm(c) \in ChannelIds
           /\ Temp(c) # Perm(d)
           /\ Temp(c) = Temp(d) => c = d
           /\ Perm(c) = Perm(d) => c = d
BY Zenon DEF Temp, Perm, ChannelIds

(* No daemon other than channeld has the id of a channel.                   *)
LEMMA ServicesAreNoChannels ==
    /\ LnpBroker \notin ChannelIds
    /\ Signer \notin ChannelIds
    /\ Watch \notin ChannelIds
    /\ Router \notin ChannelIds
    /\ LnpBroker # Signer /\ LnpBroker # Watch /\ LnpBroker # Router
    /\ Signer # Watch /\ Signer # Router /\ Watch # Router
BY Zenon DEF LnpBroker, Signer, Watch, Router, ChannelIds

LEMMA ServiceTypes ==
    /\ {LnpBroker, Signer, Watch, Router} \subseteq ServiceIds
    /\ ChannelIds \subseteq ServiceIds
BY Zenon DEF ServiceIds

LEMMA CtlMsgType ==
    ASSUME NEW type \in CtlTypes, NEW src \in ServiceIds,
           NEW dst \in ServiceIds, NEW c \in Chan
    PROVE  /\ CtlMsg(type, src, dst, c) \in CtlMsgs
           /\ CtlMsg(type, src, dst, c).type = type
           /\ CtlMsg(type, src, dst, c).src = src
           /\ CtlMsg(type, src, dst, c).dst = dst
           /\ CtlMsg(type, src, dst, c).chan = c
BY Zenon DEF CtlMsg, CtlMsgs

LEMMA P2pMsgType ==
    ASSUME NEW type \in P2pTypes, NEW to \in Sides,
           NEW id \in ChannelIds \cup {LnpBroker}, NEW c \in Chan,
           NEW sig \in Signatures
    PROVE  /\ P2pMsg(type, to, id, c, sig) \in P2pMsgs
           /\ P2pMsg(type, to, id, c, sig).type = type
           /\ P2pMsg(type, to, id, c, sig).to = to
           /\ P2pMsg(type, to, id, c, sig).id = id
           /\ P2pMsg(type, to, id, c, sig).chan = c
           /\ P2pMsg(type, to, id, c, sig).sig = sig
BY Zenon DEF P2pMsg, P2pMsgs

LEMMA CtlMsgFields ==
    ASSUME NEW m \in CtlMsgs
    PROVE  /\ m.type \in CtlTypes
           /\ m.src \in ServiceIds
           /\ m.dst \in ServiceIds
           /\ m.chan \in Chan
           /\ m = CtlMsg(m.type, m.src, m.dst, m.chan)
BY Zenon DEF CtlMsg, CtlMsgs

LEMMA P2pMsgFields ==
    ASSUME NEW m \in P2pMsgs
    PROVE  /\ m.type \in P2pTypes
           /\ m.to \in Sides
           /\ m.id \in ChannelIds \cup {LnpBroker}
           /\ m.chan \in Chan
           /\ m.sig \in Signatures
BY Zenon DEF P2pMsgs

-----------------------------------------------------------------------------
(* The inductive invariant.                                                 *)

(* What holds of a CTL message in flight at the proposing node: it is about *)
(* the channel whose daemon sends or receives it, each type has its sender  *)
(* and receiver, and watchd reports only what was published.                *)
CtlOK(m) ==
    /\ m.src \in ChannelIds => m.src \in {Temp(m.chan), Perm(m.chan)}
    /\ m.dst \in ChannelIds => m.dst \in {Temp(m.chan), Perm(m.chan)}
    /\ m.type \in {"Hello", "ConstructFunding"} => m.src \in ChannelIds
    /\ m.type = "PublishFunding" => m.src = Perm(m.chan)
    /\ m.type = "PublishFunding" => m.dst = LnpBroker
    /\ m.type = "Sign" => m.dst = Signer
    /\ m.type = "Signed" => m.src = Signer
    /\ m.type = "Track" => m.src \in ChannelIds
    /\ m.type = "TxFound" => m.chan \in published

(* At the accepting node lnpd, signd and routed hear from channel daemons   *)
(* only.                                                                    *)
ActlOK(m) ==
    m.dst \in {LnpBroker, Signer, Router} => m.src \in ChannelIds

(* A BOLT message in flight bears the id of its channel; the funding        *)
(* messages carry a signature; FundingLocked follows the sender's lock.     *)
P2pOK(m) ==
    /\ m.id \in ChannelIds => m.id \in {Temp(m.chan), Perm(m.chan)}
    /\ m.type \in {"FundingCreated", "FundingSigned"} => m.sig # "none"
    /\ m.type = "FundingLocked" /\ m.to = "acceptor" =>
           proposal[m.chan] \in {"LOCKED", "ACTIVE"}
    /\ m.type = "FundingLocked" /\ m.to = "proposer" =>
           acceptance[m.chan] = "ACTIVE"

(* The request to publish the funding of a channel is, in this order, with  *)
(* lnpd, with signd, back with lnpd, and done.                              *)
AskedToPublish(c) == CtlMsg("PublishFunding", Perm(c), LnpBroker, c) \in ctl
AskedToSign(c) == CtlMsg("Sign", LnpBroker, Signer, c) \in ctl
FundingSignedBySignd(c) == CtlMsg("Signed", Signer, LnpBroker, c) \in ctl

TokenOK(c) ==
    /\ AskedToPublish(c) =>
           ~AskedToSign(c) /\ ~FundingSignedBySignd(c) /\ c \notin published
    /\ AskedToSign(c) => ~FundingSignedBySignd(c) /\ c \notin published
    /\ FundingSignedBySignd(c) => c \notin published
    /\ AskedToPublish(c) \/ AskedToSign(c) \/ FundingSignedBySignd(c) =>
           proposal[c] = "PUBLISHED"

ChanOK(c) ==
    /\ identity[c] \in {Temp(c), Perm(c)}
    /\ aidentity[c] \in {Temp(c), Perm(c)}
    /\ proposal[c] \in {"FUNDING", "PUBLISHED", "LOCKED", "ACTIVE"} =>
           identity[c] = Perm(c)
    /\ acceptance[c] \in {"FUNDED", "LOCKED", "ACTIVE"} =>
           aidentity[c] = Perm(c)
    /\ proposal[c] \in {"PUBLISHED", "LOCKED", "ACTIVE"} =>
           remote_sig[c] # "none"
    /\ proposal[c] \in {"LOCKED", "ACTIVE"} => c \in published
    /\ c \in published => proposal[c] \in {"PUBLISHED", "LOCKED", "ACTIVE"}
    /\ acceptance[c] \in {"LOCKED", "ACTIVE"} =>
           proposal[c] \in {"LOCKED", "ACTIVE"}
    /\ proposal[c] = "ACTIVE" => acceptance[c] = "ACTIVE"
    /\ "success" \in told[c] <=> c \in published

IInv ==
    /\ TypeOK
    /\ \A m \in ctl : CtlOK(m)
    /\ \A m \in actl : ActlOK(m)
    /\ \A m \in p2p : P2pOK(m)
    /\ \A c \in Chan : TokenOK(c)
    /\ \A c \in Chan : ChanOK(c)
    /\ \A t \in tracking : t[1] \in {Temp(t[2]), Perm(t[2])}

(* A message that does not pass on the request to publish a funding.        *)
Harmless(m) ==
    /\ m.type # "PublishFunding"
    /\ m.type = "Sign" => m.src # LnpBroker
    /\ m.type = "Signed" => m.dst # LnpBroker

(* Harmless messages on the bus and a workflow that does not leave          *)
(* "PUBLISHED" too early keep the bus in order.                             *)
LEMMA BusFrame ==
    ASSUME IInv, NEW new \in SUBSET CtlMsgs,
           ctl' \subseteq ctl \cup new,
           \A n \in new : CtlOK(n) /\ Harmless(n),
           UNCHANGED published,
           \A c \in Chan \ published :
               proposal[c] = "PUBLISHED" => proposal'[c] = "PUBLISHED"
    PROVE  /\ \A m \in ctl' : CtlOK(m)'
           /\ \A c \in Chan : TokenOK(c)'
           /\ ctl' \subseteq CtlMsgs
<1>1. \A m \in ctl' : CtlOK(m)'
  BY Zenon DEF IInv, CtlOK
<1>2. ASSUME NEW c \in Chan
      PROVE  /\ AskedToPublish(c)' => AskedToPublish(c)
             /\ AskedToSign(c)' => AskedToSign(c)
             /\ FundingSignedBySignd(c)' => FundingSignedBySignd(c)
  BY Zenon DEF Harmless, AskedToPublish, AskedToSign, FundingSignedBySignd,
     CtlMsg
<1>3. \A c \in Chan : TokenOK(c)'
  BY Zenon, <1>2 DEF IInv, TokenOK
<1> QED
  BY Zenon, <1>1, <1>3 DEF IInv, TypeOK, SharedTypeOK

(* Steps of lnpd that publish nothing and put harmless messages on the bus. *)
LnpdQuiet(new) ==
    /\ ctl' \subseteq ctl \cup new
    /\ UNCHANGED <<published, actl, p2p, othersThanLnpd>>
    /\ LnpdTypeOK'
    /\ \A c \in Chan : "success" \in told'[c] <=> "success" \in told[c]

LEMMA LnpdQuietStep ==
    ASSUME IInv, NEW new \in SUBSET CtlMsgs, LnpdQuiet(new),
           \A n \in new : CtlOK(n) /\ Harmless(n)
    PROVE  IInv'
<1> USE DEF LnpdQuiet, othersThanLnpd, proposeVars, acceptVars
<1>1. /\ \A m \in ctl' : CtlOK(m)'
      /\ \A c \in Chan : TokenOK(c)'
      /\ ctl' \subseteq CtlMsgs
  BY Zenon, BusFrame
<1>2. TypeOK'
  BY Zenon, <1>1 DEF IInv, TypeOK, SharedTypeOK, ProposeTypeOK, AcceptTypeOK
<1>3. /\ \A m \in p2p' : P2pOK(m)'
      /\ \A m \in actl' : ActlOK(m)'
  BY Zenon DEF IInv, P2pOK, ActlOK
<1>4. \A c \in Chan : ChanOK(c)'
  BY Zenon DEF IInv, ChanOK
<1> QED
  BY Zenon, <1>1, <1>2, <1>3, <1>4 DEF IInv

(* What is known of a message lnpd handles.                                 *)
LEMMA CtlFacts ==
    ASSUME IInv, NEW m \in ctl
    PROVE  /\ m \in CtlMsgs /\ CtlOK(m)
           /\ m.chan \in Chan /\ m.src \in ServiceIds /\ m.dst \in ServiceIds
           /\ m = CtlMsg(m.type, m.src, m.dst, m.chan)
           /\ LnpBroker \in ServiceIds /\ Signer \in ServiceIds
           /\ Watch \in ServiceIds /\ Router \in ServiceIds
           /\ Temp(m.chan) \in ChannelIds /\ Perm(m.chan) \in ChannelIds
           /\ Temp(m.chan) \in ServiceIds /\ Perm(m.chan) \in ServiceIds
BY Zenon, CtlMsgFields, IdsDiffer, ServiceTypes DEF IInv, TypeOK, SharedTypeOK

LEMMA PanicStep ==
    ASSUME IInv, NEW m \in ctl, Panic(m), UNCHANGED othersThanLnpd
    PROVE  IInv'
<1>1. LnpdQuiet({})
  BY Zenon DEF Panic, LnpdQuiet, IInv, TypeOK, LnpdTypeOK
<1> QED
  BY Zenon, <1>1, LnpdQuietStep

(* A failure told to a client adds no success.                              *)
LEMMA TellFailure ==
    ASSUME IInv, NEW c \in Chan, Tell(c, "failure")
    PROVE  /\ told' \in [Chan -> SUBSET {"success", "failure"}]
           /\ \A d \in Chan : "success" \in told'[d] <=> "success" \in told[d]
<1>1. told \in [Chan -> SUBSET {"success", "failure"}]
  BY Zenon DEF IInv, TypeOK, LnpdTypeOK
<1>2. told' = [told EXCEPT ![c] = told[c] \cup {"failure"}]
  BY Zenon DEF Tell
<1> QED
  BY Zenon, <1>1, <1>2

LEMMA LauncherFailsStep ==
    ASSUME IInv, NEW m \in ctl, LauncherFails(m), UNCHANGED othersThanLnpd,
           UNCHANGED <<requested, funding_channels, panicked, spawned, actl, p2p,
                       published>>
    PROVE  IInv'
<1>1. LnpdQuiet({})
  BY ZenonT(30), CtlFacts, TellFailure
     DEF LauncherFails, LnpdQuiet, IInv, TypeOK, LnpdTypeOK, LauncherStates
<1> QED
  BY ZenonT(30), <1>1, LnpdQuietStep

(* The automaton is back in its map in one of its states, or gone.          *)
LEMMA FiledType ==
    ASSUME NEW next PROVE Filed(next) \in LauncherStates
BY Zenon DEF Filed, LauncherStates

(* OpenChannelWith goes to a service of the channel, or to signd.           *)
LEMMA OpenChannelWithOK ==
    ASSUME IInv, NEW m \in ctl, NEW next
    PROVE  /\ OpenChannelWith(next, m.src, m.chan) \in SUBSET CtlMsgs
           /\ \A n \in OpenChannelWith(next, m.src, m.chan) :
                  CtlOK(n) /\ Harmless(n)
<1> DEFINE n == CtlMsg("OpenChannelWith", LnpBroker, m.src, m.chan)
<1>0. /\ m.chan \in Chan /\ m.src \in ServiceIds
      /\ LnpBroker \in ServiceIds /\ Signer \in ServiceIds
  BY Zenon, CtlFacts
<1>1. /\ n \in CtlMsgs /\ n.type = "OpenChannelWith" /\ n.src = LnpBroker
      /\ n.dst = m.src /\ n.chan = m.chan
  BY SMTT(30), <1>0, CtlMsgType DEF CtlTypes
<1>2. CtlOK(n) /\ Harmless(n)
  BY Zenon, <1>1, CtlFacts, ServicesAreNoChannels DEF CtlOK, Harmless
<1> QED
  BY Zenon, <1>1, <1>2 DEF OpenChannelWith

LEMMA HelloStep ==
    ASSUME IInv, NEW m \in ctl, HandleHello(m), UNCHANGED othersThanLnpd
    PROVE  IInv'
<1> DEFINE next == LauncherNext(creating_channels[m.src], "Hello")
           new == OpenChannelWith(next, m.src, m.chan)
<1>1. m.src \in ChannelIds
  BY Zenon, CtlFacts DEF HandleHello, Receive, CtlOK
<1>2. told' = told \/ Tell(m.chan, "failure")
  BY Zenon DEF HandleHello, TellFailureIf, Tell
<1>3. /\ told' \in [Chan -> SUBSET {"success", "failure"}]
      /\ \A c \in Chan : "success" \in told'[c] <=> "success" \in told[c]
  BY Zenon, <1>2, CtlFacts, TellFailure DEF IInv, TypeOK, LnpdTypeOK
<1>4. LnpdQuiet(new)
  BY Zenon, <1>1, <1>3, FiledType
     DEF HandleHello, LnpdQuiet, IInv, TypeOK, LnpdTypeOK
<1> QED
  BY Zenon, <1>4, OpenChannelWithOK, LnpdQuietStep

LEMMA KeysetStep ==
    ASSUME IInv, NEW m \in ctl, HandleKeyset(m), UNCHANGED othersThanLnpd
    PROVE  IInv'
<1> DEFINE next == LauncherNext(creating_channels[Temp(m.chan)], "Keyset")
           new == OpenChannelWith(next, m.src, m.chan)
<1>1. CASE Panic(m)
  BY Zenon, <1>1, PanicStep
<1>2. CASE ~Panic(m)
  <2>1. told' = told \/ Tell(m.chan, "failure")
    BY Zenon, <1>2 DEF HandleKeyset, TellFailureIf, Tell
  <2>2. /\ told' \in [Chan -> SUBSET {"success", "failure"}]
        /\ \A c \in Chan : "success" \in told'[c] <=> "success" \in told[c]
    BY Zenon, <2>1, CtlFacts, TellFailure DEF IInv, TypeOK, LnpdTypeOK
  <2>3. LnpdQuiet(new)
    BY SMTT(30), <1>2, <2>2, FiledType
       DEF HandleKeyset, LnpdQuiet, IInv, TypeOK, LnpdTypeOK
  <2> QED
    BY Zenon, <2>3, OpenChannelWithOK, LnpdQuietStep
<1> QED
  BY Zenon, <1>1, <1>2

LEMMA ConstructFundingStep ==
    ASSUME IInv, NEW m \in ctl, HandleConstructFunding(m),
           UNCHANGED othersThanLnpd
    PROVE  IInv'
<1> DEFINE n == CtlMsg("FundingConstructed", LnpBroker, m.src, m.chan)
<1>0. /\ m.chan \in Chan /\ m.src \in ServiceIds
      /\ LnpBroker \in ServiceIds /\ Signer \in ServiceIds
  BY Zenon, CtlFacts
<1>1. CASE Panic(m)
  BY Zenon, <1>1, PanicStep
<1>2. CASE /\ LauncherFails(m)
           /\ UNCHANGED <<requested, funding_channels, panicked, spawned, actl,
                          p2p, published>>
  BY Zenon, <1>2, LauncherFailsStep
<1>3. CASE /\ FundingIsConstructed(m)
           /\ UNCHANGED <<requested, funding_channels, panicked, spawned, actl,
                          p2p, published>>
  <2>1. /\ n \in CtlMsgs /\ n.type = "FundingConstructed" /\ n.src = LnpBroker
        /\ n.dst = m.src /\ n.chan = m.chan
    BY SMTT(30), <1>0, CtlMsgType DEF CtlTypes
  <2>2. CtlOK(n) /\ Harmless(n)
    BY ZenonT(30), <2>1, CtlFacts, ServicesAreNoChannels DEF CtlOK, Harmless
  <2>3. LnpdTypeOK'
    BY ZenonT(30), <1>3, CtlFacts
       DEF FundingIsConstructed, IInv, TypeOK, LnpdTypeOK, LauncherStates
  <2>4. LnpdQuiet({n})
    BY Zenon, <1>3, <2>3 DEF FundingIsConstructed, LnpdQuiet
  <2> QED
    BY Zenon, <2>1, <2>2, <2>4, LnpdQuietStep
<1> QED
  BY Zenon, <1>1, <1>2, <1>3 DEF HandleConstructFunding

LEMMA PublishFundingStep ==
    ASSUME IInv, NEW m \in ctl, HandlePublishFunding(m),
           UNCHANGED othersThanLnpd
    PROVE  IInv'
<1> DEFINE c == m.chan
           sign == CtlMsg("Sign", LnpBroker, Signer, c)
<1>0. /\ m.chan \in Chan /\ m.src \in ServiceIds
      /\ LnpBroker \in ServiceIds /\ Signer \in ServiceIds
  BY Zenon, CtlFacts
<1>1. CASE Panic(m)
  BY Zenon, <1>1, PanicStep
<1>2. CASE /\ LauncherFails(m)
           /\ UNCHANGED <<requested, funding_channels, panicked, spawned, actl,
                          p2p, published>>
  BY Zenon, <1>2, LauncherFailsStep
<1>3. CASE /\ ctl' = (ctl \ {m}) \cup {sign}
           /\ creating_channels' = [creating_channels EXCEPT ![m.src] = "NONE"]
           /\ funding_channels' = [funding_channels EXCEPT ![c] = "SIGNING"]
           /\ UNCHANGED <<told, pending_fundings, channels, requested, panicked,
                          spawned, actl, p2p, published>>
  <2>1. /\ c \in Chan
        /\ m = CtlMsg("PublishFunding", Perm(c), LnpBroker, c)
    BY Zenon, CtlFacts DEF HandlePublishFunding, Receive, CtlOK
  <2>2. /\ sign \in CtlMsgs /\ sign.type = "Sign" /\ sign.src = LnpBroker
        /\ sign.dst = Signer /\ sign.chan = c
    BY SMTT(30), <1>0, CtlMsgType DEF CtlTypes
  <2> USE DEF othersThanLnpd, proposeVars, acceptVars
  <2>3. TypeOK'
    BY ZenonT(30), <1>3, <2>1, <2>2
       DEF IInv, TypeOK, SharedTypeOK, LnpdTypeOK, ProposeTypeOK,
           AcceptTypeOK,
           LauncherStates
  <2>4. \A x \in ctl' : CtlOK(x)'
    BY Zenon, <1>3, <2>2, ServicesAreNoChannels DEF IInv, CtlOK
  <2>5. \A d \in Chan : TokenOK(d)'
    BY ZenonT(30), <1>3, <2>1, <2>2
       DEF IInv, TokenOK, AskedToPublish, AskedToSign, FundingSignedBySignd,
           CtlMsg
  <2>6. /\ \A x \in p2p' : P2pOK(x)'
        /\ \A x \in actl' : ActlOK(x)'
        /\ \A d \in Chan : ChanOK(d)'
    BY Zenon, <1>3 DEF IInv, P2pOK, ActlOK, ChanOK
  <2> QED
    BY ZenonT(30), <1>3, <2>3, <2>4, <2>5, <2>6 DEF IInv
<1> QED
  BY Zenon, <1>1, <1>2, <1>3 DEF HandlePublishFunding

(* The one step that publishes.                                             *)
LEMMA SignedStep ==
    ASSUME IInv, NEW m \in ctl, HandleSigned(m), UNCHANGED othersThanLnpd
    PROVE  IInv'
<1> DEFINE c == m.chan
<1>1. CASE Panic(m)
  BY Zenon, <1>1, PanicStep
<1>2. CASE ~Panic(m)
  <2>1. /\ c \in Chan
        /\ m = CtlMsg("Signed", Signer, LnpBroker, c)
    BY Zenon, CtlFacts DEF HandleSigned, Receive, CtlOK
  <2>2. /\ ctl' = ctl \ {m}
        /\ funding_channels' = [funding_channels EXCEPT ![c] = "NONE"]
        /\ UNCHANGED <<requested, creating_channels, channels, pending_fundings,
                       panicked, spawned, actl, p2p, othersThanLnpd>>
    BY Zenon, <1>2 DEF HandleSigned
  <2>3. LnpdTypeOK' /\ SharedTypeOK' => TypeOK'
    BY Zenon, <2>2 DEF IInv, TypeOK, ProposeTypeOK, AcceptTypeOK,
       othersThanLnpd,
                proposeVars, acceptVars
  <2>4. CASE UNCHANGED <<published, told>>
    <3>1. LnpdQuiet({})
      BY Zenon, <2>1, <2>2, <2>4
         DEF LnpdQuiet, IInv, TypeOK, LnpdTypeOK, LauncherStates
    <3> QED
      BY Zenon, <3>1, LnpdQuietStep
  <2>5. CASE published' = published \cup {c} /\ Tell(c, "success")
    <3>1. told' = [told EXCEPT ![c] = told[c] \cup {"success"}]
      BY ZenonT(30), <2>5 DEF Tell
    <3>2. proposal[c] = "PUBLISHED" /\ c \notin published
      BY ZenonT(30), <2>1 DEF IInv, TokenOK, FundingSignedBySignd
    <3>3. TypeOK'
      BY ZenonT(30), <2>1, <2>2, <2>3, <2>5, <3>1
         DEF IInv, TypeOK, SharedTypeOK, LnpdTypeOK, LauncherStates
    <3> USE <2>2, <2>5 DEF othersThanLnpd, proposeVars, acceptVars
    <3>4. /\ \A x \in ctl' : CtlOK(x)'
          /\ \A x \in p2p' : P2pOK(x)'
          /\ \A x \in actl' : ActlOK(x)'
      BY ZenonT(30) DEF IInv, CtlOK, P2pOK, ActlOK
    <3>5. \A d \in Chan : TokenOK(d)'
      BY ZenonT(30), <2>1 DEF IInv, TokenOK, AskedToPublish, AskedToSign,
                  FundingSignedBySignd
    <3>6. ASSUME NEW d \in Chan
          PROVE  "success" \in told'[d] <=> d \in published'
      BY ZenonT(30), <2>1, <3>1 DEF IInv, TypeOK, LnpdTypeOK, ChanOK
    <3>7. \A d \in Chan : ChanOK(d)'
      BY ZenonT(30), <3>2, <3>6 DEF IInv, ChanOK
    <3> QED
      BY Zenon, <3>3, <3>4, <3>5, <3>7 DEF IInv
  <2> QED
    BY ZenonT(30), <1>2, <2>4, <2>5 DEF HandleSigned
<1> QED
  BY Zenon, <1>1, <1>2

LEMMA ReportStep ==
    ASSUME IInv, NEW m \in ctl, HandleReport(m), UNCHANGED othersThanLnpd
    PROVE  IInv'
<1>1. LnpdQuiet({})
  BY Zenon, CtlFacts, TellFailure
     DEF HandleReport, LnpdQuiet, IInv, TypeOK, LnpdTypeOK
<1> QED
  BY Zenon, <1>1, LnpdQuietStep

LEMMA LnpdStep ==
    ASSUME IInv, NEW m \in ctl, LnpdHandles(m)
    PROVE  IInv'
BY Zenon, HelloStep, KeysetStep, ConstructFundingStep, PublishFundingStep,
   SignedStep,
   PanicStep, ReportStep
   DEF LnpdHandles, HandleCtl, HandleError

LEMMA CreateChannelStep ==
    ASSUME IInv, NEW c \in Chan, ClientCreatesChannel(c)
    PROVE  IInv'
<1> DEFINE n == CtlMsg("DeriveKeyset", LnpBroker, Signer, c)
<1>1. /\ n \in CtlMsgs /\ n.type = "DeriveKeyset" /\ n.src = LnpBroker
      /\ n.dst = Signer /\ n.chan = c
  BY SMTT(30), ServiceTypes, CtlMsgType DEF CtlTypes
<1>2. CtlOK(n) /\ Harmless(n)
  BY Zenon, <1>1, ServicesAreNoChannels DEF CtlOK, Harmless
<1>3. \/ told' = told
      \/ Tell(c, "failure")
  BY Zenon DEF ClientCreatesChannel, CreateChannel, CreateChannelLaunches
<1>4. /\ told' \in [Chan -> SUBSET {"success", "failure"}]
      /\ \A d \in Chan : "success" \in told'[d] <=> "success" \in told[d]
  BY Zenon, <1>3, TellFailure DEF IInv, TypeOK, LnpdTypeOK
<1>5. LnpdQuiet({n})
  BY <1>4, IdsDiffer
     DEF ClientCreatesChannel, CreateChannel, CreateChannelLaunches,
         LnpdQuiet,
         IInv, TypeOK, LnpdTypeOK, LauncherStates
<1> QED
  BY Zenon, <1>1, <1>2, <1>5, LnpdQuietStep

-----------------------------------------------------------------------------
(* signd                                                                    *)

(* signd answers with one message to the sender of the request, or not.     *)
LEMMA SigndRepliesOne ==
    ASSUME NEW m, NEW replies \in SigndReplies(m)
    PROVE  \/ replies = {}
           \/ \E type \in {"Keyset", "Signed", "Error"} :
                 /\ replies = {CtlMsg(type, Signer, m.src, m.chan)}
                 /\ type = "Signed" => m.type = "Sign"
<1>1. CASE m.type = "DeriveKeyset"
  BY Zenon, <1>1 DEF SigndReplies
<1>2. CASE m.type = "Sign"
  BY Zenon, <1>2 DEF SigndReplies
<1>3. CASE m.type # "DeriveKeyset" /\ m.type # "Sign"
  BY Zenon, <1>3 DEF SigndReplies
<1> QED
  BY Zenon, <1>1, <1>2, <1>3

LEMMA SigndStep ==
    ASSUME IInv, NEW m \in ctl, SigndHandles(m)
    PROVE  IInv'
<1>0. /\ m.chan \in Chan /\ m.src \in ServiceIds /\ m.dst = Signer
      /\ LnpBroker \in ServiceIds /\ Signer \in ServiceIds
      /\ UNCHANGED <<actl, p2p, published, lnpdVars, othersThanLnpd>>
  BY Zenon, CtlFacts DEF SigndHandles, SigndAnswers
<1>1. PICK replies \in SigndReplies(m) : ctl' = (ctl \ {m}) \cup replies
  BY ZenonT(30) DEF SigndHandles, SigndAnswers
<1>2. LnpdTypeOK'
  BY Zenon, <1>0 DEF IInv, TypeOK, LnpdTypeOK, lnpdVars
<1>3. CASE replies = {}
  <2>1. LnpdQuiet({})
    BY Zenon, <1>0, <1>1, <1>2, <1>3 DEF LnpdQuiet, lnpdVars
  <2> QED
    BY Zenon, <2>1, LnpdQuietStep
<1>4. ASSUME NEW type \in {"Keyset", "Signed", "Error"},
             replies = {CtlMsg(type, Signer, m.src, m.chan)},
             type = "Signed" => m.type = "Sign"
      PROVE  IInv'
  <2> DEFINE n == CtlMsg(type, Signer, m.src, m.chan)
  <2>1. /\ n \in CtlMsgs /\ n.type = type /\ n.src = Signer
        /\ n.dst = m.src /\ n.chan = m.chan
    BY SMTT(30), <1>0, CtlMsgType DEF CtlTypes
  <2>2. CtlOK(n)
    BY ZenonT(30), <2>1, CtlFacts, ServicesAreNoChannels DEF CtlOK
  <2>3. CASE Harmless(n)
    <3>1. LnpdQuiet({n})
      BY ZenonT(30), <1>0, <1>1, <1>2, <1>4 DEF LnpdQuiet, lnpdVars
    <3> QED
      BY ZenonT(30), <2>1, <2>2, <2>3, <3>1, LnpdQuietStep
  <2>4. CASE ~Harmless(n)
    <3>1. /\ m = CtlMsg("Sign", LnpBroker, Signer, m.chan)
          /\ n = CtlMsg("Signed", Signer, LnpBroker, m.chan)
      BY ZenonT(30), <1>0, <1>4, <2>1, <2>4, CtlFacts DEF Harmless
    <3> USE <1>0, <1>1, <1>4 DEF lnpdVars, othersThanLnpd, proposeVars, acceptVars
    <3>2. TypeOK'
      BY ZenonT(30), <1>2, <2>1
         DEF IInv, TypeOK, SharedTypeOK, ProposeTypeOK, AcceptTypeOK
    <3>3. \A x \in ctl' : CtlOK(x)'
      BY ZenonT(30), <2>2 DEF IInv, CtlOK
    <3>4. \A d \in Chan : TokenOK(d)'
      BY ZenonT(30), <3>1 DEF IInv, TokenOK, AskedToPublish, AskedToSign,
                  FundingSignedBySignd, CtlMsg
    <3>5. /\ \A x \in p2p' : P2pOK(x)'
          /\ \A x \in actl' : ActlOK(x)'
          /\ \A d \in Chan : ChanOK(d)'
      BY Zenon DEF IInv, P2pOK, ActlOK, ChanOK
    <3> QED
      BY ZenonT(30), <3>2, <3>3, <3>4, <3>5 DEF IInv
  <2> QED
    BY ZenonT(30), <2>3, <2>4
<1> QED
  BY Zenon, <1>3, <1>4, SigndRepliesOne

-----------------------------------------------------------------------------
(* channeld of the proposing node connects; routed; watchd; the network     *)

LEMMA ChanneldStartsStep ==
    ASSUME IInv, NEW c \in Chan, ChanneldStarts(c)
    PROVE  IInv'
<1> DEFINE n == CtlMsg("Hello", Temp(c), LnpBroker, c)
<1>1. /\ n \in CtlMsgs /\ n.type = "Hello" /\ n.src = Temp(c)
      /\ n.dst = LnpBroker /\ n.chan = c
  BY SMTT(30), ServiceTypes, IdsDiffer, CtlMsgType DEF CtlTypes
<1>2. CtlOK(n) /\ Harmless(n)
  BY Zenon, <1>1, IdsDiffer, ServicesAreNoChannels DEF CtlOK, Harmless
<1>3. LnpdQuiet({n})
  BY Zenon DEF ChanneldStarts, ChanneldConnects, ToLnpd, LnpdQuiet, IInv,
     TypeOK,
         LnpdTypeOK, othersThanLnpd
<1> QED
  BY ZenonT(30), <1>1, <1>2, <1>3, LnpdQuietStep

(* Steps of routed, watchd and the network: the workflows stand still.      *)
LEMMA SideStep ==
    ASSUME IInv, NEW new \in SUBSET CtlMsgs,
           ctl' \subseteq ctl \cup new,
           \A n \in new : CtlOK(n) /\ Harmless(n),
           UNCHANGED <<actl, p2p, published, lnpdVars, proposeVars, acceptVars>>,
           tracking' \subseteq ChannelIds \X Chan,
           \A t \in tracking' : t[1] \in {Temp(t[2]), Perm(t[2])},
           mined' \subseteq Chan, routes' \subseteq Chan
    PROVE  IInv'
<1> USE DEF lnpdVars, proposeVars, acceptVars
<1>1. /\ \A m \in ctl' : CtlOK(m)'
      /\ \A c \in Chan : TokenOK(c)'
      /\ ctl' \subseteq CtlMsgs
  BY Zenon, BusFrame
<1>2. TypeOK'
  BY ZenonT(30), <1>1
     DEF IInv, TypeOK, SharedTypeOK, LnpdTypeOK, ProposeTypeOK, AcceptTypeOK
<1>3. /\ \A x \in p2p' : P2pOK(x)'
      /\ \A x \in actl' : ActlOK(x)'
      /\ \A d \in Chan : ChanOK(d)'
  BY Zenon DEF IInv, P2pOK, ActlOK, ChanOK
<1> QED
  BY Zenon, <1>1, <1>2, <1>3 DEF IInv

LEMMA RoutedStep ==
    ASSUME IInv, NEW m \in ctl, RoutedHandles(m) PROVE IInv'
<1>1. /\ m.chan \in Chan
      /\ tracking \subseteq ChannelIds \X Chan
      /\ mined \subseteq Chan /\ routes \subseteq Chan
      /\ \A t \in tracking : t[1] \in {Temp(t[2]), Perm(t[2])}
  BY Zenon, CtlFacts DEF IInv, TypeOK
<1>2. /\ {} \in SUBSET CtlMsgs /\ ctl' \subseteq ctl \cup {}
      /\ tracking' = tracking /\ mined' = mined /\ routes' \subseteq Chan
      /\ UNCHANGED <<actl, p2p, published, lnpdVars, proposeVars, acceptVars>>
  BY Zenon, <1>1 DEF RoutedHandles
<1> QED
  BY ZenonT(30), <1>1, <1>2, SideStep

LEMMA MineStep ==
    ASSUME IInv, NEW c \in Chan, Mine(c) PROVE IInv'
<1>1. /\ tracking \subseteq ChannelIds \X Chan
      /\ mined \subseteq Chan /\ routes \subseteq Chan
      /\ \A t \in tracking : t[1] \in {Temp(t[2]), Perm(t[2])}
  BY Zenon DEF IInv, TypeOK
<1>2. /\ {} \in SUBSET CtlMsgs /\ ctl' \subseteq ctl \cup {}
      /\ tracking' = tracking /\ mined' \subseteq Chan /\ routes' = routes
      /\ UNCHANGED <<actl, p2p, published, lnpdVars, proposeVars, acceptVars>>
  BY Zenon, <1>1 DEF Mine, sharedVars
<1> QED
  BY ZenonT(30), <1>1, <1>2, SideStep

LEMMA WatchdTracksStep ==
    ASSUME IInv, NEW m \in ctl, WatchdTracks(m) PROVE IInv'
<1>1. /\ m.chan \in Chan /\ m.src \in ChannelIds
      /\ m.src \in {Temp(m.chan), Perm(m.chan)}
  BY Zenon, CtlFacts DEF WatchdTracks, Receive, CtlOK
<1>2. /\ tracking \subseteq ChannelIds \X Chan
      /\ mined \subseteq Chan /\ routes \subseteq Chan
      /\ \A t \in tracking : t[1] \in {Temp(t[2]), Perm(t[2])}
  BY ZenonT(30) DEF IInv, TypeOK
<1>3. /\ tracking' \subseteq ChannelIds \X Chan
      /\ \A t \in tracking' : t[1] \in {Temp(t[2]), Perm(t[2])}
  BY <1>1, <1>2 DEF WatchdTracks
<1>4. /\ {} \in SUBSET CtlMsgs /\ ctl' \subseteq ctl \cup {}
      /\ mined' = mined /\ routes' = routes
      /\ UNCHANGED <<actl, p2p, published, lnpdVars, proposeVars, acceptVars>>
  BY Zenon DEF WatchdTracks
<1> QED
  BY ZenonT(30), <1>2, <1>3, <1>4, SideStep

LEMMA WatchdFindsStep ==
    ASSUME IInv, NEW service \in ChannelIds, NEW c \in Chan,
           WatchdFinds(service, c)
    PROVE  IInv'
<1> DEFINE n == CtlMsg("TxFound", Watch, service, c)
<1>1. /\ n \in CtlMsgs /\ n.type = "TxFound" /\ n.src = Watch
      /\ n.dst = service /\ n.chan = c
  BY ServiceTypes, CtlMsgType DEF CtlTypes
<1>2. service \in {Temp(c), Perm(c)} /\ c \in published
  BY ZenonT(30) DEF WatchdFinds, IInv
<1>3. CtlOK(n) /\ Harmless(n)
  BY Zenon, <1>1, <1>2, ServicesAreNoChannels DEF CtlOK, Harmless
<1>4. /\ tracking' \subseteq ChannelIds \X Chan
      /\ mined \subseteq Chan /\ routes \subseteq Chan
      /\ \A t \in tracking' : t[1] \in {Temp(t[2]), Perm(t[2])}
  BY Zenon DEF IInv, TypeOK, WatchdFinds
<1>5. {n} \in SUBSET CtlMsgs /\ ctl' \subseteq ctl \cup {n}
  BY Zenon, <1>1 DEF WatchdFinds
<1> QED
  BY ZenonT(30), <1>3, <1>4, <1>5, SideStep DEF WatchdFinds

-----------------------------------------------------------------------------
(* channeld of the proposing node                                           *)

(* A message that channeld takes from the bus or the link is about its own  *)
(* channel.                                                                 *)
LEMMA ProposerAddressed ==
    ASSUME IInv, NEW c \in Chan
    PROVE  /\ \A m \in ctl : m.dst = identity[c] => m.chan = c
           /\ \A m \in p2p : m.id = identity[c] => m.chan = c
           /\ identity[c] \in ChannelIds /\ identity[c] \in ServiceIds
<1>1. identity[c] \in {Temp(c), Perm(c)}
  BY Zenon DEF IInv, ChanOK
<1>2. identity[c] \in ChannelIds /\ identity[c] \in ServiceIds
  BY Zenon, <1>1, IdsDiffer, ServiceTypes
<1>3. ASSUME NEW m \in ctl, m.dst = identity[c] PROVE m.chan = c
  <2>1. m.chan \in Chan /\ m.dst \in {Temp(m.chan), Perm(m.chan)}
    BY Zenon, <1>2, <1>3, CtlFacts DEF CtlOK
  <2> QED
    BY ZenonT(30), <1>1, <1>3, <2>1, IdsDiffer
<1>4. ASSUME NEW m \in p2p, m.id = identity[c] PROVE m.chan = c
  <2>1. m.chan \in Chan /\ m.id \in {Temp(m.chan), Perm(m.chan)}
    BY ZenonT(30), <1>2, <1>4, P2pMsgFields
       DEF IInv, TypeOK, SharedTypeOK, P2pOK
  <2> QED
    BY ZenonT(30), <1>1, <1>4, <2>1, IdsDiffer
<1> QED
  BY ZenonT(30), <1>2, <1>3, <1>4

(* Everything a step of the workflow of c leaves alone.                     *)
ProposerRest(c) ==
    /\ UNCHANGED <<actl, published, lnpdVars, acceptVars, tracking, mined,
                   routes>>
    /\ ProposeTypeOK'
    /\ \A d \in Chan \ {c} :
           /\ proposal'[d] = proposal[d]
           /\ identity'[d] = identity[d]
           /\ remote_sig'[d] = remote_sig[d]

LEMMA ProposerFrame ==
    ASSUME IInv, NEW c \in Chan, ProposerRest(c),
           NEW new \in SUBSET CtlMsgs, ctl' \subseteq ctl \cup new,
           \A n \in new : CtlOK(n) /\ Harmless(n),
           NEW links \in SUBSET P2pMsgs, p2p' \subseteq p2p \cup links,
           \A n \in links : P2pOK(n)',
           ChanOK(c)',
           proposal[c] = "PUBLISHED" =>
               proposal'[c] = "PUBLISHED" \/ c \in published,
           proposal[c] \in {"LOCKED", "ACTIVE"} =>
               proposal'[c] \in {"LOCKED", "ACTIVE"}
    PROVE  IInv'
<1> USE DEF ProposerRest, lnpdVars, acceptVars
<1>1. /\ \A m \in ctl' : CtlOK(m)'
      /\ \A d \in Chan : TokenOK(d)'
      /\ ctl' \subseteq CtlMsgs
  <2>1. \A d \in Chan \ published :
            proposal[d] = "PUBLISHED" => proposal'[d] = "PUBLISHED"
    BY ZenonT(30)
  <2> QED
    BY ZenonT(30), <2>1, BusFrame
<1>2. TypeOK'
  BY ZenonT(30), <1>1
     DEF IInv, TypeOK, SharedTypeOK, LnpdTypeOK, AcceptTypeOK
<1>3. \A x \in p2p' : P2pOK(x)'
  <2>1. \A x \in p2p : x.chan \in Chan
    BY ZenonT(30), P2pMsgFields DEF IInv, TypeOK, SharedTypeOK
  <2>2. \A x \in p2p : P2pOK(x)'
    BY ZenonT(30), <2>1 DEF IInv, P2pOK
  <2> QED
    BY ZenonT(30), <2>2
<1>4. \A x \in actl' : ActlOK(x)'
  BY ZenonT(30) DEF IInv, ActlOK
<1>5. \A d \in Chan : ChanOK(d)'
  BY ZenonT(30) DEF IInv, ChanOK
<1> QED
  BY ZenonT(30), <1>1, <1>2, <1>3, <1>4, <1>5 DEF IInv

(* The messages that channeld sends and gets are in order and, but for      *)
(* PublishFunding, harmless.                                                *)
LEMMA ChanneldMessages ==
    ASSUME NEW c \in Chan, NEW id \in {Temp(c), Perm(c)}
    PROVE  \A n \in { CtlMsg("Report", id, LnpBroker, c),
                     CtlMsg("Hello", id, LnpBroker, c),
                     CtlMsg("ConstructFunding", id, LnpBroker, c),
                     CtlMsg("Sign", id, Signer, c),
                     CtlMsg("Track", id, Watch, c),
                     CtlMsg("ChannelCreated", id, Router, c),
                     CtlMsg("EsbError", LnpBroker, id, c) } :
               n \in CtlMsgs /\ CtlOK(n) /\ Harmless(n)
<1>1. id \in ChannelIds /\ id \in ServiceIds
  BY ZenonT(30), IdsDiffer, ServiceTypes
<1>2. ASSUME NEW type \in {"Report", "Hello", "ConstructFunding", "Sign", "Track",
                          "ChannelCreated"},
             NEW dst \in {LnpBroker, Signer, Watch, Router},
             type = "Sign" => dst = Signer
      PROVE  LET n == CtlMsg(type, id, dst, c)
             IN  n \in CtlMsgs /\ CtlOK(n) /\ Harmless(n)
  <2> DEFINE n == CtlMsg(type, id, dst, c)
  <2>0. type \in CtlTypes /\ dst \in ServiceIds
    BY Zenon, ServiceTypes DEF CtlTypes
  <2>1. /\ n \in CtlMsgs /\ n.type = type /\ n.src = id /\ n.dst = dst
        /\ n.chan = c
    BY SMTT(30), <1>1, <2>0, CtlMsgType
  <2>2. CtlOK(n)
    BY ZenonT(30), <1>1, <1>2, <2>1, ServicesAreNoChannels DEF CtlOK
  <2>3. Harmless(n)
    BY Zenon, <1>1, <1>2, <2>1, ServicesAreNoChannels DEF Harmless
  <2> QED
    BY Zenon, <2>1, <2>2, <2>3
<1>3. LET n == CtlMsg("EsbError", LnpBroker, id, c)
      IN  n \in CtlMsgs /\ CtlOK(n) /\ Harmless(n)
  <2> DEFINE n == CtlMsg("EsbError", LnpBroker, id, c)
  <2>1. /\ n \in CtlMsgs /\ n.type = "EsbError" /\ n.src = LnpBroker
        /\ n.dst = id /\ n.chan = c
    BY SMTT(30), <1>1, ServiceTypes, CtlMsgType DEF CtlTypes
  <2>2. CtlOK(n) /\ Harmless(n)
    BY ZenonT(30), <1>1, <2>1, ServicesAreNoChannels DEF CtlOK, Harmless
  <2> QED
    BY ZenonT(30), <2>1, <2>2
<1> QED
  BY Zenon, <1>2, <1>3

(* A step that fails changes nothing but the bus.                           *)
LEMMA StepFailsStep ==
    ASSUME IInv, NEW c \in Chan, NEW rest, NEW links,
           StepFails(c, rest, links),
           UNCHANGED <<actl, published, lnpdVars, acceptVars, tracking, mined,
                       routes>>,
           rest \subseteq ctl
               \cup {CtlMsg("ChannelCreated", identity[c], Router, c)},
           links \subseteq p2p
    PROVE  IInv'
<1> DEFINE new == { CtlMsg("Report", identity[c], LnpBroker, c),
                    CtlMsg("ChannelCreated", identity[c], Router, c) }
<1>1. identity[c] \in {Temp(c), Perm(c)} /\ ChanOK(c)
  BY ZenonT(30) DEF IInv, ChanOK
<1>2. new \in SUBSET CtlMsgs /\ \A n \in new : CtlOK(n) /\ Harmless(n)
  BY Zenon, <1>1, ChanneldMessages
<1>3. ctl' \subseteq ctl \cup new /\ p2p' \subseteq p2p \cup {}
  BY Zenon DEF StepFails, ToLnpd
<1>4. ProposerRest(c)
  BY ZenonT(30) DEF StepFails, ProposerRest, IInv, TypeOK, ProposeTypeOK
<1>5. ChanOK(c)' /\ proposal'[c] = proposal[c]
  BY ZenonT(30), <1>1 DEF StepFails, ChanOK, lnpdVars, acceptVars
<1>6. {} \in SUBSET P2pMsgs /\ \A n \in {} : P2pOK(n)'
  BY Zenon
<1> QED
  BY ZenonT(30), <1>2, <1>3, <1>4, <1>5, <1>6, ProposerFrame

LEMMA ProposeChannelStep ==
    ASSUME IInv, NEW c \in Chan, NEW m \in ctl, ProposeChannel(c, m),
           UNCHANGED <<lnpdVars, acceptVars, tracking, mined, routes>>
    PROVE  IInv'
<1> DEFINE open == P2pMsg("OpenChannel", "acceptor", LnpBroker, c, "none")
           error == CtlMsg("EsbError", LnpBroker, identity[c], c)
<1>1. CASE StepFails(c, ctl \ {m}, p2p)
  BY ZenonT(30), <1>1, StepFailsStep DEF ProposeChannel
<1>2. CASE ~StepFails(c, ctl \ {m}, p2p)
  <2>1. /\ proposal' = [proposal EXCEPT ![c] = "PROPOSED"]
        /\ proposal[c] = "LAUNCH"
        /\ UNCHANGED <<identity, remote_sig, actl, published>>
        /\ ctl' \subseteq ctl \cup {error}
        /\ p2p' \subseteq p2p \cup {open}
    BY Zenon, <1>2 DEF ProposeChannel, SendP2p, StepTo
  <2>2. ProposerRest(c) /\ proposal'[c] = "PROPOSED"
    BY Zenon, <2>1 DEF ProposerRest, IInv, TypeOK, ProposeTypeOK,
       ProposeStates
  <2>3. /\ open \in P2pMsgs /\ open.type = "OpenChannel"
        /\ open.id = LnpBroker
    BY P2pMsgType DEF P2pTypes, Sides, Signatures
  <2>4. P2pOK(open)'
    BY ZenonT(30), <2>3, ServicesAreNoChannels DEF P2pOK
  <2>5. error \in CtlMsgs /\ CtlOK(error) /\ Harmless(error)
    BY ZenonT(30), ChanneldMessages DEF IInv, ChanOK
  <2>6. ChanOK(c)'
    BY ZenonT(30), <2>1, <2>2 DEF IInv, ChanOK, lnpdVars, acceptVars
  <2> QED
    BY ZenonT(30), <2>1, <2>2, <2>3, <2>4, <2>5, <2>6, ProposerFrame
<1> QED
  BY ZenonT(30), <1>1, <1>2

LEMMA CompleteProposedStep ==
    ASSUME IInv, NEW c \in Chan, NEW m \in p2p, CompleteProposed(c, m),
           UNCHANGED <<lnpdVars, acceptVars, tracking, mined, routes>>
    PROVE  IInv'
<1> DEFINE construct == CtlMsg("ConstructFunding", identity[c], LnpBroker, c)
<1>1. CASE StepFails(c, ctl, p2p \ {m})
  BY Zenon, <1>1, StepFailsStep DEF CompleteProposed
<1>2. CASE ~StepFails(c, ctl, p2p \ {m})
  <2>1. /\ proposal' = [proposal EXCEPT ![c] = "ACCEPTED"]
        /\ proposal[c] = "PROPOSED"
        /\ UNCHANGED <<identity, remote_sig, actl, published>>
        /\ ctl' \subseteq ctl \cup {construct}
        /\ p2p' \subseteq p2p \cup {}
    BY ZenonT(30), <1>2 DEF CompleteProposed, StepTo, ToLnpd
  <2>2. ProposerRest(c) /\ proposal'[c] = "ACCEPTED"
    BY Zenon, <2>1 DEF ProposerRest, IInv, TypeOK, ProposeTypeOK,
       ProposeStates
  <2>3. construct \in CtlMsgs /\ CtlOK(construct) /\ Harmless(construct)
    BY ZenonT(30), ChanneldMessages DEF IInv, ChanOK
  <2>4. ChanOK(c)'
    BY ZenonT(30), <2>1, <2>2 DEF IInv, ChanOK, lnpdVars, acceptVars
  <2>5. {} \in SUBSET P2pMsgs /\ \A n \in {} : P2pOK(n)'
    BY ZenonT(30)
  <2> QED
    BY ZenonT(30), <2>1, <2>2, <2>3, <2>4, <2>5, ProposerFrame
<1> QED
  BY ZenonT(30), <1>1, <1>2

LEMMA CompleteAcceptedStep ==
    ASSUME IInv, NEW c \in Chan, NEW m \in ctl, CompleteAccepted(c, m),
           UNCHANGED <<lnpdVars, acceptVars, tracking, mined, routes>>
    PROVE  IInv'
<1> DEFINE sign == CtlMsg("Sign", identity[c], Signer, c)
<1>1. CASE StepFails(c, ctl \ {m}, p2p)
  BY Zenon, <1>1, StepFailsStep DEF CompleteAccepted
<1>2. CASE ~StepFails(c, ctl \ {m}, p2p)
  <2>1. /\ proposal' = [proposal EXCEPT ![c] = "SIGNING"]
        /\ proposal[c] = "ACCEPTED"
        /\ UNCHANGED <<identity, remote_sig, actl, published>>
        /\ ctl' \subseteq ctl \cup {sign}
        /\ p2p' \subseteq p2p \cup {}
    BY ZenonT(30), <1>2 DEF CompleteAccepted, StepTo
  <2>2. ProposerRest(c) /\ proposal'[c] = "SIGNING"
    BY Zenon, <2>1 DEF ProposerRest, IInv, TypeOK, ProposeTypeOK,
       ProposeStates
  <2>3. sign \in CtlMsgs /\ CtlOK(sign) /\ Harmless(sign)
    BY ZenonT(30), ChanneldMessages DEF IInv, ChanOK
  <2>4. ChanOK(c)'
    BY ZenonT(30), <2>1, <2>2 DEF IInv, ChanOK, lnpdVars, acceptVars
  <2>5. {} \in SUBSET P2pMsgs /\ \A n \in {} : P2pOK(n)'
    BY Zenon
  <2> QED
    BY ZenonT(30), <2>1, <2>2, <2>3, <2>4, <2>5, ProposerFrame
<1> QED
  BY ZenonT(30), <1>1, <1>2

LEMMA CompleteSigningStep ==
    ASSUME IInv, NEW c \in Chan, NEW m \in ctl, CompleteSigning(c, m),
           UNCHANGED <<lnpdVars, acceptVars, tracking, mined, routes>>
    PROVE  IInv'
<1> DEFINE new == { CtlMsg("Hello", Perm(c), LnpBroker, c),
                    CtlMsg("EsbError", LnpBroker, Perm(c), c) }
           created == P2pMsg("FundingCreated", "acceptor", Temp(c), c, "proposer")
<1>1. CASE StepFails(c, ctl \ {m}, p2p)
  BY ZenonT(30), <1>1, StepFailsStep DEF CompleteSigning
<1>2. CASE ~StepFails(c, ctl \ {m}, p2p)
  <2>1. /\ proposal' = [proposal EXCEPT ![c] = "FUNDING"]
        /\ identity' = [identity EXCEPT ![c] = Perm(c)]
        /\ proposal[c] = "SIGNING"
        /\ UNCHANGED <<remote_sig, actl, published>>
        /\ ctl' \subseteq ctl \cup new
        /\ p2p' \subseteq p2p \cup {created}
    BY ZenonT(30), <1>2 DEF CompleteSigning, StepTo, SendP2p, ToLnpd
  <2>2. /\ ProposerRest(c)
        /\ proposal'[c] = "FUNDING" /\ identity'[c] = Perm(c)
    BY ZenonT(30), <2>1, IdsDiffer
       DEF ProposerRest, IInv, TypeOK, ProposeTypeOK, ProposeStates
  <2>3. /\ new \in SUBSET CtlMsgs
        /\ \A n \in new : CtlOK(n) /\ Harmless(n)
    BY Zenon, ChanneldMessages
  <2>4. ChanOK(c)'
    BY ZenonT(30), <2>1, <2>2 DEF IInv, ChanOK, lnpdVars, acceptVars
  <2>5. /\ created \in P2pMsgs /\ created.type = "FundingCreated"
        /\ created.id = Temp(c) /\ created.chan = c
        /\ created.sig = "proposer"
    BY SMTT(30), IdsDiffer, P2pMsgType DEF P2pTypes, Sides, Signatures
  <2>6. P2pOK(created)'
    BY ZenonT(30), <2>5 DEF P2pOK
  <2> QED
    BY ZenonT(30), <2>1, <2>2, <2>3, <2>4, <2>5, <2>6, ProposerFrame
<1> QED
  BY Zenon, <1>1, <1>2

LEMMA CompletePublishedStep ==
    ASSUME IInv, NEW c \in Chan, NEW m \in ctl, CompletePublished(c, m),
           UNCHANGED <<lnpdVars, acceptVars, tracking, mined, routes>>
    PROVE  IInv'
<1> DEFINE error == CtlMsg("EsbError", LnpBroker, identity[c], c)
           locked == P2pMsg("FundingLocked", "acceptor", identity[c], c, "none")
<1>1. /\ proposal' = [proposal EXCEPT ![c] = "LOCKED"]
      /\ proposal[c] = "PUBLISHED"
      /\ UNCHANGED <<identity, remote_sig, actl, published>>
      /\ ctl' \subseteq ctl \cup {error}
      /\ p2p' \subseteq p2p \cup {locked}
  BY Zenon DEF CompletePublished, StepTo, SendP2p
<1>2. c \in published
  BY ZenonT(30), ProposerAddressed DEF CompletePublished, ProposerGets, IInv,
         CtlOK
<1>3. ProposerRest(c) /\ proposal'[c] = "LOCKED"
  BY ZenonT(30), <1>1 DEF ProposerRest, IInv, TypeOK, ProposeTypeOK,
     ProposeStates
<1>4. error \in CtlMsgs /\ CtlOK(error) /\ Harmless(error)
  BY ZenonT(30), ChanneldMessages DEF IInv, ChanOK
<1>5. ChanOK(c)'
  BY ZenonT(30), <1>1, <1>2, <1>3 DEF IInv, ChanOK, lnpdVars, acceptVars
<1>6. /\ locked \in P2pMsgs /\ locked.type = "FundingLocked"
      /\ locked.to = "acceptor" /\ locked.id = identity[c] /\ locked.chan = c
  <2>1. identity[c] \in ChannelIds \cup {LnpBroker}
    BY ZenonT(30) DEF IInv, TypeOK, ProposeTypeOK
  <2> QED
    BY Zenon, <2>1 DEF P2pMsg, P2pMsgs, P2pTypes, Sides, Signatures
<1>7. P2pOK(locked)'
  <2>1. locked.id \in {Temp(c), Perm(c)}
    BY ZenonT(30), <1>6 DEF IInv, ChanOK
  <2> QED
    BY ZenonT(30), <1>1, <1>3, <1>6, <2>1 DEF P2pOK
<1> QED
  BY ZenonT(30), <1>1, <1>2, <1>3, <1>4, <1>5, <1>6, <1>7, ProposerFrame

LEMMA CompleteLockedStep ==
    ASSUME IInv, NEW c \in Chan, NEW m \in p2p, CompleteLocked(c, m),
           UNCHANGED <<lnpdVars, acceptVars, tracking, mined, routes>>
    PROVE  IInv'
<1> DEFINE created == CtlMsg("ChannelCreated", identity[c], Router, c)
<1>1. CASE StepFails(c, ctl \cup {created}, p2p \ {m})
  BY ZenonT(30), <1>1, StepFailsStep DEF CompleteLocked
<1>2. CASE ~StepFails(c, ctl \cup {created}, p2p \ {m})
  <2>1. /\ proposal' = [proposal EXCEPT ![c] = "ACTIVE"]
        /\ proposal[c] = "LOCKED"
        /\ UNCHANGED <<identity, remote_sig, actl, published>>
        /\ ctl' \subseteq ctl \cup {created}
        /\ p2p' \subseteq p2p \cup {}
    BY ZenonT(30), <1>2 DEF CompleteLocked, StepTo
  <2>2. ProposerRest(c) /\ proposal'[c] = "ACTIVE"
    BY Zenon, <2>1 DEF ProposerRest, IInv, TypeOK, ProposeTypeOK,
       ProposeStates
  <2>3. created \in CtlMsgs /\ CtlOK(created) /\ Harmless(created)
    BY ZenonT(30), ChanneldMessages DEF IInv, ChanOK
  <2>4. acceptance[c] = "ACTIVE"
    BY ZenonT(30), ProposerAddressed DEF CompleteLocked, ProposerHears, IInv,
           P2pOK
  <2>5. ChanOK(c)'
    BY ZenonT(30), <2>1, <2>2, <2>4 DEF IInv, ChanOK, lnpdVars, acceptVars
  <2>6. {} \in SUBSET P2pMsgs /\ \A n \in {} : P2pOK(n)'
    BY Zenon
  <2> QED
    BY ZenonT(30), <2>1, <2>2, <2>3, <2>5, <2>6, ProposerFrame
<1> QED
  BY ZenonT(30), <1>1, <1>2

LEMMA ProposerErrorStep ==
    ASSUME IInv, NEW c \in Chan, NEW m \in ctl, ProposerError(c, m),
           UNCHANGED <<lnpdVars, acceptVars, tracking, mined, routes>>
    PROVE  IInv'
<1>1. /\ StepFails(c, ctl \ {m}, p2p)
      /\ UNCHANGED <<actl, published>>
  BY ZenonT(30) DEF ProposerError
<1> QED
  BY Zenon, <1>1, StepFailsStep

(* The request to publish leaves channeld with the signature saved.         *)
LEMMA CompleteFundingStep ==
    ASSUME IInv, NEW c \in Chan, NEW m \in p2p, CompleteFunding(c, m),
           UNCHANGED <<lnpdVars, acceptVars, tracking, mined, routes>>
    PROVE  IInv'
<1> DEFINE publish == CtlMsg("PublishFunding", Perm(c), LnpBroker, c)
           more == { CtlMsg("Track", Perm(c), Watch, c),
                     CtlMsg("EsbError", LnpBroker, Perm(c), c) }
<1>1. CASE StepFails(c, ctl, p2p \ {m})
  BY Zenon, <1>1, StepFailsStep DEF CompleteFunding
<1>2. CASE ~StepFails(c, ctl, p2p \ {m})
  <2>0. identity[c] = Perm(c) /\ proposal[c] = "FUNDING" /\ c \notin published
    BY ZenonT(30) DEF CompleteFunding, IInv, ChanOK
  <2>1. /\ proposal' = [proposal EXCEPT ![c] = "PUBLISHED"]
        /\ remote_sig' = [remote_sig EXCEPT ![c] = m.sig]
        /\ UNCHANGED <<identity, actl, published>>
        /\ p2p' \subseteq p2p
    BY ZenonT(30), <1>2 DEF CompleteFunding, StepTo
  <2>2. ctl' \subseteq ctl \cup {publish} \cup more
    BY ZenonT(30), <1>2, <2>0 DEF CompleteFunding, ToLnpd
  <2>3. m.sig \in Signatures /\ m.sig # "none"
    BY ZenonT(30), P2pMsgFields DEF CompleteFunding, ProposerHears, IInv,
           P2pOK, TypeOK,
                        SharedTypeOK
  <2>4. /\ proposal'[c] = "PUBLISHED" /\ remote_sig'[c] = m.sig
        /\ \A d \in Chan \ {c} : /\ proposal'[d] = proposal[d]
                               /\ remote_sig'[d] = remote_sig[d]
        /\ ProposeTypeOK'
    BY ZenonT(30), <2>1, <2>3 DEF IInv, TypeOK, ProposeTypeOK, ProposeStates
  <2>5. /\ publish \in CtlMsgs /\ publish.type = "PublishFunding"
        /\ publish.src = Perm(c) /\ publish.dst = LnpBroker /\ publish.chan = c
    <3>1. /\ Perm(c) \in ServiceIds /\ LnpBroker \in ServiceIds
          /\ "PublishFunding" \in CtlTypes
      BY ZenonT(30), IdsDiffer, ServiceTypes DEF CtlTypes
    <3> QED
      BY <3>1, CtlMsgType
  <2>6. /\ more \in SUBSET CtlMsgs
        /\ \A n \in more : CtlOK(n) /\ Harmless(n)
    BY ZenonT(30), ChanneldMessages
  <2> USE DEF lnpdVars, acceptVars
  <2>7. TypeOK'
    BY ZenonT(30), <2>1, <2>2, <2>4, <2>5, <2>6
       DEF IInv, TypeOK, SharedTypeOK, LnpdTypeOK, AcceptTypeOK
  <2>8. \A x \in ctl' : CtlOK(x)'
    BY ZenonT(30), <2>1, <2>2, <2>5, <2>6, ServicesAreNoChannels
       DEF IInv, CtlOK
  <2>9. ASSUME NEW d \in Chan
        PROVE  TokenOK(d)'
    <3>1. /\ AskedToPublish(d)' => AskedToPublish(d) \/ d = c
          /\ AskedToSign(d)' => AskedToSign(d)
          /\ FundingSignedBySignd(d)' => FundingSignedBySignd(d)
      BY ZenonT(30), <2>2, <2>6
         DEF Harmless, AskedToPublish, AskedToSign, FundingSignedBySignd,
             CtlMsg
    <3>2. ~AskedToPublish(c) /\ ~AskedToSign(c) /\ ~FundingSignedBySignd(c)
      BY ZenonT(30), <2>0 DEF IInv, TokenOK
    <3> QED
      BY ZenonT(30), <2>0, <2>1, <2>4, <3>1, <3>2 DEF IInv, TokenOK
  <2>10. \A x \in p2p' : P2pOK(x)'
    <3>1. \A x \in p2p : x.chan \in Chan
      BY ZenonT(30), P2pMsgFields DEF IInv, TypeOK, SharedTypeOK
    <3> QED
      BY ZenonT(30), <2>0, <2>1, <2>4, <3>1 DEF IInv, P2pOK
  <2>11. /\ \A x \in actl' : ActlOK(x)'
         /\ \A d \in Chan : ChanOK(d)'
    BY ZenonT(30), <2>0, <2>1, <2>3, <2>4 DEF IInv, ActlOK, ChanOK
  <2> QED
    BY ZenonT(30), <2>7, <2>8, <2>9, <2>10, <2>11 DEF IInv
<1> QED
  BY ZenonT(30), <1>1, <1>2

LEMMA ProposerStep ==
    ASSUME IInv, NEW c \in Chan, ProposerHandles(c)
    PROVE  IInv'
<1>1. UNCHANGED <<lnpdVars, acceptVars, tracking, mined, routes>>
  BY Zenon DEF ProposerHandles
<1>2. ASSUME NEW m \in ctl, ProposerHandlesCtl(c, m) PROVE IInv'
  BY Zenon, <1>1, <1>2, ProposeChannelStep, CompleteAcceptedStep,
     CompleteSigningStep,
     CompletePublishedStep, ProposerErrorStep
     DEF ProposerHandlesCtl
<1>3. ASSUME NEW m \in p2p, ProposerHandlesP2p(c, m) PROVE IInv'
  BY Zenon, <1>1, <1>3, CompleteProposedStep, CompleteFundingStep,
     CompleteLockedStep
     DEF ProposerHandlesP2p
<1> QED
  BY Zenon, <1>2, <1>3 DEF ProposerHandles

-----------------------------------------------------------------------------
(* The accepting node.                                                      *)

(* What a step of the accepting node for channel c leaves alone.            *)
AcceptorRest(c) ==
    /\ UNCHANGED <<ctl, published, lnpdVars, proposeVars, tracking, mined,
                   routes>>
    /\ AcceptTypeOK'
    /\ \A d \in Chan \ {c} :
           /\ acceptance'[d] = acceptance[d]
           /\ aidentity'[d] = aidentity[d]

LEMMA AcceptorFrame ==
    ASSUME IInv, NEW c \in Chan, AcceptorRest(c),
           NEW new \in SUBSET CtlMsgs, actl' \subseteq actl \cup new,
           \A n \in new : ActlOK(n),
           NEW links \in SUBSET P2pMsgs, p2p' \subseteq p2p \cup links,
           \A n \in links : P2pOK(n)',
           ChanOK(c)',
           acceptance[c] = "ACTIVE" => acceptance'[c] = "ACTIVE"
    PROVE  IInv'
<1> USE DEF AcceptorRest, lnpdVars, proposeVars
<1>1. /\ \A m \in ctl' : CtlOK(m)'
      /\ \A d \in Chan : TokenOK(d)'
  BY ZenonT(30) DEF IInv, CtlOK, TokenOK, AskedToPublish, AskedToSign,
         FundingSignedBySignd
<1>2. TypeOK'
  BY ZenonT(30) DEF IInv, TypeOK, SharedTypeOK, LnpdTypeOK, ProposeTypeOK
<1>3. \A x \in p2p' : P2pOK(x)'
  <2>1. \A x \in p2p : x.chan \in Chan
    BY ZenonT(30), P2pMsgFields DEF IInv, TypeOK, SharedTypeOK
  <2>2. \A x \in p2p : P2pOK(x)'
    BY ZenonT(30), <2>1 DEF IInv, P2pOK
  <2> QED
    BY ZenonT(30), <2>2
<1>4. \A x \in actl' : ActlOK(x)'
  BY ZenonT(30) DEF IInv, ActlOK
<1>5. \A d \in Chan : ChanOK(d)'
  BY ZenonT(30) DEF IInv, ChanOK
<1> QED
  BY ZenonT(30), <1>1, <1>2, <1>3, <1>4, <1>5 DEF IInv

(* Messages of and to channel daemons respect ActlOK.                       *)
LEMMA ActlMsgOK ==
    ASSUME NEW type \in CtlTypes, NEW src \in ServiceIds, NEW dst \in ServiceIds,
           NEW c \in Chan, src \in ChannelIds \/ dst \in ChannelIds
    PROVE  CtlMsg(type, src, dst, c) \in CtlMsgs /\ ActlOK(CtlMsg(type, src, dst, c))
BY SMTT(30), CtlMsgType, ServicesAreNoChannels DEF ActlOK

(* The facts the steps of the accepting channeld start from.                *)
LEMMA AcceptorFacts ==
    ASSUME IInv, NEW c \in Chan
    PROVE  /\ AcceptTypeOK
           /\ Temp(c) \in ChannelIds /\ Perm(c) \in ChannelIds
           /\ Temp(c) \in ServiceIds /\ Perm(c) \in ServiceIds
           /\ aidentity[c] \in ChannelIds /\ aidentity[c] \in ServiceIds
           /\ {LnpBroker, Signer, Router} \subseteq ServiceIds
           /\ {} \in SUBSET CtlMsgs /\ {} \in SUBSET P2pMsgs
           /\ \A m \in actl :
                 /\ m.chan \in Chan /\ m.src \in ServiceIds
                 /\ m.dst \in {LnpBroker, Signer, Router} => m.src \in ChannelIds
BY ZenonT(30), IdsDiffer, ServiceTypes, CtlMsgFields
   DEF IInv, TypeOK, SharedTypeOK, AcceptTypeOK, ActlOK

(* Steps of the accepting node that send no BOLT message and leave the       *)
(* workflow of channeld where it is or take it to ACCEPTED.                  *)
LEMMA AcceptorQuietStep ==
    ASSUME IInv, NEW c \in Chan,
           UNCHANGED <<ctl, published, lnpdVars, proposeVars, tracking, mined,
                       routes, aidentity>>,
           AcceptTypeOK',
           \/ UNCHANGED acceptance
           \/ /\ acceptance[c] = "LAUNCH"
              /\ acceptance' = [acceptance EXCEPT ![c] = "ACCEPTED"],
           p2p' \subseteq p2p,
           NEW new \in SUBSET CtlMsgs, actl' \subseteq actl \cup new,
           \A n \in new : ActlOK(n)
    PROVE  IInv'
<1>1. AcceptorRest(c)
  BY Zenon DEF AcceptorRest, IInv, TypeOK, AcceptTypeOK
<1>2. /\ ChanOK(c)'
      /\ acceptance[c] = "ACTIVE" => acceptance'[c] = "ACTIVE"
  BY ZenonT(30) DEF IInv, TypeOK, AcceptTypeOK, ChanOK, lnpdVars, proposeVars
<1>3. /\ {} \in SUBSET P2pMsgs /\ \A n \in {} : P2pOK(n)'
      /\ p2p' \subseteq p2p \cup {}
  BY ZenonT(30)
<1> QED
  BY ZenonT(30), <1>1, <1>2, <1>3, AcceptorFrame

LEMMA AcceptorLaunchStep ==
    ASSUME IInv, NEW c \in Chan, UNCHANGED othersThanAcceptor,
           \/ AcceptorConnects(c)
           \/ \E m \in p2p : AcceptorLaunches(c, m)
    PROVE  IInv'
<1> USE AcceptorFacts DEF othersThanAcceptor
<1>1. CASE AcceptorConnects(c)
  <2> DEFINE n == CtlMsg("Hello", Temp(c), LnpBroker, c)
  <2>1. n \in CtlMsgs /\ ActlOK(n)
    BY ZenonT(30), ActlMsgOK DEF CtlTypes
  <2>2. /\ {n} \in SUBSET CtlMsgs /\ actl' \subseteq actl \cup {n}
        /\ AcceptTypeOK'
        /\ UNCHANGED <<p2p, ctl, published, acceptance, aidentity>>
    BY ZenonT(30), <1>1, <2>1 DEF AcceptorConnects, AcceptTypeOK
  <2> QED
    BY ZenonT(30), <2>1, <2>2, AcceptorQuietStep
<1>2. ASSUME NEW m \in p2p, AcceptorLaunches(c, m) PROVE IInv'
  <2>1. /\ actl' \subseteq actl \cup {} /\ p2p' \subseteq p2p
        /\ AcceptTypeOK'
        /\ UNCHANGED <<ctl, published, acceptance, aidentity>>
    BY ZenonT(30), <1>2 DEF AcceptorLaunches, AcceptTypeOK
  <2> QED
    BY ZenonT(30), <2>1, AcceptorQuietStep
<1> QED
  BY ZenonT(30), <1>1, <1>2

LEMMA AcceptorServicesStep ==
    ASSUME IInv, NEW c \in Chan, NEW m \in actl, UNCHANGED othersThanAcceptor,
           \/ AcceptorHello(c, m)
           \/ AcceptorChannelUpdate(c, m)
           \/ AcceptorRouted(c, m)
           \/ AcceptChannel(c, m)
    PROVE  IInv'
<1> USE AcceptorFacts DEF othersThanAcceptor
<1>1. CASE AcceptorHello(c, m)
  <2> DEFINE n == CtlMsg("AcceptChannelFrom", LnpBroker, m.src, c)
  <2>1. m.src \in ChannelIds
    BY ZenonT(30), <1>1 DEF AcceptorHello
  <2>2. n \in CtlMsgs /\ ActlOK(n)
    BY ZenonT(30), <2>1, ActlMsgOK DEF CtlTypes
  <2>3. /\ {n} \in SUBSET CtlMsgs /\ actl' \subseteq actl \cup {n}
        /\ AcceptTypeOK'
        /\ UNCHANGED <<p2p, ctl, published, acceptance, aidentity>>
    BY ZenonT(30), <1>1, <2>1, <2>2 DEF AcceptorHello, AcceptTypeOK
  <2> QED
    BY ZenonT(30), <2>2, <2>3, AcceptorQuietStep
<1>2. CASE AcceptorChannelUpdate(c, m)
  <2>1. /\ actl' \subseteq actl \cup {} /\ AcceptTypeOK'
        /\ UNCHANGED <<p2p, ctl, published, acceptance, aidentity>>
    BY ZenonT(30), <1>2 DEF AcceptorChannelUpdate, AcceptTypeOK
  <2> QED
    BY ZenonT(30), <2>1, AcceptorQuietStep
<1>3. CASE AcceptorRouted(c, m)
  <2> DEFINE n == CtlMsg("Hello", Router, m.src, c)
  <2>1. m.src \in ChannelIds
    BY ZenonT(30), <1>3 DEF AcceptorRouted
  <2>2. n \in CtlMsgs /\ ActlOK(n)
    BY ZenonT(30), <2>1, ActlMsgOK DEF CtlTypes
  <2>3. /\ {n} \in SUBSET CtlMsgs /\ actl' \subseteq actl \cup {n}
        /\ AcceptTypeOK'
        /\ UNCHANGED <<p2p, ctl, published, acceptance, aidentity>>
    BY ZenonT(30), <1>3, <2>1, <2>2 DEF AcceptorRouted, AcceptTypeOK
  <2> QED
    BY ZenonT(30), <2>2, <2>3, AcceptorQuietStep
<1>4. CASE AcceptChannel(c, m)
  <2> DEFINE n == CtlMsg("DeriveKeyset", aidentity[c], Signer, c)
  <2>1. n \in CtlMsgs /\ ActlOK(n)
    BY ZenonT(30), ActlMsgOK DEF CtlTypes
  <2>2. /\ {n} \in SUBSET CtlMsgs /\ actl' \subseteq actl \cup {n}
        /\ AcceptTypeOK'
        /\ UNCHANGED <<p2p, ctl, published, aidentity>>
        /\ \/ UNCHANGED acceptance
           \/ /\ acceptance[c] = "LAUNCH"
              /\ acceptance' = [acceptance EXCEPT ![c] = "ACCEPTED"]
    BY ZenonT(30), <1>4, <2>1 DEF AcceptChannel, AcceptTo, AcceptTypeOK,
           AcceptStates
  <2> QED
    BY ZenonT(30), <2>1, <2>2, AcceptorQuietStep
<1> QED
  BY ZenonT(30), <1>1, <1>2, <1>3, <1>4

LEMMA AcceptorSigndStep ==
    ASSUME IInv, NEW m \in actl, AcceptorSigndHandles(m)
    PROVE  IInv'
<1>1. PICK replies \in SigndReplies(m) : actl' = (actl \ {m}) \cup replies
  BY ZenonT(30) DEF AcceptorSigndHandles, AcceptorSignd, SigndAnswers
<1>2. m.chan \in Chan /\ m.src \in ServiceIds /\ m.dst = Signer
  BY ZenonT(30), CtlMsgFields DEF IInv, TypeOK, SharedTypeOK,
         AcceptorSigndHandles,
                      AcceptorSignd, SigndAnswers
<1>3. m.src \in ChannelIds
  BY ZenonT(30), <1>2 DEF IInv, ActlOK
<1>4. /\ UNCHANGED <<ctl, p2p, published, lnpdVars, proposeVars, tracking, mined,
                     routes, aidentity, acceptance>>
      /\ AcceptTypeOK'
  BY ZenonT(30) DEF AcceptorSigndHandles, AcceptorSignd, othersThanAcceptor,
         acceptVars,
         IInv, TypeOK, AcceptTypeOK
<1>5. ASSUME NEW type \in {"Keyset", "Signed", "Error"}
      PROVE  LET n == CtlMsg(type, Signer, m.src, m.chan)
             IN  n \in CtlMsgs /\ ActlOK(n)
  BY ZenonT(30), <1>2, <1>3, ActlMsgOK, ServiceTypes DEF CtlTypes
<1>6. replies \in SUBSET CtlMsgs /\ \A n \in replies : ActlOK(n)
  BY SMTT(30), <1>5, SigndRepliesOne
<1> QED
  BY Zenon, <1>1, <1>2, <1>4, <1>6, AcceptorQuietStep

(* A BOLT message that reaches a channeld of the accepting node is about its *)
(* channel.                                                                 *)
LEMMA AcceptorAddressed ==
    ASSUME IInv, NEW c \in Chan, NEW m \in p2p, m.id = aidentity[c]
    PROVE  m.chan = c /\ m.sig \in Signatures
<1>1. /\ m.chan \in Chan /\ m.sig \in Signatures
      /\ m.id \in ChannelIds /\ m.id \in {Temp(m.chan), Perm(m.chan)}
      /\ m.id \in {Temp(c), Perm(c)}
  BY ZenonT(30), P2pMsgFields DEF IInv, TypeOK, SharedTypeOK, AcceptTypeOK,
         P2pOK, ChanOK
<1> QED
  BY SMTT(30), <1>1, IdsDiffer

LEMMA FinishAcceptedStep ==
    ASSUME IInv, NEW c \in Chan, NEW m \in actl, FinishAccepted(c, m),
           UNCHANGED othersThanAcceptor
    PROVE  IInv'
<1> USE AcceptorFacts DEF othersThanAcceptor
<1> DEFINE n == P2pMsg("AcceptChannel", "proposer", Temp(c), c, "none")
<1>1. /\ n \in P2pMsgs /\ n.type = "AcceptChannel" /\ n.id = Temp(c)
      /\ n.chan = c
  BY ZenonT(30) DEF P2pMsg, P2pMsgs, P2pTypes, Sides, Signatures
<1>2. P2pOK(n)'
  BY ZenonT(30), <1>1 DEF P2pOK
<1>3. /\ AcceptorRest(c)
      /\ actl' \subseteq actl \cup {} /\ p2p' \subseteq p2p \cup {n}
      /\ acceptance'[c] \in {"ACCEPTED", "SIGNED"} /\ acceptance[c] = "ACCEPTED"
      /\ UNCHANGED aidentity
  BY ZenonT(30) DEF FinishAccepted, AnswerP2p, AcceptTo, AcceptorRest,
         AcceptTypeOK,
         AcceptStates
<1>4. ChanOK(c)'
  BY ZenonT(30), <1>3 DEF IInv, ChanOK, AcceptorRest, lnpdVars, proposeVars
<1> QED
  BY ZenonT(30), <1>1, <1>2, <1>3, <1>4, AcceptorFrame

LEMMA FinishSignedStep ==
    ASSUME IInv, NEW c \in Chan, NEW m \in p2p, FinishSigned(c, m),
           UNCHANGED othersThanAcceptor
    PROVE  IInv'
<1> USE AcceptorFacts DEF othersThanAcceptor
<1> DEFINE u == CtlMsg("ChannelUpdate", Perm(c), LnpBroker, c)
           n == P2pMsg("FundingSigned", "proposer", Perm(c), c, m.sig)
<1>1. m.sig \in Signatures /\ m.sig # "none"
  BY ZenonT(30), AcceptorAddressed DEF FinishSigned, AcceptorHears, IInv,
     P2pOK
<1>2. /\ n \in P2pMsgs /\ n.type = "FundingSigned" /\ n.id = Perm(c)
      /\ n.chan = c /\ n.sig = m.sig
  BY ZenonT(30), <1>1 DEF P2pMsg, P2pMsgs, P2pTypes, Sides
<1>3. P2pOK(n)'
  BY ZenonT(30), <1>1, <1>2 DEF P2pOK
<1>4. u \in CtlMsgs /\ ActlOK(u)
  BY ZenonT(30), ActlMsgOK DEF CtlTypes
<1>5. /\ AcceptorRest(c)
      /\ actl' \subseteq actl \cup {u} /\ p2p' \subseteq p2p \cup {n}
      /\ acceptance'[c] \in {"SIGNED", "FUNDED"} /\ acceptance[c] = "SIGNED"
      /\ aidentity'[c] = Perm(c)
  BY ZenonT(30) DEF FinishSigned, AnswerP2p, AcceptTo, AcceptorRest,
     AcceptTypeOK,
         AcceptStates
<1>6. ChanOK(c)'
  BY ZenonT(30), <1>5 DEF IInv, ChanOK, AcceptorRest, lnpdVars, proposeVars
<1>7. /\ {u} \in SUBSET CtlMsgs /\ \A x \in {u} : ActlOK(x)
      /\ {n} \in SUBSET P2pMsgs /\ \A x \in {n} : P2pOK(x)'
  BY ZenonT(30), <1>2, <1>3, <1>4
<1>8. acceptance[c] # "ACTIVE"
  BY ZenonT(30), <1>5
<1> QED
  BY ZenonT(30), <1>5, <1>6, <1>7, <1>8, AcceptorFrame

(* FundingLocked of the proposer shows that it has locked the funding.      *)
LEMMA FinishFundedStep ==
    ASSUME IInv, NEW c \in Chan, NEW m \in p2p, FinishFunded(c, m),
           UNCHANGED othersThanAcceptor
    PROVE  IInv'
<1> USE AcceptorFacts DEF othersThanAcceptor
<1> DEFINE new == { CtlMsg("ChannelCreated", aidentity[c], Router, c),
                    CtlMsg("Hello", aidentity[c], Router, c) }
<1>1. proposal[c] \in {"LOCKED", "ACTIVE"}
  BY ZenonT(30), AcceptorAddressed DEF FinishFunded, AcceptorHears, IInv,
     P2pOK
<1>2. new \in SUBSET CtlMsgs /\ \A n \in new : ActlOK(n)
  <2>1. "ChannelCreated" \in CtlTypes /\ "Hello" \in CtlTypes
    BY ZenonT(30) DEF CtlTypes
  <2>2. Router \in ServiceIds
    BY ZenonT(30)
  <2>3. CtlMsg("ChannelCreated", aidentity[c], Router, c) \in CtlMsgs
        /\ ActlOK(CtlMsg("ChannelCreated", aidentity[c], Router, c))
    BY ZenonT(30), <2>1, <2>2, ActlMsgOK
  <2>4. CtlMsg("Hello", aidentity[c], Router, c) \in CtlMsgs
        /\ ActlOK(CtlMsg("Hello", aidentity[c], Router, c))
    BY ZenonT(30), <2>1, <2>2, ActlMsgOK
  <2> QED
    BY ZenonT(30), <2>3, <2>4
<1>3. /\ AcceptorRest(c)
      /\ actl' \subseteq actl \cup new /\ p2p' \subseteq p2p \cup {}
      /\ acceptance'[c] \in {"FUNDED", "LOCKED"} /\ acceptance[c] = "FUNDED"
      /\ UNCHANGED aidentity
  BY ZenonT(30) DEF FinishFunded, AcceptTo, AcceptorRest, AcceptTypeOK,
         AcceptStates
<1>4. ChanOK(c)'
  BY ZenonT(30), <1>1, <1>3 DEF IInv, ChanOK, AcceptorRest, lnpdVars,
     proposeVars
<1>5. {} \in SUBSET P2pMsgs /\ \A n \in {} : P2pOK(n)'
  BY ZenonT(30)
<1> QED
  BY ZenonT(30), <1>2, <1>3, <1>4, <1>5, AcceptorFrame

LEMMA FinishLockedStep ==
    ASSUME IInv, NEW c \in Chan, NEW m \in actl, FinishLocked(c, m),
           UNCHANGED othersThanAcceptor
    PROVE  IInv'
<1> USE AcceptorFacts DEF othersThanAcceptor
<1> DEFINE n == P2pMsg("FundingLocked", "proposer", Perm(c), c, "none")
<1>0. aidentity[c] = Perm(c)
  BY ZenonT(30) DEF FinishLocked, IInv, ChanOK
<1>1. /\ n \in P2pMsgs /\ n.type = "FundingLocked" /\ n.id = Perm(c)
      /\ n.chan = c /\ n.to = "proposer"
  BY ZenonT(30) DEF P2pMsg, P2pMsgs, P2pTypes, Sides, Signatures
<1>2. /\ AcceptorRest(c)
      /\ actl' \subseteq actl \cup {} /\ p2p' \subseteq p2p \cup {n}
      /\ acceptance'[c] = "ACTIVE" /\ acceptance[c] = "LOCKED"
      /\ UNCHANGED aidentity
  BY ZenonT(30), <1>0 DEF FinishLocked, AnswerP2p, AcceptTo, AcceptorRest,
         AcceptTypeOK,
              AcceptStates
<1>3. P2pOK(n)'
  BY ZenonT(30), <1>1, <1>2 DEF P2pOK
<1>4. ChanOK(c)'
  BY ZenonT(30), <1>2 DEF IInv, ChanOK, AcceptorRest, lnpdVars, proposeVars
<1> QED
  BY ZenonT(30), <1>1, <1>2, <1>3, <1>4, AcceptorFrame

LEMMA AcceptorStep ==
    ASSUME IInv, NEW c \in Chan, AcceptorHandles(c)
    PROVE  IInv'
<1>1. UNCHANGED othersThanAcceptor
  BY Zenon DEF AcceptorHandles
<1>2. CASE AcceptorConnects(c)
  BY Zenon, <1>1, <1>2, AcceptorLaunchStep
<1>3. ASSUME NEW m \in actl, AcceptorHandlesCtl(c, m) PROVE IInv'
  BY Zenon, <1>1, <1>3, AcceptorServicesStep, FinishAcceptedStep,
     FinishLockedStep
     DEF AcceptorHandlesCtl
<1>4. ASSUME NEW m \in p2p, AcceptorHandlesP2p(c, m) PROVE IInv'
  BY ZenonT(30), <1>1, <1>4, AcceptorLaunchStep, FinishSignedStep,
     FinishFundedStep
     DEF AcceptorHandlesP2p
<1> QED
  BY Zenon, <1>2, <1>3, <1>4 DEF AcceptorHandles

-----------------------------------------------------------------------------
(* The theorems.                                                            *)

LEMMA InitInv ==
    ASSUME Init PROVE IInv
<1> USE DEF Init, SharedInit, LnpdInit, ProposeInit, AcceptInit
<1>1. TypeOK
  BY ZenonT(30), IdsDiffer
     DEF TypeOK, SharedTypeOK, LnpdTypeOK, ProposeTypeOK, AcceptTypeOK,
         ProposeStates, AcceptStates, LauncherStates, Signatures
<1>2. \A c \in Chan : TokenOK(c) /\ ChanOK(c)
  BY ZenonT(30) DEF TokenOK, ChanOK, AskedToPublish, AskedToSign,
         FundingSignedBySignd
<1> QED
  BY ZenonT(30), <1>1, <1>2 DEF IInv

LEMMA StutterInv ==
    ASSUME IInv, UNCHANGED vars PROVE IInv'
<1> USE DEF vars, sharedVars, lnpdVars, proposeVars, acceptVars
<1>1. TypeOK'
  BY ZenonT(30) DEF IInv, TypeOK, SharedTypeOK, LnpdTypeOK, ProposeTypeOK,
         AcceptTypeOK
<1>2. /\ \A m \in ctl' : CtlOK(m)'
      /\ \A m \in actl' : ActlOK(m)'
      /\ \A m \in p2p' : P2pOK(m)'
  BY ZenonT(30) DEF IInv, CtlOK, ActlOK, P2pOK
<1>3. \A c \in Chan : TokenOK(c)' /\ ChanOK(c)'
  BY ZenonT(30) DEF IInv, TokenOK, ChanOK, AskedToPublish, AskedToSign,
         FundingSignedBySignd
<1> QED
  BY Zenon, <1>1, <1>2, <1>3 DEF IInv

LEMMA NextInv ==
    ASSUME IInv, Next PROVE IInv'
BY Zenon, CreateChannelStep, LnpdStep, SigndStep, ChanneldStartsStep,
   ProposerStep,
   RoutedStep, WatchdTracksStep, WatchdFindsStep, MineStep, AcceptorStep,
   AcceptorSigndStep
   DEF Next

(* IInv holds in every state the two nodes can reach.                       *)
THEOREM Invariance == Spec => []IInv
<1>1. Init => IInv
  BY Zenon, InitInv
<1>2. IInv /\ [Next]_vars => IInv'
  BY Zenon, NextInv, StutterInv
<1> QED
  BY <1>1, <1>2, PTL DEF Spec

(* Every variable of both nodes keeps its type, whatever fails.             *)
THEOREM TypeCorrectness == Spec => []TypeOK
<1>1. IInv => TypeOK
  BY Zenon DEF IInv
<1> QED
  BY <1>1, Invariance, PTL

(* Whatever daemons fail and however their messages interleave, lnpd never  *)
(* broadcasts a funding transaction before the channeld of the channel has  *)
(* saved a signature of the refund transaction (complete_funding).          *)
THEOREM Refundability == Spec => []PublishedIsRefundable
<1>1. IInv => PublishedIsRefundable
  BY ZenonT(30) DEF IInv, TypeOK, SharedTypeOK, ChanOK, PublishedIsRefundable
<1> QED
  BY <1>1, Invariance, PTL

(* A channel active at the proposer (complete_locked) is active at the      *)
(* acceptor (finish_locked); a channel active at the acceptor is funded and *)
(* both channel daemons have its permanent id.                              *)
THEOREM Agreement == Spec => []ActiveAgreement
<1>1. IInv => ActiveAgreement
  BY ZenonT(30) DEF IInv, ChanOK, ActiveAgreement
<1> QED
  BY <1>1, Invariance, PTL

-----------------------------------------------------------------------------
(* ChannelOpening implements ChannelHandshake.  Only four kinds of step are *)
(* seen through the refinement mapping: those of the proposer's workflow,   *)
(* the broadcast, the acceptor's last step, and all the others, which       *)
(* stutter.                                                                 *)

(* The stages of the proposer follow each other in this order.               *)
Follows ==
    { <<"LAUNCH", "PROPOSED">>, <<"PROPOSED", "ACCEPTED">>,
      <<"ACCEPTED", "SIGNING">>, <<"SIGNING", "FUNDING">>,
      <<"FUNDING", "PUBLISHED">>, <<"PUBLISHED", "LOCKED">>,
      <<"LOCKED", "ACTIVE">> }

Unseen ==
    /\ UNCHANGED <<proposal, published>>
    /\ \A d \in Chan : acceptance'[d] = "ACTIVE" <=> acceptance[d] = "ACTIVE"

ProposerMoves(c, to) ==
    /\ <<proposal[c], to>> \in Follows
    /\ proposal' = [proposal EXCEPT ![c] = to]
    /\ to = "LOCKED" => c \in published
    /\ to = "ACTIVE" => acceptance[c] = "ACTIVE"
    /\ UNCHANGED <<published, acceptance>>

Broadcasts(c) ==
    /\ proposal[c] = "PUBLISHED" /\ c \notin published
    /\ published' = published \cup {c}
    /\ UNCHANGED <<proposal, acceptance>>

AcceptorActivates(c) ==
    /\ acceptance[c] = "LOCKED"
    /\ acceptance' = [acceptance EXCEPT ![c] = "ACTIVE"]
    /\ UNCHANGED <<proposal, published>>

Seen ==
    \E c \in Chan :
        \/ \E to \in ProposeStates : ProposerMoves(c, to)
        \/ Broadcasts(c)
        \/ AcceptorActivates(c)

-----------------------------------------------------------------------------
(* lnpd is seen when it broadcasts a funding, which complete_signatures does *)
(* on the Signed that the request to publish has led to.                     *)
LEMMA LnpdSeen ==
    ASSUME IInv, NEW m \in ctl, LnpdHandles(m)
    PROVE  Unseen \/ Seen
<1>0. m.chan \in Chan
  BY Zenon, CtlFacts
<1>1. UNCHANGED <<proposal, acceptance>>
  BY Zenon DEF LnpdHandles, othersThanLnpd, proposeVars, acceptVars
<1>2. CASE UNCHANGED published
  BY Zenon, <1>1, <1>2 DEF Unseen
<1>3. CASE ~UNCHANGED published
  <2>1. /\ m.type = "Signed" /\ m.dst = LnpBroker
        /\ published' = published \cup {m.chan}
    BY ZenonT(30), <1>3
       DEF LnpdHandles, HandleCtl, HandleHello, HandleKeyset,
           HandleConstructFunding, HandlePublishFunding, HandleSigned,
           HandleError, HandleReport, Panic, Receive
  <2>2. m = CtlMsg("Signed", Signer, LnpBroker, m.chan)
    BY Zenon, <2>1, CtlFacts DEF CtlOK
  <2>3. FundingSignedBySignd(m.chan)
    BY Zenon, <2>2 DEF FundingSignedBySignd
  <2>4. proposal[m.chan] = "PUBLISHED" /\ m.chan \notin published
    BY Zenon, <1>0, <2>3 DEF IInv, TokenOK
  <2> QED
    BY Zenon, <1>0, <1>1, <2>1, <2>4 DEF Seen, Broadcasts
<1> QED
  BY Zenon, <1>2, <1>3

(* A workflow step that does not fail moves the proposer one stage ahead.    *)
LEMMA ProposerSeen ==
    ASSUME IInv, NEW c \in Chan, ProposerHandles(c)
    PROVE  Unseen \/ Seen
<1>1. UNCHANGED acceptance
  BY Zenon DEF ProposerHandles, acceptVars
<1>2. proposal \in [Chan -> ProposeStates]
  BY Zenon DEF IInv, TypeOK, ProposeTypeOK
<1>3. ASSUME UNCHANGED <<proposal, published>> PROVE Unseen
  BY Zenon, <1>1, <1>3 DEF Unseen
<1>4. ASSUME NEW to \in ProposeStates, ProposerMoves(c, to) PROVE Seen
  BY Zenon, <1>4 DEF Seen
<1>5. ASSUME NEW m \in ctl, ProposerHandlesCtl(c, m) PROVE Unseen \/ Seen
  <2>1. CASE ProposeChannel(c, m)
    <3>1. \/ UNCHANGED <<proposal, published>>
          \/ ProposerMoves(c, "PROPOSED")
      BY ZenonT(30), <1>1, <2>1
         DEF ProposeChannel, StepFails, StepTo, ProposerMoves, Follows
    <3> QED
      BY Zenon, <1>3, <1>4, <3>1 DEF ProposeStates
  <2>2. CASE CompleteAccepted(c, m)
    <3>1. \/ UNCHANGED <<proposal, published>>
          \/ ProposerMoves(c, "SIGNING")
      BY ZenonT(30), <1>1, <2>2
         DEF CompleteAccepted, StepFails, StepTo, ProposerMoves, Follows
    <3> QED
      BY Zenon, <1>3, <1>4, <3>1 DEF ProposeStates
  <2>3. CASE CompleteSigning(c, m)
    <3>1. \/ UNCHANGED <<proposal, published>>
          \/ ProposerMoves(c, "FUNDING")
      BY ZenonT(30), <1>1, <2>3
         DEF CompleteSigning, StepFails, StepTo, ProposerMoves, Follows
    <3> QED
      BY Zenon, <1>3, <1>4, <3>1 DEF ProposeStates
  <2>4. CASE CompletePublished(c, m)
    <3>1. m.type = "TxFound" /\ m.chan = c
      BY Zenon, <2>4, ProposerAddressed DEF CompletePublished, ProposerGets
    <3>2. c \in published
      BY Zenon, <3>1 DEF IInv, CtlOK
    <3>3. ProposerMoves(c, "LOCKED")
      BY ZenonT(30), <1>1, <2>4, <3>2
         DEF CompletePublished, StepTo, ProposerMoves, Follows
    <3> QED
      BY Zenon, <1>4, <3>3 DEF ProposeStates
  <2>5. CASE ProposerError(c, m)
    BY Zenon, <1>3, <2>5 DEF ProposerError, StepFails
  <2> QED
    BY Zenon, <1>5, <2>1, <2>2, <2>3, <2>4, <2>5 DEF ProposerHandlesCtl
<1>6. ASSUME NEW m \in p2p, ProposerHandlesP2p(c, m) PROVE Unseen \/ Seen
  <2>1. CASE CompleteProposed(c, m)
    <3>1. \/ UNCHANGED <<proposal, published>>
          \/ ProposerMoves(c, "ACCEPTED")
      BY ZenonT(30), <1>1, <2>1
         DEF CompleteProposed, StepFails, StepTo, ProposerMoves, Follows
    <3> QED
      BY Zenon, <1>3, <1>4, <3>1 DEF ProposeStates
  <2>2. CASE CompleteFunding(c, m)
    <3>1. \/ UNCHANGED <<proposal, published>>
          \/ ProposerMoves(c, "PUBLISHED")
      BY ZenonT(30), <1>1, <2>2
         DEF CompleteFunding, StepFails, StepTo, ProposerMoves, Follows
    <3> QED
      BY Zenon, <1>3, <1>4, <3>1 DEF ProposeStates
  <2>3. CASE CompleteLocked(c, m)
    <3>1. m.type = "FundingLocked" /\ m.to = "proposer" /\ m.chan = c
      BY Zenon, <2>3, ProposerAddressed DEF CompleteLocked, ProposerHears
    <3>2. acceptance[c] = "ACTIVE"
      BY Zenon, <3>1 DEF IInv, P2pOK
    <3>3. \/ UNCHANGED <<proposal, published>>
          \/ ProposerMoves(c, "ACTIVE")
      BY ZenonT(30), <1>1, <2>3, <3>2
         DEF CompleteLocked, StepFails, StepTo, ProposerMoves, Follows
    <3> QED
      BY Zenon, <1>3, <1>4, <3>3 DEF ProposeStates
  <2> QED
    BY Zenon, <1>6, <2>1, <2>2, <2>3 DEF ProposerHandlesP2p
<1> QED
  BY Zenon, <1>5, <1>6 DEF ProposerHandles

(* finish_locked alone makes a channel active at the acceptor, and no step   *)
(* ends that.                                                                *)
LEMMA AcceptorSeen ==
    ASSUME IInv, NEW c \in Chan, AcceptorHandles(c)
    PROVE  Unseen \/ Seen
<1>1. UNCHANGED <<proposal, published>>
  BY ZenonT(30)
     DEF AcceptorHandles, othersThanAcceptor, proposeVars, AcceptorHandlesCtl,
         AcceptorHandlesP2p, AcceptorConnects, AcceptorHello,
         AcceptorChannelUpdate, AcceptorRouted, AcceptChannel, FinishAccepted,
         FinishLocked, AcceptorLaunches, FinishSigned, FinishFunded
<1>2. acceptance \in [Chan -> AcceptStates]
  BY Zenon DEF IInv, TypeOK, AcceptTypeOK
<1>3. ASSUME NEW to \in AcceptStates \ {"ACTIVE"}, acceptance[c] # "ACTIVE",
             acceptance' = [acceptance EXCEPT ![c] = to]
      PROVE  Unseen
  BY Zenon, <1>1, <1>2, <1>3 DEF Unseen
<1>4. ASSUME UNCHANGED acceptance PROVE Unseen
  BY Zenon, <1>1, <1>4 DEF Unseen
<1>5. CASE AcceptorConnects(c)
  BY Zenon, <1>4, <1>5 DEF AcceptorConnects
<1>6. ASSUME NEW m \in actl, AcceptorHandlesCtl(c, m) PROVE Unseen \/ Seen
  <2>1. CASE AcceptorHello(c, m) \/ AcceptorChannelUpdate(c, m)
             \/ AcceptorRouted(c, m)
    BY Zenon, <1>4, <2>1 DEF AcceptorHello, AcceptorChannelUpdate,
       AcceptorRouted
  <2>2. CASE AcceptChannel(c, m)
    BY ZenonT(30), <1>3, <1>4, <2>2 DEF AcceptChannel, AcceptTo, AcceptStates
  <2>3. CASE FinishAccepted(c, m)
    BY ZenonT(30), <1>3, <1>4, <2>3 DEF FinishAccepted, AcceptTo, AcceptStates
  <2>4. CASE FinishLocked(c, m)
    <3>1. AcceptorActivates(c)
      BY ZenonT(30), <1>1, <2>4 DEF FinishLocked, AcceptTo, AcceptorActivates
    <3> QED
      BY Zenon, <3>1 DEF Seen
  <2> QED
    BY Zenon, <1>6, <2>1, <2>2, <2>3, <2>4 DEF AcceptorHandlesCtl
<1>7. ASSUME NEW m \in p2p, AcceptorHandlesP2p(c, m) PROVE Unseen
  <2>1. CASE AcceptorLaunches(c, m)
    BY Zenon, <1>4, <2>1 DEF AcceptorLaunches
  <2>2. CASE FinishSigned(c, m)
    BY ZenonT(30), <1>3, <1>4, <2>2 DEF FinishSigned, AcceptTo, AcceptStates
  <2>3. CASE FinishFunded(c, m)
    BY ZenonT(30), <1>3, <1>4, <2>3 DEF FinishFunded, AcceptTo, AcceptStates
  <2> QED
    BY Zenon, <1>7, <2>1, <2>2, <2>3 DEF AcceptorHandlesP2p
<1> QED
  BY Zenon, <1>5, <1>6, <1>7 DEF AcceptorHandles

(* Nothing else is seen.                                                     *)
LEMMA NextSeen ==
    ASSUME IInv, Next
    PROVE  Unseen \/ Seen
<1> USE DEF Unseen, sharedVars, lnpdVars, proposeVars, acceptVars,
            othersThanLnpd, othersThanAcceptor
<1>1. ASSUME NEW c \in Chan, ClientCreatesChannel(c) PROVE Unseen
  BY Zenon, <1>1 DEF ClientCreatesChannel, CreateChannel
<1>2. ASSUME NEW m \in ctl, SigndHandles(m) PROVE Unseen
  BY Zenon, <1>2 DEF SigndHandles
<1>3. ASSUME NEW c \in Chan, ChanneldStarts(c) PROVE Unseen
  BY Zenon, <1>3 DEF ChanneldStarts, ChanneldConnects
<1>4. ASSUME NEW m \in ctl, RoutedHandles(m) \/ WatchdTracks(m) PROVE Unseen
  BY Zenon, <1>4 DEF RoutedHandles, WatchdTracks
<1>5. ASSUME NEW service \in ChannelIds, NEW c \in Chan, WatchdFinds(service, c)
      PROVE  Unseen
  BY Zenon, <1>5 DEF WatchdFinds
<1>6. ASSUME NEW c \in Chan, Mine(c) PROVE Unseen
  BY Zenon, <1>6 DEF Mine
<1>7. ASSUME NEW m \in actl, AcceptorSigndHandles(m) PROVE Unseen
  BY Zenon, <1>7 DEF AcceptorSigndHandles, AcceptorSignd
<1> QED
  BY Zenon, <1>1, <1>2, <1>3, <1>4, <1>5, <1>6, <1>7, LnpdSeen, ProposerSeen,
     AcceptorSeen
     DEF Next

-----------------------------------------------------------------------------
(* The refinement mapping.  Under the invariant the clients told of success  *)
(* are those whose funding was broadcast.                                    *)
LEMMA SuccessIsPublished ==
    ASSUME IInv
    PROVE  {c \in Chan : "success" \in told[c]} = published
BY Zenon DEF IInv, ChanOK, TypeOK, SharedTypeOK

LEMMA SuccessIsPublishedNext ==
    ASSUME IInv'
    PROVE  {c \in Chan : "success" \in told'[c]} = published'
BY Zenon DEF IInv, ChanOK, TypeOK, SharedTypeOK

(* The phase of a channel follows from the proposer's stage and whether the  *)
(* funding was broadcast, which happens in PUBLISHED at the earliest.        *)
LEMMA PhaseValues ==
    ASSUME IInv, NEW c \in Chan
    PROVE  /\ proposal[c] = "LAUNCH" => PhaseOf(c) = "idle"
           /\ proposal[c] = "PROPOSED" => PhaseOf(c) = "proposed"
           /\ proposal[c] \in {"ACCEPTED", "SIGNING", "FUNDING"} =>
                  PhaseOf(c) = "accepted"
           /\ proposal[c] = "PUBLISHED" /\ c \notin published =>
                  PhaseOf(c) = "committed"
           /\ proposal[c] = "PUBLISHED" /\ c \in published =>
                  PhaseOf(c) = "funded"
           /\ proposal[c] = "LOCKED" => PhaseOf(c) = "funded"
           /\ proposal[c] = "ACTIVE" => PhaseOf(c) = "open"
<1>1. /\ proposal[c] \in ProposeStates
      /\ c \in published => proposal[c] \in {"PUBLISHED", "LOCKED", "ACTIVE"}
      /\ proposal[c] = "LOCKED" => c \in published
  BY Zenon DEF IInv, TypeOK, ProposeTypeOK, ChanOK
<1> QED
  BY Zenon, <1>1 DEF PhaseOf, ProposeStates

(* The same in the next state.                                               *)
LEMMA PhaseValuesNext ==
    ASSUME IInv', NEW c \in Chan
    PROVE  /\ proposal'[c] = "LAUNCH" => PhaseOf(c)' = "idle"
           /\ proposal'[c] = "PROPOSED" => PhaseOf(c)' = "proposed"
           /\ proposal'[c] \in {"ACCEPTED", "SIGNING", "FUNDING"} =>
                  PhaseOf(c)' = "accepted"
           /\ proposal'[c] = "PUBLISHED" /\ c \notin published' =>
                  PhaseOf(c)' = "committed"
           /\ proposal'[c] = "PUBLISHED" /\ c \in published' =>
                  PhaseOf(c)' = "funded"
           /\ proposal'[c] = "LOCKED" => PhaseOf(c)' = "funded"
           /\ proposal'[c] = "ACTIVE" => PhaseOf(c)' = "open"
<1>1. /\ proposal'[c] \in ProposeStates
      /\ c \in published' => proposal'[c] \in {"PUBLISHED", "LOCKED", "ACTIVE"}
      /\ proposal'[c] = "LOCKED" => c \in published'
  BY Zenon DEF IInv, TypeOK, ProposeTypeOK, ChanOK
<1> QED
  BY Zenon, <1>1 DEF PhaseOf, ProposeStates

(* A channel whose stage and broadcast a step leaves alone keeps its phase.  *)
LEMMA PhaseKept ==
    ASSUME NEW c \in Chan, proposal'[c] = proposal[c],
           c \in published' <=> c \in published
    PROVE  PhaseOf(c)' = PhaseOf(c)
BY Zenon DEF PhaseOf

(* Steps that are not seen leave the abstract state alone.                   *)
LEMMA UnseenStutters ==
    ASSUME IInv, IInv', Unseen
    PROVE  UNCHANGED Handshake!handshakeVars
<1>1. \A c \in Chan : PhaseOf(c)' = PhaseOf(c)
  BY Zenon, PhaseKept DEF Unseen
<1>2. {c \in Chan : "success" \in told'[c]} = {c \in Chan : "success" \in told[c]}
  BY Zenon, SuccessIsPublished, SuccessIsPublishedNext DEF Unseen
<1>3. [c \in Chan |-> acceptance[c] = "ACTIVE"]'
          = [c \in Chan |-> acceptance[c] = "ACTIVE"]
  BY Zenon DEF Unseen
<1>4. [c \in Chan |-> PhaseOf(c)]' = [c \in Chan |-> PhaseOf(c)]
  BY Zenon, <1>1
<1> QED
  BY Zenon, <1>2, <1>3, <1>4 DEF Handshake!handshakeVars

-----------------------------------------------------------------------------
(* The abstract state, and the step of one channel through its phases.       *)
Phase == [c \in Chan |-> PhaseOf(c)]
Success == {c \in Chan : "success" \in told[c]}
PeerActive == [c \in Chan |-> acceptance[c] = "ACTIVE"]

LEMMA PhaseAdvances ==
    ASSUME NEW c \in Chan, NEW to, PhaseOf(c)' = to,
           \A d \in Chan \ {c} : PhaseOf(d)' = PhaseOf(d)
    PROVE  Phase' = [Phase EXCEPT ![c] = to]
BY Zenon DEF Phase

(* A stage of the proposer is a phase of the channel, or within one.         *)
LEMMA ProposerMovesStep ==
    ASSUME IInv, IInv', NEW c \in Chan, NEW to \in ProposeStates,
           ProposerMoves(c, to)
    PROVE  Handshake!HandshakeNext \/ UNCHANGED Handshake!handshakeVars
<1>1. proposal \in [Chan -> ProposeStates]
  BY Zenon DEF IInv, TypeOK, ProposeTypeOK
<1>2. /\ proposal'[c] = to
      /\ \A d \in Chan \ {c} : PhaseOf(d)' = PhaseOf(d)
  <2>1. /\ proposal'[c] = to
        /\ \A d \in Chan \ {c} : proposal'[d] = proposal[d]
    BY Zenon, <1>1 DEF ProposerMoves
  <2> QED
    BY Zenon, <2>1, PhaseKept DEF ProposerMoves
<1>3. Success' = Success /\ PeerActive' = PeerActive
  BY Zenon, SuccessIsPublished, SuccessIsPublishedNext
     DEF ProposerMoves, Success, PeerActive
<1>4. Phase[c] = PhaseOf(c)
  BY Zenon DEF Phase
<1>5. Phase' = [Phase EXCEPT ![c] = PhaseOf(c)']
  BY Zenon, <1>2, PhaseAdvances
<1>6. c \in published' <=> c \in published
  BY Zenon DEF ProposerMoves
<1>7. CASE PhaseOf(c)' = PhaseOf(c)
  <2>1. Phase' = Phase
    BY Zenon, <1>2, <1>7 DEF Phase
  <2> QED
    BY Zenon, <1>3, <2>1 DEF Handshake!handshakeVars, Phase, Success,
       PeerActive
<1>8. \/ PhaseOf(c)' = PhaseOf(c)
      \/ PhaseOf(c) = "idle" /\ PhaseOf(c)' = "proposed"
      \/ PhaseOf(c) = "proposed" /\ PhaseOf(c)' = "accepted"
      \/ PhaseOf(c) = "accepted" /\ PhaseOf(c)' = "committed"
      \/ PhaseOf(c) = "funded" /\ PhaseOf(c)' = "open" /\ PeerActive[c]
  <2>1. c \in published => proposal[c] \in {"PUBLISHED", "LOCKED", "ACTIVE"}
    BY Zenon DEF IInv, ChanOK
  <2> QED
    BY Zenon, <1>2, <1>6, <2>1, PhaseValues, PhaseValuesNext
       DEF ProposerMoves, Follows, PeerActive
<1>9. CASE PhaseOf(c) = "idle" /\ PhaseOf(c)' = "proposed"
  <2>1. Handshake!Propose(c)
    BY Zenon, <1>3, <1>4, <1>5, <1>9
       DEF Handshake!Propose, Handshake!Advance, Phase, Success, PeerActive
  <2> QED
    BY Zenon, <2>1 DEF Handshake!HandshakeNext
<1>10. CASE PhaseOf(c) = "proposed" /\ PhaseOf(c)' = "accepted"
  <2>1. Handshake!Accept(c)
    BY Zenon, <1>3, <1>4, <1>5, <1>10
       DEF Handshake!Accept, Handshake!Advance, Phase, Success, PeerActive
  <2> QED
    BY Zenon, <2>1 DEF Handshake!HandshakeNext
<1>11. CASE PhaseOf(c) = "accepted" /\ PhaseOf(c)' = "committed"
  <2>1. Handshake!Commit(c)
    BY Zenon, <1>3, <1>4, <1>5, <1>11
       DEF Handshake!Commit, Handshake!Advance, Phase, Success, PeerActive
  <2> QED
    BY Zenon, <2>1 DEF Handshake!HandshakeNext
<1>12. CASE PhaseOf(c) = "funded" /\ PhaseOf(c)' = "open" /\ PeerActive[c]
  <2>1. Handshake!Open(c)
    BY Zenon, <1>3, <1>4, <1>5, <1>12
       DEF Handshake!Open, Handshake!Advance, Phase, Success, PeerActive
  <2> QED
    BY Zenon, <2>1 DEF Handshake!HandshakeNext
<1> QED
  BY Zenon, <1>7, <1>8, <1>9, <1>10, <1>11, <1>12

(* The broadcast funds the channel and tells its client.                     *)
LEMMA BroadcastsStep ==
    ASSUME IInv, IInv', NEW c \in Chan, Broadcasts(c)
    PROVE  Handshake!HandshakeNext
<1>1. \A d \in Chan \ {c} : PhaseOf(d)' = PhaseOf(d)
  BY Zenon, PhaseKept DEF Broadcasts
<1>2. PhaseOf(c) = "committed" /\ PhaseOf(c)' = "funded"
  BY Zenon, PhaseValues, PhaseValuesNext DEF Broadcasts
<1>3. Phase' = [Phase EXCEPT ![c] = "funded"] /\ Phase[c] = "committed"
  BY Zenon, <1>1, <1>2, PhaseAdvances DEF Phase
<1>4. Success' = Success \cup {c} /\ PeerActive' = PeerActive
  BY Zenon, SuccessIsPublished, SuccessIsPublishedNext
     DEF Broadcasts, Success, PeerActive
<1>5. Handshake!Fund(c)
  BY Zenon, <1>3, <1>4
     DEF Handshake!Fund, Handshake!Advance, Phase, Success, PeerActive
<1> QED
  BY Zenon, <1>5 DEF Handshake!HandshakeNext

(* The acceptor activates a funded channel that the proposer has not opened. *)
LEMMA AcceptorActivatesStep ==
    ASSUME IInv, IInv', NEW c \in Chan, AcceptorActivates(c)
    PROVE  Handshake!HandshakeNext
<1>1. acceptance \in [Chan -> AcceptStates]
  BY Zenon DEF IInv, TypeOK, AcceptTypeOK
<1>2. PhaseOf(c) = "funded"
  <2>1. proposal[c] = "LOCKED"
    BY Zenon DEF IInv, ChanOK, AcceptorActivates
  <2> QED
    BY Zenon, <2>1, PhaseValues
<1>3. Phase' = Phase /\ Phase[c] = "funded"
  BY Zenon, <1>2, PhaseKept DEF AcceptorActivates, Phase
<1>4. Success' = Success
  BY Zenon, SuccessIsPublished, SuccessIsPublishedNext
     DEF AcceptorActivates, Success
<1>5. PeerActive' = [PeerActive EXCEPT ![c] = TRUE] /\ ~PeerActive[c]
  BY Zenon, <1>1 DEF AcceptorActivates, PeerActive
<1>6. Handshake!PeerActivates(c)
  BY Zenon, <1>3, <1>4, <1>5 DEF Handshake!PeerActivates, Phase, Success,
     PeerActive
<1> QED
  BY Zenon, <1>6 DEF Handshake!HandshakeNext

(* Every step of the daemons is a step of the handshake or stutters.         *)
LEMMA NextImplements ==
    ASSUME IInv, IInv', Next
    PROVE  Handshake!HandshakeNext \/ UNCHANGED Handshake!handshakeVars
BY Zenon, NextSeen, UnseenStutters, ProposerMovesStep, BroadcastsStep,
   AcceptorActivatesStep
   DEF Seen

(* A state that stays the same stays the same for the handshake.             *)
LEMMA StutterImplements ==
    ASSUME IInv, IInv', UNCHANGED vars
    PROVE  UNCHANGED Handshake!handshakeVars
<1>1. Unseen
  BY Zenon DEF Unseen, vars, sharedVars, proposeVars, acceptVars
<1> QED
  BY Zenon, <1>1, UnseenStutters

(* The daemons start where the handshake does.                               *)
LEMMA InitImplements ==
    ASSUME Init
    PROVE  Handshake!HandshakeInit
<1>1. IInv
  BY Zenon, InitInv
<1>2. \A c \in Chan : PhaseOf(c) = "idle"
  BY Zenon, <1>1, PhaseValues DEF Init, ProposeInit
<1> QED
  BY Zenon, <1>2
     DEF Handshake!HandshakeInit, Init, LnpdInit, AcceptInit

(* The daemons of the two nodes together implement the handshake: the phases *)
(* of each channel follow each other, the client is told of success by the   *)
(* step that broadcasts the funding (complete_signatures), and the proposer  *)
(* opens a channel after its peer did (finish_locked, complete_locked).      *)
THEOREM Implementation == Spec => ImplementsHandshake
<1>1. Init => Handshake!HandshakeInit
  BY Zenon, InitImplements
<1>2. IInv /\ IInv' /\ [Next]_vars
          => [Handshake!HandshakeNext]_Handshake!handshakeVars
  BY Zenon, NextImplements, StutterImplements
<1> QED
  BY <1>1, <1>2, Invariance, PTL
     DEF Spec, ImplementsHandshake, Handshake!HandshakeSpec

=============================================================================
