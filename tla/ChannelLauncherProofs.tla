----------------------- MODULE ChannelLauncherProofs ------------------------
(***************************************************************************)
(* Proofs about lnpd's side of an opening, for any set of channels, any    *)
(* faults and both orders of Hello and Keyset: lnpd files each channel's   *)
(* launcher once, where the next message of its state looks for it; and    *)
(* lnpd, signd, routed and watchd pass on the one baton of each channel,   *)
(* as ChannelBatonProofs then shows of the channel daemons.                *)
(***************************************************************************)
EXTENDS ChannelOpeningProofs

TempStates == {"NONE", "INIT", "LAUNCHING", "DERIVING", "NEGOTIATING"}
PermStates == {"NONE", "COMMITTING"}
TxidStates == {"NONE", "SIGNING"}

(* The three places a launcher may be filed in, before and after the request *)
(* for its channel.                                                          *)
FiledOnce(c) ==
    /\ creating_channels[Temp(c)] \in TempStates
    /\ creating_channels[Perm(c)] \in PermStates
    /\ funding_channels[c] \in TxidStates
    /\ creating_channels[Temp(c)] # "NONE" =>
           creating_channels[Perm(c)] = "NONE" /\ funding_channels[c] = "NONE"
    /\ creating_channels[Perm(c)] # "NONE" => funding_channels[c] = "NONE"
    /\ c \notin requested =>
           /\ creating_channels[Temp(c)] = "NONE"
           /\ creating_channels[Perm(c)] = "NONE"
           /\ funding_channels[c] = "NONE"

FilingInv == \A c \in Chan : FiledOnce(c)

-----------------------------------------------------------------------------
(* What ChannelLauncher::next makes of each place.                           *)
LEMMA LauncherMoves ==
    /\ \A s \in TempStates : \A event \in {"Hello", "Keyset"} :
           /\ Filed(LauncherNext(s, event)) \in TempStates
           /\ s = "NONE" => Filed(LauncherNext(s, event)) = "NONE"
    /\ \A s \in PermStates :
           /\ Filed(LauncherNext(s, "Hello")) \in PermStates
           /\ s = "NONE" => Filed(LauncherNext(s, "Hello")) = "NONE"
    /\ \A s : LauncherNext(s, "ConstructFunding") = "COMMITTING" =>
                  s = "NEGOTIATING"
    /\ \A s : LauncherNext(s, "PublishFunding") = "SIGNING" => s = "COMMITTING"
<1>1. ASSUME NEW s \in TempStates
      PROVE  /\ Filed(LauncherNext(s, "Hello")) \in TempStates
             /\ s = "NONE" => Filed(LauncherNext(s, "Hello")) = "NONE"
  BY <1>1, ZenonT(30) DEF TempStates, LauncherNext, Filed, LauncherStates
<1>2. ASSUME NEW s \in TempStates
      PROVE  /\ Filed(LauncherNext(s, "Keyset")) \in TempStates
             /\ s = "NONE" => Filed(LauncherNext(s, "Keyset")) = "NONE"
  BY <1>2, ZenonT(30) DEF TempStates, LauncherNext, Filed, LauncherStates
<1>3. ASSUME NEW s \in PermStates
      PROVE  /\ Filed(LauncherNext(s, "Hello")) \in PermStates
             /\ s = "NONE" => Filed(LauncherNext(s, "Hello")) = "NONE"
  BY <1>3, ZenonT(30) DEF PermStates, LauncherNext, Filed, LauncherStates
<1>4. ASSUME NEW s, LauncherNext(s, "ConstructFunding") = "COMMITTING"
      PROVE  s = "NEGOTIATING"
  BY <1>4, ZenonT(30) DEF LauncherNext
<1>5. ASSUME NEW s, LauncherNext(s, "PublishFunding") = "SIGNING"
      PROVE  s = "COMMITTING"
  BY <1>5, ZenonT(30) DEF LauncherNext
<1> QED
  BY Zenon, <1>1, <1>2, <1>3, <1>4, <1>5

(* A step that leaves the records of the other channels alone.               *)
LEMMA FilingFrame ==
    ASSUME FilingInv, NEW c \in Chan,
           \A d \in Chan \ {c} :
               /\ creating_channels'[Temp(d)] = creating_channels[Temp(d)]
               /\ creating_channels'[Perm(d)] = creating_channels[Perm(d)]
               /\ funding_channels'[d] = funding_channels[d]
               /\ d \in requested => d \in requested',
           FiledOnce(c)'
    PROVE  FilingInv'
<1> SUFFICES ASSUME NEW d \in Chan \ {c} PROVE FiledOnce(d)'
  BY Zenon DEF FilingInv
<1>1. FiledOnce(d)
  BY Zenon DEF FilingInv
<1> QED
  BY Zenon, <1>1 DEF FiledOnce, Temp, Perm

(* One launcher is filed anew, or dropped, under an id of its channel.       *)
LEMMA RefileTemp ==
    ASSUME TypeOK, FilingInv, NEW c \in Chan, NEW s \in TempStates,
           creating_channels' = [creating_channels EXCEPT ![Temp(c)] = s],
           UNCHANGED funding_channels,
           \/ requested' = requested
              /\ (s # "NONE" => creating_channels[Temp(c)] # "NONE")
           \/ requested' = requested \cup {c} /\ c \notin requested
    PROVE  FilingInv'
<1>1. creating_channels \in [ChannelIds -> LauncherStates] /\ FiledOnce(c)
  BY Zenon DEF TypeOK, LnpdTypeOK, FilingInv
<1>2. /\ creating_channels'[Temp(c)] = s
      /\ creating_channels'[Perm(c)] = creating_channels[Perm(c)]
      /\ \A d \in Chan \ {c} :
            /\ creating_channels'[Temp(d)] = creating_channels[Temp(d)]
            /\ creating_channels'[Perm(d)] = creating_channels[Perm(d)]
  BY Zenon, <1>1, IdsDiffer
<1>3. FiledOnce(c)'
  BY Zenon, <1>1, <1>2 DEF FiledOnce, Temp, Perm
<1> QED
  BY Zenon, <1>2, <1>3, FilingFrame

LEMMA RefilePerm ==
    ASSUME TypeOK, FilingInv, NEW c \in Chan, NEW s \in PermStates,
           creating_channels' = [creating_channels EXCEPT ![Perm(c)] = s],
           UNCHANGED <<funding_channels, requested>>,
           s # "NONE" => creating_channels[Perm(c)] # "NONE"
    PROVE  FilingInv'
<1>1. creating_channels \in [ChannelIds -> LauncherStates] /\ FiledOnce(c)
  BY Zenon DEF TypeOK, LnpdTypeOK, FilingInv
<1>2. /\ creating_channels'[Perm(c)] = s
      /\ creating_channels'[Temp(c)] = creating_channels[Temp(c)]
      /\ \A d \in Chan \ {c} :
            /\ creating_channels'[Temp(d)] = creating_channels[Temp(d)]
            /\ creating_channels'[Perm(d)] = creating_channels[Perm(d)]
  BY Zenon, <1>1, IdsDiffer
<1>3. FiledOnce(c)'
  BY Zenon, <1>1, <1>2 DEF FiledOnce, Temp, Perm
<1> QED
  BY Zenon, <1>2, <1>3, FilingFrame

LEMMA SameFiles ==
    ASSUME FilingInv,
           UNCHANGED <<creating_channels, funding_channels, requested>>
    PROVE  FilingInv'
BY Zenon DEF FilingInv, FiledOnce, Temp, Perm

(* A failing launcher is dropped from the id its message came from.          *)
LEMMA DropLauncher ==
    ASSUME TypeOK, FilingInv, NEW c \in Chan, NEW id \in {Temp(c), Perm(c)},
           creating_channels' = [creating_channels EXCEPT ![id] = "NONE"],
           UNCHANGED <<funding_channels, requested>>
    PROVE  FilingInv'
<1>1. CASE id = Temp(c)
  BY Zenon, <1>1, RefileTemp DEF TempStates
<1>2. CASE id = Perm(c)
  BY Zenon, <1>2, RefilePerm DEF PermStates
<1> QED
  BY Zenon, <1>1, <1>2

-----------------------------------------------------------------------------
(* The handlers of lnpd.                                                     *)
LEMMA PanicFiles ==
    ASSUME FilingInv, NEW m, Panic(m)
    PROVE  FilingInv'
BY Zenon, SameFiles DEF Panic

LEMMA HelloFiles ==
    ASSUME IInv, FilingInv, NEW m \in ctl, HandleHello(m)
    PROVE  FilingInv'
<1> DEFINE s == Filed(LauncherNext(creating_channels[m.src], "Hello"))
<1>1. /\ creating_channels' = [creating_channels EXCEPT ![m.src] = s]
      /\ UNCHANGED <<funding_channels, requested>> /\ m.type = "Hello"
  BY Zenon DEF HandleHello, Receive
<1>2. /\ TypeOK /\ m.chan \in Chan /\ FiledOnce(m.chan)
      /\ m.src \in {Temp(m.chan), Perm(m.chan)}
  BY Zenon, <1>1, CtlFacts DEF IInv, CtlOK, FilingInv
<1>3. CASE m.src = Temp(m.chan)
  <2>1. s \in TempStates /\ (s # "NONE" => creating_channels[m.src] # "NONE")
    BY Zenon, <1>2, <1>3, LauncherMoves DEF FiledOnce
  <2> HIDE DEF s
  <2> QED
    BY Zenon, <1>1, <1>2, <1>3, <2>1, RefileTemp
<1>4. CASE m.src = Perm(m.chan)
  <2>1. s \in PermStates /\ (s # "NONE" => creating_channels[m.src] # "NONE")
    BY Zenon, <1>2, <1>4, LauncherMoves DEF FiledOnce
  <2> HIDE DEF s
  <2> QED
    BY Zenon, <1>1, <1>2, <1>4, <2>1, RefilePerm
<1> QED
  BY Zenon, <1>2, <1>3, <1>4

LEMMA KeysetFiles ==
    ASSUME IInv, FilingInv, NEW m \in ctl, HandleKeyset(m)
    PROVE  FilingInv'
<1> DEFINE s == Filed(LauncherNext(creating_channels[Temp(m.chan)], "Keyset"))
<1>1. TypeOK /\ m.chan \in Chan /\ FiledOnce(m.chan)
  BY Zenon, CtlFacts DEF IInv, FilingInv
<1>2. CASE Panic(m)
  BY Zenon, <1>2, PanicFiles
<1>3. CASE ~Panic(m)
  <2>1. /\ creating_channels' = [creating_channels EXCEPT ![Temp(m.chan)] = s]
        /\ UNCHANGED <<funding_channels, requested>>
        /\ creating_channels[Temp(m.chan)] # "NONE"
    BY Zenon, <1>3 DEF HandleKeyset
  <2>2. s \in TempStates
    BY Zenon, <1>1, LauncherMoves DEF FiledOnce
  <2> HIDE DEF s
  <2> QED
    BY Zenon, <1>1, <2>1, <2>2, RefileTemp
<1> QED
  BY Zenon, <1>2, <1>3

(* The launcher moves to the permanent id, where there was none.             *)
LEMMA ConstructFundingFiles ==
    ASSUME IInv, FilingInv, NEW m \in ctl, HandleConstructFunding(m)
    PROVE  FilingInv'
<1> DEFINE c == m.chan
<1>1. m.type = "ConstructFunding"
  BY Zenon DEF HandleConstructFunding, Receive
<1>2. /\ TypeOK /\ c \in Chan /\ FiledOnce(c)
      /\ m.src \in {Temp(c), Perm(c)}
  BY Zenon, <1>1, CtlFacts DEF IInv, CtlOK, FilingInv
<1>3. CASE Panic(m)
  BY Zenon, <1>3, PanicFiles
<1>4. CASE LauncherFails(m) /\ UNCHANGED <<funding_channels, requested>>
  BY Zenon, <1>2, <1>4, DropLauncher DEF LauncherFails
<1>5. CASE /\ FundingIsConstructed(m)
           /\ LauncherNext(creating_channels[m.src], "ConstructFunding")
                  = "COMMITTING"
           /\ UNCHANGED <<funding_channels, requested>>
  <2>1. creating_channels[m.src] = "NEGOTIATING"
    BY Zenon, <1>5, LauncherMoves
  <2>2. m.src = Temp(c)
    BY Zenon, <1>2, <2>1 DEF FiledOnce, PermStates
  <2>3. creating_channels \in [ChannelIds -> LauncherStates]
    BY Zenon, <1>2 DEF TypeOK, LnpdTypeOK
  <2>4. creating_channels' = [creating_channels EXCEPT
                                 ![Temp(c)] = "NONE", ![Perm(c)] = "COMMITTING"]
    BY Zenon, <1>5, <2>2 DEF FundingIsConstructed
  <2>5. /\ creating_channels'[Temp(c)] = "NONE"
        /\ creating_channels'[Perm(c)] = "COMMITTING"
        /\ \A d \in Chan \ {c} :
              /\ creating_channels'[Temp(d)] = creating_channels[Temp(d)]
              /\ creating_channels'[Perm(d)] = creating_channels[Perm(d)]
    BY Zenon, <1>2, <2>3, <2>4, IdsDiffer
  <2>6. funding_channels[c] = "NONE" /\ c \in requested
    BY Zenon, <1>2, <2>1, <2>2 DEF FiledOnce
  <2>7. FiledOnce(c)'
    BY Zenon, <1>2, <1>5, <2>5, <2>6
       DEF FiledOnce, Temp, Perm, TempStates, PermStates, TxidStates
  <2> QED
    BY Zenon, <1>2, <1>5, <2>5, <2>7, FilingFrame
<1> QED
  BY Zenon, <1>3, <1>4, <1>5 DEF HandleConstructFunding

(* The launcher moves to the funding txid, where there was none.             *)
LEMMA PublishFundingFiles ==
    ASSUME IInv, FilingInv, NEW m \in ctl, HandlePublishFunding(m)
    PROVE  FilingInv'
<1> DEFINE c == m.chan
<1>1. m.type = "PublishFunding"
  BY Zenon DEF HandlePublishFunding, Receive
<1>2. TypeOK /\ c \in Chan /\ FiledOnce(c) /\ m.src = Perm(c)
  BY Zenon, <1>1, CtlFacts DEF IInv, CtlOK, FilingInv
<1>3. CASE Panic(m)
  BY Zenon, <1>3, PanicFiles
<1>4. CASE LauncherFails(m) /\ UNCHANGED <<funding_channels, requested>>
  BY Zenon, <1>2, <1>4, DropLauncher DEF LauncherFails
<1>5. CASE /\ creating_channels' = [creating_channels EXCEPT ![m.src] = "NONE"]
           /\ funding_channels' = [funding_channels EXCEPT ![c] = "SIGNING"]
           /\ creating_channels[m.src] # "NONE" /\ UNCHANGED requested
  <2>1. /\ creating_channels \in [ChannelIds -> LauncherStates]
        /\ funding_channels \in [Chan -> LauncherStates]
    BY Zenon, <1>2 DEF TypeOK, LnpdTypeOK
  <2>2. /\ creating_channels'[Perm(c)] = "NONE"
        /\ creating_channels'[Temp(c)] = creating_channels[Temp(c)]
        /\ \A d \in Chan \ {c} :
              /\ creating_channels'[Temp(d)] = creating_channels[Temp(d)]
              /\ creating_channels'[Perm(d)] = creating_channels[Perm(d)]
    BY Zenon, <1>2, <1>5, <2>1, IdsDiffer
  <2>3. /\ funding_channels'[c] = "SIGNING"
        /\ \A d \in Chan \ {c} : funding_channels'[d] = funding_channels[d]
    BY Zenon, <1>2, <1>5, <2>1
  <2>4. creating_channels[Temp(c)] = "NONE" /\ c \in requested
    BY Zenon, <1>2, <1>5 DEF FiledOnce
  <2>5. FiledOnce(c)'
    BY Zenon, <1>5, <2>2, <2>3, <2>4
       DEF FiledOnce, Temp, Perm, TempStates, PermStates, TxidStates
  <2> QED
    BY Zenon, <1>2, <1>5, <2>2, <2>3, <2>5, FilingFrame
<1> QED
  BY Zenon, <1>3, <1>4, <1>5 DEF HandlePublishFunding

LEMMA SignedFiles ==
    ASSUME IInv, FilingInv, NEW m \in ctl, HandleSigned(m)
    PROVE  FilingInv'
<1> DEFINE c == m.chan
<1>1. c \in Chan /\ FiledOnce(c) /\ TypeOK
  BY Zenon, CtlFacts DEF IInv, FilingInv
<1>2. CASE Panic(m)
  BY Zenon, <1>2, PanicFiles
<1>3. CASE ~Panic(m)
  <2>1. /\ funding_channels' = [funding_channels EXCEPT ![c] = "NONE"]
        /\ UNCHANGED <<creating_channels, requested>>
    BY Zenon, <1>3 DEF HandleSigned
  <2>2. /\ funding_channels'[c] = "NONE"
        /\ \A d \in Chan \ {c} : funding_channels'[d] = funding_channels[d]
    BY Zenon, <1>1, <2>1 DEF TypeOK, LnpdTypeOK
  <2>3. FiledOnce(c)'
    BY Zenon, <1>1, <2>1, <2>2 DEF FiledOnce, Temp, Perm, TxidStates
  <2> QED
    BY Zenon, <1>1, <2>1, <2>2, <2>3, FilingFrame
<1> QED
  BY Zenon, <1>2, <1>3

(* A client's request files a launcher where there is none for its channel.  *)
LEMMA CreateChannelFiles ==
    ASSUME IInv, FilingInv, NEW c \in Chan, CreateChannel(c)
    PROVE  FilingInv'
<1>1. /\ TypeOK /\ FiledOnce(c) /\ c \notin requested
      /\ requested' = requested \cup {c} /\ UNCHANGED funding_channels
  BY Zenon DEF CreateChannel, IInv, FilingInv
<1>2. CASE creating_channels' = [creating_channels EXCEPT ![Temp(c)] = "INIT"]
  BY Zenon, <1>1, <1>2, RefileTemp DEF TempStates
<1>3. CASE UNCHANGED creating_channels
  BY Zenon, <1>1, <1>3 DEF FilingInv, FiledOnce, Temp, Perm
<1> QED
  BY Zenon, <1>2, <1>3 DEF CreateChannel, CreateChannelLaunches

LEMMA FilingNext ==
    ASSUME IInv, FilingInv, [Next]_vars
    PROVE  FilingInv'
<1>1. ASSUME NEW c \in Chan, ClientCreatesChannel(c) PROVE FilingInv'
  BY Zenon, <1>1, CreateChannelFiles DEF ClientCreatesChannel
<1>2. ASSUME NEW m \in ctl, LnpdHandles(m) PROVE FilingInv'
  BY Zenon, <1>2, HelloFiles, KeysetFiles, ConstructFundingFiles,
     PublishFundingFiles,
     SignedFiles, PanicFiles, SameFiles
     DEF LnpdHandles, HandleCtl, HandleError, HandleReport
<1>3. CASE UNCHANGED <<creating_channels, funding_channels, requested>>
  BY Zenon, <1>3, SameFiles
<1> QED
  BY Zenon, <1>1, <1>2, <1>3
     DEF Next, vars, lnpdVars, othersThanAcceptor, SigndHandles,
         ChanneldStarts, ProposerHandles, RoutedHandles, WatchdTracks,
         WatchdFinds, Mine, AcceptorHandles, AcceptorSigndHandles

LEMMA FilingInit == Init => FilingInv
BY Zenon, IdsDiffer
   DEF Init, LnpdInit, FilingInv, FiledOnce, TempStates, PermStates,
       TxidStates

(* Each channel has at most one launcher in lnpd, under its temporary id     *)
(* until complete_negotiation, then under its permanent id, and from         *)
(* complete_commitment under the funding txid, whatever fails and however    *)
(* many channels are opened at once.                                         *)
THEOREM LaunchersAreFiledOnce == Spec => []LauncherIsFiledOnce
<1>1. FilingInv => LauncherIsFiledOnce
  BY Zenon DEF FilingInv, FiledOnce, LauncherIsFiledOnce, TempStates,
     PermStates,
         TxidStates
<1> QED
  BY <1>1, FilingInit, FilingNext, Invariance, PTL DEF Spec

-----------------------------------------------------------------------------
(* The baton of an opening.                                                  *)

(* The shape of each message: type, sender and receiver determine it.        *)
CtlForm(m) ==
    /\ m.type = "Hello" => m.dst = LnpBroker
    /\ m.type = "DeriveKeyset" => m.src = LnpBroker /\ m.dst = Signer
    /\ m.type = "Keyset" => m.src = Signer /\ m.dst = LnpBroker
    /\ m.type = "OpenChannelWith" =>
           m.src = LnpBroker /\ m.dst \in {Temp(m.chan), Signer}
    /\ m.type = "ConstructFunding" => m.src = Temp(m.chan) /\ m.dst = LnpBroker
    /\ m.type = "FundingConstructed" => m.src = LnpBroker /\ m.dst = Temp(m.chan)
    /\ m.type = "Sign" => m.src \in {Temp(m.chan), LnpBroker}
    /\ m.type = "Signed" => m.dst \in {Temp(m.chan), LnpBroker}
    /\ m.type = "Track" => m.src = Perm(m.chan) /\ m.dst = Watch
    /\ m.type = "TxFound" => m.src = Watch /\ m.dst = Perm(m.chan)
    /\ m.type = "Error" => m.src = Signer
    /\ m.type = "EsbError" => m.src = LnpBroker
    /\ m.type = "Report" => m.src \in ChannelIds /\ m.dst = LnpBroker
    /\ m.dst = Signer => m.type \in {"DeriveKeyset", "Sign", "OpenChannelWith"}

ActlForm(m) ==
    /\ m.type \in {"Hello", "AcceptChannelFrom", "DeriveKeyset", "Keyset",
                   "ChannelUpdate", "ChannelCreated"}
    /\ m.type = "Hello" =>
           \/ m.src = Temp(m.chan) /\ m.dst = LnpBroker
           \/ m.src = Perm(m.chan) /\ m.dst = Router
           \/ m.src = Router /\ m.dst = Perm(m.chan)
    /\ m.type = "AcceptChannelFrom" => m.src = LnpBroker /\ m.dst = Temp(m.chan)
    /\ m.type = "DeriveKeyset" => m.src = Temp(m.chan) /\ m.dst = Signer
    /\ m.type = "Keyset" => m.src = Signer /\ m.dst = Temp(m.chan)
    /\ m.type = "ChannelUpdate" => m.dst = LnpBroker
    /\ m.type = "ChannelCreated" => m.dst = Router

P2pForm(m) ==
    /\ m.type = "OpenChannel" =>
           m.to = "acceptor" /\ m.id = LnpBroker /\ m.sig = "none"
    /\ m.type = "AcceptChannel" =>
           m.to = "proposer" /\ m.id = Temp(m.chan) /\ m.sig = "none"
    /\ m.type = "FundingCreated" =>
           m.to = "acceptor" /\ m.id = Temp(m.chan) /\ m.sig = "proposer"
    /\ m.type = "FundingSigned" =>
           m.to = "proposer" /\ m.id = Perm(m.chan) /\ m.sig = "proposer"
    /\ m.type = "FundingLocked" => m.id = Perm(m.chan) /\ m.sig = "none"

FormOK ==
    /\ \A m \in ctl : CtlForm(m)
    /\ \A m \in actl : ActlForm(m)
    /\ \A m \in p2p : P2pForm(m)
    /\ \A t \in tracking : t[1] = Perm(t[2])

(* No failure of the opening has been told, or is about to be.               *)
Clean(c) ==
    /\ "failure" \notin told[c]
    /\ \A id \in {Temp(c), Perm(c)} :
           /\ CtlMsg("Report", id, LnpBroker, c) \notin ctl
           /\ CtlMsg("EsbError", LnpBroker, id, c) \notin ctl
           /\ CtlMsg("Error", Signer, id, c) \notin ctl

(* Batons: what is under way for a channel, in the order of the opening.     *)
KeysAsked(c) == CtlMsg("DeriveKeyset", LnpBroker, Signer, c) \in ctl
KeysSent(c) == CtlMsg("Keyset", Signer, LnpBroker, c) \in ctl
Greeted(c) == CtlMsg("Hello", Temp(c), LnpBroker, c) \in ctl
ToldToOpen(c) == CtlMsg("OpenChannelWith", LnpBroker, Temp(c), c) \in ctl
Offered(c) == P2pMsg("OpenChannel", "acceptor", LnpBroker, c, "none") \in p2p
PeerGreeted(c) == CtlMsg("Hello", Temp(c), LnpBroker, c) \in actl
ToldToAccept(c) == CtlMsg("AcceptChannelFrom", LnpBroker, Temp(c), c) \in actl
PeerKeysAsked(c) == CtlMsg("DeriveKeyset", Temp(c), Signer, c) \in actl
PeerKeysSent(c) == CtlMsg("Keyset", Signer, Temp(c), c) \in actl
OfferTaken(c) == P2pMsg("AcceptChannel", "proposer", Temp(c), c, "none") \in p2p
FundingAsked(c) == CtlMsg("ConstructFunding", Temp(c), LnpBroker, c) \in ctl
FundingSent(c) == CtlMsg("FundingConstructed", LnpBroker, Temp(c), c) \in ctl
RefundAsked(c) == CtlMsg("Sign", Temp(c), Signer, c) \in ctl
RefundSigned(c) == CtlMsg("Signed", Signer, Temp(c), c) \in ctl
SignatureSent(c) ==
    P2pMsg("FundingCreated", "acceptor", Temp(c), c, "proposer") \in p2p
SignatureTaken(c) ==
    P2pMsg("FundingSigned", "proposer", Perm(c), c, "proposer") \in p2p
TrackAsked(c) == CtlMsg("Track", Perm(c), Watch, c) \in ctl
Tracked(c) == <<Perm(c), c>> \in tracking
TxSeen(c) == CtlMsg("TxFound", Watch, Perm(c), c) \in ctl
LockSent(c) == P2pMsg("FundingLocked", "acceptor", Perm(c), c, "none") \in p2p
RouterGreeted(c) == CtlMsg("Hello", Perm(c), Router, c) \in actl
RouterEchoed(c) == CtlMsg("Hello", Router, Perm(c), c) \in actl
LockTaken(c) == P2pMsg("FundingLocked", "proposer", Perm(c), c, "none") \in p2p

(* The launch: keys and daemon come in any order.                            *)
LaunchOK(c) ==
    LET launcher == creating_channels[Temp(c)]
    IN  /\ KeysAsked(c) => ~KeysSent(c)
        /\ KeysAsked(c) \/ KeysSent(c) => launcher \in {"INIT", "DERIVING"}
        /\ c \in spawned => ~Greeted(c)
        /\ c \in spawned \/ Greeted(c) =>
               /\ proposal[c] = "LAUNCH"
               /\ launcher \in {"NONE", "INIT", "LAUNCHING"}
               /\ launcher # "NONE" => Clean(c)
        /\ ToldToOpen(c) =>
               proposal[c] = "LAUNCH" /\ launcher = "NEGOTIATING" /\ Clean(c)
        /\ c \notin requested =>
               /\ proposal[c] = "LAUNCH" /\ Clean(c)
               /\ c \notin spawned /\ ~Greeted(c)

(* The offer, at the accepting node.                                         *)
OfferOK(c) ==
    /\ proposal[c] = "LAUNCH" => acceptance[c] = "LAUNCH"
    /\ proposal[c] = "PROPOSED" => creating_channels[Temp(c)] = "NEGOTIATING"
    /\ Offered(c) => c \notin aspawned /\ ~PeerGreeted(c) /\ ~ToldToAccept(c)
    /\ c \in aspawned => ~PeerGreeted(c) /\ ~ToldToAccept(c)
    /\ PeerGreeted(c) => ~ToldToAccept(c)
    /\ Offered(c) \/ c \in aspawned \/ PeerGreeted(c) \/ ToldToAccept(c) =>
           proposal[c] = "PROPOSED" /\ acceptance[c] = "LAUNCH" /\ Clean(c)
    /\ PeerKeysAsked(c) => ~PeerKeysSent(c)
    /\ PeerKeysAsked(c) \/ PeerKeysSent(c) =>
           proposal[c] = "PROPOSED" /\ acceptance[c] = "ACCEPTED" /\ Clean(c)
    /\ OfferTaken(c) =>
           proposal[c] = "PROPOSED" /\ acceptance[c] = "SIGNED" /\ Clean(c)

(* The funding.                                                              *)
FundOK(c) ==
    /\ proposal[c] \in {"LAUNCH", "PROPOSED", "ACCEPTED", "SIGNING"} =>
           /\ identity[c] = Temp(c) /\ aidentity[c] = Temp(c)
           /\ acceptance[c] \in {"LAUNCH", "ACCEPTED", "SIGNED"}
    /\ proposal[c] \in {"ACCEPTED", "SIGNING"} => acceptance[c] = "SIGNED"
    /\ proposal[c] = "FUNDING" => acceptance[c] \in {"SIGNED", "FUNDED"}
    /\ FundingAsked(c) =>
           /\ proposal[c] = "ACCEPTED" /\ Clean(c)
           /\ creating_channels[Temp(c)] = "NEGOTIATING"
    /\ FundingSent(c) => proposal[c] = "ACCEPTED" /\ Clean(c)
    /\ RefundAsked(c) => ~RefundSigned(c)
    /\ RefundAsked(c) \/ RefundSigned(c) => proposal[c] = "SIGNING" /\ Clean(c)
    /\ SignatureSent(c) =>
           /\ proposal[c] = "FUNDING" /\ acceptance[c] = "SIGNED"
           /\ aidentity[c] = Temp(c) /\ Clean(c)
    /\ SignatureTaken(c) =>
           proposal[c] = "FUNDING" /\ acceptance[c] = "FUNDED" /\ Clean(c)
    /\ (FundingSent(c) \/ proposal[c] \in {"SIGNING", "FUNDING"} \/ AskedToPublish(c)) =>
           creating_channels[Perm(c)] = "COMMITTING" /\ c \in pending_fundings
    /\ AskedToSign(c) \/ FundingSignedBySignd(c) =>
           funding_channels[c] = "SIGNING"

(* The lock.                                                                 *)
LockOK(c) ==
    /\ proposal[c] = "PUBLISHED" => acceptance[c] = "FUNDED"
    /\ TrackAsked(c) => ~Tracked(c) /\ ~TxSeen(c)
    /\ Tracked(c) => ~TxSeen(c)
    /\ TrackAsked(c) \/ Tracked(c) \/ TxSeen(c) => proposal[c] = "PUBLISHED"
    /\ LockSent(c) => proposal[c] = "LOCKED" /\ acceptance[c] = "FUNDED"
    /\ RouterGreeted(c) => ~RouterEchoed(c)
    /\ RouterGreeted(c) \/ RouterEchoed(c) => acceptance[c] = "LOCKED"
    /\ LockTaken(c) => proposal[c] = "LOCKED" /\ acceptance[c] = "ACTIVE"

BatonOK(c) == LaunchOK(c) /\ OfferOK(c) /\ FundOK(c) /\ LockOK(c)

BatonInv == FormOK /\ \A c \in Chan : BatonOK(c)

-----------------------------------------------------------------------------
(* Facts about messages and ids.                                             *)

LEMMA CtlFields ==
    \A type, src, dst, c :
        /\ CtlMsg(type, src, dst, c).type = type
        /\ CtlMsg(type, src, dst, c).src = src
        /\ CtlMsg(type, src, dst, c).dst = dst
        /\ CtlMsg(type, src, dst, c).chan = c
BY Zenon DEF CtlMsg

LEMMA P2pFields ==
    \A type, to, id, c, sig :
        /\ P2pMsg(type, to, id, c, sig).type = type
        /\ P2pMsg(type, to, id, c, sig).to = to
        /\ P2pMsg(type, to, id, c, sig).id = id
        /\ P2pMsg(type, to, id, c, sig).chan = c
        /\ P2pMsg(type, to, id, c, sig).sig = sig
BY DEF P2pMsg

(* The services that a channel's messages name.                              *)
LEMMA IdsApart ==
    ASSUME NEW c \in Chan
    PROVE  /\ Temp(c) # Perm(c)
           /\ \A s \in {LnpBroker, Signer, Watch, Router} :
                  s # Temp(c) /\ s # Perm(c) /\ s \notin ChannelIds
           /\ Temp(c) \in ChannelIds /\ Perm(c) \in ChannelIds
           /\ LnpBroker # Signer /\ LnpBroker # Watch /\ LnpBroker # Router
           /\ Signer # Watch /\ Signer # Router /\ Watch # Router
BY IdsDiffer, ServicesAreNoChannels

(* What ChannelLauncher::next makes of the states a message may find.        *)
LEMMA LauncherSteps ==
    /\ LauncherNext("NONE", "Hello") = "FAILED"
    /\ LauncherNext("INIT", "Hello") = "DERIVING"
    /\ LauncherNext("LAUNCHING", "Hello") = "NEGOTIATING"
    /\ LauncherNext("COMMITTING", "Hello") = "COMMITTING"
    /\ LauncherNext("INIT", "Keyset") = "LAUNCHING"
    /\ LauncherNext("DERIVING", "Keyset") = "NEGOTIATING"
    /\ LauncherNext("NEGOTIATING", "ConstructFunding") = "COMMITTING"
    /\ LauncherNext("COMMITTING", "PublishFunding") = "SIGNING"
    /\ Filed("FAILED") = "NONE" /\ Filed("DERIVING") = "DERIVING"
    /\ Filed("NEGOTIATING") = "NEGOTIATING" /\ Filed("LAUNCHING") = "LAUNCHING"
    /\ Filed("COMMITTING") = "COMMITTING"
<1>1. /\ LauncherNext("NONE", "Hello") = "FAILED"
      /\ LauncherNext("INIT", "Hello") = "DERIVING"
      /\ LauncherNext("LAUNCHING", "Hello") = "NEGOTIATING"
      /\ LauncherNext("COMMITTING", "Hello") = "COMMITTING"
  BY ZenonT(30) DEF LauncherNext
<1>2. /\ LauncherNext("INIT", "Keyset") = "LAUNCHING"
      /\ LauncherNext("DERIVING", "Keyset") = "NEGOTIATING"
      /\ LauncherNext("NEGOTIATING", "ConstructFunding") = "COMMITTING"
      /\ LauncherNext("COMMITTING", "PublishFunding") = "SIGNING"
  BY ZenonT(30) DEF LauncherNext
<1>3. /\ Filed("FAILED") = "NONE" /\ Filed("DERIVING") = "DERIVING"
      /\ Filed("NEGOTIATING") = "NEGOTIATING" /\ Filed("LAUNCHING") = "LAUNCHING"
      /\ Filed("COMMITTING") = "COMMITTING"
  BY ZenonT(30) DEF Filed, LauncherStates
<1> QED
  BY Zenon, <1>1, <1>2, <1>3

-----------------------------------------------------------------------------
(* Frames.                                                                   *)

(* A step that takes messages of channel c and of types T from a bus, and    *)
(* puts such messages on it, leaves the others there.                        *)
LEMMA CtlMoved ==
    ASSUME NEW c, NEW T, NEW old, NEW new, ctl' = (ctl \ old) \cup new,
           \A x \in old \cup new : x.chan = c /\ x.type \in T
    PROVE  \A t, s, r, d :
               (t \notin T \/ d # c) =>
                   (CtlMsg(t, s, r, d) \in ctl' <=> CtlMsg(t, s, r, d) \in ctl)
BY CtlFields

LEMMA CtlTaken ==
    ASSUME NEW m, ctl' = ctl \ {m}
    PROVE  \A t, s, r, d :
               (t # m.type \/ d # m.chan) =>
                   (CtlMsg(t, s, r, d) \in ctl' <=> CtlMsg(t, s, r, d) \in ctl)
BY CtlFields

LEMMA ActlMoved ==
    ASSUME NEW c, NEW T, NEW old, NEW new, actl' = (actl \ old) \cup new,
           \A x \in old \cup new : x.chan = c /\ x.type \in T
    PROVE  \A t, s, r, d :
               (t \notin T \/ d # c) =>
                   (CtlMsg(t, s, r, d) \in actl' <=> CtlMsg(t, s, r, d) \in actl)
BY CtlFields

LEMMA P2pMoved ==
    ASSUME NEW c, NEW T, NEW old, NEW new, p2p' = (p2p \ old) \cup new,
           \A x \in old \cup new : x.chan = c /\ x.type \in T
    PROVE  \A t, to, id, d, sig :
               (t \notin T \/ d # c) =>
                   (P2pMsg(t, to, id, d, sig) \in p2p'
                        <=> P2pMsg(t, to, id, d, sig) \in p2p)
BY P2pFields

(* Nothing that the invariant mentions of channel d has changed; it does not *)
(* mention the second Hello of channeld, what lnpd says to signd by mistake, *)
(* an error about a request of lnpd, and what routed and the registry get.   *)
SameCtl(d) ==
    \A t, s, r :
        /\ t # "ChannelCreated"
        /\ t = "Hello" => s = Temp(d)
        /\ t = "OpenChannelWith" => r = Temp(d)
        /\ t = "Error" => r \in {Temp(d), Perm(d)}
        => (CtlMsg(t, s, r, d) \in ctl' <=> CtlMsg(t, s, r, d) \in ctl)
SameActl(d) ==
    \A t, s, r :
        t \notin {"ChannelUpdate", "ChannelCreated"} =>
            (CtlMsg(t, s, r, d) \in actl' <=> CtlMsg(t, s, r, d) \in actl)
SameP2p(d) ==
    \A t, to, id, sig :
        P2pMsg(t, to, id, d, sig) \in p2p' <=> P2pMsg(t, to, id, d, sig) \in p2p

SameLnpd(d) ==
    /\ told'[d] = told[d]
    /\ creating_channels'[Temp(d)] = creating_channels[Temp(d)]
    /\ creating_channels'[Perm(d)] = creating_channels[Perm(d)]
    /\ funding_channels'[d] = funding_channels[d]
    /\ d \in requested' <=> d \in requested
    /\ d \in spawned' <=> d \in spawned
    /\ d \in pending_fundings' <=> d \in pending_fundings

SameChanneld(d) ==
    /\ proposal'[d] = proposal[d] /\ identity'[d] = identity[d]
    /\ <<Perm(d), d>> \in tracking' <=> <<Perm(d), d>> \in tracking

SamePeer(d) ==
    /\ acceptance'[d] = acceptance[d] /\ aidentity'[d] = aidentity[d]
    /\ d \in aspawned' <=> d \in aspawned

(* What the invariant says of a channel depends on that channel alone.       *)
LEMMA OtherChannel ==
    ASSUME NEW d \in Chan, BatonOK(d), SameCtl(d), SameActl(d), SameP2p(d),
           SameLnpd(d), SameChanneld(d), SamePeer(d)
    PROVE  BatonOK(d)'
<1>1. Clean(d)' <=> Clean(d)
  BY Zenon DEF Clean, SameCtl, SameLnpd
<1>2. LaunchOK(d)'
  BY Zenon, <1>1 DEF BatonOK, LaunchOK, KeysAsked, KeysSent, Greeted,
     ToldToOpen,
     SameCtl, SameLnpd, SameChanneld
<1>3. OfferOK(d)'
  BY Zenon, <1>1 DEF BatonOK, OfferOK, Offered, PeerGreeted, ToldToAccept,
     PeerKeysAsked, PeerKeysSent, OfferTaken, SameActl, SameP2p, SameLnpd,
     SameChanneld, SamePeer
<1>4. FundOK(d)'
  BY Zenon, <1>1 DEF BatonOK, FundOK, FundingAsked, FundingSent, RefundAsked,
     RefundSigned, SignatureSent, SignatureTaken, AskedToPublish, AskedToSign,
     FundingSignedBySignd, SameCtl, SameP2p, SameLnpd, SameChanneld, SamePeer
<1>5. LockOK(d)'
  BY Zenon DEF BatonOK, LockOK, TrackAsked, Tracked, TxSeen, LockSent,
     RouterGreeted,
     RouterEchoed, LockTaken, SameCtl, SameActl, SameP2p, SameChanneld, SamePeer
<1> QED
  BY Zenon, <1>2, <1>3, <1>4, <1>5 DEF BatonOK

(* A step about channel c that leaves the other channels alone.              *)
LEMMA ChannelMove ==
    ASSUME BatonInv, NEW c \in Chan,
           \A d \in Chan \ {c} :
               /\ SameCtl(d) /\ SameActl(d) /\ SameP2p(d)
               /\ SameLnpd(d) /\ SameChanneld(d) /\ SamePeer(d),
           FormOK', BatonOK(c)'
    PROVE  BatonInv'
BY Zenon, OtherChannel DEF BatonInv

(* Such a step of lnpd: it takes messages of c from the bus and puts some on *)
(* it.                                                                       *)
LEMMA LnpdMove ==
    ASSUME BatonInv, NEW c \in Chan, NEW T, NEW old, NEW new,
           ctl' = (ctl \ old) \cup new,
           \A x \in old \cup new : x.chan = c /\ x.type \in T,
           \A x \in new : CtlForm(x),
           \A d \in Chan \ {c} : SameLnpd(d),
           UNCHANGED <<actl, p2p, othersThanLnpd>>,
           BatonOK(c)'
    PROVE  BatonInv'
<1> USE DEF othersThanLnpd, proposeVars, acceptVars
<1>0. \A t, s, r, d :
          (t \notin T \/ d # c) =>
              (CtlMsg(t, s, r, d) \in ctl' <=> CtlMsg(t, s, r, d) \in ctl)
  BY Zenon, CtlMoved
<1>1. \A d \in Chan \ {c} : SameCtl(d)
  BY Zenon, <1>0 DEF SameCtl
<1>2. \A d \in Chan \ {c} :
          SameActl(d) /\ SameP2p(d) /\ SameChanneld(d) /\ SamePeer(d)
  BY Zenon DEF SameActl, SameP2p, SameChanneld, SamePeer
<1>3. FormOK'
  BY Zenon DEF BatonInv, FormOK, CtlForm, ActlForm, P2pForm
<1> QED
  BY Zenon, <1>1, <1>2, <1>3, ChannelMove

LEMMA LnpdTakes ==
    ASSUME BatonInv, NEW c \in Chan, NEW m, m.chan = c, ctl' = ctl \ {m},
           \A d \in Chan \ {c} : SameLnpd(d),
           UNCHANGED <<actl, p2p, othersThanLnpd>>,
           BatonOK(c)'
    PROVE  BatonInv'
<1>1. PICK T : T = {m.type}
  BY Zenon
<1>2. PICK old : old = {m}
  BY Zenon
<1>3. PICK new : new = {}
  BY Zenon
<1>4. /\ ctl' = (ctl \ old) \cup new
      /\ \A x \in old \cup new : x.chan = c /\ x.type \in T
      /\ \A x \in new : CtlForm(x)
  BY Zenon, <1>1, <1>2, <1>3
<1> QED
  BY Zenon, <1>4, LnpdMove

(* What such a step does to what the invariant says of channel c.            *)
LEMMA LnpdLock ==
    ASSUME NEW c \in Chan, LockOK(c), NEW T,
           \A t, s, r, d :
               (t \notin T \/ d # c) =>
                   (CtlMsg(t, s, r, d) \in ctl' <=> CtlMsg(t, s, r, d) \in ctl),
           "Track" \notin T, "TxFound" \notin T,
           UNCHANGED <<actl, p2p, othersThanLnpd>>
    PROVE  LockOK(c)'
BY Zenon DEF LockOK, TrackAsked, Tracked, TxSeen, LockSent, RouterGreeted,
       RouterEchoed, LockTaken, othersThanLnpd, proposeVars, acceptVars

LEMMA LnpdOffer ==
    ASSUME NEW c \in Chan, OfferOK(c), Clean(c) => Clean(c)',
           creating_channels'[Temp(c)] = creating_channels[Temp(c)]
               \/ proposal[c] # "PROPOSED",
           UNCHANGED <<actl, p2p, othersThanLnpd>>
    PROVE  OfferOK(c)'
BY Zenon DEF OfferOK, Offered, PeerGreeted, ToldToAccept, PeerKeysAsked,
   PeerKeysSent,
       OfferTaken, othersThanLnpd, proposeVars, acceptVars

(* What is known of the message m that lnpd handles, and of its channel.     *)
LEMMA BatonFacts ==
    ASSUME IInv, FilingInv, BatonInv, NEW m \in ctl
    PROVE  /\ m.chan \in Chan /\ CtlOK(m) /\ CtlForm(m)
           /\ m = CtlMsg(m.type, m.src, m.dst, m.chan)
           /\ BatonOK(m.chan) /\ FiledOnce(m.chan)
           /\ LnpdTypeOK
BY Zenon, CtlFacts DEF IInv, TypeOK, BatonInv, FormOK, FilingInv

(* A launcher filed anew for c, under either id, is no other channel's.      *)
LEMMA RefiledAlone ==
    ASSUME LnpdTypeOK, NEW c \in Chan, NEW id \in {Temp(c), Perm(c)}, NEW s,
           creating_channels' = [creating_channels EXCEPT ![id] = s]
    PROVE  /\ creating_channels'[id] = s
           /\ id = Temp(c) =>
                  creating_channels'[Perm(c)] = creating_channels[Perm(c)]
           /\ id = Perm(c) =>
                  creating_channels'[Temp(c)] = creating_channels[Temp(c)]
           /\ \A d \in Chan \ {c} :
                  /\ creating_channels'[Temp(d)] = creating_channels[Temp(d)]
                  /\ creating_channels'[Perm(d)] = creating_channels[Perm(d)]
BY Zenon, IdsDiffer DEF LnpdTypeOK

-----------------------------------------------------------------------------
(* lnpd                                                                      *)

LEMMA HelloBaton ==
    ASSUME IInv, FilingInv, BatonInv, NEW m \in ctl, HandleHello(m),
           UNCHANGED othersThanLnpd
    PROVE  BatonInv'
<1> DEFINE launcher == creating_channels[m.src]
           next == LauncherNext(launcher, "Hello")
           new == OpenChannelWith(next, m.src, m.chan)
           T == {"Hello", "OpenChannelWith"}
<1>1. PICK c \in Chan : c = m.chan
  BY Zenon, BatonFacts
<1>2. /\ m = CtlMsg("Hello", m.src, LnpBroker, c)
      /\ m.src \in {Temp(c), Perm(c)}
      /\ BatonOK(c) /\ FiledOnce(c) /\ LnpdTypeOK
  BY Zenon, <1>1, BatonFacts, IdsDiffer DEF HandleHello, Receive, CtlOK
<1>3. /\ ctl' = (ctl \ {m}) \cup new
      /\ creating_channels' = [creating_channels EXCEPT ![m.src] = Filed(next)]
      /\ TellFailureIf(launcher # "NONE" /\ next = "FAILED", c)
      /\ UNCHANGED <<requested, funding_channels, pending_fundings, spawned,
                     actl, p2p>>
  BY Zenon, <1>1 DEF HandleHello
<1>4. /\ \A x \in {m} \cup new : x.chan = c /\ x.type \in T
      /\ \A x \in new : x = CtlMsg("OpenChannelWith", LnpBroker, m.src, c)
  BY <1>1, <1>2, CtlFields DEF OpenChannelWith
<1>5. CASE m.src = Perm(c)
  <2>1. launcher \in {"NONE", "COMMITTING"}
    BY Zenon, <1>2, <1>5 DEF FiledOnce, PermStates
  <2>2. next \in {"FAILED", "COMMITTING"} /\ Filed(next) = launcher
    BY Zenon, <2>1, LauncherSteps
  <2>3. new = {} /\ told' = told
    BY Zenon, <1>3, <2>1, <2>2, LauncherSteps
       DEF OpenChannelWith, TellFailureIf
  <2>4. creating_channels' = creating_channels
    BY Zenon, <1>2, <1>3, <2>2, IdsDiffer DEF LnpdTypeOK
  <2>5. SameLnpd(c) /\ \A d \in Chan \ {c} : SameLnpd(d)
    BY Zenon, <1>3, <2>3, <2>4 DEF SameLnpd
  <2>6. SameCtl(c)
    BY SMTT(30), <1>2, <1>3, <1>5, <2>3, CtlFields, IdsApart DEF SameCtl
  <2>7. SameActl(c) /\ SameP2p(c) /\ SameChanneld(c) /\ SamePeer(c)
    BY Zenon, <1>3 DEF SameActl, SameP2p, SameChanneld, SamePeer,
       othersThanLnpd,
                proposeVars, acceptVars
  <2>8. BatonOK(c)'
    BY Zenon, <1>2, <2>5, <2>6, <2>7, OtherChannel
  <2> HIDE DEF launcher, next, new, T
  <2> QED
    BY ZenonT(30), <1>3, <1>4, <2>3, <2>5, <2>8, LnpdMove
<1>6. CASE m.src = Temp(c)
  <2>1. /\ Greeted(c) /\ c \notin spawned /\ c \in requested
        /\ proposal[c] = "LAUNCH" /\ launcher \in {"NONE", "INIT", "LAUNCHING"}
        /\ launcher # "NONE" => Clean(c)
    BY Zenon, <1>2, <1>6 DEF BatonOK, LaunchOK, Greeted
  <2>2. /\ launcher = "NONE" => next = "FAILED" /\ Filed(next) = "NONE"
        /\ launcher = "INIT" => next = "DERIVING" /\ Filed(next) = "DERIVING"
        /\ launcher = "LAUNCHING" =>
               next = "NEGOTIATING" /\ Filed(next) = "NEGOTIATING"
    BY Zenon, LauncherSteps
  <2>3. /\ told' = told
        /\ launcher = "NONE" => new = {}
        /\ launcher = "INIT" => new = {}
        /\ launcher = "LAUNCHING" =>
               new = {CtlMsg("OpenChannelWith", LnpBroker, Temp(c), c)}
    BY Zenon, <1>1, <1>3, <1>6, <2>1, <2>2 DEF OpenChannelWith, TellFailureIf
  <2>4. /\ creating_channels'[Temp(c)] = Filed(next)
        /\ creating_channels'[Perm(c)] = creating_channels[Perm(c)]
        /\ \A d \in Chan \ {c} : SameLnpd(d)
    BY ZenonT(30), <1>2, <1>3, <1>6, <2>3, RefiledAlone DEF SameLnpd
  <2> HIDE DEF next, new
  <2>5. \A t, s, r, d :
            (t \notin T \/ d # c) =>
                (CtlMsg(t, s, r, d) \in ctl' <=> CtlMsg(t, s, r, d) \in ctl)
    BY Zenon, <1>3, <1>4, CtlMoved
  <2>6. /\ ~Greeted(c)'
        /\ ToldToOpen(c)' => ToldToOpen(c) \/ launcher = "LAUNCHING"
        /\ Clean(c) => Clean(c)'
    BY SMTT(30), <1>2, <1>3, <1>6, <2>1, <2>3, <2>5, CtlFields
       DEF Greeted, ToldToOpen, Clean
  <2>7. LaunchOK(c)'
    BY SMTT(30), <1>2, <1>3, <2>1, <2>2, <2>4, <2>5, <2>6
       DEF BatonOK, LaunchOK, KeysAsked, KeysSent, othersThanLnpd, proposeVars
  <2>8. OfferOK(c)' /\ LockOK(c)'
    BY Zenon, <1>2, <1>3, <2>1, <2>5, <2>6, LnpdOffer, LnpdLock DEF BatonOK
  <2>9. FundOK(c)'
    BY ZenonT(30), <1>2, <1>3, <2>1, <2>4, <2>5, <2>6
       DEF BatonOK, FundOK, FundingAsked, FundingSent, RefundAsked,
     RefundSigned, SignatureSent, SignatureTaken, AskedToPublish, AskedToSign,
     FundingSignedBySignd, othersThanLnpd, proposeVars, acceptVars
  <2>10. \A x \in new : CtlForm(x)
    BY SMTT(30), <1>4, <1>6, CtlFields, IdsApart DEF CtlForm
  <2> QED
    BY Zenon, <1>3, <1>4, <2>4, <2>7, <2>8, <2>9, <2>10, LnpdMove DEF BatonOK
<1> QED
  BY Zenon, <1>2, <1>5, <1>6

LEMMA ToldAlone ==
    ASSUME LnpdTypeOK, NEW c \in Chan, NEW report, Tell(c, report)
    PROVE  /\ told'[c] = told[c] \cup {report}
           /\ \A d \in Chan \ {c} : told'[d] = told[d]
BY Zenon DEF LnpdTypeOK, Tell

(* signd's keys find the launcher that asked for them.                       *)
LEMMA KeysetBaton ==
    ASSUME IInv, FilingInv, BatonInv, NEW m \in ctl, HandleKeyset(m),
           UNCHANGED othersThanLnpd
    PROVE  BatonInv' /\ UNCHANGED panicked
<1> DEFINE launcher == creating_channels[Temp(m.chan)]
           next == LauncherNext(launcher, "Keyset")
           new == OpenChannelWith(next, m.src, m.chan)
           T == {"Keyset", "OpenChannelWith"}
<1>1. PICK c \in Chan : c = m.chan
  BY Zenon, BatonFacts
<1>2. /\ m = CtlMsg("Keyset", Signer, LnpBroker, c) /\ m.src = Signer
      /\ BatonOK(c) /\ FiledOnce(c) /\ LnpdTypeOK
  BY Zenon, <1>1, BatonFacts DEF HandleKeyset, Receive, CtlForm
<1>3. KeysSent(c) /\ ~KeysAsked(c) /\ launcher \in {"INIT", "DERIVING"}
  BY Zenon, <1>1, <1>2 DEF BatonOK, LaunchOK, KeysSent
<1>4. /\ launcher = "INIT" => next = "LAUNCHING" /\ Filed(next) = "LAUNCHING"
      /\ launcher = "DERIVING" =>
             next = "NEGOTIATING" /\ Filed(next) = "NEGOTIATING"
  BY Zenon, LauncherSteps
<1>5. /\ ctl' = (ctl \ {m}) \cup new
      /\ creating_channels' = [creating_channels EXCEPT ![Temp(c)] = Filed(next)]
      /\ UNCHANGED <<told, panicked, requested, funding_channels,
                     pending_fundings, spawned, actl, p2p>>
  BY Zenon, <1>1, <1>3, <1>4 DEF HandleKeyset, TellFailureIf
<1>6. /\ \A x \in {m} \cup new : x.chan = c /\ x.type \in T
      /\ \A x \in new : x = CtlMsg("OpenChannelWith", LnpBroker, Signer, c)
  BY <1>1, <1>2, CtlFields DEF OpenChannelWith
<1>7. /\ creating_channels'[Temp(c)] = Filed(next)
      /\ creating_channels'[Perm(c)] = creating_channels[Perm(c)]
      /\ \A d \in Chan \ {c} : SameLnpd(d)
  BY Zenon, <1>2, <1>5, RefiledAlone DEF SameLnpd
<1>8. launcher = creating_channels[Temp(c)]
  BY Zenon, <1>1
<1> HIDE DEF launcher, next, new
<1>9. \A t, s, r, d :
          (t \notin T \/ d # c) =>
              (CtlMsg(t, s, r, d) \in ctl' <=> CtlMsg(t, s, r, d) \in ctl)
  BY Zenon, <1>5, <1>6, CtlMoved
<1>10. ~KeysSent(c)' /\ (ToldToOpen(c)' <=> ToldToOpen(c)) /\ (Clean(c) => Clean(c)')
  BY SMTT(30), <1>2, <1>5, <1>6, <1>9, CtlFields, IdsApart
     DEF KeysSent, ToldToOpen, Clean
<1>11. LaunchOK(c)'
  BY ZenonT(30), <1>2, <1>3, <1>4, <1>5, <1>7, <1>8, <1>9, <1>10
     DEF BatonOK, LaunchOK, KeysAsked, Greeted, othersThanLnpd, proposeVars
<1>12. proposal[c] # "PROPOSED" /\ ~FundingAsked(c)
  BY Zenon, <1>2, <1>3, <1>8 DEF BatonOK, OfferOK, FundOK
<1>13. OfferOK(c)' /\ LockOK(c)'
  BY Zenon, <1>2, <1>5, <1>9, <1>10, <1>12, LnpdOffer, LnpdLock DEF BatonOK
<1>14. FundOK(c)'
  BY ZenonT(30), <1>2, <1>5, <1>7, <1>9, <1>10, <1>12
     DEF BatonOK, FundOK, FundingAsked, FundingSent, RefundAsked,
         RefundSigned,
         SignatureSent, SignatureTaken, AskedToPublish, AskedToSign,
         FundingSignedBySignd, othersThanLnpd, proposeVars, acceptVars
<1>15. \A x \in new : CtlForm(x)
  BY <1>6, CtlFields, IdsApart DEF CtlForm
<1> QED
  BY Zenon, <1>5, <1>6, <1>7, <1>11, <1>13, <1>14, <1>15, LnpdMove DEF BatonOK

(* The launcher of a channel that asks for its funding is negotiating.       *)
LEMMA ConstructFundingBaton ==
    ASSUME IInv, FilingInv, BatonInv, NEW m \in ctl, HandleConstructFunding(m),
           UNCHANGED othersThanLnpd
    PROVE  BatonInv' /\ UNCHANGED panicked
<1> DEFINE T == {"ConstructFunding", "FundingConstructed"}
<1>1. PICK c \in Chan : c = m.chan
  BY Zenon, BatonFacts
<1>2. /\ m = CtlMsg("ConstructFunding", Temp(c), LnpBroker, c)
      /\ m.src = Temp(c)
      /\ BatonOK(c) /\ FiledOnce(c) /\ LnpdTypeOK
  BY Zenon, <1>1, BatonFacts DEF HandleConstructFunding, Receive, CtlForm
<1>3. /\ FundingAsked(c) /\ proposal[c] = "ACCEPTED"
      /\ creating_channels[Temp(c)] = "NEGOTIATING"
      /\ creating_channels[Perm(c)] = "NONE"
  BY Zenon, <1>2 DEF BatonOK, FundOK, FundingAsked, FiledOnce
<1>4. ~FundingSent(c) /\ ~AskedToPublish(c)
  BY Zenon, <1>2, <1>3 DEF BatonOK, FundOK
<1>5. /\ FundingIsConstructed(m) \/ LauncherFails(m)
      /\ UNCHANGED <<panicked, requested, funding_channels, spawned, actl, p2p>>
  BY Zenon, <1>2, <1>3 DEF HandleConstructFunding
<1>6. PICK new \in
              { {}, {CtlMsg("FundingConstructed", LnpBroker, Temp(c), c)} } :
          /\ ctl' = (ctl \ {m}) \cup new
          /\ FundingIsConstructed(m) \/ (LauncherFails(m) /\ new = {})
  <2>1. CASE FundingIsConstructed(m)
    <3>1. ctl' = (ctl \ {m})
              \cup {CtlMsg("FundingConstructed", LnpBroker, Temp(c), c)}
      BY ZenonT(30), <1>1, <1>2, <2>1 DEF FundingIsConstructed
    <3> QED
      BY Zenon, <2>1, <3>1
  <2>2. CASE LauncherFails(m)
    <3>1. ctl' = (ctl \ {m}) \cup {}
      BY Zenon, <2>2 DEF LauncherFails
    <3> QED
      BY Zenon, <2>2, <3>1
  <2> QED
    BY Zenon, <1>5, <2>1, <2>2
<1>7. \A x \in {m} \cup new : x.chan = c /\ x.type \in T
  BY <1>2, <1>6, CtlFields
<1> HIDE DEF T
<1>8. \A t, s, r, d :
          (t \notin T \/ d # c) =>
              (CtlMsg(t, s, r, d) \in ctl' <=> CtlMsg(t, s, r, d) \in ctl)
  BY Zenon, <1>6, <1>7, CtlMoved
<1> USE DEF T
<1>9. /\ creating_channels'[Temp(c)] = "NONE"
      /\ \A d \in Chan \ {c} : SameLnpd(d)
      /\ \/ /\ creating_channels'[Perm(c)] = "COMMITTING"
            /\ c \in pending_fundings' /\ told' = told
         \/ new = {} /\ creating_channels'[Perm(c)] = "NONE"
  <2>1. CASE FundingIsConstructed(m)
    <3>1. /\ creating_channels' = [creating_channels EXCEPT
                 ![Temp(c)] = "NONE", ![Perm(c)] = "COMMITTING"]
          /\ pending_fundings' = pending_fundings \cup {c} /\ told' = told
      BY Zenon, <1>1, <1>2, <2>1 DEF FundingIsConstructed
    <3>2. /\ creating_channels'[Temp(c)] = "NONE"
          /\ creating_channels'[Perm(c)] = "COMMITTING"
          /\ \A d \in Chan \ {c} :
                /\ creating_channels'[Temp(d)] = creating_channels[Temp(d)]
                /\ creating_channels'[Perm(d)] = creating_channels[Perm(d)]
      BY Zenon, <1>2, <3>1, IdsDiffer DEF LnpdTypeOK
    <3> QED
      BY Zenon, <1>5, <3>1, <3>2 DEF SameLnpd
  <2>2. CASE LauncherFails(m) /\ new = {}
    <3>1. /\ creating_channels' = [creating_channels EXCEPT ![Temp(c)] = "NONE"]
          /\ Tell(c, "failure") /\ UNCHANGED pending_fundings
      BY Zenon, <1>1, <1>2, <2>2 DEF LauncherFails
    <3>2. /\ creating_channels'[Temp(c)] = "NONE"
          /\ creating_channels'[Perm(c)] = creating_channels[Perm(c)]
          /\ \A d \in Chan \ {c} :
                /\ creating_channels'[Temp(d)] = creating_channels[Temp(d)]
                /\ creating_channels'[Perm(d)] = creating_channels[Perm(d)]
      BY Zenon, <1>2, <3>1, RefiledAlone
    <3>3. \A d \in Chan \ {c} : told'[d] = told[d]
      BY Zenon, <1>2, <3>1, ToldAlone
    <3> QED
      BY Zenon, <1>3, <1>5, <2>2, <3>1, <3>2, <3>3 DEF SameLnpd
  <2> QED
    BY Zenon, <1>6, <2>1, <2>2
<1>10. ~FundingAsked(c)' /\ (new = {} => ~FundingSent(c)')
  BY Zenon, <1>2, <1>4, <1>6, CtlFields DEF FundingAsked, FundingSent
<1>11. new # {} => Clean(c)'
  BY Zenon, <1>2, <1>3, <1>8, <1>9 DEF BatonOK, FundOK, Clean
<1>12. LaunchOK(c)'
  BY Zenon, <1>2, <1>3, <1>5, <1>8, <1>9
     DEF BatonOK, LaunchOK, KeysAsked, KeysSent, Greeted, ToldToOpen,
         othersThanLnpd, proposeVars
<1>13. OfferOK(c)'
  BY Zenon, <1>2, <1>3, <1>5
     DEF BatonOK, OfferOK, Offered, PeerGreeted, ToldToAccept, PeerKeysAsked,
         PeerKeysSent, OfferTaken, othersThanLnpd, proposeVars, acceptVars
<1>14. LockOK(c)'
  BY Zenon, <1>2, <1>5, <1>8, LnpdLock DEF BatonOK
<1>15. FundOK(c)'
  BY ZenonT(30), <1>2, <1>3, <1>4, <1>5, <1>8, <1>9, <1>10, <1>11
     DEF BatonOK, FundOK, RefundAsked, RefundSigned, FundingSent,
         SignatureSent, SignatureTaken, AskedToPublish, AskedToSign,
         FundingSignedBySignd, othersThanLnpd, proposeVars, acceptVars
<1>16. \A x \in new : CtlForm(x)
  BY <1>6, CtlFields, IdsApart DEF CtlForm
<1> QED
  BY ZenonT(30), <1>5, <1>6, <1>7, <1>9, <1>12, <1>13, <1>14, <1>15, <1>16,
     LnpdMove
     DEF BatonOK

(* So is, at its commitment, the launcher of one that asks to publish it.    *)
LEMMA PublishFundingBaton ==
    ASSUME IInv, FilingInv, BatonInv, NEW m \in ctl, HandlePublishFunding(m),
           UNCHANGED othersThanLnpd
    PROVE  BatonInv' /\ UNCHANGED panicked
<1> DEFINE T == {"PublishFunding", "Sign"}
           sign(c) == CtlMsg("Sign", LnpBroker, Signer, c)
<1>1. PICK c \in Chan : c = m.chan
  BY Zenon, BatonFacts
<1>2. /\ m = CtlMsg("PublishFunding", Perm(c), LnpBroker, c)
      /\ m.src = Perm(c)
      /\ BatonOK(c) /\ FiledOnce(c) /\ LnpdTypeOK
  BY Zenon, <1>1, BatonFacts DEF HandlePublishFunding, Receive, CtlOK
<1>3. /\ AskedToPublish(c) /\ proposal[c] = "PUBLISHED"
      /\ creating_channels[Perm(c)] = "COMMITTING" /\ c \in pending_fundings
  BY Zenon, <1>2 DEF BatonOK, FundOK, AskedToPublish, IInv, TokenOK
<1>4. LauncherNext(creating_channels[m.src], "PublishFunding") = "SIGNING"
  BY Zenon, <1>2, <1>3, LauncherSteps
<1>5. /\ UNCHANGED <<panicked, requested, spawned, actl, p2p, pending_fundings>>
      /\ creating_channels' = [creating_channels EXCEPT ![Perm(c)] = "NONE"]
      /\ \/ /\ ctl' = (ctl \ {m}) \cup {sign(c)}
            /\ funding_channels' = [funding_channels EXCEPT ![c] = "SIGNING"]
            /\ told' = told
         \/ /\ ctl' = ctl \ {m}
            /\ funding_channels' = funding_channels
            /\ Tell(c, "failure")
  BY Zenon, <1>1, <1>2, <1>3, <1>4 DEF HandlePublishFunding, LauncherFails
<1>6. PICK new \in { {}, {sign(c)} } :
          /\ ctl' = (ctl \ {m}) \cup new
          /\ new # {} =>
                 funding_channels' = [funding_channels EXCEPT ![c] = "SIGNING"]
  <2>1. CASE ctl' = ctl \ {m}
    <3>1. ctl' = (ctl \ {m}) \cup {}
      BY Zenon, <2>1
    <3> QED
      BY Zenon, <3>1
  <2> QED
    BY Zenon, <1>5, <2>1
<1>7. \A x \in {m} \cup new : x.chan = c /\ x.type \in T
  BY SMTT(30), <1>2, <1>6, CtlFields
<1> HIDE DEF T
<1>8. \A t, s, r, d :
          (t \notin T \/ d # c) =>
              (CtlMsg(t, s, r, d) \in ctl' <=> CtlMsg(t, s, r, d) \in ctl)
  BY Zenon, <1>6, <1>7, CtlMoved
<1> USE DEF T
<1>9. /\ creating_channels'[Temp(c)] = creating_channels[Temp(c)]
      /\ \A d \in Chan \ {c} : SameLnpd(d)
      /\ new # {} => funding_channels'[c] = "SIGNING"
      /\ funding_channels'[c] \in {"SIGNING", funding_channels[c]}
  BY ZenonT(30), <1>2, <1>5, <1>6, RefiledAlone, ToldAlone
     DEF LnpdTypeOK, SameLnpd
<1>10. /\ ~AskedToPublish(c)'
       /\ AskedToSign(c)' => AskedToSign(c) \/ new # {}
       /\ RefundAsked(c)' => RefundAsked(c)
  BY <1>2, <1>6, CtlFields, IdsApart
     DEF AskedToPublish, AskedToSign, RefundAsked
<1>11. LaunchOK(c)'
  BY Zenon, <1>2, <1>3, <1>5, <1>8, <1>9
     DEF BatonOK, LaunchOK, KeysAsked, KeysSent, Greeted, ToldToOpen,
         othersThanLnpd, proposeVars
<1>12. OfferOK(c)'
  BY Zenon, <1>2, <1>3, <1>5
     DEF BatonOK, OfferOK, Offered, PeerGreeted, ToldToAccept, PeerKeysAsked,
         PeerKeysSent, OfferTaken, othersThanLnpd, proposeVars, acceptVars
<1>13. LockOK(c)'
  BY Zenon, <1>2, <1>5, <1>8, LnpdLock DEF BatonOK
<1>14. FundOK(c)'
  BY ZenonT(30), <1>2, <1>3, <1>5, <1>8, <1>9, <1>10
     DEF BatonOK, FundOK, FundingAsked, FundingSent, RefundSigned,
         SignatureSent, SignatureTaken, FundingSignedBySignd, othersThanLnpd,
         proposeVars, acceptVars
<1>15. \A x \in new : CtlForm(x)
  BY SMTT(30), <1>6, CtlFields, IdsApart DEF CtlForm
<1>16. BatonOK(c)'
  BY Zenon, <1>11, <1>12, <1>13, <1>14 DEF BatonOK
<1>17. /\ ctl' = (ctl \ {m}) \cup new
       /\ UNCHANGED <<panicked, actl, p2p, othersThanLnpd>>
       /\ \A d \in Chan \ {c} : SameLnpd(d)
  BY Zenon, <1>5, <1>6, <1>9
<1> HIDE DEF T, sign
<1> QED
  BY Zenon, <1>7, <1>15, <1>16, <1>17, LnpdMove

(* The signed funding finds the launcher under its txid.                     *)
LEMMA SignedBaton ==
    ASSUME IInv, FilingInv, BatonInv, NEW m \in ctl, HandleSigned(m),
           UNCHANGED othersThanLnpd
    PROVE  BatonInv' /\ UNCHANGED panicked
<1>1. PICK c \in Chan : c = m.chan
  BY Zenon, BatonFacts
<1>2. /\ m = CtlMsg("Signed", Signer, LnpBroker, c)
      /\ BatonOK(c) /\ FiledOnce(c) /\ LnpdTypeOK
  BY Zenon, <1>1, BatonFacts DEF HandleSigned, Receive, CtlOK
<1>3. /\ FundingSignedBySignd(c) /\ proposal[c] = "PUBLISHED"
      /\ funding_channels[c] = "SIGNING" /\ ~AskedToSign(c)
  BY Zenon, <1>2 DEF BatonOK, FundOK, FundingSignedBySignd, IInv, TokenOK
<1>4. /\ ctl' = ctl \ {m}
      /\ funding_channels' = [funding_channels EXCEPT ![c] = "NONE"]
      /\ Tell(c, "success") \/ told' = told
      /\ UNCHANGED <<requested, creating_channels, pending_fundings, panicked,
                     spawned, actl, p2p>>
  BY Zenon, <1>1, <1>3 DEF HandleSigned
<1>5. m.chan = c /\ m.type = "Signed"
  BY <1>2, CtlFields
<1>6. \A t, s, r, d :
          (t \notin {"Signed"} \/ d # c) =>
              (CtlMsg(t, s, r, d) \in ctl' <=> CtlMsg(t, s, r, d) \in ctl)
  BY Zenon, <1>4, <1>5, CtlTaken
<1>7. \A d \in Chan \ {c} : SameLnpd(d)
  BY Zenon, <1>2, <1>4, ToldAlone DEF LnpdTypeOK, SameLnpd
<1>8. ~FundingSignedBySignd(c)' /\ (RefundSigned(c)' => RefundSigned(c))
  BY Zenon, <1>2, <1>4 DEF FundingSignedBySignd, RefundSigned
<1>9. LaunchOK(c)'
  BY Zenon, <1>2, <1>3, <1>4, <1>6
     DEF BatonOK, LaunchOK, KeysAsked, KeysSent, Greeted, ToldToOpen,
         othersThanLnpd, proposeVars
<1>10. OfferOK(c)'
  BY Zenon, <1>2, <1>3, <1>4
     DEF BatonOK, OfferOK, Offered, PeerGreeted, ToldToAccept, PeerKeysAsked,
         PeerKeysSent, OfferTaken, othersThanLnpd, proposeVars, acceptVars
<1>11. LockOK(c)'
  BY Zenon, <1>2, <1>4, <1>6, LnpdLock DEF BatonOK
<1>12. FundOK(c)'
  BY Zenon, <1>2, <1>3, <1>4, <1>6, <1>8
     DEF BatonOK, FundOK, FundingAsked, FundingSent, RefundAsked,
         SignatureSent, SignatureTaken, AskedToPublish, AskedToSign,
         othersThanLnpd, proposeVars, acceptVars
<1>13. BatonOK(c)'
  BY Zenon, <1>9, <1>10, <1>11, <1>12 DEF BatonOK
<1> QED
  BY Zenon, <1>4, <1>5, <1>7, <1>13, LnpdTakes

(* A step that the invariant does not mention.                               *)
LEMMA QuietMove ==
    ASSUME BatonInv, FormOK',
           \A d \in Chan :
               /\ SameCtl(d) /\ SameActl(d) /\ SameP2p(d)
               /\ SameLnpd(d) /\ SameChanneld(d) /\ SamePeer(d)
    PROVE  BatonInv'
BY Zenon, OtherChannel DEF BatonInv

(* lnpd's own panic, at an Error about a request of its own.                 *)
LEMMA ErrorBaton ==
    ASSUME IInv, BatonInv, NEW m \in ctl, HandleError(m),
           UNCHANGED othersThanLnpd
    PROVE  BatonInv'
<1> USE DEF othersThanLnpd, proposeVars, acceptVars
<1>1. /\ m.type = "Error" /\ m.dst = LnpBroker /\ ctl' = ctl \ {m}
      /\ UNCHANGED <<requested, told, creating_channels, funding_channels,
                     pending_fundings, spawned, actl, p2p>>
  BY Zenon DEF HandleError, Receive, Panic
<1>2. \A d \in Chan : SameCtl(d)
  BY SMTT(30), <1>1, CtlFields, IdsApart DEF SameCtl
<1>3. FormOK'
  BY Zenon, <1>1 DEF BatonInv, FormOK, CtlForm, ActlForm, P2pForm
<1>4. \A d \in Chan : SameActl(d) /\ SameP2p(d) /\ SameLnpd(d)
                      /\ SameChanneld(d) /\ SamePeer(d)
  BY Zenon, <1>1 DEF SameActl, SameP2p, SameLnpd, SameChanneld, SamePeer
<1> QED
  BY Zenon, <1>2, <1>3, <1>4, QuietMove

(* A failure that is reported has left no baton behind.                      *)
LEMMA ReportBaton ==
    ASSUME IInv, FilingInv, BatonInv, NEW m \in ctl, HandleReport(m),
           UNCHANGED othersThanLnpd
    PROVE  BatonInv'
<1>1. PICK c \in Chan : c = m.chan
  BY Zenon, BatonFacts
<1>2. /\ m = CtlMsg("Report", m.src, LnpBroker, c) /\ m.src \in {Temp(c), Perm(c)}
      /\ BatonOK(c) /\ LnpdTypeOK
  BY Zenon, <1>1, BatonFacts DEF HandleReport, Receive, CtlForm, CtlOK
<1>3. ~Clean(c)
  BY Zenon, <1>2 DEF Clean
<1>4. /\ ctl' = ctl \ {m} /\ m.chan = c /\ m.type = "Report"
      /\ Tell(c, "failure")
      /\ UNCHANGED <<requested, creating_channels, funding_channels,
                     pending_fundings, spawned, actl, p2p>>
  BY Zenon, <1>1 DEF HandleReport, Receive
<1>5. \A t, s, r, d :
          (t \notin {"Report"} \/ d # c) =>
              (CtlMsg(t, s, r, d) \in ctl' <=> CtlMsg(t, s, r, d) \in ctl)
  BY Zenon, <1>4, CtlTaken
<1>6. \A d \in Chan \ {c} : SameLnpd(d)
  BY Zenon, <1>2, <1>4, ToldAlone DEF SameLnpd
<1>7. LaunchOK(c)'
  BY Zenon, <1>2, <1>3, <1>4, <1>5
     DEF BatonOK, LaunchOK, KeysAsked, KeysSent, Greeted, ToldToOpen,
         othersThanLnpd, proposeVars
<1>8. OfferOK(c)'
  BY Zenon, <1>2, <1>3, <1>4
     DEF BatonOK, OfferOK, Offered, PeerGreeted, ToldToAccept, PeerKeysAsked,
         PeerKeysSent, OfferTaken, othersThanLnpd, proposeVars, acceptVars
<1>9. LockOK(c)'
  BY Zenon, <1>2, <1>4, <1>5, LnpdLock DEF BatonOK
<1>10. FundOK(c)'
  BY Zenon, <1>2, <1>3, <1>4, <1>5
     DEF BatonOK, FundOK, FundingAsked, FundingSent, RefundAsked,
         RefundSigned,
         SignatureSent, SignatureTaken, AskedToPublish, AskedToSign,
         FundingSignedBySignd, othersThanLnpd, proposeVars, acceptVars
<1>11. BatonOK(c)'
  BY Zenon, <1>7, <1>8, <1>9, <1>10 DEF BatonOK
<1> QED
  BY Zenon, <1>4, <1>6, <1>11, LnpdTakes

LEMMA LnpdBaton ==
    ASSUME IInv, FilingInv, BatonInv, NEW m \in ctl, LnpdHandles(m)
    PROVE  BatonInv' /\ (UNCHANGED panicked \/ HandleError(m))
BY Zenon, HelloBaton, KeysetBaton, ConstructFundingBaton, PublishFundingBaton,
   SignedBaton, ErrorBaton, ReportBaton
   DEF LnpdHandles, HandleCtl, HandleHello, HandleReport

(* A request starts a launch, where there was nothing.                       *)
LEMMA CreateChannelBaton ==
    ASSUME IInv, FilingInv, BatonInv, NEW c \in Chan, ClientCreatesChannel(c)
    PROVE  BatonInv'
<1> DEFINE n == CtlMsg("DeriveKeyset", LnpBroker, Signer, c)
           T == {"DeriveKeyset"}
<1>1. /\ BatonOK(c) /\ FiledOnce(c) /\ LnpdTypeOK
      /\ UNCHANGED othersThanLnpd
  BY Zenon DEF BatonInv, FilingInv, IInv, TypeOK, ClientCreatesChannel
<1>2. /\ c \notin requested /\ requested' = requested \cup {c}
      /\ UNCHANGED <<funding_channels, pending_fundings, actl, p2p>>
  BY Zenon DEF ClientCreatesChannel, CreateChannel
<1>3. /\ proposal[c] = "LAUNCH" /\ Clean(c) /\ c \notin spawned /\ ~Greeted(c)
      /\ creating_channels[Temp(c)] = "NONE"
      /\ ~KeysAsked(c) /\ ~KeysSent(c) /\ ~ToldToOpen(c)
  BY Zenon, <1>1, <1>2 DEF BatonOK, LaunchOK, FiledOnce
<1>4. PICK new \in { {}, {n} } :
          /\ ctl' = ctl \cup new
          /\ \/ /\ new = {n} /\ spawned' = spawned \cup {c}
                /\ told' = told
                /\ creating_channels' =
                       [creating_channels EXCEPT ![Temp(c)] = "INIT"]
             \/ /\ new = {} /\ spawned' \in {spawned, spawned \cup {c}}
                /\ Tell(c, "failure") /\ creating_channels' = creating_channels
  <2>1. \/ /\ ctl' = ctl \cup {n} /\ spawned' = spawned \cup {c}
           /\ told' = told
           /\ creating_channels' =
                  [creating_channels EXCEPT ![Temp(c)] = "INIT"]
        \/ /\ ctl' = ctl \cup {} /\ spawned' \in {spawned, spawned \cup {c}}
           /\ Tell(c, "failure") /\ creating_channels' = creating_channels
    BY Zenon DEF ClientCreatesChannel, CreateChannel, CreateChannelLaunches
  <2> QED
    BY Zenon, <2>1
<1>5. \A x \in {} \cup new : x.chan = c /\ x.type \in T
  BY <1>4, CtlFields
<1>6. ctl' = (ctl \ {}) \cup new
  BY Zenon, <1>4
<1> HIDE DEF T
<1>7. \A t, s, r, d :
          (t \notin T \/ d # c) =>
              (CtlMsg(t, s, r, d) \in ctl' <=> CtlMsg(t, s, r, d) \in ctl)
  BY Zenon, <1>5, <1>6, CtlMoved
<1> USE DEF T
<1>8. /\ creating_channels'[Perm(c)] = creating_channels[Perm(c)]
      /\ \A d \in Chan \ {c} : SameLnpd(d)
      /\ \/ /\ new = {n} /\ creating_channels'[Temp(c)] = "INIT"
            /\ told' = told
         \/ new = {} /\ creating_channels'[Temp(c)] = "NONE"
  BY ZenonT(30), <1>1, <1>2, <1>3, <1>4, RefiledAlone, ToldAlone DEF SameLnpd
<1>9. /\ new = {n} => Clean(c)'
      /\ ~Greeted(c)' /\ ~KeysSent(c)' /\ ~ToldToOpen(c)'
      /\ KeysAsked(c)' => new = {n}
  BY Zenon, <1>3, <1>4, <1>7, <1>8 DEF Clean, Greeted, KeysAsked, KeysSent,
     ToldToOpen
<1>10. LaunchOK(c)'
  BY Zenon, <1>1, <1>2, <1>3, <1>8, <1>9
     DEF LaunchOK, othersThanLnpd, proposeVars
<1>11. OfferOK(c)'
  BY Zenon, <1>1, <1>2, <1>3
     DEF BatonOK, OfferOK, Offered, PeerGreeted, ToldToAccept, PeerKeysAsked,
         PeerKeysSent, OfferTaken, othersThanLnpd, proposeVars, acceptVars
<1>12. LockOK(c)'
  BY Zenon, <1>1, <1>2, <1>7, LnpdLock DEF BatonOK
<1>13. FundOK(c)'
  BY ZenonT(30), <1>1, <1>2, <1>3, <1>7, <1>8
     DEF BatonOK, FundOK, FundingAsked, FundingSent, RefundAsked,
         RefundSigned,
         SignatureSent, SignatureTaken, AskedToPublish, AskedToSign,
         FundingSignedBySignd, othersThanLnpd, proposeVars, acceptVars
<1>14. BatonOK(c)'
  BY ZenonT(30), <1>10, <1>11, <1>12, <1>13 DEF BatonOK
<1>15. \A x \in new : CtlForm(x)
  BY SMTT(30), <1>4, CtlFields, IdsApart DEF CtlForm
<1>16. UNCHANGED <<actl, p2p, othersThanLnpd>> /\ \A d \in Chan \ {c} : SameLnpd(d)
  BY Zenon, <1>1, <1>2, <1>8
<1> HIDE DEF T, n
<1> QED
  BY Zenon, <1>5, <1>6, <1>14, <1>15, <1>16, LnpdMove

-----------------------------------------------------------------------------
(* signd, the start of channeld, routed, watchd and the network              *)

LEMMA SigndRepliesWhat ==
    ASSUME NEW m, NEW replies \in SigndReplies(m)
    PROVE  /\ m.type = "DeriveKeyset" =>
                  replies \in { {}, {CtlMsg("Keyset", Signer, m.src, m.chan)} }
           /\ m.type = "Sign" =>
                  replies \in { {CtlMsg("Signed", Signer, m.src, m.chan)},
                                {CtlMsg("Error", Signer, m.src, m.chan)} }
           /\ m.type \notin {"DeriveKeyset", "Sign"} =>
                  replies = {CtlMsg("Error", Signer, m.src, m.chan)}
<1>1. CASE m.type = "DeriveKeyset"
  BY Zenon, <1>1 DEF SigndReplies
<1>2. CASE m.type = "Sign"
  BY Zenon, <1>2 DEF SigndReplies
<1>3. CASE m.type # "DeriveKeyset" /\ m.type # "Sign"
  BY Zenon, <1>3 DEF SigndReplies
<1> QED
  BY Zenon, <1>1, <1>2, <1>3

(* signd hands the baton back to who gave it, or drops it with an error.     *)
LEMMA SigndBaton ==
    ASSUME IInv, FilingInv, BatonInv, NEW m \in ctl, SigndHandles(m)
    PROVE  BatonInv'
<1> DEFINE T == {"DeriveKeyset", "Keyset", "Sign", "Signed", "OpenChannelWith",
                 "Error"}
<1>1. PICK c \in Chan : c = m.chan
  BY Zenon, BatonFacts
<1>2. /\ m = CtlMsg(m.type, m.src, Signer, c)
      /\ m.type \in {"DeriveKeyset", "Sign", "OpenChannelWith"}
      /\ m.type \in {"DeriveKeyset", "OpenChannelWith"} => m.src = LnpBroker
      /\ m.type = "Sign" => m.src \in {Temp(c), LnpBroker}
      /\ BatonOK(c) /\ TokenOK(c)
      /\ UNCHANGED <<actl, p2p, lnpdVars, othersThanLnpd>>
  BY Zenon, <1>1, BatonFacts DEF SigndHandles, SigndAnswers, CtlForm, IInv
<1>3. PICK new \in SigndReplies(m) : ctl' = (ctl \ {m}) \cup new
  BY ZenonT(30) DEF SigndHandles, SigndAnswers
<1>4. /\ m.type = "DeriveKeyset" =>
             new \in { {}, {CtlMsg("Keyset", Signer, LnpBroker, c)} }
      /\ m.type = "Sign" =>
             new \in { {CtlMsg("Signed", Signer, m.src, c)},
                       {CtlMsg("Error", Signer, m.src, c)} }
      /\ m.type = "OpenChannelWith" =>
             new = {CtlMsg("Error", Signer, LnpBroker, c)}
  BY Zenon, <1>1, <1>2, SigndRepliesWhat
<1>5. \A d \in Chan : SameLnpd(d)
  BY Zenon, <1>2 DEF SameLnpd, lnpdVars
<1>6. /\ \A x \in {m} \cup new : x.chan = c /\ x.type \in T
      /\ \A x \in new : CtlForm(x)
  <2>1. \A x \in {m} \cup new : x.chan = c /\ x.type \in T
    BY SMTT(30), <1>1, <1>2, <1>4, CtlFields
  <2>2. \A x \in new : CtlForm(x)
    BY SMTT(30), <1>2, <1>4, CtlFields, IdsApart DEF CtlForm
  <2> QED
    BY Zenon, <2>1, <2>2
<1>7. \A t, s, r, d :
          (t \notin T \/ d # c) =>
              (CtlMsg(t, s, r, d) \in ctl' <=> CtlMsg(t, s, r, d) \in ctl)
  <2> HIDE DEF T
  <2> QED
    BY Zenon, <1>3, <1>6, CtlMoved
<1> USE DEF lnpdVars, othersThanLnpd, proposeVars, acceptVars
<1>8. LockOK(c)'
  BY Zenon, <1>2, <1>7, LnpdLock DEF BatonOK
<1>9. ASSUME m.type \in {"DeriveKeyset", "OpenChannelWith"} PROVE BatonOK(c)'
  <2>1. /\ Clean(c) => Clean(c)'
        /\ KeysAsked(c)' => KeysAsked(c)
        /\ KeysSent(c)' => KeysSent(c) \/ (KeysAsked(c) /\ ~KeysAsked(c)')
        /\ ToldToOpen(c)' <=> ToldToOpen(c)
    BY SMTT(30), <1>2, <1>3, <1>4, <1>7, <1>9, CtlFields, IdsApart
       DEF Clean, KeysAsked, KeysSent, ToldToOpen
  <2>2. /\ RefundAsked(c)' <=> RefundAsked(c)
        /\ RefundSigned(c)' <=> RefundSigned(c)
        /\ AskedToSign(c)' <=> AskedToSign(c)
        /\ FundingSignedBySignd(c)' <=> FundingSignedBySignd(c)
    BY SMTT(30), <1>2, <1>3, <1>4, <1>9, CtlFields
       DEF RefundAsked, RefundSigned, AskedToSign, FundingSignedBySignd
  <2>3. LaunchOK(c)'
    BY Zenon, <1>2, <1>7, <2>1 DEF BatonOK, LaunchOK, Greeted
  <2>4. OfferOK(c)'
    BY Zenon, <1>2, <2>1, LnpdOffer DEF BatonOK
  <2>5. FundOK(c)'
    BY Zenon, <1>2, <1>7, <2>1, <2>2
       DEF BatonOK, FundOK, FundingAsked, FundingSent, SignatureSent,
           SignatureTaken, AskedToPublish
  <2> QED
    BY ZenonT(30), <1>8, <2>3, <2>4, <2>5 DEF BatonOK
<1>10. ASSUME m.type = "Sign" PROVE BatonOK(c)'
  <2>1. /\ KeysAsked(c)' <=> KeysAsked(c)
        /\ KeysSent(c)' <=> KeysSent(c)
        /\ ToldToOpen(c)' <=> ToldToOpen(c)
    BY SMTT(30), <1>2, <1>3, <1>4, <1>10, CtlFields
       DEF KeysAsked, KeysSent, ToldToOpen
  <2>2. CASE m.src = LnpBroker
    <3>1. AskedToSign(c) /\ funding_channels[c] = "SIGNING"
      BY ZenonT(30), <1>2, <1>10, <2>2 DEF BatonOK, FundOK, AskedToSign
    <3>2. /\ Clean(c) => Clean(c)'
          /\ RefundAsked(c)' <=> RefundAsked(c)
          /\ RefundSigned(c)' <=> RefundSigned(c)
      BY SMTT(30), <1>2, <1>3, <1>4, <1>7, <1>10, <2>2, CtlFields, IdsApart
         DEF Clean, RefundAsked, RefundSigned
    <3>3. LaunchOK(c)'
      BY Zenon, <1>2, <1>7, <2>1, <3>2 DEF BatonOK, LaunchOK, Greeted
    <3>4. OfferOK(c)'
      BY Zenon, <1>2, <3>2, LnpdOffer DEF BatonOK
    <3>5. FundOK(c)'
      BY ZenonT(30), <1>2, <1>7, <3>1, <3>2
         DEF BatonOK, FundOK, FundingAsked, FundingSent, SignatureSent,
             SignatureTaken, AskedToPublish
    <3> QED
      BY Zenon, <1>8, <3>3, <3>4, <3>5 DEF BatonOK
  <2>3. CASE m.src = Temp(c)
    <3>1. RefundAsked(c) /\ proposal[c] = "SIGNING" /\ Clean(c) /\ ~RefundSigned(c)
      BY ZenonT(30), <1>2, <1>10, <2>3 DEF BatonOK, FundOK, RefundAsked
    <3>2. /\ ~RefundAsked(c)'
          /\ RefundSigned(c)' => Clean(c)'
          /\ AskedToSign(c)' <=> AskedToSign(c)
          /\ FundingSignedBySignd(c)' <=> FundingSignedBySignd(c)
      BY SMTT(30), <1>2, <1>3, <1>4, <1>7, <1>10, <2>3, <3>1, CtlFields,
         IdsApart
         DEF Clean, RefundAsked, RefundSigned, AskedToSign,
             FundingSignedBySignd
    <3>3. LaunchOK(c)'
      BY Zenon, <1>2, <1>7, <2>1, <3>1 DEF BatonOK, LaunchOK, Greeted
    <3>4. OfferOK(c)'
      BY Zenon, <1>2, <3>1
         DEF BatonOK, OfferOK, Offered, PeerGreeted, ToldToAccept,
             PeerKeysAsked, PeerKeysSent, OfferTaken
    <3>5. FundOK(c)'
      BY Zenon, <1>2, <1>7, <3>1, <3>2
         DEF BatonOK, FundOK, FundingAsked, FundingSent, SignatureSent,
             SignatureTaken, AskedToPublish
    <3> QED
      BY Zenon, <1>8, <3>3, <3>4, <3>5 DEF BatonOK
  <2> QED
    BY ZenonT(30), <1>2, <1>10, <2>2, <2>3
<1>11. BatonOK(c)'
  BY Zenon, <1>2, <1>9, <1>10
<1>12. UNCHANGED <<actl, p2p, othersThanLnpd>>
  BY Zenon, <1>2
<1> HIDE DEF T, lnpdVars, othersThanLnpd, proposeVars, acceptVars
<1> QED
  BY ZenonT(30), <1>3, <1>5, <1>6, <1>11, <1>12, LnpdMove

LEMMA ChanneldStartsBaton ==
    ASSUME IInv, FilingInv, BatonInv, NEW c \in Chan, ChanneldStarts(c)
    PROVE  BatonInv'
<1> DEFINE n == CtlMsg("Hello", Temp(c), LnpBroker, c)
           T == {"Hello"}
<1>1. /\ BatonOK(c) /\ c \in spawned
      /\ ctl' = (ctl \ {}) \cup {n} /\ spawned' = spawned \ {c}
      /\ UNCHANGED <<requested, told, creating_channels, funding_channels,
                     pending_fundings, actl, p2p, othersThanLnpd>>
  BY Zenon DEF BatonInv, ChanneldStarts, ChanneldConnects, ToLnpd,
     othersThanLnpd
<1>2. /\ \A x \in {} \cup {n} : x.chan = c /\ x.type \in T
      /\ \A x \in {n} : CtlForm(x)
  BY CtlFields, IdsApart DEF CtlForm
<1>3. \A t, s, r, d :
          (t \notin T \/ d # c) =>
              (CtlMsg(t, s, r, d) \in ctl' <=> CtlMsg(t, s, r, d) \in ctl)
  <2> HIDE DEF T, n
  <2> QED
    BY Zenon, <1>1, <1>2, CtlMoved
<1>4. \A d \in Chan \ {c} : SameLnpd(d)
  BY Zenon, <1>1 DEF SameLnpd
<1>5. Clean(c)' <=> Clean(c)
  BY ZenonT(30), <1>1, <1>3 DEF Clean
<1>6. LaunchOK(c)'
  BY Zenon, <1>1, <1>3, <1>5
     DEF BatonOK, LaunchOK, KeysAsked, KeysSent, ToldToOpen, othersThanLnpd,
         proposeVars
<1>7. OfferOK(c)' /\ LockOK(c)'
  <2>1. OfferOK(c)'
    BY Zenon, <1>1, <1>5, LnpdOffer DEF BatonOK
  <2>2. "Track" \notin T /\ "TxFound" \notin T
    BY Zenon
  <2> HIDE DEF T
  <2>3. LockOK(c)'
    BY Zenon, <1>1, <1>3, <2>2, LnpdLock DEF BatonOK
  <2> QED
    BY Zenon, <2>1, <2>3
<1>8. FundOK(c)'
  BY Zenon, <1>1, <1>3, <1>5
     DEF BatonOK, FundOK, FundingAsked, FundingSent, RefundAsked,
         RefundSigned,
         SignatureSent, SignatureTaken, AskedToPublish, AskedToSign,
         FundingSignedBySignd, othersThanLnpd, proposeVars, acceptVars
<1>9. BatonOK(c)'
  BY Zenon, <1>6, <1>7, <1>8 DEF BatonOK
<1> HIDE DEF T, n
<1> QED
  BY Zenon, <1>1, <1>2, <1>4, <1>9, LnpdMove

(* routed and the network carry no baton.                                    *)
LEMMA RoutedBaton ==
    ASSUME BatonInv, NEW m \in ctl, RoutedHandles(m)
    PROVE  BatonInv'
<1> USE DEF lnpdVars, proposeVars, acceptVars
<1>1. /\ m.type = "ChannelCreated" /\ ctl' = ctl \ {m}
      /\ UNCHANGED <<actl, p2p, lnpdVars, proposeVars, acceptVars, tracking>>
  BY Zenon DEF RoutedHandles, Receive
<1>2. \A d \in Chan : SameCtl(d)
  BY <1>1, CtlFields DEF SameCtl
<1>3. FormOK'
  BY Zenon, <1>1 DEF BatonInv, FormOK, CtlForm, ActlForm, P2pForm
<1>4. \A d \in Chan : SameActl(d) /\ SameP2p(d) /\ SameLnpd(d)
                      /\ SameChanneld(d) /\ SamePeer(d)
  BY Zenon, <1>1 DEF SameActl, SameP2p, SameLnpd, SameChanneld, SamePeer
<1> QED
  BY Zenon, <1>2, <1>3, <1>4, QuietMove

LEMMA IdleBaton ==
    ASSUME BatonInv,
           UNCHANGED <<sharedVars, lnpdVars, proposeVars, acceptVars, tracking>>
    PROVE  BatonInv'
<1> USE DEF sharedVars, lnpdVars, proposeVars, acceptVars
<1>1. FormOK'
  BY Zenon DEF BatonInv, FormOK, CtlForm, ActlForm, P2pForm
<1>2. \A d \in Chan : SameCtl(d) /\ SameActl(d) /\ SameP2p(d) /\ SameLnpd(d)
                      /\ SameChanneld(d) /\ SamePeer(d)
  BY ZenonT(30) DEF SameCtl, SameActl, SameP2p, SameLnpd, SameChanneld,
     SamePeer
<1> QED
  BY Zenon, <1>1, <1>2, QuietMove

(* watchd takes the request to track a funding, and reports it once.         *)
LEMMA WatchdMove ==
    ASSUME BatonInv, NEW c \in Chan,
           \A t, s, r, d :
               (t \notin {"Track", "TxFound"} \/ d # c) =>
                   (CtlMsg(t, s, r, d) \in ctl' <=> CtlMsg(t, s, r, d) \in ctl),
           UNCHANGED <<actl, p2p, lnpdVars, proposeVars, acceptVars>>,
           \A d \in Chan \ {c} :
               <<Perm(d), d>> \in tracking' <=> <<Perm(d), d>> \in tracking,
           FormOK', LockOK(c)'
    PROVE  BatonInv'
<1> USE DEF lnpdVars, proposeVars, acceptVars
<1>1. BatonOK(c) /\ (Clean(c)' <=> Clean(c))
  BY Zenon DEF BatonInv, Clean
<1>2. LaunchOK(c)'
  BY Zenon, <1>1 DEF BatonOK, LaunchOK, KeysAsked, KeysSent, Greeted,
     ToldToOpen
<1>3. OfferOK(c)'
  BY Zenon, <1>1 DEF BatonOK, OfferOK, Offered, PeerGreeted, ToldToAccept,
     PeerKeysAsked, PeerKeysSent, OfferTaken
<1>4. FundOK(c)'
  BY Zenon, <1>1 DEF BatonOK, FundOK, FundingAsked, FundingSent, RefundAsked,
     RefundSigned, SignatureSent, SignatureTaken, AskedToPublish, AskedToSign,
     FundingSignedBySignd
<1>5. BatonOK(c)'
  BY Zenon, <1>2, <1>3, <1>4 DEF BatonOK
<1>6. \A d \in Chan \ {c} : SameCtl(d) /\ SameActl(d) /\ SameP2p(d) /\ SameLnpd(d)
                      /\ SameChanneld(d) /\ SamePeer(d)
  BY ZenonT(30) DEF SameCtl, SameActl, SameP2p, SameLnpd, SameChanneld,
     SamePeer
<1> QED
  BY Zenon, <1>5, <1>6, ChannelMove

LEMMA WatchdTracksBaton ==
    ASSUME IInv, FilingInv, BatonInv, NEW m \in ctl, WatchdTracks(m)
    PROVE  BatonInv'
<1>1. PICK c \in Chan : c = m.chan
  BY Zenon, BatonFacts
<1>2. /\ m = CtlMsg("Track", Perm(c), Watch, c) /\ m.src = Perm(c)
      /\ m.type = "Track" /\ BatonOK(c)
      /\ ctl' = ctl \ {m} /\ tracking' = tracking \cup {<<Perm(c), c>>}
      /\ UNCHANGED <<actl, p2p, lnpdVars, proposeVars, acceptVars>>
  BY Zenon, <1>1, BatonFacts DEF WatchdTracks, Receive, CtlForm
<1>3. \A t, s, r, d :
          (t \notin {"Track", "TxFound"} \/ d # c) =>
              (CtlMsg(t, s, r, d) \in ctl' <=> CtlMsg(t, s, r, d) \in ctl)
  BY Zenon, <1>1, <1>2, CtlTaken
<1>4. \A d \in Chan \ {c} :
          <<Perm(d), d>> \in tracking' <=> <<Perm(d), d>> \in tracking
  BY ZenonT(30), <1>2
<1>5. FormOK'
  BY SMTT(30), <1>2 DEF BatonInv, FormOK, CtlForm, ActlForm, P2pForm
<1>6. /\ TrackAsked(c) /\ ~TrackAsked(c)' /\ Tracked(c)'
      /\ TxSeen(c)' <=> TxSeen(c)
  BY SMTT(30), <1>2, CtlFields DEF TrackAsked, Tracked, TxSeen
<1>7. LockOK(c)'
  BY Zenon, <1>2, <1>6
     DEF BatonOK, LockOK, LockSent, RouterGreeted, RouterEchoed, LockTaken,
         proposeVars, acceptVars
<1> QED
  BY Zenon, <1>2, <1>3, <1>4, <1>5, <1>7, WatchdMove

LEMMA WatchdFindsBaton ==
    ASSUME BatonInv, NEW service \in ChannelIds, NEW c \in Chan,
           WatchdFinds(service, c)
    PROVE  BatonInv'
<1> DEFINE n == CtlMsg("TxFound", Watch, Perm(c), c)
<1>1. /\ BatonOK(c) /\ service = Perm(c) /\ <<service, c>> \in tracking
  BY Zenon DEF WatchdFinds, BatonInv, FormOK
<1>2. /\ <<Perm(c), c>> \in tracking
      /\ ctl' = ctl \cup {n} /\ tracking' = tracking \ {<<Perm(c), c>>}
      /\ UNCHANGED <<actl, p2p, lnpdVars, proposeVars, acceptVars>>
  BY Zenon, <1>1 DEF WatchdFinds
<1>3. \A t, s, r, d :
          (t \notin {"Track", "TxFound"} \/ d # c) =>
              (CtlMsg(t, s, r, d) \in ctl' <=> CtlMsg(t, s, r, d) \in ctl)
  BY <1>2, CtlFields
<1>4. \A d \in Chan \ {c} :
          <<Perm(d), d>> \in tracking' <=> <<Perm(d), d>> \in tracking
  BY Zenon, <1>2
<1>5. FormOK'
  <2>1. CtlForm(n)
    BY SMTT(30), CtlFields, IdsApart DEF CtlForm
  <2>2. \A x \in ctl' : CtlForm(x)'
    BY ZenonT(30), <1>2, <2>1 DEF BatonInv, FormOK, CtlForm
  <2> QED
    BY ZenonT(30), <1>2, <2>2 DEF BatonInv, FormOK, ActlForm, P2pForm
<1>6. /\ Tracked(c) /\ ~Tracked(c)' /\ (TrackAsked(c)' <=> TrackAsked(c))
  BY <1>2, CtlFields DEF TrackAsked, Tracked, TxSeen
<1>7. LockOK(c)'
  BY Zenon, <1>1, <1>2, <1>6
     DEF BatonOK, LockOK, LockSent, RouterGreeted, RouterEchoed, LockTaken,
         proposeVars, acceptVars
<1> QED
  BY Zenon, <1>2, <1>3, <1>4, <1>5, <1>7, WatchdMove

=============================================================================
