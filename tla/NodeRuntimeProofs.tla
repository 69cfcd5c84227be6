------------------------- MODULE NodeRuntimeProofs --------------------------
(***************************************************************************)
(* Proofs about the state files of channels, for any number of channels,   *)
(* peers, clients and mishaps.                                             *)
(***************************************************************************)
EXTENDS NodeRuntime, TLAPS

(* Types of what the argument is about.                                      *)
StoreTypeOK ==
    /\ role \in [Chan -> {"none", "propose", "accept"}]
    /\ daemon \in [Chan -> {"none", "launching", "fresh", "relaunching",
                         "restored"}]
    /\ identity \in [Chan -> {"temp", "perm"}]
    /\ state \in [Chan -> Int] /\ sent \in [Chan -> Int]
    /\ pc \in [Chan -> {"idle", "created", "renamed", "removed", "handled",
                     "saving"}]
    /\ file \in [Chan -> [temp : Int, perm : Int]]

(* Before a channel is opened nothing runs for it; a daemon that does not    *)
(* run yet, or any more, has no state.                                       *)
QuietOK(c) ==
    /\ role[c] = "none" => daemon[c] = "none" /\ sent[c] = 0
    /\ daemon[c] = "launching" => sent[c] = 0
    /\ ~Running(c) => pc[c] = "idle" /\ state[c] = 0 /\ identity[c] = "temp"

(* Only a channel whose permanent id the peer knows is re-established.       *)
RelaunchOK(c) ==
    c \in wire \/ daemon[c] = "relaunching" =>
        role[c] # "none" /\ sent[c] >= Renaming(c)

(* Stage and id of a running daemon against what was sent.                   *)
StageOK(c) ==
    /\ 0 <= sent[c] /\ sent[c] <= Active(c)
    /\ daemon[c] = "fresh" =>
           /\ sent[c] <= state[c] /\ state[c] <= Active(c)
           /\ identity[c] = "temp" => state[c] < Renaming(c)
           /\ identity[c] = "perm" => state[c] >= Renaming(c) - 1
    /\ daemon[c] = "restored" =>
           identity[c] = "perm" /\ state[c] >= sent[c] - 1 /\ state[c] >= 0

(* Where a daemon is within set_identity.                                    *)
RenameOK(c) ==
    /\ pc[c] \in {"created", "renamed", "removed"} =>
           daemon[c] = "fresh" /\ state[c] + 1 = Renaming(c)
    /\ pc[c] = "created" => identity[c] = "temp"
    /\ pc[c] \in {"renamed", "removed"} =>
           identity[c] = "perm" /\ file[c].perm = state[c]

(* The files.                                                                *)
FileOK(c) ==
    /\ (Running(c) /\ pc[c] = "idle" /\ state[c] > 0) =>
           file[c][identity[c]] = state[c]
    /\ (role[c] # "none" /\ sent[c] >= Renaming(c)) =>
           \/ file[c].perm >= sent[c] - 1
           \/ file[c].perm = Broken /\ (pc[c] = "saving" \/ ~Running(c))

ChanOK(c) ==
    QuietOK(c) /\ RelaunchOK(c) /\ StageOK(c) /\ RenameOK(c) /\ FileOK(c)

(* The inductive invariant.                                                  *)
IInv == StoreTypeOK /\ wire \subseteq Chan /\ \A c \in Chan : ChanOK(c)

(* What the invariant says of a channel depends on that channel alone.       *)
SameAt(c) ==
    /\ role'[c] = role[c] /\ daemon'[c] = daemon[c] /\ identity'[c] = identity[c]
    /\ state'[c] = state[c] /\ sent'[c] = sent[c] /\ pc'[c] = pc[c]
    /\ file'[c] = file[c] /\ (c \in wire' => c \in wire)

(* The frame of a channel that a step does not touch.                        *)
LEMMA OtherChannel ==
    ASSUME NEW c \in Chan, ChanOK(c), SameAt(c)
    PROVE  ChanOK(c)'
BY ZenonT(30) DEF SameAt, ChanOK, QuietOK, RelaunchOK, StageOK, RenameOK,
   FileOK, Running,
   Active, Renaming

(* ChanneldCreates: a launched daemon has sent nothing and is at stage 0.    *)
LEMMA ChanneldCreatesStep ==
    ASSUME IInv, NEW d \in Chan, ChanneldCreates(d)
    PROVE  IInv'
<1>1. StoreTypeOK' /\ wire' \subseteq Chan
  BY DEF IInv, StoreTypeOK, ChanneldCreates, Broken
<1>2. ASSUME NEW c \in Chan, c # d
      PROVE  ChanOK(c)'
  <2>1. SameAt(c)
    BY Zenon, <1>2 DEF IInv, StoreTypeOK, SameAt, ChanneldCreates
  <2>2. QED
    BY Zenon, <2>1, <1>2, OtherChannel DEF IInv
<1>3. ChanOK(d)'
  BY DEF IInv, StoreTypeOK, ChanneldCreates, ChanOK, QuietOK, RelaunchOK,
     StageOK, RenameOK, FileOK, Running, Active, Renaming, Broken
<1>4. QED
  BY Zenon, <1>1, <1>2, <1>3 DEF IInv

(* ChanneldRestores: a relaunched daemon has a readable file, which          *)
(* RelaunchOK and FileOK keep close to what was sent.                        *)
LEMMA ChanneldRestoresStep ==
    ASSUME IInv, NEW d \in Chan, ChanneldRestores(d)
    PROVE  IInv'
<1>1. StoreTypeOK' /\ wire' \subseteq Chan
  <2>1. file[d].perm \in Int
    BY Zenon DEF IInv, StoreTypeOK
  <2>2. QED
    BY Zenon, <2>1 DEF IInv, StoreTypeOK, ChanneldRestores
<1>2. ASSUME NEW c \in Chan, c # d
      PROVE  ChanOK(c)'
  <2>1. SameAt(c)
    BY ZenonT(30), <1>2 DEF IInv, StoreTypeOK, SameAt, ChanneldRestores
  <2>2. QED
    BY Zenon, <2>1, <1>2, OtherChannel DEF IInv
<1>3. ChanOK(d)'
  BY DEF IInv, StoreTypeOK, ChanneldRestores, ChanOK, QuietOK, RelaunchOK,
     StageOK, RenameOK, FileOK, Running, Active, Renaming, Broken
<1>4. QED
  BY Zenon, <1>1, <1>2, <1>3 DEF IInv

(* ProcessEvent: the file under the permanent id holds the stage the         *)
(* messages start from.                                                      *)
LEMMA ProcessEventStep ==
    ASSUME IInv, NEW d \in Chan, ProcessEvent(d)
    PROVE  IInv'
<1>1. StoreTypeOK' /\ wire' \subseteq Chan
  BY DEF IInv, StoreTypeOK, ProcessEvent, EventComes, Transition
<1>2. ASSUME NEW c \in Chan, c # d
      PROVE  ChanOK(c)'
  <2>1. SameAt(c)
    BY Zenon, <1>2 DEF IInv, StoreTypeOK, SameAt, ProcessEvent, EventComes,
       Transition
  <2>2. QED
    BY Zenon, <2>1, <1>2, OtherChannel DEF IInv
<1>3. ChanOK(d)'
  BY DEF IInv, StoreTypeOK, ProcessEvent, EventComes, Transition, ChanOK,
     QuietOK, RelaunchOK, StageOK, RenameOK, FileOK, Running, Active,
     Renaming, Broken
<1>4. QED
  BY Zenon, <1>1, <1>2, <1>3 DEF IInv

(* RenameCreates: the permanent file is emptied before anything was sent     *)
(* under its id.                                                             *)
LEMMA RenameCreatesStep ==
    ASSUME IInv, NEW d \in Chan, RenameCreates(d)
    PROVE  IInv'
<1>1. StoreTypeOK' /\ wire' \subseteq Chan
  BY DEF IInv, StoreTypeOK, RenameCreates, EventComes, Broken
<1>2. ASSUME NEW c \in Chan, c # d
      PROVE  ChanOK(c)'
  <2>1. SameAt(c)
    BY Zenon, <1>2 DEF IInv, StoreTypeOK, SameAt, RenameCreates, EventComes
  <2>2. QED
    BY Zenon, <2>1, <1>2, OtherChannel DEF IInv
<1>3. ChanOK(d)'
  BY DEF IInv, StoreTypeOK, RenameCreates, EventComes, ChanOK, QuietOK,
     RelaunchOK, StageOK, RenameOK, FileOK, Running, Active, Renaming, Broken
<1>4. QED
  BY Zenon, <1>1, <1>2, <1>3 DEF IInv

(* RenameSaves: the stage before the transition is saved.                    *)
LEMMA RenameSavesStep ==
    ASSUME IInv, NEW d \in Chan, RenameSaves(d)
    PROVE  IInv'
<1>1. StoreTypeOK' /\ wire' \subseteq Chan
  BY Zenon DEF IInv, StoreTypeOK, RenameSaves
<1>2. ASSUME NEW c \in Chan, c # d
      PROVE  ChanOK(c)'
  <2>1. SameAt(c)
    BY Zenon, <1>2 DEF IInv, StoreTypeOK, SameAt, RenameSaves
  <2>2. QED
    BY Zenon, <2>1, <1>2, OtherChannel DEF IInv
<1>3. ChanOK(d)'
  BY DEF IInv, StoreTypeOK, RenameSaves, ChanOK, QuietOK, RelaunchOK,
     StageOK, RenameOK, FileOK, Running, Active, Renaming, Broken
<1>4. QED
  BY Zenon, <1>1, <1>2, <1>3 DEF IInv

(* RenameRemoves: the temporary file is not the one of the daemon any more.  *)
LEMMA RenameRemovesStep ==
    ASSUME IInv, NEW d \in Chan, RenameRemoves(d)
    PROVE  IInv'
<1>1. StoreTypeOK' /\ wire' \subseteq Chan
  BY DEF IInv, StoreTypeOK, RenameRemoves, Absent
<1>2. ASSUME NEW c \in Chan, c # d
      PROVE  ChanOK(c)'
  <2>1. SameAt(c)
    BY Zenon, <1>2 DEF IInv, StoreTypeOK, SameAt, RenameRemoves
  <2>2. QED
    BY Zenon, <2>1, <1>2, OtherChannel DEF IInv
<1>3. ChanOK(d)'
  BY ZenonT(30) DEF IInv, StoreTypeOK, RenameRemoves, ChanOK, QuietOK,
     RelaunchOK,
     StageOK, RenameOK, FileOK, Running, Active, Renaming, Broken
<1>4. QED
  BY Zenon, <1>1, <1>2, <1>3 DEF IInv

(* RenameProcesses: the messages leave one stage ahead of the file.          *)
LEMMA RenameProcessesStep ==
    ASSUME IInv, NEW d \in Chan, RenameProcesses(d)
    PROVE  IInv'
<1>1. StoreTypeOK' /\ wire' \subseteq Chan
  BY DEF IInv, StoreTypeOK, RenameProcesses, Transition
<1>2. ASSUME NEW c \in Chan, c # d
      PROVE  ChanOK(c)'
  <2>1. SameAt(c)
    BY Zenon, <1>2 DEF IInv, StoreTypeOK, SameAt, RenameProcesses, Transition
  <2>2. QED
    BY Zenon, <2>1, <1>2, OtherChannel DEF IInv
<1>3. ChanOK(d)'
  BY DEF IInv, StoreTypeOK, RenameProcesses, Transition, ChanOK, QuietOK,
     RelaunchOK, StageOK, RenameOK, FileOK, Running, Active, Renaming, Broken
<1>4. QED
  BY Zenon, <1>1, <1>2, <1>3 DEF IInv

(* RenameRefuses: the file holds the stage that is kept.                     *)
LEMMA RenameRefusesStep ==
    ASSUME IInv, NEW d \in Chan, RenameRefuses(d)
    PROVE  IInv'
<1>1. StoreTypeOK' /\ wire' \subseteq Chan
  BY Zenon DEF IInv, StoreTypeOK, RenameRefuses
<1>2. ASSUME NEW c \in Chan, c # d
      PROVE  ChanOK(c)'
  <2>1. SameAt(c)
    BY Zenon, <1>2 DEF IInv, StoreTypeOK, SameAt, RenameRefuses
  <2>2. QED
    BY Zenon, <2>1, <1>2, OtherChannel DEF IInv
<1>3. ChanOK(d)'
  BY Zenon DEF IInv, StoreTypeOK, RenameRefuses, ChanOK, QuietOK, RelaunchOK,
     StageOK, RenameOK, FileOK, Running, Active, Renaming, Broken
<1>4. QED
  BY Zenon, <1>1, <1>2, <1>3 DEF IInv

(* SaveBegins: the overwriting is told by the program counter.               *)
LEMMA SaveBeginsStep ==
    ASSUME IInv, NEW d \in Chan, SaveBegins(d)
    PROVE  IInv'
<1>1. StoreTypeOK' /\ wire' \subseteq Chan
  BY DEF IInv, StoreTypeOK, SaveBegins, Broken
<1>2. ASSUME NEW c \in Chan, c # d
      PROVE  ChanOK(c)'
  <2>1. SameAt(c)
    BY Zenon, <1>2 DEF IInv, StoreTypeOK, SameAt, SaveBegins
  <2>2. QED
    BY Zenon, <2>1, <1>2, OtherChannel DEF IInv
<1>3. ChanOK(d)'
  BY DEF IInv, StoreTypeOK, SaveBegins, ChanOK, QuietOK, RelaunchOK,
     StageOK, RenameOK, FileOK, Running, Active, Renaming, Broken
<1>4. QED
  BY Zenon, <1>1, <1>2, <1>3 DEF IInv

(* SaveEnds: the stage saved is at least the last one sent, less one.        *)
LEMMA SaveEndsStep ==
    ASSUME IInv, NEW d \in Chan, SaveEnds(d)
    PROVE  IInv'
<1>1. StoreTypeOK' /\ wire' \subseteq Chan
  BY Zenon DEF IInv, StoreTypeOK, SaveEnds
<1>2. ASSUME NEW c \in Chan, c # d
      PROVE  ChanOK(c)'
  <2>1. SameAt(c)
    BY Zenon, <1>2 DEF IInv, StoreTypeOK, SameAt, SaveEnds
  <2>2. QED
    BY Zenon, <2>1, <1>2, OtherChannel DEF IInv
<1>3. ChanOK(d)'
  BY DEF IInv, StoreTypeOK, SaveEnds, ChanOK, QuietOK, RelaunchOK,
     StageOK, RenameOK, FileOK, Running, Active, Renaming, Broken
<1>4. QED
  BY Zenon, <1>1, <1>2, <1>3 DEF IInv

(* LaunchReestablish: a daemon is relaunched for a channel whose permanent   *)
(* id the peer knows.                                                        *)
LEMMA LaunchReestablishStep ==
    ASSUME IInv, NEW d \in Chan, LaunchReestablish(d)
    PROVE  IInv'
<1>1. StoreTypeOK' /\ wire' \subseteq Chan
  BY Zenon DEF IInv, StoreTypeOK, LaunchReestablish
<1>2. ASSUME NEW c \in Chan, c # d
      PROVE  ChanOK(c)'
  <2>1. SameAt(c)
    BY Zenon, <1>2 DEF IInv, StoreTypeOK, SameAt, LaunchReestablish
  <2>2. QED
    BY Zenon, <2>1, <1>2, OtherChannel DEF IInv
<1>3. ChanOK(d)'
  BY Zenon DEF IInv, StoreTypeOK, LaunchReestablish, ChanOK, QuietOK,
     RelaunchOK,
     StageOK, RenameOK, FileOK, Running, Active, Renaming, Broken
<1>4. QED
  BY Zenon, <1>1, <1>2, <1>3 DEF IInv

(* CompleteReestablish: no stage sent is beyond the active one.              *)
LEMMA CompleteReestablishStep ==
    ASSUME IInv, NEW d \in Chan, CompleteReestablish(d)
    PROVE  IInv'
<1>1. StoreTypeOK' /\ wire' \subseteq Chan
  BY DEF IInv, StoreTypeOK, CompleteReestablish, Reachable, Active
<1>2. ASSUME NEW c \in Chan, c # d
      PROVE  ChanOK(c)'
  <2>1. SameAt(c)
    BY Zenon, <1>2 DEF IInv, StoreTypeOK, SameAt, CompleteReestablish,
       Reachable
  <2>2. QED
    BY Zenon, <2>1, <1>2, OtherChannel DEF IInv
<1>3. ChanOK(d)'
  BY DEF IInv, StoreTypeOK, CompleteReestablish, Reachable, ChanOK, QuietOK,
     RelaunchOK, StageOK, RenameOK, FileOK, Running, Active, Renaming, Broken
<1>4. QED
  BY Zenon, <1>1, <1>2, <1>3 DEF IInv

(* ChanneldCrashes: the files stay; FileOK allows for an interrupted save.   *)
LEMMA ChanneldCrashesStep ==
    ASSUME IInv, NEW d \in Chan, ChanneldCrashes(d)
    PROVE  IInv'
<1>1. StoreTypeOK' /\ wire' \subseteq Chan
  BY DEF IInv, StoreTypeOK, ChanneldCrashes
<1>2. ASSUME NEW c \in Chan, c # d
      PROVE  ChanOK(c)'
  <2>1. SameAt(c)
    BY Zenon, <1>2 DEF IInv, StoreTypeOK, SameAt, ChanneldCrashes
  <2>2. QED
    BY Zenon, <2>1, <1>2, OtherChannel DEF IInv
<1>3. ChanOK(d)'
  BY ZenonT(30) DEF IInv, StoreTypeOK, ChanneldCrashes, ChanOK, QuietOK,
     RelaunchOK,
     StageOK, RenameOK, FileOK, Running, Active, Renaming, Broken
<1>4. QED
  BY Zenon, <1>1, <1>2, <1>3 DEF IInv

(* PeerReestablishes: the peer names a channel with a permanent id.          *)
LEMMA PeerReestablishesStep ==
    ASSUME IInv, NEW d \in Chan, PeerReestablishes(d)
    PROVE  IInv'
<1>1. StoreTypeOK' /\ wire' \subseteq Chan
  BY Zenon DEF IInv, StoreTypeOK, PeerReestablishes
<1>2. ASSUME NEW c \in Chan, c # d
      PROVE  ChanOK(c)'
  <2>1. SameAt(c)
    BY Zenon, <1>2 DEF IInv, StoreTypeOK, SameAt, PeerReestablishes
  <2>2. QED
    BY Zenon, <2>1, <1>2, OtherChannel DEF IInv
<1>3. ChanOK(d)'
  BY Zenon DEF IInv, StoreTypeOK, PeerReestablishes, ChanOK, QuietOK,
     RelaunchOK,
     StageOK, RenameOK, FileOK, Running, Active, Renaming, Broken
<1>4. QED
  BY Zenon, <1>1, <1>2, <1>3 DEF IInv

(* LaunchChannel: nothing was sent for a channel without role.               *)
LEMMA LaunchChannelStep ==
    ASSUME IInv, NEW d \in Chan, NEW side \in {"propose", "accept"},
           LaunchChannel(d, side)
    PROVE  IInv'
<1>1. StoreTypeOK' /\ wire' \subseteq Chan
  BY Zenon DEF IInv, StoreTypeOK, LaunchChannel
<1>2. ASSUME NEW c \in Chan, c # d
      PROVE  ChanOK(c)'
  <2>1. SameAt(c)
    BY Zenon, <1>2 DEF IInv, StoreTypeOK, SameAt, LaunchChannel
  <2>2. QED
    BY Zenon, <2>1, <1>2, OtherChannel DEF IInv
<1>3. ChanOK(d)'
  BY DEF IInv, StoreTypeOK, LaunchChannel, ChanOK, QuietOK, RelaunchOK,
     StageOK, RenameOK, FileOK, Running, Active, Renaming, Broken
<1>4. QED
  BY Zenon, <1>1, <1>2, <1>3 DEF IInv

(* HandleEsbError: a save of an active channel begins.                       *)
LEMMA HandleEsbErrorStep ==
    ASSUME IInv, NEW d \in Chan, EsbErrorStep(d)
    PROVE  IInv'
<1>1. StoreTypeOK' /\ wire' \subseteq Chan
  BY Zenon DEF IInv, StoreTypeOK, EsbErrorStep, HandleEsbError
<1>2. ASSUME NEW c \in Chan, c # d
      PROVE  ChanOK(c)'
  <2>1. SameAt(c)
    BY Zenon, <1>2 DEF IInv, StoreTypeOK, SameAt, EsbErrorStep, HandleEsbError
  <2>2. QED
    BY Zenon, <2>1, <1>2, OtherChannel DEF IInv
<1>3. ChanOK(d)'
  BY Zenon DEF IInv, StoreTypeOK, EsbErrorStep, HandleEsbError, ChanOK,
     QuietOK,
     RelaunchOK, StageOK, RenameOK, FileOK, Running, Active, Renaming
<1>4. QED
  BY Zenon, <1>1, <1>2, <1>3 DEF IInv

(* A restart of the node: the files and what was sent stay.                  *)
LEMMA RestartStep ==
    ASSUME IInv, NodeRestarts
    PROVE  IInv'
<1>1. StoreTypeOK' /\ wire' \subseteq Chan
  BY DEF IInv, StoreTypeOK, NodeRestarts, StoreReset
<1>2. ASSUME NEW c \in Chan
      PROVE  ChanOK(c)'
  BY Zenon, <1>2 DEF IInv, StoreTypeOK, NodeRestarts, StoreReset, ChanOK,
     QuietOK,
     RelaunchOK, StageOK, RenameOK, FileOK, Running, Active, Renaming
<1>3. QED
  BY Zenon, <1>1, <1>2 DEF IInv

(* Steps that leave daemons and files alone, and at most take a              *)
(* ChannelReestablish from lnpd.                                             *)
LEMMA QuietStep ==
    ASSUME IInv, wire' \subseteq wire,
           UNCHANGED <<role, daemon, identity, state, pc, file, sent>>
    PROVE  IInv'
<1>1. StoreTypeOK' /\ wire' \subseteq Chan
  BY Zenon DEF IInv, StoreTypeOK
<1>2. ASSUME NEW c \in Chan
      PROVE  ChanOK(c)'
  <2>1. SameAt(c)
    BY Zenon DEF SameAt
  <2>2. QED
    BY Zenon, <2>1, <1>2, OtherChannel DEF IInv
<1>3. QED
  BY Zenon, <1>1, <1>2 DEF IInv

-----------------------------------------------------------------------------
(* Steps of a channel's daemon, and of lnpd about it.                        *)
LEMMA StoreStepKeeps ==
    ASSUME IInv, NEW c \in Chan, StoreStep(c)
    PROVE  IInv'
<1>1. CASE ChanneldCreates(c)
  BY Zenon, <1>1, ChanneldCreatesStep
<1>2. CASE ChanneldRestores(c)
  BY Zenon, <1>2, ChanneldRestoresStep
<1>3. CASE LnpdConstructs(c) \/ HandleChannelUpdate(c)
  BY Zenon, <1>3, QuietStep DEF LnpdConstructs, HandleChannelUpdate
<1>4. CASE HandleChannelHello(Temp(c)) \/ HandleChannelHello(Perm(c))
  BY Zenon, <1>4, QuietStep DEF HandleChannelHello
<1>5. CASE RenameSaves(c)
  BY Zenon, <1>5, RenameSavesStep
<1>6. CASE RenameRemoves(c)
  BY Zenon, <1>6, RenameRemovesStep
<1>7. CASE SaveBegins(c)
  BY Zenon, <1>7, SaveBeginsStep
<1>8. CASE SaveEnds(c)
  BY Zenon, <1>8, SaveEndsStep
<1>9. CASE ForwardReestablish(c)
  BY Zenon, <1>9, QuietStep DEF ForwardReestablish
<1>10. CASE LaunchReestablish(c)
  BY Zenon, <1>10, LaunchReestablishStep
<1>11. QED
  BY Zenon, <1>1, <1>2, <1>3, <1>4, <1>5, <1>6, <1>7, <1>8, <1>9, <1>10
     DEF StoreStep

(* Steps of a channel's daemon that may or may not come.                     *)
LEMMA StoreMayStepKeeps ==
    ASSUME IInv, NEW c \in Chan, StoreMayStep(c)
    PROVE  IInv'
<1>1. CASE RenameCreates(c)
  BY Zenon, <1>1, RenameCreatesStep
<1>2. CASE RenameRefuses(c)
  BY Zenon, <1>2, RenameRefusesStep
<1>3. CASE LaunchReestablishFails(c) \/ RefuseReestablish(c)
  BY Zenon, <1>3, QuietStep DEF LaunchReestablishFails, RefuseReestablish
<1>4. QED
  BY Zenon, <1>1, <1>2, <1>3 DEF StoreMayStep

(* Steps of clients, of routed and of a payment at its channel.              *)
LEMMA ClientStepKeeps ==
    ASSUME IInv, NEW cl \in Client,
           \/ \E p \in Peer : ClientConnects(cl, p)
           \/ \E a \in Addr : ClientListens(cl, a)
           \/ \E c \in Chan : ClientPays(cl, c)
           \/ PaymentStep(cl)
    PROVE  IInv'
<1>1. UNCHANGED storeVars
  BY Zenon DEF ClientConnects, ClientListens, ClientPays, PaymentStep
<1>2. QED
  BY Zenon, <1>1, QuietStep DEF storeVars

(* Steps of peer daemons.                                                    *)
LEMMA PeerdStepKeeps ==
    ASSUME IInv, NEW p \in Peer,
           PeerdStep(p) \/ PeerdMayStep(p) \/ ConnectionEnds(p)
    PROVE  IInv'
BY Zenon, QuietStep DEF PeerdStep, PeerdMayStep, ConnectionEnds, storeVars

(* Every step of the node keeps the invariant.                               *)
LEMMA NextKeeps ==
    ASSUME IInv, [Next]_vars
    PROVE  IInv'
<1>1. CASE UNCHANGED vars
  BY Zenon, <1>1, QuietStep DEF vars, storeVars
<1>2. CASE NodeRestarts
  BY Zenon, <1>2, RestartStep
<1>3. ASSUME NEW p \in Peer, PeerdStep(p) \/ PeerdMayStep(p) \/ ConnectionEnds(p)
      PROVE  IInv'
  BY Zenon, <1>3, PeerdStepKeeps
<1>4. ASSUME NEW cl \in Client,
             \/ \E p \in Peer : ClientConnects(cl, p)
             \/ \E a \in Addr : ClientListens(cl, a)
             \/ \E c \in Chan : ClientPays(cl, c)
             \/ PaymentStep(cl)
      PROVE  IInv'
  BY Zenon, <1>4, ClientStepKeeps
<1>5. ASSUME NEW c \in Chan,
             \/ ChannelOpens(c) \/ PeerAsks(c)
             \/ StoreStep(c) \/ StoreMayStep(c)
             \/ WorkflowStep(c) \/ WorkflowGoesOn(c)
             \/ ChannelReestablished(c) \/ ChannelCrashes(c)
             \/ EsbErrorStep(c)
      PROVE  IInv'
  <2>1. CASE ChannelOpens(c)
    BY Zenon, <2>1, LaunchChannelStep DEF ChannelOpens
  <2>2. CASE PeerAsks(c)
    BY Zenon, <2>2, PeerReestablishesStep DEF PeerAsks
  <2>3. CASE StoreStep(c) \/ StoreMayStep(c)
    BY Zenon, <2>3, StoreStepKeeps, StoreMayStepKeeps
  <2>4. CASE WorkflowStep(c)
    BY Zenon, <2>4, ProcessEventStep DEF WorkflowStep
  <2>5. CASE WorkflowGoesOn(c)
    BY Zenon, <2>5, RenameProcessesStep DEF WorkflowGoesOn
  <2>6. CASE ChannelReestablished(c)
    BY Zenon, <2>6, CompleteReestablishStep DEF ChannelReestablished
  <2>7. CASE ChannelCrashes(c)
    BY Zenon, <2>7, ChanneldCrashesStep DEF ChannelCrashes
  <2>8. CASE EsbErrorStep(c)
    BY Zenon, <2>8, HandleEsbErrorStep
  <2>9. QED
    BY Zenon, <1>5, <2>1, <2>2, <2>3, <2>4, <2>5, <2>6, <2>7, <2>8
<1>6. QED
  BY Zenon, <1>1, <1>2, <1>3, <1>4, <1>5 DEF Next

(* The inductive invariant holds throughout, for any number of channels,     *)
(* clients, peers and mishaps.                                               *)
THEOREM StoreInvariance == Spec => []IInv
<1>1. Init => IInv
  BY DEF Init, StoreInit, IInv, StoreTypeOK, ChanOK, QuietOK, RelaunchOK,
     StageOK, RenameOK, FileOK, Running, Active, Renaming, Absent
<1>2. IInv /\ [Next]_vars => IInv'
  BY Zenon, NextKeeps
<1>3. QED
  BY <1>1, <1>2, PTL DEF Spec

(* The file of a channel lags by one stage at most behind what its peer was  *)
(* sent, through set_identity, process and save_state, wherever the daemon   *)
(* dies.                                                                     *)
THEOREM FilesLagByOne == Spec => []StoreLagsByOne
<1>1. IInv => StoreLagsByOne
  BY Zenon DEF IInv, ChanOK, FileOK, StoreLagsByOne
<1>2. QED
  BY <1>1, StoreInvariance, PTL

(* Between two messages the file under a daemon's own id holds its stage.    *)
THEOREM IdleDaemonsAreSaved == Spec => []IdleIsSaved
<1>1. IInv => IdleIsSaved
  BY Zenon DEF IInv, ChanOK, FileOK, IdleIsSaved
<1>2. QED
  BY <1>1, StoreInvariance, PTL

(* A daemon that run restored from a file is one stage behind at most.       *)
THEOREM RestoredDaemonsAreRecent == Spec => []RestoredIsRecent
<1>1. IInv => RestoredIsRecent
  BY Zenon DEF IInv, ChanOK, StageOK, RestoredIsRecent
<1>2. QED
  BY <1>1, StoreInvariance, PTL

-----------------------------------------------------------------------------
(* The second argument: answers to clients.                                  *)

ClientTypeOK ==
    /\ asks \in [Client -> Request]
    /\ told \in [Client -> SUBSET {"success", "failure"}]
    /\ spawning_peers \in [Peer -> Client \cup {NoClient}]
    /\ enquirer \in Client \cup {NoClient}
    /\ chan_enquirer \in [Chan -> Client \cup {NoClient}]
    /\ payments \subseteq Client \X Chan

(* The daemons report to clients that asked for a payment; a client that has *)
(* asked for nothing was told nothing.                                       *)
AskedOK ==
    /\ enquirer # NoClient => \E c \in Chan : asks[enquirer] = PayInvoice(c)
    /\ \A c \in Chan :
           chan_enquirer[c] # NoClient => asks[chan_enquirer[c]] = PayInvoice(c)
    /\ \A cl \in Client, c \in Chan :
           <<cl, c>> \in payments => asks[cl] = PayInvoice(c)
    /\ \A cl \in Client : asks[cl] = NoRequest => told[cl] = {}

ClientInv == ClientTypeOK /\ AskedOK /\ EnquirerIsWaiting /\ SuccessIsEarned

(* ConnectPeer: a client that has asked nothing before is filed, or is told. *)
LEMMA ConnectPeerAnswers ==
    ASSUME ClientInv, NEW client \in Client,
           NEW q \in Peer, ClientConnects(client, q)
    PROVE  ClientInv'
<1>1. ClientTypeOK'
  BY NodeAssumption DEF ClientConnects, HandleConnectPeer, paymentVars,
     ClientInv, ClientTypeOK, Asks, Tell, ToldAfter, Request, Mishap
<1>2. AskedOK'
  BY NodeAssumption DEF ClientConnects, HandleConnectPeer, paymentVars,
     ClientInv, ClientTypeOK, AskedOK, Asks, Tell, ToldAfter, NoRequest,
     ConnectPeer, Listen, PayInvoice
<1>3. EnquirerIsWaiting'
  BY NodeAssumption DEF ClientConnects, HandleConnectPeer, paymentVars,
     ClientInv, ClientTypeOK, AskedOK, Asks, Tell, ToldAfter,
     EnquirerIsWaiting, Answered, NoRequest, ConnectPeer, Listen, PayInvoice
<1>4. SuccessIsEarned'
  BY NodeAssumption DEF ClientConnects, HandleConnectPeer, paymentVars,
     ClientInv, ClientTypeOK, AskedOK, Asks, Tell, ToldAfter,
     EnquirerIsWaiting, SuccessIsEarned, Answered, KnownPeer, NoRequest,
     ConnectPeer, Listen, PayInvoice
<1>5. QED
  BY Zenon, <1>1, <1>2, <1>3, <1>4 DEF ClientInv

(* Listen: the address is filed whatever the answer.                         *)
LEMMA ListenAnswers ==
    ASSUME ClientInv, NEW client \in Client,
           NEW addr \in Addr, ClientListens(client, addr)
    PROVE  ClientInv'
<1>1. ClientTypeOK'
  BY NodeAssumption DEF ClientListens, HandleListen, paymentVars, ClientInv,
     ClientTypeOK, Asks, Tell, ToldAfter, Request, Mishap
<1>2. AskedOK'
  BY NodeAssumption DEF ClientListens, HandleListen, paymentVars, ClientInv,
     ClientTypeOK, AskedOK, Asks, Tell, ToldAfter, NoRequest, ConnectPeer,
     Listen, PayInvoice
<1>3. EnquirerIsWaiting'
  BY NodeAssumption DEF ClientListens, HandleListen, paymentVars, ClientInv,
     ClientTypeOK, AskedOK, Asks, Tell, ToldAfter, EnquirerIsWaiting,
     Answered, NoRequest, ConnectPeer, Listen, PayInvoice
<1>4. SuccessIsEarned'
  BY ZenonT(30), NodeAssumption DEF ClientListens, HandleListen, paymentVars,
     ClientInv,
     ClientTypeOK, AskedOK, Asks, Tell, ToldAfter, EnquirerIsWaiting,
     SuccessIsEarned, Answered, KnownPeer, NoRequest, ConnectPeer, Listen,
     PayInvoice
<1>5. QED
  BY Zenon, <1>1, <1>2, <1>3, <1>4 DEF ClientInv

(* Hello of a peer daemon: the client filed is told, and its entry becomes a *)
(* connection.                                                               *)
LEMMA HelloAnswers ==
    ASSUME ClientInv, NEW q \in Peer, HandlePeerHello(q), UNCHANGED paymentVars
    PROVE  ClientInv'
<1>1. ClientTypeOK'
  BY Zenon, NodeAssumption DEF HandlePeerHello, paymentVars, ClientInv,
     ClientTypeOK,
     Asks, Tell, ToldAfter, Request, Mishap
<1>2. AskedOK'
  BY NodeAssumption DEF HandlePeerHello, paymentVars, ClientInv, ClientTypeOK,
     AskedOK, Asks, Tell, ToldAfter, EnquirerIsWaiting, NoRequest,
     ConnectPeer, Listen, PayInvoice
<1>3. EnquirerIsWaiting'
  BY NodeAssumption DEF HandlePeerHello, paymentVars, ClientInv, ClientTypeOK,
     AskedOK, Asks, Tell, ToldAfter, EnquirerIsWaiting, Answered, NoRequest,
     ConnectPeer, Listen, PayInvoice
<1>4. SuccessIsEarned'
  BY NodeAssumption DEF HandlePeerHello, paymentVars, ClientInv, ClientTypeOK,
     AskedOK, Asks, Tell, ToldAfter, EnquirerIsWaiting, SuccessIsEarned,
     Answered, KnownPeer, NoRequest, ConnectPeer, Listen, PayInvoice
<1>5. QED
  BY Zenon, <1>1, <1>2, <1>3, <1>4 DEF ClientInv

(* PayInvoice: the enquirer of routed is a client that asked for a payment.  *)
LEMMA PayInvoiceAnswers ==
    ASSUME ClientInv, NEW client \in Client,
           NEW d \in Chan, ClientPays(client, d)
    PROVE  ClientInv'
<1>1. ClientTypeOK'
  BY NodeAssumption DEF ClientPays, HandlePayInvoice, registryVars, ClientInv,
     ClientTypeOK, Asks, Tell, ToldAfter, Request, Mishap
<1>2. AskedOK'
  BY NodeAssumption DEF ClientPays, HandlePayInvoice, registryVars, ClientInv,
     ClientTypeOK, AskedOK, Asks, Tell, ToldAfter, NoRequest, ConnectPeer,
     Listen, PayInvoice
<1>3. EnquirerIsWaiting'
  BY NodeAssumption DEF ClientPays, HandlePayInvoice, registryVars, ClientInv,
     ClientTypeOK, AskedOK, Asks, Tell, ToldAfter, EnquirerIsWaiting,
     Answered, NoRequest, ConnectPeer, Listen, PayInvoice
<1>4. SuccessIsEarned'
  BY NodeAssumption DEF ClientPays, HandlePayInvoice, registryVars, ClientInv,
     ClientTypeOK, AskedOK, Asks, Tell, ToldAfter, EnquirerIsWaiting,
     SuccessIsEarned, Answered, KnownPeer, NoRequest, ConnectPeer, Listen,
     PayInvoice
<1>5. QED
  BY Zenon, <1>1, <1>2, <1>3, <1>4 DEF ClientInv

(* An EsbError at routed is reported to a client that asked for a payment,   *)
(* if not the one concerned.                                                 *)
LEMMA RoutedAnswers ==
    ASSUME ClientInv, NEW client \in Client,
           RoutedReportsError(client), UNCHANGED registryVars
    PROVE  ClientInv'
<1>1. ClientTypeOK'
  BY Zenon, NodeAssumption DEF RoutedReportsError, registryVars, ClientInv,
     ClientTypeOK, Asks, Tell, ToldAfter, Request, Mishap
<1>2. AskedOK'
  BY NodeAssumption DEF RoutedReportsError, registryVars, ClientInv,
     ClientTypeOK, AskedOK, Asks, Tell, ToldAfter, NoRequest, ConnectPeer,
     Listen, PayInvoice
<1>3. EnquirerIsWaiting'
  BY NodeAssumption DEF RoutedReportsError, registryVars, ClientInv,
     ClientTypeOK, AskedOK, Asks, Tell, ToldAfter, EnquirerIsWaiting,
     Answered, NoRequest, ConnectPeer, Listen, PayInvoice
<1>4. SuccessIsEarned'
  BY Zenon, NodeAssumption DEF RoutedReportsError, registryVars, ClientInv,
     ClientTypeOK, AskedOK, Asks, Tell, ToldAfter, EnquirerIsWaiting,
     SuccessIsEarned, Answered, KnownPeer, NoRequest, ConnectPeer, Listen,
     PayInvoice
<1>5. QED
  BY Zenon, <1>1, <1>2, <1>3, <1>4 DEF ClientInv

(* Payment at a channel: success is told to the client whose HTLC has left.  *)
LEMMA PaymentAnswers ==
    ASSUME ClientInv, NEW client \in Client,
           NEW d \in Chan, HandlePayment(client, d),
           UNCHANGED registryVars
    PROVE  ClientInv'
<1>1. ClientTypeOK'
  BY ZenonT(30), NodeAssumption DEF HandlePayment, registryVars, ClientInv,
     ClientTypeOK,
     Asks, Tell, ToldAfter, Request, Mishap
<1>2. AskedOK'
  BY NodeAssumption DEF HandlePayment, registryVars, ClientInv, ClientTypeOK,
     AskedOK, Asks, Tell, ToldAfter, NoRequest, ConnectPeer, Listen,
     PayInvoice
<1>3. EnquirerIsWaiting'
  BY NodeAssumption DEF HandlePayment, registryVars, ClientInv, ClientTypeOK,
     AskedOK, Asks, Tell, ToldAfter, EnquirerIsWaiting, Answered, NoRequest,
     ConnectPeer, Listen, PayInvoice
<1>4. SuccessIsEarned'
  BY NodeAssumption DEF HandlePayment, registryVars, ClientInv, ClientTypeOK,
     AskedOK, Asks, Tell, ToldAfter, EnquirerIsWaiting, SuccessIsEarned,
     Answered, KnownPeer, NoRequest, ConnectPeer, Listen, PayInvoice
<1>5. QED
  BY Zenon, <1>1, <1>2, <1>3, <1>4 DEF ClientInv

(* EsbError at a channel: the failure goes to the client of a payment.       *)
LEMMA EsbErrorAnswers ==
    ASSUME ClientInv, NEW d \in Chan, EsbErrorStep(d)
    PROVE  ClientInv'
<1>1. ClientTypeOK'
  BY Zenon, NodeAssumption DEF EsbErrorStep, HandleEsbError, registryVars,
     ClientInv,
     ClientTypeOK, Asks, Tell, ToldAfter, Request, Mishap
<1>2. AskedOK'
  BY NodeAssumption DEF EsbErrorStep, HandleEsbError, registryVars, ClientInv,
     ClientTypeOK, AskedOK, Asks, Tell, ToldAfter, NoRequest, ConnectPeer,
     Listen, PayInvoice
<1>3. EnquirerIsWaiting'
  BY NodeAssumption DEF EsbErrorStep, HandleEsbError, registryVars, ClientInv,
     ClientTypeOK, AskedOK, Asks, Tell, ToldAfter, EnquirerIsWaiting,
     Answered, NoRequest, ConnectPeer, Listen, PayInvoice
<1>4. SuccessIsEarned'
  BY Zenon, NodeAssumption DEF EsbErrorStep, HandleEsbError, registryVars,
     ClientInv,
     ClientTypeOK, AskedOK, Asks, Tell, ToldAfter, EnquirerIsWaiting,
     SuccessIsEarned, Answered, KnownPeer, NoRequest, ConnectPeer, Listen,
     PayInvoice
<1>5. QED
  BY Zenon, <1>1, <1>2, <1>3, <1>4 DEF ClientInv

(* Steps that tell nobody anything: at most a Payment is under way no more,  *)
(* or a channel daemon forgets its enquirer.                                 *)
LEMMA SilentStep ==
    ASSUME ClientInv,
           UNCHANGED <<asks, told, spawning_peers, connections, listens,
                       enquirer, htlcs>>,
           payments' \subseteq payments,
           \/ UNCHANGED chan_enquirer
           \/ \E c \in Chan :
                  chan_enquirer' = [chan_enquirer EXCEPT ![c] = NoClient]
    PROVE  ClientInv'
<1>1. ClientTypeOK'
  BY Zenon DEF ClientInv, ClientTypeOK
<1>2. AskedOK'
  BY Zenon DEF ClientInv, ClientTypeOK, AskedOK
<1>3. EnquirerIsWaiting' /\ SuccessIsEarned'
  BY Zenon DEF ClientInv, EnquirerIsWaiting, SuccessIsEarned, Answered,
     KnownPeer
<1>4. QED
  BY Zenon, <1>1, <1>2, <1>3 DEF ClientInv

(* A restart leaves no client.                                               *)
LEMMA RestartForgets ==
    ASSUME NodeRestarts
    PROVE  ClientInv'
BY Zenon, NodeAssumption
   DEF NodeRestarts, RegistryReset, PaymentsReset, ClientInv, ClientTypeOK,
       AskedOK, EnquirerIsWaiting, SuccessIsEarned, Request

(* The steps about channels but EsbError are silent.                         *)
LEMMA ChannelStepIsSilent ==
    ASSUME ClientInv, NEW c \in Chan,
           \/ ChannelOpens(c) \/ PeerAsks(c)
           \/ StoreStep(c) \/ StoreMayStep(c)
           \/ WorkflowStep(c) \/ WorkflowGoesOn(c)
           \/ ChannelReestablished(c) \/ ChannelCrashes(c)
    PROVE  ClientInv'
<1>1. CASE ChannelCrashes(c)
  BY Zenon, <1>1, SilentStep DEF ChannelCrashes, clientVars, registryVars
<1>2. CASE ~ChannelCrashes(c)
  <2>1. UNCHANGED <<clientVars, registryVars, enquirer, payments, chan_enquirer,
                    htlcs>>
    BY Zenon, <1>2 DEF ChannelOpens, PeerAsks, StoreStep, StoreMayStep,
       WorkflowStep,
       WorkflowGoesOn, Sends, ChannelReestablished, paymentVars
  <2>2. QED
    BY Zenon, <2>1, SilentStep DEF clientVars, registryVars
<1>3. QED
  BY Zenon, <1>1, <1>2

(* Steps of peer daemons: only Hello answers.                                *)
LEMMA PeerdStepAnswers ==
    ASSUME ClientInv, NEW p \in Peer,
           PeerdStep(p) \/ PeerdMayStep(p) \/ ConnectionEnds(p)
    PROVE  ClientInv'
<1>1. CASE HandlePeerHello(p) /\ UNCHANGED paymentVars
  BY Zenon, <1>1, HelloAnswers
<1>2. CASE PeerdConnects(p) /\ UNCHANGED paymentVars
  BY Zenon, <1>2, SilentStep DEF PeerdConnects, clientVars, paymentVars
<1>3. CASE PeerdMayStep(p)
  BY Zenon, <1>3, SilentStep
     DEF PeerdMayStep, PeerArrives, PeerdFails, clientVars, paymentVars
<1>4. CASE ConnectionEnds(p)
  BY Zenon, <1>4, SilentStep DEF ConnectionEnds, PeerdStops, clientVars,
     paymentVars
<1>5. QED
  BY Zenon, <1>1, <1>2, <1>3, <1>4 DEF PeerdStep

(* Steps of clients, of routed and of a payment at its channel.              *)
LEMMA ClientStepAnswers ==
    ASSUME ClientInv, NEW cl \in Client,
           \/ \E p \in Peer : ClientConnects(cl, p)
           \/ \E a \in Addr : ClientListens(cl, a)
           \/ \E c \in Chan : ClientPays(cl, c)
           \/ PaymentStep(cl)
    PROVE  ClientInv'
<1>1. ASSUME NEW c \in Chan, PaymentBounces(cl, c), UNCHANGED registryVars
      PROVE  ClientInv'
  BY Zenon, <1>1, SilentStep DEF PaymentBounces, clientVars, registryVars
<1>2. CASE PaymentStep(cl)
  BY Zenon, <1>1, <1>2, RoutedAnswers, PaymentAnswers DEF PaymentStep
<1>3. QED
  BY Zenon, <1>2, ConnectPeerAnswers, ListenAnswers, PayInvoiceAnswers

(* Every step of the node keeps the invariant on answers.                    *)
LEMMA NextAnswers ==
    ASSUME ClientInv, [Next]_vars
    PROVE  ClientInv'
<1>1. CASE UNCHANGED vars
  BY Zenon, <1>1, SilentStep DEF vars, clientVars, registryVars, paymentVars
<1>2. ASSUME NEW c \in Chan, EsbErrorStep(c)
      PROVE  ClientInv'
  BY Zenon, <1>2, EsbErrorAnswers
<1>3. QED
  BY Zenon, <1>1, <1>2, RestartForgets, ChannelStepIsSilent, PeerdStepAnswers,
     ClientStepAnswers DEF Next

(* Clients are filed and told rightly, for any number of clients, peers,     *)
(* channels and mishaps.                                                     *)
THEOREM AnswerInvariance == Spec => []ClientInv
<1>1. Init => ClientInv
  BY Zenon, NodeAssumption DEF Init, RequestsInit, RegistryInit, PaymentsInit,
     ClientInv, ClientTypeOK, AskedOK, EnquirerIsWaiting, SuccessIsEarned,
     Request
<1>2. ClientInv /\ [Next]_vars => ClientInv'
  BY Zenon, NextAnswers
<1>3. QED
  BY <1>1, <1>2, PTL DEF Spec

(* Success is told to clients that have what they asked lnpd, or routed and  *)
(* channeld, for.                                                            *)
THEOREM SuccessesAreEarned == Spec => []SuccessIsEarned
<1>1. ClientInv => SuccessIsEarned
  BY Zenon DEF ClientInv
<1>2. QED
  BY <1>1, AnswerInvariance, PTL

(* Nobody else's report, of routed or of a channel, reaches a client that    *)
(* lnpd has filed in spawning_peers: it waits for its Hello without answer.  *)
THEOREM EnquirersWait == Spec => []EnquirerIsWaiting
<1>1. ClientInv => EnquirerIsWaiting
  BY Zenon DEF ClientInv
<1>2. QED
  BY <1>1, AnswerInvariance, PTL

-----------------------------------------------------------------------------
(* The third argument: lnpd's registries.                                    *)

(* Steps after which no more daemons run and every id known still is.        *)
LEMMA KnownStaysKnown ==
    ASSUME RunningIsRegistered,
           peerds' \subseteq peerds, connections \subseteq connections',
           phellos \subseteq phellos' \cup connections',
           \A c \in Chan : Running(c)' => Running(c),
           channels \cup hellos \subseteq channels' \cup hellos'
    PROVE  RunningIsRegistered'
BY Zenon DEF RunningIsRegistered, Temp, Perm

(* Steps of peer daemons: a daemon says Hello when it connects.              *)
LEMMA PeerdStepRegisters ==
    ASSUME RunningIsRegistered, NEW p \in Peer,
           PeerdStep(p) \/ PeerdMayStep(p) \/ ConnectionEnds(p)
    PROVE  RunningIsRegistered'
<1>1. peerds' \subseteq connections' \cup phellos'
  BY Zenon DEF RunningIsRegistered, PeerdStep, PeerdMayStep, ConnectionEnds,
     PeerdConnects, HandlePeerHello, PeerArrives, PeerdFails, PeerdStops
<1>2. UNCHANGED <<daemon, channels, hellos>>
  BY Zenon DEF PeerdStep, PeerdMayStep, ConnectionEnds, storeVars
<1>3. QED
  BY Zenon, <1>1, <1>2 DEF RunningIsRegistered, Running

(* Steps that rename a channel, or register it under one of its ids.         *)
LEMMA StoreStepRegisters ==
    ASSUME IInv, RunningIsRegistered, NEW d \in Chan, StoreStep(d)
    PROVE  RunningIsRegistered'
<1>1. UNCHANGED <<peerds, connections, phellos>>
  BY Zenon DEF StoreStep, registryVars
<1>2. CASE ChanneldCreates(d)
  BY Zenon, <1>1, <1>2 DEF IInv, StoreTypeOK, ChanneldCreates,
     RunningIsRegistered,
     Running, Temp, Perm
<1>3. CASE ChanneldRestores(d)
  <2>1. channels' = channels /\ hellos \subseteq hellos'
    BY Zenon, <1>3 DEF ChanneldRestores
  <2>2. \A c \in Chan \ {d} : daemon'[c] = daemon[c]
    BY Zenon, <1>3 DEF IInv, StoreTypeOK, ChanneldRestores
  <2>3. Running(d)' => Perm(d) \in hellos'
    BY Zenon, <1>3 DEF IInv, StoreTypeOK, ChanneldRestores, Running, Perm
  <2>4. ASSUME NEW c \in Chan, Running(c)'
        PROVE  {Temp(c), Perm(c)} \cap (channels' \cup hellos') # {}
    BY Zenon, <2>1, <2>2, <2>3, <2>4 DEF RunningIsRegistered, Running
  <2> QED
    BY Zenon, <1>1, <2>4 DEF RunningIsRegistered, Temp, Perm
<1>4. CASE LnpdConstructs(d) \/ HandleChannelUpdate(d)
  BY Zenon, <1>1, <1>4 DEF LnpdConstructs, HandleChannelUpdate, Renamed,
     RunningIsRegistered, Running, Temp, Perm
<1>5. CASE HandleChannelHello(Temp(d)) \/ HandleChannelHello(Perm(d))
  <2>1. UNCHANGED daemon /\ channels \cup hellos \subseteq channels' \cup hellos'
    BY Zenon, <1>5 DEF HandleChannelHello
  <2>2. QED
    BY Zenon, <1>1, <2>1, KnownStaysKnown DEF Running
<1>6. CASE \/ RenameSaves(d) \/ RenameRemoves(d) \/ SaveBegins(d) \/ SaveEnds(d)
           \/ ForwardReestablish(d)
  <2>1. UNCHANGED <<daemon, channels, hellos>>
    BY Zenon, <1>6 DEF RenameSaves, RenameRemoves, SaveBegins, SaveEnds,
       ForwardReestablish
  <2>2. QED
    BY Zenon, <1>1, <2>1, KnownStaysKnown DEF Running
<1>7. CASE LaunchReestablish(d)
  <2>1. \A c \in Chan : Running(c)' => Running(c)
    BY Zenon, <1>7 DEF IInv, StoreTypeOK, LaunchReestablish, Running
  <2>2. QED
    BY Zenon, <1>1, <1>7, <2>1, KnownStaysKnown DEF LaunchReestablish
<1>8. QED
  BY Zenon, <1>2, <1>3, <1>4, <1>5, <1>6, <1>7 DEF StoreStep

(* The other steps about channels start no daemon and drop no id.            *)
LEMMA ChannelStepRegisters ==
    ASSUME IInv, RunningIsRegistered, NEW d \in Chan,
           \/ ChannelOpens(d) \/ PeerAsks(d) \/ StoreMayStep(d)
           \/ WorkflowStep(d) \/ WorkflowGoesOn(d)
           \/ ChannelReestablished(d) \/ ChannelCrashes(d) \/ EsbErrorStep(d)
    PROVE  RunningIsRegistered'
<1>1. UNCHANGED <<peerds, connections, phellos>>
  BY Zenon DEF ChannelOpens, PeerAsks, StoreMayStep, WorkflowStep,
     WorkflowGoesOn,
     Sends, ChannelReestablished, ChannelCrashes, EsbErrorStep, registryVars
<1>2. channels' = channels /\ hellos \subseteq hellos'
  BY Zenon DEF ChannelOpens, LaunchChannel, PeerAsks, PeerReestablishes,
     StoreMayStep,
     RenameCreates, RenameRefuses, LaunchReestablishFails, RefuseReestablish,
     WorkflowStep, ProcessEvent, WorkflowGoesOn, RenameProcesses, Transition,
     ChannelReestablished, CompleteReestablish, ChannelCrashes, ChanneldCrashes,
     EsbErrorStep
<1>3. ASSUME NEW c \in Chan, Running(c)'
      PROVE  Running(c)
  <2>1. CASE UNCHANGED daemon
    BY Zenon, <1>3, <2>1 DEF Running
  <2>2. CASE ChannelOpens(d) \/ ChannelCrashes(d)
    BY ZenonT(30), <1>3, <2>2 DEF IInv, StoreTypeOK, ChannelOpens,
       LaunchChannel,
       ChannelCrashes, ChanneldCrashes, Running
  <2>3. QED
    BY Zenon, <2>1, <2>2 DEF PeerAsks, PeerReestablishes, StoreMayStep,
       RenameCreates,
       RenameRefuses, LaunchReestablishFails, RefuseReestablish, WorkflowStep,
       ProcessEvent, WorkflowGoesOn, RenameProcesses, ChannelReestablished,
       CompleteReestablish, EsbErrorStep
<1>4. QED
  BY Zenon, <1>1, <1>2, <1>3, KnownStaysKnown

(* Steps of clients, of routed and of a payment at its channel.              *)
LEMMA ClientStepRegisters ==
    ASSUME RunningIsRegistered, NEW cl \in Client,
           \/ \E p \in Peer : ClientConnects(cl, p)
           \/ \E a \in Addr : ClientListens(cl, a)
           \/ \E c \in Chan : ClientPays(cl, c)
           \/ PaymentStep(cl)
    PROVE  RunningIsRegistered'
<1>1. UNCHANGED <<peerds, connections, phellos, daemon, channels, hellos>>
  BY Zenon DEF ClientConnects, HandleConnectPeer, ClientListens, HandleListen,
     ClientPays, PaymentStep, registryVars, storeVars
<1>2. QED
  BY Zenon, <1>1, KnownStaysKnown DEF Running

(* Every daemon that runs for a peer or a channel is known to lnpd or about  *)
(* to be, for any number of them: no Hello, renaming or restart loses one.   *)
THEOREM DaemonsAreRegistered == Spec => []RunningIsRegistered
<1>1. Init => RunningIsRegistered
  BY Zenon DEF Init, RegistryInit, StoreInit, RunningIsRegistered, Running
<1>2. IInv /\ RunningIsRegistered /\ [Next]_vars => RunningIsRegistered'
  <2>1. SUFFICES ASSUME IInv, RunningIsRegistered, [Next]_vars
                 PROVE  RunningIsRegistered'
    BY Zenon
  <2>2. CASE UNCHANGED vars
    BY Zenon, <2>1, <2>2, KnownStaysKnown
       DEF vars, registryVars, storeVars, Running
  <2>3. CASE NodeRestarts
    BY Zenon, <2>3 DEF NodeRestarts, RegistryReset, StoreReset,
       RunningIsRegistered,
       Running
  <2>4. QED
    BY Zenon, <2>1, <2>2, <2>3, PeerdStepRegisters, StoreStepRegisters,
       ChannelStepRegisters, ClientStepRegisters DEF Next
<1>3. QED
  BY <1>1, <1>2, StoreInvariance, PTL DEF Spec

-----------------------------------------------------------------------------
(* The fourth argument: types.  Those of the first two invariants are        *)
(* completed by the bounds on stages and files and by the sets.              *)

StagesOK ==
    /\ state \in [Chan -> 0..7] /\ sent \in [Chan -> 0..7]
    /\ file \in [Chan -> [temp : -2..7, perm : -2..7]]

SetsOK ==
    /\ mishaps \in 0..MaxMishaps
    /\ listens \subseteq Addr /\ listening \subseteq Addr
    /\ connections \subseteq Peer /\ launched \subseteq Peer
    /\ peerds \subseteq Peer /\ phellos \subseteq Peer
    /\ channels \subseteq ChannelIds /\ hellos \subseteq ChannelIds
    /\ reestablishing_channels \subseteq Chan
    /\ on_link \subseteq Chan /\ inbox \subseteq Chan
    /\ htlcs \subseteq Client \X Chan
    /\ bounced \subseteq Client /\ undelivered \subseteq Chan

(* A mishap happens below the bound.                                         *)
LEMMA MishapType ==
    ASSUME mishaps \in 0..MaxMishaps, Mishap
    PROVE  mishaps' \in 0..MaxMishaps
BY NodeAssumption DEF Mishap

(* The two ids of a channel.                                                 *)
LEMMA IdsOfChannels ==
    ASSUME NEW c \in Chan
    PROVE  Temp(c) \in ChannelIds /\ Perm(c) \in ChannelIds
BY Zenon DEF Temp, Perm, ChannelIds

(* A transition adds one to a stage below Active; a file takes the stage of  *)
(* its daemon, and a restored daemon the stage of its file.                  *)
LEMMA StagesStay ==
    ASSUME IInv, StagesOK, [Next]_vars
    PROVE  StagesOK'
<1>1. CASE UNCHANGED <<state, sent, file>>
  BY Zenon, <1>1 DEF StagesOK
<1>2. ASSUME NEW c \in Chan, ChanneldCreates(c)
      PROVE  StagesOK'
  BY <1>2 DEF StagesOK, ChanneldCreates, Broken
<1>3. ASSUME NEW c \in Chan, ChanneldRestores(c)
      PROVE  StagesOK'
  <2>1. file[c].perm \in -2..7
    BY Zenon DEF StagesOK
  <2>2. QED
    BY <1>3, <2>1 DEF StagesOK, ChanneldRestores
<1>4. ASSUME NEW c \in Chan, RenameCreates(c) \/ RenameRemoves(c)
      PROVE  StagesOK'
  BY <1>4 DEF StagesOK, RenameCreates, RenameRemoves, Broken, Absent
<1>5. ASSUME NEW c \in Chan, RenameSaves(c)
      PROVE  StagesOK'
  <2>1. state[c] \in -2..7
    BY DEF StagesOK
  <2>2. QED
    BY Zenon, <1>5, <2>1 DEF StagesOK, RenameSaves
<1>6. ASSUME NEW c \in Chan, SaveBegins(c) \/ SaveEnds(c)
      PROVE  StagesOK'
  <2>1. state[c] \in -2..7 /\ identity[c] \in {"temp", "perm"}
    BY DEF StagesOK, IInv, StoreTypeOK
  <2>2. QED
    BY <1>6, <2>1 DEF StagesOK, SaveBegins, SaveEnds, Broken
<1>7. ASSUME NEW c \in Chan, ProcessEvent(c)
      PROVE  StagesOK'
  <2>1. state[c] + 1 \in 0..7
    BY <1>7 DEF StagesOK, ProcessEvent, EventComes, Active
  <2>2. QED
    BY Zenon, <1>7, <2>1 DEF StagesOK, ProcessEvent, Transition
<1>8. ASSUME NEW c \in Chan, RenameProcesses(c)
      PROVE  StagesOK'
  <2>1. state[c] + 1 = Renaming(c)
    BY Zenon, <1>8 DEF RenameProcesses, IInv, ChanOK, RenameOK
  <2>2. state[c] + 1 \in 0..7
    BY <2>1 DEF Renaming
  <2>3. QED
    BY Zenon, <1>8, <2>2 DEF StagesOK, RenameProcesses, Transition
<1>9. ASSUME NEW c \in Chan, CompleteReestablish(c)
      PROVE  StagesOK'
  BY <1>9 DEF StagesOK, CompleteReestablish, Active
<1>10. ASSUME NEW c \in Chan, ChanneldCrashes(c)
       PROVE  StagesOK'
  BY <1>10 DEF StagesOK, ChanneldCrashes
<1>11. CASE NodeRestarts
  BY <1>11 DEF StagesOK, NodeRestarts, StoreReset
<1>12. CASE UNCHANGED vars
  BY Zenon, <1>1, <1>12 DEF vars, storeVars
<1>13. ASSUME NEW p \in Peer, PeerdStep(p) \/ PeerdMayStep(p) \/ ConnectionEnds(p)
       PROVE  StagesOK'
  BY Zenon, <1>1, <1>13 DEF PeerdStep, PeerdMayStep, ConnectionEnds, storeVars
<1>14. ASSUME NEW cl \in Client,
              \/ \E p \in Peer : ClientConnects(cl, p)
              \/ \E a \in Addr : ClientListens(cl, a)
              \/ \E c \in Chan : ClientPays(cl, c)
              \/ PaymentStep(cl)
       PROVE  StagesOK'
  BY Zenon, <1>1, <1>14 DEF ClientConnects, ClientListens, ClientPays,
     PaymentStep,
     storeVars
<1>15. ASSUME NEW c \in Chan, StoreStep(c) \/ StoreMayStep(c)
       PROVE  StagesOK'
  BY Zenon, <1>1, <1>2, <1>3, <1>4, <1>5, <1>6, <1>15
     DEF StoreStep, StoreMayStep, LnpdConstructs, HandleChannelUpdate,
         HandleChannelHello, ForwardReestablish, LaunchReestablish,
         RenameRefuses, LaunchReestablishFails, RefuseReestablish
<1>16. ASSUME NEW c \in Chan,
              ChannelOpens(c) \/ PeerAsks(c) \/ EsbErrorStep(c)
       PROVE  StagesOK'
  BY Zenon, <1>1, <1>16 DEF ChannelOpens, LaunchChannel, PeerAsks,
     PeerReestablishes,
     EsbErrorStep
<1>17. ASSUME NEW c \in Chan,
              \/ WorkflowStep(c) \/ WorkflowGoesOn(c)
              \/ ChannelReestablished(c) \/ ChannelCrashes(c)
       PROVE  StagesOK'
  BY Zenon, <1>7, <1>8, <1>9, <1>10, <1>17
     DEF WorkflowStep, WorkflowGoesOn, ChannelReestablished, ChannelCrashes
<1>18. QED
  BY Zenon, <1>11, <1>12, <1>13, <1>14, <1>15, <1>16, <1>17 DEF Next

(* Requests, routed and payments at a channel: what they add to a set is     *)
(* named by a request, or by a Payment under way.                            *)
LEMMA ClientStepSets ==
    ASSUME SetsOK, payments \subseteq Client \X Chan, NEW cl \in Client,
           \/ \E p \in Peer : ClientConnects(cl, p)
           \/ \E a \in Addr : ClientListens(cl, a)
           \/ \E c \in Chan : ClientPays(cl, c)
           \/ PaymentStep(cl)
    PROVE  SetsOK'
<1>1. ASSUME NEW p \in Peer, ClientConnects(cl, p)
      PROVE  SetsOK'
  BY Zenon, <1>1, MishapType
     DEF SetsOK, ClientConnects, HandleConnectPeer, storeVars, paymentVars
<1>2. ASSUME NEW a \in Addr, ClientListens(cl, a)
      PROVE  SetsOK'
  BY Zenon, <1>2, MishapType
     DEF SetsOK, ClientListens, HandleListen, storeVars, paymentVars
<1>3. ASSUME NEW c \in Chan, ClientPays(cl, c)
      PROVE  SetsOK'
  BY Zenon, <1>3 DEF SetsOK, ClientPays, HandlePayInvoice, storeVars,
     registryVars
<1>4. CASE PaymentStep(cl)
  <2>1. mishaps' \in 0..MaxMishaps
    BY Zenon, <1>4, MishapType DEF SetsOK, PaymentStep, HandlePayment
  <2>2. htlcs' \subseteq Client \X Chan
    BY Zenon, <1>4 DEF SetsOK, PaymentStep, RoutedReportsError,
       PaymentBounces,
       HandlePayment
  <2>3. bounced' \subseteq Client /\ undelivered' \subseteq Chan
    BY Zenon, <1>4 DEF SetsOK, PaymentStep, RoutedReportsError,
       PaymentBounces,
       HandlePayment, SendP2p
  <2>4. UNCHANGED <<registryVars, storeVars>>
    BY Zenon, <1>4 DEF PaymentStep
  <2>5. QED
    BY Zenon, <2>1, <2>2, <2>3, <2>4 DEF SetsOK, registryVars, storeVars
<1>5. QED
  BY Zenon, <1>1, <1>2, <1>3, <1>4

(* Steps of peer daemons.                                                    *)
LEMMA PeerdStepSets ==
    ASSUME SetsOK, NEW p \in Peer,
           PeerdStep(p) \/ PeerdMayStep(p) \/ ConnectionEnds(p)
    PROVE  SetsOK'
<1>1. CASE PeerdStep(p)
  BY Zenon, <1>1 DEF SetsOK, PeerdStep, PeerdConnects, HandlePeerHello,
     storeVars,
     paymentVars
<1>2. CASE PeerdMayStep(p)
  BY Zenon, <1>2, MishapType
     DEF SetsOK, PeerdMayStep, PeerArrives, PeerdFails, storeVars, paymentVars
<1>3. CASE ConnectionEnds(p)
  BY Zenon, <1>3, MishapType DEF SetsOK, ConnectionEnds, PeerdStops,
     paymentVars
<1>4. QED
  BY Zenon, <1>1, <1>2, <1>3

(* Steps of a channel's daemon and of lnpd about it.                         *)
LEMMA StoreStepSets ==
    ASSUME SetsOK, NEW c \in Chan, StoreStep(c) \/ StoreMayStep(c)
    PROVE  SetsOK'
<1>1. UNCHANGED <<clientVars, registryVars, paymentVars>>
  BY Zenon DEF StoreStep, StoreMayStep
<1>2. Temp(c) \in ChannelIds /\ Perm(c) \in ChannelIds
  BY Zenon, IdsOfChannels
<1>3. Temp(c)[2] = c /\ Perm(c)[2] = c
  BY Zenon DEF Temp, Perm
<1>4. mishaps' \in 0..MaxMishaps
  BY Zenon, MishapType DEF SetsOK, StoreStep, StoreMayStep, ChanneldCreates,
     ChanneldRestores, LnpdConstructs, HandleChannelUpdate, HandleChannelHello,
     RenameSaves, RenameRemoves, SaveBegins, SaveEnds, ForwardReestablish,
     LaunchReestablish, RenameCreates, RenameRefuses, LaunchReestablishFails,
     RefuseReestablish
<1>5. channels' \subseteq ChannelIds /\ hellos' \subseteq ChannelIds
  BY Zenon, <1>2 DEF SetsOK, StoreStep, StoreMayStep, ChanneldCreates,
     ChanneldRestores, LnpdConstructs, HandleChannelUpdate, HandleChannelHello,
     RenameSaves, RenameRemoves, SaveBegins, SaveEnds, ForwardReestablish,
     LaunchReestablish, RenameCreates, RenameRefuses, LaunchReestablishFails,
     RefuseReestablish, Renamed
<1>6. /\ reestablishing_channels' \subseteq Chan
      /\ on_link' \subseteq Chan /\ inbox' \subseteq Chan
  BY Zenon, <1>3 DEF SetsOK, StoreStep, StoreMayStep, ChanneldCreates,
     ChanneldRestores, LnpdConstructs, HandleChannelUpdate, HandleChannelHello,
     RenameSaves, RenameRemoves, SaveBegins, SaveEnds, ForwardReestablish,
     LaunchReestablish, RenameCreates, RenameRefuses, LaunchReestablishFails,
     RefuseReestablish
<1>7. QED
  BY Zenon, <1>1, <1>4, <1>5, <1>6 DEF SetsOK, registryVars, paymentVars

(* The other steps about a channel.                                          *)
LEMMA ChannelStepSets ==
    ASSUME SetsOK, NEW c \in Chan,
           \/ ChannelOpens(c) \/ PeerAsks(c)
           \/ WorkflowStep(c) \/ WorkflowGoesOn(c)
           \/ ChannelReestablished(c) \/ ChannelCrashes(c)
           \/ EsbErrorStep(c)
    PROVE  SetsOK'
<1>1. CASE ChannelOpens(c) \/ PeerAsks(c)
  BY Zenon, <1>1 DEF SetsOK, ChannelOpens, LaunchChannel, PeerAsks,
     PeerReestablishes,
     registryVars, paymentVars
<1>2. CASE WorkflowStep(c) \/ WorkflowGoesOn(c)
  BY Zenon, <1>2, IdsOfChannels
     DEF SetsOK, WorkflowStep, WorkflowGoesOn, ProcessEvent, RenameProcesses,
         Transition, Sends, SendP2p, registryVars
<1>3. CASE ChannelReestablished(c)
  BY Zenon, <1>3 DEF SetsOK, ChannelReestablished, CompleteReestablish,
     SendP2p,
     registryVars
<1>4. CASE ChannelCrashes(c)
  BY Zenon, <1>4, MishapType
     DEF SetsOK, ChannelCrashes, ChanneldCrashes, registryVars
<1>5. CASE EsbErrorStep(c)
  BY Zenon, <1>5 DEF SetsOK, EsbErrorStep, HandleEsbError, registryVars
<1>6. QED
  BY Zenon, <1>1, <1>2, <1>3, <1>4, <1>5

(* Every step of the node.                                                   *)
LEMMA SetsStay ==
    ASSUME ClientInv, SetsOK, [Next]_vars
    PROVE  SetsOK'
<1>1. payments \subseteq Client \X Chan
  BY Zenon DEF ClientInv, ClientTypeOK
<1>2. CASE UNCHANGED vars
  BY Zenon, <1>2 DEF SetsOK, vars, registryVars, storeVars, paymentVars
<1>3. CASE NodeRestarts
  BY Zenon, <1>3, MishapType, ConfiguredAssumption
     DEF SetsOK, NodeRestarts, RegistryReset, StoreReset, PaymentsReset
<1>4. QED
  BY Zenon, <1>1, <1>2, <1>3, ClientStepSets, PeerdStepSets, StoreStepSets,
     ChannelStepSets DEF Next

(* Type correctness: through crashes, restarts and restored state files no   *)
(* stage of a daemon leaves its workflow, no file holds anything but such a  *)
(* stage, and every registry of lnpd names peers, addresses, channels and    *)
(* clients of the node.                                                      *)
THEOREM TypeCorrect == Spec => []TypeOK
<1>1. Init => StagesOK /\ SetsOK
  BY NodeAssumption, ConfiguredAssumption
     DEF Init, RequestsInit, RegistryInit, StoreInit, PaymentsInit, StagesOK,
         SetsOK, Absent
<1>2. IInv /\ ClientInv /\ StagesOK /\ SetsOK /\ [Next]_vars
          => StagesOK' /\ SetsOK'
  BY Zenon, StagesStay, SetsStay
<1>3. IInv /\ ClientInv /\ StagesOK /\ SetsOK => TypeOK
  BY Zenon DEF IInv, StoreTypeOK, ClientInv, ClientTypeOK, StagesOK, SetsOK,
     TypeOK
<1>4. QED
  BY <1>1, <1>2, <1>3, StoreInvariance, AnswerInvariance, PTL DEF Spec

=============================================================================
