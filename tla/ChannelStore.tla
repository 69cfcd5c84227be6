---------------------------- MODULE ChannelStore ----------------------------
(***************************************************************************)
(* The state files of channel daemons across crashes and restarts, the     *)
(* change of a channel's id (set_identity) step by step, lnpd's registry   *)
(* of channels and the relaunch of a daemon upon ChannelReestablish.       *)
(*                                                                         *)
(* A daemon's workflow is reduced to the number of the stage it has        *)
(* reached; ChannelPropose and ChannelAccept have what a stage does.  A    *)
(* file holds the stage that was last saved in it.                         *)
(***************************************************************************)
EXTENDS NodeRequests

VARIABLES
    channels,                 \* ids in lnpd's registry of channels
    reestablishing_channels,  \* channels lnpd has relaunched a daemon for
    hellos,                   \* channel ids whose Hello is on its way to lnpd
    role,                     \* which side of the opening the node is on
    daemon,                   \* what runs for a channel
    identity,                 \* the kind of id the daemon has on the bus
    state,                    \* the stage the daemon is in
    pc,                       \* where the daemon is in its message handler
    file,                     \* the channel's two state files
    sent,                     \* the last stage whose messages have left
    on_link,                  \* channels in use on the present connection
    wire,                     \* channels with a ChannelReestablish at lnpd
    inbox                     \* channels with one at their daemon

storeVars == <<channels, reestablishing_channels, hellos, role, daemon, identity,
               state, pc, file, sent, on_link, wire, inbox>>

Temp(c) == <<"temp", c>>
Perm(c) == <<"perm", c>>
ChannelIds == {"temp", "perm"} \X Chan

Absent == -2   \* there is no such file
Broken == -1   \* a file that does not decode: empty, or partly overwritten

(* Stages of a proposer: 0 Launch, 1 PROPOSED, 2 ACCEPTED, 3 SIGNING,        *)
(* 4 FUNDING, 5 PUBLISHED, 6 LOCKED, 7 ACTIVE; of an acceptor: 0 Launch,     *)
(* 1 ACCEPTED, 2 SIGNED, 3 FUNDED, 4 LOCKED, 5 ACTIVE.                       *)
Active(c) == IF role[c] = "propose" THEN 7 ELSE 5

(* The stage whose transition calls set_identity: FUNDING, FUNDED.           *)
Renaming(c) == IF role[c] = "propose" THEN 4 ELSE 3

(* Stages reached by a message of the peer, and those that send it one.      *)
FromPeer(c) == IF role[c] = "propose" THEN {2, 5, 7} ELSE {3, 4}
ToPeer(c) == IF role[c] = "propose" THEN {1, 4, 6} ELSE {2, 3, 5}

Running(c) == daemon[c] \in {"fresh", "restored"}

StoreInit ==
    /\ channels = {}
    /\ reestablishing_channels = {}
    /\ hellos = {}
    /\ role = [c \in Chan |-> "none"]
    /\ daemon = [c \in Chan |-> "none"]
    /\ identity = [c \in Chan |-> "temp"]
    /\ state = [c \in Chan |-> 0]
    /\ pc = [c \in Chan |-> "idle"]
    /\ file = [c \in Chan |-> [temp |-> Absent, perm |-> Absent]]
    /\ sent = [c \in Chan |-> 0]
    /\ on_link = {}
    /\ wire = {}
    /\ inbox = {}

-----------------------------------------------------------------------------
(* A channel is opened: by CreateChannel, or upon OpenChannel of the peer.   *)
LaunchChannel(c, side) ==
    /\ role[c] = "none"
    /\ role' = [role EXCEPT ![c] = side]
    /\ daemon' = [daemon EXCEPT ![c] = "launching"]
    /\ on_link' = on_link \cup {c}
    /\ UNCHANGED <<mishaps, channels, reestablishing_channels, hellos, identity,
                   state, pc, file, sent, wire, inbox>>

(* channeld's run for a temporary id: an empty file, and Hello.              *)
ChanneldCreates(c) ==
    /\ daemon[c] = "launching"
    /\ daemon' = [daemon EXCEPT ![c] = "fresh"]
    /\ file' = [file EXCEPT ![c].temp = Broken]
    /\ hellos' = hellos \cup {Temp(c)}
    /\ UNCHANGED <<mishaps, channels, reestablishing_channels, role, identity,
                   state, pc, sent, on_link, wire, inbox>>

(* Mutant: a missing or unreadable file starts the channel anew.             *)
ChanneldRestoresAnew(c) ==
    /\ daemon[c] = "relaunching"
    /\ daemon' = [daemon EXCEPT ![c] = "restored"]
    /\ identity' = [identity EXCEPT ![c] = "perm"]
    /\ state' = [state EXCEPT ![c] = IF file[c].perm < 0 THEN 1 ELSE file[c].perm]
    /\ hellos' = hellos \cup {Perm(c)}
    /\ UNCHANGED <<mishaps, channels, reestablishing_channels, role, pc, file,
                   sent, on_link, wire, inbox>>

(* channeld's run for a permanent id: the state comes from the file; without *)
(* a file, or with one that does not decode, the daemon ends.                *)
ChanneldRestores(c) ==
    /\ daemon[c] = "relaunching"
    /\ IF file[c].perm >= 0
       THEN /\ daemon' = [daemon EXCEPT ![c] = "restored"]
            /\ identity' = [identity EXCEPT ![c] = "perm"]
            /\ state' = [state EXCEPT ![c] = file[c].perm]
            /\ hellos' = hellos \cup {Perm(c)}
       ELSE /\ daemon' = [daemon EXCEPT ![c] = "none"]
            /\ UNCHANGED <<identity, state, hellos>>
    /\ UNCHANGED <<mishaps, channels, reestablishing_channels, role, pc, file,
                   sent, on_link, wire, inbox>>

-----------------------------------------------------------------------------
(* lnpd's update_chanel_id.                                                  *)
Renamed(c) == (channels \ {Temp(c)}) \cup {Perm(c)}

(* ConstructFunding at lnpd: the launcher renames the proposer's channel     *)
(* before the daemon does.                                                   *)
LnpdConstructs(c) ==
    /\ role[c] = "propose" /\ sent[c] = 2
    /\ Temp(c) \in channels
    /\ channels' = Renamed(c)
    /\ UNCHANGED <<mishaps, reestablishing_channels, hellos, role, daemon,
                   identity, state, pc, file, sent, on_link, wire, inbox>>

(* Mutant: the old id is removed and the new one not filed.                  *)
HandleChannelUpdateForgets(c) ==
    /\ role[c] = "accept" /\ sent[c] >= Renaming(c)
    /\ Temp(c) \in channels
    /\ channels' = channels \ {Temp(c)}
    /\ UNCHANGED <<mishaps, reestablishing_channels, hellos, role, daemon,
                   identity, state, pc, file, sent, on_link, wire, inbox>>

(* ChannelUpdate of the accepting daemon at lnpd.                            *)
HandleChannelUpdate(c) ==
    /\ role[c] = "accept" /\ sent[c] >= Renaming(c)
    /\ Temp(c) \in channels
    /\ channels' = Renamed(c)
    /\ UNCHANGED <<mishaps, reestablishing_channels, hellos, role, daemon,
                   identity, state, pc, file, sent, on_link, wire, inbox>>

(* A message for the channel under its permanent id finds a daemon.          *)
Reachable(c) == Running(c) /\ identity[c] = "perm"

(* Mutant: the ChannelReestablish kept for the daemon is not passed on.      *)
HandleChannelHelloKeeps(id) ==
    /\ id \in hellos
    /\ hellos' = hellos \ {id}
    /\ channels' = channels \cup {id}
    /\ UNCHANGED <<mishaps, reestablishing_channels, role, daemon, identity,
                   state, pc, file, sent, on_link, wire, inbox>>

(* handle_hello of a channel daemon: it is registered, and gets the          *)
(* ChannelReestablish it was relaunched for.                                 *)
HandleChannelHello(id) ==
    LET c == id[2]
        kept == id = Perm(c) /\ c \in reestablishing_channels
    IN  /\ id \in hellos
        /\ hellos' = hellos \ {id}
        /\ channels' = channels \cup {id}
        /\ reestablishing_channels' =
               IF kept THEN reestablishing_channels \ {c}
               ELSE reestablishing_channels
        /\ inbox' = IF kept /\ Reachable(c) THEN inbox \cup {c} ELSE inbox
        /\ UNCHANGED <<mishaps, role, daemon, identity, state, pc, file, sent,
                       on_link, wire>>

-----------------------------------------------------------------------------
(* Mutant: an active channel takes another event.                            *)
EventComesActive(c) ==
    /\ daemon[c] = "fresh" /\ pc[c] = "idle"
    /\ state[c] = 0 => Temp(c) \in channels
    /\ state[c] + 1 = Renaming(c) => identity[c] = "temp"

(* The event that the workflow waits for arrives.  The order to open or to   *)
(* accept follows lnpd's registration, FundingConstructed the renaming by    *)
(* lnpd.  A restored daemon is sent none of these.                           *)
EventComes(c) ==
    LET next == state[c] + 1
    IN  /\ daemon[c] = "fresh" /\ pc[c] = "idle" /\ state[c] < Active(c)
        /\ next = 1 => Temp(c) \in channels
        /\ (role[c] = "propose" /\ next = 3) => Perm(c) \in channels
        /\ next \in FromPeer(c) => c \in on_link
        /\ next = Renaming(c) => identity[c] = "temp"

(* The transition is made: its messages leave, the new id's Hello included.  *)
Transition(c) ==
    LET next == state[c] + 1
    IN  /\ state' = [state EXCEPT ![c] = next]
        /\ sent' = [sent EXCEPT ![c] = next]
        /\ pc' = [pc EXCEPT ![c] = "handled"]
        /\ hellos' = IF role[c] = "propose" /\ next = Renaming(c)
                     THEN hellos \cup {Perm(c)} ELSE hellos

(* process, up to the save: an event without a change of the id.             *)
ProcessEvent(c) ==
    /\ EventComes(c)
    /\ state[c] + 1 # Renaming(c)
    /\ Transition(c)
    /\ UNCHANGED <<mishaps, channels, reestablishing_channels, role, daemon,
                   identity, file, on_link, wire, inbox>>

(* set_identity: the file of the permanent id is created.                    *)
RenameCreates(c) ==
    /\ EventComes(c)
    /\ state[c] + 1 = Renaming(c)
    /\ pc' = [pc EXCEPT ![c] = "created"]
    /\ file' = [file EXCEPT ![c].perm = Broken]
    /\ UNCHANGED <<mishaps, channels, reestablishing_channels, hellos, role,
                   daemon, identity, state, sent, on_link, wire, inbox>>

(* Mutant: the new file is left empty until the transition is made.          *)
RenameSavesNothing(c) ==
    /\ pc[c] = "created"
    /\ pc' = [pc EXCEPT ![c] = "renamed"]
    /\ identity' = [identity EXCEPT ![c] = "perm"]
    /\ UNCHANGED <<mishaps, channels, reestablishing_channels, hellos, role,
                   daemon, state, file, sent, on_link, wire, inbox>>

(* The state before the transition is saved in it, and the id changed.       *)
RenameSaves(c) ==
    /\ pc[c] = "created"
    /\ pc' = [pc EXCEPT ![c] = "renamed"]
    /\ file' = [file EXCEPT ![c].perm = state[c]]
    /\ identity' = [identity EXCEPT ![c] = "perm"]
    /\ UNCHANGED <<mishaps, channels, reestablishing_channels, hellos, role,
                   daemon, state, sent, on_link, wire, inbox>>

(* The file of the temporary id is removed.                                  *)
RenameRemoves(c) ==
    /\ pc[c] = "renamed"
    /\ pc' = [pc EXCEPT ![c] = "removed"]
    /\ file' = [file EXCEPT ![c].temp = Absent]
    /\ UNCHANGED <<mishaps, channels, reestablishing_channels, hellos, role,
                   daemon, identity, state, sent, on_link, wire, inbox>>

(* The transition goes on after set_identity.                                *)
RenameProcesses(c) ==
    /\ pc[c] = "removed"
    /\ Transition(c)
    /\ UNCHANGED <<mishaps, channels, reestablishing_channels, role, daemon,
                   identity, file, on_link, wire, inbox>>

(* The acceptor's FundingCreated is refused after set_identity: the id has   *)
(* changed and the stage has not.                                            *)
RenameRefuses(c) ==
    /\ pc[c] = "removed" /\ role[c] = "accept"
    /\ Mishap
    /\ pc' = [pc EXCEPT ![c] = "idle"]
    /\ UNCHANGED <<channels, reestablishing_channels, hellos, role, daemon,
                   identity, state, file, sent, on_link, wire, inbox>>

(* Mutant: the state is saved for channels that are not active only.         *)
SaveBeginsUnlessActive(c) ==
    /\ pc[c] = "handled"
    /\ pc' = [pc EXCEPT ![c] = IF state[c] = Active(c) THEN "idle" ELSE "saving"]
    /\ file' = IF state[c] = Active(c) THEN file
               ELSE [file EXCEPT ![c][identity[c]] = Broken]
    /\ UNCHANGED <<mishaps, channels, reestablishing_channels, hellos, role,
                   daemon, identity, state, sent, on_link, wire, inbox>>

(* save_state overwrites the file in place.  What a daemon that dies halfway *)
(* leaves behind is taken not to decode.                                     *)
SaveBegins(c) ==
    /\ pc[c] = "handled"
    /\ pc' = [pc EXCEPT ![c] = "saving"]
    /\ file' = [file EXCEPT ![c][identity[c]] = Broken]
    /\ UNCHANGED <<mishaps, channels, reestablishing_channels, hellos, role,
                   daemon, identity, state, sent, on_link, wire, inbox>>

SaveEnds(c) ==
    /\ pc[c] = "saving"
    /\ pc' = [pc EXCEPT ![c] = "idle"]
    /\ file' = [file EXCEPT ![c][identity[c]] = state[c]]
    /\ UNCHANGED <<mishaps, channels, reestablishing_channels, hellos, role,
                   daemon, identity, state, sent, on_link, wire, inbox>>

-----------------------------------------------------------------------------
(* After a reconnection the peer asks to re-establish a channel that has a   *)
(* permanent id.                                                             *)
PeerReestablishes(c) ==
    /\ c \notin on_link
    /\ role[c] # "none" /\ sent[c] >= Renaming(c)
    /\ on_link' = on_link \cup {c}
    /\ wire' = wire \cup {c}
    /\ UNCHANGED <<mishaps, channels, reestablishing_channels, hellos, role,
                   daemon, identity, state, pc, file, sent, inbox>>

(* ChannelReestablish at lnpd.  A registered channel is sent it, whether its *)
(* daemon still runs or not.                                                 *)
ForwardReestablish(c) ==
    /\ c \in wire /\ Perm(c) \in channels
    /\ wire' = wire \ {c}
    /\ inbox' = IF Reachable(c) THEN inbox \cup {c} ELSE inbox
    /\ UNCHANGED <<mishaps, channels, reestablishing_channels, hellos, role,
                   daemon, identity, state, pc, file, sent, on_link>>

(* Else a daemon is launched; next to one that runs it is not heard.         *)
LaunchReestablish(c) ==
    /\ c \in wire /\ Perm(c) \notin channels
    /\ wire' = wire \ {c}
    /\ reestablishing_channels' = reestablishing_channels \cup {c}
    /\ daemon' = [daemon EXCEPT ![c] = IF @ = "none" THEN "relaunching" ELSE @]
    /\ UNCHANGED <<mishaps, channels, hellos, role, identity, state, pc, file,
                   sent, on_link, inbox>>

(* The launch fails.                                                         *)
LaunchReestablishFails(c) ==
    /\ c \in wire /\ Perm(c) \notin channels
    /\ Mishap
    /\ wire' = wire \ {c}
    /\ UNCHANGED <<channels, reestablishing_channels, hellos, role, daemon,
                   identity, state, pc, file, sent, on_link, inbox>>

(* complete_reestablish: whatever the stage, the channel becomes active.     *)
(* The ChannelReestablish that answers the peer is the message of no stage,  *)
(* and sent stays as it is.                                                  *)
CompleteReestablish(c) ==
    /\ c \in inbox /\ Reachable(c) /\ pc[c] = "idle"
    /\ inbox' = inbox \ {c}
    /\ state' = [state EXCEPT ![c] = Active(c)]
    /\ pc' = [pc EXCEPT ![c] = "handled"]
    /\ UNCHANGED <<mishaps, channels, reestablishing_channels, hellos, role,
                   daemon, identity, file, sent, on_link, wire>>

(* The channel library refuses the peer's ChannelReestablish.                *)
RefuseReestablish(c) ==
    /\ c \in inbox /\ Reachable(c) /\ pc[c] = "idle"
    /\ Mishap
    /\ inbox' = inbox \ {c}
    /\ UNCHANGED <<channels, reestablishing_channels, hellos, role, daemon,
                   identity, state, pc, file, sent, on_link, wire>>

(* A channel daemon dies.  Its files stay as they are and lnpd does not      *)
(* notice.                                                                   *)
ChanneldCrashes(c) ==
    /\ daemon[c] # "none"
    /\ Mishap
    /\ daemon' = [daemon EXCEPT ![c] = "none"]
    /\ identity' = [identity EXCEPT ![c] = "temp"]
    /\ state' = [state EXCEPT ![c] = 0]
    /\ pc' = [pc EXCEPT ![c] = "idle"]
    /\ inbox' = inbox \ {c}
    /\ UNCHANGED <<channels, reestablishing_channels, hellos, role, file, sent,
                   on_link, wire>>

(* The whole node is restarted: only the files, and what the peer has been   *)
(* sent, outlive it.                                                         *)
StoreReset ==
    /\ channels' = {}
    /\ reestablishing_channels' = {}
    /\ hellos' = {}
    /\ daemon' = [c \in Chan |-> "none"]
    /\ identity' = [c \in Chan |-> "temp"]
    /\ state' = [c \in Chan |-> 0]
    /\ pc' = [c \in Chan |-> "idle"]
    /\ on_link' = {}
    /\ wire' = {}
    /\ inbox' = {}
    /\ UNCHANGED <<role, file, sent>>

=============================================================================
