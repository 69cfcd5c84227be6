-------------------------- MODULE ChannelLauncher ---------------------------
(***************************************************************************)
(* lnpd at the proposing node: the ChannelLauncher automaton and the CTL   *)
(* handlers of the lnpd runtime that find the automaton a message is for,  *)
(* advance it and file it again under the key its new state calls for.     *)
(*                                                                         *)
(* Every handler takes the launcher out of its map before it runs it, so a *)
(* launcher whose step fails is gone; a message for a launcher that is not *)
(* in the map panics, and a broker that panicked routes nothing any more.  *)
(***************************************************************************)
EXTENDS Services

VARIABLES
    requested,          \* channels some client has asked for
    told,               \* final reports the client of a channel was sent
    creating_channels,  \* launcher filed under a channel's service id
    funding_channels,   \* launcher filed under the funding txid of a channel
    channels,           \* ids of the channel daemons known to be connected
    pending_fundings,   \* channels with a funding PSBT in the wallet
    panicked,           \* lnpd hit one of its panic!/expect
    spawned             \* channeld processes started and not yet connected

lnpdVars == <<requested, told, creating_channels, funding_channels, channels,
              pending_fundings, panicked, spawned>>

LauncherStates ==
    { "NONE", "INIT", "LAUNCHING", "DERIVING", "NEGOTIATING", "COMMITTING",
      "SIGNING" }

LnpdInit ==
    /\ requested = {}
    /\ told = [c \in Chan |-> {}]
    /\ creating_channels = [id \in ChannelIds |-> "NONE"]
    /\ funding_channels = [c \in Chan |-> "NONE"]
    /\ channels = {}
    /\ pending_fundings = {}
    /\ panicked = FALSE
    /\ spawned = {}

LnpdTypeOK ==
    /\ requested \subseteq Chan
    /\ told \in [Chan -> SUBSET {"success", "failure"}]
    /\ creating_channels \in [ChannelIds -> LauncherStates]
    /\ funding_channels \in [Chan -> LauncherStates]
    /\ channels \subseteq ChannelIds
    /\ pending_fundings \subseteq Chan
    /\ panicked \in BOOLEAN
    /\ spawned \subseteq Chan

-----------------------------------------------------------------------------
(* ChannelLauncher::next: the state an event leads to; "FAILED" is an error *)
(* reported to the client, "DONE" the end of the automaton.                 *)

LauncherNext(state, event) ==
    CASE state = "INIT" /\ event = "Hello"                   -> "DERIVING"
      [] state = "INIT" /\ event = "Keyset"                  -> "LAUNCHING"
      [] state = "DERIVING" /\ event = "Keyset"              -> "NEGOTIATING"
      [] state = "LAUNCHING" /\ event = "Hello"              -> "NEGOTIATING"
      [] state = "NEGOTIATING" /\ event = "ConstructFunding" -> "COMMITTING"
      [] state = "COMMITTING" /\ event = "Hello"             -> "COMMITTING"
      [] state = "COMMITTING" /\ event = "PublishFunding"    -> "SIGNING"
      [] state = "SIGNING" /\ event = "Signed"               -> "DONE"
      [] OTHER                                               -> "FAILED"

Tell(c, report) == told' = [told EXCEPT ![c] = @ \cup {report}]

(* A daemon can take a message addressed to it as long as the broker runs.  *)
Receive(m, type, dst) ==
    /\ ~panicked
    /\ m \in ctl
    /\ m.type = type
    /\ m.dst = dst

(* The launcher the handler looks up is not there: panic!.                  *)
Panic(m) ==
    /\ panicked' = TRUE
    /\ ctl' = ctl \ {m}
    /\ UNCHANGED <<requested, told, creating_channels, funding_channels,
                   channels, pending_fundings, spawned, actl, p2p, published>>

-----------------------------------------------------------------------------
(* RpcMsg::CreateChannel: ChannelLauncher::with starts channeld under a new *)
(* temporary id and asks signd for its keys.                                *)

CreateChannelLaunches(c) ==
    /\ spawned' = spawned \cup {c}
    /\ \/ /\ ctl' = ctl \cup {CtlMsg("DeriveKeyset", LnpBroker, Signer, c)}
          /\ creating_channels' =
                 [creating_channels EXCEPT ![Temp(c)] = "INIT"]
          /\ UNCHANGED told
       \/ /\ "signer" \in Faults      \* the new channeld is left running
          /\ Tell(c, "failure")
          /\ UNCHANGED <<ctl, creating_channels>>

CreateChannel(c) ==
    /\ ~panicked
    /\ c \notin requested
    /\ requested' = requested \cup {c}
    /\ \/ CreateChannelLaunches(c)
       \/ /\ "launch" \in Faults
          /\ Tell(c, "failure")
          /\ UNCHANGED <<ctl, creating_channels, spawned>>
    /\ UNCHANGED <<funding_channels, channels, pending_fundings, panicked,
                   actl, p2p, published>>

-----------------------------------------------------------------------------
(* The CTL handlers.  Filed is what goes back into the map: nothing, when    *)
(* the automaton has failed or finished.                                     *)

(* Mutant: a launcher that has failed or finished goes back into the map.    *)
FiledAlways(next) == next

Filed(next) == IF next \in LauncherStates THEN next ELSE "NONE"

TellFailureIf(failed, c) ==
    told' = IF failed THEN [told EXCEPT ![c] = @ \cup {"failure"}] ELSE told

(* start_negotiation answers whoever sent the event that completed the       *)
(* launch: channeld after Hello, but signd after Keyset.                     *)
OpenChannelWith(next, source, c) ==
    IF next = "NEGOTIATING"
    THEN {CtlMsg("OpenChannelWith", LnpBroker, source, c)}
    ELSE {}

HandleHello(m) ==
    LET launcher == creating_channels[m.src]
        next == LauncherNext(launcher, "Hello")
    IN  /\ Receive(m, "Hello", LnpBroker)
        /\ channels' = channels \cup {m.src}
        /\ creating_channels' =
               [creating_channels EXCEPT ![m.src] = Filed(next)]
        /\ ctl' = (ctl \ {m}) \cup OpenChannelWith(next, m.src, m.chan)
        /\ TellFailureIf(launcher # "NONE" /\ next = "FAILED", m.chan)
        /\ UNCHANGED <<requested, funding_channels, pending_fundings, panicked,
                       spawned, actl, p2p, published>>

HandleKeyset(m) ==
    LET launcher == creating_channels[Temp(m.chan)]
        next == LauncherNext(launcher, "Keyset")
    IN  /\ Receive(m, "Keyset", LnpBroker)
        /\ IF launcher = "NONE"
           THEN Panic(m)
           ELSE /\ creating_channels' =
                       [creating_channels EXCEPT ![Temp(m.chan)] = Filed(next)]
                /\ ctl' = (ctl \ {m}) \cup OpenChannelWith(next, m.src, m.chan)
                /\ TellFailureIf(next = "FAILED", m.chan)
                /\ UNCHANGED <<requested, funding_channels, channels,
                               pending_fundings, panicked, spawned, actl, p2p,
                               published>>

(* complete_negotiation: the wallet builds the funding PSBT, channeld gets   *)
(* it, and both the registry of daemons and the launcher move to the         *)
(* permanent channel id.                                                     *)

(* Mutant: the launcher stays filed under the temporary id as well.          *)
FundingIsConstructedTwice(m) ==
    /\ pending_fundings' = pending_fundings \cup {m.chan}
    /\ ctl' = (ctl \ {m})
           \cup {CtlMsg("FundingConstructed", LnpBroker, m.src, m.chan)}
    /\ channels' = (channels \ {Temp(m.chan)}) \cup {Perm(m.chan)}
    /\ creating_channels' =
           [creating_channels EXCEPT ![Perm(m.chan)] = "COMMITTING"]
    /\ UNCHANGED told

(* Mutant: the launcher is filed again under the id the message came from.   *)
FundingIsConstructedTemp(m) ==
    /\ pending_fundings' = pending_fundings \cup {m.chan}
    /\ ctl' = (ctl \ {m})
           \cup {CtlMsg("FundingConstructed", LnpBroker, m.src, m.chan)}
    /\ channels' = (channels \ {Temp(m.chan)}) \cup {Perm(m.chan)}
    /\ creating_channels' = [creating_channels EXCEPT ![m.src] = "COMMITTING"]
    /\ UNCHANGED told

FundingIsConstructed(m) ==
    /\ pending_fundings' = pending_fundings \cup {m.chan}
    /\ ctl' = (ctl \ {m})
           \cup {CtlMsg("FundingConstructed", LnpBroker, m.src, m.chan)}
    /\ channels' = (channels \ {Temp(m.chan)}) \cup {Perm(m.chan)}
    /\ creating_channels' =
           [creating_channels EXCEPT ![m.src] = "NONE",
                                     ![Perm(m.chan)] = "COMMITTING"]
    /\ UNCHANGED told

(* Mutant: the error is logged but not reported.                             *)
LauncherFailsSilently(m) ==
    /\ ctl' = ctl \ {m}
    /\ creating_channels' = [creating_channels EXCEPT ![m.src] = "NONE"]
    /\ UNCHANGED <<pending_fundings, channels, told>>

(* Any error of a launcher: it is reported and the launcher is dropped.      *)
LauncherFails(m) ==
    /\ ctl' = ctl \ {m}
    /\ creating_channels' = [creating_channels EXCEPT ![m.src] = "NONE"]
    /\ Tell(m.chan, "failure")
    /\ UNCHANGED <<pending_fundings, channels>>

HandleConstructFunding(m) ==
    LET launcher == creating_channels[m.src]
        next == LauncherNext(launcher, "ConstructFunding")
    IN  /\ Receive(m, "ConstructFunding", LnpBroker)
        /\ IF launcher = "NONE"
           THEN Panic(m)
           ELSE /\ \/ /\ next = "COMMITTING"
                      /\ FundingIsConstructed(m)
                   \/ /\ next # "COMMITTING" \/ "funds" \in Faults
                      /\ LauncherFails(m)
                /\ UNCHANGED <<requested, funding_channels, panicked, spawned,
                               actl, p2p, published>>

(* complete_commitment: the funding PSBT goes to signd for the signatures    *)
(* of the wallet's inputs; from here the launcher is filed under the txid.   *)
HandlePublishFunding(m) ==
    LET launcher == creating_channels[m.src]
        next == LauncherNext(launcher, "PublishFunding")
    IN  /\ Receive(m, "PublishFunding", LnpBroker)
        /\ IF \/ launcher = "NONE"
              \/ next = "SIGNING" /\ m.chan \notin pending_fundings
           THEN Panic(m)
           ELSE /\ \/ /\ next = "SIGNING"
                      /\ ctl' = (ctl \ {m})
                             \cup {CtlMsg("Sign", LnpBroker, Signer, m.chan)}
                      /\ creating_channels' =
                             [creating_channels EXCEPT ![m.src] = "NONE"]
                      /\ funding_channels' =
                             [funding_channels EXCEPT ![m.chan] = next]
                      /\ UNCHANGED <<told, pending_fundings, channels>>
                   \/ /\ next # "SIGNING" \/ "signer" \in Faults
                      /\ LauncherFails(m)
                      /\ UNCHANGED funding_channels
                /\ UNCHANGED <<requested, panicked, spawned, actl, p2p,
                               published>>

(* Mutant: success is reported before the broadcast is attempted.            *)
HandleSignedReportsFirst(m) ==
    LET launcher == funding_channels[m.chan]
    IN  /\ Receive(m, "Signed", LnpBroker)
        /\ IF launcher = "NONE"
           THEN Panic(m)
           ELSE /\ ctl' = ctl \ {m}
                /\ funding_channels' =
                       [funding_channels EXCEPT ![m.chan] = "NONE"]
                /\ \/ published' = published \cup {m.chan}
                   \/ "broadcast" \in Faults /\ UNCHANGED published
                /\ Tell(m.chan, "success")
                /\ UNCHANGED <<requested, creating_channels, channels,
                               pending_fundings, panicked, spawned, actl, p2p>>

(* complete_signatures: the funding transaction is broadcast.  When that     *)
(* fails the launcher is gone and the client hears nothing.                  *)
HandleSigned(m) ==
    LET launcher == funding_channels[m.chan]
    IN  /\ Receive(m, "Signed", LnpBroker)
        /\ IF launcher = "NONE"
           THEN Panic(m)
           ELSE /\ ctl' = ctl \ {m}
                /\ funding_channels' =
                       [funding_channels EXCEPT ![m.chan] = "NONE"]
                /\ \/ /\ published' = published \cup {m.chan}
                      /\ Tell(m.chan, "success")
                   \/ /\ "broadcast" \in Faults
                      /\ UNCHANGED <<published, told>>
                /\ UNCHANGED <<requested, creating_channels, channels,
                               pending_fundings, panicked, spawned, actl, p2p>>

(* CtlMsg::Error: signd names the service whose request has failed.  Only    *)
(* channel daemons have launchers, so an error about a request of lnpd       *)
(* itself finds none.                                                        *)
HandleError(m) ==
    /\ Receive(m, "Error", LnpBroker)
    /\ Panic(m)

(* CtlMsg::Report: a failure a channel daemon reports to the client.         *)
HandleReport(m) ==
    /\ Receive(m, "Report", LnpBroker)
    /\ ctl' = ctl \ {m}
    /\ Tell(m.chan, "failure")
    /\ UNCHANGED <<requested, creating_channels, funding_channels, channels,
                   pending_fundings, panicked, spawned, actl, p2p, published>>

HandleCtl(m) ==
    \/ HandleHello(m)
    \/ HandleKeyset(m)
    \/ HandleConstructFunding(m)
    \/ HandlePublishFunding(m)
    \/ HandleSigned(m)
    \/ HandleError(m)
    \/ HandleReport(m)

=============================================================================
