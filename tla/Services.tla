------------------------------ MODULE Services ------------------------------
(***************************************************************************)
(* What the daemons of an LNP node share: the names they address each      *)
(* other by, the CTL bus routed by lnpd, the peer-to-peer link kept by the *)
(* two peerd instances, and the bitcoin mempool.                           *)
(*                                                                         *)
(* Two nodes are modelled: the node that proposes the channels of Chan     *)
(* (its bus is ctl) and the node that accepts them (its bus is actl).      *)
(* A bus is a set of messages in flight.  The opening workflow is a chain  *)
(* of requests and replies, each message being sent at most once for a     *)
(* channel; the few messages in flight together between two given daemons  *)
(* (a channeld's second Hello and its PublishFunding, ChannelCreated and   *)
(* Hello to routed, reports) commute, so a set loses nothing against the   *)
(* FIFO order of the ESB.                                                  *)
(***************************************************************************)
CONSTANTS
    Chan,    \* channels the clients of the proposing node ask for
    Faults   \* which failing branches of the handlers may be taken

FaultKinds ==
    { "launch",     \* the operating system refuses to start a channeld
      "signer",     \* signd is not connected when lnpd sends to it
      "sign",       \* signd fails to sign
      "funds",      \* the funding wallet cannot construct the funding PSBT
      "broadcast",  \* the funding transaction is not accepted for broadcast
      "peer",       \* there is no peerd for the remote node
      "protocol",   \* the channel logic rejects what it was given
      "watch",      \* watchd is not connected when channeld sends to it
      "remote" }    \* a step of the accepting node fails, or its link is down

ASSUME FaultsAssumption == Faults \subseteq FaultKinds

-----------------------------------------------------------------------------
(* ServiceId: a pair of a kind and the channel it is for, if any.           *)

NoChan == "-"
Temp(c) == <<"temp", c>>             \* Channel(temporary channel id)
Perm(c) == <<"perm", c>>             \* Channel(id computed from the funding)
LnpBroker == <<"lnpd", NoChan>>
Signer == <<"signd", NoChan>>
Watch == <<"watchd", NoChan>>
Router == <<"routed", NoChan>>

ChannelIds == {"temp", "perm"} \X Chan
ServiceIds == ChannelIds \cup {LnpBroker, Signer, Watch, Router}

(* CtlMsg: the variant, its source and destination on the bus and the      *)
(* channel whose keys, transaction or client the payload is about.         *)

CtlTypes ==
    { "Hello", "DeriveKeyset", "Keyset", "OpenChannelWith",
      "AcceptChannelFrom", "ConstructFunding", "FundingConstructed",
      "PublishFunding", "Sign", "Signed", "Track", "TxFound",
      "ChannelCreated", "ChannelUpdate", "Report", "Error", "EsbError" }

CtlMsg(type, src, dst, c) ==
    [type |-> type, src |-> src, dst |-> dst, chan |-> c]

CtlMsgs == [type : CtlTypes, src : ServiceIds, dst : ServiceIds, chan : Chan]

(* BOLT messages: the side that receives them, the service the peerd of    *)
(* that side forwards them to (found from the channel id in the message),  *)
(* and whose signature they carry, if any.                                 *)

Sides == {"proposer", "acceptor"}

P2pTypes ==
    { "OpenChannel", "AcceptChannel", "FundingCreated", "FundingSigned",
      "FundingLocked" }

Signatures == Sides \cup {"none"}

P2pMsg(type, to, id, c, sig) ==
    [type |-> type, to |-> to, id |-> id, chan |-> c, sig |-> sig]

P2pMsgs == [type : P2pTypes, to : Sides, id : ChannelIds \cup {LnpBroker},
            chan : Chan, sig : Signatures]

-----------------------------------------------------------------------------
VARIABLES
    ctl,        \* CTL messages in flight at the proposing node
    actl,       \* CTL messages in flight at the accepting node
    p2p,        \* BOLT messages in flight between the nodes
    published   \* channels whose funding transaction was broadcast

sharedVars == <<ctl, actl, p2p, published>>

SharedInit ==
    /\ ctl = {}
    /\ actl = {}
    /\ p2p = {}
    /\ published = {}

SharedTypeOK ==
    /\ ctl \subseteq CtlMsgs
    /\ actl \subseteq CtlMsgs
    /\ p2p \subseteq P2pMsgs
    /\ published \subseteq Chan

=============================================================================
