-------------------------- MODULE ChannelHandshake --------------------------
(***************************************************************************)
(* What the opening of a channel promises, whatever daemons and messages   *)
(* carry it out.  A channel goes through its phases in order and may stop  *)
(* in any of them; the client that asked is told of success by the step    *)
(* that funds the channel; the proposing end opens the channel last.       *)
(***************************************************************************)
CONSTANT Chan

VARIABLES
    phase,    \* how far the opening of each channel got
    success,  \* channels whose client was told of success
    peer      \* whether the accepting end considers the channel active

handshakeVars == <<phase, success, peer>>

Phases == {"idle", "proposed", "accepted", "committed", "funded", "open"}

HandshakeInit ==
    /\ phase = [c \in Chan |-> "idle"]
    /\ success = {}
    /\ peer = [c \in Chan |-> FALSE]

Advance(c, from, to) ==
    /\ phase[c] = from
    /\ phase' = [phase EXCEPT ![c] = to]

Propose(c) == Advance(c, "idle", "proposed") /\ UNCHANGED <<success, peer>>

Accept(c) == Advance(c, "proposed", "accepted") /\ UNCHANGED <<success, peer>>

(* The peer's commitment signature is held: from now on the funds that are  *)
(* about to be locked can be claimed back.                                  *)
Commit(c) == Advance(c, "accepted", "committed") /\ UNCHANGED <<success, peer>>

Fund(c) ==
    /\ Advance(c, "committed", "funded")
    /\ success' = success \cup {c}
    /\ UNCHANGED peer

PeerActivates(c) ==
    /\ phase[c] = "funded"
    /\ ~peer[c]
    /\ peer' = [peer EXCEPT ![c] = TRUE]
    /\ UNCHANGED <<phase, success>>

Open(c) ==
    /\ peer[c]
    /\ Advance(c, "funded", "open")
    /\ UNCHANGED <<success, peer>>

HandshakeNext ==
    \E c \in Chan :
        \/ Propose(c)
        \/ Accept(c)
        \/ Commit(c)
        \/ Fund(c)
        \/ PeerActivates(c)
        \/ Open(c)

HandshakeSpec == HandshakeInit /\ [][HandshakeNext]_handshakeVars

=============================================================================
