--------------------------- MODULE MCNodeRuntime ----------------------------
(***************************************************************************)
(* Instance of NodeRuntime for TLC: every channel is with the same peer.   *)
(***************************************************************************)
EXTENDS NodeRuntime

CONSTANT p1

MCPeerOf == [c \in Chan |-> p1]

=============================================================================
