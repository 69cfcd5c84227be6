---------------------------- MODULE PeerLink ----------------------------
(* The peer daemons at the two ends of one BOLT connection                 *)
(* (src/peerd/runtime.rs).  Each peerd is a listener thread, which reads   *)
(* the socket and passes what it reads over an in-process bridge, and a    *)
(* runtime, which handles the bridge and the messages channelds hand it.   *)
(* A socket read that times out makes the runtime ping its peer.           *)
(*                                                                         *)
(* The channelds around the two daemons are the environment: they exchange *)
(* the messages of Script(c) in turns, each end answering the message it   *)
(* got.  The connection may close, or go silent: bytes written no longer   *)
(* arrive, and neither end is told.                                        *)
EXTENDS Naturals, Sequences, FiniteSets

CONSTANTS
  Opened,         \* channels the local node proposes over this connection
  Restored,       \* channels that existed before and are reestablished
  PongSizes,      \* the lengths a ping may ask for
  MaxTimeouts,    \* bound on the read timeouts
  Breaks          \* the ways the connection may break: a subset of {"closed", "silent"}

ASSUME PeerLinkAssumption ==
  /\ Opened \cap Restored = {} /\ MaxTimeouts \in Nat /\ 0 \notin PongSizes /\ PongSizes \subseteq Nat
  /\ Breaks \subseteq {"closed", "silent"}

VARIABLES
  link,               \* "up", "silent" or "closed"
  wire,               \* wire[s]: messages on their way to end s
  bridge,             \* bridge[s]: what the listener of s handed to its runtime
  connect,            \* Runtime::connect
  awaited_pong,       \* Runtime::awaited_pong, 0 for None
  channels,           \* Runtime::channels: pairs of the kind of id and the channel
  messages_sent,
  messages_received,
  timeouts,           \* read timeouts so far, bounded by MaxTimeouts
  handed,             \* handed[c]: messages of Script(c) channelds gave to a peerd
  forwarded           \* forwarded[c]: messages of Script(c) a peerd gave to its node

vars == <<link, wire, bridge, connect, awaited_pong, channels, messages_sent,
          messages_received, timeouts, handed, forwarded>>

Side == {"local", "remote"}
Peer(s) == IF s = "local" THEN "remote" ELSE "local"
Chan == Opened \cup Restored

Script(c) ==
  IF c \in Opened
  THEN <<"OpenChannel", "AcceptChannel", "FundingCreated", "FundingSigned",
         "FundingLocked", "FundingLocked">>
  ELSE <<"ChannelReestablish", "ChannelReestablish">>

ChannelKinds ==
  {"OpenChannel", "AcceptChannel", "FundingCreated", "FundingSigned", "FundingLocked",
   "ChannelReestablish"}

Sender(i) == IF i % 2 = 1 THEN "local" ELSE "remote"

Bolt(kind, c) == [kind |-> kind, chan |-> c]
Ping(n) == [kind |-> "Ping", pong_size |-> n]
Pong(n) == [kind |-> "Pong", len |-> n]
InitMsg == [kind |-> "Init"]
PingPeer == [kind |-> "PingPeer"]

Init ==
  /\ link = "up"
  /\ wire = [s \in Side |-> <<>>]
  /\ bridge = [s \in Side |-> <<>>]
  /\ connect = [s \in Side |-> s = "local"]
  /\ awaited_pong = [s \in Side |-> 0]
  /\ channels = [s \in Side |-> {}]
  /\ messages_sent = [s \in Side |-> 0]
  /\ messages_received = [s \in Side |-> 0]
  /\ timeouts = 0
  /\ handed = [c \in Chan |-> 0]
  /\ forwarded = [c \in Chan |-> 0]

(* PeerSender::send_message: Err once the connection is closed; on a       *)
(* silent one the write succeeds and the bytes are lost.                   *)
SendOk == link # "closed"
Written(s, m) ==
  IF link = "up" THEN [wire EXCEPT ![Peer(s)] = Append(@, m)] ELSE wire

(* on_ready: the connecting end sends Init, uncounted.  A daemon that      *)
(* cannot send it fails before it handles anything.                        *)
OnReady(s) ==
  /\ connect[s] /\ SendOk
  /\ connect' = [connect EXCEPT ![s] = FALSE]
  /\ wire' = Written(s, InitMsg)
  /\ UNCHANGED <<link, bridge, awaited_pong, channels, messages_sent,
                 messages_received, timeouts, handed, forwarded>>

(* The channels a peerd lists after it sent a message of a channel.        *)
ListedAfterSend(chs, kind, c) ==
  CASE kind \in {"OpenChannel", "AcceptChannel"} -> chs \cup {<<"Temporary", c>>}
    [] kind = "FundingCreated" -> (chs \ {<<"Temporary", c>>}) \cup {<<"Static", c>>}
    [] kind = "ChannelReestablish" -> chs \cup {<<"Static", c>>}
    [] OTHER -> chs

\* Mutant: the renaming upon receiving FundingCreated is left to the sender.
ListedAfterForwardSame(chs, kind, c) == chs

(* The channels it lists after it forwarded a message from its peer.       *)
ListedAfterForward(chs, kind, c) ==
  IF kind = "FundingCreated"
  THEN (chs \ {<<"Temporary", c>>}) \cup {<<"Static", c>>}
  ELSE chs

(* handle_bolt: the channeld of c hands over its next message, having got  *)
(* the one before it.  The message counts as sent even if sending fails.   *)
HandleBolt(s, c) ==
  LET i == handed[c] + 1 IN
  /\ ~connect[s]
  /\ i <= Len(Script(c)) /\ Sender(i) = s /\ forwarded[c] = handed[c]
  /\ handed' = [handed EXCEPT ![c] = i]
  /\ messages_sent' = [messages_sent EXCEPT ![s] = @ + 1]
  /\ wire' = Written(s, Bolt(Script(c)[i], c))
  /\ channels' = IF SendOk
                 THEN [channels EXCEPT ![s] = ListedAfterSend(@, Script(c)[i], c)]
                 ELSE channels
  /\ UNCHANGED <<link, bridge, connect, awaited_pong, messages_received,
                 timeouts, forwarded>>

(* ListenerRuntime::handle: what was read goes over the bridge.            *)
ListenerHandle(s) ==
  /\ wire[s] # <<>>
  /\ bridge' = [bridge EXCEPT ![s] = Append(@, Head(wire[s]))]
  /\ wire' = [wire EXCEPT ![s] = Tail(@)]
  /\ UNCHANGED <<link, connect, awaited_pong, channels, messages_sent,
                 messages_received, timeouts, handed, forwarded>>

(* ListenerRuntime::handle_err, TimedOut: nothing was read for a while.    *)
(* Any other error ends the thread, which a closed connection models.      *)
ListenerTimedOut(s) ==
  /\ link # "closed" /\ wire[s] = <<>>
  /\ timeouts < MaxTimeouts
  /\ timeouts' = timeouts + 1
  /\ bridge' = [bridge EXCEPT ![s] = Append(@, PingPeer)]
  /\ UNCHANGED <<link, wire, connect, awaited_pong, channels, messages_sent,
                 messages_received, handed, forwarded>>

(* The runtime takes the next message of the bridge, once on_ready ran.    *)
Take(s) ==
  /\ ~connect[s] /\ bridge[s] # <<>>
  /\ bridge' = [bridge EXCEPT ![s] = Tail(@)]

(* handle_bridge_bolt counts every message of the peer before it looks at  *)
(* its kind.                                                               *)
TakeBolt(s, kinds) ==
  /\ Take(s) /\ Head(bridge[s]).kind \in kinds
  /\ messages_received' = [messages_received EXCEPT ![s] = @ + 1]

\* Mutant: the length awaited is that of the ping's own noise.
HandlePingPeerAwaitsNoise(s) ==
  /\ Take(s) /\ Head(bridge[s]) = PingPeer
  /\ messages_sent' = [messages_sent EXCEPT ![s] = @ + 1]
  /\ \E n \in PongSizes, noise \in 4 .. 32 :
       /\ wire' = Written(s, Ping(n))
       /\ awaited_pong' = IF SendOk THEN [awaited_pong EXCEPT ![s] = noise] ELSE awaited_pong
  /\ UNCHANGED <<link, connect, channels, messages_received, timeouts, handed, forwarded>>

(* ping: awaited_pong is overwritten, whether or not a pong was awaited,   *)
(* and only if the ping could be written.  The peer's id, which the        *)
(* warning about a pong overdue expects to find, is taken as known.        *)
HandlePingPeer(s) ==
  /\ Take(s) /\ Head(bridge[s]) = PingPeer
  /\ messages_sent' = [messages_sent EXCEPT ![s] = @ + 1]
  /\ \E n \in PongSizes :
       /\ wire' = Written(s, Ping(n))
       /\ awaited_pong' = IF SendOk THEN [awaited_pong EXCEPT ![s] = n] ELSE awaited_pong
  /\ UNCHANGED <<link, connect, channels, messages_received, timeouts, handed, forwarded>>

\* Mutant: an answer is not counted as a message sent.
HandlePingUncounted(s) ==
  /\ TakeBolt(s, {"Ping"})
  /\ wire' = Written(s, Pong(Head(bridge[s]).pong_size))
  /\ UNCHANGED <<link, connect, awaited_pong, channels, messages_sent, timeouts,
                 handed, forwarded>>

\* Mutant: the pong is of any length instead of the one asked for.
HandlePingWrongSize(s) ==
  /\ TakeBolt(s, {"Ping"})
  /\ messages_sent' = [messages_sent EXCEPT ![s] = @ + 1]
  /\ \E n \in PongSizes : wire' = Written(s, Pong(n))
  /\ UNCHANGED <<link, connect, awaited_pong, channels, timeouts, handed, forwarded>>

(* handle_bridge_bolt, Ping: pong.                                         *)
HandlePing(s) ==
  /\ TakeBolt(s, {"Ping"})
  /\ messages_sent' = [messages_sent EXCEPT ![s] = @ + 1]
  /\ wire' = Written(s, Pong(Head(bridge[s]).pong_size))
  /\ UNCHANGED <<link, connect, awaited_pong, channels, timeouts, handed, forwarded>>

\* Mutant: the pong does not end the await mode.
HandlePongKeeps(s) ==
  /\ TakeBolt(s, {"Pong"})
  /\ UNCHANGED <<link, wire, connect, awaited_pong, channels, messages_sent, timeouts,
                 handed, forwarded>>

(* handle_bridge_bolt, Pong: on_pong leaves pong await mode whichever ping *)
(* the pong answers.                                                       *)
HandlePong(s) ==
  /\ TakeBolt(s, {"Pong"})
  /\ awaited_pong' = [awaited_pong EXCEPT ![s] = 0]
  /\ UNCHANGED <<link, wire, connect, channels, messages_sent, timeouts, handed, forwarded>>

(* handle_bridge_bolt, every message of a channel: forwarded to lnpd       *)
(* (OpenChannel, ChannelReestablish) or to the channeld its id names.      *)
HandleForward(s) ==
  LET m == Head(bridge[s]) IN
  /\ TakeBolt(s, ChannelKinds)
  /\ forwarded' = [forwarded EXCEPT ![m.chan] = @ + 1]
  /\ channels' = [channels EXCEPT ![s] = ListedAfterForward(@, m.kind, m.chan)]
  /\ UNCHANGED <<link, wire, connect, awaited_pong, messages_sent, timeouts, handed>>

(* handle_bridge_bolt, every other message, Init among them: counted only. *)
HandleOther(s) ==
  /\ TakeBolt(s, {"Init"})
  /\ UNCHANGED <<link, wire, connect, awaited_pong, channels, messages_sent, timeouts,
                 handed, forwarded>>

(* The connection breaks, and what is left of each direction is a prefix   *)
(* of what was on the wire.                                                *)
LinkBreaks ==
  /\ link = "up"
  /\ link' \in Breaks
  /\ \E m \in 0 .. Len(wire["local"]), n \in 0 .. Len(wire["remote"]) :
       wire' = [s \in Side |-> SubSeq(wire[s], 1, IF s = "local" THEN m ELSE n)]
  /\ UNCHANGED <<bridge, connect, awaited_pong, channels, messages_sent,
                 messages_received, timeouts, handed, forwarded>>

HandleBridge(s) ==
  \/ HandlePingPeer(s) \/ HandlePing(s) \/ HandlePong(s)
  \/ HandleForward(s) \/ HandleOther(s)

Next ==
  \/ \E s \in Side :
       \/ OnReady(s) \/ HandleBridge(s) \/ ListenerHandle(s) \/ ListenerTimedOut(s)
       \/ \E c \in Chan : HandleBolt(s, c)
  \/ LinkBreaks

Spec == Init /\ [][Next]_vars

(* The two threads of each daemon keep running: the listener reads what    *)
(* arrives, and the runtime takes the next message of some bus, the bridge *)
(* or the one of the channelds.  Timeouts and faults are not fair.         *)
Runtime(s) == OnReady(s) \/ HandleBridge(s) \/ \E c \in Chan : HandleBolt(s, c)

FairSpec ==
  /\ Spec
  /\ \A s \in Side : WF_vars(ListenerHandle(s)) /\ WF_vars(Runtime(s))

-----------------------------------------------------------------------------
Sendable ==
  {InitMsg} \cup {Ping(n) : n \in PongSizes} \cup {Pong(n) : n \in PongSizes}
    \cup UNION {{Bolt(Script(c)[i], c) : i \in DOMAIN Script(c)} : c \in Chan}

(* Types of the state of the two daemons and of the connection.            *)
TypeOK ==
  /\ link \in {"up", "silent", "closed"}
  /\ wire \in [Side -> Seq(Sendable)]
  /\ bridge \in [Side -> Seq(Sendable \cup {PingPeer})]
  /\ connect \in [Side -> BOOLEAN]
  /\ awaited_pong \in [Side -> PongSizes \cup {0}]
  /\ channels \in [Side -> SUBSET ({"Temporary", "Static"} \X Chan)]
  /\ messages_sent \in [Side -> Nat]
  /\ messages_received \in [Side -> Nat]
  /\ timeouts \in 0 .. MaxTimeouts
  /\ \A c \in Chan : forwarded[c] \in 0 .. handed[c] /\ handed[c] \in 0 .. Len(Script(c))

(* What is under way to the runtime of s, oldest first: messages of its    *)
(* peer and the requests to ping that its listener put between them.       *)
Under(s) == bridge[s] \o wire[s]

(* The places of the peer's messages in it.                                *)
PeerMessages(s) == {i \in DOMAIN Under(s) : Under(s)[i] # PingPeer}

(* A daemon awaits only what is still to come: while the connection is up, *)
(* the ping whose pong it awaits, of the length it asked for, or that pong *)
(* is under way, although timeouts overwrite awaited_pong and late pongs   *)
(* clear it.                                                               *)
AwaitedIsUnderWay ==
  \A s \in Side :
    link = "up" /\ awaited_pong[s] # 0 =>
      \/ \E i \in DOMAIN Under(Peer(s)) : Under(Peer(s))[i] = Ping(awaited_pong[s])
      \/ \E i \in DOMAIN Under(s) : Under(s)[i] = Pong(awaited_pong[s])

(* The counters of PeerInfo: one end has received, or has under way, just  *)
(* what the other counted as sent and the Init it did not count; less once *)
(* the connection broke.                                                   *)
MessagesAreCounted ==
  \A s \in Side :
    LET counted == messages_sent[s] + (IF s = "local" /\ ~connect[s] THEN 1 ELSE 0)
        arrived == messages_received[Peer(s)] + Cardinality(PeerMessages(Peer(s)))
    IN  /\ arrived <= counted
        /\ link = "up" => arrived = counted

(* Between two messages of a channel, once each end has sent one, the two  *)
(* daemons list it under the same single id, also across its change from   *)
(* the temporary to the permanent one.                                     *)
ChannelsAgree ==
  \A c \in Chan : handed[c] = forwarded[c] /\ handed[c] >= 2 =>
    \E id \in {"Temporary", "Static"} : \A s \in Side :
      channels[s] \cap ({"Temporary", "Static"} \X {c}) = {<<id, c>>}

(* While the connection stays up it comes to rest again and again: no pong *)
(* is awaited at either end, and the exchange of every channel has run to  *)
(* its end.                                                                *)
LinkServes ==
  []<>(\/ link # "up"
       \/ /\ \A s \in Side : awaited_pong[s] = 0
          /\ \A c \in Chan : forwarded[c] = Len(Script(c)))

=============================================================================
