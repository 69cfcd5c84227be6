---------------------------- MODULE PeerRegistry ----------------------------
(***************************************************************************)
(* lnpd's registry of connections, its handlers of ConnectPeer and Listen, *)
(* and the peer daemons it launches.  A daemon connects to the bus as      *)
(* PeerBolt or PeerBifrost of its remote node and says Hello.  The bus     *)
(* refuses a second daemon under an id that is in use.                     *)
(***************************************************************************)
EXTENDS NodeRequests

CONSTANT Configured   \* addresses given to lnpd with --listen

ASSUME ConfiguredAssumption == Configured \subseteq Addr

VARIABLES
    listens,         \* addresses lnpd holds to be listened on
    listening,       \* addresses with a listening daemon
    spawning_peers,  \* the client that waits for a launched daemon's Hello
    connections,     \* bolt_connections and bifrost_connections
    launched,        \* peers with a daemon that is connecting to them
    peerds,          \* peers with a daemon that is connected to the bus
    phellos          \* peers whose daemon's Hello is on its way to lnpd

registryVars == <<listens, listening, spawning_peers, connections, launched,
                  peerds, phellos>>

(* lnpd starts with empty maps and launches a listener per configured        *)
(* address.                                                                  *)
RegistryInit ==
    /\ listens = Configured
    /\ listening = Configured
    /\ spawning_peers = [p \in Peer |-> NoClient]
    /\ connections = {}
    /\ launched = {}
    /\ peerds = {}
    /\ phellos = {}

RegistryReset ==
    /\ listens' = Configured
    /\ listening' = Configured
    /\ spawning_peers' = [p \in Peer |-> NoClient]
    /\ connections' = {}
    /\ launched' = {}
    /\ peerds' = {}
    /\ phellos' = {}

-----------------------------------------------------------------------------
(* RpcMsg::Listen.  The address is filed before the daemon is launched and   *)
(* stays filed when the launch fails.                                        *)
HandleListen(cl, a) ==
    /\ Asks(cl, Listen(a))
    /\ listens' = listens \cup {a}
    /\ \/ /\ a \in listens
          /\ Tell(cl, "failure")
          /\ UNCHANGED <<listening, mishaps>>
       \/ /\ a \notin listens
          /\ listening' = listening \cup {a}
          /\ Tell(cl, "success")
          /\ UNCHANGED mishaps
       \/ /\ a \notin listens
          /\ Mishap
          /\ Tell(cl, "failure")
          /\ UNCHANGED listening
    /\ UNCHANGED <<spawning_peers, connections, launched, peerds, phellos>>

(* Mutant: only registered connections count as connected.                   *)
KnownPeerRegistered(p) == p \in connections

(* The check of ConnectPeer: a daemon is connected, or being launched.       *)
KnownPeer(p) == spawning_peers[p] # NoClient \/ p \in connections

(* RpcMsg::ConnectPeer: success at once for a known peer, else the client    *)
(* waits until the launched daemon says Hello.                               *)
HandleConnectPeer(cl, p) ==
    /\ Asks(cl, ConnectPeer(p))
    /\ \/ /\ KnownPeer(p)
          /\ Tell(cl, "success")
          /\ UNCHANGED <<spawning_peers, launched, mishaps>>
       \/ /\ ~KnownPeer(p)
          /\ launched' = launched \cup {p}
          /\ spawning_peers' = [spawning_peers EXCEPT ![p] = cl]
          /\ UNCHANGED <<told, mishaps>>
       \/ /\ ~KnownPeer(p)
          /\ Mishap
          /\ Tell(cl, "failure")
          /\ UNCHANGED <<spawning_peers, launched>>
    /\ UNCHANGED <<listens, listening, connections, peerds, phellos>>

-----------------------------------------------------------------------------
(* A launched daemon reaches its peer, connects to the bus and says Hello;   *)
(* when another daemon has its id already it is not heard.                   *)
PeerdConnects(p) ==
    /\ p \in launched
    /\ launched' = launched \ {p}
    /\ peerds' = peerds \cup {p}
    /\ phellos' = IF p \in peerds THEN phellos ELSE phellos \cup {p}
    /\ UNCHANGED <<clientVars, mishaps, listens, listening, spawning_peers,
                   connections>>

(* The peer cannot be reached: the daemon ends and nobody hears of it.       *)
PeerdFails(p) ==
    /\ p \in launched
    /\ Mishap
    /\ launched' = launched \ {p}
    /\ UNCHANGED <<clientVars, listens, listening, spawning_peers, connections,
                   peerds, phellos>>

(* A remote node connects to a listening daemon, which starts a daemon for   *)
(* the connection.                                                           *)
PeerArrives(p) ==
    /\ listening # {}
    /\ p \notin peerds
    /\ peerds' = peerds \cup {p}
    /\ phellos' = phellos \cup {p}
    /\ UNCHANGED <<clientVars, mishaps, listens, listening, spawning_peers,
                   connections, launched>>

(* Mutant: the waiting client stays filed.                                   *)
HandlePeerHelloKeeps(p) ==
    /\ p \in phellos
    /\ phellos' = phellos \ {p}
    /\ connections' = connections \cup {p}
    /\ Tell(spawning_peers[p], "success")
    /\ UNCHANGED <<asks, mishaps, listens, listening, spawning_peers, launched,
                   peerds>>

(* handle_hello of a peer daemon: it is registered, and the client that      *)
(* waits for it is told.                                                     *)
HandlePeerHello(p) ==
    /\ p \in phellos
    /\ phellos' = phellos \ {p}
    /\ connections' = connections \cup {p}
    /\ spawning_peers' = [spawning_peers EXCEPT ![p] = NoClient]
    /\ Tell(spawning_peers[p], "success")
    /\ UNCHANGED <<asks, mishaps, listens, listening, launched, peerds>>

(* A peer daemon ends.  lnpd does not notice.                                *)
PeerdStops(p) ==
    /\ p \in peerds
    /\ Mishap
    /\ peerds' = peerds \ {p}
    /\ UNCHANGED <<clientVars, listens, listening, spawning_peers, connections,
                   launched, phellos>>

=============================================================================
