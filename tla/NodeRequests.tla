---------------------------- MODULE NodeRequests ----------------------------
(***************************************************************************)
(* Clients of a node and what goes wrong around it: shared by the modules  *)
(* on lnpd's registries, the state files of channels and payments.         *)
(*                                                                         *)
(* A client is one run of the command-line tool.  It makes one request and *)
(* prints answers until one of them is final.                              *)
(***************************************************************************)
EXTENDS Integers, FiniteSets

CONSTANTS
    Client,      \* clients of the node
    NoClient,    \* None where the code has an Option<ClientId>
    Peer,        \* remote nodes, each with one protocol
    Addr,        \* addresses to listen on
    Chan,        \* channels
    PeerOf,      \* the remote node of a channel
    MaxMishaps   \* bound on mishaps

ASSUME NodeAssumption ==
    /\ NoClient \notin Client
    /\ PeerOf \in [Chan -> Peer]
    /\ MaxMishaps \in Nat

VARIABLES
    asks,     \* the request of each client
    told,     \* final answers that each client was sent
    mishaps   \* number of failed launches, refused messages, ended daemons

clientVars == <<asks, told>>

NoRequest == <<"none">>
ConnectPeer(p) == <<"connect", p>>
Listen(a) == <<"listen", a>>
PayInvoice(c) == <<"pay", c>>

Request ==
    {NoRequest} \cup {ConnectPeer(p) : p \in Peer} \cup {Listen(a) : a \in Addr}
                \cup {PayInvoice(c) : c \in Chan}

RequestsInit ==
    /\ asks = [cl \in Client |-> NoRequest]
    /\ told = [cl \in Client |-> {}]

(* A client makes its request.                                              *)
Asks(cl, request) ==
    /\ asks[cl] = NoRequest
    /\ asks' = [asks EXCEPT ![cl] = request]

(* A reply, or a report that lnpd passes on; Progress is not final and left  *)
(* out.  An Option without client gets no report.                            *)
ToldAfter(cl, status) ==
    [other \in Client |-> IF other = cl THEN told[other] \cup {status}
                          ELSE told[other]]

Tell(cl, status) == told' = ToldAfter(cl, status)

(* The client's loop ends with Success or Failure.                           *)
Answered(cl) == told[cl] # {}

(* Every failing branch and every daemon that ends counts as a mishap.       *)
Mishap ==
    /\ mishaps < MaxMishaps
    /\ mishaps' = mishaps + 1

=============================================================================
