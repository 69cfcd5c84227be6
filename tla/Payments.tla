------------------------------ MODULE Payments ------------------------------
(***************************************************************************)
(* A payment: a client's PayInvoice at routed, routed's Payment at the     *)
(* channel daemon and the HTLC that leaves for the peer; and what becomes  *)
(* of the client when one of the daemons on the way is offline.  lnpd, as  *)
(* the broker of the bus, answers a message to an absent daemon with an    *)
(* EsbError to its sender.                                                 *)
(***************************************************************************)
EXTENDS ChannelStore, PeerRegistry

VARIABLES
    enquirer,       \* routed's enquirer
    payments,       \* Payments on their way: client and channel
    bounced,        \* clients whose Payment comes back to routed
    chan_enquirer,  \* a channel daemon's enquirer
    undelivered,    \* channels with an EsbError on its way to their daemon
    htlcs           \* payments whose UpdateAddHtlc a daemon has sent

paymentVars == <<enquirer, payments, bounced, chan_enquirer, undelivered, htlcs>>

PaymentsInit ==
    /\ enquirer = NoClient
    /\ payments = {}
    /\ bounced = {}
    /\ chan_enquirer = [c \in Chan |-> NoClient]
    /\ undelivered = {}
    /\ htlcs = {}

(* A restart of the node leaves nothing of these.                            *)
PaymentsReset ==
    /\ enquirer' = NoClient
    /\ payments' = {}
    /\ bounced' = {}
    /\ chan_enquirer' = [c \in Chan |-> NoClient]
    /\ undelivered' = {}
    /\ htlcs' = {}

(* A message of channel c's daemon to the peer comes back when no daemon is  *)
(* connected to the peer.                                                    *)
SendP2p(c) ==
    undelivered' = IF PeerOf[c] \in peerds THEN undelivered
                   ELSE undelivered \cup {c}

(* routed handles PayInvoice: the client becomes the enquirer; without an    *)
(* amount or a route it is told so, else the channel gets a Payment.         *)
HandlePayInvoice(cl, c) ==
    /\ Asks(cl, PayInvoice(c))
    /\ enquirer' = cl
    /\ \/ /\ Tell(cl, "failure")
          /\ UNCHANGED payments
       \/ /\ payments' = payments \cup {<<cl, c>>}
          /\ UNCHANGED told
    /\ UNCHANGED <<bounced, chan_enquirer, undelivered, htlcs>>

(* No daemon has the channel's id: lnpd returns an EsbError to routed.       *)
PaymentBounces(cl, c) ==
    /\ <<cl, c>> \in payments /\ ~Reachable(c)
    /\ payments' = payments \ {<<cl, c>>}
    /\ bounced' = bounced \cup {cl}
    /\ UNCHANGED <<clientVars, enquirer, chan_enquirer, undelivered, htlcs>>

(* EsbError at routed is a message it does not know.  The error handler      *)
(* reports a failure to the last client that asked routed for anything.      *)
RoutedReportsError(cl) ==
    /\ cl \in bounced
    /\ bounced' = bounced \ {cl}
    /\ Tell(enquirer, "failure")
    /\ UNCHANGED <<asks, enquirer, payments, chan_enquirer, undelivered, htlcs>>

(* Mutant: success is reported before the update is composed.                *)
HandlePaymentEarly(cl, c) ==
    /\ <<cl, c>> \in payments /\ Reachable(c) /\ pc[c] = "idle"
    /\ payments' = payments \ {<<cl, c>>}
    /\ Tell(cl, "success")
    /\ \/ /\ htlcs' = htlcs \cup {<<cl, c>>}
          /\ SendP2p(c)
          /\ UNCHANGED mishaps
       \/ /\ Mishap
          /\ UNCHANGED <<undelivered, htlcs>>
    /\ chan_enquirer' = [chan_enquirer EXCEPT ![c] = NoClient]
    /\ UNCHANGED <<asks, enquirer, bounced>>

(* channeld handles Payment.  When the channel library refuses the HTLC the  *)
(* handler returns with the enquirer set and no report; otherwise success is *)
(* reported and the enquirer cleared.  The state is not saved.               *)
HandlePayment(cl, c) ==
    /\ <<cl, c>> \in payments /\ Reachable(c) /\ pc[c] = "idle"
    /\ payments' = payments \ {<<cl, c>>}
    /\ \/ /\ htlcs' = htlcs \cup {<<cl, c>>}
          /\ SendP2p(c)
          /\ Tell(cl, "success")
          /\ chan_enquirer' = [chan_enquirer EXCEPT ![c] = NoClient]
          /\ UNCHANGED mishaps
       \/ /\ Mishap
          /\ chan_enquirer' = [chan_enquirer EXCEPT ![c] = cl]
          /\ UNCHANGED <<told, undelivered, htlcs>>
    /\ UNCHANGED <<asks, enquirer, bounced>>

(* process of an EsbError at channeld: the enquirer is told of a failure; an *)
(* active channel is saved, any other refuses the message.                   *)
HandleEsbError(c) ==
    /\ c \in undelivered /\ Running(c) /\ pc[c] = "idle"
    /\ undelivered' = undelivered \ {c}
    /\ Tell(chan_enquirer[c], "failure")
    /\ pc' = IF state[c] = Active(c) THEN [pc EXCEPT ![c] = "handled"] ELSE pc
    /\ UNCHANGED <<asks, enquirer, payments, bounced, chan_enquirer, htlcs>>

=============================================================================
