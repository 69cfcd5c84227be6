------------------------------- MODULE Signd --------------------------------
(***************************************************************************)
(* signd: derives the keys of a channel and signs the transactions it is   *)
(* sent.  It keeps no state; each request is answered to whoever sent it.  *)
(* The same daemon runs at both nodes, on the bus of its node.             *)
(***************************************************************************)
EXTENDS Services

(* A request that fails is answered with an error naming its own sender.    *)
(* signd has an account from its start, so that DeriveKeyset is answered.   *)
SigndReplies(m) ==
    CASE m.type = "DeriveKeyset" ->
             { {CtlMsg("Keyset", Signer, m.src, m.chan)} }
      [] m.type = "Sign" ->
             { {CtlMsg("Signed", Signer, m.src, m.chan)} }
               \cup (IF "sign" \in Faults
                     THEN { {CtlMsg("Error", Signer, m.src, m.chan)} }
                     ELSE {})
      [] OTHER -> { {CtlMsg("Error", Signer, m.src, m.chan)} }

(* Handling one request m on the bus.                                       *)
SigndAnswers(bus, m, busNext) ==
    /\ m \in bus
    /\ m.dst = Signer
    /\ \E replies \in SigndReplies(m) : busNext = (bus \ {m}) \cup replies

=============================================================================
