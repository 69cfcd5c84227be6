----------------------------- MODULE TxTracker ------------------------------
(***************************************************************************)
(* What watchd promises the daemons that ask it to track a transaction:    *)
(* each request is answered at most once, with TxFound, to the service     *)
(* that made it, and only for a transaction the Electrum server has seen.  *)
(* A later request for the same transaction takes the place of an earlier  *)
(* one.                                                                    *)
(***************************************************************************)
EXTENDS Integers

CONSTANTS Tx, Service, NoService

VARIABLES
    tracker,   \* the service each transaction is tracked for
    seen,      \* transactions the Electrum server has
    answers    \* how often each service was sent TxFound for a transaction

trackerVars == <<tracker, seen, answers>>

TrackerInit ==
    /\ tracker = [tx \in Tx |-> NoService]
    /\ seen = {}
    /\ answers = [s \in Service |-> [tx \in Tx |-> 0]]

Request(tx, service) ==
    /\ tracker' = [tracker EXCEPT ![tx] = service]
    /\ UNCHANGED <<seen, answers>>

Withdraw(tx) ==
    /\ tracker' = [tracker EXCEPT ![tx] = NoService]
    /\ UNCHANGED <<seen, answers>>

See(tx) ==
    /\ seen' = seen \cup {tx}
    /\ UNCHANGED <<tracker, answers>>

Answer(tx) ==
    /\ tx \in seen
    /\ tracker[tx] # NoService
    /\ tracker' = [tracker EXCEPT ![tx] = NoService]
    /\ answers' = [answers EXCEPT ![tracker[tx]][tx] = @ + 1]
    /\ UNCHANGED seen

TrackerNext ==
    \E tx \in Tx :
        \/ \E service \in Service : Request(tx, service)
        \/ Withdraw(tx)
        \/ See(tx)
        \/ Answer(tx)

TrackerSpec == TrackerInit /\ [][TrackerNext]_trackerVars

=============================================================================
