------------------------------- MODULE Watchd -------------------------------
(***************************************************************************)
(* watchd: the daemon that tells other daemons when the Electrum server    *)
(* knows a transaction.  Four threads pass messages along a ring:          *)
(*                                                                         *)
(*   runtime --cmds--> worker --updates--> watcher --bridge--> runtime     *)
(*   pacemaker --cmds--> worker                                            *)
(*                                                                         *)
(* The runtime keeps track_list, the worker its own list tracks; they are  *)
(* brought in line only by the commands in between.                        *)
(***************************************************************************)
EXTENDS Integers, Sequences, SequencesExt

CONSTANTS
    Tx,             \* transactions
    Service,        \* daemons that ask for tracking
    NoService,      \* no entry in track_list
    Published,      \* the transactions that do get published
    Untracks,       \* whether a daemon also sends CtlMsg::Untrack
    MaxFailures,    \* bound on the requests to the Electrum server that fail
    MaxRequests,    \* bound on the Track and Untrack requests made
    MaxQueue        \* bound on the messages in the ring when a poll is added

ASSUME WatchdAssumption ==
    /\ NoService \notin Service
    /\ Published \subseteq Tx
    /\ Untracks \in BOOLEAN
    /\ MaxFailures \in Nat /\ MaxRequests \in Nat /\ MaxQueue \in Nat

VARIABLES
    track_list,   \* the runtime's map from a transaction to the service
    cmds,         \* the mpsc channel of ElectrumCmd
    tracks,       \* the worker's list of transactions to poll
    updates,      \* the mpsc channel of ElectrumUpdate: TxBatch messages
    bridge,       \* the ZMQ pair: TxFound messages
    worker,       \* the worker thread: "running", or "panicked"
    known,        \* transactions the Electrum server knows
    reports,      \* number of TxFound sent to a service for a transaction
    requests,     \* number of Track and Untrack requests made
    withdrawn,    \* transactions that Untrack was sent for
    failures      \* number of requests to the server that failed

vars == <<track_list, cmds, tracks, updates, bridge, worker, known, reports,
          requests, withdrawn, failures>>

Cmd(type, tx) == <<type, tx>>
GetTransactions == <<"get">>
Cmds == ({"track", "untrack"} \X Tx) \cup {GetTransactions}

Init ==
    /\ track_list = [tx \in Tx |-> NoService]
    /\ cmds = <<>>
    /\ tracks = <<>>
    /\ updates = <<>>
    /\ bridge = <<>>
    /\ worker = "running"
    /\ known = {}
    /\ reports = [s \in Service |-> [tx \in Tx |-> 0]]
    /\ requests = 0
    /\ withdrawn = {}
    /\ failures = 0

(* Types of the state of the four threads and of the channels between them. *)
TypeOK ==
    /\ track_list \in [Tx -> Service \cup {NoService}]
    /\ cmds \in Seq(Cmds)
    /\ tracks \in Seq(Tx)
    /\ updates \in Seq(Seq(Tx))
    /\ bridge \in Seq(Tx)
    /\ worker \in {"running", "panicked"}
    /\ known \subseteq Tx
    /\ reports \in [Service -> [Tx -> Nat]]
    /\ requests \in 0..MaxRequests
    /\ withdrawn \subseteq Tx
    /\ failures \in 0..MaxFailures

-----------------------------------------------------------------------------
(* The runtime.                                                              *)

(* ElectrumWorker::cmd: the channel is closed once the worker is dead, which *)
(* is logged and otherwise ignored.                                          *)
Send(cmd) == cmds' = IF worker = "running" THEN Append(cmds, cmd) ELSE cmds

Track(tx, service) ==
    /\ requests < MaxRequests
    /\ requests' = requests + 1
    /\ track_list' = [track_list EXCEPT ![tx] = service]
    /\ Send(Cmd("track", tx))
    /\ UNCHANGED <<tracks, updates, bridge, worker, known, reports, withdrawn,
                   failures>>

Untrack(tx) ==
    /\ Untracks
    /\ requests < MaxRequests
    /\ requests' = requests + 1
    /\ track_list' = [track_list EXCEPT ![tx] = NoService]
    /\ Send(Cmd("untrack", tx))
    /\ withdrawn' = withdrawn \cup {tx}
    /\ UNCHANGED <<tracks, updates, bridge, worker, known, reports, failures>>

(* Mutant: the worker is told to untrack whatever is found.                  *)
HandleBridgeAlwaysUntracks ==
    LET tx == Head(bridge)
        service == track_list[tx]
    IN  /\ bridge # <<>>
        /\ bridge' = Tail(bridge)
        /\ Send(Cmd("untrack", tx))
        /\ track_list' = [track_list EXCEPT ![tx] = NoService]
        /\ reports' = IF service = NoService THEN reports
                      ELSE [reports EXCEPT ![service][tx] = @ + 1]
        /\ UNCHANGED <<tracks, updates, worker, known, requests, withdrawn, failures>>

(* Mutant: the entry stays in track_list.                                    *)
HandleBridgeKeepsEntry ==
    LET tx == Head(bridge)
        service == track_list[tx]
    IN  /\ bridge # <<>>
        /\ bridge' = Tail(bridge)
        /\ IF service = NoService
           THEN UNCHANGED <<cmds, reports>>
           ELSE /\ Send(Cmd("untrack", tx))
                /\ reports' = [reports EXCEPT ![service][tx] = @ + 1]
        /\ UNCHANGED <<track_list, tracks, updates, worker, known, requests,
                       withdrawn, failures>>

(* A transaction found is reported once: the entry is dropped before the     *)
(* report is sent.  The height condition compares with the position of the   *)
(* transaction in its block, which the watcher never fills in, so it holds.  *)
HandleBridge ==
    LET tx == Head(bridge)
        service == track_list[tx]
    IN  /\ bridge # <<>>
        /\ bridge' = Tail(bridge)
        /\ IF service = NoService
           THEN UNCHANGED <<track_list, cmds, reports>>
           ELSE /\ track_list' = [track_list EXCEPT ![tx] = NoService]
                /\ Send(Cmd("untrack", tx))
                /\ reports' = [reports EXCEPT ![service][tx] = @ + 1]
        /\ UNCHANGED <<tracks, updates, worker, known, requests, withdrawn, failures>>

-----------------------------------------------------------------------------
(* The pacemaker thread.  PopHeader, which it sends as well, yields updates  *)
(* that nobody uses and is left out.                                         *)
Pacemaker ==
    /\ worker = "running"
    /\ Len(cmds) + Len(updates) + Len(bridge) < MaxQueue
    /\ cmds' = Append(cmds, GetTransactions)
    /\ UNCHANGED <<track_list, tracks, updates, bridge, worker, known, reports,
                   requests, withdrawn, failures>>

(* The worker thread.  A request to the server names transactions; when one  *)
(* of them is unknown, or the connection fails, the whole answer is an error *)
(* and the update sent on is one the watcher drops.                          *)
Fetch(txs) ==
    \/ /\ ToSet(txs) \subseteq known
       /\ updates' = Append(updates, txs)
       /\ UNCHANGED failures
    \/ /\ ~(ToSet(txs) \subseteq known)
       /\ UNCHANGED <<updates, failures>>
    \/ /\ failures < MaxFailures
       /\ failures' = failures + 1
       /\ UNCHANGED updates

ProcessGet ==
    /\ IF tracks = <<>> THEN UNCHANGED <<updates, failures>> ELSE Fetch(tracks)
    /\ UNCHANGED <<tracks, worker>>

(* Mutant: the transaction is asked for once and not put on the list.        *)
ProcessTrackOnce(tx) ==
    /\ Fetch(<<tx>>)
    /\ UNCHANGED <<tracks, worker>>

ProcessTrack(tx) ==
    /\ tracks' = Append(tracks, tx)
    /\ Fetch(<<tx>>)
    /\ UNCHANGED worker

(* position(..).unwrap() panics on a transaction that is not in the list.    *)
ProcessUntrack(tx) ==
    \/ /\ Contains(tracks, tx)
       /\ tracks' = RemoveFirst(tracks, tx)
       /\ Fetch(<<tx>>)
       /\ UNCHANGED worker
    \/ /\ ~Contains(tracks, tx)
       /\ worker' = "panicked"
       /\ UNCHANGED <<tracks, updates, failures>>

Process ==
    /\ worker = "running"
    /\ cmds # <<>>
    /\ cmds' = Tail(cmds)
    /\ \/ Head(cmds) = GetTransactions /\ ProcessGet
       \/ Head(cmds)[1] = "track" /\ ProcessTrack(Head(cmds)[2])
       \/ Head(cmds)[1] = "untrack" /\ ProcessUntrack(Head(cmds)[2])
    /\ UNCHANGED <<track_list, bridge, known, reports, requests, withdrawn>>

(* Mutant: the batch goes over the bridge as one message.                    *)
WatcherForwardsBatch ==
    /\ updates # <<>>
    /\ updates' = Tail(updates)
    /\ bridge' = Append(bridge, Head(updates))
    /\ UNCHANGED <<track_list, cmds, tracks, worker, known, reports, requests,
                   withdrawn, failures>>

(* The watcher thread: each transaction of a batch goes over the bridge.     *)
Watcher ==
    /\ updates # <<>>
    /\ updates' = Tail(updates)
    /\ bridge' = bridge \o Head(updates)
    /\ UNCHANGED <<track_list, cmds, tracks, worker, known, reports, requests,
                   withdrawn, failures>>

(* The bitcoin network: a transaction enters the mempool of the server.      *)
Appear(tx) ==
    /\ tx \in Published \ known
    /\ known' = known \cup {tx}
    /\ UNCHANGED <<track_list, cmds, tracks, updates, bridge, worker, reports,
                   requests, withdrawn, failures>>

Next ==
    \/ \E tx \in Tx, service \in Service : Track(tx, service)
    \/ \E tx \in Tx : Untrack(tx)
    \/ HandleBridge
    \/ Pacemaker
    \/ Process
    \/ Watcher
    \/ \E tx \in Tx : Appear(tx)

Spec == Init /\ [][Next]_vars

(* Each thread loops for ever, the pacemaker every five seconds; published   *)
(* transactions do reach the server.                                         *)
Fairness ==
    /\ WF_vars(HandleBridge)
    /\ WF_vars(Pacemaker)
    /\ WF_vars(Process)
    /\ WF_vars(Watcher)
    /\ \A tx \in Published : WF_vars(Appear(tx))

FairSpec == Spec /\ Fairness

-----------------------------------------------------------------------------
(* The worker meets its unwrap at most with a transaction that Untrack was   *)
(* sent for, which no daemon does: although track_list and tracks are        *)
(* changed by different threads, the untrack command for a transaction found *)
(* always has its entry.                                                     *)
WorkerRuns ==
    [][worker = "running" /\ worker' = "panicked" =>
          Head(cmds)[2] \in withdrawn]_vars

(* Once the worker, still running, has caught up with its commands it polls  *)
(* every transaction that the runtime tracks.                                *)
TrackedIsPolled ==
    worker = "running" /\ cmds = <<>> =>
        \A tx \in Tx : track_list[tx] # NoService => Contains(tracks, tx)

(* A tracked transaction that gets published is found, or withdrawn, as long *)
(* as the worker runs.                                                       *)
PublishedIsFound ==
    \A tx \in Published :
        track_list[tx] # NoService ~>
            (track_list[tx] = NoService \/ worker = "panicked")

(* watchd implements the abstract tracker, with the stale batches that may   *)
(* be under way when a request is made, replaced or withdrawn.               *)
Tracker ==
    INSTANCE TxTracker
        WITH tracker <- track_list, seen <- known, answers <- reports

ImplementsTracker == Tracker!TrackerSpec

=============================================================================
