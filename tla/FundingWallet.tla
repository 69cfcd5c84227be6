--------------------------- MODULE FundingWallet ----------------------------
(***************************************************************************)
(* The funding wallet of lnpd: it selects coins for the funding            *)
(* transactions of new channels, remembers which coins are taken, and      *)
(* keeps its data in a file that is written by list_funds only.  lnpd may  *)
(* stop at any moment and start again from the file.                       *)
(*                                                                         *)
(* A funding transaction pays the channel's two-of-two output, which       *)
(* differs from channel to channel, so its txid is modelled by the channel.*)
(***************************************************************************)
EXTENDS Integers, FiniteSets, FiniteSetsExt

CONSTANTS
    Chan,          \* channels to fund
    Coin,          \* outputs that deposits to the wallet create
    Value,         \* value of each deposit, in satoshi
    Amount,        \* amount each channel is funded with, in satoshi
    Rates,         \* fee rates per kilo-weight unit: asked for or estimated
    BaseWeight,    \* weight of a funding transaction without its inputs
    InputWeight,   \* weight of an input with its witness
    MaxRestarts    \* bound on the restarts of lnpd

ASSUME WalletAssumption ==
    /\ IsFiniteSet(Chan) /\ IsFiniteSet(Coin)
    /\ Value \in [Coin -> Nat]
    /\ Amount \in [Chan -> Nat]
    /\ Rates \subseteq Nat
    /\ BaseWeight \in Nat /\ InputWeight \in Nat /\ MaxRestarts \in Nat

(* An outpoint: a deposit, or the change of the funding of a channel.        *)
Change(c) == <<"change", c>>
Deposits == {"deposit"} \X Coin
Outpoints == Deposits \cup ({"change"} \X Chan)

VARIABLES
    utxos,              \* the wallet's unspent outputs on the chain
    psbt,               \* funding PSBT handed out for each channel
    pending_fundings,   \* the coins taken by each funding transaction
    last_change_index,  \* next index on the change branch
    disk,               \* the wallet file
    launchers,          \* channels with a launcher in lnpd's memory
    funding,            \* how far the funding of each channel is
    halted,             \* lnpd panicked in the wallet
    restarts            \* number of restarts so far

vars == <<utxos, psbt, pending_fundings, last_change_index, disk, launchers,
          funding, halted, restarts>>

FundingStates == {"none", "pending", "published", "failed"}
Psbts == [inputs : SUBSET Outpoints, index : Nat, change : Nat]
WalletData == [pending : [Chan -> SUBSET Outpoints], index : Nat]

Init ==
    /\ utxos = {}
    /\ psbt = [c \in Chan |-> [inputs |-> {}, index |-> 0, change |-> 0]]
    /\ pending_fundings = [c \in Chan |-> {}]
    /\ last_change_index = 0
    /\ disk = [pending |-> [c \in Chan |-> {}], index |-> 0]
    /\ launchers = {}
    /\ funding = [c \in Chan |-> "none"]
    /\ halted = FALSE
    /\ restarts = 0

(* Types of the wallet data in memory, on disk and on the chain.             *)
TypeOK ==
    /\ utxos \subseteq Outpoints
    /\ psbt \in [Chan -> Psbts]
    /\ pending_fundings \in [Chan -> SUBSET Outpoints]
    /\ last_change_index \in Nat
    /\ disk \in WalletData
    /\ launchers \subseteq Chan
    /\ funding \in [Chan -> FundingStates]
    /\ halted \in BOOLEAN
    /\ restarts \in 0..MaxRestarts

-----------------------------------------------------------------------------
(* Scanning: the unspent outputs no pending funding uses, and the change     *)
(* index moved past those of them that are on the change branch.             *)

(* Mutant: coins of pending fundings are offered again.                      *)
AvailableAll == utxos

Available == utxos \ UNION {pending_fundings[c] : c \in Chan}

(* Mutant: the index falls back by one.                                      *)
ScannedIndexBack ==
    Max({last_change_index - 1}
        \cup {psbt[c].index : c \in {d \in Chan : Change(d) \in Available}})

ScannedIndex ==
    Max({last_change_index}
        \cup {psbt[c].index + 1 : c \in {d \in Chan : Change(d) \in Available}})

(* What save writes.  The file is overwritten in place, which is taken to be *)
(* done or not done when lnpd stops.                                         *)
Saved == [pending |-> pending_fundings, index |-> ScannedIndex]

(* list_funds called for RpcMsg::ListFunds.                                  *)
ListFunds ==
    /\ ~halted
    /\ last_change_index' = ScannedIndex
    /\ disk' = Saved
    /\ UNCHANGED <<utxos, psbt, pending_fundings, launchers, funding, halted,
                   restarts>>

-----------------------------------------------------------------------------
(* construct_funding_psbt                                                    *)

ValueOf(o) == IF o \in Deposits THEN Value[o[2]] ELSE psbt[o[2]].change
Total(outpoints) == MapThenSumSet(ValueOf, outpoints)

(* Mutant: the coin that would meet the target is left out.                  *)
SelectionsShort(target) ==
    { s \in SUBSET Available :
        /\ Total(s) < target
        /\ \A o \in Available \ s : Total(s \cup {o}) >= target
        /\ \A o \in s, p \in Available \ s : ValueOf(o) >= ValueOf(p) }

(* Coin selection takes the largest coins first and stops as soon as the     *)
(* target is met; coins of the same value may come in any order.             *)
Selections(target) ==
    { s \in SUBSET Available :
        /\ Total(s) >= target
        /\ \A o \in s : Total(s \ {o}) < target
        /\ \A o \in s, p \in Available \ s : ValueOf(o) >= ValueOf(p) }

(* The fee is first estimated as that of two kilo-weight units, then made    *)
(* precise from the weight of the transaction.                               *)
EstimatedWeight == 2000
FeeEstimate(rate) == 2 * rate
Weight(inputs) == BaseWeight + InputWeight * Cardinality(inputs)
PreciseFee(inputs, rate) == (Weight(inputs) * rate) \div 1000

(* Mutant: the change index is not moved on.                                 *)
FundingPsbtSameIndex(c, inputs, fee) ==
    /\ psbt' = [psbt EXCEPT ![c] = [inputs |-> inputs, index |-> ScannedIndex,
                                    change |-> Total(inputs) - Amount[c] - fee]]
    /\ pending_fundings' = [pending_fundings EXCEPT ![c] = inputs]
    /\ last_change_index' = ScannedIndex
    /\ launchers' = launchers \cup {c}
    /\ funding' = [funding EXCEPT ![c] = "pending"]
    /\ disk' = Saved
    /\ UNCHANGED halted

(* The data is saved by list_funds, that is before the new PSBT and the next *)
(* change index get into it.                                                 *)
FundingPsbt(c, inputs, fee) ==
    /\ psbt' = [psbt EXCEPT ![c] = [inputs |-> inputs, index |-> ScannedIndex,
                                    change |-> Total(inputs) - Amount[c] - fee]]
    /\ pending_fundings' = [pending_fundings EXCEPT ![c] = inputs]
    /\ last_change_index' = ScannedIndex + 1
    /\ launchers' = launchers \cup {c}
    /\ funding' = [funding EXCEPT ![c] = "pending"]
    /\ disk' = Saved
    /\ UNCHANGED halted

(* Not enough coins, or no answer from the Electrum server to the scan,      *)
(* which then saves nothing: the channel is given up.                        *)
FundingFails(c) ==
    /\ \/ /\ \E rate \in Rates : Total(Available) < Amount[c] + FeeEstimate(rate)
          /\ last_change_index' = ScannedIndex
          /\ disk' = Saved
       \/ UNCHANGED <<last_change_index, disk>>
    /\ funding' = [funding EXCEPT ![c] = "failed"]
    /\ UNCHANGED <<psbt, pending_fundings, launchers, halted>>

(* Psbt::construct refuses inputs that do not cover outputs and fee, and     *)
(* the wallet expects it never does.                                         *)
FundingPanics ==
    /\ halted' = TRUE
    /\ last_change_index' = ScannedIndex + 1
    /\ disk' = Saved
    /\ UNCHANGED <<psbt, pending_fundings, launchers, funding>>

ConstructFunding(c) ==
    /\ ~halted
    /\ funding[c] = "none"
    /\ \/ FundingFails(c)
       \/ \E rate \in Rates :
             \E inputs \in Selections(Amount[c] + FeeEstimate(rate)) :
                 LET fee == PreciseFee(inputs, rate)
                 IN  IF Total(inputs) >= Amount[c] + fee
                     THEN FundingPsbt(c, inputs, fee)
                     ELSE FundingPanics
    /\ UNCHANGED <<utxos, restarts>>

-----------------------------------------------------------------------------
(* publish: the network accepts a transaction whose inputs are unspent.  The *)
(* launcher is done either way.                                              *)
Publish(c) ==
    /\ ~halted
    /\ c \in launchers
    /\ launchers' = launchers \ {c}
    /\ IF psbt[c].inputs \subseteq utxos
       THEN /\ utxos' = (utxos \ psbt[c].inputs) \cup {Change(c)}
            /\ funding' = [funding EXCEPT ![c] = "published"]
       ELSE /\ funding' = [funding EXCEPT ![c] = "failed"]
            /\ UNCHANGED utxos
    /\ UNCHANGED <<psbt, pending_fundings, last_change_index, disk, halted,
                   restarts>>

(* The channel fails after its funding was constructed: the launcher goes,   *)
(* the wallet is not told.                                                   *)
GiveUp(c) ==
    /\ ~halted
    /\ c \in launchers
    /\ launchers' = launchers \ {c}
    /\ funding' = [funding EXCEPT ![c] = "failed"]
    /\ UNCHANGED <<utxos, psbt, pending_fundings, last_change_index, disk,
                   halted, restarts>>

(* lnpd stops, by itself or by its panic, and opens the wallet file again;   *)
(* its launchers are lost, the channel daemons keep what they were given.    *)
Restart ==
    /\ restarts < MaxRestarts
    /\ restarts' = restarts + 1
    /\ pending_fundings' = disk.pending
    /\ last_change_index' = disk.index
    /\ launchers' = {}
    /\ halted' = FALSE
    /\ UNCHANGED <<utxos, psbt, disk, funding>>

(* Somebody pays to an address of the wallet.                                *)
Receive(o) ==
    /\ o \in Deposits \ utxos
    /\ \A c \in Chan : o \notin psbt[c].inputs
    /\ utxos' = utxos \cup {o}
    /\ UNCHANGED <<psbt, pending_fundings, last_change_index, disk, launchers,
                   funding, halted, restarts>>

Next ==
    \/ ListFunds
    \/ \E c \in Chan : ConstructFunding(c)
    \/ \E c \in Chan : Publish(c)
    \/ \E c \in Chan : GiveUp(c)
    \/ Restart
    \/ \E o \in Deposits : Receive(o)

Spec == Init /\ [][Next]_vars

-----------------------------------------------------------------------------
(* The coins of a funding whose launcher is alive are unspent and used by no *)
(* other live launcher: whatever happened before, also to a wallet file that *)
(* was behind, lnpd does not publish two transactions that spend one coin.   *)
LiveFundingIsSpendable ==
    \A c \in launchers :
        /\ psbt[c].inputs \subseteq utxos
        /\ \A d \in launchers \ {c} : psbt[c].inputs \cap psbt[d].inputs = {}

(* Two channels whose funding is alive have their change at different        *)
(* addresses, which unspent change does not use either.                      *)
ChangeIsFresh ==
    \A c \in launchers : \A d \in Chan \ {c} :
        d \in launchers \/ Change(d) \in utxos => psbt[c].index # psbt[d].index

(* The expect on Psbt::construct, "funding PSBT construction is broken", is  *)
(* met only for a channel whose coins, selected for the fee of two           *)
(* kilo-weight units, fall short of the precise fee as they make a heavier   *)
(* transaction: neither scarce coins, nor the rate, nor what failures and    *)
(* restarts left behind brings it about.                                     *)
OnlyHeavyFundingPanics ==
    [][~halted /\ halted' =>
          \E c \in Chan, rate \in Rates :
              /\ funding[c] = "none"
              /\ \E inputs \in Selections(Amount[c] + FeeEstimate(rate)) :
                     /\ ~(Total(inputs) >= Amount[c] + PreciseFee(inputs, rate))
                     /\ Weight(inputs) > EstimatedWeight]_vars

(* The assumption of construct_funding_psbt "that we will have four-five     *)
(* inputs and two outputs, i.e. it is a 2-kw transaction", and its expect,   *)
(* "funding PSBT construction is broken": coins selected for the fee of such *)
(* a transaction cover the fee of the one constructed.                       *)
ConstructionWorks == ~halted

=============================================================================
