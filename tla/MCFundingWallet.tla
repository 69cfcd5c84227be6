-------------------------- MODULE MCFundingWallet ---------------------------
(* The wallet with two descriptors.  The weights are those of a funding      *)
(* transaction: for P2WPKH 84 bytes besides the inputs, and per input 41     *)
(* bytes and a witness of 112 weight units; for a multisig of three keys of  *)
(* five in P2WSH 96 bytes, and per input 41 bytes and 400 weight units.      *)
EXTENDS FundingWallet, TLC

KeyBaseWeight == 336
KeyInputWeight == 276
MultisigBaseWeight == 384
MultisigInputWeight == 564

(* Three coins, two of the same value; channels that need one to three of   *)
(* them or of the change of others.  Three inputs of a multisig are heavier *)
(* than the estimate of the fee allows for.                                 *)
FewCoins == {"a", "b", "c"}
FewValues == [coin \in FewCoins |-> IF coin = "a" THEN 9000 ELSE 6000]
FewAmounts == [c \in {"x", "y", "z"} |-> IF c = "z" THEN 11100 ELSE 3000]
ThreeChannels == {"x", "y", "z"}

(* Seven coins of a single key that are all needed for one channel.         *)
ManyCoins == 1..7
ManyValues == [coin \in ManyCoins |-> 1000]
OneChannel == {"x"}
OneAmount == [c \in {"x"} |-> 5000]

=============================================================================
