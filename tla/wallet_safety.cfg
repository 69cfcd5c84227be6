SPECIFICATION Spec
CONSTANTS
    Chan <- ThreeChannels
    Coin <- FewCoins
    Value <- FewValues
    Amount <- FewAmounts
    Rates = {250, 1000}
    BaseWeight <- MultisigBaseWeight
    InputWeight <- MultisigInputWeight
    MaxRestarts = 2
INVARIANTS TypeOK LiveFundingIsSpendable ChangeIsFresh
 
CHECK_DEADLOCK FALSE
