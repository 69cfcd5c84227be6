SPECIFICATION Spec
CONSTANTS
    Chan <- OneChannel
    Coin <- ManyCoins
    Value <- ManyValues
    Amount <- OneAmount
    Rates = {250, 1000}
    BaseWeight <- KeyBaseWeight
    InputWeight <- KeyInputWeight
    MaxRestarts = 1
INVARIANT ConstructionWorks
CHECK_DEADLOCK FALSE
