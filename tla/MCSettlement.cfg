SPECIFICATION Spec
CONSTANTS
    Banks = {b1}
    Settlements = {s1, s2}
    Transfers = {t1, t2}
    NoBank = NoBank
    NoSettlement = NoSettlement
    NoTransfer = NoTransfer
    Amounts = {4, 10}
    Reserves = {10}
    Cent = 10
    Calls = {c1, c2}
INVARIANTS
    TypeOK
    SettlementsMatchTransfers
    ReserveIsAccounted
    ReserveCoversPayouts
PROPERTIES
    SettlementsKeepTheirMoney
    CallsReturn
