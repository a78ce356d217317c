SPECIFICATION Spec
CONSTANTS
    Call = {c1, c2, c3}
    Payment = {p1}
    Operation <- EveryRpc
    MaxFaults = 1
INVARIANTS
    PaidBeforeRefunded
PROPERTIES
    NeverAuthorizedAgain
