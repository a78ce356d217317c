SPECIFICATION FairSagaSpec
CONSTANTS
    Request = {q1, q2}
    Outside = {o1}
    Call <- EveryCall
    Payment = {p1}
    Operation <- WritingRpc
    MaxFaults = 1
INVARIANTS
    LateIsSilent
    ChargedByPermission
PROPERTIES
    EveryRequestEnds
    KeepsLedger
