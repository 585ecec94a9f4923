SPECIFICATION FairSpec
CONSTANTS
    State = {kebbi, kano}
    Period = {q1}
    MaxGrants = 3
    MaxGrantDays = 2
    Horizon = 4
INVARIANTS
    TypeOK
    OneActiveReopening
    OneReturnPerReopening
PROPERTIES
    StatusMovesForward
    ReopeningsLapse
