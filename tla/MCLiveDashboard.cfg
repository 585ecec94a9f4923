SPECIFICATION FairSpec
CONSTANTS
    Worker = {w1}
    Handler = {h1, h2}
    None = none
    MAX_QUEUE = 1
    MaxChanges = 3
    MaxFailures = 1
INVARIANTS
    TypeOK
    PushedIsSettled
PROPERTIES
    StaleIsBeingLoaded
    StaleUntilDrawn
    LoadingEnds
    PollNotices
CHECK_DEADLOCK FALSE
