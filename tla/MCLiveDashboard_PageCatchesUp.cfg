SPECIFICATION BoardSpec
CONSTANTS
    Worker = {w1, w2}
    Handler = {h1, h2}
    None = none
    MAX_QUEUE = 1
    MaxChanges = 2
    MaxFailures = 0
PROPERTIES
    PageCatchesUp
CHECK_DEADLOCK FALSE
