SPECIFICATION RaceSpec
CONSTANTS
    month = month
    schools = schools
    none = none
    State = {kebbi}
    Period = {month}
    Indicator = {schools}
    Rule = {}
    Finding = {}
    Reports <- OneReport
    Figure = {1}
    Encloses <- Standalone
    None = none
    MaxSubmissions = 3
    MaxRaised = 0
    MaxRestatements = 0
    MaxGrants = 0
    MaxGrantDays = 0
    Horizon = 0
    Request = {r1, r2}
INVARIANTS
    OneCurrentReturn
CHECK_DEADLOCK FALSE
