SPECIFICATION OpenSpec
CONSTANTS
    kebbi = kebbi
    month = month
    quarter = quarter
    schools = schools
    none = none
    State = {kebbi}
    Period = {month}
    Indicator = {schools}
    Rule = {"CON-001", "CON-002"}
    Finding <- OneRule
    Reports <- OneReport
    Figure = {1}
    Encloses <- Standalone
    None = none
    MaxSubmissions = 2
    MaxRaised = 1
    MaxRestatements = 1
    MaxGrants = 0
    MaxGrantDays = 0
    Horizon = 0
PROPERTIES
    RefiledReturnTakesQueries
