SPECIFICATION CalendarSpec
CONSTANTS
    kebbi = kebbi
    month = month
    quarter = quarter
    schools = schools
    none = none
    State = {kebbi}
    Period = {month, quarter}
    Indicator = {schools}
    Rule = {"CON-001", "CON-002"}
    Finding <- OneRule
    Reports <- OneReport
    Figure = {1, 2}
    Encloses <- WithinQuarter
    None = none
    MaxSubmissions = 2
    MaxRaised = 1
    MaxRestatements = 1
    MaxGrants = 1
    MaxGrantDays = 1
    Horizon = 2
PROPERTIES
    PublishedSpec
    ClosedCycleTakesNoReturn
