SPECIFICATION CorrectionSpec
CONSTANTS
    kebbi = kebbi
    month = month
    quarter = quarter
    schools = schools
    none = none
    State = {kebbi}
    Period = {month, quarter}
    Indicator = {schools}
    Rule = {"CON-001", "CON-002"}
    Finding <- TwoRules
    Reports <- BlankOrOne
    Figure = {1, 2}
    Encloses <- WithinQuarter
    None = none
    MaxSubmissions = 2
    MaxRaised = 1
    MaxRestatements = 2
    MaxGrants = 0
    MaxGrantDays = 0
    Horizon = 0
INVARIANTS
    TypeOK
    RevisionsExplainFigure
PROPERTIES
    FlagLiftedOnlyWhenSettled
    FiguresMoveByAcceptance
    AnswersAreForOneReturn
