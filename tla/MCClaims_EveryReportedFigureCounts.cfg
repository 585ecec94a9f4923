SPECIFICATION ByHandSpec
CONSTANTS
    abia = abia
    kano = kano
    kebbi = kebbi
    north = north
    south = south
    q1 = q1
    may = may
    june = june
    q2 = q2
    schools = schools
    pupils = pupils
    none = none
    None = none
    StateOrder <- ByName
    CohortOrder <- Cohorts
    PeriodOrder <- Calendar
    Parts <- MonthsOf
    Previous <- Before
    IndicatorOrder <- Catalogue
    Setups <- OneGivesOnlyTheRate
    RateTolerance = 1
    Implements <- NoMatrix
    Subset <- PupilsOfSchools
    Identity = {}
    Distinct = {}
    PlainLabels = {"male", "female"}
    Closed = {}
    HistoryDepth = 6
INVARIANTS
    EveryReportedFigureCounts
CHECK_DEADLOCK FALSE
