SPECIFICATION Spec
CONSTANTS
    kano = kano
    kebbi = kebbi
    KN = KN
    nowhere = nowhere
    schools = schools
    rate = rate
    law = law
    schoolCount = schoolCount
    none = none
    None = none
    Indicator = {schools, rate, law, schoolCount}
    Catalogue <- Framework
    HeaderScan = 15
    State = {kano, kebbi}
    NameOrder <- Names
    StateOf <- Spelled
    Period <- Managed
    Years = {1}
    Loads <- Runs
    Uploads <- Requests
    MaxLoads = 2
    MaxGrants = 2
    MaxGrantDays = 1
    Horizon = 2
INVARIANTS
    FiguresAreWhatWasAsked
    AnswersAreKept
    CalendarFits
PROPERTIES
    BatchIsWhole
    GeneratingKeepsCycles
CHECK_DEADLOCK FALSE
