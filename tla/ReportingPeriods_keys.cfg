\* Two years of two days, two terms, two editors.
SPECIFICATION ReportingSpec
CONSTANTS
    DaysInYear = 2
    StatedYear = {0, 1}
    NumTerms = 2
    Editor = {e1, e2}
    MaxChanges = 3
CHECK_DEADLOCK FALSE
INVARIANT KeysResolveBack
