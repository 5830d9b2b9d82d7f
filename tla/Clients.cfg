SPECIFICATION ClientSpec
CONSTANTS
    Texts = {t1, t2}
    Starter = t1
    Services = {demo, live}
    Items = {i1, i2}
    Capacity = 1
    MaxEdits = 2
    MaxRuns = 2
    None = none
    Plans = {p1, p2}
    Tokens = {p1}
    MaxLists = 2
    Empty = empty
INVARIANTS AnswersAreCurrent LibrarySurvives
PROPERTIES PanelTellsTheServer NobodyStaysBusy
CHECK_DEADLOCK FALSE
