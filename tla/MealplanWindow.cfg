\* Weeks of two days, two weeks of plans, five days.
SPECIFICATION Spec
CONSTANTS
    DaysPerWeek = 2
    Weeks = 2
    LastDay = 2
    Open = {0, 1, 3, 4, 5}
    Unset = Unset
    None = None
INVARIANTS
    WindowCoversPlan
    ClosedDaysWereFetched
    ShownDaysStayKnown
