\* The same instance: a request that comes before the first plan.
SPECIFICATION Spec
CONSTANTS
    DaysPerWeek = 2
    Weeks = 2
    LastDay = 2
    Open = {0, 1, 3, 4, 5}
    Unset = Unset
    None = None
PROPERTY
    NullOnlyWithoutPlan
