\* One picture, this user and another one, two calls at a time.
SPECIFICATION Spec
CONSTANTS
    Image = {i1}
    User = {u1, u2}
    Me = u1
    MinReports = 1
    Stars = {0, 4}
    Call = {c1, c2}
    MaxCalls = 3
    None = None
SYMMETRY Symmetry
CONSTRAINT MayBeTrusted
INVARIANTS
    OwnOpinionsShown
    CountsIncludeOwn
