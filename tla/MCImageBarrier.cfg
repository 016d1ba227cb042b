\* The numbers of the code and the five users its barrier asks for.
SPECIFICATION Spec
CONSTANTS
    Image = {i1}
    User = {u1, u2, u3, u4, u5}
    Request = {r1, r2}
    None = None
    BarrierBase = 5
    BarrierDivisor = 35
    MaxReportAge = 30
    MaxDay = 0
SYMMETRY Symmetry
INVARIANT
    HiddenAtReportBarrier
