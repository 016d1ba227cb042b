\* One picture and no symmetry: what the handlers bring about in the end.
SPECIFICATION FairSpec
CONSTANTS
    Image = {i1}
    User = {u1, u2, u3}
    Request = {r1, r2}
    None = None
    BarrierBase = 2
    BarrierDivisor = 1
    MaxReportAge = 1
    MaxDay = 0
PROPERTIES
    ImagesSettle
    MissedHideIsRepaired
