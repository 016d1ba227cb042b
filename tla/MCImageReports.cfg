\* One picture, enough users and handlers to reach the barrier in every order.
SPECIFICATION Spec
CONSTANTS
    Image = {i1}
    User = {u1, u2, u3}
    Request = {r1, r2}
    None = None
    BarrierBase = 2
    BarrierDivisor = 1
    MaxReportAge = 1
    MaxDay = 2
SYMMETRY Symmetry
INVARIANTS
    TypeOK
    HiddenOnlyAfterEnoughReports
    MissedReportsBounded
    ReportAfterVerificationIgnored
    LinkedImagesHaveFiles
    OrphanedFilesExplained
    HiddenImagesAreAnnounced
PROPERTY
    ImplementsGallery
