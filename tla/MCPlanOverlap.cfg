SPECIFICATION Spec
CONSTANTS
    Run = {r1, r2}
    Day = {d1}
    Pages <- OverlapPages
    CanteenId = {c1}
    LineId = {l1, l2}
    FoodId = {f1, f2, f3}
    Name = {na, nb}
    Allergen = {gluten}
    Facts = {kcal}
    Similarity <- MCSimilarity
    Threshold = 2
    ByWeight = {nb}
    None = None
    canteen = canteen
    other = other
    line = line
    na = na
    nb = nb
    nc = nc
    gluten = gluten
    kcal = kcal
SYMMETRY Symmetry
INVARIANTS
    TypeOK
    AllergensNeverMissing
    FactsNeverMissing
    PlanMatchesMenu
