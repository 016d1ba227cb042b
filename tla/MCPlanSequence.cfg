SPECIFICATION Spec
CONSTANTS
    Run = {r1}
    Day = {d1, d2}
    Pages <- SequencePages
    CanteenId = {c1, c2}
    LineId = {l1, l2}
    FoodId = {f1, f2, f3}
    Name = {na, nb, nc}
    Allergen = {gluten}
    Facts = {}
    Similarity <- MCSimilarity
    Threshold = 2
    ByWeight = {nb}
    None = None
    canteen = canteen
    other = other
    line = line
    na = na
    nb = nb
    nc = nc
    gluten = gluten
    kcal = kcal
SYMMETRY Symmetry
INVARIANTS
    PlanMatchesMenu
    DishesKeepTheirFood
