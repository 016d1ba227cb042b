SPECIFICATION ReadSpec
CONSTANTS
    Run = {r1, r2}
    Day = {d1}
    Pages <- MCPages
    CanteenId = {c1}
    LineId = {l1, l2}
    FoodId = {f1, f2}
    Name = {na, nb, nc}
    Allergen = {gluten}
    Facts = {kcal}
    Selections <- MCSelections
    Similarity <- MCSimilarity
    Threshold = 2
    ByWeight = {}
    None = None
    canteen = canteen
    line = line
    bistro = bistro
    na = na
    nb = nb
    nc = nc
    gluten = gluten
    kcal = kcal
SYMMETRY Symmetry
CONSTRAINT OverlapOnOnePage
INVARIANTS
    ShownAllergensSuffice
    ShownFactsSuffice
    NoDishTwice
    MealsOfOnePage
    QuietReadersSeeTheMenu
    OnlySidesLookClosed
