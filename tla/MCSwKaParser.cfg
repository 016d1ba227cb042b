\* Two canteens, two weeks, answers in every order.
SPECIFICATION FairSpec
CONSTANTS
    Canteens <- MCCanteens
    WeeksToPoll = 2
    DaysPerWeek = 2
    Start = {1}
    Site <- MCSite
    Text = {moltke, erzberger, grill, soup, stew, gluten, colorant, beef, other, Closed}
    Allergen = {gluten}
    Additive = {colorant}
    FoodType = {beef}
    Unknown = Unknown
    Closed = Closed
    Unreadable = Unreadable
    None = None
    moltke = moltke
    erzberger = erzberger
    soup = soup
    stew = stew
    gluten = gluten
    colorant = colorant
    beef = beef
    other = other
    grill = grill
INVARIANTS
    ServedAsListed
    CanteensInOrder
PROPERTIES
    NothingFromHalfAWebsite
    JobsEnd
