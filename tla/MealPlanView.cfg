CONSTANTS
    Date = {d1, d2}
    Canteen = {c1, c2}
    Load = {l1, l2}
SPECIFICATION Spec
INVARIANT ShowsWhatIsSelected
