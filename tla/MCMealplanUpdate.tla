-------------------------- MODULE MCMealplanUpdate -------------------------
(* Websites for two runs of TLC.  Of the names na, nb, nc, those next to   *)
(* each other are similar.                                                 *)
EXTENDS MealplanUpdate, TLC

CONSTANTS canteen, other, line, na, nb, nc, gluten, kcal

MCSimilarity ==
    [p \in Name \X Name |->
        IF p[1] = p[2] THEN 3 ELSE IF {p[1], p[2]} \in {{na, nb}, {nb, nc}} THEN 2 ELSE 0]

Main(n, as) == [name |-> n, allergens |-> as, facts |-> None, price |-> 4]
Side(n, as) == [name |-> n, allergens |-> as, facts |-> None, price |-> 1]
With(dish, x) == [dish EXCEPT !.facts = x]

\* A canteen with one line.
Canteen(name, dishes) == [name |-> name, lines |-> <<[name |-> line, dishes |-> dishes]>>]

\* Overlapping runs: on the second page the dish has another spelling and no
\* facts, and there is a side.
OverlapPages ==
    {<<Canteen(canteen, <<With(Main(na, {gluten}), kcal)>>)>>,
     <<Canteen(canteen, <<Main(nb, {gluten}), Side(na, {})>>)>>}

\* One run after the other: two canteens name their line alike, names drift
\* along the chain, and one page does not have the day.
SequencePages ==
    {<<Canteen(canteen, <<Main(na, {gluten})>>), Canteen(other, <<Main(nc, {gluten})>>)>>,
     <<Canteen(canteen, <<Main(nb, {gluten}), Side(nc, {})>>)>>,
     <<>>}

Symmetry == Permutations(Run) \cup Permutations(CanteenId) \cup Permutations(LineId)
              \cup Permutations(FoodId)
=============================================================================
