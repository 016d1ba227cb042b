-------------------------- MODULE MCMealplanReads --------------------------
(* Pages for readers: nc is a side beside na, a meal on the line bistro of *)
(* the same page, and sold alone on another page.  na and nb are similar.  *)
EXTENDS MealplanReads, TLC

CONSTANTS canteen, line, bistro, na, nb, nc, gluten, kcal

MCSimilarity ==
    [p \in Name \X Name |->
        IF p[1] = p[2] THEN 3 ELSE IF {p[1], p[2]} = {na, nb} THEN 2 ELSE 0]

Main(n, as) == [name |-> n, allergens |-> as, facts |-> None, price |-> 4]
Side(n, as) == [name |-> n, allergens |-> as, facts |-> None, price |-> 1]
With(dish, x) == [dish EXCEPT !.facts = x]

Line(name, dishes) == [name |-> name, dishes |-> dishes]
Canteen(lines_) == <<[name |-> canteen, lines |-> lines_]>>

\* What is a side on one line is a meal on the other.
Both ==
    Canteen(<<Line(line, <<With(Main(na, {gluten}), kcal), Side(nc, {})>>),
              Line(bistro, <<Main(nc, {})>>)>>)

MCPages ==
    {Both,
     Canteen(<<Line(line, <<Main(nb, {gluten})>>)>>),
     Canteen(<<Line(line, <<Side(nc, {})>>)>>)}

MCSelections == {{}, {"allergens"}, {"facts"}}

\* A bound: runs that overlap find the first page only, next to queries for the dishes
\* and nothing more.
OverlapOnOnePage ==
    \/ solo
    \/ /\ query.wants = {}
       /\ \A r \in Run : run[r] # Idle => run[r].web = [d \in Day |-> Both]
       /\ \A f \in FoodId : foods[f] # nb

Symmetry == Permutations(Run) \cup Permutations(CanteenId) \cup Permutations(LineId)
              \cup Permutations(FoodId)
=============================================================================
