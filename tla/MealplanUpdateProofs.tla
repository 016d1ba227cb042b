----------------------- MODULE MealplanUpdateProofs ------------------------
(* That no dish on the plan loses allergens or facts, that the tables and  *)
(* the runs keep to their types, and that every foreign key leads to a row,*)
(* for every website and however many runs of the jobs overlap, fail or are*)
(* stopped.                                                                *)
EXTENDS MealplanUpdate, TLAPS

-----------------------------------------------------------------------------
(* The inductive invariant.                                                *)

\* The places at which a run stands before a food it has found or inserted.
HasFoodPC == {"update_food", "update_facts", "insert_meal", "insert_allergens",
              "insert_facts", "add_to_plan"}

\* The places at which that food must have the allergens of the dish already.
Complete == {"update_food", "update_facts", "insert_facts", "add_to_plan"}

Fields == DOMAIN Idle

Shape(t) == t = [x \in Fields |-> t[x]]

RunsHaveShape ==
    /\ run = [r \in Run |-> run[r]]
    /\ \A r \in Run : Shape(run[r])

RunsHaveFood == \A r \in Run : run[r].pc \in HasFoodPC => run[r].food \in FoodId

RunsMindAllergens ==
    \A r \in Run : run[r].pc \in Complete => run[r].dish.allergens \subseteq allergens[run[r].food]

\* There are facts where they are to be stored, and at the end they are stored.
MindsFacts(t, table) ==
    /\ t.pc \in {"update_facts", "insert_facts"} => t.dish.facts # None
    /\ t.pc = "add_to_plan" /\ t.dish.facts # None => table[t.food] # None

RunsMindFacts == \A r \in Run : MindsFacts(run[r], facts)

PlanHasFood == \A e \in plan : e.food \in FoodId

DataInv ==
    /\ RunsHaveShape
    /\ allergens = [f \in FoodId |-> allergens[f]]
    /\ facts = [f \in FoodId |-> facts[f]]
    /\ RunsHaveFood
    /\ RunsMindAllergens
    /\ RunsMindFacts
    /\ PlanHasFood
    /\ AllergensNeverMissing
    /\ FactsNeverMissing

-----------------------------------------------------------------------------
LEMMA FieldNames ==
    Fields = {"pc", "web", "days", "day", "canteenName", "canteen", "canteensLeft",
              "lineName", "line", "linesLeft", "average", "dish", "meal", "food",
              "dishesLeft"}
BY DEF Fields, Idle

LEMMA IdleShape == Shape(Idle) /\ Idle.pc = "idle"
BY DEF Shape, Fields, Idle

LEMMA AtDishLooksUp ==
    ASSUME NEW t, Shape(t)
    PROVE  Shape(AtDish(t)) /\ AtDish(t).pc = "get_similar_meal"
BY FieldNames DEF AtDish, Shape

LEMMA AtLineLooksUp ==
    ASSUME NEW t, NEW l, Shape(t)
    PROVE  Shape(AtLine(t, l)) /\ AtLine(t, l).pc = "get_similar_line"
BY FieldNames DEF AtLine, Shape

LEMMA AtCanteenLooksUp ==
    ASSUME NEW t, NEW d, NEW page
    PROVE  Shape(AtCanteen(t, d, page)) /\ AtCanteen(t, d, page).pc = "get_similar_canteen"
BY FieldNames, IdleShape DEF AtCanteen, Shape

\* Wherever the loops go next, no food has been looked up for it yet.
LEMMA ProceedLooksUp ==
    ASSUME NEW t, Shape(t), NEW next \in Proceed(t)
    PROVE  Shape(next) /\ next.pc \notin HasFoodPC
<1>1. \/ next = AtDish(t)
      \/ next = AtLine(t, Head(t.linesLeft))
      \/ \E d, page : next = AtCanteen(t, d, page)
      \/ next = Idle
  BY DEF Proceed
<1>2. Shape(next) /\ next.pc \in {"get_similar_meal", "get_similar_line", "get_similar_canteen", "idle"}
  BY <1>1, AtDishLooksUp, AtLineLooksUp, AtCanteenLooksUp, IdleShape
<1> QED
  BY <1>2 DEF HasFoodPC

-----------------------------------------------------------------------------
(* A step of a run changes the record of that run and of no other.         *)

OnlyRun(r) == RunsHaveShape' /\ \A q \in Run \ {r} : run'[q] = run[q]

LEMMA ContinueLooksUp ==
    ASSUME RunsHaveShape, NEW r \in Run, NEW t, Shape(t), Continue(r, t)
    PROVE  OnlyRun(r) /\ run'[r].pc \notin HasFoodPC
<1>1. PICK next \in Proceed(t) : run' = [run EXCEPT ![r] = next]
  BY DEF Continue
<1>2. Shape(next) /\ next.pc \notin HasFoodPC
  BY ProceedLooksUp
<1>3. run' = [q \in Run |-> IF q = r THEN next ELSE run[q]]
  BY <1>1 DEF RunsHaveShape
<1>4. \A q \in Run : Shape(run'[q])
  BY <1>2, <1>3 DEF RunsHaveShape
<1> QED
  BY <1>2, <1>3, <1>4 DEF OnlyRun, RunsHaveShape, Shape

\* A run that goes on with its own record, whatever it has changed in it.
LEMMA OwnRecord ==
    ASSUME RunsHaveShape, NEW r \in Run, NEW new, Shape(new), run' = [run EXCEPT ![r] = new]
    PROVE  OnlyRun(r) /\ run'[r] = new
<1>1. run' = [q \in Run |-> IF q = r THEN new ELSE run[q]]
  BY DEF RunsHaveShape
<1>2. \A q \in Run : Shape(run'[q])
  BY <1>1 DEF RunsHaveShape
<1> QED
  BY <1>1, <1>2 DEF OnlyRun, RunsHaveShape, Shape

LEMMA GotoKeepsFood ==
    ASSUME RunsHaveShape, NEW r \in Run, NEW pc, Goto(r, pc)
    PROVE  /\ OnlyRun(r)
           /\ run'[r].pc = pc
           /\ run'[r].food = run[r].food
           /\ run'[r].dish = run[r].dish
<1> DEFINE new == [run[r] EXCEPT !.pc = pc]
<1>1. Shape(run[r])
  BY DEF RunsHaveShape
<1>2. /\ Shape(new) /\ new.pc = pc
      /\ new.food = run[r].food /\ new.dish = run[r].dish
  BY <1>1, FieldNames DEF Shape
<1>3. run' = [run EXCEPT ![r] = new]
  BY DEF Goto
<1> QED
  BY <1>2, <1>3, OwnRecord

TakesFood(r, pc, f) == run' = [run EXCEPT ![r].pc = pc, ![r].food = f]

LEMMA FoundFood ==
    ASSUME RunsHaveShape, NEW r \in Run, NEW pc, NEW f, TakesFood(r, pc, f)
    PROVE  /\ OnlyRun(r)
           /\ run'[r].pc = pc
           /\ run'[r].food = f
           /\ run'[r].dish = run[r].dish
<1> DEFINE new == [run[r] EXCEPT !.pc = pc, !.food = f]
<1>1. Shape(run[r])
  BY DEF RunsHaveShape
<1>2. /\ Shape(new) /\ new.pc = pc
      /\ new.food = f /\ new.dish = run[r].dish
  BY <1>1, FieldNames DEF Shape
<1>3. run' = [run EXCEPT ![r] = new]
  BY DEF TakesFood
<1> QED
  BY <1>2, <1>3, OwnRecord

-----------------------------------------------------------------------------
(* What a step of one run has to respect for the invariant to survive it:  *)
(* allergens and facts are never deleted, and the run and the plan mind    *)
(* them.                                                                   *)
LEMMA InvKept ==
    ASSUME DataInv, NEW r \in Run, OnlyRun(r),
           allergens' = [f \in FoodId |-> allergens'[f]],
           facts' = [f \in FoodId |-> facts'[f]],
           \A f \in FoodId : /\ allergens[f] \subseteq allergens'[f]
                             /\ facts[f] # None => facts'[f] # None,
           run'[r].pc \in HasFoodPC => run'[r].food \in FoodId,
           run'[r].pc \in Complete =>
               run'[r].dish.allergens \subseteq allergens'[run'[r].food],
           MindsFacts(run'[r], facts'),
           \A e \in plan' : \/ e \in plan
                            \/ /\ e.food \in FoodId
                               /\ e.dish.allergens \subseteq allergens'[e.food]
                               /\ e.dish.facts # None => facts'[e.food] # None
    PROVE  DataInv'
<1>1. RunsHaveFood'
  BY DEF RunsHaveFood, DataInv, OnlyRun
<1>2. RunsMindAllergens'
  <2> SUFFICES ASSUME NEW q \in Run, run'[q].pc \in Complete
               PROVE  run'[q].dish.allergens \subseteq allergens'[run'[q].food]
    BY DEF RunsMindAllergens
  <2>1. CASE q = r
    BY <2>1
  <2>2. CASE q # r
    <3>1. run'[q] = run[q]
      BY <2>2 DEF OnlyRun
    <3>2. run[q].food \in FoodId
      BY <3>1 DEF DataInv, RunsHaveFood, HasFoodPC, Complete
    <3> QED
      BY <3>1, <3>2 DEF DataInv, RunsMindAllergens
  <2> QED
    BY <2>1, <2>2
<1>3. RunsMindFacts'
  <2> SUFFICES ASSUME NEW q \in Run, q # r PROVE MindsFacts(run'[q], facts')
    BY DEF RunsMindFacts
  <2>1. run'[q] = run[q]
    BY DEF OnlyRun
  <2>2. run[q].pc = "add_to_plan" => run[q].food \in FoodId
    BY DEF DataInv, RunsHaveFood, HasFoodPC
  <2> QED
    BY <2>1, <2>2 DEF DataInv, RunsMindFacts, MindsFacts
<1>4. PlanHasFood' /\ AllergensNeverMissing' /\ FactsNeverMissing'
  BY DEF DataInv, PlanHasFood, AllergensNeverMissing, FactsNeverMissing
<1> QED
  BY <1>1, <1>2, <1>3, <1>4 DEF DataInv, OnlyRun

\* Most statements leave allergens, facts and plan alone.
LEMMA InvKeptByRun ==
    ASSUME DataInv, NEW r \in Run, OnlyRun(r),
           UNCHANGED <<allergens, facts>>, plan' \subseteq plan,
           run'[r].pc \in HasFoodPC => run'[r].food \in FoodId,
           run'[r].pc \in Complete =>
               run'[r].dish.allergens \subseteq allergens[run'[r].food],
           MindsFacts(run'[r], facts)
    PROVE  DataInv'
BY InvKept DEF DataInv

-----------------------------------------------------------------------------
(* The steps of one run.                                                   *)

LEMMA OwnShape == ASSUME RunsHaveShape, NEW r \in Run PROVE Shape(run[r])
BY DEF RunsHaveShape

LEMMA LineShape ==
    ASSUME RunsHaveShape, NEW r \in Run, NEW l
    PROVE  Shape([run[r] EXCEPT !.line = l])
BY OwnShape, FieldNames DEF Shape

LEMMA LeftShape ==
    ASSUME RunsHaveShape, NEW r \in Run
    PROVE  /\ Shape([run[r] EXCEPT !.dishesLeft = <<>>])
           /\ Shape([run[r] EXCEPT !.linesLeft = <<>>, !.dishesLeft = <<>>])
BY OwnShape, FieldNames DEF Shape

\* A statement after which the loops go on, or one about a canteen or a line.
LEMMA ContinueKeepsInv ==
    ASSUME DataInv, NEW r \in Run, NEW t, Shape(t), Continue(r, t),
           UNCHANGED <<allergens, facts>>, plan' \subseteq plan
    PROVE  DataInv'
<1>1. OnlyRun(r) /\ run'[r].pc \notin HasFoodPC
  BY ContinueLooksUp DEF DataInv
<1>2. run'[r].pc \notin Complete /\ MindsFacts(run'[r], facts)
  BY <1>1 DEF HasFoodPC, Complete, MindsFacts
<1> QED
  BY <1>1, <1>2, InvKeptByRun

LEMMA LookupKeepsInv ==
    ASSUME DataInv, NEW r \in Run, NEW pc, pc \notin HasFoodPC,
           OnlyRun(r), run'[r].pc = pc, UNCHANGED <<allergens, facts, plan>>
    PROVE  DataInv'
<1>1. run'[r].pc \notin Complete /\ MindsFacts(run'[r], facts)
  BY DEF HasFoodPC, Complete, MindsFacts
<1> QED
  BY <1>1, InvKeptByRun

LEMMA CanteenFound ==
    ASSUME RunsHaveShape, NEW r \in Run, NEW pc, NEW c,
           run' = [run EXCEPT ![r].pc = pc, ![r].canteen = c]
    PROVE  OnlyRun(r) /\ run'[r].pc = pc
<1> DEFINE new == [run[r] EXCEPT !.pc = pc, !.canteen = c]
<1>1. Shape(new) /\ new.pc = pc
  BY OwnShape, FieldNames DEF Shape
<1>2. run' = [run EXCEPT ![r] = new]
  BY DEF RunsHaveShape
<1> QED
  BY <1>1, <1>2, OwnRecord

LEMMA CanteenSteps ==
    ASSUME DataInv, NEW r \in Run,
           GetSimilarCanteen(r) \/ InsertCanteen(r) \/ DissolveRelations(r)
    PROVE  DataInv'
<1> USE DEF HasFoodPC
<1>0. RunsHaveShape
  BY DEF DataInv
<1>1. CASE GetSimilarCanteen(r)
  <2>1. \/ \E c : run' = [run EXCEPT ![r].pc = "dissolve_relations", ![r].canteen = c]
        \/ Goto(r, "insert_canteen")
    BY <1>1 DEF GetSimilarCanteen
  <2>2. OnlyRun(r) /\ run'[r].pc \in {"dissolve_relations", "insert_canteen"}
    BY <1>0, <2>1, CanteenFound, GotoKeepsFood
  <2>3. UNCHANGED <<allergens, facts, plan>>
    BY <1>1 DEF GetSimilarCanteen, tables
  <2> QED
    BY <2>2, <2>3, LookupKeepsInv
<1>2. CASE InsertCanteen(r)
  <2>1. \E c : run' = [run EXCEPT ![r].pc = "dissolve_relations", ![r].canteen = c]
    BY <1>2 DEF InsertCanteen
  <2>2. OnlyRun(r) /\ run'[r].pc = "dissolve_relations"
    BY <1>0, <2>1, CanteenFound
  <2>3. UNCHANGED <<allergens, facts, plan>>
    BY <1>2 DEF InsertCanteen
  <2> QED
    BY <2>2, <2>3, LookupKeepsInv
<1>3. CASE DissolveRelations(r)
  <2>1. plan' \subseteq plan /\ UNCHANGED <<allergens, facts>> /\ Continue(r, run[r])
    BY <1>3 DEF DissolveRelations
  <2> QED
    BY <1>0, <2>1, OwnShape, ContinueKeepsInv
<1> QED
  BY <1>1, <1>2, <1>3

LEMMA LineSteps ==
    ASSUME DataInv, NEW r \in Run, GetSimilarLine(r) \/ InsertLine(r)
    PROVE  DataInv'
<1>1. \/ \E l : Continue(r, [run[r] EXCEPT !.line = l])
      \/ Goto(r, "insert_line")
  BY DEF GetSimilarLine, UpdateLine, InsertLine
<1>2. UNCHANGED <<allergens, facts, plan>>
  BY DEF GetSimilarLine, InsertLine, tables
<1>3. RunsHaveShape
  BY DEF DataInv
<1>4. CASE Goto(r, "insert_line")
  BY <1>2, <1>3, <1>4, GotoKeepsFood, LookupKeepsInv DEF HasFoodPC
<1>5. ASSUME NEW l, Continue(r, [run[r] EXCEPT !.line = l])
      PROVE  DataInv'
  BY <1>2, <1>3, <1>5, LineShape, ContinueKeepsInv
<1> QED
  BY <1>1, <1>4, <1>5

\* A dish matches a food only if the food has exactly its allergens.
LEMMA MatchIsComplete ==
    ASSUME NEW S, NEW dish, NEW f \in BestMatches(S, dish)
    PROVE  f \in S /\ allergens[f] = dish.allergens
BY DEF BestMatches, Matches

LEMMA FoundKeepsInv ==
    ASSUME DataInv, NEW r \in Run, NEW f \in FoodId,
           allergens[f] = run[r].dish.allergens,
           run' = [run EXCEPT ![r].pc = "update_food", ![r].food = f],
           UNCHANGED <<allergens, facts, plan>>
    PROVE  DataInv'
<1>1. RunsHaveShape
  BY DEF DataInv
<1>2. /\ OnlyRun(r)
      /\ run'[r].pc = "update_food"
      /\ run'[r].food = f
      /\ run'[r].dish = run[r].dish
  BY <1>1, FoundFood DEF TakesFood
<1> QED
  BY <1>2, InvKeptByRun DEF MindsFacts

LEMMA FoodLookups ==
    ASSUME DataInv, NEW r \in Run, GetSimilarMeal(r) \/ GetSimilarSide(r), meals \subseteq FoodId
    PROVE  DataInv'
<1> DEFINE inserting ==
      run' = [run EXCEPT ![r].pc = "insert_food",
                         ![r].meal = ~IsSide(run[r].dish, run[r].average)]
<1>0. RunsHaveShape
  BY DEF DataInv
<1>1. UNCHANGED <<allergens, facts, plan>>
  BY DEF GetSimilarMeal, GetSimilarSide, UpdateDish, InsertDish, tables
<1>2. \/ \E S \in SUBSET FoodId : \E f \in BestMatches(S, run[r].dish) :
            run' = [run EXCEPT ![r].pc = "update_food", ![r].food = f]
      \/ Goto(r, "get_similar_side")
      \/ inserting
  BY DEF GetSimilarMeal, GetSimilarSide, UpdateDish, InsertDish
<1>3. ASSUME NEW S \in SUBSET FoodId, NEW f \in BestMatches(S, run[r].dish),
             run' = [run EXCEPT ![r].pc = "update_food", ![r].food = f]
      PROVE  DataInv'
  <2>1. f \in FoodId /\ allergens[f] = run[r].dish.allergens
    BY <1>3, MatchIsComplete
  <2> QED
    BY <1>1, <1>3, <2>1, FoundKeepsInv
<1>4. CASE Goto(r, "get_similar_side")
  BY <1>0, <1>1, <1>4, GotoKeepsFood, LookupKeepsInv DEF HasFoodPC
<1>5. CASE inserting
  <2> DEFINE new == [run[r] EXCEPT !.pc = "insert_food",
                                   !.meal = ~IsSide(run[r].dish, run[r].average)]
  <2>1. Shape(new) /\ new.pc = "insert_food"
    BY <1>0, OwnShape, FieldNames DEF Shape
  <2>2. run' = [run EXCEPT ![r] = new]
    BY <1>0, <1>5 DEF RunsHaveShape
  <2>3. OnlyRun(r) /\ run'[r].pc = "insert_food"
    BY <1>0, <2>1, <2>2, OwnRecord
  <2> QED
    BY <1>1, <2>3, LookupKeepsInv DEF HasFoodPC
<1> QED
  BY <1>2, <1>3, <1>4, <1>5

LEMMA FactsOrPlan ==
    ASSUME NEW statement, NEW r
    PROVE  \/ FactsOr(statement, r) = statement /\ run[r].dish.facts # None
           \/ FactsOr(statement, r) = "add_to_plan" /\ run[r].dish.facts = None
BY DEF FactsOr

\* The food keeps the allergens it was matched by.
LEMMA UpdateFoodKeepsInv ==
    ASSUME DataInv, NEW r \in Run, UpdateFood(r)
    PROVE  DataInv'
<1>1. /\ run[r].pc = "update_food" /\ Goto(r, FactsOr("update_facts", r))
      /\ UNCHANGED <<allergens, facts, plan>>
  BY DEF UpdateFood, Running
<1>2. /\ OnlyRun(r)
      /\ run'[r].pc = FactsOr("update_facts", r)
      /\ run'[r].food = run[r].food
      /\ run'[r].dish = run[r].dish
  BY <1>1, GotoKeepsFood DEF DataInv
<1>3. /\ run[r].food \in FoodId
      /\ run[r].dish.allergens \subseteq allergens[run[r].food]
  BY <1>1 DEF DataInv, RunsHaveFood, RunsMindAllergens, HasFoodPC, Complete
<1>4. MindsFacts(run'[r], facts)
  BY <1>2, FactsOrPlan DEF MindsFacts
<1> QED
  BY <1>1, <1>2, <1>3, <1>4, InvKeptByRun

\* A statement that stores the facts of the dish and has to be followed by
\* add_to_plan.
LEMMA FactsStored ==
    ASSUME DataInv, NEW r \in Run, run[r].pc \in Complete, Goto(r, "add_to_plan"),
           facts' = [facts EXCEPT ![run[r].food] = run[r].dish.facts],
           run[r].dish.facts # None, UNCHANGED <<allergens, plan>>
    PROVE  DataInv'
<1>1. /\ OnlyRun(r)
      /\ run'[r].food = run[r].food
      /\ run'[r].dish = run[r].dish
  BY GotoKeepsFood DEF DataInv
<1>2. /\ run[r].food \in FoodId
      /\ run[r].dish.allergens \subseteq allergens[run[r].food]
  BY DEF DataInv, RunsHaveFood, RunsMindAllergens, HasFoodPC, Complete
<1>3. facts' = [f \in FoodId |-> IF f = run[r].food THEN run[r].dish.facts ELSE facts[f]]
  BY <1>2 DEF DataInv
<1>4. /\ facts' = [f \in FoodId |-> facts'[f]]
      /\ \A f \in FoodId : facts[f] # None => facts'[f] # None
      /\ facts'[run[r].food] # None
  BY <1>2, <1>3
<1>5. MindsFacts(run'[r], facts')
  BY <1>1, <1>4 DEF MindsFacts
<1>6. allergens' = [f \in FoodId |-> allergens'[f]]
  BY DEF DataInv
<1> QED
  BY <1>1, <1>2, <1>4, <1>5, <1>6, InvKept

LEMMA UpdateFactsKeepsInv ==
    ASSUME DataInv, NEW r \in Run, UpdateFacts(r)
    PROVE  DataInv'
<1>1. run[r].pc = "update_facts"
  BY DEF UpdateFacts, Running
<1>2. run[r].pc \in Complete /\ run[r].dish.facts # None
  BY <1>1 DEF Complete, DataInv, RunsMindFacts, MindsFacts
<1> QED
  BY <1>2, FactsStored DEF UpdateFacts

LEMMA InsertFoodKeepsInv ==
    ASSUME DataInv, NEW r \in Run, InsertFood(r)
    PROVE  DataInv'
<1>0. RunsHaveShape /\ UNCHANGED <<allergens, facts, plan>>
  BY DEF DataInv, InsertFood
<1>1. PICK f \in FoodId :
        run' = [run EXCEPT
                  ![r].pc = IF run[r].meal THEN "insert_meal" ELSE "insert_allergens",
                  ![r].food = f]
  BY DEF InsertFood
<1> DEFINE pc == IF run[r].meal THEN "insert_meal" ELSE "insert_allergens"
           new == [run[r] EXCEPT !.pc = pc, !.food = f]
<1>2. Shape(new) /\ new.pc = pc /\ new.food = f
  BY <1>0, OwnShape, FieldNames DEF Shape
<1>3. run' = [run EXCEPT ![r] = new]
  BY <1>0, <1>1 DEF RunsHaveShape
<1>4. OnlyRun(r) /\ run'[r].pc = pc /\ run'[r].food = f
  BY <1>0, <1>2, <1>3, OwnRecord
<1>5. run'[r].pc \notin Complete /\ MindsFacts(run'[r], facts)
  BY <1>4 DEF Complete, MindsFacts
<1> QED
  BY <1>0, <1>4, <1>5, InvKeptByRun

LEMMA InsertMealKeepsInv ==
    ASSUME DataInv, NEW r \in Run, InsertMeal(r)
    PROVE  DataInv'
<1>1. /\ run[r].pc = "insert_meal" /\ Goto(r, "insert_allergens")
      /\ UNCHANGED <<allergens, facts, plan>>
  BY DEF InsertMeal, Running
<1>2. OnlyRun(r) /\ run'[r].pc = "insert_allergens" /\ run'[r].food = run[r].food
  BY <1>1, GotoKeepsFood DEF DataInv
<1>3. run[r].food \in FoodId
  BY <1>1 DEF DataInv, RunsHaveFood, HasFoodPC
<1> QED
  BY <1>1, <1>2, <1>3, InvKeptByRun DEF Complete, MindsFacts

\* Only here does a new food get its allergens, and only then is it served.
LEMMA InsertAllergensKeepsInv ==
    ASSUME DataInv, NEW r \in Run, InsertAllergens(r)
    PROVE  DataInv'
<1>1. /\ run[r].pc = "insert_allergens" /\ Goto(r, FactsOr("insert_facts", r))
      /\ allergens' = [allergens EXCEPT ![run[r].food] = @ \cup run[r].dish.allergens]
      /\ UNCHANGED <<facts, plan>>
  BY DEF InsertAllergens, Running
<1>2. /\ OnlyRun(r)
      /\ run'[r].pc = FactsOr("insert_facts", r)
      /\ run'[r].food = run[r].food
      /\ run'[r].dish = run[r].dish
  BY <1>1, GotoKeepsFood DEF DataInv
<1>3. run[r].food \in FoodId
  BY <1>1 DEF DataInv, RunsHaveFood, HasFoodPC
<1>4. allergens' = [f \in FoodId |-> IF f = run[r].food
                                     THEN allergens[f] \cup run[r].dish.allergens
                                     ELSE allergens[f]]
  BY <1>1, <1>3 DEF DataInv
<1> HIDE <1>1
<1>5. /\ allergens' = [f \in FoodId |-> allergens'[f]]
      /\ \A f \in FoodId : allergens[f] \subseteq allergens'[f]
      /\ run[r].dish.allergens \subseteq allergens'[run[r].food]
  BY <1>3, <1>4
<1>6. MindsFacts(run'[r], facts')
  BY <1>1, <1>2, FactsOrPlan DEF MindsFacts
<1>7. facts' = [f \in FoodId |-> facts'[f]]
  BY <1>1 DEF DataInv
<1> QED
  BY <1>1, <1>2, <1>3, <1>5, <1>6, <1>7, InvKept

LEMMA InsertFactsKeepsInv ==
    ASSUME DataInv, NEW r \in Run, InsertFacts(r)
    PROVE  DataInv'
<1>1. CASE facts[run[r].food] = None
  <2>1. run[r].pc = "insert_facts"
    BY DEF InsertFacts, Running
  <2>2. run[r].pc \in Complete /\ run[r].dish.facts # None
    BY <2>1 DEF Complete, DataInv, RunsMindFacts, MindsFacts
  <2> QED
    BY <1>1, <2>2, FactsStored DEF InsertFacts
<1>2. CASE facts[run[r].food] # None
  <2>1. Continue(r, run[r]) /\ UNCHANGED <<allergens, facts, plan>>
    BY <1>2 DEF InsertFacts
  <2> QED
    BY <2>1, OwnShape, ContinueKeepsInv DEF DataInv
<1> QED
  BY <1>1, <1>2

LEMMA AddToPlanKeepsInv ==
    ASSUME DataInv, NEW r \in Run, AddToPlan(r)
    PROVE  DataInv'
<1>1. run[r].pc = "add_to_plan" /\ Continue(r, run[r]) /\ UNCHANGED <<allergens, facts>>
  BY DEF AddToPlan, Running
<1>2. OnlyRun(r) /\ run'[r].pc \notin HasFoodPC
  BY <1>1, OwnShape, ContinueLooksUp DEF DataInv
<1>3. /\ run[r].food \in FoodId
      /\ run[r].dish.allergens \subseteq allergens[run[r].food]
      /\ run[r].dish.facts # None => facts[run[r].food] # None
  BY <1>1 DEF DataInv, RunsHaveFood, RunsMindAllergens, RunsMindFacts, MindsFacts, HasFoodPC,
              Complete
<1>4. \A e \in plan' : e \in plan \/ e = [line |-> run[r].line, food |-> run[r].food,
                                          day |-> run[r].day, dish |-> run[r].dish]
  BY DEF AddToPlan, Entry
<1>5. \A e \in plan' : \/ e \in plan
                       \/ /\ e.food \in FoodId
                          /\ e.dish.allergens \subseteq allergens[e.food]
                          /\ e.dish.facts # None => facts[e.food] # None
  BY <1>3, <1>4
<1>6. run'[r].pc \notin Complete /\ MindsFacts(run'[r], facts)
  BY <1>2 DEF HasFoodPC, Complete, MindsFacts
<1> QED
  BY <1>1, <1>2, <1>5, <1>6, InvKept DEF DataInv

LEMMA FailKeepsInv ==
    ASSUME DataInv, NEW r \in Run, Fail(r)
    PROVE  DataInv'
<1>1. UNCHANGED <<allergens, facts>> /\ plan' \subseteq plan /\ RunsHaveShape
  BY DEF Fail, tables, DataInv
<1>2. \/ Continue(r, [run[r] EXCEPT !.linesLeft = <<>>, !.dishesLeft = <<>>])
      \/ Continue(r, [run[r] EXCEPT !.dishesLeft = <<>>])
      \/ Continue(r, run[r])
  BY DEF Fail
<1> QED
  BY <1>1, <1>2, OwnShape, LeftShape, ContinueKeepsInv

LEMMA StartKeepsInv ==
    ASSUME DataInv, NEW r \in Run, NEW days, NEW web, Start(r, days, web)
    PROVE  DataInv'
<1> DEFINE begun == {d \in days : web[d] # <<>>}
           t == [Idle EXCEPT !.web = web, !.days = begun]
<1>1. Continue(r, t) /\ UNCHANGED <<allergens, facts, plan>>
  BY DEF Start, tables
<1>2. Shape(t)
  BY IdleShape, FieldNames DEF Shape
<1> QED
  BY <1>1, <1>2, ContinueKeepsInv

LEMMA StopKeepsInv ==
    ASSUME DataInv, Stop
    PROVE  DataInv'
<1>1. run' = [r \in Run |-> Idle] /\ UNCHANGED <<allergens, facts, plan>>
  BY DEF Stop, tables
<1>2. RunsHaveShape'
  BY <1>1, IdleShape DEF RunsHaveShape, Shape
<1>3. RunsHaveFood' /\ RunsMindAllergens' /\ RunsMindFacts'
  BY <1>1, IdleShape DEF RunsHaveFood, RunsMindAllergens, RunsMindFacts, MindsFacts, HasFoodPC,
                         Complete
<1> QED
  BY <1>1, <1>2, <1>3 DEF DataInv, PlanHasFood, AllergensNeverMissing, FactsNeverMissing

-----------------------------------------------------------------------------
(* The table meal holds foods only: the lookups choose among them.         *)
MealsAreFoods == meals \subseteq FoodId

LEMMA NextMealsAreFoods ==
    ASSUME DataInv, MealsAreFoods, [Next]_vars
    PROVE  MealsAreFoods'
<1>1. \/ UNCHANGED meals
      \/ \E r \in Run : run[r].pc = "insert_meal" /\ meals' = meals \cup {run[r].food}
  BY DEF Next, vars, tables, Stop, StartUpdateParsing, StartFullParsing, Start, Step, Fail,
         GetSimilarCanteen, InsertCanteen, DissolveRelations, GetSimilarLine, InsertLine,
         GetSimilarMeal, GetSimilarSide, UpdateFood, UpdateFacts, InsertFood, InsertMeal,
         InsertAllergens, InsertFacts, AddToPlan, Running
<1> QED
  BY <1>1 DEF MealsAreFoods, DataInv, RunsHaveFood, HasFoodPC

LEMMA InitDataInv == Init => DataInv /\ MealsAreFoods
<1> SUFFICES ASSUME Init PROVE DataInv /\ MealsAreFoods
  OBVIOUS
<1>1. RunsHaveShape
  BY IdleShape DEF Init, RunsHaveShape, Shape
<1>2. RunsHaveFood /\ RunsMindAllergens /\ RunsMindFacts
  BY IdleShape DEF Init, RunsHaveFood, RunsMindAllergens, RunsMindFacts, MindsFacts, HasFoodPC,
                   Complete
<1> QED
  BY <1>1, <1>2 DEF Init, DataInv, PlanHasFood, AllergensNeverMissing, FactsNeverMissing,
                    MealsAreFoods

LEMMA NextDataInv ==
    ASSUME DataInv, MealsAreFoods, [Next]_vars
    PROVE  DataInv'
<1>1. ASSUME NEW r \in Run, StartUpdateParsing(r) \/ StartFullParsing(r)
      PROVE  DataInv'
  BY <1>1, StartKeepsInv DEF StartUpdateParsing, StartFullParsing
<1>2. ASSUME NEW r \in Run, Step(r)
      PROVE  DataInv'
  BY <1>2, CanteenSteps, LineSteps, FoodLookups, UpdateFoodKeepsInv, UpdateFactsKeepsInv,
     InsertFoodKeepsInv, InsertMealKeepsInv, InsertAllergensKeepsInv, InsertFactsKeepsInv,
     AddToPlanKeepsInv
     DEF Step, MealsAreFoods
<1>3. ASSUME NEW r \in Run, Fail(r)
      PROVE  DataInv'
  BY <1>3, FailKeepsInv
<1>4. CASE Stop
  BY <1>4, StopKeepsInv
<1>5. CASE UNCHANGED vars
  BY <1>5 DEF vars, tables, DataInv, RunsHaveShape, RunsHaveFood, RunsMindAllergens,
              RunsMindFacts, PlanHasFood, AllergensNeverMissing, FactsNeverMissing
<1> QED
  BY <1>1, <1>2, <1>3, <1>4, <1>5 DEF Next

\* No dish on the plan misses an allergen of the website, for any number of
\* runs of the two jobs, however they overlap, fail or are stopped.
THEOREM AllergensAreKept == Spec => []AllergensNeverMissing
<1>1. Init => DataInv /\ MealsAreFoods
  BY InitDataInv
<1>2. DataInv /\ MealsAreFoods /\ [Next]_vars => (DataInv /\ MealsAreFoods)'
  BY NextDataInv, NextMealsAreFoods
<1>3. DataInv => AllergensNeverMissing
  BY DEF DataInv
<1> QED
  BY <1>1, <1>2, <1>3, PTL DEF Spec

\* Nor does a dish on the plan miss the nutrition or environment data of the
\* website, however runs that insert and update its food meet or are cut off.
THEOREM FactsAreKept == Spec => []FactsNeverMissing
<1>1. DataInv => FactsNeverMissing
  BY DEF DataInv
<1> QED
  BY <1>1, InitDataInv, NextDataInv, NextMealsAreFoods, PTL DEF Spec

-----------------------------------------------------------------------------
(* The inductive invariant: a run has typed work left, and the rows it     *)
(* stands before exist, since no statement deletes a canteen, a line or a  *)
(* food.                                                                   *)

\* What the loops of a run have still to do.
WorkLeft(t) ==
    /\ Shape(t)
    /\ t.web \in [Day -> Pages]
    /\ t.days \subseteq Day /\ \A d \in t.days : t.web[d] # <<>>
    /\ t.canteensLeft \in Seq(ParsedCanteen)
    /\ t.linesLeft \in Seq(ParsedLine)
    /\ t.dishesLeft \in Seq(Dish)

\* The loops can go on from t, when C, L and F are the identifiers that have a row.
Ready(t, C, L) ==
    /\ WorkLeft(t)
    /\ t.canteensLeft # <<>> \/ t.linesLeft # <<>> \/ t.dishesLeft # <<>> => t.day \in Day
    /\ t.linesLeft # <<>> \/ t.dishesLeft # <<>> => t.canteen \in C
    /\ t.dishesLeft # <<>> => t.line \in L

Busy(t) ==
    /\ WorkLeft(t)
    /\ t.pc \in PC
    /\ t.day \in Day
    /\ t.pc \in CanteenPC => t.canteenName \in CanteenNames /\ t.dishesLeft = <<>>
    /\ t.pc \in LinePC => t.lineName \in LineNames
    /\ t.pc \in DishPC => t.dish \in Dish

Rows(t, C, L, F) ==
    /\ t.pc \in {"dissolve_relations"} \cup LinePC \cup DishPC => t.canteen \in C
    /\ t.pc \in DishPC => t.line \in L
    /\ t.pc \in HasFoodPC => t.food \in F

RunTyped(t, C, L, F) == t = Idle \/ (Busy(t) /\ Rows(t, C, L, F))

CanteenRows == {c \in CanteenId : canteens[c] # None}
LineRows == {l \in LineId : lines[l] # None}
FoodRows == {f \in FoodId : foods[f] # None}

TablesTyped ==
    /\ canteens \in [CanteenId -> CanteenNames \cup {None}]
    /\ lines \in [LineId -> [canteen : CanteenId, name : LineNames] \cup {None}]
    /\ \A l \in LineId : lines[l] # None => canteens[lines[l].canteen] # None
    /\ foods \in [FoodId -> Name \cup {None}]
    /\ meals \subseteq {f \in FoodId : foods[f] # None}
    /\ allergens \in [FoodId -> SUBSET Allergen]
    /\ facts \in [FoodId -> Facts \cup {None}]
    /\ plan \subseteq [line : LineId, food : FoodId, day : Day, dish : Dish]
    /\ \A e \in plan : lines[e.line] # None /\ foods[e.food] # None

RunsTyped ==
    /\ run = [r \in Run |-> run[r]]
    /\ \A r \in Run : RunTyped(run[r], CanteenRows, LineRows, FoodRows)

TypeInv ==
    /\ TablesTyped
    /\ RunsTyped
    /\ agreed \in [Day -> Pages \cup {None}]
    /\ calm \in BOOLEAN

-----------------------------------------------------------------------------
(* The loops                                                               *)

LEMMA HeadAndTail ==
    ASSUME NEW S, NEW s \in Seq(S), s # <<>>
    PROVE  Head(s) \in S /\ Tail(s) \in Seq(S)
OBVIOUS

LEMMA PlacesApart ==
    /\ "idle" \notin PC
    /\ CanteenPC \cap (LinePC \cup DishPC) = {}
    /\ LinePC \cap DishPC = {}
    /\ HasFoodPC \subseteq DishPC
BY DEF PC, CanteenPC, LinePC, DishPC, HasFoodPC

LEMMA AtDishBusy ==
    ASSUME NEW C, NEW L, NEW F, NEW t, Ready(t, C, L), t.dishesLeft # <<>>
    PROVE  Busy(AtDish(t)) /\ Rows(AtDish(t), C, L, F)
<1> DEFINE new == AtDish(t)
<1>1. Head(t.dishesLeft) \in Dish /\ Tail(t.dishesLeft) \in Seq(Dish)
  BY HeadAndTail DEF Ready, WorkLeft
<1>2. /\ Shape(new)
      /\ new.pc = "get_similar_meal"
      /\ new.dish = Head(t.dishesLeft) /\ new.dishesLeft = Tail(t.dishesLeft)
      /\ new.web = t.web /\ new.days = t.days /\ new.day = t.day
      /\ new.canteensLeft = t.canteensLeft /\ new.linesLeft = t.linesLeft
      /\ new.canteen = t.canteen /\ new.line = t.line
  BY FieldNames DEF AtDish, Shape, Ready, WorkLeft
<1> HIDE DEF new
<1>3. Busy(new)
  BY <1>1, <1>2 DEF Busy, Ready, WorkLeft, PC, CanteenPC, LinePC, DishPC
<1>4. Rows(new, C, L, F)
  BY <1>2 DEF Rows, Ready, HasFoodPC
<1> QED
  BY <1>3, <1>4 DEF new

LEMMA AtLineBusy ==
    ASSUME NEW C, NEW L, NEW F, NEW t, Ready(t, C, L), t.linesLeft # <<>>
    PROVE  Busy(AtLine(t, Head(t.linesLeft))) /\ Rows(AtLine(t, Head(t.linesLeft)), C, L, F)
<1> DEFINE l == Head(t.linesLeft)
           new == AtLine(t, l)
<1>1. l \in ParsedLine /\ Tail(t.linesLeft) \in Seq(ParsedLine)
  BY HeadAndTail DEF Ready, WorkLeft
<1> HIDE DEF l
<1>2. /\ Shape(new)
      /\ new.pc = "get_similar_line" /\ new.lineName = l.name
      /\ new.dishesLeft = l.dishes /\ new.linesLeft = Tail(t.linesLeft)
      /\ new.web = t.web /\ new.days = t.days /\ new.day = t.day
      /\ new.canteensLeft = t.canteensLeft /\ new.canteen = t.canteen
  BY FieldNames DEF AtLine, Shape, Ready, WorkLeft
<1>3. l.name \in LineNames /\ l.dishes \in Seq(Dish)
  BY <1>1 DEF ParsedLine
<1> HIDE DEF new
<1>4. Busy(new)
  BY <1>1, <1>2, <1>3 DEF Busy, Ready, WorkLeft, PC, CanteenPC, LinePC, DishPC
<1>5. Rows(new, C, L, F)
  BY <1>2 DEF Rows, Ready, HasFoodPC, DishPC
<1> QED
  BY <1>4, <1>5 DEF new, l

LEMMA AtCanteenBusy ==
    ASSUME NEW C, NEW L, NEW F, NEW t, WorkLeft(t), NEW d \in Day, NEW page \in Seq(ParsedCanteen), page # <<>>
    PROVE  Busy(AtCanteen(t, d, page)) /\ Rows(AtCanteen(t, d, page), C, L, F)
<1> DEFINE new == AtCanteen(t, d, page)
<1>1. Head(page) \in ParsedCanteen /\ Tail(page) \in Seq(ParsedCanteen)
  BY HeadAndTail
<1>2. Head(page).name \in CanteenNames /\ Head(page).lines \in Seq(ParsedLine)
  BY <1>1 DEF ParsedCanteen
<1>3. Shape(new)
  BY AtCanteenLooksUp
<1>4. /\ new.pc = "get_similar_canteen" /\ new.canteenName = Head(page).name
      /\ new.web = t.web /\ new.days = t.days \ {d} /\ new.day = d
  BY DEF AtCanteen, Idle
<1>5. /\ new.linesLeft = Head(page).lines /\ new.canteensLeft = Tail(page)
      /\ new.dishesLeft = <<>>
  BY DEF AtCanteen, Idle
<1> HIDE DEF new
<1>6. Busy(new)
  BY <1>1, <1>2, <1>3, <1>4, <1>5 DEF Busy, WorkLeft, PC, CanteenPC, LinePC, DishPC
<1>7. Rows(new, C, L, F)
  BY <1>4 DEF Rows, LinePC, DishPC, HasFoodPC
<1> QED
  BY <1>6, <1>7 DEF new

\* Wherever the loops go next, they have typed work and the rows they need.
LEMMA Proceeds ==
    ASSUME NEW C, NEW L, NEW F, NEW t, Ready(t, C, L), NEW next \in Proceed(t)
    PROVE  RunTyped(next, C, L, F)
<1>1. CASE t.dishesLeft # <<>>
  BY <1>1, AtDishBusy DEF Proceed, RunTyped
<1>2. CASE t.dishesLeft = <<>> /\ t.linesLeft # <<>>
  BY <1>2, AtLineBusy DEF Proceed, RunTyped
<1>3. CASE t.dishesLeft = <<>> /\ t.linesLeft = <<>> /\ t.canteensLeft # <<>>
  <2>1. next = AtCanteen(t, t.day, t.canteensLeft)
    BY <1>3 DEF Proceed
  <2> QED
    BY <1>3, <2>1, AtCanteenBusy DEF Ready, WorkLeft, RunTyped
<1>4. CASE t.dishesLeft = <<>> /\ t.linesLeft = <<>> /\ t.canteensLeft = <<>>
  <2>1. next = Idle \/ \E d \in t.days : next = AtCanteen(t, d, t.web[d])
    BY <1>4 DEF Proceed
  <2>2. ASSUME NEW d \in t.days
        PROVE  d \in Day /\ t.web[d] \in Seq(ParsedCanteen) /\ t.web[d] # <<>>
    BY PagesAssumption DEF Ready, WorkLeft
  <2>3. ASSUME NEW d \in t.days, next = AtCanteen(t, d, t.web[d])
        PROVE  RunTyped(next, C, L, F)
    BY <2>2, <2>3, AtCanteenBusy DEF Ready, RunTyped
  <2> QED
    BY <2>1, <2>3 DEF RunTyped
<1> QED
  BY <1>1, <1>2, <1>3, <1>4

-----------------------------------------------------------------------------
(* A step of a run                                                         *)

LEMMA RunsShaped == ASSUME TypeInv PROVE RunsHaveShape
BY IdleShape DEF TypeInv, RunsTyped, RunTyped, Busy, WorkLeft, RunsHaveShape

\* No row of a canteen, a line or a food is deleted.
RowsKept ==
    CanteenRows \subseteq CanteenRows' /\ LineRows \subseteq LineRows' /\ FoodRows \subseteq FoodRows'

\* Rows that are kept are there for every other run.
LEMMA TypeKept ==
    ASSUME TypeInv, NEW r \in Run, OnlyRun(r), TablesTyped', RowsKept,
           RunTyped(run'[r], CanteenRows', LineRows', FoodRows'),
           agreed' \in [Day -> Pages \cup {None}], calm' \in BOOLEAN
    PROVE  TypeInv'
<1>1. ASSUME NEW q \in Run, q # r
      PROVE  RunTyped(run'[q], CanteenRows', LineRows', FoodRows')
  <2>1. run'[q] = run[q]
    BY <1>1 DEF OnlyRun
  <2>2. RunTyped(run[q], CanteenRows, LineRows, FoodRows)
    BY DEF TypeInv, RunsTyped
  <2> QED
    BY <2>1, <2>2 DEF RunTyped, Rows, RowsKept
<1>2. run' = [q \in Run |-> run'[q]]
  BY DEF OnlyRun, RunsHaveShape
<1>3. RunsTyped'
  BY <1>1, <1>2 DEF RunsTyped
<1> QED
  BY <1>3 DEF TypeInv

LEMMA ContinueTyped ==
    ASSUME NEW C, NEW L, NEW F, RunsHaveShape, NEW r \in Run, NEW t, Ready(t, C, L),
           Continue(r, t)
    PROVE  OnlyRun(r) /\ RunTyped(run'[r], C, L, F)
<1>1. PICK next \in Proceed(t) : run' = [run EXCEPT ![r] = next]
  BY DEF Continue
<1>2. RunTyped(next, C, L, F)
  BY Proceeds
<1>3. Shape(next)
  BY <1>2, IdleShape DEF RunTyped, Busy, WorkLeft
<1> QED
  BY <1>1, <1>2, <1>3, OwnRecord

\* A run that is not idle has what its place asks for.
LEMMA BusyAt ==
    ASSUME TypeInv, NEW r \in Run, run[r].pc \in PC
    PROVE  Busy(run[r]) /\ Rows(run[r], CanteenRows, LineRows, FoodRows)
BY IdleShape, PlacesApart DEF TypeInv, RunsTyped, RunTyped

SameWork(t, u) ==
    /\ t.web = u.web /\ t.days = u.days /\ t.day = u.day
    /\ t.canteensLeft = u.canteensLeft /\ t.linesLeft = u.linesLeft
    /\ t.dishesLeft = u.dishesLeft
    /\ t.canteenName = u.canteenName /\ t.lineName = u.lineName /\ t.dish = u.dish

\* From one place of a loop body to the next.
LEMMA StaysBusy ==
    ASSUME NEW t, NEW u, Busy(u), Shape(t), SameWork(t, u),
           \/ t.pc \in CanteenPC /\ u.pc \in CanteenPC
           \/ t.pc \in LinePC /\ u.pc \in LinePC
           \/ t.pc \in DishPC /\ u.pc \in DishPC
    PROVE  Busy(t)
<1>1. WorkLeft(t) /\ t.day \in Day /\ t.pc \in PC
  BY DEF Busy, WorkLeft, SameWork, PC
<1> QED
  BY <1>1, PlacesApart DEF Busy, SameWork

\* What statements of a loop body make of the record of their run.
WithPC(t, pc) == [t EXCEPT !.pc = pc]
WithCanteen(t, pc, c) == [t EXCEPT !.pc = pc, !.canteen = c]
WithFood(t, pc, f) == [t EXCEPT !.pc = pc, !.food = f]
WithMeal(t, pc, m) == [t EXCEPT !.pc = pc, !.meal = m]

LEMMA PCRecord ==
    ASSUME NEW t, Shape(t), NEW pc
    PROVE  /\ Shape(WithPC(t, pc)) /\ SameWork(WithPC(t, pc), t)
           /\ WithPC(t, pc).pc = pc /\ WithPC(t, pc).canteen = t.canteen
           /\ WithPC(t, pc).line = t.line /\ WithPC(t, pc).food = t.food
BY FieldNames DEF Shape, SameWork, WithPC

LEMMA CanteenRecord ==
    ASSUME NEW t, Shape(t), NEW pc, NEW c
    PROVE  /\ Shape(WithCanteen(t, pc, c)) /\ SameWork(WithCanteen(t, pc, c), t)
           /\ WithCanteen(t, pc, c).pc = pc /\ WithCanteen(t, pc, c).canteen = c
BY FieldNames DEF Shape, SameWork, WithCanteen

LEMMA FoodRecord ==
    ASSUME NEW t, Shape(t), NEW pc, NEW f
    PROVE  /\ Shape(WithFood(t, pc, f)) /\ SameWork(WithFood(t, pc, f), t)
           /\ WithFood(t, pc, f).pc = pc /\ WithFood(t, pc, f).food = f
           /\ WithFood(t, pc, f).canteen = t.canteen /\ WithFood(t, pc, f).line = t.line
BY FieldNames DEF Shape, SameWork, WithFood

LEMMA MealRecord ==
    ASSUME NEW t, Shape(t), NEW pc, NEW m
    PROVE  /\ Shape(WithMeal(t, pc, m)) /\ SameWork(WithMeal(t, pc, m), t)
           /\ WithMeal(t, pc, m).pc = pc
           /\ WithMeal(t, pc, m).canteen = t.canteen /\ WithMeal(t, pc, m).line = t.line
BY FieldNames DEF Shape, SameWork, WithMeal

LEMMA GotoSameWork ==
    ASSUME RunsHaveShape, NEW r \in Run, NEW pc, Goto(r, pc)
    PROVE  /\ OnlyRun(r) /\ SameWork(run'[r], run[r])
           /\ run'[r].pc = pc /\ run'[r].canteen = run[r].canteen
           /\ run'[r].line = run[r].line /\ run'[r].food = run[r].food
<1>1. run' = [run EXCEPT ![r] = WithPC(run[r], pc)]
  BY DEF Goto, WithPC
<1>2. Shape(run[r])
  BY OwnShape
<1>3. Shape(WithPC(run[r], pc))
  BY <1>2, PCRecord
<1>4. OnlyRun(r) /\ run'[r] = WithPC(run[r], pc)
  BY <1>1, <1>3, OwnRecord
<1> QED
  BY <1>2, <1>4, PCRecord

LEMMA CanteenChosen ==
    ASSUME RunsHaveShape, NEW r \in Run, NEW pc, NEW c,
           run' = [run EXCEPT ![r].pc = pc, ![r].canteen = c]
    PROVE  /\ OnlyRun(r) /\ SameWork(run'[r], run[r])
           /\ run'[r].pc = pc /\ run'[r].canteen = c
<1>0. run = [q \in Run |-> run[q]]
  BY DEF RunsHaveShape
<1>1. run' = [run EXCEPT ![r] = WithCanteen(run[r], pc, c)]
  BY <1>0, ZenonT(60) DEF WithCanteen
<1>2. Shape(run[r])
  BY OwnShape
<1>3. Shape(WithCanteen(run[r], pc, c))
  BY <1>2, CanteenRecord
<1>4. OnlyRun(r) /\ run'[r] = WithCanteen(run[r], pc, c)
  BY <1>1, <1>3, OwnRecord
<1> QED
  BY <1>2, <1>4, CanteenRecord

LEMMA FoodChosen ==
    ASSUME RunsHaveShape, NEW r \in Run, NEW pc, NEW f,
           run' = [run EXCEPT ![r].pc = pc, ![r].food = f]
    PROVE  /\ OnlyRun(r) /\ SameWork(run'[r], run[r])
           /\ run'[r].pc = pc /\ run'[r].food = f
           /\ run'[r].canteen = run[r].canteen /\ run'[r].line = run[r].line
<1>0. run = [q \in Run |-> run[q]]
  BY DEF RunsHaveShape
<1>1. run' = [run EXCEPT ![r] = WithFood(run[r], pc, f)]
  BY <1>0, ZenonT(60) DEF WithFood
<1>2. Shape(run[r])
  BY OwnShape
<1>3. Shape(WithFood(run[r], pc, f))
  BY <1>2, FoodRecord
<1>4. OnlyRun(r) /\ run'[r] = WithFood(run[r], pc, f)
  BY <1>1, <1>3, OwnRecord
<1> QED
  BY <1>2, <1>4, FoodRecord

LEMMA DishToInsert ==
    ASSUME RunsHaveShape, NEW r \in Run, InsertDish(r)
    PROVE  /\ OnlyRun(r) /\ SameWork(run'[r], run[r]) /\ run'[r].pc = "insert_food"
           /\ run'[r].canteen = run[r].canteen /\ run'[r].line = run[r].line
<1> DEFINE m == ~IsSide(run[r].dish, run[r].average)
<1>0. run = [q \in Run |-> run[q]]
  BY DEF RunsHaveShape
<1>1. run' = [run EXCEPT ![r] = WithMeal(run[r], "insert_food", m)]
  BY <1>0, ZenonT(60) DEF InsertDish, WithMeal
<1> HIDE DEF m
<1>2. Shape(run[r])
  BY OwnShape
<1>3. Shape(WithMeal(run[r], "insert_food", m))
  BY <1>2, MealRecord
<1>4. OnlyRun(r) /\ run'[r] = WithMeal(run[r], "insert_food", m)
  BY <1>1, <1>3, OwnRecord
<1> QED
  BY <1>2, <1>4, MealRecord

\* A statement of r's own loop body: r stays in it, with the rows it now needs.
LEMMA BodyKeepsType ==
    ASSUME TypeInv, NEW r \in Run, run[r].pc \in PC, OnlyRun(r), TablesTyped', RowsKept,
           SameWork(run'[r], run[r]),
           \/ run'[r].pc \in CanteenPC /\ run[r].pc \in CanteenPC
           \/ run'[r].pc \in LinePC /\ run[r].pc \in LinePC
           \/ run'[r].pc \in DishPC /\ run[r].pc \in DishPC,
           Rows(run'[r], CanteenRows', LineRows', FoodRows'), UNCHANGED history
    PROVE  TypeInv'
<1>1. Shape(run'[r])
  BY DEF OnlyRun, RunsHaveShape
<1>2. Busy(run'[r])
  BY <1>1, BusyAt, StaysBusy
<1>3. agreed' \in [Day -> Pages \cup {None}] /\ calm' \in BOOLEAN
  BY DEF history, TypeInv
<1> QED
  BY <1>2, <1>3, TypeKept DEF RunTyped

\* A statement after which the loops go on.
LEMMA ContinueKeepsType ==
    ASSUME TypeInv, NEW r \in Run, NEW t, Ready(t, CanteenRows', LineRows'), Continue(r, t),
           TablesTyped', RowsKept, agreed' \in [Day -> Pages \cup {None}], calm' \in BOOLEAN
    PROVE  TypeInv'
<1> DEFINE C == CanteenRows'
           L == LineRows'
           F == FoodRows'
<1>1. Ready(t, C, L)
  OBVIOUS
<1> HIDE DEF C, L, F
<1>2. OnlyRun(r) /\ RunTyped(run'[r], C, L, F)
  BY <1>1, RunsShaped, ContinueTyped
<1> USE DEF C, L, F
<1> QED
  BY <1>2, TypeKept

LEMMA TablesSame ==
    ASSUME TypeInv, UNCHANGED tables
    PROVE  /\ TablesTyped' /\ RowsKept
           /\ CanteenRows' = CanteenRows /\ LineRows' = LineRows /\ FoodRows' = FoodRows
BY DEF tables, TypeInv, TablesTyped, RowsKept, CanteenRows, LineRows, FoodRows

LEMMA HistorySame ==
    ASSUME TypeInv, UNCHANGED history
    PROVE  agreed' \in [Day -> Pages \cup {None}] /\ calm' \in BOOLEAN
BY DEF history, TypeInv

\* What a busy run may go on with.
LEMMA BusyReady ==
    ASSUME NEW C, NEW L, NEW F, NEW t, Busy(t), Rows(t, C, L, F)
    PROVE  /\ t.pc = "dissolve_relations" \/ t.pc \in DishPC => Ready(t, C, L)
           /\ t.pc \in LinePC =>
                \A l \in L : Ready([t EXCEPT !.line = l], C, L)
           /\ t.pc \in LinePC => Ready([t EXCEPT !.dishesLeft = <<>>], C, L)
           /\ Ready([t EXCEPT !.linesLeft = <<>>, !.dishesLeft = <<>>], C, L)
<1>0. Shape(t) /\ WorkLeft(t) /\ t.day \in Day
  BY DEF Busy, WorkLeft
<1>1. ASSUME t.pc = "dissolve_relations" PROVE Ready(t, C, L)
  BY <1>0, <1>1 DEF Ready, Busy, Rows, CanteenPC
<1>2. ASSUME t.pc \in DishPC PROVE Ready(t, C, L)
  BY <1>0, <1>2 DEF Ready, Rows
<1>3. ASSUME t.pc \in LinePC, NEW l \in L
      PROVE  Ready([t EXCEPT !.line = l], C, L)
  <2> DEFINE u == [t EXCEPT !.line = l]
  <2>1. /\ Shape(u) /\ u.line = l /\ u.canteen = t.canteen
        /\ u.web = t.web /\ u.days = t.days /\ u.day = t.day
        /\ u.canteensLeft = t.canteensLeft /\ u.linesLeft = t.linesLeft
        /\ u.dishesLeft = t.dishesLeft
    BY <1>0, FieldNames DEF Shape
  <2> HIDE DEF u
  <2>2. Ready(u, C, L)
    BY <1>0, <1>3, <2>1 DEF Ready, WorkLeft, Rows
  <2> QED
    BY <2>2 DEF u
<1>4. ASSUME t.pc \in LinePC
      PROVE  Ready([t EXCEPT !.dishesLeft = <<>>], C, L)
  <2> DEFINE u == [t EXCEPT !.dishesLeft = <<>>]
  <2>1. /\ Shape(u) /\ u.canteen = t.canteen
        /\ u.web = t.web /\ u.days = t.days /\ u.day = t.day
        /\ u.canteensLeft = t.canteensLeft /\ u.linesLeft = t.linesLeft
        /\ u.dishesLeft = <<>>
    BY <1>0, FieldNames DEF Shape
  <2> HIDE DEF u
  <2>2. Ready(u, C, L)
    BY <1>0, <1>4, <2>1 DEF Ready, WorkLeft, Rows
  <2> QED
    BY <2>2 DEF u
<1>5. Ready([t EXCEPT !.linesLeft = <<>>, !.dishesLeft = <<>>], C, L)
  <2> DEFINE u == [t EXCEPT !.linesLeft = <<>>, !.dishesLeft = <<>>]
  <2>1. /\ Shape(u)
        /\ u.web = t.web /\ u.days = t.days /\ u.day = t.day
        /\ u.canteensLeft = t.canteensLeft /\ u.linesLeft = <<>>
        /\ u.dishesLeft = <<>>
    BY <1>0, FieldNames DEF Shape
  <2> HIDE DEF u
  <2>2. Ready(u, C, L)
    BY <1>0, <2>1 DEF Ready, WorkLeft
  <2> QED
    BY <2>2 DEF u
<1> QED
  BY <1>1, <1>2, <1>3, <1>4, <1>5

-----------------------------------------------------------------------------
(* The steps of one run                                                    *)

LEMMA GetSimilarCanteenType ==
    ASSUME TypeInv, NEW r \in Run, GetSimilarCanteen(r)
    PROVE  TypeInv'
<1>1. run[r].pc = "get_similar_canteen" /\ UNCHANGED tables /\ UNCHANGED history
  BY DEF GetSimilarCanteen, Running
<1>2. CASE Goto(r, "insert_canteen")
  <2>1. /\ OnlyRun(r) /\ SameWork(run'[r], run[r]) /\ run'[r].pc = "insert_canteen"
    BY <1>2, RunsShaped, GotoSameWork
  <2>2. Rows(run'[r], CanteenRows', LineRows', FoodRows')
    BY <2>1 DEF Rows, LinePC, DishPC, HasFoodPC
  <2> QED
    BY <1>1, <2>1, <2>2, TablesSame, BodyKeepsType DEF PC, CanteenPC
<1>3. ASSUME NEW c \in CanteenId, canteens[c] = run[r].canteenName,
             run' = [run EXCEPT ![r].pc = "dissolve_relations", ![r].canteen = c]
      PROVE  TypeInv'
  <2>1. Busy(run[r])
    BY <1>1, BusyAt DEF PC, CanteenPC
  <2>2. canteens[c] # None
    BY <1>1, <1>3, <2>1, PagesAssumption DEF Busy, CanteenPC
  <2>3. c \in CanteenRows'
    BY <1>1, <2>2, TablesSame DEF CanteenRows
  <2>4. OnlyRun(r) /\ SameWork(run'[r], run[r]) /\ run'[r].pc = "dissolve_relations"
        /\ run'[r].canteen = c
    BY <1>3, RunsShaped, CanteenChosen
  <2>5. Rows(run'[r], CanteenRows', LineRows', FoodRows')
    BY <2>3, <2>4 DEF Rows, LinePC, DishPC, HasFoodPC
  <2> QED
    BY <1>1, <2>4, <2>5, TablesSame, BodyKeepsType DEF PC, CanteenPC
<1> QED
  BY <1>2, <1>3 DEF GetSimilarCanteen

LEMMA InsertCanteenType ==
    ASSUME TypeInv, NEW r \in Run, InsertCanteen(r)
    PROVE  TypeInv'
<1>1. /\ run[r].pc = "insert_canteen"
      /\ UNCHANGED <<lines, foods, meals, allergens, facts, plan>> /\ UNCHANGED history
  BY DEF InsertCanteen, Running
<1>2. PICK c \in CanteenId :
        /\ canteens' = [canteens EXCEPT ![c] = run[r].canteenName]
        /\ run' = [run EXCEPT ![r].pc = "dissolve_relations", ![r].canteen = c]
  BY DEF InsertCanteen
<1>3. run[r].canteenName \in CanteenNames /\ run[r].canteenName # None
  BY <1>1, BusyAt, PagesAssumption DEF Busy, PC, CanteenPC
<1>4. /\ canteens' \in [CanteenId -> CanteenNames \cup {None}]
      /\ canteens'[c] # None
      /\ \A d \in CanteenId : canteens[d] # None => canteens'[d] # None
  BY <1>2, <1>3 DEF TypeInv, TablesTyped
<1>5. TablesTyped' /\ RowsKept /\ c \in CanteenRows'
  BY <1>1, <1>4 DEF TypeInv, TablesTyped, RowsKept, CanteenRows, LineRows, FoodRows
<1>6. OnlyRun(r) /\ SameWork(run'[r], run[r]) /\ run'[r].pc = "dissolve_relations"
      /\ run'[r].canteen = c
  BY <1>2, RunsShaped, CanteenChosen
<1>7. Rows(run'[r], CanteenRows', LineRows', FoodRows')
  BY <1>5, <1>6 DEF Rows, LinePC, DishPC, HasFoodPC
<1> QED
  BY <1>1, <1>5, <1>6, <1>7, BodyKeepsType DEF PC, CanteenPC

LEMMA DissolveRelationsType ==
    ASSUME TypeInv, NEW r \in Run, DissolveRelations(r)
    PROVE  TypeInv'
<1>1. /\ run[r].pc = "dissolve_relations" /\ Continue(r, run[r]) /\ plan' \subseteq plan
      /\ UNCHANGED <<canteens, lines, foods, meals, allergens, facts>> /\ UNCHANGED history
  BY DEF DissolveRelations, Running
<1>2. TablesTyped' /\ RowsKept /\ CanteenRows' = CanteenRows /\ LineRows' = LineRows
  BY <1>1 DEF TypeInv, TablesTyped, RowsKept, CanteenRows, LineRows, FoodRows
<1>3. Ready(run[r], CanteenRows', LineRows')
  BY <1>1, <1>2, BusyAt, BusyReady DEF PC, CanteenPC
<1> QED
  BY <1>1, <1>2, <1>3, HistorySame, ContinueKeepsType

LEMMA GetSimilarLineType ==
    ASSUME TypeInv, NEW r \in Run, GetSimilarLine(r)
    PROVE  TypeInv'
<1>1. run[r].pc = "get_similar_line" /\ UNCHANGED tables /\ UNCHANGED history
  BY DEF GetSimilarLine, Running
<1>2. Busy(run[r]) /\ Rows(run[r], CanteenRows, LineRows, FoodRows)
  BY <1>1, BusyAt DEF PC, LinePC
<1>3. run[r].canteen \in CanteenRows /\ run[r].lineName \in LineNames
  BY <1>1, <1>2 DEF Rows, Busy, LinePC
<1>4. CASE Goto(r, "insert_line")
  <2>1. /\ OnlyRun(r) /\ SameWork(run'[r], run[r]) /\ run'[r].pc = "insert_line"
        /\ run'[r].canteen = run[r].canteen
    BY <1>4, RunsShaped, GotoSameWork
  <2>2. Rows(run'[r], CanteenRows', LineRows', FoodRows')
    BY <1>1, <1>3, <2>1, TablesSame DEF Rows, LinePC, DishPC, HasFoodPC
  <2> QED
    BY <1>1, <2>1, <2>2, TablesSame, BodyKeepsType DEF PC, LinePC
<1>5. ASSUME NEW l \in LineId,
             lines[l] = [canteen |-> run[r].canteen, name |-> run[r].lineName],
             UpdateLine(r, l)
      PROVE  TypeInv'
  <2>1. lines[l] \in [canteen : CanteenId, name : LineNames]
    BY <1>3, <1>5 DEF CanteenRows
  <2>2. l \in LineRows
    BY <2>1, PagesAssumption DEF LineRows
  <2>3. Ready([run[r] EXCEPT !.line = l], CanteenRows', LineRows')
    BY <1>1, <1>2, <2>2, BusyReady, TablesSame DEF LinePC
  <2> QED
    BY <1>1, <1>5, <2>3, TablesSame, HistorySame, ContinueKeepsType DEF UpdateLine
<1> QED
  BY <1>4, <1>5 DEF GetSimilarLine

LEMMA InsertLineType ==
    ASSUME TypeInv, NEW r \in Run, InsertLine(r)
    PROVE  TypeInv'
<1>1. /\ run[r].pc = "insert_line"
      /\ UNCHANGED <<canteens, foods, meals, allergens, facts, plan>> /\ UNCHANGED history
  BY DEF InsertLine, Running
<1>2. PICK l \in LineId :
        /\ lines' = [lines EXCEPT
              ![l] = [canteen |-> run[r].canteen, name |-> run[r].lineName]]
        /\ Continue(r, [run[r] EXCEPT !.line = l])
  BY DEF InsertLine
<1>3. Busy(run[r]) /\ Rows(run[r], CanteenRows, LineRows, FoodRows)
  BY <1>1, BusyAt DEF PC, LinePC
<1> DEFINE row == [canteen |-> run[r].canteen, name |-> run[r].lineName]
<1>4. run[r].canteen \in CanteenRows /\ run[r].lineName \in LineNames
  BY <1>1, <1>3 DEF Rows, Busy, LinePC
<1>5. /\ row \in [canteen : CanteenId, name : LineNames]
      /\ row.canteen \in CanteenId /\ canteens[row.canteen] # None
  BY <1>4 DEF CanteenRows
<1>6. row # None
  BY <1>5, PagesAssumption
<1> HIDE DEF row
<1>7. lines' = [lines EXCEPT ![l] = row]
  BY <1>2 DEF row
<1>8. lines' = [k \in LineId |-> IF k = l THEN row ELSE lines[k]]
  BY <1>7 DEF TypeInv, TablesTyped
<1>9. /\ lines' \in [LineId -> [canteen : CanteenId, name : LineNames] \cup {None}]
      /\ lines'[l] # None
      /\ \A k \in LineId : lines[k] # None => lines'[k] # None
      /\ \A k \in LineId : lines'[k] # None => canteens[lines'[k].canteen] # None
  BY <1>5, <1>6, <1>8 DEF TypeInv, TablesTyped
<1>10. TablesTyped' /\ RowsKept /\ CanteenRows' = CanteenRows /\ l \in LineRows'
  BY <1>1, <1>9 DEF TypeInv, TablesTyped, RowsKept, CanteenRows, LineRows, FoodRows
<1>11. Rows(run[r], CanteenRows', LineRows', FoodRows')
  BY <1>3, <1>10 DEF Rows, RowsKept
<1>12. Ready([run[r] EXCEPT !.line = l], CanteenRows', LineRows')
  BY <1>1, <1>3, <1>10, <1>11, BusyReady DEF LinePC
<1> QED
  BY <1>1, <1>2, <1>10, <1>12, HistorySame, ContinueKeepsType

LEMMA DishKeepsType ==
    ASSUME TypeInv, NEW r \in Run, run[r].pc \in DishPC, OnlyRun(r), TablesTyped', RowsKept,
           SameWork(run'[r], run[r]), run'[r].pc \in DishPC,
           run'[r].canteen = run[r].canteen, run'[r].line = run[r].line,
           run'[r].pc \in HasFoodPC => run'[r].food \in FoodRows', UNCHANGED history
    PROVE  TypeInv'
<1>1. run[r].canteen \in CanteenRows /\ run[r].line \in LineRows
  BY BusyAt DEF Rows, PC
<1>2. Rows(run'[r], CanteenRows', LineRows', FoodRows')
  BY <1>1 DEF Rows, RowsKept
<1> QED
  BY <1>2, BodyKeepsType DEF PC

\* What a run knows of the dish, and of the food it has for the dish.
LEMMA DishInHand ==
    ASSUME TypeInv, NEW r \in Run, run[r].pc \in DishPC
    PROVE  /\ run[r].dish \in Dish /\ run[r].day \in Day
           /\ run[r].line \in LineId /\ lines[run[r].line] # None
           /\ run[r].pc \in HasFoodPC => run[r].food \in FoodId /\ foods[run[r].food] # None
BY BusyAt DEF PC, Busy, Rows, LineRows, FoodRows

LEMMA DishTyped ==
    ASSUME NEW dish \in Dish
    PROVE  /\ dish.name \in Name /\ dish.name # None
           /\ dish.allergens \in SUBSET Allergen /\ dish.facts \in Facts \cup {None}
BY PagesAssumption DEF Dish

LEMMA LookupType ==
    ASSUME TypeInv, NEW r \in Run, GetSimilarMeal(r) \/ GetSimilarSide(r)
    PROVE  TypeInv'
<1>1. /\ run[r].pc \in DishPC /\ UNCHANGED tables /\ UNCHANGED history
      /\ \/ \E S, f : f \in BestMatches(S, run[r].dish) /\ S \subseteq FoodId /\ UpdateDish(r, f)
         \/ Goto(r, "get_similar_side")
         \/ InsertDish(r)
  BY DEF GetSimilarMeal, GetSimilarSide, Running, DishPC, TypeInv, TablesTyped
<1>2. ASSUME NEW S \in SUBSET FoodId, NEW f \in BestMatches(S, run[r].dish), UpdateDish(r, f)
      PROVE  TypeInv'
  <2>1. f \in FoodRows'
    BY <1>1, TablesSame DEF BestMatches, Matches, FoodRows
  <2>2. /\ OnlyRun(r) /\ SameWork(run'[r], run[r])
        /\ run'[r].pc = "update_food" /\ run'[r].food = f
        /\ run'[r].canteen = run[r].canteen /\ run'[r].line = run[r].line
    BY <1>2, RunsShaped, FoodChosen DEF UpdateDish
  <2> QED
    BY <1>1, <2>1, <2>2, TablesSame, DishKeepsType DEF DishPC
<1>3. CASE Goto(r, "get_similar_side")
  <2>1. /\ OnlyRun(r) /\ SameWork(run'[r], run[r]) /\ run'[r].pc = "get_similar_side"
        /\ run'[r].canteen = run[r].canteen /\ run'[r].line = run[r].line
    BY <1>3, RunsShaped, GotoSameWork
  <2> QED
    BY <1>1, <2>1, TablesSame, DishKeepsType DEF DishPC, HasFoodPC
<1>4. CASE InsertDish(r)
  <2>1. /\ OnlyRun(r) /\ SameWork(run'[r], run[r]) /\ run'[r].pc = "insert_food"
        /\ run'[r].canteen = run[r].canteen /\ run'[r].line = run[r].line
    BY <1>4, RunsShaped, DishToInsert
  <2> QED
    BY <1>1, <2>1, TablesSame, DishKeepsType DEF DishPC, HasFoodPC
<1> QED
  BY <1>1, <1>2, <1>3, <1>4

\* A statement about the food in hand that is followed by another.
LEMMA FoodInHandKeepsType ==
    ASSUME TypeInv, NEW r \in Run, run[r].pc \in HasFoodPC, NEW pc \in HasFoodPC, Goto(r, pc),
           TablesTyped', RowsKept, UNCHANGED history
    PROVE  TypeInv'
<1>1. /\ OnlyRun(r) /\ SameWork(run'[r], run[r]) /\ run'[r].pc = pc
      /\ run'[r].canteen = run[r].canteen /\ run'[r].line = run[r].line
      /\ run'[r].food = run[r].food
  BY RunsShaped, GotoSameWork
<1>2. run[r].food \in FoodRows'
  BY DishInHand, PlacesApart DEF FoodRows, RowsKept
<1> QED
  BY <1>1, <1>2, PlacesApart, DishKeepsType

LEMMA UpdateFoodType ==
    ASSUME TypeInv, NEW r \in Run, UpdateFood(r)
    PROVE  TypeInv'
<1>1. /\ run[r].pc = "update_food" /\ Goto(r, FactsOr("update_facts", r))
      /\ foods' = [foods EXCEPT ![run[r].food] = run[r].dish.name]
      /\ UNCHANGED <<canteens, lines, meals, allergens, facts, plan>> /\ UNCHANGED history
  BY DEF UpdateFood, Running
<1>2. /\ run[r].food \in FoodId
      /\ run[r].dish.name \in Name /\ run[r].dish.name # None
  BY <1>1, DishInHand, DishTyped DEF DishPC, HasFoodPC
<1>3. /\ foods' \in [FoodId -> Name \cup {None}]
      /\ \A f \in FoodId : foods[f] # None => foods'[f] # None
  BY <1>1, <1>2 DEF TypeInv, TablesTyped
<1>4. TablesTyped' /\ RowsKept
  BY <1>1, <1>3 DEF TypeInv, TablesTyped, RowsKept, CanteenRows, LineRows, FoodRows
<1>5. FactsOr("update_facts", r) \in HasFoodPC
  BY DEF FactsOr, HasFoodPC
<1> QED
  BY <1>1, <1>4, <1>5, FoodInHandKeepsType DEF HasFoodPC

LEMMA UpdateFactsType ==
    ASSUME TypeInv, NEW r \in Run, UpdateFacts(r)
    PROVE  TypeInv'
<1>1. /\ run[r].pc = "update_facts" /\ Goto(r, "add_to_plan")
      /\ facts' = [facts EXCEPT ![run[r].food] = run[r].dish.facts]
      /\ UNCHANGED <<canteens, lines, foods, meals, allergens, plan>> /\ UNCHANGED history
  BY DEF UpdateFacts, Running
<1>2. run[r].dish.facts \in Facts \cup {None}
  BY <1>1, DishInHand, DishTyped DEF DishPC
<1>3. facts' \in [FoodId -> Facts \cup {None}]
  BY <1>1, <1>2 DEF TypeInv, TablesTyped
<1>4. TablesTyped' /\ RowsKept
  BY <1>1, <1>3 DEF TypeInv, TablesTyped, RowsKept, CanteenRows, LineRows, FoodRows
<1> QED
  BY <1>1, <1>4, FoodInHandKeepsType DEF HasFoodPC

LEMMA InsertFoodType ==
    ASSUME TypeInv, NEW r \in Run, InsertFood(r)
    PROVE  TypeInv'
<1> DEFINE pc == IF run[r].meal THEN "insert_meal" ELSE "insert_allergens"
<1>1. /\ run[r].pc = "insert_food"
      /\ UNCHANGED <<canteens, lines, meals, allergens, facts, plan>> /\ UNCHANGED history
  BY DEF InsertFood, Running
<1>2. PICK f \in FoodId : /\ foods' = [foods EXCEPT ![f] = run[r].dish.name]
                         /\ run' = [run EXCEPT ![r].pc = pc, ![r].food = f]
  BY DEF InsertFood
<1>3. pc \in HasFoodPC
  BY DEF HasFoodPC
<1> HIDE DEF pc
<1>4. run[r].dish.name \in Name /\ run[r].dish.name # None
  BY <1>1, DishInHand, DishTyped DEF DishPC
<1>5. /\ foods' \in [FoodId -> Name \cup {None}]
      /\ foods'[f] # None
      /\ \A g \in FoodId : foods[g] # None => foods'[g] # None
  BY <1>2, <1>4 DEF TypeInv, TablesTyped
<1>6. TablesTyped' /\ RowsKept /\ f \in FoodRows'
  BY <1>1, <1>5 DEF TypeInv, TablesTyped, RowsKept, CanteenRows, LineRows, FoodRows
<1>7. /\ OnlyRun(r) /\ SameWork(run'[r], run[r])
      /\ run'[r].pc = pc /\ run'[r].food = f
      /\ run'[r].canteen = run[r].canteen /\ run'[r].line = run[r].line
  BY <1>2, RunsShaped, FoodChosen
<1> QED
  BY <1>1, <1>3, <1>6, <1>7, PlacesApart, DishKeepsType DEF DishPC

LEMMA InsertMealType ==
    ASSUME TypeInv, NEW r \in Run, InsertMeal(r)
    PROVE  TypeInv'
<1>1. /\ run[r].pc = "insert_meal" /\ Goto(r, "insert_allergens")
      /\ meals' = meals \cup {run[r].food}
      /\ UNCHANGED <<canteens, lines, foods, allergens, facts, plan>> /\ UNCHANGED history
  BY DEF InsertMeal, Running
<1>2. run[r].food \in FoodId /\ foods[run[r].food] # None
  BY <1>1, DishInHand DEF DishPC, HasFoodPC
<1>3. TablesTyped' /\ RowsKept
  BY <1>1, <1>2 DEF TypeInv, TablesTyped, RowsKept, CanteenRows, LineRows, FoodRows
<1> QED
  BY <1>1, <1>3, FoodInHandKeepsType DEF HasFoodPC

LEMMA InsertAllergensType ==
    ASSUME TypeInv, NEW r \in Run, InsertAllergens(r)
    PROVE  TypeInv'
<1>1. /\ run[r].pc = "insert_allergens" /\ Goto(r, FactsOr("insert_facts", r))
      /\ allergens' = [allergens EXCEPT ![run[r].food] = @ \cup run[r].dish.allergens]
      /\ UNCHANGED <<canteens, lines, foods, meals, facts, plan>> /\ UNCHANGED history
  BY DEF InsertAllergens, Running
<1>2. run[r].dish.allergens \in SUBSET Allergen /\ run[r].food \in FoodId
  BY <1>1, DishInHand, DishTyped DEF DishPC, HasFoodPC
<1>3. allergens' \in [FoodId -> SUBSET Allergen]
  BY <1>1, <1>2 DEF TypeInv, TablesTyped
<1>4. TablesTyped' /\ RowsKept
  BY <1>1, <1>3 DEF TypeInv, TablesTyped, RowsKept, CanteenRows, LineRows, FoodRows
<1>5. FactsOr("insert_facts", r) \in HasFoodPC
  BY DEF FactsOr, HasFoodPC
<1> QED
  BY <1>1, <1>4, <1>5, FoodInHandKeepsType DEF HasFoodPC

LEMMA InsertFactsType ==
    ASSUME TypeInv, NEW r \in Run, InsertFacts(r)
    PROVE  TypeInv'
<1>1. /\ run[r].pc = "insert_facts"
      /\ UNCHANGED <<canteens, lines, foods, meals, allergens, plan>> /\ UNCHANGED calm
  BY DEF InsertFacts, Running
<1>2. CASE /\ facts' = [facts EXCEPT ![run[r].food] = run[r].dish.facts]
           /\ Goto(r, "add_to_plan") /\ UNCHANGED agreed
  <2>1. run[r].dish.facts \in Facts \cup {None}
    BY <1>1, DishInHand, DishTyped DEF DishPC
  <2>2. facts' \in [FoodId -> Facts \cup {None}]
    BY <1>2, <2>1 DEF TypeInv, TablesTyped
  <2>3. TablesTyped' /\ RowsKept
    BY <1>1, <2>2 DEF TypeInv, TablesTyped, RowsKept, CanteenRows, LineRows, FoodRows
  <2> QED
    BY <1>1, <1>2, <2>3, FoodInHandKeepsType DEF HasFoodPC, history
<1>3. CASE /\ Continue(r, run[r]) /\ agreed' = [agreed EXCEPT ![run[r].day] = None]
           /\ UNCHANGED facts
  <2>1. TablesTyped' /\ RowsKept /\ CanteenRows' = CanteenRows /\ LineRows' = LineRows
    BY <1>1, <1>3, TablesSame DEF tables
  <2>2. Ready(run[r], CanteenRows', LineRows')
    BY <1>1, <2>1, BusyAt, BusyReady DEF PC, DishPC
  <2>3. agreed' \in [Day -> Pages \cup {None}] /\ calm' \in BOOLEAN
    BY <1>1, <1>3 DEF TypeInv
  <2> QED
    BY <1>3, <2>1, <2>2, <2>3, ContinueKeepsType
<1> QED
  BY <1>2, <1>3 DEF InsertFacts

LEMMA AddToPlanType ==
    ASSUME TypeInv, NEW r \in Run, AddToPlan(r)
    PROVE  TypeInv'
<1>1. /\ run[r].pc = "add_to_plan" /\ Continue(r, run[r])
      /\ plan' \subseteq plan \cup {Entry(r)}
      /\ UNCHANGED <<canteens, lines, foods, meals, allergens, facts>> /\ UNCHANGED history
  BY DEF AddToPlan, Running
<1>2. /\ run[r].dish \in Dish /\ run[r].day \in Day
      /\ run[r].line \in LineId /\ lines[run[r].line] # None
      /\ run[r].food \in FoodId /\ foods[run[r].food] # None
  BY <1>1, DishInHand DEF DishPC, HasFoodPC
<1>3. /\ Entry(r) \in [line : LineId, food : FoodId, day : Day, dish : Dish]
      /\ lines[Entry(r).line] # None /\ foods[Entry(r).food] # None
  BY <1>2 DEF Entry
<1>4. TablesTyped' /\ RowsKept /\ CanteenRows' = CanteenRows /\ LineRows' = LineRows
  BY <1>1, <1>3 DEF TypeInv, TablesTyped, RowsKept, CanteenRows, LineRows, FoodRows
<1>5. Ready(run[r], CanteenRows', LineRows')
  BY <1>1, <1>4, BusyAt, BusyReady DEF PC, DishPC
<1> QED
  BY <1>1, <1>4, <1>5, HistorySame, ContinueKeepsType

-----------------------------------------------------------------------------
(* Errors and the beginning of a run                                       *)

LEMMA FailType ==
    ASSUME TypeInv, NEW r \in Run, Fail(r)
    PROVE  TypeInv'
<1>1. /\ run[r] # Idle /\ UNCHANGED tables
      /\ agreed' = [agreed EXCEPT ![run[r].day] = None] /\ calm' = FALSE
  BY DEF Fail
<1>2. Busy(run[r]) /\ Rows(run[r], CanteenRows, LineRows, FoodRows)
  BY <1>1 DEF TypeInv, RunsTyped, RunTyped
<1>3. \/ Continue(r, [run[r] EXCEPT !.linesLeft = <<>>, !.dishesLeft = <<>>])
      \/ run[r].pc \in LinePC /\ Continue(r, [run[r] EXCEPT !.dishesLeft = <<>>])
      \/ run[r].pc \in DishPC /\ Continue(r, run[r])
  BY <1>2 DEF Fail, Busy, PC
<1>4. agreed' \in [Day -> Pages \cup {None}] /\ calm' \in BOOLEAN
  BY <1>1 DEF TypeInv
<1>5. /\ TablesTyped' /\ RowsKept
      /\ CanteenRows' = CanteenRows /\ LineRows' = LineRows
  BY <1>1, TablesSame
<1>6. PICK t : Continue(r, t) /\ Ready(t, CanteenRows, LineRows)
  BY <1>2, <1>3, BusyReady
<1> QED
  BY <1>4, <1>5, <1>6, ContinueKeepsType

LEMMA StartType ==
    ASSUME TypeInv, NEW r \in Run, NEW days \in SUBSET Day, NEW web \in [Day -> Pages],
           Start(r, days, web)
    PROVE  TypeInv'
<1> DEFINE begun == {d \in days : web[d] # <<>>}
           t == [Idle EXCEPT !.web = web, !.days = begun]
<1>1. Continue(r, t) /\ UNCHANGED tables
  BY DEF Start
<1>2. /\ Shape(t) /\ t.web = web /\ t.days = begun
      /\ t.canteensLeft = <<>> /\ t.linesLeft = <<>> /\ t.dishesLeft = <<>>
  BY IdleShape, FieldNames DEF Shape, Idle
<1> HIDE DEF t
<1>3. Ready(t, CanteenRows', LineRows')
  BY <1>2 DEF Ready, WorkLeft
<1>4. agreed' \in [Day -> Pages \cup {None}] /\ calm' \in BOOLEAN
  BY DEF Start, TypeInv
<1> QED
  BY <1>1, <1>3, <1>4, TablesSame, ContinueKeepsType

LEMMA StopType ==
    ASSUME TypeInv, Stop
    PROVE  TypeInv'
<1>1. run' = [r \in Run |-> Idle] /\ UNCHANGED tables
  BY DEF Stop
<1>2. RunsTyped'
  BY <1>1 DEF RunsTyped, RunTyped
<1>3. agreed' \in [Day -> Pages \cup {None}] /\ calm' \in BOOLEAN
  BY DEF Stop, TypeInv
<1> QED
  BY <1>1, <1>2, <1>3, TablesSame DEF TypeInv

LEMMA InitType == Init => TypeInv
<1> SUFFICES ASSUME Init PROVE TypeInv
  OBVIOUS
<1>1. TablesTyped
  BY DEF Init, TablesTyped
<1>2. RunsTyped
  BY DEF Init, RunsTyped, RunTyped
<1> QED
  BY <1>1, <1>2 DEF Init, TypeInv

LEMMA NextType ==
    ASSUME TypeInv, [Next]_vars
    PROVE  TypeInv'
<1>1. ASSUME NEW r \in Run, StartUpdateParsing(r) \/ StartFullParsing(r)
      PROVE  TypeInv'
  BY <1>1, StartType DEF StartUpdateParsing, StartFullParsing
<1>2. ASSUME NEW r \in Run, Step(r)
      PROVE  TypeInv'
  BY <1>2, GetSimilarCanteenType, InsertCanteenType, DissolveRelationsType,
     GetSimilarLineType, InsertLineType, LookupType, UpdateFoodType, UpdateFactsType,
     InsertFoodType, InsertMealType, InsertAllergensType, InsertFactsType, AddToPlanType
     DEF Step
<1>3. ASSUME NEW r \in Run, Fail(r)
      PROVE  TypeInv'
  BY <1>3, FailType
<1>4. CASE Stop
  BY <1>4, StopType
<1>5. CASE UNCHANGED vars
  BY <1>5 DEF vars, tables, history, TypeInv, TablesTyped, RunsTyped, CanteenRows, LineRows,
              FoodRows
<1> QED
  BY <1>1, <1>2, <1>3, <1>4, <1>5 DEF Next

LEMMA TypeInvImplies == TypeInv => TypeOK
<1>1. TypeInv => \A r \in Run : run[r] = Idle \/ (run[r].pc \in PC /\ run[r].day \in Day)
  BY DEF TypeInv, RunsTyped, RunTyped, Busy
<1> QED
  BY <1>1 DEF TypeInv, TablesTyped, TypeOK

\* Whatever the website says, however many runs overlap, fail or are stopped, the
\* tables keep to their types and no foreign key of the plan, of a line or of a meal
\* leads to a row that is missing.
THEOREM TypesKept == Spec => []TypeOK
<1>1. TypeInv /\ [Next]_vars => TypeInv'
  BY NextType
<1> QED
  BY <1>1, InitType, TypeInvImplies, PTL DEF Spec
=============================================================================
