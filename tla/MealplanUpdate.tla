-------------------------- MODULE MealplanUpdate ---------------------------
(***************************************************************************)
(* How the meal plans of the website get into the database: the jobs of    *)
(* MealPlanManager (layer/logic/mealplan_management/meal_plan_manager.rs)  *)
(* hand every canteen of every parsed day to RelationResolver              *)
(* (relation_resolver.rs), which runs one statement after the other        *)
(* (data/database/mealplan_management.rs) and no transaction.              *)
(*                                                                         *)
(* A run of a job is one action per statement that later statements can    *)
(* tell apart.  Statements that only change positions or additives are     *)
(* part of their neighbour: they can fail, and Fail at the neighbour has   *)
(* the same effect.  Nutrition and environment data are two tables that    *)
(* the same statements write one after the other and that nothing reads    *)
(* together: the table of facts stands for either.                         *)
(*                                                                         *)
(* Canteens and lines are found again by the similarity of their names; the*)
(* website only varies their spelling, so here they match when the names   *)
(* are equal.  A name of a dish stands for its name and its food_type,     *)
(* which has to be equal for a match: names of different types are not     *)
(* similar.  Names made of the same trigrams are one name.                 *)
(***************************************************************************)
EXTENDS Integers, Sequences, FiniteSets

CONSTANTS
    Run,          \* slots for runs of the two jobs: bounds the overlap
    Day,
    Pages,        \* what the website may say of a day
    CanteenId, LineId, FoodId,  \* identifiers gen_random_uuid() may hand out
    Name,         \* names of dishes
    Allergen,
    Facts,        \* nutrition data, or environment data
    Similarity,   \* similarity(a, b) of the trigram extension
    Threshold,    \* THRESHOLD_MEAL
    ByWeight,     \* names that contain EDGE_CASE_NAME, "je 100 g"
    None

ASSUME SimilarityAssumption ==
    /\ Threshold \in Nat
    /\ Similarity \in [Name \X Name -> Nat]
    /\ \A m, n \in Name :
          /\ Similarity[m, n] = Similarity[n, m]
          /\ m # n => Similarity[m, n] < Similarity[m, m]
          /\ Similarity[m, m] >= Threshold

\* A parsed dish; a day is a sequence of canteens, each with its lines, and a
\* line has a sequence of dishes.  A day that is not on the website is <<>>.
Dish == [name : Name, allergens : SUBSET Allergen, facts : Facts \cup {None}, price : Nat]

CanteenNames == UNION {{page[k].name : k \in DOMAIN page} : page \in Pages}
Rooms == UNION {{page[k].lines : k \in DOMAIN page} : page \in Pages}
LineNames == UNION {{ls[k].name : k \in DOMAIN ls} : ls \in Rooms}

ParsedLine == [name : LineNames, dishes : Seq(Dish)]
ParsedCanteen == [name : CanteenNames, lines : Seq(ParsedLine)]

ASSUME PagesAssumption ==
    /\ Pages \subseteq Seq(ParsedCanteen)
    /\ None \notin CanteenNames /\ None \notin Name
    /\ None \notin [canteen : CanteenId, name : LineNames]

VARIABLES
    canteens,   \* table canteen: id -> name, None without a row
    lines,      \* table line: id -> [canteen, name], None without a row
    foods,      \* table food: id -> name, None without a row
    meals,      \* table meal
    allergens,  \* table food_allergen: id -> set of allergens
    facts,      \* tables food_nutrition_data, food_env_score: None without a row
    plan,       \* table food_plan: the price is that of the parsed dish
    run,        \* run[r]: the job running in slot r
    agreed,     \* history: agreed[d] is what the plan of d should be, if known
    calm        \* history: no two runs have overlapped and none has failed

tables == <<canteens, lines, foods, meals, allergens, facts, plan>>
history == <<agreed, calm>>
vars == <<tables, run, history>>

-----------------------------------------------------------------------------
(* The local state of a run.                                               *)

CanteenPC == {"get_similar_canteen", "insert_canteen", "dissolve_relations"}
LinePC == {"get_similar_line", "insert_line"}
DishPC == {"get_similar_meal", "get_similar_side", "update_food", "insert_food",
           "insert_meal", "insert_allergens", "insert_facts", "update_facts",
           "add_to_plan"}
PC == CanteenPC \cup LinePC \cup DishPC

NoDish == [name |-> None, allergens |-> {}, facts |-> None, price |-> 0]

\* web is what parsing returned and days are the days not yet begun.  The rest
\* is what the three nested loops are at and what they have still to do.
Idle ==
    [pc |-> "idle", web |-> <<>>, days |-> {}, day |-> None,
     canteenName |-> None, canteen |-> None, canteensLeft |-> <<>>,
     lineName |-> None, line |-> None, linesLeft |-> <<>>, average |-> 0,
     dish |-> NoDish, meal |-> FALSE, food |-> None, dishesLeft |-> <<>>]

Running(r, pc) == run[r].pc = pc

\* checked_div of the sum by the number of dishes
Average(dishes) ==
    LET sum[n \in 0..Len(dishes)] ==
            IF n = 0 THEN 0 ELSE sum[n - 1] + dishes[n].price
    IN  IF dishes = <<>> THEN 0 ELSE sum[Len(dishes)] \div Len(dishes)

\* The heads of the loops over dishes, lines and canteens.
AtDish(t) ==
    [t EXCEPT !.pc = "get_similar_meal", !.food = None, !.meal = FALSE,
              !.dish = Head(t.dishesLeft), !.dishesLeft = Tail(t.dishesLeft)]

AtLine(t, l) ==
    [t EXCEPT !.pc = "get_similar_line", !.line = None, !.lineName = l.name,
              !.food = None, !.meal = FALSE, !.dish = NoDish,
              !.dishesLeft = l.dishes, !.average = Average(l.dishes),
              !.linesLeft = Tail(t.linesLeft)]

AtCanteen(t, d, page) ==
    [Idle EXCEPT !.pc = "get_similar_canteen", !.canteenName = Head(page).name,
                 !.web = t.web, !.days = t.days \ {d}, !.day = d,
                 !.linesLeft = Head(page).lines, !.canteensLeft = Tail(page)]

\* What t may do next: the next dish of its line, the next line of its canteen,
\* the next canteen of its day, any other day (a HashMap has no order).
Proceed(t) ==
    IF t.dishesLeft # <<>> THEN {AtDish(t)}
    ELSE IF t.linesLeft # <<>> THEN {AtLine(t, Head(t.linesLeft))}
    ELSE IF t.canteensLeft # <<>> THEN {AtCanteen(t, t.day, t.canteensLeft)}
    ELSE IF t.days # {} THEN {AtCanteen(t, d, t.web[d]) : d \in t.days}
    ELSE {Idle}

Goto(r, pc) == run' = [run EXCEPT ![r].pc = pc]

Continue(r, t) == \E next \in Proceed(t) : run' = [run EXCEPT ![r] = next]

\* r has still to change something of day d.
WorksOn(r, d) == run[r].pc # "idle" /\ (run[r].day = d \/ d \in run[r].days)

-----------------------------------------------------------------------------
(* Looking a dish up                                                       *)

\* Mutant: the allergens are not compared.
MatchesByName(f, dish) ==
    /\ foods[f] # None
    /\ Similarity[foods[f], dish.name] >= Threshold

Matches(f, dish) ==
    /\ foods[f] # None
    /\ Similarity[foods[f], dish.name] >= Threshold
    /\ allergens[f] = dish.allergens

\* Mutant: no ORDER BY similarity.
AnyMatch(S, dish) == {f \in S : Matches(f, dish)}

\* ORDER BY similarity DESC, first row
BestMatches(S, dish) ==
    {f \in S : /\ Matches(f, dish)
               /\ \A g \in S : Matches(g, dish) =>
                    Similarity[foods[g], dish.name] <= Similarity[foods[f], dish.name]}

\* 0.8 is SIDE_PERCENTAGE_GAP.
IsSide(dish, average) == 10 * dish.price < 8 * average /\ dish.name \notin ByWeight

-----------------------------------------------------------------------------
Init ==
    /\ canteens = [c \in CanteenId |-> None]
    /\ lines = [l \in LineId |-> None]
    /\ foods = [f \in FoodId |-> None]
    /\ meals = {}
    /\ allergens = [f \in FoodId |-> {}]
    /\ facts = [f \in FoodId |-> None]
    /\ plan = {}
    /\ run = [r \in Run |-> Idle]
    /\ agreed = [d \in Day |-> None]
    /\ calm = TRUE

\* A run has parsed the days it is about to resolve: web is what the website
\* said of them, which differs from run to run as it pleases the canteens.  A
\* parse that fails ends the run before it changes anything.
Start(r, days, web) ==
    LET begun == {d \in days : web[d] # <<>>} IN
    /\ run[r] = Idle
    /\ Continue(r, [Idle EXCEPT !.web = web, !.days = begun])
    /\ agreed' = [d \in Day |->
          IF d \notin begun THEN agreed[d]
          ELSE IF \A q \in Run : ~WorksOn(q, d) THEN web[d]
          ELSE IF \A q \in Run : WorksOn(q, d) => run[q].web[d] = web[d] THEN agreed[d]
          ELSE None]
    /\ calm' = (calm /\ \A q \in Run : run[q] = Idle)
    /\ UNCHANGED tables

\* The update job parses the current day, whichever that is by now.
StartUpdateParsing(r) == \E d \in Day, web \in [Day -> Pages] : Start(r, {d}, web)

StartFullParsing(r) == \E web \in [Day -> Pages] : Start(r, Day, web)

(* resolve *****************************************************************)

\* The row is updated when there is one.
GetSimilarCanteen(r) ==
    LET found == {c \in CanteenId : canteens[c] = run[r].canteenName} IN
    /\ Running(r, "get_similar_canteen")
    /\ \/ \E c \in found :
            run' = [run EXCEPT ![r].pc = "dissolve_relations", ![r].canteen = c]
       \/ /\ found = {}
          /\ Goto(r, "insert_canteen")
    /\ UNCHANGED <<tables, history>>

InsertCanteen(r) ==
    /\ Running(r, "insert_canteen")
    /\ \E c \in CanteenId :
          /\ canteens[c] = None
          /\ canteens' = [canteens EXCEPT ![c] = run[r].canteenName]
          /\ run' = [run EXCEPT ![r].pc = "dissolve_relations", ![r].canteen = c]
    /\ UNCHANGED <<lines, foods, meals, allergens, facts, plan, history>>

\* Mutant: the old plan stays.
DissolveNothing(r) ==
    /\ Running(r, "dissolve_relations")
    /\ Continue(r, run[r])
    /\ UNCHANGED <<tables, history>>

DissolveRelations(r) ==
    /\ Running(r, "dissolve_relations")
    /\ plan' = {e \in plan : e.day # run[r].day \/ lines[e.line].canteen # run[r].canteen}
    /\ Continue(r, run[r])
    /\ UNCHANGED <<canteens, lines, foods, meals, allergens, facts, history>>

(* resolve_line ************************************************************)

\* Its name is the same: it goes on with its dishes.
UpdateLine(r, l) == Continue(r, [run[r] EXCEPT !.line = l])

\* Mutant: the lines of all canteens are searched.
GetSimilarLineAnywhere(r) ==
    LET found == {l \in LineId : lines[l] # None /\ lines[l].name = run[r].lineName} IN
    /\ Running(r, "get_similar_line")
    /\ \/ \E l \in found : UpdateLine(r, l)
       \/ /\ found = {}
          /\ Goto(r, "insert_line")
    /\ UNCHANGED <<tables, history>>

GetSimilarLine(r) ==
    LET found == {l \in LineId :
                    lines[l] = [canteen |-> run[r].canteen, name |-> run[r].lineName]} IN
    /\ Running(r, "get_similar_line")
    /\ \/ \E l \in found : UpdateLine(r, l)
       \/ /\ found = {}
          /\ Goto(r, "insert_line")
    /\ UNCHANGED <<tables, history>>

\* Mutant: the identifier of a row that is not there.
InsertLineForgotten(r) ==
    /\ Running(r, "insert_line")
    /\ \E l \in LineId :
          /\ lines[l] = None
          /\ Continue(r, [run[r] EXCEPT !.line = l])
    /\ UNCHANGED <<tables, history>>

InsertLine(r) ==
    /\ Running(r, "insert_line")
    /\ \E l \in LineId :
          /\ lines[l] = None
          /\ lines' = [lines EXCEPT
                ![l] = [canteen |-> run[r].canteen, name |-> run[r].lineName]]
          /\ Continue(r, [run[r] EXCEPT !.line = l])
    /\ UNCHANGED <<canteens, foods, meals, allergens, facts, plan, history>>

(* resolve_dish ************************************************************)

\* A food was found: update_meal and update_side do the same with it.
UpdateDish(r, f) == run' = [run EXCEPT ![r].pc = "update_food", ![r].food = f]

\* Nothing was found: insert_meal or insert_side, as the price tells.
InsertDish(r) ==
    run' = [run EXCEPT ![r].pc = "insert_food",
                       ![r].meal = ~IsSide(run[r].dish, run[r].average)]

GetSimilarMeal(r) ==
    LET found == BestMatches(meals, run[r].dish) IN
    /\ Running(r, "get_similar_meal")
    /\ \/ \E f \in found : UpdateDish(r, f)
       \/ /\ found = {}
          /\ Goto(r, "get_similar_side")
    /\ UNCHANGED <<tables, history>>

GetSimilarSide(r) ==
    LET found == BestMatches(FoodId \ meals, run[r].dish) IN
    /\ Running(r, "get_similar_side")
    /\ \/ \E f \in found : UpdateDish(r, f)
       \/ /\ found = {}
          /\ InsertDish(r)
    /\ UNCHANGED <<tables, history>>

\* Where a run stands once the food has its name and its allergens: data the
\* website does not give is not written.
FactsOr(statement, r) == IF run[r].dish.facts = None THEN "add_to_plan" ELSE statement

\* Mutant: the allergens are deleted and inserted again.
UpdateFoodAnew(r) ==
    /\ Running(r, "update_food")
    /\ foods' = [foods EXCEPT ![run[r].food] = run[r].dish.name]
    /\ allergens' = [allergens EXCEPT ![run[r].food] = {}]
    /\ Goto(r, "insert_allergens")
    /\ UNCHANGED <<canteens, lines, meals, facts, plan, history>>

UpdateFood(r) ==
    /\ Running(r, "update_food")
    /\ foods' = [foods EXCEPT ![run[r].food] = run[r].dish.name]
    /\ Goto(r, FactsOr("update_facts", r))
    /\ UNCHANGED <<canteens, lines, meals, allergens, facts, plan, history>>

\* Mutant: a plain UPDATE, which changes nothing where there is no row.
UpdateFactsOfRow(r) ==
    /\ Running(r, "update_facts")
    /\ facts' = [facts EXCEPT ![run[r].food] = IF @ = None THEN None ELSE run[r].dish.facts]
    /\ Goto(r, "add_to_plan")
    /\ UNCHANGED <<canteens, lines, foods, meals, allergens, plan, history>>

\* "Newly inserting nutrition data is also possible!"  ON CONFLICT DO UPDATE
UpdateFacts(r) ==
    /\ Running(r, "update_facts")
    /\ facts' = [facts EXCEPT ![run[r].food] = run[r].dish.facts]
    /\ Goto(r, "add_to_plan")
    /\ UNCHANGED <<canteens, lines, foods, meals, allergens, plan, history>>

\* insert_food is several statements, without a transaction.
InsertFood(r) ==
    /\ Running(r, "insert_food")
    /\ \E f \in FoodId :
          /\ foods[f] = None
          /\ foods' = [foods EXCEPT ![f] = run[r].dish.name]
          /\ run' = [run EXCEPT
                ![r].pc = IF run[r].meal THEN "insert_meal" ELSE "insert_allergens",
                ![r].food = f]
    /\ UNCHANGED <<canteens, lines, meals, allergens, facts, plan, history>>

InsertMeal(r) ==
    /\ Running(r, "insert_meal")
    /\ meals' = meals \cup {run[r].food}
    /\ Goto(r, "insert_allergens")
    /\ UNCHANGED <<canteens, lines, foods, allergens, facts, plan, history>>

InsertAllergens(r) ==
    /\ Running(r, "insert_allergens")
    /\ allergens' = [allergens EXCEPT ![run[r].food] = @ \cup run[r].dish.allergens]
    /\ Goto(r, FactsOr("insert_facts", r))
    /\ UNCHANGED <<canteens, lines, foods, meals, facts, plan, history>>

\* Another run may have matched the food by now and stored its facts: then the
\* key refuses these, and the dish is not put on the plan.
InsertFacts(r) ==
    /\ Running(r, "insert_facts")
    /\ \/ /\ facts[run[r].food] = None
          /\ facts' = [facts EXCEPT ![run[r].food] = run[r].dish.facts]
          /\ Goto(r, "add_to_plan")
          /\ UNCHANGED agreed
       \/ /\ facts[run[r].food] # None
          /\ Continue(r, run[r])
          /\ agreed' = [agreed EXCEPT ![run[r].day] = None]
          /\ UNCHANGED facts
    /\ UNCHANGED <<canteens, lines, foods, meals, allergens, plan, calm>>

\* add_meal_to_plan and add_side_to_plan do the same.
Entry(r) ==
    [line |-> run[r].line, food |-> run[r].food, day |-> run[r].day, dish |-> run[r].dish]

\* A dish that is already on the plan of the line is skipped: the key refuses it.
AddToPlan(r) ==
    LET served == {e \in plan : /\ e.line = run[r].line
                                /\ e.food = run[r].food
                                /\ e.day = run[r].day} IN
    /\ Running(r, "add_to_plan")
    /\ plan' = IF served # {} THEN plan ELSE plan \cup {Entry(r)}
    /\ Continue(r, run[r])
    /\ UNCHANGED <<canteens, lines, foods, meals, allergens, facts, history>>

(* Errors ******************************************************************)

\* A failing statement ends the canteen, the line or the dish it belongs to,
\* and the loop around it goes on.
Fail(r) ==
    /\ run[r] # Idle
    /\ Continue(r,
         CASE run[r].pc \in CanteenPC -> [run[r] EXCEPT !.linesLeft = <<>>, !.dishesLeft = <<>>]
           [] run[r].pc \in LinePC -> [run[r] EXCEPT !.dishesLeft = <<>>]
           [] OTHER -> run[r])
    /\ agreed' = [agreed EXCEPT ![run[r].day] = None]
    /\ calm' = FALSE
    /\ UNCHANGED tables

\* The process stops, and with it every run.
Stop ==
    /\ run' = [r \in Run |-> Idle]
    /\ agreed' = [d \in Day |-> IF \E r \in Run : WorksOn(r, d) THEN None ELSE agreed[d]]
    /\ calm' = (calm /\ run' = run)
    /\ UNCHANGED tables

-----------------------------------------------------------------------------
Step(r) ==
    \/ GetSimilarCanteen(r) \/ InsertCanteen(r) \/ DissolveRelations(r)
    \/ GetSimilarLine(r) \/ InsertLine(r)
    \/ GetSimilarMeal(r) \/ GetSimilarSide(r)
    \/ UpdateFood(r) \/ UpdateFacts(r)
    \/ InsertFood(r) \/ InsertMeal(r) \/ InsertAllergens(r) \/ InsertFacts(r)
    \/ AddToPlan(r)

Next ==
    \/ Stop
    \/ \E r \in Run :
        \/ StartUpdateParsing(r) \/ StartFullParsing(r)
        \/ Step(r)
        \/ Fail(r)

Spec == Init /\ [][Next]_vars
-----------------------------------------------------------------------------
(* Properties                                                              *)

\* Every table and every run keeps to the values the program can give it, and
\* every foreign key leads to a row.
TypeOK ==
    /\ canteens \in [CanteenId -> CanteenNames \cup {None}]
    /\ lines \in [LineId -> [canteen : CanteenId, name : LineNames] \cup {None}]
    /\ \A l \in LineId : lines[l] # None => canteens[lines[l].canteen] # None
    /\ foods \in [FoodId -> Name \cup {None}]
    /\ meals \subseteq {f \in FoodId : foods[f] # None}
    /\ allergens \in [FoodId -> SUBSET Allergen]
    /\ facts \in [FoodId -> Facts \cup {None}]
    /\ plan \subseteq [line : LineId, food : FoodId, day : Day, dish : Dish]
    /\ \A e \in plan : lines[e.line] # None /\ foods[e.food] # None
    /\ \A r \in Run :
          \/ run[r] = Idle
          \/ run[r].pc \in PC /\ run[r].day \in Day
    /\ agreed \in [Day -> Pages \cup {None}]
    /\ calm \in BOOLEAN

\* Nobody is served a dish whose allergens are not shown: whatever food a dish
\* was matched with or inserted as, and whatever other runs did to that food
\* before and since, it has all allergens the website gave for the dish.
AllergensNeverMissing ==
    \A e \in plan : e.dish.allergens \subseteq allergens[e.food]

\* Nobody is served a dish without the nutrition or environment data the website
\* gave for it: also when a run that inserted the food was cut off before its data,
\* or the website had none at that time, the run that finds the food makes up for it.
FactsNeverMissing ==
    \A e \in plan : e.dish.facts # None => facts[e.food] # None

\* Between two similar names there may be others: get_similar_meal follows one
\* link at a time and update_food moves the food along.
Alike(m, n) ==
    \A S \in SUBSET Name :
        /\ m \in S
        /\ \A p \in S, q \in Name : Similarity[p, q] >= Threshold => q \in S
        => n \in S

\* What a page says, dish by dish.
Menu(page) ==
    UNION {UNION {{[canteen |-> page[c].name, line |-> page[c].lines[l].name,
                    dish |-> page[c].lines[l].dishes[k]]
        : k \in DOMAIN page[c].lines[l].dishes}
        : l \in DOMAIN page[c].lines}
        : c \in DOMAIN page}

\* What food_plan says, and which food stands for it.
Served(d) ==
    {[canteen |-> canteens[lines[e.line].canteen], line |-> lines[e.line].name,
      dish |-> e.dish, food |-> e.food] : e \in {x \in plan : x.day = d}}

UniqueCanteens ==
    \A c1, c2 \in CanteenId : c1 # c2 /\ canteens[c1] # None => canteens[c1] # canteens[c2]

\* The plan of a day of which no run has failed, and to which runs that
\* overlapped brought the same page, is the page: nothing of an older page is
\* left, and each dish is there, or an alike one in its place that shows its
\* allergens.  Only a canteen that two runs inserted at once is beyond this:
\* dissolve_relations deletes the plan of one of the two rows.  A dish whose facts
\* were refused counts as a failure.
PlanMatchesMenu ==
    \A d \in Day :
        /\ agreed[d] # None
        /\ \A r \in Run : ~WorksOn(r, d)
        /\ UniqueCanteens
        =>
        /\ \A s \in Served(d) :
              s.canteen \in {m.canteen : m \in Menu(agreed[d])}
              => \E m \in Menu(agreed[d]) :
                    m.canteen = s.canteen /\ m.line = s.line /\ m.dish = s.dish
        /\ \A m \in Menu(agreed[d]) :
              \E s \in Served(d) :
                 /\ m.canteen = s.canteen /\ m.line = s.line
                 /\ Alike(m.dish.name, s.dish.name)
                 /\ m.dish.allergens \subseteq allergens[s.food]

InsertsFood(r) == Running(r, "insert_meal") \/ Running(r, "insert_allergens")

\* The data behind ratings and pictures stays with its dish: as long as runs do
\* not overlap and none fails, there are no two meals, and no two sides, of
\* one name and the same allergens, however the names on the website drift.
DishesKeepTheirFood ==
    calm /\ (\A r \in Run : ~InsertsFood(r)) =>
        \A f, g \in FoodId :
            /\ f # g /\ foods[f] # None
            /\ f \in meals <=> g \in meals
            /\ foods[f] = foods[g]
            => allergens[f] # allergens[g]
=============================================================================
