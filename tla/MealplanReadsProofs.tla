------------------------ MODULE MealplanReadsProofs ------------------------
(* What a query shows while any number of jobs work: the allergens and the *)
(* facts of a dish suffice, and no line shows a food as meal and as side.  *)
(*                                                                         *)
(* While no two of them work at once: the meals of a line are those of one *)
(* page, and a query whose day nobody touches shows all of the menu.       *)
EXTENDS MealplanReads, MealplanMenuProofs

-----------------------------------------------------------------------------
(* The inductive invariant: what a query has read of a dish stays true of  *)
(* the tables, because allergens, facts and meals are only ever added.     *)

QueryFields == DOMAIN NoQuery

QueryHasShape == query = [x \in QueryFields |-> query[x]]

ShownHasShape ==
    \A s \in query.shown :
        s = [kind |-> s.kind, line |-> s.line, food |-> s.food, name |-> s.name,
             dish |-> s.dish, allergens |-> s.allergens, facts |-> s.facts]

ShownHasFood == \A s \in query.shown : s.food \in FoodId

\* Also before the allergens are read.
ShownMindsAllergens ==
    \A s \in query.shown : s.dish.allergens \subseteq allergens[s.food]

ShownMindsFacts ==
    \A s \in query.shown : s.dish.facts # None => facts[s.food] # None

ShownMealsAreMeals == \A s \in query.shown : s.kind = "meal" => s.food \in meals

QueryInv ==
    /\ QueryHasShape
    /\ ShownHasShape
    /\ ShownHasFood
    /\ ShownMindsAllergens
    /\ ShownMindsFacts
    /\ ShownMealsAreMeals
    /\ ShownAllergensSuffice
    /\ ShownFactsSuffice

LEMMA QueryFieldNames ==
    QueryFields = {"pc", "day", "wants", "asked", "canteens", "lines", "sideless", "shown",
                   "quiet"}
BY DEF QueryFields, NoQuery

-----------------------------------------------------------------------------
(* The jobs only add allergens, facts and meals.                           *)

TablesGrow ==
    /\ meals \subseteq meals'
    /\ \A f \in FoodId : /\ allergens[f] \subseteq allergens'[f]
                         /\ facts[f] # None => facts'[f] # None

LEMMA UpdatesGrow ==
    ASSUME DataInv, [Next]_vars
    PROVE  TablesGrow
<1>1. \/ UNCHANGED meals
      \/ \E r \in Run : meals' = meals \cup {run[r].food}
  BY DEF Next, vars, tables, Stop, StartUpdateParsing, StartFullParsing, Start, Step, Fail,
         GetSimilarCanteen, InsertCanteen, DissolveRelations, GetSimilarLine, InsertLine,
         GetSimilarMeal, GetSimilarSide, UpdateFood, UpdateFacts, InsertFood, InsertMeal,
         InsertAllergens, InsertFacts, AddToPlan
<1>2. \/ UNCHANGED allergens
      \/ \E r \in Run : allergens' = [allergens EXCEPT ![run[r].food] = @ \cup run[r].dish.allergens]
  BY DEF Next, vars, tables, Stop, StartUpdateParsing, StartFullParsing, Start, Step, Fail,
         GetSimilarCanteen, InsertCanteen, DissolveRelations, GetSimilarLine, InsertLine,
         GetSimilarMeal, GetSimilarSide, UpdateFood, UpdateFacts, InsertFood, InsertMeal,
         InsertAllergens, InsertFacts, AddToPlan
<1>3. allergens = [f \in FoodId |-> allergens[f]]
  BY DEF DataInv
<1>4. \A f \in FoodId : allergens[f] \subseteq allergens'[f]
  BY <1>2, <1>3
<1>5. \/ UNCHANGED facts
      \/ \E r \in Run : /\ run[r].pc \in {"update_facts", "insert_facts"}
                        /\ facts' = [facts EXCEPT ![run[r].food] = run[r].dish.facts]
  BY DEF Next, vars, tables, Stop, StartUpdateParsing, StartFullParsing, Start, Step, Fail,
         GetSimilarCanteen, InsertCanteen, DissolveRelations, GetSimilarLine, InsertLine,
         GetSimilarMeal, GetSimilarSide, UpdateFood, UpdateFacts, InsertFood, InsertMeal,
         InsertAllergens, InsertFacts, AddToPlan, Running
<1>6. \A f \in FoodId : facts[f] # None => facts'[f] # None
  BY <1>5 DEF DataInv, RunsMindFacts, MindsFacts
<1> QED
  BY <1>1, <1>4, <1>6 DEF TablesGrow

LEMMA UpdateKeepsQueryInv ==
    ASSUME QueryInv, DataInv, Update
    PROVE  QueryInv'
<1>1. TablesGrow
  BY UpdatesGrow DEF Update
<1> DEFINE b == query.quiet /\ Quiet(run', query.day)
<1>2. query' = [query EXCEPT !.quiet = b]
  BY DEF Update
<1>3. /\ QueryHasShape'
      /\ query'.shown = query.shown
  <2> HIDE DEF b
  <2> QED
    BY <1>2, QueryFieldNames DEF QueryInv, QueryHasShape
<1>4. ShownHasShape' /\ ShownHasFood' /\ ShownAllergensSuffice' /\ ShownFactsSuffice'
  BY <1>3 DEF QueryInv, ShownHasShape, ShownHasFood, ShownAllergensSuffice, ShownFactsSuffice
<1>5. ShownMindsAllergens' /\ ShownMindsFacts'
  BY <1>1, <1>3 DEF QueryInv, ShownHasFood, ShownMindsAllergens, ShownMindsFacts, TablesGrow
<1>6. ShownMealsAreMeals'
  BY <1>1, <1>3 DEF QueryInv, ShownMealsAreMeals, TablesGrow
<1> QED
  BY <1>3, <1>4, <1>5, <1>6 DEF QueryInv

-----------------------------------------------------------------------------
(* The steps of the query                                                  *)

\* What is read from the plan has the food and the allergens of the plan.
LEMMA ShownFromPlan ==
    ASSUME DataInv, NEW kind, NEW e \in plan
    PROVE  LET s == Show(kind, e) IN
           /\ s = [kind |-> s.kind, line |-> s.line, food |-> s.food, name |-> s.name,
                   dish |-> s.dish, allergens |-> s.allergens, facts |-> s.facts]
           /\ s.food \in FoodId
           /\ s.dish.allergens \subseteq allergens[s.food]
           /\ s.dish.facts # None => facts[s.food] # None
           /\ s.kind = kind /\ s.food = e.food /\ s.allergens = Unread /\ s.facts = Unread
BY DEF Show, DataInv, PlanHasFood, AllergensNeverMissing, FactsNeverMissing

\* A step that only adds dishes of the plan that nobody has seen the allergens of.
LEMMA ShowingKeepsQueryInv ==
    ASSUME QueryInv, DataInv, UNCHANGED vars,
           QueryHasShape',
           NEW kind \in {"meal", "side"}, NEW entries \in SUBSET plan,
           query'.shown = query.shown \cup {Show(kind, e) : e \in entries},
           kind = "meal" => \A e \in entries : e.food \in meals
    PROVE  QueryInv'
<1> USE DEF vars, tables
<1> DEFINE new == {Show(kind, e) : e \in entries}
<1>1. \A s \in new : /\ s = [kind |-> s.kind, line |-> s.line, food |-> s.food, name |-> s.name,
                              dish |-> s.dish, allergens |-> s.allergens, facts |-> s.facts]
                     /\ s.food \in FoodId
                     /\ s.dish.allergens \subseteq allergens[s.food]
                     /\ s.dish.facts # None => facts[s.food] # None
                     /\ s.kind = kind /\ s.allergens = Unread /\ s.facts = Unread
  BY ShownFromPlan
<1>2. \A s \in new : \E e \in entries : s.food = e.food
  BY ShownFromPlan
<1>3. query'.shown = query.shown \cup new
  OBVIOUS
<1> HIDE DEF new
<1>4. ShownHasShape' /\ ShownHasFood'
  BY <1>1, <1>3 DEF QueryInv, ShownHasShape, ShownHasFood
<1>5. ShownMindsAllergens' /\ ShownMindsFacts'
  BY <1>1, <1>3 DEF QueryInv, ShownMindsAllergens, ShownMindsFacts
<1>6. ShownMealsAreMeals'
  BY <1>1, <1>2, <1>3 DEF QueryInv, ShownMealsAreMeals
<1>7. ShownAllergensSuffice' /\ ShownFactsSuffice'
  BY <1>1, <1>3 DEF QueryInv, ShownAllergensSuffice, ShownFactsSuffice, Unread
<1> QED
  BY <1>4, <1>5, <1>6, <1>7 DEF QueryInv

\* A step that changes nothing of what is shown.
LEMMA KeepingKeepsQueryInv ==
    ASSUME QueryInv, UNCHANGED vars, QueryHasShape', query'.shown = query.shown
    PROVE  QueryInv'
BY DEF QueryInv, vars, tables, ShownHasShape, ShownHasFood, ShownMindsAllergens,
       ShownMindsFacts, ShownMealsAreMeals, ShownAllergensSuffice, ShownFactsSuffice

LEMMA StartsKeepQueryInv ==
    ASSUME QueryInv, DataInv, UNCHANGED vars,
           \/ EndOfQuery
           \/ \E cs, d : Ask(cs, d)
           \/ \E f \in FoodId, l \in LineId, d \in Day : GetMeal(f, l, d)
    PROVE  QueryInv'
<1>1. CASE query'.shown = {} /\ QueryHasShape'
  BY <1>1 DEF QueryInv, ShownHasShape, ShownHasFood, ShownMindsAllergens, ShownMindsFacts,
              ShownMealsAreMeals, ShownAllergensSuffice, ShownFactsSuffice
<1>2. CASE EndOfQuery
  BY <1>1, <1>2, QueryFieldNames DEF EndOfQuery, NoQuery, QueryHasShape
<1>3. ASSUME NEW cs, NEW d, Ask(cs, d)
      PROVE  QueryInv'
  <2> DEFINE b == Quiet(run, d)
  <2>1. PICK wants \in Selections :
          query' = [NoQuery EXCEPT !.pc = "reading", !.day = d, !.wants = wants, !.quiet = b,
                                   !.asked = cs, !.canteens = cs]
    BY <1>3 DEF Ask
  <2> HIDE DEF b
  <2> QED
    BY <1>1, <2>1, QueryFieldNames DEF NoQuery, QueryHasShape
<1>4. ASSUME NEW f \in FoodId, NEW l \in LineId, NEW d \in Day, GetMeal(f, l, d)
      PROVE  QueryInv'
  <2> DEFINE b == Quiet(run, d)
             found == MealDataLoader(f, l, d)
             new == {Show("meal", e) : e \in found}
             ls == {e.line : e \in found}
  <2>1. PICK wants \in Selections :
          query' = [NoQuery EXCEPT !.pc = "reading", !.day = d, !.wants = wants, !.quiet = b,
                                   !.shown = new, !.sideless = ls]
    BY <1>4 DEF GetMeal, ShowMeal
  <2>2. \A s \in new : /\ s = [kind |-> s.kind, line |-> s.line, food |-> s.food, name |-> s.name,
                                dish |-> s.dish, allergens |-> s.allergens, facts |-> s.facts]
                       /\ s.food \in FoodId
                       /\ s.dish.allergens \subseteq allergens[s.food]
                       /\ s.dish.facts # None => facts[s.food] # None
                       /\ s.kind = "meal" /\ s.food \in meals
                       /\ s.allergens = Unread /\ s.facts = Unread
    BY ShownFromPlan DEF MealDataLoader, MealEntries
  <2> HIDE DEF b, new, ls
  <2>3. query'.shown = new /\ QueryHasShape'
    BY <2>1, QueryFieldNames DEF NoQuery, QueryHasShape
  <2>4. ShownHasShape' /\ ShownHasFood' /\ ShownMealsAreMeals'
    BY <2>2, <2>3 DEF vars, tables, ShownHasShape, ShownHasFood, ShownMealsAreMeals
  <2>5. /\ ShownMindsAllergens' /\ ShownMindsFacts'
        /\ ShownAllergensSuffice' /\ ShownFactsSuffice'
    BY <2>2, <2>3 DEF vars, tables, ShownMindsAllergens, ShownMindsFacts, ShownAllergensSuffice,
                      ShownFactsSuffice, Unread
  <2> QED
    BY <2>3, <2>4, <2>5 DEF QueryInv
<1> QED
  BY <1>2, <1>3, <1>4

LEMMA LinesKeepQueryInv ==
    ASSUME QueryInv, UNCHANGED vars, Lines
    PROVE  QueryInv'
<1>1. PICK a, b : query' = [query EXCEPT !.canteens = a, !.lines = b]
  BY DEF Lines
<1>2. QueryHasShape' /\ query'.shown = query.shown
  BY <1>1, QueryFieldNames DEF QueryInv, QueryHasShape
<1> QED
  BY <1>2, KeepingKeepsQueryInv

LEMMA MealsKeepQueryInv ==
    ASSUME QueryInv, DataInv, UNCHANGED vars, Meals
    PROVE  QueryInv'
<1>1. PICK part \in Batch(query.lines) :
        LET found == {e \in MealEntries(query.day) : e.line \in part} IN
        query' = [query EXCEPT !.lines = @ \ part,
                    !.shown = @ \cup {Show("meal", e) : e \in found},
                    !.sideless = @ \cup {e.line : e \in found}]
  BY DEF Meals, ManyMealsDataLoader, ShowMeal
<1> DEFINE found == {e \in MealEntries(query.day) : e.line \in part}
           new == {Show("meal", e) : e \in found}
           ls == {e.line : e \in found}
<1>2. query' = [query EXCEPT !.lines = @ \ part, !.shown = @ \cup new, !.sideless = @ \cup ls]
  BY <1>1
<1>3. QueryHasShape' /\ query'.shown = query.shown \cup new
  <2> HIDE DEF new, ls
  <2> QED
    BY <1>2, QueryFieldNames DEF QueryInv, QueryHasShape
<1>4. found \in SUBSET plan /\ \A e \in found : e.food \in meals
  BY DEF MealEntries
<1> HIDE DEF found
<1> QED
  BY <1>3, <1>4, ShowingKeepsQueryInv

LEMMA SidesKeepQueryInv ==
    ASSUME QueryInv, DataInv, UNCHANGED vars, Sides
    PROVE  QueryInv'
<1>1. PICK part \in Batch(query.sideless) :
        query' = [query EXCEPT !.sideless = @ \ part,
          !.shown = @ \cup {Show("side", e) : e \in SidesLoader(part, query.day)}]
  BY DEF Sides, ShowSide
<1> DEFINE found == SidesLoader(part, query.day)
           new == {Show("side", e) : e \in found}
<1>2. query' = [query EXCEPT !.sideless = @ \ part, !.shown = @ \cup new]
  BY <1>1
<1>3. QueryHasShape' /\ query'.shown = query.shown \cup new
  <2> HIDE DEF new
  <2> QED
    BY <1>2, QueryFieldNames DEF QueryInv, QueryHasShape
<1>4. found \in SUBSET plan
  BY DEF SidesLoader
<1> HIDE DEF found
<1> QED
  BY <1>3, <1>4, ShowingKeepsQueryInv

\* A step that reads a field of the dishes shown, and tells the truth.
LEMMA ReadingKeepsQueryInv ==
    ASSUME QueryInv, UNCHANGED vars,
           NEW new, query' = [query EXCEPT !.shown = new],
           \A t \in new : \E s \in query.shown :
               /\ t = [kind |-> t.kind, line |-> t.line, food |-> t.food, name |-> t.name,
                       dish |-> t.dish, allergens |-> t.allergens, facts |-> t.facts]
               /\ t.kind = s.kind /\ t.food = s.food /\ t.dish = s.dish
               /\ t.allergens \in {s.allergens, allergens[s.food]}
               /\ t.facts \in {s.facts, facts[s.food]}
    PROVE  QueryInv'
<1>1. QueryHasShape' /\ query'.shown = new
  BY QueryFieldNames DEF QueryInv, QueryHasShape
<1>2. ShownHasShape' /\ ShownHasFood'
  BY <1>1 DEF QueryInv, ShownHasShape, ShownHasFood
<1>3. ShownMindsAllergens' /\ ShownMindsFacts' /\ ShownMealsAreMeals'
  BY <1>1 DEF QueryInv, ShownMindsAllergens, ShownMindsFacts, ShownMealsAreMeals, vars, tables
<1>4. ShownAllergensSuffice'
  BY <1>1 DEF QueryInv, ShownAllergensSuffice, ShownMindsAllergens
<1>5. ShownFactsSuffice'
  BY <1>1 DEF QueryInv, ShownFactsSuffice, ShownMindsFacts
<1> QED
  BY <1>1, <1>2, <1>3, <1>4, <1>5 DEF QueryInv

LEMMA AllergensKeepQueryInv ==
    ASSUME QueryInv, UNCHANGED vars, Allergens
    PROVE  QueryInv'
<1>1. PICK part : query' = [query EXCEPT !.shown =
            {IF s \in part THEN [s EXCEPT !.allergens = AllergenLoader(part)[s.food]] ELSE s :
                s \in @}]
  BY DEF Allergens
<1> DEFINE Loaded(s) == IF s \in part THEN [s EXCEPT !.allergens = AllergenLoader(part)[s.food]] ELSE s
           new == {Loaded(s) : s \in query.shown}
<1>2. \A s \in query.shown :
        LET t == Loaded(s) IN
        /\ t = [kind |-> t.kind, line |-> t.line, food |-> t.food, name |-> t.name,
                dish |-> t.dish, allergens |-> t.allergens, facts |-> t.facts]
        /\ t.kind = s.kind /\ t.food = s.food /\ t.dish = s.dish /\ t.facts = s.facts
        /\ t.allergens \in {s.allergens, allergens[s.food]}
  BY DEF QueryInv, ShownHasShape, AllergenLoader
<1>3. query' = [query EXCEPT !.shown = new]
  BY <1>1
<1>4. \A t \in new : \E s \in query.shown :
        /\ t = [kind |-> t.kind, line |-> t.line, food |-> t.food, name |-> t.name,
                dish |-> t.dish, allergens |-> t.allergens, facts |-> t.facts]
        /\ t.kind = s.kind /\ t.food = s.food /\ t.dish = s.dish
        /\ t.allergens \in {s.allergens, allergens[s.food]}
        /\ t.facts \in {s.facts, facts[s.food]}
  <2> HIDE DEF Loaded
  <2> QED
    BY <1>2
<1> HIDE DEF new
<1> QED
  BY <1>3, <1>4, ReadingKeepsQueryInv

LEMMA FactsKeepQueryInv ==
    ASSUME QueryInv, UNCHANGED vars, Details
    PROVE  QueryInv'
<1>1. PICK part : query' = [query EXCEPT !.shown =
            {IF s \in part THEN [s EXCEPT !.facts = FactsLoader(part)[s.food]] ELSE s :
                s \in @}]
  BY DEF Details
<1> DEFINE Loaded(s) == IF s \in part THEN [s EXCEPT !.facts = FactsLoader(part)[s.food]] ELSE s
           new == {Loaded(s) : s \in query.shown}
<1>2. \A s \in query.shown :
        LET t == Loaded(s) IN
        /\ t = [kind |-> t.kind, line |-> t.line, food |-> t.food, name |-> t.name,
                dish |-> t.dish, allergens |-> t.allergens, facts |-> t.facts]
        /\ t.kind = s.kind /\ t.food = s.food /\ t.dish = s.dish
        /\ t.allergens = s.allergens /\ t.facts \in {s.facts, facts[s.food]}
  BY DEF QueryInv, ShownHasShape, FactsLoader
<1>3. query' = [query EXCEPT !.shown = new]
  BY <1>1
<1>4. \A t \in new : \E s \in query.shown :
        /\ t = [kind |-> t.kind, line |-> t.line, food |-> t.food, name |-> t.name,
                dish |-> t.dish, allergens |-> t.allergens, facts |-> t.facts]
        /\ t.kind = s.kind /\ t.food = s.food /\ t.dish = s.dish
        /\ t.allergens \in {s.allergens, allergens[s.food]}
        /\ t.facts \in {s.facts, facts[s.food]}
  <2> HIDE DEF Loaded
  <2> QED
    BY <1>2
<1> HIDE DEF new
<1> QED
  BY <1>3, <1>4, ReadingKeepsQueryInv

LEMMA AnswerKeepsQueryInv ==
    ASSUME QueryInv, UNCHANGED vars, Answer
    PROVE  QueryInv'
<1>1. query' = [query EXCEPT !.pc = "answered"]
  BY DEF Answer
<1>2. QueryHasShape' /\ query'.shown = query.shown
  BY <1>1, QueryFieldNames DEF QueryInv, QueryHasShape
<1> QED
  BY <1>2, KeepingKeepsQueryInv

-----------------------------------------------------------------------------
ReadInv == DataInv /\ MealsAreFoods /\ QueryInv

LEMMA InitReadInv == ReadInit => ReadInv
<1> SUFFICES ASSUME ReadInit PROVE QueryInv
  BY InitDataInv DEF ReadInit, ReadInv
<1>1. query = NoQuery /\ query.shown = {} /\ QueryHasShape
  BY DEF ReadInit, NoQuery, QueryHasShape, QueryFields
<1> QED
  BY <1>1 DEF QueryInv, ShownHasShape, ShownHasFood, ShownMindsAllergens, ShownMindsFacts,
              ShownMealsAreMeals, ShownAllergensSuffice, ShownFactsSuffice

LEMMA NextReadInv == ReadInv /\ [ReadNext]_readVars => ReadInv'
<1> SUFFICES ASSUME ReadInv, [ReadNext]_readVars PROVE ReadInv'
  OBVIOUS
<1> USE DEF ReadInv
<1>1. [Next]_vars
  BY DEF ReadNext, Update, readVars
<1>2. DataInv' /\ MealsAreFoods'
  BY <1>1, NextDataInv, NextMealsAreFoods
<1>3. ASSUME Update PROVE QueryInv'
  BY <1>3, UpdateKeepsQueryInv
<1>4. ASSUME Read, UNCHANGED <<vars, solo>> PROVE QueryInv'
  BY <1>4, StartsKeepQueryInv, LinesKeepQueryInv, MealsKeepQueryInv, SidesKeepQueryInv,
     AllergensKeepQueryInv, FactsKeepQueryInv, AnswerKeepsQueryInv
     DEF Read, GetCanteens, GetCanteen
<1>5. ASSUME UNCHANGED readVars PROVE QueryInv'
  BY <1>5 DEF readVars, vars, tables, QueryInv, QueryHasShape, ShownHasShape, ShownHasFood,
       ShownMindsAllergens, ShownMindsFacts, ShownMealsAreMeals, ShownAllergensSuffice,
       ShownFactsSuffice
<1>6. QueryInv'
  BY <1>3, <1>4, <1>5 DEF ReadNext
<1> QED
  BY <1>2, <1>6

\* A dish is never shown without an allergen the website gave for it, whatever
\* jobs run between the statements of the query.
THEOREM ReadersSeeAllergens == ReadSpec => []ShownAllergensSuffice
<1>1. ReadInv => ShownAllergensSuffice
  BY DEF ReadInv, QueryInv
<1> QED
  BY <1>1, InitReadInv, NextReadInv, PTL DEF ReadSpec

\* Nor without nutrition or environment data the website gave for it.
THEOREM ReadersSeeFacts == ReadSpec => []ShownFactsSuffice
<1>1. ReadInv => ShownFactsSuffice
  BY DEF ReadInv, QueryInv
<1> QED
  BY <1>1, InitReadInv, NextReadInv, PTL DEF ReadSpec

-----------------------------------------------------------------------------
(* Runs that do not overlap                                                *)

\* A row that is about to be inserted is not there, and a new meal is on no plan.
NewRows(t, cs, ls, p) ==
    /\ t.pc = "insert_canteen" => \A c \in CanteenId : cs[c] # t.canteenName
    /\ t.pc = "insert_line" =>
         \A l \in LineId : ls[l] # [canteen |-> t.canteen, name |-> t.lineName]
    /\ t.pc = "insert_meal" => \A e \in p : e.food # t.food

UniqueLines == \A k, l \in LineId : lines[k] # None /\ lines[k] = lines[l] => k = l

\* As long as no run has met another there is one row for a canteen and one for a line.
RowsOnce ==
    /\ OneRun /\ UniqueCanteens /\ UniqueLines
    /\ \A r \in Run : NewRows(run[r], canteens, lines, plan)

AloneInv == (solo => RowsOnce) /\ (calm => solo)

\* What r has dissolved the plan of is what it is still at.
StaysInside(r) ==
    run'[r].pc \in LinePC \cup DishPC =>
        /\ run'[r].web = run[r].web /\ run'[r].day = run[r].day
        /\ run'[r].canteen = run[r].canteen
        /\ run[r].pc \in LinePC \cup DishPC \/ DissolveRelations(r)

LoopHeads == {"idle", "get_similar_canteen", "get_similar_line", "get_similar_meal"}

LEMMA HeadHasNoNewRows ==
    ASSUME NEW t, t.pc \in LoopHeads, NEW cs, NEW ls, NEW p
    PROVE  NewRows(t, cs, ls, p)
BY DEF NewRows, LoopHeads

LEMMA IdleHasNoNewRows == \A cs, ls, p : NewRows(Idle, cs, ls, p)
BY IdleShape, HeadHasNoNewRows DEF LoopHeads

LEMMA GoesOnAt ==
    ASSUME RunsHaveShape, NEW r \in Run, NEW t, Shape(t), Continue(r, t)
    PROVE  /\ OnlyRun(r) /\ run'[r].pc \in LoopHeads
           /\ run'[r].pc \in LinePC \cup DishPC =>
                /\ run'[r].web = t.web /\ run'[r].day = t.day /\ run'[r].canteen = t.canteen
                /\ t.dishesLeft # <<>> \/ t.linesLeft # <<>>
<1>1. PICK next \in Proceed(t) : run' = [run EXCEPT ![r] = next]
  BY DEF Continue
<1>2. CASE next = AtDish(t) /\ t.dishesLeft # <<>>
  <2>1. /\ Shape(next) /\ next.pc = "get_similar_meal"
        /\ next.web = t.web /\ next.day = t.day /\ next.canteen = t.canteen
    BY <1>2, FieldNames DEF Shape, AtDish
  <2> QED
    BY <1>1, <1>2, <2>1, OwnRecord DEF LoopHeads
<1>3. CASE next = AtLine(t, Head(t.linesLeft)) /\ t.linesLeft # <<>>
  <2> DEFINE l == Head(t.linesLeft)
  <2>0. next = AtLine(t, l)
    BY <1>3
  <2> HIDE DEF l
  <2>1. /\ Shape(next) /\ next.pc = "get_similar_line"
        /\ next.web = t.web /\ next.day = t.day /\ next.canteen = t.canteen
    BY <2>0, FieldNames DEF Shape, AtLine
  <2> QED
    BY <1>1, <1>3, <2>1, OwnRecord DEF LoopHeads
<1>4. CASE next = Idle \/ \E d, page : next = AtCanteen(t, d, page)
  <2>1. Shape(next) /\ next.pc \in {"idle", "get_similar_canteen"}
    BY <1>4, IdleShape, AtCanteenLooksUp
  <2>2. OnlyRun(r) /\ run'[r] = next
    BY <1>1, <2>1, OwnRecord
  <2> QED
    BY <2>1, <2>2 DEF LoopHeads, LinePC, DishPC
<1> QED
  BY <1>2, <1>3, <1>4 DEF Proceed

Steps(r) == /\ OnlyRun(r) /\ run[r].pc \in PC
            /\ StaysInside(r) /\ NewRows(run'[r], canteens', lines', plan')

LEMMA ContinueSteps ==
    ASSUME TypeInv, NEW r \in Run, run[r].pc \in PC, NEW t, Shape(t), Continue(r, t),
           t.web = run[r].web, t.day = run[r].day, t.canteen = run[r].canteen,
           \/ run[r].pc \in LinePC \cup DishPC \/ DissolveRelations(r)
           \/ t.dishesLeft = <<>> /\ t.linesLeft = <<>>
    PROVE  Steps(r)
<1>1. /\ OnlyRun(r) /\ run'[r].pc \in LoopHeads
      /\ run'[r].pc \in LinePC \cup DishPC =>
           /\ run'[r].web = t.web /\ run'[r].day = t.day /\ run'[r].canteen = t.canteen
           /\ t.dishesLeft # <<>> \/ t.linesLeft # <<>>
  BY RunsShaped, GoesOnAt
<1>2. NewRows(run'[r], canteens', lines', plan')
  BY <1>1, HeadHasNoNewRows
<1> QED
  BY <1>1, <1>2 DEF Steps, StaysInside

LEMMA CanteenStatementSteps ==
    ASSUME TypeInv, NEW r \in Run, GetSimilarCanteen(r) \/ InsertCanteen(r)
    PROVE  Steps(r)
<1>1. run[r].pc \in PC
  BY DEF GetSimilarCanteen, InsertCanteen, Running, PC, CanteenPC
<1>2. ASSUME NEW c, run' = [run EXCEPT ![r].pc = "dissolve_relations", ![r].canteen = c]
      PROVE  Steps(r)
  <2>1. OnlyRun(r) /\ run'[r].pc = "dissolve_relations"
    BY <1>2, RunsShaped, CanteenChosen
  <2> QED
    BY <1>1, <2>1 DEF Steps, StaysInside, NewRows, LinePC, DishPC
<1>3. ASSUME \A c \in CanteenId : canteens[c] # run[r].canteenName, Goto(r, "insert_canteen"),
             canteens' = canteens
      PROVE  Steps(r)
  <2>1. OnlyRun(r) /\ SameWork(run'[r], run[r]) /\ run'[r].pc = "insert_canteen"
    BY <1>3, RunsShaped, GotoSameWork
  <2>2. NewRows(run'[r], canteens', lines', plan')
    BY <1>3, <2>1 DEF NewRows, SameWork
  <2> QED
    BY <1>1, <2>1, <2>2 DEF Steps, StaysInside, LinePC, DishPC
<1> QED
  BY <1>2, <1>3 DEF GetSimilarCanteen, InsertCanteen, tables

LEMMA LineStatementSteps ==
    ASSUME TypeInv, NEW r \in Run, GetSimilarLine(r) \/ InsertLine(r)
    PROVE  Steps(r)
<1>1. run[r].pc \in PC /\ run[r].pc \in LinePC
  BY DEF GetSimilarLine, InsertLine, Running, PC, LinePC
<1>2. ASSUME NEW l, Continue(r, [run[r] EXCEPT !.line = l])
      PROVE  Steps(r)
  <2> DEFINE t == [run[r] EXCEPT !.line = l]
  <2>1. Shape(run[r])
    BY RunsShaped, OwnShape
  <2>2. Shape(t) /\ t.web = run[r].web /\ t.day = run[r].day /\ t.canteen = run[r].canteen
    BY <2>1, FieldNames DEF Shape
  <2>3. Continue(r, t)
    BY <1>2
  <2> HIDE DEF t
  <2> QED
    BY <1>1, <2>2, <2>3, ContinueSteps
<1>3. ASSUME \A l \in LineId : lines[l] # [canteen |-> run[r].canteen, name |-> run[r].lineName],
             Goto(r, "insert_line"), lines' = lines
      PROVE  Steps(r)
  <2>1. /\ OnlyRun(r) /\ SameWork(run'[r], run[r]) /\ run'[r].pc = "insert_line"
        /\ run'[r].canteen = run[r].canteen
    BY <1>3, RunsShaped, GotoSameWork
  <2>2. NewRows(run'[r], canteens', lines', plan')
    BY <1>3, <2>1 DEF NewRows, SameWork
  <2> QED
    BY <1>1, <2>1, <2>2 DEF Steps, StaysInside, SameWork
<1> QED
  BY <1>2, <1>3 DEF GetSimilarLine, InsertLine, UpdateLine, tables

\* Between two places of the body of the loop over dishes.
LEMMA DishBodySteps ==
    ASSUME NEW r \in Run, run[r].pc \in DishPC, OnlyRun(r), SameWork(run'[r], run[r]),
           run'[r].canteen = run[r].canteen, run'[r].pc \in DishPC,
           run'[r].pc = "insert_meal" => \A e \in plan' : e.food # run'[r].food
    PROVE  Steps(r)
<1>1. run[r].pc \in PC
  BY DEF PC
<1>2. NewRows(run'[r], canteens', lines', plan')
  BY DEF NewRows, DishPC
<1> QED
  BY <1>1, <1>2 DEF Steps, StaysInside, SameWork

LEMMA FoodTaken ==
    ASSUME RunsHaveShape, NEW r \in Run, NEW pc, NEW f, TakesFood(r, pc, f)
    PROVE  /\ OnlyRun(r) /\ SameWork(run'[r], run[r]) /\ run'[r].pc = pc
           /\ run'[r].food = f /\ run'[r].canteen = run[r].canteen
<1>1. run = [q \in Run |-> run[q]]
  BY DEF RunsHaveShape
<1>2. run' = [run EXCEPT ![r] = WithFood(run[r], pc, f)]
  BY <1>1, ZenonT(60) DEF TakesFood, WithFood
<1>3. Shape(run[r])
  BY OwnShape
<1>4. Shape(WithFood(run[r], pc, f))
  BY <1>3, FoodRecord
<1>5. OnlyRun(r) /\ run'[r] = WithFood(run[r], pc, f)
  BY <1>2, <1>4, OwnRecord
<1> QED
  BY <1>3, <1>5, FoodRecord

LEMMA DishStatementSteps ==
    ASSUME TypeInv, NEW r \in Run,
           \/ GetSimilarMeal(r) \/ GetSimilarSide(r) \/ UpdateFood(r) \/ UpdateFacts(r)
           \/ InsertFood(r) \/ InsertMeal(r) \/ InsertAllergens(r) \/ InsertFacts(r)
           \/ AddToPlan(r)
    PROVE  Steps(r)
<1>1. run[r].pc \in PC /\ run[r].pc \in DishPC
  BY DEF GetSimilarMeal, GetSimilarSide, UpdateFood, UpdateFacts, InsertFood, InsertMeal,
         InsertAllergens, InsertFacts, AddToPlan, Running, PC, DishPC
<1>2. ASSUME Continue(r, run[r]) PROVE Steps(r)
  BY <1>1, <1>2, RunsShaped, OwnShape, ContinueSteps
<1>3. ASSUME NEW pc \in DishPC, pc # "insert_meal", Goto(r, pc) PROVE Steps(r)
  <2>1. /\ OnlyRun(r) /\ SameWork(run'[r], run[r]) /\ run'[r].pc = pc
        /\ run'[r].canteen = run[r].canteen
    BY <1>3, RunsShaped, GotoSameWork
  <2> QED
    BY <1>1, <1>3, <2>1, DishBodySteps
<1>4. ASSUME NEW f \in FoodId, NEW pc \in DishPC, TakesFood(r, pc, f),
             pc = "insert_meal" => \A e \in plan' : e.food # f
      PROVE  Steps(r)
  <2>1. /\ OnlyRun(r) /\ SameWork(run'[r], run[r]) /\ run'[r].pc = pc
        /\ run'[r].food = f /\ run'[r].canteen = run[r].canteen
    BY <1>4, RunsShaped, FoodTaken
  <2> QED
    BY <1>1, <1>4, <2>1, DishBodySteps
<1>5. ASSUME InsertDish(r) PROVE Steps(r)
  <2>1. /\ OnlyRun(r) /\ SameWork(run'[r], run[r]) /\ run'[r].pc = "insert_food"
        /\ run'[r].canteen = run[r].canteen
    BY <1>5, RunsShaped, DishToInsert
  <2>2. run'[r].pc \in DishPC /\ run'[r].pc # "insert_meal"
    BY <2>1 DEF DishPC
  <2> QED
    BY <1>1, <2>1, <2>2, DishBodySteps
<1>6. CASE InsertFood(r)
  <2>1. PICK f \in FoodId :
          /\ foods[f] = None
          /\ run' = [run EXCEPT
                ![r].pc = IF run[r].meal THEN "insert_meal" ELSE "insert_allergens",
                ![r].food = f]
    BY <1>6 DEF InsertFood
  <2>2. \A e \in plan' : e.food # f
    BY <1>6, <2>1 DEF InsertFood, TypeInv, TablesTyped
  <2> DEFINE pc == IF run[r].meal THEN "insert_meal" ELSE "insert_allergens"
  <2>3. pc \in DishPC /\ TakesFood(r, pc, f)
    BY <2>1 DEF DishPC, TakesFood
  <2> HIDE DEF pc
  <2> QED
    BY <1>4, <2>2, <2>3
<1>7. CASE GetSimilarMeal(r) \/ GetSimilarSide(r)
  <2>1. \/ \E f \in FoodId : UpdateDish(r, f)
        \/ Goto(r, "get_similar_side") \/ InsertDish(r)
    BY <1>7 DEF GetSimilarMeal, GetSimilarSide, BestMatches, TypeInv, TablesTyped
  <2>2. /\ {"update_food", "get_similar_side"} \subseteq DishPC
        /\ "update_food" # "insert_meal" /\ "get_similar_side" # "insert_meal"
    BY DEF DishPC
  <2>3. ASSUME NEW f \in FoodId, UpdateDish(r, f) PROVE Steps(r)
    BY <1>4, <2>2, <2>3 DEF UpdateDish, TakesFood
  <2> QED
    BY <1>3, <1>5, <2>1, <2>2, <2>3
<1>8. CASE UpdateFood(r) \/ UpdateFacts(r) \/ InsertMeal(r) \/ InsertAllergens(r)
  <2>1. \E pc \in {"update_facts", "insert_facts", "add_to_plan", "insert_allergens"} : Goto(r, pc)
    BY <1>8 DEF UpdateFood, UpdateFacts, InsertMeal, InsertAllergens, FactsOr
  <2> QED
    BY <1>3, <2>1 DEF DishPC
<1>9. CASE InsertFacts(r) \/ AddToPlan(r)
  <2>1. Goto(r, "add_to_plan") \/ Continue(r, run[r])
    BY <1>9 DEF InsertFacts, AddToPlan
  <2> QED
    BY <1>2, <1>3, <2>1 DEF DishPC
<1> QED
  BY <1>6, <1>7, <1>8, <1>9

LEMMA FailSteps ==
    ASSUME TypeInv, NEW r \in Run, Fail(r)
    PROVE  Steps(r)
<1>1. run[r].pc \in PC
  BY NotIdle DEF Fail
<1>2. Shape(run[r])
  BY RunsShaped, OwnShape
<1>3. CASE run[r].pc \in CanteenPC
  <2> DEFINE t == [run[r] EXCEPT !.linesLeft = <<>>, !.dishesLeft = <<>>]
  <2>1. Continue(r, t)
    BY <1>3, PlacesApart DEF Fail
  <2>2. /\ Shape(t) /\ t.web = run[r].web /\ t.day = run[r].day /\ t.canteen = run[r].canteen
        /\ t.dishesLeft = <<>> /\ t.linesLeft = <<>>
    BY <1>2, FieldNames DEF Shape
  <2> HIDE DEF t
  <2> QED
    BY <1>1, <2>1, <2>2, ContinueSteps
<1>4. CASE run[r].pc \in LinePC
  <2> DEFINE t == [run[r] EXCEPT !.dishesLeft = <<>>]
  <2>1. Continue(r, t)
    BY <1>4, PlacesApart DEF Fail
  <2>2. Shape(t) /\ t.web = run[r].web /\ t.day = run[r].day /\ t.canteen = run[r].canteen
    BY <1>2, FieldNames DEF Shape
  <2> HIDE DEF t
  <2> QED
    BY <1>1, <1>4, <2>1, <2>2, ContinueSteps
<1>5. CASE run[r].pc \in DishPC
  <2>1. Continue(r, run[r])
    BY <1>5, PlacesApart DEF Fail
  <2> QED
    BY <1>1, <1>2, <1>5, <2>1, ContinueSteps
<1> QED
  BY <1>1, <1>3, <1>4, <1>5 DEF PC

LEMMA RunSteps ==
    ASSUME TypeInv, NEW r \in Run, Step(r) \/ Fail(r)
    PROVE  Steps(r)
<1>1. CASE DissolveRelations(r)
  <2>1. run[r].pc \in PC /\ Continue(r, run[r])
    BY <1>1 DEF DissolveRelations, Running, PC, CanteenPC
  <2>2. Shape(run[r])
    BY RunsShaped, OwnShape
  <2> QED
    BY <1>1, <2>1, <2>2, ContinueSteps
<1> QED
  BY <1>1, CanteenStatementSteps, LineStatementSteps, DishStatementSteps, FailSteps DEF Step

LEMMA StartSteps ==
    ASSUME TypeInv, NEW r \in Run, StartUpdateParsing(r) \/ StartFullParsing(r)
    PROVE  /\ OnlyRun(r) /\ run[r] = Idle /\ run'[r].pc \in LoopHeads
           /\ run'[r].pc \notin LinePC \cup DishPC /\ UNCHANGED tables
           /\ calm' => \A q \in Run : run[q] = Idle
<1>1. PICK days, web : Start(r, days, web)
  BY DEF StartUpdateParsing, StartFullParsing
<1> DEFINE begun == {d \in days : web[d] # <<>>}
           t == [Idle EXCEPT !.web = web, !.days = begun]
<1>2. /\ run[r] = Idle /\ Continue(r, t) /\ UNCHANGED tables
      /\ calm' => \A q \in Run : run[q] = Idle
  BY <1>1 DEF Start
<1> HIDE DEF begun
<1>3. Shape(t) /\ t.linesLeft = <<>> /\ t.dishesLeft = <<>>
  BY FieldNames, IdleShape DEF Shape, Idle
<1> HIDE DEF t
<1> QED
  BY <1>2, <1>3, RunsShaped, GoesOnAt

\* No statement changes a row of a canteen or of a line.
LEMMA RowsNeverChange ==
    ASSUME TypeInv, [Next]_vars
    PROVE  RowsSame
<1>1. \/ UNCHANGED canteens
      \/ \E c \in CanteenId : \E n : canteens[c] = None /\ canteens' = [canteens EXCEPT ![c] = n]
  BY DEF Next, vars, tables, Stop, StartUpdateParsing, StartFullParsing, Start, Step, Fail,
         GetSimilarCanteen, InsertCanteen, DissolveRelations, GetSimilarLine, InsertLine,
         GetSimilarMeal, GetSimilarSide, UpdateFood, UpdateFacts, InsertFood, InsertMeal,
         InsertAllergens, InsertFacts, AddToPlan
<1>2. \/ UNCHANGED lines
      \/ \E l \in LineId : \E n : lines[l] = None /\ lines' = [lines EXCEPT ![l] = n]
  BY DEF Next, vars, tables, Stop, StartUpdateParsing, StartFullParsing, Start, Step, Fail,
         GetSimilarCanteen, InsertCanteen, DissolveRelations, GetSimilarLine, InsertLine,
         GetSimilarMeal, GetSimilarSide, UpdateFood, UpdateFacts, InsertFood, InsertMeal,
         InsertAllergens, InsertFacts, AddToPlan
<1>3. DOMAIN canteens = CanteenId /\ DOMAIN lines = LineId
  BY DEF TypeInv, TablesTyped
<1>4. \A c \in CanteenId : canteens[c] # None => canteens'[c] = canteens[c]
  BY <1>1, <1>3
<1>5. \A l \in LineId : lines[l] # None => lines'[l] = lines[l]
  BY <1>2, <1>3
<1> QED
  BY <1>4, <1>5 DEF RowsSame

LEMMA CanteensChange ==
    ASSUME TypeInv, NEW r \in Run, Step(r) \/ Fail(r)
    PROVE  \/ UNCHANGED canteens
           \/ /\ run[r].pc = "insert_canteen"
              /\ \E c \in CanteenId : canteens' = [canteens EXCEPT ![c] = run[r].canteenName]
BY DEF tables, Step, Fail, GetSimilarCanteen, InsertCanteen, DissolveRelations, GetSimilarLine,
       InsertLine, GetSimilarMeal, GetSimilarSide, UpdateFood, UpdateFacts, InsertFood,
       InsertMeal, InsertAllergens, InsertFacts, AddToPlan, Running

LEMMA LinesChange ==
    ASSUME TypeInv, NEW r \in Run, Step(r) \/ Fail(r)
    PROVE  \/ UNCHANGED lines
           \/ /\ run[r].pc = "insert_line"
              /\ \E l \in LineId : lines' =
                   [lines EXCEPT ![l] = [canteen |-> run[r].canteen, name |-> run[r].lineName]]
BY DEF tables, Step, Fail, GetSimilarCanteen, InsertCanteen, DissolveRelations, GetSimilarLine,
       InsertLine, GetSimilarMeal, GetSimilarSide, UpdateFood, UpdateFacts, InsertFood,
       InsertMeal, InsertAllergens, InsertFacts, AddToPlan, Running

\* A step of the only run at work
LEMMA RunStaysAlone ==
    ASSUME TypeInv, RowsOnce, NEW r \in Run, Step(r) \/ Fail(r)
    PROVE  RowsOnce'
<1>1. Steps(r)
  BY RunSteps
<1>2. \A q \in Run \ {r} : run[q] = Idle /\ run'[q] = Idle
  BY <1>1, NotIdle DEF Steps, OnlyRun, RowsOnce, OneRun
<1>3. OneRun'
  BY <1>2 DEF OneRun
<1>4. \A q \in Run : NewRows(run'[q], canteens', lines', plan')
  BY <1>1, <1>2, IdleHasNoNewRows DEF Steps
<1>5. UniqueCanteens'
  <2>1. ASSUME NEW c \in CanteenId, run[r].pc = "insert_canteen",
               canteens' = [canteens EXCEPT ![c] = run[r].canteenName]
        PROVE  UniqueCanteens'
    <3>1. DOMAIN canteens = CanteenId
      BY DEF TypeInv, TablesTyped
    <3>2. \A b \in CanteenId : canteens[b] # run[r].canteenName
      BY <2>1 DEF RowsOnce, NewRows
    <3> QED
      BY <2>1, <3>1, <3>2 DEF RowsOnce, UniqueCanteens
  <2> QED
    BY <2>1, CanteensChange DEF RowsOnce, UniqueCanteens
<1>6. UniqueLines'
  <2> DEFINE row == [canteen |-> run[r].canteen, name |-> run[r].lineName]
  <2>1. ASSUME NEW l \in LineId, run[r].pc = "insert_line", lines' = [lines EXCEPT ![l] = row]
        PROVE  UniqueLines'
    <3>1. DOMAIN lines = LineId
      BY DEF TypeInv, TablesTyped
    <3>2. \A k \in LineId : lines[k] # row
      BY <2>1 DEF RowsOnce, NewRows
    <3> HIDE DEF row
    <3> QED
      BY <2>1, <3>1, <3>2 DEF RowsOnce, UniqueLines
  <2> QED
    BY <2>1, LinesChange DEF RowsOnce, UniqueLines
<1> QED
  BY <1>3, <1>4, <1>5, <1>6 DEF RowsOnce

LEMMA UpdateKeepsAlone ==
    ASSUME TypeInv, AloneInv, Update
    PROVE  AloneInv'
<1>1. /\ Next /\ (solo' => solo)
      /\ solo /\ OneRun' => solo'
      /\ solo' => OneRun'
  BY DEF Update, OneRun
<1>2. ASSUME NEW r \in Run, StartUpdateParsing(r) \/ StartFullParsing(r)
      PROVE  AloneInv'
  <2>1. /\ OnlyRun(r) /\ run'[r].pc \in LoopHeads /\ UNCHANGED tables
        /\ calm' => \A q \in Run : run[q] = Idle
    BY <1>2, StartSteps
  <2>2. UNCHANGED <<canteens, lines, plan>>
    BY <2>1 DEF tables
  <2>3. ASSUME solo' PROVE RowsOnce'
    <3>1. \A q \in Run : NewRows(run'[q], canteens', lines', plan')
      BY <1>1, <2>1, <2>2, <2>3, HeadHasNoNewRows DEF OnlyRun, AloneInv, RowsOnce
    <3> QED
      BY <1>1, <2>2, <2>3, <3>1 DEF AloneInv, RowsOnce, UniqueCanteens, UniqueLines
  <2>4. ASSUME calm' PROVE solo'
    <3>1. calm
      BY <1>2, <2>4 DEF StartUpdateParsing, StartFullParsing, Start
    <3>2. OneRun'
      BY <2>1, <2>4 DEF OnlyRun, OneRun
    <3> QED
      BY <1>1, <3>1, <3>2 DEF AloneInv
  <2> QED
    BY <2>3, <2>4 DEF AloneInv
<1>3. ASSUME NEW r \in Run, Step(r) \/ Fail(r)
      PROVE  AloneInv'
  <2>1. ASSUME solo PROVE RowsOnce'
    BY <1>3, <2>1, RunStaysAlone DEF AloneInv
  <2>2. calm' => calm
    BY <1>3 DEF history, Step, Fail, GetSimilarCanteen, InsertCanteen, DissolveRelations,
         GetSimilarLine, InsertLine, GetSimilarMeal, GetSimilarSide, UpdateFood, UpdateFacts,
         InsertFood, InsertMeal, InsertAllergens, InsertFacts, AddToPlan
  <2> QED
    BY <1>1, <2>1, <2>2 DEF AloneInv, RowsOnce
<1>4. CASE Stop
  <2>1. \A r \in Run : run'[r] = Idle
    BY <1>4 DEF Stop
  <2>2. OneRun' /\ \A r \in Run : NewRows(run'[r], canteens', lines', plan')
    BY <2>1, IdleHasNoNewRows DEF OneRun
  <2>3. UNCHANGED <<canteens, lines, plan>> /\ (calm' => calm)
    BY <1>4 DEF Stop, tables
  <2>4. solo => RowsOnce'
    BY <2>2, <2>3 DEF AloneInv, RowsOnce, UniqueCanteens, UniqueLines
  <2> QED
    BY <1>1, <2>2, <2>3, <2>4 DEF AloneInv
<1> QED
  BY <1>1, <1>2, <1>3, <1>4 DEF Next

-----------------------------------------------------------------------------
(* The plan of a line comes from one page                                  *)

PlansOfOnePage ==
    \A e \in plan : \E page \in Pages :
        \A x \in plan : x.day = e.day /\ x.line = e.line => x.dish \in LineMenu(page, x.line)

\* What stands under the canteen r is at comes from the page r has read.
ClearFor(r) ==
    run[r].pc \in LinePC \cup DishPC =>
        \A e \in plan : e.day = run[r].day /\ lines[e.line].canteen = run[r].canteen =>
            e.dish \in LineMenu(run[r].web[run[r].day], e.line)

OnePageInv == solo => PlansOfOnePage /\ \A r \in Run : ClearFor(r)

LEMMA LineMenuSame ==
    ASSUME TypeInv, RowsSame, NEW l \in LineId, lines[l] # None, NEW page
    PROVE  LineMenu(page, l)' = LineMenu(page, l)
<1>1. lines'[l] = lines[l] /\ canteens[lines[l].canteen] # None /\ lines[l].canteen \in CanteenId
  BY DEF RowsSame, TypeInv, TablesTyped
<1>2. canteens'[lines'[l].canteen] = canteens[lines[l].canteen]
  BY <1>1 DEF RowsSame
<1> QED
  BY <1>1, <1>2 DEF LineMenu

LEMMA EntryMenuSame ==
    ASSUME TypeInv, RowsSame, NEW e \in plan
    PROVE  /\ \A page : LineMenu(page, e.line)' = LineMenu(page, e.line)
           /\ lines'[e.line] = lines[e.line]
BY EntryTyped, LineMenuSame DEF RowsSame

LEMMA EntryOfPage ==
    ASSUME TypeInv, MenuInv, NEW r \in Run, run[r].pc \in DishPC
    PROVE  /\ run[r].web[run[r].day] \in Pages
           /\ run[r].dish \in LineMenu(run[r].web[run[r].day], run[r].line)
           /\ lines[run[r].line].canteen = run[r].canteen
           /\ run[r].line \in LineId /\ lines[run[r].line] # None
<1> DEFINE t == run[r]
           page == t.web[t.day]
           m == [canteen |-> t.canteenName, line |-> t.lineName, dish |-> t.dish]
<1>1. t.pc \in PC
  BY DEF PC
<1>2. /\ Busy(t) /\ Rows(t, CanteenRows, LineRows, FoodRows)
      /\ OnPage(t) /\ KnowsRows(t, canteens, lines)
  BY <1>1, BusyAt, NotIdle DEF MenuInv, NamesInv, RunsOnPage
<1>3. page \in Pages
  BY <1>2 DEF Busy, WorkLeft
<1>4. m \in Menu(page)
  BY <1>2 DEF OnPage, InHand
<1>5. /\ lines[t.line] = [canteen |-> t.canteen, name |-> t.lineName]
      /\ canteens[t.canteen] = t.canteenName
  BY <1>2 DEF KnowsRows
<1>6. t.line \in LineId /\ lines[t.line] # None
  BY <1>2 DEF Rows, LineRows
<1>7. m.line = lines[t.line].name /\ m.canteen = canteens[lines[t.line].canteen] /\ m.dish = t.dish
  BY <1>5
<1> HIDE DEF m, page
<1>8. t.dish \in LineMenu(page, t.line)
  BY <1>4, <1>7 DEF LineMenu
<1> QED
  BY <1>3, <1>5, <1>6, <1>8 DEF page

\* A step that puts nothing new on the plan.
LEMMA FewerOnPage ==
    ASSUME TypeInv, PlansOfOnePage, RowsSame, plan' \subseteq plan
    PROVE  PlansOfOnePage'
<1> SUFFICES ASSUME NEW e \in plan'
             PROVE  \E page \in Pages : \A x \in plan' :
                        x.day = e.day /\ x.line = e.line => x.dish \in LineMenu(page, x.line)'
  BY DEF PlansOfOnePage
<1>1. PICK page \in Pages :
        \A x \in plan : x.day = e.day /\ x.line = e.line => x.dish \in LineMenu(page, x.line)
  BY DEF PlansOfOnePage
<1>2. \A x \in plan : LineMenu(page, x.line)' = LineMenu(page, x.line)
  BY EntryMenuSame
<1> QED
  BY <1>1, <1>2

\* A step of r that puts nothing new on the plan, and after which r has not yet begun
\* another canteen.
LEMMA StaysClear ==
    ASSUME TypeInv, NEW r \in Run, ClearFor(r), RowsSame, plan' \subseteq plan,
           run'[r].pc \in LinePC \cup DishPC, run[r].pc \in LinePC \cup DishPC,
           run'[r].web = run[r].web, run'[r].day = run[r].day, run'[r].canteen = run[r].canteen
    PROVE  ClearFor(r)'
<1> DEFINE page == run[r].web[run[r].day]
<1>1. \A e \in plan : /\ LineMenu(page, e.line)' = LineMenu(page, e.line)
                      /\ lines'[e.line] = lines[e.line]
  BY EntryMenuSame
<1>2. \A e \in plan : e.day = run[r].day /\ lines[e.line].canteen = run[r].canteen =>
                          e.dish \in LineMenu(page, e.line)
  BY DEF ClearFor
<1>3. run'[r].web[run'[r].day] = page
  OBVIOUS
<1>4. \A e \in plan' : e.day = run'[r].day /\ lines'[e.line].canteen = run'[r].canteen =>
                           e.dish \in LineMenu(run[r].web[run[r].day], e.line)'
  BY <1>1, <1>2
<1> QED
  BY <1>3, <1>4 DEF ClearFor

LEMMA AddToPlanOnPage ==
    ASSUME TypeInv, MenuInv, PlansOfOnePage, NEW r \in Run, ClearFor(r), AddToPlan(r), Steps(r)
    PROVE  PlansOfOnePage' /\ ClearFor(r)'
<1> DEFINE t == run[r]
           page == t.web[t.day]
<1>1. t.pc \in DishPC /\ plan' \subseteq plan \cup {Entry(r)} /\ UNCHANGED <<canteens, lines>>
  BY DEF AddToPlan, Running, DishPC
<1>2. /\ page \in Pages /\ t.dish \in LineMenu(page, t.line)
      /\ lines[t.line].canteen = t.canteen
  BY <1>1, EntryOfPage
<1>3. \A p, l : LineMenu(p, l)' = LineMenu(p, l)
  BY <1>1 DEF LineMenu
<1>4. \A e \in plan : e.day = t.day /\ lines[e.line].canteen = t.canteen =>
                          e.dish \in LineMenu(page, e.line)
  BY <1>1 DEF ClearFor
<1>5. \A e \in plan' : \/ e \in plan
                       \/ e.day = t.day /\ e.line = t.line /\ e.dish = t.dish
  BY <1>1 DEF Entry
<1> HIDE DEF t, page
<1>6. \A e \in plan' : e.day = t.day /\ lines[e.line].canteen = t.canteen =>
                           e.dish \in LineMenu(page, e.line)
  BY <1>2, <1>4, <1>5
<1>7. PlansOfOnePage'
  <2> SUFFICES ASSUME NEW e \in plan'
               PROVE  \E p \in Pages : \A x \in plan' :
                          x.day = e.day /\ x.line = e.line => x.dish \in LineMenu(p, x.line)
    BY <1>3 DEF PlansOfOnePage
  <2>1. CASE e.day = t.day /\ e.line = t.line
    BY <1>2, <1>6, <2>1
  <2>2. CASE ~(e.day = t.day /\ e.line = t.line)
    <3>1. e \in plan
      BY <1>5, <2>2
    <3>2. PICK p \in Pages :
            \A x \in plan : x.day = e.day /\ x.line = e.line => x.dish \in LineMenu(p, x.line)
      BY <3>1 DEF PlansOfOnePage
    <3>3. \A x \in plan' : x.day = e.day /\ x.line = e.line => x \in plan
      BY <1>5, <2>2
    <3> QED
      BY <3>2, <3>3
  <2> QED
    BY <2>1, <2>2
<1>8. ASSUME run'[r].pc \in LinePC \cup DishPC
      PROVE  run'[r].web[run'[r].day] = page /\ run'[r].day = t.day /\ run'[r].canteen = t.canteen
  BY <1>8 DEF Steps, StaysInside, page, t
<1>9. ClearFor(r)'
  BY <1>1, <1>3, <1>6, <1>8 DEF ClearFor
<1> QED
  BY <1>7, <1>9

LEMMA PlanChanges ==
    ASSUME NEW r \in Run, Step(r) \/ Fail(r)
    PROVE  AddToPlan(r) \/ plan' \subseteq plan
BY DEF tables, Step, Fail, GetSimilarCanteen, InsertCanteen, DissolveRelations, GetSimilarLine,
       InsertLine, GetSimilarMeal, GetSimilarSide, UpdateFood, UpdateFacts, InsertFood,
       InsertMeal, InsertAllergens, InsertFacts

LEMMA DissolveClears ==
    ASSUME NEW r \in Run, DissolveRelations(r), Steps(r)
    PROVE  ClearFor(r)'
<1>1. /\ plan' = {e \in plan : e.day # run[r].day \/ lines[e.line].canteen # run[r].canteen}
      /\ lines' = lines
  BY DEF DissolveRelations
<1>2. run'[r].pc \in LinePC \cup DishPC =>
        run'[r].day = run[r].day /\ run'[r].canteen = run[r].canteen
  BY DEF Steps, StaysInside
<1> QED
  BY <1>1, <1>2 DEF ClearFor

LEMMA UpdateKeepsOnePage ==
    ASSUME TypeInv, MenuInv, AloneInv, OnePageInv, Update
    PROVE  OnePageInv'
<1>1. Next /\ (solo' => solo)
  BY DEF Update
<1>2. RowsSame
  BY <1>1, RowsNeverChange
<1> SUFFICES ASSUME solo'
             PROVE  PlansOfOnePage' /\ \A r \in Run : ClearFor(r)'
  BY DEF OnePageInv
<1>3. solo /\ RowsOnce /\ PlansOfOnePage /\ \A r \in Run : ClearFor(r)
  BY <1>1 DEF AloneInv, OnePageInv
<1>4. ASSUME NEW q \in Run, run'[q] = Idle PROVE ClearFor(q)'
  BY <1>4, IdleShape DEF ClearFor, LinePC, DishPC
<1>5. ASSUME NEW r \in Run, StartUpdateParsing(r) \/ StartFullParsing(r)
      PROVE  PlansOfOnePage' /\ \A q \in Run : ClearFor(q)'
  <2>1. /\ OnlyRun(r) /\ run'[r].pc \notin LinePC \cup DishPC /\ UNCHANGED tables
    BY <1>5, StartSteps
  <2>2. UNCHANGED <<canteens, lines, plan>>
    BY <2>1 DEF tables
  <2>3. PlansOfOnePage'
    BY <1>2, <1>3, <2>2, FewerOnPage
  <2>4. ASSUME NEW q \in Run, q # r PROVE ClearFor(q)'
    BY <1>3, <2>1, <2>2, <2>4 DEF ClearFor, LineMenu, OnlyRun
  <2>5. ClearFor(r)'
    BY <2>1 DEF ClearFor
  <2> QED
    BY <2>3, <2>4, <2>5
<1>6. ASSUME NEW r \in Run, Step(r) \/ Fail(r)
      PROVE  PlansOfOnePage' /\ \A q \in Run : ClearFor(q)'
  <2>1. Steps(r)
    BY <1>6, RunSteps
  <2>2. ASSUME NEW q \in Run, q # r PROVE ClearFor(q)'
    <3>1. run'[q] = Idle
      BY <1>3, <2>1, <2>2, NotIdle DEF Steps, OnlyRun, RowsOnce, OneRun
    <3> QED
      BY <1>4, <3>1
  <2>3. CASE AddToPlan(r)
    BY <1>3, <2>1, <2>2, <2>3, AddToPlanOnPage
  <2>4. CASE plan' \subseteq plan
    <3>1. PlansOfOnePage'
      BY <1>2, <1>3, <2>4, FewerOnPage
    <3>2. ClearFor(r)'
      <4>1. CASE run'[r].pc \notin LinePC \cup DishPC
        BY <4>1 DEF ClearFor
      <4>2. CASE DissolveRelations(r)
        BY <2>1, <4>2, DissolveClears
      <4>3. CASE run'[r].pc \in LinePC \cup DishPC /\ ~DissolveRelations(r)
        <5>1. /\ run'[r].web = run[r].web /\ run'[r].day = run[r].day
              /\ run'[r].canteen = run[r].canteen
              /\ run[r].pc \in LinePC \cup DishPC
          BY <2>1, <4>3 DEF Steps, StaysInside
        <5> QED
          BY <1>2, <1>3, <2>4, <4>3, <5>1, StaysClear
      <4> QED
        BY <4>1, <4>2, <4>3
    <3> QED
      BY <2>2, <3>1, <3>2
  <2> QED
    BY <1>6, <2>3, <2>4, PlanChanges
<1>7. CASE Stop
  <2>1. \A q \in Run : run'[q] = Idle
    BY <1>7 DEF Stop
  <2>2. plan' = plan
    BY <1>7 DEF Stop, tables
  <2> QED
    BY <1>2, <1>3, <1>4, <2>1, <2>2, FewerOnPage
<1> QED
  BY <1>1, <1>5, <1>6, <1>7 DEF Next

-----------------------------------------------------------------------------
(* What a query knows of its question                                      *)

\* No line is looked at twice: not while its canteen is still to be looked at, nor again
\* once its meals are read.
LinesOnce ==
    /\ \A l \in query.lines : lines[l].canteen \notin query.canteens
    /\ \A l \in query.sideless \cup {s.line : s \in query.shown} :
          l \notin query.lines /\ lines[l].canteen \notin query.canteens

AnsweredInFull ==
    query.pc = "answered" =>
        /\ query.canteens = {} /\ query.lines = {} /\ query.sideless = {}
        /\ \A s \in query.shown : Resolved(s)

\* Lines are those of canteens that were asked for, if any were.
Open(l) ==
    /\ l \in LineId /\ lines[l] # None
    /\ query.asked = {} \/ lines[l].canteen \in query.asked

LinesAsked ==
    /\ query.canteens \subseteq query.asked
    /\ \A l \in query.lines : Open(l) /\ query.asked # {}
    /\ \A l \in query.sideless : Open(l)
    /\ \A s \in query.shown : Open(s.line)

ShownNamesFood == \A s \in query.shown : Alike(s.dish.name, s.name)

QuietDays == query.quiet => query.day \in Day /\ Quiet(run, query.day)

QuestionInv == LinesOnce /\ AnsweredInFull /\ LinesAsked /\ ShownNamesFood /\ QuietDays

\* A step within a query
SameQuestion ==
    /\ query'.day = query.day /\ query'.wants = query.wants
    /\ query'.asked = query.asked /\ query'.quiet = query.quiet

LEMMA AskFields ==
    ASSUME NEW cs, NEW d, Ask(cs, d)
    PROVE  /\ query'.pc = "reading" /\ query'.day = d
           /\ query'.asked = cs /\ query'.canteens = cs
           /\ query'.lines = {} /\ query'.sideless = {} /\ query'.shown = {}
           /\ query'.quiet => Quiet(run, d)
<1> DEFINE b == Quiet(run, d)
<1>1. PICK wants \in Selections :
        query' = [NoQuery EXCEPT !.pc = "reading", !.day = d, !.wants = wants, !.quiet = b,
                                 !.asked = cs, !.canteens = cs]
  BY DEF Ask
<1>2. /\ query'.pc = "reading" /\ query'.day = d
      /\ query'.asked = cs /\ query'.canteens = cs
      /\ query'.lines = {} /\ query'.sideless = {} /\ query'.shown = {}
      /\ query'.quiet = b
  <2> HIDE DEF b
  <2> QED
    BY <1>1 DEF NoQuery
<1> QED
  BY <1>2

LEMMA GetMealFields ==
    ASSUME NEW f, NEW l, NEW d, GetMeal(f, l, d)
    PROVE  LET found == MealDataLoader(f, l, d) IN
           /\ query'.pc = "reading" /\ query'.day = d
           /\ query'.asked = {} /\ query'.canteens = {} /\ query'.lines = {}
           /\ query'.sideless = {e.line : e \in found}
           /\ query'.shown = {ShowMeal(e) : e \in found}
           /\ query'.quiet => Quiet(run, d)
<1> DEFINE b == Quiet(run, d)
           found == MealDataLoader(f, l, d)
           new == {ShowMeal(e) : e \in found}
           ls == {e.line : e \in found}
<1>1. PICK wants \in Selections :
        query' = [NoQuery EXCEPT !.pc = "reading", !.day = d, !.wants = wants, !.quiet = b,
                                 !.shown = new, !.sideless = ls]
  BY DEF GetMeal
<1>2. /\ query'.pc = "reading" /\ query'.day = d
      /\ query'.asked = {} /\ query'.canteens = {} /\ query'.lines = {}
      /\ query'.sideless = ls /\ query'.shown = new
      /\ query'.quiet = b
  <2> HIDE DEF b, new, ls
  <2> QED
    BY <1>1 DEF NoQuery
<1> QED
  BY <1>2

\* The lines of some canteens
LEMMA LinesFields ==
    ASSUME QueryHasShape, Lines
    PROVE  /\ SameQuestion /\ query.pc = "reading" /\ query'.pc = "reading"
           /\ query'.shown = query.shown /\ query'.sideless = query.sideless
           /\ \E part \in Batch(query.canteens) :
                 /\ query'.canteens = query.canteens \ part
                 /\ query'.lines = query.lines \cup CanteenLinesLoader(part)
<1>1. query.pc = "reading"
  BY DEF Lines
<1>2. PICK part \in Batch(query.canteens) :
        query' = [query EXCEPT !.canteens = @ \ part,
                               !.lines = @ \cup CanteenLinesLoader(part)]
  BY DEF Lines
<1> DEFINE ls == CanteenLinesLoader(part)
<1>3. query' = [query EXCEPT !.canteens = @ \ part, !.lines = @ \cup ls]
  BY <1>2
<1> HIDE DEF ls
<1>4. /\ SameQuestion /\ query'.pc = query.pc
      /\ query'.shown = query.shown /\ query'.sideless = query.sideless
      /\ query'.canteens = query.canteens \ part
      /\ query'.lines = query.lines \cup ls
  BY <1>3, QueryFieldNames DEF QueryHasShape, SameQuestion
<1> QED
  BY <1>1, <1>4 DEF ls

LEMMA MealsFields ==
    ASSUME QueryHasShape, Meals
    PROVE  /\ SameQuestion /\ query.pc = "reading" /\ query'.pc = "reading"
           /\ query'.canteens = query.canteens
           /\ \E part \in Batch(query.lines) :
                 LET found == ManyMealsDataLoader(part, query.day) IN
                 /\ query'.lines = query.lines \ part
                 /\ query'.shown = query.shown \cup {ShowMeal(e) : e \in found}
                 /\ query'.sideless = query.sideless \cup {e.line : e \in found}
<1>1. query.pc = "reading"
  BY DEF Meals
<1>2. PICK part \in Batch(query.lines) :
        LET found == ManyMealsDataLoader(part, query.day) IN
        query' = [query EXCEPT !.lines = @ \ part,
                    !.shown = @ \cup {ShowMeal(e) : e \in found},
                    !.sideless = @ \cup {e.line : e \in found}]
  BY DEF Meals
<1> DEFINE found == ManyMealsDataLoader(part, query.day)
           new == {ShowMeal(e) : e \in found}
           ls == {e.line : e \in found}
<1>3. query' = [query EXCEPT !.lines = @ \ part, !.shown = @ \cup new, !.sideless = @ \cup ls]
  BY <1>2
<1> HIDE DEF new, ls
<1>4. /\ SameQuestion /\ query'.pc = query.pc /\ query'.canteens = query.canteens
      /\ query'.lines = query.lines \ part
      /\ query'.shown = query.shown \cup new
      /\ query'.sideless = query.sideless \cup ls
  BY <1>3, QueryFieldNames DEF QueryHasShape, SameQuestion
<1> QED
  BY <1>1, <1>4 DEF new, ls

LEMMA SidesFields ==
    ASSUME QueryHasShape, Sides
    PROVE  /\ SameQuestion /\ query.pc = "reading" /\ query'.pc = "reading"
           /\ query'.canteens = query.canteens /\ query'.lines = query.lines
           /\ \E part \in Batch(query.sideless) :
                 /\ query'.sideless = query.sideless \ part
                 /\ query'.shown = query.shown
                                     \cup {ShowSide(e) : e \in SidesLoader(part, query.day)}
<1>1. PICK part \in Batch(query.sideless) :
        query' = [query EXCEPT !.sideless = @ \ part,
          !.shown = @ \cup {ShowSide(e) : e \in SidesLoader(part, query.day)}]
  BY DEF Sides
<1> DEFINE new == {ShowSide(e) : e \in SidesLoader(part, query.day)}
<1>2. query' = [query EXCEPT !.sideless = @ \ part, !.shown = @ \cup new]
  BY <1>1
<1>3. query.pc = "reading"
  BY DEF Sides
<1> HIDE DEF new
<1>4. /\ SameQuestion /\ query'.pc = query.pc
      /\ query'.canteens = query.canteens /\ query'.lines = query.lines
      /\ query'.sideless = query.sideless \ part
      /\ query'.shown = query.shown \cup new
  BY <1>2, QueryFieldNames DEF QueryHasShape, SameQuestion
<1> QED
  BY <1>3, <1>4 DEF new

\* What becomes of a dish whose allergens or facts were perhaps read.
ReadOf(s, t) ==
    /\ t.kind = s.kind /\ t.line = s.line /\ t.food = s.food /\ t.dish = s.dish
    /\ t.name = s.name
    /\ t.allergens \in {s.allergens, allergens[s.food]}
    /\ t.facts \in {s.facts, facts[s.food]}

LEMMA ReadingFields ==
    ASSUME QueryHasShape, ShownHasShape, Allergens \/ Details
    PROVE  /\ SameQuestion /\ query.pc = "reading" /\ query'.pc = "reading"
           /\ query'.canteens = query.canteens /\ query'.lines = query.lines
           /\ query'.sideless = query.sideless
           /\ \A t \in query'.shown : \E s \in query.shown : ReadOf(s, t)
           /\ \A s \in query.shown : \E t \in query'.shown : ReadOf(s, t)
<1>1. query.pc = "reading"
  BY DEF Allergens, Details
<1>2. ASSUME NEW new, query' = [query EXCEPT !.shown = new]
      PROVE  /\ SameQuestion /\ query'.pc = query.pc
             /\ query'.canteens = query.canteens /\ query'.lines = query.lines
             /\ query'.sideless = query.sideless /\ query'.shown = new
  BY <1>2, QueryFieldNames DEF QueryHasShape, SameQuestion
<1>3. CASE Allergens
  <2>1. PICK part : query' = [query EXCEPT !.shown =
            {IF s \in part THEN [s EXCEPT !.allergens = AllergenLoader(part)[s.food]] ELSE s :
                s \in @}]
    BY <1>3 DEF Allergens
  <2> DEFINE Loaded(s) == IF s \in part THEN [s EXCEPT !.allergens = AllergenLoader(part)[s.food]] ELSE s
             new == {Loaded(s) : s \in query.shown}
  <2>2. \A s \in query.shown : ReadOf(s, Loaded(s))
    BY DEF ShownHasShape, AllergenLoader, ReadOf
  <2>3. query' = [query EXCEPT !.shown = new]
    BY <2>1
  <2>4. /\ \A t \in new : \E s \in query.shown : ReadOf(s, t)
        /\ \A s \in query.shown : \E t \in new : ReadOf(s, t)
    <3> HIDE DEF Loaded
    <3> QED
      BY <2>2
  <2> HIDE DEF new
  <2> QED
    BY <1>1, <1>2, <2>3, <2>4
<1>4. CASE Details
  <2>1. PICK part : query' = [query EXCEPT !.shown =
            {IF s \in part THEN [s EXCEPT !.facts = FactsLoader(part)[s.food]] ELSE s :
                s \in @}]
    BY <1>4 DEF Details
  <2> DEFINE Loaded(s) == IF s \in part THEN [s EXCEPT !.facts = FactsLoader(part)[s.food]] ELSE s
             new == {Loaded(s) : s \in query.shown}
  <2>2. \A s \in query.shown : ReadOf(s, Loaded(s))
    BY DEF ShownHasShape, FactsLoader, ReadOf
  <2>3. query' = [query EXCEPT !.shown = new]
    BY <2>1
  <2>4. /\ \A t \in new : \E s \in query.shown : ReadOf(s, t)
        /\ \A s \in query.shown : \E t \in new : ReadOf(s, t)
    <3> HIDE DEF Loaded
    <3> QED
      BY <2>2
  <2> HIDE DEF new
  <2> QED
    BY <1>1, <1>2, <2>3, <2>4
<1> QED
  BY <1>3, <1>4

LEMMA AnswerFields ==
    ASSUME QueryHasShape, Answer
    PROVE  /\ SameQuestion /\ query.pc = "reading" /\ query'.pc = "answered"
           /\ query'.canteens = query.canteens /\ query'.lines = query.lines
           /\ query'.sideless = query.sideless /\ query'.shown = query.shown
           /\ query.canteens = {} /\ query.lines = {} /\ query.sideless = {}
           /\ \A s \in query.shown : Resolved(s)
BY QueryFieldNames DEF QueryHasShape, SameQuestion, Answer

LEMMA UpdateFields ==
    ASSUME QueryHasShape, Update
    PROVE  /\ query'.pc = query.pc /\ query'.day = query.day /\ query'.wants = query.wants
           /\ query'.asked = query.asked
           /\ query'.canteens = query.canteens /\ query'.lines = query.lines
           /\ query'.sideless = query.sideless /\ query'.shown = query.shown
           /\ query'.quiet => query.quiet /\ Quiet(run', query.day)
<1> DEFINE b == query.quiet /\ Quiet(run', query.day)
<1>1. query' = [query EXCEPT !.quiet = b]
  BY DEF Update
<1>2. /\ query'.pc = query.pc /\ query'.day = query.day /\ query'.wants = query.wants
      /\ query'.asked = query.asked
      /\ query'.canteens = query.canteens /\ query'.lines = query.lines
      /\ query'.sideless = query.sideless /\ query'.shown = query.shown
      /\ query'.quiet = b
  <2> HIDE DEF b
  <2> QED
    BY <1>1, QueryFieldNames DEF QueryHasShape
<1> QED
  BY <1>2

LEMMA ShowFields ==
    ASSUME NEW kind, NEW e
    PROVE  LET s == Show(kind, e) IN
           /\ s.kind = kind /\ s.line = e.line /\ s.food = e.food /\ s.dish = e.dish
           /\ s.name = foods[e.food] /\ s.allergens = Unread /\ s.facts = Unread
BY DEF Show

\* Dishes of the plan, on lines that are open
LEMMA ShownFromMenu ==
    ASSUME TypeInv, MenuInv, NEW kind, NEW entries \in SUBSET plan
    PROVE  \A s \in {Show(kind, e) : e \in entries} :
               /\ Alike(s.dish.name, s.name) /\ s.line \in LineId /\ lines[s.line] # None
               /\ s.line \in {e.line : e \in entries} /\ s.kind = kind
               /\ s.allergens = Unread /\ s.facts = Unread
<1> SUFFICES ASSUME NEW e \in entries, NEW s, s = Show(kind, e)
             PROVE  /\ Alike(s.dish.name, s.name) /\ s.line \in LineId /\ lines[s.line] # None
                    /\ s.line = e.line /\ s.kind = kind
                    /\ s.allergens = Unread /\ s.facts = Unread
  OBVIOUS
<1>1. Alike(e.dish.name, foods[e.food]) /\ e.line \in LineId /\ lines[e.line] # None
  BY EntryTyped DEF MenuInv, NamesInv, PlanNamesFood
<1> QED
  BY <1>1, ShowFields

LEMMA NoQuestion ==
    ASSUME query = NoQuery
    PROVE  QuestionInv
BY DEF NoQuery, QuestionInv, LinesOnce, AnsweredInFull, LinesAsked, ShownNamesFood, QuietDays

LEMMA UpdateKeepsQuestion ==
    ASSUME TypeInv, QueryInv, QuestionInv, Update
    PROVE  QuestionInv'
<1>1. /\ query'.pc = query.pc /\ query'.day = query.day /\ query'.wants = query.wants
      /\ query'.asked = query.asked
      /\ query'.canteens = query.canteens /\ query'.lines = query.lines
      /\ query'.sideless = query.sideless /\ query'.shown = query.shown
      /\ query'.quiet => query.quiet /\ Quiet(run', query.day)
  BY UpdateFields DEF QueryInv
<1>2. RowsSame
  BY RowsNeverChange DEF Update
<1>3. \A l : Open(l) => Open(l)'
  BY <1>1, <1>2 DEF Open, RowsSame
<1>4. LinesAsked'
  BY <1>1, <1>3 DEF QuestionInv, LinesAsked
<1>5. AnsweredInFull' /\ ShownNamesFood'
  BY <1>1 DEF QuestionInv, AnsweredInFull, ShownNamesFood, Resolved
<1>6. \A l \in query.lines \cup query.sideless \cup {s.line : s \in query.shown} :
        lines'[l] = lines[l]
  BY <1>2 DEF QuestionInv, LinesAsked, Open, RowsSame
<1>7. LinesOnce'
  BY <1>1, <1>6 DEF QuestionInv, LinesOnce
<1>8. QuietDays'
  BY <1>1 DEF QuestionInv, QuietDays
<1> QED
  BY <1>4, <1>5, <1>7, <1>8 DEF QuestionInv

\* Only what is shown, and which lines are still to be looked at, may have changed.
LEMMA QuestionKept ==
    ASSUME QuestionInv, UNCHANGED vars, SameQuestion,
           LinesOnce', AnsweredInFull', LinesAsked', ShownNamesFood'
    PROVE  QuestionInv'
BY DEF QuestionInv, QuietDays, SameQuestion, vars, Quiet

LEMMA OpenSame ==
    ASSUME UNCHANGED vars, SameQuestion, NEW l
    PROVE  Open(l)' <=> Open(l)
BY DEF Open, SameQuestion, vars, tables

LEMMA StartsKeepQuestion ==
    ASSUME TypeInv, MenuInv, UNCHANGED vars,
           \/ EndOfQuery
           \/ \E d \in Day : \E cs : Ask(cs, d)
           \/ \E f \in FoodId, l \in LineId, d \in Day : GetMeal(f, l, d)
    PROVE  QuestionInv'
<1>0. UNCHANGED <<run, lines>>
  BY DEF vars, tables
<1>1. CASE EndOfQuery
  BY <1>1 DEF EndOfQuery, NoQuery, QuestionInv, LinesOnce, AnsweredInFull, LinesAsked,
              ShownNamesFood, QuietDays
<1>2. ASSUME NEW cs, NEW d \in Day, Ask(cs, d) PROVE QuestionInv'
  <2>1. /\ query'.pc = "reading" /\ query'.day = d
        /\ query'.asked = cs /\ query'.canteens = cs
        /\ query'.lines = {} /\ query'.sideless = {} /\ query'.shown = {}
        /\ query'.quiet => Quiet(run, d)
    BY <1>2, AskFields
  <2>2. LinesOnce' /\ AnsweredInFull' /\ LinesAsked' /\ ShownNamesFood'
    BY <2>1 DEF LinesOnce, AnsweredInFull, LinesAsked, ShownNamesFood
  <2>3. QuietDays'
    BY <1>0, <2>1 DEF QuietDays, Quiet
  <2> QED
    BY <2>2, <2>3 DEF QuestionInv
<1>3. ASSUME NEW f \in FoodId, NEW l \in LineId, NEW d \in Day, GetMeal(f, l, d)
      PROVE  QuestionInv'
  <2> DEFINE found == MealDataLoader(f, l, d)
  <2>1. /\ query'.pc = "reading" /\ query'.day = d
        /\ query'.asked = {} /\ query'.canteens = {} /\ query'.lines = {}
        /\ query'.sideless = {e.line : e \in found}
        /\ query'.shown = {Show("meal", e) : e \in found}
        /\ query'.quiet => Quiet(run, d)
    BY <1>3, GetMealFields DEF ShowMeal
  <2>2. found \in SUBSET plan
    BY DEF MealDataLoader, MealEntries
  <2> HIDE DEF found
  <2> DEFINE new == {Show("meal", e) : e \in found}
  <2>3. \A s \in new : /\ Alike(s.dish.name, s.name)
                      /\ s.line \in LineId /\ lines[s.line] # None
    BY <2>2, ShownFromMenu
  <2>4. query'.shown = new
    BY <2>1
  <2> HIDE DEF new
  <2>5. \A s \in query'.shown : /\ Alike(s.dish.name, s.name)
                                /\ s.line \in LineId /\ lines[s.line] # None
    BY <2>3, <2>4
  <2>6. \A k \in query'.sideless : k \in LineId /\ lines[k] # None
    BY <2>1, <2>2, EntryTyped
  <2>7. LinesOnce' /\ AnsweredInFull' /\ LinesAsked' /\ ShownNamesFood'
    BY <1>0, <2>1, <2>5, <2>6 DEF LinesOnce, AnsweredInFull, LinesAsked, ShownNamesFood, Open
  <2>8. QuietDays'
    BY <1>0, <2>1 DEF QuietDays, Quiet
  <2> QED
    BY <2>7, <2>8 DEF QuestionInv
<1> QED
  BY <1>1, <1>2, <1>3

LEMMA LinesKeepQuestion ==
    ASSUME QueryInv, QuestionInv, UNCHANGED vars, Lines
    PROVE  QuestionInv'
<1>1. /\ SameQuestion /\ query'.pc = "reading"
      /\ query'.shown = query.shown /\ query'.sideless = query.sideless
  BY LinesFields DEF QueryInv
<1>2. PICK part \in Batch(query.canteens) :
        /\ query'.canteens = query.canteens \ part
        /\ query'.lines = query.lines \cup CanteenLinesLoader(part)
  BY LinesFields DEF QueryInv
<1>3. part \subseteq query.canteens
  BY DEF Batch
<1>4. \A l \in CanteenLinesLoader(part) : Open(l) /\ query.asked # {}
  BY <1>3 DEF CanteenLinesLoader, Open, QuestionInv, LinesAsked
<1>5. LinesAsked'
  BY <1>1, <1>2, <1>4, OpenSame DEF QuestionInv, LinesAsked, SameQuestion
<1>6. \A l \in CanteenLinesLoader(part) : lines[l].canteen \in part
  BY DEF CanteenLinesLoader
<1>7. UNCHANGED lines
  BY DEF vars, tables
<1>8. LinesOnce'
  BY <1>1, <1>2, <1>3, <1>6, <1>7 DEF QuestionInv, LinesOnce
<1>9. AnsweredInFull' /\ ShownNamesFood'
  BY <1>1 DEF QuestionInv, AnsweredInFull, ShownNamesFood
<1> QED
  BY <1>1, <1>5, <1>8, <1>9, QuestionKept

LEMMA MealsKeepQuestion ==
    ASSUME TypeInv, MenuInv, QueryInv, QuestionInv, UNCHANGED vars, Meals
    PROVE  QuestionInv'
<1>1. SameQuestion /\ query'.pc = "reading" /\ query'.canteens = query.canteens
  BY MealsFields DEF QueryInv
<1>2. PICK part \in Batch(query.lines) :
        LET found == ManyMealsDataLoader(part, query.day) IN
        /\ query'.lines = query.lines \ part
        /\ query'.shown = query.shown \cup {ShowMeal(e) : e \in found}
        /\ query'.sideless = query.sideless \cup {e.line : e \in found}
  BY MealsFields DEF QueryInv
<1> DEFINE found == ManyMealsDataLoader(part, query.day)
           new == {Show("meal", e) : e \in found}
           ls == {e.line : e \in found}
<1>3. found \in SUBSET plan /\ ls \subseteq part /\ part \subseteq query.lines
  BY DEF ManyMealsDataLoader, MealEntries, Batch
<1>4. query'.shown = query.shown \cup new /\ query'.sideless = query.sideless \cup ls
  BY <1>2 DEF ShowMeal
<1> HIDE DEF found
<1>5. \A s \in new : Alike(s.dish.name, s.name) /\ s.line \in ls
  BY <1>3, ShownFromMenu
<1> HIDE DEF new, ls
<1>6. UNCHANGED lines
  BY DEF vars, tables
<1>7. LinesOnce'
  BY <1>1, <1>2, <1>3, <1>4, <1>5, <1>6 DEF QuestionInv, LinesOnce
<1>8. \A l \in part : Open(l)
  BY <1>3 DEF QuestionInv, LinesAsked
<1>9. LinesAsked'
  BY <1>1, <1>2, <1>3, <1>4, <1>5, <1>8, OpenSame DEF QuestionInv, LinesAsked, SameQuestion
<1>10. AnsweredInFull' /\ ShownNamesFood'
  BY <1>1, <1>4, <1>5 DEF QuestionInv, AnsweredInFull, ShownNamesFood
<1> QED
  BY <1>1, <1>7, <1>9, <1>10, QuestionKept

LEMMA SidesKeepQuestion ==
    ASSUME TypeInv, MenuInv, QueryInv, QuestionInv, UNCHANGED vars, Sides
    PROVE  QuestionInv'
<1>1. /\ SameQuestion /\ query'.pc = "reading"
      /\ query'.canteens = query.canteens /\ query'.lines = query.lines
  BY SidesFields DEF QueryInv
<1>2. PICK part \in Batch(query.sideless) :
        /\ query'.sideless = query.sideless \ part
        /\ query'.shown = query.shown \cup {ShowSide(e) : e \in SidesLoader(part, query.day)}
  BY SidesFields DEF QueryInv
<1> DEFINE found == SidesLoader(part, query.day)
           new == {Show("side", e) : e \in found}
<1>3. found \in SUBSET plan /\ {e.line : e \in found} \subseteq part /\ part \subseteq query.sideless
  BY DEF SidesLoader, Batch
<1>4. query'.shown = query.shown \cup new
  BY <1>2 DEF ShowSide
<1> HIDE DEF found
<1>5. \A s \in new : Alike(s.dish.name, s.name) /\ s.line \in part
  BY <1>3, ShownFromMenu
<1> HIDE DEF new
<1>6. UNCHANGED lines
  BY DEF vars, tables
<1>7. LinesOnce'
  BY <1>1, <1>2, <1>3, <1>4, <1>5, <1>6 DEF QuestionInv, LinesOnce
<1>8. LinesAsked'
  BY <1>1, <1>2, <1>3, <1>4, <1>5, OpenSame DEF QuestionInv, LinesAsked, SameQuestion
<1>9. AnsweredInFull' /\ ShownNamesFood'
  BY <1>1, <1>4, <1>5 DEF QuestionInv, AnsweredInFull, ShownNamesFood
<1> QED
  BY <1>1, <1>7, <1>8, <1>9, QuestionKept

LEMMA ReadingKeepsQuestion ==
    ASSUME QueryInv, QuestionInv, UNCHANGED vars, Allergens \/ Details
    PROVE  QuestionInv'
<1>1. /\ SameQuestion /\ query.pc = "reading" /\ query'.pc = "reading"
      /\ query'.canteens = query.canteens /\ query'.lines = query.lines
      /\ query'.sideless = query.sideless
      /\ \A t \in query'.shown : \E s \in query.shown : ReadOf(s, t)
  BY ReadingFields DEF QueryInv
<1>2. LinesOnce' /\ AnsweredInFull' /\ ShownNamesFood'
  BY <1>1 DEF QuestionInv, LinesOnce, AnsweredInFull, ShownNamesFood, ReadOf, vars, tables
<1>3. LinesAsked'
  BY <1>1, OpenSame DEF QuestionInv, LinesAsked, SameQuestion, ReadOf
<1> QED
  BY <1>1, <1>2, <1>3, QuestionKept

LEMMA AnswerKeepsQuestion ==
    ASSUME QueryInv, QuestionInv, UNCHANGED vars, Answer
    PROVE  QuestionInv'
<1>1. /\ SameQuestion /\ query.pc = "reading" /\ query'.pc = "answered"
      /\ query'.canteens = query.canteens /\ query'.lines = query.lines
      /\ query'.sideless = query.sideless /\ query'.shown = query.shown
      /\ query.canteens = {} /\ query.lines = {} /\ query.sideless = {}
      /\ \A s \in query.shown : Resolved(s)
  BY AnswerFields DEF QueryInv
<1>2. LinesOnce' /\ AnsweredInFull' /\ ShownNamesFood'
  BY <1>1 DEF QuestionInv, LinesOnce, AnsweredInFull, ShownNamesFood, Resolved, SameQuestion,
              vars, tables
<1>3. LinesAsked'
  BY <1>1, OpenSame DEF QuestionInv, LinesAsked, SameQuestion
<1> QED
  BY <1>1, <1>2, <1>3, QuestionKept

-----------------------------------------------------------------------------
(* The meals shown for a line come from one page                           *)

ShownOfOnePage ==
    \A s \in query.shown : s.kind = "meal" =>
        \E page \in Pages : \A t \in query.shown :
            t.kind = "meal" /\ t.line = s.line => t.dish \in LineMenu(page, t.line)

ShownInv == solo => ShownOfOnePage

LEMMA MenusSame ==
    ASSUME UNCHANGED vars
    PROVE  \A page, l : LineMenu(page, l)' = LineMenu(page, l)
BY DEF vars, tables, LineMenu

\* What one statement shows of a line is on one page.
LEMMA EntriesOfOnePage ==
    ASSUME PlansOfOnePage, NEW d, NEW entries \in SUBSET plan, \A e \in entries : e.day = d,
           NEW s \in {Show("meal", e) : e \in entries}
    PROVE  \E page \in Pages : \A t \in {Show("meal", e) : e \in entries} :
               t.line = s.line => t.dish \in LineMenu(page, t.line)
<1>1. PICK e \in entries : s = Show("meal", e)
  OBVIOUS
<1>2. PICK page \in Pages :
        \A x \in plan : x.day = e.day /\ x.line = e.line => x.dish \in LineMenu(page, x.line)
  BY DEF PlansOfOnePage
<1>3. ASSUME NEW x \in entries, Show("meal", x).line = s.line
      PROVE  Show("meal", x).dish \in LineMenu(page, Show("meal", x).line)
  BY <1>1, <1>2, <1>3, ShowFields
<1> QED
  BY <1>3

LEMMA UpdateKeepsShown ==
    ASSUME TypeInv, QueryInv, QuestionInv, ShownInv, Update
    PROVE  ShownInv'
<1>1. query'.shown = query.shown /\ (solo' => solo) /\ RowsSame
  BY UpdateFields, RowsNeverChange DEF Update, QueryInv
<1>2. \A s \in query.shown : \A page : LineMenu(page, s.line)' = LineMenu(page, s.line)
  BY <1>1, LineMenuSame DEF QuestionInv, LinesAsked, Open
<1> SUFFICES ASSUME solo, NEW s \in query.shown, s.kind = "meal"
             PROVE  \E page \in Pages : \A t \in query.shown :
                        t.kind = "meal" /\ t.line = s.line => t.dish \in LineMenu(page, t.line)'
  BY <1>1 DEF ShownInv, ShownOfOnePage
<1>3. PICK page \in Pages : \A t \in query.shown :
        t.kind = "meal" /\ t.line = s.line => t.dish \in LineMenu(page, t.line)
  BY DEF ShownInv, ShownOfOnePage
<1> QED
  BY <1>2, <1>3

LEMMA ReadKeepsShown ==
    ASSUME TypeInv, MenuInv, QueryInv, QuestionInv, OnePageInv, ShownInv,
           UNCHANGED <<vars, solo>>, Read
    PROVE  ShownInv'
<1>0. /\ UNCHANGED vars /\ (solo => PlansOfOnePage) /\ (solo' <=> solo)
      /\ \A page, l : LineMenu(page, l)' = LineMenu(page, l)
  BY MenusSame DEF OnePageInv
<1>1. ASSUME query'.shown = {} PROVE ShownInv'
  BY <1>1 DEF ShownInv, ShownOfOnePage
<1>2. ASSUME query'.shown = query.shown PROVE ShownInv'
  BY <1>0, <1>2 DEF ShownInv, ShownOfOnePage
<1>3. CASE EndOfQuery
  BY <1>1, <1>3 DEF EndOfQuery, NoQuery
<1>4. CASE \E cs, d : Ask(cs, d)
  BY <1>1, <1>4, AskFields
<1>5. ASSUME NEW f \in FoodId, NEW l \in LineId, NEW d \in Day, GetMeal(f, l, d)
      PROVE  ShownInv'
  <2> DEFINE found == MealDataLoader(f, l, d)
             new == {Show("meal", e) : e \in found}
  <2>1. query'.shown = new
    BY <1>5, GetMealFields DEF ShowMeal
  <2>2. found \in SUBSET plan /\ \A e \in found : e.day = d
    BY DEF MealDataLoader, MealEntries
  <2> HIDE DEF found
  <2>3. ASSUME solo, NEW s \in new
        PROVE  \E page \in Pages : \A t \in new : t.line = s.line => t.dish \in LineMenu(page, t.line)
    BY <1>0, <2>2, <2>3, EntriesOfOnePage
  <2> HIDE DEF new
  <2> QED
    BY <1>0, <2>1, <2>3 DEF ShownInv, ShownOfOnePage
<1>6. CASE Lines
  BY <1>2, <1>6, LinesFields DEF QueryInv
<1>7. CASE Meals
  <2>1. ASSUME NEW part \in Batch(query.lines), NEW found,
               found = ManyMealsDataLoader(part, query.day),
               query'.shown = query.shown \cup {ShowMeal(e) : e \in found}
        PROVE  ShownInv'
    <3> DEFINE new == {Show("meal", e) : e \in found}
    <3>1. /\ found \in SUBSET plan /\ \A e \in found : e.day = query.day /\ e.line \in part
          /\ part \subseteq query.lines /\ query'.shown = query.shown \cup new
      BY <2>1 DEF ManyMealsDataLoader, MealEntries, Batch, ShowMeal
    <3>2. ASSUME solo, NEW s \in new
          PROVE  \E page \in Pages : \A t \in new : t.line = s.line => t.dish \in LineMenu(page, t.line)
      BY <1>0, <3>1, <3>2, EntriesOfOnePage
    <3>3. \A s \in new : s.line \in part
      BY <3>1, ShownFromMenu
    <3>4. \A s \in query.shown : s.line \notin part
      BY <3>1 DEF QuestionInv, LinesOnce
    <3> HIDE DEF new
    <3>5. ASSUME solo, NEW s \in query'.shown, s.kind = "meal"
          PROVE  \E page \in Pages : \A t \in query'.shown :
                     t.kind = "meal" /\ t.line = s.line => t.dish \in LineMenu(page, t.line)
      <4>1. CASE s \in new
        BY <3>1, <3>2, <3>3, <3>4, <3>5, <4>1
      <4>2. CASE s \in query.shown
        <5>1. PICK page \in Pages : \A t \in query.shown :
                t.kind = "meal" /\ t.line = s.line => t.dish \in LineMenu(page, t.line)
          BY <3>5, <4>2 DEF ShownInv, ShownOfOnePage
        <5> QED
          BY <3>1, <3>3, <3>4, <4>2, <5>1
      <4> QED
        BY <3>1, <3>5, <4>1, <4>2
    <3> QED
      BY <1>0, <3>5 DEF ShownInv, ShownOfOnePage
  <2> QED
    BY <1>2, <1>7, <2>1, MealsFields DEF QueryInv
<1>8. CASE Sides
  <2>1. PICK part \in Batch(query.sideless) :
          query'.shown = query.shown \cup {ShowSide(e) : e \in SidesLoader(part, query.day)}
    BY <1>8, SidesFields DEF QueryInv
  <2> DEFINE found == SidesLoader(part, query.day)
  <2>2. found \in SUBSET plan
    BY DEF SidesLoader
  <2> HIDE DEF found
  <2>3. \A s \in {Show("side", e) : e \in found} : s.kind # "meal"
    BY <2>2, ShownFromMenu
  <2>4. \A s \in query'.shown : s.kind = "meal" => s \in query.shown
    BY <2>1, <2>3 DEF found, ShowSide
  <2>5. query.shown \subseteq query'.shown
    BY <2>1
  <2> QED
    BY <1>0, <2>4, <2>5 DEF ShownInv, ShownOfOnePage
<1>9. CASE Allergens \/ Details
  <2>1. \A t \in query'.shown : \E s \in query.shown : ReadOf(s, t)
    BY <1>9, ReadingFields DEF QueryInv
  <2> QED
    BY <1>0, <2>1 DEF ShownInv, ShownOfOnePage, ReadOf
<1>10. CASE Answer
  BY <1>2, <1>10, AnswerFields DEF QueryInv
<1> QED
  BY <1>3, <1>4, <1>5, <1>6, <1>7, <1>8, <1>9, <1>10 DEF Read, GetCanteens, GetCanteen

\* The sides of a line are read after its meals, and a food that is a meal stays one.
LEMMA UpdateKeepsDishes ==
    ASSUME QueryInv, NoDishTwice, Update
    PROVE  NoDishTwice'
BY UpdateFields DEF QueryInv, NoDishTwice

LEMMA ReadKeepsDishes ==
    ASSUME TypeInv, MenuInv, QueryInv, QuestionInv, NoDishTwice, UNCHANGED vars, Read
    PROVE  NoDishTwice'
<1>1. ASSUME \A s \in query'.shown : s.kind = "meal" PROVE NoDishTwice'
  BY <1>1 DEF NoDishTwice
<1>2. ASSUME query'.shown = query.shown PROVE NoDishTwice'
  BY <1>2 DEF NoDishTwice
<1>3. CASE EndOfQuery
  BY <1>1, <1>3 DEF EndOfQuery, NoQuery
<1>4. CASE \E cs, d : Ask(cs, d)
  BY <1>1, <1>4, AskFields
<1>5. ASSUME NEW f \in FoodId, NEW l \in LineId, NEW d \in Day, GetMeal(f, l, d)
      PROVE  NoDishTwice'
  <2> DEFINE found == MealDataLoader(f, l, d)
             new == {Show("meal", e) : e \in found}
  <2>1. query'.shown = new
    BY <1>5, GetMealFields DEF ShowMeal
  <2>2. found \in SUBSET plan
    BY DEF MealDataLoader, MealEntries
  <2> HIDE DEF found
  <2>3. \A s \in new : s.kind = "meal"
    BY <2>2, ShownFromMenu
  <2> QED
    BY <1>1, <2>1, <2>3
<1>6. CASE Lines
  BY <1>2, <1>6, LinesFields DEF QueryInv
<1>7. CASE Meals
  <2>1. PICK part \in Batch(query.lines) :
          query'.shown = query.shown
                           \cup {ShowMeal(e) : e \in ManyMealsDataLoader(part, query.day)}
    BY <1>7, MealsFields DEF QueryInv
  <2> DEFINE found == ManyMealsDataLoader(part, query.day)
             new == {Show("meal", e) : e \in found}
  <2>2. /\ found \in SUBSET plan /\ \A e \in found : e.line \in part
        /\ part \subseteq query.lines /\ query'.shown = query.shown \cup new
    BY <2>1 DEF ManyMealsDataLoader, MealEntries, Batch, ShowMeal
  <2> HIDE DEF found
  <2>3. \A s \in new : s.kind = "meal" /\ s.line \in part
    BY <2>2, ShownFromMenu
  <2>4. \A s \in query.shown : s.line \notin part
    BY <2>2 DEF QuestionInv, LinesOnce
  <2> HIDE DEF new
  <2> QED
    BY <2>2, <2>3, <2>4 DEF NoDishTwice
<1>8. CASE Sides
  <2>1. PICK part \in Batch(query.sideless) :
          query'.shown = query.shown \cup {ShowSide(e) : e \in SidesLoader(part, query.day)}
    BY <1>8, SidesFields DEF QueryInv
  <2> DEFINE found == SidesLoader(part, query.day)
             new == {Show("side", e) : e \in found}
  <2>2. query'.shown = query.shown \cup new /\ \A e \in found : e.food \notin meals
    BY <2>1 DEF SidesLoader, ShowSide
  <2> HIDE DEF found
  <2>3. \A s \in new : s.kind = "side" /\ s.food \notin meals
    BY <2>2, ShowFields
  <2>4. \A s \in query.shown : s.kind = "meal" => s.food \in meals
    BY DEF QueryInv, ShownMealsAreMeals
  <2> HIDE DEF new
  <2> QED
    BY <2>2, <2>3, <2>4 DEF NoDishTwice
<1>9. CASE Allergens \/ Details
  <2>1. \A t \in query'.shown : \E s \in query.shown : ReadOf(s, t)
    BY <1>9, ReadingFields DEF QueryInv
  <2> QED
    BY <2>1 DEF NoDishTwice, ReadOf
<1>10. CASE Answer
  BY <1>2, <1>10, AnswerFields DEF QueryInv
<1> QED
  BY <1>3, <1>4, <1>5, <1>6, <1>7, <1>8, <1>9, <1>10 DEF Read, GetCanteens, GetCanteen

LEMMA ReadKeepsQuestion ==
    ASSUME TypeInv, MenuInv, QueryInv, QuestionInv, UNCHANGED vars, Read
    PROVE  QuestionInv'
BY StartsKeepQuestion, LinesKeepQuestion, MealsKeepQuestion, SidesKeepQuestion,
   ReadingKeepsQuestion, AnswerKeepsQuestion DEF Read, GetCanteens, GetCanteen

-----------------------------------------------------------------------------
PageReadInv ==
    /\ TypeInv /\ MenuInv /\ ReadInv
    /\ AloneInv /\ OnePageInv /\ QuestionInv /\ ShownInv /\ NoDishTwice

LEMMA InitPageReadInv == ReadInit => PageReadInv
<1> SUFFICES ASSUME ReadInit PROVE PageReadInv
  OBVIOUS
<1>1. TypeInv /\ MenuInv /\ ReadInv /\ QuestionInv
  BY InitType, InitMenu, InitReadInv, NoQuestion DEF ReadInit
<1>2. \A r \in Run : run[r] = Idle /\ run[r].pc = "idle"
  BY IdleShape DEF ReadInit, Init
<1>3. AloneInv
  <2>1. OneRun /\ \A r \in Run : NewRows(run[r], canteens, lines, plan)
    BY <1>2, IdleHasNoNewRows DEF OneRun
  <2>2. UniqueCanteens /\ UniqueLines
    BY DEF ReadInit, Init, UniqueCanteens, UniqueLines
  <2> QED
    BY <2>1, <2>2 DEF AloneInv, RowsOnce, ReadInit
<1>4. OnePageInv
  BY <1>2 DEF ReadInit, Init, OnePageInv, PlansOfOnePage, ClearFor
<1>5. ShownInv /\ NoDishTwice
  BY DEF ReadInit, NoQuery, ShownInv, ShownOfOnePage, NoDishTwice
<1> QED
  BY <1>1, <1>3, <1>4, <1>5 DEF PageReadInv

LEMMA NextPageReadInv == PageReadInv /\ [ReadNext]_readVars => PageReadInv'
<1> SUFFICES ASSUME PageReadInv, [ReadNext]_readVars PROVE PageReadInv'
  OBVIOUS
<1>0. /\ TypeInv /\ MenuInv /\ ReadInv /\ DataInv /\ QueryInv
      /\ AloneInv /\ OnePageInv /\ QuestionInv /\ ShownInv /\ NoDishTwice
  BY DEF PageReadInv, ReadInv
<1>1. [Next]_vars
  BY DEF ReadNext, Update, readVars
<1>2. TypeInv' /\ MenuInv' /\ ReadInv'
  BY <1>0, <1>1, NextType, NextMenu, NextReadInv
<1>3. CASE Update
  BY <1>0, <1>2, <1>3, UpdateKeepsAlone, UpdateKeepsOnePage, UpdateKeepsQuestion,
     UpdateKeepsShown, UpdateKeepsDishes DEF PageReadInv
<1>4. CASE UNCHANGED <<vars, solo>> /\ (Read \/ UNCHANGED query)
  <2>1. UNCHANGED <<canteens, lines, plan, run, calm, solo>>
    BY <1>4 DEF vars, tables, history
  <2>2. AloneInv'
    BY <1>0, <2>1 DEF AloneInv, RowsOnce, OneRun, UniqueCanteens, UniqueLines, NewRows
  <2>3. OnePageInv'
    BY <1>0, <2>1 DEF OnePageInv, PlansOfOnePage, ClearFor, LineMenu
  <2>4. CASE Read
    BY <1>0, <1>2, <1>4, <2>2, <2>3, <2>4, ReadKeepsQuestion, ReadKeepsShown, ReadKeepsDishes
       DEF PageReadInv
  <2>5. CASE UNCHANGED query
    <3>1. QuestionInv'
      BY <1>0, <2>1, <2>5 DEF QuestionInv, LinesOnce, AnsweredInFull, LinesAsked, Open,
            ShownNamesFood, QuietDays, Resolved, Quiet
    <3>2. ShownInv' /\ NoDishTwice'
      BY <1>0, <2>1, <2>5 DEF ShownInv, ShownOfOnePage, LineMenu, NoDishTwice
    <3> QED
      BY <1>2, <2>2, <2>3, <3>1, <3>2 DEF PageReadInv
  <2> QED
    BY <1>4, <2>4, <2>5
<1> QED
  BY <1>3, <1>4 DEF ReadNext, readVars

\* No line shows a food as a meal and as a side, however many jobs overlap and make meals of
\* foods between the statement that reads its meals and the one that reads its sides.
THEOREM ReadersSeeDishesOnce == ReadSpec => []NoDishTwice
<1>1. PageReadInv => NoDishTwice
  BY DEF PageReadInv
<1> QED
  BY <1>1, InitPageReadInv, NextPageReadInv, PTL DEF ReadSpec

\* As long as runs do not overlap, whatever pages they read, wherever they fail or are
\* stopped and however the statements of the query fall between theirs: the meals shown
\* for a line are all from one page of the website.
THEOREM ReadersSeeOnePage == ReadSpec => []MealsOfOnePage
<1>1. PageReadInv => MealsOfOnePage
  <2> SUFFICES ASSUME PageReadInv, solo, NEW l \in LineId, NEW s \in query.shown,
                      s.kind = "meal", s.line = l
               PROVE  \E page \in Pages :
                        {x.dish : x \in {x \in query.shown : x.kind = "meal" /\ x.line = l}}
                          \subseteq LineMenu(page, l)
    BY DEF MealsOfOnePage
  <2> QED
    BY DEF PageReadInv, ShownInv, ShownOfOnePage
<1> QED
  BY <1>1, InitPageReadInv, NextPageReadInv, PTL DEF ReadSpec

-----------------------------------------------------------------------------
(* What a query knows of the plan while nobody works on its day            *)

\* s is entry e of the plan.
Shows(s, e) == s.line = e.line /\ s.food = e.food /\ s.dish = e.dish

IsShown(e) == \E s \in query.shown : Shows(s, e)

\* Every meal is shown, or its line is still to be looked at.
MealsListed ==
    \A e \in MealEntries(query.day) :
        lines[e.line].canteen \in query.asked =>
            \/ lines[e.line].canteen \in query.canteens
            \/ e.line \in query.lines
            \/ IsShown(e)

\* So is every side of a line that is shown.
SidesListed ==
    \A s \in query.shown :
        \/ s.line \in query.sideless
        \/ \A e \in SidesLoader({s.line}, query.day) : IsShown(e)

\* What was read of s will do for item m of the menu.
WillDo(s, m) ==
    /\ s.allergens = Unread \/ m.dish.allergens \subseteq s.allergens
    /\ m.dish.facts # None => s.facts = Unread \/ s.facts # None

\* Every item of the menu has a place on the plan, and so had it when its dish was read.
MenuSeen ==
    CanteensListedOnce /\ agreed[query.day] # None =>
        \A m \in Menu(agreed[query.day]) : \E e \in plan :
            /\ e.day = query.day /\ PlacedBy(m, e)
            /\ \A s \in query.shown : Shows(s, e) => WillDo(s, m)

QuietInv == solo /\ query.quiet => MealsListed /\ SidesListed /\ MenuSeen

LEMMA StartWorks ==
    ASSUME TypeInv, NEW r \in Run, NEW days \in SUBSET Day, NEW web \in [Day -> Pages],
           Start(r, days, web), NEW d \in Day, Quiet(run', d)
    PROVE  agreed'[d] = agreed[d]
<1> DEFINE begun == {x \in days : web[x] # <<>>}
           t == [Idle EXCEPT !.web = web, !.days = begun]
<1>1. Continue(r, t) /\ (d \notin begun => agreed'[d] = agreed[d])
  BY DEF Start
<1> HIDE DEF begun
<1>2. /\ t.days = begun /\ Shape(t)
      /\ t.canteensLeft = <<>> /\ t.linesLeft = <<>> /\ t.dishesLeft = <<>>
  BY FieldNames, IdleShape DEF Shape, Idle
<1> HIDE DEF t
<1>3. PICK next \in Proceed(t) : run' = [run EXCEPT ![r] = next]
  BY <1>1 DEF Continue
<1>4. ASSUME d \in begun PROVE FALSE
  <2>1. PICK x \in begun : next = AtCanteen(t, x, t.web[x])
    BY <1>2, <1>3, <1>4 DEF Proceed
  <2> DEFINE page == t.web[x]
  <2>2. next = AtCanteen(t, x, page)
    BY <2>1
  <2> HIDE DEF page
  <2>3. Shape(next) /\ next.pc = "get_similar_canteen" /\ next.day = x /\ next.days = begun \ {x}
    BY <1>2, <2>2, AtCanteenFields, AtCanteenLooksUp
  <2>4. run'[r] = next
    BY <1>3, <2>3, RunsShaped, OwnRecord
  <2> QED
    BY <1>4, <2>3, <2>4 DEF Quiet
<1> QED
  BY <1>1, <1>4

\* While nobody works on a day its plan stays, and what it should be.
LEMMA DayStays ==
    ASSUME TypeInv, RowsOnce, Next, NEW d \in Day, Quiet(run, d), Quiet(run', d)
    PROVE  /\ \A e : e.day = d => (e \in plan' <=> e \in plan)
           /\ \A e \in plan : e.day = d => (e.food \in meals' => e.food \in meals)
           /\ agreed'[d] # None => agreed'[d] = agreed[d]
<1>1. ASSUME NEW r \in Run, StartUpdateParsing(r) \/ StartFullParsing(r)
      PROVE  plan' = plan /\ meals' = meals /\ agreed'[d] = agreed[d]
  <2>1. PICK days \in SUBSET Day, web \in [Day -> Pages] : Start(r, days, web)
    BY <1>1 DEF StartUpdateParsing, StartFullParsing
  <2>2. agreed'[d] = agreed[d]
    BY <2>1, StartWorks
  <2> QED
    BY <2>1, <2>2 DEF Start, tables
<1>2. ASSUME NEW r \in Run, Step(r) \/ Fail(r)
      PROVE  /\ \A e : e.day = d => (e \in plan' <=> e \in plan)
             /\ \A e \in plan : e.day = d => (e.food \in meals' => e.food \in meals)
             /\ agreed'[d] # None => agreed'[d] = agreed[d]
  <2>1. run[r].day # d
    BY <1>2, RunSteps, PlacesApart DEF Steps, Quiet
  <2>2. \/ plan' = plan
        \/ plan' = {e \in plan : e.day # run[r].day \/ lines[e.line].canteen # run[r].canteen}
        \/ plan' = plan \cup {Entry(r)}
    BY <1>2 DEF tables, Step, Fail, GetSimilarCanteen, InsertCanteen, DissolveRelations,
         GetSimilarLine, InsertLine, GetSimilarMeal, GetSimilarSide, UpdateFood, UpdateFacts,
         InsertFood, InsertMeal, InsertAllergens, InsertFacts, AddToPlan
  <2>3. \A e : e.day = d => (e \in plan' <=> e \in plan)
    BY <2>1, <2>2 DEF Entry
  <2>4. \/ meals' = meals
        \/ run[r].pc = "insert_meal" /\ meals' = meals \cup {run[r].food}
    BY <1>2 DEF tables, Step, Fail, GetSimilarCanteen, InsertCanteen, DissolveRelations,
         GetSimilarLine, InsertLine, GetSimilarMeal, GetSimilarSide, UpdateFood, UpdateFacts,
         InsertFood, InsertMeal, InsertAllergens, InsertFacts, AddToPlan, Running
  <2>5. \A e \in plan : e.food \in meals' => e.food \in meals
    <3>1. run[r].pc = "insert_meal" => \A e \in plan : e.food # run[r].food
      BY DEF RowsOnce, NewRows
    <3> QED
      BY <2>4, <3>1
  <2>6. agreed' = agreed \/ agreed' = [agreed EXCEPT ![run[r].day] = None]
    BY <1>2 DEF history, Step, Fail, GetSimilarCanteen, InsertCanteen, DissolveRelations,
         GetSimilarLine, InsertLine, GetSimilarMeal, GetSimilarSide, UpdateFood, UpdateFacts,
         InsertFood, InsertMeal, InsertAllergens, InsertFacts, AddToPlan
  <2>7. agreed'[d] = agreed[d]
    BY <2>1, <2>6 DEF TypeInv
  <2> QED
    BY <2>3, <2>5, <2>7
<1>3. CASE Stop
  BY <1>3 DEF Stop, tables
<1> QED
  BY <1>1, <1>2, <1>3 DEF Next

LEMMA UpdateKeepsQuiet ==
    ASSUME TypeInv, DataInv, AloneInv, QueryInv, QuestionInv, QuietInv, Update
    PROVE  QuietInv'
<1>1. /\ query'.day = query.day /\ query'.asked = query.asked
      /\ query'.canteens = query.canteens /\ query'.lines = query.lines
      /\ query'.sideless = query.sideless /\ query'.shown = query.shown
      /\ query'.quiet => query.quiet /\ Quiet(run', query.day)
  BY UpdateFields DEF QueryInv
<1> SUFFICES ASSUME solo', query'.quiet
             PROVE  MealsListed' /\ SidesListed' /\ MenuSeen'
  BY DEF QuietInv
<1>2. /\ solo /\ Next /\ query.quiet
      /\ query.day \in Day /\ Quiet(run, query.day) /\ Quiet(run', query.day)
  BY <1>1 DEF Update, QuestionInv, QuietDays
<1>3. RowsOnce /\ MealsListed /\ SidesListed /\ MenuSeen
  BY <1>2 DEF AloneInv, QuietInv
<1>4. RowsSame /\ TablesGrow
  BY <1>2, RowsNeverChange, UpdatesGrow
<1>5. /\ \A e : e.day = query.day => (e \in plan' <=> e \in plan)
      /\ \A e \in plan : e.day = query.day => (e.food \in meals' => e.food \in meals)
      /\ agreed'[query.day] # None => agreed'[query.day] = agreed[query.day]
  BY <1>2, <1>3, DayStays
<1>6. \A e \in plan : lines'[e.line] = lines[e.line]
  BY <1>4, EntrySame
<1>7. \A e : IsShown(e)' <=> IsShown(e)
  BY <1>1 DEF IsShown
<1>8. MealsListed'
  BY <1>1, <1>3, <1>5, <1>6, <1>7 DEF MealsListed, MealEntries
<1>9. SidesListed'
  <2>1. \A e \in plan : e.food \in meals => e.food \in meals'
    BY <1>4 DEF TablesGrow
  <2> QED
    BY <1>1, <1>3, <1>5, <1>7, <2>1 DEF SidesListed, SidesLoader
<1>10. MenuSeen'
  <2> SUFFICES ASSUME CanteensListedOnce, agreed'[query.day] # None,
                      NEW m \in Menu(agreed[query.day])
               PROVE  \E e \in plan' : /\ e.day = query.day /\ PlacedBy(m, e)'
                                       /\ \A s \in query.shown : Shows(s, e) => WillDo(s, m)
    BY <1>1, <1>5 DEF MenuSeen
  <2>1. agreed[query.day] # None
    BY <1>5
  <2>2. PICK e \in plan : /\ e.day = query.day /\ PlacedBy(m, e)
                         /\ \A s \in query.shown : Shows(s, e) => WillDo(s, m)
    BY <1>3, <2>1 DEF MenuSeen
  <2>3. PlacedBy(m, e)'
    BY <1>4, <2>2, PlacedStays DEF TablesGrow, DataGrows
  <2> QED
    BY <1>5, <2>2, <2>3
<1> QED
  BY <1>8, <1>9, <1>10

\* Nobody works on the day, so each item is on its plan.
LEMMA MenuPlaced ==
    ASSUME TypeInv, MenuInv, CanteensListedOnce, UniqueCanteens, NEW d \in Day, Quiet(run, d),
           agreed[d] # None
    PROVE  \A m \in Menu(agreed[d]) : \E e \in plan : e.day = d /\ PlacedBy(m, e)
<1>1. NothingForgotten(d)
  BY DEF MenuInv, PlanInv
<1>2. \A r \in Run : Todo(run[r], d) = {}
  BY NothingToDo DEF Quiet, WorksOn
<1> QED
  BY <1>1, <1>2 DEF NothingForgotten, Placed

LEMMA MenuSeenAtFirst ==
    ASSUME TypeInv, MenuInv, RowsOnce, UNCHANGED vars, query'.day \in Day,
           Quiet(run, query'.day), \A s \in query'.shown : s.allergens = Unread /\ s.facts = Unread
    PROVE  MenuSeen'
<1>1. UNCHANGED <<canteens, lines, allergens, facts, plan, agreed>>
  BY DEF vars, tables, history
<1>2. \A m, e : PlacedBy(m, e)' <=> PlacedBy(m, e)
  BY <1>1 DEF PlacedBy, CanteenOf
<1>3. \A s \in query'.shown : \A m : WillDo(s, m)
  BY DEF WillDo
<1>4. ASSUME CanteensListedOnce, agreed[query'.day] # None
      PROVE  \A m \in Menu(agreed[query'.day]) :
                \E e \in plan : e.day = query'.day /\ PlacedBy(m, e)
  BY <1>4, MenuPlaced DEF RowsOnce
<1> QED
  BY <1>1, <1>2, <1>3, <1>4 DEF MenuSeen

-----------------------------------------------------------------------------
(* The steps of a query whose day nobody works on                          *)

\* What a query reads next to nothing it has lost.
LEMMA MenuStaysSeen ==
    ASSUME MenuSeen, UNCHANGED vars, query'.day = query.day,
           \A t \in query'.shown : \/ t.allergens = Unread /\ t.facts = Unread
                                   \/ \E s \in query.shown : ReadOf(s, t)
    PROVE  MenuSeen'
<1>1. UNCHANGED <<canteens, lines, allergens, facts, plan, agreed>>
  BY DEF vars, tables, history
<1>2. \A m, e : PlacedBy(m, e)' <=> PlacedBy(m, e)
  BY <1>1 DEF PlacedBy, CanteenOf
<1>3. ASSUME NEW m, NEW e, PlacedBy(m, e),
             \A s \in query.shown : Shows(s, e) => WillDo(s, m),
             NEW t \in query'.shown, Shows(t, e)
      PROVE  WillDo(t, m)
  <2>1. CASE t.allergens = Unread /\ t.facts = Unread
    BY <2>1 DEF WillDo
  <2>2. ASSUME NEW s \in query.shown, ReadOf(s, t) PROVE WillDo(t, m)
    <3>1. Shows(s, e) /\ s.food = e.food
      BY <1>3, <2>2 DEF Shows, ReadOf
    <3>2. WillDo(s, m)
      BY <1>3, <3>1
    <3>3. t.allergens \in {s.allergens, allergens[e.food]} /\ t.facts \in {s.facts, facts[e.food]}
      BY <2>2, <3>1 DEF ReadOf
    <3> QED
      BY <1>3, <3>2, <3>3 DEF WillDo, PlacedBy
  <2> QED
    BY <2>1, <2>2
<1>4. ASSUME CanteensListedOnce, agreed[query.day] # None, NEW m \in Menu(agreed[query.day])
      PROVE  \E e \in plan : /\ e.day = query.day /\ PlacedBy(m, e)
                             /\ \A t \in query'.shown : Shows(t, e) => WillDo(t, m)
  <2>1. PICK e \in plan : /\ e.day = query.day /\ PlacedBy(m, e)
                         /\ \A s \in query.shown : Shows(s, e) => WillDo(s, m)
    BY <1>4 DEF MenuSeen
  <2> QED
    BY <1>3, <2>1
<1> QED
  BY <1>1, <1>2, <1>4 DEF MenuSeen

LEMMA StaysShown ==
    ASSUME \/ query.shown \subseteq query'.shown
           \/ \A s \in query.shown : \E t \in query'.shown : ReadOf(s, t),
           NEW e, IsShown(e)
    PROVE  IsShown(e)'
BY DEF IsShown, Shows, ReadOf

LEMMA ShowingShows ==
    ASSUME NEW kind, NEW entries, NEW e \in entries,
           {Show(kind, x) : x \in entries} \subseteq query'.shown
    PROVE  IsShown(e)'
<1>1. Show(kind, e) \in query'.shown
  OBVIOUS
<1>2. Shows(Show(kind, e), e)
  BY ShowFields DEF Shows
<1> QED
  BY <1>1, <1>2 DEF IsShown

\* A query that begins on a day on which nobody works.
LEMMA StartsQuiet ==
    ASSUME TypeInv, MenuInv, solo => RowsOnce, UNCHANGED <<vars, solo>>,
           \/ EndOfQuery
           \/ \E d \in Day : \E cs : Ask(cs, d)
           \/ \E f \in FoodId, l \in LineId, d \in Day : GetMeal(f, l, d)
    PROVE  QuietInv'
<1>0. UNCHANGED vars /\ UNCHANGED solo
  OBVIOUS
<1>1. CASE EndOfQuery
  BY <1>1 DEF EndOfQuery, NoQuery, QuietInv
<1>2. ASSUME NEW cs, NEW d \in Day, Ask(cs, d), solo', query'.quiet
      PROVE  MealsListed' /\ SidesListed' /\ MenuSeen'
  <2>1. /\ query'.day = d /\ query'.asked = cs /\ query'.canteens = cs /\ query'.shown = {}
        /\ Quiet(run, d)
    BY <1>2, AskFields
  <2>2. MealsListed' /\ SidesListed'
    BY <2>1 DEF MealsListed, SidesListed
  <2>3. MenuSeen'
    BY <1>0, <1>2, <2>1, MenuSeenAtFirst
  <2> QED
    BY <2>2, <2>3
<1>3. ASSUME NEW f \in FoodId, NEW l \in LineId, NEW d \in Day, GetMeal(f, l, d),
             solo', query'.quiet
      PROVE  MealsListed' /\ SidesListed' /\ MenuSeen'
  <2> DEFINE found == MealDataLoader(f, l, d)
             new == {Show("meal", e) : e \in found}
  <2>1. /\ query'.day = d /\ query'.asked = {}
        /\ query'.sideless = {e.line : e \in found} /\ query'.shown = new
        /\ Quiet(run, d)
    BY <1>3, GetMealFields DEF ShowMeal
  <2>2. found \in SUBSET plan
    BY DEF MealDataLoader, MealEntries
  <2> HIDE DEF found
  <2>3. \A s \in new : /\ s.line \in {e.line : e \in found}
                       /\ s.allergens = Unread /\ s.facts = Unread
    BY <2>2, ShownFromMenu
  <2> HIDE DEF new
  <2>4. MealsListed' /\ SidesListed'
    BY <2>1, <2>3 DEF MealsListed, SidesListed
  <2>5. MenuSeen'
    BY <1>0, <1>3, <2>1, <2>3, MenuSeenAtFirst
  <2> QED
    BY <2>4, <2>5
<1> QED
  BY <1>1, <1>2, <1>3 DEF QuietInv

LEMMA LinesQuiet ==
    ASSUME TypeInv, QueryInv, QuestionInv, UNCHANGED vars, Lines,
           MealsListed, SidesListed, MenuSeen
    PROVE  MealsListed' /\ SidesListed' /\ MenuSeen'
<1>1. /\ SameQuestion
      /\ query'.shown = query.shown /\ query'.sideless = query.sideless
      /\ \E part \in Batch(query.canteens) :
            /\ query'.canteens = query.canteens \ part
            /\ query'.lines = query.lines \cup CanteenLinesLoader(part)
  BY LinesFields DEF QueryInv
<1>2. /\ query'.day = query.day /\ query'.asked = query.asked
      /\ UNCHANGED <<lines, meals, plan>>
      /\ \A d, part : SidesLoader(part, d)' = SidesLoader(part, d)
  BY <1>1 DEF SameQuestion, vars, tables, SidesLoader
<1>3. \A e : IsShown(e) => IsShown(e)'
  BY <1>1, StaysShown
<1>4. SidesListed'
  BY <1>1, <1>2, <1>3 DEF SidesListed
<1>5. MenuSeen'
  <2>1. \A s \in query.shown : ReadOf(s, s)
    BY DEF ReadOf
  <2> QED
    BY <1>1, <1>2, <2>1, MenuStaysSeen
<1>6. ASSUME NEW e \in MealEntries(query.day), lines[e.line].canteen \in query.asked
      PROVE  \/ lines[e.line].canteen \in query'.canteens
             \/ e.line \in query'.lines
             \/ IsShown(e)'
  <2>1. e.line \in LineId /\ lines[e.line] # None
    BY EntryTyped DEF MealEntries
  <2>2. \/ lines[e.line].canteen \in query.canteens
        \/ e.line \in query.lines
        \/ IsShown(e)
    BY <1>6 DEF MealsListed
  <2>3. IsShown(e) => IsShown(e)'
    BY <1>1, StaysShown
  <2> QED
    BY <1>1, <2>1, <2>2, <2>3 DEF CanteenLinesLoader
<1>7. MealsListed'
  BY <1>2, <1>6 DEF MealsListed, MealEntries
<1> QED
  BY <1>4, <1>5, <1>7

LEMMA MealsQuiet ==
    ASSUME TypeInv, MenuInv, QueryInv, QuestionInv, UNCHANGED vars, Meals,
           MealsListed, SidesListed, MenuSeen
    PROVE  MealsListed' /\ SidesListed' /\ MenuSeen'
<1>1. SameQuestion /\ query'.canteens = query.canteens
  BY MealsFields DEF QueryInv
<1>2. /\ query'.day = query.day /\ query'.asked = query.asked
      /\ UNCHANGED <<lines, meals, plan>>
      /\ \A d, part : /\ MealEntries(d)' = MealEntries(d)
                      /\ SidesLoader(part, d)' = SidesLoader(part, d)
  BY <1>1 DEF SameQuestion, vars, tables, MealEntries, SidesLoader
<1>3. ASSUME NEW part \in Batch(query.lines), NEW found,
             found = ManyMealsDataLoader(part, query.day),
             query'.lines = query.lines \ part,
             query'.shown = query.shown \cup {ShowMeal(e) : e \in found},
             query'.sideless = query.sideless \cup {e.line : e \in found}
      PROVE  MealsListed' /\ SidesListed' /\ MenuSeen'
  <2> DEFINE new == {Show("meal", e) : e \in found}
             ls == {e.line : e \in found}
  <2>1. found \in SUBSET plan
    BY <1>3 DEF ManyMealsDataLoader, MealEntries
  <2>2. \A s \in new : s.line \in ls /\ s.allergens = Unread /\ s.facts = Unread
    BY <2>1, ShownFromMenu
  <2>3. query'.shown = query.shown \cup new /\ query'.sideless = query.sideless \cup ls
    BY <1>3 DEF ShowMeal
  <2>4. \A e \in found : IsShown(e)'
    BY <2>3, ShowingShows
  <2> HIDE DEF new, ls
  <2>5. \A e : IsShown(e) => IsShown(e)'
    BY <2>3, StaysShown
  <2>6. \A e \in MealEntries(query.day) : e.line \in part => e \in found
    BY <1>3 DEF ManyMealsDataLoader
  <2>7. MealsListed'
    BY <1>1, <1>2, <1>3, <2>4, <2>5, <2>6 DEF MealsListed
  <2>8. SidesListed'
    BY <1>2, <2>2, <2>3, <2>5 DEF SidesListed
  <2>9. \A s \in query.shown : ReadOf(s, s)
    BY DEF ReadOf
  <2>10. MenuSeen'
    BY <1>2, <2>2, <2>3, <2>9, MenuStaysSeen
  <2> QED
    BY <2>7, <2>8, <2>10
<1> QED
  BY <1>3, MealsFields DEF QueryInv

LEMMA SidesQuiet ==
    ASSUME TypeInv, MenuInv, QueryInv, QuestionInv, UNCHANGED vars, Sides,
           MealsListed, SidesListed, MenuSeen
    PROVE  MealsListed' /\ SidesListed' /\ MenuSeen'
<1>1. /\ SameQuestion
      /\ query'.canteens = query.canteens /\ query'.lines = query.lines
  BY SidesFields DEF QueryInv
<1>2. /\ query'.day = query.day /\ query'.asked = query.asked
      /\ UNCHANGED <<lines, meals, plan>>
      /\ \A d, part : /\ MealEntries(d)' = MealEntries(d)
                      /\ SidesLoader(part, d)' = SidesLoader(part, d)
  BY <1>1 DEF SameQuestion, vars, tables, MealEntries, SidesLoader
<1>3. PICK part \in Batch(query.sideless) :
        /\ query'.sideless = query.sideless \ part
        /\ query'.shown = query.shown \cup {ShowSide(e) : e \in SidesLoader(part, query.day)}
  BY SidesFields DEF QueryInv
<1> DEFINE found == SidesLoader(part, query.day)
           new == {Show("side", e) : e \in found}
<1>4. query'.shown = query.shown \cup new
  BY <1>3 DEF ShowSide
<1>5. found \in SUBSET plan /\ {e.line : e \in found} \subseteq part
  BY DEF SidesLoader
<1>6. \A l \in part : SidesLoader({l}, query.day) \subseteq found
  BY DEF SidesLoader
<1> HIDE DEF found
<1>7. \A s \in new : s.line \in part /\ s.allergens = Unread /\ s.facts = Unread
  BY <1>5, ShownFromMenu
<1>8. \A e \in found : IsShown(e)'
  BY <1>4, ShowingShows
<1> HIDE DEF new
<1>9. \A e : IsShown(e) => IsShown(e)'
  BY <1>4, StaysShown
<1>10. MealsListed'
  BY <1>1, <1>2, <1>9 DEF MealsListed
<1>11. SidesListed'
  <2> SUFFICES ASSUME NEW s \in query'.shown, s.line \notin query'.sideless
               PROVE  \A e \in SidesLoader({s.line}, query.day) : IsShown(e)'
    BY <1>2 DEF SidesListed
  <2>1. CASE s.line \in part
    BY <1>6, <1>8, <2>1
  <2>2. CASE s.line \notin part
    <3>1. s \in query.shown /\ s.line \notin query.sideless
      BY <1>3, <1>4, <1>7, <2>2
    <3> QED
      BY <1>9, <3>1 DEF SidesListed
  <2> QED
    BY <2>1, <2>2
<1>12. \A s \in query.shown : ReadOf(s, s)
  BY DEF ReadOf
<1>13. MenuSeen'
  BY <1>2, <1>4, <1>7, <1>12, MenuStaysSeen
<1> QED
  BY <1>10, <1>11, <1>13

LEMMA DetailsQuiet ==
    ASSUME QueryInv, UNCHANGED vars, Allergens \/ Details \/ Answer,
           MealsListed, SidesListed, MenuSeen
    PROVE  MealsListed' /\ SidesListed' /\ MenuSeen'
<1>1. \A s : ReadOf(s, s)
  BY DEF ReadOf
<1>2. /\ SameQuestion
      /\ query'.canteens = query.canteens /\ query'.lines = query.lines
      /\ query'.sideless = query.sideless
      /\ \A t \in query'.shown : \E s \in query.shown : ReadOf(s, t)
      /\ \A s \in query.shown : \E t \in query'.shown : ReadOf(s, t)
  BY <1>1, ReadingFields, AnswerFields DEF QueryInv
<1>3. /\ query'.day = query.day /\ query'.asked = query.asked
      /\ UNCHANGED <<lines, meals, plan>>
      /\ \A d, part : /\ MealEntries(d)' = MealEntries(d)
                      /\ SidesLoader(part, d)' = SidesLoader(part, d)
  BY <1>2 DEF SameQuestion, vars, tables, MealEntries, SidesLoader
<1>4. \A e : IsShown(e) => IsShown(e)'
  BY <1>2, StaysShown
<1>5. MealsListed'
  BY <1>2, <1>3, <1>4 DEF MealsListed
<1>6. \A t \in query'.shown : \E s \in query.shown : t.line = s.line
  BY <1>2 DEF ReadOf
<1>7. SidesListed'
  BY <1>2, <1>3, <1>4, <1>6 DEF SidesListed
<1>8. MenuSeen'
  BY <1>2, <1>3, MenuStaysSeen
<1> QED
  BY <1>5, <1>7, <1>8

LEMMA ReadKeepsQuiet ==
    ASSUME TypeInv, MenuInv, AloneInv, QueryInv, QuestionInv, QuietInv,
           UNCHANGED <<vars, solo>>, Read
    PROVE  QuietInv'
<1>0. UNCHANGED vars /\ UNCHANGED solo
  OBVIOUS
<1>1. CASE \/ EndOfQuery
           \/ \E d \in Day : \E cs : Ask(cs, d)
           \/ \E f \in FoodId, l \in LineId, d \in Day : GetMeal(f, l, d)
  BY <1>1, StartsQuiet DEF AloneInv
<1>2. ASSUME Lines \/ Meals \/ Sides \/ Allergens \/ Details \/ Answer
      PROVE  QuietInv'
  <2>1. SameQuestion
    BY <1>2, LinesFields, MealsFields, SidesFields, ReadingFields, AnswerFields DEF QueryInv
  <2>2. ASSUME solo', query'.quiet PROVE MealsListed /\ SidesListed /\ MenuSeen
    BY <1>0, <2>1, <2>2 DEF QuietInv, SameQuestion
  <2>3. ASSUME MealsListed, SidesListed, MenuSeen
        PROVE  MealsListed' /\ SidesListed' /\ MenuSeen'
    BY <1>0, <1>2, <2>3, LinesQuiet, MealsQuiet, SidesQuiet, DetailsQuiet
  <2> QED
    BY <2>2, <2>3 DEF QuietInv
<1> QED
  BY <1>1, <1>2 DEF Read, GetCanteens, GetCanteen

-----------------------------------------------------------------------------
QuietReadInv == PageReadInv /\ QuietInv

LEMMA InitQuietReadInv == ReadInit => QuietReadInv
BY InitPageReadInv DEF ReadInit, NoQuery, QuietReadInv, QuietInv

LEMMA NextQuietReadInv == QuietReadInv /\ [ReadNext]_readVars => QuietReadInv'
<1> SUFFICES ASSUME QuietReadInv, [ReadNext]_readVars PROVE QuietReadInv'
  OBVIOUS
<1>0. /\ TypeInv /\ MenuInv /\ DataInv /\ QueryInv /\ AloneInv /\ QuestionInv /\ QuietInv
      /\ PageReadInv
  BY DEF QuietReadInv, PageReadInv, ReadInv
<1>1. PageReadInv'
  BY <1>0, NextPageReadInv
<1>2. CASE Update
  BY <1>0, <1>1, <1>2, UpdateKeepsQuiet DEF QuietReadInv
<1>3. CASE Read /\ UNCHANGED <<vars, solo>>
  BY <1>0, <1>1, <1>3, ReadKeepsQuiet DEF QuietReadInv
<1>4. CASE UNCHANGED readVars
  <2>1. UNCHANGED <<canteens, lines, meals, allergens, facts, plan, agreed, query, solo>>
    BY <1>4 DEF readVars, vars, tables, history
  <2>2. (MealsListed' <=> MealsListed) /\ (SidesListed' <=> SidesListed)
    BY <2>1 DEF MealsListed, SidesListed, MealEntries, SidesLoader, IsShown
  <2>3. MenuSeen' <=> MenuSeen
    BY <2>1 DEF MenuSeen, PlacedBy, CanteenOf
  <2> QED
    BY <1>0, <1>1, <2>1, <2>2, <2>3 DEF QuietReadInv, QuietInv
<1> QED
  BY <1>2, <1>3, <1>4 DEF ReadNext

\* The entry of an item stands under the line the item is on.
LEMMA EntryOnLine ==
    ASSUME TypeInv, UniqueCanteens, UniqueLines, NEW l \in LineId, lines[l] # None,
           NEW e \in plan, NEW m, PlacedBy(m, e),
           m.line = lines[l].name, m.canteen = canteens[lines[l].canteen]
    PROVE  e.line = l
<1>1. /\ e.line \in LineId /\ lines[e.line] # None
      /\ lines[e.line].canteen \in CanteenId /\ canteens[lines[e.line].canteen] # None
  BY EntryTyped
<1>2. /\ lines[e.line] \in [canteen : CanteenId, name : LineNames]
      /\ lines[l] \in [canteen : CanteenId, name : LineNames]
  BY <1>1 DEF TypeInv, TablesTyped
<1>3. /\ canteens[lines[e.line].canteen] = canteens[lines[l].canteen]
      /\ lines[e.line].name = lines[l].name
  BY DEF PlacedBy, CanteenOf
<1>4. lines[e.line].canteen = lines[l].canteen
  BY <1>1, <1>2, <1>3 DEF UniqueCanteens
<1>5. lines[e.line] = lines[l]
  BY <1>2, <1>3, <1>4
<1> QED
  BY <1>1, <1>5 DEF UniqueLines

\* What a line serves has an entry there, and what was read of it will do.
LEMMA DishSeen ==
    ASSUME QuietReadInv, CanteensListedOnce, solo, QuietlyAnswered,
           NEW l \in LineId, lines[l] # None, NEW dish \in LineMenu(agreed[query.day], l)
    PROVE  \E e \in plan :
               /\ e.day = query.day /\ e.line = l /\ Alike(dish.name, e.dish.name)
               /\ \A s \in query.shown : Shows(s, e) =>
                      /\ "allergens" \in query.wants => dish.allergens \subseteq s.allergens
                      /\ "facts" \in query.wants /\ dish.facts # None => s.facts # None
<1>1. /\ TypeInv /\ UniqueCanteens /\ UniqueLines /\ MenuSeen
      /\ \A s \in query.shown : Resolved(s)
  BY DEF QuietReadInv, PageReadInv, AloneInv, RowsOnce, QuietInv, QuietlyAnswered,
         QuestionInv, AnsweredInFull
<1>2. PICK m \in Menu(agreed[query.day]) :
        /\ m.line = lines[l].name /\ m.canteen = canteens[lines[l].canteen] /\ m.dish = dish
  BY DEF LineMenu
<1>3. PICK e \in plan : /\ e.day = query.day /\ PlacedBy(m, e)
                        /\ \A s \in query.shown : Shows(s, e) => WillDo(s, m)
  BY <1>1, <1>2 DEF MenuSeen, QuietlyAnswered
<1>4. e.line = l
  BY <1>1, <1>2, <1>3, EntryOnLine
<1>5. Alike(dish.name, e.dish.name)
  BY <1>2, <1>3 DEF PlacedBy
<1>6. ASSUME NEW s \in query.shown, Shows(s, e)
      PROVE  /\ "allergens" \in query.wants => dish.allergens \subseteq s.allergens
             /\ "facts" \in query.wants /\ dish.facts # None => s.facts # None
  BY <1>1, <1>2, <1>3, <1>6 DEF WillDo, Resolved
<1> QED
  BY <1>3, <1>4, <1>5, <1>6

\* Once the query is answered nothing is left to be looked at.
LEMMA AllLookedAt ==
    ASSUME QuietReadInv, solo, QuietlyAnswered
    PROVE  /\ \A e \in MealEntries(query.day) :
                 lines[e.line].canteen \in query.asked => IsShown(e)
           /\ \A s \in query.shown : \A e \in SidesLoader({s.line}, query.day) : IsShown(e)
<1>1. MealsListed /\ SidesListed
  BY DEF QuietReadInv, QuietInv, QuietlyAnswered
<1>2. query.canteens = {} /\ query.lines = {} /\ query.sideless = {}
  BY DEF QuietReadInv, PageReadInv, QuestionInv, AnsweredInFull, QuietlyAnswered
<1> QED
  BY <1>1, <1>2 DEF MealsListed, SidesListed

\* Who reads a plan that nobody is updating, while no two runs have met, sees all of it:
\* each dish of a line with a meal is in the answer, or an alike one that shows its
\* allergens and has its facts.  The pages of the website list a canteen once.
THEOREM ReadersSeeTheMenu == CanteensListedOnce => (ReadSpec => []QuietReadersSeeTheMenu)
<1> SUFFICES ASSUME CanteensListedOnce PROVE ReadSpec => []QuietReadersSeeTheMenu
  OBVIOUS
<1>1. QuietReadInv => QuietReadersSeeTheMenu
  <2> SUFFICES ASSUME QuietReadInv, solo, QuietlyAnswered,
                      query.asked # {}, NEW t \in query.shown,
                      NEW dish \in LineMenu(agreed[query.day], t.line)
               PROVE  \E s \in query.shown :
                        /\ s.line = t.line /\ Alike(dish.name, s.name)
                        /\ "allergens" \in query.wants => dish.allergens \subseteq s.allergens
                        /\ "facts" \in query.wants /\ dish.facts # None => s.facts # None
    BY DEF QuietReadersSeeTheMenu
  <2>1. t.line \in LineId /\ lines[t.line] # None /\ lines[t.line].canteen \in query.asked
    BY DEF QuietReadInv, PageReadInv, QuestionInv, LinesAsked, Open
  <2>2. PICK e \in plan :
          /\ e.day = query.day /\ e.line = t.line /\ Alike(dish.name, e.dish.name)
          /\ \A s \in query.shown : Shows(s, e) =>
                /\ "allergens" \in query.wants => dish.allergens \subseteq s.allergens
                /\ "facts" \in query.wants /\ dish.facts # None => s.facts # None
    BY <2>1, DishSeen
  <2>3. e \in MealEntries(query.day) \/ e \in SidesLoader({t.line}, query.day)
    BY <2>2 DEF MealEntries, SidesLoader
  <2>4. PICK s \in query.shown : Shows(s, e)
    BY <2>1, <2>2, <2>3, AllLookedAt DEF IsShown
  <2>5. s.line = t.line /\ s.dish = e.dish
    BY <2>2, <2>4 DEF Shows
  <2>6. Alike(s.dish.name, s.name)
    BY DEF QuietReadInv, PageReadInv, QuestionInv, ShownNamesFood
  <2>7. Alike(dish.name, s.name)
    BY <2>2, <2>5, <2>6 DEF Alike
  <2> QED
    BY <2>2, <2>4, <2>5, <2>7
<1> QED
  BY <1>1, InitQuietReadInv, NextQuietReadInv, PTL DEF ReadSpec

\* When no run has failed or met another and nobody updates the plan, a line without a
\* meal in the answer serves nothing on that day, or dishes that are stored as sides.  The
\* pages of the website list a canteen once.
THEOREM ClosedLinesServeSides == CanteensListedOnce => (ReadSpec => []OnlySidesLookClosed)
<1> SUFFICES ASSUME CanteensListedOnce PROVE ReadSpec => []OnlySidesLookClosed
  OBVIOUS
<1>1. QuietReadInv => OnlySidesLookClosed
  <2> SUFFICES ASSUME QuietReadInv, calm, QuietlyAnswered,
                      NEW l \in LineId, lines[l] # None, lines[l].canteen \in query.asked,
                      \A s \in query.shown : s.line # l,
                      NEW dish \in LineMenu(agreed[query.day], l)
               PROVE  \E e \in plan : /\ e.day = query.day /\ e.line = l
                                      /\ e.food \notin meals
                                      /\ Alike(dish.name, foods[e.food])
    BY DEF OnlySidesLookClosed
  <2>1. solo
    BY DEF QuietReadInv, PageReadInv, AloneInv
  <2>2. PICK e \in plan : /\ e.day = query.day /\ e.line = l /\ Alike(dish.name, e.dish.name)
    BY <2>1, DishSeen
  <2>3. e \notin MealEntries(query.day)
    BY <2>1, <2>2, AllLookedAt DEF IsShown, Shows
  <2>4. e.food \notin meals
    BY <2>2, <2>3 DEF MealEntries
  <2>5. Alike(e.dish.name, foods[e.food])
    BY DEF QuietReadInv, PageReadInv, MenuInv, NamesInv, PlanNamesFood
  <2>6. Alike(dish.name, foods[e.food])
    BY <2>2, <2>5 DEF Alike
  <2> QED
    BY <2>2, <2>4, <2>6
<1> QED
  BY <1>1, InitQuietReadInv, NextQuietReadInv, PTL DEF ReadSpec
=============================================================================
