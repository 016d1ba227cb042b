--------------------------- MODULE MealplanReads ---------------------------
(***************************************************************************)
(* A GraphQL query for the plan of a day, or for one meal, next to the     *)
(* jobs of MealplanUpdate that rewrite the tables it reads.                *)
(*                                                                         *)
(* The resolvers (layer/trigger/api/query.rs and types/) ask a dataloader  *)
(* (data/database/request/dataloader.rs) for each object of the query.  A  *)
(* dataloader collects what is asked within a millisecond into one         *)
(* statement.  What is selected of an object is resolved as soon as the    *)
(* object is there: the sides of a line may be read before the meals of    *)
(* another one, and there is no transaction around the statements.         *)
(* Additives and ratings are read like the allergens; sides are reached    *)
(* through a meal of their line only.                                      *)
(*                                                                         *)
(* The window of get_meals is the subject of MealplanWindow: the days here *)
(* are within it.                                                          *)
(***************************************************************************)
EXTENDS MealplanUpdate

CONSTANTS Selections  \* what queries select of a dish: sets of "allergens" and "facts"

VARIABLES
    query,  \* the query at work
    solo    \* history: no two runs were ever at work together

readVars == <<vars, query, solo>>

Unread == {None}

NoQuery ==
    [pc |-> "idle", day |-> None,
     wants |-> {},      \* what it selects of a dish
     asked |-> {},      \* the canteens it is about: none when it is about a meal
     canteens |-> {},   \* those whose lines are still to be read
     lines |-> {},      \* those whose meals are still to be read
     sideless |-> {},   \* those with a meal, whose sides are still to be read
     shown |-> {},      \* the dishes of the answer
     quiet |-> FALSE]   \* history: no run worked on the day since the start

ReadInit == Init /\ query = NoQuery /\ solo = TRUE

-----------------------------------------------------------------------------
(* The entries of the query                                                *)

\* The dish of an answer.  dish is history: what the website said of it.
Show(kind, entry) ==
    [kind |-> kind, line |-> entry.line, food |-> entry.food,
     name |-> foods[entry.food], dish |-> entry.dish,
     allergens |-> Unread, facts |-> Unread]

ShowMeal(entry) == Show("meal", entry)

ShowSide(entry) == Show("side", entry)

\* A statement serves any part of what is waiting for it.
Batch(waiting) == SUBSET waiting \ {{}}

\* None of the runs has still to change something of day d.
Quiet(runs, d) ==
    \A r \in Run : runs[r].pc = "idle" \/ (runs[r].day # d /\ d \notin runs[r].days)

AllCanteens == {c \in CanteenId : canteens[c] # None}

\* Null when there is no such canteen.
CanteenById(c) == {c} \cap AllCanteens

Ask(cs, d) ==
    /\ query = NoQuery
    /\ \E wants \in Selections :
          query' = [NoQuery EXCEPT !.pc = "reading", !.day = d, !.wants = wants,
                        !.quiet = Quiet(run, d), !.asked = cs, !.canteens = cs]

GetCanteens(d) == Ask(AllCanteens, d)

GetCanteen(c, d) == Ask(CanteenById(c), d)

\* The loader of canteen.lines
CanteenLinesLoader(part) == {l \in LineId : lines[l] # None /\ lines[l].canteen \in part}

Lines ==
    /\ query.pc = "reading"
    /\ \E part \in Batch(query.canteens) :
          query' = [query EXCEPT !.canteens = @ \ part,
                                 !.lines = @ \cup CanteenLinesLoader(part)]

\* FROM meal_detail JOIN food_plan
MealEntries(d) == {e \in plan : e.day = d /\ e.food \in meals}

\* Mutant: ALL instead of IN, which only answers for a line that is alone.
ManyMealsDataLoaderOfOne(part, d) == {e \in MealEntries(d) : \A l \in part : e.line = l}

ManyMealsDataLoader(part, d) == {e \in MealEntries(d) : e.line \in part}

Meals ==
    /\ query.pc = "reading"
    /\ \E part \in Batch(query.lines) :
          LET found == ManyMealsDataLoader(part, query.day) IN
          query' = [query EXCEPT !.lines = @ \ part,
                      !.shown = @ \cup {ShowMeal(e) : e \in found},
                      !.sideless = @ \cup {e.line : e \in found}]

\* Null, that is nothing to show, when the dish is not served there as a meal.
MealDataLoader(f, l, d) == {e \in MealEntries(d) : e.food = f /\ e.line = l}

GetMeal(f, l, d) ==
    LET found == MealDataLoader(f, l, d) IN
    /\ query = NoQuery
    /\ \E wants \in Selections :
          query' = [NoQuery EXCEPT !.pc = "reading", !.day = d, !.wants = wants,
                        !.quiet = Quiet(run, d),
                        !.shown = {ShowMeal(e) : e \in found},
                        !.sideless = {e.line : e \in found}]

\* Mutant: the meals of the line among the sides.
SidesLoaderOfAll(part, d) == {e \in plan : e.day = d /\ e.line \in part}

\* Mutant: joined with the view of meals, in which there are no sides.
SidesLoaderOfView(part, d) == {e \in MealEntries(d) : e.line \in part /\ e.food \notin meals}

\* AND food_id NOT IN (SELECT food_id FROM meal)
SidesLoader(part, d) == {e \in plan : e.day = d /\ e.line \in part /\ e.food \notin meals}

Sides ==
    /\ query.pc = "reading"
    /\ \E part \in Batch(query.sideless) :
          query' = [query EXCEPT !.sideless = @ \ part,
            !.shown = @ \cup {ShowSide(e) : e \in SidesLoader(part, query.day)}]

\* The dishes whose foods are asked for at a loader and were not read yet.
Waiting(field) == {s \in query.shown : s[field] = Unread}

AllergenLoader(part) == [f \in {s.food : s \in part} |-> allergens[f]]

Allergens ==
    /\ query.pc = "reading" /\ "allergens" \in query.wants
    /\ \E part \in Batch(Waiting("allergens")) :
          query' = [query EXCEPT !.shown =
            {IF s \in part THEN [s EXCEPT !.allergens = AllergenLoader(part)[s.food]] ELSE s :
                s \in @}]

\* Nutrition or environment data: the loaders leave out foods without a row.
FactsLoader(part) == [f \in {s.food : s \in part} |-> facts[f]]

Details ==
    /\ query.pc = "reading" /\ "facts" \in query.wants
    /\ \E part \in Batch(Waiting("facts")) :
          query' = [query EXCEPT !.shown =
            {IF s \in part THEN [s EXCEPT !.facts = FactsLoader(part)[s.food]] ELSE s :
                s \in @}]

\* What was asked of a dish, a side like a meal.
Resolved(s) ==
    /\ "allergens" \in query.wants => s.allergens # Unread
    /\ "facts" \in query.wants => s.facts # Unread

Answer ==
    /\ query.pc = "reading"
    /\ query.canteens = {} /\ query.lines = {} /\ query.sideless = {}
    /\ \A s \in query.shown : Resolved(s)
    /\ query' = [query EXCEPT !.pc = "answered"]

\* The answer is sent, or a statement failed and the query with it.
EndOfQuery == query # NoQuery /\ query' = NoQuery

-----------------------------------------------------------------------------
Read ==
    \/ \E d \in Day : GetCanteens(d) \/ \E c \in CanteenId : GetCanteen(c, d)
    \/ Lines
    \/ Meals
    \/ \E f \in FoodId, l \in LineId, d \in Day : GetMeal(f, l, d)
    \/ Sides
    \/ Allergens
    \/ Details
    \/ Answer
    \/ EndOfQuery

Update ==
    /\ Next
    /\ solo' = (solo /\ \A q, r \in Run : run'[q] # Idle /\ run'[r] # Idle => q = r)
    /\ query' = [query EXCEPT !.quiet = @ /\ Quiet(run', query.day)]

ReadNext == Update \/ (Read /\ UNCHANGED <<vars, solo>>)

ReadSpec == ReadInit /\ [][ReadNext]_readVars
-----------------------------------------------------------------------------
(* Properties                                                              *)

\* Whatever the jobs did between the statement that read a dish and the later
\* one that read its allergens: a dish is never shown without an allergen the
\* website gave for it when it was put on the plan.
ShownAllergensSuffice ==
    \A s \in query.shown : s.allergens # Unread => s.dish.allergens \subseteq s.allergens

\* Nor is it shown without nutrition or environment data the website gave for it.
ShownFactsSuffice ==
    \A s \in query.shown : s.facts # Unread /\ s.dish.facts # None => s.facts # None

\* The meals and the sides of a line are read by two statements, between which a job may
\* make a meal of a food that stood on the plan as a side.  No line shows a food as both;
\* two lines may.
NoDishTwice ==
    \A s, t \in query.shown :
        s.kind = "meal" /\ t.kind = "side" /\ s.line = t.line => s.food # t.food

\* The menu a page gives for a line.
LineMenu(page, l) ==
    {m.dish : m \in {x \in Menu(page) :
        x.line = lines[l].name /\ x.canteen = canteens[lines[l].canteen]}}

\* As long as runs do not overlap, the meals shown for a line come from one
\* page of the website, also when the query runs into an update, or after one
\* that failed or was stopped: never some of the old page and some of the new.
\* The sides may be those of another page.
MealsOfOnePage ==
    solo => \A l \in LineId :
        LET dishes == {s.dish : s \in {x \in query.shown : x.kind = "meal" /\ x.line = l}} IN
        dishes # {} => \E page \in Pages : dishes \subseteq LineMenu(page, l)

\* A query for the plans of canteens that is answered before a run touches the day,
\* which has a plan that is known to be good.
QuietlyAnswered ==
    query.pc = "answered" /\ query.quiet /\ agreed[query.day] # None

\* Who reads a plan that nobody is updating sees all of it: each dish of a line
\* that has a meal at all is in the answer, or an alike one that shows its
\* allergens and has its facts.
QuietReadersSeeTheMenu ==
    solo /\ QuietlyAnswered /\ query.asked # {} =>
        \A l \in {s.line : s \in query.shown} : \A dish \in LineMenu(agreed[query.day], l) :
            \E s \in query.shown :
                /\ s.line = l /\ Alike(dish.name, s.name)
                /\ "allergens" \in query.wants => dish.allergens \subseteq s.allergens
                /\ "facts" \in query.wants /\ dish.facts # None => s.facts # None

\* The app takes a line that is answered without meals for closed ("mensa closed
\* when data available but no meals in list").  When no run has failed or met
\* another and nobody updates the plan, such a line serves nothing, or nothing but
\* dishes that were once stored as sides, which stay sides when they are sold alone.
OnlySidesLookClosed ==
    calm /\ QuietlyAnswered =>
        \A l \in LineId :
            /\ lines[l] # None /\ lines[l].canteen \in query.asked
            /\ \A s \in query.shown : s.line # l
            => \A dish \in LineMenu(agreed[query.day], l) :
                  \E e \in plan : /\ e.day = query.day /\ e.line = l
                                  /\ e.food \notin meals
                                  /\ Alike(dish.name, foods[e.food])
=============================================================================
