----------------------------- MODULE SwKaParser -----------------------------
(***************************************************************************)
(* From the website of the Studierendenwerk to plans: a job asks for one   *)
(* page per canteen and week (swka_link_creator.rs, swka_html_request.rs), *)
(* reads the pages (html_parser.rs), sorts what they say by day            *)
(* (swka_parse_manager.rs), and hands it to the resolver canteen by canteen*)
(* (meal_plan_manager.rs).                                                 *)
(*                                                                         *)
(* A document is the tree the selectors of html_parser.rs find in it, with *)
(* None for a node or a text that is not there.  The resolver is one action*)
(* here; MealplanUpdate has its statements.  Jobs do not overlap here:     *)
(* parsing shares no state.                                                *)
(***************************************************************************)
EXTENDS Integers, FiniteSets, SequencesExt

CONSTANTS
    Canteens,       \* valid_canteens, in the order of the configuration
    WeeksToPoll,    \* number_of_weeks_to_poll
    DaysPerWeek,    \* 7 in the code: bounds the dates
    Start,          \* the days on which jobs may start
    Site,           \* Site[c, w]: the documents the website may answer with
    Text,           \* names, titles and codes that may stand in a document
    Allergen, Additive, \* the codes Allergen::parse and Additive::parse know
    FoodType, Unknown,  \* the titles FoodType::parse knows, FoodType::Unknown
    Closed,         \* LINE_CLOSED_MEAL_NAME
    Unreadable,     \* a date that is not of DATE_FORMAT, a value without its unit
    None

Optional(S) == {None} \cup S

\* Where a row of facts may have a rating or a value of the environment.
Area == {"co2", "co2_alternative", "water", "tierwohl", "regenwald"}

\* A row of the table of facts.
FactsNode ==
    [id: Nat, nutrients: Seq(Optional(Nat)), max_rating: Optional(Nat),
     rating: [Area -> Optional(Nat)], value: [Area -> Optional({Unreadable} \cup Nat)]]

\* A row with a dish: of one of eight types, with four prices, an icon, a list
\* of codes, and the number that leads to its row of facts.
DishNode ==
    [type: 0..7, name: Optional(Text), title: Optional(Text), info: Optional(Seq(Text)),
     prices: [1..4 -> Optional(Nat)], id: Optional(Nat)]

LineNode == [name: Optional(Text), dishes: Seq(DishNode), facts: Seq(FactsNode)]

\* A page: whether it is one of a canteen, its name, the dates of its tabs, and
\* the tabs.
Document ==
    [root: BOOLEAN, name: Optional(Text), nav: Seq({Unreadable} \cup Nat),
     days: Seq(Seq(LineNode))]

\* The configured canteens are a list, the weeks a number.
ASSUME LinksAssumption == Canteens \in Seq(Range(Canteens)) /\ WeeksToPoll \in Nat

\* None is what is not there.
ASSUME NoneAssumption ==
    None \notin Nat \cup FactsNode \cup Seq(Optional(Nat)) \cup FoodType
-----------------------------------------------------------------------------
VARIABLES
    job,        \* the job at work
    position,   \* column position of table canteen, by name
    served,     \* what table food_plan has for a canteen and a date
    seen        \* history: what the last job asked for and got, None if it failed

tables == <<position, served>>
vars == <<job, tables, seen>>

-----------------------------------------------------------------------------
(* Links                                                                   *)

CalendarWeek(date) == date \div DaysPerWeek

\* The canteens of one week, in their order.
GetUrls(date) == [i \in DOMAIN Canteens |-> <<Canteens[i], CalendarWeek(date)>>]

GetAllUrls(today) ==
    FlattenSeq([w \in 1..WeeksToPoll |-> GetUrls(today + DaysPerWeek * (w - 1))])

\* The pages jobs may ask for.
Asked == UNION {Range(GetUrls(today)) \cup Range(GetAllUrls(today)) : today \in Start}

ASSUME SiteAssumption == \A url \in Asked : Site[url] \subseteq Document

-----------------------------------------------------------------------------
(* Reading a document                                                      *)

\* The elements of s that are in S, in their order.
Only(s, S) ==
    LET kept[k \in 0..Len(s)] ==
            IF k = 0 THEN <<>>
            ELSE IF s[k] \in S THEN Append(kept[k - 1], s[k]) ELSE kept[k - 1]
    IN  kept[Len(s)]

PriceGroup == 1..4

\* The dishes of a line come by food type, then as they stand.
GetDishNodes(line) ==
    FlattenSeq([i \in 1..8 |->
        Only(line.dishes, {n \in Range(line.dishes) : n.type = i - 1})])

\* The prices that can be read are dealt out from the first group on; nothing is 0.
GetDishPrice(node) ==
    [g \in PriceGroup |->
        LET read == Only(node.prices, Range(node.prices) \ {None})
        IN  IF g \in DOMAIN read THEN read[g] ELSE 0]

\* Codes that are not known are left out.
ParseCodes(codes, known) == Only(codes, known)

GetDishAllergens(node) == IF node.info = None THEN <<>> ELSE ParseCodes(node.info, Allergen)

GetDishAdditives(node) == IF node.info = None THEN <<>> ELSE ParseCodes(node.info, Additive)

ParseFoodType(title) == IF title \in FoodType THEN title ELSE Unknown

GetFoodType(node) == IF node.title = None THEN Unknown ELSE ParseFoodType(node.title)

\* Values of nutrition and environment: one that is missing loses them all.
AllOrNothing(values) ==
    IF \E x \in DOMAIN values : values[x] = None THEN None ELSE values

\* The first row of facts beside the dishes of the line that carries the dish's id.
GetNutritionNode(line, node) ==
    LET rows == Only(line.facts, {row \in Range(line.facts) : row.id = node.id})
    IN  IF node.id = None \/ rows = <<>> THEN None ELSE Head(rows)

GetDishNutritionData(line, node) ==
    LET row == GetNutritionNode(line, node)
    IN  IF row = None THEN None ELSE AllOrNothing(row.nutrients)

\* The CO2 emissions may stand in either of two places, the rating and the value
\* each for itself.
OrElse(found, alternative) == IF found # None THEN found ELSE alternative

ThroughRegex(value) == IF value = Unreadable THEN None ELSE value

GetCO2Rating(row) == OrElse(row.rating.co2, row.rating.co2_alternative)

GetCO2Value(row) == ThroughRegex(OrElse(row.value.co2, row.value.co2_alternative))

GetWaterValue(row) == ThroughRegex(row.value.water)

\* The values of the environment stand in the row of nutrition facts.
GetDishEnvScore(line, node) ==
    LET row == GetNutritionNode(line, node)
    IN  IF row = None THEN None
        ELSE AllOrNothing(<<GetCO2Rating(row), GetCO2Value(row),
                            row.rating.water, GetWaterValue(row), row.rating.tierwohl,
                            row.rating.regenwald, row.max_rating>>)

GetDish(line, node) ==
    [name |-> node.name, price |-> GetDishPrice(node), food_type |-> GetFoodType(node),
     allergens |-> GetDishAllergens(node), additives |-> GetDishAdditives(node),
     env_score |-> GetDishEnvScore(line, node),
     nutrition_data |-> GetDishNutritionData(line, node)]

\* Dishes without a name, and the one that says the line is closed, are left out.
GetDishes(line) ==
    LET open == Only(GetDishNodes(line),
                     {n \in Range(line.dishes) : n.name \notin {None, Closed}})
        dish == [n \in Range(line.dishes) |-> GetDish(line, n)]
    IN  [k \in DOMAIN open |-> dish[open[k]]]

\* A line without a name is left out; the others keep their place.
GetLines(day) ==
    LET named == Only([k \in DOMAIN day |-> k], {k \in DOMAIN day : day[k].name # None})
        dishes == [line \in Range(day) |-> GetDishes(line)]
    IN  [j \in DOMAIN named |->
            [name |-> day[named[j]].name, dishes |-> dishes[day[named[j]]],
             pos |-> named[j] - 1]]

GetDates(doc) == Only(doc.nav, Range(doc.nav) \ {Unreadable})

\* A page without the name of a canteen has no canteens.
GetCanteenForAllDays(doc, pos) ==
    IF doc.name = None THEN <<>>
    ELSE [k \in DOMAIN doc.days |->
            [name |-> doc.name, lines |-> GetLines(doc.days[k]), pos |-> pos]]

\* Mutant: dates and days are paired as far as they go.
TransformUncounted(doc, pos) ==
    LET dates == GetDates(doc)
        canteens == GetCanteenForAllDays(doc, pos)
    IN  IF ~doc.root THEN None
        ELSE [k \in DOMAIN dates \cap DOMAIN canteens |->
                [date |-> dates[k], canteen |-> canteens[k]]]

\* Pairs of a date and a canteen, None for an error.
Transform(doc, pos) ==
    LET dates == GetDates(doc)
        canteens == GetCanteenForAllDays(doc, pos)
    IN  IF ~doc.root \/ Len(dates) # Len(canteens) THEN None
        ELSE [k \in DOMAIN dates |-> [date |-> dates[k], canteen |-> canteens[k]]]

-----------------------------------------------------------------------------
(* Jobs                                                                    *)

\* map is the HashMap from dates to canteens, as its entries in the order pushed.
Idle == [pc |-> "idle", kind |-> None, today |-> None, urls |-> <<>>, answers |-> <<>>,
         docs |-> <<>>, position |-> 0, map |-> <<>>, date |-> None, todo |-> <<>>]

Init ==
    /\ job = Idle
    /\ position = <<>>
    /\ served = <<>>
    /\ seen = None

Request(kind, today, urls) ==
    /\ job = Idle
    /\ job' = [Idle EXCEPT !.pc = "get_html_strings", !.kind = kind, !.today = today,
                           !.urls = urls]
    /\ seen' = None
    /\ UNCHANGED tables

StartUpdateParsing == \E today \in Start : Request("update", today, GetUrls(today))
StartFullParsing == \E today \in Start : Request("full", today, GetAllUrls(today))

Unanswered ==
    {i \in DOMAIN job.urls : \A k \in DOMAIN job.answers : job.answers[k].url # i}

\* The answers come in any order, from a website that changes as it pleases.
GetHtml(i) ==
    /\ job.pc = "get_html_strings"
    /\ i \in Unanswered
    /\ \E doc \in Site[job.urls[i]] :
          job' = [job EXCEPT !.answers = Append(@, [url |-> i, doc |-> doc])]
    /\ UNCHANGED <<tables, seen>>

\* Mutant: a client without a timeout.
NoTimeout(i) == FALSE

\* No connection, an error status, or no answer within client_timeout.
Timeout(i) ==
    /\ job.pc = "get_html_strings"
    /\ i \in Unanswered
    /\ job' = [job EXCEPT !.answers = Append(@, [url |-> i, doc |-> None])]
    /\ UNCHANGED <<tables, seen>>

\* Mutant: the documents as they came.
DocumentsAsTheyCame(answers) == [i \in DOMAIN answers |-> answers[i].doc]

\* Mutant: requests that failed are left out.
DocumentsOfSome(answers) ==
    LET got == Only(answers, {a \in Range(answers) : a.doc # None})
    IN  [i \in DOMAIN got |-> got[i].doc]

\* The documents in the order of the urls, however they came.
Documents(answers) ==
    [i \in DOMAIN answers |->
        answers[CHOOSE k \in DOMAIN answers : answers[k].url = i].doc]

\* join_all waits for every answer; one error among them is the error of all.
GetHtmlStrings ==
    LET docs == Documents(job.answers) IN
    /\ job.pc = "get_html_strings"
    /\ Unanswered = {}
    /\ job' = IF \E i \in DOMAIN docs : docs[i] = None THEN Idle
              ELSE [job EXCEPT !.pc = "transform", !.answers = <<>>, !.docs = docs]
    /\ UNCHANGED <<tables, seen>>

\* The next document; what it says of a date is pushed to that date's canteens.
ParseAndSort ==
    LET pos == job.position
        parsed == Transform(job.docs[pos + 1], pos)
    IN
    /\ job.pc = "transform"
    /\ pos < Len(job.docs)
    /\ job' = IF parsed = None THEN Idle
              ELSE [job EXCEPT !.position = pos + 1, !.map = @ \o parsed]
    /\ UNCHANGED <<tables, seen>>

\* The update job removes its own day from the map, the full job takes all.
StartResolving ==
    /\ job.pc = "transform"
    /\ job.position = Len(job.docs)
    /\ job' = [job EXCEPT !.pc = "start_resolving",
          !.map = Only(@, {e \in Range(@) : job.kind = "full" \/ e.date = job.today})]
    /\ seen' = [kind |-> job.kind, today |-> job.today, docs |-> job.docs]
    /\ UNCHANGED tables

\* The dates come in the order of a HashMap, the canteens of a date as pushed.
NextDate(d) ==
    LET entries == Only(job.map, {e \in Range(job.map) : e.date = d}) IN
    /\ job.pc = "start_resolving"
    /\ job.todo = <<>>
    /\ entries # <<>>
    /\ job' = [job EXCEPT !.date = d,
                          !.todo = [k \in DOMAIN entries |-> entries[k].canteen],
                          !.map = Only(@, {e \in Range(@) : e.date # d})]
    /\ UNCHANGED <<tables, seen>>

\* A row that is known by its key is changed, otherwise there is a new one.
Upsert(table, key, row) ==
    [k \in DOMAIN table \cup {key} |-> IF k = key THEN row ELSE table[k]]

\* The row of a canteen is known by its name.
UpdateCanteen(canteen) == position' = Upsert(position, canteen.name, canteen.pos)

\* RelationResolver::resolve, all of it.
Resolve ==
    LET canteen == Head(job.todo) IN
    /\ job.pc = "start_resolving"
    /\ job.todo # <<>>
    /\ UpdateCanteen(canteen)
    /\ served' = Upsert(served, <<canteen.name, job.date>>, canteen.lines)
    /\ job' = [job EXCEPT !.todo = Tail(@)]
    /\ UNCHANGED seen

\* An error anywhere in it: the position may have been written, and the plan is
\* whatever was inserted until then.  The next canteen follows.
ResolveWithErrors ==
    LET canteen == Head(job.todo) IN
    /\ job.pc = "start_resolving"
    /\ job.todo # <<>>
    /\ UpdateCanteen(canteen) \/ UNCHANGED position
    /\ served' = Upsert(served, <<canteen.name, job.date>>, None)
    /\ job' = [job EXCEPT !.todo = Tail(@)]
    /\ seen' = None

Finish ==
    /\ job.pc = "start_resolving"
    /\ job.todo = <<>> /\ job.map = <<>>
    /\ job' = Idle
    /\ UNCHANGED <<tables, seen>>

Work ==
    \/ \E i \in Unanswered : Timeout(i)
    \/ GetHtmlStrings
    \/ ParseAndSort
    \/ StartResolving
    \/ \E d \in {job.map[k].date : k \in DOMAIN job.map} : NextDate(d)
    \/ Resolve
    \/ ResolveWithErrors
    \/ Finish

Next ==
    \/ StartUpdateParsing
    \/ StartFullParsing
    \/ \E i \in Unanswered : GetHtml(i)
    \/ Work

Spec == Init /\ [][Next]_vars
FairSpec == Spec /\ WF_vars(Work)
-----------------------------------------------------------------------------
(* Properties                                                              *)

\* A reading of a page that does not go through the parser: the k-th tab of a
\* page is the plan of the k-th date, a price belongs to the group it is
\* written for, allergens are the codes that are allergens, and nutrition or
\* environment data are shown only when none of them is missing.
Tab(doc, date) == {k \in DOMAIN doc.nav : doc.nav[k] = date}

Codes(n) == IF n.info = None THEN {} ELSE Range(n.info)

RowOf(l, n) == {row \in Range(l.facts) : row.id = n.id}

\* All data of the environment are there: of the CO2 emissions one rating, and a
\* value in the first of the two places that has one.
FullyRated(row) ==
    /\ {row.rating.co2, row.rating.co2_alternative} # {None}
    /\ \/ row.value.co2 \notin {None, Unreadable}
       \/ row.value.co2 = None /\ row.value.co2_alternative \notin {None, Unreadable}
    /\ row.value.water \notin {None, Unreadable}
    /\ None \notin {row.rating.water, row.rating.tierwohl, row.rating.regenwald, row.max_rating}

\* A dish of a line with its row of the table of nutrition facts.
Written(l, n) ==
    [line |-> l.name, dish |-> n.name,
     price |-> [g \in PriceGroup |-> IF n.prices[g] = None THEN 0 ELSE n.prices[g]],
     food_type |-> IF n.title \in FoodType THEN n.title ELSE Unknown,
     allergens |-> Codes(n) \cap Allergen, additives |-> Codes(n) \cap Additive,
     nutrition_data |->
         {row.nutrients : row \in {x \in RowOf(l, n) : None \notin Range(x.nutrients)}},
     env_score |-> \E row \in RowOf(l, n) : FullyRated(row)]

\* Every dish of the day.
OnTab(doc, k) ==
    UNION {{Written(l, n) : n \in {x \in Range(l.dishes) : x.name \notin {None, Closed}}}
            : l \in {x \in Range(doc.days[k]) : x.name # None}}

\* A dish of a plan, in the same words.
Stored(l, d) ==
    [line |-> l.name, dish |-> d.name, price |-> d.price, food_type |-> d.food_type,
     allergens |-> Range(d.allergens), additives |-> Range(d.additives),
     nutrition_data |-> {d.nutrition_data} \ {None}, env_score |-> d.env_score # None]

Planned(lines) == UNION {{Stored(l, d) : d \in Range(l.dishes)} : l \in Range(lines)}

\* A page as the parser takes it to be: a day for every tab, no price before
\* which one is missing, no two rows of facts for one dish.
WellMade(doc) ==
    /\ Len(doc.nav) = Len(doc.days)
    /\ \A day \in Range(doc.days) : \A l \in Range(day) :
          /\ \A n \in Range(l.dishes) : \A g, h \in PriceGroup :
                g < h /\ n.prices[g] = None => n.prices[h] = None
          /\ \A x, y \in Range(l.facts) : x.id = y.id => x = y

\* Whatever is wrong with the pages otherwise.
PagesWellMade == \A url \in Asked : \A doc \in Site[url] : doc.root => WellMade(doc)

\* A page of a canteen has its name, which is no other canteen's, and every
\* canteen is configured once.
PagesNamed ==
    /\ \A i, j \in DOMAIN Canteens : Canteens[i] = Canteens[j] => i = j
    /\ \A u, v \in Asked : \A p \in Site[u], q \in Site[v] :
          p.root /\ q.root => (p.name = q.name <=> u[1] = v[1])

\* The dates of a document the last job was to resolve.
Wanted(doc) ==
    {d \in Range(doc.nav) \ {Unreadable} : seen.kind = "full" \/ d = seen.today}

\* After a job without errors the plan of a canteen and a date is what stands
\* under that date on its page: a date that cannot be read never moves dishes
\* to another day, and no canteen is given another one's page, whatever order
\* the answers came in.  Where a later page has the same date, it wins.
ServedAsListed ==
    job = Idle /\ seen # None =>
        \A i \in DOMAIN seen.docs :
            LET doc == seen.docs[i] IN
            \A d \in Wanted(doc) :
                (\A j \in DOMAIN seen.docs :
                    j > i /\ seen.docs[j].name = doc.name => d \notin Wanted(seen.docs[j]))
                => \E k \in Tab(doc, d) : Planned(served[doc.name, d]) = OnTab(doc, k)

\* The order in which the app lists the canteens is that of the configuration,
\* once a job has gone through and every date it resolved was listed by every
\* canteen.  Positions count the urls of all weeks and the dates are resolved
\* in any order: without this condition, or before the job is through, canteens
\* may stand in any order.
CanteensInOrder ==
    LET weekOf(i) == (i - 1) \div Len(Canteens)
        listed == UNION {Wanted(seen.docs[i]) : i \in DOMAIN seen.docs}
    IN
    /\ job = Idle
    /\ seen # None
    /\ listed # {}
    /\ \A i, j \in DOMAIN seen.docs :
          weekOf(i) = weekOf(j) => Wanted(seen.docs[i]) = Wanted(seen.docs[j])
    => \A i, j \in 1..Len(Canteens) :
          i < j => position[seen.docs[i].name] < position[seen.docs[j].name]

\* A job changes nothing unless it got every page it asked for, and every page
\* could be read: no plan is ever replaced by half a website.
NothingFromHalfAWebsite ==
    [][tables' # tables =>
          /\ Len(job.docs) = Len(job.urls)
          /\ \A i \in DOMAIN job.docs : job.docs[i].root]_vars

\* A website that does not answer does not hold up a job forever: the next one
\* can start.
JobsEnd == job # Idle ~> job = Idle
=============================================================================
