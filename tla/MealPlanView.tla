---------------------------- MODULE MealPlanView ----------------------------
(***************************************************************************)
(* The view model of the app's meal plan (CombinedMealPlanAccess.dart): the *)
(* plan that is displayed, the day and the canteen that are selected, and  *)
(* the loads that are on their way.  Dart runs one callback after another, *)
(* so a step goes from one await to the next.  Loads end in any order.     *)
(*                                                                         *)
(* A plan is abstracted to the day and the canteen it is for, and to       *)
(* whether it has lines or is the placeholder the app makes for a day that *)
(* has no plan yet; filters and favorites are left out.                    *)
(***************************************************************************)
EXTENDS Integers, FiniteSets

CONSTANTS
    Date, Canteen,
    Load    \* loads that may be on their way: bounds their number

Key == [date : Date, canteen : Canteen]

VARIABLES
    selected,   \* _displayedDate and _activeCanteen
    shown,      \* _mealPlans
    noDataYet,
    stored,     \* the plans in the local database, and its placeholders
    published,  \* the plans the server has
    load        \* load -> what it waits for, with the keys it has asked for

vars == <<selected, shown, noDataYet, stored, published, load>>

NoKey == [date |-> "none", canteen |-> "none"]
Empty == [key |-> NoKey, lines |-> FALSE]
PlanOf(key) == [key |-> key, lines |-> TRUE]
Placeholder(key) == [key |-> key, lines |-> FALSE]

Idle == [pc |-> "idle", key |-> NoKey, requestingDate |-> "none"]

\* After _init with nothing in the local database and no connection.
Init ==
    /\ selected \in Key
    /\ shown = Empty /\ noDataYet = FALSE
    /\ stored = [plans |-> {}, days |-> {}, line |-> "none"]
    /\ published \in SUBSET Key
    /\ load = [l \in Load |-> Idle]

Await(l, pc, key, date) == load' = [load EXCEPT ![l] = [pc |-> pc, key |-> key, requestingDate |-> date]]

Done(l) == load' = [load EXCEPT ![l] = Idle]

\* All placeholders belong to one line, whose canteen is the last one it was
\* stored for.
Stored(key) ==
    IF key \in stored.plans THEN PlanOf(key)
    ELSE IF key.date \in stored.days /\ key.canteen = stored.line THEN Placeholder(key)
    ELSE Empty

\* The start of _setNewMealPlan: the database is asked for what is selected now.
SetNewMealPlan(l, key) ==
    /\ noDataYet' = FALSE
    /\ Await(l, "database", key, "none")

ChangeDate(l, d) ==
    /\ load[l] = Idle
    /\ selected' = [selected EXCEPT !.date = d]
    /\ SetNewMealPlan(l, selected')
    /\ UNCHANGED <<shown, stored, published>>

ChangeCanteen(l, c) ==
    /\ load[l] = Idle
    /\ selected' = [selected EXCEPT !.canteen = c]
    /\ SetNewMealPlan(l, selected')
    /\ UNCHANGED <<shown, stored, published>>

\* The rest of it.  When the database knows nothing the server is asked, for
\* what is selected by then.
PlanFromDatabase(l) ==
    /\ load[l].pc = "database"
    /\ IF Stored(load[l].key) # Empty
       THEN /\ shown' = Stored(load[l].key)
            /\ Done(l)
            /\ UNCHANGED noDataYet
       ELSE /\ noDataYet' = FALSE
            /\ Await(l, "server", selected, "none")
            /\ UNCHANGED shown
    /\ UNCHANGED <<selected, stored, published>>

\* What becomes of the answer: no connection, the plan, or a placeholder of what
\* is selected by then.
Answer(key) ==
    {Empty, IF key \in published THEN PlanOf(key) ELSE Placeholder(selected)}

NoData(answer) == answer # Empty /\ ~answer.lines

PlanFromServer(l) ==
    /\ load[l].pc = "server"
    /\ \E answer \in Answer(load[l].key) :
          /\ shown' = answer
          /\ noDataYet' = (noDataYet \/ NoData(answer))
    /\ Done(l)
    /\ UNCHANGED <<selected, stored, published>>

(* refreshMealplan *********************************************************)

RefreshMealplan(l) ==
    /\ load[l] = Idle
    /\ noDataYet' = FALSE
    /\ Await(l, "refresh", selected, selected.date)
    /\ UNCHANGED <<selected, shown, stored, published>>

RefreshAnswered(l) ==
    /\ load[l].pc = "refresh"
    /\ \E answer \in Answer(load[l].key) :
          /\ noDataYet' = (noDataYet \/ NoData(answer))
          /\ CASE answer = Empty -> Done(l)
               [] NoData(answer) -> Await(l, "update_placeholder", answer.key, load[l].requestingDate)
               [] OTHER -> Await(l, "update", answer.key, load[l].requestingDate)
    /\ UNCHANGED <<selected, shown, stored, published>>

\* updateAll of the database, also with a placeholder; then only the day is
\* compared.
RefreshStored(l) ==
    /\ load[l].pc \in {"update", "update_placeholder"}
    /\ LET key == load[l].key
           plan == IF load[l].pc = "update" THEN PlanOf(key) ELSE Placeholder(key)
       IN /\ stored' = IF plan.lines
                       THEN [stored EXCEPT !.plans = @ \cup {key}]
                       ELSE [stored EXCEPT !.days = @ \cup {key.date}, !.line = key.canteen]
          /\ shown' = IF load[l].requestingDate = selected.date THEN plan ELSE shown
    /\ Done(l)
    /\ UNCHANGED <<selected, noDataYet, published>>

(* refreshAll, started by _init ********************************************)

RefreshAll(l) ==
    /\ load[l] = Idle
    /\ Await(l, "all", NoKey, "none")
    /\ UNCHANGED <<selected, shown, noDataYet, stored, published>>

\* Every plan of the coming days, or nothing at all; then the database again.
AllAnswered(l) ==
    /\ load[l].pc = "all"
    /\ \/ stored' = [stored EXCEPT !.plans = @ \cup published]
       \/ UNCHANGED stored
    /\ Await(l, "reread", selected, "none")
    /\ UNCHANGED <<selected, shown, noDataYet, published>>

AllReread(l) ==
    /\ load[l].pc = "reread"
    /\ shown' = Stored(load[l].key)
    /\ SetNewMealPlan(l, selected)
    /\ UNCHANGED <<selected, stored, published>>

\* The backend gets a plan.
Publish(key) ==
    /\ published' = published \cup {key}
    /\ UNCHANGED <<selected, shown, noDataYet, stored, load>>

Next ==
    \/ \E l \in Load :
          \/ \E d \in Date : ChangeDate(l, d)
          \/ \E c \in Canteen : ChangeCanteen(l, c)
          \/ RefreshMealplan(l) \/ RefreshAll(l)
          \/ PlanFromDatabase(l) \/ PlanFromServer(l)
          \/ RefreshAnswered(l) \/ RefreshStored(l)
          \/ AllAnswered(l) \/ AllReread(l)
    \/ \E key \in Key : Publish(key)

Spec == Init /\ [][Next]_vars

-----------------------------------------------------------------------------
(* Properties                                                              *)

\* When nothing is on its way any more, getMealPlan returns a plan only for the
\* day and the canteen that are selected.  The interface says so; loads that end
\* in another order than they began break it, and so does a refresh that only
\* compares the day.
Quiet == \A l \in Load : load[l] = Idle

ShowsWhatIsSelected ==
    Quiet /\ ~noDataYet /\ shown # Empty => shown.key = selected
=============================================================================
