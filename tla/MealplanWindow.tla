--------------------------- MODULE MealplanWindow ---------------------------
(***************************************************************************)
(* Which days have a plan, and which days get_meals (database/request.rs)  *)
(* says have one, while days pass, jobs fetch plans and the server is      *)
(* restarted.  For the app null means that nothing is known of a day, and  *)
(* an empty list that the line is closed.                                  *)
(*                                                                         *)
(* Two places know the number of weeks: the parser, that fetches them, and *)
(* get_meals, that does not answer beyond them.  One line stands for all,  *)
(* and one request at a time for all requests: they meet only in           *)
(* first_date.  MealplanUpdate has the statements of a job, and jobs that  *)
(* overlap.                                                                *)
(***************************************************************************)
EXTENDS Integers, FiniteSets

CONSTANTS
    DaysPerWeek,    \* 7 in the code
    Weeks,          \* get_max_weeks_data()
    LastDay,        \* bounds the passing of days
    Open,           \* the days on which the website lists meals
    Unset, None

ASSUME WindowAssumption ==
    /\ DaysPerWeek \in Nat \ {0}
    /\ Weeks \in Nat \ {0}
    /\ LastDay \in Nat
    /\ Open \subseteq Int
    /\ None \notin Int /\ Unset \notin Int /\ Unset # None

VARIABLES
    today,
    plan,       \* the days of table food_plan
    job,        \* the job at work: the days it has still to resolve
    first_date, \* the cell: Unset, None or a day
    request,    \* get_meals: where it is, its day and its answer
    fetched,    \* history: the days the last full job of this process went through
    shown       \* history: the days this process has shown meals of

history == <<fetched, shown>>
vars == <<today, plan, job, first_date, request, history>>

Day == 0..(LastDay + DaysPerWeek * Weeks)
Monday(d) == d - (d % DaysPerWeek)

-----------------------------------------------------------------------------
NoJob == [todo |-> {}, at |-> None, days |-> {}]
NoRequest == [pc |-> "idle", day |-> None, answer |-> "none"]

Init ==
    /\ today = 0
    /\ plan = {}
    /\ job = NoJob
    /\ first_date = Unset
    /\ request = NoRequest
    /\ fetched = {}
    /\ shown = {}

(* The jobs ****************************************************************)

\* Mutant: the parser polls one week more.
WeeksToPollMore == Weeks + 1

WeeksToPoll == Weeks

\* The days of the weeks from this one on.
PolledDays == Monday(today)..(Monday(today) + DaysPerWeek * WeeksToPoll - 1)

StartFullParsing ==
    /\ job = NoJob
    /\ job' = [todo |-> PolledDays, at |-> None, days |-> PolledDays]
    /\ UNCHANGED <<today, plan, first_date, request, history>>

StartUpdateParsing ==
    /\ job = NoJob
    /\ job' = [todo |-> {today}, at |-> None, days |-> {}]
    /\ UNCHANGED <<today, plan, first_date, request, history>>

\* The days come in any order.
DissolveRelations(d) ==
    /\ job.at = None
    /\ d \in job.todo
    /\ plan' = plan \ {d}
    /\ job' = [job EXCEPT !.todo = @ \ {d}, !.at = d]
    /\ UNCHANGED <<today, first_date, request, history>>

EndOfJob == IF job.todo = {} THEN NoJob ELSE [job EXCEPT !.at = None]

\* With the last day the job is through.
AddToPlan ==
    /\ job.at # None
    /\ plan' = IF job.at \in Open THEN plan \cup {job.at} ELSE plan
    /\ job' = EndOfJob
    /\ fetched' = IF job.todo = {} /\ job.days # {} THEN job.days ELSE fetched
    /\ UNCHANGED <<today, first_date, request, shown>>

\* A statement fails, and the day stays without a plan.
ResolveFails ==
    /\ job.at # None
    /\ job' = [EndOfJob EXCEPT !.days = {}]
    /\ UNCHANGED <<today, plan, first_date, request, history>>

(* get_meals ***************************************************************)

FirstUnknownDay == Monday(today) + DaysPerWeek * Weeks

\* Mutant: the first unknown day is answered.
GetMealsOneMore(d) ==
    /\ request.pc = "idle"
    /\ request' = IF d > FirstUnknownDay
                  THEN [pc |-> "answered", day |-> d, answer |-> "null"]
                  ELSE [pc |-> "first_date", day |-> d, answer |-> "none"]
    /\ UNCHANGED <<today, plan, job, first_date, history>>

GetMeals(d) ==
    /\ request.pc = "idle"
    /\ request' = IF d >= FirstUnknownDay
                  THEN [pc |-> "answered", day |-> d, answer |-> "null"]
                  ELSE [pc |-> "first_date", day |-> d, answer |-> "none"]
    /\ UNCHANGED <<today, plan, job, first_date, history>>

\* SELECT MIN(serve_date)
MinServeDate ==
    IF plan = {} THEN {None} ELSE {d \in plan : \A e \in plan : d <= e}

\* Mutant: the date is asked for each time.
FirstDateAgain ==
    /\ request.pc = "first_date"
    /\ first_date' \in MinServeDate
    /\ request' = IF first_date' = None \/ first_date' > request.day
                  THEN [request EXCEPT !.pc = "answered", !.answer = "null"]
                  ELSE [request EXCEPT !.pc = "load"]
    /\ UNCHANGED <<today, plan, job, history>>

\* get_or_try_init: the first request fills the cell, also when there is no date.
FirstDate ==
    /\ request.pc = "first_date"
    /\ first_date' \in IF first_date = Unset THEN MinServeDate ELSE {first_date}
    /\ request' = IF first_date' = None \/ first_date' > request.day
                  THEN [request EXCEPT !.pc = "answered", !.answer = "null"]
                  ELSE [request EXCEPT !.pc = "load"]
    /\ UNCHANGED <<today, plan, job, history>>

ManyMeals ==
    /\ request.pc = "load"
    /\ request' = [request EXCEPT !.pc = "answered",
                      !.answer = IF request.day \in plan THEN "meals" ELSE "empty"]
    /\ shown' = IF request.day \in plan THEN shown \cup {request.day} ELSE shown
    /\ UNCHANGED <<today, plan, job, first_date, fetched>>

\* The answer is sent, or a statement fails; an error is not kept in the cell.
EndOfRequest ==
    /\ request # NoRequest
    /\ request' = NoRequest
    /\ UNCHANGED <<today, plan, job, first_date, history>>

(* Time ********************************************************************)

Midnight ==
    /\ today < LastDay
    /\ today' = today + 1
    /\ UNCHANGED <<plan, job, first_date, request, history>>

Restart ==
    /\ job' = NoJob
    /\ request' = NoRequest
    /\ first_date' = Unset
    /\ fetched' = {}
    /\ shown' = {}
    /\ UNCHANGED <<today, plan>>

Next ==
    \/ StartFullParsing \/ StartUpdateParsing
    \/ \E d \in Day : DissolveRelations(d)
    \/ AddToPlan \/ ResolveFails
    \/ \E d \in Day : GetMeals(d)
    \/ FirstDate \/ ManyMeals \/ EndOfRequest
    \/ Midnight \/ Restart

Spec == Init /\ [][Next]_vars
-----------------------------------------------------------------------------
(* Properties                                                              *)

\* No plan that was ever fetched lies beyond the days get_meals answers for,
\* however days passed and whenever jobs ran: the two places that count weeks
\* agree, and no fetched plan is kept from the users.
WindowCoversPlan == \A d \in plan : d < FirstUnknownDay

\* A line is not shown as closed on a day nobody has asked the website about:
\* once a full job of the current week went through, every day from this Monday
\* on that is answered with an empty list was fetched.  Until that job runs,
\* in the first hours of a Monday, or when it fails, the new last week of the
\* window is answered with empty lists.
ClosedDaysWereFetched ==
    /\ request.answer = "empty"
    /\ fetched # {} /\ \A d \in fetched : d >= Monday(today)
    /\ request.day >= Monday(today)
    => request.day \in fetched

\* What the users of a process have once seen does not become unknown: a day
\* that was shown with meals is never answered with null until the restart.
ShownDaysStayKnown == request.answer = "null" => request.day \notin shown

\* "Null is returned when there is not any information available yet": no
\* request for a day decides on null while the day has a plan.
NullOnlyWithoutPlan ==
    [][request'.answer = "null" /\ request.answer # "null" => request'.day \notin plan]_vars
=============================================================================
