------------------------ MODULE MealplanWindowProofs ------------------------
(* Proofs about MealplanWindow, for weeks of any length, any number of      *)
(* weeks and any website.                                                  *)
EXTENDS MealplanWindow, TLAPS

-----------------------------------------------------------------------------
(* Mondays                                                                 *)

\* Division with remainder.
LEMMA DivMod ==
    ASSUME NEW n \in Nat \ {0}, NEW d \in Nat
    PROVE  /\ d % n \in 0..(n - 1)
           /\ d \div n \in Nat
           /\ d = n * (d \div n) + (d % n)
BY SMTT(20)

\* As days pass, the Monday of the week does not go back.
LEMMA MondaysFollow ==
    ASSUME NEW a \in Nat, NEW b \in Nat, a <= b
    PROVE  /\ Monday(a) \in Nat /\ Monday(b) \in Nat
           /\ Monday(a) <= Monday(b)
<1> DEFINE n == DaysPerWeek
           q == a \div n
           p == b \div n
<1>0. n \in Nat \ {0}
  BY WindowAssumption
<1>1. q \in Nat /\ a % n \in 0..(n - 1) /\ a = n * q + (a % n)
  BY <1>0, DivMod
<1>2. p \in Nat /\ b % n \in 0..(n - 1) /\ b = n * p + (b % n)
  BY <1>0, DivMod
<1>3. Monday(a) = a - (a % n) /\ Monday(b) = b - (b % n)
  BY DEF Monday
<1> HIDE DEF n, q, p
<1>4. n * q \in Nat /\ n * p \in Nat
  BY <1>0, <1>1, <1>2, SMTT(20)
<1>5. Monday(a) = n * q /\ Monday(b) = n * p /\ n * q <= a /\ b < n * p + n
  BY <1>0, <1>1, <1>2, <1>3, <1>4
<1>6. ASSUME q <= p PROVE n * q <= n * p
  BY <1>0, <1>1, <1>2, <1>6, SMTT(20)
<1>7. ASSUME p < q PROVE FALSE
  <2>1. p + 1 <= q
    BY <1>1, <1>2, <1>7
  <2>2. n * (p + 1) <= n * q
    BY <1>0, <1>1, <1>2, <2>1, SMTT(20)
  <2>3. n * (p + 1) = n * p + n
    BY <1>0, <1>2, SMTT(20)
  <2> QED
    BY <1>0, <1>4, <1>5, <2>2, <2>3
<1> QED
  BY <1>1, <1>2, <1>4, <1>5, <1>6, <1>7

\* The days that are polled are those before the first unknown day.
LEMMA PolledAreKnown ==
    ASSUME NEW t \in Nat
    PROVE  /\ Monday(t) <= t
           /\ DaysPerWeek * Weeks \in Nat
           /\ t < Monday(t) + DaysPerWeek * Weeks
<1>1. Monday(t) \in Int /\ Monday(t) <= t /\ t < Monday(t) + DaysPerWeek
  BY WindowAssumption, DivMod DEF Monday
<1>2. DaysPerWeek * Weeks \in Nat /\ DaysPerWeek <= DaysPerWeek * Weeks
  BY WindowAssumption, SMTT(20)
<1> QED
  BY <1>1, <1>2, WindowAssumption


-----------------------------------------------------------------------------
(* The inductive invariant                                                 *)

\* What the polled days of some day up to today are.
IsWindow(S) ==
    \/ S = {}
    \/ \E t \in 0..today : S = Monday(t)..(Monday(t) + DaysPerWeek * Weeks - 1)

RequestType ==
    /\ request \in [pc : {"idle", "first_date", "load", "answered"}, day : Day \cup {None},
                    answer : {"none", "null", "empty", "meals"}]
    /\ request.answer # "none" => request.pc = "answered"

\* Whatever a job has stored or will store is before the first unknown day.
JobsKeepToWindow ==
    /\ today \in Nat
    /\ job \in [todo : SUBSET Nat, at : Nat \cup {None}, days : SUBSET Nat]
    /\ plan \subseteq Nat
    /\ \A d \in plan \cup job.todo \cup ({job.at} \ {None}) : d < FirstUnknownDay

\* Full jobs go through the days of a week's window, and no others.
FullJobsFetchWindows == IsWindow(job.days) /\ IsWindow(fetched)

\* A request that reads the plan asks for a day before the first unknown one.
ReadsAreInWindow ==
    request.pc \in {"first_date", "load"} \/ request.answer = "empty" =>
        request.day \in Int /\ request.day < FirstUnknownDay

\* A day that was shown, or is about to be read, is not before the cell, and
\* the cell is filled.
CellIsBefore(d) ==
    /\ d \in Int /\ d < FirstUnknownDay
    /\ first_date # Unset /\ first_date # None /\ ~(first_date > d)

ShownDaysAreAfterCell ==
    /\ \A d \in shown : CellIsBefore(d)
    /\ request.pc = "load" => CellIsBefore(request.day)

IInv ==
    /\ RequestType
    /\ JobsKeepToWindow
    /\ FullJobsFetchWindows
    /\ ReadsAreInWindow
    /\ ShownDaysAreAfterCell
    /\ ShownDaysStayKnown

-----------------------------------------------------------------------------
\* The first unknown day does not go back.
LEMMA WindowMoves ==
    ASSUME today \in Nat, today' \in Nat, today <= today'
    PROVE  /\ FirstUnknownDay \in Int /\ FirstUnknownDay' \in Int
           /\ FirstUnknownDay <= FirstUnknownDay'
<1>1. Monday(today) \in Int /\ Monday(today') \in Int /\ Monday(today) <= Monday(today')
  BY MondaysFollow
<1>2. DaysPerWeek * Weeks \in Nat
  BY PolledAreKnown
<1>3. FirstUnknownDay' = Monday(today') + DaysPerWeek * Weeks
  BY DEF FirstUnknownDay, Monday
<1> QED
  BY <1>1, <1>2, <1>3 DEF FirstUnknownDay

\* The invariant holds at the start.
LEMMA Starts == Init => IInv
<1> SUFFICES ASSUME Init PROVE IInv
  OBVIOUS
<1>1. RequestType
  BY DEF Init, NoRequest, RequestType
<1>2. JobsKeepToWindow
  BY WindowAssumption DEF Init, NoJob, JobsKeepToWindow
<1>3. FullJobsFetchWindows
  BY DEF Init, NoJob, FullJobsFetchWindows, IsWindow
<1>4. ReadsAreInWindow /\ ShownDaysAreAfterCell /\ ShownDaysStayKnown
  BY WindowAssumption DEF Init, NoRequest, ReadsAreInWindow, ShownDaysAreAfterCell, ShownDaysStayKnown
<1> QED
  BY <1>1, <1>2, <1>3, <1>4 DEF IInv

\* Steps of a job leave requests and days alone.
LEMMA JobsKeepRequests ==
    ASSUME IInv, UNCHANGED <<today, first_date, request, shown>>
    PROVE  /\ RequestType' /\ ReadsAreInWindow' /\ ShownDaysAreAfterCell'
           /\ ShownDaysStayKnown'
BY DEF IInv, RequestType, ReadsAreInWindow, ShownDaysAreAfterCell, CellIsBefore,
       ShownDaysStayKnown, FirstUnknownDay, Monday, Day

\* Steps of a request leave jobs and days alone.
LEMMA RequestsKeepJobs ==
    ASSUME IInv, UNCHANGED <<today, plan, job, fetched>>
    PROVE  JobsKeepToWindow' /\ FullJobsFetchWindows'
BY DEF IInv, JobsKeepToWindow, FullJobsFetchWindows, IsWindow, FirstUnknownDay, Monday

\* Without a change of days, windows are what they were.
LEMMA WindowsStay ==
    ASSUME today' = today
    PROVE  /\ FirstUnknownDay' = FirstUnknownDay
           /\ \A S : IsWindow(S)' <=> IsWindow(S)
BY DEF FirstUnknownDay, Monday, IsWindow

\* Every step of a job keeps to the window.
LEMMA JobsPreserve ==
    ASSUME IInv,
           \/ StartFullParsing \/ StartUpdateParsing
           \/ \E d \in Day : DissolveRelations(d)
           \/ AddToPlan \/ ResolveFails
    PROVE  JobsKeepToWindow' /\ FullJobsFetchWindows'
<1>0. today \in Nat /\ today' = today
  BY DEF IInv, JobsKeepToWindow, StartFullParsing, StartUpdateParsing, DissolveRelations,
         AddToPlan, ResolveFails
<1>1. Monday(today) \in Nat /\ FirstUnknownDay \in Int
  BY <1>0, MondaysFollow, WindowMoves
<1>2. FirstUnknownDay' = FirstUnknownDay
  BY <1>0 DEF FirstUnknownDay, Monday
<1>3. DaysPerWeek * Weeks \in Nat /\ today < FirstUnknownDay
  BY <1>0, PolledAreKnown DEF FirstUnknownDay
<1>4. \A d \in plan \cup job.todo \cup ({job.at} \ {None}) : d < FirstUnknownDay
  BY DEF IInv, JobsKeepToWindow
<1>5. /\ job \in [todo : SUBSET Nat, at : Nat \cup {None}, days : SUBSET Nat]
      /\ plan \subseteq Nat
  BY DEF IInv, JobsKeepToWindow
<1>6. IsWindow(job.days) /\ IsWindow(fetched) /\ IsWindow({})
  BY DEF IInv, FullJobsFetchWindows, IsWindow
<1>7. \A S : today' = today /\ IsWindow(S) =>
          \/ S = {}
          \/ \E t \in 0..today' : S = Monday(t)..(Monday(t) + DaysPerWeek * Weeks - 1)
  BY DEF IsWindow
<1>8. NoJob \in [todo : SUBSET Nat, at : Nat \cup {None}, days : SUBSET Nat]
  BY DEF NoJob
<1>9. CASE StartFullParsing
  <2> DEFINE days == PolledDays
  <2>1. days \subseteq Nat /\ \A d \in days : d < FirstUnknownDay
    BY <1>1, <1>3 DEF PolledDays, WeeksToPoll, FirstUnknownDay
  <2>2. job' = [todo |-> days, at |-> None, days |-> days] /\ plan' = plan /\ fetched' = fetched
    BY <1>9 DEF StartFullParsing, history
  <2>3. today \in 0..today /\ days = Monday(today)..(Monday(today) + DaysPerWeek * Weeks - 1)
    BY <1>0 DEF PolledDays, WeeksToPoll
  <2> HIDE DEF days
  <2>4. JobsKeepToWindow'
    BY <1>0, <1>2, <1>4, <1>5, <2>1, <2>2 DEF JobsKeepToWindow
  <2>5. job'.days = days /\ fetched' = fetched
    BY <2>2
  <2> QED
    BY <1>0, <1>6, <1>7, <2>3, <2>4, <2>5 DEF FullJobsFetchWindows, IsWindow
<1>10. CASE StartUpdateParsing
  <2>1. job' = [todo |-> {today}, at |-> None, days |-> {}] /\ plan' = plan /\ fetched' = fetched
    BY <1>10 DEF StartUpdateParsing, history
  <2>2. JobsKeepToWindow'
    BY <1>0, <1>2, <1>3, <1>4, <1>5, <2>1 DEF JobsKeepToWindow
  <2> QED
    BY <1>0, <1>6, <1>7, <2>1, <2>2 DEF FullJobsFetchWindows, IsWindow
<1>11. CASE \E d \in Day : DissolveRelations(d)
  <2>1. PICK d : DissolveRelations(d)
    BY <1>11
  <2>2. /\ job' = [job EXCEPT !.todo = @ \ {d}, !.at = d] /\ d \in job.todo
        /\ plan' = plan \ {d} /\ fetched' = fetched
    BY <2>1 DEF DissolveRelations, history
  <2>3. /\ job' \in [todo : SUBSET Nat, at : Nat \cup {None}, days : SUBSET Nat]
        /\ job'.todo = job.todo \ {d} /\ job'.at = d /\ job'.days = job.days
    BY <1>5, <2>2
  <2>4. JobsKeepToWindow'
    BY <1>0, <1>2, <1>4, <1>5, <2>2, <2>3 DEF JobsKeepToWindow
  <2> QED
    BY <1>0, <1>6, <1>7, <2>2, <2>3, <2>4 DEF FullJobsFetchWindows, IsWindow
<1>12. /\ EndOfJob \in [todo : SUBSET Nat, at : Nat \cup {None}, days : SUBSET Nat]
       /\ EndOfJob.todo = job.todo /\ EndOfJob.at = None
       /\ EndOfJob.days = job.days \/ EndOfJob.days = {}
  BY <1>5, <1>8 DEF EndOfJob, NoJob
<1>13. CASE AddToPlan
  <2>1. /\ job' = EndOfJob /\ plan' \subseteq plan \cup {job.at} /\ job.at # None
        /\ fetched' = job.days \/ fetched' = fetched
    BY <1>13 DEF AddToPlan
  <2>2. JobsKeepToWindow'
    BY <1>0, <1>2, <1>4, <1>5, <1>12, <2>1 DEF JobsKeepToWindow
  <2>3. IsWindow(job'.days) /\ IsWindow(fetched')
    BY <1>6, <1>12, <2>1
  <2> QED
    BY <1>0, <1>7, <2>2, <2>3 DEF FullJobsFetchWindows, IsWindow
<1>14. CASE ResolveFails
  <2>1. /\ job' = [EndOfJob EXCEPT !.days = {}] /\ plan' = plan /\ fetched' = fetched
    BY <1>14 DEF ResolveFails, history
  <2> HIDE DEF EndOfJob
  <2>2. /\ job' \in [todo : SUBSET Nat, at : Nat \cup {None}, days : SUBSET Nat]
        /\ job'.todo = job.todo /\ job'.at = None /\ job'.days = {}
    BY <1>12, <2>1
  <2>3. JobsKeepToWindow'
    BY <1>0, <1>2, <1>4, <1>5, <2>1, <2>2 DEF JobsKeepToWindow
  <2> QED
    BY <1>0, <1>6, <1>7, <2>1, <2>2, <2>3 DEF FullJobsFetchWindows, IsWindow
<1> QED
  BY <1>9, <1>10, <1>11, <1>13, <1>14

\* Every step of a request preserves what is said of requests.
LEMMA RequestsPreserve ==
    ASSUME IInv,
           \/ \E d \in Day : GetMeals(d)
           \/ FirstDate \/ ManyMeals \/ EndOfRequest
    PROVE  IInv'
<1>0. today' = today /\ UNCHANGED <<plan, job, fetched>>
  BY DEF GetMeals, FirstDate, ManyMeals, EndOfRequest, history
<1>1. JobsKeepToWindow' /\ FullJobsFetchWindows'
  BY <1>0, RequestsKeepJobs
<1>2. FirstUnknownDay' = FirstUnknownDay /\ FirstUnknownDay \in Int
  BY <1>0, WindowMoves DEF IInv, JobsKeepToWindow, FirstUnknownDay, Monday
<1>3. Day \subseteq Int /\ None \notin Int
  BY WindowAssumption DEF Day
<1>4. CASE \E d \in Day : GetMeals(d)
  <2>1. PICK d \in Day : GetMeals(d)
    BY <1>4
  <2>2. RequestType'
    BY <2>1 DEF GetMeals, IInv, RequestType, Day
  <2>3. ReadsAreInWindow'
    BY <1>2, <1>3, <2>1, WindowAssumption DEF GetMeals, ReadsAreInWindow
  <2>4. ShownDaysAreAfterCell'
    BY <1>2, <2>1 DEF GetMeals, history, IInv, ShownDaysAreAfterCell, CellIsBefore
  <2>5. ShownDaysStayKnown'
    BY <1>2, <1>3, <2>1, WindowAssumption DEF GetMeals, history, IInv, ShownDaysAreAfterCell, CellIsBefore,
         ShownDaysStayKnown
  <2> QED
    BY <1>1, <2>2, <2>3, <2>4, <2>5 DEF IInv
<1>5. CASE FirstDate
  <2> DEFINE null == first_date' = None \/ first_date' > request.day
  <2>1. /\ request.pc = "first_date" /\ request' \in [pc : {"load", "answered"}, day : {request.day}, answer : {request.answer, "null"}]
        /\ request'.pc = IF null THEN "answered" ELSE "load"
        /\ request'.answer = IF null THEN "null" ELSE request.answer
        /\ shown' = shown /\ first_date' \in IF first_date = Unset THEN MinServeDate ELSE {first_date}
    BY <1>5 DEF FirstDate, history, IInv, RequestType
  <2>2. request.answer = "none" /\ request.day \in Int /\ request.day < FirstUnknownDay
        /\ request.day \in Day \cup {None} /\ request'.day = request.day
    BY <2>1 DEF IInv, RequestType, ReadsAreInWindow
  <2>3. shown # {} => first_date' = first_date
    BY <2>1 DEF IInv, ShownDaysAreAfterCell, CellIsBefore
  <2>4. RequestType'
    BY <2>1, <2>2 DEF RequestType, Day
  <2>5. ReadsAreInWindow'
    BY <1>2, <2>1, <2>2 DEF ReadsAreInWindow
  <2>6. first_date' # Unset
    <3>1. plan \subseteq Nat /\ Unset \notin Nat /\ Unset # None
      BY WindowAssumption DEF IInv, JobsKeepToWindow
    <3>2. MinServeDate \subseteq Nat \cup {None}
      BY <3>1 DEF MinServeDate
    <3>3. CASE first_date = Unset
      <4>1. first_date' \in MinServeDate
        BY <2>1, <3>3
      <4> QED
        BY <3>1, <3>2, <4>1
    <3>4. CASE first_date # Unset
      BY <2>1, <3>4
    <3> QED
      BY <3>3, <3>4
  <2>7. ShownDaysAreAfterCell'
    BY <1>2, <2>1, <2>2, <2>3, <2>6 DEF IInv, ShownDaysAreAfterCell, CellIsBefore
  <2>8. ShownDaysStayKnown'
    BY <2>1, <2>2, <2>3 DEF IInv, ShownDaysAreAfterCell, CellIsBefore, ShownDaysStayKnown
  <2> QED
    BY <1>1, <2>4, <2>5, <2>7, <2>8 DEF IInv
<1>6. CASE ManyMeals
  <2>1. /\ request.pc = "load" /\ first_date' = first_date
        /\ request' = [request EXCEPT !.pc = "answered",
                          !.answer = IF request.day \in plan THEN "meals" ELSE "empty"]
        /\ shown' \subseteq shown \cup {request.day}
    BY <1>6 DEF ManyMeals
  <2>2. /\ request'.pc = "answered" /\ request'.answer \in {"meals", "empty"}
        /\ request'.day = request.day
        /\ request' \in [pc : {"idle", "first_date", "load", "answered"}, day : Day \cup {None},
                         answer : {"none", "null", "empty", "meals"}]
    BY <2>1 DEF IInv, RequestType, Day
  <2>3. RequestType'
    BY <2>2 DEF RequestType, Day
  <2>4. ReadsAreInWindow'
    BY <1>2, <2>1, <2>2 DEF IInv, ReadsAreInWindow
  <2>5. ShownDaysAreAfterCell'
    BY <1>2, <2>1, <2>2 DEF IInv, ShownDaysAreAfterCell, CellIsBefore
  <2>6. ShownDaysStayKnown'
    BY <2>2 DEF ShownDaysStayKnown
  <2> QED
    BY <1>1, <2>3, <2>4, <2>5, <2>6 DEF IInv
<1>7. CASE EndOfRequest
  <2>1. request' = NoRequest /\ first_date' = first_date /\ shown' = shown
    BY <1>7 DEF EndOfRequest, history
  <2>2. RequestType' /\ ReadsAreInWindow' /\ ShownDaysStayKnown'
    BY <2>1, WindowAssumption DEF NoRequest, RequestType, ReadsAreInWindow, ShownDaysStayKnown
  <2>3. ShownDaysAreAfterCell'
    BY <1>2, <2>1 DEF NoRequest, IInv, ShownDaysAreAfterCell, CellIsBefore
  <2> QED
    BY <1>1, <2>2, <2>3 DEF IInv
<1> QED
  BY <1>4, <1>5, <1>6, <1>7

\* Midnight only widens the window, a restart only forgets.
LEMMA TimePreserves ==
    ASSUME IInv, Midnight \/ Restart
    PROVE  IInv'
<1>0. today \in Nat /\ today' \in Nat /\ today <= today' /\ plan' = plan
  BY DEF IInv, JobsKeepToWindow, Midnight, Restart
<1>1. /\ FirstUnknownDay \in Int /\ FirstUnknownDay' \in Int
      /\ FirstUnknownDay <= FirstUnknownDay'
  BY <1>0, WindowMoves
<1>2. \A S : IsWindow(S) =>
          \/ S = {}
          \/ \E t \in 0..today' : S = Monday(t)..(Monday(t) + DaysPerWeek * Weeks - 1)
  BY <1>0 DEF IsWindow
<1>3. CASE Midnight
  <2>0. UNCHANGED <<plan, job, first_date, request, fetched, shown>>
    BY <1>3 DEF Midnight, history
  <2>1. RequestType' /\ ShownDaysStayKnown'
    BY <2>0 DEF IInv, RequestType, ShownDaysStayKnown, Day
  <2>2. JobsKeepToWindow'
    BY <1>0, <1>1, <2>0 DEF IInv, JobsKeepToWindow
  <2>3. FullJobsFetchWindows'
    BY <1>2, <2>0 DEF IInv, FullJobsFetchWindows, IsWindow
  <2>4. ReadsAreInWindow'
    BY <1>1, <2>0 DEF IInv, ReadsAreInWindow
  <2>5. ShownDaysAreAfterCell'
    BY <1>1, <2>0 DEF IInv, ShownDaysAreAfterCell, CellIsBefore
  <2> QED
    BY <2>1, <2>2, <2>3, <2>4, <2>5 DEF IInv
<1>4. CASE Restart
  <2>0. job' = NoJob /\ request' = NoRequest /\ fetched' = {} /\ shown' = {}
    BY <1>4 DEF Restart
  <2>1. RequestType' /\ ReadsAreInWindow' /\ ShownDaysAreAfterCell' /\ ShownDaysStayKnown'
    BY <2>0, WindowAssumption
    DEF NoRequest, RequestType, ReadsAreInWindow, ShownDaysAreAfterCell, ShownDaysStayKnown
  <2>2. JobsKeepToWindow'
    BY <1>0, <1>1, <2>0 DEF NoJob, IInv, JobsKeepToWindow
  <2>3. FullJobsFetchWindows'
    BY <2>0 DEF NoJob, FullJobsFetchWindows, IsWindow
  <2> QED
    BY <2>1, <2>2, <2>3 DEF IInv
<1> QED
  BY <1>3, <1>4

\* Every step preserves the invariant.
LEMMA Preserved == IInv /\ [Next]_vars => IInv'
<1> SUFFICES ASSUME IInv, [Next]_vars PROVE IInv'
  OBVIOUS
<1>1. CASE UNCHANGED vars
  BY <1>1, JobsKeepRequests, RequestsKeepJobs DEF vars, history, IInv
<1>2. CASE \/ StartFullParsing \/ StartUpdateParsing
           \/ \E d \in Day : DissolveRelations(d)
           \/ AddToPlan \/ ResolveFails
  <2>1. UNCHANGED <<today, first_date, request, shown>>
    BY <1>2 DEF StartFullParsing, StartUpdateParsing, DissolveRelations, AddToPlan, ResolveFails,
         history
  <2> QED
    BY <1>2, <2>1, JobsPreserve, JobsKeepRequests DEF IInv
<1>3. CASE (\E d \in Day : GetMeals(d)) \/ FirstDate \/ ManyMeals \/ EndOfRequest
  BY <1>3, RequestsPreserve
<1>4. CASE Midnight \/ Restart
  BY <1>4, TimePreserves
<1> QED
  BY <1>1, <1>2, <1>3, <1>4 DEF Next

-----------------------------------------------------------------------------
(* Results                                                                 *)

\* For weeks of any length, any number of them and any website: no plan is ever
\* stored that get_meals would not answer for.
THEOREM PlansAreInWindow == Spec => []WindowCoversPlan
<1>1. IInv => WindowCoversPlan
  BY DEF IInv, JobsKeepToWindow, WindowCoversPlan
<1> QED
  BY <1>1, Starts, Preserved, PTL DEF Spec

\* Once a day was shown with meals, the process never says it knows nothing of
\* it, whatever jobs, midnights and other requests come in between.
THEOREM ShownStaysKnown == Spec => []ShownDaysStayKnown
<1>1. IInv => ShownDaysStayKnown
  BY DEF IInv
<1> QED
  BY <1>1, Starts, Preserved, PTL DEF Spec

\* A day from this Monday on that is answered as closed was asked for, once a
\* full job of this week went through.
THEOREM ClosedWasFetched == Spec => []ClosedDaysWereFetched
<1>1. IInv => ClosedDaysWereFetched
  <2> SUFFICES ASSUME IInv, request.answer = "empty", fetched # {},
                      \A d \in fetched : d >= Monday(today), request.day >= Monday(today)
               PROVE  request.day \in fetched
    BY DEF ClosedDaysWereFetched
  <2>1. PICK t \in 0..today : fetched = Monday(t)..(Monday(t) + DaysPerWeek * Weeks - 1)
    BY DEF IInv, FullJobsFetchWindows, IsWindow
  <2>2. today \in Nat /\ request.day \in Int /\ request.day < FirstUnknownDay
    BY DEF IInv, JobsKeepToWindow, ReadsAreInWindow
  <2>3. Monday(t) \in Int /\ Monday(today) \in Int /\ Monday(t) <= Monday(today)
    BY <2>2, MondaysFollow
  <2>4. DaysPerWeek * Weeks \in Nat /\ Monday(t) \in fetched
    BY <2>1, <2>2, <2>3, PolledAreKnown
  <2>5. Monday(t) = Monday(today)
    BY <2>3, <2>4
  <2> QED
    BY <2>1, <2>2, <2>3, <2>4, <2>5 DEF FirstUnknownDay
<1> QED
  BY <1>1, Starts, Preserved, PTL DEF Spec
=============================================================================
