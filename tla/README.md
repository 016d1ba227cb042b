# MensaApp in TLA+

MensaApp shows students the meal plans of their canteens, lets them rate
dishes, publish pictures of them, and report pictures that do not belong there.
It consists of a backend in Rust (`src/backend`, async, PostgreSQL behind
`sqlx`) and an app in Flutter (`src/app`). This directory holds the TLA+
specification of its core, the model checking configurations and the proofs.

Reading order: section 1 is the system, section 2 the modules, section 3 the
runs, section 4 the proofs, section 5 what is left out, section 6 the plan.

## 1. The system

### 1.1 Parts, their state, and how they meet

| part | state it keeps | operations | what makes it correct |
| --- | --- | --- | --- |
| Image commands (`command_handler.rs`, `database/command.rs`, `file_handler`, `mail_sender.rs`) | tables `image`, `image_report`; the image directory; mails sent | `report_image`, `add_image`, `delete_image`, `verify_image` | a picture disappears only when enough different users reported it; enough reports do make it disappear; a verified picture is left alone; rows and files agree; the administrator hears of hidden pictures |
| Votes and ratings (same files) | `image_rating`, `meal_rating` | `add/remove_image_upvote/downvote`, `set_meal_rating` | one vote per user and picture, the last one wins |
| Request data access (`database/request.rs`, dataloaders) | a `OnceCell` with the first date of any plan | `get_meals`, `get_canteens`, `get_visible_images` ... | a plan that was fetched is answered, a day nobody asked about is not called closed; hidden pictures are not served |
| Image rank (view `image_detail`) | none | a formula over votes, age and approval | order of the pictures of a dish |
| Meal plan management (`meal_plan_manager.rs`, `relation_resolver.rs`, `database/mealplan_management.rs`) | `canteen`, `line`, `food`, `meal`, `food_allergen`, `food_plan` ... | `start_update_parsing`, `start_full_parsing` | the plan of a day is what the website says; a dish keeps its food (and so its ratings and pictures); its allergens are never missing |
| Scheduler (`scheduler.rs`) | `Created`, `Running`, `Stopped` | starts the two jobs by cron, stops | jobs run between start and shutdown |
| API server, startup (`server.rs`, `startup/server.rs`) | `Created`, `Running`, `Finished` | start, graceful shutdown | starts and stops in order |
| Authentication, GraphQL (`auth.rs`, `mutation.rs` ...) | none between requests | decides whether a command runs | only authorised commands run |
| Image validation, preprocessing | none | refuses or scales a picture | nothing is stored of a refused picture |
| Meal plan parser (`swka_parser`) | none | fetches and parses the website | one plan per day, or an error |
| App: `CombinedMealPlanAccess` | selected date and canteen, displayed plan, filter | change date or canteen, refresh | what is displayed belongs to what is selected |
| App: `FavoriteMealAccess` | favorites | add, remove, refresh | a removed favorite stays removed |
| App: `ImageAccess` | the vote it displays | vote, report | the displayed vote is the stored one |
| App: `SQLiteDatabaseAccess`, settings, `GraphQlServerAccess` | local plans, settings | `updateAll`, get, set | one plan per line and day |

The app sends GraphQL requests; the API server turns each into a call of a
command or of the request data access, in a task of its own. The scheduler
calls meal plan management. All of them meet in the database, and the image
commands also in the image directory. **No operation of the backend uses a
database transaction or a lock**: every statement is atomic by itself, and
between two statements any other task may run.

### 1.2 What is hard about it

* *Interleaving.* A handler of `report_image` reads the report count, inserts
  its report, and hides the picture in three statements; a canteen's plan is
  deleted first and inserted dish by dish.
* *Partial failure.* Every statement may fail; a client that closes its
  connection drops the handler at its next await; the process may stop. A
  picture is a row and a file, a new food is up to six statements.
* *Ordering.* An upload and a deletion of one picture, two votes, two answers
  to the app, a report and a verification may overtake each other.
* *Stale state.* Decisions are taken on rows read several awaits earlier; the
  first date of all plans is read once per process.
* *Numbers.* The report barrier grows with the square of a picture's age; the
  average price of a line is a rounded integer; weeks are counted in two places.
* *Lifetime.* Tasks tell each other through a `Notify`, the process may be
  killed anywhere, and what was read at its start is kept until its end.

PROJECT.json lists each of these at the line where it bites, with the
properties that look after it, or a note where nothing does.

## 2. The modules

```
ModeratedGallery          what users and administrators see of the pictures
    ^ implemented by                       ^ extended by
ImageCommands                              MealPage
    one action per await                       votes, ratings, reports and queries of
    ^ MCImageCommands + MCImageReports,        one app, and the page it shows
      MCImageLiveness, MCImageBarrier          ^ MCMealPage
    ^ ImageCommandsProofs                      ^ MealPageProofs

SwKaParser                from the website to plans: requests, pages, days
    ^ MCSwKaParser,  ^ SwKaParserProofs

MealplanUpdate            the two jobs: one action per statement
    ^ MCMealplanUpdate + MCPlanOverlap, MCPlanSequence
    ^ MealplanUpdateProofs <- MealplanMenuProofs <- MealplanReadsProofs (below)
    ^ extended by
MealplanReads             a query that reads while the jobs write
    ^ MCMealplanReads,  ^ MealplanReadsProofs

MealplanWindow            which days are fetched and which are answered
    ^ MealplanWindow.cfg, MealplanWindowCell.cfg,  ^ MealplanWindowProofs

ApiRequests  ImageMigration
    ^ extended by
Server                    the backend process: start, requests, jobs, shutdown
    ^ MCServer,  ^ ServerProofs

MealPlanView              the app's plan of the day
    ^ MealPlanView.cfg
```

Three modules look at the jobs, each with what the other two abstract:
`SwKaParser` has the requests and the pages and one action for the resolver,
`MealplanUpdate` has the resolver's statements and starts from what was parsed,
and `MealplanWindow` has the days that pass and a plan that is there or not.

### 2.1 ImageCommands

State: `linked`, `visible`, `approved`, `linkDate` are table `image` (the sets
of identifiers with a row, with `currently_visible`, with `approved`, and the
column `link_date`), `reports` is table `image_report`, `files` the image
directory, `broken` those of them without a whole picture, `notified` the pictures the administrator was told of, `day` the
date, `used` the identifiers handed out so far. `req[r]` is a handler in
flight: the call it makes next, its picture and user, and `seen`, the
`report_count` of its local copy of the row. `cut` is history: which pictures
had a handler that stopped early, and where.

| action | code |
| --- | --- |
| `ReportImage`, `GetImageInfo`, `AddReport`, `HideImage`, `NotifyHidden` | `CommandHandler::report_image`, await by await: `get_image_info` (an error without a row, `Ok` for an approved one), `add_report` (refused by the key and the foreign key), `will_be_hidden` on the local copy, `hide_image`, the mail |
| `LinkImage`, `SaveImage`, `EncodeImage`, `RevertLinkImage` | `CommandHandler::add_image`: `link_image`, the two halves of `image.save` (which creates the file and then encodes the picture into it, so that a failure may leave a file without a picture), and `revert_link_image`, which deletes the row only, when either fails |
| `DeleteImage`, `RemoveFile` | `CommandHandler::delete_image`: the row with what hangs on it, then the file |
| `VerifyImage` | one `UPDATE` |
| `CutOff` | a statement that fails (`?` returns), a future dropped with its connection, or a stop of the process, at any await |
| `NextDay` | midnight |

What is merged and why: `get_image_info` reads the row and the votes in two
queries, of which only the row is used in a decision; preprocessing and
validation come before the first change and appear only as the possibility
that the handler never gets to `LinkImage`; the mails of deletions,
verifications and reports that hide nothing change nothing a later step reads.
A file write runs in a blocking task, which a dropped future does not stop: it
may still happen, or fail half way, at `CutOff`. A write that lands even later, after further
steps, is not modelled. `days_since` takes the backend's date and `link_date`
the database's; both are `day` here (a difference of one day leaves the barrier
of a new picture at 5). The barrier is computed in `f64` as
`1.0 / 35.0 * t * t + 5.0` and cut to an integer, here with integer division:
for ages up to 30 a multiple of 35 is reached only by age 0, so rounding in
`f64` cannot change the result.

### 2.2 ModeratedGallery

The same pictures without requests, files or statements: `unused`, `shown`,
`hidden`, `gone`, who reported them and whether they are verified. Pictures
never come back into view, and are hidden only with `MinReports` recorded
reports. `ImageCommands` implements it under the mapping `PhaseOf`, which reads
the phase off the tables.

### 2.3 SwKaParser

State: `job` is the job at work (the urls, the answers in the order they came,
the documents, and `map`, the `HashMap` from dates to canteens), `position` the
column of table `canteen`, `served` what a canteen's plan of a date is. `seen`
is history: what the last job got.

| action or operator | code |
| --- | --- |
| `StartUpdateParsing`, `StartFullParsing`, `GetUrls`, `GetAllUrls` | `MealPlanManager`, `SwKaLinkCreator` |
| `GetHtml`, `Timeout`, `GetHtmlStrings` | `SwKaHtmlRequest`: `join_all` waits for all, one error is the error of all |
| `Transform` with `GetDates`, `GetLines`, `GetDishes`, `GetDishPrice` ... | `HTMLParser`, function by function |
| `ParseAndSort`, `StartResolving`, `NextDate` | `SwKaParseManager`, and the loops of `MealPlanManager` |
| `Resolve`, `ResolveWithErrors`, `UpdateCanteen` | `RelationResolver::resolve` as a whole |

A document is the tree that the selectors of `html_parser.rs` find, with `None`
for a node or a text that is not there; regular expressions are abstracted to
whether they find something; a value of the environment may be there without
its unit (`Unreadable`), and rating and value of the CO2 emissions are each
looked for in two places, by themselves (`GetCO2Rating`, `GetCO2Value`). The parser's operators are pure; the reference
they are compared with is `OnTab`, a reading of the page that does not go
through them. The filters of the code are all `Only(s, S)`, the elements of a
sequence that are in a set, written as a recursive function so that it can be
reasoned about; `Upsert` is a row that is changed or inserted. `SiteAssumption`
says that the website answers with documents, whatever stands in them. Two more
conditions are on pages and configuration, `PagesWellMade` and `PagesNamed`:
they are no assumptions of the module but premises of two theorems (section 4),
and the run checks that its website fulfils them (`MCPages`).

### 2.4 MealplanUpdate

State: one variable per table (`canteens`, `lines`, `foods`, `meals`,
`allergens`, `facts`, `plan`), and `run[r]`, a run of a job: what parsing
returned (`web`), the statement it makes next, and what its nested loops over
days, canteens, lines and dishes have still to do. An entry of `plan` keeps the
parsed dish it came from in place of the prices. `agreed` and `calm` are
history: what the plan of a day should be, if runs did not disagree or fail,
and whether all runs so far came one after the other without failing.

| action | code |
| --- | --- |
| `StartUpdateParsing`, `StartFullParsing` | `MealPlanManager`, with what the parser returned; a day the website does not have is left alone |
| `GetSimilarCanteen`, `InsertCanteen`, `DissolveRelations` | `RelationResolver::resolve` |
| `GetSimilarLine`, `InsertLine`, `Average` | `resolve_line` |
| `GetSimilarMeal`, `GetSimilarSide`, `IsSide`, `UpdateFood`, `UpdateFacts`, `InsertFood`, `InsertMeal`, `InsertAllergens`, `InsertFacts`, `AddToPlan` | `resolve_dish`, with the statements of `insert_food` and `update_food` one by one |
| `Fail` | an error at the statement the run stands before: it ends the dish, the line or the canteen, and the loop around it goes on |
| `Stop` | the process stops |

Similarity of names is a constant, `Similarity`; all that is assumed of it is
that it is symmetric and largest for equal names. Canteens and lines match by
equal names, since nothing else about their thresholds matters to a website
that has each of them once. `food_type` is part of a dish's name: dishes of
different types never match. `facts` stands for either of the two tables of
nutrition and environment data, which the same statements write one after the
other: a plain insert for a new food, an upsert for a known one. Positions and
additives are read by no decision; their statements can fail, and the effect
of that is a `Fail` at a neighbouring step. `get_similar_side` is always
called; its result counts only when no meal was found, and so it is a step only
then. Pages are read at one moment per run.

### 2.5 MealplanReads

`MealplanUpdate` with one GraphQL query beside it. `query` is what it has still
to ask each dataloader for and what it has read; a dataloader collects keys
within a millisecond, so what waits for it is read by one statement or by
several (`Batch`). What is selected of an object is resolved as soon as that
object is there: canteens, lines, meals, sides and details do not wait for each
other beyond that, and the sides of one line may be read before the meals of
another. `Lines`, `Meals`, `Sides`, `Allergens`, `Details` are the
loaders, `GetCanteens`, `GetCanteen`, `GetMeal` the entries of `query.rs`.
`shown` collects the dishes of the answer, each with the parsed dish it came
from (history), so that properties can compare what is shown with what the
website said.

### 2.6 MealplanWindow

`plan` is the set of days with a plan, `job` what a job has still to resolve,
`first_date` the cell of `PersistentRequestData`, `request` one `get_meals`.
`PolledDays` counts weeks as the parser does, `FirstUnknownDay` as `get_meals`
does. `Midnight` and `Restart` are the environment; `fetched` and `shown` are
history of one process.

### 2.7 Server, ApiRequests, ImageMigration

`pc` is the await of `Server::run`; `scheduler` and `web` are the tasks it has
spawned, `scheduler_stopped` and `web_shutdown` the two `Notify` (one permit is
kept for a task that does not wait yet). `env` is the environment it was
started with; `NewDataAccessFactory`, `NewComponents`, `NewApiServer`,
`NewScheduler` read it in the order of the code, and each may end the process.

`at[s]` is a request: `AuthMiddleware` and `AdminAuthMiddleware`, the resolver
with `check_authentication`, the upload, preprocessing, both checks of the
picture, and the command. Deletion of a picture is two steps that
`ImageMigration` is composed with; other commands are one, since
`ImageCommands` and `MealPage` have their statements. A hash is abstracted to
what it was made of. `Asked(s).header` may be missing, unreadable, incomplete,
of an unknown key or made with another key. A request the rate limit holds back
is one whose first step comes later. The three waits that have no timeout in the
code, for a client's body, for Google, and for a client that has to take its
answer before the graceful shutdown is through, are in `WaitsForOthers`.

`ImageMigration` is the subcommand `--migrate-images`: select, download, save,
clear the url, picture by picture, with failures and kills in between, next to
a server that deletes.

### 2.8 MealPlanView

`CombinedMealPlanAccess` as event handlers: `load[l]` is a function of it that
waits, with the date and canteen it has read before the await. `ChangeDate`,
`ChangeCanteen`, `RefreshMealplan`, `RefreshAll` begin one; the other actions
are the code between two awaits. A plan is abstracted to what it is for and to
whether it has lines. `stored` is as much of the local database as this reads.

### 2.9 MealPage

The pictures are those of `ModeratedGallery`, which the image commands
implement; `imageRating` and `mealRating` are the tables. `plan` is the meal in
the plan of the day, `page` the object an open page shows, and `link` what one
is to the other: the list shows the meal of the plan itself, or with active
filters (the default) a `Meal.copy`, which shares the list of pictures with the
plan but has a rating of its own; once the plan was loaded again the page's
object is an older one. `changedRating` are the stars the page has filled, also
those that were only tapped. `call[c]` is a call under way: `onPage` and
`onPlan` say whether the object it was made on is still that of the page, and of
the plan.

| action | code |
| --- | --- |
| `TapUp`, `TapDown`, `TapReport`, `TapStars`, `SubmitRating`, `TapRefresh` | the buttons of the page and its dialogs; stars tapped on the page are filled at once, those of the dialog are not |
| `AddUpvote` ... `RemoveDownvote`, `SetRating`, `CheckReport`, `AddReport` | the mutations, with their statements |
| `MealRead`, `PersonalRating`, `Images`, `PersonalUpvote`, `PersonalDownvote` | the statements of the query, in any order the resolvers allow |
| `VoteAnswered`, `ReportAnswered` | `ImageAccess`: the picture or the list is changed, wherever it is shown |
| `RatingAnswered`, `ShowRating` | `updateMealRating` and `_changeRatingOfMeal`: new numbers are computed from the object the rating was given on, which has them when the local database does; that is not awaited |
| `PageAnswered` | `refreshMealplan`: the plan is the meal that was read, the page goes on with its own |
| `Open`, `OpenAgain` | the page is opened with the meal of the plan or a copy of it, or once more with the object it had |
| `Refused`, `Lose` | an error as an answer: the page stays as it is, with the stars that were tapped; a connection that breaks before, while or after the backend works on the call |

Other users are steps of their statements. `fresh` and `trusted` are history, of
the plan and of the page: since the query for it no call has met another or was
lost, and (`fresh`) no rating was given that the plan's own object does not have.

## 3. The runs

| run | instance | what it shows |
| --- | --- | --- |
| `reports` | 1 picture, 3 users, 2 handlers, days 0 to 2, barrier 2 plus the square of the age, no hiding beyond age 1; 386 667 states | type invariant, all safety properties of the image commands, and that they implement the gallery |
| `settling` | the same without passing days, with fairness, no symmetry; 490 545 states | in the end a picture has its row and a whole file, or neither (the remains of a failed save may stay); a missed hide is repaired by the next report |
| `barrier` | the numbers of the code, 5 users, 2 handlers | a violation: see 3.2 |
| `parser` | 2 canteens, 2 weeks of 2 days, pages that come in any order, may change between requests, lose a date, or fail; 391 645 states | each plan under its date, canteens in order, nothing from half a website, every job ends |
| `overlapping_updates` | 2 runs, 1 day, 1 canteen with 1 line, 2 pages (one with another spelling, a side and no facts), 3 foods, 2 rows for lines; 401 595 states | no allergen and no facts are ever missing; when the runs are through, the plan is the page |
| `successive_updates` | 1 run at a time, 2 days, 2 canteens whose lines have one name, 3 names in a chain of similarity, a page that does not have the day; 1 432 428 states | days and canteens do not disturb each other; a dish keeps its food while names drift |
| `reads` | 2 runs, 1 day, 2 lines, 3 pages (both lines, one line, the other with a side), 2 foods, a query that selects allergens, facts or neither; 1 239 302 states | what a query may show that runs into an update, and what one shows that does not |
| `window` | weeks of 2 days, 2 weeks, days 0 to 2, a website that is closed on one day; 5 626 687 states | which days are answered with null, with an empty list, with meals |
| `window_cell` | the same instance | a violation: see 3.2 |
| `server` | 8 environments, 14 requests, 1 request in flight, 2 keys, 1 picture, 1 job; 449 634 states | only checked requests act; no picture is lost; the shutdown leaves nothing behind and ends |
| `meal_plan_view` | 2 dates, 2 canteens, 2 loads | a violation: see 3.2 |
| `meal_page` | 1 picture, this user and another one, 2 calls at a time, 3 calls; 534 922 states | when the app shows what the backend has stored |

### 3.1 Properties

*Image commands.* `HiddenOnlyAfterEnoughReports`: no interleaving hides a
picture fewer than `BarrierBase` users reported. `MissedReportsBounded`: the
other direction does not hold exactly, because handlers that read together
each count only themselves; what holds is that at most one report for every
other handler in flight is missed, unless a handler was cut off before it could
hide the picture. `ReportAfterVerificationIgnored`: a report that arrives after
the verification neither records itself nor hides. `LinkedImagesHaveFiles`,
`OrphanedFilesExplained`: a row without a whole file is an upload at work or
one that was cut off. A file without a row is a deletion at work, or one of
three remains that nobody removes: what a cut-off deletion left, the file of an
upload that reached the disk after its picture was deleted, and, although nothing
was cut off, the empty or partial file of a save that failed.
`HiddenImagesAreAnnounced`: a picture out of view was announced, is about to
be, or the mail was lost. `ImplementsGallery`: refinement. `ImagesSettle` and
`MissedHideIsRepaired`: liveness.

*The website.* `ServedAsListed`: after a job without errors the plan of a
canteen and a date is what stands under that date on its page, whatever order
the answers came in and whichever dates could not be read. `CanteensInOrder`:
the app lists the canteens in the order of the configuration; positions count
the urls of all weeks and dates are resolved in the order of a `HashMap`, so
this needs that every date resolved was listed by every canteen.
`NothingFromHalfAWebsite`: a job changes nothing unless it got and could read
every page. `JobsEnd`: a website that does not answer does not hold up a job.

*Meal plans.* `AllergensNeverMissing`, `FactsNeverMissing`: a dish on the plan
has at least the allergens it came with, and nutrition and environment data if
the website gave any, although a food can be matched by another run between the
statements that insert it. `PlanMatchesMenu`: when no run is at work on a day,
none has failed on it, and runs that overlapped on it brought the same page,
the plan is that page: nothing older is left, and each dish, or an alike one
that took its place on the key of `food_plan`, is there. `DishesKeepTheirFood`:
as long as runs neither overlap nor fail, no two foods stand for one dish,
because the most similar food is the one that is renamed.

The conditions are needed, and TLC finds the counterexample without them. Two
overlapping runs can insert a new canteen twice; from then on a lookup may find
either row, and `dissolve_relations` leaves the plan of the other
(`UniqueCanteens` in `PlanMatchesMenu`). Overlap or a failure inside
`insert_food` leaves two foods for one dish (`calm` in `DishesKeepTheirFood`).

*Queries.* `ShownAllergensSuffice`, `ShownFactsSuffice`: the same of an answer
whose parts were read by different statements while jobs were at work.
`NoDishTwice`: no line shows a food as meal and as side, although another run
may make a meal of a food that was just inserted, and stands on the plan as a
side; two lines may, since the sides of one can be read before the meals of the
other. `MealsOfOnePage`: the
meals of a line come from one page, as long as runs do not overlap; its sides
may come from another. `QuietReadersSeeTheMenu`: who meets no update sees all
of it. `OnlySidesLookClosed`: a line that is answered without meals, which the
app takes for closed, serves nothing but dishes once stored as sides.

*Days.* `WindowCoversPlan`: no plan is stored beyond the days `get_meals`
answers for. `ClosedDaysWereFetched`: once a full job of the week went through,
a day is answered with an empty list only if the website was asked about it;
between midnight on Monday and that job the new last week is answered as
closed. `ShownDaysStayKnown`: a process does not answer null for a day it has
shown.

*The process.* `OnlyCheckedRequestsAct`: every request that was answered as done
was signed with a key the process has loaded, or by an administrator; and a
picture arrived whole and passed each check the environment asks for.
`NoPictureIsLost`: a picture with a row has a file or a url, wherever the
migration fails or is killed and whatever is deleted meanwhile.
`OrdinaryEndAnswersAll`: an ordinary end leaves no request in flight.
`NoJobBeginsInShutdown`. `ShutdownEnds`: no notification between the tasks is
missed, so that the process ends after ctrl-c, unless it waits forever for the
body of a client, for Google, or for a client that does not take its answer:
there the code has no timeout.

*The app.* `OwnOpinionsShown`: votes, rating, stars and reports of the user are
shown as they are stored. `CountsIncludeOwn`: counts that are changed by arithmetic
always contain the user's own vote, so that no tap leads to -1 votes or to a
division by zero. Both need `trusted`, and TLC finds the counterexamples without
it: two calls that overlap (the hazard in `ImageAccess.dart`), and a rating given
on the copy of a filtered list. That rating is on the open page only: the copy is
made of the plan, which keeps the old one, and whoever leaves the page, filters
again and opens the meal sees the old rating until the plan is loaded again.

### 3.2 Disagreements

*The barrier.* `report_barrier` is documented as the "number of times this image
would have to be reported to automatically get hidden"
(`admin_notification.rs:57`). `report_image` compares it with a count it read
before its own insert. The run `barrier` uses the numbers of the code: the
fourth and the fifth report of a new picture are read together at count three,
both compare four with five, and the picture stays in view with five reports.
`MissedReportsBounded` says how far this can go, `MissedHideIsRepaired` that
the next reporter makes up for it.

*The cell.* "Null is returned when there is not any information available yet"
(`persistent_data.rs:241`). In the run `window_cell` a request comes before the
first plan is stored; the cell of the first date is filled with nothing, and
days that have a plan are answered with null until the restart.

*The displayed plan.* The app's interface promises "the meal plan of the
committed date of the committed canteen" (`IMealAccess.dart:21`). In the run
`meal_plan_view` the load that ends last is displayed, whatever is selected by
then. `_setNewMealPlan` (line 610) compares nothing and `refreshMealplan` (line
244) only the day, so there are three ways, each of six steps: two changes of
the selection whose loads end in the other order, a change while the plan is
read again behind `refreshAll`, and a change of the canteen while a refresh
waits. TLC prints one of them; which one says nothing about the others.

Smaller ones that no run is made for: the interface of the meal plan management
says that dishes match with "identical allergens and identical additives",
while additives are ignored (`_additives`, `mealplan_management.rs:66`); the
removal of a vote is answered with success when there was none, and the report
of a verified picture when nothing was stored; `getMeal` of the app returns its
argument; a header of a wrong form is refused by the library with status 400
before the middleware sees it.

### 3.3 Bounds, symmetry, fairness

*Image commands.* Handlers never look at a picture other than their own, so one
picture shows every interaction; two handlers are the smallest number that can
race, and three users against a barrier of 2 let a picture reach, miss and pass
its barrier, which by age 1 has risen to 3 and by age 2 no longer applies. The
barrier run uses the code's own numbers.

*Meal plans.* Two runs are both jobs; overlapping runs get one row more for
lines and foods than the website needs, so that double inserts happen. With a
second row for canteens and with a fourth food the properties hold as well (1
543 429 and 509 765 states, before facts were added); the smaller instance is
kept because it takes seconds. When the identifiers are used up, a run can only
fail: that is a bound of the model, as are the slots `Run`, `Request`, `Slot`,
`Call` and `Load`, `MaxDay`, `LastDay` and `MaxCalls`.

*Queries* look at one day. Two runs at a time meet a query in `reads`: a food
becomes a meal between the `insert_food` and the `insert_meal` of one run, while
another has matched it and put it on the plan as a side, and both lines of the
page serve it. The constraint `OverlapOnOnePage` of the run bounds this: runs that
overlap find that page only, and the query beside them selects the dishes and
nothing more. Three properties are about runs that do not overlap, where nothing
is left out; of the others the constraint leaves `NoDishTwice` to the overlap, while
`ShownAllergensSuffice` and `ShownFactsSuffice` meet it only in their theorems
(and in `overlapping_updates`, for the tables they read). The theorems of section
4 cover all six without the constraint, for any number of runs, pages, lines,
dishes and statements. A query selects allergens or facts, since the two loaders
do not meet.

*Website.* Two canteens in two weeks are the least that can be mixed up, and a
page that loses a date with and without its tab is what may shift days. A week
of two days, where nothing depends on the 7.

*Window.* Two weeks, two Mondays to pass, and one day without meals.

*Server.* One request slot: requests meet only in the configuration, which does
not change while there are any. The requests are one for each way through the
checks, the environments one for each way the start may go. One job, since jobs
meet nothing here but the scheduler.

*App.* Three calls, two at a time, are a query, a vote, and a call that meets
one of them. One picture of two users, one of whom is this app's. The constraint
`MayBeTrusted` of the run stops where no call is left and neither plan nor page
can be trusted again: both properties hold there by their premise, for good,
because only a query that meets no other call makes a plan `fresh`, and only a
fresh plan a page `trusted`.

Symmetry is used in the runs with invariants and safety properties only, over
values no definition tells apart. No run switches deadlock checking off.

`FairSpec` of the image commands assumes weak fairness of `HandlerStep(r)` for
every slot: the runtime polls a task again when its await is ready, and each
await is answered or fails. Nothing is assumed of `Arrival`, `CutOff`,
`VerifyImage` or `NextDay`: nobody has to send a request, and no failure has to
happen or to stop. `MissedHideIsRepaired` is about days on which the date does
not change any more. `FairSpec` of the parser is `WF(Work)`: `Timeout` is part
of it because every request has `client_timeout`; the answers of the website
are not. `Fairness` of the server is weak fairness of the steps of
`Server::run`, of its tasks, and of each request where it waits for nobody but
the server and its database. Nothing is assumed of clients, who need not send
their body to the end nor take an answer (`Answered` is a step of theirs), of
Google, of jobs, or of whoever presses ctrl-c.

## 4. The proofs

All theorems hold for any sets of pictures, users, handlers, runs, days, pages,
names, keys, requests and environments, any barrier from 1 on and any number of
weeks; the assumptions are those of the modules (`SetsAssumption`,
`NumbersAssumption`, `SimilarityAssumption`, `PagesAssumption`,
`WindowAssumption`, `LinksAssumption`, `NoneAssumption`, `SiteAssumption`).
Six theorems have a premise besides, each named in its statement. Three of them
have `CanteensListedOnce`: what is parsed for a day lists no canteen twice. The code
does not see to it, the website does: it has one page for each canteen and
week, under a name of its own, and a date stands on the page of its week only.
Of a canteen that is listed twice the second part would dissolve what the first
has put on the plan (`SwKaParser` says the same: the later page wins).

The others are about pages, and the code checks none of them. `PagesWellMade`,
for `PlansAsListed`: every page of a canteen has a day for every tab, no dish
lacks a price before one it has, and no two rows of facts have one id. Without
the first, a page with two days and three tabs, one of which cannot be read,
passes the count in `transform` and may put dishes under another date; without
the second, guests are shown another group's price (the hazard at
`html_parser.rs:370`); without the third, the first row of facts is taken.
Dates that cannot be read, missing names, closed lines, dishes without facts,
unknown codes and titles are all allowed. `PagesCounted`, for
`PlansUnderTheirDates`, is the first of the three alone. `PagesNamed`, for
`CanteensListedInOrder`: the pages of a canteen carry its name, which no other
canteen's page carries, and no canteen is configured twice; a row of `canteen` is
found by that name, so otherwise one row would have two places.

The order of the proof modules is `MealplanUpdateProofs` (types, allergens,
facts), `MealplanMenuProofs` (the plan is the page), `MealplanReadsProofs`
(what a query shows of it); the others stand by themselves.

`ImageCommandsProofs`:

* `TypeCorrect`: `TypeOK` is inductive.
* `HiddenNeedsReports`: not inductive by itself. `ReportInv` adds what links a
  decision to the database it was taken on: the count a handler read is at most
  the number of reports there are now, and is smaller still when its user is
  not among them (`SeenBounded`), and a handler that stands before
  `hide_image` has a picture with enough reports (`HideJustified`). Reports of
  a row only grow, and go only with the row, after which it is never hidden.
* `LateReportsIgnored`: `LateInv` adds that the picture of such a report is
  verified or has no row any more.
* `FewReportsMissed`: a counting argument over the handlers in flight. While a
  picture is in view and nobody is about to hide it, take any count `b` at which
  it should have been hidden: the reports stored beyond `b` and the handlers
  that have still to decide on a smaller count are together at most all
  handlers but one (`RacersCounted`), because each of those reports was stored by
  a handler that was behind.
* `HiddenAnnounced`: inductive together with `TypeOK`.
* `RowsHaveFiles`, `FilesHaveRows`: `FileInv` adds that a picture being removed
  has no row (`DeletedForGood`), that a picture has at most one upload
  (`OneUpload`), that an upload has no file before it creates it and no whole
  picture before it is through (`UploadingFile`), and that, when the row is deleted
  while the picture is encoded, the file goes too, unless its removal came too
  early or was cut off (`EncodedOrphan`).
* `CommandsImplementGallery`: initial states map to initial states, and every
  step to a gallery step or a stutter, using `ReportInv` for the step that
  hides and `ReportsHaveRows` (no reports without a row) for removal.

`MealplanUpdateProofs` (`DataInv`, `TypeInv`):

* `AllergensAreKept`: a run before `update_food` or `add_to_plan` stands before
  a food that has the allergens of its dish (`RunsMindAllergens`). Matching
  compares the allergens exactly, inserting writes them before it returns, and
  no statement ever deletes one; so neither renaming by another run nor a half
  inserted food can break it.
* `FactsAreKept`: a run before `add_to_plan` has stored the facts of its dish,
  or found them stored (`RunsMindFacts`). The invariants know of the records of
  runs only which fields they have (`RunsHaveShape`).
* `TypesKept`: `TypeOK` says almost nothing of the records of runs. `Busy` adds
  that a run has typed work left in its three loops, and `Rows` that the
  canteen, the line and the food it is about to refer to have rows: no statement
  deletes one (`RowsKept`), so what a run found or inserted is still there when
  it inserts a line, a meal or an entry of the plan, whatever other runs did.

`MealplanMenuProofs`:

* `PlanIsTheMenu` (`MenuInv`): the plan equals the page only at the end, so the
  invariant says of each moment what is still to come. Of each item of the
  agreed page, it is on the plan or some run has it before itself in one of its
  three loops (`NothingForgotten`, with `Todo`); of each older entry, it is on
  the new page as well or its canteen is one that some run has not dissolved
  yet (`OldPageGoes`, with `Uncleared`). A run that overlaps works on the same
  page (`RunsAgree`), and only dissolves a canteen whose dishes it will all put
  back. What a run carries in its records is from its page and names its rows
  (`RunsOnPage`); that a dish is stored under an alike name is `RunsNameFood`
  and `PlanNamesFood`. Only the part about the plan needs the premise and one
  row per canteen (`PlanInv`); the rest is inductive without.
* `DishesAreNotDoubled` (`FoodInv`): a run that inserts a food has seen that no
  food matches, with the foods it did not look at excluded by the statement
  before (`KnowsFoods`), and while a food has no allergens yet it counts as
  being inserted (`Inserting`, `BlankFoods`). When a food is renamed it is the
  most similar one, so a second food with the new name would have been more
  similar: this is where `SimilarityAssumption` is used.

`MealplanReadsProofs` (`ReadInv`, which contains `DataInv`; `PageReadInv`;
`QuietReadInv`):

* `ReadersSeeAllergens`, `ReadersSeeFacts`: what is true of the plan when a
  dish is read stays true of the food while the query goes on, because
  allergens, facts and meals are only ever added (`UpdatesGrow`); so the later
  statement reads at least as much (`ShownMindsAllergens`, `ShownMindsFacts`).
* `ReadersSeeDishesOnce`: the sides of a line are read after its meals
  (`SidesComeLast`), and what was a meal then is one still.
* `ReadersSeeOnePage` (`PageReadInv`): as long as no two runs have met there is
  one row for each canteen and line (`AloneInv`), and the entries of a line on
  the plan are from one page at every moment, also between two statements of an
  update or where one was cut off (`PlansOfOnePage`), because a run dissolves
  the canteen before it adds to it (`ClearFor`). One statement reads all meals
  of a line (`Stages`), so what is shown of it is from one page too, and stays
  so when the plan moves on (`ShownOfOnePage`).
* `ReadersSeeTheMenu`, `ClosedLinesServeSides` (`QuietReadInv`): while nobody
  works on the day its plan stays (`DayStays`) and is the page (`MenuInv`), and
  what is not shown of it is still to be read by the query: the line of a meal
  (`MealsListed`), the sides of a line (`SidesListed`). What was read of a dish
  will do for the item of the menu it stands for (`MenuSeen`). Once the query
  is answered nothing is left to be read.

`MealplanWindowProofs`:

* `PlansAreInWindow`: the first unknown day does not go back as days pass
  (`MondaysFollow`, from division with remainder), and the polled days are
  before it (`PolledAreKnown`, `JobsKeepToWindow`).
* `ClosedWasFetched`: full jobs go through the days of a week's window and no
  others (`FullJobsFetchWindows`), and requests that read ask for a day before
  the first unknown one.
* `ShownStaysKnown`: a day that was shown is not before the cell, and the cell
  is filled once (`ShownDaysAreAfterCell`).

`ServerProofs` (`IInv`):

* `OnlyCheckedAct`: `Sound` says of a request at each place what has been
  checked so far; what was checked is compared with the environment because
  the process keeps its configuration from the start to the end (`Phase`), and
  a process that ends takes its requests with it.
* `PicturesAreKept`: a row is only stripped of its url after its file was saved,
  and `delete_image` deletes the row first (`Pictures`).
* `AllAnswered`: the web server is joined before the logger stops, and has ended
  without requests.
* `NoLateJobs`: an action property, from `Phase`: the scheduler is not running
  from `await_scheduler` on.

`MealPageProofs` (`OpinionInv`):

* `ShownOpinionsAreStored`: with a call that meets no other there is no other
  (`AloneInv`). A query that met no other call has read what is stored so far
  (`QueryInv`). So a fresh plan is right, or will be as soon as the one call
  under way is answered, and the same holds of a trusted page (`PlanInv`,
  `PageInv`, both from `Shows`, which says it of any meal); which of the two an
  answer changes is what `link` says (`LinkInv`), so that a rating on a copy ends
  the plan's freshness and not the page's. The stars are the page's rating, or
  those of the rating under way (`StarsInv`, with `Promise`).
* `CountsContainOwn`: the same invariant. That the sum of all ratings is at
  least each of them needs an induction over the users, done by hand (below).

`SwKaParserProofs` (`JobInv`; `ServeInv`, which contains it):

* `NothingFromHalf`: an action property. Different answers are those of
  different urls (`AnswersApart`), so that with no url unanswered there are as
  many documents as urls; and the job reaches the resolver only after all of
  them were read, none without its root (`DocumentsRead`).
* `PlansAsListed`: in two parts. One is about a page only: what the parser makes
  of a day is what stands on its tab (`ParsedAsWritten`), from lemmas about
  filters (`OnlyPicks`: what is kept, and in which order; `OnlyRange`,
  `OnlyLast`, `OnlyAll`) up through prices, codes, facts, dishes and lines
  (`PriceAsWritten`, `NutritionAsWritten`, `DishAsWritten`, `LinesOfDay` ...).
  The k-th date is that of the k-th tab because as many dates were read as there
  are days, so none was left out (`EntryOfTab`). The other part is the
  invariant: of the last page of a canteen with a date, what it says is the last
  entry of the map for both (`LastEntry`), then, when the date was taken from
  the map, the last canteen of that name still to be resolved (`LastTodo`), then
  what is served (`ServedFrom`); and no page later in the list, nor an older
  entry, comes after it (`Pending`, `Serving`). `TransformSorts` says the same
  of the pages read so far, `AnswersFromSite` and `SeenFromSite` that they are
  pages of the urls that were asked for, in that order.
* `PlansUnderTheirDates` is the second part by itself (`ServedUnderItsDate`):
  with a day for every tab no plan moves to another date or canteen, whatever
  the prices and facts on the page are.
* `CanteensListedInOrder`: the same invariant remembers whose position a canteen
  has: while a date is resolved, that of its last page with this date
  (`PlacedBy`). So after the job all positions are from the date resolved last.
  Urls come week by week (`UrlsByWeek`), each week listing all canteens; the
  last week with that date has the last page of every canteen (`LaterWeek`), and
  positions within one week are in the order of the configuration
  (`PageOfWeek`, from division with remainder).

Induction over data: the library's theorems of induction take an operator as a
parameter and cannot be used here. Where an induction is needed a smallest
counterexample does the same: `WFMin` needs no operator, and
`NatLessThanWellFounded` makes it a theorem about numbers (`LeastNumber`).
`DishesAreNotDoubled` uses it for the most similar food, `CountsContainOwn` for
the sum over a finite set, and `SwKaParserProofs` for what the recursive functions
behind `Only` and the flattened lists compute (`KeptExists`, `OnlyPicks`,
`JoinedExists`, `FlattenedRange`, `FlattenedWeeks`).

Only model-checked:

* `ShowsWhatIsSelected` of the app's plan, `HiddenAtReportBarrier` and
  `NullOnlyWithoutPlan` are the violations of 3.2.
* Liveness under fairness (`ImagesSettle`, `MissedHideIsRepaired`, `JobsEnd`,
  `ShutdownEnds`): beyond the prover.

## 5. Not modelled

* Image rank: a formula over one row and the date.
* Preprocessing beyond whether a picture can be read, mail templates, log
  layers, the wording of the help, the screens: nothing that several steps
  share.
* Additives: written and read as allergens are, but no decision reads them.
* The rate limit: the library's buffer delays a request before its first step.
* Threads: a blocking SMTP call inside a handler holds up a thread of the
  runtime; tasks here are never starved.
* Failing keys inside a dish, as a code that stands twice in a list of
  allergens: the failure is a `Fail`, its cause is not there.
* Of the app: favorites (one list with one race, see the hazards), filters,
  settings, the local database beyond `getMealPlan` and `updateAll` (in
  `MealPage` a plan comes from the server only), the page of favorites as another
  way to a meal, choosing and uploading a picture.

## 6. Plan

1. `Favorites` and `LocalPlans`: the refresh that brings back a removed
   favorite; concurrent `updateAll` on the app's database.
2. Composition of `MealplanReads` with the window of `MealplanWindow`, for
   queries that cross midnight.
3. Proofs: every safety property of the passing runs is a theorem. What is left
   is liveness, for a prover that reasons about fairness.
