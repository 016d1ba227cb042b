------------------------------- MODULE MealPage -------------------------------
(***************************************************************************)
(* One meal as a user's app shows it: its pictures with their votes, and   *)
(* its rating.  The app sends votes, reports, ratings and the query for    *)
(* the plan to the backend and changes what it shows once an answer comes; *)
(* a tap does not wait for the answer to an earlier one.  The answer to a  *)
(* query is a new object, while an open page keeps the one it was opened   *)
(* with: the meal of the plan itself, or, when the list is filtered, a     *)
(* copy that shares its pictures with the plan but not its rating.         *)
(*                                                                         *)
(* The plan of a day is read from the server here; that it may also come   *)
(* from the local database is left out.                                    *)
(*                                                                         *)
(* The pictures are those of ModeratedGallery, which ImageCommands         *)
(* implements; hiding after a report is a step of the gallery that may     *)
(* come later than in report_image.  The backend has one statement for     *)
(* each vote and rating, and the query reads the meal, the pictures and    *)
(* the user's own opinions with a statement each.  Other users' apps are   *)
(* left out: their statements are steps here.                              *)
(***************************************************************************)
EXTENDS ModeratedGallery, Functions

CONSTANTS
    Me,       \* the user whose app this is
    Stars,    \* the ratings a client may send
    Call,     \* slots for the app's calls under way
    MaxCalls, \* bound of the model on the calls the app makes
    None      \* no picture

ASSUME PageAssumption ==
    /\ IsFiniteSet(User) /\ Me \in User
    /\ None \notin Image
    /\ Stars \subseteq Nat
    /\ MaxCalls \in Nat

VARIABLES
    imageRating,  \* table image_rating: 1, -1, or 0 for no row
    mealRating,   \* table meal_rating: 0 for no row
    plan,         \* the meal in the plan of the day
    page,         \* the meal the open page shows
    link,         \* what it is to the plan: the "same" object, a "copy" of it,
                  \* or an "older" one
    changedRating,\* the stars the page shows for this user's rating
    call,         \* call[c]: the call in slot c
    calls,        \* how many calls the app has made
    fresh,        \* history: what is known of the plan, and
    trusted       \* of the page: since the query for it no call has met another
                  \* or was lost, or changed another object only

tables == <<phase, verified, reporters, imageRating, mealRating>>
shown == <<plan, page, link, changedRating>>
app == <<shown, call, calls, fresh, trusted>>
vars == <<tables, app>>

-----------------------------------------------------------------------------
(* The page and the calls                                                  *)

Highest == 5

\* total is averageRating * numberOfRatings; images maps the pictures of the
\* page to their counts and to the user's own vote.
NoPage == [loaded |-> FALSE, own |-> 0, count |-> 0, total |-> 0, images |-> <<>>]

Idle ==
    [op |-> "none", pc |-> "idle", img |-> None, num |-> 0,
     got |-> NoPage,     \* query: the meal read so far; rating: the new numbers
     reads |-> {},       \* query: the statements still to run
     heard |-> TRUE,     \* the app still waits for the answer
     onPage |-> TRUE,    \* the open page shows what the answer changes
     onPlan |-> TRUE,    \* and so will pages opened later
     alone |-> TRUE]     \* history: no other call was under way meanwhile

At(c, op, pc) == call[c].op = op /\ call[c].pc = pc

UnderWay == {c \in Call : call[c] # Idle}

Init ==
    /\ GalleryInit
    /\ imageRating = [i \in Image |-> [u \in User |-> 0]]
    /\ mealRating = [u \in User |-> 0]
    /\ plan = NoPage /\ page = NoPage /\ link = "older" /\ changedRating = 0
    /\ call = [c \in Call |-> Idle]
    /\ calls = 0
    /\ fresh = FALSE /\ trusted = FALSE

-----------------------------------------------------------------------------
(* Taps                                                                    *)

\* Votes and reports change the list of pictures, which a copy shares; a rating
\* changes the object it was given on.
OnPlan(op) == IF op = "setRating" THEN link = "same" ELSE link # "older"

\* Two calls that meet may leave anything on the screen until the plan is
\* loaded again with no other call under way.
Send(c, op, i, n) ==
    /\ call[c] = Idle
    /\ calls < MaxCalls
    /\ calls' = calls + 1
    /\ call' = [d \in Call |->
          IF d = c THEN [Idle EXCEPT !.op = op, !.pc = "sent", !.img = i, !.num = n,
                                     !.onPlan = OnPlan(op), !.alone = UnderWay = {}]
          ELSE IF call[d] = Idle THEN Idle ELSE [call[d] EXCEPT !.alone = FALSE]]
    /\ trusted' = (trusted /\ UnderWay = {})
    /\ fresh' = (fresh /\ UnderWay = {} /\ (op = "refreshMealplan" \/ OnPlan(op)))
    /\ UNCHANGED <<tables, plan, page, link>>

OnPage(i) == i \in DOMAIN page.images

\* The thumb that is filled takes the vote back.
TapUp(c, i) ==
    /\ OnPage(i)
    /\ Send(c, IF page.images[i].own = 1 THEN "removeUpvote" ELSE "addUpvote", i, 0)
    /\ UNCHANGED changedRating

TapDown(c, i) ==
    /\ OnPage(i)
    /\ Send(c, IF page.images[i].own = -1 THEN "removeDownvote" ELSE "addDownvote", i, 0)
    /\ UNCHANGED changedRating

TapReport(c, i) ==
    OnPage(i) /\ Send(c, "reportImage", i, 0) /\ UNCHANGED changedRating

\* Stars tapped on the page are filled before the call is sent.
TapStars(c, n) ==
    /\ page.loaded
    /\ n \in 1..Highest
    /\ Send(c, "setRating", None, n)
    /\ changedRating' = n

\* The dialog also sends a rating nobody has chosen yet.
SubmitRating(c, n) ==
    page.loaded /\ Send(c, "setRating", None, n) /\ UNCHANGED changedRating

TapRefresh(c) == Send(c, "refreshMealplan", None, 0) /\ UNCHANGED changedRating

-----------------------------------------------------------------------------
(* The backend                                                             *)

\* Nobody waits for the answer once the app has given the call up.
Reply(c, result) ==
    call' = [call EXCEPT ![c] = IF @.heard THEN [@ EXCEPT !.pc = result] ELSE Idle]

\* The reference to table image makes the insert fail without the picture.
Vote(c, v) ==
    LET i == call[c].img IN
    /\ \/ /\ Present(i)
          /\ imageRating' = [imageRating EXCEPT ![i][Me] = v]
          /\ Reply(c, "ok")
       \/ /\ ~Present(i)
          /\ Reply(c, "refused")
          /\ UNCHANGED imageRating
    /\ UNCHANGED <<phase, verified, reporters, mealRating, shown, calls, fresh, trusted>>

\* Only the vote that is taken back is deleted; with none there is no error.
Unvote(c, v) ==
    LET i == call[c].img IN
    /\ imageRating' = [imageRating EXCEPT ![i][Me] = IF @ = v THEN 0 ELSE @]
    /\ Reply(c, "ok")
    /\ UNCHANGED <<phase, verified, reporters, mealRating, shown, calls, fresh, trusted>>

AddUpvote(c) == At(c, "addUpvote", "sent") /\ Vote(c, 1)
AddDownvote(c) == At(c, "addDownvote", "sent") /\ Vote(c, -1)
RemoveUpvote(c) == At(c, "removeUpvote", "sent") /\ Unvote(c, 1)
RemoveDownvote(c) == At(c, "removeDownvote", "sent") /\ Unvote(c, -1)

\* The domain of the column refuses what is no rating.
IsRating(n) == n \in 1..Highest

AddRating(c, n) ==
    /\ \/ /\ IsRating(n)
          /\ mealRating' = [mealRating EXCEPT ![Me] = n]
          /\ Reply(c, "ok")
       \/ /\ ~IsRating(n)
          /\ Reply(c, "refused")
          /\ UNCHANGED mealRating
    /\ UNCHANGED <<phase, verified, reporters, imageRating, shown, calls, fresh, trusted>>

SetRating(c) == At(c, "setRating", "sent") /\ AddRating(c, call[c].num)

\* The report of a verified picture is ignored, and answered like any other.
CheckReport(c) ==
    LET i == call[c].img IN
    /\ At(c, "reportImage", "sent")
    /\ \/ Present(i) /\ i \notin verified /\ call' = [call EXCEPT ![c].pc = "add_report"]
       \/ Present(i) /\ i \in verified /\ Reply(c, "ok")
       \/ ~Present(i) /\ Reply(c, "refused")
    /\ UNCHANGED <<tables, shown, calls, fresh, trusted>>

AddReport(c) ==
    LET i == call[c].img IN
    /\ At(c, "reportImage", "add_report")
    /\ \/ Report(i, Me) /\ Reply(c, "ok")
       \/ /\ ~Present(i) \/ Me \in reporters[i]
          /\ Reply(c, "refused")
          /\ UNCHANGED <<phase, verified, reporters>>
    /\ UNCHANGED <<imageRating, mealRating, shown, calls, fresh, trusted>>

(* The query for the page **************************************************)

\* A loader answers for the keys that have a row.
RatingLoader(users) ==
    [u \in {x \in users : mealRating[x] # 0} |-> mealRating[u]]

ImageVoteLoader(images, v) == {i \in images : imageRating[i][Me] = v}

ImageLoader ==
    [i \in {x \in Image : phase[x] = "shown"} |->
        [up |-> Cardinality({u \in User : imageRating[i][u] = 1}),
         down |-> Cardinality({u \in User : imageRating[i][u] = -1}),
         reporting_users |-> reporters[i]]]

GetPersonalRating ==
    LET found == RatingLoader({Me}) IN IF Me \in DOMAIN found THEN found[Me] ELSE 0

GetPersonalUpvote(i) == i \in ImageVoteLoader({i}, 1)

GetPersonalDownvote(i) == i \in ImageVoteLoader({i}, -1)

\* Mutant: the pictures this user has reported are not taken out.
GetImages == DOMAIN ImageLoader

GetVisibleImages == {i \in DOMAIN ImageLoader : Me \notin ImageLoader[i].reporting_users}

\* A statement of the query ends, reads are those that are left.
Read(c, reads, got) ==
    /\ call' = [call EXCEPT ![c] =
          [@ EXCEPT !.pc = IF reads = {} THEN "ok" ELSE "reading", !.reads = reads, !.got = got]]
    /\ UNCHANGED <<tables, shown, calls, fresh, trusted>>

Reading(c, what) == At(c, "refreshMealplan", "reading") /\ what \in call[c].reads

\* The average and the number of ratings come with the meal.
MealRead(c) ==
    /\ At(c, "refreshMealplan", "sent")
    /\ Read(c, {"rating", "images"},
            [loaded |-> TRUE, own |-> 0, images |-> <<>>,
             count |-> Cardinality({u \in User : mealRating[u] # 0}),
             total |-> SumFunctionOnSet(mealRating, User)])

PersonalRating(c) ==
    /\ Reading(c, "rating")
    /\ Read(c, call[c].reads \ {"rating"}, [call[c].got EXCEPT !.own = GetPersonalRating])

\* The pictures come with their counts; what the user voted is asked next.
Images(c) ==
    /\ Reading(c, "images")
    /\ Read(c, (call[c].reads \ {"images"})
                 \cup (IF GetVisibleImages = {} THEN {} ELSE {"upvote", "downvote"}),
            [call[c].got EXCEPT !.images =
               [i \in GetVisibleImages |->
                  [own |-> 0, up |-> ImageLoader[i].up, down |-> ImageLoader[i].down]]])

\* personalUpvote ? 1 : personalDownvote ? -1 : 0, read in either order
IndividualRating(own, upvote, downvote) ==
    IF upvote THEN 1 ELSE IF downvote /\ own # 1 THEN -1 ELSE own

PersonalUpvote(c) ==
    LET images == call[c].got.images IN
    /\ Reading(c, "upvote")
    /\ Read(c, call[c].reads \ {"upvote"},
            [call[c].got EXCEPT !.images = [i \in DOMAIN images |->
               [images[i] EXCEPT !.own = IndividualRating(@, GetPersonalUpvote(i), FALSE)]]])

PersonalDownvote(c) ==
    LET images == call[c].got.images IN
    /\ Reading(c, "downvote")
    /\ Read(c, call[c].reads \ {"downvote"},
            [call[c].got EXCEPT !.images = [i \in DOMAIN images |->
               [images[i] EXCEPT !.own = IndividualRating(@, FALSE, GetPersonalDownvote(i))]]])

(* Everybody else **********************************************************)

\* Another user's vote, or the end of one (0).
OtherVote(u, i, v) ==
    /\ u # Me
    /\ Present(i)
    /\ imageRating' = [imageRating EXCEPT ![i][u] = v]
    /\ UNCHANGED <<phase, verified, reporters, mealRating, app>>

OtherRating(u, n) ==
    /\ u # Me
    /\ IsRating(n)
    /\ mealRating' = [mealRating EXCEPT ![u] = n]
    /\ UNCHANGED <<phase, verified, reporters, imageRating, app>>

\* The votes of a picture go with its row.
RemoveImage(i) == Remove(i) /\ imageRating' = [imageRating EXCEPT ![i] = [u \in User |-> 0]]

OtherStep ==
    \/ \E u \in User, i \in Image, v \in {-1, 0, 1} : OtherVote(u, i, v)
    \/ \E u \in User, n \in Stars : OtherRating(u, n)
    \/ \E i \in Image :
          /\ \/ Publish(i)
             \/ \E u \in User \ {Me} : Report(i, u)
             \/ Hide(i)
             \/ Verify(i)
          /\ UNCHANGED <<imageRating, mealRating, app>>
    \/ \E i \in Image : RemoveImage(i) /\ UNCHANGED <<mealRating, app>>

-----------------------------------------------------------------------------
(* Answers                                                                 *)

\* Mutant: a vote in place of the other one is not counted.
VotedIfNone(image, v) ==
    [own |-> v,
     up |-> image.up + (IF v = 1 /\ image.own = 0 THEN 1 ELSE 0) - (IF image.own = 1 THEN 1 ELSE 0),
     down |-> image.down + (IF v = -1 /\ image.own = 0 THEN 1 ELSE 0) - (IF image.own = -1 THEN 1 ELSE 0)]

\* The setter of ImageData: the counts follow the user's vote.
Voted(image, v) ==
    [own |-> v,
     up |-> image.up + (IF v = 1 THEN 1 ELSE 0) - (IF image.own = 1 THEN 1 ELSE 0),
     down |-> image.down + (IF v = -1 THEN 1 ELSE 0) - (IF image.own = -1 THEN 1 ELSE 0)]

WithVote(meal, i, v) ==
    IF i \in DOMAIN meal.images THEN [meal EXCEPT !.images[i] = Voted(@, v)] ELSE meal

WithoutPicture(meal, i) == [meal EXCEPT !.images = Restrict(@, DOMAIN @ \ {i})]

\* An answer changes the object its call was made on, wherever that is shown.
ShowVote(c, v) ==
    /\ page' = IF call[c].onPage THEN WithVote(page, call[c].img, v) ELSE page
    /\ plan' = IF call[c].onPlan THEN WithVote(plan, call[c].img, v) ELSE plan

ShowReport(c) ==
    /\ page' = IF call[c].onPage THEN WithoutPicture(page, call[c].img) ELSE page
    /\ plan' = IF call[c].onPlan THEN WithoutPicture(plan, call[c].img) ELSE plan

\* The first rating of this user counts, a later one replaces it.
Rated(meal, n) ==
    [NoPage EXCEPT !.own = n,
                   !.count = IF meal.own = 0 THEN meal.count + 1 ELSE meal.count,
                   !.total = meal.total - meal.own + n]

WithNumbers(meal, new) == [meal EXCEPT !.own = new.own, !.count = new.count, !.total = new.total]

\* Whoever is notified forgets the stars that were tapped.
Notified == changedRating' = page'.own

Answered(c, op) == At(c, op, "ok") /\ call' = [call EXCEPT ![c] = Idle]

VoteAnswered(c) ==
    /\ \/ Answered(c, "addUpvote") /\ ShowVote(c, 1)
       \/ Answered(c, "addDownvote") /\ ShowVote(c, -1)
       \/ (Answered(c, "removeUpvote") \/ Answered(c, "removeDownvote")) /\ ShowVote(c, 0)
    /\ Notified
    /\ UNCHANGED <<tables, link, calls, fresh, trusted>>

ReportAnswered(c) ==
    /\ Answered(c, "reportImage")
    /\ ShowReport(c)
    /\ Notified
    /\ UNCHANGED <<tables, link, calls, fresh, trusted>>

\* The new numbers are computed from the object the rating was given on; it has
\* them once the local database does.
RatingAnswered(c) ==
    LET meal == IF call[c].onPage THEN page ELSE plan IN
    /\ At(c, "setRating", "ok")
    /\ call' = [call EXCEPT ![c] = [@ EXCEPT !.pc = "updateMeal",
                                            !.got = Rated(meal, call[c].num)]]
    /\ UNCHANGED <<tables, plan, page, link, calls, fresh, trusted>>
    /\ Notified

ShowRating(c) ==
    /\ At(c, "setRating", "updateMeal")
    /\ call' = [call EXCEPT ![c] = Idle]
    /\ page' = IF call[c].onPage THEN WithNumbers(page, call[c].got) ELSE page
    /\ plan' = IF call[c].onPlan THEN WithNumbers(plan, call[c].got) ELSE plan
    /\ Notified
    /\ UNCHANGED <<tables, link, calls, fresh, trusted>>

\* The plan holds the meal that was read; an open page goes on with its own.
PageAnswered(c) ==
    /\ At(c, "refreshMealplan", "ok")
    /\ plan' = call[c].got
    /\ fresh' = call[c].alone
    /\ link' = "older"
    /\ call' = [d \in Call |->
          IF d = c \/ call[d] = Idle THEN Idle ELSE [call[d] EXCEPT !.onPlan = FALSE]]
    /\ UNCHANGED <<tables, page, calls, trusted>>
    /\ Notified

\* A rating given on an object that is now another one is not seen any more.
Follows(k, object) == k.onPlan /\ (k.op = "setRating" => object = "same")

\* The page is opened, or left and opened again, with the meal of the plan or
\* the copy that a filtered list shows.
Open(object) ==
    /\ plan.loaded
    /\ page' = plan
    /\ link' = object
    /\ trusted' = (fresh /\ \A d \in UnderWay :
                      call[d].op = "refreshMealplan" \/ Follows(call[d], object))
    /\ call' = [d \in Call |->
          IF call[d] = Idle THEN Idle
          ELSE [call[d] EXCEPT !.onPage = Follows(call[d], object)]]
    /\ UNCHANGED <<tables, plan, calls, fresh>>
    /\ Notified

\* It is opened again from the list it was opened from, with the same object.
OpenAgain ==
    /\ page.loaded
    /\ UNCHANGED <<tables, plan, page, link, call, calls, fresh, trusted>>
    /\ Notified

\* "snackbar.voteError" and its like: the page stays as it is, and stars that
\* were tapped stay filled.
Refused(c) ==
    /\ call[c].pc = "refused"
    /\ call' = [call EXCEPT ![c] = Idle]
    /\ UNCHANGED <<tables, shown, calls, fresh, trusted>>

\* The connection breaks, before the backend has the call, while it is at work,
\* which goes on, or before the answer arrives.
Lose(c) ==
    /\ call[c] # Idle /\ call[c].heard /\ call[c].pc # "updateMeal"
    /\ \/ call' = [call EXCEPT ![c] = Idle]
       \/ /\ call[c].pc \in {"sent", "add_report"} /\ call[c].op # "refreshMealplan"
          /\ call' = [call EXCEPT ![c].heard = FALSE]
    /\ fresh' = (fresh /\ call[c].op = "refreshMealplan")
    /\ trusted' = (trusted /\ call[c].op = "refreshMealplan")
    /\ UNCHANGED <<tables, shown, calls>>

-----------------------------------------------------------------------------
Tap(c) ==
    \/ \E i \in Image : TapUp(c, i) \/ TapDown(c, i) \/ TapReport(c, i)
    \/ \E n \in Stars : TapStars(c, n) \/ SubmitRating(c, n)
    \/ TapRefresh(c)

BackendStep(c) ==
    \/ AddUpvote(c) \/ AddDownvote(c) \/ RemoveUpvote(c) \/ RemoveDownvote(c)
    \/ SetRating(c)
    \/ CheckReport(c) \/ AddReport(c)
    \/ MealRead(c) \/ PersonalRating(c)
    \/ Images(c) \/ PersonalUpvote(c) \/ PersonalDownvote(c)

AppStep(c) ==
    \/ VoteAnswered(c) \/ ReportAnswered(c)
    \/ RatingAnswered(c) \/ ShowRating(c)
    \/ PageAnswered(c)
    \/ Refused(c)
    \/ Lose(c)

Next ==
    \/ OtherStep
    \/ Open("same") \/ Open("copy") \/ OpenAgain
    \/ \E c \in Call : Tap(c) \/ BackendStep(c) \/ AppStep(c)

Spec == Init /\ [][Next]_vars

-----------------------------------------------------------------------------
(* Properties                                                              *)

\* The app learns what it shows of the user's own opinions from the query once
\* and from the answers to its calls afterwards, and an answer only changes the
\* object its call was made on.  Since the plan was loaded with no other call under
\* way, and unless two calls met, an answer was lost, or the page was opened again
\* after a rating, or one on an older object, was sent, what the page shows while
\* no call is under way is what the backend has stored: the votes (but for a
\* picture that is gone), the rating, in the meal and as stars, and no picture the
\* user has reported.
OwnOpinionsShown ==
    trusted /\ UnderWay = {} =>
        /\ \A i \in DOMAIN page.images :
              /\ Present(i) => page.images[i].own = imageRating[i][Me]
              /\ Me \notin reporters[i]
        /\ page.own = mealRating[Me]
        /\ changedRating = page.own

\* The counts and the user's own opinion are read by different statements and
\* changed by arithmetic afterwards.  A page whose counts do not contain the
\* user's own vote or rating would show -1 votes, or an average divided by zero
\* ratings, after the next tap: that needs calls that met or were lost.
CountsIncludeOwn ==
    trusted =>
        /\ \A i \in DOMAIN page.images :
              /\ page.images[i].up >= (IF page.images[i].own = 1 THEN 1 ELSE 0)
              /\ page.images[i].down >= (IF page.images[i].own = -1 THEN 1 ELSE 0)
        /\ page.count >= (IF page.own = 0 THEN 0 ELSE 1)
        /\ page.total >= page.own
=============================================================================
