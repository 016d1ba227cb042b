--------------------------- MODULE ImageCommands ---------------------------
(***************************************************************************)
(* The part of CommandHandler (layer/logic/api_command/command_handler.rs) *)
(* that publishes, moderates and removes the pictures of meals, together   *)
(* with the statements it runs on the database (data/database/command.rs), *)
(* the files it writes (data/file_handler) and the mails it sends.         *)
(*                                                                         *)
(* The handlers are async functions: each runs as a task of its own, and   *)
(* every await on the database, the disk or the mail server lets the other *)
(* handlers in.  A handler is therefore one action per await, what it has  *)
(* read so far is kept in its record in req, and it may be cut off at any  *)
(* await: by a failing statement, by a client that closes its connection   *)
(* (the server then drops the future) or by the process being stopped.     *)
(***************************************************************************)
EXTENDS Integers, FiniteSets

CONSTANTS
    Image,           \* the identifiers gen_random_uuid() may hand out
    User,            \* the clients that report pictures
    Request,         \* slots for handlers in flight: bounds the concurrency
    None,            \* no image, no user
    BarrierBase,     \* 5 in the code
    BarrierDivisor,  \* 35 in the code, where REPORT_FACTOR is 1.0 / 35.0
    MaxReportAge,    \* 30 in the code: no older picture is hidden
    MaxDay           \* bound of the model on the number of days that pass

ASSUME SetsAssumption ==
    /\ IsFiniteSet(User) /\ IsFiniteSet(Request)
    /\ None \notin Image
    /\ None \notin User

ASSUME NumbersAssumption ==
    /\ BarrierBase \in Nat \ {0}
    /\ BarrierDivisor \in Nat \ {0}
    /\ MaxReportAge \in Nat
    /\ MaxDay \in Nat

VARIABLES
    day,       \* the date both the backend and the database read
    used,      \* identifiers gen_random_uuid() has handed out so far
    linked,    \* table image: its rows
    visible,   \* table image: the rows with currently_visible
    approved,  \* table image: the rows with approved
    linkDate,  \* table image: column link_date
    reports,   \* table image_report: reports[i] is the set of user_id
    files,     \* the files in the image directory
    broken,    \* those of them that hold no whole picture
    notified,  \* pictures whose administrator got the mail "hidden"
    req,       \* req[r]: the handler running in slot r
    cut        \* history: <<i, pc>> when a handler for i stopped at pc

tables == <<linked, visible, approved, linkDate, reports>>
vars == <<day, used, tables, files, broken, notified, req, cut>>

-----------------------------------------------------------------------------
(* The local state of a handler.                                           *)

\* The await a handler stands before, named by the call it makes next.
ReportPC == {"get_image_info", "add_report", "hide_image", "notify_hidden"}
UploadPC == {"save_image", "encode_image", "revert_link_image"}
DeletePC == {"remove_file"}
PC == ReportPC \cup UploadPC \cup DeletePC

\* seen is info.image.report_count; late is history: the picture was already
\* verified when the request arrived.  A handler only names handed-out pictures.
ReportHandler ==
    [pc : ReportPC, img : used, usr : User, seen : Nat, late : BOOLEAN]

FileHandler ==
    [pc : UploadPC \cup DeletePC, img : used, usr : {None}, seen : {0}, late : {FALSE}]

Idle == [pc |-> "idle", img |-> None, usr |-> None, seen |-> 0, late |-> FALSE]

Running(r, pc) == req[r].pc = pc

Begin(r, pc, i, u) ==
    /\ req[r] = Idle
    /\ req' = [req EXCEPT ![r] =
                 [pc |-> pc, img |-> i, usr |-> u, seen |-> 0, late |-> FALSE]]

Await(r, pc) == req' = [req EXCEPT ![r].pc = pc]

Finish(r) == req' = [req EXCEPT ![r] = Idle]

-----------------------------------------------------------------------------
(* When is a picture hidden?                                               *)

Age(i) == day - linkDate[i]

\* floor(t * t / 35 + 5)
ReportBarrier(age) == (age * age) \div BarrierDivisor + BarrierBase

\* Mutant: only beyond the barrier.
WillBeHiddenAbove(i, count) ==
    /\ Age(i) <= MaxReportAge
    /\ count > ReportBarrier(Age(i))

\* Mutant: only exactly at the barrier.
WillBeHiddenAt(i, count) ==
    /\ Age(i) <= MaxReportAge
    /\ count = ReportBarrier(Age(i))

WillBeHidden(i, count) ==
    /\ Age(i) <= MaxReportAge
    /\ count >= ReportBarrier(Age(i))

-----------------------------------------------------------------------------
Init ==
    /\ day = 0
    /\ used = {}
    /\ linked = {} /\ visible = {} /\ approved = {}
    /\ linkDate = [i \in Image |-> 0]
    /\ reports = [i \in Image |-> {}]
    /\ files = {} /\ broken = {}
    /\ notified = {}
    /\ req = [r \in Request |-> Idle]
    /\ cut = {}

NextDay ==
    /\ day < MaxDay
    /\ day' = day + 1
    /\ UNCHANGED <<used, tables, files, broken, notified, req, cut>>

(* report_image ************************************************************)

\* A client only learns identifiers that were handed out, perhaps long ago.
ReportImage(r, i, u) ==
    /\ i \in used
    /\ req[r] = Idle
    /\ req' = [req EXCEPT ![r] = [pc |-> "get_image_info", img |-> i, usr |-> u,
                                  seen |-> 0, late |-> i \in approved]]
    /\ UNCHANGED <<day, used, tables, files, broken, notified, cut>>

\* Mutant: verified pictures are handled like any other.
GetImageInfoAnyway(r) ==
    LET i == req[r].img IN
    /\ Running(r, "get_image_info")
    /\ \/ /\ i \in linked
          /\ req' = [req EXCEPT ![r].pc = "add_report",
                                ![r].seen = Cardinality(reports[i])]
       \/ /\ i \notin linked
          /\ Finish(r)
    /\ UNCHANGED <<day, used, tables, files, broken, notified, cut>>

\* fetch_one is an error without a row; a verified picture ends the command.
GetImageInfo(r) ==
    LET i == req[r].img IN
    /\ Running(r, "get_image_info")
    /\ \/ /\ i \in linked \ approved
          /\ req' = [req EXCEPT ![r].pc = "add_report",
                                ![r].seen = Cardinality(reports[i])]
       \/ /\ i \notin linked \ approved
          /\ Finish(r)
    /\ UNCHANGED <<day, used, tables, files, broken, notified, cut>>

\* Mutant: a repeated report is accepted (ON CONFLICT DO NOTHING).
CanAddReportAgain(i, u) == i \in linked

\* The key (image_id, user_id) and the reference to image make the insert
\* fail for a repeated report and for a deleted picture.
CanAddReport(i, u) == i \in linked /\ u \notin reports[i]

AddReport(r) ==
    LET i == req[r].img
        u == req[r].usr
    IN
    /\ Running(r, "add_report")
    /\ \/ /\ CanAddReport(i, u)
          /\ reports' = [reports EXCEPT ![i] = @ \cup {u}]
          /\ \/ WillBeHidden(i, req[r].seen + 1) /\ Await(r, "hide_image")
             \/ ~WillBeHidden(i, req[r].seen + 1) /\ Finish(r)
       \/ /\ ~CanAddReport(i, u)
          /\ Finish(r)
          /\ UNCHANGED reports
    /\ UNCHANGED <<day, used, linked, visible, approved, linkDate, files, broken, notified, cut>>

\* Mutant: the command returns without telling the administrator.
HideImageSilently(r) ==
    /\ Running(r, "hide_image")
    /\ visible' = visible \ {req[r].img}
    /\ Finish(r)
    /\ UNCHANGED <<day, used, linked, approved, linkDate, reports, files, broken, notified, cut>>

HideImage(r) ==
    /\ Running(r, "hide_image")
    /\ visible' = visible \ {req[r].img}
    /\ Await(r, "notify_hidden")
    /\ UNCHANGED <<day, used, linked, approved, linkDate, reports, files, broken, notified, cut>>

\* A mail that cannot be sent is logged and nothing else.
NotifyHidden(r) ==
    LET i == req[r].img IN
    /\ Running(r, "notify_hidden")
    /\ \/ notified' = notified \cup {i} /\ UNCHANGED cut
       \/ cut' = cut \cup {<<i, "notify_hidden">>} /\ UNCHANGED notified
    /\ Finish(r)
    /\ UNCHANGED <<day, used, tables, files, broken>>

(* verify_image ************************************************************)

\* Mutant: verifying also sets currently_visible.
VerifyImageShows(i) ==
    /\ i \in linked
    /\ approved' = approved \cup {i}
    /\ visible' = visible \cup {i}
    /\ UNCHANGED <<day, used, linked, linkDate, reports, files, broken, notified, req, cut>>

\* One UPDATE; without a row it changes nothing.
VerifyImage(i) ==
    /\ i \in linked
    /\ approved' = approved \cup {i}
    /\ UNCHANGED <<day, used, linked, visible, linkDate, reports, files, broken, notified, req, cut>>

(* add_image ***************************************************************)

\* Mutant: the approval outlives the row.
DeleteRowNotApproval(i) ==
    /\ linked' = linked \ {i}
    /\ visible' = visible \ {i}
    /\ reports' = [reports EXCEPT ![i] = {}]
    /\ UNCHANGED <<approved, linkDate>>

\* DELETE FROM image, which cascades to the reports.
DeleteRow(i) ==
    /\ linked' = linked \ {i}
    /\ visible' = visible \ {i}
    /\ approved' = approved \ {i}
    /\ reports' = [reports EXCEPT ![i] = {}]
    /\ UNCHANGED linkDate

\* A picture that preprocessing or validation refuses has changed nothing, so
\* the handler appears with the row it inserts, visible from then on.
LinkImage(r, i) ==
    /\ i \notin used
    /\ Begin(r, "save_image", i, None)
    /\ used' = used \cup {i}
    /\ linked' = linked \cup {i}
    /\ visible' = visible \cup {i}
    /\ linkDate' = [linkDate EXCEPT ![i] = day]
    /\ UNCHANGED <<day, approved, reports, files, broken, notified, cut>>

\* image.save creates the file before it encodes the picture into it.
SaveImage(r) ==
    LET i == req[r].img IN
    /\ Running(r, "save_image")
    /\ \/ /\ files' = files \cup {i}
          /\ broken' = broken \cup {i}
          /\ cut' = IF i \in linked THEN cut ELSE cut \cup {<<i, "save_image">>}
          /\ Await(r, "encode_image")
       \/ /\ Await(r, "revert_link_image")
          /\ UNCHANGED <<files, broken, cut>>
    /\ UNCHANGED <<day, used, tables, notified>>

\* Mutant: a failed save does not revert the link.
EncodeImageNoRevert(r) ==
    /\ Running(r, "encode_image")
    /\ \/ broken' = broken \ {req[r].img}
       \/ UNCHANGED broken
    /\ Finish(r)
    /\ UNCHANGED <<day, used, tables, files, notified, cut>>

\* When this fails, the row is deleted again but the file stays, empty or in part.
EncodeImage(r) ==
    /\ Running(r, "encode_image")
    /\ \/ broken' = broken \ {req[r].img} /\ Finish(r)
       \/ UNCHANGED broken /\ Await(r, "revert_link_image")
    /\ UNCHANGED <<day, used, tables, files, notified, cut>>

RevertLinkImage(r) ==
    /\ Running(r, "revert_link_image")
    /\ DeleteRow(req[r].img)
    /\ Finish(r)
    /\ UNCHANGED <<day, used, files, broken, notified, cut>>

(* delete_image ************************************************************)

DeleteImage(r, i) ==
    /\ i \in used
    /\ Begin(r, "remove_file", i, None)
    /\ DeleteRow(i)
    /\ UNCHANGED <<day, used, files, broken, notified, cut>>

\* Mutant: the file stays.
RemoveFileForgotten(r) ==
    /\ Running(r, "remove_file")
    /\ Finish(r)
    /\ UNCHANGED <<day, used, tables, files, broken, notified, cut>>

\* remove_file is an error without the file; either way nothing more changes.
RemoveFile(r) ==
    /\ Running(r, "remove_file")
    /\ files' = files \ {req[r].img}
    /\ broken' = broken \ {req[r].img}
    /\ Finish(r)
    /\ UNCHANGED <<day, used, tables, notified, cut>>

(* A handler that goes no further ******************************************)

\* save_image writes in a blocking task, which a dropped future does not stop.
CutOff(r) ==
    LET i == req[r].img IN
    /\ req[r] # Idle
    /\ Finish(r)
    /\ cut' = cut \cup {<<i, req[r].pc>>}
    /\ \/ /\ Running(r, "save_image")
          /\ files' = files \cup {i}
          /\ broken' \in {broken, broken \cup {i}}
       \/ /\ Running(r, "encode_image")
          /\ broken' = broken \ {i}
          /\ UNCHANGED files
       \/ UNCHANGED <<files, broken>>
    /\ UNCHANGED <<day, used, tables, notified>>

-----------------------------------------------------------------------------
HandlerStep(r) ==
    \/ GetImageInfo(r)
    \/ AddReport(r)
    \/ HideImage(r)
    \/ NotifyHidden(r)
    \/ SaveImage(r)
    \/ EncodeImage(r)
    \/ RevertLinkImage(r)
    \/ RemoveFile(r)

Arrival(r) ==
    \E i \in Image :
        \/ \E u \in User : ReportImage(r, i, u)
        \/ LinkImage(r, i)
        \/ DeleteImage(r, i)

Next ==
    \/ NextDay
    \/ \E i \in Image : VerifyImage(i)
    \/ \E r \in Request : Arrival(r) \/ HandlerStep(r) \/ CutOff(r)

Spec == Init /\ [][Next]_vars

\* The runtime polls every handler again once its await is ready, and each
\* await is answered or fails; nobody has to send a request.
FairSpec == Spec /\ \A r \in Request : WF_vars(HandlerStep(r))
-----------------------------------------------------------------------------
(* Properties                                                              *)

\* Every variable keeps to the values the program can give it.
TypeOK ==
    /\ day \in 0..MaxDay
    /\ used \subseteq Image
    /\ linked \subseteq used
    /\ visible \subseteq linked
    /\ approved \subseteq linked
    /\ linkDate \in [Image -> 0..day]
    /\ reports \in [Image -> SUBSET User]
    /\ broken \subseteq files /\ files \subseteq used
    /\ notified \subseteq used
    /\ req \in [Request -> ReportHandler \cup FileHandler \cup {Idle}]
    /\ cut \subseteq Image \X PC

Busy(i, pcs) == \E r \in Request : req[r].img = i /\ req[r].pc \in pcs

WasCut(i, pcs) == \E pc \in pcs : <<i, pc>> \in cut

\* report_image decides on a count it read before its own insert and hides in
\* a later statement.  However the handlers interleave, a picture is out of
\* view only when at least BarrierBase different users reported it.
HiddenOnlyAfterEnoughReports ==
    \A i \in linked \ visible : Cardinality(reports[i]) >= BarrierBase

\* The race the other way: handlers that read the count together each count
\* only themselves, so a picture can stay in view with a full barrier of
\* reports.  What the code does guarantee is that at most one report for every
\* other handler in flight is missed, unless a handler was cut off before it
\* could hide the picture.
MissedReportsBounded ==
    \A i \in visible \ approved :
        \/ Age(i) > MaxReportAge
        \/ Busy(i, {"hide_image"})
        \/ WasCut(i, {"hide_image"})
        \/ Cardinality(reports[i]) <=
             ReportBarrier(Age(i)) - 1 + Cardinality(Request) - 1

\* Marking a picture as verified leads to future reports being ignored: one
\* that arrives after the UPDATE never gets to record itself or to hide the
\* picture, although the check is made on a row read earlier.
ReportAfterVerificationIgnored ==
    \A r \in Request : req[r].late => Running(r, "get_image_info")

\* The row of a picture is inserted before its file is written.  A row without
\* a whole file is an upload in progress or one that was cut off.
LinkedImagesHaveFiles ==
    \A i \in linked \ (files \ broken) :
        \/ Busy(i, UploadPC)
        \/ WasCut(i, UploadPC)

\* The row of a picture is deleted before its file, and a failing save deletes
\* the row only.  A file without a row is a deletion in progress, what a failing
\* save has left, without a whole picture in it, or what is left behind by a
\* cut-off deletion or an upload that reached the disk after its picture was
\* deleted (or was cut off).
OrphanedFilesExplained ==
    \A i \in files \ linked :
        \/ Busy(i, DeletePC)
        \/ i \in broken
        \/ WasCut(i, DeletePC \cup {"save_image"})

\* The administrator hears of every picture the program hides: the mail was
\* sent, is about to be sent, or was lost with its handler or at the server.
HiddenImagesAreAnnounced ==
    \A i \in linked \ visible :
        \/ i \in notified
        \/ Busy(i, {"notify_hidden"})
        \/ WasCut(i, {"notify_hidden"})

\* Where a picture is in its life, read off the tables.
PhaseOf ==
    [i \in Image |-> CASE i \notin used -> "unused"
                     [] i \in visible -> "shown"
                     [] i \in linked \ visible -> "hidden"
                     [] OTHER -> "gone"]

Gallery == INSTANCE ModeratedGallery WITH
    MinReports <- BarrierBase, phase <- PhaseOf, verified <- approved, reporters <- reports

\* The tables implement the gallery the users see: every statement of every
\* handler is one step of ModeratedGallery or changes nothing there.
ImplementsGallery == Gallery!GallerySpec

\* Disk and database agree again in the end: after an upload or a deletion
\* there comes a time when the picture has both its row and a file that holds it
\* or neither, unless one of its handlers was cut off.
ImagesSettle ==
    \A i \in Image :
        i \in used ~> ((i \in linked <=> i \in files \ broken) \/ WasCut(i, PC))

\* A missed hide does not last: the next report of a user that has not reported
\* the picture yet finds the count at the barrier and hides it, unless an
\* administrator verifies or deletes the picture first or a handler is cut off.
HidesWhenItCounts(r, i) ==
    /\ Running(r, "get_image_info") /\ req[r].img = i
    /\ i \in visible \ approved
    /\ req[r].usr \notin reports[i]
    /\ \A q \in Request \ {r} : req[q].img # i \/ req[q].usr # req[r].usr
    /\ day = MaxDay
    /\ Age(i) <= MaxReportAge
    /\ Cardinality(reports[i]) + 1 >= ReportBarrier(Age(i))

MissedHideIsRepaired ==
    \A r \in Request, i \in Image :
        HidesWhenItCounts(r, i) ~> (i \notin visible \ approved \/ WasCut(i, PC))

\* ImageReportInfo calls report_barrier the "number of times this image would
\* have to be reported to automatically get hidden (at the current date)".  So
\* once nothing is in flight, an unverified picture in view that can still be
\* hidden has fewer reports than that.
HiddenAtReportBarrier ==
    (\A r \in Request : req[r] = Idle) =>
        \A i \in visible \ approved :
            \/ Age(i) > MaxReportAge
            \/ WasCut(i, {"hide_image"})
            \/ Cardinality(reports[i]) < ReportBarrier(Age(i))
=============================================================================
