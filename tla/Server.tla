------------------------------- MODULE Server -------------------------------
(***************************************************************************)
(* The life of the backend process: Server::run of startup/server.rs with  *)
(* the scheduler and the web server it starts and stops, the requests the  *)
(* web server has in flight (ApiRequests), the subcommand that migrates    *)
(* pictures (ImageMigration), and a process that is killed at any moment.  *)
(*                                                                         *)
(* pc is the await Server::run is at.  scheduler and web are the tasks it  *)
(* has spawned, and what they and Server::run tell each other goes through *)
(* a tokio Notify.  A job is only there or not: MealplanUpdate and         *)
(* MealplanWindow say what it does.                                        *)
(***************************************************************************)
EXTENDS ApiRequests, ImageMigration

CONSTANTS
    Environments,   \* the environments the process may be started with
    Job             \* start_update_parsing, start_full_parsing

VARIABLES
    pc,
    env,                \* the arguments and environment variables it was started with
    scheduler,          \* off, running, stopping
    scheduler_stopped,  \* shutdown_finished, a Notify
    jobs,               \* jobs that are running
    web,                \* off, serving, draining, done
    web_shutdown        \* shutdown_notify, a Notify

processVars ==
    <<pc, env, scheduler, scheduler_stopped, jobs, web, web_shutdown>>
vars == <<requestVars, migrationVars, processVars>>

-----------------------------------------------------------------------------
(* Notify of tokio: one permit is kept for a task that does not wait yet.  *)

NotifyOne(notify) == IF notify = "waiting" THEN "woken" ELSE "permit"

Notified(notify) == IF notify = "permit" THEN "woken" ELSE "waiting"

(* Configuration ***********************************************************)

\* Mutant: only the exact word is understood.
ReadVarToBoolExact(value) == value = "true"

\* In any case of letters and with blanks around; unset or unreadable is the
\* default, which is FALSE for both checks.
ReadVarToBool(value) == value \in {"true", " True "}

ShouldPrintHelp == {"--help", "-h", "-?"} \cap env.args # {}

ShouldMigrateImages == "--migrate-images" \in env.args

\* A value that is set and that something panics or fails on.
Unreadable(var) == var \in env.set \cap env.unreadable

GetEnvFmtLayer == ~Unreadable("LOG_CONFIG")

GetLokiLayer == ~Unreadable("LOKI_URL")

ReadDatabaseInfo == "DATABASE_URL" \in env.set

ReadMailInfo == {"ADMIN_EMAIL", "SMTP_SERVER", "SMTP_USERNAME", "SMTP_PASSWORD"} \subseteq env.set

\* And the directory has to exist.
ReadFileHandlerInfo == "IMAGE_DIR" \in env.set

ReadScheduleInfo == ~Unreadable("FULL_PARSE_SCHEDULE") /\ ~Unreadable("UPDATE_PARSE_SCHEDULE")

ReadApiInfo == {"IMAGE_DIR", "ADMIN_KEY"} \subseteq env.set

\* As it is written, 0 for every category when it is not set.  An entry that is
\* no number is one that is too high.
ReadAcceptanceVar == IF env.acceptance = <<>> THEN <<0, 0, 0, 0, 0>> ELSE env.acceptance

Validation ==
    (IF ReadVarToBool(env.use_safe_search) THEN {"safe_search"} ELSE {})
        \cup (IF ReadVarToBool(env.use_gemini_api) THEN {"gemini"} ELSE {})

GetImageValidationInfo ==
    /\ "safe_search" \in Validation
          => /\ {"GOOGLE_PROJECT_ID", "SERVICE_ACCOUNT_JSON"} \subseteq env.set
             /\ ReadAcceptanceVar \in [DOMAIN Category -> 0..5]
    /\ "gemini" \in Validation
          => {"GEMINI_TEXT_REQUEST", "GEMINI_API_KEY"} \subseteq env.set

-----------------------------------------------------------------------------
NoEnvironment ==
    [args |-> {}, set |-> {}, unreadable |-> {},
     use_safe_search |-> "", use_gemini_api |-> "", acceptance |-> <<>>]

Init ==
    /\ RequestInit
    /\ MigrationInit
    /\ pc = "off"
    /\ env = NoEnvironment
    /\ scheduler = "off" /\ scheduler_stopped = "idle" /\ jobs = {}
    /\ web = "off" /\ web_shutdown = "idle"

\* The process ends, and with it its tasks wherever they are.
Exit ==
    /\ pc' = "off"
    /\ env' = NoEnvironment
    /\ scheduler' = "off" /\ scheduler_stopped' = "idle" /\ jobs' = {}
    /\ web' = "off" /\ web_shutdown' = "idle"
    /\ at' = [s \in Slot |-> NoRequest]
    /\ api_keys' = <<>> /\ validation' = {} /\ acceptance' = <<>>
    /\ UNCHANGED <<api_key, migrationVars>>

\* A step of Server::run from one await to the next that spawns nothing.
Proceed(from, to) ==
    /\ pc = from /\ pc' = to
    /\ UNCHANGED <<env, scheduler, scheduler_stopped, jobs, web, web_shutdown, requestVars, migrationVars>>

(* Server::run *************************************************************)

StartProcess ==
    /\ pc = "off"
    /\ pc' = "log"
    /\ env' \in Environments
    /\ UNCHANGED <<scheduler, scheduler_stopped, jobs, web, web_shutdown,
                   requestVars, migrationVars>>

InitLogger == GetEnvFmtLayer /\ GetLokiLayer /\ Proceed("log", "arguments")

PrintHelp == pc = "arguments" /\ ShouldPrintHelp /\ Exit

\* The end of a subcommand; Migrate says what it does, as a process of its own.
MigrateImages == pc = "arguments" /\ ~ShouldPrintHelp /\ ShouldMigrateImages /\ Exit

StartServer ==
    /\ ~ShouldPrintHelp /\ ~ShouldMigrateImages
    /\ Proceed("arguments", "database")

\* Connects, and migrates the database if it was asked to; before the rest of
\* the configuration has been read.
NewDataAccessFactory == ReadDatabaseInfo /\ Proceed("database", "components")

NewMailSender == ReadMailInfo /\ ~Unreadable("SMTP_SERVER")

NewGoogleApiHandler ==
    /\ GetImageValidationInfo
    /\ "safe_search" \in Validation => ~Unreadable("SERVICE_ACCOUNT_JSON")
    /\ validation' = Validation
    /\ acceptance' = ReadAcceptanceVar

NewComponents ==
    /\ pc = "components" /\ pc' = "api_keys"
    /\ NewMailSender /\ ReadFileHandlerInfo /\ NewGoogleApiHandler
    /\ UNCHANGED <<env, scheduler, scheduler_stopped, jobs, web, web_shutdown,
                   api_key, api_keys, at, migrationVars>>

NewApiServer ==
    /\ pc = "api_keys" /\ pc' = "schedule"
    /\ ReadApiInfo
    /\ api_keys' = api_key
    /\ UNCHANGED <<env, scheduler, scheduler_stopped, jobs, web, web_shutdown,
                   api_key, validation, acceptance, at, migrationVars>>

NewScheduler == ReadScheduleInfo /\ Proceed("schedule", "start_scheduler")

StartScheduler ==
    /\ pc = "start_scheduler" /\ pc' = "bind"
    /\ scheduler' = "running"
    /\ UNCHANGED <<env, scheduler_stopped, jobs, web, web_shutdown,
                   requestVars, migrationVars>>

StartApiServer ==
    /\ pc = "bind" /\ pc' = "ctrl_c"
    /\ web' = "serving"
    /\ UNCHANGED <<env, scheduler, scheduler_stopped, jobs, web_shutdown,
                   requestVars, migrationVars>>

\* An error is returned or a panic unwinds main: the configuration, the
\* database, a schedule that cannot be read, a port that is taken.
RunFails ==
    /\ pc \in {"log", "arguments", "database", "components", "api_keys", "schedule", "bind"}
    /\ Exit

CtrlC == Proceed("ctrl_c", "stop_scheduler")

\* Mutant: the web server is shut down, the scheduler is not.
ShutdownNoScheduler == Proceed("stop_scheduler", "stop_api")

\* Sets the handler and tells the scheduler to end, which then calls it.
ShutdownScheduler ==
    /\ pc = "stop_scheduler" /\ pc' = "await_scheduler"
    /\ scheduler' = "stopping"
    /\ UNCHANGED <<env, scheduler_stopped, jobs, web, web_shutdown,
                   requestVars, migrationVars>>

AwaitScheduler ==
    /\ pc = "await_scheduler"
    /\ IF scheduler_stopped = "woken"
       THEN pc' = "stop_api" /\ UNCHANGED scheduler_stopped
       ELSE /\ scheduler_stopped # "waiting"
            /\ scheduler_stopped' = Notified(scheduler_stopped)
            /\ UNCHANGED pc
    /\ UNCHANGED <<env, scheduler, jobs, web, web_shutdown,
                   requestVars, migrationVars>>

\* Mutant: notify_waiters, which keeps no permit.
ShutdownApiServerNow ==
    /\ pc = "stop_api" /\ pc' = "await_api"
    /\ web_shutdown' = IF web_shutdown = "waiting" THEN "woken" ELSE web_shutdown
    /\ UNCHANGED <<env, scheduler, scheduler_stopped, jobs, web,
                   requestVars, migrationVars>>

ShutdownApiServer ==
    /\ pc = "stop_api" /\ pc' = "await_api"
    /\ web_shutdown' = NotifyOne(web_shutdown)
    /\ UNCHANGED <<env, scheduler, scheduler_stopped, jobs, web,
                   requestVars, migrationVars>>

\* Mutant: the task of the web server is not joined.
JoinNothing == Proceed("await_api", "stop_log")

JoinWebServer == web = "done" /\ Proceed("await_api", "stop_log")

ShutdownLogger ==
    /\ pc = "stop_log"
    /\ Exit

(* The tasks ***************************************************************)

\* The scheduler of the library, which calls the handler when it has ended.
SchedulerEnds ==
    /\ scheduler = "stopping"
    /\ scheduler' = "off"
    /\ scheduler_stopped' = NotifyOne(scheduler_stopped)
    /\ UNCHANGED <<pc, env, jobs, web, web_shutdown, requestVars, migrationVars>>

\* A job that is due while the scheduler runs; two runs of one job are one here.
BeginJob(j) ==
    /\ scheduler = "running" /\ j \notin jobs
    /\ jobs' = jobs \cup {j}
    /\ UNCHANGED <<pc, env, scheduler, scheduler_stopped, web, web_shutdown,
                   requestVars, migrationVars>>

EndJob(j) ==
    /\ j \in jobs
    /\ jobs' = jobs \ {j}
    /\ UNCHANGED <<pc, env, scheduler, scheduler_stopped, web, web_shutdown,
                   requestVars, migrationVars>>

\* The signal future given to with_graceful_shutdown is polled for the first
\* time some time after the task was spawned.
WebServerAwaitsSignal ==
    /\ web = "serving" /\ web_shutdown \in {"idle", "permit"}
    /\ web_shutdown' = Notified(web_shutdown)
    /\ UNCHANGED <<pc, env, scheduler, scheduler_stopped, jobs, web,
                   requestVars, migrationVars>>

StopAccepting ==
    /\ web = "serving" /\ web_shutdown = "woken"
    /\ web' = "draining"
    /\ UNCHANGED <<pc, env, scheduler, scheduler_stopped, jobs, web_shutdown,
                   requestVars, migrationVars>>

WebServerEnds ==
    /\ web = "draining" /\ \A s \in Slot : at[s] = NoRequest
    /\ web' = "done"
    /\ UNCHANGED <<pc, env, scheduler, scheduler_stopped, jobs, web_shutdown,
                   requestVars, migrationVars>>

(* Requests ****************************************************************)

AcceptRequest(s, q) ==
    /\ web = "serving"
    /\ Accept(s, q)
    /\ UNCHANGED <<pc, env, scheduler, scheduler_stopped, jobs, web, web_shutdown,
                   migrationVars>>

RequestProceeds(s) == RequestStep(s) /\ UNCHANGED <<migrationVars, processVars>>

RequestWaits(s) ==
    /\ AuthMiddleware(s) \/ SafeSearch(s) \/ Gemini(s) \/ Answered(s) \/ ClientGone(s)
    /\ UNCHANGED <<migrationVars, processVars>>

\* delete_image of the admin API: the row, then the file.
DeleteRow(s) ==
    /\ at[s].pc = "command" /\ Asked(s).op = "deleteImage"
    /\ \/ DeleteImageRow(Asked(s).image) /\ Goto(s, "delete_file")
       \/ Answer(s, "error") /\ UNCHANGED migrationVars
    /\ UNCHANGED <<configured, processVars>>

DeleteFile(s) ==
    /\ at[s].pc = "delete_file"
    /\ \/ /\ Asked(s).image \in files
          /\ DeleteImageFile(Asked(s).image)
          /\ Goto(s, "notify")
       \/ Answer(s, "error") /\ UNCHANGED migrationVars
    /\ UNCHANGED <<configured, processVars>>

\* The picture is gone, also when the mail that says so cannot be sent.
SendMessage(s) ==
    /\ at[s].pc = "notify"
    /\ Answer(s, "ok") \/ Answer(s, "error")
    /\ UNCHANGED <<configured, migrationVars, processVars>>

(* What goes on around the process *****************************************)

Migrate == MigrationStep /\ UNCHANGED <<requestVars, processVars>>

\* The table of keys is edited by hand.
EditKeys ==
    /\ api_key' \in {<<k>> : k \in ApiKey}
    /\ UNCHANGED <<api_keys, validation, acceptance, at, migrationVars, processVars>>

\* Also by the signal a container is stopped with, which nothing handles.
Kill == pc # "off" /\ Exit

\* Every await of Server::run and of its tasks that ends by itself.
ServerSteps ==
    \/ InitLogger \/ PrintHelp \/ MigrateImages \/ StartServer
    \/ NewDataAccessFactory \/ NewComponents \/ NewApiServer \/ NewScheduler
    \/ StartScheduler \/ StartApiServer
    \/ ShutdownScheduler \/ AwaitScheduler \/ ShutdownApiServer \/ JoinWebServer
    \/ ShutdownLogger

WebServerSteps == WebServerAwaitsSignal \/ StopAccepting \/ WebServerEnds

RequestSteps(s) == RequestProceeds(s) \/ DeleteRow(s) \/ DeleteFile(s) \/ SendMessage(s)

Next ==
    \/ StartProcess \/ RunFails \/ CtrlC \/ Kill
    \/ ServerSteps \/ SchedulerEnds \/ WebServerSteps
    \/ \E j \in Job : BeginJob(j) \/ EndJob(j)
    \/ \E s \in Slot, q \in Requests : AcceptRequest(s, q)
    \/ \E s \in Slot : RequestSteps(s) \/ RequestWaits(s)
    \/ Migrate \/ EditKeys

Spec == Init /\ [][Next]_vars

\* The tasks of the runtime are polled when they can go on, the database
\* answers.  Nothing is assumed of clients, of Google, of jobs, of operators: not
\* that a request is sent to its end, nor that an answer is taken.
Fairness ==
    /\ WF_vars(ServerSteps) /\ WF_vars(SchedulerEnds) /\ WF_vars(WebServerSteps)
    /\ \A s \in Slot : WF_vars(RequestSteps(s))

FairSpec == Spec /\ Fairness

-----------------------------------------------------------------------------
(* Properties                                                              *)

Threshold(c) == IF env.acceptance = <<>> THEN 0 ELSE env.acceptance[c]

\* A command is only carried out for a request of a client that was signed with
\* one of the keys the table had when the process started, or for an admin; and
\* a picture is only added when its file arrived whole, can be read and was
\* accepted by each check the environment asks for.  Whatever happens to the
\* keys, the process and other requests meanwhile.
OnlyCheckedRequestsAct ==
    \A s \in Slot :
        LET q == Asked(s) IN
        at[s].answer = "ok" =>
            /\ q.op \in Admin => q.header = "admin"
            /\ q.op \in Mutations =>
                  /\ q.body # "bad" /\ q.header # None
                  /\ \E k \in DOMAIN api_keys :
                        /\ q.header.hash = api_keys[k]
                        /\ q.header.ident \in StartsWith[api_keys[k]]
            /\ q.op = "addImage" =>
                  /\ q.upload.hash /\ q.upload.readable
                  /\ env.use_safe_search \in {"true", " True "} =>
                        /\ q.upload.responses # <<>>
                        /\ \A c \in DOMAIN Category :
                              Level(Last(q.upload.responses)[Category[c]]) <= Threshold(c)
                  /\ env.use_gemini_api \in {"true", " True "} =>
                        Last(Last(q.upload.candidates)).contains_yes

\* A process that ends in the ordinary way has no request left in flight, also
\* none it accepted after ctrl-c: each was answered or its client has gone.
OrdinaryEndAnswersAll == pc = "stop_log" => \A s \in Slot : at[s] = NoRequest

\* No job begins once the process is being shut down, so that the end of the
\* web server, which may be long in coming, does not cut off a job that was
\* begun after ctrl-c.
ShuttingDown == pc \in {"await_scheduler", "stop_api", "await_api", "stop_log"}

NoJobBeginsInShutdown == [][ShuttingDown => jobs' \subseteq jobs]_vars

\* Once ctrl-c is pressed the process ends, unless a request waits forever for the rest
\* of what its client sends, for Google, or for its client to take the answer: no
\* notification between the tasks is missed.
ShutdownEnds ==
    (pc = "stop_scheduler" ~> pc = "off") \/ <>[](\E s \in Slot : WaitsForOthers(s))
=============================================================================
