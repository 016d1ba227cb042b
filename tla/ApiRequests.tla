---------------------------- MODULE ApiRequests ----------------------------
(***************************************************************************)
(* What stands between a request and a command: the middleware and the     *)
(* resolvers of layer/trigger/api, the preprocessing of a picture and its  *)
(* validation by Google (layer/data/image_validation).  What the commands  *)
(* then do is the subject of ImageCommands; here a command happens or      *)
(* fails as a whole.                                                       *)
(*                                                                         *)
(* A hash is abstracted to what it was made of: the HMAC of a request to   *)
(* the key it was made with, the hash of a file to whether it is that of   *)
(* the file.  One step per await.                                          *)
(***************************************************************************)
EXTENDS Integers, SequencesExt

CONSTANTS
    Slot,               \* requests that may be in flight: bounds their number
    Requests,           \* what clients may send
    ApiKey,
    StartsWith,         \* key -> the identifiers it starts with
    None

Mutations == {"addImage", "addUpvote"}   \* addUpvote for rating, votes and reports
Personal == {"personalRating"}           \* queries that need a client
Admin == {"deleteImage", "verifyImage", "version"}

Category == <<"adult", "spoof", "medical", "violence", "racy">>

VARIABLES
    api_key,    \* table api_key, in the order of the keys
    api_keys,   \* the keys the process has loaded
    validation, \* the checks of pictures its GoogleApiHandler has
    acceptance, \* the highest level accepted, in the order of Category
    at          \* slot -> request in flight

configured == <<api_key, api_keys, validation, acceptance>>

requestVars == <<api_key, api_keys, validation, acceptance, at>>

-----------------------------------------------------------------------------
(* Authentication                                                          *)

\* An Authorization header was sent and is `Mensa` with the base 64 of three parts,
\* the first of which is an identifier of a client.
ReadAuthFromHeader(header) ==
    header.type = "Mensa" /\ header.client /\ header.ident # None /\ header.hash # None

Known(ident) == {k \in DOMAIN api_keys : ident \in StartsWith[api_keys[k]]}

\* The first key of the list decides when several start with the identifier.
HashMatches(header) ==
    \E k \in Known(header.ident) :
        /\ \A j \in Known(header.ident) : k <= j
        /\ header.hash = api_keys[k]

\* An identifier or a hash may be left empty.
Authenticate(header) ==
    CASE header = None -> "NoAuthHeader"
      [] header # None /\ (header.ident = "" \/ header.hash = "") -> "MissingApiIdentOrHash"
      [] OTHER -> IF Known(header.ident) = {} THEN "InvalidApiKey"
                  ELSE IF header.hash = "not base 64" THEN "HashNotInBase64"
                  ELSE IF HashMatches(header) THEN "authenticated"
                  ELSE "HashNotMatching"

(* Validation of a picture *************************************************)

Level(likelihood) ==
    CASE likelihood = "UNKNOWN" -> 0
      [] likelihood = "VERY_UNLIKELY" -> 1
      [] likelihood = "UNLIKELY" -> 2
      [] likelihood = "POSSIBLE" -> 3
      [] likelihood = "LIKELY" -> 4
      [] likelihood = "VERY_LIKELY" -> 5
      [] OTHER -> 42

\* Mutant: one category is enough.
VerifyAny(annotation) ==
    \E c \in DOMAIN Category : Level(annotation[Category[c]]) <= acceptance[c]

Verify(annotation) ==
    \A c \in DOMAIN Category : Level(annotation[Category[c]]) <= acceptance[c]

\* The text is abstracted to whether it contains ACCEPT_KEYWORD and starts with
\* REJECT_KEYWORD; the first decides.
Evaluate(text) ==
    IF text.contains_yes THEN "accepted"
    ELSE IF text.starts_with_no THEN "GeminiRejectionError"
    ELSE "GeminiPhraseDecodeFailed"

\* The lists in Google's answers may be empty; their last element counts.
SafeSearchAccepts(responses) == responses # <<>> /\ Verify(Last(responses))

GeminiAccepts(candidates) ==
    /\ candidates # <<>> /\ Last(candidates) # <<>>
    /\ Evaluate(Last(Last(candidates))) = "accepted"

-----------------------------------------------------------------------------
NoRequest == [pc |-> "free", request |-> None, auth |-> "none", answer |-> "none"]

RequestInit ==
    /\ api_key \in {<<k>> : k \in ApiKey}
    /\ api_keys = <<>>
    /\ validation = {} /\ acceptance = <<>>
    /\ at = [s \in Slot |-> NoRequest]

Asked(s) == at[s].request

Goto(s, pc) == at' = [at EXCEPT ![s].pc = pc]

Answer(s, answer) ==
    at' = [at EXCEPT ![s] = [pc |-> "answered", request |-> @.request,
                             auth |-> @.auth, answer |-> answer]]

\* A connection the server has accepted.
Accept(s, q) ==
    /\ at[s] = NoRequest
    /\ at' = [at EXCEPT ![s] = [pc |-> "middleware", request |-> q,
                             auth |-> "none", answer |-> "none"]]
    /\ UNCHANGED configured

\* A header that is there and cannot be read is refused before the middleware
\* begins, which reads the whole body, and of a multipart body the operations.
AuthMiddleware(s) ==
    /\ at[s].pc = "middleware" /\ Asked(s).op \notin Admin
    /\ IF \/ Asked(s).header # None /\ ~ReadAuthFromHeader(Asked(s).header)
          \/ Asked(s).body = "bad"
       THEN Answer(s, "error")
       ELSE at' = [at EXCEPT ![s] = [pc |-> "resolver", request |-> @.request,
                                     auth |-> Authenticate(@.request.header),
                                     answer |-> "none"]]
    /\ UNCHANGED configured

AdminAuthMiddleware(s) ==
    /\ at[s].pc = "middleware" /\ Asked(s).op \in Admin
    /\ IF Asked(s).header # "admin" THEN Answer(s, "unauthorized")
       ELSE IF Asked(s).op = "version" THEN Answer(s, "ok")
       ELSE Goto(s, "command")
    /\ UNCHANGED configured

\* Mutant: a client is enough.
GraphqlHandlerOfClients(s) ==
    /\ at[s].pc = "resolver"
    /\ LET op == Asked(s).op IN
       CASE op \in Mutations \cup Personal /\ Asked(s).header = None -> Answer(s, "error")
         [] op \in Mutations /\ Asked(s).header # None ->
               Goto(s, IF op = "addImage" THEN "upload" ELSE "command")
         [] OTHER -> Answer(s, "ok")
    /\ UNCHANGED configured

\* check_authentication, then get_client_id.  A query runs in any case.
GraphqlHandler(s) ==
    /\ at[s].pc = "resolver"
    /\ LET op == Asked(s).op IN
       CASE op \in Mutations /\ at[s].auth # "authenticated" -> Answer(s, "error")
         [] op \in Personal /\ Asked(s).header = None -> Answer(s, "error")
         [] op \in Mutations /\ at[s].auth = "authenticated" ->
               Goto(s, IF op = "addImage" THEN "upload" ELSE "command")
         [] OTHER -> Answer(s, "ok")
    /\ UNCHANGED configured

ReadAndValidateUpload(s) ==
    /\ at[s].pc = "upload"
    /\ IF Asked(s).upload.hash THEN Goto(s, "preprocess") ELSE Answer(s, "error")
    /\ UNCHANGED configured

AfterSafeSearch == IF "gemini" \in validation THEN "gemini" ELSE "command"

PreprocessImage(s) ==
    /\ at[s].pc = "preprocess"
    /\ IF ~Asked(s).upload.readable THEN Answer(s, "error")
       ELSE Goto(s, IF "safe_search" \in validation THEN "safe_search" ELSE AfterSafeSearch)
    /\ UNCHANGED configured

\* No connection, an error in place of the expected answer, or neither of them.
ParseRequestFails(s) == Answer(s, "error")

SafeSearch(s) ==
    /\ at[s].pc = "safe_search"
    /\ \/ IF SafeSearchAccepts(Asked(s).upload.responses) THEN Goto(s, AfterSafeSearch)
          ELSE Answer(s, "error")
       \/ ParseRequestFails(s)
    /\ UNCHANGED configured

Gemini(s) ==
    /\ at[s].pc = "gemini"
    /\ \/ IF GeminiAccepts(Asked(s).upload.candidates) THEN Goto(s, "command")
          ELSE Answer(s, "error")
       \/ ParseRequestFails(s)
    /\ UNCHANGED configured

\* As a whole, or not; what a failure leaves behind is in ImageCommands.
Command(s) ==
    /\ at[s].pc = "command" /\ Asked(s).op # "deleteImage"
    /\ Answer(s, "ok") \/ Answer(s, "error")
    /\ UNCHANGED configured

\* The client takes the answer; as long as it does not the request is in flight.
Answered(s) ==
    /\ at[s].pc = "answered"
    /\ at' = [at EXCEPT ![s] = NoRequest]
    /\ UNCHANGED configured

\* The client closes the connection: its request is dropped where it waits.
ClientGone(s) ==
    /\ at[s] # NoRequest
    /\ at' = [at EXCEPT ![s] = NoRequest]
    /\ UNCHANGED configured

\* The steps of a request that wait for no one but the server and its database.
RequestStep(s) ==
    \/ AdminAuthMiddleware(s) \/ GraphqlHandler(s)
    \/ ReadAndValidateUpload(s) \/ PreprocessImage(s)
    \/ Command(s)

\* A client sends its request slowly or is slow to take the answer, Google answers
\* slowly: none of these waits has an end in the code.
WaitsForOthers(s) ==
    \/ at[s].pc = "middleware" /\ Asked(s).op \notin Admin
    \/ at[s].pc \in {"safe_search", "gemini"}
    \/ at[s].pc = "answered"
=============================================================================
