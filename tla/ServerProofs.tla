---------------------------- MODULE ServerProofs ----------------------------
(* Proofs about Server, for any number of requests in flight, any requests, *)
(* keys, environments, jobs and pictures.                                  *)
EXTENDS Server, TLAPS

Place == {"free", "middleware", "resolver", "upload", "preprocess", "safe_search", "gemini",
          "command", "delete_file", "notify", "answered"}
Auth == {"none", "NoAuthHeader", "MissingApiIdentOrHash", "InvalidApiKey",
         "HashNotInBase64", "HashNotMatching", "authenticated"}
Outcome == {"none", "ok", "error", "unauthorized"}
RequestType ==
    [pc : Place, request : Requests \cup {None}, auth : Auth, answer : Outcome]

\* Where the process has read its configuration, and where its web server runs.
Serving == {"ctrl_c", "stop_scheduler", "await_scheduler", "stop_api", "await_api", "stop_log"}
Configured == {"api_keys", "schedule", "start_scheduler", "bind"} \cup Serving

(* The inductive invariant *************************************************)

Phase ==
    /\ pc \in Configured => validation = Validation /\ acceptance = ReadAcceptanceVar
    /\ web # "off" => pc \in Serving
    /\ web \notin {"serving", "draining"} => \A s \in Slot : at[s] = NoRequest
    /\ pc = "stop_log" => web = "done"
    /\ pc \in {"await_scheduler", "stop_api", "await_api", "stop_log"} => scheduler # "running"

Signed(q) ==
    /\ q.body # "bad" /\ q.header # None
    /\ \E k \in DOMAIN api_keys :
          q.header.hash = api_keys[k] /\ q.header.ident \in StartsWith[api_keys[k]]

SafelySearched(q) ==
    env.use_safe_search \in {"true", " True "} =>
        /\ q.upload.responses # <<>>
        /\ \A c \in DOMAIN Category :
              Level(Last(q.upload.responses)[Category[c]]) <= Threshold(c)

MayAct(q) ==
    /\ q.op \in Admin => q.header = "admin"
    /\ q.op \in Mutations => Signed(q)
    /\ q.op = "addImage" =>
          /\ q.upload.hash /\ q.upload.readable
          /\ SafelySearched(q)
          /\ env.use_gemini_api \in {"true", " True "} =>
                Last(Last(q.upload.candidates)).contains_yes

\* What is known of a request where it is.
Sound(r) ==
    LET q == r.request IN
    /\ r.auth = "authenticated" => Signed(q)
    /\ r.pc = "resolver" => q.op \notin Admin /\ (r.auth = "authenticated" => Signed(q))
    /\ r.pc \in {"upload", "preprocess", "safe_search", "gemini"} =>
          q.op = "addImage" /\ Signed(q)
    /\ r.pc \in {"preprocess", "safe_search", "gemini"} => q.upload.hash
    /\ r.pc \in {"safe_search", "gemini"} => q.upload.readable
    /\ r.pc = "gemini" => SafelySearched(q)
    /\ r.pc \in {"command", "delete_file", "notify"} \/ r.answer = "ok" => MayAct(q)
    /\ r.pc = "delete_file" => q.image \notin rows

Pictures ==
    /\ rows \subseteq url \cup files
    /\ migration.pc = "update_row" => migration.image \in files \/ migration.image \notin rows

IInv ==
    /\ at \in [Slot -> RequestType]
    /\ Phase
    /\ \A s \in Slot : Sound(at[s])
    /\ Pictures

-----------------------------------------------------------------------------
(* How a step changes a request                                            *)

\* Nothing is known of a slot without a request.
LEMMA NothingSound == NoRequest \in RequestType /\ Sound(NoRequest) /\ Sound(NoRequest)'
<1>1. NoRequest \in RequestType
  BY DEF NoRequest, RequestType, Place, Auth, Outcome
<1>2. Sound(NoRequest)
  BY DEF Sound, NoRequest
<1>3. Sound(NoRequest)'
  BY DEF Sound, NoRequest
<1> QED
  BY <1>1, <1>2, <1>3

\* One request changes, all others stay.
Only(s) == \A t \in Slot : t # s => at'[t] = at[t]

LEMMA GotoShape ==
    ASSUME at \in [Slot -> RequestType], NEW s \in Slot, NEW p \in Place, Goto(s, p)
    PROVE  /\ at' \in [Slot -> RequestType] /\ Only(s)
           /\ at'[s] = [pc |-> p, request |-> at[s].request,
                        auth |-> at[s].auth, answer |-> at[s].answer]
BY DEF Goto, RequestType, Only

LEMMA ReplaceShape ==
    ASSUME at \in [Slot -> RequestType], NEW s \in Slot, NEW r \in RequestType,
           at' = [at EXCEPT ![s] = r]
    PROVE  at' \in [Slot -> RequestType] /\ Only(s) /\ at'[s] = r
BY DEF Only

LEMMA AnswerShape ==
    ASSUME at \in [Slot -> RequestType], NEW s \in Slot, NEW w \in Outcome, Answer(s, w)
    PROVE  /\ at' \in [Slot -> RequestType] /\ Only(s)
           /\ at'[s] = [pc |-> "answered", request |-> at[s].request,
                        auth |-> at[s].auth, answer |-> w]
<1> DEFINE r == [pc |-> "answered", request |-> at[s].request, auth |-> at[s].auth, answer |-> w]
<1>1. at[s] \in RequestType
  OBVIOUS
<1>2. r \in RequestType
  BY <1>1 DEF RequestType, Place, Outcome
<1>3. at' = [at EXCEPT ![s] = r]
  BY DEF Answer
<1> HIDE DEF r
<1> QED
  BY <1>2, <1>3, ReplaceShape DEF r

LEMMA AuthShape ==
    ASSUME at \in [Slot -> RequestType], NEW s \in Slot, NEW a \in Auth,
           at' = [at EXCEPT ![s] = [pc |-> "resolver", request |-> @.request,
                                    auth |-> a, answer |-> "none"]]
    PROVE  /\ at' \in [Slot -> RequestType] /\ Only(s)
           /\ at'[s] = [pc |-> "resolver", request |-> at[s].request,
                        auth |-> a, answer |-> "none"]
<1> DEFINE r == [pc |-> "resolver", request |-> at[s].request, auth |-> a, answer |-> "none"]
<1>1. at[s] \in RequestType
  OBVIOUS
<1>2. r \in RequestType
  BY <1>1 DEF RequestType, Place, Outcome
<1>3. at' = [at EXCEPT ![s] = r]
  OBVIOUS
<1> HIDE DEF r
<1> QED
  BY <1>2, <1>3, ReplaceShape DEF r

\* A step of one request keeps the invariant when it keeps what is known of that
\* request and of the pictures.
LEMMA OneRequestOrPicture ==
    ASSUME IInv, NEW s \in Slot,
           at' \in [Slot -> RequestType], Only(s), Sound(at[s])',
           web \in {"serving", "draining"}, rows' \subseteq rows, Pictures',
           UNCHANGED <<configured, processVars>>
    PROVE  IInv'
<1>1. Phase'
  BY DEF IInv, Phase, Only, configured, processVars, Validation, ReadAcceptanceVar, Serving, Configured
<1>2. ASSUME NEW t \in Slot PROVE Sound(at[t])'
  <2>1. CASE t = s
    BY <2>1
  <2>2. CASE t # s
    <3>1. at'[t] = at[t] /\ Sound(at[t])
      BY <2>2 DEF Only, IInv
    <3> QED
      BY <3>1 DEF Sound, Signed, MayAct, SafelySearched, Threshold, configured, processVars
  <2> QED
    BY <2>1, <2>2
<1> QED
  BY <1>1, <1>2 DEF IInv

LEMMA OneRequest ==
    ASSUME IInv, NEW s \in Slot,
           at' \in [Slot -> RequestType], Only(s), Sound(at[s])', at[s] # NoRequest,
           UNCHANGED <<configured, migrationVars, processVars>>
    PROVE  IInv'
<1>1. web \in {"serving", "draining"}
  BY DEF IInv, Phase
<1>2. Pictures' /\ rows' \subseteq rows
  BY DEF IInv, Pictures, migrationVars
<1> QED
  BY <1>1, <1>2, OneRequestOrPicture

\* An answer other than ok needs nothing.
LEMMA RefusalSound ==
    ASSUME IInv, NEW s \in Slot, NEW w \in Outcome, w # "ok", Answer(s, w),
           at[s] # NoRequest,
           UNCHANGED <<configured, migrationVars, processVars>>
    PROVE  IInv'
<1>1. /\ at' \in [Slot -> RequestType] /\ Only(s)
      /\ at'[s] = [pc |-> "answered", request |-> at[s].request,
                   auth |-> at[s].auth, answer |-> w]
  BY AnswerShape DEF IInv
<1>2. Sound(at[s])
  BY DEF IInv
<1>3. Sound(at[s])'
  BY <1>1, <1>2 DEF Sound, Signed, configured, processVars
<1> QED
  BY <1>1, <1>3, OneRequest DEF configured, migrationVars

\* A request that moves on, where what is known of it allows the next place.
LEMMA ProgressSound ==
    ASSUME IInv, NEW s \in Slot, NEW p \in Place, Goto(s, p), at[s] # NoRequest,
           UNCHANGED <<configured, migrationVars, processVars>>,
           Sound([pc |-> p, request |-> at[s].request, auth |-> at[s].auth,
                  answer |-> at[s].answer])
    PROVE  IInv'
<1>1. /\ at' \in [Slot -> RequestType] /\ Only(s)
      /\ at'[s] = [pc |-> p, request |-> at[s].request,
                   auth |-> at[s].auth, answer |-> at[s].answer]
  BY GotoShape DEF IInv
<1>2. Sound(at[s])'
  BY <1>1 DEF Sound, Signed, MayAct, SafelySearched, Threshold, configured, processVars, migrationVars
<1> QED
  BY <1>1, <1>2, OneRequest DEF configured, migrationVars

\* An answer ok to a request that may act.
LEMMA ConsentSound ==
    ASSUME IInv, NEW s \in Slot, Answer(s, "ok"), at[s] # NoRequest, MayAct(at[s].request),
           UNCHANGED <<configured, migrationVars, processVars>>
    PROVE  IInv'
<1>1. /\ at' \in [Slot -> RequestType] /\ Only(s)
      /\ at'[s] = [pc |-> "answered", request |-> at[s].request,
                   auth |-> at[s].auth, answer |-> "ok"]
  BY AnswerShape DEF IInv, Outcome
<1>2. Sound(at[s])
  BY DEF IInv
<1>0. PICK q : q = at[s].request
  OBVIOUS
<1>3. Signed(q)' <=> Signed(q)
  BY DEF Signed, configured
<1>4. SafelySearched(q)' <=> SafelySearched(q)
  BY DEF SafelySearched, Threshold, processVars
<1>5. MayAct(q)'
  BY <1>0, <1>3, <1>4 DEF MayAct, processVars
<1>6. at[s].auth = "authenticated" => Signed(q)'
  BY <1>0, <1>2, <1>3 DEF Sound
<1>7. Sound(at[s])'
  BY <1>0, <1>1, <1>5, <1>6 DEF Sound
<1> QED
  BY <1>1, <1>7, OneRequest DEF configured, migrationVars

\* A request that is gone.
LEMMA DropSound ==
    ASSUME IInv, NEW s \in Slot, at' = [at EXCEPT ![s] = NoRequest], at[s] # NoRequest,
           UNCHANGED <<configured, migrationVars, processVars>>
    PROVE  IInv'
<1>1. at' \in [Slot -> RequestType] /\ Only(s) /\ at'[s] = NoRequest
  BY NothingSound, ReplaceShape DEF IInv
<1>2. Sound(at[s])'
  BY <1>1, NothingSound
<1> QED
  BY <1>1, <1>2, OneRequest DEF configured, migrationVars

-----------------------------------------------------------------------------
(* The steps of a request                                                  *)

\* A hash that matches was made with a key of the list.
LEMMA AuthenticateSound ==
    ASSUME NEW q, q.body # "bad"
    PROVE  /\ Authenticate(q.header) \in Auth
           /\ Authenticate(q.header) = "authenticated" => Signed(q)
BY DEF Authenticate, HashMatches, Known, Signed, Auth

LEMMA AuthStep ==
    ASSUME IInv, NEW s \in Slot, AuthMiddleware(s), UNCHANGED <<migrationVars, processVars>>
    PROVE  IInv'
<1>1. at[s] # NoRequest /\ at[s].pc = "middleware" /\ at[s].request.op \notin Admin
  BY DEF AuthMiddleware, NoRequest, Asked
<1> DEFINE refused ==
              \/ at[s].request.header # None /\ ~ReadAuthFromHeader(at[s].request.header)
              \/ at[s].request.body = "bad"
<1>2. CASE refused
  BY <1>1, <1>2, RefusalSound DEF AuthMiddleware, Asked, Outcome
<1>3. CASE ~refused
  <2> DEFINE a == Authenticate(at[s].request.header)
  <2>1. a \in Auth /\ (a = "authenticated" => Signed(at[s].request))
    BY <1>3, AuthenticateSound
  <2>2. at' = [at EXCEPT ![s] = [pc |-> "resolver", request |-> @.request,
                                 auth |-> a, answer |-> "none"]]
    BY <1>3 DEF AuthMiddleware, Asked
  <2> HIDE DEF a
  <2>3. /\ at' \in [Slot -> RequestType] /\ Only(s)
        /\ at'[s] = [pc |-> "resolver", request |-> at[s].request,
                     auth |-> a, answer |-> "none"]
    BY <2>1, <2>2, AuthShape DEF IInv
  <2>4. UNCHANGED configured
    BY DEF AuthMiddleware
  <2>5. Sound(at[s])'
    BY <1>1, <2>1, <2>3, <2>4 DEF Sound, Signed, configured
  <2> QED
    BY <1>1, <2>3, <2>4, <2>5, OneRequest DEF configured, migrationVars
<1> QED
  BY <1>2, <1>3

LEMMA AdminStep ==
    ASSUME IInv, NEW s \in Slot, AdminAuthMiddleware(s), UNCHANGED <<migrationVars, processVars>>
    PROVE  IInv'
<1>1. /\ at[s] # NoRequest /\ at[s].pc = "middleware" /\ at[s].request.op \in Admin
      /\ UNCHANGED configured
  BY DEF AdminAuthMiddleware, NoRequest, Asked
<1>2. Sound(at[s])
  BY DEF IInv
<1>3. CASE at[s].request.header # "admin"
  BY <1>1, <1>3, RefusalSound DEF AdminAuthMiddleware, Asked, Outcome
<1>4. CASE at[s].request.header = "admin"
  <2>1. MayAct(at[s].request)
    BY <1>1, <1>4 DEF MayAct, Admin, Mutations
  <2>2. CASE at[s].request.op = "version"
    BY <1>1, <1>4, <2>1, <2>2, ConsentSound DEF AdminAuthMiddleware, Asked
  <2>3. CASE at[s].request.op # "version"
    <3>1. Goto(s, "command")
      BY <1>4, <2>3 DEF AdminAuthMiddleware, Asked
    <3>2. Sound([pc |-> "command", request |-> at[s].request, auth |-> at[s].auth,
                 answer |-> at[s].answer])
      BY <1>2, <2>1 DEF Sound
    <3> QED
      BY <1>1, <3>1, <3>2, ProgressSound DEF Place
  <2> QED
    BY <2>2, <2>3
<1> QED
  BY <1>3, <1>4

LEMMA GraphqlStep ==
    ASSUME IInv, NEW s \in Slot, GraphqlHandler(s), UNCHANGED <<migrationVars, processVars>>
    PROVE  IInv'
<1> DEFINE q == at[s].request
<1>1. at[s] # NoRequest /\ at[s].pc = "resolver" /\ UNCHANGED configured
  BY DEF GraphqlHandler, NoRequest
<1>2. Sound(at[s])
  BY DEF IInv
<1>3. CASE q.op \in Mutations /\ at[s].auth = "authenticated"
  <2>1. Signed(q) /\ q.op \notin Admin
    BY <1>1, <1>2, <1>3 DEF Sound
  <2>2. PICK p \in {"upload", "command"} :
          Goto(s, p) /\ (p = "command" => q.op # "addImage") /\ (p = "upload" => q.op = "addImage")
    BY <1>3 DEF GraphqlHandler, Asked, Mutations, Personal
  <2>3. p = "command" => MayAct(q)
    BY <2>1, <2>2 DEF MayAct
  <2>4. Sound([pc |-> p, request |-> at[s].request, auth |-> at[s].auth,
               answer |-> at[s].answer])
    BY <1>2, <2>1, <2>2, <2>3 DEF Sound
  <2> QED
    BY <1>1, <2>2, <2>4, ProgressSound DEF Place
<1>4. CASE ~(q.op \in Mutations /\ at[s].auth = "authenticated") /\ Answer(s, "error")
  BY <1>1, <1>4, RefusalSound DEF Outcome
<1>5. CASE q.op \notin Mutations /\ Answer(s, "ok")
  <2>1. MayAct(q)
    BY <1>1, <1>2, <1>5 DEF Sound, MayAct, Mutations
  <2> QED
    BY <1>1, <1>5, <2>1, ConsentSound
<1> QED
  BY <1>3, <1>4, <1>5 DEF GraphqlHandler, Asked, Mutations, Personal

LEMMA UploadStep ==
    ASSUME IInv, NEW s \in Slot, ReadAndValidateUpload(s),
           UNCHANGED <<migrationVars, processVars>>
    PROVE  IInv'
<1>1. at[s] # NoRequest /\ at[s].pc = "upload" /\ UNCHANGED configured
  BY DEF ReadAndValidateUpload, NoRequest
<1>2. Sound(at[s])
  BY DEF IInv
<1>3. CASE Answer(s, "error")
  BY <1>1, <1>3, RefusalSound DEF Outcome
<1>4. CASE at[s].request.upload.hash /\ Goto(s, "preprocess")
  <2>1. Sound([pc |-> "preprocess", request |-> at[s].request, auth |-> at[s].auth,
               answer |-> at[s].answer])
    BY <1>1, <1>2, <1>4 DEF Sound
  <2> QED
    BY <1>1, <1>4, <2>1, ProgressSound DEF Place
<1> QED
  BY <1>3, <1>4 DEF ReadAndValidateUpload, Asked

\* What the checks that were left out in this process would have asked for.
LEMMA ChecksOfProcess ==
    ASSUME IInv, NEW s \in Slot, at[s] # NoRequest
    PROVE  /\ "safe_search" \notin validation => SafelySearched(at[s].request)
           /\ SafeSearchAccepts(at[s].request.upload.responses) => SafelySearched(at[s].request)
           /\ "gemini" \notin validation => env.use_gemini_api \notin {"true", " True "}
<1>1. validation = Validation /\ acceptance = ReadAcceptanceVar
  BY DEF IInv, Phase, Configured
<1>2. \A c \in DOMAIN Category : acceptance[c] = Threshold(c)
  BY <1>1 DEF ReadAcceptanceVar, Threshold, Category
<1>3. SafeSearchAccepts(at[s].request.upload.responses) => SafelySearched(at[s].request)
  BY <1>2 DEF SafeSearchAccepts, Verify, SafelySearched
<1> QED
  BY <1>1, <1>3 DEF Validation, ReadVarToBool, SafelySearched

\* A picture that was checked goes on to the other check or is added.
LEMMA AfterSafeSearchSound ==
    ASSUME IInv, NEW s \in Slot, at[s] # NoRequest, Goto(s, AfterSafeSearch),
           at[s].request.op = "addImage", Signed(at[s].request),
           at[s].request.upload.hash, at[s].request.upload.readable,
           SafelySearched(at[s].request),
           UNCHANGED <<configured, migrationVars, processVars>>
    PROVE  IInv'
<1>1. Sound(at[s])
  BY DEF IInv
<1>2. CASE "gemini" \in validation
  <2>1. Sound([pc |-> "gemini", request |-> at[s].request, auth |-> at[s].auth,
               answer |-> at[s].answer])
    BY <1>1 DEF Sound
  <2>2. AfterSafeSearch = "gemini"
    BY <1>2 DEF AfterSafeSearch
  <2> QED
    BY <2>1, <2>2, ProgressSound DEF Place
<1>3. CASE "gemini" \notin validation
  <2>1. MayAct(at[s].request)
    BY <1>3, ChecksOfProcess DEF MayAct, Admin
  <2>2. Sound([pc |-> "command", request |-> at[s].request, auth |-> at[s].auth,
               answer |-> at[s].answer])
    BY <1>1, <2>1 DEF Sound
  <2>3. AfterSafeSearch = "command"
    BY <1>3 DEF AfterSafeSearch
  <2> QED
    BY <2>2, <2>3, ProgressSound DEF Place
<1> QED
  BY <1>2, <1>3

LEMMA PreprocessStep ==
    ASSUME IInv, NEW s \in Slot, PreprocessImage(s), UNCHANGED <<migrationVars, processVars>>
    PROVE  IInv'
<1>1. at[s] # NoRequest /\ at[s].pc = "preprocess" /\ UNCHANGED configured
  BY DEF PreprocessImage, NoRequest
<1>2. Sound(at[s])
  BY DEF IInv
<1>3. CASE Answer(s, "error")
  BY <1>1, <1>3, RefusalSound DEF Outcome
<1>4. CASE at[s].request.upload.readable /\ "safe_search" \in validation
  <2>1. Goto(s, "safe_search")
    BY <1>4 DEF PreprocessImage, Asked
  <2>2. Sound([pc |-> "safe_search", request |-> at[s].request, auth |-> at[s].auth,
               answer |-> at[s].answer])
    BY <1>1, <1>2, <1>4 DEF Sound
  <2> QED
    BY <1>1, <2>1, <2>2, ProgressSound DEF Place
<1>5. CASE at[s].request.upload.readable /\ "safe_search" \notin validation
  <2>1. Goto(s, AfterSafeSearch)
    BY <1>5 DEF PreprocessImage, Asked
  <2>2. /\ at[s].request.op = "addImage" /\ Signed(at[s].request)
        /\ at[s].request.upload.hash
    BY <1>1, <1>2 DEF Sound
  <2>3. SafelySearched(at[s].request)
    BY <1>1, <1>5, ChecksOfProcess
  <2> QED
    BY <1>1, <1>5, <2>1, <2>2, <2>3, AfterSafeSearchSound
<1> QED
  BY <1>3, <1>4, <1>5 DEF PreprocessImage, Asked

LEMMA SafeSearchStep ==
    ASSUME IInv, NEW s \in Slot, SafeSearch(s), UNCHANGED <<migrationVars, processVars>>
    PROVE  IInv'
<1>1. at[s] # NoRequest /\ at[s].pc = "safe_search" /\ UNCHANGED configured
  BY DEF SafeSearch, NoRequest
<1>2. /\ at[s].request.op = "addImage" /\ Signed(at[s].request)
      /\ at[s].request.upload.hash /\ at[s].request.upload.readable
  BY <1>1 DEF IInv, Sound
<1>3. CASE Answer(s, "error")
  BY <1>1, <1>3, RefusalSound DEF Outcome
<1>4. CASE SafeSearchAccepts(at[s].request.upload.responses) /\ Goto(s, AfterSafeSearch)
  BY <1>1, <1>2, <1>4, ChecksOfProcess, AfterSafeSearchSound
<1> QED
  BY <1>3, <1>4 DEF SafeSearch, ParseRequestFails, Asked

LEMMA GeminiStep ==
    ASSUME IInv, NEW s \in Slot, Gemini(s), UNCHANGED <<migrationVars, processVars>>
    PROVE  IInv'
<1>1. at[s] # NoRequest /\ at[s].pc = "gemini" /\ UNCHANGED configured
  BY DEF Gemini, NoRequest
<1>2. Sound(at[s])
  BY DEF IInv
<1>3. CASE Answer(s, "error")
  BY <1>1, <1>3, RefusalSound DEF Outcome
<1>4. CASE GeminiAccepts(at[s].request.upload.candidates) /\ Goto(s, "command")
  <2>0. Last(Last(at[s].request.upload.candidates)).contains_yes
    BY <1>4 DEF GeminiAccepts, Evaluate
  <2>1. MayAct(at[s].request)
    BY <1>1, <1>2, <2>0 DEF Sound, MayAct, Admin
  <2>2. Sound([pc |-> "command", request |-> at[s].request, auth |-> at[s].auth,
               answer |-> at[s].answer])
    BY <1>2, <2>1 DEF Sound
  <2> QED
    BY <1>1, <1>4, <2>2, ProgressSound DEF Place
<1> QED
  BY <1>3, <1>4 DEF Gemini, ParseRequestFails, Asked

LEMMA CommandStep ==
    ASSUME IInv, NEW s \in Slot, Command(s), UNCHANGED <<migrationVars, processVars>>
    PROVE  IInv'
<1>1. at[s] # NoRequest /\ at[s].pc = "command" /\ UNCHANGED configured
  BY DEF Command, NoRequest
<1>2. MayAct(at[s].request)
  BY <1>1 DEF IInv, Sound
<1> QED
  BY <1>1, <1>2, RefusalSound, ConsentSound DEF Command, Outcome

\* An answer is written, or its client is gone.
LEMMA GoneStep ==
    ASSUME IInv, NEW s \in Slot, Answered(s) \/ ClientGone(s),
           UNCHANGED <<migrationVars, processVars>>
    PROVE  IInv'
<1>1. at[s] # NoRequest
  BY DEF Answered, ClientGone, NoRequest
<1> QED
  BY <1>1, DropSound DEF Answered, ClientGone

\* The row goes first, so what is still known is in the other places.
LEMMA DeleteRowStep ==
    ASSUME IInv, NEW s \in Slot, DeleteRow(s)
    PROVE  IInv'
<1>1. /\ at[s] # NoRequest /\ at[s].pc = "command" /\ UNCHANGED <<configured, processVars>>
      /\ at[s].request.op = "deleteImage"
  BY DEF DeleteRow, NoRequest, Asked
<1>2. Sound(at[s]) /\ MayAct(at[s].request)
  BY <1>1 DEF IInv, Sound
<1>3. CASE Answer(s, "error") /\ UNCHANGED migrationVars
  BY <1>1, <1>3, RefusalSound DEF Outcome
<1>4. CASE DeleteImageRow(at[s].request.image) /\ Goto(s, "delete_file")
  <2>1. /\ at' \in [Slot -> RequestType] /\ Only(s)
        /\ at'[s] = [pc |-> "delete_file", request |-> at[s].request,
                     auth |-> at[s].auth, answer |-> at[s].answer]
    BY <1>4, GotoShape DEF IInv, Place
  <2>2. rows' = rows \ {at[s].request.image}
    BY <1>4 DEF DeleteImageRow
  <2>3. Pictures'
    BY <1>4 DEF IInv, Pictures, DeleteImageRow
  <2>4. PICK q : q = at[s].request
    OBVIOUS
  <2>5. MayAct(q)' /\ (at[s].auth = "authenticated" => Signed(q)')
    BY <1>1, <1>2, <2>4 DEF Sound, MayAct, Signed, SafelySearched, Threshold, configured, processVars
  <2>6. Sound(at[s])'
    BY <2>1, <2>2, <2>4, <2>5 DEF Sound
  <2>7. web \in {"serving", "draining"}
    BY <1>1 DEF IInv, Phase
  <2> QED
    BY <1>1, <2>1, <2>2, <2>3, <2>6, <2>7, OneRequestOrPicture DEF configured
<1> QED
  BY <1>3, <1>4 DEF DeleteRow, Asked

LEMMA DeleteFileStep ==
    ASSUME IInv, NEW s \in Slot, DeleteFile(s)
    PROVE  IInv'
<1>1. at[s] # NoRequest /\ at[s].pc = "delete_file" /\ UNCHANGED <<configured, processVars>>
  BY DEF DeleteFile, NoRequest
<1>2. /\ Sound(at[s]) /\ MayAct(at[s].request)
      /\ at[s].request.image \notin rows
  BY <1>1 DEF IInv, Sound
<1>3. CASE Answer(s, "error") /\ UNCHANGED migrationVars
  BY <1>1, <1>3, RefusalSound DEF Outcome
<1>4. CASE DeleteImageFile(at[s].request.image) /\ Goto(s, "notify")
  <2>2. /\ at' \in [Slot -> RequestType] /\ Only(s)
        /\ at'[s] = [pc |-> "notify", request |-> at[s].request,
                     auth |-> at[s].auth, answer |-> at[s].answer]
    BY <1>4, GotoShape DEF IInv, Place
  <2>3. Pictures' /\ rows' = rows
    BY <1>2, <1>4 DEF IInv, Pictures, DeleteImageFile
  <2>4. PICK q : q = at[s].request
    OBVIOUS
  <2>5. MayAct(q)' /\ (at[s].auth = "authenticated" => Signed(q)')
    BY <1>1, <1>2, <2>4 DEF Sound, MayAct, Signed, SafelySearched, Threshold, configured, processVars
  <2>6. Sound(at[s])'
    BY <2>2, <2>4, <2>5 DEF Sound
  <2>7. web \in {"serving", "draining"}
    BY <1>1 DEF IInv, Phase
  <2> QED
    BY <1>1, <2>2, <2>3, <2>6, <2>7, OneRequestOrPicture DEF configured
<1> QED
  BY <1>3, <1>4 DEF DeleteFile, Asked

LEMMA SendStep ==
    ASSUME IInv, NEW s \in Slot, SendMessage(s)
    PROVE  IInv'
<1>1. /\ at[s] # NoRequest /\ at[s].pc = "notify"
      /\ UNCHANGED <<configured, migrationVars, processVars>>
  BY DEF SendMessage, NoRequest
<1>2. MayAct(at[s].request)
  BY <1>1 DEF IInv, Sound
<1> QED
  BY <1>1, <1>2, RefusalSound, ConsentSound DEF SendMessage, Outcome

LEMMA AcceptStep ==
    ASSUME IInv, NEW s \in Slot, NEW q \in Requests, AcceptRequest(s, q)
    PROVE  IInv'
<1> DEFINE r == [pc |-> "middleware", request |-> q, auth |-> "none", answer |-> "none"]
<1>1. r \in RequestType
  BY DEF RequestType, Place, Auth, Outcome
<1>2. at' = [at EXCEPT ![s] = r]
  BY DEF AcceptRequest, Accept
<1>3. at' \in [Slot -> RequestType] /\ Only(s) /\ at'[s] = r
  <2> HIDE DEF r
  <2> QED
    BY <1>1, <1>2, ReplaceShape DEF IInv
<1>4. Sound(at[s])'
  BY <1>3 DEF Sound
<1>5. /\ web = "serving" /\ UNCHANGED <<configured, processVars>>
      /\ UNCHANGED migrationVars
  BY DEF AcceptRequest, Accept, configured, processVars
<1>6. Pictures' /\ rows' = rows
  BY <1>5 DEF IInv, Pictures, migrationVars
<1> QED
  BY <1>3, <1>4, <1>5, <1>6, OneRequestOrPicture

-----------------------------------------------------------------------------
(* The steps of the process and around it                                  *)

\* A step that touches no request keeps what is known of them.
LEMMA RequestsKept ==
    ASSUME IInv, Phase', UNCHANGED <<requestVars, env, rows>>, Pictures'
    PROVE  IInv'
<1>1. ASSUME NEW t \in Slot PROVE Sound(at[t])'
  <2>1. at'[t] = at[t] /\ Sound(at[t])
    BY DEF IInv, requestVars
  <2> QED
    BY <2>1 DEF Sound, Signed, MayAct, SafelySearched, Threshold, requestVars
<1> QED
  BY <1>1 DEF IInv, requestVars

\* So does one that leaves or finds no request.
LEMMA NoRequests ==
    ASSUME IInv, Phase', UNCHANGED migrationVars,
           at' \in [Slot -> RequestType], \A t \in Slot : at'[t] = NoRequest
    PROVE  IInv'
<1>1. \A t \in Slot : Sound(at[t])'
  BY NothingSound
<1>2. Pictures'
  BY DEF IInv, Pictures, migrationVars
<1> QED
  BY <1>1, <1>2 DEF IInv

LEMMA ExitStep ==
    ASSUME IInv, Exit
    PROVE  IInv'
<1>1. at' \in [Slot -> RequestType] /\ \A t \in Slot : at'[t] = NoRequest
  BY NothingSound DEF Exit
<1>2. Phase'
  BY <1>1 DEF Exit, Phase, Configured, Serving
<1> QED
  BY <1>1, <1>2, NoRequests DEF Exit

\* Before the web server serves there are no requests.
LEMMA StartStep ==
    ASSUME IInv, StartProcess \/ NewComponents \/ NewApiServer, pc \in {"off", "components", "api_keys"}
    PROVE  IInv'
<1>1. web = "off" /\ \A t \in Slot : at[t] = NoRequest
  BY DEF IInv, Phase, Serving
<1>2. at' \in [Slot -> RequestType] /\ (\A t \in Slot : at'[t] = NoRequest)
      /\ UNCHANGED migrationVars
  BY <1>1 DEF IInv, StartProcess, NewComponents, NewApiServer, requestVars
<1>3. Phase'
  BY <1>1, <1>2 DEF IInv, Phase, StartProcess, NewComponents, NewGoogleApiHandler, NewApiServer,
                    requestVars, Configured, Serving, Validation, ReadAcceptanceVar
<1> QED
  BY <1>2, <1>3, NoRequests

LEMMA ProcessStep ==
    ASSUME IInv,
           \/ InitLogger \/ StartServer
           \/ NewDataAccessFactory \/ NewScheduler \/ StartScheduler \/ StartApiServer \/ CtrlC
           \/ ShutdownScheduler \/ AwaitScheduler \/ ShutdownApiServer \/ JoinWebServer
           \/ SchedulerEnds \/ WebServerSteps
           \/ \E j \in Job : BeginJob(j) \/ EndJob(j)
    PROVE  IInv'
<1>1. UNCHANGED <<requestVars, migrationVars, env>>
  BY DEF InitLogger, StartServer,
         NewDataAccessFactory, NewScheduler, StartScheduler, StartApiServer, CtrlC,
         ShutdownScheduler, AwaitScheduler, ShutdownApiServer, JoinWebServer,
         SchedulerEnds, WebServerSteps, WebServerAwaitsSignal, StopAccepting, WebServerEnds,
         BeginJob, EndJob, Proceed
<1>2. Pictures'
  BY <1>1 DEF IInv, Pictures, migrationVars
<1>3. Validation' = Validation /\ ReadAcceptanceVar' = ReadAcceptanceVar
  BY <1>1 DEF Validation, ReadAcceptanceVar
<1>4. Phase
  BY DEF IInv
<1> USE <1>1, <1>3, <1>4 DEF Phase, requestVars, Configured, Serving
<1>5. CASE \/ InitLogger \/ StartServer \/ NewDataAccessFactory \/ NewScheduler
           \/ CtrlC \/ JoinWebServer
  <2>1. Phase'
    BY <1>5 DEF InitLogger, StartServer, NewDataAccessFactory, NewScheduler, CtrlC, JoinWebServer, Proceed
  <2> QED
    BY <1>2, <2>1, RequestsKept DEF migrationVars
<1>6. CASE StartScheduler \/ StartApiServer \/ ShutdownScheduler \/ AwaitScheduler \/ ShutdownApiServer
  <2>1. Phase'
    BY <1>6 DEF StartScheduler, StartApiServer, ShutdownScheduler, AwaitScheduler, ShutdownApiServer
  <2> QED
    BY <1>2, <2>1, RequestsKept DEF migrationVars
<1>7. CASE SchedulerEnds \/ WebServerSteps \/ \E j \in Job : BeginJob(j) \/ EndJob(j)
  <2>1. Phase'
    BY <1>7 DEF SchedulerEnds, WebServerSteps, WebServerAwaitsSignal, StopAccepting,
                WebServerEnds, BeginJob, EndJob
  <2> QED
    BY <1>2, <2>1, RequestsKept DEF migrationVars
<1> QED
  BY <1>5, <1>6, <1>7

LEMMA MigrateStep ==
    ASSUME IInv, Migrate
    PROVE  IInv'
<1>1. UNCHANGED <<requestVars, processVars>> /\ MigrationStep
  BY DEF Migrate
<1>2. Phase'
  BY <1>1 DEF IInv, Phase, requestVars, processVars, Validation, ReadAcceptanceVar
<1>3. Pictures' /\ UNCHANGED rows
  BY <1>1 DEF IInv, Pictures, MigrationStep, SelectImages, Download, SaveMigratedImage, DropUrl,
              NextImage, MigrateImageFails, MigrationDone, MigrationKilled, NoMigration, Migrating
<1> QED
  BY <1>1, <1>2, <1>3, RequestsKept DEF processVars

-----------------------------------------------------------------------------
(* The theorems                                                            *)

LEMMA InvariantInit ==
    ASSUME Init
    PROVE  IInv
<1>1. at \in [Slot -> RequestType] /\ \A s \in Slot : at[s] = NoRequest
  BY NothingSound DEF Init, RequestInit
<1>2. Phase
  BY <1>1 DEF Init, Phase, Configured, Serving
<1>3. Pictures
  BY DEF Init, MigrationInit, Pictures, NoMigration, Migrating
<1> QED
  BY <1>1, <1>2, <1>3, NothingSound DEF IInv

LEMMA InvariantStep ==
    ASSUME IInv, [Next]_vars
    PROVE  IInv'
<1>1. CASE UNCHANGED vars
  <2>1. Phase' /\ Pictures'
    BY <1>1 DEF IInv, Phase, Pictures, vars, requestVars, migrationVars, processVars, Validation, ReadAcceptanceVar
  <2> QED
    BY <1>1, <2>1, RequestsKept DEF vars, migrationVars, processVars
<1>2. CASE StartProcess \/ RunFails \/ CtrlC \/ Kill
  BY <1>2, StartStep, ExitStep, ProcessStep DEF StartProcess, RunFails, Kill
<1>3. CASE ServerSteps
  BY <1>3, StartStep, ExitStep, ProcessStep
     DEF ServerSteps, NewComponents, NewApiServer, PrintHelp, MigrateImages, ShutdownLogger
<1>4. CASE SchedulerEnds \/ WebServerSteps \/ \E j \in Job : BeginJob(j) \/ EndJob(j)
  BY <1>4, ProcessStep
<1>5. ASSUME NEW s \in Slot, NEW q \in Requests, AcceptRequest(s, q) PROVE IInv'
  BY <1>5, AcceptStep
<1>6. ASSUME NEW s \in Slot, RequestSteps(s) PROVE IInv'
  BY <1>6, AdminStep, GraphqlStep, UploadStep, PreprocessStep, CommandStep, GoneStep,
     DeleteRowStep, DeleteFileStep, SendStep
     DEF RequestSteps, RequestProceeds, RequestStep
<1>7. ASSUME NEW s \in Slot, RequestWaits(s) PROVE IInv'
  BY <1>7, AuthStep, SafeSearchStep, GeminiStep, GoneStep DEF RequestWaits
<1>8. CASE Migrate
  BY <1>8, MigrateStep
<1>9. CASE EditKeys
  <2>1. at' = at /\ Phase' /\ Pictures'
    BY <1>9 DEF EditKeys, IInv, Phase, Pictures, migrationVars, processVars, Validation, ReadAcceptanceVar
  <2>2. ASSUME NEW t \in Slot PROVE Sound(at[t])'
    <3>1. Sound(at[t])
      BY DEF IInv
    <3> QED
      BY <1>9, <2>1, <3>1 DEF EditKeys, Sound, Signed, MayAct, SafelySearched, Threshold, processVars, migrationVars
  <2> QED
    BY <2>1, <2>2 DEF IInv
<1> QED
  BY <1>1, <1>2, <1>3, <1>4, <1>5, <1>6, <1>7, <1>8, <1>9 DEF Next

THEOREM Invariance == Spec => []IInv
BY InvariantInit, InvariantStep, PTL DEF Spec

\* A command is only carried out for a request that was signed with a key the
\* process has, or for an admin, and a picture only after the configured checks:
\* auth_middleware, the resolvers and validate_image leave no way around.
THEOREM OnlyCheckedAct == Spec => []OnlyCheckedRequestsAct
<1>1. ASSUME IInv PROVE OnlyCheckedRequestsAct
  BY <1>1 DEF IInv, Sound, MayAct, Signed, SafelySearched, OnlyCheckedRequestsAct, Asked
<1> QED
  BY <1>1, Invariance, PTL

\* A picture that is known has its file or its url, however migrations of
\* migrate_images and deletions of the admin interleave, fail or are killed.
THEOREM PicturesAreKept == Spec => []NoPictureIsLost
<1>1. ASSUME IInv PROVE NoPictureIsLost
  BY <1>1 DEF IInv, Pictures, NoPictureIsLost
<1> QED
  BY <1>1, Invariance, PTL

\* ApiServer::shutdown returns only when every accepted request was answered or
\* given up by its client.
THEOREM AllAnswered == Spec => []OrdinaryEndAnswersAll
<1>1. ASSUME IInv PROVE OrdinaryEndAnswersAll
  BY <1>1 DEF IInv, Phase, OrdinaryEndAnswersAll
<1> QED
  BY <1>1, Invariance, PTL

\* Once Scheduler::shutdown was called no job begins.
THEOREM NoLateJobs == Spec => NoJobBeginsInShutdown
<1>1. ASSUME IInv, Next, ShuttingDown PROVE jobs' \subseteq jobs
  <2>1. scheduler # "running" /\ pc \notin {"off", "log", "arguments", "database", "components", "api_keys",
                                           "schedule", "start_scheduler", "bind", "ctrl_c"}
    BY <1>1 DEF IInv, Phase, ShuttingDown
  <2>2. CASE jobs' = jobs \/ Exit
    BY <2>2 DEF Exit
  <2>3. CASE \E j \in Job : BeginJob(j) \/ EndJob(j)
    BY <2>1, <2>3 DEF BeginJob, EndJob
  <2>4. ServerSteps \/ SchedulerEnds \/ WebServerSteps => jobs' = jobs \/ Exit
    BY DEF ServerSteps, InitLogger, PrintHelp, MigrateImages, StartServer, NewDataAccessFactory, NewComponents, NewApiServer, NewScheduler,
           StartScheduler, StartApiServer, ShutdownScheduler, AwaitScheduler, ShutdownApiServer,
           JoinWebServer, ShutdownLogger, SchedulerEnds, WebServerSteps, WebServerAwaitsSignal,
           StopAccepting, WebServerEnds, Proceed
  <2>5. StartProcess \/ RunFails \/ CtrlC \/ Kill \/ Migrate \/ EditKeys => jobs' = jobs \/ Exit
    BY DEF StartProcess, RunFails, CtrlC, Kill, Migrate, EditKeys, Proceed, processVars
  <2>6. ASSUME NEW s \in Slot PROVE RequestSteps(s) \/ RequestWaits(s) => jobs' = jobs
    BY DEF RequestSteps, RequestProceeds, RequestWaits, DeleteRow, DeleteFile, SendMessage, processVars
  <2>7. ASSUME NEW s \in Slot, NEW q \in Requests PROVE AcceptRequest(s, q) => jobs' = jobs
    BY DEF AcceptRequest
  <2> QED
    BY <1>1, <2>2, <2>3, <2>4, <2>5, <2>6, <2>7 DEF Next
<1>2. ASSUME IInv, [Next]_vars PROVE [ShuttingDown => jobs' \subseteq jobs]_vars
  BY <1>1, <1>2
<1> QED
  BY <1>2, Invariance, PTL DEF Spec, NoJobBeginsInShutdown

=============================================================================
