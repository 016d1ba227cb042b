------------------------------ MODULE MCServer ------------------------------
EXTENDS Server, TLC

CONSTANTS k1, k2, i1

MCStartsWith == k1 :> {"k1", "k1-long"} @@ k2 :> {"k2"}

Harmless == [adult |-> "VERY_UNLIKELY", spoof |-> "LIKELY", medical |-> "VERY_LIKELY",
             violence |-> "POSSIBLE", racy |-> "LIKELY"]
Yes == [contains_yes |-> TRUE, starts_with_no |-> FALSE]
No == [contains_yes |-> FALSE, starts_with_no |-> TRUE]
Picture ==
    [hash |-> TRUE, readable |-> TRUE, responses |-> <<Harmless>>, candidates |-> <<<<Yes>>>>]

Header(ident, hash) == [type |-> "Mensa", client |-> TRUE, ident |-> ident, hash |-> hash]
Signed(k) == Header(IF k = k1 THEN "k1" ELSE "k2", k)
Query(op, header) == [op |-> op, header |-> header, body |-> "ok"]
AddImage(picture) ==
    [op |-> "addImage", header |-> Signed(k1), body |-> "ok", upload |-> picture]

MCRequests == {
    Query("addUpvote", Signed(k1)),
    Query("addUpvote", Header("k1-long", k2)),
    Query("addUpvote", [Signed(k1) EXCEPT !.type = "Basic"]),
    [Query("addUpvote", Signed(k2)) EXCEPT !.body = "bad"],
    Query("personalRating", None),
    Query("deleteImage", "admin") @@ [image |-> i1],
    Query("verifyImage", "admin"),
    Query("version", "guest"),
    AddImage(Picture),
    AddImage([Picture EXCEPT !.responses = <<Harmless, [Harmless EXCEPT !.adult = "LIKELY"]>>]),
    AddImage([Picture EXCEPT !.responses[1].violence = "no such level"]),
    AddImage([Picture EXCEPT !.candidates = <<<<Yes>>, <<Yes, No>>>>]),
    AddImage([Picture EXCEPT !.hash = FALSE]),
    AddImage([Picture EXCEPT !.readable = FALSE]) }

AllVariables == {
    "DATABASE_URL", "ADMIN_EMAIL", "SMTP_SERVER", "SMTP_USERNAME", "SMTP_PASSWORD",
    "IMAGE_DIR", "ADMIN_KEY", "GOOGLE_PROJECT_ID", "SERVICE_ACCOUNT_JSON",
    "GEMINI_TEXT_REQUEST", "GEMINI_API_KEY", "UPDATE_PARSE_SCHEDULE" }

\* Everything is set and can be read, and a picture undergoes both checks.
Usual ==
    [args |-> {}, set |-> AllVariables, unreadable |-> {},
     use_safe_search |-> " True ", use_gemini_api |-> "true", acceptance |-> <<1, 5, 5, 3, 5>>]

MCEnvironments == {
    Usual,
    [Usual EXCEPT !.use_safe_search = "ture", !.use_gemini_api = ""],
    [Usual EXCEPT !.acceptance = <<>>],
    [Usual EXCEPT !.acceptance = <<1, 5, 5, 3, 42>>],
    [Usual EXCEPT !.set = AllVariables \ {"GEMINI_API_KEY"}],
    [Usual EXCEPT !.unreadable = {"UPDATE_PARSE_SCHEDULE"}],
    [Usual EXCEPT !.args = {"--migrate-images"}],
    [Usual EXCEPT !.args = {"--help", "--migrate-images"}] }
=============================================================================
