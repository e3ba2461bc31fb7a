------------------------------ MODULE Handlers ------------------------------
(***************************************************************************)
(* Handlers: what each HTTP handler tests before it calls its service,     *)
(* which operation it calls, and which status it answers.  A test is a     *)
(* defect a request may have, with the answer to it; an operation ends     *)
(* done, or with an error, of which the handler tells some apart, or in a  *)
(* way that its service keeps to itself: the handler answers as if done.   *)
(***************************************************************************)
EXTENDS Naturals, Sequences

\* What is left to the error handler: an unsupported media type, invalid JSON (in which no
\* code of a status is found), fields that fail validation, and any other error.
ErrorHandlerMiddleware ==
  [media |-> 422, json |-> 500, fields |-> 400, other |-> 500, panic |-> 500]

Id           == <<"id", 400>>
Fields       == <<"fields", 400>>
File         == <<"file", 400>>
Query        == <<"query", 400>>
Body         == <<<<"media", 400>>, <<"json", 400>>>>
Raised(d)    == <<d, ErrorHandlerMiddleware[d]>>
RaisedBody   == <<Raised("media"), Raised("json")>>
ValidateRequest == <<Raised("fields")>>

\* The answers to errors, named after their text: those told apart, and all others.
Else(s)      == [other |-> s]
Error        == Else(500)
Raise        == Else(ErrorHandlerMiddleware["other"])
On(e, s, rest) ==
  [x \in {e} \cup DOMAIN rest |-> IF x = e THEN s ELSE rest[x]]
Handler(svc, op, tests, ok, errors) ==
  [svc |-> svc, op |-> op, tests |-> tests, ok |-> ok, errors |-> errors]

-----------------------------------------------------------------------------
(* Administration. *)
Admin(op, tests, ok, errors) == Handler("admin", op, tests, ok, errors)

AdminLogin             == Handler("auth", "LoginAdmin", Body, 200, Else(401))
GetDashboardStats      == Admin("GetDashboardStats", <<>>, 200, Error)
GetUserGrowth          == Admin("GetUserGrowth", <<>>, 200, Error)
GetAllUsers            == Admin("GetAllUsers", <<>>, 200, Error)
CreateUser             == Admin("CreateUser", Body, 201, On("already-exists", 409, Error))
BulkCreateUsers        == Admin("BulkCreateUsers", <<File, <<"unreadable", 500>>>>, 201, Error)
GetUserDetail          == Admin("GetUserDetail", <<>>, 200, Else(404))
UpdateUserStatus       == Admin("UpdateUserStatus", <<Id>> \o RaisedBody, 200, Error)
UpdateUser             == Admin("UpdateUser", <<Id>> \o Body, 200, Error)
DeleteUser             == Admin("DeleteUser", <<Id>>, 200, Error)
PurgeUsers             == Admin("PurgeUsers", Body, 200, Error)
GetTransactions        == Admin("GetTransactions", <<>>, 200, Error)
GetLogs                == Admin("GetSystemLogs", <<>>, 200, Error)
GetLogDetail           == Admin("GetLogDetail", <<>>, 200, Else(404))
UpgradeSubscription    == Admin("UpgradeSubscription", Body \o <<Fields>>, 200, Error)
RefundSubscription     == Admin("RefundSubscription", Body \o <<Fields>>, 200, Error)
CreatePlan             == Admin("CreatePlan", Body, 200, Error)
UpdatePlan             == Admin("UpdatePlan", <<Id>> \o Body, 200, Error)
DeletePlan             == Admin("DeletePlan", <<Id>>, 200, On("cannot-delete-plan", 409, Error))
AdminGetAllPlans       == Admin("GetAllPlans", <<>>, 200, Error)
AdminGetRefunds        == Admin("GetRefunds", <<>>, 200, Error)
RefundErrors           == On("refund-request-not-found", 404,
                             On("refund-already-processed", 400, Error))
\* The body of a decision is optional.
ApproveRefund          == Admin("ApproveRefund", <<Id>>, 200, RefundErrors)
RejectRefund           == Admin("RejectRefund", <<Id>>, 200, RefundErrors)
GetTokenUsage          == Admin("GetTokenUsage", <<>>, 200, Error)
GetPlanFeatures        == Admin("GetPlanFeatures", <<Id>>, 200, Error)
CreatePlanFeature      == Admin("CreatePlanFeature", <<Id>> \o Body, 201,
                               On("plan-not-found", 404, Error))
DeletePlanFeature      == Admin("DeletePlanFeature", <<Id>>, 200,
                               On("feature-not-found", 404, Error))
GetAllFeatures         == Admin("GetAllFeatures", <<>>, 200, Error)
CreateFeature          == Admin("CreateFeature", Body, 201, On("already-exists", 409, Error))
UpdateFeature          == Admin("UpdateFeature", <<Id>> \o Body, 200,
                               On("feature-not-found", 404, Error))
DeleteFeature          == Admin("DeleteFeature", <<Id>>, 200, On("feature-not-found", 404, Error))
UpdateAiLimit          == Admin("UpdateAiLimit", <<Id>> \o Body, 200,
                               On("user-not-found", 404, Error))
ResetAiLimit           == Admin("ResetAiLimit", <<Id>>, 200, On("user-not-found", 404, Error))
BulkUpdateAiLimit      == Admin("BulkUpdateAiLimit", Body \o <<Fields>>, 200, Error)
BulkResetAiLimit       == Admin("BulkResetAiLimit", Body \o <<Fields>>, 200, Error)
GetAllAiConfigurations == Admin("GetAllAiConfigurations", <<>>, 200, Error)
\* The key is never empty: the route would not match.
UpdateAiConfiguration  == Admin("UpdateAiConfiguration", Body, 200, On("not-found", 404, Error))
GetAllNuances          == Admin("GetAllNuances", <<>>, 200, Error)
CreateNuance           == Admin("CreateNuance", Body, 201, On("already-exists", 409, Error))
UpdateNuance           == Admin("UpdateNuance", <<Id>> \o Body, 200, On("not-found", 404, Error))
DeleteNuance           == Admin("DeleteNuance", <<Id>>, 200, On("not-found", 404, Error))
GetUserBillingAddresses == Admin("GetUserBillingAddresses", <<Id>>, 200, Error)
CreateBillingAddress   == Admin("CreateBillingAddress", <<Id>> \o Body, 201, Error)
UpdateBillingAddress   == Admin("UpdateBillingAddress", <<Id>> \o Body, 200,
                               On("not-found", 404, Error))
DeleteBillingAddress   == Admin("DeleteBillingAddress", <<Id>>, 200, Error)
AdminGetCancellations  == Admin("GetCancellations", <<>>, 200, Error)
ProcessCancellation    == Admin("ProcessCancellation", <<Id>> \o Body \o <<Fields>>, 200,
                               On("not-found", 404, Error))

-----------------------------------------------------------------------------
(* What users do with their account, notes, chats and payments. *)
User(op, tests, errors) == Handler("user", op, tests, 200, errors)

GetProfile             == User("GetProfile", <<>>, Error)
UpdateProfile          == User("UpdateProfile", RaisedBody \o ValidateRequest, Error)
DeleteAccount          == User("DeleteAccount", <<>>, Error)
UploadAvatar           == User("UploadAvatar", <<File>>, Error)
RequestRefund          == User("RequestRefund", Body \o <<Fields>>,
                               On("subscription-not-found", 404,
                                  On("already-requested", 400,
                                     On("not-active", 400, On("not-eligible", 400, Error)))))
GetRefunds             == User("GetRefunds", <<>>, Error)
GetRefundDetail        == User("GetRefundDetail", <<Id>>, On("refund-not-found", 404, Error))
GetBillingInfo         == User("GetBillingInfo", <<>>, Error)
UpdateBillingInfo      == User("UpdateBillingInfo", Body, Error)
RequestCancellation    == User("RequestCancellation", Body \o <<Fields>>,
                               On("subscription-not-found", 404,
                                  On("already-requested", 400, On("not-active", 400, Error))))
GetCancellations       == User("GetCancellations", <<>>, Error)
GetCancellationDetail  == User("GetCancellationDetail", <<Id>>,
                               On("cancellation-not-found", 404, Error))

Note(op, tests, errors) == Handler("note", op, tests, 200, errors)

\* A malformed id is taken for the nil id, which no note, notebook or session has.
NoteCreate             == Note("Create", RaisedBody \o ValidateRequest, Raise)
NoteShow               == Note("Show", <<>>, Raise)
NoteUpdate             == Note("Update", RaisedBody \o ValidateRequest, Raise)
NoteDelete             == Note("Delete", <<>>, Raise)
MoveNote               == Note("MoveNote", RaisedBody \o ValidateRequest, Raise)
SemanticSearch         == Note("SemanticSearch", <<>>, On("feature-requires-pro-plan", 403, Raise))

Notebook(op, tests)    == Handler("notebook", op, tests, 200, Raise)

NotebookGetAll         == Notebook("GetAll", <<>>)
NotebookCreate         == Notebook("Create", RaisedBody \o ValidateRequest)
NotebookShow           == Notebook("Show", <<>>)
NotebookUpdate         == Notebook("Update", RaisedBody)
NotebookDelete         == Notebook("Delete", <<>>)
MoveNotebook           == Notebook("MoveNotebook", RaisedBody)

Chatbot(op, tests, errors) == Handler("chatbot", op, tests, 200, errors)

CreateSession          == Chatbot("CreateSession", <<>>, Raise)
GetAllSessions         == Chatbot("GetAllSessions", <<>>, Raise)
GetChatHistory         == Chatbot("GetChatHistory", <<>>, Raise)
SendChat               == Chatbot("SendChat", RaisedBody \o ValidateRequest,
                                  On("limit-exceeded", 429,
                               On("feature-requires-pro-plan", 403, Error)))
DeleteSession          == Chatbot("DeleteSession", RaisedBody \o ValidateRequest, Raise)
GetAvailableNuances    == Chatbot("GetAvailableNuances", <<>>, Error)

Payment(op, tests, errors) == Handler("payment", op, tests, 200, errors)

\* The gateway repeats a notification that is not answered 200.
Webhook                == Payment("HandleNotification", Body, Error)
GetPlans               == Payment("GetPlans", <<>>, Raise)
GetOrderSummary        == Payment("GetOrderSummary", <<Query>>, Error)
Checkout               == Payment("CreateSubscription", RaisedBody \o ValidateRequest, Error)
GetStatus              == Payment("GetSubscriptionStatus", <<>>, Error)
CancelSubscription     == Payment("CancelSubscription", <<>>, Error)
ValidateSubscription   == Payment("ValidateSubscription", <<>>, Error)

-----------------------------------------------------------------------------
(* Signing in, plans, places, notifications. *)
Auth(op, tests, errors) == Handler("auth", op, tests, 200, errors)

Register               == Auth("Register", RaisedBody, Else(400))
VerifyEmail            == Auth("VerifyEmail", RaisedBody, Else(400))
Login                  == Auth("Login", RaisedBody, Else(401))
\* Neither says whether there was such an account or token.
ForgotPassword         == Auth("ForgotPassword", RaisedBody, Else(200))
ResetPassword          == Auth("ResetPassword", RaisedBody, Else(400))
Logout                 == Auth("Logout", <<<<"media", 200>>, <<"json", 200>>>>, Else(200))

OAuthLogin             == Handler("oauth", "GetLoginURL", <<>>, 302, Else(400))
\* The ten first characters of the code are logged before it is tested: a shorter one, and
\* an absent one too, ends in the recovery of a panic.
Callback               == Handler("oauth", "HandleCallback",
                               <<<<"code", ErrorHandlerMiddleware["panic"]>>>>, 307, Error)

GetAllPlans            == Handler("plan", "GetAllActivePlansWithFeatures", <<>>, 200, Error)
GetUsageStatus         == Handler("usage", "GetUserUsageStatus", <<>>, 200, Error)

Location(op, tests)    == Handler("location", op, tests, 200, Error)
DetectCountry          == Location("DetectCountry", <<>>)
GetCountries           == Location("GetCountries", <<Query>>)
GetCities              == Location("GetCities", <<Query>>)
GetStates              == Location("GetStates", <<Query>>)
GetZipCodes            == Location("GetZipCodes", <<Query>>)

Notif(op, tests, errors) == Handler("notification", op, tests, 200, errors)
\* The page number divides by the limit: a limit of 0 panics after the read.
GetNotifications       == Notif("GetNotifications", <<>>,
                               On("limit-is-zero", ErrorHandlerMiddleware["panic"], Error))
GetUnreadCount         == Notif("GetUnreadCount", <<>>, Error)
MarkAsRead             == Notif("MarkAsRead", <<Id>>, Error)
MarkAllAsRead          == Notif("MarkAllAsRead", <<>>, Error)
\* Without a publisher the one tells it and the other does not.
Broadcast              == Notif("Publish", Body \o <<Fields>>, On("no-publisher", 200, Error))
DebugTriggerEvent      == Handler("debug", "Publish", Body, 200, On("no-publisher", 503, Error))
ServeWs                == Handler("hub", "ServeWs", <<<<"upgrade", 426>>>>, 101, Else(426))

-----------------------------------------------------------------------------
(* What services keep to themselves. *)

\* What is named is not there, or another's, and nothing is done: the service returns neither
\* a result nor an error, or does not look at how many rows it changed.
UnfoundNotes     == {NoteShow, NoteUpdate, NoteDelete, MoveNote}
UnfoundNotebooks == {NotebookShow, NotebookUpdate, NotebookDelete, MoveNotebook}
UnfoundUsers     == {GetUserDetail, UpdateUserStatus, UploadAvatar, ResetPassword}
UnfoundRows      == {DeleteUser, DeleteAccount, DeletePlan, DeletePlanFeature, DeleteBillingAddress}
UnfoundBilling   == {GetBillingInfo}

\* Each user of a list is dealt with by itself; those that failed are only told in the body.
EachUser         == {BulkCreateUsers, PurgeUsers}
EachLimit        == {BulkUpdateAiLimit, BulkResetAiLimit}

\* Something beside the main thing could not be read, or not written, and is left out: of a
\* view, of a change of a subscription, of a chat or a search, or of a list of places.
PartialViews     == {NoteShow, GetDashboardStats, GetLogs, AdminGetRefunds, GetTokenUsage,
                     AdminGetCancellations, GetRefunds, GetRefundDetail, GetCancellations,
                     GetCancellationDetail, GetStatus, ValidateSubscription}
PartialChanges   == {ProcessCancellation, ApproveRefund, UpgradeSubscription, RefundSubscription,
                     RequestRefund, VerifyEmail}
PartialAnswers   == {SendChat, SemanticSearch}
PartialPlaces    == {GetCountries, GetCities, GetStates, GetZipCodes}

\* There is nothing to do: no limit is named, the account is active, the status is not one that
\* changes a subscription.
NothingToDo      == {UpdateAiLimit, VerifyEmail, Webhook}

Silent ==
  [missing    |-> UnfoundNotes \cup UnfoundNotebooks \cup UnfoundUsers \cup UnfoundRows
                    \cup UnfoundBilling,
   failures   |-> EachUser \cup EachLimit,
   incomplete |-> PartialViews \cup PartialChanges \cup PartialAnswers \cup PartialPlaces,
   nothing    |-> NothingToDo]
Unsaid(h) == {e \in DOMAIN Silent : h \in Silent[e]}
=============================================================================
