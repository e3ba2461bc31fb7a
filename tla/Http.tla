-------------------------------- MODULE Http --------------------------------
(***************************************************************************)
(* Http: a client that signs in and sends requests, and the server that    *)
(* takes each through the entries registered for its path, in the order    *)
(* they were registered: guards, and the first handler that matches.       *)
(***************************************************************************)
EXTENDS Handlers, SequencesExt

CONSTANTS
  NoToken, NoRequest,
  MaxRequests   \* bound: requests a client sends

ASSUME HttpAssumption == MaxRequests \in Nat /\ NoToken # NoRequest

\* An entry of the router: a handler behind the guard named with it, or a guard for a prefix.
Entry(verb, path, guard, h) == [verb |-> verb, path |-> path, guard |-> guard, handler |-> h]
Route(verb, path, h)        == Entry(verb, path, "none", h)
Use(path, guard)            == Entry("use", path, guard, DetectCountry)
Params == {":id", ":userId", ":featureId", ":key", ":provider"}

AuthRoutes == <<
  Route("POST", <<"auth", "register">>, Register),
  Route("POST", <<"auth", "verify-email">>, VerifyEmail),
  Route("POST", <<"auth", "login">>, Login),
  Route("POST", <<"auth", "forgot-password">>, ForgotPassword),
  Route("POST", <<"auth", "reset-password">>, ResetPassword),
  Route("POST", <<"auth", "logout">>, Logout)>>

UserRoutes == <<
  Use(<<"user">>, "jwt"),
  Route("GET", <<"user", "profile">>, GetProfile),
  Route("PUT", <<"user", "profile">>, UpdateProfile),
  Route("DELETE", <<"user", "account">>, DeleteAccount),
  Route("POST", <<"user", "avatar">>, UploadAvatar),
  Route("POST", <<"user", "refund", "request">>, RequestRefund),
  Route("GET", <<"user", "refunds">>, GetRefunds),
  Route("GET", <<"user", "refunds", ":id">>, GetRefundDetail),
  Route("GET", <<"user", "billing">>, GetBillingInfo),
  Route("PUT", <<"user", "billing">>, UpdateBillingInfo),
  Route("POST", <<"user", "cancellation">>, RequestCancellation),
  Route("GET", <<"user", "cancellations">>, GetCancellations),
  Route("GET", <<"user", "cancellations", ":id">>, GetCancellationDetail)>>

OAuthRoutes == <<
  Route("GET", <<"auth", ":provider">>, OAuthLogin),
  Route("GET", <<"auth", ":provider", "callback">>, Callback)>>

NotebookRoutes == <<
  Use(<<"notebook", "v1">>, "jwt"),
  Route("GET", <<"notebook", "v1">>, NotebookGetAll),
  Route("POST", <<"notebook", "v1">>, NotebookCreate),
  Route("GET", <<"notebook", "v1", ":id">>, NotebookShow),
  Route("PUT", <<"notebook", "v1", ":id">>, NotebookUpdate),
  Route("DELETE", <<"notebook", "v1", ":id">>, NotebookDelete),
  Route("PUT", <<"notebook", "v1", ":id", "move">>, MoveNotebook)>>

\* Fault: the search is registered after the note it looks like.
FaultNoteRoutes == <<
  Use(<<"note", "v1">>, "jwt"),
  Route("POST", <<"note", "v1">>, NoteCreate),
  Route("GET", <<"note", "v1", ":id">>, NoteShow),
  Route("GET", <<"note", "v1", "semantic-search">>, SemanticSearch),
  Route("PUT", <<"note", "v1", ":id">>, NoteUpdate),
  Route("PUT", <<"note", "v1", ":id", "move">>, MoveNote),
  Route("DELETE", <<"note", "v1", ":id">>, NoteDelete)>>

NoteRoutes == <<
  Use(<<"note", "v1">>, "jwt"),
  Route("GET", <<"note", "v1", "semantic-search">>, SemanticSearch),
  Route("POST", <<"note", "v1">>, NoteCreate),
  Route("GET", <<"note", "v1", ":id">>, NoteShow),
  Route("PUT", <<"note", "v1", ":id">>, NoteUpdate),
  Route("PUT", <<"note", "v1", ":id", "move">>, MoveNote),
  Route("DELETE", <<"note", "v1", ":id">>, NoteDelete)>>

ChatbotRoutes == <<
  Use(<<"chatbot", "v1">>, "jwt"),
  Route("GET", <<"chatbot", "v1", "sessions">>, GetAllSessions),
  Route("GET", <<"chatbot", "v1", "chat-history">>, GetChatHistory),
  Route("GET", <<"chatbot", "v1", "nuances">>, GetAvailableNuances),
  Route("POST", <<"chatbot", "v1", "create-session">>, CreateSession),
  Route("POST", <<"chatbot", "v1", "send-chat">>, SendChat),
  Route("DELETE", <<"chatbot", "v1", "delete-session">>, DeleteSession)>>

PaymentRoutes == <<
  Route("POST", <<"payment", "midtrans", "notification">>, Webhook),
  Route("GET", <<"payment", "plans">>, GetPlans),
  Route("GET", <<"payment", "summary">>, GetOrderSummary),
  Entry("POST", <<"payment", "checkout">>, "payment", Checkout),
  Entry("GET", <<"payment", "status">>, "payment", GetStatus),
  Entry("POST", <<"payment", "cancel">>, "payment", CancelSubscription),
  Entry("GET", <<"payment", "validate">>, "payment", ValidateSubscription)>>

\* The routes of an admin on one kind of thing.
AdminUsers == <<
  Route("GET", <<"admin", "dashboard">>, GetDashboardStats),
  Route("GET", <<"admin", "growth">>, GetUserGrowth),
  Route("GET", <<"admin", "users">>, GetAllUsers),
  Route("POST", <<"admin", "users">>, CreateUser),
  Route("POST", <<"admin", "users", "bulk">>, BulkCreateUsers),
  Route("GET", <<"admin", "users", ":id">>, GetUserDetail),
  Route("PUT", <<"admin", "users", ":id", "status">>, UpdateUserStatus),
  Route("PUT", <<"admin", "users", ":id">>, UpdateUser),
  Route("DELETE", <<"admin", "users", ":id">>, DeleteUser),
  Route("POST", <<"admin", "users", "purge">>, PurgeUsers),
  Route("GET", <<"admin", "transactions">>, GetTransactions),
  Route("GET", <<"admin", "logs">>, GetLogs),
  Route("GET", <<"admin", "logs", ":id">>, GetLogDetail),
  Route("POST", <<"admin", "subscriptions", "upgrade">>, UpgradeSubscription),
  Route("POST", <<"admin", "subscriptions", "refund">>, RefundSubscription)>>

AdminPlans == <<
  Route("POST", <<"admin", "plans">>, CreatePlan),
  Route("GET", <<"admin", "plans">>, AdminGetAllPlans),
  Route("PUT", <<"admin", "plans", ":id">>, UpdatePlan),
  Route("DELETE", <<"admin", "plans", ":id">>, DeletePlan),
  Route("GET", <<"admin", "plans", ":id", "features">>, GetPlanFeatures),
  Route("POST", <<"admin", "plans", ":id", "features">>, CreatePlanFeature),
  Route("DELETE", <<"admin", "plans", ":id", "features", ":featureId">>, DeletePlanFeature),
  Route("GET", <<"admin", "features">>, GetAllFeatures),
  Route("POST", <<"admin", "features">>, CreateFeature),
  Route("PUT", <<"admin", "features", ":id">>, UpdateFeature),
  Route("DELETE", <<"admin", "features", ":id">>, DeleteFeature),
  Route("GET", <<"admin", "refunds">>, AdminGetRefunds),
  Route("POST", <<"admin", "refunds", ":id", "approve">>, ApproveRefund),
  Route("POST", <<"admin", "refunds", ":id", "reject">>, RejectRefund)>>

AdminLimits == <<
  Route("GET", <<"admin", "token-usage">>, GetTokenUsage),
  Route("PUT", <<"admin", "token-usage", ":userId">>, UpdateAiLimit),
  Route("DELETE", <<"admin", "token-usage", ":userId">>, ResetAiLimit),
  Route("POST", <<"admin", "token-usage", "bulk">>, BulkUpdateAiLimit),
  Route("DELETE", <<"admin", "token-usage", "bulk">>, BulkResetAiLimit)>>

AdminRest == <<
  Route("GET", <<"admin", "ai", "configurations">>, GetAllAiConfigurations),
  Route("PUT", <<"admin", "ai", "configurations", ":key">>, UpdateAiConfiguration),
  Route("GET", <<"admin", "ai", "nuances">>, GetAllNuances),
  Route("POST", <<"admin", "ai", "nuances">>, CreateNuance),
  Route("PUT", <<"admin", "ai", "nuances", ":id">>, UpdateNuance),
  Route("DELETE", <<"admin", "ai", "nuances", ":id">>, DeleteNuance),
  Route("GET", <<"admin", "users", ":id", "billing">>, GetUserBillingAddresses),
  Route("POST", <<"admin", "users", ":id", "billing">>, CreateBillingAddress),
  Route("PUT", <<"admin", "billing", ":id">>, UpdateBillingAddress),
  Route("DELETE", <<"admin", "billing", ":id">>, DeleteBillingAddress),
  Route("GET", <<"admin", "cancellations">>, AdminGetCancellations),
  Route("POST", <<"admin", "cancellations", ":id", "process">>, ProcessCancellation)>>

\* Fault: the guard is registered after the first routes.
FaultAdminRoutes ==
  <<Route("POST", <<"admin", "login">>, AdminLogin)>> \o AdminUsers
  \o <<Use(<<"admin">>, "admin")>> \o AdminPlans \o AdminLimits \o AdminRest

\* The guard of admins stands after their login and before everything else.
AdminRoutes ==
  <<Route("POST", <<"admin", "login">>, AdminLogin), Use(<<"admin">>, "admin")>>
  \o AdminUsers \o AdminPlans \o AdminLimits \o AdminRest

LocationRoutes == <<
  Route("GET", <<"location", "detect-country">>, DetectCountry),
  Route("GET", <<"location", "countries">>, GetCountries),
  Route("GET", <<"location", "cities">>, GetCities),
  Route("GET", <<"location", "states">>, GetStates),
  Route("GET", <<"location", "zipcodes">>, GetZipCodes)>>

PlanRoutes == <<
  Route("GET", <<"plans">>, GetAllPlans),
  Use(<<"user">>, "jwt"),
  Route("GET", <<"user", "usage-status">>, GetUsageStatus)>>

NotificationRoutes == <<
  Use(<<"notifications">>, "jwt"),
  Route("GET", <<"notifications">>, GetNotifications),
  Route("GET", <<"notifications", "unread-count">>, GetUnreadCount),
  Route("PATCH", <<"notifications", ":id", "read">>, MarkAsRead),
  Route("PATCH", <<"notifications", "read-all">>, MarkAllAsRead),
  Route("POST", <<"notifications", "broadcast">>, Broadcast),
  Route("POST", <<"debug", "trigger-notification">>, DebugTriggerEvent),
  Entry("GET", <<"ws">>, "ws", ServeWs)>>

registerRoutes ==
  AuthRoutes \o UserRoutes \o OAuthRoutes \o NotebookRoutes \o NoteRoutes \o ChatbotRoutes
  \o PaymentRoutes \o AdminRoutes \o LocationRoutes \o PlanRoutes \o NotificationRoutes

Stack    == registerRoutes
Handled  == {i \in DOMAIN Stack : Stack[i].verb # "use"}

-----------------------------------------------------------------------------
VARIABLES
  secret,       \* the key in the environment, "" if there is none
  token,        \* the access token the client holds
  req,          \* the request under way: the entry it is meant for, its path, its defect, its token
  pc, at,       \* where it is, and the last entry it matched
  ran,          \* how the operation it came to has ended: "no", "done", an error, or unsaid
  status,       \* the answer, 0 before there is one
  requests

vars == <<secret, token, req, pc, at, ran, status, requests>>

\* Signing in with a password takes a key of its own when there is none; Google's does not.
Sign(h)        == IF secret = "" /\ h.svc = "auth" THEN "default_secret" ELSE secret
Roles(h)       == IF h = AdminLogin THEN {"admin"} ELSE {"user", "admin"}
SignsIn(h)     == h \in {Login, AdminLogin, Callback}
Token(h, role) == [key |-> Sign(h), role |-> role, expired |-> FALSE]

Signed(key)     == req.token # NoToken /\ req.token.key = key /\ ~req.token.expired
JwtMiddleware   == IF Signed(secret) THEN 0 ELSE 401
authMiddleware  == IF Signed(secret) THEN 0 ELSE 401
\* A handshake carries its token in the query, or in the header as any request.
Handshake       == IF Signed(secret) THEN 0 ELSE 401
adminMiddleware == IF ~Signed(IF secret = "" THEN "default_secret" ELSE secret) THEN 401
                   ELSE IF req.token.role # "admin" THEN 403 ELSE 0
Verdict(guard)  == CASE guard = "none"  -> 0
                     [] guard = "jwt"   -> JwtMiddleware
                     [] guard = "payment" -> authMiddleware
                     [] guard = "ws"    -> Handshake
                     [] guard = "admin" -> adminMiddleware

\* A parameter takes any word; a request with a bad id has a word where an id belongs.
Concrete(path, defect) ==
  [i \in DOMAIN path |-> IF path[i] \notin Params THEN path[i]
                         ELSE IF defect = "id" THEN "word" ELSE "uuid"]
Fits(pattern, path) ==
  /\ Len(pattern) = Len(path)
  /\ \A i \in DOMAIN path : pattern[i] = path[i] \/ pattern[i] \in Params
Matches(e) == IF e.verb = "use" THEN IsPrefix(e.path, req.path)
              ELSE e.verb = Stack[req.route].verb /\ Fits(e.path, req.path)
Ahead      == {i \in DOMAIN Stack : i > at /\ Matches(Stack[i])}
Reached    == Stack[at].handler

\* What is wrong with a request as the handler reached sees it.
BadId      == \E i \in DOMAIN req.path : Stack[at].path[i] \in Params /\ req.path[i] # "uuid"
Fails(t)   == IF t[1] = "id" THEN BadId ELSE t[1] = req.defect
Failed     == {i \in DOMAIN Reached.tests : Fails(Reached.tests[i])}
Least(S)   == CHOOSE i \in S : \A j \in S : i <= j

Init ==
  /\ secret \in {"", "configured"}
  /\ token = NoToken /\ req = NoRequest /\ pc = "idle" /\ at = 0
  /\ ran = "no" /\ status = 0 /\ requests = 0

Outcomes   == UNION {DOMAIN Stack[i].handler.errors \cup Unsaid(Stack[i].handler) : i \in Handled}
                \cup {"done"}
Defects(h) == {"none"} \cup {h.tests[i][1] : i \in DOMAIN h.tests}

\* A request for an entry of the router, with at most one defect its handler looks for.
Send(i, defect, carried) ==
  /\ pc = "idle" /\ requests < MaxRequests
  /\ pc' = "routing" /\ requests' = requests + 1
  /\ req' = [route |-> i, path |-> Concrete(Stack[i].path, defect), defect |-> defect,
             token |-> carried]
  /\ UNCHANGED <<secret, token, at, ran, status>>

Answer(s) == pc' = "answered" /\ status' = s

\* The next entry that matches: a guard refuses or lets pass, a route is the end of the way.
Advance ==
  /\ pc = "routing" /\ Ahead # {}
  /\ at' = Least(Ahead)
  /\ LET v == Verdict(Stack[at'].guard) IN
       IF v # 0 THEN Answer(v)
       ELSE /\ pc' = IF Stack[at'].verb = "use" THEN "routing" ELSE "handling"
            /\ UNCHANGED status
  /\ UNCHANGED <<secret, token, req, ran, requests>>

\* The tests of the handler, of which the first to fail gives the answer.
Test ==
  /\ pc = "handling"
  /\ IF Failed = {} THEN pc' = "operating" /\ UNCHANGED status
                    ELSE Answer(Reached.tests[Least(Failed)][2])
  /\ UNCHANGED <<secret, token, req, at, ran, requests>>

\* How the operation of a handler ends that is not an error.
Well(h) == {"done"} \cup Unsaid(h)

\* Fault: the handler does not look at the error of the operation.
FaultOperate(outcome) ==
  /\ pc = "operating" /\ outcome \in Well(Reached) \cup DOMAIN Reached.errors
  /\ ran' = outcome /\ Answer(Reached.ok)
  /\ \E role \in Roles(Reached) :
       token' = IF SignsIn(Reached) /\ outcome = "done" THEN Token(Reached, role) ELSE token
  /\ UNCHANGED <<secret, req, at, requests>>

\* The operation of the service: done, or an error, or what the service keeps to itself.  Signing
\* in leaves the client with a token.
Operate(outcome) ==
  /\ pc = "operating" /\ outcome \in Well(Reached) \cup DOMAIN Reached.errors
  /\ ran' = outcome
  /\ Answer(IF outcome \in Well(Reached) THEN Reached.ok ELSE Reached.errors[outcome])
  /\ \E role \in Roles(Reached) :
       token' = IF SignsIn(Reached) /\ outcome = "done" THEN Token(Reached, role) ELSE token
  /\ UNCHANGED <<secret, req, at, requests>>

Receive ==
  /\ pc = "answered" /\ pc' = "idle"
  /\ req' = NoRequest /\ at' = 0 /\ ran' = "no" /\ status' = 0
  /\ UNCHANGED <<secret, token, requests>>

\* A day passes.
Expire ==
  /\ pc = "idle"
  /\ token' = IF token = NoToken THEN NoToken ELSE [token EXCEPT !.expired = TRUE]
  /\ UNCHANGED <<secret, req, pc, at, ran, status, requests>>

-----------------------------------------------------------------------------
(* Properties. *)

Ran      == ran # "no"
Fresh(t) == t # NoToken /\ ~t.expired
Personal == {"user", "note", "notebook", "chatbot", "usage", "notification", "hub"}
Mine     == {Checkout, GetStatus, CancelSubscription, ValidateSubscription}

\* An operation of the admin service is run only for a token that was signed for an admin and
\* has not expired, and an operation on somebody's own things only for one of anybody: whether a
\* route is guarded depends on where it stands among the routes of four controllers that share
\* its prefixes (admin_controller.go:139-219, server.go:70-88).
Guarded ==
  Ran => /\ Reached.svc = "admin" => Fresh(req.token) /\ req.token.role = "admin"
         /\ (Reached.svc \in Personal \/ Reached \in Mine) => Fresh(req.token)

\* Every request comes to the handler registered for its path, or to a guard that refuses it, with
\* one exception, the bulk reset of limits, which is registered after a route with a parameter in
\* its place and is never reached (admin_controller.go:198-200).
EveryRouteReached ==
  pc \in {"handling", "operating"} =>
    Reached = Stack[req.route].handler \/ Stack[req.route].handler = BulkResetAiLimit

\* The three that answer alike whether or not they did anything.
Quiet == {Logout, ForgotPassword, Broadcast}

\* An answer of success means that the operation came to its end without an error: it did all it
\* is for, or ended in one of the ways Handlers lists of its service, such as a note that is not
\* there (note_service.go:117), users that could not be purged (admin_service.go:348) or a status
\* of the gateway that changes nothing (payment_service.go:337).  An operation that ended so is
\* answered with success, and no other: the gateway does not ask again after one
\* (payment_controller.go:118-143), and a request refused for what it holds ran nothing.  An error
\* may come when part of the work is done, and mails and events are not counted.
AnswersAreTrue ==
  pc = "answered" /\ Reached \notin Quiet => (status < 400 <=> ran \in Well(Reached))
=============================================================================
