# A verification project for notefiber-be

notefiber-be is a Go server (Fiber, GORM on PostgreSQL, NATS JetStream, Redis, an in-memory
Watermill channel) for notes that can be searched and talked to through a language model, with
paid plans. This directory holds TLA+ modules translated from its source, the TLC configurations
that check them, and proofs that TLAPS checks.

- `tlc -config usage.cfg MCUsage.tla` checks a run; `PROJECT.json` lists the runs, the mutants
  that show each property can fail, the source lines of each definition, the findings and the
  hazards.
- `tlapm NotesProofs.tla` checks a proof module.

Contents: [1 The system](#1-the-system) · [2 The modules](#2-the-modules) ·
[3 What the runs show](#3-what-the-runs-show) · [4 What is proved](#4-what-is-proved) ·
[5 What the code does that a reader would not expect](#5-what-the-code-does-that-a-reader-would-not-expect) ·
[6 What is not modelled](#6-what-is-not-modelled) · [7 Plan](#7-plan)

## 1 The system

Every HTTP request runs in a goroutine of its own: guards and a controller test it, and call one
method of a service, which makes a unit of work and reads and writes rows through repositories. Three
facts of this layer shape all modules:

- **Reads take no locks.** Queries run at PostgreSQL's READ COMMITTED, there is no
  `SELECT ... FOR UPDATE` and there are no version columns.
- **An update is `Save`.** `Update` of users, subscriptions, plans, notes, notebooks and most other
  rows is GORM's `Save`: it writes every column of the row *as it was read*, and inserts the row
  again, undeleted, if it was deleted in between.
- **A unit of work is a transaction only between `Begin` and `Commit`.** Many handlers read, and test
  what they read, before `Begin`; some never begin one.

So the unit of the models is the statement outside a transaction, and, unless section 2 says
otherwise, the whole transaction inside one: a handler is a read step that fills a local copy and
later steps that write it back, and between any two of its steps others run.

| Component | State | Operations | Interacts with | Hard because | Correct means |
|---|---|---|---|---|---|
| Subscriptions and payments (`payment_service`) | `user_subscriptions` | checkout, webhook, cancel, status, validate | payment gateway (late, repeated, reordered) | the row is committed before the gateway is called; the webhook overwrites rows it read earlier | paid means settled; no access that was neither paid nor granted |
| Refunds and cancellations (`user_service`, `pkg/admin/refund`, `pkg/admin/subscription`) | `refunds`, `cancellations`, and the subscription | request, approve, reject, refund, upgrade, process | the rows of the payments | tests before transactions, two tables in step, no lock | money back is recorded and ends the access |
| Usage limits (`pkg/rag/access`, `plan_service`, `pkg/admin/usage`) | counters and reset days in the user row | verify, count, status, admin edit | every writer of `users`; called by chat and search | tested first, counted later, reset lazily | no charge for calls not made, no more calls than the plan |
| Notes and notebooks (`note_service`, `notebook_service`) | `notes`, `notebooks` | create, edit, move, delete | publishes note ids on the channel | stale `Save`, cascades, moves nobody checks | tree whole, deleted rows stay deleted |
| Search index (`consumer_service`) | the channel, `note_embeddings` | take, read, embed, replace, ack or nack | notes, notebooks, embedding provider | a slow call between reading and writing, a channel in memory only | the index catches up with every note |
| Realtime hub (`internal/websocket`) | clients by user, buffers, one lock | register, unregister, send, broadcast, Redis bridge | notifications, Redis | slices shared while one is shifted, channels closed by one goroutine and written by others | everyone connected gets each push once, nobody waits for ever |
| Notifications (`notification_service`, `pkg/nats`) | `notifications`, the JetStream stream | publish, consume, fan out, mark read | admin and other services, hub | redelivery after partial work; a subscription that ends for good | whom an event concerns has it, and not oftener than it was delivered |
| Chat (`chatbot_service`, `pkg/rag`) | rows of sessions and messages; mode, candidates and focus in memory | create, send, delete; browse, focus, bypass | usage limits, index, language model | memory is shared, expires and is not rolled back; a transaction lasts as long as the model's answer | mode, focus and messages agree |
| Chat routing (`pkg/ai/router`) | the mode of a session | parse prefixes and references, resolve, choose a pipeline | chat, notes, nuances | the mode is derived twice by different rules | nothing the user wrote is lost or misread |
| Accounts (`auth_service`, `oauth_service`, `admin_service`) | `users`, mail codes, reset links, signed tokens | register, verify, sign in, block, reset, delete, restore, purge | every writer of `users`; a purge empties the tables of all components | status under stale `Save`; links tested before they are used | nobody gets in unproven or past a block, a link works once |
| Catalogue (`pkg/admin/plan`, `feature`, `aiconfig`, billing addresses) | plans, features, links, nuances, configurations, addresses | create, edit, delete | access, checkout, routing | edits name some fields and write all, a plan's edit writes its features, an insert replaces zeros | edits are kept |
| HTTP layer (`internal/server`, `internal/controller`) | route table, tokens | guards, tests, status codes | every service | guards and routes match in order of registration across controllers | only who may gets in, and answers are true |
| Locations (`location_service`) | a cache with a lock | countries, cities, states, postal codes | two external directories | a goroutine per province, shared slots and list; any call may fail, be read in part, or stay open | what the sequential prototype finds, each province once; no wait but for a directory |
| Dashboard, mail, providers, start-up | none | queries, output, wiring | - | - | - |

## 2 The modules

| Module | Models |
|---|---|
| `Access` | the three loops that decide from the rows who has a plan: `getUserPlan` and the verifiers (`HasPlan`), `GetSubscriptionStatus` (`ShownActive`), `ValidateSubscription` (`Validation`) |
| `Billing` (EXTENDS `Access`) | all writers of subscriptions, refunds and cancellations of one user, the clock, the gateway |
| `RefundWorkflow` | the abstract specification of refund requests: what `docs/frontend_refund_api.md` promises |
| `Usage` | the counters of one user's row and all that writes them |
| `Notes` | notes, notebooks, the channel, the consumer and the index of one user |
| `Hub` | the goroutines, lock, slices and buffers of the hub of one server instance |
| `Notifications` | the stream, the consumer, notifications, roles |
| `Grounding`, `Chat` (EXTENDS it) | what one message does to candidates and focus; a session in the database and in memory under several requests |
| `Routing` | the words of a message up to the pipeline that answers it |
| `Accounts` | accounts, codes, links, tokens, and the purge |
| `Catalogue` | the rows admins edit, and billing addresses |
| `Handlers`, `Http` (EXTENDS it) | each handler's tests and answers; the route table, guards and a client |
| `Prototype`, `Locations` (EXTENDS it) | the sequential program in `features/api-location.go`; the service that was made from it |
| `Server` (EXTENDS `Http`, `Locations`) | the composition of the two: requests for places through routes, service and directories to their answer |
| `BillingInvariant`, `...Proofs` | inductive invariants and proofs; `BillingProofs` also has those of `Catalogue`, `UsageProofs` those of `Routing`, and `ServerProofs` those of `Http` and `Locations` |
| `MC...` | values of constants and symmetry sets for TLC |

Conventions. `Handlers` (in `Catalogue`, `Editors`) is the set of requests that may be in progress at once; `pc[h]` is the program
point request `h` has reached and `loc[h]` what it holds. An action is named for the method, or for the
part of it that runs up to the next point at which others may interfere. `Return` and `Fail` are the
error returns. Definitions named `Fault...` are plausible bugs and are used by the mutants only. Bounds
are constants named `Max...`; variables called history are read by properties only.

**`Billing`.** `order` and `sent` are the gateway: an open order may be settled or closed at any time, a
denied payment tried again, and a notification once in `sent` may be delivered at any time, any number
of times. Checkout is two actions (the row is committed, then the gateway called), the webhook two
(`Webhook` reads and skips if both statuses are there; `SaveRow` saves). The request of a refund and of
a cancellation are three each (read and test, look for a live request, insert). `RefundLocked` is the row
lock of a transaction that saved the refund and has not committed: in `Approve` the window inside the
transaction matters, because the subscription is read in it. `ProcessCancellation` is two writes with no transaction.

**`Usage`.** `VerifyAccessAndLimits` (chat) and `VerifySemanticSearchAccess` read the row; `Check` resets and
tests it; `IncrementUsage` reads it again after the call succeeded; `SaveUsage` adds one and saves. The other
writers of the row are the status page, profile edits and the admin's. `AiDailyLimitOverride` is not in the
model: the mapper drops it and no column holds it.

**`Notes`.** A text is the number of the request that wrote it, so `emb[n].ver = note[n].ver` says that the
index was made from the present text. The channel is a bag: `gochannel` starts a goroutine per message,
so their order is not fixed, and holds the next one back until the last is acknowledged; a nacked message is
delivered again before all others, which is why `Nack` goes back to the point after `Take`. Targets of moves
and parents of new notebooks are not looked up, as in the code. `lost` is history: notes whose message a restart
or a failed listing swallowed.

**`Hub`.** A slice is an array and a length; `append` reuses the array while there is room (`InPlace`) and
doubles it otherwise (`Grown`), and removal shifts elements one step at a time while a `Send`, which copied
only the slice's header under the lock, walks the same array. `RWMutex` blocks new readers while `Run` waits (`Lockable`).
Full buffers, the handover of a slow client to `Run` by a sender that may hold the read lock, closing twice
and sending on a closed channel (`down`) are steps. Other instances are messages on `bus`.

**`Notifications`.** `due` is what the server will deliver, `inbox` what the consumer has fetched, `work` its one
goroutine: the type is looked up, recipients resolved, and each stored and pushed in turn; then the message is
acknowledged. `sub` is the subscription of the running process. It is off from the
start if `Subscribe` failed (notification_service.go:46-51 logs it and goes on), and off after `GiveUp`, when five attempts to connect
again have failed and the client closes the connection (subscriber.go:31); only a restart may bring it back.
Without it nothing is delivered, and an acknowledgement does not arrive.
Failures, lost acknowledgements, late answers, lost connections, crashes between any two steps and changes of
role are counted together by `faults`.

**`Chat`, `Grounding`.** What a message adds to the session's rows is seen by others from `Save`, its commit, on.
The object in memory is a member of `heap` reached by pointer: `cache` is the one the store has, and a
request that has fetched another still writes to its own. `Grounding` gives, for what a model may answer and
a search may find, the fields an intent writes; `Mutate` applies them to the object as it is by then.
Expiry drops the object, a restart all objects and requests.

**`Routing`.** A message is a sequence of words (plain, a prefix, a reference of one of three forms), each with the kind of white
space before it. A prefix with a key ends at the first *space* (parser.go:95), so that a line break and what follows it up to the
next space become part of the key (`KeyAndPrompt`); taking references out makes all white space one space (`Spaced`). `Parse`,
`ParseReferences`, `Resolve`, `Routed` and `Execute` are the five stages, in the code's order of precedence.

**`Accounts`.** Most requests are one transaction or one statement and one action; those of several statements
(register, verify, Google, reset, profile, admin edits, purge) go through `loc`. What Google says of an address (`verified`) is an input of `HandleCallback`, and
no action of the code looks at it: `proven` has the accounts whose address was proven or vouched for, `unsure` those that came by way of
Google without that. The purge runs the ten deletions in
the code's order, each by the rows it finds through others (`Via`), and fails where a reference would dangle (`Claims`).

**`Catalogue`.** Every edit is a read and a write (`AtOnce` marks those that are one). `Save` of a plan writes its
features as read. `Insert`, and a `Save` that finds no row, store the default of a column where the row has a false or a
zero (`Stored`), as gorm does for fields with a `default` tag: a feature asked for as inactive is active, a plan's limit of 0 is 3. Tables are as `cmd/migrate` makes them; the SQL migrations differ in their foreign keys (section 5).

**`Handlers`, `Http`.** A handler is a record: the defects it tests for with their statuses, in order, the service
operation, and the statuses of its errors. `Silent` lists, for each way in which an operation can end without an error although
it did not do all it is for, the handlers it can happen to: what is named is not there (`missing`: the service returns neither a result nor an
error), some or all of a list failed (`failures`), something beside the main thing was left out (`incomplete`), there was `nothing` to do. `Stack` is the concatenation of the route functions in the order
`registerRoutes` calls them; `Advance` takes the next entry that matches, prefix guards included. `Sign`, `Verdict` and
`secret` model the keys with which tokens are signed and tested, an unset `JWT_SECRET` included.

**`Locations`, `Server`.** Slots, lock, list, and each province's goroutine with the ways it may end early. A
reply is missing, unreadable, an error, oddly shaped or good. What is decoded of an odd one is used, since the error of `Unmarshal` is dropped
(location_service.go:297,304): `Legible` gives what it may be, the list with some names lost, or nothing. Lists are sequences, and `allCities`
is in the order in which the goroutines came to it. `AgreesWithPrototype` compares with `Prototype` for
the same replies. `Server` lets a request for places take the steps of `Locations` where every other operation is one step.

How the modules meet. The purge of `Accounts` empties the tables of `Chat`, `Notes` and `Billing`; in `Accounts`
each is a name in `data`. `Chat` takes from `Routing` the mode and whether references were found.
`Notifications` pushes through `Hub` and sees it as a counter; `Hub` sees notifications as messages. `Http` calls each service as one operation
that ends done, with one of its errors, or in a way the service keeps to itself.

## 3 What the runs show

| Run | Shows | Bounds and why they are enough |
|---|---|---|
| `billing_concurrent` | with two handlers interleaved in every way: paid means settled, no free access, no end beyond the purchase, the access loops agree | one subscription (a stale copy is of one row), one refund and one cancellation (each is processed again and again, by both handlers), periods of one and two ticks so that rows end before and after the bound of the clock |
| `billing_serial` | one handler at a time: a refund ends access even after a redelivered settlement, effective dates are kept, and `Billing` implements `RefundWorkflow` | two subscriptions and refunds, so that newest-first scans and duplicate tests have a choice |
| `usage` | two requests, two days: no charge for calls not made; while requests come one at a time the limit holds and only midnight or an admin takes a counter down | limits none, one, two and unlimited; `MaxCalls` 3 is beyond the largest limit; `MaxRaced` 1 bounds calls once requests have overlapped, of which only `NeverOvercharged` speaks |
| `notes` | two requests, the consumer, failures and restarts: content fresh when nothing is pending, and brought up to date again and again; while requests come one at a time names are fresh, the tree whole and nothing deleted comes back | two notes (one to wait behind another), three notebooks (a child between two), four requests or restarts |
| `notes_cycle` | a finding of section 5 | two notebooks are enough for a cycle |
| `hub` | everyone connected gets a push once; a panic has one of two causes; everyone who leaves is taken out | two devices of one user (removal shifts the other), a buffer of one (a second message fills it), one push here and one from elsewhere (so both senders walk one slice) |
| `notifications` | nobody is notified oftener than the event was delivered; whom an acknowledged event concerns has it; every stored event is acknowledged in the end, unless the process is without a subscription from some time on | an event for admins beside one for a user, a broadcast or an inactive type; two users, of whom either may gain or lose the role; two failures of any kind, so that one hits the repair of the other |
| `chat` | focus is one of the candidates, a mode is kept, a deleted session leaves nothing | three messages with every kind of prompt, two at a time, one deletion and one expiry or restart; two notes, so that a number can mean the wrong one |
| `accounts` | who gets in, what a block and a link are worth, what a purge leaves | five requests of which two overlap at any statement; two accounts that hold one address in turn; every answer of Google; two tables of the ten, one reached through the other, so that their order matters (the theorem is for all ten) |
| `server` | admins' and users' operations are reached only with a token for them, each request arrives where it is registered, statuses tell how it ended; places are what the sequential program would find, answered as asked, and a request waits for nothing but a call to another | every route with every defect its handler tests for, every token the client may hold and every end of an operation; two requests (sign in, then use the token; or fill the cache, then use it); every reply lost, refused, bad or read in part; three provinces for two slots, so that one waits, two with a town of the same name and one with none that matches |
| `catalogue` | while requests come one after the other each part of a row is what was asked for last, but for the defaults of an insert, and settings show what was saved; links go only by the request that removes them | three requests (create, read, write between), two at a time, of each kind of row one to begin with and room for another |
| `routing` | no word is lost but to a key with a line break in it, references are shown once and only one's own, a bypass is free of the notes' prompts up to three stated cases | five messages out of nearly a hundred shapes, with every kind of white space behind a prefix; `Limit` 10 is the code's, and rows of the fifth message push the first two out |

Every property of a passing run has a mutant: a definition replaced by a plausible bug, under which TLC finds
that property violated. Deadlock is not checked: every model stops at its bounds, and a server with no
requests rests. Liveness is checked where something waits on something.

**Fairness**, and why the code justifies it:

- `Notes`: weak for `Continue(h)` (a goroutine that was started runs) and `FindNote` (so does the consumer's
  loop); strong for `FindNotebook` and `Commit`: an error of the database or of the embedding provider
  may come any number of times, but not at each attempt for ever, and without it the property is false in the code
  as well, for a message that always fails is redelivered always. Strong for `Take(n)`: the channel serialises
  deliveries with a `sync.Mutex`, which Go hands over in turn to goroutines that have waited.
- `Hub`: weak for each goroutine's own steps; strong for the two handovers to `Run` (`Handoff`, `Leave`),
  since Go's `select` chooses at random among channels that are ready, so none is passed over for ever.
- `Notifications`: weak for the consumer (`Handle`), for delivery of what is due while there is a subscription, and
  for redelivery of a message nobody holds any more (JetStream's ack wait). Failures are bounded and not fair, and nothing brings a
  subscription back: `EventuallyAcked` speaks of the processes that have one again and again.
- `Server`: weak for what the server does by itself: routing, tests, goroutines, the lock, the answer. A call to the database, to the
  model or to a directory has no fairness, since `http.Get` has no time limit (location_service.go:90,221,257,290,348) and may stay open
  for ever. `EveryRequestAnswered` says that such a call is the only thing that can hold a request up.

Clients, other instances, new requests, failures and crashes have no fairness anywhere.

## 4 What is proved

All proofs are for every value of the constants: any number of handlers, notes, subscriptions, refunds,
days, plans, features, events, users, accounts, links, messages, provinces and failures. They rest on the named assumptions of the
constants only (`BillingAssumption`, `GraceDaysAssumption`, `UsageAssumption`, `NotesAssumption`, `CatalogueAssumption`,
`NotificationsAssumption`, `AccountsAssumption`, `HubAssumption`, `GroundingAssumption`, `ChatAssumption`, `RoutingAssumption`,
`HttpAssumption`, `PlacesAssumption`, `LocationsAssumption`, `ServerAssumption`): bounds are naturals, periods
positive, the seeded rows are rows, subjects are users, a user's first devices are distinct, a message is a non-empty sequence
of words, a note whose title has a text is found by that text, provinces have different names, a request for places has the parts its handler reads, `Nobody` is no province, and the like.

Every invariant, every action property and the refinement of a passing run is a theorem; what is only model-checked is listed at the end of this section.

**Billing** (`BillingProofs`). `Invariant` proves `IInv` of `BillingInvariant`, from which `TypeCorrect`,
`PaidRowsAreSettled`, `AccessIsPaidOrGranted`, `NeverBeyondPurchase`, `RefundedRowsHaveRecords` and
`RefundsAreOfSettledOrders` follow. The properties are not inductive: they speak of the stored rows, and the
next `Save` writes a copy. `IInv` therefore states the facts about a row once (`RowOK`, `RecordOK`) and
requires them of the stored rows *and of every handler's copy*. They are preserved because they are stable:
notifications sent, rows granted and decided refunds only grow, and the clock only moves on.
`ShownPlansCount` is about operators: over a table of any size, rows shown as active or validated give a plan.

The second part of `BillingProofs` proves what holds while requests come one at a time, the assumption `Serial` of its theorems (with
two it fails: section 5). `SInv` says that the copy a handler holds has the end of the row it was read from, and that
what the handler has tested of the refunds (none is live, this one is pending) still holds when it writes.
`RefundEndsAccess` follows because every write keeps an end that a refund has cut, `DatesAreKept` because every
other write keeps the end there was. `WorkflowImplemented` is the refinement: the four writes of the refund table are
`Request`, `Decide` and `Record` of `RefundWorkflow`, everything else is a stutter.

**Usage** (`UsageProofs`). `NeverChargedForNothing` rests on: the counter of today in the row, and in every copy
of it, is at most what it can stand at; a copy with an older day counts for nothing, because it carries its reset day
with it. `SerialDailyLimit` and `UsageKept` add what holds while there is one request: its copy is the
row, and between `Check` and `SaveUsage` the limit has room for the call.

**Notes** (`NotesProofs`). `IndexCatchesUp` proves `ContentFresh`. It is not inductive because it is silent
while a message is under way. `CoverInv` says what is true all the time of a live note that was not lost: a
message is in the channel, or a request has it on its list to publish, or the consumer is about to read it, or
holds its present text, or does not hold it and its rows are of its present text. Saves of stale rows do no harm
because each is followed by a message; the consumer's stale commit does none because the save that made it
stale is.

The second part of `NotesProofs` proves what holds while requests come one at a time. None of it is inductive: a request saves a row it
read some steps before. `CalmInv` says that as long as `tidy` holds at most one request is under way, that the row
it holds is of a live note in a live notebook, or of a live notebook with a live parent and, unless it renames, the
present name; and that the tree is whole. `TreeStaysWhole` and `DeletedIsFinal` follow. `NamesCatchUp` adds `NameInv`, the
counterpart of `CoverInv` for the name: a note whose notebook was renamed waits for the request to list it.

**Catalogue** (in `BillingProofs`). `LinksAreKept` proves `LinksKept`, of all interleavings: whatever features a
plan's edit read, its save only adds links. `EditsStay` proves `EditsAreKept`, which says that a row holds what was asked for, with the default in the places where an insert
replaced a false or a zero and no edit named that part since, through `CalmInv`: as long as no two
requests were under way at once, the one edit under way holds its row as it is, and of a plan the features as they are, so
that writing all of it writes back what is there. `SettingsStay` proves `SettingsShowWhatWasSaved` with `SettingsInv`: the
default address a save found, or found missing, is still that when it writes, and what it writes is then the first in order.

**Notifications** (`NotificationsProofs`). `OnceEachDelivery` proves `OncePerDelivery`. The invariant counts: rows
stored for a user, plus copies of the event waiting in the inbox, plus one if the work will still store it for
them, is at most the number of deliveries. (`CopiesAppend` and `CopiesTail` are lemmas about how often a
value occurs in a sequence.) `AckedHasServed` proves `AckedIsServed` from `WorkInv` (whom the event in
work concerns is on its list or served) and `Grows`: no step takes back what was stored or sent, or makes an event
concern anybody it did not concern before.

**Accounts** (`AccountsProofs`). `ALinkWorksOnce` proves `ResetOnce`, which is not inductive because a request tests
the link long before it marks it. `LinkInv` adds what holds in between: of a link no two requests were using at once,
one request at most is past the test, and as long as it is the link is unused; a link that can still pass the test was
never used. `NobodyInUnproven` proves `NoAccessUnproven`: who is in by password was proven, or came once by way of Google. `ProofInv` says of every stored row that would let its user in
(verified, or an admin's) that the account is known in one of these two ways, and the same of every copy about to be saved, unless that save
itself vouches; copies stay good because nothing takes a proof away. What Google says is not tested, so no more is true (section 5). `ShutStaysShut` proves `BlockHolds` with `BarInv`: an account that
was barred is shut, no code for it is live, no request on it is about to activate or to restore it, and the row a profile edit is
about to save is shut as well. `PurgedIsGone` proves `PurgeComplete` with `PurgeInv`, which says by the
program point of the purge which tables are already empty of the account's rows. It needs that a table emptied
through another one is emptied first: the order of the deletions in the code.

**Hub** (`HubProofs`). `PanicHasCause` proves `DownHasCause` for any number of users, devices and pushes and any size of buffer.
The property says nothing while the process runs; why no step panics is a fact about arrays that
goroutines share. `ListInv`: a slice lies within its array and holds the joined devices of its user, each once, but for the
place `Run` has reached while it shifts. `HeldInv`: a broadcast keeps the read lock while it has users left, so
`Run` is not shifting while it takes the next slice. `WalkType`: wherever a push may get to in the array it walks, its own or
one the hub dropped, there is a client. `FitInv`: these are connected and each there once, as long as
none of that user was shifted out under the push (`torn`). `OpenInv`: as long as no buffer was found full, the channel
of whoever is connected is open.
`NobodyIsMissed` proves the action property `NobodyMissed` from `PushInv`, which adds to these what makes them exact. `ListedInv`: every
connected device is in the slice of its user, at a place that is not being shifted. `OwnInv`: what a push walks belongs to the
user it has come to, who is not among those still to be visited. `MsgInv`: ids and the way they come keep messages apart, so what is on the bus
or about to be pushed has not been seen by anybody. `DueInv`: while a push is under way, a device it is due to, whose
turn is yet to come (`Waits`), has not got the message, and any other has got it once, in its buffer or on its connection. When the push ends nobody waits.
The two exceptions of the property, `full` and `torn`, are where these parts do fail in the code.

**Chat** (`ChatProofs`). `FocusIsSound`, `ModeIsSticky` and `DeletionIsComplete` prove `FocusSound`, `ModeSticky` and `NothingLeft`. For the
first, lemmas show that each update `Grounding` can compute keeps focus, candidates and state in agreement when it is applied to the
session it was computed from; `SoundInv` says of every request that waits to apply one that it still does, until two requests have
updated one object at once (`crossed`). `FirmInv`: from the moment a session's mode is firm, every
request that has been routed was routed by it and has no other object in hand than the store's. `DeleteInv`: what a deletion counted
is all there is, unless a message was in progress meanwhile (`raced`). `ObjInv` and a
counting argument show that there is always a free object for a session that is loaded again.

**Routing** (in `UsageProofs`). `WordsArrive`, `HistoryShowsOnce` and `BypassUnprimed` prove `NothingIsLost`, `ShownOnce` and
`BypassIsClean` for messages of any length and any white space. What the stages make of a message is told by `Only(s, at)`, a recursive function that
takes the elements of `s` at the places `at`. `OnlyPlaces` is the lemma about it: what was taken stands in `s` in the
same order, each place once, and nothing else was taken. From it follow `ThreeLists` (the references of a message are the quoted ones, then the
plain ones, then the links) and `ResolveOnce` (resolving blanks every repetition of a note, and finds notes of the
user only). `RoutingInv` is the inductive invariant: the mode is one there is, the references reported are notes of the
user, each once unless picked (`RefsInv`), with the two other properties.

**Http** (in `ServerProofs`). `RoutesGuarded`, `RoutesReached` and `AnswersTrue` prove `Guarded`, `EveryRouteReached` and `AnswersAreTrue`. The route
table is the program's own, and the first half of the argument is about it: each route function gives a table that is well
formed (`Shaped`), of whose entries no two take one request but for the bulk reset (`Clear`), in which a service that asks for a token
stands after the guard that asks for it (`Covered`), and whose handlers answer what went wrong with 400 or more and what went well with
less (`Fair`). Lemmas show that joining two tables keeps each of these if their entries are apart (`Cross`), and `StackKept` joins them in
the order in which `registerRoutes` does. The second half follows one request, for any tokens, errors and number of requests: `PassedInv` says that
whatever matched it above the place it has reached is a guard that let it pass, and `AtInv` where that place is. A handler is
reached only by a request that all guards above it let pass, and only if no handler above it matches. `AnswersTrue` says that an answer of success
comes from an operation that ended without an error, be it in one of the ways of `Silent`, and from no other.

**Locations** (in `ServerProofs`). `ParallelAgrees` proves `AgreesWithPrototype` for any list of provinces, any number of
slots and any replies. `Listed` says of a list that it has the finds of a set of provinces, each once, in any order. `VisitedTowns` proves it of what the
sequential program collects, of the provinces that replied well. `SpreadInv` says it, while the goroutines run, of the shared list and the provinces that
are done, those with odd replies included. It is kept because of `WorkerInv`: who merges holds the lock, is not done yet, and the copy of the list it is
about to extend is the list as it is. `SameBlocks` compares the two at the end.
`KeysTellApart` proves `AnsweredAsAsked`: entries of the cache stand under the key of the request they were assembled for (`CacheInv`), and
two requests have one key only if there is a colon in the texts of both, which is shown by the places of the colons in the key. `Server` is
no more than its parts for these proofs: `ServerLocations` and `ServerHttp` show that each of its steps is a step of the part or leaves its variables alone.

**Data.** The theorems of the library that state induction take an operator as a parameter, which the provers cannot
instantiate. Where a proof needs induction it is by the least counterexample: `LeastOne`, from the well-ordering of the naturals, gives of a
non-empty set of lengths or places the least, and the step before it contradicts that. Recursive definitions that are
reasoned about are recursive functions.

**Only model-checked**, and why:

- `EventuallyFresh`, `EventuallyAcked`, `LeavingIsServed` and `EveryRequestAnswered` are liveness under fairness, which needs ENABLED and
  is beyond the prover.
- `RootIsReached` is false, and the run `notes_cycle` shows it (section 5).
- Type correctness is proved for `Billing`, `Usage` and `Notes`, and of the other modules as far as their invariants contain it; no run
  repeats it.

## 5 What the code does that a reader would not expect

**Finding**, shown by a run that violates what a comment says: `notes_cycle`. Legal moves put a notebook below itself, and the
breadcrumb of its notes, which note_service.go:119 says goes to the root, never ends.

**Documents the models disagree with.** In four places the models do what the code does where a document or comment says otherwise.
The properties named state what the code gives, with the difference as an exception:

- A note or notebook that is not there is answered 200 (note_service.go:117,180,219,248; notebook_service.go:133,160,209,280), where
  docs/paradigm/deeplinking_backend_analysis.md:95 says 404: `AnswersAreTrue`.
- An account made by way of Google is marked verified, "because Google has verified already" (docs/namespace/auth-oauth.md:644), but
  `verified_email` is decoded and not tested (oauth_service.go:114-131): `NoAccessUnproven`.
- A plan made with a limit of 0, which docs/USAGE_LIMITS_API_V2.md:42 calls disabled, has the column's default
  (subscription_model.go:19-20): `EditsAreKept`.
- After `/nuance:key` and a line break, the prompt up to the next space is lost in the key, and the nuance is not found
  (router/parser.go:95; its line 39 says what the prefix is for): `NothingIsLost`.

**Exceptions stated in properties.** What a property excepts is what the code does: requests that overlap pass
the usage limit together (`DailyLimitHeld`) and undo each other's edits (`EditsAreKept`, `NameFresh`, `TreeSound`,
`DeletedStaysDeleted`); a full buffer may stop or end the process (`LeavingIsServed`, `DownHasCause`); a
link serves two requests at once (`ResetOnce`), rows written during a purge stay (`PurgeComplete`), a profile
save under way undoes a block (`BlockHolds`); who came by way of Google is in whatever it says of the address (`NoAccessUnproven`);
an insert stores defaults for zeros (`EditsAreKept`); a line break behind a key takes words with it (`NothingIsLost`); odd replies of the
directory are used as far as they can be read (`AgreesWithPrototype`); services end without an error or a result (`AnswersAreTrue`); a process
without a subscription handles no events (`EventuallyAcked`); a chat in mode `BYPASS_NUANCE`, a prefix behind a reference, or a bypass with a line break behind it
is given the notes' prompts (`BypassIsClean`; chatbot_service.go:443-452 and loader.go:53 tell the mode by
different rules); `DELETE /admin/token-usage/bulk` is never reached (`EveryRouteReached`; admin_controller.go:198-200).

**Seen while modelling, checked by no run:**

- *Payments.* A settlement delivered again after a refund sets the row back to paid (payment_service.go:346),
  although access stays ended. Two admins deciding one refund both succeed. Two interleaved cancellation requests are both
  inserted (user_service.go:447). A canceled subscription in its period is validated as `active`.
- *Accounts.* The admin's documents know a status "banned" (admin_dto.go:44), sign-in refuses only "blocked"
  (auth_service.go:205); Google sign-in asks for no status. A restored unverified account can neither sign in by password nor be
  verified. Registering with a deleted account's address fails on the unique index. Signed tokens stay good for a day.
  The purge leaves raw chat messages, notifications, tokens and providers. With `JWT_SECRET` unset,
  password sign-in signs with a default that only the admin's guard accepts.
- *Chat.* Memory is not rolled back with the transaction; a reply that a number was not found still cites old candidates;
  two first messages at once may lose a mode or give two titles; a nuance is not sticky and in RAG is looked
  up and not used; `ByNoteTitle` is called exact and is a substring match without an order (reference_resolver.go:152);
  references in a prompt have no maximum.
- *Catalogue.* `cmd/migrate` and `migrations/*.sql` make different foreign keys. As migrated by GORM a plan with features
  cannot be deleted, with a message about active subscriptions, and one in use without features can. A nuance's key can
  never be used again. `UpdateBillingInfo` never creates (user_service.go:414).
- *HTTP.* Creating many users, and purging, answer 201 and 200 with every row failed (admin_service.go:207-228, 245-354). The OAuth callback slices a code before it tests whether there is one. `Broadcast` answers "Queued" without a
  publisher. The notification list divides by a limit it does not test. Partial and failed answers of the directories are cached.
- *Usage.* On a new day the status page refuses searches the verifier would admit. A search by meaning that finds
  nothing is not counted (note_service.go:371).

## 6 What is not modelled

- **Plan limits on notes and notebooks**: `CheckCanCreateNotebook` and `CheckCanCreateNote` have no caller.
- **Dashboard and lists**: read-only queries and formatting.
- **Language models, embedding providers, the payment gateway, the directories**: external; each is every answer
  or error the code distinguishes.
- **Mail, logs, traces, start-up, migration and seed programs**: output or wiring that runs once.
- **Persistence** is partly modelled: `Save`, soft deletion, unique indexes and transactions appear in
  each module as what their calls do there; no module is about them alone.
- **Memory shared with the web framework**: fields of a cached answer that repeat the query (location_service.go:384, 452, 508) point into the
  request's buffer, which Fiber uses again; no property depends on them.
- *Inside the modelled components*: the windows between statements of one transaction are closed except in `Approve`, `Chat` and
  the purge; prices, texts, prompts and scores are data; semantic and literal search only read; refresh
  tokens are written and read by nothing; `pkg/rag/planner.go`, `filter.go`, `intent.go`, `executor/action.go` and
  `state/manager.go` are not called.

## 7 Plan

Done: `Billing`, `Usage`, `Notes`, `Hub`, `Notifications`, `Chat` with `Grounding`, `Routing`, `Accounts`, `Catalogue`,
`Server` with `Http` and `Locations`, each with its run; the proofs of every safety property the passing runs check, and of the refinement of
`RefundWorkflow`.

Left: liveness stays with TLC. A next step is an abstract specification of the index (every note is in it as it is now or
is waiting for it), which `Notes` would be shown to implement, and the transactions whose inner windows are closed (section 6).
