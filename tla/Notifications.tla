---------------------------- MODULE Notifications ----------------------------
(***************************************************************************)
(* Events on their way to notifications.  A handler publishes an event on  *)
(* the stream EVENTS after it has changed the database; a server delivers  *)
(* it to the durable consumer, where one goroutine looks the type of the   *)
(* event up, finds out whom it concerns, and for each of them stores a     *)
(* notification and pushes it through the hub (module Hub).  The message   *)
(* is then acknowledged, and only then deleted from the stream; without an *)
(* answer for a while, or after a negative one, it is delivered again, as  *)
(* long as the process is subscribed: a subscription that could not be     *)
(* made when it started, or was given up later, is not made again.         *)
(***************************************************************************)
EXTENDS Naturals, Sequences

CONSTANTS
  Events, Users,
  Tables,       \* what may stand in notification_types: the target_type of each event's
                \* type; "none": there is no such row; "off": it is not active
  Subject,      \* the user_id in each event's payload
  MaxFaults     \* bound: failures, crashes, early redeliveries and changes of role

ASSUME NotificationsAssumption ==
  /\ Tables \subseteq [Events -> {"SELF", "ADMIN", "BROADCAST", "none", "off"}]
  /\ Subject \in [Events -> Users] /\ MaxFaults \in Nat

VARIABLES
  target,       \* the table notification_types: seeded, and written by no handler
  stream,       \* each event's message: kept until it is acknowledged
  due,          \* messages to be delivered, for the first time or again
  inbox,        \* messages fetched by the consumer and not yet handled
  work,         \* the goroutine that handles them
  admins,       \* users with the role admin
  rows, unread, \* the table notifications: how many of an event for a user, and unread ones
  pushed,       \* how often each event was pushed to each user's clients
  aired,        \* how often each event was broadcast
  tries,        \* how often each event was delivered
  sub,          \* the subscription of the running process: "on", or "off" for good
  faults,       \* failures so far
  dropped,      \* history: whom a failed save has cost an event
  missed,       \* history: events whose type could not be read
  steady        \* history: users whose role never changed

history == <<dropped, missed, steady>>
effects == <<rows, unread, pushed, aired>>
server  == <<stream, due, tries, sub>>
vars    == <<target, server, inbox, work, admins, effects, faults, history>>

None  == [e \in Events |-> [u \in Users |-> 0]]
Work  == [pc : {"idle", "config", "resolve", "save", "push", "ack"}, e : Events,
          todo : SUBSET Users, u : Users]
Rest  == [pc |-> "idle", e |-> CHOOSE e \in Events : TRUE, todo |-> {},
          u |-> CHOOSE u \in Users : TRUE]

\* Start subscribes once; when that fails it is logged, and the server runs without.
Init ==
  /\ target \in Tables
  /\ stream = [e \in Events |-> "absent"] /\ due = {} /\ inbox = <<>> /\ work = Rest
  /\ admins \in SUBSET Users /\ rows = None /\ unread = None
  /\ pushed = None /\ aired = [e \in Events |-> 0]
  /\ tries = [e \in Events |-> 0] /\ sub \in {"on", "off"} /\ faults = 0
  /\ dropped = {} /\ missed = {} /\ steady = Users

Fails == faults < MaxFaults /\ faults' = faults + 1
Works == UNCHANGED faults

\* CreateNotification: one more row, unread.
Create(e, u) ==
  /\ rows' = [rows EXCEPT ![e][u] = @ + 1]
  /\ unread' = [unread EXCEPT ![e][u] = @ + 1]

-----------------------------------------------------------------------------
(* The stream *)

\* The server stores the message, or cannot be reached.
Sent(e) ==
  \/ stream' = [stream EXCEPT ![e] = "stored"] /\ due' = due \cup {e} /\ Works
  \/ stream' = [stream EXCEPT ![e] = "lost"] /\ UNCHANGED due /\ Fails

\* The handler's own change is committed when it publishes the event; an error is logged
\* and the event lost.
Publish(e) ==
  /\ stream[e] = "absent" /\ Sent(e)
  /\ UNCHANGED <<target, tries, sub, inbox, work, admins, effects, history>>

\* Messages are fetched ahead of the handler, over the subscription.
Deliver(e) ==
  /\ sub = "on" /\ e \in due /\ tries[e] <= MaxFaults
  /\ due' = due \ {e} /\ tries' = [tries EXCEPT ![e] = @ + 1]
  /\ inbox' = Append(inbox, e)
  /\ UNCHANGED <<target, stream, sub, work, admins, effects, faults, history>>

\* Nobody has answered in time.  It counts as a failure if the message is still waiting
\* for its turn, or is being handled.
Held(e) == (work.pc # "idle" /\ work.e = e) \/ \E i \in DOMAIN inbox : inbox[i] = e
\* Fault: a message counts as delivered once it was sent (AckNonePolicy).
FaultAckWait(e) ==
  /\ stream[e] = "stored" /\ e \notin due /\ tries[e] = 0
  /\ due' = due \cup {e} /\ Works
  /\ UNCHANGED <<target, stream, tries, sub, inbox, work, admins, effects, history>>

AckWait(e) ==
  /\ stream[e] = "stored" /\ e \notin due
  /\ due' = due \cup {e}
  /\ IF Held(e) THEN Fails ELSE Works
  /\ UNCHANGED <<target, stream, tries, sub, inbox, work, admins, effects, history>>

-----------------------------------------------------------------------------
(* The consumer *)

\* Fault: the message is acknowledged before it is handled.
FaultTake ==
  /\ work.pc = "idle" /\ inbox # <<>>
  /\ work' = [Rest EXCEPT !.pc = "config", !.e = Head(inbox)] /\ inbox' = Tail(inbox)
  /\ stream' = [stream EXCEPT ![Head(inbox)] = "acked"] /\ due' = due \ {Head(inbox)}
  /\ UNCHANGED <<target, tries, sub, admins, effects, faults, history>>

Take ==
  /\ work.pc = "idle" /\ inbox # <<>>
  /\ work' = [Rest EXCEPT !.pc = "config", !.e = Head(inbox)] /\ inbox' = Tail(inbox)
  /\ UNCHANGED <<target, server, admins, effects, faults, history>>

\* The type of the event: unknown or inactive, there is nothing to do, and so if it could
\* not be read.  (The announcement of a new subscriber is made for events named
\* SUBSCRIPTION_CREATED; what is compared is the subject, which begins with "events.".)
GetConfig ==
  LET e == work.e IN
  /\ work.pc = "config"
  /\ \/ /\ work' = [work EXCEPT !.pc = IF target[e] \in {"none", "off"} THEN "ack" ELSE "resolve"]
        /\ Works /\ UNCHANGED missed
     \/ work' = [work EXCEPT !.pc = "ack"] /\ Fails /\ missed' = missed \cup {e}
  /\ UNCHANGED <<target, server, inbox, admins, effects, dropped, steady>>

\* A broadcast is pushed to everybody connected and not stored.
Broadcast ==
  /\ work.pc = "resolve" /\ target[work.e] = "BROADCAST"
  /\ aired' = [aired EXCEPT ![work.e] = @ + 1]
  /\ work' = [work EXCEPT !.pc = "ack"]
  /\ UNCHANGED <<target, server, inbox, admins, rows, unread, pushed, faults, history>>

\* The user the event is about, or the users who now have the role it is for.
Recipients(e) == IF target[e] = "SELF" THEN {Subject[e]} ELSE admins

ResolveRecipients ==
  LET us == Recipients(work.e) IN
  /\ work.pc = "resolve" /\ target[work.e] # "BROADCAST"
  /\ work' = [work EXCEPT !.pc = IF us = {} THEN "ack" ELSE "save", !.todo = us]
  /\ UNCHANGED <<target, server, inbox, admins, effects, faults, history>>

\* The users of a role cannot be read: the message is refused, if the stream can be told.
ResolveFails ==
  /\ work.pc = "resolve" /\ target[work.e] = "ADMIN"
  /\ work' = Rest /\ Fails
  /\ due' = due \cup {e \in {work.e} : stream[e] = "stored" /\ sub = "on"}
  /\ UNCHANGED <<target, stream, tries, sub, inbox, admins, effects, history>>

After(u) == IF work.todo = {u} THEN "ack" ELSE "save"

\* One recipient at a time.  A notification that cannot be saved is not pushed either, and
\* the next recipient's turn comes.
Save ==
  /\ work.pc = "save"
  /\ \E u \in work.todo :
       \/ /\ Create(work.e, u)
          /\ work' = [work EXCEPT !.pc = "push", !.u = u] /\ Works /\ UNCHANGED dropped
       \/ /\ Fails /\ dropped' = dropped \cup {<<work.e, u>>} /\ UNCHANGED <<rows, unread>>
          /\ work' = [work EXCEPT !.pc = After(u), !.todo = @ \ {u}]
  /\ UNCHANGED <<target, server, inbox, admins, pushed, aired, missed, steady>>

\* Fault: the recipient stays on the list.
FaultPush ==
  /\ work.pc = "push"
  /\ pushed' = [pushed EXCEPT ![work.e][work.u] = @ + 1]
  /\ work' = [work EXCEPT !.pc = IF rows[work.e][work.u] > MaxFaults + 1
                                 THEN "ack" ELSE "save"]
  /\ UNCHANGED <<target, server, inbox, admins, rows, unread, aired, faults, history>>

Push ==
  /\ work.pc = "push"
  /\ pushed' = [pushed EXCEPT ![work.e][work.u] = @ + 1]
  /\ work' = [work EXCEPT !.pc = After(work.u), !.todo = @ \ {work.u}]
  /\ UNCHANGED <<target, server, inbox, admins, rows, unread, aired, faults, history>>

\* The acknowledgement deletes the message, or is lost on its way, and so it is without
\* a connection.
Ack ==
  /\ work.pc = "ack" /\ work' = Rest
  /\ \/ /\ sub = "on" /\ Works
        /\ stream' = [stream EXCEPT ![work.e] = "acked"] /\ due' = due \ {work.e}
     \/ /\ UNCHANGED <<stream, due>>
        /\ IF sub = "on" THEN Fails ELSE Works
  /\ UNCHANGED <<target, tries, sub, inbox, admins, effects, history>>

\* The connection could not be made again in five attempts and is closed: what was fetched
\* is not handled any more, the handler that runs goes on.
GiveUp ==
  /\ sub = "on" /\ sub' = "off" /\ inbox' = <<>> /\ Fails
  /\ UNCHANGED <<target, stream, due, tries, work, admins, effects, history>>

\* The process ends and is started again, subscribed or not: what it had fetched is still
\* on the stream.
Crash ==
  /\ work' = Rest /\ inbox' = <<>> /\ sub' \in {"on", "off"} /\ Fails
  /\ UNCHANGED <<target, stream, due, tries, admins, effects, history>>

-----------------------------------------------------------------------------
(* Users *)

SetRole(u) ==
  /\ Fails
  /\ admins' = IF u \in admins THEN admins \ {u} ELSE admins \cup {u}
  /\ steady' = steady \ {u}
  /\ UNCHANGED <<target, server, inbox, work, effects, dropped, missed>>

\* One row by its id, or all of a user's.
MarkAsRead(e, u) ==
  /\ unread[e][u] > 0 /\ unread' = [unread EXCEPT ![e][u] = @ - 1]
  /\ UNCHANGED <<target, server, inbox, work, admins, rows, pushed, aired, faults, history>>

MarkAllAsRead(u) ==
  /\ \E e \in Events : unread[e][u] > 0
  /\ unread' = [e \in Events |-> [unread[e] EXCEPT ![u] = 0]]
  /\ UNCHANGED <<target, server, inbox, work, admins, rows, pushed, aired, faults, history>>

-----------------------------------------------------------------------------
Handle == Take \/ GetConfig \/ Broadcast \/ ResolveRecipients \/ Save \/ Push \/ Ack

Next ==
  \/ Handle \/ ResolveFails \/ GiveUp \/ Crash
  \/ \E e \in Events : Publish(e) \/ Deliver(e) \/ AckWait(e)
  \/ \E u \in Users : SetRole(u) \/ MarkAllAsRead(u) \/ \E e \in Events : MarkAsRead(e, u)

Spec == Init /\ [][Next]_vars

\* The goroutine goes on while it has messages; the server delivers what is due while there
\* is a subscription, and does not wait for ever for an answer.  Nothing brings a
\* subscription back: neither GiveUp's end nor a restart is fair.
FairSpec ==
  /\ Spec
  /\ WF_vars(Handle)
  /\ \A e \in Events : WF_vars(Deliver(e)) /\ WF_vars(AckWait(e) /\ ~Held(e))

-----------------------------------------------------------------------------
(* Properties *)

\* A user has an event twice only if its message was delivered twice.
OncePerDelivery == \A e \in Events, u \in Users : rows[e][u] <= tries[e]

\* When the message is deleted from the stream, everyone it concerns, by a role kept all
\* the while, has it in the list and has been sent it, however often the work was broken
\* off and begun again; but not those whose row, or the event whose type, the database
\* refused: they are lost for good.
AckedIsServed ==
  \A e \in Events : stream[e] = "acked" /\ e \notin missed =>
    /\ target[e] \in {"SELF", "ADMIN"} =>
         \A u \in Users : (u \in Recipients(e) /\ (target[e] = "ADMIN" => u \in steady)
                           /\ <<e, u>> \notin dropped)
                          => pushed[e][u] >= 1 /\ rows[e][u] >= 1
    /\ target[e] = "BROADCAST" => aired[e] >= 1

\* An event that has reached the stream is handled and acknowledged in the end, whatever
\* failed, crashed or was delivered twice before, unless the process is without a
\* subscription from some time on.
EventuallyAcked ==
  \A e \in Events : stream[e] = "stored" ~> (stream[e] = "acked" \/ [](sub = "off"))
=============================================================================
