------------------------------ MODULE Billing ------------------------------
(***************************************************************************)
(* Subscriptions, refunds and cancellations of one user: the rows of       *)
(* user_subscriptions, refunds and cancellations, the payment gateway's    *)
(* view of each order, and the HTTP handlers that read and write the rows. *)
(*                                                                         *)
(* No handler locks a row it reads (READ COMMITTED, no SELECT FOR UPDATE)  *)
(* and UpdateSubscription is GORM's Save, which writes every column.  A    *)
(* handler is therefore a read step that copies the row into a local       *)
(* variable, and later steps that write the whole copy back.               *)
(* A statement that is the last of its transaction, and the Commit after   *)
(* it, are one step, and time.Now() is read in the step that uses it.  One *)
(* user is enough: no handler here touches the rows of two users.          *)
(***************************************************************************)
EXTENDS Access

CONSTANTS
  Handlers,    \* requests that may be in progress at once
  MaxSub,      \* bound: subscription rows ever created
  MaxRefund,   \* bound: refund rows ever created
  MaxCancel,   \* bound: cancellation rows ever created
  Periods,     \* billing periods of the plans, in clock ticks
  MaxTime      \* bound: clock ticks

ASSUME BillingAssumption ==
  /\ MaxSub \in Nat /\ MaxRefund \in Nat /\ MaxCancel \in Nat /\ MaxTime \in Nat
  /\ Periods \subseteq Nat \ {0}

Subs    == 1 .. MaxSub
Refunds == 1 .. MaxRefund
Cancels == 1 .. MaxCancel

VARIABLES
  now,       \* the wall clock
  sub,       \* user_subscriptions; row numbers follow created_at
  nsub,      \* rows of sub created so far
  refund,    \* refunds
  nref,
  cancel,    \* cancellations
  ncan,
  granted,   \* history: rows an admin created with Upgrade
  order,     \* the payment gateway's state of the order of each row
  sent,      \* notifications the gateway has sent; any may be delivered late or again
  pc,        \* where each handler is
  loc        \* each handler's local variables

tables  == <<sub, nsub, refund, nref, cancel, ncan, granted>>
gateway == <<order, sent>>
vars    == <<now, tables, gateway, pc, loc>>

\* A row of user_subscriptions; st = "none": no such row yet.
\* len is the billing period of the row's plan.
SubRow == [st : SubStatus \cup {"none"}, pay : PayStatus \cup {"none"},
           start : Nat, end : Nat, len : Nat]
NoRow  == [st |-> "none", pay |-> "none", start |-> 0, end |-> 0, len |-> 0]

RefundStatus == {"none", "pending", "approved", "rejected", "processed"}
CancelStatus == {"none", "pending", "approved", "rejected"}
RefundRow    == [st : RefundStatus, on : 0 .. MaxSub]
CancelRow    == [st : CancelStatus, on : 0 .. MaxSub, eff : Nat]

OrderState == {"none", "open", "settled", "closed"}
\* capture and settlement are handled alike, and deny, cancel and expire are.
Notice     == [order : Subs, kind : {"settlement", "expire"}]

\* The write each program point still has to do.
PC == {"idle", "snap", "webhook", "cancelNow", "upgrade", "adminRefund",
       "refundCheck", "refundInsert", "approve", "approveCommit", "reject",
       "cancelCheck", "cancelInsert", "processSub", "processMark"}
Local   == [s : 0 .. MaxSub, row : SubRow, id : Nat, act : CancelStatus]
NoLocal == [s |-> 0, row |-> NoRow, id |-> 0, act |-> "none"]

Exists(s) == sub[s].st # "none"

\* Handler p reaches program point c with locals l; Finish(p) is its return.
Goto(p, c, l) == pc' = [pc EXCEPT ![p] = c] /\ loc' = [loc EXCEPT ![p] = l]
Finish(p)     == Goto(p, "idle", NoLocal)
Local1(s, row) == [s |-> s, row |-> row, id |-> 0, act |-> "none"]

Init ==
  /\ now = 0
  /\ sub = [s \in Subs |-> NoRow] /\ nsub = 0
  /\ refund = [r \in Refunds |-> [st |-> "none", on |-> 0]] /\ nref = 0
  /\ cancel = [c \in Cancels |-> [st |-> "none", on |-> 0, eff |-> 0]] /\ ncan = 0
  /\ granted = {}
  /\ order = [s \in Subs |-> "none"] /\ sent = {}
  /\ pc = [p \in Handlers |-> "idle"] /\ loc = [p \in Handlers |-> NoLocal]

-----------------------------------------------------------------------------
(* The payment gateway and the clock: the environment. *)

Tick == now < MaxTime /\ now' = now + 1 /\ UNCHANGED <<tables, gateway, pc, loc>>

\* A customer whose first card is denied may pay the open order with another.
GatewayDeny(s) ==
  /\ order[s] = "open"
  /\ sent' = sent \cup {[order |-> s, kind |-> "expire"]}
  /\ order' \in {order, [order EXCEPT ![s] = "closed"]}
  /\ UNCHANGED <<now, tables, pc, loc>>

GatewaySettle(s) ==
  /\ order[s] = "open"
  /\ sent' = sent \cup {[order |-> s, kind |-> "settlement"]}
  /\ order' = [order EXCEPT ![s] = "settled"]
  /\ UNCHANGED <<now, tables, pc, loc>>

-----------------------------------------------------------------------------
(* payment_service *)

\* CreateSubscription: the row is committed before the gateway is called.
Checkout(p, len) ==
  /\ pc[p] = "idle" /\ nsub < MaxSub
  /\ nsub' = nsub + 1
  /\ sub' = [sub EXCEPT ![nsub + 1] =
               [st |-> "inactive", pay |-> "pending",
                start |-> now, end |-> now + len, len |-> len]]
  /\ Goto(p, "snap", Local1(nsub + 1, NoRow))
  /\ UNCHANGED <<now, refund, nref, cancel, ncan, granted, gateway>>

\* CreateTransaction succeeds; when it fails the handler returns (Return).
CheckoutSnap(p) ==
  /\ pc[p] = "snap"
  /\ order' = [order EXCEPT ![loc[p].s] = "open"]
  /\ Finish(p)
  /\ UNCHANGED <<now, tables, sent>>

\* Fault: a settlement also renews the billing period.
FaultWebhookRow(row, kind) ==
  IF kind = "settlement" THEN [row EXCEPT !.st = "active", !.pay = "success", !.end = @ + row.len]
                         ELSE [row EXCEPT !.st = "inactive", !.pay = "failed"]

WebhookRow(row, kind) ==
  IF kind = "settlement" THEN [row EXCEPT !.st = "active", !.pay = "success"]
                         ELSE [row EXCEPT !.st = "inactive", !.pay = "failed"]

\* HandleNotification: skipped when the row already has both statuses.
Webhook(p, n) ==
  /\ pc[p] = "idle" /\ n \in sent
  /\ Exists(n.order)
  /\ WebhookRow(sub[n.order], n.kind) # sub[n.order]
  /\ Goto(p, "webhook", Local1(n.order, WebhookRow(sub[n.order], n.kind)))
  /\ UNCHANGED <<now, tables, gateway>>

\* CancelSubscription: some active row, in no particular order.
CancelSubscription(p, s) ==
  /\ pc[p] = "idle" /\ sub[s].st = "active"
  /\ Goto(p, "cancelNow", Local1(s, [sub[s] EXCEPT !.st = "canceled"]))
  /\ UNCHANGED <<now, tables, gateway>>

\* UpdateSubscription: Save writes the whole row the handler holds.
SaveRow(p) ==
  /\ pc[p] \in {"webhook", "cancelNow"}
  /\ sub' = [sub EXCEPT ![loc[p].s] = loc[p].row]
  /\ Finish(p)
  /\ UNCHANGED <<now, nsub, refund, nref, cancel, ncan, granted, gateway>>

-----------------------------------------------------------------------------
(* user_service: refund and cancellation requests *)

LiveRefund(s) == \E r \in Refunds : refund[r].on = s /\ refund[r].st \in {"pending", "approved"}
LiveCancel(s) == \E c \in Cancels : cancel[c].on = s /\ cancel[c].st \in {"pending", "approved"}

RequestRefund(p, s) ==
  /\ pc[p] = "idle" /\ sub[s].st = "active" /\ sub[s].pay = "success"
  /\ Goto(p, "refundCheck", Local1(s, NoRow))
  /\ UNCHANGED <<now, tables, gateway>>

RequestRefundCheck(p) ==
  /\ pc[p] = "refundCheck" /\ ~LiveRefund(loc[p].s)
  /\ Goto(p, "refundInsert", loc[p])
  /\ UNCHANGED <<now, tables, gateway>>

RequestRefundInsert(p) ==
  /\ pc[p] = "refundInsert" /\ nref < MaxRefund
  /\ nref' = nref + 1
  /\ refund' = [refund EXCEPT ![nref + 1] = [st |-> "pending", on |-> loc[p].s]]
  /\ Finish(p)
  /\ UNCHANGED <<now, sub, nsub, cancel, ncan, granted, gateway>>

RequestCancellation(p, s) ==
  /\ pc[p] = "idle" /\ sub[s].st = "active"
  /\ Goto(p, "cancelCheck", Local1(s, sub[s]))
  /\ UNCHANGED <<now, tables, gateway>>

RequestCancellationCheck(p) ==
  /\ pc[p] = "cancelCheck" /\ ~LiveCancel(loc[p].s)
  /\ Goto(p, "cancelInsert", loc[p])
  /\ UNCHANGED <<now, tables, gateway>>

RequestCancellationInsert(p) ==
  /\ pc[p] = "cancelInsert" /\ ncan < MaxCancel
  /\ ncan' = ncan + 1
  /\ cancel' = [cancel EXCEPT ![ncan + 1] =
                  [st |-> "pending", on |-> loc[p].s, eff |-> loc[p].row.end]]
  /\ Finish(p)
  /\ UNCHANGED <<now, sub, nsub, refund, nref, granted, gateway>>

-----------------------------------------------------------------------------
(* admin: refund processor *)

\* A transaction that has saved refund r and not committed holds its row lock.
RefundLocked(r) == \E q \in Handlers : pc[q] = "approveCommit" /\ loc[q].id = r

\* Fault: the refund's status is not tested.
FaultReviewRefund(p, r, decision) ==
  /\ pc[p] = "idle" /\ refund[r].st # "none"
  /\ Goto(p, decision, [s |-> refund[r].on, row |-> NoRow, id |-> r, act |-> "none"])
  /\ UNCHANGED <<now, tables, gateway>>

\* Both read the refund and test its status before their transaction begins.
ReviewRefund(p, r, decision) ==
  /\ pc[p] = "idle" /\ refund[r].st = "pending"
  /\ Goto(p, decision, [s |-> refund[r].on, row |-> NoRow, id |-> r, act |-> "none"])
  /\ UNCHANGED <<now, tables, gateway>>

\* Fault: CurrentPeriodEnd is left alone.
FaultApprove(p) ==
  /\ pc[p] = "approve" /\ ~RefundLocked(loc[p].id)
  /\ Goto(p, "approveCommit",
          [loc[p] EXCEPT !.row = [sub[loc[p].s] EXCEPT !.st = "canceled", !.pay = "refunded"]])
  /\ UNCHANGED <<now, tables, gateway>>

\* The refund is saved, not yet committed, and its subscription is read.
Approve(p) ==
  /\ pc[p] = "approve" /\ ~RefundLocked(loc[p].id)
  /\ Goto(p, "approveCommit",
          [loc[p] EXCEPT !.row = [sub[loc[p].s] EXCEPT
                                    !.st = "canceled", !.pay = "refunded", !.end = now]])
  /\ UNCHANGED <<now, tables, gateway>>

ApproveCommit(p) ==
  /\ pc[p] = "approveCommit"
  /\ refund' = [refund EXCEPT ![loc[p].id].st = "approved"]
  /\ sub' = [sub EXCEPT ![loc[p].s] = loc[p].row]
  /\ Finish(p)
  /\ UNCHANGED <<now, nsub, nref, cancel, ncan, granted, gateway>>

Reject(p) ==
  /\ pc[p] = "reject" /\ ~RefundLocked(loc[p].id)
  /\ refund' = [refund EXCEPT ![loc[p].id].st = "rejected"]
  /\ Finish(p)
  /\ UNCHANGED <<now, sub, nsub, nref, cancel, ncan, granted, gateway>>

-----------------------------------------------------------------------------
(* admin: subscription manager *)

\* Refund: whatever state the row is in; no earlier refund is looked for.
AdminRefund(p, s) ==
  /\ pc[p] = "idle" /\ Exists(s)
  /\ Goto(p, "adminRefund", Local1(s, sub[s]))
  /\ UNCHANGED <<now, tables, gateway>>

\* Fault: CurrentPeriodEnd is left alone.
FaultAdminRefundCommit(p) ==
  /\ pc[p] = "adminRefund" /\ nref < MaxRefund
  /\ sub' = [sub EXCEPT ![loc[p].s] =
               [loc[p].row EXCEPT !.st = "canceled", !.pay = "refunded"]]
  /\ nref' = nref + 1
  /\ refund' = [refund EXCEPT ![nref + 1] = [st |-> "processed", on |-> loc[p].s]]
  /\ Finish(p)
  /\ UNCHANGED <<now, nsub, cancel, ncan, granted, gateway>>

AdminRefundCommit(p) ==
  /\ pc[p] = "adminRefund" /\ nref < MaxRefund
  /\ sub' = [sub EXCEPT ![loc[p].s] =
               [loc[p].row EXCEPT !.st = "canceled", !.pay = "refunded", !.end = now]]
  /\ nref' = nref + 1
  /\ refund' = [refund EXCEPT ![nref + 1] = [st |-> "processed", on |-> loc[p].s]]
  /\ Finish(p)
  /\ UNCHANGED <<now, nsub, cancel, ncan, granted, gateway>>

\* Upgrade reads one active row (s), or none (s = 0).
Upgrade(p, s) ==
  /\ pc[p] = "idle"
  /\ IF s = 0 THEN \A t \in Subs : sub[t].st # "active" ELSE sub[s].st = "active"
  /\ Goto(p, "upgrade", IF s = 0 THEN NoLocal ELSE Local1(s, sub[s]))
  /\ UNCHANGED <<now, tables, gateway>>

\* Fault: the granted row is marked as if the gateway had been paid.
FaultUpgradeCommit(p, len) ==
  /\ pc[p] = "upgrade" /\ nsub < MaxSub
  /\ nsub' = nsub + 1
  /\ sub' = [sub EXCEPT ![nsub + 1] = [st |-> "active", pay |-> "success",
                                       start |-> now, end |-> now + len, len |-> len]]
  /\ granted' = granted \cup {nsub + 1}
  /\ Finish(p)
  /\ UNCHANGED <<now, refund, nref, cancel, ncan, gateway>>

UpgradeCommit(p, len) ==
  /\ pc[p] = "upgrade" /\ nsub < MaxSub
  /\ nsub' = nsub + 1
  /\ sub' = [s \in Subs |->
               CASE s = nsub + 1 -> [st |-> "active", pay |-> "paid",
                                     start |-> now, end |-> now + len, len |-> len]
                 [] s # nsub + 1 /\ s = loc[p].s -> [loc[p].row EXCEPT !.st = "canceled"]
                 [] OTHER -> sub[s]]
  /\ granted' = granted \cup {nsub + 1}
  /\ Finish(p)
  /\ UNCHANGED <<now, refund, nref, cancel, ncan, gateway>>

-----------------------------------------------------------------------------
(* admin_service.ProcessCancellation: no transaction, no test of the       *)
(* cancellation's status; approving writes the subscription first.         *)

ProcessCancellation(p, c, action) ==
  /\ pc[p] = "idle" /\ cancel[c].st # "none"
  /\ LET s == cancel[c].on
     IN  \/ /\ action = "approved"
            /\ Goto(p, "processSub", [s |-> s, row |-> sub[s], id |-> c, act |-> action])
         \* rejecting, or the subscription could not be read, which is only logged
         \/ Goto(p, "processMark", [s |-> s, row |-> NoRow, id |-> c, act |-> action])
  /\ UNCHANGED <<now, tables, gateway>>

\* Fault: approving a cancellation ends the period at once.
FaultProcessCancellationSub(p) ==
  /\ pc[p] = "processSub"
  /\ sub' = [sub EXCEPT ![loc[p].s] = [loc[p].row EXCEPT !.st = "canceled", !.end = now]]
  /\ Goto(p, "processMark", [loc[p] EXCEPT !.row = NoRow])
  /\ UNCHANGED <<now, nsub, refund, nref, cancel, ncan, granted, gateway>>

ProcessCancellationSub(p) ==
  /\ pc[p] = "processSub"
  /\ sub' = [sub EXCEPT ![loc[p].s] = [loc[p].row EXCEPT !.st = "canceled"]]
  /\ Goto(p, "processMark", [loc[p] EXCEPT !.row = NoRow])
  /\ UNCHANGED <<now, nsub, refund, nref, cancel, ncan, granted, gateway>>

ProcessCancellationMark(p) ==
  /\ pc[p] = "processMark"
  /\ cancel' = [cancel EXCEPT ![loc[p].id].st = loc[p].act]
  /\ Finish(p)
  /\ UNCHANGED <<now, sub, nsub, refund, nref, ncan, granted, gateway>>

-----------------------------------------------------------------------------
\* An error return, a database error or a crash: what is not committed is lost.
Return(p) == pc[p] # "idle" /\ Finish(p) /\ UNCHANGED <<now, tables, gateway>>

PaymentStep(p) ==
  \/ \E len \in Periods : Checkout(p, len)
  \/ CheckoutSnap(p)
  \/ \E n \in sent : Webhook(p, n)
  \/ \E s \in Subs : CancelSubscription(p, s)
  \/ SaveRow(p)

UserStep(p) ==
  \/ \E s \in Subs : RequestRefund(p, s) \/ RequestCancellation(p, s)
  \/ RequestRefundCheck(p) \/ RequestRefundInsert(p)
  \/ RequestCancellationCheck(p) \/ RequestCancellationInsert(p)

AdminStep(p) ==
  \/ \E r \in Refunds, d \in {"approve", "reject"} : ReviewRefund(p, r, d)
  \/ Approve(p) \/ ApproveCommit(p) \/ Reject(p)
  \/ \E s \in Subs : AdminRefund(p, s)
  \/ AdminRefundCommit(p)
  \/ \E s \in 0 .. MaxSub : Upgrade(p, s)
  \/ \E len \in Periods : UpgradeCommit(p, len)
  \/ \E c \in Cancels, a \in {"approved", "rejected"} : ProcessCancellation(p, c, a)
  \/ ProcessCancellationSub(p) \/ ProcessCancellationMark(p)

Next ==
  \/ Tick
  \/ \E s \in Subs : GatewayDeny(s) \/ GatewaySettle(s)
  \/ \E p \in Handlers : PaymentStep(p) \/ UserStep(p) \/ AdminStep(p) \/ Return(p)

Spec == Init /\ [][Next]_vars

-----------------------------------------------------------------------------
(* Properties *)

TypeOK ==
  /\ now \in Nat
  /\ sub \in [Subs -> SubRow] /\ nsub \in 0 .. MaxSub
  /\ refund \in [Refunds -> RefundRow] /\ nref \in 0 .. MaxRefund
  /\ cancel \in [Cancels -> CancelRow] /\ ncan \in 0 .. MaxCancel
  /\ granted \subseteq Subs
  /\ order \in [Subs -> OrderState] /\ sent \subseteq Notice
  /\ pc \in [Handlers -> PC] /\ loc \in [Handlers -> Local]

Settled(s) == [order |-> s, kind |-> "settlement"] \in sent

\* A row is marked paid ("success") only if the gateway reported that order
\* settled, whatever stale copies UpdateSubscription writes back.
PaidMeansSettled == \A s \in Subs : sub[s].pay = "success" => Settled(s)

\* Nobody gets a plan's limits through a row that was neither settled at the
\* gateway nor created by an admin: not with canceled, refunded or reprocessed
\* rows, and not through a copy that was read before another handler's commit.
NoFreeAccess ==
  \A s \in Subs : Exists(s) /\ HasPlan(sub, {s}, now) => Settled(s) \/ s \in granted

\* No handler ever makes a subscription last longer than the period bought:
\* writing a stale row back may undo a cut of CurrentPeriodEnd, and refunding an
\* expired row moves its end up to the present, but no end lies beyond both.
WithinPurchase ==
  \A s \in Subs : sub[s].end <= sub[s].start + sub[s].len \/ sub[s].end <= now

\* Money is marked as given back only with a refund record that is no longer
\* pending: the refund and its subscription are written in one transaction.
RefundedHasRecord ==
  \A s \in Subs : sub[s].pay = "refunded" =>
    \E r \in Refunds : refund[r].on = s /\ refund[r].st \notin {"none", "pending"}

\* A user's refund request is only ever about an order the gateway settled,
\* although the row is read two steps before the request is inserted.
RefundNeedsSettled ==
  \A r \in Refunds : refund[r].st \in {"pending", "approved", "rejected"}
                      => Settled(refund[r].on)

\* Whenever the settings page shows a plan as active, or the expiration check
\* calls the subscription valid, the limit checks of plan_service and of the RAG
\* access verifier find a plan too: three loops over the same rows agree.
ShownImpliesPlan ==
  LET rows == {s \in Subs : Exists(s)}
  IN  ShownActive(sub, rows, now) \/ IsValid(sub, rows, now) => HasPlan(sub, rows, now)

GivenBack(s) == \E r \in Refunds : refund[r].on = s /\ refund[r].st \in {"approved", "processed"}

\* After a refund is approved, or made by an admin, the row gives no access,
\* although a redelivered notification may make it active and paid again
\* (one handler at a time: it rests on CurrentPeriodEnd being cut).
RefundedNoAccess == \A s \in Subs : GivenBack(s) => ~HasPlan(sub, {s}, now)

\* The effective date a cancellation was recorded with stays the end of the
\* subscription unless money is given back: approving, rejecting or repeating
\* it takes no access away before that date.
EffectiveDateKept ==
  \A c \in Cancels : cancel[c].st # "none" /\ ~GivenBack(cancel[c].on)
                      => sub[cancel[c].on].end = cancel[c].eff

\* With one handler at a time the refund tables implement the workflow the
\* refund API documents.
Workflow == INSTANCE RefundWorkflow WITH
  Requests <- Refunds, Subscriptions <- Subs,
  status <- [r \in Refunds |-> refund[r].st],
  about  <- [r \in Refunds |-> refund[r].on]
ImplementsWorkflow == Workflow!Spec

=============================================================================
