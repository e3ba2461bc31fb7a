--------------------------- MODULE BillingProofs ---------------------------
(***************************************************************************)
(* Proofs about Billing, for any number of handlers, rows, requests, clock *)
(* ticks and billing periods.                                              *)
(***************************************************************************)
EXTENDS BillingInvariant, Catalogue, WellFoundedInduction, TLAPS

-----------------------------------------------------------------------------
(* Type correctness *)

\* What a handler holds at first, and what it holds once it has read a subscription.
LEMMA LocalTypes ==
  /\ NoRow \in SubRow
  /\ NoLocal \in Local
  /\ \A s \in Subs, row \in SubRow : Local1(s, row) \in Local
<1>1. NoRow \in SubRow
  BY DEF NoRow, SubRow
<1>2. NoLocal \in Local
  BY <1>1, BillingAssumption DEF NoLocal, Local, CancelStatus
<1>3. \A s \in Subs, row \in SubRow : Local1(s, row) \in Local
  BY DEF Local1, Local, Subs, CancelStatus
<1>4. QED BY <1>1, <1>2, <1>3

\* The webhook sets a row to a row.
LEMMA WebhookRowType ==
  ASSUME NEW row \in SubRow, NEW kind
  PROVE  WebhookRow(row, kind) \in SubRow
BY DEF WebhookRow, SubRow, SubStatus, PayStatus

\* A handler that moves on is somewhere, and holds something.
LEMMA GotoType ==
  ASSUME pc \in [Handlers -> PC], loc \in [Handlers -> Local],
         NEW p \in Handlers, NEW c \in PC, NEW l \in Local, Goto(p, c, l)
  PROVE  pc' \in [Handlers -> PC] /\ loc' \in [Handlers -> Local]
BY DEF Goto

\* So is a handler that ends.
LEMMA FinishType ==
  ASSUME pc \in [Handlers -> PC], loc \in [Handlers -> Local],
         NEW p \in Handlers, Finish(p)
  PROVE  pc' \in [Handlers -> PC] /\ loc' \in [Handlers -> Local]
BY GotoType, LocalTypes DEF Finish, PC

\* The steps of the payment service keep the types.
LEMMA PaymentType ==
  ASSUME TypeOK, NEW p \in Handlers, PaymentStep(p)
  PROVE  TypeOK'
<1> USE DEF TypeOK
<1>1. ASSUME NEW len \in Periods, Checkout(p, len) PROVE TypeOK'
  <2>1. nsub + 1 \in Subs /\ nsub' \in 0 .. MaxSub
    BY <1>1, BillingAssumption DEF Checkout, Subs
  <2>2. sub' \in [Subs -> SubRow]
    BY <1>1, <2>1, BillingAssumption DEF Checkout, SubRow, SubStatus, PayStatus
  <2>3. pc' \in [Handlers -> PC] /\ loc' \in [Handlers -> Local]
    BY <1>1, <2>1, GotoType, LocalTypes DEF Checkout, PC
  <2>4. QED BY <1>1, <2>1, <2>2, <2>3 DEF Checkout, gateway
<1>2. ASSUME CheckoutSnap(p) PROVE TypeOK'
  BY <1>2, FinishType DEF CheckoutSnap, tables, OrderState
<1>3. ASSUME NEW n \in sent, Webhook(p, n) PROVE TypeOK'
  <2>1. n.order \in Subs /\ WebhookRow(sub[n.order], n.kind) \in SubRow
    BY <1>3, WebhookRowType DEF Notice
  <2>2. pc' \in [Handlers -> PC] /\ loc' \in [Handlers -> Local]
    BY <1>3, <2>1, GotoType, LocalTypes DEF Webhook, PC
  <2>3. QED BY <1>3, <2>2 DEF Webhook, tables, gateway
<1>4. ASSUME NEW s \in Subs, CancelSubscription(p, s) PROVE TypeOK'
  <2>1. [sub[s] EXCEPT !.st = "canceled"] \in SubRow
    BY DEF SubRow, SubStatus
  <2>2. pc' \in [Handlers -> PC] /\ loc' \in [Handlers -> Local]
    BY <1>4, <2>1, GotoType, LocalTypes DEF CancelSubscription, PC
  <2>3. QED BY <1>4, <2>2 DEF CancelSubscription, tables, gateway
<1>5. ASSUME SaveRow(p) PROVE TypeOK'
  <2>1. sub' \in [Subs -> SubRow]
    BY <1>5 DEF SaveRow, Local
  <2>2. pc' \in [Handlers -> PC] /\ loc' \in [Handlers -> Local]
    BY <1>5, FinishType DEF SaveRow
  <2>3. QED BY <1>5, <2>1, <2>2 DEF SaveRow, gateway
<1>6. QED BY <1>1, <1>2, <1>3, <1>4, <1>5 DEF PaymentStep

\* The steps of a user's requests for refund and cancellation keep the types.
LEMMA UserType ==
  ASSUME TypeOK, NEW p \in Handlers, UserStep(p)
  PROVE  TypeOK'
<1> USE DEF TypeOK
<1>1. ASSUME NEW s \in Subs, RequestRefund(p, s) PROVE TypeOK'
  <2>1. pc' \in [Handlers -> PC] /\ loc' \in [Handlers -> Local]
    BY <1>1, GotoType, LocalTypes DEF RequestRefund, PC
  <2>2. QED BY <1>1, <2>1 DEF RequestRefund, tables, gateway
<1>2. ASSUME NEW s \in Subs, RequestCancellation(p, s) PROVE TypeOK'
  <2>1. pc' \in [Handlers -> PC] /\ loc' \in [Handlers -> Local]
    BY <1>2, GotoType, LocalTypes DEF RequestCancellation, PC
  <2>2. QED BY <1>2, <2>1 DEF RequestCancellation, tables, gateway
<1>3. ASSUME RequestRefundCheck(p) PROVE TypeOK'
  <2>1. pc' \in [Handlers -> PC] /\ loc' \in [Handlers -> Local]
    BY <1>3, GotoType DEF RequestRefundCheck, PC
  <2>2. QED BY <1>3, <2>1 DEF RequestRefundCheck, tables, gateway
<1>4. ASSUME RequestCancellationCheck(p) PROVE TypeOK'
  <2>1. pc' \in [Handlers -> PC] /\ loc' \in [Handlers -> Local]
    BY <1>4, GotoType DEF RequestCancellationCheck, PC
  <2>2. QED BY <1>4, <2>1 DEF RequestCancellationCheck, tables, gateway
<1>5. ASSUME RequestRefundInsert(p) PROVE TypeOK'
  <2>1. nref' \in 0 .. MaxRefund
    BY <1>5, BillingAssumption DEF RequestRefundInsert
  <2>2. refund' \in [Refunds -> RefundRow]
    BY <1>5 DEF RequestRefundInsert, RefundRow, RefundStatus, Local
  <2>3. pc' \in [Handlers -> PC] /\ loc' \in [Handlers -> Local]
    BY <1>5, FinishType DEF RequestRefundInsert
  <2>4. QED BY <1>5, <2>1, <2>2, <2>3 DEF RequestRefundInsert, gateway
<1>6. ASSUME RequestCancellationInsert(p) PROVE TypeOK'
  <2>1. ncan' \in 0 .. MaxCancel
    BY <1>6, BillingAssumption DEF RequestCancellationInsert
  <2>2. cancel' \in [Cancels -> CancelRow]
    BY <1>6 DEF RequestCancellationInsert, CancelRow, CancelStatus, Local, SubRow
  <2>3. pc' \in [Handlers -> PC] /\ loc' \in [Handlers -> Local]
    BY <1>6, FinishType DEF RequestCancellationInsert
  <2>4. QED BY <1>6, <2>1, <2>2, <2>3 DEF RequestCancellationInsert, gateway
<1>7. QED BY <1>1, <1>2, <1>3, <1>4, <1>5, <1>6 DEF UserStep

\* The steps of the admins keep the types.
LEMMA AdminType ==
  ASSUME TypeOK, LocalsOK, CancelsOK, NEW p \in Handlers, AdminStep(p)
  PROVE  TypeOK'
<1> USE DEF TypeOK
<1>1. ASSUME NEW r \in Refunds, NEW d \in {"approve", "reject"}, ReviewRefund(p, r, d)
      PROVE TypeOK'
  <2>1. [s |-> refund[r].on, row |-> NoRow, id |-> r, act |-> "none"] \in Local
    BY LocalTypes DEF Local, RefundRow, Refunds, CancelStatus
  <2>2. pc' \in [Handlers -> PC] /\ loc' \in [Handlers -> Local]
    BY <1>1, <2>1, GotoType DEF ReviewRefund, PC
  <2>3. QED BY <1>1, <2>2 DEF ReviewRefund, tables, gateway
<1>2. ASSUME Approve(p) PROVE TypeOK'
  <2>1. loc[p].s \in Subs
    BY <1>2 DEF Approve, LocalsOK, LocalOK
  <2>2. [sub[loc[p].s] EXCEPT !.st = "canceled", !.pay = "refunded", !.end = now] \in SubRow
    BY <2>1 DEF SubRow, SubStatus, PayStatus
  <2>3. [loc[p] EXCEPT !.row = [sub[loc[p].s] EXCEPT
            !.st = "canceled", !.pay = "refunded", !.end = now]] \in Local
    BY <2>2 DEF Local
  <2>4. pc' \in [Handlers -> PC] /\ loc' \in [Handlers -> Local]
    BY <1>2, <2>3, GotoType DEF Approve, PC
  <2>5. QED BY <1>2, <2>4 DEF Approve, tables, gateway
<1>3. ASSUME ApproveCommit(p) PROVE TypeOK'
  <2>1. sub' \in [Subs -> SubRow] /\ refund' \in [Refunds -> RefundRow]
    BY <1>3 DEF ApproveCommit, Local, RefundRow, RefundStatus
  <2>2. pc' \in [Handlers -> PC] /\ loc' \in [Handlers -> Local]
    BY <1>3, FinishType DEF ApproveCommit
  <2>3. QED BY <1>3, <2>1, <2>2 DEF ApproveCommit, gateway
<1>4. ASSUME Reject(p) PROVE TypeOK'
  <2>1. refund' \in [Refunds -> RefundRow]
    BY <1>4 DEF Reject, RefundRow, RefundStatus
  <2>2. pc' \in [Handlers -> PC] /\ loc' \in [Handlers -> Local]
    BY <1>4, FinishType DEF Reject
  <2>3. QED BY <1>4, <2>1, <2>2 DEF Reject, gateway
<1>5. ASSUME NEW s \in Subs, AdminRefund(p, s) PROVE TypeOK'
  <2>1. pc' \in [Handlers -> PC] /\ loc' \in [Handlers -> Local]
    BY <1>5, GotoType, LocalTypes DEF AdminRefund, PC
  <2>2. QED BY <1>5, <2>1 DEF AdminRefund, tables, gateway
<1>6. ASSUME AdminRefundCommit(p) PROVE TypeOK'
  <2>1. [loc[p].row EXCEPT !.st = "canceled", !.pay = "refunded", !.end = now] \in SubRow
    BY DEF Local, SubRow, SubStatus, PayStatus
  <2>2. sub' \in [Subs -> SubRow] /\ refund' \in [Refunds -> RefundRow]
    BY <1>6, <2>1 DEF AdminRefundCommit, Local, RefundRow, RefundStatus
  <2>3. pc' \in [Handlers -> PC] /\ loc' \in [Handlers -> Local]
    BY <1>6, FinishType DEF AdminRefundCommit
  <2>4. QED BY <1>6, <2>2, <2>3, BillingAssumption DEF AdminRefundCommit, gateway
<1>7. ASSUME NEW s \in 0 .. MaxSub, Upgrade(p, s) PROVE TypeOK'
  <2>1. (IF s = 0 THEN NoLocal ELSE Local1(s, sub[s])) \in Local
    BY LocalTypes DEF Subs
  <2>2. pc' \in [Handlers -> PC] /\ loc' \in [Handlers -> Local]
    BY <1>7, <2>1, GotoType DEF Upgrade, PC
  <2>3. QED BY <1>7, <2>2 DEF Upgrade, tables, gateway
<1>8. ASSUME NEW len \in Periods, UpgradeCommit(p, len) PROVE TypeOK'
  <2>1. nsub + 1 \in Subs /\ nsub' \in 0 .. MaxSub
    BY <1>8, BillingAssumption DEF UpgradeCommit, Subs
  <2>2. [st |-> "active", pay |-> "paid", start |-> now, end |-> now + len, len |-> len] \in SubRow
    BY BillingAssumption DEF SubRow, SubStatus, PayStatus
  <2>3. [loc[p].row EXCEPT !.st = "canceled"] \in SubRow
    BY DEF Local, SubRow, SubStatus
  <2>4. sub' \in [Subs -> SubRow]
    BY <1>8, <2>2, <2>3 DEF UpgradeCommit
  <2>5. pc' \in [Handlers -> PC] /\ loc' \in [Handlers -> Local]
    BY <1>8, FinishType DEF UpgradeCommit
  <2>6. QED BY <1>8, <2>1, <2>4, <2>5 DEF UpgradeCommit, gateway
<1>9. ASSUME NEW c \in Cancels, NEW a \in {"approved", "rejected"}, ProcessCancellation(p, c, a)
      PROVE TypeOK'
  <2>1. cancel[c].on \in Subs /\ c \in Nat
    BY <1>9 DEF ProcessCancellation, CancelsOK, Cancels
  <2>2. \A row \in SubRow : [s |-> cancel[c].on, row |-> row, id |-> c, act |-> a] \in Local
    BY <2>1 DEF Local, Subs, CancelStatus
  <2>3. pc' \in [Handlers -> PC] /\ loc' \in [Handlers -> Local]
    BY <1>9, <2>1, <2>2, GotoType, LocalTypes DEF ProcessCancellation, PC
  <2>4. QED BY <1>9, <2>3 DEF ProcessCancellation, tables, gateway
<1>10. ASSUME ProcessCancellationSub(p) PROVE TypeOK'
  <2>1. [loc[p].row EXCEPT !.st = "canceled"] \in SubRow
    BY DEF Local, SubRow, SubStatus
  <2>2. [loc[p] EXCEPT !.row = NoRow] \in Local
    BY LocalTypes DEF Local
  <2>3. pc' \in [Handlers -> PC] /\ loc' \in [Handlers -> Local]
    BY <1>10, <2>2, GotoType DEF ProcessCancellationSub, PC
  <2>4. QED BY <1>10, <2>1, <2>3 DEF ProcessCancellationSub, gateway
<1>11. ASSUME ProcessCancellationMark(p) PROVE TypeOK'
  <2>1. cancel' \in [Cancels -> CancelRow]
    BY <1>11 DEF ProcessCancellationMark, CancelRow, Local
  <2>2. pc' \in [Handlers -> PC] /\ loc' \in [Handlers -> Local]
    BY <1>11, FinishType DEF ProcessCancellationMark
  <2>3. QED BY <1>11, <2>1, <2>2 DEF ProcessCancellationMark, gateway
<1>12. QED
  BY <1>1, <1>2, <1>3, <1>4, <1>5, <1>6, <1>7, <1>8, <1>9, <1>10, <1>11 DEF AdminStep

-----------------------------------------------------------------------------
(* Rows: what the handlers do to a row, and what time does to it *)

\* What is true of a row stays true: the clock moves on, and notifications and grants only
\* become more.
LEMMA RowOKLater ==
  ASSUME NEW s, NEW row \in SubRow, NEW t \in Nat, NEW t2 \in Nat, t <= t2,
         NEW S, NEW S2, S \subseteq S2, NEW G, NEW G2, G \subseteq G2,
         RowOK(s, row, t, S, G)
  PROVE  RowOK(s, row, t2, S2, G2)
BY DEF RowOK, Backed, SettledIn, SubRow

\* So does what backs it.
LEMMA BackedLater ==
  ASSUME NEW s, NEW S, NEW S2, S \subseteq S2, NEW G, NEW G2, G \subseteq G2, Backed(s, S, G)
  PROVE  Backed(s, S2, G2)
BY DEF Backed, SettledIn

\* A row that is good is good with its status set to canceled.
LEMMA CanceledRow ==
  ASSUME NEW s, NEW row \in SubRow, NEW t, NEW S, NEW G, NEW R,
         RowOK(s, row, t, S, G), RecordOK(s, row, R), Backed(s, S, G)
  PROVE  LET new == [row EXCEPT !.st = "canceled"]
         IN  RowOK(s, new, t, S, G) /\ RecordOK(s, new, R)
BY DEF RowOK, RecordOK, SubRow

\* A row whose access ends now, as of a refund, is good.
LEMMA RefundedRow ==
  ASSUME NEW s, NEW row \in SubRow, NEW t \in Nat, NEW S, NEW G
  PROVE  RowOK(s, [row EXCEPT !.st = "canceled", !.pay = "refunded", !.end = t], t, S, G)
BY DEF RowOK, SubRow

\* A row that is good is good after a notification about it that was sent.
LEMMA NotifiedRow ==
  ASSUME NEW s, NEW row \in SubRow, NEW t, NEW S, NEW G, NEW R, NEW n \in S, n.order = s,
         n \in Notice, RowOK(s, row, t, S, G)
  PROVE  /\ RowOK(s, WebhookRow(row, n.kind), t, S, G)
         /\ RecordOK(s, WebhookRow(row, n.kind), R)
<1>1. n.kind = "settlement" => SettledIn(s, S)
  <2>1. n = [order |-> n.order, kind |-> n.kind]
    BY DEF Notice
  <2>2. QED BY <2>1 DEF SettledIn
<1>2. QED BY <1>1 DEF RowOK, RecordOK, WebhookRow, Backed, SubRow

-----------------------------------------------------------------------------
(* What no step undoes *)

\* Time passes, notifications and grants accumulate, and a refund keeps its
\* subscription and stays requested, or decided, once it is.
Grows ==
  /\ now <= now' /\ sent \subseteq sent' /\ granted \subseteq granted' /\ ncan <= ncan'
  /\ \A r \in Refunds : refund[r].st # "none" =>
       /\ refund'[r].st # "none" /\ refund'[r].on = refund[r].on
       /\ refund[r].st \in Requested => refund'[r].st \in Requested
       /\ refund[r].st \in Decided => refund'[r].st \in Decided

\* A step that leaves clock, gateway, grants and refunds alone takes nothing back.
LEMMA SameGrows ==
  ASSUME TypeOK, UNCHANGED <<now, sent, granted, refund>>, UNCHANGED ncan \/ ncan' = ncan + 1
  PROVE  Grows
BY DEF Grows, TypeOK

\* Nor does one that inserts a refund.
LEMMA NewRefundGrows ==
  ASSUME TypeOK, RefundsOK, UNCHANGED <<now, sent, granted, ncan>>, NEW row,
         refund' = [refund EXCEPT ![nref + 1] = row]
  PROVE  Grows
<1>1. \A r \in Refunds : refund[r].st # "none" => refund'[r] = refund[r]
  BY DEF RefundsOK, TypeOK, Refunds
<1>2. QED BY <1>1 DEF Grows, TypeOK

\* Nor does one that decides a refund that was waiting.
LEMMA DecidedRefundGrows ==
  ASSUME TypeOK, UNCHANGED <<now, sent, granted, ncan>>, NEW r \in Refunds,
         refund[r].st \in Requested, NEW d \in {"approved", "rejected"},
         refund' = [refund EXCEPT ![r].st = d]
  PROVE  Grows
BY DEF Grows, TypeOK, RefundRow, Requested, Decided

\* A refund that was recorded stays recorded.
LEMMA RecordKept ==
  ASSUME Grows, NEW s, NEW row, RecordOK(s, row, refund)
  PROVE  RecordOK(s, row, refund')
BY DEF Grows, RecordOK, Decided

\* If nothing is taken back, a good row stays good.
LEMMA RowKept ==
  ASSUME TypeOK, TypeOK', Grows, NEW s, NEW row \in SubRow, RowOK(s, row, now, sent, granted)
  PROVE  RowOK(s, row, now', sent', granted')
BY RowOKLater DEF Grows, TypeOK

\* If nothing is taken back, the stored cancellations stay good.
LEMMA CancelsKept ==
  ASSUME TypeOK, CancelsOK, Grows, UNCHANGED <<cancel, ncan>> PROVE CancelsOK'
BY BackedLater DEF CancelsOK, Grows, TypeOK

\* If nothing is taken back, the stored refunds stay good.
LEMMA RefundsKept ==
  ASSUME RefundsOK, Grows, UNCHANGED <<refund, nref>> PROVE RefundsOK'
BY DEF RefundsOK, Grows, SettledIn

\* If nothing is taken back, the stored subscriptions stay good.
LEMMA RowsKept ==
  ASSUME TypeOK, TypeOK', RowsOK, Grows, UNCHANGED sub PROVE RowsOK'
BY RowKept, RecordKept DEF RowsOK, TypeOK

\* One row changes, to one that is as it should be.
LEMMA RowsWritten ==
  ASSUME TypeOK, TypeOK', RowsOK, Grows, NEW s \in Subs,
         \A t \in Subs : t # s => sub'[t] = sub[t],
         RowOK(s, sub'[s], now', sent', granted'), RecordOK(s, sub'[s], refund')
  PROVE  RowsOK'
<1>1. ASSUME NEW t \in Subs, t # s
      PROVE  RowOK(t, sub'[t], now', sent', granted') /\ RecordOK(t, sub'[t], refund')
  BY <1>1, RowKept, RecordKept DEF RowsOK, TypeOK
<1>2. QED BY <1>1 DEF RowsOK

\* A handler that does not move keeps what it knows.
LEMMA LocalKept ==
  ASSUME TypeOK, TypeOK', Grows, NEW q \in Handlers, LocalOK(q),
         pc'[q] = pc[q], loc'[q] = loc[q]
  PROVE  LocalOK(q)'
<1>1. loc[q].row \in SubRow
  BY DEF TypeOK, Local
<1>2. RowOK(loc[q].s, loc[q].row, now, sent, granted)
        => RowOK(loc[q].s, loc[q].row, now', sent', granted')
  BY <1>1, RowKept
<1>3. RecordOK(loc[q].s, loc[q].row, refund) => RecordOK(loc[q].s, loc[q].row, refund')
  BY RecordKept
<1>4. Backed(loc[q].s, sent, granted) => Backed(loc[q].s, sent', granted')
  BY BackedLater DEF Grows
<1>5. SettledIn(loc[q].s, sent) => SettledIn(loc[q].s, sent')
  BY DEF SettledIn, Grows
<1>6. ASSUME loc[q].id \in Refunds, refund[loc[q].id].on = loc[q].s,
             refund[loc[q].id].st \in Requested
      PROVE  refund'[loc[q].id].on = loc[q].s /\ refund'[loc[q].id].st \in Requested
  BY <1>6 DEF Grows, Requested
<1>7. loc[q].id \in Cancels /\ loc[q].id <= ncan => loc[q].id <= ncan'
  BY DEF Grows, TypeOK, Cancels
<1>8. QED BY <1>2, <1>3, <1>4, <1>5, <1>6, <1>7 DEF LocalOK

\* So only the handler that moved is left to look at.
LEMMA LocalsMoved ==
  ASSUME TypeOK, TypeOK', LocalsOK, Grows, NEW p \in Handlers, NEW c, NEW l,
         Goto(p, c, l), LocalOK(p)'
  PROVE  LocalsOK'
<1>1. ASSUME NEW q \in Handlers, q # p PROVE pc'[q] = pc[q] /\ loc'[q] = loc[q]
  BY <1>1 DEF Goto, TypeOK
<1>2. QED BY <1>1, LocalKept DEF LocalsOK

\* A handler that ends leaves good what the others hold.
LEMMA LocalsFinished ==
  ASSUME TypeOK, TypeOK', LocalsOK, Grows, NEW p \in Handlers, Finish(p)
  PROVE  LocalsOK'
<1>1. pc'[p] = "idle"
  BY DEF Finish, Goto, TypeOK
<1>2. LocalOK(p)'
  BY <1>1 DEF LocalOK, HoldsRow, NeedsBacked, Reviewing
<1>3. QED BY <1>2, LocalsMoved DEF Finish

-----------------------------------------------------------------------------
(* Preservation, one step per action *)

Core == RowsOK /\ RefundsOK /\ CancelsOK /\ LocalsOK

\* A step that only moves handler p.
LEMMA OnlyMoves ==
  ASSUME TypeOK, TypeOK', Core, NEW p \in Handlers, NEW c, NEW l, Goto(p, c, l),
         UNCHANGED <<now, tables, sent>>, LocalOK(p)'
  PROVE  Core'
<1>1. Grows
  BY SameGrows DEF tables
<1>2. RowsOK' /\ CancelsOK' /\ RefundsOK'
  BY <1>1, RowsKept, CancelsKept, RefundsKept DEF Core, tables
<1>3. LocalsOK'
  BY <1>1, LocalsMoved DEF Core
<1>4. QED BY <1>2, <1>3 DEF Core

\* A handler that only ends keeps Core.
LEMMA OnlyReturns ==
  ASSUME TypeOK, TypeOK', Core, NEW p \in Handlers, Finish(p), UNCHANGED <<now, tables, sent>>
  PROVE  Core'
<1>1. Grows
  BY SameGrows DEF tables
<1>2. QED
  BY <1>1, RowsKept, CancelsKept, RefundsKept, LocalsFinished DEF Core, tables

\* The clock and the gateway keep Core.
LEMMA EnvironmentCore ==
  ASSUME TypeOK, TypeOK', Core, UNCHANGED <<tables, pc, loc>>, now <= now', sent \subseteq sent'
  PROVE  Core'
<1>1. Grows
  BY DEF Grows, tables, TypeOK
<1>2. RowsOK' /\ CancelsOK' /\ RefundsOK'
  BY <1>1, RowsKept, CancelsKept, RefundsKept DEF Core, tables
<1>3. LocalsOK'
  BY <1>1, LocalKept DEF Core, LocalsOK
<1>4. QED BY <1>2, <1>3 DEF Core

\* The row a handler has just read is as it should be.
LEMMA RowRead ==
  ASSUME Core, NEW s \in Subs
  PROVE  RowOK(s, sub[s], now, sent, granted) /\ RecordOK(s, sub[s], refund)
BY DEF Core, RowsOK

\* Where a handler that moves on is, and what it holds.
LEMMA Moved ==
  ASSUME TypeOK, NEW p \in Handlers, NEW c, NEW l, Goto(p, c, l)
  PROVE  pc'[p] = c /\ loc'[p] = l
BY DEF Goto, TypeOK

\* The steps of the payment service keep Core: a Save writes a copy that was good all along.
LEMMA PaymentCore ==
  ASSUME TypeOK, TypeOK', Core, NEW p \in Handlers, PaymentStep(p)
  PROVE  Core'
<1> USE DEF HoldsRow, NeedsBacked, Reviewing
<1>1. ASSUME NEW len \in Periods, Checkout(p, len) PROVE Core'
  <2> DEFINE s == nsub + 1
  <2>1. s \in Subs /\ Grows
    BY <1>1, SameGrows DEF Checkout, Subs, TypeOK, gateway
  <2>2. /\ \A t \in Subs : t # s => sub'[t] = sub[t]
        /\ sub'[s] = [st |-> "inactive", pay |-> "pending",
                      start |-> now, end |-> now + len, len |-> len]
    BY <1>1, <2>1 DEF Checkout, TypeOK
  <2>3. RowOK(s, sub'[s], now', sent', granted') /\ RecordOK(s, sub'[s], refund')
    BY <1>1, <2>2, BillingAssumption DEF RowOK, RecordOK, TypeOK, Checkout
  <2>4. RowsOK'
    BY <2>1, <2>2, <2>3, RowsWritten DEF Core
  <2>5. LocalOK(p)'
    BY <1>1, <2>1, Moved DEF Checkout, LocalOK, Local1
  <2>6. LocalsOK'
    BY <1>1, <2>1, <2>5, LocalsMoved DEF Checkout, Core
  <2>7. QED
    BY <1>1, <2>1, <2>4, <2>6, RefundsKept, CancelsKept DEF Checkout, Core
<1>2. ASSUME CheckoutSnap(p) PROVE Core'
  BY <1>2, OnlyReturns DEF CheckoutSnap
<1>3. ASSUME NEW n \in sent, Webhook(p, n) PROVE Core'
  <2>1. n \in Notice /\ n.order \in Subs
    BY DEF TypeOK, Notice
  <2>2. /\ RowOK(n.order, WebhookRow(sub[n.order], n.kind), now, sent, granted)
        /\ RecordOK(n.order, WebhookRow(sub[n.order], n.kind), refund)
    BY <2>1, RowRead, NotifiedRow DEF TypeOK
  <2>3. LocalOK(p)'
    BY <1>3, <2>1, <2>2, Moved DEF Webhook, LocalOK, Local1, tables, gateway
  <2>4. QED BY <1>3, <2>3, OnlyMoves DEF Webhook, gateway
<1>4. ASSUME NEW s \in Subs, CancelSubscription(p, s) PROVE Core'
  <2>1. Backed(s, sent, granted)
    BY <1>4, RowRead DEF CancelSubscription, RowOK
  <2>2. LET new == [sub[s] EXCEPT !.st = "canceled"]
        IN  RowOK(s, new, now, sent, granted) /\ RecordOK(s, new, refund)
    BY <2>1, RowRead, CanceledRow DEF TypeOK
  <2>3. LocalOK(p)'
    BY <1>4, <2>1, <2>2, Moved DEF CancelSubscription, LocalOK, Local1, tables, gateway
  <2>4. QED BY <1>4, <2>3, OnlyMoves DEF CancelSubscription, gateway
<1>5. ASSUME SaveRow(p) PROVE Core'
  <2> DEFINE s == loc[p].s
  <2>1. /\ s \in Subs /\ RowOK(s, loc[p].row, now, sent, granted)
        /\ RecordOK(s, loc[p].row, refund)
    BY <1>5 DEF SaveRow, Core, LocalsOK, LocalOK
  <2>2. Grows
    BY <1>5, SameGrows DEF SaveRow, gateway
  <2>3. (\A t \in Subs : t # s => sub'[t] = sub[t]) /\ sub'[s] = loc[p].row
    BY <1>5, <2>1 DEF SaveRow, TypeOK
  <2>4. RowsOK'
    BY <1>5, <2>1, <2>2, <2>3, RowsWritten DEF SaveRow, Core, gateway
  <2>5. QED
    BY <1>5, <2>2, <2>4, LocalsFinished, RefundsKept, CancelsKept DEF SaveRow, Core
<1>6. QED BY <1>1, <1>2, <1>3, <1>4, <1>5 DEF PaymentStep

\* The steps of a user's requests for refund and cancellation keep Core.
LEMMA UserCore ==
  ASSUME TypeOK, TypeOK', Core, NEW p \in Handlers, UserStep(p)
  PROVE  Core'
<1> USE DEF HoldsRow, NeedsBacked, Reviewing
<1>1. ASSUME NEW s \in Subs, RequestRefund(p, s) PROVE Core'
  <2>1. SettledIn(s, sent)
    BY <1>1, RowRead DEF RequestRefund, RowOK
  <2>2. LocalOK(p)'
    BY <1>1, <2>1, Moved DEF RequestRefund, LocalOK, Local1, gateway
  <2>3. QED BY <1>1, <2>2, OnlyMoves DEF RequestRefund, gateway
<1>2. ASSUME NEW s \in Subs, RequestCancellation(p, s) PROVE Core'
  <2>1. Backed(s, sent, granted)
    BY <1>2, RowRead DEF RequestCancellation, RowOK
  <2>2. LocalOK(p)'
    BY <1>2, <2>1, Moved DEF RequestCancellation, LocalOK, Local1, gateway, tables
  <2>3. QED BY <1>2, <2>2, OnlyMoves DEF RequestCancellation, gateway
<1>3. ASSUME RequestRefundCheck(p) PROVE Core'
  <2>1. LocalOK(p)'
    BY <1>3, Moved DEF RequestRefundCheck, Core, LocalsOK, LocalOK, gateway
  <2>2. QED BY <1>3, <2>1, OnlyMoves DEF RequestRefundCheck, gateway
<1>4. ASSUME RequestCancellationCheck(p) PROVE Core'
  <2>1. LocalOK(p)'
    BY <1>4, Moved DEF RequestCancellationCheck, Core, LocalsOK, LocalOK, gateway, tables
  <2>2. QED BY <1>4, <2>1, OnlyMoves DEF RequestCancellationCheck, gateway
<1>5. ASSUME RequestRefundInsert(p) PROVE Core'
  <2>1. loc[p].s \in Subs /\ SettledIn(loc[p].s, sent)
    BY <1>5 DEF RequestRefundInsert, Core, LocalsOK, LocalOK
  <2>2. Grows
    BY <1>5, NewRefundGrows DEF RequestRefundInsert, gateway, Core
  <2>3. RefundsOK'
    BY <1>5, <2>1 DEF RequestRefundInsert, gateway, Core, RefundsOK, TypeOK, Refunds, Requested
  <2>4. QED
    BY <1>5, <2>2, <2>3, LocalsFinished, RowsKept, CancelsKept DEF RequestRefundInsert, Core
<1>6. ASSUME RequestCancellationInsert(p) PROVE Core'
  <2>1. loc[p].s \in Subs /\ Backed(loc[p].s, sent, granted)
    BY <1>6 DEF RequestCancellationInsert, Core, LocalsOK, LocalOK
  <2>2. Grows
    BY <1>6, SameGrows DEF RequestCancellationInsert, gateway
  <2>3. CancelsOK'
    BY <1>6, <2>1 DEF RequestCancellationInsert, gateway, Core, CancelsOK, TypeOK, Cancels
  <2>4. QED
    BY <1>6, <2>2, <2>3, LocalsFinished, RowsKept, RefundsKept DEF RequestCancellationInsert, Core
<1>7. QED BY <1>1, <1>2, <1>3, <1>4, <1>5, <1>6 DEF UserStep

\* The steps of the admins keep Core.
LEMMA AdminCore ==
  ASSUME TypeOK, TypeOK', Core, NEW p \in Handlers, AdminStep(p)
  PROVE  Core'
<1> USE DEF HoldsRow, NeedsBacked, Reviewing
<1>1. ASSUME NEW r \in Refunds, NEW d \in {"approve", "reject"}, ReviewRefund(p, r, d)
      PROVE Core'
  <2>1. refund[r].on \in Subs /\ refund[r].st \in Requested
    BY <1>1 DEF ReviewRefund, Core, RefundsOK, Requested
  <2>2. LocalOK(p)'
    BY <1>1, <2>1, Moved DEF ReviewRefund, LocalOK, tables
  <2>3. QED BY <1>1, <2>2, OnlyMoves DEF ReviewRefund, gateway
<1>2. ASSUME Approve(p) PROVE Core'
  <2> DEFINE s == loc[p].s
             new == [sub[s] EXCEPT !.st = "canceled", !.pay = "refunded", !.end = now]
  <2>1. /\ s \in Subs /\ loc[p].id \in Refunds
        /\ refund[loc[p].id].on = s /\ refund[loc[p].id].st \in Requested
    BY <1>2 DEF Approve, Core, LocalsOK, LocalOK
  <2>2. RowOK(s, new, now, sent, granted)
    BY <2>1, RefundedRow DEF TypeOK
  <2>3. pc'[p] = "approveCommit" /\ loc'[p] = [loc[p] EXCEPT !.row = new]
    BY <1>2, Moved DEF Approve
  <2>4. loc'[p].s = s /\ loc'[p].id = loc[p].id /\ loc'[p].row = new
    BY <2>3 DEF TypeOK, Local
  <2>5. LocalOK(p)'
    BY <1>2, <2>1, <2>2, <2>3, <2>4 DEF Approve, LocalOK, tables, gateway
  <2>6. QED BY <1>2, <2>5, OnlyMoves DEF Approve, gateway
<1>3. ASSUME ApproveCommit(p) PROVE Core'
  <2> DEFINE s == loc[p].s
             r == loc[p].id
  <2>1. /\ s \in Subs /\ r \in Refunds
        /\ refund[r].on = s /\ refund[r].st \in Requested
        /\ RowOK(s, loc[p].row, now, sent, granted)
    BY <1>3 DEF ApproveCommit, Core, LocalsOK, LocalOK
  <2>2. Grows
    BY <1>3, <2>1, DecidedRefundGrows DEF ApproveCommit, gateway
  <2>3. (\A t \in Subs : t # s => sub'[t] = sub[t]) /\ sub'[s] = loc[p].row
    BY <1>3, <2>1 DEF ApproveCommit, TypeOK
  <2>4. refund'[r].on = s /\ refund'[r].st = "approved"
    BY <1>3, <2>1 DEF ApproveCommit, TypeOK, RefundRow
  <2>5. RecordOK(s, sub'[s], refund')
    BY <2>1, <2>4 DEF RecordOK, Decided
  <2>6. RowsOK'
    BY <1>3, <2>1, <2>2, <2>3, <2>5, RowsWritten DEF ApproveCommit, Core, gateway
  <2>7. RefundsOK'
    BY <1>3, <2>1 DEF ApproveCommit, gateway, Core, RefundsOK, TypeOK, RefundRow, Requested
  <2>8. QED
    BY <1>3, <2>2, <2>6, <2>7, LocalsFinished, CancelsKept DEF ApproveCommit, Core
<1>4. ASSUME Reject(p) PROVE Core'
  <2> DEFINE r == loc[p].id
  <2>1. r \in Refunds /\ refund[r].st \in Requested
    BY <1>4 DEF Reject, Core, LocalsOK, LocalOK
  <2>2. Grows
    BY <1>4, <2>1, DecidedRefundGrows DEF Reject, gateway
  <2>3. RefundsOK'
    BY <1>4, <2>1 DEF Reject, gateway, Core, RefundsOK, TypeOK, RefundRow, Requested
  <2>4. QED
    BY <1>4, <2>2, <2>3, LocalsFinished, RowsKept, CancelsKept DEF Reject, Core
<1>5. ASSUME NEW s \in Subs, AdminRefund(p, s) PROVE Core'
  <2>1. LocalOK(p)'
    BY <1>5, RowRead, Moved DEF AdminRefund, LocalOK, Local1, tables, gateway
  <2>2. QED BY <1>5, <2>1, OnlyMoves DEF AdminRefund, gateway
<1>6. ASSUME AdminRefundCommit(p) PROVE Core'
  <2> DEFINE s == loc[p].s
             new == [loc[p].row EXCEPT !.st = "canceled", !.pay = "refunded", !.end = now]
  <2>1. s \in Subs
    BY <1>6 DEF AdminRefundCommit, Core, LocalsOK, LocalOK
  <2>2. RowOK(s, new, now, sent, granted)
    BY RefundedRow DEF TypeOK, Local
  <2>3. Grows
    BY <1>6, NewRefundGrows DEF AdminRefundCommit, gateway, Core
  <2>4. (\A t \in Subs : t # s => sub'[t] = sub[t]) /\ sub'[s] = new
    BY <1>6, <2>1 DEF AdminRefundCommit, TypeOK
  <2>5. nref + 1 \in Refunds /\ refund'[nref + 1] = [st |-> "processed", on |-> s]
    BY <1>6 DEF AdminRefundCommit, TypeOK, Refunds
  <2>6. RecordOK(s, sub'[s], refund')
    BY <2>5 DEF RecordOK, Decided
  <2>7. RowsOK'
    BY <1>6, <2>1, <2>2, <2>3, <2>4, <2>6, RowsWritten DEF AdminRefundCommit, Core, gateway
  <2>8. RefundsOK'
    BY <1>6, <2>1, <2>5 DEF AdminRefundCommit, gateway, Core, RefundsOK, TypeOK, Refunds, Requested
  <2>9. QED
    BY <1>6, <2>3, <2>7, <2>8, LocalsFinished, CancelsKept DEF AdminRefundCommit, Core
<1>7. ASSUME NEW s \in 0 .. MaxSub, Upgrade(p, s) PROVE Core'
  <2>1. CASE s = 0
    <3>1. pc'[p] = "upgrade" /\ loc'[p].s = 0
      BY <1>7, <2>1, Moved DEF Upgrade, NoLocal
    <3>2. LocalOK(p)'
      BY <3>1 DEF LocalOK
    <3>3. QED BY <1>7, <3>2, OnlyMoves DEF Upgrade, gateway
  <2>2. CASE s # 0
    <3>1. s \in Subs /\ sub[s].st = "active"
      BY <1>7, <2>2 DEF Upgrade, Subs
    <3>2. Backed(s, sent, granted)
      BY <3>1, RowRead DEF RowOK
    <3>3. pc'[p] = "upgrade" /\ loc'[p] = Local1(s, sub[s])
      BY <1>7, <2>2, Moved DEF Upgrade
    <3>4. LocalOK(p)'
      BY <1>7, <3>1, <3>2, <3>3, RowRead DEF Upgrade, LocalOK, Local1, tables, gateway
    <3>5. QED BY <1>7, <3>4, OnlyMoves DEF Upgrade, gateway
  <2>3. QED BY <2>1, <2>2
<1>8. ASSUME NEW len \in Periods, UpgradeCommit(p, len) PROVE Core'
  <2> DEFINE new == nsub + 1
             old == loc[p].s
  <2>1. Grows
    BY <1>8 DEF UpgradeCommit, Grows, TypeOK, gateway
  <2>2. new \in Subs
    BY <1>8 DEF UpgradeCommit, TypeOK, Subs
  <2>3. /\ sub'[new] = [st |-> "active", pay |-> "paid",
                        start |-> now, end |-> now + len, len |-> len]
        /\ Backed(new, sent', granted')
    BY <1>8, <2>2 DEF UpgradeCommit, Backed
  <2>4. RowOK(new, sub'[new], now', sent', granted') /\ RecordOK(new, sub'[new], refund')
    BY <1>8, <2>3, BillingAssumption DEF UpgradeCommit, RowOK, RecordOK, TypeOK
  <2>5. ASSUME NEW t \in Subs, t # new, t = old
        PROVE  RowOK(t, sub'[t], now', sent', granted') /\ RecordOK(t, sub'[t], refund')
    <3> DEFINE row == [loc[p].row EXCEPT !.st = "canceled"]
    <3>1. /\ RowOK(t, loc[p].row, now, sent, granted)
          /\ RecordOK(t, loc[p].row, refund) /\ Backed(t, sent, granted)
      BY <1>8, <2>5 DEF UpgradeCommit, Core, LocalsOK, LocalOK, Subs
    <3>2. loc[p].row \in SubRow
      BY DEF TypeOK, Local
    <3>3. row \in SubRow
      BY <3>2 DEF SubRow, SubStatus
    <3>4. RowOK(t, row, now, sent, granted) /\ RecordOK(t, row, refund)
      BY <3>1, <3>2, CanceledRow
    <3>5. sub'[t] = row
      BY <1>8, <2>5 DEF UpgradeCommit
    <3>6. QED BY <2>1, <3>3, <3>4, <3>5, RowKept, RecordKept
  <2>6. ASSUME NEW t \in Subs, t # new, t # old
        PROVE  RowOK(t, sub'[t], now', sent', granted') /\ RecordOK(t, sub'[t], refund')
    <3>1. sub'[t] = sub[t]
      BY <1>8, <2>6 DEF UpgradeCommit
    <3>2. QED BY <2>1, <3>1, RowRead, RowKept, RecordKept DEF TypeOK
  <2>7. RowsOK'
    BY <2>4, <2>5, <2>6 DEF RowsOK
  <2>8. QED
    BY <1>8, <2>1, <2>7, LocalsFinished, RefundsKept, CancelsKept DEF UpgradeCommit, Core
<1>9. ASSUME NEW c \in Cancels, NEW a \in {"approved", "rejected"}, ProcessCancellation(p, c, a)
      PROVE Core'
  <2> DEFINE s == cancel[c].on
  <2>1. s \in Subs /\ Backed(s, sent, granted) /\ c <= ncan /\ ncan' = ncan
    BY <1>9 DEF tables, ProcessCancellation, Core, CancelsOK
  <2>2. LocalOK(p)'
    <3>1. CASE Goto(p, "processSub", [s |-> s, row |-> sub[s], id |-> c, act |-> a])
      <4>1. pc'[p] = "processSub" /\ loc'[p] = [s |-> s, row |-> sub[s], id |-> c, act |-> a]
        BY <3>1, Moved
      <4>2. QED
        BY <1>9, <2>1, <4>1, RowRead DEF ProcessCancellation, LocalOK, tables, gateway
    <3>2. CASE Goto(p, "processMark", [s |-> s, row |-> NoRow, id |-> c, act |-> a])
      <4>1. pc'[p] = "processMark" /\ loc'[p] = [s |-> s, row |-> NoRow, id |-> c, act |-> a]
        BY <3>2, Moved
      <4>2. QED BY <2>1, <4>1 DEF LocalOK
    <3>3. QED BY <1>9, <3>1, <3>2 DEF ProcessCancellation
  <2>3. \E point, l : Goto(p, point, l)
    BY <1>9 DEF ProcessCancellation
  <2>4. QED BY <1>9, <2>2, <2>3, OnlyMoves DEF ProcessCancellation, gateway
<1>10. ASSUME ProcessCancellationSub(p) PROVE Core'
  <2> DEFINE s == loc[p].s
             new == [loc[p].row EXCEPT !.st = "canceled"]
  <2>1. /\ s \in Subs /\ RowOK(s, loc[p].row, now, sent, granted)
        /\ RecordOK(s, loc[p].row, refund) /\ Backed(s, sent, granted)
        /\ loc[p].id \in Cancels /\ loc[p].id <= ncan /\ loc[p].act \in {"approved", "rejected"}
    BY <1>10 DEF ProcessCancellationSub, Core, LocalsOK, LocalOK
  <2>2. RowOK(s, new, now, sent, granted) /\ RecordOK(s, new, refund)
    BY <2>1, CanceledRow DEF TypeOK, Local
  <2>3. Grows
    BY <1>10, SameGrows DEF ProcessCancellationSub, gateway
  <2>4. (\A t \in Subs : t # s => sub'[t] = sub[t]) /\ sub'[s] = new
    BY <1>10, <2>1 DEF ProcessCancellationSub, TypeOK
  <2>5. RowsOK'
    BY <1>10, <2>1, <2>2, <2>3, <2>4, RowsWritten DEF ProcessCancellationSub, Core, gateway
  <2>6. pc'[p] = "processMark" /\ loc'[p] = [loc[p] EXCEPT !.row = NoRow]
    BY <1>10, Moved DEF ProcessCancellationSub
  <2>7. loc'[p].s = s /\ loc'[p].id = loc[p].id /\ loc'[p].act = loc[p].act
    BY <2>6 DEF TypeOK, Local
  <2>8. LocalOK(p)'
    BY <1>10, <2>1, <2>6, <2>7 DEF ProcessCancellationSub, LocalOK
  <2>9. LocalsOK'
    BY <1>10, <2>3, <2>8, LocalsMoved DEF ProcessCancellationSub, Core
  <2>10. QED
    BY <1>10, <2>3, <2>5, <2>9, RefundsKept, CancelsKept DEF ProcessCancellationSub, Core
<1>11. ASSUME ProcessCancellationMark(p) PROVE Core'
  <2> DEFINE c == loc[p].id
  <2>1. c \in Cancels /\ loc[p].act \in {"approved", "rejected"}
    BY <1>11 DEF ProcessCancellationMark, Core, LocalsOK, LocalOK
  <2>2. Grows
    BY <1>11, SameGrows DEF ProcessCancellationMark, gateway
  <2>3. \A d \in Cancels : /\ cancel'[d].on = cancel[d].on
                            /\ cancel'[d].st # "none" => cancel[d].st # "none" \/ d = c
    BY <1>11, <2>1 DEF ProcessCancellationMark, TypeOK, CancelRow
  <2>4. c <= ncan
    BY <1>11 DEF ProcessCancellationMark, Core, LocalsOK, LocalOK
  <2>5. CancelsOK'
    BY <1>11, <2>3, <2>4 DEF ProcessCancellationMark, gateway, Core, CancelsOK
  <2>6. QED
    BY <1>11, <2>2, <2>5, LocalsFinished, RowsKept, RefundsKept DEF ProcessCancellationMark, Core
<1>12. QED
  BY <1>1, <1>2, <1>3, <1>4, <1>5, <1>6, <1>7, <1>8, <1>9, <1>10, <1>11 DEF AdminStep

\* The clock and the gateway keep the types.
LEMMA EnvironmentType ==
  ASSUME TypeOK, Tick \/ \E s \in Subs : GatewayDeny(s) \/ GatewaySettle(s)
  PROVE  TypeOK'
<1>1. CASE Tick
  BY <1>1 DEF Tick, TypeOK, tables, gateway
<1>2. ASSUME NEW s \in Subs, GatewayDeny(s) PROVE TypeOK'
  <2>1. [order |-> s, kind |-> "expire"] \in Notice
    BY DEF Notice
  <2>2. order' \in [Subs -> OrderState]
    BY <1>2 DEF GatewayDeny, TypeOK, OrderState
  <2>3. QED BY <1>2, <2>1, <2>2 DEF GatewayDeny, TypeOK, tables
<1>3. ASSUME NEW s \in Subs, GatewaySettle(s) PROVE TypeOK'
  <2>1. [order |-> s, kind |-> "settlement"] \in Notice
    BY DEF Notice
  <2>2. order' \in [Subs -> OrderState]
    BY <1>3 DEF GatewaySettle, TypeOK, OrderState
  <2>3. QED BY <1>3, <2>1, <2>2 DEF GatewaySettle, TypeOK, tables
<1>4. QED BY <1>1, <1>2, <1>3

-----------------------------------------------------------------------------
(* The invariant *)

\* The tables begin with all parts of IInv.
LEMMA InitIInv == Init => IInv
<1> SUFFICES ASSUME Init PROVE IInv
  OBVIOUS
<1>1. TypeOK
  BY LocalTypes, BillingAssumption
    DEF Init, TypeOK, RefundRow, RefundStatus, CancelRow, CancelStatus, PC, OrderState
<1>2. RowsOK
  BY DEF Init, RowsOK, RowOK, RecordOK, NoRow
<1>3. RefundsOK /\ CancelsOK
  BY DEF Init, RefundsOK, CancelsOK, Cancels, Requested
<1>4. LocalsOK
  BY DEF Init, LocalsOK, LocalOK, HoldsRow, NeedsBacked, Reviewing
<1>5. QED BY <1>1, <1>2, <1>3, <1>4 DEF IInv

\* Every step keeps all parts of IInv together.
LEMMA NextIInv == IInv /\ [Next]_vars => IInv'
<1> SUFFICES ASSUME TypeOK, Core, [Next]_vars PROVE TypeOK' /\ Core'
  BY DEF IInv, Core
<1>1. CASE Tick
  <2>1. TypeOK'
    BY <1>1, EnvironmentType
  <2>2. QED BY <1>1, <2>1, EnvironmentCore DEF Tick, gateway, TypeOK
<1>2. ASSUME NEW s \in Subs, GatewayDeny(s) \/ GatewaySettle(s) PROVE TypeOK' /\ Core'
  <2>1. TypeOK'
    BY <1>2, EnvironmentType
  <2>2. QED BY <1>2, <2>1, EnvironmentCore DEF GatewayDeny, GatewaySettle, TypeOK
<1>3. ASSUME NEW p \in Handlers, PaymentStep(p) PROVE TypeOK' /\ Core'
  BY <1>3, PaymentType, PaymentCore
<1>4. ASSUME NEW p \in Handlers, UserStep(p) PROVE TypeOK' /\ Core'
  BY <1>4, UserType, UserCore
<1>5. ASSUME NEW p \in Handlers, AdminStep(p) PROVE TypeOK' /\ Core'
  BY <1>5, AdminType, AdminCore DEF Core
<1>6. ASSUME NEW p \in Handlers, Return(p) PROVE TypeOK' /\ Core'
  <2>1. pc' \in [Handlers -> PC] /\ loc' \in [Handlers -> Local]
    BY <1>6, FinishType DEF Return, TypeOK
  <2>2. TypeOK'
    BY <1>6, <2>1 DEF Return, TypeOK, tables, gateway
  <2>3. QED BY <1>6, <2>2, OnlyReturns DEF Return, gateway
<1>7. CASE UNCHANGED vars
  <2>1. TypeOK'
    BY <1>7 DEF vars, TypeOK, tables, gateway
  <2>2. QED BY <1>7, <2>1, EnvironmentCore DEF vars, gateway, TypeOK
<1>8. QED BY <1>1, <1>2, <1>3, <1>4, <1>5, <1>6, <1>7 DEF Next

\* Every reachable state satisfies the strengthened invariant: the rows and
\* every copy of a row a handler still holds are backed, recorded and bounded.
THEOREM Invariant == Spec => []IInv
BY InitIInv, NextIInv, PTL DEF Spec

-----------------------------------------------------------------------------
(* The properties the runs check *)

\* The tables, the gateway and the handlers' locals keep their types: no step
\* writes a status outside the entities' enumerations.
THEOREM TypeCorrect == Spec => []TypeOK
<1>1. IInv => TypeOK
  BY DEF IInv
<1>2. QED BY <1>1, Invariant, PTL

\* A row is marked paid only if the gateway reported its order settled, however
\* many handlers write stale copies of it back.
THEOREM PaidRowsAreSettled == Spec => []PaidMeansSettled
<1>1. IInv => PaidMeansSettled
  BY DEF IInv, RowsOK, RowOK, PaidMeansSettled, Settled, SettledIn
<1>2. QED BY <1>1, Invariant, PTL

\* Every row that gives a plan's limits was settled at the gateway or created by
\* an admin.
THEOREM AccessIsPaidOrGranted == Spec => []NoFreeAccess
<1>1. IInv => NoFreeAccess
  <2> SUFFICES ASSUME IInv, NEW s \in Subs, HasPlan(sub, {s}, now)
               PROVE  Settled(s) \/ s \in granted
    BY DEF NoFreeAccess
  <2>1. sub[s].end > now /\ (sub[s].st \in {"active", "canceled"} \/ sub[s].pay = "success")
    BY DEF HasPlan, Entitling, InPeriod
  <2>2. RowOK(s, sub[s], now, sent, granted) /\ sub[s] \in SubRow /\ now \in Nat
    BY DEF IInv, RowsOK, TypeOK
  <2>3. QED BY <2>1, <2>2 DEF RowOK, Backed, SettledIn, Settled, SubRow
<1>2. QED BY <1>1, Invariant, PTL

\* No interleaving of handlers makes a subscription last beyond its purchase.
THEOREM NeverBeyondPurchase == Spec => []WithinPurchase
<1>1. IInv => WithinPurchase
  BY DEF IInv, RowsOK, RowOK, WithinPurchase
<1>2. QED BY <1>1, Invariant, PTL

\* A row marked refunded has a decided refund record.
THEOREM RefundedRowsHaveRecords == Spec => []RefundedHasRecord
<1>1. IInv => RefundedHasRecord
  BY DEF IInv, RowsOK, RecordOK, RefundedHasRecord, Decided
<1>2. QED BY <1>1, Invariant, PTL

\* A refund a user asked for is about an order the gateway settled.
THEOREM RefundsAreOfSettledOrders == Spec => []RefundNeedsSettled
<1>1. IInv => RefundNeedsSettled
  BY DEF IInv, RefundsOK, RefundNeedsSettled, Requested, Settled, SettledIn
<1>2. QED BY <1>1, Invariant, PTL

\* The scan of a table, newest row first, stops at one of the rows it accepts.
LEMMA NewestIsMember ==
  ASSUME NEW S, S \subseteq Subs, S # {}
  PROVE  Newest(S) \in S
<1> DEFINE T == {MaxSub - i : i \in S}
<1>1. T \subseteq Nat /\ T # {}
  <2>1. ASSUME NEW i \in S PROVE MaxSub - i \in Nat
    BY BillingAssumption DEF Subs
  <2>2. QED BY <2>1, Zenon
<1>2. PICK x \in T : \A y \in T : ~ (<<y, x>> \in OpToRel(<, Nat))
  BY <1>1, NatLessThanWellFounded, WFMin
<1>3. ASSUME NEW y \in T PROVE x <= y
  <2>1. x \in Nat /\ y \in Nat
    BY <1>1
  <2>2. y < x => <<y, x>> \in OpToRel(<, Nat)
    BY <2>1, Zenon DEF OpToRel
  <2>3. ~ (y < x)
    BY <1>2, <2>2, Zenon
  <2>4. QED BY <2>1, <2>3
<1>4. PICK i \in S : x = MaxSub - i
  OBVIOUS
<1>5. ASSUME NEW j \in S PROVE j <= i
  <2>1. i \in Nat /\ j \in Nat
    BY DEF Subs
  <2>2. MaxSub - i <= MaxSub - j
    BY <1>3, <1>4
  <2>3. QED BY <2>1, <2>2, BillingAssumption
<1>6. QED BY <1>5 DEF Newest

\* Whenever GetSubscriptionStatus shows a plan as active or ValidateSubscription
\* calls the rows valid, getUserPlan and the RAG access verifier find a plan.
THEOREM ShownPlansCount == Spec => []ShownImpliesPlan
<1>1. ShownImpliesPlan
  <2> DEFINE present == {s \in Subs : Exists(s)}
             V       == Validating(sub, present, now)
  <2>1. ASSUME ShownActive(sub, present, now) PROVE HasPlan(sub, present, now)
    BY <2>1 DEF ShownActive, StatusRows, HasPlan, Entitling
  <2>2. ASSUME IsValid(sub, present, now) PROVE HasPlan(sub, present, now)
    <3>1. V # {} /\ InPeriod(sub[Newest(V)], now)
      BY <2>2 DEF IsValid, Validation
    <3>2. V \subseteq present /\ V \subseteq Subs
      BY DEF Validating
    <3>3. Newest(V) \in V
      BY <3>1, <3>2, NewestIsMember
    <3>4. Newest(V) \in Entitling(sub, present, now)
      BY <3>1, <3>2, <3>3 DEF Validating, Entitling
    <3>5. QED BY <3>4 DEF HasPlan
  <2>3. QED BY <2>1, <2>2 DEF ShownImpliesPlan
<1>2. QED BY <1>1, PTL

-----------------------------------------------------------------------------
(***************************************************************************)
(* What holds of Billing while requests come one at a time, for any number *)
(* of rows, notifications and requests: a refund ends access for good, a   *)
(* cancellation keeps its effective date, and the refund tables implement  *)
(* RefundWorkflow.  The copy a handler holds then has the end of the row   *)
(* it was read from, and what it has tested of the refunds still holds.    *)
(***************************************************************************)

\* At most one request is in progress.
Serial == \A p, q \in Handlers : p = q

\* Where a handler holds a row as it was read, as to its end.
Copying == {"webhook", "cancelNow", "adminRefund", "processSub", "upgrade",
            "cancelCheck", "cancelInsert"}

\* Rows that are referred to exist.
Bounded ==
  /\ \A s \in Subs : Exists(s) => s <= nsub
  /\ \A r \in Refunds : refund[r].st # "none" => refund[r].on \in 1 .. nsub
  /\ \A c \in Cancels : cancel[c].st # "none" => cancel[c].on \in 1 .. nsub

Cut == \A s \in Subs : GivenBack(s) => sub[s].end <= now

HeldAt(c, l) ==
  /\ c # "idle" /\ l.s # 0 => l.s <= nsub
  /\ c \in Copying /\ l.s # 0 => l.row.end = sub[l.s].end
  /\ c = "approveCommit" => l.row.end <= now
  /\ c \in Reviewing => refund[l.id].st = "pending"
  /\ c = "refundInsert" => ~LiveRefund(l.s)
  /\ c \in {"processSub", "processMark"} => cancel[l.id].st # "none"

Held == \A p \in Handlers : HeldAt(pc[p], loc[p])

Facts == Bounded /\ Cut /\ EffectiveDateKept
SInv  == Facts /\ Held

-----------------------------------------------------------------------------
(* Kinds of steps *)

\* Facts about the tables outlast what leaves ends, refunds and cancellations alone.
LEMMA FactsKept ==
  ASSUME TypeOK, TypeOK', Facts, UNCHANGED <<refund, now>>, nsub <= nsub',
         \A s \in Subs : s <= nsub => sub'[s].end = sub[s].end,
         \A s \in Subs : Exists(s)' => s <= nsub',
         \A c \in Cancels : cancel'[c].st # "none" =>
            /\ cancel'[c].on \in 1 .. nsub
            /\ \/ cancel[c].st # "none" /\ cancel'[c].on = cancel[c].on
                    /\ cancel'[c].eff = cancel[c].eff
               \/ sub[cancel'[c].on].end = cancel'[c].eff
  PROVE  Facts'
<1>0. nsub \in Nat /\ nsub' \in Nat /\ nsub <= MaxSub
  BY DEF TypeOK
<1>1. Bounded'
  BY <1>0 DEF Facts, Bounded
<1>2. \A s \in Subs : GivenBack(s)' = GivenBack(s) /\ (GivenBack(s) => s <= nsub)
  BY DEF GivenBack, Facts, Bounded
<1>3. Cut'
  BY <1>2 DEF Cut, Facts
<1>4. EffectiveDateKept'
  <2> SUFFICES ASSUME NEW c \in Cancels, cancel'[c].st # "none", ~GivenBack(cancel[c].on)'
               PROVE  sub'[cancel'[c].on].end = cancel'[c].eff
    BY DEF EffectiveDateKept
  <2>1. PICK s : s = cancel'[c].on
    OBVIOUS
  <2>2. s \in Subs /\ s <= nsub
    BY <1>0, <2>1, BillingAssumption DEF Subs
  <2>3. ~GivenBack(s)
    BY <1>2, <2>1, <2>2 DEF GivenBack
  <2>4. sub[s].end = cancel'[c].eff
    BY <2>1, <2>3 DEF Facts, EffectiveDateKept
  <2> QED
    BY <2>1, <2>2, <2>4
<1> QED
  BY <1>1, <1>3, <1>4 DEF Facts

\* And a refund decided or recorded about row x, whose end is cut with it.
LEMMA FactsCut ==
  ASSUME TypeOK, TypeOK', Facts, UNCHANGED <<now, nsub, cancel>>, NEW x \in Subs, x <= nsub,
         sub'[x].end <= now, \A s \in Subs : s # x => sub'[s] = sub[s],
         \A r \in Refunds :
           refund'[r] = refund[r] \/ (refund'[r].on = x /\ refund[r].st \in {"none", "pending"}),
         \E r \in Refunds : refund'[r].on = x /\ refund'[r].st \in {"approved", "processed"}
  PROVE  Facts'
<1>0. nsub \in Nat
  BY DEF TypeOK
<1>1. Bounded'
  BY <1>0 DEF Facts, Bounded, Exists, Subs
<1>2. GivenBack(x)' /\ \A s \in Subs : s # x => GivenBack(s)' = GivenBack(s)
  <2>1. GivenBack(x)'
    BY DEF GivenBack
  <2>2. ASSUME NEW s \in Subs, s # x, GivenBack(s)' PROVE GivenBack(s)
    BY <2>2 DEF GivenBack
  <2>3. ASSUME NEW s \in Subs, s # x, GivenBack(s) PROVE GivenBack(s)'
    BY <2>3 DEF GivenBack
  <2> QED
    BY <2>1, <2>2, <2>3 DEF GivenBack
<1>3. Cut'
  BY <1>2 DEF Cut, Facts
<1>4. EffectiveDateKept'
  <2> SUFFICES ASSUME NEW c \in Cancels, cancel[c].st # "none", ~GivenBack(cancel[c].on)'
               PROVE  sub'[cancel[c].on].end = cancel[c].eff
    BY DEF EffectiveDateKept
  <2>1. PICK s : s = cancel[c].on
    OBVIOUS
  <2>2. s \in Subs
    BY <1>0, <2>1, BillingAssumption DEF Facts, Bounded, TypeOK, Subs
  <2>3. s # x
    BY <1>2, <2>1 DEF GivenBack
  <2>4. ~GivenBack(s)
    BY <1>2, <2>1, <2>2, <2>3 DEF GivenBack
  <2> QED
    BY <2>1, <2>2, <2>3, <2>4 DEF Facts, EffectiveDateKept
<1> QED
  BY <1>1, <1>3, <1>4 DEF Facts

\* The one handler goes on.
LEMMA OneMoves ==
  ASSUME Serial, TypeOK, NEW p \in Handlers, NEW c, NEW l, Goto(p, c, l), HeldAt(c, l)'
  PROVE  Held'
BY DEF Serial, TypeOK, Goto, Held

\* When the one handler ends, nobody holds anything.
LEMMA OneFinishes ==
  ASSUME Serial, TypeOK, NEW p \in Handlers, Finish(p)
  PROVE  Held'
BY DEF Serial, TypeOK, Finish, Goto, Held, HeldAt, Copying, Reviewing

\* A handler that only reads.
LEMMA OneReads ==
  ASSUME Serial, TypeOK, SInv, UNCHANGED <<now, tables>>, NEW p \in Handlers, NEW c, NEW l,
         Goto(p, c, l), HeldAt(c, l)
  PROVE  SInv'
<1>1. Held'
  BY OneMoves DEF HeldAt, LiveRefund, tables
<1>2. Facts'
  BY DEF SInv, Facts, Bounded, Cut, EffectiveDateKept, GivenBack, Exists, tables
<1> QED
  BY <1>1, <1>2 DEF SInv

\* The clock and the gateway.
LEMMA NobodyMoves ==
  ASSUME TypeOK, TypeOK', SInv, UNCHANGED <<tables, pc, loc>>, now' >= now
  PROVE  SInv'
<1>1. /\ \A s \in Subs : sub[s].end \in Nat
      /\ \A p \in Handlers : loc[p].row.end \in Nat
      /\ now \in Nat /\ now' \in Nat
  BY DEF TypeOK, SubRow, Local
<1>2. Held'
  BY <1>1 DEF SInv, Held, HeldAt, LiveRefund, tables
<1>3. Facts'
  BY <1>1 DEF SInv, Facts, Bounded, Cut, EffectiveDateKept, GivenBack, Exists, tables
<1> QED
  BY <1>2, <1>3 DEF SInv

-----------------------------------------------------------------------------
(* Steps *)

\* The steps of the payment service, one request at a time, keep SInv.
LEMMA PaymentSerial ==
  ASSUME Serial, IInv, TypeOK', SInv, NEW p \in Handlers, PaymentStep(p)
  PROVE  SInv'
<1> USE DEF Copying, Reviewing
<1>0. TypeOK /\ Facts /\ Held /\ nsub \in Nat
  BY DEF IInv, SInv, TypeOK
<1>1. ASSUME NEW len \in Periods, Checkout(p, len) PROVE SInv'
  <2>1. /\ nsub' = nsub + 1 /\ \A s \in Subs : s # nsub + 1 => sub'[s] = sub[s]
        /\ UNCHANGED <<refund, cancel, now>> /\ Goto(p, "snap", Local1(nsub + 1, NoRow))
    BY <1>0, <1>1 DEF Checkout, TypeOK
  <2>2. Facts'
    <3>1. \A s \in Subs : Exists(s)' => s <= nsub'
      BY <1>0, <2>1 DEF Facts, Bounded, Exists, Subs
    <3>2. \A s \in Subs : s <= nsub => sub'[s].end = sub[s].end
      BY <1>0, <2>1 DEF Subs
    <3>3. \A c \in Cancels : cancel[c].st # "none" => cancel[c].on \in 1 .. nsub
      BY <1>0 DEF Facts, Bounded
    <3> QED
      BY <1>0, <2>1, <3>1, <3>2, <3>3, FactsKept
  <2>3. Held'
    BY <1>0, <2>1, OneMoves DEF HeldAt, Local1
  <2> QED
    BY <2>2, <2>3 DEF SInv
<1>2. CASE CheckoutSnap(p)
  BY <1>0, <1>2, OneReads DEF CheckoutSnap, Finish, HeldAt
<1>3. ASSUME NEW n \in sent, Webhook(p, n) PROVE SInv'
  <2>1. n.order \in Subs /\ n.order <= nsub
    BY <1>0, <1>3 DEF Webhook, TypeOK, Notice, Facts, Bounded
  <2>2. WebhookRow(sub[n.order], n.kind).end = sub[n.order].end
    BY <1>0, <2>1 DEF WebhookRow, TypeOK, SubRow
  <2> QED
    BY <1>0, <1>3, <2>1, <2>2, OneReads DEF Webhook, HeldAt, Local1
<1>4. ASSUME NEW s \in Subs, CancelSubscription(p, s) PROVE SInv'
  <2>1. s <= nsub
    BY <1>0, <1>4 DEF CancelSubscription, Facts, Bounded, Exists
  <2>2. [sub[s] EXCEPT !.st = "canceled"].end = sub[s].end
    BY <1>0 DEF TypeOK, SubRow
  <2> QED
    BY <1>0, <1>4, <2>1, <2>2, OneReads DEF CancelSubscription, HeldAt, Local1
<1>5. CASE SaveRow(p)
  <2>1. loc[p].s \in Subs /\ HeldAt(pc[p], loc[p]) /\ pc[p] \in {"webhook", "cancelNow"}
    BY <1>0, <1>5 DEF SaveRow, IInv, LocalsOK, LocalOK, Held
  <2>2. loc[p].s <= nsub /\ loc[p].row.end = sub[loc[p].s].end
    BY <2>1 DEF HeldAt, Subs
  <2>3. /\ sub'[loc[p].s].end = sub[loc[p].s].end
        /\ \A s \in Subs : s # loc[p].s => sub'[s] = sub[s]
        /\ UNCHANGED <<refund, cancel, now, nsub>> /\ Finish(p)
    BY <1>0, <1>5, <2>1, <2>2 DEF SaveRow, TypeOK
  <2>4. Facts'
    BY <1>0, <2>2, <2>3, FactsKept DEF Facts, Bounded, Exists
  <2> QED
    BY <1>0, <2>3, <2>4, OneFinishes DEF SInv
<1> QED
  BY <1>1, <1>2, <1>3, <1>4, <1>5 DEF PaymentStep

\* The steps of a user's requests for refund and cancellation, one at a time, keep SInv.
LEMMA UserSerial ==
  ASSUME Serial, IInv, TypeOK', SInv, NEW p \in Handlers, UserStep(p)
  PROVE  SInv'
<1> USE DEF Copying, Reviewing
<1>0. TypeOK /\ Facts /\ Held /\ nsub \in Nat
  BY DEF IInv, SInv, TypeOK
<1>1. ASSUME NEW s \in Subs, RequestRefund(p, s) \/ RequestCancellation(p, s) PROVE SInv'
  <2>1. s <= nsub
    BY <1>0, <1>1 DEF RequestRefund, RequestCancellation, Facts, Bounded, Exists
  <2> QED
    BY <1>0, <1>1, <2>1, OneReads DEF RequestRefund, RequestCancellation, HeldAt, Local1
<1>2. CASE RequestRefundCheck(p)
  BY <1>0, <1>2, OneReads DEF RequestRefundCheck, Held, HeldAt
<1>3. CASE RequestCancellationCheck(p)
  BY <1>0, <1>3, OneReads DEF RequestCancellationCheck, Held, HeldAt
<1>4. CASE RequestRefundInsert(p)
  <2>1. loc[p].s \in Subs /\ loc[p].s <= nsub
    BY <1>0, <1>4 DEF RequestRefundInsert, IInv, LocalsOK, LocalOK, Held, HeldAt, Subs
  <2>2. /\ refund'[nref + 1] = [st |-> "pending", on |-> loc[p].s] /\ nref + 1 \in Refunds
        /\ refund[nref + 1].st = "none"
        /\ \A r \in Refunds : r # nref + 1 => refund'[r] = refund[r]
        /\ UNCHANGED <<sub, nsub, cancel, now>> /\ Finish(p)
    <3>1. nref + 1 \in Refunds /\ Finish(p)
      BY <1>0, <1>4, BillingAssumption DEF RequestRefundInsert, TypeOK, Refunds
    <3>2. refund[nref + 1].st = "none"
      BY <1>0, <3>1 DEF IInv, RefundsOK, TypeOK
    <3> QED
      BY <1>0, <1>4, <3>1, <3>2 DEF RequestRefundInsert, TypeOK
  <2>3. \A s : GivenBack(s)' = GivenBack(s)
    BY <2>2 DEF GivenBack
  <2>4. Bounded'
    BY <1>0, <2>1, <2>2 DEF Facts, Bounded, Exists, Subs
  <2>5. Cut' /\ EffectiveDateKept'
    BY <1>0, <2>2, <2>3 DEF Facts, Cut, EffectiveDateKept, GivenBack
  <2> QED
    BY <1>0, <2>2, <2>4, <2>5, OneFinishes DEF SInv, Facts
<1>5. CASE RequestCancellationInsert(p)
  <2>1. loc[p].s \in Subs /\ loc[p].s <= nsub /\ loc[p].row.end = sub[loc[p].s].end
    BY <1>0, <1>5 DEF RequestCancellationInsert, IInv, LocalsOK, LocalOK, Held, HeldAt, Subs
  <2>2. /\ cancel'[ncan + 1] = [st |-> "pending", on |-> loc[p].s, eff |-> loc[p].row.end]
        /\ \A c \in Cancels : c # ncan + 1 => cancel'[c] = cancel[c]
        /\ UNCHANGED <<sub, nsub, refund, now>> /\ Finish(p)
    BY <1>0, <1>5, BillingAssumption DEF RequestCancellationInsert, TypeOK, Cancels
  <2>3. Facts'
    BY <1>0, <2>1, <2>2, FactsKept DEF Facts, Bounded, Exists, Subs
  <2> QED
    BY <1>0, <2>2, <2>3, OneFinishes DEF SInv
<1> QED
  BY <1>1, <1>2, <1>3, <1>4, <1>5 DEF UserStep

\* The steps of the admins, one at a time, keep SInv.
LEMMA AdminSerial ==
  ASSUME Serial, IInv, TypeOK', SInv, NEW p \in Handlers, AdminStep(p)
  PROVE  SInv'
<1> USE DEF Copying, Reviewing
<1>0. TypeOK /\ Facts /\ Held /\ nsub \in Nat /\ now \in Nat /\ HeldAt(pc[p], loc[p]) /\ LocalOK(p)
  BY DEF IInv, SInv, TypeOK, Held, LocalsOK
<1>1. ASSUME NEW r \in Refunds, NEW d \in {"approve", "reject"}, ReviewRefund(p, r, d) PROVE SInv'
  <2>1. refund[r].on <= nsub /\ refund[r].st = "pending"
    BY <1>0, <1>1 DEF ReviewRefund, Facts, Bounded
  <2> QED
    BY <1>0, <1>1, <2>1, OneReads DEF ReviewRefund, HeldAt
<1>2. CASE Approve(p)
  <2> DEFINE row == [sub[loc[p].s] EXCEPT !.st = "canceled", !.pay = "refunded", !.end = now]
             l   == [loc[p] EXCEPT !.row = row]
  <2>1. pc[p] = "approve" /\ loc[p].s \in Subs /\ loc[p] \in Local /\ Goto(p, "approveCommit", l)
    BY <1>0, <1>2 DEF Approve, LocalOK, TypeOK
  <2>2. row.end = now
    BY <1>0, <2>1 DEF TypeOK, SubRow
  <2> HIDE DEF row
  <2>3. l.row = row /\ l.s = loc[p].s /\ l.id = loc[p].id
    BY <2>1 DEF Local
  <2> HIDE DEF l
  <2>4. HeldAt("approveCommit", l)
    BY <1>0, <2>1, <2>2, <2>3 DEF HeldAt
  <2> QED
    BY <1>0, <1>2, <2>1, <2>4, OneReads DEF Approve
<1>3. CASE ApproveCommit(p)
  <2>1. /\ loc[p].s \in Subs /\ loc[p].s <= nsub /\ loc[p].row.end <= now
        /\ loc[p].id \in Refunds /\ refund[loc[p].id].on = loc[p].s
        /\ refund[loc[p].id].st = "pending"
    BY <1>0, <1>3 DEF ApproveCommit, LocalOK, HeldAt, Subs
  <2>2. /\ sub'[loc[p].s] = loc[p].row /\ \A s \in Subs : s # loc[p].s => sub'[s] = sub[s]
        /\ refund'[loc[p].id].on = loc[p].s /\ refund'[loc[p].id].st = "approved"
        /\ \A r \in Refunds : r # loc[p].id => refund'[r] = refund[r]
        /\ UNCHANGED <<now, nsub, cancel>> /\ Finish(p)
    BY <1>0, <1>3, <2>1 DEF ApproveCommit, TypeOK, RefundRow
  <2>3. Facts'
    BY <1>0, <2>1, <2>2, FactsCut
  <2> QED
    BY <1>0, <2>2, <2>3, OneFinishes DEF SInv
<1>4. CASE Reject(p)
  <2>1. loc[p].id \in Refunds /\ refund[loc[p].id].on \in 1 .. nsub
          /\ refund[loc[p].id].st = "pending"
    BY <1>0, <1>4 DEF Reject, LocalOK, HeldAt, Facts, Bounded
  <2>2. /\ refund'[loc[p].id].on = refund[loc[p].id].on /\ refund'[loc[p].id].st = "rejected"
        /\ \A r \in Refunds : r # loc[p].id => refund'[r] = refund[r]
        /\ UNCHANGED <<now, sub, nsub, cancel>> /\ Finish(p)
    BY <1>0, <1>4, <2>1 DEF Reject, TypeOK, RefundRow
  <2>3. \A s : GivenBack(s)' = GivenBack(s)
    BY <2>1, <2>2 DEF GivenBack
  <2>4. Bounded'
    BY <1>0, <2>1, <2>2 DEF Facts, Bounded, Exists
  <2>5. Cut' /\ EffectiveDateKept'
    BY <1>0, <2>2, <2>3 DEF Facts, Cut, EffectiveDateKept, GivenBack
  <2> QED
    BY <1>0, <2>2, <2>4, <2>5, OneFinishes DEF SInv, Facts
<1>5. ASSUME NEW s \in Subs, AdminRefund(p, s) PROVE SInv'
  <2>1. s <= nsub
    BY <1>0, <1>5 DEF AdminRefund, Facts, Bounded
  <2> QED
    BY <1>0, <1>5, <2>1, OneReads DEF AdminRefund, HeldAt, Local1
<1>6. CASE AdminRefundCommit(p)
  <2>1. loc[p].s \in Subs /\ loc[p].s <= nsub /\ loc[p].row \in SubRow
    BY <1>0, <1>6 DEF AdminRefundCommit, LocalOK, HeldAt, Subs, TypeOK, Local
  <2>2. nref + 1 \in Refunds /\ refund[nref + 1].st = "none"
    <3>1. nref + 1 \in Refunds /\ nref \in Nat
      BY <1>0, <1>6, BillingAssumption DEF AdminRefundCommit, TypeOK, Refunds
    <3> QED
      BY <1>0, <3>1 DEF IInv, RefundsOK
  <2>3. /\ sub'[loc[p].s].end = now /\ \A s \in Subs : s # loc[p].s => sub'[s] = sub[s]
        /\ UNCHANGED <<now, nsub, cancel>> /\ Finish(p)
    BY <1>0, <1>6, <2>1 DEF AdminRefundCommit, TypeOK, SubRow
  <2>4. /\ refund'[nref + 1].on = loc[p].s /\ refund'[nref + 1].st = "processed"
        /\ \A r \in Refunds : r # nref + 1 => refund'[r] = refund[r]
    BY <1>0, <1>6, <2>2 DEF AdminRefundCommit, TypeOK
  <2>5. Facts'
    <3>1. \A r \in Refunds :
            refund'[r] = refund[r]
              \/ (refund'[r].on = loc[p].s /\ refund[r].st \in {"none", "pending"})
      BY <2>2, <2>4
    <3>2. \E r \in Refunds : refund'[r].on = loc[p].s /\ refund'[r].st \in {"approved", "processed"}
      BY <2>2, <2>4
    <3> QED
      BY <1>0, <2>1, <2>3, <3>1, <3>2, FactsCut
  <2> QED
    BY <1>0, <2>3, <2>5, OneFinishes DEF SInv
<1>7. ASSUME NEW s \in 0 .. MaxSub, Upgrade(p, s) PROVE SInv'
  <2>1. CASE s = 0
    BY <1>0, <1>7, <2>1, OneReads DEF Upgrade, HeldAt, NoLocal
  <2>2. CASE s # 0
    <3>1. s \in Subs /\ s <= nsub
      BY <1>0, <1>7, <2>2, BillingAssumption DEF Upgrade, Facts, Bounded, Exists, Subs
    <3> QED
      BY <1>0, <1>7, <2>2, <3>1, OneReads DEF Upgrade, HeldAt, Local1
  <2> QED
    BY <2>1, <2>2
<1>8. ASSUME NEW len \in Periods, UpgradeCommit(p, len) PROVE SInv'
  <2>1. loc[p].s # 0 => loc[p].s \in Subs /\ loc[p].s <= nsub /\ loc[p].row.end = sub[loc[p].s].end
    BY <1>0, <1>8, BillingAssumption DEF UpgradeCommit, HeldAt, TypeOK, Local, Subs
  <2>2. /\ nsub' = nsub + 1 /\ nsub + 1 \in Subs
        /\ UNCHANGED <<now, refund, cancel>> /\ Finish(p)
    BY <1>0, <1>8, BillingAssumption DEF UpgradeCommit, TypeOK, Subs
  <2>3. \A s \in Subs : s <= nsub => sub'[s].end = sub[s].end
    <3> SUFFICES ASSUME NEW s \in Subs, s <= nsub PROVE sub'[s].end = sub[s].end
      OBVIOUS
    <3>1. s # nsub + 1 /\ s # 0
      BY <1>0 DEF Subs
    <3>2. CASE s = loc[p].s
      <4>1. sub'[s] = [loc[p].row EXCEPT !.st = "canceled"]
        BY <1>8, <3>1, <3>2 DEF UpgradeCommit
      <4>2. loc[p].row \in SubRow
        BY <1>0 DEF TypeOK, Local
      <4> QED
        BY <2>1, <3>1, <3>2, <4>1, <4>2 DEF SubRow
    <3>3. CASE s # loc[p].s
      BY <1>8, <3>1, <3>3 DEF UpgradeCommit
    <3> QED
      BY <3>2, <3>3
  <2>4. \A s \in Subs : Exists(s)' => s <= nsub'
    <3> SUFFICES ASSUME NEW s \in Subs, ~ (s <= nsub + 1)
                 PROVE  sub'[s] = sub[s] /\ sub[s].st = "none"
      BY <2>2 DEF Exists
    <3>1. s # nsub + 1 /\ s # loc[p].s /\ ~ (s <= nsub)
      BY <1>0, <2>1 DEF Subs
    <3>2. sub'[s] = sub[s]
      BY <1>8, <3>1 DEF UpgradeCommit
    <3> QED
      BY <1>0, <3>1, <3>2 DEF Facts, Bounded, Exists
  <2>5. Facts'
    <3>1. \A c \in Cancels : cancel[c].st # "none" => cancel[c].on \in 1 .. nsub
      BY <1>0 DEF Facts, Bounded
    <3> QED
      BY <1>0, <2>2, <2>3, <2>4, <3>1, FactsKept
  <2> QED
    BY <1>0, <2>2, <2>5, OneFinishes DEF SInv
<1>9. ASSUME NEW c \in Cancels, NEW a \in {"approved", "rejected"}, ProcessCancellation(p, c, a)
      PROVE  SInv'
  <2>1. cancel[c].on <= nsub /\ cancel[c].on >= 1
    BY <1>0, <1>9 DEF ProcessCancellation, Facts, Bounded
  <2> QED
    BY <1>0, <1>9, <2>1, OneReads DEF ProcessCancellation, HeldAt
<1>10. CASE ProcessCancellationSub(p)
  <2>1. /\ loc[p].s \in Subs /\ loc[p].s <= nsub /\ loc[p].row.end = sub[loc[p].s].end
        /\ loc[p].row \in SubRow /\ loc[p] \in Local
    BY <1>0, <1>10 DEF ProcessCancellationSub, LocalOK, HeldAt, Subs, TypeOK, Local
  <2>2. /\ sub'[loc[p].s].end = sub[loc[p].s].end
        /\ \A s \in Subs : s # loc[p].s => sub'[s] = sub[s]
        /\ UNCHANGED <<refund, cancel, now, nsub>>
    BY <1>0, <1>10, <2>1 DEF ProcessCancellationSub, TypeOK, SubRow
  <2>3. Facts'
    BY <1>0, <2>1, <2>2, FactsKept DEF Facts, Bounded, Exists
  <2>4. PICK l : l = [loc[p] EXCEPT !.row = NoRow]
    OBVIOUS
  <2>5. Goto(p, "processMark", l) /\ l.s = loc[p].s /\ l.id = loc[p].id
    BY <1>10, <2>1, <2>4 DEF ProcessCancellationSub, Local
  <2>6. HeldAt("processMark", l)'
    BY <1>0, <1>10, <2>1, <2>2, <2>5 DEF HeldAt, ProcessCancellationSub
  <2>7. Held'
    BY <1>0, <2>5, <2>6, OneMoves
  <2> QED
    BY <2>3, <2>7 DEF SInv
<1>11. CASE ProcessCancellationMark(p)
  <2>1. loc[p].id \in Cancels /\ cancel[loc[p].id].st # "none"
    BY <1>0, <1>11 DEF ProcessCancellationMark, LocalOK, HeldAt
  <2>2. /\ cancel'[loc[p].id].on = cancel[loc[p].id].on
        /\ cancel'[loc[p].id].eff = cancel[loc[p].id].eff
        /\ \A c \in Cancels : c # loc[p].id => cancel'[c] = cancel[c]
        /\ UNCHANGED <<sub, refund, now, nsub>> /\ Finish(p)
    BY <1>0, <1>11, <2>1 DEF ProcessCancellationMark, TypeOK, CancelRow
  <2>3. \A c \in Cancels : cancel'[c].st # "none" =>
          /\ cancel'[c].on \in 1 .. nsub
          /\ cancel[c].st # "none" /\ cancel'[c].on = cancel[c].on /\ cancel'[c].eff = cancel[c].eff
    BY <1>0, <2>1, <2>2 DEF Facts, Bounded
  <2>4. Facts'
    <3>1. \A s \in Subs : Exists(s)' => s <= nsub'
      BY <1>0, <2>2 DEF Facts, Bounded, Exists
    <3>2. nsub <= nsub' /\ \A s \in Subs : s <= nsub => sub'[s].end = sub[s].end
      BY <1>0, <2>2
    <3> QED
      BY <1>0, <2>2, <2>3, <3>1, <3>2, FactsKept
  <2> QED
    BY <1>0, <2>2, <2>4, OneFinishes DEF SInv
<1> QED
  BY <1>1, <1>2, <1>3, <1>4, <1>5, <1>6, <1>7, <1>8, <1>9, <1>10, <1>11 DEF AdminStep

\* The tables begin with all parts of SInv.
LEMMA InitSerial == Init => SInv
BY BillingAssumption
  DEF Init, SInv, Facts, Bounded, Cut, EffectiveDateKept, GivenBack, Exists, NoRow, Held, HeldAt,
      Copying, Reviewing, NoLocal

\* Every step, one request at a time, keeps SInv.
LEMMA StepSerial ==
  ASSUME Serial, IInv, IInv', SInv, [Next]_vars
  PROVE  SInv'
<1>0. TypeOK /\ TypeOK' /\ Facts /\ now \in Nat
  BY DEF IInv, SInv, TypeOK
<1>1. CASE Tick
  BY <1>0, <1>1, NobodyMoves DEF Tick
<1>2. ASSUME NEW s \in Subs, GatewayDeny(s) \/ GatewaySettle(s) PROVE SInv'
  BY <1>0, <1>2, NobodyMoves DEF GatewayDeny, GatewaySettle
<1>3. ASSUME NEW p \in Handlers, Return(p) PROVE SInv'
  <2>1. HeldAt("idle", NoLocal)
    BY DEF HeldAt, Copying, Reviewing
  <2> QED
    BY <1>0, <1>3, <2>1, OneReads DEF Return, Finish
<1>4. CASE UNCHANGED vars
  BY <1>0, <1>4, NobodyMoves DEF vars
<1> QED
  BY <1>0, <1>1, <1>2, <1>3, <1>4, PaymentSerial, UserSerial, AdminSerial DEF Next

\* With one request at a time SInv holds at all times.
LEMMA SerialInvariant ==
  ASSUME Serial
  PROVE  Spec => []SInv
<1>1. IInv /\ IInv' /\ SInv /\ [Next]_vars => SInv'
  BY StepSerial
<1> QED
  BY <1>1, InitSerial, Invariant, PTL DEF Spec

-----------------------------------------------------------------------------
(* Theorems *)

\* Requests one at a time: once a refund is approved, or made by an admin, no
\* redelivered notification, request or admin's action gives the row access
\* again, because each of them writes back the end it was cut to.
THEOREM RefundEndsAccess ==
  ASSUME Serial
  PROVE  Spec => []RefundedNoAccess
<1>1. TypeOK /\ Cut => RefundedNoAccess
  <2> SUFFICES ASSUME TypeOK, Cut, NEW s \in Subs, GivenBack(s), HasPlan(sub, {s}, now) PROVE FALSE
    BY DEF RefundedNoAccess
  <2>1. sub[s].end > now
    BY DEF HasPlan, Entitling, InPeriod
  <2>2. sub[s].end <= now /\ sub[s].end \in Nat /\ now \in Nat
    BY DEF Cut, TypeOK, SubRow
  <2> QED
    BY <2>1, <2>2
<1> QED
  BY <1>1, SerialInvariant, Invariant, PTL DEF SInv, Facts, IInv

\* Requests one at a time: the date a cancellation was recorded with stays the
\* end of its subscription, through approval, rejection, repetition and every
\* other write of the row, until money is given back.
THEOREM DatesAreKept ==
  ASSUME Serial
  PROVE  Spec => []EffectiveDateKept
BY SerialInvariant, PTL DEF SInv, Facts

\* Requests one at a time: every step of every handler is a step of the
\* documented refund workflow or leaves the refunds as they are.
THEOREM WorkflowImplemented ==
  ASSUME Serial
  PROVE  Spec => ImplementsWorkflow
<1> DEFINE status == [r \in Refunds |-> refund[r].st]
           about  == [r \in Refunds |-> refund[r].on]
<1>1. Init => Workflow!Init
  <2> SUFFICES ASSUME Init PROVE Workflow!Init
    OBVIOUS
  <2>1. \A r \in Refunds : refund[r].st = "none" /\ refund[r].on = 0
    BY DEF Init
  <2> QED
    BY <2>1 DEF Workflow!Init
<1>2. IInv /\ IInv' /\ SInv /\ [Next]_vars => [Workflow!Next]_<<status, about>>
  <2> SUFFICES ASSUME IInv, IInv', SInv, [Next]_vars PROVE [Workflow!Next]_<<status, about>>
    OBVIOUS
  <2>0. TypeOK /\ TypeOK' /\ Facts /\ Held /\ nref \in Nat
    BY DEF IInv, SInv, TypeOK
  <2>1. CASE UNCHANGED refund
    BY <2>1
  <2>2. ASSUME NEW p \in Handlers, RequestRefundInsert(p) PROVE Workflow!Next
    <3>0. nref + 1 \in Refunds /\ loc[p].s \in Subs
      BY <2>0, <2>2, BillingAssumption
        DEF RequestRefundInsert, TypeOK, Refunds, IInv, LocalsOK, LocalOK
    <3>1. PICK r \in Refunds, s \in Subs : r = nref + 1 /\ s = loc[p].s
      BY <3>0
    <3>2. refund[r].st = "none" /\ ~LiveRefund(s)
      BY <2>0, <2>2, <3>1 DEF IInv, RefundsOK, RequestRefundInsert, Held, HeldAt
    <3>3. refund' = [refund EXCEPT ![r] = [st |-> "pending", on |-> s]]
      BY <2>2, <3>1 DEF RequestRefundInsert
    <3>4. status' = [status EXCEPT ![r] = "pending"] /\ about' = [about EXCEPT ![r] = s]
      BY <2>0, <3>1, <3>3 DEF TypeOK
    <3>5. status[r] = "none" /\ ~Workflow!Live(s)
      BY <3>1, <3>2 DEF Workflow!Live, LiveRefund
    <3> HIDE DEF status, about
    <3>6. Workflow!Request(r, s)
      BY <3>4, <3>5 DEF Workflow!Request, status, about
    <3> QED
      BY <3>1, <3>6 DEF Workflow!Next
  <2>3. ASSUME NEW p \in Handlers, AdminRefundCommit(p) PROVE Workflow!Next
    <3>0. nref + 1 \in Refunds /\ loc[p].s \in Subs
      BY <2>0, <2>3, BillingAssumption
        DEF AdminRefundCommit, TypeOK, Refunds, IInv, LocalsOK, LocalOK
    <3>1. PICK r \in Refunds, s \in Subs : r = nref + 1 /\ s = loc[p].s
      BY <3>0
    <3>2. refund[r].st = "none"
      BY <2>0, <3>1 DEF IInv, RefundsOK
    <3>3. refund' = [refund EXCEPT ![r] = [st |-> "processed", on |-> s]]
      BY <2>3, <3>1 DEF AdminRefundCommit
    <3>4. status' = [status EXCEPT ![r] = "processed"] /\ about' = [about EXCEPT ![r] = s]
      BY <2>0, <3>1, <3>3 DEF TypeOK
    <3>5. Workflow!Record(r, s)
      BY <3>1, <3>2, <3>4 DEF Workflow!Record
    <3> QED
      BY <3>1, <3>5 DEF Workflow!Next
  <2>4. ASSUME NEW p \in Handlers, NEW d \in {"approved", "rejected"}, pc[p] \in Reviewing,
               refund' = [refund EXCEPT ![loc[p].id].st = d]
        PROVE  Workflow!Next
    <3> DEFINE r == loc[p].id
    <3>1. r \in Refunds /\ refund[r].st = "pending"
      BY <2>0, <2>4 DEF IInv, LocalsOK, LocalOK, Held, HeldAt
    <3>2. refund' = [refund EXCEPT ![r].st = d]
      BY <2>4
    <3> HIDE DEF r
    <3>3. status' = [status EXCEPT ![r] = d] /\ about' = about
      BY <2>0, <3>1, <3>2 DEF TypeOK, RefundRow
    <3>4. Workflow!Decide(r, d)
      BY <3>1, <3>3 DEF Workflow!Decide
    <3> QED
      BY <3>1, <3>4 DEF Workflow!Next
  <2>5. ASSUME NEW p \in Handlers, PaymentStep(p) PROVE UNCHANGED refund
    BY <2>5 DEF PaymentStep, Checkout, CheckoutSnap, Webhook, CancelSubscription, SaveRow, tables
  <2>6. ASSUME NEW p \in Handlers, UserStep(p) PROVE RequestRefundInsert(p) \/ UNCHANGED refund
    BY <2>6 DEF UserStep, RequestRefund, RequestRefundCheck, RequestCancellation,
         RequestCancellationCheck, RequestCancellationInsert, tables
  <2>7. ASSUME NEW p \in Handlers, AdminStep(p)
        PROVE  ApproveCommit(p) \/ Reject(p) \/ AdminRefundCommit(p) \/ UNCHANGED refund
    BY <2>7 DEF AdminStep, ReviewRefund, Approve, AdminRefund, Upgrade, UpgradeCommit,
         ProcessCancellation, ProcessCancellationSub, ProcessCancellationMark, tables
  <2>8. ASSUME NEW p \in Handlers, ApproveCommit(p) \/ Reject(p) PROVE Workflow!Next
    BY <2>4, <2>8 DEF ApproveCommit, Reject, Reviewing
  <2>9. CASE Tick \/ UNCHANGED vars \/ \E s \in Subs : GatewayDeny(s) \/ GatewaySettle(s)
    BY <2>1, <2>9 DEF Tick, GatewayDeny, GatewaySettle, vars, tables
  <2>10. ASSUME NEW p \in Handlers, Return(p) PROVE UNCHANGED refund
    BY <2>10 DEF Return, tables
  <2> QED
    BY <2>1, <2>2, <2>3, <2>5, <2>6, <2>7, <2>8, <2>9, <2>10 DEF Next
<1> QED
  BY <1>1, <1>2, Invariant, SerialInvariant, PTL DEF Spec, ImplementsWorkflow, Workflow!Spec
-----------------------------------------------------------------------------
(***************************************************************************)
(* Catalogue: that links are removed by the request that removes them only, *)
(* and that requests which come one after the other lose nothing although  *)
(* each of them writes whole rows.  What makes the second inductive: as    *)
(* long as no two requests met, the one under way holds the row as it is,  *)
(* and of a plan the features as they are.                                 *)
(***************************************************************************)

Row  == [st : {"unused", "live", "deleted"}, key : Keys \cup {None, ""},
         text : Nat, active : BOOLEAN, limit : Nat]
Edit == [text : Nat, active : {<<>>, <<TRUE>>, <<FALSE>>}, limit : {<<>>, <<0>>, <<DefaultLimit>>}]
Parts == {"active", "limit"}

PlanEdits == {"UpdatePlan"}
RowEdits  == {"UpdateFeature", "UpdateConfiguration", "UpdateNuance", "UpdateBillingAddress"}
Creations == {"CreateFeature", "CreateNuance"}

\* What a request keeps between what it reads and what it writes.
RequestOK(q) ==
  /\ q.id \in Rows /\ q.row \in Row
  /\ q.op \in PlanEdits =>
       q.more.edit \in Edit /\ \A f \in DOMAIN q.more.features : q.more.features[f] \in Row
  /\ q.op \in RowEdits => q.more \in Edit
  /\ q.op \in Creations => q.more.key \in Keys /\ q.more.active \in BOOLEAN
  /\ q.op = "UpdateBillingInfo" => q.more \in Nat \ {0}

Told     == meant \in [Rows -> Row] /\ replaced \in [Rows -> SUBSET Parts]
RowTypes == rows \in [Rows -> Row] /\ Told /\ requests \in Nat
RequestsOK ==
  /\ request = [h \in Editors |-> request[h]]
  /\ \A h \in Editors : request[h] # None => RequestOK(request[h])
TypeInv == RowTypes /\ RequestsOK

\* What the rows are due to hold: what was asked for, with the defaults that replaced some of it.
Due == [i \in Rows |-> Filled(meant[i], replaced[i])]

\* The requests that work on a row that is there, or there if it is not a new one.
OnRows == {"AddFeature"} \cup PlanEdits \cup RowEdits
There(op, i) ==
  /\ op \in OnRows => IsLive(i)
  /\ op = "UpdateBillingInfo" => IsLive(i) \/ rows[i] = Unused

\* The request under way holds the rows as they are.
UpToDate(q) ==
  /\ q.row = rows[q.id] /\ There(q.op, q.id)
  /\ q.op = "UpdatePlan" =>
       \A f \in DOMAIN q.more.features : q.more.features[f] = rows[f] /\ IsLive(f)

CalmInv ==
  calm => /\ rows = Due
          /\ \A g, h \in Editors : request[g] # None /\ request[h] # None => g = h
          /\ \A h \in Editors : request[h] # None => UpToDate(request[h])

CatalogueInv == TypeInv /\ CalmInv

-----------------------------------------------------------------------------
(* Links *)

\* Only RemoveFeature takes a link out, whichever requests overlap.
LEMMA StepKeepsLinks ==
  ASSUME CatalogueNext
  PROVE  links \subseteq links'
           \/ \E h \in Editors, p \in Plans, f \in Features : RemoveFeature(h, p, f)
<1>1. PICK h \in Editors :
        PlanRequests(h) \/ FeatureRequests(h) \/ AiRequests(h) \/ AddressRequests(h)
  BY DEF CatalogueNext
<1>2. CASE PlanRequests(h)
  <2>1. ASSUME NEW p \in Plans, NEW k \in Keys,
               ReadFeature(h, p, k) \/ \E l \in {0, DefaultLimit} : CreatePlan(h, p, k, l)
        PROVE  links' = links
    BY <2>1 DEF CreatePlan, ReadFeature, Read, Fails
  <2>2. ASSUME NEW p \in Plans,
               DeletePlan(h, p) \/ \E e \in Edits \cup LimitEdits : ReadPlan(h, p, e)
        PROVE  links' = links
    BY <2>2 DEF DeletePlan, DeletePlanRow, ReadPlan, Read, Fails
  <2>3. CASE UpdatePlan(h)
    BY <2>3 DEF UpdatePlan, UpdatePlanRow, Fails
  <2>4. CASE AddFeature(h)
    BY <2>4 DEF AddFeature, AddFeatureToPlan, Fails
  <2> QED
    BY <1>2, <2>1, <2>2, <2>3, <2>4 DEF PlanRequests
<1>3. CASE FeatureRequests(h)
  <2>1. ASSUME NEW f \in Features,
               FindFeature(h, f) \/ \E k \in Keys, a \in BOOLEAN : CheckFeature(h, f, k, a)
        PROVE  links' = links
    BY <2>1 DEF FindFeature, CheckFeature, Read
  <2>2. ASSUME NEW f \in Features, NEW e \in Edits, ReadFeatureRow(h, f, e)
        PROVE  links' = links
    BY <2>2 DEF ReadFeatureRow, Read
  <2>3. CASE CreateFeature(h)
    BY <2>3 DEF CreateFeature, Fails
  <2>4. CASE UpdateFeature(h)
    BY <2>4 DEF UpdateFeature, Fails
  <2>5. CASE DeleteFeature(h)
    BY <2>5 DEF DeleteFeature, DeleteFeatureRow, Fails
  <2> QED
    BY <1>3, <2>1, <2>2, <2>3, <2>4, <2>5 DEF FeatureRequests
<1>4. CASE AiRequests(h)
  <2>1. ASSUME NEW c \in Configs, ReadConfig(h, c) PROVE links' = links
    BY <2>1 DEF ReadConfig, Read
  <2>2. ASSUME NEW n \in Nuances, FindNuance(h, n) \/ \E k \in Keys : CheckNuance(h, n, k)
        PROVE  links' = links
    BY <2>2 DEF FindNuance, CheckNuance, Read
  <2>3. ASSUME NEW n \in Nuances, NEW e \in Edits, ReadNuance(h, n, e) PROVE links' = links
    BY <2>3 DEF ReadNuance, Read
  <2>4. CASE UpdateConfiguration(h) \/ UpdateNuance(h)
    BY <2>4 DEF UpdateConfiguration, UpdateNuance, UpdateRow
  <2>5. CASE CreateNuance(h) \/ DeleteNuance(h)
    BY <2>5 DEF CreateNuance, DeleteNuance
  <2> QED
    BY <1>4, <2>1, <2>2, <2>3, <2>4, <2>5 DEF AiRequests
<1>5. CASE AddressRequests(h)
  <2>1. CASE ReadDefault(h)
    BY <2>1 DEF ReadDefault, Read
  <2>2. CASE UpdateBillingInfo(h) \/ UpdateBillingAddress(h)
    BY <2>2 DEF UpdateBillingInfo, UpdateBillingAddress, Others
  <2>3. ASSUME NEW a \in Addresses, CreateSubscription(h, a) \/ DeleteBillingAddress(h, a)
        PROVE  links' = links
    BY <2>3 DEF CreateSubscription, DeleteBillingAddress, Others
  <2>4. ASSUME NEW a \in Addresses, NEW d \in BOOLEAN, CreateBillingAddress(h, a, d)
        PROVE  links' = links
    BY <2>4 DEF CreateBillingAddress, Others
  <2>5. ASSUME NEW a \in Addresses, NEW e \in Edits, ReadAddress(h, a, e) PROVE links' = links
    BY <2>5 DEF ReadAddress, Read
  <2> QED
    BY <1>5, <2>1, <2>2, <2>3, <2>4, <2>5 DEF AddressRequests
<1> QED
  BY <1>1, <1>2, <1>3, <1>4, <1>5

\* However requests overlap, a feature leaves a plan by the request that removes it
\* (subscription_repository_impl.go:47, 208).
THEOREM LinksAreKept == CatalogueSpec => LinksKept
<1>1. [CatalogueNext]_catalogue =>
        [ links \subseteq links'
            \/ \E h \in Editors, p \in Plans, f \in Features : RemoveFeature(h, p, f) ]_catalogue
  BY StepKeepsLinks
<1> QED
  BY <1>1, PTL DEF CatalogueSpec, LinksKept

-----------------------------------------------------------------------------
(* Rows *)

\* To apply an edit to the row that was read is to change what the edit names.
LEMMA ApplyRow ==
  ASSUME NEW r \in Row, NEW e \in Edit
  PROVE  /\ Apply(r, e) \in Row /\ Named(r, e) \in Row
         /\ [Apply(r, e) EXCEPT !.st = "live"] = Named(r, e)
<1>0. /\ e.text \in Nat /\ e.active \in {<<>>, <<TRUE>>, <<FALSE>>}
      /\ e.limit \in {<<>>, <<0>>, <<DefaultLimit>>}
  BY DEF Edit
<1>1. (e.active # <<>> => e.active[1] \in BOOLEAN) /\ (e.limit # <<>> => e.limit[1] \in Nat)
  <2>1. <<TRUE>>[1] = TRUE /\ <<FALSE>>[1] = FALSE
    OBVIOUS
  <2>2. e.active # <<>> => e.active[1] \in BOOLEAN
    <3>1. CASE e.active = <<TRUE>>
      BY <2>1, <3>1
    <3>2. CASE e.active = <<FALSE>>
      BY <2>1, <3>2
    <3> QED
      BY <1>0, <3>1, <3>2
  <2>3. e.limit # <<>> => e.limit[1] \in Nat
    <3>1. CASE e.limit = <<0>>
      BY <3>1
    <3>2. CASE e.limit = <<DefaultLimit>>
      BY <3>2 DEF DefaultLimit
    <3> QED
      BY <1>0, <3>1, <3>2
  <2> QED
    BY <2>2, <2>3
<1> DEFINE t == IF e.text = 0 THEN r.text ELSE e.text
           a == IF e.active = <<>> THEN r.active ELSE e.active[1]
           l == IF e.limit = <<>> THEN r.limit ELSE e.limit[1]
<1>2. Apply(r, e) = [r EXCEPT !.text = t, !.active = a, !.limit = l]
  BY DEF Apply
<1>3. Named(r, e) = [r EXCEPT !.st = "live", !.text = t, !.active = a, !.limit = l]
  BY DEF Named
<1>4. t \in Nat /\ a \in BOOLEAN /\ l \in Nat
  BY <1>0, <1>1 DEF Row
<1> HIDE DEF t, a, l
<1>5. [[r EXCEPT !.text = t, !.active = a, !.limit = l] EXCEPT !.st = "live"]
        = [r EXCEPT !.st = "live", !.text = t, !.active = a, !.limit = l]
  BY DEF Row
<1>6. /\ [r EXCEPT !.st = "live", !.text = t, !.active = a, !.limit = l] \in Row
      /\ [r EXCEPT !.text = t, !.active = a, !.limit = l] \in Row
  BY <1>4 DEF Row
<1> QED
  BY <1>2, <1>3, <1>5, <1>6

\* Every edit a request may name is one.
LEMMA EditsOK ==
  ASSUME requests \in Nat
  PROVE  /\ Edits \cup LimitEdits \subseteq Edit /\ [Nothing EXCEPT !.text = Fresh] \in Edit
         /\ \A t \in Nat : [Nothing EXCEPT !.text = t] \in Edit
<1>1. {0, Fresh} \subseteq Nat
  BY DEF Fresh
<1>2. Edits \subseteq Edit
  <2>1. SUFFICES ASSUME NEW e \in [text : {0, Fresh}, active : {<<>>, <<TRUE>>, <<FALSE>>},
                                   limit : {<<>>}]
        PROVE  e \in Edit
    BY DEF Edits
  <2> QED
    BY <1>1, <2>1 DEF Edit
<1>3. \A l \in {0, DefaultLimit} : [Nothing EXCEPT !.limit = <<l>>] \in Edit
  BY DEF Nothing, Edit
<1>4. \A t \in Nat : [Nothing EXCEPT !.text = t] \in Edit
  BY DEF Nothing, Edit
<1> QED
  BY <1>1, <1>2, <1>3, <1>4 DEF LimitEdits

\* Rows that are inserted.
LEMMA NewRow ==
  ASSUME NEW k \in Keys \cup {None, ""}, NEW t \in Nat, NEW a \in BOOLEAN
  PROVE  New(k, t, a) \in Row /\ \A l \in Nat : [New(k, t, a) EXCEPT !.limit = l] \in Row
  BY DEF New, Row, DefaultLimit

\* Rows that have the same parts are the same.
LEMMA SameRow ==
  ASSUME NEW v \in Row, NEW w \in Row, v.st = w.st, v.key = w.key, v.text = w.text,
         v.active = w.active, v.limit = w.limit
  PROVE  v = w
<1> DEFINE parts == {"st", "key", "text", "active", "limit"}
<1>1. DOMAIN v = parts /\ v = [x \in DOMAIN v |-> v[x]]
  BY DEF Row
<1>2. DOMAIN w = parts /\ w = [x \in DOMAIN w |-> w[x]]
  BY DEF Row
<1>3. \A x \in parts : v[x] = w[x]
  OBVIOUS
<1> HIDE DEF parts
<1> QED
  BY <1>1, <1>2, <1>3

\* A row with defaults in some of its parts.
LEMMA FilledRow ==
  ASSUME NEW r \in Row, NEW z
  PROVE  Filled(r, z) \in Row
<1> DEFINE a == r.active \/ "active" \in z
           l == IF "limit" \in z THEN DefaultLimit ELSE r.limit
<1>1. a \in BOOLEAN /\ l \in Nat
  BY DEF Row, DefaultLimit
<1>2. Filled(r, z) = [r EXCEPT !.active = a, !.limit = l]
  BY DEF Filled
<1> HIDE DEF a, l
<1> QED
  BY <1>1, <1>2 DEF Row

\* What is stored of a row is one.
LEMMA StoredRow ==
  ASSUME NEW r \in Row, NEW i
  PROVE  Stored(i, r) \in Row /\ Saved(i, r) \in Row
<1>1. [r EXCEPT !.st = "live"] \in Row
  BY DEF Row
<1> QED
  BY <1>1, FilledRow DEF Stored, Saved

\* An edit of a row with defaults in some of its parts sets the parts it names, and leaves the
\* defaults in the others.
LEMMA FilledNamed ==
  ASSUME NEW r \in Row, NEW z \in SUBSET Parts, NEW e \in Edit
  PROVE  Filled(Named(r, e), z \ NamedBy(e)) = Named(Filled(r, z), e)
<1>0. /\ e.text \in Nat /\ e.active \in {<<>>, <<TRUE>>, <<FALSE>>}
      /\ e.limit \in {<<>>, <<0>>, <<DefaultLimit>>}
  BY DEF Edit
<1>1. /\ "active" \in z \ NamedBy(e) <=> ("active" \in z /\ e.active = <<>>)
      /\ "limit" \in z \ NamedBy(e) <=> ("limit" \in z /\ e.limit = <<>>)
  BY DEF NamedBy
<1>2. Filled(r, z) \in Row /\ Named(r, e) \in Row
  BY FilledRow, ApplyRow
<1> DEFINE x == Filled(Named(r, e), z \ NamedBy(e))
           y == Named(Filled(r, z), e)
<1>3. x \in Row /\ y \in Row
  BY <1>2, FilledRow, ApplyRow
<1>4. /\ Filled(r, z).key = r.key /\ Filled(r, z).text = r.text
      /\ Filled(r, z).active = (r.active \/ "active" \in z)
      /\ Filled(r, z).limit = IF "limit" \in z THEN DefaultLimit ELSE r.limit
  BY DEF Filled, Row
<1>5. /\ Named(r, e).st = "live" /\ Named(r, e).key = r.key
      /\ Named(r, e).text = IF e.text = 0 THEN r.text ELSE e.text
      /\ Named(r, e).active = IF e.active = <<>> THEN r.active ELSE e.active[1]
      /\ Named(r, e).limit = IF e.limit = <<>> THEN r.limit ELSE e.limit[1]
  BY DEF Named, Row
<1>6. /\ x.st = Named(r, e).st /\ x.key = Named(r, e).key /\ x.text = Named(r, e).text
      /\ x.active = (Named(r, e).active \/ "active" \in z \ NamedBy(e))
      /\ x.limit = IF "limit" \in z \ NamedBy(e) THEN DefaultLimit ELSE Named(r, e).limit
  BY <1>2 DEF Filled, Row
<1>7. /\ y.st = "live" /\ y.key = Filled(r, z).key
      /\ y.text = IF e.text = 0 THEN Filled(r, z).text ELSE e.text
      /\ y.active = IF e.active = <<>> THEN Filled(r, z).active ELSE e.active[1]
      /\ y.limit = IF e.limit = <<>> THEN Filled(r, z).limit ELSE e.limit[1]
  <2>1. \A v \in Row :
          /\ Named(v, e).st = "live" /\ Named(v, e).key = v.key
          /\ Named(v, e).text = IF e.text = 0 THEN v.text ELSE e.text
          /\ Named(v, e).active = IF e.active = <<>> THEN v.active ELSE e.active[1]
          /\ Named(v, e).limit = IF e.limit = <<>> THEN v.limit ELSE e.limit[1]
    BY DEF Named, Row
  <2> QED
    BY <1>2, <2>1
<1> HIDE DEF x, y
<1>8. x.st = y.st /\ x.key = y.key /\ x.text = y.text /\ x.limit = y.limit
  BY <1>1, <1>4, <1>5, <1>6, <1>7
<1>9. x.active = y.active
  <2>1. CASE e.active = <<>>
    BY <1>1, <1>4, <1>5, <1>6, <1>7, <2>1
  <2>2. CASE e.active # <<>>
    <3>1. "active" \notin z \ NamedBy(e) /\ x.active \in BOOLEAN /\ Named(r, e).active \in BOOLEAN
      BY <1>1, <1>2, <1>3, <2>2 DEF Row
    <3>2. x.active = Named(r, e).active
      BY <1>6, <3>1
    <3> QED
      BY <1>5, <1>7, <2>2, <3>2
  <2> QED
    BY <2>1, <2>2
<1> QED
  BY <1>3, <1>8, <1>9, SameRow DEF x, y

\* What is asked for of one row changes what is due of that row.
LEMMA DueStep ==
  ASSUME RowTypes, NEW i \in Rows, NEW r \in Row, NEW z \in SUBSET Parts, Intend(i, r, z)
  PROVE  Told' /\ Due' = [Due EXCEPT ![i] = Filled(r, z)]
<1>1. /\ meant \in [Rows -> Row] /\ replaced \in [Rows -> SUBSET Parts]
      /\ meant' = [meant EXCEPT ![i] = r] /\ replaced' = [replaced EXCEPT ![i] = z]
  BY DEF RowTypes, Told, Intend
<1>2. Told'
  BY <1>1 DEF Told
<1>3. /\ meant'[i] = r /\ replaced'[i] = z
      /\ \A j \in Rows \ {i} : meant'[j] = meant[j] /\ replaced'[j] = replaced[j]
  BY <1>1
<1>4. Due' = [j \in Rows |-> IF j = i THEN Filled(r, z) ELSE Filled(meant[j], replaced[j])]
  BY <1>3 DEF Due
<1>5. [Due EXCEPT ![i] = Filled(r, z)]
        = [j \in Rows |-> IF j = i THEN Filled(r, z) ELSE Filled(meant[j], replaced[j])]
  BY DEF Due
<1> QED
  BY <1>2, <1>4, <1>5

\* While nothing is asked for, the same is due.
LEMMA DueKept ==
  ASSUME RowTypes, Unasked
  PROVE  Told' /\ Due' = Due
  BY DEF RowTypes, Told, Unasked, Due

\* A row that is made is due as it is stored.
LEMMA WriteRow ==
  ASSUME RowTypes, NEW i \in Rows, NEW r \in Row, Insert(i, r), IntendNew(i, r)
  PROVE  /\ rows' \in [Rows -> Row] /\ Told'
         /\ rows = Due => rows' = Due'
<1>1. Stored(i, r) = Filled(r, Defaults(i, r)) /\ Stored(i, r) \in Row
  BY StoredRow DEF Stored
<1>2. Defaults(i, r) \in SUBSET Parts
  BY DEF Defaults, Parts
<1>3. Told' /\ Due' = [Due EXCEPT ![i] = Filled(r, Defaults(i, r))]
  BY <1>2, DueStep DEF IntendNew
<1>4. rows' = [rows EXCEPT ![i] = Stored(i, r)]
  BY DEF Insert
<1> QED
  BY <1>1, <1>3, <1>4 DEF RowTypes

\* An edit changes what is due of a row as it changes the row.
LEMMA EditDue ==
  ASSUME RowTypes, NEW i \in Rows, NEW e \in Edit, IntendEdit(i, e)
  PROVE  Told' /\ Due' = [Due EXCEPT ![i] = Named(Due[i], e)]
<1>1. meant[i] \in Row /\ replaced[i] \in SUBSET Parts
  BY DEF RowTypes, Told
<1>2. Named(meant[i], e) \in Row /\ replaced[i] \ NamedBy(e) \in SUBSET Parts
  BY <1>1, ApplyRow
<1>3. Told' /\ Due' = [Due EXCEPT ![i] = Filled(Named(meant[i], e), replaced[i] \ NamedBy(e))]
  BY <1>2, DueStep DEF IntendEdit
<1>4. Filled(Named(meant[i], e), replaced[i] \ NamedBy(e)) = Named(Due[i], e)
  BY <1>1, FilledNamed DEF Due
<1> QED
  BY <1>3, <1>4

\* A row that is removed, where it is known what became of it.
LEMMA RemoveRow ==
  ASSUME RowTypes, NEW i \in Rows, Remove(i) \/ UNCHANGED rows, IntendGone(i)
  PROVE  /\ rows' \in [Rows -> Row] /\ Told'
         /\ rows = Due => rows' = Due'
<1> DEFINE r == [rows[i] EXCEPT !.st = "deleted"]
<1>0. rows[i] \in Row /\ meant[i] \in Row /\ replaced[i] \in SUBSET Parts
  BY DEF RowTypes, Told
<1>a. r \in Row
  <2>1. \A x \in Row : [x EXCEPT !.st = "deleted"] \in Row
    BY DEF Row
  <2> QED
    BY <1>0, <2>1
<1>b. rows' = rows \/ rows' = [rows EXCEPT ![i] = r]
  BY DEF Remove
<1>c. r.st = "deleted" /\ r = [rows[i] EXCEPT !.st = r.st]
  BY <1>0 DEF Row
<1>d. rows[i] = [rows[i] EXCEPT !.st = rows[i].st]
  BY <1>0 DEF Row
<1> HIDE DEF r
<1>1. rows' \in [Rows -> Row] /\ \A j \in Rows \ {i} : rows'[j] = rows[j]
  BY <1>a, <1>b DEF RowTypes
<1>2. rows'[i] = rows[i] \/ rows'[i] = r
  BY <1>b DEF RowTypes
<1> DEFINE s == rows'[i].st
<1>3. rows'[i] = [rows[i] EXCEPT !.st = s]
  BY <1>2, <1>c, <1>d
<1>4. s \in {"unused", "live", "deleted"}
  BY <1>1 DEF Row
<1>5. IntendGone(i) => Intend(i, [meant[i] EXCEPT !.st = s], replaced[i])
  BY DEF IntendGone
<1> HIDE DEF s
<1>6. [meant[i] EXCEPT !.st = s] \in Row
  BY <1>0, <1>4 DEF Row
<1>7. Told' /\ Due' = [Due EXCEPT ![i] = Filled([meant[i] EXCEPT !.st = s], replaced[i])]
  BY <1>0, <1>5, <1>6, DueStep
<1>8. Filled([meant[i] EXCEPT !.st = s], replaced[i]) = [Due[i] EXCEPT !.st = s]
  <2>1. \A x \in Row : \A z : Filled([x EXCEPT !.st = s], z) = [Filled(x, z) EXCEPT !.st = s]
    BY <1>4 DEF Filled, Row
  <2> QED
    BY <1>0, <2>1 DEF Due
<1> QED
  BY <1>1, <1>3, <1>7, <1>8 DEF RowTypes

-----------------------------------------------------------------------------
(* Requests *)

\* A request reads a row, and holds it as it is.
LEMMA ReadStep ==
  ASSUME CatalogueInv, NEW h \in Editors, NEW op, NEW i \in Rows, NEW more, Read(h, op, i, more),
         RequestOK([op |-> op, id |-> i, row |-> rows[i], more |-> more]),
         There(op, i),
         op = "UpdatePlan" =>
           \A f \in DOMAIN more.features : more.features[f] = rows[f] /\ IsLive(f)
  PROVE  CatalogueInv'
<1> DEFINE q == [op |-> op, id |-> i, row |-> rows[i], more |-> more]
<1>1. /\ request' = [request EXCEPT ![h] = q] /\ requests' = requests + 1
      /\ rows' = rows /\ Unasked /\ calm' = (calm /\ Under = {})
  BY DEF Read, Arrives, Unasked
<1>2. RequestOK(q) /\ UpToDate(q)
  BY DEF UpToDate
<1>3. request = [g \in Editors |-> request[g]]
  BY DEF CatalogueInv, TypeInv, RequestsOK
<1> HIDE DEF q
<1>4. request'[h] = q /\ \A g \in Editors \ {h} : request'[g] = request[g]
  BY <1>1, <1>3
<1>5. request' = [g \in Editors |-> request'[g]]
  BY <1>1, <1>3
<1>6. RequestsOK'
  <2>1. \A g \in Editors : request'[g] # None => RequestOK(request'[g])
    BY <1>2, <1>4 DEF CatalogueInv, TypeInv, RequestsOK
  <2> QED
    BY <1>5, <2>1 DEF RequestsOK, RequestOK
<1>7. RowTypes' /\ Due' = Due
  BY <1>1, DueKept DEF CatalogueInv, TypeInv, RowTypes
<1>8. CalmInv'
  <2> SUFFICES ASSUME calm'
               PROVE  /\ rows' = Due'
                      /\ \A g, k \in Editors : request'[g] # None /\ request'[k] # None => g = k
                      /\ \A g \in Editors : request'[g] # None => UpToDate(request[g])'
    BY DEF CalmInv
  <2>1. calm /\ \A g \in Editors : request[g] = None
    BY <1>1 DEF Under
  <2>2. \A g \in Editors : request'[g] # None => g = h
    BY <1>4, <2>1
  <2>3. UpToDate(request[h])'
    BY <1>1, <1>2, <1>4 DEF UpToDate, There, IsLive
  <2> QED
    BY <1>1, <1>4, <1>7, <2>1, <2>2, <2>3 DEF CatalogueInv, CalmInv
<1> QED
  BY <1>6, <1>7, <1>8 DEF CatalogueInv, TypeInv

\* A request that is one statement.
LEMMA AtOnceStep ==
  ASSUME CatalogueInv, NEW h \in Editors, AtOnce(h),
         rows' \in [Rows -> Row], Told', rows = Due => rows' = Due'
  PROVE  CatalogueInv'
<1>1. request' = request /\ requests' = requests + 1 /\ calm' = (calm /\ Under = {})
  BY DEF AtOnce, Arrives
<1>2. TypeInv'
  BY <1>1 DEF CatalogueInv, TypeInv, RowTypes, RequestsOK, RequestOK
<1>3. CalmInv'
  <2> SUFFICES ASSUME calm' PROVE rows' = Due' /\ \A g \in Editors : request'[g] = None
    BY DEF CalmInv
  <2> QED
    BY <1>1 DEF CatalogueInv, CalmInv, Under
<1> QED
  BY <1>2, <1>3 DEF CatalogueInv

\* A request writes what it had to and ends.
LEMMA DoneStep ==
  ASSUME CatalogueInv, NEW h \in Editors, request[h] # None, Done(h),
         rows' \in [Rows -> Row], Told', rows = Due /\ UpToDate(request[h]) => rows' = Due'
  PROVE  CatalogueInv'
<1>1. request' = [request EXCEPT ![h] = None] /\ requests' = requests /\ calm' = calm
  BY DEF Done
<1>2. request = [g \in Editors |-> request[g]]
  BY DEF CatalogueInv, TypeInv, RequestsOK
<1>3. request'[h] = None /\ \A g \in Editors \ {h} : request'[g] = request[g]
  BY <1>1, <1>2
<1>4. TypeInv'
  <2>1. request' = [g \in Editors |-> request'[g]]
    BY <1>1, <1>2
  <2>2. \A g \in Editors : request'[g] # None => RequestOK(request'[g])
    BY <1>3 DEF CatalogueInv, TypeInv, RequestsOK
  <2> QED
    BY <1>1, <2>1, <2>2 DEF CatalogueInv, TypeInv, RowTypes, RequestsOK, RequestOK
<1>5. CalmInv'
  <2> SUFFICES ASSUME calm' PROVE rows' = Due' /\ \A g \in Editors : request'[g] = None
    BY DEF CalmInv
  <2>1. rows = Due /\ UpToDate(request[h]) /\ \A g \in Editors : request[g] # None => g = h
    BY <1>1 DEF CatalogueInv, CalmInv
  <2> QED
    BY <1>3, <2>1
<1> QED
  BY <1>4, <1>5 DEF CatalogueInv

-----------------------------------------------------------------------------
(* Steps *)

\* A request that reads the row of a plan holds the features of the plan as well; the others
\* hold what they were asked for.
LEMMA ReadOne ==
  ASSUME CatalogueInv, NEW h \in Editors, NEW op, NEW i \in Rows, NEW more, Read(h, op, i, more),
         op \notin PlanEdits, There(op, i),
         op \in RowEdits => more \in Edit,
         op \in Creations => more.key \in Keys /\ more.active \in BOOLEAN,
         op = "UpdateBillingInfo" => more \in Nat \ {0}
  PROVE  CatalogueInv'
<1> DEFINE q == [op |-> op, id |-> i, row |-> rows[i], more |-> more]
<1>1. q.op = op /\ q.id = i /\ q.row = rows[i] /\ q.more = more
  OBVIOUS
<1>2. rows[i] \in Row
  BY DEF CatalogueInv, TypeInv, RowTypes
<1> HIDE DEF q
<1>3. RequestOK(q)
  BY <1>1, <1>2 DEF RequestOK
<1>4. RequestOK([op |-> op, id |-> i, row |-> rows[i], more |-> more])
  BY <1>3 DEF q
<1>5. op # "UpdatePlan"
  BY DEF PlanEdits
<1> QED
  BY <1>4, <1>5, ReadStep

\* An edit writes the row it read with what it was asked to change.
LEMMA EditStep ==
  ASSUME CatalogueInv, NEW h \in Editors, NEW op \in RowEdits, Doing(h, op), Done(h),
         Save(request[h].id, Apply(request[h].row, request[h].more)),
         IntendEdit(request[h].id, request[h].more)
  PROVE  CatalogueInv'
<1> DEFINE i == request[h].id   r == request[h].row   e == request[h].more
<1>1. request[h] # None /\ request[h].op = op
  BY DEF Doing
<1>2. i \in Rows /\ r \in Row /\ e \in Edit
  BY <1>1 DEF CatalogueInv, TypeInv, RequestsOK, RequestOK
<1>3. RowTypes /\ rows \in [Rows -> Row]
  BY DEF CatalogueInv, TypeInv, RowTypes
<1>4. rows' = [rows EXCEPT ![i] = Saved(i, Apply(r, e))]
  BY DEF Save
<1>5. IntendEdit(i, e)
  OBVIOUS
<1>6. UpToDate(request[h]) => r = rows[i] /\ IsLive(i)
  BY <1>1 DEF UpToDate, There, OnRows
<1> HIDE DEF i, r, e
<1>7. /\ Apply(r, e) \in Row /\ Saved(i, Apply(r, e)) \in Row
      /\ IsLive(i) => Saved(i, Apply(r, e)) = Named(r, e)
  BY <1>2, ApplyRow, StoredRow DEF Saved
<1>8. Told' /\ Due' = [Due EXCEPT ![i] = Named(Due[i], e)]
  BY <1>2, <1>3, <1>5, EditDue
<1>9. rows' \in [Rows -> Row]
  BY <1>2, <1>3, <1>4, <1>7
<1>10. rows = Due /\ UpToDate(request[h]) => rows' = Due'
  BY <1>4, <1>6, <1>7, <1>8
<1> QED
  BY <1>1, <1>8, <1>9, <1>10, DoneStep

\* A request that ends without writing a row.
LEMMA QuietStep ==
  ASSUME CatalogueInv, NEW h \in Editors, NEW op, Doing(h, op), Done(h), rows' = rows, Unasked
  PROVE  CatalogueInv'
  BY DoneStep, DueKept DEF Doing, CatalogueInv, TypeInv, RowTypes

\* A row that a request makes.
LEMMA InsertStep ==
  ASSUME CatalogueInv, NEW h \in Editors, NEW op, Doing(h, op), Done(h),
         NEW i \in Rows, NEW r \in Row, Insert(i, r), IntendNew(i, r)
  PROVE  CatalogueInv'
  BY DoneStep, WriteRow DEF Doing, CatalogueInv, TypeInv

\* A row that a request finds, and then removes unless a link keeps it.
LEMMA RemoveStep ==
  ASSUME CatalogueInv, NEW h \in Editors, NEW op, Doing(h, op), Done(h),
         Remove(request[h].id) \/ UNCHANGED rows, IntendGone(request[h].id)
  PROVE  CatalogueInv'
<1>1. request[h] # None
  BY DEF Doing
<1>2. request[h].id \in Rows
  BY <1>1 DEF CatalogueInv, TypeInv, RequestsOK, RequestOK
<1> QED
  BY <1>1, <1>2, DoneStep, RemoveRow DEF CatalogueInv, TypeInv

\* An edit of a plan writes the features it read as well; if they are as they were, it writes
\* the plan only.
LEMMA PlanStep ==
  ASSUME CatalogueInv, NEW h \in Editors, UpdatePlan(h)
  PROVE  CatalogueInv'
<1> DEFINE i == request[h].id
           r == request[h].row
           e == request[h].more.edit
           read == request[h].more.features
<1>1. request[h] # None /\ request[h].op = "UpdatePlan" /\ Done(h)
  BY DEF UpdatePlan, Doing
<1>2. i \in Rows /\ r \in Row /\ e \in Edit /\ \A f \in DOMAIN read : read[f] \in Row
  BY <1>1 DEF CatalogueInv, TypeInv, RequestsOK, RequestOK, PlanEdits
<1>3. RowTypes /\ rows \in [Rows -> Row]
  BY DEF CatalogueInv, TypeInv, RowTypes
<1>4. CASE UNCHANGED rows /\ Unasked
  BY <1>1, <1>4, QuietStep DEF UpdatePlan
<1>5. CASE UpdatePlanRow(i, Apply(r, e), read) /\ IntendEdit(i, e)
  <2>1. rows' = [j \in Rows |-> IF j = i THEN Saved(i, Apply(r, e))
                               ELSE IF j \in DOMAIN read /\ ~IsLive(j) THEN Stored(j, read[j])
                               ELSE rows[j]]
    BY <1>5 DEF UpdatePlanRow
  <2>2. IntendEdit(i, e)
    BY <1>5
  <2>3. UpToDate(request[h]) =>
          /\ r = rows[i] /\ IsLive(i)
          /\ \A f \in DOMAIN read : read[f] = rows[f] /\ IsLive(f)
    BY <1>1 DEF UpToDate, There, OnRows, PlanEdits
  <2> HIDE DEF i, r, e, read
  <2>4. /\ Saved(i, Apply(r, e)) \in Row
        /\ IsLive(i) => Saved(i, Apply(r, e)) = Named(r, e)
    BY <1>2, ApplyRow, StoredRow DEF Saved
  <2>5. \A f \in DOMAIN read : Stored(f, read[f]) \in Row
    BY <1>2, StoredRow
  <2>6. rows' \in [Rows -> Row]
    BY <1>2, <1>3, <2>1, <2>4, <2>5
  <2>7. Told' /\ Due' = [Due EXCEPT ![i] = Named(Due[i], e)]
    BY <1>2, <1>3, <2>2, EditDue
  <2>8. rows = Due /\ UpToDate(request[h]) => rows' = Due'
    <3> SUFFICES ASSUME rows = Due, UpToDate(request[h]) PROVE rows' = Due'
      OBVIOUS
    <3>1. \A j \in Rows : rows'[j] = IF j = i THEN Named(rows[i], e) ELSE rows[j]
      BY <2>1, <2>3, <2>4
    <3>2. Due' = [j \in Rows |-> IF j = i THEN Named(rows[i], e) ELSE rows[j]]
      BY <1>2, <1>3, <2>7
    <3> QED
      BY <2>6, <3>1, <3>2
  <2> QED
    BY <1>1, <2>6, <2>7, <2>8, DoneStep
<1> QED
  BY <1>4, <1>5 DEF UpdatePlan, Fails

\* Edits of plans keep CatalogueInv.
LEMMA PlanRequestStep ==
  ASSUME CatalogueInv, NEW h \in Editors, PlanRequests(h)
  PROVE  CatalogueInv'
<1> USE DEF Rows
<1>0. RowTypes /\ requests \in Nat /\ Fresh \in Nat
  BY DEF CatalogueInv, TypeInv, RowTypes, Fresh
<1>1. ASSUME NEW p \in Plans, NEW k \in Keys, NEW l \in {0, DefaultLimit}, CreatePlan(h, p, k, l)
      PROVE  CatalogueInv'
  <2> DEFINE r == [New(k, Fresh, TRUE) EXCEPT !.limit = l]
  <2>1. AtOnce(h)
    BY <1>1 DEF CreatePlan
  <2>2. CASE UNCHANGED rows /\ Unasked
    BY <1>0, <2>1, <2>2, DueKept, AtOnceStep DEF RowTypes
  <2>3. CASE Insert(p, r) /\ IntendNew(p, r)
    <3>1. r \in Row
      BY <1>0, NewRow DEF DefaultLimit
    <3> HIDE DEF r
    <3> QED
      BY <1>0, <2>1, <2>3, <3>1, WriteRow, AtOnceStep
  <2> QED
    BY <1>1, <2>2, <2>3 DEF CreatePlan, Fails
<1>2. ASSUME NEW p \in Plans, NEW k \in Keys, ReadFeature(h, p, k) PROVE CatalogueInv'
  <2>1. PICK f \in FeatureByKey(k) : Read(h, "AddFeature", f, p)
    BY <1>2 DEF ReadFeature
  <2>2. f \in Rows /\ IsLive(f)
    BY DEF FeatureByKey
  <2> QED
    BY <2>1, <2>2, ReadOne DEF PlanEdits, RowEdits, Creations, There, OnRows
<1>3. ASSUME NEW p \in Plans, DeletePlan(h, p) PROVE CatalogueInv'
  <2>1. AtOnce(h) /\ (Remove(p) \/ UNCHANGED rows) /\ IntendGone(p)
    BY <1>3 DEF DeletePlan, DeletePlanRow, Fails
  <2> QED
    BY <1>0, <2>1, RemoveRow, AtOnceStep
<1>4. ASSUME NEW p \in Plans, NEW e \in Edits \cup LimitEdits, ReadPlan(h, p, e)
      PROVE  CatalogueInv'
  <2> DEFINE more == [edit |-> e, features |-> [f \in LinksOf(p) |-> rows[f]]]
             q == [op |-> "UpdatePlan", id |-> p, row |-> rows[p], more |-> more]
  <2>1. Read(h, "UpdatePlan", p, more) /\ There("UpdatePlan", p)
    BY <1>4 DEF ReadPlan, There
  <2>2. more.edit \in Edit
    BY <1>0, EditsOK
  <2>3. \A f \in DOMAIN more.features :
          more.features[f] = rows[f] /\ rows[f] \in Row /\ IsLive(f)
    BY <1>0 DEF LinksOf, RowTypes
  <2>4. rows[p] \in Row
    BY <1>0 DEF RowTypes
  <2>5. q.op = "UpdatePlan" /\ q.id = p /\ q.row = rows[p] /\ q.more = more
    OBVIOUS
  <2> HIDE DEF more, q
  <2>6. RequestOK(q)
    BY <2>2, <2>3, <2>4, <2>5 DEF RequestOK, PlanEdits, RowEdits, Creations
  <2>7. RequestOK([op |-> "UpdatePlan", id |-> p, row |-> rows[p], more |-> more])
    BY <2>6 DEF q
  <2> QED
    BY <2>1, <2>3, <2>7, ReadStep
<1>5. ASSUME NEW p \in Plans, NEW f \in Features, RemoveFeature(h, p, f) PROVE CatalogueInv'
  BY <1>0, <1>5, DueKept, AtOnceStep DEF RemoveFeature, RemoveFeatureFromPlan, RowTypes
<1>6. CASE UpdatePlan(h)
  BY <1>6, PlanStep
<1>7. CASE AddFeature(h)
  <2> DEFINE f == request[h].id
  <2>1. Doing(h, "AddFeature") /\ Done(h) /\ Unasked
    BY <1>7 DEF AddFeature
  <2>2. request[h] # None /\ f \in Rows
    BY <2>1 DEF Doing, CatalogueInv, TypeInv, RequestsOK, RequestOK
  <2>3. rows' = rows \/ (~IsLive(f) /\ Insert(f, Blank))
    BY <1>7 DEF AddFeature, AddFeatureToPlan, Fails
  <2>4. Stored(f, Blank) \in Row
    BY NewRow, StoredRow DEF Blank
  <2> HIDE DEF f
  <2>5. rows' \in [Rows -> Row] /\ Told' /\ Due' = Due
    BY <1>0, <2>1, <2>2, <2>3, <2>4, DueKept DEF RowTypes, Insert
  <2>6. UpToDate(request[h]) => rows' = rows
    BY <2>1, <2>3 DEF UpToDate, There, OnRows, Doing, f
  <2> QED
    BY <2>1, <2>2, <2>5, <2>6, DoneStep
<1> QED
  BY <1>1, <1>2, <1>3, <1>4, <1>5, <1>6, <1>7 DEF PlanRequests

\* Edits of features keep CatalogueInv.
LEMMA FeatureRequestStep ==
  ASSUME CatalogueInv, NEW h \in Editors, FeatureRequests(h)
  PROVE  CatalogueInv'
<1> USE DEF Rows
<1>0. RowTypes /\ requests \in Nat /\ Fresh \in Nat
  BY DEF CatalogueInv, TypeInv, RowTypes, Fresh
<1> USE DEF There, OnRows
<1>1. ASSUME NEW f \in Features, FindFeature(h, f) PROVE CatalogueInv'
  BY <1>1, ReadOne DEF FindFeature, PlanEdits, RowEdits, Creations
<1>2. ASSUME NEW f \in Features, NEW k \in Keys, NEW a \in BOOLEAN, CheckFeature(h, f, k, a)
      PROVE  CatalogueInv'
  BY <1>2, ReadOne DEF CheckFeature, PlanEdits, RowEdits, Creations
<1>3. ASSUME NEW f \in Features, NEW e \in Edits, ReadFeatureRow(h, f, e) PROVE CatalogueInv'
  <2>1. e \in Edit
    BY <1>0, EditsOK
  <2> QED
    BY <1>3, <2>1, ReadOne DEF ReadFeatureRow, PlanEdits, RowEdits, Creations
<1>4. CASE CreateFeature(h)
  <2> DEFINE f == request[h].id
             r == New(request[h].more.key, requests, request[h].more.active)
  <2>1. Doing(h, "CreateFeature") /\ Done(h)
    BY <1>4 DEF CreateFeature
  <2>2. f \in Rows /\ request[h].more.key \in Keys
        /\ request[h].more.active \in BOOLEAN
    BY <2>1 DEF Doing, CatalogueInv, TypeInv, RequestsOK, RequestOK, Creations
  <2>3. r \in Row
    BY <1>0, <2>2, NewRow
  <2>4. (UNCHANGED rows /\ Unasked) \/ (Insert(f, r) /\ IntendNew(f, r))
    BY <1>4 DEF CreateFeature, Fails
  <2> QED
    BY <2>1, <2>2, <2>3, <2>4, QuietStep, InsertStep
<1>5. CASE UpdateFeature(h)
  <2>1. Doing(h, "UpdateFeature") /\ Done(h)
    BY <1>5 DEF UpdateFeature
  <2>2. CASE UNCHANGED rows /\ Unasked
    BY <2>1, <2>2, QuietStep
  <2>3. CASE /\ Save(request[h].id, Apply(request[h].row, request[h].more))
             /\ IntendEdit(request[h].id, request[h].more)
    BY <2>1, <2>3, EditStep DEF RowEdits
  <2> QED
    BY <1>5, <2>2, <2>3 DEF UpdateFeature, Fails
<1>6. CASE DeleteFeature(h)
  <2>1. Doing(h, "DeleteFeature") /\ Done(h) /\ IntendGone(request[h].id)
    BY <1>6 DEF DeleteFeature
  <2>2. Remove(request[h].id) \/ UNCHANGED rows
    BY <1>6 DEF DeleteFeature, DeleteFeatureRow, Fails
  <2> QED
    BY <2>1, <2>2, RemoveStep
<1> QED
  BY <1>1, <1>2, <1>3, <1>4, <1>5, <1>6 DEF FeatureRequests

\* Edits of nuances and configurations keep CatalogueInv.
LEMMA AiRequestStep ==
  ASSUME CatalogueInv, NEW h \in Editors, AiRequests(h)
  PROVE  CatalogueInv'
<1> USE DEF Rows
<1>0. RowTypes /\ requests \in Nat /\ Fresh \in Nat
  BY DEF CatalogueInv, TypeInv, RowTypes, Fresh
<1> USE DEF There, OnRows
<1>1. ASSUME NEW c \in Configs, ReadConfig(h, c) PROVE CatalogueInv'
  <2> DEFINE e == [Nothing EXCEPT !.text = Fresh]
  <2>1. e \in Edit
    BY <1>0, EditsOK
  <2>2. Read(h, "UpdateConfiguration", c, e)
    BY <1>1 DEF ReadConfig
  <2>3. IsLive(c)
    BY <1>1 DEF ReadConfig
  <2> HIDE DEF e
  <2> QED
    BY <2>1, <2>2, <2>3, ReadOne DEF PlanEdits, RowEdits, Creations
<1>2. ASSUME NEW n \in Nuances, FindNuance(h, n) PROVE CatalogueInv'
  BY <1>2, ReadOne DEF FindNuance, FindNuanceById, PlanEdits, RowEdits, Creations
<1>3. ASSUME NEW n \in Nuances, NEW k \in Keys, CheckNuance(h, n, k) PROVE CatalogueInv'
  <2> DEFINE more == [key |-> k, active |-> TRUE]
  <2>1. more.key \in Keys /\ more.active \in BOOLEAN
    OBVIOUS
  <2>2. Read(h, "CreateNuance", n, more)
    BY <1>3 DEF CheckNuance
  <2> HIDE DEF more
  <2> QED
    BY <2>1, <2>2, ReadOne DEF PlanEdits, RowEdits, Creations
<1>4. ASSUME NEW n \in Nuances, NEW e \in Edits, ReadNuance(h, n, e) PROVE CatalogueInv'
  <2>1. e \in Edit
    BY <1>0, EditsOK
  <2> QED
    BY <1>4, <2>1, ReadOne DEF ReadNuance, FindNuanceById, PlanEdits, RowEdits, Creations
<1>5. ASSUME NEW op \in RowEdits, UpdateRow(h, op) PROVE CatalogueInv'
  BY <1>5, EditStep DEF UpdateRow
<1>6. CASE CreateNuance(h)
  <2> DEFINE n == request[h].id
             r == New(request[h].more.key, requests, request[h].more.active)
  <2>1. Doing(h, "CreateNuance") /\ Done(h)
    BY <1>6 DEF CreateNuance
  <2>2. n \in Rows /\ request[h].more.key \in Keys
        /\ request[h].more.active \in BOOLEAN
    BY <2>1 DEF Doing, CatalogueInv, TypeInv, RequestsOK, RequestOK, Creations
  <2>3. r \in Row
    BY <1>0, <2>2, NewRow
  <2>4. (UNCHANGED rows /\ Unasked) \/ (Insert(n, r) /\ IntendNew(n, r))
    BY <1>6 DEF CreateNuance
  <2> QED
    BY <2>1, <2>2, <2>3, <2>4, QuietStep, InsertStep
<1>7. CASE DeleteNuance(h)
  BY <1>7, RemoveStep DEF DeleteNuance
<1>8. CASE UpdateConfiguration(h) \/ UpdateNuance(h)
  BY <1>5, <1>8 DEF UpdateConfiguration, UpdateNuance, RowEdits
<1> QED
  BY <1>1, <1>2, <1>3, <1>4, <1>6, <1>7, <1>8 DEF AiRequests

\* Requests about addresses keep CatalogueInv.
LEMMA AddressRequestStep ==
  ASSUME CatalogueInv, NEW h \in Editors, AddressRequests(h)
  PROVE  CatalogueInv'
<1> USE DEF Rows
<1>0. RowTypes /\ requests \in Nat /\ Fresh \in Nat \ {0}
  BY DEF CatalogueInv, TypeInv, RowTypes, Fresh
<1>1. ASSUME NEW a \in Addresses, NEW d \in BOOLEAN,
             AtOnce(h), Insert(a, New(None, Fresh, d)), IntendNew(a, New(None, Fresh, d))
      PROVE  CatalogueInv'
  <2>1. New(None, Fresh, d) \in Row
    BY <1>0, NewRow
  <2> QED
    BY <1>0, <1>1, <2>1, WriteRow, AtOnceStep
<1>2. CASE ReadDefault(h)
  <2>1. PICK a \in Addresses :
          Read(h, "UpdateBillingInfo", a, Fresh) /\ (IsLive(a) \/ rows[a] = Unused)
    BY <1>2 DEF ReadDefault, DefaultAddress, Ids
  <2> QED
    BY <1>0, <2>1, ReadOne DEF PlanEdits, RowEdits, Creations, There, OnRows
<1>3. CASE UpdateBillingInfo(h)
  <2> DEFINE i == request[h].id   r == request[h].row   t == request[h].more
  <2>1. Doing(h, "UpdateBillingInfo") /\ Done(h)
    BY <1>3 DEF UpdateBillingInfo
  <2>2. request[h] # None /\ i \in Rows /\ r \in Row /\ t \in Nat /\ t # 0
    BY <2>1 DEF Doing, CatalogueInv, TypeInv, RequestsOK, RequestOK
  <2> DEFINE e == [Nothing EXCEPT !.text = t]
  <2>3. \/ r # Unused /\ Save(i, [r EXCEPT !.text = t]) /\ IntendEdit(i, e)
        \/ \E a \in Ids : Insert(a, NewDefault(t)) /\ IntendNew(a, NewDefault(t))
    BY <1>3 DEF UpdateBillingInfo
  <2>4. UpToDate(request[h]) /\ r # Unused => r = rows[i] /\ IsLive(i)
    BY <2>1 DEF UpToDate, There, Doing
  <2>4a. e \in Edit /\ e.text = t /\ e.active = <<>> /\ e.limit = <<>>
    BY <1>0, <2>2, EditsOK DEF Nothing
  <2>4b. t # 0 => \A x \in Row : Named(x, e) = [[x EXCEPT !.text = t] EXCEPT !.st = "live"]
    BY <2>2, <2>4a DEF Named, Row
  <2> HIDE DEF i, r, t, e
  <2>5. CASE r # Unused /\ Save(i, [r EXCEPT !.text = t]) /\ IntendEdit(i, e)
    <3>1. [r EXCEPT !.text = t] \in Row
      BY <2>2 DEF Row
    <3>2. Told' /\ Due' = [Due EXCEPT ![i] = Named(Due[i], e)]
      BY <1>0, <2>2, <2>4a, <2>5, EditDue
    <3>3. rows' = [rows EXCEPT ![i] = Saved(i, [r EXCEPT !.text = t])]
      BY <2>5 DEF Save
    <3>4. rows' \in [Rows -> Row]
      BY <1>0, <2>2, <3>1, <3>3, StoredRow DEF RowTypes
    <3>5. rows = Due /\ UpToDate(request[h]) => rows' = Due'
      <4> SUFFICES ASSUME rows = Due, UpToDate(request[h]) PROVE rows' = Due'
        OBVIOUS
      <4>1. r = rows[i] /\ IsLive(i)
        BY <2>4, <2>5
      <4>2. Saved(i, [r EXCEPT !.text = t]) = [[r EXCEPT !.text = t] EXCEPT !.st = "live"]
        BY <4>1 DEF Saved
      <4>3. Named(rows[i], e) = [[r EXCEPT !.text = t] EXCEPT !.st = "live"]
        BY <2>2, <2>4b, <4>1
      <4> QED
        BY <3>2, <3>3, <4>2, <4>3
    <3> QED
      BY <2>1, <2>2, <3>2, <3>4, <3>5, DoneStep
  <2>6. ASSUME NEW a \in Ids, Insert(a, NewDefault(t)), IntendNew(a, NewDefault(t))
        PROVE  CatalogueInv'
    <3>1. a \in Rows /\ NewDefault(t) \in Row
      BY <2>2, NewRow DEF Ids, NewDefault
    <3> QED
      BY <2>1, <2>6, <3>1, InsertStep
  <2> QED
    BY <2>3, <2>5, <2>6
<1>4. CASE UpdateBillingAddress(h)
  BY <1>4, EditStep DEF UpdateBillingAddress, RowEdits
<1>5. ASSUME NEW a \in Addresses, CreateSubscription(h, a) PROVE CatalogueInv'
  BY <1>1, <1>5 DEF CreateSubscription
<1>6. ASSUME NEW a \in Addresses, NEW d \in BOOLEAN, CreateBillingAddress(h, a, d)
      PROVE  CatalogueInv'
  BY <1>1, <1>6 DEF CreateBillingAddress
<1>7. ASSUME NEW a \in Addresses, DeleteBillingAddress(h, a) PROVE CatalogueInv'
  BY <1>0, <1>7, RemoveRow, AtOnceStep DEF DeleteBillingAddress
<1>8. ASSUME NEW a \in Addresses, NEW e \in Edits, ReadAddress(h, a, e) PROVE CatalogueInv'
  <2>1. e \in Edit
    BY <1>0, EditsOK
  <2> QED
    BY <1>8, <2>1, ReadOne DEF ReadAddress, PlanEdits, RowEdits, Creations, There, OnRows
<1> QED
  BY <1>2, <1>3, <1>4, <1>5, <1>6, <1>7, <1>8 DEF AddressRequests

-----------------------------------------------------------------------------
(* The address in the settings *)

AddressEdits == {"UpdateBillingInfo", "UpdateBillingAddress"}

\* Requests for other rows hold none of an address.
Apart(q) ==
  /\ q.op \notin AddressEdits => q.id \notin Addresses
  /\ q.op = "UpdatePlan" => DOMAIN q.more.features \subseteq Features

\* The settings are about to be saved to the default address, or there is none.
Found(q) == IF rows[q.id] = Unused THEN DefaultAddress = {} ELSE q.id \in DefaultAddress

Shown(text) == \E a \in DefaultAddress : rows[a].text = text

SettingsInv ==
  /\ \A h \in Editors : request[h] # None => Apart(request[h])
  /\ calm => /\ settings # None => Shown(settings)
             /\ \A h \in Editors : Doing(h, "UpdateBillingInfo") => Found(request[h])

\* Of the addresses that are there and default, one is the first.
LEMMA SomeDefault ==
  ASSUME NEW a \in Addresses, IsLive(a), rows[a].active
  PROVE  DefaultAddress # {}
<1> DEFINE T == {i \in DOMAIN AddressOrder :
                  IsLive(AddressOrder[i]) /\ rows[AddressOrder[i]].active}
<1>1. DOMAIN AddressOrder \subseteq Nat
  BY CatalogueAssumption
<1>2. T \subseteq Nat /\ T # {}
  BY <1>1 DEF Addresses, Range
<1>3. PICK i \in T : \A j \in T : ~ (<<j, i>> \in OpToRel(<, Nat))
  BY <1>2, NatLessThanWellFounded, WFMin
<1>4. ASSUME NEW j \in DOMAIN AddressOrder, j < i PROVE j \notin T
  <2>1. i \in Nat /\ j \in Nat
    BY <1>1, <1>2
  <2>2. <<j, i>> \in OpToRel(<, Nat)
    BY <1>4, <2>1, Zenon DEF OpToRel
  <2> QED
    BY <1>3, <2>2
<1>5. \A k \in DOMAIN AddressOrder : AddressOrder[k] = AddressOrder[i] => k = i
  BY CatalogueAssumption DEF IsInjective
<1>6. AddressOrder[i] \in DefaultAddress
  BY <1>4, <1>5 DEF DefaultAddress, Addresses, Range
<1> QED
  BY <1>6

\* What is default depends on the addresses only, and on nothing but whether they are there and
\* marked as default.
LEMMA SameDefault ==
  ASSUME \A a \in Addresses : (IsLive(a)' <=> IsLive(a)) /\ rows'[a].active = rows[a].active
  PROVE  DefaultAddress' = DefaultAddress
  BY DEF DefaultAddress, Addresses, Range

\* If no address changes, the default and what is shown do not.
LEMMA SameShown ==
  ASSUME \A a \in Addresses : rows'[a] = rows[a]
  PROVE  DefaultAddress' = DefaultAddress /\ \A t : Shown(t)' <=> Shown(t)
<1>1. DefaultAddress' = DefaultAddress
  BY SameDefault DEF IsLive
<1> QED
  BY <1>1 DEF Shown, DefaultAddress

\* A request that has only read keeps SettingsInv.
LEMMA ReadKeepsSettings ==
  ASSUME CatalogueInv, SettingsInv, NEW h \in Editors, NEW op, NEW i, NEW more,
         Read(h, op, i, more),
         op \notin AddressEdits => i \notin Addresses,
         op = "UpdatePlan" => DOMAIN more.features \subseteq Features,
         op = "UpdateBillingInfo" =>
           IF rows[i] = Unused THEN DefaultAddress = {} ELSE i \in DefaultAddress
  PROVE  SettingsInv'
<1> DEFINE q == [op |-> op, id |-> i, row |-> rows[i], more |-> more]
<1>1. request' = [request EXCEPT ![h] = q] /\ UNCHANGED <<rows, settings>>
        /\ calm' = (calm /\ Under = {})
  BY DEF Read, Arrives
<1>2. q.op = op /\ q.id = i /\ q.more = more
  OBVIOUS
<1> HIDE DEF q
<1>3. request'[h] = q /\ \A g \in Editors \ {h} : request'[g] = request[g]
  BY <1>1 DEF CatalogueInv, TypeInv, RequestsOK
<1>4. DefaultAddress' = DefaultAddress /\ \A t : Shown(t)' <=> Shown(t)
  BY <1>1, SameShown
<1>5. \A g \in Editors : request'[g] # None => Apart(request'[g])
  BY <1>2, <1>3 DEF SettingsInv, Apart
<1>6. ASSUME NEW g \in Editors, calm', Doing(g, "UpdateBillingInfo")'
      PROVE  IF rows'[request'[g].id] = Unused THEN DefaultAddress' = {}
             ELSE request'[g].id \in DefaultAddress'
  <2>1. g = h
    BY <1>1, <1>3, <1>6 DEF Under, Doing
  <2> QED
    BY <1>1, <1>2, <1>3, <1>4, <1>6, <2>1 DEF Doing
<1> QED
  BY <1>1, <1>4, <1>5, <1>6 DEF SettingsInv, Found, Apart

\* A statement that is all of a request, or the last of one.
LEMMA WriteKeepsSettings ==
  ASSUME CatalogueInv, SettingsInv, NEW h \in Editors, AtOnce(h) \/ (request[h] # None /\ Done(h)),
         calm /\ settings' # None => Shown(settings)'
  PROVE  SettingsInv'
<1>1. /\ \A g \in Editors : request'[g] # None => request'[g] = request[g]
      /\ calm' => calm /\ \A g \in Editors : request'[g] = None
  <2>1. CASE AtOnce(h)
    BY <2>1 DEF AtOnce, Arrives, Under
  <2>2. CASE request[h] # None /\ Done(h)
    <3>1. request'[h] = None /\ calm' = calm /\ \A g \in Editors \ {h} : request'[g] = request[g]
      BY <2>2 DEF Done, CatalogueInv, TypeInv, RequestsOK
    <3> QED
      BY <2>2, <3>1 DEF CatalogueInv, CalmInv
  <2> QED
    BY <2>1, <2>2
<1>2. \A g \in Editors : request'[g] # None => Apart(request'[g])
  BY <1>1 DEF SettingsInv
<1>3. calm' => \A g \in Editors : ~Doing(g, "UpdateBillingInfo")'
  BY <1>1 DEF Doing
<1> QED
  BY <1>1, <1>2, <1>3 DEF SettingsInv, Apart

\* One that writes no address.
LEMMA ElsewhereKeepsSettings ==
  ASSUME CatalogueInv, SettingsInv, NEW h \in Editors, AtOnce(h) \/ (request[h] # None /\ Done(h)),
         UNCHANGED settings, \A a \in Addresses : rows'[a] = rows[a]
  PROVE  SettingsInv'
  BY SameShown, WriteKeepsSettings DEF SettingsInv

\* Rows of other tables than the addresses'.
LEMMA OtherTables ==
  ASSUME CatalogueInv, NEW i, i \notin Addresses, NEW r,
         \/ rows' = rows \/ Insert(i, r) \/ Save(i, r) \/ Remove(i)
  PROVE  \A a \in Addresses : rows'[a] = rows[a]
<1>1. rows \in [Rows -> Row] /\ Addresses \subseteq Rows
  BY DEF CatalogueInv, TypeInv, RowTypes, Rows
<1> QED
  BY <1>1 DEF Insert, Save, Remove

\* Edits of plans keep SettingsInv.
LEMMA PlanSettings ==
  ASSUME CatalogueInv, SettingsInv, NEW h \in Editors, PlanRequests(h)
  PROVE  SettingsInv'
<1> USE DEF Kept
<1>0. \A p \in Plans \cup Features : p \notin Addresses
  BY CatalogueAssumption
<1>1. ASSUME NEW p \in Plans, NEW k \in Keys, NEW l \in {0, DefaultLimit}, CreatePlan(h, p, k, l)
      PROVE  SettingsInv'
  <2>1. \E r : rows' = rows \/ Insert(p, r)
    BY <1>1 DEF CreatePlan, Fails
  <2> QED
    BY <1>0, <1>1, <2>1, OtherTables, ElsewhereKeepsSettings DEF CreatePlan
<1>2. ASSUME NEW p \in Plans, NEW k \in Keys, ReadFeature(h, p, k) PROVE SettingsInv'
  <2>1. PICK f \in FeatureByKey(k) : Read(h, "AddFeature", f, p)
    BY <1>2 DEF ReadFeature
  <2> QED
    BY <1>0, <2>1, ReadKeepsSettings DEF FeatureByKey, AddressEdits
<1>3. ASSUME NEW p \in Plans, DeletePlan(h, p) PROVE SettingsInv'
  <2>1. rows' = rows \/ Remove(p)
    BY <1>3 DEF DeletePlan, DeletePlanRow, Fails
  <2> QED
    BY <1>0, <1>3, <2>1, OtherTables, ElsewhereKeepsSettings DEF DeletePlan
<1>4. ASSUME NEW p \in Plans, NEW e \in Edits \cup LimitEdits, ReadPlan(h, p, e)
      PROVE  SettingsInv'
  <2> DEFINE more == [edit |-> e, features |-> [f \in LinksOf(p) |-> rows[f]]]
  <2>1. Read(h, "UpdatePlan", p, more)
    BY <1>4 DEF ReadPlan
  <2>2. DOMAIN more.features \subseteq Features
    BY DEF LinksOf
  <2> HIDE DEF more
  <2> QED
    BY <1>0, <2>1, <2>2, ReadKeepsSettings DEF AddressEdits
<1>5. ASSUME NEW p \in Plans, NEW f \in Features, RemoveFeature(h, p, f) PROVE SettingsInv'
  BY <1>5, ElsewhereKeepsSettings DEF RemoveFeature, RemoveFeatureFromPlan
<1>6. CASE UpdatePlan(h)
  <2> DEFINE i == request[h].id
             read == request[h].more.features
  <2>1. request[h] # None /\ Done(h) /\ settings' = settings
    BY <1>6 DEF UpdatePlan, Doing
  <2>2. i \notin Addresses /\ DOMAIN read \subseteq Features
    BY <1>6, <2>1 DEF UpdatePlan, Doing, SettingsInv, Apart, AddressEdits
  <2>3. \A a \in Addresses : rows'[a] = rows[a]
    <3>1. CASE rows' = rows
      BY <3>1
    <3>2. ASSUME NEW r, UpdatePlanRow(i, r, read) PROVE \A a \in Addresses : rows'[a] = rows[a]
      <4>1. rows' = [j \in Rows |-> IF j = i THEN Saved(i, r)
                                   ELSE IF j \in DOMAIN read /\ ~IsLive(j) THEN Stored(j, read[j])
                                   ELSE rows[j]]
        BY <3>2 DEF UpdatePlanRow
      <4> HIDE DEF i, read
      <4> QED
        BY <1>0, <2>2, <4>1 DEF Rows
    <3> QED
      BY <1>6, <3>1, <3>2 DEF UpdatePlan, Fails
  <2> QED
    BY <2>1, <2>3, ElsewhereKeepsSettings
<1>7. CASE AddFeature(h)
  <2>1. request[h] # None /\ Done(h) /\ settings' = settings /\ request[h].id \notin Addresses
    BY <1>7 DEF AddFeature, Doing, SettingsInv, Apart, AddressEdits
  <2>2. rows' = rows \/ Insert(request[h].id, Blank)
    BY <1>7 DEF AddFeature, AddFeatureToPlan, Fails
  <2> QED
    BY <2>1, <2>2, OtherTables, ElsewhereKeepsSettings
<1> QED
  BY <1>1, <1>2, <1>3, <1>4, <1>5, <1>6, <1>7 DEF PlanRequests

\* The last statement of a request for a feature, a nuance or a configuration.
LEMMA LastElsewhere ==
  ASSUME CatalogueInv, SettingsInv, NEW h \in Editors, NEW op, op \notin AddressEdits, Doing(h, op),
         Done(h),
         UNCHANGED settings,
         NEW r,
         rows' = rows \/ Insert(request[h].id, r) \/ Save(request[h].id, r) \/ Remove(request[h].id)
  PROVE  SettingsInv'
<1>1. request[h] # None /\ request[h].id \notin Addresses
  BY DEF Doing, SettingsInv, Apart
<1> QED
  BY <1>1, OtherTables, ElsewhereKeepsSettings

\* Edits of features keep SettingsInv.
LEMMA FeatureSettings ==
  ASSUME CatalogueInv, SettingsInv, NEW h \in Editors, FeatureRequests(h)
  PROVE  SettingsInv'
<1> USE DEF Kept, AddressEdits
<1>0. \A f \in Features : f \notin Addresses
  BY CatalogueAssumption
<1>1. ASSUME NEW f \in Features,
             FindFeature(h, f) \/ \E k \in Keys, a \in BOOLEAN : CheckFeature(h, f, k, a)
      PROVE  SettingsInv'
  BY <1>0, <1>1, ReadKeepsSettings DEF FindFeature, CheckFeature
<1>2. ASSUME NEW f \in Features, NEW e \in Edits, ReadFeatureRow(h, f, e) PROVE SettingsInv'
  BY <1>0, <1>2, ReadKeepsSettings DEF ReadFeatureRow
<1>3. CASE CreateFeature(h)
  <2>1. PICK r : rows' = rows \/ Insert(request[h].id, r)
    BY <1>3 DEF CreateFeature, Fails
  <2> QED
    BY <1>3, <2>1, LastElsewhere DEF CreateFeature
<1>4. CASE UpdateFeature(h)
  <2>1. PICK r : rows' = rows \/ Save(request[h].id, r)
    BY <1>4 DEF UpdateFeature, Fails
  <2> QED
    BY <1>4, <2>1, LastElsewhere DEF UpdateFeature
<1>5. CASE DeleteFeature(h)
  <2>1. rows' = rows \/ Remove(request[h].id)
    BY <1>5 DEF DeleteFeature, DeleteFeatureRow, Fails
  <2> QED
    BY <1>5, <2>1, LastElsewhere DEF DeleteFeature
<1> QED
  BY <1>1, <1>2, <1>3, <1>4, <1>5 DEF FeatureRequests

\* Edits of nuances and configurations keep SettingsInv.
LEMMA AiSettings ==
  ASSUME CatalogueInv, SettingsInv, NEW h \in Editors, AiRequests(h)
  PROVE  SettingsInv'
<1> USE DEF Kept, AddressEdits
<1>0. \A n \in Nuances \cup Configs : n \notin Addresses
  BY CatalogueAssumption DEF Soft
<1>1. ASSUME NEW c \in Configs, ReadConfig(h, c) PROVE SettingsInv'
  BY <1>0, <1>1, ReadKeepsSettings DEF ReadConfig
<1>2. ASSUME NEW n \in Nuances, FindNuance(h, n) \/ \E k \in Keys : CheckNuance(h, n, k)
      PROVE  SettingsInv'
  BY <1>0, <1>2, ReadKeepsSettings DEF FindNuance, CheckNuance
<1>3. ASSUME NEW n \in Nuances, NEW e \in Edits, ReadNuance(h, n, e) PROVE SettingsInv'
  BY <1>0, <1>3, ReadKeepsSettings DEF ReadNuance
<1>4. CASE CreateNuance(h)
  <2>1. PICK r : rows' = rows \/ Insert(request[h].id, r)
    BY <1>4 DEF CreateNuance
  <2> QED
    BY <1>4, <2>1, LastElsewhere DEF CreateNuance
<1>5. CASE UpdateConfiguration(h) \/ UpdateNuance(h)
  BY <1>5, LastElsewhere DEF UpdateConfiguration, UpdateNuance, UpdateRow
<1>6. CASE DeleteNuance(h)
  BY <1>6, LastElsewhere DEF DeleteNuance
<1> QED
  BY <1>1, <1>2, <1>3, <1>4, <1>5, <1>6 DEF AiRequests

\* Requests about addresses keep SettingsInv.
LEMMA AddressSettings ==
  ASSUME CatalogueInv, SettingsInv, NEW h \in Editors, AddressRequests(h)
  PROVE  SettingsInv'
<1> USE DEF AddressEdits
<1>0. rows \in [Rows -> Row] /\ Addresses \subseteq Rows
  BY DEF CatalogueInv, TypeInv, RowTypes, Rows
<1>1. CASE ReadDefault(h)
  <2>1. PICK a : /\ Read(h, "UpdateBillingInfo", a, Fresh)
                 /\ IF rows[a] = Unused THEN DefaultAddress = {} ELSE a \in DefaultAddress
    <3>1. \A a \in DefaultAddress : rows[a] # Unused
      BY DEF DefaultAddress, IsLive, Unused
    <3> QED
      BY <1>1, <3>1 DEF ReadDefault, Ids
  <2> QED
    BY <2>1, ReadKeepsSettings
<1>2. CASE UpdateBillingInfo(h)
  <2> DEFINE q == request[h]
  <2>1. request[h] # None /\ Done(h) /\ settings' = q.more /\ Doing(h, "UpdateBillingInfo")
    BY <1>2 DEF UpdateBillingInfo, Doing
  <2>2. ASSUME calm PROVE Shown(settings)'
    <3>1. q.row = rows[q.id] /\ q.id \in Rows /\ q.row \in Row
      BY <2>1, <2>2 DEF CatalogueInv, CalmInv, UpToDate, TypeInv, RequestsOK, RequestOK
    <3>2. IF q.row = Unused THEN DefaultAddress = {} ELSE q.id \in DefaultAddress
      BY <2>1, <2>2, <3>1 DEF SettingsInv, Found
    <3>3. CASE q.row # Unused
      <4>1. rows' = [rows EXCEPT ![q.id] = [[q.row EXCEPT !.text = q.more] EXCEPT !.st = "live"]]
        BY <1>2, <3>1, <3>2, <3>3 DEF UpdateBillingInfo, Save, Saved, DefaultAddress
      <4>2. q.id \in DefaultAddress /\ IsLive(q.id)
        BY <3>2, <3>3 DEF DefaultAddress
      <4>3. /\ rows'[q.id].st = "live" /\ rows'[q.id].text = q.more
            /\ rows'[q.id].active = rows[q.id].active
            /\ \A a \in Addresses \ {q.id} : rows'[a] = rows[a]
        <5>1. rows'[q.id] = [[q.row EXCEPT !.text = q.more] EXCEPT !.st = "live"]
          BY <1>0, <3>1, <4>1
        <5>2. \A r \in Row : \A t : LET w == [[r EXCEPT !.text = t] EXCEPT !.st = "live"]
                                IN  w.st = "live" /\ w.text = t /\ w.active = r.active
          BY DEF Row
        <5> HIDE DEF q
        <5> QED
          BY <1>0, <3>1, <4>1, <5>1, <5>2
      <4>4. DefaultAddress' = DefaultAddress
        BY <4>2, <4>3, SameDefault DEF IsLive
      <4> QED
        BY <2>1, <4>2, <4>3, <4>4 DEF Shown
    <3>4. CASE q.row = Unused
      <4>1. PICK a \in Ids : Insert(a, NewDefault(q.more))
        BY <1>2, <3>4 DEF UpdateBillingInfo
      <4>2. /\ a \in Addresses /\ rows'[a] = Stored(a, NewDefault(q.more))
            /\ \A b \in Addresses \ {a} : rows'[b] = rows[b]
        BY <1>0, <4>1 DEF Ids, Insert
      <4>3. \A b \in Addresses \ {a} : ~(IsLive(b)' /\ rows'[b].active)
        BY <3>2, <3>4, <4>2, SomeDefault DEF IsLive
      <4>4. rows'[a].st = "live" /\ rows'[a].active /\ rows'[a].text = q.more
        BY <4>2 DEF NewDefault, New, Stored, Filled
      <4>5. ASSUME NEW i \in DOMAIN AddressOrder, NEW j \in DOMAIN AddressOrder,
                   AddressOrder[i] = a, j < i
            PROVE  ~(IsLive(AddressOrder[j])' /\ rows'[AddressOrder[j]].active)
        <5>1. AddressOrder[j] \in Addresses /\ i \in Nat /\ j \in Nat
          BY CatalogueAssumption DEF Addresses, Range
        <5>2. AddressOrder[j] # a
          BY <4>5, <5>1, CatalogueAssumption DEF IsInjective
        <5> QED
          BY <4>3, <5>1, <5>2
      <4>6. a \in DefaultAddress'
        BY <4>2, <4>4, <4>5 DEF DefaultAddress, IsLive
      <4> QED
        BY <2>1, <4>4, <4>6 DEF Shown
    <3> QED
      BY <3>3, <3>4
  <2> QED
    BY <2>1, <2>2, WriteKeepsSettings
<1>3. ASSUME NEW a \in Addresses, CreateSubscription(h, a) \/ DeleteBillingAddress(h, a)
      PROVE  SettingsInv'
  BY <1>3, WriteKeepsSettings DEF CreateSubscription, DeleteBillingAddress, Others
<1>4. ASSUME NEW a \in Addresses, NEW d \in BOOLEAN, CreateBillingAddress(h, a, d)
      PROVE  SettingsInv'
  BY <1>4, WriteKeepsSettings DEF CreateBillingAddress, Others
<1>5. CASE UpdateBillingAddress(h)
  BY <1>5, WriteKeepsSettings DEF UpdateBillingAddress, Others, Doing
<1>6. ASSUME NEW a \in Addresses, NEW e \in Edits, ReadAddress(h, a, e) PROVE SettingsInv'
  BY <1>6, ReadKeepsSettings DEF ReadAddress
<1> QED
  BY <1>1, <1>2, <1>3, <1>4, <1>5, <1>6 DEF AddressRequests

\* Every step keeps SettingsInv.
LEMMA SettingsStep == CatalogueInv /\ SettingsInv /\ [CatalogueNext]_catalogue => SettingsInv'
<1> SUFFICES ASSUME CatalogueInv, SettingsInv, [CatalogueNext]_catalogue PROVE SettingsInv'
  OBVIOUS
<1>1. CASE CatalogueNext
  BY <1>1, PlanSettings, FeatureSettings, AiSettings, AddressSettings DEF CatalogueNext
<1>2. CASE UNCHANGED catalogue
  <2>1. UNCHANGED <<rows, request, settings, calm>>
    BY <1>2 DEF catalogue
  <2>2. DefaultAddress' = DefaultAddress /\ \A t : Shown(t)' <=> Shown(t)
    BY <2>1, SameShown
  <2> QED
    BY <2>1, <2>2 DEF SettingsInv, Apart, Found, Doing
<1> QED
  BY <1>1, <1>2

-----------------------------------------------------------------------------
(* Theorems *)

\* There is nothing to lose at first.
LEMMA InitCatalogue == CatalogueInit => CatalogueInv
<1> SUFFICES ASSUME CatalogueInit PROVE CatalogueInv
  OBVIOUS
<1>1. Unused \in Row
  BY DEF Unused, Row, DefaultLimit
<1>2. \A i \in DOMAIN Seeded : New(Seeded[i], 0, TRUE) \in Row
  BY CatalogueAssumption, NewRow
<1>3. rows \in [Rows -> Row] /\ meant = rows /\ replaced = [i \in Rows |-> {}]
  BY <1>1, <1>2 DEF CatalogueInit
<1>3a. Told
  BY <1>3 DEF Told
<1>3b. rows = Due
  <2>1. \A r \in Row : Filled(r, {}) = r
    BY DEF Filled, Row
  <2>2. Due = [i \in Rows |-> rows[i]]
    BY <1>3, <2>1 DEF Due
  <2> QED
    BY <1>3, <2>2
<1>4. request = [h \in Editors |-> request[h]] /\ \A h \in Editors : request[h] = None
  BY DEF CatalogueInit
<1>5. requests \in Nat
  BY DEF CatalogueInit
<1> QED
  BY <1>3, <1>3a, <1>3b, <1>4, <1>5 DEF CatalogueInv, TypeInv, RowTypes, RequestsOK, CalmInv

\* Every step keeps CatalogueInv.
LEMMA NextCatalogue == CatalogueInv /\ [CatalogueNext]_catalogue => CatalogueInv'
<1> SUFFICES ASSUME CatalogueInv, [CatalogueNext]_catalogue PROVE CatalogueInv'
  OBVIOUS
<1>1. CASE CatalogueNext
  BY <1>1, PlanRequestStep, FeatureRequestStep, AiRequestStep, AddressRequestStep DEF CatalogueNext
<1>2. CASE UNCHANGED catalogue
  <2>1. rows' = rows /\ Unasked /\ request' = request /\ requests' = requests /\ calm' = calm
    BY <1>2 DEF catalogue, Unasked
  <2>2. Told' /\ Due' = Due
    BY <2>1, DueKept DEF CatalogueInv, TypeInv
  <2> QED
    BY <2>1, <2>2
       DEF CatalogueInv, TypeInv, RowTypes, RequestsOK, RequestOK, CalmInv, UpToDate, There, IsLive
<1> QED
  BY <1>1, <1>2

\* As long as requests come one after the other, each part of a row is what was asked for last,
\* although each of them writes the whole row (plan/manager.go:49, feature/manager.go:56), but for
\* the parts whose default an insert put in the place of a false or a zero.
THEOREM EditsStay == CatalogueSpec => []EditsAreKept
<1>1. CatalogueInv => EditsAreKept
  BY DEF CatalogueInv, CalmInv, EditsAreKept, Due
<1> QED
  BY <1>1, InitCatalogue, NextCatalogue, PTL DEF CatalogueSpec

\* As long as requests come one after the other, what the user saved in the settings last is in
\* the first of the default addresses, unless an address was written elsewhere since, although
\* every checkout leaves a default address of its own (user_service.go:346-419).
THEOREM SettingsStay == CatalogueSpec => []SettingsShowWhatWasSaved
<1>1. CatalogueInit => SettingsInv
  BY DEF CatalogueInit, SettingsInv, Doing
<1>2. SettingsInv => SettingsShowWhatWasSaved
  BY DEF SettingsInv, Shown, SettingsShowWhatWasSaved
<1> QED
  BY <1>1, <1>2, InitCatalogue, NextCatalogue, SettingsStep, PTL DEF CatalogueSpec
=============================================================================
