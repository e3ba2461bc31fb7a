-------------------------- MODULE BillingInvariant --------------------------
(***************************************************************************)
(* The inductive strengthening of Billing's safety invariants.  The tables *)
(* alone are not inductive: what makes a Save harmless is a fact about the *)
(* copy its handler read earlier.  The facts about a row are therefore     *)
(* stated once, for any row, with the clock, the notifications sent, the   *)
(* rows granted and the refund table as parameters, and IInv states them   *)
(* both of the tables and of every handler's copy.                         *)
(***************************************************************************)
EXTENDS Billing

SettledIn(s, S)   == [order |-> s, kind |-> "settlement"] \in S
Backed(s, S, G)   == SettledIn(s, S) \/ s \in G
Decided           == {"approved", "rejected", "processed"}
Requested         == {"pending", "approved", "rejected"}

\* What holds of every row of subscription s, stored or held in a copy, at time t.
RowOK(s, row, t, S, G) ==
  /\ row.pay = "success" => SettledIn(s, S)
  /\ row.st = "active" => Backed(s, S, G)
  /\ row.st = "canceled" => Backed(s, S, G) \/ row.end <= t
  /\ row.end <= row.start + row.len \/ row.end <= t

\* A row marked refunded has its record in the refund table R.
RecordOK(s, row, R) ==
  row.pay = "refunded" => \E r \in Refunds : R[r].on = s /\ R[r].st \in Decided

HoldsRow    == {"webhook", "cancelNow", "adminRefund", "processSub", "approveCommit"}
NeedsBacked == {"cancelNow", "processSub", "cancelCheck", "cancelInsert"}
Reviewing   == {"approve", "approveCommit", "reject"}

\* What handler p knows at each of its program points.
LocalOK(p) ==
  LET l == loc[p] IN
  /\ pc[p] \notin {"idle", "upgrade"} => l.s \in Subs
  /\ pc[p] \in HoldsRow \/ (pc[p] = "upgrade" /\ l.s # 0)
       => RowOK(l.s, l.row, now, sent, granted)
  /\ pc[p] \in HoldsRow \ {"approveCommit"} \/ (pc[p] = "upgrade" /\ l.s # 0)
       => RecordOK(l.s, l.row, refund)
  /\ pc[p] \in NeedsBacked \/ (pc[p] = "upgrade" /\ l.s # 0)
       => Backed(l.s, sent, granted)
  /\ pc[p] \in {"refundCheck", "refundInsert"} => SettledIn(l.s, sent)
  /\ pc[p] \in Reviewing => /\ l.id \in Refunds
                            /\ refund[l.id].on = l.s
                            /\ refund[l.id].st \in Requested
  /\ pc[p] \in {"processSub", "processMark"} => /\ l.id \in Cancels /\ l.id <= ncan
                                                /\ l.act \in {"approved", "rejected"}

RowsOK    == \A s \in Subs : /\ RowOK(s, sub[s], now, sent, granted)
                             /\ RecordOK(s, sub[s], refund)
RefundsOK == \A r \in Refunds :
               /\ refund[r].st # "none" => refund[r].on \in Subs /\ r <= nref
               /\ refund[r].st \in Requested => SettledIn(refund[r].on, sent)
CancelsOK == \A c \in Cancels :
               /\ cancel[c].st # "none" => c <= ncan
               /\ c <= ncan => cancel[c].on \in Subs /\ Backed(cancel[c].on, sent, granted)
LocalsOK  == \A p \in Handlers : LocalOK(p)

IInv == TypeOK /\ RowsOK /\ RefundsOK /\ CancelsOK /\ LocalsOK
=============================================================================
