------------------------------- MODULE Access -------------------------------
(***************************************************************************)
(* What a user's subscription rows entitle the user to.  Three services    *)
(* answer that question, each with a selection loop of its own over the    *)
(* rows ordered by created_at DESC:                                        *)
(*   - plan_service.getUserPlan, repeated word for word by the RAG access  *)
(*     verifier: which plan's limits apply;                                *)
(*   - payment_service.GetSubscriptionStatus: what the settings page shows;*)
(*   - payment_service.ValidateSubscription: the expiration check.         *)
(* A table is a function from row numbers to rows; numbers are given out   *)
(* in creation order, so the greater number is the more recent row.        *)
(***************************************************************************)
EXTENDS Integers

CONSTANT GraceDays   \* ValidateSubscription's gracePeriodDays, in clock ticks
ASSUME GraceDaysAssumption == GraceDays \in Nat

SubStatus == {"active", "inactive", "canceled"}
PayStatus == {"pending", "success", "failed", "refunded", "paid"}

(* sub.CurrentPeriodEnd.After(time.Now()) *)
InPeriod(row, now) == row.end > now

(* The row a scan of the rows in S, newest first, stops at. *)
Newest(S) == CHOOSE i \in S : \A j \in S : j <= i

\* Fault: a canceled row no longer entitles (the behaviour before v1.6.2).
FaultEntitling(table, S, now) ==
  {i \in S : /\ InPeriod(table[i], now)
             /\ table[i].st = "active" \/ table[i].pay = "success"}

(* The rows the loop of getUserPlan and of both Verify functions accepts. *)
Entitling(table, S, now) ==
  {i \in S : /\ InPeriod(table[i], now)
             /\ \/ table[i].st \in {"active", "canceled"}
                \/ table[i].pay = "success"}

HasPlan(table, S, now) == Entitling(table, S, now) # {}

(* GetSubscriptionStatus: two loops, the second only if the first finds no *)
(* row; IsActive is TRUE when either does.                                 *)
StatusRows(table, S, now) ==
  LET active == {i \in S : table[i].st = "active" /\ InPeriod(table[i], now)}
      paid   == {i \in S : table[i].pay = "success" /\ InPeriod(table[i], now)}
  IN  IF active # {} THEN active ELSE paid

ShownActive(table, S, now) == StatusRows(table, S, now) # {}

(* The rows ValidateSubscription's loop accepts. *)
Validating(table, S, now) ==
  {i \in S : \/ table[i].st = "active" /\ table[i].pay = "success"
             \/ table[i].st = "canceled" /\ InPeriod(table[i], now)}

(* ValidateSubscription: the Status it returns. *)
Validation(table, S, now) ==
  LET chosen == Newest(Validating(table, S, now))
  IN  CASE S = {} -> "free_tier"
        [] S # {} /\ Validating(table, S, now) = {} ->
             IF \E i \in S : table[i].st = "canceled" THEN "canceled" ELSE "inactive"
        [] Validating(table, S, now) # {} /\ InPeriod(table[chosen], now) -> "active"
        [] Validating(table, S, now) # {} /\ ~InPeriod(table[chosen], now) ->
             IF now < table[chosen].end + GraceDays THEN "grace_period" ELSE "expired"

(* IsValid of the same response. *)
IsValid(table, S, now) == Validation(table, S, now) = "active"
=============================================================================
