--------------------------- MODULE RefundWorkflow ---------------------------
(***************************************************************************)
(* What the refund API promises (docs/frontend_refund_api.md): a request   *)
(* is made for a subscription that has no live request, an admin decides a *)
(* pending request once, and an admin may also record a refund directly.   *)
(* Billing, with one handler at a time, implements it; with two it does    *)
(* not: both admins pass the test of the status.                           *)
(***************************************************************************)
CONSTANTS Requests, Subscriptions

VARIABLES status,   \* status of each request
          about     \* the subscription each request is about

Live(s) == \E r \in Requests : about[r] = s /\ status[r] \in {"pending", "approved"}

Init == /\ status = [r \in Requests |-> "none"]
        /\ about \in [Requests -> {0}]

Request(r, s) ==
  /\ status[r] = "none" /\ ~Live(s)
  /\ status' = [status EXCEPT ![r] = "pending"]
  /\ about' = [about EXCEPT ![r] = s]

Decide(r, decision) ==
  /\ status[r] = "pending"
  /\ status' = [status EXCEPT ![r] = decision]
  /\ UNCHANGED about

Record(r, s) ==
  /\ status[r] = "none"
  /\ status' = [status EXCEPT ![r] = "processed"]
  /\ about' = [about EXCEPT ![r] = s]

Next == \E r \in Requests :
          \/ \E s \in Subscriptions : Request(r, s) \/ Record(r, s)
          \/ \E d \in {"approved", "rejected"} : Decide(r, d)

Spec == Init /\ [][Next]_<<status, about>>
=============================================================================
