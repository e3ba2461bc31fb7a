--------------------------- MODULE MCNotifications ---------------------------
(* An instance of Notifications for TLC: an event for the admins beside one *)
(* for a user, a broadcast, or one of an inactive type.                     *)
EXTENDS Notifications, TLC

CONSTANTS e1, e2, ann, ben
MCTables  == {[e \in Events |-> IF e = e1 THEN "ADMIN" ELSE t] :
                t \in {"SELF", "BROADCAST", "off"}}
MCSubject == [e \in Events |-> ann]
=============================================================================
