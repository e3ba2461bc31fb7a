------------------------------ MODULE MCUsage ------------------------------
(* Instances of Usage for TLC. *)
EXTENDS Usage, TLC

Limits(chat, search) == [on    |-> [k \in Kinds |-> TRUE],
                         limit |-> [k \in Kinds |-> IF k = "chat" THEN chat ELSE search]]
SmallPlans  == {Limits(0, -1), Limits(1, 2)}
OnePlan     == {Limits(1, 1)}
JustThree   == {3}
HandlerSymmetry == Permutations(Handlers)
=============================================================================
