------------------------------- MODULE MCHub -------------------------------
(* An instance of Hub for TLC: a user with two devices, one of them        *)
(* connected from the start.                                               *)
EXTENDS Hub, TLC

CONSTANTS phone, tablet, ann
MCOwner == [x \in Clients |-> ann]
One == [x \in Users |-> <<phone>>]
=============================================================================
