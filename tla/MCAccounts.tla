----------------------------- MODULE MCAccounts -----------------------------
(* An instance of Accounts for TLC. *)
EXTENDS Accounts, TLC

CONSTANTS u1, u2, m1, h1, h2, l1
MCWritten == {"sessions", "messages"}
Symmetry  == Permutations(Users) \cup Permutations(Handlers)
=============================================================================
