---------------------------- MODULE MCCatalogue ----------------------------
(* Catalogue for TLC: one row of each kind to begin with, and room for another. *)
EXTENDS Catalogue, TLC

CONSTANTS p1, p2, f1, f2, n1, n2, c1, a1, a2

MCSeeded == p1 :> "k1" @@ f1 :> "k1" @@ n1 :> "k1" @@ c1 :> "k1"
MCOrder  == <<a1, a2>>
=============================================================================
