------------------------------- MODULE MCChat -------------------------------
(* An instance of Chat for TLC: a plain question, a prefix of each kind, an *)
(* empty prefix, and a reference.                                           *)
EXTENDS Chat, TLC

CONSTANTS h1, h2, n1, n2

P(m, e, r) == [mode |-> m, empty |-> e, refs |-> r]
MCPrompts == {P("RAG", FALSE, FALSE), P("BYPASS", FALSE, FALSE), P("RAG_NUANCE", TRUE, FALSE),
              P("BYPASS_NUANCE", FALSE, FALSE), P("RAG", FALSE, TRUE)}
Symmetry  == Permutations(Handlers) \cup Permutations(Notes)
=============================================================================
