------------------------------ MODULE Grounding ------------------------------
(***************************************************************************)
(* What a chat message does to the state kept of its session: the notes    *)
(* found and offered (candidates), the note being talked about (focus),    *)
(* and whether the user is browsing or focused.  Given that state and the  *)
(* intent a language model has read from the message, each operator is the *)
(* set of updates the grounder may make: a function from the fields it     *)
(* assigns.  Searches, filters and loads end as they like.                 *)
(***************************************************************************)
EXTENDS Naturals, Sequences

CONSTANTS
  Notes,
  All,          \* the focus on all candidates together ("aggregated")
  Nil,          \* no focus
  MaxHits, MaxPicks \* bounds: notes a search finds, numbers the filter names

ASSUME GroundingAssumption ==
  /\ All \notin Notes /\ Nil \notin Notes /\ All # Nil
  /\ MaxHits \in Nat \ {0} /\ MaxPicks \in Nat \ {0}

Focus  == Notes \cup {All, Nil}
States == {"BROWSING", "FOCUSED"}
Fields == [cands : Seq(Notes), focus : Focus, state : States]

UpTo(n, S) == UNION {[1..k -> S] : k \in 0..n}

\* A search: the notes above the threshold, each once.
Hits == {r \in UpTo(MaxHits, Notes) : \A i, j \in DOMAIN r : r[i] = r[j] => i = j}

\* The numbers a language model names as relevant: a number out of range is dropped, one
\* may come twice, and it says "none" with no number.  A failed call keeps all.
Picks(r) == UpTo(MaxPicks, DOMAIN r) \cup {[i \in DOMAIN r |-> i]}

\* As many numbers as results: the results stay as they are.
Picked(r, ns) == IF Len(ns) = Len(r) THEN r ELSE [i \in DOMAIN ns |-> r[ns[i]]]

Unchanged      == [f \in {} |-> Nil]
Selects(n)     == [focus |-> n, state |-> "FOCUSED"]
SelectsOf(n,c) == [cands |-> c, focus |-> n, state |-> "FOCUSED"]

\* Fault: a new list leaves the focus on the note of an older one.
FaultOffers(c) == [cands |-> c, state |-> "BROWSING"]

Offers(c)      == [cands |-> c, focus |-> Nil, state |-> "BROWSING"]

-----------------------------------------------------------------------------
\* Nothing found, or nothing of it relevant, leaves the state alone.  One note is selected;
\* several are taken together if the message was explicit, and are offered otherwise.
Search(high) ==
  UNION {IF Len(r) <= 1
         THEN {IF r = <<>> THEN Unchanged ELSE SelectsOf(r[1], r)}
         ELSE {LET c == Picked(r, ns) IN
               CASE c = <<>>    -> Unchanged
                 [] Len(c) = 1  -> SelectsOf(c[1], c)
                 [] Len(c) > 1  -> IF high THEN SelectsOf(All, c) ELSE Offers(c) :
               ns \in Picks(r)} :
         r \in Hits}

\* The candidate with this number; it may be that there is none, or that it cannot be
\* loaded.
Select(s, target) ==
  IF target \in DOMAIN s.cands THEN {Unchanged, Selects(s.cands[target])} ELSE {Unchanged}

\* All candidates; without any, a search comes first.
Aggregate(s) ==
  IF s.cands # <<>> THEN {Selects(All)}
  ELSE {IF c = <<>> THEN Unchanged ELSE SelectsOf(All, c) :
          c \in UNION {{Picked(r, ns) : ns \in Picks(r)} : r \in Hits}}

\* Answering, browsing, clarifying and talking about the conversation change nothing.
Updates(s, intent) ==
  CASE intent.action = "SEARCH"    -> Search(intent.high)
    [] intent.action = "FOCUS"     -> Select(s, intent.target)
    [] intent.action = "AGGREGATE" -> Aggregate(s)
    [] OTHER                       -> {Unchanged}

\* What the language model may say, and what is assumed if it cannot be understood (a
\* search, an answer, or browsing): "1" and no number are both the first candidate.
Intents ==
  [action : {"SEARCH"}, high : BOOLEAN] \cup [action : {"FOCUS"}, target : 1..(MaxPicks + 1)]
    \cup [action : {"AGGREGATE", "OTHER"}]

Updated(s, w) == [f \in DOMAIN s |-> IF f \in DOMAIN w THEN w[f] ELSE s[f]]
=============================================================================
