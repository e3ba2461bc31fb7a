----------------------------- MODULE MCRouting -----------------------------
(* An instance of Routing for TLC: prefixes of each kind, with and without a *)
(* key, in front of a question, of nothing and of references, and with a line *)
(* break before the question; references of                                 *)
(* each kind to two notes of the user and one of somebody else.             *)
EXTENDS Routing

CONSTANTS mine, also, theirs, plan, link, gone, teach, old

MCInner   == link :> plan
MCInTitle == plan :> {mine, theirs} @@ link :> {} @@ gone :> {}
MCInText  == plan :> {mine, also, theirs} @@ link :> {} @@ gone :> {theirs}

W       == [kind |-> "word", gap |-> "space"]
Then(g) == [kind |-> "word", gap |-> g]
R(k, a) == [kind |-> k, arg |-> a, gap |-> "space"]
P(w, p) == [words |-> w, picked |-> p]
Asking  == {R("/bypass", NoKey), R("/bypass/nuance:", teach), R("/bypass/nuance:", NoKey),
            R("/nuance:", teach), R("/nuance:", old)}
Naming  == {R("quoted", plan), R("quoted", link), R("plain", link), R("plain", plan),
            R("plain", also), R("plain", theirs), R("wiki", plan), R("wiki", gone)}
\* A prefix, and line breaks with and without a space in them.
Broken  == {<<a, Then("break"), Then("break"), W>> : a \in Asking}
           \cup {<<a, Then("mixed"), Then("break")>> : a \in Asking}
           \cup {<<a, Then("break")>> : a \in Asking}
MCMessages ==
  {P(<<W>>, <<>>)}
  \cup {P(w, <<>>) : w \in UNION {{<<a, W>>, <<a>>, <<W, a>>} : a \in Asking}}
  \cup {P(w, <<>>) : w \in Broken} \cup {P(w, <<also>>) : w \in Broken}
  \cup {P(<<a, [R("wiki", gone) EXCEPT !.gap = "break"], Then("break")>>, <<>>) : a \in Asking}
  \cup {P(<<r, W>>, <<>>) : r \in Naming}
  \cup {P(<<r, R("wiki", plan), W>>, <<>>) : r \in Naming}
  \cup {P(<<r, a, W>>, <<>>) : r \in {R("wiki", gone), R("wiki", plan)}, a \in Asking}
  \cup {P(<<a, R("wiki", plan)>>, p) :
          a \in Asking, p \in {<<>>, <<mine>>, <<also, theirs, also>>, <<theirs>>}}
=============================================================================
